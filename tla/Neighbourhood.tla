---------------------------- MODULE Neighbourhood ----------------------------
(***************************************************************************)
(* What the detector reads from the money graph: neighbours, the edges     *)
(* among a set of accounts, and the candidate that a seed stands for.      *)
(* A graph is the set of its ordered (payer, payee) pairs: out_adj and     *)
(* in_adj of src/sentinel/graph/window.py list exactly these (that they    *)
(* agree is AdjacencyMatchesPairs of WindowedGraph).                       *)
(***************************************************************************)
EXTENDS Integers, FiniteSets

CONSTANTS
  Nodes,       \* accounts
  Hops,        \* EXPAND_HOPS
  MaxDegree,   \* EXPAND_MAX_DEGREE, the hub guard
  MinNodes     \* MIN_NODES

ASSUME NeighbourhoodAssumption ==
  /\ IsFiniteSet(Nodes)
  /\ Hops \in Nat /\ MaxDegree \in Nat
  /\ MinNodes \in Nat \ {0}

Graphs == SUBSET (Nodes \X Nodes)

OutAdj(g, n) == {d \in Nodes : <<n, d>> \in g}
InAdj(g, n) == {s \in Nodes : <<s, n>> \in g}

\* WindowedGraph.neighbours: direction is dropped
Neighbours(g, n) == OutAdj(g, n) \cup InAdj(g, n)

IsHub(g, n) == Cardinality(Neighbours(g, n)) > MaxDegree

\* WindowedGraph.subgraph_edges
SubgraphEdges(g, nodes) == {e \in g : e[1] \in nodes /\ e[2] \in nodes}

\* mutant: the payee does not learn of the payer
LinkedToOneWay(g, nodes, n) == {m \in nodes \ {n} : <<n, m>> \in g}

\* prune._induced_adjacency: undirected, inside `nodes', without self-transfers
LinkedTo(g, nodes, n) ==
  {m \in nodes \ {n} : <<n, m>> \in g \/ <<m, n>> \in g}

\* dist.get(n, 99) <= 1 in prune: all that the strategies ask of _hops_from
Near(g, nodes, seed) == {seed} \cup LinkedTo(g, nodes, seed)

\* the set kept by strategy leaf2, and where near_or_linked starts from
Leaf2(g, nodes, seed) ==
  Near(g, nodes, seed)
    \cup {n \in nodes : Cardinality(LinkedTo(g, nodes, n)) >= 2}

\* prune's last word: too small a remainder is no tightening at all
Settle(keep, nodes) == IF Cardinality(keep) >= MinNodes THEN keep ELSE nodes

-----------------------------------------------------------------------------
(* The reference: the accounts within Hops of the seed on a path that does *)
(* not pass through a hub, by the number of hops.                          *)

ReachWithin(g, seed) ==
  LET R[k \in 0..Hops] ==
        IF k = 0 THEN {seed}
        ELSE R[k - 1] \cup
             UNION {Neighbours(g, n) : n \in {m \in R[k - 1] : ~IsHub(g, m)}}
  IN R[Hops] \cap Nodes

\* All of `nodes' hangs together with the seed by edges among `nodes'.
Connected(g, nodes, seed) ==
  LET C[k \in 0..Cardinality(nodes)] ==
        IF k = 0 THEN {seed}
        ELSE {n \in nodes : n \in C[k - 1] \/
                \E m \in C[k - 1] : <<n, m>> \in g \/ <<m, n>> \in g}
  IN nodes \subseteq C[Cardinality(nodes)]
=============================================================================
