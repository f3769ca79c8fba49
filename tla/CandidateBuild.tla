---------------------------- MODULE CandidateBuild ----------------------------
(***************************************************************************)
(* How one candidate is made of one seed: the bounded expansion            *)
(* (WindowedGraph.expand_traced), the pruning of what expansion dragged in *)
(* (detect/prune.py), and the two size tests of                            *)
(* CandidateGenerator.generate.                                            *)
(*                                                                         *)
(* One action is one iteration of a loop of that code.  Where the code     *)
(* iterates over a set, or sorts one by a key that ties, the model takes   *)
(* any order.                                                              *)
(***************************************************************************)
EXTENDS Neighbourhood

CONSTANTS
  Caps,         \* the values of EXPAND_MAX_NODES considered
  MinEdges,     \* MIN_EDGES
  Strategies,   \* the pruning strategies considered
  GraphSet      \* the window graphs considered

ASSUME BuildAssumption ==
  /\ Caps \subseteq Nat \ {0} /\ MinEdges \in Nat
  /\ Strategies \subseteq {"none", "leaf2", "kcore2", "near_or_linked"}
  /\ GraphSet \subseteq Graphs

VARIABLES
  graph, seed, strategy, max_nodes,   \* the arguments, never written
  seen, frontier, trace,   \* locals of expand_traced
  nodes,                   \* the member set handed from stage to stage
  keep, todo, changed,     \* locals of prune: the set, the pass, the flag
  pc

args == <<graph, seed, strategy, max_nodes>>
expansion == <<seen, frontier, trace>>
pruning == <<keep, todo, changed>>
vars == <<graph, seed, strategy, max_nodes, seen, frontier, trace, nodes,
          keep, todo, changed, pc>>

NewTrace == [hops_completed |-> 0, hub_blocked |-> 0, truncated |-> FALSE,
             exhausted |-> FALSE, hit_node_cap |-> FALSE]

Init ==
  /\ graph \in GraphSet
  /\ seed \in Nodes
  /\ strategy \in Strategies
  /\ max_nodes \in Caps
  /\ seen = {seed}
  /\ frontier = {seed}
  /\ trace = NewTrace
  /\ nodes = {}
  /\ keep = {}
  /\ todo = {}
  /\ changed = FALSE
  /\ pc = "expand"

-----------------------------------------------------------------------------
(* Expansion.  Every iteration that does not leave the loop completes a    *)
(* hop, so hops_completed is the loop counter.                             *)

Blocked == {n \in frontier : IsHub(graph, n)}

NextHop == (UNION {Neighbours(graph, n) : n \in frontier \ Blocked}) \ seen

Room == max_nodes - Cardinality(seen)

InHop == pc = "expand" /\ trace.hops_completed < Hops

\* mutant: a refused hub leaves no trace
AtHubsSilently == trace

\* the trace once this hop's hubs have been refused
AtHubs == [trace EXCEPT !.hub_blocked = @ + Cardinality(Blocked)]

\* nothing left to add
Exhaust ==
  /\ InHop
  /\ NextHop = {}
  /\ trace' = [AtHubs EXCEPT !.exhausted = TRUE]
  /\ nodes' = seen
  /\ pc' = "prune"
  /\ UNCHANGED <<args, seen, frontier, pruning>>

\* no room for what is left
HitNodeCap ==
  /\ InHop
  /\ NextHop # {}
  /\ Room <= 0
  /\ trace' = [AtHubs EXCEPT !.hit_node_cap = TRUE]
  /\ nodes' = seen
  /\ pc' = "prune"
  /\ UNCHANGED <<args, seen, frontier, pruning>>

\* the least connected first, ties in any order
Tightest(from, n, s) ==
  /\ s \subseteq from
  /\ Cardinality(s) = n
  /\ \A x \in s, y \in from \ s :
       Cardinality(Neighbours(graph, x)) <= Cardinality(Neighbours(graph, y))

\* one completed hop: everything, or what there is room for
Hop ==
  /\ InHop
  /\ NextHop # {}
  /\ Room > 0
  /\ LET cut == Cardinality(NextHop) > Room IN
     /\ \E nxt \in SUBSET NextHop :
          /\ IF cut THEN Tightest(NextHop, Room, nxt) ELSE nxt = NextHop
          /\ seen' = seen \cup nxt
          /\ frontier' = nxt
     /\ trace' = [AtHubs EXCEPT !.truncated = @ \/ cut, !.hops_completed = @ + 1]
  /\ UNCHANGED <<args, nodes, pruning, pc>>

\* the hop budget is spent
HopsDone ==
  /\ pc = "expand"
  /\ trace.hops_completed = Hops
  /\ nodes' = seen
  /\ pc' = "prune"
  /\ UNCHANGED <<args, expansion, pruning>>

-----------------------------------------------------------------------------
(* Pruning.                                                                *)

\* strategy none, or nothing to spare
PruneNothing ==
  /\ pc = "prune"
  /\ strategy = "none" \/ Cardinality(nodes) <= MinNodes
  /\ pc' = "check"
  /\ UNCHANGED <<args, expansion, nodes, pruning>>

Prunable(s) ==
  pc = "prune" /\ strategy = s /\ Cardinality(nodes) > MinNodes

PruneLeaf2 ==
  /\ Prunable("leaf2")
  /\ nodes' = Settle(Leaf2(graph, nodes, seed), nodes)
  /\ pc' = "check"
  /\ UNCHANGED <<args, expansion, pruning>>

\* the two strategies that loop start from all, and from what leaf2 keeps
StartLoop ==
  /\ \/ Prunable("kcore2") /\ keep' = nodes
     \/ Prunable("near_or_linked") /\ keep' = Leaf2(graph, nodes, seed)
  /\ changed' = TRUE
  /\ todo' = {}
  /\ pc' = "loop"
  /\ UNCHANGED <<args, expansion, nodes>>

PassOver == pc = "loop" /\ todo = {}
\* mutant: the flag that something changed is not consulted
AnotherPassAlways == Cardinality(keep) > MinNodes

AnotherPass == changed /\ Cardinality(keep) > MinNodes

StartPass ==
  /\ PassOver
  /\ AnotherPass
  /\ todo' = keep
  /\ changed' = FALSE
  /\ UNCHANGED <<args, expansion, nodes, keep, pc>>

\* never examined: the seed; near_or_linked also spares what is next to it
Protected ==
  IF strategy = "kcore2" THEN {seed} ELSE Near(graph, nodes, seed)

\* mutant: two ties are one too few
StragglerStrict(n) ==
  /\ n \notin Protected
  /\ Cardinality(LinkedTo(graph, nodes, n) \cap keep) <= 2

\* fewer than two ties to what is kept so far
Straggler(n) ==
  /\ n \notin Protected
  /\ Cardinality(LinkedTo(graph, nodes, n) \cap keep) < 2

Examine ==
  /\ pc = "loop"
  /\ \E n \in todo :
       IF Straggler(n)
       THEN /\ keep' = keep \ {n}
            /\ changed' = TRUE
            /\ todo' = IF strategy = "kcore2"
                          /\ Cardinality(keep \ {n}) <= MinNodes
                       THEN {} ELSE todo \ {n}
       ELSE /\ todo' = todo \ {n}
            /\ UNCHANGED <<keep, changed>>
  /\ UNCHANGED <<args, expansion, nodes, pc>>

EndLoop ==
  /\ PassOver
  /\ ~AnotherPass
  /\ nodes' = Settle(keep, nodes)
  /\ pc' = "check"
  /\ UNCHANGED <<args, expansion, pruning>>

\* the two size tests of generate
BigEnough ==
  /\ Cardinality(nodes) >= MinNodes
  /\ Cardinality(SubgraphEdges(graph, nodes)) >= MinEdges

Decide ==
  /\ pc = "check"
  /\ pc' = IF BigEnough THEN "emitted" ELSE "too_small"
  /\ UNCHANGED <<args, expansion, nodes, pruning>>

Next ==
  \/ Exhaust \/ HitNodeCap \/ Hop \/ HopsDone
  \/ PruneNothing \/ PruneLeaf2 \/ StartLoop \/ StartPass \/ Examine \/ EndLoop
  \/ Decide

\* The call runs on one thread and nothing in it waits.
Spec == Init /\ [][Next]_vars /\ WF_vars(Next)

-----------------------------------------------------------------------------
(* Properties.                                                             *)

TypeOK ==
  /\ graph \in GraphSet /\ seed \in Nodes /\ strategy \in Strategies
  /\ max_nodes \in Caps
  /\ seen \subseteq Nodes /\ frontier \subseteq Nodes
  /\ trace \in [hops_completed : 0..Hops, hub_blocked : Nat,
                truncated : BOOLEAN, exhausted : BOOLEAN,
                hit_node_cap : BOOLEAN]
  /\ nodes \subseteq Nodes /\ keep \subseteq nodes /\ todo \subseteq keep
  /\ changed \in BOOLEAN
  /\ pc \in {"expand", "prune", "loop", "check", "emitted", "too_small"}

Expanded == pc # "expand"
Truncated == trace.truncated \/ trace.hit_node_cap

\* The loop computes what the hub guard and the hop budget promise: exactly
\* the accounts within Hops on hub-free paths, or a part of them if it says
\* that it was cut short (expand_traced).
ExpansionIsBoundedReach ==
  Expanded =>
    /\ seen \subseteq ReachWithin(graph, seed)
    /\ ~Truncated => seen = ReachWithin(graph, seed)
    /\ Cardinality(seen) <= max_nodes

\* `A record of why it stopped where it did': whenever an account next to the
\* neighbourhood was left out, the trace names a hub, the node cap or the
\* spent hop budget as the reason (expand_traced).
TraceExplainsStop ==
  Expanded =>
    \/ \A n \in seen : Neighbours(graph, n) \subseteq seen
    \/ trace.hub_blocked > 0
    \/ Truncated
    \/ trace.hops_completed = Hops

\* Pruning tightens the candidate and never takes it apart: whatever order
\* the sets are walked in, the members still hang together with the seed
\* that they were collected for (prune).
OneStructure ==
  pc \in {"check", "emitted"} => seed \in nodes /\ Connected(graph, nodes, seed)

\* `Never returns fewer than min_nodes': a neighbourhood that was large
\* enough to be a structure is still one after pruning (prune).
NeverBelowMinimum ==
  pc \in {"check", "emitted", "too_small"} /\ Cardinality(seen) >= MinNodes =>
    Cardinality(nodes) >= MinNodes

\* every member is at most two hops from the seed
TwoHopShape(s) ==
  \A n \in s : \E m \in Near(graph, s, seed) : n = m \/ n \in LinkedTo(graph, s, m)

\* Within two hops, the shipped depth, near_or_linked, said to be `stricter',
\* prunes exactly what leaf2 prunes: its second pass never finds a straggler
\* (prune, and the identical rows of the table in sentinel/config.py).
NearOrLinkedIsLeaf2 ==
  pc = "emitted" /\ strategy = "near_or_linked" /\ Cardinality(seen) > MinNodes
    /\ TwoHopShape(seen) =>
  nodes = Settle(Leaf2(graph, seen, seed), seen)

\* The neighbourhood collected is the one promised, and the trace that goes
\* with it is true (expand_traced).
ExpansionIsSound == TypeOK /\ ExpansionIsBoundedReach /\ TraceExplainsStop

\* What pruning promises, whatever the order in which sets are walked (prune).
PruningIsSound == NeverBelowMinimum /\ NearOrLinkedIsLeaf2

\* Every call returns (expand_traced and prune).
Returns == <>(pc \in {"emitted", "too_small"})
=============================================================================
