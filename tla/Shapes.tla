------------------------------- MODULE Shapes -------------------------------
(***************************************************************************)
(* What the detector reads off the window graph: motifs of a candidate     *)
(* (detect/motifs.py), its layers and the per-account layer score          *)
(* (detect/layers.py), the features and the terms of the blended score     *)
(* (detect/features.py), and the links between fragments (detect/link.py). *)
(* All of it is a function of the state of WindowedGraph between calls.    *)
(*                                                                         *)
(* Of a pair the graph keeps one interval, first_t..last_t, for a list of  *)
(* transactions some of which may have expired; the properties compare     *)
(* what is read off the intervals with the transactions themselves.        *)
(*                                                                         *)
(* Abstracted: shares are pairs <<numerator, denominator>>; enumeration is *)
(* not cut at MAX_CYCLES, nor the pool at MAX_CANDIDATES; currencies,      *)
(* round amounts, jurisdictions and owners are left out.                   *)
(***************************************************************************)
EXTENDS WindowedGraph

CONSTANTS
  MAX_CYCLE_LEN, MAX_EXACT_NODES,
  SCATTER_GATHER_WINDOW_MINUTES,
  SMURF_WIDTH_SATURATION,
  MaxWidth,             \* max_width of node_smurf_score
  MaxDegree,            \* max_degree of find_links
  MinFragment, MAX_BRIDGE, MAX_MERGED_NODES, MAX_WITNESS_FANOUT,
  FastMinutes,          \* the 48 hours of is_fast_passthrough
  HourMinutes           \* the 60 minutes of an hour, in the feature's rate

ASSUME ShapesAssumption ==
  /\ IsFiniteSet(Nodes)
  /\ {MAX_CYCLE_LEN, MAX_EXACT_NODES, SCATTER_GATHER_WINDOW_MINUTES,
      SMURF_WIDTH_SATURATION, MaxWidth, MaxDegree, MinFragment, MAX_BRIDGE,
      MAX_MERGED_NODES, MAX_WITNESS_FANOUT, FastMinutes, HourMinutes}
       \subseteq Nat \ {0}

-----------------------------------------------------------------------------
(* The digraph of a candidate                                              *)

Minimum(a, b) == IF a <= b THEN a ELSE b

SubgraphEdges(nodes) == {k \in DOMAIN pairs : {k[1], k[2]} \subseteq nodes}
Succ(E, n) == {k[2] : k \in {x \in E : x[1] = n}}
Pred(E, n) == {k[1] : k \in {x \in E : x[2] = n}}
Endpoints(E) == UNION {{k[1], k[2]} : k \in E}

\* Simple cycles of three and more accounts; one cycle is here once for each
\* of its starting points.
find_cycles(E) ==
  UNION {{c \in [1..n -> Endpoints(E)] :
            /\ Cardinality({c[k] : k \in 1..n}) = n
            /\ \A k \in 1..n : <<c[k], c[(k % n) + 1]>> \in E} :
         n \in 3..Minimum(MAX_CYCLE_LEN, Cardinality(Endpoints(E)))}

HopOf(c, k) == <<c[k], c[(k % Len(c)) + 1]>>

\* From this starting point, no hop ends before an earlier one begins: the
\* clock of is_temporally_valid is the latest first_t so far.
Travels(c) ==
  \A j, k \in DOMAIN c : j < k => pairs[HopOf(c, k)].last_t >= pairs[HopOf(c, j)].first_t

\* Any of the accounts may be the first.
Rotated(c) == {[k \in DOMAIN c |-> c[((k + s) % Len(c)) + 1]] : s \in DOMAIN c}
is_temporally_valid(c) == \E r \in Rotated(c) : Travels(r)

Cyclic(S) == UNION {{c[k] : k \in DOMAIN c} : c \in S}
temporal_cycles(E) == {c \in find_cycles(E) : is_temporally_valid(c)}

\* mutant: the second leg may come first
LegsFitBackwards(e1, e2, window) ==
  e2.last_t >= e1.last_t /\ e2.first_t <= e1.last_t + window

LegsFit(e1, e2, window) ==
  e2.last_t >= e1.first_t /\ e2.first_t <= e1.last_t + window

\* The accounts through which a pays b, the whole way or within the window.
Strands(E, a, b) ==
  IF b = a \/ b \in Succ(E, a) THEN {} ELSE Succ(E, a) \cap Pred(E, b)
FastStrands(E, a, b) ==
  {m \in Strands(E, a, b) :
     LegsFit(pairs[<<a, m>>], pairs[<<m, b>>], SCATTER_GATHER_WINDOW_MINUTES)}

Widest(S) == Max({0} \cup S)
scatter_gather(E) ==
  Widest({Cardinality(Strands(E, a, b)) : a, b \in Endpoints(E)} \ {1})
scatter_gather_windowed(E) ==
  Widest({Cardinality(FastStrands(E, a, b)) : a, b \in Endpoints(E)} \ {1})
gather_scatter(E) ==
  Widest({Minimum(Cardinality(Pred(E, n) \ {n}), Cardinality(Succ(E, n) \ {n})) :
            n \in Endpoints(E)} \ {1})

\* Degrees, fan hubs and mutual pairs.
max_out_degree(E) == Widest({Cardinality(Succ(E, n)) : n \in Endpoints(E)})
max_in_degree(E) == Widest({Cardinality(Pred(E, n)) : n \in Endpoints(E)})
fan_out_count(E) == Cardinality({n \in Endpoints(E) : Cardinality(Succ(E, n)) >= 2})
fan_in_count(E) == Cardinality({n \in Endpoints(E) : Cardinality(Pred(E, n)) >= 2})
n_mutual_pairs(E) == Cardinality({{k[1], k[2]} : k \in
                       {x \in E : x[1] # x[2] /\ <<x[2], x[1]>> \in E}})

-----------------------------------------------------------------------------
(* Layers                                                                  *)

Senders(E) == {n \in Endpoints(E) : Pred(E, n) = {}}
Receivers(E) == {n \in Endpoints(E) : Succ(E, n) = {}}

\* mutant: whoever is paid is a mule, those who only receive too
MulesArePaid(E) == Endpoints(E) \ Senders(E)

Mules(E) == Endpoints(E) \ (Senders(E) \cup Receivers(E))
n_passthrough(E) ==
  Cardinality({n \in Endpoints(E) : Succ(E, n) # {} /\ Pred(E, n) # {}})

\* block_densities: edges present over edges possible.
Block(E, S, R) ==
  <<Cardinality({k \in E : k[1] \in S /\ k[2] \in R /\ k[1] # k[2]}),
    Cardinality(S) * Cardinality(R) - Cardinality(S \cap R)>>

Zero == <<0, 1>>
Share(p) == IF p[2] > 0 THEN p ELSE Zero
NoMoreThan(p, q) == p[1] * q[2] <= q[1] * p[2]
Least(p, q) == IF NoMoreThan(p, q) THEN p ELSE q

bipartite(E) ==
  IF Cardinality(Senders(E)) >= 2 /\ Cardinality(Receivers(E)) >= 2
  THEN Share(Block(E, Senders(E), Receivers(E))) ELSE Zero
stack(E) ==
  Least(Share(Block(E, Senders(E), Mules(E))), Share(Block(E, Mules(E), Receivers(E))))

Plus(p, q) == <<p[1] * q[2] + q[1] * p[2], p[2] * q[2]>>

\* gargaml: the mean of the two HIGH_BLOCKS less the mean of the other seven.
gargaml(E) ==
  LET share(X, Y) == Share(Block(E, X, Y))
      s == Senders(E)
      m == Mules(E)
      r == Receivers(E)
      high == Plus(share(s, m), share(m, r))
      low == Plus(share(s, r), Plus(share(m, m),
               Plus(Plus(share(s, s), share(r, r)),
                    Plus(share(m, s), Plus(share(r, m), share(r, s))))))
  IN <<7 * high[1] * low[2] - 2 * low[1] * high[2], 14 * high[2] * low[2]>>

\* The layer score of one account in the whole graph, and what it is made of.
Payers(n) == in_adj[n] \ {n}
Payees(n) == out_adj[n] \ {n}
Paying(S, R) == Cardinality({u \in S : out_adj[u] \cap R # {}})

\* mutant: the mean is taken over the terms that are not zero
TermsNonzero(S, R) ==
  Maximum(1, Cardinality({k \in 1..5 : <<Paying(S, S), Paying(R, R), Paying(S, R),
                                        Paying(R, S), Cardinality(S \cap R)>>[k] > 0}))

\* How many shares the mean is taken over.
Terms(S, R) == 4 + (IF S # {} THEN 1 ELSE 0) + (IF R # {} THEN 1 ELSE 0)

node_smurf_score(n) ==
  LET S == Payers(n)
      R == Payees(n)
      s == Maximum(1, Cardinality(S))
      r == Maximum(1, Cardinality(R))
      both == Cardinality(S \cap R)
      \* the mean of the terms is impure over pure
      impure == (Paying(S, S) + Paying(S, R) + both) * r
                  + (Paying(R, R) + Paying(R, S) + both) * s
      pure == Terms(S, R) * s * r
      \* twice the width
      width == IF S # {} /\ R # {} THEN 2 * Minimum(Cardinality(S), Cardinality(R))
               ELSE Maximum(Cardinality(S), Cardinality(R))
      full == 2 * SMURF_WIDTH_SATURATION
  IN IF Cardinality(S) + Cardinality(R) \in 1..MaxWidth
     THEN <<Maximum(0, pure - impure) * Minimum(width, full), pure * full>>
     ELSE Zero

-----------------------------------------------------------------------------
(* Features and the terms of the score                                     *)

Sum(f, S) == Total(f, S \cap DOMAIN f)
Internal(nodes) == Total(Amounts, SubgraphEdges(nodes))

\* mutant: an internal payment is taken off once for both directions
BoundaryFlowOnce(nodes) ==
  [inflow |-> Sum(total_in, nodes) - Internal(nodes), outflow |-> Sum(total_out, nodes)]

\* By the identity; the walk that replaces it near zero gives the same.
BoundaryFlow(nodes) ==
  [inflow |-> Sum(total_in, nodes) - Internal(nodes),
   outflow |-> Sum(total_out, nodes) - Internal(nodes)]

BoundaryWalk(nodes) ==
  LET In == {k \in DOMAIN pairs : k[1] \notin nodes /\ k[2] \in nodes}
      Out == {k \in DOMAIN pairs : k[1] \in nodes /\ k[2] \notin nodes}
  IN [inflow |-> Total(Amounts, In), outflow |-> Total(Amounts, Out)]

\* Volume and timing of a candidate; the span is taken from the pairs' times.
n_txns(nodes) == Total([k \in DOMAIN pairs |-> pairs[k].count], SubgraphEdges(nodes))
total_amount(nodes) == Internal(nodes) + BoundaryFlow(nodes).inflow
span_minutes(E) ==
  IF E = {} THEN 0 ELSE Max({pairs[k].last_t : k \in E}) - Min({pairs[k].first_t : k \in E})

\* Most of what came in went out, within two days of the first of it; nothing
\* that came in is no share.
is_fast_passthrough(n) ==
  LET st == account_stats[n]
      latency == st.outflow.last_t - st.inflow.first_t
  IN /\ st.inflow.n > 0 /\ st.outflow.n > 0
     /\ st.inflow.total > 0
     /\ 10 * st.outflow.total >= 8 * st.inflow.total
     /\ latency \in 0..FastMinutes

\* The accounts that have statistics: they were paid or have paid.
WithStats(nodes) ==
  {n \in nodes : account_stats[n].inflow.n + account_stats[n].outflow.n > 0}

Exact(nodes) == Cardinality(Endpoints(SubgraphEdges(nodes))) <= MAX_EXACT_NODES

\* Six tenths of the share of accounts on a cycle, four for a short one.
CycleTerm(cycles, nodes) ==
  <<6 * Cardinality(Cyclic(cycles))
      + (IF \E c \in cycles : Len(c) <= 4 THEN 4 * Cardinality(nodes) ELSE 0),
    10 * Cardinality(nodes)>>

Norm(x, cap) == <<Minimum(x, cap), cap>>

score_terms(nodes) ==
  LET E == SubgraphEdges(nodes)
      flow == BoundaryFlow(nodes)
      hi == Maximum(flow.inflow, flow.outflow)
      lo == Minimum(flow.inflow, flow.outflow)
      If(x, term) == IF x THEN term ELSE Zero
      members == WithStats(nodes)
      layered == gargaml(E)
      hours == Maximum(HourMinutes, span_minutes(E))
  IN [temporal_cycle |-> If(Exact(nodes), CycleTerm(temporal_cycles(E), nodes)),
      cycle |-> If(Exact(nodes), CycleTerm(find_cycles(E), nodes)),
      conservation |-> If(hi > 0, <<lo, hi>>),
      scatter_gather |-> If(Exact(nodes), Norm(scatter_gather(E), 5)),
      scatter_gather_6h |-> If(Exact(nodes), Norm(scatter_gather_windowed(E), 5)),
      gather_scatter |-> If(Exact(nodes), Norm(gather_scatter(E), 5)),
      fast_passthrough |->
        If(members # {}, <<Cardinality({n \in members : is_fast_passthrough(n)}),
                           Cardinality(members)>>),
      passthrough |-> <<n_passthrough(E), Cardinality(nodes)>>,
      burstiness |-> Norm(n_txns(nodes) * HourMinutes, 20 * hours),
      gargaml |-> <<Maximum(0, layered[1]), layered[2]>>,
      bipartite |-> bipartite(E),
      stack |-> stack(E)]

-----------------------------------------------------------------------------
(* Links between fragments                                                 *)

Eligible(x) == Cardinality(out_adj[x] \cup in_adj[x]) <= MaxDegree
BoundaryOut(C) == {x \in (UNION {out_adj[n] : n \in C}) \ C : Eligible(x)}
BoundaryIn(C) == {x \in (UNION {in_adj[n] : n \in C}) \ C : Eligible(x)}

\* An account on the boundary of too many candidates is a thoroughfare.
Thoroughfare(pool, x) ==
  \/ Cardinality({C \in pool : x \in BoundaryOut(C)}) > MAX_WITNESS_FANOUT
  \/ Cardinality({C \in pool : x \in BoundaryIn(C)}) > MAX_WITNESS_FANOUT

bridge(pool, C1, C2) ==
  {x \in BoundaryOut(C1) \cap BoundaryIn(C2) : ~Thoroughfare(pool, x)}

\* mutant: the first time x was paid against the first time it paid
OrderedByFirst(C1, x, C2) ==
  \E n \in C1, m \in C2 :
    /\ <<n, x>> \in DOMAIN pairs /\ <<x, m>> \in DOMAIN pairs
    /\ pairs[<<x, m>>].first_t >= pairs[<<n, x>>].first_t

TemporallyOrdered(C1, x, C2) ==
  \E n \in C1, m \in C2 :
    /\ <<n, x>> \in DOMAIN pairs /\ <<x, m>> \in DOMAIN pairs
    /\ pairs[<<x, m>>].last_t >= pairs[<<n, x>>].first_t

find_links(pool) ==
  {l \in pool \X pool :
     LET b == bridge(pool, l[1], l[2])
     IN /\ l[1] # l[2] /\ Cardinality(b) \in 1..MAX_BRIDGE
        /\ Cardinality(l[1]) >= MinFragment /\ Cardinality(l[2]) >= MinFragment
        /\ ~(l[1] \subseteq l[2]) /\ ~(l[2] \subseteq l[1])
        /\ Cardinality(l[1] \cup l[2]) <= MAX_MERGED_NODES
        /\ \E x \in b : TemporallyOrdered(l[1], x, l[2])}

-----------------------------------------------------------------------------
(* Properties                                                              *)

Idle == pc = "idle"
Candidates == {C \in SUBSET Nodes : Cardinality(C) >= 2}

\* The transactions themselves: money went round the cycle, from its first
\* account on, by transactions among P, none before the one it follows.
Travelled(c, P) ==
  \E f \in [DOMAIN c -> P] :
    /\ \A k \in DOMAIN c : Key(stream[f[k]]) = HopOf(c, k)
    /\ \A j, k \in DOMAIN c : j < k => stream[f[j]].ts <= stream[f[k]].ts

\* Money went from S over x to R, by a payment among P and a later one held.
Passed(S, x, R, P, within) ==
  \E p \in P, q \in Held :
    /\ stream[p].src \in S /\ stream[p].dst = x
    /\ stream[q].src = x /\ stream[q].dst \in R
    /\ stream[q].ts - stream[p].ts \in 0..within

Ever == stream[Len(stream)].ts

\* The detectors miss nothing that the window holds: money that really went
\* round a loop makes it temporally valid, whatever point the enumeration
\* starts it at, and every strand that carried money within the scatter-gather
\* window counts to the width.
NothingRealIsMissed ==
  Idle =>
    LET E == DOMAIN pairs
    IN /\ \A c \in find_cycles(E) : Travelled(c, Held) => c \in temporal_cycles(E)
       /\ \A a, b \in Nodes : \A m \in Strands(E, a, b) :
            Passed({a}, m, {b}, Held, SCATTER_GATHER_WINDOW_MINUTES)
              => m \in FastStrands(E, a, b)

\* By the levels' definition a payment lies in one of four of the nine blocks,
\* so two blocks only may lower the layered score: not at all when they are
\* empty, and by two sevenths at most.
LayeredScoreIsBounded(E) ==
  LET score == gargaml(E)
      noise == Block(E, Mules(E), Mules(E))[1] + Block(E, Senders(E), Receivers(E))[1]
      first == Share(Block(E, Senders(E), Mules(E)))
      second == Share(Block(E, Mules(E), Receivers(E)))
      sum == Plus(first, second)
      high == <<sum[1], 2 * sum[2]>>
  IN /\ Cardinality({k \in E : k[1] # k[2]}) = noise + first[1] + second[1]
     /\ NoMoreThan(score, high)
     /\ noise = 0 => NoMoreThan(high, score)
     /\ NoMoreThan(<<7 * high[1] - 2 * high[2], 7 * high[2]>>, score)

\* Every shape has the fans it is made of: a scatter-gather and a gather-scatter
\* have a hub on either side, no narrower than they are; and a graph in which
\* no account has two payers or two payees is a set of lines and loops.
ShapesHaveTheirFans(E) ==
  LET Widths == {scatter_gather(E), gather_scatter(E)}
      out == max_out_degree(E)
      into == max_in_degree(E)
  IN /\ \A w \in Widths : w <= Minimum(out, into)
     /\ Widths # {0} => fan_out_count(E) > 0 /\ fan_in_count(E) > 0
     /\ (out >= 2) = (fan_out_count(E) > 0)
     /\ (into >= 2) = (fan_in_count(E) > 0)
     /\ 2 * n_mutual_pairs(E) <= Cardinality(E)
     /\ out <= 1 /\ into <= 1 =>
          Cardinality(Cyclic(find_cycles(E))) + 2 * n_mutual_pairs(E) <= Cardinality(E)

\* The blend's evidence is ordered as its meaning demands, in every candidate:
\* every term is a share; a loop in time is a loop; a strand in time is a
\* strand; the layers and the motifs agree on who passes money through, and
\* what the layers call a stack has all three of them.
EvidenceHangsTogether ==
  Idle => \A nodes \in Candidates :
    LET E == SubgraphEdges(nodes)
        terms == score_terms(nodes)
    IN /\ \A x \in DOMAIN terms : 0 <= terms[x][1] /\ terms[x][1] <= terms[x][2]
       /\ NoMoreThan(terms.temporal_cycle, terms.cycle)
       /\ NoMoreThan(terms.scatter_gather_6h, terms.scatter_gather)
       /\ n_passthrough(E) = Cardinality(Mules(E))
       /\ Cyclic(find_cycles(E)) \subseteq Mules(E)
       /\ LayeredScoreIsBounded(E)
       /\ ShapesHaveTheirFans(E)
       /\ terms.stack[1] > 0 => Senders(E) # {} /\ Mules(E) # {} /\ Receivers(E) # {}

\* The flow over a candidate's boundary computed from running totals is the
\* one a walk over its neighbours finds, for every set of accounts.
BoundaryFlowIsExact ==
  Idle => \A nodes \in SUBSET Nodes : BoundaryFlow(nodes) = BoundaryWalk(nodes)

\* A candidate's volume is that of the transactions held among its accounts
\* and into them.  Its span errs on one side: never shorter than between the
\* transactions held, longer only by those that have left the window.
VolumeIsExact ==
  Idle => \A nodes \in Candidates :
    LET Inside(P) == {p \in P : {stream[p].src, stream[p].dst} \subseteq nodes}
        Span(P) == IF P = {} THEN 0
                   ELSE Max({stream[p].ts : p \in P}) - Min({stream[p].ts : p \in P})
    IN /\ n_txns(nodes) = Cardinality(Inside(Held))
       /\ total_amount(nodes)
            = Total([p \in Held |-> stream[p].amount],
                    {p \in Held : stream[p].dst \in nodes})
       /\ Inside(Held) # {} =>
            span_minutes(SubgraphEdges(nodes)) \in Span(Inside(Held))..Span(Inside(1..left))

\* What statistics and running totals say of flows, the transactions say too.
FlowsAreExact ==
  LifetimeCoversWindow /\ TotalsMatchPairs /\ BoundaryFlowIsExact /\ VolumeIsExact

\* A link is witnessed: its bridge lies outside both fragments, and through
\* one of it money did go from the first to the second, though the first leg
\* may have left the window by now.  And between the eligible it is found.
LinksAreWitnessed ==
  Idle =>
    LET pool == {C \in SUBSET Nodes : Cardinality(C) \in 1..MinFragment + 1}
        links == find_links(pool)
    IN \A C1, C2 \in pool :
         LET b == bridge(pool, C1, C2)
         IN /\ <<C1, C2>> \in links =>
                 /\ b \cap (C1 \cup C2) = {}
                 /\ \E x \in b : Passed(C1, x, C2, 1..left, Ever)
            /\ /\ ~(C1 \subseteq C2) /\ ~(C2 \subseteq C1)
               /\ Minimum(Cardinality(C1), Cardinality(C2)) >= MinFragment
               /\ Cardinality(b) <= MAX_BRIDGE
               /\ Cardinality(C1 \cup C2) <= MAX_MERGED_NODES
               /\ \E x \in b : Passed(C1, x, C2, Held, Ever)
               => <<C1, C2>> \in links

\* One more payment among an account's counterparties never makes it look
\* purer: with the same payers and payees, its layer score does not rise.
ContaminationNeverHelps ==
  [][pc = "add" =>
       \A n \in Nodes :
         /\ Payers(n)' = Payers(n) /\ Payees(n)' = Payees(n)
         => NoMoreThan(node_smurf_score(n)', node_smurf_score(n))]_vars

\* motifs.py:137: "A cycle is temporally valid when each hop can occur after
\* the previous one arrived", for "some choice of transactions".
ValidLoopsAreTravelled ==
  Idle => \A c \in temporal_cycles(DOMAIN pairs) :
            \E r \in Rotated(c) : Travelled(r, 1..left)
=============================================================================
