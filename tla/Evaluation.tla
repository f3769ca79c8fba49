----------------------------- MODULE Evaluation -----------------------------
(***************************************************************************)
(* The evaluation harness: eight programs that replay the same stream and  *)
(* count, cycle by cycle, which planted rings the candidates cover -       *)
(* scripts/eval_funnel.py with eval/funnel.py, scripts/eval_phase2.py, the *)
(* threshold band around it (eval_threshold_band.py), the fixture gates of *)
(* scripts/ci_gates.py, the labelled pool of scripts/eval_oracle.py, the   *)
(* two seed rules of eval_seed_cheat_diff.py, the trials of fragment links *)
(* (eval_fragment_link.py) and of seed arms (eval_seed_arms.py) - and what *)
(* is computed from the counts: recall per owning cycle                    *)
(* (eval/bootstrap.py), the train/test split, its query groups and the     *)
(* per-ring rows (eval_oracle.py, eval_ranker.py, eval_ring_unit.py,       *)
(* learn/reranker.py).                                                     *)
(*                                                                         *)
(* A cycle is what the replay gives them all: the labelled rings with      *)
(* traffic in the window, in the order of a dictionary built from the      *)
(* edges, the accounts seeded, and the candidates in rank order.  The      *)
(* baseline rankings, the features, the fitted models and the expansions   *)
(* repeated from a ring's seeds are left out.                              *)
(***************************************************************************)
EXTENDS Selection, FiniteSetsExt, SequencesExt

CONSTANTS
  TypologyOf,      \* ring -> its typology; its domain is the rings
  Traffics,        \* sequences of [ring, members]: what a window shows of them
  Seedings,        \* sets of accounts that the seed rule may fire on
  Queues,          \* sequences of candidates, each its set of accounts
  CheatPools,      \* queue -> the queue when all ring accounts are seeds too
  JoinedBy,        \* queue -> the pairs [a, c, at] that find_links joins
  DrawnPairs,      \* queue -> the pairs that the random arm draws
  MAX_MERGED_NODES,
  Touched,         \* seeds -> the accounts of the batch they were found in
  ExtraSeeds,      \* arm -> seeds -> the accounts its budget adds
  ArmPools,        \* added arm -> queue of the shipped arm -> the arm's queue
  TriesPerMerge,   \* the 40 draws per link
  Ks,              \* the depths k: 10, 20 and 50
  DeepKs,          \* those of eval_phase2 and of the band, to 100
  RANK_K,          \* the k of the funnel's last stage
  MIN_RING_NODES,
  HIT_SHARES, MIN_JACCARDS,           \* the band, in tenths
  SplitNumerator, SplitDenominator,   \* SPLIT_FRACTION
  MaxQueryRows,    \* cap of _cap_query_rows
  Whole,           \* what one ring counts in fractional attribution
  MaxCycles        \* bound: generation cycles

\* a window's rings come out of a dictionary; candidates are sets of accounts
RingTable(traffic) ==
  /\ traffic \in Seq(ToSet(traffic))
  /\ \A r, s \in ToSet(traffic) : r.ring = s.ring => r = s
  /\ \A r \in ToSet(traffic) : r.ring \in DOMAIN TypologyOf /\ IsFiniteSet(r.members)
IsQueue(queue) ==
  queue \in Seq(ToSet(queue)) /\ \A nodes \in ToSet(queue) : IsFiniteSet(nodes)
IsPairing(pairs, queue) ==
  /\ pairs \in Seq([a : DOMAIN queue, c : DOMAIN queue, at : 0..Len(queue)])
  /\ \A pair \in ToSet(pairs) : pair.a # pair.c

ASSUME EvaluationAssumption ==
  /\ IsFiniteSet(DOMAIN TypologyOf) /\ "none" \notin DOMAIN TypologyOf
  /\ RANK_K \in Ks /\ Ks \subseteq DeepKs
  /\ DeepKs \subseteq Nat \ {0} /\ IsFiniteSet(DeepKs)
  /\ MIN_RING_NODES \in Nat \ {0} /\ {MaxQueryRows, MaxCycles, TriesPerMerge} \subseteq Nat
  /\ SplitDenominator \in Nat \ {0} /\ SplitNumerator \in 0..SplitDenominator
  /\ Whole \in Nat /\ \A m \in 1..MaxCycles : Whole % m = 0
  /\ 5 \in HIT_SHARES /\ 3 \in MIN_JACCARDS /\ HIT_SHARES \cup MIN_JACCARDS \subseteq Nat
  /\ \A traffic \in Traffics : RingTable(traffic)
  /\ \A queue \in Queues :
       /\ queue \in DOMAIN CheatPools \cap DOMAIN JoinedBy \cap DOMAIN DrawnPairs
       /\ IsQueue(queue) /\ IsPairing(JoinedBy[queue], queue)
       /\ IsPairing(DrawnPairs[queue], queue)
  /\ \A arm \in DOMAIN ArmPools :
       /\ \A seeds \in Seedings : /\ seeds \subseteq Touched[seeds]
                                  /\ ExtraSeeds[arm][seeds] \subseteq Touched[seeds] \ seeds
       \* more seeds never leave a cycle without candidates
       /\ \A queue \in Queues : /\ IsQueue(ArmPools[arm][queue])
                                /\ queue # <<>> => ArmPools[arm][queue] # <<>>

VARIABLES
  cycles,      \* the generation cycles so far
  reached,     \* FunnelTracker._reached: pairs of a ring and a stage
  records,     \* cycle_records of eval_funnel: [seen, found, hit, tot] by k
  phase2,      \* eval_phase2: [seen, found, hit, tot]
  band,        \* eval_threshold_band: [seen, tot, cells]
  gate,        \* ci_gates.metrics, likewise
  per_ring,    \* eval_seed_cheat_diff: ring -> its record
  linking,     \* eval_fragment_link: arm -> [reached, hit, tot, added]
  seed_arms,   \* eval_seed_arms: arm -> [reached, rows]
  ceiling,     \* its rings: [reachable, touched, passthrough]
  labelled,    \* collect_pool's records: [t, ring]
  first_t      \* ring_first_t: [ring, t] in the order of the dictionary

evaluationVars ==
  <<cycles, reached, records, phase2, band, gate, per_ring, linking, seed_arms,
    ceiling, labelled, first_t>>

Rings == DOMAIN TypologyOf
NoRing == "none"
STAGES == {"seed_reachable", "seeded", "built", "ranked"}
SEED_ARMS == DOMAIN ArmPools \cup {"passthrough"}
ARMS == {"shipped", "link", "link_random"}
Deepest(ks) == Max(ks)

\* the sum of a table
Tally(f) == MapThenSumSet(LAMBDA x : f[x], DOMAIN f)

-----------------------------------------------------------------------------
(* What all of them share.                                                 *)

\* HIT_SHARE is one half, MIN_JACCARD three tenths
is_hit(nodes, members) ==
  LET inter == Cardinality(nodes \cap members)
  IN /\ inter > 0
     /\ 2 * inter >= Cardinality(members)
     /\ 10 * inter >= 3 * Cardinality(nodes \cup members)

active_rings(traffic) ==
  Only(traffic, {r \in ToSet(traffic) : Cardinality(r.members) >= MIN_RING_NODES})

RingIds(rings) == {r.ring : r \in ToSet(rings)}
Hits(nodes, rings) ==
  {r.ring : r \in {s \in ToSet(rings) : is_hit(nodes, s.members)}}

Upto(k, queue) == 1..Min({k, Len(queue)})
HitsUpto(k, c) == {i \in Upto(k, c.queue) : Hits(c.queue[i], c.rings) # {}}
FoundUpto(k, c) == UNION {Hits(c.queue[i], c.rings) : i \in Upto(k, c.queue)}

\* label_candidate: the first ring in the dictionary that it hits
label_candidate(nodes, rings) ==
  LET hit == Only(rings, {r \in ToSet(rings) : is_hit(nodes, r.members)})
  IN IF hit = <<>> THEN NoRing ELSE hit[1].ring

-----------------------------------------------------------------------------
(* The threshold band: is_hit over four counts, in nine cells at once.     *)

Cells == HIT_SHARES \X MIN_JACCARDS
SHIPPED == <<5, 3>>

overlaps(nodes, rings) ==
  {[ring |-> r.ring, inter |-> Cardinality(nodes \cap r.members),
    n_ring |-> Cardinality(r.members), n_cand |-> Cardinality(nodes)] :
     r \in {s \in ToSet(rings) : nodes \cap s.members # {}}}

is_hit_cell(o, cell) ==
  /\ 10 * o.inter >= cell[1] * o.n_ring
  /\ 10 * o.inter >= cell[2] * (o.n_cand + o.n_ring - o.inter)

CellHits(ov, cell) == {o.ring : o \in {x \in ov : is_hit_cell(x, cell)}}

-----------------------------------------------------------------------------
NoHits(ks) == [k \in ks |-> 0]
NothingCounted(ks) ==
  [seen |-> {}, found |-> {}, hit |-> NoHits(ks), tot |-> NoHits(ks)]
NoRecord ==
  [cycles |-> 0, seeded_honest |-> FALSE, seeded_cheat |-> FALSE,
   built_honest |-> FALSE, built_cheat |-> FALSE,
   max_seed_in_ring_honest |-> 0, max_ring_size |-> 0]

EvaluationInit ==
  /\ cycles = 0 /\ reached = {} /\ records = <<>>
  /\ phase2 = NothingCounted(DeepKs) /\ gate = NothingCounted(Ks)
  /\ band = [seen |-> {}, tot |-> NoHits(DeepKs),
             cells |-> [cell \in Cells |-> [found |-> {}, hit |-> NoHits(DeepKs)]]]
  /\ per_ring = [r \in Rings |-> NoRecord]
  /\ linking = [arm \in ARMS |-> [reached |-> {}, hit |-> NoHits(Ks), tot |-> NoHits(Ks),
                                  added |-> 0]]
  /\ seed_arms = [arm \in SEED_ARMS |-> [reached |-> {}, rows |-> <<>>]]
  /\ ceiling = [reachable |-> {}, touched |-> {}, passthrough |-> {}]
  /\ labelled = <<>> /\ first_t = <<>>

\* FunnelTracker.observe_cycle: the rings ranked in this cycle, the others
Ranked(c) == {<<r, "ranked">> : r \in FoundUpto(RANK_K, c)}
observe_cycle(c) ==
  {<<r.ring, "seed_reachable">> : r \in ToSet(c.rings)}
    \cup {<<r.ring, "seeded">> : r \in
            {s \in ToSet(c.rings) : s.members \cap c.seeds # {}}}
    \cup {<<r, "built">> : r \in FoundUpto(Len(c.queue), c)}
    \cup Ranked(c)

FunnelCycle(c) ==
  IF c.rings = <<>> \/ c.queue = <<>>
  THEN UNCHANGED <<reached, records>>
  ELSE /\ reached' = reached \cup observe_cycle(c)
       /\ records' = Append(records,
            [seen |-> RingIds(c.rings),
             found |-> [k \in Ks |-> FoundUpto(k, c)],
             hit |-> [k \in Ks |-> Cardinality(HitsUpto(k, c))],
             tot |-> [k \in Ks |-> Cardinality(Upto(k, c.queue))]])

Tallied(ks, was, c) ==
  [was EXCEPT !.found = @ \cup FoundUpto(Deepest(ks), c),
              !.hit = [k \in ks |-> @[k] + Cardinality(HitsUpto(k, c))],
              !.tot = [k \in ks |-> @[k] + Cardinality(Upto(k, c.queue))]]
Seen(was, c) == [was EXCEPT !.seen = @ \cup RingIds(c.rings)]

\* rings count as seen before the cycle is skipped for want of candidates
Phase2Cycle(c) ==
  phase2' = CASE c.rings = <<>> -> phase2
              [] c.rings # <<>> /\ c.queue = <<>> -> Seen(phase2, c)
              [] OTHER -> Tallied(DeepKs, Seen(phase2, c), c)

\* the overlaps of the deepest queue are computed once, for every cell
CellsTallied(c) ==
  LET ov == [i \in Upto(Deepest(DeepKs), c.queue) |-> overlaps(c.queue[i], c.rings)]
      hit(i, cell) == CellHits(ov[i], cell)
  IN [cell \in Cells |->
       [found |-> band.cells[cell].found
                    \cup UNION {hit(i, cell) : i \in DOMAIN ov},
        hit |-> [k \in DeepKs |-> band.cells[cell].hit[k]
                   + Cardinality({i \in Upto(k, c.queue) : hit(i, cell) # {}})]]]

BandCycle(c) ==
  band' = [seen |-> band.seen \cup RingIds(c.rings),
           tot |-> IF c.rings = <<>> THEN band.tot ELSE
                     [k \in DeepKs |-> band.tot[k] + Cardinality(Upto(k, c.queue))],
           cells |-> IF c.rings = <<>> \/ c.queue = <<>> THEN band.cells
                     ELSE CellsTallied(c)]

\* a cycle without rings is not skipped
GateCycle(c) ==
  gate' = IF c.queue = <<>> THEN Seen(gate, c) ELSE Tallied(Ks, Seen(gate, c), c)

PoolCycle(c) ==
  LET new == Only(c.rings, {r \in ToSet(c.rings) : r.ring \notin RingIds(first_t)})
  IN /\ first_t' = first_t \o [i \in DOMAIN new |->
                                 [ring |-> new[i].ring, t |-> c.t]]
     /\ labelled' = IF c.rings = <<>> THEN labelled
                    ELSE labelled \o [i \in DOMAIN c.queue |->
                       [t |-> c.t, ring |-> label_candidate(c.queue[i], c.rings)]]

\* eval_seed_cheat_diff.replay: both seed rules over one graph
CheatSeeds(c) == c.seeds \cup UNION {r.members : r \in ToSet(c.rings)}
Builds(pool, members) == \E i \in DOMAIN pool : is_hit(pool[i], members)
Observed(rec, members, c) ==
  [cycles |-> rec.cycles + 1,
   seeded_honest |-> rec.seeded_honest \/ members \cap c.seeds # {},
   seeded_cheat |-> rec.seeded_cheat \/ members \cap CheatSeeds(c) # {},
   built_honest |-> rec.built_honest \/ Builds(c.queue, members),
   built_cheat |-> rec.built_cheat \/ Builds(c.cheat, members),
   max_seed_in_ring_honest |->
     Max({rec.max_seed_in_ring_honest, Cardinality(members \cap c.seeds)}),
   max_ring_size |-> Max({rec.max_ring_size, Cardinality(members)})]

DiffCycle(c) ==
  per_ring' =
    IF c.rings = <<>> \/ (c.queue = <<>> /\ c.cheat = <<>>) THEN per_ring
    ELSE [r \in Rings |->
           IF r \notin RingIds(c.rings) THEN per_ring[r]
           ELSE LET s == CHOOSE s \in ToSet(c.rings) : s.ring = r
                IN Observed(per_ring[r], s.members, c)]

\* eval_fragment_link: the joined pairs that are no candidate yet.
merges(queue, joined) ==
  LET merged == [n \in DOMAIN joined |->
                   [nodes |-> queue[joined[n].a] \cup queue[joined[n].c], at |-> joined[n].at]]
  IN PickedAt(merged, {n \in DOMAIN merged :
                         /\ merged[n].nodes \notin ToSet(queue)
                         /\ \A m \in 1..(n - 1) : merged[m].nodes # merged[n].nodes})

Joinable(queue, pair) ==
  LET size == Cardinality(queue[pair.a] \cup queue[pair.c])
  IN /\ size <= MAX_MERGED_NODES
     /\ size \notin {Cardinality(queue[pair.a]), Cardinality(queue[pair.c])}

\* As many as the links added, if the draws allowed give so many.
random_merges(queue, wanted) ==
  LET tried == SubSeq(DrawnPairs[queue], 1, Min({Len(DrawnPairs[queue]), TriesPerMerge * wanted}))
      drawn == merges(queue, Only(tried, {pair \in ToSet(tried) : Joinable(queue, pair)}))
  IN SubSeq(drawn, 1, Min({Len(drawn), wanted}))

\* sorted by score: a merge comes after the first `at' of the pool
SortedIn(queue, merged) ==
  SortedBy(queue \o [m \in DOMAIN merged |-> merged[m].nodes],
           [n \in 1..(Len(queue) + Len(merged)) |->
              IF n <= Len(queue) THEN n ELSE merged[n - Len(queue)].at])

added_by(arm, queue) ==
  LET merged == merges(queue, JoinedBy[queue])
  IN CASE arm = "shipped" -> <<>>
       [] arm = "link" -> merged
       [] arm = "link_random" -> random_merges(queue, Len(merged))

LinkCycle(c) ==
  linking' =
    IF c.rings = <<>> \/ c.queue = <<>> THEN linking
    ELSE [arm \in ARMS |->
           LET more == added_by(arm, c.queue)
               pool == [c EXCEPT !.queue = SortedIn(c.queue, more)]
               was == linking[arm]
           IN [reached |-> was.reached \cup observe_cycle(pool),
               hit |-> [k \in Ks |-> was.hit[k] + Cardinality(HitsUpto(k, pool))],
               tot |-> [k \in Ks |-> was.tot[k] + Cardinality(Upto(k, pool.queue))],
               added |-> was.added + Len(more)]]

\* eval_seed_arms: the arms share the graph and the pass-through seeds; an arm
\* without candidates gets no row.
RingsTouching(accounts, c) ==
  {r.ring : r \in {s \in ToSet(c.rings) : s.members \cap accounts # {}}}

Under(arm, c) ==
  IF arm = "passthrough" THEN c
  ELSE [c EXCEPT !.seeds = @ \cup ExtraSeeds[arm][@], !.queue = ArmPools[arm][@]]

ArmsCycle(c) ==
  IF c.rings = <<>> THEN UNCHANGED <<seed_arms, ceiling>>
  ELSE /\ ceiling' = [reachable |-> ceiling.reachable \cup RingIds(c.rings),
                      touched |-> ceiling.touched \cup RingsTouching(Touched[c.seeds], c),
                      passthrough |-> ceiling.passthrough \cup RingsTouching(c.seeds, c)]
       /\ seed_arms' = [arm \in SEED_ARMS |->
            LET own == Under(arm, c)
                was == seed_arms[arm]
            IN IF own.queue = <<>> THEN was
               ELSE [reached |-> was.reached \cup observe_cycle(own),
                     rows |-> Append(was.rows,
                       [t |-> c.t,
                        hit |-> [k \in Ks |-> Cardinality(HitsUpto(k, own))]])]]

unseeded == ceiling.reachable \ ceiling.passthrough
addressable == unseeded \cap ceiling.touched

\* main's test before rows are paired by their places
Paired(arm1, arm2) == Len(seed_arms[arm1].rows) = Len(seed_arms[arm2].rows)

\* The next generation cycle of the replay.
GenerationCycle ==
  /\ cycles < MaxCycles
  /\ cycles' = cycles + 1
  /\ \E traffic \in Traffics, seeds \in Seedings, queue \in Queues :
       LET c == [t |-> cycles + 1, rings |-> active_rings(traffic),
                 seeds |-> seeds, queue |-> queue, cheat |-> CheatPools[queue]]
       IN /\ FunnelCycle(c) /\ Phase2Cycle(c) /\ BandCycle(c)
          /\ GateCycle(c) /\ PoolCycle(c) /\ DiffCycle(c)
          /\ LinkCycle(c) /\ ArmsCycle(c)

EvaluationNext == GenerationCycle

EvaluationSpec == EvaluationInit /\ [][EvaluationNext]_evaluationVars

-----------------------------------------------------------------------------
(* Reports over the funnel and the records.                                *)

totals(stage) == Cardinality({r \in Rings : <<r, stage>> \in reached})
table(typ, stage) ==
  Cardinality({r \in Rings : TypologyOf[r] = typ /\ <<r, stage>> \in reached})

UnionSeen == UNION {records[i].seen : i \in DOMAIN records}
UnionFound(k) == UNION {records[i].found[k] : i \in DOMAIN records}
SeenIn(r) == {i \in DOMAIN records : r \in records[i].seen}

\* owner_attributed_counts: cycle i's own counts, of all rings and those found
Owned(i) == {r \in records[i].seen : Min(SeenIn(r)) = i}
OwnedFound(i, k) == Owned(i) \cap UnionFound(k)
Share(i, among) ==
  Tally([r \in records[i].seen \cap among |-> Whole \div Cardinality(SeenIn(r))])

\* eval_seed_cheat_diff.summarise: seeded in earnest and built only under the
\* cheat, or built in earnest as well
Recorded == {r \in Rings : per_ring[r].cycles > 0}
R == {r \in Recorded : /\ per_ring[r].seeded_honest
                       /\ ~per_ring[r].built_honest /\ per_ring[r].built_cheat}
C == {r \in Recorded : per_ring[r].seeded_honest /\ per_ring[r].built_honest}

-----------------------------------------------------------------------------
(* The split of the labelled pool.                                         *)

Cut(n, least) == Max({least, (n * SplitNumerator) \div SplitDenominator})

\* ring_time_split; where no ring was seen it returns nothing
RingCut == Cut(Len(first_t), 1)
split_t == first_t[Min({RingCut, Len(first_t)})].t
train_rings == {first_t[i].ring : i \in 1..RingCut}
test_rings == RingIds(first_t) \ train_rings

\* mutant: a train ring keeps the candidates after the cutoff
SideFollowsTheRing(rec) ==
  CASE rec.ring \in train_rings -> "train"
    [] rec.ring \in test_rings -> "test"
    [] rec.ring = NoRing -> IF rec.t < split_t THEN "train" ELSE "test"
    [] OTHER -> "dropped"

Side(rec) ==
  CASE rec.ring \in train_rings -> IF rec.t < split_t THEN "train" ELSE "stranded"
    [] rec.ring \in test_rings -> "test"
    [] rec.ring = NoRing -> IF rec.t < split_t THEN "train" ELSE "test"
    [] OTHER -> "dropped"

OnSide(side) == {i \in DOMAIN labelled : Side(labelled[i]) = side}
InCycle(t) == {i \in DOMAIN labelled : labelled[i].t = t}
Positives(S) == {i \in S : labelled[i].ring # NoRing}
RingsOf(S) == {labelled[i].ring : i \in Positives(S)}

\* group_diagnostics: a group that carries signal has both labels
Informative(group) == Positives(group) \notin {{}, group}

\* _cap_query_rows: how many negatives a query group keeps
KeptNegatives(group) ==
  LET p == Cardinality(Positives(group))
      n == Cardinality(group) - p
  IN IF p + n <= MaxQueryRows THEN n ELSE Min({n, Max({MaxQueryRows - p, 0})})

\* the k best of a set of one cycle's records, in rank order
TopOf(k, S) == {i \in S : Cardinality({j \in S : j <= i}) <= k}
\* cycle_rows, ring_cycle_rows and trials over such a set
CandidateHits(k, S) == Cardinality(Positives(TopOf(k, S)))
RingHits(k, S) == Cardinality(RingsOf(TopOf(k, S)))
trials(k, S) ==
  {[ring |-> r, surfaced |-> r \in RingsOf(TopOf(k, S))] : r \in RingsOf(S)}

\* time_split of the reranker, over the pool's records as cases
TimeSplitAt ==
  LET cut == Cut(Len(labelled), 0)
  IN labelled[Min({cut + 1, Len(labelled)})].t
TimeTrain == {i \in DOMAIN labelled : labelled[i].t < TimeSplitAt}

-----------------------------------------------------------------------------
(* Properties.                                                             *)

EvaluationTypeOK ==
  /\ cycles \in 0..MaxCycles
  /\ reached \subseteq Rings \X STAGES
  /\ \A i \in DOMAIN records : records[i].seen \subseteq Rings
  /\ phase2.seen \cup gate.seen \cup band.seen \subseteq Rings
  /\ DOMAIN per_ring = Rings
  /\ \A arm \in ARMS : linking[arm].reached \subseteq Rings \X STAGES
  /\ \A i \in DOMAIN labelled : labelled[i].ring \in Rings \cup {NoRing}

\* The programs tell one story of one replay.  The funnel's last stage is
\* what its records find at that depth; its rings are among those that the
\* other two count as seen, and differ only by the cycles without candidates;
\* all three count the same hits at the depths they share.  eval_phase2 looks
\* deeper than the gates: it finds what they find, nothing that the funnel
\* does not call built, and more only where it counts hits below their depth.
\* And the pool's positive records are the hits, one for one, though a record
\* names one of the rings it hits.
CountsAgree ==
  /\ {r \in Rings : <<r, "ranked">> \in reached} = UnionFound(RANK_K)
  /\ {r \in Rings : <<r, "seed_reachable">> \in reached} = UnionSeen
  /\ UnionSeen \subseteq phase2.seen
  /\ phase2.seen = gate.seen /\ phase2.seen = RingIds(first_t)
  /\ gate.found = UnionFound(Deepest(Ks)) /\ gate.found \subseteq phase2.found
  /\ \A r \in phase2.found : <<r, "built">> \in reached
  /\ phase2.hit[Deepest(DeepKs)] = phase2.hit[Deepest(Ks)] => phase2.found = gate.found
  /\ \A k \in Ks :
       /\ Tally([i \in DOMAIN records |-> records[i].hit[k]]) = phase2.hit[k]
       /\ Tally([i \in DOMAIN records |-> records[i].tot[k]]) = phase2.tot[k]
       /\ phase2.hit[k] = gate.hit[k] /\ phase2.tot[k] <= gate.tot[k]
       /\ Tally([t \in 1..cycles |-> CandidateHits(k, InCycle(t))]) = phase2.hit[k]
  /\ \A r \in RingsOf(DOMAIN labelled) : <<r, "built">> \in reached
  /\ \A stage \in STAGES : totals(stage) =
       Tally([typ \in {TypologyOf[r] : r \in Rings} |-> table(typ, stage)])

\* The band is a band around the headline, and readable: its shipped cell is
\* what eval_phase2 counts, ring for ring, and raising either threshold only
\* takes hits and rings away, on one denominator (is_hit_cell, main's check).
BandIsAroundTheHeadline ==
  /\ band.seen = phase2.seen /\ band.tot = phase2.tot
  /\ band.cells[SHIPPED] = [found |-> phase2.found, hit |-> phase2.hit]
  /\ \A low, high \in Cells :
       low[1] <= high[1] /\ low[2] <= high[2] =>
         /\ band.cells[high].found \subseteq band.cells[low].found
         /\ \A k \in DeepKs : band.cells[high].hit[k] <= band.cells[low].hit[k]

\* The comparison of the two seed rules is about the rings of the funnel: it
\* records at least those, all of them seeded under the cheat, calls the same
\* ones built, and takes no ring that the funnel saw built for one that only
\* the cheat can build (replay, summarise).
DiffMatchesTheFunnel ==
  /\ UnionSeen \subseteq Recorded /\ Recorded \subseteq phase2.seen
  /\ \A r \in Recorded :
       /\ per_ring[r].seeded_cheat
       /\ per_ring[r].built_honest = (<<r, "built">> \in reached)
       /\ <<r, "seeded">> \in reached => per_ring[r].seeded_honest
       /\ per_ring[r].seeded_honest = (per_ring[r].max_seed_in_ring_honest > 0)
       /\ per_ring[r].max_seed_in_ring_honest <= per_ring[r].max_ring_size
  /\ R \cap {r \in Rings : <<r, "ranked">> \in reached} = {}
  /\ C \subseteq {r \in Rings : <<r, "built">> \in reached}

\* JoinedBy are tried fairly: the arm without them is the funnel and the headline,
\* merging keeps what was built and takes no place but its own - at any depth
\* it costs at most as many hits as it adds candidates - and the random arm,
\* which is to show what mere growth does, never grows more than the linked
\* one (main's pools).
LinkingOnlyAdds ==
  /\ linking["shipped"].reached = reached
  /\ \A k \in Ks : /\ linking["shipped"].hit[k] = phase2.hit[k]
                   /\ linking["shipped"].tot[k] = phase2.tot[k]
  /\ linking["link_random"].added <= linking["link"].added
  /\ \A arm \in ARMS :
       /\ {x \in reached : x[2] # "ranked"} \subseteq linking[arm].reached
       /\ \A k \in Ks :
            /\ phase2.tot[k] <= linking[arm].tot[k]
            /\ linking[arm].tot[k] <= phase2.tot[k] + linking[arm].added
            /\ phase2.hit[k] <= linking[arm].hit[k] + linking[arm].added

\* Arms are compared fairly: the shipped arm is the funnel and the headline;
\* where an arm has as many rows as the shipped one, rows in the same place are
\* of the same cycle, though either list may lack cycles; and the ceiling is
\* one: a ring that any arm seeds and pass-through never does is addressable,
\* and a ring the shipped arm seeds is not (main's pairing and decomposition).
SeedArmsArePaired ==
  LET shipped == seed_arms["passthrough"]
      SeededIn(arm) == {r \in Rings : <<r, "seeded">> \in seed_arms[arm].reached}
  IN /\ shipped.reached = reached /\ Len(shipped.rows) = Len(records)
     /\ \A k \in Ks :
          Tally([i \in DOMAIN shipped.rows |-> shipped.rows[i].hit[k]]) = phase2.hit[k]
     /\ ceiling.reachable = phase2.seen
     /\ SeededIn("passthrough") \cap unseeded = {}
     /\ \A arm \in SEED_ARMS :
          /\ SeededIn(arm) \cap unseeded \subseteq addressable
          /\ SeededIn("passthrough") \subseteq SeededIn(arm)
          /\ Paired(arm, "passthrough") =>
               \A i \in DOMAIN shipped.rows : seed_arms[arm].rows[i].t = shipped.rows[i].t

\* A ring's recall is one and the same as a union, by its owning cycle and by
\* fractions, and in no cycle, so in no resample of cycles, are more rings
\* found than there are to find (owner_attributed_counts).
OwnersPartitionTheRings ==
  \A k \in Ks :
    /\ UnionFound(k) \subseteq UnionSeen
    /\ Tally([i \in DOMAIN records |-> Cardinality(Owned(i))])
         = Cardinality(UnionSeen)
    /\ Tally([i \in DOMAIN records |-> Cardinality(OwnedFound(i, k))])
         = Cardinality(UnionFound(k))
    /\ Tally([i \in DOMAIN records |-> Share(i, Rings)])
         = Whole * Cardinality(UnionSeen)
    /\ Tally([i \in DOMAIN records |-> Share(i, UnionFound(k))])
         = Whole * Cardinality(UnionFound(k))
    /\ \A i \in DOMAIN records :
         records[i].found[k] \subseteq records[i].seen

\* The split leaks neither rings nor time, loses nothing but the stranded
\* positives, and gives the listwise model whole cycles: a training group that
\* is all positive was so in the pool.  Capping keeps every positive, and a
\* group with both labels loses its negatives only to as many positives as the
\* cap, which nothing checks after the assertion of eval_ranker.main.
SplitIsClean ==
  first_t # <<>> =>
    /\ OnSide("dropped") = {}
    /\ RingsOf(OnSide("train")) \cap RingsOf(OnSide("test")) = {}
    /\ \A i \in OnSide("train") : labelled[i].t < split_t
    /\ \A i \in OnSide("test") \cup OnSide("stranded") : labelled[i].t >= split_t
    /\ \A t \in 1..cycles :
         LET group == InCycle(t) \cap OnSide("train")
             p == Cardinality(Positives(group))
         IN /\ group \in {{}, InCycle(t)}
            /\ p + KeptNegatives(group) <= Max({p, MaxQueryRows})
            /\ Informative(group) =>
                 (KeptNegatives(group) = 0) = (p >= MaxQueryRows)
    /\ labelled # <<>> => /\ TimeTrain # DOMAIN labelled
                          /\ Cardinality(TimeTrain) <= Cut(Len(labelled), 0)

\* A ring fills several places of a queue but is one investigation: per cycle
\* and depth the distinct rings are at most the candidates that hit, and are
\* the rings that the per-ring trials call surfaced.
RingsAreCountedOnce ==
  first_t # <<>> => \A t \in 1..cycles, k \in Ks :
    LET S == InCycle(t) \cap OnSide("test")
        surfaced == {x \in trials(k, S) : x.surfaced}
    IN /\ RingHits(k, S) <= CandidateHits(k, S)
       /\ RingHits(k, S) = Cardinality(surfaced)
       /\ Cardinality(trials(k, S)) = Cardinality(RingsOf(S))

\* The programs of the harness count the same things, and what is computed from
\* their counts double-counts, leaks and drops no ring.
EvaluationsAgree ==
  /\ EvaluationTypeOK
  /\ CountsAgree
  /\ BandIsAroundTheHeadline
  /\ DiffMatchesTheFunnel
  /\ LinkingOnlyAdds
  /\ SeedArmsArePaired
  /\ OwnersPartitionTheRings
  /\ SplitIsClean
  /\ RingsAreCountedOnce
=============================================================================
