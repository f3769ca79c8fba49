-------------------------- MODULE CandidateGenerator --------------------------
(***************************************************************************)
(* The detection cycle: replayed ticks, the seed lookback, one candidate   *)
(* per seed, suppression, and the promotion of the survivors to cases      *)
(* (detect/candidates.py, cases/manager.py), driven by the loop that       *)
(* scripts/build_queue.py and scripts/eval_seed_lookback.py share.         *)
(*                                                                         *)
(* The parts are those of the other modules, by what they were shown to    *)
(* do there: the graph is the trailing window (TrailingWindow), a seed's   *)
(* neighbourhood is ReachWithin pruned by leaf2 (CandidateBuild), and the  *)
(* survivors are any pool that suppression may leave under the shipped     *)
(* ordering (Suppression).  Time is counted in ticks.  A score is any of   *)
(* Scores; features and motifs are data.                                   *)
(***************************************************************************)
EXTENDS Neighbourhood, Sequences, FiniteSetsExt

CONSTANTS
  Lookbacks,       \* the values of seed_lookback_ticks considered
  WindowTicks,     \* WINDOW_MINUTES / TICK_MINUTES
  Every,           \* ticks from cycle to cycle
  Batches,         \* the sets of pairs that one tick may move money on
  MinEdges,        \* MIN_EDGES
  BudgetPercent,   \* seed_budget; 0 is the shipped pass-through rule
  P, Q,            \* suppression threshold
  Scores,
  LowConfidence,   \* LOW_CONFIDENCE_SCORE
  Capacity, ControlPercent,   \* of CaseManager
  MayForget,       \* the caller may leave out a call of observe
  MaxTicks         \* bound: ticks replayed

ASSUME GeneratorAssumption ==
  /\ WindowTicks \in Nat \ {0} /\ Every \in Nat \ {0}
  /\ Lookbacks \subseteq 1..WindowTicks
  /\ Batches \subseteq Graphs
  /\ MinEdges \in Nat /\ BudgetPercent \in 0..100
  /\ P \in Nat \ {0} /\ Q \in Nat /\ P <= Q
  /\ Scores \subseteq Int /\ LowConfidence \in Int
  /\ Capacity \in Nat \ {0} /\ ControlPercent \in 0..100
  /\ MayForget \in BOOLEAN /\ MaxTicks \in Nat

VARIABLES
  lookback_ticks,      \* seed_lookback_ticks, never written
  history,             \* the batches replayed so far
  recent_touched,      \* the deque of touched sets
  last_observed_end,   \* NotYet before the first observe
  pool,                \* local of seeds: the accounts considered
  last_seeds,
  todo,                \* seeds not yet expanded
  seen, out,           \* locals of generate
  stats,
  picked,              \* what select returned and is not yet opened
  cases,               \* the queue
  pc

caller == <<lookback_ticks, history, picked, cases>>
lookback == <<recent_touched, last_observed_end>>
building == <<pool, last_seeds, todo, seen, out>>
vars == <<lookback_ticks, history, recent_touched, last_observed_end, pool,
          last_seeds, todo, seen, out, stats, picked, cases, pc>>

NotYet == -1
tick == Len(history)

Lanes == {"primary", "low_confidence", "control"}
Candidate == [nodes : SUBSET Nodes, score : Scores]
Case == [members : SUBSET Nodes, score : Scores, lane : Lanes, opened_t : Nat]
Counters == {"seeds", "emitted", "deduped", "too_small", "suppressed", "observed_ticks"}

-----------------------------------------------------------------------------
\* _touched
Touched(b) == {n \in Nodes : Neighbours(b, n) # {}}

\* The batches still held after tick k: those of the last WindowTicks ticks.
Window(h) == UNION {h[k] : k \in {j \in 1..Len(h) : j > Len(h) - WindowTicks}}

\* deque(maxlen = seed_lookback_ticks)
Push(d, x) == IF Len(d) < lookback_ticks THEN Append(d, x) ELSE Append(Tail(d), x)

\* stats[c] += n
Bump(c, n) == [stats EXCEPT ![c] = @ + n]

PassThrough(g, n) == OutAdj(g, n) # {} /\ InAdj(g, n) # {}

\* jaccard(a, b) >= P / Q
Overlaps(a, b) == Cardinality(a \cap b) * Q >= P * Cardinality(a \cup b)

\* expand, then prune, of one seed
Built(g, s) ==
  LET reach == ReachWithin(g, s) IN
  IF Cardinality(reach) <= MinNodes THEN reach
  ELSE Settle(Leaf2(g, reach, s), reach)

-----------------------------------------------------------------------------
Init ==
  /\ lookback_ticks \in Lookbacks
  /\ history = <<>>
  /\ recent_touched = <<>>
  /\ last_observed_end = NotYet
  /\ pool = {} /\ last_seeds = {} /\ todo = {} /\ seen = {} /\ out = {}
  /\ stats = [c \in Counters |-> 0]
  /\ picked = <<>>
  /\ cases = <<>>
  /\ pc = "idle"

\* graph.add_batch(b)
AddBatch ==
  /\ pc = "idle"
  /\ tick < MaxTicks
  /\ \E b \in Batches : history' = Append(history, b)
  /\ pc' = "ticked"
  /\ UNCHANGED <<lookback_ticks, lookback, building, stats, picked, cases>>

\* mutant: any tick will do
ContiguousNever == TRUE

\* this batch starts where the last observed one ended
Contiguous == last_observed_end \in {NotYet, tick - 1}

\* observe(batch): nothing at the shipped lookback of one
ObserveNothing ==
  /\ pc = "ticked"
  /\ lookback_ticks = 1
  /\ pc' = "observed"
  /\ UNCHANGED <<caller, lookback, building, stats>>

Observe ==
  /\ pc = "ticked"
  /\ lookback_ticks > 1
  /\ Contiguous
  /\ recent_touched' = Push(recent_touched, Touched(history[tick]))
  /\ last_observed_end' = tick
  /\ stats' = Bump("observed_ticks", 1)
  /\ pc' = "observed"
  /\ UNCHANGED <<caller, building>>

\* the ValueError ends the harness
ObserveRaises ==
  /\ pc = "ticked"
  /\ lookback_ticks > 1
  /\ ~Contiguous
  /\ pc' = "raised"
  /\ UNCHANGED <<caller, lookback, building, stats>>

Forget ==
  /\ pc = "ticked"
  /\ MayForget
  /\ pc' = "observed"
  /\ UNCHANGED <<caller, lookback, building, stats>>

\* i % EVERY == 0, and the window is half full
IsCycle == (tick - 1) % Every = 0 /\ 2 * tick >= WindowTicks

NoCycle ==
  /\ pc = "observed"
  /\ ~IsCycle
  /\ pc' = "idle"
  /\ UNCHANGED <<caller, lookback, building, stats>>

\* seeds() refuses a lookback that is empty or out of step
Refused == lookback_ticks > 1 /\ (recent_touched = <<>> \/ last_observed_end # tick)

SeedsRaise ==
  /\ pc = "observed"
  /\ IsCycle
  /\ Refused
  /\ pc' = "raised"
  /\ UNCHANGED <<caller, lookback, building, stats>>

\* the accounts that seeds() considers
Considered ==
  IF recent_touched = <<>> THEN Touched(history[tick])
  ELSE UNION {recent_touched[k] : k \in 1..Len(recent_touched)}

\* Pass-through accounts, and as many others as the budget allows, which the
\* arms choose by different criteria.
Seeds ==
  /\ pc = "observed"
  /\ IsCycle
  /\ ~Refused
  /\ LET base == {n \in Considered : PassThrough(Window(history), n)}
         rest == Considered \ base
         budget == (BudgetPercent * Cardinality(base)) \div 100
     IN \E extra \in SUBSET rest :
          /\ Cardinality(extra) = Min({budget, Cardinality(rest)})
          /\ last_seeds' = base \cup extra
  /\ pool' = Considered
  /\ todo' = last_seeds'
  /\ seen' = {}
  /\ out' = {}
  /\ stats' = Bump("seeds", Cardinality(last_seeds'))
  /\ pc' = "generate"
  /\ UNCHANGED <<caller, lookback>>

\* mutant: a member set that meets one seen is taken for it
KnownByTouch(nodes) == \E x \in seen : x \cap nodes # {}

\* the canonical key has been seen in this call
Known(nodes) == nodes \in seen

\* One seed of generate, in the order of a set.
Build ==
  /\ pc = "generate"
  /\ \E s \in todo :
       LET g == Window(history)
           nodes == Built(g, s)
           small == Cardinality(nodes) < MinNodes
           thin == Cardinality(SubgraphEdges(g, nodes)) < MinEdges
       IN /\ todo' = todo \ {s}
          /\ seen' = IF small THEN seen ELSE seen \cup {nodes}
          /\ \/ /\ small \/ (~Known(nodes) /\ thin)
                /\ stats' = Bump("too_small", 1)
                /\ out' = out
             \/ /\ ~small /\ Known(nodes)
                /\ stats' = Bump("deduped", 1)
                /\ out' = out
             \/ /\ ~small /\ ~Known(nodes) /\ ~thin
                /\ stats' = Bump("emitted", 1)
                /\ \E x \in Scores :
                     out' = out \cup {[nodes |-> nodes, score |-> x]}
  /\ UNCHANGED <<caller, lookback, pool, last_seeds, pc>>

Absorbs(k, c) == Overlaps(k.nodes, c.nodes) /\ k.score >= c.score

\* what suppress may leave of the candidates cs under the score ordering
Survive(kept, cs) ==
  /\ \A k, c \in kept : k # c => ~Overlaps(k.nodes, c.nodes)
  /\ \A c \in cs \ kept : \E k \in kept : Absorbs(k, c)

Suppress ==
  /\ pc = "generate"
  /\ todo = {}
  /\ \E kept \in SUBSET out :
       /\ Survive(kept, out)
       /\ out' = kept
       /\ stats' = Bump("suppressed", Cardinality(out) - Cardinality(kept))
  /\ pc' = "select"
  /\ UNCHANGED <<caller, lookback, pool, last_seeds, todo, seen>>

-----------------------------------------------------------------------------
(* CaseManager.                                                            *)

\* round(), to even on a tie, of a percentage
Rounded(percent, n) ==
  LET q == (percent * n) \div 100
      r == (percent * n) % 100
  IN IF r > 50 \/ (r = 50 /\ q % 2 = 1) THEN q + 1 ELSE q

\* at least one review goes to the control arm, unless it is switched off
Control == IF ControlPercent = 0 THEN 0
           ELSE Max({1, Rounded(ControlPercent, Capacity)})
Primary == Max({0, Capacity - Control})

\* the first n in order of score, ties in any order
Top(n, cs, top) ==
  /\ top \subseteq cs
  /\ Cardinality(top) = Min({n, Cardinality(cs)})
  /\ \A c \in top, d \in cs \ top : c.score >= d.score

\* mutant: the sample is drawn from all candidates
RestAll(top) == out
\* what the control arm is drawn from
Rest(top) == out \ top

LaneOf(c) == IF c.score >= LowConfidence THEN "primary" ELSE "low_confidence"

\* A sequence of all of cs, best first.
Ranked(s, cs) ==
  /\ \A c \in cs : \E k \in 1..Len(s) : s[k] = c
  /\ \A j, k \in 1..Len(s) : j < k => s[j].score >= s[k].score

Select ==
  /\ pc = "select"
  /\ \E top \in SUBSET out :
     \E sample \in SUBSET Rest(top) :
       /\ Top(Primary, out, top)
       /\ Cardinality(sample) = Min({Control, Cardinality(Rest(top))})
       /\ \E first \in [1..Cardinality(top) -> top],
             second \in [1..Cardinality(sample) -> sample] :
            /\ Ranked(first, top)
            /\ \A c \in sample : \E k \in DOMAIN second : second[k] = c
            /\ picked' = [k \in DOMAIN first |-> <<first[k], LaneOf(first[k])>>]
                  \o [k \in DOMAIN second |-> <<second[k], "control">>]
  /\ pc' = "open"
  /\ UNCHANGED <<lookback_ticks, history, cases, lookback, building, stats>>

\* open_case freezes the candidate at this tick
OpenCase ==
  /\ pc = "open"
  /\ picked # <<>>
  /\ LET c == Head(picked)[1] IN
     cases' = Append(cases, [members |-> c.nodes, score |-> c.score,
                             lane |-> Head(picked)[2], opened_t |-> tick])
  /\ picked' = Tail(picked)
  /\ UNCHANGED <<lookback_ticks, history, lookback, building, stats, pc>>

EndCycle ==
  /\ pc = "open"
  /\ picked = <<>>
  /\ pc' = "idle"
  /\ UNCHANGED <<caller, lookback, building, stats>>

Next ==
  \/ AddBatch \/ ObserveNothing \/ Observe \/ ObserveRaises \/ Forget \/ NoCycle
  \/ SeedsRaise \/ Seeds \/ Build \/ Suppress \/ Select \/ OpenCase \/ EndCycle

Spec == Init /\ [][Next]_vars

-----------------------------------------------------------------------------
(* Properties.                                                             *)

TypeOK ==
  /\ lookback_ticks \in Lookbacks
  /\ history \in Seq(Batches) /\ tick <= MaxTicks
  /\ recent_touched \in Seq(SUBSET Nodes) /\ Len(recent_touched) <= lookback_ticks
  /\ last_observed_end \in {NotYet} \cup 1..tick
  /\ todo \subseteq last_seeds /\ last_seeds \subseteq pool /\ pool \subseteq Nodes
  /\ seen \subseteq SUBSET Nodes
  /\ out \subseteq Candidate
  /\ stats \in [Counters -> Nat]
  /\ picked \in Seq(Candidate \X Lanes)
  /\ cases \in Seq(Case)
  /\ pc \in {"idle", "ticked", "observed", "generate", "select", "open", "raised"}

Seeded == pc \in {"generate", "select", "open"}

TouchedSince(k) == UNION {Touched(history[j]) : j \in {x \in 1..tick : x >= k}}

\* `seed_lookback_ticks counts TICKS': whatever calls of observe the caller
\* leaves out, seeds never considers an account from outside the last so many
\* ticks, nor leaves out one of a tick it did observe (observe and seeds).
LookbackIsExact ==
  Seeded =>
    pool = IF lookback_ticks = 1 THEN Touched(history[tick])
           ELSE TouchedSince(tick + 1 - Min({lookback_ticks, stats["observed_ticks"]}))

\* An account remembered from an earlier tick still has money in the window
\* when it is expanded, although expiry went on since (seeds).
SeedsAreInTheWindow ==
  Seeded => \A n \in last_seeds : Neighbours(Window(history), n) # {}

\* The funnel counters that the evaluations quote lose no seed and count none
\* twice, over any number of cycles (generate).
EverySeedAccounted ==
  stats["seeds"] = stats["emitted"] + stats["deduped"] + stats["too_small"]
                     + Cardinality(todo)

\* A seed with a neighbourhood worth a candidate is not lost to dedup or
\* suppression: what is ranked holds that neighbourhood or one that overlaps
\* it to the threshold (generate).
EverySeedRepresented ==
  pc \in {"select", "open"} =>
    \A s \in last_seeds :
      LET nodes == Built(Window(history), s) IN
      \/ Cardinality(nodes) < MinNodes
      \/ Cardinality(SubgraphEdges(Window(history), nodes)) < MinEdges
      \/ \E c \in out : Overlaps(c.nodes, nodes)

\* The accounts looked at are the right ones.
SeedsAreRight == TypeOK /\ LookbackIsExact /\ SeedsAreInTheWindow

\* No account looked at is lost on the way to the ranking.
NoSeedIsLost == EverySeedAccounted /\ EverySeedRepresented

\* The cases of this cycle, opened or about to be.
Promoted == {[members |-> c.members, score |-> c.score, lane |-> c.lane] :
               c \in {cases[k] : k \in {j \in 1..Len(cases) :
                                          cases[j].opened_t = tick}}}
            \cup {[members |-> picked[k][1].nodes, score |-> picked[k][1].score,
                   lane |-> picked[k][2]] : k \in 1..Len(picked)}

\* A cycle opens no more cases than there are reviews, no candidate twice and
\* no control case that outranks a ranked one, and, unless the control arm has
\* all the reviews, the best candidate becomes a case on its merit: `the queue
\* is filled with the best available candidates' (select; cases/manager.py:6-8).
CapacityIsSpentWell ==
  pc = "open" =>
    /\ Cardinality(Promoted) <= Capacity
    /\ \A c, d \in Promoted : c # d => c.members # d.members
    /\ \A c, d \in Promoted :
         c.lane = "control" /\ d.lane # "control" => c.score <= d.score
    /\ out # {} /\ Primary > 0 =>
         \E c \in Promoted : c.lane # "control" /\ \A d \in out : c.score >= d.score
=============================================================================
