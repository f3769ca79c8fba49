----------------------- MODULE CandidateGeneratorProofs -----------------------
(* Proofs about the detection cycle for any accounts, batches, lookback,   *)
(* window, hop budget, hub guard, threshold and capacity.                  *)
EXTENDS CandidateGenerator, FiniteSetTheorems, SequenceTheorems, WellFoundedInduction,
        TLAPS

LEMMA AccountSetsAreFinite ==
  ASSUME NEW S \in SUBSET Nodes
  PROVE  IsFiniteSet(S) /\ Cardinality(S) \in Nat
<1>1. IsFiniteSet(S)
  BY NeighbourhoodAssumption, FS_Subset
<1> QED
  BY <1>1, FS_CardinalityType

\* A nonempty set of naturals has a least member.
LEMMA LeastMember ==
  ASSUME NEW S, S \subseteq Nat, S # {}
  PROVE  \E x \in S : x \in Nat /\ \A y \in S : x <= y
<1>1. IsWellFoundedOn(OpToRel(<, Nat), Nat)
  BY NatLessThanWellFounded
<1>2. PICK x \in S : \A y \in S : ~(<<y, x>> \in OpToRel(<, Nat))
  BY <1>1, WFMin
<1>3. \A y \in S : y \in Nat
  OBVIOUS
<1>4. \A y \in S : ~(y < x)
  BY <1>2, <1>3 DEF OpToRel
<1>5. x \in S /\ x \in Nat
  BY <1>2, <1>3
<1>6. ASSUME NEW y \in S
      PROVE  x <= y
  <2>1. ~(y < x) /\ y \in Nat
    BY <1>3, <1>4
  <2> QED
    BY <1>5, <2>1
<1> QED
  BY <1>5, <1>6

\* A set of numbers that holds 0 and the successor of each member holds all.
LEMMA AllNumbers ==
  ASSUME NEW n \in Nat, NEW S, 0 \in S,
         \A k \in 0..n : k \in S /\ k < n => k + 1 \in S
  PROVE  0..n \subseteq S
<1> SUFFICES ASSUME ~(0..n \subseteq S)
             PROVE  FALSE
  OBVIOUS
<1>1. PICK T : T = {k \in 0..n : k \notin S}
  OBVIOUS
<1>2. T \subseteq Nat /\ T # {}
  BY <1>1
<1>3. PICK k \in T : k \in Nat /\ \A y \in T : k <= y
  BY <1>2, LeastMember
<1>4. k \in 0..n /\ k \notin S /\ k # 0
  BY <1>1, <1>3
<1>5. k - 1 \in 0..n /\ k - 1 < n /\ k - 1 < k /\ (k - 1) + 1 = k
  BY <1>3, <1>4
<1>6. k - 1 \notin T
  BY <1>3, <1>5
<1>7. k - 1 \in S
  BY <1>1, <1>5, <1>6
<1> QED
  BY <1>4, <1>5, <1>7

-----------------------------------------------------------------------------
(* The inductive invariant.                                                *)

\* The deque holds the touched sets of the last ticks observed, all of them up
\* to the lookback, and what seeds took from it is not written until the cycle
\* ends.
LookbackInv ==
  /\ pc \notin {"idle", "raised"} => tick >= 1
  /\ lookback_ticks = 1 => recent_touched = <<>>
  /\ lookback_ticks > 1 =>
       Len(recent_touched) = Min({lookback_ticks, stats["observed_ticks"]})
  /\ recent_touched # <<>> =>
       /\ last_observed_end # NotYet
       /\ Len(recent_touched) <= last_observed_end
       /\ \A j \in 1..Len(recent_touched) :
            recent_touched[j] =
              Touched(history[last_observed_end - Len(recent_touched) + j])
  /\ Seeded => ~Refused /\ pool = Considered

\* What has become of the seeds expanded so far in this call of generate.
SeedsInv ==
  /\ pc # "generate" => todo = {}
  /\ IsFiniteSet(out)
  /\ EverySeedAccounted
  /\ EverySeedRepresented
  /\ pc = "generate" =>
       /\ \A s \in last_seeds \ todo :
            LET nodes == Built(Window(history), s) IN
            Cardinality(nodes) < MinNodes \/ nodes \in seen
       /\ \A x \in seen :
            \/ Cardinality(SubgraphEdges(Window(history), x)) < MinEdges
            \/ \E c \in out : c.nodes = x
       /\ \A c \in out : c.nodes \in seen

\* The case that a selected candidate becomes.
CaseOf(c, l) == [members |-> c.nodes, score |-> c.score, lane |-> l]

\* What select chose: the cases opened at this tick and those about to be.
ChosenAs(top, sample) ==
  /\ Top(Primary, out, top)
  /\ sample \subseteq out \ top
  /\ Cardinality(sample) <= Control
  /\ Promoted = {CaseOf(c, LaneOf(c)) : c \in top}
                  \cup {CaseOf(c, "control") : c \in sample}

\* A member set has one candidate, and no case is of a later tick.
QueueInv ==
  /\ pc \in {"generate", "select", "open"} =>
       \A c, d \in out : c.nodes = d.nodes => c = d
  /\ \A k \in 1..Len(cases) : cases[k].opened_t <= tick
  /\ pc \in {"ticked", "observed", "generate", "select"} =>
       \A k \in 1..Len(cases) : cases[k].opened_t < tick
  /\ pc = "open" => \E top \in SUBSET out : \E sample \in SUBSET out : ChosenAs(top, sample)

GeneratorInv == TypeOK /\ LookbackInv /\ SeedsInv /\ QueueInv

-----------------------------------------------------------------------------
(* Helpers.                                                                *)

LEMMA MinOfTwo ==
  ASSUME NEW a \in Nat, NEW b \in Nat
  PROVE  Min({a, b}) = IF a <= b THEN a ELSE b
<1>1. PICK x : x = IF a <= b THEN a ELSE b
  OBVIOUS
<1>2. x \in {a, b} /\ \A y \in {a, b} : x <= y
  BY <1>1
<1>3. Min({a, b}) \in {a, b} /\ \A y \in {a, b} : Min({a, b}) <= y
  BY <1>2 DEF Min
<1> QED
  BY <1>1, <1>2, <1>3

LEMMA MaxOfTwo ==
  ASSUME NEW a \in Nat, NEW b \in Int
  PROVE  Max({a, b}) = IF b <= a THEN a ELSE b
<1>1. PICK x : x = IF b <= a THEN a ELSE b
  OBVIOUS
<1>2. x \in {a, b} /\ \A y \in {a, b} : x >= y
  BY <1>1
<1>3. Max({a, b}) \in {a, b} /\ \A y \in {a, b} : Max({a, b}) >= y
  BY <1>2 DEF Max
<1> QED
  BY <1>1, <1>2, <1>3

LEMMA ListOf ==
  ASSUME NEW S, NEW n \in Nat, NEW f \in [1..n -> S]
  PROVE  f \in Seq(S) /\ Len(f) = n
<1>1. f \in Seq(S)
  BY SeqDef
<1>2. Len(f) \in Nat /\ 1..Len(f) = 1..n
  BY <1>1, LenProperties
<1> QED
  BY <1>1, <1>2

LEMMA TouchedStays ==
  ASSUME NEW b PROVE Touched(b) \in SUBSET Nodes
BY DEF Touched

LEMMA BuiltStays ==
  ASSUME NEW g, NEW s \in Nodes
  PROVE  /\ Built(g, s) \in SUBSET Nodes
         /\ IsFiniteSet(Built(g, s)) /\ Cardinality(Built(g, s)) \in Nat
<1>1. PICK reach \in SUBSET Nodes : reach = ReachWithin(g, s)
  BY DEF ReachWithin
<1>2. Leaf2(g, reach, s) \in SUBSET Nodes
  BY DEF Leaf2, Near, LinkedTo
<1>3. Built(g, s) \in SUBSET Nodes
  BY <1>1, <1>2 DEF Built, Settle
<1> QED
  BY <1>3, AccountSetsAreFinite

\* Multiplication respects the order of the naturals.
LEMMA TimesGrows ==
  ASSUME NEW a \in Nat, NEW b \in Nat, NEW c \in Nat, a <= b
  PROVE  a * c <= b * c /\ a * c \in Nat /\ b * c \in Nat
<1>1. PICK d \in Nat : b = a + d
  <2>1. b - a \in Nat /\ b = a + (b - a)
    OBVIOUS
  <2> QED
    BY <2>1
<1>2. b * c = a * c + d * c
  BY <1>1, SMT
<1>3. d * c \in Nat /\ a * c \in Nat /\ b * c \in Nat
  BY <1>1, SMT
<1> QED
  BY <1>2, <1>3

\* A neighbourhood overlaps itself to any threshold.
LEMMA OverlapsItself ==
  ASSUME NEW x \in SUBSET Nodes PROVE Overlaps(x, x)
<1>1. PICK n \in Nat : n = Cardinality(x)
  BY AccountSetsAreFinite
<1>2. P \in Nat /\ Q \in Nat /\ P <= Q
  BY GeneratorAssumption
<1>3. P * n <= Q * n /\ P * n \in Nat /\ Q * n \in Nat
  BY <1>2, TimesGrows
<1>4. n * Q = Q * n
  BY <1>2, SMT
<1>5. x \cap x = x /\ x \cup x = x
  OBVIOUS
<1> QED
  BY <1>1, <1>3, <1>4, <1>5 DEF Overlaps

LEMMA Replayed ==
  ASSUME TypeOK
  PROVE  /\ tick \in Nat /\ history \in [1..tick -> Batches]
         /\ lookback_ticks \in Nat /\ lookback_ticks >= 1
         /\ lookback_ticks <= WindowTicks /\ WindowTicks \in Nat
         /\ stats \in [Counters -> Nat] /\ stats["observed_ticks"] \in Nat
         /\ Len(recent_touched) \in Nat
<1>1. tick \in Nat /\ history \in [1..tick -> Batches]
  BY LenProperties DEF TypeOK, tick
<1>2. Len(recent_touched) \in Nat
  BY LenProperties DEF TypeOK
<1>3. stats["observed_ticks"] \in Nat
  BY DEF TypeOK, Counters
<1> QED
  BY <1>1, <1>2, <1>3, GeneratorAssumption DEF TypeOK

LEMMA GeneratorInit ==
  ASSUME Init PROVE GeneratorInv
<1> USE DEF Init
<1>1. tick = 0 /\ Len(recent_touched) = 0 /\ Len(cases) = 0
  BY EmptySeq DEF tick
<1>2. lookback_ticks \in Nat /\ MaxTicks \in Nat
  BY GeneratorAssumption
<1>3. TypeOK
  <2>1. /\ history \in Seq(Batches) /\ recent_touched \in Seq(SUBSET Nodes)
        /\ picked \in Seq(Candidate \X Lanes) /\ cases \in Seq(Case)
    BY EmptySeq
  <2>2. stats \in [Counters -> Nat]
    OBVIOUS
  <2> QED
    BY <1>1, <1>2, <2>1, <2>2 DEF TypeOK
<1>4. LookbackInv
  <2>1. stats["observed_ticks"] = 0
    BY DEF Counters
  <2>2. Min({lookback_ticks, 0}) = 0
    BY <1>2, MinOfTwo
  <2> QED
    BY <1>1, <2>1, <2>2 DEF LookbackInv, Seeded
<1>5. SeedsInv
  <2>1. Cardinality(todo) = 0 /\ IsFiniteSet(out)
    BY FS_EmptySet
  <2>2. \A c \in Counters : stats[c] = 0
    OBVIOUS
  <2>3. EverySeedAccounted
    BY <2>1, <2>2 DEF EverySeedAccounted, Counters
  <2> QED
    BY <2>1, <2>3 DEF SeedsInv, EverySeedRepresented
<1>6. QueueInv
  BY <1>1 DEF QueueInv
<1> QED
  BY <1>3, <1>4, <1>5, <1>6 DEF GeneratorInv

-----------------------------------------------------------------------------
(* Ticks.                                                                  *)

\* add_batch: whatever was opened so far is of an earlier tick.
LEMMA AddBatchStep ==
  ASSUME GeneratorInv, AddBatch PROVE GeneratorInv'
<1>1. PICK b \in Batches : history' = Append(history, b)
  BY DEF AddBatch
<1>2. /\ pc = "idle" /\ pc' = "ticked" /\ tick < MaxTicks
      /\ lookback_ticks' = lookback_ticks /\ recent_touched' = recent_touched
      /\ last_observed_end' = last_observed_end /\ pool' = pool
      /\ last_seeds' = last_seeds /\ todo' = todo /\ seen' = seen /\ out' = out
      /\ stats' = stats /\ picked' = picked /\ cases' = cases
  BY DEF AddBatch, lookback, building
<1>3. TypeOK /\ tick \in Nat /\ MaxTicks \in Nat
  BY Replayed, GeneratorAssumption DEF GeneratorInv
<1>4. /\ history' \in Seq(Batches) /\ tick' = tick + 1
      /\ \A k \in 1..tick : history'[k] = history[k]
  BY <1>1, <1>3, AppendProperties DEF TypeOK, tick
<1>5. TypeOK'
  <2>1. last_observed_end' \in {NotYet} \cup 1..tick'
    BY <1>2, <1>3, <1>4 DEF TypeOK
  <2>2. tick' <= MaxTicks
    BY <1>2, <1>3, <1>4
  <2> QED
    BY <1>2, <1>3, <1>4, <2>1, <2>2 DEF TypeOK
<1>6. LookbackInv'
  <2>1. recent_touched # <<>> =>
          /\ last_observed_end # NotYet
          /\ Len(recent_touched) <= last_observed_end
          /\ \A j \in 1..Len(recent_touched) :
               recent_touched[j] =
                 Touched(history'[last_observed_end - Len(recent_touched) + j])
    <3> SUFFICES ASSUME recent_touched # <<>>,
                        NEW j \in 1..Len(recent_touched)
                 PROVE  history'[last_observed_end - Len(recent_touched) + j]
                          = history[last_observed_end - Len(recent_touched) + j]
      BY DEF GeneratorInv, LookbackInv
    <3>1. /\ last_observed_end \in 1..tick /\ Len(recent_touched) \in Nat
          /\ Len(recent_touched) <= last_observed_end
      BY <1>3, Replayed DEF GeneratorInv, LookbackInv, TypeOK
    <3>2. last_observed_end - Len(recent_touched) + j \in 1..tick
      BY <1>3, <3>1
    <3> QED
      BY <1>4, <3>2
  <2>2. tick' >= 1
    BY <1>3, <1>4
  <2> QED
    BY <1>2, <2>1, <2>2 DEF GeneratorInv, LookbackInv, Seeded
<1>7. SeedsInv'
  BY <1>2 DEF GeneratorInv, SeedsInv, EverySeedAccounted, EverySeedRepresented
<1>8. QueueInv'
  <2>1. \A k \in 1..Len(cases) : cases[k].opened_t < tick'
    <3> SUFFICES ASSUME NEW k \in 1..Len(cases)
                 PROVE  cases[k].opened_t < tick + 1
      BY <1>4
    <3>1. cases[k].opened_t <= tick /\ cases[k] \in Case
      BY <1>3, ElementOfSeq DEF GeneratorInv, QueueInv, TypeOK
    <3> QED
      BY <1>3, <3>1 DEF Case
  <2>2. \A k \in 1..Len(cases) : cases[k].opened_t <= tick'
    <3> SUFFICES ASSUME NEW k \in 1..Len(cases)
                 PROVE  cases[k].opened_t <= tick + 1
      BY <1>4
    <3>1. cases[k].opened_t <= tick /\ cases[k] \in Case
      BY <1>3, ElementOfSeq DEF GeneratorInv, QueueInv, TypeOK
    <3> QED
      BY <1>3, <3>1 DEF Case
  <2> QED
    BY <1>2, <2>1, <2>2 DEF QueueInv
<1> QED
  BY <1>5, <1>6, <1>7, <1>8 DEF GeneratorInv

\* The steps that only decide what comes next.
LEMMA QuietStep ==
  ASSUME GeneratorInv,
         \/ ObserveNothing \/ ObserveRaises \/ Forget \/ NoCycle \/ SeedsRaise
         \/ EndCycle
  PROVE  GeneratorInv'
<1>1. /\ lookback_ticks' = lookback_ticks /\ recent_touched' = recent_touched
      /\ last_observed_end' = last_observed_end /\ pool' = pool
      /\ last_seeds' = last_seeds /\ todo' = todo /\ seen' = seen /\ out' = out
      /\ stats' = stats /\ picked' = picked /\ cases' = cases
      /\ history' = history
      /\ pc \in {"ticked", "observed", "open"}
      /\ pc' \in {"idle", "observed", "raised"} /\ (pc' = "observed" => pc = "ticked")
  BY DEF ObserveNothing, ObserveRaises, Forget, NoCycle, SeedsRaise, EndCycle,
         caller, lookback, building
<1>2. tick' = tick
  BY <1>1 DEF tick
<1>3. TypeOK'
  BY <1>1, <1>2 DEF GeneratorInv, TypeOK
<1>4. LookbackInv'
  BY <1>1, <1>2 DEF GeneratorInv, LookbackInv, Seeded
<1>5. SeedsInv'
  BY <1>1 DEF GeneratorInv, SeedsInv, EverySeedAccounted, EverySeedRepresented
<1>6. QueueInv'
  BY <1>1, <1>2 DEF GeneratorInv, QueueInv
<1> QED
  BY <1>3, <1>4, <1>5, <1>6 DEF GeneratorInv

\* observe: the deque moves on by one tick.
LEMMA ObserveStep ==
  ASSUME GeneratorInv, Observe PROVE GeneratorInv'
<1>1. /\ lookback_ticks' = lookback_ticks /\ pool' = pool
      /\ last_seeds' = last_seeds /\ todo' = todo /\ seen' = seen /\ out' = out
      /\ picked' = picked /\ cases' = cases
      /\ history' = history
      /\ pc = "ticked" /\ pc' = "observed" /\ lookback_ticks > 1
      /\ last_observed_end \in {NotYet, tick - 1}
      /\ recent_touched' = Push(recent_touched, Touched(history[tick]))
      /\ last_observed_end' = tick
      /\ stats' = Bump("observed_ticks", 1)
  BY DEF Observe, Contiguous, caller, building
<1>2. tick' = tick
  BY <1>1 DEF tick
<1>3. /\ TypeOK /\ tick \in Nat /\ tick >= 1 /\ lookback_ticks \in Nat
      /\ stats \in [Counters -> Nat] /\ recent_touched \in Seq(SUBSET Nodes)
  BY <1>1, Replayed DEF GeneratorInv, LookbackInv, TypeOK
<1>4. PICK x \in SUBSET Nodes : x = Touched(history[tick])
  BY TouchedStays
<1>5. PICK d : d = recent_touched
  OBVIOUS
<1>6. PICK l \in Nat : l = Len(d)
  BY <1>3, <1>5, LenProperties
<1>7. PICK o \in Nat : o = stats["observed_ticks"]
  BY <1>3 DEF Counters
<1>8. /\ stats' \in [Counters -> Nat] /\ stats'["observed_ticks"] = o + 1
      /\ stats'["seeds"] = stats["seeds"] /\ stats'["emitted"] = stats["emitted"]
      /\ stats'["deduped"] = stats["deduped"]
      /\ stats'["too_small"] = stats["too_small"]
  BY <1>1, <1>3, <1>7 DEF Bump, Counters
<1>9. /\ l = Min({lookback_ticks, o})
      /\ d # <<>> => /\ last_observed_end = tick - 1 /\ l <= tick - 1
                     /\ \A j \in 1..l : d[j] = Touched(history[tick - 1 - l + j])
  BY <1>1, <1>5, <1>6, <1>7 DEF GeneratorInv, LookbackInv
<1>10. /\ recent_touched' \in Seq(SUBSET Nodes) /\ recent_touched' # <<>>
       /\ Len(recent_touched') = IF l < lookback_ticks THEN l + 1 ELSE l
       /\ recent_touched'[Len(recent_touched')] = x
       /\ \A j \in 1..Len(recent_touched') - 1 :
            recent_touched'[j] = d[IF l < lookback_ticks THEN j ELSE j + 1]
  <2>1. CASE l < lookback_ticks
    <3>1. recent_touched' = Append(d, x)
      BY <1>1, <1>4, <1>5, <1>6, <2>1 DEF Push
    <3> QED
      BY <1>3, <1>4, <1>5, <1>6, <2>1, <3>1, AppendProperties
  <2>2. CASE ~(l < lookback_ticks)
    <3>1. recent_touched' = Append(Tail(d), x)
      BY <1>1, <1>4, <1>5, <1>6, <2>2 DEF Push
    <3>2. d # <<>>
      BY <1>1, <1>3, <1>6, <2>2, EmptySeq
    <3>3. /\ Tail(d) \in Seq(SUBSET Nodes) /\ Len(Tail(d)) = l - 1
          /\ \A j \in 1..l - 1 : Tail(d)[j] = d[j + 1]
      BY <1>3, <1>5, <1>6, <3>2, HeadTailProperties
    <3>4. /\ Append(Tail(d), x) \in Seq(SUBSET Nodes)
          /\ Append(Tail(d), x) # <<>> /\ Len(Append(Tail(d), x)) = (l - 1) + 1
          /\ \A j \in 1..l - 1 : Append(Tail(d), x)[j] = Tail(d)[j]
          /\ Append(Tail(d), x)[(l - 1) + 1] = x
      BY <1>4, <3>3, AppendProperties
    <3>5. (l - 1) + 1 = l
      BY <1>6
    <3> QED
      BY <2>2, <3>1, <3>3, <3>4, <3>5
  <2> QED
    BY <2>1, <2>2
<1>11. PICK m \in Nat : m = Len(recent_touched')
  BY <1>6, <1>10
<1>12. m >= 1 /\ m <= tick /\ m = Min({lookback_ticks, o + 1}) /\ m <= lookback_ticks
  <2>1. l = 0 \/ l <= tick - 1
    BY <1>3, <1>5, <1>6, <1>9, EmptySeq
  <2>2. l = IF lookback_ticks <= o THEN lookback_ticks ELSE o
    BY <1>3, <1>9, MinOfTwo
  <2>3. Min({lookback_ticks, o + 1}) =
          IF lookback_ticks <= o + 1 THEN lookback_ticks ELSE o + 1
    BY <1>3, MinOfTwo
  <2> QED
    BY <1>1, <1>3, <1>6, <1>10, <1>11, <2>1, <2>2, <2>3
<1>13. ASSUME NEW j \in 1..m
       PROVE  recent_touched'[j] = Touched(history[tick - m + j])
  <2>1. CASE j = m
    <3>1. tick - m + j = tick
      BY <1>3, <2>1
    <3> QED
      BY <1>4, <1>10, <1>11, <2>1, <3>1
  <2>2. CASE j # m
    <3>1. PICK i : i = IF l < lookback_ticks THEN j ELSE j + 1
      OBVIOUS
    <3>2. i \in 1..l /\ tick - 1 - l + i = tick - m + j /\ l # 0
      BY <1>3, <1>6, <1>10, <1>11, <1>12, <1>13, <2>2, <3>1
    <3>3. d # <<>>
      BY <1>6, <3>2, EmptySeq
    <3>4. recent_touched'[j] = d[i]
      BY <1>10, <1>11, <1>12, <1>13, <2>2, <3>1
    <3> QED
      BY <1>9, <3>2, <3>3, <3>4
  <2> QED
    BY <2>1, <2>2
<1>14. TypeOK'
  <2>1. last_observed_end' \in {NotYet} \cup 1..tick
    BY <1>1, <1>3
  <2> QED
    BY <1>1, <1>2, <1>3, <1>8, <1>10, <1>11, <1>12, <2>1 DEF TypeOK
<1>15. LookbackInv'
  <2>1. tick # NotYet
    BY <1>3 DEF NotYet
  <2>2. Len(recent_touched') = Min({lookback_ticks', stats'["observed_ticks"]})
    BY <1>1, <1>8, <1>11, <1>12
  <2>3. /\ last_observed_end' # NotYet
        /\ Len(recent_touched') <= last_observed_end'
    BY <1>1, <1>11, <1>12, <2>1
  <2>4. \A j \in 1..Len(recent_touched') :
          recent_touched'[j] =
            Touched(history'[last_observed_end' - Len(recent_touched') + j])
    BY <1>1, <1>11, <1>13
  <2>5. lookback_ticks' # 1 /\ tick' >= 1 /\ ~Seeded'
    BY <1>1, <1>2, <1>3 DEF Seeded
  <2> QED
    BY <2>2, <2>3, <2>4, <2>5 DEF LookbackInv
<1>16. SeedsInv'
  BY <1>1, <1>8 DEF GeneratorInv, SeedsInv, EverySeedAccounted, EverySeedRepresented
<1>17. QueueInv'
  BY <1>1, <1>2 DEF GeneratorInv, QueueInv
<1> QED
  BY <1>14, <1>15, <1>16, <1>17 DEF GeneratorInv

-----------------------------------------------------------------------------
(* Seeds, and one candidate per seed.                                      *)

LEMMA SeedsStep ==
  ASSUME GeneratorInv, Seeds PROVE GeneratorInv'
<1>1. /\ lookback_ticks' = lookback_ticks /\ recent_touched' = recent_touched
      /\ last_observed_end' = last_observed_end /\ history' = history
      /\ picked' = picked /\ cases' = cases
      /\ pc = "observed" /\ pc' = "generate" /\ ~Refused
      /\ pool' = Considered /\ todo' = last_seeds' /\ seen' = {} /\ out' = {}
      /\ stats' = Bump("seeds", Cardinality(last_seeds'))
  BY DEF Seeds, caller, lookback
<1>2. tick' = tick /\ TypeOK
  BY <1>1 DEF tick, GeneratorInv
<1>3. last_seeds' \subseteq Considered
  BY DEF Seeds
<1>4. Considered \in SUBSET Nodes
  <2>1. \A k \in 1..Len(recent_touched) : recent_touched[k] \in SUBSET Nodes
    BY <1>2, ElementOfSeq DEF TypeOK
  <2> QED
    BY <2>1, TouchedStays DEF Considered
<1>5. PICK n \in Nat : n = Cardinality(last_seeds')
  BY <1>3, <1>4, AccountSetsAreFinite
<1>6. /\ stats' \in [Counters -> Nat] /\ stats'["seeds"] = stats["seeds"] + n
      /\ stats'["observed_ticks"] = stats["observed_ticks"]
      /\ stats'["emitted"] = stats["emitted"]
      /\ stats'["deduped"] = stats["deduped"]
      /\ stats'["too_small"] = stats["too_small"]
  BY <1>1, <1>2, <1>5 DEF Bump, Counters, TypeOK
<1>7. TypeOK'
  BY <1>1, <1>2, <1>3, <1>4, <1>6 DEF TypeOK
<1>8. LookbackInv'
  <2>1. (~Refused)' /\ pool' = Considered'
    BY <1>1, <1>2 DEF Refused, Considered
  <2> QED
    BY <1>1, <1>2, <1>6, <2>1 DEF GeneratorInv, LookbackInv
<1>9. SeedsInv'
  <2>1. todo = {} /\ Cardinality(todo) = 0
    BY <1>1, FS_EmptySet DEF GeneratorInv, SeedsInv
  <2>2. stats["seeds"] = stats["emitted"] + stats["deduped"] + stats["too_small"]
    BY <1>2, <2>1 DEF GeneratorInv, SeedsInv, EverySeedAccounted, TypeOK, Counters
  <2>3. EverySeedAccounted'
    BY <1>1, <1>2, <1>5, <1>6, <2>2 DEF EverySeedAccounted, TypeOK, Counters
  <2>4. IsFiniteSet(out')
    BY <1>1, FS_EmptySet
  <2> QED
    BY <1>1, <2>3, <2>4 DEF SeedsInv, EverySeedRepresented
<1>10. QueueInv'
  BY <1>1, <1>2 DEF GeneratorInv, QueueInv
<1> QED
  BY <1>7, <1>8, <1>9, <1>10 DEF GeneratorInv

\* One seed: it is too small, known, or a candidate of its own.
LEMMA BuildStep ==
  ASSUME GeneratorInv, Build PROVE GeneratorInv'
<1>1. /\ lookback_ticks' = lookback_ticks /\ recent_touched' = recent_touched
      /\ last_observed_end' = last_observed_end /\ history' = history
      /\ picked' = picked /\ cases' = cases /\ pool' = pool
      /\ last_seeds' = last_seeds /\ pc = "generate" /\ pc' = "generate"
  BY DEF Build, caller, lookback
<1>2. tick' = tick /\ TypeOK
  BY <1>1 DEF tick, GeneratorInv
<1>3. PICK g : g = Window(history)
  OBVIOUS
<1>4. PICK s \in todo :
        LET nodes == Built(g, s)
            small == Cardinality(nodes) < MinNodes
            thin == Cardinality(SubgraphEdges(g, nodes)) < MinEdges
        IN /\ todo' = todo \ {s}
           /\ seen' = IF small THEN seen ELSE seen \cup {nodes}
           /\ \/ /\ small \/ (~Known(nodes) /\ thin)
                 /\ stats' = Bump("too_small", 1)
                 /\ out' = out
              \/ /\ ~small /\ Known(nodes)
                 /\ stats' = Bump("deduped", 1)
                 /\ out' = out
              \/ /\ ~small /\ ~Known(nodes) /\ ~thin
                 /\ stats' = Bump("emitted", 1)
                 /\ \E x \in Scores :
                      out' = out \cup {[nodes |-> nodes, score |-> x]}
  BY <1>3 DEF Build
<1>5. s \in Nodes
  BY <1>2 DEF TypeOK
<1>6. PICK nodes \in SUBSET Nodes : nodes = Built(g, s)
  BY <1>5, BuiltStays
<1>7. PICK small \in BOOLEAN : small <=> Cardinality(nodes) < MinNodes
  BY <1>6
<1>8. PICK thin \in BOOLEAN :
        thin <=> Cardinality(SubgraphEdges(g, nodes)) < MinEdges
  OBVIOUS
<1>9. /\ todo' = todo \ {s}
      /\ seen' = IF small THEN seen ELSE seen \cup {nodes}
      /\ \/ /\ small \/ (nodes \notin seen /\ thin)
            /\ stats' = Bump("too_small", 1)
            /\ out' = out
         \/ /\ ~small /\ nodes \in seen
            /\ stats' = Bump("deduped", 1)
            /\ out' = out
         \/ /\ ~small /\ nodes \notin seen /\ ~thin
            /\ stats' = Bump("emitted", 1)
            /\ \E x \in Scores :
                 out' = out \cup {[nodes |-> nodes, score |-> x]}
  BY <1>4, <1>6, <1>7, <1>8 DEF Known
<1>10. /\ seen' \in SUBSET SUBSET Nodes /\ out' \in SUBSET Candidate
       /\ IsFiniteSet(out')
  <2>1. seen \in SUBSET SUBSET Nodes /\ out \in SUBSET Candidate /\ IsFiniteSet(out)
    BY <1>2 DEF TypeOK, GeneratorInv, SeedsInv
  <2>2. CASE out' = out
    BY <1>9, <2>1, <2>2
  <2>3. CASE \E x \in Scores : out' = out \cup {[nodes |-> nodes, score |-> x]}
    <3>1. PICK x \in Scores : out' = out \cup {[nodes |-> nodes, score |-> x]}
      BY <2>3
    <3>2. [nodes |-> nodes, score |-> x] \in Candidate
      BY DEF Candidate
    <3>3. IsFiniteSet(out')
      BY <2>1, <3>1, FS_AddElement
    <3> QED
      BY <1>9, <2>1, <3>1, <3>2, <3>3
  <2> QED
    BY <1>9, <2>2, <2>3
<1>11. PICK n \in Nat : n = Cardinality(todo)
  <2>1. todo \in SUBSET Nodes
    BY <1>2 DEF TypeOK
  <2> QED
    BY <2>1, AccountSetsAreFinite
<1>12. Cardinality(todo') = n - 1
  <2>1. todo \in SUBSET Nodes
    BY <1>2 DEF TypeOK
  <2>2. IsFiniteSet(todo)
    BY <2>1, AccountSetsAreFinite
  <2> QED
    BY <1>9, <1>11, <2>2, FS_RemoveElement
<1>13. /\ stats' \in [Counters -> Nat]
       /\ stats'["observed_ticks"] = stats["observed_ticks"]
       /\ stats'["seeds"] = stats["seeds"]
       /\ stats'["emitted"] + stats'["deduped"] + stats'["too_small"]
            = stats["emitted"] + stats["deduped"] + stats["too_small"] + 1
  <2>1. stats \in [Counters -> Nat]
    BY <1>2 DEF TypeOK
  <2>2. CASE stats' = Bump("too_small", 1)
    BY <2>1, <2>2 DEF Bump, Counters
  <2>3. CASE stats' = Bump("deduped", 1)
    BY <2>1, <2>3 DEF Bump, Counters
  <2>4. CASE stats' = Bump("emitted", 1)
    BY <2>1, <2>4 DEF Bump, Counters
  <2> QED
    BY <1>9, <2>2, <2>3, <2>4
<1>14. TypeOK'
  <2>1. todo' \subseteq last_seeds'
    BY <1>1, <1>2, <1>9 DEF TypeOK
  <2> QED
    BY <1>1, <1>2, <1>10, <1>13, <2>1 DEF TypeOK
<1>15. LookbackInv'
  <2>1. (~Refused)' /\ pool' = Considered'
    BY <1>1, <1>2 DEF GeneratorInv, LookbackInv, Refused, Considered, Seeded
  <2> QED
    BY <1>1, <1>2, <1>13, <2>1 DEF GeneratorInv, LookbackInv
<1>16. SeedsInv'
  <2>1. EverySeedAccounted'
    <3>1. stats["seeds"] = stats["emitted"] + stats["deduped"] + stats["too_small"] + n
      BY <1>11 DEF GeneratorInv, SeedsInv, EverySeedAccounted
    <3>2. /\ stats["seeds"] \in Nat /\ stats["emitted"] \in Nat
          /\ stats["deduped"] \in Nat /\ stats["too_small"] \in Nat
          /\ stats'["emitted"] \in Nat /\ stats'["deduped"] \in Nat
          /\ stats'["too_small"] \in Nat
      BY <1>2, <1>13 DEF TypeOK, Counters
    <3>3. stats'["seeds"] = stats'["emitted"] + stats'["deduped"]
                             + stats'["too_small"] + (n - 1)
      BY <1>11, <1>13, <3>1, <3>2
    <3> QED
      BY <1>12, <3>3 DEF EverySeedAccounted
  <2>2. ASSUME NEW t \in last_seeds \ todo'
        PROVE  Cardinality(Built(g, t)) < MinNodes \/ Built(g, t) \in seen'
    <3>1. CASE t = s
      BY <1>6, <1>7, <1>9, <3>1
    <3>2. CASE t # s
      <4>1. t \in last_seeds \ todo
        BY <1>9, <2>2, <3>2
      <4>2. Cardinality(Built(g, t)) < MinNodes \/ Built(g, t) \in seen
        BY <1>1, <1>3, <4>1 DEF GeneratorInv, SeedsInv
      <4> QED
        BY <1>9, <4>2
    <3> QED
      BY <3>1, <3>2
  <2>3. out \subseteq out'
    BY <1>9
  <2>4. ASSUME NEW x \in seen'
        PROVE  \/ Cardinality(SubgraphEdges(g, x)) < MinEdges
               \/ \E c \in out' : c.nodes = x
    <3>1. CASE x \in seen
      BY <1>1, <1>3, <2>3, <3>1 DEF GeneratorInv, SeedsInv
    <3>2. CASE x \notin seen
      <4>1. x = nodes /\ ~small /\ nodes \notin seen
        BY <1>9, <2>4, <3>2
      <4>2. CASE thin
        BY <1>8, <4>1, <4>2
      <4>3. CASE ~thin
        <5>1. PICK y \in Scores : out' = out \cup {[nodes |-> nodes, score |-> y]}
          BY <1>9, <4>1, <4>3
        <5>2. /\ [nodes |-> nodes, score |-> y] \in out'
              /\ [nodes |-> nodes, score |-> y].nodes = x
          BY <4>1, <5>1
        <5> QED
          BY <5>2
      <4> QED
        BY <4>2, <4>3
    <3> QED
      BY <3>1, <3>2
  <2>5. \A c \in out' : c.nodes \in seen'
    <3>1. \A c \in out : c.nodes \in seen
      BY <1>1 DEF GeneratorInv, SeedsInv
    <3> QED
      BY <1>9, <3>1
  <2> QED
    BY <1>1, <1>3, <1>10, <2>1, <2>2, <2>4, <2>5 DEF SeedsInv, EverySeedRepresented
<1>17. QueueInv'
  <2>1. ASSUME NEW c \in out', NEW d \in out', c.nodes = d.nodes
        PROVE  c = d
    <3>1. /\ \A x \in out : x.nodes \in seen
          /\ \A x, y \in out : x.nodes = y.nodes => x = y
      BY <1>1 DEF GeneratorInv, SeedsInv, QueueInv
    <3> QED
      BY <1>9, <2>1, <3>1
  <2> QED
    BY <1>1, <1>2, <2>1 DEF GeneratorInv, QueueInv
<1> QED
  BY <1>14, <1>15, <1>16, <1>17 DEF GeneratorInv

\* Suppression: who is dropped is represented by a survivor.
LEMMA SuppressStep ==
  ASSUME GeneratorInv, Suppress PROVE GeneratorInv'
<1>1. /\ lookback_ticks' = lookback_ticks /\ recent_touched' = recent_touched
      /\ last_observed_end' = last_observed_end /\ history' = history
      /\ picked' = picked /\ cases' = cases /\ pool' = pool
      /\ last_seeds' = last_seeds /\ todo' = todo /\ seen' = seen /\ todo = {}
      /\ pc = "generate" /\ pc' = "select"
  BY DEF Suppress, caller, lookback
<1>2. tick' = tick /\ TypeOK
  BY <1>1 DEF tick, GeneratorInv
<1>3. PICK kept \in SUBSET out :
        /\ Survive(kept, out) /\ out' = kept
        /\ stats' = Bump("suppressed", Cardinality(out) - Cardinality(kept))
  BY DEF Suppress
<1>4. /\ IsFiniteSet(out) /\ IsFiniteSet(kept)
      /\ Cardinality(out) - Cardinality(kept) \in Nat
  <2>1. IsFiniteSet(out)
    BY DEF GeneratorInv, SeedsInv
  <2> QED
    BY <2>1, FS_Subset, FS_CardinalityType
<1>5. /\ stats' \in [Counters -> Nat]
      /\ stats'["observed_ticks"] = stats["observed_ticks"]
      /\ stats'["seeds"] = stats["seeds"]
      /\ stats'["emitted"] = stats["emitted"]
      /\ stats'["deduped"] = stats["deduped"]
      /\ stats'["too_small"] = stats["too_small"]
  BY <1>2, <1>3, <1>4 DEF Bump, Counters, TypeOK
<1>6. TypeOK'
  BY <1>1, <1>2, <1>3, <1>5 DEF TypeOK
<1>7. LookbackInv'
  <2>1. (~Refused)' /\ pool' = Considered'
    BY <1>1, <1>2 DEF GeneratorInv, LookbackInv, Refused, Considered, Seeded
  <2> QED
    BY <1>1, <1>2, <1>5, <2>1 DEF GeneratorInv, LookbackInv
<1>8. SeedsInv'
  <2>1. PICK g : g = Window(history)
    OBVIOUS
  <2>2. ASSUME NEW s \in last_seeds
        PROVE  \/ Cardinality(Built(g, s)) < MinNodes
               \/ Cardinality(SubgraphEdges(g, Built(g, s))) < MinEdges
               \/ \E c \in kept : Overlaps(c.nodes, Built(g, s))
    <3>1. PICK nodes \in SUBSET Nodes : nodes = Built(g, s)
      BY <1>2, BuiltStays DEF TypeOK
    <3>2. \/ Cardinality(nodes) < MinNodes
          \/ Cardinality(SubgraphEdges(g, nodes)) < MinEdges
          \/ \E c \in out : c.nodes = nodes
      BY <1>1, <2>1, <3>1 DEF GeneratorInv, SeedsInv
    <3>3. ASSUME NEW c \in out, c.nodes = nodes
          PROVE  \E k \in kept : Overlaps(k.nodes, nodes)
      BY <1>3, <3>3, OverlapsItself DEF Survive, Absorbs
    <3> QED
      BY <3>1, <3>2, <3>3
  <2>3. EverySeedRepresented'
    BY <1>1, <1>3, <2>1, <2>2 DEF EverySeedRepresented
  <2>4. EverySeedAccounted'
    BY <1>1, <1>5 DEF GeneratorInv, SeedsInv, EverySeedAccounted
  <2> QED
    BY <1>1, <1>3, <1>4, <2>3, <2>4 DEF SeedsInv
<1>9. QueueInv'
  BY <1>1, <1>2, <1>3 DEF GeneratorInv, QueueInv
<1> QED
  BY <1>6, <1>7, <1>8, <1>9 DEF GeneratorInv

-----------------------------------------------------------------------------
(* Cases.                                                                  *)

\* The reviews of a cycle are those of the ranked queue and of the control arm.
LEMMA ShareOfCapacity ==
  /\ Control \in Nat /\ Primary \in Nat
  /\ Primary + Control = Capacity
<1>1. Capacity \in Nat /\ Capacity >= 1 /\ ControlPercent \in 0..100
  BY GeneratorAssumption
<1>2. PICK x : x = ControlPercent * Capacity
  OBVIOUS
<1>3. ControlPercent * Capacity <= 100 * Capacity /\ ControlPercent * Capacity \in Nat
  BY <1>1, TimesGrows
<1>4. PICK r : r = Rounded(ControlPercent, Capacity)
  OBVIOUS
<1>5. r \in Nat /\ r <= Capacity
  <2>1. x \in Nat /\ x <= 100 * Capacity
    BY <1>2, <1>3
  <2>2. r = IF x % 100 > 50 \/ (x % 100 = 50 /\ (x \div 100) % 2 = 1)
            THEN (x \div 100) + 1 ELSE x \div 100
    BY <1>2, <1>4 DEF Rounded
  <2>3. PICK q \in Nat : q = x \div 100 /\ 100 * q <= x
    BY <2>1
  <2>4. x = 100 * q + (x % 100)
    BY <2>1, <2>3
  <2> QED
    BY <1>1, <2>1, <2>2, <2>3, <2>4
<1>6. Max({1, r}) = IF r <= 1 THEN 1 ELSE r
  BY <1>5, MaxOfTwo
<1>7. PICK c \in Nat : c = Control /\ c <= Capacity
  BY <1>1, <1>4, <1>5, <1>6 DEF Control
<1>8. Max({0, Capacity - c}) = IF Capacity - c <= 0 THEN 0 ELSE Capacity - c
  BY <1>1, <1>7, MaxOfTwo
<1>9. Primary = Capacity - c
  BY <1>1, <1>7, <1>8 DEF Primary
<1> QED
  BY <1>1, <1>7, <1>9

\* What select returns is what it chose.
LEMMA SelectStep ==
  ASSUME GeneratorInv, Select PROVE GeneratorInv'
<1>1. /\ lookback_ticks' = lookback_ticks /\ recent_touched' = recent_touched
      /\ last_observed_end' = last_observed_end /\ history' = history
      /\ cases' = cases /\ pool' = pool /\ out' = out /\ stats' = stats
      /\ last_seeds' = last_seeds /\ todo' = todo /\ seen' = seen
      /\ pc = "select" /\ pc' = "open"
  BY DEF Select, lookback, building
<1>2. tick' = tick /\ TypeOK
  BY <1>1 DEF tick, GeneratorInv
<1>3. PICK top \in SUBSET out : \E sample \in SUBSET Rest(top) :
        /\ Top(Primary, out, top)
        /\ Cardinality(sample) = Min({Control, Cardinality(Rest(top))})
        /\ \E first \in [1..Cardinality(top) -> top],
              second \in [1..Cardinality(sample) -> sample] :
             /\ Ranked(first, top)
             /\ \A c \in sample : \E k \in DOMAIN second : second[k] = c
             /\ picked' = [k \in DOMAIN first |-> <<first[k], LaneOf(first[k])>>]
                   \o [k \in DOMAIN second |-> <<second[k], "control">>]
  BY DEF Select
<1>4. PICK sample \in SUBSET Rest(top) :
        /\ Top(Primary, out, top)
        /\ Cardinality(sample) = Min({Control, Cardinality(Rest(top))})
        /\ \E first \in [1..Cardinality(top) -> top],
              second \in [1..Cardinality(sample) -> sample] :
             /\ Ranked(first, top)
             /\ \A c \in sample : \E k \in DOMAIN second : second[k] = c
             /\ picked' = [k \in DOMAIN first |-> <<first[k], LaneOf(first[k])>>]
                   \o [k \in DOMAIN second |-> <<second[k], "control">>]
  BY <1>3
<1>5. /\ out \in SUBSET Candidate /\ IsFiniteSet(out) /\ sample \subseteq out \ top
      /\ IsFiniteSet(top) /\ IsFiniteSet(sample) /\ IsFiniteSet(Rest(top))
  BY <1>2, FS_Subset, FS_Difference DEF GeneratorInv, SeedsInv, TypeOK, Rest
<1>6. PICK n \in Nat : n = Cardinality(top)
  BY <1>5, FS_CardinalityType
<1>7. PICK m \in Nat : m = Cardinality(sample)
  BY <1>5, FS_CardinalityType
<1>8. m <= Control
  <2>1. PICK r \in Nat : r = Cardinality(Rest(top))
    BY <1>5, FS_CardinalityType
  <2>2. Control \in Nat
    BY ShareOfCapacity
  <2>3. Min({Control, r}) = IF Control <= r THEN Control ELSE r
    BY <2>1, <2>2, MinOfTwo
  <2> QED
    BY <1>4, <1>7, <2>1, <2>2, <2>3
<1>9. PICK first \in [1..Cardinality(top) -> top],
            second \in [1..Cardinality(sample) -> sample] :
        /\ Ranked(first, top)
        /\ \A c \in sample : \E k \in DOMAIN second : second[k] = c
        /\ picked' = [k \in DOMAIN first |-> <<first[k], LaneOf(first[k])>>]
                       \o [k \in DOMAIN second |-> <<second[k], "control">>]
  BY <1>4
<1>10. /\ first \in [1..n -> top] /\ DOMAIN first = 1..n
       /\ second \in [1..m -> sample] /\ DOMAIN second = 1..m
       /\ \A c \in sample : \E k \in 1..m : second[k] = c
  BY <1>6, <1>7, <1>9
<1>11. PICK F : F = [k \in DOMAIN first |-> <<first[k], LaneOf(first[k])>>]
  OBVIOUS
<1>12. PICK G : G = [k \in DOMAIN second |-> <<second[k], "control">>]
  OBVIOUS
<1>13. /\ F \in Seq(Candidate \X Lanes) /\ Len(F) = n
       /\ G \in Seq(Candidate \X Lanes) /\ Len(G) = m
  <2>1. F \in [1..n -> Candidate \X Lanes]
    BY <1>5, <1>10, <1>11 DEF LaneOf, Lanes
  <2>2. G \in [1..m -> Candidate \X Lanes]
    BY <1>5, <1>10, <1>12 DEF Lanes
  <2> QED
    BY <1>6, <1>7, <2>1, <2>2, ListOf
<1>14. /\ picked' \in Seq(Candidate \X Lanes) /\ Len(picked') = n + m
       /\ \A k \in 1..n + m : picked'[k] = IF k <= n THEN F[k] ELSE G[k - n]
  <2>1. picked' = F \o G
    BY <1>9, <1>11, <1>12
  <2>2. /\ F \o G \in Seq(Candidate \X Lanes) /\ Len(F \o G) = n + m
        /\ \A k \in 1..n + m : (F \o G)[k] = IF k <= n THEN F[k] ELSE G[k - n]
    BY <1>13, ConcatProperties
  <2> QED
    BY <2>1, <2>2
<1>15. \A c \in top : \E k \in 1..n : first[k] = c
  <2>1. Len(first) = n
    BY <1>6, <1>10, ListOf
  <2> QED
    BY <1>9, <2>1 DEF Ranked
<1>16. Promoted' = {CaseOf(c, LaneOf(c)) : c \in top}
                     \cup {CaseOf(c, "control") : c \in sample}
  <2>1. {j \in 1..Len(cases) : cases[j].opened_t = tick} = {}
    <3> SUFFICES ASSUME NEW j \in 1..Len(cases), cases[j].opened_t = tick
                 PROVE  FALSE
      OBVIOUS
    <3>1. cases[j].opened_t < tick
      BY <1>1 DEF GeneratorInv, QueueInv
    <3> QED
      BY <1>2, <3>1, Replayed
  <2>2. PICK p : p = picked'
    OBVIOUS
  <2>3. Promoted' = {CaseOf(p[k][1], p[k][2]) : k \in 1..n + m}
    BY <1>1, <1>2, <1>14, <2>1, <2>2 DEF Promoted, CaseOf
  <2>4. ASSUME NEW k \in 1..n
        PROVE  k \in 1..n + m /\ p[k][1] = first[k] /\ p[k][2] = LaneOf(first[k])
    <3>1. k \in 1..n + m /\ k <= n
      BY <1>6, <1>7
    <3>2. p[k] = F[k] /\ F[k] = <<first[k], LaneOf(first[k])>>
      BY <1>10, <1>11, <1>14, <2>2, <3>1
    <3> QED
      BY <3>1, <3>2
  <2>5. ASSUME NEW k \in 1..m
        PROVE  n + k \in 1..n + m /\ p[n + k][1] = second[k] /\ p[n + k][2] = "control"
    <3>1. n + k \in 1..n + m /\ ~(n + k <= n) /\ (n + k) - n = k
      BY <1>6, <1>7
    <3>2. p[n + k] = G[k] /\ G[k] = <<second[k], "control">>
      BY <1>10, <1>12, <1>14, <2>2, <3>1
    <3> QED
      BY <3>1, <3>2
  <2>6. ASSUME NEW k \in 1..n + m
        PROVE  CaseOf(p[k][1], p[k][2])
                 \in {CaseOf(c, LaneOf(c)) : c \in top}
                       \cup {CaseOf(c, "control") : c \in sample}
    <3>1. CASE k <= n
      <4>1. k \in 1..n /\ first[k] \in top
        BY <1>6, <1>10, <2>6, <3>1
      <4> QED
        BY <2>4, <4>1
    <3>2. CASE ~(k <= n)
      <4>1. PICK i \in 1..m : k = n + i
        <5>1. k - n \in 1..m /\ k = n + (k - n)
          BY <1>6, <1>7, <2>6, <3>2
        <5> QED
          BY <5>1
      <4>2. second[i] \in sample
        BY <1>10
      <4> QED
        BY <2>5, <4>1, <4>2
    <3> QED
      BY <3>1, <3>2
  <2>7. ASSUME NEW c \in top
        PROVE  CaseOf(c, LaneOf(c)) \in Promoted'
    <3>1. PICK k \in 1..n : first[k] = c
      BY <1>15, <2>7
    <3> QED
      BY <2>3, <2>4, <3>1
  <2>8. ASSUME NEW c \in sample
        PROVE  CaseOf(c, "control") \in Promoted'
    <3>1. PICK k \in 1..m : second[k] = c
      BY <1>10, <2>8
    <3> QED
      BY <2>3, <2>5, <3>1
  <2> QED
    BY <2>3, <2>6, <2>7, <2>8
<1>17. TypeOK'
  BY <1>1, <1>2, <1>14 DEF TypeOK
<1>18. LookbackInv'
  <2>1. (~Refused)' /\ pool' = Considered'
    BY <1>1, <1>2 DEF GeneratorInv, LookbackInv, Refused, Considered, Seeded
  <2> QED
    BY <1>1, <1>2, <2>1 DEF GeneratorInv, LookbackInv
<1>19. SeedsInv'
  BY <1>1 DEF GeneratorInv, SeedsInv, EverySeedAccounted, EverySeedRepresented
<1>20. QueueInv'
  <2>1. sample \in SUBSET out
    BY <1>5
  <2>2. Top(Primary, out, top)'
    BY <1>1, <1>4 DEF Top
  <2>3. ChosenAs(top, sample)'
    BY <1>1, <1>5, <1>7, <1>8, <1>16, <2>2 DEF ChosenAs, LaneOf
  <2> QED
    BY <1>1, <1>2, <2>1, <2>3 DEF GeneratorInv, QueueInv
<1> QED
  BY <1>17, <1>18, <1>19, <1>20 DEF GeneratorInv

\* open_case turns what was chosen into a case and leaves the choice as it is.
LEMMA OpenCaseStep ==
  ASSUME GeneratorInv, OpenCase PROVE GeneratorInv'
<1>1. /\ lookback_ticks' = lookback_ticks /\ recent_touched' = recent_touched
      /\ last_observed_end' = last_observed_end /\ history' = history
      /\ pool' = pool /\ out' = out /\ stats' = stats
      /\ last_seeds' = last_seeds /\ todo' = todo /\ seen' = seen
      /\ pc = "open" /\ pc' = "open" /\ picked # <<>> /\ picked' = Tail(picked)
  BY DEF OpenCase, lookback, building
<1>2. tick' = tick /\ TypeOK /\ tick \in Nat
  BY <1>1, Replayed DEF tick, GeneratorInv
<1>3. PICK h \in Candidate \X Lanes : h = Head(picked)
  BY <1>1, <1>2, HeadTailProperties DEF TypeOK
<1>4. PICK new : new = [members |-> h[1].nodes, score |-> h[1].score,
                        lane |-> h[2], opened_t |-> tick]
  OBVIOUS
<1>5. cases' = Append(cases, new) /\ new \in Case
  BY <1>2, <1>3, <1>4 DEF OpenCase, Case, Candidate
<1>6. PICK l \in Nat : l = Len(cases)
  BY <1>2, LenProperties DEF TypeOK
<1>7. /\ cases' \in Seq(Case) /\ Len(cases') = l + 1 /\ cases'[l + 1] = new
      /\ \A k \in 1..l : cases'[k] = cases[k]
  BY <1>2, <1>5, <1>6, AppendProperties DEF TypeOK
<1>8. PICK n \in Nat : n = Len(picked) /\ n >= 1
  BY <1>1, <1>2, LenProperties, EmptySeq DEF TypeOK
<1>9. /\ picked' \in Seq(Candidate \X Lanes) /\ Len(picked') = n - 1
      /\ \A k \in 1..n - 1 : picked'[k] = picked[k + 1]
      /\ picked[1] = h
  BY <1>1, <1>2, <1>3, <1>8, HeadTailProperties DEF TypeOK
<1>10. Promoted' = Promoted
  <2> DEFINE Opened(c) == [members |-> c.members, score |-> c.score, lane |-> c.lane]
             Waiting(p) == [members |-> p[1].nodes, score |-> p[1].score, lane |-> p[2]]
  <2>1. \A x : x \in Promoted <=>
           \/ \E k \in 1..l : cases[k].opened_t = tick /\ x = Opened(cases[k])
           \/ \E k \in 1..n : x = Waiting(picked[k])
    BY <1>6, <1>8 DEF Promoted
  <2>2. \A x : x \in Promoted' <=>
           \/ \E k \in 1..l + 1 : cases'[k].opened_t = tick /\ x = Opened(cases'[k])
           \/ \E k \in 1..n - 1 : x = Waiting(picked'[k])
    BY <1>2, <1>7, <1>9 DEF Promoted
  <2>3. new.opened_t = tick /\ Opened(new) = Waiting(h)
    BY <1>4
  <2> HIDE DEF Opened, Waiting
  <2>4. ASSUME NEW x \in Promoted PROVE x \in Promoted'
    <3>1. CASE \E k \in 1..l : cases[k].opened_t = tick /\ x = Opened(cases[k])
      BY <1>7, <2>2, <3>1
    <3>2. CASE \E k \in 1..n : x = Waiting(picked[k])
      <4>1. PICK k \in 1..n : x = Waiting(picked[k])
        BY <3>2
      <4>2. CASE k = 1
        <5>1. l + 1 \in 1..l + 1 /\ cases'[l + 1].opened_t = tick
              /\ x = Opened(cases'[l + 1])
          BY <1>6, <1>7, <1>9, <2>3, <4>1, <4>2
        <5> QED
          BY <2>2, <5>1
      <4>3. CASE k # 1
        <5>1. k - 1 \in 1..n - 1 /\ (k - 1) + 1 = k
          BY <1>8, <4>1, <4>3
        <5>2. picked'[k - 1] = picked[k]
          BY <1>9, <5>1
        <5> QED
          BY <2>2, <4>1, <5>1, <5>2
      <4> QED
        BY <4>2, <4>3
    <3> QED
      BY <2>1, <2>4, <3>1, <3>2
  <2>5. ASSUME NEW x \in Promoted' PROVE x \in Promoted
    <3>1. CASE \E k \in 1..l + 1 : cases'[k].opened_t = tick /\ x = Opened(cases'[k])
      <4>1. PICK k \in 1..l + 1 : cases'[k].opened_t = tick /\ x = Opened(cases'[k])
        BY <3>1
      <4>2. CASE k = l + 1
        <5>1. x = Waiting(picked[1]) /\ 1 \in 1..n
          BY <1>7, <1>8, <1>9, <2>3, <4>1, <4>2
        <5> QED
          BY <2>1, <5>1
      <4>3. CASE k # l + 1
        <5>1. k \in 1..l
          BY <1>6, <4>1, <4>3
        <5> QED
          BY <1>7, <2>1, <4>1, <5>1
      <4> QED
        BY <4>2, <4>3
    <3>2. CASE \E k \in 1..n - 1 : x = Waiting(picked'[k])
      <4>1. PICK k \in 1..n - 1 : x = Waiting(picked'[k])
        BY <3>2
      <4>2. k + 1 \in 1..n /\ picked'[k] = picked[k + 1]
        BY <1>8, <1>9, <4>1
      <4> QED
        BY <2>1, <4>1, <4>2
    <3> QED
      BY <2>2, <2>5, <3>1, <3>2
  <2> QED
    BY <2>4, <2>5
<1>11. TypeOK'
  BY <1>1, <1>2, <1>7, <1>9 DEF TypeOK
<1>12. LookbackInv'
  <2>1. (~Refused)' /\ pool' = Considered'
    BY <1>1, <1>2 DEF GeneratorInv, LookbackInv, Refused, Considered, Seeded
  <2> QED
    BY <1>1, <1>2, <2>1 DEF GeneratorInv, LookbackInv
<1>13. SeedsInv'
  BY <1>1 DEF GeneratorInv, SeedsInv, EverySeedAccounted, EverySeedRepresented
<1>14. QueueInv'
  <2>1. PICK top \in SUBSET out : \E sample \in SUBSET out : ChosenAs(top, sample)
    BY <1>1 DEF GeneratorInv, QueueInv
  <2>2. PICK sample \in SUBSET out : ChosenAs(top, sample)
    BY <2>1
  <2>3. Top(Primary, out, top)'
    BY <1>1, <2>2 DEF ChosenAs, Top
  <2>4. ChosenAs(top, sample)'
    BY <1>1, <1>10, <2>2, <2>3 DEF ChosenAs, LaneOf
  <2>5. ASSUME NEW k \in 1..l + 1 PROVE cases'[k].opened_t <= tick
    <3>1. CASE k = l + 1
      BY <1>2, <1>4, <1>7, <3>1
    <3>2. CASE k # l + 1
      <4>1. k \in 1..l
        BY <1>6, <2>5, <3>2
      <4> QED
        BY <1>6, <1>7, <4>1 DEF GeneratorInv, QueueInv
    <3> QED
      BY <3>1, <3>2
  <2> QED
    BY <1>1, <1>2, <1>7, <2>4, <2>5 DEF GeneratorInv, QueueInv
<1> QED
  BY <1>11, <1>12, <1>13, <1>14 DEF GeneratorInv

-----------------------------------------------------------------------------
(* The results.                                                            *)

\* What every cycle of the detector keeps true: the deque is that of the last
\* ticks observed, each seed expanded so far is represented, and the queue is
\* what select chose (observe, seeds, generate, select, open_case).
THEOREM GeneratorHolds == Spec => []GeneratorInv
<1>1. Init => GeneratorInv
  BY GeneratorInit
<1>2. GeneratorInv /\ [Next]_vars => GeneratorInv'
  <2> SUFFICES ASSUME GeneratorInv, [Next]_vars PROVE GeneratorInv'
    OBVIOUS
  <2>1. CASE AddBatch
    BY <2>1, AddBatchStep
  <2>2. CASE \/ ObserveNothing \/ ObserveRaises \/ Forget \/ NoCycle \/ SeedsRaise
             \/ EndCycle
    BY <2>2, QuietStep
  <2>3. CASE Observe
    BY <2>3, ObserveStep
  <2>4. CASE Seeds
    BY <2>4, SeedsStep
  <2>5. CASE Build
    BY <2>5, BuildStep
  <2>6. CASE Suppress
    BY <2>6, SuppressStep
  <2>7. CASE Select
    BY <2>7, SelectStep
  <2>8. CASE OpenCase
    BY <2>8, OpenCaseStep
  <2>9. CASE UNCHANGED vars
    <3>1. TypeOK' /\ LookbackInv'
      BY <2>9 DEF vars, GeneratorInv, TypeOK, tick, LookbackInv, Seeded, Refused,
                  Considered
    <3>2. SeedsInv'
      BY <2>9 DEF vars, GeneratorInv, SeedsInv, EverySeedAccounted,
                  EverySeedRepresented
    <3>3. Promoted' = Promoted
      BY <2>9 DEF vars, Promoted, tick
    <3>4. QueueInv'
      BY <2>9, <3>3 DEF vars, GeneratorInv, QueueInv, ChosenAs, Top, tick, LaneOf
    <3> QED
      BY <3>1, <3>2, <3>4 DEF GeneratorInv
  <2> QED
    BY <2>1, <2>2, <2>3, <2>4, <2>5, <2>6, <2>7, <2>8, <2>9 DEF Next
<1> QED
  BY <1>1, <1>2, PTL DEF Spec

\* What seeds considers lies in the last lookback_ticks ticks.
LEMMA ConsideredIsRecent ==
  ASSUME GeneratorInv, Seeded
  PROVE  LookbackIsExact /\ SeedsAreInTheWindow
<1>1. /\ tick \in Nat /\ tick >= 1 /\ history \in [1..tick -> Batches]
      /\ lookback_ticks \in Nat /\ lookback_ticks >= 1
      /\ lookback_ticks <= WindowTicks /\ WindowTicks \in Nat
  BY Replayed DEF GeneratorInv, LookbackInv, Seeded
<1>2. PICK o \in Nat : o = stats["observed_ticks"]
  BY Replayed DEF GeneratorInv
<1>3. pool = Considered /\ ~Refused
  BY DEF GeneratorInv, LookbackInv
<1>4. PICK l \in Nat : /\ l <= tick /\ l <= lookback_ticks
                       /\ pool = TouchedSince(tick + 1 - l)
                       /\ lookback_ticks # 1 => l = Min({lookback_ticks, o})
                       /\ lookback_ticks = 1 => pool = Touched(history[tick])
  <2>1. CASE lookback_ticks = 1
    <3>1. pool = Touched(history[tick])
      BY <1>3, <2>1 DEF GeneratorInv, LookbackInv, Considered
    <3>2. {x \in 1..tick : x >= tick + 1 - 1} = {tick}
      BY <1>1
    <3>3. TouchedSince(tick + 1 - 1) = Touched(history[tick])
      BY <3>2 DEF TouchedSince
    <3> QED
      BY <1>1, <2>1, <3>1, <3>3
  <2>2. CASE lookback_ticks # 1
    <3>1. recent_touched # <<>> /\ last_observed_end = tick
      BY <1>1, <1>3, <2>2 DEF Refused
    <3>2. PICK l \in Nat : l = Len(recent_touched)
      BY Replayed DEF GeneratorInv
    <3>3. /\ l = Min({lookback_ticks, o}) /\ l <= tick
          /\ \A j \in 1..l : recent_touched[j] = Touched(history[tick - l + j])
      BY <1>1, <1>2, <2>2, <3>1, <3>2 DEF GeneratorInv, LookbackInv
    <3>4. l <= lookback_ticks
      BY <1>1, <3>3, MinOfTwo
    <3>5. pool = UNION {recent_touched[k] : k \in 1..l}
      BY <1>3, <3>1, <3>2 DEF Considered
    <3>6. ASSUME NEW k \in 1..l
          PROVE  tick - l + k \in {x \in 1..tick : x >= tick + 1 - l}
      BY <1>1, <3>3
    <3>7. ASSUME NEW x \in 1..tick, x >= tick + 1 - l
          PROVE  x - (tick - l) \in 1..l /\ tick - l + (x - (tick - l)) = x
      BY <1>1, <3>3, <3>7
    <3>8. pool \subseteq TouchedSince(tick + 1 - l)
      BY <3>3, <3>5, <3>6 DEF TouchedSince
    <3>9. TouchedSince(tick + 1 - l) \subseteq pool
      <4> SUFFICES ASSUME NEW x \in 1..tick, x >= tick + 1 - l
                   PROVE  Touched(history[x]) \subseteq pool
        BY DEF TouchedSince
      <4>1. PICK k \in 1..l : tick - l + k = x
        BY <3>7
      <4> QED
        BY <3>3, <3>5, <4>1
    <3>10. pool = TouchedSince(tick + 1 - l)
      BY <3>8, <3>9
    <3> QED
      BY <2>2, <3>3, <3>4, <3>10
  <2> QED
    BY <2>1, <2>2
<1>5. LookbackIsExact
  BY <1>2, <1>4 DEF LookbackIsExact
<1>6. ASSUME NEW n \in last_seeds
      PROVE  Neighbours(Window(history), n) # {}
  <2>1. n \in TouchedSince(tick + 1 - l)
    BY <1>4 DEF GeneratorInv, TypeOK
  <2>2. PICK j \in 1..tick : j >= tick + 1 - l /\ n \in Touched(history[j])
    BY <2>1 DEF TouchedSince
  <2>3. j > tick - WindowTicks
    BY <1>1, <1>4, <2>2
  <2>4. history[j] \subseteq Window(history)
    BY <2>3 DEF Window, tick
  <2> QED
    BY <2>2, <2>4 DEF Touched, Neighbours, OutAdj, InAdj
<1> QED
  BY <1>5, <1>6 DEF SeedsAreInTheWindow

\* Whatever calls of observe the caller leaves out, the accounts that seeds
\* considers are those of the ticks the lookback names, and each still has
\* money in the window when it is expanded (observe and seeds).
THEOREM SeedsRight == Spec => []SeedsAreRight
<1>1. GeneratorInv => SeedsAreRight
  <2> SUFFICES ASSUME GeneratorInv PROVE LookbackIsExact /\ SeedsAreInTheWindow
    BY DEF GeneratorInv, SeedsAreRight
  <2>1. CASE Seeded
    BY <2>1, ConsideredIsRecent
  <2>2. CASE ~Seeded
    BY <2>2 DEF LookbackIsExact, SeedsAreInTheWindow
  <2> QED
    BY <2>1, <2>2
<1> QED
  BY <1>1, GeneratorHolds, PTL

\* No seed is lost or counted twice, and whatever dedup and suppression drop
\* is represented in the ranking (generate and suppress).
THEOREM NothingIsLost == Spec => []NoSeedIsLost
<1>1. GeneratorInv => NoSeedIsLost
  BY DEF GeneratorInv, SeedsInv, NoSeedIsLost
<1> QED
  BY <1>1, GeneratorHolds, PTL

\* Of finitely many candidates one scores best.
LEMMA BestOfAll ==
  ASSUME NEW S \in SUBSET Candidate, IsFiniteSet(S), S # {}
  PROVE  \E c \in S : \A d \in S : c.score >= d.score
<1>1. PICK n \in Nat : n = Cardinality(S) /\ ExistsBijection(1..n, S)
  BY FS_CardinalityType
<1>2. PICK f \in [1..n -> S] : \A c \in S : \E k \in 1..n : f[k] = c
  BY <1>1 DEF ExistsBijection, Bijection, Surjection
<1>3. \A c \in S : c.score \in Int
  BY GeneratorAssumption DEF Candidate
<1> DEFINE Led == {k \in 0..n : k = 0 \/
                     \E b \in 1..k : \A j \in 1..k : f[b].score >= f[j].score}
<1>4. 0 \in Led
  OBVIOUS
<1>5. ASSUME NEW k \in 0..n, k \in Led, k < n
      PROVE  k + 1 \in Led
  <2>1. k + 1 \in 1..n /\ 1..k + 1 = 1..k \cup {k + 1}
    BY <1>5
  <2>2. f[k + 1].score \in Int /\ \A j \in 1..k : j \in 1..n /\ f[j].score \in Int
    BY <1>2, <1>3, <2>1
  <2>3. CASE k = 0
    BY <2>1, <2>2, <2>3
  <2>4. CASE k # 0
    <3>1. PICK b \in 1..k : \A j \in 1..k : f[b].score >= f[j].score
      BY <1>5, <2>4
    <3>2. CASE f[b].score >= f[k + 1].score
      <4>1. b \in 1..k + 1 /\ \A j \in 1..k + 1 : f[b].score >= f[j].score
        BY <2>1, <3>1, <3>2
      <4> QED
        BY <2>1, <4>1
    <3>3. CASE ~(f[b].score >= f[k + 1].score)
      <4>1. ASSUME NEW j \in 1..k PROVE f[k + 1].score >= f[j].score
        BY <2>2, <3>1, <3>3
      <4>2. k + 1 \in 1..k + 1 /\ \A j \in 1..k + 1 : f[k + 1].score >= f[j].score
        BY <2>1, <2>2, <4>1
      <4> QED
        BY <2>1, <4>2
    <3> QED
      BY <3>2, <3>3
  <2> QED
    BY <2>3, <2>4
<1>6. 0..n \subseteq Led
  <2> HIDE DEF Led
  <2> QED
    BY <1>4, <1>5, AllNumbers
<1>7. n # 0 /\ n \in 0..n
  <2>1. PICK c : c \in S
    OBVIOUS
  <2>2. PICK k \in 1..n : f[k] = c
    BY <1>2, <2>1
  <2> QED
    BY <2>2
<1>8. PICK b \in 1..n : \A j \in 1..n : f[b].score >= f[j].score
  BY <1>6, <1>7
<1>9. f[b] \in S
  BY <1>2
<1> QED
  BY <1>2, <1>8, <1>9

\* As many cases as candidates chosen, at most.
LEMMA OneCaseEach ==
  ASSUME NEW S, IsFiniteSet(S), NEW f, NEW T,
         T = {f[c] : c \in S}, f \in [S -> T]
  PROVE  IsFiniteSet(T) /\ Cardinality(T) <= Cardinality(S)
         /\ Cardinality(T) \in Nat
<1>1. f \in Surjection(S, T)
  BY DEF Surjection
<1> QED
  BY <1>1, FS_Surjection, FS_CardinalityType

\* A cycle opens no more cases than there are reviews, no candidate twice, no
\* control case above a ranked one, and the best candidate on its merit unless
\* the control arm has every review (select).
THEOREM CapacitySpentWell == Spec => []CapacityIsSpentWell
<1>1. ASSUME GeneratorInv, pc = "open" PROVE CapacityIsSpentWell
  <2>1. PICK top \in SUBSET out : \E sample \in SUBSET out : ChosenAs(top, sample)
    BY <1>1 DEF GeneratorInv, QueueInv
  <2>2. PICK sample \in SUBSET out : ChosenAs(top, sample)
    BY <2>1
  <2>3. /\ out \in SUBSET Candidate /\ IsFiniteSet(out)
        /\ \A c, d \in out : c.nodes = d.nodes => c = d
    BY <1>1 DEF GeneratorInv, TypeOK, SeedsInv, QueueInv
  <2>4. /\ IsFiniteSet(top) /\ IsFiniteSet(sample) /\ top \cap sample = {}
        /\ Cardinality(top) \in Nat /\ Cardinality(sample) \in Nat
        /\ Cardinality(out) \in Nat
    BY <2>2, <2>3, FS_Subset, FS_CardinalityType DEF ChosenAs
  <2>5. /\ Primary \in Nat /\ Control \in Nat /\ Primary + Control = Capacity
    BY ShareOfCapacity
  <2>6. /\ Cardinality(top) = IF Primary <= Cardinality(out)
                              THEN Primary ELSE Cardinality(out)
        /\ Cardinality(sample) <= Control
    <3>1. Cardinality(top) = Min({Primary, Cardinality(out)})
      BY <2>2 DEF ChosenAs, Top
    <3> QED
      BY <2>2, <2>4, <2>5, <3>1, MinOfTwo DEF ChosenAs
  <2>7. PICK A : A = {CaseOf(c, LaneOf(c)) : c \in top}
    OBVIOUS
  <2>8. PICK B : B = {CaseOf(c, "control") : c \in sample}
    OBVIOUS
  <2>9. Promoted = A \cup B
    BY <2>2, <2>7, <2>8 DEF ChosenAs
  <2>10. Cardinality(Promoted) <= Capacity
    <3>1. /\ IsFiniteSet(A) /\ Cardinality(A) <= Cardinality(top)
          /\ Cardinality(A) \in Nat
      <4>1. PICK f : f = [c \in top |-> CaseOf(c, LaneOf(c))]
        OBVIOUS
      <4>2. A = {f[c] : c \in top} /\ f \in [top -> A]
        BY <2>7, <4>1
      <4> QED
        BY <2>4, <4>2, OneCaseEach
    <3>2. /\ IsFiniteSet(B) /\ Cardinality(B) <= Cardinality(sample)
          /\ Cardinality(B) \in Nat
      <4>1. PICK f : f = [c \in sample |-> CaseOf(c, "control")]
        OBVIOUS
      <4>2. B = {f[c] : c \in sample} /\ f \in [sample -> B]
        BY <2>8, <4>1
      <4> QED
        BY <2>4, <4>2, OneCaseEach
    <3>3. Cardinality(A \cup B) = Cardinality(A) + Cardinality(B) - Cardinality(A \cap B)
      BY <3>1, <3>2, FS_Union
    <3>4. Cardinality(A \cap B) \in Nat
      BY <3>1, FS_Intersection, FS_CardinalityType
    <3> QED
      BY <2>4, <2>5, <2>6, <2>9, <3>1, <3>2, <3>3, <3>4
  <2>11. \A c \in A : c.lane # "control"
    BY <2>7 DEF CaseOf, LaneOf
  <2>12. \A c \in B : c.lane = "control"
    BY <2>8 DEF CaseOf
  <2>13. ASSUME NEW c \in Promoted, NEW d \in Promoted, c # d
         PROVE  c.members # d.members
    <3>1. \A x, y \in A : x.members = y.members => x = y
      <4> SUFFICES ASSUME NEW x \in top, NEW y \in top, x.nodes = y.nodes
                   PROVE  CaseOf(x, LaneOf(x)) = CaseOf(y, LaneOf(y))
        BY <2>7 DEF CaseOf
      <4>1. x = y
        BY <2>3
      <4> QED
        BY <4>1
    <3>2. \A x, y \in B : x.members = y.members => x = y
      <4> SUFFICES ASSUME NEW x \in sample, NEW y \in sample, x.nodes = y.nodes
                   PROVE  CaseOf(x, "control") = CaseOf(y, "control")
        BY <2>8 DEF CaseOf
      <4>1. x = y
        BY <2>3
      <4> QED
        BY <4>1
    <3>3. \A x \in A, y \in B : x.members # y.members
      <4> SUFFICES ASSUME NEW x \in top, NEW y \in sample, x.nodes = y.nodes
                   PROVE  FALSE
        BY <2>7, <2>8 DEF CaseOf
      <4>1. x = y
        BY <2>3
      <4> QED
        BY <2>4, <4>1
    <3> QED
      BY <2>9, <2>13, <3>1, <3>2, <3>3
  <2>14. ASSUME NEW c \in Promoted, NEW d \in Promoted,
                c.lane = "control", d.lane # "control"
         PROVE  c.score <= d.score
    <3>1. PICK x \in sample : c = CaseOf(x, "control")
      BY <2>8, <2>9, <2>11, <2>14
    <3>2. PICK y \in top : d = CaseOf(y, LaneOf(y))
      BY <2>7, <2>9, <2>12, <2>14
    <3>3. y.score >= x.score
      BY <2>2 DEF ChosenAs, Top
    <3>4. x.score \in Int /\ y.score \in Int
      BY <2>3, GeneratorAssumption DEF Candidate
    <3> QED
      BY <3>1, <3>2, <3>3, <3>4 DEF CaseOf
  <2>15. ASSUME out # {}, Primary > 0
         PROVE  \E c \in Promoted : c.lane # "control" /\ \A d \in out : c.score >= d.score
    <3>1. top # {}
      <4>1. Cardinality(out) # 0 /\ Cardinality({}) = 0
        BY <2>3, <2>15, FS_EmptySet
      <4> QED
        BY <2>4, <2>5, <2>6, <2>15, <4>1
    <3>2. PICK c \in top : \A d \in top : c.score >= d.score
      BY <2>3, <2>4, <3>1, BestOfAll
    <3>3. \A d \in out : c.score >= d.score
      BY <2>2, <3>2 DEF ChosenAs, Top
    <3>4. CaseOf(c, LaneOf(c)) \in Promoted /\ CaseOf(c, LaneOf(c)).score = c.score
          /\ CaseOf(c, LaneOf(c)).lane # "control"
      BY <2>7, <2>9, <2>11 DEF CaseOf
    <3> QED
      BY <3>3, <3>4
  <2> QED
    BY <2>10, <2>13, <2>14, <2>15 DEF CapacityIsSpentWell
<1>2. GeneratorInv => CapacityIsSpentWell
  BY <1>1 DEF CapacityIsSpentWell
<1> QED
  BY <1>2, GeneratorHolds, PTL
=============================================================================
