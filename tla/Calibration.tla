---------------------------- MODULE Calibration ----------------------------
(***************************************************************************)
(* One recalibration pass (src/sentinel/learn/calibrate.py): disposed      *)
(* cases are reduced to one table of counts per score term, terms whose    *)
(* evidence excludes chance move a quarter of the way to a target, and the *)
(* weights are scaled to sum to one.  The verdicts are those of the        *)
(* simulated analyst (src/sentinel/learn/analyst.py).                      *)
(*                                                                         *)
(* Weights are exact: a term's weight is blend[t] over the sum of blend,   *)
(* its new weight proposed[t] over the sum of proposed.  A lift is a pair  *)
(* <<numerator, denominator>>.  Which intervals exclude one is the draw of *)
(* the bootstrap: any of the terms with enough observations, none of them  *)
(* while no case is positive.                                              *)
(***************************************************************************)
EXTENDS Integers, FiniteSetsExt, Functions

CONSTANTS
  Terms,                     \* the score terms
  Blends,                    \* the weights considered, as numerators
  Lanes,                     \* lane -> its LANE_WEIGHTS entry
  MIN_OBSERVATIONS_PER_ARM,
  MaxDisposed                \* bound on disposed cases

ASSUME CalibrationAssumption ==
  /\ IsFiniteSet(Terms)
  /\ Blends \subseteq [Terms -> Nat]
  /\ \A w \in Blends : \E t \in Terms : w[t] > 0   \* features.py's sum is 1
  /\ \A l \in DOMAIN Lanes : Lanes[l] \in Nat \ {0}
  /\ MIN_OBSERVATIONS_PER_ARM \in Nat \ {0} /\ MaxDisposed \in Nat

VARIABLES
  blend,      \* the weights in force
  disposed,   \* the kinds of disposed case -> how many there are
  proposed,   \* the weights proposed, once the pass is done
  moved       \* the terms whose update says `moved'

calibrationVars == <<blend, disposed, proposed, moved>>

Kind == [fired : SUBSET Terms, lane : DOMAIN Lanes,
         verdict : {"positive", "negative", "insufficient_evidence"}]

SumOver(S, f(_)) == MapThenSumSet(f, S)
Total(w) == SumOver(Terms, LAMBDA t : w[t])
NotYet == [t \in Terms |-> 0]

-----------------------------------------------------------------------------
(* The simulated analyst.                                                  *)

\* SimulatedAnalyst.dispose: of a case none, some or most (PARTIAL_BELOW) of
\* whose members are in a ring; a miss and a false confirmation may happen
Verdicts(share) ==
  CASE share = "none" -> {"confirmed_ring", "not_a_ring"}
    [] share = "some" -> {"not_a_ring", "confirmed_partial"}
    [] share = "most" -> {"not_a_ring", "confirmed_ring"}

\* Verdict.is_positive; a person may also find the evidence insufficient
Judged(v) ==
  IF v \in {"confirmed_ring", "confirmed_partial"} THEN "positive"
  ELSE IF v = "not_a_ring" THEN "negative" ELSE v

-----------------------------------------------------------------------------
(* gather_evidence.                                                        *)

Counts(k) == k.verdict # "insufficient_evidence"

Arm(t, fires) ==
  {k \in DOMAIN disposed : Counts(k) /\ (t \in k.fired) = fires}

\* fired_n, raw_fired_n and fired_positive, or their not_fired_ counterparts
Weighted(t, fires) == SumOver(Arm(t, fires), LAMBDA k : Lanes[k.lane] * disposed[k])
Raw(t, fires) == SumOver(Arm(t, fires), LAMBDA k : disposed[k])
Positive(t, fires) ==
  SumOver({k \in Arm(t, fires) : k.verdict = "positive"},
          LAMBDA k : Lanes[k.lane] * disposed[k])

AnyPositive == \E k \in DOMAIN disposed : k.verdict = "positive"

\* the statistic of _lift_ci on all the records
Lift(t) ==
  IF Positive(t, FALSE) = 0
  THEN IF Positive(t, TRUE) > 0 THEN <<10, 1>> ELSE <<1, 1>>
  ELSE <<Positive(t, TRUE) * Weighted(t, FALSE),
         Weighted(t, TRUE) * Positive(t, FALSE)>>

\* neither arm is too small
EnoughObservations(t) ==
  \A fires \in BOOLEAN : Raw(t, fires) >= MIN_OBSERVATIONS_PER_ARM

-----------------------------------------------------------------------------
(* calibrate.                                                              *)

\* mutant: an unbounded lift is taken at its face value
CappedNever(l) == l

\* min(point, 5.0)
Capped(l) == IF l[1] > 5 * l[2] THEN <<5, 1>> ELSE l

\* a common denominator of the lifts used
Denominator(moving) == ProductSet({Capped(Lift(t))[2] : t \in moving})

Lesser(m, n) == IF m <= n THEN m ELSE n

\* weight + (target - weight) / 4, times 4 * Denominator and the old sum; the
\* target is no more than 1
Moved(t, moving) ==
  LET d == Denominator(moving)
      l == Capped(Lift(t))
  IN 3 * blend[t] * d
       + Lesser(Total(blend) * d, blend[t] * l[1] * (d \div l[2]))

Kept(t, moving) == 4 * blend[t] * Denominator(moving)

\* _renormalise's fallback to a uniform blend, or the shares as they are
Renormalised(w) == IF Total(w) = 0 THEN [t \in Terms |-> 1] ELSE w

Pass ==
  /\ proposed = NotYet
  /\ \E moving \in SUBSET {t \in Terms : EnoughObservations(t)} :
       /\ moving # {} => AnyPositive
       /\ moved' = moving
       /\ proposed' = Renormalised(
            [t \in Terms |-> IF t \in moving THEN Moved(t, moving)
                             ELSE Kept(t, moving)])
  /\ UNCHANGED <<blend, disposed>>

\* A case is opened with the contributions of the weights in force and then
\* disposed; only a term of some weight contributes.
DisposeOne ==
  /\ proposed = NotYet
  /\ SumOver(DOMAIN disposed, LAMBDA k : disposed[k]) < MaxDisposed
  /\ \E fired \in SUBSET {t \in Terms : blend[t] > 0}, lane \in DOMAIN Lanes,
        share \in {"none", "some", "most"} :
       \E v \in Verdicts(share) \cup {"insufficient_evidence"} :
         LET k == [fired |-> fired, lane |-> lane, verdict |-> Judged(v)] IN
         disposed' = [x \in DOMAIN disposed \cup {k} |->
                        (IF x \in DOMAIN disposed THEN disposed[x] ELSE 0)
                          + (IF x = k THEN 1 ELSE 0)]
  /\ UNCHANGED <<blend, proposed, moved>>

CalibrationInit ==
  blend \in Blends /\ disposed = <<>> /\ proposed = NotYet /\ moved = {}

CalibrationNext == DisposeOne \/ Pass

CalibrationSpec == CalibrationInit /\ [][CalibrationNext]_calibrationVars

-----------------------------------------------------------------------------
(* Properties.                                                             *)

Done == proposed # NotYet
Refused == Terms \ moved

\* Every judged case is in one arm of every term, and no other is in any.
EvidenceIsComplete ==
  \A t \in Terms :
    Raw(t, TRUE) + Raw(t, FALSE) =
      SumOver({k \in DOMAIN disposed : k.verdict # "insufficient_evidence"},
              LAMBDA k : disposed[k])

\* The share of t against u is larger, or no smaller, than it was.
Gains(t, u) == proposed[t] * blend[u] > proposed[u] * blend[t]
Holds(t, u) == proposed[t] * blend[u] >= proposed[u] * blend[t]

\* Evidence moves weights and nothing else does.  Refused terms keep their
\* proportions; a term that moves gains on every refused one if its lift is
\* above one and loses if it is below, and loses nothing where it had all;
\* and however extreme the verdicts, no term changes by more than 8 / 3
\* against any other in one pass, so that none is retired or revived
\* (calibrate: `Updates shrink toward the current weight').
EvidenceMovesWeights ==
  /\ EvidenceIsComplete
  /\ Done =>
       /\ \A t, u \in Refused : Holds(t, u)
       /\ \A t \in moved, u \in Refused : blend[t] > 0 /\ blend[u] > 0 =>
            /\ Lift(t)[1] > Lift(t)[2] => Gains(t, u)
            /\ Lift(t)[1] < Lift(t)[2] => Gains(u, t)
       /\ \A t, u \in Terms :
            3 * proposed[t] * blend[u] <= 8 * proposed[u] * blend[t]

\* `A term whose interval contains 1.0 does not move' (calibrate).  A stronger
\* reading than the code has: _renormalise moves it with the others.
RefusedTermsStay ==
  Done => \A t \in Refused :
            proposed[t] * Total(blend) = blend[t] * Total(proposed)
=============================================================================
