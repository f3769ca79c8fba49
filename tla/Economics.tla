----------------------------- MODULE Economics -----------------------------
(***************************************************************************)
(* What a review queue is worth (src/sentinel/economics/cost.py), the      *)
(* report of src/scripts/eval_cost.py and the cost gate of                 *)
(* src/scripts/ci_gates.py.                                                *)
(*                                                                         *)
(* All numbers are integers.  A share is a number of One, so that a net    *)
(* benefit is multiplied by One squared.  A break-even precision or a      *)
(* required exposure is a pair <<numerator, denominator>>; a denominator   *)
(* of zero is the code's inf.                                              *)
(***************************************************************************)
EXTENDS Integers, FiniteSets

CONSTANTS
  One,                 \* what a share of 1.0 is
  CostModels,          \* the cost models considered
  Measured,            \* the measured precision@k considered; <<>> is none
  FALLBACK_SCORE,      \* precision@k when nothing is measured
  REPORTED_PRECISION,
  Tenths               \* the band of the gate, in tenths: from 1 to 100

Inputs == {"analyst_minutes_per_case", "analyst_cost_per_hour",
           "value_at_risk_per_ring", "recovery_rate",
           "analyst_false_approval_rate", "harm_per_wrong_action"}
Proportions == {"recovery_rate", "analyst_false_approval_rate"}

ASSUME EconomicsAssumption ==
  /\ One \in Nat \ {0} /\ REPORTED_PRECISION \in 0..One
  /\ \A m \in CostModels :
       /\ m.sources \subseteq Inputs
       /\ m.input \in [Inputs -> Nat]
       \* all factors divide the inputs, so that arithmetic is exact
       /\ \A i \in Inputs : m.input[i] % 30 = 0
       /\ \A i \in Proportions : m.input[i] <= One
  /\ \A s \in Measured \cup {FALLBACK_SCORE} :
       /\ \A k \in DOMAIN s : k \in Nat \ {0} /\ s[k] \in 0..One
       /\ \E deepest \in DOMAIN s \cup {0} : \A k \in DOMAIN s : k <= deepest
  /\ Tenths \subseteq 1..100

VARIABLES
  model,       \* the cost model
  measured,    \* data/eval_phase2.json, as far as it holds scores
  cost_report, \* what eval_cost.py wrote, or NoCostReport
  cost_gate    \* what the gate said: "none", "pass" or "fail"

economicsVars == <<model, measured, cost_report, cost_gate>>

-----------------------------------------------------------------------------
(* CostModel, of its inputs.                                               *)

\* The hourly cost is in sixties of the unit of the other amounts, which is
\* what analyst_minutes_per_case / 60.0 comes to.
ReviewCost(i) == i["analyst_cost_per_hour"] * i["analyst_minutes_per_case"]
Benefit(i) == i["value_at_risk_per_ring"] * i["recovery_rate"]
Harm(i) == i["analyst_false_approval_rate"] * i["harm_per_wrong_action"]

\* net_benefit_per_case, times One squared
NetBenefit(i, p) ==
  p * Benefit(i) - One * One * ReviewCost(i) - (One - p) * Harm(i)

\* break_even_precision and required_value_at_risk; a share is in units of One
BreakEven(i) == <<One * (One * ReviewCost(i) + Harm(i)), Benefit(i) + Harm(i)>>
RequiredValueAtRisk(i, p) ==
  <<One * One * ReviewCost(i) + (One - p) * Harm(i), p * i["recovery_rate"]>>

\* x is above, or below, a number that may be infinite
Above(x, r) == r[2] > 0 /\ x * r[2] > r[1]
Below(x, r) == r[2] > 0 => x * r[2] < r[1]

\* evaluate_queue: the depths that pay, and the total at each
TotalNetBenefit(i, s) == [k \in DOMAIN s |-> k * NetBenefit(i, s[k])]

\* the first of the depths that max() finds; 0 stands for None
OptimalK(i, s) ==
  LET total == TotalNetBenefit(i, s)
      paying == {k \in DOMAIN s : total[k] > 0}
  IN IF paying = {} THEN 0
     ELSE CHOOSE k \in paying : \A l \in paying :
            total[l] < total[k] \/ (total[l] = total[k] /\ k <= l)

Unsourced(m) == Inputs \ m.sources

-----------------------------------------------------------------------------
(* Stress.                                                                 *)

\* mutant: a recovery that grows is taken for the adverse case
ADVERSE_DIRECTION_RECOVERY(name) ==
  IF name = "value_at_risk_per_ring" THEN "down" ELSE "up"

ADVERSE_DIRECTION(name) ==
  IF name \in {"value_at_risk_per_ring", "recovery_rate"} THEN "down" ELSE "up"

AtMostOne(name, value) ==
  IF name \in Proportions /\ value > One THEN One ELSE value

\* one input of i times tenths / 10 (sensitivity, and the gate's own loop)
Scaled(i, name, tenths) ==
  [i EXCEPT ![name] = AtMostOne(name, (@ * tenths) \div 10)]

\* joint_adverse, for the inputs of which; the clamp is for moves up
Adverse(i, which, factor) ==
  [name \in Inputs |->
     IF name \notin which THEN i[name]
     ELSE IF ADVERSE_DIRECTION(name) = "up"
          THEN AtMostOne(name, i[name] * factor) ELSE i[name] \div factor]
JointAdverse(i, factor) == Adverse(i, Inputs, factor)

Sweep == {2, 3, 5, 10}
DepthsThatPay(i, s) == {k \in DOMAIN s : Above(s[k], BreakEven(i))}

-----------------------------------------------------------------------------
NoCostReport == [queue |-> {}, optimal_k |-> 0, depths_that_pay |-> <<>>,
                 unreachable |-> {}]

EconomicsInit ==
  /\ model \in CostModels /\ measured \in Measured
  /\ cost_report = NoCostReport /\ cost_gate = "none"

\* load_precision
PrecisionAtK == IF DOMAIN measured # {} THEN measured ELSE FALLBACK_SCORE

\* eval_cost.main
CostReport ==
  [queue |-> {k \in DOMAIN PrecisionAtK :
                NetBenefit(model.input, PrecisionAtK[k]) > 0},
   optimal_k |-> OptimalK(model.input, PrecisionAtK),
   depths_that_pay |->
     [f \in Sweep |-> DepthsThatPay(JointAdverse(model.input, f), PrecisionAtK)],
   unreachable |->
     {f \in Sweep : Below(One, BreakEven(JointAdverse(model.input, f)))}]

EvalCost ==
  /\ cost_report' = CostReport
  /\ UNCHANGED <<model, measured, cost_gate>>

Pays(i) == NetBenefit(i, REPORTED_PRECISION) > 0

\* gate_cost's critical inputs: a tenth and ten times of one flip the answer
Critical(m) ==
  {name \in Unsourced(m) : \E tenths \in {1, 100} :
     Pays(Scaled(m.input, name, tenths)) # Pays(m.input)}

GateCost ==
  /\ cost_gate' = IF Critical(model) = {} THEN "pass" ELSE "fail"
  /\ UNCHANGED <<model, measured, cost_report>>

EconomicsNext == EvalCost \/ GateCost
EconomicsSpec == EconomicsInit /\ [][EconomicsNext]_economicsVars

-----------------------------------------------------------------------------
(* Properties.                                                             *)

EconomicsTypeOK ==
  /\ model \in CostModels /\ measured \in Measured
  /\ cost_gate \in {"none", "pass", "fail"}
  /\ cost_report.queue \subseteq DOMAIN PrecisionAtK
  /\ cost_report.optimal_k \in DOMAIN PrecisionAtK \cup {0}

\* The three ways in which the report says that a depth pays agree: net
\* benefit, break-even precision and required exposure, also where a
\* denominator is zero.
AnswersAgree ==
  \A k \in DOMAIN PrecisionAtK :
    LET i == model.input
        p == PrecisionAtK[k]
        pays == NetBenefit(i, p) > 0
    IN /\ pays = Above(p, BreakEven(i))
       /\ pays = Above(i["value_at_risk_per_ring"], RequiredValueAtRisk(i, p))

\* What the sweep calls a stress is the worst of its box: a depth that pays
\* with all inputs adverse pays with any of them adverse by that factor or by
\* less; and the depth recommended is one of those that pay.
StressIsTheWorst ==
  cost_report # NoCostReport =>
    /\ (cost_report.optimal_k = 0) = (cost_report.queue = {})
    /\ cost_report.optimal_k \in cost_report.queue \cup {0}
    /\ \A f, g \in Sweep : g <= f =>
         \A which \in SUBSET Inputs :
           cost_report.depths_that_pay[f] \subseteq
             DepthsThatPay(Adverse(model.input, which, g), PrecisionAtK)
    /\ \A f \in cost_report.unreachable : cost_report.depths_that_pay[f] = {}

\* The gate asks only about the ends of the band, a tenth and ten times, and
\* its answer is for all of it (gate_cost: `across an order of magnitude').
GateCoversTheBand ==
  cost_gate = "pass" =>
    \A name \in Unsourced(model), tenths \in Tenths :
      Pays(Scaled(model.input, name, tenths)) = Pays(model.input)

\* The conclusions of the cost report and of the gate are those of the model
\* they are computed from, at its edges as well (eval_cost.main, gate_cost).
CostConclusionsHold ==
  EconomicsTypeOK /\ AnswersAgree /\ StressIsTheWorst /\ GateCoversTheBand

-----------------------------------------------------------------------------
(* The inductive invariant: what was written is what the model comes to.   *)

EconomicsInv ==
  /\ model \in CostModels /\ measured \in Measured
  /\ cost_gate \in {"none", "pass", "fail"}
  /\ cost_report \in {NoCostReport, CostReport}
  /\ cost_gate = "pass" => Critical(model) = {}
=============================================================================
