----------------------------- MODULE MCOffline ------------------------------
(***************************************************************************)
(* TLC instance of the programs that run beside the detector.  They share  *)
(* no state, so a behaviour is one of them alone: `part' says which, and   *)
(* the others rest where they would start.                                 *)
(***************************************************************************)
EXTENDS Identity, Corpus, Publication, Calibration, Economics, Ingestion, Evaluation

CONSTANT Parts    \* the programs run

VARIABLE part

-----------------------------------------------------------------------------
(* Identity: structures at and above RARE_MULTIPLICITY = 2.                *)

MCSize == [solo |-> {1}, household |-> {2}, joint |-> {2}, office |-> {3},
           landlord |-> {3}, roommates |-> {2}]

World(legit, fraud, size, queue) ==
  [n_legit |-> legit, n_fraud |-> fraud, cluster_size |-> size, queue |-> queue]

\* A small world with a queue of two; then longer chains, and a remainder too
\* short for a chain, with one file.
MCParams == {World(1, 2, 2, 2), World(1, 3, 3, 1), World(2, 3, 2, 1)}

\* The identity and the reversal; the signal flags the first application or,
\* dealt the other way round, the last.
MCOrders(n) == {[i \in 1..n |-> i], [i \in 1..n |-> n + 1 - i]}
MCFlagged(n) == {1} \cap 1..n

-----------------------------------------------------------------------------
(* Publication: 0.2778 and a reading that agrees with it at three decimals *)
(* only, and one below zero.                                               *)
MCReadings == {2778, 2776, -1653}

-----------------------------------------------------------------------------
(* Calibration: three terms, one of which may be retired and one of them   *)
(* so light that a lift of five does not bring it to one; the control lane *)
(* weighs ten times the others (CONTROL_FRACTION is 0.10).                 *)

MCBlends == {[a |-> 1, b |-> 2, c |-> 1], [a |-> 0, b |-> 1, c |-> 7]}
MCLanes == [primary |-> 1, control |-> 10]

-----------------------------------------------------------------------------
(* Economics: shares are in sixtieths, and a review costs 900.             *)

MCModels ==
  {[input |-> [analyst_minutes_per_case |-> 30, analyst_cost_per_hour |-> 30,
               value_at_risk_per_ring |-> v, recovery_rate |-> r,
               analyst_false_approval_rate |-> a, harm_per_wrong_action |-> h],
    sources |-> s] :
     v \in {0, 3000, 30000}, r \in {0, 30, 60}, a \in {0, 30},
     h \in {0, 3000}, s \in {{}, {"recovery_rate"}}}
MCMeasured == {<<>>} \cup [{1, 2, 4} -> {0, 18, 60}]
MCFallback == [k \in {1, 2} |-> IF k = 1 THEN 18 ELSE 6]

-----------------------------------------------------------------------------
(* Ingestion: banks whose numbers differ by leading zeros or by nothing.   *)

Pay(ts, from, to) == [ts |-> ts, from |-> from, to |-> to, amount |-> 1]
Owned_by(bank, entity) == [bank |-> bank, entity |-> entity]
MCPatternRows == {Pay(0, <<0, 7>>, <<7, 0>>), Pay(2, <<7, 0>>, <<0>>)}
MCPlain == {Pay(0, <<0>>, <<>>), Pay(2, <<7, 0>>, <<7, 0>>)}
MCAccountFiles ==
  {<<Owned_by(<<7>>, "e"), Owned_by(<<>>, "e"), Owned_by(<<0, 0>>, "e"),
     Owned_by(<<0, 7>>, "")>>,
   <<Owned_by(<<0>>, "e"), Owned_by(<<7, 0>>, "e")>>}

-----------------------------------------------------------------------------
(* Evaluation: a and b share an account, one candidate covers both; c may  *)
(* have too few members in a window; one candidate is mere bulk.           *)

Shown(ring, members) == [ring |-> ring, members |-> members]
RingA == Shown("a", {1, 2, 3})
RingB == Shown("b", {3, 4, 5})
RingC == Shown("c", {6, 7, 8, 10})
MCTypologyOf == [a |-> "CYCLE", b |-> "STACK", c |-> "CYCLE"]
MCTraffics ==
  {<<>>, <<RingA>>, <<RingA, RingB>>, <<RingB, RingA>>,
   <<RingB, RingC>>, <<Shown("c", {6, 7})>>, <<RingC, RingB, RingA>>}
Bulk == {9, 11, 12, 13}
MCQueues ==
  {<<>>, <<1..5>>, <<{1, 2}, 1..5>>, <<Bulk, {6, 7}, {3, 4}>>,
   <<1..11, {1, 2, 3}>>, <<{6, 7, 8}, {6, 7}, {9}>>}

\* With more seeds: a pool where there was none, one more candidate, or one
\* that absorbs what was found without them.
MCCheatPools ==
  [q \in MCQueues |->
     CASE q = <<>> -> <<{1, 2, 3}>>
       [] q = <<1..5>> -> <<{6, 7, 8}, 1..5>>
       [] q = <<{6, 7, 8}, {6, 7}, {9}>> -> <<2..9>>
       [] OTHER -> q]

\* Two links, one of them already a candidate; more draws than are wanted, and
\* fewer; merges before and after the pool they come from.
Pair(i, j, at) == [a |-> i, c |-> j, at |-> at]
MCJoinedBy ==
  [q \in MCQueues |->
     CASE Len(q) = 3 -> <<Pair(1, 3, 0), Pair(3, 1, 0), Pair(2, 3, 3)>>
       [] OTHER -> <<>>]
MCDrawnPairs ==
  [q \in MCQueues |->
     CASE q = <<Bulk, {6, 7}, {3, 4}>> -> <<Pair(1, 2, 1), Pair(3, 1, 0), Pair(2, 3, 0)>>
       [] Len(q) = 3 -> <<Pair(1, 2, 0)>>
       [] OTHER -> <<>>]

\* Account 20 is in no ring.  With more seeds an arm finds something where the
\* shipped one finds nothing, or better candidates.
MCSeedings == {{20}, {1}}
MCTouched == [s \in MCSeedings |-> IF s = {1} THEN {1, 5} ELSE {20, 3, 6}]
MCExtraSeeds ==
  [gargaml |-> [s \in MCSeedings |-> IF s = {1} THEN {5} ELSE {3}],
   degree |-> [s \in MCSeedings |-> IF s = {1} THEN {5} ELSE {6}]]
MCArmPools ==
  [gargaml |-> [q \in MCQueues |-> IF q = <<>> THEN <<{1, 2, 3}>> ELSE q],
   degree |-> [q \in MCQueues |-> IF Len(q) = 1 THEN <<{6, 7, 8}, 1..5>> ELSE q]]

-----------------------------------------------------------------------------
IdentityRests == IdentityInit /\ params = World(1, 2, 2, 2)
CorpusRests == CorpusInit /\ ~ranker_pool.there /\ ~corpus.there
CalibrationRests == CalibrationInit /\ blend = [a |-> 1, b |-> 2, c |-> 1]
EconomicsRests == EconomicsInit /\ measured = <<>> /\ model = CHOOSE m \in CostModels : TRUE

OfflineInit ==
  /\ part \in Parts
  /\ IF part = "identity" THEN IdentityInit ELSE IdentityRests
  /\ IF part = "corpus" THEN CorpusInit ELSE CorpusRests
  /\ PublicationInit
  /\ IF part = "calibration" THEN CalibrationInit ELSE CalibrationRests
  /\ IF part = "economics" THEN EconomicsInit ELSE EconomicsRests
  /\ IngestionInit
  /\ EvaluationInit

OfflineNext ==
  \/ /\ part = "identity" /\ IdentityNext
     /\ UNCHANGED <<part, corpusVars, publicationVars, calibrationVars,
                    economicsVars, ingestionVars, evaluationVars>>
  \/ /\ part = "corpus" /\ CorpusNext
     /\ UNCHANGED <<part, identityVars, publicationVars, calibrationVars,
                    economicsVars, ingestionVars, evaluationVars>>
  \/ /\ part = "publication" /\ PublicationNext
     /\ typed' = {} \/ unresolved' = {}   \* bound: one kind of edit at a time
     /\ artefact'.is # "full" => artefact'.number \in {0, 2778}   \* bound: never read
     /\ UNCHANGED <<part, identityVars, corpusVars, calibrationVars,
                    economicsVars, ingestionVars, evaluationVars>>
  \/ /\ part = "calibration" /\ CalibrationNext
     /\ UNCHANGED <<part, identityVars, corpusVars, publicationVars,
                    economicsVars, ingestionVars, evaluationVars>>
  \/ /\ part = "economics" /\ EconomicsNext
     /\ UNCHANGED <<part, identityVars, corpusVars, publicationVars,
                    calibrationVars, ingestionVars, evaluationVars>>
  \/ /\ part = "ingestion" /\ IngestionNext
     /\ UNCHANGED <<part, identityVars, corpusVars, publicationVars,
                    calibrationVars, economicsVars, evaluationVars>>
  \/ /\ part = "evaluation" /\ EvaluationNext
     /\ UNCHANGED <<part, identityVars, corpusVars, publicationVars,
                    calibrationVars, economicsVars, ingestionVars>>

OfflineSpec ==
  OfflineInit /\ [][OfflineNext]_<<part, identityVars, corpusVars,
    publicationVars, calibrationVars, economicsVars, ingestionVars, evaluationVars>>
=============================================================================
