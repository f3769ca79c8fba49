----------------------------- MODULE MCCandidates -----------------------------
(* TLC instance of the two stages that make the candidates of one cycle;   *)
(* a behaviour exercises one of them while the other rests.                *)
(*                                                                         *)
(* build: every graph made of the links of Links, seeded at `a'.           *)
(* suppress: every list of Length different member sets among those of     *)
(* three or four of the first five accounts and the one of all six (of     *)
(* which three are exactly half), under every scoring by Scores.           *)
EXTENDS CandidateBuild, Suppression, FiniteSetsExt

CONSTANTS a, b, c, d, e, Length, Scores

VARIABLE part   \* the stage this behaviour exercises

AllStrategies == {"none", "leaf2", "kcore2", "near_or_linked"}
AllOrderings == {"score", "largest", "smallest", "key"}

Links == {<<a, b>>, <<c, a>>, <<a, d>>, <<e, a>>, <<b, c>>, <<d, b>>, <<b, e>>,
          <<c, d>>, <<e, c>>, <<d, e>>, <<b, b>>}
MCGraphs == SUBSET Links

MCSets ==
  kSubset(3, Accounts \ {6}) \cup kSubset(4, Accounts \ {6}) \cup {Accounts}
\* some injective rank of the member sets, for the canonical key
Rank(x) == MapThenSumSet(LAMBDA n : 2^n, x)

Injections ==
  {m \in [1..Length -> MCSets] : \A j, k \in 1..Length : m[j] = m[k] => j = k}

MCLists ==
  {<<>>} \cup
  {[r \in 1..Length |-> [key |-> Rank(l[r]), nodes |-> l[r], score |-> f[r]]] :
      l \in Injections, f \in [1..Length -> Scores]}

BuildRests ==
  /\ graph = {} /\ seed = a /\ strategy = "none" /\ max_nodes = 4
  /\ seen = {a} /\ frontier = {a} /\ trace = NewTrace
  /\ nodes = {a} /\ keep = {} /\ todo = {} /\ changed = FALSE
  /\ pc = "too_small"

SuppressionRests ==
  /\ ordering = "key" /\ ordered = <<>> /\ i = 1
  /\ by_node = [n \in Accounts |-> {}] /\ kept = {} /\ absorbed = <<>>

MCInit ==
  \/ part = "build" /\ Init /\ seed = a /\ SuppressionRests
  \/ part = "suppress" /\ BuildRests /\ SuppressInit

MCNext ==
  /\ UNCHANGED part
  /\ \/ part = "build" /\ Next /\ UNCHANGED suppression
     \/ part = "suppress" /\ SuppressStep /\ UNCHANGED vars

MCSpec == MCInit /\ [][MCNext]_<<vars, suppression, part>> /\ WF_vars(Next)
=============================================================================
