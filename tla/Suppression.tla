----------------------------- MODULE Suppression -----------------------------
(***************************************************************************)
(* Overlap suppression (src/sentinel/detect/merge.py): greedy non-maximum  *)
(* suppression over the member sets of one tick's candidates, helped by an *)
(* index from accounts to candidates and by a test on the sizes alone.     *)
(*                                                                         *)
(* One action is one iteration of the loop of `suppress'.  `rivals' is a   *)
(* set, walked in any order.  The threshold is the fraction P / Q.         *)
(***************************************************************************)
EXTENDS Integers, Sequences, FiniteSets

CONSTANTS
  Accounts,    \* accounts
  P, Q,        \* the threshold, DEFAULT_THRESHOLD = 1 / 2
  Orderings,   \* the suppression orderings considered
  Lists        \* the lists of candidates considered, in every order

\* key is the rank of the canonical key, a function of the member set.
Candidate == [key : Nat, nodes : SUBSET Accounts, score : Int]

ASSUME SuppressionAssumption ==
  /\ IsFiniteSet(Accounts)
  /\ P \in Nat \ {0} /\ Q \in Nat /\ P <= Q
  /\ Orderings \subseteq {"score", "largest", "smallest", "key"}
  /\ Lists \subseteq Seq(Candidate)
  \* generate emits a member set once
  /\ \A l \in Lists : \A j, k \in 1..Len(l) : j # k => l[j].key # l[k].key

VARIABLES
  ordering,   \* argument
  ordered,    \* the candidates, sorted
  i,          \* loop index
  by_node,    \* account -> the kept candidates it is a member of
  kept,       \* the survivors, as positions in `ordered'
  absorbed    \* survivor -> the positions absorbed into it

suppression == <<ordering, ordered, i, by_node, kept, absorbed>>

-----------------------------------------------------------------------------
Smaller(a, b) == IF a <= b THEN a ELSE b
Larger(a, b) == IF a <= b THEN b ELSE a

\* jaccard(a, b) >= P / Q; P > 0, so disjoint sets never reach it
JaccardReaches(a, b) ==
  /\ a # {} /\ b # {}
  /\ Cardinality(a \cap b) * Q >= P * Cardinality(a \cup b)

\* mutant: the bound is strict, and rules out sizes that reach the threshold
SizesReachStrict(a, b) ==
  Smaller(Cardinality(a), Cardinality(b)) * Q
    > P * Larger(Cardinality(a), Cardinality(b))

\* the size-bound pre-rejection; its slack only absorbs rounding
SizesReach(a, b) ==
  Smaller(Cardinality(a), Cardinality(b)) * Q
    >= P * Larger(Cardinality(a), Cardinality(b))

\* mutant: candidates of one size are told apart by their score
AheadTiesByScore(o, c, d) ==
  LET m == Cardinality(c.nodes)
      n == Cardinality(d.nodes)
  IN CASE o = "score" -> c.score > d.score
       [] o = "largest" -> m > n \/ (m = n /\ c.score > d.score)
       [] o = "smallest" -> m < n \/ (m = n /\ c.score > d.score)
       [] o = "key" -> c.key < d.key

\* _ORDER_KEYS: c sorts strictly before d
Ahead(o, c, d) ==
  LET m == Cardinality(c.nodes)
      n == Cardinality(d.nodes)
  IN CASE o = "score" -> c.score > d.score
       [] o = "largest" -> m > n \/ (m = n /\ c.key < d.key)
       [] o = "smallest" -> m < n \/ (m = n /\ c.key < d.key)
       [] o = "key" -> c.key < d.key

\* What a stable sort returns for some order of insertion.
Sorted(o, l) == \A j, k \in 1..Len(l) : j < k => ~Ahead(o, l[k], l[j])

Members(k) == ordered[k].nodes

-----------------------------------------------------------------------------
SuppressInit ==
  /\ ordering \in Orderings
  /\ ordered \in {l \in Lists : Sorted(ordering, l)}
  /\ i = 1
  /\ by_node = [n \in Accounts |-> {}]
  /\ kept = {}
  /\ absorbed = [k \in 1..Len(ordered) |-> {}]

Rivals == UNION {by_node[n] : n \in Members(i)}

\* the rivals that may absorb candidate i; the first one met does
Winners == {j \in Rivals : /\ SizesReach(Members(i), Members(j))
                           /\ JaccardReaches(Members(i), Members(j))}

Absorb ==
  /\ i <= Len(ordered)
  /\ \E j \in Winners : absorbed' = [absorbed EXCEPT ![j] = @ \cup {i}]
  /\ i' = i + 1
  /\ UNCHANGED <<ordering, ordered, by_node, kept>>

\* by_node once candidate k is kept
Indexed(k) == [n \in Accounts |-> IF n \in Members(k)
                               THEN by_node[n] \cup {k} ELSE by_node[n]]

Keep ==
  /\ i <= Len(ordered)
  /\ Winners = {}
  /\ kept' = kept \cup {i}
  /\ by_node' = Indexed(i)
  /\ i' = i + 1
  /\ UNCHANGED <<ordering, ordered, absorbed>>

SuppressStep == Absorb \/ Keep

SuppressSpec == SuppressInit /\ [][SuppressStep]_suppression

-----------------------------------------------------------------------------
(* Properties.                                                             *)

Positions == 1..Len(ordered)

SuppressTypeOK ==
  /\ ordering \in Orderings
  /\ ordered \in Seq(Candidate)
  /\ i \in 1..Len(ordered) + 1
  /\ by_node \in [Accounts -> SUBSET Positions]
  /\ kept \subseteq Positions
  /\ absorbed \in [Positions -> SUBSET Positions]

\* Survivors are found by the accounts they contain and by no others; a
\* survivor the index has lost would let a near-duplicate through (suppress).
IndexExact ==
  /\ kept \subseteq 1..i - 1
  /\ \A n \in Accounts : by_node[n] = {k \in kept : n \in Members(k)}

\* What is returned has no two views of one neighbourhood, although only the
\* candidates found through the index and passed by the size test are ever
\* compared (suppress).
SurvivorsAreDistinct ==
  \A j, k \in kept : j # k => ~JaccardReaches(Members(j), Members(k))

\* Nothing is dropped silently: every candidate processed survives or is
\* counted once, by a survivor that overlaps it and does not rank behind it
\* (suppress, and the module's `recording what was absorbed').
EveryViewIsRepresented ==
  \A j \in 1..i - 1 :
    LET by == {k \in Positions : j \in absorbed[k]} IN
    IF j \in kept THEN by = {}
    ELSE \E k \in kept :
           /\ by = {k}
           /\ JaccardReaches(Members(j), Members(k))
           /\ ~Ahead(ordering, ordered[j], ordered[k])

\* What is ranked has one view of each neighbourhood, and none goes missing
\* without a trace (suppress).
SuppressionIsSound ==
  SuppressTypeOK /\ SurvivorsAreDistinct /\ EveryViewIsRepresented

\* Under a score-free ordering the surviving pool is a function of the member
\* sets alone, the unique one in which a candidate survives unless a survivor
\* before it in the documented order overlaps it, whatever the scores and the
\* order of insertion are (merge.py on experiment B3).
ScoreFreeAhead(c, d) ==
  LET m == Cardinality(c.nodes)
      n == Cardinality(d.nodes)
  IN \/ ordering = "largest" /\ m > n
     \/ ordering = "smallest" /\ m < n
     \/ (ordering = "key" \/ m = n) /\ c.key < d.key

PoolIgnoresScore ==
  ordering # "score" /\ i > Len(ordered) =>
    \A j \in Positions :
      j \in kept <=> ~\E k \in kept :
                        /\ ScoreFreeAhead(ordered[k], ordered[j])
                        /\ JaccardReaches(Members(j), Members(k))
=============================================================================
