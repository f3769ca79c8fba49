----------------------------- MODULE Selection -----------------------------
(***************************************************************************)
(* What an array keeps under a mask (numpy's x[mask], a comprehension with *)
(* an if), and a stable sort: the idioms that ingestion and the evaluation *)
(* harness are written in.  Both are given by ranks: the k-th that is kept *)
(* is the one with k - 1 places before it.                                 *)
(***************************************************************************)
EXTENDS Integers, Sequences, FiniteSets

\* how many of a set of numbers come before n, and the k-th of them
Rank(n, S) == Cardinality({m \in S : m < n})
Nth(k, S) == CHOOSE n \in S : Rank(n, S) = k - 1

\* the elements of s at some places, and those that are in a set, in order
PickedAt(s, places) == [k \in 1..Cardinality(places) |-> s[Nth(k, places)]]
Only(s, S) == PickedAt(s, {n \in DOMAIN s : s[n] \in S})

\* A stable sort by a key, which is a function of the places: where the n-th
\* goes, and what comes of it.
Place(n, key) ==
  Cardinality({m \in DOMAIN key : key[m] < key[n] \/ (key[m] = key[n] /\ m <= n)})
SortedBy(s, key) == [k \in DOMAIN s |-> s[CHOOSE n \in DOMAIN s : Place(n, key) = k]]
=============================================================================
