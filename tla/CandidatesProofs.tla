--------------------------- MODULE CandidatesProofs ---------------------------
(* Proofs about the two stages that make the candidates of one cycle: the  *)
(* making of a candidate, for every graph, seed, node cap, hop budget and  *)
(* hub guard, and overlap suppression, for any accounts, any threshold     *)
(* above zero, any ordering and any list of candidates.  Induction on a    *)
(* number is argued by its least counterexample.                           *)
EXTENDS CandidateBuild, Suppression, FiniteSetTheorems, WellFoundedInduction, TLAPS

-----------------------------------------------------------------------------
(* Neighbourhoods, for any accounts and any graph: what the two recursive  *)
(* functions of Neighbourhood compute.                                     *)

LEMMA AccountSetsAreFinite ==
  ASSUME NEW S \in SUBSET Nodes
  PROVE  IsFiniteSet(S) /\ Cardinality(S) \in Nat
<1>1. IsFiniteSet(S)
  BY NeighbourhoodAssumption, FS_Subset
<1> QED
  BY <1>1, FS_CardinalityType

\* A nonempty set of naturals has a least member.
LEMMA LeastMember ==
  ASSUME NEW S, S \subseteq Nat, S # {}
  PROVE  \E x \in S : x \in Nat /\ \A y \in S : x <= y
<1>1. IsWellFoundedOn(OpToRel(<, Nat), Nat)
  BY NatLessThanWellFounded
<1>2. PICK x \in S : \A y \in S : ~(<<y, x>> \in OpToRel(<, Nat))
  BY <1>1, WFMin
<1>3. \A y \in S : y \in Nat
  OBVIOUS
<1>4. \A y \in S : ~(y < x)
  BY <1>2, <1>3 DEF OpToRel
<1>5. x \in S /\ x \in Nat
  BY <1>2, <1>3
<1>6. ASSUME NEW y \in S
      PROVE  x <= y
  <2>1. ~(y < x) /\ y \in Nat
    BY <1>3, <1>4
  <2> QED
    BY <1>5, <2>1
<1> QED
  BY <1>5, <1>6

\* A set of numbers that holds 0 and the successor of each member holds all.
LEMMA AllNumbers ==
  ASSUME NEW n \in Nat, NEW S, 0 \in S,
         \A k \in 0..n : k \in S /\ k < n => k + 1 \in S
  PROVE  0..n \subseteq S
<1> SUFFICES ASSUME ~(0..n \subseteq S)
             PROVE  FALSE
  OBVIOUS
<1>1. PICK T : T = {k \in 0..n : k \notin S}
  OBVIOUS
<1>2. T \subseteq Nat /\ T # {}
  BY <1>1
<1>3. PICK k \in T : k \in Nat /\ \A y \in T : k <= y
  BY <1>2, LeastMember
<1>4. k \in 0..n /\ k \notin S /\ k # 0
  BY <1>1, <1>3
<1>5. k - 1 \in 0..n /\ k - 1 < n /\ k - 1 < k /\ (k - 1) + 1 = k
  BY <1>3, <1>4
<1>6. k - 1 \notin T
  BY <1>3, <1>5
<1>7. k - 1 \in S
  BY <1>1, <1>5, <1>6
<1> QED
  BY <1>4, <1>5, <1>7

-----------------------------------------------------------------------------
(* A function defined by recursion on 0..n exists, for any set of values   *)
(* and any step on them.                                                   *)

LEMMA RecursionExists ==
  ASSUME NEW V, NEW first \in V, NEW next \in [V -> V], NEW n \in Nat
  PROVE  \E R \in [0..n -> V] :
           R[0] = first /\ \A k \in 1..n : R[k] = next[R[k - 1]]
<1> DEFINE Upto(k) == {R \in [0..k -> V] :
                         R[0] = first /\ \A j \in 1..k : R[j] = next[R[j - 1]]}
           S == {k \in 0..n : Upto(k) # {}}
<1>1. 0 \in S
  <2>1. PICK R : R = [j \in 0..0 |-> first]
    OBVIOUS
  <2>2. R \in Upto(0)
    BY <2>1
  <2> QED
    BY <2>2
<1>2. ASSUME NEW k \in 0..n, k \in S, k < n
      PROVE  k + 1 \in S
  <2>1. PICK R \in [0..k -> V] :
          R[0] = first /\ \A j \in 1..k : R[j] = next[R[j - 1]]
    BY <1>2
  <2>2. PICK more : more = [j \in 0..(k + 1) |-> IF j <= k THEN R[j] ELSE next[R[k]]]
    OBVIOUS
  <2>3. more \in [0..(k + 1) -> V]
    BY <1>2, <2>1, <2>2
  <2>4. more[0] = first
    BY <1>2, <2>1, <2>2
  <2>5. ASSUME NEW j \in 1..(k + 1)
        PROVE  more[j] = next[more[j - 1]]
    <3>1. j - 1 \in 0..(k + 1) /\ j \in 0..(k + 1) /\ j - 1 <= k
      BY <1>2
    <3>2. more[j - 1] = R[j - 1]
      BY <2>2, <3>1
    <3>3. CASE j <= k
      <4>1. j \in 1..k /\ more[j] = R[j]
        BY <1>2, <2>2, <3>1, <3>3
      <4> QED
        BY <2>1, <3>2, <4>1
    <3>4. CASE ~(j <= k)
      <4>1. j - 1 = k /\ more[j] = next[R[k]]
        BY <1>2, <2>2, <3>1, <3>4
      <4> QED
        BY <3>2, <4>1
    <3> QED
      BY <3>3, <3>4
  <2>6. more \in Upto(k + 1)
    BY <2>3, <2>4, <2>5
  <2>7. k + 1 \in 0..n
    BY <1>2
  <2> QED
    BY <2>6, <2>7
<1>3. n \in S
  <2> HIDE DEF S
  <2>1. 0..n \subseteq S
    BY <1>1, <1>2, AllNumbers
  <2> QED
    BY <2>1
<1> QED
  BY <1>3

\* What one hop more reaches: the neighbours of all that is no hub.
Wider(g, X) == X \cup UNION {Neighbours(g, n) : n \in {m \in X : ~IsHub(g, m)}}

LEMMA WiderReach ==
  ASSUME NEW g, NEW X \in SUBSET Nodes
  PROVE  Wider(g, X) \in SUBSET Nodes /\ X \subseteq Wider(g, X)
BY DEF Wider, Neighbours, OutAdj, InAdj

\* The reference reach, hop by hop.
Reach(R, g, s) ==
  /\ R \in [0..Hops -> SUBSET Nodes]
  /\ R[0] = {s}
  /\ \A k \in 1..Hops : R[k] = Wider(g, R[k - 1])

LEMMA ReachHops ==
  ASSUME NEW g, NEW s \in Nodes
  PROVE  \E R : Reach(R, g, s) /\ ReachWithin(g, s) = R[Hops]
<1>1. Hops \in Nat
  BY NeighbourhoodAssumption
<1>2. PICK V : V = SUBSET Nodes
  OBVIOUS
<1>3. PICK first : first = {s}
  OBVIOUS
<1>4. PICK next : next = [X \in V |-> Wider(g, X)]
  OBVIOUS
<1>5. first \in V /\ next \in [V -> V]
  BY <1>2, <1>3, <1>4, WiderReach
<1>6. PICK R \in [0..Hops -> V] :
        R[0] = first /\ \A k \in 1..Hops : R[k] = next[R[k - 1]]
  BY <1>1, <1>5, RecursionExists, SMTT(30)
<1>7. \A k \in 1..Hops : R[k] = Wider(g, R[k - 1])
  <2>1. \A k \in 1..Hops : k - 1 \in 0..Hops
    BY <1>1
  <2>2. \A k \in 1..Hops : R[k - 1] \in V
    BY <1>6, <2>1
  <2> QED
    BY <1>4, <1>6, <2>2
<1> DEFINE Equation(F) ==
      F = [k \in 0..Hops |->
             IF k = 0 THEN {s}
             ELSE F[k - 1] \cup
                  UNION {Neighbours(g, n) : n \in {m \in F[k - 1] : ~IsHub(g, m)}}]
<1>8. Equation(R)
  <2>1. PICK G : G = [k \in 0..Hops |->
             IF k = 0 THEN {s}
             ELSE R[k - 1] \cup
                  UNION {Neighbours(g, n) : n \in {m \in R[k - 1] : ~IsHub(g, m)}}]
    OBVIOUS
  <2>2. ASSUME NEW k \in 0..Hops
        PROVE  G[k] = R[k]
    <3>1. CASE k = 0
      <4>1. G[k] = first
        BY <1>3, <2>1, <3>1
      <4> QED
        BY <1>6, <3>1, <4>1
    <3>2. CASE k # 0
      <4>1. k \in 1..Hops
        BY <1>1, <3>2
      <4>2. G[k] = Wider(g, R[k - 1])
        BY <2>1, <3>2 DEF Wider
      <4> QED
        BY <1>7, <4>1, <4>2
    <3> QED
      BY <3>1, <3>2
  <2>3. G = R
    BY <2>1, <2>2
  <2> QED
    BY <2>1, <2>3
<1>9. ASSUME NEW F, Equation(F)
      PROVE  F[Hops] = R[Hops]
  <2> DEFINE S == {k \in 0..Hops : F[k] = R[k]}
  <2>1. F[0] = {s}
    BY <1>1, <1>9
  <2>2. 0 \in S
    <3>1. F[0] = first /\ 0 \in 0..Hops
      BY <1>1, <1>3, <2>1
    <3> QED
      BY <1>6, <3>1
  <2>3. ASSUME NEW k \in 0..Hops, k \in S, k < Hops
        PROVE  k + 1 \in S
    <3>1. k + 1 \in 1..Hops /\ k + 1 \in 0..Hops /\ k + 1 # 0 /\ (k + 1) - 1 = k
      BY <1>1, <2>3
    <3>2. F[k + 1] = Wider(g, F[k])
      BY <1>9, <3>1 DEF Wider
    <3>3. R[k + 1] = Wider(g, R[k])
      BY <1>7, <3>1
    <3> QED
      BY <2>3, <3>1, <3>2, <3>3
  <2>4. 0..Hops \subseteq S
    <3> HIDE DEF S
    <3> QED
      BY <1>1, <2>2, <2>3, AllNumbers
  <2> QED
    BY <1>1, <2>4
<1>10. ReachWithin(g, s) = R[Hops]
  <2> DEFINE reach == (CHOOSE F : Equation(F))[Hops]
  <2>1. ReachWithin(g, s) = reach \cap Nodes
    BY DEF ReachWithin
  <2>2. Equation(CHOOSE F : Equation(F))
    BY <1>8
  <2>3. reach = R[Hops]
    <3> HIDE DEF Equation
    <3> QED
      BY <1>9, <2>2
  <2>4. R[Hops] \in SUBSET Nodes
    BY <1>1, <1>2, <1>6
  <2> HIDE DEF reach
  <2> QED
    BY <2>1, <2>3, <2>4
<1> QED
  BY <1>2, <1>3, <1>6, <1>7, <1>10 DEF Reach

\* A later hop holds what an earlier one holds, and no more once that is
\* closed.
LEMMA ReachGrows ==
  ASSUME NEW g, NEW s, NEW R, Reach(R, g, s), NEW h \in 0..Hops
  PROVE  /\ R[h] \subseteq R[Hops]
         /\ Wider(g, R[h]) = R[h] => R[Hops] = R[h]
<1>1. Hops \in Nat
  BY NeighbourhoodAssumption
<1> DEFINE S == {d \in 0..(Hops - h) :
                   /\ R[h] \subseteq R[h + d]
                   /\ Wider(g, R[h]) = R[h] => R[h + d] = R[h]}
<1>2. 0 \in S
  <2>1. 0 \in 0..(Hops - h) /\ h + 0 = h
    BY <1>1
  <2> QED
    BY <2>1
<1>3. ASSUME NEW d \in 0..(Hops - h), d \in S, d < Hops - h
      PROVE  d + 1 \in S
  <2>1. /\ d + 1 \in 0..(Hops - h) /\ h + (d + 1) \in 1..Hops
        /\ (h + (d + 1)) - 1 = h + d /\ h + d \in 0..Hops
    BY <1>1, <1>3
  <2>2. PICK X : X = R[h + d]
    OBVIOUS
  <2>3. R[h + (d + 1)] = Wider(g, X)
    BY <2>1, <2>2 DEF Reach
  <2>4. X \subseteq Wider(g, X)
    BY DEF Wider
  <2>5. R[h] \subseteq R[h + (d + 1)]
    BY <1>3, <2>2, <2>3, <2>4
  <2>6. ASSUME Wider(g, R[h]) = R[h]
        PROVE  R[h + (d + 1)] = R[h]
    <3>1. X = R[h]
      BY <1>3, <2>2, <2>6
    <3> QED
      BY <2>3, <2>6, <3>1
  <2> QED
    BY <2>1, <2>5, <2>6
<1>4. Hops - h \in S
  <2>1. Hops - h \in Nat
    BY <1>1
  <2> HIDE DEF S
  <2>2. 0..(Hops - h) \subseteq S
    BY <1>2, <1>3, <2>1, AllNumbers
  <2> QED
    BY <2>1, <2>2
<1>5. h + (Hops - h) = Hops
  BY <1>1
<1> QED
  BY <1>4, <1>5

-----------------------------------------------------------------------------
(* Accounts that hang together.                                            *)

\* No part of S that holds s is closed under the links among S, but S.
HangsTogether(g, S, s) ==
  \A T \in SUBSET S :
    s \in T /\ (\A m \in T, n \in S : <<n, m>> \in g \/ <<m, n>> \in g => n \in T)
      => T = S

\* The accounts of S that X holds or is linked with.
Linked(g, S, X) ==
  {n \in S : n \in X \/ \E m \in X : <<n, m>> \in g \/ <<m, n>> \in g}

\* The sets that Connected goes through, one more link at a time.
Chain(R, g, S, s) ==
  LET n == Cardinality(S)
  IN /\ R \in [0..n -> SUBSET S]
     /\ R[0] = {s}
     /\ \A k \in 1..n : R[k] = Linked(g, S, R[k - 1])
     /\ Connected(g, S, s) <=> S \subseteq R[n]

LEMMA LinkedHops ==
  ASSUME NEW g, NEW S, NEW s \in S, NEW n \in Nat, n = Cardinality(S)
  PROVE  \E R : Chain(R, g, S, s)
<1>1. PICK V : V = SUBSET S
  OBVIOUS
<1>2. PICK first : first = {s}
  OBVIOUS
<1>3. PICK next : next = [X \in V |-> Linked(g, S, X)]
  OBVIOUS
<1>4. first \in V /\ next \in [V -> V]
  BY <1>1, <1>2, <1>3 DEF Linked
<1>5. PICK R \in [0..n -> V] :
        R[0] = first /\ \A k \in 1..n : R[k] = next[R[k - 1]]
  BY <1>4, RecursionExists
<1>6. \A k \in 1..n : R[k] = Linked(g, S, R[k - 1])
  <2>1. \A k \in 1..n : k - 1 \in 0..n
    OBVIOUS
  <2>2. \A k \in 1..n : R[k - 1] \in V
    BY <1>5, <2>1
  <2> QED
    BY <1>3, <1>5, <2>2
<1> DEFINE Equation(F) ==
      F = [k \in 0..n |->
             IF k = 0 THEN {s}
             ELSE {x \in S : x \in F[k - 1] \/
                     \E m \in F[k - 1] : <<x, m>> \in g \/ <<m, x>> \in g}]
<1>7. Equation(R)
  <2>1. PICK G : G = [k \in 0..n |->
             IF k = 0 THEN {s}
             ELSE {x \in S : x \in R[k - 1] \/
                     \E m \in R[k - 1] : <<x, m>> \in g \/ <<m, x>> \in g}]
    OBVIOUS
  <2>2. ASSUME NEW k \in 0..n
        PROVE  G[k] = R[k]
    <3>1. CASE k = 0
      <4>1. G[k] = first
        BY <1>2, <2>1, <3>1
      <4> QED
        BY <1>5, <3>1, <4>1
    <3>2. CASE k # 0
      <4>1. k \in 1..n
        BY <3>2
      <4>2. G[k] = Linked(g, S, R[k - 1])
        BY <2>1, <3>2 DEF Linked
      <4> QED
        BY <1>6, <4>1, <4>2
    <3> QED
      BY <3>1, <3>2
  <2>3. G = R
    BY <1>5, <2>1, <2>2
  <2> QED
    BY <2>1, <2>3
<1>8. ASSUME NEW F, Equation(F)
      PROVE  F[n] = R[n]
  <2> DEFINE Same == {k \in 0..n : F[k] = R[k]}
  <2>1. F[0] = {s}
    BY <1>8
  <2>2. 0 \in Same
    <3>1. F[0] = first /\ 0 \in 0..n
      BY <1>2, <2>1
    <3> QED
      BY <1>5, <3>1
  <2>3. ASSUME NEW k \in 0..n, k \in Same, k < n
        PROVE  k + 1 \in Same
    <3>1. k + 1 \in 1..n /\ k + 1 \in 0..n /\ k + 1 # 0 /\ (k + 1) - 1 = k
      BY <2>3
    <3>2. F[k + 1] = Linked(g, S, F[k])
      <4>1. F[k + 1] = {x \in S : x \in F[(k + 1) - 1] \/
                          \E m \in F[(k + 1) - 1] : <<x, m>> \in g \/ <<m, x>> \in g}
        <5>1. k + 1 \in 0..n /\ k + 1 # 0
          BY <3>1
        <5> QED
          BY <1>8, <5>1
      <4> QED
        BY <3>1, <4>1 DEF Linked
    <3>3. R[k + 1] = Linked(g, S, R[k])
      BY <1>6, <3>1
    <3> QED
      BY <2>3, <3>1, <3>2, <3>3
  <2>4. 0..n \subseteq Same
    <3> HIDE DEF Same
    <3> QED
      BY <2>2, <2>3, AllNumbers
  <2> QED
    BY <2>4
<1>9. Connected(g, S, s) <=> S \subseteq R[n]
  <2>1. Connected(g, S, s) <=> S \subseteq (CHOOSE F : Equation(F))[n]
    BY DEF Connected
  <2> HIDE DEF Equation
  <2>2. Equation(CHOOSE F : Equation(F))
    BY <1>7
  <2>3. (CHOOSE F : Equation(F))[n] = R[n]
    BY <1>8, <2>2
  <2> QED
    BY <2>1, <2>3
<1> QED
  BY <1>1, <1>2, <1>5, <1>6, <1>9 DEF Chain

\* What hangs together is connected: the set grows until it holds all.
LEMMA TogetherIsConnected ==
  ASSUME NEW g, NEW S \in SUBSET Nodes, NEW s \in S, HangsTogether(g, S, s)
  PROVE  Connected(g, S, s)
<1>1. PICK n \in Nat : n = Cardinality(S)
  BY AccountSetsAreFinite
<1>2. PICK R : Chain(R, g, S, s)
  BY <1>1, LinkedHops
<1>3. /\ R \in [0..n -> SUBSET S] /\ R[0] = {s}
      /\ \A k \in 1..n : R[k] = Linked(g, S, R[k - 1])
      /\ Connected(g, S, s) <=> S \subseteq R[n]
  BY <1>1, <1>2 DEF Chain
<1>4. \A k \in 0..n : /\ R[k] \subseteq S /\ IsFiniteSet(R[k])
                      /\ Cardinality(R[k]) \in Nat
  <2>1. \A k \in 0..n : R[k] \in SUBSET S
    BY <1>3
  <2>2. \A k \in 0..n : R[k] \in SUBSET Nodes
    BY <2>1
  <2> QED
    BY <2>1, <2>2, AccountSetsAreFinite
<1> DEFINE Grown == {k \in 0..n : s \in R[k] /\ (R[k] = S \/ Cardinality(R[k]) >= k + 1)}
<1>5. 0 \in Grown
  <2>1. Cardinality(R[0]) = 1 /\ s \in R[0]
    BY <1>3, FS_Singleton
  <2> QED
    BY <2>1
<1>6. ASSUME NEW k \in 0..n, k \in Grown, k < n
      PROVE  k + 1 \in Grown
  <2>1. k + 1 \in 1..n /\ k + 1 \in 0..n /\ (k + 1) - 1 = k
    BY <1>6
  <2>2. R[k + 1] = Linked(g, S, R[k])
    BY <1>3, <2>1
  <2>3. R[k] \subseteq R[k + 1] /\ R[k + 1] \subseteq S
    BY <1>4, <2>2 DEF Linked
  <2>4. s \in R[k + 1]
    BY <1>6, <2>3
  <2>5. CASE R[k] = S
    <3>1. R[k + 1] = S
      BY <2>3, <2>5
    <3> QED
      BY <2>1, <2>4, <3>1
  <2>6. CASE R[k] # S
    <3>1. PICK m \in R[k], x \in S : (<<x, m>> \in g \/ <<m, x>> \in g) /\ x \notin R[k]
      BY <1>4, <1>6, <2>6 DEF HangsTogether
    <3>2. x \in R[k + 1]
      BY <2>2, <3>1 DEF Linked
    <3>3. R[k] # R[k + 1]
      BY <3>1, <3>2
    <3>4. /\ Cardinality(R[k]) <= Cardinality(R[k + 1])
          /\ Cardinality(R[k]) # Cardinality(R[k + 1])
      BY <1>4, <2>1, <2>3, <3>3, FS_Subset
    <3>5. /\ Cardinality(R[k]) \in Nat /\ Cardinality(R[k + 1]) \in Nat
          /\ Cardinality(R[k]) >= k + 1
      BY <1>4, <1>6, <2>1, <2>6
    <3>6. Cardinality(R[k + 1]) >= (k + 1) + 1
      BY <3>4, <3>5
    <3> QED
      BY <2>1, <2>4, <3>6
  <2> QED
    BY <2>5, <2>6
<1>7. n \in Grown
  <2> HIDE DEF Grown
  <2>1. 0..n \subseteq Grown
    BY <1>5, <1>6, AllNumbers
  <2> QED
    BY <2>1
<1>8. Cardinality(R[n]) <= n /\ Cardinality(R[n]) \in Nat
  <2>1. n \in 0..n /\ IsFiniteSet(S)
    BY AccountSetsAreFinite
  <2> QED
    BY <1>1, <1>4, <2>1, FS_Subset
<1>9. R[n] = S
  BY <1>7, <1>8
<1> QED
  BY <1>3, <1>9

LEMMA AloneTogether ==
  ASSUME NEW g, NEW s
  PROVE  HangsTogether(g, {s}, s)
BY DEF HangsTogether

\* Accounts that are each linked with some member join what hangs together.
LEMMA GrownTogether ==
  ASSUME NEW g, NEW S, NEW s \in S, HangsTogether(g, S, s), NEW more,
         \A n \in more : \E m \in S : <<n, m>> \in g \/ <<m, n>> \in g
  PROVE  HangsTogether(g, S \cup more, s)
<1> SUFFICES ASSUME NEW T \in SUBSET (S \cup more), s \in T,
                    \A m \in T, n \in S \cup more :
                      <<n, m>> \in g \/ <<m, n>> \in g => n \in T
             PROVE  T = S \cup more
  BY DEF HangsTogether
<1>1. T \cap S = S
  <2>1. /\ T \cap S \in SUBSET S /\ s \in T \cap S
        /\ \A m \in T \cap S, n \in S :
             <<n, m>> \in g \/ <<m, n>> \in g => n \in T \cap S
    OBVIOUS
  <2> QED
    BY <2>1 DEF HangsTogether
<1>2. S \subseteq T
  BY <1>1
<1>3. more \subseteq T
  BY <1>2
<1> QED
  BY <1>2, <1>3

\* So does what is left when an account with fewer than two ties goes.
LEMMA LeafGone ==
  ASSUME NEW g, NEW S \in SUBSET Nodes, NEW s \in S, HangsTogether(g, S, s),
         NEW leaf \in S, leaf # s,
         \A x, y \in S \ {leaf} :
           (<<x, leaf>> \in g \/ <<leaf, x>> \in g) /\
           (<<y, leaf>> \in g \/ <<leaf, y>> \in g) => x = y
  PROVE  HangsTogether(g, S \ {leaf}, s)
<1> SUFFICES ASSUME NEW T \in SUBSET (S \ {leaf}), s \in T,
                    \A m \in T, n \in S \ {leaf} :
                      <<n, m>> \in g \/ <<m, n>> \in g => n \in T
             PROVE  T = S \ {leaf}
  BY DEF HangsTogether
<1>1. CASE \E m \in T : <<leaf, m>> \in g \/ <<m, leaf>> \in g
  <2>1. PICK m \in T : <<leaf, m>> \in g \/ <<m, leaf>> \in g
    BY <1>1
  <2>2. ASSUME NEW x \in S, <<x, leaf>> \in g \/ <<leaf, x>> \in g
        PROVE  x \in T \cup {leaf}
    BY <2>1, <2>2
  <2>3. /\ T \cup {leaf} \in SUBSET S /\ s \in T \cup {leaf}
        /\ \A z \in T \cup {leaf}, n \in S :
             <<n, z>> \in g \/ <<z, n>> \in g => n \in T \cup {leaf}
    BY <2>2
  <2>4. T \cup {leaf} = S
    BY <2>3 DEF HangsTogether
  <2> QED
    BY <2>4
<1>2. CASE ~\E m \in T : <<leaf, m>> \in g \/ <<m, leaf>> \in g
  <2>1. /\ T \in SUBSET S
        /\ \A m \in T, n \in S : <<n, m>> \in g \/ <<m, n>> \in g => n \in T
    BY <1>2
  <2>2. T = S
    BY <2>1 DEF HangsTogether
  <2> QED
    BY <2>2
<1> QED
  BY <1>1, <1>2

\* Two different members of a set make its cardinality at least two.
LEMMA TwoMembers ==
  ASSUME NEW s \in SUBSET Nodes, NEW x \in s, NEW y \in s, x # y
  PROVE  Cardinality(s) >= 2
<1>1. IsFiniteSet(s) /\ Cardinality(s) \in Nat
  BY AccountSetsAreFinite
<1>2. {x, y} \subseteq s
  OBVIOUS
<1>3. Cardinality({x, y}) <= Cardinality(s)
  BY <1>1, <1>2, FS_Subset
<1>4. IsFiniteSet({y}) /\ Cardinality({y}) = 1
  BY FS_Singleton
<1>5. Cardinality({y} \cup {x}) = Cardinality({y}) + 1
  BY <1>4, FS_AddElement
<1>6. {y} \cup {x} = {x, y}
  OBVIOUS
<1>7. Cardinality({x, y}) = 2
  BY <1>4, <1>5, <1>6
<1> QED
  BY <1>1, <1>3, <1>7

\* leaf2 does not take apart what hangs together: an account that it drops is
\* tied to one member and so on no way between two others.
LEMMA Leaf2Together ==
  ASSUME NEW g, NEW S \in SUBSET Nodes, NEW s \in S, HangsTogether(g, S, s),
         NEW L, L = Leaf2(g, S, s)
  PROVE  L \subseteq S /\ s \in L /\ HangsTogether(g, L, s)
<1>1. L \subseteq S /\ s \in L
  BY DEF Leaf2, Near, LinkedTo
<1>2. ASSUME NEW T \in SUBSET L, s \in T,
             \A m \in T, n \in L : <<n, m>> \in g \/ <<m, n>> \in g => n \in T
      PROVE  T = L
  <2>1. PICK W : W = T \cup {x \in S : \E m \in T : <<x, m>> \in g \/ <<m, x>> \in g}
    OBVIOUS
  <2>2. W \in SUBSET S /\ s \in W
    BY <1>1, <1>2, <2>1
  <2>3. ASSUME NEW x \in W, x \notin T, NEW y \in S, y # x,
               <<y, x>> \in g \/ <<x, y>> \in g
        PROVE  y \in T
    <3>1. PICK m \in T : <<x, m>> \in g \/ <<m, x>> \in g
      BY <2>1, <2>3
    <3>2. x \in S /\ x \notin L
      BY <1>2, <2>1, <2>3, <3>1
    <3>3. LinkedTo(g, S, x) \in SUBSET Nodes /\ m \in LinkedTo(g, S, x)
          /\ y \in LinkedTo(g, S, x)
      BY <1>1, <2>3, <3>1 DEF LinkedTo
    <3>4. ~(Cardinality(LinkedTo(g, S, x)) >= 2)
      BY <3>2 DEF Leaf2
    <3>5. y = m
      BY <3>3, <3>4, TwoMembers
    <3> QED
      BY <3>5
  <2>4. ASSUME NEW m \in W, NEW n \in S, <<n, m>> \in g \/ <<m, n>> \in g
        PROVE  n \in W
    <3>1. CASE m \in T
      BY <2>1, <2>4, <3>1
    <3>2. CASE m \notin T
      <4>1. n = m \/ n \in T
        BY <2>3, <2>4, <3>2
      <4> QED
        BY <2>1, <2>4, <4>1
    <3> QED
      BY <3>1, <3>2
  <2>5. W = S
    BY <2>2, <2>4 DEF HangsTogether
  <2>6. ASSUME NEW n \in L
        PROVE  n \in T
    <3>1. n \in W
      BY <1>1, <2>5
    <3>2. n \notin T => \E m \in T : <<n, m>> \in g \/ <<m, n>> \in g
      BY <2>1, <3>1
    <3> QED
      BY <1>2, <3>2
  <2> QED
    BY <2>6
<1> QED
  BY <1>1, <1>2 DEF HangsTogether

-----------------------------------------------------------------------------
(* The making of a candidate.                                              *)

LEMMA LinkedToIsSymmetric ==
  ASSUME NEW g, NEW s, NEW m \in s, NEW n \in LinkedTo(g, s, m)
  PROVE  m \in LinkedTo(g, s, n)
BY DEF LinkedTo

\* In a two-hop neighbourhood everything that a far account kept by leaf2 is
\* tied to is kept by leaf2 as well.
LEMMA FarTiesAreKept ==
  ASSUME NEW s \in SUBSET Nodes, TwoHopShape(s),
         NEW n \in s, n \notin Near(graph, s, seed),
         NEW m \in LinkedTo(graph, s, n)
  PROVE  m \in Leaf2(graph, s, seed)
<1>1. m \in s /\ n \in LinkedTo(graph, s, m)
  BY DEF LinkedTo
<1>2. CASE m \in Near(graph, s, seed)
  BY <1>2 DEF Leaf2
<1>3. CASE m \notin Near(graph, s, seed)
  <2>1. PICK p \in Near(graph, s, seed) : m = p \/ m \in LinkedTo(graph, s, p)
    BY <1>1 DEF TwoHopShape
  <2>2. m \in LinkedTo(graph, s, p)
    BY <1>3, <2>1
  <2>3. CASE p \in s
    <3>1. p \in LinkedTo(graph, s, m)
      BY <2>2, <2>3, LinkedToIsSymmetric
    <3>2. p # n
      BY <2>1
    <3>3. LinkedTo(graph, s, m) \in SUBSET Nodes
      BY DEF LinkedTo
    <3>4. Cardinality(LinkedTo(graph, s, m)) >= 2
      BY <1>1, <3>1, <3>2, <3>3, TwoMembers
    <3> QED
      BY <1>1, <3>4 DEF Leaf2
  <2>4. CASE p \notin s
    <3>1. p = seed
      BY <2>1, <2>4 DEF Near, LinkedTo
    <3>2. m \in Near(graph, s, seed)
      BY <2>2, <3>1 DEF Near
    <3> QED
      BY <1>3, <3>2
  <2> QED
    BY <2>3, <2>4
<1> QED
  BY <1>2, <1>3

\* So the second pass of near_or_linked finds nothing to drop.
LEMMA NoStraggler ==
  ASSUME NEW s \in SUBSET Nodes, TwoHopShape(s), nodes = s,
         strategy = "near_or_linked", keep = Leaf2(graph, s, seed),
         seed \in s, NEW n \in keep
  PROVE  ~Straggler(n)
<1> SUFFICES ASSUME n \notin Near(graph, s, seed)
             PROVE  ~(Cardinality(LinkedTo(graph, s, n) \cap keep) < 2)
  BY DEF Straggler, Protected
<1>1. n \in s /\ Cardinality(LinkedTo(graph, s, n)) >= 2
  BY DEF Leaf2
<1>2. LinkedTo(graph, s, n) \subseteq keep
  BY <1>1, FarTiesAreKept
<1>3. LinkedTo(graph, s, n) \cap keep = LinkedTo(graph, s, n)
  BY <1>2
<1>4. LinkedTo(graph, s, n) \in SUBSET Nodes
  BY DEF LinkedTo
<1>5. Cardinality(LinkedTo(graph, s, n)) \in Nat
  BY <1>4, AccountSetsAreFinite
<1> QED
  BY <1>1, <1>3, <1>5

-----------------------------------------------------------------------------
(* The inductive invariant: the types, and what each stage of the call has *)
(* handed to the next.                                                     *)

\* Where the two strategies differ only in name.
Coincide == strategy = "near_or_linked" /\ TwoHopShape(seen)

StageInv ==
  /\ seed \in seen
  /\ pc \in {"expand", "prune"} => keep = {} /\ todo = {}
  /\ pc \in {"prune", "loop"} => nodes = seen
  /\ pc = "loop" => Cardinality(nodes) > MinNodes
  /\ pc = "loop" /\ Coincide => keep = Leaf2(graph, seen, seed)
  /\ pc \in {"check", "emitted", "too_small"} /\ Cardinality(seen) > MinNodes
       /\ Coincide => nodes = Settle(Leaf2(graph, seen, seed), seen)

Inv == TypeOK /\ StageInv /\ NeverBelowMinimum

LEMMA InitInv == Init => Inv
<1> SUFFICES ASSUME Init PROVE Inv
  OBVIOUS
<1>1. TypeOK
  <2>1. 0 \in 0..Hops
    BY NeighbourhoodAssumption
  <2> QED
    BY <2>1 DEF Init, TypeOK, NewTrace
<1> QED
  BY <1>1 DEF Init, Inv, StageInv, NeverBelowMinimum

LEMMA NewAccounts ==
  ASSUME TypeOK PROVE NextHop \subseteq Nodes /\ Cardinality(Blocked) \in Nat
<1>1. NextHop \subseteq Nodes
  BY DEF NextHop, Neighbours, OutAdj, InAdj
<1>2. Blocked \in SUBSET Nodes
  BY DEF Blocked, TypeOK
<1> QED
  BY <1>1, <1>2, AccountSetsAreFinite

\* Leaving the expansion.
LEMMA ExpandedStep ==
  ASSUME Inv, Exhaust \/ HitNodeCap \/ HopsDone
  PROVE  Inv'
<1>1. /\ pc = "expand" /\ pc' = "prune" /\ nodes' = seen
      /\ UNCHANGED <<args, seen, frontier, pruning>>
  BY DEF Exhaust, HitNodeCap, HopsDone, InHop, expansion
<1>2. trace' \in [hops_completed : 0..Hops, hub_blocked : Nat,
                  truncated : BOOLEAN, exhausted : BOOLEAN,
                  hit_node_cap : BOOLEAN]
  <2>1. AtHubs \in [hops_completed : 0..Hops, hub_blocked : Nat,
                    truncated : BOOLEAN, exhausted : BOOLEAN,
                    hit_node_cap : BOOLEAN]
    BY NewAccounts DEF Inv, TypeOK, AtHubs
  <2>2. CASE Exhaust
    BY <2>1, <2>2 DEF Exhaust
  <2>3. CASE HitNodeCap
    BY <2>1, <2>3 DEF HitNodeCap
  <2>4. CASE HopsDone
    BY <2>4 DEF HopsDone, expansion, Inv, TypeOK
  <2> QED
    BY <2>2, <2>3, <2>4
<1>3. keep = {} /\ todo = {}
  BY <1>1 DEF Inv, StageInv
<1>4. TypeOK'
  BY <1>1, <1>2, <1>3 DEF Inv, TypeOK, args, pruning
<1> QED
  BY <1>1, <1>4 DEF Inv, StageInv, NeverBelowMinimum, args, pruning

LEMMA HopStep ==
  ASSUME Inv, Hop PROVE Inv'
<1>1. /\ pc = "expand" /\ UNCHANGED <<args, nodes, pruning, pc>>
      /\ trace.hops_completed < Hops
  BY DEF Hop, InHop
<1>2. PICK nxt \in SUBSET NextHop : seen' = seen \cup nxt /\ frontier' = nxt
  BY DEF Hop
<1>3. nxt \subseteq Nodes /\ Cardinality(Blocked) \in Nat
  BY NewAccounts DEF Inv
<1>4. trace' \in [hops_completed : 0..Hops, hub_blocked : Nat,
                  truncated : BOOLEAN, exhausted : BOOLEAN,
                  hit_node_cap : BOOLEAN]
  <2> DEFINE cut == Cardinality(NextHop) > Room
  <2>1. trace' = [AtHubs EXCEPT !.truncated = @ \/ cut, !.hops_completed = @ + 1]
    BY DEF Hop
  <2>2. trace.hops_completed + 1 \in 0..Hops
    BY <1>1, NeighbourhoodAssumption DEF Inv, TypeOK
  <2>3. AtHubs \in [hops_completed : 0..Hops, hub_blocked : Nat,
                    truncated : BOOLEAN, exhausted : BOOLEAN,
                    hit_node_cap : BOOLEAN]
        /\ AtHubs.hops_completed = trace.hops_completed
    BY <1>3 DEF Inv, TypeOK, AtHubs
  <2>4. cut \in BOOLEAN
    OBVIOUS
  <2> HIDE DEF cut
  <2> QED
    BY <2>1, <2>2, <2>3, <2>4
<1>5. TypeOK'
  BY <1>1, <1>2, <1>3, <1>4 DEF Inv, TypeOK, args, pruning
<1> QED
  BY <1>1, <1>2, <1>5 DEF Inv, StageInv, NeverBelowMinimum, args, pruning

\* What Settle returns is large enough if it was given enough.
LEMMA SettleIsLargeEnough ==
  ASSUME NEW k \in SUBSET Nodes, NEW s \in SUBSET Nodes, Cardinality(s) > MinNodes,
         k \subseteq s
  PROVE  Settle(k, s) \subseteq s /\ Cardinality(Settle(k, s)) >= MinNodes
<1>1. Cardinality(s) \in Nat /\ MinNodes \in Nat
  BY AccountSetsAreFinite, NeighbourhoodAssumption
<1> QED
  BY <1>1 DEF Settle

\* leaf2 keeps a part of what it is given.
LEMMA Leaf2IsPart ==
  ASSUME TypeOK, seed \in nodes
  PROVE  Leaf2(graph, nodes, seed) \subseteq nodes
BY DEF Leaf2, Near, LinkedTo

-----------------------------------------------------------------------------
(* Pruning.                                                                *)

LEMMA PruneNothingStep ==
  ASSUME Inv, PruneNothing PROVE Inv'
<1>1. /\ pc = "prune" /\ pc' = "check" /\ nodes = seen
      /\ UNCHANGED <<args, expansion, nodes, pruning>>
  BY DEF PruneNothing, Inv, StageInv
<1>2. Cardinality(seen) \in Nat /\ MinNodes \in Nat
  BY AccountSetsAreFinite, NeighbourhoodAssumption DEF Inv, TypeOK
<1>3. TypeOK'
  BY <1>1 DEF Inv, TypeOK, args, expansion, pruning
<1>4. Cardinality(seen) > MinNodes => strategy # "near_or_linked"
  BY <1>1, <1>2 DEF PruneNothing
<1>5. Cardinality(nodes) >= MinNodes \/ Cardinality(seen) < MinNodes
  BY <1>1, <1>2
<1> QED
  BY <1>1, <1>3, <1>4, <1>5
     DEF Inv, StageInv, NeverBelowMinimum, Coincide, args, expansion, pruning

LEMMA PruneLeaf2Step ==
  ASSUME Inv, PruneLeaf2 PROVE Inv'
<1>1. /\ pc = "prune" /\ pc' = "check" /\ strategy = "leaf2"
      /\ Cardinality(nodes) > MinNodes
      /\ nodes' = Settle(Leaf2(graph, nodes, seed), nodes)
      /\ UNCHANGED <<args, expansion, pruning>>
  BY DEF PruneLeaf2, Prunable
<1>2. nodes \in SUBSET Nodes /\ Leaf2(graph, nodes, seed) \subseteq nodes
  BY <1>1, Leaf2IsPart DEF Inv, TypeOK, StageInv
<1>3. nodes' \subseteq nodes /\ Cardinality(nodes') >= MinNodes
  BY <1>1, <1>2, SettleIsLargeEnough
<1>4. keep = {} /\ todo = {}
  BY <1>1 DEF Inv, StageInv
<1>5. TypeOK'
  BY <1>1, <1>2, <1>3, <1>4 DEF Inv, TypeOK, args, expansion, pruning
<1>6. strategy' # "near_or_linked"
  BY <1>1 DEF args
<1> QED
  BY <1>1, <1>3, <1>5, <1>6
     DEF Inv, StageInv, NeverBelowMinimum, Coincide, args, expansion, pruning

LEMMA StartLoopStep ==
  ASSUME Inv, StartLoop PROVE Inv'
<1>1. /\ pc = "prune" /\ pc' = "loop" /\ changed' = TRUE /\ todo' = {}
      /\ Cardinality(nodes) > MinNodes
      /\ UNCHANGED <<args, expansion, nodes>>
      /\ \/ strategy = "kcore2" /\ keep' = nodes
         \/ strategy = "near_or_linked" /\ keep' = Leaf2(graph, nodes, seed)
  BY DEF StartLoop, Prunable
<1>2. nodes = seen /\ seed \in nodes
  BY <1>1 DEF Inv, StageInv
<1>3. keep' \subseteq nodes
  BY <1>1, <1>2, Leaf2IsPart DEF Inv
<1>4. TypeOK'
  BY <1>1, <1>3 DEF Inv, TypeOK, args, expansion
<1>5. strategy = "near_or_linked" => keep' = Leaf2(graph, seen, seed)
  BY <1>1, <1>2
<1> QED
  BY <1>1, <1>2, <1>4, <1>5
     DEF Inv, StageInv, NeverBelowMinimum, Coincide, args, expansion

LEMMA StartPassStep ==
  ASSUME Inv, StartPass PROVE Inv'
<1>1. /\ pc = "loop" /\ todo' = keep /\ changed' = FALSE
      /\ UNCHANGED <<args, expansion, nodes, keep, pc>>
  BY DEF StartPass, PassOver
<1>2. TypeOK'
  BY <1>1 DEF Inv, TypeOK, args, expansion
<1> QED
  BY <1>1, <1>2
     DEF Inv, StageInv, NeverBelowMinimum, Coincide, TwoHopShape, args, expansion

\* In a two-hop neighbourhood near_or_linked keeps whatever it examines.
LEMMA ExamineStep ==
  ASSUME Inv, Examine PROVE Inv'
<1>1. pc = "loop" /\ UNCHANGED <<args, expansion, nodes, pc>>
  BY DEF Examine
<1>2. PICK n \in todo :
        /\ keep' = IF Straggler(n) THEN keep \ {n} ELSE keep
        /\ changed' = IF Straggler(n) THEN TRUE ELSE changed
        /\ todo' = {} \/ todo' = todo \ {n}
  BY DEF Examine
<1>3. keep' \subseteq keep /\ todo' \subseteq keep' /\ changed' \in BOOLEAN
  BY <1>2 DEF Inv, TypeOK
<1>4. TypeOK'
  BY <1>1, <1>3 DEF Inv, TypeOK, args, expansion
<1>5. Coincide => keep' = Leaf2(graph, seen, seed)
  <2> SUFFICES ASSUME Coincide PROVE keep' = keep
    BY <1>1 DEF Inv, StageInv
  <2>1. /\ seen \in SUBSET Nodes /\ nodes = seen /\ seed \in seen
        /\ keep = Leaf2(graph, seen, seed) /\ n \in keep
    BY <1>1, <1>2 DEF Inv, TypeOK, StageInv
  <2>2. ~Straggler(n)
    BY <2>1, NoStraggler DEF Coincide
  <2> QED
    BY <1>2, <2>2
<1> QED
  BY <1>1, <1>4, <1>5
     DEF Inv, StageInv, NeverBelowMinimum, Coincide, TwoHopShape, args, expansion

LEMMA EndLoopStep ==
  ASSUME Inv, EndLoop PROVE Inv'
<1>1. /\ pc = "loop" /\ pc' = "check" /\ nodes' = Settle(keep, nodes)
      /\ UNCHANGED <<args, expansion, pruning>>
  BY DEF EndLoop, PassOver
<1>2. /\ nodes = seen /\ Cardinality(nodes) > MinNodes
      /\ keep \subseteq nodes /\ nodes \subseteq Nodes
  BY <1>1 DEF Inv, TypeOK, StageInv
<1>3. nodes' \subseteq nodes /\ Cardinality(nodes') >= MinNodes /\ keep \subseteq nodes'
  <2>1. keep \subseteq nodes'
    BY <1>1, <1>2 DEF Settle
  <2> QED
    BY <1>1, <1>2, <2>1, SettleIsLargeEnough
<1>4. TypeOK'
  BY <1>1, <1>2, <1>3 DEF Inv, TypeOK, args, expansion, pruning
<1>5. Coincide => nodes' = Settle(Leaf2(graph, seen, seed), seen)
  BY <1>1, <1>2 DEF Inv, StageInv
<1> QED
  BY <1>1, <1>3, <1>4, <1>5
     DEF Inv, StageInv, NeverBelowMinimum, Coincide, TwoHopShape, args, expansion

LEMMA DecideStep ==
  ASSUME Inv, Decide PROVE Inv'
<1>1. /\ pc = "check" /\ pc' = IF BigEnough THEN "emitted" ELSE "too_small"
      /\ UNCHANGED <<args, expansion, nodes, pruning>>
  BY DEF Decide
<1>2. TypeOK'
  BY <1>1 DEF Inv, TypeOK, args, expansion, pruning
<1>3. NeverBelowMinimum'
  BY <1>1 DEF Inv, NeverBelowMinimum, args, expansion
<1> QED
  BY <1>1, <1>2, <1>3
     DEF Inv, StageInv, Coincide, TwoHopShape, args, expansion, pruning

\* The invariant holds at every step of expand_traced, prune and the size tests.
THEOREM InvHolds == Spec => []Inv
<1>1. Inv /\ [Next]_vars => Inv'
  <2> SUFFICES ASSUME Inv, [Next]_vars PROVE Inv'
    OBVIOUS
  <2>1. CASE Exhaust \/ HitNodeCap \/ HopsDone
    BY <2>1, ExpandedStep
  <2>2. CASE Hop
    BY <2>2, HopStep
  <2>3. CASE PruneNothing
    BY <2>3, PruneNothingStep
  <2>4. CASE PruneLeaf2
    BY <2>4, PruneLeaf2Step
  <2>5. CASE StartLoop
    BY <2>5, StartLoopStep
  <2>6. CASE StartPass
    BY <2>6, StartPassStep
  <2>7. CASE Examine
    BY <2>7, ExamineStep
  <2>8. CASE EndLoop
    BY <2>8, EndLoopStep
  <2>9. CASE Decide
    BY <2>9, DecideStep
  <2>10. CASE UNCHANGED vars
    BY <2>10 DEF vars, Inv, TypeOK, StageInv, NeverBelowMinimum, Coincide,
                 TwoHopShape
  <2> QED
    BY <2>1, <2>2, <2>3, <2>4, <2>5, <2>6, <2>7, <2>8, <2>9, <2>10 DEF Next
<1> QED
  BY InitInv, <1>1, PTL DEF Spec

\* Types, for any graph, hop budget, hub guard and node cap (expand_traced and
\* prune).
THEOREM TypeCorrect == Spec => []TypeOK
<1>1. Inv => TypeOK
  BY DEF Inv
<1> QED
  BY <1>1, InvHolds, PTL

\* A neighbourhood with enough accounts still has enough once it is pruned:
\* `Never returns fewer than min_nodes' (prune).
THEOREM LargeEnough == Spec => []NeverBelowMinimum
<1>1. Inv => NeverBelowMinimum
  BY DEF Inv
<1> QED
  BY <1>1, InvHolds, PTL

\* near_or_linked and leaf2 are one strategy on every two-hop neighbourhood:
\* the identical rows of the table in sentinel/config.py are no accident of the
\* data (prune).
THEOREM StrategiesCoincide == Spec => []NearOrLinkedIsLeaf2
<1>1. Inv => NearOrLinkedIsLeaf2
  BY DEF Inv, StageInv, Coincide, NearOrLinkedIsLeaf2
<1> QED
  BY <1>1, InvHolds, PTL

\* Both promises of pruning, together, for every graph, strategy and order in
\* which sets are walked (prune).
THEOREM PruningSound == Spec => []PruningIsSound
<1>1. NeverBelowMinimum /\ NearOrLinkedIsLeaf2 => PruningIsSound
  BY DEF PruningIsSound
<1> QED
  BY <1>1, LargeEnough, StrategiesCoincide, PTL

-----------------------------------------------------------------------------
(* What the expansion has reached, and that it hangs together.             *)

\* All within the completed hops, or a part of it; whatever is not in the
\* frontier has been expanded or refused, and no refusal goes unrecorded.
ReachInv ==
  /\ frontier \subseteq seen
  /\ Cardinality(seen) <= max_nodes
  /\ pc = "expand" =>
       /\ trace.hit_node_cap = FALSE
       /\ \A R : Reach(R, graph, seed) =>
            /\ seen \subseteq R[trace.hops_completed]
            /\ trace.truncated = FALSE => seen = R[trace.hops_completed]
       /\ trace.truncated = FALSE =>
            \A m \in seen \ frontier :
              IsHub(graph, m) \/ Neighbours(graph, m) \subseteq seen
       /\ trace.hub_blocked = 0 => \A m \in seen \ frontier : ~IsHub(graph, m)

\* What each stage hands on hangs together with the seed.
StructureInv ==
  /\ HangsTogether(graph, seen, seed)
  /\ pc = "loop" => seed \in keep /\ HangsTogether(graph, keep, seed)
  /\ pc \in {"check", "emitted", "too_small"} =>
       seed \in nodes /\ HangsTogether(graph, nodes, seed)

BuildInv == Inv /\ ReachInv /\ StructureInv
              /\ ExpansionIsBoundedReach /\ TraceExplainsStop

LEMMA BuildInit ==
  ASSUME Init PROVE BuildInv
<1>1. Inv
  BY InitInv
<1>2. /\ seen = {seed} /\ frontier = {seed} /\ seed \in Nodes /\ pc = "expand"
      /\ trace = NewTrace /\ max_nodes \in Caps
  BY DEF Init
<1>3. Cardinality(seen) = 1 /\ max_nodes >= 1
  BY <1>2, BuildAssumption, FS_Singleton
<1>4. /\ trace.hit_node_cap = FALSE /\ trace.hops_completed = 0
      /\ trace.truncated = FALSE /\ trace.hub_blocked = 0
  BY <1>2 DEF NewTrace
<1>5. \A R : Reach(R, graph, seed) => seen = R[trace.hops_completed]
  BY <1>2, <1>4 DEF Reach
<1>6. ReachInv
  BY <1>2, <1>3, <1>4, <1>5, BuildAssumption DEF ReachInv
<1>7. StructureInv
  BY <1>2, AloneTogether DEF StructureInv
<1> QED
  BY <1>1, <1>2, <1>6, <1>7
     DEF BuildInv, ExpansionIsBoundedReach, TraceExplainsStop, Expanded

\* The next hop, if all of it is taken, is the next of the reference reach;
\* a part of it stays within.
LEMMA HopReaches ==
  ASSUME NEW R, Reach(R, graph, seed), NEW h \in 0..Hops, h < Hops,
         frontier \subseteq seen, seen \subseteq R[h]
  PROVE  /\ NextHop \subseteq R[h + 1] /\ R[h] \subseteq R[h + 1]
         /\ seen = R[h] /\
            (\A m \in seen \ frontier :
               IsHub(graph, m) \/ Neighbours(graph, m) \subseteq seen)
              => seen \cup NextHop = R[h + 1]
<1>1. h + 1 \in 1..Hops /\ (h + 1) - 1 = h
  BY NeighbourhoodAssumption
<1>2. R[h + 1] = Wider(graph, R[h])
  BY <1>1 DEF Reach
<1>3. \A m \in frontier \ Blocked : m \in R[h] /\ ~IsHub(graph, m)
  BY DEF Blocked
<1>4. NextHop \subseteq R[h + 1] /\ R[h] \subseteq R[h + 1]
  BY <1>2, <1>3 DEF NextHop, Wider
<1>5. ASSUME seen = R[h],
             \A m \in seen \ frontier :
               IsHub(graph, m) \/ Neighbours(graph, m) \subseteq seen
      PROVE  R[h + 1] \subseteq seen \cup NextHop
  <2>1. ASSUME NEW m \in R[h], ~IsHub(graph, m)
        PROVE  Neighbours(graph, m) \subseteq seen \cup NextHop
    <3>1. CASE m \in frontier
      BY <2>1, <3>1 DEF NextHop, Blocked
    <3>2. CASE m \notin frontier
      BY <1>5, <2>1, <3>2
    <3> QED
      BY <3>1, <3>2
  <2> QED
    BY <1>2, <1>5, <2>1 DEF Wider
<1> QED
  BY <1>4, <1>5

\* A hop nothing is left to add to was the last: the reach is closed.
LEMMA ReachClosed ==
  ASSUME NEW R, Reach(R, graph, seed), NEW h \in 0..Hops, seen = R[h],
         NextHop = {}, frontier \subseteq seen,
         \A m \in seen \ frontier :
           IsHub(graph, m) \/ Neighbours(graph, m) \subseteq seen
  PROVE  R[Hops] = seen
<1>1. ASSUME NEW m \in seen, ~IsHub(graph, m)
      PROVE  Neighbours(graph, m) \subseteq seen
  BY <1>1 DEF NextHop, Blocked
<1>2. Wider(graph, seen) = seen
  BY <1>1 DEF Wider
<1> QED
  BY <1>2, ReachGrows

\* The fields of the trace once this hop's hubs have been refused.
LEMMA HubsCounted ==
  ASSUME TypeOK
  PROVE  /\ AtHubs \in [hops_completed : 0..Hops, hub_blocked : Nat,
                        truncated : BOOLEAN, exhausted : BOOLEAN,
                        hit_node_cap : BOOLEAN]
         /\ AtHubs.hops_completed = trace.hops_completed
         /\ AtHubs.truncated = trace.truncated
         /\ AtHubs.hit_node_cap = trace.hit_node_cap
         /\ AtHubs.hub_blocked = 0 =>
              trace.hub_blocked = 0 /\ \A m \in frontier : ~IsHub(graph, m)
<1>1. Cardinality(Blocked) \in Nat /\ IsFiniteSet(Blocked)
  <2>1. Blocked \in SUBSET Nodes
    BY DEF Blocked, TypeOK
  <2> QED
    BY <2>1, AccountSetsAreFinite
<1>2. /\ AtHubs \in [hops_completed : 0..Hops, hub_blocked : Nat,
                     truncated : BOOLEAN, exhausted : BOOLEAN,
                     hit_node_cap : BOOLEAN]
      /\ AtHubs.hops_completed = trace.hops_completed
      /\ AtHubs.truncated = trace.truncated
      /\ AtHubs.hit_node_cap = trace.hit_node_cap
      /\ AtHubs.hub_blocked = trace.hub_blocked + Cardinality(Blocked)
      /\ trace.hub_blocked \in Nat
  BY <1>1 DEF TypeOK, AtHubs
<1>3. Cardinality(Blocked) = 0 => Blocked = {}
  BY <1>1, FS_EmptySet
<1>4. Blocked = {} => \A m \in frontier : ~IsHub(graph, m)
  BY DEF Blocked
<1> QED
  BY <1>1, <1>2, <1>3, <1>4

\* Leaving the expansion.
LEMMA ExpandedBuild ==
  ASSUME BuildInv, Exhaust \/ HitNodeCap \/ HopsDone
  PROVE  BuildInv'
<1>1. /\ pc = "expand" /\ pc' = "prune" /\ nodes' = seen
      /\ graph' = graph /\ seed' = seed /\ max_nodes' = max_nodes
      /\ seen' = seen /\ frontier' = frontier
  BY DEF Exhaust, HitNodeCap, HopsDone, InHop, expansion, args
<1>2. Inv' /\ TypeOK
  BY ExpandedStep DEF BuildInv, Inv
<1>3. ReachInv' /\ StructureInv'
  BY <1>1 DEF BuildInv, ReachInv, StructureInv
<1>4. PICK R : Reach(R, graph, seed) /\ ReachWithin(graph, seed) = R[Hops]
  BY <1>2, ReachHops DEF TypeOK
<1>5. PICK h \in 0..Hops : h = trace.hops_completed
  BY <1>2 DEF TypeOK
<1>6. /\ seen \subseteq R[h]
      /\ trace.truncated = FALSE => seen = R[h]
      /\ trace.hit_node_cap = FALSE /\ frontier \subseteq seen
      /\ trace.truncated \in BOOLEAN
  BY <1>1, <1>2, <1>4, <1>5 DEF BuildInv, ReachInv, TypeOK
<1>7. R[h] \subseteq R[Hops]
  BY <1>4, ReachGrows
<1>8. Truncated' \/ seen = R[Hops]
  <2>1. CASE trace.truncated = TRUE \/ HitNodeCap
    <3>1. trace'.truncated = TRUE \/ trace'.hit_node_cap = TRUE
      BY <1>2, <2>1, HubsCounted DEF Exhaust, HitNodeCap, HopsDone, expansion
    <3> QED
      BY <3>1 DEF Truncated
  <2>2. CASE trace.truncated = FALSE /\ HopsDone
    <3>1. h = Hops
      BY <1>5, <2>2 DEF HopsDone
    <3>2. seen = R[h]
      BY <1>6, <2>2
    <3> QED
      BY <3>1, <3>2
  <2>3. CASE trace.truncated = FALSE /\ Exhaust
    <3>1. /\ NextHop = {}
          /\ \A m \in seen \ frontier :
               IsHub(graph, m) \/ Neighbours(graph, m) \subseteq seen
      BY <1>1, <2>3 DEF Exhaust, BuildInv, ReachInv
    <3>2. seen = R[h]
      BY <1>6, <2>3
    <3> QED
      BY <1>4, <1>6, <3>1, <3>2, ReachClosed
  <2> QED
    BY <1>6, <2>1, <2>2, <2>3
<1>9. ExpansionIsBoundedReach'
  <2>1. seen \subseteq ReachWithin(graph, seed) /\ Cardinality(seen) <= max_nodes
    BY <1>4, <1>6, <1>7 DEF BuildInv, ReachInv
  <2> QED
    BY <1>1, <1>4, <1>8, <2>1 DEF ExpansionIsBoundedReach
<1>10. TraceExplainsStop'
  <2>1. CASE HopsDone
    BY <2>1 DEF HopsDone, expansion, TraceExplainsStop
  <2>2. CASE HitNodeCap
    <3>1. trace'.hit_node_cap = TRUE
      BY <1>2, <2>2, HubsCounted DEF HitNodeCap
    <3> QED
      BY <3>1 DEF TraceExplainsStop, Truncated
  <2>3. CASE Exhaust
    <3>1. /\ NextHop = {} /\ trace'.hub_blocked = AtHubs.hub_blocked
          /\ trace'.truncated = trace.truncated /\ AtHubs.hub_blocked \in Nat
      BY <1>2, <2>3, HubsCounted DEF Exhaust
    <3>2. CASE trace'.hub_blocked = 0 /\ trace'.truncated = FALSE
      <4>1. /\ \A m \in frontier : ~IsHub(graph, m)
            /\ \A m \in seen \ frontier : ~IsHub(graph, m)
            /\ \A m \in seen \ frontier :
                 IsHub(graph, m) \/ Neighbours(graph, m) \subseteq seen
        BY <1>1, <1>2, <3>1, <3>2, HubsCounted DEF BuildInv, ReachInv
      <4>2. \A m \in frontier : Neighbours(graph, m) \subseteq seen
        BY <3>1, <4>1 DEF NextHop, Blocked
      <4> QED
        BY <1>1, <4>1, <4>2 DEF TraceExplainsStop
    <3>3. CASE ~(trace'.hub_blocked = 0 /\ trace'.truncated = FALSE)
      <4>1. trace'.hub_blocked > 0 \/ trace'.truncated = TRUE
        BY <1>6, <3>1, <3>3
      <4> QED
        BY <4>1 DEF TraceExplainsStop, Truncated
    <3> QED
      BY <3>2, <3>3
  <2> QED
    BY <2>1, <2>2, <2>3
<1> QED
  BY <1>2, <1>3, <1>9, <1>10 DEF BuildInv

LEMMA HopBuild ==
  ASSUME BuildInv, Hop
  PROVE  BuildInv'
<1>1. /\ pc = "expand" /\ pc' = "expand" /\ trace.hops_completed < Hops
      /\ graph' = graph /\ seed' = seed /\ max_nodes' = max_nodes
  BY DEF Hop, InHop, args
<1>2. Inv' /\ TypeOK
  BY HopStep, BuildAssumption DEF BuildInv, Inv, TypeOK
<1>3. PICK nxt \in SUBSET NextHop :
        /\ seen' = seen \cup nxt /\ frontier' = nxt
        /\ \/ Cardinality(NextHop) > Room /\ Cardinality(nxt) = Room
           \/ ~(Cardinality(NextHop) > Room) /\ nxt = NextHop
  BY DEF Hop, Tightest
<1>4. /\ trace' = [AtHubs EXCEPT !.truncated = @ \/ Cardinality(NextHop) > Room,
                               !.hops_completed = @ + 1]
  BY DEF Hop
<1>5. PICK h \in 0..Hops : h = trace.hops_completed
  BY <1>2 DEF TypeOK
<1>6. /\ trace'.hops_completed = h + 1 /\ trace'.hit_node_cap = FALSE
      /\ trace'.hub_blocked = AtHubs.hub_blocked
      /\ trace'.truncated = FALSE =>
           trace.truncated = FALSE /\ ~(Cardinality(NextHop) > Room)
  <2>1. PICK more : more = (AtHubs.truncated \/ Cardinality(NextHop) > Room)
    OBVIOUS
  <2>2. trace' = [AtHubs EXCEPT !.truncated = more, !.hops_completed = @ + 1]
    BY <1>4, <2>1
  <2>3. more = FALSE => AtHubs.truncated = FALSE /\ ~(Cardinality(NextHop) > Room)
    BY <1>2, <2>1, HubsCounted
  <2>4. AtHubs.truncated = trace.truncated
    BY <1>2, HubsCounted
  <2>5. trace'.truncated = more
    BY <1>2, <2>2, HubsCounted
  <2>6. /\ trace'.hops_completed = h + 1 /\ trace'.hit_node_cap = FALSE
        /\ trace'.hub_blocked = AtHubs.hub_blocked
    BY <1>1, <1>2, <1>5, <2>2, HubsCounted DEF BuildInv, ReachInv
  <2> QED
    BY <2>3, <2>4, <2>5, <2>6
<1>7. Cardinality(seen') <= max_nodes
  <2>1. /\ IsFiniteSet(seen) /\ Cardinality(seen) \in Nat
        /\ IsFiniteSet(nxt) /\ Cardinality(nxt) \in Nat
        /\ Cardinality(NextHop) \in Nat /\ max_nodes \in Nat
    <3>1. NextHop \in SUBSET Nodes /\ nxt \in SUBSET Nodes /\ seen \in SUBSET Nodes
      BY <1>2, <1>3, NewAccounts DEF TypeOK
    <3> QED
      BY <1>2, <3>1, AccountSetsAreFinite, BuildAssumption DEF TypeOK
  <2>2. Cardinality(nxt) <= Room
    <3>1. Room \in Int
      BY <2>1 DEF Room
    <3> QED
      BY <1>3, <2>1, <3>1
  <2>3. Cardinality(seen \cup nxt) = Cardinality(seen) + Cardinality(nxt)
    <3>1. seen \cap nxt = {}
      BY <1>3 DEF NextHop
    <3>2. Cardinality(seen \cap nxt) = 0
      BY <3>1, FS_EmptySet
    <3>3. Cardinality(seen \cup nxt) =
            Cardinality(seen) + Cardinality(nxt) - Cardinality(seen \cap nxt)
      BY <2>1, FS_Union
    <3> QED
      BY <2>1, <3>2, <3>3
  <2> QED
    BY <1>3, <2>1, <2>2, <2>3 DEF Room
<1>8. ASSUME NEW R, Reach(R, graph, seed)
      PROVE  /\ seen' \subseteq R[h + 1]
             /\ trace'.truncated = FALSE => seen' = R[h + 1]
  <2>1. /\ frontier \subseteq seen /\ seen \subseteq R[h]
        /\ trace.truncated = FALSE => seen = R[h]
        /\ trace.truncated = FALSE =>
             \A m \in seen \ frontier :
               IsHub(graph, m) \/ Neighbours(graph, m) \subseteq seen
    BY <1>1, <1>5, <1>8 DEF BuildInv, ReachInv
  <2>2. /\ NextHop \subseteq R[h + 1] /\ R[h] \subseteq R[h + 1]
        /\ trace.truncated = FALSE => seen \cup NextHop = R[h + 1]
    BY <1>1, <1>5, <1>8, <2>1, HopReaches
  <2> QED
    BY <1>3, <1>6, <2>1, <2>2
<1>9. trace'.truncated = FALSE =>
         \A m \in seen' \ frontier' :
           IsHub(graph, m) \/ Neighbours(graph, m) \subseteq seen'
  BY <1>1, <1>3, <1>6 DEF BuildInv, ReachInv, NextHop, Blocked
<1>10. AtHubs.hub_blocked = 0 => \A m \in seen' \ frontier' : ~IsHub(graph, m)
  BY <1>1, <1>2, <1>3, HubsCounted DEF BuildInv, ReachInv
<1>11. ReachInv'
  BY <1>1, <1>3, <1>6, <1>7, <1>8, <1>9, <1>10 DEF ReachInv
<1>12. StructureInv'
  <2>1. \A n \in nxt : \E m \in seen : <<n, m>> \in graph \/ <<m, n>> \in graph
    BY <1>3 DEF NextHop, Neighbours, OutAdj, InAdj, BuildInv, ReachInv
  <2>2. HangsTogether(graph, seen \cup nxt, seed)
    BY <2>1, GrownTogether DEF BuildInv, StructureInv, Inv, StageInv
  <2> QED
    BY <1>1, <1>3, <2>2 DEF StructureInv
<1> QED
  BY <1>1, <1>2, <1>11, <1>12
     DEF BuildInv, ExpansionIsBoundedReach, TraceExplainsStop, Expanded

-----------------------------------------------------------------------------
(* Pruning leaves what the expansion collected alone, and takes nothing    *)
(* apart.                                                                  *)

LEMMA ExpansionStands ==
  ASSUME BuildInv, UNCHANGED <<args, expansion>>, pc # "expand", pc' # "expand"
  PROVE  ReachInv' /\ ExpansionIsBoundedReach' /\ TraceExplainsStop'
         /\ HangsTogether(graph, seen, seed)'
<1>1. /\ graph' = graph /\ seed' = seed /\ max_nodes' = max_nodes
      /\ seen' = seen /\ frontier' = frontier /\ trace' = trace
  BY DEF args, expansion
<1> QED
  BY <1>1 DEF BuildInv, ReachInv, StructureInv, ExpansionIsBoundedReach,
              TraceExplainsStop, Expanded, Truncated

\* What a stage hands on is all there was, or a part that hangs together.
LEMMA SettledTogether ==
  ASSUME BuildInv, pc \in {"prune", "loop"}, NEW k,
         seed \in k, HangsTogether(graph, k, seed)
  PROVE  seed \in Settle(k, nodes) /\ HangsTogether(graph, Settle(k, nodes), seed)
BY DEF BuildInv, Inv, StageInv, StructureInv, Settle

LEMMA PruneNothingBuild ==
  ASSUME BuildInv, PruneNothing PROVE BuildInv'
<1>1. /\ pc = "prune" /\ pc' = "check" /\ nodes' = nodes /\ nodes = seen
      /\ UNCHANGED <<args, expansion>> /\ graph' = graph /\ seed' = seed
  BY DEF PruneNothing, BuildInv, Inv, StageInv, args
<1>2. StructureInv'
  BY <1>1, ExpansionStands DEF BuildInv, StructureInv, Inv, StageInv
<1> QED
  BY <1>1, <1>2, PruneNothingStep, ExpansionStands DEF BuildInv

LEMMA PruneLeaf2Build ==
  ASSUME BuildInv, PruneLeaf2 PROVE BuildInv'
<1>1. /\ pc = "prune" /\ pc' = "check" /\ nodes = seen
      /\ nodes' = Settle(Leaf2(graph, nodes, seed), nodes)
      /\ UNCHANGED <<args, expansion>> /\ graph' = graph /\ seed' = seed
  BY DEF PruneLeaf2, Prunable, BuildInv, Inv, StageInv, args
<1>2. PICK L : L = Leaf2(graph, nodes, seed)
  OBVIOUS
<1>3. seed \in L /\ HangsTogether(graph, L, seed)
  BY <1>1, <1>2, Leaf2Together DEF BuildInv, StructureInv, Inv, StageInv, TypeOK
<1>4. seed \in nodes' /\ HangsTogether(graph, nodes', seed)
  BY <1>1, <1>2, <1>3, SettledTogether
<1>5. StructureInv'
  BY <1>1, <1>4, ExpansionStands DEF StructureInv
<1> QED
  BY <1>1, <1>5, PruneLeaf2Step, ExpansionStands DEF BuildInv

LEMMA StartLoopBuild ==
  ASSUME BuildInv, StartLoop PROVE BuildInv'
<1>1. /\ pc = "prune" /\ pc' = "loop" /\ nodes = seen
      /\ keep' = nodes \/ keep' = Leaf2(graph, nodes, seed)
      /\ UNCHANGED <<args, expansion>> /\ graph' = graph /\ seed' = seed
  BY DEF StartLoop, Prunable, BuildInv, Inv, StageInv, args
<1>2. PICK L : L = Leaf2(graph, nodes, seed)
  OBVIOUS
<1>3. seed \in L /\ HangsTogether(graph, L, seed)
  BY <1>1, <1>2, Leaf2Together DEF BuildInv, StructureInv, Inv, StageInv, TypeOK
<1>4. seed \in keep' /\ HangsTogether(graph, keep', seed)
  BY <1>1, <1>2, <1>3 DEF BuildInv, StructureInv, Inv, StageInv
<1>5. StructureInv'
  BY <1>1, <1>4, ExpansionStands DEF StructureInv
<1> QED
  BY <1>1, <1>5, StartLoopStep, ExpansionStands DEF BuildInv

LEMMA StartPassBuild ==
  ASSUME BuildInv, StartPass PROVE BuildInv'
<1>1. /\ pc = "loop" /\ pc' = "loop" /\ keep' = keep
      /\ UNCHANGED <<args, expansion>> /\ graph' = graph /\ seed' = seed
  BY DEF StartPass, PassOver, args
<1>2. StructureInv'
  BY <1>1, ExpansionStands DEF BuildInv, StructureInv
<1> QED
  BY <1>1, <1>2, StartPassStep, ExpansionStands DEF BuildInv

\* A straggler has at most one tie to what is kept: dropping it cuts nobody off.
LEMMA ExamineBuild ==
  ASSUME BuildInv, Examine PROVE BuildInv'
<1>1. /\ pc = "loop" /\ pc' = "loop"
      /\ UNCHANGED <<args, expansion>> /\ graph' = graph /\ seed' = seed
  BY DEF Examine, args
<1>2. PICK n \in todo : keep' = IF Straggler(n) THEN keep \ {n} ELSE keep
  BY DEF Examine
<1>3. /\ keep \in SUBSET Nodes /\ n \in keep /\ keep \subseteq nodes
      /\ seed \in keep /\ HangsTogether(graph, keep, seed)
  BY <1>1, <1>2 DEF BuildInv, Inv, TypeOK, StructureInv
<1>4. seed \in keep' /\ HangsTogether(graph, keep', seed)
  <2>1. CASE ~Straggler(n)
    BY <1>2, <1>3, <2>1
  <2>2. CASE Straggler(n)
    <3>1. n # seed
      BY <2>2 DEF Straggler, Protected, Near
    <3>2. PICK ties : ties = LinkedTo(graph, nodes, n) \cap keep
      OBVIOUS
    <3>3. ties \in SUBSET Nodes /\ Cardinality(ties) \in Nat /\ Cardinality(ties) < 2
      <4>1. ties \in SUBSET Nodes
        BY <1>3, <3>2
      <4> QED
        BY <2>2, <3>2, <4>1, AccountSetsAreFinite DEF Straggler
    <3>4. ASSUME NEW x \in keep \ {n}, NEW y \in keep \ {n},
                 <<x, n>> \in graph \/ <<n, x>> \in graph,
                 <<y, n>> \in graph \/ <<n, y>> \in graph
          PROVE  x = y
      <4>1. x \in ties /\ y \in ties
        BY <1>3, <3>2, <3>4 DEF LinkedTo
      <4>2. x # y => Cardinality(ties) >= 2
        BY <3>3, <4>1, TwoMembers
      <4> QED
        BY <3>3, <4>2
    <3>5. HangsTogether(graph, keep \ {n}, seed)
      BY <1>3, <3>1, <3>4, LeafGone
    <3> QED
      BY <1>2, <1>3, <2>2, <3>1, <3>5
  <2> QED
    BY <2>1, <2>2
<1>5. StructureInv'
  BY <1>1, <1>4, ExpansionStands DEF StructureInv
<1> QED
  BY <1>1, <1>5, ExamineStep, ExpansionStands DEF BuildInv

LEMMA EndLoopBuild ==
  ASSUME BuildInv, EndLoop PROVE BuildInv'
<1>1. /\ pc = "loop" /\ pc' = "check" /\ nodes' = Settle(keep, nodes)
      /\ UNCHANGED <<args, expansion>> /\ graph' = graph /\ seed' = seed
  BY DEF EndLoop, PassOver, args
<1>2. seed \in keep /\ HangsTogether(graph, keep, seed)
  BY <1>1 DEF BuildInv, StructureInv
<1>3. seed \in nodes' /\ HangsTogether(graph, nodes', seed)
  BY <1>1, <1>2, SettledTogether
<1>4. StructureInv'
  BY <1>1, <1>3, ExpansionStands DEF StructureInv
<1> QED
  BY <1>1, <1>4, EndLoopStep, ExpansionStands DEF BuildInv

LEMMA DecideBuild ==
  ASSUME BuildInv, Decide PROVE BuildInv'
<1>1. /\ pc = "check" /\ pc' \in {"emitted", "too_small"} /\ nodes' = nodes
      /\ UNCHANGED <<args, expansion>> /\ graph' = graph /\ seed' = seed
  BY DEF Decide, args
<1>2. StructureInv'
  BY <1>1, ExpansionStands DEF BuildInv, StructureInv
<1> QED
  BY <1>1, <1>2, DecideStep, ExpansionStands DEF BuildInv

\* What the expansion collects is within reach, and every stage hands on
\* something that hangs together with the seed (expand_traced, prune, generate).
THEOREM BuildHolds == Spec => []BuildInv
<1>1. Init => BuildInv
  BY BuildInit
<1>2. BuildInv /\ [Next]_vars => BuildInv'
  <2> SUFFICES ASSUME BuildInv, [Next]_vars PROVE BuildInv'
    OBVIOUS
  <2>1. CASE Exhaust \/ HitNodeCap \/ HopsDone
    BY <2>1, ExpandedBuild
  <2>2. CASE Hop
    BY <2>2, HopBuild
  <2>3. CASE PruneNothing
    BY <2>3, PruneNothingBuild
  <2>4. CASE PruneLeaf2
    BY <2>4, PruneLeaf2Build
  <2>5. CASE StartLoop
    BY <2>5, StartLoopBuild
  <2>6. CASE StartPass
    BY <2>6, StartPassBuild
  <2>7. CASE Examine
    BY <2>7, ExamineBuild
  <2>8. CASE EndLoop
    BY <2>8, EndLoopBuild
  <2>9. CASE Decide
    BY <2>9, DecideBuild
  <2>10. CASE UNCHANGED vars
    BY <2>10 DEF vars, BuildInv, Inv, TypeOK, StageInv, NeverBelowMinimum,
                 Coincide, TwoHopShape, ReachInv, StructureInv,
                 ExpansionIsBoundedReach, TraceExplainsStop, Expanded, Truncated
  <2> QED
    BY <2>1, <2>2, <2>3, <2>4, <2>5, <2>6, <2>7, <2>8, <2>9, <2>10 DEF Next
<1> QED
  BY <1>1, <1>2, PTL DEF Spec

\* The neighbourhood collected is exactly what hub guard and hop budget
\* promise, or says that it was cut short, and the trace names the reason for
\* every account next to it that was left out: for every graph and every order
\* in which a hop is cut (expand_traced).
THEOREM ExpansionSound == Spec => []ExpansionIsSound
<1>1. BuildInv => ExpansionIsSound
  BY DEF BuildInv, Inv, ExpansionIsSound
<1> QED
  BY <1>1, BuildHolds, PTL

\* No strategy takes a candidate apart, whatever order it walks the sets in
\* (prune).
THEOREM PrunedInOnePiece == Spec => []OneStructure
<1>1. BuildInv => OneStructure
  <2> SUFFICES ASSUME BuildInv, pc \in {"check", "emitted"}
               PROVE  seed \in nodes /\ Connected(graph, nodes, seed)
    BY DEF OneStructure
  <2>1. /\ nodes \in SUBSET Nodes /\ seed \in nodes
        /\ HangsTogether(graph, nodes, seed)
    BY DEF BuildInv, Inv, TypeOK, StructureInv
  <2> QED
    BY <2>1, TogetherIsConnected
<1> QED
  BY <1>1, BuildHolds, PTL

-----------------------------------------------------------------------------
(* Suppression.  First the size bound.                                     *)

\* Multiplication respects the order of the naturals.
LEMMA TimesMonotone ==
  ASSUME NEW a \in Nat, NEW b \in Nat, NEW c \in Nat, a <= b
  PROVE  a * c <= b * c
<1>1. PICK d \in Nat : b = a + d
  <2>1. b - a \in Nat /\ b = a + (b - a)
    OBVIOUS
  <2> QED
    BY <2>1
<1>2. b * c = a * c + d * c
  BY <1>1, SMT
<1>3. d * c \in Nat /\ a * c \in Nat
  BY <1>1, SMT
<1> QED
  BY <1>2, <1>3

\* The size test never rules out a rival that reaches the threshold: the
\* pre-rejection changes nothing but the time that suppress takes.
THEOREM SizeBoundIsLossless ==
  ASSUME NEW a \in SUBSET Accounts, NEW b \in SUBSET Accounts, JaccardReaches(a, b)
  PROVE  SizesReach(a, b)
<1> DEFINE inter == Cardinality(a \cap b)
           union == Cardinality(a \cup b)
           m == Cardinality(a)
           n == Cardinality(b)
<1>1. IsFiniteSet(a) /\ IsFiniteSet(b)
  BY SuppressionAssumption, FS_Subset
<1>2. IsFiniteSet(a \cup b) /\ IsFiniteSet(a \cap b)
  BY <1>1, FS_Union, FS_Intersection
<1>3. inter \in Nat /\ union \in Nat /\ m \in Nat /\ n \in Nat
  BY <1>1, <1>2, FS_CardinalityType
<1>4. inter <= m /\ inter <= n
  BY <1>1, FS_Subset, a \cap b \subseteq a, a \cap b \subseteq b
<1>5. m <= union /\ n <= union
  BY <1>2, FS_Subset, a \subseteq a \cup b, b \subseteq a \cup b
<1>6. inter * Q >= P * union
  BY DEF JaccardReaches
<1>7. P \in Nat /\ Q \in Nat
  BY SuppressionAssumption
<1> HIDE DEF inter, union, m, n
<1>8. Smaller(m, n) \in Nat /\ Larger(m, n) \in Nat
  BY <1>3 DEF Smaller, Larger
<1>9. inter <= Smaller(m, n) /\ Larger(m, n) <= union
  BY <1>3, <1>4, <1>5 DEF Smaller, Larger
<1>10. inter * Q <= Smaller(m, n) * Q
  BY <1>3, <1>7, <1>8, <1>9, TimesMonotone
<1>11. Larger(m, n) * P <= union * P
  BY <1>3, <1>7, <1>8, <1>9, TimesMonotone
<1>12. /\ Larger(m, n) * P = P * Larger(m, n)
       /\ union * P = P * union
  BY <1>3, <1>7, <1>8, SMT
<1>13. /\ inter * Q \in Nat /\ Smaller(m, n) * Q \in Nat
       /\ P * union \in Nat /\ P * Larger(m, n) \in Nat
  BY <1>3, <1>7, <1>8, SMT
<1>14. Smaller(m, n) * Q >= P * Larger(m, n)
  BY <1>6, <1>10, <1>11, <1>12, <1>13
<1> QED
  BY <1>14 DEF SizesReach, m, n

\* Overlap is symmetric.
LEMMA JaccardSymmetric ==
  ASSUME NEW a, NEW b, JaccardReaches(a, b)
  PROVE  JaccardReaches(b, a)
<1>1. a \cap b = b \cap a /\ a \cup b = b \cup a
  OBVIOUS
<1> QED
  BY <1>1 DEF JaccardReaches

\* Sets that overlap have an account in common.
LEMMA JaccardMeets ==
  ASSUME NEW a \in SUBSET Accounts, NEW b \in SUBSET Accounts, JaccardReaches(a, b)
  PROVE  \E n \in a : n \in b
<1> SUFFICES ASSUME a \cap b = {} PROVE FALSE
  OBVIOUS
<1>1. IsFiniteSet(a \cup b) /\ a \cup b # {}
  BY SuppressionAssumption, FS_Subset DEF JaccardReaches
<1>2. Cardinality(a \cup b) \in Nat /\ Cardinality(a \cup b) # 0
  BY <1>1, FS_CardinalityType, FS_EmptySet
<1>3. Cardinality(a \cap b) = 0
  BY FS_EmptySet
<1>4. 0 * Q >= P * Cardinality(a \cup b)
  BY <1>3 DEF JaccardReaches
<1> HIDE <1>3
<1> DEFINE u == Cardinality(a \cup b)
<1>5. u \in Nat /\ u >= 1 /\ P \in Nat /\ P >= 1 /\ Q \in Nat
  BY <1>2, SuppressionAssumption
<1>6. 0 >= P * u
  BY <1>4, <1>5
<1> HIDE DEF u
<1>7. 1 * P <= u * P
  BY <1>5, TimesMonotone
<1>8. u * P = P * u /\ 1 * P = P /\ P * u \in Nat
  BY <1>5, SMT
<1> QED
  BY <1>5, <1>6, <1>7, <1>8

-----------------------------------------------------------------------------
(* The loop.                                                               *)

\* Only candidates already processed have been absorbed.
AbsorbedBefore == \A k \in Positions : absorbed[k] \subseteq 1..i - 1

SuppressInv ==
  /\ SuppressTypeOK
  /\ ordered \in Lists
  /\ Sorted(ordering, ordered)
  /\ IndexExact
  /\ AbsorbedBefore
  /\ SurvivorsAreDistinct
  /\ EveryViewIsRepresented

LEMMA ListFacts ==
  ASSUME SuppressTypeOK
  PROVE  /\ Len(ordered) \in Nat
         /\ i \in Nat /\ i >= 1
         /\ Positions = 1..Len(ordered)
         /\ \A k \in Positions : Members(k) \in SUBSET Accounts
<1>1. ordered \in Seq(Candidate) /\ i \in 1..Len(ordered) + 1
  BY DEF SuppressTypeOK
<1>2. Len(ordered) \in Nat
  BY <1>1
<1>3. i \in Nat /\ i >= 1
  BY <1>1, <1>2
<1>4. ASSUME NEW k \in Positions PROVE Members(k) \in SUBSET Accounts
  <2>1. ordered[k] \in Candidate
    BY <1>1, <1>4 DEF Positions
  <2> QED
    BY <2>1 DEF Candidate, Members
<1> QED
  BY <1>2, <1>3, <1>4 DEF Positions

LEMMA SuppressInitInv == SuppressInit => SuppressInv
<1> SUFFICES ASSUME SuppressInit PROVE SuppressInv
  OBVIOUS
<1>1. ordered \in Lists /\ Sorted(ordering, ordered) /\ ordering \in Orderings
  BY DEF SuppressInit
<1>2. ordered \in Seq(Candidate)
  BY <1>1, SuppressionAssumption
<1>3. Len(ordered) \in Nat
  BY <1>2
<1>4. i = 1 /\ kept = {} /\ 1..i - 1 = {}
  BY DEF SuppressInit
<1>5. by_node = [n \in Accounts |-> {}] /\ absorbed = [k \in Positions |-> {}]
  BY DEF SuppressInit, Positions
<1>6. i \in 1..Len(ordered) + 1
  BY <1>3, <1>4
<1>7. SuppressTypeOK
  BY <1>1, <1>2, <1>4, <1>5, <1>6 DEF SuppressTypeOK
<1>8. IndexExact
  BY <1>4, <1>5 DEF IndexExact
<1>9. AbsorbedBefore
  BY <1>5 DEF AbsorbedBefore
<1>10. SurvivorsAreDistinct /\ EveryViewIsRepresented
  BY <1>4 DEF SurvivorsAreDistinct, EveryViewIsRepresented
<1> QED
  BY <1>1, <1>7, <1>8, <1>9, <1>10 DEF SuppressInv

\* A rival is a survivor met earlier that shares an account.
LEMMA RivalsAreKept ==
  ASSUME SuppressInv, i <= Len(ordered)
  PROVE  /\ Rivals \subseteq kept
         /\ \A k \in kept : (\E n \in Members(i) : n \in Members(k)) => k \in Rivals
<1>1. i \in Positions /\ Members(i) \subseteq Accounts
  BY ListFacts DEF SuppressInv
<1>2. \A n \in Members(i) : by_node[n] = {k \in kept : n \in Members(k)}
  BY <1>1 DEF SuppressInv, IndexExact
<1> QED
  BY <1>2 DEF Rivals

LEMMA AbsorbKeepsInv == SuppressInv /\ Absorb => SuppressInv'
<1> SUFFICES ASSUME SuppressInv, Absorb PROVE SuppressInv'
  OBVIOUS
<1> USE DEF SuppressInv
<1>1. PICK w \in Winners : absorbed' = [absorbed EXCEPT ![w] = @ \cup {i}]
  BY DEF Absorb
<1>2. /\ i <= Len(ordered) /\ i' = i + 1
      /\ ordering' = ordering /\ ordered' = ordered
      /\ by_node' = by_node /\ kept' = kept
  BY DEF Absorb
<1>3. /\ Len(ordered) \in Nat /\ i \in Nat /\ i >= 1
      /\ i \in Positions /\ Positions' = Positions
  BY <1>2, ListFacts DEF Positions
<1>4. w \in kept /\ kept \subseteq 1..i - 1 /\ kept \subseteq Positions
  BY <1>2, RivalsAreKept DEF Winners, IndexExact, SuppressTypeOK
<1>5. w \in Positions /\ w < i /\ i \notin kept
  BY <1>3, <1>4
<1>6. 1..i - 1 \subseteq 1..i' - 1
  BY <1>2, <1>3
<1>7. \A k \in Positions : /\ k # w => absorbed'[k] = absorbed[k]
                           /\ absorbed'[w] = absorbed[w] \cup {i}
  BY <1>1, <1>5 DEF SuppressTypeOK
<1>8. SuppressTypeOK'
  <2>1. absorbed' \in [Positions -> SUBSET Positions]
    BY <1>1, <1>3, <1>5 DEF SuppressTypeOK
  <2>2. i' \in 1..Len(ordered) + 1
    BY <1>2, <1>3
  <2> QED
    BY <2>1, <2>2, <1>2, <1>3 DEF SuppressTypeOK
<1>9. (Sorted(ordering, ordered))'
  BY <1>2 DEF Sorted, Ahead
<1>10. IndexExact'
  BY <1>2, <1>6 DEF IndexExact, Members
<1>11. AbsorbedBefore'
  <2>1. i \in 1..i' - 1
    BY <1>2, <1>3
  <2> QED
    BY <1>3, <1>6, <1>7, <2>1 DEF AbsorbedBefore
<1>12. SurvivorsAreDistinct'
  BY <1>2 DEF SurvivorsAreDistinct, Members
<1>13. EveryViewIsRepresented'
  <2> SUFFICES ASSUME NEW j \in 1..i' - 1
               PROVE  LET by == {k \in Positions : j \in absorbed'[k]} IN
                      IF j \in kept THEN by = {}
                      ELSE \E k \in kept :
                             /\ by = {k}
                             /\ JaccardReaches(Members(j), Members(k))
                             /\ ~Ahead(ordering, ordered[j], ordered[k])
    BY <1>2, <1>3 DEF EveryViewIsRepresented, Members
  <2>1. CASE j = i
    <3>1. \A k \in Positions : i \notin absorbed[k]
      BY <1>3 DEF AbsorbedBefore
    <3>2. {k \in Positions : i \in absorbed'[k]} = {w}
      BY <3>1, <1>5, <1>7
    <3>3. JaccardReaches(Members(i), Members(w))
      BY DEF Winners
    <3>4. ~Ahead(ordering, ordered[i], ordered[w])
      BY <1>2, <1>3, <1>5 DEF Sorted, Positions
    <3> QED
      BY <2>1, <3>2, <3>3, <3>4, <1>4, <1>5
  <2>2. CASE j # i
    <3>1. j \in 1..i - 1
      BY <2>2, <1>2, <1>3
    <3>2. {k \in Positions : j \in absorbed'[k]} = {k \in Positions : j \in absorbed[k]}
      BY <2>2, <1>5, <1>7
    <3> QED
      BY <3>1, <3>2 DEF EveryViewIsRepresented
  <2> QED
    BY <2>1, <2>2
<1> QED
  BY <1>2, <1>8, <1>9, <1>10, <1>11, <1>12, <1>13

LEMMA KeepKeepsInv == SuppressInv /\ Keep => SuppressInv'
<1> SUFFICES ASSUME SuppressInv, Keep PROVE SuppressInv'
  OBVIOUS
<1> USE DEF SuppressInv
<1>1. /\ i <= Len(ordered) /\ i' = i + 1 /\ Winners = {}
      /\ ordering' = ordering /\ ordered' = ordered /\ absorbed' = absorbed
      /\ by_node' = Indexed(i) /\ kept' = kept \cup {i}
  BY DEF Keep
<1>2. /\ Len(ordered) \in Nat /\ i \in Nat /\ i >= 1
      /\ i \in Positions /\ Positions' = Positions
      /\ \A k \in Positions : Members(k) \in SUBSET Accounts /\ Members(k)' = Members(k)
  BY <1>1, ListFacts DEF Positions, Members
<1>3. kept \subseteq 1..i - 1 /\ kept \subseteq Positions /\ i \notin kept
  BY <1>2 DEF IndexExact, SuppressTypeOK
<1>4. 1..i - 1 \subseteq 1..i' - 1 /\ i \in 1..i' - 1
  BY <1>1, <1>2
<1>5. \A k \in kept : ~JaccardReaches(Members(i), Members(k))
  <2> SUFFICES ASSUME NEW k \in kept, JaccardReaches(Members(i), Members(k))
               PROVE  FALSE
    OBVIOUS
  <2>1. Members(i) \in SUBSET Accounts /\ Members(k) \in SUBSET Accounts
    BY <1>2, <1>3
  <2>2. \E n \in Members(i) : n \in Members(k)
    BY <2>1, JaccardMeets
  <2>3. k \in Rivals
    BY <2>2, <1>1, RivalsAreKept
  <2>4. SizesReach(Members(i), Members(k))
    BY <2>1, SizeBoundIsLossless
  <2>5. k \in Winners
    BY <2>3, <2>4 DEF Winners
  <2> QED
    BY <2>5, <1>1
<1>6. SuppressTypeOK'
  <2>1. by_node' \in [Accounts -> SUBSET Positions]
    BY <1>1, <1>2 DEF Indexed, SuppressTypeOK
  <2>2. i' \in 1..Len(ordered) + 1
    BY <1>1, <1>2
  <2>3. kept' \subseteq Positions
    BY <1>1, <1>2, <1>3
  <2> QED
    BY <2>1, <2>2, <2>3, <1>1, <1>2 DEF SuppressTypeOK
<1>7. (Sorted(ordering, ordered))'
  BY <1>1 DEF Sorted, Ahead
<1>8. IndexExact'
  <2>1. kept' \subseteq 1..i' - 1
    BY <1>1, <1>3, <1>4
  <2>2. ASSUME NEW n \in Accounts
        PROVE  by_node'[n] = {k \in kept' : n \in Members(k)}
    <3>1. by_node[n] = {k \in kept : n \in Members(k)}
      BY DEF IndexExact
    <3>2. by_node'[n] = IF n \in Members(i) THEN by_node[n] \cup {i} ELSE by_node[n]
      BY <1>1 DEF Indexed
    <3> QED
      BY <1>1, <3>1, <3>2
  <2> QED
    BY <1>1, <2>1, <2>2 DEF IndexExact, Members
<1>9. AbsorbedBefore'
  BY <1>1, <1>2, <1>4 DEF AbsorbedBefore
<1>10. SurvivorsAreDistinct'
  <2> SUFFICES ASSUME NEW j \in kept', NEW k \in kept', j # k
               PROVE  ~JaccardReaches(Members(j), Members(k))
    BY <1>1, <1>2, <1>3 DEF SurvivorsAreDistinct
  <2>1. CASE j \in kept /\ k \in kept
    BY <2>1 DEF SurvivorsAreDistinct
  <2>2. CASE j = i /\ k \in kept
    BY <2>2, <1>5
  <2>3. CASE j \in kept /\ k = i
    BY <2>3, <1>5, JaccardSymmetric
  <2> QED
    BY <2>1, <2>2, <2>3, <1>1
<1>11. EveryViewIsRepresented'
  <2> SUFFICES ASSUME NEW j \in 1..i' - 1
               PROVE  LET by == {k \in Positions : j \in absorbed[k]} IN
                      IF j \in kept' THEN by = {}
                      ELSE \E k \in kept' :
                             /\ by = {k}
                             /\ JaccardReaches(Members(j), Members(k))
                             /\ ~Ahead(ordering, ordered[j], ordered[k])
    BY <1>1, <1>2 DEF EveryViewIsRepresented, Members
  <2>1. CASE j = i
    <3>1. \A k \in Positions : i \notin absorbed[k]
      BY <1>2 DEF AbsorbedBefore
    <3> QED
      BY <2>1, <3>1, <1>1
  <2>2. CASE j # i
    <3>1. j \in 1..i - 1
      BY <2>2, <1>1, <1>2
    <3> QED
      BY <3>1, <2>2, <1>1 DEF EveryViewIsRepresented
  <2> QED
    BY <2>1, <2>2
<1> QED
  BY <1>1, <1>6, <1>7, <1>8, <1>9, <1>10, <1>11

LEMMA SuppressStepInv == SuppressInv /\ [SuppressStep]_suppression => SuppressInv'
<1> SUFFICES ASSUME SuppressInv, [SuppressStep]_suppression PROVE SuppressInv'
  OBVIOUS
<1>1. CASE Absorb
  BY <1>1, AbsorbKeepsInv
<1>2. CASE Keep
  BY <1>2, KeepKeepsInv
<1>3. CASE UNCHANGED suppression
  <2>1. UNCHANGED <<ordering, ordered, i, by_node, kept, absorbed>>
    BY <1>3 DEF suppression
  <2>2. Positions' = Positions /\ \A k : Members(k)' = Members(k)
    BY <2>1 DEF Positions, Members
  <2>3. SuppressTypeOK' /\ IndexExact' /\ AbsorbedBefore'
    BY <2>1, <2>2 DEF SuppressInv, SuppressTypeOK, IndexExact, AbsorbedBefore
  <2>4. SurvivorsAreDistinct' /\ EveryViewIsRepresented'
    BY <2>1, <2>2 DEF SuppressInv, SurvivorsAreDistinct, EveryViewIsRepresented
  <2>5. ordered' \in Lists /\ Sorted(ordering, ordered)'
    BY <2>1 DEF SuppressInv, Sorted, Ahead
  <2> QED
    BY <2>3, <2>4, <2>5 DEF SuppressInv
<1> QED
  BY <1>1, <1>2, <1>3 DEF SuppressStep

LEMMA SuppressInvHolds == SuppressSpec => []SuppressInv
BY SuppressInitInv, SuppressStepInv, PTL DEF SuppressSpec

-----------------------------------------------------------------------------
(* The results.                                                            *)

\* The loop's state is well-typed for every list of candidates.
THEOREM SuppressTypeCorrect == SuppressSpec => []SuppressTypeOK
<1>1. SuppressInv => SuppressTypeOK
  BY DEF SuppressInv
<1> QED
  BY <1>1, SuppressInvHolds, PTL

\* The index of suppress lists each survivor under each of its members.
THEOREM IndexIsExact == SuppressSpec => []IndexExact
<1>1. SuppressInv => IndexExact
  BY DEF SuppressInv
<1> QED
  BY <1>1, SuppressInvHolds, PTL

\* No two survivors of suppress reach the threshold, whatever the threshold,
\* the ordering, the scores and the order of insertion.
THEOREM Distinct == SuppressSpec => []SurvivorsAreDistinct
<1>1. SuppressInv => SurvivorsAreDistinct
  BY DEF SuppressInv
<1> QED
  BY <1>1, SuppressInvHolds, PTL

\* Every candidate that does not survive is counted, exactly once, by a
\* survivor that overlaps it and does not rank behind it.
THEOREM Represented == SuppressSpec => []EveryViewIsRepresented
<1>1. SuppressInv => EveryViewIsRepresented
  BY DEF SuppressInv
<1> QED
  BY <1>1, SuppressInvHolds, PTL

\* The three facts together, which is what the ranking relies on (suppress).
THEOREM Sound == SuppressSpec => []SuppressionIsSound
<1>1. SuppressTypeOK /\ SurvivorsAreDistinct /\ EveryViewIsRepresented
        => SuppressionIsSound
  BY DEF SuppressionIsSound
<1> QED
  BY <1>1, SuppressTypeCorrect, Distinct, Represented, PTL

\* The score-free orderings are strict and total on candidates with different
\* keys, and are what `sorted' goes by.
LEMMA ScoreFreeOrder ==
  ASSUME SuppressInv, ordering # "score", NEW j \in Positions, NEW k \in Positions
  PROVE  /\ ~ScoreFreeAhead(ordered[j], ordered[j])
         /\ j # k /\ ~Ahead(ordering, ordered[j], ordered[k])
              => ScoreFreeAhead(ordered[k], ordered[j])
<1>1. ordered[j] \in Candidate /\ ordered[k] \in Candidate
  BY DEF SuppressInv, SuppressTypeOK, Positions
<1>2. ordered[j].key \in Nat /\ ordered[k].key \in Nat
  BY <1>1 DEF Candidate
<1>3. j # k => ordered[j].key # ordered[k].key
  BY SuppressionAssumption DEF SuppressInv, Positions
<1>4. IsFiniteSet(ordered[j].nodes) /\ IsFiniteSet(ordered[k].nodes)
  BY <1>1, SuppressionAssumption, FS_Subset DEF Candidate
<1>5. /\ Cardinality(ordered[j].nodes) \in Nat
      /\ Cardinality(ordered[k].nodes) \in Nat
  BY <1>4, FS_CardinalityType
<1>6. ordering \in {"largest", "smallest", "key"}
  BY SuppressionAssumption DEF SuppressInv, SuppressTypeOK
<1> DEFINE m == Cardinality(ordered[j].nodes)
           n == Cardinality(ordered[k].nodes)
           x == ordered[j].key
           y == ordered[k].key
<1>7. ~ScoreFreeAhead(ordered[j], ordered[j])
  BY <1>2, <1>5 DEF ScoreFreeAhead
<1>8. ASSUME j # k, ~Ahead(ordering, ordered[j], ordered[k])
      PROVE  ScoreFreeAhead(ordered[k], ordered[j])
  <2>1. x # y
    BY <1>3, <1>8
  <2>2. \/ ordering = "largest" /\ ~(m > n \/ (m = n /\ x < y))
        \/ ordering = "smallest" /\ ~(m < n \/ (m = n /\ x < y))
        \/ ordering = "key" /\ ~(x < y)
    BY <1>6, <1>8 DEF Ahead
  <2>3. \/ ordering = "largest" /\ (n > m \/ (m = n /\ y < x))
        \/ ordering = "smallest" /\ (n < m \/ (m = n /\ y < x))
        \/ ordering = "key" /\ y < x
    <3> HIDE DEF m, n, x, y
    <3>1. m \in Nat /\ n \in Nat /\ x \in Nat /\ y \in Nat
      BY <1>2, <1>5 DEF m, n, x, y
    <3> QED
      BY <2>1, <2>2, <3>1
  <2> QED
    BY <2>3 DEF ScoreFreeAhead
<1> QED
  BY <1>7, <1>8

\* Under a score-free ordering a candidate survives exactly if no survivor
\* before it in the documented order overlaps it: the scores and the order of
\* insertion have no say.
THEOREM ScoreFree == SuppressSpec => []PoolIgnoresScore
<1>1. SuppressInv => PoolIgnoresScore
  <2> SUFFICES ASSUME SuppressInv, ordering # "score", i > Len(ordered),
                      NEW j \in Positions
               PROVE  j \in kept <=> ~\E k \in kept :
                                        /\ ScoreFreeAhead(ordered[k], ordered[j])
                                        /\ JaccardReaches(Members(j), Members(k))
    BY DEF PoolIgnoresScore
  <2>1. kept \subseteq Positions
    BY DEF SuppressInv, SuppressTypeOK
  <2>2. ASSUME j \in kept, NEW k \in kept,
               ScoreFreeAhead(ordered[k], ordered[j]),
               JaccardReaches(Members(j), Members(k))
        PROVE  FALSE
    <3>1. k # j
      BY <2>1, <2>2, ScoreFreeOrder
    <3> QED
      BY <2>2, <3>1 DEF SuppressInv, SurvivorsAreDistinct
  <2>3. ASSUME j \notin kept
        PROVE  \E k \in kept : /\ ScoreFreeAhead(ordered[k], ordered[j])
                               /\ JaccardReaches(Members(j), Members(k))
    <3>1. j \in 1..i - 1
      BY ListFacts DEF SuppressInv
    <3>2. PICK k \in kept : /\ JaccardReaches(Members(j), Members(k))
                            /\ ~Ahead(ordering, ordered[j], ordered[k])
      BY <2>3, <3>1 DEF SuppressInv, EveryViewIsRepresented
    <3>3. j # k /\ k \in Positions
      BY <2>1, <2>3
    <3> QED
      BY <3>2, <3>3, ScoreFreeOrder
  <2> QED
    BY <2>2, <2>3
<1> QED
  BY <1>1, SuppressInvHolds, PTL
=============================================================================
