-------------------------- MODULE EvaluationProofs --------------------------
(* Proofs about the evaluation harness: that its programs count one replay *)
(* alike, for any rings, traffic, queues, seed rules, merges and depths.   *)
(* The first three sections, on sums, numbers and stable sorts, serve      *)
(* OfflineProofs too.                                                      *)
EXTENDS Evaluation, FiniteSetTheorems, SequenceTheorems, WellFoundedInduction, TLAPS

-----------------------------------------------------------------------------
(* Finite sets and sums over them.                                         *)

\* Induction over the subsets of a finite set, by a smallest counterexample.
LEMMA SmallerFirst ==
  ASSUME NEW S, IsFiniteSet(S), NEW Holding,
         \A T \in SUBSET S : (\A U \in SUBSET T : U # T => U \in Holding) => T \in Holding
  PROVE  SUBSET S \subseteq Holding
<1> SUFFICES ASSUME ~(SUBSET S \subseteq Holding)
             PROVE  FALSE
  OBVIOUS
<1>1. PICK Failing : Failing = (SUBSET S) \ Holding
  OBVIOUS
<1>2. Failing \subseteq FiniteSubsetsOf(S) /\ Failing # {}
  BY <1>1, FS_FiniteSubsetsOfFinite
<1>3. IsWellFoundedOn(StrictSubsetOrdering(S), FiniteSubsetsOf(S))
  BY FS_StrictSubsetOrderingWellFounded
<1>4. PICK T \in Failing : \A U \in Failing : ~(<<U, T>> \in StrictSubsetOrdering(S))
  BY <1>2, <1>3, WFMin
<1>5. T \in SUBSET S /\ T \notin Holding
  BY <1>1
<1>6. PICK U \in SUBSET T : U # T /\ U \notin Holding
  BY <1>5
<1>7. U \in Failing /\ <<U, T>> \in StrictSubsetOrdering(S)
  BY <1>1, <1>5, <1>6 DEF StrictSubsetOrdering
<1> QED
  BY <1>4, <1>7

LEMMA OneByOne ==
  ASSUME NEW S, IsFiniteSet(S), NEW Holding, {} \in Holding,
         \A T \in SUBSET S : \A x \in S \ T : T \in Holding => T \cup {x} \in Holding
  PROVE  S \in Holding
<1>1. ASSUME NEW T \in SUBSET S, \A U \in SUBSET T : U # T => U \in Holding
      PROVE  T \in Holding
  <2>1. CASE T # {}
    <3>1. PICK x \in T : TRUE
      BY <2>1
    <3>2. T \ {x} \in Holding
      BY <1>1, <3>1
    <3>3. T \ {x} \in SUBSET S /\ x \in S \ (T \ {x}) /\ (T \ {x}) \cup {x} = T
      BY <3>1
    <3>4. (T \ {x}) \cup {x} \in Holding
      BY <3>2, <3>3
    <3> QED
      BY <3>3, <3>4
  <2> QED
    BY <2>1
<1>2. SUBSET S \subseteq Holding
  BY <1>1, SmallerFirst
<1> QED
  BY <1>2

\* A fold: `step' takes the element that `first' takes of a set, and what the
\* fold makes of the rest of it.
OneStep(base, step, first, g, s) ==
  IF s = {} THEN base ELSE step[<<first[s], g[s \ {first[s]}]>>]

IsFold(base, step, first, g, S) ==
  g = [s \in SUBSET S |-> OneStep(base, step, first, g, s)]

LEMMA FoldExists ==
  ASSUME NEW S, IsFiniteSet(S), NEW V, NEW base \in V, NEW step \in [S \X V -> V],
         NEW first, \A T \in SUBSET S : T # {} => first[T] \in T
  PROVE  \E g \in [SUBSET S -> V] : IsFold(base, step, first, g, S)
<1> DEFINE FoldsTo(g, n) == \A s \in SUBSET S :
                           Cardinality(s) <= n => g[s] = OneStep(base, step, first, g, s)
           Holding == {T \in SUBSET S : \E g \in [SUBSET S -> V] : FoldsTo(g, Cardinality(T))}
<1>1. \A T \in SUBSET S : IsFiniteSet(T) /\ Cardinality(T) \in Nat
  BY FS_Subset, FS_CardinalityType
<1>2. {} \in Holding
  <2>1. PICK g : g = [s \in SUBSET S |-> base]
    OBVIOUS
  <2>2. \A s \in SUBSET S : Cardinality(s) <= 0 => s = {}
    BY <1>1, FS_EmptySet
  <2>3. FoldsTo(g, Cardinality({})) /\ g \in [SUBSET S -> V]
    BY <2>1, <2>2, FS_EmptySet DEF OneStep
  <2> QED
    BY <2>3
<1>3. \A g \in [SUBSET S -> V] : \A s \in SUBSET S : OneStep(base, step, first, g, s) \in V
  <2> SUFFICES ASSUME NEW g \in [SUBSET S -> V], NEW s \in SUBSET S
               PROVE  OneStep(base, step, first, g, s) \in V
    OBVIOUS
  <2>1. CASE s # {}
    <3>1. first[s] \in S /\ g[s \ {first[s]}] \in V
      BY <2>1
    <3> QED
      BY <2>1, <3>1 DEF OneStep
  <2> QED
    BY <2>1 DEF OneStep
<1>4. ASSUME NEW T \in SUBSET S, NEW x \in S \ T, T \in Holding
      PROVE  T \cup {x} \in Holding
  <2>1. PICK n : n = Cardinality(T)
    OBVIOUS
  <2>2. n \in Nat /\ Cardinality(T \cup {x}) = n + 1 /\ T \cup {x} \in SUBSET S
    BY <1>1, <2>1, FS_AddElement
  <2>3. PICK g \in [SUBSET S -> V] : FoldsTo(g, n)
    BY <1>4, <2>1
  <2>4. PICK h : h = [s \in SUBSET S |-> OneStep(base, step, first, g, s)]
    OBVIOUS
  <2>5. h \in [SUBSET S -> V]
    BY <1>3, <2>4
  <2>6. ASSUME NEW s \in SUBSET S, Cardinality(s) <= n + 1
        PROVE  h[s] = OneStep(base, step, first, h, s)
    <3>1. CASE s # {}
      <4>1. PICK u : u = s \ {first[s]}
        OBVIOUS
      <4>2. first[s] \in s
        BY <3>1
      <4>3. u \in SUBSET S /\ Cardinality(u) <= n
        BY <1>1, <2>2, <2>6, <4>1, <4>2, FS_RemoveElement
      <4>4. h[u] = OneStep(base, step, first, g, u) /\ g[u] = OneStep(base, step, first, g, u)
        BY <2>3, <2>4, <4>3
      <4>5. h[s] = step[<<first[s], g[u]>>]
        BY <2>4, <3>1, <4>1 DEF OneStep
      <4>6. OneStep(base, step, first, h, s) = step[<<first[s], h[u]>>]
        BY <3>1, <4>1 DEF OneStep
      <4> QED
        BY <4>4, <4>5, <4>6
    <3>2. CASE s = {}
      BY <2>4, <3>2 DEF OneStep
    <3> QED
      BY <3>1, <3>2
  <2>7. FoldsTo(h, Cardinality(T \cup {x}))
    BY <2>2, <2>6
  <2> QED
    BY <2>2, <2>5, <2>7
<1>5. S \in Holding
  <2> HIDE DEF Holding
  <2> QED
    BY <1>2, <1>4, OneByOne
<1>6. PICK g \in [SUBSET S -> V] : FoldsTo(g, Cardinality(S))
  BY <1>5
<1>7. \A s \in SUBSET S : g[s] = OneStep(base, step, first, g, s)
  BY <1>1, <1>6, FS_Subset
<1>8. g = [s \in SUBSET S |-> OneStep(base, step, first, g, s)]
  BY <1>7
<1> QED
  BY <1>8 DEF IsFold

\* The element that a sum or a product over a set takes first.
Taken(s) == CHOOSE x \in s : TRUE

LEMMA TakenIsMember ==
  ASSUME NEW s, s # {} PROVE Taken(s) \in s
BY DEF Taken

Summed(f, S) == MapThenSumSet(LAMBDA x : f[x], S)

SumStep(f, g, s) == IF s = {} THEN 0 ELSE f[Taken(s)] + g[s \ {Taken(s)}]

SumFold(f, g, S) == g = [s \in SUBSET S |-> SumStep(f, g, s)]

Sums(f, g, S) ==
  /\ g \in [SUBSET S -> Int] /\ SumFold(f, g, S)
  /\ \A T \in SUBSET S : Summed(f, T) = g[T]

LEMMA SumFoldExists ==
  ASSUME NEW S, IsFiniteSet(S), NEW f, \A x \in S : f[x] \in Int
  PROVE  \E g \in [SUBSET S -> Int] : SumFold(f, g, S)
<1>1. PICK step : step = [p \in S \X Int |-> f[p[1]] + p[2]]
  OBVIOUS
<1>2. step \in [S \X Int -> Int]
  BY <1>1
<1>3. PICK first : first = [s \in SUBSET S |-> Taken(s)]
  OBVIOUS
<1>4. \A T \in SUBSET S : T # {} => first[T] \in T
  BY <1>3, TakenIsMember
<1>5. PICK g \in [SUBSET S -> Int] : IsFold(0, step, first, g, S)
  BY <1>2, <1>4, FoldExists, 0 \in Int
<1>6. ASSUME NEW s \in SUBSET S PROVE OneStep(0, step, first, g, s) = SumStep(f, g, s)
  <2>1. CASE s # {}
    <3>1. first[s] = Taken(s) /\ first[s] \in S /\ s \ {first[s]} \in SUBSET S
      BY <1>3, <1>4, <2>1
    <3>2. g[s \ {first[s]}] \in Int
      BY <3>1
    <3>3. step[<<first[s], g[s \ {first[s]}]>>] = f[first[s]] + g[s \ {first[s]}]
      BY <1>1, <3>1, <3>2
    <3> QED
      BY <2>1, <3>1, <3>3 DEF OneStep, SumStep
  <2> QED
    BY <2>1 DEF OneStep, SumStep
<1>7. g = [s \in SUBSET S |-> SumStep(f, g, s)]
  BY <1>5, <1>6 DEF IsFold
<1> QED
  BY <1>7 DEF SumFold

LEMMA SumFoldsAgree ==
  ASSUME NEW S, NEW T \in SUBSET S, IsFiniteSet(T), NEW f,
         NEW g, SumFold(f, g, S), NEW h, SumFold(f, h, T)
  PROVE  \A U \in SUBSET T : h[U] = g[U]
<1>1. PICK Holding : Holding = {U \in SUBSET T : h[U] = g[U]}
  OBVIOUS
<1>2. ASSUME NEW U \in SUBSET T, \A W \in SUBSET U : W # U => W \in Holding
      PROVE  U \in Holding
  <2>1. h[U] = SumStep(f, h, U) /\ g[U] = SumStep(f, g, U)
    BY DEF SumFold
  <2>2. CASE U # {}
    <3>1. U \ {Taken(U)} \in Holding
      BY <1>2, <2>2, TakenIsMember
    <3> QED
      BY <1>1, <2>1, <2>2, <3>1 DEF SumStep
  <2>3. CASE U = {}
    BY <1>1, <2>1, <2>3 DEF SumStep
  <2> QED
    BY <2>2, <2>3
<1>3. SUBSET T \subseteq Holding
  BY <1>2, SmallerFirst
<1> QED
  BY <1>1, <1>3

\* What MapThenSumSet computes, and that it does not depend on the whole set.
LEMMA SumIsFold ==
  ASSUME NEW S, IsFiniteSet(S), NEW f, \A x \in S : f[x] \in Int
  PROVE  \E g : Sums(f, g, S)
<1>1. PICK g \in [SUBSET S -> Int] : SumFold(f, g, S)
  BY SumFoldExists
<1>2. ASSUME NEW T \in SUBSET S
      PROVE  Summed(f, T) = g[T]
  <2>1. IsFiniteSet(T)
    BY FS_Subset
  <2>2. PICK h : h = CHOOSE k : SumFold(f, k, T)
    OBVIOUS
  <2>3. \E k : SumFold(f, k, T)
    BY <2>1, SumFoldExists
  <2>4. SumFold(f, h, T)
    BY <2>2, <2>3
  <2>5. Summed(f, T) = h[T]
    <3>1. Summed(f, T) = (CHOOSE k : SumFold(f, k, T))[T]
      BY DEF Summed, MapThenSumSet, MapThenFoldSet, SumFold, SumStep, Taken
    <3> QED
      BY <2>2, <3>1
  <2>6. \A U \in SUBSET T : h[U] = g[U]
    BY <1>1, <2>1, <2>4, SumFoldsAgree
  <2>7. T \in SUBSET T
    OBVIOUS
  <2> QED
    BY <2>5, <2>6, <2>7
<1> QED
  BY <1>1, <1>2 DEF Sums

\* The sum is a number; nothing sums to 0; any member may be taken first.
LEMMA SumTakesAny ==
  ASSUME NEW f, NEW S, IsFiniteSet(S), \A x \in S : f[x] \in Int
  PROVE  /\ Summed(f, {}) = 0
         /\ Summed(f, S) \in Int
         /\ \A x \in S : Summed(f, S) = f[x] + Summed(f, S \ {x})
<1>1. PICK g : Sums(f, g, S)
  BY SumIsFold
<1>2. \A T \in SUBSET S : /\ g[T] = SumStep(f, g, T) /\ g[T] \in Int
                            /\ Summed(f, T) = g[T]
  BY <1>1 DEF SumFold, Sums
<1>3. PICK Holding : Holding = {T \in SUBSET S : \A x \in T : g[T] = f[x] + g[T \ {x}]}
  OBVIOUS
<1>4. ASSUME NEW T \in SUBSET S, \A U \in SUBSET T : U # T => U \in Holding
      PROVE  T \in Holding
  <2>1. CASE T = {}
    BY <1>3, <2>1
  <2>2. CASE T # {}
    <3>1. PICK y \in T : g[T] = f[y] + g[T \ {y}]
      BY <1>2, <2>2, TakenIsMember DEF SumStep
    <3>2. g[T \ {y}] \in Int /\ f[y] \in Int
      BY <1>2, <3>1
    <3>3. ASSUME NEW x \in T, x # y
          PROVE  g[T] = f[x] + g[T \ {x}]
      <4>1. PICK rest : rest = (T \ {x}) \ {y}
        OBVIOUS
      <4>2. rest = (T \ {y}) \ {x}
        BY <4>1
      <4>3. /\ T \ {x} \in Holding /\ T \ {y} \in Holding /\ rest \in Holding
            /\ x \in T \ {y} /\ y \in T \ {x}
        BY <1>4, <3>1, <3>3, <4>1
      <4>4. g[T \ {y}] = f[x] + g[rest] /\ g[T \ {x}] = f[y] + g[rest]
        BY <1>3, <4>1, <4>2, <4>3
      <4>5. rest \in SUBSET S
        BY <4>1
      <4>6. g[rest] \in Int /\ f[x] \in Int
        BY <1>2, <4>5
      <4> QED
        BY <3>1, <3>2, <4>4, <4>6
    <3>4. \A x \in T : g[T] = f[x] + g[T \ {x}]
      BY <3>1, <3>3
    <3> QED
      BY <1>3, <3>4
  <2> QED
    BY <2>1, <2>2
<1>5. SUBSET S \subseteq Holding
  BY <1>4, SmallerFirst
<1>6. S \in Holding /\ {} \in SUBSET S /\ \A x \in S : S \ {x} \in SUBSET S
  BY <1>5
<1>7. g[{}] = 0
  BY <1>2 DEF SumStep
<1> QED
  BY <1>2, <1>3, <1>6, <1>7

LEMMA SumAdds ==
  ASSUME NEW f, NEW S, IsFiniteSet(S), NEW x, x \notin S,
         \A y \in S \cup {x} : f[y] \in Int
  PROVE  Summed(f, S \cup {x}) = Summed(f, S) + f[x] /\ Summed(f, S) \in Int
<1>1. IsFiniteSet(S \cup {x}) /\ (S \cup {x}) \ {x} = S
  BY FS_AddElement
<1>2. Summed(f, S \cup {x}) = f[x] + Summed(f, S)
  BY <1>1, SumTakesAny
<1>3. Summed(f, S) \in Int /\ f[x] \in Int
  BY SumTakesAny
<1> QED
  BY <1>2, <1>3

LEMMA SumJoins ==
  ASSUME NEW f, NEW A, NEW B, IsFiniteSet(A), IsFiniteSet(B), A \cap B = {},
         \A x \in A \cup B : f[x] \in Int
  PROVE  Summed(f, A \cup B) = Summed(f, A) + Summed(f, B)
<1>1. PICK Holding :
        Holding = {T \in SUBSET B : Summed(f, A \cup T) = Summed(f, A) + Summed(f, T)}
  OBVIOUS
<1>2. Summed(f, {}) = 0 /\ Summed(f, A) \in Int
  BY SumTakesAny
<1>3. {} \in Holding
  <2>1. A \cup {} = A /\ {} \in SUBSET B
    OBVIOUS
  <2>2. Summed(f, A \cup {}) = Summed(f, A) + Summed(f, {})
    BY <1>2, <2>1
  <2> QED
    BY <1>1, <2>1, <2>2
<1>4. ASSUME NEW T \in SUBSET B, NEW x \in B \ T, T \in Holding
      PROVE  T \cup {x} \in Holding
  <2>1. IsFiniteSet(T) /\ IsFiniteSet(A \cup T)
    BY FS_Subset, FS_Union
  <2>2. PICK AT : AT = A \cup T
    OBVIOUS
  <2>3. A \cup (T \cup {x}) = AT \cup {x} /\ x \notin AT /\ IsFiniteSet(AT)
    BY <2>1, <2>2
  <2>4. /\ Summed(f, T \cup {x}) = Summed(f, T) + f[x]
        /\ Summed(f, AT \cup {x}) = Summed(f, AT) + f[x]
        /\ Summed(f, T) \in Int /\ f[x] \in Int
    BY <2>1, <2>2, <2>3, SumAdds
  <2>5. Summed(f, AT) = Summed(f, A) + Summed(f, T)
    BY <1>1, <1>4, <2>2
  <2>6. Summed(f, A \cup (T \cup {x})) = Summed(f, AT \cup {x})
    BY <2>3, Zenon
  <2>7. Summed(f, A \cup (T \cup {x})) = Summed(f, A) + Summed(f, T \cup {x})
    BY <1>2, <2>4, <2>5, <2>6
  <2> QED
    BY <1>1, <2>7
<1>5. B \in Holding
  BY <1>3, <1>4, OneByOne
<1> QED
  BY <1>1, <1>5

\* A sum of naturals is one, and no less than any of them.
LEMMA SumOfNaturals ==
  ASSUME NEW f, NEW S, IsFiniteSet(S), \A x \in S : f[x] \in Nat
  PROVE  Summed(f, S) \in Nat /\ \A x \in S : f[x] <= Summed(f, S)
<1>1. PICK Holding : Holding = {T \in SUBSET S : Summed(f, T) \in Nat}
  OBVIOUS
<1>2. {} \in Holding
  BY <1>1, SumTakesAny, FS_EmptySet
<1>3. ASSUME NEW T \in SUBSET S, NEW x \in S \ T, T \in Holding
      PROVE  T \cup {x} \in Holding
  <2>1. IsFiniteSet(T)
    BY FS_Subset
  <2>2. Summed(f, T \cup {x}) = Summed(f, T) + f[x]
    BY <2>1, SumAdds
  <2> QED
    BY <1>1, <1>3, <2>2
<1>4. \A T \in SUBSET S : Summed(f, T) \in Nat
  <2> SUFFICES ASSUME NEW T \in SUBSET S PROVE Summed(f, T) \in Nat
    OBVIOUS
  <2>1. IsFiniteSet(T)
    BY FS_Subset
  <2>2. {} \in SUBSET T
    OBVIOUS
  <2>3. PICK Within : Within = Holding \cap SUBSET T
    OBVIOUS
  <2>4. {} \in Within /\ \A U \in SUBSET T : \A x \in T \ U : U \in Within => U \cup {x} \in Within
    BY <1>2, <1>3, <2>3
  <2>5. T \in Within
    BY <2>1, <2>4, OneByOne
  <2> QED
    BY <1>1, <2>3, <2>5
<1>5. ASSUME NEW x \in S PROVE f[x] <= Summed(f, S)
  <2>1. Summed(f, S) = f[x] + Summed(f, S \ {x})
    BY SumTakesAny
  <2>2. Summed(f, S \ {x}) \in Nat
    BY <1>4
  <2> QED
    BY <2>1, <2>2
<1> QED
  BY <1>4, <1>5

\* Whatever satisfies the recursion is the sum.
LEMMA RecursionIsSum ==
  ASSUME NEW f, NEW S, IsFiniteSet(S), \A x \in S : f[x] \in Int,
         NEW h, SumFold(f, h, S)
  PROVE  h[S] = Summed(f, S)
<1>1. PICK g : Sums(f, g, S)
  BY SumIsFold
<1>2. S \in SUBSET S /\ SumFold(f, g, S)
  BY <1>1 DEF Sums
<1>3. \A U \in SUBSET S : h[U] = g[U]
  BY <1>2, SumFoldsAgree
<1> QED
  BY <1>1, <1>2, <1>3 DEF Sums

LEMMA SumAgrees ==
  ASSUME NEW S, IsFiniteSet(S), NEW f, NEW g, \A x \in S : f[x] = g[x] /\ f[x] \in Int
  PROVE  Summed(f, S) = Summed(g, S)
<1>1. PICK h : SumFold(f, h, S)
  BY SumFoldExists
<1>2. \A s \in SUBSET S : SumStep(f, h, s) = SumStep(g, h, s)
  <2>1. ASSUME NEW s \in SUBSET S, s # {} PROVE f[Taken(s)] = g[Taken(s)]
    BY <2>1, TakenIsMember
  <2> QED
    BY <2>1 DEF SumStep
<1>3. SumFold(g, h, S)
  BY <1>1, <1>2 DEF SumFold
<1>4. h[S] = Summed(f, S)
  BY <1>1, RecursionIsSum
<1>5. \A x \in S : g[x] \in Int
  OBVIOUS
<1>6. h[S] = Summed(g, S)
  BY <1>3, <1>5, RecursionIsSum
<1> QED
  BY <1>4, <1>6

-----------------------------------------------------------------------------
(* Numbers.                                                                *)

LEMMA StrictProduct ==
  ASSUME NEW a \in Nat, NEW c \in Nat, a < c, NEW b \in Nat
  PROVE  /\ a * b \in Nat /\ c * b \in Nat /\ a * b <= c * b
         /\ b > 0 => a * b < c * b
<1>1. PICK k \in Nat : c = a + 1 + k
  <2>1. c - a - 1 \in Nat /\ c = a + 1 + (c - a - 1)
    OBVIOUS
  <2> QED
    BY <2>1
<1>2. c * b = a * b + b + k * b /\ k * b \in Nat /\ a * b \in Nat /\ c * b \in Nat
  BY <1>1, SMTT(30)
<1> QED
  BY <1>2

\* A number by its quotient and its remainder.
LEMMA QuotientIs ==
  ASSUME NEW n \in Nat, NEW d \in Nat \ {0}
  PROVE  n \div d \in Nat /\ n % d \in 0..(d - 1) /\ n = d * (n \div d) + (n % d)
OBVIOUS

\* A finite set of numbers has a greatest and a least.
LEMMA Extremes ==
  ASSUME NEW S, IsFiniteSet(S), S \subseteq Int, S # {}
  PROVE  /\ Max(S) \in S /\ \A y \in S : Max(S) >= y
         /\ Min(S) \in S /\ \A y \in S : Min(S) <= y
<1> DEFINE Holding == {T \in SUBSET S : T = {} \/
                         /\ \E x \in T : \A y \in T : x >= y
                         /\ \E x \in T : \A y \in T : x <= y}
<1>1. {} \in Holding
  OBVIOUS
<1>2. ASSUME NEW T \in SUBSET S, NEW z \in S \ T, T \in Holding
      PROVE  T \cup {z} \in Holding
  <2>1. CASE T = {}
    <3>1. \A y \in T \cup {z} : y = z
      BY <2>1
    <3> QED
      BY <3>1
  <2>2. CASE T # {}
    <3>1. PICK x \in T : \A y \in T : x >= y
      BY <1>2, <2>2
    <3>2. PICK w \in T : \A y \in T : w <= y
      BY <1>2, <2>2
    <3>3. \E u \in T \cup {z} : \A y \in T \cup {z} : u >= y
      <4>1. CASE x >= z
        BY <3>1, <4>1
      <4>2. CASE z >= x
        <5>1. \A y \in T \cup {z} : z >= y
          BY <3>1, <4>2
        <5> QED
          BY <5>1
      <4> QED
        BY <4>1, <4>2
    <3>4. \E u \in T \cup {z} : \A y \in T \cup {z} : u <= y
      <4>1. CASE w <= z
        BY <3>2, <4>1
      <4>2. CASE z <= w
        <5>1. \A y \in T \cup {z} : z <= y
          BY <3>2, <4>2
        <5> QED
          BY <5>1
      <4> QED
        BY <4>1, <4>2
    <3> QED
      BY <1>2, <3>3, <3>4
  <2> QED
    BY <2>1, <2>2
<1>3. S \in Holding
  <2> HIDE DEF Holding
  <2> QED
    BY <1>1, <1>2, OneByOne
<1>4. \E x \in S : \A y \in S : x >= y
  BY <1>3
<1>5. \E x \in S : \A y \in S : x <= y
  BY <1>3
<1> QED
  BY <1>4, <1>5 DEF Max, Min

LEMMA LesserIs ==
  ASSUME NEW a \in Int, NEW b \in Int
  PROVE  Min({a, b}) \in {a, b} /\ Min({a, b}) <= a /\ Min({a, b}) <= b
<1>1. PICK S : S = {a, b}
  OBVIOUS
<1>2. IsFiniteSet(S) /\ S \subseteq Int /\ S # {}
  <2>1. IsFiniteSet({a})
    BY FS_Singleton
  <2>2. IsFiniteSet({a} \cup {b})
    BY <2>1, FS_AddElement
  <2>3. S = {a} \cup {b}
    BY <1>1
  <2> QED
    BY <1>1, <2>2, <2>3
<1>3. Min(S) \in S /\ \A y \in S : Min(S) <= y
  BY <1>2, Extremes
<1> QED
  BY <1>1, <1>3

LEMMA GreaterIs ==
  ASSUME NEW a \in Int, NEW b \in Int
  PROVE  Max({a, b}) \in {a, b} /\ Max({a, b}) >= a /\ Max({a, b}) >= b
<1>1. PICK S : S = {a, b}
  OBVIOUS
<1>2. IsFiniteSet(S) /\ S \subseteq Int /\ S # {}
  <2>1. IsFiniteSet({a})
    BY FS_Singleton
  <2>2. IsFiniteSet({a} \cup {b})
    BY <2>1, FS_AddElement
  <2>3. S = {a} \cup {b}
    BY <1>1
  <2> QED
    BY <1>1, <2>2, <2>3
<1>3. Max(S) \in S /\ \A y \in S : Max(S) >= y
  BY <1>2, Extremes
<1> QED
  BY <1>1, <1>3

-----------------------------------------------------------------------------
(* Selection: ranks, what a mask keeps, and the stable sort.               *)

LEMMA SameSize ==
  ASSUME NEW A, NEW B, IsFiniteSet(A), NEW f \in [A -> B],
         \A x, y \in A : f[x] = f[y] => x = y, \A z \in B : \E x \in A : f[x] = z
  PROVE  IsFiniteSet(B) /\ Cardinality(B) = Cardinality(A)
<1>1. f \in Surjection(A, B)
  BY DEF Surjection
<1>2. f \in Injection(A, B)
  BY DEF Injection, IsInjective
<1> QED
  BY <1>1, <1>2, FS_Surjection

LEMMA UpTo ==
  ASSUME NEW n \in Nat
  PROVE  IsFiniteSet(1..n) /\ Cardinality(1..n) = n
<1>1. 1 \in Int /\ n \in Int
  OBVIOUS
<1>2. IsFiniteSet(1..n) /\ Cardinality(1..n) = IF 1 > n THEN 0 ELSE n - 1 + 1
  BY <1>1, FS_Interval
<1> QED
  BY <1>2

\* Counting what comes before, in a total order, numbers the members.
Earlier(x, Before, S) == {y \in S : <<y, x>> \in Before}

TotallyOrders(Before, S) ==
  /\ \A x \in S : <<x, x>> \notin Before
  /\ \A x, y \in S : x # y => <<x, y>> \in Before \/ <<y, x>> \in Before
  /\ \A x, y, z \in S :
       <<x, y>> \in Before /\ <<y, z>> \in Before => <<x, z>> \in Before

CountsEarlier(f, Before, S) ==
  f \in [S -> Int] /\ \A x \in S : f[x] = Cardinality(Earlier(x, Before, S))

NumbersInOrder(f, Before, S) ==
  /\ \A x \in S : f[x] \in 0..(Cardinality(S) - 1)
  /\ \A x, y \in S : <<x, y>> \in Before <=> f[x] < f[y]
  /\ \A x, y \in S : f[x] = f[y] => x = y
  /\ \A k \in 0..(Cardinality(S) - 1) : \E x \in S : f[x] = k

LEMMA Numbering ==
  ASSUME NEW S, IsFiniteSet(S), NEW Before, TotallyOrders(Before, S),
         NEW f, CountsEarlier(f, Before, S)
  PROVE  NumbersInOrder(f, Before, S)
<1>1. PICK c \in Nat : c = Cardinality(S)
  BY FS_CardinalityType
<1>2. /\ \A x \in S : <<x, x>> \notin Before
      /\ \A x, y \in S : x # y => <<x, y>> \in Before \/ <<y, x>> \in Before
      /\ \A x, y, z \in S :
           <<x, y>> \in Before /\ <<y, z>> \in Before => <<x, z>> \in Before
      /\ f \in [S -> Int] /\ \A x \in S : f[x] = Cardinality(Earlier(x, Before, S))
  BY DEF TotallyOrders, CountsEarlier
<1>3. ASSUME NEW x \in S
      PROVE  f[x] \in 0..(c - 1)
  <2>1. PICK A \in SUBSET S : A = Earlier(x, Before, S)
    BY DEF Earlier
  <2>2. IsFiniteSet(A) /\ Cardinality(A) \in Nat /\ Cardinality(A) <= c
        /\ (Cardinality(A) = c => A = S)
    <3>1. IsFiniteSet(A) /\ Cardinality(A) \in Nat /\ Cardinality(A) <= Cardinality(S)
          /\ (Cardinality(A) = Cardinality(S) => A = S)
      BY FS_Subset, FS_CardinalityType
    <3> QED
      BY <1>1, <3>1
  <2>3. A # S
    BY <1>2, <2>1 DEF Earlier
  <2>4. Cardinality(A) # c
    BY <2>2, <2>3
  <2>5. f[x] = Cardinality(A)
    BY <1>2, <2>1
  <2> QED
    BY <2>2, <2>4, <2>5
<1>4. ASSUME NEW x \in S, NEW y \in S, <<x, y>> \in Before
      PROVE  f[x] < f[y]
  <2>1. PICK B \in SUBSET S : B = Earlier(y, Before, S)
    BY DEF Earlier
  <2>2. PICK A \in SUBSET B : A = Earlier(x, Before, S)
    <3>1. Earlier(x, Before, S) \in SUBSET B
      BY <1>2, <1>4, <2>1 DEF Earlier
    <3> QED
      BY <3>1
  <2>3. x \in B /\ x \notin A
    BY <1>2, <1>4, <2>1, <2>2 DEF Earlier
  <2>4. IsFiniteSet(B)
    BY FS_Subset
  <2>5. Cardinality(A) <= Cardinality(B) /\ (Cardinality(A) = Cardinality(B) => A = B)
    BY <2>4, FS_Subset
  <2>6. Cardinality(A) # Cardinality(B)
    BY <2>3, <2>5
  <2>7. f[x] = Cardinality(A) /\ f[y] = Cardinality(B) /\ f[x] \in Int /\ f[y] \in Int
    BY <1>2, <2>1, <2>2
  <2>8. PICK u \in Int, v \in Int : u = Cardinality(A) /\ v = Cardinality(B)
    BY <2>7
  <2> QED
    BY <2>5, <2>6, <2>7, <2>8
<1>5. \A x, y \in S : <<x, y>> \in Before <=> f[x] < f[y]
  <2>1. ASSUME NEW x \in S, NEW y \in S, f[x] < f[y], <<x, y>> \notin Before PROVE FALSE
    <3>1. f[x] \in Int /\ f[y] \in Int
      BY <1>2
    <3>2. x # y
      BY <2>1, <3>1
    <3>3. f[y] < f[x]
      BY <1>2, <1>4, <2>1, <3>2
    <3> QED
      BY <2>1, <3>1, <3>3
  <2> QED
    BY <1>2, <1>4, <2>1
<1>6. \A x, y \in S : f[x] = f[y] => x = y
  <2>1. ASSUME NEW x \in S, NEW y \in S, f[x] = f[y], x # y PROVE FALSE
    <3>1. f[x] \in Int /\ f[y] \in Int
      BY <1>2
    <3>2. f[x] < f[y] \/ f[y] < f[x]
      BY <1>2, <1>4, <2>1
    <3> QED
      BY <2>1, <3>1, <3>2
  <2> QED
    BY <2>1
<1>7. \A k \in 0..(c - 1) : \E x \in S : f[x] = k
  <2>1. PICK I : I = 0..(c - 1)
    OBVIOUS
  <2>2. f \in Injection(S, I)
    BY <1>2, <1>3, <1>6, <2>1 DEF Injection, IsInjective
  <2>3. IsFiniteSet(I) /\ Cardinality(I) = c
    <3>1. 0 \in Int /\ c - 1 \in Int
      OBVIOUS
    <3>2. IsFiniteSet(0..(c - 1))
          /\ Cardinality(0..(c - 1)) = IF 0 > c - 1 THEN 0 ELSE (c - 1) - 0 + 1
      BY <3>1, FS_Interval
    <3> QED
      BY <2>1, <3>2
  <2>4. f \in Surjection(S, I)
    <3>1. IsFiniteSet(I) /\ Cardinality(S) = Cardinality(I)
      BY <1>1, <2>3
    <3> QED
      BY <2>2, <3>1, FS_Injection
  <2> QED
    BY <2>1, <2>4 DEF Surjection
<1> QED
  BY <1>1, <1>3, <1>5, <1>6, <1>7 DEF NumbersInOrder

\* An increasing enumeration of a set of numbers; there is one only, and its
\* members are the ones that the ranks name.
Enumerates(e, c, S) ==
  /\ e \in [1..c -> S]
  /\ \A j, k \in 1..c : j < k => e[j] < e[k]
  /\ \A n \in S : \E k \in 1..c : e[k] = n

LEMMA RanksAre ==
  ASSUME NEW S, IsFiniteSet(S), S \subseteq Int, NEW c \in Nat, c = Cardinality(S)
  PROVE  /\ \A x \in S : Rank(x, S) \in 0..(c - 1)
         /\ \A x, y \in S : x < y <=> Rank(x, S) < Rank(y, S)
         /\ \A x, y \in S : Rank(x, S) = Rank(y, S) => x = y
         /\ \A k \in 0..(c - 1) : \E x \in S : Rank(x, S) = k
<1>1. PICK f : f = [x \in S |-> Rank(x, S)]
  OBVIOUS
<1>2. PICK Before : Before = {p \in S \X S : p[1] < p[2]}
  OBVIOUS
<1>3. \A x, y \in S : <<x, y>> \in Before <=> x < y
  BY <1>2
<1>4. ASSUME NEW x \in S
      PROVE  f[x] \in Int /\ f[x] = Cardinality(Earlier(x, Before, S))
  <2>1. PICK A \in SUBSET S : A = Earlier(x, Before, S)
    BY DEF Earlier
  <2>2. A = {y \in S : y < x}
    BY <1>3, <2>1 DEF Earlier
  <2>3. f[x] = Cardinality(A)
    BY <1>1, <2>2 DEF Rank
  <2>4. Cardinality(A) \in Nat
    BY FS_Subset, FS_CardinalityType
  <2> QED
    BY <2>1, <2>3, <2>4
<1>5. CountsEarlier(f, Before, S)
  BY <1>1, <1>4 DEF CountsEarlier
<1>6. TotallyOrders(Before, S)
  BY <1>3 DEF TotallyOrders
<1>7. /\ \A x \in S : f[x] \in 0..(c - 1)
      /\ \A x, y \in S : <<x, y>> \in Before <=> f[x] < f[y]
      /\ \A x, y \in S : f[x] = f[y] => x = y
      /\ \A k \in 0..(c - 1) : \E x \in S : f[x] = k
  <2>1. NumbersInOrder(f, Before, S)
    BY <1>5, <1>6, Numbering
  <2> QED
    BY <2>1 DEF NumbersInOrder
<1> QED
  BY <1>1, <1>3, <1>7

LEMMA NthIs ==
  ASSUME NEW S, IsFiniteSet(S), S \subseteq Int, NEW c \in Nat, c = Cardinality(S)
  PROVE  /\ \A k \in 1..c : Nth(k, S) \in S /\ Rank(Nth(k, S), S) = k - 1
         /\ Enumerates([k \in 1..c |-> Nth(k, S)], c, S)
<1>1. \A k \in 1..c : Nth(k, S) \in S /\ Rank(Nth(k, S), S) = k - 1
  <2>1. ASSUME NEW k \in 1..c PROVE \E n \in S : Rank(n, S) = k - 1
    <3>1. k - 1 \in 0..(c - 1)
      OBVIOUS
    <3> QED
      BY <3>1, RanksAre
  <2> QED
    BY <2>1 DEF Nth
<1>2. ASSUME NEW j \in 1..c, NEW k \in 1..c, j < k PROVE Nth(j, S) < Nth(k, S)
  <2>1. Rank(Nth(j, S), S) < Rank(Nth(k, S), S)
    BY <1>1, <1>2
  <2> QED
    BY <1>1, <2>1, RanksAre
<1>3. ASSUME NEW n \in S PROVE \E k \in 1..c : Nth(k, S) = n
  <2>1. PICK r \in 0..(c - 1) : r = Rank(n, S)
    BY RanksAre
  <2>2. r + 1 \in 1..c /\ (r + 1) - 1 = r
    OBVIOUS
  <2>3. Rank(Nth(r + 1, S), S) = r /\ Nth(r + 1, S) \in S
    BY <1>1, <2>2
  <2>4. Nth(r + 1, S) = n
    BY <2>1, <2>3, RanksAre
  <2> QED
    BY <2>2, <2>4
<1>4. PICK e : e = [k \in 1..c |-> Nth(k, S)]
  OBVIOUS
<1>5. Enumerates(e, c, S)
  BY <1>1, <1>2, <1>3, <1>4 DEF Enumerates
<1> QED
  BY <1>1, <1>4, <1>5

LEMMA EnumeratedOnce ==
  ASSUME NEW S, S \subseteq Int, NEW c \in Nat, NEW e, Enumerates(e, c, S)
  PROVE  /\ IsFiniteSet(S) /\ Cardinality(S) = c
         /\ \A k \in 1..c : e[k] = Nth(k, S) /\ e[k] \in S /\ Rank(e[k], S) = k - 1
         /\ \A j, k \in 1..c : e[j] = e[k] => j = k
<1>1. e \in [1..c -> S] /\ (\A j, k \in 1..c : j < k => e[j] < e[k])
      /\ \A n \in S : \E k \in 1..c : e[k] = n
  BY DEF Enumerates
<1>2. \A j, k \in 1..c : e[j] = e[k] => j = k
  <2>1. ASSUME NEW j \in 1..c, NEW k \in 1..c, e[j] = e[k], j # k PROVE FALSE
    <3>1. e[j] \in Int /\ e[k] \in Int
      BY <1>1
    <3>2. e[j] < e[k] \/ e[k] < e[j]
      BY <1>1, <2>1
    <3> QED
      BY <2>1, <3>1, <3>2
  <2> QED
    BY <2>1
<1>3. IsFiniteSet(S) /\ Cardinality(S) = c
  <2>1. IsFiniteSet(1..c) /\ Cardinality(1..c) = c
    BY UpTo
  <2>2. IsFiniteSet(S) /\ Cardinality(S) = Cardinality(1..c)
    BY <1>1, <1>2, <2>1, SameSize
  <2> QED
    BY <2>1, <2>2
<1>4. ASSUME NEW k \in 1..c PROVE Rank(e[k], S) = k - 1
  <2>1. PICK m \in Nat : m = k - 1
    OBVIOUS
  <2>2. PICK A : A = {n \in S : n < e[k]}
    OBVIOUS
  <2>3. PICK f : f = [j \in 1..m |-> e[j]]
    OBVIOUS
  <2>4. \A j \in 1..m : f[j] \in A
    BY <1>1, <2>1, <2>2, <2>3
  <2>5. \A n \in A : \E j \in 1..m : f[j] = n
    <3>1. ASSUME NEW n \in A PROVE \E j \in 1..m : f[j] = n
      <4>1. PICK j \in 1..c : e[j] = n
        BY <1>1, <2>2
      <4>2. e[j] < e[k] /\ e[j] \in Int /\ e[k] \in Int
        BY <1>1, <2>2, <4>1
      <4>3. j # k /\ ~(k < j)
        BY <1>1, <4>2
      <4>4. j \in 1..m
        BY <2>1, <4>3
      <4> QED
        BY <2>3, <4>1, <4>4
    <3> QED
      BY <3>1
  <2>6. f \in [1..m -> A] /\ \A i, j \in 1..m : f[i] = f[j] => i = j
    BY <1>2, <2>1, <2>3, <2>4
  <2>7. IsFiniteSet(1..m) /\ Cardinality(1..m) = m
    BY UpTo
  <2>8. Cardinality(A) = Cardinality(1..m)
    BY <2>5, <2>6, <2>7, SameSize
  <2> QED
    BY <2>1, <2>2, <2>7, <2>8 DEF Rank
<1>5. ASSUME NEW k \in 1..c PROVE e[k] = Nth(k, S)
  <2>1. Nth(k, S) \in S /\ Rank(Nth(k, S), S) = k - 1
    BY <1>3, NthIs
  <2>2. e[k] \in S /\ Rank(e[k], S) = k - 1
    BY <1>1, <1>4
  <2> QED
    BY <1>3, <2>1, <2>2, RanksAre
<1> QED
  BY <1>1, <1>2, <1>3, <1>4, <1>5

\* The places that a mask keeps, in order.
LEMMA PlacesInOrder ==
  ASSUME NEW n \in Nat, NEW P \in SUBSET (1..n)
  PROVE  /\ IsFiniteSet(P) /\ Cardinality(P) \in Nat /\ Cardinality(P) <= n
         /\ \A k \in 1..Cardinality(P) : Nth(k, P) \in P
         /\ \A j, k \in 1..Cardinality(P) : j < k => Nth(j, P) < Nth(k, P)
         /\ \A m \in P : \E k \in 1..Cardinality(P) : Nth(k, P) = m
         /\ \A j, k \in 1..Cardinality(P) : Nth(j, P) = Nth(k, P) => j = k
<1>1. PICK I : I = 1..n
  OBVIOUS
<1>2. IsFiniteSet(I) /\ Cardinality(I) = n
  BY <1>1, UpTo
<1>3. P \in SUBSET I
  BY <1>1
<1>4. IsFiniteSet(P) /\ Cardinality(P) <= Cardinality(I)
  BY <1>2, <1>3, FS_Subset
<1>5. Cardinality(P) \in Nat
  BY <1>4, FS_CardinalityType
<1>6. PICK c \in Nat : c = Cardinality(P)
  BY <1>5
<1>7. P \subseteq Int
  BY <1>1, <1>3
<1>8. Enumerates([k \in 1..c |-> Nth(k, P)], c, P)
  BY <1>4, <1>6, <1>7, NthIs
<1>9. PICK e : e = [k \in 1..c |-> Nth(k, P)]
  OBVIOUS
<1>10. Enumerates(e, c, P)
  BY <1>8, <1>9
<1>11. /\ e \in [1..c -> P]
       /\ \A j, k \in 1..c : j < k => e[j] < e[k]
       /\ \A m \in P : \E k \in 1..c : e[k] = m
  BY <1>10 DEF Enumerates
<1>12. \A j, k \in 1..c : e[j] = e[k] => j = k
  <2>1. ASSUME NEW j \in 1..c, NEW k \in 1..c, e[j] = e[k], j # k PROVE FALSE
    <3>1. e[j] \in Int /\ e[k] \in Int
      BY <1>7, <1>11
    <3>2. e[j] < e[k] \/ e[k] < e[j]
      BY <1>11, <2>1
    <3> QED
      BY <2>1, <3>1, <3>2
  <2> QED
    BY <2>1
<1>13. \A k \in 1..c : e[k] = Nth(k, P)
  BY <1>9
<1> QED
  BY <1>2, <1>4, <1>5, <1>6, <1>11, <1>12, <1>13

\* An increasing map of one set of places onto another carries the k-th to
\* the k-th.
Carries(h, P, Q) ==
  /\ h \in [P -> Q]
  /\ \A m, n \in P : m < n => h[m] < h[n]
  /\ \A q \in Q : \E m \in P : h[m] = q

LEMMA Carried ==
  ASSUME NEW n \in Nat, NEW P \in SUBSET (1..n), NEW Q \in SUBSET Int,
         NEW h, Carries(h, P, Q)
  PROVE  /\ IsFiniteSet(Q) /\ Cardinality(Q) = Cardinality(P)
         /\ \A k \in 1..Cardinality(P) : Nth(k, Q) = h[Nth(k, P)]
<1>1. /\ h \in [P -> Q]
      /\ \A i, j \in P : i < j => h[i] < h[j]
      /\ \A q \in Q : \E m \in P : h[m] = q
  BY DEF Carries
<1>2. PICK c \in Nat : c = Cardinality(P)
  BY PlacesInOrder
<1>3. PICK f : f = [k \in 1..c |-> Nth(k, P)]
  OBVIOUS
<1>4. /\ \A k \in 1..c : f[k] \in P
      /\ \A j, k \in 1..c : j < k => f[j] < f[k]
      /\ \A m \in P : \E k \in 1..c : f[k] = m
  BY <1>2, <1>3, PlacesInOrder
<1>5. PICK e : e = [k \in 1..c |-> h[f[k]]]
  OBVIOUS
<1>6. Enumerates(e, c, Q)
  <2>1. e \in [1..c -> Q]
    BY <1>1, <1>4, <1>5
  <2>2. \A j, k \in 1..c : j < k => e[j] < e[k]
    BY <1>1, <1>4, <1>5
  <2>3. ASSUME NEW q \in Q PROVE \E k \in 1..c : e[k] = q
    BY <1>1, <1>4, <1>5
  <2> QED
    BY <2>1, <2>2, <2>3 DEF Enumerates
<1>7. IsFiniteSet(Q) /\ Cardinality(Q) = c /\ \A k \in 1..c : e[k] = Nth(k, Q)
  BY <1>6, EnumeratedOnce
<1> QED
  BY <1>2, <1>3, <1>5, <1>7

\* Two masks that keep places in step.
LEMMA PickedInStep ==
  ASSUME NEW n \in Nat, NEW P \in SUBSET (1..n), NEW Q \in SUBSET Int,
         NEW h, Carries(h, P, Q), NEW s, NEW t, \A m \in P : s[m] = t[h[m]]
  PROVE  PickedAt(s, P) = PickedAt(t, Q)
<1>1. PICK c \in Nat : c = Cardinality(P)
  BY PlacesInOrder
<1>2. \A k \in 1..c : Nth(k, P) \in P
  BY <1>1, PlacesInOrder
<1>3. Cardinality(Q) = c /\ \A k \in 1..c : Nth(k, Q) = h[Nth(k, P)]
  BY <1>1, Carried
<1>4. \A k \in 1..c : s[Nth(k, P)] = t[Nth(k, Q)]
  BY <1>2, <1>3
<1> QED
  BY <1>1, <1>3, <1>4 DEF PickedAt

LEMMA PickedIs ==
  ASSUME NEW T, NEW s \in Seq(T), NEW P \in SUBSET (DOMAIN s)
  PROVE  /\ PickedAt(s, P) \in Seq(T) /\ Len(PickedAt(s, P)) = Cardinality(P)
         /\ \A k \in 1..Cardinality(P) : PickedAt(s, P)[k] = s[Nth(k, P)]
<1>1. PICK n \in Nat : n = Len(s)
  OBVIOUS
<1>2. DOMAIN s = 1..n
  BY <1>1
<1>3. PICK c \in Nat : c = Cardinality(P)
  BY <1>2, PlacesInOrder
<1>4. \A k \in 1..c : Nth(k, P) \in P
  BY <1>2, <1>3, PlacesInOrder
<1>5. PICK p : p = [k \in 1..c |-> s[Nth(k, P)]]
  OBVIOUS
<1>6. p \in Seq(T) /\ Len(p) = c
  BY <1>2, <1>4, <1>5
<1>7. PickedAt(s, P) = p
  BY <1>3, <1>5 DEF PickedAt
<1> QED
  BY <1>3, <1>5, <1>6, <1>7

\* A stable sort: by key and, within a key, as before.
GoesBefore(i, j, key) == key[i] < key[j] \/ (key[i] = key[j] /\ i < j)

LEMMA PlacesAre ==
  ASSUME NEW n \in Nat, NEW key \in [1..n -> Int]
  PROVE  /\ \A i \in 1..n : Place(i, key) \in 1..n
         /\ \A i, j \in 1..n : Place(i, key) < Place(j, key) <=> GoesBefore(i, j, key)
         /\ \A i, j \in 1..n : Place(i, key) = Place(j, key) => i = j
         /\ \A k \in 1..n : \E i \in 1..n : Place(i, key) = k
<1>1. PICK I : I = 1..n
  OBVIOUS
<1>2. IsFiniteSet(I) /\ Cardinality(I) = n
  BY <1>1, UpTo
<1>3. PICK f : f = [i \in I |-> Place(i, key) - 1]
  OBVIOUS
<1>4. PICK Before : Before = {p \in I \X I : GoesBefore(p[1], p[2], key)}
  OBVIOUS
<1>5. \A i, j \in I : <<i, j>> \in Before <=> GoesBefore(i, j, key)
  BY <1>4
<1>6. ASSUME NEW i \in I
      PROVE  /\ Place(i, key) \in Int /\ f[i] = Cardinality(Earlier(i, Before, I))
             /\ f[i] \in Int
  <2>1. PICK A \in SUBSET I : A = Earlier(i, Before, I)
    BY DEF Earlier
  <2>2. PICK B : B = {m \in DOMAIN key : key[m] < key[i] \/ (key[m] = key[i] /\ m <= i)}
    OBVIOUS
  <2>3. \A m \in I : key[m] \in Int /\ m \in Int
    BY <1>1
  <2>4. i \notin A
    BY <1>5, <2>1, <2>3 DEF Earlier, GoesBefore
  <2>5. \A m \in I : m \in A <=> GoesBefore(m, i, key)
    BY <1>5, <2>1 DEF Earlier
  <2>6. \A m : m \in B <=> m \in I /\ (key[m] < key[i] \/ (key[m] = key[i] /\ m <= i))
    BY <1>1, <2>2
  <2>7. ASSUME NEW m PROVE m \in B <=> m \in A \cup {i}
    <3>1. ASSUME m \in I PROVE m \in B <=> m \in A \cup {i}
      BY <2>3, <2>5, <2>6, <3>1 DEF GoesBefore
    <3> QED
      BY <2>1, <2>6, <3>1
  <2>8. B = A \cup {i}
    BY <2>7
  <2>9. IsFiniteSet(A) /\ Cardinality(A) \in Nat
    BY <1>2, FS_Subset, FS_CardinalityType
  <2>10. Cardinality(A \cup {i}) = Cardinality(A) + 1
    BY <2>4, <2>9, FS_AddElement
  <2>11. Place(i, key) = Cardinality(A) + 1
    BY <2>2, <2>8, <2>10 DEF Place
  <2>12. PICK a \in Nat : a = Cardinality(A)
    BY <2>9
  <2>13. f[i] = Place(i, key) - 1
    BY <1>3
  <2> QED
    BY <2>1, <2>11, <2>12, <2>13
<1>7. CountsEarlier(f, Before, I)
  <2>1. f \in [I -> Int]
    BY <1>3, <1>6
  <2> QED
    BY <1>6, <2>1 DEF CountsEarlier
<1>8. TotallyOrders(Before, I)
  <2>1. \A i, j, k \in I : key[i] \in Int /\ key[j] \in Int /\ key[k] \in Int
                           /\ i \in Int /\ j \in Int /\ k \in Int
    BY <1>1
  <2>2. \A i \in I : <<i, i>> \notin Before
    BY <1>5, <2>1 DEF GoesBefore
  <2>3. \A i, j \in I : i # j => <<i, j>> \in Before \/ <<j, i>> \in Before
    BY <1>5, <2>1 DEF GoesBefore
  <2>4. \A i, j, k \in I : <<i, j>> \in Before /\ <<j, k>> \in Before => <<i, k>> \in Before
    BY <1>5, <2>1 DEF GoesBefore
  <2> QED
    BY <2>2, <2>3, <2>4 DEF TotallyOrders
<1>9. NumbersInOrder(f, Before, I)
  BY <1>2, <1>7, <1>8, Numbering
<1>10. /\ \A i \in I : f[i] \in 0..(n - 1)
       /\ \A i, j \in I : <<i, j>> \in Before <=> f[i] < f[j]
       /\ \A i, j \in I : f[i] = f[j] => i = j
       /\ \A k \in 0..(n - 1) : \E i \in I : f[i] = k
  BY <1>2, <1>9 DEF NumbersInOrder
<1>11. \A i \in I : f[i] = Place(i, key) - 1 /\ Place(i, key) \in Int
  BY <1>3, <1>6
<1>12. \A i \in I : Place(i, key) \in 1..n
  BY <1>10, <1>11
<1>13. \A i, j \in I : Place(i, key) < Place(j, key) <=> GoesBefore(i, j, key)
  <2>1. ASSUME NEW i \in I, NEW j \in I
        PROVE  Place(i, key) < Place(j, key) <=> GoesBefore(i, j, key)
    <3>1. <<i, j>> \in Before <=> f[i] < f[j]
      BY <1>10
    <3>2. f[i] < f[j] <=> Place(i, key) < Place(j, key)
      BY <1>11
    <3> QED
      BY <1>5, <3>1, <3>2
  <2> QED
    BY <2>1
<1>14. \A i, j \in I : Place(i, key) = Place(j, key) => i = j
  BY <1>10, <1>11
<1>15. ASSUME NEW k \in 1..n PROVE \E i \in I : Place(i, key) = k
  <2>1. k - 1 \in 0..(n - 1)
    OBVIOUS
  <2>2. PICK i \in I : f[i] = k - 1
    BY <1>10, <2>1
  <2>3. Place(i, key) = k
    BY <1>11, <2>2
  <2> QED
    BY <2>3
<1> QED
  BY <1>1, <1>12, <1>13, <1>14, <1>15

LEMMA SortedByIs ==
  ASSUME NEW T, NEW s \in Seq(T), NEW key \in [DOMAIN s -> Int]
  PROVE  /\ SortedBy(s, key) \in Seq(T) /\ Len(SortedBy(s, key)) = Len(s)
         /\ \A i \in DOMAIN s : /\ Place(i, key) \in DOMAIN s
                                /\ SortedBy(s, key)[Place(i, key)] = s[i]
         /\ \A k \in DOMAIN s : \E i \in DOMAIN s :
              Place(i, key) = k /\ SortedBy(s, key)[k] = s[i]
<1>1. PICK n \in Nat : n = Len(s)
  OBVIOUS
<1>2. DOMAIN s = 1..n
  BY <1>1
<1>3. key \in [1..n -> Int]
  BY <1>2
<1>4. /\ \A i \in 1..n : Place(i, key) \in 1..n
      /\ \A i, j \in 1..n : Place(i, key) = Place(j, key) => i = j
      /\ \A k \in 1..n : \E i \in 1..n : Place(i, key) = k
  BY <1>3, PlacesAre
<1>5. PICK w : w = [k \in 1..n |-> CHOOSE i \in 1..n : Place(i, key) = k]
  OBVIOUS
<1>6. \A k \in 1..n : w[k] \in 1..n /\ Place(w[k], key) = k
  BY <1>4, <1>5
<1>7. PICK p : p = [k \in 1..n |-> s[w[k]]]
  OBVIOUS
<1>8. p \in Seq(T) /\ Len(p) = n
  BY <1>2, <1>6, <1>7
<1>9. SortedBy(s, key) = p
  <2>1. ASSUME NEW k \in 1..n
        PROVE  s[CHOOSE i \in DOMAIN s : Place(i, key) = k] = p[k]
    BY <1>2, <1>5, <1>7
  <2> QED
    BY <1>2, <1>7, <2>1 DEF SortedBy
<1>10. \A i \in 1..n : w[Place(i, key)] = i
  BY <1>4, <1>6
<1>11. \A i \in 1..n : p[Place(i, key)] = s[i]
  BY <1>4, <1>7, <1>10
<1>12. \A k \in 1..n : w[k] \in 1..n /\ Place(w[k], key) = k /\ p[k] = s[w[k]]
  BY <1>6, <1>7
<1> QED
  BY <1>1, <1>2, <1>4, <1>8, <1>9, <1>11, <1>12

LEMMA AllPlaces ==
  ASSUME NEW n \in Nat, NEW k \in 1..n
  PROVE  Nth(k, 1..n) = k
<1>1. PICK I : I = 1..n
  OBVIOUS
<1>2. PICK e : e = [j \in 1..n |-> j]
  OBVIOUS
<1>3. Enumerates(e, n, I)
  BY <1>1, <1>2 DEF Enumerates
<1>4. I \subseteq Int
  BY <1>1
<1>5. \A j \in 1..n : e[j] = Nth(j, I)
  BY <1>3, <1>4, EnumeratedOnce
<1> QED
  BY <1>1, <1>2, <1>5

\* Places in one sequence and then in the next.
BothPlaces(A, n, B) == A \cup {n + j : j \in B}

LEMMA JoinedPlaces ==
  ASSUME NEW n \in Nat, NEW m \in Nat, NEW A \in SUBSET (1..n), NEW B \in SUBSET (1..m)
  PROVE  /\ Cardinality(BothPlaces(A, n, B)) = Cardinality(A) + Cardinality(B)
         /\ \A k \in 1..Cardinality(A) : Nth(k, BothPlaces(A, n, B)) = Nth(k, A)
         /\ \A k \in 1..Cardinality(B) :
              Nth(Cardinality(A) + k, BothPlaces(A, n, B)) = n + Nth(k, B)
<1>1. PICK Q : Q = BothPlaces(A, n, B)
  OBVIOUS
<1>2. PICK a \in Nat : a = Cardinality(A)
  BY PlacesInOrder
<1>3. PICK b \in Nat : b = Cardinality(B)
  BY PlacesInOrder
<1>4. PICK f : f = [k \in 1..a |-> Nth(k, A)]
  OBVIOUS
<1>5. /\ \A k \in 1..a : f[k] \in A
      /\ \A j, k \in 1..a : j < k => f[j] < f[k]
      /\ \A i \in A : \E k \in 1..a : f[k] = i
  BY <1>2, <1>4, PlacesInOrder
<1>6. PICK g : g = [k \in 1..b |-> Nth(k, B)]
  OBVIOUS
<1>7. /\ \A k \in 1..b : g[k] \in B
      /\ \A j, k \in 1..b : j < k => g[j] < g[k]
      /\ \A i \in B : \E k \in 1..b : g[k] = i
  BY <1>3, <1>6, PlacesInOrder
<1>8. PICK e : e = [k \in 1..(a + b) |-> IF k <= a THEN f[k] ELSE n + g[k - a]]
  OBVIOUS
<1>9. \A k \in 1..a : k \in 1..(a + b) /\ e[k] = f[k]
  BY <1>8
<1>10. \A k \in 1..b : a + k \in 1..(a + b) /\ e[a + k] = n + g[k]
  <2>1. ASSUME NEW k \in 1..b
        PROVE  a + k \in 1..(a + b) /\ ~(a + k <= a) /\ (a + k) - a = k
    OBVIOUS
  <2> QED
    BY <1>8, <2>1
<1>11. \A k \in 1..(a + b) : k \in 1..a \/ \E j \in 1..b : k = a + j
  <2>1. ASSUME NEW k \in 1..(a + b), k \notin 1..a PROVE \E j \in 1..b : k = a + j
    <3>1. k - a \in 1..b /\ k = a + (k - a)
      BY <2>1
    <3> QED
      BY <3>1
  <2> QED
    BY <2>1
<1>12. Q \subseteq Int /\ A \subseteq Q /\ \A j \in B : n + j \in Q
  <2>1. \A j \in B : j \in Int /\ n + j \in Int
    OBVIOUS
  <2>2. \A q \in Q : q \in A \/ \E j \in B : q = n + j
    BY <1>1 DEF BothPlaces
  <2>3. \A q \in A : q \in Int
    OBVIOUS
  <2>4. ASSUME NEW q \in Q PROVE q \in Int
    BY <2>1, <2>2, <2>3
  <2> QED
    BY <1>1, <2>4 DEF BothPlaces
<1>13. Enumerates(e, a + b, Q)
  <2>1. ASSUME NEW k \in 1..(a + b) PROVE e[k] \in Q
    <3>1. CASE k \in 1..a
      BY <1>5, <1>9, <1>12, <3>1
    <3>2. CASE k \notin 1..a
      <4>1. PICK j \in 1..b : k = a + j
        BY <1>11, <3>2
      <4>2. e[k] = n + g[j] /\ g[j] \in B
        BY <1>7, <1>10, <4>1
      <4> QED
        BY <1>12, <4>2
    <3> QED
      BY <3>1, <3>2
  <2>2. ASSUME NEW j \in 1..(a + b), NEW k \in 1..(a + b), j < k PROVE e[j] < e[k]
    <3>1. CASE k \in 1..a
      <4>1. j \in 1..a
        BY <2>2, <3>1
      <4> QED
        BY <1>5, <1>9, <2>2, <3>1, <4>1
    <3>2. CASE j \in 1..a /\ k \notin 1..a
      <4>1. PICK i \in 1..b : k = a + i
        BY <1>11, <3>2
      <4>2. e[j] \in 1..n /\ e[k] = n + g[i] /\ g[i] \in 1..m
        BY <1>5, <1>7, <1>9, <1>10, <3>2, <4>1
      <4> QED
        BY <4>2
    <3>3. CASE j \notin 1..a
      <4>1. PICK i \in 1..b : j = a + i
        BY <1>11, <3>3
      <4>2. k \notin 1..a
        BY <2>2, <4>1
      <4>3. PICK l \in 1..b : k = a + l
        BY <1>11, <4>2
      <4>4. i < l
        BY <2>2, <4>1, <4>3
      <4>5. e[j] = n + g[i] /\ e[k] = n + g[l] /\ g[i] < g[l] /\ g[i] \in Int /\ g[l] \in Int
        <5>1. e[j] = n + g[i] /\ e[k] = n + g[l]
          BY <1>10, <4>1, <4>3
        <5>2. g[i] < g[l]
          BY <1>7, <4>4
        <5>3. g[i] \in B /\ g[l] \in B
          BY <1>7
        <5>4. B \subseteq Int
          OBVIOUS
        <5>5. g[i] \in Int /\ g[l] \in Int
          BY <5>3, <5>4
        <5> QED
          BY <5>1, <5>2, <5>5
      <4> QED
        BY <4>5
    <3> QED
      BY <3>1, <3>2, <3>3
  <2>3. ASSUME NEW q \in Q PROVE \E k \in 1..(a + b) : e[k] = q
    <3>1. CASE q \in A
      BY <1>5, <1>9, <3>1
    <3>2. CASE q \notin A
      <4>1. PICK j \in B : q = n + j
        BY <1>1, <3>2 DEF BothPlaces
      <4>2. PICK k \in 1..b : g[k] = j
        BY <1>7
      <4> QED
        BY <1>10, <4>1, <4>2
    <3> QED
      BY <3>1, <3>2
  <2> QED
    BY <1>8, <2>1, <2>2, <2>3 DEF Enumerates
<1>14. a + b \in Nat
  OBVIOUS
<1>15. Cardinality(Q) = a + b /\ \A k \in 1..(a + b) : e[k] = Nth(k, Q)
  BY <1>12, <1>13, <1>14, EnumeratedOnce
<1>16. \A k \in 1..a : Nth(k, Q) = Nth(k, A)
  BY <1>4, <1>9, <1>15
<1>17. \A k \in 1..b : Nth(a + k, Q) = n + Nth(k, B)
  BY <1>6, <1>10, <1>15
<1> QED
  BY <1>1, <1>2, <1>3, <1>15, <1>16, <1>17

\* The places of a sequence that hold something of a set.
Where(s, W) == {n \in DOMAIN s : s[n] \in W}

LEMMA WhereIs ==
  ASSUME NEW T, NEW s \in Seq(T), NEW W
  PROVE  /\ Where(s, W) \in SUBSET (1..Len(s)) /\ Len(s) \in Nat
         /\ Where(s, W) \in SUBSET (DOMAIN s)
         /\ IsFiniteSet(Where(s, W)) /\ Cardinality(Where(s, W)) \in Nat
<1>1. PICK n \in Nat : n = Len(s)
  OBVIOUS
<1>2. PICK P \in SUBSET (1..n) : P = Where(s, W)
  <2>1. DOMAIN s = 1..n
    BY <1>1
  <2> QED
    BY <2>1 DEF Where
<1>3. IsFiniteSet(P) /\ Cardinality(P) \in Nat
  BY PlacesInOrder
<1> QED
  BY <1>1, <1>2, <1>3

LEMMA AsSequence ==
  ASSUME NEW T, NEW n \in Nat, NEW f \in [1..n -> T]
  PROVE  f \in Seq(T) /\ Len(f) = n
OBVIOUS

LEMMA JoinIs ==
  ASSUME NEW T, NEW s \in Seq(T), NEW t \in Seq(T)
  PROVE  /\ s \o t \in Seq(T) /\ Len(s \o t) = Len(s) + Len(t)
         /\ \A i \in 1..Len(s) : (s \o t)[i] = s[i]
         /\ \A j \in 1..Len(t) : (s \o t)[Len(s) + j] = t[j]
<1>1. /\ s \o t \in Seq(T) /\ Len(s \o t) = Len(s) + Len(t)
      /\ \A i \in 1..(Len(s) + Len(t)) :
           (s \o t)[i] = IF i <= Len(s) THEN s[i] ELSE t[i - Len(s)]
  BY ConcatProperties
<1>2. PICK n \in Nat, m \in Nat : n = Len(s) /\ m = Len(t)
  OBVIOUS
<1>3. ASSUME NEW i \in 1..n PROVE (s \o t)[i] = s[i]
  <2>1. i \in 1..(n + m) /\ i <= n
    OBVIOUS
  <2> QED
    BY <1>1, <1>2, <2>1
<1>4. ASSUME NEW j \in 1..m PROVE (s \o t)[n + j] = t[j]
  <2>1. n + j \in 1..(n + m) /\ ~(n + j <= n) /\ (n + j) - n = j
    OBVIOUS
  <2> QED
    BY <1>1, <1>2, <2>1
<1> QED
  BY <1>1, <1>2, <1>3, <1>4

LEMMA OnlyIs ==
  ASSUME NEW T, NEW s \in Seq(T), NEW W
  PROVE  /\ Only(s, W) \in Seq(T)
         /\ \A n \in DOMAIN Only(s, W) :
              Only(s, W)[n] \in W /\ \E i \in DOMAIN s : Only(s, W)[n] = s[i]
         /\ \A i \in DOMAIN s : s[i] \in W => \E n \in DOMAIN Only(s, W) : Only(s, W)[n] = s[i]
<1>1. PICK n \in Nat : n = Len(s)
  OBVIOUS
<1>2. PICK P \in SUBSET (1..n) : P = Where(s, W)
  BY <1>1, WhereIs
<1>3. DOMAIN s = 1..n /\ P \in SUBSET (DOMAIN s)
  BY <1>1
<1>4. PICK c \in Nat : c = Cardinality(P)
  BY <1>3, PlacesInOrder
<1>5. PICK p : p = PickedAt(s, P)
  OBVIOUS
<1>6. p = Only(s, W)
  BY <1>2, <1>5 DEF Only, Where
<1>7. DOMAIN p = 1..c /\ \A k \in 1..c : p[k] = s[Nth(k, P)]
  BY <1>4, <1>5 DEF PickedAt
<1>8. p \in Seq(T)
  BY <1>3, <1>5, PickedIs
<1>9. /\ \A k \in 1..c : Nth(k, P) \in P
      /\ \A m \in P : \E k \in 1..c : Nth(k, P) = m
  <2>1. /\ \A k \in 1..Cardinality(P) : Nth(k, P) \in P
        /\ \A m \in P : \E k \in 1..Cardinality(P) : Nth(k, P) = m
    BY <1>3, PlacesInOrder
  <2> QED
    BY <1>4, <2>1
<1>10. \A m \in 1..n : m \in P <=> s[m] \in W
  BY <1>2, <1>3 DEF Where
<1>11. \A k \in 1..c : p[k] \in W /\ \E i \in 1..n : p[k] = s[i]
  BY <1>7, <1>9, <1>10
<1>12. \A i \in 1..n : s[i] \in W => \E k \in 1..c : p[k] = s[i]
  BY <1>7, <1>9, <1>10
<1> QED
  BY <1>3, <1>6, <1>7, <1>8, <1>11, <1>12

\* A subset has no more members, and both are counted by naturals.
LEMMA FewerThan ==
  ASSUME NEW S, IsFiniteSet(S), NEW T \in SUBSET S
  PROVE  /\ IsFiniteSet(T) /\ Cardinality(T) \in Nat /\ Cardinality(S) \in Nat
         /\ Cardinality(T) <= Cardinality(S)
<1>1. IsFiniteSet(T) /\ Cardinality(T) <= Cardinality(S)
  BY FS_Subset
<1> QED
  BY <1>1, FS_CardinalityType

\* The image of a finite set under a function, by a list of the set's members.
LEMMA Onto ==
  ASSUME NEW A, NEW B, IsFiniteSet(A), NEW f, \A z \in B : \E x \in A : f[x] = z
  PROVE  /\ IsFiniteSet(B) /\ Cardinality(B) \in Nat /\ Cardinality(A) \in Nat
         /\ Cardinality(B) <= Cardinality(A)
<1>1. PICK g : g = [z \in B |-> CHOOSE x \in A : f[x] = z]
  OBVIOUS
<1>2. \A z \in B : g[z] \in A /\ f[g[z]] = z
  BY <1>1
<1>3. PICK D \in SUBSET A : D = {g[z] : z \in B}
  BY <1>2
<1>4. IsFiniteSet(D) /\ Cardinality(D) \in Nat /\ Cardinality(A) \in Nat
      /\ Cardinality(D) <= Cardinality(A)
  BY FewerThan
<1>5. PICK h : h = [x \in D |-> f[x]]
  OBVIOUS
<1>6. \A x \in D : \E z \in B : x = g[z] /\ h[x] = z
  BY <1>2, <1>3, <1>5
<1>7. h \in [D -> B]
  BY <1>5, <1>6
<1>8. \A x, y \in D : h[x] = h[y] => x = y
  BY <1>6
<1>9. \A z \in B : \E x \in D : h[x] = z
  BY <1>2, <1>3, <1>5
<1>10. IsFiniteSet(B) /\ Cardinality(B) = Cardinality(D)
  BY <1>4, <1>7, <1>8, <1>9, SameSize
<1> QED
  BY <1>4, <1>10

\* Tables and their sums.
LEMMA TallyIs ==
  ASSUME NEW f PROVE Tally(f) = Summed(f, DOMAIN f)
BY DEF Tally, Summed

LEMMA TallyGrows ==
  ASSUME NEW n \in Nat, NEW f, DOMAIN f = 1..n, NEW g, DOMAIN g = 1..(n + 1),
         \A i \in 1..n : f[i] \in Int /\ g[i] = f[i], g[n + 1] \in Int
  PROVE  Tally(g) = Tally(f) + g[n + 1] /\ Tally(f) \in Int
<1>1. PICK I : I = 1..n
  OBVIOUS
<1>2. IsFiniteSet(I)
  BY <1>1, UpTo
<1>3. 1..(n + 1) = I \cup {n + 1} /\ n + 1 \notin I
  BY <1>1
<1>4. \A i \in I : f[i] = g[i] /\ f[i] \in Int
  BY <1>1
<1>5. Summed(f, I) = Summed(g, I)
  BY <1>2, <1>4, SumAgrees
<1>6. \A i \in I \cup {n + 1} : g[i] \in Int
  BY <1>1
<1>7. Summed(g, I \cup {n + 1}) = Summed(g, I) + g[n + 1] /\ Summed(g, I) \in Int
  BY <1>2, <1>3, <1>6, SumAdds
<1>8. Tally(f) = Summed(f, I) /\ Tally(g) = Summed(g, I \cup {n + 1})
  BY <1>1, <1>3, TallyIs
<1> QED
  BY <1>5, <1>7, <1>8

LEMMA TallyOfNone ==
  ASSUME NEW f, DOMAIN f = {} PROVE Tally(f) = 0
<1>1. \A x \in {} : f[x] \in Int
  OBVIOUS
<1>2. Summed(f, {}) = 0
  BY <1>1, FS_EmptySet, SumTakesAny
<1> QED
  BY <1>2, TallyIs

\* The sizes of disjoint sets add up to the size of their union.
LEMMA TallyOfSizes ==
  ASSUME NEW I, IsFiniteSet(I), NEW S,
         \A i \in I : IsFiniteSet(S[i]),
         \A i, j \in I : i # j => S[i] \cap S[j] = {}
  PROVE  /\ IsFiniteSet(UNION {S[i] : i \in I})
         /\ Tally([i \in I |-> Cardinality(S[i])]) = Cardinality(UNION {S[i] : i \in I})
<1>1. PICK f : f = [i \in I |-> Cardinality(S[i])]
  OBVIOUS
<1>2. \A i \in I : f[i] \in Nat /\ f[i] = Cardinality(S[i])
  BY <1>1, FS_CardinalityType
<1>3. PICK Holding :
        Holding = {T \in SUBSET I : /\ IsFiniteSet(UNION {S[i] : i \in T})
                                    /\ Summed(f, T) = Cardinality(UNION {S[i] : i \in T})}
  OBVIOUS
<1>4. {} \in Holding
  <2>1. UNION {S[i] : i \in {}} = {}
    OBVIOUS
  <2>2. Summed(f, {}) = 0
    BY FS_EmptySet, SumTakesAny
  <2> QED
    BY <1>3, <2>1, <2>2, FS_EmptySet
<1>5. ASSUME NEW T \in SUBSET I, NEW x \in I \ T, T \in Holding
      PROVE  T \cup {x} \in Holding
  <2>1. PICK U : U = UNION {S[i] : i \in T}
    OBVIOUS
  <2>2. IsFiniteSet(U) /\ Summed(f, T) = Cardinality(U)
    BY <1>3, <1>5, <2>1
  <2>3. UNION {S[i] : i \in T \cup {x}} = U \cup S[x]
    BY <2>1
  <2>4. U \cap S[x] = {}
    <3>1. \A i \in T : S[i] \cap S[x] = {}
      BY <1>5
    <3> QED
      BY <2>1, <3>1
  <2>5. IsFiniteSet(S[x])
    OBVIOUS
  <2>6. Cardinality(U) \in Nat /\ Cardinality(S[x]) \in Nat
    BY <2>2, <2>5, FS_CardinalityType
  <2>7. IsFiniteSet(U \cup S[x])
        /\ Cardinality(U \cup S[x]) = Cardinality(U) + Cardinality(S[x])
    <3>1. IsFiniteSet(U \cup S[x])
          /\ Cardinality(U \cup S[x])
               = Cardinality(U) + Cardinality(S[x]) - Cardinality(U \cap S[x])
      BY <2>2, <2>5, FS_Union
    <3>2. Cardinality(U \cap S[x]) = 0
      BY <2>4, FS_EmptySet
    <3> QED
      BY <2>6, <3>1, <3>2
  <2>8. IsFiniteSet(T) /\ \A y \in T \cup {x} : f[y] \in Int
    BY <1>2, FS_Subset
  <2>9. Summed(f, T \cup {x}) = Summed(f, T) + f[x]
    BY <1>5, <2>8, SumAdds
  <2>10. f[x] = Cardinality(S[x])
    BY <1>2
  <2>11. Summed(f, T \cup {x}) = Cardinality(U \cup S[x])
    BY <2>2, <2>7, <2>9, <2>10
  <2> QED
    BY <1>3, <2>3, <2>7, <2>11
<1>6. I \in Holding
  BY <1>4, <1>5, OneByOne
<1>7. Tally(f) = Summed(f, I)
  BY <1>1, TallyIs
<1> QED
  BY <1>1, <1>3, <1>6, <1>7

\* Some terms grow by the same amount.
Shifts(f, g, I, J, d) ==
  /\ IsFiniteSet(I) /\ J \in SUBSET I /\ d \in Int /\ \A i \in I : f[i] \in Int
  /\ \A i \in J : g[i] = f[i] + d
  /\ \A i \in I \ J : g[i] = f[i]

LEMMA SumShifts ==
  ASSUME NEW I, NEW J, NEW d, NEW f, NEW g, Shifts(f, g, I, J, d)
  PROVE  Summed(f, I) \in Int /\ Summed(g, I) = Summed(f, I) + Cardinality(J) * d
<1>0. /\ IsFiniteSet(I) /\ J \in SUBSET I /\ d \in Int /\ \A i \in I : f[i] \in Int
      /\ \A i \in J : g[i] = f[i] + d
      /\ \A i \in I \ J : g[i] = f[i]
  BY DEF Shifts
<1>1. PICK K \in SUBSET I : K = I \ J
  BY <1>0
<1>2. IsFiniteSet(J) /\ IsFiniteSet(K) /\ J \cap K = {} /\ I = J \cup K
  BY <1>0, <1>1, FS_Subset
<1>3. \A i \in J \cup K : f[i] \in Int /\ g[i] \in Int
  BY <1>0, <1>1
<1>4. Summed(g, K) = Summed(f, K)
  <2>1. \A i \in K : g[i] = f[i] /\ g[i] \in Int
    BY <1>0, <1>1
  <2> QED
    BY <1>2, <2>1, SumAgrees
<1>5. PICK Holding :
        Holding = {T \in SUBSET J : Summed(g, T) = Summed(f, T) + Cardinality(T) * d}
  OBVIOUS
<1>6. {} \in Holding
  <2>1. Summed(f, {}) = 0 /\ Summed(g, {}) = 0 /\ Cardinality({}) = 0
    BY FS_EmptySet, SumTakesAny
  <2>2. Summed(g, {}) = Summed(f, {}) + Cardinality({}) * d
    BY <1>0, <2>1
  <2> QED
    BY <1>5, <2>2
<1>7. ASSUME NEW T \in SUBSET J, NEW x \in J \ T, T \in Holding
      PROVE  T \cup {x} \in Holding
  <2>1. IsFiniteSet(T) /\ \A y \in T \cup {x} : f[y] \in Int /\ g[y] \in Int
    BY <1>2, <1>3, FS_Subset
  <2>2. PICK a : a = Summed(f, T)
    OBVIOUS
  <2>3. PICK b : b = Summed(g, T)
    OBVIOUS
  <2>4. Summed(f, T \cup {x}) = a + f[x] /\ a \in Int
    BY <1>7, <2>1, <2>2, SumAdds
  <2>5. Summed(g, T \cup {x}) = b + g[x] /\ b \in Int
    BY <1>7, <2>1, <2>3, SumAdds
  <2>6. PICK c \in Nat : c = Cardinality(T)
    BY <2>1, FS_CardinalityType
  <2>7. Cardinality(T \cup {x}) = c + 1
    BY <1>7, <2>1, <2>6, FS_AddElement
  <2>8. b = a + c * d
    BY <1>5, <1>7, <2>2, <2>3, <2>6
  <2>9. g[x] = f[x] + d /\ f[x] \in Int
    BY <1>0
  <2>10. (c + 1) * d = c * d + d /\ c * d \in Int
    BY <1>0
  <2>11. b + g[x] = a + f[x] + (c + 1) * d
    <3>1. PICK p \in Int : p = c * d
      BY <2>10
    <3>2. PICK y \in Int : y = f[x]
      BY <2>9
    <3> QED
      BY <1>0, <2>4, <2>8, <2>9, <2>10, <3>1, <3>2
  <2>12. Summed(g, T \cup {x}) = Summed(f, T \cup {x}) + Cardinality(T \cup {x}) * d
    BY <2>4, <2>5, <2>7, <2>11
  <2> QED
    BY <1>5, <2>12
<1>8. J \in Holding
  BY <1>2, <1>6, <1>7, OneByOne
<1>9. PICK c \in Nat : c = Cardinality(J)
  BY <1>2, FS_CardinalityType
<1>10. Summed(f, I) = Summed(f, J) + Summed(f, K)
  BY <1>2, <1>3, SumJoins
<1>11. Summed(g, I) = Summed(g, J) + Summed(g, K)
  BY <1>2, <1>3, SumJoins
<1>12. Summed(f, J) \in Int /\ Summed(f, K) \in Int
  BY <1>2, <1>3, SumTakesAny
<1>13. Summed(g, J) = Summed(f, J) + c * d /\ c * d \in Int
  BY <1>0, <1>5, <1>8, <1>9
<1> QED
  BY <1>4, <1>9, <1>10, <1>11, <1>12, <1>13

\* A whole that each x is cut into equal shares, one for every set it is in,
\* comes out again when all sets hand in their shares.
Divided(I, A, S, share, whole) ==
  /\ IsFiniteSet(I) /\ IsFiniteSet(A) /\ whole \in Int
  /\ \A x \in A : /\ share[x] \in Int
                  /\ Cardinality({i \in I : x \in S[i]}) * share[x] = whole

HandedIn(I, A, S, share) == Tally([i \in I |-> Tally([x \in S[i] \cap A |-> share[x]])])

LEMMA SharesAddUp ==
  ASSUME NEW I, NEW A, NEW S, NEW share, NEW whole, Divided(I, A, S, share, whole)
  PROVE  HandedIn(I, A, S, share) = whole * Cardinality(A)
<1> /\ IsFiniteSet(I) /\ IsFiniteSet(A) /\ whole \in Int
    /\ \A x \in A : /\ share[x] \in Int
                    /\ Cardinality({i \in I : x \in S[i]}) * share[x] = whole
  BY DEF Divided
<1> HandedIn(I, A, S, share) = Tally([i \in I |-> Tally([x \in S[i] \cap A |-> share[x]])])
  BY DEF HandedIn
<1>1. PICK of : of = [T \in SUBSET A |-> [i \in I |-> Summed(share, S[i] \cap T)]]
  OBVIOUS
<1>2. ASSUME NEW T \in SUBSET A
      PROVE  \A i \in I : of[T][i] = Summed(share, S[i] \cap T) /\ of[T][i] \in Int
  <2> SUFFICES ASSUME NEW i \in I
               PROVE of[T][i] = Summed(share, S[i] \cap T) /\ of[T][i] \in Int
    OBVIOUS
  <2>1. IsFiniteSet(S[i] \cap T)
    BY FS_Subset
  <2>2. \A x \in S[i] \cap T : share[x] \in Int
    OBVIOUS
  <2>3. Summed(share, S[i] \cap T) \in Int
    BY <2>1, <2>2, SumTakesAny
  <2> QED
    BY <1>1, <2>3
<1>3. PICK Holding : Holding = {T \in SUBSET A : Summed(of[T], I) = whole * Cardinality(T)}
  OBVIOUS
<1>4. {} \in Holding
  <2>1. {} \in SUBSET A
    OBVIOUS
  <2>2. Summed(share, {}) = 0
    BY FS_EmptySet, SumTakesAny
  <2>3. \A i \in I : of[{}][i] = 0
    <3>1. \A i \in I : S[i] \cap {} = {}
      OBVIOUS
    <3> QED
      BY <1>2, <2>1, <2>2, <3>1
  <2>4. Summed(of[{}], I) = 0
    <3>1. PICK zero : zero = [i \in I |-> 0]
      OBVIOUS
    <3>2. PICK Nil : Nil = {T \in SUBSET I : Summed(zero, T) = 0}
      OBVIOUS
    <3>3. {} \in Nil
      BY <3>2, FS_EmptySet, SumTakesAny
    <3>4. ASSUME NEW T \in SUBSET I, NEW x \in I \ T, T \in Nil PROVE T \cup {x} \in Nil
      <4>1. IsFiniteSet(T) /\ \A y \in T \cup {x} : zero[y] \in Int
        BY <3>1, FS_Subset
      <4>2. Summed(zero, T \cup {x}) = Summed(zero, T) + zero[x]
        BY <3>4, <4>1, SumAdds
      <4>3. zero[x] = 0
        BY <3>1
      <4> QED
        BY <3>2, <3>4, <4>2, <4>3
    <3>5. I \in Nil
      BY <3>3, <3>4, OneByOne
    <3>6. \A i \in I : of[{}][i] = zero[i] /\ of[{}][i] \in Int
      BY <2>3, <3>1
    <3>7. Summed(of[{}], I) = Summed(zero, I)
      BY <3>6, SumAgrees
    <3> QED
      BY <3>2, <3>5, <3>7
  <2>5. whole * Cardinality({}) = 0
    BY FS_EmptySet
  <2> QED
    BY <1>3, <2>1, <2>4, <2>5
<1>5. ASSUME NEW T \in SUBSET A, NEW x \in A \ T, T \in Holding
      PROVE  T \cup {x} \in Holding
  <2>1. PICK J \in SUBSET I : J = {i \in I : x \in S[i]}
    OBVIOUS
  <2>2. T \cup {x} \in SUBSET A
    OBVIOUS
  <2>3. PICK f : f = of[T]
    OBVIOUS
  <2>4. PICK g : g = of[T \cup {x}]
    OBVIOUS
  <2>5. PICK d \in Int : d = share[x]
    OBVIOUS
  <2>6. \A i \in I : f[i] = Summed(share, S[i] \cap T) /\ f[i] \in Int
    BY <1>2, <2>3
  <2>7. \A i \in I : g[i] = Summed(share, S[i] \cap (T \cup {x}))
    BY <1>2, <2>2, <2>4
  <2>8. ASSUME NEW i \in J PROVE g[i] = f[i] + d
    <3>1. PICK V : V = S[i] \cap T
      OBVIOUS
    <3>2. S[i] \cap (T \cup {x}) = V \cup {x} /\ x \notin V
      BY <1>5, <2>1, <3>1
    <3>3. IsFiniteSet(V) /\ \A y \in V \cup {x} : share[y] \in Int
      BY <3>1, FS_Subset
    <3>4. Summed(share, V \cup {x}) = Summed(share, V) + share[x]
      BY <3>2, <3>3, SumAdds
    <3> QED
      BY <2>5, <2>6, <2>7, <3>1, <3>2, <3>4
  <2>9. ASSUME NEW i \in I \ J PROVE g[i] = f[i]
    <3>1. S[i] \cap (T \cup {x}) = S[i] \cap T
      BY <2>1
    <3> QED
      BY <2>6, <2>7, <3>1
  <2>10. Summed(f, I) \in Int /\ Summed(g, I) = Summed(f, I) + whole
    <3>1. Shifts(f, g, I, J, d)
      BY <2>6, <2>8, <2>9 DEF Shifts
    <3>2. Cardinality(J) * d = whole
      BY <2>1, <2>5
    <3> QED
      BY <3>1, <3>2, SumShifts
  <2>12. Summed(f, I) = whole * Cardinality(T)
    BY <1>3, <1>5, <2>3
  <2>13. IsFiniteSet(T)
    BY FS_Subset
  <2>14. PICK c \in Nat : c = Cardinality(T)
    BY <2>13, FS_CardinalityType
  <2>15. Cardinality(T \cup {x}) = c + 1
    BY <1>5, <2>13, <2>14, FS_AddElement
  <2>16. whole * (c + 1) = whole * c + whole
    OBVIOUS
  <2>17. Summed(g, I) = whole * Cardinality(T \cup {x})
    BY <2>10, <2>12, <2>14, <2>15, <2>16
  <2> QED
    BY <1>3, <2>2, <2>4, <2>17
<1>6. A \in Holding
  BY <1>4, <1>5, OneByOne
<1>7. ASSUME NEW i \in I
      PROVE  Tally([x \in S[i] \cap A |-> share[x]]) = Summed(share, S[i] \cap A)
  <2>1. PICK V : V = S[i] \cap A
    OBVIOUS
  <2>2. PICK w : w = [x \in V |-> share[x]]
    OBVIOUS
  <2>3. IsFiniteSet(V) /\ \A x \in V : w[x] = share[x] /\ w[x] \in Int
    BY <2>1, <2>2, FS_Subset
  <2>4. Tally(w) = Summed(w, V)
    BY <2>2, TallyIs
  <2>5. Summed(w, V) = Summed(share, V)
    BY <2>3, SumAgrees
  <2> QED
    BY <2>1, <2>2, <2>4, <2>5
<1>8. PICK f : f = [i \in I |-> Tally([x \in S[i] \cap A |-> share[x]])]
  OBVIOUS
<1>9. \A i \in I : f[i] = of[A][i] /\ f[i] \in Int
  <2>1. A \in SUBSET A
    OBVIOUS
  <2>2. \A i \in I : of[A][i] = Summed(share, S[i] \cap A) /\ of[A][i] \in Int
    BY <1>2, <2>1
  <2> QED
    BY <1>7, <1>8, <2>2
<1>10. Summed(f, I) = Summed(of[A], I)
  BY <1>9, SumAgrees
<1>11. Tally(f) = Summed(f, I)
  BY <1>8, TallyIs
<1> QED
  BY <1>3, <1>6, <1>8, <1>10, <1>11

-----------------------------------------------------------------------------
(* A cycle of the replay, and what it adds to the counts.                  *)

\* A cycle of the replay: its rings come out of a dictionary, and each of them
\* has accounts.
IsTable(t) ==
  /\ t \in Seq(ToSet(t))
  /\ \A r, s \in ToSet(t) : r.ring = s.ring => r = s
  /\ \A r \in ToSet(t) : r.ring \in Rings /\ IsFiniteSet(r.members) /\ r.members # {}

IsCycle(c) ==
  /\ c = [t |-> c.t, rings |-> c.rings, seeds |-> c.seeds, queue |-> c.queue, cheat |-> c.cheat]
  /\ c.t \in Nat /\ IsTable(c.rings) /\ IsQueue(c.queue)

LEMMA EvaluationConstants ==
  /\ IsFiniteSet(Rings) /\ NoRing \notin Rings
  /\ Ks \subseteq DeepKs /\ DeepKs \subseteq Nat \ {0} /\ RANK_K \in Ks
  /\ Deepest(Ks) \in Ks /\ \A k \in Ks : k \in Nat /\ k > 0 /\ k <= Deepest(Ks)
  /\ Deepest(DeepKs) \in DeepKs
  /\ \A k \in DeepKs : k \in Nat /\ k > 0 /\ k <= Deepest(DeepKs)
  /\ MaxCycles \in Nat /\ MaxQueryRows \in Nat /\ MIN_RING_NODES \in Nat \ {0}
<1>1. /\ IsFiniteSet(DOMAIN TypologyOf) /\ "none" \notin DOMAIN TypologyOf
      /\ Ks \subseteq DeepKs /\ DeepKs \subseteq Nat \ {0} /\ IsFiniteSet(DeepKs)
      /\ RANK_K \in Ks
      /\ MaxCycles \in Nat /\ MaxQueryRows \in Nat /\ MIN_RING_NODES \in Nat \ {0}
  BY EvaluationAssumption
<1>2. /\ Ks \subseteq Int /\ Ks # {} /\ IsFiniteSet(Ks)
      /\ DeepKs \subseteq Int /\ DeepKs # {}
  <2>1. Ks \in SUBSET DeepKs /\ IsFiniteSet(DeepKs)
    BY <1>1
  <2>2. IsFiniteSet(Ks)
    BY ONLY <2>1, FS_Subset
  <2>3. Nat \ {0} \subseteq Int
    OBVIOUS
  <2> QED
    BY <1>1, <2>2, <2>3
<1>3. Max(Ks) \in Ks /\ \A k \in Ks : Max(Ks) >= k
  BY <1>2, Extremes
<1>4. Max(DeepKs) \in DeepKs /\ \A k \in DeepKs : Max(DeepKs) >= k
  BY <1>1, <1>2, Extremes
<1>5. IsFiniteSet(Rings) /\ NoRing \notin Rings
  BY <1>1 DEF Rings, NoRing
<1>6. Deepest(Ks) = Max(Ks) /\ Deepest(DeepKs) = Max(DeepKs)
  BY DEF Deepest
<1>7. \A k \in Ks : k \in Nat /\ k > 0 /\ k <= Deepest(Ks)
  <2> SUFFICES ASSUME NEW k \in Ks PROVE k \in Nat /\ k > 0 /\ k <= Max(Ks)
    BY <1>6
  <2>1. k \in Nat \ {0} /\ Max(Ks) >= k /\ Max(Ks) \in Nat
    BY <1>1, <1>3
  <2> QED
    BY ONLY <2>1
<1>8. \A k \in DeepKs : k \in Nat /\ k > 0 /\ k <= Deepest(DeepKs)
  <2> SUFFICES ASSUME NEW k \in DeepKs PROVE k \in Nat /\ k > 0 /\ k <= Max(DeepKs)
    BY <1>6
  <2>1. k \in Nat \ {0} /\ Max(DeepKs) >= k /\ Max(DeepKs) \in Nat
    BY <1>1, <1>4
  <2> QED
    BY ONLY <2>1
<1> QED
  BY <1>1, <1>3, <1>4, <1>5, <1>6, <1>7, <1>8

LEMMA OwnSequence ==
  ASSUME NEW T, NEW s \in Seq(T)
  PROVE  /\ s \in Seq(ToSet(s)) /\ Len(s) \in Nat /\ DOMAIN s = 1..Len(s)
         /\ ToSet(s) \in SUBSET T /\ \A i \in DOMAIN s : s[i] \in ToSet(s)
         /\ \A x \in ToSet(s) : \E i \in DOMAIN s : x = s[i]
<1>1. PICK n \in Nat : n = Len(s)
  OBVIOUS
<1>2. DOMAIN s = 1..n /\ s \in [1..n -> T]
  BY <1>1
<1>3. /\ ToSet(s) \in SUBSET T /\ \A i \in DOMAIN s : s[i] \in ToSet(s)
      /\ \A x \in ToSet(s) : \E i \in DOMAIN s : x = s[i]
  BY <1>2 DEF ToSet
<1>4. s \in [1..n -> ToSet(s)]
  BY <1>2, <1>3
<1>5. s \in Seq(ToSet(s))
  BY <1>4, AsSequence
<1> QED
  BY <1>1, <1>2, <1>3, <1>5

LEMMA OnlyOwn ==
  ASSUME NEW s, s \in Seq(ToSet(s)), NEW W
  PROVE  /\ Only(s, W) \in Seq(ToSet(Only(s, W)))
         /\ \A x : x \in ToSet(Only(s, W)) <=> x \in ToSet(s) /\ x \in W
<1>1. PICK o : o = Only(s, W)
  OBVIOUS
<1>2. o \in Seq(ToSet(s))
  BY <1>1, OnlyIs
<1>3. /\ \A n \in DOMAIN o : o[n] \in W /\ \E i \in DOMAIN s : o[n] = s[i]
      /\ \A i \in DOMAIN s : s[i] \in W => \E n \in DOMAIN o : o[n] = s[i]
  BY <1>1, OnlyIs
<1>4. o \in Seq(ToSet(o))
  BY <1>2, OwnSequence
<1>5. \A x : x \in ToSet(o) <=> x \in ToSet(s) /\ x \in W
  BY <1>3 DEF ToSet
<1> QED
  BY <1>1, <1>4, <1>5

LEMMA ActiveAre ==
  ASSUME NEW traffic \in Traffics
  PROVE  IsTable(active_rings(traffic))
<1>1. RingTable(traffic)
  BY EvaluationAssumption
<1>2. /\ traffic \in Seq(ToSet(traffic))
      /\ \A r, s \in ToSet(traffic) : r.ring = s.ring => r = s
      /\ \A r \in ToSet(traffic) : r.ring \in Rings /\ IsFiniteSet(r.members)
  BY <1>1 DEF RingTable, Rings
<1>3. PICK W : W = {r \in ToSet(traffic) : Cardinality(r.members) >= MIN_RING_NODES}
  OBVIOUS
<1>4. PICK o : o = Only(traffic, W)
  OBVIOUS
<1>5. o \in Seq(ToSet(o)) /\ \A x : x \in ToSet(o) <=> x \in ToSet(traffic) /\ x \in W
  BY <1>2, <1>4, OnlyOwn
<1>6. ASSUME NEW r \in ToSet(o)
      PROVE  r.ring \in Rings /\ IsFiniteSet(r.members) /\ r.members # {}
  <2>1. r \in ToSet(traffic) /\ Cardinality(r.members) >= MIN_RING_NODES
    BY <1>3, <1>5
  <2>2. Cardinality(r.members) # 0
    BY <2>1, EvaluationConstants
  <2>3. r.members # {}
    BY <2>2, FS_EmptySet
  <2> QED
    BY <1>2, <2>1, <2>3
<1>7. \A r, s \in ToSet(o) : r.ring = s.ring => r = s
  BY <1>2, <1>5
<1>8. active_rings(traffic) = o
  BY <1>3, <1>4 DEF active_rings
<1> QED
  BY <1>5, <1>6, <1>7, <1>8 DEF IsTable

LEMMA HitsAre ==
  ASSUME NEW t, IsTable(t), NEW nodes
  PROVE  /\ Hits(nodes, t) \in SUBSET RingIds(t) /\ RingIds(t) \in SUBSET Rings
         /\ \A r \in ToSet(t) : r.ring \in RingIds(t)
         /\ \A r \in ToSet(t) : r.ring \in Hits(nodes, t) <=> is_hit(nodes, r.members)
         /\ \A x \in RingIds(t) : \E r \in ToSet(t) : x = r.ring
<1>1. /\ \A r, s \in ToSet(t) : r.ring = s.ring => r = s
      /\ \A r \in ToSet(t) : r.ring \in Rings
  BY DEF IsTable
<1>2. RingIds(t) = {r.ring : r \in ToSet(t)}
  BY DEF RingIds
<1>3. Hits(nodes, t) = {r.ring : r \in {s \in ToSet(t) : is_hit(nodes, s.members)}}
  BY DEF Hits
<1>4. \A r \in ToSet(t) : r.ring \in Hits(nodes, t) <=> is_hit(nodes, r.members)
  BY <1>1, <1>3
<1> QED
  BY <1>1, <1>2, <1>3, <1>4

LEMMA LabelIs ==
  ASSUME NEW t, IsTable(t), NEW nodes
  PROVE  /\ label_candidate(nodes, t) = NoRing <=> Hits(nodes, t) = {}
         /\ label_candidate(nodes, t) # NoRing => label_candidate(nodes, t) \in Hits(nodes, t)
<1>1. PICK W : W = {r \in ToSet(t) : is_hit(nodes, r.members)}
  OBVIOUS
<1>2. PICK hit : hit = Only(t, W)
  OBVIOUS
<1>3. t \in Seq(ToSet(t)) /\ \A r \in ToSet(t) : r.ring \in Rings
  BY DEF IsTable
<1>4. hit \in Seq(ToSet(hit)) /\ \A x : x \in ToSet(hit) <=> x \in ToSet(t) /\ x \in W
  BY <1>2, <1>3, OnlyOwn
<1>5. label_candidate(nodes, t) = IF hit = <<>> THEN NoRing ELSE hit[1].ring
  BY <1>1, <1>2 DEF label_candidate
<1>6. Hits(nodes, t) = {r.ring : r \in W}
  BY <1>1 DEF Hits
<1>7. CASE hit = <<>>
  <2>1. ToSet(hit) = {}
    BY <1>7 DEF ToSet
  <2>2. W = {}
    BY <1>1, <1>4, <2>1
  <2> QED
    BY <1>5, <1>6, <1>7, <2>2
<1>8. CASE hit # <<>>
  <2>1. 1 \in DOMAIN hit
    BY <1>4, <1>8
  <2>2. hit[1] \in ToSet(hit)
    BY <2>1 DEF ToSet
  <2>3. hit[1] \in W /\ hit[1].ring \in Rings
    BY <1>3, <1>4, <2>2
  <2>4. hit[1].ring # NoRing
    BY <2>3, EvaluationConstants
  <2> QED
    <3>1. hit[1].ring \in Hits(nodes, t)
      BY <1>6, <2>3
    <3>2. label_candidate(nodes, t) = hit[1].ring
      BY <1>5, <1>8
    <3> QED
      BY <2>4, <3>1, <3>2
<1> QED
  BY <1>7, <1>8

LEMMA UptoIs ==
  ASSUME NEW T, NEW q \in Seq(T), NEW k \in Nat
  PROVE  /\ Upto(k, q) = {i \in DOMAIN q : i <= k} /\ IsFiniteSet(Upto(k, q))
         /\ Cardinality(Upto(k, q)) \in Nat /\ Cardinality(Upto(k, q)) = Min({k, Len(q)})
         /\ Len(q) \in Nat /\ DOMAIN q = 1..Len(q)
<1>1. PICK n \in Nat : n = Len(q)
  OBVIOUS
<1>2. DOMAIN q = 1..n
  BY <1>1
<1>3. PICK m : m = Min({k, n})
  OBVIOUS
<1>4. (m = k \/ m = n) /\ m <= k /\ m <= n
  <2>1. k \in Int /\ n \in Int
    OBVIOUS
  <2>2. Min({k, n}) \in {k, n} /\ Min({k, n}) <= k /\ Min({k, n}) <= n
    BY <2>1, LesserIs
  <2> QED
    BY <1>3, <2>2
<1>5. m \in Nat
  BY <1>4
<1>6. Upto(k, q) = 1..m
  BY <1>1, <1>3 DEF Upto
<1>7. 1..m = {i \in 1..n : i <= k}
  BY <1>4, <1>5
<1>8. IsFiniteSet(1..m) /\ Cardinality(1..m) = m
  BY <1>5, UpTo
<1> QED
  BY <1>1, <1>2, <1>3, <1>5, <1>6, <1>7, <1>8

\* What a cycle adds to the counts.
LEMMA CycleCounts ==
  ASSUME NEW c, IsCycle(c)
  PROVE  /\ RingIds(c.rings) \in SUBSET Rings
         /\ \A k \in Nat : /\ FoundUpto(k, c) \in SUBSET RingIds(c.rings)
                           /\ HitsUpto(k, c) \in SUBSET Upto(k, c.queue)
                           /\ IsFiniteSet(HitsUpto(k, c))
                           /\ Cardinality(HitsUpto(k, c)) \in Nat
                           /\ Cardinality(Upto(k, c.queue)) \in Nat
                           /\ Cardinality(HitsUpto(k, c)) <= Cardinality(Upto(k, c.queue))
         /\ c.rings = <<>> => /\ RingIds(c.rings) = {}
                              /\ \A k \in Nat : Cardinality(HitsUpto(k, c)) = 0
         /\ c.queue = <<>> => \A k \in Nat : /\ FoundUpto(k, c) = {}
                                             /\ Cardinality(HitsUpto(k, c)) = 0
                                             /\ Cardinality(Upto(k, c.queue)) = 0
<1>1. IsTable(c.rings) /\ c.queue \in Seq(ToSet(c.queue))
  BY DEF IsCycle, IsQueue
<1>2. RingIds(c.rings) \in SUBSET Rings /\ \A nodes : Hits(nodes, c.rings) \in SUBSET RingIds(c.rings)
  BY <1>1, HitsAre
<1>3. ASSUME NEW k \in Nat
      PROVE  /\ FoundUpto(k, c) \in SUBSET RingIds(c.rings)
             /\ HitsUpto(k, c) \in SUBSET Upto(k, c.queue)
             /\ IsFiniteSet(HitsUpto(k, c))
             /\ Cardinality(HitsUpto(k, c)) \in Nat
             /\ Cardinality(Upto(k, c.queue)) \in Nat
             /\ Cardinality(HitsUpto(k, c)) <= Cardinality(Upto(k, c.queue))
  <2>1. IsFiniteSet(Upto(k, c.queue))
    BY <1>1, UptoIs
  <2>2. HitsUpto(k, c) \in SUBSET Upto(k, c.queue)
    BY DEF HitsUpto
  <2>3. FoundUpto(k, c) \in SUBSET RingIds(c.rings)
    BY <1>2 DEF FoundUpto
  <2> QED
    BY <2>1, <2>2, <2>3, FewerThan
<1>4. ASSUME c.rings = <<>>
      PROVE  RingIds(c.rings) = {} /\ \A k \in Nat : Cardinality(HitsUpto(k, c)) = 0
  <2>1. RingIds(c.rings) = {}
    BY <1>4 DEF RingIds, ToSet
  <2>2. \A k \in Nat : HitsUpto(k, c) = {}
    BY <1>2, <2>1 DEF HitsUpto
  <2> QED
    BY <2>1, <2>2, FS_EmptySet
<1>5. ASSUME c.queue = <<>>
      PROVE  \A k \in Nat : /\ FoundUpto(k, c) = {}
                            /\ Cardinality(HitsUpto(k, c)) = 0
                            /\ Cardinality(Upto(k, c.queue)) = 0
  <2>1. \A k \in Nat : Upto(k, c.queue) = {}
    <3> SUFFICES ASSUME NEW k \in Nat PROVE Upto(k, c.queue) = {}
      OBVIOUS
    <3>1. Upto(k, c.queue) = {i \in DOMAIN c.queue : i <= k}
      BY <1>1, UptoIs
    <3>2. DOMAIN c.queue = {}
      BY <1>5
    <3> QED
      BY <3>1, <3>2
  <2>2. \A k \in Nat : FoundUpto(k, c) = {} /\ HitsUpto(k, c) = {}
    BY <2>1 DEF FoundUpto, HitsUpto
  <2> QED
    BY <2>1, <2>2, FS_EmptySet
<1> QED
  BY <1>2, <1>3, <1>4, <1>5

LEMMA FoundIs ==
  ASSUME NEW c, IsCycle(c), NEW k \in Nat
  PROVE  /\ \A r : r \in FoundUpto(k, c) <=>
                     \E i \in DOMAIN c.queue : i <= k /\ r \in Hits(c.queue[i], c.rings)
         /\ \A j \in Nat : j <= k => FoundUpto(j, c) \in SUBSET FoundUpto(k, c)
         /\ FoundUpto(k, c) \in SUBSET FoundUpto(Len(c.queue), c)
         /\ \A r : r \in FoundUpto(Len(c.queue), c) <=>
                     \E i \in DOMAIN c.queue : r \in Hits(c.queue[i], c.rings)
<1>1. c.queue \in Seq(ToSet(c.queue))
  BY DEF IsCycle, IsQueue
<1>2. \A j \in Nat : Upto(j, c.queue) = {i \in DOMAIN c.queue : i <= j}
  BY <1>1, UptoIs
<1>3. Len(c.queue) \in Nat /\ DOMAIN c.queue = 1..Len(c.queue)
  BY <1>1
<1>4. ASSUME NEW j \in Nat
      PROVE  \A r : r \in FoundUpto(j, c) <=>
                     \E i \in DOMAIN c.queue : i <= j /\ r \in Hits(c.queue[i], c.rings)
  <2>1. Upto(j, c.queue) = {i \in DOMAIN c.queue : i <= j}
    BY <1>2
  <2> QED
    BY <2>1 DEF FoundUpto
<1>5. \A j \in Nat : j <= k => FoundUpto(j, c) \in SUBSET FoundUpto(k, c)
  BY <1>3, <1>4
<1>6. \A r : r \in FoundUpto(Len(c.queue), c) <=>
               \E i \in DOMAIN c.queue : r \in Hits(c.queue[i], c.rings)
  BY <1>3, <1>4
<1>7. FoundUpto(k, c) \in SUBSET FoundUpto(Len(c.queue), c)
  BY <1>4, <1>6
<1> QED
  BY <1>4, <1>5, <1>6, <1>7

-----------------------------------------------------------------------------
(* The funnel, the headline and the gate.                                  *)

\* The funnel's records.
RecordType ==
  [seen : SUBSET Rings, found : [Ks -> SUBSET Rings], hit : [Ks -> Nat], tot : [Ks -> Nat]]

CountType(ks) ==
  [seen : SUBSET Rings, found : SUBSET Rings, hit : [ks -> Nat], tot : [ks -> Nat]]

SeenOf(rs) == UNION {rs[i].seen : i \in DOMAIN rs}

FoundOf(rs, k) == UNION {rs[i].found[k] : i \in DOMAIN rs}

HitOf(rs, k) == Tally([i \in DOMAIN rs |-> rs[i].hit[k]])

TotOf(rs, k) == Tally([i \in DOMAIN rs |-> rs[i].tot[k]])

RecordOf(c) ==
  [seen |-> RingIds(c.rings),
   found |-> [k \in Ks |-> FoundUpto(k, c)],
   hit |-> [k \in Ks |-> Cardinality(HitsUpto(k, c))],
   tot |-> [k \in Ks |-> Cardinality(Upto(k, c.queue))]]

LEMMA RecordIs ==
  ASSUME NEW c, IsCycle(c)
  PROVE  RecordOf(c) \in RecordType /\ \A k \in Ks : RecordOf(c).found[k] \in SUBSET RecordOf(c).seen
<1>1. /\ RingIds(c.rings) \in SUBSET Rings
      /\ \A k \in Ks : /\ FoundUpto(k, c) \in SUBSET RingIds(c.rings)
                       /\ Cardinality(HitsUpto(k, c)) \in Nat
                       /\ Cardinality(Upto(k, c.queue)) \in Nat
  BY CycleCounts, EvaluationConstants
<1>2. \A k \in Ks : FoundUpto(k, c) \in SUBSET Rings
  BY <1>1
<1>3. PICK f : f = [k \in Ks |-> FoundUpto(k, c)]
  OBVIOUS
<1>4. PICK h : h = [k \in Ks |-> Cardinality(HitsUpto(k, c))]
  OBVIOUS
<1>5. PICK n : n = [k \in Ks |-> Cardinality(Upto(k, c.queue))]
  OBVIOUS
<1>6. f \in [Ks -> SUBSET Rings] /\ h \in [Ks -> Nat] /\ n \in [Ks -> Nat]
  BY <1>1, <1>2, <1>3, <1>4, <1>5
<1>7. RecordOf(c) = [seen |-> RingIds(c.rings), found |-> f, hit |-> h, tot |-> n]
  BY <1>3, <1>4, <1>5 DEF RecordOf
<1>8. RecordOf(c) \in RecordType
  BY <1>1, <1>6, <1>7 DEF RecordType
<1>9. \A k \in Ks : RecordOf(c).found[k] \in SUBSET RecordOf(c).seen
  BY <1>1, <1>3, <1>7
<1> QED
  BY <1>8, <1>9

Grows(rs, r, more) == rs \in Seq(RecordType) /\ r \in RecordType /\ more = Append(rs, r)

LEMMA RecordsGrow ==
  ASSUME NEW k \in Ks, NEW rs, NEW r, NEW more, Grows(rs, r, more)
  PROVE  /\ SeenOf(more) = SeenOf(rs) \cup r.seen
         /\ FoundOf(more, k) = FoundOf(rs, k) \cup r.found[k]
         /\ HitOf(more, k) = HitOf(rs, k) + r.hit[k] /\ HitOf(rs, k) \in Int
         /\ TotOf(more, k) = TotOf(rs, k) + r.tot[k] /\ TotOf(rs, k) \in Int
<1>0. rs \in Seq(RecordType) /\ r \in RecordType /\ more = Append(rs, r)
  BY DEF Grows
<1>1. PICK n \in Nat : n = Len(rs)
  BY <1>0
<1>2. /\ DOMAIN rs = 1..n /\ DOMAIN more = 1..(n + 1) /\ more[n + 1] = r
      /\ \A i \in 1..n : more[i] = rs[i] /\ rs[i] \in RecordType
  BY <1>0, <1>1
<1>3. DOMAIN more = DOMAIN rs \cup {n + 1}
  BY <1>2
<1>4. SeenOf(more) = SeenOf(rs) \cup r.seen
  BY <1>2, <1>3 DEF SeenOf
<1>5. FoundOf(more, k) = FoundOf(rs, k) \cup r.found[k]
  BY <1>2, <1>3 DEF FoundOf
<1>6. \A i \in 1..n : rs[i].hit[k] \in Int /\ rs[i].tot[k] \in Int
  BY <1>2 DEF RecordType
<1>7. r.hit[k] \in Int /\ r.tot[k] \in Int
  BY <1>0 DEF RecordType
<1>8. HitOf(more, k) = HitOf(rs, k) + r.hit[k] /\ HitOf(rs, k) \in Int
  <2>1. PICK f : f = [i \in DOMAIN rs |-> rs[i].hit[k]]
    OBVIOUS
  <2>2. PICK g : g = [i \in DOMAIN more |-> more[i].hit[k]]
    OBVIOUS
  <2>3. DOMAIN f = 1..n /\ DOMAIN g = 1..(n + 1) /\ g[n + 1] = r.hit[k]
    BY <1>2, <1>3, <2>1, <2>2
  <2>4. \A i \in 1..n : f[i] \in Int /\ g[i] = f[i]
    BY <1>2, <1>3, <1>6, <2>1, <2>2
  <2>5. Tally(g) = Tally(f) + g[n + 1] /\ Tally(f) \in Int
    BY <1>7, <2>3, <2>4, TallyGrows
  <2> QED
    BY <2>1, <2>2, <2>3, <2>5 DEF HitOf
<1>9. TotOf(more, k) = TotOf(rs, k) + r.tot[k] /\ TotOf(rs, k) \in Int
  <2>1. PICK f : f = [i \in DOMAIN rs |-> rs[i].tot[k]]
    OBVIOUS
  <2>2. PICK g : g = [i \in DOMAIN more |-> more[i].tot[k]]
    OBVIOUS
  <2>3. DOMAIN f = 1..n /\ DOMAIN g = 1..(n + 1) /\ g[n + 1] = r.tot[k]
    BY <1>2, <1>3, <2>1, <2>2
  <2>4. \A i \in 1..n : f[i] \in Int /\ g[i] = f[i]
    BY <1>2, <1>3, <1>6, <2>1, <2>2
  <2>5. Tally(g) = Tally(f) + g[n + 1] /\ Tally(f) \in Int
    BY <1>7, <2>3, <2>4, TallyGrows
  <2> QED
    BY <2>1, <2>2, <2>3, <2>5 DEF TotOf
<1> QED
  BY <1>4, <1>5, <1>8, <1>9

LEMMA ObservedIs ==
  ASSUME NEW c, IsCycle(c)
  PROVE  /\ observe_cycle(c) \in SUBSET (Rings \X STAGES)
         /\ \A r : <<r, "seed_reachable">> \in observe_cycle(c) <=> r \in RingIds(c.rings)
         /\ \A r : <<r, "seeded">> \in observe_cycle(c) <=>
                     \E s \in ToSet(c.rings) : s.ring = r /\ s.members \cap c.seeds # {}
         /\ \A r : <<r, "built">> \in observe_cycle(c) <=> r \in FoundUpto(Len(c.queue), c)
         /\ \A r : <<r, "ranked">> \in observe_cycle(c) <=> r \in FoundUpto(RANK_K, c)
         /\ \A r : r \in FoundUpto(RANK_K, c) => r \in FoundUpto(Len(c.queue), c)
<1>1. PICK a : a = {<<r.ring, "seed_reachable">> : r \in ToSet(c.rings)}
  OBVIOUS
<1>2. PICK b : b = {<<r.ring, "seeded">> : r \in {s \in ToSet(c.rings) : s.members \cap c.seeds # {}}}
  OBVIOUS
<1>3. PICK d : d = {<<r, "built">> : r \in FoundUpto(Len(c.queue), c)}
  OBVIOUS
<1>4. PICK e : e = {<<r, "ranked">> : r \in FoundUpto(RANK_K, c)}
  OBVIOUS
<1>5. observe_cycle(c) = a \cup b \cup d \cup e
  BY <1>1, <1>2, <1>3, <1>4 DEF observe_cycle, Ranked
<1>6. IsTable(c.rings) /\ c.queue \in Seq(ToSet(c.queue)) /\ RANK_K \in Nat
  BY EvaluationConstants DEF IsCycle, IsQueue
<1>7. Len(c.queue) \in Nat
  BY <1>6
<1>8. /\ FoundUpto(RANK_K, c) \in SUBSET Rings
      /\ FoundUpto(Len(c.queue), c) \in SUBSET Rings
      /\ FoundUpto(RANK_K, c) \in SUBSET FoundUpto(Len(c.queue), c)
      /\ \A r \in ToSet(c.rings) : r.ring \in Rings
  <2>1. RingIds(c.rings) \in SUBSET Rings /\ \A r \in ToSet(c.rings) : r.ring \in RingIds(c.rings)
    BY <1>6, HitsAre
  <2>2. /\ FoundUpto(RANK_K, c) \in SUBSET RingIds(c.rings)
        /\ FoundUpto(Len(c.queue), c) \in SUBSET RingIds(c.rings)
    BY <1>6, <1>7, CycleCounts
  <2>3. FoundUpto(RANK_K, c) \in SUBSET FoundUpto(Len(c.queue), c)
    BY <1>6, FoundIs
  <2> QED
    BY <2>1, <2>2, <2>3
<1>9. a \in SUBSET (Rings \X STAGES) /\ b \in SUBSET (Rings \X STAGES)
  BY <1>1, <1>2, <1>8 DEF STAGES
<1>10. d \in SUBSET (Rings \X STAGES) /\ e \in SUBSET (Rings \X STAGES)
  BY <1>3, <1>4, <1>8 DEF STAGES
<1>11. \A r : <<r, "seed_reachable">> \in a \cup b \cup d \cup e <=> r \in RingIds(c.rings)
  BY <1>1, <1>2, <1>3, <1>4 DEF RingIds
<1>12. \A r : <<r, "seeded">> \in a \cup b \cup d \cup e <=>
                \E s \in ToSet(c.rings) : s.ring = r /\ s.members \cap c.seeds # {}
  BY <1>1, <1>2, <1>3, <1>4
<1>13. \A r : <<r, "built">> \in a \cup b \cup d \cup e <=> r \in FoundUpto(Len(c.queue), c)
  BY <1>1, <1>2, <1>3, <1>4
<1>14. \A r : <<r, "ranked">> \in a \cup b \cup d \cup e <=> r \in FoundUpto(RANK_K, c)
  BY <1>1, <1>2, <1>3, <1>4
<1> QED
  BY <1>5, <1>8, <1>9, <1>10, <1>11, <1>12, <1>13, <1>14

\* A step of the replay.
Ticks(c) == IsCycle(c) /\ c.t = cycles + 1 /\ cycles' = cycles + 1 /\ cycles < MaxCycles

Replays(c) ==
  /\ Ticks(c) /\ c.seeds \in Seedings /\ c.queue \in Queues
  /\ FunnelCycle(c) /\ Phase2Cycle(c) /\ BandCycle(c) /\ GateCycle(c)
  /\ PoolCycle(c) /\ DiffCycle(c) /\ LinkCycle(c) /\ ArmsCycle(c)

LEMMA CycleIs ==
  ASSUME cycles \in Nat, GenerationCycle PROVE \E c : Replays(c)
<1>1. PICK traffic \in Traffics, seeds \in Seedings, queue \in Queues :
        LET c == [t |-> cycles + 1, rings |-> active_rings(traffic),
                  seeds |-> seeds, queue |-> queue, cheat |-> CheatPools[queue]]
        IN /\ FunnelCycle(c) /\ Phase2Cycle(c) /\ BandCycle(c)
           /\ GateCycle(c) /\ PoolCycle(c) /\ DiffCycle(c)
           /\ LinkCycle(c) /\ ArmsCycle(c)
  BY DEF GenerationCycle
<1>2. PICK c : c = [t |-> cycles + 1, rings |-> active_rings(traffic),
                    seeds |-> seeds, queue |-> queue, cheat |-> CheatPools[queue]]
  OBVIOUS
<1>3. IsTable(active_rings(traffic)) /\ IsQueue(queue)
  BY ActiveAre, EvaluationAssumption
<1>4. IsCycle(c) /\ c.t = cycles + 1 /\ c.seeds \in Seedings /\ c.queue \in Queues
  BY <1>2, <1>3 DEF IsCycle
<1>5. cycles' = cycles + 1 /\ cycles < MaxCycles
  BY DEF GenerationCycle
<1>6. /\ FunnelCycle(c) /\ Phase2Cycle(c) /\ BandCycle(c) /\ GateCycle(c)
      /\ PoolCycle(c) /\ DiffCycle(c) /\ LinkCycle(c) /\ ArmsCycle(c)
  BY <1>1, <1>2
<1> QED
  BY <1>4, <1>5, <1>6 DEF Replays, Ticks

\* The funnel, eval_phase2 and the gate.
FunnelTyped ==
  /\ cycles \in 0..MaxCycles
  /\ records \in Seq(RecordType) /\ Len(records) <= cycles
  /\ \A i \in DOMAIN records, k \in Ks : records[i].found[k] \in SUBSET records[i].seen
  /\ reached \in SUBSET (Rings \X STAGES)
  /\ phase2 \in CountType(DeepKs) /\ gate \in CountType(Ks)

StagesAreRecords ==
  /\ \A r : <<r, "ranked">> \in reached <=> r \in FoundOf(records, RANK_K)
  /\ \A r : <<r, "seed_reachable">> \in reached <=> r \in SeenOf(records)
  /\ \A r : <<r, "ranked">> \in reached => <<r, "built">> \in reached

CountsAreRecords ==
  /\ SeenOf(records) \in SUBSET phase2.seen /\ phase2.seen = gate.seen
  /\ gate.found = FoundOf(records, Deepest(Ks))
  /\ \A k \in Ks : /\ HitOf(records, k) = phase2.hit[k] /\ TotOf(records, k) = phase2.tot[k]
                   /\ phase2.hit[k] = gate.hit[k] /\ phase2.tot[k] <= gate.tot[k]

DepthsAgree ==
  /\ gate.found \subseteq phase2.found /\ \A r \in phase2.found : <<r, "built">> \in reached
  /\ phase2.hit[Deepest(Ks)] <= phase2.hit[Deepest(DeepKs)]
  /\ phase2.hit[Deepest(DeepKs)] = phase2.hit[Deepest(Ks)] => phase2.found = gate.found

FunnelInv == FunnelTyped /\ StagesAreRecords /\ CountsAreRecords /\ DepthsAgree

LEMMA FunnelCycleIs ==
  ASSUME NEW c, IsCycle(c), FunnelCycle(c)
  PROVE  /\ c.rings = <<>> \/ c.queue = <<>> => reached' = reached /\ records' = records
         /\ c.rings # <<>> /\ c.queue # <<>> =>
              reached' = reached \cup observe_cycle(c) /\ records' = Append(records, RecordOf(c))
BY DEF FunnelCycle, RecordOf

LEMMA TalliedIs ==
  ASSUME NEW ks, ks \in {Ks, DeepKs}, NEW was, was \in CountType(ks), NEW c, IsCycle(c)
  PROVE  /\ Seen(was, c) \in CountType(ks) /\ Tallied(ks, was, c) \in CountType(ks)
         /\ Seen(was, c) = [seen |-> was.seen \cup RingIds(c.rings), found |-> was.found,
                            hit |-> was.hit, tot |-> was.tot]
         /\ Tallied(ks, was, c).seen = was.seen
         /\ Tallied(ks, was, c).found = was.found \cup FoundUpto(Deepest(ks), c)
         /\ \A k \in ks :
              /\ Tallied(ks, was, c).hit[k] = was.hit[k] + Cardinality(HitsUpto(k, c))
              /\ Tallied(ks, was, c).tot[k] = was.tot[k] + Cardinality(Upto(k, c.queue))
<1>1. was = [seen |-> was.seen, found |-> was.found, hit |-> was.hit, tot |-> was.tot]
  BY DEF CountType
<1>2. /\ was.seen \in SUBSET Rings /\ was.found \in SUBSET Rings
      /\ was.hit \in [ks -> Nat] /\ was.tot \in [ks -> Nat]
  BY DEF CountType
<1>3. /\ RingIds(c.rings) \in SUBSET Rings
      /\ \A k \in ks : /\ Cardinality(HitsUpto(k, c)) \in Nat
                       /\ Cardinality(Upto(k, c.queue)) \in Nat
  BY CycleCounts, EvaluationConstants
<1>4. FoundUpto(Deepest(ks), c) \in SUBSET Rings
  <2>1. Deepest(ks) \in Nat
    BY EvaluationConstants
  <2>2. FoundUpto(Deepest(ks), c) \in SUBSET RingIds(c.rings)
    BY <2>1, CycleCounts
  <2> QED
    BY <1>3, <2>2
<1>5. PICK h : h = [k \in ks |-> was.hit[k] + Cardinality(HitsUpto(k, c))]
  OBVIOUS
<1>6. PICK n : n = [k \in ks |-> was.tot[k] + Cardinality(Upto(k, c.queue))]
  OBVIOUS
<1>7. h \in [ks -> Nat] /\ n \in [ks -> Nat]
  BY <1>2, <1>3, <1>5, <1>6
<1>8. Tallied(ks, was, c) = [seen |-> was.seen, found |-> was.found \cup FoundUpto(Deepest(ks), c),
                         hit |-> h, tot |-> n]
  <2>1. PICK a, b, x, y : was = [seen |-> a, found |-> b, hit |-> x, tot |-> y]
    BY <1>1
  <2>2. PICK F : F = was.found \cup FoundUpto(Deepest(ks), c)
    OBVIOUS
  <2>3. Tallied(ks, was, c) = [was EXCEPT !.found = F, !.hit = h, !.tot = n]
    BY <1>5, <1>6, <2>2 DEF Tallied
  <2>4. [was EXCEPT !.found = F, !.hit = h, !.tot = n]
          = [seen |-> a, found |-> F, hit |-> h, tot |-> n]
    <3>1. PICK e : e = [was EXCEPT !.found = F, !.hit = h, !.tot = n]
      OBVIOUS
    <3>2. e.seen = a /\ e.found = F
      BY <2>1, <3>1
    <3>3. e.hit = h /\ e.tot = n
      BY <2>1, <3>1
    <3>4. DOMAIN e = {"seen", "found", "hit", "tot"}
      BY <2>1, <3>1
    <3>5. e = [i \in DOMAIN e |-> e[i]]
      BY <3>1
    <3> QED
      BY <3>1, <3>2, <3>3, <3>4, <3>5
  <2>5. was.seen = a
    BY <2>1
  <2> QED
    BY <2>2, <2>3, <2>4, <2>5, Zenon
<1>9. Seen(was, c) = [seen |-> was.seen \cup RingIds(c.rings), found |-> was.found,
                      hit |-> was.hit, tot |-> was.tot]
  <2>1. PICK a, b, x, y : was = [seen |-> a, found |-> b, hit |-> x, tot |-> y]
    BY <1>1
  <2>2. Seen(was, c) = [was EXCEPT !.seen = a \cup RingIds(c.rings)]
    BY <2>1 DEF Seen
  <2> QED
    BY <2>1, <2>2
<1>10. Seen(was, c) \in CountType(ks)
  BY <1>2, <1>3, <1>9 DEF CountType
<1>11. Tallied(ks, was, c) \in CountType(ks)
  BY <1>2, <1>4, <1>7, <1>8 DEF CountType
<1> QED
  BY <1>5, <1>6, <1>8, <1>9, <1>10, <1>11

\* What a cycle makes of the two tallies.
LEMMA TalliesStep ==
  ASSUME NEW c, IsCycle(c), phase2 \in CountType(DeepKs), gate \in CountType(Ks),
         Phase2Cycle(c), GateCycle(c)
  PROVE  /\ phase2' \in CountType(DeepKs) /\ gate' \in CountType(Ks)
         /\ phase2'.seen = phase2.seen \cup RingIds(c.rings)
         /\ gate'.seen = gate.seen \cup RingIds(c.rings)
         /\ c.rings = <<>> \/ c.queue = <<>> =>
              /\ phase2'.found = phase2.found /\ gate'.found = gate.found
              /\ \A k \in DeepKs : phase2'.hit[k] = phase2.hit[k] /\ phase2'.tot[k] = phase2.tot[k]
              /\ \A k \in Ks : gate'.hit[k] = gate.hit[k] /\ gate'.tot[k] >= gate.tot[k]
         /\ c.rings # <<>> /\ c.queue # <<>> =>
              /\ phase2'.found = phase2.found \cup FoundUpto(Deepest(DeepKs), c)
              /\ gate'.found = gate.found \cup FoundUpto(Deepest(Ks), c)
              /\ \A k \in DeepKs :
                   /\ phase2'.hit[k] = phase2.hit[k] + Cardinality(HitsUpto(k, c))
                   /\ phase2'.tot[k] = phase2.tot[k] + Cardinality(Upto(k, c.queue))
              /\ \A k \in Ks :
                   /\ gate'.hit[k] = gate.hit[k] + Cardinality(HitsUpto(k, c))
                   /\ gate'.tot[k] = gate.tot[k] + Cardinality(Upto(k, c.queue))
<1>1. /\ c.rings = <<>> => phase2' = phase2
      /\ c.rings # <<>> /\ c.queue = <<>> => phase2' = Seen(phase2, c)
      /\ c.rings # <<>> /\ c.queue # <<>> => phase2' = Tallied(DeepKs, Seen(phase2, c), c)
  BY DEF Phase2Cycle
<1>2. /\ c.queue = <<>> => gate' = Seen(gate, c)
      /\ c.queue # <<>> => gate' = Tallied(Ks, Seen(gate, c), c)
  BY DEF GateCycle
<1>3. PICK p : p = Seen(phase2, c)
  OBVIOUS
<1>4. PICK g : g = Seen(gate, c)
  OBVIOUS
<1>5. /\ p \in CountType(DeepKs)
      /\ p = [seen |-> phase2.seen \cup RingIds(c.rings), found |-> phase2.found,
              hit |-> phase2.hit, tot |-> phase2.tot]
  BY <1>3, TalliedIs
<1>6. /\ g \in CountType(Ks)
      /\ g = [seen |-> gate.seen \cup RingIds(c.rings), found |-> gate.found,
              hit |-> gate.hit, tot |-> gate.tot]
  BY <1>4, TalliedIs
<1>7. PICK tp : tp = Tallied(DeepKs, p, c)
  OBVIOUS
<1>8. PICK tg : tg = Tallied(Ks, g, c)
  OBVIOUS
<1>9. /\ tp \in CountType(DeepKs) /\ tp.seen = p.seen
      /\ tp.found = p.found \cup FoundUpto(Deepest(DeepKs), c)
      /\ \A k \in DeepKs : /\ tp.hit[k] = p.hit[k] + Cardinality(HitsUpto(k, c))
                           /\ tp.tot[k] = p.tot[k] + Cardinality(Upto(k, c.queue))
  <2>1. p \in CountType(DeepKs) /\ DeepKs \in {Ks, DeepKs}
    BY <1>5
  <2>2. /\ Tallied(DeepKs, p, c) \in CountType(DeepKs) /\ Tallied(DeepKs, p, c).seen = p.seen
        /\ Tallied(DeepKs, p, c).found = p.found \cup FoundUpto(Deepest(DeepKs), c)
        /\ \A k \in DeepKs :
             /\ Tallied(DeepKs, p, c).hit[k] = p.hit[k] + Cardinality(HitsUpto(k, c))
             /\ Tallied(DeepKs, p, c).tot[k] = p.tot[k] + Cardinality(Upto(k, c.queue))
    BY <2>1, TalliedIs
  <2> QED
    BY <1>7, <2>2, Zenon
<1>10. /\ tg \in CountType(Ks) /\ tg.seen = g.seen
       /\ tg.found = g.found \cup FoundUpto(Deepest(Ks), c)
       /\ \A k \in Ks : /\ tg.hit[k] = g.hit[k] + Cardinality(HitsUpto(k, c))
                        /\ tg.tot[k] = g.tot[k] + Cardinality(Upto(k, c.queue))
  <2>1. g \in CountType(Ks) /\ Ks \in {Ks, DeepKs}
    BY <1>6
  <2>2. /\ Tallied(Ks, g, c) \in CountType(Ks) /\ Tallied(Ks, g, c).seen = g.seen
        /\ Tallied(Ks, g, c).found = g.found \cup FoundUpto(Deepest(Ks), c)
        /\ \A k \in Ks :
             /\ Tallied(Ks, g, c).hit[k] = g.hit[k] + Cardinality(HitsUpto(k, c))
             /\ Tallied(Ks, g, c).tot[k] = g.tot[k] + Cardinality(Upto(k, c.queue))
    BY <2>1, TalliedIs
  <2> QED
    BY <1>8, <2>2, Zenon
<1>11. /\ \A k \in Ks : gate.hit[k] \in Nat /\ gate.tot[k] \in Nat
       /\ \A k \in DeepKs : phase2.hit[k] \in Nat /\ phase2.tot[k] \in Nat
       /\ \A k \in Ks : /\ Cardinality(HitsUpto(k, c)) \in Nat
                        /\ Cardinality(Upto(k, c.queue)) \in Nat
  <2>1. \A k \in Ks : Cardinality(HitsUpto(k, c)) \in Nat /\ Cardinality(Upto(k, c.queue)) \in Nat
    BY CycleCounts, EvaluationConstants
  <2> QED
    BY <2>1 DEF CountType
<1>12. CASE c.rings = <<>>
  <2>1. RingIds(c.rings) = {} /\ \A k \in Ks : Cardinality(HitsUpto(k, c)) = 0
    BY <1>12, CycleCounts, EvaluationConstants
  <2>2. FoundUpto(Deepest(Ks), c) = {}
    <3>1. Deepest(Ks) \in Nat
      BY EvaluationConstants
    <3>2. FoundUpto(Deepest(Ks), c) \in SUBSET RingIds(c.rings)
      BY <3>1, CycleCounts
    <3> QED
      BY <2>1, <3>2
  <2>3. phase2' = phase2
    BY <1>1, <1>12
  <2>4. CASE c.queue = <<>>
    <3>1. gate' = g
      BY <1>2, <1>4, <2>4
    <3>2. /\ gate' \in CountType(Ks) /\ gate'.found = gate.found
          /\ gate'.seen = gate.seen \cup RingIds(c.rings)
      BY <1>6, <3>1
    <3>3. \A k \in Ks : gate'.hit[k] = gate.hit[k] /\ gate'.tot[k] >= gate.tot[k]
      BY <1>6, <1>11, <3>1
    <3>4. phase2' \in CountType(DeepKs) /\ phase2'.seen = phase2.seen \cup RingIds(c.rings)
      BY <2>1, <2>3
    <3> QED
      BY <1>12, <2>3, <3>2, <3>3, <3>4
  <2>5. CASE c.queue # <<>>
    <3>1. gate' = tg
      BY <1>2, <1>4, <1>8, <2>5
    <3>2. gate'.seen = gate.seen \cup RingIds(c.rings) /\ gate'.found = gate.found
      BY <1>6, <1>10, <2>2, <3>1
    <3>3. \A k \in Ks : gate'.hit[k] = gate.hit[k] /\ gate'.tot[k] >= gate.tot[k]
      BY <1>6, <1>10, <1>11, <2>1, <3>1
    <3> QED
      BY <1>10, <1>12, <2>1, <2>3, <3>1, <3>2, <3>3
  <2> QED
    BY <2>4, <2>5
<1>13. CASE c.rings # <<>> /\ c.queue = <<>>
  <2>1. phase2' = p /\ gate' = g
    BY <1>1, <1>2, <1>3, <1>4, <1>13
  <2> QED
    BY <1>5, <1>6, <1>11, <1>13, <2>1
<1>14. CASE c.rings # <<>> /\ c.queue # <<>>
  <2>1. phase2' = tp /\ gate' = tg
    BY <1>1, <1>2, <1>3, <1>4, <1>7, <1>8, <1>14
  <2> QED
    BY <1>5, <1>6, <1>9, <1>10, <1>14, <2>1
<1> QED
  BY <1>12, <1>13, <1>14

LEMMA FunnelStarts == EvaluationInit => FunnelInv
<1> SUFFICES ASSUME EvaluationInit PROVE FunnelInv
  OBVIOUS
<1>1. /\ cycles = 0 /\ reached = {} /\ records = <<>>
      /\ phase2 = NothingCounted(DeepKs) /\ gate = NothingCounted(Ks)
  BY DEF EvaluationInit
<1>2. /\ phase2.seen = {} /\ phase2.found = {} /\ gate.seen = {} /\ gate.found = {}
      /\ \A k \in DeepKs : phase2.hit[k] = 0 /\ phase2.tot[k] = 0
      /\ \A k \in Ks : gate.hit[k] = 0 /\ gate.tot[k] = 0
  <2>1. PICK p : p = [k \in DeepKs |-> 0]
    OBVIOUS
  <2>2. PICK g : g = [k \in Ks |-> 0]
    OBVIOUS
  <2>3. /\ phase2 = [seen |-> {}, found |-> {}, hit |-> p, tot |-> p]
        /\ gate = [seen |-> {}, found |-> {}, hit |-> g, tot |-> g]
    BY <1>1, <2>1, <2>2, Zenon DEF NothingCounted, NoHits
  <2> QED
    BY <2>1, <2>2, <2>3
<1>3. phase2 \in CountType(DeepKs) /\ gate \in CountType(Ks)
  <2>1. PICK p : p = [k \in DeepKs |-> 0]
    OBVIOUS
  <2>2. PICK g : g = [k \in Ks |-> 0]
    OBVIOUS
  <2>3. /\ phase2 = [seen |-> {}, found |-> {}, hit |-> p, tot |-> p]
        /\ gate = [seen |-> {}, found |-> {}, hit |-> g, tot |-> g]
    BY <1>1, <2>1, <2>2, Zenon DEF NothingCounted, NoHits
  <2>4. p \in [DeepKs -> Nat] /\ g \in [Ks -> Nat]
    BY <2>1, <2>2
  <2> QED
    BY <2>3, <2>4 DEF CountType
<1>4. DOMAIN records = {} /\ records \in Seq(RecordType) /\ Len(records) = 0
  BY <1>1
<1>5. SeenOf(records) = {} /\ \A k \in Ks : FoundOf(records, k) = {}
  BY <1>4 DEF SeenOf, FoundOf
<1>6. \A k \in Ks : HitOf(records, k) = 0 /\ TotOf(records, k) = 0
  <2> SUFFICES ASSUME NEW k \in Ks PROVE HitOf(records, k) = 0 /\ TotOf(records, k) = 0
    OBVIOUS
  <2>1. Tally([i \in DOMAIN records |-> records[i].hit[k]]) = 0
    BY <1>4, TallyOfNone
  <2>2. Tally([i \in DOMAIN records |-> records[i].tot[k]]) = 0
    BY <1>4, TallyOfNone
  <2> QED
    BY <2>1, <2>2 DEF HitOf, TotOf
<1>7. FunnelTyped
  BY <1>1, <1>3, <1>4, EvaluationConstants DEF FunnelTyped
<1>8. StagesAreRecords
  BY <1>1, <1>5, EvaluationConstants DEF StagesAreRecords
<1>9. CountsAreRecords
  <2>1. \A k \in Ks : k \in DeepKs
    BY EvaluationConstants
  <2>2. SeenOf(records) \in SUBSET phase2.seen /\ phase2.seen = gate.seen
    BY <1>2, <1>5
  <2>3. gate.found = FoundOf(records, Deepest(Ks))
    BY <1>2, <1>5, EvaluationConstants
  <2>4. \A k \in Ks : HitOf(records, k) = phase2.hit[k] /\ TotOf(records, k) = phase2.tot[k]
    BY <1>2, <1>6, <2>1
  <2>5. \A k \in Ks : phase2.hit[k] = gate.hit[k] /\ phase2.tot[k] <= gate.tot[k]
    BY <1>2, <2>1
  <2> QED
    BY <2>2, <2>3, <2>4, <2>5 DEF CountsAreRecords
<1>10. DepthsAgree
  <2>1. Deepest(Ks) \in DeepKs /\ Deepest(DeepKs) \in DeepKs
    BY EvaluationConstants
  <2>2. phase2.hit[Deepest(Ks)] = 0 /\ phase2.hit[Deepest(DeepKs)] = 0
    BY <1>2, <2>1
  <2>3. gate.found \subseteq phase2.found /\ phase2.found = gate.found
    BY <1>2
  <2>4. \A r \in phase2.found : <<r, "built">> \in reached
    BY <1>2
  <2> QED
    BY <2>2, <2>3, <2>4 DEF DepthsAgree
<1> QED
  BY <1>7, <1>8, <1>9, <1>10 DEF FunnelInv

LEMMA SameRecords ==
  ASSUME records' = records
  PROVE  /\ SeenOf(records)' = SeenOf(records) /\ \A k : FoundOf(records, k)' = FoundOf(records, k)
         /\ \A k : HitOf(records, k)' = HitOf(records, k)
         /\ \A k : TotOf(records, k)' = TotOf(records, k)
<1>1. SeenOf(records)' = SeenOf(records)
  BY DEF SeenOf
<1>2. \A k : FoundOf(records, k)' = FoundOf(records, k)
  BY DEF FoundOf
<1>3. \A k : HitOf(records, k)' = HitOf(records, k)
  BY DEF HitOf
<1>4. \A k : TotOf(records, k)' = TotOf(records, k)
  BY DEF TotOf
<1> QED
  BY <1>1, <1>2, <1>3, <1>4

LEMMA FunnelRests ==
  ASSUME FunnelInv, UNCHANGED evaluationVars PROVE FunnelInv'
<1>1. /\ cycles' = cycles /\ records' = records /\ reached' = reached
      /\ phase2' = phase2 /\ gate' = gate
  BY DEF evaluationVars
<1>2. FunnelTyped'
  BY <1>1 DEF FunnelInv, FunnelTyped
<1>3. StagesAreRecords'
  BY <1>1, SameRecords DEF FunnelInv, StagesAreRecords
<1>4. CountsAreRecords'
  BY <1>1, SameRecords DEF FunnelInv, CountsAreRecords
<1>5. DepthsAgree'
  BY <1>1 DEF FunnelInv, DepthsAgree
<1> QED
  BY <1>2, <1>3, <1>4, <1>5 DEF FunnelInv

\* A deeper look covers a shallower one, and is the same if it hits no more.
LEMMA DeeperFindsMore ==
  ASSUME NEW c, IsCycle(c)
  PROVE  LET h == Cardinality(HitsUpto(Deepest(Ks), c))
             d == Cardinality(HitsUpto(Deepest(DeepKs), c))
         IN /\ h \in Nat /\ d \in Nat /\ h <= d
            /\ FoundUpto(Deepest(Ks), c) \in SUBSET FoundUpto(Deepest(DeepKs), c)
            /\ FoundUpto(Deepest(DeepKs), c) \in SUBSET FoundUpto(Len(c.queue), c)
            /\ h = d => FoundUpto(Deepest(Ks), c) = FoundUpto(Deepest(DeepKs), c)
<1>1. PICK a \in Nat : a = Deepest(Ks)
  BY EvaluationConstants
<1>2. PICK b \in Nat : b = Deepest(DeepKs) /\ a <= b
  BY <1>1, EvaluationConstants
<1>3. c.queue \in Seq(ToSet(c.queue)) /\ Len(c.queue) \in Nat
  BY DEF IsCycle, IsQueue
<1>4. \A k \in Nat : Upto(k, c.queue) = {i \in DOMAIN c.queue : i <= k}
  BY <1>3, UptoIs
<1>5. /\ Upto(a, c.queue) \in SUBSET Upto(b, c.queue)
      /\ Upto(b, c.queue) \in SUBSET Upto(Len(c.queue), c.queue)
  BY <1>2, <1>3, <1>4
<1>6. HitsUpto(a, c) \in SUBSET HitsUpto(b, c) /\ IsFiniteSet(HitsUpto(b, c))
  <2>1. HitsUpto(a, c) \in SUBSET HitsUpto(b, c)
    BY <1>5 DEF HitsUpto
  <2>2. IsFiniteSet(HitsUpto(b, c))
    BY <1>2, CycleCounts
  <2> QED
    BY <2>1, <2>2
<1>7. /\ Cardinality(HitsUpto(a, c)) \in Nat /\ Cardinality(HitsUpto(b, c)) \in Nat
      /\ Cardinality(HitsUpto(a, c)) <= Cardinality(HitsUpto(b, c))
      /\ Cardinality(HitsUpto(a, c)) = Cardinality(HitsUpto(b, c)) =>
           HitsUpto(a, c) = HitsUpto(b, c)
  BY <1>6, FS_Subset, FS_CardinalityType
<1>8. \A k \in Nat : FoundUpto(k, c) = UNION {Hits(c.queue[i], c.rings) : i \in HitsUpto(k, c)}
  <2> SUFFICES ASSUME NEW k \in Nat
               PROVE FoundUpto(k, c) = UNION {Hits(c.queue[i], c.rings) : i \in HitsUpto(k, c)}
    OBVIOUS
  <2>1. HitsUpto(k, c) = {i \in Upto(k, c.queue) : Hits(c.queue[i], c.rings) # {}}
    BY DEF HitsUpto
  <2> QED
    BY <2>1 DEF FoundUpto
<1>9. FoundUpto(a, c) \in SUBSET FoundUpto(b, c)
  BY <1>5 DEF FoundUpto
<1>10. FoundUpto(b, c) \in SUBSET FoundUpto(Len(c.queue), c)
  BY <1>5 DEF FoundUpto
<1> QED
  BY <1>1, <1>2, <1>7, <1>8, <1>9, <1>10

LEMMA FunnelSteps ==
  ASSUME FunnelInv, NEW c, Replays(c) PROVE FunnelInv'
<1>1. /\ IsCycle(c) /\ FunnelCycle(c) /\ Phase2Cycle(c) /\ GateCycle(c)
      /\ cycles' = cycles + 1 /\ cycles < MaxCycles
  BY DEF Replays, Ticks
<1>2. FunnelTyped /\ StagesAreRecords /\ CountsAreRecords /\ DepthsAgree
  BY DEF FunnelInv
<1>3. /\ cycles \in 0..MaxCycles /\ records \in Seq(RecordType) /\ Len(records) <= cycles
      /\ \A i \in DOMAIN records, k \in Ks : records[i].found[k] \in SUBSET records[i].seen
      /\ reached \in SUBSET (Rings \X STAGES)
      /\ phase2 \in CountType(DeepKs) /\ gate \in CountType(Ks)
  BY <1>2 DEF FunnelTyped
<1>4. /\ phase2' \in CountType(DeepKs) /\ gate' \in CountType(Ks)
      /\ phase2'.seen = phase2.seen \cup RingIds(c.rings)
      /\ gate'.seen = gate.seen \cup RingIds(c.rings)
  BY <1>1, <1>3, TalliesStep
<1>5. cycles' \in 0..MaxCycles
  BY <1>1, <1>3, EvaluationConstants
<1>6. CASE c.rings = <<>> \/ c.queue = <<>>
  <2>1. reached' = reached /\ records' = records
    BY <1>1, <1>6, FunnelCycleIs
  <2>2. /\ phase2'.found = phase2.found /\ gate'.found = gate.found
        /\ \A k \in DeepKs : phase2'.hit[k] = phase2.hit[k] /\ phase2'.tot[k] = phase2.tot[k]
        /\ \A k \in Ks : gate'.hit[k] = gate.hit[k] /\ gate'.tot[k] >= gate.tot[k]
    BY <1>1, <1>3, <1>6, TalliesStep
  <2>3. FunnelTyped'
    <3>1. Len(records') <= cycles'
      <4>1. Len(records) \in Int /\ cycles \in Int
        BY <1>3
      <4> QED
        BY <1>1, <1>3, <2>1, <4>1
    <3> QED
      BY <1>3, <1>4, <1>5, <2>1, <3>1 DEF FunnelTyped
  <2>4. StagesAreRecords'
    BY <1>2, <2>1, SameRecords DEF StagesAreRecords
  <2>5. /\ SeenOf(records)' = SeenOf(records) /\ FoundOf(records, Deepest(Ks))' = FoundOf(records, Deepest(Ks))
        /\ \A k : HitOf(records, k)' = HitOf(records, k) /\ TotOf(records, k)' = TotOf(records, k)
    BY <2>1, SameRecords
  <2>6. CountsAreRecords'
    <3>1. \A k \in Ks : phase2.tot[k] \in Int /\ gate.tot[k] \in Int /\ gate'.tot[k] \in Int
      BY <1>3, <1>4, EvaluationConstants DEF CountType
    <3>2. /\ SeenOf(records) \in SUBSET phase2.seen /\ phase2.seen = gate.seen
          /\ gate.found = FoundOf(records, Deepest(Ks))
          /\ \A k \in Ks : /\ HitOf(records, k) = phase2.hit[k] /\ TotOf(records, k) = phase2.tot[k]
                           /\ phase2.hit[k] = gate.hit[k] /\ phase2.tot[k] <= gate.tot[k]
      BY <1>2 DEF CountsAreRecords
    <3>3. \A k \in Ks : /\ HitOf(records, k) = phase2'.hit[k] /\ TotOf(records, k) = phase2'.tot[k]
                        /\ phase2'.hit[k] = gate'.hit[k] /\ phase2'.tot[k] <= gate'.tot[k]
      BY <2>2, <3>1, <3>2, EvaluationConstants
    <3>4. /\ SeenOf(records) \in SUBSET phase2'.seen /\ phase2'.seen = gate'.seen
          /\ gate'.found = FoundOf(records, Deepest(Ks))
      BY <1>4, <2>2, <3>2
    <3> QED
      BY <2>5, <3>3, <3>4 DEF CountsAreRecords
  <2>7. DepthsAgree'
    <3>1. phase2'.hit[Deepest(Ks)] = phase2.hit[Deepest(Ks)]
      BY <2>2, EvaluationConstants
    <3>2. phase2'.hit[Deepest(DeepKs)] = phase2.hit[Deepest(DeepKs)]
      BY <2>2, EvaluationConstants
    <3> QED
      BY <1>2, <2>1, <2>2, <3>1, <3>2 DEF DepthsAgree
  <2> QED
    BY <2>3, <2>4, <2>6, <2>7 DEF FunnelInv
<1>7. CASE c.rings # <<>> /\ c.queue # <<>>
  <2>1. PICK o : o = observe_cycle(c)
    OBVIOUS
  <2>2. PICK r : r = RecordOf(c)
    OBVIOUS
  <2>3. reached' = reached \cup o /\ records' = Append(records, r)
    BY <1>1, <1>7, <2>1, <2>2, FunnelCycleIs
  <2>4. r \in RecordType /\ \A k \in Ks : r.found[k] \in SUBSET r.seen
    BY <1>1, <2>2, RecordIs
  <2>5. /\ r.seen = RingIds(c.rings)
        /\ \A k \in Ks : /\ r.found[k] = FoundUpto(k, c)
                         /\ r.hit[k] = Cardinality(HitsUpto(k, c))
                         /\ r.tot[k] = Cardinality(Upto(k, c.queue))
    BY <2>2 DEF RecordOf
  <2>6. \A k \in Ks :
          /\ SeenOf(records') = SeenOf(records) \cup r.seen
          /\ FoundOf(records', k) = FoundOf(records, k) \cup r.found[k]
          /\ HitOf(records', k) = HitOf(records, k) + r.hit[k]
          /\ TotOf(records', k) = TotOf(records, k) + r.tot[k]
    <3>1. PICK rs : rs = records
      OBVIOUS
    <3>2. PICK more : more = records'
      OBVIOUS
    <3>3. rs \in Seq(RecordType) /\ r \in RecordType /\ more = Append(rs, r)
      BY <1>3, <2>3, <2>4, <3>1, <3>2
    <3>4. \A k \in Ks :
            /\ SeenOf(more) = SeenOf(rs) \cup r.seen
            /\ FoundOf(more, k) = FoundOf(rs, k) \cup r.found[k]
            /\ HitOf(more, k) = HitOf(rs, k) + r.hit[k]
            /\ TotOf(more, k) = TotOf(rs, k) + r.tot[k]
      BY <3>3, RecordsGrow DEF Grows
    <3> QED
      BY <3>1, <3>2, <3>4
  <2>7. /\ phase2'.found = phase2.found \cup FoundUpto(Deepest(DeepKs), c)
        /\ gate'.found = gate.found \cup FoundUpto(Deepest(Ks), c)
        /\ \A k \in DeepKs :
             /\ phase2'.hit[k] = phase2.hit[k] + Cardinality(HitsUpto(k, c))
             /\ phase2'.tot[k] = phase2.tot[k] + Cardinality(Upto(k, c.queue))
        /\ \A k \in Ks :
             /\ gate'.hit[k] = gate.hit[k] + Cardinality(HitsUpto(k, c))
             /\ gate'.tot[k] = gate.tot[k] + Cardinality(Upto(k, c.queue))
    BY <1>1, <1>3, <1>7, TalliesStep
  <2>8. /\ o \in SUBSET (Rings \X STAGES)
        /\ \A x : <<x, "seed_reachable">> \in o <=> x \in r.seen
        /\ \A x : <<x, "ranked">> \in o <=> x \in r.found[RANK_K]
        /\ \A x : <<x, "ranked">> \in o => <<x, "built">> \in o
        /\ \A x : <<x, "built">> \in o <=> x \in FoundUpto(Len(c.queue), c)
    <3>1. /\ \A x : <<x, "seed_reachable">> \in o <=> x \in RingIds(c.rings)
          /\ \A x : <<x, "built">> \in o <=> x \in FoundUpto(Len(c.queue), c)
          /\ \A x : <<x, "ranked">> \in o <=> x \in FoundUpto(RANK_K, c)
          /\ \A x : x \in FoundUpto(RANK_K, c) => x \in FoundUpto(Len(c.queue), c)
          /\ o \in SUBSET (Rings \X STAGES)
      BY <1>1, <2>1, ObservedIs
    <3> QED
      BY <2>5, <3>1, EvaluationConstants
  <2>9. FunnelTyped'
    <3>1. PICK n \in Nat : n = Len(records)
      BY <1>3
    <3>2. /\ DOMAIN records = 1..n /\ DOMAIN records' = 1..(n + 1) /\ records'[n + 1] = r
          /\ \A i \in 1..n : records'[i] = records[i]
          /\ records' \in Seq(RecordType) /\ Len(records') = n + 1
      BY <1>3, <2>3, <2>4, <3>1
    <3>3. \A i \in DOMAIN records', k \in Ks : records'[i].found[k] \in SUBSET records'[i].seen
      <4> SUFFICES ASSUME NEW i \in 1..(n + 1), NEW k \in Ks
                   PROVE records'[i].found[k] \in SUBSET records'[i].seen
        BY <3>2
      <4>1. CASE i = n + 1
        BY <2>4, <3>2, <4>1
      <4>2. CASE i \in 1..n
        BY <1>3, <3>2, <4>2
      <4> QED
        BY <4>1, <4>2
    <3>4. Len(records') <= cycles'
      BY <1>1, <1>3, <3>1, <3>2
    <3>5. reached' \in SUBSET (Rings \X STAGES)
      BY <1>3, <2>3, <2>8
    <3> QED
      BY <1>4, <1>5, <3>2, <3>3, <3>4, <3>5 DEF FunnelTyped
  <2>10. StagesAreRecords'
    <3>1. /\ \A x : <<x, "ranked">> \in reached <=> x \in FoundOf(records, RANK_K)
          /\ \A x : <<x, "seed_reachable">> \in reached <=> x \in SeenOf(records)
          /\ \A x : <<x, "ranked">> \in reached => <<x, "built">> \in reached
      BY <1>2 DEF StagesAreRecords
    <3>2. FoundOf(records', RANK_K) = FoundOf(records, RANK_K) \cup r.found[RANK_K]
      BY <2>6, EvaluationConstants
    <3>3. SeenOf(records') = SeenOf(records) \cup r.seen
      BY <2>6, EvaluationConstants
    <3>4. \A x : <<x, "ranked">> \in reached' <=> x \in FoundOf(records', RANK_K)
      BY <2>3, <2>8, <3>1, <3>2
    <3>5. \A x : <<x, "seed_reachable">> \in reached' <=> x \in SeenOf(records')
      BY <2>3, <2>8, <3>1, <3>3
    <3>6. \A x : <<x, "ranked">> \in reached' => <<x, "built">> \in reached'
      BY <2>3, <2>8, <3>1
    <3> QED
      BY <3>4, <3>5, <3>6 DEF StagesAreRecords, SeenOf, FoundOf
  <2>11. CountsAreRecords'
    <3>1. /\ SeenOf(records) \in SUBSET phase2.seen /\ phase2.seen = gate.seen
          /\ gate.found = FoundOf(records, Deepest(Ks))
          /\ \A k \in Ks : /\ HitOf(records, k) = phase2.hit[k] /\ TotOf(records, k) = phase2.tot[k]
                           /\ phase2.hit[k] = gate.hit[k] /\ phase2.tot[k] <= gate.tot[k]
      BY <1>2 DEF CountsAreRecords
    <3>2. SeenOf(records') \in SUBSET phase2'.seen /\ phase2'.seen = gate'.seen
      BY <1>4, <2>5, <2>6, <3>1, EvaluationConstants
    <3>3. gate'.found = FoundOf(records', Deepest(Ks))
      BY <2>5, <2>6, <2>7, <3>1, EvaluationConstants
    <3>4. ASSUME NEW k \in Ks
          PROVE  /\ HitOf(records', k) = phase2'.hit[k] /\ TotOf(records', k) = phase2'.tot[k]
                 /\ phase2'.hit[k] = gate'.hit[k] /\ phase2'.tot[k] <= gate'.tot[k]
      <4>1. /\ phase2.hit[k] \in Int /\ phase2.tot[k] \in Int
            /\ gate.hit[k] \in Int /\ gate.tot[k] \in Int
        BY <1>3, EvaluationConstants DEF CountType
      <4>2. r.hit[k] \in Int /\ r.tot[k] \in Int
        BY <2>4 DEF RecordType
      <4>3. HitOf(records', k) = phase2'.hit[k] /\ TotOf(records', k) = phase2'.tot[k]
        BY <2>5, <2>6, <2>7, <3>1, EvaluationConstants
      <4>4. phase2'.hit[k] = gate'.hit[k]
        BY <2>7, <3>1, EvaluationConstants
      <4>5. /\ phase2'.tot[k] = phase2.tot[k] + r.tot[k]
            /\ gate'.tot[k] = gate.tot[k] + r.tot[k] /\ phase2.tot[k] <= gate.tot[k]
        BY <2>5, <2>7, <3>1, EvaluationConstants
      <4> QED
        BY <4>1, <4>2, <4>3, <4>4, <4>5
    <3> QED
      BY <3>2, <3>3, <3>4 DEF CountsAreRecords, SeenOf, FoundOf, HitOf, TotOf
  <2>12. DepthsAgree'
    <3>1. PICK h, d : h = Cardinality(HitsUpto(Deepest(Ks), c))
                      /\ d = Cardinality(HitsUpto(Deepest(DeepKs), c))
      OBVIOUS
    <3>2. /\ h \in Nat /\ d \in Nat /\ h <= d
          /\ FoundUpto(Deepest(Ks), c) \in SUBSET FoundUpto(Deepest(DeepKs), c)
          /\ FoundUpto(Deepest(DeepKs), c) \in SUBSET FoundUpto(Len(c.queue), c)
          /\ h = d => FoundUpto(Deepest(Ks), c) = FoundUpto(Deepest(DeepKs), c)
      BY <1>1, <3>1, DeeperFindsMore
    <3>3. /\ gate.found \subseteq phase2.found
          /\ \A x \in phase2.found : <<x, "built">> \in reached
          /\ phase2.hit[Deepest(Ks)] <= phase2.hit[Deepest(DeepKs)]
          /\ phase2.hit[Deepest(DeepKs)] = phase2.hit[Deepest(Ks)] => phase2.found = gate.found
      BY <1>2 DEF DepthsAgree
    <3>4. phase2.hit[Deepest(Ks)] \in Nat /\ phase2.hit[Deepest(DeepKs)] \in Nat
      BY <1>3, EvaluationConstants DEF CountType
    <3>5. /\ phase2'.hit[Deepest(Ks)] = phase2.hit[Deepest(Ks)] + h
          /\ phase2'.hit[Deepest(DeepKs)] = phase2.hit[Deepest(DeepKs)] + d
      BY <2>7, <3>1, EvaluationConstants
    <3>6. /\ phase2'.hit[Deepest(Ks)] <= phase2'.hit[Deepest(DeepKs)]
          /\ phase2'.hit[Deepest(DeepKs)] = phase2'.hit[Deepest(Ks)] =>
               h = d /\ phase2.hit[Deepest(DeepKs)] = phase2.hit[Deepest(Ks)]
      BY <3>2, <3>3, <3>4, <3>5
    <3>7. gate'.found \subseteq phase2'.found
      BY <2>7, <3>2, <3>3
    <3>8. \A x \in phase2'.found : <<x, "built">> \in reached'
      BY <2>3, <2>7, <2>8, <3>2, <3>3
    <3>9. phase2'.hit[Deepest(DeepKs)] = phase2'.hit[Deepest(Ks)] => phase2'.found = gate'.found
      BY <2>7, <3>2, <3>3, <3>6
    <3> QED
      BY <3>6, <3>7, <3>8, <3>9 DEF DepthsAgree
  <2> QED
    BY <2>9, <2>10, <2>11, <2>12 DEF FunnelInv
<1> QED
  BY <1>6, <1>7

-----------------------------------------------------------------------------
(* The labelled pool.                                                      *)

LabelRecord == [t : Nat, ring : Rings \cup {NoRing}]

FirstRecord == [ring : Rings, t : Nat]

AtTime(t, l) == {i \in DOMAIN l : l[i].t = t}

PositivesOf(G, l) == {i \in G : l[i].ring # NoRing}

HitsAt(k, t, l) == Cardinality(PositivesOf(TopOf(k, AtTime(t, l)), l))

Pools(l, q, t, more) ==
  /\ l \in Seq(LabelRecord) /\ q \in Seq(LabelRecord) /\ more = l \o q
  /\ \A i \in DOMAIN l : l[i].t # t
  /\ \A j \in DOMAIN q : q[j].t = t

LEMMA RunIs ==
  ASSUME NEW n \in Nat, NEW i \in Nat, n < i
  PROVE  IsFiniteSet((n + 1)..i) /\ Cardinality((n + 1)..i) = i - n
<1>1. n + 1 \in Int /\ i \in Int
  OBVIOUS
<1>2. /\ IsFiniteSet((n + 1)..i)
      /\ Cardinality((n + 1)..i) = IF n + 1 > i THEN 0 ELSE i - (n + 1) + 1
  BY <1>1, FS_Interval
<1> QED
  BY <1>2

LEMMA TopOfRun ==
  ASSUME NEW n \in Nat, NEW m \in Nat, NEW k \in Nat
  PROVE  TopOf(k, (n + 1)..(n + m)) = {i \in (n + 1)..(n + m) : i - n <= k}
<1>1. PICK G : G = (n + 1)..(n + m)
  OBVIOUS
<1>2. ASSUME NEW i \in G PROVE Cardinality({j \in G : j <= i}) = i - n
  <2>1. i \in Nat /\ n < i /\ i <= n + m
    BY <1>1
  <2>2. {j \in G : j <= i} = (n + 1)..i
    BY <1>1, <2>1
  <2> QED
    BY <2>1, <2>2, RunIs
<1>3. TopOf(k, G) = {i \in G : i - n <= k}
  BY <1>2 DEF TopOf
<1> QED
  BY <1>1, <1>3

LEMMA PoolGrows ==
  ASSUME NEW l, NEW q, NEW t, NEW more, Pools(l, q, t, more)
  PROVE  /\ more \in Seq(LabelRecord) /\ Len(more) = Len(l) + Len(q)
         /\ \A i \in DOMAIN l : i \in DOMAIN more /\ more[i] = l[i]
         /\ \A j \in DOMAIN q : Len(l) + j \in DOMAIN more /\ more[Len(l) + j] = q[j]
         /\ \A i \in DOMAIN more : i \in DOMAIN l \/ \E j \in DOMAIN q : i = Len(l) + j
         /\ \A k, u : u # t => HitsAt(k, u, more) = HitsAt(k, u, l)
         /\ \A k \in Nat : HitsAt(k, t, more)
                             = Cardinality({j \in DOMAIN q : j <= k /\ q[j].ring # NoRing})
<1>0. /\ l \in Seq(LabelRecord) /\ q \in Seq(LabelRecord) /\ more = l \o q
      /\ \A i \in DOMAIN l : l[i].t # t
      /\ \A j \in DOMAIN q : q[j].t = t
  BY DEF Pools
<1>1. PICK n \in Nat, m \in Nat : n = Len(l) /\ m = Len(q)
  BY <1>0
<1>2. /\ more \in Seq(LabelRecord) /\ Len(more) = n + m
      /\ \A i \in 1..n : more[i] = l[i]
      /\ \A j \in 1..m : more[n + j] = q[j]
  BY <1>0, <1>1, JoinIs
<1>3. DOMAIN l = 1..n /\ DOMAIN q = 1..m /\ DOMAIN more = 1..(n + m)
  BY <1>0, <1>1, <1>2
<1>4. \A i \in 1..(n + m) : i \in 1..n \/ \E j \in 1..m : i = n + j
  <2> SUFFICES ASSUME NEW i \in 1..(n + m), i \notin 1..n PROVE \E j \in 1..m : i = n + j
    OBVIOUS
  <2>1. i - n \in 1..m /\ i = n + (i - n)
    OBVIOUS
  <2> QED
    BY <2>1
<1>5. \A j \in 1..m : n + j \in 1..(n + m) /\ n + j \notin 1..n
  OBVIOUS
<1>6. ASSUME NEW k, NEW u, u # t PROVE HitsAt(k, u, more) = HitsAt(k, u, l)
  <2>1. AtTime(u, more) = AtTime(u, l)
    <3>1. ASSUME NEW i \in 1..(n + m) PROVE more[i].t = u <=> i \in 1..n /\ l[i].t = u
      <4>1. CASE i \in 1..n
        BY <1>2, <4>1
      <4>2. CASE i \notin 1..n
        <5>1. PICK j \in 1..m : i = n + j
          BY <1>4, <4>2
        <5>2. more[i].t = t
          BY <1>0, <1>2, <1>3, <5>1
        <5> QED
          BY <1>6, <4>2, <5>2
      <4> QED
        BY <4>1, <4>2
    <3>2. \A i \in 1..n : i \in 1..(n + m)
      OBVIOUS
    <3> QED
      BY <1>3, <3>1, <3>2 DEF AtTime
  <2>2. PICK top : top = TopOf(k, AtTime(u, l))
    OBVIOUS
  <2>3. top \in SUBSET (1..n)
    BY <1>3, <2>2 DEF TopOf, AtTime
  <2>4. PositivesOf(top, more) = PositivesOf(top, l)
    BY <1>2, <2>3 DEF PositivesOf
  <2> QED
    BY <2>1, <2>2, <2>4 DEF HitsAt
<1>7. ASSUME NEW k \in Nat
      PROVE  HitsAt(k, t, more) = Cardinality({j \in 1..m : j <= k /\ q[j].ring # NoRing})
  <2>1. AtTime(t, more) = (n + 1)..(n + m)
    <3>1. ASSUME NEW i \in 1..(n + m) PROVE more[i].t = t <=> i \notin 1..n
      <4>1. CASE i \in 1..n
        BY <1>0, <1>2, <1>3, <4>1
      <4>2. CASE i \notin 1..n
        <5>1. PICK j \in 1..m : i = n + j
          BY <1>4, <4>2
        <5> QED
          BY <1>0, <1>2, <1>3, <4>2, <5>1
      <4> QED
        BY <4>1, <4>2
    <3>2. (n + 1)..(n + m) = {i \in 1..(n + m) : i \notin 1..n}
      OBVIOUS
    <3> QED
      BY <1>3, <3>1, <3>2 DEF AtTime
  <2>2. TopOf(k, (n + 1)..(n + m)) = {i \in (n + 1)..(n + m) : i - n <= k}
    BY TopOfRun
  <2>3. PICK P : P = PositivesOf({i \in (n + 1)..(n + m) : i - n <= k}, more)
    OBVIOUS
  <2>4. HitsAt(k, t, more) = Cardinality(P)
    BY <2>1, <2>2, <2>3 DEF HitsAt
  <2>5. PICK A : A = {j \in 1..m : j <= k /\ q[j].ring # NoRing}
    OBVIOUS
  <2>6. PICK f : f = [j \in A |-> n + j]
    OBVIOUS
  <2>7. IsFiniteSet(A)
    <3>1. PICK I : I = 1..m
      OBVIOUS
    <3>2. IsFiniteSet(I) /\ A \in SUBSET I
      BY <2>5, <3>1, UpTo
    <3> QED
      BY <3>2, FS_Subset
  <2>8. ASSUME NEW j \in A PROVE n + j \in P
    <3>1. j \in 1..m /\ j <= k /\ q[j].ring # NoRing
      BY <2>5
    <3>2. n + j \in (n + 1)..(n + m) /\ (n + j) - n <= k
      BY <3>1
    <3>3. more[n + j].ring # NoRing
      BY <1>2, <3>1
    <3> QED
      BY <2>3, <3>2, <3>3 DEF PositivesOf
  <2>9. ASSUME NEW i \in P PROVE \E j \in A : f[j] = i
    <3>1. i \in (n + 1)..(n + m) /\ i - n <= k /\ more[i].ring # NoRing
      BY <2>3 DEF PositivesOf
    <3>2. i - n \in 1..m /\ i = n + (i - n)
      BY <3>1
    <3>3. PICK j \in 1..m : j = i - n
      BY <3>2
    <3>4. i = n + j /\ j <= k
      BY <3>1, <3>2, <3>3
    <3>5. q[j].ring # NoRing
      BY <1>2, <3>1, <3>4
    <3>6. j \in A
      BY <2>5, <3>4, <3>5
    <3> QED
      BY <2>6, <3>4, <3>6
  <2>10. \A x, y \in A : f[x] = f[y] => x = y
    <3>1. \A x, y \in A : n + x = n + y => x = y
      BY <2>5
    <3> QED
      BY <2>6, <3>1
  <2>11. f \in [A -> P]
    BY <2>6, <2>8
  <2>12. Cardinality(P) = Cardinality(A)
    BY <2>7, <2>9, <2>10, <2>11, SameSize
  <2> QED
    BY <2>4, <2>5, <2>12
<1>8. /\ more \in Seq(LabelRecord) /\ Len(more) = Len(l) + Len(q)
      /\ \A i \in DOMAIN l : i \in DOMAIN more /\ more[i] = l[i]
  BY <1>1, <1>2, <1>3
<1>9. /\ \A j \in DOMAIN q : Len(l) + j \in DOMAIN more /\ more[Len(l) + j] = q[j]
      /\ \A i \in DOMAIN more : i \in DOMAIN l \/ \E j \in DOMAIN q : i = Len(l) + j
  BY <1>1, <1>2, <1>3, <1>4, <1>5
<1>10. \A k \in Nat : HitsAt(k, t, more)
                       = Cardinality({j \in DOMAIN q : j <= k /\ q[j].ring # NoRing})
  BY <1>3, <1>7
<1> QED
  BY <1>6, <1>8, <1>9, <1>10

LEMMA NoneAt ==
  ASSUME NEW l, NEW t, \A i \in DOMAIN l : l[i].t # t, NEW k
  PROVE  HitsAt(k, t, l) = 0
<1>1. AtTime(t, l) = {}
  BY DEF AtTime
<1>2. PositivesOf(TopOf(k, {}), l) = {}
  BY DEF PositivesOf, TopOf
<1> QED
  BY <1>1, <1>2, FS_EmptySet DEF HitsAt

LEMMA HitsAtAre ==
  ASSUME NEW k, NEW t PROVE CandidateHits(k, InCycle(t)) = HitsAt(k, t, labelled)
BY DEF CandidateHits, InCycle, HitsAt, AtTime, Positives, PositivesOf

Appears(f, t, dict, g) ==
  /\ f \in Seq(FirstRecord) /\ t \in Nat /\ IsTable(dict)
  /\ LET new == Only(dict, {r \in ToSet(dict) : r.ring \notin RingIds(f)})
     IN g = f \o [i \in DOMAIN new |-> [ring |-> new[i].ring, t |-> t]]

LEMMA FirstsGrow ==
  ASSUME NEW f, NEW t, NEW dict, NEW g, Appears(f, t, dict, g)
  PROVE  /\ g \in Seq(FirstRecord) /\ Len(f) <= Len(g)
         /\ \A i \in DOMAIN f : i \in DOMAIN g /\ g[i] = f[i]
         /\ \A i \in DOMAIN g : i \notin DOMAIN f => g[i].t = t
         /\ RingIds(g) = RingIds(f) \cup RingIds(dict)
<1>0. f \in Seq(FirstRecord) /\ t \in Nat /\ IsTable(dict)
  BY DEF Appears
<1>1. PICK W : W = {r \in ToSet(dict) : r.ring \notin RingIds(f)}
  OBVIOUS
<1>2. PICK new : new = Only(dict, W)
  OBVIOUS
<1>3. dict \in Seq(ToSet(dict)) /\ \A r \in ToSet(dict) : r.ring \in Rings
  BY <1>0 DEF IsTable
<1>4. new \in Seq(ToSet(new)) /\ \A x : x \in ToSet(new) <=> x \in ToSet(dict) /\ x \in W
  BY <1>2, <1>3, OnlyOwn
<1>5. PICK n \in Nat, m \in Nat : n = Len(f) /\ m = Len(new)
  BY <1>0, <1>4
<1>6. DOMAIN f = 1..n /\ DOMAIN new = 1..m
  BY <1>0, <1>4, <1>5
<1>7. PICK h : h = [i \in 1..m |-> [ring |-> new[i].ring, t |-> t]]
  OBVIOUS
<1>8. \A i \in 1..m : new[i].ring \in Rings /\ new[i] \in ToSet(new)
  <2>1. \A i \in 1..m : new[i] \in ToSet(new)
    BY <1>6 DEF ToSet
  <2> QED
    BY <1>3, <1>4, <2>1
<1>9. h \in Seq(FirstRecord) /\ Len(h) = m
  <2>1. \A i \in 1..m : h[i] \in FirstRecord
    BY <1>0, <1>7, <1>8 DEF FirstRecord
  <2>2. h \in [1..m -> FirstRecord]
    BY <1>7, <2>1
  <2> QED
    BY <2>2, AsSequence
<1>10. g = f \o h
  BY <1>1, <1>2, <1>6, <1>7 DEF Appears
<1>11. /\ g \in Seq(FirstRecord) /\ Len(g) = n + m
       /\ \A i \in 1..n : g[i] = f[i]
       /\ \A j \in 1..m : g[n + j] = h[j]
  <2>1. f \o h \in Seq(FirstRecord) /\ Len(f \o h) = Len(f) + Len(h)
    BY <1>0, <1>9, JoinIs
  <2>2. \A i \in 1..Len(f) : (f \o h)[i] = f[i]
    BY <1>0, <1>9, JoinIs
  <2>3. \A j \in 1..Len(h) : (f \o h)[Len(f) + j] = h[j]
    BY <1>0, <1>9, JoinIs
  <2> QED
    BY <1>5, <1>9, <1>10, <2>1, <2>2, <2>3
<1>12. DOMAIN g = 1..(n + m)
  <2>1. g \in Seq(FirstRecord) /\ Len(g) = n + m
    BY <1>11
  <2> QED
    BY <2>1
<1>13. \A i \in 1..(n + m) : i \notin 1..n => \E j \in 1..m : i = n + j
  <2> SUFFICES ASSUME NEW i \in 1..(n + m), i \notin 1..n PROVE \E j \in 1..m : i = n + j
    OBVIOUS
  <2>1. i - n \in 1..m /\ i = n + (i - n)
    OBVIOUS
  <2> QED
    BY <2>1
<1>14. \A i \in DOMAIN g : i \notin DOMAIN f => g[i].t = t
  <2> SUFFICES ASSUME NEW i \in 1..(n + m), i \notin 1..n PROVE g[i].t = t
    BY <1>6, <1>12
  <2>1. PICK j \in 1..m : i = n + j
    BY <1>13
  <2>2. g[i] = h[j]
    BY <1>11, <2>1
  <2> QED
    BY <1>7, <2>2
<1>15. \A i \in DOMAIN f : i \in DOMAIN g /\ g[i] = f[i]
  BY <1>6, <1>11, <1>12
<1>16. RingIds(g) = RingIds(f) \cup RingIds(dict)
  <2>1. RingIds(f) = {f[i].ring : i \in 1..n}
    BY <1>6 DEF RingIds, ToSet
  <2>2. RingIds(g) = {g[i].ring : i \in 1..(n + m)}
    BY <1>12 DEF RingIds, ToSet
  <2>3. ASSUME NEW x \in RingIds(g) PROVE x \in RingIds(f) \/ x \in RingIds(dict)
    <3>1. PICK i \in 1..(n + m) : x = g[i].ring
      BY <2>2
    <3>2. CASE i \in 1..n
      BY <1>11, <2>1, <3>1, <3>2
    <3>3. CASE i \notin 1..n
      <4>1. PICK j \in 1..m : i = n + j
        BY <1>13, <3>3
      <4>2. x = new[j].ring
        BY <1>7, <1>11, <3>1, <4>1
      <4>3. new[j] \in ToSet(dict)
        BY <1>4, <1>8
      <4> QED
        BY <4>2, <4>3 DEF RingIds
    <3> QED
      BY <3>2, <3>3
  <2>4. RingIds(f) \subseteq RingIds(g)
    BY <1>6, <1>11, <1>12, <2>1, <2>2, <1>15
  <2>5. ASSUME NEW x \in RingIds(dict), x \notin RingIds(f) PROVE x \in RingIds(g)
    <3>1. PICK r \in ToSet(dict) : x = r.ring
      BY DEF RingIds
    <3>2. r \in ToSet(new)
      BY <1>1, <1>4, <2>5, <3>1
    <3>3. PICK j \in 1..m : r = new[j]
      BY <1>6, <3>2 DEF ToSet
    <3>4. g[n + j].ring = x /\ n + j \in 1..(n + m)
      BY <1>7, <1>11, <3>1, <3>3
    <3> QED
      BY <2>2, <3>4
  <2> QED
    BY <2>3, <2>4, <2>5
<1>17. Len(f) <= Len(g)
  BY <1>5, <1>11
<1> QED
  BY <1>11, <1>14, <1>15, <1>16, <1>17

PoolTyped ==
  /\ first_t \in Seq(FirstRecord) /\ labelled \in Seq(LabelRecord)
  /\ \A i \in DOMAIN first_t : first_t[i].t <= cycles
  /\ \A i, j \in DOMAIN first_t : i <= j => first_t[i].t <= first_t[j].t
  /\ \A i \in DOMAIN labelled : labelled[i].t <= cycles
  /\ \A i, j \in DOMAIN labelled : i <= j => labelled[i].t <= labelled[j].t

Traced(rec) ==
  /\ <<rec.ring, "built">> \in reached
  /\ \E j \in DOMAIN first_t : first_t[j].ring = rec.ring /\ first_t[j].t <= rec.t

PoolTraced == \A i \in DOMAIN labelled : labelled[i].ring # NoRing => Traced(labelled[i])

HitsPerCycle(k) == Tally([t \in 1..cycles |-> HitsAt(k, t, labelled)])

PoolCounts ==
  /\ RingIds(first_t) = phase2.seen
  /\ \A k \in Ks : HitsPerCycle(k) = phase2.hit[k]

PoolInv == PoolTyped /\ PoolTraced /\ PoolCounts

LEMMA PoolStarts == EvaluationInit => PoolInv
<1> SUFFICES ASSUME EvaluationInit PROVE PoolInv
  OBVIOUS
<1>1. /\ cycles = 0 /\ labelled = <<>> /\ first_t = <<>>
      /\ phase2 = NothingCounted(DeepKs)
  BY DEF EvaluationInit
<1>2. DOMAIN labelled = {} /\ DOMAIN first_t = {}
  BY <1>1
<1>3. labelled \in Seq(LabelRecord) /\ first_t \in Seq(FirstRecord)
  BY <1>1
<1>4. PoolTyped /\ PoolTraced
  BY <1>2, <1>3 DEF PoolTyped, PoolTraced
<1>5. RingIds(first_t) = {}
  BY <1>2 DEF RingIds, ToSet
<1>6. \A k \in Ks : HitsPerCycle(k) = 0
  <2> SUFFICES ASSUME NEW k \in Ks PROVE HitsPerCycle(k) = 0
    OBVIOUS
  <2>1. PICK f : f = [t \in 1..cycles |-> HitsAt(k, t, labelled)]
    OBVIOUS
  <2>2. DOMAIN f = {}
    BY <1>1, <2>1
  <2> QED
    BY <2>1, <2>2, TallyOfNone DEF HitsPerCycle
<1>7. PoolCounts
  <2>1. phase2.seen = {} /\ \A k \in DeepKs : phase2.hit[k] = 0
    BY <1>1 DEF NothingCounted, NoHits
  <2> QED
    BY <1>5, <1>6, <2>1, EvaluationConstants DEF PoolCounts
<1> QED
  BY <1>4, <1>7 DEF PoolInv

LEMMA PoolRests ==
  ASSUME PoolInv, UNCHANGED evaluationVars PROVE PoolInv'
<1>1. /\ cycles' = cycles /\ labelled' = labelled /\ first_t' = first_t
      /\ phase2' = phase2 /\ reached' = reached
  BY DEF evaluationVars
<1>2. PoolTyped'
  BY <1>1 DEF PoolInv, PoolTyped
<1>3. PoolTraced'
  BY <1>1 DEF PoolInv, PoolTraced, Traced
<1>4. RingIds(first_t)' = RingIds(first_t)
  BY <1>1 DEF RingIds, ToSet
<1>5. \A k : HitsPerCycle(k)' = HitsPerCycle(k)
  BY <1>1 DEF HitsPerCycle
<1>6. PoolCounts'
  BY <1>1, <1>4, <1>5 DEF PoolInv, PoolCounts
<1> QED
  BY <1>2, <1>3, <1>6 DEF PoolInv

\* Whether or not a cycle is skipped, eval_phase2 adds what the queue hits.
LEMMA HeadlineSteps ==
  ASSUME NEW c, IsCycle(c), phase2 \in CountType(DeepKs), gate \in CountType(Ks),
         Phase2Cycle(c), GateCycle(c)
  PROVE  /\ phase2'.found = phase2.found \cup FoundUpto(Deepest(DeepKs), c)
         /\ \A k \in DeepKs : /\ Cardinality(HitsUpto(k, c)) \in Nat
                          /\ phase2.hit[k] \in Nat
                          /\ phase2'.hit[k] = phase2.hit[k] + Cardinality(HitsUpto(k, c))
<1>1. Deepest(DeepKs) \in Nat /\ \A k \in DeepKs : k \in Nat
  BY EvaluationConstants
<1>2. \A k \in DeepKs : Cardinality(HitsUpto(k, c)) \in Nat /\ phase2.hit[k] \in Nat
  <2>1. \A k \in DeepKs : Cardinality(HitsUpto(k, c)) \in Nat
    BY <1>1, CycleCounts
  <2> QED
    BY <2>1 DEF CountType
<1>3. CASE c.rings = <<>> \/ c.queue = <<>>
  <2>1. /\ phase2'.found = phase2.found
        /\ \A k \in DeepKs : phase2'.hit[k] = phase2.hit[k]
    BY <1>3, TalliesStep
  <2>2. FoundUpto(Deepest(DeepKs), c) = {} /\ \A k \in DeepKs : Cardinality(HitsUpto(k, c)) = 0
    <3>1. CASE c.queue = <<>>
      BY <1>1, <3>1, CycleCounts
    <3>2. CASE c.rings = <<>>
      <4>1. RingIds(c.rings) = {} /\ \A k \in Nat : Cardinality(HitsUpto(k, c)) = 0
        BY <3>2, CycleCounts
      <4>2. FoundUpto(Deepest(DeepKs), c) \in SUBSET RingIds(c.rings)
        BY <1>1, CycleCounts
      <4> QED
        BY <1>1, <4>1, <4>2
    <3> QED
      BY <1>3, <3>1, <3>2
  <2> QED
    BY <1>2, <2>1, <2>2
<1>4. CASE c.rings # <<>> /\ c.queue # <<>>
  <2>1. /\ phase2'.found = phase2.found \cup FoundUpto(Deepest(DeepKs), c)
        /\ \A k \in DeepKs : phase2'.hit[k] = phase2.hit[k] + Cardinality(HitsUpto(k, c))
    BY <1>4, TalliesStep
  <2> QED
    BY <1>2, <2>1
<1> QED
  BY <1>3, <1>4

\* The records that a cycle adds to the pool.
AddsRecords(c, q) ==
  q = IF c.rings = <<>> THEN <<>>
      ELSE [i \in DOMAIN c.queue |-> [t |-> c.t, ring |-> label_candidate(c.queue[i], c.rings)]]

LEMMA NewRecordsAre ==
  ASSUME NEW c, IsCycle(c), NEW q, AddsRecords(c, q)
  PROVE  /\ q \in Seq(LabelRecord)
         /\ \A j \in DOMAIN q :
              /\ q[j].t = c.t /\ j \in DOMAIN c.queue /\ c.rings # <<>>
              /\ q[j].ring # NoRing => q[j].ring \in FoundUpto(Len(c.queue), c)
         /\ \A k \in Nat : Cardinality({j \in DOMAIN q : j <= k /\ q[j].ring # NoRing})
                             = Cardinality(HitsUpto(k, c))
<1>1. IsTable(c.rings) /\ c.queue \in Seq(ToSet(c.queue)) /\ c.t \in Nat
  BY DEF IsCycle, IsQueue
<1>3. PICK n \in Nat : n = Len(c.queue)
  BY <1>1
<1>4. DOMAIN c.queue = 1..n
  BY <1>1, <1>3
<1>5. CASE c.rings = <<>>
  <2>1. q = <<>>
    BY <1>5 DEF AddsRecords
  <2>2. q \in Seq(LabelRecord) /\ DOMAIN q = {}
    BY <2>1
  <2>3. \A k \in Nat : Cardinality(HitsUpto(k, c)) = 0
    BY <1>5, CycleCounts
  <2>4. \A k \in Nat : {j \in DOMAIN q : j <= k /\ q[j].ring # NoRing} = {}
    BY <2>2
  <2> QED
    BY <2>2, <2>3, <2>4, FS_EmptySet
<1>6. CASE c.rings # <<>>
  <2>1. q = [i \in 1..n |-> [t |-> c.t, ring |-> label_candidate(c.queue[i], c.rings)]]
    BY <1>4, <1>6 DEF AddsRecords
  <2>2. \A i \in 1..n : /\ q[i].ring = NoRing <=> Hits(c.queue[i], c.rings) = {}
                        /\ q[i].ring # NoRing => q[i].ring \in Hits(c.queue[i], c.rings)
                        /\ q[i].t = c.t /\ q[i] = [t |-> q[i].t, ring |-> q[i].ring]
    <3> SUFFICES ASSUME NEW i \in 1..n
                 PROVE  /\ q[i].ring = NoRing <=> Hits(c.queue[i], c.rings) = {}
                        /\ q[i].ring # NoRing => q[i].ring \in Hits(c.queue[i], c.rings)
                        /\ q[i].t = c.t /\ q[i] = [t |-> q[i].t, ring |-> q[i].ring]
      OBVIOUS
    <3>1. PICK nodes : nodes = c.queue[i]
      OBVIOUS
    <3>2. /\ label_candidate(nodes, c.rings) = NoRing <=> Hits(nodes, c.rings) = {}
          /\ label_candidate(nodes, c.rings) # NoRing =>
               label_candidate(nodes, c.rings) \in Hits(nodes, c.rings)
      BY <1>1, LabelIs
    <3>3. q[i] = [t |-> c.t, ring |-> label_candidate(nodes, c.rings)]
      BY <2>1, <3>1
    <3> QED
      BY <3>1, <3>2, <3>3
  <2>3. \A nodes : Hits(nodes, c.rings) \in SUBSET Rings
    <3>1. \A nodes : Hits(nodes, c.rings) \in SUBSET RingIds(c.rings)
      BY <1>1, HitsAre
    <3>2. RingIds(c.rings) \in SUBSET Rings
      BY <1>1, HitsAre
    <3> QED
      BY <3>1, <3>2
  <2>4. ASSUME NEW i \in 1..n PROVE q[i] \in LabelRecord
    <3>1. PICK x : x = q[i].ring
      OBVIOUS
    <3>2. x \in Rings \cup {NoRing}
      BY <2>2, <2>3, <3>1
    <3>3. q[i] = [t |-> c.t, ring |-> x]
      BY <2>2, <3>1
    <3> QED
      BY <1>1, <3>2, <3>3 DEF LabelRecord
  <2>5. q \in Seq(LabelRecord) /\ DOMAIN q = 1..n
    <3>1. q \in [1..n -> LabelRecord]
      BY <2>1, <2>4
    <3> QED
      BY <2>1, <3>1, AsSequence
  <2>6. \A k \in Nat : Upto(k, c.queue) = {i \in DOMAIN c.queue : i <= k}
    BY <1>1, UptoIs
  <2>7. \A k \in Nat : {j \in 1..n : j <= k /\ q[j].ring # NoRing} = HitsUpto(k, c)
    BY <1>4, <2>2, <2>6 DEF HitsUpto
  <2>8. \A i \in 1..n : q[i].ring # NoRing => q[i].ring \in FoundUpto(Len(c.queue), c)
    <3>1. n \in Nat /\ \A r : r \in FoundUpto(Len(c.queue), c) <=>
                         \E i \in DOMAIN c.queue : r \in Hits(c.queue[i], c.rings)
      BY FoundIs
    <3> QED
      BY <1>4, <2>2, <3>1
  <2>9. \A j \in DOMAIN q :
          /\ q[j].t = c.t /\ j \in DOMAIN c.queue /\ c.rings # <<>>
          /\ q[j].ring # NoRing => q[j].ring \in FoundUpto(Len(c.queue), c)
    BY <1>4, <1>6, <2>2, <2>5, <2>8
  <2>10. \A k \in Nat : Cardinality({j \in DOMAIN q : j <= k /\ q[j].ring # NoRing})
                          = Cardinality(HitsUpto(k, c))
    BY <2>5, <2>7
  <2> QED
    BY <2>5, <2>9, <2>10
<1> QED
  BY <1>5, <1>6

LEMMA PoolSteps ==
  ASSUME FunnelInv, PoolInv, NEW c, Replays(c) PROVE PoolInv'
<1>1. /\ IsCycle(c) /\ FunnelCycle(c) /\ Phase2Cycle(c) /\ GateCycle(c) /\ PoolCycle(c)
      /\ cycles' = cycles + 1 /\ c.t = cycles + 1
  BY DEF Replays, Ticks
<1>2. cycles \in Nat /\ phase2 \in CountType(DeepKs) /\ gate \in CountType(Ks)
  BY DEF FunnelInv, FunnelTyped
<1>3. PoolTyped /\ PoolTraced /\ PoolCounts
  BY DEF PoolInv
<1>4. /\ first_t \in Seq(FirstRecord) /\ labelled \in Seq(LabelRecord)
      /\ \A i \in DOMAIN first_t : first_t[i].t <= cycles
      /\ \A i, j \in DOMAIN first_t : i <= j => first_t[i].t <= first_t[j].t
      /\ \A i \in DOMAIN labelled : labelled[i].t <= cycles
      /\ \A i, j \in DOMAIN labelled : i <= j => labelled[i].t <= labelled[j].t
  BY <1>3 DEF PoolTyped
<1>5. PICK q : AddsRecords(c, q)
  BY DEF AddsRecords
<1>6. /\ q \in Seq(LabelRecord)
      /\ \A j \in DOMAIN q : /\ q[j].t = c.t /\ j \in DOMAIN c.queue /\ c.rings # <<>>
                             /\ q[j].ring # NoRing => q[j].ring \in FoundUpto(Len(c.queue), c)
      /\ \A k \in Nat : Cardinality({j \in DOMAIN q : j <= k /\ q[j].ring # NoRing})
                          = Cardinality(HitsUpto(k, c))
  BY <1>1, <1>5, NewRecordsAre
<1>7. labelled' = labelled \o q
  <2>1. CASE c.rings = <<>>
    <3>1. labelled' = labelled /\ q = <<>>
      BY <1>1, <1>5, <2>1 DEF PoolCycle, AddsRecords
    <3>2. labelled \o <<>> = labelled
      BY <1>4
    <3> QED
      BY <3>1, <3>2
  <2>2. CASE c.rings # <<>>
    BY <1>1, <1>5, <2>2 DEF PoolCycle, AddsRecords
  <2> QED
    BY <2>1, <2>2
<1>8. PICK l, more : l = labelled /\ more = labelled'
  OBVIOUS
<1>9. PICK f, g : f = first_t /\ g = first_t'
  OBVIOUS
<1>10. Pools(l, q, c.t, more)
  <2>1. \A i \in DOMAIN l : l[i].t # c.t
    <3>1. \A i \in DOMAIN l : l[i] \in LabelRecord /\ l[i].t <= cycles
      BY <1>4, <1>8
    <3>2. \A i \in DOMAIN l : l[i].t \in Nat
      BY <3>1 DEF LabelRecord
    <3> QED
      BY <1>1, <1>2, <3>1, <3>2
  <2> QED
    <3>1. l \in Seq(LabelRecord) /\ more = l \o q
      BY <1>4, <1>7, <1>8
    <3>2. q \in Seq(LabelRecord) /\ \A j \in DOMAIN q : q[j].t = c.t
      BY <1>6
    <3> QED
      BY <2>1, <3>1, <3>2 DEF Pools
<1>11. Appears(f, c.t, c.rings, g)
  <2>1. IsTable(c.rings) /\ c.t \in Nat
    BY <1>1 DEF IsCycle
  <2>2. PICK new : new = Only(c.rings, {r \in ToSet(c.rings) : r.ring \notin RingIds(f)})
    OBVIOUS
  <2>3. g = f \o [i \in DOMAIN new |-> [ring |-> new[i].ring, t |-> c.t]]
    BY <1>1, <1>9, <2>2 DEF PoolCycle
  <2> QED
    BY <1>4, <1>9, <2>1, <2>2, <2>3 DEF Appears
<1>12. /\ g \in Seq(FirstRecord) /\ Len(f) <= Len(g)
       /\ \A i \in DOMAIN f : i \in DOMAIN g /\ g[i] = f[i]
       /\ \A i \in DOMAIN g : i \notin DOMAIN f => g[i].t = c.t
       /\ RingIds(g) = RingIds(f) \cup RingIds(c.rings)
  BY <1>11, FirstsGrow
<1>13. /\ more \in Seq(LabelRecord) /\ Len(more) = Len(l) + Len(q)
       /\ \A i \in DOMAIN l : i \in DOMAIN more /\ more[i] = l[i]
       /\ \A j \in DOMAIN q : Len(l) + j \in DOMAIN more /\ more[Len(l) + j] = q[j]
       /\ \A i \in DOMAIN more : i \in DOMAIN l \/ \E j \in DOMAIN q : i = Len(l) + j
       /\ \A k, u : u # c.t => HitsAt(k, u, more) = HitsAt(k, u, l)
       /\ \A k \in Nat : HitsAt(k, c.t, more)
                           = Cardinality({j \in DOMAIN q : j <= k /\ q[j].ring # NoRing})
  BY <1>10, PoolGrows
<1>14. \A i \in DOMAIN more : i \notin DOMAIN l => more[i].t = c.t
  BY <1>6, <1>13
<1>15. /\ \A i \in DOMAIN l : l[i].t \in Nat /\ l[i].t <= cycles
       /\ \A i \in DOMAIN f : f[i].t \in Nat /\ f[i].t <= cycles
  <2>1. \A i \in DOMAIN l : l[i] \in LabelRecord /\ l[i].t <= cycles
    BY <1>4, <1>8
  <2>2. \A i \in DOMAIN f : f[i] \in FirstRecord /\ f[i].t <= cycles
    BY <1>4, <1>9
  <2>3. /\ \A i \in DOMAIN l : l[i].t \in Nat
        /\ \A i \in DOMAIN f : f[i].t \in Nat
    BY <2>1, <2>2 DEF LabelRecord, FirstRecord
  <2> QED
    BY <2>1, <2>2, <2>3
<1>16. DOMAIN l = 1..Len(l) /\ DOMAIN more = 1..Len(more) /\ Len(l) \in Nat /\ Len(more) \in Nat
  <2>1. l \in Seq(LabelRecord)
    BY <1>4, <1>8
  <2>2. more \in Seq(LabelRecord)
    BY <1>13
  <2> QED
    BY <2>1, <2>2
<1>17. DOMAIN f = 1..Len(f) /\ DOMAIN g = 1..Len(g) /\ Len(f) \in Nat /\ Len(g) \in Nat
  <2>1. f \in Seq(FirstRecord)
    BY <1>4, <1>9
  <2> QED
    BY <2>1, <1>12
<1>18. PoolTyped'
  <2>1. /\ \A i \in DOMAIN g : g[i].t <= cycles'
        /\ \A i \in DOMAIN more : more[i].t <= cycles'
    <3>1. ASSUME NEW i \in DOMAIN g PROVE g[i].t <= cycles + 1
      <4>1. CASE i \in DOMAIN f
        BY <1>2, <1>12, <1>15, <4>1
      <4>2. CASE i \notin DOMAIN f
        BY <1>1, <1>2, <1>12, <4>2
      <4> QED
        BY <4>1, <4>2
    <3>2. ASSUME NEW i \in DOMAIN more PROVE more[i].t <= cycles + 1
      <4>1. CASE i \in DOMAIN l
        BY <1>2, <1>13, <1>15, <4>1
      <4>2. CASE i \notin DOMAIN l
        BY <1>1, <1>2, <1>14, <4>2
      <4> QED
        BY <4>1, <4>2
    <3> QED
      BY <1>1, <3>1, <3>2
  <2>2. ASSUME NEW i \in DOMAIN g, NEW j \in DOMAIN g, i <= j PROVE g[i].t <= g[j].t
    <3>1. CASE j \in DOMAIN f
      <4>1. i \in DOMAIN f
        BY <1>17, <2>2, <3>1
      <4> QED
        BY <1>4, <1>9, <1>12, <2>2, <3>1, <4>1
    <3>2. CASE j \notin DOMAIN f
      <4>1. g[j].t = c.t /\ g[i].t <= cycles'
        BY <1>12, <2>1, <3>2
      <4> QED
        BY <1>1, <4>1
    <3> QED
      BY <3>1, <3>2
  <2>3. ASSUME NEW i \in DOMAIN more, NEW j \in DOMAIN more, i <= j PROVE more[i].t <= more[j].t
    <3>1. CASE j \in DOMAIN l
      <4>1. i \in DOMAIN l
        BY <1>16, <2>3, <3>1
      <4> QED
        BY <1>4, <1>8, <1>13, <2>3, <3>1, <4>1
    <3>2. CASE j \notin DOMAIN l
      <4>1. more[j].t = c.t /\ more[i].t <= cycles'
        BY <1>14, <2>1, <3>2
      <4> QED
        BY <1>1, <4>1
    <3> QED
      BY <3>1, <3>2
  <2> QED
    BY <1>8, <1>9, <1>12, <1>13, <2>1, <2>2, <2>3 DEF PoolTyped
<1>19. PoolTraced'
  <2>1. reached \subseteq reached'
    BY <1>1, FunnelCycleIs
  <2>2. ASSUME NEW i \in DOMAIN more, more[i].ring # NoRing
        PROVE  /\ <<more[i].ring, "built">> \in reached'
               /\ \E j \in DOMAIN g : g[j].ring = more[i].ring /\ g[j].t <= more[i].t
    <3>1. CASE i \in DOMAIN l
      <4>1. more[i] = l[i]
        BY <1>13, <3>1
      <4>2. Traced(l[i])
        BY <1>3, <1>8, <2>2, <3>1, <4>1 DEF PoolTraced
      <4>3. PICK j \in DOMAIN f : f[j].ring = l[i].ring /\ f[j].t <= l[i].t
        BY <1>9, <4>2 DEF Traced
      <4>4. j \in DOMAIN g /\ g[j] = f[j]
        BY <1>12
      <4>5. <<l[i].ring, "built">> \in reached
        BY <4>2 DEF Traced
      <4> QED
        BY <2>1, <4>1, <4>3, <4>4, <4>5
    <3>2. CASE i \notin DOMAIN l
      <4>1. PICK j \in DOMAIN q : more[i] = q[j]
        BY <1>13, <3>2
      <4>2. PICK x : x = more[i].ring
        OBVIOUS
      <4>3. c.rings # <<>> /\ j \in DOMAIN c.queue /\ x \in FoundUpto(Len(c.queue), c)
        BY <1>6, <2>2, <4>1, <4>2
      <4>4. c.queue # <<>>
        BY <4>3
      <4>5. reached' = reached \cup observe_cycle(c)
        BY <1>1, <4>3, <4>4, FunnelCycleIs
      <4>6. <<x, "built">> \in observe_cycle(c)
        BY <1>1, <4>3, ObservedIs
      <4>7. x \in RingIds(c.rings)
        <5>1. c.queue \in Seq(ToSet(c.queue))
          BY <1>1 DEF IsCycle, IsQueue
        <5>2. Len(c.queue) \in Nat
          BY <5>1
        <5>3. FoundUpto(Len(c.queue), c) \in SUBSET RingIds(c.rings)
          BY <1>1, <5>2, CycleCounts
        <5> QED
          BY <4>3, <5>3
      <4>8. PICK m \in DOMAIN g : g[m].ring = x
        <5>1. x \in RingIds(g)
          BY <1>12, <4>7
        <5> QED
          BY <5>1 DEF RingIds, ToSet
      <4>9. g[m].t <= c.t
        <5>1. CASE m \in DOMAIN f
          BY <1>1, <1>2, <1>12, <1>15, <5>1
        <5>2. CASE m \notin DOMAIN f
          BY <1>1, <1>2, <1>12, <5>2
        <5> QED
          BY <5>1, <5>2
      <4>10. more[i].t = c.t
        BY <1>14, <3>2
      <4> QED
        BY <4>2, <4>5, <4>6, <4>8, <4>9, <4>10
    <3> QED
      BY <3>1, <3>2
  <2> QED
    BY <1>8, <1>9, <2>2 DEF PoolTraced, Traced
<1>20. PoolCounts'
  <2>1. RingIds(g) = phase2'.seen
    <3>1. phase2'.seen = phase2.seen \cup RingIds(c.rings)
      BY <1>1, <1>2, TalliesStep
    <3>2. RingIds(f) = phase2.seen
      BY <1>3, <1>9 DEF PoolCounts
    <3> QED
      BY <1>12, <3>1, <3>2
  <2>2. ASSUME NEW k \in Ks PROVE HitsPerCycle(k)' = phase2'.hit[k]
    <3>1. k \in Nat
      BY EvaluationConstants
    <3>2. PICK n \in Nat : n = cycles
      BY <1>2
    <3>3. PICK fs : fs = [t \in 1..n |-> HitsAt(k, t, l)]
      OBVIOUS
    <3>4. PICK gs : gs = [t \in 1..(n + 1) |-> HitsAt(k, t, more)]
      OBVIOUS
    <3>5. \A t \in 1..n : fs[t] = HitsAt(k, t, l) /\ gs[t] = HitsAt(k, t, more) /\ t # c.t
      BY <1>1, <3>2, <3>3, <3>4
    <3>6. \A t \in 1..n : gs[t] = fs[t]
      BY <1>13, <3>5
    <3>7. \A t \in 1..n : fs[t] \in Int
      <4> SUFFICES ASSUME NEW t \in 1..n PROVE HitsAt(k, t, l) \in Int
        BY <3>5
      <4>1. PICK I : I = DOMAIN l
        OBVIOUS
      <4>2. IsFiniteSet(I)
        BY <1>16, <4>1, UpTo
      <4>3. PositivesOf(TopOf(k, AtTime(t, l)), l) \in SUBSET I
        BY <4>1 DEF PositivesOf, TopOf, AtTime
      <4> QED
        BY <4>2, <4>3, FewerThan DEF HitsAt
    <3>8. gs[n + 1] = Cardinality(HitsUpto(k, c)) /\ gs[n + 1] \in Int
      <4>1. gs[n + 1] = HitsAt(k, c.t, more)
        BY <1>1, <3>2, <3>4
      <4>2. HitsAt(k, c.t, more) = Cardinality(HitsUpto(k, c))
        BY <1>6, <1>13, <3>1
      <4>3. Cardinality(HitsUpto(k, c)) \in Nat
        BY <1>1, <3>1, CycleCounts
      <4> QED
        BY <4>1, <4>2, <4>3
    <3>9. Tally(gs) = Tally(fs) + gs[n + 1] /\ Tally(fs) \in Int
      <4>1. DOMAIN fs = 1..n /\ DOMAIN gs = 1..(n + 1)
        BY <3>3, <3>4
      <4> QED
        BY <3>6, <3>7, <3>8, <4>1, TallyGrows
    <3>10. Tally(fs) = phase2.hit[k]
      BY <1>3, <1>8, <3>2, <3>3 DEF PoolCounts, HitsPerCycle
    <3>11. phase2'.hit[k] = phase2.hit[k] + Cardinality(HitsUpto(k, c))
      <4>1. k \in DeepKs
        BY EvaluationConstants
      <4> QED
        BY <1>1, <1>2, <4>1, HeadlineSteps
    <3>12. HitsPerCycle(k)' = Tally(gs)
      BY <1>1, <1>8, <3>2, <3>4 DEF HitsPerCycle
    <3> QED
      BY <3>8, <3>9, <3>10, <3>11, <3>12
  <2>3. RingIds(first_t)' = phase2'.seen
    BY <1>9, <2>1
  <2> QED
    BY <2>2, <2>3 DEF PoolCounts
<1> QED
  BY <1>18, <1>19, <1>20 DEF PoolInv

-----------------------------------------------------------------------------
(* The threshold band.                                                     *)

IsOverlap(o) ==
  /\ o.inter \in Nat /\ o.n_ring \in Nat /\ o.n_cand \in Nat
  /\ o.n_cand + o.n_ring - o.inter \in Nat

LEMMA OverlapIs ==
  ASSUME NEW nodes, NEW members, IsFiniteSet(nodes), IsFiniteSet(members), NEW o,
         NEW ring,
         o = [ring |-> ring, inter |-> Cardinality(nodes \cap members),
              n_ring |-> Cardinality(members), n_cand |-> Cardinality(nodes)]
  PROVE  /\ IsOverlap(o) /\ o.ring = ring
         /\ nodes \cap members # {} => (is_hit_cell(o, SHIPPED) <=> is_hit(nodes, members))
         /\ nodes \cap members = {} => ~is_hit(nodes, members)
<1>1. PICK inter : inter = nodes \cap members
  OBVIOUS
<1>2. PICK join : join = nodes \cup members
  OBVIOUS
<1>3. IsFiniteSet(inter) /\ IsFiniteSet(join)
  BY <1>1, <1>2, FS_Union, FS_Subset
<1>4. PICK a \in Nat, n \in Nat, m \in Nat, u \in Nat :
        a = Cardinality(inter) /\ n = Cardinality(nodes) /\ m = Cardinality(members)
        /\ u = Cardinality(join)
  BY <1>3, FS_CardinalityType
<1>5. u = n + m - a
  BY <1>1, <1>2, <1>4, FS_Union
<1>6. o.ring = ring /\ o.inter = a /\ o.n_ring = m /\ o.n_cand = n
  BY <1>1, <1>4
<1>7. IsOverlap(o)
  BY <1>5, <1>6 DEF IsOverlap
<1>8. inter = {} <=> a = 0
  BY <1>3, <1>4, FS_EmptySet
<1>9. is_hit(nodes, members) <=> a > 0 /\ 2 * a >= m /\ 10 * a >= 3 * u
  BY <1>1, <1>2, <1>4 DEF is_hit
<1>10. is_hit_cell(o, SHIPPED) <=> 10 * a >= 5 * m /\ 10 * a >= 3 * (n + m - a)
  BY <1>6 DEF is_hit_cell, SHIPPED
<1>11. inter # {} => (is_hit_cell(o, SHIPPED) <=> is_hit(nodes, members))
  BY <1>5, <1>8, <1>9, <1>10
<1>12. inter = {} => ~is_hit(nodes, members)
  BY <1>8, <1>9
<1> QED
  BY <1>1, <1>6, <1>7, <1>11, <1>12

LEMMA HigherIsFewer ==
  ASSUME NEW o, IsOverlap(o), NEW low \in Cells, NEW high \in Cells,
         low[1] <= high[1], low[2] <= high[2], is_hit_cell(o, high)
  PROVE  is_hit_cell(o, low)
<1>1. /\ low[1] \in Nat /\ low[2] \in Nat /\ high[1] \in Nat /\ high[2] \in Nat
  BY EvaluationAssumption DEF Cells
<1>2. PICK m \in Nat, u \in Nat, a \in Nat :
        m = o.n_ring /\ u = o.n_cand + o.n_ring - o.inter /\ a = o.inter
  BY DEF IsOverlap
<1>3. 10 * a >= high[1] * m /\ 10 * a >= high[2] * u
  BY <1>2 DEF is_hit_cell
<1>4. ASSUME NEW x \in Nat, NEW y \in Nat, NEW z \in Nat, x <= y PROVE x * z <= y * z
  BY <1>4, SMTT(20)
<1>5. low[1] * m <= high[1] * m /\ low[2] * u <= high[2] * u
  BY <1>1, <1>2, <1>4
<1>6. low[1] * m \in Int /\ high[1] * m \in Int /\ low[2] * u \in Int /\ high[2] * u \in Int
  BY <1>1, <1>2
<1>7. 10 * a >= low[1] * m /\ 10 * a >= low[2] * u
  BY <1>3, <1>5, <1>6
<1> QED
  BY <1>2, <1>7 DEF is_hit_cell

LEMMA CellHitsAre ==
  ASSUME NEW t, IsTable(t), NEW nodes, IsFiniteSet(nodes)
  PROVE  /\ CellHits(overlaps(nodes, t), SHIPPED) = Hits(nodes, t)
         /\ \A cell : CellHits(overlaps(nodes, t), cell) \in SUBSET RingIds(t)
         /\ \A low, high \in Cells : low[1] <= high[1] /\ low[2] <= high[2] =>
              CellHits(overlaps(nodes, t), high) \in SUBSET CellHits(overlaps(nodes, t), low)
<1>1. \A r \in ToSet(t) : IsFiniteSet(r.members)
  BY DEF IsTable
<1>2. PICK ov : ov = overlaps(nodes, t)
  OBVIOUS
<1>3. PICK of : of = [r \in ToSet(t) |->
        [ring |-> r.ring, inter |-> Cardinality(nodes \cap r.members),
         n_ring |-> Cardinality(r.members), n_cand |-> Cardinality(nodes)]]
  OBVIOUS
<1>4. ASSUME NEW r \in ToSet(t)
      PROVE  /\ IsOverlap(of[r]) /\ of[r].ring = r.ring
             /\ nodes \cap r.members # {} =>
                  (is_hit_cell(of[r], SHIPPED) <=> is_hit(nodes, r.members))
             /\ nodes \cap r.members = {} => ~is_hit(nodes, r.members)
  <2>1. PICK members : members = r.members
    OBVIOUS
  <2>2. PICK ring : ring = r.ring
    OBVIOUS
  <2>3. PICK o : o = of[r]
    OBVIOUS
  <2>4. o = [ring |-> ring, inter |-> Cardinality(nodes \cap members),
             n_ring |-> Cardinality(members), n_cand |-> Cardinality(nodes)]
    BY <1>3, <2>1, <2>2, <2>3
  <2>5. IsFiniteSet(members)
    BY <1>1, <2>1
  <2>6. /\ IsOverlap(o) /\ o.ring = ring
        /\ nodes \cap members # {} => (is_hit_cell(o, SHIPPED) <=> is_hit(nodes, members))
        /\ nodes \cap members = {} => ~is_hit(nodes, members)
    BY <2>4, <2>5, OverlapIs
  <2> QED
    BY <2>1, <2>2, <2>3, <2>6
<1>5. ov = {of[r] : r \in {s \in ToSet(t) : nodes \cap s.members # {}}}
  BY <1>2, <1>3 DEF overlaps
<1>6. \A cell : CellHits(ov, cell) = {o.ring : o \in {x \in ov : is_hit_cell(x, cell)}}
  BY DEF CellHits
<1>7. CellHits(ov, SHIPPED) = Hits(nodes, t)
  <2>1. Hits(nodes, t) = {r.ring : r \in {s \in ToSet(t) : is_hit(nodes, s.members)}}
    BY DEF Hits
  <2>2. ASSUME NEW x \in Hits(nodes, t) PROVE x \in CellHits(ov, SHIPPED)
    <3>1. PICK r \in ToSet(t) : x = r.ring /\ is_hit(nodes, r.members)
      BY <2>1
    <3>2. of[r] \in ov /\ is_hit_cell(of[r], SHIPPED) /\ of[r].ring = x
      BY <1>4, <1>5, <3>1
    <3> QED
      BY <1>6, <3>2
  <2>3. ASSUME NEW x \in CellHits(ov, SHIPPED) PROVE x \in Hits(nodes, t)
    <3>1. PICK o \in ov : x = o.ring /\ is_hit_cell(o, SHIPPED)
      BY <1>6
    <3>2. PICK r \in ToSet(t) : o = of[r] /\ nodes \cap r.members # {}
      BY <1>5
    <3>3. is_hit(nodes, r.members) /\ x = r.ring
      BY <1>4, <3>1, <3>2
    <3> QED
      BY <2>1, <3>3
  <2> QED
    BY <2>2, <2>3
<1>8. \A cell : CellHits(ov, cell) \in SUBSET RingIds(t)
  <2>1. \A o \in ov : o.ring \in RingIds(t)
    BY <1>4, <1>5 DEF RingIds
  <2> QED
    BY <1>6, <2>1
<1>9. ASSUME NEW low \in Cells, NEW high \in Cells, low[1] <= high[1], low[2] <= high[2]
      PROVE  CellHits(ov, high) \in SUBSET CellHits(ov, low)
  <2>1. \A o \in ov : IsOverlap(o)
    BY <1>4, <1>5
  <2>2. \A o \in ov : is_hit_cell(o, high) => is_hit_cell(o, low)
    BY <1>9, <2>1, HigherIsFewer
  <2> QED
    BY <1>6, <2>2
<1> QED
  BY <1>2, <1>7, <1>8, <1>9

CellRecord == [found : SUBSET Rings, hit : [DeepKs -> Nat]]

CellFound(cell, c) ==
  UNION {CellHits(overlaps(c.queue[i], c.rings), cell) : i \in Upto(Deepest(DeepKs), c.queue)}

CellPlaces(cell, k, c) ==
  {i \in Upto(k, c.queue) : CellHits(overlaps(c.queue[i], c.rings), cell) # {}}

LEMMA CellCounts ==
  ASSUME NEW c, IsCycle(c)
  PROVE  /\ \A cell : CellFound(cell, c) \in SUBSET Rings
         /\ \A cell : \A k \in DeepKs : Cardinality(CellPlaces(cell, k, c)) \in Nat
         /\ CellFound(SHIPPED, c) = FoundUpto(Deepest(DeepKs), c)
         /\ \A k \in DeepKs : CellPlaces(SHIPPED, k, c) = HitsUpto(k, c)
         /\ \A low, high \in Cells : low[1] <= high[1] /\ low[2] <= high[2] =>
              /\ CellFound(high, c) \in SUBSET CellFound(low, c)
              /\ \A k \in DeepKs : Cardinality(CellPlaces(high, k, c)) <= Cardinality(CellPlaces(low, k, c))
         /\ \A k \in DeepKs : Upto(k, c.queue) \in SUBSET Upto(Deepest(DeepKs), c.queue)
<1>1. /\ IsTable(c.rings) /\ c.queue \in Seq(ToSet(c.queue))
      /\ \A nodes \in ToSet(c.queue) : IsFiniteSet(nodes)
  BY DEF IsCycle, IsQueue
<1>2. Deepest(DeepKs) \in Nat /\ \A k \in DeepKs : k \in Nat /\ k <= Deepest(DeepKs)
  BY EvaluationConstants
<1>3. \A k \in Nat : Upto(k, c.queue) = {i \in DOMAIN c.queue : i <= k} /\ IsFiniteSet(Upto(k, c.queue))
  BY <1>1, UptoIs
<1>4. \A i \in DOMAIN c.queue : i \in Nat /\ IsFiniteSet(c.queue[i])
  BY <1>1
<1>5. ASSUME NEW i \in DOMAIN c.queue
      PROVE  /\ CellHits(overlaps(c.queue[i], c.rings), SHIPPED) = Hits(c.queue[i], c.rings)
             /\ \A cell : CellHits(overlaps(c.queue[i], c.rings), cell) \in SUBSET Rings
             /\ \A low, high \in Cells : low[1] <= high[1] /\ low[2] <= high[2] =>
                  CellHits(overlaps(c.queue[i], c.rings), high)
                    \in SUBSET CellHits(overlaps(c.queue[i], c.rings), low)
  <2>1. PICK nodes : nodes = c.queue[i]
    OBVIOUS
  <2>2. IsFiniteSet(nodes)
    BY <1>4, <2>1
  <2>3. /\ CellHits(overlaps(nodes, c.rings), SHIPPED) = Hits(nodes, c.rings)
        /\ \A cell : CellHits(overlaps(nodes, c.rings), cell) \in SUBSET RingIds(c.rings)
        /\ \A low, high \in Cells : low[1] <= high[1] /\ low[2] <= high[2] =>
             CellHits(overlaps(nodes, c.rings), high) \in SUBSET CellHits(overlaps(nodes, c.rings), low)
    BY <1>1, <2>2, CellHitsAre
  <2>4. RingIds(c.rings) \in SUBSET Rings
    BY CycleCounts
  <2>5. \A cell : CellHits(overlaps(nodes, c.rings), cell) \in SUBSET Rings
    BY <2>3, <2>4
  <2> QED
    BY <2>1, <2>3, <2>5
<1>6. PICK D : D = Upto(Deepest(DeepKs), c.queue)
  OBVIOUS
<1>7. D \subseteq DOMAIN c.queue /\ \A k \in DeepKs : Upto(k, c.queue) \in SUBSET D
  <2>1. D = {i \in DOMAIN c.queue : i <= Deepest(DeepKs)}
    BY <1>2, <1>3, <1>6
  <2>2. \A k \in DeepKs : Upto(k, c.queue) = {i \in DOMAIN c.queue : i <= k}
    BY <1>2, <1>3
  <2> QED
    BY <1>2, <1>4, <2>1, <2>2
<1>8. \A cell : CellFound(cell, c) = UNION {CellHits(overlaps(c.queue[i], c.rings), cell) : i \in D}
  BY <1>6 DEF CellFound
<1>9. \A cell : CellFound(cell, c) \in SUBSET Rings
  BY <1>5, <1>7, <1>8
<1>10. CellFound(SHIPPED, c) = FoundUpto(Deepest(DeepKs), c)
  <2>1. FoundUpto(Deepest(DeepKs), c) = UNION {Hits(c.queue[i], c.rings) : i \in D}
    BY <1>6 DEF FoundUpto
  <2>2. \A i \in D : CellHits(overlaps(c.queue[i], c.rings), SHIPPED) = Hits(c.queue[i], c.rings)
    BY <1>5, <1>7
  <2> QED
    BY <1>8, <2>1, <2>2
<1>11. ASSUME NEW k \in DeepKs
       PROVE  /\ \A cell : /\ IsFiniteSet(CellPlaces(cell, k, c))
                           /\ Cardinality(CellPlaces(cell, k, c)) \in Nat
              /\ CellPlaces(SHIPPED, k, c) = HitsUpto(k, c)
              /\ \A low, high \in Cells : low[1] <= high[1] /\ low[2] <= high[2] =>
                   Cardinality(CellPlaces(high, k, c)) <= Cardinality(CellPlaces(low, k, c))
  <2>1. PICK U : U = Upto(k, c.queue)
    OBVIOUS
  <2>2. U \subseteq DOMAIN c.queue /\ IsFiniteSet(U)
    BY <1>2, <1>3, <2>1
  <2>3. \A cell : CellPlaces(cell, k, c)
                    = {i \in U : CellHits(overlaps(c.queue[i], c.rings), cell) # {}}
    BY <2>1 DEF CellPlaces
  <2>4. \A cell : IsFiniteSet(CellPlaces(cell, k, c)) /\ Cardinality(CellPlaces(cell, k, c)) \in Nat
    <3>1. \A cell : CellPlaces(cell, k, c) \in SUBSET U
      BY <2>3
    <3> QED
      BY <2>2, <3>1, FewerThan
  <2>5. CellPlaces(SHIPPED, k, c) = HitsUpto(k, c)
    <3>1. HitsUpto(k, c) = {i \in U : Hits(c.queue[i], c.rings) # {}}
      BY <2>1 DEF HitsUpto
    <3>2. \A i \in U : CellHits(overlaps(c.queue[i], c.rings), SHIPPED) = Hits(c.queue[i], c.rings)
      BY <1>5, <2>2
    <3> QED
      BY <2>3, <3>1, <3>2
  <2>6. ASSUME NEW low \in Cells, NEW high \in Cells, low[1] <= high[1], low[2] <= high[2]
        PROVE  Cardinality(CellPlaces(high, k, c)) <= Cardinality(CellPlaces(low, k, c))
    <3>1. \A i \in U : CellHits(overlaps(c.queue[i], c.rings), high)
                         \in SUBSET CellHits(overlaps(c.queue[i], c.rings), low)
      BY <1>5, <2>2, <2>6
    <3>2. CellPlaces(high, k, c) \in SUBSET CellPlaces(low, k, c)
      BY <2>3, <3>1
    <3> QED
      BY <2>4, <3>2, FewerThan
  <2> QED
    BY <2>4, <2>5, <2>6
<1>12. ASSUME NEW low \in Cells, NEW high \in Cells, low[1] <= high[1], low[2] <= high[2]
       PROVE  CellFound(high, c) \in SUBSET CellFound(low, c)
  <2>1. \A i \in D : CellHits(overlaps(c.queue[i], c.rings), high)
                       \in SUBSET CellHits(overlaps(c.queue[i], c.rings), low)
    BY <1>5, <1>7, <1>12
  <2> QED
    BY <1>8, <2>1
<1> QED
  BY <1>6, <1>7, <1>9, <1>10, <1>11, <1>12

LEMMA CellsTalliedAre ==
  ASSUME NEW c, IsCycle(c), NEW cell \in Cells
  PROVE  CellsTallied(c)[cell] =
           [found |-> band.cells[cell].found \cup CellFound(cell, c),
            hit |-> [k \in DeepKs |-> band.cells[cell].hit[k] + Cardinality(CellPlaces(cell, k, c))]]
<1>1. PICK D : D = Upto(Deepest(DeepKs), c.queue)
  OBVIOUS
<1>2. PICK ov : ov = [i \in D |-> overlaps(c.queue[i], c.rings)]
  OBVIOUS
<1>3. \A k \in DeepKs : Upto(k, c.queue) \in SUBSET D
  BY <1>1, CellCounts
<1>4. CellsTallied(c)[cell] =
        [found |-> band.cells[cell].found \cup UNION {CellHits(ov[i], cell) : i \in D},
         hit |-> [k \in DeepKs |-> band.cells[cell].hit[k]
                   + Cardinality({i \in Upto(k, c.queue) : CellHits(ov[i], cell) # {}})]]
  BY <1>1, <1>2 DEF CellsTallied
<1>5. UNION {CellHits(ov[i], cell) : i \in D} = CellFound(cell, c)
  BY <1>1, <1>2 DEF CellFound
<1>6. \A k \in DeepKs : {i \in Upto(k, c.queue) : CellHits(ov[i], cell) # {}} = CellPlaces(cell, k, c)
  BY <1>2, <1>3 DEF CellPlaces
<1>7. [k \in DeepKs |-> band.cells[cell].hit[k]
         + Cardinality({i \in Upto(k, c.queue) : CellHits(ov[i], cell) # {}})]
        = [k \in DeepKs |-> band.cells[cell].hit[k] + Cardinality(CellPlaces(cell, k, c))]
  BY <1>6
<1> QED
  BY <1>4, <1>5, <1>7

\* The band's cells: the shipped one is the headline, and a higher one has less.
BandTyped == band.seen = phase2.seen /\ band.tot = phase2.tot /\ DOMAIN band.cells = Cells

CellsTyped == \A cell \in Cells : band.cells[cell] \in CellRecord

ShippedCell == /\ band.cells[SHIPPED].found = phase2.found
               /\ band.cells[SHIPPED].hit = phase2.hit

Nested(low, high) ==
  /\ band.cells[high].found \in SUBSET band.cells[low].found
  /\ \A k \in DeepKs : band.cells[high].hit[k] <= band.cells[low].hit[k]

CellsNest == \A low, high \in Cells : low[1] <= high[1] /\ low[2] <= high[2] => Nested(low, high)

BandInv == BandTyped /\ CellsTyped /\ ShippedCell /\ CellsNest

LEMMA ShippedIsCell == SHIPPED \in Cells
BY EvaluationAssumption DEF SHIPPED, Cells

LEMMA BandStarts == EvaluationInit => BandInv
<1> SUFFICES ASSUME EvaluationInit PROVE BandInv
  OBVIOUS
<1> DEFINE none == NoHits(DeepKs)
<1>1. /\ phase2 = [seen |-> {}, found |-> {}, hit |-> none, tot |-> none]
      /\ band = [seen |-> {}, tot |-> none,
                 cells |-> [cell \in Cells |-> [found |-> {}, hit |-> none]]]
  BY DEF EvaluationInit, NothingCounted
<1>3. none \in [DeepKs -> Nat]
  BY DEF NoHits
<1> HIDE DEF none
<1>2. \A cell \in Cells : band.cells[cell] = [found |-> {}, hit |-> none]
  BY <1>1
<1>4. BandTyped
  BY <1>1 DEF BandTyped
<1>5. CellsTyped
  BY <1>2, <1>3 DEF CellsTyped, CellRecord
<1>6. ShippedCell
  BY <1>1, <1>2, ShippedIsCell DEF ShippedCell
<1>7. CellsNest
  <2>1. \A k \in DeepKs : none[k] <= none[k]
    BY <1>3
  <2> QED
    BY <1>2, <2>1 DEF CellsNest, Nested
<1> QED
  BY <1>4, <1>5, <1>6, <1>7 DEF BandInv

LEMMA BandRests ==
  ASSUME BandInv, UNCHANGED evaluationVars PROVE BandInv'
BY DEF BandInv, BandTyped, CellsTyped, ShippedCell, CellsNest, Nested, evaluationVars

LEMMA BandSteps ==
  ASSUME FunnelInv, BandInv, NEW c, Replays(c) PROVE BandInv'
<1>1. IsCycle(c) /\ Phase2Cycle(c) /\ GateCycle(c) /\ BandCycle(c)
  BY DEF Replays, Ticks
<1>2. phase2 \in CountType(DeepKs) /\ gate \in CountType(Ks)
  BY DEF FunnelInv, FunnelTyped
<1>3. BandTyped /\ CellsTyped /\ ShippedCell /\ CellsNest
  BY DEF BandInv
<1>4. band.seen = phase2.seen /\ band.tot = phase2.tot /\ DOMAIN band.cells = Cells
  BY <1>3 DEF BandTyped
<1>5. band' = [seen |-> band.seen \cup RingIds(c.rings),
               tot |-> IF c.rings = <<>> THEN band.tot ELSE
                         [k \in DeepKs |-> band.tot[k] + Cardinality(Upto(k, c.queue))],
               cells |-> IF c.rings = <<>> \/ c.queue = <<>> THEN band.cells ELSE CellsTallied(c)]
  BY <1>1 DEF BandCycle
<1>6. phase2' \in CountType(DeepKs) /\ phase2'.seen = phase2.seen \cup RingIds(c.rings)
  BY <1>1, <1>2, TalliesStep
<1>7. /\ phase2.hit \in [DeepKs -> Nat] /\ phase2.tot \in [DeepKs -> Nat]
      /\ phase2'.hit \in [DeepKs -> Nat] /\ phase2'.tot \in [DeepKs -> Nat]
  BY <1>2, <1>6 DEF CountType
<1>8. band'.tot = phase2'.tot
  <2>1. CASE c.rings = <<>>
    <3>1. \A k \in DeepKs : phase2'.tot[k] = phase2.tot[k]
      BY <1>1, <1>2, <2>1, TalliesStep
    <3>2. phase2'.tot = phase2.tot
      BY <1>7, <3>1
    <3>3. band'.tot = band.tot
      BY <1>5, <2>1
    <3> QED
      BY <1>4, <3>2, <3>3
  <2>2. CASE c.rings # <<>>
    <3>1. PICK g : g = [k \in DeepKs |-> phase2.tot[k] + Cardinality(Upto(k, c.queue))]
      OBVIOUS
    <3>2. band'.tot = g
      BY <1>4, <1>5, <2>2, <3>1
    <3>3. \A k \in DeepKs : g[k] = phase2'.tot[k]
      <4>1. CASE c.queue = <<>>
        <5>1. \A k \in DeepKs : phase2'.tot[k] = phase2.tot[k]
          BY <1>1, <1>2, <4>1, TalliesStep
        <5>2. \A k \in DeepKs : Cardinality(Upto(k, c.queue)) = 0
          BY <1>1, <4>1, CycleCounts, EvaluationConstants
        <5> QED
          BY <1>7, <3>1, <5>1, <5>2
      <4>2. CASE c.queue # <<>>
        <5>1. \A k \in DeepKs : phase2'.tot[k] = phase2.tot[k] + Cardinality(Upto(k, c.queue))
          BY <1>1, <1>2, <2>2, <4>2, TalliesStep
        <5> QED
          BY <3>1, <5>1
      <4> QED
        BY <4>1, <4>2
    <3>4. g = phase2'.tot
      BY <1>7, <3>1, <3>3
    <3> QED
      BY <3>2, <3>4
  <2> QED
    BY <2>1, <2>2
<1>9. band'.seen = phase2'.seen
  BY <1>4, <1>5, <1>6
<1>10. CASE c.rings = <<>> \/ c.queue = <<>>
  <2>1. band'.cells = band.cells
    BY <1>5, <1>10
  <2>2. phase2'.found = phase2.found /\ \A k \in DeepKs : phase2'.hit[k] = phase2.hit[k]
    BY <1>1, <1>2, <1>10, TalliesStep
  <2>3. phase2'.hit = phase2.hit
    BY <1>7, <2>2
  <2>4. BandTyped'
    BY <1>4, <1>8, <1>9, <2>1 DEF BandTyped
  <2>5. CellsTyped' /\ CellsNest'
    BY <1>3, <2>1 DEF CellsTyped, CellsNest, Nested
  <2>6. ShippedCell'
    BY <1>3, <2>1, <2>2, <2>3 DEF ShippedCell
  <2> QED
    BY <2>4, <2>5, <2>6 DEF BandInv
<1>11. CASE c.rings # <<>> /\ c.queue # <<>>
  <2>1. band'.cells = CellsTallied(c)
    BY <1>5, <1>11
  <2>2. DOMAIN band'.cells = Cells
    BY <2>1 DEF CellsTallied
  <2>3. /\ \A cell : CellFound(cell, c) \in SUBSET Rings
        /\ \A cell : \A k \in DeepKs : Cardinality(CellPlaces(cell, k, c)) \in Nat
        /\ CellFound(SHIPPED, c) = FoundUpto(Deepest(DeepKs), c)
        /\ \A k \in DeepKs : CellPlaces(SHIPPED, k, c) = HitsUpto(k, c)
        /\ \A low, high \in Cells : low[1] <= high[1] /\ low[2] <= high[2] =>
             /\ CellFound(high, c) \in SUBSET CellFound(low, c)
             /\ \A k \in DeepKs : Cardinality(CellPlaces(high, k, c)) <= Cardinality(CellPlaces(low, k, c))
    BY <1>1, CellCounts
  <2>4. \A cell \in Cells : /\ band.cells[cell].found \in SUBSET Rings
                            /\ band.cells[cell].hit \in [DeepKs -> Nat]
    BY <1>3 DEF CellsTyped, CellRecord
  <2>5. \A cell \in Cells :
          band'.cells[cell] =
            [found |-> band.cells[cell].found \cup CellFound(cell, c),
             hit |-> [k \in DeepKs |-> band.cells[cell].hit[k] + Cardinality(CellPlaces(cell, k, c))]]
    <3>1. \A cell \in Cells :
            CellsTallied(c)[cell] =
              [found |-> band.cells[cell].found \cup CellFound(cell, c),
               hit |-> [k \in DeepKs |-> band.cells[cell].hit[k] + Cardinality(CellPlaces(cell, k, c))]]
      BY <1>1, CellsTalliedAre, Zenon
    <3> QED
      BY <2>1, <3>1, Zenon
  <2>6. \A cell \in Cells :
          /\ band'.cells[cell].found = band.cells[cell].found \cup CellFound(cell, c)
          /\ band'.cells[cell].hit
               = [k \in DeepKs |-> band.cells[cell].hit[k] + Cardinality(CellPlaces(cell, k, c))]
    <3> SUFFICES ASSUME NEW cell \in Cells
                 PROVE  /\ band'.cells[cell].found = band.cells[cell].found \cup CellFound(cell, c)
                        /\ band'.cells[cell].hit = [k \in DeepKs |-> band.cells[cell].hit[k]
                                                     + Cardinality(CellPlaces(cell, k, c))]
      OBVIOUS
    <3>1. PICK h : h = [k \in DeepKs |-> band.cells[cell].hit[k] + Cardinality(CellPlaces(cell, k, c))]
      OBVIOUS
    <3>2. PICK F : F = band.cells[cell].found \cup CellFound(cell, c)
      OBVIOUS
    <3>3. band'.cells[cell] = [found |-> F, hit |-> h]
      BY <2>5, <3>1, <3>2
    <3> QED
      BY <3>1, <3>2, <3>3
  <2>7. \A cell \in Cells : \A k \in DeepKs :
          band'.cells[cell].hit[k] = band.cells[cell].hit[k] + Cardinality(CellPlaces(cell, k, c))
    BY <2>6
  <2>8. BandTyped'
    BY <1>8, <1>9, <2>2 DEF BandTyped
  <2>9. CellsTyped'
    <3>1. ASSUME NEW cell \in Cells PROVE band'.cells[cell] \in CellRecord
      <4>1. PICK h : h = [k \in DeepKs |-> band.cells[cell].hit[k] + Cardinality(CellPlaces(cell, k, c))]
        OBVIOUS
      <4>2. h \in [DeepKs -> Nat]
        BY <2>3, <2>4, <4>1
      <4>3. PICK F : F = band.cells[cell].found \cup CellFound(cell, c)
        OBVIOUS
      <4>4. F \in SUBSET Rings
        BY <2>3, <2>4, <4>3
      <4>5. band'.cells[cell] = [found |-> F, hit |-> h]
        BY <2>5, <4>1, <4>3
      <4> QED
        BY <4>2, <4>4, <4>5 DEF CellRecord
    <3> QED
      BY <3>1 DEF CellsTyped
  <2>10. ShippedCell'
    <3>1. /\ phase2'.found = phase2.found \cup FoundUpto(Deepest(DeepKs), c)
          /\ \A k \in DeepKs : phase2'.hit[k] = phase2.hit[k] + Cardinality(HitsUpto(k, c))
      BY <1>1, <1>2, HeadlineSteps
    <3>2. band.cells[SHIPPED].found = phase2.found /\ band.cells[SHIPPED].hit = phase2.hit
      BY <1>3 DEF ShippedCell
    <3>3. band'.cells[SHIPPED].found = phase2'.found
      BY <2>3, <2>6, <3>1, <3>2, ShippedIsCell
    <3>4. PICK h : h = band'.cells[SHIPPED].hit
      OBVIOUS
    <3>5. \A k \in DeepKs : h[k] = phase2'.hit[k]
      BY <2>3, <2>7, <3>1, <3>2, <3>4, ShippedIsCell
    <3>6. h = [k \in DeepKs |-> phase2.hit[k] + Cardinality(CellPlaces(SHIPPED, k, c))]
      BY <2>6, <3>2, <3>4, ShippedIsCell
    <3>7. h = phase2'.hit
      BY <1>7, <3>5, <3>6
    <3> QED
      BY <3>3, <3>4, <3>7 DEF ShippedCell
  <2>11. CellsNest'
    <3>1. ASSUME NEW low \in Cells, NEW high \in Cells, low[1] <= high[1], low[2] <= high[2]
          PROVE  /\ band'.cells[high].found \in SUBSET band'.cells[low].found
                 /\ \A k \in DeepKs : band'.cells[high].hit[k] <= band'.cells[low].hit[k]
      <4>1. /\ band.cells[high].found \in SUBSET band.cells[low].found
            /\ \A k \in DeepKs : band.cells[high].hit[k] <= band.cells[low].hit[k]
        BY <1>3, <3>1 DEF CellsNest, Nested
      <4>2. /\ CellFound(high, c) \in SUBSET CellFound(low, c)
            /\ \A k \in DeepKs : Cardinality(CellPlaces(high, k, c)) <= Cardinality(CellPlaces(low, k, c))
        BY <2>3, <3>1
      <4>3. band'.cells[high].found \in SUBSET band'.cells[low].found
        BY <2>6, <4>1, <4>2
      <4>4. ASSUME NEW k \in DeepKs PROVE band'.cells[high].hit[k] <= band'.cells[low].hit[k]
        <5>1. PICK a \in Nat, b \in Nat, x \in Nat, y \in Nat :
                /\ a = band.cells[high].hit[k] /\ b = band.cells[low].hit[k]
                /\ x = Cardinality(CellPlaces(high, k, c)) /\ y = Cardinality(CellPlaces(low, k, c))
          BY <2>3, <2>4
        <5>2. a <= b /\ x <= y
          BY <4>1, <4>2, <5>1
        <5>3. band'.cells[high].hit[k] = a + x /\ band'.cells[low].hit[k] = b + y
          BY <2>7, <5>1
        <5> QED
          BY <5>2, <5>3
      <4> QED
        BY <4>3, <4>4
    <3> QED
      BY <3>1 DEF CellsNest, Nested
  <2> QED
    BY <2>8, <2>9, <2>10, <2>11 DEF BandInv
<1> QED
  BY <1>10, <1>11

-----------------------------------------------------------------------------
(* The comparison of the seed rules.                                       *)

\* The comparison of the seed rules: one ring's record.
RingRecord ==
  [cycles : Nat, seeded_honest : BOOLEAN, seeded_cheat : BOOLEAN, built_honest : BOOLEAN,
   built_cheat : BOOLEAN, max_seed_in_ring_honest : Nat, max_ring_size : Nat]

SeedsCounted(rec) ==
  /\ rec.seeded_honest <=> rec.max_seed_in_ring_honest > 0
  /\ rec.max_seed_in_ring_honest <= rec.max_ring_size

LEMMA ObservedAre ==
  ASSUME NEW rec, rec \in RingRecord, SeedsCounted(rec),
         NEW members, IsFiniteSet(members), members # {},
         NEW c, members \subseteq CheatSeeds(c), NEW new, new = Observed(rec, members, c)
  PROVE  /\ new \in RingRecord /\ SeedsCounted(new)
         /\ new.cycles = rec.cycles + 1 /\ new.seeded_cheat
         /\ new.built_honest <=> rec.built_honest \/ Builds(c.queue, members)
         /\ new.seeded_honest <=> rec.seeded_honest \/ members \cap c.seeds # {}
<1>1. PICK s, z : s = Cardinality(members \cap c.seeds) /\ z = Cardinality(members)
  OBVIOUS
<1>2. s \in Nat /\ z \in Nat /\ s <= z /\ (s > 0 <=> members \cap c.seeds # {})
  <2>1. PICK V \in SUBSET members : V = members \cap c.seeds
    OBVIOUS
  <2>2. /\ IsFiniteSet(V) /\ Cardinality(V) \in Nat /\ Cardinality(members) \in Nat
        /\ Cardinality(V) <= Cardinality(members)
    BY FewerThan
  <2>3. Cardinality(V) = 0 <=> V = {}
    BY <2>2, FS_EmptySet
  <2> QED
    BY <1>1, <2>1, <2>2, <2>3
<1>3. /\ rec.cycles \in Nat /\ rec.seeded_honest \in BOOLEAN /\ rec.seeded_cheat \in BOOLEAN
      /\ rec.built_honest \in BOOLEAN /\ rec.built_cheat \in BOOLEAN
      /\ rec.max_seed_in_ring_honest \in Nat /\ rec.max_ring_size \in Nat
  BY DEF RingRecord
<1>4. PICK a \in Nat : a = Max({rec.max_seed_in_ring_honest, s})
                       /\ a \in {rec.max_seed_in_ring_honest, s}
                       /\ a >= rec.max_seed_in_ring_honest /\ a >= s
  <2>1. rec.max_seed_in_ring_honest \in Int /\ s \in Int
    BY <1>2, <1>3
  <2>2. PICK m : m = rec.max_seed_in_ring_honest
    OBVIOUS
  <2>3. Max({m, s}) \in {m, s} /\ Max({m, s}) >= m /\ Max({m, s}) >= s
    BY <2>1, <2>2, GreaterIs
  <2>4. Max({m, s}) \in Nat
    BY <1>2, <1>3, <2>2, <2>3
  <2> QED
    BY <2>2, <2>3, <2>4
<1>5. PICK b \in Nat : b = Max({rec.max_ring_size, z}) /\ b >= rec.max_ring_size /\ b >= z
  <2>1. rec.max_ring_size \in Int /\ z \in Int
    BY <1>2, <1>3
  <2>2. PICK m : m = rec.max_ring_size
    OBVIOUS
  <2>3. Max({m, z}) \in {m, z} /\ Max({m, z}) >= m /\ Max({m, z}) >= z
    BY <2>1, <2>2, GreaterIs
  <2>4. Max({m, z}) \in Nat
    BY <1>2, <1>3, <2>2, <2>3
  <2> QED
    BY <2>2, <2>3, <2>4
<1>6. PICK sh \in BOOLEAN : sh = (rec.seeded_honest \/ members \cap c.seeds # {})
  OBVIOUS
<1>7. PICK sc \in BOOLEAN : sc = (rec.seeded_cheat \/ members \cap CheatSeeds(c) # {})
  OBVIOUS
<1>8. PICK bh \in BOOLEAN : bh = (rec.built_honest \/ Builds(c.queue, members))
  OBVIOUS
<1>9. PICK bc \in BOOLEAN : bc = (rec.built_cheat \/ Builds(c.cheat, members))
  OBVIOUS
<1>10. new = [cycles |-> rec.cycles + 1, seeded_honest |-> sh, seeded_cheat |-> sc,
              built_honest |-> bh, built_cheat |-> bc,
              max_seed_in_ring_honest |-> a, max_ring_size |-> b]
  BY <1>1, <1>4, <1>5, <1>6, <1>7, <1>8, <1>9, Zenon DEF Observed
<1>11. new \in RingRecord
  BY <1>3, <1>10 DEF RingRecord
<1>12. sc
  BY <1>7
<1>13. SeedsCounted(new)
  <2>1. rec.seeded_honest <=> rec.max_seed_in_ring_honest > 0
    BY DEF SeedsCounted
  <2>2. rec.max_seed_in_ring_honest <= rec.max_ring_size
    BY DEF SeedsCounted
  <2>3. sh <=> rec.max_seed_in_ring_honest > 0 \/ s > 0
    BY <1>2, <1>6, <2>1
  <2>4. sh <=> a > 0
    BY <1>2, <1>3, <1>4, <2>3
  <2>5. a <= b
    BY <1>2, <1>3, <1>4, <1>5, <2>2
  <2> QED
    BY <1>10, <2>4, <2>5 DEF SeedsCounted
<1>14. new.cycles = rec.cycles + 1 /\ new.seeded_cheat
  BY <1>10, <1>12
<1>15. /\ new.built_honest <=> rec.built_honest \/ Builds(c.queue, members)
       /\ new.seeded_honest <=> rec.seeded_honest \/ members \cap c.seeds # {}
  <2>1. new.built_honest = bh /\ new.seeded_honest = sh
    BY <1>10
  <2> QED
    BY <1>6, <1>8, <2>1, Zenon
<1> QED
  BY <1>11, <1>13, <1>14, <1>15

LEMMA BuildsIs ==
  ASSUME NEW c, IsCycle(c), NEW s \in ToSet(c.rings)
  PROVE  Builds(c.queue, s.members) <=> s.ring \in FoundUpto(Len(c.queue), c)
<1>1. IsTable(c.rings) /\ c.queue \in Seq(ToSet(c.queue))
  BY DEF IsCycle, IsQueue
<1>2. Len(c.queue) \in Nat
  BY <1>1
<1>3. s.ring \in FoundUpto(Len(c.queue), c)
        <=> \E i \in DOMAIN c.queue : s.ring \in Hits(c.queue[i], c.rings)
  BY <1>2, FoundIs
<1>4. \A nodes : s.ring \in Hits(nodes, c.rings) <=> is_hit(nodes, s.members)
  BY <1>1, HitsAre
<1> QED
  BY <1>3, <1>4 DEF Builds

LEMMA TableRow ==
  ASSUME NEW t, IsTable(t), NEW r \in RingIds(t), NEW s, s = CHOOSE x \in ToSet(t) : x.ring = r
  PROVE  /\ s \in ToSet(t) /\ s.ring = r /\ IsFiniteSet(s.members) /\ s.members # {}
         /\ \A x \in ToSet(t) : x.ring = r => x = s
<1>1. \E x \in ToSet(t) : x.ring = r
  BY DEF RingIds
<1>2. s \in ToSet(t) /\ s.ring = r
  BY <1>1
<1> QED
  BY <1>2 DEF IsTable

DiffTyped == per_ring \in [Rings -> RingRecord] /\ \A r \in Rings : SeedsCounted(per_ring[r])

DiffSeen ==
  /\ \A r \in SeenOf(records) : per_ring[r].cycles > 0
  /\ \A r \in Rings : per_ring[r].cycles > 0 => r \in phase2.seen /\ per_ring[r].seeded_cheat

DiffStages ==
  /\ \A r \in Rings : per_ring[r].built_honest <=> <<r, "built">> \in reached
  /\ \A r \in Rings : <<r, "seeded">> \in reached => per_ring[r].seeded_honest

DiffInv == DiffTyped /\ DiffSeen /\ DiffStages

LEMMA DiffStarts == EvaluationInit => DiffInv
<1> SUFFICES ASSUME EvaluationInit PROVE DiffInv
  OBVIOUS
<1>1. reached = {} /\ records = <<>> /\ per_ring = [r \in Rings |-> NoRecord]
  BY DEF EvaluationInit
<1>2. NoRecord \in RingRecord
  BY DEF NoRecord, RingRecord
<1>3. SeedsCounted(NoRecord)
  BY DEF NoRecord, SeedsCounted
<1>4. DiffTyped
  BY <1>1, <1>2, <1>3 DEF DiffTyped
<1>5. SeenOf(records) = {}
  BY <1>1 DEF SeenOf
<1>6. NoRecord.cycles = 0 /\ ~NoRecord.built_honest
  BY DEF NoRecord
<1>7. DiffSeen
  BY <1>1, <1>5, <1>6 DEF DiffSeen
<1>8. DiffStages
  BY <1>1, <1>6 DEF DiffStages
<1> QED
  BY <1>4, <1>7, <1>8 DEF DiffInv

LEMMA DiffRests ==
  ASSUME DiffInv, UNCHANGED evaluationVars PROVE DiffInv'
<1>1. per_ring' = per_ring /\ reached' = reached /\ records' = records /\ phase2' = phase2
  BY DEF evaluationVars
<1>2. SeenOf(records)' = SeenOf(records)
  BY <1>1, SameRecords
<1>3. DiffTyped'
  BY <1>1 DEF DiffInv, DiffTyped
<1>4. DiffSeen'
  BY <1>1, <1>2 DEF DiffInv, DiffSeen
<1>5. DiffStages'
  BY <1>1 DEF DiffInv, DiffStages
<1> QED
  BY <1>3, <1>4, <1>5 DEF DiffInv

LEMMA ReachedStep ==
  ASSUME FunnelInv, NEW c, IsCycle(c), FunnelCycle(c)
  PROVE  /\ \A r : <<r, "built">> \in reached'
                     <=> <<r, "built">> \in reached \/ r \in FoundUpto(Len(c.queue), c)
         /\ \A r : <<r, "seeded">> \in reached' => <<r, "seeded">> \in reached
              \/ \E s \in ToSet(c.rings) : s.ring = r /\ s.members \cap c.seeds # {}
         /\ SeenOf(records)' \in SUBSET (SeenOf(records) \cup RingIds(c.rings))
<1>1. c.queue \in Seq(ToSet(c.queue))
  BY DEF IsCycle, IsQueue
<1>2. Len(c.queue) \in Nat
  BY <1>1
<1>3. CASE c.rings = <<>> \/ c.queue = <<>>
  <2>1. reached' = reached /\ records' = records
    BY <1>3, FunnelCycleIs
  <2>2. SeenOf(records)' = SeenOf(records)
    BY <2>1, SameRecords
  <2>3. FoundUpto(Len(c.queue), c) = {}
    <3>1. CASE c.queue = <<>>
      BY <1>2, <3>1, CycleCounts
    <3>2. CASE c.rings = <<>>
      <4>1. RingIds(c.rings) = {}
        BY <3>2, CycleCounts
      <4>2. FoundUpto(Len(c.queue), c) \in SUBSET RingIds(c.rings)
        BY <1>2, CycleCounts
      <4> QED
        BY <4>1, <4>2
    <3> QED
      BY <1>3, <3>1, <3>2
  <2> QED
    BY <2>1, <2>2, <2>3
<1>4. CASE c.rings # <<>> /\ c.queue # <<>>
  <2>1. PICK o : o = observe_cycle(c)
    OBVIOUS
  <2>2. PICK r : r = RecordOf(c)
    OBVIOUS
  <2>3. reached' = reached \cup o /\ records' = Append(records, r)
    BY <1>4, <2>1, <2>2, FunnelCycleIs
  <2>4. /\ \A x : <<x, "seeded">> \in o
                    <=> \E s \in ToSet(c.rings) : s.ring = x /\ s.members \cap c.seeds # {}
        /\ \A x : <<x, "built">> \in o <=> x \in FoundUpto(Len(c.queue), c)
    BY <2>1, ObservedIs
  <2>5. SeenOf(records)' \in SUBSET (SeenOf(records) \cup RingIds(c.rings))
    <3>1. records \in Seq(RecordType)
      BY DEF FunnelInv, FunnelTyped
    <3>2. r \in RecordType /\ r.seen = RingIds(c.rings)
      BY <2>2, RecordIs DEF RecordOf
    <3>3. PICK rs, more : rs = records /\ more = records'
      OBVIOUS
    <3>4. Grows(rs, r, more)
      BY <2>3, <3>1, <3>2, <3>3 DEF Grows
    <3>5. SeenOf(more) = SeenOf(rs) \cup r.seen
      BY <3>4, RecordsGrow, EvaluationConstants
    <3>6. SeenOf(records)' = SeenOf(more)
      BY <3>3 DEF SeenOf
    <3> QED
      BY <3>2, <3>3, <3>5, <3>6
  <2>6. \A x : <<x, "built">> \in reached'
                 <=> <<x, "built">> \in reached \/ x \in FoundUpto(Len(c.queue), c)
    BY <2>3, <2>4
  <2>7. \A x : <<x, "seeded">> \in reached' => <<x, "seeded">> \in reached
          \/ \E s \in ToSet(c.rings) : s.ring = x /\ s.members \cap c.seeds # {}
    BY <2>3, <2>4
  <2> QED
    BY <2>5, <2>6, <2>7
<1> QED
  BY <1>3, <1>4

LEMMA DiffSteps ==
  ASSUME FunnelInv, DiffInv, NEW c, Replays(c) PROVE DiffInv'
<1>1. IsCycle(c) /\ FunnelCycle(c) /\ Phase2Cycle(c) /\ GateCycle(c) /\ DiffCycle(c)
  BY DEF Replays, Ticks
<1>2. phase2 \in CountType(DeepKs) /\ gate \in CountType(Ks)
  BY DEF FunnelInv, FunnelTyped
<1>3. DiffTyped /\ DiffSeen /\ DiffStages
  BY DEF DiffInv
<1>4. phase2'.seen = phase2.seen \cup RingIds(c.rings)
  BY <1>1, <1>2, TalliesStep
<1>5. /\ \A r : <<r, "built">> \in reached'
                  <=> <<r, "built">> \in reached \/ r \in FoundUpto(Len(c.queue), c)
      /\ \A r : <<r, "seeded">> \in reached' => <<r, "seeded">> \in reached
           \/ \E s \in ToSet(c.rings) : s.ring = r /\ s.members \cap c.seeds # {}
      /\ SeenOf(records)' \in SUBSET (SeenOf(records) \cup RingIds(c.rings))
  BY <1>1, ReachedStep
<1>6. IsTable(c.rings) /\ RingIds(c.rings) \in SUBSET Rings /\ Len(c.queue) \in Nat
  <2>1. c.queue \in Seq(ToSet(c.queue))
    BY <1>1 DEF IsCycle, IsQueue
  <2> QED
    BY <1>1, <2>1, CycleCounts DEF IsCycle
<1>7. FoundUpto(Len(c.queue), c) \in SUBSET RingIds(c.rings)
  BY <1>1, <1>6, CycleCounts
<1>8. \A s \in ToSet(c.rings) : s.ring \in RingIds(c.rings)
  BY DEF RingIds
<1>9. CASE c.rings = <<>> \/ (c.queue = <<>> /\ c.cheat = <<>>)
  <2>1. per_ring' = per_ring
    BY <1>1, <1>9 DEF DiffCycle
  <2>2. reached' = reached /\ records' = records
    BY <1>1, <1>9, FunnelCycleIs
  <2>3. SeenOf(records)' = SeenOf(records)
    BY <2>2, SameRecords
  <2>4. DiffTyped'
    BY <1>3, <2>1 DEF DiffTyped
  <2>5. DiffSeen'
    BY <1>3, <1>4, <2>1, <2>3 DEF DiffSeen
  <2>6. DiffStages'
    BY <1>3, <2>1, <2>2 DEF DiffStages
  <2> QED
    BY <2>4, <2>5, <2>6 DEF DiffInv
<1>10. CASE ~(c.rings = <<>> \/ (c.queue = <<>> /\ c.cheat = <<>>))
  <2>1. per_ring' = [r \in Rings |->
           IF r \notin RingIds(c.rings) THEN per_ring[r]
           ELSE LET s == CHOOSE s \in ToSet(c.rings) : s.ring = r
                IN Observed(per_ring[r], s.members, c)]
    BY <1>1, <1>10 DEF DiffCycle
  <2>2. \A r \in Rings : r \notin RingIds(c.rings) => per_ring'[r] = per_ring[r]
    BY <2>1
  <2>3. ASSUME NEW r \in RingIds(c.rings)
        PROVE  /\ per_ring'[r] \in RingRecord /\ SeedsCounted(per_ring'[r])
               /\ per_ring'[r].cycles > 0 /\ per_ring'[r].seeded_cheat
               /\ per_ring'[r].built_honest
                    <=> per_ring[r].built_honest \/ r \in FoundUpto(Len(c.queue), c)
               /\ per_ring'[r].seeded_honest <=> per_ring[r].seeded_honest
                    \/ \E s \in ToSet(c.rings) : s.ring = r /\ s.members \cap c.seeds # {}
    <3>1. r \in Rings
      BY <1>6
    <3>2. PICK s : s = CHOOSE x \in ToSet(c.rings) : x.ring = r
      OBVIOUS
    <3>3. /\ s \in ToSet(c.rings) /\ s.ring = r /\ IsFiniteSet(s.members) /\ s.members # {}
          /\ \A x \in ToSet(c.rings) : x.ring = r => x = s
      BY <1>6, <3>2, TableRow
    <3>4. PICK rec : rec = per_ring[r]
      OBVIOUS
    <3>5. PICK new : new = per_ring'[r]
      OBVIOUS
    <3>6. PICK members : members = s.members
      OBVIOUS
    <3>7. new = Observed(rec, members, c)
      BY <2>1, <3>1, <3>2, <3>4, <3>5, <3>6
    <3>8. rec \in RingRecord /\ SeedsCounted(rec)
      BY <1>3, <3>1, <3>4 DEF DiffTyped
    <3>9. members \subseteq CheatSeeds(c) /\ IsFiniteSet(members) /\ members # {}
      BY <3>3, <3>6 DEF CheatSeeds
    <3>10. /\ new \in RingRecord /\ SeedsCounted(new)
           /\ new.cycles = rec.cycles + 1 /\ new.seeded_cheat
           /\ new.built_honest <=> rec.built_honest \/ Builds(c.queue, members)
           /\ new.seeded_honest <=> rec.seeded_honest \/ members \cap c.seeds # {}
      BY <3>7, <3>8, <3>9, ObservedAre
    <3>11. rec.cycles \in Nat
      BY <3>8 DEF RingRecord
    <3>12. new.cycles > 0
      BY <3>10, <3>11
    <3>13. Builds(c.queue, s.members) <=> s.ring \in FoundUpto(Len(c.queue), c)
      BY <1>1, <3>3, BuildsIs
    <3>14. members \cap c.seeds # {}
             <=> \E x \in ToSet(c.rings) : x.ring = r /\ x.members \cap c.seeds # {}
      BY <3>3, <3>6
    <3>15. new.built_honest <=> rec.built_honest \/ r \in FoundUpto(Len(c.queue), c)
      BY <3>3, <3>6, <3>10, <3>13, Zenon
    <3>16. new.seeded_honest <=> rec.seeded_honest
             \/ \E x \in ToSet(c.rings) : x.ring = r /\ x.members \cap c.seeds # {}
      BY <3>10, <3>14, Zenon
    <3> QED
      BY <3>4, <3>5, <3>10, <3>12, <3>15, <3>16, Zenon
  <2>4. DiffTyped'
    <3>1. \A r \in Rings : per_ring'[r] \in RingRecord /\ SeedsCounted(per_ring'[r])
      BY <1>3, <2>2, <2>3 DEF DiffTyped
    <3>2. DOMAIN per_ring' = Rings /\ per_ring' = [r \in Rings |-> per_ring'[r]]
      BY <2>1
    <3>3. per_ring' \in [Rings -> RingRecord]
      BY <3>1, <3>2
    <3>4. \A r \in Rings : SeedsCounted(per_ring[r])'
      BY <3>1 DEF SeedsCounted
    <3> QED
      BY <3>3, <3>4 DEF DiffTyped
  <2>5. DiffSeen'
    <3>1. /\ \A r \in SeenOf(records) : per_ring[r].cycles > 0
          /\ \A r \in Rings : per_ring[r].cycles > 0 => r \in phase2.seen /\ per_ring[r].seeded_cheat
      BY <1>3 DEF DiffSeen
    <3>2. SeenOf(records) \in SUBSET Rings
      <4>1. SeenOf(records) \in SUBSET phase2.seen
        BY DEF FunnelInv, CountsAreRecords
      <4> QED
        BY <1>2, <4>1 DEF CountType
    <3>3. ASSUME NEW r \in SeenOf(records)' PROVE per_ring'[r].cycles > 0
      <4>1. CASE r \in RingIds(c.rings)
        BY <2>3, <4>1
      <4>2. CASE r \notin RingIds(c.rings)
        <5>1. r \in SeenOf(records)
          BY <1>5, <3>3, <4>2
        <5> QED
          BY <2>2, <3>1, <3>2, <4>2, <5>1
      <4> QED
        BY <4>1, <4>2
    <3>4. ASSUME NEW r \in Rings, per_ring'[r].cycles > 0
          PROVE  r \in phase2'.seen /\ per_ring'[r].seeded_cheat
      <4>1. CASE r \in RingIds(c.rings)
        BY <1>4, <2>3, <4>1
      <4>2. CASE r \notin RingIds(c.rings)
        BY <1>4, <2>2, <3>1, <3>4, <4>2
      <4> QED
        BY <4>1, <4>2
    <3> QED
      BY <3>3, <3>4 DEF DiffSeen
  <2>6. DiffStages'
    <3>1. /\ \A r \in Rings : per_ring[r].built_honest <=> <<r, "built">> \in reached
          /\ \A r \in Rings : <<r, "seeded">> \in reached => per_ring[r].seeded_honest
      BY <1>3 DEF DiffStages
    <3>2. ASSUME NEW r \in Rings
          PROVE  /\ per_ring'[r].built_honest <=> <<r, "built">> \in reached'
                 /\ <<r, "seeded">> \in reached' => per_ring'[r].seeded_honest
      <4>1. CASE r \in RingIds(c.rings)
        BY <1>5, <2>3, <3>1, <4>1, Zenon
      <4>2. CASE r \notin RingIds(c.rings)
        <5>1. r \notin FoundUpto(Len(c.queue), c)
          BY <1>7, <4>2
        <5>2. ~\E s \in ToSet(c.rings) : s.ring = r /\ s.members \cap c.seeds # {}
          BY <1>8, <4>2
        <5>3. per_ring'[r] = per_ring[r]
          BY <2>2, <4>2
        <5> QED
          BY <1>5, <3>1, <5>1, <5>2, <5>3, Zenon
      <4> QED
        BY <4>1, <4>2
    <3> QED
      BY <3>2 DEF DiffStages
  <2> QED
    BY <2>4, <2>5, <2>6 DEF DiffInv
<1> QED
  BY <1>9, <1>10

-----------------------------------------------------------------------------
(* Merged candidates.                                                      *)

PairOf(queue) == [a : DOMAIN queue, c : DOMAIN queue, at : 0..Len(queue)]

IsMerge(queue, x) == x.at \in 0..Len(queue) /\ IsFiniteSet(x.nodes)

MergeOf(queue) ==
  {[nodes |-> queue[pair.a] \cup queue[pair.c], at |-> pair.at] : pair \in PairOf(queue)}

LEMMA MergeIs ==
  ASSUME NEW queue, IsQueue(queue), NEW x \in MergeOf(queue)
  PROVE  IsMerge(queue, x)
<1>1. PICK pair \in PairOf(queue) :
        x = [nodes |-> queue[pair.a] \cup queue[pair.c], at |-> pair.at]
  BY DEF MergeOf
<1>2. pair.a \in DOMAIN queue /\ pair.c \in DOMAIN queue /\ pair.at \in 0..Len(queue)
  BY DEF PairOf
<1>3. queue \in Seq(ToSet(queue)) /\ \A nodes \in ToSet(queue) : IsFiniteSet(nodes)
  BY DEF IsQueue
<1>4. PICK A, B : A = queue[pair.a] /\ B = queue[pair.c]
  OBVIOUS
<1>5. IsFiniteSet(A) /\ IsFiniteSet(B)
  BY <1>2, <1>3, <1>4
<1>6. IsFiniteSet(A \cup B)
  BY <1>5, FS_Union
<1>7. x.nodes = A \cup B /\ x.at = pair.at
  BY <1>1, <1>4
<1> QED
  BY <1>2, <1>6, <1>7 DEF IsMerge

LEMMA MergesAre ==
  ASSUME NEW queue, NEW joined \in Seq(PairOf(queue))
  PROVE  merges(queue, joined) \in Seq(MergeOf(queue))
<1>1. PICK merged : merged = [n \in DOMAIN joined |->
        [nodes |-> queue[joined[n].a] \cup queue[joined[n].c], at |-> joined[n].at]]
  OBVIOUS
<1>2. PICK n \in Nat : n = Len(joined)
  OBVIOUS
<1>3. DOMAIN joined = 1..n /\ \A i \in 1..n : joined[i] \in PairOf(queue)
  BY <1>2
<1>4. ASSUME NEW i \in 1..n PROVE merged[i] \in MergeOf(queue)
  <2>1. PICK pair \in PairOf(queue) : pair = joined[i]
    BY <1>3
  <2>2. merged[i] = [nodes |-> queue[pair.a] \cup queue[pair.c], at |-> pair.at]
    BY <1>1, <1>3, <2>1
  <2> QED
    BY <2>2 DEF MergeOf
<1>5. merged \in Seq(MergeOf(queue))
  <2>1. merged \in [1..n -> MergeOf(queue)]
    BY <1>1, <1>3, <1>4
  <2> QED
    BY <2>1, AsSequence
<1>6. PICK P \in SUBSET DOMAIN merged :
        P = {i \in DOMAIN merged :
               /\ merged[i].nodes \notin ToSet(queue)
               /\ \A m \in 1..(i - 1) : merged[m].nodes # merged[i].nodes}
  OBVIOUS
<1>7. PickedAt(merged, P) \in Seq(MergeOf(queue))
  BY <1>5, PickedIs
<1>8. merges(queue, joined) = PickedAt(merged, P)
  BY <1>1, <1>6 DEF merges
<1> QED
  BY <1>7, <1>8

LEMMA FirstFew ==
  ASSUME NEW T, NEW s \in Seq(T), NEW k \in Nat
  PROVE  /\ SubSeq(s, 1, Min({Len(s), k})) \in Seq(T)
         /\ Len(SubSeq(s, 1, Min({Len(s), k}))) <= k
<1>1. PICK n \in Nat : n = Len(s)
  OBVIOUS
<1>2. PICK m \in Nat : m = Min({n, k}) /\ m <= n /\ m <= k
  <2>1. n \in Int /\ k \in Int
    OBVIOUS
  <2>2. Min({n, k}) \in {n, k} /\ Min({n, k}) <= n /\ Min({n, k}) <= k
    BY <2>1, LesserIs
  <2>3. Min({n, k}) \in Nat
    BY <2>2
  <2> QED
    BY <2>2, <2>3
<1>3. \A i \in 1..m : s[i] \in T
  BY <1>1, <1>2
<1>4. SubSeq(s, 1, m) \in Seq(T) /\ Len(SubSeq(s, 1, m)) = m
  <2>1. 1 \in Int /\ m \in Int
    OBVIOUS
  <2>2. /\ SubSeq(s, 1, m) \in Seq(T)
        /\ Len(SubSeq(s, 1, m)) = IF 1 <= m THEN m - 1 + 1 ELSE 0
    BY <1>3, <2>1, SubSeqProperties
  <2> QED
    BY <2>2
<1> QED
  BY <1>1, <1>2, <1>4

LEMMA PairsAre ==
  ASSUME NEW queue \in Queues
  PROVE  /\ IsQueue(queue) /\ JoinedBy[queue] \in Seq(PairOf(queue))
         /\ DrawnPairs[queue] \in Seq(PairOf(queue)) /\ TriesPerMerge \in Nat
<1>1. /\ IsQueue(queue) /\ IsPairing(JoinedBy[queue], queue) /\ IsPairing(DrawnPairs[queue], queue)
      /\ TriesPerMerge \in Nat
  BY EvaluationAssumption
<1> QED
  BY <1>1 DEF IsPairing, PairOf

LEMMA AddedAre ==
  ASSUME NEW queue \in Queues
  PROVE  /\ added_by("shipped", queue) = <<>>
         /\ \A arm \in ARMS : added_by(arm, queue) \in Seq(MergeOf(queue))
         /\ Len(added_by("link_random", queue)) <= Len(added_by("link", queue))
<1>1. /\ JoinedBy[queue] \in Seq(PairOf(queue)) /\ DrawnPairs[queue] \in Seq(PairOf(queue))
      /\ TriesPerMerge \in Nat
  BY PairsAre
<1>2. PICK merged : merged = merges(queue, JoinedBy[queue])
  OBVIOUS
<1>3. merged \in Seq(MergeOf(queue))
  BY <1>1, <1>2, MergesAre
<1>4. PICK wanted \in Nat : wanted = Len(merged)
  BY <1>3
<1>5. PICK random : random = random_merges(queue, wanted)
  OBVIOUS
<1>6. random \in Seq(MergeOf(queue)) /\ Len(random) <= wanted
  <2>1. PICK drawn : drawn = DrawnPairs[queue]
    OBVIOUS
  <2>2. PICK tries \in Nat : tries = TriesPerMerge * wanted
    BY <1>1
  <2>3. PICK tried : tried = SubSeq(drawn, 1, Min({Len(drawn), tries}))
    OBVIOUS
  <2>4. tried \in Seq(PairOf(queue))
    BY <1>1, <2>1, <2>3, FirstFew
  <2>5. PICK good : good = Only(tried, {pair \in ToSet(tried) : Joinable(queue, pair)})
    OBVIOUS
  <2>6. good \in Seq(PairOf(queue))
    BY <2>4, <2>5, OnlyIs
  <2>7. PICK all : all = merges(queue, good)
    OBVIOUS
  <2>8. all \in Seq(MergeOf(queue))
    BY <2>6, <2>7, MergesAre
  <2>9. random = SubSeq(all, 1, Min({Len(all), wanted}))
    BY <1>5, <2>1, <2>2, <2>3, <2>5, <2>7 DEF random_merges
  <2> QED
    BY <2>8, <2>9, FirstFew
<1>7. added_by("shipped", queue) = <<>>
  BY DEF added_by
<1>8. added_by("link", queue) = merged
  BY <1>2 DEF added_by
<1>9. added_by("link_random", queue) = random
  BY <1>2, <1>4, <1>5 DEF added_by
<1>10. <<>> \in Seq(MergeOf(queue))
  OBVIOUS
<1>11. ASSUME NEW arm \in ARMS PROVE added_by(arm, queue) \in Seq(MergeOf(queue))
  <2>1. CASE arm = "shipped"
    BY <1>7, <1>10, <2>1
  <2>2. CASE arm = "link"
    BY <1>3, <1>8, <2>2
  <2>3. CASE arm = "link_random"
    BY <1>6, <1>9, <2>3
  <2> QED
    BY <2>1, <2>2, <2>3 DEF ARMS
<1> QED
  BY <1>4, <1>6, <1>7, <1>8, <1>9, <1>11

\* A queue with merges sorted in: s has n places of q and m of merges, and
\* none of q's moves down by more than m.
Spreads(p, q, s, n, m) ==
  /\ n \in Nat /\ m \in Nat
  /\ p \in [1..n -> 1..(n + m)]
  /\ \A i, j \in 1..n : p[i] = p[j] => i = j
  /\ \A i \in 1..n : s[p[i]] = q[i] /\ p[i] <= i + m

KeyOf(key, n, m) ==
  n \in Nat /\ m \in Nat /\ key \in [1..(n + m) -> Int] /\ \A j \in 1..n : key[j] = j

LEMMA PlaceOfOld ==
  ASSUME NEW key, NEW n, NEW m, KeyOf(key, n, m), NEW i \in 1..n
  PROVE  Place(i, key) <= i + m /\ (m = 0 => Place(i, key) = i)
<1> n \in Nat /\ m \in Nat /\ key \in [1..(n + m) -> Int] /\ \A j \in 1..n : key[j] = j
  BY DEF KeyOf
<1>1. PICK P : P = {j \in DOMAIN key : key[j] < key[i] \/ (key[j] = key[i] /\ j <= i)}
  OBVIOUS
<1>2. Place(i, key) = Cardinality(P)
  BY <1>1 DEF Place
<1>3. IsFiniteSet(1..i) /\ Cardinality(1..i) = i
  BY UpTo
<1>4. IsFiniteSet((n + 1)..(n + m)) /\ Cardinality((n + 1)..(n + m)) = m
  <2>1. CASE m = 0
    <3>1. (n + 1)..(n + m) = {}
      BY <2>1
    <3> QED
      BY <2>1, <3>1, FS_EmptySet
  <2>2. CASE m > 0
    <3>1. n + m \in Nat /\ n < n + m
      BY <2>2
    <3>2. IsFiniteSet((n + 1)..(n + m)) /\ Cardinality((n + 1)..(n + m)) = (n + m) - n
      BY <3>1, RunIs
    <3> QED
      BY <3>2
  <2> QED
    BY <2>1, <2>2
<1>5. PICK A, B : A = 1..i /\ B = (n + 1)..(n + m)
  OBVIOUS
<1>6. IsFiniteSet(A) /\ IsFiniteSet(B) /\ Cardinality(A) = i /\ Cardinality(B) = m
  BY <1>3, <1>4, <1>5
<1>7. A \cap B = {}
  BY <1>5
<1>8. IsFiniteSet(A \cup B) /\ Cardinality(A \cup B) = i + m
  <2>1. Cardinality(A \cup B) = Cardinality(A) + Cardinality(B) - Cardinality(A \cap B)
    BY <1>6, FS_Union
  <2>2. Cardinality(A \cap B) = 0
    BY <1>7, FS_EmptySet
  <2>3. IsFiniteSet(A \cup B)
    BY <1>6, FS_Union
  <2> QED
    BY <1>3, <1>6, <2>1, <2>2, <2>3
<1>9. P \in SUBSET (A \cup B)
  <2>1. ASSUME NEW j \in P PROVE j \in A \cup B
    <3>1. j \in 1..(n + m) /\ (key[j] < key[i] \/ (key[j] = key[i] /\ j <= i))
      BY <1>1
    <3>2. CASE j <= n
      <4>1. j \in 1..n /\ key[j] = j /\ key[i] = i
        BY <3>1, <3>2
      <4>2. j <= i
        BY <3>1, <4>1
      <4> QED
        BY <1>5, <4>1, <4>2
    <3>3. CASE j > n
      BY <1>5, <3>1, <3>3
    <3> QED
      BY <3>1, <3>2, <3>3
  <2> QED
    BY <2>1
<1>10. Cardinality(P) <= i + m
  <2>1. PICK D : D = A \cup B
    OBVIOUS
  <2>2. IsFiniteSet(D) /\ Cardinality(D) = i + m /\ P \in SUBSET D
    BY <1>8, <1>9, <2>1
  <2>3. Cardinality(P) <= Cardinality(D)
    BY <2>2, FewerThan
  <2> QED
    BY <2>2, <2>3
<1>11. ASSUME m = 0 PROVE Cardinality(P) = i
  <2>1. B = {}
    BY <1>5, <1>11
  <2>2. A \subseteq P
    <3>1. ASSUME NEW j \in A PROVE j \in P
      <4>1. j \in 1..n /\ j <= i
        BY <1>5
      <4>2. key[j] = j /\ key[i] = i /\ j \in DOMAIN key
        BY <4>1
      <4>3. key[j] < key[i] \/ (key[j] = key[i] /\ j <= i)
        BY <4>1, <4>2
      <4> QED
        BY <1>1, <4>2, <4>3
    <3> QED
      BY <3>1
  <2>3. P = A
    BY <1>9, <2>1, <2>2
  <2> QED
    BY <1>6, <2>3
<1> QED
  BY <1>2, <1>10, <1>11

LEMMA SortedInIs ==
  ASSUME NEW q, IsQueue(q), NEW more, more \in Seq(MergeOf(q)),
         NEW s, s = SortedIn(q, more), NEW n, n = Len(q), NEW m, m = Len(more)
  PROVE  /\ IsQueue(s) /\ Len(s) = n + m
         /\ \E p : Spreads(p, q, s, n, m)
         /\ m = 0 => s = q
<1>1. q \in Seq(ToSet(q)) /\ \A nodes \in ToSet(q) : IsFiniteSet(nodes)
  BY DEF IsQueue
<1>2. n \in Nat /\ DOMAIN q = 1..n
  BY <1>1
<1>3. m \in Nat /\ DOMAIN more = 1..m
  OBVIOUS
<1>4. \A j \in 1..m : more[j] \in MergeOf(q)
  BY <1>3
<1>5. \A j \in 1..m : more[j].at \in 0..n /\ IsFiniteSet(more[j].nodes)
  BY <1>4, MergeIs DEF IsMerge
<1>6. PICK T : T = ToSet(q) \cup {more[j].nodes : j \in 1..m}
  OBVIOUS
<1>7. \A x \in T : IsFiniteSet(x)
  BY <1>1, <1>5, <1>6
<1>8. PICK add : add = [j \in DOMAIN more |-> more[j].nodes]
  OBVIOUS
<1>9. add \in Seq(T) /\ Len(add) = m
  <2>1. add \in [1..m -> T]
    BY <1>3, <1>6, <1>8
  <2> QED
    BY <1>3, <2>1, AsSequence
<1>10. q \in Seq(T)
  BY <1>1, <1>6
<1>11. PICK all : all = q \o add
  OBVIOUS
<1>12. all \in Seq(T) /\ Len(all) = n + m /\ \A i \in 1..n : all[i] = q[i]
  BY <1>9, <1>10, <1>11, JoinIs
<1>13. PICK key : key = [i \in 1..(Len(q) + Len(more)) |->
                           IF i <= Len(q) THEN i ELSE more[i - Len(q)].at]
  OBVIOUS
<1>14. key \in [1..(n + m) -> Int]
  <2>1. ASSUME NEW i \in 1..(n + m) PROVE (IF i <= n THEN i ELSE more[i - n].at) \in Int
    <3>1. CASE i <= n
      BY <3>1
    <3>2. CASE ~(i <= n)
      <4>1. i - n \in 1..m
        BY <1>2, <1>3, <3>2
      <4>2. more[i - n].at \in Int
        BY <1>5, <4>1
      <4> QED
        BY <3>2, <4>2
    <3> QED
      BY <3>1, <3>2
  <2> QED
    BY <1>13, <2>1
<1>15. \A i \in 1..n : key[i] = i
  BY <1>2, <1>3, <1>13
<1>16. DOMAIN all = 1..(n + m)
  BY <1>2, <1>3, <1>12
<1>17. s = SortedBy(all, key)
  BY <1>8, <1>11, <1>13 DEF SortedIn
<1>18. key \in [DOMAIN all -> Int]
  BY <1>14, <1>16
<1>19. /\ s \in Seq(T) /\ Len(s) = n + m
       /\ \A i \in 1..(n + m) : Place(i, key) \in 1..(n + m) /\ s[Place(i, key)] = all[i]
  <2>1. /\ SortedBy(all, key) \in Seq(T) /\ Len(SortedBy(all, key)) = Len(all)
        /\ \A i \in DOMAIN all : /\ Place(i, key) \in DOMAIN all
                                 /\ SortedBy(all, key)[Place(i, key)] = all[i]
    BY <1>12, <1>18, SortedByIs
  <2> QED
    BY <1>12, <1>16, <1>17, <2>1
<1>20. \A i, j \in 1..(n + m) : Place(i, key) = Place(j, key) => i = j
  <2>1. n + m \in Nat
    BY <1>2, <1>3
  <2> QED
    BY <1>14, <2>1, PlacesAre
<1>21. \A i \in 1..n : Place(i, key) <= i + m /\ (m = 0 => Place(i, key) = i)
  <2>1. KeyOf(key, n, m)
    BY <1>2, <1>3, <1>14, <1>15 DEF KeyOf
  <2> QED
    BY <2>1, PlaceOfOld
<1>22. IsQueue(s)
  <2>1. s \in Seq(ToSet(s)) /\ ToSet(s) \in SUBSET T
    BY <1>19, OwnSequence
  <2> QED
    BY <1>7, <2>1 DEF IsQueue
<1>23. \E p : Spreads(p, q, s, n, m)
  <2>1. PICK p : p = [i \in 1..n |-> Place(i, key)]
    OBVIOUS
  <2>2. \A i \in 1..n : i \in 1..(n + m)
    BY <1>2, <1>3
  <2>3. p \in [1..n -> 1..(n + m)]
    BY <1>19, <2>1, <2>2
  <2>4. \A i, j \in 1..n : p[i] = p[j] => i = j
    BY <1>20, <2>1, <2>2
  <2>5. \A i \in 1..n : s[p[i]] = q[i] /\ p[i] <= i + m
    BY <1>12, <1>19, <1>21, <2>1, <2>2
  <2>6. Spreads(p, q, s, n, m)
    BY <1>2, <1>3, <2>3, <2>4, <2>5 DEF Spreads
  <2> QED
    BY <2>6
<1>24. ASSUME m = 0 PROVE s = q
  <2>1. Len(s) = n /\ Len(q) = n
    BY <1>2, <1>19, <1>24
  <2>2. \A i \in 1..n : s[i] = q[i]
    BY <1>2, <1>12, <1>19, <1>21, <1>24
  <2>3. s = [i \in 1..n |-> s[i]] /\ q = [i \in 1..n |-> q[i]]
    BY <1>10, <1>19, <2>1
  <2> QED
    BY <2>2, <2>3
<1> QED
  BY <1>19, <1>22, <1>23, <1>24

\* Of the places up to k, at most m are pushed below k.
StaysIn(H, G, k, p, n) ==
  /\ k \in Nat /\ H \in SUBSET (1..n) /\ IsFiniteSet(G)
  /\ \A i \in H : i <= k /\ (p[i] <= k => p[i] \in G)

LEMMA FewPushed ==
  ASSUME NEW p, NEW q, NEW s, NEW n, NEW m, Spreads(p, q, s, n, m),
         NEW H, NEW G, NEW k, StaysIn(H, G, k, p, n)
  PROVE  Cardinality(H) <= Cardinality(G) + m
<1>1. n \in Nat /\ m \in Nat /\ p \in [1..n -> 1..(n + m)] /\ k \in Nat
  BY DEF Spreads, StaysIn
<1>2. \A i, j \in 1..n : p[i] = p[j] => i = j
  BY DEF Spreads
<1>3. \A i \in 1..n : p[i] <= i + m
  BY DEF Spreads
<1>4. H \in SUBSET (1..n) /\ IsFiniteSet(G) /\ \A i \in H : i <= k /\ (p[i] <= k => p[i] \in G)
  BY DEF StaysIn
<1>5. PICK A \in SUBSET H : A = {i \in H : p[i] <= k}
  OBVIOUS
<1>6. PICK B \in SUBSET H : B = {i \in H : ~(p[i] <= k)}
  OBVIOUS
<1>7. H = A \cup B
  BY <1>5, <1>6
<1>8. IsFiniteSet(A) /\ Cardinality(A) \in Nat /\ Cardinality(G) \in Nat /\ Cardinality(A) <= Cardinality(G)
  <2>1. PICK f : f = [x \in G |-> CHOOSE i \in 1..n : p[i] = x]
    OBVIOUS
  <2>2. ASSUME NEW z \in A PROVE \E x \in G : f[x] = z
    <3>1. z \in 1..n /\ p[z] \in G
      BY <1>4, <1>5
    <3>2. f[p[z]] = CHOOSE i \in 1..n : p[i] = p[z]
      BY <2>1, <3>1
    <3>3. PICK w : w = CHOOSE i \in 1..n : p[i] = p[z]
      OBVIOUS
    <3>4. w \in 1..n /\ p[w] = p[z]
      BY <3>1, <3>3
    <3>5. w = z
      BY <1>2, <3>1, <3>4
    <3> QED
      BY <3>1, <3>2, <3>3, <3>5
  <2>3. \A z \in A : \E x \in G : f[x] = z
    BY <2>2
  <2> QED
    BY <1>4, <2>3, Onto
<1>9. IsFiniteSet(B) /\ Cardinality(B) \in Nat /\ Cardinality(B) <= m
  <2>1. CASE m = 0
    <3>1. B = {}
      <4>1. ASSUME NEW i \in B PROVE FALSE
        <5>1. i \in 1..n /\ i <= k /\ ~(p[i] <= k)
          BY <1>4, <1>6
        <5>2. p[i] <= i + 0 /\ p[i] \in Nat
          BY <1>1, <1>3, <2>1, <5>1
        <5> QED
          BY <1>1, <5>1, <5>2
      <4> QED
        BY <4>1
    <3> QED
      BY <2>1, <3>1, FS_EmptySet
  <2>2. CASE m > 0 /\ k < m
    <3>1. IsFiniteSet(1..k) /\ Cardinality(1..k) = k
      BY <1>1, UpTo
    <3>2. PICK D : D = 1..k
      OBVIOUS
    <3>3. B \in SUBSET D
      <4>1. ASSUME NEW i \in B PROVE i \in D
        <5>1. i \in 1..n /\ i <= k
          BY <1>4
        <5> QED
          BY <1>1, <3>2, <5>1
      <4> QED
        BY <4>1
    <3>4. IsFiniteSet(B) /\ Cardinality(B) \in Nat /\ Cardinality(B) <= Cardinality(D)
      BY <3>1, <3>2, <3>3, FewerThan
    <3>5. Cardinality(D) = k
      BY <3>1, <3>2
    <3> QED
      BY <1>1, <2>2, <3>4, <3>5
  <2>3. CASE m > 0 /\ m <= k
    <3>1. PICK d \in Nat : d = k - m /\ d < k
      BY <1>1, <2>3
    <3>2. IsFiniteSet((d + 1)..k) /\ Cardinality((d + 1)..k) = k - d
      BY <1>1, <3>1, RunIs
    <3>3. PICK D : D = (d + 1)..k
      OBVIOUS
    <3>4. ASSUME NEW i \in B PROVE i \in D
      <4>1. i \in 1..n /\ i <= k /\ ~(p[i] <= k)
        BY <1>4, <1>6
      <4>2. p[i] <= i + m /\ p[i] \in Nat
        BY <1>1, <1>3, <4>1
      <4>3. i > k - m
        BY <1>1, <4>1, <4>2
      <4>4. i \in Int /\ d + 1 <= i
        BY <1>1, <3>1, <4>1, <4>3
      <4> QED
        BY <1>1, <3>1, <3>3, <4>1, <4>4
    <3>5. B \in SUBSET D
      BY <3>4
    <3>6. IsFiniteSet(B) /\ Cardinality(B) \in Nat /\ Cardinality(B) <= Cardinality(D)
      BY <3>2, <3>3, <3>5, FewerThan
    <3>7. k - d = m
      BY <1>1, <3>1
    <3> QED
      BY <3>2, <3>3, <3>6, <3>7
  <2> QED
    BY <1>1, <2>1, <2>2, <2>3
<1>10. A \cap B = {}
  BY <1>5, <1>6
<1>11. Cardinality(A \cup B) = Cardinality(A) + Cardinality(B) - Cardinality(A \cap B)
  BY <1>8, <1>9, FS_Union
<1>12. Cardinality(A \cap B) = 0
  BY <1>10, FS_EmptySet
<1> QED
  BY <1>1, <1>7, <1>8, <1>9, <1>11, <1>12

\* A pool with merges sorted in.
AllFound(c) == FoundUpto(Len(c.queue), c)

LEMMA PoolWithMerges ==
  ASSUME NEW c, IsCycle(c), NEW more, more \in Seq(MergeOf(c.queue)),
         NEW longer, longer = [c EXCEPT !.queue = SortedIn(c.queue, more)],
         NEW m, m = Len(more)
  PROVE  /\ m \in Nat /\ IsCycle(longer) /\ longer.rings = c.rings /\ longer.seeds = c.seeds
         /\ more = <<>> => longer = c
         /\ c.queue # <<>> => longer.queue # <<>>
         /\ AllFound(c) \in SUBSET AllFound(longer)
         /\ \A k \in Nat :
              /\ Cardinality(HitsUpto(k, c)) <= Cardinality(HitsUpto(k, longer)) + m
              /\ Cardinality(Upto(k, c.queue)) <= Cardinality(Upto(k, longer.queue))
              /\ Cardinality(Upto(k, longer.queue)) <= Cardinality(Upto(k, c.queue)) + m
<1>1. /\ c = [t |-> c.t, rings |-> c.rings, seeds |-> c.seeds, queue |-> c.queue, cheat |-> c.cheat]
      /\ c.t \in Nat /\ IsTable(c.rings) /\ IsQueue(c.queue)
  BY DEF IsCycle
<1>2. PICK q : q = c.queue
  OBVIOUS
<1>3. PICK s : s = SortedIn(q, more)
  OBVIOUS
<1>4. PICK n : n = Len(q)
  OBVIOUS
<1>5. IsQueue(q) /\ q \in Seq(ToSet(q)) /\ n \in Nat /\ DOMAIN q = 1..n
  BY <1>1, <1>2, <1>4 DEF IsQueue
<1>6. more \in Seq(MergeOf(q)) /\ m \in Nat
  BY <1>2
<1>7. IsQueue(s) /\ Len(s) = n + m /\ (\E p : Spreads(p, q, s, n, m)) /\ (m = 0 => s = q)
  <2>1. IsQueue(q) /\ more \in Seq(MergeOf(q)) /\ s = SortedIn(q, more)
    BY <1>3, <1>5, <1>6
  <2>2. n = Len(q) /\ m = Len(more)
    BY <1>4
  <2>3. IsQueue(s) /\ Len(s) = n + m
    BY <2>1, <2>2, SortedInIs
  <2>4. \E p : Spreads(p, q, s, n, m)
    BY <2>1, <2>2, SortedInIs
  <2>5. m = 0 => s = q
    BY <2>1, <2>2, SortedInIs
  <2> QED
    BY <2>3, <2>4, <2>5
<1>8. PICK p : Spreads(p, q, s, n, m)
  BY <1>7
<1>9. s \in Seq(ToSet(s)) /\ DOMAIN s = 1..(n + m)
  <2>1. s \in Seq(ToSet(s))
    BY <1>7 DEF IsQueue
  <2> QED
    BY <1>7, <2>1
<1>10. longer = [t |-> c.t, rings |-> c.rings, seeds |-> c.seeds, queue |-> s, cheat |-> c.cheat]
  BY <1>1, <1>2, <1>3
<1>11. /\ longer.t = c.t /\ longer.rings = c.rings /\ longer.seeds = c.seeds /\ longer.queue = s
       /\ longer.cheat = c.cheat
  BY <1>10
<1>12. IsCycle(longer)
  BY <1>1, <1>7, <1>10, <1>11 DEF IsCycle
<1>13. ASSUME more = <<>> PROVE longer = c
  <2>1. m = 0
    BY <1>13
  <2> QED
    BY <1>1, <1>2, <1>7, <1>10, <2>1
<1>14. ASSUME c.queue # <<>> PROVE longer.queue # <<>>
  <2>1. n > 0
    BY <1>2, <1>4, <1>5, <1>14
  <2>2. Len(s) > 0
    BY <1>5, <1>6, <1>7, <2>1
  <2> QED
    BY <1>11, <2>2
<1>15. /\ p \in [1..n -> 1..(n + m)]
       /\ \A i \in 1..n : s[p[i]] = q[i] /\ p[i] <= i + m
  BY <1>8 DEF Spreads
<1>16. ASSUME NEW r \in FoundUpto(Len(c.queue), c) PROVE r \in FoundUpto(Len(longer.queue), longer)
  <2>1. \A x : x \in FoundUpto(Len(c.queue), c)
                 <=> \E i \in DOMAIN c.queue : x \in Hits(c.queue[i], c.rings)
    BY <1>5, FoundIs
  <2>2. \A x : x \in FoundUpto(Len(longer.queue), longer)
                 <=> \E i \in DOMAIN longer.queue : x \in Hits(longer.queue[i], longer.rings)
    BY <1>5, <1>12, FoundIs
  <2>3. PICK i \in 1..n : r \in Hits(q[i], c.rings)
    BY <1>2, <1>5, <1>16, <2>1
  <2>4. p[i] \in DOMAIN longer.queue /\ longer.queue[p[i]] = q[i]
    BY <1>9, <1>11, <1>15
  <2> QED
    BY <1>11, <2>2, <2>3, <2>4
<1>17. ASSUME NEW k \in Nat
       PROVE  Cardinality(HitsUpto(k, c)) <= Cardinality(HitsUpto(k, longer)) + m
  <2>1. PICK H : H = HitsUpto(k, c)
    OBVIOUS
  <2>2. PICK G : G = HitsUpto(k, longer)
    OBVIOUS
  <2>3. IsFiniteSet(G)
    BY <1>12, <2>2, CycleCounts
  <2>4. Upto(k, q) = {i \in DOMAIN q : i <= k}
    BY <1>5, UptoIs
  <2>5. Upto(k, s) = {i \in DOMAIN s : i <= k}
    BY <1>9, UptoIs
  <2>6. H = {i \in Upto(k, q) : Hits(q[i], c.rings) # {}}
    BY <1>2, <2>1 DEF HitsUpto
  <2>7. G = {i \in Upto(k, s) : Hits(s[i], c.rings) # {}}
    BY <1>11, <2>2 DEF HitsUpto
  <2>8. H \in SUBSET (1..n)
    BY <1>5, <2>4, <2>6
  <2>9. ASSUME NEW i \in H PROVE i <= k /\ (p[i] <= k => p[i] \in G)
    <3>1. i \in 1..n /\ i <= k /\ Hits(q[i], c.rings) # {}
      BY <1>5, <2>4, <2>6
    <3>2. p[i] \in DOMAIN s /\ s[p[i]] = q[i]
      BY <1>9, <1>15, <3>1
    <3> QED
      BY <2>5, <2>7, <3>1, <3>2
  <2>10. StaysIn(H, G, k, p, n)
    BY <2>3, <2>8, <2>9 DEF StaysIn
  <2>11. Cardinality(H) <= Cardinality(G) + m
    BY <1>8, <2>10, FewPushed
  <2> QED
    BY <2>1, <2>2, <2>11
<1>18. ASSUME NEW k \in Nat
       PROVE  /\ Cardinality(Upto(k, c.queue)) <= Cardinality(Upto(k, longer.queue))
              /\ Cardinality(Upto(k, longer.queue)) <= Cardinality(Upto(k, c.queue)) + m
  <2>1. Cardinality(Upto(k, q)) = Min({k, n})
    BY <1>4, <1>5, UptoIs
  <2>2. Cardinality(Upto(k, s)) = Min({k, n + m})
    BY <1>7, <1>9, UptoIs
  <2>3. k \in Int /\ n \in Int /\ n + m \in Int
    BY <1>5, <1>6
  <2>4. PICK a : a = Min({k, n})
    OBVIOUS
  <2>5. PICK b : b = Min({k, n + m})
    OBVIOUS
  <2>6. a \in {k, n} /\ a <= k /\ a <= n
    BY <2>3, <2>4, LesserIs
  <2>7. b \in {k, n + m} /\ b <= k /\ b <= n + m
    BY <2>3, <2>5, LesserIs
  <2>8. a <= b /\ b <= a + m
    BY <1>5, <1>6, <2>6, <2>7
  <2> QED
    BY <1>2, <1>11, <2>1, <2>2, <2>4, <2>5, <2>8
<1>19. AllFound(c) \in SUBSET AllFound(longer)
  BY <1>16 DEF AllFound
<1> QED
  BY <1>6, <1>11, <1>12, <1>13, <1>14, <1>19, <1>17, <1>18

-----------------------------------------------------------------------------
(* The trial of fragment links.                                            *)

LEMMA ObservedStay ==
  ASSUME NEW c, IsCycle(c), NEW d, IsCycle(d), d.rings = c.rings, d.seeds = c.seeds,
         FoundUpto(Len(c.queue), c) \in SUBSET FoundUpto(Len(d.queue), d),
         NEW x \in observe_cycle(c), x[2] # "ranked"
  PROVE  x \in observe_cycle(d)
<1>1. observe_cycle(c) \in SUBSET (Rings \X STAGES)
  BY ObservedIs
<1>2. PICK r \in Rings, step \in STAGES : x = <<r, step>>
  BY <1>1
<1>3. step # "ranked"
  BY <1>2
<1>4. /\ <<r, "seed_reachable">> \in observe_cycle(c) <=> r \in RingIds(c.rings)
      /\ <<r, "seeded">> \in observe_cycle(c)
           <=> \E s \in ToSet(c.rings) : s.ring = r /\ s.members \cap c.seeds # {}
      /\ <<r, "built">> \in observe_cycle(c) <=> r \in FoundUpto(Len(c.queue), c)
  BY ObservedIs
<1>5. /\ <<r, "seed_reachable">> \in observe_cycle(d) <=> r \in RingIds(d.rings)
      /\ <<r, "seeded">> \in observe_cycle(d)
           <=> \E s \in ToSet(d.rings) : s.ring = r /\ s.members \cap d.seeds # {}
      /\ <<r, "built">> \in observe_cycle(d) <=> r \in FoundUpto(Len(d.queue), d)
  BY ObservedIs
<1>6. CASE step = "seed_reachable"
  BY <1>2, <1>4, <1>5, <1>6
<1>7. CASE step = "seeded"
  BY <1>2, <1>4, <1>5, <1>7
<1>8. CASE step = "built"
  BY <1>2, <1>4, <1>5, <1>8
<1> QED
  BY <1>3, <1>6, <1>7, <1>8 DEF STAGES

\* The trial of fragment links.
LinkRecord == [reached : SUBSET (Rings \X STAGES), hit : [Ks -> Nat], tot : [Ks -> Nat], added : Nat]

LinkTyped == linking \in [ARMS -> LinkRecord]

ShippedArm == /\ linking["shipped"].reached = reached
              /\ \A k \in Ks : /\ linking["shipped"].hit[k] = phase2.hit[k]
                               /\ linking["shipped"].tot[k] = phase2.tot[k]

RandomIsSmaller == linking["link_random"].added <= linking["link"].added

Unranked(S) == {x \in S : x[2] # "ranked"}

KeepsTheBuilt(arm) == Unranked(reached) \in SUBSET linking[arm].reached

CostsItsPlaces(arm) ==
  \A k \in Ks : /\ phase2.tot[k] <= linking[arm].tot[k]
                /\ linking[arm].tot[k] <= phase2.tot[k] + linking[arm].added
                /\ phase2.hit[k] <= linking[arm].hit[k] + linking[arm].added

LinkInv ==
  /\ LinkTyped /\ ShippedArm /\ RandomIsSmaller
  /\ \A arm \in ARMS : KeepsTheBuilt(arm) /\ CostsItsPlaces(arm)

LEMMA LinkStarts == EvaluationInit => LinkInv
<1> SUFFICES ASSUME EvaluationInit PROVE LinkInv
  OBVIOUS
<1>1. PICK z : z = NoHits(Ks)
  OBVIOUS
<1>2. z \in [Ks -> Nat] /\ \A k \in Ks : z[k] = 0
  BY <1>1 DEF NoHits
<1>3. reached = {} /\ \A k \in Ks : phase2.hit[k] = z[k] /\ phase2.tot[k] = z[k]
  <2>1. reached = {} /\ phase2 = NothingCounted(DeepKs)
    BY DEF EvaluationInit
  <2>2. \A k \in DeepKs : phase2.hit[k] = 0 /\ phase2.tot[k] = 0
    BY <2>1 DEF NothingCounted, NoHits
  <2> QED
    BY <1>2, <2>1, <2>2, EvaluationConstants
<1>4. linking = [arm \in ARMS |-> [reached |-> {}, hit |-> z, tot |-> z, added |-> 0]]
  BY <1>1 DEF EvaluationInit
<1>5. [reached |-> {}, hit |-> z, tot |-> z, added |-> 0] \in LinkRecord
  BY <1>2 DEF LinkRecord
<1>6. LinkTyped
  BY <1>4, <1>5 DEF LinkTyped
<1>7. \A arm \in ARMS : /\ linking[arm].reached = {} /\ linking[arm].hit = z
                        /\ linking[arm].tot = z /\ linking[arm].added = 0
  BY <1>4
<1>8. {"shipped", "link", "link_random"} \subseteq ARMS
  BY DEF ARMS
<1>9. ShippedArm
  BY <1>3, <1>7, <1>8 DEF ShippedArm
<1>10. RandomIsSmaller
  BY <1>7, <1>8 DEF RandomIsSmaller
<1>11. \A arm \in ARMS : KeepsTheBuilt(arm)
  BY <1>3 DEF KeepsTheBuilt, Unranked
<1>12. \A arm \in ARMS : CostsItsPlaces(arm)
  BY <1>2, <1>3, <1>7 DEF CostsItsPlaces
<1> QED
  BY <1>6, <1>9, <1>10, <1>11, <1>12 DEF LinkInv

LEMMA LinkRests ==
  ASSUME LinkInv, UNCHANGED evaluationVars PROVE LinkInv'
<1>1. linking' = linking /\ reached' = reached /\ phase2' = phase2
  BY DEF evaluationVars
<1>2. LinkTyped'
  BY <1>1 DEF LinkInv, LinkTyped
<1>3. ShippedArm' /\ RandomIsSmaller'
  BY <1>1 DEF LinkInv, ShippedArm, RandomIsSmaller
<1>4. \A arm \in ARMS : KeepsTheBuilt(arm)'
  BY <1>1 DEF LinkInv, KeepsTheBuilt, Unranked
<1>5. \A arm \in ARMS : CostsItsPlaces(arm)'
  BY <1>1 DEF LinkInv, CostsItsPlaces
<1> QED
  BY <1>2, <1>3, <1>4, <1>5 DEF LinkInv

\* What a cycle makes of an arm.
ArmGrows(was, new, d, m) ==
  /\ was \in LinkRecord /\ m \in Nat /\ IsCycle(d)
  /\ new = [reached |-> was.reached \cup observe_cycle(d),
            hit |-> [k \in Ks |-> was.hit[k] + Cardinality(HitsUpto(k, d))],
            tot |-> [k \in Ks |-> was.tot[k] + Cardinality(Upto(k, d.queue))],
            added |-> was.added + m]

LEMMA ArmGrowsIs ==
  ASSUME NEW was, NEW new, NEW d, NEW m, ArmGrows(was, new, d, m)
  PROVE  /\ new \in LinkRecord /\ was.added \in Nat /\ new.added = was.added + m
         /\ new.reached = was.reached \cup observe_cycle(d)
         /\ \A k \in Ks : /\ was.hit[k] \in Nat /\ was.tot[k] \in Nat
                          /\ Cardinality(HitsUpto(k, d)) \in Nat
                          /\ Cardinality(Upto(k, d.queue)) \in Nat
                          /\ new.hit[k] = was.hit[k] + Cardinality(HitsUpto(k, d))
                          /\ new.tot[k] = was.tot[k] + Cardinality(Upto(k, d.queue))
<1>1. was \in LinkRecord /\ m \in Nat /\ IsCycle(d)
  BY DEF ArmGrows
<1>2. PICK h : h = [k \in Ks |-> was.hit[k] + Cardinality(HitsUpto(k, d))]
  OBVIOUS
<1>3. PICK t : t = [k \in Ks |-> was.tot[k] + Cardinality(Upto(k, d.queue))]
  OBVIOUS
<1>4. PICK o : o = observe_cycle(d)
  OBVIOUS
<1>5. new = [reached |-> was.reached \cup o, hit |-> h, tot |-> t, added |-> was.added + m]
  BY <1>2, <1>3, <1>4 DEF ArmGrows
<1>6. o \in SUBSET (Rings \X STAGES)
  BY <1>1, <1>4, ObservedIs
<1>7. \A k \in Ks : k \in Nat
  BY EvaluationConstants
<1>8. \A k \in Ks : Cardinality(HitsUpto(k, d)) \in Nat /\ Cardinality(Upto(k, d.queue)) \in Nat
  BY <1>1, <1>7, CycleCounts
<1>9. /\ was.reached \in SUBSET (Rings \X STAGES) /\ was.hit \in [Ks -> Nat]
      /\ was.tot \in [Ks -> Nat] /\ was.added \in Nat
  BY <1>1 DEF LinkRecord
<1>10. \A k \in Ks : was.hit[k] \in Nat /\ was.tot[k] \in Nat
  BY <1>9
<1>11. h \in [Ks -> Nat] /\ t \in [Ks -> Nat]
  BY <1>2, <1>3, <1>8, <1>10
<1>12. was.reached \cup o \in SUBSET (Rings \X STAGES) /\ was.added + m \in Nat
  BY <1>1, <1>6, <1>9
<1>13. new \in LinkRecord
  BY <1>5, <1>11, <1>12 DEF LinkRecord
<1>14. new.reached = was.reached \cup o /\ new.hit = h /\ new.tot = t /\ new.added = was.added + m
  BY <1>5
<1> QED
  BY <1>2, <1>3, <1>4, <1>8, <1>9, <1>10, <1>13, <1>14

LEMMA LinkSteps ==
  ASSUME FunnelInv, LinkInv, NEW c, Replays(c) PROVE LinkInv'
<1>1. /\ IsCycle(c) /\ FunnelCycle(c) /\ Phase2Cycle(c) /\ GateCycle(c) /\ LinkCycle(c)
      /\ c.queue \in Queues
  BY DEF Replays, Ticks
<1>2. phase2 \in CountType(DeepKs) /\ gate \in CountType(Ks)
  BY DEF FunnelInv, FunnelTyped
<1>3. LinkTyped /\ ShippedArm /\ RandomIsSmaller
  BY DEF LinkInv
<1>4. \A arm \in ARMS : KeepsTheBuilt(arm) /\ CostsItsPlaces(arm)
  BY DEF LinkInv
<1>5. \A k \in Ks : phase2.hit[k] \in Nat /\ phase2.tot[k] \in Nat
  BY <1>2, EvaluationConstants DEF CountType
<1>6. phase2' \in CountType(DeepKs)
  BY <1>1, <1>2, TalliesStep
<1>7. CASE c.rings = <<>> \/ c.queue = <<>>
  <2>1. linking' = linking
    BY <1>1, <1>7 DEF LinkCycle
  <2>2. reached' = reached
    BY <1>1, <1>7, FunnelCycleIs
  <2>3. \A k \in Ks : phase2'.hit[k] = phase2.hit[k] /\ phase2'.tot[k] = phase2.tot[k]
    BY <1>1, <1>2, <1>7, TalliesStep, EvaluationConstants
  <2>5. LinkTyped'
    BY <1>3, <2>1 DEF LinkTyped
  <2>6. ShippedArm' /\ RandomIsSmaller'
    BY <1>3, <2>1, <2>2, <2>3 DEF ShippedArm, RandomIsSmaller
  <2>7. \A arm \in ARMS : KeepsTheBuilt(arm)'
    BY <1>4, <2>1, <2>2 DEF KeepsTheBuilt, Unranked
  <2>8. \A arm \in ARMS : CostsItsPlaces(arm)'
    BY <1>4, <2>1, <2>3 DEF CostsItsPlaces
  <2> QED
    BY <2>5, <2>6, <2>7, <2>8 DEF LinkInv
<1>8. CASE ~(c.rings = <<>> \/ c.queue = <<>>)
  <2> DEFINE more(arm) == added_by(arm, c.queue)
             longer(arm) == [c EXCEPT !.queue = SortedIn(c.queue, more(arm))]
  <2>1. linking' = [arm \in ARMS |->
           [reached |-> linking[arm].reached \cup observe_cycle(longer(arm)),
            hit |-> [k \in Ks |-> linking[arm].hit[k] + Cardinality(HitsUpto(k, longer(arm)))],
            tot |-> [k \in Ks |-> linking[arm].tot[k] + Cardinality(Upto(k, longer(arm).queue))],
            added |-> linking[arm].added + Len(more(arm))]]
    BY <1>1, <1>8 DEF LinkCycle
  <2>2. reached' = reached \cup observe_cycle(c)
    BY <1>1, <1>8, FunnelCycleIs
  <2>3. \A k \in Ks : /\ phase2'.hit[k] = phase2.hit[k] + Cardinality(HitsUpto(k, c))
                      /\ phase2'.tot[k] = phase2.tot[k] + Cardinality(Upto(k, c.queue))
    BY <1>1, <1>2, <1>8, TalliesStep, EvaluationConstants
  <2>4. /\ more("shipped") = <<>>
        /\ \A arm \in ARMS : more(arm) \in Seq(MergeOf(c.queue))
        /\ Len(more("link_random")) <= Len(more("link"))
    BY <1>1, AddedAre
  <2>5. \A arm \in ARMS : Len(more(arm)) \in Nat
    BY <2>4
  <2> HIDE DEF more
  <2>6. \A arm \in ARMS : IsCycle(longer(arm))
    BY <1>1, <2>4, PoolWithMerges
  <2>7. \A arm \in ARMS : linking[arm] \in LinkRecord
    BY <1>3 DEF LinkTyped
  <2>8. ASSUME NEW arm \in ARMS
        PROVE  ArmGrows(linking[arm], linking'[arm], longer(arm), Len(more(arm)))
    BY <2>1, <2>5, <2>6, <2>7 DEF ArmGrows
  <2>9. LinkTyped'
    <3>1. ASSUME NEW arm \in ARMS PROVE linking'[arm] \in LinkRecord
      BY <2>8, ArmGrowsIs
    <3>2. PICK l : l = linking'
      OBVIOUS
    <3>3. DOMAIN l = ARMS /\ l = [arm \in ARMS |-> l[arm]]
      BY <2>1, <3>2
    <3>4. l \in [ARMS -> LinkRecord]
      BY <3>1, <3>2, <3>3
    <3> QED
      BY <3>2, <3>4 DEF LinkTyped
  <2>10. "shipped" \in ARMS /\ "link" \in ARMS /\ "link_random" \in ARMS
    BY DEF ARMS
  <2>11. RandomIsSmaller'
    <3>1. /\ linking["link"].added \in Nat
          /\ linking'["link"].added = linking["link"].added + Len(more("link"))
      <4>1. PICK was, new : was = linking["link"] /\ new = linking'["link"]
        OBVIOUS
      <4>2. PICK d, m : d = longer("link") /\ m = Len(more("link"))
        OBVIOUS
      <4>3. ArmGrows(was, new, d, m)
        BY <2>8, <2>10, <4>1, <4>2
      <4>4. was.added \in Nat /\ new.added = was.added + m
        BY <4>3, ArmGrowsIs
      <4> QED
        BY <4>1, <4>2, <4>4
    <3>2. /\ linking["link_random"].added \in Nat
          /\ linking'["link_random"].added = linking["link_random"].added + Len(more("link_random"))
      <4>1. PICK was, new : was = linking["link_random"] /\ new = linking'["link_random"]
        OBVIOUS
      <4>2. PICK d, m : d = longer("link_random") /\ m = Len(more("link_random"))
        OBVIOUS
      <4>3. ArmGrows(was, new, d, m)
        BY <2>8, <2>10, <4>1, <4>2
      <4>4. was.added \in Nat /\ new.added = was.added + m
        BY <4>3, ArmGrowsIs
      <4> QED
        BY <4>1, <4>2, <4>4
    <3>3. linking["link_random"].added <= linking["link"].added
      BY <1>3 DEF RandomIsSmaller
    <3>4. Len(more("link")) \in Nat /\ Len(more("link_random")) \in Nat
      BY <2>5, <2>10
    <3>5. linking'["link_random"].added <= linking'["link"].added
      BY <2>4, <3>1, <3>2, <3>3, <3>4
    <3> QED
      BY <3>5 DEF RandomIsSmaller
  <2>12. ShippedArm'
    <3>1. longer("shipped") = c
      BY <1>1, <2>4, <2>10, PoolWithMerges
    <3>2. PICK was, new : was = linking["shipped"] /\ new = linking'["shipped"]
      OBVIOUS
    <3>3. ArmGrows(was, new, c, Len(more("shipped")))
      BY <2>8, <2>10, <3>1, <3>2
    <3>4. new \in LinkRecord /\ new.reached = was.reached \cup observe_cycle(c)
      BY <3>3, ArmGrowsIs
    <3>5. \A k \in Ks : /\ new.hit[k] = was.hit[k] + Cardinality(HitsUpto(k, c))
                        /\ new.tot[k] = was.tot[k] + Cardinality(Upto(k, c.queue))
      BY <3>3, ArmGrowsIs
    <3>6. /\ was.reached = reached
          /\ \A k \in Ks : was.hit[k] = phase2.hit[k] /\ was.tot[k] = phase2.tot[k]
      BY <1>3, <3>2 DEF ShippedArm
    <3>7. new.reached = reached'
      BY <2>2, <3>4, <3>6
    <3>8. \A k \in Ks : new.hit[k] = phase2'.hit[k] /\ new.tot[k] = phase2'.tot[k]
      BY <2>3, <3>5, <3>6
    <3> QED
      BY <3>2, <3>7, <3>8 DEF ShippedArm
  <2>13. ASSUME NEW arm \in ARMS PROVE KeepsTheBuilt(arm)' /\ CostsItsPlaces(arm)'
    <3>1. PICK was, new : was = linking[arm] /\ new = linking'[arm]
      OBVIOUS
    <3>2. PICK d : d = longer(arm)
      OBVIOUS
    <3>3. PICK m : m = Len(more(arm))
      OBVIOUS
    <3>4. m \in Nat
      BY <2>5, <3>3
    <3>5. ArmGrows(was, new, d, m)
      BY <2>8, <3>1, <3>2, <3>3
    <3>12. PICK adds : adds = more(arm)
      OBVIOUS
    <3>6. /\ adds \in Seq(MergeOf(c.queue)) /\ d = [c EXCEPT !.queue = SortedIn(c.queue, adds)]
          /\ m = Len(adds)
      BY <2>4, <3>2, <3>3, <3>12
    <3>7. IsCycle(d) /\ d.rings = c.rings /\ d.seeds = c.seeds
      BY <1>1, <3>6, PoolWithMerges
    <3>8. FoundUpto(Len(c.queue), c) \in SUBSET FoundUpto(Len(d.queue), d)
      <4>1. AllFound(c) \in SUBSET AllFound(d)
        BY <1>1, <3>6, PoolWithMerges
      <4> QED
        BY <4>1 DEF AllFound
    <3>9. KeepsTheBuilt(arm)'
      <4>1. \A x \in observe_cycle(c) : x[2] # "ranked" => x \in observe_cycle(d)
        BY <1>1, <3>7, <3>8, ObservedStay
      <4>2. new.reached = was.reached \cup observe_cycle(d)
        BY <3>5, ArmGrowsIs
      <4>3. \A x \in reached : x[2] # "ranked" => x \in was.reached
        BY <1>4, <3>1 DEF KeepsTheBuilt, Unranked
      <4>4. \A x \in reached' : x[2] # "ranked" => x \in linking'[arm].reached
        BY <2>2, <3>1, <4>1, <4>2, <4>3
      <4> QED
        BY <4>4 DEF KeepsTheBuilt, Unranked
    <3>10. ASSUME NEW k \in Ks
           PROVE  /\ phase2'.tot[k] <= new.tot[k]
                  /\ new.tot[k] <= phase2'.tot[k] + new.added
                  /\ phase2'.hit[k] <= new.hit[k] + new.added
      <4>1. k \in Nat
        BY EvaluationConstants
      <4>2. /\ Cardinality(HitsUpto(k, c)) <= Cardinality(HitsUpto(k, d)) + m
            /\ Cardinality(Upto(k, c.queue)) <= Cardinality(Upto(k, d.queue))
            /\ Cardinality(Upto(k, d.queue)) <= Cardinality(Upto(k, c.queue)) + m
        BY <1>1, <3>6, <4>1, PoolWithMerges
      <4>3. /\ was.added \in Nat /\ new.added = was.added + m
            /\ was.hit[k] \in Nat /\ was.tot[k] \in Nat
            /\ Cardinality(HitsUpto(k, d)) \in Nat
            /\ Cardinality(Upto(k, d.queue)) \in Nat
            /\ new.hit[k] = was.hit[k] + Cardinality(HitsUpto(k, d))
            /\ new.tot[k] = was.tot[k] + Cardinality(Upto(k, d.queue))
        BY <3>5, ArmGrowsIs
      <4>4. Cardinality(HitsUpto(k, c)) \in Nat /\ Cardinality(Upto(k, c.queue)) \in Nat
        BY <1>1, <4>1, CycleCounts
      <4>5. /\ phase2.tot[k] <= was.tot[k] /\ was.tot[k] <= phase2.tot[k] + was.added
            /\ phase2.hit[k] <= was.hit[k] + was.added
        BY <1>4, <3>1 DEF CostsItsPlaces
      <4>6. phase2.hit[k] \in Nat /\ phase2.tot[k] \in Nat
        BY <1>5
      <4>7. /\ phase2'.hit[k] = phase2.hit[k] + Cardinality(HitsUpto(k, c))
            /\ phase2'.tot[k] = phase2.tot[k] + Cardinality(Upto(k, c.queue))
        BY <2>3
      <4> QED
        BY <3>4, <4>2, <4>3, <4>4, <4>5, <4>6, <4>7
    <3>11. CostsItsPlaces(arm)'
      BY <3>1, <3>10 DEF CostsItsPlaces
    <3> QED
      BY <3>9, <3>11
  <2> QED
    BY <2>9, <2>11, <2>12, <2>13 DEF LinkInv
<1> QED
  BY <1>7, <1>8

-----------------------------------------------------------------------------
(* The trial of seed arms.                                                 *)

LEMMA UnderIs ==
  ASSUME NEW c, IsCycle(c), c.seeds \in Seedings, c.queue \in Queues,
         NEW arm \in SEED_ARMS, NEW own, own = Under(arm, c)
  PROVE  /\ IsCycle(own) /\ own.rings = c.rings /\ c.seeds \subseteq own.seeds
         /\ c.queue # <<>> => own.queue # <<>>
         /\ arm = "passthrough" => own = c
         /\ arm # "passthrough" => own.seeds \subseteq Touched[c.seeds]
<1>1. CASE arm = "passthrough"
  <2>1. own = c
    BY <1>1 DEF Under
  <2> QED
    BY <1>1, <2>1
<1>2. CASE arm # "passthrough"
  <2>1. arm \in DOMAIN ArmPools
    BY <1>2 DEF SEED_ARMS
  <2>2. PICK S, q : S = c.seeds /\ q = c.queue
    OBVIOUS
  <2>3. S \in Seedings /\ q \in Queues
    BY <2>2
  <2>4. S \subseteq Touched[S] /\ ExtraSeeds[arm][S] \subseteq Touched[S] \ S
    BY <2>1, <2>3, EvaluationAssumption
  <2>5. IsQueue(ArmPools[arm][q]) /\ (q # <<>> => ArmPools[arm][q] # <<>>)
    BY <2>1, <2>3, EvaluationAssumption
  <2>6. PICK extra, added : extra = ExtraSeeds[arm][S] /\ added = ArmPools[arm][q]
    OBVIOUS
  <2>7. c = [t |-> c.t, rings |-> c.rings, seeds |-> S, queue |-> q, cheat |-> c.cheat]
    BY <2>2 DEF IsCycle
  <2>8. own = [c EXCEPT !.seeds = @ \cup ExtraSeeds[arm][@], !.queue = ArmPools[arm][@]]
    BY <1>2 DEF Under
  <2>9. own = [t |-> c.t, rings |-> c.rings, seeds |-> S \cup extra, queue |-> added, cheat |-> c.cheat]
    <3>1. c.seeds = S /\ c.queue = q
      BY <2>2
    <3>2. PICK t, rs, ch : t = c.t /\ rs = c.rings /\ ch = c.cheat
      OBVIOUS
    <3>3. c = [t |-> t, rings |-> rs, seeds |-> S, queue |-> q, cheat |-> ch]
      BY <2>7, <3>2
    <3>4. own = [t |-> t, rings |-> rs, seeds |-> S \cup extra, queue |-> added, cheat |-> ch]
      BY <2>6, <2>8, <3>3
    <3> QED
      BY <3>2, <3>4
  <2>10. /\ own.t = c.t /\ own.rings = c.rings /\ own.seeds = S \cup extra
         /\ own.queue = added /\ own.cheat = c.cheat
    BY <2>9
  <2>11. IsCycle(own)
    <3>1. c.t \in Nat /\ IsTable(c.rings) /\ IsQueue(added)
      BY <2>5, <2>6 DEF IsCycle
    <3> QED
      BY <2>9, <2>10, <3>1 DEF IsCycle
  <2>12. S \subseteq S \cup extra /\ S \cup extra \subseteq Touched[S]
    BY <2>4, <2>6
  <2> QED
    BY <1>2, <2>2, <2>5, <2>6, <2>10, <2>11, <2>12
<1> QED
  BY <1>1, <1>2

LEMMA TouchingIs ==
  ASSUME NEW accounts, NEW c
  PROVE  \A r : r \in RingsTouching(accounts, c)
                  <=> \E s \in ToSet(c.rings) : s.ring = r /\ s.members \cap accounts # {}
BY DEF RingsTouching

SeedRow == [t : Nat, hit : [Ks -> Nat]]

ArmRecord == [reached : SUBSET (Rings \X STAGES), rows : Seq(SeedRow)]

RowOf(c, own) == [t |-> c.t, hit |-> [k \in Ks |-> Cardinality(HitsUpto(k, own))]]

\* What a cycle makes of an arm.
SeedArmGrows(was, new, own, row) ==
  /\ was \in ArmRecord /\ IsCycle(own) /\ row \in SeedRow
  /\ own.queue = <<>> => new = was
  /\ own.queue # <<>> =>
       new = [reached |-> was.reached \cup observe_cycle(own), rows |-> Append(was.rows, row)]

LEMMA RowIsOne ==
  ASSUME NEW c, IsCycle(c), NEW own, IsCycle(own)
  PROVE  RowOf(c, own) \in SeedRow /\ RowOf(c, own).t = c.t
         /\ \A k \in Ks : RowOf(c, own).hit[k] = Cardinality(HitsUpto(k, own))
<1>1. PICK h : h = [k \in Ks |-> Cardinality(HitsUpto(k, own))]
  OBVIOUS
<1>2. \A k \in Ks : k \in Nat
  BY EvaluationConstants
<1>3. \A k \in Ks : Cardinality(HitsUpto(k, own)) \in Nat
  BY <1>2, CycleCounts
<1>4. h \in [Ks -> Nat]
  BY <1>1, <1>3
<1>5. RowOf(c, own) = [t |-> c.t, hit |-> h]
  BY <1>1 DEF RowOf
<1>6. c.t \in Nat
  BY DEF IsCycle
<1> QED
  BY <1>1, <1>4, <1>5, <1>6 DEF SeedRow

LEMMA SeedArmIs ==
  ASSUME NEW was, NEW new, NEW own, NEW row, SeedArmGrows(was, new, own, row)
  PROVE  /\ new \in ArmRecord
         /\ own.queue # <<>> =>
              /\ new.reached = was.reached \cup observe_cycle(own)
              /\ new.rows = Append(was.rows, row)
<1>1. was \in ArmRecord /\ IsCycle(own) /\ row \in SeedRow
  BY DEF SeedArmGrows
<1>2. CASE own.queue = <<>>
  BY <1>1, <1>2 DEF SeedArmGrows
<1>3. CASE own.queue # <<>>
  <2>1. new = [reached |-> was.reached \cup observe_cycle(own), rows |-> Append(was.rows, row)]
    BY <1>3 DEF SeedArmGrows
  <2>2. observe_cycle(own) \in SUBSET (Rings \X STAGES)
    BY <1>1, ObservedIs
  <2>3. was.reached \in SUBSET (Rings \X STAGES) /\ was.rows \in Seq(SeedRow)
    BY <1>1 DEF ArmRecord
  <2>4. PICK rows, o : rows = Append(was.rows, row) /\ o = was.reached \cup observe_cycle(own)
    OBVIOUS
  <2>5. rows \in Seq(SeedRow)
    BY <1>1, <2>3, <2>4
  <2>6. o \in SUBSET (Rings \X STAGES)
    BY <2>2, <2>3, <2>4
  <2>7. new = [reached |-> o, rows |-> rows]
    BY <2>1, <2>4
  <2> QED
    BY <1>3, <2>4, <2>5, <2>6, <2>7 DEF ArmRecord
<1> QED
  BY <1>2, <1>3

SeedsOf(arm) == {r \in Rings : <<r, "seeded">> \in seed_arms[arm].reached}

RowsOf(arm) == seed_arms[arm].rows

ArmsTyped == seed_arms \in [SEED_ARMS -> ArmRecord]

PassIsTheFunnel ==
  /\ seed_arms["passthrough"].reached = reached
  /\ Len(RowsOf("passthrough")) = Len(records)
  /\ \A i \in DOMAIN records : RowsOf("passthrough")[i].hit = records[i].hit

CeilingIs ==
  /\ ceiling.reachable = phase2.seen
  /\ SeedsOf("passthrough") \in SUBSET ceiling.passthrough

WithinCeiling(arm) ==
  /\ SeedsOf(arm) \in SUBSET (ceiling.passthrough \cup ceiling.touched)
  /\ SeedsOf("passthrough") \in SUBSET SeedsOf(arm)

RowsMatch(f, g) ==
  /\ Len(f) <= Len(g)
  /\ Len(f) = Len(g) => \A i \in DOMAIN f : g[i].t = f[i].t

ArmsInv ==
  /\ ArmsTyped /\ PassIsTheFunnel /\ CeilingIs
  /\ \A arm \in SEED_ARMS : WithinCeiling(arm) /\ RowsMatch(RowsOf("passthrough"), RowsOf(arm))

LEMMA ArmsStart == EvaluationInit => ArmsInv
<1> SUFFICES ASSUME EvaluationInit PROVE ArmsInv
  OBVIOUS
<1>1. reached = {} /\ records = <<>> /\ phase2.seen = {}
  BY DEF EvaluationInit, NothingCounted
<1>2. seed_arms = [arm \in SEED_ARMS |-> [reached |-> {}, rows |-> <<>>]]
  BY DEF EvaluationInit
<1>3. ceiling = [reachable |-> {}, touched |-> {}, passthrough |-> {}]
  BY DEF EvaluationInit
<1>4. [reached |-> {}, rows |-> <<>>] \in ArmRecord
  BY DEF ArmRecord
<1>5. ArmsTyped
  BY <1>2, <1>4 DEF ArmsTyped
<1>6. \A arm \in SEED_ARMS : seed_arms[arm].reached = {} /\ seed_arms[arm].rows = <<>>
  BY <1>2
<1>7. "passthrough" \in SEED_ARMS
  BY DEF SEED_ARMS
<1>8. PassIsTheFunnel
  BY <1>1, <1>6, <1>7 DEF PassIsTheFunnel, RowsOf
<1>9. \A arm \in SEED_ARMS : SeedsOf(arm) = {} /\ RowsOf(arm) = <<>>
  BY <1>6 DEF SeedsOf, RowsOf
<1>10. CeilingIs
  BY <1>1, <1>3, <1>7, <1>9 DEF CeilingIs
<1>11. \A arm \in SEED_ARMS : WithinCeiling(arm)
  BY <1>7, <1>9 DEF WithinCeiling
<1>12. \A arm \in SEED_ARMS : RowsMatch(RowsOf("passthrough"), RowsOf(arm))
  BY <1>7, <1>9 DEF RowsMatch
<1> QED
  BY <1>5, <1>8, <1>10, <1>11, <1>12 DEF ArmsInv

LEMMA ArmsRest ==
  ASSUME ArmsInv, UNCHANGED evaluationVars PROVE ArmsInv'
<1>1. /\ seed_arms' = seed_arms /\ ceiling' = ceiling /\ reached' = reached
      /\ records' = records /\ phase2' = phase2
  BY DEF evaluationVars
<1>2. ArmsTyped'
  BY <1>1 DEF ArmsInv, ArmsTyped
<1>3. PassIsTheFunnel'
  BY <1>1 DEF ArmsInv, PassIsTheFunnel, RowsOf
<1>4. CeilingIs'
  BY <1>1 DEF ArmsInv, CeilingIs, SeedsOf
<1>5. \A arm \in SEED_ARMS : WithinCeiling(arm)'
  BY <1>1 DEF ArmsInv, WithinCeiling, SeedsOf
<1>6. \A arm \in SEED_ARMS : RowsMatch(RowsOf("passthrough"), RowsOf(arm))'
  BY <1>1 DEF ArmsInv, RowsMatch, RowsOf
<1> QED
  BY <1>2, <1>3, <1>4, <1>5, <1>6 DEF ArmsInv

LEMMA RowsStillMatch ==
  ASSUME NEW f \in Seq(SeedRow), NEW g \in Seq(SeedRow), RowsMatch(f, g),
         NEW row \in SeedRow, NEW other \in SeedRow, other.t = row.t
  PROVE  /\ RowsMatch(Append(f, row), Append(g, other)) /\ RowsMatch(f, Append(g, other))
<1>1. PICK m, n : m = Len(f) /\ n = Len(g)
  OBVIOUS
<1>2. m \in Nat /\ n \in Nat /\ DOMAIN f = 1..m /\ DOMAIN g = 1..n
  BY <1>1
<1>3. PICK F, G : F = Append(f, row) /\ G = Append(g, other)
  OBVIOUS
<1>4. /\ Len(F) = m + 1 /\ DOMAIN F = 1..(m + 1) /\ F[m + 1] = row
      /\ \A i \in 1..m : F[i] = f[i]
  BY <1>1, <1>2, <1>3
<1>5. /\ Len(G) = n + 1 /\ DOMAIN G = 1..(n + 1) /\ G[n + 1] = other
      /\ \A i \in 1..n : G[i] = g[i]
  BY <1>1, <1>2, <1>3
<1>6. m <= n /\ (m = n => \A i \in 1..m : g[i].t = f[i].t)
  BY <1>1, <1>2 DEF RowsMatch
<1>7. ASSUME m + 1 = n + 1, NEW i \in 1..(m + 1) PROVE G[i].t = F[i].t
  <2>1. m = n
    BY <1>2, <1>7
  <2>2. CASE i = m + 1
    BY <1>4, <1>5, <2>1, <2>2
  <2>3. CASE i \in 1..m
    BY <1>4, <1>5, <1>6, <2>1, <2>3
  <2> QED
    BY <1>2, <2>2, <2>3
<1>8. RowsMatch(F, G)
  BY <1>2, <1>4, <1>5, <1>6, <1>7 DEF RowsMatch
<1>9. RowsMatch(f, G)
  BY <1>1, <1>2, <1>5, <1>6 DEF RowsMatch
<1> QED
  BY <1>3, <1>8, <1>9

\* What is seeded of the rings of a cycle, for any of the arms.
LEMMA SeededGrows ==
  ASSUME NEW was, NEW new, NEW own, NEW row, SeedArmGrows(was, new, own, row), NEW r
  PROVE  /\ <<r, "seeded">> \in was.reached => <<r, "seeded">> \in new.reached
         /\ <<r, "seeded">> \in new.reached => <<r, "seeded">> \in was.reached
              \/ \E s \in ToSet(own.rings) : s.ring = r /\ s.members \cap own.seeds # {}
         /\ own.queue # <<>> /\ (\E s \in ToSet(own.rings) : s.ring = r /\ s.members \cap own.seeds # {})
              => <<r, "seeded">> \in new.reached
<1>1. IsCycle(own)
  BY DEF SeedArmGrows
<1>2. CASE own.queue = <<>>
  <2>1. new = was
    BY <1>2 DEF SeedArmGrows
  <2> QED
    BY <1>2, <2>1
<1>3. CASE own.queue # <<>>
  <2>1. new.reached = was.reached \cup observe_cycle(own)
    BY <1>3, SeedArmIs
  <2>2. <<r, "seeded">> \in observe_cycle(own)
          <=> \E s \in ToSet(own.rings) : s.ring = r /\ s.members \cap own.seeds # {}
    BY <1>1, ObservedIs
  <2> QED
    BY <1>3, <2>1, <2>2
<1> QED
  BY <1>2, <1>3

LEMMA ArmsSteps ==
  ASSUME FunnelInv, ArmsInv, NEW c, Replays(c) PROVE ArmsInv'
<1>1. /\ IsCycle(c) /\ FunnelCycle(c) /\ Phase2Cycle(c) /\ GateCycle(c) /\ ArmsCycle(c)
      /\ c.queue \in Queues /\ c.seeds \in Seedings
  BY DEF Replays, Ticks
<1>2. phase2 \in CountType(DeepKs) /\ gate \in CountType(Ks) /\ records \in Seq(RecordType)
  BY DEF FunnelInv, FunnelTyped
<1>3. ArmsTyped /\ PassIsTheFunnel /\ CeilingIs
  BY DEF ArmsInv
<1>4. \A arm \in SEED_ARMS : WithinCeiling(arm) /\ RowsMatch(RowsOf("passthrough"), RowsOf(arm))
  BY DEF ArmsInv
<1>5. phase2'.seen = phase2.seen \cup RingIds(c.rings)
  BY <1>1, <1>2, TalliesStep
<1>6. "passthrough" \in SEED_ARMS
  BY DEF SEED_ARMS
<1>7. RingIds(c.rings) \in SUBSET Rings
  BY <1>1, CycleCounts
<1>8. CASE c.rings = <<>>
  <2>1. seed_arms' = seed_arms /\ ceiling' = ceiling
    BY <1>1, <1>8 DEF ArmsCycle
  <2>2. reached' = reached /\ records' = records
    BY <1>1, <1>8, FunnelCycleIs
  <2>3. phase2'.seen = phase2.seen
    <3>1. RingIds(c.rings) = {}
      BY <1>1, <1>8, CycleCounts
    <3> QED
      BY <1>5, <3>1
  <2>4. ArmsTyped'
    BY <1>3, <2>1 DEF ArmsTyped
  <2>5. PassIsTheFunnel'
    BY <1>3, <2>1, <2>2 DEF PassIsTheFunnel, RowsOf
  <2>6. CeilingIs'
    BY <1>3, <2>1, <2>3 DEF CeilingIs, SeedsOf
  <2>7. \A arm \in SEED_ARMS : WithinCeiling(arm)'
    BY <1>4, <2>1 DEF WithinCeiling, SeedsOf
  <2>8. \A arm \in SEED_ARMS : RowsMatch(RowsOf("passthrough"), RowsOf(arm))'
    BY <1>4, <2>1 DEF RowsMatch, RowsOf
  <2> QED
    BY <2>4, <2>5, <2>6, <2>7, <2>8 DEF ArmsInv
<1>9. CASE c.rings # <<>>
  <2> DEFINE own(arm) == Under(arm, c)
             row(arm) == RowOf(c, own(arm))
  <2>1. /\ ceiling'.reachable = ceiling.reachable \cup RingIds(c.rings)
        /\ ceiling'.touched = ceiling.touched \cup RingsTouching(Touched[c.seeds], c)
        /\ ceiling'.passthrough = ceiling.passthrough \cup RingsTouching(c.seeds, c)
    <3>1. ceiling' = [reachable |-> ceiling.reachable \cup RingIds(c.rings),
                      touched |-> ceiling.touched \cup RingsTouching(Touched[c.seeds], c),
                      passthrough |-> ceiling.passthrough \cup RingsTouching(c.seeds, c)]
      BY <1>1, <1>9 DEF ArmsCycle
    <3> QED
      BY <3>1
  <2>2. seed_arms' = [arm \in SEED_ARMS |->
            IF own(arm).queue = <<>> THEN seed_arms[arm]
            ELSE [reached |-> seed_arms[arm].reached \cup observe_cycle(own(arm)),
                  rows |-> Append(seed_arms[arm].rows, row(arm))]]
    BY <1>1, <1>9 DEF ArmsCycle, RowOf
  <2>3. ASSUME NEW arm \in SEED_ARMS
        PROVE  /\ IsCycle(own(arm)) /\ own(arm).rings = c.rings /\ c.seeds \subseteq own(arm).seeds
               /\ c.queue # <<>> => own(arm).queue # <<>>
               /\ arm = "passthrough" => own(arm) = c
               /\ arm # "passthrough" => own(arm).seeds \subseteq Touched[c.seeds]
    BY <1>1, UnderIs
  <2>4. ASSUME NEW arm \in SEED_ARMS
        PROVE  row(arm) \in SeedRow /\ row(arm).t = c.t
               /\ \A k \in Ks : row(arm).hit[k] = Cardinality(HitsUpto(k, own(arm)))
    BY <1>1, <2>3, RowIsOne
  <2> HIDE DEF own, row
  <2>5. \A arm \in SEED_ARMS : seed_arms[arm] \in ArmRecord
    BY <1>3 DEF ArmsTyped
  <2>6. ASSUME NEW arm \in SEED_ARMS
        PROVE  SeedArmGrows(seed_arms[arm], seed_arms'[arm], own(arm), row(arm))
    BY <2>2, <2>3, <2>4, <2>5 DEF SeedArmGrows
  <2>7. ArmsTyped'
    <3>1. ASSUME NEW arm \in SEED_ARMS PROVE seed_arms'[arm] \in ArmRecord
      BY <2>6, SeedArmIs
    <3>2. PICK l : l = seed_arms'
      OBVIOUS
    <3>3. DOMAIN l = SEED_ARMS /\ l = [arm \in SEED_ARMS |-> l[arm]]
      BY <2>2, <3>2
    <3>4. l \in [SEED_ARMS -> ArmRecord]
      BY <3>1, <3>2, <3>3
    <3> QED
      BY <3>2, <3>4 DEF ArmsTyped
  <2>8. own("passthrough") = c
    BY <1>6, <2>3
  <2>9. SeedArmGrows(seed_arms["passthrough"], seed_arms'["passthrough"], c, row("passthrough"))
    BY <1>6, <2>6, <2>8
  <2>10. PassIsTheFunnel'
    <3>1. PICK was, new : was = seed_arms["passthrough"] /\ new = seed_arms'["passthrough"]
      OBVIOUS
    <3>2. PICK x : x = row("passthrough")
      OBVIOUS
    <3>3. SeedArmGrows(was, new, c, x)
      BY <2>9, <3>1, <3>2
    <3>4. /\ was.reached = reached /\ Len(was.rows) = Len(records)
          /\ \A i \in DOMAIN records : was.rows[i].hit = records[i].hit
      BY <1>3, <3>1 DEF PassIsTheFunnel, RowsOf
    <3>5. CASE c.queue = <<>>
      <4>1. new = was
        BY <3>3, <3>5 DEF SeedArmGrows
      <4>2. reached' = reached /\ records' = records
        BY <1>1, <3>5, FunnelCycleIs
      <4>3. seed_arms'["passthrough"] = was
        BY <3>1, <4>1
      <4> QED
        BY <3>4, <4>2, <4>3 DEF PassIsTheFunnel, RowsOf
    <3>6. CASE c.queue # <<>>
      <4>1. new.reached = was.reached \cup observe_cycle(c) /\ new.rows = Append(was.rows, x)
        BY <3>3, <3>6, SeedArmIs
      <4>2. PICK r : r = RecordOf(c)
        OBVIOUS
      <4>3. reached' = reached \cup observe_cycle(c) /\ records' = Append(records, r)
        BY <1>1, <1>9, <3>6, <4>2, FunnelCycleIs
      <4>4. r \in RecordType /\ r.hit = [k \in Ks |-> Cardinality(HitsUpto(k, c))]
        <5>1. r \in RecordType
          BY <1>1, <4>2, RecordIs
        <5>2. r.hit = [k \in Ks |-> Cardinality(HitsUpto(k, c))]
          BY <4>2 DEF RecordOf
        <5> QED
          BY <5>1, <5>2
      <4>5. x.hit = r.hit
        <5>1. x \in SeedRow /\ \A k \in Ks : x.hit[k] = Cardinality(HitsUpto(k, c))
          BY <1>6, <2>4, <2>8, <3>2
        <5>2. x.hit \in [Ks -> Nat] /\ r.hit \in [Ks -> Nat]
          BY <4>4, <5>1 DEF SeedRow, RecordType
        <5>3. PICK a, b : a = x.hit /\ b = r.hit
          OBVIOUS
        <5>4. a \in [Ks -> Nat] /\ b \in [Ks -> Nat] /\ \A k \in Ks : a[k] = b[k]
          BY <4>4, <5>1, <5>2, <5>3
        <5>5. a = b
          BY <5>4
        <5> QED
          BY <5>3, <5>5
      <4>6. PICK f, g, F, G : f = was.rows /\ g = records /\ F = new.rows /\ G = records'
        OBVIOUS
      <4>7. f \in Seq(SeedRow)
        <5>1. was \in ArmRecord
          BY <3>3 DEF SeedArmGrows
        <5> QED
          BY <4>6, <5>1 DEF ArmRecord
      <4>8. PICK n \in Nat : n = Len(f) /\ n = Len(g)
        BY <3>4, <4>6, <4>7
      <4>9. g \in Seq(RecordType) /\ DOMAIN g = 1..n /\ DOMAIN f = 1..n
        <5>1. g \in Seq(RecordType)
          BY <1>2, <4>6
        <5>2. DOMAIN g = 1..Len(g)
          BY <5>1, OwnSequence
        <5>3. DOMAIN f = 1..Len(f)
          BY <4>7, OwnSequence
        <5> QED
          BY <4>8, <5>1, <5>2, <5>3
      <4>10. F = Append(f, x) /\ G = Append(g, r)
        BY <4>1, <4>3, <4>6
      <4>11. /\ Len(F) = n + 1 /\ F[n + 1] = x /\ \A i \in 1..n : F[i] = f[i]
        BY <4>7, <4>8, <4>9, <4>10
      <4>12. /\ Len(G) = n + 1 /\ G[n + 1] = r /\ DOMAIN G = 1..(n + 1) /\ \A i \in 1..n : G[i] = g[i]
        BY <4>8, <4>9, <4>10
      <4>13. \A i \in 1..n : f[i].hit = g[i].hit
        BY <3>4, <4>6, <4>9
      <4>14. ASSUME NEW i \in 1..(n + 1) PROVE F[i].hit = G[i].hit
        <5>1. CASE i = n + 1
          BY <4>5, <4>11, <4>12, <5>1
        <5>2. CASE i \in 1..n
          BY <4>11, <4>12, <4>13, <5>2
        <5> QED
          BY <4>8, <5>1, <5>2
      <4>15. seed_arms'["passthrough"].reached = reached'
        BY <3>1, <3>4, <4>1, <4>3
      <4>16. seed_arms'["passthrough"].rows = F /\ records' = G
        BY <3>1, <4>6
      <4> QED
        BY <4>11, <4>12, <4>14, <4>15, <4>16 DEF PassIsTheFunnel, RowsOf
    <3> QED
      BY <3>5, <3>6
  <2>11. \A r : r \in RingsTouching(c.seeds, c)
                  <=> \E s \in ToSet(c.rings) : s.ring = r /\ s.members \cap c.seeds # {}
    BY TouchingIs
  <2>12. \A r : r \in RingsTouching(Touched[c.seeds], c)
                  <=> \E s \in ToSet(c.rings) : s.ring = r /\ s.members \cap Touched[c.seeds] # {}
    BY TouchingIs
  <2>13. CeilingIs'
    <3>1. ceiling'.reachable = phase2'.seen
      BY <1>3, <1>5, <2>1 DEF CeilingIs
    <3>2. ASSUME NEW r \in Rings, <<r, "seeded">> \in seed_arms'["passthrough"].reached
          PROVE  r \in ceiling'.passthrough
      <4>1. \/ <<r, "seeded">> \in seed_arms["passthrough"].reached
            \/ \E s \in ToSet(c.rings) : s.ring = r /\ s.members \cap c.seeds # {}
        BY <2>9, <3>2, SeededGrows
      <4>2. <<r, "seeded">> \in seed_arms["passthrough"].reached => r \in ceiling.passthrough
        BY <1>3 DEF CeilingIs, SeedsOf
      <4> QED
        BY <2>1, <2>11, <4>1, <4>2
    <3> QED
      BY <3>1, <3>2 DEF CeilingIs, SeedsOf
  <2>14. ASSUME NEW arm \in SEED_ARMS PROVE WithinCeiling(arm)'
    <3>1. PICK d : d = own(arm)
      OBVIOUS
    <3>2. /\ IsCycle(d) /\ d.rings = c.rings /\ c.seeds \subseteq d.seeds
          /\ c.queue # <<>> => d.queue # <<>>
          /\ arm = "passthrough" => d = c
          /\ arm # "passthrough" => d.seeds \subseteq Touched[c.seeds]
      BY <2>3, <3>1
    <3>3. PICK was, new : was = seed_arms[arm] /\ new = seed_arms'[arm]
      OBVIOUS
    <3>4. PICK x : x = row(arm)
      OBVIOUS
    <3>5. SeedArmGrows(was, new, d, x)
      BY <2>6, <3>1, <3>3, <3>4
    <3>6. WithinCeiling(arm)
      BY <1>4
    <3>7. ASSUME NEW r \in Rings, <<r, "seeded">> \in new.reached
          PROVE  r \in ceiling'.passthrough \cup ceiling'.touched
      <4>1. \/ <<r, "seeded">> \in was.reached
            \/ \E s \in ToSet(d.rings) : s.ring = r /\ s.members \cap d.seeds # {}
        BY <3>5, <3>7, SeededGrows
      <4>2. CASE <<r, "seeded">> \in was.reached
        <5>1. r \in ceiling.passthrough \cup ceiling.touched
          BY <3>3, <3>6, <4>2 DEF WithinCeiling, SeedsOf
        <5> QED
          BY <2>1, <5>1
      <4>3. CASE \E s \in ToSet(d.rings) : s.ring = r /\ s.members \cap d.seeds # {}
        <5>1. PICK s \in ToSet(c.rings) : s.ring = r /\ s.members \cap d.seeds # {}
          BY <3>2, <4>3
        <5>2. CASE arm = "passthrough"
          <6>1. d.seeds = c.seeds
            BY <3>2, <5>2
          <6>2. r \in RingsTouching(c.seeds, c)
            BY <2>11, <5>1, <6>1
          <6> QED
            BY <2>1, <6>2
        <5>3. CASE arm # "passthrough"
          <6>1. s.members \cap Touched[c.seeds] # {}
            BY <3>2, <5>1, <5>3
          <6>2. r \in RingsTouching(Touched[c.seeds], c)
            BY <2>12, <5>1, <6>1
          <6> QED
            BY <2>1, <6>2
        <5> QED
          BY <5>2, <5>3
      <4> QED
        BY <4>1, <4>2, <4>3
    <3>8. ASSUME NEW r \in Rings, <<r, "seeded">> \in seed_arms'["passthrough"].reached
          PROVE  <<r, "seeded">> \in new.reached
      <4>1. CASE <<r, "seeded">> \in seed_arms["passthrough"].reached
        <5>1. <<r, "seeded">> \in was.reached
          BY <3>3, <3>6, <4>1 DEF WithinCeiling, SeedsOf
        <5> QED
          BY <3>5, <5>1, SeededGrows
      <4>2. CASE <<r, "seeded">> \notin seed_arms["passthrough"].reached
        <5>1. \E s \in ToSet(c.rings) : s.ring = r /\ s.members \cap c.seeds # {}
          BY <2>9, <3>8, <4>2, SeededGrows
        <5>2. c.queue # <<>>
          <6>1. SUFFICES ASSUME c.queue = <<>> PROVE FALSE
            OBVIOUS
          <6>2. seed_arms'["passthrough"] = seed_arms["passthrough"]
            BY <2>9, <6>1 DEF SeedArmGrows
          <6> QED
            BY <3>8, <4>2, <6>2
        <5>3. PICK s \in ToSet(c.rings) : s.ring = r /\ s.members \cap c.seeds # {}
          BY <5>1
        <5>4. s \in ToSet(d.rings) /\ s.members \cap d.seeds # {} /\ d.queue # <<>>
          BY <3>2, <5>2, <5>3
        <5>5. own("passthrough") = c
          BY <2>8
        <5> QED
          BY <3>5, <5>3, <5>4, SeededGrows
      <4> QED
        BY <4>1, <4>2
    <3>9. SeedsOf(arm)' \in SUBSET (ceiling'.passthrough \cup ceiling'.touched)
      BY <3>3, <3>7 DEF SeedsOf
    <3>10. SeedsOf("passthrough")' \in SUBSET SeedsOf(arm)'
      BY <3>3, <3>8 DEF SeedsOf
    <3> QED
      BY <3>9, <3>10 DEF WithinCeiling
  <2>15. ASSUME NEW arm \in SEED_ARMS
         PROVE  RowsMatch(seed_arms'["passthrough"].rows, seed_arms'[arm].rows)
    <3>1. PICK f, g : f = seed_arms["passthrough"].rows /\ g = seed_arms[arm].rows
      OBVIOUS
    <3>2. f \in Seq(SeedRow) /\ g \in Seq(SeedRow)
      BY <1>6, <2>5, <3>1 DEF ArmRecord
    <3>3. RowsMatch(f, g)
      BY <1>4, <3>1 DEF RowsOf
    <3>4. PICK x, y : x = row("passthrough") /\ y = row(arm)
      OBVIOUS
    <3>5. x \in SeedRow /\ y \in SeedRow /\ y.t = x.t
      BY <1>6, <2>4, <3>4
    <3>6. CASE c.queue = <<>>
      <4>1. seed_arms'["passthrough"].rows = f
        BY <2>9, <3>1, <3>6 DEF SeedArmGrows
      <4>2. CASE own(arm).queue = <<>>
        <5>1. seed_arms'[arm].rows = g
          BY <2>6, <3>1, <4>2 DEF SeedArmGrows
        <5> QED
          BY <3>3, <4>1, <5>1
      <4>3. CASE own(arm).queue # <<>>
        <5>1. seed_arms'[arm].rows = Append(g, y)
          BY <2>6, <3>1, <3>4, <4>3, SeedArmIs
        <5>2. RowsMatch(f, Append(g, y))
          BY <3>2, <3>3, <3>5, RowsStillMatch
        <5> QED
          BY <4>1, <5>1, <5>2
      <4> QED
        BY <4>2, <4>3
    <3>7. CASE c.queue # <<>>
      <4>1. seed_arms'["passthrough"].rows = Append(f, x)
        BY <2>9, <3>1, <3>4, <3>7, SeedArmIs
      <4>2. own(arm).queue # <<>>
        BY <2>3, <3>7
      <4>3. seed_arms'[arm].rows = Append(g, y)
        BY <2>6, <3>1, <3>4, <4>2, SeedArmIs
      <4>4. RowsMatch(Append(f, x), Append(g, y))
        BY <3>2, <3>3, <3>5, RowsStillMatch
      <4> QED
        BY <4>1, <4>3, <4>4
    <3> QED
      BY <3>6, <3>7
  <2>16. \A arm \in SEED_ARMS : RowsMatch(RowsOf("passthrough"), RowsOf(arm))'
    <3>1. ASSUME NEW arm \in SEED_ARMS PROVE RowsMatch(RowsOf("passthrough"), RowsOf(arm))'
      BY <2>15 DEF RowsMatch, RowsOf
    <3> QED
      BY <3>1
  <2> QED
    BY <2>7, <2>10, <2>13, <2>14, <2>16 DEF ArmsInv
<1> QED
  BY <1>8, <1>9

-----------------------------------------------------------------------------
(* The inductive invariant, and what follows from it over the counts.      *)

EvaluationInv == FunnelInv /\ PoolInv /\ BandInv /\ DiffInv /\ LinkInv /\ ArmsInv

LEMMA EvaluationStarts == EvaluationInit => EvaluationInv
BY FunnelStarts, PoolStarts, BandStarts, DiffStarts, LinkStarts, ArmsStart DEF EvaluationInv

LEMMA EvaluationMoves ==
  ASSUME EvaluationInv, [EvaluationNext]_evaluationVars PROVE EvaluationInv'
<1>1. FunnelInv /\ PoolInv /\ BandInv /\ DiffInv /\ LinkInv /\ ArmsInv
  BY DEF EvaluationInv
<1>2. CASE UNCHANGED evaluationVars
  <2>1. FunnelInv' /\ PoolInv' /\ BandInv'
    BY <1>1, <1>2, FunnelRests, PoolRests, BandRests
  <2>2. DiffInv' /\ LinkInv' /\ ArmsInv'
    BY <1>1, <1>2, DiffRests, LinkRests, ArmsRest
  <2> QED
    BY <2>1, <2>2 DEF EvaluationInv
<1>3. CASE EvaluationNext
  <2>1. cycles \in Nat
    <3>1. cycles \in 0..MaxCycles
      BY <1>1 DEF FunnelInv, FunnelTyped
    <3> QED
      BY <3>1, EvaluationConstants
  <2>2. PICK c : Replays(c)
    BY <1>3, <2>1, CycleIs DEF EvaluationNext
  <2>3. FunnelInv' /\ PoolInv' /\ BandInv'
    BY <1>1, <2>2, FunnelSteps, PoolSteps, BandSteps
  <2>4. DiffInv' /\ LinkInv' /\ ArmsInv'
    BY <1>1, <2>2, DiffSteps, LinkSteps, ArmsSteps
  <2> QED
    BY <2>3, <2>4 DEF EvaluationInv
<1> QED
  BY <1>2, <1>3

LEMMA EvaluationTypes ==
  ASSUME EvaluationInv PROVE EvaluationTypeOK
<1>1. /\ cycles \in 0..MaxCycles /\ reached \in SUBSET (Rings \X STAGES)
      /\ records \in Seq(RecordType) /\ phase2 \in CountType(DeepKs) /\ gate \in CountType(Ks)
  BY DEF EvaluationInv, FunnelInv, FunnelTyped
<1>2. band.seen = phase2.seen
  BY DEF EvaluationInv, BandInv, BandTyped
<1>3. phase2.seen \in SUBSET Rings /\ gate.seen \in SUBSET Rings
  BY <1>1 DEF CountType
<1>4. ASSUME NEW i \in DOMAIN records PROVE records[i].seen \subseteq Rings
  <2>1. records[i] \in RecordType
    BY <1>1
  <2> QED
    BY <2>1 DEF RecordType
<1>5. DOMAIN per_ring = Rings
  BY DEF EvaluationInv, DiffInv, DiffTyped
<1>6. ASSUME NEW arm \in ARMS PROVE linking[arm].reached \subseteq Rings \X STAGES
  <2>1. linking[arm] \in LinkRecord
    BY DEF EvaluationInv, LinkInv, LinkTyped
  <2> QED
    BY <2>1 DEF LinkRecord
<1>7. ASSUME NEW i \in DOMAIN labelled PROVE labelled[i].ring \in Rings \cup {NoRing}
  <2>1. labelled \in Seq(LabelRecord)
    BY DEF EvaluationInv, PoolInv, PoolTyped
  <2>2. labelled[i] \in LabelRecord
    BY <2>1
  <2> QED
    BY <2>2 DEF LabelRecord
<1> QED
  BY <1>1, <1>2, <1>3, <1>4, <1>5, <1>6, <1>7 DEF EvaluationTypeOK

LEMMA UnionsAre ==
  ASSUME FunnelInv
  PROVE  /\ UnionSeen = SeenOf(records) /\ UnionSeen \in SUBSET Rings
         /\ \A k : UnionFound(k) = FoundOf(records, k)
         /\ \A k \in Ks : UnionFound(k) \in SUBSET UnionSeen
         /\ \A i \in DOMAIN records :
              /\ records[i].seen \in SUBSET Rings
              /\ \A k \in Ks : records[i].found[k] \in SUBSET records[i].seen
<1>1. UnionSeen = SeenOf(records)
  BY DEF UnionSeen, SeenOf
<1>2. \A k : UnionFound(k) = FoundOf(records, k)
  BY DEF UnionFound, FoundOf
<1>3. records \in Seq(RecordType)
  BY DEF FunnelInv, FunnelTyped
<1>4. ASSUME NEW i \in DOMAIN records PROVE records[i].seen \in SUBSET Rings
  <2>1. records[i] \in RecordType
    BY <1>3
  <2> QED
    BY <2>1 DEF RecordType
<1>5. \A i \in DOMAIN records, k \in Ks : records[i].found[k] \in SUBSET records[i].seen
  BY DEF FunnelInv, FunnelTyped
<1>6. UnionSeen \in SUBSET Rings
  BY <1>4 DEF UnionSeen
<1>7. ASSUME NEW k \in Ks PROVE UnionFound(k) \in SUBSET UnionSeen
  BY <1>5 DEF UnionFound, UnionSeen
<1> QED
  BY <1>1, <1>2, <1>4, <1>5, <1>6, <1>7

\* The parts of a table add up to its total.
LEMMA TotalsAre ==
  ASSUME NEW st
  PROVE  totals(st) = Tally([typ \in {TypologyOf[r] : r \in Rings} |-> table(typ, st)])
<1>1. IsFiniteSet(Rings)
  BY EvaluationConstants
<1>2. PICK I : I = {TypologyOf[r] : r \in Rings}
  OBVIOUS
<1>3. IsFiniteSet(I)
  <2>1. PICK f : f = [r \in Rings |-> TypologyOf[r]]
    OBVIOUS
  <2>2. \A z \in I : \E r \in Rings : f[r] = z
    BY <1>2, <2>1
  <2> QED
    BY <1>1, <2>2, Onto
<1>4. PICK S : S = [typ \in I |-> {r \in Rings : TypologyOf[r] = typ /\ <<r, st>> \in reached}]
  OBVIOUS
<1>5. \A typ \in I : IsFiniteSet(S[typ])
  <2>1. \A typ \in I : S[typ] \in SUBSET Rings
    BY <1>4
  <2> QED
    BY <1>1, <2>1, FewerThan
<1>6. \A i, j \in I : i # j => S[i] \cap S[j] = {}
  BY <1>4
<1>7. Tally([typ \in I |-> Cardinality(S[typ])]) = Cardinality(UNION {S[typ] : typ \in I})
  BY <1>3, <1>5, <1>6, TallyOfSizes
<1>8. UNION {S[typ] : typ \in I} = {r \in Rings : <<r, st>> \in reached}
  <2>1. ASSUME NEW r \in Rings, <<r, st>> \in reached PROVE r \in UNION {S[typ] : typ \in I}
    <3>1. TypologyOf[r] \in I
      BY <1>2
    <3>2. r \in S[TypologyOf[r]]
      BY <1>4, <2>1, <3>1
    <3> QED
      BY <3>1, <3>2
  <2>2. ASSUME NEW r \in UNION {S[typ] : typ \in I} PROVE r \in Rings /\ <<r, st>> \in reached
    <3>1. PICK typ \in I : r \in S[typ]
      OBVIOUS
    <3> QED
      BY <1>4, <3>1
  <2> QED
    BY <2>1, <2>2
<1>9. [typ \in I |-> Cardinality(S[typ])] = [typ \in I |-> table(typ, st)]
  BY <1>4 DEF table
<1>10. PICK a, b : a = [typ \in I |-> Cardinality(S[typ])] /\ b = [typ \in I |-> table(typ, st)]
  OBVIOUS
<1>11. Tally(a) = totals(st)
  BY <1>7, <1>8, <1>10 DEF totals
<1> QED
  BY <1>2, <1>9, <1>10, <1>11

LEMMA CountsDoAgree ==
  ASSUME EvaluationInv PROVE CountsAgree
<1>1. FunnelInv /\ PoolInv
  BY DEF EvaluationInv
<1>2. /\ UnionSeen = SeenOf(records) /\ UnionSeen \in SUBSET Rings
      /\ \A k : UnionFound(k) = FoundOf(records, k)
      /\ \A k \in Ks : UnionFound(k) \in SUBSET UnionSeen
  BY <1>1, UnionsAre
<1>3. StagesAreRecords /\ CountsAreRecords
  BY <1>1 DEF FunnelInv
<1>4. RANK_K \in Ks
  BY EvaluationConstants
<1>5. {r \in Rings : <<r, "ranked">> \in reached} = UnionFound(RANK_K)
  <2>1. UnionFound(RANK_K) \in SUBSET Rings
    BY <1>2, <1>4
  <2> QED
    BY <1>2, <1>3, <2>1 DEF StagesAreRecords
<1>6. {r \in Rings : <<r, "seed_reachable">> \in reached} = UnionSeen
  BY <1>2, <1>3 DEF StagesAreRecords
<1>7. UnionSeen \subseteq phase2.seen /\ phase2.seen = gate.seen
  BY <1>2, <1>3 DEF CountsAreRecords
<1>8. phase2.seen = RingIds(first_t)
  BY <1>1 DEF PoolInv, PoolCounts
<1>9. gate.found = UnionFound(Deepest(Ks))
  BY <1>2, <1>3 DEF CountsAreRecords
<1>14. /\ gate.found \subseteq phase2.found /\ \A r \in phase2.found : <<r, "built">> \in reached
       /\ phase2.hit[Deepest(DeepKs)] = phase2.hit[Deepest(Ks)] => phase2.found = gate.found
  BY <1>1 DEF FunnelInv, DepthsAgree
<1>10. ASSUME NEW k \in Ks
       PROVE  /\ Tally([i \in DOMAIN records |-> records[i].hit[k]]) = phase2.hit[k]
              /\ Tally([i \in DOMAIN records |-> records[i].tot[k]]) = phase2.tot[k]
              /\ phase2.hit[k] = gate.hit[k] /\ phase2.tot[k] <= gate.tot[k]
  BY <1>3 DEF CountsAreRecords, HitOf, TotOf
<1>11. ASSUME NEW k \in Ks
       PROVE  Tally([t \in 1..cycles |-> CandidateHits(k, InCycle(t))]) = phase2.hit[k]
  <2>1. HitsPerCycle(k) = phase2.hit[k]
    BY <1>1 DEF PoolInv, PoolCounts
  <2>2. \A t : CandidateHits(k, InCycle(t)) = HitsAt(k, t, labelled)
    BY HitsAtAre
  <2>3. [t \in 1..cycles |-> CandidateHits(k, InCycle(t))] = [t \in 1..cycles |-> HitsAt(k, t, labelled)]
    BY <2>2
  <2> QED
    BY <2>1, <2>3 DEF HitsPerCycle
<1>12. ASSUME NEW r \in RingsOf(DOMAIN labelled) PROVE <<r, "built">> \in reached
  <2>1. PICK i \in DOMAIN labelled : r = labelled[i].ring /\ labelled[i].ring # NoRing
    BY DEF RingsOf, Positives
  <2>2. Traced(labelled[i])
    BY <1>1, <2>1 DEF PoolInv, PoolTraced
  <2> QED
    BY <2>1, <2>2 DEF Traced
<1>13. \A st \in STAGES : totals(st) =
         Tally([typ \in {TypologyOf[r] : r \in Rings} |-> table(typ, st)])
  BY TotalsAre
<1> QED
  BY <1>5, <1>6, <1>7, <1>8, <1>9, <1>10, <1>11, <1>12, <1>13, <1>14 DEF CountsAgree

LEMMA BandIsRight ==
  ASSUME EvaluationInv PROVE BandIsAroundTheHeadline
<1>1. BandTyped /\ CellsTyped /\ ShippedCell /\ CellsNest
  BY DEF EvaluationInv, BandInv
<1>2. SHIPPED \in Cells
  BY ShippedIsCell
<1>3. band.cells[SHIPPED] = [found |-> phase2.found, hit |-> phase2.hit]
  <2>1. PICK cell : cell = band.cells[SHIPPED]
    OBVIOUS
  <2>2. cell \in CellRecord /\ cell.found = phase2.found /\ cell.hit = phase2.hit
    BY <1>1, <1>2, <2>1 DEF CellsTyped, ShippedCell
  <2>3. cell = [found |-> cell.found, hit |-> cell.hit]
    BY <2>2 DEF CellRecord
  <2> QED
    BY <2>1, <2>2, <2>3
<1>4. band.seen = phase2.seen /\ band.tot = phase2.tot
  BY <1>1 DEF BandTyped
<1>5. \A low, high \in Cells : low[1] <= high[1] /\ low[2] <= high[2] =>
        /\ band.cells[high].found \subseteq band.cells[low].found
        /\ \A k \in DeepKs : band.cells[high].hit[k] <= band.cells[low].hit[k]
  BY <1>1 DEF CellsNest, Nested
<1> QED
  BY <1>3, <1>4, <1>5 DEF BandIsAroundTheHeadline

LEMMA DiffIsRight ==
  ASSUME EvaluationInv PROVE DiffMatchesTheFunnel
<1>1. FunnelInv /\ DiffTyped /\ DiffSeen /\ DiffStages
  BY DEF EvaluationInv, DiffInv
<1>2. UnionSeen = SeenOf(records) /\ UnionSeen \in SUBSET Rings
  BY <1>1, UnionsAre
<1>3. UnionSeen \subseteq Recorded
  BY <1>1, <1>2 DEF DiffSeen, Recorded
<1>4. Recorded \subseteq phase2.seen
  BY <1>1 DEF DiffSeen, Recorded
<1>5. ASSUME NEW r \in Recorded
      PROVE  /\ r \in Rings /\ per_ring[r].seeded_cheat
             /\ per_ring[r].built_honest = (<<r, "built">> \in reached)
             /\ <<r, "seeded">> \in reached => per_ring[r].seeded_honest
             /\ per_ring[r].seeded_honest = (per_ring[r].max_seed_in_ring_honest > 0)
             /\ per_ring[r].max_seed_in_ring_honest <= per_ring[r].max_ring_size
  <2>1. r \in Rings /\ per_ring[r].cycles > 0
    BY DEF Recorded
  <2>2. per_ring[r] \in RingRecord /\ SeedsCounted(per_ring[r])
    BY <1>1, <2>1 DEF DiffTyped
  <2>3. per_ring[r].seeded_cheat
    BY <1>1, <2>1 DEF DiffSeen
  <2>4. per_ring[r].built_honest <=> <<r, "built">> \in reached
    BY <1>1, <2>1 DEF DiffStages
  <2>5. <<r, "seeded">> \in reached => per_ring[r].seeded_honest
    BY <1>1, <2>1 DEF DiffStages
  <2>6. PICK rec : rec = per_ring[r]
    OBVIOUS
  <2>7. rec.built_honest \in BOOLEAN /\ rec.seeded_honest \in BOOLEAN
    BY <2>2, <2>6 DEF RingRecord
  <2>8. /\ rec.seeded_honest <=> rec.max_seed_in_ring_honest > 0
        /\ rec.max_seed_in_ring_honest <= rec.max_ring_size
    BY <2>2, <2>6 DEF SeedsCounted
  <2>9. rec.seeded_honest = (rec.max_seed_in_ring_honest > 0)
    <3>1. CASE rec.max_seed_in_ring_honest > 0
      BY <2>7, <2>8, <3>1
    <3>2. CASE ~(rec.max_seed_in_ring_honest > 0)
      BY <2>7, <2>8, <3>2
    <3> QED
      BY <3>1, <3>2
  <2>10. rec.built_honest = (<<r, "built">> \in reached)
    <3>1. CASE <<r, "built">> \in reached
      BY <2>4, <2>6, <2>7, <3>1
    <3>2. CASE ~(<<r, "built">> \in reached)
      BY <2>4, <2>6, <2>7, <3>2
    <3> QED
      BY <3>1, <3>2
  <2> QED
    BY <2>1, <2>3, <2>5, <2>6, <2>8, <2>9, <2>10, Zenon
<1>6. \A r \in Rings : <<r, "ranked">> \in reached => <<r, "built">> \in reached
  BY <1>1 DEF FunnelInv, StagesAreRecords
<1>7. R \cap {r \in Rings : <<r, "ranked">> \in reached} = {}
  <2>1. ASSUME NEW r \in R, <<r, "ranked">> \in reached PROVE FALSE
    <3>1. r \in Recorded /\ ~per_ring[r].built_honest
      BY DEF R
    <3>2. per_ring[r].built_honest
      BY <1>5, <1>6, <2>1, <3>1, Zenon
    <3> QED
      BY <3>1, <3>2
  <2> QED
    BY <2>1
<1>8. C \subseteq {r \in Rings : <<r, "built">> \in reached}
  <2>1. ASSUME NEW r \in C PROVE r \in Rings /\ <<r, "built">> \in reached
    <3>1. r \in Recorded /\ per_ring[r].built_honest
      BY DEF C
    <3> QED
      BY <1>5, <3>1, Zenon
  <2> QED
    BY <2>1
<1> QED
  BY <1>3, <1>4, <1>5, <1>7, <1>8, Zenon DEF DiffMatchesTheFunnel

LEMMA LinkingIsFair ==
  ASSUME EvaluationInv PROVE LinkingOnlyAdds
<1>1. ShippedArm /\ RandomIsSmaller /\ \A arm \in ARMS : KeepsTheBuilt(arm) /\ CostsItsPlaces(arm)
  BY DEF EvaluationInv, LinkInv
<1>2. /\ linking["shipped"].reached = reached
      /\ \A k \in Ks : /\ linking["shipped"].hit[k] = phase2.hit[k]
                       /\ linking["shipped"].tot[k] = phase2.tot[k]
      /\ linking["link_random"].added <= linking["link"].added
  BY <1>1 DEF ShippedArm, RandomIsSmaller
<1>3. ASSUME NEW arm \in ARMS
      PROVE  /\ {x \in reached : x[2] # "ranked"} \subseteq linking[arm].reached
             /\ \A k \in Ks :
                  /\ phase2.tot[k] <= linking[arm].tot[k]
                  /\ linking[arm].tot[k] <= phase2.tot[k] + linking[arm].added
                  /\ phase2.hit[k] <= linking[arm].hit[k] + linking[arm].added
  BY <1>1 DEF KeepsTheBuilt, Unranked, CostsItsPlaces
<1> QED
  BY <1>2, <1>3 DEF LinkingOnlyAdds

LEMMA ArmsAreFair ==
  ASSUME EvaluationInv PROVE SeedArmsArePaired
<1>1. ArmsTyped /\ PassIsTheFunnel /\ CeilingIs /\ FunnelInv
  BY DEF EvaluationInv, ArmsInv
<1>2. \A arm \in SEED_ARMS : WithinCeiling(arm) /\ RowsMatch(RowsOf("passthrough"), RowsOf(arm))
  BY DEF EvaluationInv, ArmsInv
<1>3. "passthrough" \in SEED_ARMS
  BY DEF SEED_ARMS
<1>4. PICK rows : rows = seed_arms["passthrough"].rows
  OBVIOUS
<1>5. rows \in Seq(SeedRow)
  <2>1. seed_arms["passthrough"] \in ArmRecord
    BY <1>1, <1>3 DEF ArmsTyped
  <2> QED
    BY <1>4, <2>1 DEF ArmRecord
<1>6. /\ seed_arms["passthrough"].reached = reached /\ Len(rows) = Len(records)
      /\ \A i \in DOMAIN records : rows[i].hit = records[i].hit
  BY <1>1, <1>4 DEF PassIsTheFunnel, RowsOf
<1>7. DOMAIN rows = DOMAIN records
  <2>1. records \in Seq(RecordType)
    BY <1>1 DEF FunnelInv, FunnelTyped
  <2>2. DOMAIN rows = 1..Len(rows) /\ DOMAIN records = 1..Len(records)
    BY <1>5, <2>1, OwnSequence
  <2> QED
    BY <1>6, <2>2
<1>8. ASSUME NEW k \in Ks PROVE Tally([i \in DOMAIN rows |-> rows[i].hit[k]]) = phase2.hit[k]
  <2>1. [i \in DOMAIN rows |-> rows[i].hit[k]] = [i \in DOMAIN records |-> records[i].hit[k]]
    BY <1>6, <1>7
  <2>2. HitOf(records, k) = phase2.hit[k]
    BY <1>1 DEF FunnelInv, CountsAreRecords
  <2> QED
    BY <2>1, <2>2 DEF HitOf
<1>9. ceiling.reachable = phase2.seen
  BY <1>1 DEF CeilingIs
<1>10. SeedsOf("passthrough") \in SUBSET ceiling.passthrough
  BY <1>1 DEF CeilingIs
<1>11. SeedsOf("passthrough") \cap unseeded = {}
  BY <1>10 DEF unseeded
<1>12. ASSUME NEW arm \in SEED_ARMS
       PROVE  /\ SeedsOf(arm) \cap unseeded \subseteq addressable
              /\ SeedsOf("passthrough") \subseteq SeedsOf(arm)
  BY <1>2 DEF WithinCeiling, unseeded, addressable
<1>13. ASSUME NEW arm \in SEED_ARMS, Paired(arm, "passthrough"), NEW i \in DOMAIN rows
       PROVE  seed_arms[arm].rows[i].t = rows[i].t
  <2>1. RowsMatch(rows, seed_arms[arm].rows)
    BY <1>2, <1>4 DEF RowsOf
  <2>2. Len(rows) = Len(seed_arms[arm].rows)
    BY <1>4, <1>13 DEF Paired
  <2> QED
    BY <2>1, <2>2 DEF RowsMatch
<1> QED
  BY <1>4, <1>6, <1>8, <1>9, <1>11, <1>12, <1>13 DEF SeedArmsArePaired, SeedsOf

-----------------------------------------------------------------------------
(* Recall by owning cycles and by fractions.                               *)

LEMMA SeenInIs ==
  ASSUME FunnelInv, NEW r \in UnionSeen
  PROVE  /\ SeenIn(r) \in SUBSET DOMAIN records /\ IsFiniteSet(SeenIn(r))
         /\ Cardinality(SeenIn(r)) \in 1..MaxCycles
         /\ Min(SeenIn(r)) \in DOMAIN records /\ r \in records[Min(SeenIn(r))].seen
<1>1. records \in Seq(RecordType) /\ Len(records) <= cycles /\ cycles \in 0..MaxCycles
  BY DEF FunnelInv, FunnelTyped
<1>2. PICK n \in Nat : n = Len(records)
  BY <1>1
<1>3. DOMAIN records = 1..n
  BY <1>1, <1>2
<1>4. PICK I : I = DOMAIN records
  OBVIOUS
<1>5. IsFiniteSet(I) /\ Cardinality(I) = n /\ I \subseteq Int
  BY <1>3, <1>4, UpTo
<1>6. PICK S : S = SeenIn(r)
  OBVIOUS
<1>7. S = {i \in I : r \in records[i].seen}
  BY <1>4, <1>6 DEF SeenIn
<1>8. S \in SUBSET I
  BY <1>7
<1>9. IsFiniteSet(S) /\ Cardinality(S) \in Nat /\ Cardinality(S) <= n
  BY <1>5, <1>8, FewerThan
<1>10. S # {}
  <2>1. PICK i \in I : r \in records[i].seen
    BY <1>4 DEF UnionSeen
  <2> QED
    BY <1>7, <2>1
<1>11. Cardinality(S) # 0
  BY <1>9, <1>10, FS_EmptySet
<1>12. S \subseteq Int
  BY <1>5, <1>8
<1>13. Min(S) \in S
  BY <1>9, <1>10, <1>12, Extremes
<1>14. Cardinality(S) \in 1..MaxCycles
  <2>1. n <= MaxCycles /\ MaxCycles \in Nat
    BY <1>1, <1>2, EvaluationConstants
  <2> QED
    BY <1>9, <1>11, <2>1
<1> QED
  BY <1>4, <1>6, <1>7, <1>8, <1>9, <1>13, <1>14

LEMMA OwnedAre ==
  ASSUME FunnelInv
  PROVE  /\ IsFiniteSet(DOMAIN records)
         /\ \A i \in DOMAIN records : Owned(i) \in SUBSET Rings
         /\ \A i, j \in DOMAIN records : i # j => Owned(i) \cap Owned(j) = {}
         /\ \A r : r \in UnionSeen <=> \E i \in DOMAIN records : r \in Owned(i)
<1>1. records \in Seq(RecordType)
  BY DEF FunnelInv, FunnelTyped
<1>2. IsFiniteSet(DOMAIN records)
  <2>1. PICK n \in Nat : n = Len(records)
    BY <1>1
  <2>2. DOMAIN records = 1..n
    BY <1>1, <2>1
  <2> QED
    BY <2>2, UpTo
<1>3. \A i \in DOMAIN records : records[i].seen \in SUBSET Rings
  BY UnionsAre
<1>4. \A i \in DOMAIN records : Owned(i) \in SUBSET Rings
  BY <1>3 DEF Owned
<1>5. \A i, j \in DOMAIN records : i # j => Owned(i) \cap Owned(j) = {}
  BY DEF Owned
<1>6. ASSUME NEW r \in UnionSeen PROVE \E i \in DOMAIN records : r \in Owned(i)
  <2>1. Min(SeenIn(r)) \in DOMAIN records /\ r \in records[Min(SeenIn(r))].seen
    BY <1>6, SeenInIs
  <2>2. r \in Owned(Min(SeenIn(r)))
    BY <2>1 DEF Owned
  <2> QED
    BY <2>1, <2>2
<1>7. ASSUME NEW r, NEW i \in DOMAIN records, r \in Owned(i) PROVE r \in UnionSeen
  BY <1>7 DEF Owned, UnionSeen
<1> QED
  BY <1>2, <1>4, <1>5, <1>6, <1>7

\* Each ring of a set has one owner.
LEMMA OwnersCount ==
  ASSUME FunnelInv, NEW A, A \in SUBSET UnionSeen
  PROVE  Tally([i \in DOMAIN records |-> Cardinality(Owned(i) \cap A)]) = Cardinality(A)
<1>1. /\ IsFiniteSet(DOMAIN records)
      /\ \A i \in DOMAIN records : Owned(i) \in SUBSET Rings
      /\ \A i, j \in DOMAIN records : i # j => Owned(i) \cap Owned(j) = {}
      /\ \A r : r \in UnionSeen <=> \E i \in DOMAIN records : r \in Owned(i)
  BY OwnedAre
<1>2. PICK I, S : I = DOMAIN records /\ S = [i \in DOMAIN records |-> Owned(i) \cap A]
  OBVIOUS
<1>3. \A i \in I : S[i] = Owned(i) \cap A
  BY <1>2
<1>4. ASSUME NEW i \in I PROVE IsFiniteSet(S[i])
  <2>1. S[i] \in SUBSET Rings
    BY <1>1, <1>2, <1>3
  <2> QED
    BY <2>1, EvaluationConstants, FewerThan
<1>5. \A i, j \in I : i # j => S[i] \cap S[j] = {}
  BY <1>1, <1>2, <1>3
<1>6. IsFiniteSet(I)
  BY <1>1, <1>2
<1>7. Tally([i \in I |-> Cardinality(S[i])]) = Cardinality(UNION {S[i] : i \in I})
  BY <1>4, <1>5, <1>6, TallyOfSizes
<1>8. UNION {S[i] : i \in I} = A
  <2>1. ASSUME NEW r \in A PROVE r \in UNION {S[i] : i \in I}
    <3>1. PICK i \in I : r \in Owned(i)
      BY <1>1, <1>2
    <3>2. r \in S[i]
      BY <1>3, <3>1
    <3> QED
      BY <3>2
  <2>2. ASSUME NEW r \in UNION {S[i] : i \in I} PROVE r \in A
    BY <1>3
  <2> QED
    BY <2>1, <2>2
<1>9. [i \in I |-> Cardinality(S[i])] = [i \in DOMAIN records |-> Cardinality(Owned(i) \cap A)]
  BY <1>2, <1>3
<1>10. PICK a, b : /\ a = [i \in I |-> Cardinality(S[i])]
                   /\ b = [i \in DOMAIN records |-> Cardinality(Owned(i) \cap A)]
  OBVIOUS
<1>11. Tally(a) = Cardinality(A) /\ a = b
  BY <1>7, <1>8, <1>9, <1>10
<1> QED
  BY <1>10, <1>11

\* Each ring of a set hands in as many equal shares as there are cycles that
\* see it.
LEMMA SharesCount ==
  ASSUME FunnelInv, NEW A, A \in SUBSET UnionSeen, NEW among, among \cap UnionSeen = A
  PROVE  Tally([i \in DOMAIN records |-> Share(i, among)]) = Whole * Cardinality(A)
<1>1. IsFiniteSet(DOMAIN records) /\ UnionSeen \in SUBSET Rings
  BY OwnedAre, UnionsAre
<1>2. IsFiniteSet(A)
  BY <1>1, EvaluationConstants, FewerThan
<1>3. PICK I, S, share : /\ I = DOMAIN records
                         /\ S = [i \in DOMAIN records |-> records[i].seen]
                         /\ share = [x \in A |-> Whole \div Cardinality(SeenIn(x))]
  OBVIOUS
<1>4. \A i \in I : S[i] = records[i].seen
  BY <1>3
<1>5. Whole \in Nat /\ \A m \in 1..MaxCycles : Whole % m = 0
  BY EvaluationAssumption
<1>6. ASSUME NEW x \in A
      PROVE  share[x] \in Int /\ Cardinality({i \in I : x \in S[i]}) * share[x] = Whole
  <2>1. Cardinality(SeenIn(x)) \in 1..MaxCycles
    BY SeenInIs
  <2>2. PICK m : m = Cardinality(SeenIn(x))
    OBVIOUS
  <2>3. m \in Nat \ {0} /\ m \in 1..MaxCycles
    BY <2>1, <2>2, EvaluationConstants
  <2>4. Whole % m = 0
    BY <1>5, <2>3
  <2>5. Whole \div m \in Nat /\ Whole = m * (Whole \div m) + (Whole % m)
    BY <1>5, <2>3, QuotientIs
  <2>6. PICK d \in Nat : d = Whole \div m
    BY <2>5
  <2>10. PICK w \in Int : w = m * d
    BY <2>3, <2>6
  <2>7. Whole = w + 0
    BY <2>4, <2>5, <2>6, <2>10
  <2>8. share[x] = d
    BY <1>3, <2>2, <2>6
  <2>9. {i \in I : x \in S[i]} = SeenIn(x)
    BY <1>3, <1>4 DEF SeenIn
  <2>11. m * d = Whole
    BY <2>7, <2>10
  <2>12. Cardinality({i \in I : x \in S[i]}) = m
    BY <2>2, <2>9, Zenon
  <2>13. Cardinality({i \in I : x \in S[i]}) * share[x] = Whole
    BY <2>8, <2>11, <2>12, Zenon
  <2> QED
    BY <2>6, <2>8, <2>13
<1>7. Tally([i \in I |-> Tally([x \in S[i] \cap A |-> share[x]])]) = Whole * Cardinality(A)
  <2>1. IsFiniteSet(I) /\ Whole \in Int
    BY <1>1, <1>3, <1>5
  <2>2. \A x \in A : /\ share[x] \in Int
                     /\ Cardinality({i \in I : x \in S[i]}) * share[x] = Whole
    BY <1>6
  <2>4. Divided(I, A, S, share, Whole)
    BY <1>2, <2>1, <2>2, Zenon DEF Divided
  <2> QED
    BY <2>4, SharesAddUp DEF HandedIn
<1>8. ASSUME NEW i \in I PROVE Share(i, among) = Tally([x \in S[i] \cap A |-> share[x]])
  <2>1. records[i].seen \cap among = S[i] \cap A
    <3>1. records[i].seen \subseteq UnionSeen
      BY <1>3 DEF UnionSeen
    <3> QED
      BY <1>4, <3>1
  <2>2. [r \in records[i].seen \cap among |-> Whole \div Cardinality(SeenIn(r))]
          = [x \in S[i] \cap A |-> share[x]]
    BY <1>3, <2>1
  <2> QED
    BY <2>2 DEF Share
<1>9. PICK a, b : /\ a = [i \in I |-> Tally([x \in S[i] \cap A |-> share[x]])]
                  /\ b = [i \in DOMAIN records |-> Share(i, among)]
  OBVIOUS
<1>10. a = b
  BY <1>3, <1>8, <1>9
<1> QED
  BY <1>7, <1>9, <1>10

LEMMA OwnersPartition ==
  ASSUME EvaluationInv PROVE OwnersPartitionTheRings
<1>1. FunnelInv
  BY DEF EvaluationInv
<1>2. /\ UnionSeen \in SUBSET Rings
      /\ \A k \in Ks : UnionFound(k) \in SUBSET UnionSeen
      /\ \A i \in DOMAIN records : \A k \in Ks : records[i].found[k] \in SUBSET records[i].seen
  BY <1>1, UnionsAre
<1>3. Tally([i \in DOMAIN records |-> Cardinality(Owned(i))]) = Cardinality(UnionSeen)
  <2>1. \A i \in DOMAIN records : Owned(i) \cap UnionSeen = Owned(i)
    BY DEF Owned, UnionSeen
  <2>2. PICK a, b : /\ a = [i \in DOMAIN records |-> Cardinality(Owned(i) \cap UnionSeen)]
                    /\ b = [i \in DOMAIN records |-> Cardinality(Owned(i))]
    OBVIOUS
  <2>3. a = b
    BY <2>1, <2>2
  <2>4. Tally(a) = Cardinality(UnionSeen)
    BY <1>1, <2>2, OwnersCount
  <2> QED
    BY <2>2, <2>3, <2>4
<1>4. Tally([i \in DOMAIN records |-> Share(i, Rings)]) = Whole * Cardinality(UnionSeen)
  <2>1. Rings \cap UnionSeen = UnionSeen
    BY <1>2
  <2> QED
    BY <1>1, <2>1, SharesCount
<1>5. ASSUME NEW k \in Ks
      PROVE  /\ Tally([i \in DOMAIN records |-> Cardinality(OwnedFound(i, k))]) = Cardinality(UnionFound(k))
             /\ Tally([i \in DOMAIN records |-> Share(i, UnionFound(k))]) = Whole * Cardinality(UnionFound(k))
  <2>1. UnionFound(k) \in SUBSET UnionSeen
    BY <1>2
  <2>2. UnionFound(k) \cap UnionSeen = UnionFound(k)
    BY <2>1
  <2>3. Tally([i \in DOMAIN records |-> Cardinality(Owned(i) \cap UnionFound(k))]) = Cardinality(UnionFound(k))
    BY <1>1, <2>1, OwnersCount
  <2>4. Tally([i \in DOMAIN records |-> Share(i, UnionFound(k))]) = Whole * Cardinality(UnionFound(k))
    BY <1>1, <2>1, <2>2, SharesCount
  <2> QED
    BY <2>3, <2>4 DEF OwnedFound
<1> QED
  BY <1>2, <1>3, <1>4, <1>5 DEF OwnersPartitionTheRings

-----------------------------------------------------------------------------
(* The split of the pool, its groups and its rows.                         *)

\* The split of the pool.
LEMMA CutIs ==
  ASSUME NEW n \in Nat, NEW least \in Nat, least <= n
  PROVE  Cut(n, least) \in least..n
<1>1. SplitDenominator \in Nat \ {0} /\ SplitNumerator \in 0..SplitDenominator
  BY EvaluationAssumption
<1>2. PICK num, den : num = SplitNumerator /\ den = SplitDenominator
  OBVIOUS
<1>3. den \in Nat \ {0} /\ num \in Nat /\ num <= den
  BY <1>1, <1>2
<1>4. PICK p \in Nat : p = n * num
  BY <1>3
<1>5. n * num <= n * den /\ n * den \in Nat
  <2>1. num * n <= den * n
    <3>1. CASE num = den
      <4>1. num * n = den * n /\ den * n \in Nat
        BY <1>3, <3>1
      <4> QED
        BY <4>1
    <3>2. CASE num < den
      BY <1>3, <3>2, StrictProduct
    <3> QED
      BY <1>3, <3>1, <3>2
  <2> QED
    BY <1>3, <2>1
<1>6. PICK q : q = p \div den
  OBVIOUS
<1>7. q \in Nat /\ p % den \in 0..(den - 1) /\ p = den * q + (p % den)
  BY <1>3, <1>4, <1>6, QuotientIs
<1>8. q <= n
  <2>1. SUFFICES ASSUME n < q PROVE FALSE
    BY <1>7
  <2>2. n * den < q * den
    BY <1>3, <1>7, <2>1, StrictProduct
  <2>3. PICK a \in Int : a = n * den
    BY <1>5
  <2>4. PICK b \in Int : b = q * den
    BY <1>3, <1>7
  <2>5. den * q = b
    BY <1>3, <1>7, <2>4
  <2>6. a < b /\ p <= a
    BY <1>4, <1>5, <2>2, <2>3, <2>4
  <2>7. p = b + (p % den)
    BY <1>7, <2>5
  <2>8. PICK rest \in Nat : rest = p % den
    BY <1>3, <1>7
  <2> QED
    BY <2>6, <2>7, <2>8
<1>9. Cut(n, least) = Max({least, q})
  BY <1>2, <1>4, <1>6 DEF Cut
<1>10. Max({least, q}) \in {least, q} /\ Max({least, q}) >= least
  <2>1. least \in Int /\ q \in Int
    BY <1>7
  <2> QED
    BY <2>1, GreaterIs
<1>11. PICK m : m = Max({least, q})
  OBVIOUS
<1>12. q \in Nat
  BY <1>7
<1>13. m \in {least, q} /\ m >= least
  BY <1>10, <1>11
<1>14. m \in least..n
  BY <1>8, <1>12, <1>13
<1> QED
  BY <1>9, <1>11, <1>14

LEMMA SplitPoint ==
  ASSUME PoolInv, first_t # <<>>
  PROVE  /\ RingCut \in DOMAIN first_t /\ split_t = first_t[RingCut].t /\ split_t \in Nat
         /\ train_rings \in SUBSET Rings /\ test_rings \in SUBSET Rings
         /\ \A j \in DOMAIN first_t :
              /\ j <= RingCut => first_t[j].ring \in train_rings
              /\ j > RingCut => first_t[j].t >= split_t
              /\ first_t[j].ring \in train_rings \cup test_rings
         /\ train_rings \cap test_rings = {}
<1>1. /\ first_t \in Seq(FirstRecord)
      /\ \A i, j \in DOMAIN first_t : i <= j => first_t[i].t <= first_t[j].t
  BY DEF PoolInv, PoolTyped
<1>2. PICK n \in Nat : n = Len(first_t)
  BY <1>1
<1>3. DOMAIN first_t = 1..n /\ n >= 1
  BY <1>1, <1>2
<1>4. PICK cut : cut = RingCut
  OBVIOUS
<1>5. cut \in 1..n
  <2>1. 1 \in Nat /\ 1 <= n
    BY <1>3
  <2>2. Cut(n, 1) \in 1..n
    BY <2>1, CutIs
  <2> QED
    BY <1>2, <1>4, <2>2 DEF RingCut
<1>6. Min({cut, n}) = cut
  <2>1. cut \in Int /\ n \in Int
    BY <1>5
  <2>2. Min({cut, n}) \in {cut, n} /\ Min({cut, n}) <= cut
    BY <2>1, LesserIs
  <2> QED
    BY <1>5, <2>2
<1>7. split_t = first_t[cut].t
  BY <1>2, <1>4, <1>6 DEF split_t
<1>8. \A j \in 1..n : first_t[j] \in FirstRecord
  BY <1>1, <1>3
<1>9. \A j \in 1..n : first_t[j].ring \in Rings /\ first_t[j].t \in Nat
  BY <1>8 DEF FirstRecord
<1>10. train_rings = {first_t[i].ring : i \in 1..cut}
  BY <1>4 DEF train_rings
<1>11. \A i \in 1..cut : i \in 1..n
  BY <1>5
<1>12. train_rings \in SUBSET Rings
  BY <1>9, <1>10, <1>11
<1>13. RingIds(first_t) \in SUBSET Rings /\ \A j \in 1..n : first_t[j].ring \in RingIds(first_t)
  <2>1. \A x \in ToSet(first_t) : \E j \in 1..n : x = first_t[j]
    BY <1>1, <1>3, OwnSequence
  <2>2. \A j \in 1..n : first_t[j] \in ToSet(first_t)
    BY <1>1, <1>3, OwnSequence
  <2>3. \A x \in ToSet(first_t) : x.ring \in Rings
    BY <1>9, <2>1
  <2> QED
    BY <2>2, <2>3 DEF RingIds
<1>14. test_rings = RingIds(first_t) \ train_rings
  BY DEF test_rings
<1>15. ASSUME NEW j \in 1..n
       PROVE  /\ j <= cut => first_t[j].ring \in train_rings
              /\ j > cut => first_t[j].t >= split_t
              /\ first_t[j].ring \in train_rings \cup test_rings
  <2>1. j <= cut => first_t[j].ring \in train_rings
    BY <1>5, <1>10
  <2>2. ASSUME j > cut PROVE first_t[j].t >= split_t
    <3>1. first_t[cut].t <= first_t[j].t
      BY <1>1, <1>3, <1>5, <2>2
    <3>2. first_t[cut].t \in Nat /\ first_t[j].t \in Nat
      BY <1>5, <1>9
    <3> QED
      BY <1>7, <3>1, <3>2
  <2> QED
    BY <1>13, <1>14, <2>1, <2>2
<1> QED
  BY <1>3, <1>4, <1>5, <1>7, <1>9, <1>12, <1>13, <1>14, <1>15

\* On which side a record of the pool is.
LEMMA SidesAre ==
  ASSUME PoolInv, first_t # <<>>, NEW i \in DOMAIN labelled, NEW rec, rec = labelled[i]
  PROVE  /\ rec.t \in Nat /\ Side(rec) \in {"train", "test", "stranded"}
         /\ Side(rec) = "train" <=> rec.t < split_t
         /\ Side(rec) = "train" /\ rec.ring # NoRing => rec.ring \in train_rings
         /\ Side(rec) = "test" /\ rec.ring # NoRing => rec.ring \in test_rings
<1>1. /\ split_t \in Nat /\ train_rings \in SUBSET Rings /\ test_rings \in SUBSET Rings
      /\ \A j \in DOMAIN first_t :
           /\ j <= RingCut => first_t[j].ring \in train_rings
           /\ j > RingCut => first_t[j].t >= split_t
           /\ first_t[j].ring \in train_rings \cup test_rings
      /\ train_rings \cap test_rings = {} /\ RingCut \in DOMAIN first_t
  BY SplitPoint
<1>2. rec \in LabelRecord
  <2>1. labelled \in Seq(LabelRecord)
    BY DEF PoolInv, PoolTyped
  <2> QED
    BY <2>1
<1>3. rec.t \in Nat
  BY <1>2 DEF LabelRecord
<1>4. NoRing \notin train_rings /\ NoRing \notin test_rings
  BY <1>1, EvaluationConstants
<1>5. CASE rec.ring = NoRing
  <2>1. Side(rec) = IF rec.t < split_t THEN "train" ELSE "test"
    BY <1>4, <1>5 DEF Side
  <2> QED
    BY <1>3, <1>5, <2>1
<1>6. CASE rec.ring \in train_rings
  <2>1. Side(rec) = IF rec.t < split_t THEN "train" ELSE "stranded"
    <3>1. rec.ring \in train_rings /\ rec.ring \notin test_rings /\ rec.ring # NoRing
      BY <1>1, <1>4, <1>6
    <3> QED
      BY <3>1 DEF Side
  <2> QED
    BY <1>3, <1>6, <2>1
<1>7. CASE rec.ring # NoRing /\ rec.ring \notin train_rings
  <2>1. Traced(rec)
    BY <1>7 DEF PoolInv, PoolTraced
  <2>2. PICK j \in DOMAIN first_t : first_t[j].ring = rec.ring /\ first_t[j].t <= rec.t
    BY <2>1 DEF Traced
  <2>3. first_t \in Seq(FirstRecord)
    BY DEF PoolInv, PoolTyped
  <2>4. j \in Nat /\ RingCut \in Nat
    <3>1. DOMAIN first_t = 1..Len(first_t)
      BY <2>3, OwnSequence
    <3> QED
      BY <1>1, <3>1
  <2>5. first_t[j].t >= split_t /\ rec.ring \in test_rings
    <3>1. rec.ring \in test_rings
      BY <1>1, <1>7, <2>2
    <3>2. ~(j <= RingCut)
      BY <1>1, <1>7, <2>2
    <3>3. j > RingCut
      BY <2>4, <3>2
    <3> QED
      BY <1>1, <3>1, <3>3
  <2>6. first_t[j].t \in Nat
    <3>1. first_t[j] \in FirstRecord
      BY <2>3
    <3> QED
      BY <3>1 DEF FirstRecord
  <2>7. ~(rec.t < split_t)
    BY <1>1, <1>3, <2>2, <2>5, <2>6
  <2>8. Side(rec) = "test"
    BY <1>7, <2>5 DEF Side
  <2> QED
    BY <1>3, <2>5, <2>7, <2>8
<1> QED
  BY <1>5, <1>6, <1>7

LEMMA PlacesAreFinite ==
  ASSUME PoolInv
  PROVE  /\ IsFiniteSet(DOMAIN labelled)
         /\ \A S \in SUBSET DOMAIN labelled :
              /\ IsFiniteSet(S) /\ Cardinality(S) \in Nat
              /\ Positives(S) \in SUBSET S /\ IsFiniteSet(Positives(S))
              /\ Cardinality(Positives(S)) \in Nat
              /\ Cardinality(Positives(S)) <= Cardinality(S)
              /\ Cardinality(Positives(S)) = 0 => Positives(S) = {}
              /\ Cardinality(Positives(S)) = Cardinality(S) => Positives(S) = S
<1>1. labelled \in Seq(LabelRecord)
  BY DEF PoolInv, PoolTyped
<1>2. IsFiniteSet(DOMAIN labelled)
  <2>1. PICK n \in Nat : n = Len(labelled)
    BY <1>1
  <2>2. DOMAIN labelled = 1..n
    BY <1>1, <2>1
  <2> QED
    BY <2>2, UpTo
<1>3. ASSUME NEW S, S \in SUBSET DOMAIN labelled
      PROVE  /\ IsFiniteSet(S) /\ Cardinality(S) \in Nat
             /\ Positives(S) \in SUBSET S /\ IsFiniteSet(Positives(S))
             /\ Cardinality(Positives(S)) \in Nat
             /\ Cardinality(Positives(S)) <= Cardinality(S)
             /\ Cardinality(Positives(S)) = 0 => Positives(S) = {}
             /\ Cardinality(Positives(S)) = Cardinality(S) => Positives(S) = S
  <2>1. IsFiniteSet(S) /\ Cardinality(S) \in Nat
    BY <1>2, <1>3, FewerThan
  <2>2. PICK P : P = Positives(S)
    OBVIOUS
  <2>3. P \in SUBSET S
    BY <2>2 DEF Positives
  <2>4. IsFiniteSet(P) /\ Cardinality(P) \in Nat /\ Cardinality(P) <= Cardinality(S)
    BY <2>1, <2>3, FewerThan
  <2>5. Cardinality(P) = 0 => P = {}
    BY <2>4, FS_EmptySet
  <2>6. Cardinality(P) = Cardinality(S) => P = S
    BY <2>1, <2>3, <2>4, FS_Subset
  <2> QED
    BY <2>1, <2>2, <2>3, <2>4, <2>5, <2>6
<1> QED
  BY <1>2, <1>3

\* The training cases of the reranker's split come before its cut.
LEMMA TrainingIsEarly ==
  ASSUME PoolInv, labelled # <<>>
  PROVE  /\ TimeTrain # DOMAIN labelled
         /\ Cardinality(TimeTrain) <= Cut(Len(labelled), 0)
<1>1. /\ labelled \in Seq(LabelRecord)
      /\ \A i, j \in DOMAIN labelled : i <= j => labelled[i].t <= labelled[j].t
  BY DEF PoolInv, PoolTyped
<1>2. PICK n \in Nat : n = Len(labelled)
  BY <1>1
<1>3. DOMAIN labelled = 1..n /\ n >= 1
  BY <1>1, <1>2
<1>4. PICK cut : cut = Cut(n, 0)
  OBVIOUS
<1>5. cut \in 0..n
  <2>1. 0 \in Nat /\ 0 <= n
    BY <1>2
  <2> QED
    BY <1>2, <1>4, <2>1, CutIs
<1>6. PICK j : j = Min({cut + 1, n})
  OBVIOUS
<1>7. j \in 1..n /\ j <= cut + 1
  <2>1. cut + 1 \in Int /\ n \in Int
    BY <1>5
  <2>2. PICK next : next = cut + 1
    OBVIOUS
  <2>3. j \in {next, n} /\ j <= next /\ j <= n
    BY <1>6, <2>1, <2>2, LesserIs
  <2> QED
    BY <1>3, <1>5, <2>2, <2>3
<1>8. TimeSplitAt = labelled[j].t
  BY <1>2, <1>4, <1>6 DEF TimeSplitAt
<1>9. TimeTrain = {i \in 1..n : labelled[i].t < labelled[j].t}
  BY <1>3, <1>8 DEF TimeTrain
<1>10. \A i \in 1..n : labelled[i].t \in Nat
  <2>1. \A i \in 1..n : labelled[i] \in LabelRecord
    BY <1>1, <1>3
  <2> QED
    BY <2>1 DEF LabelRecord
<1>11. j \notin TimeTrain
  BY <1>7, <1>9, <1>10
<1>12. ASSUME NEW i \in TimeTrain PROVE i \in 1..cut
  <2>1. i \in 1..n /\ labelled[i].t < labelled[j].t
    BY <1>9, <1>12
  <2>2. labelled[i].t \in Nat /\ labelled[j].t \in Nat
    BY <1>7, <1>10, <2>1
  <2>3. ~(j <= i)
    BY <1>1, <1>3, <1>7, <2>1, <2>2
  <2> QED
    BY <1>5, <1>7, <2>1, <2>3
<1>13. IsFiniteSet(1..cut) /\ Cardinality(1..cut) = cut
  BY <1>5, UpTo
<1>14. Cardinality(TimeTrain) <= cut
  <2>1. TimeTrain \in SUBSET (1..cut)
    BY <1>12
  <2> QED
    BY <1>13, <2>1, FewerThan
<1> QED
  BY <1>2, <1>3, <1>4, <1>7, <1>11, <1>14

\* A capped query group keeps every positive and, if it has both labels,
\* loses all its negatives only to as many positives as the cap.
LEMMA CapIsFair ==
  ASSUME PoolInv, NEW group, group \in SUBSET DOMAIN labelled,
         NEW p, p = Cardinality(Positives(group))
  PROVE  /\ p + KeptNegatives(group) <= Max({p, MaxQueryRows})
         /\ Informative(group) => (KeptNegatives(group) = 0) = (p >= MaxQueryRows)
<1>1. /\ IsFiniteSet(group) /\ Cardinality(group) \in Nat
      /\ p \in Nat /\ p <= Cardinality(group)
      /\ p = 0 => Positives(group) = {}
      /\ p = Cardinality(group) => Positives(group) = group
  BY PlacesAreFinite
<1>2. PICK size, cap : size = Cardinality(group) /\ cap = MaxQueryRows
  OBVIOUS
<1>3. size \in Nat /\ cap \in Nat /\ p \in Nat /\ p <= size
  BY <1>1, <1>2, EvaluationConstants
<1>4. PICK kept, room, n, top :
        /\ kept = KeptNegatives(group) /\ room = Max({cap - p, 0})
        /\ n = size - p /\ top = Max({p, cap})
  OBVIOUS
<1>5. n \in Nat /\ size = p + n
  BY <1>3, <1>4
<1>6. kept = IF p + n <= cap THEN n ELSE Min({n, room})
  BY <1>2, <1>4 DEF KeptNegatives
<1>7. room \in {cap - p, 0} /\ room >= cap - p /\ room >= 0
  <2>1. PICK d \in Int : d = cap - p
    BY <1>3
  <2>2. 0 \in Int /\ room = Max({d, 0})
    BY <1>4, <2>1
  <2>3. Max({d, 0}) \in {d, 0} /\ Max({d, 0}) >= d /\ Max({d, 0}) >= 0
    BY <2>1, <2>2, GreaterIs
  <2> QED
    BY <2>1, <2>2, <2>3
<1>8. top \in {p, cap} /\ top >= p /\ top >= cap
  <2>1. p \in Int /\ cap \in Int
    BY <1>3
  <2>2. Max({p, cap}) \in {p, cap} /\ Max({p, cap}) >= p /\ Max({p, cap}) >= cap
    BY <2>1, GreaterIs
  <2> QED
    BY <1>4, <2>2
<1>9. Min({n, room}) \in {n, room} /\ Min({n, room}) <= n /\ Min({n, room}) <= room
  <2>1. n \in Int /\ room \in Int
    BY <1>3, <1>5, <1>7
  <2> QED
    BY <2>1, LesserIs
<1>10. PICK least : least = Min({n, room})
  OBVIOUS
<1>11. kept = IF p + n <= cap THEN n ELSE least
  BY <1>6, <1>10
<1>12. least \in {n, room} /\ least <= n /\ least <= room
  BY <1>9, <1>10
<1>13. p + kept <= top
  BY <1>3, <1>5, <1>7, <1>8, <1>11, <1>12
<1>14. ASSUME Informative(group) PROVE (kept = 0) = (p >= cap)
  <2>1. p # 0 /\ p # size
    BY <1>1, <1>2, <1>14 DEF Informative
  <2>2. p > 0 /\ n > 0
    BY <1>3, <1>5, <2>1
  <2>3. CASE p + n <= cap
    BY <1>3, <1>5, <1>11, <2>2, <2>3
  <2>4. CASE p + n > cap
    <3>1. kept = least
      BY <1>3, <1>5, <1>11, <2>4
    <3>2. CASE p >= cap
      <4>1. room = 0
        BY <1>3, <1>7, <3>2
      <4>2. least = 0
        BY <1>5, <1>12, <2>2, <4>1
      <4> QED
        BY <3>1, <3>2, <4>2
    <3>3. CASE p < cap
      <4>1. room > 0
        BY <1>3, <1>7, <3>3
      <4>2. least # 0
        BY <1>5, <1>7, <1>12, <2>2, <4>1
      <4> QED
        BY <1>3, <3>1, <3>3, <4>2
    <3> QED
      BY <1>3, <3>2, <3>3
  <2> QED
    BY <1>3, <1>5, <2>3, <2>4
<1> QED
  BY <1>2, <1>4, <1>13, <1>14

LEMMA SplitClean ==
  ASSUME EvaluationInv PROVE SplitIsClean
<1> SUFFICES ASSUME first_t # <<>>
             PROVE  /\ OnSide("dropped") = {}
                    /\ RingsOf(OnSide("train")) \cap RingsOf(OnSide("test")) = {}
                    /\ \A i \in OnSide("train") : labelled[i].t < split_t
                    /\ \A i \in OnSide("test") \cup OnSide("stranded") : labelled[i].t >= split_t
                    /\ \A t \in 1..cycles :
                         LET group == InCycle(t) \cap OnSide("train")
                             p == Cardinality(Positives(group))
                         IN /\ group \in {{}, InCycle(t)}
                            /\ p + KeptNegatives(group) <= Max({p, MaxQueryRows})
                            /\ Informative(group) =>
                                 (KeptNegatives(group) = 0) = (p >= MaxQueryRows)
                    /\ labelled # <<>> => /\ TimeTrain # DOMAIN labelled
                                          /\ Cardinality(TimeTrain) <= Cut(Len(labelled), 0)
  BY DEF SplitIsClean
<1>1. PoolInv
  BY DEF EvaluationInv
<1>2. split_t \in Nat /\ train_rings \cap test_rings = {}
  BY <1>1, SplitPoint
<1>3. ASSUME NEW i \in DOMAIN labelled
      PROVE  /\ labelled[i].t \in Nat /\ Side(labelled[i]) \in {"train", "test", "stranded"}
             /\ Side(labelled[i]) = "train" <=> labelled[i].t < split_t
             /\ Side(labelled[i]) = "train" /\ labelled[i].ring # NoRing
                  => labelled[i].ring \in train_rings
             /\ Side(labelled[i]) = "test" /\ labelled[i].ring # NoRing
                  => labelled[i].ring \in test_rings
  <2>1. PICK rec : rec = labelled[i]
    OBVIOUS
  <2> QED
    BY <1>1, <2>1, SidesAre
<1>4. OnSide("dropped") = {}
  BY <1>3 DEF OnSide
<1>5. RingsOf(OnSide("train")) \cap RingsOf(OnSide("test")) = {}
  <2>1. \A r \in RingsOf(OnSide("train")) : r \in train_rings
    BY <1>3 DEF RingsOf, Positives, OnSide
  <2>2. \A r \in RingsOf(OnSide("test")) : r \in test_rings
    BY <1>3 DEF RingsOf, Positives, OnSide
  <2> QED
    BY <1>2, <2>1, <2>2
<1>6. \A i \in OnSide("train") : labelled[i].t < split_t
  BY <1>3 DEF OnSide
<1>7. ASSUME NEW i \in OnSide("test") \cup OnSide("stranded") PROVE labelled[i].t >= split_t
  <2>1. i \in DOMAIN labelled /\ Side(labelled[i]) # "train"
    BY <1>7 DEF OnSide
  <2>2. labelled[i].t \in Nat /\ ~(labelled[i].t < split_t)
    BY <1>3, <2>1
  <2> QED
    BY <1>2, <2>2
<1>8. ASSUME NEW t \in 1..cycles, NEW group, group = InCycle(t) \cap OnSide("train"),
             NEW p, p = Cardinality(Positives(group))
      PROVE  /\ group \in {{}, InCycle(t)}
             /\ p + KeptNegatives(group) <= Max({p, MaxQueryRows})
             /\ Informative(group) => (KeptNegatives(group) = 0) = (p >= MaxQueryRows)
  <2>1. group \in SUBSET DOMAIN labelled
    BY <1>8 DEF InCycle
  <2>2. p + KeptNegatives(group) <= Max({p, MaxQueryRows})
    BY <1>1, <1>8, <2>1, CapIsFair
  <2>3. Informative(group) => (KeptNegatives(group) = 0) = (p >= MaxQueryRows)
    BY <1>1, <1>8, <2>1, CapIsFair
  <2>4. CASE t < split_t
    <3>1. \A i \in InCycle(t) : i \in OnSide("train")
      BY <1>3, <2>4 DEF InCycle, OnSide
    <3>2. group = InCycle(t)
      BY <1>8, <3>1
    <3> QED
      BY <2>2, <2>3, <3>2
  <2>5. CASE ~(t < split_t)
    <3>1. \A i \in InCycle(t) : i \notin OnSide("train")
      BY <1>3, <2>5 DEF InCycle, OnSide
    <3>2. group = {}
      BY <1>8, <3>1
    <3> QED
      BY <2>2, <2>3, <3>2
  <2> QED
    BY <2>4, <2>5
<1>9. labelled # <<>> => /\ TimeTrain # DOMAIN labelled
                        /\ Cardinality(TimeTrain) <= Cut(Len(labelled), 0)
  BY <1>1, TrainingIsEarly
<1> QED
  BY <1>4, <1>5, <1>6, <1>7, <1>8, <1>9

\* The distinct rings of a set of records are no more than its positives.
LEMMA RingsOfAre ==
  ASSUME PoolInv, NEW S, S \in SUBSET DOMAIN labelled
  PROVE  /\ IsFiniteSet(RingsOf(S)) /\ Cardinality(RingsOf(S)) \in Nat
         /\ Cardinality(RingsOf(S)) <= Cardinality(Positives(S))
<1>1. IsFiniteSet(Positives(S))
  BY PlacesAreFinite
<1>2. PICK P : P = Positives(S)
  OBVIOUS
<1>3. PICK f : f = [i \in P |-> labelled[i].ring]
  OBVIOUS
<1>4. \A z \in RingsOf(S) : \E x \in P : f[x] = z
  BY <1>2, <1>3 DEF RingsOf
<1> QED
  BY <1>1, <1>2, <1>4, Onto

LEMMA TrialsAre ==
  ASSUME PoolInv, NEW k \in Ks, NEW S, S \in SUBSET DOMAIN labelled
  PROVE  /\ RingHits(k, S) <= CandidateHits(k, S)
         /\ RingHits(k, S) = Cardinality({x \in trials(k, S) : x.surfaced})
         /\ Cardinality(trials(k, S)) = Cardinality(RingsOf(S))
<1>1. TopOf(k, S) \in SUBSET S
  BY DEF TopOf
<1>2. PICK T : T = TopOf(k, S)
  OBVIOUS
<1>3. T \in SUBSET S /\ T \in SUBSET DOMAIN labelled
  BY <1>1, <1>2
<1>4. PICK all, some : all = RingsOf(S) /\ some = RingsOf(T)
  OBVIOUS
<1>5. IsFiniteSet(all) /\ IsFiniteSet(some) /\ Cardinality(some) <= Cardinality(Positives(T))
  BY <1>3, <1>4, RingsOfAre
<1>6. some \in SUBSET all
  BY <1>3, <1>4 DEF RingsOf, Positives
<1>7. PICK tried : tried = trials(k, S)
  OBVIOUS
<1>8. tried = {[ring |-> r, surfaced |-> r \in some] : r \in all}
  BY <1>2, <1>4, <1>7 DEF trials
<1>9. PICK f : f = [r \in all |-> [ring |-> r, surfaced |-> r \in some]]
  OBVIOUS
<1>10. f \in [all -> tried] /\ \A r \in all : f[r].ring = r /\ f[r].surfaced = (r \in some)
  BY <1>8, <1>9
<1>11. \A x \in tried : \E r \in all : f[r] = x
  BY <1>8, <1>9
<1>12. \A q, r \in all : f[q] = f[r] => q = r
  BY <1>10
<1>13. Cardinality(tried) = Cardinality(all)
  BY <1>5, <1>10, <1>11, <1>12, SameSize
<1>14. PICK surfaced : surfaced = {x \in tried : x.surfaced}
  OBVIOUS
<1>15. PICK h : h = [r \in some |-> f[r]]
  OBVIOUS
<1>16. \A r \in some : r \in all /\ h[r] = f[r] /\ f[r] \in surfaced
  BY <1>6, <1>10, <1>14, <1>15
<1>17. Cardinality(surfaced) = Cardinality(some)
  <2>1. h \in [some -> surfaced]
    BY <1>15, <1>16
  <2>2. \A q, r \in some : h[q] = h[r] => q = r
    BY <1>12, <1>16
  <2>3. \A x \in surfaced : \E r \in some : h[r] = x
    <3> SUFFICES ASSUME NEW x \in surfaced PROVE \E r \in some : h[r] = x
      OBVIOUS
    <3>1. x \in tried /\ x.surfaced
      BY <1>14
    <3>2. PICK r \in all : f[r] = x
      BY <1>11, <3>1
    <3>3. r \in some
      BY <1>10, <3>1, <3>2
    <3> QED
      BY <1>16, <3>2, <3>3
  <2> QED
    BY <1>5, <2>1, <2>2, <2>3, SameSize
<1>18. RingHits(k, S) = Cardinality(some) /\ CandidateHits(k, S) = Cardinality(Positives(T))
  BY <1>2, <1>4 DEF RingHits, CandidateHits
<1> QED
  BY <1>4, <1>5, <1>7, <1>13, <1>14, <1>17, <1>18

LEMMA RingsOnce ==
  ASSUME EvaluationInv PROVE RingsAreCountedOnce
<1>1. PoolInv
  BY DEF EvaluationInv
<1>2. ASSUME NEW t \in 1..cycles, NEW k \in Ks, NEW S, S = InCycle(t) \cap OnSide("test")
      PROVE  /\ RingHits(k, S) <= CandidateHits(k, S)
             /\ RingHits(k, S) = Cardinality({x \in trials(k, S) : x.surfaced})
             /\ Cardinality(trials(k, S)) = Cardinality(RingsOf(S))
  <2>1. S \in SUBSET DOMAIN labelled
    BY <1>2 DEF InCycle
  <2> QED
    BY <1>1, <2>1, TrialsAre
<1> QED
  BY <1>2 DEF RingsAreCountedOnce

\* The programs of the harness count one replay alike, for any rings, traffic,
\* queues, seed rules, merges and depths: the funnel, the headline, its
\* threshold band, the gate, the pool and the trials of seed rules, links and
\* seed arms agree on every ring and hit, and what is computed from them - the
\* recalls per owning cycle, the split, its query groups and the per-ring rows
\* - double-counts, leaks and drops no ring.
THEOREM TheHarnessAgrees == EvaluationSpec => []EvaluationsAgree
<1>1. EvaluationInit => EvaluationInv
  BY EvaluationStarts
<1>2. EvaluationInv /\ [EvaluationNext]_evaluationVars => EvaluationInv'
  BY EvaluationMoves
<1>3. EvaluationInv => EvaluationsAgree
  <2> SUFFICES ASSUME EvaluationInv PROVE EvaluationsAgree
    OBVIOUS
  <2>1. EvaluationTypeOK /\ CountsAgree
    BY EvaluationTypes, CountsDoAgree
  <2>2. BandIsAroundTheHeadline /\ DiffMatchesTheFunnel
    BY BandIsRight, DiffIsRight
  <2>3. LinkingOnlyAdds /\ SeedArmsArePaired
    BY LinkingIsFair, ArmsAreFair
  <2>4. OwnersPartitionTheRings /\ SplitIsClean /\ RingsAreCountedOnce
    BY OwnersPartition, SplitClean, RingsOnce
  <2> QED
    BY <2>1, <2>2, <2>3, <2>4 DEF EvaluationsAgree
<1> QED
  BY <1>1, <1>2, <1>3, PTL DEF EvaluationSpec
=============================================================================
