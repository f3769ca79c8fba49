------------------------ MODULE WindowedGraphProofs ------------------------
(* Proofs about the windowed graph, and about what the detector reads off  *)
(* it, for every stream, window and tick.                                  *)
EXTENDS Shapes, FiniteSetTheorems, TLAPS

-----------------------------------------------------------------------------
(* Finite sets and sums over them.                                         *)

\* Induction over the subsets of a finite set, by a smallest counterexample.
LEMMA SmallerFirst ==
  ASSUME NEW S, IsFiniteSet(S), NEW Good,
         \A T \in SUBSET S : (\A U \in SUBSET T : U # T => U \in Good) => T \in Good
  PROVE  SUBSET S \subseteq Good
<1> SUFFICES ASSUME ~(SUBSET S \subseteq Good)
             PROVE  FALSE
  OBVIOUS
<1>1. PICK Bad : Bad = (SUBSET S) \ Good
  OBVIOUS
<1>2. Bad \subseteq FiniteSubsetsOf(S) /\ Bad # {}
  BY <1>1, FS_FiniteSubsetsOfFinite
<1>3. IsWellFoundedOn(StrictSubsetOrdering(S), FiniteSubsetsOf(S))
  BY FS_StrictSubsetOrderingWellFounded
<1>4. PICK T \in Bad : \A U \in Bad : ~(<<U, T>> \in StrictSubsetOrdering(S))
  BY <1>2, <1>3, WFMin
<1>5. T \in SUBSET S /\ T \notin Good
  BY <1>1
<1>6. PICK U \in SUBSET T : U # T /\ U \notin Good
  BY <1>5
<1>7. U \in Bad /\ <<U, T>> \in StrictSubsetOrdering(S)
  BY <1>1, <1>5, <1>6 DEF StrictSubsetOrdering
<1> QED
  BY <1>4, <1>7

LEMMA OneByOne ==
  ASSUME NEW S, IsFiniteSet(S), NEW Good, {} \in Good,
         \A T \in SUBSET S : \A x \in S \ T : T \in Good => T \cup {x} \in Good
  PROVE  S \in Good
<1>1. ASSUME NEW T \in SUBSET S, \A U \in SUBSET T : U # T => U \in Good
      PROVE  T \in Good
  <2>1. CASE T # {}
    <3>1. PICK x \in T : TRUE
      BY <2>1
    <3>2. T \ {x} \in Good
      BY <1>1, <3>1
    <3>3. T \ {x} \in SUBSET S /\ x \in S \ (T \ {x}) /\ (T \ {x}) \cup {x} = T
      BY <3>1
    <3>4. (T \ {x}) \cup {x} \in Good
      BY <3>2, <3>3
    <3> QED
      BY <3>3, <3>4
  <2> QED
    BY <2>1
<1>2. SUBSET S \subseteq Good
  BY <1>1, SmallerFirst
<1> QED
  BY <1>2

\* The element a fold takes next, and the function it defines by recursion.
Taken(s) == CHOOSE x \in s : TRUE

Folded(f, g, s) == IF s = {} THEN 0 ELSE f[Taken(s)] + g[s \ {Taken(s)}]
Folds(g, f, S) == g = [s \in SUBSET S |-> Folded(f, g, s)]

LEMMA TakenIsMember ==
  ASSUME NEW s, s # {} PROVE Taken(s) \in s
BY DEF Taken

LEMMA FoldExists ==
  ASSUME NEW f, NEW S, IsFiniteSet(S)
  PROVE  \E g : Folds(g, f, S)
<1> DEFINE Upto(g, n) == \A s \in SUBSET S :
                           Cardinality(s) <= n => g[s] = Folded(f, g, s)
           Good == {T \in SUBSET S : \E g : Upto(g, Cardinality(T))}
<1>1. \A T \in SUBSET S : IsFiniteSet(T) /\ Cardinality(T) \in Nat
  BY FS_Subset, FS_CardinalityType
<1>2. {} \in Good
  <2>1. PICK g : g = [s \in SUBSET S |-> 0]
    OBVIOUS
  <2>2. \A s \in SUBSET S : Cardinality(s) <= 0 => s = {}
    BY <1>1, FS_EmptySet
  <2>3. Upto(g, Cardinality({}))
    BY <2>1, <2>2, FS_EmptySet DEF Folded
  <2> QED
    BY <2>3
<1>3. ASSUME NEW T \in SUBSET S, NEW x \in S \ T, T \in Good
      PROVE  T \cup {x} \in Good
  <2>1. PICK n : n = Cardinality(T)
    OBVIOUS
  <2>2. n \in Nat /\ Cardinality(T \cup {x}) = n + 1 /\ T \cup {x} \in SUBSET S
    BY <1>1, <2>1, FS_AddElement
  <2>3. PICK g : Upto(g, n)
    BY <1>3, <2>1
  <2>4. PICK h : h = [s \in SUBSET S |-> Folded(f, g, s)]
    OBVIOUS
  <2>5. ASSUME NEW s \in SUBSET S, Cardinality(s) <= n + 1
        PROVE  h[s] = Folded(f, h, s)
    <3>1. CASE s # {}
      <4>1. PICK u : u = s \ {Taken(s)}
        OBVIOUS
      <4>2. u \in SUBSET S /\ Cardinality(u) <= n
        BY <1>1, <2>2, <2>5, <3>1, <4>1, TakenIsMember, FS_RemoveElement
      <4>3. h[u] = Folded(f, g, u) /\ g[u] = Folded(f, g, u)
        BY <2>3, <2>4, <4>2
      <4>4. h[s] = f[Taken(s)] + g[u]
        BY <2>4, <3>1, <4>1 DEF Folded
      <4>5. Folded(f, h, s) = f[Taken(s)] + h[u]
        BY <3>1, <4>1 DEF Folded
      <4> QED
        BY <4>3, <4>4, <4>5
    <3>2. CASE s = {}
      BY <2>4, <3>2 DEF Folded
    <3> QED
      BY <3>1, <3>2
  <2>6. Upto(h, Cardinality(T \cup {x}))
    BY <2>2, <2>5
  <2> QED
    BY <2>2, <2>6
<1>4. S \in Good
  <2> HIDE DEF Good
  <2> QED
    BY <1>2, <1>3, OneByOne
<1>5. PICK g : Upto(g, Cardinality(S))
  BY <1>4
<1>6. \A s \in SUBSET S : g[s] = Folded(f, g, s)
  BY <1>1, <1>5, FS_Subset
<1>7. PICK h : h = [s \in SUBSET S |-> g[s]]
  OBVIOUS
<1>8. ASSUME NEW s \in SUBSET S PROVE h[s] = Folded(f, h, s)
  <2>1. s \ {Taken(s)} \in SUBSET S
    OBVIOUS
  <2> QED
    BY <1>6, <1>7, <2>1 DEF Folded
<1>9. h = [s \in SUBSET S |-> Folded(f, h, s)]
  BY <1>7, <1>8
<1> QED
  BY <1>9 DEF Folds

\* What MapThenSumSet computes, and that it does not depend on the whole set.
LEMMA TotalIsFold ==
  ASSUME NEW f, NEW S, IsFiniteSet(S)
  PROVE  \E g : Folds(g, f, S) /\ \A T \in SUBSET S : Total(f, T) = g[T]
<1>1. PICK g : Folds(g, f, S)
  BY FoldExists
<1>2. ASSUME NEW T \in SUBSET S
      PROVE  Total(f, T) = g[T]
  <2>1. IsFiniteSet(T)
    BY FS_Subset
  <2>2. PICK h : h = CHOOSE k : Folds(k, f, T)
    OBVIOUS
  <2>3. Folds(h, f, T)
    BY <2>1, <2>2, FoldExists
  <2>4. Total(f, T) = h[T]
    <3>1. Total(f, T) = (CHOOSE k : Folds(k, f, T))[T]
      BY DEF Total, MapThenSumSet, MapThenFoldSet, Folds, Folded, Taken
    <3> QED
      BY <2>2, <3>1
  <2>5. PICK Good : Good = {U \in SUBSET T : h[U] = g[U]}
    OBVIOUS
  <2>6. ASSUME NEW U \in SUBSET T, \A V \in SUBSET U : V # U => V \in Good
        PROVE  U \in Good
    <3>1. h[U] = Folded(f, h, U) /\ g[U] = Folded(f, g, U)
      BY <1>1, <2>3 DEF Folds
    <3>2. CASE U # {}
      <4>1. U \ {Taken(U)} \in Good
        BY <2>6, <3>2, TakenIsMember
      <4> QED
        BY <2>5, <3>1, <3>2, <4>1 DEF Folded
    <3>3. CASE U = {}
      BY <2>5, <3>1, <3>3 DEF Folded
    <3> QED
      BY <3>2, <3>3
  <2>7. SUBSET T \subseteq Good
    BY <2>1, <2>6, SmallerFirst
  <2> QED
    BY <2>4, <2>5, <2>7
<1> QED
  BY <1>1, <1>2

\* The sum over a set is a number; nothing sums to 0; any member may be taken
\* out first.
LEMMA TotalTakesAny ==
  ASSUME NEW f, NEW S, IsFiniteSet(S), \A x \in S : f[x] \in Int
  PROVE  /\ Total(f, {}) = 0
         /\ Total(f, S) \in Int
         /\ \A x \in S : Total(f, S) = f[x] + Total(f, S \ {x})
<1>1. PICK g : Folds(g, f, S) /\ \A T \in SUBSET S : Total(f, T) = g[T]
  BY TotalIsFold
<1>2. \A T \in SUBSET S : g[T] = Folded(f, g, T)
  BY <1>1 DEF Folds
<1>3. PICK Good : Good = {T \in SUBSET S : /\ g[T] \in Int
                                           /\ \A x \in T : g[T] = f[x] + g[T \ {x}]}
  OBVIOUS
<1>4. ASSUME NEW T \in SUBSET S, \A U \in SUBSET T : U # T => U \in Good
      PROVE  T \in Good
  <2>1. CASE T = {}
    <3>1. g[T] = 0
      BY <1>2, <2>1 DEF Folded
    <3> QED
      BY <1>3, <2>1, <3>1
  <2>2. CASE T # {}
    <3>1. PICK y \in T : g[T] = f[y] + g[T \ {y}]
      BY <1>2, <2>2, TakenIsMember DEF Folded
    <3>2. g[T \ {y}] \in Int /\ f[y] \in Int
      BY <1>3, <1>4, <3>1
    <3>3. ASSUME NEW x \in T, x # y
          PROVE  g[T] = f[x] + g[T \ {x}]
      <4>1. PICK R : R = (T \ {x}) \ {y}
        OBVIOUS
      <4>2. R = (T \ {y}) \ {x}
        BY <4>1
      <4>3. /\ T \ {x} \in Good /\ T \ {y} \in Good /\ R \in Good
            /\ x \in T \ {y} /\ y \in T \ {x}
        BY <1>4, <3>1, <3>3, <4>1
      <4>4. g[T \ {y}] = f[x] + g[R] /\ g[T \ {x}] = f[y] + g[R]
        BY <1>3, <4>1, <4>2, <4>3
      <4>5. g[R] \in Int /\ f[x] \in Int
        BY <1>3, <4>3
      <4> QED
        BY <3>1, <3>2, <4>4, <4>5
    <3>4. \A x \in T : g[T] = f[x] + g[T \ {x}]
      BY <3>1, <3>3
    <3>5. g[T] \in Int
      BY <3>1, <3>2
    <3> QED
      BY <1>3, <3>4, <3>5
  <2> QED
    BY <2>1, <2>2
<1>5. SUBSET S \subseteq Good
  BY <1>4, SmallerFirst
<1>6. S \in Good /\ {} \in SUBSET S /\ \A x \in S : S \ {x} \in SUBSET S
  BY <1>5
<1>7. g[{}] = 0
  BY <1>2 DEF Folded
<1> QED
  BY <1>1, <1>3, <1>6, <1>7

LEMMA TotalAdd ==
  ASSUME NEW f, NEW S, IsFiniteSet(S), NEW x, x \notin S,
         \A y \in S \cup {x} : f[y] \in Int
  PROVE  Total(f, S \cup {x}) = Total(f, S) + f[x] /\ Total(f, S) \in Int
<1>1. IsFiniteSet(S \cup {x}) /\ (S \cup {x}) \ {x} = S
  BY FS_AddElement
<1>2. Total(f, S \cup {x}) = f[x] + Total(f, S)
  BY <1>1, TotalTakesAny
<1>3. Total(f, S) \in Int /\ f[x] \in Int
  BY TotalTakesAny
<1> QED
  BY <1>2, <1>3

LEMMA TotalRemove ==
  ASSUME NEW f, NEW S, IsFiniteSet(S), NEW x \in S, \A y \in S : f[y] \in Int
  PROVE  Total(f, S \ {x}) = Total(f, S) - f[x]
<1>1. IsFiniteSet(S \ {x}) /\ (S \ {x}) \cup {x} = S /\ x \notin S \ {x}
  BY FS_RemoveElement
<1>2. /\ Total(f, (S \ {x}) \cup {x}) = Total(f, S \ {x}) + f[x]
      /\ Total(f, S \ {x}) \in Int /\ f[x] \in Int
  BY <1>1, TotalAdd
<1>3. Total(f, (S \ {x}) \cup {x}) = Total(f, S)
  BY <1>1, Zenon
<1> QED
  BY <1>2, <1>3

\* Two functions that agree on a set have the same sum over it.
LEMMA TotalSame ==
  ASSUME NEW f, NEW h, NEW S, IsFiniteSet(S), \A x \in S : f[x] \in Int /\ h[x] = f[x]
  PROVE  Total(h, S) = Total(f, S)
<1>1. PICK Good : Good = {T \in SUBSET S : Total(h, T) = Total(f, T)}
  OBVIOUS
<1>2. Total(h, {}) = Total(f, {})
  BY TotalTakesAny, FS_EmptySet
<1>3. {} \in Good
  BY <1>1, <1>2
<1>4. ASSUME NEW T \in SUBSET S, NEW x \in S \ T, T \in Good
      PROVE  T \cup {x} \in Good
  <2>1. IsFiniteSet(T)
    BY FS_Subset
  <2>2. /\ Total(f, T \cup {x}) = Total(f, T) + f[x]
        /\ Total(h, T \cup {x}) = Total(h, T) + h[x]
    BY <2>1, TotalAdd
  <2> QED
    BY <1>1, <1>4, <2>2
<1>5. S \in Good
  BY <1>3, <1>4, OneByOne
<1> QED
  BY <1>1, <1>5

LEMMA TotalJoin ==
  ASSUME NEW f, NEW A, NEW B, IsFiniteSet(A), IsFiniteSet(B), A \cap B = {},
         \A x \in A \cup B : f[x] \in Int
  PROVE  Total(f, A \cup B) = Total(f, A) + Total(f, B)
<1>1. PICK Good : Good = {T \in SUBSET B : Total(f, A \cup T) = Total(f, A) + Total(f, T)}
  OBVIOUS
<1>2. Total(f, {}) = 0 /\ Total(f, A) \in Int
  BY TotalTakesAny
<1>3. {} \in Good
  <2>1. A \cup {} = A /\ {} \in SUBSET B
    OBVIOUS
  <2>2. Total(f, A \cup {}) = Total(f, A) + Total(f, {})
    BY <1>2, <2>1
  <2> QED
    BY <1>1, <2>1, <2>2
<1>4. ASSUME NEW T \in SUBSET B, NEW x \in B \ T, T \in Good
      PROVE  T \cup {x} \in Good
  <2>1. IsFiniteSet(T) /\ IsFiniteSet(A \cup T)
    BY FS_Subset, FS_Union
  <2>2. PICK AT : AT = A \cup T
    OBVIOUS
  <2>3. A \cup (T \cup {x}) = AT \cup {x} /\ x \notin AT /\ IsFiniteSet(AT)
    BY <2>1, <2>2
  <2>4. /\ Total(f, T \cup {x}) = Total(f, T) + f[x]
        /\ Total(f, AT \cup {x}) = Total(f, AT) + f[x]
        /\ Total(f, T) \in Int /\ f[x] \in Int
    BY <2>1, <2>2, <2>3, TotalAdd
  <2>5. Total(f, AT) = Total(f, A) + Total(f, T)
    BY <1>1, <1>4, <2>2
  <2>6. Total(f, A \cup (T \cup {x})) = Total(f, AT \cup {x})
    BY <2>3, Zenon
  <2>7. Total(f, A \cup (T \cup {x})) = Total(f, A) + Total(f, T \cup {x})
    BY <1>2, <2>4, <2>5, <2>6
  <2> QED
    BY <1>1, <2>7
<1>5. B \in Good
  BY <1>3, <1>4, OneByOne
<1> QED
  BY <1>1, <1>5

\* A set has as many members as ones it sums to.
LEMMA TotalCounts ==
  ASSUME NEW f, NEW S, IsFiniteSet(S), \A x \in S : f[x] = 1
  PROVE  Total(f, S) = Cardinality(S)
<1>1. PICK Good : Good = {T \in SUBSET S : Total(f, T) = Cardinality(T)}
  OBVIOUS
<1>2. {} \in Good
  BY <1>1, TotalTakesAny, FS_EmptySet
<1>3. ASSUME NEW T \in SUBSET S, NEW x \in S \ T, T \in Good
      PROVE  T \cup {x} \in Good
  <2>1. IsFiniteSet(T)
    BY FS_Subset
  <2>2. Total(f, T \cup {x}) = Total(f, T) + 1
    BY <2>1, TotalAdd
  <2>3. Cardinality(T \cup {x}) = Cardinality(T) + 1
    BY <2>1, FS_AddElement
  <2> QED
    BY <1>1, <1>3, <2>2, <2>3
<1>4. S \in Good
  BY <1>2, <1>3, OneByOne
<1> QED
  BY <1>1, <1>4

\* A sum taken key by key: h of a key is the sum over the members with it.
AtKey(H, key, k) == {x \in H : key[x] = k}
AtKeys(H, key, P) == {x \in H : key[x] \in P}

LEMMA TotalByKey ==
  ASSUME NEW f, NEW H, IsFiniteSet(H), \A x \in H : f[x] \in Int,
         NEW key, NEW h, NEW P, IsFiniteSet(P),
         \A k \in P : h[k] = Total(f, AtKey(H, key, k))
  PROVE  Total(h, P) = Total(f, AtKeys(H, key, P))
<1>1. PICK Good : Good = {T \in SUBSET P : Total(h, T) = Total(f, AtKeys(H, key, T))}
  OBVIOUS
<1>2. \A T : IsFiniteSet(AtKeys(H, key, T)) /\ IsFiniteSet(AtKey(H, key, T))
             /\ AtKeys(H, key, T) \subseteq H /\ AtKey(H, key, T) \subseteq H
  BY FS_Subset DEF AtKeys, AtKey
<1>3. \A k \in P : h[k] \in Int
  <2> SUFFICES ASSUME NEW k \in P PROVE h[k] \in Int
    OBVIOUS
  <2>1. Total(f, AtKey(H, key, k)) \in Int
    BY <1>2, TotalTakesAny
  <2> QED
    BY <2>1
<1>4. {} \in Good
  <2>1. AtKeys(H, key, {}) = {}
    BY DEF AtKeys
  <2>2. Total(h, {}) = 0 /\ Total(f, {}) = 0
    BY TotalTakesAny, FS_EmptySet
  <2> QED
    BY <1>1, <2>1, <2>2
<1>5. ASSUME NEW T \in SUBSET P, NEW k \in P \ T, T \in Good
      PROVE  T \cup {k} \in Good
  <2>1. IsFiniteSet(T)
    BY FS_Subset
  <2>2. PICK A : A = AtKeys(H, key, T)
    OBVIOUS
  <2>3. PICK B : B = AtKey(H, key, k)
    OBVIOUS
  <2>4. PICK C : C = AtKeys(H, key, T \cup {k})
    OBVIOUS
  <2>5. C = A \cup B /\ A \cap B = {} /\ A \cup B \subseteq H
    BY <2>2, <2>3, <2>4 DEF AtKey, AtKeys
  <2>6. IsFiniteSet(A) /\ IsFiniteSet(B)
    BY <1>2, <2>2, <2>3
  <2>7. Total(f, C) = Total(f, A) + Total(f, B)
    BY <2>5, <2>6, TotalJoin
  <2>8. Total(h, T \cup {k}) = Total(h, T) + h[k]
    BY <1>3, <2>1, TotalAdd
  <2>9. Total(h, T) = Total(f, A) /\ h[k] = Total(f, B)
    BY <1>1, <1>5, <2>2, <2>3
  <2> QED
    BY <1>1, <2>4, <2>7, <2>8, <2>9
<1>6. P \in Good
  BY <1>4, <1>5, OneByOne
<1> QED
  BY <1>1, <1>6

-----------------------------------------------------------------------------
(* Where slices lie                                                        *)

\* Rounding a time down to the tick grid.
LEMMA GridFloor ==
  ASSUME NEW x \in Nat PROVE x - (x % Tick) \in Nat /\ x - (x % Tick) <= x
<1>1. x % Tick \in 0..Tick - 1
  BY WindowAssumption
<1>2. x % Tick <= x
  BY WindowAssumption
<1> QED
  BY <1>1, <1>2

\* The part of the inductive invariant that the aggregates play no part in.
Control == ControlOK /\ SliceInv

LEMMA ControlInit == Init => Control
<1> SUFFICES ASSUME Init PROVE Control
  OBVIOUS
<1>1. /\ stream \in Seq(Edge) /\ Len(stream) \in Nat /\ Len(stream) > 0
      /\ TimeOrdered(stream)
  BY WindowAssumption DEF Init
<1>2. stream[1] \in Edge
  BY <1>1
<1>3. stream[1].ts \in Nat
  BY <1>2 DEF Edge
<1>4. t \in Nat /\ t <= stream[1].ts
  BY <1>3, GridFloor DEF Init
<1>5. ControlOK
  <2>1. pending \in Seq(Slice) /\ cur \in Slice /\ i \in Nat /\ now \in Nat
    BY DEF Init, NoSlice, Slice
  <2> QED
    BY <1>1, <1>4, <2>1 DEF Init, ControlOK
<1>6. DequeOrdered /\ LoopPlaced
  BY DEF Init, DequeOrdered, LoopPlaced
<1>7. ClockOrdered
  <2> SUFFICES ASSUME NEW p \in 1..Len(stream) PROVE t <= stream[p].ts
    BY <1>4 DEF Init, ClockOrdered
  <2>1. stream[p] \in Edge
    BY <1>1
  <2>2. stream[p].ts \in Nat
    BY <2>1 DEF Edge
  <2>3. stream[1].ts <= stream[p].ts
    BY <1>1 DEF TimeOrdered
  <2> QED
    BY <2>2, <2>3, <1>3, <1>4
<1>8. NothingLost
  BY DEF Init, NothingLost
<1> QED
  BY <1>5, <1>6, <1>7, <1>8 DEF Control, SliceInv

-----------------------------------------------------------------------------
(* What one loop iteration does to the set of transactions held.           *)

\* Types of the slices the control state refers to.
LEMMA SliceTypes ==
  ASSUME ControlOK
  PROVE /\ Len(pending) \in Nat
        /\ \A k \in 1..Len(pending) :
             /\ pending[k].first \in Nat /\ pending[k].last \in Nat
             /\ pending[k].t_end \in Nat
        /\ cur.first \in Nat /\ cur.last \in Nat /\ cur.t_end \in Nat
        /\ \A p \in 1..Len(stream) : stream[p] \in Edge /\ stream[p].ts \in Nat
<1>1. \A k \in 1..Len(pending) : pending[k] \in Slice
  BY DEF ControlOK
<1>2. \A p \in 1..Len(stream) : stream[p] \in Edge
  BY DEF ControlOK
<1>3. Len(pending) \in Nat /\ cur \in Slice
  BY DEF ControlOK
<1>4. \A x \in Slice : x.first \in Nat /\ x.last \in Nat /\ x.t_end \in Nat
  BY DEF Slice
<1>5. \A e \in Edge : e.ts \in Nat
  BY DEF Edge
<1> QED
  BY <1>1, <1>2, <1>3, <1>4, <1>5

LEMMA HeldStartBatch ==
  ASSUME Control, StartBatch PROVE Held' = Held
<1> USE DEF Control
<1>1. /\ pc = "idle" /\ pending' = pending /\ i' = left + 1 /\ pc' # "remove"
      /\ left \in Nat /\ left' \in left..Len(stream) /\ cur'.first = left + 1
  BY DEF StartBatch, ControlOK
<1>2. ASSUME NEW p \in 1..left', OnDeque(p) PROVE p \in 1..left
  BY <1>1, <1>2, SliceTypes DEF OnDeque, SliceInv, DequeOrdered
<1>3. \A p : OnDeque(p)' <=> OnDeque(p)
  BY <1>1 DEF OnDeque
<1>4. 1..left \subseteq 1..left'
  BY <1>1
<1>5. \A p \in 1..left' : ~(cur'.first <= p /\ p < i')
  BY <1>1
<1> QED
  BY <1>1, <1>2, <1>3, <1>4, <1>5 DEF Held

LEMMA HeldReturn ==
  ASSUME Control, Return PROVE Held' = Held
<1>1. pc = "expire" /\ pc' = "idle" /\ left' = left /\ pending' = pending
  BY DEF Return, source
<1> QED
  BY <1>1 DEF Held, OnDeque

LEMMA HeldPopSlice ==
  ASSUME Control, PopSlice PROVE Held' = Held
<1> USE DEF Control
<1>1. /\ pc = "expire" /\ pc' = "remove" /\ Len(pending) > 0
      /\ pending' = Tail(pending) /\ cur' = pending[1] /\ i' = pending[1].first
      /\ left' = left
  BY DEF PopSlice, Due, ControlOK, source
<1>2. /\ Len(pending) \in Nat /\ Len(pending') = Len(pending) - 1
      /\ \A k \in 1..Len(pending') : pending'[k] = pending[k + 1]
  BY <1>1 DEF ControlOK
<1>3. ASSUME NEW p \in 1..left
      PROVE  OnDeque(p) <=> \/ OnDeque(p)'
                            \/ i' <= p /\ p <= cur'.last
  <2>1. ASSUME NEW k \in 2..Len(pending),
               pending[k].first <= p /\ p <= pending[k].last
        PROVE  OnDeque(p)'
    <3>1. k - 1 \in 1..Len(pending') /\ pending'[k - 1] = pending[k]
      BY <1>2
    <3> QED
      BY <2>1, <3>1 DEF OnDeque
  <2>2. ASSUME NEW l \in 1..Len(pending'),
               pending'[l].first <= p /\ p <= pending'[l].last
        PROVE  OnDeque(p)
    <3>1. l + 1 \in 1..Len(pending) /\ pending'[l] = pending[l + 1]
      BY <1>2
    <3> QED
      BY <2>2, <3>1 DEF OnDeque
  <2>3. 1..Len(pending) = {1} \cup 2..Len(pending)
    BY <1>1, <1>2
  <2> QED
    BY <1>1, <2>1, <2>2, <2>3 DEF OnDeque
<1> QED
  BY <1>1, <1>3 DEF Held

\* Adding puts exactly the transaction at the loop's index.
LEMMA HeldAddEdge ==
  ASSUME Control, AddEdge
  PROVE /\ Held' = Held \cup {i} /\ i \notin Held /\ i \in 1..left
        /\ \A p \in Held : p < i
<1> USE DEF Control
<1>1. /\ pc = "add" /\ i' = i + 1 /\ cur' = cur /\ left' = left
      /\ 1 <= cur.first /\ cur.first <= i /\ i <= cur.last /\ cur.last = left
      /\ i \in Nat /\ left \in Nat /\ cur.first \in Nat
      /\ \A k \in 1..Len(pending) : pending[k].last < cur.first
  BY SliceTypes DEF AddEdge, SliceInv, LoopPlaced, ControlOK, source
<1>2. ASSUME NEW p \in Held PROVE p < i
  <2>1. CASE OnDeque(p)
    BY <2>1, <1>1, SliceTypes DEF OnDeque, Held
  <2> QED
    BY <1>1, <1>2, <2>1 DEF Held
<1>3. i \in 1..left /\ i \notin Held
  BY <1>1, <1>2
<1>4. CASE i = cur.last
  <2>1. /\ pending' = Append(pending, cur) /\ pc' = "expire"
        /\ pending \in Seq(Slice) /\ cur \in Slice
    BY <1>4 DEF AddEdge, ControlOK
  <2>2. /\ Len(pending) \in Nat /\ Len(pending') = Len(pending) + 1
        /\ \A k \in 1..Len(pending) : pending'[k] = pending[k]
        /\ pending'[Len(pending) + 1] = cur
    BY <2>1
  <2>3. 1..Len(pending') = 1..Len(pending) \cup {Len(pending) + 1}
    BY <2>2
  <2>4. ASSUME NEW p \in 1..left
        PROVE  OnDeque(p)' <=> \/ OnDeque(p)
                               \/ cur.first <= p /\ p <= cur.last
    BY <2>2, <2>3 DEF OnDeque
  <2>5. \A p \in 1..left : p <= cur.last <=> p < i \/ p = i
    BY <1>1, <1>4
  <2>6. ASSUME NEW p \in 1..left PROVE p \in Held' <=> p \in Held \cup {i}
    BY <1>1, <2>1, <2>4, <2>5 DEF Held
  <2> QED
    BY <1>1, <1>2, <1>3, <2>6 DEF Held
<1>5. CASE i # cur.last
  <2>1. pending' = pending /\ pc' = "add"
    BY <1>1, <1>5 DEF AddEdge
  <2>2. \A p \in 1..left : p < i' <=> p < i \/ p = i
    BY <1>1
  <2>3. ASSUME NEW p \in 1..left PROVE p \in Held' <=> p \in Held \cup {i}
    BY <2>1, <2>2, <1>1 DEF Held, OnDeque
  <2> QED
    BY <1>1, <1>2, <1>3, <2>3 DEF Held
<1> QED
  BY <1>4, <1>5

\* Removing takes exactly the transaction at the loop's index, the oldest held.
LEMMA HeldRemoveEdge ==
  ASSUME Control, RemoveEdge
  PROVE /\ Held' = Held \ {i} /\ i \in Held
        /\ \A p \in Held : i <= p
<1> USE DEF Control
<1>1. /\ pc = "remove" /\ i' = i + 1 /\ cur' = cur /\ pending' = pending
      /\ left' = left /\ left \in Nat /\ cur.last <= left /\ 1 <= i
      /\ cur.first <= i /\ i <= cur.last /\ i \in Nat
      /\ cur.last \in Nat /\ cur.first \in Nat
      /\ \A k \in 1..Len(pending) : cur.last < pending[k].first
      /\ pc' = IF i = cur.last THEN "expire" ELSE "remove"
  BY SliceTypes DEF RemoveEdge, SliceInv, LoopPlaced, ControlOK, source
<1>2. ASSUME NEW p \in 1..left, OnDeque(p) PROVE i < p
  BY <1>1, <1>2, SliceTypes DEF OnDeque
<1>3. \A p : OnDeque(p)' <=> OnDeque(p)
  BY <1>1 DEF OnDeque
<1>4. ASSUME NEW p \in Held PROVE i <= p
  BY <1>1, <1>2, <1>4 DEF Held
<1>5. i \in Held
  BY <1>1 DEF Held
<1>6. ASSUME NEW p \in 1..left PROVE p \in Held' <=> p \in Held /\ p # i
  <2>1. CASE i = cur.last
    BY <1>1, <1>2, <1>3, <2>1 DEF Held
  <2>2. CASE i # cur.last
    BY <1>1, <1>2, <1>3, <2>2 DEF Held
  <2> QED
    BY <2>1, <2>2
<1> QED
  BY <1>1, <1>4, <1>5, <1>6 DEF Held

-----------------------------------------------------------------------------
(* Control is inductive.                                                   *)

LEMMA ControlStartBatch ==
  ASSUME Control, StartBatch PROVE Control'
<1> USE DEF Control
<1>1. /\ pc = "idle" /\ i' = left + 1 /\ t' = t + Tick
      /\ stream' = stream /\ pending' = pending
      /\ t \in Nat /\ now \in Nat /\ left \in Nat /\ Len(stream) \in Nat
      /\ Tick \in Nat \ {0} /\ Window \in Nat \ {0}
      /\ now <= t
  BY WindowAssumption DEF StartBatch, ControlOK, SliceInv, ClockOrdered
<1>2. now' = t + Tick
  BY <1>1 DEF StartBatch, Maximum
<1>3. PICK right \in left..Len(stream) :
        /\ \A k \in left + 1..right : stream[k].ts < t + Tick
        /\ right < Len(stream) => stream[right + 1].ts >= t + Tick
        /\ left' = right
        /\ cur' = [t_end |-> t + Tick, first |-> left + 1, last |-> right]
        /\ pc' = IF right > left THEN "add" ELSE "expire"
  BY DEF StartBatch
<1>4. ControlOK'
  <2>1. cur' \in Slice /\ left' \in 0..Len(stream') /\ t' \in Nat /\ now' \in Nat
        /\ i' \in Nat /\ pc' \in {"idle", "add", "expire", "remove"}
    BY <1>1, <1>2, <1>3 DEF Slice, ControlOK
  <2> QED
    BY <1>1, <2>1 DEF ControlOK
<1>5. SliceTimes(cur)'
  <2> SUFFICES ASSUME NEW p \in left + 1..right
               PROVE  t <= stream[p].ts /\ stream[p].ts < t + Tick
    BY <1>1, <1>3 DEF SliceTimes
  <2> QED
    BY <1>1, <1>3 DEF SliceInv, ClockOrdered, ControlOK
<1>6. DequeOrdered'
  <2>1. now <= now' /\ left <= left' /\ left' \in Nat /\ now' \in Nat
    BY <1>1, <1>2, <1>3
  <2>2. ASSUME NEW k \in 1..Len(pending)
        PROVE  /\ 1 <= pending[k].first /\ pending[k].first <= pending[k].last
               /\ pending[k].last <= left'
               /\ pending[k].t_end <= now'
               /\ SliceTimes(pending[k])'
    <3>1. SliceTimes(pending[k])'
      BY <1>1 DEF SliceInv, DequeOrdered, SliceTimes
    <3> QED
      BY <2>1, <3>1, <1>1, SliceTypes DEF SliceInv, DequeOrdered
  <2> QED
    BY <1>1, <2>2 DEF DequeOrdered, SliceInv
<1>7. LoopPlaced'
  <2> SUFFICES ASSUME pc' = "add"
               PROVE  /\ 1 <= cur'.first /\ cur'.first <= i' /\ i' <= cur'.last
                      /\ cur'.last = left' /\ cur'.t_end = now'
                      /\ \A k \in 1..Len(pending') : pending'[k].last < cur'.first
    BY <1>3, <1>5 DEF LoopPlaced
  <2>1. \A k \in 1..Len(pending) : pending[k].last <= left
    BY DEF SliceInv, DequeOrdered
  <2> QED
    BY <1>1, <1>2, <1>3, <2>1, SliceTypes
<1>8. ClockOrdered'
  <2> SUFFICES ASSUME NEW p \in 1..Len(stream), right < p
               PROVE  t + Tick <= stream[p].ts
    BY <1>1, <1>2, <1>3 DEF ClockOrdered
  <2>1. right + 1 \in 1..Len(stream) /\ right + 1 <= p
    BY <1>1, <1>3
  <2>2. stream[right + 1].ts <= stream[p].ts
    BY <2>1 DEF ControlOK, TimeOrdered
  <2>3. stream[right + 1].ts >= t + Tick
    BY <2>1, <1>1, <1>3
  <2>4. stream[p].ts \in Nat /\ stream[right + 1].ts \in Nat /\ t + Tick \in Nat
    BY <2>1, <1>1, SliceTypes, WindowAssumption DEF ControlOK
  <2> QED
    BY <2>2, <2>3, <2>4
<1>9. NothingLost'
  <2> SUFFICES ASSUME NEW p \in 1..left'
               PROVE  \/ p \in Held'
                      \/ pc' = "add" /\ i' <= p
                      \/ stream'[p].ts < now' - Window
    BY DEF NothingLost
  <2>1. CASE p <= left
    <3>1. p \in Held \/ stream[p].ts < now - Window
      BY <1>1, <1>3, <2>1 DEF SliceInv, NothingLost
    <3>2. p \in 1..Len(stream) /\ stream[p].ts \in Nat /\ now' >= now
          /\ now' \in Nat
      BY <1>1, <1>2, <1>3, <2>1, SliceTypes
    <3> QED
      BY <3>1, <3>2, <1>1, HeldStartBatch
  <2>2. CASE left < p
    BY <1>1, <1>3, <2>2
  <2> QED
    BY <1>1, <1>3, <2>1, <2>2
<1> QED
  BY <1>4, <1>6, <1>7, <1>8, <1>9 DEF SliceInv

LEMMA ControlAddEdge ==
  ASSUME Control, AddEdge PROVE Control'
<1> USE DEF Control
<1>1. /\ pc = "add" /\ i' = i + 1 /\ cur' = cur /\ left' = left /\ now' = now
      /\ stream' = stream /\ t' = t
      /\ 1 <= cur.first /\ cur.first <= i /\ i <= cur.last /\ cur.last = left
      /\ cur.t_end = now /\ SliceTimes(cur)
      /\ \A k \in 1..Len(pending) : pending[k].last < cur.first
      /\ i \in Nat /\ left \in Nat
  BY DEF AddEdge, SliceInv, LoopPlaced, ControlOK, source
<1>2. \A s : SliceTimes(s)' <=> \A p \in s'.first..s'.last :
                                   /\ s'.t_end - Tick <= stream[p].ts
                                   /\ stream[p].ts < s'.t_end
  BY <1>1 DEF SliceTimes
<1>3. ClockOrdered'
  BY <1>1 DEF ClockOrdered, SliceInv
<1>4. CASE i = cur.last
  <2>1. /\ pending' = Append(pending, cur) /\ pc' = "expire"
        /\ pending \in Seq(Slice) /\ cur \in Slice
    BY <1>4 DEF AddEdge, ControlOK
  <2>2. /\ Len(pending) \in Nat /\ Len(pending') = Len(pending) + 1
        /\ \A k \in 1..Len(pending) : pending'[k] = pending[k]
        /\ pending'[Len(pending) + 1] = cur
        /\ pending' \in Seq(Slice)
    BY <2>1
  <2>3. ControlOK'
    BY <1>1, <2>1, <2>2 DEF ControlOK
  <2>4. DequeOrdered'
    <3>1. ASSUME NEW k \in 1..Len(pending')
          PROVE  /\ 1 <= pending'[k].first /\ pending'[k].first <= pending'[k].last
                 /\ pending'[k].last <= left' /\ pending'[k].t_end <= now'
                 /\ SliceTimes(pending[k])'
      <4>1. CASE k \in 1..Len(pending)
        BY <4>1, <1>1, <2>2 DEF SliceInv, DequeOrdered, SliceTimes
      <4>2. CASE k = Len(pending) + 1
        BY <4>2, <1>1, <2>2, SliceTypes DEF SliceTimes
      <4> QED
        BY <4>1, <4>2, <2>2
    <3>2. ASSUME NEW k \in 1..Len(pending'), NEW l \in 1..Len(pending'), k < l
          PROVE  /\ pending'[k].last < pending'[l].first
                 /\ pending'[k].t_end <= pending'[l].t_end
      <4>1. CASE l \in 1..Len(pending)
        BY <3>2, <4>1, <2>2 DEF SliceInv, DequeOrdered
      <4>2. CASE l = Len(pending) + 1
        BY <3>2, <4>2, <1>1, <2>2 DEF SliceInv, DequeOrdered
      <4> QED
        BY <4>1, <4>2, <2>2
    <3> QED
      BY <3>1, <3>2 DEF DequeOrdered
  <2>5. LoopPlaced'
    BY <2>1 DEF LoopPlaced
  <2>6. NothingLost'
    <3> SUFFICES ASSUME NEW p \in 1..left
                 PROVE  p \in Held' \/ stream[p].ts < now - Window
      BY <1>1 DEF NothingLost
    <3>1. \/ p \in Held \/ i <= p \/ stream[p].ts < now - Window
      BY DEF SliceInv, NothingLost
    <3>2. i <= p => p = i
      BY <1>1, <1>4
    <3> QED
      BY <3>1, <3>2, HeldAddEdge
  <2> QED
    BY <1>3, <2>3, <2>4, <2>5, <2>6 DEF SliceInv
<1>5. CASE i # cur.last
  <2>1. pending' = pending /\ pc' = "add"
    BY <1>1, <1>5 DEF AddEdge
  <2>2. ControlOK'
    BY <1>1, <2>1 DEF ControlOK
  <2>3. DequeOrdered'
    BY <1>1, <2>1 DEF SliceInv, DequeOrdered, SliceTimes
  <2>4. LoopPlaced'
    BY <1>1, <1>5, <2>1, SliceTypes DEF LoopPlaced, SliceTimes
  <2>5. NothingLost'
    <3> SUFFICES ASSUME NEW p \in 1..left
                 PROVE  p \in Held' \/ i' <= p \/ stream[p].ts < now - Window
      BY <1>1, <2>1 DEF NothingLost
    <3>1. \/ p \in Held \/ i <= p \/ stream[p].ts < now - Window
      BY DEF SliceInv, NothingLost
    <3>2. i <= p => p = i \/ i' <= p
      BY <1>1
    <3> QED
      BY <3>1, <3>2, HeldAddEdge
  <2> QED
    BY <1>3, <2>2, <2>3, <2>4, <2>5 DEF SliceInv
<1> QED
  BY <1>4, <1>5

LEMMA ControlPopSlice ==
  ASSUME Control, PopSlice PROVE Control'
<1> USE DEF Control
<1>1. /\ pc = "expire" /\ pc' = "remove" /\ Len(pending) > 0
      /\ pending' = Tail(pending) /\ cur' = pending[1] /\ i' = pending[1].first
      /\ pending[1].t_end <= now - Window
      /\ left' = left /\ stream' = stream /\ t' = t /\ now' = now
      /\ pending \in Seq(Slice)
  BY DEF PopSlice, Due, ControlOK, source
<1>2. /\ Len(pending) \in Nat /\ Len(pending') = Len(pending) - 1
      /\ \A k \in 1..Len(pending') : /\ k + 1 \in 1..Len(pending)
                                     /\ pending'[k] = pending[k + 1]
      /\ 1 \in 1..Len(pending) /\ pending[1] \in Slice
      /\ pending' \in Seq(Slice)
  BY <1>1
<1>3. ControlOK'
  BY <1>1, <1>2, SliceTypes DEF ControlOK
<1>4. DequeOrdered'
  <2>1. \A k, l \in 1..Len(pending') : k < l => k + 1 < l + 1
    BY <1>2
  <2> QED
    BY <1>1, <1>2, <2>1 DEF SliceInv, DequeOrdered, SliceTimes
<1>5. LoopPlaced'
  <2>1. \A k \in 1..Len(pending') : 1 < k + 1
    BY <1>2
  <2>2. \A k \in 1..Len(pending') : cur'.last < pending'[k].first
    BY <1>1, <1>2, <2>1 DEF SliceInv, DequeOrdered
  <2> QED
    BY <1>1, <1>2, <2>2, SliceTypes
       DEF SliceInv, DequeOrdered, LoopPlaced, SliceTimes
<1>6. ClockOrdered' /\ NothingLost'
  BY <1>1, HeldPopSlice DEF SliceInv, ClockOrdered, NothingLost
<1> QED
  BY <1>3, <1>4, <1>5, <1>6 DEF SliceInv

LEMMA ControlReturn ==
  ASSUME Control, Return PROVE Control'
<1> USE DEF Control
<1>1. /\ pc = "expire" /\ pc' = "idle" /\ left' = left /\ pending' = pending
      /\ stream' = stream /\ t' = t /\ now' = now /\ cur' = cur /\ i' = i
  BY DEF Return, source
<1>2. \A k \in 1..Len(pending) : pending[k].t_end > now - Window
  <2>1. CASE Len(pending) = 0
    BY <2>1
  <2>2. CASE Len(pending) > 0
    <3>1. pending[1].t_end > now - Window /\ 1 \in 1..Len(pending)
      BY <2>2, SliceTypes, WindowAssumption DEF Return, Due, ControlOK
    <3>2. \A k \in 1..Len(pending) : pending[1].t_end <= pending[k].t_end
      BY <2>2, SliceTypes DEF SliceInv, DequeOrdered
    <3> QED
      BY <3>1, <3>2, SliceTypes, WindowAssumption DEF ControlOK
  <2> QED
    BY <2>1, <2>2, SliceTypes
<1>3. ControlOK'
  BY <1>1 DEF ControlOK
<1>4. DequeOrdered' /\ LoopPlaced'
  BY <1>1, <1>2 DEF SliceInv, DequeOrdered, LoopPlaced, SliceTimes
<1>5. ClockOrdered' /\ NothingLost'
  BY <1>1, HeldReturn DEF SliceInv, ClockOrdered, NothingLost
<1> QED
  BY <1>3, <1>4, <1>5 DEF SliceInv

LEMMA ControlRemoveEdge ==
  ASSUME Control, RemoveEdge PROVE Control'
<1> USE DEF Control
<1>1. /\ pc = "remove" /\ i' = i + 1 /\ cur' = cur /\ pending' = pending
      /\ left' = left /\ stream' = stream /\ t' = t /\ now' = now
      /\ pc' = IF i = cur.last THEN "expire" ELSE "remove"
      /\ cur.first <= i /\ i <= cur.last /\ cur.t_end <= now - Window
      /\ SliceTimes(cur) /\ i \in Nat /\ now \in Nat
  BY DEF RemoveEdge, SliceInv, LoopPlaced, ControlOK, source
<1>2. stream[i].ts < now - Window
  <2>1. i \in 1..Len(stream) /\ i \in cur.first..cur.last
    BY <1>1, SliceTypes DEF SliceInv, LoopPlaced, ControlOK
  <2>2. stream[i].ts < cur.t_end
    BY <1>1, <2>1 DEF SliceTimes
  <2> QED
    BY <1>1, <2>1, <2>2, SliceTypes, WindowAssumption
<1>3. ControlOK'
  BY <1>1 DEF ControlOK
<1>4. DequeOrdered' /\ ClockOrdered'
  BY <1>1 DEF SliceInv, DequeOrdered, ClockOrdered, SliceTimes
<1>5. LoopPlaced'
  BY <1>1, SliceTypes DEF SliceInv, LoopPlaced, SliceTimes
<1>6. NothingLost'
  BY <1>1, <1>2, HeldRemoveEdge DEF SliceInv, NothingLost
<1> QED
  BY <1>3, <1>4, <1>5, <1>6 DEF SliceInv

LEMMA ControlStep == Control /\ [Next]_vars => Control'
<1> SUFFICES ASSUME Control, [Next]_vars PROVE Control'
  OBVIOUS
<1>1. CASE UNCHANGED vars
  BY <1>1 DEF vars, Control, ControlOK, SliceInv, DequeOrdered, LoopPlaced,
              ClockOrdered, NothingLost, Held, OnDeque, SliceTimes
<1> QED
  BY <1>1, ControlStartBatch, ControlAddEdge, ControlPopSlice, ControlReturn,
     ControlRemoveEdge DEF Next

LEMMA ControlAlways == Spec => []Control
<1> QED
  BY ControlInit, ControlStep, PTL DEF Spec

\* Every recent transaction is in the graph and none outlives the window by
\* more than a tick, whatever the stream (window.py:15-18).
THEOREM Retention == Spec => []RetentionBound
<1>1. Control => RetentionBound
  <2> SUFFICES ASSUME Control, pc = "idle", NEW p \in 1..left
               PROVE  /\ stream[p].ts >= now - Window => p \in Held
                      /\ p \in Held => stream[p].ts >= now - Window - Tick
    BY DEF RetentionBound
  <2>1. /\ p \in 1..Len(stream) /\ stream[p].ts \in Nat /\ now \in Nat
        /\ Window \in Nat /\ Tick \in Nat
    BY SliceTypes, WindowAssumption DEF Control, ControlOK
  <2>2. stream[p].ts >= now - Window => p \in Held
    BY <2>1 DEF Control, SliceInv, NothingLost
  <2>3. ASSUME p \in Held PROVE stream[p].ts >= now - Window - Tick
    <3>1. PICK k \in 1..Len(pending) :
            pending[k].first <= p /\ p <= pending[k].last
      BY <2>3 DEF Held, OnDeque
    <3>2. /\ pending[k].t_end > now - Window
          /\ pending[k].t_end - Tick <= stream[p].ts
          /\ pending[k].t_end \in Nat
      BY <3>1, SliceTypes
         DEF Control, SliceInv, LoopPlaced, DequeOrdered, SliceTimes
    <3> QED
      BY <3>2, <2>1
  <2> QED
    BY <2>2, <2>3
<1> QED
  BY <1>1, ControlAlways, PTL

-----------------------------------------------------------------------------
(* The aggregates describe exactly the transactions held.                  *)

AggInv == /\ AggregatesOK
          /\ AdjacencyMatchesPairs
          /\ CountsMatchHeld
          /\ LastTimeIsHeld

LEMMA HeldOfFinite ==
  ASSUME ControlOK, NEW k
  PROVE IsFiniteSet(HeldOf(k)) /\ Cardinality(HeldOf(k)) \in Nat
<1>1. HeldOf(k) \subseteq 1..left /\ left \in Nat
  BY DEF HeldOf, Held, ControlOK
<1>2. IsFiniteSet(1..left)
  BY <1>1, FS_Interval
<1>3. IsFiniteSet(HeldOf(k))
  BY <1>1, <1>2, FS_Subset
<1> QED
  BY <1>3, FS_CardinalityType

LEMMA AggInit == Init => AggInv
<1> SUFFICES ASSUME Init PROVE AggInv
  OBVIOUS
<1>1. DOMAIN pairs = {} /\ DOMAIN total_out = {} /\ DOMAIN total_in = {}
  BY DEF Init
<1>2. \A k : HeldOf(k) = {}
  BY DEF Init, HeldOf, Held
<1> QED
  BY <1>1, <1>2 DEF Init, AggInv, AggregatesOK, AdjacencyMatchesPairs,
                    CountsMatchHeld, LastTimeIsHeld

\* Steps that touch neither the aggregates nor the held set.
LEMMA AggSame ==
  ASSUME AggInv, UNCHANGED aggregates, Held' = Held, stream' = stream
  PROVE  AggInv'
<1>1. \A k : HeldOf(k)' = HeldOf(k)
  BY DEF HeldOf, Key
<1> QED
  BY <1>1 DEF AggInv, AggregatesOK, AdjacencyMatchesPairs, CountsMatchHeld,
              LastTimeIsHeld, aggregates

LEMMA AggAddEdge ==
  ASSUME Control, AggInv, AddEdge PROVE AggInv'
<1> DEFINE e == stream[i]
<1>1. PICK k : k = Key(e)
  OBVIOUS
<1> DEFINE fresh == k \notin DOMAIN pairs
<1>2. /\ stream' = stream /\ i \in 1..left /\ left \in 0..Len(stream)
      /\ Held' = Held \cup {i} /\ i \notin Held /\ \A p \in Held : p < i
  BY HeldAddEdge DEF AddEdge, source, Control, ControlOK
<1>3. e \in Edge /\ e.src \in Nodes /\ e.dst \in Nodes /\ e.ts \in Nat
      /\ e.amount \in Nat /\ k = <<e.src, e.dst>> /\ k \in Nodes \X Nodes
  <2>1. e \in Edge
    BY <1>2 DEF Control, ControlOK
  <2> QED
    BY <1>1, <2>1 DEF Edge, Key
<1>4. /\ pairs' = Put(pairs, k, AggAdd(IF fresh THEN NewAgg ELSE pairs[k], e))
      /\ out_adj' = IF fresh THEN [out_adj EXCEPT ![e.src] = @ \cup {e.dst}]
                    ELSE out_adj
      /\ in_adj' = IF fresh THEN [in_adj EXCEPT ![e.dst] = @ \cup {e.src}]
                   ELSE in_adj
      /\ total_out' = Bump(total_out, e.src, e.amount)
      /\ total_in' = Bump(total_in, e.dst, e.amount)
  BY <1>1 DEF AddEdge
<1>5. /\ HeldOf(k)' = HeldOf(k) \cup {i} /\ i \notin HeldOf(k)
      /\ \A x : x # k => HeldOf(x)' = HeldOf(x)
  BY <1>1, <1>2 DEF HeldOf
<1>6. /\ DOMAIN pairs' = DOMAIN pairs \cup {k}
      /\ \A x \in DOMAIN pairs : x # k => pairs'[x] = pairs[x]
      /\ pairs'[k] = AggAdd(IF fresh THEN NewAgg ELSE pairs[k], e)
  BY <1>4 DEF Put
<1>7. ~fresh => pairs[k] \in Agg /\ pairs[k].count = Cardinality(HeldOf(k))
  BY <1>3 DEF AggInv, AggregatesOK, CountsMatchHeld
<1>8. fresh => HeldOf(k) = {}
  BY <1>3 DEF AggInv, CountsMatchHeld
<1>9. /\ pairs'[k].count = Cardinality(HeldOf(k)')
      /\ pairs'[k] \in Agg /\ pairs'[k].last_t = e.ts
  <2>1. Cardinality(HeldOf(k)') = Cardinality(HeldOf(k)) + 1
        /\ Cardinality(HeldOf(k)) \in Nat
    BY <1>5, HeldOfFinite, FS_AddElement DEF Control
  <2>2. CASE fresh
    <3>1. Cardinality(HeldOf(k)) = 0
      BY <1>8, <2>2, FS_EmptySet
    <3> QED
      BY <1>3, <1>6, <2>1, <2>2, <3>1 DEF AggAdd, NewAgg, Agg
  <2>3. CASE ~fresh
    BY <1>3, <1>6, <1>7, <2>1, <2>3 DEF AggAdd, Agg
  <2> QED
    BY <2>2, <2>3
<1>10. AggregatesOK'
  <2>1. DOMAIN total_out' \subseteq Nodes /\ DOMAIN total_in' \subseteq Nodes
    BY <1>3, <1>4 DEF Bump, Put, AggInv, AggregatesOK
  <2>2. DOMAIN pairs' \subseteq Nodes \X Nodes
        /\ \A x \in DOMAIN pairs' : pairs'[x] \in Agg
    BY <1>3, <1>6, <1>9 DEF AggInv, AggregatesOK
  <2>3. out_adj' \in [Nodes -> SUBSET Nodes] /\ in_adj' \in [Nodes -> SUBSET Nodes]
    BY <1>3, <1>4 DEF AggInv, AggregatesOK
  <2> QED
    BY <2>1, <2>2, <2>3 DEF AggregatesOK
<1>11. AdjacencyMatchesPairs'
  <2> SUFFICES ASSUME NEW s \in Nodes, NEW d \in Nodes
               PROVE  /\ <<s, d>> \in DOMAIN pairs' <=> d \in out_adj'[s]
                      /\ <<s, d>> \in DOMAIN pairs' <=> s \in in_adj'[d]
    BY DEF AdjacencyMatchesPairs
  <2>1. /\ <<s, d>> \in DOMAIN pairs <=> d \in out_adj[s]
        /\ <<s, d>> \in DOMAIN pairs <=> s \in in_adj[d]
    BY DEF AggInv, AdjacencyMatchesPairs
  <2>2. <<s, d>> = k <=> s = e.src /\ d = e.dst
    BY <1>3
  <2>3. d \in out_adj'[s] <=> d \in out_adj[s] \/ <<s, d>> = k
    BY <1>3, <1>4, <2>1, <2>2 DEF AggInv, AggregatesOK
  <2>4. s \in in_adj'[d] <=> s \in in_adj[d] \/ <<s, d>> = k
    BY <1>3, <1>4, <2>1, <2>2 DEF AggInv, AggregatesOK
  <2> QED
    BY <1>6, <2>1, <2>3, <2>4
<1>12. CountsMatchHeld'
  BY <1>5, <1>6, <1>9 DEF AggInv, CountsMatchHeld
<1>13. LastTimeIsHeld'
  <2> SUFFICES ASSUME NEW x \in DOMAIN pairs'
               PROVE  \E p \in HeldOf(x)' : /\ pairs'[x].last_t = stream[p].ts
                                            /\ \A q \in HeldOf(x)' : q <= p
    BY <1>2 DEF LastTimeIsHeld
  <2>1. CASE x = k
    <3>1. \A q \in HeldOf(k)' : q <= i
      BY <1>2, <1>5 DEF HeldOf, Held
    <3> QED
      BY <2>1, <3>1, <1>5, <1>9
  <2>2. CASE x # k
    BY <2>2, <1>5, <1>6 DEF AggInv, LastTimeIsHeld
  <2> QED
    BY <2>1, <2>2
<1> QED
  BY <1>10, <1>11, <1>12, <1>13 DEF AggInv

LEMMA AggRemoveEdge ==
  ASSUME Control, AggInv, RemoveEdge PROVE AggInv'
<1> DEFINE e == stream[i]
<1>1. PICK k : k = Key(e)
  OBVIOUS
<1>2. /\ stream' = stream /\ i \in 1..left /\ left \in 0..Len(stream)
      /\ Held' = Held \ {i} /\ i \in Held /\ \A p \in Held : i <= p
  BY HeldRemoveEdge DEF RemoveEdge, source, Control, ControlOK, Held
<1>3. e \in Edge /\ e.src \in Nodes /\ e.dst \in Nodes /\ e.ts \in Nat
      /\ e.amount \in Nat /\ k = <<e.src, e.dst>> /\ k \in Nodes \X Nodes
  <2>1. e \in Edge
    BY <1>2 DEF Control, ControlOK
  <2> QED
    BY <1>1, <2>1 DEF Edge, Key
<1>4. /\ HeldOf(k)' = HeldOf(k) \ {i} /\ i \in HeldOf(k)
      /\ \A x : x # k => HeldOf(x)' = HeldOf(x)
  BY <1>1, <1>2 DEF HeldOf
<1>5. k \in DOMAIN pairs /\ pairs[k].count = Cardinality(HeldOf(k))
      /\ pairs[k] \in Agg
  BY <1>3, <1>4 DEF AggInv, CountsMatchHeld, AggregatesOK
<1>6. Forget(e)
  BY <1>1, <1>5 DEF RemoveEdge
<1>7. /\ Cardinality(HeldOf(k)') = pairs[k].count - 1
      /\ IsFiniteSet(HeldOf(k)')
  BY <1>4, <1>5, HeldOfFinite, FS_RemoveElement DEF Control
<1>8. HeldOf(k)' = {} <=> pairs[k].count = 1
  <2>1. pairs[k].count \in Nat \ {0}
    BY <1>5 DEF Agg
  <2> QED
    BY <2>1, <1>7, FS_EmptySet
<1>9. AggRemove(pairs[k], e).count = pairs[k].count - 1
  BY <1>5 DEF AggRemove, Agg
<1>10. CASE pairs[k].count > 1
  <2>1. LowerPair(e)
    BY <1>1, <1>5, <1>6, <1>9, <1>10 DEF Forget, Agg
  <2>2. /\ DOMAIN pairs' = DOMAIN pairs
        /\ \A x \in DOMAIN pairs : x # k => pairs'[x] = pairs[x]
        /\ pairs'[k] = AggRemove(pairs[k], e)
    BY <1>1, <2>1, <1>5 DEF LowerPair, Put
  <2>3. /\ pairs'[k].count = Cardinality(HeldOf(k)')
        /\ pairs'[k] \in Agg /\ pairs'[k].last_t = pairs[k].last_t
    <3>1. pairs'[k] = [pairs[k] EXCEPT !.count = pairs[k].count - 1,
                                       !.amount = pairs[k].amount - e.amount]
      BY <2>2 DEF AggRemove
    <3>2. pairs[k] \in [count : Nat \ {0}, amount : Int,
                        first_t : Nat, last_t : Nat]
      BY <1>5 DEF Agg
    <3>3. /\ pairs'[k].count = pairs[k].count - 1
          /\ pairs'[k].amount = pairs[k].amount - e.amount
          /\ pairs'[k].last_t = pairs[k].last_t
          /\ pairs[k].count - 1 \in Nat \ {0}
      BY <1>10, <3>1, <3>2
    <3>4. pairs'[k] \in [count : Nat \ {0}, amount : Int,
                         first_t : Nat, last_t : Nat]
      <4>1. pairs[k].count - 1 \in Nat \ {0}
        BY <3>3
      <4>2. pairs[k].amount - e.amount \in Int
        BY <1>3, <3>2
      <4> HIDE DEF e
      <4> QED
        BY <3>1, <3>2, <4>1, <4>2
    <3> QED
      BY <1>7, <3>3, <3>4 DEF Agg
  <2>4. AggregatesOK'
    <3>1. DOMAIN total_out' \subseteq Nodes /\ DOMAIN total_in' \subseteq Nodes
      BY <1>3, <2>1 DEF LowerPair, Bump, Put, AggInv, AggregatesOK
    <3> QED
      BY <2>1, <2>2, <2>3, <3>1 DEF LowerPair, AggInv, AggregatesOK
  <2>5. AdjacencyMatchesPairs'
    BY <2>1, <2>2 DEF LowerPair, AggInv, AdjacencyMatchesPairs
  <2>6. CountsMatchHeld'
    <3>1. HeldOf(k)' # {}
      BY <1>8, <1>10
    <3> SUFFICES ASSUME NEW x \in Nodes \X Nodes
                 PROVE  /\ x \in DOMAIN pairs' <=> HeldOf(x)' # {}
                        /\ x \in DOMAIN pairs' =>
                             pairs'[x].count = Cardinality(HeldOf(x)')
      BY DEF CountsMatchHeld
    <3>2. CASE x = k
      BY <3>1, <3>2, <1>5, <2>2, <2>3
    <3>3. CASE x # k
      BY <3>3, <1>4, <2>2 DEF AggInv, CountsMatchHeld
    <3> QED
      BY <3>2, <3>3
  <2>7. LastTimeIsHeld'
    <3> SUFFICES ASSUME NEW x \in DOMAIN pairs
                 PROVE  \E p \in HeldOf(x)' : /\ pairs'[x].last_t = stream[p].ts
                                              /\ \A q \in HeldOf(x)' : q <= p
      BY <1>2, <2>2 DEF LastTimeIsHeld
    <3>1. CASE x = k
      <4>1. PICK p \in HeldOf(k) : /\ pairs[k].last_t = stream[p].ts
                                   /\ \A q \in HeldOf(k) : q <= p
        BY <1>5 DEF AggInv, LastTimeIsHeld
      <4>2. PICK q \in HeldOf(k) : q # i
        BY <1>4, <1>8, <1>10
      <4>3. p # i
        <5>1. q \in Held /\ p \in Held /\ q \in Nat /\ i \in Nat /\ p \in Nat
          BY <1>2 DEF HeldOf, Held, Control, ControlOK
        <5> QED
          BY <5>1, <4>1, <4>2, <1>2
      <4> QED
        BY <3>1, <4>1, <4>3, <1>4, <2>3
    <3>2. CASE x # k
      BY <3>2, <1>4, <2>2 DEF AggInv, LastTimeIsHeld
    <3> QED
      BY <3>1, <3>2
  <2> QED
    BY <2>4, <2>5, <2>6, <2>7 DEF AggInv
<1>11. CASE pairs[k].count = 1
  <2>1. DropPair(e)
    BY <1>1, <1>5, <1>6, <1>9, <1>11 DEF Forget, Agg
  <2>2. /\ DOMAIN pairs' = DOMAIN pairs \ {k}
        /\ \A x \in DOMAIN pairs' : pairs'[x] = pairs[x]
    BY <1>1, <2>1 DEF DropPair, Del
  <2>3. AggregatesOK'
    <3>1. DOMAIN total_out' \subseteq Nodes /\ DOMAIN total_in' \subseteq Nodes
      BY <1>3, <2>1 DEF DropPair, Bump, Put, Del, AggInv, AggregatesOK
    <3>2. out_adj' \in [Nodes -> SUBSET Nodes]
          /\ in_adj' \in [Nodes -> SUBSET Nodes]
      BY <1>3, <2>1 DEF DropPair, AggInv, AggregatesOK
    <3> QED
      BY <2>2, <3>1, <3>2 DEF AggInv, AggregatesOK
  <2>4. AdjacencyMatchesPairs'
    <3> SUFFICES ASSUME NEW s \in Nodes, NEW d \in Nodes
                 PROVE  /\ <<s, d>> \in DOMAIN pairs' <=> d \in out_adj'[s]
                        /\ <<s, d>> \in DOMAIN pairs' <=> s \in in_adj'[d]
      BY DEF AdjacencyMatchesPairs
    <3>1. /\ <<s, d>> \in DOMAIN pairs <=> d \in out_adj[s]
          /\ <<s, d>> \in DOMAIN pairs <=> s \in in_adj[d]
      BY DEF AggInv, AdjacencyMatchesPairs
    <3>2. <<s, d>> = k <=> s = e.src /\ d = e.dst
      BY <1>3
    <3>3. d \in out_adj'[s] <=> d \in out_adj[s] /\ <<s, d>> # k
      BY <1>3, <2>1, <3>2 DEF DropPair, AggInv, AggregatesOK
    <3>4. s \in in_adj'[d] <=> s \in in_adj[d] /\ <<s, d>> # k
      BY <1>3, <2>1, <3>2 DEF DropPair, AggInv, AggregatesOK
    <3> QED
      BY <2>2, <3>1, <3>3, <3>4
  <2>5. CountsMatchHeld'
    BY <1>4, <1>8, <1>11, <2>2 DEF AggInv, CountsMatchHeld
  <2>6. LastTimeIsHeld'
    BY <1>2, <1>4, <2>2 DEF AggInv, LastTimeIsHeld
  <2> QED
    BY <2>3, <2>4, <2>5, <2>6 DEF AggInv
<1> QED
  BY <1>5, <1>10, <1>11 DEF Agg

LEMMA AggStep == Control /\ AggInv /\ [Next]_vars => AggInv'
<1> SUFFICES ASSUME Control, AggInv, [Next]_vars PROVE AggInv'
  OBVIOUS
<1>1. CASE StartBatch
  BY <1>1, HeldStartBatch, AggSame DEF StartBatch
<1>2. CASE PopSlice
  BY <1>2, HeldPopSlice, AggSame DEF PopSlice, source
<1>3. CASE Return
  BY <1>3, HeldReturn, AggSame DEF Return, source
<1>4. CASE UNCHANGED vars
  <2>1. Held' = Held
    BY <1>4 DEF vars, Held, OnDeque
  <2> QED
    BY <1>4, <2>1, AggSame DEF vars, aggregates
<1> QED
  BY <1>1, <1>2, <1>3, <1>4, AggAddEdge, AggRemoveEdge DEF Next

LEMMA AggAlways == Spec => []AggInv
<1> QED
  BY AggInit, AggStep, ControlAlways, PTL DEF Spec

\* The graph's state is well-typed in every iteration of every loop.
THEOREM TypeCorrect == Spec => []TypeOK
<1>1. Control /\ AggInv => TypeOK
  BY DEF Control, AggInv, TypeOK
<1> QED
  BY <1>1, ControlAlways, AggAlways, PTL

\* The adjacency sets and the pair table stay in step (window.py:102-173).
THEOREM AdjacencyExact == Spec => []AdjacencyMatchesPairs
<1>1. AggInv => AdjacencyMatchesPairs
  BY DEF AggInv
<1> QED
  BY <1>1, AggAlways, PTL

\* Window conservation, pair by pair: each count is the number of transactions
\* held (window.py:303-304).
THEOREM CountsExact == Spec => []CountsMatchHeld
<1>1. AggInv => CountsMatchHeld
  BY DEF AggInv
<1> QED
  BY <1>1, AggAlways, PTL

\* last_t of a pair is always the time of a transaction in the graph, although
\* expiry never revises it.
THEOREM LastTimeExact == Spec => []LastTimeIsHeld
<1>1. AggInv => LastTimeIsHeld
  BY DEF AggInv
<1> QED
  BY <1>1, AggAlways, PTL

\* What the detector reads of a pair agrees with the transactions held, in
\* every iteration of add_batch and _expire (window.py:102-173).
THEOREM PairTableIsExact == Spec => []PairTableExact
<1>1. AdjacencyMatchesPairs /\ CountsMatchHeld /\ LastTimeIsHeld => PairTableExact
  BY DEF PairTableExact
<1> QED
  BY <1>1, AdjacencyExact, CountsExact, LastTimeExact, PTL

-----------------------------------------------------------------------------
(* The loops implement the trailing window.                                *)

OnGrid(x) == \E m \in Nat : x = m * Tick

LEMMA Division ==
  ASSUME NEW x \in Nat, NEW n \in Nat \ {0}
  PROVE  /\ x \div n \in Nat /\ x % n \in 0..n - 1
         /\ x = (x \div n) * n + (x % n)
<1>1. x = (x \div n) * n + (x % n)
  BY SMTT(30)
<1>2. x \div n \in Nat
  BY SMTT(30)
<1>3. x % n \in 0..n - 1
  BY SMTT(30)
<1> QED
  BY <1>1, <1>2, <1>3, Zenon

LEMMA Multiple ==
  ASSUME NEW m \in Nat, NEW n \in Nat \ {0}
  PROVE  /\ m * n \in Nat /\ (m * n) % n = 0
         /\ (m + 1) * n = m * n + n
         /\ \A k \in Nat : m <= k => m * n <= k * n
<1>1. \A x \in Nat : x = m * n => x % n = 0
  BY SMTT(30)
<1>2. m * n \in Nat /\ (m + 1) * n = m * n + n
  BY SMTT(30)
<1>3. \A k \in Nat : m <= k => m * n <= k * n
  BY SMTT(30)
<1> QED
  BY <1>1, <1>2, <1>3

LEMMA GridFirst ==
  ASSUME NEW x \in Nat PROVE OnGrid(x - (x % Tick))
<1>1. PICK q \in Nat : q = x \div Tick
  BY Division, WindowAssumption
<1>2. x % Tick \in Nat /\ x = q * Tick + (x % Tick) /\ q * Tick \in Nat
  BY <1>1, Division, Multiple, WindowAssumption
<1>3. x - (x % Tick) = q * Tick
  BY <1>2
<1> QED
  BY <1>3 DEF OnGrid

LEMMA GridNext ==
  ASSUME NEW x, OnGrid(x) PROVE OnGrid(x + Tick) /\ x % Tick = 0 /\ x \in Nat
<1>1. PICK m \in Nat : x = m * Tick
  BY DEF OnGrid
<1>2. Tick \in Nat \ {0}
  BY WindowAssumption
<1>3. m + 1 \in Nat /\ x + Tick = (m + 1) * Tick
  BY <1>1, <1>2, Multiple
<1>4. x \in Nat /\ x % Tick = 0
  BY <1>1, <1>2, Multiple, Zenon
<1> QED
  BY <1>3, <1>4 DEF OnGrid

\* The tick that ends at e holds the times from e - Tick on.
LEMMA GridTick ==
  ASSUME NEW x \in Nat, NEW e, OnGrid(e), e - Tick <= x, x < e
  PROVE  (x \div Tick) * Tick + Tick = e
<1>1. PICK m \in Nat : e = m * Tick
  BY DEF OnGrid
<1>2. PICK q \in Nat : q = x \div Tick
  BY Division, WindowAssumption
<1>3. PICK r : r = x % Tick
  OBVIOUS
<1>4. r \in 0..Tick - 1 /\ x = q * Tick + r /\ Tick \in Nat \ {0}
  BY <1>2, <1>3, Division, WindowAssumption
<1>5. ASSUME NEW a \in Nat, NEW b \in Nat, a <= b
      PROVE  a * Tick <= b * Tick
  BY <1>4, <1>5, Multiple
<1>6. q * Tick \in Nat /\ m * Tick \in Nat /\ (q + 1) * Tick = q * Tick + Tick
  BY <1>4, Multiple
<1>7. q < m
  <2>1. ~(m <= q)
    BY <1>1, <1>4, <1>5, <1>6
  <2> QED
    BY <2>1
<1>8. ~(q + 2 <= m)
  <2> SUFFICES ASSUME q + 2 <= m
               PROVE  FALSE
    OBVIOUS
  <2>1. (q + 2) * Tick = q * Tick + Tick + Tick
    BY <1>4
  <2>2. (q + 2) * Tick <= m * Tick
    BY <1>5
  <2> QED
    BY <1>1, <1>4, <1>6, <2>1, <2>2
<1>9. m = q + 1
  BY <1>7, <1>8
<1> QED
  BY <1>1, <1>2, <1>6, <1>9

\* Ticks end on the grid, and what the graph holds no more ended its tick a
\* window ago.
GridInv ==
  /\ OnGrid(t) /\ OnGrid(now) /\ OnGrid(cur.t_end)
  /\ \A k \in 1..Len(pending) : OnGrid(pending[k].t_end)
  /\ \A p \in 1..left : \/ p \in Held
                        \/ pc = "add" /\ i <= p
                        \/ Abstract!TickEnd(p) <= now - Window

LEMMA TickOfSlice ==
  ASSUME ControlOK, NEW s, OnGrid(s.t_end), SliceTimes(s),
         NEW p \in s.first..s.last, p \in 1..Len(stream)
  PROVE  Abstract!TickEnd(p) = s.t_end
<1>1. stream[p].ts \in Nat
  BY SliceTypes
<1>2. s.t_end - Tick <= stream[p].ts /\ stream[p].ts < s.t_end
  BY DEF SliceTimes
<1> QED
  BY <1>1, <1>2, GridTick DEF Abstract!TickEnd

LEMMA GridInit == Init => GridInv
<1> SUFFICES ASSUME Init PROVE GridInv
  OBVIOUS
<1>1. stream[1].ts \in Nat
  <2>1. stream \in Seq(Edge) /\ Len(stream) \in Nat /\ Len(stream) > 0
    BY WindowAssumption DEF Init
  <2>2. stream[1] \in Edge
    BY <2>1
  <2> QED
    BY <2>2 DEF Edge
<1>2. OnGrid(t)
  BY <1>1, GridFirst DEF Init
<1>3. 0 = 0 * Tick
  BY WindowAssumption
<1>4. OnGrid(0)
  BY <1>3 DEF OnGrid
<1>5. now = 0 /\ cur.t_end = 0 /\ Len(pending) = 0 /\ left = 0
  BY DEF Init, NoSlice
<1> QED
  BY <1>2, <1>4, <1>5 DEF GridInv

LEMMA GridStep == Control /\ GridInv /\ [Next]_vars => GridInv'
<1> SUFFICES ASSUME Control, GridInv, [Next]_vars PROVE GridInv'
  OBVIOUS
<1> USE DEF Control
<1>1. CASE StartBatch
  <2>1. /\ stream' = stream /\ pending' = pending /\ t' = t + Tick /\ i' = left + 1
        /\ now' = t + Tick /\ now <= now' /\ now \in Nat /\ now' \in Nat
        /\ left \in Nat /\ left' \in left..Len(stream) /\ cur'.t_end = t + Tick
        /\ pc = "idle" /\ pc' = IF left' > left THEN "add" ELSE "expire"
    <3>1. /\ now <= t /\ now \in Nat /\ t \in Nat /\ Tick \in Nat \ {0}
          /\ left \in Nat
      BY WindowAssumption DEF SliceInv, ClockOrdered, ControlOK
    <3>2. now' = t + Tick
      BY <1>1, <3>1 DEF StartBatch, Maximum
    <3>3. /\ left' \in left..Len(stream) /\ cur'.t_end = t + Tick
          /\ pc' = IF left' > left THEN "add" ELSE "expire"
      BY <1>1 DEF StartBatch
    <3>4. /\ stream' = stream /\ pending' = pending /\ t' = t + Tick
          /\ i' = left + 1 /\ pc = "idle"
      BY <1>1 DEF StartBatch
    <3>5. now <= now' /\ now' \in Nat
      BY <3>1, <3>2
    <3> QED
      BY <3>1, <3>2, <3>3, <3>4, <3>5
  <2>2. OnGrid(t + Tick)
    BY GridNext DEF GridInv
  <2>3. ASSUME NEW p \in 1..left'
        PROVE  \/ p \in Held'
               \/ pc' = "add" /\ i' <= p
               \/ Abstract!TickEnd(p)' <= now' - Window
    <3>1. CASE p <= left
      <4>1. p \in 1..left /\ Abstract!TickEnd(p)' = Abstract!TickEnd(p)
        BY <2>1, <3>1 DEF Abstract!TickEnd
      <4>2. p \in Held \/ Abstract!TickEnd(p) <= now - Window
        BY <2>1, <4>1 DEF GridInv
      <4>3. Abstract!TickEnd(p) <= now - Window => Abstract!TickEnd(p) <= now' - Window
        <5>1. stream[p].ts \in Nat /\ Window \in Nat /\ Tick \in Nat \ {0}
          BY <2>1, <4>1, SliceTypes, WindowAssumption
        <5>2. Abstract!TickEnd(p) \in Int
          BY <5>1, Division, Multiple DEF Abstract!TickEnd
        <5> QED
          BY <2>1, <5>1, <5>2
      <4> QED
        BY <1>1, <4>1, <4>2, <4>3, HeldStartBatch
    <3>2. CASE ~(p <= left)
      BY <2>1, <3>2
    <3> QED
      BY <3>1, <3>2
  <2> QED
    BY <2>1, <2>2, <2>3 DEF GridInv
<1>2. CASE AddEdge
  <2>1. /\ stream' = stream /\ cur' = cur /\ now' = now /\ left' = left /\ t' = t
        /\ pc = "add" /\ i' = i + 1 /\ i \in Nat /\ left \in Nat
    BY <1>2 DEF AddEdge, source, ControlOK
  <2>2. /\ Held' = Held \cup {i}
        /\ \A p \in 1..left : Abstract!TickEnd(p)' = Abstract!TickEnd(p)
    BY <1>2, <2>1, HeldAddEdge DEF Abstract!TickEnd
  <2>3. ASSUME NEW k \in 1..Len(pending')
        PROVE  OnGrid(pending'[k].t_end)
    <3>1. CASE i = cur.last
      <4>1. pending' = Append(pending, cur) /\ pending \in Seq(Slice) /\ cur \in Slice
        BY <1>2, <3>1 DEF AddEdge, ControlOK
      <4> QED
        BY <4>1 DEF GridInv
    <3>2. CASE i # cur.last
      BY <1>2, <3>2 DEF AddEdge, GridInv
    <3> QED
      BY <3>1, <3>2
  <2>4. ASSUME NEW p \in 1..left
        PROVE  \/ p \in Held'
               \/ pc' = "add" /\ i' <= p
               \/ Abstract!TickEnd(p)' <= now' - Window
    <3>1. pc' = IF i = cur.last THEN "expire" ELSE "add"
      BY <1>2, <2>1 DEF AddEdge
    <3>2. i = cur.last => i = left
      BY <1>2, <2>1 DEF SliceInv, LoopPlaced
    <3>3. p \in Held \/ i <= p \/ Abstract!TickEnd(p) <= now - Window
      BY DEF GridInv
    <3> QED
      BY <2>1, <2>2, <3>1, <3>2, <3>3
  <2> QED
    BY <2>1, <2>3, <2>4 DEF GridInv
<1>3. CASE PopSlice
  <2>1. /\ stream' = stream /\ now' = now /\ left' = left /\ t' = t
        /\ pc = "expire" /\ pc' = "remove" /\ Len(pending) > 0
        /\ cur' = pending[1] /\ pending' = Tail(pending) /\ pending \in Seq(Slice)
        /\ \A p : Abstract!TickEnd(p)' = Abstract!TickEnd(p)
    BY <1>3 DEF PopSlice, Due, source, ControlOK, Abstract!TickEnd
  <2>2. Len(pending') = Len(pending) - 1 /\ Len(pending) \in Nat
        /\ \A k \in 1..Len(pending') : pending'[k] = pending[k + 1]
    BY <2>1
  <2>3. Held' = Held
    BY <1>3, HeldPopSlice
  <2>4. \A k \in 1..Len(pending') : OnGrid(pending'[k].t_end)
    BY <2>2 DEF GridInv
  <2>5. OnGrid(cur'.t_end)
    BY <2>1, <2>2 DEF GridInv
  <2>6. \A p \in 1..left : p \in Held' \/ Abstract!TickEnd(p)' <= now' - Window
    BY <2>1, <2>3 DEF GridInv
  <2> QED
    BY <2>1, <2>4, <2>5, <2>6 DEF GridInv
<1>4. CASE RemoveEdge
  <2>1. /\ stream' = stream /\ now' = now /\ left' = left /\ t' = t
        /\ cur' = cur /\ pending' = pending /\ pc = "remove"
        /\ \A p : Abstract!TickEnd(p)' = Abstract!TickEnd(p)
    BY <1>4 DEF RemoveEdge, source, Abstract!TickEnd
  <2>2. Held' = Held \ {i}
    BY <1>4, HeldRemoveEdge
  <2>3. i \in cur.first..cur.last /\ i \in 1..Len(stream)
        /\ cur.t_end <= now - Window /\ SliceTimes(cur)
    BY <2>1, SliceTypes DEF SliceInv, LoopPlaced, ControlOK
  <2>4. Abstract!TickEnd(i) <= now - Window
    BY <2>3, TickOfSlice DEF GridInv
  <2>5. ASSUME NEW p \in 1..left
        PROVE  p \in Held' \/ Abstract!TickEnd(p)' <= now' - Window
    BY <2>1, <2>2, <2>4 DEF GridInv
  <2> QED
    BY <2>1, <2>5 DEF GridInv
<1>5. CASE Return
  <2>1. /\ stream' = stream /\ now' = now /\ left' = left /\ t' = t
        /\ cur' = cur /\ pending' = pending /\ pc = "expire"
        /\ \A p : Abstract!TickEnd(p)' = Abstract!TickEnd(p)
    BY <1>5 DEF Return, source, Abstract!TickEnd
  <2> QED
    BY <1>5, <2>1, HeldReturn DEF GridInv
<1>6. CASE UNCHANGED vars
  <2>1. /\ stream' = stream /\ now' = now /\ left' = left /\ t' = t /\ i' = i
        /\ cur' = cur /\ pending' = pending /\ pc' = pc
        /\ \A p : Abstract!TickEnd(p)' = Abstract!TickEnd(p)
    BY <1>6 DEF vars, Abstract!TickEnd
  <2>2. Held' = Held
    BY <2>1 DEF Held, OnDeque
  <2> QED
    BY <2>1, <2>2 DEF GridInv
<1> QED
  BY <1>1, <1>2, <1>3, <1>4, <1>5, <1>6 DEF Next

LEMMA GridAlways == Spec => []GridInv
<1> QED
  BY GridInit, GridStep, ControlAlways, PTL DEF Spec

\* Between calls the graph holds exactly what its clock's window calls for.
LEMMA IdleHoldsTheWindow ==
  ASSUME Control, GridInv, pc = "idle" PROVE Held = Abstract!InWindow(now)
<1> USE DEF Control
<1>1. /\ left \in 0..Len(stream) /\ Len(stream) \in Nat /\ now \in Nat /\ t \in Nat
      /\ now <= t
  BY DEF ControlOK, SliceInv, ClockOrdered
<1>2. ASSUME NEW p \in Held
      PROVE  p \in Abstract!InWindow(now)
  <2>1. p \in 1..left /\ p \in 1..Len(stream)
    BY <1>1 DEF Held
  <2>2. PICK k \in 1..Len(pending) : pending[k].first <= p /\ p <= pending[k].last
    BY DEF Held, OnDeque
  <2>3. PICK s : s = pending[k]
    OBVIOUS
  <2>4. /\ s.first \in Nat /\ s.last \in Nat /\ s.t_end \in Nat
        /\ stream[p].ts \in Nat
    BY <2>1, <2>3, SliceTypes
  <2>5. /\ SliceTimes(s) /\ s.t_end <= now /\ OnGrid(s.t_end)
        /\ s.t_end > now - Window
    BY <2>3 DEF SliceInv, DequeOrdered, LoopPlaced, GridInv
  <2>6. p \in s.first..s.last
    BY <2>1, <2>2, <2>3, <2>4
  <2>7. Abstract!TickEnd(p) = s.t_end
    BY <2>1, <2>5, <2>6, TickOfSlice
  <2>8. stream[p].ts < s.t_end
    BY <2>5, <2>6 DEF SliceTimes
  <2>9. stream[p].ts < now /\ Abstract!TickEnd(p) > now - Window
    BY <1>1, <2>4, <2>5, <2>7, <2>8
  <2> QED
    BY <2>1, <2>9 DEF Abstract!InWindow, Abstract!Positions
<1>3. ASSUME NEW p \in Abstract!InWindow(now)
      PROVE  p \in Held
  <2>1. /\ p \in 1..Len(stream) /\ stream[p].ts < now
        /\ Abstract!TickEnd(p) > now - Window
    BY DEF Abstract!InWindow, Abstract!Positions
  <2>2. stream[p].ts \in Nat
    BY <2>1, SliceTypes
  <2>3. ~(left < p)
    BY <1>1, <2>1, <2>2 DEF SliceInv, ClockOrdered
  <2>4. p \in 1..left
    BY <1>1, <2>1, <2>3
  <2>5. Tick \in Nat \ {0} /\ Window \in Nat \ {0}
    BY WindowAssumption
  <2>6. Abstract!TickEnd(p) \in Int
    BY <2>2, <2>5, Division, Multiple DEF Abstract!TickEnd
  <2>7. ~(Abstract!TickEnd(p) <= now - Window)
    BY <1>1, <2>1, <2>5, <2>6
  <2> QED
    BY <2>4, <2>7 DEF GridInv
<1> QED
  BY <1>2, <1>3

LEMMA WindowStep ==
  Control /\ GridInv /\ [Next]_vars => [Abstract!Next]_(Abstract!vars)
<1> SUFFICES ASSUME Control, GridInv, [Next]_vars
             PROVE  [Abstract!Next]_(Abstract!vars)
  OBVIOUS
<1> USE DEF Control
<1>1. CASE StartBatch
  <2>1. /\ now <= t /\ now \in Nat /\ t \in Nat /\ Tick \in Nat \ {0}
        /\ pc = "idle" /\ stream' = stream
    BY <1>1, WindowAssumption DEF StartBatch, SliceInv, ClockOrdered, ControlOK
  <2>2. now' = t + Tick
    BY <1>1, <2>1 DEF StartBatch, Maximum
  <2>3. OnGrid(now')
    BY <2>2, GridNext DEF GridInv
  <2>4. now' > now /\ now' % Tick = 0
    BY <2>1, <2>2, <2>3, GridNext
  <2>5. Held = Abstract!InWindow(now) /\ Held' = Held
    BY <1>1, <2>1, IdleHoldsTheWindow, HeldStartBatch
  <2>6. Abstract!Advance
    BY <2>1, <2>4, <2>5 DEF Abstract!Advance
  <2> QED
    BY <2>6 DEF Abstract!Next
<1>2. CASE AddEdge
  <2>1. /\ Held' = Held \cup {i} /\ i \notin Held /\ i \in 1..left
        /\ \A p \in Held : p < i
    BY <1>2, HeldAddEdge
  <2>2. /\ pc = "add" /\ stream' = stream /\ now' = now /\ now \in Nat
        /\ left \in 0..Len(stream) /\ Window \in Nat \ {0}
        /\ cur.t_end = now /\ SliceTimes(cur) /\ OnGrid(cur.t_end)
        /\ i \in cur.first..cur.last
    BY <1>2, SliceTypes, WindowAssumption
       DEF AddEdge, source, SliceInv, LoopPlaced, ControlOK, GridInv
  <2>3. i \in 1..Len(stream)
    BY <2>1, <2>2
  <2>4. Abstract!TickEnd(i) = now /\ stream[i].ts < now
    BY <2>2, <2>3, TickOfSlice DEF SliceTimes
  <2>5. i \in Abstract!InWindow(now)
    BY <2>2, <2>3, <2>4 DEF Abstract!InWindow, Abstract!Positions
  <2>6. Abstract!Enter
    BY <2>1, <2>2, <2>5 DEF Abstract!Enter
  <2> QED
    BY <2>6 DEF Abstract!Next
<1>3. CASE RemoveEdge
  <2>1. Held' = Held \ {i} /\ i \in Held /\ \A p \in Held : i <= p
    BY <1>3, HeldRemoveEdge
  <2>2. /\ stream' = stream /\ now' = now
        /\ cur.t_end <= now - Window /\ SliceTimes(cur) /\ OnGrid(cur.t_end)
        /\ i \in cur.first..cur.last /\ i \in 1..Len(stream)
    BY <1>3, SliceTypes
       DEF RemoveEdge, source, SliceInv, LoopPlaced, ControlOK, GridInv
  <2>3. Abstract!TickEnd(i) = cur.t_end
    BY <2>2, TickOfSlice
  <2>4. i \notin Abstract!InWindow(now)
    <3>1. now \in Nat /\ Window \in Nat /\ cur.t_end \in Nat
      BY SliceTypes, WindowAssumption DEF ControlOK
    <3>2. ~(cur.t_end > now - Window)
      BY <2>2, <3>1
    <3> QED
      BY <2>3, <3>2 DEF Abstract!InWindow
  <2>5. Abstract!Leave
    BY <2>1, <2>2, <2>4 DEF Abstract!Leave
  <2> QED
    BY <2>5 DEF Abstract!Next
<1>4. CASE PopSlice
  BY <1>4, HeldPopSlice DEF PopSlice, source, Abstract!vars
<1>5. CASE Return
  BY <1>5, HeldReturn DEF Return, source, Abstract!vars
<1>6. CASE UNCHANGED vars
  <2>1. Held' = Held
    BY <1>6 DEF vars, Held, OnDeque
  <2> QED
    BY <1>6, <2>1 DEF vars, Abstract!vars
<1> QED
  BY <1>1, <1>2, <1>3, <1>4, <1>5, <1>6 DEF Next

\* Loops, deque and all, the graph is never anything but a trailing window:
\* its clock moves only when it holds exactly what the window calls for, and
\* transactions come and go one at a time, in stream order (window.py:102-173).
THEOREM WindowIsKept == Spec => Abstract!Init /\ [][Abstract!Next]_(Abstract!vars)
<1>1. Init => Abstract!Init
  BY DEF Init, Abstract!Init, Held
<1> QED
  BY <1>1, WindowStep, ControlAlways, GridAlways, PTL DEF Spec

-----------------------------------------------------------------------------
(* The times of a pair                                                     *)

\* first_t is the time of a transaction handed out, held or expired, and no
\* later than any that is held.
TimesInv ==
  \A k \in DOMAIN pairs :
    /\ \A p \in HeldOf(k) : pairs[k].first_t <= stream[p].ts
    /\ \E p \in 1..left : Key(stream[p]) = k /\ stream[p].ts = pairs[k].first_t

LEMMA TimesAddEdge ==
  ASSUME Control, AggInv, TimesInv, AddEdge PROVE TimesInv'
<1> DEFINE e == stream[i]
<1>1. PICK k : k = Key(e)
  OBVIOUS
<1>2. /\ stream' = stream /\ i \in 1..left /\ left \in 0..Len(stream) /\ left' = left
      /\ Held' = Held \cup {i} /\ \A p \in Held : p < i
  BY HeldAddEdge DEF AddEdge, source, Control, ControlOK
<1>3. e \in Edge /\ e.ts \in Nat /\ k \in Nodes \X Nodes
  <2>1. e \in Edge
    BY <1>2 DEF Control, ControlOK
  <2> QED
    BY <1>1, <2>1 DEF Edge, Key
<1>4. pairs' = Put(pairs, k, AggAdd(IF k \notin DOMAIN pairs THEN NewAgg ELSE pairs[k], e))
  BY <1>1 DEF AddEdge
<1>5. /\ HeldOf(k)' = HeldOf(k) \cup {i}
      /\ \A x : x # k => HeldOf(x)' = HeldOf(x)
  BY <1>1, <1>2 DEF HeldOf
<1>6. /\ DOMAIN pairs' = DOMAIN pairs \cup {k}
      /\ \A x \in DOMAIN pairs : x # k => pairs'[x] = pairs[x]
      /\ pairs'[k] = AggAdd(IF k \notin DOMAIN pairs THEN NewAgg ELSE pairs[k], e)
  BY <1>4 DEF Put
<1>7. /\ \A p \in HeldOf(k)' : pairs'[k].first_t <= stream[p].ts
      /\ \E p \in 1..left : Key(stream[p]) = k /\ stream[p].ts = pairs'[k].first_t
  <2>1. CASE k \notin DOMAIN pairs
    <3>1. HeldOf(k) = {}
      BY <1>3, <2>1 DEF AggInv, CountsMatchHeld
    <3>2. pairs'[k].first_t = e.ts
      BY <1>6, <2>1 DEF AggAdd, NewAgg
    <3> QED
      BY <1>1, <1>2, <1>3, <1>5, <3>1, <3>2
  <2>2. CASE k \in DOMAIN pairs
    <3>1. pairs[k] \in Agg
      BY <2>2 DEF AggInv, AggregatesOK
    <3>2. pairs'[k].first_t = pairs[k].first_t /\ pairs[k].first_t \in Nat
      BY <1>6, <2>2, <3>1 DEF AggAdd, Agg
    <3>3. PICK q \in HeldOf(k) : TRUE
      BY <1>3, <2>2 DEF AggInv, CountsMatchHeld
    <3>4. q \in 1..Len(stream) /\ i \in 1..Len(stream) /\ q <= i
      BY <1>2, <3>3 DEF HeldOf, Held
    <3>5. stream[q].ts <= e.ts /\ stream[q].ts \in Nat
      BY <3>4, SliceTypes DEF Control, ControlOK, TimeOrdered
    <3>6. pairs[k].first_t <= e.ts
      BY <1>3, <2>2, <3>2, <3>3, <3>5 DEF TimesInv
    <3> QED
      BY <1>5, <2>2, <3>2, <3>6 DEF TimesInv
  <2> QED
    BY <2>1, <2>2
<1>8. ASSUME NEW x \in DOMAIN pairs'
      PROVE  /\ \A p \in HeldOf(x)' : pairs'[x].first_t <= stream'[p].ts
             /\ \E p \in 1..left' : /\ Key(stream'[p]) = x
                                    /\ stream'[p].ts = pairs'[x].first_t
  <2>1. CASE x = k
    BY <1>2, <1>7, <2>1
  <2>2. CASE x # k
    <3>1. x \in DOMAIN pairs /\ pairs'[x] = pairs[x] /\ HeldOf(x)' = HeldOf(x)
      BY <1>5, <1>6, <2>2
    <3> QED
      BY <1>2, <3>1 DEF TimesInv
  <2> QED
    BY <2>1, <2>2
<1> QED
  BY <1>8 DEF TimesInv

LEMMA TimesRemoveEdge ==
  ASSUME Control, AggInv, TimesInv, RemoveEdge PROVE TimesInv'
<1> DEFINE e == stream[i]
<1>1. PICK k : k = Key(e)
  OBVIOUS
<1>2. /\ stream' = stream /\ left' = left /\ Held' = Held \ {i} /\ i \in Held
  BY HeldRemoveEdge DEF RemoveEdge, source
<1>3. k \in DOMAIN pairs /\ Forget(e) /\ pairs[k] \in Agg
  <2>1. i \in 1..Len(stream)
    BY <1>2 DEF Held, Control, ControlOK
  <2>2. e \in Edge
    BY <2>1 DEF Control, ControlOK
  <2>3. k \in Nodes \X Nodes /\ i \in HeldOf(k)
    BY <1>1, <1>2, <2>2 DEF Edge, Key, HeldOf
  <2>4. k \in DOMAIN pairs
    BY <2>3 DEF AggInv, CountsMatchHeld
  <2> QED
    BY <1>1, <2>4 DEF RemoveEdge, AggInv, AggregatesOK
<1>4. /\ DOMAIN pairs' \subseteq DOMAIN pairs
      /\ \A x \in DOMAIN pairs' : pairs'[x].first_t = pairs[x].first_t
  <2>1. CASE LowerPair(e)
    <3>1. pairs' = Put(pairs, k, AggRemove(pairs[k], e))
      BY <1>1, <2>1 DEF LowerPair
    <3>2. AggRemove(pairs[k], e).first_t = pairs[k].first_t
      BY <1>3 DEF AggRemove, Agg
    <3> QED
      BY <1>3, <3>1, <3>2 DEF Put
  <2>2. CASE DropPair(e)
    BY <2>2 DEF DropPair, Del
  <2> QED
    BY <1>3, <2>1, <2>2 DEF Forget
<1>5. \A x : HeldOf(x)' \subseteq HeldOf(x)
  BY <1>2 DEF HeldOf
<1> QED
  BY <1>2, <1>4, <1>5 DEF TimesInv

LEMMA TimesStep == Control /\ AggInv /\ TimesInv /\ [Next]_vars => TimesInv'
<1> SUFFICES ASSUME Control, AggInv, TimesInv, [Next]_vars PROVE TimesInv'
  OBVIOUS
<1>1. ASSUME pairs' = pairs, Held' = Held, stream' = stream, left \in Nat,
             left' \in Nat, left <= left'
      PROVE  TimesInv'
  <2>1. \A k : HeldOf(k)' = HeldOf(k)
    BY <1>1 DEF HeldOf, Key
  <2>2. 1..left \subseteq 1..left'
    BY <1>1
  <2> QED
    BY <1>1, <2>1, <2>2 DEF TimesInv, Key
<1>2. left \in Nat
  BY DEF Control, ControlOK
<1>3. CASE StartBatch
  <2>1. left' \in left..Len(stream) /\ pairs' = pairs /\ stream' = stream
    BY <1>3 DEF StartBatch, aggregates
  <2>2. left' \in Nat /\ left <= left'
    BY <1>2, <2>1
  <2> QED
    BY <1>1, <1>2, <1>3, <2>1, <2>2, HeldStartBatch
<1>4. CASE PopSlice
  BY <1>1, <1>2, <1>4, HeldPopSlice DEF PopSlice, source, aggregates
<1>5. CASE Return
  BY <1>1, <1>2, <1>5, HeldReturn DEF Return, source, aggregates
<1>6. CASE UNCHANGED vars
  <2>1. Held' = Held
    BY <1>6 DEF vars, Held, OnDeque
  <2> QED
    BY <1>1, <1>2, <1>6, <2>1 DEF vars
<1> QED
  BY <1>3, <1>4, <1>5, <1>6, TimesAddEdge, TimesRemoveEdge DEF Next

LEMMA TimesAlways == Spec => []TimesInv
<1>1. Init => TimesInv
  BY DEF Init, TimesInv
<1> QED
  BY <1>1, TimesStep, ControlAlways, AggAlways, PTL DEF Spec

\* A pair's interval spans the transactions held of it, and starts and ends
\* at transactions of it.
LEMMA IntervalSpans ==
  ASSUME Control, AggInv, TimesInv, NEW k \in DOMAIN pairs
  PROVE  /\ pairs[k].first_t \in Nat /\ pairs[k].last_t \in Nat
         /\ \A p \in HeldOf(k) : /\ stream[p].ts \in Nat
                                 /\ pairs[k].first_t <= stream[p].ts
                                 /\ stream[p].ts <= pairs[k].last_t
         /\ \E p \in 1..left : Key(stream[p]) = k /\ stream[p].ts = pairs[k].first_t
         /\ \E p \in HeldOf(k) : stream[p].ts = pairs[k].last_t
<1>1. pairs[k] \in Agg
  BY DEF AggInv, AggregatesOK
<1>2. pairs[k].first_t \in Nat /\ pairs[k].last_t \in Nat
  BY <1>1 DEF Agg
<1>3. PICK l \in HeldOf(k) : /\ pairs[k].last_t = stream[l].ts
                             /\ \A q \in HeldOf(k) : q <= l
  BY DEF AggInv, LastTimeIsHeld
<1>4. \A p \in HeldOf(k) : p \in 1..Len(stream)
  BY DEF HeldOf, Held, Control, ControlOK
<1>5. ASSUME NEW p \in HeldOf(k)
      PROVE  stream[p].ts \in Nat /\ stream[p].ts <= pairs[k].last_t
  <2>1. p \in 1..Len(stream) /\ l \in 1..Len(stream) /\ p <= l
    BY <1>3, <1>4
  <2> QED
    BY <1>3, <2>1, SliceTypes DEF Control, ControlOK, TimeOrdered
<1> QED
  BY <1>2, <1>3, <1>5 DEF TimesInv

-----------------------------------------------------------------------------
(* What the detectors read off the intervals                               *)

LEMMA Wrap ==
  ASSUME NEW n \in Nat \ {0}, NEW j \in 0..n - 1 PROVE (j + n) % n = j
<1>1. PICK x \in Nat : x = j + n
  OBVIOUS
<1>2. PICK q \in Nat : q = x \div n
  BY Division
<1>3. PICK r : r = x % n
  OBVIOUS
<1>4. r \in 0..n - 1 /\ x = q * n + r
  BY <1>2, <1>3, Division
<1>5. q * n \in Nat /\ (q = 0 => q * n = 0) /\ (q = 1 => q * n = n)
  BY SMTT(30)
<1>6. 2 <= q => 2 * n <= q * n
  BY Multiple
<1>7. q = 1
  BY <1>1, <1>4, <1>5, <1>6
<1> QED
  BY <1>1, <1>3, <1>4, <1>5, <1>7

\* A cycle is a sequence of accounts, every hop of which is an edge.
LEMMA CycleShape ==
  ASSUME NEW E, NEW c \in find_cycles(E)
  PROVE  /\ Len(c) \in Nat /\ Len(c) >= 3
         /\ DOMAIN c = 1..Len(c) /\ c = [k \in 1..Len(c) |-> c[k]]
         /\ \A k \in 1..Len(c) : HopOf(c, k) \in E
<1>1. PICK n \in 3..Minimum(MAX_CYCLE_LEN, Cardinality(Endpoints(E))) :
        c \in {x \in [1..n -> Endpoints(E)] :
                 /\ Cardinality({x[k] : k \in 1..n}) = n
                 /\ \A k \in 1..n : <<x[k], x[(k % n) + 1]>> \in E}
  BY DEF find_cycles
<1>2. /\ c \in [1..n -> Endpoints(E)]
      /\ \A k \in 1..n : <<c[k], c[(k % n) + 1]>> \in E
  BY <1>1
<1>3. n \in Nat /\ n >= 3
  BY <1>1
<1>4. c \in Seq(Endpoints(E)) /\ Len(c) = n
  BY <1>2, <1>3
<1> QED
  BY <1>2, <1>3, <1>4 DEF HopOf

\* Reading a cycle from its own first account is one of its rotations.
LEMMA OwnRotation ==
  ASSUME NEW E, NEW c \in find_cycles(E) PROVE c \in Rotated(c)
<1>1. PICK n \in Nat : n = Len(c) /\ n >= 3
  BY CycleShape
<1>2. DOMAIN c = 1..n /\ c = [k \in 1..n |-> c[k]]
  BY <1>1, CycleShape
<1>3. PICK s : s = n - 1
  OBVIOUS
<1>4. s \in 1..n
  BY <1>1, <1>3
<1>5. PICK r : r = [k \in DOMAIN c |-> c[((k + s) % Len(c)) + 1]]
  OBVIOUS
<1>6. ASSUME NEW k \in 1..n
      PROVE  r[k] = c[k]
  <2>1. k - 1 \in 0..n - 1 /\ k + s = (k - 1) + n /\ n \in Nat \ {0}
    BY <1>1, <1>3
  <2>2. (k + s) % n = k - 1
    BY <2>1, Wrap
  <2>3. ((k + s) % n) + 1 = k
    BY <2>2
  <2> QED
    BY <1>1, <1>2, <1>5, <2>3
<1>7. r = c
  BY <1>2, <1>5, <1>6
<1>8. r \in Rotated(c)
  BY <1>2, <1>4, <1>5 DEF Rotated
<1> QED
  BY <1>7, <1>8

\* Money that went round a loop, or down a strand, among the transactions held
\* is never missed: the intervals of the pairs admit it (motifs.py:130-240).
THEOREM NothingMissed == Spec => []NothingRealIsMissed
<1>1. ASSUME Control, AggInv, TimesInv
      PROVE  NothingRealIsMissed
  <2> DEFINE E == DOMAIN pairs
  <2>1. ASSUME NEW c \in find_cycles(E), Travelled(c, Held)
        PROVE  c \in temporal_cycles(E)
    <3>1. PICK f \in [DOMAIN c -> Held] :
            /\ \A k \in DOMAIN c : Key(stream[f[k]]) = HopOf(c, k)
            /\ \A j, k \in DOMAIN c : j < k => stream[f[j]].ts <= stream[f[k]].ts
      BY <2>1 DEF Travelled
    <3>2. \A k \in DOMAIN c : HopOf(c, k) \in E /\ f[k] \in HeldOf(HopOf(c, k))
      BY <3>1, CycleShape DEF HeldOf
    <3>3. ASSUME NEW j \in DOMAIN c, NEW k \in DOMAIN c, j < k
          PROVE  pairs[HopOf(c, k)].last_t >= pairs[HopOf(c, j)].first_t
      <4>1. PICK a \in E : a = HopOf(c, j)
        BY <3>2
      <4>2. PICK b \in E : b = HopOf(c, k)
        BY <3>2
      <4>3. /\ stream[f[j]].ts \in Nat /\ pairs[a].first_t <= stream[f[j]].ts
            /\ stream[f[k]].ts \in Nat /\ stream[f[k]].ts <= pairs[b].last_t
            /\ pairs[a].first_t \in Nat /\ pairs[b].last_t \in Nat
        BY <1>1, <3>2, <4>1, <4>2, IntervalSpans
      <4>4. stream[f[j]].ts <= stream[f[k]].ts
        BY <3>1, <3>3
      <4> QED
        BY <4>1, <4>2, <4>3, <4>4
    <3>4. Travels(c)
      BY <3>3 DEF Travels
    <3> QED
      BY <3>4, OwnRotation DEF temporal_cycles, is_temporally_valid
  <2>2. ASSUME NEW a \in Nodes, NEW b \in Nodes, NEW m \in Strands(E, a, b),
               Passed({a}, m, {b}, Held, SCATTER_GATHER_WINDOW_MINUTES)
        PROVE  m \in FastStrands(E, a, b)
    <3>1. PICK p \in Held : \E q \in Held :
            /\ stream[p].src \in {a} /\ stream[p].dst = m
            /\ stream[q].src = m /\ stream[q].dst \in {b}
            /\ stream[q].ts - stream[p].ts \in 0..SCATTER_GATHER_WINDOW_MINUTES
      BY <2>2 DEF Passed
    <3>2. PICK q \in Held :
            /\ stream[p].src \in {a} /\ stream[p].dst = m
            /\ stream[q].src = m /\ stream[q].dst \in {b}
            /\ stream[q].ts - stream[p].ts \in 0..SCATTER_GATHER_WINDOW_MINUTES
      BY <3>1
    <3>3. PICK x : x = <<a, m>>
      OBVIOUS
    <3>4. PICK y : y = <<m, b>>
      OBVIOUS
    <3>5. p \in HeldOf(x) /\ q \in HeldOf(y)
      BY <3>2, <3>3, <3>4 DEF HeldOf, Key
    <3>6. m \in Succ(E, a) /\ m \in Pred(E, b)
      BY DEF Strands
    <3>7. x \in E /\ y \in E
      <4>1. PICK e1 \in E : e1[1] = a /\ e1[2] = m
        BY <3>6 DEF Succ
      <4>2. PICK e2 \in E : e2[2] = b /\ e2[1] = m
        BY <3>6 DEF Pred
      <4>3. E \subseteq Nodes \X Nodes
        BY <1>1 DEF AggInv, AggregatesOK
      <4> QED
        BY <3>3, <3>4, <4>1, <4>2, <4>3
    <3>8. /\ stream[p].ts \in Nat /\ stream[q].ts \in Nat
          /\ pairs[x].first_t \in Nat /\ pairs[x].last_t \in Nat
          /\ pairs[y].first_t \in Nat /\ pairs[y].last_t \in Nat
          /\ pairs[x].first_t <= stream[p].ts /\ stream[p].ts <= pairs[x].last_t
          /\ pairs[y].first_t <= stream[q].ts /\ stream[q].ts <= pairs[y].last_t
      BY <1>1, <3>5, <3>7, IntervalSpans
    <3>9. SCATTER_GATHER_WINDOW_MINUTES \in Nat
      BY ShapesAssumption
    <3>10. LegsFit(pairs[x], pairs[y], SCATTER_GATHER_WINDOW_MINUTES)
      BY <3>2, <3>8, <3>9 DEF LegsFit
    <3> QED
      BY <3>3, <3>4, <3>10 DEF FastStrands
  <2> QED
    BY <2>1, <2>2 DEF NothingRealIsMissed
<1> QED
  BY <1>1, ControlAlways, AggAlways, TimesAlways, PTL

\* What a link is made of: accounts outside both fragments, finitely many.
LEMMA BridgeStays ==
  ASSUME Control, AggInv, NEW pool, NEW C1 \in SUBSET Nodes, NEW C2 \in SUBSET Nodes
  PROVE  /\ bridge(pool, C1, C2) \cap (C1 \cup C2) = {}
         /\ bridge(pool, C1, C2) \subseteq Nodes
         /\ Cardinality(bridge(pool, C1, C2)) \in Nat
         /\ bridge(pool, C1, C2) # {} => Cardinality(bridge(pool, C1, C2)) >= 1
<1>1. out_adj \in [Nodes -> SUBSET Nodes]
  BY DEF AggInv, AggregatesOK
<1>2. PICK b : b = bridge(pool, C1, C2)
  OBVIOUS
<1>3. \A x \in b : x \in BoundaryOut(C1) /\ x \in BoundaryIn(C2)
  BY <1>2 DEF bridge
<1>4. b \subseteq Nodes /\ b \cap (C1 \cup C2) = {}
  BY <1>1, <1>3 DEF BoundaryOut, BoundaryIn
<1>5. IsFiniteSet(b)
  BY <1>4, ShapesAssumption, FS_Subset
<1>6. Cardinality(b) \in Nat /\ (Cardinality(b) = 0 <=> b = {})
  BY <1>5, FS_CardinalityType, FS_EmptySet
<1> QED
  BY <1>2, <1>4, <1>6

\* A link rests on a transaction into its bridge and a later one out of it, and
\* two fragments joined by transactions held are linked (link.py:96-210).
THEOREM LinksWitnessed == Spec => []LinksAreWitnessed
<1>1. ASSUME Control, AggInv, TimesInv
      PROVE  LinksAreWitnessed
  <2> USE <1>1
  <2> DEFINE pool == {C \in SUBSET Nodes : Cardinality(C) \in 1..MinFragment + 1}
  <2>1. ASSUME NEW C1 \in pool, NEW C2 \in pool
        PROVE  LET b == bridge(pool, C1, C2)
               IN /\ <<C1, C2>> \in find_links(pool) =>
                       /\ b \cap (C1 \cup C2) = {}
                       /\ \E x \in b : Passed(C1, x, C2, 1..left, Ever)
                  /\ /\ ~(C1 \subseteq C2) /\ ~(C2 \subseteq C1)
                     /\ Minimum(Cardinality(C1), Cardinality(C2)) >= MinFragment
                     /\ Cardinality(b) <= MAX_BRIDGE
                     /\ Cardinality(C1 \cup C2) <= MAX_MERGED_NODES
                     /\ \E x \in b : Passed(C1, x, C2, Held, Ever)
                     => <<C1, C2>> \in find_links(pool)
    <3>1. /\ C1 \in SUBSET Nodes /\ C2 \in SUBSET Nodes
          /\ Cardinality(C1) \in Nat /\ Cardinality(C2) \in Nat
      OBVIOUS
    <3> HIDE DEF pool
    <3>2. PICK b : b = bridge(pool, C1, C2)
      OBVIOUS
    <3>3. /\ b \cap (C1 \cup C2) = {} /\ Cardinality(b) \in Nat
          /\ b # {} => Cardinality(b) >= 1
      BY <3>1, <3>2, BridgeStays
    <3>4. ASSUME <<C1, C2>> \in find_links(pool)
          PROVE  \E x \in b : Passed(C1, x, C2, 1..left, Ever)
      <4>1. PICK x \in b : TemporallyOrdered(C1, x, C2)
        BY <3>2, <3>4 DEF find_links
      <4>2. PICK n \in C1, m \in C2 :
              /\ <<n, x>> \in DOMAIN pairs /\ <<x, m>> \in DOMAIN pairs
              /\ pairs[<<x, m>>].last_t >= pairs[<<n, x>>].first_t
        BY <4>1 DEF TemporallyOrdered
      <4>3. PICK into \in DOMAIN pairs : into = <<n, x>>
        BY <4>2
      <4>4. PICK out \in DOMAIN pairs : out = <<x, m>>
        BY <4>2
      <4>5. PICK p \in 1..left : /\ Key(stream[p]) = into
                                 /\ stream[p].ts = pairs[into].first_t
        BY IntervalSpans
      <4>6. PICK q \in HeldOf(out) : stream[q].ts = pairs[out].last_t
        BY IntervalSpans
      <4>7. /\ q \in Held /\ Key(stream[q]) = out
            /\ q \in 1..Len(stream) /\ Len(stream) \in 1..Len(stream)
            /\ q <= Len(stream)
        BY DEF HeldOf, Held, Control, ControlOK
      <4>8. stream[q].ts <= Ever
        BY <4>7 DEF Ever, Control, ControlOK, TimeOrdered
      <4>9. /\ stream[p].ts \in Nat /\ stream[q].ts \in Nat /\ Ever \in Nat
            /\ stream[p].ts <= stream[q].ts
        <5>1. stream[q].ts \in Nat /\ Ever \in Nat
          BY <4>7, SliceTypes DEF Ever, Control
        <5>2. stream[p].ts \in Nat
          BY <4>5, IntervalSpans
        <5> QED
          BY <4>2, <4>3, <4>4, <4>5, <4>6, <5>1, <5>2
      <4>10. stream[q].ts - stream[p].ts \in 0..Ever
        BY <4>8, <4>9
      <4>11. /\ stream[p].src \in C1 /\ stream[p].dst = x
             /\ stream[q].src = x /\ stream[q].dst \in C2
        BY <4>3, <4>4, <4>5, <4>7 DEF Key
      <4> QED
        BY <4>7, <4>10, <4>11 DEF Passed
    <3>5. ASSUME ~(C1 \subseteq C2), ~(C2 \subseteq C1),
                 Minimum(Cardinality(C1), Cardinality(C2)) >= MinFragment,
                 Cardinality(b) <= MAX_BRIDGE,
                 Cardinality(C1 \cup C2) <= MAX_MERGED_NODES,
                 NEW x \in b, Passed(C1, x, C2, Held, Ever)
          PROVE  <<C1, C2>> \in find_links(pool)
      <4>1. PICK p \in Held : \E q \in Held :
              /\ stream[p].src \in C1 /\ stream[p].dst = x
              /\ stream[q].src = x /\ stream[q].dst \in C2
              /\ stream[q].ts - stream[p].ts \in 0..Ever
        BY <3>5 DEF Passed
      <4>2. PICK q \in Held :
              /\ stream[p].src \in C1 /\ stream[p].dst = x
              /\ stream[q].src = x /\ stream[q].dst \in C2
              /\ stream[q].ts - stream[p].ts \in 0..Ever
        BY <4>1
      <4>3. PICK into : into = Key(stream[p])
        OBVIOUS
      <4>4. PICK out : out = Key(stream[q])
        OBVIOUS
      <4>5. p \in 1..Len(stream) /\ q \in 1..Len(stream)
        BY DEF Held, Control, ControlOK
      <4>6. /\ p \in HeldOf(into) /\ q \in HeldOf(out)
            /\ into \in Nodes \X Nodes /\ out \in Nodes \X Nodes
        <5>1. stream[p] \in Edge /\ stream[q] \in Edge
          BY <4>5 DEF Control, ControlOK
        <5> QED
          BY <4>3, <4>4, <5>1 DEF HeldOf, Key, Edge
      <4>7. into \in DOMAIN pairs /\ out \in DOMAIN pairs
        BY <4>6 DEF AggInv, CountsMatchHeld
      <4>8. /\ pairs[into].first_t \in Nat /\ pairs[out].last_t \in Nat
            /\ stream[p].ts \in Nat /\ stream[q].ts \in Nat
            /\ pairs[into].first_t <= stream[p].ts
            /\ stream[q].ts <= pairs[out].last_t
        BY <4>6, <4>7, IntervalSpans
      <4>9. pairs[out].last_t >= pairs[into].first_t
        BY <4>2, <4>8
      <4>10. into = <<stream[p].src, x>> /\ out = <<x, stream[q].dst>>
        BY <4>2, <4>3, <4>4 DEF Key
      <4>11. TemporallyOrdered(C1, x, C2)
        BY <4>2, <4>7, <4>9, <4>10 DEF TemporallyOrdered
      <4>12. Cardinality(b) \in 1..MAX_BRIDGE
        <5>1. MAX_BRIDGE \in Nat
          BY ShapesAssumption
        <5> QED
          BY <3>3, <3>5, <5>1
      <4>13. Cardinality(C1) >= MinFragment /\ Cardinality(C2) >= MinFragment
        <5>1. Cardinality(C1) \in Nat /\ Cardinality(C2) \in Nat /\ MinFragment \in Nat
          BY <3>1, ShapesAssumption
        <5> QED
          BY <3>5, <5>1 DEF Minimum
      <4> QED
        BY <3>2, <3>5, <4>11, <4>12, <4>13 DEF find_links
    <3>6. /\ ~(C1 \subseteq C2) /\ ~(C2 \subseteq C1)
          /\ Minimum(Cardinality(C1), Cardinality(C2)) >= MinFragment
          /\ Cardinality(b) <= MAX_BRIDGE
          /\ Cardinality(C1 \cup C2) <= MAX_MERGED_NODES
          /\ \E x \in b : Passed(C1, x, C2, Held, Ever)
          => <<C1, C2>> \in find_links(pool)
      BY <3>5, Zenon
    <3>7. <<C1, C2>> \in find_links(pool) =>
            /\ b \cap (C1 \cup C2) = {}
            /\ \E x \in b : Passed(C1, x, C2, 1..left, Ever)
      BY <3>3, <3>4
    <3> QED
      BY <3>2, <3>6, <3>7
  <2> QED
    BY <2>1, Zenon DEF LinksAreWitnessed
<1> QED
  BY <1>1, ControlAlways, AggAlways, TimesAlways, PTL

-----------------------------------------------------------------------------
(* Money                                                                   *)

\* What each transaction of the stream is worth, and those held by payer and
\* by payee.
Amount == [p \in 1..Len(stream) |-> stream[p].amount]
HeldFrom(n) == {p \in Held : stream[p].src = n}
HeldTo(n) == {p \in Held : stream[p].dst = n}

\* Every running sum is the sum of the transactions held that it stands for.
MoneyInv ==
  /\ \A k \in DOMAIN pairs : pairs[k].amount = Total(Amount, HeldOf(k))
  /\ \A n \in Nodes :
       /\ n \in DOMAIN total_out <=> HeldFrom(n) # {}
       /\ n \in DOMAIN total_out => total_out[n] = Total(Amount, HeldFrom(n))
       /\ n \in DOMAIN total_in <=> HeldTo(n) # {}
       /\ n \in DOMAIN total_in => total_in[n] = Total(Amount, HeldTo(n))

LEMMA EdgeTypes ==
  ASSUME ControlOK, NEW p \in 1..Len(stream)
  PROVE  /\ stream[p].src \in Nodes /\ stream[p].dst \in Nodes
         /\ stream[p].ts \in Nat /\ stream[p].amount \in Nat
         /\ Amount[p] = stream[p].amount
<1>1. stream[p] \in Edge
  BY DEF ControlOK
<1> QED
  BY <1>1 DEF Edge, Amount

LEMMA HeldFinite ==
  ASSUME ControlOK
  PROVE  /\ IsFiniteSet(Held)
         /\ \A S \in SUBSET Held : IsFiniteSet(S) /\ \A p \in S : Amount[p] \in Nat
         /\ \A n : HeldOf(n) \in SUBSET Held /\ HeldFrom(n) \in SUBSET Held
                   /\ HeldTo(n) \in SUBSET Held
<1>1. Held \subseteq 1..left /\ left \in 0..Len(stream) /\ Len(stream) \in Nat
  BY DEF Held, ControlOK
<1>2. IsFiniteSet(1..left)
  BY <1>1, FS_Interval
<1>3. IsFiniteSet(Held) /\ \A S \in SUBSET Held : IsFiniteSet(S)
  BY <1>1, <1>2, FS_Subset
<1>4. \A p \in 1..Len(stream) : stream[p].amount \in Nat
  BY EdgeTypes
<1>5. \A p \in Held : p \in 1..Len(stream)
  BY <1>1
<1> QED
  BY <1>3, <1>4, <1>5 DEF Amount, HeldOf, HeldFrom, HeldTo

\* An account has an edge out exactly while it has paid something held.
LEMMA AdjacencyIsHeld ==
  Control /\ AggInv =>
    \A n \in Nodes : /\ out_adj[n] = {} <=> HeldFrom(n) = {}
                     /\ in_adj[n] = {} <=> HeldTo(n) = {}
<1> SUFFICES ASSUME Control, AggInv, NEW n \in Nodes
             PROVE  /\ out_adj[n] = {} <=> HeldFrom(n) = {}
                    /\ in_adj[n] = {} <=> HeldTo(n) = {}
  OBVIOUS
<1>1. out_adj[n] \subseteq Nodes /\ in_adj[n] \subseteq Nodes
  BY DEF AggInv, AggregatesOK
<1>2. \A p \in Held : stream[p] \in Edge
  BY DEF Held, Control, ControlOK
<1>3. \A s, d \in Nodes : <<s, d>> \in DOMAIN pairs <=> HeldOf(<<s, d>>) # {}
  BY DEF AggInv, CountsMatchHeld
<1>4. ASSUME NEW p \in Held
      PROVE  /\ stream[p].dst \in out_adj[stream[p].src]
             /\ stream[p].src \in in_adj[stream[p].dst]
  <2>1. stream[p].src \in Nodes /\ stream[p].dst \in Nodes
    BY <1>2 DEF Edge
  <2>2. p \in HeldOf(<<stream[p].src, stream[p].dst>>)
    BY DEF HeldOf, Key
  <2> QED
    BY <1>3, <2>1, <2>2 DEF AggInv, AdjacencyMatchesPairs
<1>5. ASSUME NEW d \in out_adj[n]
      PROVE  HeldFrom(n) # {}
  <2>1. PICK p \in HeldOf(<<n, d>>) : TRUE
    BY <1>1, <1>3 DEF AggInv, AdjacencyMatchesPairs
  <2> QED
    BY <2>1 DEF HeldOf, HeldFrom, Key
<1>6. ASSUME NEW s \in in_adj[n]
      PROVE  HeldTo(n) # {}
  <2>1. PICK p \in HeldOf(<<s, n>>) : TRUE
    BY <1>1, <1>3 DEF AggInv, AdjacencyMatchesPairs
  <2> QED
    BY <2>1 DEF HeldOf, HeldTo, Key
<1> QED
  BY <1>4, <1>5, <1>6 DEF HeldFrom, HeldTo

LEMMA MoneySame ==
  ASSUME MoneyInv, UNCHANGED aggregates, Held' = Held, stream' = stream
  PROVE  MoneyInv'
<1>1. /\ Amount' = Amount
      /\ \A k : /\ HeldOf(k)' = HeldOf(k) /\ HeldFrom(k)' = HeldFrom(k)
                /\ HeldTo(k)' = HeldTo(k)
  BY DEF Amount, HeldOf, HeldFrom, HeldTo, Key
<1> QED
  BY <1>1 DEF MoneyInv, aggregates

\* A sum over the transactions held, with one more and with one less.
LEMMA OneMore ==
  ASSUME ControlOK, NEW S \in SUBSET Held, NEW p \in 1..Len(stream), p \notin S
  PROVE  /\ Total(Amount, S \cup {p}) = Total(Amount, S) + stream[p].amount
         /\ Total(Amount, S) \in Int /\ stream[p].amount \in Nat
         /\ S = {} => Total(Amount, S) = 0
<1>1. stream[p].amount \in Nat /\ Amount[p] = stream[p].amount
  BY EdgeTypes
<1>2. IsFiniteSet(S) /\ \A x \in S \cup {p} : Amount[x] \in Int
  BY <1>1, HeldFinite
<1>3. Total(Amount, S \cup {p}) = Total(Amount, S) + Amount[p]
  BY <1>2, TotalAdd
<1>4. Total(Amount, S) \in Int /\ Total(Amount, {}) = 0
  BY <1>2, TotalTakesAny
<1> QED
  BY <1>1, <1>3, <1>4

LEMMA OneLess ==
  ASSUME ControlOK, NEW S \in SUBSET Held, NEW p \in S
  PROVE  /\ Total(Amount, S \ {p}) = Total(Amount, S) - stream[p].amount
         /\ Total(Amount, S) \in Int /\ stream[p].amount \in Nat
<1>1. p \in 1..Len(stream)
  BY DEF Held, ControlOK
<1>2. stream[p].amount \in Nat /\ Amount[p] = stream[p].amount
  BY <1>1, EdgeTypes
<1>3. IsFiniteSet(S) /\ \A x \in S : Amount[x] \in Int
  BY HeldFinite
<1>4. Total(Amount, S \ {p}) = Total(Amount, S) - Amount[p]
  BY <1>3, TotalRemove
<1>5. Total(Amount, S) \in Int
  BY <1>3, TotalTakesAny
<1> QED
  BY <1>2, <1>4, <1>5

LEMMA MoneyAddEdge ==
  ASSUME Control, AggInv, MoneyInv, AddEdge PROVE MoneyInv'
<1> DEFINE e == stream[i]
<1>1. PICK k, from, to : k = Key(e) /\ from = e.src /\ to = e.dst
  OBVIOUS
<1>2. /\ stream' = stream /\ i \in 1..left /\ i \in 1..Len(stream)
      /\ Held' = Held \cup {i} /\ i \notin Held
  BY HeldAddEdge DEF AddEdge, source, Control, ControlOK
<1>3. /\ from \in Nodes /\ to \in Nodes /\ e.amount \in Nat
      /\ k = <<from, to>> /\ k \in Nodes \X Nodes
  BY <1>1, <1>2, EdgeTypes DEF Key, Control
<1>4. /\ HeldOf(k)' = HeldOf(k) \cup {i} /\ i \notin HeldOf(k)
      /\ \A x : x # k => HeldOf(x)' = HeldOf(x)
  BY <1>1, <1>2 DEF HeldOf
<1>5. /\ HeldFrom(from)' = HeldFrom(from) \cup {i} /\ i \notin HeldFrom(from)
      /\ \A n : n # from => HeldFrom(n)' = HeldFrom(n)
  BY <1>1, <1>2 DEF HeldFrom
<1>6. /\ HeldTo(to)' = HeldTo(to) \cup {i} /\ i \notin HeldTo(to)
      /\ \A n : n # to => HeldTo(n)' = HeldTo(n)
  BY <1>1, <1>2 DEF HeldTo
<1>7. Amount' = Amount
  BY <1>2 DEF Amount
<1>8. /\ pairs' = Put(pairs, k, AggAdd(IF k \notin DOMAIN pairs THEN NewAgg ELSE pairs[k], e))
      /\ total_out' = Bump(total_out, from, e.amount)
      /\ total_in' = Bump(total_in, to, e.amount)
  BY <1>1 DEF AddEdge
<1>9. ControlOK
  BY DEF Control
<1>10. ASSUME NEW x \in DOMAIN pairs'
       PROVE  pairs'[x].amount = Total(Amount, HeldOf(x)')
  <2>1. CASE x # k
    <3>1. x \in DOMAIN pairs /\ pairs'[x] = pairs[x] /\ HeldOf(x)' = HeldOf(x)
      BY <1>4, <1>8, <2>1 DEF Put
    <3> QED
      BY <3>1 DEF MoneyInv
  <2>2. CASE x = k
    <3>1. /\ Total(Amount, HeldOf(k) \cup {i}) = Total(Amount, HeldOf(k)) + e.amount
          /\ Total(Amount, HeldOf(k)) \in Int
          /\ HeldOf(k) = {} => Total(Amount, HeldOf(k)) = 0
      BY <1>2, <1>4, <1>9, HeldFinite, OneMore
    <3>2. Total(Amount, HeldOf(k)') = Total(Amount, HeldOf(k)) + e.amount
      BY <1>4, <3>1, Zenon
    <3>3. CASE k \notin DOMAIN pairs
      <4>1. pairs'[k].amount = 0 + e.amount
        BY <1>8, <3>3 DEF Put, AggAdd, NewAgg
      <4>2. HeldOf(k) = {}
        BY <1>3, <3>3 DEF AggInv, CountsMatchHeld
      <4> QED
        BY <2>2, <3>1, <3>2, <4>1, <4>2
    <3>4. CASE k \in DOMAIN pairs
      <4>1. pairs'[k].amount = pairs[k].amount + e.amount
        BY <1>8, <3>4 DEF Put, AggAdd
      <4> QED
        BY <2>2, <3>2, <3>4, <4>1 DEF MoneyInv
    <3> QED
      BY <3>3, <3>4
  <2> QED
    BY <2>1, <2>2
<1>11. ASSUME NEW n \in Nodes
       PROVE  /\ n \in DOMAIN total_out' <=> HeldFrom(n)' # {}
              /\ n \in DOMAIN total_out' => total_out'[n] = Total(Amount, HeldFrom(n)')
  <2>1. CASE n # from
    <3>1. /\ n \in DOMAIN total_out' <=> n \in DOMAIN total_out
          /\ n \in DOMAIN total_out => total_out'[n] = total_out[n]
          /\ HeldFrom(n)' = HeldFrom(n)
      BY <1>5, <1>8, <2>1 DEF Bump, Put
    <3> QED
      BY <3>1 DEF MoneyInv
  <2>2. CASE n = from
    <3>1. /\ Total(Amount, HeldFrom(n) \cup {i}) = Total(Amount, HeldFrom(n)) + e.amount
          /\ Total(Amount, HeldFrom(n)) \in Int
          /\ HeldFrom(n) = {} => Total(Amount, HeldFrom(n)) = 0
      BY <1>2, <1>5, <1>9, <2>2, HeldFinite, OneMore
    <3>2. Total(Amount, HeldFrom(n)') = Total(Amount, HeldFrom(n)) + e.amount
      BY <1>5, <2>2, <3>1, Zenon
    <3>3. /\ n \in DOMAIN total_out'
          /\ total_out'[n] = (IF n \in DOMAIN total_out THEN total_out[n] ELSE 0)
                               + e.amount
      BY <1>8, <2>2 DEF Bump, Put
    <3>4. HeldFrom(n)' # {}
      BY <1>5, <2>2
    <3> QED
      BY <3>1, <3>2, <3>3, <3>4 DEF MoneyInv
  <2> QED
    BY <2>1, <2>2
<1>12. ASSUME NEW n \in Nodes
       PROVE  /\ n \in DOMAIN total_in' <=> HeldTo(n)' # {}
              /\ n \in DOMAIN total_in' => total_in'[n] = Total(Amount, HeldTo(n)')
  <2>1. CASE n # to
    <3>1. /\ n \in DOMAIN total_in' <=> n \in DOMAIN total_in
          /\ n \in DOMAIN total_in => total_in'[n] = total_in[n]
          /\ HeldTo(n)' = HeldTo(n)
      BY <1>6, <1>8, <2>1 DEF Bump, Put
    <3> QED
      BY <3>1 DEF MoneyInv
  <2>2. CASE n = to
    <3>1. /\ Total(Amount, HeldTo(n) \cup {i}) = Total(Amount, HeldTo(n)) + e.amount
          /\ Total(Amount, HeldTo(n)) \in Int
          /\ HeldTo(n) = {} => Total(Amount, HeldTo(n)) = 0
      BY <1>2, <1>6, <1>9, <2>2, HeldFinite, OneMore
    <3>2. Total(Amount, HeldTo(n)') = Total(Amount, HeldTo(n)) + e.amount
      BY <1>6, <2>2, <3>1, Zenon
    <3>3. /\ n \in DOMAIN total_in'
          /\ total_in'[n] = (IF n \in DOMAIN total_in THEN total_in[n] ELSE 0)
                              + e.amount
      BY <1>8, <2>2 DEF Bump, Put
    <3>4. HeldTo(n)' # {}
      BY <1>6, <2>2
    <3> QED
      BY <3>1, <3>2, <3>3, <3>4 DEF MoneyInv
  <2> QED
    BY <2>1, <2>2
<1> QED
  BY <1>7, <1>10, <1>11, <1>12 DEF MoneyInv

LEMMA MoneyRemoveEdge ==
  ASSUME Control, AggInv, Control', AggInv', MoneyInv, RemoveEdge PROVE MoneyInv'
<1> DEFINE e == stream[i]
<1>1. PICK k, from, to : k = Key(e) /\ from = e.src /\ to = e.dst
  OBVIOUS
<1>2. /\ stream' = stream /\ i \in Held /\ i \in 1..Len(stream)
      /\ Held' = Held \ {i}
  BY HeldRemoveEdge DEF RemoveEdge, source, Control, ControlOK, Held
<1>3. /\ from \in Nodes /\ to \in Nodes /\ e.amount \in Nat
      /\ k = <<from, to>> /\ k \in Nodes \X Nodes
  BY <1>1, <1>2, EdgeTypes DEF Key, Control
<1>4. /\ HeldOf(k)' = HeldOf(k) \ {i} /\ i \in HeldOf(k)
      /\ \A x : x # k => HeldOf(x)' = HeldOf(x)
  BY <1>1, <1>2 DEF HeldOf
<1>5. /\ HeldFrom(from)' = HeldFrom(from) \ {i} /\ i \in HeldFrom(from)
      /\ \A n : n # from => HeldFrom(n)' = HeldFrom(n)
  BY <1>1, <1>2 DEF HeldFrom
<1>6. /\ HeldTo(to)' = HeldTo(to) \ {i} /\ i \in HeldTo(to)
      /\ \A n : n # to => HeldTo(n)' = HeldTo(n)
  BY <1>1, <1>2 DEF HeldTo
<1>7. Amount' = Amount
  BY <1>2 DEF Amount
<1>8. k \in DOMAIN pairs /\ pairs[k] \in Agg /\ Forget(e)
  BY <1>1, <1>3, <1>4 DEF AggInv, CountsMatchHeld, AggregatesOK, RemoveEdge
<1>9. /\ out_adj'[from] = {} <=> HeldFrom(from)' = {}
      /\ in_adj'[to] = {} <=> HeldTo(to)' = {}
  <2>1. (\A n \in Nodes : /\ out_adj[n] = {} <=> HeldFrom(n) = {}
                          /\ in_adj[n] = {} <=> HeldTo(n) = {})'
    BY AdjacencyIsHeld, PTL
  <2> QED
    BY <1>3, <2>1
<1>10. /\ DOMAIN pairs' \subseteq DOMAIN pairs
       /\ \A x \in DOMAIN pairs' : x # k => pairs'[x] = pairs[x]
       /\ k \in DOMAIN pairs' => pairs'[k].amount = pairs[k].amount - e.amount
       /\ \/ total_out' = Bump(total_out, from, -e.amount) /\ out_adj'[from] # {}
          \/ /\ total_out' = Del(Bump(total_out, from, -e.amount), from)
             /\ out_adj'[from] = {}
       /\ \/ total_in' = Bump(total_in, to, -e.amount) /\ in_adj'[to] # {}
          \/ /\ total_in' = Del(Bump(total_in, to, -e.amount), to)
             /\ in_adj'[to] = {}
  <2>1. CASE LowerPair(e)
    <3>1. /\ pairs' = Put(pairs, k, AggRemove(pairs[k], e))
          /\ total_out' = Bump(total_out, from, -e.amount)
          /\ total_in' = Bump(total_in, to, -e.amount)
          /\ k \in DOMAIN pairs'
      BY <1>1, <2>1 DEF LowerPair, Put
    <3>2. to \in out_adj'[from] /\ from \in in_adj'[to]
      BY <1>3, <3>1 DEF AggInv, AdjacencyMatchesPairs
    <3>3. AggRemove(pairs[k], e).amount = pairs[k].amount - e.amount
      BY <1>8 DEF AggRemove, Agg
    <3> QED
      BY <1>8, <3>1, <3>2, <3>3 DEF Put
  <2>2. CASE DropPair(e)
    <3>1. /\ pairs' = Del(pairs, k)
          /\ total_out' = IF out_adj'[from] = {}
                          THEN Del(Bump(total_out, from, -e.amount), from)
                          ELSE Bump(total_out, from, -e.amount)
          /\ total_in' = IF in_adj'[to] = {}
                         THEN Del(Bump(total_in, to, -e.amount), to)
                         ELSE Bump(total_in, to, -e.amount)
      BY <1>1, <2>2 DEF DropPair
    <3> QED
      BY <3>1 DEF Del
  <2> QED
    BY <1>8, <2>1, <2>2 DEF Forget
<1>11. ControlOK
  BY DEF Control
<1>12. ASSUME NEW x \in DOMAIN pairs'
       PROVE  pairs'[x].amount = Total(Amount, HeldOf(x)')
  <2>1. CASE x # k
    <3>1. x \in DOMAIN pairs /\ pairs'[x] = pairs[x] /\ HeldOf(x)' = HeldOf(x)
      BY <1>4, <1>10, <2>1
    <3> QED
      BY <3>1 DEF MoneyInv
  <2>2. CASE x = k
    <3>1. /\ Total(Amount, HeldOf(k) \ {i}) = Total(Amount, HeldOf(k)) - e.amount
      BY <1>4, <1>11, HeldFinite, OneLess
    <3>2. Total(Amount, HeldOf(k)') = Total(Amount, HeldOf(k)) - e.amount
      BY <1>4, <3>1, Zenon
    <3> QED
      BY <1>8, <1>10, <2>2, <3>2 DEF MoneyInv
  <2> QED
    BY <2>1, <2>2
<1>13. ASSUME NEW n \in Nodes
       PROVE  /\ n \in DOMAIN total_out' <=> HeldFrom(n)' # {}
              /\ n \in DOMAIN total_out' => total_out'[n] = Total(Amount, HeldFrom(n)')
  <2>1. CASE n # from
    <3>1. /\ n \in DOMAIN total_out' <=> n \in DOMAIN total_out
          /\ n \in DOMAIN total_out => total_out'[n] = total_out[n]
          /\ HeldFrom(n)' = HeldFrom(n)
      BY <1>5, <1>10, <2>1 DEF Bump, Put, Del
    <3> QED
      BY <3>1 DEF MoneyInv
  <2>2. CASE n = from
    <3>1. /\ Total(Amount, HeldFrom(n) \ {i}) = Total(Amount, HeldFrom(n)) - e.amount
          /\ Total(Amount, HeldFrom(n)) \in Int
      BY <1>5, <1>11, <2>2, HeldFinite, OneLess
    <3>2. Total(Amount, HeldFrom(n)') = Total(Amount, HeldFrom(n)) - e.amount
      BY <1>5, <2>2, <3>1, Zenon
    <3>3. n \in DOMAIN total_out /\ total_out[n] = Total(Amount, HeldFrom(n))
      BY <1>5, <2>2 DEF MoneyInv
    <3>4. CASE HeldFrom(n)' # {}
      <4>1. total_out' = Bump(total_out, from, -e.amount)
        BY <1>9, <1>10, <2>2, <3>4
      <4>2. n \in DOMAIN total_out' /\ total_out'[n] = total_out[n] + (-e.amount)
        BY <2>2, <3>3, <4>1 DEF Bump, Put
      <4> QED
        BY <1>3, <3>1, <3>2, <3>3, <3>4, <4>2
    <3>5. CASE HeldFrom(n)' = {}
      <4>1. total_out' = Del(Bump(total_out, from, -e.amount), from)
        BY <1>9, <1>10, <2>2, <3>5
      <4> QED
        BY <2>2, <3>5, <4>1 DEF Del
    <3> QED
      BY <3>4, <3>5
  <2> QED
    BY <2>1, <2>2
<1>14. ASSUME NEW n \in Nodes
       PROVE  /\ n \in DOMAIN total_in' <=> HeldTo(n)' # {}
              /\ n \in DOMAIN total_in' => total_in'[n] = Total(Amount, HeldTo(n)')
  <2>1. CASE n # to
    <3>1. /\ n \in DOMAIN total_in' <=> n \in DOMAIN total_in
          /\ n \in DOMAIN total_in => total_in'[n] = total_in[n]
          /\ HeldTo(n)' = HeldTo(n)
      BY <1>6, <1>10, <2>1 DEF Bump, Put, Del
    <3> QED
      BY <3>1 DEF MoneyInv
  <2>2. CASE n = to
    <3>1. /\ Total(Amount, HeldTo(n) \ {i}) = Total(Amount, HeldTo(n)) - e.amount
          /\ Total(Amount, HeldTo(n)) \in Int
      BY <1>6, <1>11, <2>2, HeldFinite, OneLess
    <3>2. Total(Amount, HeldTo(n)') = Total(Amount, HeldTo(n)) - e.amount
      BY <1>6, <2>2, <3>1, Zenon
    <3>3. n \in DOMAIN total_in /\ total_in[n] = Total(Amount, HeldTo(n))
      BY <1>6, <2>2 DEF MoneyInv
    <3>4. CASE HeldTo(n)' # {}
      <4>1. total_in' = Bump(total_in, to, -e.amount)
        BY <1>9, <1>10, <2>2, <3>4
      <4>2. n \in DOMAIN total_in' /\ total_in'[n] = total_in[n] + (-e.amount)
        BY <2>2, <3>3, <4>1 DEF Bump, Put
      <4> QED
        BY <1>3, <3>1, <3>2, <3>3, <3>4, <4>2
    <3>5. CASE HeldTo(n)' = {}
      <4>1. total_in' = Del(Bump(total_in, to, -e.amount), to)
        BY <1>9, <1>10, <2>2, <3>5
      <4> QED
        BY <2>2, <3>5, <4>1 DEF Del
    <3> QED
      BY <3>4, <3>5
  <2> QED
    BY <2>1, <2>2
<1> QED
  BY <1>7, <1>12, <1>13, <1>14 DEF MoneyInv

LEMMA MoneyStep ==
  Control /\ AggInv /\ MoneyInv /\ [Next]_vars /\ Control' /\ AggInv' => MoneyInv'
<1> SUFFICES ASSUME Control, AggInv, MoneyInv, [Next]_vars, Control', AggInv'
             PROVE  MoneyInv'
  OBVIOUS
<1>1. CASE StartBatch
  BY <1>1, HeldStartBatch, MoneySame DEF StartBatch
<1>2. CASE PopSlice
  BY <1>2, HeldPopSlice, MoneySame DEF PopSlice, source
<1>3. CASE Return
  BY <1>3, HeldReturn, MoneySame DEF Return, source
<1>4. CASE UNCHANGED vars
  <2>1. Held' = Held
    BY <1>4 DEF vars, Held, OnDeque
  <2> QED
    BY <1>4, <2>1, MoneySame DEF vars, aggregates
<1> QED
  BY <1>1, <1>2, <1>3, <1>4, MoneyAddEdge, MoneyRemoveEdge DEF Next

LEMMA MoneyAlways == Spec => []MoneyInv
<1>1. Init => MoneyInv
  <2> SUFFICES ASSUME Init PROVE MoneyInv
    OBVIOUS
  <2>1. DOMAIN pairs = {} /\ DOMAIN total_out = {} /\ DOMAIN total_in = {}
    BY DEF Init
  <2>2. \A n : HeldFrom(n) = {} /\ HeldTo(n) = {}
    BY DEF Init, HeldFrom, HeldTo, Held
  <2> QED
    BY <2>1, <2>2 DEF MoneyInv
<1> QED
  BY <1>1, MoneyStep, ControlAlways, AggAlways, PTL DEF Spec

-----------------------------------------------------------------------------
(* Statistics over the whole history                                       *)

\* The transactions that account_stats has counted, by payer and by payee.
Seen == IF pc = "add" THEN i - 1 ELSE left
PaidBy(n) == {p \in 1..Seen : stream[p].src = n}
PaidTo(n) == {p \in 1..Seen : stream[p].dst = n}

MomentsType == [n : Nat, total : Int, first_t : Int, last_t : Int]
StatsType == [inflow : MomentsType, outflow : MomentsType, quiet_before_first : Int]

\* Count and sums are those of every transaction there has been so far.
StatsInv ==
  /\ account_stats \in [Nodes -> StatsType]
  /\ \A n \in Nodes :
       /\ account_stats[n].outflow.n = Cardinality(PaidBy(n))
       /\ account_stats[n].outflow.total = Total(Amount, PaidBy(n))
       /\ account_stats[n].inflow.total = Total(Amount, PaidTo(n))

LEMMA StampKeeps ==
  ASSUME NEW st \in StatsType, NEW at \in Nat
  PROVE  /\ Stamp(st, at) \in StatsType
         /\ Stamp(st, at).outflow = st.outflow /\ Stamp(st, at).inflow = st.inflow
BY DEF Stamp, StatsType

LEMMA MomentsAddKeeps ==
  ASSUME NEW m \in MomentsType, NEW x \in Nat, NEW at \in Nat
  PROVE  /\ MomentsAdd(m, x, at) \in MomentsType
         /\ MomentsAdd(m, x, at).n = m.n + 1
         /\ MomentsAdd(m, x, at).total = m.total + x
BY DEF MomentsAdd, MomentsType

LEMMA StatsAddCounts ==
  ASSUME NEW stats \in [Nodes -> StatsType], NEW e \in Edge
  PROVE  /\ StatsAdd(stats, e) \in [Nodes -> StatsType]
         /\ \A n \in Nodes :
              /\ StatsAdd(stats, e)[n].outflow.n
                   = stats[n].outflow.n + (IF n = e.src THEN 1 ELSE 0)
              /\ StatsAdd(stats, e)[n].outflow.total
                   = stats[n].outflow.total + (IF n = e.src THEN e.amount ELSE 0)
              /\ StatsAdd(stats, e)[n].inflow.total
                   = stats[n].inflow.total + (IF n = e.dst THEN e.amount ELSE 0)
<1>1. e.src \in Nodes /\ e.dst \in Nodes /\ e.amount \in Nat /\ e.ts \in Nat
  BY DEF Edge
<1>2. \A n \in Nodes : /\ stats[n] \in StatsType
                       /\ stats[n].outflow \in MomentsType
                       /\ stats[n].inflow \in MomentsType
  BY DEF StatsType
<1>3. PICK a : a = Stamp(stats[e.src], e.ts)
  OBVIOUS
<1>4. a \in StatsType /\ a.outflow = stats[e.src].outflow /\ a.inflow = stats[e.src].inflow
  BY <1>1, <1>2, <1>3, StampKeeps
<1>5. PICK mo : mo = MomentsAdd(a.outflow, e.amount, e.ts)
  OBVIOUS
<1>6. /\ mo \in MomentsType /\ mo.n = a.outflow.n + 1
      /\ mo.total = a.outflow.total + e.amount
  BY <1>1, <1>2, <1>4, <1>5, MomentsAddKeeps
<1>7. PICK out : out = [stats EXCEPT ![e.src] = [a EXCEPT !.outflow = mo]]
  OBVIOUS
<1>8. [a EXCEPT !.outflow = mo] \in StatsType
  BY <1>4, <1>6 DEF StatsType
<1>9. /\ out \in [Nodes -> StatsType]
      /\ \A n \in Nodes :
           /\ n # e.src => out[n] = stats[n]
           /\ n = e.src => out[n].outflow = mo /\ out[n].inflow = a.inflow
  BY <1>1, <1>4, <1>7, <1>8 DEF StatsType
<1>10. PICK b : b = Stamp(out[e.dst], e.ts)
  OBVIOUS
<1>11. b \in StatsType /\ b.outflow = out[e.dst].outflow /\ b.inflow = out[e.dst].inflow
  BY <1>1, <1>9, <1>10, StampKeeps
<1>12. PICK mi : mi = MomentsAdd(b.inflow, e.amount, e.ts)
  OBVIOUS
<1>13. b.inflow \in MomentsType
  BY <1>11 DEF StatsType
<1>14. mi \in MomentsType /\ mi.total = b.inflow.total + e.amount
  BY <1>1, <1>12, <1>13, MomentsAddKeeps
<1>15. PICK new : new = [out EXCEPT ![e.dst] = [b EXCEPT !.inflow = mi]]
  OBVIOUS
<1>16. [b EXCEPT !.inflow = mi] \in StatsType
  BY <1>11, <1>14 DEF StatsType
<1>17. /\ new \in [Nodes -> StatsType]
       /\ \A n \in Nodes :
            /\ n # e.dst => new[n] = out[n]
            /\ n = e.dst => new[n].outflow = b.outflow /\ new[n].inflow = mi
  BY <1>1, <1>9, <1>11, <1>15, <1>16 DEF StatsType
<1>18. StatsAdd(stats, e) = new
  <2>1. Pays(stats[e.src], e) = [a EXCEPT !.outflow = mo]
    BY <1>3, <1>5, Zenon DEF Pays
  <2>2. IsPaid(out[e.dst], e) = [b EXCEPT !.inflow = mi]
    BY <1>10, <1>12, Zenon DEF IsPaid
  <2>3. out = [stats EXCEPT ![e.src] = Pays(@, e)]
    BY <1>7, <2>1, Zenon
  <2>4. new = [out EXCEPT ![e.dst] = IsPaid(@, e)]
    BY <1>15, <2>2, Zenon
  <2> QED
    BY <2>3, <2>4, Zenon DEF StatsAdd
<1>19. \A n \in Nodes :
         /\ new[n].outflow = IF n = e.src THEN mo ELSE stats[n].outflow
         /\ new[n].inflow = IF n = e.dst THEN mi ELSE stats[n].inflow
         /\ n = e.dst => b.inflow = stats[n].inflow
         /\ n = e.src => a.outflow = stats[n].outflow
  BY <1>4, <1>9, <1>11, <1>17
<1>20. \A n \in Nodes : /\ stats[n].outflow.n \in Int /\ stats[n].outflow.total \in Int
                        /\ stats[n].inflow.total \in Int
  BY <1>2 DEF MomentsType
<1> QED
  BY <1>1, <1>6, <1>14, <1>17, <1>18, <1>19, <1>20

LEMMA SeenFinite ==
  ASSUME Control
  PROVE  /\ Seen \in 0..Len(stream) /\ Held \subseteq 1..Seen /\ IsFiniteSet(1..Seen)
         /\ \A n : /\ PaidBy(n) \in SUBSET (1..Seen) /\ PaidTo(n) \in SUBSET (1..Seen)
                   /\ IsFiniteSet(PaidBy(n)) /\ IsFiniteSet(PaidTo(n))
         /\ \A p \in 1..Seen : Amount[p] \in Nat
<1>1. ControlOK /\ left \in 0..Len(stream) /\ Len(stream) \in Nat /\ i \in Nat
  BY DEF Control, ControlOK
<1>2. pc = "add" => /\ 1 <= cur.first /\ cur.first <= i /\ i <= cur.last /\ cur.last = left
                    /\ \A k \in 1..Len(pending) : pending[k].last < cur.first
  BY DEF Control, SliceInv, LoopPlaced
<1>3. cur.first \in Nat /\ cur.last \in Nat
      /\ \A k \in 1..Len(pending) : pending[k].last \in Nat
  BY SliceTypes DEF Control
<1>4. Seen \in 0..Len(stream)
  BY <1>1, <1>2, <1>3 DEF Seen
<1>5. ASSUME NEW p \in Held PROVE p \in 1..Seen
  <2>1. p \in 1..left
    BY DEF Held
  <2>2. CASE pc = "add"
    <3>1. CASE OnDeque(p)
      <4>1. PICK k \in 1..Len(pending) : pending[k].first <= p /\ p <= pending[k].last
        BY <3>1 DEF OnDeque
      <4> QED
        BY <1>1, <1>2, <1>3, <2>1, <2>2, <4>1 DEF Seen
    <3>2. CASE ~OnDeque(p)
      BY <1>1, <2>1, <2>2, <3>2 DEF Held, Seen
    <3> QED
      BY <3>1, <3>2
  <2> QED
    BY <2>1, <2>2 DEF Seen
<1>6. IsFiniteSet(1..Seen)
  BY <1>4, FS_Interval
<1>7. \A n : PaidBy(n) \in SUBSET (1..Seen) /\ PaidTo(n) \in SUBSET (1..Seen)
  BY DEF PaidBy, PaidTo
<1>8. \A p \in 1..Seen : Amount[p] \in Nat
  <2>1. \A p \in 1..Len(stream) : Amount[p] \in Nat
    BY <1>1, EdgeTypes
  <2> QED
    BY <1>1, <1>4, <2>1
<1> QED
  BY <1>4, <1>5, <1>6, <1>7, <1>8, FS_Subset

LEMMA StatsSame ==
  ASSUME StatsInv, account_stats' = account_stats, Seen' = Seen, stream' = stream
  PROVE  StatsInv'
<1>1. Amount' = Amount /\ \A n : PaidBy(n)' = PaidBy(n) /\ PaidTo(n)' = PaidTo(n)
  BY DEF Amount, PaidBy, PaidTo
<1> QED
  BY <1>1 DEF StatsInv

LEMMA StatsAddEdge ==
  ASSUME Control, StatsInv, AddEdge PROVE StatsInv'
<1> DEFINE e == stream[i]
<1>1. PICK from, to : from = e.src /\ to = e.dst
  OBVIOUS
<1>2. /\ stream' = stream /\ i \in 1..Len(stream) /\ i \in 1..left /\ i \in Nat
      /\ pc = "add" /\ i' = i + 1 /\ left' = left
  BY HeldAddEdge DEF AddEdge, source, Control, ControlOK
<1>3. /\ e \in Edge /\ e.src \in Nodes /\ e.dst \in Nodes /\ e.amount \in Nat
      /\ Amount[i] = e.amount
  BY <1>2, EdgeTypes DEF Control, ControlOK
<1>4. pc' = (IF i = cur.last THEN "expire" ELSE "add") /\ cur.last = left
  BY DEF AddEdge, Control, SliceInv, LoopPlaced
<1>5. Seen = i - 1 /\ Seen' = i
  BY <1>2, <1>4 DEF Seen
<1>6. 1..Seen' = (1..Seen) \cup {i} /\ i \notin 1..Seen
  BY <1>2, <1>5
<1>7. /\ \A n : n # from => PaidBy(n)' = PaidBy(n)
      /\ PaidBy(from)' = PaidBy(from) \cup {i} /\ i \notin PaidBy(from)
  BY <1>1, <1>2, <1>6 DEF PaidBy
<1>8. /\ \A n : n # to => PaidTo(n)' = PaidTo(n)
      /\ PaidTo(to)' = PaidTo(to) \cup {i} /\ i \notin PaidTo(to)
  BY <1>1, <1>2, <1>6 DEF PaidTo
<1>9. Amount' = Amount
  BY <1>2 DEF Amount
<1>10. account_stats' = StatsAdd(account_stats, e)
  BY DEF AddEdge
<1>11. /\ account_stats' \in [Nodes -> StatsType]
       /\ \A n \in Nodes :
            /\ account_stats'[n].outflow.n
                 = account_stats[n].outflow.n + (IF n = from THEN 1 ELSE 0)
            /\ account_stats'[n].outflow.total
                 = account_stats[n].outflow.total + (IF n = from THEN e.amount ELSE 0)
            /\ account_stats'[n].inflow.total
                 = account_stats[n].inflow.total + (IF n = to THEN e.amount ELSE 0)
  <2>1. account_stats \in [Nodes -> StatsType]
    BY DEF StatsInv
  <2> QED
    BY <1>1, <1>3, <1>10, <2>1, StatsAddCounts
<1>12. \A n : /\ IsFiniteSet(PaidBy(n)) /\ IsFiniteSet(PaidTo(n))
              /\ \A p \in PaidBy(n) \cup PaidTo(n) : Amount[p] \in Int
  BY SeenFinite
<1>13. /\ Cardinality(PaidBy(from) \cup {i}) = Cardinality(PaidBy(from)) + 1
       /\ Total(Amount, PaidBy(from) \cup {i}) = Total(Amount, PaidBy(from)) + e.amount
       /\ Total(Amount, PaidTo(to) \cup {i}) = Total(Amount, PaidTo(to)) + e.amount
  <2>1. Cardinality(PaidBy(from) \cup {i}) = Cardinality(PaidBy(from)) + 1
    BY <1>7, <1>12, FS_AddElement
  <2>2. \A p \in PaidBy(from) \cup {i} : Amount[p] \in Int
    BY <1>3, <1>12
  <2>3. \A p \in PaidTo(to) \cup {i} : Amount[p] \in Int
    BY <1>3, <1>12
  <2> QED
    BY <1>3, <1>7, <1>8, <1>12, <2>1, <2>2, <2>3, TotalAdd
<1>14. /\ Cardinality(PaidBy(from)') = Cardinality(PaidBy(from)) + 1
       /\ Total(Amount, PaidBy(from)') = Total(Amount, PaidBy(from)) + e.amount
       /\ Total(Amount, PaidTo(to)') = Total(Amount, PaidTo(to)) + e.amount
  BY <1>7, <1>8, <1>13, Zenon
<1>15. \A n \in Nodes : /\ account_stats[n].outflow.n \in Int
                        /\ account_stats[n].outflow.total \in Int
                        /\ account_stats[n].inflow.total \in Int
  BY DEF StatsInv, StatsType, MomentsType
<1>16. ASSUME NEW n \in Nodes
       PROVE  /\ account_stats'[n].outflow.n = Cardinality(PaidBy(n)')
              /\ account_stats'[n].outflow.total = Total(Amount, PaidBy(n)')
              /\ account_stats'[n].inflow.total = Total(Amount, PaidTo(n)')
  <2>1. /\ account_stats[n].outflow.n = Cardinality(PaidBy(n))
        /\ account_stats[n].outflow.total = Total(Amount, PaidBy(n))
        /\ account_stats[n].inflow.total = Total(Amount, PaidTo(n))
    BY DEF StatsInv
  <2>2. /\ account_stats'[n].outflow.n = Cardinality(PaidBy(n)')
        /\ account_stats'[n].outflow.total = Total(Amount, PaidBy(n)')
    <3>1. CASE n = from
      BY <1>11, <1>14, <2>1, <3>1
    <3>2. CASE n # from
      BY <1>7, <1>11, <1>15, <2>1, <3>2
    <3> QED
      BY <3>1, <3>2
  <2>3. account_stats'[n].inflow.total = Total(Amount, PaidTo(n)')
    <3>1. CASE n = to
      BY <1>11, <1>14, <2>1, <3>1
    <3>2. CASE n # to
      BY <1>8, <1>11, <1>15, <2>1, <3>2
    <3> QED
      BY <3>1, <3>2
  <2> QED
    BY <2>2, <2>3
<1> QED
  BY <1>9, <1>11, <1>16 DEF StatsInv

LEMMA StatsStep == Control /\ StatsInv /\ [Next]_vars => StatsInv'
<1> SUFFICES ASSUME Control, StatsInv, [Next]_vars PROVE StatsInv'
  OBVIOUS
<1>1. left \in Nat
  BY DEF Control, ControlOK
<1>2. CASE StartBatch
  <2>1. PICK right \in left..Len(stream) :
          left' = right /\ pc' = IF right > left THEN "add" ELSE "expire"
    BY <1>2 DEF StartBatch
  <2>2. pc = "idle" /\ i' = left + 1 /\ stream' = stream /\ account_stats' = account_stats
    BY <1>2 DEF StartBatch
  <2>3. Seen' = Seen
    BY <1>1, <2>1, <2>2 DEF Seen
  <2> QED
    BY <2>2, <2>3, StatsSame
<1>3. CASE PopSlice
  BY <1>3, StatsSame DEF PopSlice, source, Seen
<1>4. CASE Return
  BY <1>4, StatsSame DEF Return, source, Seen
<1>5. CASE RemoveEdge
  BY <1>5, StatsSame DEF RemoveEdge, source, Seen
<1>6. CASE UNCHANGED vars
  BY <1>6, StatsSame DEF vars, Seen
<1> QED
  BY <1>2, <1>3, <1>4, <1>5, <1>6, StatsAddEdge DEF Next

LEMMA StatsInit == Init => StatsInv
<1> SUFFICES ASSUME Init PROVE StatsInv
  OBVIOUS
<1>1. \A n : PaidBy(n) = {} /\ PaidTo(n) = {}
  BY DEF Init, PaidBy, PaidTo, Seen
<1>2. Cardinality({}) = 0 /\ Total(Amount, {}) = 0
  BY FS_EmptySet, TotalTakesAny
<1>3. /\ account_stats = [n \in Nodes |-> Stats0]
      /\ Stats0 \in StatsType
      /\ Stats0.outflow.n = 0 /\ Stats0.outflow.total = 0 /\ Stats0.inflow.total = 0
  BY DEF Init, Stats0, Moments0, StatsType, MomentsType
<1> QED
  BY <1>1, <1>2, <1>3 DEF StatsInv

LEMMA StatsAlways == Spec => []StatsInv
BY StatsInit, StatsStep, ControlAlways, PTL DEF Spec

\* What is not negative sums to no less over more.
LEMMA TotalGrows ==
  ASSUME NEW f, NEW B, NEW A \in SUBSET B, IsFiniteSet(B), \A x \in B : f[x] \in Nat
  PROVE  Total(f, A) <= Total(f, B)
<1>1. IsFiniteSet(A)
  BY FS_Subset
<1>2. PICK Good : Good = {T \in SUBSET B : Total(f, T) \in Nat}
  OBVIOUS
<1>3. {} \in Good
  BY <1>2, TotalTakesAny, FS_EmptySet
<1>4. ASSUME NEW T \in SUBSET B, NEW x \in B \ T, T \in Good
      PROVE  T \cup {x} \in Good
  <2>1. IsFiniteSet(T)
    BY FS_Subset
  <2>2. Total(f, T \cup {x}) = Total(f, T) + f[x]
    BY <2>1, TotalAdd
  <2> QED
    BY <1>2, <1>4, <2>2
<1>5. \A T \in SUBSET B : T \in Good
  <2> SUFFICES ASSUME NEW T \in SUBSET B PROVE T \in Good
    OBVIOUS
  <2>1. IsFiniteSet(T)
    BY FS_Subset
  <2>2. ASSUME NEW S \in SUBSET T, NEW x \in T \ S, S \in Good
        PROVE  S \cup {x} \in Good
    BY <1>4, <2>2
  <2> QED
    BY <1>3, <2>1, <2>2, OneByOne
<1>6. B \ A \in SUBSET B /\ A \cap (B \ A) = {} /\ A \cup (B \ A) = B
  OBVIOUS
<1>7. IsFiniteSet(B \ A)
  BY <1>6, FS_Subset
<1>8. Total(f, A \cup (B \ A)) = Total(f, A) + Total(f, B \ A)
  <2>1. \A x \in A \cup (B \ A) : f[x] \in Int
    OBVIOUS
  <2> QED
    BY <1>1, <1>6, <1>7, <2>1, TotalJoin
<1>9. Total(f, B) = Total(f, A) + Total(f, B \ A)
  BY <1>6, <1>8, Zenon
<1>10. Total(f, A) \in Nat /\ Total(f, B \ A) \in Nat
  BY <1>2, <1>5, <1>6
<1> QED
  BY <1>9, <1>10

LEMMA LifetimeCovers ==
  ASSUME Control, MoneyInv, StatsInv PROVE LifetimeCoversWindow
<1> SUFFICES ASSUME NEW n \in Nodes
             PROVE  /\ n \in DOMAIN total_out => account_stats[n].outflow.total >= total_out[n]
                    /\ n \in DOMAIN total_in => account_stats[n].inflow.total >= total_in[n]
                    /\ account_stats[n].outflow.n = Cardinality(PaidBy(n))
  BY DEF LifetimeCoversWindow, PaidBy, Seen
<1>1. /\ account_stats[n].outflow.n = Cardinality(PaidBy(n))
      /\ account_stats[n].outflow.total = Total(Amount, PaidBy(n))
      /\ account_stats[n].inflow.total = Total(Amount, PaidTo(n))
      /\ account_stats[n].outflow.total \in Int /\ account_stats[n].inflow.total \in Int
  BY DEF StatsInv, StatsType, MomentsType
<1>2. HeldFrom(n) \in SUBSET PaidBy(n) /\ HeldTo(n) \in SUBSET PaidTo(n)
  BY SeenFinite DEF HeldFrom, HeldTo, PaidBy, PaidTo
<1>3. /\ IsFiniteSet(PaidBy(n)) /\ IsFiniteSet(PaidTo(n))
      /\ \A p \in PaidBy(n) : Amount[p] \in Nat
      /\ \A p \in PaidTo(n) : Amount[p] \in Nat
  BY SeenFinite
<1>4. /\ Total(Amount, HeldFrom(n)) <= Total(Amount, PaidBy(n))
      /\ Total(Amount, HeldTo(n)) <= Total(Amount, PaidTo(n))
  BY <1>2, <1>3, TotalGrows
<1>5. Total(Amount, HeldFrom(n)) \in Int /\ Total(Amount, HeldTo(n)) \in Int
  <2>1. ControlOK
    BY DEF Control
  <2>2. /\ IsFiniteSet(HeldFrom(n)) /\ \A p \in HeldFrom(n) : Amount[p] \in Int
        /\ IsFiniteSet(HeldTo(n)) /\ \A p \in HeldTo(n) : Amount[p] \in Int
    BY <2>1, HeldFinite
  <2> QED
    BY <2>2, TotalTakesAny
<1>6. /\ n \in DOMAIN total_out => total_out[n] = Total(Amount, HeldFrom(n))
      /\ n \in DOMAIN total_in => total_in[n] = Total(Amount, HeldTo(n))
  BY DEF MoneyInv
<1> QED
  BY <1>1, <1>4, <1>5, <1>6

-----------------------------------------------------------------------------
(* What is read off the running sums                                       *)

LEMMA HeldHasItsPair ==
  ASSUME Control, AggInv, NEW p \in Held
  PROVE  /\ stream[p].src \in Nodes /\ stream[p].dst \in Nodes
         /\ Key(stream[p]) = <<stream[p].src, stream[p].dst>>
         /\ Key(stream[p]) \in DOMAIN pairs /\ p \in HeldOf(Key(stream[p]))
<1>1. p \in 1..Len(stream) /\ ControlOK
  BY DEF Held, Control, ControlOK
<1>2. stream[p].src \in Nodes /\ stream[p].dst \in Nodes
  BY <1>1, EdgeTypes
<1>3. p \in HeldOf(Key(stream[p])) /\ Key(stream[p]) \in Nodes \X Nodes
  BY <1>2 DEF HeldOf, Key
<1> QED
  BY <1>2, <1>3 DEF Key, AggInv, CountsMatchHeld

LEMMA PairsFinite ==
  ASSUME AggInv
  PROVE  /\ DOMAIN pairs \subseteq Nodes \X Nodes /\ IsFiniteSet(DOMAIN pairs)
         /\ IsFiniteSet(Nodes)
<1>1. DOMAIN pairs \subseteq Nodes \X Nodes
  BY DEF AggInv, AggregatesOK
<1>2. IsFiniteSet(Nodes \X Nodes) /\ IsFiniteSet(Nodes)
  BY ShapesAssumption, FS_Product
<1> QED
  BY <1>1, <1>2, FS_Subset

\* The amounts of some pairs sum to what is held of them.
LEMMA AmountsByPair ==
  ASSUME Control, AggInv, MoneyInv, NEW P \in SUBSET DOMAIN pairs
  PROVE  /\ Total(Amounts, P) = Total(Amount, {p \in Held : Key(stream[p]) \in P})
         /\ IsFiniteSet(P) /\ \A k \in P : Amounts[k] \in Int
<1>1. IsFiniteSet(P)
  BY PairsFinite, FS_Subset
<1>2. PICK key : key = [p \in Held |-> Key(stream[p])]
  OBVIOUS
<1>3. IsFiniteSet(Held) /\ \A p \in Held : Amount[p] \in Int
  BY HeldFinite DEF Control
<1>4. \A k \in P : Amounts[k] = Total(Amount, AtKey(Held, key, k))
  <2> SUFFICES ASSUME NEW k \in P
               PROVE  Amounts[k] = Total(Amount, AtKey(Held, key, k))
    OBVIOUS
  <2>1. AtKey(Held, key, k) = HeldOf(k)
    BY <1>2 DEF HeldOf, AtKey
  <2>2. Amounts[k] = Total(Amount, HeldOf(k))
    BY DEF Amounts, MoneyInv
  <2> QED
    BY <2>1, <2>2, Zenon
<1>5. Total(Amounts, P) = Total(Amount, AtKeys(Held, key, P))
  BY <1>1, <1>3, <1>4, TotalByKey
<1>6. AtKeys(Held, key, P) = {p \in Held : Key(stream[p]) \in P}
  BY <1>2 DEF AtKeys
<1>7. Total(Amounts, P) = Total(Amount, {p \in Held : Key(stream[p]) \in P})
  BY <1>5, <1>6, Zenon
<1>8. \A k \in P : Amounts[k] \in Int
  BY DEF Amounts, AggInv, AggregatesOK, Agg
<1> QED
  BY <1>1, <1>7, <1>8

LEMMA TotalsMatch ==
  ASSUME Control, AggInv, MoneyInv PROVE TotalsMatchPairs
<1>1. \A k \in DOMAIN pairs :
        /\ k = <<k[1], k[2]>> /\ k[1] \in Nodes /\ k[2] \in Nodes
        /\ \E p \in Held : stream[p].src = k[1] /\ stream[p].dst = k[2]
  <2> SUFFICES ASSUME NEW k \in DOMAIN pairs
               PROVE  /\ k = <<k[1], k[2]>> /\ k[1] \in Nodes /\ k[2] \in Nodes
                      /\ \E p \in Held : stream[p].src = k[1] /\ stream[p].dst = k[2]
    OBVIOUS
  <2>1. k \in Nodes \X Nodes
    BY PairsFinite
  <2>2. PICK p \in HeldOf(k) : TRUE
    BY <2>1 DEF AggInv, CountsMatchHeld
  <2> QED
    BY <2>1, <2>2 DEF HeldOf, Key
<1>2. \A p \in Held : /\ Key(stream[p]) \in DOMAIN pairs
                      /\ Key(stream[p])[1] = stream[p].src
                      /\ Key(stream[p])[2] = stream[p].dst
  BY HeldHasItsPair
<1>3. /\ DOMAIN total_out \subseteq Nodes /\ DOMAIN total_in \subseteq Nodes
      /\ \A n \in Nodes : /\ n \in DOMAIN total_out <=> HeldFrom(n) # {}
                          /\ n \in DOMAIN total_in <=> HeldTo(n) # {}
                          /\ n \in DOMAIN total_out => total_out[n] = Total(Amount, HeldFrom(n))
                          /\ n \in DOMAIN total_in => total_in[n] = Total(Amount, HeldTo(n))
  BY DEF MoneyInv, AggInv, AggregatesOK
<1>4. DOMAIN total_out = {k[1] : k \in DOMAIN pairs}
  <2>1. ASSUME NEW n \in DOMAIN total_out PROVE \E k \in DOMAIN pairs : n = k[1]
    <3>1. PICK p \in Held : stream[p].src = n
      BY <1>3 DEF HeldFrom
    <3> QED
      BY <1>2, <3>1
  <2>2. ASSUME NEW k \in DOMAIN pairs PROVE k[1] \in DOMAIN total_out
    <3>1. HeldFrom(k[1]) # {} /\ k[1] \in Nodes
      BY <1>1 DEF HeldFrom
    <3> QED
      BY <1>3, <3>1
  <2> QED
    BY <2>1, <2>2
<1>5. DOMAIN total_in = {k[2] : k \in DOMAIN pairs}
  <2>1. ASSUME NEW n \in DOMAIN total_in PROVE \E k \in DOMAIN pairs : n = k[2]
    <3>1. PICK p \in Held : stream[p].dst = n
      BY <1>3 DEF HeldTo
    <3> QED
      BY <1>2, <3>1
  <2>2. ASSUME NEW k \in DOMAIN pairs PROVE k[2] \in DOMAIN total_in
    <3>1. HeldTo(k[2]) # {} /\ k[2] \in Nodes
      BY <1>1 DEF HeldTo
    <3> QED
      BY <1>3, <3>1
  <2> QED
    BY <2>1, <2>2
<1>6. ASSUME NEW n \in DOMAIN total_out
      PROVE  total_out[n] = Total(Amounts, {k \in DOMAIN pairs : k[1] = n})
  <2>1. PICK P : P = {k \in DOMAIN pairs : k[1] = n}
    OBVIOUS
  <2>2. {p \in Held : Key(stream[p]) \in P} = HeldFrom(n)
    BY <1>2, <2>1 DEF HeldFrom
  <2>3. Total(Amounts, P) = Total(Amount, {p \in Held : Key(stream[p]) \in P})
    BY <2>1, AmountsByPair
  <2>4. Total(Amounts, P) = Total(Amount, HeldFrom(n))
    BY <2>2, <2>3, Zenon
  <2> QED
    BY <1>3, <2>1, <2>4
<1>7. ASSUME NEW n \in DOMAIN total_in
      PROVE  total_in[n] = Total(Amounts, {k \in DOMAIN pairs : k[2] = n})
  <2>1. PICK P : P = {k \in DOMAIN pairs : k[2] = n}
    OBVIOUS
  <2>2. {p \in Held : Key(stream[p]) \in P} = HeldTo(n)
    BY <1>2, <2>1 DEF HeldTo
  <2>3. Total(Amounts, P) = Total(Amount, {p \in Held : Key(stream[p]) \in P})
    BY <2>1, AmountsByPair
  <2>4. Total(Amounts, P) = Total(Amount, HeldTo(n))
    BY <2>2, <2>3, Zenon
  <2> QED
    BY <1>3, <2>1, <2>4
<1> QED
  BY <1>4, <1>5, <1>6, <1>7 DEF TotalsMatchPairs

\* The transactions held into, out of and within a set of accounts.
Into(nodes) == {p \in Held : stream[p].dst \in nodes}
OutOf(nodes) == {p \in Held : stream[p].src \in nodes}
Within(nodes) == {p \in Held : {stream[p].src, stream[p].dst} \subseteq nodes}

LEMMA FlowSums ==
  ASSUME Control, AggInv, MoneyInv, NEW nodes \in SUBSET Nodes
  PROVE  /\ Sum(total_in, nodes) = Total(Amount, Into(nodes))
         /\ Sum(total_out, nodes) = Total(Amount, OutOf(nodes))
         /\ Internal(nodes) = Total(Amount, Within(nodes))
<1>1. IsFiniteSet(Held) /\ \A p \in Held : Amount[p] \in Int
  BY HeldFinite DEF Control
<1>2. \A S \in SUBSET nodes : IsFiniteSet(S)
  BY PairsFinite, FS_Subset
<1>3. \A p \in Held : stream[p].src \in Nodes /\ stream[p].dst \in Nodes
  BY HeldHasItsPair
<1>4. Sum(total_in, nodes) = Total(Amount, Into(nodes))
  <2>1. PICK P : P = nodes \cap DOMAIN total_in
    OBVIOUS
  <2>2. PICK key : key = [p \in Held |-> stream[p].dst]
    OBVIOUS
  <2>3. \A n \in P : total_in[n] = Total(Amount, AtKey(Held, key, n))
    <3> SUFFICES ASSUME NEW n \in P
                 PROVE  total_in[n] = Total(Amount, AtKey(Held, key, n))
      OBVIOUS
    <3>1. AtKey(Held, key, n) = HeldTo(n)
      BY <2>2 DEF HeldTo, AtKey
    <3>2. total_in[n] = Total(Amount, HeldTo(n))
      BY <2>1 DEF MoneyInv
    <3> QED
      BY <3>1, <3>2, Zenon
  <2>4. IsFiniteSet(P)
    BY <1>2, <2>1
  <2>5. Total(total_in, P) = Total(Amount, AtKeys(Held, key, P))
    BY <1>1, <2>3, <2>4, TotalByKey
  <2>6. \A p \in Held : stream[p].dst \in DOMAIN total_in
    <3> SUFFICES ASSUME NEW p \in Held PROVE stream[p].dst \in DOMAIN total_in
      OBVIOUS
    <3>1. p \in HeldTo(stream[p].dst)
      BY DEF HeldTo
    <3> QED
      BY <1>3, <3>1 DEF MoneyInv
  <2>7. AtKeys(Held, key, P) = Into(nodes)
    BY <2>1, <2>2, <2>6 DEF Into, AtKeys
  <2>8. Total(total_in, P) = Total(Amount, Into(nodes))
    BY <2>5, <2>7, Zenon
  <2> QED
    BY <2>1, <2>8, Zenon DEF Sum
<1>5. Sum(total_out, nodes) = Total(Amount, OutOf(nodes))
  <2>1. PICK P : P = nodes \cap DOMAIN total_out
    OBVIOUS
  <2>2. PICK key : key = [p \in Held |-> stream[p].src]
    OBVIOUS
  <2>3. \A n \in P : total_out[n] = Total(Amount, AtKey(Held, key, n))
    <3> SUFFICES ASSUME NEW n \in P
                 PROVE  total_out[n] = Total(Amount, AtKey(Held, key, n))
      OBVIOUS
    <3>1. AtKey(Held, key, n) = HeldFrom(n)
      BY <2>2 DEF HeldFrom, AtKey
    <3>2. total_out[n] = Total(Amount, HeldFrom(n))
      BY <2>1 DEF MoneyInv
    <3> QED
      BY <3>1, <3>2, Zenon
  <2>4. IsFiniteSet(P)
    BY <1>2, <2>1
  <2>5. Total(total_out, P) = Total(Amount, AtKeys(Held, key, P))
    BY <1>1, <2>3, <2>4, TotalByKey
  <2>6. \A p \in Held : stream[p].src \in DOMAIN total_out
    <3> SUFFICES ASSUME NEW p \in Held PROVE stream[p].src \in DOMAIN total_out
      OBVIOUS
    <3>1. p \in HeldFrom(stream[p].src)
      BY DEF HeldFrom
    <3> QED
      BY <1>3, <3>1 DEF MoneyInv
  <2>7. AtKeys(Held, key, P) = OutOf(nodes)
    BY <2>1, <2>2, <2>6 DEF OutOf, AtKeys
  <2>8. Total(total_out, P) = Total(Amount, OutOf(nodes))
    BY <2>5, <2>7, Zenon
  <2> QED
    BY <2>1, <2>8, Zenon DEF Sum
<1>6. Internal(nodes) = Total(Amount, Within(nodes))
  <2>1. PICK P : P = SubgraphEdges(nodes)
    OBVIOUS
  <2>2. P \in SUBSET DOMAIN pairs
    BY <2>1 DEF SubgraphEdges
  <2>3. Total(Amounts, P) = Total(Amount, {p \in Held : Key(stream[p]) \in P})
    BY <2>2, AmountsByPair
  <2>4. \A p \in Held : /\ Key(stream[p]) \in DOMAIN pairs
                        /\ Key(stream[p])[1] = stream[p].src
                        /\ Key(stream[p])[2] = stream[p].dst
    BY HeldHasItsPair
  <2>5. {p \in Held : Key(stream[p]) \in P} = Within(nodes)
    BY <2>1, <2>4 DEF Within, SubgraphEdges
  <2>6. Total(Amounts, P) = Total(Amount, Within(nodes))
    BY <2>3, <2>5, Zenon
  <2> QED
    BY <2>1, <2>6, Zenon DEF Internal
<1> QED
  BY <1>4, <1>5, <1>6

LEMMA BoundaryIsExact ==
  ASSUME Control, AggInv, MoneyInv PROVE BoundaryFlowIsExact
<1> SUFFICES ASSUME NEW nodes \in SUBSET Nodes
             PROVE  BoundaryFlow(nodes) = BoundaryWalk(nodes)
  BY DEF BoundaryFlowIsExact
<1>1. PICK In : In = {k \in DOMAIN pairs : k[1] \notin nodes /\ k[2] \in nodes}
  OBVIOUS
<1>2. PICK Out : Out = {k \in DOMAIN pairs : k[1] \in nodes /\ k[2] \notin nodes}
  OBVIOUS
<1>3. PICK a : a = Within(nodes)
  OBVIOUS
<1>4. PICK b : b = Into(nodes) \ a
  OBVIOUS
<1>5. PICK c : c = OutOf(nodes) \ a
  OBVIOUS
<1>6. \A p \in Held : /\ Key(stream[p]) \in DOMAIN pairs
                      /\ Key(stream[p])[1] = stream[p].src
                      /\ Key(stream[p])[2] = stream[p].dst
  BY HeldHasItsPair
<1>7. /\ Into(nodes) = a \cup b /\ a \cap b = {}
      /\ OutOf(nodes) = a \cup c /\ a \cap c = {}
      /\ a \in SUBSET Held /\ b \in SUBSET Held /\ c \in SUBSET Held
  BY <1>3, <1>4, <1>5 DEF Into, OutOf, Within
<1>8. /\ {p \in Held : Key(stream[p]) \in In} = b
      /\ {p \in Held : Key(stream[p]) \in Out} = c
  BY <1>1, <1>2, <1>3, <1>4, <1>5, <1>6 DEF Into, OutOf, Within
<1>9. ControlOK
  BY DEF Control
<1>10. /\ IsFiniteSet(a) /\ IsFiniteSet(b) /\ IsFiniteSet(c)
       /\ \A p \in a \cup b : Amount[p] \in Int
       /\ \A p \in a \cup c : Amount[p] \in Int
  BY <1>7, <1>9, HeldFinite
<1>11. /\ Total(Amount, a \cup b) = Total(Amount, a) + Total(Amount, b)
       /\ Total(Amount, a \cup c) = Total(Amount, a) + Total(Amount, c)
  BY <1>7, <1>10, TotalJoin
<1>12. /\ Total(Amount, a) \in Int /\ Total(Amount, b) \in Int /\ Total(Amount, c) \in Int
  <2>1. /\ \A p \in a : Amount[p] \in Int
        /\ \A p \in b : Amount[p] \in Int
        /\ \A p \in c : Amount[p] \in Int
    BY <1>10
  <2> QED
    BY <1>10, <2>1, TotalTakesAny
<1>13. /\ Total(Amounts, In) = Total(Amount, {p \in Held : Key(stream[p]) \in In})
       /\ Total(Amounts, Out) = Total(Amount, {p \in Held : Key(stream[p]) \in Out})
  <2>1. In \in SUBSET DOMAIN pairs /\ Out \in SUBSET DOMAIN pairs
    BY <1>1, <1>2
  <2> QED
    BY <2>1, AmountsByPair
<1>14. Total(Amounts, In) = Total(Amount, b) /\ Total(Amounts, Out) = Total(Amount, c)
  BY <1>8, <1>13, Zenon
<1>15. /\ Sum(total_in, nodes) = Total(Amount, a \cup b)
       /\ Sum(total_out, nodes) = Total(Amount, a \cup c)
       /\ Internal(nodes) = Total(Amount, a)
  BY <1>3, <1>7, FlowSums, Zenon
<1>16. /\ Sum(total_in, nodes) - Internal(nodes) = Total(Amounts, In)
       /\ Sum(total_out, nodes) - Internal(nodes) = Total(Amounts, Out)
  BY <1>11, <1>12, <1>14, <1>15
<1>17. BoundaryWalk(nodes) = [inflow |-> Total(Amounts, In), outflow |-> Total(Amounts, Out)]
  BY <1>1, <1>2, Zenon DEF BoundaryWalk
<1> QED
  BY <1>16, <1>17 DEF BoundaryFlow

\* A finite set of times has a latest and an earliest.
LEMMA Extremes ==
  ASSUME NEW S, IsFiniteSet(S), S # {}, S \subseteq Nat
  PROVE  /\ Max(S) \in S /\ \A y \in S : y <= Max(S)
         /\ Min(S) \in S /\ \A y \in S : Min(S) <= y
<1>1. PICK Good : Good = {T \in SUBSET S :
                            T # {} => /\ \E x \in T : \A y \in T : x >= y
                                      /\ \E x \in T : \A y \in T : x <= y}
  OBVIOUS
<1>2. {} \in Good
  <2>1. {} \in SUBSET S
    OBVIOUS
  <2> QED
    BY <1>1, <2>1, Zenon
<1>3. ASSUME NEW T \in SUBSET S, NEW x \in S \ T, T \in Good
      PROVE  T \cup {x} \in Good
  <2>1. CASE T = {}
    BY <1>1, <2>1
  <2>2. CASE T # {}
    <3>1. PICK hi \in T, lo \in T : \A y \in T : hi >= y /\ lo <= y
      BY <1>1, <1>3, <2>2
    <3>2. hi \in Nat /\ lo \in Nat /\ x \in Nat /\ \A y \in T : y \in Nat
      BY <3>1
    <3>3. \E z \in T \cup {x} : \A y \in T \cup {x} : z >= y
      <4>1. CASE hi >= x
        BY <3>1, <3>2, <4>1
      <4>2. CASE x >= hi
        BY <3>1, <3>2, <4>2
      <4> QED
        BY <3>2, <4>1, <4>2
    <3>4. \E z \in T \cup {x} : \A y \in T \cup {x} : z <= y
      <4>1. CASE lo <= x
        BY <3>1, <3>2, <4>1
      <4>2. CASE x <= lo
        BY <3>1, <3>2, <4>2
      <4> QED
        BY <3>2, <4>1, <4>2
    <3> QED
      BY <1>1, <3>3, <3>4
  <2> QED
    BY <2>1, <2>2
<1>4. S \in Good
  BY <1>2, <1>3, OneByOne
<1>5. (\E x \in S : \A y \in S : x >= y) /\ \E x \in S : \A y \in S : x <= y
  BY <1>1, <1>4
<1>6. Max(S) \in S /\ \A y \in S : Max(S) >= y
  BY <1>5 DEF Max
<1>7. Min(S) \in S /\ \A y \in S : Min(S) <= y
  BY <1>5 DEF Min
<1> QED
  BY <1>6, <1>7

LEMMA TxnsAreCounted ==
  ASSUME Control, AggInv, NEW nodes
  PROVE  n_txns(nodes) = Cardinality(Within(nodes))
<1>1. PICK P : P = SubgraphEdges(nodes)
  OBVIOUS
<1>2. PICK counts : counts = [k \in DOMAIN pairs |-> pairs[k].count]
  OBVIOUS
<1>3. PICK ones : ones = [p \in Held |-> 1]
  OBVIOUS
<1>4. PICK key : key = [p \in Held |-> Key(stream[p])]
  OBVIOUS
<1>5. ControlOK /\ P \subseteq DOMAIN pairs /\ IsFiniteSet(P)
  BY <1>1, PairsFinite, FS_Subset DEF SubgraphEdges, Control
<1>6. IsFiniteSet(Held) /\ \A p \in Held : ones[p] \in Int
  BY <1>3, <1>5, HeldFinite
<1>7. \A k \in P : counts[k] = Total(ones, AtKey(Held, key, k))
  <2> SUFFICES ASSUME NEW k \in P
               PROVE  counts[k] = Total(ones, AtKey(Held, key, k))
    OBVIOUS
  <2>1. AtKey(Held, key, k) = HeldOf(k)
    BY <1>4 DEF HeldOf, AtKey
  <2>2. IsFiniteSet(HeldOf(k)) /\ \A p \in HeldOf(k) : ones[p] = 1
    BY <1>3, <1>5, HeldOfFinite DEF HeldOf
  <2>3. Total(ones, HeldOf(k)) = Cardinality(HeldOf(k))
    BY <2>2, TotalCounts
  <2>4. counts[k] = Cardinality(HeldOf(k))
    BY <1>2, <1>5, PairsFinite DEF AggInv, CountsMatchHeld
  <2> QED
    BY <2>1, <2>3, <2>4, Zenon
<1>8. Total(counts, P) = Total(ones, AtKeys(Held, key, P))
  BY <1>5, <1>6, <1>7, TotalByKey
<1>9. \A p \in Held : /\ Key(stream[p]) \in DOMAIN pairs
                      /\ Key(stream[p])[1] = stream[p].src
                      /\ Key(stream[p])[2] = stream[p].dst
  BY HeldHasItsPair
<1>10. AtKeys(Held, key, P) = Within(nodes)
  BY <1>1, <1>4, <1>9 DEF Within, SubgraphEdges, AtKeys
<1>11. Total(counts, P) = Total(ones, Within(nodes))
  BY <1>8, <1>10, Zenon
<1>12. Within(nodes) \subseteq Held
  BY DEF Within
<1>13. IsFiniteSet(Within(nodes)) /\ \A p \in Within(nodes) : ones[p] = 1
  BY <1>3, <1>6, <1>12, FS_Subset
<1>14. Total(ones, Within(nodes)) = Cardinality(Within(nodes))
  BY <1>13, TotalCounts
<1>15. Total(counts, P) = Cardinality(Within(nodes))
  BY <1>11, <1>14, Zenon
<1> QED
  BY <1>1, <1>2, <1>15, Zenon DEF n_txns

LEMMA VolumeIsRight ==
  ASSUME Control, AggInv, MoneyInv, NEW nodes \in SUBSET Nodes
  PROVE  total_amount(nodes) = Total([p \in Held |-> stream[p].amount],
                                     {p \in Held : stream[p].dst \in nodes})
<1>1. PICK f : f = [p \in Held |-> stream[p].amount]
  OBVIOUS
<1>2. ControlOK /\ Into(nodes) \subseteq Held /\ Within(nodes) \subseteq Held
  BY DEF Control, Into, Within
<1>3. /\ IsFiniteSet(Into(nodes)) /\ \A p \in Into(nodes) : Amount[p] \in Int
      /\ IsFiniteSet(Within(nodes)) /\ \A p \in Within(nodes) : Amount[p] \in Int
  BY <1>2, HeldFinite
<1>4. \A p \in Into(nodes) : p \in 1..Len(stream)
  BY <1>2 DEF Held, ControlOK
<1>5. \A p \in Into(nodes) : f[p] = Amount[p]
  BY <1>1, <1>2, <1>4 DEF Amount
<1>6. Total(f, Into(nodes)) = Total(Amount, Into(nodes))
  BY <1>3, <1>5, TotalSame
<1>7. Total(Amount, Into(nodes)) \in Int /\ Total(Amount, Within(nodes)) \in Int
  BY <1>3, TotalTakesAny
<1>8. /\ Sum(total_in, nodes) = Total(Amount, Into(nodes))
      /\ Internal(nodes) = Total(Amount, Within(nodes))
  BY FlowSums
<1>9. total_amount(nodes) = Internal(nodes) + (Sum(total_in, nodes) - Internal(nodes))
  BY DEF total_amount, BoundaryFlow
<1>10. total_amount(nodes) = Total(f, Into(nodes))
  BY <1>6, <1>7, <1>8, <1>9
<1> QED
  BY <1>1, <1>10, Zenon DEF Into

\* The times of the transactions among some accounts: all, held, and of pairs.
LEMMA SpanIsBetween ==
  ASSUME Control, AggInv, TimesInv, NEW nodes \in SUBSET Nodes, Within(nodes) # {},
         NEW H, H = {stream[p].ts : p \in Within(nodes)},
         NEW A, A = {stream[p].ts : p \in {q \in 1..left :
                        {stream[q].src, stream[q].dst} \subseteq nodes}}
  PROVE  span_minutes(SubgraphEdges(nodes)) \in (Max(H) - Min(H))..(Max(A) - Min(A))
<1>1. PICK E : E = SubgraphEdges(nodes)
  OBVIOUS
<1>2. PICK F : F = {pairs[k].first_t : k \in E}
  OBVIOUS
<1>3. PICK L : L = {pairs[k].last_t : k \in E}
  OBVIOUS
<1>4. ControlOK /\ left \in 0..Len(stream) /\ Len(stream) \in Nat \ {0}
  BY DEF Control, ControlOK
<1>5. \A p \in 1..Len(stream) : stream[p].ts \in 0..stream[Len(stream)].ts
  <2> SUFFICES ASSUME NEW p \in 1..Len(stream)
               PROVE  stream[p].ts \in 0..stream[Len(stream)].ts
    OBVIOUS
  <2>1. Len(stream) \in 1..Len(stream)
    BY <1>4
  <2>2. stream[p].ts \in Nat /\ stream[Len(stream)].ts \in Nat
    BY <1>4, <2>1, EdgeTypes
  <2>3. stream[p].ts <= stream[Len(stream)].ts
    BY <1>4, <2>1 DEF ControlOK, TimeOrdered
  <2> QED
    BY <2>2, <2>3
<1>6. Within(nodes) \subseteq {q \in 1..left : {stream[q].src, stream[q].dst} \subseteq nodes}
      /\ 1..left \subseteq 1..Len(stream)
  BY <1>4 DEF Within, Held
<1>7. H \subseteq A /\ A \subseteq 0..stream[Len(stream)].ts /\ H # {}
  BY <1>5, <1>6
<1>8. \A p \in Within(nodes) : /\ Key(stream[p]) \in E /\ p \in HeldOf(Key(stream[p]))
  BY <1>1, HeldHasItsPair DEF Within, SubgraphEdges
<1>9. ASSUME NEW k \in E
      PROVE  /\ k \in DOMAIN pairs
             /\ \A p : Key(stream[p]) = k => {stream[p].src, stream[p].dst} \subseteq nodes
  BY <1>1 DEF SubgraphEdges, Key
<1>10. \A k \in E : pairs[k].first_t \in A /\ pairs[k].last_t \in H
  <2> SUFFICES ASSUME NEW k \in E PROVE pairs[k].first_t \in A /\ pairs[k].last_t \in H
    OBVIOUS
  <2>1. PICK p \in 1..left : Key(stream[p]) = k /\ stream[p].ts = pairs[k].first_t
    BY <1>9, IntervalSpans
  <2>2. PICK q \in HeldOf(k) : stream[q].ts = pairs[k].last_t
    BY <1>9, IntervalSpans
  <2>3. q \in Within(nodes)
    BY <1>9, <2>2 DEF HeldOf, Within
  <2> QED
    BY <1>9, <2>1, <2>2, <2>3
<1>11. F \subseteq A /\ L \subseteq H /\ F # {} /\ L # {} /\ E # {}
  BY <1>2, <1>3, <1>8, <1>10
<1>12. \A x \in H : (\E y \in F : y <= x) /\ (\E y \in L : x <= y)
  <2> SUFFICES ASSUME NEW p \in Within(nodes)
               PROVE  /\ \E y \in F : y <= stream[p].ts
                      /\ \E y \in L : stream[p].ts <= y
    OBVIOUS
  <2>1. PICK k \in E : p \in HeldOf(k)
    BY <1>8
  <2>2. pairs[k].first_t <= stream[p].ts /\ stream[p].ts <= pairs[k].last_t
    BY <1>9, <2>1, IntervalSpans
  <2> QED
    BY <1>2, <1>3, <2>2
<1>13. IsFiniteSet(0..stream[Len(stream)].ts) /\ 0..stream[Len(stream)].ts \subseteq Nat
  <2>1. PICK m : m = stream[Len(stream)].ts
    OBVIOUS
  <2>2. m \in Nat
    BY <1>4, <2>1, EdgeTypes
  <2>3. IsFiniteSet(0..m) /\ 0..m \subseteq Nat
    BY <2>2, FS_Interval
  <2> QED
    BY <2>1, <2>3, Zenon
<1>14. /\ IsFiniteSet(A) /\ A # {} /\ A \subseteq Nat /\ IsFiniteSet(H) /\ H \subseteq Nat
       /\ IsFiniteSet(F) /\ F \subseteq Nat /\ IsFiniteSet(L) /\ L \subseteq Nat
  BY <1>7, <1>11, <1>13, FS_Subset
<1>15. /\ Max(A) \in A /\ Min(A) \in A /\ \A y \in A : y <= Max(A) /\ Min(A) <= y
       /\ Max(H) \in H /\ Min(H) \in H
       /\ Min(F) \in F /\ \A y \in F : Min(F) <= y
       /\ Max(L) \in L /\ \A y \in L : y <= Max(L)
  BY <1>7, <1>11, <1>14, Extremes
<1>16. /\ Max(L) \in A /\ Min(F) \in A /\ Max(A) \in Nat /\ Min(A) \in Nat
       /\ Max(L) \in Nat /\ Min(F) \in Nat /\ Max(H) \in Nat /\ Min(H) \in Nat
  BY <1>7, <1>11, <1>14, <1>15
<1>17. Max(H) <= Max(L) /\ Min(F) <= Min(H)
  <2>1. PICK y \in F, z \in L : y <= Min(H) /\ Max(H) <= z
    BY <1>12, <1>15
  <2>2. y \in Nat /\ z \in Nat
    BY <1>14
  <2> QED
    BY <1>15, <1>16, <2>1, <2>2
<1>18. Max(L) <= Max(A) /\ Min(A) <= Min(F)
  BY <1>15, <1>16
<1>19. span_minutes(E) = Max(L) - Min(F)
  BY <1>2, <1>3, <1>11 DEF span_minutes
<1>20. span_minutes(E) \in (Max(H) - Min(H))..(Max(A) - Min(A))
  BY <1>16, <1>17, <1>18, <1>19
<1> QED
  BY <1>1, <1>20, Zenon

LEMMA VolumeExact ==
  ASSUME Control, AggInv, TimesInv, MoneyInv PROVE VolumeIsExact
<1> SUFFICES ASSUME NEW nodes \in Candidates
    PROVE  LET Inside(P) == {p \in P : {stream[p].src, stream[p].dst} \subseteq nodes}
               Span(P) == IF P = {} THEN 0
                          ELSE Max({stream[p].ts : p \in P}) - Min({stream[p].ts : p \in P})
           IN /\ n_txns(nodes) = Cardinality(Inside(Held))
              /\ total_amount(nodes)
                   = Total([p \in Held |-> stream[p].amount],
                           {p \in Held : stream[p].dst \in nodes})
              /\ Inside(Held) # {} =>
                   span_minutes(SubgraphEdges(nodes))
                     \in Span(Inside(Held))..Span(Inside(1..left))
  BY Zenon DEF VolumeIsExact
<1> DEFINE Inside(P) == {p \in P : {stream[p].src, stream[p].dst} \subseteq nodes}
           Span(P) == IF P = {} THEN 0
                      ELSE Max({stream[p].ts : p \in P}) - Min({stream[p].ts : p \in P})
<1>1. nodes \in SUBSET Nodes
  BY DEF Candidates
<1>2. Inside(Held) = Within(nodes)
  BY DEF Within
<1>3. n_txns(nodes) = Cardinality(Inside(Held))
  BY <1>2, TxnsAreCounted, Zenon
<1>4. total_amount(nodes) = Total([p \in Held |-> stream[p].amount],
                                  {p \in Held : stream[p].dst \in nodes})
  BY <1>1, VolumeIsRight
<1>5. ASSUME Inside(Held) # {}
      PROVE  span_minutes(SubgraphEdges(nodes)) \in Span(Inside(Held))..Span(Inside(1..left))
  <2>1. PICK H : H = {stream[p].ts : p \in Within(nodes)}
    OBVIOUS
  <2>2. PICK A : A = {stream[p].ts : p \in Inside(1..left)}
    OBVIOUS
  <2>3. span_minutes(SubgraphEdges(nodes)) \in (Max(H) - Min(H))..(Max(A) - Min(A))
    BY <1>1, <1>2, <1>5, <2>1, <2>2, SpanIsBetween
  <2>4. Inside(Held) \subseteq Inside(1..left)
    BY DEF Held
  <2>5. Span(Inside(Held)) = Max(H) - Min(H)
    BY <1>2, <1>5, <2>1, Zenon
  <2>6. Inside(1..left) # {}
    BY <1>5, <2>4
  <2>7. Span(Inside(1..left)) = Max(A) - Min(A)
    BY <2>2, <2>6, Zenon
  <2> QED
    BY <2>3, <2>5, <2>7, Zenon
<1> QED
  BY <1>3, <1>4, <1>5, Zenon

\* Running totals, boundary flow, volume and lifetime statistics all agree
\* with the transactions themselves, however slices are added and expired
\* (window.py:280-302, features.py boundary flow and candidate features).
THEOREM Flows == Spec => []FlowsAreExact
<1>1. Control /\ AggInv /\ TimesInv /\ MoneyInv /\ StatsInv => FlowsAreExact
  BY LifetimeCovers, TotalsMatch, BoundaryIsExact, VolumeExact DEF FlowsAreExact
<1> QED
  BY <1>1, ControlAlways, AggAlways, TimesAlways, MoneyAlways, StatsAlways, PTL

-----------------------------------------------------------------------------
(* The layer score of an account                                           *)

LEMMA ProductGrows ==
  ASSUME NEW a \in Nat, NEW b \in Nat, a <= b, NEW c \in Nat
  PROVE  a * c <= b * c /\ a * c \in Nat /\ b * c \in Nat
<1>1. PICK d \in Nat : b = a + d
  <2>1. b - a \in Nat /\ b = a + (b - a)
    OBVIOUS
  <2> QED
    BY <2>1
<1>2. b * c = a * c + d * c /\ a * c \in Nat /\ d * c \in Nat
  BY <1>1, SMTT(30)
<1> QED
  BY <1>2

\* More impurity, no more score.
LEMMA ScoreFalls ==
  ASSUME NEW pure \in Nat, NEW x \in Nat, NEW y \in Nat, x <= y,
         NEW w \in Nat, NEW d \in Nat
  PROVE  NoMoreThan(<<Maximum(0, pure - y) * w, d>>, <<Maximum(0, pure - x) * w, d>>)
<1>1. PICK a, b : a = Maximum(0, pure - y) /\ b = Maximum(0, pure - x)
  OBVIOUS
<1>2. a \in Nat /\ b \in Nat /\ a <= b
  BY <1>1 DEF Maximum
<1>3. a * w <= b * w /\ a * w \in Nat /\ b * w \in Nat
  BY <1>2, ProductGrows
<1>4. (a * w) * d <= (b * w) * d
  BY <1>3, ProductGrows
<1>5. NoMoreThan(<<a * w, d>>, <<b * w, d>>)
  BY <1>4 DEF NoMoreThan
<1> QED
  BY <1>1, <1>5, Zenon

LEMMA PayingGrows ==
  ASSUME NEW S, NEW R, IsFiniteSet(S), \A u \in S : out_adj[u] \subseteq out_adj'[u]
  PROVE  /\ Paying(S, R) \in Nat
         /\ Cardinality({u \in S : out_adj'[u] \cap R # {}}) \in Nat
         /\ Paying(S, R) <= Cardinality({u \in S : out_adj'[u] \cap R # {}})
<1>1. PICK A : A = {u \in S : out_adj[u] \cap R # {}}
  OBVIOUS
<1>2. PICK B : B = {u \in S : out_adj'[u] \cap R # {}}
  OBVIOUS
<1>3. A \subseteq B /\ B \subseteq S
  BY <1>1, <1>2
<1>4. IsFiniteSet(B)
  BY <1>3, FS_Subset
<1>5. IsFiniteSet(A) /\ Cardinality(A) <= Cardinality(B)
  BY <1>3, <1>4, FS_Subset
<1>6. Cardinality(A) \in Nat /\ Cardinality(B) \in Nat
  BY <1>4, <1>5, FS_CardinalityType
<1> QED
  BY <1>1, <1>2, <1>5, <1>6 DEF Paying

\* The score from its parts.
ScoreOf(S, R, ss, sr, rr, rs) ==
  LET s == Maximum(1, Cardinality(S))
      r == Maximum(1, Cardinality(R))
      both == Cardinality(S \cap R)
      impure == (ss + sr + both) * r + (rr + rs + both) * s
      pure == Terms(S, R) * s * r
      width == IF S # {} /\ R # {} THEN 2 * Minimum(Cardinality(S), Cardinality(R))
               ELSE Maximum(Cardinality(S), Cardinality(R))
      full == 2 * SMURF_WIDTH_SATURATION
  IN IF Cardinality(S) + Cardinality(R) \in 1..MaxWidth
     THEN <<Maximum(0, pure - impure) * Minimum(width, full), pure * full>>
     ELSE Zero

LEMMA ScoreOfFalls ==
  ASSUME NEW S, NEW R, IsFiniteSet(S), IsFiniteSet(R),
         NEW a \in Nat, NEW b \in Nat, NEW c \in Nat, NEW d \in Nat,
         NEW a1 \in Nat, NEW b1 \in Nat, NEW c1 \in Nat, NEW d1 \in Nat,
         a <= a1, b <= b1, c <= c1, d <= d1
  PROVE  NoMoreThan(ScoreOf(S, R, a1, b1, c1, d1), ScoreOf(S, R, a, b, c, d))
<1>1. PICK cs, cr, both : cs = Cardinality(S) /\ cr = Cardinality(R)
                          /\ both = Cardinality(S \cap R)
  OBVIOUS
<1>2. cs \in Nat /\ cr \in Nat /\ both \in Nat
  <2>1. IsFiniteSet(S \cap R)
    BY FS_Intersection
  <2> QED
    BY <1>1, <2>1, FS_CardinalityType
<1>3. PICK s, r : s = Maximum(1, cs) /\ r = Maximum(1, cr)
  OBVIOUS
<1>4. s \in Nat /\ r \in Nat
  BY <1>2, <1>3 DEF Maximum
<1>5. PICK width : width = IF S # {} /\ R # {} THEN 2 * Minimum(cs, cr) ELSE Maximum(cs, cr)
  OBVIOUS
<1>6. PICK w : w = Minimum(width, 2 * SMURF_WIDTH_SATURATION)
  OBVIOUS
<1>7. SMURF_WIDTH_SATURATION \in Nat
  BY ShapesAssumption
<1>8. width \in Nat /\ w \in Nat
  BY <1>2, <1>5, <1>6, <1>7 DEF Minimum, Maximum
<1>9. PICK pure : pure = Terms(S, R) * s * r
  OBVIOUS
<1>10. pure \in Nat
  <2>1. Terms(S, R) \in Nat
    BY DEF Terms
  <2>2. Terms(S, R) * s \in Nat
    BY <1>4, <2>1, SMTT(30)
  <2> QED
    BY <1>4, <1>9, <2>2, SMTT(30)
<1>11. PICK full : full = 2 * SMURF_WIDTH_SATURATION
  OBVIOUS
<1>12. pure * full \in Nat
  BY <1>7, <1>10, <1>11, SMTT(30)
<1>13. PICK x : x = (a + b + both) * r + (c + d + both) * s
  OBVIOUS
<1>14. PICK y : y = (a1 + b1 + both) * r + (c1 + d1 + both) * s
  OBVIOUS
<1>15. x \in Nat /\ y \in Nat /\ x <= y
  <2>1. /\ a + b + both \in Nat /\ a1 + b1 + both \in Nat
        /\ a + b + both <= a1 + b1 + both
        /\ c + d + both \in Nat /\ c1 + d1 + both \in Nat
        /\ c + d + both <= c1 + d1 + both
    BY <1>2
  <2>2. /\ (a + b + both) * r <= (a1 + b1 + both) * r
        /\ (a + b + both) * r \in Nat /\ (a1 + b1 + both) * r \in Nat
    BY <1>4, <2>1, ProductGrows
  <2>3. /\ (c + d + both) * s <= (c1 + d1 + both) * s
        /\ (c + d + both) * s \in Nat /\ (c1 + d1 + both) * s \in Nat
    BY <1>4, <2>1, ProductGrows
  <2> QED
    BY <1>13, <1>14, <2>2, <2>3
<1>16. CASE cs + cr \in 1..MaxWidth
  <2>1. ScoreOf(S, R, a, b, c, d) = <<Maximum(0, pure - x) * w, pure * full>>
    BY <1>1, <1>3, <1>5, <1>6, <1>9, <1>11, <1>13, <1>16, Zenon DEF ScoreOf
  <2>2. ScoreOf(S, R, a1, b1, c1, d1) = <<Maximum(0, pure - y) * w, pure * full>>
    BY <1>1, <1>3, <1>5, <1>6, <1>9, <1>11, <1>14, <1>16, Zenon DEF ScoreOf
  <2>3. NoMoreThan(<<Maximum(0, pure - y) * w, pure * full>>,
                   <<Maximum(0, pure - x) * w, pure * full>>)
    BY <1>8, <1>10, <1>12, <1>15, ScoreFalls
  <2> QED
    BY <2>1, <2>2, <2>3, Zenon
<1>17. CASE ~(cs + cr \in 1..MaxWidth)
  <2>1. ScoreOf(S, R, a, b, c, d) = Zero /\ ScoreOf(S, R, a1, b1, c1, d1) = Zero
    BY <1>1, <1>17, Zenon DEF ScoreOf
  <2>2. NoMoreThan(Zero, Zero)
    BY DEF NoMoreThan, Zero
  <2> QED
    BY <2>1, <2>2, Zenon
<1> QED
  BY <1>16, <1>17

\* With the same payers and payees, a payment more never raises an account's
\* layer score, for any accounts and width limits (layers.node_smurf_score).
THEOREM NeverPurer == Spec => ContaminationNeverHelps
<1>1. ASSUME Control, AggInv, [Next]_vars, pc = "add", NEW n \in Nodes,
             Payers(n)' = Payers(n), Payees(n)' = Payees(n)
      PROVE  NoMoreThan(node_smurf_score(n)', node_smurf_score(n))
  <2>1. PICK S, R : S = Payers(n) /\ R = Payees(n)
    OBVIOUS
  <2>2. S \subseteq Nodes /\ R \subseteq Nodes /\ IsFiniteSet(Nodes)
    BY <1>1, <2>1, PairsFinite DEF Payers, Payees, AggInv, AggregatesOK
  <2>3. IsFiniteSet(S) /\ IsFiniteSet(R)
    BY <2>2, FS_Subset
  <2>4. \A u \in Nodes : out_adj[u] \subseteq out_adj'[u]
    <3>1. CASE AddEdge
      <4>1. \/ out_adj' = out_adj
            \/ out_adj' = [out_adj EXCEPT ![stream[i].src] = @ \cup {stream[i].dst}]
        BY <3>1 DEF AddEdge
      <4>2. out_adj \in [Nodes -> SUBSET Nodes]
        BY <1>1 DEF AggInv, AggregatesOK
      <4> QED
        BY <4>1, <4>2
    <3>2. CASE UNCHANGED vars
      BY <3>2 DEF vars
    <3> QED
      BY <1>1, <3>1, <3>2 DEF Next, StartBatch, PopSlice, Return, RemoveEdge
  <2>5. PICK a, b, c, d : a = Paying(S, S) /\ b = Paying(S, R)
                          /\ c = Paying(R, R) /\ d = Paying(R, S)
    OBVIOUS
  <2>6. PICK a1, b1, c1, d1 :
          /\ a1 = Cardinality({u \in S : out_adj'[u] \cap S # {}})
          /\ b1 = Cardinality({u \in S : out_adj'[u] \cap R # {}})
          /\ c1 = Cardinality({u \in R : out_adj'[u] \cap R # {}})
          /\ d1 = Cardinality({u \in R : out_adj'[u] \cap S # {}})
    OBVIOUS
  <2>7. /\ \A u \in S : out_adj[u] \subseteq out_adj'[u]
        /\ \A u \in R : out_adj[u] \subseteq out_adj'[u]
    BY <2>2, <2>4
  <2>8. a \in Nat /\ a1 \in Nat /\ a <= a1
    BY <2>3, <2>5, <2>6, <2>7, PayingGrows
  <2>9. b \in Nat /\ b1 \in Nat /\ b <= b1
    BY <2>3, <2>5, <2>6, <2>7, PayingGrows
  <2>10. c \in Nat /\ c1 \in Nat /\ c <= c1
    BY <2>3, <2>5, <2>6, <2>7, PayingGrows
  <2>11. d \in Nat /\ d1 \in Nat /\ d <= d1
    BY <2>3, <2>5, <2>6, <2>7, PayingGrows
  <2>12. NoMoreThan(ScoreOf(S, R, a1, b1, c1, d1), ScoreOf(S, R, a, b, c, d))
    BY <2>3, <2>8, <2>9, <2>10, <2>11, ScoreOfFalls
  <2>13. node_smurf_score(n) = ScoreOf(S, R, a, b, c, d)
    BY <2>1, <2>5, Zenon DEF node_smurf_score, ScoreOf
  <2>14. node_smurf_score(n)' = ScoreOf(S, R, a1, b1, c1, d1)
    <3>1. Payers(n)' = S /\ Payees(n)' = R
      BY <1>1, <2>1
    <3> QED
      BY <2>6, <3>1, Zenon DEF node_smurf_score, ScoreOf, Paying
  <2> QED
    BY <2>12, <2>13, <2>14, Zenon
<1>2. Control /\ AggInv /\ [Next]_vars =>
        [pc = "add" =>
           \A n \in Nodes :
             /\ Payers(n)' = Payers(n) /\ Payees(n)' = Payees(n)
             => NoMoreThan(node_smurf_score(n)', node_smurf_score(n))]_vars
  BY <1>1
<1> QED
  BY <1>2, ControlAlways, AggAlways, PTL DEF Spec, ContaminationNeverHelps

-----------------------------------------------------------------------------
(* The digraph of a candidate: sizes.                                      *)

\* A part is no larger than the whole.
LEMMA PartSize ==
  ASSUME NEW V, IsFiniteSet(V), NEW S \in SUBSET V
  PROVE  /\ IsFiniteSet(S) /\ Cardinality(S) \in Nat /\ Cardinality(V) \in Nat
         /\ Cardinality(S) <= Cardinality(V)
         /\ Cardinality(S) = 0 <=> S = {}
BY FS_Subset, FS_CardinalityType, FS_EmptySet

\* A function that is one-to-one on S has as many values on it as S has members.
LEMMA ImageSize ==
  ASSUME NEW S, IsFiniteSet(S), NEW f, DOMAIN f = S,
         \A x, y \in S : f[x] = f[y] => x = y, NEW T, T = {f[x] : x \in S}
  PROVE  IsFiniteSet(T) /\ Cardinality(T) = Cardinality(S)
<1>1. PICK g : g = [x \in S |-> f[x]]
  OBVIOUS
<1>2. g \in [S -> T] /\ \A x \in S : g[x] = f[x]
  BY <1>1
<1>3. g \in Injection(S, T)
  BY <1>2 DEF Injection, IsInjective
<1>4. g \in Surjection(S, T)
  BY <1>2 DEF Surjection
<1> QED
  BY <1>3, <1>4, FS_Surjection

\* The image of a finite set is finite.
LEMMA ImageFinite ==
  ASSUME NEW S, IsFiniteSet(S), NEW f, DOMAIN f = S, NEW T, T = {f[x] : x \in S}
  PROVE  IsFiniteSet(T) /\ Cardinality(T) <= Cardinality(S)
<1>1. PICK g : g = [x \in S |-> f[x]]
  OBVIOUS
<1>2. g \in [S -> T] /\ \A x \in S : g[x] = f[x]
  BY <1>1
<1>3. g \in Surjection(S, T)
  BY <1>2 DEF Surjection
<1> QED
  BY <1>3, FS_Surjection

\* Widest is the largest of some bounded numbers, or zero.
LEMMA WidestIs ==
  ASSUME NEW N \in Nat, NEW S \in SUBSET (0..N)
  PROVE  /\ Widest(S) \in 0..N /\ Widest(S) \in S \cup {0}
         /\ \A y \in S : y <= Widest(S)
<1>1. PICK T : T = {0} \cup S
  OBVIOUS
<1>2. T \in SUBSET (0..N) /\ T # {} /\ T \subseteq Nat /\ S \subseteq T
  BY <1>1
<1>3. IsFiniteSet(T)
  <2>1. IsFiniteSet(0..N)
    BY FS_Interval
  <2> QED
    BY <1>2, <2>1, FS_Subset
<1>4. Max(T) \in T /\ \A y \in T : y <= Max(T)
  BY <1>2, <1>3, Extremes
<1>5. Widest(S) = Max(T)
  BY <1>1 DEF Widest
<1> QED
  BY <1>1, <1>2, <1>4, <1>5

\* Who is paid by whom, and who is in the graph.
LEMMA Roles ==
  ASSUME NEW V, IsFiniteSet(V), NEW E, E \subseteq V \X V
  PROVE  /\ IsFiniteSet(E) /\ Endpoints(E) \subseteq V /\ IsFiniteSet(Endpoints(E))
         /\ \A n, m : m \in Succ(E, n) <=> <<n, m>> \in E
         /\ \A n, m : n \in Pred(E, m) <=> <<n, m>> \in E
         /\ \A n, m : <<n, m>> \in E => n \in Endpoints(E) /\ m \in Endpoints(E)
         /\ \A n : Succ(E, n) \subseteq Endpoints(E) /\ Pred(E, n) \subseteq Endpoints(E)
<1>1. IsFiniteSet(E)
  BY FS_Product, FS_Subset
<1>2. \A k \in E : k = <<k[1], k[2]>> /\ k[1] \in V /\ k[2] \in V
  OBVIOUS
<1>3. \A n : n \in Endpoints(E) <=> \E k \in E : n = k[1] \/ n = k[2]
  BY DEF Endpoints
<1>4. \A n, m : m \in Succ(E, n) <=> <<n, m>> \in E
  BY <1>2 DEF Succ
<1>5. \A n, m : n \in Pred(E, m) <=> <<n, m>> \in E
  BY <1>2 DEF Pred
<1>6. \A n, m : <<n, m>> \in E => n \in Endpoints(E) /\ m \in Endpoints(E)
  BY <1>3
<1>7. Endpoints(E) \subseteq V
  BY <1>2, <1>3
<1> QED
  BY <1>1, <1>4, <1>5, <1>6, <1>7, FS_Subset

\* The pairs of different accounts, one of S and one of R.
Apart(S, R) == {k \in S \X R : k[1] # k[2]}

LEMMA OffDiagonal ==
  ASSUME NEW V, IsFiniteSet(V), NEW S \in SUBSET V, NEW R \in SUBSET V
  PROVE  /\ IsFiniteSet(Apart(S, R))
         /\ Cardinality(Apart(S, R)) = Cardinality(S) * Cardinality(R) - Cardinality(S \cap R)
<1>1. PICK P : P = Apart(S, R)
  OBVIOUS
<1>2. PICK B : B = S \cap R
  OBVIOUS
<1>3. PICK f : f = [x \in B |-> <<x, x>>]
  OBVIOUS
<1>4. PICK D : D = {f[x] : x \in B}
  OBVIOUS
<1>5. IsFiniteSet(S) /\ IsFiniteSet(R) /\ IsFiniteSet(B)
  BY <1>2, PartSize
<1>6. DOMAIN f = B /\ \A x \in B : f[x] = <<x, x>>
  BY <1>3
<1>7. Cardinality(D) = Cardinality(B)
  <2>1. \A x, y \in B : f[x] = f[y] => x = y
    BY <1>6
  <2> QED
    BY <1>4, <1>5, <1>6, <2>1, ImageSize
<1>8. PICK Q : Q = S \X R
  OBVIOUS
<1>9. IsFiniteSet(Q) /\ Cardinality(Q) = Cardinality(S) * Cardinality(R)
  BY <1>5, <1>8, FS_Product
<1>10. P = Q \ D /\ Q \cap D = D
  <2>1. \A k : k \in D <=> \E x \in B : k = <<x, x>>
    BY <1>4, <1>6
  <2> QED
    BY <1>1, <1>2, <1>8, <2>1 DEF Apart
<1>11. IsFiniteSet(Q \ D) /\ Cardinality(Q \ D) = Cardinality(Q) - Cardinality(Q \cap D)
  BY <1>9, FS_Difference
<1> QED
  BY <1>1, <1>2, <1>7, <1>9, <1>10, <1>11

\* A number of parts of a whole that is not empty.
Fraction(p) == p[1] \in Nat /\ p[2] \in Nat /\ p[2] > 0

\* A block's density is a share, and its numerator the edges that it has.
LEMMA BlockShare ==
  ASSUME NEW V, IsFiniteSet(V), NEW E, E \subseteq V \X V,
         NEW S \in SUBSET V, NEW R \in SUBSET V,
         NEW p, p = Share(Block(E, S, R))
  PROVE  /\ Fraction(p) /\ p[1] <= p[2] /\ p[1] = Block(E, S, R)[1]
         /\ S = {} \/ R = {} => p[1] = 0
<1>1. PICK P : P = Apart(S, R)
  OBVIOUS
<1>2. PICK N : N = {k \in E : k[1] \in S /\ k[2] \in R /\ k[1] # k[2]}
  OBVIOUS
<1>3. PICK c : c = Cardinality(S) * Cardinality(R) - Cardinality(S \cap R)
  OBVIOUS
<1>4. IsFiniteSet(P) /\ Cardinality(P) = c
  <2>1. IsFiniteSet(Apart(S, R)) /\ Cardinality(Apart(S, R)) = c
    BY <1>3, OffDiagonal
  <2> QED
    BY <1>1, <2>1
<1>5. N \in SUBSET P
  BY <1>1, <1>2 DEF Apart
<1>6. PICK n : n = Cardinality(N)
  OBVIOUS
<1>7. n \in Nat /\ c \in Nat /\ n <= c
  BY <1>4, <1>5, <1>6, PartSize
<1>8. Block(E, S, R) = <<n, c>>
  BY <1>2, <1>3, <1>6, Zenon DEF Block
<1>9. p = IF c > 0 THEN <<n, c>> ELSE <<0, 1>>
  BY <1>8 DEF Share, Zero
<1>10. S = {} \/ R = {} => n = 0
  <2>1. S = {} \/ R = {} => N = {}
    BY <1>2
  <2> QED
    BY <1>6, <2>1, FS_EmptySet
<1>11. CASE c > 0
  <2>1. p[1] = n /\ p[2] = c /\ Block(E, S, R)[1] = n
    BY <1>8, <1>9, <1>11
  <2> QED
    BY <1>7, <1>10, <1>11, <2>1 DEF Fraction
<1>12. CASE ~(c > 0)
  <2>1. p[1] = 0 /\ p[2] = 1 /\ Block(E, S, R)[1] = n /\ n = 0
    BY <1>7, <1>8, <1>9, <1>12
  <2> QED
    BY <2>1 DEF Fraction
<1> QED
  BY <1>11, <1>12

LEMMA JoinSize ==
  ASSUME NEW S, NEW T, IsFiniteSet(S), IsFiniteSet(T), S \cap T = {},
         NEW U, U = S \cup T
  PROVE  /\ IsFiniteSet(U) /\ Cardinality(U) = Cardinality(S) + Cardinality(T)
         /\ Cardinality(U) \in Nat
<1>1. PICK x \in Nat : x = Cardinality(S)
  BY FS_CardinalityType
<1>2. PICK y \in Nat : y = Cardinality(T)
  BY FS_CardinalityType
<1>3. /\ IsFiniteSet(S \cup T)
      /\ Cardinality(S \cup T) = Cardinality(S) + Cardinality(T) - Cardinality(S \cap T)
  BY FS_Union
<1>4. Cardinality(S \cap T) = 0
  BY FS_EmptySet
<1> QED
  BY <1>1, <1>2, <1>3, <1>4

Straight(E) == {k \in E : k[1] # k[2]}

\* Only four of the nine blocks have edges, and every edge is in one of them.
LEMMA FourBlocks ==
  ASSUME NEW V, IsFiniteSet(V), NEW E, E \subseteq V \X V,
         NEW s, s = Senders(E), NEW m, m = Mules(E), NEW r, r = Receivers(E)
  PROVE  /\ s \in SUBSET V /\ m \in SUBSET V /\ r \in SUBSET V
         /\ Cardinality(Straight(E))
              = Block(E, s, m)[1] + Block(E, m, r)[1] + Block(E, s, r)[1] + Block(E, m, m)[1]
         /\ Block(E, s, s)[1] = 0 /\ Block(E, r, r)[1] = 0 /\ Block(E, m, s)[1] = 0
         /\ Block(E, r, m)[1] = 0 /\ Block(E, r, s)[1] = 0
<1>1. s \in SUBSET V /\ m \in SUBSET V /\ r \in SUBSET V
  <2>1. Endpoints(E) \subseteq V
    BY Roles
  <2> QED
    BY <2>1 DEF Senders, Mules, Receivers
<1>2. \A k \in E : k[1] \in s \cup m /\ k[2] \in m \cup r /\ k[1] \notin r /\ k[2] \notin s
  <2>1. \A k \in E : k = <<k[1], k[2]>>
    OBVIOUS
  <2>2. \A n, l : <<n, l>> \in E => n \in Endpoints(E) /\ l \in Endpoints(E)
                                     /\ Succ(E, n) # {} /\ Pred(E, l) # {}
    BY Roles
  <2> QED
    BY <2>1, <2>2 DEF Senders, Mules, Receivers
<1>3. s \cap m = {} /\ m \cap r = {}
  BY DEF Mules
<1>4. PICK N : N = [p \in (SUBSET V) \X (SUBSET V) |->
                      {k \in E : k[1] \in p[1] /\ k[2] \in p[2] /\ k[1] # k[2]}]
  OBVIOUS
<1>5. ASSUME NEW x \in SUBSET V, NEW y \in SUBSET V
      PROVE  /\ N[<<x, y>>] = {k \in E : k[1] \in x /\ k[2] \in y /\ k[1] # k[2]}
             /\ Block(E, x, y)[1] = Cardinality(N[<<x, y>>])
             /\ IsFiniteSet(N[<<x, y>>]) /\ Cardinality(N[<<x, y>>]) \in Nat
  <2>1. N[<<x, y>>] = {k \in E : k[1] \in x /\ k[2] \in y /\ k[1] # k[2]}
    BY <1>4
  <2>2. IsFiniteSet(E) /\ N[<<x, y>>] \in SUBSET E
    BY <2>1, Roles
  <2> QED
    BY <2>1, <2>2, PartSize DEF Block
<1>6. PICK a, b, c, d : a = N[<<s, m>>] /\ b = N[<<m, r>>] /\ c = N[<<s, r>>] /\ d = N[<<m, m>>]
  OBVIOUS
<1>7. /\ Straight(E) = ((a \cup b) \cup c) \cup d
      /\ a \cap b = {} /\ (a \cup b) \cap c = {} /\ ((a \cup b) \cup c) \cap d = {}
  <2>1. /\ \A k : k \in a <=> k \in E /\ k[1] \in s /\ k[2] \in m /\ k[1] # k[2]
        /\ \A k : k \in b <=> k \in E /\ k[1] \in m /\ k[2] \in r /\ k[1] # k[2]
        /\ \A k : k \in c <=> k \in E /\ k[1] \in s /\ k[2] \in r /\ k[1] # k[2]
        /\ \A k : k \in d <=> k \in E /\ k[1] \in m /\ k[2] \in m /\ k[1] # k[2]
    BY <1>1, <1>5, <1>6
  <2>2. a \cap b = {} /\ (a \cup b) \cap c = {}
    BY <1>2, <1>3, <2>1
  <2>3. ((a \cup b) \cup c) \cap d = {}
    BY <1>2, <1>3, <2>1
  <2>4. Straight(E) = ((a \cup b) \cup c) \cup d
    BY <1>2, <2>1 DEF Straight
  <2> QED
    BY <2>2, <2>3, <2>4
<1>8. /\ IsFiniteSet(a) /\ IsFiniteSet(b) /\ IsFiniteSet(c) /\ IsFiniteSet(d)
      /\ Cardinality(a) \in Nat /\ Cardinality(b) \in Nat
      /\ Cardinality(c) \in Nat /\ Cardinality(d) \in Nat
  BY <1>1, <1>5, <1>6
<1>9. PICK ab : ab = a \cup b
  OBVIOUS
<1>10. PICK abc : abc = ab \cup c
  OBVIOUS
<1>11. /\ IsFiniteSet(ab) /\ Cardinality(ab) = Cardinality(a) + Cardinality(b)
       /\ IsFiniteSet(abc) /\ Cardinality(abc) = Cardinality(ab) + Cardinality(c)
       /\ Cardinality(Straight(E)) = Cardinality(abc) + Cardinality(d)
  <2>1. IsFiniteSet(ab) /\ Cardinality(ab) = Cardinality(a) + Cardinality(b)
    BY <1>7, <1>8, <1>9, JoinSize
  <2>2. IsFiniteSet(abc) /\ Cardinality(abc) = Cardinality(ab) + Cardinality(c)
    BY <1>7, <1>8, <1>9, <1>10, <2>1, JoinSize
  <2>3. abc \cap d = {} /\ Straight(E) = abc \cup d
    BY <1>7, <1>9, <1>10
  <2> QED
    BY <1>8, <2>1, <2>2, <2>3, JoinSize
<1>12. /\ N[<<s, s>>] = {} /\ N[<<r, r>>] = {} /\ N[<<m, s>>] = {} /\ N[<<r, m>>] = {}
       /\ N[<<r, s>>] = {}
  BY <1>1, <1>2, <1>5
<1>13. /\ Block(E, s, s)[1] = 0 /\ Block(E, r, r)[1] = 0 /\ Block(E, m, s)[1] = 0
       /\ Block(E, r, m)[1] = 0 /\ Block(E, r, s)[1] = 0
  BY <1>1, <1>5, <1>12, FS_EmptySet
<1>14. /\ Block(E, s, m)[1] = Cardinality(a) /\ Block(E, m, r)[1] = Cardinality(b)
       /\ Block(E, s, r)[1] = Cardinality(c) /\ Block(E, m, m)[1] = Cardinality(d)
  BY <1>1, <1>5, <1>6
<1> QED
  BY <1>1, <1>8, <1>11, <1>13, <1>14

\* Two fractions of at most a and b wholes sum to one of at most a + b.
LEMMA PlusBounds ==
  ASSUME NEW p, NEW q, Fraction(p), Fraction(q), NEW a \in Nat, NEW b \in Nat,
         p[1] <= a * p[2], q[1] <= b * q[2], NEW z, z = Plus(p, q)
  PROVE  /\ Fraction(z) /\ z[1] <= (a + b) * z[2]
         /\ p[1] = 0 /\ q[1] = 0 => z[1] = 0
<1>1. PICK n \in Nat : n = p[1]
  BY DEF Fraction
<1>2. PICK d \in Nat : d = p[2] /\ d > 0
  BY DEF Fraction
<1>3. PICK l \in Nat : l = q[1]
  BY DEF Fraction
<1>4. PICK e \in Nat : e = q[2] /\ e > 0
  BY DEF Fraction
<1>5. z = <<n * e + l * d, d * e>>
  BY <1>1, <1>2, <1>3, <1>4 DEF Plus
<1>6. n * e \in Nat /\ l * d \in Nat /\ d * e \in Nat /\ d * e > 0
  BY <1>2, <1>4
<1>7. n * e <= (a * d) * e /\ l * d <= (b * e) * d
  <2>1. n <= a * d /\ l <= b * e /\ a * d \in Nat /\ b * e \in Nat
    BY <1>1, <1>2, <1>3, <1>4
  <2> QED
    BY <2>1
<1>8. (a * d) * e = a * (d * e) /\ (b * e) * d = b * (d * e)
      /\ (a + b) * (d * e) = a * (d * e) + b * (d * e)
  BY <1>2, <1>4
<1>9. a * (d * e) \in Nat /\ b * (d * e) \in Nat
  BY <1>6
<1>10. n = 0 /\ l = 0 => n * e + l * d = 0
  OBVIOUS
<1>11. z[1] = n * e + l * d /\ z[2] = d * e
  BY <1>5
<1>12. z[1] <= (a + b) * z[2]
  BY <1>6, <1>7, <1>8, <1>9, <1>11
<1> QED
  BY <1>1, <1>3, <1>6, <1>10, <1>11, <1>12 DEF Fraction

\* Twice the mean of at most two wholes less a part of at most two.
LEMMA ScoreBounds ==
  ASSUME NEW h \in Nat, NEW d \in Nat, d > 0, NEW l \in Nat, NEW e \in Nat, e > 0,
         h <= 2 * d, l <= 2 * e,
         NEW score, score = <<7 * h * e - 2 * l * d, 14 * d * e>>,
         NEW high, high = <<h, 2 * d>>
  PROVE  /\ score[1] \in Int /\ score[2] \in Nat /\ score[2] > 0 /\ score[1] <= score[2]
         /\ NoMoreThan(score, high)
         /\ l = 0 => NoMoreThan(high, score)
         /\ NoMoreThan(<<7 * high[1] - 2 * high[2], 7 * high[2]>>, score)
<1>1. PICK a \in Nat : a = h * e
  OBVIOUS
<1>2. PICK b \in Nat : b = l * d
  OBVIOUS
<1>3. PICK c \in Nat : c = d * e
  OBVIOUS
<1>4. c > 0
  BY <1>3
<1>5. a <= 2 * c /\ b <= 2 * c
  <2>1. h * e <= (2 * d) * e /\ (2 * d) * e = 2 * (d * e)
    OBVIOUS
  <2>2. l * d <= (2 * e) * d /\ (2 * e) * d = 2 * (d * e)
    OBVIOUS
  <2> QED
    BY <1>1, <1>2, <1>3, <2>1, <2>2
<1>6. 7 * h * e = 7 * a /\ 2 * l * d = 2 * b /\ 14 * d * e = 14 * c
  BY <1>1, <1>2, <1>3
<1>7. score = <<7 * a - 2 * b, 14 * c>>
  BY <1>6
<1>8. score[1] = 7 * a - 2 * b /\ score[2] = 14 * c /\ high[1] = h /\ high[2] = 2 * d
  BY <1>7
<1>9. /\ (7 * a - 2 * b) * (2 * d) = 14 * (a * d) - 4 * (b * d)
      /\ h * (14 * c) = 14 * (a * d)
      /\ (7 * h - 2 * (2 * d)) * (14 * c) = 98 * (a * d) - 56 * (c * d)
      /\ (7 * a - 2 * b) * (7 * (2 * d)) = 98 * (a * d) - 28 * (b * d)
  <2>1. h * c = a * d
    BY <1>1, <1>3
  <2>2. /\ (7 * a - 2 * b) * (2 * d) = 14 * (a * d) - 4 * (b * d)
        /\ h * (14 * c) = 14 * (h * c)
        /\ (7 * h - 2 * (2 * d)) * (14 * c) = 98 * (h * c) - 56 * (c * d)
        /\ (7 * a - 2 * b) * (7 * (2 * d)) = 98 * (a * d) - 28 * (b * d)
    OBVIOUS
  <2> QED
    BY <2>1, <2>2
<1>10. b * d \in Nat /\ c * d \in Nat /\ a * d \in Nat /\ b * d <= 2 * (c * d)
  <2>1. b * d <= (2 * c) * d /\ (2 * c) * d = 2 * (c * d)
    BY <1>5
  <2> QED
    BY <2>1
<1>11. NoMoreThan(score, high)
  BY <1>8, <1>9, <1>10 DEF NoMoreThan
<1>12. l = 0 => NoMoreThan(high, score)
  <2>1. l = 0 => b * d = 0
    BY <1>2
  <2> QED
    BY <1>8, <1>9, <1>10, <2>1 DEF NoMoreThan
<1>13. NoMoreThan(<<7 * high[1] - 2 * high[2], 7 * high[2]>>, score)
  <2>1. PICK p : p = <<7 * high[1] - 2 * high[2], 7 * high[2]>>
    OBVIOUS
  <2>2. p[1] = 7 * h - 2 * (2 * d) /\ p[2] = 7 * (2 * d)
    BY <1>8, <2>1
  <2>3. NoMoreThan(p, score)
    BY <1>8, <1>9, <1>10, <2>2 DEF NoMoreThan
  <2> QED
    BY <2>1, <2>3
<1> QED
  BY <1>4, <1>5, <1>8, <1>11, <1>12, <1>13

\* The layered score of a digraph: what its two paying blocks may add and its
\* two other blocks take away.
LEMMA LayeredScore ==
  ASSUME NEW V, IsFiniteSet(V), NEW E, E \subseteq V \X V, NEW score, score = gargaml(E)
  PROVE  /\ score[1] \in Int /\ score[2] \in Nat /\ score[2] > 0 /\ score[1] <= score[2]
         /\ LayeredScoreIsBounded(E)
<1>1. PICK s, m, r : s = Senders(E) /\ m = Mules(E) /\ r = Receivers(E)
  OBVIOUS
<1>2. /\ s \in SUBSET V /\ m \in SUBSET V /\ r \in SUBSET V
      /\ Cardinality(Straight(E))
           = Block(E, s, m)[1] + Block(E, m, r)[1] + Block(E, s, r)[1] + Block(E, m, m)[1]
      /\ Block(E, s, s)[1] = 0 /\ Block(E, r, r)[1] = 0 /\ Block(E, m, s)[1] = 0
      /\ Block(E, r, m)[1] = 0 /\ Block(E, r, s)[1] = 0
  BY <1>1, FourBlocks
<1>3. ASSUME NEW x \in SUBSET V, NEW y \in SUBSET V, NEW p, p = Share(Block(E, x, y))
      PROVE  /\ Fraction(p) /\ p[1] <= 1 * p[2] /\ p[1] = Block(E, x, y)[1]
             /\ Block(E, x, y)[1] = 0 => p[1] <= 0 * p[2]
  <2>1. Fraction(p) /\ p[1] <= p[2] /\ p[1] = Block(E, x, y)[1]
    BY <1>3, BlockShare
  <2> QED
    BY <2>1 DEF Fraction
<1>4. PICK sm, mr, sr, mm : /\ sm = Share(Block(E, s, m)) /\ mr = Share(Block(E, m, r))
                            /\ sr = Share(Block(E, s, r)) /\ mm = Share(Block(E, m, m))
  OBVIOUS
<1>5. PICK ss, rr, ms, rm, rs : /\ ss = Share(Block(E, s, s)) /\ rr = Share(Block(E, r, r))
                                /\ ms = Share(Block(E, m, s)) /\ rm = Share(Block(E, r, m))
                                /\ rs = Share(Block(E, r, s))
  OBVIOUS
<1>6. /\ Fraction(sm) /\ sm[1] <= 1 * sm[2] /\ sm[1] = Block(E, s, m)[1]
      /\ Fraction(mr) /\ mr[1] <= 1 * mr[2] /\ mr[1] = Block(E, m, r)[1]
      /\ Fraction(sr) /\ sr[1] <= 1 * sr[2] /\ sr[1] = Block(E, s, r)[1]
      /\ Fraction(mm) /\ mm[1] <= 1 * mm[2] /\ mm[1] = Block(E, m, m)[1]
  BY <1>2, <1>3, <1>4
<1>7. /\ Fraction(ss) /\ ss[1] <= 0 * ss[2] /\ ss[1] = 0
      /\ Fraction(rr) /\ rr[1] <= 0 * rr[2] /\ rr[1] = 0
      /\ Fraction(ms) /\ ms[1] <= 0 * ms[2] /\ ms[1] = 0
      /\ Fraction(rm) /\ rm[1] <= 0 * rm[2] /\ rm[1] = 0
      /\ Fraction(rs) /\ rs[1] <= 0 * rs[2] /\ rs[1] = 0
  BY <1>2, <1>3, <1>5
<1>8. PICK z1, z2, z3, z4, z5 : /\ z1 = Plus(rm, rs) /\ z2 = Plus(ms, z1) /\ z3 = Plus(ss, rr)
                                /\ z4 = Plus(z3, z2) /\ z5 = Plus(mm, z4)
  OBVIOUS
<1>9. PICK high, low : high = Plus(sm, mr) /\ low = Plus(sr, z5)
  OBVIOUS
<1>10. Fraction(z1) /\ z1[1] <= (0 + 0) * z1[2] /\ z1[1] = 0
  BY <1>7, <1>8, PlusBounds
<1>11. Fraction(z2) /\ z2[1] <= (0 + 0) * z2[2] /\ z2[1] = 0
  BY <1>7, <1>8, <1>10, PlusBounds
<1>12. Fraction(z3) /\ z3[1] <= (0 + 0) * z3[2] /\ z3[1] = 0
  BY <1>7, <1>8, PlusBounds
<1>13. Fraction(z4) /\ z4[1] <= (0 + 0) * z4[2] /\ z4[1] = 0
  BY <1>8, <1>11, <1>12, PlusBounds
<1>14. Fraction(z5) /\ z5[1] <= (1 + 0) * z5[2] /\ (mm[1] = 0 => z5[1] = 0)
  BY <1>6, <1>8, <1>13, PlusBounds
<1>15. Fraction(low) /\ low[1] <= (1 + 1) * low[2] /\ (sr[1] = 0 /\ mm[1] = 0 => low[1] = 0)
  BY <1>6, <1>9, <1>14, PlusBounds
<1>16. Fraction(high) /\ high[1] <= (1 + 1) * high[2]
  BY <1>6, <1>9, PlusBounds
<1>17. score = <<7 * high[1] * low[2] - 2 * low[1] * high[2], 14 * high[2] * low[2]>>
  BY <1>1, <1>4, <1>5, <1>8, <1>9, Zenon DEF gargaml
<1>18. PICK sum : sum = <<high[1], 2 * high[2]>>
  OBVIOUS
<1>19. /\ score[1] \in Int /\ score[2] \in Nat /\ score[2] > 0 /\ score[1] <= score[2]
       /\ NoMoreThan(score, sum)
       /\ low[1] = 0 => NoMoreThan(sum, score)
       /\ NoMoreThan(<<7 * sum[1] - 2 * sum[2], 7 * sum[2]>>, score)
  <2>1. PICK h, d, l, e : h = high[1] /\ d = high[2] /\ l = low[1] /\ e = low[2]
    OBVIOUS
  <2>2. /\ h \in Nat /\ d \in Nat /\ d > 0 /\ l \in Nat /\ e \in Nat /\ e > 0
        /\ h <= 2 * d /\ l <= 2 * e
    BY <1>15, <1>16, <2>1 DEF Fraction
  <2>3. score = <<7 * h * e - 2 * l * d, 14 * d * e>> /\ sum = <<h, 2 * d>>
    BY <1>17, <1>18, <2>1, Zenon
  <2>4. /\ score[1] \in Int /\ score[2] \in Nat /\ score[2] > 0 /\ score[1] <= score[2]
        /\ NoMoreThan(score, sum)
        /\ l = 0 => NoMoreThan(sum, score)
        /\ NoMoreThan(<<7 * sum[1] - 2 * sum[2], 7 * sum[2]>>, score)
    BY <2>2, <2>3, ScoreBounds, Zenon
  <2> QED
    BY <2>1, <2>4, Zenon
<1>20. PICK noise : noise = Block(E, m, m)[1] + Block(E, s, r)[1]
  OBVIOUS
<1>21. /\ Cardinality(Straight(E)) = noise + sm[1] + mr[1]
       /\ noise = 0 => low[1] = 0
  BY <1>2, <1>6, <1>15, <1>20 DEF Fraction
<1>22. LayeredScoreIsBounded(E)
       = /\ Cardinality(Straight(E)) = noise + sm[1] + mr[1]
         /\ NoMoreThan(gargaml(E), sum)
         /\ noise = 0 => NoMoreThan(sum, gargaml(E))
         /\ NoMoreThan(<<7 * sum[1] - 2 * sum[2], 7 * sum[2]>>, gargaml(E))
  BY <1>1, <1>4, <1>9, <1>18, <1>20, Zenon DEF LayeredScoreIsBounded, Straight
<1>23. LayeredScoreIsBounded(E)
  BY <1>19, <1>21, <1>22, Zenon
<1> QED
  BY <1>19, <1>23

\* The largest degree, and the accounts that fan out or are fanned into.
LEMMA Fans ==
  ASSUME NEW V, IsFiniteSet(V), NEW E, E \subseteq V \X V
  PROVE  /\ max_out_degree(E) \in Nat /\ max_in_degree(E) \in Nat
         /\ \A n : /\ IsFiniteSet(Succ(E, n)) /\ Cardinality(Succ(E, n)) \in Nat
                   /\ Cardinality(Succ(E, n)) <= max_out_degree(E)
                   /\ Cardinality(Succ(E, n)) >= 2 => fan_out_count(E) > 0
         /\ \A n : /\ IsFiniteSet(Pred(E, n)) /\ Cardinality(Pred(E, n)) \in Nat
                   /\ Cardinality(Pred(E, n)) <= max_in_degree(E)
                   /\ Cardinality(Pred(E, n)) >= 2 => fan_in_count(E) > 0
         /\ max_out_degree(E) >= 2 => fan_out_count(E) > 0
         /\ max_in_degree(E) >= 2 => fan_in_count(E) > 0
         /\ fan_out_count(E) > 0 => max_out_degree(E) >= 2
         /\ fan_in_count(E) > 0 => max_in_degree(E) >= 2
         /\ fan_out_count(E) \in Nat /\ fan_in_count(E) \in Nat
<1>1. PICK P : P = Endpoints(E)
  OBVIOUS
<1>2. /\ IsFiniteSet(P)
      /\ \A n : Succ(E, n) \subseteq P /\ Pred(E, n) \subseteq P
      /\ \A n : Succ(E, n) # {} \/ Pred(E, n) # {} => n \in P
  <2>1. /\ IsFiniteSet(Endpoints(E))
        /\ \A n, m : m \in Succ(E, n) <=> <<n, m>> \in E
        /\ \A n, m : n \in Pred(E, m) <=> <<n, m>> \in E
        /\ \A n, m : <<n, m>> \in E => n \in Endpoints(E) /\ m \in Endpoints(E)
        /\ \A n : Succ(E, n) \subseteq Endpoints(E) /\ Pred(E, n) \subseteq Endpoints(E)
    BY Roles
  <2> QED
    BY <1>1, <2>1
<1>3. PICK N \in Nat : N = Cardinality(P)
  BY <1>2, PartSize
<1>4. \A n : /\ IsFiniteSet(Succ(E, n)) /\ Cardinality(Succ(E, n)) \in 0..N
             /\ IsFiniteSet(Pred(E, n)) /\ Cardinality(Pred(E, n)) \in 0..N
  <2>1. \A S \in SUBSET P : IsFiniteSet(S) /\ Cardinality(S) \in 0..N
    BY <1>2, <1>3, PartSize
  <2> QED
    BY <1>2, <2>1
<1>5. \A n : n \notin P => Cardinality(Succ(E, n)) = 0 /\ Cardinality(Pred(E, n)) = 0
  BY <1>2, FS_EmptySet
<1>6. PICK D : D = {Cardinality(Succ(E, n)) : n \in P}
  OBVIOUS
<1>7. PICK G : G = {Cardinality(Pred(E, n)) : n \in P}
  OBVIOUS
<1>8. max_out_degree(E) = Widest(D) /\ max_in_degree(E) = Widest(G)
  BY <1>1, <1>6, <1>7, Zenon DEF max_out_degree, max_in_degree
<1>9. D \in SUBSET (0..N) /\ G \in SUBSET (0..N)
  BY <1>4, <1>6, <1>7
<1>10. /\ max_out_degree(E) \in Nat /\ max_out_degree(E) \in D \cup {0}
       /\ \A y \in D : y <= max_out_degree(E)
  <2>1. Widest(D) \in 0..N /\ Widest(D) \in D \cup {0} /\ \A y \in D : y <= Widest(D)
    BY <1>9, WidestIs
  <2> QED
    BY <1>8, <2>1
<1>11. /\ max_in_degree(E) \in Nat /\ max_in_degree(E) \in G \cup {0}
       /\ \A y \in G : y <= max_in_degree(E)
  <2>1. Widest(G) \in 0..N /\ Widest(G) \in G \cup {0} /\ \A y \in G : y <= Widest(G)
    BY <1>9, WidestIs
  <2> QED
    BY <1>8, <2>1
<1>12. /\ \A n : Cardinality(Succ(E, n)) <= max_out_degree(E)
       /\ \A n : Cardinality(Pred(E, n)) <= max_in_degree(E)
  BY <1>4, <1>5, <1>6, <1>7, <1>10, <1>11
<1>13. PICK F : F = {n \in P : Cardinality(Succ(E, n)) >= 2}
  OBVIOUS
<1>14. PICK H : H = {n \in P : Cardinality(Pred(E, n)) >= 2}
  OBVIOUS
<1>15. fan_out_count(E) = Cardinality(F) /\ fan_in_count(E) = Cardinality(H)
  BY <1>1, <1>13, <1>14 DEF fan_out_count, fan_in_count
<1>16. F \in SUBSET P /\ H \in SUBSET P
  BY <1>13, <1>14
<1>17. /\ fan_out_count(E) \in Nat /\ (fan_out_count(E) > 0 <=> F # {})
       /\ fan_in_count(E) \in Nat /\ (fan_in_count(E) > 0 <=> H # {})
  BY <1>2, <1>15, <1>16, PartSize
<1>18. \A n : Cardinality(Succ(E, n)) >= 2 => n \in F
  BY <1>4, <1>5, <1>13
<1>19. \A n : Cardinality(Pred(E, n)) >= 2 => n \in H
  BY <1>4, <1>5, <1>14
<1>20. /\ max_out_degree(E) >= 2 => F # {}
       /\ F # {} => max_out_degree(E) >= 2
  <2>1. max_out_degree(E) >= 2 => \E n \in P : Cardinality(Succ(E, n)) = max_out_degree(E)
    BY <1>6, <1>10
  <2> QED
    BY <1>4, <1>10, <1>12, <1>13, <2>1
<1>21. /\ max_in_degree(E) >= 2 => H # {}
       /\ H # {} => max_in_degree(E) >= 2
  <2>1. max_in_degree(E) >= 2 => \E n \in P : Cardinality(Pred(E, n)) = max_in_degree(E)
    BY <1>7, <1>11
  <2> QED
    BY <1>4, <1>11, <1>12, <1>14, <2>1
<1>22. \A n : Cardinality(Succ(E, n)) \in Nat /\ Cardinality(Pred(E, n)) \in Nat
  BY <1>4
<1>23. /\ \A n : Cardinality(Succ(E, n)) >= 2 => fan_out_count(E) > 0
       /\ \A n : Cardinality(Pred(E, n)) >= 2 => fan_in_count(E) > 0
  BY <1>17, <1>18, <1>19
<1> QED
  BY <1>4, <1>10, <1>11, <1>12, <1>17, <1>20, <1>21, <1>22, <1>23

\* What lies between two accounts gives the one a fan and the other one too.
LEMMA Between ==
  ASSUME NEW V, IsFiniteSet(V), NEW E, E \subseteq V \X V, NEW a, NEW b,
         NEW S \in SUBSET Succ(E, a), NEW R \in SUBSET Pred(E, b),
         NEW w \in Nat, w <= Cardinality(S), w <= Cardinality(R)
  PROVE  /\ Cardinality(S) \in Nat /\ Cardinality(R) \in Nat
         /\ w <= max_out_degree(E) /\ w <= max_in_degree(E)
         /\ w >= 2 => fan_out_count(E) > 0 /\ fan_in_count(E) > 0
<1>1. /\ IsFiniteSet(Succ(E, a)) /\ Cardinality(Succ(E, a)) \in Nat
      /\ Cardinality(Succ(E, a)) <= max_out_degree(E) /\ max_out_degree(E) \in Nat
      /\ Cardinality(Succ(E, a)) >= 2 => fan_out_count(E) > 0
  BY Fans
<1>2. /\ IsFiniteSet(Pred(E, b)) /\ Cardinality(Pred(E, b)) \in Nat
      /\ Cardinality(Pred(E, b)) <= max_in_degree(E) /\ max_in_degree(E) \in Nat
      /\ Cardinality(Pred(E, b)) >= 2 => fan_in_count(E) > 0
  BY Fans
<1>3. Cardinality(S) \in Nat /\ Cardinality(S) <= Cardinality(Succ(E, a))
  BY <1>1, PartSize
<1>4. Cardinality(R) \in Nat /\ Cardinality(R) <= Cardinality(Pred(E, b))
  BY <1>2, PartSize
<1> QED
  BY <1>1, <1>2, <1>3, <1>4

StrandWidths(E) == {Cardinality(Strands(E, a, b)) : a, b \in Endpoints(E)} \ {1}
FastWidths(E) == {Cardinality(FastStrands(E, a, b)) : a, b \in Endpoints(E)} \ {1}

\* How wide the scatter-gathers and gather-scatters of a digraph are.
LEMMA Widths ==
  ASSUME NEW V, IsFiniteSet(V), NEW E, E \subseteq V \X V,
         NEW w, w \in {scatter_gather(E), gather_scatter(E)}
  PROVE  /\ w \in Nat /\ w <= max_out_degree(E) /\ w <= max_in_degree(E)
         /\ w # 0 => fan_out_count(E) > 0 /\ fan_in_count(E) > 0
<1>1. PICK P : P = Endpoints(E)
  OBVIOUS
<1>2. /\ IsFiniteSet(P)
      /\ \A n : Succ(E, n) \subseteq P /\ Pred(E, n) \subseteq P
  BY <1>1, Roles
<1>3. PICK N \in Nat : N = Cardinality(P)
  BY <1>2, PartSize
<1>4. \A S \in SUBSET P : Cardinality(S) \in 0..N
  BY <1>2, <1>3, PartSize
<1>5. max_out_degree(E) \in Nat /\ max_in_degree(E) \in Nat
  BY Fans
<1>6. CASE w = scatter_gather(E)
  <2>1. PICK W : W = StrandWidths(E)
    OBVIOUS
  <2>2. w = Widest(W)
    BY <1>6, <2>1 DEF scatter_gather, StrandWidths
  <2>3. \A a, b : Strands(E, a, b) \in SUBSET P
    BY <1>2 DEF Strands
  <2>4. W \in SUBSET (0..N)
    BY <1>1, <1>4, <2>1, <2>3 DEF StrandWidths
  <2>5. w \in Nat /\ w \in W \cup {0}
    BY <2>2, <2>4, WidestIs
  <2>6. CASE w \in W
    <3>1. PICK a \in P, b \in P : w = Cardinality(Strands(E, a, b)) /\ w # 1
      BY <1>1, <2>1, <2>6 DEF StrandWidths
    <3>2. PICK S : S = Strands(E, a, b)
      OBVIOUS
    <3>3. S \in SUBSET Succ(E, a) /\ S \in SUBSET Pred(E, b)
      BY <3>2 DEF Strands
    <3> QED
      BY <2>5, <3>1, <3>2, <3>3, Between
  <2> QED
    BY <1>5, <2>5, <2>6
<1>7. CASE w = gather_scatter(E)
  <2>1. PICK W : W = {Minimum(Cardinality(Pred(E, n) \ {n}), Cardinality(Succ(E, n) \ {n})) :
                        n \in P} \ {1}
    OBVIOUS
  <2>2. w = Widest(W)
    BY <1>1, <1>7, <2>1, Zenon DEF gather_scatter
  <2>3. \A n : Pred(E, n) \ {n} \in SUBSET P /\ Succ(E, n) \ {n} \in SUBSET P
    BY <1>2
  <2>4. \A n : Minimum(Cardinality(Pred(E, n) \ {n}), Cardinality(Succ(E, n) \ {n})) \in 0..N
    BY <1>4, <2>3 DEF Minimum
  <2>5. W \in SUBSET (0..N)
    BY <2>1, <2>4
  <2>6. w \in Nat /\ w \in W \cup {0}
    BY <2>2, <2>5, WidestIs
  <2>7. CASE w \in W
    <3>1. PICK n \in P : /\ w = Minimum(Cardinality(Pred(E, n) \ {n}), Cardinality(Succ(E, n) \ {n}))
                         /\ w # 1
      BY <2>1, <2>7
    <3>2. PICK S, R : S = Succ(E, n) \ {n} /\ R = Pred(E, n) \ {n}
      OBVIOUS
    <3>3. S \in SUBSET Succ(E, n) /\ R \in SUBSET Pred(E, n)
      BY <3>2
    <3>4. Cardinality(S) \in Nat /\ Cardinality(R) \in Nat
      BY <1>4, <2>3, <3>2
    <3>5. w <= Cardinality(S) /\ w <= Cardinality(R)
      BY <3>1, <3>2, <3>4 DEF Minimum
    <3> QED
      BY <2>6, <3>1, <3>3, <3>5, Between
  <2> QED
    BY <1>5, <2>6, <2>7
<1> QED
  BY <1>6, <1>7

\* A scatter-gather in time is a scatter-gather.
LEMMA WindowedIsNarrower ==
  ASSUME NEW V, IsFiniteSet(V), NEW E, E \subseteq V \X V
  PROVE  /\ scatter_gather_windowed(E) \in Nat /\ scatter_gather(E) \in Nat
         /\ scatter_gather_windowed(E) <= scatter_gather(E)
<1>1. PICK P : P = Endpoints(E)
  OBVIOUS
<1>2. /\ IsFiniteSet(P)
      /\ \A n : Succ(E, n) \subseteq P /\ Pred(E, n) \subseteq P
  BY <1>1, Roles
<1>3. PICK N \in Nat : N = Cardinality(P)
  BY <1>2, PartSize
<1>4. \A S \in SUBSET P : IsFiniteSet(S) /\ Cardinality(S) \in 0..N
  BY <1>2, <1>3, PartSize
<1>5. PICK W : W = StrandWidths(E)
  OBVIOUS
<1>6. PICK F : F = FastWidths(E)
  OBVIOUS
<1>7. scatter_gather(E) = Widest(W) /\ scatter_gather_windowed(E) = Widest(F)
  BY <1>5, <1>6 DEF scatter_gather, scatter_gather_windowed, StrandWidths, FastWidths
<1>8. \A a, b : /\ Strands(E, a, b) \in SUBSET P /\ FastStrands(E, a, b) \in SUBSET P
                /\ FastStrands(E, a, b) \in SUBSET Strands(E, a, b)
  BY <1>2 DEF Strands, FastStrands
<1>9. W \in SUBSET (0..N) /\ F \in SUBSET (0..N)
  BY <1>1, <1>4, <1>5, <1>6, <1>8 DEF StrandWidths, FastWidths
<1>10. /\ Widest(W) \in 0..N /\ \A y \in W : y <= Widest(W)
       /\ Widest(F) \in 0..N /\ Widest(F) \in F \cup {0}
  BY <1>9, WidestIs
<1>11. CASE Widest(F) \in F
  <2>1. PICK a \in P, b \in P : Widest(F) = Cardinality(FastStrands(E, a, b)) /\ Widest(F) # 1
    <3>1. \A y \in F : y # 1 /\ \E a, b \in P : y = Cardinality(FastStrands(E, a, b))
      BY <1>1, <1>6 DEF FastWidths
    <3> QED
      BY <1>11, <3>1
  <2>2. Cardinality(FastStrands(E, a, b)) <= Cardinality(Strands(E, a, b))
    BY <1>4, <1>8, PartSize
  <2>3. Cardinality(Strands(E, a, b)) \in 0..N /\ Cardinality(FastStrands(E, a, b)) \in 0..N
    BY <1>4, <1>8
  <2>4. Cardinality(Strands(E, a, b)) # 1 => Cardinality(Strands(E, a, b)) \in W
    BY <1>1, <1>5 DEF StrandWidths
  <2>5. Cardinality(Strands(E, a, b)) = 1 => Widest(F) = 0
    BY <2>1, <2>2, <2>3
  <2> QED
    BY <1>7, <1>10, <2>1, <2>2, <2>3, <2>4, <2>5
<1> QED
  BY <1>7, <1>10, <1>11

\* The position after the k-th of n in a loop.
LEMMA NextInLoop ==
  ASSUME NEW n \in Nat \ {0}, NEW k \in 1..n
  PROVE  (k % n) + 1 = IF k = n THEN 1 ELSE k + 1
<1>1. CASE k = n
  <2>1. (0 + n) % n = 0
    BY Wrap
  <2> QED
    BY <1>1, <2>1
<1>2. CASE k # n
  <2>1. PICK x \in Nat : x = k
    OBVIOUS
  <2>2. PICK q \in Nat : q = x \div n
    BY Division
  <2>3. PICK r : r = x % n
    OBVIOUS
  <2>4. r \in 0..n - 1 /\ x = q * n + r
    BY <2>2, <2>3, Division
  <2>5. 1 <= q => 1 * n <= q * n
    BY Multiple
  <2>6. q * n \in Nat /\ (q = 0 => q * n = 0)
    BY SMTT(30)
  <2>7. q = 0
    BY <1>2, <2>1, <2>4, <2>5, <2>6
  <2>8. r = k
    BY <2>1, <2>4, <2>6, <2>7
  <2> QED
    BY <1>2, <2>1, <2>3, <2>8
<1> QED
  BY <1>1, <1>2

\* No account comes twice in a cycle, and every one is paid in it and pays.
LEMMA CycleHops ==
  ASSUME NEW V, IsFiniteSet(V), NEW E, E \subseteq V \X V,
         NEW c \in find_cycles(E), NEW n, n = Len(c)
  PROVE  /\ n \in Nat /\ n >= 3 /\ DOMAIN c = 1..n
         /\ \A j, k \in 1..n : c[j] = c[k] => j = k
         /\ \A k \in 1..n : <<c[k], c[IF k = n THEN 1 ELSE k + 1]>> \in E
         /\ \A k \in 1..n : <<c[IF k = 1 THEN n ELSE k - 1], c[k]>> \in E
<1>1. n \in Nat /\ n >= 3 /\ DOMAIN c = 1..n /\ \A k \in 1..n : HopOf(c, k) \in E
  BY CycleShape
<1>2. PICK N \in 3..Minimum(MAX_CYCLE_LEN, Cardinality(Endpoints(E))) :
        c \in {x \in [1..N -> Endpoints(E)] :
                 /\ Cardinality({x[k] : k \in 1..N}) = N
                 /\ \A k \in 1..N : <<x[k], x[(k % N) + 1]>> \in E}
  BY DEF find_cycles
<1>3. PICK T : T = {c[k] : k \in 1..N}
  OBVIOUS
<1>4. c \in [1..N -> Endpoints(E)] /\ Cardinality(T) = N
  BY <1>2, <1>3
<1>5. N = n
  <2>1. N \in Nat /\ 1..N = 1..n
    BY <1>1, <1>2, <1>4
  <2> QED
    BY <1>1, <2>1
<1>6. c \in Surjection(1..n, T)
  BY <1>3, <1>4, <1>5 DEF Surjection
<1>7. IsFiniteSet(1..n) /\ Cardinality(1..n) = n
  <2>1. 1 \in Int /\ n \in Int /\ ~(1 > n)
    BY <1>1
  <2>2. IsFiniteSet(1..n) /\ Cardinality(1..n) = IF 1 > n THEN 0 ELSE n - 1 + 1
    BY <2>1, FS_Interval, Zenon
  <2> QED
    BY <2>1, <2>2
<1>8. c \in Injection(1..n, T)
  BY <1>4, <1>5, <1>6, <1>7, FS_SurjSameCardinalityImpliesInj
<1>9. \A j, k \in 1..n : c[j] = c[k] => j = k
  BY <1>8 DEF Injection, IsInjective
<1>10. ASSUME NEW k \in 1..n
       PROVE  <<c[k], c[IF k = n THEN 1 ELSE k + 1]>> \in E
  <2>1. HopOf(c, k) = <<c[k], c[(k % n) + 1]>>
    BY DEF HopOf
  <2>2. (k % n) + 1 = IF k = n THEN 1 ELSE k + 1
    <3>1. n \in Nat \ {0}
      BY <1>1
    <3> QED
      BY <3>1, NextInLoop, Zenon
  <2> QED
    BY <1>1, <2>1, <2>2
<1>11. ASSUME NEW k \in 1..n
       PROVE  <<c[IF k = 1 THEN n ELSE k - 1], c[k]>> \in E
  <2>1. CASE k = 1
    BY <1>1, <1>10, <2>1
  <2>2. CASE k # 1
    <3>1. PICK j \in 1..n : j = k - 1 /\ j # n /\ j + 1 = k
      BY <1>1, <2>2
    <3> QED
      BY <1>10, <2>2, <3>1
  <2> QED
    BY <2>1, <2>2
<1> QED
  BY <1>1, <1>9, <1>10, <1>11

\* Who is on a cycle pays, is paid, and so is a mule.
LEMMA CyclicAreMules ==
  ASSUME NEW V, IsFiniteSet(V), NEW E, E \subseteq V \X V
  PROVE  Cyclic(find_cycles(E)) \subseteq Mules(E)
<1> SUFFICES ASSUME NEW x \in Cyclic(find_cycles(E)) PROVE x \in Mules(E)
  OBVIOUS
<1>1. PICK c \in find_cycles(E) : \E k \in DOMAIN c : x = c[k]
  BY DEF Cyclic
<1>2. PICK k \in DOMAIN c : x = c[k]
  BY <1>1
<1>3. PICK n : n = Len(c)
  OBVIOUS
<1>4. /\ n \in Nat /\ n >= 3 /\ k \in 1..n
      /\ <<c[k], c[IF k = n THEN 1 ELSE k + 1]>> \in E
      /\ <<c[IF k = 1 THEN n ELSE k - 1], c[k]>> \in E
  BY <1>3, CycleHops
<1>5. PICK y, z : <<x, y>> \in E /\ <<z, x>> \in E
  BY <1>2, <1>4
<1>6. x \in Endpoints(E) /\ y \in Succ(E, x) /\ z \in Pred(E, x)
  BY <1>5, Roles
<1> QED
  BY <1>6 DEF Mules, Senders, Receivers

\* Payments in both directions between two accounts.
Mutual(E) == {x \in E : x[1] # x[2] /\ <<x[2], x[1]>> \in E}

\* There are two of them for each mutual pair.
LEMMA MutualPairs ==
  ASSUME NEW V, IsFiniteSet(V), NEW E, E \subseteq V \X V
  PROVE  /\ n_mutual_pairs(E) \in Nat /\ IsFiniteSet(Mutual(E))
         /\ 2 * n_mutual_pairs(E) <= Cardinality(Mutual(E))
<1>1. PICK X : X = Mutual(E)
  OBVIOUS
<1>2. IsFiniteSet(X) /\ \A k \in X : /\ k = <<k[1], k[2]>> /\ k[1] # k[2]
                                     /\ <<k[2], k[1]>> \in X
  <2>1. IsFiniteSet(E) /\ X \in SUBSET E
    BY <1>1, Roles DEF Mutual
  <2>2. \A k \in E : k = <<k[1], k[2]>>
    OBVIOUS
  <2> QED
    BY <1>1, <2>1, <2>2, FS_Subset DEF Mutual
<1>3. PICK ends : ends = [k \in X |-> {k[1], k[2]}]
  OBVIOUS
<1>4. PICK M : M = {ends[k] : k \in X}
  OBVIOUS
<1>5. DOMAIN ends = X /\ \A k \in X : ends[k] = {k[1], k[2]}
  BY <1>3
<1>6. n_mutual_pairs(E) = Cardinality(M)
  <2>1. M = {{k[1], k[2]} : k \in X}
    BY <1>4, <1>5
  <2> QED
    BY <1>1, <2>1, Zenon DEF n_mutual_pairs, Mutual
<1>7. IsFiniteSet(M)
  BY <1>2, <1>4, <1>5, ImageFinite
<1>8. PICK rep : rep = [m \in M |-> CHOOSE k \in X : ends[k] = m]
  OBVIOUS
<1>9. DOMAIN rep = M /\ \A m \in M : rep[m] \in X /\ ends[rep[m]] = m
  BY <1>4, <1>8
<1>10. PICK flip : flip = [m \in M |-> <<rep[m][2], rep[m][1]>>]
  OBVIOUS
<1>11. DOMAIN flip = M /\ \A m \in M : flip[m] = <<rep[m][2], rep[m][1]>> /\ flip[m] \in X
  BY <1>2, <1>9, <1>10
<1>12. ASSUME NEW m \in M PROVE ends[flip[m]] = m
  <2>1. PICK k \in X : k = rep[m] /\ ends[k] = m
    BY <1>9
  <2>2. PICK l \in X : l = <<k[2], k[1]>> /\ l = flip[m]
    BY <1>11, <2>1
  <2>3. l[1] = k[2] /\ l[2] = k[1]
    BY <2>2
  <2>4. ends[l] = {k[2], k[1]} /\ ends[k] = {k[1], k[2]}
    BY <1>5, <2>3
  <2> QED
    BY <2>1, <2>2, <2>4
<1>13. PICK A : A = {rep[m] : m \in M}
  OBVIOUS
<1>14. PICK B : B = {flip[m] : m \in M}
  OBVIOUS
<1>15. IsFiniteSet(A) /\ Cardinality(A) = Cardinality(M)
  <2>1. \A x, y \in M : rep[x] = rep[y] => x = y
    BY <1>9
  <2> QED
    BY <1>7, <1>9, <1>13, <2>1, ImageSize
<1>16. IsFiniteSet(B) /\ Cardinality(B) = Cardinality(M)
  <2>1. \A x, y \in M : flip[x] = flip[y] => x = y
    BY <1>12
  <2> QED
    BY <1>7, <1>11, <1>14, <2>1, ImageSize
<1>17. A \cap B = {}
  <2>1. ASSUME NEW x \in M, NEW y \in M, rep[x] = flip[y] PROVE FALSE
    <3>1. x = y
      BY <1>9, <1>12, <2>1
    <3>2. rep[x][1] = rep[x][2]
      <4>1. PICK k \in X : k = rep[x]
        BY <1>9
      <4>2. k = <<k[2], k[1]>>
        BY <1>11, <2>1, <3>1, <4>1
      <4> QED
        BY <4>1, <4>2
    <3> QED
      BY <1>2, <1>9, <3>2
  <2> QED
    BY <1>13, <1>14, <2>1
<1>18. PICK U : U = A \cup B
  OBVIOUS
<1>19. Cardinality(U) = Cardinality(A) + Cardinality(B) /\ U \in SUBSET X
  <2>1. Cardinality(U) = Cardinality(A) + Cardinality(B)
    BY <1>15, <1>16, <1>17, <1>18, JoinSize
  <2> QED
    BY <1>9, <1>11, <1>13, <1>14, <1>18, <2>1
<1>20. Cardinality(U) <= Cardinality(X) /\ Cardinality(X) \in Nat /\ Cardinality(M) \in Nat
  BY <1>2, <1>7, <1>19, FS_CardinalityType, FS_Subset
<1> QED
  BY <1>1, <1>2, <1>6, <1>15, <1>16, <1>19, <1>20

\* Without fans an account pays one account at most.
LEMMA OneSuccessor ==
  ASSUME NEW V, IsFiniteSet(V), NEW E, E \subseteq V \X V, max_out_degree(E) <= 1,
         NEW n, NEW x, NEW y, <<n, x>> \in E, <<n, y>> \in E
  PROVE  x = y
<1> SUFFICES ASSUME x # y PROVE FALSE
  OBVIOUS
<1>1. x \in Succ(E, n) /\ y \in Succ(E, n)
  BY Roles
<1>2. PICK S : S = Succ(E, n)
  OBVIOUS
<1>3. /\ IsFiniteSet(S) /\ Cardinality(S) \in Nat
      /\ Cardinality(S) <= max_out_degree(E) /\ max_out_degree(E) \in Nat
  BY <1>2, Fans
<1>4. Cardinality({x} \cup {y}) = 2
  <2>1. IsFiniteSet({x}) /\ Cardinality({x}) = 1 /\ y \notin {x}
    BY FS_Singleton
  <2>2. Cardinality({x} \cup {y}) = Cardinality({x}) + 1
    BY <2>1, FS_AddElement
  <2> QED
    BY <2>1, <2>2
<1>5. Cardinality({x} \cup {y}) <= Cardinality(S)
  BY <1>1, <1>2, <1>3, FS_Subset
<1> QED
  BY <1>3, <1>4, <1>5

\* Without fans, a mutual payment is on no cycle: the loops are disjoint.
LEMMA LinesAndLoops ==
  ASSUME NEW V, IsFiniteSet(V), NEW E, E \subseteq V \X V, max_out_degree(E) <= 1
  PROVE  Cardinality(Cyclic(find_cycles(E))) + 2 * n_mutual_pairs(E) <= Cardinality(E)
<1>1. PICK C : C = Cyclic(find_cycles(E))
  OBVIOUS
<1>2. IsFiniteSet(C) /\ Cardinality(C) \in Nat
  <2>1. IsFiniteSet(Endpoints(E)) /\ C \in SUBSET Endpoints(E)
    BY <1>1, CyclicAreMules, Roles DEF Mules
  <2> QED
    BY <2>1, PartSize
<1>3. ASSUME NEW x \in C
      PROVE  \E y : <<x, y>> \in E /\ <<x, y>> \notin Mutual(E)
  <2>1. PICK c \in find_cycles(E) : \E k \in DOMAIN c : x = c[k]
    BY <1>1, <1>3 DEF Cyclic
  <2>2. PICK k \in DOMAIN c : x = c[k]
    BY <2>1
  <2>3. PICK n : n = Len(c)
    OBVIOUS
  <2>4. /\ n \in Nat /\ n >= 3 /\ k \in 1..n
        /\ \A j, l \in 1..n : c[j] = c[l] => j = l
        /\ \A l \in 1..n : <<c[l], c[IF l = n THEN 1 ELSE l + 1]>> \in E
    BY <2>3, CycleHops
  <2>5. PICK j \in 1..n : j = IF k = n THEN 1 ELSE k + 1
    BY <2>4
  <2>6. PICK l \in 1..n : l = IF j = n THEN 1 ELSE j + 1
    BY <2>4
  <2>7. <<c[k], c[j]>> \in E /\ <<c[j], c[l]>> \in E /\ l # k
    BY <2>4, <2>5, <2>6
  <2>8. c[l] # c[k]
    BY <2>4, <2>7
  <2>9. <<c[j], c[k]>> \notin E
    BY <2>7, <2>8, OneSuccessor
  <2> QED
    BY <2>2, <2>7, <2>9 DEF Mutual
<1>4. PICK hop : hop = [x \in C |-> <<x, CHOOSE y : <<x, y>> \in E /\ <<x, y>> \notin Mutual(E)>>]
  OBVIOUS
<1>5. /\ DOMAIN hop = C
      /\ \A x \in C : hop[x] \in E /\ hop[x] \notin Mutual(E) /\ hop[x][1] = x
  BY <1>3, <1>4
<1>6. PICK H : H = {hop[x] : x \in C}
  OBVIOUS
<1>7. IsFiniteSet(H) /\ Cardinality(H) = Cardinality(C)
  <2>1. \A x, y \in C : hop[x] = hop[y] => x = y
    BY <1>5
  <2> QED
    BY <1>2, <1>5, <1>6, <2>1, ImageSize
<1>8. /\ n_mutual_pairs(E) \in Nat /\ IsFiniteSet(Mutual(E))
      /\ 2 * n_mutual_pairs(E) <= Cardinality(Mutual(E))
  BY MutualPairs
<1>9. PICK U : U = H \cup Mutual(E)
  OBVIOUS
<1>10. Cardinality(U) = Cardinality(H) + Cardinality(Mutual(E)) /\ U \in SUBSET E
  <2>1. H \cap Mutual(E) = {} /\ H \subseteq E
    BY <1>5, <1>6
  <2>2. Mutual(E) \subseteq E
    BY DEF Mutual
  <2> QED
    BY <1>7, <1>8, <1>9, <2>1, <2>2, JoinSize
<1>11. /\ Cardinality(U) <= Cardinality(E) /\ Cardinality(E) \in Nat
       /\ Cardinality(Mutual(E)) \in Nat
  <2>1. IsFiniteSet(E)
    BY Roles
  <2> QED
    BY <1>8, <1>10, <2>1, FS_CardinalityType, FS_Subset
<1> QED
  BY <1>1, <1>2, <1>7, <1>8, <1>10, <1>11

LEMMA FansOfShapes ==
  ASSUME NEW V, IsFiniteSet(V), NEW E, E \subseteq V \X V
  PROVE  ShapesHaveTheirFans(E)
<1>1. PICK out, into, fans, sinks : /\ out = max_out_degree(E) /\ into = max_in_degree(E)
                                    /\ fans = fan_out_count(E) /\ sinks = fan_in_count(E)
  OBVIOUS
<1>2. /\ out \in Nat /\ into \in Nat /\ fans \in Nat /\ sinks \in Nat
      /\ (out >= 2) <=> (fans > 0)
      /\ (into >= 2) <=> (sinks > 0)
  BY <1>1, Fans
<1>3. PICK W : W = {scatter_gather(E), gather_scatter(E)}
  OBVIOUS
<1>4. /\ \A w \in W : w <= Minimum(out, into)
      /\ \A w \in W : w # 0 => fans > 0 /\ sinks > 0
  <2>1. ASSUME NEW w \in W
        PROVE  w <= Minimum(out, into) /\ (w # 0 => fans > 0 /\ sinks > 0)
    <3>1. /\ w \in Nat /\ w <= out /\ w <= into
          /\ w # 0 => fans > 0 /\ sinks > 0
      BY <1>1, <1>3, <2>1, Widths
    <3> QED
      BY <1>2, <3>1 DEF Minimum
  <2> QED
    BY <2>1
<1>5. W # {0} => fans > 0 /\ sinks > 0
  <2>1. W # {0} => \E w \in W : w # 0
    BY <1>3
  <2> QED
    BY <1>4, <2>1
<1>6. 2 * n_mutual_pairs(E) <= Cardinality(E)
  <2>1. /\ n_mutual_pairs(E) \in Nat /\ IsFiniteSet(Mutual(E))
        /\ 2 * n_mutual_pairs(E) <= Cardinality(Mutual(E))
    BY MutualPairs
  <2>2. IsFiniteSet(E) /\ Mutual(E) \in SUBSET E
    BY Roles DEF Mutual
  <2>3. /\ Cardinality(Mutual(E)) <= Cardinality(E)
        /\ Cardinality(Mutual(E)) \in Nat /\ Cardinality(E) \in Nat
    BY <2>2, PartSize
  <2> QED
    BY <2>1, <2>3
<1>7. out <= 1 /\ into <= 1 =>
        Cardinality(Cyclic(find_cycles(E))) + 2 * n_mutual_pairs(E) <= Cardinality(E)
  BY <1>1, LinesAndLoops
<1>8. (out >= 2) = (fans > 0) /\ (into >= 2) = (sinks > 0)
  BY <1>2
<1> QED
  BY <1>1, <1>3, <1>4, <1>5, <1>6, <1>7, <1>8, Zenon DEF ShapesHaveTheirFans

-----------------------------------------------------------------------------
(* The terms of the score                                                  *)

\* A share of a whole, which may be empty.
Part(p) == p[1] \in Nat /\ p[2] \in Nat /\ p[1] <= p[2]

LEMMA NormIsPart ==
  ASSUME NEW x \in Nat, NEW cap \in Nat, NEW p, p = Norm(x, cap)
  PROVE  Part(p) /\ p[1] = Minimum(x, cap) /\ p[2] = cap
<1>1. p[1] = Minimum(x, cap) /\ p[2] = cap
  BY DEF Norm
<1> QED
  BY <1>1 DEF Part, Minimum

\* Accounts on cycles are a share of all, and more cycles are no less of one.
LEMMA CycleTerms ==
  ASSUME NEW V, IsFiniteSet(V), NEW E, E \subseteq V \X V,
         NEW S, NEW R, S \subseteq R, R \subseteq find_cycles(E),
         NEW p, p = CycleTerm(S, V), NEW q, q = CycleTerm(R, V)
  PROVE  Part(p) /\ Part(q) /\ NoMoreThan(p, q)
<1>1. PICK N \in Nat : N = Cardinality(V)
  BY PartSize
<1>2. Endpoints(E) \subseteq V /\ Cyclic(find_cycles(E)) \subseteq Endpoints(E)
  BY CyclicAreMules, Roles DEF Mules
<1>3. Cyclic(S) \subseteq Cyclic(R) /\ Cyclic(R) \subseteq Cyclic(find_cycles(E))
  <2>1. \A A, B : A \subseteq B => Cyclic(A) \subseteq Cyclic(B)
    BY DEF Cyclic
  <2> QED
    BY <2>1
<1>4. Cyclic(R) \in SUBSET V /\ Cyclic(S) \in SUBSET Cyclic(R)
  BY <1>2, <1>3
<1>5. IsFiniteSet(Cyclic(R)) /\ Cardinality(Cyclic(R)) \in Nat /\ Cardinality(Cyclic(R)) <= N
  BY <1>1, <1>4, PartSize
<1>6. Cardinality(Cyclic(S)) \in Nat /\ Cardinality(Cyclic(S)) <= Cardinality(Cyclic(R))
  BY <1>4, <1>5, PartSize
<1>7. PICK s \in Nat, r \in Nat : s = Cardinality(Cyclic(S)) /\ r = Cardinality(Cyclic(R))
  BY <1>5, <1>6
<1>8. PICK a : a = IF \E c \in S : Len(c) <= 4 THEN 4 * N ELSE 0
  OBVIOUS
<1>9. PICK b : b = IF \E c \in R : Len(c) <= 4 THEN 4 * N ELSE 0
  OBVIOUS
<1>10. a \in 0..4 * N /\ b \in 0..4 * N /\ a <= b
  <2>1. (\E c \in S : Len(c) <= 4) => (\E c \in R : Len(c) <= 4)
    OBVIOUS
  <2> QED
    BY <1>8, <1>9, <2>1
<1>11. p = <<6 * s + a, 10 * N>> /\ q = <<6 * r + b, 10 * N>>
  BY <1>1, <1>7, <1>8, <1>9, Zenon DEF CycleTerm
<1>12. p[1] = 6 * s + a /\ p[2] = 10 * N /\ q[1] = 6 * r + b /\ q[2] = 10 * N
  BY <1>11
<1>13. s <= r /\ r <= N
  BY <1>5, <1>6, <1>7
<1>14. Part(p) /\ Part(q)
  BY <1>10, <1>12, <1>13 DEF Part
<1>15. (6 * s + a) * (10 * N) <= (6 * r + b) * (10 * N)
  <2>1. PICK x \in Nat : x = 6 * s + a
    BY <1>10
  <2>2. PICK y \in Nat : y = 6 * r + b
    BY <1>10
  <2>3. x <= y /\ 10 * N \in Nat
    BY <1>10, <1>13, <2>1, <2>2
  <2>4. x * (10 * N) <= y * (10 * N)
    BY <2>3, ProductGrows
  <2> QED
    BY <2>1, <2>2, <2>4
<1> QED
  BY <1>12, <1>14, <1>15 DEF NoMoreThan

\* What flows over the boundary of some accounts is not negative.
LEMMA FlowIsNat ==
  ASSUME Control, AggInv, MoneyInv, NEW nodes \in SUBSET Nodes
  PROVE  BoundaryFlow(nodes).inflow \in Nat /\ BoundaryFlow(nodes).outflow \in Nat
<1>1. IsFiniteSet(Held) /\ \A p \in Held : Amount[p] \in Nat
  <2>1. \A p \in Held : p \in 1..Len(stream)
    BY DEF Held, Control, ControlOK
  <2> QED
    BY <2>1, HeldFinite, EdgeTypes DEF Control
<1>2. PICK I, O, W : I = Into(nodes) /\ O = OutOf(nodes) /\ W = Within(nodes)
  OBVIOUS
<1>3. I \in SUBSET Held /\ O \in SUBSET Held /\ W \in SUBSET I /\ W \in SUBSET O
  BY <1>2 DEF Into, OutOf, Within
<1>4. IsFiniteSet(I) /\ IsFiniteSet(O) /\ IsFiniteSet(W)
  BY <1>1, <1>3, FS_Subset
<1>5. /\ \A x \in I : Amount[x] \in Nat
      /\ \A x \in O : Amount[x] \in Nat
      /\ \A x \in W : Amount[x] \in Nat
  BY <1>1, <1>3
<1>6. Total(Amount, I) \in Int /\ Total(Amount, O) \in Int /\ Total(Amount, W) \in Int
  BY <1>4, <1>5, TotalTakesAny
<1>7. Total(Amount, W) <= Total(Amount, I)
  BY <1>3, <1>4, <1>5, TotalGrows
<1>8. Total(Amount, W) <= Total(Amount, O)
  BY <1>3, <1>4, <1>5, TotalGrows
<1>9. /\ Sum(total_in, nodes) = Total(Amount, I)
      /\ Sum(total_out, nodes) = Total(Amount, O)
      /\ Internal(nodes) = Total(Amount, W)
  BY <1>2, FlowSums
<1>10. /\ BoundaryFlow(nodes).inflow = Total(Amount, I) - Total(Amount, W)
       /\ BoundaryFlow(nodes).outflow = Total(Amount, O) - Total(Amount, W)
  BY <1>9 DEF BoundaryFlow
<1> QED
  BY <1>6, <1>7, <1>8, <1>10

LEMMA SpanIsInt ==
  ASSUME Control, AggInv, TimesInv, NEW E \in SUBSET DOMAIN pairs
  PROVE  span_minutes(E) \in Int
<1>1. CASE E = {}
  BY <1>1 DEF span_minutes
<1>2. CASE E # {}
  <2>1. PICK ends : ends = [k \in E |-> pairs[k].last_t]
    OBVIOUS
  <2>2. PICK starts : starts = [k \in E |-> pairs[k].first_t]
    OBVIOUS
  <2>3. PICK L, F : L = {pairs[k].last_t : k \in E} /\ F = {pairs[k].first_t : k \in E}
    OBVIOUS
  <2>4. L = {ends[k] : k \in E} /\ F = {starts[k] : k \in E}
    BY <2>1, <2>2, <2>3
  <2>5. IsFiniteSet(E)
    BY PairsFinite, FS_Subset
  <2>6. IsFiniteSet(L) /\ IsFiniteSet(F)
    BY <2>1, <2>2, <2>4, <2>5, ImageFinite
  <2>7. L \subseteq Nat /\ F \subseteq Nat /\ L # {} /\ F # {}
    BY <1>2, <2>3, IntervalSpans
  <2>8. Max(L) \in Nat /\ Min(F) \in Nat
    BY <2>6, <2>7, Extremes
  <2>9. span_minutes(E) = Max(L) - Min(F)
    BY <1>2, <2>3, Zenon DEF span_minutes
  <2> QED
    BY <2>8, <2>9
<1> QED
  BY <1>1, <1>2

\* The least of two densities is one, and none unless both blocks have edges.
LEMMA StackShare ==
  ASSUME NEW V, IsFiniteSet(V), NEW E, E \subseteq V \X V
  PROVE  /\ Part(stack(E)) /\ Part(bipartite(E))
         /\ stack(E)[1] > 0 => Senders(E) # {} /\ Mules(E) # {} /\ Receivers(E) # {}
<1>1. PICK s, m, r : s = Senders(E) /\ m = Mules(E) /\ r = Receivers(E)
  OBVIOUS
<1>2. s \in SUBSET V /\ m \in SUBSET V /\ r \in SUBSET V
  BY <1>1, FourBlocks
<1>3. PICK p, q, z : /\ p = Share(Block(E, s, m)) /\ q = Share(Block(E, m, r))
                     /\ z = Share(Block(E, s, r))
  OBVIOUS
<1>4. Fraction(p) /\ p[1] <= p[2] /\ (s = {} \/ m = {} => p[1] = 0)
  BY <1>2, <1>3, BlockShare
<1>5. Fraction(q) /\ q[1] <= q[2] /\ (m = {} \/ r = {} => q[1] = 0)
  BY <1>2, <1>3, BlockShare
<1>6. Fraction(z) /\ z[1] <= z[2]
  BY <1>2, <1>3, BlockShare
<1>7. Part(p) /\ Part(q) /\ Part(z) /\ Part(Zero)
  BY <1>4, <1>5, <1>6 DEF Fraction, Part, Zero
<1>8. stack(E) = Least(p, q) /\ bipartite(E) \in {z, Zero}
  BY <1>1, <1>3 DEF stack, bipartite
<1>9. Least(p, q) \in {p, q}
  BY DEF Least
<1>10. p[1] = 0 \/ q[1] = 0 => Least(p, q)[1] = 0
  <2>1. PICK a, b, c, d : a = p[1] /\ b = p[2] /\ c = q[1] /\ d = q[2]
    OBVIOUS
  <2>2. a \in Nat /\ b \in Nat /\ b > 0 /\ c \in Nat /\ d \in Nat /\ d > 0
    BY <1>4, <1>5, <2>1 DEF Fraction
  <2>3. Least(p, q) = IF a * d <= c * b THEN p ELSE q
    BY <2>1 DEF Least, NoMoreThan
  <2>4. CASE a = 0
    <3>1. 0 * d = 0 /\ c * b \in Nat
      BY <2>2
    <3>2. a * d <= c * b
      BY <2>4, <3>1
    <3> QED
      BY <2>1, <2>3, <2>4, <3>2
  <2>5. CASE a # 0 /\ c = 0
    <3>1. a * d > 0 /\ 0 * b = 0
      BY <2>2, <2>5
    <3>2. ~(a * d <= c * b)
      BY <2>2, <2>5, <3>1
    <3> QED
      BY <2>1, <2>3, <2>5, <3>2
  <2> QED
    BY <2>1, <2>4, <2>5
<1>11. Part(stack(E)) /\ Part(bipartite(E))
  BY <1>7, <1>8, <1>9
<1>12. stack(E)[1] > 0 => s # {} /\ m # {} /\ r # {}
  BY <1>4, <1>5, <1>8, <1>10
<1> QED
  BY <1>1, <1>11, <1>12

\* Everything the detector adds up to a score is a share, and a stricter shape
\* is no more than the one that it refines.
LEMMA EvidenceHangs ==
  ASSUME Control, AggInv, TimesInv, MoneyInv PROVE EvidenceHangsTogether
<1> SUFFICES ASSUME NEW nodes \in Candidates
    PROVE  LET E == SubgraphEdges(nodes)
               terms == score_terms(nodes)
           IN /\ \A x \in DOMAIN terms : 0 <= terms[x][1] /\ terms[x][1] <= terms[x][2]
              /\ NoMoreThan(terms.temporal_cycle, terms.cycle)
              /\ NoMoreThan(terms.scatter_gather_6h, terms.scatter_gather)
              /\ n_passthrough(E) = Cardinality(Mules(E))
              /\ Cyclic(find_cycles(E)) \subseteq Mules(E)
              /\ LayeredScoreIsBounded(E)
              /\ ShapesHaveTheirFans(E)
              /\ terms.stack[1] > 0 => Senders(E) # {} /\ Mules(E) # {} /\ Receivers(E) # {}
  BY Zenon DEF EvidenceHangsTogether
<1>1. nodes \in SUBSET Nodes /\ IsFiniteSet(nodes)
  BY PairsFinite, FS_Subset DEF Candidates
<1>2. PICK N \in Nat : N = Cardinality(nodes)
  BY <1>1, PartSize
<1>3. PICK E : E = SubgraphEdges(nodes)
  OBVIOUS
<1>4. E \subseteq nodes \X nodes /\ E \in SUBSET DOMAIN pairs
  BY <1>3, PairsFinite DEF SubgraphEdges
<1>5. PICK terms : terms = score_terms(nodes)
  OBVIOUS
<1>6. PICK hi, lo : /\ hi = Maximum(BoundaryFlow(nodes).inflow, BoundaryFlow(nodes).outflow)
                    /\ lo = Minimum(BoundaryFlow(nodes).inflow, BoundaryFlow(nodes).outflow)
  OBVIOUS
<1>7. PICK layered : layered = gargaml(E)
  OBVIOUS
<1>8. PICK hours : hours = Maximum(HourMinutes, span_minutes(E))
  OBVIOUS
<1> DEFINE members == WithStats(nodes)
<1>9. terms =
    [temporal_cycle |-> IF Exact(nodes) THEN CycleTerm(temporal_cycles(E), nodes) ELSE Zero,
     cycle |-> IF Exact(nodes) THEN CycleTerm(find_cycles(E), nodes) ELSE Zero,
     conservation |-> IF hi > 0 THEN <<lo, hi>> ELSE Zero,
     scatter_gather |-> IF Exact(nodes) THEN Norm(scatter_gather(E), 5) ELSE Zero,
     scatter_gather_6h |-> IF Exact(nodes) THEN Norm(scatter_gather_windowed(E), 5) ELSE Zero,
     gather_scatter |-> IF Exact(nodes) THEN Norm(gather_scatter(E), 5) ELSE Zero,
     fast_passthrough |->
       IF members # {} THEN <<Cardinality({n \in members : is_fast_passthrough(n)}),
                              Cardinality(members)>> ELSE Zero,
     passthrough |-> <<n_passthrough(E), Cardinality(nodes)>>,
     burstiness |-> Norm(n_txns(nodes) * HourMinutes, 20 * hours),
     gargaml |-> <<Maximum(0, layered[1]), layered[2]>>,
     bipartite |-> bipartite(E),
     stack |-> stack(E)]
  BY <1>3, <1>5, <1>6, <1>7, <1>8, Zenon DEF score_terms
<1>10. Part(Zero) /\ NoMoreThan(Zero, Zero)
  BY DEF Part, Zero, NoMoreThan
<1>11. /\ Part(terms.temporal_cycle) /\ Part(terms.cycle)
       /\ NoMoreThan(terms.temporal_cycle, terms.cycle)
  <2>1. PICK p, q : /\ p = CycleTerm(temporal_cycles(E), nodes)
                    /\ q = CycleTerm(find_cycles(E), nodes)
    OBVIOUS
  <2>2. temporal_cycles(E) \subseteq find_cycles(E)
    BY DEF temporal_cycles
  <2>3. Part(p) /\ Part(q) /\ NoMoreThan(p, q)
    BY <1>1, <1>4, <2>1, <2>2, CycleTerms
  <2>4. /\ terms.temporal_cycle = IF Exact(nodes) THEN p ELSE Zero
        /\ terms.cycle = IF Exact(nodes) THEN q ELSE Zero
    BY <1>9, <2>1
  <2> QED
    BY <1>10, <2>3, <2>4
<1>12. Part(terms.conservation)
  <2>1. PICK a \in Nat, b \in Nat : /\ a = BoundaryFlow(nodes).inflow
                                    /\ b = BoundaryFlow(nodes).outflow
    BY <1>1, FlowIsNat
  <2>2. hi \in Nat /\ lo \in Nat /\ lo <= hi
    BY <1>6, <2>1 DEF Maximum, Minimum
  <2>3. PICK p : p = <<lo, hi>>
    OBVIOUS
  <2>4. Part(p)
    BY <2>2, <2>3 DEF Part
  <2>5. terms.conservation = IF hi > 0 THEN p ELSE Zero
    BY <1>9, <2>3
  <2> QED
    BY <1>10, <2>4, <2>5
<1>13. /\ Part(terms.scatter_gather) /\ Part(terms.scatter_gather_6h)
       /\ NoMoreThan(terms.scatter_gather_6h, terms.scatter_gather)
  <2>1. PICK p, q : /\ p = Norm(scatter_gather_windowed(E), 5)
                    /\ q = Norm(scatter_gather(E), 5)
    OBVIOUS
  <2>2. /\ scatter_gather_windowed(E) \in Nat /\ scatter_gather(E) \in Nat
        /\ scatter_gather_windowed(E) <= scatter_gather(E)
    BY <1>1, <1>4, WindowedIsNarrower
  <2>3. Part(p) /\ p[1] = Minimum(scatter_gather_windowed(E), 5) /\ p[2] = 5
    BY <2>1, <2>2, NormIsPart
  <2>4. Part(q) /\ q[1] = Minimum(scatter_gather(E), 5) /\ q[2] = 5
    BY <2>1, <2>2, NormIsPart
  <2>5. NoMoreThan(p, q)
    BY <2>2, <2>3, <2>4 DEF NoMoreThan, Minimum
  <2>6. /\ terms.scatter_gather_6h = IF Exact(nodes) THEN p ELSE Zero
        /\ terms.scatter_gather = IF Exact(nodes) THEN q ELSE Zero
    BY <1>9, <2>1
  <2> QED
    BY <1>10, <2>3, <2>4, <2>5, <2>6
<1>14. Part(terms.gather_scatter)
  <2>1. PICK p : p = Norm(gather_scatter(E), 5)
    OBVIOUS
  <2>2. gather_scatter(E) \in Nat
    BY <1>1, <1>4, Widths
  <2>3. Part(p)
    BY <2>1, <2>2, NormIsPart
  <2>4. terms.gather_scatter = IF Exact(nodes) THEN p ELSE Zero
    BY <1>9, <2>1
  <2> QED
    BY <1>10, <2>3, <2>4
<1>15. Part(terms.fast_passthrough)
  <2>1. members \in SUBSET nodes
    BY DEF WithStats
  <2>2. IsFiniteSet(members)
    BY <1>1, <2>1, FS_Subset
  <2>3. PICK F : F = {n \in members : is_fast_passthrough(n)}
    OBVIOUS
  <2> HIDE DEF members
  <2>4. F \in SUBSET members
    BY <2>3
  <2>5. PICK M \in Nat : M = Cardinality(members)
    BY <2>2, PartSize
  <2>6. Cardinality(F) \in Nat /\ Cardinality(F) <= M
    BY <2>2, <2>4, <2>5, PartSize
  <2>7. PICK p : p = <<Cardinality(F), M>>
    OBVIOUS
  <2>8. Part(p)
    BY <2>6, <2>7 DEF Part
  <2>9. terms.fast_passthrough = IF members # {} THEN p ELSE Zero
    BY <1>9, <2>3, <2>5, <2>7
  <2> QED
    BY <1>10, <2>8, <2>9
<1>16. Part(terms.passthrough) /\ n_passthrough(E) = Cardinality(Mules(E))
  <2>1. PICK F : F = {n \in Endpoints(E) : Succ(E, n) # {} /\ Pred(E, n) # {}}
    OBVIOUS
  <2>2. F = Mules(E)
    BY <2>1 DEF Mules, Senders, Receivers
  <2>3. Mules(E) \in SUBSET nodes
    BY <1>1, <1>4, FourBlocks
  <2>4. Cardinality(Mules(E)) \in Nat /\ Cardinality(Mules(E)) <= N
    BY <1>1, <1>2, <2>3, PartSize
  <2>5. n_passthrough(E) = Cardinality(Mules(E))
    BY <2>1, <2>2 DEF n_passthrough
  <2>6. terms.passthrough = <<Cardinality(Mules(E)), N>>
    BY <1>2, <1>9, <2>5
  <2> QED
    BY <2>4, <2>5, <2>6 DEF Part
<1>17. Part(terms.burstiness)
  <2>1. n_txns(nodes) \in Nat
    <3>1. Within(nodes) \in SUBSET Held /\ IsFiniteSet(Held)
      BY HeldFinite DEF Within, Control
    <3>2. Cardinality(Within(nodes)) \in Nat
      BY <3>1, PartSize
    <3> QED
      BY <3>2, TxnsAreCounted
  <2>2. HourMinutes \in Nat /\ span_minutes(E) \in Int
    BY <1>4, SpanIsInt, ShapesAssumption
  <2>3. hours \in Nat
    BY <1>8, <2>2 DEF Maximum
  <2>4. PICK x \in Nat, cap \in Nat : x = n_txns(nodes) * HourMinutes /\ cap = 20 * hours
    BY <2>1, <2>2, <2>3
  <2>5. PICK p : p = Norm(x, cap)
    OBVIOUS
  <2>6. Part(p)
    BY <2>5, NormIsPart
  <2>7. terms.burstiness = p
    BY <1>9, <2>4, <2>5
  <2> QED
    BY <2>6, <2>7
<1>18. Part(terms.gargaml) /\ LayeredScoreIsBounded(E)
  <2>1. /\ layered[1] \in Int /\ layered[2] \in Nat /\ layered[2] > 0
        /\ layered[1] <= layered[2] /\ LayeredScoreIsBounded(E)
    BY <1>1, <1>4, <1>7, LayeredScore
  <2>2. terms.gargaml = <<Maximum(0, layered[1]), layered[2]>>
    BY <1>9
  <2> QED
    BY <2>1, <2>2 DEF Part, Maximum
<1>19. /\ Part(terms.stack) /\ Part(terms.bipartite)
       /\ terms.stack[1] > 0 => Senders(E) # {} /\ Mules(E) # {} /\ Receivers(E) # {}
  <2>1. terms.stack = stack(E) /\ terms.bipartite = bipartite(E)
    BY <1>9
  <2> QED
    BY <1>1, <1>4, <2>1, StackShare
<1>20. \A x \in DOMAIN terms : Part(terms[x])
  <2>1. DOMAIN terms = {"temporal_cycle", "cycle", "conservation", "scatter_gather",
                        "scatter_gather_6h", "gather_scatter", "fast_passthrough",
                        "passthrough", "burstiness", "gargaml", "bipartite", "stack"}
    BY <1>9
  <2> QED
    BY <1>11, <1>12, <1>13, <1>14, <1>15, <1>16, <1>17, <1>18, <1>19, <2>1
<1>21. \A x \in DOMAIN terms : 0 <= terms[x][1] /\ terms[x][1] <= terms[x][2]
  BY <1>20 DEF Part
<1>22. Cyclic(find_cycles(E)) \subseteq Mules(E) /\ ShapesHaveTheirFans(E)
  BY <1>1, <1>4, CyclicAreMules, FansOfShapes
<1> QED
  BY <1>3, <1>5, <1>11, <1>13, <1>16, <1>18, <1>19, <1>21, <1>22, Zenon

\* The evidence behind every score hangs together, whatever the window holds:
\* shares are shares, a loop in time is a loop, a strand in time is a strand,
\* motifs and layers agree, and every shape has the fans that it is made of
\* (motifs.py, layers.py, and the blend of features.py).
THEOREM EvidenceSound == Spec => []EvidenceHangsTogether
<1>1. Control /\ AggInv /\ TimesInv /\ MoneyInv => EvidenceHangsTogether
  BY EvidenceHangs
<1> QED
  BY <1>1, ControlAlways, AggAlways, TimesAlways, MoneyAlways, PTL
=============================================================================
