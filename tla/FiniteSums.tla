----------------------------- MODULE FiniteSums -----------------------------
(***************************************************************************)
(* Facts about finite sets of numbers, sums over a finite set and the      *)
(* elements selected from a sequence, for proofs about queues and counters.*)
(*                                                                         *)
(* Induction is stated for sets instead of predicates: a family of subsets *)
(* that has the empty set and is closed under adding an element has every  *)
(* finite set.  It follows from the well-founded order of strict inclusion.*)
(***************************************************************************)
EXTENDS Integers, Sequences, FiniteSets, FiniteSetsExt, Functions, FiniteSetTheorems,
        SequenceTheorems, WellFoundedInduction, TLAPS

\* A family without a minimal counterexample has no counterexample.
LEMMA SubsetInduction ==
    ASSUME NEW S, IsFiniteSet(S), NEW F,
           \A T \in SUBSET S : (\A U \in SUBSET T : U # T => U \in F) => T \in F
    PROVE  S \in F
  <1> DEFINE Bad == {T \in SUBSET S : T \notin F}
  <1> SUFFICES ASSUME S \notin F PROVE FALSE
    OBVIOUS
  <1>1. IsWellFoundedOn(StrictSubsetOrdering(S), SUBSET S)
    <2>1. FiniteSubsetsOf(S) = SUBSET S
      BY FS_FiniteSubsetsOfFinite
    <2>2. IsWellFoundedOn(StrictSubsetOrdering(S), FiniteSubsetsOf(S))
      BY FS_StrictSubsetOrderingWellFounded
    <2> QED
      BY <2>1, <2>2
  <1>2. Bad \subseteq SUBSET S /\ Bad # {}
    OBVIOUS
  <1> HIDE DEF Bad
  <1>3. PICK T \in Bad : \A U \in Bad : ~(<<U, T>> \in StrictSubsetOrdering(S))
    BY <1>1, <1>2, WFMin
  <1>4. \A U \in SUBSET T : U # T => U \notin Bad
    BY <1>2, <1>3 DEF StrictSubsetOrdering
  <1> QED
    BY <1>2, <1>3, <1>4 DEF Bad

\* A non-empty finite set of integers has a smallest element.
LEMMA SmallestExists ==
    ASSUME NEW S \in SUBSET Int, IsFiniteSet(S), S # {}
    PROVE  \E x \in S : \A y \in S : x <= y
  <1> DEFINE F == {T \in SUBSET S : T # {} => \E x \in T : \A y \in T : x <= y}
  <1>1. ASSUME NEW T \in SUBSET S, \A U \in SUBSET T : U # T => U \in F
        PROVE  T \in F
    <2>1. CASE T = {}
      BY <2>1
    <2>2. CASE T # {}
      <3>1. PICK a \in T : TRUE
        BY <2>2
      <3>2. T \ {a} \in F
        BY <1>1, <3>1
      <3>3. CASE T \ {a} = {}
        BY <3>1, <3>3
      <3>4. CASE T \ {a} # {}
        <4>1. PICK b \in T \ {a} : \A y \in T \ {a} : b <= y
          BY <3>2, <3>4
        <4>2. a \in Int /\ b \in Int /\ \A y \in T : y \in Int
          BY <3>1, <4>1
        <4>3. CASE a <= b
          BY <3>1, <4>1, <4>2, <4>3
        <4>4. CASE b <= a
          BY <3>1, <4>1, <4>2, <4>4
        <4> QED
          BY <4>2, <4>3, <4>4
      <3> QED
        BY <3>3, <3>4
    <2> QED
      BY <2>1, <2>2
  <1> HIDE DEF F
  <1>2. S \in F
    BY <1>1, SubsetInduction
  <1> QED
    BY <1>2 DEF F

\* Min and Max are elements of their set.
LEMMA MinIsElement ==
    ASSUME NEW S \in SUBSET Int, IsFiniteSet(S), S # {}
    PROVE  Min(S) \in S /\ \A y \in S : Min(S) <= y
  BY SmallestExists DEF Min

LEMMA PairMinMax ==
    ASSUME NEW a \in Int, NEW b \in Int
    PROVE  /\ Min({a, b}) = IF a <= b THEN a ELSE b
           /\ Max({a, b}) = IF a <= b THEN b ELSE a
  <1>1. \E x \in {a, b} : \A y \in {a, b} : x <= y
    OBVIOUS
  <1>2. \E x \in {a, b} : \A y \in {a, b} : x >= y
    OBVIOUS
  <1>3. Min({a, b}) \in {a, b} /\ \A y \in {a, b} : Min({a, b}) <= y
    BY <1>1 DEF Min
  <1>4. Max({a, b}) \in {a, b} /\ \A y \in {a, b} : Max({a, b}) >= y
    BY <1>2 DEF Max
  <1> QED
    BY <1>3, <1>4

-----------------------------------------------------------------------------
(* The recursive function behind SumFunctionOnSet *)

Pick(s) == CHOOSE x \in s : TRUE
\* One unfolding of the sum of f, for the subsets a family has.
Sums(f, F, g) == g = [s \in F |-> IF s = {} THEN 0 ELSE f[Pick(s)] + g[s \ {Pick(s)}]]

\* The fold of the community modules is that function.
LEMMA SumIsFold ==
    ASSUME NEW f, NEW S
    PROVE  SumFunctionOnSet(f, S) = (CHOOSE g : Sums(f, SUBSET S, g))[S]
  BY DEF SumFunctionOnSet, FoldFunctionOnSet, MapThenFoldSet, Sums, Pick

\* Two such functions agree on the sets both know.
LEMMA SumsUnique ==
    ASSUME NEW f, NEW T, NEW U, NEW g, NEW h, NEW V, IsFiniteSet(V),
           Sums(f, SUBSET T, g), Sums(f, SUBSET U, h), V \subseteq T, V \subseteq U
    PROVE  g[V] = h[V]
  <1> DEFINE F == {s \in SUBSET V : g[s] = h[s]}
  <1>1. ASSUME NEW s \in SUBSET V, \A t \in SUBSET s : t # s => t \in F
        PROVE  s \in F
    <2>1. /\ g[s] = IF s = {} THEN 0 ELSE f[Pick(s)] + g[s \ {Pick(s)}]
          /\ h[s] = IF s = {} THEN 0 ELSE f[Pick(s)] + h[s \ {Pick(s)}]
      BY DEF Sums
    <2>2. CASE s = {}
      BY <2>1, <2>2
    <2>3. CASE s # {}
      <3>1. Pick(s) \in s
        BY <2>3 DEF Pick
      <3>2. s \ {Pick(s)} \in F
        BY <1>1, <3>1
      <3> QED
        BY <2>1, <2>3, <3>2
    <2> QED
      BY <2>2, <2>3
  <1> HIDE DEF F
  <1>2. V \in F
    BY <1>1, SubsetInduction
  <1> QED
    BY <1>2 DEF F

\* Such a function exists for every finite set.
LEMMA SumsExists ==
    ASSUME NEW f, NEW S, IsFiniteSet(S)
    PROVE  \E g : Sums(f, SUBSET S, g)
  <1> DEFINE F == {T \in SUBSET S : \E g : Sums(f, SUBSET T, g)}
             G(T) == CHOOSE g : Sums(f, SUBSET T, g)
  <1>1. ASSUME NEW T \in SUBSET S, \A U \in SUBSET T : U # T => U \in F
        PROVE  T \in F
    <2> DEFINE h == [s \in SUBSET T |-> IF s = T
                                        THEN IF T = {} THEN 0
                                             ELSE f[Pick(T)] + G(T \ {Pick(T)})[T \ {Pick(T)}]
                                        ELSE G(s)[s]]
    <2>1. \A s \in SUBSET T : s # T => Sums(f, SUBSET s, G(s))
      BY <1>1
    <2>2. \A s \in SUBSET T : IsFiniteSet(s)
      BY FS_Subset
    <2>3. \A s \in SUBSET T : s # {} => Pick(s) \in s
      BY DEF Pick
    <2> HIDE DEF G
    <2>4. ASSUME NEW s \in SUBSET T
          PROVE  h[s] = IF s = {} THEN 0 ELSE f[Pick(s)] + h[s \ {Pick(s)}]
      <3>1. CASE s = {}
        BY <2>1, <3>1 DEF Sums
      <3>2. CASE s # {} /\ s = T
        BY <2>3, <3>2
      <3>3. CASE s # {} /\ s # T
        <4> DEFINE r == s \ {Pick(s)}
        <4>1. r \in SUBSET T /\ r # T /\ r \subseteq s
          BY <2>3, <3>3
        <4>2. G(s)[s] = f[Pick(s)] + G(s)[r]
          BY <2>1, <3>3 DEF Sums
        <4>3. G(s)[r] = G(r)[r]
          <5>1. Sums(f, SUBSET s, G(s)) /\ Sums(f, SUBSET r, G(r)) /\ IsFiniteSet(r)
            BY <2>1, <2>2, <3>3, <4>1
          <5> HIDE DEF r
          <5> QED
            BY <4>1, <5>1, SumsUnique
        <4> QED
          BY <3>3, <4>1, <4>2, <4>3
      <3> QED
        BY <3>1, <3>2, <3>3
    <2>5. h = [s \in SUBSET T |-> h[s]]
      OBVIOUS
    <2> HIDE DEF h
    <2>6. Sums(f, SUBSET T, h)
      BY <2>4, <2>5 DEF Sums
    <2> QED
      BY <2>6
  <1> HIDE DEF F
  <1>2. S \in F
    BY <1>1, SubsetInduction
  <1> QED
    BY <1>2 DEF F

\* The sum over a finite set, one element taken off.
LEMMA SumUnfolds ==
    ASSUME NEW f, NEW S, IsFiniteSet(S)
    PROVE  SumFunctionOnSet(f, S) =
             IF S = {} THEN 0 ELSE f[Pick(S)] + SumFunctionOnSet(f, S \ {Pick(S)})
  <1> DEFINE G(T) == CHOOSE g : Sums(f, SUBSET T, g)
             r == S \ {Pick(S)}
  <1>1. IsFiniteSet(r)
    BY FS_Subset
  <1>2. Sums(f, SUBSET S, G(S)) /\ Sums(f, SUBSET r, G(r))
    BY <1>1, SumsExists
  <1>3. G(S)[S] = IF S = {} THEN 0 ELSE f[Pick(S)] + G(S)[r]
    BY <1>2 DEF Sums
  <1>4. G(S)[r] = G(r)[r]
    <2> HIDE DEF G, r
    <2>1. r \subseteq S
      BY DEF r
    <2> QED
      BY <1>1, <1>2, <2>1, SumsUnique
  <1>5. SumFunctionOnSet(f, S) = G(S)[S] /\ SumFunctionOnSet(f, r) = G(r)[r]
    BY SumIsFold
  <1> QED
    BY <1>3, <1>4, <1>5

-----------------------------------------------------------------------------
(* What proofs cite *)

\* A sum of naturals is a natural.
LEMMA SumType ==
    ASSUME NEW S, IsFiniteSet(S), NEW f, \A x \in S : f[x] \in Nat
    PROVE  SumFunctionOnSet(f, S) \in Nat
  <1> DEFINE F == {T \in SUBSET S : SumFunctionOnSet(f, T) \in Nat}
  <1>1. ASSUME NEW T \in SUBSET S, \A U \in SUBSET T : U # T => U \in F
        PROVE  T \in F
    <2>1. IsFiniteSet(T)
      BY FS_Subset
    <2>2. SumFunctionOnSet(f, T) =
             IF T = {} THEN 0 ELSE f[Pick(T)] + SumFunctionOnSet(f, T \ {Pick(T)})
      BY <2>1, SumUnfolds
    <2>3. T # {} => Pick(T) \in T /\ T \ {Pick(T)} \in F
      BY <1>1 DEF Pick
    <2> QED
      BY <2>2, <2>3
  <1> HIDE DEF F
  <1>2. S \in F
    BY <1>1, SubsetInduction
  <1> QED
    BY <1>2 DEF F

\* The order of the elements does not matter.
LEMMA SumTakesOff ==
    ASSUME NEW S, IsFiniteSet(S), NEW f, \A x \in S : f[x] \in Nat
    PROVE  /\ SumFunctionOnSet(f, {}) = 0
           /\ \A x \in S : SumFunctionOnSet(f, S) = f[x] + SumFunctionOnSet(f, S \ {x})
  <1> DEFINE F == {T \in SUBSET S :
                    \A x \in T : SumFunctionOnSet(f, T) = f[x] + SumFunctionOnSet(f, T \ {x})}
  <1>0. SumFunctionOnSet(f, {}) = 0
    BY FS_EmptySet, SumUnfolds
  <1>1. ASSUME NEW T \in SUBSET S, \A U \in SUBSET T : U # T => U \in F
        PROVE  T \in F
    <2> SUFFICES ASSUME NEW x \in T
                 PROVE  SumFunctionOnSet(f, T) = f[x] + SumFunctionOnSet(f, T \ {x})
      OBVIOUS
    <2> DEFINE y == Pick(T)
    <2>1. \A U \in SUBSET S : IsFiniteSet(U) /\ SumFunctionOnSet(f, U) \in Nat
      <3>1. \A U \in SUBSET S : IsFiniteSet(U)
        BY FS_Subset
      <3> QED
        BY <3>1, SumType
    <2>2. y \in T /\ SumFunctionOnSet(f, T) = f[y] + SumFunctionOnSet(f, T \ {y})
      BY <2>1, SumUnfolds DEF Pick
    <2> HIDE DEF y
    <2>3. CASE x = y
      BY <2>2, <2>3
    <2>4. CASE x # y
      <3>1. T \ {y} \in F /\ T \ {x} \in F
        BY <1>1, <2>2
      <3>2. SumFunctionOnSet(f, T \ {y}) = f[x] + SumFunctionOnSet(f, (T \ {y}) \ {x})
        BY <2>4, <3>1
      <3>3. SumFunctionOnSet(f, T \ {x}) = f[y] + SumFunctionOnSet(f, (T \ {x}) \ {y})
        BY <2>2, <2>4, <3>1
      <3>4. (T \ {x}) \ {y} = (T \ {y}) \ {x}
        OBVIOUS
      <3>5. /\ f[x] \in Nat /\ f[y] \in Nat
            /\ SumFunctionOnSet(f, (T \ {y}) \ {x}) \in Nat
        BY <2>1, <2>2
      <3> QED
        BY <2>2, <3>2, <3>3, <3>4, <3>5
    <2> QED
      BY <2>3, <2>4
  <1> HIDE DEF F
  <1>2. S \in F
    BY <1>1, SubsetInduction
  <1> QED
    BY <1>0, <1>2 DEF F

\* Functions that agree on a set have the same sum over it.
LEMMA SumAgrees ==
    ASSUME NEW S, IsFiniteSet(S), NEW f, NEW g, \A x \in S : f[x] = g[x]
    PROVE  SumFunctionOnSet(f, S) = SumFunctionOnSet(g, S)
  <1> DEFINE F == {T \in SUBSET S : SumFunctionOnSet(f, T) = SumFunctionOnSet(g, T)}
  <1>1. ASSUME NEW T \in SUBSET S, \A U \in SUBSET T : U # T => U \in F
        PROVE  T \in F
    <2>1. IsFiniteSet(T)
      BY FS_Subset
    <2>2. /\ SumFunctionOnSet(f, T) =
               IF T = {} THEN 0 ELSE f[Pick(T)] + SumFunctionOnSet(f, T \ {Pick(T)})
          /\ SumFunctionOnSet(g, T) =
               IF T = {} THEN 0 ELSE g[Pick(T)] + SumFunctionOnSet(g, T \ {Pick(T)})
      BY <2>1, SumUnfolds
    <2>3. T # {} => Pick(T) \in T /\ T \ {Pick(T)} \in F
      BY <1>1 DEF Pick
    <2> QED
      BY <2>2, <2>3
  <1> HIDE DEF F
  <1>2. S \in F
    BY <1>1, SubsetInduction
  <1> QED
    BY <1>2 DEF F

\* A sum of naturals over fewer elements is not larger.
LEMMA SumMonotone ==
    ASSUME NEW S, IsFiniteSet(S), NEW f, \A x \in S : f[x] \in Nat, NEW R \in SUBSET S
    PROVE  SumFunctionOnSet(f, R) <= SumFunctionOnSet(f, S)
  <1> DEFINE F == {T \in SUBSET S :
                     SumFunctionOnSet(f, T \cap R) <= SumFunctionOnSet(f, T)}
  <1>0. \A U \in SUBSET S : IsFiniteSet(U)
    BY FS_Subset
  <1>1. ASSUME NEW T \in SUBSET S, \A U \in SUBSET T : U # T => U \in F
        PROVE  T \in F
    <2>1. \A U \in SUBSET S : SumFunctionOnSet(f, U) \in Nat
      BY <1>0, SumType
    <2>2. CASE T \subseteq R
      <3>1. T \cap R = T
        BY <2>2
      <3> QED
        BY <2>1, <3>1
    <2>3. CASE ~(T \subseteq R)
      <3>1. PICK x \in T : x \notin R
        BY <2>3
      <3>2. T \ {x} \in F /\ (T \ {x}) \cap R = T \cap R
        BY <1>1, <3>1
      <3>3. SumFunctionOnSet(f, T) = f[x] + SumFunctionOnSet(f, T \ {x})
        BY <1>0, <3>1, SumTakesOff
      <3>4. /\ f[x] \in Nat /\ SumFunctionOnSet(f, T \ {x}) \in Nat
            /\ SumFunctionOnSet(f, T \cap R) \in Nat
        BY <2>1, <3>1
      <3> QED
        BY <3>2, <3>3, <3>4
    <2> QED
      BY <2>2, <2>3
  <1> HIDE DEF F
  <1>2. S \in F
    BY <1>1, SubsetInduction
  <1>3. S \cap R = R
    OBVIOUS
  <1> QED
    BY <1>2, <1>3 DEF F

\* A sum is at most as many times its largest summand as it has summands.
LEMMA SumBounded ==
    ASSUME NEW S, IsFiniteSet(S), NEW c \in Nat, NEW f, \A x \in S : f[x] \in 0 .. c
    PROVE  SumFunctionOnSet(f, S) <= c * Cardinality(S)
  <1> DEFINE F == {T \in SUBSET S : SumFunctionOnSet(f, T) <= c * Cardinality(T)}
  <1>0. \A U \in SUBSET S : IsFiniteSet(U) /\ Cardinality(U) \in Nat
    BY FS_Subset, FS_CardinalityType
  <1>1. ASSUME NEW T \in SUBSET S, \A U \in SUBSET T : U # T => U \in F
        PROVE  T \in F
    <2>1. CASE T = {}
      <3>1. SumFunctionOnSet(f, T) = 0 /\ Cardinality(T) = 0
        BY <2>1, SumTakesOff, FS_EmptySet
      <3> QED
        BY <3>1
    <2>2. CASE T # {}
      <3>1. PICK x \in T : TRUE
        BY <2>2
      <3>2. SumFunctionOnSet(f, T) = f[x] + SumFunctionOnSet(f, T \ {x})
        <4>1. IsFiniteSet(T) /\ \A y \in T : f[y] \in Nat
          BY <1>0
        <4> QED
          BY <4>1, SumTakesOff
      <3>3. Cardinality(T) = Cardinality(T \ {x}) + 1
        <4>1. Cardinality(T \ {x}) = Cardinality(T) - 1
          BY <1>0, FS_RemoveElement
        <4> QED
          BY <1>0, <4>1
      <3>4. SumFunctionOnSet(f, T \ {x}) \in Nat /\ f[x] \in 0 .. c
        BY <1>0, SumType
      <3>5. T \ {x} \in F
        BY <1>1, <3>1
      <3>6. SumFunctionOnSet(f, T \ {x}) <= c * Cardinality(T \ {x})
        BY <3>5
      <3>7. c * Cardinality(T) = c * Cardinality(T \ {x}) + c
        BY <1>0, <3>3
      <3>8. c * Cardinality(T \ {x}) \in Nat
        BY <1>0
      <3> QED
        BY <3>2, <3>4, <3>6, <3>7, <3>8
    <2> QED
      BY <2>1, <2>2
  <1> HIDE DEF F
  <1>2. S \in F
    BY <1>1, SubsetInduction
  <1> QED
    BY <1>2 DEF F

-----------------------------------------------------------------------------
\* Induction over the numbers up to n, and over sequences from the left.
LEMMA CountInduction ==
    ASSUME NEW n \in Nat, NEW F, 0 \in F, \A k \in 0 .. n - 1 : k \in F => k + 1 \in F
    PROVE  \A k \in 0 .. n : k \in F
  <1> DEFINE Bad == {k \in 0 .. n : k \notin F}
  <1> SUFFICES ASSUME Bad # {} PROVE FALSE
    OBVIOUS
  <1>1. Bad \in SUBSET Int /\ IsFiniteSet(Bad)
    <2>1. IsFiniteSet(0 .. n)
      BY FS_Interval
    <2> QED
      BY <2>1, FS_Subset
  <1>2. PICK k \in Bad : \A j \in Bad : k <= j
    <2> HIDE DEF Bad
    <2> QED
      BY <1>1, SmallestExists
  <1>3. k # 0 /\ k \in 0 .. n
    BY <1>2
  <1>4. k - 1 \in 0 .. n - 1 /\ k - 1 \notin Bad
    BY <1>2, <1>3
  <1>5. k - 1 \in F /\ (k - 1) + 1 = k
    BY <1>3, <1>4
  <1>6. k \in F
    BY <1>4, <1>5
  <1> QED
    BY <1>2, <1>6

LEMMA AppendInduction ==
    ASSUME NEW S, NEW F, <<>> \in F, \A s \in Seq(S), x \in S : s \in F => Append(s, x) \in F
    PROVE  Seq(S) \subseteq F
  <1> SUFFICES ASSUME NEW t \in Seq(S) PROVE t \in F
    OBVIOUS
  <1> DEFINE G == {n \in Nat : \A s \in Seq(S) : Len(s) = n => s \in F}
  <1>1. 0 \in G
    BY EmptySeq
  <1>2. ASSUME NEW k \in 0 .. Len(t) - 1, k \in G PROVE k + 1 \in G
    <2> SUFFICES ASSUME NEW s \in Seq(S), Len(s) = k + 1 PROVE s \in F
      OBVIOUS
    <2>1. s # <<>>
      BY EmptySeq
    <2>2. PICK r \in Seq(S), x \in S : s = Append(r, x)
      BY <2>1, SequenceEmptyOrAppend
    <2>3. Len(r) = k
      BY <2>2, AppendProperties, LenProperties
    <2>4. r \in F
      BY <1>2, <2>3
    <2> QED
      BY <2>2, <2>4
  <1> HIDE DEF G
  <1>3. Len(t) \in Nat
    BY LenProperties
  <1>4. \A k \in 0 .. Len(t) : k \in G
    BY <1>1, <1>2, <1>3, CountInduction
  <1> QED
    BY <1>3, <1>4 DEF G

-----------------------------------------------------------------------------
(* The elements of a sequence that are in a set, in their order: what        *)
(* SelectSeq yields, as a function of the set.                               *)

Filters(s, A, n, g) ==
    g = [i \in 0 .. n |-> IF i = 0 THEN <<>>
                          ELSE IF s[i] \in A THEN Append(g[i - 1], s[i]) ELSE g[i - 1]]
Filter(s, A) ==
    LET kept[i \in 0 .. Len(s)] ==
          IF i = 0 THEN <<>>
          ELSE IF s[i] \in A THEN Append(kept[i - 1], s[i]) ELSE kept[i - 1]
    IN  kept[Len(s)]

LEMMA FiltersExists ==
    ASSUME NEW s, NEW A, NEW n \in Nat
    PROVE  \E g : Filters(s, A, n, g)
  <1> DEFINE F == {k \in Nat : \E g : Filters(s, A, k, g)}
  <1>1. 0 \in F
    <2>1. Filters(s, A, 0, [i \in 0 .. 0 |-> <<>>])
      BY DEF Filters
    <2> QED
      BY <2>1
  <1>2. ASSUME NEW k \in 0 .. n - 1, k \in F PROVE k + 1 \in F
    <2>1. PICK g : Filters(s, A, k, g)
      BY <1>2
    <2>2. PICK h : h = [i \in 0 .. k + 1 |->
              IF i = k + 1 THEN IF s[i] \in A THEN Append(g[k], s[i]) ELSE g[k] ELSE g[i]]
      OBVIOUS
    <2>3. \A i \in 0 .. k : g[i] = IF i = 0 THEN <<>>
                          ELSE IF s[i] \in A THEN Append(g[i - 1], s[i]) ELSE g[i - 1]
      BY <2>1 DEF Filters
    <2>4. \A i \in 0 .. k : h[i] = g[i]
      BY <2>2
    <2>5. h[k + 1] = IF s[k + 1] \in A THEN Append(h[k], s[k + 1]) ELSE h[k]
      <3>1. h[k] = g[k]
        BY <2>4
      <3> QED
        BY <2>2, <3>1
    <2>6. ASSUME NEW i \in 0 .. k + 1
          PROVE h[i] = IF i = 0 THEN <<>>
                       ELSE IF s[i] \in A THEN Append(h[i - 1], s[i]) ELSE h[i - 1]
      <3>1. CASE i = k + 1
        BY <2>5, <3>1
      <3>2. CASE i = 0
        BY <2>3, <2>4, <3>2
      <3>3. CASE i \in 1 .. k
        <4>1. i \in 0 .. k /\ i - 1 \in 0 .. k /\ i # 0
          BY <3>3
        <4>2. h[i] = g[i] /\ h[i - 1] = g[i - 1]
          BY <2>4, <4>1
        <4> QED
          BY <2>3, <4>1, <4>2
      <3> QED
        BY <3>1, <3>2, <3>3
    <2>7. Filters(s, A, k + 1, h)
      BY <2>2, <2>6 DEF Filters
    <2> QED
      BY <2>7
  <1> HIDE DEF F
  <1>3. n \in F
    BY <1>1, <1>2, CountInduction
  <1> QED
    BY <1>3 DEF F

StepsAt(s, A, g, k, i) == g[i] = IF s[i] \in A THEN Append(g[k], s[i]) ELSE g[k]

LEMMA FiltersStep ==
    ASSUME NEW s, NEW A, NEW n \in Nat, NEW g, Filters(s, A, n, g),
           NEW k \in Nat, NEW i \in Nat, i = k + 1, i <= n
    PROVE  StepsAt(s, A, g, k, i)
  <1>1. \A j \in 0 .. n : g[j] = IF j = 0 THEN <<>>
                          ELSE IF s[j] \in A THEN Append(g[j - 1], s[j]) ELSE g[j - 1]
    BY DEF Filters
  <1>2. i \in 0 .. n /\ i # 0 /\ i - 1 = k
    OBVIOUS
  <1> QED
    BY <1>1, <1>2 DEF StepsAt

LEMMA FiltersUnique ==
    ASSUME NEW s, NEW t, NEW A, NEW m \in Nat, NEW n \in Nat, NEW g, NEW h,
           Filters(s, A, m, g), Filters(t, A, n, h), NEW k \in Nat, k <= m, k <= n,
           \A i \in 1 .. k : s[i] = t[i]
    PROVE  g[k] = h[k]
  <1> DEFINE F == {j \in 0 .. k : g[j] = h[j]}
  <1>1. 0 \in F
    BY DEF Filters
  <1>2. ASSUME NEW j \in 0 .. k - 1, j \in F PROVE j + 1 \in F
    <2>1. PICK i \in Nat : i = j + 1
      OBVIOUS
    <2>2. j \in Nat /\ i <= m /\ i <= n /\ i \in 1 .. k
      BY <2>1
    <2>3. StepsAt(s, A, g, j, i)
      BY <2>1, <2>2, FiltersStep
    <2>4. StepsAt(t, A, h, j, i)
      BY <2>1, <2>2, FiltersStep
    <2>5. g[i] = h[i] /\ i \in 0 .. k
      BY <1>2, <2>2, <2>3, <2>4 DEF StepsAt
    <2> QED
      BY <2>1, <2>5
  <1> HIDE DEF F
  <1>3. k \in F
    BY <1>1, <1>2, CountInduction
  <1> QED
    BY <1>3 DEF F

LEMMA FilterIs ==
    ASSUME NEW S, NEW s \in Seq(S), NEW A
    PROVE  \E g : Filters(s, A, Len(s), g) /\ Filter(s, A) = g[Len(s)]
  <1>1. Len(s) \in Nat
    BY LenProperties
  <1>2. \E g : Filters(s, A, Len(s), g)
    BY <1>1, FiltersExists
  <1>3. Filters(s, A, Len(s), CHOOSE g : Filters(s, A, Len(s), g))
    BY <1>2
  <1>4. Filter(s, A) = (CHOOSE g : Filters(s, A, Len(s), g))[Len(s)]
    BY DEF Filter, Filters
  <1> QED
    BY <1>3, <1>4

LEMMA FilterEmpty == ASSUME NEW A PROVE Filter(<<>>, A) = <<>>
  <1>1. <<>> \in Seq({}) /\ Len(<<>>) = 0
    BY EmptySeq
  <1>2. PICK g : Filters(<<>>, A, Len(<<>>), g) /\ Filter(<<>>, A) = g[Len(<<>>)]
    BY <1>1, FilterIs
  <1>3. g[0] = <<>>
    BY <1>1, <1>2 DEF Filters
  <1> QED
    BY <1>1, <1>2, <1>3

LEMMA FilterAppend ==
    ASSUME NEW S, NEW s \in Seq(S), NEW x \in S, NEW A
    PROVE  Filter(Append(s, x), A) = IF x \in A THEN Append(Filter(s, A), x) ELSE Filter(s, A)
  <1>1. PICK n \in Nat : n = Len(s)
    BY LenProperties
  <1>2. PICK t \in Seq(S) : t = Append(s, x)
    BY AppendProperties
  <1>3. PICK m \in Nat : m = n + 1
    OBVIOUS
  <1>4. Len(t) = m /\ t[m] = x /\ \A i \in 1 .. n : t[i] = s[i]
    BY <1>1, <1>2, <1>3, AppendProperties
  <1>5. PICK g : Filters(s, A, n, g) /\ Filter(s, A) = g[n]
    BY <1>1, FilterIs
  <1>6. PICK h : Filters(t, A, m, h) /\ Filter(t, A) = h[m]
    BY <1>4, FilterIs
  <1>7. h[n] = g[n]
    BY <1>3, <1>4, <1>5, <1>6, FiltersUnique
  <1>8. StepsAt(t, A, h, n, m)
    <2>1. m <= m
      BY <1>3
    <2>2. Filters(t, A, m, h)
      BY <1>6
    <2> QED
      BY <1>3, <2>1, <2>2, FiltersStep
  <1> QED
    BY <1>2, <1>4, <1>5, <1>6, <1>7, <1>8 DEF StepsAt

\* The elements that are kept, and as many as they may be.
LEMMA FilterType ==
    ASSUME NEW S, NEW s \in Seq(S), NEW A
    PROVE  /\ Filter(s, A) \in Seq(S)
           /\ Filter(s, A) \in Seq(S \cap A)
           /\ Len(Filter(s, A)) <= Len(s)
  <1> DEFINE F == {t \in Seq(S) : Filter(t, A) \in Seq(S \cap A) /\ Len(Filter(t, A)) <= Len(t)}
  <1>1. <<>> \in F
    <2>1. Filter(<<>>, A) = <<>> /\ <<>> \in Seq(S) /\ <<>> \in Seq(S \cap A)
      BY FilterEmpty, EmptySeq
    <2>2. Len(<<>>) <= Len(<<>>)
      BY EmptySeq
    <2> QED
      BY <2>1, <2>2
  <1>2. ASSUME NEW t \in Seq(S), NEW x \in S, t \in F PROVE Append(t, x) \in F
    <2>1. Append(t, x) \in Seq(S) /\ Len(Append(t, x)) = Len(t) + 1
      BY AppendProperties
    <2>2. Filter(t, A) \in Seq(S \cap A) /\ Len(Filter(t, A)) <= Len(t)
      BY <1>2
    <2>3. Len(t) \in Nat /\ Len(Filter(t, A)) \in Nat
      BY <2>2, LenProperties
    <2>4. CASE x \in A
      <3>1. Filter(Append(t, x), A) = Append(Filter(t, A), x)
        BY <2>4, FilterAppend
      <3>2. /\ Append(Filter(t, A), x) \in Seq(S \cap A)
            /\ Len(Append(Filter(t, A), x)) = Len(Filter(t, A)) + 1
        BY <2>2, <2>4, AppendProperties
      <3> QED
        BY <2>1, <2>2, <2>3, <3>1, <3>2
    <2>5. CASE x \notin A
      <3>1. Filter(Append(t, x), A) = Filter(t, A)
        BY <2>5, FilterAppend
      <3> QED
        BY <2>1, <2>2, <2>3, <3>1
    <2> QED
      BY <2>4, <2>5
  <1> HIDE DEF F
  <1>3. Seq(S) \subseteq F
    BY <1>1, <1>2, AppendInduction
  <1>4. Filter(s, A) \in Seq(S \cap A) /\ Len(Filter(s, A)) <= Len(s)
    BY <1>3 DEF F
  <1>5. Seq(S \cap A) \subseteq Seq(S)
    BY SeqMonotonic
  <1> QED
    BY <1>4, <1>5

AppendsLast(k, l, x) == Append(k \o l, x) = k \o Append(l, x)

LEMMA AppendToConcat ==
    ASSUME NEW S, NEW k \in Seq(S), NEW l \in Seq(S), NEW x \in S
    PROVE  AppendsLast(k, l, x)
  <1>1. k \o l \in Seq(S) /\ <<x>> \in Seq(S)
    BY ConcatProperties
  <1>2. Append(l, x) = l \o <<x>> /\ Append(k \o l, x) = (k \o l) \o <<x>>
    BY <1>1, AppendIsConcat
  <1> QED
    BY <1>1, <1>2, ConcatAssociative DEF AppendsLast

LEMMA FilterConcat ==
    ASSUME NEW S, NEW s \in Seq(S), NEW t \in Seq(S), NEW A
    PROVE  Filter(s \o t, A) = Filter(s, A) \o Filter(t, A)
  <1> DEFINE F == {u \in Seq(S) : Filter(s \o u, A) = Filter(s, A) \o Filter(u, A)}
  <1>0. Filter(s, A) \in Seq(S)
    BY FilterType
  <1>1. <<>> \in F
    <2>1. <<>> \in Seq(S) /\ s \o <<>> = s /\ Filter(<<>>, A) = <<>>
      BY EmptySeq, ConcatEmptySeq, FilterEmpty
    <2>2. Filter(s, A) \o <<>> = Filter(s, A)
      BY <1>0, ConcatEmptySeq
    <2> QED
      BY <2>1, <2>2
  <1>2. ASSUME NEW u \in Seq(S), NEW x \in S, u \in F PROVE Append(u, x) \in F
    <2>1. Append(u, x) \in Seq(S)
      BY AppendProperties
    <2>2. s \o u \in Seq(S) /\ s \o Append(u, x) = Append(s \o u, x)
      <3>1. AppendsLast(s, u, x)
        BY AppendToConcat
      <3> QED
        BY <3>1, ConcatProperties DEF AppendsLast
    <2>3. Filter(s \o u, A) = Filter(s, A) \o Filter(u, A)
      BY <1>2
    <2>4. Filter(u, A) \in Seq(S)
      BY FilterType
    <2>5. CASE x \in A
      <3>1. PICK v \in Seq(S) : v = s \o u
        BY <2>2
      <3>2. Filter(Append(v, x), A) = Append(Filter(v, A), x)
        BY <2>5, FilterAppend
      <3>3. Filter(Append(u, x), A) = Append(Filter(u, A), x)
        BY <2>5, FilterAppend
      <3>4. PICK k \in Seq(S), l \in Seq(S) : k = Filter(s, A) /\ l = Filter(u, A)
        BY <1>0, <2>4
      <3>5. Append(k \o l, x) = k \o Append(l, x)
        <4>1. AppendsLast(k, l, x)
          BY AppendToConcat
        <4> QED
          BY <4>1 DEF AppendsLast
      <3>6. Filter(v, A) = k \o l
        BY <2>3, <3>1, <3>4
      <3>7. Filter(s \o Append(u, x), A) = Append(k \o l, x)
        BY <2>2, <3>1, <3>2, <3>6
      <3>8. Filter(s, A) \o Filter(Append(u, x), A) = k \o Append(l, x)
        BY <3>3, <3>4
      <3> QED
        BY <2>1, <3>5, <3>7, <3>8
    <2>6. CASE x \notin A
      <3>1. /\ Filter(Append(s \o u, x), A) = Filter(s \o u, A)
            /\ Filter(Append(u, x), A) = Filter(u, A)
        BY <2>2, <2>6, FilterAppend
      <3> QED
        BY <2>1, <2>2, <2>3, <3>1
    <2> QED
      BY <2>5, <2>6
  <1> HIDE DEF F
  <1>3. Seq(S) \subseteq F
    BY <1>1, <1>2, AppendInduction
  <1> QED
    BY <1>3 DEF F

\* A sequence that is kept as a whole, or not at all.
LEMMA FilterAll ==
    ASSUME NEW S, NEW s \in Seq(S), NEW A, \A i \in 1 .. Len(s) : s[i] \in A
    PROVE  Filter(s, A) = s
  <1> DEFINE F == {t \in Seq(S) : (\A i \in 1 .. Len(t) : t[i] \in A) => Filter(t, A) = t}
  <1>1. <<>> \in F
    BY EmptySeq, FilterEmpty
  <1>2. ASSUME NEW t \in Seq(S), NEW x \in S, t \in F PROVE Append(t, x) \in F
    <2>1. Append(t, x) \in Seq(S)
      BY AppendProperties
    <2>2. SUFFICES ASSUME \A i \in 1 .. Len(Append(t, x)) : Append(t, x)[i] \in A
                   PROVE  Filter(Append(t, x), A) = Append(t, x)
      BY <2>1
    <2>3. /\ Len(t) \in Nat /\ Len(Append(t, x)) = Len(t) + 1 /\ Append(t, x)[Len(t) + 1] = x
          /\ \A i \in 1 .. Len(t) : Append(t, x)[i] = t[i]
      BY AppendProperties, LenProperties
    <2>4. x \in A /\ \A i \in 1 .. Len(t) : t[i] \in A
      BY <2>2, <2>3
    <2>5. Filter(t, A) = t
      BY <1>2, <2>4
    <2> QED
      BY <2>4, <2>5, FilterAppend
  <1> HIDE DEF F
  <1>3. Seq(S) \subseteq F
    BY <1>1, <1>2, AppendInduction
  <1> QED
    BY <1>3 DEF F

LEMMA FilterNone ==
    ASSUME NEW S, NEW s \in Seq(S), NEW A, \A i \in 1 .. Len(s) : s[i] \notin A
    PROVE  Filter(s, A) = <<>>
  <1> DEFINE F == {t \in Seq(S) : (\A i \in 1 .. Len(t) : t[i] \notin A) => Filter(t, A) = <<>>}
  <1>1. <<>> \in F
    BY EmptySeq, FilterEmpty
  <1>2. ASSUME NEW t \in Seq(S), NEW x \in S, t \in F PROVE Append(t, x) \in F
    <2>1. Append(t, x) \in Seq(S)
      BY AppendProperties
    <2>2. SUFFICES ASSUME \A i \in 1 .. Len(Append(t, x)) : Append(t, x)[i] \notin A
                   PROVE  Filter(Append(t, x), A) = <<>>
      BY <2>1
    <2>3. /\ Len(t) \in Nat /\ Len(Append(t, x)) = Len(t) + 1 /\ Append(t, x)[Len(t) + 1] = x
          /\ \A i \in 1 .. Len(t) : Append(t, x)[i] = t[i]
      BY AppendProperties, LenProperties
    <2>4. x \notin A /\ \A i \in 1 .. Len(t) : t[i] \notin A
      BY <2>2, <2>3
    <2>5. Filter(t, A) = <<>>
      BY <1>2, <2>4
    <2> QED
      BY <2>4, <2>5, FilterAppend
  <1> HIDE DEF F
  <1>3. Seq(S) \subseteq F
    BY <1>1, <1>2, AppendInduction
  <1> QED
    BY <1>3 DEF F

\* Keeping twice, and keeping the same.
LEMMA FilterAgain ==
    ASSUME NEW S, NEW s \in Seq(S), NEW A, NEW B
    PROVE  Filter(Filter(s, A), B) = Filter(s, A \cap B)
  <1> DEFINE F == {t \in Seq(S) : Filter(Filter(t, A), B) = Filter(t, A \cap B)}
  <1>1. <<>> \in F
    BY EmptySeq, FilterEmpty
  <1>2. ASSUME NEW t \in Seq(S), NEW x \in S, t \in F PROVE Append(t, x) \in F
    <2>1. Append(t, x) \in Seq(S) /\ Filter(t, A) \in Seq(S)
      BY AppendProperties, FilterType
    <2>2. Filter(Filter(t, A), B) = Filter(t, A \cap B)
      BY <1>2
    <2>6. PICK k \in Seq(S) : k = Filter(t, A)
      BY <2>1
    <2>3. CASE x \notin A
      <3>1. Filter(Append(t, x), A) = k /\ Filter(Append(t, x), A \cap B) = Filter(t, A \cap B)
        BY <2>3, <2>6, FilterAppend
      <3> QED
        BY <2>1, <2>2, <2>6, <3>1
    <2>4. CASE x \in A /\ x \in B
      <3>1. Filter(Append(t, x), A) = Append(k, x)
        BY <2>4, <2>6, FilterAppend
      <3>2. Filter(Append(t, x), A \cap B) = Append(Filter(t, A \cap B), x)
        <4>1. PICK C : C = A \cap B
          OBVIOUS
        <4>2. x \in C
          BY <2>4, <4>1
        <4>3. Filter(Append(t, x), C) = Append(Filter(t, C), x)
          BY <4>2, FilterAppend
        <4> QED
          BY <4>1, <4>3
      <3>3. Filter(Append(k, x), B) = Append(Filter(k, B), x)
        BY <2>4, FilterAppend
      <3> QED
        BY <2>1, <2>2, <2>6, <3>1, <3>2, <3>3
    <2>5. CASE x \in A /\ x \notin B
      <3>1. Filter(Append(t, x), A) = Append(k, x)
        BY <2>5, <2>6, FilterAppend
      <3>2. Filter(Append(t, x), A \cap B) = Filter(t, A \cap B)
        BY <2>5, FilterAppend
      <3>3. Filter(Append(k, x), B) = Filter(k, B)
        BY <2>5, FilterAppend
      <3> QED
        BY <2>1, <2>2, <2>6, <3>1, <3>2, <3>3
    <2> QED
      BY <2>3, <2>4, <2>5
  <1> HIDE DEF F
  <1>3. Seq(S) \subseteq F
    BY <1>1, <1>2, AppendInduction
  <1> QED
    BY <1>3 DEF F

LEMMA FilterAgrees ==
    ASSUME NEW S, NEW s \in Seq(S), NEW A, NEW B, \A i \in 1 .. Len(s) : s[i] \in A <=> s[i] \in B
    PROVE  Filter(s, A) = Filter(s, B)
  <1>1. PICK C : C = {s[i] : i \in 1 .. Len(s)}
    OBVIOUS
  <1>2. Filter(s, C) = s
    BY <1>1, FilterAll
  <1>3. C \cap A = C \cap B
    BY <1>1
  <1>4. Filter(Filter(s, C), A) = Filter(s, C \cap A) /\ Filter(Filter(s, C), B) = Filter(s, C \cap B)
    BY FilterAgain
  <1> QED
    BY <1>2, <1>3, <1>4

\* What is kept stays in order: FilterAt(s, A, p) says that position p(i) is
\* where the i-th kept element was.
FilterAt(s, A, p) ==
    /\ \A i \in 1 .. Len(Filter(s, A)) : p[i] \in 1 .. Len(s) /\ Filter(s, A)[i] = s[p[i]]
    /\ \A i, j \in 1 .. Len(Filter(s, A)) : i < j => p[i] < p[j]

LEMMA FilterOrder ==
    ASSUME NEW S, NEW s \in Seq(S), NEW A
    PROVE  \E p : FilterAt(s, A, p)
  <1> DEFINE F == {t \in Seq(S) : \E p : FilterAt(t, A, p)}
  <1>1. <<>> \in F
    <2>1. Filter(<<>>, A) = <<>> /\ Len(<<>>) = 0 /\ <<>> \in Seq(S)
      BY EmptySeq, FilterEmpty
    <2>2. FilterAt(<<>>, A, <<>>)
      BY <2>1 DEF FilterAt
    <2> QED
      BY <2>1, <2>2
  <1>2. ASSUME NEW t \in Seq(S), NEW x \in S, t \in F PROVE Append(t, x) \in F
    <2>1. PICK u \in Seq(S) : u = Append(t, x)
      BY AppendProperties
    <2>2. PICK n \in Nat : n = Len(t)
      BY LenProperties
    <2>3. Len(u) = n + 1 /\ u[n + 1] = x /\ \A i \in 1 .. n : u[i] = t[i]
      BY <2>1, <2>2, AppendProperties
    <2>4. PICK p : FilterAt(t, A, p)
      BY <1>2
    <2>5. PICK K \in Seq(S) : K = Filter(t, A)
      BY FilterType
    <2>6. PICK m \in Nat : m = Len(K)
      BY LenProperties
    <2>7. /\ \A i \in 1 .. m : p[i] \in 1 .. n /\ K[i] = t[p[i]]
          /\ \A i, j \in 1 .. m : i < j => p[i] < p[j]
      BY <2>2, <2>4, <2>5, <2>6 DEF FilterAt
    <2>8. CASE x \in A
      <3>1. Filter(u, A) = Append(K, x)
        BY <2>1, <2>5, <2>8, FilterAppend
      <3>2. /\ Len(Append(K, x)) = m + 1 /\ Append(K, x)[m + 1] = x
            /\ \A i \in 1 .. m : Append(K, x)[i] = K[i]
        BY <2>6, AppendProperties
      <3>3. PICK q : q = [i \in 1 .. m + 1 |-> IF i = m + 1 THEN n + 1 ELSE p[i]]
        OBVIOUS
      <3>4. q[m + 1] = n + 1 /\ \A i \in 1 .. m : q[i] = p[i]
        BY <3>3
      <3>5. ASSUME NEW i \in 1 .. m + 1
            PROVE  q[i] \in 1 .. n + 1 /\ Append(K, x)[i] = u[q[i]]
        <4>1. CASE i = m + 1
          BY <2>3, <3>2, <3>4, <4>1
        <4>2. CASE i \in 1 .. m
          <5>1. q[i] = p[i] /\ p[i] \in 1 .. n /\ K[i] = t[p[i]] /\ Append(K, x)[i] = K[i]
            BY <2>7, <3>2, <3>4, <4>2
          <5> QED
            BY <2>3, <5>1
        <4>3. i = m + 1 \/ i \in 1 .. m
          OBVIOUS
        <4> QED
          BY <4>1, <4>2, <4>3
      <3>6. ASSUME NEW i \in 1 .. m + 1, NEW j \in 1 .. m + 1, i < j
            PROVE  q[i] < q[j]
        <4>1. i \in 1 .. m /\ q[i] = p[i] /\ p[i] \in 1 .. n
          BY <2>7, <3>4, <3>6
        <4>2. CASE j = m + 1
          BY <3>4, <4>1, <4>2
        <4>3. CASE j \in 1 .. m
          <5>1. q[j] = p[j] /\ p[i] < p[j]
            BY <2>7, <3>4, <3>6, <4>1, <4>3
          <5> QED
            BY <4>1, <5>1
        <4> QED
          BY <4>2, <4>3
      <3>7. FilterAt(u, A, q)
        BY <2>3, <3>1, <3>2, <3>5, <3>6 DEF FilterAt
      <3> QED
        BY <2>1, <3>7
    <2>9. CASE x \notin A
      <3>1. Filter(u, A) = K
        BY <2>1, <2>5, <2>9, FilterAppend
      <3>2. FilterAt(u, A, p)
        <4>1. \A i \in 1 .. m : p[i] \in 1 .. n + 1 /\ K[i] = u[p[i]]
          BY <2>3, <2>7
        <4> QED
          BY <2>3, <2>6, <2>7, <3>1, <4>1 DEF FilterAt
      <3> QED
        BY <2>1, <3>2
    <2> QED
      BY <2>8, <2>9
  <1> HIDE DEF F
  <1>3. Seq(S) \subseteq F
    BY <1>1, <1>2, AppendInduction
  <1> QED
    BY <1>3 DEF F

\* Every element of the set is kept.
LEMMA FilterHas ==
    ASSUME NEW S, NEW s \in Seq(S), NEW A, NEW i \in 1 .. Len(s), s[i] \in A
    PROVE  \E j \in 1 .. Len(Filter(s, A)) : Filter(s, A)[j] = s[i]
  <1> DEFINE B == A \ {s[i]}
  <1> DEFINE F == {t \in Seq(S) : (\A j \in 1 .. Len(Filter(t, A)) : Filter(t, A)[j] # s[i])
                                  => \A j \in 1 .. Len(t) : t[j] # s[i]}
  <1>1. <<>> \in F
    BY EmptySeq
  <1>2. ASSUME NEW t \in Seq(S), NEW x \in S, t \in F PROVE Append(t, x) \in F
    <2>1. PICK u \in Seq(S) : u = Append(t, x)
      BY AppendProperties
    <2>2. PICK n \in Nat : n = Len(t)
      BY LenProperties
    <2>3. Len(u) = n + 1 /\ u[n + 1] = x /\ \A j \in 1 .. n : u[j] = t[j]
      BY <2>1, <2>2, AppendProperties
    <2>4. PICK K \in Seq(S) : K = Filter(t, A)
      BY FilterType
    <2>5. PICK m \in Nat : m = Len(K)
      BY LenProperties
    <2>6. SUFFICES ASSUME \A j \in 1 .. Len(Filter(u, A)) : Filter(u, A)[j] # s[i]
                   PROVE  \A j \in 1 .. n + 1 : u[j] # s[i]
      BY <2>1, <2>3
    <2>7. /\ Len(Append(K, x)) = m + 1 /\ Append(K, x)[m + 1] = x
          /\ \A j \in 1 .. m : Append(K, x)[j] = K[j]
      BY <2>5, AppendProperties
    <2>8. \A j \in 1 .. m : K[j] # s[i]
      <3>1. CASE x \in A
        <4>1. Filter(u, A) = Append(K, x)
          BY <2>1, <2>4, <3>1, FilterAppend
        <4> QED
          BY <2>6, <2>7, <4>1
      <3>2. CASE x \notin A
        <4>1. Filter(u, A) = K
          BY <2>1, <2>4, <3>2, FilterAppend
        <4> QED
          BY <2>5, <2>6, <4>1
      <3> QED
        BY <3>1, <3>2
    <2>9. \A j \in 1 .. n : t[j] # s[i]
      BY <1>2, <2>2, <2>4, <2>5, <2>8
    <2>10. x # s[i]
      <3>1. SUFFICES ASSUME x = s[i] PROVE FALSE
        OBVIOUS
      <3>2. Filter(u, A) = Append(K, x)
        BY <2>1, <2>4, <3>1, FilterAppend
      <3>3. Len(Filter(u, A)) = m + 1 /\ Filter(u, A)[m + 1] = x
        BY <2>7, <3>2
      <3>4. m + 1 \in 1 .. Len(Filter(u, A))
        BY <3>3
      <3>5. Filter(u, A)[m + 1] # s[i]
        BY <2>6, <3>4
      <3> QED
        BY <3>1, <3>3, <3>5
    <2>11. \A j \in 1 .. n + 1 : j \in 1 .. n \/ j = n + 1
      OBVIOUS
    <2> QED
      BY <2>3, <2>9, <2>10, <2>11
  <1> HIDE DEF F
  <1>3. Seq(S) \subseteq F
    BY <1>1, <1>2, AppendInduction
  <1> QED
    BY <1>3 DEF F

-----------------------------------------------------------------------------
(* Sums of sequences of numbers.                                           *)

LEMMA SeqSumIs ==
    ASSUME NEW f \in Seq(Nat)
    PROVE  SumFunction(f) = SumFunctionOnSet(f, 1 .. Len(f)) /\ SumFunction(f) \in Nat
  <1>1. DOMAIN f = 1 .. Len(f) /\ Len(f) \in Nat /\ \A i \in 1 .. Len(f) : f[i] \in Nat
    BY LenProperties
  <1>2. IsFiniteSet(1 .. Len(f))
    BY <1>1, FS_Interval
  <1>3. SumFunction(f) = SumFunctionOnSet(f, 1 .. Len(f))
    BY <1>1 DEF SumFunction
  <1> QED
    BY <1>1, <1>2, <1>3, SumType

LEMMA SeqSumEmpty == SumFunction(<<>>) = 0
  <1>1. <<>> \in Seq(Nat) /\ 1 .. Len(<<>>) = {}
    BY EmptySeq
  <1>2. SumFunction(<<>>) = SumFunctionOnSet(<<>>, {})
    BY <1>1, SeqSumIs
  <1> QED
    BY <1>2, FS_EmptySet, SumUnfolds

LEMMA SeqSumAppend ==
    ASSUME NEW f \in Seq(Nat), NEW x \in Nat
    PROVE  SumFunction(Append(f, x)) = SumFunction(f) + x
  <1>1. PICK g \in Seq(Nat) : g = Append(f, x)
    BY AppendProperties
  <1>2. PICK n \in Nat : n = Len(f)
    BY LenProperties
  <1>3. PICK m \in Nat : m = n + 1
    OBVIOUS
  <1>4. Len(g) = m /\ g[m] = x /\ \A i \in 1 .. n : g[i] = f[i]
    BY <1>1, <1>2, <1>3, AppendProperties
  <1>5. SumFunction(g) = SumFunctionOnSet(g, 1 .. m) /\ SumFunction(f) = SumFunctionOnSet(f, 1 .. n)
    BY <1>2, <1>4, SeqSumIs
  <1>6. PICK S : S = 1 .. m
    OBVIOUS
  <1>7. m \in S /\ S \ {m} = 1 .. n
    BY <1>3, <1>6
  <1>8. IsFiniteSet(S) /\ IsFiniteSet(1 .. n)
    BY <1>6, FS_Interval
  <1>9. \A i \in S : g[i] \in Nat
    BY <1>4, <1>6, ElementOfSeq
  <1>10. SumFunctionOnSet(g, S) = g[m] + SumFunctionOnSet(g, S \ {m})
    BY <1>7, <1>8, <1>9, SumTakesOff
  <1>11. SumFunctionOnSet(g, 1 .. n) = SumFunctionOnSet(f, 1 .. n)
    BY <1>4, <1>8, SumAgrees
  <1>12. SumFunction(f) \in Nat
    BY SeqSumIs
  <1>13. SumFunctionOnSet(g, S \ {m}) = SumFunction(f)
    BY <1>5, <1>7, <1>11
  <1>14. SumFunction(g) = x + SumFunction(f)
    BY <1>4, <1>5, <1>6, <1>10, <1>13
  <1>15. x + SumFunction(f) = SumFunction(f) + x
    BY <1>12
  <1> QED
    BY <1>1, <1>14, <1>15

LEMMA SeqSumConcat ==
    ASSUME NEW f \in Seq(Nat), NEW g \in Seq(Nat)
    PROVE  SumFunction(f \o g) = SumFunction(f) + SumFunction(g)
  <1> DEFINE F == {h \in Seq(Nat) : SumFunction(f \o h) = SumFunction(f) + SumFunction(h)}
  <1>0. SumFunction(f) \in Nat
    BY SeqSumIs
  <1>1. <<>> \in F
    <2>1. <<>> \in Seq(Nat) /\ f \o <<>> = f
      BY EmptySeq, ConcatEmptySeq
    <2> QED
      BY <1>0, <2>1, SeqSumEmpty
  <1>2. ASSUME NEW h \in Seq(Nat), NEW x \in Nat, h \in F PROVE Append(h, x) \in F
    <2>1. PICK v \in Seq(Nat) : v = f \o h
      BY ConcatProperties
    <2>2. AppendsLast(f, h, x)
      BY AppendToConcat
    <2>3. f \o Append(h, x) = Append(v, x)
      BY <2>1, <2>2 DEF AppendsLast
    <2>4. SumFunction(Append(v, x)) = SumFunction(v) + x
      BY SeqSumAppend
    <2>5. SumFunction(Append(h, x)) = SumFunction(h) + x
      BY SeqSumAppend
    <2>6. SumFunction(v) = SumFunction(f) + SumFunction(h) /\ SumFunction(h) \in Nat
      BY <1>2, <2>1, SeqSumIs
    <2>7. SumFunction(f \o Append(h, x)) = SumFunction(f) + SumFunction(Append(h, x))
      BY <1>0, <2>3, <2>4, <2>5, <2>6
    <2> QED
      BY <2>7, AppendProperties
  <1> HIDE DEF F
  <1>3. Seq(Nat) \subseteq F
    BY <1>1, <1>2, AppendInduction
  <1> QED
    BY <1>3 DEF F

-----------------------------------------------------------------------------
(* Recursion along a rank.  The function step[f] is what the defining       *)
(* equation makes of f; when it looks only at values of a smaller rank, the *)
(* equation has a solution.                                                 *)
Recursion(D, V, n, rank, step) ==
    /\ n \in Nat /\ rank \in [D -> 0 .. n]
    /\ [D -> V] # {} /\ step \in [[D -> V] -> [D -> V]]
    /\ \A f, g \in [D -> V] : \A x \in D :
         (\A y \in D : rank[y] < rank[x] => f[y] = g[y]) => step[f][x] = step[g][x]

LEMMA RankedRecursion ==
    ASSUME NEW D, NEW V, NEW n, NEW rank, NEW step, Recursion(D, V, n, rank, step)
    PROVE  \E f \in [D -> V] : f = step[f]
  <1> DEFINE F == {k \in Nat : \E f \in [D -> V] : \A x \in D : rank[x] < k => f[x] = step[f][x]}
  <1>0. n \in Nat /\ \A x \in D : rank[x] \in Nat /\ rank[x] <= n
    BY DEF Recursion
  <1>1. 0 \in F
    <2>1. PICK f \in [D -> V] : TRUE
      BY DEF Recursion
    <2>2. \A x \in D : ~(rank[x] < 0)
      BY <1>0
    <2> QED
      BY <2>1, <2>2
  <1>2. ASSUME NEW k \in 0 .. n, k \in F PROVE k + 1 \in F
    <2>1. PICK f \in [D -> V] : \A x \in D : rank[x] < k => f[x] = step[f][x]
      BY <1>2
    <2>2. PICK g \in [D -> V] : g = step[f]
      BY DEF Recursion
    <2>3. ASSUME NEW x \in D, rank[x] < k + 1 PROVE g[x] = step[g][x]
      <3>1. ASSUME NEW y \in D, rank[y] < rank[x] PROVE f[y] = g[y]
        <4>1. rank[y] < k
          BY <1>0, <2>3, <3>1
        <4> QED
          BY <2>1, <2>2, <4>1
      <3>2. step[f][x] = step[g][x]
        BY <3>1 DEF Recursion
      <3> QED
        BY <2>2, <3>2
    <2> QED
      BY <2>3
  <1> HIDE DEF F
  <1>3. PICK m \in Nat : m = n + 1
    BY <1>0
  <1>4. m \in F
    <2>1. \A k \in 0 .. m - 1 : k \in F => k + 1 \in F
      <3>1. \A k \in 0 .. m - 1 : k \in 0 .. n
        BY <1>0, <1>3
      <3> QED
        BY <1>2, <3>1
    <2>2. \A k \in 0 .. m : k \in F
      BY <1>1, <1>3, <2>1, CountInduction
    <2> QED
      BY <1>3, <2>2
  <1>5. PICK f \in [D -> V] : \A x \in D : rank[x] < n + 1 => f[x] = step[f][x]
    BY <1>3, <1>4 DEF F
  <1>6. \A x \in D : f[x] = step[f][x]
    BY <1>0, <1>5
  <1>7. step[f] \in [D -> V]
    BY DEF Recursion
  <1> QED
    BY <1>6, <1>7

=============================================================================
