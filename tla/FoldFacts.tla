------------------------------- MODULE FoldFacts ------------------------------
(***************************************************************************)
(* Facts about numbers, finite sets and folds that the proofs of several   *)
(* models need: induction over intervals and subsets, least and greatest   *)
(* numbers, shares of a whole, that a fold over a finite set exists, and   *)
(* the sums of functions over finite sets.                                 *)
(***************************************************************************)
EXTENDS Integers, Sequences, FiniteSets, Functions, FiniteSetTheorems, WellFoundedInduction, TLAPS

-----------------------------------------------------------------------------
(* Numbers.                                                                *)

LEMMA LeastNatural ==
  ASSUME NEW S \in SUBSET Nat, S # {}
  PROVE  \E x \in S : \A y \in S : x <= y
<1>1. \E x \in S : \A y \in S : ~(<<y, x>> \in OpToRel(<, Nat))
  BY WFMin, NatLessThanWellFounded
<1>2. PICK x \in S : \A y \in S : ~(<<y, x>> \in OpToRel(<, Nat))
  BY <1>1
<1>3. \A y \in S : ~(y < x)
  BY <1>2 DEF OpToRel
<1>4. QED
  BY <1>3

LEMMA GreatestBounded ==
  ASSUME NEW S \in SUBSET Nat, S # {}, NEW b \in Nat, \A x \in S : x <= b
  PROVE  \E x \in S : \A y \in S : x >= y
<1> DEFINE U == {u \in Nat : \A x \in S : x <= u}
<1>1. U \in SUBSET Nat /\ U # {}
  OBVIOUS
<1>2. PICK u \in U : \A v \in U : u <= v
  <2> HIDE DEF U
  <2> QED BY <1>1, LeastNatural
<1>3. u \in S
  <2>1. SUFFICES ASSUME u \notin S PROVE FALSE
    OBVIOUS
  <2>2. \A x \in S : x <= u - 1
    BY <2>1
  <2>3. u - 1 \in Nat
    <3>1. PICK x \in S : TRUE
      OBVIOUS
    <3>2. QED
      BY <2>2, <3>1
  <2>4. u - 1 \in U
    BY <2>2, <2>3
  <2>5. QED
    BY <1>2, <2>4
<1>4. QED
  BY <1>3

\* Euclid's division, in the form the provers use it.
LEMMA Division ==
    ASSUME NEW a \in Nat, NEW b \in Nat \ {0}
    PROVE  /\ a \div b \in Nat
           /\ b * (a \div b) <= a
           /\ a < b * (a \div b) + b
OBVIOUS

\* A product grows with its factor.
LEMMA Scaled ==
    ASSUME NEW b \in Nat \ {0}, NEW i \in Int, NEW k \in Int
    PROVE  /\ b * i \in Int
           /\ i <= k => b * i <= b * k
           /\ i < k => b * i + b <= b * k
           /\ b * i = b * k => i = k
           /\ b * (i + k) = b * i + b * k
           /\ b * (i - k) = b * i - b * k
           /\ b * 0 = 0 /\ b * 1 = b
OBVIOUS

\* The share of a part in a whole, rounded down.
LEMMA Share ==
    ASSUME NEW c \in Nat, NEW q \in Nat \ {0}, NEW k \in 0 .. q
    PROVE  /\ (c * k) \div q \in 0 .. c
           /\ k = q => (c * k) \div q = c
           /\ k < q /\ c > 0 => (c * k) \div q < c
           /\ k = 0 => (c * k) \div q = 0
OBVIOUS

\* Induction up to a number: Good is the set of those that satisfy what is to be shown.
LEMMA IntervalInduction ==
    ASSUME NEW n \in Nat, NEW Good, 0 \in Good,
           \A k \in 1 .. n : k - 1 \in Good => k \in Good
    PROVE  \A k \in 0 .. n : k \in Good
<1> DEFINE Bad == {k \in 0 .. n : k \notin Good}
<1>1. SUFFICES ASSUME Bad # {} PROVE FALSE
  OBVIOUS
<1>2. PICK k \in Bad : \A m \in Bad : k <= m
  <2>1. Bad \in SUBSET Nat
    OBVIOUS
  <2> HIDE DEF Bad
  <2>2. QED
    BY <1>1, <2>1, LeastNatural
<1>3. k \in 1 .. n /\ k - 1 \in 0 .. n
  OBVIOUS
<1>4. k - 1 \in Good
  BY <1>2, <1>3
<1>5. QED
  BY <1>3, <1>4

-----------------------------------------------------------------------------
(* Finite sets.                                                            *)

\* Induction over the subsets of a finite set: Good is the set of those that satisfy
\* what is to be shown.
LEMMA SubsetInduction ==
    ASSUME NEW S, IsFiniteSet(S), NEW Good \in SUBSET SUBSET S,
           \A T \in SUBSET S : (\A U \in SUBSET T : U # T => U \in Good) => T \in Good
    PROVE  S \in Good
<1> DEFINE Bad == (SUBSET S) \ Good
           Less == StrictSubsetOrdering(S)
<1>1. SUFFICES ASSUME S \notin Good PROVE FALSE
  OBVIOUS
<1>2. IsWellFoundedOn(Less, SUBSET S)
  BY FS_StrictSubsetOrderingWellFounded, FS_FiniteSubsetsOfFinite
<1>3. Bad \subseteq SUBSET S /\ Bad # {}
  BY <1>1
<1>4. PICK T \in Bad : \A U \in Bad : ~(<<U, T>> \in Less)
  <2> HIDE DEF Bad, Less
  <2>1. QED
    BY <1>2, <1>3, WFMin
<1>5. \A U \in SUBSET T : U # T => U \in Good
  BY <1>4 DEF StrictSubsetOrdering
<1>6. QED
  BY <1>4, <1>5

\* An image has as many elements as the set if no two of its elements have the same one.
LEMMA ImageSize ==
    ASSUME NEW S, IsFiniteSet(S), NEW f, NEW T, T = {f[x] : x \in S},
           \A x, y \in S : f[x] = f[y] => x = y
    PROVE  IsFiniteSet(T) /\ Cardinality(T) = Cardinality(S)
<1> DEFINE g == [x \in S |-> f[x]]
<1>1. g \in Bijection(S, T)
  BY DEF Bijection, Injection, Surjection, IsInjective
<1>2. ExistsBijection(S, T)
  BY <1>1 DEF ExistsBijection
<1>3. QED
  BY <1>2, FS_Bijection

\* The rank of a number in a set: how many of the set are less.
Rank(S, i) == Cardinality({j \in S : j < i})

LEMMA RankFacts ==
    ASSUME NEW S \in SUBSET Int, IsFiniteSet(S)
    PROVE  /\ Cardinality(S) \in Nat
           /\ \A i \in S : Rank(S, i) \in Nat /\ Rank(S, i) < Cardinality(S)
           /\ \A i, j \in S : i < j => Rank(S, i) < Rank(S, j)
           /\ \A i, j \in S : Rank(S, i) = Rank(S, j) => i = j
<1> DEFINE Below(i) == {j \in S : j < i}
<1>1. Cardinality(S) \in Nat
  BY FS_CardinalityType
<1>2. \A i \in S : IsFiniteSet(Below(i)) /\ Cardinality(Below(i)) \in Nat
  BY FS_Subset, FS_CardinalityType
<1>3. \A i \in S : Cardinality(Below(i)) <= Cardinality(S) /\ Cardinality(Below(i)) # Cardinality(S)
  <2>1. \A i \in S : Below(i) \in SUBSET S /\ Below(i) # S
    OBVIOUS
  <2> HIDE DEF Below
  <2>2. QED
    BY <2>1, FS_Subset
<1>4. \A i, j \in S : i < j => Cardinality(Below(i)) < Cardinality(Below(j))
  <2>1. \A i, j \in S : i < j => Below(i) \in SUBSET Below(j) /\ i \in Below(j) /\ i \notin Below(i)
    <3>1. \A i, j, k \in S : k < i /\ i < j => k < j
      OBVIOUS
    <3>2. \A i \in S : ~(i < i)
      OBVIOUS
    <3>3. QED
      BY <3>1, <3>2
  <2> HIDE DEF Below
  <2>2. \A i, j \in S : i < j => /\ Cardinality(Below(i)) <= Cardinality(Below(j))
                                 /\ Cardinality(Below(i)) # Cardinality(Below(j))
    BY <1>2, <2>1, FS_Subset
  <2>3. QED
    BY <1>2, <2>2
<1>5. \A i \in S : Rank(S, i) = Cardinality(Below(i))
  BY DEF Rank
<1> HIDE DEF Below
<1>6. \A i, j \in S : i < j => Rank(S, i) < Rank(S, j)
  BY <1>4, <1>5
<1>7. \A i \in S : Rank(S, i) \in Nat /\ Rank(S, i) < Cardinality(S)
  BY <1>1, <1>2, <1>3, <1>5
<1>8. ASSUME NEW i \in S, NEW j \in S, Rank(S, i) = Rank(S, j)
      PROVE  i = j
  <2>1. i \in Int /\ j \in Int
    OBVIOUS
  <2>2. ~(i < j) /\ ~(j < i)
    BY <1>6, <1>7, <1>8
  <2>3. QED
    BY <2>1, <2>2
<1>9. QED
  BY <1>1, <1>6, <1>7, <1>8

-----------------------------------------------------------------------------
(* A fold over a finite set, as the community modules define it: take the  *)
(* element that next picks last, fold the rest before it.                  *)

Folds(h, S, base, step, next) ==
    \A s \in SUBSET S : h[s] = IF s = {} THEN base ELSE step[s][h[s \ {next[s]}]]

\* Two functions that fold alike agree, wherever both are defined.
LEMMA FoldUnique ==
    ASSUME NEW S, IsFiniteSet(S), NEW base, NEW step, NEW next,
           \A s \in SUBSET S : s # {} => next[s] \in s,
           NEW h, Folds(h, S, base, step, next), NEW g, Folds(g, S, base, step, next)
    PROVE  h[S] = g[S]
<1> DEFINE Good == {T \in SUBSET S : h[T] = g[T]}
<1>1. ASSUME NEW T \in SUBSET S, \A U \in SUBSET T : U # T => U \in Good
      PROVE  T \in Good
  <2>1. /\ h[T] = IF T = {} THEN base ELSE step[T][h[T \ {next[T]}]]
        /\ g[T] = IF T = {} THEN base ELSE step[T][g[T \ {next[T]}]]
    BY DEF Folds
  <2>2. CASE T = {}
    BY <2>1, <2>2
  <2>3. CASE T # {}
    <3>1. T \ {next[T]} \in SUBSET T /\ T \ {next[T]} # T
      BY <2>3
    <3>2. h[T \ {next[T]}] = g[T \ {next[T]}]
      BY <1>1, <3>1
    <3>3. QED
      BY <2>1, <2>3, <3>2
  <2>4. QED
    BY <2>2, <2>3
<1>2. S \in Good
  <2>1. Good \in SUBSET SUBSET S
    OBVIOUS
  <2> HIDE DEF Good
  <2>2. QED
    BY <1>1, <2>1, SubsetInduction
<1>3. QED
  BY <1>2

\* A step that stays within a set of values has a fold over every finite set.
LEMMA FoldExists ==
    ASSUME NEW S, IsFiniteSet(S), NEW V, NEW base \in V, NEW step, NEW next,
           \A s \in SUBSET S : s # {} => next[s] \in s,
           \A s \in SUBSET S : \A v \in V : s # {} => step[s][v] \in V
    PROVE  \E h \in [SUBSET S -> V] : Folds(h, S, base, step, next)
<1> DEFINE Is(h, T) == h \in [SUBSET T -> V] /\ Folds(h, T, base, step, next)
           Good == {T \in SUBSET S : \E h : Is(h, T)}
<1>1. ASSUME NEW T \in SUBSET S, \A U \in SUBSET T : U # T => U \in Good
      PROVE  T \in Good
  <2> DEFINE At(U) == (CHOOSE h : Is(h, U))[U]
             Less(s) == s \ {next[s]}
             h == [s \in SUBSET T |-> IF s = {} THEN base ELSE step[s][At(Less(s))]]
  <2>1. \A U \in SUBSET T : U # T => Is(CHOOSE h1 : Is(h1, U), U)
    <3>1. \A U \in SUBSET T : U # T => \E h1 : Is(h1, U)
      BY <1>1
    <3> HIDE DEF Is
    <3>2. QED
      BY <3>1
  <2>2. \A U \in SUBSET T : U # T => At(U) \in V
    BY <2>1
  <2>3. \A s \in SUBSET T : s # {} => Less(s) \in SUBSET T /\ Less(s) # T /\ Less(s) # s
    OBVIOUS
  <2>4. ASSUME NEW s \in SUBSET T, s # T
        PROVE  h[s] = At(s)
    <3> DEFINE k == CHOOSE h1 : Is(h1, s)
    <3>1. Is(k, s)
      BY <2>1, <2>4
    <3>2. k[s] = IF s = {} THEN base ELSE step[s][k[Less(s)]]
      BY <3>1 DEF Folds
    <3>3. CASE s = {}
      <4> HIDE DEF k
      <4> QED BY <3>2, <3>3 DEF k
    <3>4. CASE s # {}
      <4> DEFINE U == Less(s)
                 m == CHOOSE h1 : Is(h1, U)
      <4>1. U \in SUBSET s /\ U \in SUBSET T /\ U # T
        BY <2>3, <3>4
      <4>2. Is(m, U)
        BY <2>1, <4>1
      <4>3. IsFiniteSet(U)
        BY <4>1, FS_Subset
      <4>4. Folds(k, U, base, step, next)
        BY <3>1, <4>1 DEF Folds
      <4>5. k[U] = m[U]
        <5> HIDE DEF U, m, k
        <5> QED BY <4>1, <4>2, <4>3, <4>4, FoldUnique
      <4>6. QED
        BY <3>2, <3>4, <4>5
    <3>5. QED
      BY <3>3, <3>4
  <2> HIDE DEF At
  <2>5. h \in [SUBSET T -> V]
    BY <2>2, <2>3
  <2>6. \A s \in SUBSET T : s # {} => h[Less(s)] = At(Less(s))
    <3> HIDE DEF h, Less
    <3> QED BY <2>3, <2>4
  <2>7. Folds(h, T, base, step, next)
    BY <2>6 DEF Folds
  <2>8. QED
    <3> HIDE DEF h
    <3> QED BY <2>5, <2>7
<1>2. S \in Good
  <2>1. Good \in SUBSET SUBSET S
    OBVIOUS
  <2> HIDE DEF Good
  <2>2. QED
    BY <1>1, <2>1, SubsetInduction
<1>3. QED
  BY <1>2

-----------------------------------------------------------------------------
(* The recursive definition of the sum.                                    *)

Pick(s) == CHOOSE x \in s : TRUE

LEMMA PickFacts == ASSUME NEW s, s # {} PROVE Pick(s) \in s
BY DEF Pick

Unfold(h, f, S) == [s \in SUBSET S |-> IF s = {} THEN 0 ELSE f[Pick(s)] + h[s \ {Pick(s)}]]

\* What SumFunctionOnSet chooses.
LEMMA SumChooses ==
    ASSUME NEW f, NEW S
    PROVE  SumFunctionOnSet(f, S) = (CHOOSE h : h = Unfold(h, f, S))[S]
BY DEF SumFunctionOnSet, FoldFunctionOnSet, MapThenFoldSet, Unfold, Pick

\* Two functions that unfold alike agree.
LEMMA UnfoldUnique ==
    ASSUME NEW f, NEW S, IsFiniteSet(S), NEW h, h = Unfold(h, f, S), NEW g, g = Unfold(g, f, S)
    PROVE  h[S] = g[S]
<1> DEFINE Good == {T \in SUBSET S : h[T] = g[T]}
<1>1. ASSUME NEW T \in SUBSET S, \A U \in SUBSET T : U # T => U \in Good
      PROVE  T \in Good
  <2>1. /\ h[T] = IF T = {} THEN 0 ELSE f[Pick(T)] + h[T \ {Pick(T)}]
        /\ g[T] = IF T = {} THEN 0 ELSE f[Pick(T)] + g[T \ {Pick(T)}]
    BY DEF Unfold
  <2>2. CASE T = {}
    BY <2>1, <2>2
  <2>3. CASE T # {}
    <3>1. T \ {Pick(T)} \in SUBSET T /\ T \ {Pick(T)} # T
      BY <2>3, PickFacts
    <3>2. h[T \ {Pick(T)}] = g[T \ {Pick(T)}]
      BY <1>1, <3>1
    <3>3. QED
      BY <2>1, <2>3, <3>2
  <2>4. QED
    BY <2>2, <2>3
<1>2. Good \in SUBSET SUBSET S
  OBVIOUS
<1>3. S \in Good
  <2> HIDE DEF Good
  <2>1. QED
    BY <1>1, <1>2, SubsetInduction
<1>4. QED
  BY <1>3

\* What unfolds over a set sums every subset of it.
LEMMA UnfoldSums ==
    ASSUME NEW f, NEW S, IsFiniteSet(S), NEW h, h = Unfold(h, f, S), NEW T \in SUBSET S
    PROVE  h[T] = SumFunctionOnSet(f, T)
<1> DEFINE k == [s \in SUBSET T |-> h[s]]
           c == CHOOSE j : j = Unfold(j, f, T)
<1>1. k = Unfold(k, f, T)
  <2>1. \A s \in SUBSET T : h[s] = IF s = {} THEN 0 ELSE f[Pick(s)] + h[s \ {Pick(s)}]
    BY DEF Unfold
  <2>2. \A s \in SUBSET T : s \ {Pick(s)} \in SUBSET T
    OBVIOUS
  <2>3. QED
    BY <2>1, <2>2 DEF Unfold
<1>2. c = Unfold(c, f, T)
  <2> HIDE DEF k
  <2>1. \E j : j = Unfold(j, f, T)
    BY <1>1
  <2>2. QED
    BY <2>1
<1>3. IsFiniteSet(T)
  BY FS_Subset
<1>4. k[T] = h[T]
  OBVIOUS
<1>5. SumFunctionOnSet(f, T) = c[T]
  BY SumChooses
<1> HIDE DEF k, c
<1>6. QED
  BY <1>1, <1>2, <1>3, <1>4, <1>5, UnfoldUnique

\* Over a finite set there is a function that unfolds.
LEMMA UnfoldExists ==
    ASSUME NEW f, NEW S, IsFiniteSet(S)
    PROVE  \E h : h = Unfold(h, f, S)
<1> DEFINE Good == {T \in SUBSET S : \E h : h = Unfold(h, f, T)}
<1>1. ASSUME NEW T \in SUBSET S, \A U \in SUBSET T : U # T => U \in Good
      PROVE  T \in Good
  <2> DEFINE Sum(U) == SumFunctionOnSet(f, U)
             h == [s \in SUBSET T |-> IF s = {} THEN 0 ELSE f[Pick(s)] + Sum(s \ {Pick(s)})]
  <2>1. ASSUME NEW U \in SUBSET T, U # T
        PROVE  h[U] = Sum(U)
    <3>1. PICK k : k = Unfold(k, f, U)
      BY <1>1, <2>1
    <3>2. IsFiniteSet(U)
      BY <1>1, FS_Subset
    <3>3. k[U] = IF U = {} THEN 0 ELSE f[Pick(U)] + k[U \ {Pick(U)}]
      BY <3>1 DEF Unfold
    <3>4. k[U] = Sum(U) /\ k[U \ {Pick(U)}] = Sum(U \ {Pick(U)})
      <4>1. U \ {Pick(U)} \in SUBSET U /\ U \in SUBSET U
        OBVIOUS
      <4>2. QED
        BY <3>1, <3>2, <4>1, UnfoldSums
    <3>5. QED
      BY <3>3, <3>4
  <2>2. \A s \in SUBSET T : s # {} => h[s \ {Pick(s)}] = Sum(s \ {Pick(s)})
    <3>1. \A s \in SUBSET T : s # {} => s \ {Pick(s)} \in SUBSET T /\ s \ {Pick(s)} # T
      BY PickFacts
    <3> HIDE DEF h, Sum
    <3>2. QED
      BY <2>1, <3>1
  <2> HIDE DEF Sum
  <2>3. h = Unfold(h, f, T)
    BY <2>2 DEF Unfold
  <2>4. QED
    <3> HIDE DEF h
    <3>1. \E j : j = Unfold(j, f, T)
      BY <2>3
    <3>2. QED
      BY <3>1
<1>2. Good \in SUBSET SUBSET S
  OBVIOUS
<1>3. S \in Good
  <2> HIDE DEF Good
  <2>1. QED
    BY <1>1, <1>2, SubsetInduction
<1>4. QED
  BY <1>3

\* The recursive equation of the sum.
LEMMA SumUnfolds ==
    ASSUME NEW f, NEW S, IsFiniteSet(S)
    PROVE  SumFunctionOnSet(f, S) =
               IF S = {} THEN 0 ELSE f[Pick(S)] + SumFunctionOnSet(f, S \ {Pick(S)})
<1>1. PICK h : h = Unfold(h, f, S)
  BY UnfoldExists
<1>2. h[S] = IF S = {} THEN 0 ELSE f[Pick(S)] + h[S \ {Pick(S)}]
  BY <1>1 DEF Unfold
<1>3. \A T \in SUBSET S : h[T] = SumFunctionOnSet(f, T)
  BY <1>1, UnfoldSums
<1>4. h[S] = SumFunctionOnSet(f, S) /\ h[S \ {Pick(S)}] = SumFunctionOnSet(f, S \ {Pick(S)})
  BY <1>3
<1>5. QED
  BY <1>2, <1>4

-----------------------------------------------------------------------------
(* What the models use of it.                                              *)

LEMMA SumOfNone == ASSUME NEW f PROVE SumFunctionOnSet(f, {}) = 0
BY SumUnfolds, FS_EmptySet

\* A sum of naturals is a natural.
LEMMA SumIsNat ==
    ASSUME NEW f, NEW S, IsFiniteSet(S), \A x \in S : f[x] \in Nat
    PROVE  SumFunctionOnSet(f, S) \in Nat
<1> DEFINE Sum(T) == SumFunctionOnSet(f, T)
           Good == {T \in SUBSET S : Sum(T) \in Nat}
<1>1. ASSUME NEW T \in SUBSET S, \A U \in SUBSET T : U # T => U \in Good
      PROVE  T \in Good
  <2>1. IsFiniteSet(T)
    BY FS_Subset
  <2>2. Sum(T) = IF T = {} THEN 0 ELSE f[Pick(T)] + Sum(T \ {Pick(T)})
    BY <2>1, SumUnfolds
  <2>3. CASE T = {}
    BY <2>2, <2>3
  <2>4. CASE T # {}
    <3>1. Pick(T) \in T /\ T \ {Pick(T)} \in SUBSET T /\ T \ {Pick(T)} # T
      BY <2>4, PickFacts
    <3>2. T \ {Pick(T)} \in Good
      BY <1>1, <3>1
    <3>3. Sum(T \ {Pick(T)}) \in Nat /\ f[Pick(T)] \in Nat
      BY <3>1, <3>2
    <3> HIDE DEF Sum
    <3>4. QED
      BY <2>2, <2>4, <3>3
  <2>5. QED
    BY <2>3, <2>4
<1>2. Good \in SUBSET SUBSET S
  OBVIOUS
<1>3. S \in Good
  <2> HIDE DEF Good
  <2>1. QED
    BY <1>1, <1>2, SubsetInduction
<1>4. QED
  BY <1>3

\* A sum of integers is an integer.
LEMMA SumIsInt ==
    ASSUME NEW f, NEW S, IsFiniteSet(S), \A x \in S : f[x] \in Int
    PROVE  SumFunctionOnSet(f, S) \in Int
<1> DEFINE Sum(T) == SumFunctionOnSet(f, T)
           Good == {T \in SUBSET S : Sum(T) \in Int}
<1>1. ASSUME NEW T \in SUBSET S, \A U \in SUBSET T : U # T => U \in Good
      PROVE  T \in Good
  <2>1. IsFiniteSet(T)
    BY FS_Subset
  <2>2. Sum(T) = IF T = {} THEN 0 ELSE f[Pick(T)] + Sum(T \ {Pick(T)})
    BY <2>1, SumUnfolds
  <2>3. CASE T = {}
    BY <2>2, <2>3
  <2>4. CASE T # {}
    <3>1. Pick(T) \in T /\ T \ {Pick(T)} \in SUBSET T /\ T \ {Pick(T)} # T
      BY <2>4, PickFacts
    <3>2. T \ {Pick(T)} \in Good
      BY <1>1, <3>1
    <3>3. Sum(T \ {Pick(T)}) \in Int /\ f[Pick(T)] \in Int
      BY <3>1, <3>2
    <3> HIDE DEF Sum
    <3>4. QED
      BY <2>2, <2>4, <3>3
  <2>5. QED
    BY <2>3, <2>4
<1>2. Good \in SUBSET SUBSET S
  OBVIOUS
<1>3. S \in Good
  <2> HIDE DEF Good
  <2>1. QED
    BY <1>1, <1>2, SubsetInduction
<1>4. QED
  BY <1>3

\* The sum looks only at the elements of its set.
LEMMA SumAgrees ==
    ASSUME NEW f, NEW g, NEW S, IsFiniteSet(S), \A x \in S : f[x] = g[x]
    PROVE  SumFunctionOnSet(f, S) = SumFunctionOnSet(g, S)
<1> DEFINE F(T) == SumFunctionOnSet(f, T)
           G(T) == SumFunctionOnSet(g, T)
           Good == {T \in SUBSET S : F(T) = G(T)}
<1>1. ASSUME NEW T \in SUBSET S, \A U \in SUBSET T : U # T => U \in Good
      PROVE  T \in Good
  <2>1. IsFiniteSet(T)
    BY FS_Subset
  <2>2. /\ F(T) = IF T = {} THEN 0 ELSE f[Pick(T)] + F(T \ {Pick(T)})
        /\ G(T) = IF T = {} THEN 0 ELSE g[Pick(T)] + G(T \ {Pick(T)})
    BY <2>1, SumUnfolds
  <2>3. CASE T = {}
    BY <2>2, <2>3
  <2>4. CASE T # {}
    <3>1. Pick(T) \in T /\ T \ {Pick(T)} \in SUBSET T /\ T \ {Pick(T)} # T
      BY <2>4, PickFacts
    <3>2. T \ {Pick(T)} \in Good
      BY <1>1, <3>1
    <3>3. F(T \ {Pick(T)}) = G(T \ {Pick(T)}) /\ f[Pick(T)] = g[Pick(T)]
      BY <3>1, <3>2
    <3> HIDE DEF F, G
    <3>4. QED
      BY <2>2, <2>4, <3>3
  <2>5. QED
    BY <2>3, <2>4
<1>2. Good \in SUBSET SUBSET S
  OBVIOUS
<1>3. S \in Good
  <2> HIDE DEF Good
  <2>1. QED
    BY <1>1, <1>2, SubsetInduction
<1>4. QED
  BY <1>3

\* A new element adds its value.
LEMMA SumAdds ==
    ASSUME NEW f, NEW S, IsFiniteSet(S), NEW e, e \notin S, \A x \in S \cup {e} : f[x] \in Int
    PROVE  SumFunctionOnSet(f, S \cup {e}) = SumFunctionOnSet(f, S) + f[e]
<1> DEFINE D == S \cup {e}
           Sum(T) == SumFunctionOnSet(f, T)
           Good == {T \in SUBSET D : \A x \in D \ T : Sum(T \cup {x}) = Sum(T) + f[x]}
<1>1. IsFiniteSet(D) /\ \A x \in D : f[x] \in Int
  BY FS_AddElement
<1> HIDE DEF D
<1>2. \A T \in SUBSET D : IsFiniteSet(T) /\ Sum(T) \in Int
  <2>1. \A T \in SUBSET D : IsFiniteSet(T) /\ \A x \in T : f[x] \in Int
    BY <1>1, FS_Subset
  <2>2. QED
    BY <2>1, SumIsInt
<1>3. \A T \in SUBSET D : T # {} =>
          Pick(T) \in T /\ Sum(T) = f[Pick(T)] + Sum(T \ {Pick(T)})
  BY <1>2, SumUnfolds, PickFacts
<1> HIDE DEF Sum
<1>4. ASSUME NEW T \in SUBSET D, \A U \in SUBSET T : U # T => U \in Good, NEW x \in D \ T
      PROVE  Sum(T \cup {x}) = Sum(T) + f[x]
  <2> DEFINE c == Pick(T \cup {x})
  <2>1. c \in T \cup {x} /\ Sum(T \cup {x}) = f[c] + Sum((T \cup {x}) \ {c})
    <3>1. T \cup {x} \in SUBSET D /\ T \cup {x} # {}
      OBVIOUS
    <3>2. QED
      BY <1>3, <3>1
  <2>2. Sum(T) \in Int /\ f[x] \in Int /\ f[c] \in Int
    BY <1>1, <1>2, <2>1
  <2> HIDE DEF c
  <2>3. CASE c = x
    <3>1. (T \cup {x}) \ {c} = T
      BY <2>3
    <3>2. Sum((T \cup {x}) \ {c}) = Sum(T)
      BY <3>1, Zenon
    <3>3. QED
      BY <2>1, <2>2, <2>3, <3>2
  <2>4. CASE c # x
    <3> DEFINE R == T \ {c}
    <3>1. c \in T /\ R \in SUBSET T /\ R # T /\ R \cup {c} = T /\ (T \cup {x}) \ {c} = R \cup {x}
      BY <2>1, <2>4
    <3>2. R \in Good /\ c \in D \ R /\ x \in D \ R
      BY <1>4, <3>1
    <3>3. Sum(R \cup {c}) = Sum(R) + f[c] /\ Sum(R \cup {x}) = Sum(R) + f[x]
      BY <3>2
    <3>4. Sum(R) \in Int
      BY <1>2, <3>1
    <3>5. Sum((T \cup {x}) \ {c}) = Sum(R \cup {x}) /\ Sum(T) = Sum(R \cup {c})
      BY <3>1, Zenon
    <3> HIDE DEF R
    <3>6. QED
      BY <2>1, <2>2, <3>3, <3>4, <3>5
  <2>5. QED
    BY <2>3, <2>4
<1>5. Good \in SUBSET SUBSET D
  OBVIOUS
<1>6. D \in SUBSET D /\ S \in SUBSET D /\ e \in D \ S
  BY DEF D
<1>7. S \in Good
  <2>1. \A T \in SUBSET S : (\A U \in SUBSET T : U # T => U \in Good) => T \in Good
    BY <1>4, <1>6
  <2> DEFINE GoodS == Good \cap SUBSET S
  <2>2. \A T \in SUBSET S : (\A U \in SUBSET T : U # T => U \in GoodS) => T \in GoodS
    <3> HIDE DEF Good
    <3>1. QED
      BY <2>1
  <2>3. GoodS \in SUBSET SUBSET S
    OBVIOUS
  <2>4. S \in GoodS
    <3> HIDE DEF GoodS
    <3>1. QED
      BY <2>2, <2>3, SubsetInduction
  <2>5. QED
    BY <2>4
<1>8. Sum(S \cup {e}) = Sum(S) + f[e]
  BY <1>6, <1>7
<1>9. QED
  BY <1>8 DEF Sum

\* The sum of two functions, of zeros, and of a function that differs in one place.
LEMMA SumPlus ==
    ASSUME NEW f, NEW g, NEW h, NEW S, IsFiniteSet(S),
           \A x \in S : f[x] \in Int /\ g[x] \in Int /\ h[x] = f[x] + g[x]
    PROVE  SumFunctionOnSet(h, S) = SumFunctionOnSet(f, S) + SumFunctionOnSet(g, S)
<1> DEFINE F(T) == SumFunctionOnSet(f, T)
           G(T) == SumFunctionOnSet(g, T)
           H(T) == SumFunctionOnSet(h, T)
           Good == {T \in SUBSET S : H(T) = F(T) + G(T)}
<1>0. \A T \in SUBSET S : IsFiniteSet(T) /\ F(T) \in Int /\ G(T) \in Int
  <2>1. \A T \in SUBSET S : IsFiniteSet(T) /\ \A x \in T : f[x] \in Int /\ g[x] \in Int
    BY FS_Subset
  <2>2. QED
    BY <2>1, SumIsInt
<1>1. ASSUME NEW T \in SUBSET S, \A U \in SUBSET T : U # T => U \in Good
      PROVE  T \in Good
  <2>1. /\ F(T) = IF T = {} THEN 0 ELSE f[Pick(T)] + F(T \ {Pick(T)})
        /\ G(T) = IF T = {} THEN 0 ELSE g[Pick(T)] + G(T \ {Pick(T)})
        /\ H(T) = IF T = {} THEN 0 ELSE h[Pick(T)] + H(T \ {Pick(T)})
    BY <1>0, SumUnfolds
  <2>2. CASE T = {}
    BY <2>1, <2>2
  <2>3. CASE T # {}
    <3> DEFINE U == T \ {Pick(T)}
    <3>1. Pick(T) \in T /\ U \in SUBSET T /\ U # T
      BY <2>3, PickFacts
    <3>2. H(U) = F(U) + G(U)
      BY <1>1, <3>1
    <3>3. F(U) \in Int /\ G(U) \in Int
      BY <1>0, <3>1
    <3>4. f[Pick(T)] \in Int /\ g[Pick(T)] \in Int /\ h[Pick(T)] = f[Pick(T)] + g[Pick(T)]
      BY <3>1
    <3> HIDE DEF F, G, H
    <3>5. QED
      BY <2>1, <2>3, <3>2, <3>3, <3>4
  <2>4. QED
    BY <2>2, <2>3
<1>2. Good \in SUBSET SUBSET S
  OBVIOUS
<1>3. S \in Good
  <2> HIDE DEF Good
  <2>1. QED
    BY <1>1, <1>2, SubsetInduction
<1>4. QED
  BY <1>3

LEMMA SumOfZeros ==
    ASSUME NEW f, NEW S, IsFiniteSet(S), \A x \in S : f[x] = 0
    PROVE  SumFunctionOnSet(f, S) = 0
<1>1. \A x \in S : f[x] \in Int /\ f[x] = f[x] + f[x]
  OBVIOUS
<1> DEFINE sum == SumFunctionOnSet(f, S)
<1>2. sum \in Int
  BY <1>1, SumIsInt
<1>3. sum = sum + sum
  BY <1>1, SumPlus
<1> HIDE DEF sum
<1>4. sum = 0
  BY <1>2, <1>3
<1>5. QED
  BY <1>4 DEF sum

LEMMA SumUpdates ==
    ASSUME NEW f, NEW g, NEW S, IsFiniteSet(S), NEW e \in S,
           \A x \in S : f[x] \in Int /\ g[x] \in Int /\ (x # e => g[x] = f[x])
    PROVE  SumFunctionOnSet(g, S) = SumFunctionOnSet(f, S) - f[e] + g[e]
<1> DEFINE T == S \ {e}
<1>1. IsFiniteSet(T) /\ e \notin T /\ T \cup {e} = S
  BY FS_RemoveElement
<1>2. \A x \in T : g[x] = f[x]
  OBVIOUS
<1>3. SumFunctionOnSet(f, T) \in Int
  BY <1>1, SumIsInt
<1> HIDE DEF T
<1>4. SumFunctionOnSet(g, T) = SumFunctionOnSet(f, T)
  BY <1>1, <1>2, SumAgrees
<1>5. /\ SumFunctionOnSet(f, T \cup {e}) = SumFunctionOnSet(f, T) + f[e]
      /\ SumFunctionOnSet(g, T \cup {e}) = SumFunctionOnSet(g, T) + g[e]
  BY <1>1, SumAdds
<1>6. /\ SumFunctionOnSet(f, T \cup {e}) = SumFunctionOnSet(f, S)
      /\ SumFunctionOnSet(g, T \cup {e}) = SumFunctionOnSet(g, S)
  BY <1>1, Zenon
<1>7. QED
  BY <1>3, <1>4, <1>5, <1>6

\* A sum over the places of a sequence when one more is appended.
LEMMA SumAppends ==
    ASSUME NEW f, NEW g, NEW n \in Nat, \A k \in 1 .. n + 1 : f[k] \in Int,
           \A k \in 1 .. n : g[k] = f[k]
    PROVE  SumFunctionOnSet(f, 1 .. n + 1) = SumFunctionOnSet(g, 1 .. n) + f[n + 1]
<1> DEFINE D == 1 .. n
           m == n + 1
<1>1. IsFiniteSet(D) /\ D \cup {m} = 1 .. n + 1 /\ m \notin D
  BY FS_Interval
<1>2. \A k \in D \cup {m} : f[k] \in Int
  BY <1>1
<1>3. \A k \in D : g[k] = f[k]
  OBVIOUS
<1> HIDE DEF D, m
<1>4. SumFunctionOnSet(f, D \cup {m}) = SumFunctionOnSet(f, D) + f[m]
  BY <1>1, <1>2, SumAdds
<1>5. SumFunctionOnSet(f, D) = SumFunctionOnSet(g, D)
  BY <1>1, <1>3, SumAgrees
<1>6. QED
  BY <1>1, <1>4, <1>5 DEF D, m

\* The elements of a sequence may be counted one position later.
LEMMA SumShifts ==
    ASSUME NEW f, NEW g, NEW n \in Nat,
           \A k \in 1 .. n : g[k] = f[k + 1] /\ f[k + 1] \in Nat
    PROVE  SumFunctionOnSet(f, 2 .. n + 1) = SumFunctionOnSet(g, 1 .. n)
<1> DEFINE D == 1 .. n
           Next1(T) == {k + 1 : k \in T}
           F(T) == SumFunctionOnSet(f, T)
           G(T) == SumFunctionOnSet(g, T)
           Good == {T \in SUBSET D : F(Next1(T)) = G(T)}
<1>1. IsFiniteSet(D) /\ IsFiniteSet(2 .. n + 1) /\ Next1(D) = 2 .. n + 1
  <2>1. IsFiniteSet(D) /\ IsFiniteSet(2 .. n + 1)
    BY FS_Interval
  <2>2. \A k \in 2 .. n + 1 : k - 1 \in D /\ k = (k - 1) + 1
    OBVIOUS
  <2>3. QED
    BY <2>1, <2>2
<1>2. ASSUME NEW T \in SUBSET D, \A U \in SUBSET T : U # T => U \in Good
      PROVE  T \in Good
  <2>1. CASE T = {}
    <3>1. Next1(T) = {}
      BY <2>1
    <3>2. F({}) = 0 /\ G({}) = 0
      BY SumOfNone
    <3>3. QED
      BY <2>1, <3>1, <3>2
  <2>2. CASE T # {}
    <3>1. PICK c \in T : TRUE
      BY <2>2
    <3> DEFINE R == T \ {c}
    <3>2. R \in SUBSET T /\ R # T /\ R \cup {c} = T /\ c \notin R /\ R \in SUBSET D
      BY <3>1
    <3>3. Next1(T) = Next1(R) \cup {c + 1} /\ c + 1 \notin Next1(R)
      BY <3>1
    <3>4. F(Next1(R)) = G(R)
      BY <1>2, <3>2
    <3>5. IsFiniteSet(R) /\ IsFiniteSet(Next1(R))
      <4>1. Next1(R) \in SUBSET (2 .. n + 1)
        BY <3>2
      <4>2. QED
        BY <1>1, <3>2, <4>1, FS_Subset
    <3>6. \A k \in Next1(R) \cup {c + 1} : f[k] \in Nat
      BY <3>1, <3>2
    <3>7. \A k \in R \cup {c} : g[k] \in Nat
      BY <3>1, <3>2
    <3>8. g[c] = f[c + 1]
      BY <3>1
    <3> HIDE DEF R, Next1
    <3>9. F(Next1(R) \cup {c + 1}) = F(Next1(R)) + f[c + 1]
      BY <3>3, <3>5, <3>6, SumAdds
    <3>10. G(R \cup {c}) = G(R) + g[c]
      BY <3>2, <3>5, <3>7, SumAdds
    <3>11. F(Next1(T)) = G(T)
      BY <3>2, <3>3, <3>4, <3>8, <3>9, <3>10
    <3>12. QED
      BY <3>11
  <2>3. QED
    BY <2>1, <2>2
<1>3. Good \in SUBSET SUBSET D
  OBVIOUS
<1>4. D \in Good
  <2> HIDE DEF Good, D
  <2>1. QED
    BY <1>1, <1>2, <1>3, SubsetInduction
<1>5. QED
  BY <1>1, <1>4

\* The first element of a sequence and the rest add up to the whole.
LEMMA SumOfTail ==
    ASSUME NEW s \in Seq(Nat), s # <<>>
    PROVE  /\ SumFunction(s) \in Nat /\ SumFunction(Tail(s)) \in Nat
           /\ SumFunction(s) = Head(s) + SumFunction(Tail(s))
<1> DEFINE n == Len(s) - 1
           t == Tail(s)
<1>1. n \in Nat /\ DOMAIN s = 1 .. n + 1 /\ DOMAIN t = 1 .. n /\ Head(s) = s[1]
  OBVIOUS
<1>2. \A k \in 1 .. n : t[k] = s[k + 1] /\ s[k + 1] \in Nat
  OBVIOUS
<1>3. (2 .. n + 1) \cup {1} = 1 .. n + 1 /\ 1 \notin 2 .. n + 1
  BY <1>1
<1>4. \A k \in 1 .. n + 1 : s[k] \in Nat /\ s[k] \in Int
  OBVIOUS
<1>5. IsFiniteSet(1 .. n) /\ IsFiniteSet(2 .. n + 1) /\ IsFiniteSet(1 .. n + 1)
  BY <1>1, FS_Interval
<1> HIDE DEF n, t
<1>6. SumFunctionOnSet(s, 2 .. n + 1) = SumFunctionOnSet(t, 1 .. n)
  BY <1>1, <1>2, SumShifts
<1>7. SumFunctionOnSet(s, (2 .. n + 1) \cup {1}) = SumFunctionOnSet(s, 2 .. n + 1) + s[1]
  <2>1. \A k \in (2 .. n + 1) \cup {1} : s[k] \in Int
    BY <1>3, <1>4
  <2>2. QED
    BY <1>3, <1>5, <2>1, SumAdds
<1>8. SumFunctionOnSet(s, 1 .. n + 1) \in Nat /\ SumFunctionOnSet(t, 1 .. n) \in Nat
  <2>1. \A k \in 1 .. n : t[k] \in Nat
    BY <1>2
  <2>2. SumFunctionOnSet(t, 1 .. n) \in Nat
    BY <1>5, <2>1, SumIsNat
  <2>3. SumFunctionOnSet(s, 1 .. n + 1) \in Nat
    BY <1>4, <1>5, SumIsNat
  <2>4. QED
    BY <2>2, <2>3
<1>9. SumFunction(s) = SumFunctionOnSet(s, 1 .. n + 1) /\ SumFunction(t) = SumFunctionOnSet(t, 1 .. n)
  BY <1>1 DEF SumFunction
<1>10. SumFunction(s) \in Nat /\ SumFunction(t) \in Nat /\ SumFunction(s) = Head(s) + SumFunction(t)
  <2>1. s[1] \in Nat
    BY <1>1, <1>4
  <2>2. SumFunctionOnSet(s, (2 .. n + 1) \cup {1}) = SumFunctionOnSet(s, 1 .. n + 1)
    BY <1>3, Zenon
  <2>3. QED
    BY <1>1, <1>6, <1>7, <1>8, <1>9, <2>1, <2>2
<1>11. QED
  BY <1>10 DEF t
=============================================================================
