-------------------------- MODULE PriceMathProofs --------------------------
(***************************************************************************)
(* What the aggregation arithmetic of PriceMath returns, for every finite  *)
(* family of prices, and the laws the other proofs take from here: folds   *)
(* over a set are unfolded one element at a time, sums may be taken in any *)
(* order and part by part, quotients are bounded, and a list that is       *)
(* filtered, cut or extended keeps its members and its order.              *)
(***************************************************************************)
EXTENDS PriceMath, Sequences, FiniteSetTheorems, WellFoundedInduction, TLAPS

\* A finite family of natural numbers: the prices or the timestamps of a round.
Family(f) == IsFiniteSet(DOMAIN f) /\ \A i \in DOMAIN f : f[i] \in Nat

\* A nonempty set of natural numbers has a least element.
LEMMA LeastNatural ==
    ASSUME NEW S \in SUBSET Nat, S # {}
    PROVE  \E n \in S : \A m \in S : n <= m
<1>1. PICK n \in S : \A m \in S : ~ (<<m, n>> \in OpToRel(<, Nat))
  BY NatLessThanWellFounded, WFMin
<1>2. \A m \in S : m < n => <<m, n>> \in OpToRel(<, Nat)
  BY Zenon DEF OpToRel
<1>3. \A m \in S : ~ (m < n)
  BY <1>1, <1>2, Zenon
<1> QED  BY <1>3

\* A nonempty set of natural numbers that is bounded has a greatest element.
LEMMA GreatestNatural ==
    ASSUME NEW S \in SUBSET Nat, S # {}, NEW bound \in Nat, \A m \in S : m <= bound
    PROVE  \E n \in S : \A m \in S : m <= n
<1> DEFINE B == {n \in Nat : \A m \in S : m <= n}
<1>1. PICK n \in B : \A k \in B : n <= k
  <2>1. bound \in B /\ B \in SUBSET Nat
    OBVIOUS
  <2> HIDE DEF B
  <2> QED  BY <2>1, LeastNatural
<1>2. n \in Nat /\ \A m \in S : m \in Nat /\ m <= n
  BY <1>1
<1>3. n \in S
  <2> SUFFICES ASSUME n \notin S
               PROVE  FALSE
    OBVIOUS
  <2>1. \A m \in S : m <= n - 1
    BY <1>2
  <2>2. n - 1 \in Nat
    <3>1. PICK m \in S : m <= n - 1 /\ m \in Nat
      BY <1>2, <2>1
    <3> QED  BY <1>2, <3>1
  <2>3. n - 1 \in B
    BY <2>1, <2>2
  <2> QED  BY <1>1, <1>2, <2>3
<1> QED  BY <1>2, <1>3

\* What holds at zero and is handed on holds up to n.
LEMMA Climb ==
    ASSUME NEW n \in Nat, NEW G, 0 \in G, \A k \in 0..n : k \in G /\ k < n => k + 1 \in G
    PROVE  \A k \in 0..n : k \in G
<1> DEFINE N == {k \in 0..n : k \notin G}
<1>1. N = {}
  <2> SUFFICES ASSUME N # {}
               PROVE  FALSE
    OBVIOUS
  <2>1. N \in SUBSET Nat
    OBVIOUS
  <2>2. PICK k \in N : \A m \in N : k <= m
    BY <2>1, LeastNatural
  <2>3. k \in 0..n /\ k # 0 /\ k - 1 \in 0..n /\ k - 1 < n
    BY <2>2
  <2>4. k - 1 \in G
    BY <2>2, <2>3
  <2>5. (k - 1) + 1 \in G
    BY <2>3, <2>4
  <2> QED  BY <2>2, <2>3, <2>5
<1> QED  BY <1>1

\* The sets that rank a price are finite, nested, and no larger than the family.
LEMMA RankSets ==
    ASSUME NEW f, Family(f), NEW v
    PROVE  /\ IsFiniteSet(Below(f, v)) /\ Cardinality(Below(f, v)) \in Nat
           /\ IsFiniteSet(AtMost(f, v)) /\ Cardinality(AtMost(f, v)) \in Nat
           /\ Cardinality(AtMost(f, v)) <= Cardinality(DOMAIN f)
           /\ Cardinality(DOMAIN f) \in Nat
<1>1. Below(f, v) \in SUBSET DOMAIN f /\ AtMost(f, v) \in SUBSET DOMAIN f
  BY DEF Below, AtMost
<1>2. IsFiniteSet(DOMAIN f)
  BY DEF Family
<1>3. /\ IsFiniteSet(Below(f, v)) /\ IsFiniteSet(AtMost(f, v))
      /\ Cardinality(AtMost(f, v)) <= Cardinality(DOMAIN f)
  BY <1>1, <1>2, FS_Subset
<1> QED  BY <1>2, <1>3, FS_CardinalityType

\* A nonempty finite family has a greatest value.
LEMMA GreatestExists ==
    ASSUME NEW f, Family(f), DOMAIN f # {}
    PROVE  \E j \in DOMAIN f : \A i \in DOMAIN f : f[i] <= f[j]
<1> DEFINE n == Cardinality(DOMAIN f)
           rest(i) == n - Cardinality(AtMost(f, f[i]))
           R == {rest(i) : i \in DOMAIN f}
<1>1. \A i \in DOMAIN f : rest(i) \in Nat
  BY RankSets
<1>2. R \in SUBSET Nat /\ R # {}
  BY <1>1
<1>3. PICK r \in R : \A q \in R : r <= q
  BY <1>2, LeastNatural
<1>4. PICK j \in DOMAIN f : r = rest(j)
  BY <1>3
<1>5. \A i \in DOMAIN f : rest(j) <= rest(i)
  BY <1>3, <1>4
<1>6. ASSUME NEW i \in DOMAIN f, ~ (f[i] <= f[j])
      PROVE  FALSE
  <2>1. f[i] \in Nat /\ f[j] \in Nat /\ f[j] < f[i]
    BY <1>6 DEF Family
  <2>2. AtMost(f, f[j]) \in SUBSET AtMost(f, f[i])
    BY <2>1 DEF AtMost, Family
  <2>3. i \in AtMost(f, f[i]) /\ i \notin AtMost(f, f[j])
    BY <2>1, <1>6 DEF AtMost
  <2>4. /\ Cardinality(AtMost(f, f[j])) <= Cardinality(AtMost(f, f[i]))
        /\ Cardinality(AtMost(f, f[j])) # Cardinality(AtMost(f, f[i]))
    BY <2>2, <2>3, RankSets, FS_Subset
  <2>5. rest(j) <= rest(i)
    BY <1>5
  <2> QED  BY <2>4, <2>5, RankSets
<1> QED  BY <1>6

\* select_kth is defined for every rank the vector has.
LEMMA KthExists ==
    ASSUME NEW f, Family(f), NEW k \in Nat, k < Cardinality(DOMAIN f)
    PROVE  \E v \in {f[i] : i \in DOMAIN f} : IsKth(f, k, v)
<1> DEFINE T == {v \in Nat : k < Cardinality(AtMost(f, v))}
<1>1. DOMAIN f # {}
  BY FS_EmptySet
<1>2. PICK j \in DOMAIN f : \A i \in DOMAIN f : f[i] <= f[j]
  BY <1>1, GreatestExists
<1>3. AtMost(f, f[j]) = DOMAIN f
  BY <1>2 DEF AtMost
<1>4. f[j] \in T
  BY <1>3 DEF Family
<1>5. PICK v \in T : \A w \in T : v <= w
  <2>1. T \in SUBSET Nat /\ T # {}
    BY <1>4
  <2> QED  BY <2>1, LeastNatural
<1>6. Cardinality(Below(f, v)) <= k
  <2>1. CASE v = 0
    <3>1. Below(f, v) = {}
      BY <2>1 DEF Below, Family
    <3> QED  BY <3>1, FS_EmptySet
  <2>2. CASE v # 0
    <3>1. v - 1 \in Nat /\ v - 1 \notin T
      BY <2>2, <1>5
    <3>2. Below(f, v) = AtMost(f, v - 1)
      BY <2>2, <1>5 DEF Below, AtMost, Family
    <3>3. ~ (k < Cardinality(AtMost(f, v - 1)))
      BY <3>1
    <3> QED  BY <3>2, <3>3, RankSets
  <2> QED  BY <2>1, <2>2
<1>7. k < Cardinality(AtMost(f, v))
  BY <1>5
<1>8. \E i \in DOMAIN f : f[i] = v
  <2>1. ASSUME ~ \E i \in DOMAIN f : f[i] = v
        PROVE  FALSE
    <3>1. AtMost(f, v) = Below(f, v)
      BY <2>1, <1>5 DEF AtMost, Below, Family
    <3> QED  BY <3>1, <1>6, <1>7, RankSets
  <2> QED  BY <2>1
<1>9. IsKth(f, k, v)
  BY <1>6, <1>7, <1>8 DEF IsKth
<1> QED  BY <1>8, <1>9

\* select_kth returns a price of the vector with the requested rank.
LEMMA SelectKth ==
    ASSUME NEW f, Family(f), NEW k \in Nat, k < Cardinality(DOMAIN f)
    PROVE  IsKth(f, k, select_kth(f, k)) /\ select_kth(f, k) \in Nat
<1>1. IsKth(f, k, select_kth(f, k))
  BY KthExists DEF select_kth
<1> QED  BY <1>1 DEF IsKth, Family

\* Ranks order prices: the lower middle is never above the upper middle.
LEMMA KthMonotone ==
    ASSUME NEW f, Family(f), NEW k \in Nat, NEW m \in Nat, k <= m,
           NEW l \in Nat, NEW u \in Nat, IsKth(f, k, l), IsKth(f, m, u)
    PROVE  l <= u
<1>1. ASSUME u < l
      PROVE  FALSE
  <2>1. AtMost(f, u) \in SUBSET Below(f, l)
    BY <1>1 DEF AtMost, Below, Family
  <2>2. Cardinality(AtMost(f, u)) <= Cardinality(Below(f, l))
    BY <2>1, RankSets, FS_Subset
  <2> QED  BY <2>2, RankSets DEF IsKth
<1> QED  BY <1>1

\* The middle ranks compute_median selects, and the value it makes of them.
LEMMA MedianRanks ==
    ASSUME NEW f, Family(f), DOMAIN f # {}
    PROVE  \E k, m \in Nat : \E l, u \in Nat :
              /\ m = Cardinality(DOMAIN f) \div 2
              /\ k <= m /\ 2 * k + 2 >= Cardinality(DOMAIN f)
              /\ IsKth(f, k, l) /\ IsKth(f, m, u)
              /\ l <= compute_median(f) /\ compute_median(f) <= u
              /\ compute_median(f) \in Nat
<1> DEFINE n == Cardinality(DOMAIN f)
           m == n \div 2
           k == IF n % 2 = 0 THEN m - 1 ELSE m
           l == select_kth(f, k)
           u == select_kth(f, m)
<1>1. n \in Nat /\ n # 0
  BY FS_EmptySet, FS_CardinalityType DEF Family
<1>2. /\ m \in Nat /\ k \in Nat /\ k <= m /\ m < n /\ k < n
      /\ 2 * k + 2 >= n
      /\ n % 2 = 0 => k = m - 1
      /\ n % 2 # 0 => k = m
  BY <1>1
<1>3. IsKth(f, k, l) /\ l \in Nat
  <2> HIDE DEF k, m
  <2> QED  BY <1>2, SelectKth
<1>4. IsKth(f, m, u) /\ u \in Nat
  <2> HIDE DEF k, m
  <2> QED  BY <1>2, SelectKth
<1>5. l <= u
  <2> HIDE DEF k, m, l, u
  <2> QED  BY <1>2, <1>3, <1>4, KthMonotone
<1>6. compute_median(f) = IF n % 2 = 0 THEN l + ((u - l) \div 2) ELSE u
  BY <1>2 DEF compute_median
<1>7. l <= compute_median(f) /\ compute_median(f) <= u /\ compute_median(f) \in Nat
  <2>1. CASE n % 2 = 0
    <3>1. compute_median(f) = l + ((u - l) \div 2)
      BY <1>6, <2>1
    <3> HIDE DEF l, u
    <3> QED  BY <3>1, <1>3, <1>4, <1>5
  <2>2. CASE n % 2 # 0
    <3>1. compute_median(f) = u
      BY <1>6, <2>2
    <3> HIDE DEF l, u
    <3> QED  BY <3>1, <1>3, <1>4, <1>5
  <2> QED  BY <2>1, <2>2
<1> HIDE DEF k, l, u
<1> QED  BY <1>2, <1>3, <1>4, <1>7

\* S4: compute_median lies between two of the prices it is given.
THEOREM MedianWithin ==
    ASSUME NEW f, Family(f), DOMAIN f # {}
    PROVE  /\ compute_median(f) \in Nat
           /\ \E i, j \in DOMAIN f : f[i] <= compute_median(f) /\ compute_median(f) <= f[j]
<1>1. PICK k, m \in Nat : \E l, u \in Nat :
              /\ IsKth(f, k, l) /\ IsKth(f, m, u)
              /\ l <= compute_median(f) /\ compute_median(f) <= u
              /\ compute_median(f) \in Nat
  BY MedianRanks
<1> QED  BY <1>1 DEF IsKth

\* The median follows the majority: whatever the minority of the contributors
\* report, the median lies in every interval that holds more than half of them.
THEOREM MedianFollowsMajority ==
    ASSUME NEW f, Family(f), DOMAIN f # {}, NEW lo \in Nat, NEW hi \in Nat,
           NEW I \in SUBSET DOMAIN f, \A i \in I : lo <= f[i] /\ f[i] <= hi,
           2 * Cardinality(I) > Cardinality(DOMAIN f)
    PROVE  lo <= compute_median(f) /\ compute_median(f) <= hi
<1> DEFINE n == Cardinality(DOMAIN f)
<1>1. PICK k, m \in Nat : \E l, u \in Nat :
              /\ m = n \div 2
              /\ k <= m /\ 2 * k + 2 >= n
              /\ IsKth(f, k, l) /\ IsKth(f, m, u)
              /\ l <= compute_median(f) /\ compute_median(f) <= u
              /\ compute_median(f) \in Nat
  BY MedianRanks
<1>2. PICK l, u \in Nat :
              /\ m = n \div 2
              /\ k <= m /\ 2 * k + 2 >= n
              /\ IsKth(f, k, l) /\ IsKth(f, m, u)
              /\ l <= compute_median(f) /\ compute_median(f) <= u
              /\ compute_median(f) \in Nat
  BY <1>1
<1>3. n \in Nat /\ IsFiniteSet(I) /\ Cardinality(I) \in Nat
  BY FS_Subset, FS_CardinalityType DEF Family
<1>4. lo <= l
  <2>1. ASSUME l < lo
        PROVE  FALSE
    <3>1. AtMost(f, l) \cap I = {}
      BY <2>1 DEF AtMost, Family
    <3>2. AtMost(f, l) \subseteq DOMAIN f
      BY DEF AtMost
    <3>3. ~ (Cardinality(AtMost(f, l)) + Cardinality(I) > n)
      BY <3>1, <3>2, FS_MajoritiesIntersect DEF Family
    <3>4. k < Cardinality(AtMost(f, l)) /\ Cardinality(AtMost(f, l)) \in Nat
      BY <1>2, RankSets DEF IsKth
    <3> QED  BY <3>3, <3>4, <1>2, <1>3
  <2> QED  BY <2>1
<1>5. u <= hi
  <2>1. ASSUME hi < u
        PROVE  FALSE
    <3>1. I \in SUBSET Below(f, u)
      BY <2>1 DEF Below, Family
    <3>2. Cardinality(I) <= Cardinality(Below(f, u))
      BY <3>1, RankSets, FS_Subset
    <3>3. Cardinality(Below(f, u)) <= m /\ Cardinality(Below(f, u)) \in Nat
      BY <1>2, RankSets DEF IsKth
    <3> QED  BY <3>2, <3>3, <1>2, <1>3
  <2> QED  BY <2>1
<1> QED  BY <1>2, <1>4, <1>5

\* The running maximum of a round is zero or one of its timestamps.
LEMMA LatestBound ==
    ASSUME NEW f, Family(f)
    PROVE  /\ latest_timestamp(f) \in Nat
           /\ latest_timestamp(f) = 0 \/ \E i \in DOMAIN f : latest_timestamp(f) = f[i]
<1>1. \E t \in {0} \cup {f[i] : i \in DOMAIN f} : \A i \in DOMAIN f : f[i] <= t
  <2>1. CASE DOMAIN f = {}
    BY <2>1
  <2>2. CASE DOMAIN f # {}
    BY <2>2, GreatestExists
  <2> QED  BY <2>1, <2>2
<1>2. latest_timestamp(f) \in {0} \cup {f[i] : i \in DOMAIN f}
  BY <1>1 DEF latest_timestamp
<1> QED  BY <1>2 DEF Family

-----------------------------------------------------------------------------
(* Folds *)

\* A fold of the library over S: C picks an element, F adds it to the fold of
\* the rest.
FoldStep(F, C, base, it, T) == IF T = {} THEN base ELSE F[<<C[T], it[T \ {C[T]}]>>]

Foldable(S, Y, F, C, base) ==
    /\ IsFiniteSet(S) /\ base \in Y /\ F \in [S \X Y -> Y]
    /\ \A T \in SUBSET S : T # {} => C[T] \in T
Folding(S, Y, F, C, base, it) ==
    /\ it \in [SUBSET S -> Y]
    /\ \A T \in SUBSET S : it[T] = FoldStep(F, C, base, it, T)

\* The subsets of up to n elements are folded by some function: there is no
\* least n for which they are not.
LEMMA FoldingExists ==
    ASSUME NEW S, NEW Y, NEW F, NEW C, NEW base, Foldable(S, Y, F, C, base)
    PROVE  \E it : Folding(S, Y, F, C, base, it)
<1> USE DEF Foldable
<1> DEFINE D(n) == {T \in SUBSET S : Cardinality(T) <= n}
           P(n) == \E it \in [D(n) -> Y] : \A T \in D(n) : it[T] = FoldStep(F, C, base, it, T)
           N == {n \in Nat : ~P(n)}
<1>1. \A T \in SUBSET S : /\ IsFiniteSet(T) /\ Cardinality(T) \in Nat
                          /\ Cardinality(T) <= Cardinality(S) /\ Cardinality(S) \in Nat
                          /\ Cardinality(T) = 0 <=> T = {}
  BY FS_Subset, FS_CardinalityType, FS_EmptySet
<1>2. P(0)
  <2>1. PICK it : it = [T \in D(0) |-> base]
    OBVIOUS
  <2>2. it \in [D(0) -> Y]
    BY <2>1
  <2>3. \A T \in D(0) : T = {}
    BY <1>1
  <2>4. \A T \in D(0) : it[T] = FoldStep(F, C, base, it, T)
    BY <2>1, <2>3 DEF FoldStep
  <2> QED  BY <2>2, <2>4
<1>3. ASSUME NEW n \in Nat, P(n)
      PROVE  P(n + 1)
  <2>1. PICK it \in [D(n) -> Y] : \A T \in D(n) : it[T] = FoldStep(F, C, base, it, T)
    BY <1>3
  <2>2. PICK next : next = [T \in D(n + 1) |->
                              IF T \in D(n) THEN it[T] ELSE FoldStep(F, C, base, it, T)]
    OBVIOUS
  <2>3. ASSUME NEW T \in D(n + 1), T # {}
        PROVE  C[T] \in T /\ T \ {C[T]} \in D(n) /\ C[T] \in S
    <3>1. C[T] \in T /\ T \in SUBSET S
      BY <2>3
    <3>2. Cardinality(T \ {C[T]}) = Cardinality(T) - 1
      BY <1>1, <3>1, FS_RemoveElement
    <3> QED  BY <1>1, <3>1, <3>2
  <2>4. D(n) \subseteq D(n + 1)
    BY <1>1
  <2> HIDE DEF D
  <2>5. ASSUME NEW T \in D(n + 1)
        PROVE  next[T] = FoldStep(F, C, base, next, T) /\ next[T] \in Y
    <3>1. next[T] = FoldStep(F, C, base, it, T)
      BY <2>1, <2>2
    <3>2. CASE T = {}
      BY <3>1, <3>2 DEF FoldStep
    <3>3. CASE T # {}
      <4>1. C[T] \in S /\ T \ {C[T]} \in D(n)
        BY <2>3, <3>3
      <4>2. PICK rest : rest = T \ {C[T]}
        OBVIOUS
      <4>3. next[rest] = it[rest] /\ it[rest] \in Y
        BY <2>1, <2>2, <2>4, <4>1, <4>2
      <4>4. FoldStep(F, C, base, it, T) = F[<<C[T], it[rest]>>]
            /\ FoldStep(F, C, base, next, T) = F[<<C[T], next[rest]>>]
        BY <3>3, <4>2 DEF FoldStep
      <4>5. F[<<C[T], it[rest]>>] \in Y
        BY <4>1, <4>3
      <4> QED  BY <3>1, <4>3, <4>4, <4>5
    <3> QED  BY <3>2, <3>3
  <2>6. next \in [D(n + 1) -> Y]
    BY <2>2, <2>5
  <2> QED  BY <2>5, <2>6
<1>4. N = {}
  <2> SUFFICES ASSUME N # {}
               PROVE  FALSE
    OBVIOUS
  <2> HIDE DEF P
  <2>1. PICK n \in N : \A m \in N : n <= m
    BY LeastNatural
  <2>2. n \in Nat /\ ~P(n) /\ n # 0
    BY <1>2, <2>1
  <2>3. n - 1 \in Nat /\ n - 1 \notin N
    BY <2>1, <2>2
  <2>4. P(n - 1)
    BY <2>3
  <2>5. P((n - 1) + 1)
    BY <1>3, <2>3, <2>4
  <2>6. (n - 1) + 1 = n
    BY <2>2
  <2> QED  BY <2>2, <2>5, <2>6
<1>5. D(Cardinality(S)) = SUBSET S /\ Cardinality(S) \in Nat
  BY <1>1
<1>6. P(Cardinality(S))
  <2> HIDE DEF P
  <2> QED  BY <1>4, <1>5
<1> QED  BY <1>5, <1>6 DEF Folding

-----------------------------------------------------------------------------
(* Sums *)

\* The sum of f over the subsets of S, as the folds of the library compute it:
\* one element is picked, and the rest is summed.
SumStep(f, it, T) ==
    IF T = {} THEN 0 ELSE LET x == CHOOSE y \in T : TRUE IN f[x] + it[T \ {x}]
Summing(f, S, it) == it = [T \in SUBSET S |-> SumStep(f, it, T)]
SumOver(f, S) == (CHOOSE it : Summing(f, S, it))[S]

\* Every finite family is summed by some function.
LEMMA SummingExists ==
    ASSUME NEW S, IsFiniteSet(S), NEW f \in [S -> Int]
    PROVE  \E it \in [SUBSET S -> Int] : Summing(f, S, it)
<1>1. PICK C : C = [T \in SUBSET S |-> CHOOSE y \in T : TRUE]
  OBVIOUS
<1>2. PICK F : F = [xy \in S \X Int |-> f[xy[1]] + xy[2]]
  OBVIOUS
<1>3. F \in [S \X Int -> Int] /\ \A x \in S, y \in Int : F[<<x, y>>] = f[x] + y
  BY <1>2
<1>4. \A T \in SUBSET S : T # {} => C[T] \in T
  BY <1>1
<1>5. PICK zero : zero = 0
  OBVIOUS
<1>6. PICK it \in [SUBSET S -> Int] : \A T \in SUBSET S : it[T] = FoldStep(F, C, zero, it, T)
  <2>1. PICK Y : Y = Int
    OBVIOUS
  <2>2. Foldable(S, Y, F, C, zero)
    BY <1>3, <1>4, <1>5, <2>1 DEF Foldable
  <2>3. \E it : Folding(S, Y, F, C, zero, it)
    BY <2>2, FoldingExists
  <2> QED  BY <2>1, <2>3 DEF Folding
<1>7. ASSUME NEW T \in SUBSET S
      PROVE  it[T] = SumStep(f, it, T)
  <2>1. it[T] = FoldStep(F, C, zero, it, T)
    BY <1>6
  <2>2. CASE T = {}
    BY <1>5, <2>1, <2>2 DEF FoldStep, SumStep
  <2>3. CASE T # {}
    <3>1. PICK x : x = CHOOSE y \in T : TRUE
      OBVIOUS
    <3>2. C[T] = x /\ x \in S
      BY <1>1, <1>4, <2>3, <3>1
    <3>3. it[T \ {x}] \in Int
      BY <1>6
    <3>4. it[T] = F[<<x, it[T \ {x}]>>]
      BY <2>1, <2>3, <3>2 DEF FoldStep
    <3>5. SumStep(f, it, T) = f[x] + it[T \ {x}]
      BY <2>3, <3>1 DEF SumStep
    <3> QED  BY <1>3, <3>2, <3>3, <3>4, <3>5
  <2> QED  BY <2>2, <2>3
<1>8. it = [T \in SUBSET S |-> SumStep(f, it, T)]
  BY <1>6, <1>7
<1> QED  BY <1>8 DEF Summing

\* A[T] is the sum of f over T, whichever element is taken off first.
Additive(f, S, A) ==
    /\ \A T \in SUBSET S : A[T] \in Int
    /\ A[{}] = 0
    /\ \A T \in SUBSET S : \A x \in T : A[T] = f[x] + A[T \ {x}]

\* Taking off some element at each step is enough: no set is the smallest whose
\* sum depends on the one taken.
LEMMA OrderIsFree ==
    ASSUME NEW S, IsFiniteSet(S), NEW f \in [S -> Int], NEW A, A[{}] = 0,
           \A T \in SUBSET S : T # {} =>
               \E x \in T : A[T \ {x}] \in Int => A[T] = f[x] + A[T \ {x}]
    PROVE  Additive(f, S, A)
<1> DEFINE Q(T) == A[T] \in Int /\ \A x \in T : A[T] = f[x] + A[T \ {x}]
           N == {n \in Nat : \E T \in SUBSET S : Cardinality(T) = n /\ ~Q(T)}
<1>1. \A T \in SUBSET S : IsFiniteSet(T) /\ Cardinality(T) \in Nat
  BY FS_Subset, FS_CardinalityType
<1>2. N = {}
  <2> SUFFICES ASSUME N # {}
               PROVE  FALSE
    OBVIOUS
  <2>1. PICK n \in N : \A m \in N : n <= m
    BY LeastNatural
  <2>2. PICK T \in SUBSET S : Cardinality(T) = n /\ ~Q(T)
    BY <2>1
  <2>3. ASSUME NEW x \in T
        PROVE  Q(T \ {x})
    <3>1. Cardinality(T \ {x}) = n - 1 /\ Cardinality(T \ {x}) \in Nat
      BY <1>1, <2>2, FS_RemoveElement
    <3>2. T \ {x} \in SUBSET S /\ n \in Nat
      BY <2>1
    <3> HIDE DEF Q
    <3>3. ~Q(T \ {x}) => n - 1 \in N
      BY <3>1, <3>2
    <3> QED  BY <2>1, <3>2, <3>3
  <2>4. CASE T = {}
    BY <2>2, <2>4
  <2>5. CASE T # {}
    <3>1. \A x \in T : f[x] \in Int /\ A[T \ {x}] \in Int
      BY <2>3
    <3>2. PICK y \in T : A[T] = f[y] + A[T \ {y}]
      BY <2>5, <3>1
    <3>3. ASSUME NEW x \in T
          PROVE  A[T] = f[x] + A[T \ {x}]
      <4>1. CASE x = y
        BY <3>2, <4>1
      <4>2. CASE x # y
        <5>1. PICK R : R = T \ {x, y}
          OBVIOUS
        <5>2. (T \ {y}) \ {x} = R /\ (T \ {x}) \ {y} = R
          BY <5>1
        <5>3. A[T \ {y}] = f[x] + A[R]
          <6>1. Q(T \ {y}) /\ x \in T \ {y}
            BY <2>3, <4>2
          <6>2. A[T \ {y}] = f[x] + A[(T \ {y}) \ {x}]
            BY <6>1
          <6> QED  BY <5>2, <6>2
        <5>4. A[T \ {x}] = f[y] + A[R]
          <6>1. Q(T \ {x}) /\ y \in T \ {x}
            BY <2>3, <4>2
          <6>2. A[T \ {x}] = f[y] + A[(T \ {x}) \ {y}]
            BY <6>1
          <6> QED  BY <5>2, <6>2
        <5>5. A[R] \in Int
          <6>1. Q(T \ {x}) /\ y \in T \ {x}
            BY <2>3, <4>2
          <6>2. Q((T \ {x}) \ {y})
            <7>1. Cardinality(T \ {x}) = n - 1 /\ Cardinality(T \ {x}) \in Nat
              BY <1>1, <2>2, FS_RemoveElement
            <7>2. IsFiniteSet(T \ {x})
              BY <1>1
            <7>3. Cardinality((T \ {x}) \ {y}) = n - 2 /\ Cardinality((T \ {x}) \ {y}) \in Nat
              <8>1. Cardinality((T \ {x}) \ {y}) = Cardinality(T \ {x}) - 1
                BY <6>1, <7>2, FS_RemoveElement
              <8>2. Cardinality((T \ {x}) \ {y}) \in Nat /\ n \in Nat
                BY <1>1, <2>1
              <8> QED  BY <7>1, <8>1, <8>2
            <7>4. (T \ {x}) \ {y} \in SUBSET S /\ n \in Nat
              BY <2>1
            <7> HIDE DEF Q
            <7>5. ~Q((T \ {x}) \ {y}) => n - 2 \in N
              BY <7>3, <7>4
            <7> QED  BY <2>1, <7>4, <7>5
          <6> QED  BY <5>2, <6>2
        <5> QED  BY <3>1, <3>2, <5>3, <5>4, <5>5
      <4> QED  BY <4>1, <4>2
    <3>4. A[T] \in Int
      <4>1. f[y] \in Int /\ A[T \ {y}] \in Int
        BY <3>1
      <4> QED  BY <3>2, <4>1
    <3> QED  BY <2>2, <3>3, <3>4
  <2> QED  BY <2>4, <2>5
<1>3. \A T \in SUBSET S : Q(T)
  <2> HIDE DEF Q
  <2> QED  BY <1>1, <1>2
<1> QED  BY <1>3 DEF Additive

\* Every finite family has a sum, and it is the one the folds compute.
LEMMA SumIsAdditive ==
    ASSUME NEW S, IsFiniteSet(S), NEW f \in [S -> Int]
    PROVE  \E A : Additive(f, S, A) /\ SumOver(f, S) = A[S]
<1>1. PICK A : A = CHOOSE j : Summing(f, S, j)
  OBVIOUS
<1>2. Summing(f, S, A)
  <2>1. \E j : Summing(f, S, j)
    BY SummingExists
  <2> QED  BY <1>1, <2>1
<1>3. SumOver(f, S) = A[S]
  BY <1>1 DEF SumOver
<1>4. \A T \in SUBSET S : A[T] = SumStep(f, A, T)
  <2>1. PICK step : step = [T \in SUBSET S |-> SumStep(f, A, T)]
    OBVIOUS
  <2>2. A = step
    BY <1>2, <2>1 DEF Summing
  <2> QED  BY <2>1, <2>2
<1>5. A[{}] = 0
  BY <1>4 DEF SumStep
<1>6. ASSUME NEW T \in SUBSET S, T # {}
      PROVE  \E x \in T : A[T \ {x}] \in Int => A[T] = f[x] + A[T \ {x}]
  <2>1. PICK x : x = CHOOSE y \in T : TRUE
    OBVIOUS
  <2>2. x \in T
    BY <1>6, <2>1
  <2>3. A[T] = f[x] + A[T \ {x}]
    BY <1>4, <1>6, <2>1 DEF SumStep
  <2> QED  BY <2>2, <2>3
<1>7. Additive(f, S, A)
  BY <1>5, <1>6, OrderIsFree
<1> QED  BY <1>3, <1>7

\* The sum of a part is what the sum of the whole says of it.
LEMMA SumWithin ==
    ASSUME NEW S, IsFiniteSet(S), NEW f \in [S -> Int], NEW A, Additive(f, S, A), NEW T \in SUBSET S
    PROVE  SumOver(f, T) = A[T]
<1>1. PICK it : it = CHOOSE j : Summing(f, T, j)
  OBVIOUS
<1>2. \A U \in SUBSET T : A[U] \in Int /\ (U # {} => A[U] = f[CHOOSE y \in U : TRUE] + A[U \ {CHOOSE y \in U : TRUE}])
  <2> SUFFICES ASSUME NEW U \in SUBSET T, U # {}
               PROVE  A[U] = f[CHOOSE y \in U : TRUE] + A[U \ {CHOOSE y \in U : TRUE}]
    BY DEF Additive
  <2>1. PICK x : x = CHOOSE y \in U : TRUE
    OBVIOUS
  <2>2. x \in U
    BY <2>1
  <2> QED  BY <2>1, <2>2 DEF Additive
<1>3. Summing(f, T, it)
  <2>1. PICK C : C = [U \in SUBSET T |-> A[U]]
    OBVIOUS
  <2>2. A[{}] = 0
    BY DEF Additive
  <2>3. \A U \in SUBSET T : C[U] = SumStep(f, C, U)
    BY <1>2, <2>1, <2>2 DEF SumStep
  <2>4. Summing(f, T, C)
    BY <2>1, <2>3 DEF Summing
  <2> QED  BY <1>1, <2>4
<1>4. \A U \in SUBSET T : it[U] = SumStep(f, it, U)
  <2>1. PICK step : step = [U \in SUBSET T |-> SumStep(f, it, U)]
    OBVIOUS
  <2>2. it = step
    BY <1>3, <2>1 DEF Summing
  <2> QED  BY <2>1, <2>2
<1> DEFINE N == {n \in Nat : \E U \in SUBSET T : Cardinality(U) = n /\ it[U] # A[U]}
<1>5. \A U \in SUBSET T : IsFiniteSet(U) /\ Cardinality(U) \in Nat
  BY FS_Subset, FS_CardinalityType
<1>6. N = {}
  <2> SUFFICES ASSUME N # {}
               PROVE  FALSE
    OBVIOUS
  <2>1. N \in SUBSET Nat
    OBVIOUS
  <2>2. PICK n \in N : \A m \in N : n <= m
    <3> HIDE DEF N
    <3> QED  BY <2>1, LeastNatural
  <2>3. PICK U \in SUBSET T : Cardinality(U) = n /\ it[U] # A[U]
    OBVIOUS
  <2>4. U # {}
    BY <1>4, <2>3 DEF SumStep, Additive
  <2>5. PICK x : x = CHOOSE y \in U : TRUE
    OBVIOUS
  <2>6. x \in U
    BY <2>4, <2>5
  <2>7. it[U] = f[x] + it[U \ {x}] /\ A[U] = f[x] + A[U \ {x}]
    BY <1>2, <1>4, <2>4, <2>5 DEF SumStep
  <2>8. it[U \ {x}] # A[U \ {x}]
    BY <2>3, <2>7
  <2>9. Cardinality(U \ {x}) = n - 1 /\ n \in Nat
    BY <1>5, <2>3, <2>6, FS_RemoveElement
  <2>10. U \ {x} \in SUBSET T /\ Cardinality(U \ {x}) \in Nat
    BY <1>5
  <2>11. n - 1 \in N
    BY <2>8, <2>9, <2>10
  <2> QED  BY <2>2, <2>9, <2>11
<1>7. it[T] = A[T]
  BY <1>5, <1>6
<1> QED  BY <1>1, <1>7 DEF SumOver

\* A bound on the terms of U: a times f is at most b times g and c times h.
TermsBound(U, a, f, b, g, c, h) == \A i \in U : a * f[i] <= b * g[i] + c * h[i]

\* A bound on the terms is a bound on the sums.
LEMMA SumBound ==
    ASSUME NEW S, IsFiniteSet(S), NEW f \in [S -> Int], NEW g \in [S -> Int], NEW h \in [S -> Int],
           NEW A, NEW B, NEW C, Additive(f, S, A), Additive(g, S, B), Additive(h, S, C),
           NEW a \in Int, NEW b \in Int, NEW c \in Int, NEW U \in SUBSET S,
           TermsBound(U, a, f, b, g, c, h)
    PROVE  a * A[U] <= b * B[U] + c * C[U]
<1> DEFINE Q(T) == a * A[T] <= b * B[T] + c * C[T]
           N == {n \in Nat : \E T \in SUBSET U : Cardinality(T) = n /\ ~Q(T)}
<1>1. \A T \in SUBSET U : IsFiniteSet(T) /\ Cardinality(T) \in Nat
  BY FS_Subset, FS_CardinalityType
<1>2. \A T \in SUBSET U : A[T] \in Int /\ B[T] \in Int /\ C[T] \in Int
  BY DEF Additive
<1>3. N = {}
  <2> SUFFICES ASSUME N # {}
               PROVE  FALSE
    OBVIOUS
  <2>1. PICK n \in N : \A m \in N : n <= m
    BY LeastNatural
  <2>2. PICK T \in SUBSET U : Cardinality(T) = n /\ ~Q(T)
    BY <2>1
  <2>3. CASE T = {}
    <3>1. A[T] = 0 /\ B[T] = 0 /\ C[T] = 0
      BY <2>3 DEF Additive
    <3> QED  BY <2>2, <3>1
  <2>4. CASE T # {}
    <3>1. PICK x \in T : TRUE
      BY <2>4
    <3>2. PICK R \in SUBSET U : R = T \ {x}
      OBVIOUS
    <3>3. A[T] = f[x] + A[R] /\ B[T] = g[x] + B[R] /\ C[T] = h[x] + C[R]
      BY <3>2 DEF Additive
    <3>4. Q(R)
      <4>1. Cardinality(R) = n - 1 /\ Cardinality(R) \in Nat /\ n \in Nat
        BY <1>1, <2>1, <2>2, <3>2, FS_RemoveElement
      <4> HIDE DEF Q
      <4>2. ~Q(R) => n - 1 \in N
        BY <4>1
      <4> QED  BY <2>1, <4>1, <4>2
    <3>5. PICK fx \in Int, gx \in Int, hx \in Int :
             fx = f[x] /\ gx = g[x] /\ hx = h[x] /\ a * fx <= b * gx + c * hx
      BY DEF TermsBound
    <3>6. PICK AR \in Int, BR \in Int, CR \in Int : AR = A[R] /\ BR = B[R] /\ CR = C[R]
      BY <1>2
    <3>7. a * AR <= b * BR + c * CR
      BY <3>4, <3>6
    <3>8. a * (fx + AR) <= b * (gx + BR) + c * (hx + CR)
      <4>1. /\ a * (fx + AR) = a * fx + a * AR
            /\ b * (gx + BR) = b * gx + b * BR
            /\ c * (hx + CR) = c * hx + c * CR
        OBVIOUS
      <4>2. /\ a * fx \in Int /\ a * AR \in Int /\ b * gx \in Int
            /\ b * BR \in Int /\ c * hx \in Int /\ c * CR \in Int
        OBVIOUS
      <4> QED  BY <3>5, <3>7, <4>1, <4>2
    <3> QED  BY <2>2, <3>3, <3>5, <3>6, <3>8
  <2> QED  BY <2>3, <2>4
<1>4. U \in SUBSET U
  OBVIOUS
<1> HIDE DEF Q
<1>5. Q(U)
  BY <1>1, <1>3, <1>4
<1> QED  BY <1>5 DEF Q

\* Changing one term changes the sum by as much.
LEMMA SumChanged ==
    ASSUME NEW S, IsFiniteSet(S), NEW f \in [S -> Int], NEW g \in [S -> Int], NEW c \in S,
           \A s \in S : s # c => g[s] = f[s]
    PROVE  SumOver(f, S) \in Int /\ SumOver(g, S) = SumOver(f, S) + (g[c] - f[c])
<1>1. PICK A : Additive(f, S, A) /\ SumOver(f, S) = A[S]
  BY SumIsAdditive, SMTT(30)
<1>2. PICK B : Additive(g, S, B) /\ SumOver(g, S) = B[S]
  BY SumIsAdditive, SMTT(30)
<1>3. PICK U \in SUBSET S : U = S \ {c}
  OBVIOUS
<1>4. \A i \in U : f[i] \in Int /\ g[i] \in Int /\ g[i] = f[i]
  BY <1>3
<1>5. PICK one \in Int, nil \in Int : one = 1 /\ nil = 0
  OBVIOUS
<1>6. one * A[U] <= one * B[U] + nil * B[U]
  <2>1. TermsBound(U, one, f, one, g, nil, g)
    BY <1>4, <1>5 DEF TermsBound
  <2> QED  BY <1>1, <1>2, <2>1, SumBound
<1>7. one * B[U] <= one * A[U] + nil * A[U]
  <2>1. TermsBound(U, one, g, one, f, nil, f)
    BY <1>4, <1>5 DEF TermsBound
  <2> QED  BY <1>1, <1>2, <2>1, SumBound
<1>8. /\ A[U] \in Int /\ B[U] \in Int /\ A[S] \in Int
      /\ A[S] = f[c] + A[U] /\ B[S] = g[c] + B[U]
  BY <1>1, <1>2, <1>3 DEF Additive
<1>9. f[c] \in Int /\ g[c] \in Int
  OBVIOUS
<1> QED  BY <1>1, <1>2, <1>5, <1>6, <1>7, <1>8, <1>9

\* Nothing sums to nothing.
LEMMA SumOfZeros ==
    ASSUME NEW S, IsFiniteSet(S), NEW f \in [S -> Int], \A s \in S : f[s] = 0
    PROVE  SumOver(f, S) = 0
<1>1. PICK A : Additive(f, S, A) /\ SumOver(f, S) = A[S]
  BY SumIsAdditive, SMTT(30)
<1>2. PICK one \in Int, less \in Int, nil \in Int : one = 1 /\ less = -1 /\ nil = 0
  OBVIOUS
<1>3. S \in SUBSET S /\ A[S] \in Int
  BY <1>1 DEF Additive
<1>4. one * A[S] <= nil * A[S] + nil * A[S]
  <2>1. TermsBound(S, one, f, nil, f, nil, f)
    BY <1>2 DEF TermsBound
  <2> QED  BY <1>1, <1>3, <2>1, SumBound
<1>5. less * A[S] <= nil * A[S] + nil * A[S]
  <2>1. TermsBound(S, less, f, nil, f, nil, f)
    BY <1>2 DEF TermsBound
  <2> QED  BY <1>1, <1>3, <2>1, SumBound
<1> QED  BY <1>1, <1>2, <1>3, <1>4, <1>5

\* The sum of an indicator counts the set.
LEMMA SumCounts ==
    ASSUME NEW S, IsFiniteSet(S), NEW f \in [S -> Int], NEW A, Additive(f, S, A),
           NEW L \in SUBSET S, \A i \in S : f[i] = IF i \in L THEN 1 ELSE 0
    PROVE  A[S] = Cardinality(L) /\ Cardinality(L) \in Nat
<1> DEFINE Q(T) == A[T] = Cardinality(T \cap L)
           N == {n \in Nat : \E T \in SUBSET S : Cardinality(T) = n /\ ~Q(T)}
<1>1. \A T \in SUBSET S : IsFiniteSet(T) /\ Cardinality(T) \in Nat
  BY FS_Subset, FS_CardinalityType
<1>2. N = {}
  <2> SUFFICES ASSUME N # {}
               PROVE  FALSE
    OBVIOUS
  <2>1. PICK n \in N : \A m \in N : n <= m
    BY LeastNatural
  <2>2. PICK T \in SUBSET S : Cardinality(T) = n /\ ~Q(T)
    BY <2>1
  <2>3. CASE T = {}
    <3>1. A[T] = 0 /\ T \cap L = {}
      BY <2>3 DEF Additive
    <3>2. Cardinality(T \cap L) = 0
      BY <3>1, FS_EmptySet
    <3> QED  BY <2>2, <3>1, <3>2
  <2>4. CASE T # {}
    <3>1. PICK x \in T : TRUE
      BY <2>4
    <3>2. PICK R \in SUBSET S : R = T \ {x}
      OBVIOUS
    <3>3. A[T] = f[x] + A[R]
      BY <3>2 DEF Additive
    <3>4. Q(R)
      <4>1. Cardinality(R) = n - 1 /\ Cardinality(R) \in Nat /\ n \in Nat
        BY <1>1, <2>1, <2>2, <3>2, FS_RemoveElement
      <4> HIDE DEF Q
      <4>2. ~Q(R) => n - 1 \in N
        BY <4>1
      <4> QED  BY <2>1, <4>1, <4>2
    <3>5. CASE x \in L
      <4>1. R \cap L = (T \cap L) \ {x} /\ x \in T \cap L /\ T \cap L \in SUBSET S
        BY <3>2, <3>5
      <4>2. Cardinality((T \cap L) \ {x}) = Cardinality(T \cap L) - 1
        BY <1>1, <4>1, FS_RemoveElement
      <4>3. Cardinality(T \cap L) \in Nat /\ f[x] = 1
        BY <1>1, <3>5, <4>1
      <4>4. A[R] = Cardinality(T \cap L) - 1
        BY <3>4, <4>1, <4>2
      <4>5. A[T] = Cardinality(T \cap L)
        BY <3>3, <4>3, <4>4
      <4> QED  BY <2>2, <4>5
    <3>6. CASE x \notin L
      <4>1. R \cap L = T \cap L /\ f[x] = 0 /\ T \cap L \in SUBSET S
        BY <3>2, <3>6
      <4>2. Cardinality(T \cap L) \in Nat
        BY <1>1, <4>1
      <4> QED  BY <2>2, <3>3, <3>4, <4>1, <4>2
    <3> QED  BY <3>5, <3>6
  <2> QED  BY <2>3, <2>4
<1>3. S \in SUBSET S /\ S \cap L = L
  OBVIOUS
<1> HIDE DEF Q
<1>4. Q(S)
  BY <1>1, <1>2, <1>3
<1> QED  BY <1>1, <1>3, <1>4 DEF Q

\* p added once for each member of K, by the part of K it belongs to.
PartByPart(K, O, p, seg, f) ==
    f = [l \in O |-> p[l] * Cardinality({k \in K : seg[k] = l})]

\* A sum over K may be taken part by part.
LEMMA PartitionLaw ==
    ASSUME NEW K, IsFiniteSet(K), NEW O, IsFiniteSet(O), NEW p \in [O -> Int],
           NEW seg \in [K -> O], NEW g \in [K -> Int], \A k \in K : g[k] = p[seg[k]],
           NEW f, PartByPart(K, O, p, seg, f)
    PROVE  SumOver(f, O) = SumOver(g, K)
<1>1. PICK A : Additive(g, K, A) /\ SumOver(g, K) = A[K]
  BY SumIsAdditive, SMTT(30)
<1> DEFINE part(U, l) == {k \in U : seg[k] = l}
           F(U) == [l \in O |-> p[l] * Cardinality(part(U, l))]
           Q(U) == SumOver(F(U), O) = A[U]
           G == {n \in Nat : \A U \in SUBSET K : Cardinality(U) = n => Q(U)}
<1>2. ASSUME NEW U \in SUBSET K
      PROVE  /\ IsFiniteSet(U) /\ Cardinality(U) \in Nat
             /\ \A l \in O : IsFiniteSet(part(U, l)) /\ Cardinality(part(U, l)) \in Nat
             /\ F(U) \in [O -> Int]
  <2>1. IsFiniteSet(U) /\ Cardinality(U) \in Nat
    BY FS_Subset, FS_CardinalityType
  <2>2. ASSUME NEW l \in O
        PROVE  IsFiniteSet(part(U, l)) /\ Cardinality(part(U, l)) \in Nat
    BY <2>1, FS_Subset, FS_CardinalityType
  <2>3. \A l \in O : p[l] * Cardinality(part(U, l)) \in Int
    <3> HIDE DEF part
    <3> QED  BY <2>2
  <2> QED  BY <2>1, <2>2, <2>3
<1>3. 0 \in G
  <2> SUFFICES ASSUME NEW U \in SUBSET K, Cardinality(U) = 0
               PROVE  Q(U)
    OBVIOUS
  <2>1. U = {}
    BY <1>2, FS_EmptySet
  <2>2. PICK f0 : f0 = F(U)
    OBVIOUS
  <2>3. \A l \in O : part(U, l) = {}
    BY <2>1
  <2>4. Cardinality({}) = 0
    BY FS_EmptySet
  <2>5. f0 \in [O -> Int] /\ \A l \in O : f0[l] = 0
    <3>1. f0 \in [O -> Int]
      BY <1>2, <2>2
    <3>2. ASSUME NEW l \in O
          PROVE  f0[l] = 0
      <4>1. f0[l] = p[l] * Cardinality(part(U, l)) /\ p[l] \in Int
        BY <2>2
      <4>2. Cardinality(part(U, l)) = 0
        BY <2>3, <2>4
      <4> HIDE DEF part
      <4> QED  BY <4>1, <4>2
    <3> QED  BY <3>1, <3>2
  <2>6. SumOver(f0, O) = 0
    BY <2>5, SumOfZeros
  <2>7. A[U] = 0
    BY <1>1, <2>1 DEF Additive
  <2> HIDE DEF F
  <2> QED  BY <2>2, <2>6, <2>7
<1>4. ASSUME NEW n \in Nat, n \in G
      PROVE  n + 1 \in G
  <2> SUFFICES ASSUME NEW U \in SUBSET K, Cardinality(U) = n + 1
               PROVE  Q(U)
    OBVIOUS
  <2>1. PICK k \in U : TRUE
    <3>1. Cardinality({}) = 0 /\ n + 1 # 0
      BY FS_EmptySet
    <3> QED  BY <3>1
  <2>2. PICK W \in SUBSET K : W = U \ {k}
    OBVIOUS
  <2>3. Cardinality(W) = n
    <3>1. Cardinality(W) = Cardinality(U) - 1
      BY <1>2, <2>1, <2>2, FS_RemoveElement
    <3> QED  BY <3>1
  <2>4. Q(W)
    BY <1>4, <2>3
  <2>5. A[U] = g[k] + A[W] /\ A[W] \in Int
    BY <1>1, <2>1, <2>2 DEF Additive
  <2>6. PICK c \in O : c = seg[k]
    BY <2>1
  <2>7. PICK f0 : f0 = F(W)
    OBVIOUS
  <2>8. PICK f1 : f1 = F(U)
    OBVIOUS
  <2>9. f0 \in [O -> Int] /\ f1 \in [O -> Int]
    BY <1>2, <2>7, <2>8
  <2>10. ASSUME NEW l \in O, l # c
         PROVE  f1[l] = f0[l]
    <3>1. part(U, l) = part(W, l)
      BY <2>2, <2>6, <2>10
    <3>2. f1[l] = p[l] * Cardinality(part(U, l)) /\ f0[l] = p[l] * Cardinality(part(W, l))
      BY <2>7, <2>8
    <3> HIDE DEF part
    <3> QED  BY <3>1, <3>2
  <2>11. f1[c] - f0[c] = p[c]
    <3>1. k \in part(U, c) /\ part(W, c) = part(U, c) \ {k}
      BY <2>1, <2>2, <2>6
    <3>2. Cardinality(part(W, c)) = Cardinality(part(U, c)) - 1
      <4> HIDE DEF part, F
      <4> QED  BY <1>2, <3>1, FS_RemoveElement
    <3>3. f1[c] = p[c] * Cardinality(part(U, c)) /\ f0[c] = p[c] * Cardinality(part(W, c))
      BY <2>7, <2>8
    <3>4. PICK m \in Int : m = Cardinality(part(U, c))
      <4>1. Cardinality(part(U, c)) \in Nat
        BY <1>2
      <4> HIDE DEF part
      <4> QED  BY <4>1
    <3>5. PICK x \in Int : x = p[c]
      OBVIOUS
    <3>6. f1[c] = x * m /\ f0[c] = x * (m - 1)
      <4> HIDE DEF part
      <4> QED  BY <3>2, <3>3, <3>4, <3>5
    <3>7. x * (m - 1) = x * m - x
      BY <3>4, <3>5
    <3> QED  BY <3>5, <3>6, <3>7
  <2>12. SumOver(f0, O) \in Int /\ SumOver(f1, O) = SumOver(f0, O) + (f1[c] - f0[c])
    BY <2>9, <2>10, SumChanged
  <2>13. g[k] = p[c] /\ p[c] \in Int
    BY <2>1, <2>6
  <2>14. SumOver(f0, O) = A[W]
    <3> HIDE DEF F
    <3> QED  BY <2>4, <2>7
  <2>15. SumOver(f1, O) = A[U]
    BY <2>5, <2>11, <2>12, <2>13, <2>14
  <2> HIDE DEF F
  <2> QED  BY <2>8, <2>15
<1>5. PICK m \in Nat : m = Cardinality(K)
  BY FS_CardinalityType
<1>6. m \in G
  <2>1. \A k \in 0..m : k \in G /\ k < m => k + 1 \in G
    <3> HIDE DEF G
    <3> QED  BY <1>4
  <2>2. m \in 0..m
    BY <1>5
  <2> HIDE DEF G
  <2> QED  BY <1>3, <1>5, <2>1, <2>2, Climb
<1>7. Q(K)
  <2> HIDE DEF Q
  <2> QED  BY <1>5, <1>6
<1>8. F(K) = f
  BY DEF PartByPart
<1> HIDE DEF F
<1> QED  BY <1>1, <1>7, <1>8

-----------------------------------------------------------------------------
(* Division *)

LEMMA ProductGrows ==
    ASSUME NEW c \in Nat, NEW x \in Int, NEW y \in Int, x <= y
    PROVE  c * x \in Int /\ c * y \in Int /\ c * x <= c * y
OBVIOUS

\* What the truncating division of positive numbers leaves.
LEMMA DivLaw ==
    ASSUME NEW a \in Int, NEW c \in Nat \ {0}
    PROVE  /\ a \div c \in Int
           /\ c * (a \div c) <= a /\ a < c * (a \div c) + c
OBVIOUS

LEMMA DivAtMost ==
    ASSUME NEW a \in Int, NEW q \in Int, NEW c \in Nat \ {0}, a < c * q + c
    PROVE  a \div c <= q
<1>1. PICK d \in Int : d = a \div c /\ c * d <= a
  BY DivLaw
<1>2. ASSUME q + 1 <= d
      PROVE  FALSE
  <2>1. c * (q + 1) <= c * d
    BY <1>2, ProductGrows
  <2>2. c * (q + 1) = c * q + c
    OBVIOUS
  <2> QED  BY <1>1, <2>1, <2>2
<1> QED  BY <1>1, <1>2

LEMMA DivAtLeast ==
    ASSUME NEW a \in Int, NEW q \in Int, NEW c \in Nat \ {0}, c * q <= a
    PROVE  q <= a \div c
<1>1. PICK d \in Int : d = a \div c /\ a < c * d + c
  BY DivLaw
<1>2. ASSUME d + 1 <= q
      PROVE  FALSE
  <2>1. c * (d + 1) <= c * q
    BY <1>2, ProductGrows
  <2>2. c * (d + 1) = c * d + c
    OBVIOUS
  <2> QED  BY <1>1, <2>1, <2>2
<1> QED  BY <1>1, <1>2

\* Two opposite ratios, each rounded down, multiply to at most one.
LEMMA OppositeRatios ==
    ASSUME NEW a \in Nat \ {0}, NEW b \in Nat \ {0}, NEW s \in Nat
    PROVE  ((a * s) \div b) * ((b * s) \div a) <= s * s
<1>1. a * s \in Nat /\ b * s \in Nat
  OBVIOUS
<1>2. PICK r \in Int : r = (a * s) \div b /\ b * r <= a * s
  BY <1>1, DivLaw
<1>3. PICK t \in Int : t = (b * s) \div a /\ a * t <= b * s
  BY <1>1, DivLaw
<1>4. r >= 0
  BY <1>1, <1>2, DivAtLeast
<1>5. r * (a * t) <= r * (b * s)
  BY <1>1, <1>3, <1>4, ProductGrows
<1>6. s * (b * r) <= s * (a * s)
  BY <1>1, <1>2, ProductGrows
<1>7. a * (r * t) <= a * (s * s)
  <2>1. r * (a * t) = a * (r * t) /\ r * (b * s) = s * (b * r) /\ s * (a * s) = a * (s * s)
    OBVIOUS
  <2> QED  BY <1>5, <1>6, <2>1
<1>8. ASSUME s * s + 1 <= r * t
      PROVE  FALSE
  <2>1. r * t \in Int /\ s * s \in Int
    OBVIOUS
  <2>2. a * (s * s + 1) <= a * (r * t)
    BY <1>8, <2>1, ProductGrows
  <2>3. a * (s * s + 1) = a * (s * s) + a
    OBVIOUS
  <2> QED  BY <1>7, <2>1, <2>2, <2>3
<1> QED  BY <1>2, <1>3, <1>8

\* A ratio taken through a third price, rounded down twice, is at most the
\* direct one and short of it by at most one unit of the third and one of rounding.
LEMMA CrossNearDirect ==
    ASSUME NEW a \in Nat, NEW p \in Nat \ {0}, NEW q \in Nat \ {0}, NEW s \in Nat
    PROVE  LET cross == (((a * s) \div p) * p) \div q
               direct == (a * s) \div q
           IN  cross <= direct /\ direct <= cross + (p \div q + 1)
<1>1. PICK n \in Nat : n = a * s
  OBVIOUS
<1>2. PICK r \in Int : r = n \div p /\ p * r <= n /\ n < p * r + p
  BY DivLaw
<1>3. PICK m \in Int : m = r * p
  OBVIOUS
<1>4. m <= n /\ n < m + p
  BY <1>2, <1>3
<1>5. PICK c \in Int : c = m \div q /\ q * c <= m /\ m < q * c + q
  BY DivLaw
<1>6. PICK d \in Int : d = n \div q /\ q * d <= n /\ n < q * d + q
  BY DivLaw
<1>7. PICK u \in Int : u = p \div q /\ q * u <= p /\ p < q * u + q
  BY DivLaw
<1>8. c <= d
  BY <1>4, <1>5, <1>6, DivAtLeast
<1>9. d <= c + (u + 1)
  <2>1. q * (c + (u + 1)) = q * c + q * u + q
    OBVIOUS
  <2>2. q * c \in Int /\ q * u \in Int
    OBVIOUS
  <2>3. n < q * (c + (u + 1)) + q
    BY <1>4, <1>5, <1>7, <2>1, <2>2
  <2> QED  BY <1>6, <2>3, DivAtMost
<1> QED  BY <1>1, <1>2, <1>3, <1>5, <1>6, <1>7, <1>8, <1>9

\* Terms w that vanish outside L, each divided by W, and the indicator of L.
Divided(S, L, W, w, d, u) ==
    \A i \in S : /\ d[i] = w[i] \div W
                 /\ u[i] = IF i \in L THEN 1 ELSE 0
                 /\ i \notin L => w[i] = 0

\* The sums of the terms, of their quotients and of the indicator.
Summed(S, w, A, d, D, u, U) ==
    Additive(w, S, A) /\ Additive(d, S, D) /\ Additive(u, S, U)

\* A quotient is the sum below it, or more by less than one for each of k parts.
NearSum(quotient, sum, k) ==
    /\ k \in Nat /\ sum \in Int
    /\ sum <= quotient
    /\ quotient < sum + (IF k > 1 THEN k ELSE 1)

\* A sum divided once is at least the sum of the parts divided apart, and more
\* by less than one for each part that counts, or by nothing.
LEMMA PartsAndWhole ==
    ASSUME NEW S, IsFiniteSet(S), NEW W \in Nat \ {0}, NEW L \in SUBSET S,
           NEW w \in [S -> Int], NEW d \in [S -> Int], NEW u \in [S -> Int],
           Divided(S, L, W, w, d, u),
           NEW A, NEW D, NEW U, Summed(S, w, A, d, D, u, U)
    PROVE  NearSum(A[S] \div W, D[S], Cardinality(L))
<1> /\ Additive(w, S, A) /\ Additive(d, S, D) /\ Additive(u, S, U)
  BY DEF Summed
<1> SUFFICES /\ Cardinality(L) \in Nat /\ D[S] \in Int
             /\ D[S] <= A[S] \div W
             /\ A[S] \div W < D[S] + (IF Cardinality(L) > 1 THEN Cardinality(L) ELSE 1)
  BY DEF NearSum
<1>1. S \in SUBSET S /\ A[S] \in Int /\ D[S] \in Int /\ U[S] \in Int
  BY DEF Additive
<1>2. U[S] = Cardinality(L) /\ Cardinality(L) \in Nat
  <2>1. \A i \in S : u[i] = IF i \in L THEN 1 ELSE 0
    BY DEF Divided
  <2> QED  BY <2>1, SumCounts
<1>3. ASSUME NEW i \in S
      PROVE  W * d[i] <= w[i] /\ w[i] <= W * d[i] + (W - 1) * u[i]
  <2> /\ d[i] = w[i] \div W /\ u[i] = IF i \in L THEN 1 ELSE 0
      /\ i \notin L => w[i] = 0
    BY DEF Divided
  <2>1. PICK x \in Int : x = w[i]
    OBVIOUS
  <2>2. PICK y \in Int : y = d[i] /\ W * y <= x /\ x < W * y + W
    BY <2>1, DivLaw
  <2>3. CASE i \in L
    <3>1. u[i] = 1 /\ W * y \in Int
      BY <2>3
    <3>2. x <= W * y + (W - 1) * 1
      BY <2>2, <3>1
    <3> QED  BY <2>1, <2>2, <3>1, <3>2
  <2>4. CASE i \notin L
    <3>1. u[i] = 0 /\ x = 0
      BY <2>1, <2>4
    <3>2. y = 0
      <4>1. y = 0 \div W
        BY <2>1, <2>2, <3>1
      <4>2. 0 < W * 0 + W /\ W * 0 <= 0
        OBVIOUS
      <4>3. 0 \div W <= 0 /\ 0 <= 0 \div W
        BY <4>2, DivAtMost, DivAtLeast
      <4> QED  BY <4>1, <4>3
    <3> QED  BY <2>1, <2>2, <3>1, <3>2
  <2> QED  BY <2>3, <2>4
<1>4. PICK one \in Int, nil \in Int, V \in Int : one = 1 /\ nil = 0 /\ V = W - 1
  OBVIOUS
<1>5. W * D[S] <= one * A[S] + nil * A[S]
  <2>1. TermsBound(S, W, d, one, w, nil, w)
    <3> SUFFICES ASSUME NEW i \in S PROVE W * d[i] <= one * w[i] + nil * w[i]
      BY DEF TermsBound
    <3>1. one * w[i] + nil * w[i] = w[i]
      BY <1>4
    <3> QED  BY <1>3, <3>1
  <2>2. W \in Int
    OBVIOUS
  <2> QED  BY <1>1, <2>1, <2>2, SumBound
<1>6. one * A[S] <= W * D[S] + V * U[S]
  <2>1. TermsBound(S, one, w, W, d, V, u)
    <3> SUFFICES ASSUME NEW i \in S PROVE one * w[i] <= W * d[i] + V * u[i]
      BY DEF TermsBound
    <3>1. one * w[i] = w[i]
      BY <1>4
    <3> QED  BY <1>3, <1>4, <3>1
  <2>2. W \in Int
    OBVIOUS
  <2> QED  BY <1>1, <2>1, <2>2, SumBound
<1>7. PICK a \in Int, s \in Int, k \in Nat : a = A[S] /\ s = D[S] /\ k = Cardinality(L)
  BY <1>1, <1>2
<1>8. W * s <= a /\ a <= W * s + V * k
  <2>1. one * a = a /\ nil * a = 0
    BY <1>4
  <2>2. W * s <= one * a + nil * a /\ one * a <= W * s + V * k
    BY <1>2, <1>5, <1>6, <1>7
  <2> QED  BY <2>1, <2>2
<1>9. s <= a \div W
  BY <1>8, DivAtLeast
<1>10. CASE k = 0
  <2>1. V * k = 0 /\ W * s \in Int
    BY <1>10
  <2>2. a < W * s + W
    BY <1>8, <2>1
  <2>3. a \div W <= s /\ a \div W \in Int
    BY <2>2, DivAtMost, DivLaw
  <2> QED  BY <1>2, <1>7, <1>9, <1>10, <2>3
<1>11. CASE k > 0
  <2>1. V * k = W * k - k /\ W * (s + k - 1) = W * s + W * k - W
    BY <1>4
  <2>2. W * s \in Int /\ W * k \in Int
    OBVIOUS
  <2>3. a < W * (s + k - 1) + W
    BY <1>8, <1>11, <2>1, <2>2
  <2>4. a \div W <= s + k - 1 /\ a \div W \in Int
    <3>1. PICK t \in Int : t = s + k - 1
      OBVIOUS
    <3>2. a < W * t + W
      BY <2>3, <3>1
    <3>3. a \div W <= t
      BY <3>2, DivAtMost
    <3>4. a \div W \in Int
      BY DivLaw
    <3> QED  BY <3>1, <3>3, <3>4
  <2> QED  BY <1>2, <1>7, <1>9, <1>11, <2>4
<1> QED  BY <1>7, <1>10, <1>11

\* A mean with weights that make up W stays between the bounds of its terms.
LEMMA MeanBelow ==
    ASSUME NEW S, IsFiniteSet(S), NEW W \in Nat \ {0}, NEW w \in [S -> Int], NEW g \in [S -> Int],
           NEW A, NEW G, Additive(w, S, A), Additive(g, S, G), G[S] = W,
           NEW M \in Int, \A i \in S : w[i] <= M * g[i]
    PROVE  A[S] \div W <= M
<1>1. S \in SUBSET S /\ A[S] \in Int
  BY DEF Additive
<1>2. PICK one \in Int, nil \in Int : one = 1 /\ nil = 0
  OBVIOUS
<1>3. one * A[S] <= M * G[S] + nil * G[S]
  <2>1. TermsBound(S, one, w, M, g, nil, g)
    <3> SUFFICES ASSUME NEW i \in S PROVE one * w[i] <= M * g[i] + nil * g[i]
      BY DEF TermsBound
    <3>1. one * w[i] = w[i] /\ nil * g[i] = 0 /\ M * g[i] \in Int
      BY <1>2
    <3> QED  BY <3>1
  <2> QED  BY <1>1, <2>1, SumBound
<1>4. A[S] <= M * W
  BY <1>1, <1>2, <1>3
<1>5. A[S] < W * M + W
  <2>1. M * W = W * M /\ W * M \in Int
    OBVIOUS
  <2> QED  BY <1>1, <1>4, <2>1
<1> QED  BY <1>1, <1>5, DivAtMost

LEMMA MeanAbove ==
    ASSUME NEW S, IsFiniteSet(S), NEW W \in Nat \ {0}, NEW w \in [S -> Int], NEW g \in [S -> Int],
           NEW A, NEW G, Additive(w, S, A), Additive(g, S, G), G[S] = W,
           NEW m \in Int, \A i \in S : m * g[i] <= w[i]
    PROVE  m <= A[S] \div W
<1>1. S \in SUBSET S /\ A[S] \in Int
  BY DEF Additive
<1>2. PICK one \in Int, nil \in Int : one = 1 /\ nil = 0
  OBVIOUS
<1>3. m * G[S] <= one * A[S] + nil * A[S]
  <2>1. TermsBound(S, m, g, one, w, nil, w)
    <3> SUFFICES ASSUME NEW i \in S PROVE m * g[i] <= one * w[i] + nil * w[i]
      BY DEF TermsBound
    <3>1. one * w[i] = w[i] /\ nil * w[i] = 0
      BY <1>2
    <3> QED  BY <3>1
  <2> QED  BY <1>1, <2>1, SumBound
<1>4. W * m <= A[S]
  <2>1. W * m = m * W
    OBVIOUS
  <2> QED  BY <1>1, <1>2, <1>3, <2>1
<1> QED  BY <1>1, <1>4, DivAtLeast

-----------------------------------------------------------------------------
(* Lists *)

\* The folds over a list take its greatest index first.
Top(T) == CHOOSE m \in T : \A k \in T : m >= k

LEMMA TopIsGreatest ==
    ASSUME NEW n \in Nat, NEW T \in SUBSET (1..n), T # {}
    PROVE  Top(T) \in T /\ \A k \in T : Top(T) >= k
<1>1. T \in SUBSET Nat /\ \A m \in T : m <= n
  OBVIOUS
<1>2. \E m \in T : \A k \in T : k <= m
  BY <1>1, GreatestNatural
<1>3. \E m \in T : \A k \in T : m >= k
  BY <1>1, <1>2
<1> QED  BY <1>3 DEF Top

LEMMA PrefixStep ==
    ASSUME NEW k \in Nat, k # 0
    PROVE  Top(1..k) = k /\ (1..k) \ {k} = 1..(k - 1)
<1>1. 1..k \in SUBSET (1..k) /\ k \in 1..k
  OBVIOUS
<1>2. Top(1..k) \in 1..k /\ \A j \in 1..k : Top(1..k) >= j
  BY <1>1, TopIsGreatest
<1> QED  BY <1>1, <1>2

\* Some function folds a list with F.
ListFold(n, Y, F, base, it) ==
    /\ it \in [SUBSET (1..n) -> Y] /\ it[{}] = base
    /\ \A T \in SUBSET (1..n) : T # {} => it[T] = F[<<Top(T), it[T \ {Top(T)}]>>]
LEMMA ListFoldExists ==
    ASSUME NEW n \in Nat, NEW Y, NEW F \in [(1..n) \X Y -> Y], NEW base \in Y
    PROVE  \E it : ListFold(n, Y, F, base, it)
<1>1. PICK S : S = 1..n
  OBVIOUS
<1>2. PICK C : C = [T \in SUBSET S |-> Top(T)]
  OBVIOUS
<1>3. Foldable(S, Y, F, C, base)
  <2>1. IsFiniteSet(S)
    BY <1>1, FS_Interval
  <2>2. \A T \in SUBSET S : T # {} => C[T] \in T
    BY <1>1, <1>2, TopIsGreatest
  <2> QED  BY <1>1, <2>1, <2>2 DEF Foldable
<1>4. PICK it : Folding(S, Y, F, C, base, it)
  BY <1>3, FoldingExists
<1>5. it \in [SUBSET S -> Y] /\ \A T \in SUBSET S : it[T] = FoldStep(F, C, base, it, T)
  BY <1>4 DEF Folding
<1>6. \A T \in SUBSET S : T # {} => it[T] = F[<<Top(T), it[T \ {Top(T)}]>>]
  BY <1>2, <1>5 DEF FoldStep
<1>7. it[{}] = base
  BY <1>5 DEF FoldStep
<1> QED  BY <1>1, <1>5, <1>6, <1>7 DEF ListFold

\* The list s without the members of L, as a fold that appends the others.
FilterStep(s, L, it, T) ==
    IF T = {} THEN <<>>
    ELSE LET x == Top(T) IN IF s[x] \in L THEN it[T \ {x}] ELSE Append(it[T \ {x}], s[x])
Filtering(s, L, it) == it = [T \in SUBSET DOMAIN s |-> FilterStep(s, L, it, T)]
Filtered(s, L) == (CHOOSE it : Filtering(s, L, it))[DOMAIN s]

\* Its prefixes, one by one.
LEMMA FilterPrefixes ==
    ASSUME NEW S, NEW s \in Seq(S), NEW L
    PROVE  \E A : /\ Filtered(s, L) = A[Len(s)] /\ A[0] = <<>>
                  /\ \A k \in 1..Len(s) :
                       A[k] = IF s[k] \in L THEN A[k - 1] ELSE Append(A[k - 1], s[k])
<1>1. PICK n \in Nat : n = Len(s)
  OBVIOUS
<1>2. DOMAIN s = 1..n /\ \A i \in 1..n : s[i] \in S
  BY <1>1
<1>3. PICK Y : Y = Seq(S)
  OBVIOUS
<1>4. PICK F : F = [xy \in (1..n) \X Y |->
                      IF s[xy[1]] \in L THEN xy[2] ELSE Append(xy[2], s[xy[1]])]
  OBVIOUS
<1>5. \A x \in 1..n, y \in Y : Append(y, s[x]) \in Y
  BY <1>2, <1>3
<1>6. F \in [(1..n) \X Y -> Y]
  BY <1>4, <1>5
<1>7. \A x \in 1..n, y \in Y : F[<<x, y>>] = IF s[x] \in L THEN y ELSE Append(y, s[x])
  BY <1>4
<1>8. PICK empty : empty = <<>>
  OBVIOUS
<1>9. empty \in Y
  BY <1>3, <1>8
<1>10. PICK it : ListFold(n, Y, F, empty, it)
  BY <1>6, <1>9, ListFoldExists
<1>11. ASSUME NEW T \in SUBSET (1..n)
       PROVE  it[T] = FilterStep(s, L, it, T)
  <2>1. CASE T = {}
    BY <1>8, <1>10, <2>1 DEF ListFold, FilterStep
  <2>2. CASE T # {}
    <3>1. PICK x \in 1..n : x = Top(T)
      BY <2>2, TopIsGreatest
    <3>2. it[T] = F[<<x, it[T \ {x}]>>] /\ it[T \ {x}] \in Y
      BY <1>10, <2>2, <3>1 DEF ListFold
    <3>3. it[T] = IF s[x] \in L THEN it[T \ {x}] ELSE Append(it[T \ {x}], s[x])
      BY <1>7, <3>2
    <3> QED  BY <2>2, <3>1, <3>3 DEF FilterStep
  <2> QED  BY <2>1, <2>2
<1>12. Filtering(s, L, it)
  <2>1. it = [T \in SUBSET (1..n) |-> FilterStep(s, L, it, T)]
    BY <1>10, <1>11 DEF ListFold
  <2> QED  BY <1>2, <2>1 DEF Filtering
<1>13. PICK B : B = CHOOSE h : Filtering(s, L, h)
  OBVIOUS
<1>14. Filtering(s, L, B) /\ Filtered(s, L) = B[1..n]
  BY <1>2, <1>12, <1>13 DEF Filtered
<1>15. \A T \in SUBSET (1..n) : B[T] = FilterStep(s, L, B, T)
  <2>1. PICK step : step = [T \in SUBSET (1..n) |-> FilterStep(s, L, B, T)]
    OBVIOUS
  <2>2. B = step
    BY <1>2, <1>14, <2>1 DEF Filtering
  <2> QED  BY <2>1, <2>2
<1>16. PICK A : A = [k \in 0..n |-> B[1..k]]
  OBVIOUS
<1>17. A[n] = Filtered(s, L) /\ A[0] = <<>>
  <2>1. 1..0 = {} /\ 0 \in 0..n /\ n \in 0..n
    OBVIOUS
  <2>2. B[{}] = <<>>
    BY <1>15 DEF FilterStep
  <2> QED  BY <1>14, <1>16, <2>1, <2>2
<1>18. ASSUME NEW k \in 1..n
       PROVE  A[k] = IF s[k] \in L THEN A[k - 1] ELSE Append(A[k - 1], s[k])
  <2>1. PICK T : T = 1..k
    OBVIOUS
  <2>2. T \in SUBSET (1..n) /\ T # {}
    <3>1. k \in 1..k /\ 1..k \subseteq 1..n
      OBVIOUS
    <3> QED  BY <2>1, <3>1
  <2>3. Top(T) = k /\ T \ {k} = 1..(k - 1)
    BY <2>1, PrefixStep
  <2>4. A[k] = B[T] /\ A[k - 1] = B[T \ {k}]
    <3>1. A[k] = B[1..k] /\ A[k - 1] = B[1..(k - 1)]
      <4>1. k \in 0..n /\ k - 1 \in 0..n
        OBVIOUS
      <4> QED  BY <1>16, <4>1
    <3> QED  BY <2>1, <2>3, <3>1
  <2>5. B[T] = IF s[k] \in L THEN B[T \ {k}] ELSE Append(B[T \ {k}], s[k])
    BY <1>15, <2>2, <2>3 DEF FilterStep
  <2> QED  BY <2>4, <2>5
<1> QED  BY <1>1, <1>17, <1>18

Members(s) == {s[i] : i \in DOMAIN s}
\* Every pair of members in the order of the list is in R.
Ordered(s, R) == \A i, j \in DOMAIN s : i < j => <<s[i], s[j]>> \in R

\* The members of s that are not in L stay, in their order.
LEMMA FilterLaw ==
    ASSUME NEW S, NEW s \in Seq(S), NEW L, NEW R, Ordered(s, R)
    PROVE  /\ Filtered(s, L) \in Seq(S)
           /\ Members(Filtered(s, L)) = Members(s) \ L
           /\ Ordered(Filtered(s, L), R)
<1>1. PICK n \in Nat : n = Len(s)
  OBVIOUS
<1>2. DOMAIN s = 1..n /\ \A i \in 1..n : s[i] \in S
  BY <1>1
<1>3. PICK A : /\ Filtered(s, L) = A[n] /\ A[0] = <<>>
               /\ \A k \in 1..n :
                    A[k] = IF s[k] \in L THEN A[k - 1] ELSE Append(A[k - 1], s[k])
  BY <1>1, FilterPrefixes
<1> DEFINE Q(k) == /\ A[k] \in Seq(S)
                   /\ {A[k][i] : i \in DOMAIN A[k]} = {s[i] : i \in 1..k} \ L
                   /\ Ordered(A[k], R)
           G == {k \in 0..n : Q(k)}
<1>4. 0 \in G
  <2>1. A[0] \in Seq(S) /\ DOMAIN A[0] = {} /\ 1..0 = {} /\ 0 \in 0..n
    BY <1>3
  <2> QED  BY <2>1 DEF Ordered
<1>5. ASSUME NEW k \in 0..n, k \in G, k < n
      PROVE  k + 1 \in G
  <2>1. PICK q : q = A[k]
    OBVIOUS
  <2>2. q \in Seq(S) /\ {q[i] : i \in DOMAIN q} = {s[i] : i \in 1..k} \ L /\ Ordered(q, R)
    BY <1>5, <2>1
  <2>3. PICK m \in 1..n : m = k + 1
    BY <1>5
  <2>4. A[m] = IF s[m] \in L THEN q ELSE Append(q, s[m])
    <3>1. m - 1 = k
      BY <2>3
    <3> QED  BY <1>3, <2>1, <3>1
  <2>5. {s[i] : i \in 1..m} = {s[i] : i \in 1..k} \cup {s[m]}
    <3>1. 1..m = (1..k) \cup {m}
      BY <2>3
    <3> QED  BY <3>1
  <2>6. CASE s[m] \in L
    <3>1. A[m] = q
      BY <2>4, <2>6
    <3>2. {s[i] : i \in 1..m} \ L = {s[i] : i \in 1..k} \ L
      BY <2>5, <2>6
    <3>3. Q(m)
      BY <2>2, <3>1, <3>2
    <3> QED  BY <2>3, <3>3
  <2>7. CASE s[m] \notin L
    <3>1. PICK r : r = Append(q, s[m])
      OBVIOUS
    <3>2. PICK l \in Nat : l = Len(q)
      BY <2>2
    <3>3. /\ r \in Seq(S) /\ DOMAIN r = 1..(l + 1) /\ DOMAIN q = 1..l
          /\ r[l + 1] = s[m] /\ \A i \in 1..l : r[i] = q[i]
      BY <1>2, <2>2, <3>1, <3>2
    <3>4. {r[i] : i \in DOMAIN r} = {q[i] : i \in DOMAIN q} \cup {s[m]}
      <4>1. 1..(l + 1) = (1..l) \cup {l + 1}
        BY <3>2
      <4> QED  BY <3>3, <4>1
    <3>5. {r[i] : i \in DOMAIN r} = {s[i] : i \in 1..m} \ L
      BY <2>2, <2>5, <2>7, <3>4
    <3>6. \A i \in 1..l : \E j \in 1..k : q[i] = s[j]
      BY <2>2, <3>3
    <3>7. ASSUME NEW i \in DOMAIN r, NEW j \in DOMAIN r, i < j
          PROVE  <<r[i], r[j]>> \in R
      <4>1. i \in 1..l
        BY <3>2, <3>3, <3>7
      <4>2. CASE j \in 1..l
        BY <2>2, <3>3, <3>7, <4>1, <4>2 DEF Ordered
      <4>3. CASE j = l + 1
        <5>1. PICK a \in 1..k : q[i] = s[a]
          BY <3>6, <4>1
        <5>2. a \in DOMAIN s /\ m \in DOMAIN s /\ a < m
          BY <1>2, <2>3
        <5>3. <<s[a], s[m]>> \in R
          BY <5>2 DEF Ordered
        <5> QED  BY <3>3, <4>1, <4>3, <5>1, <5>3
      <4> QED  BY <3>2, <3>3, <4>2, <4>3
    <3>8. Ordered(r, R)
      BY <3>7 DEF Ordered
    <3>9. Q(m)
      BY <2>4, <2>7, <3>1, <3>3, <3>5, <3>8
    <3> QED  BY <2>3, <3>9
  <2> QED  BY <2>6, <2>7
<1>6. Q(n)
  <2> HIDE DEF Q
  <2>1. n \in 0..n
    OBVIOUS
  <2>2. n \in G
    <3> HIDE DEF G
    <3> QED  BY <1>4, <1>5, <2>1, Climb
  <2> QED  BY <2>2
<1>7. A[n] = Filtered(s, L)
  BY <1>3
<1> HIDE DEF G
<1> QED  BY <1>2, <1>6, <1>7 DEF Members

\* A list of rising numbers.
Rising == {xy \in Nat \X Nat : xy[1] < xy[2]}

\* Cutting a rising list in two parts its members.
LEMMA CutLaw ==
    ASSUME NEW t \in Nat, NEW s \in Seq(1..t), Ordered(s, Rising), NEW n \in 0..Len(s)
    PROVE  /\ SubSeq(s, n + 1, Len(s)) \in Seq(1..t)
           /\ Ordered(SubSeq(s, n + 1, Len(s)), Rising)
           /\ Members(SubSeq(s, n + 1, Len(s))) = Members(s) \ Members(SubSeq(s, 1, n))
           /\ Members(SubSeq(s, 1, n)) \subseteq Members(s)
<1>1. PICK m \in Nat : m = Len(s)
  OBVIOUS
<1>2. DOMAIN s = 1..m /\ (\A i \in 1..m : s[i] \in 1..t) /\ n \in 0..m
  BY <1>1
<1>3. PICK a : a = SubSeq(s, 1, n)
  OBVIOUS
<1>4. PICK b : b = SubSeq(s, n + 1, m)
  OBVIOUS
<1>5. DOMAIN a = 1..n /\ \A i \in 1..n : a[i] = s[i]
  BY <1>1, <1>2, <1>3
<1>6. b \in Seq(1..t) /\ DOMAIN b = 1..(m - n) /\ \A i \in 1..(m - n) : b[i] = s[n + i]
  BY <1>1, <1>2, <1>4
<1>7. \A i, j \in 1..m : i < j => s[i] < s[j]
  BY <1>2 DEF Ordered, Rising
<1>8. ASSUME NEW i \in DOMAIN b, NEW j \in DOMAIN b, i < j
      PROVE  <<b[i], b[j]>> \in Rising
  <2>1. i \in 1..(m - n) /\ j \in 1..(m - n)
    BY <1>6
  <2>2. n + i \in 1..m /\ n + j \in 1..m /\ n + i < n + j
    BY <1>2, <1>8, <2>1
  <2>3. s[n + i] < s[n + j] /\ s[n + i] \in Nat /\ s[n + j] \in Nat
    BY <1>2, <1>7, <2>2
  <2>4. b[i] = s[n + i] /\ b[j] = s[n + j]
    BY <1>6, <2>1
  <2> QED  BY <2>3, <2>4 DEF Rising
<1>9. Members(a) \subseteq Members(s)
  BY <1>2, <1>5 DEF Members
<1>10. ASSUME NEW x \in Members(b)
       PROVE  x \in Members(s) \ Members(a)
  <2>1. PICK i \in 1..(m - n) : x = s[n + i]
    BY <1>6 DEF Members
  <2>2. n + i \in 1..m /\ \A j \in 1..n : j \in 1..m /\ j < n + i
    BY <1>2
  <2>3. \A j \in 1..n : s[j] \in 1..t /\ s[n + i] \in 1..t /\ s[j] < s[n + i]
    BY <1>2, <1>7, <2>2
  <2>4. \A j \in 1..n : s[j] # s[n + i]
    BY <2>3
  <2> QED  BY <1>2, <1>5, <2>1, <2>2, <2>4 DEF Members
<1>11. ASSUME NEW x \in Members(s) \ Members(a)
       PROVE  x \in Members(b)
  <2>1. PICK i \in 1..m : x = s[i]
    BY <1>2 DEF Members
  <2>2. i \notin 1..n
    BY <1>5, <1>11, <2>1 DEF Members
  <2>3. i - n \in 1..(m - n) /\ n + (i - n) = i
    BY <1>2, <2>2
  <2>4. b[i - n] = x
    BY <1>6, <2>1, <2>3
  <2> QED  BY <1>6, <2>3, <2>4 DEF Members
<1>12. Members(b) = Members(s) \ Members(a)
  BY <1>10, <1>11
<1>13. Ordered(b, Rising)
  BY <1>8 DEF Ordered
<1> QED  BY <1>1, <1>3, <1>4, <1>6, <1>9, <1>12, <1>13

\* A number above all of a rising list is put behind it.
LEMMA AppendLaw ==
    ASSUME NEW t \in Nat, NEW s \in Seq(1..t), Ordered(s, Rising), NEW x \in 1..t,
           \A y \in Members(s) : y < x
    PROVE  /\ Append(s, x) \in Seq(1..t)
           /\ Ordered(Append(s, x), Rising)
           /\ Members(Append(s, x)) = Members(s) \cup {x}
<1>1. PICK m \in Nat : m = Len(s)
  OBVIOUS
<1>2. DOMAIN s = 1..m /\ \A i \in 1..m : s[i] \in 1..t /\ s[i] < x
  BY <1>1 DEF Members
<1>3. \A i, j \in 1..m : i < j => s[i] < s[j]
  BY <1>2 DEF Ordered, Rising
<1>4. PICK r : r = Append(s, x)
  OBVIOUS
<1>5. r \in Seq(1..t) /\ DOMAIN r = 1..(m + 1) /\ r[m + 1] = x /\ \A i \in 1..m : r[i] = s[i]
  BY <1>1, <1>4
<1>6. Members(r) = Members(s) \cup {x}
  <2>1. 1..(m + 1) = (1..m) \cup {m + 1}
    OBVIOUS
  <2>2. \A y : (\E i \in 1..(m + 1) : y = r[i]) <=> (\E i \in 1..m : y = s[i]) \/ y = x
    BY <1>5, <2>1
  <2>3. DOMAIN s = 1..m /\ DOMAIN r = 1..(m + 1)
    BY <1>2, <1>5
  <2> QED  BY <2>2, <2>3, Zenon DEF Members
<1>7. ASSUME NEW i \in DOMAIN r, NEW j \in DOMAIN r, i < j
      PROVE  <<r[i], r[j]>> \in Rising
  <2>1. i \in 1..m /\ (j \in 1..m \/ j = m + 1)
    BY <1>5, <1>7
  <2>2. r[i] < r[j]
    BY <1>2, <1>3, <1>5, <1>7, <2>1
  <2>3. r[i] \in Nat /\ r[j] \in Nat
    BY <1>2, <1>5, <2>1
  <2> QED  BY <2>2, <2>3 DEF Rising
<1>8. Ordered(r, Rising)
  BY <1>7 DEF Ordered
<1> QED  BY <1>4, <1>5, <1>6, <1>8

\* The members of a rising list come before its last one, and a list of numbers
\* up to t that does not end with t does not hold it.
LEMMA LastIsGreatest ==
    ASSUME NEW t \in Nat, NEW s \in Seq(1..t), Ordered(s, Rising)
    PROVE  /\ \A i \in DOMAIN s : i # Len(s) => s[i] < s[Len(s)]
           /\ s = <<>> \/ s[Len(s)] # t => \A y \in Members(s) : y < t
<1>1. PICK m \in Nat : m = Len(s)
  OBVIOUS
<1>2. DOMAIN s = 1..m /\ \A i \in 1..m : s[i] \in 1..t
  BY <1>1
<1>3. ASSUME NEW i \in 1..m, i # m
      PROVE  s[i] < s[m]
  <2>1. i \in DOMAIN s /\ m \in DOMAIN s /\ i < m
    BY <1>2, <1>3
  <2>2. <<s[i], s[m]>> \in Rising
    BY <2>1 DEF Ordered
  <2> QED  BY <2>2 DEF Rising
<1>4. ASSUME s = <<>> \/ s[m] # t, NEW i \in 1..m
      PROVE  s[i] < t
  <2>1. m \in 1..m /\ s # <<>>
    BY <1>1
  <2>2. s[m] < t
    BY <1>2, <1>4, <2>1
  <2>3. s[i] \in 1..t /\ s[m] \in 1..t
    BY <1>2, <2>1
  <2> QED  BY <1>3, <2>2, <2>3
<1> QED  BY <1>1, <1>2, <1>3, <1>4 DEF Members

\* A list that names nothing twice.
Once(s) == \A i, j \in DOMAIN s : s[i] = s[j] => i = j
Precedes(s) == {xy \in Members(s) \X Members(s) :
                  \E i, j \in DOMAIN s : i < j /\ xy[1] = s[i] /\ xy[2] = s[j]}

\* Filtered, it names nothing twice, and what stays keeps its order.
LEMMA FilterOnce ==
    ASSUME NEW S, NEW s \in Seq(S), Once(s), NEW L
    PROVE  /\ Filtered(s, L) \in Seq(S) /\ Once(Filtered(s, L))
           /\ Members(Filtered(s, L)) = Members(s) \ L
           /\ Precedes(Filtered(s, L)) \subseteq Precedes(s)
<1>1. PICK R : R = Precedes(s)
  OBVIOUS
<1>2. Ordered(s, R)
  BY <1>1 DEF Ordered, Precedes, Members
<1>3. PICK t : t = Filtered(s, L)
  OBVIOUS
<1>4. t \in Seq(S) /\ Members(t) = Members(s) \ L /\ Ordered(t, R)
  BY <1>2, <1>3, FilterLaw
<1>5. \A xy \in R : xy[1] # xy[2]
  <2>1. \A i, j \in DOMAIN s : i < j => s[i] # s[j]
    <3>1. DOMAIN s \subseteq Nat
      OBVIOUS
    <3> QED  BY <3>1 DEF Once
  <2> QED  BY <1>1, <2>1 DEF Precedes
<1>6. Once(t)
  <2> SUFFICES ASSUME NEW i \in DOMAIN t, NEW j \in DOMAIN t, t[i] = t[j]
               PROVE  i = j
    BY DEF Once
  <2>1. i \in Nat /\ j \in Nat
    BY <1>4
  <2>2. ~(i < j)
    BY <1>4, <1>5 DEF Ordered
  <2>3. ~(j < i)
    BY <1>4, <1>5 DEF Ordered
  <2> QED  BY <2>1, <2>2, <2>3
<1>7. Precedes(t) \subseteq R
  BY <1>4 DEF Precedes, Ordered
<1> QED  BY <1>1, <1>3, <1>4, <1>6, <1>7

\* A newcomer is put behind a list.
LEMMA AppendOnce ==
    ASSUME NEW S, NEW s \in Seq(S), Once(s), NEW x \in S, x \notin Members(s)
    PROVE  /\ Append(s, x) \in Seq(S) /\ Once(Append(s, x))
           /\ Members(Append(s, x)) = Members(s) \cup {x}
           /\ Precedes(s) \subseteq Precedes(Append(s, x))
<1>1. PICK t : t = Append(s, x)
  OBVIOUS
<1>2. PICK n \in Nat : n = Len(s)
  OBVIOUS
<1>3. /\ t \in Seq(S) /\ DOMAIN t = 1..(n + 1) /\ DOMAIN s = 1..n
      /\ t[n + 1] = x /\ \A i \in 1..n : t[i] = s[i]
  BY <1>1, <1>2
<1>4. Members(t) = Members(s) \cup {x}
  <2>1. \A i \in 1..(n + 1) : i \in 1..n \/ i = n + 1
    BY <1>2
  <2>2. \A i \in 1..n : i \in 1..(n + 1)
    BY <1>2
  <2>3. n + 1 \in 1..(n + 1)
    BY <1>2
  <2> QED  BY <1>3, <2>1, <2>2, <2>3 DEF Members
<1>5. \A i \in 1..n : s[i] # x
  BY <1>3 DEF Members
<1>6. Once(t)
  <2> SUFFICES ASSUME NEW i \in 1..(n + 1), NEW j \in 1..(n + 1), t[i] = t[j]
               PROVE  i = j
    BY <1>3 DEF Once
  <2>1. CASE i \in 1..n /\ j \in 1..n
    BY <1>3, <2>1 DEF Once
  <2>2. CASE i = n + 1 /\ j = n + 1
    BY <2>2
  <2>3. CASE i \in 1..n /\ j = n + 1
    BY <1>3, <1>5, <2>3
  <2>4. CASE i = n + 1 /\ j \in 1..n
    BY <1>3, <1>5, <2>4
  <2> QED  BY <1>2, <2>1, <2>2, <2>3, <2>4
<1>7. Precedes(s) \subseteq Precedes(t)
  <2>1. \A i \in 1..n : i \in 1..(n + 1)
    BY <1>2
  <2> QED  BY <1>3, <1>4, <2>1 DEF Precedes
<1> QED  BY <1>1, <1>3, <1>4, <1>6, <1>7

\* One name is replaced by a newcomer.
LEMMA RenameOnce ==
    ASSUME NEW S, NEW s \in Seq(S), Once(s), NEW x \in Members(s), NEW y \in S, y \notin Members(s),
           NEW t, t = [i \in DOMAIN s |-> IF s[i] = x THEN y ELSE s[i]]
    PROVE  t \in Seq(S) /\ Once(t) /\ Members(t) = (Members(s) \ {x}) \cup {y}
<1>1. PICK n \in Nat : n = Len(s)
  OBVIOUS
<1>2. DOMAIN s = 1..n /\ \A i \in 1..n : s[i] \in S
  BY <1>1
<1>3. t \in [1..n -> S]
  BY <1>2
<1>4. t \in Seq(S)
  BY <1>1, <1>3
<1>5. \A i \in DOMAIN s : s[i] # y
  BY DEF Members
<1>6. Once(t)
  BY <1>5 DEF Once
<1>7. Members(t) = (Members(s) \ {x}) \cup {y}
  BY <1>5 DEF Members
<1> QED  BY <1>4, <1>6, <1>7

\* The list names x at most once.
OnceAt(s, x) == \A i, j \in DOMAIN s : s[i] = x /\ s[j] = x => i = j

\* A piece of a list.
LEMMA PieceLaw ==
    ASSUME NEW S, NEW s \in Seq(S), NEW m \in 1..(Len(s) + 1), NEW n \in 0..Len(s), m <= n + 1
    PROVE  /\ SubSeq(s, m, n) \in Seq(S) /\ Len(SubSeq(s, m, n)) = (n - m) + 1
           /\ \A i \in 1..((n - m) + 1) : SubSeq(s, m, n)[i] = s[(m + i) - 1]
           /\ Members(SubSeq(s, m, n)) = {s[i] : i \in m..n}
           /\ Once(s) => Once(SubSeq(s, m, n))
<1>1. PICK l \in Nat : l = Len(s)
  OBVIOUS
<1>2. PICK d \in Nat : d = (n - m) + 1
  OBVIOUS
<1>3. PICK t : t = SubSeq(s, m, n)
  OBVIOUS
<1>4. DOMAIN s = 1..l /\ m \in 1..(l + 1) /\ n \in 0..l /\ \A i \in 1..l : s[i] \in S
  BY <1>1
<1>5. t \in Seq(S) /\ Len(t) = d
  BY <1>1, <1>2, <1>3, <1>4
<1>6. DOMAIN t = 1..d
  BY <1>5
<1>7. \A i \in 1..d : t[i] = s[(m + i) - 1]
  BY <1>1, <1>2, <1>3, <1>4
<1>8. \A i \in 1..d : (m + i) - 1 \in m..n /\ (m + i) - 1 \in 1..l
  BY <1>2, <1>4
<1>9. \A i \in m..n : (i - m) + 1 \in 1..d /\ (m + ((i - m) + 1)) - 1 = i
  BY <1>2, <1>4
<1>10. Members(t) = {s[i] : i \in m..n}
  <2>1. ASSUME NEW i \in m..n
        PROVE  s[i] \in Members(t)
    <3>1. PICK j \in 1..d : (m + j) - 1 = i
      BY <1>9
    <3> QED  BY <1>6, <1>7, <3>1 DEF Members
  <2>2. ASSUME NEW i \in 1..d
        PROVE  t[i] \in {s[j] : j \in m..n}
    BY <1>7, <1>8
  <2> QED  BY <1>6, <2>1, <2>2 DEF Members
<1>11. Once(s) => Once(t)
  <2> SUFFICES ASSUME Once(s), NEW i \in 1..d, NEW j \in 1..d, t[i] = t[j]
               PROVE  i = j
    BY <1>6 DEF Once
  <2>1. (m + i) - 1 = (m + j) - 1
    BY <1>4, <1>7, <1>8 DEF Once
  <2>2. i \in Nat /\ j \in Nat /\ m \in Nat
    BY <1>2
  <2> QED  BY <2>1, <2>2
<1> QED  BY <1>2, <1>3, <1>5, <1>7, <1>10, <1>11

\* Two lists, one behind the other.
LEMMA JoinLaw ==
    ASSUME NEW S, NEW a \in Seq(S), NEW b \in Seq(S)
    PROVE  /\ a \o b \in Seq(S) /\ Len(a \o b) = Len(a) + Len(b)
           /\ Members(a \o b) = Members(a) \cup Members(b)
           /\ \A x : /\ OnceAt(a, x) /\ OnceAt(b, x) /\ ~(x \in Members(a) /\ x \in Members(b))
                     => OnceAt(a \o b, x)
<1>1. PICK l \in Nat : l = Len(a)
  OBVIOUS
<1>2. PICK m \in Nat : m = Len(b)
  OBVIOUS
<1>3. PICK t : t = a \o b
  OBVIOUS
<1>4. t \in Seq(S) /\ Len(t) = l + m
  BY <1>1, <1>2, <1>3
<1>5. DOMAIN t = 1..(l + m) /\ DOMAIN a = 1..l /\ DOMAIN b = 1..m
  BY <1>1, <1>2, <1>4
<1>6. \A i \in 1..(l + m) : t[i] = IF i <= l THEN a[i] ELSE b[i - l]
  BY <1>1, <1>2, <1>3
<1>7. /\ \A i \in 1..l : i \in 1..(l + m) /\ i <= l
      /\ \A i \in 1..m : l + i \in 1..(l + m) /\ ~(l + i <= l) /\ (l + i) - l = i
      /\ \A i \in 1..(l + m) : i <= l => i \in 1..l
      /\ \A i \in 1..(l + m) : ~(i <= l) => i - l \in 1..m
      /\ \A i, j \in 1..(l + m) : i - l = j - l => i = j
  BY <1>1, <1>2
<1>8. Members(t) = Members(a) \cup Members(b)
  <2>1. ASSUME NEW i \in 1..l
        PROVE  a[i] \in Members(t)
    BY <1>5, <1>6, <1>7 DEF Members
  <2>2. ASSUME NEW i \in 1..m
        PROVE  b[i] \in Members(t)
    <3>1. t[l + i] = b[i] /\ l + i \in 1..(l + m)
      BY <1>6, <1>7
    <3> QED  BY <1>5, <3>1 DEF Members
  <2>3. ASSUME NEW i \in 1..(l + m)
        PROVE  t[i] \in Members(a) \cup Members(b)
    <3>1. CASE i <= l
      BY <1>5, <1>6, <1>7, <3>1 DEF Members
    <3>2. CASE ~(i <= l)
      <4>1. PICK j \in 1..m : t[i] = b[j]
        BY <1>6, <1>7, <3>2
      <4> QED  BY <1>5, <4>1 DEF Members
    <3> QED  BY <3>1, <3>2
  <2> QED  BY <1>5, <2>1, <2>2, <2>3 DEF Members
<1>9. ASSUME NEW x, OnceAt(a, x), OnceAt(b, x), ~(x \in Members(a) /\ x \in Members(b))
      PROVE  OnceAt(t, x)
  <2> SUFFICES ASSUME NEW i \in 1..(l + m), NEW j \in 1..(l + m), t[i] = x, t[j] = x
               PROVE  i = j
    BY <1>5 DEF OnceAt
  <2>1. CASE i <= l /\ j <= l
    BY <1>5, <1>6, <1>7, <1>9, <2>1 DEF OnceAt
  <2>2. CASE ~(i <= l) /\ ~(j <= l)
    <3>1. i - l \in 1..m /\ j - l \in 1..m /\ b[i - l] = x /\ b[j - l] = x
      BY <1>6, <1>7, <2>2
    <3>2. i - l = j - l
      BY <1>5, <1>9, <3>1 DEF OnceAt
    <3> QED  BY <1>7, <3>2
  <2>3. ASSUME i <= l \/ j <= l
        PROVE  x \in Members(a)
    BY <1>5, <1>6, <1>7, <2>3 DEF Members
  <2>4. ASSUME ~(i <= l) \/ ~(j <= l)
        PROVE  x \in Members(b)
    <3>1. PICK q \in 1..m : b[q] = x
      BY <1>6, <1>7, <2>4
    <3> QED  BY <1>5, <3>1 DEF Members
  <2> QED  BY <1>9, <2>1, <2>2, <2>3, <2>4
<1> QED  BY <1>1, <1>2, <1>3, <1>4, <1>8, <1>9

\* A list without one of its places.
LEMMA CutOnce ==
    ASSUME NEW S, NEW s \in Seq(S), Once(s), NEW k \in 1..Len(s)
    PROVE  /\ SubSeq(s, 1, k - 1) \o SubSeq(s, k + 1, Len(s)) \in Seq(S)
           /\ Once(SubSeq(s, 1, k - 1) \o SubSeq(s, k + 1, Len(s)))
           /\ Members(SubSeq(s, 1, k - 1) \o SubSeq(s, k + 1, Len(s))) = Members(s) \ {s[k]}
           /\ Len(SubSeq(s, 1, k - 1) \o SubSeq(s, k + 1, Len(s))) = Len(s) - 1
<1>1. PICK l \in Nat : l = Len(s)
  OBVIOUS
<1>2. PICK h \in 0..l : h = k - 1
  BY <1>1
<1>3. PICK m \in 1..(l + 1) : m = k + 1
  BY <1>1
<1>4. /\ 1 \in 1..(Len(s) + 1) /\ h \in 0..Len(s) /\ 1 <= h + 1
      /\ m \in 1..(Len(s) + 1) /\ l \in 0..Len(s) /\ m <= l + 1
  BY <1>1, <1>2, <1>3
<1>5. PICK a : a = SubSeq(s, 1, h)
  OBVIOUS
<1>6. PICK b : b = SubSeq(s, m, l)
  OBVIOUS
<1>7. a \in Seq(S) /\ Len(a) = (h - 1) + 1 /\ Members(a) = {s[i] : i \in 1..h} /\ Once(a)
  BY <1>4, <1>5, PieceLaw
<1>8. b \in Seq(S) /\ Len(b) = (l - m) + 1 /\ Members(b) = {s[i] : i \in m..l} /\ Once(b)
  BY <1>4, <1>6, PieceLaw
<1>9. PICK t : t = a \o b
  OBVIOUS
<1>10. /\ t \in Seq(S) /\ Len(t) = Len(a) + Len(b) /\ Members(t) = Members(a) \cup Members(b)
       /\ \A x : /\ OnceAt(a, x) /\ OnceAt(b, x) /\ ~(x \in Members(a) /\ x \in Members(b))
                 => OnceAt(t, x)
  BY <1>7, <1>8, <1>9, JoinLaw
<1>11. DOMAIN s = 1..l /\ k \in 1..l
  BY <1>1
<1>12. /\ \A i \in 1..h : i \in 1..l /\ i # k /\ i \notin m..l
       /\ \A i \in m..l : i \in 1..l /\ i # k
       /\ \A i \in 1..l : i # k => i \in 1..h \/ i \in m..l
  BY <1>1, <1>2, <1>3, <1>11
<1>13. \A x : ~(x \in Members(a) /\ x \in Members(b))
  <2> SUFFICES ASSUME NEW x, x \in Members(a), x \in Members(b)
               PROVE  FALSE
    OBVIOUS
  <2>1. PICK i \in 1..h : x = s[i]
    BY <1>7
  <2>2. PICK j \in m..l : x = s[j]
    BY <1>8
  <2>3. i = j
    BY <1>11, <1>12, <2>1, <2>2 DEF Once
  <2> QED  BY <1>12, <2>3
<1>14. Members(t) = Members(s) \ {s[k]}
  <2>1. \A i \in 1..l : s[i] = s[k] => i = k
    BY <1>11 DEF Once
  <2> QED  BY <1>7, <1>8, <1>10, <1>11, <1>12, <2>1 DEF Members
<1>15. \A x : OnceAt(t, x)
  BY <1>7, <1>8, <1>10, <1>13 DEF Once, OnceAt
<1>16. Once(t)
  BY <1>15 DEF Once, OnceAt
<1>17. Len(t) = l - 1
  BY <1>2, <1>3, <1>7, <1>8, <1>10, <1>11
<1>18. t = SubSeq(s, 1, k - 1) \o SubSeq(s, k + 1, Len(s))
  BY <1>1, <1>2, <1>3, <1>5, <1>6, <1>9
<1> QED  BY <1>1, <1>10, <1>14, <1>16, <1>17, <1>18

\* Of two that a list names, one comes first.
LEMMA OneComesFirst ==
    ASSUME NEW S, NEW s \in Seq(S), Once(s), NEW x \in Members(s), NEW y \in Members(s), x # y
    PROVE  <<x, y>> \in Precedes(s) <=> ~(<<y, x>> \in Precedes(s))
<1>1. PICK i \in DOMAIN s : s[i] = x
  BY DEF Members
<1>2. PICK j \in DOMAIN s : s[j] = y
  BY DEF Members
<1>3. i \in Nat /\ j \in Nat /\ i # j
  BY <1>1, <1>2
<1>4. \A k, l \in DOMAIN s : (x = s[k] => k = i) /\ (y = s[l] => l = j)
  BY <1>1, <1>2 DEF Once
<1>5. <<x, y>> \in Precedes(s) <=> i < j
  BY <1>1, <1>2, <1>4 DEF Precedes
<1>6. <<y, x>> \in Precedes(s) <=> j < i
  BY <1>1, <1>2, <1>4 DEF Precedes
<1> QED  BY <1>3, <1>5, <1>6

\* What a list names up to an entry, that one included.
Through(s, x) == {y \in Members(s) : y = x \/ <<y, x>> \in Precedes(s)}

LEMMA ThroughPlace ==
    ASSUME NEW S, NEW s \in Seq(S), Once(s), NEW k \in 1..Len(s)
    PROVE  Through(s, s[k]) = {s[i] : i \in 1..k}
<1>1. PICK l \in Nat : l = Len(s)
  OBVIOUS
<1>2. DOMAIN s = 1..l /\ k \in 1..l
  BY <1>1
<1>3. \A i \in 1..k : i \in 1..l /\ (i = k \/ i < k)
  BY <1>1, <1>2
<1>4. \A i \in 1..l : i = k \/ i < k => i \in 1..k
  BY <1>1, <1>2
<1>5. ASSUME NEW i \in 1..k
      PROVE  s[i] \in Through(s, s[k])
  BY <1>2, <1>3 DEF Through, Precedes, Members
<1>6. ASSUME NEW y \in Through(s, s[k])
      PROVE  y \in {s[i] : i \in 1..k}
  <2>1. CASE y = s[k]
    BY <1>2, <1>4, <2>1
  <2>2. CASE <<y, s[k]>> \in Precedes(s)
    <3>1. PICK i \in 1..l, j \in 1..l : i < j /\ y = s[i] /\ s[k] = s[j]
      BY <1>2, <2>2 DEF Precedes
    <3>2. j = k
      BY <1>2, <3>1 DEF Once
    <3> QED  BY <1>4, <3>1, <3>2
  <2> QED  BY <1>6, <2>1, <2>2 DEF Through
<1> QED  BY <1>5, <1>6

\* A list that keeps the order of another agrees with it on what comes up to an
\* entry they both name.
LEMMA ThroughAgrees ==
    ASSUME NEW S, NEW s \in Seq(S), Once(s), NEW t \in Seq(S), Once(t),
           Precedes(t) \subseteq Precedes(s), Members(t) \subseteq Members(s),
           NEW x \in Members(t), NEW y \in Members(t)
    PROVE  y \in Through(t, x) <=> y \in Through(s, x)
<1>1. CASE x = y
  BY <1>1 DEF Through
<1>2. CASE x # y
  <2>1. <<y, x>> \in Precedes(t) <=> ~(<<x, y>> \in Precedes(t))
    BY <1>2, OneComesFirst
  <2>2. <<y, x>> \in Precedes(s) <=> ~(<<x, y>> \in Precedes(s))
    BY <1>2, OneComesFirst
  <2> QED  BY <1>2, <2>1, <2>2 DEF Through
<1> QED  BY <1>1, <1>2

=============================================================================
