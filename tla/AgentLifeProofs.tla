-------------------------- MODULE AgentLifeProofs --------------------------
(***************************************************************************)
(* Proofs about what an agent computes from its samples, for arrays of any *)
(* length and values: the walk of the Kolmogorov-Smirnov test finds its    *)
(* statistic, and a percentile and its interval are in the samples.        *)
(*                                                                         *)
(* The first lemmas are about integers and sequences.  Induction over the  *)
(* natural numbers is taken from their well-foundedness, through sets.     *)
(***************************************************************************)
EXTENDS AgentStartProofs, FiniteSetTheorems

LEMMA LeastElement ==
  ASSUME NEW T \in SUBSET Nat, T # {}
  PROVE  \E n \in T : \A m \in T : n <= m
<1> DEFINE R == {ss \in Nat \X Nat : ss[1] < ss[2]}
<1>1. IsWellFoundedOn(R, Nat)
  <2>1. IsWellFoundedOn(OpToRel(<, Nat), Nat)
    BY NatLessThanWellFounded
  <2> QED
    BY <2>1, Zenon DEF OpToRel
<1>2. PICK n \in T : \A m \in T : <<m, n>> \notin R
  <2> HIDE DEF R
  <2> QED
    BY <1>1, WFMin, Zenon
<1>3. \A m \in T : ~(m < n)
  BY <1>2
<1> HIDE DEF R
<1> QED
  BY <1>3

LEMMA SetInduction ==
  ASSUME NEW S \in SUBSET Nat, 0 \in S, \A n \in S : n + 1 \in S
  PROVE  S = Nat
<1> DEFINE T == Nat \ S
<1> SUFFICES ASSUME T # {} PROVE FALSE
  OBVIOUS
<1>1. PICK n \in T : \A m \in T : n <= m
  BY LeastElement
<1>2. n # 0 /\ n - 1 \in S
  BY <1>1
<1> QED
  BY <1>1, <1>2

(* A bounded set of integers has a largest element. *)
LEMMA LargestElement ==
  ASSUME NEW S \in SUBSET Int, S # {}, NEW M \in Int, \A x \in S : x <= M
  PROVE  Max(S) \in S /\ \A y \in S : Max(S) >= y
<1> DEFINE T == {M - x : x \in S}
<1>1. T \in SUBSET Nat /\ T # {}
  <2>1. \A x \in S : x \in Int /\ x <= M
    OBVIOUS
  <2>2. \A x \in S : M - x \in Nat
    BY <2>1
  <2> QED
    BY <2>2
<1>2. PICK d \in T : \A e \in T : d <= e
  BY <1>1, LeastElement
<1>3. PICK x \in S : d = M - x
  BY <1>2
<1>4. \A y \in S : x >= y
  <2> SUFFICES ASSUME NEW y \in S PROVE x >= y
    OBVIOUS
  <2>1. d <= M - y
    BY <1>2
  <2> QED
    BY <1>3, <2>1
<1> HIDE DEF T
<1>5. \E z \in S : \A y \in S : z >= y
  BY <1>4
<1> QED
  BY <1>5 DEF Max

LEMMA TimesMonotone ==
  ASSUME NEW x \in Int, NEW y \in Int, x <= y, NEW k \in Nat
  PROVE  x * k <= y * k
<1>1. (y - x) * k >= 0
  OBVIOUS
<1> QED
  BY <1>1

-----------------------------------------------------------------------------
(* The arrays that are compared. *)
LEMMA SortedIsSeq ==
  ASSUME NEW n \in Nat, NEW s \in Sorted(n)
  PROVE  s \in [1 .. n -> Values] /\ Len(s) = n /\ \A i \in 1 .. n : s[i] \in Int
<1>1. s \in [1 .. n -> Values]
  BY DEF Sorted
<1>2. \A S : \A f \in [1 .. n -> S] : f \in Seq(S) /\ Len(f) = n
  OBVIOUS
<1> QED
  BY <1>1, <1>2, StatsAssumption

LEMMA SortedPairs ==
  ASSUME NEW n \in Nat, NEW s \in Sorted(n),
         NEW i \in 1 .. n, NEW j \in 1 .. n, i <= j
  PROVE  s[i] <= s[j]
<1> DEFINE S == {d \in Nat : \A k \in 1 .. n : k + d <= n => s[k] <= s[k + d]}
<1>1. \A k \in 1 .. n : s[k] \in Int
  BY SortedIsSeq
<1>2. 0 \in S
  BY <1>1
<1>3. ASSUME NEW d \in S PROVE d + 1 \in S
  <2> SUFFICES ASSUME NEW k \in 1 .. n, k + (d + 1) <= n
               PROVE  s[k] <= s[k + (d + 1)]
    OBVIOUS
  <2>1. d \in Nat /\ k + d <= n /\ k + d \in 1 .. (n - 1) /\ k + d \in 1 .. n
        /\ k + (d + 1) \in 1 .. n /\ k + (d + 1) = (k + d) + 1
    OBVIOUS
  <2>2. s[k] <= s[k + d]
    BY <2>1
  <2>3. s[k + d] <= s[k + (d + 1)]
    BY <2>1 DEF Sorted
  <2> QED
    BY <1>1, <2>1, <2>2, <2>3
<1>4. S = Nat
  <2> HIDE DEF S
  <2>1. S \in SUBSET Nat
    BY DEF S
  <2> QED
    BY <1>2, <1>3, <2>1, SetInduction
<1>5. j - i \in S
  <2> HIDE DEF S
  <2> QED
    BY <1>4
<1>6. i + (j - i) = j /\ i + (j - i) <= n
  OBVIOUS
<1> QED
  BY <1>5, <1>6

(* How many elements are not above v, from where v is among them. *)
LEMMA UpToBounds ==
  ASSUME NEW n \in Nat, NEW s \in Sorted(n), NEW v \in Int, NEW k \in 0 .. n
  PROVE  /\ UpTo(s, v) \in 0 .. n
         /\ (k > 0 => s[k] <= v) => UpTo(s, v) >= k
         /\ (k < n => v < s[k + 1]) => UpTo(s, v) <= k
<1> DEFINE U == {i \in 1 .. n : s[i] <= v}
<1>1. UpTo(s, v) = Cardinality(U)
  BY SortedIsSeq DEF UpTo
<1>2. \A i \in 1 .. n : s[i] \in Int
  BY SortedIsSeq
<1>3. \A m \in 0 .. n : IsFiniteSet(1 .. m) /\ Cardinality(1 .. m) = m
  BY FS_Interval
<1>4. IsFiniteSet(U) /\ Cardinality(U) \in 0 .. n
  <2>1. U \in SUBSET (1 .. n)
    OBVIOUS
  <2> HIDE DEF U
  <2>2. IsFiniteSet(1 .. n) /\ Cardinality(1 .. n) = n
    BY <1>3
  <2>3. IsFiniteSet(U) /\ Cardinality(U) <= n
    BY <2>1, <2>2, FS_Subset
  <2>4. Cardinality(U) \in Nat
    BY <2>3, FS_CardinalityType
  <2> QED
    BY <2>3, <2>4
<1>5. ASSUME k > 0 => s[k] <= v PROVE Cardinality(U) >= k
  <2>1. 1 .. k \in SUBSET U
    <3> SUFFICES ASSUME NEW i \in 1 .. k PROVE i \in U
      OBVIOUS
    <3>1. i \in 1 .. n /\ k \in 1 .. n /\ i <= k
      OBVIOUS
    <3>2. s[i] <= s[k]
      BY <3>1, SortedPairs
    <3> QED
      BY <1>2, <1>5, <3>1, <3>2
  <2> HIDE DEF U
  <2>2. Cardinality(1 .. k) <= Cardinality(U)
    BY <1>4, <2>1, FS_Subset
  <2> QED
    BY <1>3, <1>4, <2>2
<1>6. ASSUME k < n => v < s[k + 1] PROVE Cardinality(U) <= k
  <2>1. U \in SUBSET (1 .. k)
    <3> SUFFICES ASSUME NEW i \in 1 .. n, s[i] <= v, i > k PROVE FALSE
      OBVIOUS
    <3>1. k + 1 \in 1 .. n /\ k + 1 <= i
      OBVIOUS
    <3>2. s[k + 1] <= s[i]
      BY <3>1, SortedPairs
    <3> QED
      BY <1>2, <1>6, <3>1, <3>2
  <2> HIDE DEF U
  <2>2. Cardinality(U) <= Cardinality(1 .. k)
    BY <1>3, <2>1, FS_Subset
  <2> QED
    BY <1>3, <2>2
<1> QED
  BY <1>1, <1>4, <1>5, <1>6

(* The statistic is attained, and no difference is larger. *)
LEMMA StatisticIs ==
  ASSUME NEW n \in Nat, NEW s \in Sorted(n), NEW m \in Nat, NEW t \in Sorted(m)
  PROVE  /\ \A v \in Values : /\ DiffAt(s, t, v) \in Int
                              /\ DiffAt(s, t, v) <= Statistic(s, t)
                              /\ -DiffAt(s, t, v) <= Statistic(s, t)
         /\ \E v \in Values : Statistic(s, t) \in {DiffAt(s, t, v), -DiffAt(s, t, v)}
         /\ Statistic(s, t) \in Nat
<1> DEFINE D(v) == DiffAt(s, t, v)
           S == {D(v) : v \in Values} \union {-D(v) : v \in Values}
<1>1. \A v \in Values : D(v) \in Int /\ D(v) <= n * m /\ -D(v) <= n * m
  <2> SUFFICES ASSUME NEW v \in Values
               PROVE  D(v) \in Int /\ D(v) <= n * m /\ -D(v) <= n * m
    OBVIOUS
  <2>1. v \in Int /\ 0 \in 0 .. n /\ 0 \in 0 .. m
    BY StatsAssumption
  <2>2. UpTo(s, v) \in 0 .. n /\ UpTo(t, v) \in 0 .. m
    BY <2>1, UpToBounds
  <2>3. PICK x \in 0 .. n, y \in 0 .. m : x = UpTo(s, v) /\ y = UpTo(t, v)
    BY <2>2
  <2>4. D(v) = x * m - y * n
    BY <2>3, SortedIsSeq DEF DiffAt
  <2>5. x * m <= n * m /\ y * n <= m * n /\ 0 <= x * m /\ 0 <= y * n
    <3>1. x * m <= n * m /\ 0 * m <= x * m
      BY TimesMonotone
    <3>2. y * n <= m * n /\ 0 * n <= y * n
      BY TimesMonotone
    <3> QED
      BY <3>1, <3>2
  <2> HIDE DEF D
  <2> QED
    BY <2>4, <2>5
<1>2. Statistic(s, t) = Max(S)
  BY DEF Statistic
<1>3. S \in SUBSET Int /\ S # {} /\ \A x \in S : x <= n * m
  <2>1. \A v \in Values : -D(v) \in Int
    BY <1>1
  <2>2. Values # {}
    BY StatsAssumption
  <2> HIDE DEF D
  <2> QED
    BY <1>1, <2>1, <2>2
<1>4. Max(S) \in S /\ \A x \in S : Max(S) >= x
  <2> HIDE DEF S
  <2>1. n * m \in Int
    OBVIOUS
  <2> QED
    BY <1>3, <2>1, LargestElement
<1>5. \A v \in Values : D(v) <= Max(S) /\ -D(v) <= Max(S)
  <2>1. Max(S) \in Int
    BY <1>3, <1>4
  <2>2. \A v \in Values : D(v) \in S /\ -D(v) \in S
    OBVIOUS
  <2> HIDE DEF S, D
  <2> QED
    BY <1>1, <1>4, <2>1, <2>2
<1>6. \E v \in Values : Max(S) \in {D(v), -D(v)}
  BY <1>4
<1>7. Max(S) \in Nat
  <2>1. Max(S) \in Int
    BY <1>3, <1>4
  <2>2. PICK v \in Values : TRUE
    BY StatsAssumption
  <2> HIDE DEF S, D
  <2> QED
    BY <1>1, <1>5, <2>1, <2>2
<1> HIDE DEF S
<1> QED
  BY <1>1, <1>2, <1>5, <1>6, <1>7

(* The difference at a value, from where it lies in both arrays. *)
LEMMA DiffAtPlace ==
  ASSUME NEW n \in Nat, NEW s \in Sorted(n), NEW m \in Nat, NEW t \in Sorted(m),
         NEW v \in Values, NEW i \in 0 .. n, NEW j \in 0 .. m,
         i > 0 => s[i] <= v, i < n => v < s[i + 1],
         j > 0 => t[j] <= v, j < m => v < t[j + 1]
  PROVE  DiffAt(s, t, v) = i * m - j * n
<1>1. v \in Int
  BY StatsAssumption
<1>2. UpTo(s, v) = i
  <2>1. UpTo(s, v) \in 0 .. n /\ UpTo(s, v) >= i /\ UpTo(s, v) <= i
    BY <1>1, UpToBounds
  <2> QED
    BY <2>1
<1>3. UpTo(t, v) = j
  <2>1. UpTo(t, v) \in 0 .. m /\ UpTo(t, v) >= j /\ UpTo(t, v) <= j
    BY <1>1, UpToBounds
  <2> QED
    BY <2>1
<1> QED
  BY <1>2, <1>3, SortedIsSeq DEF DiffAt

LEMMA KsStart ==
  ASSUME NEW n \in Nat, NEW s \in Sorted(n), NEW m \in Nat, NEW t \in Sorted(m), Begin(s, t)
  PROVE  KsInv'
<1>1. a' = s /\ b' = t /\ ia' = 0 /\ ib' = 0 /\ max_diff' = 0
  BY DEF Begin
<1>2. Len(s) = n /\ Len(t) = m
  BY SortedIsSeq
<1>3. \A v \in Values : Passed(v)' => DiffAt(s, t, v) = 0
  <2> SUFFICES ASSUME NEW v \in Values, Passed(v)' PROVE DiffAt(s, t, v) = 0
    OBVIOUS
  <2>1. (0 < n => v < s[0 + 1]) /\ (0 < m => v < t[0 + 1]) /\ 0 \in 0 .. n /\ 0 \in 0 .. m
    BY <1>1, <1>2 DEF Passed
  <2>2. DiffAt(s, t, v) = 0 * m - 0 * n
    BY <2>1, DiffAtPlace
  <2> QED
    BY <2>2
<1>4. Statistic(s, t) \in Nat
  BY StatisticIs
<1>5. 0 * m - 0 * n = 0
  OBVIOUS
<1> QED
  BY <1>1, <1>2, <1>3, <1>4, <1>5 DEF KsInv, Within

LEMMA KsIdle == ksIdle => KsInv
<1> SUFFICES ASSUME ksIdle PROVE KsInv
  OBVIOUS
<1>1. a = <<>> /\ b = <<>> /\ ia = 0 /\ ib = 0 /\ max_diff = 0 /\ Len(<<>>) = 0
  BY DEF ksIdle
<1>2. <<>> \in Sorted(0)
  BY DEF Sorted
<1>3. \A v \in Values : DiffAt(<<>>, <<>>, v) = 0
  BY <1>2, DiffAtPlace
<1>4. Statistic(<<>>, <<>>) \in Nat
  BY <1>2, StatisticIs
<1> QED
  BY <1>1, <1>2, <1>3, <1>4 DEF KsInv, Within

LEMMA MaxOfThree ==
  ASSUME NEW x \in Int, NEW y \in Int, NEW z \in Int
  PROVE  Max({x, y, z}) \in {x, y, z} /\ \A u \in {x, y, z} : Max({x, y, z}) >= u
<1>1. \E u \in {x, y, z} : \A w \in {x, y, z} : u >= w
  OBVIOUS
<1> QED
  BY <1>1 DEF Max

LEMMA MinOfTwo ==
  ASSUME NEW x \in Int, NEW y \in Int
  PROVE  Min({x, y}) = IF x <= y THEN x ELSE y
<1>1. \E u \in {x, y} : \A w \in {x, y} : u <= w
  OBVIOUS
<1>2. Min({x, y}) \in {x, y} /\ Min({x, y}) <= x /\ Min({x, y}) <= y
  BY <1>1 DEF Min
<1> QED
  BY <1>2

(* One turn of the walk: it passes the smaller of the next two elements, or *)
(* both if they are equal.                                                 *)
LEMMA KsTurn ==
  ASSUME KsInv, Walk
  PROVE  LET x == a[ia + 1]
             y == b[ib + 1]
             d == ia' * Len(b) - ib' * Len(a)
         IN  /\ ia < Len(a) /\ ib < Len(b) /\ x \in Values /\ y \in Values
             /\ \/ x < y /\ ia' = ia + 1 /\ ib' = ib
                \/ x > y /\ ia' = ia /\ ib' = ib + 1
                \/ x = y /\ ia' = ia + 1 /\ ib' = ib + 1
             /\ a' = a /\ b' = b
             /\ d \in Int /\ max_diff' \in {max_diff, d, -d}
             /\ max_diff' >= max_diff /\ max_diff' >= d /\ max_diff' >= -d
<1>1. PICK n \in Nat, m \in Nat : n = Len(a) /\ m = Len(b)
  BY DEF KsInv
<1>2. a \in Sorted(n) /\ b \in Sorted(m) /\ ia \in 0 .. n /\ ib \in 0 .. m /\ max_diff \in Nat
  BY <1>1 DEF KsInv
<1>3. ia < n /\ ib < m /\ a' = a /\ b' = b
  BY <1>1 DEF Walk, Walking
<1>4. ia + 1 \in 1 .. n /\ ib + 1 \in 1 .. m
  BY <1>2, <1>3
<1>5. a \in [1 .. n -> Values] /\ b \in [1 .. m -> Values]
  BY <1>2, SortedIsSeq
<1>6. PICK x \in Values, y \in Values : x = a[ia + 1] /\ y = b[ib + 1]
  BY <1>4, <1>5
<1>7. x \in Int /\ y \in Int
  BY StatsAssumption
<1>8. /\ ia' = IF x = Min({x, y}) THEN ia + 1 ELSE ia
      /\ ib' = IF y = Min({x, y}) THEN ib + 1 ELSE ib
  BY <1>6 DEF Walk
<1>9. \/ x < y /\ ia' = ia + 1 /\ ib' = ib
      \/ x > y /\ ia' = ia /\ ib' = ib + 1
      \/ x = y /\ ia' = ia + 1 /\ ib' = ib + 1
  BY <1>7, <1>8, MinOfTwo
<1>10. PICK d \in Int : d = ia' * m - ib' * n
  <2>1. ia' \in Int /\ ib' \in Int
    BY <1>2, <1>9
  <2>2. ia' * m \in Int /\ ib' * n \in Int
    BY <2>1
  <2> QED
    BY <2>2
<1>11. max_diff' = Max({max_diff, d, -d})
  BY <1>1, <1>10 DEF Walk
<1>12. max_diff' \in {max_diff, d, -d} /\ max_diff' >= max_diff /\ max_diff' >= d /\ max_diff' >= -d
  <2>1. max_diff \in Int /\ -d \in Int
    BY <1>2
  <2> QED
    BY <1>11, <2>1, MaxOfThree
<1> QED
  BY <1>1, <1>3, <1>6, <1>9, <1>10, <1>12

LEMMA KsStep ==
  ASSUME KsInv, Walk
  PROVE  KsInv'
<1>1. PICK n \in Nat, m \in Nat : n = Len(a) /\ m = Len(b)
  BY DEF KsInv
<1>2. /\ a \in Sorted(n) /\ b \in Sorted(m) /\ ia \in 0 .. n /\ ib \in 0 .. m
      /\ max_diff \in Nat
      /\ ia > 0 /\ ib < m => a[ia] <= b[ib + 1]
      /\ ib > 0 /\ ia < n => b[ib] <= a[ia + 1]
      /\ Within(ia * m - ib * n)
      /\ \A v \in Values : Passed(v) => Within(DiffAt(a, b, v))
      /\ n = m => max_diff <= Statistic(a, b)
  BY <1>1 DEF KsInv
<1>3. PICK x \in Values, y \in Values, d \in Int :
        /\ x = a[ia + 1] /\ y = b[ib + 1] /\ d = ia' * m - ib' * n
        /\ ia < n /\ ib < m /\ a' = a /\ b' = b
        /\ \/ x < y /\ ia' = ia + 1 /\ ib' = ib
           \/ x > y /\ ia' = ia /\ ib' = ib + 1
           \/ x = y /\ ia' = ia + 1 /\ ib' = ib + 1
        /\ max_diff' \in {max_diff, d, -d}
        /\ max_diff' >= max_diff /\ max_diff' >= d /\ max_diff' >= -d
  BY <1>1, KsTurn
<1>4. x \in Int /\ y \in Int /\ ia' \in 0 .. n /\ ib' \in 0 .. m
  <2>1. x \in Int /\ y \in Int
    BY StatsAssumption
  <2>2. ia + 1 \in 0 .. n /\ ib + 1 \in 0 .. m
    BY <1>2, <1>3
  <2> QED
    BY <1>2, <1>3, <2>1, <2>2
<1>5. max_diff' \in Nat
  BY <1>2, <1>3
<1>6. /\ \A i \in 1 .. n : a[i] \in Int /\ (i < n => a[i] <= a[i + 1])
      /\ \A i \in 1 .. m : b[i] \in Int /\ (i < m => b[i] <= b[i + 1])
  BY <1>2, SortedIsSeq, SortedPairs
<1>7. ia' > 0 /\ ib' < m => a[ia'] <= b[ib' + 1]
  <2> SUFFICES ASSUME ia' > 0, ib' < m PROVE a[ia'] <= b[ib' + 1]
    OBVIOUS
  <2>1. CASE x < y
    BY <1>3, <1>4, <2>1
  <2>2. CASE x > y
    <3>1. ia' = ia /\ ib' = ib + 1 /\ ib' \in 1 .. m /\ ia \in 1 .. n /\ ib' + 1 \in 1 .. m
      <4>1. ia' = ia /\ ib' = ib + 1
        BY <1>3, <1>4, <2>2
      <4> QED
        BY <1>2, <1>4, <4>1
    <3>2. a[ia] <= y /\ y <= b[ib' + 1]
      BY <1>2, <1>3, <1>6, <3>1
    <3> QED
      BY <1>4, <1>6, <3>1, <3>2
  <2>3. CASE x = y
    <3>1. ia' = ia + 1 /\ ib' = ib + 1 /\ ib' \in 1 .. m
      BY <1>2, <1>3, <1>4, <2>3
    <3> QED
      BY <1>3, <1>6, <2>3, <3>1
  <2> QED
    BY <1>4, <2>1, <2>2, <2>3
<1>8. ib' > 0 /\ ia' < n => b[ib'] <= a[ia' + 1]
  <2> SUFFICES ASSUME ib' > 0, ia' < n PROVE b[ib'] <= a[ia' + 1]
    OBVIOUS
  <2>1. CASE x > y
    BY <1>3, <1>4, <2>1
  <2>2. CASE x < y
    <3>1. ib' = ib /\ ia' = ia + 1 /\ ia' \in 1 .. n /\ ib \in 1 .. m /\ ia' + 1 \in 1 .. n
      <4>1. ib' = ib /\ ia' = ia + 1
        BY <1>3, <1>4, <2>2
      <4> QED
        BY <1>2, <1>4, <4>1
    <3>2. b[ib] <= x /\ x <= a[ia' + 1]
      BY <1>2, <1>3, <1>6, <3>1
    <3> QED
      BY <1>4, <1>6, <3>1, <3>2
  <2>3. CASE x = y
    <3>1. ia' = ia + 1 /\ ib' = ib + 1 /\ ia' \in 1 .. n
      BY <1>2, <1>3, <1>4, <2>3
    <3> QED
      BY <1>3, <1>6, <2>3, <3>1
  <2> QED
    BY <1>4, <2>1, <2>2, <2>3
(* A value that is new below the rest lies where the walk has got to.      *)
<1>9. \A v \in Values : Passed(v)' => Within(DiffAt(a, b, v))'
  <2> SUFFICES ASSUME NEW v \in Values, Passed(v)'
               PROVE  DiffAt(a, b, v) <= max_diff' /\ -DiffAt(a, b, v) <= max_diff'
    BY <1>3 DEF Within
  <2>1. v \in Int /\ DiffAt(a, b, v) \in Int
    BY <1>2, StatsAssumption, StatisticIs
  <2>2. CASE Passed(v)
    BY <1>2, <1>3, <1>5, <2>1, <2>2 DEF Within
  <2>3. CASE ~Passed(v)
    <3>1. v >= x \/ v >= y
      <4>1. ~(v < x /\ v < y)
        BY <1>3, <2>3 DEF Passed
      <4> QED
        BY <1>4, <2>1, <4>1
    <3>2. ia' > 0 => a[ia'] <= v
      BY <1>2, <1>3, <1>4, <1>6, <2>1, <3>1
    <3>3. ib' > 0 => b[ib'] <= v
      BY <1>2, <1>3, <1>4, <1>6, <2>1, <3>1
    <3>4. (ia' < n => v < a[ia' + 1]) /\ (ib' < m => v < b[ib' + 1])
      BY <1>1, <1>3 DEF Passed
    <3>5. DiffAt(a, b, v) = ia' * m - ib' * n
      BY <1>2, <1>4, <3>2, <3>3, <3>4, DiffAtPlace
    <3> QED
      BY <1>3, <3>5
  <2> QED
    BY <2>2, <2>3
(* With equal lengths, passing both keeps the difference; passing one takes *)
(* it towards zero or no further than the difference at that element.      *)
<1>10. n = m => max_diff' <= Statistic(a, b)
  <2> SUFFICES ASSUME n = m PROVE d <= Statistic(a, b) /\ -d <= Statistic(a, b)
    BY <1>2, <1>3
  <2>1. /\ Statistic(a, b) \in Nat /\ max_diff <= Statistic(a, b)
        /\ \A v \in Values : /\ DiffAt(a, b, v) \in Int
                             /\ DiffAt(a, b, v) <= Statistic(a, b)
                             /\ -DiffAt(a, b, v) <= Statistic(a, b)
    BY <1>2, StatisticIs
  <2>2. PICK old \in Int : /\ old = ia * n - ib * n
                          /\ old <= max_diff /\ -old <= max_diff
    BY <1>2 DEF Within
  <2>3. CASE x = y
    <3>1. d = old
      <4>1. d = (ia + 1) * n - (ib + 1) * n
        BY <1>3, <1>4, <2>3
      <4> QED
        BY <1>2, <2>2, <4>1
    <3> QED
      BY <1>2, <2>1, <2>2, <3>1
  <2>4. CASE x < y
    <3>1. d = (ia + 1) * n - ib * n
      BY <1>3, <1>4, <2>4
    <3>2. -d <= Statistic(a, b)
      <4>1. d = old + n
        BY <1>2, <2>2, <3>1
      <4> QED
        BY <1>2, <2>1, <2>2, <4>1
    <3>3. UpTo(a, x) \in Nat /\ UpTo(a, x) >= ia + 1
      <4>1. ia + 1 \in 0 .. n /\ a[ia + 1] <= x
        BY <1>2, <1>3, <1>4
      <4> QED
        BY <1>2, <1>4, <4>1, UpToBounds
    <3>4. UpTo(b, x) \in Nat /\ UpTo(b, x) <= ib
      <4>1. ib \in 0 .. m /\ (ib < m => x < b[ib + 1])
        BY <1>2, <1>3, <2>4
      <4>2. UpTo(b, x) \in 0 .. m /\ UpTo(b, x) <= ib
        BY <1>2, <1>4, <4>1, UpToBounds
      <4> QED
        BY <4>2
    <3>5. DiffAt(a, b, x) = UpTo(a, x) * n - UpTo(b, x) * n
      BY <1>1 DEF DiffAt
    <3>6. (ia + 1) * n <= UpTo(a, x) * n /\ UpTo(b, x) * n <= ib * n
      BY <1>2, <3>3, <3>4, TimesMonotone
    <3>7. d <= DiffAt(a, b, x)
      BY <1>2, <3>1, <3>3, <3>4, <3>5, <3>6
    <3> QED
      BY <2>1, <3>2, <3>7
  <2>5. CASE x > y
    <3>1. d = ia * n - (ib + 1) * n
      BY <1>3, <1>4, <2>5
    <3>2. d <= Statistic(a, b)
      <4>1. d = old - n
        BY <1>2, <2>2, <3>1
      <4> QED
        BY <1>2, <2>1, <2>2, <4>1
    <3>3. UpTo(b, y) \in Nat /\ UpTo(b, y) >= ib + 1
      <4>1. ib + 1 \in 0 .. m /\ b[ib + 1] <= y
        BY <1>2, <1>3, <1>4
      <4> QED
        BY <1>2, <1>4, <4>1, UpToBounds
    <3>4. UpTo(a, y) \in Nat /\ UpTo(a, y) <= ia
      <4>1. ia \in 0 .. n /\ (ia < n => y < a[ia + 1])
        BY <1>2, <1>3, <1>4, <2>5
      <4>2. UpTo(a, y) \in 0 .. n /\ UpTo(a, y) <= ia
        BY <1>2, <1>4, <4>1, UpToBounds
      <4> QED
        BY <4>2
    <3>5. DiffAt(a, b, y) = UpTo(a, y) * n - UpTo(b, y) * n
      BY <1>1 DEF DiffAt
    <3>6. (ib + 1) * n <= UpTo(b, y) * n /\ UpTo(a, y) * n <= ia * n
      BY <1>2, <3>3, <3>4, TimesMonotone
    <3>7. -d <= -DiffAt(a, b, y)
      BY <1>2, <3>1, <3>3, <3>4, <3>5, <3>6
    <3> QED
      BY <2>1, <3>2, <3>7
  <2> QED
    BY <1>4, <2>3, <2>4, <2>5
<1>11. Within(ia * m - ib * n)'
  BY <1>1, <1>3 DEF Within
<1> QED
  BY <1>1, <1>2, <1>3, <1>4, <1>5, <1>7, <1>8, <1>9, <1>10, <1>11 DEF KsInv

(* Where the walk ends, one array is passed, and what is left of the other  *)
(* takes the difference towards zero.                                      *)
LEMMA KsEnd == KsInv => KsStatistic
<1> SUFFICES ASSUME KsInv, ~Walking
             PROVE  /\ max_diff >= Statistic(a, b)
                    /\ Len(a) = Len(b) => max_diff = Statistic(a, b)
  BY DEF KsStatistic
<1>1. PICK n \in Nat, m \in Nat : n = Len(a) /\ m = Len(b)
  BY DEF KsInv
<1>2. /\ a \in Sorted(n) /\ b \in Sorted(m) /\ ia \in 0 .. n /\ ib \in 0 .. m
      /\ max_diff \in Nat
      /\ ia > 0 /\ ib < m => a[ia] <= b[ib + 1]
      /\ ib > 0 /\ ia < n => b[ib] <= a[ia + 1]
      /\ Within(ia * m - ib * n)
      /\ \A v \in Values : Passed(v) => Within(DiffAt(a, b, v))
      /\ n = m => max_diff <= Statistic(a, b)
  BY <1>1 DEF KsInv
<1>3. ia = n \/ ib = m
  BY <1>1, <1>2 DEF Walking
<1>4. /\ \A i \in 1 .. n : a[i] \in Int
      /\ \A i \in 1 .. m : b[i] \in Int
  BY <1>2, SortedIsSeq
<1>5. \A v \in Values : DiffAt(a, b, v) <= max_diff /\ -DiffAt(a, b, v) <= max_diff
  <2> SUFFICES ASSUME NEW v \in Values
               PROVE  DiffAt(a, b, v) <= max_diff /\ -DiffAt(a, b, v) <= max_diff
    OBVIOUS
  <2>1. v \in Int
    BY StatsAssumption
  <2>2. CASE Passed(v)
    BY <1>2, <2>2 DEF Within
  <2>3. CASE ib < m /\ v >= b[ib + 1]
    <3>1. ia = n /\ ib + 1 \in 1 .. m /\ ib + 1 \in 0 .. m
      BY <1>2, <1>3, <2>3
    <3>2. n > 0 => a[n] <= v
      BY <1>2, <1>4, <2>1, <2>3, <3>1
    <3>3. UpTo(a, v) = n
      <4>1. n \in 0 .. n
        OBVIOUS
      <4>2. UpTo(a, v) \in 0 .. n /\ UpTo(a, v) >= n
        BY <1>2, <2>1, <3>2, <4>1, UpToBounds
      <4> QED
        BY <4>2
    <3>4. PICK y \in 0 .. m : y = UpTo(b, v) /\ y >= ib + 1
      BY <1>2, <2>1, <2>3, <3>1, UpToBounds
    <3>5. DiffAt(a, b, v) = n * m - y * n
      BY <1>1, <3>3, <3>4 DEF DiffAt
    <3>6. n * m - ib * n <= max_diff
      BY <1>2, <3>1 DEF Within
    <3>7. y * n <= m * n /\ ib * n <= y * n
      BY <1>2, <3>4, TimesMonotone
    <3>8. n * m = m * n /\ m * n \in Int /\ y * n \in Int /\ ib * n \in Int
      BY <1>2, <3>4
    <3> QED
      BY <1>2, <3>5, <3>6, <3>7, <3>8
  <2>4. CASE ia < n /\ v >= a[ia + 1]
    <3>1. ib = m /\ ia + 1 \in 1 .. n /\ ia + 1 \in 0 .. n
      BY <1>2, <1>3, <2>4
    <3>2. m > 0 => b[m] <= v
      BY <1>2, <1>4, <2>1, <2>4, <3>1
    <3>3. UpTo(b, v) = m
      <4>1. m \in 0 .. m
        OBVIOUS
      <4>2. UpTo(b, v) \in 0 .. m /\ UpTo(b, v) >= m
        BY <1>2, <2>1, <3>2, <4>1, UpToBounds
      <4> QED
        BY <4>2
    <3>4. PICK x \in 0 .. n : x = UpTo(a, v) /\ x >= ia + 1
      BY <1>2, <2>1, <2>4, <3>1, UpToBounds
    <3>5. DiffAt(a, b, v) = x * m - m * n
      BY <1>1, <3>3, <3>4 DEF DiffAt
    <3>6. -(ia * m - m * n) <= max_diff
      BY <1>2, <3>1 DEF Within
    <3>7. x * m <= n * m /\ ia * m <= x * m
      BY <1>2, <3>4, TimesMonotone
    <3>8. n * m = m * n /\ m * n \in Int /\ x * m \in Int /\ ia * m \in Int
      BY <1>2, <3>4
    <3> QED
      BY <1>2, <3>5, <3>6, <3>7, <3>8
  <2>5. (ia < n => a[ia + 1] \in Int) /\ (ib < m => b[ib + 1] \in Int)
    BY <1>2, <1>4
  <2> QED
    BY <1>1, <2>1, <2>2, <2>3, <2>4, <2>5 DEF Passed
<1>6. /\ \E v \in Values : Statistic(a, b) \in {DiffAt(a, b, v), -DiffAt(a, b, v)}
      /\ Statistic(a, b) \in Nat
  BY <1>2, StatisticIs
<1>7. Statistic(a, b) <= max_diff
  BY <1>5, <1>6
<1> QED
  BY <1>1, <1>2, <1>6, <1>7

-----------------------------------------------------------------------------
(* The arrays of a report have a length. *)
ReportSized == size \in Nat /\ txs \in Nat

LEMMA SizedInv == ReportSized /\ [LifeNext]_lifeVars => ReportSized'
<1> SUFFICES ASSUME ReportSized, [LifeNext]_lifeVars PROVE ReportSized'
  OBVIOUS
<1> USE DEF ReportSized
<1>1. CASE Starting
  BY <1>1 DEF Starting, reportVars
<1>2. CASE ReportThroughput
  BY <1>2, LifeAssumption DEF ReportThroughput
<1>3. CASE ReportLatency
  BY <1>3, LifeAssumption, StatsAssumption DEF ReportLatency, Crash, reportVars
<1>4. CASE CompareHalves
  BY <1>4 DEF CompareHalves
<1>5. CASE HalvesCompared
  BY <1>5 DEF HalvesCompared
<1>6. CASE CheckIa
  BY <1>6 DEF CheckIa, Crash, reportVars
<1>7. CASE Pause
  BY <1>7 DEF Pause, Crash, reportVars
<1>8. CASE IaChecked
  BY <1>8 DEF IaChecked
<1>9. CASE Compare
  BY <1>9 DEF Compare, reportVars
<1>10. CASE UNCHANGED lifeVars
  BY <1>10 DEF lifeVars, reportVars
<1> QED
  BY <1>1, <1>2, <1>3, <1>4, <1>5, <1>6, <1>7, <1>8, <1>9, <1>10 DEF LifeNext

LEMMA KsKept == KsInv /\ UNCHANGED ksVars => KsInv'
BY DEF KsInv, ksVars, Within, Passed

LEMMA KsLife == ReportSized /\ KsInv /\ [LifeNext]_lifeVars => KsInv'
<1> SUFFICES ASSUME ReportSized, KsInv, [LifeNext]_lifeVars PROVE KsInv'
  OBVIOUS
<1>1. CASE UNCHANGED ksVars
  BY <1>1, KsKept
<1>2. CASE CompareHalves
  <2>1. size \div 2 \in Nat
    BY DEF ReportSized
  <2>2. PICK s \in Sorted(size \div 2), t \in Sorted(size \div 2) : Begin(s, t)
    BY <1>2 DEF CompareHalves
  <2> QED
    BY <2>1, <2>2, KsStart
<1>3. CASE CheckIa /\ txs # 0
  <2>1. txs - 1 \in Nat /\ REFERENCE_IA_SIZE \in Nat
    BY <1>3, LifeAssumption DEF ReportSized
  <2>2. PICK s \in Sorted(REFERENCE_IA_SIZE), t \in Sorted(txs - 1) : Begin(s, t)
    BY <1>3 DEF CheckIa
  <2> QED
    BY <2>1, <2>2, KsStart
<1>4. CASE Compare
  BY <1>4, KsStep DEF Compare
<1>5. CASE CheckIa /\ txs = 0
  BY <1>5, <1>1 DEF CheckIa, Crash
<1> QED
  BY <1>1, <1>2, <1>3, <1>4, <1>5
     DEF LifeNext, Starting, ReportThroughput, ReportLatency, HalvesCompared, Pause, IaChecked,
         Crash, lifeVars

(* The two-sample comparison of ks and ks_lts finds the largest difference  *)
(* of the two distributions if the arrays are of the same length, and never *)
(* one that is too small, for arrays of every length and all values.        *)
THEOREM WalkFindsStatistic == LifeSpec => []KsStatistic
<1>1. LifeInit => ReportSized /\ KsInv
  BY KsIdle DEF LifeInit, ReportSized
<1>2. (ReportSized /\ KsInv) /\ [LifeNext]_lifeVars => (ReportSized /\ KsInv)'
  BY SizedInv, KsLife
<1> QED
  BY <1>1, <1>2, KsEnd, PTL DEF LifeSpec

-----------------------------------------------------------------------------
LEMMA RootIs ==
  ASSUME NEW n \in Nat
  PROVE  /\ CeilSqrt(n) \in Nat /\ CeilSqrt(n) * CeilSqrt(n) >= n
         /\ \A q \in Nat : q * q >= n => CeilSqrt(n) <= q
<1> DEFINE T == {r \in Nat : r * r >= n}
           K == 1000 + n \div 1000
<1>1. K \in Nat /\ K * K >= n
  <2>1. PICK q \in Nat : q = n \div 1000 /\ n < 1000 * q + 1000
    OBVIOUS
  <2>2. K = 1000 + q
    BY <2>1
  <2>3. (1000 + q) * (1000 + q) = 1000000 + 2000 * q + q * q /\ q * q >= 0
    BY <2>1
  <2> HIDE DEF K
  <2> QED
    BY <2>1, <2>2, <2>3
<1>2. K \in T /\ T \in SUBSET Nat
  <2> HIDE DEF K
  <2> QED
    BY <1>1
<1>3. PICK r \in T : \A q \in T : r <= q
  <2> HIDE DEF T, K
  <2>1. T # {}
    BY <1>2
  <2> QED
    BY <1>2, <2>1, LeastElement
<1>4. r \in 0 .. K /\ IsCeilSqrt(r, n)
  <2>1. r \in Nat /\ r * r >= n /\ r <= K
    BY <1>2, <1>3
  <2>2. ASSUME NEW q \in 0 .. (r - 1), ~(q * q < n) PROVE FALSE
    <3>1. q \in Nat /\ q < r /\ q * q \in Nat
      BY <2>1
    <3>2. q \in T
      BY <2>2, <3>1
    <3> HIDE DEF T
    <3> QED
      BY <1>3, <2>1, <3>1, <3>2
  <2> HIDE DEF K, T
  <2> QED
    BY <1>1, <2>1, <2>2 DEF IsCeilSqrt
<1>5. CeilSqrt(n) \in 0 .. K /\ IsCeilSqrt(CeilSqrt(n), n)
  BY <1>4, SMT DEF CeilSqrt
<1> HIDE DEF K, T
<1>6. ASSUME NEW q \in Nat, q * q >= n, CeilSqrt(n) > q PROVE FALSE
  <2>1. q \in 0 .. (CeilSqrt(n) - 1) /\ q * q \in Nat
    BY <1>1, <1>5, <1>6
  <2> QED
    BY <1>5, <1>6, <2>1 DEF IsCeilSqrt
<1> QED
  BY <1>1, <1>5, <1>6 DEF IsCeilSqrt

LEMMA SqIs ==
  ASSUME NEW n \in Sizes, NEW p \in Percentiles
  PROVE  /\ n \in Nat /\ Sq[n][p] \in Nat
         /\ \A q \in Nat : q * q >= 2401 * p.num * (p.den - p.num) * n => Sq[n][p] <= q
<1>1. n \in Nat
  BY StatsAssumption, SMT
<1>2. Sq[n][p] = CeilSqrt(2401 * p.num * (p.den - p.num) * n)
  BY SMT DEF Sq
<1>3. 2401 * p.num * (p.den - p.num) * n \in Nat
  BY <1>1, SMT DEF Percentiles
<1> QED
  BY <1>1, <1>2, <1>3, RootIs, SMT

(* How far the root is from the percentile, from its square. *)
LEMMA RootBounds ==
  ASSUME NEW n \in Sizes, NEW p \in Percentiles
  PROVE  /\ n <= 800 => Sq[n][p] <= 13800
         /\ n >= 800 => Sq[n][p] <= 25 * (p.den - p.num) * n - 50 * p.den
<1>1. n \in Nat /\ 13800 \in Nat /\ 13800 * 13800 = 190440000
  BY StatsAssumption, SMT
<1>2. ASSUME n <= 800 PROVE Sq[n][p] <= 13800
  <2>1. 13800 * 13800 >= 2401 * p.num * (p.den - p.num) * n
    BY <1>1, <1>2, SMT DEF Percentiles
  <2> QED
    BY <1>1, <2>1, SqIs, SMT
<1>3. ASSUME n >= 800 PROVE Sq[n][p] <= 25 * (p.den - p.num) * n - 50 * p.den
  <2>1. PICK k \in Nat : n = 800 + k
    <3>1. n - 800 \in Nat /\ n = 800 + (n - 800)
      BY <1>1, <1>3, SMT
    <3> QED
      BY <3>1, SMT
  <2>2. k * k \in Nat
    BY <2>1, SMT
  <2> DEFINE T == 25 * (p.den - p.num) * n - 50 * p.den
  <2>3. T \in Nat /\ T * T >= 2401 * p.num * (p.den - p.num) * n
    <3>1. CASE p = [num |-> 1, den |-> 2]
      <4>1. T = 25 * k + 19900 /\ 2401 * p.num * (p.den - p.num) * n = 2401 * k + 1920800
        BY <2>1, <3>1, SMT
      <4>2. (25 * k + 19900) * (25 * k + 19900) = 625 * (k * k) + 995000 * k + 396010000
        BY <2>1, SMT
      <4> HIDE DEF T
      <4> QED
        BY <2>1, <2>2, <4>1, <4>2, SMT
    <3>2. CASE p = [num |-> 9, den |-> 10]
      <4>1. T = 25 * k + 19500 /\ 2401 * p.num * (p.den - p.num) * n = 21609 * k + 17287200
        BY <2>1, <3>2, SMT
      <4>2. (25 * k + 19500) * (25 * k + 19500) = 625 * (k * k) + 975000 * k + 380250000
        BY <2>1, SMT
      <4> HIDE DEF T
      <4> QED
        BY <2>1, <2>2, <4>1, <4>2, SMT
    <3>3. CASE p = [num |-> 19, den |-> 20]
      <4>1. T = 25 * k + 19000 /\ 2401 * p.num * (p.den - p.num) * n = 45619 * k + 36495200
        BY <2>1, <3>3, SMT
      <4>2. (25 * k + 19000) * (25 * k + 19000) = 625 * (k * k) + 950000 * k + 361000000
        BY <2>1, SMT
      <4> HIDE DEF T
      <4> QED
        BY <2>1, <2>2, <4>1, <4>2, SMT
    <3>4. CASE p = [num |-> 99, den |-> 100]
      <4>1. T = 25 * k + 15000 /\ 2401 * p.num * (p.den - p.num) * n = 237699 * k + 190159200
        BY <2>1, <3>4, SMT
      <4>2. (25 * k + 15000) * (25 * k + 15000) = 625 * (k * k) + 750000 * k + 225000000
        BY <2>1, SMT
      <4> HIDE DEF T
      <4> QED
        BY <2>1, <2>2, <4>1, <4>2, SMT
    <3> HIDE DEF T
    <3> QED
      BY <3>1, <3>2, <3>3, <3>4, SMT DEF Percentiles
  <2>4. Sq[n][p] <= T
    <3> HIDE DEF T
    <3> QED
      BY <2>3, SqIs, SMT
  <2> QED
    BY <2>4, SMT
<1> QED
  BY <1>2, <1>3, SMT

(* The indices, from the number of samples. *)
LEMMA IndicesInPlace ==
  ASSUME NEW n \in Sizes, n > 0, ~Outside(n), NEW p \in Percentiles
  PROVE  /\ 0 <= LowerIdx(n, p) /\ LowerIdx(n, p) <= Idx(n, p)
         /\ Idx(n, p) < n /\ Idx(n, p) < UpperIdx(n, p)
         /\ UpperIdx(n, p) < AGG_SAMPLE_SIZE
         /\ n >= 800 => UpperIdx(n, p) < n
<1>1. PICK r \in Nat : r = Sq[n][p]
  BY SqIs, SMT
<1>2. n \in Nat /\ n <= AGG_SAMPLE_SIZE /\ AGG_SAMPLE_SIZE \in Nat /\ AGG_SAMPLE_SIZE >= 1000
  BY StatsAssumption, LifeAssumption, SMT
<1>3. /\ LowerIdx(n, p) = (25 * p.num * n - r) \div (25 * p.den)
      /\ UpperIdx(n, p) = -((-(25 * p.num * n + r)) \div (25 * p.den)) + 1
      /\ Idx(n, p) = (n * p.num) \div p.den
  BY <1>1, SMT DEF LowerIdx, UpperIdx, CeilDiv, Prod, Idx
<1>4. /\ n <= 800 => r <= 13800
      /\ n >= 800 => r <= 25 * (p.den - p.num) * n - 50 * p.den
  BY <1>1, RootBounds, SMT
<1>5. LowerIdx(n, p) \in Int /\ LowerIdx(n, p) >= 0
  <2>1. ~(LowerIdx(n, p) < 0)
    BY DEF Outside, SMT
  <2>2. LowerIdx(n, p) \in Int
    BY <1>1, <1>2, <1>3, SMT DEF Percentiles
  <2> QED
    BY <2>1, <2>2, SMT
<1>6. CASE p = [num |-> 1, den |-> 2]
  BY <1>1, <1>2, <1>3, <1>4, <1>5, <1>6, SMT
<1>7. CASE p = [num |-> 9, den |-> 10]
  BY <1>1, <1>2, <1>3, <1>4, <1>5, <1>7, SMT
<1>8. CASE p = [num |-> 19, den |-> 20]
  BY <1>1, <1>2, <1>3, <1>4, <1>5, <1>8, SMT
<1>9. CASE p = [num |-> 99, den |-> 100]
  BY <1>1, <1>2, <1>3, <1>4, <1>5, <1>9, SMT
<1> QED
  BY <1>6, <1>7, <1>8, <1>9, SMT DEF Percentiles

(* A report goes on to percentiles and arrivals only with what they need.   *)
ReportInv ==
  /\ size \in Sizes \union {0} /\ (size > 0 => ~Outside(size))
  /\ step = "inter_tx" => txs > 0
  /\ step = "replied" => (Nic => txs > 0)
  /\ step \in {"none", "convergence", "halves", "arrivals", "inter_tx", "replied"}

LEMMA ArgsStay == StartNext => args' = args
BY DEF StartNext, ParseIdist, ParseTransport, ParseApp, ParseEcho, ParseSynthetic, ParseMemSvc,
       ParseMem, ParseUnknown, Protocol, ParseType, MakeTransport, Start, StartLoad,
       FirstRequest, StartMeasure

LEMMA ReportStep == ReportSized /\ ReportInv /\ [LifeNext]_lifeVars => ReportInv'
<1> SUFFICES ASSUME ReportSized, ReportInv, [LifeNext]_lifeVars PROVE ReportInv'
  OBVIOUS
<1>1. args' = args
  BY ArgsStay
     DEF LifeNext, Starting, ReportThroughput, ReportLatency, CompareHalves, HalvesCompared,
         CheckIa, Pause, IaChecked, Compare, Crash, lifeVars, startVars
<1>2. Nic' <=> Nic
  BY <1>1 DEF Nic
<1>3. CASE UNCHANGED reportVars
  BY <1>2, <1>3 DEF reportVars, ReportInv
<1>4. CASE ReportThroughput
  BY <1>2, <1>4 DEF ReportThroughput, ReportInv
<1>5. CASE ReportLatency
  <2>1. CASE UNCHANGED reportVars
    BY <1>3, <2>1
  <2>2. CASE ~UNCHANGED reportVars
    <3>1. PICK n \in Sizes : ~Outside(n) /\ size' = n
                             /\ step' = IF Nic THEN "convergence" ELSE "replied"
      BY <1>5, <2>2 DEF ReportLatency, Crash
    <3> QED
      BY <1>2, <3>1 DEF ReportInv
  <2> QED
    BY <2>1, <2>2
<1>6. CASE CompareHalves
  BY <1>2, <1>6 DEF CompareHalves, ReportInv
<1>7. CASE HalvesCompared
  BY <1>2, <1>7 DEF HalvesCompared, ReportInv
<1>8. CASE CheckIa /\ txs # 0
  BY <1>2, <1>8 DEF CheckIa, ReportInv, ReportSized
<1>9. CASE IaChecked
  BY <1>2, <1>9 DEF IaChecked, ReportInv
<1> QED
  BY <1>3, <1>4, <1>5, <1>6, <1>7, <1>8, <1>9
     DEF LifeNext, Starting, CheckIa, Pause, Compare, Crash, lifeVars, reportVars

(* Whatever the number of samples, a report that is given has its           *)
(* percentiles between the ends of their intervals, a lower end that is the *)
(* index of a sample, and an upper end that is the index of one from 800    *)
(* samples on, and of a place of the aggregate's array below.              *)
THEOREM IntervalsAreSamples == LifeSpec => []IntervalsInPlace
<1>1. LifeInit => ReportSized /\ ReportInv
  BY DEF LifeInit, ReportSized, ReportInv
<1>2. (ReportSized /\ ReportInv) /\ [LifeNext]_lifeVars => (ReportSized /\ ReportInv)'
  BY SizedInv, ReportStep
<1>3. ReportInv => IntervalsInPlace
  <2> SUFFICES ASSUME ReportInv, step = "replied", NEW p \in Percentiles, size > 0
               PROVE  /\ 0 <= LowerIdx(size, p) /\ LowerIdx(size, p) <= Idx(size, p)
                      /\ Idx(size, p) < size /\ Idx(size, p) < UpperIdx(size, p)
                      /\ UpperIdx(size, p) < AGG_SAMPLE_SIZE
                      /\ size >= 800 => UpperIdx(size, p) < size
    BY DEF IntervalsInPlace, ReportInv
  <2>1. size \in Sizes /\ ~Outside(size)
    BY DEF ReportInv
  <2> QED
    BY <2>1, IndicesInPlace
<1> QED
  BY <1>1, <1>2, <1>3, PTL DEF LifeSpec
=============================================================================
