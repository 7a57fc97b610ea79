---------------------------- MODULE SampleStats ----------------------------
(***************************************************************************)
(* What an agent computes from its samples (stats.c): the two-sample       *)
(* Kolmogorov-Smirnov statistic, by one walk over the two sorted arrays,   *)
(* and the indices of a percentile and of its confidence interval.         *)
(*                                                                         *)
(* The statistic is a multiple of 1 / (a_len * b_len), and is kept as this *)
(* multiple.  The arrays are sorted: the comparators return a difference   *)
(* cut to an int, which has the right sign while the values are less than  *)
(* 2^31 ns apart.                                                          *)
(***************************************************************************)
EXTENDS Integers, Sequences, FiniteSets, FiniteSetsExt

CONSTANTS
  Values, \* latencies, or inter-arrival times
  Sizes   \* how many latency samples there may be

ASSUME StatsAssumption ==
  /\ Values \subseteq Int /\ Values # {}
  /\ Sizes \subseteq Nat

VARIABLES
  a, b,      \* the two sorted arrays
  ia, ib,    \* how much of them was walked over
  max_diff

ksVars == <<a, b, ia, ib, max_diff>>

Sorted(n) == {s \in [1 .. n -> Values] : \A i \in 1 .. (n - 1) : s[i] <= s[i + 1]}

ksIdle == a = <<>> /\ b = <<>> /\ ia = 0 /\ ib = 0 /\ max_diff = 0

Begin(s, t) == a' = s /\ b' = t /\ ia' = 0 /\ ib' = 0 /\ max_diff' = 0

Walking == ia < Len(a) /\ ib < Len(b)

(* Values that are in both arrays are passed in one after the other.       *)
BugWalk ==
  /\ Walking
  /\ IF a[ia + 1] <= b[ib + 1] THEN ia' = ia + 1 /\ ib' = ib
                               ELSE ib' = ib + 1 /\ ia' = ia
  /\ LET diff == ia' * Len(b) - ib' * Len(a)
     IN  max_diff' = Max({max_diff, diff, -diff})
  /\ UNCHANGED <<a, b>>

(* One turn of the loop of ks and ks_lts. *)
Walk ==
  /\ Walking
  /\ LET min_val == Min({a[ia + 1], b[ib + 1]})
     IN  /\ ia' = IF a[ia + 1] = min_val THEN ia + 1 ELSE ia
         /\ ib' = IF b[ib + 1] = min_val THEN ib + 1 ELSE ib
  /\ LET diff == ia' * Len(b) - ib' * Len(a)
     IN  max_diff' = Max({max_diff, diff, -diff})
  /\ UNCHANGED <<a, b>>

-----------------------------------------------------------------------------
(* The statistic's definition: the largest difference, at any value, of the *)
(* shares of the two arrays that are not above it.                         *)
UpTo(s, v)      == Cardinality({i \in 1 .. Len(s) : s[i] <= v})
DiffAt(s, t, v) == UpTo(s, v) * Len(t) - UpTo(t, v) * Len(s)
Statistic(s, t) ==
  Max({DiffAt(s, t, v) : v \in Values} \union {-DiffAt(s, t, v) : v \in Values})

(* The walk finds the statistic of two arrays of the same length, as those  *)
(* of the convergence test are.  For arrays of different lengths it passes *)
(* one value of each at a time, and finds too large a difference where a    *)
(* value repeats in both; it never finds too small a one.                  *)
KsStatistic ==
  ~Walking => /\ max_diff >= Statistic(a, b)
              /\ Len(a) = Len(b) => max_diff = Statistic(a, b)

(* The inductive invariant behind it: what was passed is not above what was  *)
(* not; the difference was taken at every value that all the rest is above, *)
(* and is taken where the walk is; and with equal lengths none of those     *)
(* taken while equal values are passed exceeds those before and after them. *)
Passed(v) == (ia < Len(a) => v < a[ia + 1]) /\ (ib < Len(b) => v < b[ib + 1])
Within(diff) == diff <= max_diff /\ -diff <= max_diff
KsInv ==
  /\ Len(a) \in Nat /\ a \in Sorted(Len(a)) /\ ia \in 0 .. Len(a)
  /\ Len(b) \in Nat /\ b \in Sorted(Len(b)) /\ ib \in 0 .. Len(b)
  /\ max_diff \in Nat
  /\ ia > 0 /\ ib < Len(b) => a[ia] <= b[ib + 1]
  /\ ib > 0 /\ ia < Len(a) => b[ib] <= a[ia + 1]
  /\ Within(ia * Len(b) - ib * Len(a))
  /\ \A v \in Values : Passed(v) => Within(DiffAt(a, b, v))
  /\ Len(a) = Len(b) => max_diff <= Statistic(a, b)

-----------------------------------------------------------------------------
(* The percentiles, as fractions. *)
Percentiles == {[num |-> 1, den |-> 2], [num |-> 9, den |-> 10],
                [num |-> 19, den |-> 20], [num |-> 99, den |-> 100]}

(* The least integer whose square is not below n (any k + n / k is above the *)
(* root of n).                                                             *)
IsCeilSqrt(r, n) == r * r >= n /\ \A q \in 0 .. (r - 1) : q * q < n
CeilSqrt(n) == CHOOSE r \in 0 .. (1000 + n \div 1000) : IsCeilSqrt(r, n)
CeilDiv(n, d) == -((-n) \div d)

(* get_ci_bounds: prod -/+ 1.96 * sqrt(prod * (1 - p)), with both terms     *)
(* multiplied by 25 * den.                                                 *)
Prod(n, p) == 25 * p.num * n
Sq == [n \in Sizes |-> [p \in Percentiles |-> CeilSqrt(2401 * p.num * (p.den - p.num) * n)]]
LowerIdx(n, p) == (Prod(n, p) - Sq[n][p]) \div (25 * p.den)
UpperIdx(n, p) == CeilDiv(Prod(n, p) + Sq[n][p], 25 * p.den) + 1

(* The percentile itself. *)
Idx(n, p) == (n * p.num) \div p.den
=============================================================================
