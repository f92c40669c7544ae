--------------------------- MODULE EntryViewProofs ---------------------------
(* Invariants of EntryView, for every set of files, every size, depth and     *)
(* rectangle, and every limit on what is shown.                               *)
EXTENDS EntryView, SublistProofs

-----------------------------------------------------------------------------
(* Numbers and sums                                                           *)

\* A product grows with its second factor.
LEMMA Times ==
    ASSUME NEW a \in Int, NEW b \in Int, NEW c \in Nat, a <= b
    PROVE  c * a <= c * b /\ c * a \in Int /\ c * b \in Int
OBVIOUS

\* A quotient of natural numbers, rounded down
LEMMA Division ==
    ASSUME NEW a \in Nat, NEW b \in Nat \ {0}
    PROVE  /\ a \div b \in Nat
           /\ b * (a \div b) \in Nat
           /\ b * (a \div b) <= a
           /\ a < b * (a \div b) + b
OBVIOUS

\* A part of a side is no longer than the side. It has a pixel if the side has three and the
\* part a third of the sum, and is all of the side only if the rest of the sum is 0.
LEMMA PartFacts ==
    ASSUME NEW side \in Nat, NEW sum1 \in Nat, NEW sum \in Nat, sum1 <= sum
    PROVE  /\ Part(side, sum1, sum) \in 0 .. side
           /\ sum > 0 /\ side >= 3 /\ 3 * sum1 >= sum => Part(side, sum1, sum) >= 1
           /\ sum > 0 /\ side > 0 /\ Part(side, sum1, sum) = side => sum1 = sum
<1>1. CASE sum = 0
  <2>1. Part(side, sum1, sum) = side \div 2
    BY <1>1 DEF Part
  <2> QED
    BY <1>1, <2>1
<1>2. CASE sum # 0
  <2> DEFINE q == (side * sum1) \div sum
  <2>1. Part(side, sum1, sum) = q
    BY <1>2 DEF Part
  <2>2. side * sum1 \in Nat /\ side * sum1 <= side * sum /\ side * sum \in Nat
    BY Times
  <2>3. q \in Nat /\ sum * q \in Nat /\ sum * q <= side * sum1 /\ side * sum1 < sum * q + sum
    BY <1>2, <2>2, Division
  <2> HIDE DEF q
  <2>4. sum * side = side * sum
    OBVIOUS
  <2>5. q <= side
    <3> SUFFICES ASSUME side + 1 <= q PROVE FALSE
      BY <2>3
    <3>1. sum * (side + 1) <= sum * q
      BY <2>3, Times
    <3>2. sum * (side + 1) = sum * side + sum
      OBVIOUS
    <3> QED
      BY <1>2, <2>2, <2>3, <2>4, <3>1, <3>2
  <2>6. ASSUME side >= 3, 3 * sum1 >= sum
        PROVE  q >= 1
    <3> SUFFICES ASSUME q = 0 PROVE FALSE
      BY <2>3
    <3>1. sum1 * 3 <= sum1 * side
      BY <2>6, Times
    <3>2. sum1 * side = side * sum1 /\ sum1 * 3 = 3 * sum1 /\ sum * q = 0
      OBVIOUS
    <3> QED
      BY <1>2, <2>2, <2>3, <2>6, <3>1, <3>2
  <2>7. ASSUME side > 0, q = side
        PROVE  sum1 = sum
    <3> SUFFICES ASSUME sum1 + 1 <= sum PROVE FALSE
      OBVIOUS
    <3>1. side * (sum1 + 1) <= side * sum
      BY Times
    <3>2. side * (sum1 + 1) = side * sum1 + side
      OBVIOUS
    <3> QED
      BY <2>2, <2>3, <2>4, <2>7, <3>1, <3>2
  <2> QED
    BY <1>2, <2>1, <2>3, <2>5, <2>6, <2>7
<1> QED
  BY <1>1, <1>2

\* A sum of natural numbers is one.
LEMMA TotalIsNatural ==
    ASSUME NEW S, IsFiniteSet(S), NEW f, \A x \in S : f[x] \in Nat
    PROVE  Total(f, S) \in Nat
<1> DEFINE B == {s \in SUBSET S : Total(f, s) \notin Nat}
<1>1. \A s \in SUBSET S : IsFiniteSet(s) /\ Valued(f, s)
  BY FS_Subset DEF Valued
<1>2. \A s \in B : \E x \in s : s \ {x} \in B
  <2> SUFFICES ASSUME NEW s \in B PROVE \E x \in s : s \ {x} \in B
    OBVIOUS
  <2>1. s # {}
    BY <1>1, TotalFacts
  <2>2. PICK x \in s : TRUE
    BY <2>1
  <2>3. {x} \in SUBSET s /\ s \ {x} \in SUBSET S
    BY <2>2
  <2>4. Total(f, s) = Total(f, {x}) + Total(f, s \ {x}) /\ Total(f, s) \in Int
    BY <1>1, <2>3, TotalFacts
  <2>5. Total(f, {x}) = f[x] /\ f[x] \in Nat
    BY <2>2, TotalOfOne
  <2> QED
    BY <2>2, <2>3, <2>4, <2>5
<1> HIDE DEF B
<1>3. B = {}
  <2>1. B \in SUBSET SUBSET S
    BY DEF B
  <2> QED
    BY <1>2, <2>1, Smallest
<1> QED
  BY <1>3 DEF B

\* The sizes from a to b are natural numbers.
Sizes(s, a, b) == \A i \in a .. b : s[i] \in Nat

\* A range can be summed in two parts.
LEMMA RangeSums ==
    ASSUME NEW a \in Int, NEW b \in Int, NEW s, Sizes(s, a, b)
    PROVE  /\ SumOf(s, a, b) \in Nat
           /\ b < a => SumOf(s, a, b) = 0
           /\ \A k \in Int : a <= k + 1 /\ k <= b =>
                /\ SumOf(s, a, k) \in Nat
                /\ SumOf(s, k + 1, b) \in Nat
                /\ SumOf(s, a, b) = SumOf(s, a, k) + SumOf(s, k + 1, b)
<1>1. \A k \in Int : \A l \in Int : IsFiniteSet(k .. l)
  BY FS_Interval
<1>2. Valued(s, a .. b)
  BY DEF Valued, Sizes
<1>3. b < a => a .. b = {}
  OBVIOUS
<1>4. SumOf(s, a, b) \in Nat /\ (b < a => SumOf(s, a, b) = 0)
  BY <1>1, <1>2, <1>3, TotalIsNatural, TotalFacts DEF SumOf, Sizes
<1>5. ASSUME NEW k \in Int, a <= k + 1, k <= b
      PROVE  /\ SumOf(s, a, k) \in Nat
             /\ SumOf(s, k + 1, b) \in Nat
             /\ SumOf(s, a, b) = SumOf(s, a, k) + SumOf(s, k + 1, b)
  <2>1. /\ a .. k \in SUBSET (a .. b) /\ (a .. b) \ (a .. k) = (k + 1) .. b
        /\ \A i \in a .. k : i \in a .. b
        /\ \A i \in (k + 1) .. b : i \in a .. b
    BY <1>5
  <2>2. Total(s, a .. b) = Total(s, a .. k) + Total(s, (a .. b) \ (a .. k))
    <3> DEFINE R == a .. k
               S == a .. b
    <3>1. R \in SUBSET S /\ IsFiniteSet(S) /\ Valued(s, S)
      BY <1>1, <1>2, <2>1
    <3> HIDE DEF R, S
    <3>2. Total(s, S) = Total(s, R) + Total(s, S \ R)
      BY <3>1, TotalFacts
    <3> QED
      BY <3>2 DEF R, S
  <2>3. Total(s, a .. k) \in Nat /\ Total(s, (k + 1) .. b) \in Nat
    <3>1. /\ IsFiniteSet(a .. k) /\ IsFiniteSet((k + 1) .. b)
          /\ \A i \in a .. k : s[i] \in Nat
          /\ \A i \in (k + 1) .. b : s[i] \in Nat
      <4>1. \A i \in a .. b : s[i] \in Nat
        BY DEF Sizes
      <4>2. k \in Int /\ k + 1 \in Int
        BY <1>5
      <4>3. IsFiniteSet(a .. k) /\ IsFiniteSet((k + 1) .. b)
        BY <4>2, FS_Interval
      <4> QED
        BY <2>1, <4>1, <4>3
    <3>2. Total(s, a .. k) \in Nat
      BY <3>1, TotalIsNatural
    <3>3. Total(s, (k + 1) .. b) \in Nat
      BY <3>1, TotalIsNatural
    <3> QED
      BY <3>2, <3>3
  <2> QED
    BY <2>1, <2>2, <2>3 DEF SumOf
<1> QED
  BY <1>4, <1>5

\* The sum of a single size
LEMMA RangeOfOne ==
    ASSUME NEW a \in Int, NEW s, s[a] \in Nat
    PROVE  SumOf(s, a, a) = s[a]
<1>1. a .. a = {a}
  OBVIOUS
<1> QED
  BY <1>1, TotalOfOne DEF SumOf

\* No size is bigger than the sum.
LEMMA PartsOfRange ==
    ASSUME NEW a \in Int, NEW b \in Int, NEW s, Sizes(s, a, b), NEW i \in a .. b
    PROVE  s[i] \in Nat /\ s[i] <= SumOf(s, a, b)
<1>1. Sizes(s, i, b) /\ s[i] \in Nat /\ a <= (i - 1) + 1 /\ i - 1 <= b /\ (i - 1) + 1 = i
  BY DEF Sizes
<1>2. SumOf(s, a, b) = SumOf(s, a, i - 1) + SumOf(s, i, b) /\ SumOf(s, a, i - 1) \in Nat
  BY <1>1, RangeSums
<1>3. SumOf(s, i, b) = SumOf(s, i, i) + SumOf(s, i + 1, b) /\ SumOf(s, i + 1, b) \in Nat
  BY <1>1, RangeSums
<1> QED
  BY <1>1, <1>2, <1>3, RangeOfOne

\* If the sum is 0 all the sizes are,
LEMMA RangeOfNothing ==
    ASSUME NEW a \in Int, NEW b \in Int, NEW s, Sizes(s, a, b), SumOf(s, a, b) = 0
    PROVE  \A i \in a .. b : s[i] = 0
BY PartsOfRange

\* and the other way round.
LEMMA RangeOfNoSizes ==
    ASSUME NEW a \in Int, NEW b \in Int, NEW s, \A i \in a .. b : s[i] = 0
    PROVE  SumOf(s, a, b) = 0
<1> DEFINE T == {n \in Nat : SumOf(s, a, a + n - 1) = 0}
<1>1. Sizes(s, a, b)
  BY DEF Sizes
<1>2. CASE b < a
  BY <1>1, <1>2, RangeSums
<1>3. CASE a <= b
  <2>1. 0 \in T
    <3>1. Sizes(s, a, a + 0 - 1)
      BY <1>1, <1>3 DEF Sizes
    <3> QED
      BY <3>1, RangeSums
  <2>2. \A n \in 1 .. (b - a + 1) : n - 1 \in T => n \in T
    <3> SUFFICES ASSUME NEW n \in 1 .. (b - a + 1), n - 1 \in T PROVE n \in T
      OBVIOUS
    <3> DEFINE c == a + n - 1
    <3>1. c \in a .. b /\ n \in Nat /\ a + (n - 1) - 1 = c - 1 /\ (c - 1) + 1 = c /\ s[c] = 0
      BY <1>3
    <3>2. Sizes(s, a, c) /\ a <= (c - 1) + 1 /\ c - 1 <= c /\ c \in Int /\ c - 1 \in Int
      BY <1>1, <3>1 DEF Sizes
    <3>3. SumOf(s, a, c - 1) = 0
      BY <3>1
    <3>4. SumOf(s, a, c) = SumOf(s, a, c - 1) + SumOf(s, (c - 1) + 1, c)
      <4> HIDE DEF c
      <4> QED
        BY <3>2, RangeSums
    <3>5. SumOf(s, c, c) = 0
      BY <3>1, RangeOfOne
    <3> HIDE DEF c
    <3>6. SumOf(s, a, c) = 0
      BY <3>1, <3>3, <3>4, <3>5
    <3> QED
      BY <3>1, <3>6 DEF c
  <2>3. b - a + 1 \in Nat /\ b - a + 1 \in 0 .. (b - a + 1) /\ a + (b - a + 1) - 1 = b
    BY <1>3
  <2> HIDE DEF T
  <2>4. \A n \in 0 .. (b - a + 1) : n \in T
    BY <2>1, <2>2, <2>3, AllUpTo
  <2>5. b - a + 1 \in T
    BY <2>3, <2>4
  <2> QED
    BY <2>3, <2>5 DEF T
<1> QED
  BY <1>2, <1>3

-----------------------------------------------------------------------------
(* Where the halves are cut, and what is kept                                 *)

\* The biggest of some numbers in a range is one of them,
LEMMA MaxOfRange ==
    ASSUME NEW a \in Int, NEW b \in Int, NEW K \in SUBSET (a .. b), K # {}
    PROVE  Max(K) \in K /\ \A k \in K : k <= Max(K)
<1> DEFINE T == {b - k : k \in K}
<1>1. T \in SUBSET Nat /\ T # {}
  <2>1. \A k \in K : b - k \in Nat
    OBVIOUS
  <2> QED
    BY <2>1
<1> HIDE DEF T
<1>2. PICK t \in T : \A u \in T : t <= u
  BY <1>1, Least
<1>3. PICK k \in K : t = b - k
  BY DEF T
<1>4. \A j \in K : j \in Int /\ b - j \in T
  BY DEF T
<1>5. \A j \in K : j <= k
  <2> SUFFICES ASSUME NEW j \in K PROVE j <= k
    OBVIOUS
  <2>1. b - k <= b - j /\ j \in Int /\ k \in Int
    BY <1>2, <1>3, <1>4
  <2> QED
    BY <2>1
<1>6. \E x \in K : \A y \in K : x >= y
  BY <1>4, <1>5
<1>7. Max(K) \in K /\ \A y \in K : Max(K) >= y
  BY <1>6 DEF Max
<1> QED
  BY <1>4, <1>7

\* and so is the smallest.
LEMMA MinOfRange ==
    ASSUME NEW a \in Int, NEW b \in Int, NEW K \in SUBSET (a .. b), K # {}
    PROVE  Min(K) \in K /\ \A k \in K : Min(K) <= k
<1> DEFINE T == {k - a : k \in K}
<1>1. T \in SUBSET Nat /\ T # {}
  OBVIOUS
<1> HIDE DEF T
<1>2. PICK t \in T : \A u \in T : t <= u
  BY <1>1, Least
<1>3. PICK k \in K : t = k - a
  BY DEF T
<1>4. \A j \in K : j \in Int /\ j - a \in T
  BY DEF T
<1>5. \A j \in K : k <= j
  <2> SUFFICES ASSUME NEW j \in K PROVE k <= j
    OBVIOUS
  <2>1. k - a <= j - a /\ j \in Int /\ k \in Int
    BY <1>2, <1>3, <1>4
  <2> QED
    BY <2>1
<1>6. \E x \in K : \A y \in K : x <= y
  BY <1>4, <1>5
<1> QED
  BY <1>6 DEF Min

\* Each size is no smaller than the one after the next. The next one may be bigger: unknown
\* space is put before free space, whichever is bigger.
Falling(s, a, b) == \A i, j \in a .. b : i + 2 <= j => s[j] <= s[i]

\* The last child is never in the first half, and a first half of more than one child has a
\* third of the sum, so that the rounding cannot leave it without a pixel.
LEMMA HalfFacts ==
    ASSUME NEW a \in Int, NEW b \in Int, a < b, NEW s, Sizes(s, a, b), Falling(s, a, b)
    PROVE  /\ FirstHalf(s, a, b) \in a .. b - 1
           /\ FirstHalf(s, a, b) > a => 3 * SumOf(s, a, FirstHalf(s, a, b)) >= SumOf(s, a, b)
<1> DEFINE Difference(k) == Abs(SumOf(s, k + 1, b) - SumOf(s, a, k))
           K == {a} \union {k \in a + 1 .. b : \A i \in a + 1 .. k : Difference(i) < Difference(i - 1)}
           k == FirstHalf(s, a, b)
           S == SumOf(s, a, b)
           S1 == SumOf(s, a, k)
<1>1. k = Max(K)
  BY DEF FirstHalf
<1>2. K \in SUBSET (a .. b) /\ K # {}
  OBVIOUS
<1>3. k \in K /\ k \in a .. b /\ \A j \in K : j <= k
  <2> HIDE DEF K, k
  <2>1. Max(K) \in K /\ \A j \in K : j <= Max(K)
    BY <1>2, MaxOfRange
  <2> QED
    BY <1>1, <1>2, <2>1
<1>4. \A j \in a - 1 .. b : /\ SumOf(s, a, j) \in Nat /\ SumOf(s, j + 1, b) \in Nat
                            /\ S = SumOf(s, a, j) + SumOf(s, j + 1, b)
  <2> SUFFICES ASSUME NEW j \in a - 1 .. b
               PROVE  /\ SumOf(s, a, j) \in Nat /\ SumOf(s, j + 1, b) \in Nat
                      /\ S = SumOf(s, a, j) + SumOf(s, j + 1, b)
    OBVIOUS
  <2>1. j \in Int /\ a <= j + 1 /\ j <= b
    OBVIOUS
  <2> QED
    BY <2>1, RangeSums
<1>5. \A j \in a .. b - 1 : s[j + 1] \in Nat /\ SumOf(s, a, j + 1) = SumOf(s, a, j) + s[j + 1]
  <2> SUFFICES ASSUME NEW j \in a .. b - 1
               PROVE  s[j + 1] \in Nat /\ SumOf(s, a, j + 1) = SumOf(s, a, j) + s[j + 1]
    OBVIOUS
  <2>1. j \in Int /\ j + 1 \in Int /\ a <= j + 1 /\ j <= j + 1 /\ j + 1 \in a .. b
    OBVIOUS
  <2>2. Sizes(s, a, j + 1) /\ s[j + 1] \in Nat
    BY DEF Sizes
  <2>3. SumOf(s, a, j + 1) = SumOf(s, a, j) + SumOf(s, j + 1, j + 1)
    BY <2>1, <2>2, RangeSums
  <2> QED
    BY <2>1, <2>2, <2>3, RangeOfOne
<1> HIDE DEF k, S, S1
<1>6. k # b
  <2> SUFFICES ASSUME k = b PROVE FALSE
    OBVIOUS
  <2>1. b \in a + 1 .. b /\ Difference(b) < Difference(b - 1)
    BY <1>3
  <2>2. b - 1 \in a .. b - 1 /\ b - 1 \in a - 1 .. b /\ b \in a - 1 .. b /\ (b - 1) + 1 = b
    OBVIOUS
  <2>3. s[b] \in Nat /\ SumOf(s, a, b) = SumOf(s, a, b - 1) + s[b]
    BY <1>5, <2>2
  <2>4. /\ SumOf(s, a, b - 1) \in Nat /\ SumOf(s, b, b) \in Nat /\ S = SumOf(s, a, b - 1) + SumOf(s, b, b)
        /\ SumOf(s, a, b) \in Nat /\ SumOf(s, b + 1, b) \in Nat
        /\ S = SumOf(s, a, b) + SumOf(s, b + 1, b)
    BY <1>4, <2>2
  <2>5. Difference(b - 1) = Abs(SumOf(s, b, b) - SumOf(s, a, b - 1))
    BY <2>2
  <2>6. SumOf(s, b + 1, b) = 0
    BY <2>4 DEF S
  <2>7. Difference(b) = Abs(SumOf(s, b + 1, b) - SumOf(s, a, b))
    OBVIOUS
  <2> HIDE DEF Difference, K
  <2> QED
    BY <2>1, <2>3, <2>4, <2>5, <2>6, <2>7 DEF Abs
<1>7. k \in a .. b - 1
  <2> HIDE DEF K
  <2> QED
    BY <1>3, <1>6
<1>8. ASSUME k > a
      PROVE  3 * S1 >= S
  <2> DEFINE c == s[k + 1]
             R == SumOf(s, (k + 1) + 1, b)
  <2>0. S1 \in Nat /\ S \in Nat /\ k \in a .. b
    <3> HIDE DEF K
    <3> QED
      BY <1>3, <1>4, <1>7, RangeSums DEF S1, S
  <2>1. k + 1 \notin K
    <3> HIDE DEF K
    <3> QED
      BY <1>3, <1>7
  <2>2. ~ (Difference(k + 1) < Difference(k))
    <3>1. k + 1 \in a + 1 .. b /\ (k + 1) - 1 = k
      BY <1>7
    <3>2. PICK m \in a + 1 .. k + 1 : ~ (Difference(m) < Difference(m - 1))
      BY <2>1, <3>1
    <3>3. k # a
      BY <1>8, <1>7
    <3>4. \A j \in a + 1 .. k : Difference(j) < Difference(j - 1)
      <4>1. k \in {l \in a + 1 .. b : \A i \in a + 1 .. l : Difference(i) < Difference(i - 1)}
        BY <1>3, <3>3
      <4> QED
        BY <4>1
    <3> HIDE DEF Difference, K
    <3> QED
      BY <1>7, <3>1, <3>2, <3>4
  <2>3. /\ c \in Nat /\ SumOf(s, a, k + 1) = S1 + c
        /\ SumOf(s, k + 1, b) \in Nat /\ S = S1 + SumOf(s, k + 1, b)
        /\ R \in Nat /\ S = SumOf(s, a, k + 1) + R
    <3>1. k \in a - 1 .. b /\ k + 1 \in a - 1 .. b
      BY <1>7
    <3> HIDE DEF K
    <3> QED
      BY <1>4, <1>5, <1>7, <3>1 DEF S1
  <2>4. Difference(k + 1) = Abs(R - SumOf(s, a, k + 1)) /\ Difference(k) = Abs(SumOf(s, k + 1, b) - S1)
    BY DEF S1
  <2>5. c = 0 \/ S - 2 * S1 <= c
    <3> HIDE DEF Difference, K, R, c
    <3> QED
      BY <2>0, <2>2, <2>3, <2>4 DEF Abs
  <2>6. CASE S - 2 * S1 <= c
    <3>1. k - 1 \in a .. b /\ k + 1 \in a .. b /\ (k - 1) + 2 <= k + 1 /\ k - 1 \in a .. k
      BY <1>7, <1>8
    <3>2. c <= s[k - 1]
      BY <3>1 DEF Falling
    <3>3. s[k - 1] \in Nat /\ s[k - 1] <= S1
      <4>1. Sizes(s, a, k) /\ k \in Int
        BY <1>7 DEF Sizes
      <4> QED
        BY <3>1, <4>1, PartsOfRange DEF S1
    <3> HIDE DEF c
    <3> QED
      BY <2>0, <2>3, <2>6, <3>2, <3>3
  <2>7. CASE c = 0
    <3> DEFINE l == k + 2
    <3>1. k \in Int /\ l \in Int /\ (k + 1) + 1 = l /\ k \in a .. b /\ k + 1 \in a .. b
      BY <1>7
    <3>2. CASE b < l
      <4>1. Sizes(s, l, b)
        BY <3>1, <3>2 DEF Sizes
      <4> HIDE DEF l
      <4>2. R = 0
        BY <3>1, <3>2, <4>1, RangeSums
      <4> HIDE DEF R, c
      <4> QED
        BY <2>0, <2>3, <2>7, <4>2
    <3>3. CASE l <= b
      <4>1. Sizes(s, l, b) /\ l \in a .. b /\ s[l] \in Nat /\ s[k] \in Nat
        BY <3>1, <3>3 DEF Sizes
      <4>2. s[l] <= s[k]
        BY <3>1, <4>1 DEF Falling
      <4>3. s[k] <= S1
        <5>1. Sizes(s, a, k) /\ k \in a .. k
          BY <1>7 DEF Sizes
        <5> QED
          BY <3>1, <5>1, PartsOfRange DEF S1
      <4>4. \A j \in l + 1 .. b : s[j] = 0
        <5> SUFFICES ASSUME NEW j \in l + 1 .. b PROVE s[j] = 0
          OBVIOUS
        <5>1. j \in a .. b /\ (k + 1) + 2 <= j
          BY <3>1
        <5>2. s[j] <= c /\ s[j] \in Nat
          BY <3>1, <5>1 DEF Falling, Sizes
        <5> QED
          BY <2>7, <5>2
      <4> HIDE DEF l
      <4>5. l <= l + 1 /\ l \in Int /\ l + 1 \in Int
        BY <3>1
      <4>6. SumOf(s, l + 1, b) = 0
        BY <4>4, <4>5, RangeOfNoSizes
      <4>7. SumOf(s, l, b) = SumOf(s, l, l) + SumOf(s, l + 1, b)
        BY <3>3, <4>1, <4>5, RangeSums
      <4>8. SumOf(s, l, l) = s[l]
        BY <4>1, <4>5, RangeOfOne
      <4>9. R = s[l]
        BY <3>1, <4>1, <4>6, <4>7, <4>8
      <4> HIDE DEF R, c
      <4> QED
        BY <2>0, <2>3, <2>7, <4>1, <4>2, <4>3, <4>9
    <3> HIDE DEF l
    <3> QED
      BY <1>7, <3>1, <3>2, <3>3
  <2> HIDE DEF R, c, Difference, K
  <2> QED
    BY <2>5, <2>6, <2>7
<1> HIDE DEF K, Difference
<1> QED
  BY <1>7, <1>8 DEF k, S, S1

\* At least two children are kept. In an area of up to 2 by 2 pixels it is two, unless all
\* sizes are 0: MIN_CHILD_PIXEL_AREA has to be 4 at least for that.
LEMMA KeptFacts ==
    ASSUME NEW a \in Int, NEW b \in Int, a < b, NEW s, Sizes(s, a, b), Falling(s, a, b),
           NEW rect \in Area, ~ NoRoom(rect)
    PROVE  /\ Kept(s, a, b, rect) \in a + 1 .. b
           /\ rect.w <= 2 /\ rect.h <= 2 =>
                Kept(s, a, b, rect) = a + 1 \/ SumOf(s, a, b) = 0
<1> DEFINE S == SumOf(s, a, b)
           q == MIN_CHILD_PIXEL_AREA \div (rect.w * rect.h)
           K == {b} \union {i - 1 : i \in {j \in a + 2 .. b : s[j] < S * q}}
           last == Kept(s, a, b, rect)
<1>1. last = Min(K)
  BY DEF Kept
<1>2. K \in SUBSET (a + 1 .. b) /\ K # {}
  <2>1. \A i \in a + 2 .. b : i - 1 \in a + 1 .. b
    OBVIOUS
  <2>2. b \in a + 1 .. b
    OBVIOUS
  <2> QED
    BY <2>1, <2>2
<1>3. S \in Nat
  BY RangeSums
<1> HIDE DEF last, S
<1>4. last \in K /\ \A k \in K : last <= k
  <2> HIDE DEF K
  <2>1. a + 1 \in Int
    OBVIOUS
  <2> QED
    BY <1>1, <1>2, <2>1, MinOfRange
<1>5. ASSUME rect.w <= 2, rect.h <= 2, last # a + 1
      PROVE  S = 0
  <2>1. rect.w \in 1 .. 2 /\ rect.h \in 1 .. 2
    BY <1>5 DEF NoRoom, Area
  <2>2. rect.w * rect.h \in 1 .. 4
    BY <2>1
  <2>3. q \in Nat /\ q >= 1
    <3> DEFINE p == rect.w * rect.h
    <3>1. p \in 1 .. 4 /\ MIN_CHILD_PIXEL_AREA \in Nat /\ MIN_CHILD_PIXEL_AREA >= 4
      BY <2>2, LayoutAssumption
    <3> HIDE DEF p
    <3>2. /\ MIN_CHILD_PIXEL_AREA \div p \in Nat
          /\ MIN_CHILD_PIXEL_AREA < p * (MIN_CHILD_PIXEL_AREA \div p) + p
      BY <3>1, Division
    <3>3. MIN_CHILD_PIXEL_AREA \div p # 0
      <4> SUFFICES ASSUME MIN_CHILD_PIXEL_AREA \div p = 0 PROVE FALSE
        OBVIOUS
      <4>1. p * (MIN_CHILD_PIXEL_AREA \div p) = 0
        BY <3>1
      <4> QED
        BY <3>1, <3>2, <4>1
    <3> QED
      BY <3>2, <3>3 DEF p
  <2> HIDE DEF q
  <2>4. a + 1 \notin K /\ last \in a + 1 .. b
    <3> HIDE DEF K
    <3> QED
      BY <1>2, <1>4, <1>5
  <2>5. b # a + 1 /\ a + 2 \in a + 2 .. b
    BY <2>4
  <2>6. ~ (s[a + 2] < S * q)
    <3>1. (a + 2) - 1 = a + 1
      OBVIOUS
    <3> QED
      BY <2>4, <2>5, <3>1
  <2>7. S * q >= S
    <3>1. S * 1 <= S * q
      BY <1>3, <2>3, Times
    <3> QED
      BY <1>3, <2>3, <3>1
  <2>8. s[a] \in Nat /\ s[a + 2] \in Nat /\ s[a + 2] <= s[a]
    BY <2>5 DEF Sizes, Falling
  <2>9. /\ S = SumOf(s, a, a) + SumOf(s, a + 1, b)
        /\ SumOf(s, a, a) = s[a]
        /\ s[a + 2] <= SumOf(s, a + 1, b)
        /\ SumOf(s, a + 1, b) \in Nat
    <3>1. Sizes(s, a + 1, b) /\ a + 2 \in a + 1 .. b /\ a + 1 \in Int
      BY <2>5 DEF Sizes
    <3>2. SumOf(s, a, b) = SumOf(s, a, a) + SumOf(s, a + 1, b) /\ SumOf(s, a + 1, b) \in Nat
      BY RangeSums
    <3>3. SumOf(s, a, a) = s[a]
      BY <2>8, RangeOfOne
    <3>4. s[a + 2] <= SumOf(s, a + 1, b)
      BY <3>1, PartsOfRange
    <3> QED
      BY <3>2, <3>3, <3>4 DEF S
  <2>10. S * q \in Nat
    BY <1>3, <2>3
  <2> HIDE DEF K
  <2> QED
    BY <1>3, <2>6, <2>7, <2>8, <2>9, <2>10
<1> QED
  <2> HIDE DEF K
  <2> QED
    BY <1>2, <1>4, <1>5 DEF last, S

-----------------------------------------------------------------------------
(* A rectangle that is divided                                                *)

\* The areas from a to b divide a rectangle.
Divided(areas, a, b, rect) ==
    /\ \A i \in a .. b : /\ areas[i] \in Area
                         /\ Pixels(areas[i]) \in Nat
                         /\ Inside(areas[i], rect)
    /\ \A i, j \in a .. b : i # j => Apart(areas[i], areas[j])
    /\ SumOf([i \in a .. b |-> Pixels(areas[i])], a, b) = Pixels(rect)

\* h1 and h2 are rect, cut in two along its width, or its height.
Cut(h1, h2, rect) ==
    \/ /\ h1.w \in 0 .. rect.w
       /\ h1 = [rect EXCEPT !.w = h1.w]
       /\ h2 = [rect EXCEPT !.x = @ + h1.w, !.w = @ - h1.w]
    \/ /\ h1.h \in 0 .. rect.h
       /\ h1 = [rect EXCEPT !.h = h1.h]
       /\ h2 = [rect EXCEPT !.y = @ + h1.h, !.h = @ - h1.h]

\* The areas of two parts of a rectangle
LEMMA Distributes ==
    ASSUME NEW a \in Int, NEW b \in Int, NEW c \in Int
    PROVE  a * c + (b - a) * c = b * c /\ c * a + c * (b - a) = c * b
OBVIOUS

\* What is in one half is in the whole, and apart from what is in the other half.
LEMMA CutFacts ==
    ASSUME NEW rect \in Area, NEW h1, NEW h2, Cut(h1, h2, rect)
    PROVE  /\ h1 \in Area /\ h2 \in Area
           /\ Pixels(h1) + Pixels(h2) = Pixels(rect)
           /\ \A r \in Area : Inside(r, h1) \/ Inside(r, h2) => Inside(r, rect)
           /\ \A r, s \in Area : Inside(r, h1) /\ Inside(s, h2) => Apart(r, s)
<1>1. /\ rect.x \in Int /\ rect.y \in Int /\ rect.w \in Int /\ rect.h \in Int
      /\ rect = [x |-> rect.x, y |-> rect.y, w |-> rect.w, h |-> rect.h]
  BY DEF Area
<1>2. CASE /\ h1.w \in 0 .. rect.w
           /\ h1 = [rect EXCEPT !.w = h1.w]
           /\ h2 = [rect EXCEPT !.x = @ + h1.w, !.w = @ - h1.w]
  <2> DEFINE p == h1.w
  <2>1. p \in Int /\ p >= 0 /\ p <= rect.w
    BY <1>1, <1>2
  <2>2. /\ h1 = [x |-> rect.x, y |-> rect.y, w |-> p, h |-> rect.h]
        /\ h2 = [x |-> rect.x + p, y |-> rect.y, w |-> rect.w - p, h |-> rect.h]
    BY <1>1, <1>2
  <2> HIDE DEF p
  <2>3. h1 \in Area /\ h2 \in Area
    BY <1>1, <2>1, <2>2 DEF Area
  <2>4. Pixels(h1) + Pixels(h2) = Pixels(rect)
    <3>1. p * rect.h + (rect.w - p) * rect.h = rect.w * rect.h
      BY <1>1, <2>1, Distributes
    <3> QED
      BY <2>2, <3>1 DEF Pixels
  <2>5. \A r \in Area : Inside(r, h1) \/ Inside(r, h2) => Inside(r, rect)
    BY <1>1, <2>1, <2>2 DEF Area, Inside
  <2>6. \A r, s \in Area : Inside(r, h1) /\ Inside(s, h2) => Apart(r, s)
    BY <1>1, <2>1, <2>2 DEF Area, Inside, Apart
  <2> QED
    BY <2>3, <2>4, <2>5, <2>6
<1>3. CASE /\ h1.h \in 0 .. rect.h
           /\ h1 = [rect EXCEPT !.h = h1.h]
           /\ h2 = [rect EXCEPT !.y = @ + h1.h, !.h = @ - h1.h]
  <2> DEFINE p == h1.h
  <2>1. p \in Int /\ p >= 0 /\ p <= rect.h
    BY <1>1, <1>3
  <2>2. /\ h1 = [x |-> rect.x, y |-> rect.y, w |-> rect.w, h |-> p]
        /\ h2 = [x |-> rect.x, y |-> rect.y + p, w |-> rect.w, h |-> rect.h - p]
    BY <1>1, <1>3
  <2> HIDE DEF p
  <2>3. h1 \in Area /\ h2 \in Area
    BY <1>1, <2>1, <2>2 DEF Area
  <2>4. Pixels(h1) + Pixels(h2) = Pixels(rect)
    <3>1. rect.w * p + rect.w * (rect.h - p) = rect.w * rect.h
      BY <1>1, <2>1, Distributes
    <3> QED
      BY <2>2, <3>1 DEF Pixels
  <2>5. \A r \in Area : Inside(r, h1) \/ Inside(r, h2) => Inside(r, rect)
    BY <1>1, <2>1, <2>2 DEF Area, Inside
  <2>6. \A r, s \in Area : Inside(r, h1) /\ Inside(s, h2) => Apart(r, s)
    BY <1>1, <2>1, <2>2 DEF Area, Inside, Apart
  <2> QED
    BY <2>3, <2>4, <2>5, <2>6
<1> QED
  BY <1>2, <1>3 DEF Cut

\* Equal sizes have equal sums.
LEMMA SumSame ==
    ASSUME NEW a \in Int, NEW b \in Int, NEW f, NEW e, \A i \in a .. b : f[i] = e[i]
    PROVE  SumOf(f, a, b) = SumOf(e, a, b)
<1>1. IsFiniteSet(a .. b)
  BY FS_Interval
<1>2. Same(f, e, a .. b)
  BY DEF Same
<1> DEFINE S == a .. b
<1> HIDE DEF S
<1>3. Total(f, S) = Total(e, S)
  BY <1>1, <1>2, TotalSame DEF S
<1> QED
  BY <1>3 DEF S, SumOf

\* The areas from a to k are those of r1, from there to l those of r2, and after them there
\* is none.
Joined(areas, a, k, l, b, r1, r2) ==
    /\ \A i \in a .. k : areas[i] = r1[i]
    /\ \A i \in k + 1 .. l : areas[i] = r2[i]
    /\ \A i \in l + 1 .. b : areas[i] \in Area /\ Pixels(areas[i]) = 0

\* If the halves are divided, and those after them have no area, the whole is divided.
LEMMA Combined ==
    ASSUME NEW rect \in Area, NEW h1, NEW h2, Cut(h1, h2, rect),
           NEW a \in Int, NEW k \in Int, NEW l \in Int, NEW b \in Int, a <= k, k <= l, l <= b,
           NEW r1, Divided(r1, a, k, h1),
           NEW r2, Divided(r2, k + 1, l, h2),
           NEW areas, Joined(areas, a, k, l, b, r1, r2)
    PROVE  Divided(areas, a, b, rect)
<1> DEFINE f == [i \in a .. b |-> Pixels(areas[i])]
           f1 == [i \in a .. k |-> Pixels(r1[i])]
           f2 == [i \in k + 1 .. l |-> Pixels(r2[i])]
<1> USE DEF Joined
<1>1. \A i \in a .. b : i \in a .. k \/ i \in k + 1 .. l \/ i \in l + 1 .. b
  OBVIOUS
<1>2. \A i \in a .. k : /\ areas[i] \in Area /\ Pixels(areas[i]) \in Nat
                        /\ Inside(areas[i], h1)
  BY DEF Divided
<1>3. \A i \in k + 1 .. l : /\ areas[i] \in Area /\ Pixels(areas[i]) \in Nat
                            /\ Inside(areas[i], h2)
  BY DEF Divided
<1>4. \A i \in a .. b : /\ areas[i] \in Area /\ Pixels(areas[i]) \in Nat
                        /\ Inside(areas[i], rect)
  <2>1. \A i \in l + 1 .. b : Inside(areas[i], rect)
    BY DEF Inside
  <2>2. \A i \in a .. k : Inside(areas[i], rect)
    BY <1>2, CutFacts
  <2>3. \A i \in k + 1 .. l : Inside(areas[i], rect)
    BY <1>3, CutFacts
  <2> QED
    BY <1>1, <1>2, <1>3, <2>1, <2>2, <2>3
<1>5. \A i, j \in a .. b : i # j => Apart(areas[i], areas[j])
  <2>1. \A i \in l + 1 .. b : \A r : Apart(areas[i], r) /\ Apart(r, areas[i])
    BY DEF Apart
  <2>2. \A i \in a .. k : \A j \in k + 1 .. l : Apart(areas[i], areas[j])
    BY <1>2, <1>3, CutFacts
  <2>3. \A r, s : Apart(r, s) => Apart(s, r)
    BY DEF Apart
  <2>4. \A i, j \in a .. k : i # j => Apart(areas[i], areas[j])
    BY DEF Divided
  <2>5. \A i, j \in k + 1 .. l : i # j => Apart(areas[i], areas[j])
    BY DEF Divided
  <2> QED
    BY <1>1, <2>1, <2>2, <2>3, <2>4, <2>5
<1>6. SumOf(f, a, b) = Pixels(rect)
  <2>1. Sizes(f, a, b) /\ Sizes(f, k + 1, b)
    BY <1>4 DEF Sizes
  <2>2. SumOf(f, a, k) = SumOf(f1, a, k)
    <3>1. \A i \in a .. k : f[i] = f1[i]
      OBVIOUS
    <3> HIDE DEF f, f1
    <3> QED
      BY <3>1, SumSame
  <2>3. SumOf(f, k + 1, l) = SumOf(f2, k + 1, l)
    <3>1. \A i \in k + 1 .. l : f[i] = f2[i]
      OBVIOUS
    <3>2. k + 1 \in Int
      OBVIOUS
    <3> HIDE DEF f, f2
    <3> QED
      BY <3>1, <3>2, SumSame
  <2>4. SumOf(f, l + 1, b) = 0
    <3>1. \A i \in l + 1 .. b : f[i] = 0
      OBVIOUS
    <3>2. l + 1 \in Int
      OBVIOUS
    <3> HIDE DEF f
    <3> QED
      BY <3>1, <3>2, RangeOfNoSizes
  <2>5. SumOf(f1, a, k) = Pixels(h1) /\ SumOf(f2, k + 1, l) = Pixels(h2)
    BY DEF Divided
  <2> HIDE DEF f, f1, f2
  <2>6. k + 1 \in Int /\ a <= k + 1 /\ k <= b /\ k + 1 <= l + 1
    OBVIOUS
  <2>7. SumOf(f, a, b) = SumOf(f, a, k) + SumOf(f, k + 1, b)
    BY <2>1, <2>6, RangeSums
  <2>8. SumOf(f, k + 1, b) = SumOf(f, k + 1, l) + SumOf(f, l + 1, b)
    BY <2>1, <2>6, RangeSums
  <2>9. SumOf(f, k + 1, l) \in Nat
    BY <2>1, <2>6, RangeSums
  <2>10. Pixels(h1) + Pixels(h2) = Pixels(rect)
    BY CutFacts
  <2> QED
    BY <2>2, <2>3, <2>4, <2>5, <2>7, <2>8, <2>9, <2>10
<1> QED
  BY <1>4, <1>5, <1>6 DEF Divided

\* A single child takes all of an area.
LEMMA ShownFacts ==
    ASSUME NEW r \in Area, r.w \in Nat, r.h \in Nat, NEW a \in Int
    PROVE  Divided([i \in a .. a |-> Shown(r)], a, a, r)
<1> DEFINE s == Shown(r)
           g == [i \in a .. a |-> s]
           f == [i \in a .. a |-> Pixels(g[i])]
<1>1. r = [x |-> r.x, y |-> r.y, w |-> r.w, h |-> r.h] /\ r.x \in Int /\ r.y \in Int
  BY DEF Area
<1>2. s \in Area /\ Pixels(s) \in Nat /\ Pixels(s) = Pixels(r) /\ Inside(s, r)
  <2>1. CASE NoRoom(r)
    <3>1. s = [x |-> r.x, y |-> r.y, w |-> 0, h |-> 0]
      BY <1>1, <2>1 DEF Shown
    <3>2. r.w = 0 \/ r.h = 0
      BY <2>1 DEF NoRoom
    <3>3. r.w * r.h = 0
      BY <3>2
    <3> QED
      BY <1>1, <3>1, <3>3 DEF Area, Pixels, Inside
  <2>2. CASE ~ NoRoom(r)
    <3>1. s = r
      BY <2>2 DEF Shown
    <3>2. r.w * r.h \in Nat
      OBVIOUS
    <3> QED
      BY <1>1, <3>1, <3>2 DEF Pixels, Inside
  <2> QED
    BY <2>1, <2>2
<1> HIDE DEF s
<1>3. a \in a .. a /\ \A i \in a .. a : i = a
  OBVIOUS
<1>4. SumOf(f, a, a) = Pixels(r)
  <2>1. f[a] = Pixels(s)
    BY <1>3
  <2> HIDE DEF f
  <2> QED
    BY <1>2, <2>1, RangeOfOne
<1>5. \A i \in a .. a : g[i] = s
  OBVIOUS
<1>6. \A i, j \in a .. a : i = j
  BY <1>3
<1>7. Divided(g, a, a, r)
  <2> HIDE DEF g
  <2> QED
    BY <1>2, <1>4, <1>5, <1>6 DEF Divided
<1> QED
  BY <1>7 DEF s

\* An area without room is divided among children without area.
LEMMA NothingDivided ==
    ASSUME NEW r \in Area, NoRoom(r), r.w \in Nat, r.h \in Nat, NEW a \in Int, NEW b \in Int,
           NEW areas, \A i \in a .. b : areas[i] = NoArea
    PROVE  Divided(areas, a, b, r)
<1> DEFINE f == [i \in a .. b |-> Pixels(areas[i])]
<1>1. NoArea \in Area /\ Pixels(NoArea) = 0
  BY DEF NoArea, Area, Pixels
<1>2. \A i \in a .. b : f[i] = 0
  BY <1>1
<1>3. SumOf(f, a, b) = 0
  <2> HIDE DEF f
  <2> QED
    BY <1>2, RangeOfNoSizes
<1>4. Pixels(r) = 0
  <2>1. r.w = 0 \/ r.h = 0
    BY DEF NoRoom
  <2> QED
    BY <2>1 DEF Pixels
<1> QED
  BY <1>1, <1>3, <1>4 DEF Divided, Inside, Apart

-----------------------------------------------------------------------------
(* What allocate_children gives                                               *)

\* What is known of the children of a view that has been copied: those of size 0 are
\* entries, and start without an area; each is no smaller than the one after the next.
GoodViews(views) ==
    /\ Len(views) \in Nat
    /\ \A i \in 1 .. Len(views) : /\ views[i].size \in Nat
                                  /\ views[i].area \in Area
                                  /\ views[i].size = 0 => views[i].area = NoArea
    /\ \A i, j \in 1 .. Len(views) : i + 2 <= j => views[j].size <= views[i].size

SizesOf(views) == [i \in 1 .. Len(views) |-> views[i].size]

\* g divides every area with room among any n children beside each other, and leaves
\* their areas to them if there is no room.
Allots(views, g, n) ==
    \A start \in 1 .. Len(views) - n + 1 : \A rect \in Area :
        IF NoRoom(rect)
        THEN \A i \in start .. start + n - 1 : g[n][start][rect][i] = views[i].area
        ELSE Divided(g[n][start][rect], start, start + n - 1, rect)

\* The children of a view have such sizes; those of no size have no area.
LEMMA SizesFacts ==
    ASSUME NEW views, GoodViews(views), NEW a \in Int, NEW b \in Int, 1 <= a, b <= Len(views)
    PROVE  /\ Sizes(SizesOf(views), a, b) /\ Falling(SizesOf(views), a, b)
           /\ SumOf(SizesOf(views), a, b) = 0 => \A i \in a .. b : views[i].area = NoArea
<1> DEFINE s == SizesOf(views)
<1>1. \A i \in a .. b : i \in 1 .. Len(views) /\ s[i] = views[i].size
  BY DEF GoodViews, SizesOf
<1> HIDE DEF s
<1>2. Sizes(s, a, b) /\ Falling(s, a, b)
  BY <1>1 DEF GoodViews, Sizes, Falling
<1>3. ASSUME SumOf(s, a, b) = 0
      PROVE  \A i \in a .. b : views[i].area = NoArea
  <2>1. \A i \in a .. b : s[i] = 0
    BY <1>2, <1>3, RangeOfNothing
  <2> QED
    BY <1>1, <2>1 DEF GoodViews
<1> QED
  BY <1>2, <1>3 DEF s

\* The halves are cut from the rectangle, and one without room is only for views of size 0.
LEMMA HalvesFacts ==
    ASSUME NEW s, NEW a \in Int, NEW k \in Int, NEW l \in Int, a <= k, k < l,
           Sizes(s, a, l), NEW rect \in Area, ~ NoRoom(rect)
    PROVE  LET halves == Halves(s, a, k, l, rect)
           IN  /\ Cut(halves[1], halves[2], rect)
               /\ halves[1].w \in Nat /\ halves[1].h \in Nat
               /\ halves[2].w \in Nat /\ halves[2].h \in Nat
               /\ /\ NoRoom(halves[1])
                  /\ rect.w >= 3 \/ rect.h >= 3
                  /\ 3 * SumOf(s, a, k) >= SumOf(s, a, l)
                  => SumOf(s, a, l) = 0
               /\ NoRoom(halves[2]) => SumOf(s, k + 1, l) = 0
<1> DEFINE sum1 == SumOf(s, a, k)
           sum == SumOf(s, a, l)
           w == Part(rect.w, sum1, sum)
           h == Part(rect.h, sum1, sum)
           halves == Halves(s, a, k, l, rect)
           h1 == halves[1]
           h2 == halves[2]
<1>1. /\ rect.x \in Int /\ rect.y \in Int /\ rect.w \in Nat \ {0} /\ rect.h \in Nat \ {0}
      /\ rect = [x |-> rect.x, y |-> rect.y, w |-> rect.w, h |-> rect.h]
  BY DEF Area, NoRoom
<1>2. sum1 \in Nat /\ SumOf(s, k + 1, l) \in Nat /\ sum = sum1 + SumOf(s, k + 1, l) /\ sum \in Nat
  BY RangeSums
<1>2a. rect.w \in Nat /\ rect.h \in Nat /\ sum1 <= sum
  <2> HIDE DEF sum1, sum
  <2> QED
    BY <1>1, <1>2
<1>3. CASE rect.w >= rect.h
  <2>1. /\ h1 = [rect EXCEPT !.w = w]
        /\ h2 = [rect EXCEPT !.x = @ + w, !.w = @ - w]
    BY <1>3 DEF Halves
  <2> HIDE DEF w, h1, h2, sum1, sum
  <2>2. /\ w \in 0 .. rect.w
        /\ sum > 0 /\ rect.w >= 3 /\ 3 * sum1 >= sum => w >= 1
        /\ sum > 0 /\ w = rect.w => sum1 = sum
    <3>1. /\ Part(rect.w, sum1, sum) \in 0 .. rect.w
          /\ sum > 0 /\ rect.w >= 3 /\ 3 * sum1 >= sum => Part(rect.w, sum1, sum) >= 1
          /\ sum > 0 /\ rect.w > 0 /\ Part(rect.w, sum1, sum) = rect.w => sum1 = sum
      BY <1>2, <1>2a, PartFacts
    <3> QED
      BY <1>1, <3>1 DEF w
  <2>3. h1.w = w /\ h1.h = rect.h /\ h2.w = rect.w - w /\ h2.h = rect.h
    BY <1>1, <2>1
  <2>4. Cut(h1, h2, rect)
    BY <2>1, <2>2, <2>3 DEF Cut
  <2>5. h1.w \in Nat /\ h1.h \in Nat /\ h2.w \in Nat /\ h2.h \in Nat
    BY <1>1, <2>2, <2>3
  <2>6. ASSUME NoRoom(h1), rect.w >= 3 \/ rect.h >= 3, 3 * sum1 >= sum
        PROVE  sum = 0
    <3>1. w = 0 /\ rect.w >= 3
      BY <1>1, <1>3, <2>2, <2>3, <2>6 DEF NoRoom
    <3> QED
      BY <1>2, <2>2, <2>6, <3>1
  <2>7. ASSUME NoRoom(h2)
        PROVE  SumOf(s, k + 1, l) = 0
    <3>1. w = rect.w
      BY <1>1, <2>2, <2>3, <2>7 DEF NoRoom
    <3> QED
      BY <1>2, <2>2, <3>1
  <2> QED
    BY <2>4, <2>5, <2>6, <2>7 DEF h1, h2, sum1, sum
<1>4. CASE ~ (rect.w >= rect.h)
  <2>1. /\ h1 = [rect EXCEPT !.h = h]
        /\ h2 = [rect EXCEPT !.y = @ + h, !.h = @ - h]
    BY <1>4 DEF Halves
  <2> HIDE DEF h, h1, h2, sum1, sum
  <2>2. /\ h \in 0 .. rect.h
        /\ sum > 0 /\ rect.h >= 3 /\ 3 * sum1 >= sum => h >= 1
        /\ sum > 0 /\ h = rect.h => sum1 = sum
    <3>1. /\ Part(rect.h, sum1, sum) \in 0 .. rect.h
          /\ sum > 0 /\ rect.h >= 3 /\ 3 * sum1 >= sum => Part(rect.h, sum1, sum) >= 1
          /\ sum > 0 /\ rect.h > 0 /\ Part(rect.h, sum1, sum) = rect.h => sum1 = sum
      BY <1>2, <1>2a, PartFacts
    <3> QED
      BY <1>1, <3>1 DEF h
  <2>3. h1.h = h /\ h1.w = rect.w /\ h2.h = rect.h - h /\ h2.w = rect.w
    BY <1>1, <2>1
  <2>4. Cut(h1, h2, rect)
    BY <2>1, <2>2, <2>3 DEF Cut
  <2>5. h1.w \in Nat /\ h1.h \in Nat /\ h2.w \in Nat /\ h2.h \in Nat
    BY <1>1, <2>2, <2>3
  <2>6. ASSUME NoRoom(h1), rect.w >= 3 \/ rect.h >= 3, 3 * sum1 >= sum
        PROVE  sum = 0
    <3>1. h = 0 /\ rect.h >= 3
      BY <1>1, <1>4, <2>2, <2>3, <2>6 DEF NoRoom
    <3> QED
      BY <1>2, <2>2, <2>6, <3>1
  <2>7. ASSUME NoRoom(h2)
        PROVE  SumOf(s, k + 1, l) = 0
    <3>1. h = rect.h
      BY <1>1, <2>2, <2>3, <2>7 DEF NoRoom
    <3> QED
      BY <1>2, <2>2, <3>1
  <2> QED
    BY <2>4, <2>5, <2>6, <2>7 DEF h1, h2, sum1, sum
<1> QED
  BY <1>3, <1>4

\* One half is divided, by what divides among fewer children than there are.
LEMMA HalfDivided ==
    ASSUME NEW views, GoodViews(views), NEW g, NEW n \in 1 .. Len(views),
           \A m \in 1 .. n - 1 : Allots(views, g, m),
           NEW from \in Int, NEW to \in Int, 1 <= from, from <= to, to <= Len(views),
           to - from + 1 < n,
           NEW half \in Area, half.w \in Nat, half.h \in Nat,
           NoRoom(half) /\ to > from => SumOf(SizesOf(views), from, to) = 0
    PROVE  Divided(IF to > from THEN g[to - from + 1][from][half]
                   ELSE [i \in from .. to |-> Shown(half)], from, to, half)
<1> DEFINE m == to - from + 1
<1>0. Len(views) \in Nat
  BY DEF GoodViews
<1>1. CASE to = from
  <2>1. Divided([i \in from .. from |-> Shown(half)], from, from, half)
    BY ShownFacts
  <2>2. ~ (to > from)
    BY <1>1
  <2> QED
    BY <1>1, <2>1, <2>2
<1>2. CASE to > from
  <2>1. /\ m \in 1 .. n - 1 /\ from \in 1 .. Len(views) - m + 1 /\ from + m - 1 = to
    BY <1>0, <1>2
  <2>2. Allots(views, g, m)
    BY <2>1
  <2> HIDE DEF m
  <2>3. CASE NoRoom(half)
    <3>1. \A i \in from .. to : g[m][from][half][i] = views[i].area
      BY <2>1, <2>2, <2>3 DEF Allots
    <3>2. \A i \in from .. to : views[i].area = NoArea
      BY <1>2, <2>3, SizesFacts
    <3>3. Divided(g[m][from][half], from, to, half)
      BY <2>3, <3>1, <3>2, NothingDivided
    <3> QED
      BY <1>2, <3>3 DEF m
  <2>4. CASE ~ NoRoom(half)
    <3>1. Divided(g[m][from][half], from, to, half)
      BY <2>1, <2>2, <2>4 DEF Allots
    <3> QED
      BY <1>2, <3>1 DEF m
  <2> QED
    BY <2>3, <2>4
<1> QED
  BY <1>1, <1>2

\* So is the whole, among n children, if areas are divided among fewer.
LEMMA AllocateFromDivides ==
    ASSUME NEW views, GoodViews(views), NEW g, NEW n \in 1 .. Len(views),
           \A m \in 1 .. n - 1 : Allots(views, g, m),
           NEW start \in 1 .. Len(views) - n + 1, NEW rect \in Area
    PROVE  IF NoRoom(rect)
           THEN \A i \in start .. start + n - 1 :
                  AllocateFrom(views, g, n, start, rect)[i] = views[i].area
           ELSE Divided(AllocateFrom(views, g, n, start, rect), start, start + n - 1, rect)
<1> DEFINE sizes == SizesOf(views)
           end    == start + n - 1
           last   == Kept(sizes, start, end, rect)
           k      == FirstHalf(sizes, start, last)
           halves == Halves(sizes, start, k, last, rect)
           Half(from, to, half) == IF to > from THEN g[to - from + 1][from][half]
                                   ELSE [i \in from .. to |-> Shown(half)]
           res == AllocateFrom(views, g, n, start, rect)
           Rest(i) == [views[i].area EXCEPT !.w = 0, !.h = 0]
<1>1. res = [i \in start .. end |->
                IF NoRoom(rect) THEN views[i].area
                ELSE IF n = 1 THEN Shown(rect)
                ELSE IF i <= k THEN Half(start, k, halves[1])[i]
                ELSE IF i <= last THEN Half(k + 1, last, halves[2])[i]
                ELSE Rest(i)]
  BY DEF AllocateFrom, SizesOf
<1>2. /\ Len(views) \in Nat /\ n \in Nat /\ start \in Nat /\ end \in Nat /\ 1 <= start
      /\ end <= Len(views) /\ start <= end /\ start \in Int /\ end \in Int
  BY DEF GoodViews
<1> HIDE DEF sizes, end, last, k, halves, res, Rest
<1>3. CASE NoRoom(rect)
  BY <1>1, <1>3 DEF res, end
<1>4. CASE ~ NoRoom(rect) /\ n = 1
  <2>1. end = start /\ res = [i \in start .. start |-> Shown(rect)]
    <3>1. end = start
      BY <1>2, <1>4 DEF end
    <3> HIDE DEF Half
    <3> QED
      BY <1>1, <1>4, <3>1
  <2>2. rect.w \in Nat /\ rect.h \in Nat
    BY <1>4 DEF NoRoom, Area
  <2>3. Divided(res, start, start, rect)
    BY <1>2, <2>1, <2>2, ShownFacts
  <2> QED
    BY <1>4, <2>1, <2>3 DEF res, end
<1>5. CASE ~ NoRoom(rect) /\ n # 1
  <2>1. start < end /\ end - start + 1 = n
    BY <1>2, <1>5 DEF end
  <2>2. Sizes(sizes, start, end) /\ Falling(sizes, start, end)
    BY <1>2, SizesFacts DEF sizes
  <2>3. /\ last \in start + 1 .. end
        /\ rect.w <= 2 /\ rect.h <= 2 => last = start + 1 \/ SumOf(sizes, start, end) = 0
    BY <1>2, <1>5, <2>1, <2>2, KeptFacts DEF last
  <2>4. last \in Int /\ start < last /\ last <= end /\ last <= Len(views)
    BY <1>2, <2>3
  <2>5. Sizes(sizes, start, last) /\ Falling(sizes, start, last)
    BY <1>2, <2>4, SizesFacts DEF sizes
  <2>6. k \in start .. last - 1 /\ (k > start => 3 * SumOf(sizes, start, k) >= SumOf(sizes, start, last))
    BY <1>2, <2>4, <2>5, HalfFacts DEF k
  <2>7. k \in Int /\ start <= k /\ k < last /\ k + 1 \in Int /\ k + 1 <= last /\ k <= Len(views)
    BY <1>2, <2>4, <2>6
  <2>8. /\ Cut(halves[1], halves[2], rect)
        /\ halves[1].w \in Nat /\ halves[1].h \in Nat
        /\ halves[2].w \in Nat /\ halves[2].h \in Nat
        /\ /\ NoRoom(halves[1])
           /\ rect.w >= 3 \/ rect.h >= 3
           /\ 3 * SumOf(sizes, start, k) >= SumOf(sizes, start, last)
           => SumOf(sizes, start, last) = 0
        /\ NoRoom(halves[2]) => SumOf(sizes, k + 1, last) = 0
    BY <1>2, <1>5, <2>4, <2>5, <2>7, HalvesFacts DEF halves
  <2>9. halves[1] \in Area /\ halves[2] \in Area
    BY <2>8, CutFacts
  <2>10. /\ SumOf(sizes, start, k) \in Nat /\ SumOf(sizes, k + 1, last) \in Nat
         /\ SumOf(sizes, start, last) = SumOf(sizes, start, k) + SumOf(sizes, k + 1, last)
    BY <1>2, <2>4, <2>5, <2>7, RangeSums
  <2>11. ASSUME SumOf(sizes, start, end) = 0
         PROVE  SumOf(sizes, start, last) = 0
    <3>1. /\ SumOf(sizes, start, last) \in Nat /\ SumOf(sizes, last + 1, end) \in Nat
          /\ SumOf(sizes, start, end) = SumOf(sizes, start, last) + SumOf(sizes, last + 1, end)
      BY <1>2, <2>2, <2>4, RangeSums
    <3> QED
      BY <2>11, <3>1
  <2>12. NoRoom(halves[1]) /\ k > start => SumOf(sizes, start, k) = 0
    <3> SUFFICES ASSUME NoRoom(halves[1]), k > start PROVE SumOf(sizes, start, last) = 0
      BY <2>10
    <3>1. CASE rect.w >= 3 \/ rect.h >= 3
      BY <2>6, <2>8, <3>1
    <3>2. CASE ~ (rect.w >= 3 \/ rect.h >= 3)
      <4>1. rect.w <= 2 /\ rect.h <= 2
        BY <3>2 DEF Area
      <4>2. last # start + 1
        BY <1>2, <2>4, <2>7
      <4> QED
        BY <2>3, <2>11, <4>1, <4>2
    <3> QED
      BY <3>1, <3>2
  <2>13. Divided(Half(start, k, halves[1]), start, k, halves[1])
    <3>1. k - start + 1 < n
      BY <1>2, <2>1, <2>4, <2>7
    <3> QED
      BY <1>2, <2>7, <2>8, <2>9, <2>12, <3>1, HalfDivided DEF sizes
  <2>14. Divided(Half(k + 1, last, halves[2]), k + 1, last, halves[2])
    <3>1. last - (k + 1) + 1 < n /\ 1 <= k + 1
      BY <1>2, <2>1, <2>4, <2>7
    <3> QED
      BY <1>2, <2>4, <2>7, <2>8, <2>9, <3>1, HalfDivided DEF sizes
  <2> DEFINE r1 == Half(start, k, halves[1])
             r2 == Half(k + 1, last, halves[2])
  <2>15. Divided(r1, start, k, halves[1]) /\ Divided(r2, k + 1, last, halves[2])
    BY <2>13, <2>14
  <2>16. res = [i \in start .. end |->
                   IF i <= k THEN r1[i]
                   ELSE IF i <= last THEN r2[i]
                   ELSE Rest(i)]
    <3> HIDE DEF r1, r2, Half
    <3>1. res = [i \in start .. end |->
                IF NoRoom(rect) THEN views[i].area
                ELSE IF n = 1 THEN Shown(rect)
                ELSE IF i <= k THEN r1[i]
                ELSE IF i <= last THEN r2[i]
                ELSE Rest(i)]
      BY <1>1 DEF r1, r2
    <3> QED
      BY <1>5, <3>1
  <2> HIDE DEF r1, r2, Half
  <2>17. \A i \in start .. k : res[i] = r1[i]
    BY <1>2, <2>4, <2>7, <2>16
  <2>18. \A i \in k + 1 .. last : res[i] = r2[i]
    BY <1>2, <2>4, <2>7, <2>16
  <2>19. \A i \in last + 1 .. end : res[i] \in Area /\ Pixels(res[i]) = 0
    <3> SUFFICES ASSUME NEW i \in last + 1 .. end PROVE res[i] \in Area /\ Pixels(res[i]) = 0
      OBVIOUS
    <3>1. res[i] = Rest(i)
      BY <1>2, <2>4, <2>7, <2>16
    <3>2. i \in 1 .. Len(views)
      BY <1>2, <2>4
    <3>3. views[i].area \in Area
      BY <3>2 DEF GoodViews
    <3> DEFINE v == views[i].area
    <3>4. res[i] = [v EXCEPT !.w = 0, !.h = 0]
      BY <3>1 DEF Rest
    <3>5. v \in Area
      BY <3>3
    <3> HIDE DEF v
    <3>6. res[i] = [x |-> v.x, y |-> v.y, w |-> 0, h |-> 0] /\ v.x \in Int /\ v.y \in Int
      BY <3>4, <3>5 DEF Area
    <3> QED
      BY <3>6 DEF Area, Pixels
  <2>20. start \in Int /\ end \in Int
    BY <1>2
  <2>21. Divided(res, start, end, rect)
    <3>1. PICK h1, h2 : h1 = halves[1] /\ h2 = halves[2]
      OBVIOUS
    <3>2. Cut(h1, h2, rect) /\ Divided(r1, start, k, h1) /\ Divided(r2, k + 1, last, h2)
      BY <2>8, <2>15, <3>1
    <3>4. Joined(res, start, k, last, end, r1, r2)
      BY <2>17, <2>18, <2>19 DEF Joined
    <3>3. k <= last
      BY <2>4, <2>7
    <3> QED
      BY <2>4, <2>7, <2>20, <3>2, <3>3, <3>4, Combined
  <2> QED
    BY <1>5, <2>21 DEF res, end
<1> QED
  BY <1>3, <1>4, <1>5

\* What is allocated to n children depends on what is to fewer of them only.
LEMMA AllocateSame ==
    ASSUME NEW views, GoodViews(views), NEW g, NEW h, NEW n \in 1 .. Len(views),
           \A m \in 1 .. n - 1 : h[m] = g[m],
           NEW start \in 1 .. Len(views) - n + 1, NEW rect \in Area
    PROVE  AllocateFrom(views, h, n, start, rect) = AllocateFrom(views, g, n, start, rect)
<1> DEFINE sizes == SizesOf(views)
           end    == start + n - 1
           last   == Kept(sizes, start, end, rect)
           k      == FirstHalf(sizes, start, last)
           halves == Halves(sizes, start, k, last, rect)
           HalfOf(f, from, to, half) == IF to > from THEN f[to - from + 1][from][half]
                                        ELSE [i \in from .. to |-> Shown(half)]
           Rest(i) == [views[i].area EXCEPT !.w = 0, !.h = 0]
           Res(f) == [i \in start .. end |->
                         IF NoRoom(rect) THEN views[i].area
                         ELSE IF n = 1 THEN Shown(rect)
                         ELSE IF i <= k THEN HalfOf(f, start, k, halves[1])[i]
                         ELSE IF i <= last THEN HalfOf(f, k + 1, last, halves[2])[i]
                         ELSE Rest(i)]
<1>1. /\ AllocateFrom(views, h, n, start, rect) = Res(h)
      /\ AllocateFrom(views, g, n, start, rect) = Res(g)
  BY DEF AllocateFrom, SizesOf
<1>2. /\ Len(views) \in Nat /\ n \in Nat /\ start \in Nat /\ end \in Nat /\ 1 <= start
      /\ end <= Len(views) /\ start <= end /\ start \in Int /\ end \in Int
  BY DEF GoodViews
<1> HIDE DEF sizes, end, last, k, halves, Rest
<1>3. CASE NoRoom(rect) \/ n = 1
  <2> HIDE DEF HalfOf
  <2>1. Res(h) = Res(g)
    BY <1>3
  <2> QED
    BY <1>1, <2>1
<1>4. CASE ~ NoRoom(rect) /\ n # 1
  <2>1. start < end /\ end - start + 1 = n
    BY <1>2, <1>4 DEF end
  <2>2. Sizes(sizes, start, end) /\ Falling(sizes, start, end)
    BY <1>2, SizesFacts DEF sizes
  <2>3. last \in start + 1 .. end
    BY <1>2, <1>4, <2>1, <2>2, KeptFacts DEF last
  <2>4. last \in Int /\ start < last /\ last <= end /\ last <= Len(views)
    BY <1>2, <2>3
  <2>5. Sizes(sizes, start, last) /\ Falling(sizes, start, last)
    BY <1>2, <2>4, SizesFacts DEF sizes
  <2>6. k \in start .. last - 1
    BY <1>2, <2>4, <2>5, HalfFacts DEF k
  <2>7. ASSUME NEW from \in Int, NEW to \in Int, NEW half, to - from + 1 < n
        PROVE  HalfOf(h, from, to, half) = HalfOf(g, from, to, half)
    <3>1. to > from => to - from + 1 \in 1 .. n - 1
      BY <1>2, <2>7
    <3> QED
      BY <3>1
  <2>8. /\ k \in Int /\ k + 1 \in Int /\ k - start + 1 < n /\ last - (k + 1) + 1 < n
    BY <1>2, <2>1, <2>4, <2>6
  <2> HIDE DEF HalfOf
  <2>9. /\ HalfOf(h, start, k, halves[1]) = HalfOf(g, start, k, halves[1])
        /\ HalfOf(h, k + 1, last, halves[2]) = HalfOf(g, k + 1, last, halves[2])
    BY <1>2, <2>4, <2>7, <2>8
  <2>10. Res(h) = Res(g)
    BY <2>9
  <2> QED
    BY <1>1, <2>10
<1> QED
  BY <1>3, <1>4

\* g says what is allocated to up to m children.
IsAllocate(views, m, g) ==
    g = [n \in 1 .. m |->
            [start \in 1 .. Len(views) - n + 1 |->
                [area \in Area |-> AllocateFrom(views, g, n, start, area)]]]

\* allocate_children is such a function,
LEMMA AllocateChildrenIs ==
    ASSUME NEW views, NEW rect
    PROVE  AllocateChildren(views, rect)
             = (CHOOSE g : IsAllocate(views, Len(views), g))[Len(views)][1][rect]
BY DEF AllocateChildren, IsAllocate

\* and there is one.
LEMMA AllocateExists ==
    ASSUME NEW views, GoodViews(views)
    PROVE  \E g : IsAllocate(views, Len(views), g)
<1> DEFINE N == Len(views)
           Round(g, n) == [start \in 1 .. N - n + 1 |->
                             [area \in Area |-> AllocateFrom(views, g, n, start, area)]]
           T == {m \in Nat : \E g : IsAllocate(views, m, g)}
<1>0. N \in Nat
  BY DEF GoodViews
<1>a. \A m, g : IsAllocate(views, m, g) <=> g = [n \in 1 .. m |-> Round(g, n)]
  BY DEF IsAllocate
<1> HIDE DEF N
<1>1. 0 \in T
  <2> DEFINE g == [n \in 1 .. 0 |-> Round(<< >>, n)]
  <2>1. g = [n \in 1 .. 0 |-> Round(g, n)]
    <3> HIDE DEF Round
    <3> QED
      OBVIOUS
  <2>2. IsAllocate(views, 0, g)
    <3> HIDE DEF g, Round
    <3> QED
      BY <1>a, <2>1
  <2> HIDE DEF g
  <2> QED
    BY <2>2
<1>2. ASSUME NEW m \in 1 .. N, m - 1 \in T
      PROVE  m \in T
  <2>1. PICK g : g = [n \in 1 .. m - 1 |-> Round(g, n)]
    <3> HIDE DEF Round
    <3> QED
      BY <1>2, <1>a
  <2> DEFINE h == [n \in 1 .. m |-> Round(g, n)]
  <2>2. m \in Nat /\ \A n \in 1 .. m : n \in 1 .. N /\ \A l \in 1 .. n - 1 : l \in 1 .. m - 1 /\ l \in 1 .. m
    BY <1>0
  <2>3. \A n \in 1 .. m - 1 : h[n] = g[n]
    <3> HIDE DEF Round
    <3>1. \A n \in 1 .. m - 1 : n \in 1 .. m /\ g[n] = Round(g, n)
      BY <1>0, <2>1
    <3> QED
      BY <3>1
  <2>4. ASSUME NEW n \in 1 .. m
        PROVE  Round(h, n) = Round(g, n)
    <3>1. n \in 1 .. Len(views) /\ \A l \in 1 .. n - 1 : h[l] = g[l]
      <4> HIDE DEF Round, h
      <4> QED
        BY <2>2, <2>3 DEF N
    <3> HIDE DEF h
    <3>2. \A start \in 1 .. N - n + 1 : \A area \in Area :
            AllocateFrom(views, h, n, start, area) = AllocateFrom(views, g, n, start, area)
      BY <3>1, AllocateSame DEF N
    <3> QED
      BY <3>2
  <2>5. h = [n \in 1 .. m |-> Round(h, n)]
    <3>1. h = [n \in 1 .. m |-> Round(g, n)]
      OBVIOUS
    <3> HIDE DEF h, Round
    <3> QED
      BY <2>4, <3>1
  <2> HIDE DEF h, Round
  <2> QED
    BY <1>a, <2>2, <2>5
<1> HIDE DEF T
<1>3. \A m \in 0 .. N : m \in T
  BY <1>0, <1>1, <1>2, AllUpTo
<1>4. N \in T
  BY <1>0, <1>3
<1> QED
  BY <1>4 DEF T, N

\* The children of a view with room divide it; without room they keep what they had.
LEMMA ChildrenDivide ==
    ASSUME NEW views, GoodViews(views), Len(views) # 0, NEW rect \in Area
    PROVE  IF NoRoom(rect)
           THEN \A i \in 1 .. Len(views) : AllocateChildren(views, rect)[i] = views[i].area
           ELSE Divided(AllocateChildren(views, rect), 1, Len(views), rect)
<1> DEFINE N == Len(views)
           T == {m \in Nat : \A n \in 1 .. m : Allots(views, (CHOOSE g : IsAllocate(views, N, g)), n)}
<1> DEFINE g == CHOOSE g : IsAllocate(views, N, g)
<1>1. IsAllocate(views, N, g)
  BY AllocateExists
<1>2. AllocateChildren(views, rect) = g[N][1][rect]
  BY AllocateChildrenIs
<1>3. N \in Nat /\ N # 0
  BY DEF GoodViews
<1>4. T = {m \in Nat : \A n \in 1 .. m : Allots(views, g, n)}
  OBVIOUS
<1> HIDE DEF g, T
<1>5. \A n \in 1 .. N : \A start \in 1 .. N - n + 1 : \A area \in Area :
        g[n][start][area] = AllocateFrom(views, g, n, start, area)
  <2> DEFINE Areas(n, start) == [area \in Area |-> AllocateFrom(views, g, n, start, area)]
             Round(n) == [start \in 1 .. N - n + 1 |-> Areas(n, start)]
  <2>1. g = [n \in 1 .. N |-> Round(n)]
    BY <1>1 DEF IsAllocate
  <2>2. \A n \in 1 .. N : g[n] = Round(n)
    <3> HIDE DEF Round, N
    <3> QED
      BY <2>1
  <2>3. \A n \in 1 .. N : \A start \in 1 .. N - n + 1 : g[n][start] = Areas(n, start)
    <3> HIDE DEF Areas, N
    <3> QED
      BY <2>2
  <2>4. \A n, start : \A area \in Area : Areas(n, start)[area] = AllocateFrom(views, g, n, start, area)
    OBVIOUS
  <2> HIDE DEF Areas, Round, N
  <2> QED
    BY <2>3, <2>4
<1>6. 0 \in T
  BY <1>4
<1>7. ASSUME NEW n \in 1 .. N, n - 1 \in T
      PROVE  n \in T
  <2>1. \A m \in 1 .. n - 1 : Allots(views, g, m)
    BY <1>4, <1>7
  <2>2. Allots(views, g, n)
    <3> SUFFICES ASSUME NEW start \in 1 .. Len(views) - n + 1, NEW area \in Area
                 PROVE  IF NoRoom(area)
                        THEN \A i \in start .. start + n - 1 : g[n][start][area][i] = views[i].area
                        ELSE Divided(g[n][start][area], start, start + n - 1, area)
      BY DEF Allots
    <3>1. g[n][start][area] = AllocateFrom(views, g, n, start, area)
      BY <1>5
    <3>2. IF NoRoom(area)
          THEN \A i \in start .. start + n - 1 :
                 AllocateFrom(views, g, n, start, area)[i] = views[i].area
          ELSE Divided(AllocateFrom(views, g, n, start, area), start, start + n - 1, area)
      BY <2>1, AllocateFromDivides
    <3> QED
      BY <3>1, <3>2
  <2>3. \A m \in 1 .. n : m \in 1 .. n - 1 \/ m = n
    BY <1>3
  <2>4. n \in Nat
    BY <1>3
  <2> QED
    BY <1>4, <2>1, <2>2, <2>3, <2>4
<1>8. \A m \in 0 .. N : m \in T
  <2> HIDE DEF N
  <2> QED
    BY <1>3, <1>6, <1>7, AllUpTo
<1>9. Allots(views, g, N)
  BY <1>3, <1>4, <1>8
<1>10. 1 \in 1 .. N - N + 1 /\ 1 + N - 1 = N
  BY <1>3
<1> QED
  BY <1>2, <1>9, <1>10 DEF Allots

-----------------------------------------------------------------------------
(* The copy                                                                   *)

\* Names of entries: views of free and unknown space have none.
FileNames == {"d"} \union RootFile \union DirFile
Names == FileNames \union {""}
Kinds == {"FILE", "DIRECTORY", "UNKNOWN_SPACE", "AVAILABLE_SPACE"}

\* Lists of entries of different names, the biggest first
Lists(E) == {s \in Seq(E) : \A i, j \in 1 .. Len(s) :
                               /\ i < j => s[j].size <= s[i].size
                               /\ s[i].name = s[j].name => i = j}

\* Entries with nothing below them, and those that have only such ones
Flat == [name : FileNames, kind : Kinds, size : Nat, children : {<< >>}]
Entry == [name : FileNames, kind : Kinds, size : Nat, children : Lists(Flat)]

View == [name : Names, kind : Kinds, size : Nat, below : Lists(Entry), area : Area]

Copied == [views : Seq(View), unknown : Nat, free : Nat]

\* Nothing in views is smaller, or nothing but the last of them.
NotSmaller(views, size) == \A i \in 1 .. Len(views) : size <= views[i].size
NotBefore(views, size) == \A i \in 1 .. Len(views) - 1 : size <= views[i].size

OldAreas(old) == \A way \in DOMAIN old : old[way].area \in Area

\* What has nothing below it is an entry, too.
LEMMA FlatAreEntries ==
    << >> \in Lists(Entry) /\ << >> \in Lists(Flat) /\ Lists(Flat) \subseteq Lists(Entry)
<1>1. << >> \in Lists(Entry) /\ << >> \in Lists(Flat)
  BY DEF Lists
<1>2. Flat \subseteq Entry
  <2> DEFINE L == Lists(Flat)
  <2>1. << >> \in L
    BY <1>1
  <2> HIDE DEF L
  <2>2. [name : FileNames, kind : Kinds, size : Nat, children : {<< >>}]
          \subseteq [name : FileNames, kind : Kinds, size : Nat, children : L]
    BY <2>1
  <2> QED
    BY <2>2 DEF Flat, Entry, L
<1>3. \A s \in Seq(Flat) : s \in Seq(Entry)
  <2> SUFFICES ASSUME NEW s \in Seq(Flat) PROVE s \in Seq(Entry)
    OBVIOUS
  <2>1. /\ Len(s) \in Nat /\ s = [i \in 1 .. Len(s) |-> s[i]]
        /\ \A i \in 1 .. Len(s) : s[i] \in Flat
    OBVIOUS
  <2>2. \A i \in 1 .. Len(s) : s[i] \in Entry
    BY <1>2, <2>1
  <2> DEFINE n == Len(s)
  <2>3. s \in [1 .. n -> Entry] /\ n \in Nat
    BY <2>1, <2>2
  <2> HIDE DEF n
  <2> QED
    BY <2>3
<1> QED
  BY <1>1, <1>3 DEF Lists

\* Views stay good when one that is no bigger than all but the last is added.
LEMMA ViewAppended ==
    ASSUME NEW views \in Seq(View), GoodViews(views), NEW v \in View,
           v.size = 0 => v.area = NoArea, NotBefore(views, v.size)
    PROVE  /\ Append(views, v) \in Seq(View)
           /\ Len(Append(views, v)) = Len(views) + 1
           /\ GoodViews(Append(views, v))
           /\ NotSmaller(views, v.size) => NotSmaller(Append(views, v), v.size)
           /\ \A n \in Nat : NotSmaller(views, n) =>
                /\ NotBefore(Append(views, v), n)
                /\ n <= v.size => NotSmaller(Append(views, v), n)
<1> DEFINE vs == Append(views, v)
           l == Len(views)
<1>1. vs \in Seq(View) /\ l \in Nat /\ Len(vs) = l + 1
  OBVIOUS
<1>2. \A i \in 1 .. l : vs[i] = views[i]
  OBVIOUS
<1>3. vs[l + 1] = v
  OBVIOUS
<1>4. /\ v.size \in Nat /\ v.area \in Area
      /\ \A i \in 1 .. l : views[i].size \in Nat /\ views[i].area \in Area
  BY DEF View, GoodViews
<1> HIDE DEF vs
<1>5. \A i \in 1 .. Len(vs) : i \in 1 .. l \/ i = l + 1
  BY <1>1
<1>6. \A i \in 1 .. Len(vs) : /\ vs[i].size \in Nat /\ vs[i].area \in Area
                              /\ vs[i].size = 0 => vs[i].area = NoArea
  BY <1>2, <1>3, <1>4, <1>5 DEF GoodViews
<1>7. \A i, j \in 1 .. Len(vs) : i + 2 <= j => vs[j].size <= vs[i].size
  <2> SUFFICES ASSUME NEW i \in 1 .. Len(vs), NEW j \in 1 .. Len(vs), i + 2 <= j
               PROVE  vs[j].size <= vs[i].size
    OBVIOUS
  <2>1. i \in 1 .. l
    BY <1>1
  <2>2. CASE j \in 1 .. l
    BY <1>2, <2>1, <2>2 DEF GoodViews
  <2>3. CASE j = l + 1
    <3>1. i \in 1 .. l - 1
      BY <1>1, <2>3
    <3> QED
      BY <1>2, <1>3, <2>1, <2>3, <3>1 DEF NotBefore
  <2> QED
    BY <1>5, <2>2, <2>3
<1>8. GoodViews(vs)
  BY <1>1, <1>6, <1>7 DEF GoodViews
<1>9. ASSUME NEW n \in Nat, NotSmaller(views, n)
      PROVE  NotBefore(vs, n) /\ (n <= v.size => NotSmaller(vs, n))
  <2>1. Len(vs) - 1 = l
    BY <1>1
  <2>2. NotBefore(vs, n)
    BY <1>2, <1>9, <2>1 DEF NotBefore, NotSmaller
  <2>3. n <= v.size => NotSmaller(vs, n)
    BY <1>2, <1>3, <1>5, <1>9 DEF NotSmaller
  <2> QED
    BY <2>2, <2>3
<1> QED
  BY <1>1, <1>4, <1>8, <1>9 DEF vs

\* What is true of what was copied before an entry of some size comes
Before(acc, size) ==
    /\ acc \in Copied
    /\ GoodViews(acc.views)
    /\ NotSmaller(acc.views, acc.unknown)
    /\ NotSmaller(acc.views, acc.free)
    /\ NotSmaller(acc.views, size)

\* A round of the loop keeps that.
LEMMA RoundCopies ==
    ASSUME NEW acc, NEW child \in Entry, Before(acc, child.size), NEW options,
           NEW old, OldAreas(old)
    PROVE  Before(CopyRound(acc, child, options, old), child.size)
<1> DEFINE c == child.size
           a1 == AddUnknown(acc, child, old)
           a2 == AddFree(a1, child, old)
           a3 == AddEntry(a2, child)
<1>1. c \in Nat /\ child.name \in Names /\ child.kind \in Kinds /\ child.children \in Lists(Entry)
  BY FlatAreEntries DEF Entry, Names
<1>2. /\ acc \in Copied /\ GoodViews(acc.views)
      /\ NotSmaller(acc.views, acc.unknown) /\ NotSmaller(acc.views, acc.free)
      /\ NotSmaller(acc.views, c)
  BY DEF Before
<1>3. /\ acc.views \in Seq(View) /\ acc.unknown \in Nat /\ acc.free \in Nat
      /\ acc = [views |-> acc.views, unknown |-> acc.unknown, free |-> acc.free]
  BY <1>2 DEF Copied
<1>4. \A i : AreaOf(old, i) \in Area
  <2>1. NoArea \in Area
    BY DEF NoArea, Area
  <2> QED
    BY <2>1 DEF AreaOf, OldAreas
<1>5. \A vs, n : NotSmaller(vs, n) => NotBefore(vs, n) \/ Len(vs) \notin Nat
  BY DEF NotSmaller, NotBefore
<1>6. NoArea \in Area /\ "" \in Names /\ "UNKNOWN_SPACE" \in Kinds /\ "AVAILABLE_SPACE" \in Kinds
  BY DEF NoArea, Area, Names, Kinds
<1> HIDE DEF a1, a2, a3, c
<1>7. /\ a1 \in Copied /\ GoodViews(a1.views) /\ NotSmaller(a1.views, c)
      /\ NotBefore(a1.views, a1.free) /\ a1.unknown <= c
  <2>1. CASE acc.unknown > c
    <3> DEFINE v == [name |-> "", kind |-> "UNKNOWN_SPACE", size |-> acc.unknown,
                     below |-> << >>, area |-> AreaOf(old, Len(acc.views) + 1)]
    <3>1. v \in View /\ v.size = acc.unknown
      BY <1>3, <1>4, <1>6, FlatAreEntries DEF View
    <3>2. a1 = [acc EXCEPT !.views = Append(@, v), !.unknown = 0]
      BY <2>1 DEF a1, c, AddUnknown
    <3> HIDE DEF v
    <3>3. a1 = [views |-> Append(acc.views, v), unknown |-> 0, free |-> acc.free]
      BY <1>3, <3>2
    <3>4. v.size # 0 /\ NotBefore(acc.views, v.size)
      <4>1. Len(acc.views) \in Nat
        BY <1>3
      <4> QED
        BY <1>1, <1>2, <1>3, <1>5, <2>1, <3>1, <4>1
    <3>5. /\ Append(acc.views, v) \in Seq(View)
          /\ GoodViews(Append(acc.views, v))
          /\ \A n \in Nat : NotSmaller(acc.views, n) =>
               /\ NotBefore(Append(acc.views, v), n)
               /\ n <= v.size => NotSmaller(Append(acc.views, v), n)
      BY <1>2, <1>3, <3>1, <3>4, ViewAppended
    <3>6. a1 \in Copied
      BY <1>3, <3>3, <3>5 DEF Copied
    <3>7. c <= v.size
      BY <1>1, <1>3, <2>1, <3>1
    <3> QED
      BY <1>1, <1>2, <1>3, <3>3, <3>5, <3>6, <3>7
  <2>2. CASE ~ (acc.unknown > c)
    <3>1. a1 = acc
      BY <2>2 DEF a1, c, AddUnknown
    <3>2. Len(acc.views) \in Nat
      BY <1>3
    <3> QED
      BY <1>1, <1>2, <1>3, <1>5, <2>2, <3>1, <3>2
  <2> QED
    BY <2>1, <2>2
<1>8. /\ a1.views \in Seq(View) /\ a1.unknown \in Nat /\ a1.free \in Nat
      /\ a1 = [views |-> a1.views, unknown |-> a1.unknown, free |-> a1.free]
  BY <1>7 DEF Copied
<1>9. /\ a2 \in Copied /\ GoodViews(a2.views) /\ NotSmaller(a2.views, c)
      /\ a2.unknown <= c /\ a2.free <= c
  <2>1. CASE a1.free > c
    <3> DEFINE v == [name |-> "", kind |-> "AVAILABLE_SPACE", size |-> a1.free,
                     below |-> << >>, area |-> AreaOf(old, Len(a1.views) + 1)]
    <3>1. v \in View /\ v.size = a1.free
      BY <1>4, <1>6, <1>8, FlatAreEntries DEF View
    <3>2. a2 = [a1 EXCEPT !.views = Append(@, v), !.free = 0]
      BY <2>1 DEF a2, c, AddFree
    <3> HIDE DEF v
    <3>3. a2 = [views |-> Append(a1.views, v), unknown |-> a1.unknown, free |-> 0]
      BY <1>8, <3>2
    <3>4. v.size # 0 /\ NotBefore(a1.views, v.size)
      BY <1>1, <1>7, <1>8, <2>1, <3>1
    <3>5. /\ Append(a1.views, v) \in Seq(View)
          /\ GoodViews(Append(a1.views, v))
          /\ \A n \in Nat : NotSmaller(a1.views, n) =>
               /\ n <= v.size => NotSmaller(Append(a1.views, v), n)
      BY <1>7, <1>8, <3>1, <3>4, ViewAppended
    <3>6. a2 \in Copied
      BY <1>8, <3>3, <3>5 DEF Copied
    <3>7. c <= v.size
      BY <1>1, <1>8, <2>1, <3>1
    <3> QED
      BY <1>1, <1>7, <1>8, <3>3, <3>5, <3>6, <3>7
  <2>2. CASE ~ (a1.free > c)
    <3>1. a2 = a1
      BY <2>2 DEF a2, c, AddFree
    <3> QED
      BY <1>1, <1>7, <1>8, <2>2, <3>1
  <2> QED
    BY <2>1, <2>2
<1>10. /\ a2.views \in Seq(View) /\ a2.unknown \in Nat /\ a2.free \in Nat
       /\ a2 = [views |-> a2.views, unknown |-> a2.unknown, free |-> a2.free]
  BY <1>9 DEF Copied
<1>11. Before(a3, c)
  <2> DEFINE v == [name |-> child.name, kind |-> child.kind, size |-> c,
                   below |-> child.children, area |-> NoArea]
  <2>1. v \in View /\ v.size = c /\ v.area = NoArea
    BY <1>1, <1>6 DEF View
  <2>2. a3 = [a2 EXCEPT !.views = Append(@, v)]
    BY DEF a3, c, AddEntry
  <2> HIDE DEF v
  <2>3. a3 = [views |-> Append(a2.views, v), unknown |-> a2.unknown, free |-> a2.free]
    BY <1>10, <2>2
  <2>4. NotBefore(a2.views, v.size)
    <3>1. Len(a2.views) \in Nat
      BY <1>10
    <3> QED
      BY <1>5, <1>9, <2>1, <3>1
  <2>5. /\ Append(a2.views, v) \in Seq(View)
        /\ GoodViews(Append(a2.views, v))
        /\ NotSmaller(Append(a2.views, v), c)
    BY <1>9, <1>10, <2>1, <2>4, ViewAppended
  <2>6. a3 \in Copied
    BY <1>10, <2>3, <2>5 DEF Copied
  <2>7. \A n \in Nat : n <= c => NotSmaller(Append(a2.views, v), n)
    <3>1. \A i \in 1 .. Len(Append(a2.views, v)) : Append(a2.views, v)[i].size \in Nat
      BY <2>5 DEF GoodViews
    <3> QED
      BY <1>1, <2>5, <3>1 DEF NotSmaller
  <2> QED
    BY <1>9, <1>10, <2>3, <2>5, <2>6, <2>7 DEF Before
<1>12. CopyRound(acc, child, options, old) = acc \/ CopyRound(acc, child, options, old) = a3
  BY DEF CopyRound, a1, a2, a3
<1> QED
  BY <1>11, <1>12 DEF c

\* Views of one name are views of free and unknown space, which have nothing below them.
GoodNames(views) ==
    /\ \A i \in 1 .. Len(views) : views[i].name = "" => views[i].below = << >>
    /\ \A i, j \in 1 .. Len(views) : views[i].name = views[j].name => i = j \/ views[i].name = ""

\* and those with names are of the entries K.
Known(views, K) == GoodNames(views) /\ \A i \in 1 .. Len(views) : views[i].name \in K \union {""}

Fresh(v, K) == IF v.name = "" THEN v.below = << >> ELSE v.name \notin K

\* A view without a name, or with one that is new, can be added.
LEMMA KnownAppended ==
    ASSUME NEW views \in Seq(View), NEW K, Known(views, K), NEW v \in View,
           Fresh(v, K)
    PROVE  Append(views, v) \in Seq(View) /\ Known(Append(views, v), K \union {v.name})
<1> DEFINE vs == Append(views, v)
           l == Len(views)
<1>1. vs \in Seq(View) /\ l \in Nat /\ Len(vs) = l + 1
  OBVIOUS
<1>2. \A i \in 1 .. l : vs[i] = views[i]
  OBVIOUS
<1>3. vs[l + 1] = v
  OBVIOUS
<1> HIDE DEF vs
<1>4. \A i \in 1 .. Len(vs) : i \in 1 .. l \/ i = l + 1
  BY <1>1
<1>5. \A i \in 1 .. Len(vs) : /\ vs[i].name = "" => vs[i].below = << >>
                              /\ vs[i].name \in (K \union {v.name}) \union {""}
  BY <1>2, <1>3, <1>4 DEF Known, GoodNames, Fresh
<1>6. \A i, j \in 1 .. Len(vs) : vs[i].name = vs[j].name => i = j \/ vs[i].name = ""
  BY <1>2, <1>3, <1>4 DEF Known, GoodNames, Fresh
<1> QED
  BY <1>1, <1>5, <1>6 DEF vs, Known, GoodNames

\* A round of the loop adds only such ones.
LEMMA RoundKnown ==
    ASSUME NEW acc \in Copied, NEW child \in Entry, NEW options, NEW old, OldAreas(old),
           NEW K, Known(acc.views, K), child.name \notin K
    PROVE  Known(CopyRound(acc, child, options, old).views, K \union {child.name})
<1> DEFINE a1 == AddUnknown(acc, child, old)
           a2 == AddFree(a1, child, old)
           a3 == AddEntry(a2, child)
           c == child.size
<1>1. /\ c \in Nat /\ child.name \in Names /\ child.name # "" /\ child.kind \in Kinds
      /\ child.children \in Lists(Entry)
  BY FlatAreEntries, LayoutAssumption DEF Entry, Names, FileNames
<1>2. /\ acc.views \in Seq(View) /\ acc.unknown \in Nat /\ acc.free \in Nat
      /\ acc = [views |-> acc.views, unknown |-> acc.unknown, free |-> acc.free]
  BY DEF Copied
<1>3. /\ NoArea \in Area /\ \A i : AreaOf(old, i) \in Area
      /\ "" \in Names /\ "UNKNOWN_SPACE" \in Kinds /\ "AVAILABLE_SPACE" \in Kinds
  <2>1. NoArea \in Area
    BY DEF NoArea, Area
  <2> QED
    BY <2>1 DEF AreaOf, OldAreas, Names, Kinds
<1>4. Known(acc.views, K \union {""})
  BY DEF Known
<1> HIDE DEF a1, a2, a3, c
<1>5. a1 \in Copied /\ Known(a1.views, K \union {""})
  <2>1. CASE acc.unknown > c
    <3> DEFINE v == [name |-> "", kind |-> "UNKNOWN_SPACE", size |-> acc.unknown,
                     below |-> << >>, area |-> AreaOf(old, Len(acc.views) + 1)]
    <3>1. v \in View /\ v.name = "" /\ v.below = << >>
      BY <1>2, <1>3, FlatAreEntries DEF View
    <3>2. a1 = [acc EXCEPT !.views = Append(@, v), !.unknown = 0]
      BY <2>1 DEF a1, c, AddUnknown
    <3> HIDE DEF v
    <3>3. a1 = [views |-> Append(acc.views, v), unknown |-> 0, free |-> acc.free]
      BY <1>2, <3>2
    <3>4. Append(acc.views, v) \in Seq(View) /\ Known(Append(acc.views, v), K \union {v.name})
      BY <1>2, <3>1, KnownAppended DEF Fresh
    <3> QED
      BY <1>2, <3>1, <3>3, <3>4 DEF Copied
  <2>2. CASE ~ (acc.unknown > c)
    BY <1>4, <2>2 DEF a1, c, AddUnknown
  <2> QED
    BY <2>1, <2>2
<1>6. /\ a1.views \in Seq(View) /\ a1.unknown \in Nat /\ a1.free \in Nat
      /\ a1 = [views |-> a1.views, unknown |-> a1.unknown, free |-> a1.free]
  BY <1>5 DEF Copied
<1>7. a2 \in Copied /\ Known(a2.views, K \union {""})
  <2>1. CASE a1.free > c
    <3> DEFINE v == [name |-> "", kind |-> "AVAILABLE_SPACE", size |-> a1.free,
                     below |-> << >>, area |-> AreaOf(old, Len(a1.views) + 1)]
    <3>1. v \in View /\ v.name = "" /\ v.below = << >>
      BY <1>3, <1>6, FlatAreEntries DEF View
    <3>2. a2 = [a1 EXCEPT !.views = Append(@, v), !.free = 0]
      BY <2>1 DEF a2, c, AddFree
    <3> HIDE DEF v
    <3>3. a2 = [views |-> Append(a1.views, v), unknown |-> a1.unknown, free |-> 0]
      BY <1>6, <3>2
    <3>4. /\ Append(a1.views, v) \in Seq(View)
          /\ Known(Append(a1.views, v), (K \union {""}) \union {v.name})
      BY <1>5, <1>6, <3>1, KnownAppended DEF Fresh
    <3>5. (K \union {""}) \union {v.name} = K \union {""}
      BY <3>1
    <3> QED
      BY <1>6, <3>1, <3>3, <3>4, <3>5 DEF Copied
  <2>2. CASE ~ (a1.free > c)
    BY <1>5, <2>2 DEF a2, c, AddFree
  <2> QED
    BY <2>1, <2>2
<1>8. /\ a2.views \in Seq(View) /\ a2.unknown \in Nat /\ a2.free \in Nat
      /\ a2 = [views |-> a2.views, unknown |-> a2.unknown, free |-> a2.free]
  BY <1>7 DEF Copied
<1>9. Known(a3.views, K \union {child.name})
  <2> DEFINE v == [name |-> child.name, kind |-> child.kind, size |-> c,
                   below |-> child.children, area |-> NoArea]
  <2>1. v \in View /\ v.name = child.name
    BY <1>1, <1>3 DEF View
  <2>2. a3 = [a2 EXCEPT !.views = Append(@, v)]
    BY DEF a3, c, AddEntry
  <2> HIDE DEF v
  <2>3. a3.views = Append(a2.views, v)
    BY <1>8, <2>2
  <2>4. Known(Append(a2.views, v), (K \union {""}) \union {v.name})
    BY <1>1, <1>7, <1>8, <2>1, KnownAppended DEF Fresh
  <2> QED
    BY <2>1, <2>3, <2>4 DEF Known
<1>10. Known(acc.views, K \union {child.name})
  BY DEF Known
<1>11. CopyRound(acc, child, options, old) = acc \/ CopyRound(acc, child, options, old) = a3
  BY DEF CopyRound, a1, a2, a3
<1> QED
  BY <1>9, <1>10, <1>11

\* g has what the loop has after each of its rounds.
IsCopy(entries, options, old, g) ==
    g = [n \in 0 .. Len(entries) |->
            IF n = 0 THEN [views |-> << >>, unknown |-> options.unknown, free |-> options.free]
            ELSE CopyRound(g[n - 1], entries[n], options, old)]

\* There is such a function,
LEMMA CopyExists ==
    ASSUME NEW entries, Len(entries) \in Nat, NEW options, NEW old
    PROVE  \E g : IsCopy(entries, options, old, g)
<1> DEFINE start == [views |-> << >>, unknown |-> options.unknown, free |-> options.free]
           Round(g, n) == IF n = 0 THEN start ELSE CopyRound(g[n - 1], entries[n], options, old)
           Is(m, g) == g = [n \in 0 .. m |-> Round(g, n)]
           T == {m \in Nat : \E g : Is(m, g)}
           N == Len(entries)
<1>1. 0 \in T
  <2> DEFINE g == [n \in {0} |-> start]
  <2>1. 0 .. 0 = {0} /\ \A f : Round(f, 0) = start
    OBVIOUS
  <2> HIDE DEF Round, start
  <2>2. Is(0, g)
    BY <2>1
  <2> HIDE DEF g, Is
  <2> QED
    BY <2>2
<1>2. ASSUME NEW m \in 1 .. N, m - 1 \in T
      PROVE  m \in T
  <2>1. PICK g : Is(m - 1, g)
    <3> HIDE DEF Is
    <3> QED
      BY <1>2
  <2> DEFINE h == [n \in 0 .. m |-> Round(g, n)]
  <2>2. m \in Nat /\ \A n \in 0 .. m - 1 : n \in 0 .. m
    OBVIOUS
  <2>3. \A n \in 0 .. m - 1 : h[n] = g[n]
    <3> HIDE DEF Round
    <3> QED
      BY <2>1, <2>2
  <2>4. \A n \in 0 .. m : Round(h, n) = Round(g, n)
    <3>1. \A n \in 0 .. m : n # 0 => n - 1 \in 0 .. m - 1
      BY <2>2
    <3> HIDE DEF h, start
    <3> QED
      BY <2>3, <3>1
  <2>5. Is(m, h)
    <3>1. h = [n \in 0 .. m |-> Round(g, n)]
      OBVIOUS
    <3> HIDE DEF h, Round
    <3> QED
      BY <2>4, <3>1
  <2> HIDE DEF h, Is
  <2> QED
    BY <2>2, <2>5
<1> HIDE DEF T, N, Is
<1>3. N \in Nat
  BY DEF N
<1>4. \A m \in 0 .. N : m \in T
  BY <1>1, <1>2, <1>3, AllUpTo
<1>5. PICK g : Is(N, g)
  BY <1>3, <1>4 DEF T
<1> QED
  BY <1>5 DEF IsCopy, N, Is

\* and reconstruct_from takes it.
LEMMA ReconstructIs ==
    ASSUME NEW entries, NEW options, NEW old
    PROVE  Reconstruct(entries, options, old)
             = IF options.nestLevel > 0
               THEN (CHOOSE g : IsCopy(entries, options, old, g))[Len(entries)].views
               ELSE << >>
BY DEF Reconstruct, IsCopy

\* The views that are copied from a list of entries, the biggest first, are good.
LEMMA Reconstructed ==
    ASSUME NEW entries \in Lists(Entry), NEW options, options.unknown \in Nat,
           options.free \in Nat, NEW old, OldAreas(old)
    PROVE  /\ Reconstruct(entries, options, old) \in Seq(View)
           /\ GoodViews(Reconstruct(entries, options, old))
           /\ GoodNames(Reconstruct(entries, options, old))
<1> DEFINE g == CHOOSE g : IsCopy(entries, options, old, g)
           N == Len(entries)
           Next0(n) == IF n < N THEN entries[n + 1].size ELSE 0
           K(n) == {entries[i].name : i \in 1 .. n}
           T == {n \in 0 .. N : Before(g[n], Next0(n)) /\ Known(g[n].views, K(n))}
<1>1. /\ N \in Nat /\ \A i \in 1 .. N : entries[i] \in Entry /\ entries[i].size \in Nat
      /\ \A i, j \in 1 .. N : /\ i < j => entries[j].size <= entries[i].size
                              /\ entries[i].name = entries[j].name => i = j
  <2>1. /\ entries \in Seq(Entry)
        /\ \A i, j \in 1 .. N : /\ i < j => entries[j].size <= entries[i].size
                                /\ entries[i].name = entries[j].name => i = j
    BY DEF Lists
  <2>2. \A e \in Entry : e.size \in Nat
    BY DEF Entry
  <2> QED
    BY <2>1, <2>2
<1>2. IsCopy(entries, options, old, g)
  BY <1>1, CopyExists
<1> HIDE DEF g
<1>3. << >> \in Seq(View) /\ GoodViews(<< >>) /\ GoodNames(<< >>) /\ \A n : NotSmaller(<< >>, n)
  BY DEF GoodViews, GoodNames, NotSmaller
<1>4. g[0] = [views |-> << >>, unknown |-> options.unknown, free |-> options.free]
  BY <1>1, <1>2 DEF IsCopy
<1>5. \A n \in 1 .. N : g[n] = CopyRound(g[n - 1], entries[n], options, old)
  <2>1. \A n \in 1 .. N : n \in 0 .. N /\ n # 0
    BY <1>1
  <2> QED
    BY <1>2, <2>1 DEF IsCopy
<1>6. 0 \in T
  <2>1. Before(g[0], Next0(0))
    <3> HIDE DEF Next0
    <3> QED
      BY <1>3, <1>4 DEF Before, Copied
  <2>2. Known(g[0].views, K(0))
    BY <1>4 DEF Known, GoodNames
  <2> QED
    BY <1>1, <2>1, <2>2
<1>7. ASSUME NEW n \in 1 .. N, n - 1 \in T
      PROVE  n \in T
  <2>1. Next0(n - 1) = entries[n].size /\ n \in 0 .. N
    BY <1>1
  <2>2. Before(g[n - 1], entries[n].size) /\ Known(g[n - 1].views, K(n - 1))
    BY <1>7, <2>1
  <2>3. Before(g[n], entries[n].size)
    BY <1>1, <1>5, <2>2, RoundCopies
  <2>4. Next0(n) \in Nat /\ Next0(n) <= entries[n].size
    <3>1. CASE n < N
      <4>1. n + 1 \in 1 .. N
        BY <1>1, <3>1
      <4> QED
        BY <1>1, <3>1, <4>1
    <3>2. CASE ~ (n < N)
      BY <1>1, <3>2
    <3> QED
      BY <3>1, <3>2
  <2> HIDE DEF Next0
  <2>5. NotSmaller(g[n].views, Next0(n))
    <3>1. \A i \in 1 .. Len(g[n].views) : g[n].views[i].size \in Nat
      BY <2>3 DEF Before, GoodViews
    <3> QED
      BY <1>1, <2>3, <2>4, <3>1 DEF Before, NotSmaller
  <2>6. Known(g[n].views, K(n))
    <3>1. \A i \in 1 .. n : i \in 1 .. N /\ (i \in 1 .. n - 1 \/ i = n)
      BY <1>1
    <3>2. \A i \in 1 .. n - 1 : i \in 1 .. n /\ i # n
      BY <1>1
    <3>3. entries[n].name \notin K(n - 1)
      BY <1>1, <3>1, <3>2
    <3>4. n \in 1 .. n
      BY <1>1
    <3>5. K(n) = K(n - 1) \union {entries[n].name}
      BY <3>1, <3>2, <3>4
    <3> DEFINE acc == g[n - 1]
               child == entries[n]
               known == K(n - 1)
    <3>6. /\ acc \in Copied /\ child \in Entry /\ Known(acc.views, known)
          /\ child.name \notin known
      BY <1>1, <2>2, <3>3 DEF Before
    <3>7. g[n] = CopyRound(acc, child, options, old) /\ K(n) = known \union {child.name}
      BY <1>5, <3>5
    <3> HIDE DEF K, acc, child, known
    <3>8. Known(CopyRound(acc, child, options, old).views, known \union {child.name})
      BY <3>6, RoundKnown
    <3> QED
      BY <3>7, <3>8
  <2> QED
    BY <2>1, <2>3, <2>5, <2>6 DEF Before
<1> HIDE DEF T, Next0, K
<1>8. \A n \in 0 .. N : n \in T
  <2> HIDE DEF N
  <2> QED
    BY <1>1, <1>6, <1>7, AllUpTo
<1>9. Before(g[N], Next0(N)) /\ Known(g[N].views, K(N))
  BY <1>1, <1>8 DEF T
<1>10. g[N].views \in Seq(View) /\ GoodViews(g[N].views) /\ GoodNames(g[N].views)
  BY <1>9 DEF Before, Copied, Known
<1> QED
  BY <1>3, <1>10, ReconstructIs DEF g

\* What has nothing below it is copied without children.
LEMMA ReconstructedNothing ==
    ASSUME NEW options, NEW old
    PROVE  Reconstruct(<< >>, options, old) = << >>
<1> DEFINE g == CHOOSE g : IsCopy(<< >>, options, old, g)
<1>1. Len(<< >>) = 0 /\ 0 \in 0 .. 0
  OBVIOUS
<1>2. IsCopy(<< >>, options, old, g)
  BY <1>1, CopyExists
<1> HIDE DEF g
<1>3. g[0].views = << >>
  BY <1>1, <1>2 DEF IsCopy
<1> QED
  BY <1>1, <1>3, ReconstructIs DEF g

\* What is known of a view with its children that has been given its area
Allocated(v) ==
    /\ v.children \in Seq(View) /\ v.area \in Area /\ GoodNames(v.children)
    /\ \A i \in 1 .. Len(v.children) : v.areas[i] \in Area
    /\ v.children # << >> /\ ~ NoRoom(Inner(v.area))
         => Divided(v.areas, 1, Len(v.children), Inner(v.area))

\* A view that is too small for its title has no room inside.
LEMMA InnerFacts ==
    ASSUME NEW rect \in Area
    PROVE  /\ Inner(rect) \in Area
           /\ rect.h < TitleHeight \/ rect.w < 1 => NoRoom(Inner(rect))
<1>1. TitleHeight \in Nat
  BY LayoutAssumption
<1> QED
  BY <1>1 DEF Inner, Area, NoRoom

\* allocate_view divides the inside of a view among its children, whatever the area.
LEMMA ViewAllocated ==
    ASSUME NEW view, view.below \in Lists(Entry), NEW rect \in Area, view.area \in {NoArea, rect},
           NEW options, options.unknown \in Nat, options.free \in Nat, NEW old, OldAreas(old)
    PROVE  /\ Allocated(AllocateView(view, options, old, rect))
           /\ view.area = rect => AllocateView(view, options, old, rect).area = rect
           /\ AllocateView(view, options, old, rect).name = view.name
           /\ view.below = << >> => AllocateView(view, options, old, rect).children = << >>
<1> DEFINE children == Reconstruct(view.below, options, old)
           v == AllocateView(view, options, old, rect)
           tooSmall == children = << >> \/ rect.h < TitleHeight \/ rect.w < 1
           small == [i \in DOMAIN children |-> children[i].area]
           areas == AllocateChildren(children, Inner(rect))
<1>1. children \in Seq(View) /\ GoodViews(children) /\ GoodNames(children)
  BY Reconstructed
<1>9. view.below = << >> => children = << >>
  BY ReconstructedNothing
<1>2. v = [name |-> view.name, kind |-> view.kind, size |-> view.size, children |-> children,
           area |-> IF tooSmall THEN view.area ELSE rect,
           areas |-> IF tooSmall THEN small ELSE areas]
  BY DEF AllocateView
<1> HIDE DEF v, children, areas
<1>3. DOMAIN children = 1 .. Len(children) /\ Len(children) \in Nat
  BY <1>1
<1>4. \A i \in 1 .. Len(children) : children[i].area \in Area
  BY <1>1 DEF GoodViews
<1>5. NoArea \in Area /\ NoRoom(Inner(NoArea))
  BY DEF NoArea, Area, NoRoom, Inner
<1>6. v.children = children /\ v.name = view.name
  BY <1>2
<1>7. ASSUME tooSmall
      PROVE  Allocated(v) /\ (view.area = rect => v.area = rect)
  <2>1. v.area = view.area /\ v.areas = small
    BY <1>2, <1>7
  <2>2. v.area \in Area /\ (v.children # << >> => NoRoom(Inner(v.area)))
    BY <1>5, <1>6, <1>7, <2>1, InnerFacts
  <2>3. \A i \in 1 .. Len(children) : v.areas[i] \in Area
    BY <1>3, <1>4, <2>1
  <2> QED
    BY <1>1, <1>6, <2>1, <2>2, <2>3 DEF Allocated
<1>8. ASSUME ~ tooSmall
      PROVE  Allocated(v) /\ (view.area = rect => v.area = rect)
  <2>1. v.area = rect /\ v.areas = areas
    BY <1>2, <1>8
  <2>2. Len(children) # 0
    BY <1>1, <1>8
  <2>3. Inner(rect) \in Area
    BY InnerFacts
  <2>4. IF NoRoom(Inner(rect))
        THEN \A i \in 1 .. Len(children) : areas[i] = children[i].area
        ELSE Divided(areas, 1, Len(children), Inner(rect))
    BY <1>1, <2>2, <2>3, ChildrenDivide DEF areas
  <2>5. \A i \in 1 .. Len(children) : areas[i] \in Area
    BY <1>4, <2>4 DEF Divided
  <2> QED
    BY <1>1, <1>6, <2>1, <2>4, <2>5 DEF Allocated
<1> QED
  BY <1>6, <1>7, <1>8, <1>9 DEF v

\* A way and the next view on it
LEMMA WayFacts ==
    ASSUME NEW way \in Seq(Nat), NEW i \in Nat
    PROVE  /\ Append(way, i) \in Seq(Nat)
           /\ Len(Append(way, i)) = Len(way) + 1
           /\ Append(way, i) # << >>
           /\ Front(Append(way, i)) = way
           /\ Last(Append(way, i)) = i
<1> DEFINE w == Append(way, i)
<1>1. /\ w \in Seq(Nat) /\ Len(w) = Len(way) + 1 /\ Len(way) \in Nat /\ w[Len(way) + 1] = i
      /\ \A j \in 1 .. Len(way) : w[j] = way[j]
  OBVIOUS
<1> HIDE DEF w
<1>2. SubSeq(w, 1, Len(way)) \in Seq(Nat) /\ Len(SubSeq(w, 1, Len(way))) = Len(way)
  BY <1>1, SubSeqProperties
<1>3. \A j \in 1 .. Len(way) : SubSeq(w, 1, Len(way))[j] = way[j]
  BY <1>1, SubSeqProperties
<1>4. SubSeq(w, 1, Len(way)) = way
  BY <1>2, <1>3, SeqEqual
<1>5. Len(w) - 1 = Len(way) /\ w # << >>
  BY <1>1
<1> QED
  BY <1>1, <1>4, <1>5 DEF w, Front, Last

-----------------------------------------------------------------------------
(* The views at all levels                                                    *)

\* The views of level n, by ways of n places
GoodLevel(views, n) ==
    \A way \in DOMAIN views : way \in Seq(Nat) /\ Len(way) = n /\ Allocated(views[way])

\* below has the children of the views above, each in the area it was given.
IsBelow(below, above) ==
    /\ \A way \in DOMAIN below : \E up \in DOMAIN above :
         \E i \in 1 .. Len(above[up].children) : way = Append(up, i)
    /\ \A up \in DOMAIN above : \A i \in 1 .. Len(above[up].children) :
         /\ Append(up, i) \in DOMAIN below
         /\ below[Append(up, i)].area = above[up].areas[i]
         /\ below[Append(up, i)].name = above[up].children[i].name
         /\ above[up].children[i].name = "" => below[Append(up, i)].children = << >>

\* The level below a good one is good.
LEMMA LevelBelowFacts ==
    ASSUME NEW n \in Nat, NEW above, GoodLevel(above, n),
           NEW options, options.unknown \in Nat, options.free \in Nat
    PROVE  /\ GoodLevel(LevelBelow(above, options), n + 1)
           /\ IsBelow(LevelBelow(above, options), above)
<1> DEFINE below == LevelBelow(above, options)
           Ways == UNION {{Append(up, i) : i \in DOMAIN above[up].children} : up \in DOMAIN above}
           Place(up, i) == AllocateView([above[up].children[i] EXCEPT !.area = above[up].areas[i]],
                                        options, << >>, above[up].areas[i])
<1>1. below = [way \in Ways |-> Place(Front(way), Last(way))]
  BY DEF LevelBelow
<1>2. \A up \in DOMAIN above : /\ up \in Seq(Nat) /\ Len(up) = n
                               /\ Allocated(above[up])
                               /\ above[up].children \in Seq(View)
                               /\ GoodNames(above[up].children)
                               /\ DOMAIN above[up].children = 1 .. Len(above[up].children)
                               /\ Len(above[up].children) \in Nat
  <2> SUFFICES ASSUME NEW up \in DOMAIN above
               PROVE  /\ up \in Seq(Nat) /\ Len(up) = n
                      /\ Allocated(above[up])
                      /\ above[up].children \in Seq(View)
                      /\ GoodNames(above[up].children)
                      /\ DOMAIN above[up].children = 1 .. Len(above[up].children)
                      /\ Len(above[up].children) \in Nat
    OBVIOUS
  <2>1. up \in Seq(Nat) /\ Len(up) = n /\ Allocated(above[up])
    BY DEF GoodLevel
  <2>2. above[up].children \in Seq(View) /\ GoodNames(above[up].children)
    BY <2>1 DEF Allocated
  <2> QED
    BY <2>1, <2>2
<1>3. ASSUME NEW up \in DOMAIN above, NEW i \in 1 .. Len(above[up].children)
      PROVE  /\ Allocated(Place(up, i)) /\ Place(up, i).area = above[up].areas[i]
             /\ Place(up, i).name = above[up].children[i].name
             /\ above[up].children[i].name = "" => Place(up, i).children = << >>
  <2> DEFINE c == above[up].children[i]
             a == above[up].areas[i]
             v == [c EXCEPT !.area = a]
  <2>1. c \in View /\ a \in Area
    BY <1>2 DEF Allocated
  <2>7. c.name = "" => c.below = << >>
    BY <1>2 DEF GoodNames
  <2> HIDE DEF c, a
  <2>2. v = [name |-> c.name, kind |-> c.kind, size |-> c.size, below |-> c.below, area |-> a]
    BY <2>1 DEF View
  <2>3. c.below \in Lists(Entry)
    <3> DEFINE L == Lists(Entry)
    <3>1. c \in [name : Names, kind : Kinds, size : Nat, below : L, area : Area]
      BY <2>1 DEF View
    <3> HIDE DEF L
    <3>2. c.below \in L
      BY <3>1
    <3> QED
      BY <3>2 DEF L
  <2> HIDE DEF v
  <2>4. v.below \in Lists(Entry) /\ v.area = a /\ v.name = c.name /\ v.below = c.below
    BY <2>2, <2>3
  <2>5. OldAreas(<< >>)
    BY DEF OldAreas
  <2>8. v.area \in {NoArea, a}
    BY <2>4
  <2>6. /\ Allocated(AllocateView(v, options, << >>, a))
        /\ v.area = a => AllocateView(v, options, << >>, a).area = a
        /\ AllocateView(v, options, << >>, a).name = v.name
        /\ v.below = << >> => AllocateView(v, options, << >>, a).children = << >>
    BY <2>1, <2>4, <2>5, <2>8, ViewAllocated
  <2> QED
    BY <2>4, <2>6, <2>7 DEF v, a, c
<1> HIDE DEF Place
<1>4. ASSUME NEW up \in DOMAIN above, NEW i \in 1 .. Len(above[up].children)
      PROVE  /\ Append(up, i) \in Seq(Nat) /\ Len(Append(up, i)) = n + 1
             /\ Append(up, i) \in Ways
             /\ below[Append(up, i)] = Place(up, i)
  <2>1. i \in Nat /\ i \in DOMAIN above[up].children
    BY <1>2
  <2>2. /\ Append(up, i) \in Seq(Nat) /\ Len(Append(up, i)) = n + 1
        /\ Front(Append(up, i)) = up /\ Last(Append(up, i)) = i
    BY <1>2, <2>1, WayFacts
  <2>3. Append(up, i) \in Ways
    BY <2>1
  <2> HIDE DEF Ways, below
  <2> QED
    BY <1>1, <2>2, <2>3
<1>5. \A way \in Ways : \E up \in DOMAIN above : \E i \in 1 .. Len(above[up].children) : way = Append(up, i)
  BY <1>2
<1>6. DOMAIN below = Ways
  <2> HIDE DEF Ways, below
  <2> QED
    BY <1>1
<1> HIDE DEF Ways, below
<1>7. GoodLevel(below, n + 1)
  <2> SUFFICES ASSUME NEW way \in DOMAIN below
               PROVE  way \in Seq(Nat) /\ Len(way) = n + 1 /\ Allocated(below[way])
    BY DEF GoodLevel
  <2>1. PICK up \in DOMAIN above : \E i \in 1 .. Len(above[up].children) : way = Append(up, i)
    BY <1>5, <1>6
  <2>2. PICK i \in 1 .. Len(above[up].children) : way = Append(up, i)
    BY <2>1
  <2> QED
    BY <1>3, <1>4, <2>2
<1>8. IsBelow(below, above)
  <2>1. \A up \in DOMAIN above : \A i \in 1 .. Len(above[up].children) :
          /\ Append(up, i) \in DOMAIN below
          /\ below[Append(up, i)].area = above[up].areas[i]
          /\ below[Append(up, i)].name = above[up].children[i].name
          /\ above[up].children[i].name = "" => below[Append(up, i)].children = << >>
    BY <1>3, <1>4, <1>6
  <2> QED
    BY <1>5, <1>6, <2>1 DEF IsBelow
<1> QED
  BY <1>7, <1>8 DEF below

\* The options of an update
OptionsOf(depth, free, unknown, minSize) ==
    [nestLevel |-> depth, free |-> free, unknown |-> unknown, minSize |-> minSize]

\* The view that update starts from
RootOf(entry) == [name |-> entry.name, kind |-> entry.kind, size |-> entry.size,
                  below |-> entry.children, area |-> NoArea]

\* What Levels takes for level n, by a function that has the one above
LevelOf(entry, options, old, rect, g, n) ==
    IF n = 0 THEN [way \in {<< >>} |-> AllocateView(RootOf(entry), options, old, rect)]
    ELSE LevelBelow(g[n - 1], [options EXCEPT !.nestLevel = @ - n, !.free = 0, !.unknown = 0])

\* g has all the levels.
AreLevels(entry, options, old, rect, g) ==
    g = [n \in 0 .. options.nestLevel |-> LevelOf(entry, options, old, rect, g, n)]

\* Levels takes such a function,
LEMMA LevelsAre ==
    ASSUME NEW entry, NEW options, NEW old, NEW rect
    PROVE  Levels(entry, options, old, rect) = CHOOSE g : AreLevels(entry, options, old, rect, g)
BY DEF Levels, AreLevels, LevelOf, RootOf

\* and there is one.
LEMMA LevelsExist ==
    ASSUME NEW entry, NEW options, options.nestLevel \in Nat, NEW old, NEW rect
    PROVE  \E g : AreLevels(entry, options, old, rect, g)
<1> DEFINE Round(g, n) == LevelOf(entry, options, old, rect, g, n)
           Is(m, g) == g = [n \in 0 .. m |-> Round(g, n)]
           T == {m \in Nat : \E g : Is(m, g)}
           N == options.nestLevel
<1>a. \A g, h : Round(g, 0) = Round(h, 0)
  BY DEF LevelOf
<1>b. \A g, h : \A n \in Nat \ {0} : g[n - 1] = h[n - 1] => Round(g, n) = Round(h, n)
  BY DEF LevelOf
<1> HIDE DEF Round
<1>1. 0 \in T
  <2> DEFINE g == [n \in {0} |-> Round(0, 0)]
  <2>1. 0 .. 0 = {0} /\ Round(g, 0) = Round(0, 0)
    BY <1>a
  <2>2. Is(0, g)
    BY <2>1
  <2> HIDE DEF g, Is
  <2> QED
    BY <2>2
<1>2. ASSUME NEW m \in 1 .. N, m - 1 \in T
      PROVE  m \in T
  <2>1. PICK g : Is(m - 1, g)
    <3> HIDE DEF Is
    <3> QED
      BY <1>2
  <2> DEFINE h == [n \in 0 .. m |-> Round(g, n)]
  <2>2. m \in Nat /\ \A n \in 0 .. m - 1 : n \in 0 .. m
    OBVIOUS
  <2>3. \A n \in 0 .. m - 1 : h[n] = g[n]
    BY <2>1, <2>2
  <2>4. \A n \in 0 .. m : Round(h, n) = Round(g, n)
    <3>1. \A n \in 0 .. m : n # 0 => n - 1 \in 0 .. m - 1 /\ n \in Nat \ {0}
      BY <2>2
    <3> HIDE DEF h
    <3> QED
      BY <1>a, <1>b, <2>3, <3>1
  <2>5. Is(m, h)
    <3>1. h = [n \in 0 .. m |-> Round(g, n)]
      OBVIOUS
    <3> HIDE DEF h
    <3> QED
      BY <2>4, <3>1
  <2> HIDE DEF h, Is
  <2> QED
    BY <2>2, <2>5
<1> HIDE DEF T, N, Is
<1>3. N \in Nat
  BY DEF N
<1>4. \A m \in 0 .. N : m \in T
  BY <1>1, <1>2, <1>3, AllUpTo
<1>5. PICK g : Is(N, g)
  BY <1>3, <1>4 DEF T
<1> QED
  BY <1>5 DEF AreLevels, N, Is, Round

\* All levels are good, and each has the children of the one above in their areas.
LEMMA LevelsFacts ==
    ASSUME NEW entry, entry.children \in Lists(Entry),
           NEW depth \in Nat, NEW free \in Nat, NEW unknown \in Nat, NEW minSize,
           NEW old, OldAreas(old), NEW rect \in Area
    PROVE  LET level == Levels(entry, OptionsOf(depth, free, unknown, minSize), old, rect)
           IN  /\ DOMAIN level[0] = {<< >>}
               /\ \A n \in 0 .. depth : GoodLevel(level[n], n)
               /\ \A n \in 1 .. depth : IsBelow(level[n], level[n - 1])
<1> DEFINE options == OptionsOf(depth, free, unknown, minSize)
           g == Levels(entry, options, old, rect)
           T == {n \in 0 .. depth : GoodLevel(g[n], n)}
           After(n) == [options EXCEPT !.nestLevel = @ - n, !.free = 0, !.unknown = 0]
<1>1. /\ options.nestLevel = depth /\ options.free = free /\ options.unknown = unknown
      /\ \A n : After(n).free = 0 /\ After(n).unknown = 0
  BY DEF OptionsOf
<1> HIDE DEF options, g, After
<1>2. AreLevels(entry, options, old, rect, g)
  <2>1. \E h : AreLevels(entry, options, old, rect, h)
    BY <1>1, LevelsExist
  <2>2. g = CHOOSE h : AreLevels(entry, options, old, rect, h)
    BY LevelsAre DEF g
  <2> QED
    BY <2>1, <2>2
<1>3. \A n \in 0 .. depth : g[n] = LevelOf(entry, options, old, rect, g, n)
  <2> DEFINE R(n) == LevelOf(entry, options, old, rect, g, n)
  <2>1. g = [n \in 0 .. depth |-> R(n)]
    BY <1>1, <1>2 DEF AreLevels
  <2> HIDE DEF R
  <2>2. \A n \in 0 .. depth : g[n] = R(n)
    BY <2>1
  <2> QED
    BY <2>2 DEF R
<1>4. g[0] = [way \in {<< >>} |-> AllocateView(RootOf(entry), options, old, rect)]
  <2>1. g[0] = LevelOf(entry, options, old, rect, g, 0)
    BY <1>3
  <2> DEFINE V == AllocateView(RootOf(entry), options, old, rect)
  <2>2. LevelOf(entry, options, old, rect, g, 0) = [way \in {<< >>} |-> V]
    BY DEF LevelOf
  <2> QED
    BY <2>1, <2>2
<1>5. \A n \in 1 .. depth : g[n] = LevelBelow(g[n - 1], After(n))
  <2>1. \A n \in 1 .. depth : n \in 0 .. depth /\ n # 0
    OBVIOUS
  <2> QED
    BY <1>3, <2>1 DEF LevelOf, After
<1>6. 0 \in T
  <2>1. RootOf(entry).below = entry.children /\ RootOf(entry).area = NoArea
    BY DEF RootOf
  <2>2. Allocated(AllocateView(RootOf(entry), options, old, rect))
    BY <1>1, <2>1, ViewAllocated
  <2>3. << >> \in Seq(Nat) /\ Len(<< >>) = 0
    OBVIOUS
  <2>4. GoodLevel(g[0], 0)
    BY <1>4, <2>2, <2>3 DEF GoodLevel
  <2> QED
    BY <2>4
<1>7. ASSUME NEW n \in 1 .. depth, GoodLevel(g[n - 1], n - 1)
      PROVE  GoodLevel(g[n], n) /\ IsBelow(g[n], g[n - 1])
  <2> DEFINE m == n - 1
  <2>1. m \in Nat /\ m + 1 = n /\ g[n] = LevelBelow(g[m], After(n)) /\ GoodLevel(g[m], m)
    BY <1>5, <1>7
  <2>2. After(n).free \in Nat /\ After(n).unknown \in Nat
    BY <1>1
  <2> HIDE DEF m
  <2>3. /\ GoodLevel(LevelBelow(g[m], After(n)), m + 1)
        /\ IsBelow(LevelBelow(g[m], After(n)), g[m])
    BY <2>1, <2>2, LevelBelowFacts
  <2> QED
    BY <2>1, <2>3 DEF m
<1>8. \A n \in 1 .. depth : n - 1 \in T => n \in T
  BY <1>7
<1> HIDE DEF T
<1>9. \A n \in 0 .. depth : n \in T
  BY <1>6, <1>8, AllUpTo
<1>10. \A n \in 0 .. depth : GoodLevel(g[n], n)
  BY <1>9 DEF T
<1>11. \A n \in 1 .. depth : IsBelow(g[n], g[n - 1])
  <2>1. \A n \in 1 .. depth : n - 1 \in 0 .. depth
    OBVIOUS
  <2> QED
    BY <1>7, <1>10, <2>1
<1>12. DOMAIN g[0] = {<< >>}
  BY <1>4
<1> QED
  BY <1>10, <1>11, <1>12 DEF g, options

-----------------------------------------------------------------------------
(* What is on screen                                                          *)

\* The children of a view can be summed by their places, or by their ways.
LEMMA TotalOfWays ==
    ASSUME NEW way \in Seq(Nat), NEW N \in Nat, NEW f, Sizes(f, 1, N), NEW e,
           \A i \in 1 .. N : e[Append(way, i)] = f[i]
    PROVE  Total(e, {Append(way, i) : i \in 1 .. N}) = SumOf(f, 1, N)
<1> DEFINE K(n) == {Append(way, i) : i \in 1 .. n}
           T == {n \in 0 .. N : IsFiniteSet(K(n)) /\ Total(e, K(n)) = SumOf(f, 1, n)}
<1>1. \A n \in 0 .. N : Sizes(f, 1, n) /\ Valued(e, K(n))
  <2> SUFFICES ASSUME NEW n \in 0 .. N PROVE Sizes(f, 1, n) /\ Valued(e, K(n))
    OBVIOUS
  <2>1. \A i \in 1 .. n : i \in 1 .. N
    OBVIOUS
  <2>2. \A i \in 1 .. n : f[i] \in Nat /\ e[Append(way, i)] = f[i]
    BY <2>1 DEF Sizes
  <2>3. \A x \in K(n) : \E i \in 1 .. n : x = Append(way, i)
    OBVIOUS
  <2> HIDE DEF K
  <2> QED
    <3>1. Sizes(f, 1, n)
      BY <2>2 DEF Sizes
    <3>2. \A i \in 1 .. n : e[Append(way, i)] \in Int
      BY <2>2
    <3>3. Valued(e, K(n))
      BY <2>3, <3>2 DEF Valued
    <3> QED
      BY <3>1, <3>3
<1>2. 0 \in T
  <2>1. K(0) = {} /\ IsFiniteSet({})
    BY FS_EmptySet
  <2>2. SumOf(f, 1, 0) = 0
    BY <1>1, RangeSums
  <2>3. Valued(e, {})
    BY DEF Valued
  <2>4. Total(e, {}) = 0
    BY <2>1, <2>3, TotalFacts
  <2> HIDE DEF K
  <2> QED
    <3>1. IsFiniteSet(K(0)) /\ Total(e, K(0)) = SumOf(f, 1, 0)
      BY <2>1, <2>2, <2>4
    <3>2. 0 \in 0 .. N
      OBVIOUS
    <3> QED
      BY <3>1, <3>2
<1>3. ASSUME NEW n \in 1 .. N, n - 1 \in T
      PROVE  n \in T
  <2> DEFINE x == Append(way, n)
             m == n - 1
  <2>1. /\ m \in 0 .. N /\ n \in 0 .. N /\ n \in Nat /\ m \in Int /\ m + 1 = n /\ 1 <= m + 1 /\ m <= n
        /\ \A i \in 1 .. n : i \in 1 .. m \/ i = n
        /\ \A i \in 1 .. m : i \in 1 .. n /\ i # n /\ i \in Nat
    OBVIOUS
  <2>2. IsFiniteSet(K(m)) /\ Total(e, K(m)) = SumOf(f, 1, m)
    BY <1>3
  <2>3. K(n) = K(m) \union {x}
    <3> HIDE DEF m
    <3> QED
      BY <2>1
  <2>4. x \notin K(m)
    <3>1. \A i \in Nat : Last(Append(way, i)) = i
      BY WayFacts
    <3> HIDE DEF m
    <3> QED
      BY <2>1, <3>1
  <2>5. e[x] = f[n] /\ f[n] \in Nat
    BY DEF Sizes
  <2> HIDE DEF K, m, x
  <2>6. IsFiniteSet(K(n))
    BY <2>2, <2>3, FS_AddElement
  <2>7. K(m) \in SUBSET K(n) /\ K(n) \ K(m) = {x}
    BY <2>3, <2>4
  <2>8. Total(e, K(n)) = Total(e, K(m)) + Total(e, {x})
    <3>1. Valued(e, K(n))
      BY <1>1, <2>1
    <3>2. Total(e, K(n)) = Total(e, K(m)) + Total(e, K(n) \ K(m))
      BY <2>6, <2>7, <3>1, TotalFacts
    <3> QED
      BY <2>7, <3>2
  <2>9. Total(e, {x}) = f[n]
    <3>1. e[x] \in Int
      BY <2>5
    <3>2. Total(e, {x}) = e[x]
      BY <3>1, TotalOfOne
    <3> QED
      BY <2>5, <3>2
  <2>10. SumOf(f, 1, n) = SumOf(f, 1, m) + SumOf(f, n, n)
    <3>1. Sizes(f, 1, n) /\ n \in Int
      BY <1>1, <2>1
    <3>2. SumOf(f, 1, n) = SumOf(f, 1, m) + SumOf(f, m + 1, n)
      BY <2>1, <3>1, RangeSums
    <3> QED
      BY <2>1, <3>2
  <2>11. SumOf(f, n, n) = f[n]
    BY <2>1, <2>5, RangeOfOne
  <2> QED
    BY <2>1, <2>2, <2>6, <2>8, <2>9, <2>10, <2>11
<1> HIDE DEF T
<1>4. \A n \in 0 .. N : n \in T
  BY <1>2, <1>3, AllUpTo
<1>5. N \in T
  BY <1>4
<1> QED
  BY <1>5 DEF T

\* The views of all levels
ViewsOf(level, depth) ==
    [way \in UNION {DOMAIN level[n] : n \in 0 .. depth} |->
        [name |-> level[Len(way)][way].name, kind |-> level[Len(way)][way].kind,
         size |-> level[Len(way)][way].size, area |-> level[Len(way)][way].area]]

\* ChildrenOf, for any views
Below(root, way) == {w \in DOMAIN root : w # << >> /\ Front(w) = way}

\* The views of all levels together divide the area of each that has room.
LEMMA LevelsDivide ==
    ASSUME NEW depth \in Nat, NEW level,
           \A n \in 0 .. depth : GoodLevel(level[n], n),
           \A n \in 1 .. depth : IsBelow(level[n], level[n - 1]),
           NEW root, root = ViewsOf(level, depth)
    PROVE  /\ OldAreas(root)
           /\ \A way \in DOMAIN root :
                LET inner == Inner(root[way].area)
                    kids  == Below(root, way)
                IN  kids # {} /\ ~ NoRoom(inner) =>
                      /\ \A w \in kids : Inside(root[w].area, inner)
                      /\ \A v, w \in kids : v # w => Apart(root[v].area, root[w].area)
                      /\ Total([w \in kids |-> Pixels(root[w].area)], kids) = Pixels(inner)
<1>1. \A n \in 0 .. depth : \A way \in DOMAIN level[n] :
        /\ way \in Seq(Nat) /\ Len(way) = n /\ Allocated(level[n][way])
        /\ way \in DOMAIN root /\ root[way].area = level[n][way].area
  <2> SUFFICES ASSUME NEW n \in 0 .. depth, NEW way \in DOMAIN level[n]
               PROVE  /\ way \in Seq(Nat) /\ Len(way) = n /\ Allocated(level[n][way])
                      /\ way \in DOMAIN root /\ root[way].area = level[n][way].area
    OBVIOUS
  <2>1. way \in Seq(Nat) /\ Len(way) = n /\ Allocated(level[n][way])
    BY DEF GoodLevel
  <2>2. way \in UNION {DOMAIN level[m] : m \in 0 .. depth}
    OBVIOUS
  <2>3. way \in DOMAIN root /\ root[way].area = level[Len(way)][way].area
    BY <2>2 DEF ViewsOf
  <2> QED
    BY <2>1, <2>3
<1>2. \A way \in DOMAIN root : \E n \in 0 .. depth : way \in DOMAIN level[n]
  <2>1. DOMAIN root = UNION {DOMAIN level[n] : n \in 0 .. depth}
    BY DEF ViewsOf
  <2> QED
    BY <2>1
<1>3. OldAreas(root)
  BY <1>1, <1>2 DEF OldAreas, Allocated
<1>4. ASSUME NEW way \in DOMAIN root, Below(root, way) # {}, ~ NoRoom(Inner(root[way].area))
      PROVE  LET inner == Inner(root[way].area)
                 kids  == Below(root, way)
             IN  /\ \A w \in kids : Inside(root[w].area, inner)
                 /\ \A v, w \in kids : v # w => Apart(root[v].area, root[w].area)
                 /\ Total([w \in kids |-> Pixels(root[w].area)], kids) = Pixels(inner)
  <2> DEFINE inner == Inner(root[way].area)
             kids == Below(root, way)
  <2>1. PICK n \in 0 .. depth : way \in DOMAIN level[n]
    BY <1>2
  <2>2. /\ way \in Seq(Nat) /\ Len(way) = n /\ Allocated(level[n][way])
        /\ root[way].area = level[n][way].area
    BY <1>1, <2>1
  <2> DEFINE v == level[n][way]
             N == Len(v.children)
  <2>3. v.children \in Seq(View) /\ N \in Nat
    BY <2>2 DEF Allocated
  <2>4. ASSUME NEW w \in kids
        PROVE  n < depth /\ \E i \in 1 .. N : w = Append(way, i)
    <3>1. w \in DOMAIN root /\ w # << >> /\ Front(w) = way
      BY DEF Below
    <3>2. PICK m \in 0 .. depth : w \in DOMAIN level[m]
      BY <1>2, <3>1
    <3>3. w \in Seq(Nat) /\ Len(w) = m
      BY <1>1, <3>2
    <3>4. m # 0
      BY <3>1, <3>3
    <3>5. m \in 1 .. depth /\ m - 1 \in 0 .. depth
      BY <3>4
    <3>6. PICK up \in DOMAIN level[m - 1] : \E i \in 1 .. Len(level[m - 1][up].children) : w = Append(up, i)
      BY <3>2, <3>5 DEF IsBelow
    <3>7. PICK i \in 1 .. Len(level[m - 1][up].children) : w = Append(up, i)
      BY <3>6
    <3>8. up \in Seq(Nat) /\ Len(up) = m - 1 /\ Len(level[m - 1][up].children) \in Nat
      <4>1. up \in Seq(Nat) /\ Len(up) = m - 1 /\ Allocated(level[m - 1][up])
        BY <1>1, <3>5
      <4>2. level[m - 1][up].children \in Seq(View)
        BY <4>1 DEF Allocated
      <4> QED
        BY <4>1, <4>2
    <3>9. Front(w) = up
      <4>1. i \in Nat
        BY <3>8
      <4> QED
        BY <3>7, <3>8, <4>1, WayFacts
    <3>10. up = way /\ m - 1 = n
      BY <2>2, <3>1, <3>8, <3>9
    <3> QED
      BY <3>5, <3>7, <3>10
  <2>5. n + 1 \in 1 .. depth /\ (n + 1) - 1 = n /\ n + 1 \in 0 .. depth
    <3>1. PICK w \in kids : TRUE
      BY <1>4
    <3>2. n < depth
      BY <2>4, <3>1
    <3> QED
      BY <3>2
  <2>6. ASSUME NEW i \in 1 .. N
        PROVE  Append(way, i) \in kids /\ root[Append(way, i)].area = v.areas[i]
    <3>1. IsBelow(level[n + 1], level[n])
      BY <2>5
    <3>2. Append(way, i) \in DOMAIN level[n + 1] /\ level[n + 1][Append(way, i)].area = v.areas[i]
      BY <2>1, <3>1 DEF IsBelow
    <3>3. Append(way, i) \in DOMAIN root /\ root[Append(way, i)].area = v.areas[i]
      BY <1>1, <2>5, <3>2
    <3>4. Front(Append(way, i)) = way /\ Append(way, i) # << >>
      BY <2>2, <2>3, WayFacts
    <3> QED
      BY <3>3, <3>4 DEF Below
  <2>7. kids = {Append(way, i) : i \in 1 .. N}
    <3> HIDE DEF kids, N
    <3> QED
      BY <2>4, <2>6
  <2>8. Divided(v.areas, 1, N, inner)
    <3>1. v.children # << >>
      <4>1. N # 0
        <5>1. PICK w \in kids : TRUE
          BY <1>4
        <5>2. PICK i \in 1 .. N : w = Append(way, i)
          BY <2>4, <5>1
        <5> QED
          BY <5>2
      <4> QED
        BY <4>1
    <3> QED
      BY <1>4, <2>2, <3>1 DEF Allocated
  <2> HIDE DEF v, N, kids, inner
  <2>9. \A w \in kids : Inside(root[w].area, inner)
    BY <2>6, <2>7, <2>8 DEF Divided
  <2>10. \A u, w \in kids : u # w => Apart(root[u].area, root[w].area)
    <3> SUFFICES ASSUME NEW u \in kids, NEW w \in kids, u # w
                 PROVE  Apart(root[u].area, root[w].area)
      OBVIOUS
    <3>1. PICK i \in 1 .. N : u = Append(way, i)
      BY <2>4
    <3>2. PICK j \in 1 .. N : w = Append(way, j)
      BY <2>4
    <3> QED
      BY <2>6, <2>8, <3>1, <3>2 DEF Divided
  <2>11. Total([w \in kids |-> Pixels(root[w].area)], kids) = Pixels(inner)
    <3> DEFINE e == [w \in kids |-> Pixels(root[w].area)]
               f == [i \in 1 .. N |-> Pixels(v.areas[i])]
    <3>1. \A i \in 1 .. N : e[Append(way, i)] = f[i]
      BY <2>6
    <3>2. Sizes(f, 1, N) /\ SumOf(f, 1, N) = Pixels(inner)
      BY <2>8 DEF Divided, Sizes
    <3> HIDE DEF e, f
    <3>3. Total(e, {Append(way, i) : i \in 1 .. N}) = SumOf(f, 1, N)
      BY <2>2, <2>3, <3>1, <3>2, TotalOfWays
    <3> QED
      BY <2>7, <3>2, <3>3 DEF e
  <2> QED
    BY <2>9, <2>10, <2>11 DEF kids, inner
<1> QED
  BY <1>3, <1>4

\* Every view below the root is below one that is there, which has a name or is the root, and
\* is the only one there that has its name, if it has one.
WellNamed(root, depth) ==
    /\ << >> \in DOMAIN root
    /\ \A w \in DOMAIN root :
         /\ w \in Seq(Nat) /\ Len(w) <= depth
         /\ w # << >> => /\ Front(w) \in DOMAIN root
                         /\ Front(w) # << >> => root[Front(w)].name # ""
    /\ \A u, w \in DOMAIN root :
         /\ u # << >> /\ w # << >> /\ Front(u) = Front(w)
         /\ root[u].name = root[w].name /\ root[u].name # ""
         => u = w

\* The views of all levels are named as they should be.
LEMMA LevelsNamed ==
    ASSUME NEW depth \in Nat, NEW level, << >> \in DOMAIN level[0],
           \A n \in 0 .. depth : GoodLevel(level[n], n),
           \A n \in 1 .. depth : IsBelow(level[n], level[n - 1]),
           NEW root, root = ViewsOf(level, depth)
    PROVE  WellNamed(root, depth)
<1> DEFINE Kids(n, up) == level[n][up].children
<1>1. \A n \in 0 .. depth : \A way \in DOMAIN level[n] :
        /\ way \in Seq(Nat) /\ Len(way) = n /\ Allocated(level[n][way])
        /\ way \in DOMAIN root /\ root[way].name = level[n][way].name
  <2> SUFFICES ASSUME NEW n \in 0 .. depth, NEW way \in DOMAIN level[n]
               PROVE  /\ way \in Seq(Nat) /\ Len(way) = n /\ Allocated(level[n][way])
                      /\ way \in DOMAIN root /\ root[way].name = level[n][way].name
    OBVIOUS
  <2>1. way \in Seq(Nat) /\ Len(way) = n /\ Allocated(level[n][way])
    BY DEF GoodLevel
  <2>2. way \in UNION {DOMAIN level[m] : m \in 0 .. depth}
    OBVIOUS
  <2>3. way \in DOMAIN root /\ root[way].name = level[Len(way)][way].name
    BY <2>2 DEF ViewsOf
  <2> QED
    BY <2>1, <2>3
<1>2. \A way \in DOMAIN root : \E n \in 0 .. depth : way \in DOMAIN level[n]
  <2>1. DOMAIN root = UNION {DOMAIN level[n] : n \in 0 .. depth}
    BY DEF ViewsOf
  <2> QED
    BY <2>1
<1>3. \A n \in 0 .. depth : \A up \in DOMAIN level[n] :
        Kids(n, up) \in Seq(View) /\ GoodNames(Kids(n, up)) /\ Len(Kids(n, up)) \in Nat
  BY <1>1 DEF Allocated
<1>4. ASSUME NEW w \in DOMAIN root, w # << >>
      PROVE  \E n \in 1 .. depth : \E up \in DOMAIN level[n - 1] :
               \E i \in 1 .. Len(Kids(n - 1, up)) :
                 /\ w = Append(up, i) /\ Front(w) = up /\ Len(w) = n /\ w \in DOMAIN level[n]
                 /\ root[w].name = Kids(n - 1, up)[i].name
                 /\ Kids(n - 1, up)[i].name = "" => level[n][w].children = << >>
  <2>1. PICK n \in 0 .. depth : w \in DOMAIN level[n]
    BY <1>2
  <2>2. w \in Seq(Nat) /\ Len(w) = n /\ root[w].name = level[n][w].name
    BY <1>1, <2>1
  <2>3. n # 0
    BY <1>4, <2>2
  <2>4. n \in 1 .. depth /\ n - 1 \in 0 .. depth
    BY <2>3
  <2>5. IsBelow(level[n], level[n - 1])
    BY <2>4
  <2>6. PICK up \in DOMAIN level[n - 1] : \E i \in 1 .. Len(Kids(n - 1, up)) : w = Append(up, i)
    BY <2>1, <2>5 DEF IsBelow
  <2>7. PICK i \in 1 .. Len(Kids(n - 1, up)) : w = Append(up, i)
    BY <2>6
  <2>8. /\ level[n][w].name = Kids(n - 1, up)[i].name
        /\ Kids(n - 1, up)[i].name = "" => level[n][w].children = << >>
    BY <2>5, <2>7 DEF IsBelow
  <2>9. Front(w) = up
    <3>1. up \in Seq(Nat) /\ i \in Nat
      BY <1>1, <1>3, <2>4
    <3> QED
      BY <2>7, <3>1, WayFacts
  <2> QED
    BY <2>1, <2>2, <2>4, <2>7, <2>8, <2>9
<1> HIDE DEF Kids
<1>5. ASSUME NEW w \in DOMAIN root
      PROVE  /\ w \in Seq(Nat) /\ Len(w) <= depth
             /\ w # << >> => /\ Front(w) \in DOMAIN root
                             /\ Front(w) # << >> => root[Front(w)].name # ""
  <2>1. w \in Seq(Nat) /\ Len(w) <= depth
    BY <1>1, <1>2
  <2>2. ASSUME w # << >>
        PROVE  Front(w) \in DOMAIN root /\ (Front(w) # << >> => root[Front(w)].name # "")
    <3>1. PICK n \in 1 .. depth : \E up \in DOMAIN level[n - 1] :
            \E i \in 1 .. Len(Kids(n - 1, up)) : w = Append(up, i) /\ Front(w) = up
      BY <1>4, <2>2
    <3>2. n - 1 \in 0 .. depth
      OBVIOUS
    <3>3. PICK up \in DOMAIN level[n - 1] :
            \E i \in 1 .. Len(Kids(n - 1, up)) : w = Append(up, i) /\ Front(w) = up
      BY <3>1
    <3>4. Front(w) = up /\ up \in DOMAIN root /\ Len(up) = n - 1 /\ Kids(n - 1, up) # << >>
      <4>1. Front(w) = up /\ Len(Kids(n - 1, up)) # 0
        BY <3>2, <3>3, <1>3
      <4>2. Kids(n - 1, up) # << >>
        BY <4>1
      <4> QED
        BY <1>1, <3>2, <4>1, <4>2
    <3>5. ASSUME up # << >>, root[up].name = ""
          PROVE  FALSE
      <4>1. PICK m \in 1 .. depth : \E u \in DOMAIN level[m - 1] :
              \E i \in 1 .. Len(Kids(m - 1, u)) :
                 /\ Len(up) = m
                 /\ root[up].name = Kids(m - 1, u)[i].name
                 /\ Kids(m - 1, u)[i].name = "" => level[m][up].children = << >>
        BY <1>4, <3>4, <3>5
      <4>2. level[m][up].children = << >> /\ m = n - 1
        BY <3>4, <3>5, <4>1
      <4> QED
        BY <3>4, <4>2 DEF Kids
    <3> QED
      BY <3>4, <3>5
  <2> QED
    BY <2>1, <2>2
<1>6. ASSUME NEW u \in DOMAIN root, NEW w \in DOMAIN root, u # << >>, w # << >>, Front(u) = Front(w),
             root[u].name = root[w].name, root[u].name # ""
      PROVE  u = w
  <2>1. PICK n \in 1 .. depth : \E up \in DOMAIN level[n - 1] :
           \E i \in 1 .. Len(Kids(n - 1, up)) :
             u = Append(up, i) /\ Front(u) = up /\ root[u].name = Kids(n - 1, up)[i].name
    BY <1>4, <1>6
  <2>2. PICK up \in DOMAIN level[n - 1] : \E i \in 1 .. Len(Kids(n - 1, up)) :
             u = Append(up, i) /\ Front(u) = up /\ root[u].name = Kids(n - 1, up)[i].name
    BY <2>1
  <2>3. PICK i \in 1 .. Len(Kids(n - 1, up)) :
             u = Append(up, i) /\ Front(u) = up /\ root[u].name = Kids(n - 1, up)[i].name
    BY <2>2
  <2>4. PICK m \in 1 .. depth : \E v \in DOMAIN level[m - 1] :
           \E j \in 1 .. Len(Kids(m - 1, v)) :
             w = Append(v, j) /\ Front(w) = v /\ root[w].name = Kids(m - 1, v)[j].name
    BY <1>4, <1>6
  <2>5. PICK v \in DOMAIN level[m - 1] : \E j \in 1 .. Len(Kids(m - 1, v)) :
             w = Append(v, j) /\ Front(w) = v /\ root[w].name = Kids(m - 1, v)[j].name
    BY <2>4
  <2>6. PICK j \in 1 .. Len(Kids(m - 1, v)) :
             w = Append(v, j) /\ Front(w) = v /\ root[w].name = Kids(m - 1, v)[j].name
    BY <2>5
  <2>7. n - 1 \in 0 .. depth /\ m - 1 \in 0 .. depth
    OBVIOUS
  <2>8. v = up /\ m - 1 = n - 1
    <3>1. v = up
      BY <1>6, <2>3, <2>6
    <3>2. Len(up) = n - 1 /\ Len(v) = m - 1
      BY <1>1, <2>7
    <3> QED
      BY <3>1, <3>2
  <2>9. i = j
    <3> DEFINE kids == Kids(n - 1, up)
    <3>1. GoodNames(kids) /\ i \in 1 .. Len(kids) /\ j \in 1 .. Len(kids)
      BY <1>3, <2>3, <2>6, <2>7, <2>8
    <3>2. kids[i].name = kids[j].name /\ kids[i].name # ""
      BY <1>6, <2>3, <2>6, <2>8
    <3> HIDE DEF kids
    <3> QED
      BY <3>1, <3>2 DEF GoodNames
  <2> QED
    BY <2>3, <2>6, <2>8, <2>9
<1>7. << >> \in DOMAIN root
  BY <1>1
<1> QED
  BY <1>5, <1>6, <1>7 DEF WellNamed

-----------------------------------------------------------------------------
(* Every step                                                                 *)

\* An image of a finite set is finite.
LEMMA ImageIsFinite ==
    ASSUME NEW S, IsFiniteSet(S), NEW f, NEW T, T = {f[x] : x \in S}
    PROVE  IsFiniteSet(T)
<1> DEFINE g == [x \in S |-> f[x]]
<1>1. g \in [S -> T] /\ \A t \in T : \E x \in S : g[x] = t
  OBVIOUS
<1>2. g \in Surjection(S, T)
  <2> HIDE DEF g
  <2> QED
    BY <1>1 DEF Surjection
<1> QED
  BY <1>2, FS_Surjection

\* No two entries have the same name.
OwnNames(entries) == \A e, f \in entries : e.name = f.name => e = f

\* The entries in any of the orders are a list, the biggest first.
LEMMA OrdersAreLists ==
    ASSUME NEW E, \A e \in E : e.size \in Nat, NEW entries \in SUBSET E, IsFiniteSet(entries),
           OwnNames(entries)
    PROVE  Orders(entries) \subseteq Lists(E)
<1> SUFFICES ASSUME NEW s \in Orders(entries) PROVE s \in Lists(E)
  OBVIOUS
<1> DEFINE n == Cardinality(entries)
<1>1. n \in Nat
  BY FS_CardinalityType
<1>2. /\ s \in [1 .. n -> entries] /\ \A i, j \in DOMAIN s : i < j => s[i].size >= s[j].size
      /\ \A i, j \in 1 .. n : i # j => s[i] # s[j]
  BY DEF Orders, SetToSeqs
<1> HIDE DEF n
<1>3. s \in Seq(E) /\ Len(s) = n /\ DOMAIN s = 1 .. n
  <2>1. s \in [1 .. n -> E]
    BY <1>2
  <2> QED
    BY <1>1, <2>1
<1>4. \A i \in 1 .. n : s[i].size \in Nat
  BY <1>2
<1>5. \A i, j \in 1 .. Len(s) : i < j => s[j].size <= s[i].size
  BY <1>2, <1>3, <1>4
<1>6. \A i, j \in 1 .. Len(s) : s[i].name = s[j].name => i = j
  BY <1>2, <1>3 DEF OwnNames
<1> QED
  BY <1>3, <1>5, <1>6 DEF Lists

\* The files of the database
FilesAre(fs) ==
    /\ IsFiniteSet(DOMAIN fs)
    /\ \A f \in DOMAIN fs : fs[f] \in Nat

\* The entries of files, and of a directory of entries
LEMMA FilesFacts ==
    ASSUME FilesAre(files'), NEW names \in SUBSET (RootFile \union DirFile)
    PROVE  /\ FilesOf(names) \subseteq Flat /\ IsFiniteSet(FilesOf(names))
           /\ OwnNames(FilesOf(names)) /\ \A e \in FilesOf(names) : e.name \in names
<1> DEFINE S == names \intersect DOMAIN files'
           Record(f) == [name |-> f, kind |-> "FILE", size |-> files'[f], children |-> << >>]
           record == [f \in S |-> Record(f)]
<1>1. IsFiniteSet(S)
  BY FS_Subset DEF FilesAre
<1>2. FilesOf(names) = {Record(f) : f \in S}
  BY DEF FilesOf
<1>3. FilesOf(names) = {record[f] : f \in S}
  <2> HIDE DEF Record, S
  <2> QED
    BY <1>2
<1>4. \A f \in S : Record(f) \in Flat
  BY DEF FilesAre, Flat, FileNames, Kinds
<1>6. \A f \in S : Record(f).name = f
  OBVIOUS
<1>5. IsFiniteSet(FilesOf(names))
  <2> HIDE DEF record, S
  <2> QED
    BY <1>1, <1>3, ImageIsFinite
<1> HIDE DEF Record
<1> QED
  BY <1>2, <1>4, <1>5, <1>6 DEF OwnNames

\* A directory has the size of what is in it, which is in order.
LEMMA DirsFacts ==
    ASSUME NEW E \in {Flat, Entry}, NEW entries \in SUBSET E, IsFiniteSet(entries),
           OwnNames(entries), NEW name, NEW d \in Dirs(name, entries)
    PROVE  /\ d.size \in Nat /\ d.children \in Lists(E)
           /\ d = [name |-> name, kind |-> "DIRECTORY", size |-> d.size, children |-> d.children]
<1> DEFINE sizes == [e \in entries |-> e.size]
<1>1. \A e \in E : e.size \in Nat
  <2>1. \A e \in Flat : e.size \in Nat
    BY DEF Flat
  <2>2. \A e \in Entry : e.size \in Nat
    BY DEF Entry
  <2> QED
    BY <2>1, <2>2
<1>2. Total(sizes, entries) \in Nat
  <2>1. \A e \in entries : sizes[e] \in Nat
    BY <1>1
  <2> HIDE DEF sizes
  <2> QED
    BY <2>1, TotalIsNatural
<1>3. Orders(entries) \subseteq Lists(E)
  BY <1>1, OrdersAreLists
<1>4. PICK order \in Orders(entries) :
        d = [name |-> name, kind |-> "DIRECTORY", size |-> Total(sizes, entries), children |-> order]
  BY DEF Dirs
<1> HIDE DEF sizes
<1>5. d.size = Total(sizes, entries) /\ d.children = order
  BY <1>4
<1> QED
  BY <1>2, <1>3, <1>4, <1>5

\* What a path leads to
LEMMA EntriesFacts ==
    ASSUME FilesAre(files'), NEW path, NEW entry \in EntriesAt(path)
    PROVE  entry.size \in Nat /\ entry.children \in Lists(Entry)
<1> DEFINE ds == Dirs("d", FilesOf(DirFile))
<1>1. "d" \in FileNames /\ "DIRECTORY" \in Kinds
  BY DEF FileNames, Kinds
<1>2. FilesOf(DirFile) \subseteq Flat /\ IsFiniteSet(FilesOf(DirFile)) /\ OwnNames(FilesOf(DirFile))
  BY FilesFacts
<1>3. /\ FilesOf(RootFile) \subseteq Flat /\ IsFiniteSet(FilesOf(RootFile))
      /\ OwnNames(FilesOf(RootFile)) /\ \A e \in FilesOf(RootFile) : e.name \in RootFile
  BY FilesFacts
<1>4. Lists(Flat) \subseteq Lists(Entry) /\ Flat \subseteq Entry
  <2>1. Lists(Flat) \subseteq Lists(Entry) /\ << >> \in Lists(Flat)
    BY FlatAreEntries
  <2> DEFINE L == Lists(Flat)
  <2> HIDE DEF L
  <2>2. << >> \in L
    BY <2>1 DEF L
  <2>3. [name : FileNames, kind : Kinds, size : Nat, children : {<< >>}]
          \subseteq [name : FileNames, kind : Kinds, size : Nat, children : L]
    BY <2>2
  <2> QED
    BY <2>1, <2>3 DEF Flat, Entry, L
<1>5. ASSUME NEW d \in ds
      PROVE  d.size \in Nat /\ d.children \in Lists(Flat) /\ d \in Entry /\ d.name = "d"
  <2>1. /\ d.size \in Nat /\ d.children \in Lists(Flat)
        /\ d = [name |-> "d", kind |-> "DIRECTORY", size |-> d.size, children |-> d.children]
    BY <1>1, <1>2, DirsFacts
  <2> DEFINE L == Lists(Flat)
  <2>2. d.children \in L
    BY <2>1
  <2> HIDE DEF L
  <2>3. d \in [name : FileNames, kind : Kinds, size : Nat, children : L]
    <3>1. PICK n, c : n = d.size /\ c = d.children
      OBVIOUS
    <3>2. d = [name |-> "d", kind |-> "DIRECTORY", size |-> n, children |-> c] /\ n \in Nat /\ c \in L
      BY <2>1, <2>2, <3>1
    <3> QED
      BY <1>1, <3>2
  <2> QED
    BY <2>1, <2>3 DEF L, Entry
<1> HIDE DEF ds
<1>6. CASE path = << >>
  <2>1. PICK d \in ds : entry \in Dirs("", FilesOf(RootFile) \union {d})
    BY <1>6 DEF EntriesAt, ds
  <2> DEFINE entries == FilesOf(RootFile) \union {d}
  <2>2. entries \in SUBSET Entry
    BY <1>3, <1>4, <1>5
  <2>3. IsFiniteSet(entries)
    BY <1>3, FS_AddElement
  <2>5. OwnNames(entries)
    <3>1. "d" \notin RootFile /\ d.name = "d"
      BY <1>5, LayoutAssumption
    <3> QED
      BY <1>3, <3>1 DEF OwnNames
  <2>4. entry \in Dirs("", entries)
    BY <2>1
  <2> HIDE DEF entries
  <2> QED
    BY <1>1, <2>2, <2>3, <2>4, <2>5, DirsFacts
<1>7. CASE path # << >>
  <2>1. entry \in ds
    BY <1>7 DEF EntriesAt, ds
  <2> QED
    BY <1>4, <1>5, <2>1
<1> QED
  BY <1>6, <1>7

\* The types of the state, as far as areas depend on them
LayoutTypes ==
    /\ FilesAre(files)
    /\ disk \in [free : Nat, unknown : Nat]
    /\ viewDepth \in Nat /\ viewRect \in Area
    /\ OldAreas(rootFile) /\ WellNamed(rootFile, viewDepth)

\* The view that there is first has no children.
LEMMA InitDivided == Init => LayoutTypes /\ AreaDivided
<1> SUFFICES ASSUME Init PROVE LayoutTypes /\ AreaDivided
  OBVIOUS
<1>1. FilesAre(files)
  <2>1. DOMAIN files = {}
    <3>1. << >> \in Seq(Nat) /\ Len(<< >>) = 0
      OBVIOUS
    <3>2. DOMAIN << >> = 1 .. 0
      BY <3>1
    <3>3. 1 .. 0 = {}
      OBVIOUS
    <3>4. files = << >>
      BY DEF Init
    <3> QED
      BY <3>2, <3>3, <3>4
  <2>2. IsFiniteSet({})
    BY FS_EmptySet
  <2> QED
    BY <2>1, <2>2 DEF FilesAre
<1>2. disk \in [free : Nat, unknown : Nat] /\ viewDepth \in Nat /\ viewRect \in Area
  <2>1. disk \in [free : Nat, unknown : Nat]
    BY DEF Init
  <2>2. viewDepth \in Nat
    BY LayoutAssumption DEF Init
  <2>3. viewRect \in Area
    <3>1. viewRect \in [x : Nat, y : Nat, w : Nat \ {0}, h : Nat \ {0}]
      BY LayoutAssumption DEF Init
    <3> QED
      BY <3>1 DEF Area
  <2> QED
    BY <2>1, <2>2, <2>3
<1>3. NoArea \in Area
  BY DEF NoArea, Area
<1>4. DOMAIN rootFile = {<< >>} /\ OldAreas(rootFile)
  BY <1>3 DEF Init, OldAreas
<1>5. AreaDivided
  <2>1. \A way : ChildrenOf(way) = {}
    BY <1>4 DEF ChildrenOf
  <2> QED
    BY <2>1 DEF AreaDivided, HasRoom
<1>6. WellNamed(rootFile, viewDepth)
  <2>1. << >> \in Seq(Nat) /\ Len(<< >>) = 0
    OBVIOUS
  <2> QED
    BY <1>2, <1>4, <2>1 DEF WellNamed
<1> QED
  BY <1>1, <1>2, <1>4, <1>5, <1>6 DEF LayoutTypes

\* Every change keeps the types,
LEMMA ChangeKeepsTypes ==
    ASSUME LayoutTypes, Change
    PROVE  /\ FilesAre(files') /\ disk' \in [free : Nat, unknown : Nat]
           /\ viewDepth' \in Nat /\ viewRect' \in Area
<1>0. /\ FilesAre(files) /\ disk \in [free : Nat, unknown : Nat]
      /\ viewDepth \in Nat /\ viewRect \in Area
  BY DEF LayoutTypes
<1>1. ASSUME NEW f, Removed(f)
      PROVE  FilesAre(files') /\ UNCHANGED <<disk, viewDepth, viewRect>>
  <2>1. files' = [g \in DOMAIN files \ {f} |-> files[g]] /\ UNCHANGED <<disk, viewDepth, viewRect>>
    BY <1>1 DEF Removed
  <2>2. IsFiniteSet(DOMAIN files \ {f})
    BY <1>0, FS_Subset DEF FilesAre
  <2> QED
    BY <1>0, <2>1, <2>2 DEF FilesAre
<1>2. ASSUME NEW f, NEW s \in Size, Stored(f, s)
      PROVE  FilesAre(files') /\ UNCHANGED <<disk, viewDepth, viewRect>>
  <2>1. /\ files' = [g \in DOMAIN files \union {f} |-> IF g = f THEN s ELSE files[g]]
        /\ UNCHANGED <<disk, viewDepth, viewRect>>
    BY <1>2 DEF Stored
  <2>2. IsFiniteSet(DOMAIN files \union {f})
    BY <1>0, FS_AddElement DEF FilesAre
  <2>3. s \in Nat
    BY LayoutAssumption
  <2> QED
    BY <1>0, <2>1, <2>2, <2>3 DEF FilesAre
<1>3. ASSUME NEW free \in Space, NEW unknown \in Space, SetSpace(free, unknown)
      PROVE  /\ disk' \in [free : Nat, unknown : Nat]
             /\ UNCHANGED <<files, viewDepth, viewRect>>
  BY <1>3, LayoutAssumption DEF SetSpace
<1>4. ASSUME NEW path, NEW depth \in Nat, NEW rect \in Area, NEW spaces,
             SetView(path, depth, rect, spaces)
      PROVE  UNCHANGED <<files, disk>> /\ viewDepth' \in Nat /\ viewRect' \in Area
  BY <1>4 DEF SetView
<1>5. Depth \subseteq Nat /\ Rect \subseteq Area
  <2>1. Depth \subseteq Nat
    BY LayoutAssumption
  <2>2. Rect \subseteq [x : Nat, y : Nat, w : Nat \ {0}, h : Nat \ {0}]
    BY LayoutAssumption
  <2> QED
    BY <2>1, <2>2 DEF Area
<1>6. CASE \E f \in RootFile \union DirFile : Removed(f) \/ \E s \in Size : Stored(f, s)
  BY <1>0, <1>1, <1>2, <1>6
<1>7. CASE \E free, unknown \in Space : SetSpace(free, unknown)
  BY <1>0, <1>3, <1>7
<1>8. CASE \/ \E path \in {<< >>, <<"d">>} : SetView(path, viewDepth, viewRect, show)
           \/ \E depth \in Depth : SetView(viewPath, depth, viewRect, show)
           \/ \E rect \in Rect : SetView(viewPath, viewDepth, rect, show)
           \/ \E kind \in {"free", "unknown"} :
                SetView(viewPath, viewDepth, viewRect, SymDiff(show, {kind}))
  BY <1>0, <1>4, <1>5, <1>8
<1> QED
  BY <1>6, <1>7, <1>8 DEF Change

\* and every update divides the areas anew, whatever was on screen before.
LEMMA UpdateDivides ==
    ASSUME LayoutTypes, FilesAre(files'), disk' \in [free : Nat, unknown : Nat],
           viewDepth' \in Nat, viewRect' \in Area, Update(rootFile)
    PROVE  OldAreas(rootFile') /\ WellNamed(rootFile', viewDepth') /\ AreaDivided'
<1> DEFINE Included(kind) == IF kind \in show' /\ viewPath' = << >> THEN disk'[kind] ELSE 0
           total(entry) == entry.size + Included("free") + Included("unknown")
           minSize(entry) == (total(entry) * 49) \div (viewRect'.w * viewRect'.h)
           options(entry) == OptionsOf(viewDepth', Included("free"), Included("unknown"), minSize(entry))
           level(entry) == Levels(entry, options(entry), rootFile, viewRect')
<1>1. Included("free") \in Nat /\ Included("unknown") \in Nat
  OBVIOUS
<1> HIDE DEF Included
<1>2. PICK entry \in EntriesAt(viewPath') : rootFile' = ViewsOf(level(entry), viewDepth')
  BY DEF Update, ViewsOf, OptionsOf, Included
<1>3. entry.size \in Nat /\ entry.children \in Lists(Entry)
  BY EntriesFacts
<1>4. OldAreas(rootFile)
  BY DEF LayoutTypes
<1> HIDE DEF minSize
<1>5. /\ DOMAIN level(entry)[0] = {<< >>}
      /\ \A n \in 0 .. viewDepth' : GoodLevel(level(entry)[n], n)
      /\ \A n \in 1 .. viewDepth' : IsBelow(level(entry)[n], level(entry)[n - 1])
  BY <1>1, <1>3, <1>4, LevelsFacts
<1> HIDE DEF level
<1>6. /\ OldAreas(rootFile')
      /\ \A way \in DOMAIN rootFile' :
           LET inner == Inner(rootFile'[way].area)
               kids  == Below(rootFile', way)
           IN  kids # {} /\ ~ NoRoom(inner) =>
                 /\ \A w \in kids : Inside(rootFile'[w].area, inner)
                 /\ \A v, w \in kids : v # w => Apart(rootFile'[v].area, rootFile'[w].area)
                 /\ Total([w \in kids |-> Pixels(rootFile'[w].area)], kids) = Pixels(inner)
  BY <1>2, <1>5, LevelsDivide
<1>7. \A way : ChildrenOf(way)' = Below(rootFile', way)
  BY DEF ChildrenOf, Below
<1>8. AreaDivided'
  BY <1>6 DEF AreaDivided, HasRoom, ChildrenOf, Below
<1>9. WellNamed(rootFile', viewDepth')
  BY <1>2, <1>5, LevelsNamed
<1> QED
  BY <1>6, <1>8, <1>9

\* So both hold always, by induction: an update needs the types only.
LEMMA LayoutAlways == Spec => [](LayoutTypes /\ AreaDivided)
<1>1. Init => LayoutTypes /\ AreaDivided
  BY InitDivided
<1>2. LayoutTypes /\ AreaDivided /\ [Next]_vars => LayoutTypes' /\ AreaDivided'
  <2> SUFFICES ASSUME LayoutTypes, AreaDivided, [Next]_vars PROVE LayoutTypes' /\ AreaDivided'
    OBVIOUS
  <2>1. CASE Next
    <3>1. Change /\ Update(rootFile)
      BY <2>1 DEF Next
    <3>2. /\ FilesAre(files') /\ disk' \in [free : Nat, unknown : Nat]
          /\ viewDepth' \in Nat /\ viewRect' \in Area
      BY <3>1, ChangeKeepsTypes
    <3>3. OldAreas(rootFile') /\ WellNamed(rootFile', viewDepth') /\ AreaDivided'
      BY <3>1, <3>2, UpdateDivides
    <3> QED
      BY <3>2, <3>3 DEF LayoutTypes, FilesAre, OldAreas, WellNamed
  <2>2. CASE UNCHANGED vars
    BY <2>2 DEF vars, LayoutTypes, FilesAre, OldAreas, WellNamed, AreaDivided, HasRoom, ChildrenOf
  <2> QED
    BY <2>1, <2>2
<1> QED
  BY <1>1, <1>2, PTL DEF Spec

-----------------------------------------------------------------------------
(* The view of a path                                                         *)

\* The ways above a way
LEMMA AboveFacts ==
    ASSUME NEW way \in Seq(Nat), NEW n \in 0 .. Len(way)
    PROVE  /\ Above(way, n) \in Seq(Nat) /\ Len(Above(way, n)) = n
           /\ n = Len(way) => Above(way, n) = way
           /\ n = 0 => Above(way, n) = << >>
           /\ \A m \in 0 .. n : Above(Above(way, n), m) = Above(way, m)
           /\ n # 0 => /\ Above(way, n) # << >>
                       /\ Front(Above(way, n)) = Above(way, n - 1)
                       /\ Last(Above(way, n)) \in Nat
<1> DEFINE up == Above(way, n)
<1>1. Len(way) \in Nat /\ \A i \in 1 .. Len(way) : way[i] \in Nat
  OBVIOUS
<1>2. \A m \in 0 .. Len(way) : /\ Above(way, m) \in Seq(Nat) /\ Len(Above(way, m)) = m
                               /\ \A i \in 1 .. m : Above(way, m)[i] = way[i]
  <2> SUFFICES ASSUME NEW m \in 0 .. Len(way)
               PROVE  /\ Above(way, m) \in Seq(Nat) /\ Len(Above(way, m)) = m
                      /\ \A i \in 1 .. m : Above(way, m)[i] = way[i]
    OBVIOUS
  <2>1. \A i \in 1 .. m : way[i] \in Nat
    OBVIOUS
  <2> QED
    BY <1>1, <2>1, SubSeqProperties DEF Above
<1>3. up \in Seq(Nat) /\ Len(up) = n /\ \A i \in 1 .. n : up[i] = way[i]
  BY <1>2
<1> HIDE DEF up
<1>4. \A m \in 0 .. n : /\ Above(up, m) \in Seq(Nat) /\ Len(Above(up, m)) = m
                        /\ \A i \in 1 .. m : Above(up, m)[i] = up[i]
  <2> SUFFICES ASSUME NEW m \in 0 .. n
               PROVE  /\ Above(up, m) \in Seq(Nat) /\ Len(Above(up, m)) = m
                      /\ \A i \in 1 .. m : Above(up, m)[i] = up[i]
    OBVIOUS
  <2>1. \A i \in 1 .. m : up[i] \in Nat /\ i \in 1 .. Len(up)
    BY <1>1, <1>3
  <2> QED
    BY <1>3, <2>1, SubSeqProperties DEF Above
<1>5. ASSUME NEW m \in 0 .. n
      PROVE  Above(up, m) = Above(way, m)
  <2>1. m \in 0 .. Len(way) /\ 1 .. m \subseteq 1 .. n
    BY <1>1
  <2>2. \A i \in 1 .. m : Above(up, m)[i] = Above(way, m)[i]
    BY <1>2, <1>3, <1>4, <2>1
  <2> QED
    BY <1>2, <1>4, <2>1, <2>2, SeqEqual
<1>6. n = Len(way) => up = way
  <2>1. ASSUME n = Len(way)
        PROVE  up = way
    BY <1>3, <2>1, SeqEqual
  <2> QED
    BY <2>1
<1>7. n # 0 => up # << >> /\ Last(up) \in Nat
  BY <1>1, <1>3 DEF Last
<1>8. n # 0 => Front(up) = Above(way, n - 1)
  <2>1. Front(up) = Above(up, n - 1)
    BY <1>3 DEF Front, Above
  <2>2. n # 0 => n - 1 \in 0 .. n
    OBVIOUS
  <2> QED
    BY <1>5, <2>1, <2>2
<1>9. n = 0 => up = << >>
  BY <1>3
<1> QED
  BY <1>3, <1>5, <1>6, <1>7, <1>8, <1>9 DEF up

\* All views above one that is there are there, and have names.
LEMMA AboveIsShown ==
    ASSUME WellNamed(rootFile, viewDepth), viewDepth \in Nat, NEW way \in DOMAIN rootFile
    PROVE  /\ way \in Seq(Nat) /\ Len(way) \in Nat /\ Len(way) <= viewDepth
           /\ \A n \in 0 .. Len(way) : Above(way, n) \in DOMAIN rootFile
           /\ \A n \in 1 .. Len(way) - 1 : rootFile[Above(way, n)].name # ""
<1> DEFINE N == Len(way)
           T == {k \in 0 .. N : Above(way, N - k) \in DOMAIN rootFile}
<1>1. way \in Seq(Nat) /\ N <= viewDepth /\ N \in Nat
  <2>1. way \in Seq(Nat) /\ Len(way) <= viewDepth
    BY DEF WellNamed
  <2>2. Len(way) \in Nat
    BY <2>1
  <2> QED
    BY <2>1, <2>2
<1>2. \A w \in DOMAIN rootFile : w # << >> => /\ Front(w) \in DOMAIN rootFile
                                              /\ Front(w) # << >> => rootFile[Front(w)].name # ""
  BY DEF WellNamed
<1>3. 0 \in T
  <2>1. N \in 0 .. N /\ N - 0 = N /\ 0 \in 0 .. N
    BY <1>1
  <2> QED
    BY <1>1, <2>1, AboveFacts
<1>4. ASSUME NEW k \in 1 .. N, k - 1 \in T
      PROVE  k \in T
  <2> DEFINE n == N - (k - 1)
  <2>1. n \in 0 .. N /\ n # 0 /\ n - 1 = N - k /\ k \in 0 .. N
    BY <1>1
  <2>2. Above(way, n) \in DOMAIN rootFile
    BY <1>4
  <2> HIDE DEF n
  <2>3. Above(way, n) # << >> /\ Front(Above(way, n)) = Above(way, n - 1)
    BY <1>1, <2>1, AboveFacts
  <2>4. Above(way, n - 1) \in DOMAIN rootFile
    BY <1>2, <2>2, <2>3
  <2> QED
    BY <2>1, <2>4
<1> HIDE DEF T
<1>5. \A k \in 0 .. N : k \in T
  <2> HIDE DEF N
  <2> QED
    BY <1>1, <1>3, <1>4, AllUpTo
<1>6. ASSUME NEW n \in 0 .. N
      PROVE  Above(way, n) \in DOMAIN rootFile
  <2>1. N - n \in 0 .. N /\ N - (N - n) = n
    BY <1>1
  <2>2. N - n \in T
    BY <1>5, <2>1
  <2> QED
    BY <2>1, <2>2 DEF T
<1>7. ASSUME NEW n \in 1 .. N - 1
      PROVE  rootFile[Above(way, n)].name # ""
  <2> DEFINE m == n + 1
  <2>1. n \in 0 .. N /\ n # 0 /\ m \in 0 .. N /\ m # 0 /\ m - 1 = n
    BY <1>1
  <2> HIDE DEF m
  <2>2. Above(way, m) # << >> /\ Front(Above(way, m)) = Above(way, n)
    BY <1>1, <2>1, AboveFacts
  <2>3. Above(way, n) # << >>
    BY <1>1, <2>1, AboveFacts
  <2> QED
    BY <1>2, <1>6, <2>1, <2>2, <2>3
<1> QED
  BY <1>1, <1>6, <1>7

\* Below a view there is one of that name, if it is big enough.
LEMMA NamedIsAbove ==
    ASSUME WellNamed(rootFile, viewDepth), viewDepth \in Nat, NEW way \in DOMAIN rootFile,
           NEW n \in 1 .. Len(way)
    PROVE  rootFile[Above(way, n)].name # "" =>
             Named(Above(way, n - 1), rootFile[Above(way, n)].name)
               = IF BigEnough(rootFile[Above(way, n)].area) THEN {Above(way, n)} ELSE {}
<1> DEFINE u == Above(way, n)
<1>1. way \in Seq(Nat) /\ n \in 0 .. Len(way) /\ n # 0
  <2>1. way \in Seq(Nat) /\ Len(way) \in Nat
    BY AboveIsShown
  <2>2. Len(way) \in Nat
    BY <2>1
  <2> QED
    BY <2>1, <2>2
<1>2. u \in DOMAIN rootFile
  BY <1>1, AboveIsShown
<1>3. u # << >> /\ Front(u) = Above(way, n - 1)
  BY <1>1, AboveFacts
<1> HIDE DEF u
<1>4. rootFile[u].name # "" => \A w \in DOMAIN rootFile :
        w # << >> /\ Front(w) = Front(u) /\ rootFile[w].name = rootFile[u].name => w = u
  BY <1>2, <1>3 DEF WellNamed, u
<1> QED
  BY <1>2, <1>3, <1>4 DEF Named, ChildrenOf, u

\* From the root on the search can take only the views above the one looked for.
LEMMA ClosestIsFound == LayoutTypes => ClosestFound
<1>a. SUFFICES ASSUME LayoutTypes, NEW way \in DOMAIN rootFile,
                      rootFile[way].name # "" \/ way = << >>
               PROVE  Closest(NamesOn(way), viewDepth)
                      = Above(way, Max({n \in 0 .. Len(way) :
                            \A i \in 1 .. n : BigEnough(rootFile[Above(way, i)].area)}))
  BY DEF ClosestFound
<1> DEFINE N == Len(way)
           names == NamesOn(way)
           Big(n) == BigEnough(rootFile[Above(way, n)].area)
           big == {n \in 0 .. N : \A i \in 1 .. n : Big(i)}
           m == Max(big)
           IsClosest(c) ==
             /\ Len(c) <= Len(names) /\ Len(c) <= viewDepth
             /\ \A n \in 1 .. Len(c) : IsFirst(Above(c, n), Named(Above(c, n - 1), names[n]))
             /\ Len(c) < Len(names) /\ Len(c) < viewDepth => Named(c, names[Len(c) + 1]) = {}
<1>1. WellNamed(rootFile, viewDepth) /\ viewDepth \in Nat
  BY <1>a DEF LayoutTypes
<1>2. /\ way \in Seq(Nat)
      /\ \A n \in 0 .. N : Above(way, n) \in DOMAIN rootFile
  BY <1>1, AboveIsShown
<1>0. N \in Nat /\ N <= viewDepth
  BY <1>1, AboveIsShown
<1>3. Len(names) = N /\ \A n \in 1 .. N : names[n] = rootFile[Above(way, n)].name
  <2>1. names = [n \in 1 .. N |-> rootFile[Above(way, n)].name]
    BY <1>0, <1>2 DEF NamesOn
  <2> HIDE DEF names
  <2> QED
    BY <1>0, <1>2, <2>1
<1>4. \A n \in 1 .. N : names[n] # ""
  <2>1. \A n \in 1 .. N - 1 : rootFile[Above(way, n)].name # ""
    BY <1>1, AboveIsShown
  <2>2. N # 0 => way # << >> /\ Above(way, N) = way
    BY <1>0, <1>2, AboveFacts
  <2>3. \A n \in 1 .. N : n \in 1 .. N - 1 \/ (n = N /\ N # 0)
    BY <1>0, <1>2
  <2> HIDE DEF N, names
  <2> QED
    BY <1>a, <1>3, <2>1, <2>2, <2>3
<1>5. \A n \in 1 .. N : Named(Above(way, n - 1), names[n]) = IF Big(n) THEN {Above(way, n)} ELSE {}
  BY <1>1, <1>3, <1>4, NamedIsAbove
<1>6. /\ m \in 0 .. N /\ \A n \in 1 .. m : Big(n)
      /\ m < N => ~ Big(m + 1)
  <2> HIDE DEF Big
  <2>1. 0 \in big /\ big \in SUBSET (0 .. N) /\ N \in Int
    BY <1>0, <1>2
  <2>2. m \in big /\ \A k \in big : k <= m
    <3> HIDE DEF big, N
    <3>1. big # {} /\ 0 \in Int
      BY <2>1
    <3> QED
      BY <2>1, <3>1, MaxOfRange
  <2>3. ASSUME m < N, Big(m + 1)
        PROVE  FALSE
    <3> HIDE DEF m
    <3>1. m \in 0 .. N /\ \A i \in 1 .. m : Big(i)
      BY <2>2
    <3>2. m + 1 \in 0 .. N /\ \A i \in 1 .. m + 1 : i \in 1 .. m \/ i = m + 1
      BY <1>0, <1>2, <2>3, <3>1
    <3>3. m + 1 \in big
      BY <2>3, <3>1, <3>2
    <3> HIDE DEF big
    <3>4. m + 1 <= m
      BY <2>2, <3>3
    <3> QED
      BY <3>1, <3>4
  <2> QED
    BY <2>2, <2>3
<1> HIDE DEF N, names, Big, big, m
<1>7. Above(way, m) \in DOMAIN rootFile /\ IsClosest(Above(way, m))
  <2> DEFINE c == Above(way, m)
  <2>1. c \in DOMAIN rootFile /\ Len(c) = m /\ m \in Nat
    BY <1>0, <1>2, <1>6, AboveFacts DEF N
  <2>2. \A n \in 0 .. m : Above(c, n) = Above(way, n)
    BY <1>0, <1>2, <1>6, AboveFacts DEF N
  <2> HIDE DEF c
  <2>3. ASSUME NEW n \in 1 .. m
        PROVE  IsFirst(Above(c, n), Named(Above(c, n - 1), names[n]))
    <3>1. n \in 0 .. m /\ n - 1 \in 0 .. m /\ n \in 1 .. N /\ n \in 0 .. N /\ n # 0
      BY <1>0, <1>2, <1>6
    <3>2. Named(Above(c, n - 1), names[n]) = {Above(c, n)}
      BY <1>5, <1>6, <2>2, <3>1
    <3>3. Last(Above(c, n)) \in Nat
      BY <1>0, <1>2, <2>2, <3>1, AboveFacts DEF N
    <3> QED
      BY <3>2, <3>3 DEF IsFirst
  <2>4. m < N => Named(c, names[m + 1]) = {}
    <3>1. ASSUME m < N
          PROVE  Named(c, names[m + 1]) = {}
      <4>1. m + 1 \in 1 .. N /\ (m + 1) - 1 = m
        BY <1>0, <1>2, <1>6, <3>1
      <4> QED
        BY <1>5, <1>6, <3>1, <4>1 DEF c
    <3> QED
      BY <3>1
  <2>5. m <= N /\ m <= viewDepth
    BY <1>1, <1>0, <1>2, <1>6
  <2> QED
    BY <1>3, <2>1, <2>3, <2>4, <2>5 DEF c
<1>8. ASSUME NEW c \in DOMAIN rootFile, IsClosest(c)
      PROVE  c = Above(way, m)
  <2> DEFINE L == Len(c)
             T == {n \in 0 .. L : n <= m /\ Above(c, n) = Above(way, n)}
  <2>1. /\ c \in Seq(Nat) /\ L \in Nat /\ L <= N /\ L <= viewDepth
        /\ \A n \in 1 .. L : IsFirst(Above(c, n), Named(Above(c, n - 1), names[n]))
        /\ L < N /\ L < viewDepth => Named(c, names[L + 1]) = {}
    BY <1>1, <1>3, <1>8, AboveIsShown
  <2> HIDE DEF L, IsClosest
  <2>2. 0 \in T
    <3>1. 0 \in 0 .. Len(c) /\ 0 \in 0 .. Len(way)
      BY <1>0, <1>2, <2>1 DEF L, N
    <3>2. Above(c, 0) = << >> /\ Above(way, 0) = << >>
      BY <1>0, <1>2, <2>1, <3>1, AboveFacts
    <3> QED
      BY <1>6, <3>1, <3>2 DEF L
  <2>3. ASSUME NEW n \in 1 .. L, n - 1 \in T
        PROVE  n \in T
    <3>1. n \in 1 .. N /\ n \in 0 .. L
      BY <1>0, <1>2, <2>1
    <3>2. Above(c, n - 1) = Above(way, n - 1) /\ n - 1 <= m
      BY <2>3
    <3>3. Above(c, n) \in Named(Above(way, n - 1), names[n])
      BY <2>1, <3>2 DEF IsFirst
    <3>4. Above(c, n) = Above(way, n) /\ Big(n)
      <4>1. Named(Above(way, n - 1), names[n]) = IF Big(n) THEN {Above(way, n)} ELSE {}
        BY <1>5, <3>1
      <4>2. CASE Big(n)
        BY <3>3, <4>1, <4>2
      <4>3. CASE ~ Big(n)
        BY <3>3, <4>1, <4>3
      <4> QED
        BY <4>2, <4>3
    <3>5. n <= m
      BY <1>0, <1>2, <1>6, <3>1, <3>2, <3>4
    <3> QED
      BY <3>1, <3>4, <3>5
  <2> HIDE DEF T
  <2>4. \A n \in 0 .. L : n \in T
    BY <2>1, <2>2, <2>3, AllUpTo
  <2>5. L <= m /\ Above(c, L) = Above(way, L)
    <3>1. L \in T
      BY <2>1, <2>4
    <3> QED
      BY <3>1 DEF T
  <2>6. Above(c, L) = c
    BY <2>1, AboveFacts DEF L
  <2>7. ASSUME L < m
        PROVE  FALSE
    <3>1. L + 1 \in 1 .. N /\ L + 1 \in 1 .. m /\ (L + 1) - 1 = L /\ L < N /\ L < viewDepth
      BY <1>1, <1>0, <1>2, <1>6, <2>1, <2>7
    <3>2. Named(c, names[L + 1]) = {Above(way, L + 1)}
      BY <1>5, <1>6, <2>5, <2>6, <3>1
    <3> QED
      BY <2>1, <3>1, <3>2
  <2>8. L = m
    BY <1>6, <2>1, <2>5, <2>7
  <2> QED
    BY <2>5, <2>6, <2>8
<1>9. Closest(names, viewDepth) = CHOOSE c \in DOMAIN rootFile : IsClosest(c)
  BY DEF Closest
<1> HIDE DEF IsClosest
<1>10. (CHOOSE c \in DOMAIN rootFile : IsClosest(c)) = Above(way, m)
  BY <1>7, <1>8
<1> QED
  BY <1>9, <1>10 DEF m, big, Big, N, names

\* Every directory with room for its children is divided among them exactly: no two overlap,
\* none sticks out, and no pixel is lost to the rounding of allocate_children.
THEOREM AreaDividedAlways == Spec => []AreaDivided
<1>1. LayoutTypes /\ AreaDivided => AreaDivided
  OBVIOUS
<1> QED
  BY <1>1, LayoutAlways, PTL

\* From the path of an entry getClosestView finds its view, or the last above it that is big
\* enough: no other view has the name, and there are none below one that is missing.
THEOREM ClosestAlwaysFound == Spec => []ClosestFound
<1>1. LayoutTypes /\ AreaDivided => ClosestFound
  BY ClosestIsFound
<1> QED
  BY <1>1, LayoutAlways, PTL
=============================================================================
