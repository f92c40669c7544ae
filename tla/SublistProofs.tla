---------------------------- MODULE SublistProofs ----------------------------
(* Lemmas about sublists, sequences and sums, for all of them.                *)
EXTENDS Sublists, FiniteSetTheorems, SequenceTheorems, WellFoundedInduction, TLAPS

-----------------------------------------------------------------------------
(* Nth and Pick *)

\* How many positions of K are at or before i
Rank(K, i) == Cardinality({j \in K : j <= i})

\* Ranks are numbers from 1 to the size of K, and no two positions have the same.
LEMMA RankInjection ==
    ASSUME NEW m \in Nat, NEW K \in SUBSET (1 .. m)
    PROVE  /\ IsFiniteSet(K)
           /\ [i \in K |-> Rank(K, i)] \in Injection(K, 1 .. Cardinality(K))
<1> DEFINE below(i) == {j \in K : j <= i}
<1>1. IsFiniteSet(K)
  <2>1. IsFiniteSet(1 .. m)
    BY FS_Interval
  <2> QED
    BY <2>1, FS_Subset
<1>2. ASSUME NEW i \in K
      PROVE  Rank(K, i) \in 1 .. Cardinality(K)
  <2>1. /\ IsFiniteSet(below(i))
        /\ Cardinality(below(i)) <= Cardinality(K)
        /\ Cardinality(below(i)) \in Nat
        /\ Cardinality(K) \in Nat
    BY <1>1, FS_Subset, FS_CardinalityType
  <2>2. i \in below(i)
    OBVIOUS
  <2>3. Cardinality(below(i)) # 0
    BY <2>1, <2>2, FS_EmptySet
  <2> QED
    BY <2>1, <2>3 DEF Rank
<1>3. ASSUME NEW i \in K, NEW k \in K, i < k
      PROVE  Rank(K, i) # Rank(K, k)
  <2>1. IsFiniteSet(below(k))
    BY <1>1, FS_Subset
  <2>2. below(i) \in SUBSET below(k)
    <3>1. \A j \in K : j \in Int
      OBVIOUS
    <3>2. \A j \in K : j <= i => j <= k
      BY <1>3, <3>1
    <3> QED
      BY <3>2
  <2>3. k \in below(k) /\ k \notin below(i)
    BY <1>3
  <2> QED
    BY <2>1, <2>2, <2>3, FS_Subset DEF Rank
<1>4. ASSUME NEW i \in K, NEW k \in K, Rank(K, i) = Rank(K, k)
      PROVE  i = k
  <2>1. i \in Int /\ k \in Int
    OBVIOUS
  <2> QED
    BY <1>3, <1>4, <2>1
<1>5. [i \in K |-> Rank(K, i)] \in [K -> 1 .. Cardinality(K)]
  BY <1>2
<1>6. IsInjective([i \in K |-> Rank(K, i)])
  BY <1>4 DEF IsInjective
<1> QED
  BY <1>1, <1>5, <1>6 DEF Injection

\* Nth(K, n) is the position in K of rank n.
LEMMA NthRank ==
    ASSUME NEW m \in Nat, NEW K \in SUBSET (1 .. m), NEW n \in 1 .. Cardinality(K)
    PROVE  Nth(K, n) \in K /\ Rank(K, Nth(K, n)) = n
<1> DEFINE N == 1 .. Cardinality(K)
           rank == [i \in K |-> Rank(K, i)]
<1>1. IsFiniteSet(K) /\ rank \in Injection(K, N)
  BY RankInjection
<1>2. Cardinality(K) \in Nat
  BY <1>1, FS_CardinalityType
<1>3. rank \in Surjection(K, N)
  BY <1>1, <1>2, FS_Interval, FS_Injection
<1>4. \E i \in K : Rank(K, i) = n
  BY <1>3 DEF Surjection
<1> QED
  BY <1>4 DEF Nth, Rank

\* Nth(K, n) is a position in K, and a different one for each n; and every
\* position in K is one of them.
LEMMA NthProperties ==
    ASSUME NEW m \in Nat, NEW K \in SUBSET (1 .. m)
    PROVE  /\ Cardinality(K) \in Nat
           /\ \A n \in 1 .. Cardinality(K) : Nth(K, n) \in K
           /\ \A n, k \in 1 .. Cardinality(K) : Nth(K, n) = Nth(K, k) => n = k
           /\ \A i \in K : \E n \in 1 .. Cardinality(K) : Nth(K, n) = i
<1> DEFINE N == 1 .. Cardinality(K)
           rank == [i \in K |-> Rank(K, i)]
<1>1. /\ IsFiniteSet(K)
      /\ rank \in Injection(K, N)
  BY RankInjection
<1>2. Cardinality(K) \in Nat
  BY <1>1, FS_CardinalityType
<1>5. ASSUME NEW n \in N
      PROVE  Nth(K, n) \in K /\ Rank(K, Nth(K, n)) = n
  BY NthRank
<1>6. ASSUME NEW i \in K
      PROVE  Rank(K, i) \in N /\ Nth(K, Rank(K, i)) = i
  <2>1. Rank(K, i) \in N
    BY <1>1 DEF Injection
  <2>2. Rank(K, Nth(K, Rank(K, i))) = Rank(K, i) /\ Nth(K, Rank(K, i)) \in K
    BY <1>5, <2>1
  <2> QED
    BY <1>1, <2>1, <2>2 DEF Injection, IsInjective
<1> QED
  BY <1>2, <1>5, <1>6

\* Positions come in their order.
LEMMA NthOrder ==
    ASSUME NEW m \in Nat, NEW K \in SUBSET (1 .. m),
           NEW n \in 1 .. Cardinality(K), NEW k \in 1 .. Cardinality(K), n < k
    PROVE  Nth(K, n) < Nth(K, k)
<1> DEFINE i == Nth(K, n)
           j == Nth(K, k)
           upTo(x) == {y \in K : y <= x}
<1>1. i \in K /\ j \in K /\ Rank(K, i) = n /\ Rank(K, j) = k
  BY NthRank
<1> HIDE DEF i, j
<1>2. i \in Int /\ j \in Int /\ \A y \in K : y \in Int
  BY <1>1
<1>3. ASSUME j <= i
      PROVE  FALSE
  <2>1. upTo(j) \in SUBSET upTo(i)
    <3>1. \A y \in K : y <= j => y <= i
      BY <1>2, <1>3
    <3> QED
      BY <3>1
  <2>2. IsFiniteSet(upTo(i))
    <3>1. IsFiniteSet(K)
      BY RankInjection
    <3> QED
      BY <3>1, FS_Subset
  <2>3. Cardinality(upTo(j)) <= Cardinality(upTo(i))
    BY <2>1, <2>2, FS_Subset
  <2>4. Cardinality(upTo(i)) = n /\ Cardinality(upTo(j)) = k
    BY <1>1 DEF Rank
  <2> HIDE DEF upTo
  <2> QED
    BY <2>3, <2>4
<1>4. i < j
  BY <1>2, <1>3
<1> QED
  BY <1>4 DEF i, j

\* A set of positions that is not empty has a first one.
LEMMA MinIsMember ==
    ASSUME NEW m \in Nat, NEW K \in SUBSET (1 .. m), K # {}
    PROVE  Min(K) \in K
<1> DEFINE N == 1 .. Cardinality(K)
           rank == [i \in K |-> Rank(K, i)]
<1>1. IsFiniteSet(K) /\ rank \in Injection(K, N)
  BY RankInjection
<1>2. Cardinality(K) \in Nat /\ Cardinality(K) # 0
  BY <1>1, FS_CardinalityType, FS_EmptySet
<1>3. rank \in Surjection(K, N)
  BY <1>1, <1>2, FS_Interval, FS_Injection
<1>4. 1 \in N
  BY <1>2
<1>5. PICK i \in K : Rank(K, i) = 1
  BY <1>3, <1>4 DEF Surjection
<1>6. PICK x : {j \in K : j <= i} = {x}
  <2>1. IsFiniteSet({j \in K : j <= i})
    BY <1>1, FS_Subset
  <2> QED
    BY <1>5, <2>1, FS_Singleton DEF Rank
<1>7. \A j \in K : j \in Int
  OBVIOUS
<1>8. i \in {j \in K : j <= i}
  BY <1>5, <1>7
<1>9. \A j \in K : i <= j
  BY <1>6, <1>7, <1>8
<1>10. \E k \in K : \A j \in K : k <= j
  BY <1>9
<1> QED
  BY <1>10 DEF Min

\* Pick(q, K) has the items of q at the positions K, each once.
LEMMA PickProperties ==
    ASSUME NEW S, NEW q \in Seq(S), NEW K \in SUBSET DOMAIN q
    PROVE  /\ Pick(q, K) \in Seq(S)
           /\ Len(Pick(q, K)) = Cardinality(K)
           /\ Cardinality(K) \in Nat
           /\ \A n \in 1 .. Cardinality(K) :
                Nth(K, n) \in K /\ Pick(q, K)[n] = q[Nth(K, n)]
           /\ \A n, k \in 1 .. Cardinality(K) : Nth(K, n) = Nth(K, k) => n = k
           /\ \A i \in K : \E n \in 1 .. Cardinality(K) : Nth(K, n) = i
<1>1. Len(q) \in Nat /\ DOMAIN q = 1 .. Len(q)
  OBVIOUS
<1>2. /\ Cardinality(K) \in Nat
      /\ \A n \in 1 .. Cardinality(K) : Nth(K, n) \in K
      /\ \A n, k \in 1 .. Cardinality(K) : Nth(K, n) = Nth(K, k) => n = k
      /\ \A i \in K : \E n \in 1 .. Cardinality(K) : Nth(K, n) = i
  BY <1>1, NthProperties
<1>3. \A n \in 1 .. Cardinality(K) : q[Nth(K, n)] \in S
  BY <1>1, <1>2, ElementOfSeq
<1>4. Pick(q, K) \in [1 .. Cardinality(K) -> S]
  BY <1>3 DEF Pick
<1>5. Pick(q, K) \in Seq(S) /\ Len(Pick(q, K)) = Cardinality(K)
  BY <1>2, <1>4
<1> QED
  BY <1>2, <1>5 DEF Pick

-----------------------------------------------------------------------------
(* Sequences *)

\* Reverse(s) has the items of s, from the last to the first.
LEMMA ReversedSeq ==
    ASSUME NEW S, NEW s \in Seq(S)
    PROVE  /\ Reverse(s) \in Seq(S)
           /\ Len(Reverse(s)) = Len(s)
           /\ \A i \in 1 .. Len(s) :
                Len(s) - i + 1 \in 1 .. Len(s) /\ Reverse(s)[i] = s[Len(s) - i + 1]
<1>1. Len(s) \in Nat /\ \A i \in 1 .. Len(s) : s[i] \in S
  OBVIOUS
<1>2. \A i \in 1 .. Len(s) : (Len(s) - i) + 1 \in 1 .. Len(s)
  BY <1>1
<1>3. Reverse(s) \in [1 .. Len(s) -> S]
  BY <1>1, <1>2 DEF Reverse
<1>4. Reverse(s) \in Seq(S) /\ Len(Reverse(s)) = Len(s)
  BY <1>1, <1>3
<1> QED
  BY <1>2, <1>4 DEF Reverse

\* The items of s \o t are those of s and those of t.
LEMMA ConcatItems ==
    ASSUME NEW S, NEW s \in Seq(S), NEW t \in Seq(S)
    PROVE  /\ s \o t \in Seq(S)
           /\ \A i \in DOMAIN (s \o t) :
                \/ i \in DOMAIN s /\ (s \o t)[i] = s[i]
                \/ i - Len(s) \in DOMAIN t /\ (s \o t)[i] = t[i - Len(s)]
           /\ \A i \in DOMAIN s : i \in DOMAIN (s \o t) /\ (s \o t)[i] = s[i]
           /\ \A i \in DOMAIN t :
                i + Len(s) \in DOMAIN (s \o t) /\ (s \o t)[i + Len(s)] = t[i]
<1>1. /\ Len(s) \in Nat /\ DOMAIN s = 1 .. Len(s)
      /\ Len(t) \in Nat /\ DOMAIN t = 1 .. Len(t)
  OBVIOUS
<1>2. /\ s \o t \in Seq(S)
      /\ Len(s \o t) = Len(s) + Len(t)
      /\ \A i \in 1 .. Len(s) + Len(t) :
            (s \o t)[i] = IF i <= Len(s) THEN s[i] ELSE t[i - Len(s)]
  BY ConcatProperties
<1>3. DOMAIN (s \o t) = 1 .. Len(s) + Len(t)
  BY <1>2
<1> QED
  BY <1>1, <1>2, <1>3

LEMMA ConcatToSet ==
    ASSUME NEW S, NEW s \in Seq(S), NEW t \in Seq(S)
    PROVE  s \o t \in Seq(S) /\ ToSet(s \o t) = ToSet(s) \union ToSet(t)
<1>1. /\ s \o t \in Seq(S)
      /\ \A i \in DOMAIN (s \o t) :
           \/ i \in DOMAIN s /\ (s \o t)[i] = s[i]
           \/ i - Len(s) \in DOMAIN t /\ (s \o t)[i] = t[i - Len(s)]
  BY ConcatItems
<1>2. \A i \in DOMAIN s : i \in DOMAIN (s \o t) /\ (s \o t)[i] = s[i]
  BY ConcatItems
<1>3. \A i \in DOMAIN t : i + Len(s) \in DOMAIN (s \o t) /\ (s \o t)[i + Len(s)] = t[i]
  BY ConcatItems
<1>4. ToSet(s \o t) \subseteq ToSet(s) \union ToSet(t)
  BY <1>1 DEF ToSet
<1>5. ToSet(s) \subseteq ToSet(s \o t) /\ ToSet(t) \subseteq ToSet(s \o t)
  BY <1>2, <1>3 DEF ToSet
<1> QED
  BY <1>1, <1>4, <1>5

LEMMA HeadToSet ==
    ASSUME NEW S, NEW s \in Seq(S), s # << >>
    PROVE  ToSet(s) = {Head(s)} \union ToSet(Tail(s))
<1>1. /\ Len(s) \in Nat /\ DOMAIN s = 1 .. Len(s) /\ Len(s) > 0
      /\ Head(s) = s[1]
      /\ DOMAIN Tail(s) = 1 .. Len(s) - 1
      /\ \A i \in DOMAIN Tail(s) : i + 1 \in DOMAIN s /\ Tail(s)[i] = s[i + 1]
  OBVIOUS
<1>2. \A i \in DOMAIN s : i = 1 \/ (i - 1 \in DOMAIN Tail(s) /\ Tail(s)[i - 1] = s[i])
  BY <1>1
<1>3. ToSet(s) \subseteq {Head(s)} \union ToSet(Tail(s))
  <2>1. \A i \in DOMAIN s : s[i] = Head(s) \/ \E j \in DOMAIN Tail(s) : Tail(s)[j] = s[i]
    BY <1>1, <1>2
  <2> QED
    BY <2>1 DEF ToSet
<1>4. 1 \in DOMAIN s
  BY <1>1
<1> QED
  BY <1>1, <1>3, <1>4 DEF ToSet

LEMMA AppendToSet ==
    ASSUME NEW S, NEW s \in Seq(S), NEW x \in S
    PROVE  ToSet(Append(s, x)) = ToSet(s) \union {x}
<1>1. /\ Len(s) \in Nat /\ DOMAIN s = 1 .. Len(s)
      /\ DOMAIN Append(s, x) = 1 .. Len(s) + 1
      /\ \A i \in DOMAIN s : i \in DOMAIN Append(s, x) /\ Append(s, x)[i] = s[i]
      /\ Append(s, x)[Len(s) + 1] = x
  OBVIOUS
<1>2. Len(s) + 1 \in DOMAIN Append(s, x)
  BY <1>1
<1>3. \A i \in DOMAIN Append(s, x) : i \in DOMAIN s \/ i = Len(s) + 1
  BY <1>1
<1>4. ToSet(Append(s, x)) \subseteq ToSet(s) \union {x}
  BY <1>1, <1>3 DEF ToSet
<1>5. ToSet(s) \union {x} \subseteq ToSet(Append(s, x))
  BY <1>1, <1>2 DEF ToSet
<1> QED
  BY <1>4, <1>5

LEMMA ReversedItems ==
    ASSUME NEW S, NEW s \in Seq(S)
    PROVE  ToSet(Reverse(s)) = ToSet(s)
<1>1. /\ Reverse(s) \in Seq(S)
      /\ Len(Reverse(s)) = Len(s)
      /\ \A i \in 1 .. Len(s) :
           Len(s) - i + 1 \in 1 .. Len(s) /\ Reverse(s)[i] = s[Len(s) - i + 1]
  BY ReversedSeq
<1>2. DOMAIN Reverse(s) = 1 .. Len(s) /\ DOMAIN s = 1 .. Len(s) /\ Len(s) \in Nat
  BY <1>1
<1>3. \A i \in 1 .. Len(s) : Len(s) - (Len(s) - i + 1) + 1 = i
  BY <1>2
<1>4. \A i \in 1 .. Len(s) : Reverse(s)[Len(s) - i + 1] = s[i]
  BY <1>1, <1>3
<1>5. ToSet(Reverse(s)) \subseteq ToSet(s)
  BY <1>1, <1>2 DEF ToSet
<1>6. ASSUME NEW i \in 1 .. Len(s)
      PROVE  \E k \in DOMAIN Reverse(s) : Reverse(s)[k] = s[i]
  BY <1>1, <1>2, <1>4
<1>7. ToSet(s) \subseteq ToSet(Reverse(s))
  BY <1>2, <1>6 DEF ToSet
<1> QED
  BY <1>5, <1>7

LEMMA PickItems ==
    ASSUME NEW S, NEW q \in Seq(S), NEW K \in SUBSET DOMAIN q
    PROVE  ToSet(Pick(q, K)) = {q[i] : i \in K}
<1>1. /\ DOMAIN Pick(q, K) = 1 .. Cardinality(K)
      /\ \A n \in 1 .. Cardinality(K) :
           Nth(K, n) \in K /\ Pick(q, K)[n] = q[Nth(K, n)]
      /\ \A i \in K : \E n \in 1 .. Cardinality(K) : Nth(K, n) = i
  <2>1. /\ Pick(q, K) \in Seq(S)
        /\ Len(Pick(q, K)) = Cardinality(K)
    BY PickProperties
  <2>2. DOMAIN Pick(q, K) = 1 .. Cardinality(K)
    BY <2>1
  <2> QED
    BY <2>2, PickProperties
<1> QED
  BY <1>1 DEF ToSet

LEMMA PrefixPointwise ==
    ASSUME NEW S, NEW s \in Seq(S), NEW t \in Seq(S)
    PROVE  IsPrefix(s, t) <=>
             /\ Len(s) <= Len(t)
             /\ \A i \in 1 .. Len(s) : s[i] = t[i]
<1>1. Len(s) \in Nat /\ Len(t) \in Nat
  OBVIOUS
<1>2. SubSeq(s, 1, Len(s)) = s
  OBVIOUS
<1>3. ASSUME Len(s) <= Len(t)
      PROVE  /\ SubSeq(t, 1, Len(s)) \in Seq(S)
             /\ Len(SubSeq(t, 1, Len(s))) = Len(s)
             /\ \A i \in 1 .. Len(s) : SubSeq(t, 1, Len(s))[i] = t[i]
  BY <1>1, <1>3, SubSeqProperties
<1>4. ASSUME Len(s) <= Len(t), \A i \in 1 .. Len(s) : s[i] = t[i]
      PROVE  SubSeq(t, 1, Len(s)) = s
  BY <1>3, <1>4, SeqEqual
<1> QED
  BY <1>1, <1>2, <1>3, <1>4 DEF IsPrefix

-----------------------------------------------------------------------------
(* Sums. The fold that Total is defined by is a recursive function on the     *)
(* subsets of a set. What it is at a set follows from what it is at smaller   *)
(* ones, and so is proved by way of a smallest counterexample.                *)

LEMMA Least ==
    ASSUME NEW T \in SUBSET Nat, T # {}
    PROVE  \E x \in T : \A y \in T : x <= y
<1> DEFINE R == OpToRel(<, Nat)
<1>1. IsWellFoundedOn(R, Nat)
  BY NatLessThanWellFounded
<1> HIDE DEF R
<1>2. PICK x \in T : \A y \in T : ~ (<<y, x>> \in R)
  BY <1>1, WFMin
<1>3. \A y \in T : ~ (y < x)
  BY <1>2 DEF R, OpToRel
<1> QED
  BY <1>3

\* Of any family of finite sets, one has none of those it is when a member is taken out.
LEMMA Smallest ==
    ASSUME NEW S, IsFiniteSet(S), NEW B \in SUBSET SUBSET S, B # {}
    PROVE  \E s \in B : \A x \in s : s \ {x} \notin B
<1>1. \A s \in B : IsFiniteSet(s) /\ Cardinality(s) \in Nat
  BY FS_Subset, FS_CardinalityType
<1> DEFINE T == {Cardinality(s) : s \in B}
<1>2. T \in SUBSET Nat /\ T # {}
  BY <1>1
<1> HIDE DEF T
<1>3. PICK n \in T : \A k \in T : n <= k
  BY <1>2, Least
<1>4. PICK s \in B : n = Cardinality(s)
  BY DEF T
<1>5. ASSUME NEW x \in s, s \ {x} \in B
      PROVE  FALSE
  <2>1. Cardinality(s \ {x}) = Cardinality(s) - 1
    BY <1>1, FS_RemoveElement
  <2>2. Cardinality(s \ {x}) \in T
    BY <1>5 DEF T
  <2> QED
    BY <1>1, <1>3, <1>4, <2>1, <2>2
<1> QED
  BY <1>5

Chosen(s) == CHOOSE x \in s : TRUE

\* g gives for each set in D the sum of f over it.
Sums(f, D, g) == g = [s \in D |-> IF s = {} THEN 0 ELSE f[Chosen(s)] + g[s \ {Chosen(s)}]]

Valued(f, S) == \A x \in S : f[x] \in Int
Same(f, e, S) == \A x \in S : f[x] = e[x]

\* g gives for each part of S the sum of f over it.
IsSum(f, S, g) == Sums(f, SUBSET S, g)

LEMMA TotalIsSum ==
    ASSUME NEW f, NEW S
    PROVE  Total(f, S) = (CHOOSE g : IsSum(f, S, g))[S]
  BY DEF Total, MapThenSumSet, MapThenFoldSet, IsSum, Sums, Chosen

LEMMA SumsExist ==
    ASSUME NEW f, NEW S, IsFiniteSet(S)
    PROVE  \E g : IsSum(f, S, g)
<1> DEFINE UpTo(n) == {s \in SUBSET S : Cardinality(s) <= n}
           Bad == {n \in Nat : ~ \E g : Sums(f, UpTo(n), g)}
<1>1. \A s \in SUBSET S : IsFiniteSet(s) /\ Cardinality(s) \in Nat /\ Cardinality(s) <= Cardinality(S)
  BY FS_Subset, FS_CardinalityType
<1>2. Bad = {}
  <2> SUFFICES ASSUME Bad # {} PROVE FALSE
    OBVIOUS
  <2>1. PICK n \in Bad : \A k \in Bad : n <= k
    <3>1. Bad \in SUBSET Nat
      OBVIOUS
    <3> HIDE DEF Bad
    <3> QED
      BY <3>1, Least
  <2>2. n \in Nat /\ ~ \E g : Sums(f, UpTo(n), g)
    OBVIOUS
  <2>3. CASE n = 0
    <3>1. \A s \in UpTo(n) : s = {}
      BY <1>1, <2>3, FS_EmptySet
    <3>2. Sums(f, UpTo(n), [s \in UpTo(n) |-> 0])
      BY <3>1 DEF Sums
    <3> QED
      BY <2>2, <3>2
  <2>4. CASE n # 0
    <3>1. n - 1 \in Nat /\ n - 1 \notin Bad
      <4> HIDE DEF Bad
      <4> QED
        BY <2>1, <2>2, <2>4
    <3>2. PICK g : Sums(f, UpTo(n - 1), g)
      BY <3>1
    <3> DEFINE h == [s \in UpTo(n) |-> IF s = {} THEN 0 ELSE f[Chosen(s)] + g[s \ {Chosen(s)}]]
    <3>3. UpTo(n - 1) \subseteq UpTo(n)
      BY <1>1, <2>2
    <3>4. \A s \in UpTo(n - 1) : h[s] = g[s]
      <4> HIDE DEF UpTo
      <4> QED
        BY <3>2, <3>3 DEF Sums
    <3>5. ASSUME NEW s \in UpTo(n), s # {}
          PROVE  s \ {Chosen(s)} \in UpTo(n - 1)
      <4>1. Chosen(s) \in s
        BY <3>5 DEF Chosen
      <4>2. Cardinality(s \ {Chosen(s)}) = Cardinality(s) - 1
        BY <1>1, <4>1, FS_RemoveElement
      <4> QED
        BY <1>1, <2>2, <4>2
    <3>6. \A s \in UpTo(n) : h[s] = IF s = {} THEN 0 ELSE f[Chosen(s)] + h[s \ {Chosen(s)}]
      <4> HIDE DEF UpTo
      <4>1. \A s \in UpTo(n) : s # {} => h[s \ {Chosen(s)}] = g[s \ {Chosen(s)}]
        BY <3>4, <3>5
      <4> QED
        BY <4>1
    <3>7. h = [s \in UpTo(n) |-> h[s]]
      OBVIOUS
    <3> HIDE DEF h, UpTo
    <3>8. Sums(f, UpTo(n), h)
      BY <3>6, <3>7 DEF Sums
    <3> QED
      BY <2>2, <3>8
  <2> QED
    BY <2>3, <2>4
<1>3. Cardinality(S) \in Nat /\ UpTo(Cardinality(S)) = SUBSET S
  BY <1>1, FS_CardinalityType
<1>4. \E g : Sums(f, UpTo(Cardinality(S)), g)
  BY <1>2, <1>3
<1> HIDE DEF UpTo
<1> QED
  BY <1>3, <1>4 DEF IsSum

LEMMA SumsStep ==
    ASSUME NEW f, NEW S, NEW g, IsSum(f, S, g)
    PROVE  /\ g[{}] = 0
           /\ \A s \in SUBSET S : s # {} => /\ Chosen(s) \in s
                                            /\ g[s] = f[Chosen(s)] + g[s \ {Chosen(s)}]
<1>1. \A s \in SUBSET S : g[s] = IF s = {} THEN 0 ELSE f[Chosen(s)] + g[s \ {Chosen(s)}]
  BY DEF IsSum, Sums
<1>2. \A s : s # {} => Chosen(s) \in s
  BY DEF Chosen
<1> QED
  BY <1>1, <1>2

\* The sum over a set depends on nothing else.
LEMMA SumsAgree ==
    ASSUME NEW S, IsFiniteSet(S), NEW T \in SUBSET S, NEW f, NEW e,
           Same(f, e, T),
           NEW g, IsSum(f, S, g), NEW h, IsSum(e, T, h)
    PROVE  \A s \in SUBSET T : g[s] = h[s]
<1>4. /\ g[{}] = 0
      /\ \A s \in SUBSET S : s # {} => /\ Chosen(s) \in s
                                       /\ g[s] = f[Chosen(s)] + g[s \ {Chosen(s)}]
  BY SumsStep
<1>5. /\ h[{}] = 0
      /\ \A s \in SUBSET T : s # {} => /\ Chosen(s) \in s
                                       /\ h[s] = e[Chosen(s)] + h[s \ {Chosen(s)}]
  BY SumsStep
<1> DEFINE B == {s \in SUBSET T : g[s] # h[s]}
<1>1. B \in SUBSET SUBSET S
  OBVIOUS
<1>2. ASSUME NEW s \in B, \A x \in s : s \ {x} \notin B
      PROVE  FALSE
  <2>1. s \in SUBSET T /\ s \in SUBSET S /\ g[s] # h[s]
    OBVIOUS
  <2>2. s # {}
    BY <1>4, <1>5, <2>1
  <2>3. Chosen(s) \in s /\ g[s] = f[Chosen(s)] + g[s \ {Chosen(s)}]
    BY <1>4, <2>1, <2>2
  <2>4. h[s] = e[Chosen(s)] + h[s \ {Chosen(s)}]
    BY <1>5, <2>1, <2>2
  <2>5. g[s \ {Chosen(s)}] = h[s \ {Chosen(s)}]
    BY <1>2, <2>1, <2>3
  <2>6. f[Chosen(s)] = e[Chosen(s)]
    BY <2>1, <2>3 DEF Same
  <2> QED
    BY <2>1, <2>3, <2>4, <2>5, <2>6
<1> HIDE DEF B
<1>3. B = {}
  BY <1>1, <1>2, Smallest
<1> QED
  BY <1>3 DEF B

LEMMA SumsAreIntegers ==
    ASSUME NEW S, IsFiniteSet(S), NEW f, Valued(f, S),
           NEW g, IsSum(f, S, g)
    PROVE  \A s \in SUBSET S : g[s] \in Int
<1>4. /\ g[{}] = 0
      /\ \A s \in SUBSET S : s # {} => /\ Chosen(s) \in s
                                       /\ g[s] = f[Chosen(s)] + g[s \ {Chosen(s)}]
  BY SumsStep
<1> DEFINE B == {s \in SUBSET S : g[s] \notin Int}
<1>1. B \in SUBSET SUBSET S
  OBVIOUS
<1>2. ASSUME NEW s \in B, \A x \in s : s \ {x} \notin B
      PROVE  FALSE
  <2>1. s \in SUBSET S /\ g[s] \notin Int
    OBVIOUS
  <2>2. s # {}
    <3> HIDE DEF B
    <3> SUFFICES ASSUME s = {} PROVE FALSE
      OBVIOUS
    <3> QED
      BY <1>4, <2>1
  <2>3. Chosen(s) \in s /\ g[s] = f[Chosen(s)] + g[s \ {Chosen(s)}]
    BY <1>4, <2>1, <2>2
  <2>4. g[s \ {Chosen(s)}] \in Int /\ f[Chosen(s)] \in Int
    BY <1>2, <2>1, <2>3 DEF Valued
  <2> QED
    BY <2>1, <2>3, <2>4
<1> HIDE DEF B
<1>3. B = {}
  BY <1>1, <1>2, Smallest
<1> QED
  BY <1>3 DEF B

\* Whichever member is taken first, the sum is the same.
LEMMA SumsFromAny ==
    ASSUME NEW S, IsFiniteSet(S), NEW f, Valued(f, S),
           NEW g, IsSum(f, S, g)
    PROVE  \A s \in SUBSET S : \A x \in s : g[s] = f[x] + g[s \ {x}]
<1>4. \A s \in SUBSET S : s # {} => /\ Chosen(s) \in s
                                    /\ g[s] = f[Chosen(s)] + g[s \ {Chosen(s)}]
  BY SumsStep
<1>5. \A s \in SUBSET S : g[s] \in Int
  BY SumsAreIntegers
<1> DEFINE B == {s \in SUBSET S : \E x \in s : g[s] # f[x] + g[s \ {x}]}
<1>1. B \in SUBSET SUBSET S
  OBVIOUS
<1>2. ASSUME NEW s \in B, \A x \in s : s \ {x} \notin B
      PROVE  FALSE
  <2>1. PICK x \in s : g[s] # f[x] + g[s \ {x}]
    OBVIOUS
  <2> DEFINE y == Chosen(s)
  <2>2. s \in SUBSET S /\ y \in s /\ g[s] = f[y] + g[s \ {y}]
    BY <1>4
  <2> HIDE DEF y
  <2>3. x # y
    BY <2>1, <2>2
  <2>4. s \ {x} \notin B /\ s \ {y} \notin B
    BY <1>2, <2>2
  <2>5. g[s \ {x}] = f[y] + g[(s \ {x}) \ {y}]
    BY <2>2, <2>3, <2>4
  <2>6. g[s \ {y}] = f[x] + g[(s \ {y}) \ {x}]
    BY <2>2, <2>3, <2>4
  <2>7. (s \ {x}) \ {y} = (s \ {y}) \ {x} /\ (s \ {y}) \ {x} \in SUBSET S
    BY <2>2
  <2> DEFINE rest == g[(s \ {y}) \ {x}]
  <2>8. f[x] \in Int /\ f[y] \in Int /\ rest \in Int
    BY <1>5, <2>2, <2>7 DEF Valued
  <2>9. g[s \ {x}] = f[y] + rest /\ g[s \ {y}] = f[x] + rest
    BY <2>5, <2>6, <2>7
  <2> HIDE DEF B, rest
  <2> QED
    BY <2>1, <2>2, <2>8, <2>9
<1> HIDE DEF B
<1>3. B = {}
  BY <1>1, <1>2, Smallest
<1> QED
  BY <1>3 DEF B

\* What a set has is in the one part or in the other.
LEMMA SumsOfParts ==
    ASSUME NEW S, IsFiniteSet(S), NEW f, Valued(f, S),
           NEW g, IsSum(f, S, g)
    PROVE  \A r \in SUBSET S : g[S] = g[r] + g[S \ r]
<1>4. g[{}] = 0
  BY SumsStep
<1>5. \A s \in SUBSET S : g[s] \in Int
  BY SumsAreIntegers
<1>6. ASSUME NEW s \in SUBSET S, NEW x \in s
      PROVE  g[s] = f[x] + g[s \ {x}]
  BY SumsFromAny
<1> DEFINE B == {r \in SUBSET S : g[S] # g[r] + g[S \ r]}
<1>1. B \in SUBSET SUBSET S
  OBVIOUS
<1>2. ASSUME NEW r \in B, \A x \in r : r \ {x} \notin B
      PROVE  FALSE
  <2>1. r \in SUBSET S /\ g[S] # g[r] + g[S \ r]
    OBVIOUS
  <2>2. g[S] \in Int /\ S \ {} = S
    BY <1>5
  <2>3. r # {}
    <3> HIDE DEF B
    <3> QED
      BY <1>4, <2>1, <2>2
  <2>4. PICK x \in r : TRUE
    BY <2>3
  <2> DEFINE p == r \ {x}
             q == S \ r
  <2>5. g[S] = g[p] + g[S \ p]
    BY <1>2, <2>1, <2>4
  <2>6. g[r] = f[x] + g[p]
    BY <1>6, <2>1, <2>4
  <2>7. g[S \ p] = f[x] + g[q]
    <3>1. S \ p \in SUBSET S /\ x \in S \ p /\ (S \ p) \ {x} = q
      BY <2>1, <2>4
    <3> HIDE DEF p, q, B
    <3> QED
      BY <1>6, <3>1
  <2>8. f[x] \in Int /\ g[p] \in Int /\ g[q] \in Int
    BY <1>5, <2>1, <2>4 DEF Valued
  <2> HIDE DEF p, q, B
  <2>9. g[S] = g[r] + g[q]
    BY <2>5, <2>6, <2>7, <2>8
  <2> QED
    BY <2>1, <2>9 DEF q
<1> HIDE DEF B
<1>3. B = {}
  BY <1>1, <1>2, Smallest
<1> QED
  BY <1>3 DEF B

\* What Total gives
LEMMA TotalFacts ==
    ASSUME NEW S, IsFiniteSet(S), NEW f, Valued(f, S)
    PROVE  /\ Total(f, S) \in Int
           /\ S = {} => Total(f, S) = 0
           /\ \A R \in SUBSET S : /\ Total(f, R) \in Int
                                  /\ Total(f, S) = Total(f, R) + Total(f, S \ R)
<1> DEFINE g == CHOOSE g : IsSum(f, S, g)
<1>1. IsSum(f, S, g)
  BY SumsExist
<1>2. Total(f, S) = g[S]
  BY TotalIsSum
<1> HIDE DEF g
<1>3. ASSUME NEW R \in SUBSET S
      PROVE  Total(f, R) = g[R]
  <2> DEFINE h == CHOOSE h : IsSum(f, R, h)
  <2>1. IsFiniteSet(R)
    BY FS_Subset
  <2>2. IsSum(f, R, h)
    BY <2>1, SumsExist
  <2>3. Total(f, R) = h[R]
    BY TotalIsSum
  <2> HIDE DEF h
  <2>4. Same(f, f, R)
    BY DEF Same
  <2>5. \A s \in SUBSET R : g[s] = h[s]
    BY <1>1, <2>2, <2>4, SumsAgree
  <2> QED
    BY <1>2, <2>3, <2>5
<1>4. \A R \in SUBSET S : S \ R \in SUBSET S
  OBVIOUS
<1>5. g[{}] = 0 /\ \A s \in SUBSET S : g[s] \in Int
  BY <1>1, SumsStep, SumsAreIntegers
<1>6. \A R \in SUBSET S : g[S] = g[R] + g[S \ R]
  BY <1>1, SumsOfParts
<1> QED
  BY <1>2, <1>3, <1>4, <1>5, <1>6

LEMMA TotalSame ==
    ASSUME NEW S, IsFiniteSet(S), NEW f, NEW e, Same(f, e, S)
    PROVE  Total(f, S) = Total(e, S)
<1>1. PICK g : g = (CHOOSE k : IsSum(f, S, k))
  OBVIOUS
<1>2. PICK h : h = (CHOOSE k : IsSum(e, S, k))
  OBVIOUS
<1>3. IsSum(f, S, g)
  BY <1>1, SumsExist
<1>4. IsSum(e, S, h)
  BY <1>2, SumsExist
<1>5. S \in SUBSET S
  OBVIOUS
<1>6. \A s \in SUBSET S : g[s] = h[s]
  BY <1>3, <1>4, <1>5, SumsAgree
<1> QED
  BY <1>1, <1>2, <1>5, <1>6, TotalIsSum

LEMMA TotalOfOne ==
    ASSUME NEW x, NEW f, f[x] \in Int
    PROVE  Total(f, {x}) = f[x]
<1> DEFINE g == CHOOSE g : IsSum(f, {x}, g)
<1>1. IsFiniteSet({x})
  BY FS_Singleton
<1>2. IsSum(f, {x}, g)
  BY <1>1, SumsExist
<1>3. Total(f, {x}) = g[{x}]
  BY TotalIsSum
<1> HIDE DEF g
<1>4. Valued(f, {x})
  BY DEF Valued
<1>5. ASSUME NEW s \in SUBSET {x}, NEW y \in s
      PROVE  g[s] = f[y] + g[s \ {y}]
  BY <1>1, <1>2, <1>4, SumsFromAny
<1>6. g[{}] = 0
  BY <1>2, SumsStep
<1>7. {x} \ {x} = {} /\ {x} \in SUBSET {x} /\ x \in {x}
  OBVIOUS
<1>8. g[{x}] = f[x] + g[{x} \ {x}]
  BY <1>5, <1>7
<1> QED
  BY <1>3, <1>6, <1>7, <1>8

\* One item of a set has another value, or comes to it.
LEMMA TotalChanged ==
    ASSUME NEW S, IsFiniteSet(S), NEW f, Valued(f, S),
           NEW y \in S, NEW e, e[y] \in Int, \A x \in S \ {y} : e[x] = f[x]
    PROVE  Total(e, S) = Total(f, S) + (e[y] - f[y])
<1>1. Valued(e, S)
  BY DEF Valued
<1>2. {y} \in SUBSET S /\ S \ {y} \in SUBSET S /\ IsFiniteSet(S \ {y})
  BY FS_Subset
<1>3. \A R \in SUBSET S : /\ Total(f, R) \in Int
                         /\ Total(f, S) = Total(f, R) + Total(f, S \ R)
  BY TotalFacts
<1>4. \A R \in SUBSET S : Total(e, S) = Total(e, R) + Total(e, S \ R)
  BY <1>1, TotalFacts
<1>5. Total(f, {y}) = f[y] /\ f[y] \in Int
  BY TotalOfOne DEF Valued
<1>6. Total(e, {y}) = e[y]
  BY TotalOfOne
<1>7. Total(e, S \ {y}) = Total(f, S \ {y})
  <2>1. Same(e, f, S \ {y})
    BY DEF Same
  <2> QED
    BY <1>2, <2>1, TotalSame
<1>8. Total(f, S) = f[y] + Total(f, S \ {y}) /\ Total(f, S \ {y}) \in Int
  BY <1>2, <1>3, <1>5
<1>9. Total(e, S) = e[y] + Total(f, S \ {y})
  BY <1>2, <1>4, <1>6, <1>7
<1> QED
  BY <1>5, <1>8, <1>9

-----------------------------------------------------------------------------
(* Picking: more, again, and beside other items *)

\* A set of numbers with 0 that has the number after each of its own has all.
LEMMA AllUpTo ==
    ASSUME NEW m \in Nat, NEW T, 0 \in T, \A n \in 1 .. m : n - 1 \in T => n \in T
    PROVE  \A n \in 0 .. m : n \in T
<1> DEFINE B == {n \in 0 .. m : n \notin T}
<1> SUFFICES ASSUME B # {} PROVE FALSE
  OBVIOUS
<1>1. PICK n \in B : \A k \in B : n <= k
  <2>1. B \in SUBSET Nat
    OBVIOUS
  <2> HIDE DEF B
  <2> QED
    BY <2>1, Least
<1>2. n \in 1 .. m /\ n - 1 \in 0 .. m /\ n - 1 < n
  OBVIOUS
<1>3. n - 1 \notin B
  <2> HIDE DEF B
  <2> QED
    BY <1>1, <1>2
<1> QED
  BY <1>2, <1>3

\* s has the items of q at the positions K, in their order; f says which is where.
Placed(q, K, s, f) ==
    /\ f \in [1 .. Len(s) -> K]
    /\ \A i \in 1 .. Len(s) : s[i] = q[f[i]]
    /\ \A i, j \in 1 .. Len(s) : i < j => f[i] < f[j]
    /\ \A k \in K : \E i \in 1 .. Len(s) : f[i] = k

LEMMA PickIs ==
    ASSUME NEW S, NEW q \in Seq(S), NEW K \in SUBSET DOMAIN q,
           NEW s \in Seq(S), NEW f, Placed(q, K, s, f)
    PROVE  s = Pick(q, K)
<1> DEFINE m == Len(q)
           l == Len(s)
           UpTo(i) == {k \in K : k <= f[i]}
<1> USE DEF Placed
<1>1. m \in Nat /\ l \in Nat /\ K \in SUBSET (1 .. m) /\ DOMAIN s = 1 .. l
  OBVIOUS
<1>2. \A i \in 1 .. l : f[i] \in K /\ f[i] \in Int
  BY <1>1
<1>3. \A i, j \in 1 .. l : f[i] = f[j] => i = j
  <2> HIDE DEF l
  <2> QED
    BY <1>1, <1>2
<1>4. ASSUME NEW i \in 1 .. l
      PROVE  Rank(K, f[i]) = i
  <2> DEFINE g == [j \in 1 .. i |-> f[j]]
  <2>1. i \in Nat /\ \A j \in 1 .. i : j \in 1 .. l /\ (j = i \/ j < i)
    BY <1>1
  <2>2. \A j \in 1 .. i : f[j] \in UpTo(i)
    BY <1>2, <2>1
  <2>3. \A k \in UpTo(i) : \E j \in 1 .. i : f[j] = k
    <3> SUFFICES ASSUME NEW k \in UpTo(i) PROVE \E j \in 1 .. i : f[j] = k
      OBVIOUS
    <3>1. PICK j \in 1 .. l : f[j] = k
      OBVIOUS
    <3>2. ~ (i < j)
      BY <1>2, <3>1
    <3> QED
      BY <1>1, <3>1, <3>2
  <2>4. g \in Bijection(1 .. i, UpTo(i))
    <3>1. g \in [1 .. i -> UpTo(i)]
      BY <2>2
    <3>2. \A j, k \in 1 .. i : g[j] = g[k] => j = k
      BY <1>3, <2>1
    <3>3. \A k \in UpTo(i) : \E j \in 1 .. i : g[j] = k
      BY <2>3
    <3> HIDE DEF g, UpTo
    <3> QED
      BY <3>1, <3>2, <3>3 DEF Bijection, Injection, Surjection, IsInjective
  <2>5. IsFiniteSet(1 .. i) /\ Cardinality(1 .. i) = i
    BY <2>1, FS_Interval
  <2>6. Cardinality(UpTo(i)) = Cardinality(1 .. i)
    BY <2>4, <2>5, FS_Bijection DEF ExistsBijection
  <2> QED
    BY <2>5, <2>6 DEF Rank
<1>5. Cardinality(K) = l
  <2>1. f \in Bijection(1 .. l, K)
    <3> HIDE DEF l
    <3>1. f \in [1 .. l -> K]
      BY DEF l
    <3>2. \A k \in K : \E i \in 1 .. l : f[i] = k
      BY DEF l
    <3>3. \A i, j \in 1 .. l : f[i] = f[j] => i = j
      BY <1>3
    <3> QED
      BY <3>1, <3>2, <3>3 DEF Bijection, Injection, Surjection, IsInjective
  <2>2. IsFiniteSet(1 .. l) /\ Cardinality(1 .. l) = l
    <3> HIDE DEF l
    <3> QED
      BY <1>1, FS_Interval
  <2> QED
    BY <2>1, <2>2, FS_Bijection DEF ExistsBijection
<1>6. \A i \in 1 .. l : Nth(K, i) = f[i]
  <2> SUFFICES ASSUME NEW i \in 1 .. l PROVE Nth(K, i) = f[i]
    OBVIOUS
  <2>1. Nth(K, i) \in K /\ Rank(K, Nth(K, i)) = i
    BY <1>1, <1>5, NthRank
  <2>2. PICK j \in 1 .. l : f[j] = Nth(K, i)
    BY <2>1
  <2>3. Rank(K, f[j]) = j
    BY <1>4
  <2> QED
    BY <2>1, <2>2, <2>3
<1>7. Pick(q, K) = [i \in 1 .. l |-> q[Nth(K, i)]]
  BY <1>5 DEF Pick
<1>8. s = [i \in 1 .. l |-> s[i]]
  BY <1>1
<1>9. \A i \in 1 .. l : q[Nth(K, i)] = s[i]
  BY <1>6
<1> QED
  BY <1>7, <1>8, <1>9, Zenon

LEMMA PickAll ==
    ASSUME NEW S, NEW q \in Seq(S)
    PROVE  Pick(q, DOMAIN q) = q
<1> DEFINE f == [i \in 1 .. Len(q) |-> i]
           K == DOMAIN q
<1>1. Len(q) \in Nat /\ K = 1 .. Len(q) /\ f \in [1 .. Len(q) -> K]
  OBVIOUS
<1>2. /\ \A i \in 1 .. Len(q) : q[i] = q[f[i]]
      /\ \A i, j \in 1 .. Len(q) : i < j => f[i] < f[j]
      /\ \A k \in K : \E i \in 1 .. Len(q) : f[i] = k
  BY <1>1
<1>3. K \in SUBSET DOMAIN q
  OBVIOUS
<1> HIDE DEF f, K
<1>4. Placed(q, K, q, f)
  BY <1>1, <1>2 DEF Placed
<1>5. q = Pick(q, K)
  BY <1>3, <1>4, PickIs
<1> QED
  BY <1>5 DEF K

\* Picking one position more, behind the others
LEMMA PickOneMore ==
    ASSUME NEW S, NEW q \in Seq(S), NEW n \in DOMAIN q, NEW K \in SUBSET (1 .. n - 1)
    PROVE  Pick(q, K \union {n}) = Append(Pick(q, K), q[n])
<1> DEFINE p == Pick(q, K)
           c == Cardinality(K)
           s == Append(p, q[n])
           M == K \union {n}
           f == [i \in 1 .. Len(s) |-> IF i = c + 1 THEN n ELSE Nth(K, i)]
<1>1. /\ n \in Nat /\ K \in SUBSET DOMAIN q /\ M \in SUBSET DOMAIN q
      /\ q[n] \in S /\ K \in SUBSET (1 .. n)
      /\ \A k \in K : k \in Int /\ k < n
  <2>1. Len(q) \in Nat /\ DOMAIN q = 1 .. Len(q) /\ n \in 1 .. Len(q)
    OBVIOUS
  <2>2. 1 .. n - 1 \subseteq 1 .. Len(q)
    BY <2>1
  <2>3. 1 .. n - 1 \subseteq 1 .. n /\ \A k \in 1 .. n - 1 : k \in Int /\ k < n
    BY <2>1
  <2>4. q[n] \in S
    OBVIOUS
  <2>5. \A k \in K : k \in 1 .. n - 1
    OBVIOUS
  <2> HIDE DEF M
  <2>6. M \subseteq DOMAIN q
    BY <2>1, <2>2, <2>5 DEF M
  <2> QED
    BY <2>1, <2>2, <2>3, <2>4, <2>5, <2>6
<1>2. /\ p \in Seq(S) /\ Len(p) = c /\ c \in Nat
      /\ \A i \in 1 .. c : Nth(K, i) \in K /\ p[i] = q[Nth(K, i)]
      /\ \A i \in K : \E k \in 1 .. c : Nth(K, k) = i
  BY <1>1, PickProperties
<1>3. \A i, j \in 1 .. c : i < j => Nth(K, i) < Nth(K, j)
  BY <1>1, NthOrder
<1> HIDE DEF p, c
<1>4. s \in Seq(S) /\ Len(s) = c + 1 /\ s[c + 1] = q[n] /\ \A i \in 1 .. c : s[i] = p[i]
  BY <1>1, <1>2
<1> HIDE DEF s
<1>5. 1 .. c + 1 = (1 .. c) \union {c + 1} /\ c + 1 \notin 1 .. c
  BY <1>2
<1>6. f \in [1 .. Len(s) -> M] /\ f[c + 1] = n /\ \A i \in 1 .. c : f[i] = Nth(K, i)
  BY <1>2, <1>4, <1>5
<1> HIDE DEF f
<1>7. \A i \in 1 .. Len(s) : s[i] = q[f[i]]
  BY <1>2, <1>4, <1>5, <1>6
<1>8. \A i, j \in 1 .. Len(s) : i < j => f[i] < f[j]
  <2> SUFFICES ASSUME NEW i \in 1 .. c + 1, NEW j \in 1 .. c + 1, i < j
               PROVE  f[i] < f[j]
    BY <1>4
  <2>1. i \in 1 .. c
    BY <1>2
  <2>2. CASE j \in 1 .. c
    BY <1>3, <1>6, <2>1, <2>2
  <2>3. CASE j = c + 1
    BY <1>1, <1>2, <1>6, <2>1, <2>3
  <2> QED
    BY <1>5, <2>2, <2>3
<1>9. \A k \in M : \E i \in 1 .. Len(s) : f[i] = k
  BY <1>2, <1>4, <1>5, <1>6
<1> HIDE DEF M
<1>10. Placed(q, M, s, f)
  BY <1>6, <1>7, <1>8, <1>9 DEF Placed
<1>11. s = Pick(q, M)
  BY <1>1, <1>4, <1>10, PickIs
<1> QED
  BY <1>11 DEF M, s, p

\* Picking from what was picked
LEMMA PickTwice ==
    ASSUME NEW S, NEW q \in Seq(S), NEW K \in SUBSET DOMAIN q,
           NEW M \in SUBSET (1 .. Cardinality(K))
    PROVE  Pick(Pick(q, K), M) = Pick(q, {Nth(K, n) : n \in M})
<1> DEFINE p == Pick(q, K)
           c == Cardinality(K)
           s == Pick(p, M)
           d == Cardinality(M)
           N == {Nth(K, n) : n \in M}
           f == [i \in 1 .. Len(s) |-> Nth(K, Nth(M, i))]
<1>1. /\ p \in Seq(S) /\ Len(p) = c /\ c \in Nat
      /\ \A i \in 1 .. c : Nth(K, i) \in K /\ p[i] = q[Nth(K, i)]
  BY PickProperties
<1>2. \A i, j \in 1 .. c : i < j => Nth(K, i) < Nth(K, j)
  <2>1. Len(q) \in Nat /\ K \in SUBSET (1 .. Len(q))
    OBVIOUS
  <2> QED
    BY <2>1, NthOrder
<1>3. M \in SUBSET (1 .. c) /\ N \in SUBSET DOMAIN q
  BY <1>1
<1> HIDE DEF p, c
<1>4. M \in SUBSET DOMAIN p
  BY <1>1, <1>3
<1>5. /\ s \in Seq(S) /\ Len(s) = d /\ d \in Nat
      /\ \A i \in 1 .. d : Nth(M, i) \in M /\ s[i] = p[Nth(M, i)]
      /\ \A k \in M : \E i \in 1 .. d : Nth(M, i) = k
  BY <1>1, <1>4, PickProperties
<1>6. \A i, j \in 1 .. d : i < j => Nth(M, i) < Nth(M, j)
  BY <1>1, <1>3, NthOrder
<1> HIDE DEF s, d
<1>7. f \in [1 .. Len(s) -> N] /\ \A i \in 1 .. d : f[i] = Nth(K, Nth(M, i))
  BY <1>5
<1> HIDE DEF f
<1>8. \A i \in 1 .. Len(s) : s[i] = q[f[i]]
  BY <1>1, <1>3, <1>5, <1>7
<1>9. \A i, j \in 1 .. Len(s) : i < j => f[i] < f[j]
  BY <1>2, <1>3, <1>5, <1>6, <1>7
<1>10. \A k \in N : \E i \in 1 .. Len(s) : f[i] = k
  BY <1>5, <1>7
<1> HIDE DEF N
<1>11. Placed(q, N, s, f)
  BY <1>7, <1>8, <1>9, <1>10 DEF Placed
<1>12. s = Pick(q, N)
  BY <1>3, <1>5, <1>11, PickIs
<1> QED
  BY <1>12 DEF N, s, p

\* All of one list behind what is picked of another
LEMMA PickBefore ==
    ASSUME NEW S, NEW s \in Seq(S), NEW t \in Seq(S), NEW K \in SUBSET DOMAIN s
    PROVE  Pick(s \o t, K \union (Len(s) + 1 .. Len(s) + Len(t))) = Pick(s, K) \o t
<1> DEFINE p == Pick(s, K)
           c == Cardinality(K)
           u == p \o t
           q == s \o t
           l == Len(s)
           k == Len(t)
           M == K \union (l + 1 .. l + k)
           f == [i \in 1 .. Len(u) |-> IF i <= c THEN Nth(K, i) ELSE i - c + l]
<1>1. l \in Nat /\ k \in Nat /\ K \in SUBSET (1 .. l) /\ DOMAIN s = 1 .. l
  OBVIOUS
<1>2. /\ p \in Seq(S) /\ Len(p) = c /\ c \in Nat
      /\ \A i \in 1 .. c : Nth(K, i) \in K /\ p[i] = s[Nth(K, i)]
      /\ \A j \in K : \E i \in 1 .. c : Nth(K, i) = j
  BY PickProperties
<1>3. \A i, j \in 1 .. c : i < j => Nth(K, i) < Nth(K, j)
  BY <1>1, NthOrder
<1> HIDE DEF p, c
<1>4. /\ u \in Seq(S) /\ Len(u) = c + k
      /\ \A i \in 1 .. c : u[i] = p[i]
      /\ \A i \in c + 1 .. c + k : u[i] = t[i - c]
  BY <1>2
<1>5. /\ q \in Seq(S) /\ DOMAIN q = 1 .. l + k
      /\ \A i \in 1 .. l : q[i] = s[i]
      /\ \A i \in l + 1 .. l + k : q[i] = t[i - l]
  BY <1>1
<1> HIDE DEF u, q, l, k
<1>6. /\ 1 .. c + k = (1 .. c) \union (c + 1 .. c + k)
      /\ \A i \in c + 1 .. c + k : ~ (i <= c) /\ i - c + l \in l + 1 .. l + k
      /\ \A i \in l + 1 .. l + k : i - l + c \in c + 1 .. c + k /\ (i - l + c) - c + l = i
      /\ \A i \in 1 .. c : i <= c
  BY <1>1, <1>2
<1>7. /\ f \in [1 .. Len(u) -> M]
      /\ \A i \in 1 .. c : f[i] = Nth(K, i)
      /\ \A i \in c + 1 .. c + k : f[i] = i - c + l
  BY <1>2, <1>4, <1>6
<1> HIDE DEF f
<1>8. \A i \in 1 .. Len(u) : u[i] = q[f[i]]
  <2>1. \A i \in 1 .. c : u[i] = q[f[i]]
    BY <1>1, <1>2, <1>4, <1>5, <1>7
  <2>2. \A i \in c + 1 .. c + k : u[i] = q[f[i]]
    <3>1. \A i \in c + 1 .. c + k : (i - c + l) - l = i - c
      BY <1>1, <1>2
    <3> QED
      BY <1>4, <1>5, <1>6, <1>7, <3>1
  <2> QED
    BY <1>4, <1>6, <2>1, <2>2
<1>9. \A i, j \in 1 .. Len(u) : i < j => f[i] < f[j]
  <2> SUFFICES ASSUME NEW i \in 1 .. c + k, NEW j \in 1 .. c + k, i < j
               PROVE  f[i] < f[j]
    BY <1>4
  <2>1. CASE j \in 1 .. c
    <3>1. i \in 1 .. c
      BY <1>1, <1>2, <2>1
    <3> QED
      BY <1>3, <1>7, <2>1, <3>1
  <2>2. CASE j \in c + 1 .. c + k /\ i \in c + 1 .. c + k
    BY <1>1, <1>2, <1>7, <2>2
  <2>3. CASE j \in c + 1 .. c + k /\ i \in 1 .. c
    <3>1. f[i] \in 1 .. l /\ f[j] \in l + 1 .. l + k
      <4>1. f[i] = Nth(K, i) /\ Nth(K, i) \in 1 .. l
        BY <1>1, <1>2, <1>7, <2>3
      <4>2. f[j] = j - c + l /\ j - c + l \in l + 1 .. l + k
        BY <1>6, <1>7, <2>3
      <4> QED
        BY <4>1, <4>2
    <3> QED
      BY <1>1, <3>1
  <2> QED
    BY <1>6, <2>1, <2>2, <2>3
<1>10. \A j \in M : \E i \in 1 .. Len(u) : f[i] = j
  <2>1. \A j \in K : \E i \in 1 .. Len(u) : f[i] = j
    BY <1>2, <1>4, <1>6, <1>7
  <2>2. \A j \in l + 1 .. l + k : \E i \in 1 .. Len(u) : f[i] = j
    BY <1>4, <1>6, <1>7
  <2> QED
    BY <2>1, <2>2
<1>11. M \in SUBSET DOMAIN q
  BY <1>1, <1>5
<1> HIDE DEF M
<1>12. Placed(q, M, u, f)
  BY <1>7, <1>8, <1>9, <1>10 DEF Placed
<1>13. u = Pick(q, M)
  BY <1>4, <1>5, <1>11, <1>12, PickIs
<1> QED
  BY <1>13 DEF M, u, q, p, l, k

\* All of one list before what is picked of another
LEMMA PickBehind ==
    ASSUME NEW S, NEW s \in Seq(S), NEW t \in Seq(S), NEW K \in SUBSET DOMAIN s
    PROVE  Pick(t \o s, (1 .. Len(t)) \union {Len(t) + i : i \in K}) = t \o Pick(s, K)
<1> DEFINE p == Pick(s, K)
           c == Cardinality(K)
           u == t \o p
           q == t \o s
           l == Len(s)
           k == Len(t)
           M == (1 .. k) \union {k + i : i \in K}
           f == [i \in 1 .. Len(u) |-> IF i <= k THEN i ELSE k + Nth(K, i - k)]
<1>1. l \in Nat /\ k \in Nat /\ K \in SUBSET (1 .. l) /\ DOMAIN s = 1 .. l
  OBVIOUS
<1>2. /\ p \in Seq(S) /\ Len(p) = c /\ c \in Nat
      /\ \A i \in 1 .. c : Nth(K, i) \in K /\ p[i] = s[Nth(K, i)]
      /\ \A j \in K : \E i \in 1 .. c : Nth(K, i) = j
  BY PickProperties
<1>3. \A i, j \in 1 .. c : i < j => Nth(K, i) < Nth(K, j)
  BY <1>1, NthOrder
<1> HIDE DEF p, c
<1>4. /\ u \in Seq(S) /\ Len(u) = k + c
      /\ \A i \in 1 .. k : u[i] = t[i]
      /\ \A i \in 1 .. c : u[k + i] = p[i]
  BY <1>2
<1>5. /\ q \in Seq(S) /\ DOMAIN q = 1 .. k + l
      /\ \A i \in 1 .. k : q[i] = t[i]
      /\ \A i \in 1 .. l : q[k + i] = s[i]
  BY <1>1
<1> HIDE DEF u, q, l, k
<1>6. /\ \A i \in 1 .. k + c : i \in 1 .. k \/ \E j \in 1 .. c : i = k + j
      /\ \A i \in 1 .. k : i \in 1 .. k + c /\ i <= k
      /\ \A j \in 1 .. c : k + j \in 1 .. k + c /\ (k + j) - k = j /\ ~ (k + j <= k)
  <2>1. \A i \in 1 .. k + c : i \in 1 .. k \/ i - k \in 1 .. c
    BY <1>1, <1>2
  <2>2. \A i \in 1 .. k + c : i = k + (i - k)
    BY <1>1, <1>2
  <2> QED
    BY <1>1, <1>2, <2>1, <2>2
<1>7. /\ \A i \in 1 .. k : f[i] = i
      /\ \A j \in 1 .. c : f[k + j] = k + Nth(K, j)
  BY <1>4, <1>6
<1>8. f \in [1 .. Len(u) -> M]
  <2>1. \A i \in 1 .. Len(u) : f[i] \in M
    <3> HIDE DEF f
    <3>1. \A i \in 1 .. k : f[i] \in M
      BY <1>7
    <3>2. \A j \in 1 .. c : f[k + j] \in M
      BY <1>2, <1>7
    <3> QED
      BY <1>4, <1>6, <3>1, <3>2
  <2> QED
    BY <2>1
<1> HIDE DEF f
<1>9. \A i \in 1 .. Len(u) : u[i] = q[f[i]]
  <2>1. \A i \in 1 .. k : u[i] = q[f[i]]
    BY <1>4, <1>5, <1>7
  <2>2. \A j \in 1 .. c : u[k + j] = q[f[k + j]]
    <3>1. \A j \in 1 .. c : Nth(K, j) \in 1 .. l /\ u[k + j] = s[Nth(K, j)]
      BY <1>1, <1>2, <1>4
    <3>2. \A j \in 1 .. c : q[k + Nth(K, j)] = s[Nth(K, j)]
      BY <1>5, <3>1
    <3> QED
      BY <1>7, <3>1, <3>2
  <2> QED
    BY <1>4, <1>6, <2>1, <2>2
<1>10. \A i, j \in 1 .. Len(u) : i < j => f[i] < f[j]
  <2> SUFFICES ASSUME NEW i \in 1 .. k + c, NEW j \in 1 .. k + c, i < j
               PROVE  f[i] < f[j]
    BY <1>4
  <2>1. CASE j \in 1 .. k
    <3>1. i \in 1 .. k
      BY <1>1, <1>2, <2>1
    <3> QED
      BY <1>7, <2>1, <3>1
  <2>2. CASE \E m \in 1 .. c : j = k + m
    <3>1. PICK m \in 1 .. c : j = k + m
      BY <2>2
    <3>2. f[j] = k + Nth(K, m) /\ Nth(K, m) \in 1 .. l
      BY <1>1, <1>2, <1>7, <3>1
    <3>3. CASE i \in 1 .. k
      <4>1. f[i] = i /\ i <= k
        BY <1>6, <1>7, <3>3
      <4> QED
        BY <1>1, <3>2, <4>1
    <3>4. CASE \E n \in 1 .. c : i = k + n
      <4>1. PICK n \in 1 .. c : i = k + n
        BY <3>4
      <4>2. n < m
        BY <1>1, <3>1, <4>1
      <4>3. f[i] = k + Nth(K, n) /\ Nth(K, n) \in 1 .. l /\ Nth(K, n) < Nth(K, m)
        BY <1>1, <1>2, <1>3, <1>7, <4>1, <4>2
      <4> QED
        BY <1>1, <3>2, <4>3
    <3> QED
      BY <1>6, <3>3, <3>4
  <2> QED
    BY <1>6, <2>1, <2>2
<1>11. \A j \in M : \E i \in 1 .. Len(u) : f[i] = j
  <2>1. \A j \in 1 .. k : \E i \in 1 .. Len(u) : f[i] = j
    BY <1>4, <1>6, <1>7
  <2>2. \A m \in K : \E i \in 1 .. Len(u) : f[i] = k + m
    <3> SUFFICES ASSUME NEW m \in K PROVE \E i \in 1 .. Len(u) : f[i] = k + m
      OBVIOUS
    <3>1. PICK j \in 1 .. c : Nth(K, j) = m
      BY <1>2
    <3>2. k + j \in 1 .. Len(u) /\ f[k + j] = k + m
      BY <1>4, <1>6, <1>7, <3>1
    <3> QED
      BY <3>2
  <2> QED
    BY <2>1, <2>2
<1>12. M \in SUBSET DOMAIN q
  BY <1>1, <1>5
<1> HIDE DEF M
<1>13. Placed(q, M, u, f)
  BY <1>8, <1>9, <1>10, <1>11 DEF Placed
<1>14. u = Pick(q, M)
  BY <1>4, <1>5, <1>12, <1>13, PickIs
<1> QED
  BY <1>14 DEF M, u, q, p, l, k
=============================================================================
