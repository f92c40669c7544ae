---------------------------- MODULE FilePathProofs ----------------------------
(* Theorems about FilePath, for every set of names and strings and whatever   *)
(* the CRCs of strings are.                                                   *)
EXTENDS FilePath, SublistProofs

-----------------------------------------------------------------------------
(* XORs of a sequence of CRCs. FoldLeft is a recursive function on sets of    *)
(* positions, of which it takes the last one off. Only the sets 1..k matter   *)
(* for what it computes, and what it is there is the XOR of all up to k.      *)

LEMMA MaxIsMember ==
    ASSUME NEW m \in Nat, NEW K \in SUBSET (1 .. m), K # {}
    PROVE  Max(K) \in K /\ \A x \in K : x <= Max(K)
<1> DEFINE T == {m - x : x \in K}
<1>1. \A x \in K : x \in 1 .. m
  OBVIOUS
<1>2. T \in SUBSET Nat /\ T # {}
  <2>1. \A x \in K : m - x \in Nat
    BY <1>1
  <2> QED
    BY <2>1
<1>3. PICK t \in T : \A u \in T : t <= u
  BY <1>2, Least
<1>4. PICK x \in K : t = m - x
  OBVIOUS
<1>5. ASSUME NEW y \in K
      PROVE  x >= y
  <2>1. m - y \in T
    OBVIOUS
  <2>2. m - x <= m - y
    BY <1>3, <1>4, <2>1
  <2> QED
    BY <1>1, <2>2
<1>6. Max(K) \in K /\ \A y \in K : Max(K) >= y
  BY <1>5 DEF Max
<1> QED
  BY <1>1, <1>6

LEMMA MaxOfFirst ==
    ASSUME NEW n \in Nat, n # 0
    PROVE  Max(1 .. n) = n /\ (1 .. n) \ {n} = 1 .. (n - 1)
<1>1. Max(1 .. n) \in 1 .. n /\ \A x \in 1 .. n : x <= Max(1 .. n)
  <2> DEFINE K == 1 .. n
  <2>1. K \in SUBSET (1 .. n) /\ K # {}
    OBVIOUS
  <2> HIDE DEF K
  <2>2. Max(K) \in K /\ \A x \in K : x <= Max(K)
    BY <2>1, MaxIsMember
  <2> QED
    BY <2>2 DEF K
<1>2. n \in 1 .. n
  OBVIOUS
<1> QED
  BY <1>1, <1>2

\* g gives for each set of positions in D the XOR of b and what s has there.
Xors(b, s, D, g) ==
    g = [t \in D |-> IF t = {} THEN b ELSE Xor(g[t \ {Max(t)}], s[Max(t)])]

IsXor(b, s, g) == Xors(b, s, SUBSET DOMAIN s, g)

LEMMA FoldIsXor ==
    ASSUME NEW b, NEW s
    PROVE  FoldLeft(Xor, b, s) = (CHOOSE g : IsXor(b, s, g))[DOMAIN s]
  BY DEF FoldLeft, MapThenFoldSet, IsXor, Xors

LEMMA XorsExist ==
    ASSUME NEW b, NEW s, NEW m \in Nat, DOMAIN s = 1 .. m
    PROVE  \E g : IsXor(b, s, g)
<1> DEFINE S == 1 .. m
           UpTo(n) == {t \in SUBSET S : Cardinality(t) <= n}
           Bad == {n \in Nat : ~ \E g : Xors(b, s, UpTo(n), g)}
<1>1. \A t \in SUBSET S : IsFiniteSet(t) /\ Cardinality(t) \in Nat /\ Cardinality(t) <= Cardinality(S)
  <2>1. IsFiniteSet(S)
    BY FS_Interval
  <2> QED
    BY <2>1, FS_Subset, FS_CardinalityType
<1>2. Bad = {}
  <2> SUFFICES ASSUME Bad # {} PROVE FALSE
    OBVIOUS
  <2>1. PICK n \in Bad : \A k \in Bad : n <= k
    <3>1. Bad \in SUBSET Nat
      OBVIOUS
    <3> HIDE DEF Bad
    <3> QED
      BY <3>1, Least
  <2>2. n \in Nat /\ ~ \E g : Xors(b, s, UpTo(n), g)
    OBVIOUS
  <2>3. CASE n = 0
    <3>1. \A t \in UpTo(n) : t = {}
      BY <1>1, <2>3, FS_EmptySet
    <3>2. Xors(b, s, UpTo(n), [t \in UpTo(n) |-> b])
      BY <3>1 DEF Xors
    <3> QED
      BY <2>2, <3>2
  <2>4. CASE n # 0
    <3>1. n - 1 \in Nat /\ n - 1 \notin Bad
      <4> HIDE DEF Bad
      <4> QED
        BY <2>1, <2>2, <2>4
    <3>2. PICK g : Xors(b, s, UpTo(n - 1), g)
      BY <3>1
    <3> DEFINE h == [t \in UpTo(n) |-> IF t = {} THEN b ELSE Xor(g[t \ {Max(t)}], s[Max(t)])]
    <3>3. UpTo(n - 1) \subseteq UpTo(n)
      BY <1>1, <2>2
    <3>4. \A t \in UpTo(n - 1) : h[t] = g[t]
      <4> HIDE DEF UpTo
      <4> QED
        BY <3>2, <3>3 DEF Xors
    <3>5. ASSUME NEW t \in UpTo(n), t # {}
          PROVE  t \ {Max(t)} \in UpTo(n - 1)
      <4>1. Max(t) \in t
        BY <3>5, MaxIsMember
      <4>2. Cardinality(t \ {Max(t)}) = Cardinality(t) - 1
        BY <1>1, <4>1, FS_RemoveElement
      <4>3. t \in SUBSET S /\ Cardinality(t) \in Nat /\ Cardinality(t) <= n
        BY <1>1
      <4>4. t \ {Max(t)} \in SUBSET S
        BY <4>3
      <4>5. Cardinality(t \ {Max(t)}) <= n - 1
        <5> HIDE DEF S
        <5> QED
          BY <2>2, <4>2, <4>3
      <4> QED
        BY <4>4, <4>5
    <3>6. \A t \in UpTo(n) : h[t] = IF t = {} THEN b ELSE Xor(h[t \ {Max(t)}], s[Max(t)])
      <4> HIDE DEF UpTo
      <4>1. \A t \in UpTo(n) : t # {} => h[t \ {Max(t)}] = g[t \ {Max(t)}]
        BY <3>4, <3>5
      <4> QED
        BY <4>1
    <3>7. h = [t \in UpTo(n) |-> h[t]]
      OBVIOUS
    <3> HIDE DEF h, UpTo
    <3>8. Xors(b, s, UpTo(n), h)
      BY <3>6, <3>7 DEF Xors
    <3> QED
      BY <2>2, <3>8
  <2> QED
    BY <2>3, <2>4
<1>3. Cardinality(S) \in Nat /\ UpTo(Cardinality(S)) = SUBSET S
  BY <1>1, FS_CardinalityType
<1>4. \E g : Xors(b, s, UpTo(Cardinality(S)), g)
  BY <1>2, <1>3
<1> HIDE DEF UpTo
<1> QED
  BY <1>3, <1>4 DEF IsXor

\* r has at each k the XOR of b and the first k of s.
RunsFrom(b, s, n, r) ==
    /\ r[0] = b
    /\ \A k \in 1 .. n : r[k] = Xor(r[k - 1], s[k])

\* The fold is the last of the XORs taken one after the other.
LEMMA FoldRuns ==
    ASSUME NEW b, NEW s, NEW n \in Nat, DOMAIN s = 1 .. n,
           NEW r, RunsFrom(b, s, n, r)
    PROVE  FoldLeft(Xor, b, s) = r[n]
<1> DEFINE g == CHOOSE g : IsXor(b, s, g)
<1>1. IsXor(b, s, g) /\ FoldLeft(Xor, b, s) = g[1 .. n]
  BY XorsExist, FoldIsXor
<1> HIDE DEF g
<1>2. \A t \in SUBSET (1 .. n) : g[t] = IF t = {} THEN b ELSE Xor(g[t \ {Max(t)}], s[Max(t)])
  BY <1>1 DEF IsXor, Xors
<1> DEFINE Bad == {k \in 0 .. n : g[1 .. k] # r[k]}
<1>3. Bad = {}
  <2> SUFFICES ASSUME Bad # {} PROVE FALSE
    OBVIOUS
  <2>1. PICK k \in Bad : \A j \in Bad : k <= j
    <3>1. Bad \in SUBSET Nat
      OBVIOUS
    <3> HIDE DEF Bad
    <3> QED
      BY <3>1, Least
  <2>2. k \in 0 .. n /\ g[1 .. k] # r[k]
    OBVIOUS
  <2>3. CASE k = 0
    <3>1. 1 .. k = {} /\ 1 .. k \in SUBSET (1 .. n)
      BY <2>3
    <3> QED
      BY <1>2, <2>2, <2>3, <3>1 DEF RunsFrom
  <2>4. CASE k # 0
    <3>1. k - 1 \in 0 .. n /\ k - 1 \notin Bad
      <4> HIDE DEF Bad
      <4> QED
        BY <2>1, <2>2, <2>4
    <3>2. g[1 .. (k - 1)] = r[k - 1]
      BY <3>1
    <3>3. 1 .. k \in SUBSET (1 .. n) /\ 1 .. k # {} /\ k \in Nat /\ k \in 1 .. n
      BY <2>2, <2>4
    <3>4. Max(1 .. k) = k /\ (1 .. k) \ {k} = 1 .. (k - 1)
      BY <2>4, <3>3, MaxOfFirst
    <3>5. g[1 .. k] = Xor(g[1 .. (k - 1)], s[k])
      BY <1>2, <3>3, <3>4
    <3> QED
      BY <2>2, <3>2, <3>3, <3>5 DEF RunsFrom
  <2> QED
    BY <2>2, <2>3, <2>4
<1>4. n \in 0 .. n
  OBVIOUS
<1> QED
  BY <1>1, <1>3, <1>4

\* There are such XORs for every sequence.
LEMMA RunsExist ==
    ASSUME NEW b, NEW s, NEW n \in Nat, DOMAIN s = 1 .. n
    PROVE  \E r : RunsFrom(b, s, n, r)
<1>1. PICK g : IsXor(b, s, g)
  BY XorsExist
<1>2. \A t \in SUBSET (1 .. n) : g[t] = IF t = {} THEN b ELSE Xor(g[t \ {Max(t)}], s[Max(t)])
  BY <1>1 DEF IsXor, Xors
<1> DEFINE r == [k \in 0 .. n |-> g[1 .. k]]
<1>3. r[0] = b
  <2>1. 1 .. 0 = {} /\ 1 .. 0 \in SUBSET (1 .. n)
    OBVIOUS
  <2>2. r[0] = g[1 .. 0]
    OBVIOUS
  <2> HIDE DEF r
  <2> QED
    BY <1>2, <2>1, <2>2
<1>4. ASSUME NEW k \in 1 .. n
      PROVE  r[k] = Xor(r[k - 1], s[k])
  <2>1. 1 .. k \in SUBSET (1 .. n) /\ 1 .. k # {} /\ k \in Nat /\ k # 0
    OBVIOUS
  <2>2. Max(1 .. k) = k /\ (1 .. k) \ {k} = 1 .. (k - 1)
    BY <2>1, MaxOfFirst
  <2>3. g[1 .. k] = Xor(g[1 .. (k - 1)], s[k])
    BY <1>2, <2>1, <2>2
  <2>4. k \in 0 .. n /\ k - 1 \in 0 .. n
    OBVIOUS
  <2> QED
    BY <2>3, <2>4
<1> HIDE DEF r
<1>5. RunsFrom(b, s, n, r)
  BY <1>3, <1>4 DEF RunsFrom
<1> QED
  BY <1>5

-----------------------------------------------------------------------------
(* Strings *)

Chars == Seq(Char)

\* a string as Normalize leaves it: with the platform's slashes only
Plain(s) == s \in Chars /\ s # << >> /\ \A i \in 1 .. Len(s) : s[i] # Inverted

\* with one slash at its end, unless it has only one character
EndsInOne(s) == Len(s) = 1 \/ s[Len(s) - 1] # Slash

Replaced(s) == [i \in DOMAIN s |-> IF s[i] = Inverted THEN Slash ELSE s[i]]

NameEnd(s) == Max({1} \union {i \in DOMAIN s : s[i] # Slash})

\* what is left when the slashes at the end are taken away
Stripped(s) == SubSeq(Replaced(s), 1, NameEnd(Replaced(s)))

LEMMA Piece ==
    ASSUME NEW S, NEW s \in Seq(S), NEW m \in Nat \ {0}, NEW n \in Nat, n <= Len(s), m <= n + 1
    PROVE  /\ SubSeq(s, m, n) \in Seq(S)
           /\ Len(SubSeq(s, m, n)) = n + 1 - m
           /\ \A i \in 1 .. (n + 1 - m) : SubSeq(s, m, n)[i] = s[i + m - 1]
<1> DEFINE u == SubSeq(s, m, n)
<1>1. m \in Int /\ n \in Int /\ \A i \in m .. n : s[i] \in S
  OBVIOUS
<1>2. /\ u \in Seq(S)
      /\ Len(u) = IF m <= n THEN n - m + 1 ELSE 0
      /\ \A i \in 1 .. (n - m + 1) : u[i] = s[m + i - 1]
  BY <1>1, SubSeqProperties
<1> HIDE DEF u
<1>3. Len(u) = n + 1 - m /\ n - m + 1 = n + 1 - m
  BY <1>2
<1>4. ASSUME NEW i \in 1 .. (n + 1 - m)
      PROVE  u[i] = s[i + m - 1]
  <2>1. m + i - 1 = i + m - 1 /\ i \in 1 .. (n - m + 1)
    BY <1>3
  <2>2. u[i] = s[m + i - 1]
    BY <1>2, <2>1
  <2> QED
    BY <2>1, <2>2
<1>5. u \in Seq(S) /\ Len(u) = n + 1 - m /\ \A i \in 1 .. (n + 1 - m) : u[i] = s[i + m - 1]
  BY <1>2, <1>3, <1>4
<1> QED
  BY <1>5 DEF u

LEMMA SlashesDiffer ==
    Slash \in Char /\ Inverted \in Char /\ Slash # Inverted
  BY PathAssumption DEF Char

LEMMA ReplacedPlain ==
    ASSUME NEW s \in Chars, s # << >>
    PROVE  Plain(Replaced(s)) /\ Len(Replaced(s)) = Len(s)
<1>1. Len(s) \in Nat /\ Len(s) # 0 /\ DOMAIN s = 1 .. Len(s) /\ \A i \in 1 .. Len(s) : s[i] \in Char
  BY DEF Chars
<1> DEFINE r == Replaced(s)
<1>2. r \in [1 .. Len(s) -> Char]
  BY <1>1, SlashesDiffer DEF Replaced
<1>3. r \in Chars /\ Len(r) = Len(s)
  BY <1>1, <1>2 DEF Chars
<1>4. \A i \in 1 .. Len(s) : r[i] # Inverted
  BY <1>1, SlashesDiffer DEF Replaced
<1>5. r # << >>
  BY <1>1, <1>3
<1> QED
  BY <1>3, <1>4, <1>5 DEF Plain

LEMMA NameEndIs ==
    ASSUME NEW s \in Chars, s # << >>
    PROVE  /\ NameEnd(s) \in 1 .. Len(s)
           /\ NameEnd(s) = 1 \/ s[NameEnd(s)] # Slash
           /\ \A i \in 1 .. Len(s) : i > NameEnd(s) => s[i] = Slash
<1>1. Len(s) \in Nat /\ Len(s) # 0 /\ DOMAIN s = 1 .. Len(s)
  BY DEF Chars
<1> DEFINE K == {1} \union {i \in 1 .. Len(s) : s[i] # Slash}
<1>2. K \in SUBSET (1 .. Len(s)) /\ K # {}
  BY <1>1
<1>3. Max(K) = NameEnd(s)
  BY <1>1 DEF NameEnd
<1>4. \A x : x \in K <=> x = 1 \/ (x \in 1 .. Len(s) /\ s[x] # Slash)
  BY <1>1
<1> HIDE DEF K
<1>5. Max(K) \in K /\ \A x \in K : x <= Max(K)
  BY <1>1, <1>2, MaxIsMember
<1>6. NameEnd(s) \in 1 .. Len(s)
  BY <1>2, <1>3, <1>5
<1>7. ASSUME NEW i \in 1 .. Len(s), i > NameEnd(s)
      PROVE  s[i] = Slash
  BY <1>3, <1>4, <1>5, <1>6, <1>7
<1> QED
  BY <1>3, <1>4, <1>5, <1>6, <1>7

LEMMA NormalizeIs ==
    ASSUME NEW s
    PROVE  /\ Normalize(s, "REMOVE") = Stripped(s)
           /\ Normalize(s, "ADD") = IF Last(Stripped(s)) = Slash THEN Stripped(s)
                                    ELSE Append(Stripped(s), Slash)
  BY DEF Normalize, Stripped, Replaced, NameEnd

LEMMA StrippedPlain ==
    ASSUME NEW s \in Chars, s # << >>
    PROVE  /\ Plain(Stripped(s)) /\ Len(Stripped(s)) = NameEnd(Replaced(s))
           /\ \A i \in 1 .. Len(Stripped(s)) : Stripped(s)[i] = Replaced(s)[i]
           /\ Len(Stripped(s)) = 1 \/ Last(Stripped(s)) # Slash
<1> DEFINE r == Replaced(s)
           n == NameEnd(r)
           t == Stripped(s)
<1>1. Plain(r)
  BY ReplacedPlain
<1>2. r \in Chars /\ r # << >> /\ \A i \in 1 .. Len(r) : r[i] # Inverted
  BY <1>1 DEF Plain
<1>3. t = SubSeq(r, 1, n)
  BY DEF Stripped
<1> HIDE DEF r, t
<1>4. n \in 1 .. Len(r) /\ (n = 1 \/ r[n] # Slash)
  BY <1>2, NameEndIs
<1> HIDE DEF n
<1>5. Len(r) \in Nat /\ \A i \in 1 .. Len(r) : r[i] \in Char
  BY <1>2 DEF Chars
<1>6. t \in Chars /\ Len(t) = n /\ \A i \in 1 .. n : t[i] = r[i]
  <2> DEFINE u == SubSeq(r, 1, n)
  <2>1. n \in Nat /\ n <= Len(r) /\ 1 <= n + 1 /\ n + 1 - 1 = n /\ \A i \in 1 .. n : i + 1 - 1 = i
    BY <1>4, <1>5
  <2>2. /\ u \in Seq(Char) /\ Len(u) = n + 1 - 1
        /\ \A i \in 1 .. (n + 1 - 1) : u[i] = r[i + 1 - 1]
    BY <1>2, <2>1, Piece DEF Chars
  <2>3. t = u
    BY <1>3
  <2> HIDE DEF u
  <2> QED
    BY <2>1, <2>2, <2>3 DEF Chars
<1>7. \A i \in 1 .. n : t[i] # Inverted
  BY <1>2, <1>4, <1>5, <1>6
<1>8. n # 0 /\ n \in 1 .. n
  BY <1>4
<1>9. t # << >>
  BY <1>6, <1>8
<1>10. Len(t) = 1 \/ Last(t) # Slash
  BY <1>4, <1>6, <1>8 DEF Last
<1>11. Plain(t)
  BY <1>6, <1>7, <1>9 DEF Plain
<1> QED
  BY <1>6, <1>10, <1>11 DEF r, n, t

LEMMA NormalizedPlain ==
    ASSUME NEW s \in Chars, s # << >>
    PROVE  /\ Plain(Normalize(s, "REMOVE"))
           /\ Plain(Normalize(s, "ADD"))
           /\ Last(Normalize(s, "ADD")) = Slash
           /\ EndsInOne(Normalize(s, "ADD"))
<1> DEFINE t == Stripped(s)
<1>1. /\ Normalize(s, "REMOVE") = t
      /\ Normalize(s, "ADD") = IF Last(t) = Slash THEN t ELSE Append(t, Slash)
  BY NormalizeIs
<1>2. Plain(t) /\ (Len(t) = 1 \/ Last(t) # Slash)
  BY StrippedPlain
<1> HIDE DEF t
<1>3. CASE Last(t) = Slash
  BY <1>1, <1>2, <1>3 DEF EndsInOne
<1>4. CASE Last(t) # Slash
  <2> DEFINE u == Append(t, Slash)
  <2>1. t \in Seq(Char) /\ t # << >> /\ \A i \in 1 .. Len(t) : t[i] # Inverted
    BY <1>2 DEF Plain, Chars
  <2>2. /\ u \in Seq(Char) /\ Len(u) = Len(t) + 1 /\ u[Len(t) + 1] = Slash
        /\ \A i \in 1 .. Len(t) : u[i] = t[i]
    BY <2>1, SlashesDiffer, AppendProperties
  <2> HIDE DEF u
  <2>3. Len(t) \in Nat /\ Len(t) # 0
    BY <2>1
  <2>4. Normalize(s, "ADD") = u
    BY <1>1, <1>4 DEF u
  <2>5. \A i \in 1 .. Len(u) : u[i] # Inverted
    BY <2>1, <2>2, <2>3, SlashesDiffer
  <2>6. Plain(u)
    BY <2>2, <2>3, <2>5 DEF Plain, Chars
  <2>7. u[Len(u) - 1] = Last(t)
    BY <2>2, <2>3 DEF Last
  <2> QED
    BY <1>1, <1>2, <1>4, <2>2, <2>4, <2>6, <2>7 DEF EndsInOne, Last
<1> QED
  BY <1>3, <1>4

\* A string that is normal already stays as it is.
LEMMA NormalStays ==
    ASSUME NEW s, Plain(s)
    PROVE  /\ Last(s) # Slash => Normalize(s, "REMOVE") = s
           /\ Last(s) = Slash /\ EndsInOne(s) => Normalize(s, "ADD") = s
<1> DEFINE r == Replaced(s)
           n == NameEnd(r)
           t == Stripped(s)
<1>1. s \in Chars /\ s # << >> /\ \A i \in 1 .. Len(s) : s[i] # Inverted
  BY DEF Plain
<1>2. Len(s) \in Nat /\ Len(s) # 0 /\ DOMAIN s = 1 .. Len(s)
  BY <1>1 DEF Chars
<1>3. r = s
  <2>1. r = [i \in 1 .. Len(s) |-> s[i]]
    BY <1>1, <1>2 DEF Replaced
  <2>2. s = [i \in 1 .. Len(s) |-> s[i]]
    BY <1>1 DEF Chars
  <2> QED
    BY <2>1, <2>2
<1>4. /\ Normalize(s, "REMOVE") = t
      /\ Normalize(s, "ADD") = IF Last(t) = Slash THEN t ELSE Append(t, Slash)
  BY NormalizeIs
<1>5. Plain(t) /\ Len(t) = n /\ \A i \in 1 .. Len(t) : t[i] = s[i]
  BY <1>1, <1>3, StrippedPlain
<1>6. /\ n \in 1 .. Len(s)
      /\ n = 1 \/ s[n] # Slash
      /\ \A i \in 1 .. Len(s) : i > n => s[i] = Slash
  BY <1>1, <1>3, NameEndIs
<1> HIDE DEF r, n, t
<1> DEFINE m == Len(s)
<1>0. m \in Nat /\ m >= 1 /\ n \in Nat /\ n >= 1 /\ n <= m
  BY <1>2, <1>6
<1> HIDE DEF m
<1>7. t \in Chars
  BY <1>5 DEF Plain
<1>8. ASSUME n = Len(s)
      PROVE  t = s
  BY <1>1, <1>5, <1>7, <1>8, SeqEqual DEF Chars
<1>9. ASSUME Last(s) # Slash
      PROVE  Normalize(s, "REMOVE") = s
  <2>1. ~ m > n
    <3>1. m \in 1 .. Len(s) /\ s[m] # Slash
      BY <1>0, <1>9 DEF Last, m
    <3> QED
      BY <1>6, <3>1
  <2>2. n = m
    BY <1>0, <2>1
  <2> QED
    BY <1>4, <1>8, <2>2 DEF m
<1>10. ASSUME Last(s) = Slash, EndsInOne(s)
       PROVE  Normalize(s, "ADD") = s
  <2>1. CASE n = Len(s)
    BY <1>4, <1>8, <1>10, <2>1
  <2>2. CASE n # Len(s)
    <3>1. m # 1 /\ s[m - 1] # Slash
      <4>1. n # m
        BY <2>2 DEF m
      <4>2. m # 1
        BY <1>0, <4>1
      <4> QED
        BY <1>10, <4>2 DEF EndsInOne, m
    <3>2. n = m - 1
      <4>1. m - 1 \in 1 .. Len(s)
        <5>1. m - 1 \in 1 .. m
          BY <1>0, <3>1
        <5> QED
          BY <5>1 DEF m
      <4>2. ~ m - 1 > n
        BY <1>6, <3>1, <4>1
      <4>3. n # m
        BY <2>2 DEF m
      <4> QED
        BY <1>0, <4>2, <4>3
    <3>3. Last(t) # Slash
      BY <1>5, <1>6, <3>1, <3>2 DEF Last
    <3> DEFINE u == Append(t, Slash)
    <3>4. /\ u \in Seq(Char) /\ Len(u) = Len(t) + 1 /\ u[Len(t) + 1] = Slash
          /\ \A i \in 1 .. Len(t) : u[i] = t[i]
      BY <1>7, SlashesDiffer, AppendProperties DEF Chars
    <3>5. Normalize(s, "ADD") = u
      BY <1>4, <3>3
    <3> HIDE DEF u
    <3>6. Len(u) = m /\ Len(t) = m - 1
      BY <1>0, <1>5, <3>2, <3>4
    <3>7. ASSUME NEW i \in 1 .. Len(u)
          PROVE  u[i] = s[i]
      <4>1. CASE i = m
        BY <1>0, <1>10, <3>4, <3>6, <4>1 DEF Last, m
      <4>2. CASE i # m
        <5>1. i \in 1 .. Len(t)
          BY <1>0, <3>6, <4>2
        <5> QED
          BY <1>5, <3>4, <5>1
      <4> QED
        BY <4>1, <4>2
    <3>8. u = s
      BY <1>1, <3>4, <3>6, <3>7, SeqEqual DEF Chars, m
    <3> QED
      BY <3>5, <3>8
  <2> QED
    BY <2>1, <2>2
<1> QED
  BY <1>9, <1>10

-----------------------------------------------------------------------------
(* Split *)

LEMMA MinIsLeast ==
    ASSUME NEW m \in Nat, NEW K \in SUBSET (1 .. m), K # {}
    PROVE  Min(K) \in K /\ \A x \in K : Min(K) <= x
<1>1. K \in SUBSET Nat
  OBVIOUS
<1>2. PICK k \in K : \A x \in K : k <= x
  BY <1>1, Least
<1> QED
  BY <1>2 DEF Min

Starts(s) == {i \in DOMAIN s : i = 1 \/ s[i - 1] = Slash}

Ends(s, i) == {j \in DOMAIN s : j >= i /\ (s[j] = Slash \/ j = Len(s))}

LEMMA SplitIs ==
    ASSUME NEW s
    PROVE  Split(s) = [k \in 1 .. Cardinality(Starts(s)) |->
                         SubSeq(s, Nth(Starts(s), k), Min(Ends(s, Nth(Starts(s), k))))]
  BY DEF Split, Starts, Ends

LEMMA EndIs ==
    ASSUME NEW s \in Chars, NEW i \in 1 .. Len(s),
           NEW e, e = Min(Ends(s, i))
    PROVE  /\ e \in 1 .. Len(s) /\ i <= e
           /\ s[e] = Slash \/ e = Len(s)
           /\ \A j \in 1 .. Len(s) : i <= j /\ s[j] = Slash => e <= j
<1> DEFINE K == Ends(s, i)
<1>1. Len(s) \in Nat /\ DOMAIN s = 1 .. Len(s)
  BY DEF Chars
<1>2. \A j : j \in K <=> j \in 1 .. Len(s) /\ j >= i /\ (s[j] = Slash \/ j = Len(s))
  BY <1>1 DEF Ends
<1>3. K \in SUBSET (1 .. Len(s))
  BY <1>1 DEF Ends
<1> HIDE DEF K
<1>4. Len(s) \in 1 .. Len(s) /\ Len(s) >= i
  BY <1>1
<1>5. K # {}
  BY <1>2, <1>4
<1>6. Min(K) \in K /\ \A x \in K : Min(K) <= x
  BY <1>1, <1>3, <1>5, MinIsLeast
<1>7. e = Min(K)
  BY DEF K
<1>8. \A j \in 1 .. Len(s) : i <= j => j >= i
  OBVIOUS
<1>9. e \in 1 .. Len(s) /\ e >= i /\ (s[e] = Slash \/ e = Len(s))
  BY <1>2, <1>6, <1>7
<1>10. ASSUME NEW j \in 1 .. Len(s), i <= j, s[j] = Slash
       PROVE  e <= j
  BY <1>2, <1>6, <1>7, <1>8, <1>10
<1>11. i <= e
  BY <1>9
<1> QED
  BY <1>9, <1>10, <1>11

\* what lies between two slashes, with the one that ends it if there is one
NamePart(part) == part \in Chars /\ part # << >> /\ \A i \in 1 .. (Len(part) - 1) : part[i] # Slash

\* The pieces have no slash but at their ends, where all but the last have one.
LEMMA SplitShape ==
    ASSUME NEW s \in Chars
    PROVE  /\ Split(s) \in Seq(Chars)
           /\ \A k \in 1 .. Len(Split(s)) : NamePart(Split(s)[k])
           /\ \A k \in 1 .. (Len(Split(s)) - 1) : Last(Split(s)[k]) = Slash
<1> DEFINE K == Starts(s)
           c == Cardinality(K)
           at(k) == Nth(K, k)
           end(k) == Min(Ends(s, at(k)))
           piece(k) == SubSeq(s, at(k), end(k))
<1>1. Len(s) \in Nat /\ DOMAIN s = 1 .. Len(s) /\ s \in Seq(Char)
  BY DEF Chars
<1>2. K \in SUBSET (1 .. Len(s)) /\ \A i \in K : i = 1 \/ s[i - 1] = Slash
  BY <1>1 DEF Starts
<1>3. c \in Nat /\ \A k \in 1 .. c : at(k) \in K
  <2> HIDE DEF K
  <2> QED
    BY <1>1, <1>2, NthProperties
<1>4. Split(s) = [k \in 1 .. c |-> piece(k)]
  BY SplitIs
<1> HIDE DEF K, c
<1>5. ASSUME NEW k \in 1 .. c
      PROVE  /\ at(k) \in 1 .. Len(s) /\ end(k) \in 1 .. Len(s) /\ at(k) <= end(k)
             /\ s[end(k)] = Slash \/ end(k) = Len(s)
             /\ \A j \in 1 .. Len(s) : at(k) <= j /\ s[j] = Slash => end(k) <= j
  <2>1. at(k) \in 1 .. Len(s)
    BY <1>2, <1>3
  <2> HIDE DEF at
  <2> QED
    BY <2>1, EndIs
<1>6. ASSUME NEW k \in 1 .. c
      PROVE  /\ NamePart(piece(k))
             /\ Last(piece(k)) = s[end(k)]
  <2> DEFINE m == at(k)
             n == end(k)
             u == SubSeq(s, m, n)
  <2>1. /\ m \in 1 .. Len(s) /\ n \in 1 .. Len(s) /\ m <= n
        /\ \A j \in 1 .. Len(s) : m <= j /\ s[j] = Slash => n <= j
    BY <1>5
  <2>2. piece(k) = u /\ n = end(k)
    OBVIOUS
  <2> HIDE DEF at, end, m, n, piece
  <2>3. m \in Nat \ {0} /\ n \in Nat /\ n <= Len(s) /\ m <= n + 1
    BY <1>1, <2>1
  <2>4. u \in Seq(Char) /\ Len(u) = n + 1 - m /\ \A i \in 1 .. (n + 1 - m) : u[i] = s[i + m - 1]
    BY <1>1, <2>3, Piece
  <2> HIDE DEF u
  <2>5. n + 1 - m \in 1 .. (n + 1 - m) /\ n + 1 - m + m - 1 = n /\ n + 1 - m # 0
    BY <2>1, <2>3
  <2>6. u # << >> /\ u \in Chars /\ Last(u) = s[n]
    BY <2>4, <2>5 DEF Last, Chars
  <2>7. ASSUME NEW i \in 1 .. (Len(u) - 1)
        PROVE  u[i] # Slash
    <3>1. i \in 1 .. (n + 1 - m) /\ i + m - 1 \in 1 .. Len(s) /\ m <= i + m - 1 /\ ~ (n <= i + m - 1)
      BY <1>1, <2>1, <2>3, <2>4
    <3> QED
      BY <2>1, <2>4, <3>1
  <2> QED
    BY <2>2, <2>6, <2>7 DEF NamePart
<1>7. ASSUME NEW k \in 1 .. (c - 1)
      PROVE  Last(piece(k)) = Slash
  <2>1. k \in 1 .. c /\ k + 1 \in 1 .. c /\ k < k + 1
    BY <1>3
  <2>2. at(k) < at(k + 1)
    BY <1>1, <1>2, <2>1, NthOrder DEF c
  <2>3. /\ Last(piece(k)) = s[end(k)]
        /\ at(k) \in 1 .. Len(s) /\ end(k) \in 1 .. Len(s)
        /\ s[end(k)] = Slash \/ end(k) = Len(s)
        /\ \A j \in 1 .. Len(s) : at(k) <= j /\ s[j] = Slash => end(k) <= j
    BY <1>5, <1>6, <2>1
  <2>4. at(k + 1) \in 1 .. Len(s) /\ (at(k + 1) = 1 \/ s[at(k + 1) - 1] = Slash)
    BY <1>2, <1>3, <2>1
  <2> DEFINE i == at(k)
             j == at(k + 1)
             e == end(k)
             m == Len(s)
  <2>5. /\ i < j /\ i \in 1 .. m /\ j \in 1 .. m /\ e \in 1 .. m /\ m \in Nat
        /\ j = 1 \/ s[j - 1] = Slash
        /\ s[e] = Slash \/ e = m
    BY <1>1, <2>2, <2>3, <2>4
  <2>6. \A x \in 1 .. m : i <= x /\ s[x] = Slash => e <= x
    BY <2>3
  <2> HIDE DEF at, end, i, j, e, m
  <2>7. j - 1 \in 1 .. m /\ i <= j - 1 /\ j # 1
    BY <2>5
  <2>8. e <= j - 1
    BY <2>5, <2>6, <2>7
  <2>9. e # m
    BY <2>5, <2>8
  <2> QED
    BY <2>3, <2>5, <2>9 DEF e
<1> HIDE DEF piece
<1>8. \A k \in 1 .. c : piece(k) \in Chars
  BY <1>6 DEF NamePart
<1>9. Split(s) \in [1 .. c -> Chars]
  BY <1>4, <1>8
<1>10. Split(s) \in Seq(Chars) /\ Len(Split(s)) = c
  BY <1>3, <1>9
<1>11. \A k \in 1 .. c : Split(s)[k] = piece(k)
  BY <1>4
<1>12. \A k \in 1 .. (c - 1) : k \in 1 .. c
  BY <1>3
<1> QED
  BY <1>6, <1>7, <1>10, <1>11, <1>12

-----------------------------------------------------------------------------
(* What a path is that has not been made relative                             *)

\* XORs of CRCs, which are sets of bits
Crcs == SUBSET UNION {Crc(s) : s \in Chars}

LEMMA CrcTypes ==
    /\ {} \in Crcs
    /\ \A s \in Chars : Crc(s) \in Crcs
    /\ \A x, y \in Crcs : Xor(x, y) \in Crcs
    /\ \A x : Xor({}, x) = x
<1>1. \A x : Xor({}, x) = x
  BY DEF Xor
<1>2. \A x, y \in Crcs : Xor(x, y) \in Crcs
  BY DEF Xor, Crcs
<1>3. \A s \in Chars : Crc(s) \in Crcs
  BY DEF Crcs
<1>4. {} \in Crcs
  BY DEF Crcs
<1> QED
  BY <1>1, <1>2, <1>3, <1>4

\* Each CRC is that of the name and of all before it.
Chained(p) ==
    /\ p.pathCrcs[1] = Crc(p.parts[1])
    /\ \A i \in 2 .. Len(p.parts) :
         p.pathCrcs[i] = Xor(p.pathCrcs[i - 1], Crc(WithoutSlash(p.parts[i])))

\* The root is normal, and only the last of the names may have no slash.
Shaped(parts) ==
    /\ Plain(parts[1]) /\ Last(parts[1]) = Slash /\ EndsInOne(parts[1])
    /\ \A i \in 2 .. Len(parts) : NamePart(parts[i])
    /\ \A i \in 1 .. (Len(parts) - 1) : Last(parts[i]) = Slash

Good(p) ==
    /\ p \in [parts : Seq(Chars), pathCrcs : Seq(Crcs)]
    /\ Len(p.parts) # 0 /\ Len(p.pathCrcs) = Len(p.parts)
    /\ Chained(p)
    /\ Shaped(p.parts)

\* The XORs up to each of the members of c
UpToEach(c) == [i \in DOMAIN c |-> FoldLeft(Xor, {}, SubSeq(c, 1, i))]

LEMMA UpToEachIs ==
    ASSUME NEW c \in Seq(Crcs), c # << >>
    PROVE  /\ UpToEach(c) \in Seq(Crcs) /\ Len(UpToEach(c)) = Len(c)
           /\ UpToEach(c)[1] = c[1]
           /\ \A i \in 2 .. Len(c) : UpToEach(c)[i] = Xor(UpToEach(c)[i - 1], c[i])
<1> DEFINE n == Len(c)
<1>1. n \in Nat /\ n # 0 /\ DOMAIN c = 1 .. n /\ \A i \in 1 .. n : c[i] \in Crcs
  OBVIOUS
<1> HIDE DEF n
<1>2. PICK r : RunsFrom({}, c, n, r)
  BY <1>1, RunsExist
<1>3. r[0] = {} /\ \A k \in 1 .. n : r[k] = Xor(r[k - 1], c[k])
  BY <1>2 DEF RunsFrom
<1>4. ASSUME NEW i \in 1 .. n
      PROVE  UpToEach(c)[i] = r[i]
  <2> DEFINE u == SubSeq(c, 1, i)
  <2>1. i \in Nat /\ i <= Len(c) /\ 1 \in Nat \ {0} /\ 1 <= i + 1 /\ i + 1 - 1 = i
    BY <1>1 DEF n
  <2>2. /\ u \in Seq(Crcs) /\ Len(u) = i + 1 - 1
        /\ \A k \in 1 .. (i + 1 - 1) : u[k] = c[k + 1 - 1]
    BY <2>1, Piece
  <2> HIDE DEF u
  <2>3. \A k \in 1 .. i : u[k] = c[k]
    BY <2>1, <2>2
  <2>4. DOMAIN u = 1 .. i
    BY <2>1, <2>2
  <2>5. \A k \in 1 .. i : k \in 1 .. n
    BY <1>1
  <2>6. RunsFrom({}, u, i, r)
    BY <1>3, <2>3, <2>5 DEF RunsFrom
  <2>7. FoldLeft(Xor, {}, u) = r[i]
    BY <2>1, <2>4, <2>6, FoldRuns
  <2>8. UpToEach(c)[i] = FoldLeft(Xor, {}, u)
    BY <1>1 DEF UpToEach, u
  <2> QED
    BY <2>7, <2>8
<1> DEFINE Bad == {k \in 0 .. n : r[k] \notin Crcs}
<1>5. Bad = {}
  <2> SUFFICES ASSUME Bad # {} PROVE FALSE
    OBVIOUS
  <2>1. PICK k \in Bad : \A j \in Bad : k <= j
    <3>1. Bad \in SUBSET Nat
      OBVIOUS
    <3> HIDE DEF Bad
    <3> QED
      BY <3>1, Least
  <2>2. k \in 0 .. n /\ r[k] \notin Crcs
    OBVIOUS
  <2>3. k # 0
    BY <1>3, <2>2, CrcTypes
  <2>4. k - 1 \in 0 .. n /\ k - 1 \notin Bad
    <3> HIDE DEF Bad
    <3>1. n \in Nat
      BY <1>1
    <3> QED
      BY <2>1, <2>2, <2>3, <3>1
  <2>5. r[k - 1] \in Crcs /\ k \in 1 .. n
    BY <2>2, <2>3, <2>4
  <2> QED
    BY <1>1, <1>3, <2>2, <2>5, CrcTypes
<1>6. \A i \in 1 .. n : r[i] \in Crcs
  <2>1. \A i \in 1 .. n : i \in 0 .. n
    OBVIOUS
  <2> QED
    BY <1>5, <2>1
<1>7. UpToEach(c) = [i \in 1 .. n |-> r[i]]
  <2>1. UpToEach(c) = [i \in 1 .. n |-> UpToEach(c)[i]]
    BY <1>1 DEF UpToEach
  <2> QED
    BY <1>4, <2>1
<1>8. UpToEach(c) \in [1 .. n -> Crcs]
  BY <1>6, <1>7
<1>9. UpToEach(c) \in Seq(Crcs) /\ Len(UpToEach(c)) = n
  BY <1>1, <1>8
<1>10. UpToEach(c)[1] = c[1]
  <2>1. 1 \in 1 .. n /\ 1 - 1 = 0
    BY <1>1
  <2>2. r[1] = Xor(r[0], c[1])
    BY <1>3, <2>1
  <2> QED
    BY <1>3, <1>4, <2>1, <2>2, CrcTypes
<1>11. ASSUME NEW i \in 2 .. n
       PROVE  UpToEach(c)[i] = Xor(UpToEach(c)[i - 1], c[i])
  <2>1. i \in 1 .. n /\ i - 1 \in 1 .. n
    BY <1>1
  <2> QED
    BY <1>3, <1>4, <2>1
<1> QED
  BY <1>9, <1>10, <1>11 DEF n

LEMMA WithoutSlashTyped ==
    ASSUME NEW part \in Chars
    PROVE  WithoutSlash(part) \in Chars
<1>1. CASE part = << >>
  <2>1. Front(part) = << >>
    BY <1>1, SubSeqEmpty DEF Front
  <2> QED
    BY <1>1, <2>1 DEF WithoutSlash
<1>2. CASE part # << >>
  <2>1. part \in Seq(Char) /\ Len(part) \in Nat /\ Len(part) # 0
    BY <1>2 DEF Chars
  <2>2. 1 \in Nat \ {0} /\ Len(part) - 1 \in Nat /\ Len(part) - 1 <= Len(part) /\ 1 <= Len(part) - 1 + 1
    BY <2>1
  <2>3. SubSeq(part, 1, Len(part) - 1) \in Seq(Char)
    BY <2>1, <2>2, Piece
  <2> QED
    BY <2>3 DEF WithoutSlash, Front, Chars
<1> QED
  BY <1>1, <1>2

\* The CRCs of a root and of the names below it
CrcsOf(root, below) == <<Crc(root)>> \o [i \in DOMAIN below |-> CrcOfPart(below[i])]

LEMMA PathIsGood ==
    ASSUME NEW root, Plain(root), Last(root) = Slash, EndsInOne(root),
           NEW below \in Seq(Chars),
           \A k \in 1 .. Len(below) : NamePart(below[k]),
           \A k \in 1 .. (Len(below) - 1) : Last(below[k]) = Slash
    PROVE  Good([parts |-> <<root>> \o below, pathCrcs |-> UpToEach(CrcsOf(root, below))])
<1> DEFINE n == Len(below)
           d == [i \in DOMAIN below |-> CrcOfPart(below[i])]
           c == CrcsOf(root, below)
           ps == <<root>> \o below
           p == [parts |-> ps, pathCrcs |-> UpToEach(c)]
<1>1. n \in Nat /\ DOMAIN below = 1 .. n /\ \A i \in 1 .. n : below[i] \in Chars
  OBVIOUS
<1>2. root \in Chars
  BY DEF Plain
<1>3. ps \in Seq(Chars) /\ Len(ps) = n + 1 /\ ps[1] = root /\ \A i \in 1 .. n : ps[i + 1] = below[i]
  <2>1. <<root>> \in Seq(Chars) /\ Len(<<root>>) = 1 /\ <<root>>[1] = root
    BY <1>2
  <2> DEFINE h == <<root>>
  <2> HIDE DEF h
  <2>2. /\ h \o below \in Seq(Chars)
        /\ Len(h \o below) = Len(h) + Len(below)
        /\ \A i \in 1 .. Len(h) + Len(below) : (h \o below)[i] = IF i <= Len(h) THEN h[i] ELSE below[i - Len(h)]
    BY <2>1, ConcatProperties DEF h
  <2>3. Len(h) = 1 /\ h[1] = root /\ ps = h \o below
    BY <2>1 DEF h
  <2> HIDE DEF ps
  <2>4. Len(ps) = 1 + n /\ \A i \in 1 .. (1 + n) : ps[i] = IF i <= 1 THEN h[i] ELSE below[i - 1]
    BY <2>2, <2>3
  <2>5. ps[1] = root
    BY <1>1, <2>3, <2>4
  <2>6. ASSUME NEW i \in 1 .. n
        PROVE  ps[i + 1] = below[i]
    <3>1. i + 1 \in 1 .. (1 + n) /\ ~ i + 1 <= 1 /\ i + 1 - 1 = i
      BY <1>1
    <3> QED
      BY <2>4, <3>1
  <2> QED
    BY <1>1, <2>2, <2>3, <2>4, <2>5, <2>6
<1>4. \A i \in 1 .. n : CrcOfPart(below[i]) \in Crcs
  BY <1>1, WithoutSlashTyped, CrcTypes DEF CrcOfPart
<1>5. d \in Seq(Crcs) /\ Len(d) = n /\ \A i \in 1 .. n : d[i] = Crc(WithoutSlash(below[i]))
  <2>1. d \in [1 .. n -> Crcs]
    BY <1>1, <1>4
  <2>2. \A i \in 1 .. n : d[i] = CrcOfPart(below[i])
    BY <1>1
  <2> HIDE DEF d
  <2>3. d \in Seq(Crcs) /\ Len(d) = n
    BY <1>1, <2>1
  <2> QED
    BY <2>2, <2>3 DEF CrcOfPart
<1>6. c \in Seq(Crcs) /\ Len(c) = n + 1 /\ c[1] = Crc(root) /\ \A i \in 1 .. n : c[i + 1] = d[i]
  <2>0. Crc(root) \in Crcs
    BY <1>2, CrcTypes
  <2>1. <<Crc(root)>> \in Seq(Crcs) /\ Len(<<Crc(root)>>) = 1 /\ <<Crc(root)>>[1] = Crc(root)
    BY <2>0
  <2> DEFINE h == <<Crc(root)>>
  <2>3. Len(h) = 1 /\ h[1] = Crc(root) /\ c = h \o d /\ h \in Seq(Crcs)
    BY <2>1 DEF CrcsOf
  <2> HIDE DEF h, d, c
  <2>2. /\ h \o d \in Seq(Crcs)
        /\ Len(h \o d) = Len(h) + Len(d)
        /\ \A i \in 1 .. Len(h) + Len(d) : (h \o d)[i] = IF i <= Len(h) THEN h[i] ELSE d[i - Len(h)]
    BY <1>5, <2>3, ConcatProperties
  <2>4. Len(c) = 1 + n /\ \A i \in 1 .. (1 + n) : c[i] = IF i <= 1 THEN h[i] ELSE d[i - 1]
    BY <1>5, <2>2, <2>3
  <2>5. c[1] = Crc(root)
    BY <1>1, <2>3, <2>4
  <2>6. ASSUME NEW i \in 1 .. n
        PROVE  c[i + 1] = d[i]
    <3>1. i + 1 \in 1 .. (1 + n) /\ ~ i + 1 <= 1 /\ i + 1 - 1 = i
      BY <1>1
    <3> QED
      BY <2>4, <3>1
  <2> QED
    BY <1>1, <2>2, <2>3, <2>4, <2>5, <2>6
<1> HIDE DEF c, d, ps
<1>7. c # << >>
  BY <1>1, <1>6
<1>8. /\ UpToEach(c) \in Seq(Crcs) /\ Len(UpToEach(c)) = n + 1
      /\ UpToEach(c)[1] = Crc(root)
      /\ \A i \in 2 .. (n + 1) : UpToEach(c)[i] = Xor(UpToEach(c)[i - 1], c[i])
  BY <1>6, <1>7, UpToEachIs
<1>9. p.parts = ps /\ p.pathCrcs = UpToEach(c)
  OBVIOUS
<1>10. p \in [parts : Seq(Chars), pathCrcs : Seq(Crcs)]
  BY <1>3, <1>8
<1>11. \A i \in 2 .. (n + 1) : i - 1 \in 1 .. n /\ i - 1 + 1 = i
  BY <1>1
<1>12. \A i \in 2 .. (n + 1) : ps[i] = below[i - 1] /\ c[i] = Crc(WithoutSlash(below[i - 1]))
  BY <1>3, <1>5, <1>6, <1>11
<1>13. Chained(p)
  <2>1. UpToEach(c)[1] = Crc(ps[1])
    BY <1>3, <1>8
  <2>2. \A i \in 2 .. Len(ps) : UpToEach(c)[i] = Xor(UpToEach(c)[i - 1], Crc(WithoutSlash(ps[i])))
    BY <1>3, <1>8, <1>12
  <2> QED
    BY <1>9, <2>1, <2>2 DEF Chained
<1>14. Shaped(ps)
  <2>1. \A i \in 2 .. Len(ps) : NamePart(ps[i])
    BY <1>3, <1>11, <1>12
  <2>2. ASSUME NEW i \in 1 .. (Len(ps) - 1)
        PROVE  Last(ps[i]) = Slash
    <3>1. CASE i = 1
      BY <1>3, <3>1
    <3>2. CASE i # 1
      <4>1. i \in 2 .. (n + 1) /\ i - 1 \in 1 .. (n - 1)
        BY <1>1, <1>3, <3>2
      <4> QED
        BY <1>12, <4>1
    <3> QED
      BY <3>1, <3>2
  <2> QED
    BY <1>3, <2>1, <2>2 DEF Shaped
<1>15. Len(ps) # 0 /\ Len(UpToEach(c)) = Len(ps)
  BY <1>1, <1>3, <1>8
<1>16. Good(p)
  BY <1>9, <1>10, <1>13, <1>14, <1>15 DEF Good
<1> QED
  BY <1>16 DEF p, ps, c

\* What FromString makes of a string, if it does not throw
Below(str, root) ==
    LET newPath == Normalize(str, IF Last(str) \in {Slash, Inverted} THEN "ADD" ELSE "REMOVE")
    IN  Split(SubSeq(newPath, Len(Normalize(root, "ADD")) + 1, Len(newPath)))

LEMMA FromStringIs ==
    ASSUME NEW str, NEW root,
           NEW r, r = Normalize(root, "ADD"),
           NEW q, q = Normalize(str, IF Last(str) \in {Slash, Inverted} THEN "ADD" ELSE "REMOVE")
    PROVE  FromString(str, root) =
             IF IsPrefix(r, q)
             THEN [parts    |-> <<r>> \o Below(str, root),
                   pathCrcs |-> UpToEach(CrcsOf(r, Below(str, root)))]
             ELSE NoPath
  BY DEF FromString, Below, CrcsOf, UpToEach

LEMMA FromStringGood ==
    ASSUME NEW str \in Chars, str # << >>, NEW root \in Chars, root # << >>,
           FromString(str, root) # NoPath
    PROVE  Good(FromString(str, root))
<1> DEFINE r == Normalize(root, "ADD")
           q == Normalize(str, IF Last(str) \in {Slash, Inverted} THEN "ADD" ELSE "REMOVE")
           b == Below(str, root)
<1>1. Plain(r) /\ Last(r) = Slash /\ EndsInOne(r)
  BY NormalizedPlain
<1>2. Plain(q)
  BY NormalizedPlain
<1>3. b = Split(SubSeq(q, Len(r) + 1, Len(q)))
  BY DEF Below
<1>4. FromString(str, root) = IF IsPrefix(r, q)
                              THEN [parts |-> <<r>> \o b, pathCrcs |-> UpToEach(CrcsOf(r, b))]
                              ELSE NoPath
  BY FromStringIs
<1> HIDE DEF r, q, b
<1>5. IsPrefix(r, q)
  BY <1>4
<1>6. Len(r) <= Len(q) /\ q \in Seq(Char) /\ Len(q) \in Nat /\ Len(r) \in Nat
  BY <1>1, <1>2, <1>5 DEF Plain, IsPrefix, Chars
<1> DEFINE rest == SubSeq(q, Len(r) + 1, Len(q))
<1>7. rest \in Chars
  <2>1. Len(r) + 1 \in Nat \ {0} /\ Len(q) <= Len(q) /\ Len(r) + 1 <= Len(q) + 1
    BY <1>6
  <2> QED
    BY <1>6, <2>1, Piece DEF Chars
<1> HIDE DEF rest
<1>8. /\ b \in Seq(Chars)
      /\ \A k \in 1 .. Len(b) : NamePart(b[k])
      /\ \A k \in 1 .. (Len(b) - 1) : Last(b[k]) = Slash
  BY <1>3, <1>7, SplitShape DEF rest
<1> QED
  BY <1>1, <1>4, <1>5, <1>8, PathIsGood

-----------------------------------------------------------------------------
(* What changes a path                                                        *)

LEMMA RootIsGood ==
    ASSUME NEW root \in Chars, root # << >>
    PROVE  Good([parts    |-> <<Normalize(root, "ADD")>>,
                 pathCrcs |-> <<Crc(Normalize(root, "ADD"))>>])
<1> DEFINE r == Normalize(root, "ADD")
           ps == <<r>>
           cs == <<Crc(r)>>
           p == [parts |-> ps, pathCrcs |-> cs]
<1>1. Plain(r) /\ Last(r) = Slash /\ EndsInOne(r)
  BY NormalizedPlain
<1> HIDE DEF r
<1>2. r \in Chars /\ Crc(r) \in Crcs
  BY <1>1, CrcTypes DEF Plain
<1>3. ps \in Seq(Chars) /\ Len(ps) = 1 /\ ps[1] = r
  BY <1>2
<1>4. cs \in Seq(Crcs) /\ Len(cs) = 1 /\ cs[1] = Crc(r)
  BY <1>2
<1>5. p.parts = ps /\ p.pathCrcs = cs
  OBVIOUS
<1> HIDE DEF ps, cs
<1>6. p \in [parts : Seq(Chars), pathCrcs : Seq(Crcs)]
  BY <1>3, <1>4
<1> HIDE DEF p
<1>7. (\A i \in 2 .. Len(ps) : FALSE) /\ (\A i \in 1 .. (Len(ps) - 1) : FALSE)
  BY <1>3
<1>8. Chained(p)
  BY <1>3, <1>4, <1>5, <1>7 DEF Chained
<1>9. Shaped(ps)
  BY <1>1, <1>3, <1>7 DEF Shaped
<1>10. Len(p.parts) # 0 /\ Len(p.pathCrcs) = Len(p.parts)
  <2>1. Len(ps) # 0 /\ Len(cs) = Len(ps)
    BY <1>3, <1>4
  <2> QED
    BY <1>5, <2>1
<1>11. Good(p)
  BY <1>5, <1>6, <1>8, <1>9, <1>10 DEF Good
<1> QED
  BY <1>11 DEF p, ps, cs, r

LEMMA AddGood ==
    ASSUME NEW p, Good(p), NEW part, NamePart(part), NEW name, name = WithoutSlash(part), IsDir(p)
    PROVE  Good([parts    |-> Append(p.parts, part),
                 pathCrcs |-> Append(p.pathCrcs, Xor(Last(p.pathCrcs), Crc(name)))])
<1> DEFINE n == Len(p.parts)
           ps == p.parts
           cs == p.pathCrcs
           crc == Xor(Last(cs), Crc(name))
           ps2 == Append(ps, part)
           cs2 == Append(cs, crc)
           q == [parts |-> ps2, pathCrcs |-> cs2]
<1>1. /\ ps \in Seq(Chars) /\ cs \in Seq(Crcs) /\ n \in Nat /\ n # 0
      /\ Len(ps) = n /\ Len(cs) = n /\ Last(ps[n]) = Slash
  BY DEF Good, IsDir, Last
<1>2. cs[1] = Crc(ps[1]) /\ \A i \in 2 .. n : cs[i] = Xor(cs[i - 1], Crc(WithoutSlash(ps[i])))
  BY DEF Good, Chained
<1>3. /\ Plain(ps[1]) /\ Last(ps[1]) = Slash /\ EndsInOne(ps[1])
      /\ \A i \in 2 .. n : NamePart(ps[i])
      /\ \A i \in 1 .. (n - 1) : Last(ps[i]) = Slash
  BY DEF Good, Shaped
<1>4. part \in Chars /\ crc \in Crcs
  <2>1. part \in Chars /\ name \in Chars
    BY WithoutSlashTyped DEF NamePart
  <2>2. Last(cs) \in Crcs
    <3>1. n \in 1 .. Len(cs) /\ Last(cs) = cs[n]
      BY <1>1 DEF Last
    <3> HIDE DEF cs, n
    <3> QED
      BY <1>1, <3>1, ElementOfSeq
  <2> QED
    BY <2>1, <2>2, CrcTypes
<1>5. crc = Xor(cs[n], Crc(WithoutSlash(part)))
  BY <1>1 DEF Last
<1> HIDE DEF ps, cs, n, crc
<1>6. ps2 \in Seq(Chars) /\ Len(ps2) = n + 1 /\ ps2[n + 1] = part /\ \A i \in 1 .. n : ps2[i] = ps[i]
  BY <1>1, <1>4, AppendProperties
<1>7. cs2 \in Seq(Crcs) /\ Len(cs2) = n + 1 /\ cs2[n + 1] = crc /\ \A i \in 1 .. n : cs2[i] = cs[i]
  BY <1>1, <1>4, AppendProperties
<1>8. q.parts = ps2 /\ q.pathCrcs = cs2
  OBVIOUS
<1> HIDE DEF ps2, cs2
<1>9. q \in [parts : Seq(Chars), pathCrcs : Seq(Crcs)]
  BY <1>6, <1>7
<1> HIDE DEF q
<1>10. 1 \in 1 .. n
  BY <1>1
<1>11. Chained(q)
  <2>1. cs2[1] = Crc(ps2[1])
    BY <1>2, <1>6, <1>7, <1>10
  <2>2. ASSUME NEW i \in 2 .. (n + 1)
        PROVE  cs2[i] = Xor(cs2[i - 1], Crc(WithoutSlash(ps2[i])))
    <3>1. CASE i = n + 1
      <4>1. i - 1 = n /\ n \in 1 .. n
        BY <1>1, <3>1
      <4> QED
        BY <1>5, <1>6, <1>7, <3>1, <4>1
    <3>2. CASE i # n + 1
      <4>1. i \in 2 .. n /\ i \in 1 .. n /\ i - 1 \in 1 .. n
        BY <1>1, <3>2
      <4> QED
        BY <1>2, <1>6, <1>7, <4>1
    <3> QED
      BY <3>1, <3>2
  <2> QED
    BY <1>6, <1>8, <2>1, <2>2 DEF Chained
<1>12. Shaped(ps2)
  <2>1. ASSUME NEW i \in 2 .. (n + 1)
        PROVE  NamePart(ps2[i])
    <3>1. CASE i = n + 1
      BY <1>6, <3>1
    <3>2. CASE i # n + 1
      <4>1. i \in 2 .. n /\ i \in 1 .. n
        BY <1>1, <3>2
      <4> QED
        BY <1>3, <1>6, <4>1
    <3> QED
      BY <3>1, <3>2
  <2>2. ASSUME NEW i \in 1 .. n
        PROVE  Last(ps2[i]) = Slash
    <3>1. CASE i = n
      BY <1>1, <1>6, <3>1
    <3>2. CASE i # n
      <4>1. i \in 1 .. (n - 1)
        BY <1>1, <3>2
      <4> QED
        BY <1>3, <1>6, <4>1
    <3> QED
      BY <3>1, <3>2
  <2>3. Len(ps2) - 1 = n
    BY <1>1, <1>6
  <2> QED
    BY <1>3, <1>6, <1>10, <2>1, <2>2, <2>3 DEF Shaped
<1>13. Len(ps2) # 0 /\ Len(cs2) = Len(ps2)
  BY <1>1, <1>6, <1>7
<1>14. Good(q)
  BY <1>8, <1>9, <1>11, <1>12, <1>13 DEF Good
<1> QED
  BY <1>14 DEF q, ps2, cs2, ps, cs, crc

\* A name with its slash, and one without
LEMMA NameIsPart ==
    ASSUME NEW name \in Name, name # << >>
    PROVE  /\ NamePart(name) /\ WithoutSlash(name) = name
           /\ NamePart(Append(name, Slash)) /\ WithoutSlash(Append(name, Slash)) = name
<1> DEFINE n == Len(name)
           u == Append(name, Slash)
<1>1. name \in Seq(Char \ {Slash})
  BY PathAssumption
<1>2. name \in Seq(Char) /\ n \in Nat /\ n # 0 /\ \A i \in 1 .. n : name[i] # Slash
  BY <1>1
<1>3. /\ u \in Seq(Char) /\ Len(u) = n + 1 /\ u[n + 1] = Slash
      /\ \A i \in 1 .. n : u[i] = name[i]
  BY <1>2, SlashesDiffer, AppendProperties
<1> HIDE DEF u
<1>4. NamePart(name)
  BY <1>2 DEF NamePart, Chars
<1>5. WithoutSlash(name) = name
  <2>1. n \in 1 .. n
    BY <1>2
  <2> QED
    BY <1>2, <2>1 DEF WithoutSlash, Last
<1>6. NamePart(u)
  BY <1>2, <1>3 DEF NamePart, Chars
<1>7. WithoutSlash(u) = name
  <2>1. Last(u) = Slash /\ Len(u) - 1 = n
    BY <1>2, <1>3 DEF Last
  <2> DEFINE v == SubSeq(u, 1, n)
  <2>2. n <= Len(u) /\ 1 <= n + 1 /\ n + 1 - 1 = n /\ 1 \in Nat \ {0}
    BY <1>2, <1>3
  <2>3. v \in Seq(Char) /\ Len(v) = n + 1 - 1 /\ \A i \in 1 .. (n + 1 - 1) : v[i] = u[i + 1 - 1]
    BY <1>2, <1>3, <2>2, Piece
  <2>4. WithoutSlash(u) = v
    BY <2>1 DEF WithoutSlash, Front
  <2> HIDE DEF v
  <2>5. \A i \in 1 .. n : i + 1 - 1 = i
    BY <1>2
  <2>6. \A i \in 1 .. n : v[i] = name[i]
    BY <1>3, <2>2, <2>3, <2>5
  <2>7. Len(v) = Len(name)
    BY <2>2, <2>3
  <2>8. v = name
    BY <1>2, <2>3, <2>6, <2>7, SeqEqual
  <2> QED
    BY <2>4, <2>8
<1> QED
  BY <1>4, <1>5, <1>6, <1>7 DEF u

LEMMA UpGood ==
    ASSUME NEW p, Good(p), CanGoUp(p)
    PROVE  Good([parts |-> Front(p.parts), pathCrcs |-> Front(p.pathCrcs)])
<1> DEFINE n == Len(p.parts)
           ps == p.parts
           cs == p.pathCrcs
           ps2 == SubSeq(ps, 1, n - 1)
           cs2 == SubSeq(cs, 1, n - 1)
           q == [parts |-> ps2, pathCrcs |-> cs2]
<1>1. ps \in Seq(Chars) /\ cs \in Seq(Crcs) /\ n \in Nat /\ n > 1 /\ Len(ps) = n /\ Len(cs) = n
  BY DEF Good, CanGoUp
<1>2. cs[1] = Crc(ps[1]) /\ \A i \in 2 .. n : cs[i] = Xor(cs[i - 1], Crc(WithoutSlash(ps[i])))
  BY DEF Good, Chained
<1>3. /\ Plain(ps[1]) /\ Last(ps[1]) = Slash /\ EndsInOne(ps[1])
      /\ \A i \in 2 .. n : NamePart(ps[i])
      /\ \A i \in 1 .. (n - 1) : Last(ps[i]) = Slash
  BY DEF Good, Shaped
<1>4. Front(p.parts) = ps2 /\ Front(p.pathCrcs) = cs2
  BY <1>1 DEF Front
<1> HIDE DEF ps, cs, n
<1>5. /\ n - 1 \in Nat /\ n - 1 <= n /\ 1 <= n - 1 + 1 /\ n - 1 + 1 - 1 = n - 1 /\ 1 \in Nat \ {0}
      /\ \A i \in 1 .. (n - 1) : i + 1 - 1 = i /\ i \in 1 .. n
  BY <1>1
<1>6. ps2 \in Seq(Chars) /\ Len(ps2) = n - 1 /\ \A i \in 1 .. (n - 1) : ps2[i] = ps[i]
  <2>1. /\ ps2 \in Seq(Chars) /\ Len(ps2) = n - 1 + 1 - 1
        /\ \A i \in 1 .. (n - 1 + 1 - 1) : ps2[i] = ps[i + 1 - 1]
    BY <1>1, <1>5, Piece
  <2> HIDE DEF ps2
  <2> QED
    BY <1>5, <2>1
<1>7. cs2 \in Seq(Crcs) /\ Len(cs2) = n - 1 /\ \A i \in 1 .. (n - 1) : cs2[i] = cs[i]
  <2>1. /\ cs2 \in Seq(Crcs) /\ Len(cs2) = n - 1 + 1 - 1
        /\ \A i \in 1 .. (n - 1 + 1 - 1) : cs2[i] = cs[i + 1 - 1]
    BY <1>1, <1>5, Piece
  <2> HIDE DEF cs2
  <2> QED
    BY <1>5, <2>1
<1>8. q.parts = ps2 /\ q.pathCrcs = cs2
  OBVIOUS
<1> HIDE DEF ps2, cs2
<1>9. q \in [parts : Seq(Chars), pathCrcs : Seq(Crcs)]
  BY <1>6, <1>7
<1> HIDE DEF q
<1>10. /\ 1 \in 1 .. (n - 1)
       /\ \A i \in 2 .. (n - 1) : i \in 2 .. n /\ i \in 1 .. (n - 1) /\ i - 1 \in 1 .. (n - 1)
       /\ \A i \in 1 .. (n - 1 - 1) : i \in 1 .. (n - 1)
       /\ n - 1 # 0
  BY <1>1
<1>11. Chained(q)
  BY <1>2, <1>6, <1>7, <1>8, <1>10 DEF Chained
<1>12. Shaped(ps2)
  BY <1>3, <1>6, <1>10 DEF Shaped
<1>13. Good(q)
  BY <1>6, <1>7, <1>8, <1>9, <1>10, <1>11, <1>12 DEF Good
<1> QED
  BY <1>4, <1>13 DEF q

-----------------------------------------------------------------------------
(* The invariant: a path is good until it is made relative.                   *)

PathInv ==
    /\ path # NoPath /\ "path" \notin relative => Good(path)
    /\ other # NoPath /\ "other" \notin relative => Good(other)

LEMMA PathInvInit ==
    Init => PathInv
  BY DEF Init, PathInv

LEMMA MakeInv ==
    ASSUME PathInv, NEW p, Good(p), Make(p)
    PROVE  PathInv'
  BY DEF PathInv, Make

LEMMA ThrowInv ==
    ASSUME PathInv, Throw
    PROVE  PathInv'
  BY DEF PathInv, Throw

LEMMA ChangeInv ==
    ASSUME PathInv, NEW p, "path" \notin relative => Good(p), Change(p)
    PROVE  PathInv'
  BY DEF PathInv, Change

LEMMA AddInv ==
    ASSUME PathInv, path # NoPath, NEW name \in Name,
           NEW part \in {name, Append(name, Slash)}, Add(part, name)
    PROVE  PathInv'
<1>1. CASE ~ CanAdd(name)
  BY <1>1, ThrowInv DEF Add
<1>2. CASE CanAdd(name)
  <2> DEFINE p == [parts    |-> Append(path.parts, part),
                   pathCrcs |-> Append(path.pathCrcs, Xor(Last(path.pathCrcs), Crc(name)))]
  <2>1. Change(p)
    BY <1>2 DEF Add
  <2>2. ASSUME "path" \notin relative
        PROVE  Good(p)
    <3>1. Good(path) /\ IsDir(path) /\ name # << >>
      BY <1>2, <2>2 DEF PathInv, CanAdd
    <3>2. NamePart(part) /\ name = WithoutSlash(part)
      BY <3>1, NameIsPart
    <3> QED
      BY <3>1, <3>2, AddGood
  <2> HIDE DEF p
  <2> QED
    BY <2>1, <2>2, ChangeInv
<1> QED
  BY <1>1, <1>2

LEMMA PathInvStep ==
    PathInv /\ [Next]_vars => PathInv'
<1> SUFFICES ASSUME PathInv, [Next]_vars
             PROVE  PathInv'
  OBVIOUS
<1>1. ASSUME NEW root \in RootStr, FromRoot(root)
      PROVE  PathInv'
  <2>1. root \in Chars
    BY PathAssumption DEF Chars
  <2>2. CASE root = << >>
    BY <1>1, <2>2, ThrowInv DEF FromRoot
  <2>3. CASE root # << >>
    BY <1>1, <2>1, <2>3, RootIsGood, MakeInv DEF FromRoot
  <2> QED
    BY <2>2, <2>3
<1>2. ASSUME NEW root \in RootStr, NEW str \in PathStr, FromPath(str, root)
      PROVE  PathInv'
  <2>1. root \in Chars /\ str \in Chars
    BY PathAssumption DEF Chars
  <2>2. CASE << >> \in {str, root} \/ FromString(str, root) = NoPath
    BY <1>2, <2>2, ThrowInv DEF FromPath
  <2>3. CASE ~ (<< >> \in {str, root} \/ FromString(str, root) = NoPath)
    <3>1. str # << >> /\ root # << >> /\ FromString(str, root) # NoPath
      BY <2>3
    <3>2. Good(FromString(str, root))
      BY <2>1, <3>1, FromStringGood
    <3>3. Make(FromString(str, root))
      BY <1>2, <2>3 DEF FromPath
    <3> QED
      BY <3>2, <3>3, MakeInv
  <2> QED
    BY <2>2, <2>3
<1>3. ASSUME NEW name \in Name, path # NoPath, AddDir(name)
      PROVE  PathInv'
  BY <1>3, AddInv DEF AddDir
<1>4. ASSUME NEW name \in Name, path # NoPath, AddFile(name)
      PROVE  PathInv'
  BY <1>4, AddInv DEF AddFile
<1>5. ASSUME path # NoPath, GoUp
      PROVE  PathInv'
  <2>1. CASE ~ CanGoUp(path)
    BY <1>5, <2>1, ChangeInv DEF GoUp, PathInv
  <2>2. CASE CanGoUp(path)
    <3> DEFINE p == [parts |-> Front(path.parts), pathCrcs |-> Front(path.pathCrcs)]
    <3>1. "path" \notin relative => Good(p)
      BY <1>5, <2>2, UpGood DEF PathInv
    <3>2. Change(p)
      BY <1>5, <2>2 DEF GoUp
    <3> HIDE DEF p
    <3> QED
      BY <3>1, <3>2, ChangeInv
  <2> QED
    BY <2>1, <2>2
<1>6. ASSUME path # NoPath, Copy
      PROVE  PathInv'
  BY <1>6 DEF Copy, PathInv
<1>7. ASSUME MakeRelativeTo
      PROVE  PathInv'
  <2>1. CASE CompareTo(path, other) = "CHILD"
    BY <1>7, <2>1 DEF MakeRelativeTo, PathInv
  <2>2. CASE CompareTo(path, other) # "CHILD"
    <3>1. Change(path) /\ path # NoPath
      BY <1>7, <2>2 DEF MakeRelativeTo
    <3> QED
      BY <3>1, ChangeInv DEF PathInv
  <2> QED
    BY <2>1, <2>2
<1>8. CASE UNCHANGED vars
  BY <1>8 DEF vars, PathInv
<1> QED
  BY <1>1, <1>2, <1>3, <1>4, <1>5, <1>6, <1>7, <1>8 DEF Next

LEMMA PathInvAlways ==
    Spec => []PathInv
  BY PathInvInit, PathInvStep, PTL DEF Spec

LEMMA AbsoluteGood ==
    ASSUME PathInv, NEW p \in Absolute
    PROVE  Good(p)
  BY DEF PathInv, Absolute, Paths

-----------------------------------------------------------------------------
(* Theorems                                                                   *)

LEMMA CrcsOfGood ==
    ASSUME NEW p, Good(p), NEW i \in DOMAIN p.parts
    PROVE  p.pathCrcs[i] = FoldLeft(Xor, Crc(p.parts[1]),
                                    [j \in 1 .. (i - 1) |-> Crc(WithoutSlash(p.parts[j + 1]))])
<1> DEFINE s == [j \in 1 .. (i - 1) |-> Crc(WithoutSlash(p.parts[j + 1]))]
           r == [k \in 0 .. (i - 1) |-> p.pathCrcs[k + 1]]
           n == i - 1
<1>1. /\ p.pathCrcs[1] = Crc(p.parts[1])
      /\ \A k \in 2 .. Len(p.parts) : p.pathCrcs[k] = Xor(p.pathCrcs[k - 1], Crc(WithoutSlash(p.parts[k])))
  BY DEF Good, Chained
<1>2. Len(p.parts) \in Nat /\ i \in 1 .. Len(p.parts)
  BY DEF Good
<1>3. n \in Nat /\ i = n + 1 /\ DOMAIN s = 1 .. n
  BY <1>2
<1>4. r[0] = Crc(p.parts[1]) /\ r[n] = p.pathCrcs[i]
  BY <1>1, <1>3
<1>5. ASSUME NEW k \in 1 .. n
      PROVE  r[k] = Xor(r[k - 1], s[k])
  <2>1. k \in 0 .. n /\ k - 1 \in 0 .. n /\ k - 1 + 1 = k /\ k + 1 \in 2 .. Len(p.parts) /\ k + 1 - 1 = k
    BY <1>2, <1>3
  <2>2. r[k] = p.pathCrcs[k + 1] /\ r[k - 1] = p.pathCrcs[k] /\ s[k] = Crc(WithoutSlash(p.parts[k + 1]))
    BY <2>1
  <2> QED
    BY <1>1, <2>1, <2>2
<1> HIDE DEF s, r, n
<1>6. RunsFrom(Crc(p.parts[1]), s, n, r)
  BY <1>4, <1>5 DEF RunsFrom
<1>7. FoldLeft(Xor, Crc(p.parts[1]), s) = r[n]
  BY <1>3, <1>6, FoldRuns
<1> QED
  BY <1>4, <1>7 DEF s

\* Whichever way a path was made, by a constructor or by operations on another, each of
\* its CRCs is the XOR of those of the names up to there (CrcsAgree).
THEOREM CrcsAlwaysAgree ==
    Spec => []CrcsAgree
<1>1. PathInv => CrcsAgree
  BY AbsoluteGood, CrcsOfGood DEF CrcsAgree
<1> QED
  BY <1>1, PathInvAlways, PTL

LEMMA SameNamesSameCrc ==
    ASSUME NEW p, Good(p), NEW q, Good(q), NEW n \in Nat \ {0},
           n <= Len(p.parts), n <= Len(q.parts), \A i \in 1 .. n : p.parts[i] = q.parts[i]
    PROVE  p.pathCrcs[n] = q.pathCrcs[n]
<1>1. n \in DOMAIN p.parts /\ n \in DOMAIN q.parts
  BY DEF Good
<1>2. p.parts[1] = q.parts[1]
  OBVIOUS
<1>3. \A j \in 1 .. (n - 1) : p.parts[j + 1] = q.parts[j + 1]
  OBVIOUS
<1>4. [j \in 1 .. (n - 1) |-> Crc(WithoutSlash(p.parts[j + 1]))]
        = [j \in 1 .. (n - 1) |-> Crc(WithoutSlash(q.parts[j + 1]))]
  BY <1>3
<1>5. p.pathCrcs[n] = FoldLeft(Xor, Crc(p.parts[1]),
                               [j \in 1 .. (n - 1) |-> Crc(WithoutSlash(p.parts[j + 1]))])
  BY <1>1, CrcsOfGood
<1>6. q.pathCrcs[n] = FoldLeft(Xor, Crc(q.parts[1]),
                               [j \in 1 .. (n - 1) |-> Crc(WithoutSlash(q.parts[j + 1]))])
  BY <1>1, CrcsOfGood
<1> QED
  BY <1>2, <1>4, <1>5, <1>6

LEMMA CompareOfGood ==
    ASSUME NEW p, Good(p), NEW q, Good(q)
    PROVE  CompareTo(p, q) = CASE p.parts = q.parts                -> "EQUAL"
                               [] IsStrictPrefix(p.parts, q.parts) -> "PARENT"
                               [] IsStrictPrefix(q.parts, p.parts) -> "CHILD"
                               [] OTHER                            -> "DIFFERENT"
<1> DEFINE ps == p.parts
           qs == q.parts
           m == Len(ps)
           k == Len(qs)
           n == Min({m, k})
           agree == \A i \in 1 .. n : ps[i] = qs[i]
<1>1. ps \in Seq(Chars) /\ qs \in Seq(Chars) /\ m \in Nat \ {0} /\ k \in Nat \ {0}
  BY DEF Good
<1>2. n = IF m <= k THEN m ELSE k
  <2> HIDE DEF ps, qs, m, k
  <2>1. CASE m <= k
    BY <1>1, <2>1 DEF Min
  <2>2. CASE ~ m <= k
    BY <1>1, <2>2 DEF Min
  <2> QED
    BY <2>1, <2>2
<1>3. agree => p.pathCrcs[n] = q.pathCrcs[n]
  <2>1. n \in Nat \ {0} /\ n <= m /\ n <= k
    BY <1>1, <1>2
  <2> HIDE DEF n
  <2> QED
    BY <2>1, SameNamesSameCrc
<1>4. CompareTo(p, q) = IF agree THEN IF m < k THEN "PARENT" ELSE IF m = k THEN "EQUAL" ELSE "CHILD"
                        ELSE "DIFFERENT"
  <2>1. CASE agree
    BY <1>3, <2>1 DEF CompareTo
  <2>2. CASE ~ agree
    <3>1. \E i \in 1 .. n : ps[i] # qs[i]
      BY <2>2
    <3> QED
      BY <2>2, <3>1 DEF CompareTo
  <2> QED
    BY <2>1, <2>2
<1>5. ps = qs <=> m = k /\ agree
  <2>1. ASSUME m = k, agree
        PROVE  ps = qs
    <3>1. \A i \in 1 .. m : ps[i] = qs[i]
      BY <1>2, <2>1
    <3> QED
      BY <1>1, <2>1, <3>1, SeqEqual
  <2>2. ASSUME ps = qs
        PROVE  m = k /\ agree
    BY <2>2
  <2> QED
    BY <2>1, <2>2
<1>6. IsPrefix(ps, qs) <=> m <= k /\ agree
  <2>1. IsPrefix(ps, qs) <=> m <= k /\ \A i \in 1 .. m : ps[i] = qs[i]
    BY <1>1, PrefixPointwise
  <2> QED
    BY <1>2, <2>1
<1>7. IsPrefix(qs, ps) <=> k <= m /\ agree
  <2>1. IsPrefix(qs, ps) <=> k <= m /\ \A i \in 1 .. k : qs[i] = ps[i]
    BY <1>1, PrefixPointwise
  <2>2. k <= m => n = k
    <3> HIDE DEF m, k, n
    <3> QED
      BY <1>1, <1>2
  <2> QED
    BY <2>1, <2>2
<1> HIDE DEF ps, qs, m, k, n, agree
<1>8. IsStrictPrefix(ps, qs) <=> m < k /\ agree
  BY <1>1, <1>5, <1>6 DEF IsStrictPrefix
<1>9. IsStrictPrefix(qs, ps) <=> k < m /\ agree
  BY <1>1, <1>5, <1>7 DEF IsStrictPrefix
<1>10. CompareTo(p, q) = CASE ps = qs                -> "EQUAL"
                           [] IsStrictPrefix(ps, qs) -> "PARENT"
                           [] IsStrictPrefix(qs, ps) -> "CHILD"
                           [] OTHER                  -> "DIFFERENT"
  <2>1. CASE ~ agree
    BY <1>4, <1>5, <1>8, <1>9, <2>1
  <2>2. CASE agree /\ m = k
    BY <1>1, <1>4, <1>5, <1>8, <1>9, <2>2
  <2>3. CASE agree /\ m < k
    BY <1>1, <1>4, <1>5, <1>8, <1>9, <2>3
  <2>4. CASE agree /\ k < m
    BY <1>1, <1>4, <1>5, <1>8, <1>9, <2>4
  <2> QED
    BY <1>1, <2>1, <2>2, <2>3, <2>4
<1> QED
  BY <1>10 DEF ps, qs

\* Comparing CRCs first is exact, though CRCs collide: two paths are found equal, the one
\* above the other or different just when their names say so (CompareExact).
THEOREM CompareAlwaysExact ==
    Spec => []CompareExact
<1>1. PathInv => CompareExact
  BY AbsoluteGood, CompareOfGood DEF CompareExact
<1> QED
  BY <1>1, PathInvAlways, PTL

-----------------------------------------------------------------------------
(* A path as a string: where its names are, and that Split finds them there.  *)

\* g has the concatenation of the first i of ps, for each i up to n.
Flat(ps, n, g) == g = [i \in 1 .. n |-> IF i = 1 THEN ps[i] ELSE g[i - 1] \o ps[i]]

LEMMA FlattenIs ==
    ASSUME NEW ps, Len(ps) # 0
    PROVE  FlattenSeq(ps) = (CHOOSE g : Flat(ps, Len(ps), g))[Len(ps)]
  BY DEF FlattenSeq, Flat

LEMMA FlatExists ==
    ASSUME NEW ps, NEW n \in Nat
    PROVE  \E g : Flat(ps, n, g)
<1> DEFINE Bad == {k \in Nat : ~ \E g : Flat(ps, k, g)}
<1> SUFFICES ASSUME Bad # {} PROVE FALSE
  OBVIOUS
<1>1. PICK k \in Bad : \A j \in Bad : k <= j
  <2>1. Bad \in SUBSET Nat
    OBVIOUS
  <2> HIDE DEF Bad
  <2> QED
    BY <2>1, Least
<1>2. k \in Nat /\ ~ \E g : Flat(ps, k, g)
  OBVIOUS
<1>3. CASE k = 0
  <2>1. \A i \in 1 .. k : FALSE
    BY <1>3
  <2>2. Flat(ps, k, [i \in 1 .. k |-> ps[i]])
    BY <2>1 DEF Flat
  <2> QED
    BY <1>2, <2>2
<1>4. CASE k # 0
  <2>1. k - 1 \in Nat /\ k - 1 \notin Bad
    <3> HIDE DEF Bad
    <3> QED
      BY <1>1, <1>2, <1>4
  <2>2. PICK g : Flat(ps, k - 1, g)
    BY <2>1
  <2> DEFINE h == [i \in 1 .. k |-> IF i = 1 THEN ps[i] ELSE g[i - 1] \o ps[i]]
  <2>3. ASSUME NEW i \in 1 .. (k - 1)
        PROVE  h[i] = g[i]
    <3>1. i \in 1 .. k
      BY <1>2
    <3> QED
      BY <2>2, <3>1 DEF Flat
  <2>4. ASSUME NEW i \in 1 .. k
        PROVE  h[i] = IF i = 1 THEN ps[i] ELSE h[i - 1] \o ps[i]
    <3>1. i # 1 => i - 1 \in 1 .. (k - 1)
      BY <1>2
    <3>2. i # 1 => h[i - 1] = g[i - 1]
      BY <2>3, <3>1
    <3>3. h[i] = IF i = 1 THEN ps[i] ELSE g[i - 1] \o ps[i]
      OBVIOUS
    <3> HIDE DEF h
    <3> QED
      BY <3>2, <3>3
  <2>5. h = [i \in 1 .. k |-> h[i]]
    OBVIOUS
  <2> HIDE DEF h
  <2>6. Flat(ps, k, h)
    BY <2>4, <2>5 DEF Flat
  <2> QED
    BY <1>2, <2>6
<1> QED
  BY <1>3, <1>4

\* s has t at the positions after n.
At(s, n, t) == \A y \in 1 .. Len(t) : s[n + y] = t[y]

\* f has where each of the names of ps ends in the string s, which is all of them.
Laid(ps, s, f) ==
    /\ s \in Chars
    /\ f[0] = 0 /\ f[Len(ps)] = Len(s)
    /\ \A i \in 0 .. Len(ps) : f[i] \in Nat /\ f[i] <= Len(s)
    /\ \A i \in 1 .. Len(ps) : f[i] = f[i - 1] + Len(ps[i]) /\ At(s, f[i - 1], ps[i])

LEMMA FlattenLaid ==
    ASSUME NEW ps \in Seq(Chars), Len(ps) # 0
    PROVE  \E f : Laid(ps, FlattenSeq(ps), f)
<1> DEFINE n == Len(ps)
           g == CHOOSE g : Flat(ps, n, g)
           s == FlattenSeq(ps)
           f == [i \in 0 .. n |-> IF i = 0 THEN 0 ELSE Len(g[i])]
           Done(k) == /\ g[k] \in Chars
                      /\ f[k] = Len(g[k])
                      /\ \A i \in 0 .. k : f[i] \in Nat /\ f[i] <= f[k]
                      /\ \A i \in 1 .. k : f[i] = f[i - 1] + Len(ps[i]) /\ At(g[k], f[i - 1], ps[i])
           Bad == {k \in 1 .. n : ~ Done(k)}
<1>1. n \in Nat /\ n # 0 /\ \A i \in 1 .. n : ps[i] \in Chars /\ Len(ps[i]) \in Nat
  BY DEF Chars
<1>2. Flat(ps, n, g) /\ s = g[n]
  BY <1>1, FlatExists, FlattenIs
<1> HIDE DEF g, s, n
<1>3. \A i \in 1 .. n : g[i] = IF i = 1 THEN ps[i] ELSE g[i - 1] \o ps[i]
  BY <1>2 DEF Flat
<1>4. f[0] = 0 /\ \A i \in 1 .. n : f[i] = Len(g[i])
  <2>1. 0 \in 0 .. n /\ \A i \in 1 .. n : i \in 0 .. n /\ i # 0
    BY <1>1
  <2> QED
    BY <2>1
<1> HIDE DEF f
<1>5. Bad = {}
  <2> SUFFICES ASSUME Bad # {} PROVE FALSE
    OBVIOUS
  <2>1. PICK k \in Bad : \A j \in Bad : k <= j
    <3>1. Bad \in SUBSET Nat
      OBVIOUS
    <3> HIDE DEF Bad
    <3> QED
      BY <3>1, Least
  <2>2. k \in 1 .. n /\ ~ Done(k)
    OBVIOUS
  <2>3. CASE k = 1
    <3>1. g[1] = ps[1] /\ f[1] = Len(ps[1]) /\ ps[1] \in Chars /\ Len(ps[1]) \in Nat
      BY <1>1, <1>3, <1>4, <2>2, <2>3
    <3>2. \A i \in 0 .. 1 : f[i] \in Nat /\ f[i] <= f[1]
      BY <1>4, <3>1
    <3>3. At(ps[1], 0, ps[1])
      BY <3>1 DEF At
    <3>4. \A i \in 1 .. 1 : f[i] = f[i - 1] + Len(ps[i]) /\ At(g[1], f[i - 1], ps[i])
      BY <1>4, <3>1, <3>3
    <3> QED
      BY <2>2, <2>3, <3>1, <3>2, <3>4
  <2>4. CASE k # 1
    <3> DEFINE j == k - 1
               t == g[j]
               p == ps[k]
               u == t \o p
    <3>1. j \in 1 .. n /\ j \notin Bad /\ k \in 1 .. n /\ k = j + 1
      <4> HIDE DEF Bad
      <4> QED
        BY <1>1, <2>1, <2>2, <2>4
    <3>2. Done(j)
      BY <3>1
    <3>3. /\ t \in Chars /\ f[j] = Len(t)
          /\ \A i \in 0 .. j : f[i] \in Nat /\ f[i] <= f[j]
          /\ \A i \in 1 .. j : f[i] = f[i - 1] + Len(ps[i]) /\ At(t, f[i - 1], ps[i])
      BY <3>2
    <3>4. p \in Seq(Char) /\ Len(p) \in Nat /\ t \in Seq(Char) /\ Len(t) \in Nat
      BY <1>1, <3>1, <3>3 DEF Chars
    <3>5. g[k] = u /\ f[k] = Len(u)
      BY <1>3, <1>4, <2>2, <2>4
    <3> HIDE DEF t, p, j, Bad
    <3>6. /\ u \in Seq(Char) /\ Len(u) = Len(t) + Len(p)
          /\ \A x \in 1 .. Len(t) + Len(p) : u[x] = IF x <= Len(t) THEN t[x] ELSE p[x - Len(t)]
      BY <3>4, ConcatProperties
    <3> HIDE DEF u
    <3>7. f[k] = f[j] + Len(p) /\ f[j] \in Nat
      BY <3>3, <3>4, <3>5, <3>6
    <3>8. ASSUME NEW i \in 0 .. k
          PROVE  f[i] \in Nat /\ f[i] <= f[k]
      <4>1. CASE i = k
        BY <3>4, <3>7, <4>1
      <4>2. CASE i # k
        <5>1. i \in 0 .. j
          BY <3>1, <4>2
        <5>2. f[i] \in Nat /\ f[i] <= f[j]
          BY <3>3, <5>1
        <5> QED
          BY <3>4, <3>7, <5>2
      <4> QED
        BY <4>1, <4>2
    <3>9. At(u, f[j], p)
      <4>1. ASSUME NEW y \in 1 .. Len(p)
            PROVE  u[f[j] + y] = p[y]
        <5> DEFINE x == f[j] + y
        <5>1. x \in 1 .. Len(t) + Len(p) /\ ~ x <= Len(t) /\ x - Len(t) = y
          BY <3>3, <3>4
        <5> QED
          BY <3>6, <5>1
      <4> QED
        BY <4>1 DEF At
    <3>10. ASSUME NEW i \in 1 .. k
           PROVE  f[i] = f[i - 1] + Len(ps[i]) /\ At(u, f[i - 1], ps[i])
      <4>1. CASE i = k
        <5>1. i - 1 = j /\ ps[i] = p
          BY <3>1, <4>1 DEF p
        <5> QED
          BY <3>7, <3>9, <4>1, <5>1
      <4>2. CASE i # k
        <5>1. i \in 1 .. j /\ i - 1 \in 0 .. j /\ i \in 0 .. j /\ i \in 1 .. n
          BY <1>1, <3>1, <4>2
        <5>2. /\ f[i] = f[i - 1] + Len(ps[i]) /\ At(t, f[i - 1], ps[i])
              /\ f[i - 1] \in Nat /\ f[i] <= Len(t) /\ Len(ps[i]) \in Nat
          BY <1>1, <3>3, <5>1
        <5>3. ASSUME NEW y \in 1 .. Len(ps[i])
              PROVE  u[f[i - 1] + y] = ps[i][y]
          <6> DEFINE x == f[i - 1] + y
          <6>1. x \in 1 .. Len(t) + Len(p) /\ x <= Len(t)
            BY <3>4, <5>2
          <6>2. u[x] = t[x]
            BY <3>6, <6>1
          <6> QED
            BY <5>2, <6>2 DEF At
        <5> QED
          BY <5>2, <5>3 DEF At
      <4> QED
        BY <4>1, <4>2
    <3>11. g[k] \in Chars /\ f[k] = Len(g[k])
      BY <3>5, <3>6 DEF Chars
    <3> QED
      BY <2>2, <3>5, <3>8, <3>10, <3>11
  <2> QED
    BY <2>3, <2>4
<1>6. Done(n)
  <2>1. n \in 1 .. n
    BY <1>1
  <2> QED
    BY <1>5, <2>1
<1>7. s \in Chars /\ f[n] = Len(s)
  BY <1>2, <1>6
<1>8. Laid(ps, s, f)
  BY <1>2, <1>4, <1>6, <1>7 DEF Laid, n
<1> QED
  BY <1>8 DEF s

\* f has where s is cut: behind each of its slashes, and at its end.
Cut(s, c, f) ==
    /\ c \in Nat /\ f[0] = 0 /\ f[c] = Len(s)
    /\ \A k \in 0 .. c : f[k] \in Nat
    /\ \A k \in 1 .. c : f[k - 1] < f[k]
    /\ \A k \in 1 .. (c - 1) : s[f[k]] = Slash
    /\ \A k \in 1 .. c, x \in 1 .. Len(s) : f[k - 1] < x /\ x < f[k] => s[x] # Slash

\* The cuts are in order, and each position is between two of them.
LEMMA CutOrder ==
    ASSUME NEW s \in Chars, NEW c, NEW f, Cut(s, c, f)
    PROVE  /\ \A j, k \in 0 .. c : j < k => f[j] < f[k]
           /\ \A x \in 1 .. Len(s) : \E k \in 1 .. c : f[k - 1] < x /\ x <= f[k]
<1>1. /\ c \in Nat /\ f[0] = 0 /\ f[c] = Len(s)
      /\ \A k \in 0 .. c : f[k] \in Nat
      /\ \A k \in 1 .. c : f[k - 1] < f[k]
  BY DEF Cut
<1>2. ASSUME NEW j \in 0 .. c, NEW k \in 0 .. c, j < k
      PROVE  f[j] < f[k]
  <2> DEFINE T == {i \in 0 .. c : j < i /\ ~ f[j] < f[i]}
  <2> SUFFICES ASSUME T # {} PROVE FALSE
    BY <1>2
  <2>1. PICK i \in T : \A l \in T : i <= l
    <3>1. T \in SUBSET Nat
      OBVIOUS
    <3> HIDE DEF T
    <3> QED
      BY <3>1, Least
  <2>2. i \in 0 .. c /\ j < i /\ ~ f[j] < f[i]
    OBVIOUS
  <2>3. i \in 1 .. c /\ i - 1 \in 0 .. c
    BY <1>1, <2>2
  <2>4. i - 1 \notin T
    <3> HIDE DEF T
    <3> QED
      BY <2>1, <2>2
  <2>5. i - 1 = j \/ f[j] < f[i - 1]
    BY <2>2, <2>3, <2>4
  <2>6. f[i - 1] < f[i] /\ f[i] \in Nat /\ f[i - 1] \in Nat /\ f[j] \in Nat
    BY <1>1, <2>2, <2>3
  <2> QED
    BY <2>2, <2>5, <2>6
<1>3. ASSUME NEW x \in 1 .. Len(s)
      PROVE  \E k \in 1 .. c : f[k - 1] < x /\ x <= f[k]
  <2> DEFINE T == {k \in 0 .. c : x <= f[k]}
  <2>1. c \in T
    BY <1>1
  <2>2. PICK k \in T : \A l \in T : k <= l
    <3>1. T \in SUBSET Nat
      OBVIOUS
    <3> HIDE DEF T
    <3> QED
      BY <2>1, <3>1, Least
  <2>3. k \in 0 .. c /\ x <= f[k]
    OBVIOUS
  <2>4. k # 0
    BY <1>1, <2>3
  <2>5. k \in 1 .. c /\ k - 1 \in 0 .. c
    BY <1>1, <2>3, <2>4
  <2>6. k - 1 \notin T
    <3> HIDE DEF T
    <3> QED
      BY <2>2, <2>3
  <2>7. ~ x <= f[k - 1] /\ f[k - 1] \in Nat
    BY <1>1, <2>5, <2>6
  <2> QED
    BY <2>3, <2>5, <2>7
<1> QED
  BY <1>2, <1>3

\* Split cuts where f says.
LEMMA SplitAtCuts ==
    ASSUME NEW s \in Chars, NEW c, NEW f, Cut(s, c, f)
    PROVE  /\ Len(Split(s)) = c
           /\ \A k \in 1 .. c : Split(s)[k] = SubSeq(s, f[k - 1] + 1, f[k])
<1> DEFINE K == Starts(s)
           m == Len(s)
           at(k) == f[k - 1] + 1
           upTo(k) == {j \in K : j <= at(k)}
<1>1. /\ c \in Nat /\ f[0] = 0 /\ f[c] = m
      /\ \A k \in 0 .. c : f[k] \in Nat
      /\ \A k \in 1 .. c : f[k - 1] < f[k]
      /\ \A k \in 1 .. (c - 1) : s[f[k]] = Slash
      /\ \A k \in 1 .. c, x \in 1 .. m : f[k - 1] < x /\ x < f[k] => s[x] # Slash
  BY DEF Cut
<1>2. m \in Nat /\ DOMAIN s = 1 .. m
  BY DEF Chars
<1>3. /\ \A j, k \in 0 .. c : j < k => f[j] < f[k]
      /\ \A x \in 1 .. m : \E k \in 1 .. c : f[k - 1] < x /\ x <= f[k]
  BY CutOrder
<1>4. \A i : i \in K <=> i \in 1 .. m /\ (i = 1 \/ s[i - 1] = Slash)
  BY <1>2 DEF Starts
<1>5. K \in SUBSET (1 .. m)
  BY <1>4
<1> HIDE DEF K, m
<1>6. \A k \in 0 .. c : f[k] <= m
  <2>1. \A k \in 0 .. c : k = c \/ k < c
    BY <1>1
  <2>2. c \in 0 .. c
    BY <1>1
  <2> QED
    BY <1>1, <1>2, <1>3, <2>1, <2>2
<1>7. ASSUME NEW k \in 1 .. c
      PROVE  at(k) \in K /\ at(k) <= f[k] /\ at(k) \in 1 .. m
  <2>1. k - 1 \in 0 .. c /\ k \in 0 .. c
    BY <1>1
  <2>2. f[k - 1] \in Nat /\ f[k] \in Nat /\ f[k - 1] < f[k] /\ f[k] <= m
    BY <1>1, <1>6, <2>1
  <2>3. at(k) \in 1 .. m /\ at(k) - 1 = f[k - 1] /\ at(k) <= f[k]
    BY <1>2, <2>2
  <2>4. CASE k = 1
    BY <1>1, <1>4, <2>3, <2>4
  <2>5. CASE k # 1
    <3>1. k - 1 \in 1 .. (c - 1)
      BY <1>1, <2>5
    <3>2. s[f[k - 1]] = Slash
      BY <1>1, <3>1
    <3> QED
      BY <1>4, <2>3, <3>2
  <2> QED
    BY <2>4, <2>5
<1>8. ASSUME NEW i \in K
      PROVE  \E k \in 1 .. c : i = at(k)
  <2>1. i \in 1 .. m /\ (i = 1 \/ s[i - 1] = Slash)
    BY <1>4
  <2>2. PICK k \in 1 .. c : f[k - 1] < i /\ i <= f[k]
    BY <1>3, <2>1
  <2>3. k - 1 \in 0 .. c /\ k \in 0 .. c /\ f[k - 1] \in Nat /\ f[k] \in Nat
    BY <1>1
  <2>4. CASE i = 1
    BY <2>2, <2>3, <2>4
  <2>5. CASE i # 1
    <3>1. i - 1 \in 1 .. m /\ s[i - 1] = Slash /\ i - 1 < f[k]
      BY <1>2, <2>1, <2>2, <2>3, <2>5
    <3>2. ~ f[k - 1] < i - 1
      BY <1>1, <3>1
    <3>3. i = f[k - 1] + 1
      BY <2>1, <2>2, <2>3, <3>2
    <3> QED
      BY <3>3
  <2> QED
    BY <2>4, <2>5
<1>9. \A j, k \in 1 .. c : j < k => at(j) < at(k)
  <2> SUFFICES ASSUME NEW j \in 1 .. c, NEW k \in 1 .. c, j < k
               PROVE  at(j) < at(k)
    OBVIOUS
  <2>1. j - 1 \in 0 .. c /\ k - 1 \in 0 .. c /\ j - 1 < k - 1
    BY <1>1
  <2>2. f[j - 1] < f[k - 1] /\ f[j - 1] \in Nat /\ f[k - 1] \in Nat
    BY <1>1, <1>3, <2>1
  <2> QED
    BY <2>2
<1>10. \A k \in 1 .. c : at(k) \in Nat
  BY <1>7
<1> HIDE DEF at
\* the k-th of the starts is behind the cut before it
<1>11. ASSUME NEW k \in 1 .. c
       PROVE  Cardinality(upTo(k)) = k
  <2> DEFINE h == [j \in 1 .. k |-> at(j)]
  <2>1. \A j \in 1 .. k : j \in 1 .. c /\ (j = k \/ j < k)
    BY <1>1
  <2>2. \A j \in 1 .. k : at(j) \in upTo(k)
    BY <1>7, <1>9, <1>10, <2>1
  <2>3. ASSUME NEW i \in upTo(k)
        PROVE  \E j \in 1 .. k : i = at(j)
    <3>1. PICK j \in 1 .. c : i = at(j)
      BY <1>8
    <3>2. ~ k < j
      BY <1>9, <1>10, <3>1
    <3>3. j \in 1 .. k
      BY <1>1, <3>2
    <3> QED
      BY <3>1, <3>3
  <2>4. \A i, j \in 1 .. k : h[i] = h[j] => i = j
    <3> SUFFICES ASSUME NEW i \in 1 .. k, NEW j \in 1 .. k, i # j
                 PROVE  at(i) # at(j)
      OBVIOUS
    <3>1. i < j \/ j < i
      OBVIOUS
    <3> QED
      BY <1>9, <1>10, <2>1, <3>1
  <2> HIDE DEF upTo
  <2>5. h \in [1 .. k -> upTo(k)]
    BY <2>2
  <2>6. \A i \in upTo(k) : \E j \in 1 .. k : h[j] = i
    BY <2>3
  <2> HIDE DEF h
  <2>7. h \in Bijection(1 .. k, upTo(k))
    BY <2>4, <2>5, <2>6 DEF Bijection, Injection, Surjection, IsInjective
  <2>8. k \in Nat
    BY <1>1
  <2> QED
    BY <2>7, <2>8, FS_CountingElements DEF ExistsBijection
<1>12. ASSUME NEW k \in 1 .. c
       PROVE  Rank(K, at(k)) = k
  BY <1>11 DEF Rank
<1>13. Cardinality(K) = c
  <2>1. CASE c = 0
    <3>1. K = {}
      BY <1>8, <2>1
    <3> QED
      BY <2>1, <3>1, FS_EmptySet
  <2>2. CASE c # 0
    <3>1. c \in 1 .. c
      BY <1>1, <2>2
    <3>2. \A k \in 1 .. c : k = c \/ k < c
      BY <1>1
    <3>3. \A i \in K : i <= at(c)
      BY <1>8, <1>9, <1>10, <3>1, <3>2
    <3>4. upTo(c) = K
      BY <3>3
    <3> QED
      BY <1>11, <3>1, <3>4
  <2> QED
    BY <2>1, <2>2
<1>14. ASSUME NEW k \in 1 .. c
       PROVE  Nth(K, k) = at(k)
  <2>1. PICK n \in 1 .. Cardinality(K) : Nth(K, n) = at(k)
    BY <1>2, <1>5, <1>7, NthProperties
  <2>2. Rank(K, Nth(K, n)) = n
    BY <1>2, <1>5, NthRank
  <2> QED
    BY <1>12, <2>1, <2>2
<1>15. ASSUME NEW k \in 1 .. c
       PROVE  Min(Ends(s, at(k))) = f[k]
  <2> DEFINE e == Min(Ends(s, at(k)))
  <2>1. at(k) \in 1 .. m /\ at(k) <= f[k]
    BY <1>7
  <2>2. /\ e \in 1 .. m /\ at(k) <= e
        /\ s[e] = Slash \/ e = m
        /\ \A j \in 1 .. m : at(k) <= j /\ s[j] = Slash => e <= j
    BY <2>1, EndIs DEF m
  <2> HIDE DEF e
  <2>3. k - 1 \in 0 .. c /\ k \in 0 .. c
    BY <1>1
  <2>4. f[k] \in Nat /\ f[k] <= m /\ f[k - 1] \in Nat /\ at(k) = f[k - 1] + 1
    BY <1>1, <1>6, <2>3 DEF at
  <2>5. f[k] \in 1 .. m
    BY <1>2, <2>1, <2>4
  <2>6. e <= f[k]
    <3>1. CASE k = c
      BY <1>1, <2>2, <3>1
    <3>2. CASE k # c
      <4>1. k \in 1 .. (c - 1)
        BY <1>1, <3>2
      <4>2. s[f[k]] = Slash
        BY <1>1, <4>1
      <4> QED
        BY <2>1, <2>2, <2>5, <4>2
    <3> QED
      BY <3>1, <3>2
  <2>7. ~ e < f[k]
    <3> SUFFICES ASSUME e < f[k] PROVE FALSE
      OBVIOUS
    <3>1. f[k - 1] < e
      BY <2>2, <2>4
    <3>2. s[e] # Slash
      BY <1>1, <2>2, <3>1
    <3>3. e # m
      BY <1>2, <2>2, <2>4
    <3> QED
      BY <2>2, <3>2, <3>3
  <2>8. e = f[k]
    BY <2>2, <2>4, <2>6, <2>7
  <2> QED
    BY <2>8 DEF e
<1>16. Split(s) = [k \in 1 .. c |-> SubSeq(s, Nth(K, k), Min(Ends(s, Nth(K, k))))]
  BY <1>13, SplitIs DEF K
<1>17. Len(Split(s)) = c
  BY <1>1, <1>16
<1>18. ASSUME NEW k \in 1 .. c
       PROVE  Split(s)[k] = SubSeq(s, f[k - 1] + 1, f[k])
  <2>1. Split(s)[k] = SubSeq(s, Nth(K, k), Min(Ends(s, Nth(K, k))))
    BY <1>16
  <2>2. Nth(K, k) = f[k - 1] + 1
    BY <1>14 DEF at
  <2>3. Min(Ends(s, Nth(K, k))) = f[k]
    BY <1>14, <1>15
  <2> QED
    BY <2>1, <2>2, <2>3
<1> QED
  BY <1>17, <1>18

-----------------------------------------------------------------------------
(* From a path to a string and back                                           *)

\* No name has the other platform's slash, or is empty.
Printable(parts) ==
    \A i \in 2 .. Len(parts) : Inverted \notin Range(parts[i]) /\ parts[i] # <<Slash>>

\* What a path is laid out from: parts as a good path has them.
Parts(ps) == ps \in Seq(Chars) /\ Len(ps) # 0 /\ Shaped(ps) /\ Printable(ps)

LEMMA PartsFacts ==
    ASSUME NEW ps, Parts(ps), NEW n, n = Len(ps)
    PROVE  /\ n \in Nat /\ n # 0
           /\ \A i \in 1 .. n : /\ ps[i] \in Seq(Char) /\ Len(ps[i]) \in Nat /\ Len(ps[i]) # 0
                                /\ \A x \in 1 .. Len(ps[i]) : ps[i][x] # Inverted
           /\ Plain(ps[1]) /\ Last(ps[1]) = Slash /\ EndsInOne(ps[1])
           /\ \A i \in 2 .. n : ps[i] # <<Slash>> /\ \A x \in 1 .. (Len(ps[i]) - 1) : ps[i][x] # Slash
           /\ \A i \in 1 .. (n - 1) : Last(ps[i]) = Slash
<1>1. ps \in Seq(Chars) /\ n \in Nat /\ n # 0
  BY DEF Parts
<1>2. /\ Plain(ps[1]) /\ Last(ps[1]) = Slash /\ EndsInOne(ps[1])
      /\ \A i \in 2 .. n : NamePart(ps[i])
      /\ \A i \in 1 .. (n - 1) : Last(ps[i]) = Slash
  BY DEF Parts, Shaped
<1>3. \A i \in 2 .. n : Inverted \notin Range(ps[i]) /\ ps[i] # <<Slash>>
  BY DEF Parts, Printable
<1>4. ASSUME NEW i \in 1 .. n
      PROVE  /\ ps[i] \in Seq(Char) /\ Len(ps[i]) \in Nat /\ Len(ps[i]) # 0
             /\ \A x \in 1 .. Len(ps[i]) : ps[i][x] # Inverted
  <2>1. CASE i = 1
    <3>1. ps[1] \in Seq(Char) /\ ps[1] # << >> /\ \A x \in 1 .. Len(ps[1]) : ps[1][x] # Inverted
      BY <1>2 DEF Plain, Chars
    <3>2. Len(ps[1]) \in Nat /\ Len(ps[1]) # 0
      BY <3>1
    <3> QED
      BY <2>1, <3>1, <3>2
  <2>2. CASE i # 1
    <3>1. i \in 2 .. n
      BY <1>1, <2>2
    <3> DEFINE t == ps[i]
    <3>2. t \in Seq(Char) /\ t # << >> /\ Inverted \notin Range(t)
      BY <1>2, <1>3, <3>1 DEF NamePart, Chars
    <3> HIDE DEF t
    <3>3. Len(t) \in Nat /\ Len(t) # 0 /\ DOMAIN t = 1 .. Len(t)
      BY <3>2
    <3>4. \A x \in 1 .. Len(t) : t[x] # Inverted
      BY <3>2, <3>3 DEF Range
    <3> QED
      BY <3>2, <3>3, <3>4 DEF t
  <2> QED
    BY <2>1, <2>2
<1>5. \A i \in 2 .. n : ps[i] # <<Slash>> /\ \A x \in 1 .. (Len(ps[i]) - 1) : ps[i][x] # Slash
  BY <1>2, <1>3 DEF NamePart
<1> QED
  BY <1>1, <1>2, <1>4, <1>5

\* Each position of the string is in one of the names.
LEMMA LaidAll ==
    ASSUME NEW ps, Parts(ps), NEW s, NEW f, Laid(ps, s, f), NEW x \in 1 .. Len(s)
    PROVE  \E i \in 1 .. Len(ps) : \E y \in 1 .. Len(ps[i]) : x = f[i - 1] + y /\ s[x] = ps[i][y]
<1> DEFINE n == Len(ps)
           T == {i \in 0 .. n : x <= f[i]}
<1>1. n \in Nat /\ n # 0 /\ \A i \in 1 .. n : Len(ps[i]) \in Nat
  BY PartsFacts
<1>2. /\ f[0] = 0 /\ f[n] = Len(s)
      /\ \A i \in 0 .. n : f[i] \in Nat
      /\ \A i \in 1 .. n : f[i] = f[i - 1] + Len(ps[i]) /\ At(s, f[i - 1], ps[i])
  BY DEF Laid
<1> HIDE DEF n
<1>3. n \in T
  BY <1>1, <1>2
<1>4. PICK i \in T : \A l \in T : i <= l
  <2>1. T \in SUBSET Nat
    OBVIOUS
  <2> HIDE DEF T
  <2> QED
    BY <1>3, <2>1, Least
<1>5. i \in 0 .. n /\ x <= f[i]
  OBVIOUS
<1>6. i # 0
  BY <1>2, <1>5
<1>7. i \in 1 .. n /\ i - 1 \in 0 .. n
  BY <1>1, <1>5, <1>6
<1>8. i - 1 \notin T
  <2> HIDE DEF T
  <2> QED
    BY <1>4, <1>5
<1>9. ~ x <= f[i - 1] /\ f[i - 1] \in Nat /\ f[i] = f[i - 1] + Len(ps[i]) /\ Len(ps[i]) \in Nat
  BY <1>1, <1>2, <1>7, <1>8
<1> DEFINE y == x - f[i - 1]
<1>10. y \in 1 .. Len(ps[i]) /\ x = f[i - 1] + y
  BY <1>5, <1>9
<1>11. s[x] = ps[i][y]
  BY <1>2, <1>7, <1>10 DEF At
<1> QED
  BY <1>7, <1>10, <1>11 DEF n

\* The last character but one of a piece that ends the string.
LEMMA LastBut ==
    ASSUME NEW a \in Nat, NEW l \in Nat, l # 0, l # 1, NEW m, m = a + l
    PROVE  l - 1 \in 1 .. (l - 1) /\ l - 1 \in 1 .. l /\ a + (l - 1) = m - 1
  OBVIOUS

\* The string is normal already.
LEMMA LaidNormal ==
    ASSUME NEW ps, Parts(ps), NEW s, NEW f, Laid(ps, s, f)
    PROVE  /\ Plain(s)
           /\ Last(s) = Slash => EndsInOne(s)
           /\ IsPrefix(ps[1], s)
<1> DEFINE n == Len(ps)
           m == Len(s)
           t == ps[n]
           l == Len(t)
<1>1. /\ n \in Nat /\ n # 0
      /\ \A i \in 1 .. n : /\ ps[i] \in Seq(Char) /\ Len(ps[i]) \in Nat /\ Len(ps[i]) # 0
                           /\ \A x \in 1 .. Len(ps[i]) : ps[i][x] # Inverted
      /\ Plain(ps[1]) /\ Last(ps[1]) = Slash /\ EndsInOne(ps[1])
      /\ \A i \in 2 .. n : ps[i] # <<Slash>> /\ \A x \in 1 .. (Len(ps[i]) - 1) : ps[i][x] # Slash
  BY PartsFacts
<1>2. /\ s \in Chars /\ f[0] = 0 /\ f[n] = m
      /\ \A i \in 0 .. n : f[i] \in Nat /\ f[i] <= m
      /\ \A i \in 1 .. n : f[i] = f[i - 1] + Len(ps[i]) /\ At(s, f[i - 1], ps[i])
  BY DEF Laid
<1>3. s \in Seq(Char) /\ m \in Nat
  BY <1>2 DEF Chars
<1>4. ASSUME NEW x \in 1 .. m
      PROVE  s[x] # Inverted
  <2>1. PICK i \in 1 .. n : \E y \in 1 .. Len(ps[i]) : x = f[i - 1] + y /\ s[x] = ps[i][y]
    BY LaidAll
  <2> QED
    BY <1>1, <2>1
<1>5. /\ n \in 1 .. n /\ n - 1 \in 0 .. n /\ t \in Seq(Char) /\ l \in Nat /\ l # 0
      /\ m = f[n - 1] + l /\ At(s, f[n - 1], t) /\ f[n - 1] \in Nat
  <2>1. n \in 1 .. n /\ n - 1 \in 0 .. n
    BY <1>1
  <2> QED
    BY <1>1, <1>2, <2>1
<1>6. m # 0 /\ Plain(s)
  <2>1. m # 0
    BY <1>5
  <2>2. s # << >>
    BY <2>1
  <2> QED
    BY <1>2, <1>4, <2>1, <2>2 DEF Plain
<1>7. ASSUME Last(s) = Slash
      PROVE  EndsInOne(s)
  <2>1. \A y \in 1 .. l : s[f[n - 1] + y] = t[y]
    BY <1>5 DEF At
  <2>2. CASE n = 1
    <3>1. f[n - 1] = 0 /\ m = l
      BY <1>2, <1>5, <2>2
    <3>2. l = 1 \/ t[l - 1] # Slash
      BY <1>1, <2>2 DEF EndsInOne
    <3>3. CASE l = 1
      BY <3>1, <3>3 DEF EndsInOne
    <3>4. CASE l # 1
      <4>1. l - 1 \in 1 .. l /\ f[n - 1] + (l - 1) = m - 1
        BY <1>5, <3>4, LastBut
      <4>2. s[m - 1] = t[l - 1]
        BY <2>1, <4>1
      <4> QED
        BY <3>2, <3>4, <4>2 DEF EndsInOne
    <3> QED
      BY <3>3, <3>4
  <2>3. CASE n # 1
    <3>1. n \in 2 .. n
      <4> HIDE DEF n
      <4> QED
        BY <1>1, <2>3
    <3>2. t # <<Slash>> /\ \A x \in 1 .. (l - 1) : t[x] # Slash
      BY <1>1, <3>1
    <3>3. t[l] = Slash
      <4>1. l \in 1 .. l /\ f[n - 1] + l = m
        BY <1>5
      <4>2. s[m] = t[l]
        BY <2>1, <4>1
      <4> QED
        BY <1>7, <4>2 DEF Last
    <3>4. l # 1
      <4> SUFFICES ASSUME l = 1 PROVE FALSE
        OBVIOUS
      <4>1. <<Slash>> \in Seq(Char) /\ Len(<<Slash>>) = 1 /\ <<Slash>>[1] = Slash
        BY SlashesDiffer
      <4>2. \A x \in 1 .. 1 : t[x] = <<Slash>>[x]
        BY <3>3, <4>1
      <4>3. t = <<Slash>>
        BY <1>5, <4>1, <4>2, SeqEqual
      <4> QED
        BY <3>2, <4>3
    <3>5. l - 1 \in 1 .. (l - 1) /\ l - 1 \in 1 .. l /\ f[n - 1] + (l - 1) = m - 1
      BY <1>5, <3>4, LastBut
    <3>6. s[m - 1] # Slash
      BY <2>1, <3>2, <3>5
    <3> QED
      BY <3>6 DEF EndsInOne
  <2> QED
    BY <2>2, <2>3
<1>8. IsPrefix(ps[1], s)
  <2>1. 1 \in 1 .. n /\ 1 - 1 = 0 /\ 1 \in 0 .. n
    BY <1>1
  <2>2. f[1] = Len(ps[1]) /\ At(s, 0, ps[1]) /\ ps[1] \in Seq(Char) /\ Len(ps[1]) \in Nat /\ f[1] <= m
    BY <1>1, <1>2, <2>1
  <2>3. \A x \in 1 .. Len(ps[1]) : 0 + x = x
    OBVIOUS
  <2>4. \A x \in 1 .. Len(ps[1]) : ps[1][x] = s[x]
    BY <2>2, <2>3 DEF At
  <2> QED
    BY <1>3, <2>2, <2>4, PrefixPointwise
<1> QED
  BY <1>6, <1>7, <1>8

\* b is ps without its first name.
BelowFirst(ps, b) ==
    Len(b) = Len(ps) - 1 /\ \A k \in 1 .. (Len(ps) - 1) : b[k] = ps[k + 1]

\* Split gives the names below the root.
LEMMA LaidSplit ==
    ASSUME NEW ps, Parts(ps), NEW s, NEW f, Laid(ps, s, f)
    PROVE  BelowFirst(ps, Split(SubSeq(s, Len(ps[1]) + 1, Len(s))))
<1> DEFINE n == Len(ps)
           m == Len(s)
           r == f[1]
           rest == SubSeq(s, r + 1, m)
           e == [k \in 0 .. (n - 1) |-> f[k + 1] - r]
           c == n - 1
<1>1. /\ n \in Nat /\ n # 0
      /\ \A i \in 1 .. n : ps[i] \in Seq(Char) /\ Len(ps[i]) \in Nat /\ Len(ps[i]) # 0
      /\ \A i \in 2 .. n : \A x \in 1 .. (Len(ps[i]) - 1) : ps[i][x] # Slash
      /\ \A i \in 1 .. (n - 1) : Last(ps[i]) = Slash
  BY PartsFacts
<1>2. /\ s \in Chars /\ f[0] = 0 /\ f[n] = m
      /\ \A i \in 0 .. n : f[i] \in Nat /\ f[i] <= m
      /\ \A i \in 1 .. n : f[i] = f[i - 1] + Len(ps[i]) /\ At(s, f[i - 1], ps[i])
  BY DEF Laid
<1>3. s \in Seq(Char) /\ m \in Nat
  BY <1>2 DEF Chars
<1>4. r = Len(ps[1]) /\ r \in Nat /\ r <= m /\ 1 \in 1 .. n
  <2>1. 1 \in 1 .. n /\ 1 - 1 = 0 /\ 1 \in 0 .. n
    BY <1>1
  <2> QED
    BY <1>1, <1>2, <2>1
<1> HIDE DEF r, m, n
<1>5. rest \in Seq(Char) /\ Len(rest) = m - r /\ \A x \in 1 .. (m - r) : rest[x] = s[x + r]
  <2>1. r + 1 \in Nat \ {0} /\ m <= Len(s) /\ r + 1 <= m + 1 /\ m + 1 - (r + 1) = m - r
    BY <1>3, <1>4 DEF m
  <2>2. /\ rest \in Seq(Char) /\ Len(rest) = m + 1 - (r + 1)
        /\ \A x \in 1 .. (m + 1 - (r + 1)) : rest[x] = s[x + (r + 1) - 1]
    BY <1>3, <2>1, Piece
  <2> HIDE DEF rest
  <2>3. \A x \in 1 .. (m - r) : x + (r + 1) - 1 = x + r
    BY <1>4
  <2> QED
    BY <2>1, <2>2, <2>3
<1> HIDE DEF rest
<1>6. c \in Nat /\ c + 1 = n
  BY <1>1
<1>7. ASSUME NEW k \in 0 .. c
      PROVE  e[k] = f[k + 1] - r /\ f[k + 1] \in Nat /\ f[k + 1] <= m
  <2>1. k + 1 \in 0 .. n
    BY <1>6
  <2> QED
    BY <1>2, <2>1
<1>8. e[0] = 0 /\ e[c] = m - r
  <2>1. 0 \in 0 .. c /\ c \in 0 .. c /\ 0 + 1 = 1
    BY <1>6
  <2>2. e[0] = f[1] - r /\ e[c] = f[n] - r
    BY <1>6, <1>7, <2>1
  <2> QED
    BY <1>2, <1>4, <2>2 DEF r
<1> HIDE DEF e
\* the k-th name below the root
<1>9. ASSUME NEW k \in 1 .. c
      PROVE  /\ e[k - 1] \in Nat /\ e[k] = e[k - 1] + Len(ps[k + 1]) /\ e[k] <= m - r
             /\ \A y \in 1 .. Len(ps[k + 1]) : rest[e[k - 1] + y] = ps[k + 1][y]
             /\ ps[k + 1] \in Seq(Char) /\ Len(ps[k + 1]) \in Nat /\ Len(ps[k + 1]) # 0
             /\ e[k] \in Nat /\ e[k - 1] < e[k]
  <2> DEFINE t == ps[k + 1]
  <2>1. k \in 0 .. c /\ k - 1 \in 0 .. c /\ k + 1 \in 1 .. n /\ k - 1 + 1 = k /\ k + 1 - 1 = k /\ k \in 1 .. n
    BY <1>6
  <2>2. t \in Seq(Char) /\ Len(t) \in Nat /\ Len(t) # 0
    BY <1>1, <2>1
  <2>3. e[k] = f[k + 1] - r /\ e[k - 1] = f[k] - r /\ f[k + 1] \in Nat /\ f[k] \in Nat /\ f[k + 1] <= m
    BY <1>7, <2>1
  <2>4. f[k + 1] = f[k] + Len(t) /\ At(s, f[k], t)
    BY <1>2, <2>1
  <2>5. r <= f[k]
    <3> DEFINE Bad == {i \in 1 .. n : ~ r <= f[i]}
    <3> SUFFICES ASSUME Bad # {} PROVE FALSE
      BY <2>1
    <3>1. PICK i \in Bad : \A l \in Bad : i <= l
      <4>1. Bad \in SUBSET Nat
        OBVIOUS
      <4> HIDE DEF Bad
      <4> QED
        BY <4>1, Least
    <3>2. i \in 1 .. n /\ ~ r <= f[i]
      OBVIOUS
    <3>3. i # 1
      BY <1>4, <3>2 DEF r
    <3>4. i - 1 \in 1 .. n /\ i - 1 \in 0 .. n /\ i - 1 \notin Bad
      <4> HIDE DEF Bad
      <4> QED
        BY <1>1, <3>1, <3>2, <3>3
    <3>5. r <= f[i - 1] /\ f[i - 1] \in Nat /\ f[i] = f[i - 1] + Len(ps[i]) /\ Len(ps[i]) \in Nat
      BY <1>1, <1>2, <3>2, <3>4
    <3> QED
      BY <1>4, <3>2, <3>5
  <2> HIDE DEF t
  <2>6. /\ e[k - 1] \in Nat /\ e[k] = e[k - 1] + Len(t) /\ e[k] <= m - r /\ e[k] \in Nat
        /\ e[k - 1] < e[k]
    <3> DEFINE g == Len(t)
               a == e[k - 1]
               d == f[k]
               z == e[k]
               h == f[k + 1]
    <3>1. /\ g \in Nat /\ g # 0 /\ d \in Nat /\ h \in Nat /\ h = d + g /\ h <= m /\ r <= d
          /\ z = h - r /\ a = d - r /\ m \in Nat /\ r \in Nat
      BY <1>3, <1>4, <2>2, <2>3, <2>4, <2>5
    <3> HIDE DEF g, a, d, z, h
    <3>2. a \in Nat /\ z = a + g /\ z <= m - r /\ z \in Nat /\ a < z
      BY <3>1
    <3> QED
      BY <3>2 DEF g, a, z
  <2>7. ASSUME NEW y \in 1 .. Len(t)
        PROVE  rest[e[k - 1] + y] = t[y]
    <3> DEFINE x == e[k - 1] + y
    <3>1. x \in 1 .. (m - r) /\ x + r = f[k] + y
      <4> DEFINE g == Len(t)
                 a == e[k - 1]
                 d == f[k]
                 z == e[k]
      <4>1. /\ a \in Nat /\ d \in Nat /\ g \in Nat /\ a = d - r /\ z = a + g /\ z <= m - r
            /\ m \in Nat /\ r \in Nat /\ y \in 1 .. g
        BY <1>3, <1>4, <2>2, <2>3, <2>6
      <4> HIDE DEF g, a, d, z
      <4>2. a + y \in 1 .. (m - r) /\ (a + y) + r = d + y
        BY <4>1
      <4> QED
        BY <4>2 DEF a, d
    <3>2. rest[x] = s[f[k] + y]
      BY <1>5, <3>1
    <3> QED
      BY <2>4, <3>2 DEF At
  <2> QED
    BY <2>2, <2>6, <2>7 DEF t
<1>10. Cut(rest, c, e)
  <2>1. \A k \in 0 .. c : e[k] \in Nat
    <3>1. \A k \in 0 .. c : k = 0 \/ k \in 1 .. c
      BY <1>6
    <3> QED
      BY <1>8, <1>9, <3>1
  <2>2. \A k \in 1 .. c : e[k - 1] < e[k]
    BY <1>9
  <2>3. ASSUME NEW k \in 1 .. (c - 1)
        PROVE  rest[e[k]] = Slash
    <3>1. k \in 1 .. c /\ k + 1 \in 1 .. (n - 1)
      BY <1>6
    <3> DEFINE t == ps[k + 1]
    <3>2. Last(t) = Slash
      BY <1>1, <3>1
    <3>3. /\ \A y \in 1 .. Len(t) : rest[e[k - 1] + y] = t[y]
          /\ Len(t) \in Nat /\ Len(t) # 0 /\ e[k] = e[k - 1] + Len(t)
      BY <1>9, <3>1
    <3> HIDE DEF t
    <3>4. Len(t) \in 1 .. Len(t)
      BY <3>3
    <3> QED
      BY <3>2, <3>3, <3>4 DEF Last
  <2>4. ASSUME NEW k \in 1 .. c, NEW x \in 1 .. Len(rest), e[k - 1] < x, x < e[k]
        PROVE  rest[x] # Slash
    <3> DEFINE t == ps[k + 1]
               y == x - e[k - 1]
    <3>1. /\ \A z \in 1 .. Len(t) : rest[e[k - 1] + z] = t[z]
          /\ Len(t) \in Nat /\ e[k] = e[k - 1] + Len(t) /\ e[k - 1] \in Nat
      BY <1>9
    <3>2. k + 1 \in 2 .. n
      BY <1>6
    <3>3. \A z \in 1 .. (Len(t) - 1) : t[z] # Slash
      BY <1>1, <3>2
    <3> HIDE DEF t
    <3>4. y \in 1 .. (Len(t) - 1) /\ y \in 1 .. Len(t) /\ e[k - 1] + y = x
      BY <2>4, <3>1
    <3> QED
      BY <3>1, <3>3, <3>4
  <2> QED
    BY <1>5, <1>6, <1>8, <2>1, <2>2, <2>3, <2>4 DEF Cut
<1>11. /\ Len(Split(rest)) = c
       /\ \A k \in 1 .. c : Split(rest)[k] = SubSeq(rest, e[k - 1] + 1, e[k])
  BY <1>5, <1>10, SplitAtCuts DEF Chars
<1>12. ASSUME NEW k \in 1 .. c
       PROVE  Split(rest)[k] = ps[k + 1]
  <2> DEFINE t == ps[k + 1]
             i == e[k - 1] + 1
             j == e[k]
             u == SubSeq(rest, i, j)
  <2>1. /\ e[k - 1] \in Nat /\ e[k] = e[k - 1] + Len(t) /\ e[k] <= m - r /\ e[k] \in Nat
        /\ \A y \in 1 .. Len(t) : rest[e[k - 1] + y] = t[y]
        /\ t \in Seq(Char) /\ Len(t) \in Nat
    BY <1>9
  <2> HIDE DEF t
  <2>2. i \in Nat \ {0} /\ j \in Nat /\ j <= Len(rest) /\ i <= j + 1 /\ j + 1 - i = Len(t)
    <3> DEFINE g == Len(t)
               a == e[k - 1]
               w == Len(rest)
    <3>1. a \in Nat /\ g \in Nat /\ j = a + g /\ j <= w /\ j \in Nat /\ i = a + 1
      BY <1>5, <2>1
    <3> HIDE DEF g, a, i, j, w
    <3>2. i \in Nat \ {0} /\ j \in Nat /\ j <= w /\ i <= j + 1 /\ j + 1 - i = g
      BY <3>1
    <3> QED
      BY <3>2 DEF g, w
  <2>3. /\ u \in Seq(Char) /\ Len(u) = j + 1 - i
        /\ \A y \in 1 .. (j + 1 - i) : u[y] = rest[y + i - 1]
    <3> HIDE DEF i, j
    <3> QED
      BY <1>5, <2>2, Piece
  <2>4. Split(rest)[k] = u
    BY <1>11
  <2> HIDE DEF u
  <2>5. \A y \in 1 .. Len(t) : y + i - 1 = e[k - 1] + y
    BY <2>1
  <2> HIDE DEF i, j
  <2>6. \A y \in 1 .. Len(u) : u[y] = t[y]
    BY <2>1, <2>2, <2>3, <2>5
  <2>7. u = t
    BY <2>1, <2>2, <2>3, <2>6, SeqEqual
  <2> QED
    BY <2>4, <2>7 DEF t
<1>13. SubSeq(s, Len(ps[1]) + 1, Len(s)) = rest
  BY <1>4 DEF rest, m
<1>14. BelowFirst(ps, Split(rest))
  BY <1>11, <1>12 DEF BelowFirst, n, c
<1> QED
  BY <1>13, <1>14

\* What is made of the string is a path with the same names.
LEMMA BackFromString ==
    ASSUME NEW p, Good(p), Printable(p.parts)
    PROVE  FromString(GetPath(p), p.parts[1]) = p
<1> DEFINE ps == p.parts
           n == Len(ps)
           s == GetPath(p)
           root == ps[1]
           b == Below(s, root)
           q == [parts |-> <<root>> \o b, pathCrcs |-> UpToEach(CrcsOf(root, b))]
<1>1. /\ ps \in Seq(Chars) /\ n \in Nat /\ n # 0 /\ Shaped(ps)
      /\ p = [parts |-> ps, pathCrcs |-> p.pathCrcs]
      /\ p.pathCrcs \in Seq(Crcs) /\ Len(p.pathCrcs) = n
  BY DEF Good
<1>2. Parts(ps)
  BY <1>1 DEF Parts
<1>3. Plain(root) /\ Last(root) = Slash /\ EndsInOne(root)
  BY <1>1 DEF Shaped
<1>4. PICK f : Laid(ps, s, f)
  BY <1>1, FlattenLaid DEF GetPath
<1> HIDE DEF ps, s
<1>5. Plain(s) /\ (Last(s) = Slash => EndsInOne(s)) /\ IsPrefix(root, s)
  BY <1>2, <1>4, LaidNormal
<1>6. Normalize(root, "ADD") = root
  BY <1>3, NormalStays
<1>7. Normalize(s, IF Last(s) \in {Slash, Inverted} THEN "ADD" ELSE "REMOVE") = s
  <2>1. CASE Last(s) = Slash
    BY <1>5, <2>1, NormalStays
  <2>2. CASE Last(s) # Slash
    <3>1. Last(s) # Inverted
      <4>1. s \in Chars /\ s # << >> /\ \A i \in 1 .. Len(s) : s[i] # Inverted
        BY <1>5 DEF Plain
      <4>2. Len(s) \in 1 .. Len(s)
        BY <4>1 DEF Chars
      <4> QED
        BY <4>1, <4>2 DEF Last
    <3> QED
      BY <1>5, <2>2, <3>1, NormalStays
  <2> QED
    BY <2>1, <2>2
<1>8. FromString(s, root) = q
  BY <1>5, <1>6, <1>7, FromStringIs
<1>9. Len(b) = n - 1 /\ \A k \in 1 .. (n - 1) : b[k] = ps[k + 1]
  <2>1. b = Split(SubSeq(s, Len(root) + 1, Len(s)))
    BY <1>6, <1>7 DEF Below
  <2> QED
    <3> HIDE DEF b
    <3>1. b = Split(SubSeq(s, Len(ps[1]) + 1, Len(s)))
      BY <2>1
    <3>2. BelowFirst(ps, b)
      BY <1>2, <1>4, <3>1, LaidSplit
    <3> QED
      BY <3>2 DEF BelowFirst
<1>10. /\ b \in Seq(Chars)
       /\ \A k \in 1 .. Len(b) : NamePart(b[k])
       /\ \A k \in 1 .. (Len(b) - 1) : Last(b[k]) = Slash
  <2> DEFINE rest == SubSeq(s, Len(root) + 1, Len(s))
  <2>1. b = Split(rest)
    BY <1>6, <1>7 DEF Below
  <2>2. s \in Seq(Char) /\ root \in Seq(Char) /\ Len(root) <= Len(s)
    BY <1>3, <1>5 DEF Plain, Chars, IsPrefix
  <2>3. Len(root) + 1 \in Nat \ {0} /\ Len(s) \in Nat /\ Len(s) <= Len(s) /\ Len(root) + 1 <= Len(s) + 1
    BY <2>2
  <2>4. rest \in Chars
    BY <2>2, <2>3, Piece DEF Chars
  <2> HIDE DEF rest, b
  <2> QED
    BY <2>1, <2>4, SplitShape
<1>11. Good(q)
  BY <1>3, <1>10, PathIsGood
<1>12. q.parts = ps
  <2>1. <<root>> \o b \in Seq(Chars) /\ Len(<<root>> \o b) = n /\ \A i \in 1 .. n : (<<root>> \o b)[i] = ps[i]
    <3> DEFINE h == <<root>>
               qs == h \o b
    <3>1. h \in Seq(Chars) /\ Len(h) = 1 /\ h[1] = root
      BY <1>3 DEF Plain
    <3> HIDE DEF h, b, root
    <3>2. /\ qs \in Seq(Chars) /\ Len(qs) = Len(h) + Len(b)
          /\ \A i \in 1 .. Len(h) + Len(b) : qs[i] = IF i <= Len(h) THEN h[i] ELSE b[i - Len(h)]
      BY <1>10, <3>1, ConcatProperties
    <3> HIDE DEF qs
    <3>3. Len(h) + Len(b) = n
      BY <1>1, <1>9, <3>1
    <3>4. ASSUME NEW i \in 1 .. n
          PROVE  qs[i] = ps[i]
      <4>1. CASE i = 1
        BY <3>1, <3>2, <3>3, <4>1 DEF root
      <4>2. CASE i # 1
        <5>1. i - 1 \in 1 .. (n - 1) /\ ~ i <= 1 /\ i - 1 + 1 = i
          BY <1>1, <4>2
        <5>2. qs[i] = b[i - 1]
          BY <3>1, <3>2, <3>3, <5>1
        <5> QED
          BY <1>9, <5>1, <5>2
      <4> QED
        BY <4>1, <4>2
    <3>5. qs \in Seq(Chars) /\ Len(qs) = n
      BY <3>2, <3>3
    <3> QED
      BY <3>4, <3>5 DEF qs, h
  <2> DEFINE qs == <<root>> \o b
  <2>2. q.parts = qs
    OBVIOUS
  <2> HIDE DEF qs, q
  <2>3. qs = ps
    BY <1>1, <2>1, SeqEqual DEF qs
  <2> QED
    BY <2>2, <2>3
<1> HIDE DEF q
<1>13. q.pathCrcs = p.pathCrcs
  <2>1. /\ q.pathCrcs \in Seq(Crcs) /\ Len(q.pathCrcs) = n
    BY <1>11, <1>12 DEF Good
  <2>2. ASSUME NEW i \in 1 .. n
        PROVE  q.pathCrcs[i] = p.pathCrcs[i]
    <3>1. i \in Nat \ {0} /\ i <= Len(p.parts) /\ i <= Len(q.parts)
      BY <1>1, <1>12 DEF ps
    <3>2. \A j \in 1 .. i : q.parts[j] = p.parts[j]
      BY <1>12 DEF ps
    <3> QED
      BY <1>11, <3>1, <3>2, SameNamesSameCrc
  <2> QED
    BY <1>1, <2>1, <2>2, SeqEqual
<1>14. q = [parts |-> q.parts, pathCrcs |-> q.pathCrcs]
  BY <1>11 DEF Good
<1>15. q = p
  BY <1>1, <1>12, <1>13, <1>14
<1> QED
  BY <1>8, <1>15 DEF s, root, ps

\* A path that is made a string and then a path again is the same, with all its CRCs,
\* unless a name has a backslash or there were two slashes in a row (RoundTrip).
THEOREM RoundTripAlways ==
    Spec => []RoundTrip
<1>1. PathInv => RoundTrip
  BY AbsoluteGood, BackFromString DEF RoundTrip, Printable
<1> QED
  BY <1>1, PathInvAlways, PTL
=============================================================================
