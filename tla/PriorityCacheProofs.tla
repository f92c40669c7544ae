-------------------------- MODULE PriorityCacheProofs --------------------------
(* Theorems about PriorityCache, for every set of keys, every supplier and    *)
(* every limit.                                                               *)
EXTENDS PriorityCache, SequencesExt, FiniteSetTheorems, SequenceTheorems, TLAPS

ValuesTyped(vs) ==
    /\ DOMAIN vs \subseteq Key
    /\ vs \in [DOMAIN vs -> [value : Val, key : Nat]]

\* With TypeOK: no two objects are one pointer.
KeysTyped(ks, counter) ==
    /\ IsFiniteSet(ks)
    /\ ks \subseteq [id : Nat, key : Key, lastAccess : Nat]
    /\ \A x \in ks : x.id <= x.lastAccess /\ x.lastAccess < counter
    /\ \A x, y \in ks : x.lastAccess = y.lastAccess => x = y
    /\ \A x, y \in ks : x.id = y.id => x = y

\* PointersLive
Linked(vs, ks) ==
    /\ \A k \in DOMAIN vs : \E x \in ks : x.id = vs[k].key /\ x.key = k
    /\ \A x \in ks : x.key \in DOMAIN vs /\ vs[x.key].key = x.id

Sound(vs, ks, counter) == ValuesTyped(vs) /\ KeysTyped(ks, counter) /\ Linked(vs, ks)

CacheInv ==
    /\ Sound(values, keys, accessCounter)
    /\ maxSize \in 0..SIZE_MAX /\ accessCounter \in 0..MaxAccess
    /\ returned \in Val \union {NoValue}

-----------------------------------------------------------------------------
(* The pieces of the operations.                                              *)

\* What is cut leaves whole pairs: an object goes with its value, and no other
\* object has the same key.
LEMMA CutSound ==
    ASSUME NEW vs, NEW ks, NEW n, NEW counter, Sound(vs, ks, counter), Cut(vs, ks, n)
    PROVE  Sound(values', keys', counter)
<1> DEFINE gone == {x.key : x \in ks \ Newest(ks, n)}
<1>1. /\ keys' = Newest(ks, n) /\ keys' \subseteq ks
      /\ values' = [k \in DOMAIN vs \ gone |-> vs[k]]
  BY DEF Cut, Newest, Restrict
<1>2. ValuesTyped(values')
  BY <1>1 DEF Sound, ValuesTyped
<1>3. KeysTyped(keys', counter)
  <2>1. IsFiniteSet(keys')
    BY <1>1, FS_Subset DEF Sound, KeysTyped
  <2> QED
    BY <1>1, <2>1 DEF Sound, KeysTyped
<1>4. ASSUME NEW k \in DOMAIN values'
      PROVE  \E x \in keys' : x.id = values'[k].key /\ x.key = k
  <2>1. k \in DOMAIN vs /\ k \notin gone /\ values'[k] = vs[k]
    BY <1>1
  <2>2. PICK x \in ks : x.id = vs[k].key /\ x.key = k
    BY <2>1 DEF Sound, Linked
  <2>3. x \in keys'
    BY <1>1, <2>1, <2>2
  <2> QED
    BY <2>1, <2>2, <2>3
<1>5. ASSUME NEW x \in keys'
      PROVE  x.key \in DOMAIN values' /\ values'[x.key].key = x.id
  <2>1. x \in ks /\ x.key \in DOMAIN vs /\ vs[x.key].key = x.id
    BY <1>1 DEF Sound, Linked
  <2>2. ASSUME NEW y \in ks \ Newest(ks, n), y.key = x.key
        PROVE  FALSE
    <3>1. vs[y.key].key = y.id
      BY <2>2 DEF Sound, Linked
    <3>2. y = x
      BY <2>1, <2>2, <3>1 DEF Sound, KeysTyped
    <3> QED
      BY <1>1, <2>2, <3>2
  <2> QED
    BY <1>1, <2>1, <2>2
<1> QED
  BY <1>2, <1>3, <1>4, <1>5 DEF Sound, Linked

\* A new value comes with an object whose identity no other has.
LEMMA AddSound ==
    ASSUME CacheInv, NEW k \in Key, ~ IsCached(k), NEW v \in Val, AddNewValue(k, v)
    PROVE  Sound(values', keys', accessCounter')
<1> DEFINE vs == [x \in {k} \union DOMAIN values |->
                    IF x = k THEN [value |-> v, key |-> accessCounter] ELSE values[x]]
           ks == keys \union {KeyAccess(k)}
<1>1. accessCounter \in Nat /\ accessCounter' = accessCounter + 1
  BY CacheAssumption DEF CacheInv, AddNewValue, Count
<1>2. KeyAccess(k) = [id |-> accessCounter, key |-> k, lastAccess |-> accessCounter]
  BY DEF KeyAccess
<1>3. ValuesTyped(vs)
  BY <1>1 DEF CacheInv, Sound, ValuesTyped
<1>4. KeysTyped(ks, accessCounter')
  <2>1. IsFiniteSet(ks)
    BY FS_AddElement DEF CacheInv, Sound, KeysTyped
  <2>2. \A x \in keys : /\ x.id \in Nat /\ x.lastAccess \in Nat
                        /\ x.id < accessCounter /\ x.lastAccess < accessCounter
    BY <1>1 DEF CacheInv, Sound, KeysTyped
  <2>3. ks \subseteq [id : Nat, key : Key, lastAccess : Nat]
    BY <1>1, <1>2 DEF CacheInv, Sound, KeysTyped
  <2>4. \A x \in ks : x.id <= x.lastAccess /\ x.lastAccess < accessCounter'
    BY <1>1, <1>2, <2>2 DEF CacheInv, Sound, KeysTyped
  <2>5. \A x, y \in ks : x.lastAccess = y.lastAccess => x = y
    BY <1>1, <1>2, <2>2 DEF CacheInv, Sound, KeysTyped
  <2>6. \A x, y \in ks : x.id = y.id => x = y
    BY <1>1, <1>2, <2>2 DEF CacheInv, Sound, KeysTyped
  <2> HIDE DEF ks
  <2> QED
    BY <2>1, <2>3, <2>4, <2>5, <2>6 DEF KeysTyped
<1>5. Linked(vs, ks)
  <2>1. \A x \in keys : x.key \in DOMAIN values /\ x.key # k
    BY DEF CacheInv, Sound, Linked, IsCached
  <2>2. \A x \in DOMAIN vs : \E y \in ks : y.id = vs[x].key /\ y.key = x
    BY <1>2 DEF CacheInv, Sound, Linked
  <2>3. \A x \in ks : x.key \in DOMAIN vs /\ vs[x.key].key = x.id
    BY <1>2, <2>1 DEF CacheInv, Sound, Linked
  <2> QED
    BY <2>2, <2>3 DEF Linked
<1>6. Sound(vs, ks, accessCounter')
  BY <1>3, <1>4, <1>5 DEF Sound
<1>7. \/ Cut(vs, ks, maxSize)
      \/ values' = vs /\ keys' = ks
  BY DEF AddNewValue
<1> QED
  <2> HIDE DEF vs, ks
  <2> QED
    BY <1>6, <1>7, CutSound

\* Using an object changes neither its identity nor its key.
LEMMA TouchSound ==
    ASSUME CacheInv, NEW k \in Key, IsCached(k), Touch(k), NEW vs, ValuesTyped(vs),
           DOMAIN vs = DOMAIN values, \A x \in DOMAIN vs : vs[x].key = values[x].key
    PROVE  Sound(vs, keys', accessCounter')
<1> DEFINE Used(x) == IF x.id = values[k].key THEN [x EXCEPT !.lastAccess = accessCounter]
                                              ELSE x
<1>1. accessCounter \in Nat /\ accessCounter' = accessCounter + 1
  BY CacheAssumption DEF CacheInv, Touch, Count
<1>2. keys' = {Used(x) : x \in keys}
  BY DEF Touch
<1>3. \A x \in keys : /\ x \in [id : Nat, key : Key, lastAccess : Nat]
                      /\ x.id <= x.lastAccess /\ x.lastAccess < accessCounter
  BY DEF CacheInv, Sound, KeysTyped
<1>4. \A x \in keys :
        /\ Used(x) \in [id : Nat, key : Key, lastAccess : Nat]
        /\ Used(x).id = x.id /\ Used(x).key = x.key
        /\ Used(x).lastAccess = IF x.id = values[k].key THEN accessCounter ELSE x.lastAccess
  BY <1>1, <1>3
<1>5. \A x, y \in keys : x.id = y.id => x = y
  BY DEF CacheInv, Sound, KeysTyped
<1>6. \A x, y \in keys : x.lastAccess = y.lastAccess => x = y
  BY DEF CacheInv, Sound, KeysTyped
<1> HIDE DEF Used
<1>7. KeysTyped(keys', accessCounter')
  <2>1. IsFiniteSet(keys')
    <3>1. PICK x \in keys : x.id = values[k].key
      BY DEF CacheInv, Sound, Linked, IsCached
    <3>2. \A y \in keys : y = x \/ Used(y) = y
      BY <1>5, <3>1 DEF Used
    <3>3. keys' \subseteq keys \union {Used(x)}
      BY <1>2, <3>2
    <3>4. IsFiniteSet(keys \union {Used(x)})
      BY FS_AddElement DEF CacheInv, Sound, KeysTyped
    <3> QED
      BY <3>3, <3>4, FS_Subset
  <2>2. \A x \in keys' : x.id <= x.lastAccess /\ x.lastAccess < accessCounter'
    BY <1>1, <1>2, <1>3, <1>4
  <2>3. \A x, y \in keys : Used(x).lastAccess = Used(y).lastAccess => Used(x) = Used(y)
    <3> SUFFICES ASSUME NEW x \in keys, NEW y \in keys, Used(x).lastAccess = Used(y).lastAccess
                 PROVE  x = y
      OBVIOUS
    <3> QED
      BY <1>1, <1>3, <1>4, <1>5, <1>6
  <2>4. \A x, y \in keys : Used(x).id = Used(y).id => Used(x) = Used(y)
    BY <1>4, <1>5
  <2> QED
    BY <1>2, <1>4, <2>1, <2>2, <2>3, <2>4 DEF KeysTyped
<1>8. Linked(vs, keys')
  <2>1. \A x \in DOMAIN vs : \E y \in keys' : y.id = vs[x].key /\ y.key = x
    BY <1>2, <1>4 DEF CacheInv, Sound, Linked
  <2>2. \A x \in keys' : x.key \in DOMAIN vs /\ vs[x.key].key = x.id
    BY <1>2, <1>4 DEF CacheInv, Sound, Linked
  <2> QED
    BY <2>1, <2>2 DEF Linked
<1> QED
  BY <1>7, <1>8 DEF Sound

-----------------------------------------------------------------------------
(* The invariant.                                                             *)

LEMMA TrimToSound ==
    ASSUME CacheInv, NEW n, TrimTo(n), UNCHANGED accessCounter
    PROVE  Sound(values', keys', accessCounter')
<1>1. CASE UNCHANGED <<values, keys>>
  BY <1>1 DEF CacheInv
<1>2. CASE Cut(values, keys, n)
  BY <1>2, CutSound DEF CacheInv
<1> QED
  BY <1>1, <1>2 DEF TrimTo

LEMMA CacheStep == CacheInv /\ [Next]_vars => CacheInv'
<1> SUFFICES ASSUME CacheInv, [Next]_vars PROVE CacheInv'
  OBVIOUS
<1> USE CacheAssumption
<1>1. ASSUME NEW k \in Key, Get(k) PROVE CacheInv'
  <2>1. CASE IsCached(k)
    <3>1. Touch(k) /\ returned' = values[k].value /\ UNCHANGED <<values, maxSize>>
      BY <1>1, <2>1 DEF Get
    <3>2. Sound(values', keys', accessCounter')
      BY <2>1, <3>1, TouchSound DEF CacheInv, Sound
    <3>3. returned' \in Val /\ accessCounter' \in 0..MaxAccess
      BY <2>1, <3>1 DEF CacheInv, Sound, ValuesTyped, IsCached, Touch, Count
    <3> QED
      BY <3>1, <3>2, <3>3 DEF CacheInv
  <2>2. CASE ~ IsCached(k) /\ Supply[k] # NoValue
    <3>1. /\ AddNewValue(k, Supply[k]) /\ returned' = Supply[k] /\ Supply[k] \in Val
          /\ UNCHANGED maxSize
      BY <1>1, <2>2 DEF Get
    <3>2. Sound(values', keys', accessCounter')
      BY <2>2, <3>1, AddSound
    <3>3. accessCounter' \in 0..MaxAccess
      BY <3>1 DEF CacheInv, AddNewValue, Count
    <3> QED
      BY <3>1, <3>2, <3>3 DEF CacheInv
  <2>3. CASE ~ IsCached(k) /\ Supply[k] = NoValue
    BY <1>1, <2>3 DEF Get, CacheInv
  <2> QED
    BY <2>1, <2>2, <2>3
<1>2. ASSUME NEW k \in Key, NEW v \in Val, Put(k, v) PROVE CacheInv'
  <2>1. CASE IsCached(k)
    <3>1. /\ Touch(k) /\ values' = [values EXCEPT ![k].value = v]
          /\ UNCHANGED <<maxSize, returned>>
      BY <1>2, <2>1 DEF Put
    <3>2. /\ ValuesTyped(values') /\ DOMAIN values' = DOMAIN values
          /\ \A x \in DOMAIN values' : values'[x].key = values[x].key
      BY <2>1, <3>1 DEF CacheInv, Sound, ValuesTyped, IsCached
    <3>3. Sound(values', keys', accessCounter')
      BY <2>1, <3>1, <3>2, TouchSound
    <3>4. accessCounter' \in 0..MaxAccess
      BY <3>1 DEF CacheInv, Touch, Count
    <3> QED
      BY <3>1, <3>3, <3>4 DEF CacheInv
  <2>2. CASE ~ IsCached(k)
    <3>1. AddNewValue(k, v) /\ UNCHANGED <<maxSize, returned>>
      BY <1>2, <2>2 DEF Put
    <3>2. Sound(values', keys', accessCounter')
      BY <2>2, <3>1, AddSound
    <3>3. accessCounter' \in 0..MaxAccess
      BY <3>1 DEF CacheInv, AddNewValue, Count
    <3> QED
      BY <3>1, <3>2, <3>3 DEF CacheInv
  <2> QED
    BY <2>1, <2>2
<1>3. ASSUME NEW n \in 0..SIZE_MAX, Trim(n) PROVE CacheInv'
  BY <1>3, TrimToSound DEF Trim, CacheInv
<1>4. ASSUME NEW n \in 0..SIZE_MAX, SetMaxSize(n) PROVE CacheInv'
  BY <1>4, TrimToSound DEF SetMaxSize, CacheInv
<1>5. ASSUME Invalidate PROVE CacheInv'
  BY <1>5, FS_EmptySet DEF Invalidate, CacheInv, Sound, ValuesTyped, KeysTyped, Linked
<1>6. ASSUME UNCHANGED vars PROVE CacheInv'
  BY <1>6 DEF vars, CacheInv
<1> QED
  BY <1>1, <1>2, <1>3, <1>4, <1>5, <1>6 DEF Next

LEMMA CacheAlways == Spec => []CacheInv
<1>1. Init => CacheInv
  BY FS_EmptySet, CacheAssumption
     DEF Init, CacheInv, Sound, ValuesTyped, KeysTyped, Linked
<1> QED
  BY <1>1, CacheStep, PTL DEF Spec

\* Types, and no two objects were used at the same time: the order by which the cache
\* is cut is always a strict one.
THEOREM TypesAlways == Spec => []TypeOK
<1>1. CacheInv => TypeOK
  BY DEF CacheInv, Sound, ValuesTyped, KeysTyped, TypeOK
<1> QED
  BY <1>1, CacheAlways, PTL

\* Every value points to an object the vector owns, that of its key, whatever is put,
\* asked for, trimmed or invalidated in whatever order (PriorityCache.h, trim).
THEOREM PointersAlwaysLive == Spec => []PointersLive
<1>1. CacheInv => PointersLive
  BY DEF CacheInv, Sound, Linked, PointersLive
<1> QED
  BY <1>1, CacheAlways, PTL

-----------------------------------------------------------------------------
(* The order of use.                                                          *)

\* Objects that can be sorted by the time of their last use
Stamped(ks) ==
    /\ IsFiniteSet(ks)
    /\ \A x \in ks : x.lastAccess \in Nat /\ x.key \in Key
    /\ \A x, y \in ks : x.lastAccess = y.lastAccess => x = y

Newer(ks, x) == {y \in ks : y.lastAccess > x.lastAccess}

\* o is the sorted vector of the objects in ks.
Orders(o, ks) ==
    /\ o \in Seq(ks)
    /\ \A x \in ks : \E i \in 1..Len(o) : o[i] = x
    /\ \A i, j \in 1..Len(o) : i < j => o[i].lastAccess > o[j].lastAccess

KeysOf(o) == [i \in 1..Len(o) |-> o[i].key]

\* Objects can be sorted: the number of newer ones is a different one for each.
LEMMA OrderExists ==
    ASSUME NEW ks, Stamped(ks)
    PROVE  \E o : Orders(o, ks)
<1> DEFINE n == Cardinality(ks)
           rank == [x \in ks |-> Cardinality(Newer(ks, x))]
<1>1. IsFiniteSet(ks) /\ n \in Nat
  BY FS_CardinalityType DEF Stamped
<1>2. ASSUME NEW x \in ks
      PROVE  IsFiniteSet(Newer(ks, x)) /\ rank[x] \in 0..n-1
  <2>1. Newer(ks, x) \in SUBSET (ks \ {x})
    BY DEF Newer, Stamped
  <2>2. IsFiniteSet(ks \ {x}) /\ Cardinality(ks \ {x}) = n - 1
    BY <1>1, FS_RemoveElement
  <2>3. IsFiniteSet(Newer(ks, x)) /\ Cardinality(Newer(ks, x)) <= n - 1
    BY <2>1, <2>2, FS_Subset
  <2>4. Cardinality(Newer(ks, x)) \in Nat
    BY <2>3, FS_CardinalityType
  <2> QED
    BY <1>1, <2>3, <2>4
<1>3. ASSUME NEW x \in ks, NEW y \in ks, x.lastAccess > y.lastAccess
      PROVE  rank[x] < rank[y]
  <2>1. Newer(ks, x) \union {x} \in SUBSET Newer(ks, y) /\ x \notin Newer(ks, x)
    BY <1>3 DEF Newer, Stamped
  <2>2. Cardinality(Newer(ks, x) \union {x}) = rank[x] + 1
    BY <1>2, <2>1, FS_AddElement
  <2>3. Cardinality(Newer(ks, x) \union {x}) <= rank[y]
    BY <1>2, <2>1, FS_Subset
  <2> QED
    BY <1>1, <1>2, <2>2, <2>3
<1>4. \A x, y \in ks : rank[x] = rank[y] => x = y
  <2> SUFFICES ASSUME NEW x \in ks, NEW y \in ks, rank[x] = rank[y] PROVE x = y
    OBVIOUS
  <2>1. rank[x] \in Int /\ rank[y] \in Int /\ x.lastAccess \in Nat /\ y.lastAccess \in Nat
    BY <1>2 DEF Stamped
  <2>2. ~ (x.lastAccess > y.lastAccess) /\ ~ (y.lastAccess > x.lastAccess)
    BY <1>3, <2>1
  <2> HIDE DEF rank
  <2>3. x.lastAccess = y.lastAccess
    BY <2>1, <2>2
  <2> QED
    BY <2>3 DEF Stamped
<1>5. rank \in Injection(ks, 0..n-1)
  <2>1. rank \in [ks -> 0..n-1]
    BY <1>2
  <2> HIDE DEF rank, n
  <2> QED
    BY <1>4, <2>1 DEF Injection, IsInjective
<1>6. IsFiniteSet(0..n-1) /\ Cardinality(0..n-1) = n
  BY <1>1, FS_Interval
<1>7. rank \in Surjection(ks, 0..n-1)
  BY <1>5, <1>6, FS_Injection
<1>8. \A i \in 1..n : \E x \in ks : rank[x] = i - 1
  <2> SUFFICES ASSUME NEW i \in 1..n PROVE \E x \in ks : rank[x] = i - 1
    OBVIOUS
  <2>1. i - 1 \in 0..n-1
    BY <1>1
  <2> HIDE DEF rank, n
  <2> QED
    BY <1>7, <2>1 DEF Surjection
<1> DEFINE o == [i \in 1..n |-> CHOOSE x \in ks : rank[x] = i - 1]
<1> HIDE DEF rank
<1>9. \A i \in 1..n : o[i] \in ks /\ rank[o[i]] = i - 1
  BY <1>8
<1>10. o \in Seq(ks) /\ Len(o) = n
  BY <1>1, <1>9
<1> HIDE DEF o, n
<1>11. ASSUME NEW x \in ks PROVE \E i \in 1..n : o[i] = x
  <2>1. rank[x] + 1 \in 1..n /\ (rank[x] + 1) - 1 = rank[x]
    BY <1>1, <1>2
  <2>2. o[rank[x] + 1] = x
    BY <1>4, <1>9, <2>1
  <2> QED
    BY <2>1, <2>2
<1>12. ASSUME NEW i \in 1..n, NEW j \in 1..n, i < j
       PROVE  o[i].lastAccess > o[j].lastAccess
  <2>1. /\ rank[o[i]] < rank[o[j]] /\ o[i] \in ks /\ o[j] \in ks
        /\ rank[o[i]] \in Int /\ rank[o[j]] \in Int
    BY <1>9, <1>12, <1>1
  <2>2. o[i].lastAccess \in Nat /\ o[j].lastAccess \in Nat
    BY <2>1 DEF Stamped
  <2>3. o[i].lastAccess # o[j].lastAccess
    BY <2>1 DEF Stamped
  <2>4. ~ (o[j].lastAccess > o[i].lastAccess)
    BY <1>3, <2>1
  <2> QED
    BY <2>2, <2>3, <2>4
<1> QED
  BY <1>10, <1>11, <1>12 DEF Orders

\* The place in the sorted vector is the number of newer ones, so that what is asked
\* for by that number is what is there.
LEMMA OrderFacts ==
    ASSUME NEW ks, Stamped(ks), NEW o, Orders(o, ks)
    PROVE  /\ Len(o) = Cardinality(ks) /\ Len(o) \in Nat /\ Len(KeysOf(o)) = Len(o)
           /\ \A i \in 1..Len(o) : o[i] \in ks /\ Cardinality(Newer(ks, o[i])) = i - 1
           /\ MostRecentFirst(ks) = KeysOf(o) /\ KeysOf(o) \in Seq(Key)
<1> DEFINE n == Len(o)
<1>1. o \in [1..n -> ks] /\ n \in Nat
  BY DEF Orders
<1> HIDE DEF n
<1>2. \A i \in 1..n : o[i] \in ks /\ o[i].lastAccess \in Nat /\ o[i].key \in Key
  BY <1>1 DEF Stamped
<1>3. \A i, j \in 1..n : i < j => o[i].lastAccess > o[j].lastAccess
  BY DEF Orders, n
<1>4. \A i, j \in 1..n : o[i] = o[j] => i = j
  <2> SUFFICES ASSUME NEW i \in 1..n, NEW j \in 1..n, o[i] = o[j], i # j PROVE FALSE
    OBVIOUS
  <2>1. i < j \/ j < i
    BY <1>1
  <2>2. o[i].lastAccess > o[j].lastAccess \/ o[j].lastAccess > o[i].lastAccess
    BY <1>3, <2>1
  <2> QED
    BY <1>2, <2>2
<1>5. ASSUME NEW m \in 0..n
      PROVE  Cardinality({o[j] : j \in 1..m}) = m
  <2> DEFINE f == [j \in 1..m |-> o[j]]
  <2>1. m \in Nat /\ 1..m \subseteq 1..n
    BY <1>1
  <2>2. f \in Bijection(1..m, {o[j] : j \in 1..m})
    <3>1. f \in [1..m -> {o[j] : j \in 1..m}]
      OBVIOUS
    <3>2. \A i, j \in 1..m : f[i] = f[j] => i = j
      BY <1>4, <2>1
    <3>3. \A x \in {o[j] : j \in 1..m} : \E j \in 1..m : f[j] = x
      OBVIOUS
    <3> HIDE DEF f
    <3> QED
      BY <3>1, <3>2, <3>3 DEF Bijection, Injection, IsInjective, Surjection
  <2> QED
    BY <2>1, <2>2, FS_CountingElements DEF ExistsBijection
<1>6. ks = {o[j] : j \in 1..n}
  BY <1>1 DEF Orders, n
<1>7. n = Cardinality(ks)
  BY <1>1, <1>5, <1>6
<1>8. ASSUME NEW i \in 1..n
      PROVE  Cardinality(Newer(ks, o[i])) = i - 1
  <2>1. \A j \in 1..n : o[j].lastAccess > o[i].lastAccess <=> j < i
    <3> SUFFICES ASSUME NEW j \in 1..n
                 PROVE  o[j].lastAccess > o[i].lastAccess <=> j < i
      OBVIOUS
    <3>1. CASE j < i
      BY <1>3, <3>1
    <3>2. CASE j = i
      BY <1>2, <3>2
    <3>3. CASE j > i
      <4>1. o[i].lastAccess > o[j].lastAccess
        BY <1>3, <3>3
      <4> QED
        BY <1>1, <1>2, <3>3, <4>1
    <3> QED
      BY <1>1, <3>1, <3>2, <3>3
  <2>2. i - 1 \in 0..n /\ \A j \in 1..n : j < i <=> j \in 1..(i - 1)
    BY <1>1
  <2>3. Newer(ks, o[i]) = {o[j] : j \in 1..(i - 1)}
    <3>1. \A y \in Newer(ks, o[i]) : \E j \in 1..(i - 1) : y = o[j]
      BY <1>6, <2>1, <2>2 DEF Newer
    <3>2. \A j \in 1..(i - 1) : j \in 1..n /\ o[j] \in Newer(ks, o[i])
      BY <1>1, <1>2, <2>1, <2>2 DEF Newer
    <3> QED
      BY <3>1, <3>2
  <2> QED
    BY <1>5, <2>2, <2>3
<1>9. ASSUME NEW i \in 1..n
      PROVE  WithNewer(ks, i - 1) = o[i]
  <2>1. \A x \in ks : Cardinality(Newer(ks, x)) = i - 1 => x = o[i]
    <3> SUFFICES ASSUME NEW j \in 1..n, Cardinality(Newer(ks, o[j])) = i - 1 PROVE j = i
      BY <1>6
    <3> QED
      BY <1>1, <1>8
  <2>2. o[i] \in ks /\ Cardinality(Newer(ks, o[i])) = i - 1
    BY <1>2, <1>8
  <2> QED
    BY <2>1, <2>2 DEF Newer, WithNewer
<1>10. MostRecentFirst(ks) = KeysOf(o)
  BY <1>7, <1>9 DEF MostRecentFirst, KeysOf, n
<1>11. KeysOf(o) \in Seq(Key) /\ Len(KeysOf(o)) = n
  BY <1>1, <1>2 DEF KeysOf, n
<1> QED
  BY <1>1, <1>2, <1>7, <1>8, <1>10, <1>11 DEF n

\* The vector without its m-th object, and with one in front
LEMMA RemoveAtFacts ==
    ASSUME NEW S, NEW o \in Seq(S), NEW m \in 1..Len(o)
    PROVE  /\ RemoveAt(o, m) \in Seq(S) /\ Len(RemoveAt(o, m)) = Len(o) - 1
           /\ \A i \in 1..Len(o) - 1 : RemoveAt(o, m)[i] = IF i < m THEN o[i] ELSE o[i + 1]
<1> DEFINE p == SubSeq(o, 1, m - 1)
           q == SubSeq(o, m + 1, Len(o))
<1>1. m \in Nat \ {0} /\ Len(o) \in Nat /\ m <= Len(o)
  OBVIOUS
<1>2. /\ p \in Seq(S) /\ Len(p) = m - 1
      /\ \A i \in 1..(m - 1) : p[i] = o[i]
  BY <1>1
<1>3. /\ q \in Seq(S) /\ Len(q) = Len(o) - m
      /\ \A i \in 1..(Len(o) - m) : q[i] = o[m + i]
  BY <1>1
<1> HIDE DEF p, q
<1>4. /\ p \o q \in Seq(S) /\ Len(p \o q) = Len(o) - 1
      /\ \A i \in 1..Len(o) - 1 : (p \o q)[i] = IF i <= m - 1 THEN p[i] ELSE q[i - (m - 1)]
  <2>1. /\ p \o q \in Seq(S) /\ Len(p \o q) = Len(p) + Len(q)
        /\ \A i \in 1..Len(p) + Len(q) : (p \o q)[i] = IF i <= Len(p) THEN p[i] ELSE q[i - Len(p)]
    <3>1. p \in Seq(S) /\ q \in Seq(S)
      BY <1>2, <1>3
    <3> QED
      BY <3>1, ConcatProperties
  <2>2. Len(p) + Len(q) = Len(o) - 1
    BY <1>1, <1>2, <1>3
  <2> QED
    BY <1>2, <2>1, <2>2
<1>5. \A i \in 1..Len(o) - 1 : (p \o q)[i] = IF i < m THEN o[i] ELSE o[i + 1]
  <2> SUFFICES ASSUME NEW i \in 1..Len(o) - 1
               PROVE  (p \o q)[i] = IF i < m THEN o[i] ELSE o[i + 1]
    OBVIOUS
  <2>1. CASE i < m
    <3>1. i \in 1..(m - 1) /\ i <= m - 1
      BY <1>1, <2>1
    <3> QED
      BY <1>2, <1>4, <2>1, <3>1
  <2>2. CASE ~ (i < m)
    <3>1. i - (m - 1) \in 1..(Len(o) - m) /\ ~ (i <= m - 1) /\ m + (i - (m - 1)) = i + 1
      BY <1>1, <2>2
    <3> QED
      BY <1>3, <1>4, <2>2, <3>1
  <2> QED
    BY <2>1, <2>2
<1>6. RemoveAt(o, m) = p \o q
  BY DEF RemoveAt, p, q
<1> QED
  BY <1>4, <1>5, <1>6

LEMMA FrontFacts ==
    ASSUME NEW S, NEW o \in Seq(S), NEW x \in S
    PROVE  /\ <<x>> \o o \in Seq(S) /\ Len(<<x>> \o o) = Len(o) + 1 /\ Len(o) \in Nat
           /\ (<<x>> \o o)[1] = x
           /\ \A i \in 2..Len(o) + 1 : (<<x>> \o o)[i] = o[i - 1]
  OBVIOUS

\* Cutting the vector leaves the newest, in their order.
LEMMA CutOrder ==
    ASSUME NEW ks, Stamped(ks), NEW o, Orders(o, ks), NEW n \in Nat, n <= Len(o)
    PROVE  /\ Stamped(Newest(ks, n)) /\ Orders(SubSeq(o, 1, n), Newest(ks, n))
           /\ KeysOf(SubSeq(o, 1, n)) = SubSeq(KeysOf(o), 1, n)
<1> DEFINE p == SubSeq(o, 1, n)
           kept == Newest(ks, n)
<1>1. /\ o \in Seq(ks) /\ Len(o) \in Nat
      /\ \A i \in 1..Len(o) : o[i] \in ks /\ Cardinality(Newer(ks, o[i])) = i - 1
  BY OrderFacts DEF Orders
<1>2. kept \subseteq ks /\ \A x \in ks : x \in kept <=> Cardinality(Newer(ks, x)) < n
  BY DEF Newest, Newer
<1>3. Stamped(kept)
  BY <1>2, FS_Subset DEF Stamped
<1>4. Len(p) = n /\ \A i \in 1..n : p[i] = o[i] /\ i \in 1..Len(o)
  BY <1>1
<1>5. \A i \in 1..n : o[i] \in kept
  BY <1>1, <1>2, <1>4
<1>6. p \in Seq(kept)
  <2>1. p = [i \in 1..n |-> o[i]]
    BY <1>1, <1>4
  <2> HIDE DEF p, kept
  <2> QED
    BY <1>5, <2>1
<1>7. ASSUME NEW x \in kept PROVE \E i \in 1..n : p[i] = x
  <2>1. PICK i \in 1..Len(o) : o[i] = x
    BY <1>2 DEF Orders
  <2>2. i \in 1..n
    BY <1>1, <1>2, <2>1
  <2> QED
    BY <1>4, <2>1, <2>2
<1>8. \A i, j \in 1..n : i < j => p[i].lastAccess > p[j].lastAccess
  <2> HIDE DEF p
  <2> QED
    BY <1>4 DEF Orders
<1>9. KeysOf(p) = SubSeq(KeysOf(o), 1, n)
  <2>1. KeysOf(o) \in Seq(Key) /\ Len(KeysOf(o)) = Len(o)
    BY OrderFacts
  <2>2. SubSeq(KeysOf(o), 1, n) = [i \in 1..n |-> KeysOf(o)[i]]
    BY <1>1, <2>1
  <2>3. \A i \in 1..n : KeysOf(o)[i] = o[i].key
    BY <1>4 DEF KeysOf
  <2> HIDE DEF p
  <2>4. KeysOf(p) = [i \in 1..n |-> o[i].key]
    BY <1>4 DEF KeysOf
  <2> QED
    BY <2>2, <2>3, <2>4
<1> QED
  BY <1>3, <1>4, <1>6, <1>7, <1>8, <1>9 DEF Orders

\* An object that is used goes to the front.
LEMMA FrontOrder ==
    ASSUME NEW ks, Stamped(ks), NEW o, Orders(o, ks), NEW x, x.key \in Key,
           x.lastAccess \in Nat, \A y \in ks : y.lastAccess < x.lastAccess
    PROVE  /\ Stamped(ks \union {x}) /\ Orders(<<x>> \o o, ks \union {x})
           /\ KeysOf(<<x>> \o o) = <<x.key>> \o KeysOf(o)
<1> DEFINE p == <<x>> \o o
           all == ks \union {x}
<1>1. o \in Seq(ks) /\ Len(o) \in Nat /\ \A i \in 1..Len(o) : o[i] \in ks
  BY DEF Orders
<1>2. \A y \in ks : y.lastAccess \in Nat
  BY DEF Stamped
<1>3. Stamped(all)
  BY <1>2, FS_AddElement DEF Stamped
<1>4. /\ p \in Seq(all) /\ Len(p) = Len(o) + 1
      /\ p[1] = x
      /\ \A i \in 2..Len(o) + 1 : p[i] = o[i - 1] /\ i - 1 \in 1..Len(o)
  <2>1. o \in Seq(all) /\ x \in all
    BY <1>1
  <2> QED
    BY <1>1, <2>1, FrontFacts
<1> HIDE DEF p
<1>5. ASSUME NEW y \in all PROVE \E i \in 1..Len(p) : p[i] = y
  <2>1. CASE y = x
    BY <1>1, <1>4, <2>1
  <2>2. ASSUME NEW i \in 1..Len(o), o[i] = y PROVE \E j \in 1..Len(p) : p[j] = y
    <3>1. i + 1 \in 2..Len(o) + 1 /\ i + 1 \in 1..Len(p) /\ (i + 1) - 1 = i
      BY <1>1, <1>4
    <3> QED
      BY <1>4, <2>2, <3>1
  <2> QED
    BY <2>1, <2>2 DEF Orders
<1>6. ASSUME NEW i \in 1..Len(p), NEW j \in 1..Len(p), i < j
      PROVE  p[i].lastAccess > p[j].lastAccess
  <2>1. j \in 2..Len(o) + 1 /\ p[j] = o[j - 1] /\ j - 1 \in 1..Len(o)
    BY <1>1, <1>4, <1>6
  <2>2. CASE i = 1
    BY <1>1, <1>2, <1>4, <2>1, <2>2
  <2>3. CASE i # 1
    <3>1. i \in 2..Len(o) + 1 /\ p[i] = o[i - 1] /\ i - 1 \in 1..Len(o) /\ i - 1 < j - 1
      BY <1>1, <1>4, <1>6, <2>3
    <3> QED
      BY <2>1, <3>1 DEF Orders
  <2> QED
    BY <2>2, <2>3
<1>7. KeysOf(p) = <<x.key>> \o KeysOf(o)
  <2>1. KeysOf(o) \in Seq(Key) /\ Len(KeysOf(o)) = Len(o)
    BY OrderFacts
  <2> DEFINE r == <<x.key>> \o KeysOf(o)
  <2>2. /\ r \in Seq(Key) /\ Len(r) = Len(o) + 1 /\ r[1] = x.key
        /\ \A i \in 2..Len(o) + 1 : r[i] = KeysOf(o)[i - 1]
    BY <2>1, FrontFacts
  <2> HIDE DEF r
  <2>3. ASSUME NEW i \in 1..Len(o) + 1 PROVE r[i] = p[i].key
    <3>1. CASE i = 1
      BY <1>4, <2>2, <3>1
    <3>2. CASE i # 1
      <4>1. i \in 2..Len(o) + 1
        BY <1>1, <3>2
      <4>2. KeysOf(o)[i - 1] = o[i - 1].key
        BY <1>4, <4>1 DEF KeysOf
      <4> QED
        BY <1>4, <2>2, <4>1, <4>2
    <3> QED
      BY <3>1, <3>2
  <2>4. r = [i \in 1..Len(o) + 1 |-> r[i]]
    BY <2>2
  <2>5. KeysOf(p) = [i \in 1..Len(o) + 1 |-> p[i].key]
    BY <1>4 DEF KeysOf
  <2>6. r = KeysOf(p)
    BY <2>3, <2>4, <2>5
  <2> QED
    BY <2>6 DEF r
<1> QED
  BY <1>3, <1>4, <1>5, <1>6, <1>7 DEF Orders, p

LEMMA RemoveOrder ==
    ASSUME NEW ks, Stamped(ks), NEW o, Orders(o, ks), NEW m \in 1..Len(o)
    PROVE  /\ Stamped(ks \ {o[m]}) /\ Orders(RemoveAt(o, m), ks \ {o[m]})
           /\ KeysOf(RemoveAt(o, m)) = RemoveAt(KeysOf(o), m)
<1> DEFINE p == RemoveAt(o, m)
           others == ks \ {o[m]}
           n == Len(o)
           at == [i \in 1..n - 1 |-> IF i < m THEN i ELSE i + 1]
<1>1. /\ o \in Seq(ks) /\ n \in Nat /\ m \in 1..n
      /\ \A i, j \in 1..n : o[i] = o[j] => i = j
  <2>1. \A i \in 1..n : o[i] \in ks /\ Cardinality(Newer(ks, o[i])) = i - 1
    BY OrderFacts
  <2>2. o \in Seq(ks)
    BY DEF Orders
  <2>3. ASSUME NEW i \in 1..n, NEW j \in 1..n, o[i] = o[j] PROVE i = j
    <3>1. i - 1 = j - 1
      BY <2>1, <2>3
    <3> QED
      BY <3>1
  <2> QED
    BY <2>2, <2>3
<1>2. Stamped(others)
  BY FS_RemoveElement DEF Stamped
<1>3. /\ p \in Seq(ks) /\ Len(p) = n - 1
      /\ \A i \in 1..n - 1 : p[i] = IF i < m THEN o[i] ELSE o[i + 1]
  BY <1>1, RemoveAtFacts
<1> HIDE DEF p, n
<1>4. /\ \A i \in 1..n - 1 : at[i] \in 1..n /\ at[i] # m /\ p[i] = o[at[i]]
      /\ \A i, j \in 1..n - 1 : i < j => at[i] < at[j]
  BY <1>1, <1>3
<1>5. ASSUME NEW j \in 1..n, j # m PROVE \E i \in 1..n - 1 : at[i] = j
  <2>1. CASE j < m
    <3>1. j \in 1..n - 1 /\ at[j] = j
      BY <1>1, <2>1
    <3> QED
      BY <3>1
  <2>2. CASE j > m
    <3>1. j - 1 \in 1..n - 1 /\ at[j - 1] = j
      BY <1>1, <2>2
    <3> QED
      BY <3>1
  <2> QED
    BY <1>1, <1>5, <2>1, <2>2
<1> HIDE DEF at
<1>6. p \in Seq(others)
  <2>1. \A i \in 1..n - 1 : p[i] \in others
    BY <1>1, <1>3, <1>4
  <2>2. p = [i \in 1..n - 1 |-> p[i]] /\ n - 1 \in Nat
    BY <1>1, <1>3
  <2> HIDE DEF others
  <2> QED
    BY <2>1, <2>2
<1>7. ASSUME NEW x \in others PROVE \E i \in 1..n - 1 : p[i] = x
  <2>1. PICK j \in 1..n : o[j] = x
    BY DEF Orders, n
  <2>2. j # m
    BY <2>1
  <2> QED
    BY <1>4, <1>5, <2>1, <2>2
<1>8. \A i, j \in 1..n - 1 : i < j => p[i].lastAccess > p[j].lastAccess
  <2>1. \A i, j \in 1..n : i < j => o[i].lastAccess > o[j].lastAccess
    BY DEF Orders, n
  <2> QED
    BY <1>4, <2>1
<1>9. KeysOf(p) = RemoveAt(KeysOf(o), m)
  <2>1. KeysOf(o) \in Seq(Key) /\ Len(KeysOf(o)) = n
    BY OrderFacts DEF n
  <2> DEFINE r == RemoveAt(KeysOf(o), m)
  <2>2. /\ r \in Seq(Key) /\ Len(r) = n - 1
        /\ \A i \in 1..n - 1 : r[i] = IF i < m THEN KeysOf(o)[i] ELSE KeysOf(o)[i + 1]
    BY <1>1, <2>1, RemoveAtFacts
  <2> HIDE DEF r
  <2>3. \A i \in 1..n : KeysOf(o)[i] = o[i].key
    BY DEF KeysOf, n
  <2>4. \A i \in 1..n - 1 : r[i] = KeysOf(o)[at[i]]
    BY <1>1, <2>2 DEF at
  <2>5. \A i \in 1..n - 1 : r[i] = p[i].key
    BY <1>4, <2>3, <2>4
  <2>6. r = [i \in 1..n - 1 |-> r[i]]
    BY <2>2
  <2>7. KeysOf(p) = [i \in 1..n - 1 |-> p[i].key]
    BY <1>3 DEF KeysOf
  <2>8. r = KeysOf(p)
    BY <2>5, <2>6, <2>7
  <2> QED
    BY <2>8 DEF r
<1> QED
  BY <1>2, <1>3, <1>6, <1>7, <1>8, <1>9 DEF Orders, p

-----------------------------------------------------------------------------
(* The cache keeps the keys used last.                                        *)

LEMMA SoundStamped ==
    ASSUME NEW vs, NEW ks, NEW counter, Sound(vs, ks, counter)
    PROVE  Stamped(ks)
  BY DEF Sound, KeysTyped, Stamped

\* No key has two objects: there are no more than the keys there may be.
LEMMA KeysFit ==
    ASSUME NEW vs, NEW ks, NEW counter, Sound(vs, ks, counter)
    PROVE  /\ \A x, y \in ks : x.key = y.key => x = y
           /\ Cardinality(ks) \in Nat /\ Cardinality(ks) <= SIZE_MAX
<1>1. \A x, y \in ks : x.key = y.key => x = y
  BY DEF Sound, KeysTyped, Linked
<1> DEFINE f == [x \in ks |-> x.key]
<1>2. f \in [ks -> Key] /\ \A x, y \in ks : f[x] = f[y] => x = y
  BY <1>1 DEF Sound, KeysTyped
<1>3. f \in Injection(ks, Key)
  <2> HIDE DEF f
  <2> QED
    BY <1>2 DEF Injection, IsInjective
<1>4. Cardinality(ks) <= Cardinality(Key)
  BY <1>3, CacheAssumption, FS_Injection
<1>5. Cardinality(ks) \in Nat /\ Cardinality(Key) \in Nat
  BY CacheAssumption, FS_CardinalityType DEF Sound, KeysTyped
<1> QED
  BY <1>1, <1>4, <1>5, CacheAssumption

\* The keys in order are those of the map, each once.
LEMMA KeysInOrder ==
    ASSUME NEW vs, NEW ks, NEW counter, Sound(vs, ks, counter), NEW o, Orders(o, ks)
    PROVE  /\ Range(KeysOf(o)) = DOMAIN vs /\ DOMAIN KeysOf(o) = 1..Len(o)
           /\ \A i, j \in 1..Len(o) : KeysOf(o)[i] = KeysOf(o)[j] => i = j
<1>1. Stamped(ks) /\ Len(o) \in Nat
  BY SoundStamped, OrderFacts
<1>2. DOMAIN KeysOf(o) = 1..Len(o) /\ \A i \in 1..Len(o) : KeysOf(o)[i] = o[i].key
  BY DEF KeysOf
<1>3. \A i \in 1..Len(o) : o[i] \in ks /\ Cardinality(Newer(ks, o[i])) = i - 1
  BY <1>1, OrderFacts
<1>4. ASSUME NEW i \in 1..Len(o), NEW j \in 1..Len(o), KeysOf(o)[i] = KeysOf(o)[j]
      PROVE  i = j
  <2>1. o[i] = o[j]
    BY <1>2, <1>3, <1>4, KeysFit
  <2>2. i - 1 = j - 1
    BY <1>3, <2>1
  <2> QED
    BY <1>1, <2>2
<1>5. ASSUME NEW k \in DOMAIN vs PROVE k \in Range(KeysOf(o))
  <2>1. PICK x \in ks : x.key = k
    BY DEF Sound, Linked
  <2>2. PICK i \in 1..Len(o) : o[i] = x
    BY DEF Orders
  <2> QED
    BY <1>2, <2>1, <2>2 DEF Range
<1>6. ASSUME NEW i \in 1..Len(o) PROVE KeysOf(o)[i] \in DOMAIN vs
  BY <1>2, <1>3 DEF Sound, Linked
<1>7. Range(KeysOf(o)) = DOMAIN vs
  <2>1. \A k \in Range(KeysOf(o)) : \E i \in 1..Len(o) : k = KeysOf(o)[i]
    BY <1>2 DEF Range
  <2> QED
    BY <1>5, <1>6, <2>1
<1> QED
  BY <1>2, <1>4, <1>7

LEMMA Held ==
    ASSUME Sound(values', keys', accessCounter'), NEW value,
           \A k \in DOMAIN values' : values'[k].value = value[k]
    PROVE  LRU!Hold(MostRecentFirst(keys'), value)
<1>1. PICK o : Orders(o, keys')
  BY SoundStamped, OrderExists
<1>2. MostRecentFirst(keys') = KeysOf(o) /\ Range(KeysOf(o)) = DOMAIN values'
  BY <1>1, SoundStamped, OrderFacts, KeysInOrder
<1>3. ValuesOf(values') = [k \in DOMAIN values' |-> value[k]]
  BY DEF ValuesOf
<1> QED
  BY <1>2, <1>3 DEF LRU!Hold, LRU!Range, Range

\* Trimming, to less than there are or not.
LEMMA TrimToHolds ==
    ASSUME CacheInv, NEW n \in Nat, TrimTo(n), UNCHANGED accessCounter
    PROVE  /\ LRU!Hold(LRU!FirstOf(MostRecentFirst(keys), n), ValuesOf(values))
           /\ Cardinality(keys') <= n /\ Cardinality(keys') <= Cardinality(keys)
<1>1. Stamped(keys) /\ Sound(values', keys', accessCounter')
  BY TrimToSound, SoundStamped DEF CacheInv
<1>2. PICK o : Orders(o, keys)
  BY <1>1, OrderExists
<1>3. /\ Len(o) = Cardinality(keys) /\ Len(o) \in Nat /\ MostRecentFirst(keys) = KeysOf(o)
      /\ Len(KeysOf(o)) = Len(o)
  BY <1>1, <1>2, OrderFacts
<1>4. CASE Cardinality(keys) <= n
  <2>1. UNCHANGED <<values, keys>>
    BY <1>4 DEF TrimTo
  <2>2. LRU!FirstOf(MostRecentFirst(keys), n) = MostRecentFirst(keys')
    BY <1>3, <1>4, <2>1 DEF LRU!FirstOf
  <2>3. \A k \in DOMAIN values' : values'[k].value = ValuesOf(values)[k]
    BY <2>1 DEF ValuesOf
  <2> QED
    BY <1>1, <1>3, <1>4, <2>1, <2>2, <2>3, Held
<1>5. CASE ~ (Cardinality(keys) <= n)
  <2>1. Cut(values, keys, n) /\ n <= Len(o)
    BY <1>3, <1>5 DEF TrimTo
  <2>2. keys' = Newest(keys, n)
    BY <2>1 DEF Cut
  <2>3. /\ Stamped(keys') /\ Orders(SubSeq(o, 1, n), keys')
        /\ KeysOf(SubSeq(o, 1, n)) = SubSeq(KeysOf(o), 1, n)
    BY <1>1, <1>2, <2>1, <2>2, CutOrder
  <2>4. /\ MostRecentFirst(keys') = KeysOf(SubSeq(o, 1, n))
        /\ Cardinality(keys') = Len(SubSeq(o, 1, n))
    BY <2>3, OrderFacts
  <2>5. Len(SubSeq(o, 1, n)) = n
    BY <1>2, <1>3, <2>1 DEF Orders
  <2>6. LRU!FirstOf(MostRecentFirst(keys), n) = MostRecentFirst(keys')
    BY <1>3, <1>5, <2>3, <2>4 DEF LRU!FirstOf
  <2>7. \A k \in DOMAIN values' : values'[k].value = ValuesOf(values)[k]
    <3>1. DOMAIN values' \subseteq DOMAIN values /\ \A k \in DOMAIN values' : values'[k] = values[k]
      BY <2>1 DEF Cut, Restrict
    <3> QED
      BY <3>1 DEF ValuesOf
  <2> QED
    BY <1>1, <1>3, <1>5, <2>4, <2>5, <2>6, <2>7, Held
<1> QED
  BY <1>4, <1>5

\* A new value: its key goes to the front, and if there is a limit the key used
\* longest ago may go.
LEMMA AddUses ==
    ASSUME CacheInv, NEW k \in Key, ~ IsCached(k), NEW v \in Val, AddNewValue(k, v)
    PROVE  LRU!Use(k, v) /\ Cardinality(keys') <= Limit
<1> DEFINE vs == [x \in {k} \union DOMAIN values |->
                    IF x = k THEN [value |-> v, key |-> accessCounter] ELSE values[x]]
           x0 == KeyAccess(k)
           ks == keys \union {x0}
           value == [x \in {k} \union DOMAIN values |->
                       IF x = k THEN v ELSE ValuesOf(values)[x]]
<1>1. Stamped(keys) /\ accessCounter \in Nat /\ Sound(values', keys', accessCounter')
  BY AddSound, SoundStamped, CacheAssumption DEF CacheInv
<1>2. x0.key = k /\ x0.lastAccess \in Nat /\ \A y \in keys : y.lastAccess < x0.lastAccess
  BY <1>1 DEF KeyAccess, CacheInv, Sound, KeysTyped
<1>3. PICK o : Orders(o, keys)
  BY <1>1, OrderExists
<1>4. /\ MostRecentFirst(keys) = KeysOf(o) /\ KeysOf(o) \in Seq(Key)
      /\ Range(KeysOf(o)) = DOMAIN values
  BY <1>1, <1>3, OrderFacts, KeysInOrder DEF CacheInv
<1> DEFINE p == <<x0>> \o o
<1> HIDE DEF x0
<1>5. Stamped(ks) /\ Orders(p, ks) /\ KeysOf(p) = <<k>> \o KeysOf(o)
  <2>1. /\ Stamped(keys \union {x0}) /\ Orders(<<x0>> \o o, keys \union {x0})
        /\ KeysOf(<<x0>> \o o) = <<x0.key>> \o KeysOf(o)
    BY <1>1, <1>2, <1>3, FrontOrder
  <2> QED
    BY <1>2, <2>1
<1>6. Len(p) = Cardinality(ks) /\ Len(p) \in Nat /\ Len(KeysOf(p)) = Len(p)
      /\ MostRecentFirst(ks) = KeysOf(p)
  BY <1>5, OrderFacts
<1>7. LRU!Others(k) = KeysOf(o)
  BY <1>4 DEF LRU!Others, LRU!Range, Range, IsCached
<1>8. \/ maxSize > 0 /\ Cardinality(ks) > maxSize /\ Cut(vs, ks, maxSize)
      \/ ~ (maxSize > 0 /\ Cardinality(ks) > maxSize) /\ values' = vs /\ keys' = ks
  BY DEF AddNewValue, x0
<1>9. maxSize \in Nat /\ maxSize <= SIZE_MAX /\ SIZE_MAX \in Nat
  BY CacheAssumption DEF CacheInv
<1>10. \A x \in DOMAIN values' : values'[x].value = value[x]
  <2>1. DOMAIN values' \subseteq DOMAIN vs /\ \A x \in DOMAIN values' : values'[x] = vs[x]
    BY <1>8 DEF Cut, Restrict
  <2>2. ASSUME NEW x \in DOMAIN values' PROVE vs[x].value = value[x]
    <3>1. CASE x = k
      BY <3>1
    <3>2. CASE x # k
      <4>1. x \in DOMAIN values /\ vs[x] = values[x]
        BY <2>1, <3>2
      <4> QED
        BY <3>2, <4>1 DEF ValuesOf
    <3> QED
      BY <3>1, <3>2
  <2> HIDE DEF vs, value
  <2> QED
    BY <2>1, <2>2
<1> HIDE DEF vs, ks, p, value
<1>11. /\ LRU!FirstOf(KeysOf(p), Limit) = MostRecentFirst(keys')
       /\ Cardinality(keys') <= Limit
  <2>1. CASE maxSize > 0 /\ Cardinality(ks) > maxSize /\ Cut(vs, ks, maxSize)
    <3>1. keys' = Newest(ks, maxSize) /\ maxSize <= Len(p) /\ Limit = maxSize
      BY <1>6, <1>9, <2>1 DEF Cut, Limit
    <3>2. /\ Stamped(keys') /\ Orders(SubSeq(p, 1, maxSize), keys')
          /\ KeysOf(SubSeq(p, 1, maxSize)) = SubSeq(KeysOf(p), 1, maxSize)
      BY <1>5, <1>9, <3>1, CutOrder
    <3>3. /\ MostRecentFirst(keys') = KeysOf(SubSeq(p, 1, maxSize))
          /\ Cardinality(keys') = Len(SubSeq(p, 1, maxSize))
      BY <3>2, OrderFacts
    <3>4. Len(SubSeq(p, 1, maxSize)) = maxSize
      BY <1>5, <1>6, <1>9, <3>1 DEF Orders
    <3>5. ~ (Len(KeysOf(p)) <= Limit)
      BY <1>6, <1>9, <2>1, <3>1
    <3> QED
      BY <1>9, <3>1, <3>2, <3>3, <3>4, <3>5 DEF LRU!FirstOf
  <2>2. CASE ~ (maxSize > 0 /\ Cardinality(ks) > maxSize) /\ values' = vs /\ keys' = ks
    <3>1. Cardinality(ks) <= Limit
      <4>1. CASE maxSize = 0
        BY <1>1, <2>2, <4>1, KeysFit DEF Limit
      <4>2. CASE maxSize # 0
        BY <1>6, <1>9, <2>2, <4>2 DEF Limit
      <4> QED
        BY <4>1, <4>2
    <3> QED
      BY <1>6, <2>2, <3>1 DEF LRU!FirstOf
  <2> QED
    BY <1>8, <2>1, <2>2
<1>12. LRU!Hold(MostRecentFirst(keys'), value)
  BY <1>1, <1>10, Held
<1> QED
  BY <1>4, <1>5, <1>7, <1>11, <1>12 DEF LRU!Use, LRU!Range, Range, value

\* A key that is used goes to the front.
LEMMA TouchUses ==
    ASSUME CacheInv, Cardinality(keys) <= Limit, NEW k \in Key, IsCached(k), Touch(k), NEW v,
           Sound(values', keys', accessCounter'), DOMAIN values' = DOMAIN values,
           \A x \in DOMAIN values : values'[x].value = IF x = k THEN v ELSE values[x].value,
           UNCHANGED maxSize
    PROVE  LRU!Use(k, v) /\ Cardinality(keys') <= Limit
<1>1. Stamped(keys) /\ accessCounter \in Nat /\ Sound(values, keys, accessCounter)
  BY SoundStamped, CacheAssumption DEF CacheInv
<1>2. PICK o : Orders(o, keys)
  BY <1>1, OrderExists
<1>3. /\ MostRecentFirst(keys) = KeysOf(o) /\ KeysOf(o) \in Seq(Key)
      /\ Range(KeysOf(o)) = DOMAIN values /\ DOMAIN KeysOf(o) = 1..Len(o)
      /\ Len(o) = Cardinality(keys) /\ Len(o) \in Nat
      /\ \A i, j \in 1..Len(o) : KeysOf(o)[i] = KeysOf(o)[j] => i = j
  BY <1>1, <1>2, OrderFacts, KeysInOrder
<1>4. PICK m \in 1..Len(o) : KeysOf(o)[m] = k
  BY <1>3 DEF IsCached, Range
<1>5. o[m] \in keys /\ o[m].key = k /\ o[m].id = values[k].key
  <2>1. o[m] \in keys /\ o[m].key = k
    BY <1>1, <1>2, <1>4, OrderFacts DEF KeysOf
  <2> QED
    BY <1>1, <2>1 DEF Sound, Linked
<1> DEFINE x0 == [o[m] EXCEPT !.lastAccess = accessCounter]
<1>6. x0.key = k /\ x0.lastAccess = accessCounter
  BY <1>1, <1>5 DEF Sound, KeysTyped
<1>7. keys' = (keys \ {o[m]}) \union {x0}
  <2>1. \A x \in keys : x.id = values[k].key <=> x = o[m]
    BY <1>1, <1>5 DEF Sound, KeysTyped
  <2>2. keys' = {IF x = o[m] THEN x0 ELSE x : x \in keys}
    BY <2>1 DEF Touch
  <2> QED
    BY <1>5, <2>2
<1> HIDE DEF x0
<1> DEFINE p == RemoveAt(o, m)
           q == <<x0>> \o p
<1>8. /\ Stamped(keys \ {o[m]}) /\ Orders(p, keys \ {o[m]})
      /\ KeysOf(p) = RemoveAt(KeysOf(o), m)
  BY <1>1, <1>2, RemoveOrder
<1>9. \A y \in keys \ {o[m]} : y.lastAccess < x0.lastAccess
  BY <1>1, <1>6 DEF Sound, KeysTyped
<1>10. Stamped(keys') /\ Orders(q, keys') /\ KeysOf(q) = <<k>> \o KeysOf(p)
  BY <1>1, <1>6, <1>7, <1>8, <1>9, FrontOrder
<1>11. MostRecentFirst(keys') = KeysOf(q) /\ Len(q) = Cardinality(keys') /\ Len(KeysOf(q)) = Len(q)
  BY <1>10, OrderFacts
<1>12. Len(q) = Len(o)
  <2>1. o \in Seq(keys)
    BY <1>2 DEF Orders
  <2>2. p \in Seq(keys) /\ Len(p) = Len(o) - 1
    BY <2>1, RemoveAtFacts
  <2>3. p \in Seq(keys \union {x0})
    BY <2>2
  <2> HIDE DEF p
  <2> QED
    BY <1>3, <2>2, <2>3, FrontFacts
<1>13. LRU!Others(k) = KeysOf(p)
  <2>1. k \in Range(MostRecentFirst(keys))
    BY <1>3 DEF IsCached
  <2>2. (CHOOSE i \in DOMAIN MostRecentFirst(keys) : MostRecentFirst(keys)[i] = k) = m
    BY <1>3, <1>4
  <2> QED
    BY <1>3, <1>8, <2>1, <2>2 DEF LRU!Others, LRU!Range, Range, LRU!RemoveAt, RemoveAt
<1> HIDE DEF p, q
<1> DEFINE value == [x \in {k} \union DOMAIN values |->
                       IF x = k THEN v ELSE ValuesOf(values)[x]]
<1>14. LRU!Hold(MostRecentFirst(keys'), value)
  <2>1. \A x \in DOMAIN values' : values'[x].value = value[x]
    BY DEF ValuesOf
  <2> HIDE DEF value
  <2> QED
    BY <2>1, Held
<1>15. LRU!FirstOf(KeysOf(q), Limit) = MostRecentFirst(keys')
  BY <1>3, <1>11, <1>12 DEF LRU!FirstOf
<1>16. Cardinality(keys') <= Limit
  BY <1>3, <1>11, <1>12
<1>17. <<k>> \o LRU!Others(k) = KeysOf(q)
  BY <1>10, <1>13
<1>18. [x \in {k} \union LRU!Range(MostRecentFirst(keys)) |->
          IF x = k THEN v ELSE ValuesOf(values)[x]] = value
  BY <1>3 DEF LRU!Range, Range
<1> HIDE DEF value
<1> QED
  BY <1>14, <1>15, <1>16, <1>17, <1>18 DEF LRU!Use

\* What is kept is within the limit, also when that was lowered or is 0.
LRUInv == CacheInv /\ Cardinality(keys) <= Limit

LEMMA LRUInitial == Init => LRU!LRUInit /\ LRUInv
<1> SUFFICES ASSUME Init PROVE LRU!LRUInit /\ LRUInv
  OBVIOUS
<1>1. keys = {} /\ values = << >> /\ maxSize = SIZE_MAX /\ returned = NoValue
  BY DEF Init
<1>2. IsFiniteSet(keys) /\ Cardinality(keys) = 0
  BY <1>1, FS_EmptySet
<1>3. Limit = SIZE_MAX /\ SIZE_MAX \in Nat
  BY <1>1, CacheAssumption DEF Limit
<1>4. CacheInv
  BY <1>2, CacheAssumption
     DEF Init, CacheInv, Sound, ValuesTyped, KeysTyped, Linked
<1>5. MostRecentFirst(keys) = << >>
  BY <1>2 DEF MostRecentFirst
<1>6. ValuesOf(values) = << >>
  BY <1>1 DEF ValuesOf
<1> QED
  BY <1>1, <1>2, <1>3, <1>4, <1>5, <1>6 DEF LRU!LRUInit, LRUInv

LEMMA GetUses ==
    ASSUME LRUInv, NEW k \in Key, Get(k)
    PROVE  LRU!Get(k) /\ Cardinality(keys') <= Limit'
<1> DEFINE v == IF k \in DOMAIN ValuesOf(values) THEN ValuesOf(values)[k] ELSE Supply[k]
<1>1. UNCHANGED maxSize /\ Limit' = Limit /\ (IsCached(k) <=> k \in DOMAIN ValuesOf(values))
  BY DEF Get, Limit, ValuesOf, IsCached
<1>2. CASE IsCached(k)
  <2>1. Touch(k) /\ returned' = values[k].value /\ UNCHANGED values
    BY <1>2 DEF Get
  <2>2. v = values[k].value /\ v \in Val /\ v # NoValue
    BY <1>1, <1>2, CacheAssumption
       DEF LRUInv, CacheInv, Sound, ValuesTyped, ValuesOf, IsCached
  <2>3. Sound(values', keys', accessCounter')
    BY <1>2, <2>1, TouchSound DEF LRUInv, CacheInv, Sound
  <2> HIDE DEF v
  <2>4. \A x \in DOMAIN values : values'[x].value = IF x = k THEN v ELSE values[x].value
    BY <2>1, <2>2
  <2>5. LRU!Use(k, v) /\ Cardinality(keys') <= Limit
    BY <1>1, <1>2, <2>1, <2>3, <2>4, TouchUses DEF LRUInv
  <2>6. LRU!Get(k)
    BY <1>1, <2>1, <2>2, <2>5 DEF LRU!Get, v
  <2> QED
    BY <1>1, <2>5, <2>6
<1>3. CASE ~ IsCached(k) /\ Supply[k] # NoValue
  <2>1. AddNewValue(k, Supply[k]) /\ returned' = Supply[k] /\ Supply[k] \in Val
    BY <1>3, CacheAssumption DEF Get
  <2>2. v = Supply[k]
    BY <1>1, <1>3
  <2> HIDE DEF v
  <2>3. LRU!Use(k, v) /\ Cardinality(keys') <= Limit
    BY <1>3, <2>1, <2>2, AddUses DEF LRUInv
  <2>4. LRU!Get(k)
    BY <1>1, <1>3, <2>1, <2>2, <2>3 DEF LRU!Get, v
  <2> QED
    BY <1>1, <2>3, <2>4
<1>4. CASE ~ IsCached(k) /\ Supply[k] = NoValue
  <2>1. returned' = NoValue /\ UNCHANGED <<values, keys, accessCounter>>
    BY <1>4 DEF Get
  <2>2. v = NoValue
    BY <1>1, <1>4
  <2>3. UNCHANGED <<MostRecentFirst(keys), ValuesOf(values)>>
    BY <2>1
  <2>4. LRU!Get(k)
    BY <1>1, <2>1, <2>2, <2>3 DEF LRU!Get
  <2> QED
    BY <1>1, <2>1, <2>4 DEF LRUInv
<1> QED
  BY <1>2, <1>3, <1>4

LEMMA PutUses ==
    ASSUME LRUInv, NEW k \in Key, NEW v \in Val, Put(k, v)
    PROVE  LRU!Put(k, v) /\ Cardinality(keys') <= Limit'
<1>1. UNCHANGED <<maxSize, returned>> /\ Limit' = Limit
  BY DEF Put, Limit
<1>2. CASE IsCached(k)
  <2>1. Touch(k) /\ values' = [values EXCEPT ![k].value = v]
    BY <1>2 DEF Put
  <2>2. /\ ValuesTyped(values') /\ DOMAIN values' = DOMAIN values
        /\ \A x \in DOMAIN values' : values'[x].key = values[x].key
    BY <1>2, <2>1 DEF LRUInv, CacheInv, Sound, ValuesTyped, IsCached
  <2>3. Sound(values', keys', accessCounter')
    BY <1>2, <2>1, <2>2, TouchSound DEF LRUInv
  <2>4. \A x \in DOMAIN values : values'[x].value = IF x = k THEN v ELSE values[x].value
    BY <1>2, <2>1 DEF LRUInv, CacheInv, Sound, ValuesTyped, IsCached
  <2>5. LRU!Use(k, v) /\ Cardinality(keys') <= Limit
    BY <1>1, <1>2, <2>1, <2>2, <2>3, <2>4, TouchUses DEF LRUInv
  <2> QED
    BY <1>1, <2>5 DEF LRU!Put
<1>3. CASE ~ IsCached(k)
  <2>1. AddNewValue(k, v)
    BY <1>3 DEF Put
  <2>2. LRU!Use(k, v) /\ Cardinality(keys') <= Limit
    BY <1>3, <2>1, AddUses DEF LRUInv
  <2> QED
    BY <1>1, <2>2 DEF LRU!Put
<1> QED
  BY <1>2, <1>3

\* Every step keeps to the promise, and what is kept within the limit.
LEMMA LRUStep == LRUInv /\ [Next]_vars => [LRU!LRUNext]_(LRU!lruVars) /\ LRUInv'
<1> SUFFICES ASSUME LRUInv, [Next]_vars
             PROVE  [LRU!LRUNext]_(LRU!lruVars) /\ LRUInv'
  OBVIOUS
<1>1. CacheInv /\ CacheInv' /\ SIZE_MAX \in Nat
  BY CacheStep, CacheAssumption DEF LRUInv
<1>2. ASSUME NEW k \in Key, Get(k) PROVE LRU!Get(k) /\ LRUInv'
  BY <1>1, <1>2, GetUses DEF LRUInv
<1>3. ASSUME NEW k \in Key, NEW v \in Val, Put(k, v) PROVE LRU!Put(k, v) /\ LRUInv'
  BY <1>1, <1>3, PutUses DEF LRUInv
<1>4. ASSUME NEW n \in 0..SIZE_MAX, Trim(n) PROVE LRU!Trim(n) /\ LRUInv'
  <2>1. n \in Nat /\ TrimTo(n) /\ UNCHANGED <<maxSize, accessCounter, returned>> /\ Limit' = Limit
    BY <1>1, <1>4 DEF Trim, Limit
  <2>2. /\ LRU!Hold(LRU!FirstOf(MostRecentFirst(keys), n), ValuesOf(values))
        /\ Cardinality(keys') <= Cardinality(keys)
    BY <1>1, <2>1, TrimToHolds
  <2>3. Cardinality(keys) \in Nat /\ Cardinality(keys') \in Nat /\ Limit \in Nat
    BY <1>1, FS_CardinalityType DEF CacheInv, Sound, KeysTyped, Limit
  <2>4. Cardinality(keys') <= Limit'
    BY <2>1, <2>2, <2>3 DEF LRUInv
  <2> QED
    BY <1>1, <2>1, <2>2, <2>4 DEF LRUInv, LRU!Trim
<1>5. ASSUME NEW n \in 0..SIZE_MAX, SetMaxSize(n) PROVE LRU!SetMaxSize(n) /\ LRUInv'
  <2>1. n \in Nat /\ TrimTo(n) /\ maxSize' = n /\ UNCHANGED <<accessCounter, returned>>
    BY <1>1, <1>5 DEF SetMaxSize
  <2>2. Limit' = IF n = 0 THEN SIZE_MAX ELSE n
    BY <2>1 DEF Limit
  <2>3. /\ LRU!Hold(LRU!FirstOf(MostRecentFirst(keys), n), ValuesOf(values))
        /\ Cardinality(keys') <= n
    BY <1>1, <2>1, TrimToHolds
  <2>4. Cardinality(keys') <= SIZE_MAX
    BY <1>1, KeysFit DEF CacheInv
  <2>5. Cardinality(keys') <= Limit'
    BY <2>2, <2>3, <2>4
  <2> QED
    BY <1>1, <2>1, <2>2, <2>3, <2>5 DEF LRUInv, LRU!SetMaxSize
<1>6. ASSUME Invalidate PROVE LRU!Invalidate /\ LRUInv'
  <2>1. /\ values' = << >> /\ keys' = {} /\ UNCHANGED <<maxSize, accessCounter, returned>>
        /\ Limit' = Limit
    BY <1>6 DEF Invalidate, Limit
  <2>2. Cardinality(keys') = 0 /\ Limit \in Nat
    BY <1>1, <2>1, FS_EmptySet DEF Limit, CacheInv
  <2>3. MostRecentFirst(keys') = << >> /\ ValuesOf(values') = << >>
    BY <2>1, <2>2 DEF MostRecentFirst, ValuesOf
  <2>4. LRU!FirstOf(MostRecentFirst(keys), 0) = << >>
    <3>1. PICK o : Orders(o, keys)
      BY <1>1, SoundStamped, OrderExists DEF CacheInv
    <3>2. MostRecentFirst(keys) \in Seq(Key)
      BY <1>1, <3>1, SoundStamped, OrderFacts DEF CacheInv
    <3> QED
      BY <3>2 DEF LRU!FirstOf
  <2>5. LRU!Hold(<< >>, ValuesOf(values))
    <3>1. LRU!Range(<< >>) = {}
      BY DEF LRU!Range
    <3>2. [k \in LRU!Range(<< >>) |-> ValuesOf(values)[k]] = << >>
      BY <3>1
    <3> QED
      BY <2>3, <3>2 DEF LRU!Hold
  <2>6. Cardinality(keys') <= Limit'
    BY <2>1, <2>2
  <2> QED
    BY <1>1, <2>1, <2>4, <2>5, <2>6 DEF LRUInv, LRU!Invalidate, LRU!Trim
<1>7. ASSUME UNCHANGED vars PROVE UNCHANGED LRU!lruVars /\ LRUInv'
  BY <1>1, <1>7 DEF vars, LRU!lruVars, LRUInv, Limit
<1> QED
  BY <1>2, <1>3, <1>4, <1>5, <1>6, <1>7 DEF Next, LRU!LRUNext

\* The cache is the one that keeps the keys used last, for every number of keys and
\* every limit: what is dropped by put, get, trim or setMaxSize is what was used
\* longest ago, in the order of use, and get returns what was put or supplied last.
THEOREM CacheImplementsLRU == Spec => ImplementsLRU
<1> QED
  BY LRUInitial, LRUStep, PTL DEF Spec, ImplementsLRU, LRU!LRUSpec
=============================================================================
