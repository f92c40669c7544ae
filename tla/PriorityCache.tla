---------------------------- MODULE PriorityCache ----------------------------
(* PriorityCache (lib/include/PriorityCache.h), in which SpaceView keeps the  *)
(* texts it has drawn: a map from keys to values, each with a pointer to the  *)
(* KeyAccess of its key, and the vector that owns those, sorted by the time   *)
(* of their last use when it is cut. The order of the vector means nothing    *)
(* otherwise, so keys is a set here.                                          *)
(* Definitions marked "Fault:" are variants of the one below them.            *)
EXTENDS Integers, FiniteSets, FiniteSetsExt, Functions

CONSTANTS Key, Val, NoValue,
          Supply,       \* what the supplier gives for each key, NoValue if it throws
          SIZE_MAX,
          MaxAccess     \* bound: uses of keys

ASSUME CacheAssumption ==
    /\ NoValue \notin Val
    /\ Supply \in [Key -> Val \union {NoValue}]
    /\ IsFiniteSet(Key)
    /\ SIZE_MAX \in Nat \ {0} /\ Cardinality(Key) <= SIZE_MAX
    /\ MaxAccess \in Nat

VARIABLES values,       \* Key -> [value, key: a pointer to an element of keys]
          keys,         \* the KeyAccess objects
          maxSize, accessCounter,
          returned      \* by the last get, NoValue if it threw

vars == <<values, keys, maxSize, accessCounter, returned>>

Init ==
    /\ values = << >> /\ keys = {}
    /\ maxSize = SIZE_MAX
    /\ accessCounter = 0
    /\ returned = NoValue

\* An object is known by the counter when it was made, which no two share.
KeyAccess(k) == [id |-> accessCounter, key |-> k, lastAccess |-> accessCounter]

Count == accessCounter < MaxAccess /\ accessCounter' = accessCounter + 1

\* Fault: sorted with the oldest in front
Oldest(ks, n) ==
    {x \in ks : Cardinality({y \in ks : y.lastAccess < x.lastAccess}) < n}

\* the first n of the sorted vector
Newest(ks, n) ==
    {x \in ks : Cardinality({y \in ks : y.lastAccess > x.lastAccess}) < n}

\* Fault: the values stay
CutKeys(vs, ks, n) == values' = vs /\ keys' = Newest(ks, n)

\* trim: the values of the keys beyond the first n are erased, and those keys
Cut(vs, ks, n) ==
    LET kept == Newest(ks, n)
    IN  /\ keys' = kept
        /\ values' = Restrict(vs, DOMAIN vs \ {x.key : x \in ks \ kept})

AddNewValue(k, v) ==
    LET vs == [x \in {k} \union DOMAIN values |->
                  IF x = k THEN [value |-> v, key |-> accessCounter] ELSE values[x]]
        ks == keys \union {KeyAccess(k)}
    IN  /\ IF maxSize > 0 /\ Cardinality(ks) > maxSize
             THEN Cut(vs, ks, maxSize) ELSE values' = vs /\ keys' = ks
        /\ Count

\* Fault: the counter stays
TouchOnly(k) ==
    /\ keys' = {IF x.id = values[k].key THEN [x EXCEPT !.lastAccess = accessCounter] ELSE x
                  : x \in keys}
    /\ UNCHANGED accessCounter

\* the object the value points to is used
Touch(k) ==
    /\ keys' = {IF x.id = values[k].key THEN [x EXCEPT !.lastAccess = accessCounter] ELSE x
                  : x \in keys}
    /\ Count

IsCached(k) == k \in DOMAIN values

Get(k) ==
    /\ \/ IsCached(k) /\ Touch(k) /\ returned' = values[k].value /\ UNCHANGED values
       \/ /\ ~ IsCached(k) /\ Supply[k] # NoValue
          /\ AddNewValue(k, Supply[k])
          /\ returned' = Supply[k]
       \/ /\ ~ IsCached(k) /\ Supply[k] = NoValue
          /\ returned' = NoValue
          /\ UNCHANGED <<values, keys, accessCounter>>
    /\ UNCHANGED maxSize

Put(k, v) ==
    /\ \/ ~ IsCached(k) /\ AddNewValue(k, v)
       \/ IsCached(k) /\ Touch(k) /\ values' = [values EXCEPT ![k].value = v]
    /\ UNCHANGED <<maxSize, returned>>

TrimTo(n) ==
    IF Cardinality(keys) <= n THEN UNCHANGED <<values, keys>> ELSE Cut(values, keys, n)

Trim(n) == TrimTo(n) /\ UNCHANGED <<maxSize, accessCounter, returned>>

SetMaxSize(n) ==
    /\ TrimTo(n)
    /\ maxSize' = n
    /\ UNCHANGED <<accessCounter, returned>>

Invalidate ==
    /\ values' = << >> /\ keys' = {}
    /\ UNCHANGED <<maxSize, accessCounter, returned>>

Next ==
    \/ \E k \in Key : Get(k) \/ \E v \in Val : Put(k, v)
    \/ \E n \in 0..SIZE_MAX : Trim(n) \/ SetMaxSize(n)
    \/ Invalidate

Spec == Init /\ [][Next]_vars

-----------------------------------------------------------------------------
(* Properties.                                                                *)

\* Types, where no two objects were used at the same time, which the sort relies on.
TypeOK ==
    /\ IsFiniteSet(keys)
    /\ keys \subseteq [id : Nat, key : Key, lastAccess : Nat]
    /\ DOMAIN values \subseteq Key
    /\ values \in [DOMAIN values -> [value : Val, key : Nat]]
    /\ maxSize \in 0..SIZE_MAX /\ accessCounter \in 0..MaxAccess
    /\ returned \in Val \union {NoValue}
    /\ \A x \in keys : x.id <= x.lastAccess /\ x.lastAccess < accessCounter
    /\ \A x, y \in keys : x.lastAccess = y.lastAccess => x = y

\* Each value points to an object that is owned by the vector, that of its own key,
\* and each object belongs to a value: nothing dangles when the vector is cut, and
\* nothing is counted that the map has not.
PointersLive ==
    /\ \A k \in DOMAIN values : \E x \in keys : x.id = values[k].key /\ x.key = k
    /\ \A x \in keys : x.key \in DOMAIN values /\ values[x.key].key = x.id

\* the object that n of those in ks are newer than
WithNewer(ks, n) ==
    CHOOSE x \in ks : Cardinality({y \in ks : y.lastAccess > x.lastAccess}) = n

\* What the cache is of the one it promises to be: the keys with the one used last in
\* front, which is the vector's order when it is sorted, and the limit, which 0 lifts.
MostRecentFirst(ks) == [i \in 1..Cardinality(ks) |-> WithNewer(ks, i - 1).key]
ValuesOf(vs) == [k \in DOMAIN vs |-> vs[k].value]
Limit == IF maxSize = 0 THEN SIZE_MAX ELSE maxSize

\* The cache is one that keeps the keys used last: what is dropped, by a new value,
\* by trim or by a lower limit, is what was used longest ago, and get returns what
\* was put or supplied last.
LRU == INSTANCE LRUCache WITH
    recent <- MostRecentFirst(keys), cached <- ValuesOf(values), limit <- Limit

ImplementsLRU == LRU!LRUSpec
=============================================================================
