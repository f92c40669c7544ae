------------------------------ MODULE LRUCache ------------------------------
(* What PriorityCache promises (lib/include/PriorityCache.h, its comments and *)
(* tests): of the values put into it or asked for, those used last are kept,  *)
(* as many as the limit allows.                                               *)
EXTENDS Integers, SequencesExt

CONSTANTS Key, Val, NoValue,
          Supply,       \* what the supplier gives for each key, NoValue if it throws
          SIZE_MAX

VARIABLES recent,       \* the keys, the one used last in front
          cached,       \* their values
          limit,        \* how many there may be
          returned      \* by the last get

lruVars == <<recent, cached, limit, returned>>

LRUInit == recent = << >> /\ cached = << >> /\ limit = SIZE_MAX /\ returned = NoValue

Hold(keys, value) ==
    /\ recent' = keys
    /\ cached' = [k \in Range(keys) |-> value[k]]

FirstOf(keys, n) == IF Len(keys) <= n THEN keys ELSE SubSeq(keys, 1, n)

Others(k) ==
    IF k \in Range(recent)
    THEN RemoveAt(recent, CHOOSE i \in DOMAIN recent : recent[i] = k) ELSE recent

\* k is used, and has the value v; the one used longest ago may have to go
Use(k, v) == Hold(FirstOf(<<k>> \o Others(k), limit),
                  [x \in {k} \union Range(recent) |-> IF x = k THEN v ELSE cached[x]])

Get(k) ==
    LET v == IF k \in DOMAIN cached THEN cached[k] ELSE Supply[k]
    IN  /\ returned' = v
        /\ IF v = NoValue THEN UNCHANGED <<recent, cached>> ELSE Use(k, v)
        /\ UNCHANGED limit

Put(k, v) == Use(k, v) /\ UNCHANGED <<limit, returned>>

Trim(n) == Hold(FirstOf(recent, n), cached) /\ UNCHANGED <<limit, returned>>

\* no limit if it is 0; all values go also then
SetMaxSize(n) ==
    /\ Hold(FirstOf(recent, n), cached)
    /\ limit' = IF n = 0 THEN SIZE_MAX ELSE n
    /\ UNCHANGED returned

Invalidate == Trim(0)

LRUNext ==
    \/ \E k \in Key : Get(k) \/ \E v \in Val : Put(k, v)
    \/ \E n \in 0..SIZE_MAX : Trim(n) \/ SetMaxSize(n)
    \/ Invalidate

LRUSpec == LRUInit /\ [][LRUNext]_lruVars
=============================================================================
