------------------------- MODULE SpaceScannerProofs -------------------------
(* Lemmas about the operators of ScanQueue, its loops, and invariants of      *)
(* SpaceScanner, for every finite set of directories, every set of excluded   *)
(* ones, every watch limit and every bound.                                   *)
EXTENDS SpaceScanner, ScanQueueLoops, SublistProofs

-----------------------------------------------------------------------------
(* AddAll: what it leaves in the queue *)

ErasedByAll(q, ps) == UNION {Erased(q, ps[i]) : i \in DOMAIN ps}

Kept(q, ps) == Pick(q, DOMAIN q \ ErasedByAll(q, ps))

New(ps, recursive) ==
    [i \in DOMAIN ps |-> [path |-> ps[i], recursive |-> recursive]]

\* The queue is the items kept and the new ones, or the other way round.
LEMMA AddAllShape ==
    ASSUME NEW q \in Seq(Request), NEW ps \in Seq(Dirs),
           NEW recursive \in BOOLEAN, NEW toBack \in BOOLEAN
    PROVE  /\ Kept(q, ps) \in Seq(Request)
           /\ New(ps, recursive) \in Seq(Request)
           /\ Reverse(New(ps, recursive)) \in Seq(Request)
           /\ AddAll(q, ps, recursive, toBack) =
                IF toBack THEN Kept(q, ps) \o New(ps, recursive)
                ELSE Reverse(New(ps, recursive)) \o Kept(q, ps)
<1>1. Kept(q, ps) \in Seq(Request)
  BY PickProperties DEF Kept
<1>2. Len(ps) \in Nat /\ DOMAIN ps = 1 .. Len(ps) /\ \A i \in DOMAIN ps : ps[i] \in Dirs
  OBVIOUS
<1>3. New(ps, recursive) \in [1 .. Len(ps) -> Request]
  BY <1>2 DEF New, Request
<1>4. New(ps, recursive) \in Seq(Request)
  BY <1>2, <1>3
<1>5. Reverse(New(ps, recursive)) \in Seq(Request)
  BY <1>4, ReversedSeq
<1> QED
  BY <1>1, <1>4, <1>5 DEF AddAll, Kept, ErasedByAll, New

\* The items of the new queue are those kept and the new ones.
LEMMA AddAllItems ==
    ASSUME NEW q \in Seq(Request), NEW ps \in Seq(Dirs),
           NEW recursive \in BOOLEAN, NEW toBack \in BOOLEAN
    PROVE  /\ AddAll(q, ps, recursive, toBack) \in Seq(Request)
           /\ ToSet(AddAll(q, ps, recursive, toBack)) =
                {q[i] : i \in DOMAIN q \ ErasedByAll(q, ps)} \union ToSet(New(ps, recursive))
<1> DEFINE r    == AddAll(q, ps, recursive, toBack)
           K    == DOMAIN q \ ErasedByAll(q, ps)
           kept == Kept(q, ps)
           new  == New(ps, recursive)
           rev  == Reverse(new)
<1>1. /\ kept \in Seq(Request) /\ new \in Seq(Request) /\ rev \in Seq(Request)
      /\ r = IF toBack THEN kept \o new ELSE rev \o kept
  BY AddAllShape
<1>2. ToSet(kept) = {q[i] : i \in K}
  <2>1. K \in SUBSET DOMAIN q /\ kept = Pick(q, K)
    BY DEF Kept
  <2> HIDE DEF K, kept
  <2> QED
    BY <2>1, PickItems
<1>3. ToSet(rev) = ToSet(new)
  BY <1>1, ReversedItems
<1> HIDE DEF r, K, kept, new, rev
<1>4. /\ kept \o new \in Seq(Request) /\ ToSet(kept \o new) = ToSet(kept) \union ToSet(new)
      /\ rev \o kept \in Seq(Request) /\ ToSet(rev \o kept) = ToSet(rev) \union ToSet(kept)
  BY <1>1, ConcatToSet
<1> QED
  BY <1>1, <1>2, <1>3, <1>4 DEF r, K, new

-----------------------------------------------------------------------------
(* No path is queued twice *)

LEMMA UniqueConcat ==
    ASSUME NEW s \in Seq(Request), NEW t \in Seq(Request),
           UniquePaths(s), UniquePaths(t),
           \A i \in DOMAIN s, j \in DOMAIN t : s[i].path # t[j].path
    PROVE  UniquePaths(s \o t)
<1>1. /\ Len(s) \in Nat /\ DOMAIN s = 1 .. Len(s)
      /\ Len(t) \in Nat /\ DOMAIN t = 1 .. Len(t)
      /\ DOMAIN (s \o t) \subseteq Int
  <2>1. s \o t \in Seq(Request)
    BY ConcatItems
  <2> QED
    BY <2>1
<1>2. \A i \in DOMAIN (s \o t) :
         \/ i \in DOMAIN s /\ (s \o t)[i] = s[i]
         \/ i - Len(s) \in DOMAIN t /\ (s \o t)[i] = t[i - Len(s)]
  BY ConcatItems
<1> SUFFICES ASSUME NEW i \in DOMAIN (s \o t), NEW j \in DOMAIN (s \o t),
                    (s \o t)[i].path = (s \o t)[j].path
             PROVE  i = j
  BY DEF UniquePaths
<1>3. i - Len(s) = j - Len(s) => i = j
  BY <1>1
<1> QED
  BY <1>2, <1>3 DEF UniquePaths

LEMMA UniqueReverse ==
    ASSUME NEW s \in Seq(Request), UniquePaths(s)
    PROVE  UniquePaths(Reverse(s))
<1>1. /\ Len(s) \in Nat /\ DOMAIN s = 1 .. Len(s)
      /\ DOMAIN Reverse(s) = 1 .. Len(s)
      /\ \A i \in 1 .. Len(s) :
           Len(s) - i + 1 \in 1 .. Len(s) /\ Reverse(s)[i] = s[Len(s) - i + 1]
  <2>1. Reverse(s) \in Seq(Request) /\ Len(Reverse(s)) = Len(s)
    BY ReversedSeq
  <2> QED
    BY <2>1, ReversedSeq
<1>2. \A i, j \in 1 .. Len(s) : Len(s) - i + 1 = Len(s) - j + 1 => i = j
  BY <1>1
<1> QED
  BY <1>1, <1>2 DEF UniquePaths

\* Adding paths that differ from each other to a queue with no path twice
\* leaves no path in it twice.
LEMMA AddAllUnique ==
    ASSUME NEW q \in Seq(Request), NEW ps \in Seq(Dirs),
           NEW recursive \in BOOLEAN, NEW toBack \in BOOLEAN,
           UniquePaths(q), IsInjective(ps)
    PROVE  UniquePaths(AddAll(q, ps, recursive, toBack))
<1> DEFINE K    == DOMAIN q \ ErasedByAll(q, ps)
           kept == Kept(q, ps)
           new  == New(ps, recursive)
           rev  == Reverse(new)
<1>1. /\ kept \in Seq(Request) /\ new \in Seq(Request) /\ rev \in Seq(Request)
      /\ AddAll(q, ps, recursive, toBack) = IF toBack THEN kept \o new ELSE rev \o kept
  BY AddAllShape
<1>2. /\ DOMAIN kept = 1 .. Cardinality(K)
      /\ \A n \in 1 .. Cardinality(K) : Nth(K, n) \in K /\ kept[n] = q[Nth(K, n)]
      /\ \A n, k \in 1 .. Cardinality(K) : Nth(K, n) = Nth(K, k) => n = k
  <2>1. K \in SUBSET DOMAIN q /\ kept = Pick(q, K)
    BY DEF Kept
  <2> HIDE DEF K, kept
  <2>2. Len(kept) = Cardinality(K) /\ Cardinality(K) \in Nat
    BY <2>1, PickProperties
  <2> QED
    BY <1>1, <2>1, <2>2, PickProperties
<1>3. UniquePaths(kept)
  <2>1. \A n, k \in 1 .. Cardinality(K) : kept[n].path = kept[k].path => n = k
    <3>1. K \subseteq DOMAIN q
      OBVIOUS
    <3> HIDE DEF K, kept
    <3> QED
      BY <1>2, <3>1 DEF UniquePaths
  <2> QED
    BY <1>2, <2>1 DEF UniquePaths
<1>4. DOMAIN new = DOMAIN ps /\ \A i \in DOMAIN ps : new[i].path = ps[i]
  BY DEF New
<1>5. UniquePaths(new)
  BY <1>4 DEF UniquePaths, IsInjective
<1>6. \A k \in K, i \in DOMAIN ps : q[k].path # ps[i]
  <2> SUFFICES ASSUME NEW k \in DOMAIN q, NEW i \in DOMAIN ps, q[k].path = ps[i]
               PROVE  k \in Erased(q, ps[i])
    BY DEF ErasedByAll
  <2>1. CompareTo(ps[i], q[k].path) = "EQUAL"
    BY DEF CompareTo, IsStrictPrefix
  <2>2. \A j \in 1 .. k - 1 : q[j].path # ps[i]
    <3>1. k \in 1 .. Len(q) /\ Len(q) \in Nat /\ DOMAIN q = 1 .. Len(q)
      OBVIOUS
    <3>2. \A j \in 1 .. k - 1 : j \in DOMAIN q /\ j # k
      BY <3>1
    <3> QED
      BY <3>2 DEF UniquePaths
  <2> QED
    BY <2>1, <2>2 DEF Erased
<1>7. \A n \in DOMAIN kept, i \in DOMAIN new : kept[n].path # new[i].path
  BY <1>2, <1>4, <1>6
<1>8. \A i \in DOMAIN rev : \E j \in DOMAIN new : rev[i] = new[j]
  <2>1. /\ Len(rev) = Len(new)
        /\ \A i \in 1 .. Len(new) :
             Len(new) - i + 1 \in 1 .. Len(new) /\ rev[i] = new[Len(new) - i + 1]
    BY <1>1, ReversedSeq
  <2>2. DOMAIN rev = 1 .. Len(new) /\ DOMAIN new = 1 .. Len(new)
    BY <1>1, <2>1
  <2> QED
    BY <2>1, <2>2
<1>9. UniquePaths(rev)
  BY <1>1, <1>5, UniqueReverse
<1> HIDE DEF K, kept, new, rev
<1>10. toBack => UniquePaths(kept \o new)
  BY <1>1, <1>3, <1>5, <1>7, UniqueConcat
<1>11. UniquePaths(rev \o kept)
  <2>1. \A i \in DOMAIN rev, n \in DOMAIN kept : rev[i].path # kept[n].path
    BY <1>7, <1>8
  <2> QED
    BY <1>1, <1>3, <1>9, <2>1, UniqueConcat
<1> QED
  BY <1>1, <1>10, <1>11

-----------------------------------------------------------------------------
(* Paths *)

LEMMA PrefixOrder ==
    ASSUME NEW S, NEW s \in Seq(S), NEW t \in Seq(S), NEW u \in Seq(S)
    PROVE  /\ IsPrefix(s, s)
           /\ IsPrefix(s, t) /\ IsPrefix(t, u) => IsPrefix(s, u)
<1>1. Len(s) \in Nat /\ Len(t) \in Nat /\ Len(u) \in Nat
  OBVIOUS
<1>2. IsPrefix(s, s)
  BY <1>1, PrefixPointwise
<1>3. ASSUME IsPrefix(s, t), IsPrefix(t, u)
      PROVE  IsPrefix(s, u)
  <2>1. /\ Len(s) <= Len(t) /\ \A i \in 1 .. Len(s) : s[i] = t[i]
        /\ Len(t) <= Len(u) /\ \A i \in 1 .. Len(t) : t[i] = u[i]
    BY <1>3, PrefixPointwise
  <2>2. Len(s) <= Len(u) /\ \A i \in 1 .. Len(s) : s[i] = u[i]
    BY <1>1, <2>1
  <2> QED
    BY <2>2, PrefixPointwise
<1> QED
  BY <1>2, <1>3

-----------------------------------------------------------------------------
(* Directories in directories *)

LEMMA PrefixAntisymmetric ==
    ASSUME NEW S, NEW s \in Seq(S), NEW t \in Seq(S), IsPrefix(s, t), IsPrefix(t, s)
    PROVE  s = t
<1>1. /\ Len(s) <= Len(t) /\ \A i \in 1 .. Len(s) : s[i] = t[i]
      /\ Len(t) <= Len(s) /\ Len(s) \in Nat /\ Len(t) \in Nat
  BY PrefixPointwise
<1> QED
  BY <1>1, SeqEqual

\* A child c of p is p with one name appended.
LEMMA ChildShape ==
    ASSUME NEW p \in Dirs, NEW c \in ChildrenOf(p)
    PROVE  /\ c \in Seq(Name) /\ p \in Seq(Name)
           /\ Len(p) \in Nat /\ Len(c) = Len(p) + 1
           /\ \A i \in 1 .. Len(p) : p[i] = c[i]
<1>1. c \in Dirs /\ c # << >> /\ p = SubSeq(c, 1, Len(c) - 1)
  BY DEF ChildrenOf, Front, Root
<1>2. c \in Seq(Name) /\ p \in Seq(Name)
  BY <1>1, DirsAssumption
<1>3. Len(c) \in Nat /\ Len(c) # 0
  BY <1>1, <1>2
<1>4. /\ Len(p) = Len(c) - 1
      /\ \A i \in 1 .. Len(c) - 1 : p[i] = c[i]
  <2> DEFINE n == Len(c) - 1
  <2>1. n \in 0 .. Len(c) /\ p = SubSeq(c, 1, n)
    BY <1>1, <1>3
  <2> HIDE DEF n
  <2>2. Len(p) = n /\ \A i \in 1 .. n : p[i] = c[i]
    BY <1>2, <1>3, <2>1
  <2> QED
    BY <2>2 DEF n
<1> QED
  BY <1>2, <1>3, <1>4

LEMMA ChildIsBelow ==
    ASSUME NEW p \in Dirs, NEW c \in ChildrenOf(p)
    PROVE  IsStrictPrefix(p, c) /\ ~ IsPrefix(c, p)
<1>1. /\ c \in Seq(Name) /\ p \in Seq(Name)
      /\ Len(p) \in Nat /\ Len(c) = Len(p) + 1
      /\ \A i \in 1 .. Len(p) : p[i] = c[i]
  BY ChildShape
<1>2. IsPrefix(p, c) /\ ~ IsPrefix(c, p)
  BY <1>1, PrefixPointwise
<1> QED
  BY <1>1, <1>2, PrefixOrder DEF IsStrictPrefix

\* What is above a child of p is the child or above p.
LEMMA AboveChild ==
    ASSUME NEW p \in Dirs, NEW c \in ChildrenOf(p), NEW g \in Dirs, IsPrefix(g, c)
    PROVE  g = c \/ IsPrefix(g, p)
<1>1. /\ c \in Seq(Name) /\ p \in Seq(Name)
      /\ Len(p) \in Nat /\ Len(c) = Len(p) + 1
      /\ \A i \in 1 .. Len(p) : p[i] = c[i]
  BY ChildShape
<1>2. g \in Seq(Name) /\ Len(g) \in Nat
  BY DirsAssumption
<1>3. Len(g) <= Len(c) /\ \A i \in 1 .. Len(g) : g[i] = c[i]
  BY <1>1, <1>2, PrefixPointwise
<1>4. CASE Len(g) = Len(c)
  BY <1>1, <1>2, <1>3, <1>4, SeqEqual
<1>5. CASE Len(g) # Len(c)
  <2>1. Len(g) <= Len(p)
    BY <1>1, <1>2, <1>3, <1>5
  <2>2. \A i \in 1 .. Len(g) : g[i] = p[i]
    BY <1>1, <1>2, <1>3, <2>1
  <2> QED
    BY <1>1, <1>2, <2>1, <2>2, PrefixPointwise
<1> QED
  BY <1>4, <1>5

\* The way from p down to a directory below it leads through a child of p.
LEMMA ChildOnTheWay ==
    ASSUME NEW p \in Dirs, NEW d \in Dirs, IsStrictPrefix(p, d)
    PROVE  \E c \in ChildrenOf(p) : IsPrefix(c, d)
<1> DEFINE n == Len(p) + 1
           c == SubSeq(d, 1, n)
<1>1. p \in Seq(Name) /\ d \in Seq(Name) /\ Len(p) \in Nat /\ Len(d) \in Nat
  BY DirsAssumption
<1>2. Len(p) <= Len(d) /\ \A i \in 1 .. Len(p) : p[i] = d[i]
  BY <1>1, PrefixPointwise DEF IsStrictPrefix
<1>3. Len(p) # Len(d)
  BY <1>1, <1>2, SeqEqual DEF IsStrictPrefix
<1>4. n \in 0 .. Len(d)
  BY <1>1, <1>2, <1>3
<1>5. c \in Dirs
  BY <1>4, DirsAssumption
<1>6. c \in Seq(Name) /\ Len(c) = n /\ \A i \in 1 .. n : c[i] = d[i]
  BY <1>1, <1>4, SubSeqProperties
<1> HIDE DEF c
<1>7. IsPrefix(c, d)
  BY <1>1, <1>4, <1>6, PrefixPointwise
<1>8. Front(c) = p
  <2>1. Front(c) = SubSeq(c, 1, Len(p))
    BY <1>1, <1>6 DEF Front
  <2>2. /\ SubSeq(c, 1, Len(p)) \in Seq(Name)
        /\ Len(SubSeq(c, 1, Len(p))) = Len(p)
        /\ \A i \in 1 .. Len(p) : SubSeq(c, 1, Len(p))[i] = c[i]
    BY <1>1, <1>6, SubSeqProperties
  <2>3. \A i \in 1 .. Len(p) : SubSeq(c, 1, Len(p))[i] = p[i]
    BY <1>1, <1>2, <1>6, <2>2
  <2> QED
    BY <1>1, <2>1, <2>2, <2>3, SeqEqual
<1>9. c # << >>
  BY <1>1, <1>6
<1> QED
  BY <1>5, <1>7, <1>8, <1>9 DEF ChildrenOf, Root

-----------------------------------------------------------------------------
(* Owed *)

\* What one request will have listed
Lists(r, d) == d = r.path \/ (r.recursive /\ IsPrefix(r.path, d))

LEMMA OwedItems ==
    ASSUME NEW q \in Seq(Request)
    PROVE  Owed(q) = {d \in Dirs : \E r \in ToSet(q) : Lists(r, d)}
BY DEF Owed, ToSet, Lists

\* What a request lists is in the directory it is for.
LEMMA ListsBelow ==
    ASSUME NEW r \in Request, NEW d \in Dirs, Lists(r, d)
    PROVE  IsPrefix(r.path, d)
<1>1. r.path \in Seq(Name) /\ d \in Seq(Name)
  BY DirsAssumption DEF Request
<1> QED
  BY <1>1, PrefixOrder DEF Lists

\* Recursive requests that are added make up for all they replace.
LEMMA AddAllOwed ==
    ASSUME NEW q \in Seq(Request), NEW ps \in Seq(Dirs), NEW toBack \in BOOLEAN
    PROVE  /\ Owed(q) \subseteq Owed(AddAll(q, ps, TRUE, toBack))
           /\ \A k \in DOMAIN ps : \A d \in Dirs :
                IsPrefix(ps[k], d) => d \in Owed(AddAll(q, ps, TRUE, toBack))
<1> DEFINE r == AddAll(q, ps, TRUE, toBack)
           K == DOMAIN q \ ErasedByAll(q, ps)
<1>1. /\ r \in Seq(Request)
      /\ ToSet(r) = {q[i] : i \in K} \union ToSet(New(ps, TRUE))
  BY AddAllItems
<1>2. \A i \in DOMAIN q : q[i] \in Request /\ q[i].path \in Dirs
  <2>1. \A i \in DOMAIN q : q[i] \in Request
    OBVIOUS
  <2> QED
    BY <2>1 DEF Request
<1>3. \A k \in DOMAIN ps : /\ ps[k] \in Dirs
                           /\ [path |-> ps[k], recursive |-> TRUE] \in ToSet(New(ps, TRUE))
  <2>1. \A k \in DOMAIN ps : ps[k] \in Dirs
    OBVIOUS
  <2>2. DOMAIN New(ps, TRUE) = DOMAIN ps
    BY DEF New
  <2>3. \A k \in DOMAIN ps : New(ps, TRUE)[k] = [path |-> ps[k], recursive |-> TRUE]
    BY DEF New
  <2> QED
    BY <2>1, <2>2, <2>3 DEF ToSet
<1>4. ASSUME NEW i \in DOMAIN q, NEW d \in Dirs, Lists(q[i], d)
      PROVE  \E x \in ToSet(r) : Lists(x, d)
  <2>1. CASE i \in K
    BY <1>1, <1>4, <2>1
  <2>2. CASE i \notin K
    <3>1. PICK k \in DOMAIN ps : i \in Erased(q, ps[k])
      BY <2>2 DEF ErasedByAll
    <3>2. CompareTo(ps[k], q[i].path) \in {"PARENT", "EQUAL"}
      BY <3>1 DEF Erased
    <3>3. /\ ps[k] \in Seq(Name) /\ q[i].path \in Seq(Name) /\ d \in Seq(Name)
      BY <1>2, <1>3, DirsAssumption
    <3>4. IsPrefix(ps[k], q[i].path)
      BY <3>2, <3>3, PrefixOrder DEF CompareTo, IsStrictPrefix
    <3>5. IsPrefix(q[i].path, d)
      BY <1>2, <1>4, ListsBelow
    <3>6. IsPrefix(ps[k], d)
      BY <3>3, <3>4, <3>5, PrefixOrder
    <3> DEFINE x == [path |-> ps[k], recursive |-> TRUE]
    <3>7. x \in ToSet(r)
      BY <1>1, <1>3
    <3>8. Lists(x, d)
      BY <3>6 DEF Lists
    <3> QED
      BY <3>7, <3>8
  <2> QED
    BY <2>1, <2>2
<1>5. Owed(q) \subseteq Owed(r)
  <2> HIDE DEF r
  <2>1. \A d \in Owed(q) : \E x \in ToSet(r) : Lists(x, d)
    BY <1>4 DEF Owed, Lists
  <2> QED
    BY <1>1, <2>1, OwedItems DEF Owed
<1>6. ASSUME NEW k \in DOMAIN ps, NEW d \in Dirs, IsPrefix(ps[k], d)
      PROVE  d \in Owed(r)
  <2> DEFINE x == [path |-> ps[k], recursive |-> TRUE]
  <2>1. x \in ToSet(r)
    BY <1>1, <1>3
  <2>2. Lists(x, d)
    BY <1>6 DEF Lists
  <2> HIDE DEF r, x
  <2> QED
    BY <1>1, <2>1, <2>2, OwedItems
<1> QED
  BY <1>5, <1>6

\* The children of one directory are owed afterwards with all below them: where
\* the code adds nothing, a request in the queue covers them already.
LEMMA AddChildrenOwed ==
    ASSUME NEW q \in Seq(Request), NEW p \in Dirs, NEW ps \in Seq(ChildrenOf(p)),
           ps # << >>, NEW toBack \in BOOLEAN
    PROVE  /\ Owed(q) \subseteq Owed(AddChildrenToQueue(q, ps, TRUE, toBack))
           /\ \A k \in DOMAIN ps : \A d \in Dirs :
                IsPrefix(ps[k], d) => d \in Owed(AddChildrenToQueue(q, ps, TRUE, toBack))
<1>1. ps \in Seq(Dirs)
  BY DEF ChildrenOf
<1>2. CASE ~ IsCovered(q, Front(ps[1]))
  BY <1>1, <1>2, AddAllOwed DEF AddChildrenToQueue
<1>3. CASE IsCovered(q, Front(ps[1]))
  <2>1. Front(ps[1]) = p
    BY DEF ChildrenOf
  <2>2. PICK i \in DOMAIN q : q[i].recursive /\ CompareTo(p, q[i].path) = "CHILD"
    BY <1>3, <2>1 DEF IsCovered
  <2>3. IsPrefix(q[i].path, p)
    BY <2>2 DEF CompareTo, IsStrictPrefix
  <2>4. q[i] \in Request /\ q[i].path \in Dirs
    <3>1. q[i] \in Request
      OBVIOUS
    <3> QED
      BY <3>1 DEF Request
  <2>5. ASSUME NEW k \in DOMAIN ps, NEW d \in Dirs, IsPrefix(ps[k], d)
        PROVE  d \in Owed(q)
    <3>1. ps[k] \in ChildrenOf(p) /\ ps[k] \in Dirs
      BY DEF ChildrenOf
    <3>2. IsPrefix(p, ps[k])
      BY <3>1, ChildIsBelow DEF IsStrictPrefix
    <3>3. q[i].path \in Seq(Name) /\ ps[k] \in Seq(Name) /\ d \in Seq(Name) /\ p \in Seq(Name)
      BY <2>4, <3>1, DirsAssumption
    <3>4. IsPrefix(p, d)
      BY <2>5, <3>2, <3>3, PrefixOrder
    <3>5. IsPrefix(q[i].path, d)
      BY <2>3, <3>3, <3>4, PrefixOrder
    <3> QED
      BY <2>2, <3>5 DEF Owed
  <2> QED
    BY <1>3, <2>5 DEF AddChildrenToQueue
<1> QED
  BY <1>2, <1>3

LEMMA AddChildrenShape ==
    ASSUME NEW q \in Seq(Request), NEW ps \in Seq(Dirs),
           NEW recursive \in BOOLEAN, NEW toBack \in BOOLEAN
    PROVE  /\ AddChildrenToQueue(q, ps, recursive, toBack) \in Seq(Request)
           /\ UniquePaths(q) /\ IsInjective(ps)
                => UniquePaths(AddChildrenToQueue(q, ps, recursive, toBack))
BY AddAllItems, AddAllUnique DEF AddChildrenToQueue

LEMMA AddOne ==
    ASSUME NEW q \in Seq(Request), NEW p \in Dirs,
           NEW recursive \in BOOLEAN, NEW toBack \in BOOLEAN
    PROVE  /\ AddToQueue(q, p, recursive, toBack) \in Seq(Request)
           /\ UniquePaths(q) => UniquePaths(AddToQueue(q, p, recursive, toBack))
           /\ Owed(q) \subseteq Owed(AddToQueue(q, p, TRUE, toBack))
           /\ p \in Owed(AddToQueue(q, p, recursive, toBack))
<1> DEFINE r == AddAll(q, <<p>>, recursive, toBack)
           x == [path |-> p, recursive |-> recursive]
<1>1. <<p>> \in Seq(Dirs) /\ IsInjective(<<p>>)
  BY DEF IsInjective
<1>2. /\ r \in Seq(Request)
      /\ ToSet(New(<<p>>, recursive)) \subseteq ToSet(r)
  <2> DEFINE ps == <<p>>
  <2>1. ps \in Seq(Dirs)
    BY <1>1
  <2> HIDE DEF ps
  <2>2. /\ AddAll(q, ps, recursive, toBack) \in Seq(Request)
        /\ ToSet(AddAll(q, ps, recursive, toBack)) =
             {q[i] : i \in DOMAIN q \ ErasedByAll(q, ps)} \union ToSet(New(ps, recursive))
    BY <2>1, AddAllItems
  <2>3. r = AddAll(q, ps, recursive, toBack)
    BY DEF ps
  <2> QED
    BY <2>2, <2>3 DEF ps
<1>3. x \in ToSet(r)
  <2>1. DOMAIN New(<<p>>, recursive) = {1} /\ New(<<p>>, recursive)[1] = x
    BY DEF New
  <2> QED
    BY <1>2, <2>1 DEF ToSet
<1>4. Lists(x, p)
  BY DEF Lists
<1>5. p \in Owed(r)
  <2> HIDE DEF r, x
  <2> QED
    BY <1>2, <1>3, <1>4, OwedItems
<1> QED
  BY <1>1, <1>5, AddAllItems, AddAllUnique, AddAllOwed DEF AddToQueue

\* Taking the first request from the queue leaves what the others owe.
LEMMA OwedHead ==
    ASSUME NEW q \in Seq(Request), q # << >>
    PROVE  Owed(q) = Owed(<<Head(q)>>) \union Owed(Tail(q))
<1>1. /\ Len(q) \in Nat /\ DOMAIN q = 1 .. Len(q) /\ Len(q) > 0
      /\ Head(q) = q[1] /\ Tail(q) \in Seq(Request)
      /\ DOMAIN Tail(q) = 1 .. Len(q) - 1
      /\ \A i \in DOMAIN Tail(q) : i + 1 \in DOMAIN q /\ Tail(q)[i] = q[i + 1]
  OBVIOUS
<1>2. \A i \in DOMAIN q : i = 1 \/ (i - 1 \in DOMAIN Tail(q) /\ Tail(q)[i - 1] = q[i])
  BY <1>1
<1>3. DOMAIN <<Head(q)>> = {1} /\ <<Head(q)>>[1] = Head(q)
  OBVIOUS
<1>4. Owed(q) \subseteq Owed(<<Head(q)>>) \union Owed(Tail(q))
  <2> SUFFICES ASSUME NEW d \in Dirs, NEW i \in DOMAIN q,
                      d = q[i].path \/ (q[i].recursive /\ IsPrefix(q[i].path, d))
               PROVE  d \in Owed(<<Head(q)>>) \union Owed(Tail(q))
    BY DEF Owed
  <2> QED
    BY <1>1, <1>2, <1>3 DEF Owed
<1>5. Owed(Tail(q)) \subseteq Owed(q)
  BY <1>1 DEF Owed
<1>6. Owed(<<Head(q)>>) \subseteq Owed(q)
  BY <1>1, <1>3 DEF Owed
<1> QED
  BY <1>4, <1>5, <1>6

LEMMA OwedOne ==
    ASSUME NEW r \in Request
    PROVE  Owed(<<r>>) = {d \in Dirs : Lists(r, d)}
<1>1. DOMAIN <<r>> = {1} /\ <<r>>[1] = r
  OBVIOUS
<1> QED
  BY <1>1 DEF Owed, Lists

-----------------------------------------------------------------------------
(* The loop of addToQueue *)

LEMMA CompareCases ==
    ASSUME NEW p \in Dirs, NEW d \in Dirs
    PROVE  /\ CompareTo(p, d) = "EQUAL" <=> p = d
           /\ CompareTo(p, d) = "PARENT" <=> p # d /\ IsPrefix(p, d)
           /\ CompareTo(p, d) = "CHILD" <=> p # d /\ IsPrefix(d, p)
           /\ CompareTo(p, d) = "DIFFERENT" <=> ~ IsPrefix(p, d) /\ ~ IsPrefix(d, p)
           /\ CompareTo(p, d) \in {"EQUAL", "PARENT", "CHILD", "DIFFERENT"}
<1>1. p \in Seq(Name) /\ d \in Seq(Name)
  BY DirsAssumption
<1>2. IsPrefix(p, p) /\ IsPrefix(d, d)
  BY <1>1, PrefixOrder
<1>3. IsPrefix(p, d) /\ IsPrefix(d, p) => p = d
  BY <1>1, PrefixAntisymmetric
<1> QED
  BY <1>2, <1>3 DEF CompareTo, IsStrictPrefix

LEMMA ErasedCases ==
    ASSUME NEW q \in Seq(Request), NEW p \in Dirs
    PROVE  \A i \in DOMAIN q :
              /\ q[i].path \in Dirs
              /\ i \in Erased(q, p) <=> /\ IsPrefix(p, q[i].path)
                                        /\ \A j \in 1 .. i - 1 : q[j].path # p
<1> SUFFICES ASSUME NEW i \in DOMAIN q
             PROVE  /\ q[i].path \in Dirs
                    /\ i \in Erased(q, p) <=> /\ IsPrefix(p, q[i].path)
                                              /\ \A j \in 1 .. i - 1 : q[j].path # p
  OBVIOUS
<1>1. q[i] \in Request
  OBVIOUS
<1>2. q[i].path \in Dirs
  BY <1>1 DEF Request
<1>3. p \in Seq(Name) /\ IsPrefix(p, p)
  BY DirsAssumption, PrefixOrder
<1> QED
  BY <1>2, <1>3, CompareCases DEF Erased

\* What the loop of addToQueue has done, as it is written and in closed form
IsLeft(q, p, g) ==
    g = [n \in 0 .. Len(q) |-> IF n = 0 THEN [kept |-> << >>, broken |-> FALSE]
                               ELSE EraseRound(g[n - 1], p, q[n])]

LEMMA LeftIs ==
    ASSUME NEW q, NEW p
    PROVE  Left(q, p) = CHOOSE g : IsLeft(q, p, g)
BY DEF Left, IsLeft

LeftAfter(q, p, n) ==
    [kept   |-> Pick(q, (1 .. n) \ Erased(q, p)),
     broken |-> \E i \in 1 .. n : q[i].path = p]

\* One round
LEMMA LeftStep ==
    ASSUME NEW q \in Seq(Request), NEW p \in Dirs, NEW n \in 1 .. Len(q)
    PROVE  LeftAfter(q, p, n) = EraseRound(LeftAfter(q, p, n - 1), p, q[n])
<1> DEFINE was  == LeftAfter(q, p, n - 1)
           res  == CompareTo(p, q[n].path)
           E    == Erased(q, p)
           K    == (1 .. n - 1) \ E
           b    == \E i \in 1 .. n - 1 : q[i].path = p
           c    == \E i \in 1 .. n : q[i].path = p
<1>1. /\ n \in Nat /\ Len(q) \in Nat /\ n \in DOMAIN q /\ DOMAIN q = 1 .. Len(q)
      /\ 1 .. n = (1 .. n - 1) \union {n} /\ n \notin 1 .. n - 1
  OBVIOUS
<1>2. q[n].path \in Dirs /\ (n \in E <=> IsPrefix(p, q[n].path) /\ ~ b)
  BY <1>1, ErasedCases
<1>3. /\ res = "EQUAL" <=> p = q[n].path
      /\ res = "PARENT" <=> p # q[n].path /\ IsPrefix(p, q[n].path)
      /\ res \in {"EQUAL", "PARENT", "CHILD", "DIFFERENT"}
      /\ res \in {"DIFFERENT", "CHILD"} => ~ IsPrefix(p, q[n].path)
      /\ p = q[n].path => IsPrefix(p, q[n].path)
  <2>1. p \in Seq(Name) /\ IsPrefix(p, p)
    BY DirsAssumption, PrefixOrder
  <2> QED
    BY <1>2, <2>1, CompareCases
<1>4. n \notin E => Pick(q, (1 .. n) \ E) = Append(Pick(q, K), q[n])
  <2> SUFFICES ASSUME n \notin E
               PROVE  Pick(q, (1 .. n) \ E) = Append(Pick(q, K), q[n])
    OBVIOUS
  <2>1. (1 .. n) \ E = K \union {n} /\ K \in SUBSET (1 .. n - 1)
    BY <1>1
  <2> HIDE DEF K, E
  <2> QED
    BY <1>1, <2>1, PickOneMore
<1>5. n \in E => (1 .. n) \ E = K
  BY <1>1
<1>6. c <=> b \/ q[n].path = p
  BY <1>1
<1>7. was = [kept |-> Pick(q, K), broken |-> b]
  BY DEF LeftAfter
<1>8. LeftAfter(q, p, n) = [kept |-> Pick(q, (1 .. n) \ E), broken |-> c]
  BY DEF LeftAfter
<1>9. b \in BOOLEAN /\ c \in BOOLEAN
  OBVIOUS
<1> HIDE DEF E, K, b, c, was, res
<1>10. CASE n \notin E
  <2>1. b \/ res \in {"DIFFERENT", "CHILD"}
    BY <1>2, <1>3, <1>10
  <2>2. c = b
    BY <1>2, <1>3, <1>6, <1>9, <1>10
  <2>3. EraseRound(was, p, q[n]) = [kept |-> Append(was.kept, q[n]), broken |-> was.broken]
    BY <1>7, <2>1 DEF EraseRound, res
  <2>4. was.kept = Pick(q, K) /\ was.broken = b
    BY <1>7
  <2> QED
    BY <1>4, <1>8, <1>10, <2>2, <2>3, <2>4 DEF was
<1>11. CASE n \in E /\ res = "PARENT"
  <2>1. ~ b /\ ~ c
    BY <1>2, <1>3, <1>6, <1>11
  <2>2. EraseRound(was, p, q[n]) = was
    BY <1>7, <1>11, <2>1 DEF EraseRound, res
  <2>3. c = b
    BY <1>9, <2>1
  <2> QED
    BY <1>5, <1>7, <1>8, <1>11, <2>2, <2>3 DEF was
<1>12. CASE n \in E /\ res = "EQUAL"
  <2>1. ~ b /\ c
    BY <1>2, <1>3, <1>6, <1>12
  <2>2. EraseRound(was, p, q[n]) = [kept |-> was.kept, broken |-> TRUE]
    BY <1>7, <1>12, <2>1 DEF EraseRound, res
  <2>3. was.kept = Pick(q, K)
    BY <1>7
  <2>4. c = TRUE
    BY <1>9, <2>1
  <2> QED
    BY <1>5, <1>8, <1>12, <2>2, <2>3, <2>4 DEF was
<1> QED
  BY <1>2, <1>3, <1>10, <1>11, <1>12

LEMMA LeftClosed ==
    ASSUME NEW q \in Seq(Request), NEW p \in Dirs
    PROVE  Left(q, p)[Len(q)].kept = Pick(q, DOMAIN q \ Erased(q, p))
<1> DEFINE m == Len(q)
           g == Left(q, p)
           h == [n \in 0 .. m |-> LeftAfter(q, p, n)]
           T == {n \in 0 .. m : g[n] = LeftAfter(q, p, n)}
<1>1. m \in Nat /\ DOMAIN q = 1 .. m
  OBVIOUS
<1>2. LeftAfter(q, p, 0) = [kept |-> << >>, broken |-> FALSE]
  <2>1. 1 .. 0 = {} /\ (1 .. 0) \ Erased(q, p) = {}
    OBVIOUS
  <2>2. Pick(q, {}) = << >>
    <3>1. Cardinality({}) = 0
      BY FS_EmptySet
    <3> QED
      BY <3>1 DEF Pick
  <2>3. ~ \E i \in 1 .. 0 : q[i].path = p
    BY <2>1
  <2> QED
    BY <2>1, <2>2, <2>3 DEF LeftAfter
<1>3. IsLeft(q, p, h)
  <2>1. ASSUME NEW n \in 0 .. m, n # 0
        PROVE  h[n] = EraseRound(h[n - 1], p, q[n])
    <3>1. n \in 1 .. m /\ n - 1 \in 0 .. m
      BY <1>1, <2>1
    <3>2. h[n] = LeftAfter(q, p, n) /\ h[n - 1] = LeftAfter(q, p, n - 1)
      BY <3>1
    <3> HIDE DEF h
    <3> QED
      BY <3>1, <3>2, LeftStep
  <2>2. \A n \in 0 .. m : h[n] = IF n = 0 THEN [kept |-> << >>, broken |-> FALSE]
                                 ELSE EraseRound(h[n - 1], p, q[n])
    BY <1>1, <1>2, <2>1
  <2>3. h = [n \in 0 .. m |-> h[n]]
    OBVIOUS
  <2> HIDE DEF h
  <2> QED
    BY <2>2, <2>3 DEF IsLeft
<1>4. IsLeft(q, p, g)
  <2> HIDE DEF h
  <2> QED
    BY <1>3, LeftIs
<1> HIDE DEF g
<1>5. 0 \in T
  BY <1>1, <1>2, <1>4 DEF IsLeft
<1>6. ASSUME NEW n \in 1 .. m, n - 1 \in T
      PROVE  n \in T
  <2>1. n \in 0 .. m /\ n # 0 /\ g[n - 1] = LeftAfter(q, p, n - 1)
    BY <1>1, <1>6
  <2>2. g[n] = EraseRound(g[n - 1], p, q[n])
    BY <1>4, <2>1 DEF IsLeft
  <2>3. g[n] = LeftAfter(q, p, n)
    BY <2>1, <2>2, LeftStep
  <2> QED
    BY <2>1, <2>3
<1>7. m \in T
  <2> HIDE DEF T
  <2>1. m \in 0 .. m
    BY <1>1
  <2> QED
    BY <1>1, <1>5, <1>6, <2>1, AllUpTo
<1>8. g[m] = LeftAfter(q, p, m)
  BY <1>7
<1>9. g[m].kept = Pick(q, (1 .. m) \ Erased(q, p))
  BY <1>8 DEF LeftAfter
<1> QED
  BY <1>1, <1>9 DEF g

-----------------------------------------------------------------------------
(* One path *)

LEMMA NewOne ==
    ASSUME NEW p \in Dirs, NEW recursive \in BOOLEAN
    PROVE  LET x == [path |-> p, recursive |-> recursive]
           IN  x \in Request /\ New(<<p>>, recursive) = <<x>> /\ Reverse(<<x>>) = <<x>>
<1> DEFINE x == [path |-> p, recursive |-> recursive]
           y == New(<<p>>, recursive)
           z == Reverse(<<x>>)
<1>1. x \in Request
  BY DEF Request
<1>2. y \in Seq(Request) /\ Len(y) = 1 /\ y[1] = x
  <2>1. <<p>> \in Seq(Dirs) /\ DOMAIN <<p>> = 1 .. 1
    OBVIOUS
  <2> QED
    BY <1>1, <2>1 DEF New
<1>3. z \in Seq(Request) /\ Len(z) = 1 /\ z[1] = x
  <2> DEFINE s == <<x>>
  <2>1. s \in Seq(Request) /\ Len(s) = 1 /\ s[1] = x
    BY <1>1
  <2> HIDE DEF s, x
  <2>2. /\ Reverse(s) \in Seq(Request)
        /\ Len(Reverse(s)) = Len(s)
        /\ \A i \in 1 .. Len(s) :
             Len(s) - i + 1 \in 1 .. Len(s) /\ Reverse(s)[i] = s[Len(s) - i + 1]
    BY <2>1, ReversedSeq
  <2>3. Reverse(s)[1] = s[1]
    BY <2>1, <2>2
  <2> QED
    BY <2>1, <2>2, <2>3 DEF s
<1> HIDE DEF x, y, z
<1>4. <<x>> \in Seq(Request) /\ Len(<<x>>) = 1 /\ <<x>>[1] = x
  BY <1>1
<1>5. \A i \in 1 .. 1 : y[i] = <<x>>[i] /\ z[i] = <<x>>[i]
  BY <1>2, <1>3, <1>4
<1>6. y = <<x>> /\ z = <<x>>
  BY <1>2, <1>3, <1>4, <1>5, SeqEqual
<1> QED
  BY <1>1, <1>6 DEF x, y, z

KeptOf(q, p) == Pick(q, DOMAIN q \ Erased(q, p))

\* addToQueue in closed form: what it keeps, and the new request
LEMMA AddOneShape ==
    ASSUME NEW q \in Seq(Request), NEW p \in Dirs,
           NEW recursive \in BOOLEAN, NEW toBack \in BOOLEAN
    PROVE  LET x == [path |-> p, recursive |-> recursive]
           IN  /\ x \in Request /\ KeptOf(q, p) \in Seq(Request)
               /\ AddToQueue(q, p, recursive, toBack) =
                    IF toBack THEN Append(KeptOf(q, p), x) ELSE <<x>> \o KeptOf(q, p)
<1> DEFINE x  == [path |-> p, recursive |-> recursive]
           ps == <<p>>
           k  == KeptOf(q, p)
<1>1. x \in Request /\ New(ps, recursive) = <<x>> /\ Reverse(<<x>>) = <<x>>
  BY NewOne
<1>2. ps \in Seq(Dirs) /\ DOMAIN ps = {1} /\ ps[1] = p
  OBVIOUS
<1>3. ErasedByAll(q, ps) = Erased(q, p)
  BY <1>2 DEF ErasedByAll
<1>4. Kept(q, ps) = k
  BY <1>3 DEF Kept, KeptOf
<1>5. AddToQueue(q, p, recursive, toBack) = AddAll(q, ps, recursive, toBack)
  BY DEF AddToQueue
<1> HIDE DEF ps, x, k
<1>6. /\ k \in Seq(Request)
      /\ AddAll(q, ps, recursive, toBack) = IF toBack THEN k \o <<x>> ELSE <<x>> \o k
  <2>1. /\ Kept(q, ps) \in Seq(Request)
        /\ AddAll(q, ps, recursive, toBack) =
             IF toBack THEN Kept(q, ps) \o New(ps, recursive)
             ELSE Reverse(New(ps, recursive)) \o Kept(q, ps)
    BY <1>2, AddAllShape
  <2> QED
    BY <1>1, <1>4, <2>1
<1>7. k \o <<x>> = Append(k, x)
  BY <1>1, <1>6
<1> QED
  BY <1>1, <1>5, <1>6, <1>7 DEF x, k

\* addToQueue does what its loop does.
LEMMA LoopAddOne ==
    ASSUME NEW q \in Seq(Request), NEW p \in Dirs,
           NEW recursive \in BOOLEAN, NEW toBack \in BOOLEAN
    PROVE  AddToQueue(q, p, recursive, toBack) = LoopAddToQueue(q, p, recursive, toBack)
<1> DEFINE x == [path |-> p, recursive |-> recursive]
           k == KeptOf(q, p)
<1>1. Left(q, p)[Len(q)].kept = k
  BY LeftClosed DEF KeptOf
<1>2. AddToQueue(q, p, recursive, toBack) = IF toBack THEN Append(k, x) ELSE <<x>> \o k
  BY AddOneShape
<1> HIDE DEF k
<1> QED
  BY <1>1, <1>2 DEF LoopAddToQueue

-----------------------------------------------------------------------------
(* Several paths, one after the other *)

\* Erasing for p from what is left of a queue that has lost no request for p
LEMMA EraseMore ==
    ASSUME NEW q \in Seq(Request), NEW p \in Dirs, NEW K \in SUBSET DOMAIN q,
           \A j \in DOMAIN q : q[j].path = p => j \in K
    PROVE  KeptOf(Pick(q, K), p) = Pick(q, K \ Erased(q, p))
<1> DEFINE r == Pick(q, K)
           c == Cardinality(K)
           M == DOMAIN r \ Erased(r, p)
           N == {Nth(K, n) : n \in M}
<1>1. /\ r \in Seq(Request) /\ Len(r) = c /\ c \in Nat /\ DOMAIN r = 1 .. c
      /\ \A n \in 1 .. c : Nth(K, n) \in K /\ r[n] = q[Nth(K, n)]
      /\ \A j \in K : \E n \in 1 .. c : Nth(K, n) = j
  <2>1. /\ r \in Seq(Request) /\ Len(r) = c /\ c \in Nat
        /\ \A n \in 1 .. c : Nth(K, n) \in K /\ r[n] = q[Nth(K, n)]
        /\ \A j \in K : \E n \in 1 .. c : Nth(K, n) = j
    BY PickProperties
  <2> HIDE DEF r, c
  <2> QED
    BY <2>1
<1>2. Len(q) \in Nat /\ DOMAIN q = 1 .. Len(q) /\ K \in SUBSET (1 .. Len(q))
  OBVIOUS
<1>3. \A n, k \in 1 .. c : n < k => Nth(K, n) < Nth(K, k)
  BY <1>2, NthOrder
<1> HIDE DEF r, c
<1>4. ASSUME NEW n \in 1 .. c
      PROVE  n \in Erased(r, p) <=> Nth(K, n) \in Erased(q, p)
  <2> DEFINE i == Nth(K, n)
  <2>1. n \in DOMAIN r /\ i \in DOMAIN q /\ r[n] = q[i] /\ i \in Int /\ n \in Int
    BY <1>1, <1>2
  <2>2. n \in Erased(r, p) <=> /\ IsPrefix(p, r[n].path)
                               /\ \A k \in 1 .. n - 1 : r[k].path # p
    BY <1>1, <2>1, ErasedCases
  <2>3. i \in Erased(q, p) <=> /\ IsPrefix(p, q[i].path)
                               /\ \A j \in 1 .. i - 1 : q[j].path # p
    BY <2>1, ErasedCases
  <2>4. ASSUME NEW k \in 1 .. n - 1, r[k].path = p
        PROVE  \E j \in 1 .. i - 1 : q[j].path = p
    <3>1. k \in 1 .. c /\ k < n
      BY <1>1
    <3>2. Nth(K, k) \in K /\ q[Nth(K, k)].path = p /\ Nth(K, k) < i
      BY <1>1, <1>3, <2>4, <3>1
    <3>3. Nth(K, k) \in 1 .. i - 1
      BY <1>2, <2>1, <3>2
    <3> QED
      BY <3>2, <3>3
  <2>5. ASSUME NEW j \in 1 .. i - 1, q[j].path = p
        PROVE  \E k \in 1 .. n - 1 : r[k].path = p
    <3>1. j \in DOMAIN q /\ j < i
      BY <1>2, <2>1
    <3>2. j \in K
      BY <2>5, <3>1
    <3>3. PICK k \in 1 .. c : Nth(K, k) = j
      BY <1>1, <3>2
    <3>4. k # n /\ ~ (n < k)
      BY <1>3, <2>1, <3>1, <3>3
    <3>5. k \in 1 .. n - 1
      BY <1>1, <3>4
    <3>6. r[k].path = p
      BY <1>1, <2>5, <3>3
    <3> QED
      BY <3>5, <3>6
  <2> QED
    BY <2>1, <2>2, <2>3, <2>4, <2>5
<1>5. N = K \ Erased(q, p)
  <2>1. M = {n \in 1 .. c : Nth(K, n) \notin Erased(q, p)}
    BY <1>1, <1>4
  <2>2. \A j \in N : j \in K /\ j \notin Erased(q, p)
    <3> HIDE DEF M
    <3> QED
      BY <1>1, <2>1
  <2>3. \A j \in K : j \notin Erased(q, p) => j \in N
    <3> SUFFICES ASSUME NEW j \in K, j \notin Erased(q, p) PROVE j \in N
      OBVIOUS
    <3>1. PICK n \in 1 .. c : Nth(K, n) = j
      BY <1>1
    <3> HIDE DEF M
    <3>2. n \in M
      BY <2>1, <3>1
    <3> QED
      BY <3>1, <3>2
  <2> QED
    BY <2>2, <2>3
<1>6. M \in SUBSET (1 .. c)
  BY <1>1
<1> HIDE DEF M
<1>7. Pick(r, M) = Pick(q, N)
  BY <1>6, PickTwice DEF r, c
<1> QED
  BY <1>5, <1>7 DEF KeptOf, M, r

\* Requests t that p does not concern stay, before and behind the others.
LEMMA KeptBeside ==
    ASSUME NEW s \in Seq(Request), NEW t \in Seq(Request), NEW p \in Dirs,
           \A i \in DOMAIN t : ~ IsPrefix(p, t[i].path)
    PROVE  /\ KeptOf(s \o t, p) = KeptOf(s, p) \o t
           /\ KeptOf(t \o s, p) = t \o KeptOf(s, p)
<1> DEFINE l == Len(s)
           k == Len(t)
           u == s \o t
           v == t \o s
           K == DOMAIN s \ Erased(s, p)
<1>1. l \in Nat /\ k \in Nat /\ DOMAIN s = 1 .. l /\ DOMAIN t = 1 .. k
  OBVIOUS
<1>2. /\ u \in Seq(Request) /\ DOMAIN u = 1 .. l + k
      /\ \A i \in 1 .. l : u[i] = s[i]
      /\ \A i \in 1 .. k : u[l + i] = t[i]
  OBVIOUS
<1>3. /\ v \in Seq(Request) /\ DOMAIN v = 1 .. k + l
      /\ \A i \in 1 .. k : v[i] = t[i]
      /\ \A i \in 1 .. l : v[k + i] = s[i]
  OBVIOUS
<1>4. \A i \in 1 .. l : i \in Erased(s, p) <=> /\ IsPrefix(p, s[i].path)
                                               /\ \A j \in 1 .. i - 1 : s[j].path # p
  BY <1>1, ErasedCases
<1>5. \A i \in 1 .. l + k : i \in Erased(u, p) <=> /\ IsPrefix(p, u[i].path)
                                                   /\ \A j \in 1 .. i - 1 : u[j].path # p
  <2> HIDE DEF u
  <2> QED
    BY <1>2, ErasedCases
<1>6. \A i \in 1 .. k + l : i \in Erased(v, p) <=> /\ IsPrefix(p, v[i].path)
                                                   /\ \A j \in 1 .. i - 1 : v[j].path # p
  <2> HIDE DEF v
  <2>1. \A i \in DOMAIN v : i \in Erased(v, p) <=> /\ IsPrefix(p, v[i].path)
                                                 /\ \A j \in 1 .. i - 1 : v[j].path # p
    BY <1>3, ErasedCases
  <2> QED
    BY <1>3, <2>1
<1>7. \A i \in 1 .. k : t[i].path # p
  <2>1. IsPrefix(p, p)
    BY DirsAssumption, PrefixOrder
  <2> QED
    BY <1>1, <2>1
<1>8. DOMAIN u \ Erased(u, p) = K \union (l + 1 .. l + k)
  <2> HIDE DEF u, v, l, k
  <2>1. /\ \A i \in 1 .. l + k : i \in 1 .. l \/ (i \in l + 1 .. l + k /\ i - l \in 1 .. k /\ l + (i - l) = i)
        /\ \A i \in 1 .. l : i \in 1 .. l + k /\ \A j \in 1 .. i - 1 : j \in 1 .. l
        /\ \A i \in l + 1 .. l + k : i \in 1 .. l + k /\ i \notin 1 .. l
    BY <1>1
  <2>2. \A i \in 1 .. l : i \in Erased(u, p) <=> i \in Erased(s, p)
    BY <1>2, <1>4, <1>5, <2>1
  <2>3. \A i \in l + 1 .. l + k : i \notin Erased(u, p)
    <3>1. \A i \in l + 1 .. l + k : i \in 1 .. l + k /\ i - l \in 1 .. k /\ u[i] = t[i - l]
      BY <1>1, <1>2, <2>1
    <3>2. \A i \in l + 1 .. l + k : ~ IsPrefix(p, u[i].path)
      BY <1>1, <3>1
    <3> QED
      BY <1>5, <3>1, <3>2
  <2> QED
    BY <1>1, <1>2, <2>1, <2>2, <2>3
<1>9. DOMAIN v \ Erased(v, p) = (1 .. k) \union {k + i : i \in K}
  <2> HIDE DEF u, v, l, k
  <2>1. /\ \A i \in 1 .. k + l : i \in 1 .. k \/ (i - k \in 1 .. l /\ k + (i - k) = i)
        /\ \A i \in 1 .. k : i \in 1 .. k + l
        /\ \A i \in 1 .. l : k + i \in 1 .. k + l /\ k + i \notin 1 .. k
        /\ \A i, j \in 1 .. l : k + i = k + j => i = j
    BY <1>1
  <2>2. \A i \in 1 .. k : i \notin Erased(v, p)
    BY <1>1, <1>3, <1>6, <2>1
  <2>3. ASSUME NEW i \in 1 .. l
        PROVE  k + i \in Erased(v, p) <=> i \in Erased(s, p)
    <3>1. /\ \A j \in 1 .. (k + i) - 1 : j \in 1 .. k \/ (j - k \in 1 .. i - 1 /\ k + (j - k) = j)
          /\ \A j \in 1 .. i - 1 : k + j \in 1 .. (k + i) - 1 /\ j \in 1 .. l
      BY <1>1
    <3>2. (\A j \in 1 .. (k + i) - 1 : v[j].path # p) <=> \A j \in 1 .. i - 1 : s[j].path # p
      <4>1. ASSUME \A j \in 1 .. (k + i) - 1 : v[j].path # p, NEW j \in 1 .. i - 1
            PROVE  s[j].path # p
        <5>1. k + j \in 1 .. (k + i) - 1 /\ v[k + j] = s[j]
          BY <1>3, <3>1
        <5> QED
          BY <4>1, <5>1
      <4>2. ASSUME \A j \in 1 .. i - 1 : s[j].path # p, NEW j \in 1 .. (k + i) - 1
            PROVE  v[j].path # p
        <5>1. CASE j \in 1 .. k
          BY <1>3, <1>7, <5>1
        <5>2. CASE j - k \in 1 .. i - 1 /\ k + (j - k) = j
          <6>1. v[j] = s[j - k]
            BY <1>3, <3>1, <5>2
          <6> QED
            BY <4>2, <5>2, <6>1
        <5> QED
          BY <3>1, <5>1, <5>2
      <4> QED
        BY <4>1, <4>2
    <3> QED
      BY <1>3, <1>4, <1>6, <2>1, <3>2
  <2>4. ASSUME NEW i \in DOMAIN v \ Erased(v, p), i \notin 1 .. k
        PROVE  i \in {k + j : j \in K}
    <3>1. i - k \in 1 .. l /\ k + (i - k) = i
      BY <1>3, <2>1, <2>4
    <3>2. i - k \notin Erased(s, p)
      BY <2>3, <2>4, <3>1
    <3>3. i - k \in K
      BY <1>1, <3>1, <3>2
    <3> QED
      BY <3>1, <3>3
  <2>5. \A i \in (1 .. k) \union {k + j : j \in K} : i \in DOMAIN v \ Erased(v, p)
    BY <1>1, <1>3, <2>1, <2>2, <2>3
  <2> QED
    BY <2>4, <2>5
<1>10. K \in SUBSET DOMAIN s
  OBVIOUS
<1> HIDE DEF K
<1>11. /\ Pick(u, K \union (l + 1 .. l + k)) = Pick(s, K) \o t
       /\ Pick(v, (1 .. k) \union {k + i : i \in K}) = t \o Pick(s, K)
  <2>1. Pick(s \o t, K \union (Len(s) + 1 .. Len(s) + Len(t))) = Pick(s, K) \o t
    BY <1>10, PickBefore
  <2>2. Pick(t \o s, (1 .. Len(t)) \union {Len(t) + i : i \in K}) = t \o Pick(s, K)
    BY <1>10, PickBehind
  <2> QED
    BY <2>1, <2>2
<1>12. /\ KeptOf(u, p) = Pick(u, DOMAIN u \ Erased(u, p))
       /\ KeptOf(v, p) = Pick(v, DOMAIN v \ Erased(v, p))
       /\ KeptOf(s, p) = Pick(s, K)
  BY DEF KeptOf, K
<1> HIDE DEF u, v
<1>13. KeptOf(u, p) = KeptOf(s, p) \o t /\ KeptOf(v, p) = t \o KeptOf(s, p)
  BY <1>8, <1>9, <1>11, <1>12
<1> QED
  BY <1>13 DEF u, v

FirstOf(ps, n) == SubSeq(ps, 1, n)

LEMMA FirstOfProperties ==
    ASSUME NEW S, NEW ps \in Seq(S), NEW n \in 0 .. Len(ps)
    PROVE  /\ FirstOf(ps, n) \in Seq(S) /\ Len(FirstOf(ps, n)) = n
           /\ DOMAIN FirstOf(ps, n) = 1 .. n
           /\ \A i \in 1 .. n : FirstOf(ps, n)[i] = ps[i]
BY DEF FirstOf

LEMMA NewType ==
    ASSUME NEW ps \in Seq(Dirs), NEW recursive \in BOOLEAN
    PROVE  /\ New(ps, recursive) \in Seq(Request)
           /\ Reverse(New(ps, recursive)) \in Seq(Request)
<1>1. << >> \in Seq(Request) /\ TRUE \in BOOLEAN
  OBVIOUS
<1> QED
  BY <1>1, AddAllShape

\* The new requests, one more of them
LEMMA NewGrows ==
    ASSUME NEW ps \in Seq(Dirs), NEW recursive \in BOOLEAN, NEW n \in 1 .. Len(ps)
    PROVE  LET x   == [path |-> ps[n], recursive |-> recursive]
               was == New(FirstOf(ps, n - 1), recursive)
           IN  /\ x \in Request /\ was \in Seq(Request) /\ Reverse(was) \in Seq(Request)
               /\ New(FirstOf(ps, n), recursive) = Append(was, x)
               /\ Reverse(New(FirstOf(ps, n), recursive)) = <<x>> \o Reverse(was)
<1> DEFINE x   == [path |-> ps[n], recursive |-> recursive]
           f   == FirstOf(ps, n - 1)
           g   == FirstOf(ps, n)
           s   == New(f, recursive)
           t   == New(g, recursive)
           req(i) == [path |-> ps[i], recursive |-> recursive]
<1>1. Len(ps) \in Nat /\ n \in Nat /\ n - 1 \in 0 .. Len(ps) /\ n \in 0 .. Len(ps)
  OBVIOUS
<1>2. /\ f \in Seq(Dirs) /\ DOMAIN f = 1 .. n - 1 /\ \A i \in 1 .. n - 1 : f[i] = ps[i]
      /\ g \in Seq(Dirs) /\ DOMAIN g = 1 .. n /\ \A i \in 1 .. n : g[i] = ps[i]
  BY <1>1, FirstOfProperties
<1> HIDE DEF f, g
<1>3. /\ s \in Seq(Request) /\ Reverse(s) \in Seq(Request)
      /\ t \in Seq(Request) /\ Reverse(t) \in Seq(Request)
  BY <1>2, NewType
<1>4. /\ DOMAIN s = 1 .. n - 1 /\ \A i \in 1 .. n - 1 : s[i] = req(i)
      /\ DOMAIN t = 1 .. n /\ \A i \in 1 .. n : t[i] = req(i)
  BY <1>2 DEF New
<1>5. x \in Request /\ x = req(n)
  <2>1. ps[n] \in Dirs
    OBVIOUS
  <2> QED
    BY <2>1 DEF Request
<1> HIDE DEF x, s, t, req
<1>6. Len(s) = n - 1 /\ Len(t) = n
  BY <1>1, <1>3, <1>4
<1>7. t = Append(s, x)
  <2> DEFINE u == Append(s, x)
  <2>1. /\ u \in Seq(Request) /\ Len(u) = n /\ u[n] = x
        /\ \A i \in 1 .. n - 1 : u[i] = s[i]
    BY <1>1, <1>3, <1>5, <1>6
  <2> HIDE DEF u
  <2>2. \A i \in 1 .. n : u[i] = t[i]
    BY <1>1, <1>4, <1>5, <2>1
  <2>3. u = t
    BY <1>1, <1>3, <1>6, <2>1, <2>2, SeqEqual
  <2> QED
    BY <2>3 DEF u
<1>8. Reverse(t) = <<x>> \o Reverse(s)
  <2> DEFINE r == Reverse(s)
             w == Reverse(t)
             u == <<x>> \o r
  <2>1. /\ r \in Seq(Request) /\ Len(r) = n - 1
        /\ \A i \in 1 .. n - 1 : (n - 1) - i + 1 \in 1 .. n - 1 /\ r[i] = s[(n - 1) - i + 1]
    <3>1. /\ r \in Seq(Request) /\ Len(r) = Len(s)
          /\ \A i \in 1 .. Len(s) : Len(s) - i + 1 \in 1 .. Len(s) /\ r[i] = s[Len(s) - i + 1]
      BY <1>3, ReversedSeq
    <3> HIDE DEF r
    <3> QED
      BY <1>6, <3>1
  <2>2. /\ w \in Seq(Request) /\ Len(w) = n
        /\ \A i \in 1 .. n : n - i + 1 \in 1 .. n /\ w[i] = t[n - i + 1]
    BY <1>3, <1>6, ReversedSeq
  <2> HIDE DEF r, w
  <2>3. /\ u \in Seq(Request) /\ Len(u) = n /\ u[1] = x
        /\ \A i \in 2 .. n : u[i] = r[i - 1]
    BY <1>1, <1>5, <2>1
  <2> HIDE DEF u
  <2>4. \A i \in 1 .. n : w[i] = req(n - i + 1)
    BY <1>4, <2>2
  <2>5. u[1] = req(n - 1 + 1)
    BY <1>1, <1>5, <2>3
  <2>6. \A i \in 2 .. n : u[i] = req(n - i + 1)
    <3>1. \A i \in 2 .. n : i - 1 \in 1 .. n - 1 /\ (n - 1) - (i - 1) + 1 = n - i + 1
      BY <1>1
    <3> QED
      BY <1>4, <2>1, <2>3, <3>1
  <2>7. \A i \in 1 .. n : i = 1 \/ i \in 2 .. n
    BY <1>1
  <2>8. \A i \in 1 .. n : u[i] = w[i]
    BY <2>4, <2>5, <2>6, <2>7
  <2>9. u = w
    BY <1>1, <2>2, <2>3, <2>8, SeqEqual
  <2> QED
    BY <2>9 DEF u, w, r
<1> QED
  BY <1>3, <1>5, <1>7, <1>8 DEF x, s, t, f, g

LEMMA Regrouped ==
    ASSUME NEW S, NEW s \in Seq(S), NEW t \in Seq(S), NEW x \in S
    PROVE  <<x>> \o (t \o s) = (<<x>> \o t) \o s
<1> DEFINE u == <<x>> \o (t \o s)
           v == (<<x>> \o t) \o s
           m == Len(s) + Len(t) + 1
<1>1. u \in Seq(S) /\ v \in Seq(S) /\ Len(u) = m /\ Len(v) = m
  OBVIOUS
<1>2. \A i \in 1 .. m : u[i] = v[i]
  OBVIOUS
<1> HIDE DEF u, v
<1>3. u = v
  BY <1>1, <1>2, SeqEqual
<1> QED
  BY <1>3 DEF u, v

\* None of ps is in another.
Unrelated(ps) == \A i, j \in DOMAIN ps : i # j => ~ IsPrefix(ps[i], ps[j])

\* Adding one more path after the others adds all of them.
LEMMA AddOneMore ==
    ASSUME NEW q \in Seq(Request), NEW ps \in Seq(Dirs), Unrelated(ps),
           NEW recursive \in BOOLEAN, NEW toBack \in BOOLEAN, NEW n \in 1 .. Len(ps)
    PROVE  AddAll(q, FirstOf(ps, n), recursive, toBack) =
             AddToQueue(AddAll(q, FirstOf(ps, n - 1), recursive, toBack),
                        ps[n], recursive, toBack)
<1> DEFINE p   == ps[n]
           x   == [path |-> p, recursive |-> recursive]
           f   == FirstOf(ps, n - 1)
           g   == FirstOf(ps, n)
           was == New(f, recursive)
           rev == Reverse(was)
           k   == Kept(q, f)
           r   == AddAll(q, f, recursive, toBack)
           K   == DOMAIN q \ ErasedByAll(q, f)
<1>1. Len(ps) \in Nat /\ n \in Nat /\ n - 1 \in 0 .. Len(ps) /\ n \in 0 .. Len(ps)
      /\ p \in Dirs /\ DOMAIN ps = 1 .. Len(ps) /\ n \in DOMAIN ps
  OBVIOUS
<1>2. /\ f \in Seq(Dirs) /\ DOMAIN f = 1 .. n - 1 /\ \A i \in 1 .. n - 1 : f[i] = ps[i]
      /\ g \in Seq(Dirs) /\ DOMAIN g = 1 .. n /\ \A i \in 1 .. n : g[i] = ps[i]
  BY <1>1, FirstOfProperties
<1>3. /\ x \in Request /\ was \in Seq(Request) /\ rev \in Seq(Request)
      /\ New(g, recursive) = Append(was, x)
      /\ Reverse(New(g, recursive)) = <<x>> \o rev
  BY NewGrows
<1>4. /\ k \in Seq(Request) /\ Kept(q, g) \in Seq(Request)
      /\ r = IF toBack THEN k \o was ELSE rev \o k
      /\ AddAll(q, g, recursive, toBack) =
           IF toBack THEN Kept(q, g) \o New(g, recursive)
           ELSE Reverse(New(g, recursive)) \o Kept(q, g)
  <2> HIDE DEF f, g
  <2>1. k \in Seq(Request) /\ r = IF toBack THEN k \o was ELSE rev \o k
    BY <1>2, AddAllShape
  <2>2. /\ Kept(q, g) \in Seq(Request)
        /\ AddAll(q, g, recursive, toBack) =
             IF toBack THEN Kept(q, g) \o New(g, recursive)
             ELSE Reverse(New(g, recursive)) \o Kept(q, g)
    BY <1>2, AddAllShape
  <2> HIDE DEF k, r, was, rev
  <2> QED
    BY <2>1, <2>2
<1>5. r \in Seq(Request)
  <2> HIDE DEF f
  <2> QED
    BY <1>2, AddAllItems
<1>6. \A i \in 1 .. n - 1 : i \in DOMAIN ps /\ i # n /\ ~ IsPrefix(p, ps[i]) /\ ~ IsPrefix(ps[i], p)
  <2>1. \A i \in 1 .. n - 1 : i \in DOMAIN ps /\ i # n
    BY <1>1
  <2> QED
    BY <1>1, <2>1 DEF Unrelated
<1>7. /\ \A i \in DOMAIN was : ~ IsPrefix(p, was[i].path)
      /\ \A i \in DOMAIN rev : ~ IsPrefix(p, rev[i].path)
  <2>1. \A i \in DOMAIN was : ~ IsPrefix(p, was[i].path)
    <3>1. DOMAIN was = 1 .. n - 1 /\ \A i \in 1 .. n - 1 : was[i].path = ps[i]
      <4> HIDE DEF f
      <4> QED
        BY <1>2 DEF New
    <3> HIDE DEF was
    <3> QED
      BY <1>6, <3>1
  <2>2. ToSet(rev) = ToSet(was)
    <3> HIDE DEF was
    <3> QED
      BY <1>3, ReversedItems
  <2> HIDE DEF was, rev
  <2>3. \A i \in DOMAIN rev : \E j \in DOMAIN was : rev[i] = was[j]
    BY <2>2 DEF ToSet
  <2> QED
    BY <2>1, <2>3
<1>8. ErasedByAll(q, g) = ErasedByAll(q, f) \union Erased(q, p)
  <2> HIDE DEF f, g
  <2>1. 1 .. n = (1 .. n - 1) \union {n}
    BY <1>1
  <2>2. \A i \in DOMAIN g : g[i] = IF i = n THEN p ELSE f[i]
    BY <1>2, <2>1
  <2>3. n \notin DOMAIN f /\ DOMAIN g = DOMAIN f \union {n}
    BY <1>1, <1>2, <2>1
  <2> HIDE DEF p
  <2> QED
    BY <2>2, <2>3 DEF ErasedByAll
<1>9. \A j \in DOMAIN q : q[j].path = p => j \in K
  <2> SUFFICES ASSUME NEW j \in DOMAIN q, q[j].path = p, NEW i \in DOMAIN f, j \in Erased(q, f[i])
               PROVE  FALSE
    BY DEF ErasedByAll
  <2> HIDE DEF f, p
  <2>1. i \in 1 .. n - 1 /\ f[i] = ps[i] /\ ps[i] \in Dirs
    BY <1>1, <1>2, <1>6
  <2>2. IsPrefix(ps[i], q[j].path)
    BY <2>1, ErasedCases
  <2> QED
    BY <1>6, <2>1, <2>2
<1>10. KeptOf(k, p) = Kept(q, g)
  <2>1. k = Pick(q, K)
    BY DEF Kept
  <2>2. Kept(q, g) = Pick(q, K \ Erased(q, p))
    <3>1. DOMAIN q \ ErasedByAll(q, g) = K \ Erased(q, p)
      BY <1>8
    <3> QED
      BY <3>1 DEF Kept
  <2>3. K \in SUBSET DOMAIN q
    OBVIOUS
  <2> HIDE DEF K, k, p, g
  <2> QED
    BY <1>1, <1>9, <2>1, <2>2, <2>3, EraseMore
<1>11. /\ KeptOf(r, p) \in Seq(Request)
       /\ AddToQueue(r, p, recursive, toBack) =
            IF toBack THEN Append(KeptOf(r, p), x) ELSE <<x>> \o KeptOf(r, p)
  <2> HIDE DEF r, p
  <2> QED
    BY <1>1, <1>5, AddOneShape
<1> HIDE DEF p, x, f, g, was, rev, k, r, K
<1>12. CASE toBack
  <2>1. r = k \o was
    BY <1>4, <1>12
  <2>2. KeptOf(k \o was, p) = KeptOf(k, p) \o was
    BY <1>1, <1>3, <1>4, <1>7, KeptBeside
  <2>3. AddToQueue(r, p, recursive, toBack) = Append(Kept(q, g) \o was, x)
    BY <1>10, <1>11, <1>12, <2>1, <2>2
  <2>4. AddAll(q, g, recursive, toBack) = Kept(q, g) \o Append(was, x)
    BY <1>3, <1>4, <1>12
  <2>5. Append(Kept(q, g) \o was, x) = Kept(q, g) \o Append(was, x)
    <3> DEFINE s == Kept(q, g)
               t == was
               y == x
               u == Append(s \o t, y)
               v == s \o Append(t, y)
               m == Len(s) + Len(t) + 1
    <3>1. s \in Seq(Request) /\ t \in Seq(Request) /\ y \in Request
      BY <1>3, <1>4
    <3> HIDE DEF s, t, y
    <3>2. u \in Seq(Request) /\ v \in Seq(Request) /\ Len(u) = m /\ Len(v) = m
      BY <3>1
    <3>3. \A i \in 1 .. m : u[i] = v[i]
      BY <3>1, SMTT(60)
    <3> HIDE DEF u, v
    <3>4. u = v
      BY <3>2, <3>3, SeqEqual
    <3> QED
      BY <3>4 DEF u, v, s, t, y
  <2>6. AddAll(q, g, recursive, toBack) = AddToQueue(r, p, recursive, toBack)
    BY <2>3, <2>4, <2>5
  <2> QED
    BY <2>6 DEF r, f, g, p
<1>13. CASE ~ toBack
  <2>1. r = rev \o k
    BY <1>4, <1>13
  <2>2. KeptOf(rev \o k, p) = rev \o KeptOf(k, p)
    BY <1>1, <1>3, <1>4, <1>7, KeptBeside
  <2>3. AddToQueue(r, p, recursive, toBack) = <<x>> \o (rev \o Kept(q, g))
    BY <1>10, <1>11, <1>13, <2>1, <2>2
  <2>4. AddAll(q, g, recursive, toBack) = (<<x>> \o rev) \o Kept(q, g)
    BY <1>3, <1>4, <1>13
  <2>5. <<x>> \o (rev \o Kept(q, g)) = (<<x>> \o rev) \o Kept(q, g)
    BY <1>3, <1>4, Regrouped
  <2>6. AddAll(q, g, recursive, toBack) = AddToQueue(r, p, recursive, toBack)
    BY <2>3, <2>4, <2>5
  <2> QED
    BY <2>6 DEF r, f, g, p
<1> QED
  BY <1>12, <1>13

-----------------------------------------------------------------------------
(* addChildrenToQueue *)

IsAddedEach(q, ps, recursive, toBack, g) ==
    g = [n \in 0 .. Len(ps) |->
            IF n = 0 THEN q ELSE LoopAddToQueue(g[n - 1], ps[n], recursive, toBack)]

LEMMA AddedEachIs ==
    ASSUME NEW q, NEW ps, NEW recursive, NEW toBack
    PROVE  AddedEach(q, ps, recursive, toBack) =
             CHOOSE g : IsAddedEach(q, ps, recursive, toBack, g)
BY DEF AddedEach, IsAddedEach

LEMMA AddNone ==
    ASSUME NEW q \in Seq(Request), NEW ps \in Seq(Dirs),
           NEW recursive \in BOOLEAN, NEW toBack \in BOOLEAN
    PROVE  /\ New(FirstOf(ps, 0), recursive) = << >>
           /\ Reverse(New(FirstOf(ps, 0), recursive)) = << >>
           /\ AddAll(q, FirstOf(ps, 0), recursive, toBack) = q
<1> DEFINE f == FirstOf(ps, 0)
           w == New(f, recursive)
           r == Reverse(w)
<1>1. f \in Seq(Dirs) /\ DOMAIN f = {}
  <2>1. 0 \in 0 .. Len(ps) /\ 1 .. 0 = {}
    OBVIOUS
  <2> QED
    BY <2>1, FirstOfProperties
<1> HIDE DEF f
<1>2. w \in Seq(Request) /\ r \in Seq(Request) /\ Len(r) = Len(w)
  <2>1. w \in Seq(Request) /\ r \in Seq(Request)
    BY <1>1, NewType
  <2> HIDE DEF w
  <2> QED
    BY <2>1, ReversedSeq
<1>3. DOMAIN w = {}
  BY <1>1 DEF New
<1> HIDE DEF w, r
<1>4. Len(w) = 0 /\ Len(r) = 0
  BY <1>2, <1>3
<1>5. w = << >> /\ r = << >>
  BY <1>2, <1>4
<1>6. Kept(q, f) = q
  <2>1. ErasedByAll(q, f) = {}
    BY <1>1 DEF ErasedByAll
  <2> QED
    BY <2>1, PickAll DEF Kept
<1>7. AddAll(q, f, recursive, toBack) = IF toBack THEN q \o w ELSE r \o q
  <2>1. AddAll(q, f, recursive, toBack) =
          IF toBack THEN Kept(q, f) \o New(f, recursive)
          ELSE Reverse(New(f, recursive)) \o Kept(q, f)
    BY <1>1, AddAllShape
  <2> QED
    BY <1>6, <2>1 DEF w, r
<1>8. q \o << >> = q /\ << >> \o q = q
  OBVIOUS
<1>9. AddAll(q, f, recursive, toBack) = q
  BY <1>5, <1>7, <1>8
<1> QED
  BY <1>5, <1>9 DEF w, r, f

LEMMA FirstOfAll ==
    ASSUME NEW S, NEW ps \in Seq(S)
    PROVE  FirstOf(ps, Len(ps)) = ps
BY DEF FirstOf

LEMMA AddedEachClosed ==
    ASSUME NEW q \in Seq(Request), NEW ps \in Seq(Dirs), Unrelated(ps),
           NEW recursive \in BOOLEAN, NEW toBack \in BOOLEAN
    PROVE  AddedEach(q, ps, recursive, toBack)[Len(ps)] = AddAll(q, ps, recursive, toBack)
<1> DEFINE m == Len(ps)
           g == AddedEach(q, ps, recursive, toBack)
           c(n) == AddAll(q, FirstOf(ps, n), recursive, toBack)
           h == [n \in 0 .. m |-> c(n)]
           T == {n \in 0 .. m : g[n] = c(n)}
<1>1. m \in Nat /\ c(0) = q
  BY AddNone
<1>2. ASSUME NEW n \in 1 .. m
      PROVE  c(n) = LoopAddToQueue(c(n - 1), ps[n], recursive, toBack)
  <2>1. c(n) = AddToQueue(c(n - 1), ps[n], recursive, toBack)
    BY AddOneMore
  <2>2. ps[n] \in Dirs /\ c(n - 1) \in Seq(Request)
    <3>1. n - 1 \in 0 .. Len(ps) /\ ps[n] \in Dirs
      OBVIOUS
    <3>2. FirstOf(ps, n - 1) \in Seq(Dirs)
      BY <3>1, FirstOfProperties
    <3> QED
      BY <3>1, <3>2, AddAllItems
  <2> HIDE DEF c
  <2> QED
    BY <2>1, <2>2, LoopAddOne
<1> HIDE DEF c
<1>3. IsAddedEach(q, ps, recursive, toBack, h)
  <2>1. \A n \in 0 .. m : h[n] = IF n = 0 THEN q
                                 ELSE LoopAddToQueue(h[n - 1], ps[n], recursive, toBack)
    <3> SUFFICES ASSUME NEW n \in 0 .. m, n # 0
                 PROVE  h[n] = LoopAddToQueue(h[n - 1], ps[n], recursive, toBack)
      BY <1>1
    <3>1. n \in 1 .. m /\ n - 1 \in 0 .. m
      BY <1>1
    <3> QED
      BY <1>2, <3>1
  <2>2. h = [n \in 0 .. m |-> h[n]]
    OBVIOUS
  <2> HIDE DEF h
  <2> QED
    BY <2>1, <2>2 DEF IsAddedEach
<1>4. IsAddedEach(q, ps, recursive, toBack, g)
  <2> HIDE DEF h
  <2> QED
    BY <1>3, AddedEachIs
<1> HIDE DEF g
<1>5. 0 \in T
  BY <1>1, <1>4 DEF IsAddedEach
<1>6. ASSUME NEW n \in 1 .. m, n - 1 \in T
      PROVE  n \in T
  <2>1. n \in 0 .. m /\ n # 0 /\ g[n - 1] = c(n - 1)
    BY <1>1, <1>6
  <2>2. g[n] = LoopAddToQueue(g[n - 1], ps[n], recursive, toBack)
    BY <1>4, <2>1 DEF IsAddedEach
  <2> QED
    BY <1>2, <2>1, <2>2
<1>7. m \in T
  <2> HIDE DEF T
  <2>1. m \in 0 .. m
    BY <1>1
  <2> QED
    BY <1>1, <1>5, <1>6, <2>1, AllUpTo
<1>8. g[m] = c(m)
  BY <1>7
<1> QED
  BY <1>8, FirstOfAll DEF g, c

-----------------------------------------------------------------------------
(* The batch *)

IsPushed(q, ps, recursive, toBack, g) ==
    g = [n \in 0 .. Len(ps) |->
            IF n = 0 THEN q
            ELSE LET request == [path |-> ps[n], recursive |-> recursive]
                 IN  IF toBack THEN Append(g[n - 1], request)
                     ELSE <<request>> \o g[n - 1]]

LEMMA PushedIs ==
    ASSUME NEW q, NEW ps, NEW recursive, NEW toBack
    PROVE  Pushed(q, ps, recursive, toBack) =
             CHOOSE g : IsPushed(q, ps, recursive, toBack, g)
BY DEF Pushed, IsPushed

LEMMA PushedClosed ==
    ASSUME NEW q \in Seq(Request), NEW ps \in Seq(Dirs),
           NEW recursive \in BOOLEAN, NEW toBack \in BOOLEAN
    PROVE  Pushed(q, ps, recursive, toBack)[Len(ps)] =
             IF toBack THEN q \o New(ps, recursive) ELSE Reverse(New(ps, recursive)) \o q
<1> DEFINE m == Len(ps)
           g == Pushed(q, ps, recursive, toBack)
           new(n) == New(FirstOf(ps, n), recursive)
           rev(n) == Reverse(new(n))
           x(n) == [path |-> ps[n], recursive |-> recursive]
           c(n) == IF toBack THEN q \o new(n) ELSE rev(n) \o q
           round(r, n) == IF toBack THEN Append(r, x(n)) ELSE <<x(n)>> \o r
           h == [n \in 0 .. m |-> c(n)]
           T == {n \in 0 .. m : g[n] = c(n)}
<1>1. m \in Nat /\ c(0) = q
  <2>1. new(0) = << >> /\ rev(0) = << >>
    BY AddNone
  <2>2. q \o << >> = q /\ << >> \o q = q
    OBVIOUS
  <2> HIDE DEF new, rev
  <2> QED
    BY <2>1, <2>2
<1>2. ASSUME NEW n \in 1 .. m
      PROVE  c(n) = round(c(n - 1), n)
  <2>1. /\ x(n) \in Request /\ new(n - 1) \in Seq(Request) /\ rev(n - 1) \in Seq(Request)
        /\ new(n) = Append(new(n - 1), x(n))
        /\ rev(n) = <<x(n)>> \o rev(n - 1)
    BY NewGrows
  <2> HIDE DEF new, rev, x
  <2>2. Append(q \o new(n - 1), x(n)) = q \o Append(new(n - 1), x(n))
    <3> DEFINE t == new(n - 1)
               y == x(n)
               u == Append(q \o t, y)
               v == q \o Append(t, y)
               k == Len(q) + Len(t) + 1
    <3>1. t \in Seq(Request) /\ y \in Request
      BY <2>1
    <3> HIDE DEF t, y
    <3>2. u \in Seq(Request) /\ v \in Seq(Request) /\ Len(u) = k /\ Len(v) = k
      BY <3>1
    <3>3. \A i \in 1 .. k : u[i] = v[i]
      BY <3>1
    <3> HIDE DEF u, v
    <3>4. u = v
      BY <3>2, <3>3, SeqEqual
    <3> QED
      BY <3>4 DEF u, v, t, y
  <2>3. <<x(n)>> \o (rev(n - 1) \o q) = (<<x(n)>> \o rev(n - 1)) \o q
    BY <2>1, Regrouped
  <2> QED
    BY <2>1, <2>2, <2>3
<1>3. \A r, n : round(r, n) = LET request == [path |-> ps[n], recursive |-> recursive]
                              IN  IF toBack THEN Append(r, request) ELSE <<request>> \o r
  OBVIOUS
<1> HIDE DEF c, round
<1>4. IsPushed(q, ps, recursive, toBack, h)
  <2>1. \A n \in 0 .. m : h[n] = IF n = 0 THEN q ELSE round(h[n - 1], n)
    <3> SUFFICES ASSUME NEW n \in 0 .. m, n # 0
                 PROVE  h[n] = round(h[n - 1], n)
      BY <1>1
    <3>1. n \in 1 .. m /\ n - 1 \in 0 .. m
      BY <1>1
    <3> QED
      BY <1>2, <3>1
  <2>2. h = [n \in 0 .. m |-> h[n]]
    OBVIOUS
  <2> HIDE DEF h
  <2> QED
    BY <1>3, <2>1, <2>2 DEF IsPushed
<1>5. IsPushed(q, ps, recursive, toBack, g)
  <2> HIDE DEF h
  <2> QED
    BY <1>4, PushedIs
<1> HIDE DEF g
<1>6. \A n \in 0 .. m : g[n] = IF n = 0 THEN q ELSE round(g[n - 1], n)
  BY <1>5 DEF IsPushed, round
<1>7. 0 \in T
  BY <1>1, <1>6
<1>8. ASSUME NEW n \in 1 .. m, n - 1 \in T
      PROVE  n \in T
  <2>1. n \in 0 .. m /\ n # 0 /\ g[n - 1] = c(n - 1)
    BY <1>1, <1>8
  <2> QED
    BY <1>2, <1>6, <2>1
<1>9. m \in T
  <2> HIDE DEF T
  <2>1. m \in 0 .. m
    BY <1>1
  <2> QED
    BY <1>1, <1>7, <1>8, <2>1, AllUpTo
<1>10. g[m] = c(m)
  BY <1>9
<1> QED
  BY <1>10, FirstOfAll DEF g, c

-----------------------------------------------------------------------------
(* What the first related request decides *)

IsLookedFor(q, parent, g) ==
    g = [n \in 0 .. Len(q) |->
            IF n = 0 THEN "batch"
            ELSE LET res == CompareTo(parent, q[n].path)
                 IN  IF g[n - 1] # "batch" \/ res = "DIFFERENT" THEN g[n - 1]
                     ELSE IF res = "CHILD" /\ q[n].recursive THEN "covered"
                     ELSE "separately"]

LEMMA LookedForIs ==
    ASSUME NEW q, NEW parent
    PROVE  LookedFor(q, parent) = CHOOSE g : IsLookedFor(q, parent, g)
BY DEF LookedFor, IsLookedFor

DifferentUpTo(q, p, n) == \A j \in 1 .. n : CompareTo(p, q[j].path) = "DIFFERENT"

CoveredUpTo(q, p, n) == \E i \in 1 .. n : /\ q[i].recursive
                                          /\ CompareTo(p, q[i].path) = "CHILD"
                                          /\ DifferentUpTo(q, p, i - 1)

Decided(q, p, n) == IF DifferentUpTo(q, p, n) THEN "batch"
                    ELSE IF CoveredUpTo(q, p, n) THEN "covered" ELSE "separately"

LEMMA DecidedStep ==
    ASSUME NEW q \in Seq(Request), NEW p \in Dirs, NEW n \in 1 .. Len(q)
    PROVE  LET res == CompareTo(p, q[n].path)
               was == Decided(q, p, n - 1)
           IN  Decided(q, p, n) =
                 IF was # "batch" \/ res = "DIFFERENT" THEN was
                 ELSE IF res = "CHILD" /\ q[n].recursive THEN "covered"
                 ELSE "separately"
<1> DEFINE res == CompareTo(p, q[n].path)
           D(i) == DifferentUpTo(q, p, i)
           C(i) == CoveredUpTo(q, p, i)
<1>1. n \in Nat /\ 1 .. n = (1 .. n - 1) \union {n}
  OBVIOUS
<1>2. D(n) <=> D(n - 1) /\ res = "DIFFERENT"
  BY <1>1 DEF DifferentUpTo
<1>3. C(n) <=> C(n - 1) \/ (q[n].recursive /\ res = "CHILD" /\ D(n - 1))
  BY <1>1 DEF CoveredUpTo
<1>4. C(n - 1) => ~ D(n - 1)
  BY DEF CoveredUpTo, DifferentUpTo
<1> HIDE DEF D, C, res
<1>5. Decided(q, p, n) = IF D(n) THEN "batch" ELSE IF C(n) THEN "covered" ELSE "separately"
  BY DEF Decided, D, C
<1>6. Decided(q, p, n - 1) =
        IF D(n - 1) THEN "batch" ELSE IF C(n - 1) THEN "covered" ELSE "separately"
  BY DEF Decided, D, C
<1>7. "batch" # "covered" /\ "batch" # "separately" /\ "CHILD" # "DIFFERENT"
  OBVIOUS
<1>8. CASE D(n - 1) /\ res = "DIFFERENT"
  BY <1>2, <1>5, <1>6, <1>8 DEF res
<1>9. CASE D(n - 1) /\ res # "DIFFERENT"
  BY <1>2, <1>3, <1>4, <1>5, <1>6, <1>7, <1>9 DEF res
<1>10. CASE ~ D(n - 1)
  BY <1>2, <1>3, <1>5, <1>6, <1>7, <1>10 DEF res
<1> QED
  BY <1>8, <1>9, <1>10

LEMMA LookedForClosed ==
    ASSUME NEW q \in Seq(Request), NEW p \in Dirs
    PROVE  LookedFor(q, p)[Len(q)] = Decided(q, p, Len(q))
<1> DEFINE m == Len(q)
           g == LookedFor(q, p)
           h == [n \in 0 .. m |-> Decided(q, p, n)]
           T == {n \in 0 .. m : g[n] = Decided(q, p, n)}
           round(was, n) == LET res == CompareTo(p, q[n].path)
                            IN  IF was # "batch" \/ res = "DIFFERENT" THEN was
                                ELSE IF res = "CHILD" /\ q[n].recursive THEN "covered"
                                ELSE "separately"
<1>1. m \in Nat /\ Decided(q, p, 0) = "batch"
  <2>1. DifferentUpTo(q, p, 0)
    BY DEF DifferentUpTo
  <2> QED
    BY <2>1 DEF Decided
<1>2. \A n \in 1 .. m : Decided(q, p, n) = round(Decided(q, p, n - 1), n)
  BY DecidedStep
<1>3. IsLookedFor(q, p, h)
  <2>1. \A n \in 0 .. m : h[n] = IF n = 0 THEN "batch" ELSE round(h[n - 1], n)
    <3> SUFFICES ASSUME NEW n \in 0 .. m, n # 0
                 PROVE  h[n] = round(h[n - 1], n)
      BY <1>1
    <3>1. n \in 1 .. m /\ n - 1 \in 0 .. m
      BY <1>1
    <3> HIDE DEF round
    <3> QED
      BY <1>2, <3>1
  <2>2. h = [n \in 0 .. m |-> h[n]]
    OBVIOUS
  <2> HIDE DEF h
  <2> QED
    BY <2>1, <2>2 DEF IsLookedFor
<1>4. IsLookedFor(q, p, g)
  <2> HIDE DEF h
  <2> QED
    BY <1>3, LookedForIs
<1> HIDE DEF g
<1>5. \A n \in 0 .. m : g[n] = IF n = 0 THEN "batch" ELSE round(g[n - 1], n)
  BY <1>4 DEF IsLookedFor
<1> HIDE DEF round
<1>6. 0 \in T
  BY <1>1, <1>5
<1>7. ASSUME NEW n \in 1 .. m, n - 1 \in T
      PROVE  n \in T
  <2>1. n \in 0 .. m /\ n # 0 /\ g[n - 1] = Decided(q, p, n - 1)
    BY <1>1, <1>7
  <2> QED
    BY <1>2, <1>5, <2>1
<1>8. m \in T
  <2> HIDE DEF T
  <2>1. m \in 0 .. m
    BY <1>1
  <2> QED
    BY <1>1, <1>6, <1>7, <2>1, AllUpTo
<1> QED
  BY <1>8 DEF g

-----------------------------------------------------------------------------
(* Siblings *)

LEMMA SiblingsShape ==
    ASSUME NEW ps \in Siblings
    PROVE  \E p \in Dirs : /\ ps \in Seq(ChildrenOf(p)) /\ ps \in Seq(Dirs)
                           /\ Len(ps) \in Nat \ {0}
                           /\ Front(ps[1]) = p
                           /\ Unrelated(ps)
<1>1. PICK p \in Dirs : \E S \in SUBSET ChildrenOf(p) : S # {} /\ ps \in SetToSeqs(S)
  <2>1. PICK S \in (UNION {SUBSET ChildrenOf(p) : p \in Dirs}) \ {{}} : ps \in SetToSeqs(S)
    BY DEF Siblings
  <2>2. S # {}
    OBVIOUS
  <2>3. S \in UNION {SUBSET ChildrenOf(p) : p \in Dirs}
    OBVIOUS
  <2>4. \E p \in Dirs : S \in SUBSET ChildrenOf(p)
    BY <2>3, Zenon
  <2> QED
    BY <2>1, <2>2, <2>4, Zenon
<1>9. PICK S \in SUBSET ChildrenOf(p) : S # {} /\ ps \in SetToSeqs(S)
  BY <1>1
<1> DEFINE m == Cardinality(S)
<1>2. IsFiniteSet(S) /\ m \in Nat /\ m # 0
  <2>1. IsFiniteSet(Dirs) /\ S \subseteq Dirs
    BY DirsAssumption DEF ChildrenOf
  <2> QED
    BY <1>9, <2>1, FS_Subset, FS_CardinalityType, FS_EmptySet
<1>3. ps \in [1 .. m -> S] /\ \A i, j \in 1 .. m : i # j => ps[i] # ps[j]
  BY <1>9 DEF SetToSeqs
<1> HIDE DEF m
<1>4. /\ ps \in Seq(ChildrenOf(p)) /\ ps \in Seq(Dirs) /\ Len(ps) = m
      /\ DOMAIN ps = 1 .. m /\ 1 \in 1 .. m
      /\ \A i \in 1 .. m : ps[i] \in ChildrenOf(p)
  <2>1. ps \in [1 .. m -> ChildrenOf(p)] /\ ps \in [1 .. m -> Dirs]
    BY <1>3 DEF ChildrenOf
  <2> QED
    BY <1>2, <2>1
<1>5. Front(ps[1]) = p
  BY <1>4 DEF ChildrenOf
<1>6. ASSUME NEW i \in 1 .. m, NEW j \in 1 .. m, i # j, IsPrefix(ps[i], ps[j])
      PROVE  FALSE
  <2>1. ps[i] \in ChildrenOf(p) /\ ps[j] \in ChildrenOf(p) /\ ps[i] \in Dirs
    BY <1>4 DEF ChildrenOf
  <2>2. ps[i] = ps[j] \/ IsPrefix(ps[i], p)
    BY <1>6, <2>1, AboveChild
  <2>3. ~ IsPrefix(ps[i], p)
    BY <2>1, ChildIsBelow
  <2> QED
    BY <1>3, <1>6, <2>2, <2>3
<1> QED
  BY <1>2, <1>4, <1>5, <1>6 DEF Unrelated

\* Where nothing is related to the parent nothing is erased for the children.
LEMMA NothingToErase ==
    ASSUME NEW q \in Seq(Request), NEW p \in Dirs, NEW ps \in Seq(ChildrenOf(p)),
           DifferentUpTo(q, p, Len(q))
    PROVE  Kept(q, ps) = q
<1>1. ASSUME NEW k \in DOMAIN ps, NEW i \in Erased(q, ps[k])
      PROVE  FALSE
  <2>1. ps[k] \in ChildrenOf(p) /\ ps[k] \in Dirs
    BY DEF ChildrenOf
  <2>2. i \in DOMAIN q /\ DOMAIN q = 1 .. Len(q)
    BY <1>1 DEF Erased
  <2>3. q[i].path \in Dirs /\ IsPrefix(ps[k], q[i].path)
    BY <1>1, <2>1, <2>2, ErasedCases
  <2>4. ~ IsPrefix(p, q[i].path)
    <3>1. CompareTo(p, q[i].path) = "DIFFERENT"
      BY <2>2 DEF DifferentUpTo
    <3> QED
      BY <2>3, <3>1, CompareCases
  <2>5. IsPrefix(p, ps[k])
    BY <2>1, ChildIsBelow DEF IsStrictPrefix
  <2>6. p \in Seq(Name) /\ ps[k] \in Seq(Name) /\ q[i].path \in Seq(Name)
    BY <2>1, <2>3, DirsAssumption
  <2> QED
    BY <2>3, <2>4, <2>5, <2>6, PrefixOrder
<1>2. ErasedByAll(q, ps) = {}
  BY <1>1 DEF ErasedByAll
<1> QED
  BY <1>2, PickAll DEF Kept

LEMMA LoopAddChildren ==
    ASSUME NEW q \in Seq(Request), NEW ps \in Siblings,
           NEW recursive \in BOOLEAN, NEW toBack \in BOOLEAN
    PROVE  AddChildrenToQueue(q, ps, recursive, toBack) =
             LoopAddChildrenToQueue(q, ps, recursive, toBack)
<1>1. PICK p \in Dirs : /\ ps \in Seq(ChildrenOf(p)) /\ ps \in Seq(Dirs)
                        /\ Len(ps) \in Nat \ {0}
                        /\ Front(ps[1]) = p
                        /\ Unrelated(ps)
  BY SiblingsShape
<1> DEFINE found == LookedFor(q, p)[Len(q)]
           l == Len(q)
<1>2. found = Decided(q, p, l)
  BY LookedForClosed
<1>3. IsCovered(q, p) <=> CoveredUpTo(q, p, l)
  <2>1. DOMAIN q = 1 .. l
    OBVIOUS
  <2> QED
    BY <2>1 DEF IsCovered, CoveredUpTo, DifferentUpTo
<1>4. CoveredUpTo(q, p, l) => ~ DifferentUpTo(q, p, l)
  BY DEF CoveredUpTo, DifferentUpTo
<1> HIDE DEF found, l
<1>5. CASE IsCovered(q, p)
  <2>1. found = "covered"
    BY <1>2, <1>3, <1>4, <1>5 DEF Decided
  <2>2. AddChildrenToQueue(q, ps, recursive, toBack) = q
    BY <1>1, <1>5 DEF AddChildrenToQueue
  <2> QED
    BY <1>1, <2>1, <2>2 DEF LoopAddChildrenToQueue, found
<1>6. CASE DifferentUpTo(q, p, l)
  <2>1. found = "batch" /\ ~ IsCovered(q, p)
    BY <1>2, <1>3, <1>4, <1>6 DEF Decided
  <2>2. Kept(q, ps) = q
    BY <1>1, <1>6, NothingToErase DEF l
  <2>3. AddChildrenToQueue(q, ps, recursive, toBack) = AddAll(q, ps, recursive, toBack)
    BY <1>1, <2>1 DEF AddChildrenToQueue
  <2>4. AddAll(q, ps, recursive, toBack) =
          IF toBack THEN q \o New(ps, recursive) ELSE Reverse(New(ps, recursive)) \o q
    <3>1. AddAll(q, ps, recursive, toBack) =
            IF toBack THEN Kept(q, ps) \o New(ps, recursive)
            ELSE Reverse(New(ps, recursive)) \o Kept(q, ps)
      BY <1>1, AddAllShape
    <3> QED
      BY <2>2, <3>1
  <2>5. Pushed(q, ps, recursive, toBack)[Len(ps)] = AddAll(q, ps, recursive, toBack)
    BY <1>1, <2>4, PushedClosed
  <2>6. LoopAddChildrenToQueue(q, ps, recursive, toBack) =
          Pushed(q, ps, recursive, toBack)[Len(ps)]
    BY <1>1, <2>1 DEF LoopAddChildrenToQueue, found
  <2> QED
    BY <2>3, <2>5, <2>6
<1>7. CASE ~ IsCovered(q, p) /\ ~ DifferentUpTo(q, p, l)
  <2>1. found = "separately"
    BY <1>2, <1>3, <1>7 DEF Decided
  <2>2. AddChildrenToQueue(q, ps, recursive, toBack) = AddAll(q, ps, recursive, toBack)
    BY <1>1, <1>7 DEF AddChildrenToQueue
  <2>3. AddedEach(q, ps, recursive, toBack)[Len(ps)] = AddAll(q, ps, recursive, toBack)
    BY <1>1, AddedEachClosed
  <2>4. LoopAddChildrenToQueue(q, ps, recursive, toBack) =
          AddedEach(q, ps, recursive, toBack)[Len(ps)]
    BY <1>1, <2>1 DEF LoopAddChildrenToQueue, found
  <2> QED
    BY <2>2, <2>3, <2>4
<1> QED
  BY <1>5, <1>6, <1>7

\* addToQueue and addChildrenToQueue do in their loops what the closed forms say,
\* in every queue of requests.
LEMMA LoopsAgreeOnQueues ==
    scanQueue \in Seq(Request) => LoopsAgree
BY LoopAddOne, LoopAddChildren DEF LoopsAgree

-----------------------------------------------------------------------------
(* Facts about the data *)

LEMMA DirsFacts ==
    /\ Root \in Dirs
    /\ IsFiniteSet(Dirs)
    /\ \A p : ChildrenOf(p) \subseteq Dirs
    /\ Request = [path : Dirs, recursive : BOOLEAN]
<1>1. PICK p \in Dirs : p \in Seq(Name)
  BY DirsAssumption
<1>2. Len(p) \in Nat /\ SubSeq(p, 1, 0) = << >>
  BY <1>1
<1>3. SubSeq(p, 1, 0) \in Dirs
  BY <1>1, <1>2, DirsAssumption
<1> QED
  BY <1>2, <1>3, DirsAssumption DEF Root, ChildrenOf, Request

LEMMA FrontInDirs ==
    ASSUME NEW p \in Dirs, p # Root
    PROVE  Front(p) \in Dirs
<1>1. p \in Seq(Name) /\ p # << >>
  BY DirsAssumption DEF Root
<1>2. Len(p) - 1 \in 0 .. Len(p)
  BY <1>1
<1> QED
  BY <1>2, DirsAssumption DEF Front

LEMMA SeqWiden ==
    ASSUME NEW S, NEW T, S \subseteq T, NEW s \in Seq(S)
    PROVE  s \in Seq(T)
OBVIOUS

\* An arrangement of a set is a sequence of its members, none of them twice.
LEMMA Arrangement ==
    ASSUME NEW S, IsFiniteSet(S), NEW s \in SetToSeqs(S)
    PROVE  s \in Seq(S) /\ IsInjective(s)
<1>1. Cardinality(S) \in Nat
  BY FS_CardinalityType
<1>2. s \in [1 .. Cardinality(S) -> S]
  BY DEF SetToSeqs
<1>3. \A i, j \in 1 .. Cardinality(S) : i # j => s[i] # s[j]
  BY DEF SetToSeqs
<1>4. s \in Seq(S)
  BY <1>1, <1>2
<1> QED
  BY <1>2, <1>3, <1>4 DEF IsInjective

LEMMA ArrangedDirs ==
    ASSUME NEW S, NEW T \in SUBSET Dirs, S \subseteq T, NEW s \in SetToSeqs(S)
    PROVE  s \in Seq(T) /\ IsInjective(s)
<1>1. IsFiniteSet(S)
  BY DirsFacts, FS_Subset
<1> QED
  BY <1>1, Arrangement, SeqWiden

LEMMA ArrangedAll ==
    ASSUME NEW S \in SUBSET Dirs, NEW s \in SetToSeqs(S)
    PROVE  ToSet(s) = S
<1>1. IsFiniteSet(S) /\ Cardinality(S) \in Nat
  BY DirsFacts, FS_Subset, FS_CardinalityType
<1> DEFINE N == 1 .. Cardinality(S)
<1>2. IsFiniteSet(N) /\ Cardinality(N) = Cardinality(S)
  BY <1>1, FS_Interval
<1>3. s \in Injection(N, S)
  BY DEF SetToSeqs, Injection, IsInjective
<1>4. s \in Surjection(N, S)
  BY <1>1, <1>2, <1>3, FS_Injection
<1> QED
  BY <1>4 DEF Surjection, ToSet

LEMMA NoPaths == << >> \in Seq(Dirs) /\ IsInjective(<< >>)
BY DEF IsInjective

-----------------------------------------------------------------------------
(* Types. The local variables of worker_run are about the request in hand, so *)
(* that they must be empty when the next one is taken.                        *)

Locals ==
    /\ wpc # "read" => unread = {}
    /\ wpc \notin {"read", "store"} => scannedEntries = {}
    /\ wpc \notin {"store", "paused", "requeue"} => newPaths = << >>
    /\ IsInjective(newPaths)

Typed == TypeOK /\ Locals

LEMMA TypedInit == Init => Typed
<1> SUFFICES ASSUME Init
             PROVE  Typed
  OBVIOUS
<1>1. Root \in Dirs /\ [path |-> Root, recursive |-> TRUE] \in Request
  BY DirsFacts
<1>2. disk \subseteq Dirs
  BY DEF Init
<1>3. scanQueue \in Seq(Request) /\ (\A S : << >> \in Seq(S))
  BY <1>1 DEF Init
<1>4. TypeOK
  <2>1. /\ unread = {} /\ scannedEntries = {} /\ missed = {} /\ db = {Root}
        /\ newPaths = << >> /\ inotify = << >> /\ eventQueue = << >>
        /\ watched \subseteq {Root}
    BY DEF Init
  <2>2. /\ scannerStatus \in Status /\ runWorker \in BOOLEAN
        /\ wpc \in WorkerPc /\ cpc \in ClientPc
        /\ changes \in Nat /\ ops \in Nat /\ storesSince \in Nat
        /\ watcherLimitExceeded \in BOOLEAN
        /\ scanMtx \in {"free", "worker", "client"}
        /\ currentScannedPath \in Dirs \union {NoPath}
    BY DEF Init, Status, WorkerPc, ClientPc
  <2>3. scanRequest \in Request /\ folder_path \in Dirs
    BY <1>1 DEF Init
  <2> QED
    BY <1>1, <1>2, <1>3, <2>1, <2>2, <2>3 DEF TypeOK
<1>5. Locals
  BY NoPaths DEF Init, Locals
<1> QED
  BY <1>4, <1>5 DEF Typed

LEMMA TypedWorker ==
    ASSUME Typed, Worker
    PROVE  Typed'
<1> USE DEF queueVars, flagVars, dbVars, listVars, clientVars, osVars, history,
            GoTo, Lock, Unlock, Typed, Locals
<1>1. CASE Loop
  BY <1>1 DEF Loop, TypeOK, WorkerPc
<1>2. CASE LockQueue
  BY <1>2 DEF LockQueue, TypeOK, WorkerPc
<1>3. CASE IdleWait
  BY <1>3 DEF IdleWait, TypeOK, WorkerPc
<1>4. CASE PopEvent
  <2>1. Head(eventQueue) \in Dirs /\ Tail(eventQueue) \in Seq(Dirs)
    BY <1>4 DEF PopEvent, TypeOK
  <2>2. scanQueue' \in Seq(Request)
    BY <1>4, <2>1, AddOne DEF PopEvent, TypeOK
  <2>3. missed' \subseteq Dirs
    BY <1>4 DEF PopEvent, TypeOK, Owed
  <2> QED
    BY <1>4, <2>1, <2>2, <2>3 DEF PopEvent, TypeOK, Status
<1>5. CASE NoMoreEvents
  BY <1>5 DEF NoMoreEvents, TypeOK, WorkerPc
<1>6. CASE NextRequest
  <2>1. CASE scanQueue # << >> /\ scannerStatus # "IDLE"
    <3>1. Head(scanQueue) \in Request /\ Tail(scanQueue) \in Seq(Request)
      BY <2>1 DEF TypeOK
    <3>2. Head(scanQueue).path \in Dirs
      BY <3>1 DEF Request
    <3>3. \A S : << >> \in Seq(S)
      OBVIOUS
    <3> QED
      BY <1>6, <2>1, <3>1, <3>2, <3>3 DEF NextRequest, TypeOK, WorkerPc
  <2>2. CASE ~ (scanQueue # << >> /\ scannerStatus # "IDLE")
    BY <1>6, <2>2 DEF NextRequest, TypeOK, WorkerPc
  <2> QED
    BY <2>1, <2>2
<1>7. CASE AddDir
  <2>1. watched' \subseteq Dirs /\ watcherLimitExceeded' \in BOOLEAN
    BY <1>7, DirsFacts DEF AddDir, TypeOK
  <2> QED
    BY <1>7, <2>1 DEF AddDir, TypeOK, WorkerPc
<1>8. CASE OpenDir
  BY <1>8 DEF OpenDir, TypeOK, WorkerPc
<1>9. CASE ReadEntry
  BY <1>9 DEF ReadEntry, TypeOK, WorkerPc
<1>10. CASE EndListing
  <2>1. CASE scannerStatus = "STOPPING"
    BY <1>10, <2>1 DEF EndListing, TypeOK, WorkerPc, Owed
  <2>2. CASE scannerStatus # "STOPPING"
    <3>1. /\ newPaths' \in Seq(ChildrenOf(scanRequest.path))
          /\ IsInjective(newPaths')
      <4>1. CASE scanRequest.recursive
        BY <1>10, <2>2, <4>1, ArrangedDirs, DirsFacts DEF EndListing, TypeOK
      <4>2. CASE ~ scanRequest.recursive
        BY <1>10, <2>2, <4>2, NoPaths DEF EndListing
      <4> QED
        BY <4>1, <4>2
    <3> QED
      BY <1>10, <2>2, <3>1 DEF EndListing, TypeOK, WorkerPc
  <2> QED
    BY <2>1, <2>2
<1>11. CASE SetChildren
  <2>1. db' \subseteq Dirs
    BY <1>11, DirsFacts DEF SetChildren, StoredChildren, TypeOK
  <2>2. /\ newPaths' \in Seq(ChildrenOf(scanRequest.path))
        /\ IsInjective(newPaths')
    <3>1. CASE scanRequest.path \in db /\ ~ scanRequest.recursive
      BY <1>11, <3>1, ArrangedDirs, DirsFacts DEF SetChildren, TypeOK
    <3>2. CASE ~ (scanRequest.path \in db /\ ~ scanRequest.recursive)
      BY <1>11, <3>2 DEF SetChildren, TypeOK
    <3> QED
      BY <3>1, <3>2
  <2>3. storesSince' \in Nat
    BY <1>11 DEF SetChildren, TypeOK
  <2> QED
    BY <1>11, <2>1, <2>2, <2>3 DEF SetChildren, TypeOK, WorkerPc
<1>12. CASE WaitWhilePaused
  BY <1>12 DEF WaitWhilePaused, TypeOK, WorkerPc
<1>13. CASE Requeue
  <2>1. newPaths \in Seq(Dirs)
    BY SeqWiden, DirsFacts DEF TypeOK
  <2>2. scanQueue' \in Seq(Request)
    BY <1>13, <2>1, AddChildrenShape DEF Requeue, TypeOK
  <2>3. newPaths' \in Seq(ChildrenOf(scanRequest.path)) /\ IsInjective(newPaths')
    BY <1>13, NoPaths DEF Requeue
  <2> QED
    BY <1>13, <2>2, <2>3 DEF Requeue, TypeOK, WorkerPc
<1>14. CASE BreakLock
  BY <1>14 DEF BreakLock, TypeOK, WorkerPc
<1>15. CASE Finish
  <2>1. scanQueue' \in Seq(Request) /\ missed' \subseteq Dirs
    BY <1>15 DEF Finish, TypeOK, Owed
  <2> QED
    BY <1>15, <2>1 DEF Finish, TypeOK, WorkerPc
<1>16. CASE Report
  BY <1>16 DEF Report, TypeOK, WorkerPc, Status
<1> QED
  BY <1>1, <1>2, <1>3, <1>4, <1>5, <1>6, <1>7, <1>8, <1>9, <1>10, <1>11, <1>12,
     <1>13, <1>14, <1>15, <1>16 DEF Worker

LEMMA TypedClient ==
    ASSUME Typed, Client
    PROVE  Typed'
<1> USE DEF queueVars, flagVars, dbVars, listVars, clientVars, osVars, history,
            clientFrame, Lock, Unlock, StartCall, Typed, Locals
<1>1. CASE OrderBegin
  BY <1>1 DEF OrderBegin, TypeOK, ClientPc
<1>2. CASE StopIdle
  BY <1>2 DEF StopIdle, TypeOK, ClientPc
<1>3. CASE RescanBegin
  BY <1>3 DEF RescanBegin, TypeOK, ClientPc, Status
<1>4. CASE GetWatcherLimits
  <2>1. /\ watcherLimitExceeded' \in BOOLEAN
        /\ cpc' \in ClientPc /\ ops' = ops + 1
        /\ UNCHANGED <<scanQueue, flagVars, scanMtx, folder_path, storesSince,
                       clientFrame>>
    BY <1>4 DEF GetWatcherLimits, ClientPc
  <2> QED
    BY <2>1 DEF TypeOK
<1>5. CASE DestroyBegin
  <2>1. /\ runWorker' \in BOOLEAN
        /\ cpc' \in ClientPc /\ ops' = ops + 1
        /\ UNCHANGED <<scanQueue, scannerStatus, scanMtx, watcherLimitExceeded,
                       folder_path, storesSince, clientFrame>>
    BY <1>5 DEF DestroyBegin, ClientPc
  <2> QED
    BY <2>1 DEF TypeOK
<1>6. CASE OrderSet
  BY <1>6 DEF OrderSet, PauseSet, ResumeSet, StopSet, Ordered, TypeOK, ClientPc, Status
<1>7. CASE StopReturn
  BY <1>7 DEF StopReturn, TypeOK, ClientPc
<1>8. CASE RescanPush
  <2>1. scanQueue' \in Seq(Request)
    BY <1>8, AddOne DEF RescanPush, TypeOK
  <2> QED
    BY <1>8, <2>1, DirsFacts DEF RescanPush, TypeOK, ClientPc
<1>9. CASE DestroySet
  BY <1>9 DEF DestroySet, Ordered, TypeOK, ClientPc, Status
<1>10. CASE Join
  BY <1>10 DEF Join, TypeOK, ClientPc
<1> QED
  BY <1>1, <1>2, <1>3, <1>4, <1>5, <1>6, <1>7, <1>8, <1>9, <1>10
  DEF Client, ClientGoesOn

LEMMA ChangedTyped ==
    ASSUME Typed, NEW dir \in Dirs, Changed(dir)
    PROVE  inotify' \in Seq(Dirs) /\ missed' \subseteq Dirs /\ changes' \in Nat
<1>1. inotify \in Seq(Dirs) /\ missed \subseteq Dirs /\ changes \in Nat
  BY DEF Typed, TypeOK
<1>2. CASE dir \in watched
  <2>1. inotify' = Append(inotify, dir)
    BY <1>2 DEF Changed
  <2>2. inotify' \in Seq(Dirs)
    BY <1>1, <2>1
  <2> QED
    BY <1>1, <1>2, <2>2 DEF Changed
<1>3. CASE dir \notin watched
  BY <1>1, <1>3 DEF Changed
<1> QED
  BY <1>2, <1>3

LEMMA TypedSystem ==
    ASSUME Typed, Mkdir \/ Rmdir \/ ReadEvents
    PROVE  Typed'
<1> USE DEF queueVars, flagVars, dbVars, listVars, clientVars, history, Typed, Locals
<1>1. CASE Mkdir
  <2>1. PICK p \in Dirs \ disk : /\ Front(p) \in disk
                                /\ disk' = disk \union {p}
                                /\ Changed(Front(p))
    BY <1>1 DEF Mkdir
  <2>2. Front(p) \in Dirs
    BY <2>1 DEF TypeOK
  <2>3. inotify' \in Seq(Dirs) /\ missed' \subseteq Dirs /\ changes' \in Nat
    BY <2>1, <2>2, ChangedTyped
  <2> QED
    BY <1>1, <2>1, <2>3 DEF Mkdir, TypeOK
<1>2. CASE Rmdir
  <2>1. PICK p \in disk \ {Root} : /\ disk' = disk \ {p}
                                  /\ watched' = watched \ {p}
                                  /\ Changed(Front(p))
    BY <1>2 DEF Rmdir
  <2>2. Front(p) \in Dirs
    BY <2>1, FrontInDirs DEF TypeOK
  <2>3. inotify' \in Seq(Dirs) /\ missed' \subseteq Dirs /\ changes' \in Nat
    BY <2>1, <2>2, ChangedTyped
  <2> QED
    BY <1>2, <2>1, <2>3 DEF Rmdir, TypeOK
<1>3. CASE ReadEvents
  <2>1. inotify' \in Seq(Dirs) /\ eventQueue' \in Seq(Dirs)
    BY <1>3 DEF ReadEvents, TypeOK
  <2> QED
    BY <1>3, <2>1 DEF ReadEvents, TypeOK
<1> QED
  BY <1>1, <1>2, <1>3

LEMMA TypedStutter ==
    ASSUME Typed, UNCHANGED vars
    PROVE  Typed'
BY DEF Typed, TypeOK, Locals, vars, queueVars, flagVars, dbVars, listVars,
       clientVars, osVars, history

LEMMA TypedQueue ==
    ASSUME Typed
    PROVE  /\ scanQueue \in Seq(Request)
           /\ scanRequest \in Request /\ scanRequest.path \in Dirs
<1>1. scanQueue \in Seq(Request) /\ scanRequest \in Request
  BY DEF Typed, TypeOK
<1> QED
  BY <1>1 DEF Request

LEMMA TypedAlways == Spec => []Typed
<1>1. Typed /\ [Next]_vars => Typed'
  BY TypedWorker, TypedClient, TypedSystem, TypedStutter DEF Next, Terminated
<1> QED
  BY <1>1, TypedInit, PTL DEF Spec

\* Every variable keeps its type; the listing in hand is one of the children of
\* the directory of the request in hand.
THEOREM TypeCorrect == Spec => []TypeOK
<1>1. Typed => TypeOK
  BY DEF Typed
<1> QED
  BY <1>1, TypedAlways, PTL

-----------------------------------------------------------------------------
(* The loops *)

\* In every queue that the scanner can have, addToQueue and addChildrenToQueue do
\* in their loops, request by request, what the closed forms say that all the
\* other theorems rest on.
THEOREM LoopsAlwaysAgree == Spec => []LoopsAgree
<1>1. Typed => scanQueue \in Seq(Request)
  BY TypedQueue DEF Typed, TypeOK
<1>2. Typed => LoopsAgree
  BY <1>1, LoopsAgreeOnQueues
<1> QED
  BY <1>2, TypedAlways, PTL

-----------------------------------------------------------------------------
(* No directory is queued twice. Directories are queued in three places, one  *)
(* at a time or as the children of one directory, which differ (Locals).      *)

LEMMA UniqueStep ==
    ASSUME Typed, QueueUnique, Next
    PROVE  QueueUnique'
<1> USE DEF queueVars, flagVars, dbVars, listVars, clientVars, osVars, history,
            clientFrame, QueueUnique
<1>1. scanQueue \in Seq(Request)
  BY DEF Typed, TypeOK
<1>2. CASE PopEvent
  <2>1. Head(eventQueue) \in Dirs
    BY <1>2 DEF PopEvent, Typed, TypeOK
  <2> QED
    BY <1>1, <1>2, <2>1, AddOne DEF PopEvent
<1>3. CASE NextRequest
  <2>1. CASE scanQueue # << >> /\ scanQueue' = Tail(scanQueue)
    <3>1. /\ Len(scanQueue) \in Nat /\ DOMAIN scanQueue = 1 .. Len(scanQueue)
          /\ DOMAIN scanQueue' = 1 .. Len(scanQueue) - 1
          /\ \A i \in DOMAIN scanQueue' : /\ i + 1 \in DOMAIN scanQueue
                                          /\ scanQueue'[i] = scanQueue[i + 1]
      BY <1>1, <2>1
    <3>2. \A i, j \in DOMAIN scanQueue' : i + 1 = j + 1 => i = j
      BY <3>1
    <3> QED
      BY <3>1, <3>2 DEF UniquePaths
  <2> QED
    BY <1>3, <2>1 DEF NextRequest
<1>4. CASE Requeue
  <2>1. newPaths \in Seq(Dirs) /\ IsInjective(newPaths)
    BY SeqWiden, DirsFacts DEF Typed, TypeOK, Locals
  <2> QED
    BY <1>1, <1>4, <2>1, AddChildrenShape DEF Requeue
<1>5. CASE Finish
  BY <1>5 DEF Finish, UniquePaths
<1>6. CASE RescanPush
  BY <1>1, <1>6, AddOne DEF RescanPush, Typed, TypeOK
<1>7. CASE UNCHANGED scanQueue
  BY <1>7
<1> QED
  BY <1>2, <1>3, <1>4, <1>5, <1>6, <1>7
  DEF Next, Worker, Client, ClientGoesOn, Loop, LockQueue, IdleWait, NoMoreEvents,
      AddDir, OpenDir, ReadEntry, EndListing, SetChildren, WaitWhilePaused,
      BreakLock, Report, OrderBegin, StopIdle, OrderSet, StopReturn, RescanBegin,
      GetWatcherLimits, DestroyBegin, DestroySet, Join, Mkdir, Rmdir, ReadEvents,
      Terminated, vars

\* No directory is queued twice, whoever queues it.
THEOREM QueueUniqueAlways == Spec => []QueueUnique
<1>1. Init => QueueUnique
  BY DEF Init, QueueUnique, UniquePaths
<1>2. QueueUnique /\ UNCHANGED vars => QueueUnique'
  BY DEF QueueUnique, vars, queueVars
<1> QED
  BY <1>1, <1>2, UniqueStep, TypedAlways, PTL DEF Spec

-----------------------------------------------------------------------------
(* The mutex. MutexHeld is inductive by itself. *)

LEMMA MutexStep ==
    ASSUME Typed, MutexHeld, Next
    PROVE  MutexHeld'
<1> USE DEF queueVars, flagVars, dbVars, listVars, clientVars, osVars, history,
            clientFrame, GoTo, Lock, Unlock, StartCall, Ordered, MutexHeld
<1>1. wpc \in WorkerPc /\ cpc \in ClientPc
  BY DEF Typed, TypeOK
<1>2. CASE Worker
  <2>1. CASE Loop \/ LockQueue \/ IdleWait \/ PopEvent \/ NoMoreEvents
    BY <2>1 DEF Loop, LockQueue, IdleWait, PopEvent, NoMoreEvents
  <2>2. CASE NextRequest \/ AddDir \/ OpenDir \/ ReadEntry \/ EndListing
    BY <2>2 DEF NextRequest, AddDir, OpenDir, ReadEntry, EndListing
  <2>3. CASE SetChildren \/ WaitWhilePaused \/ Requeue \/ BreakLock \/ Finish \/ Report
    BY <2>3 DEF SetChildren, WaitWhilePaused, Requeue, BreakLock, Finish, Report
  <2> QED
    BY <1>2, <2>1, <2>2, <2>3 DEF Worker
<1>3. CASE Client
  <2>1. CASE OrderBegin \/ StopIdle \/ RescanBegin \/ GetWatcherLimits \/ DestroyBegin
    BY <2>1 DEF OrderBegin, StopIdle, RescanBegin, GetWatcherLimits, DestroyBegin
  <2>2. CASE ClientGoesOn
    BY <2>2 DEF ClientGoesOn, OrderSet, PauseSet, ResumeSet, StopSet, StopReturn,
                RescanPush, DestroySet, Join
  <2> QED
    BY <1>3, <2>1, <2>2 DEF Client
<1>4. CASE Mkdir \/ Rmdir \/ ReadEvents \/ Terminated
  BY <1>4 DEF Mkdir, Rmdir, ReadEvents, Terminated, vars
<1> QED
  BY <1>2, <1>3, <1>4 DEF Next

\* The critical sections of the worker and of the client exclude each other.
THEOREM MutexHeldAlways == Spec => []MutexHeld
<1>1. Init => MutexHeld
  BY DEF Init, MutexHeld
<1>2. MutexHeld /\ UNCHANGED vars => MutexHeld'
  BY DEF MutexHeld, vars, clientVars
<1> QED
  BY <1>1, <1>2, MutexStep, TypedAlways, PTL DEF Spec

-----------------------------------------------------------------------------
(* Orders. One directory may be stored after an order to pause, and then the  *)
(* worker is in its waiting loop; or one after an order to stop, and then it  *)
(* is not about to store another, because that is only decided when the order *)
(* is not there.                                                              *)

OrderInv ==
    /\ scannerStatus = "SCAN_PAUSED" /\ storesSince # 0 =>
         storesSince = 1 /\ wpc = "paused"
    /\ scannerStatus = "STOPPING" /\ storesSince # 0 =>
         storesSince = 1 /\ wpc # "store"

LEMMA OrderStep ==
    ASSUME Typed, OrderInv, Next
    PROVE  OrderInv'
<1> USE DEF queueVars, flagVars, dbVars, listVars, clientVars, osVars, history,
            clientFrame, GoTo, StartCall, Ordered, OrderInv
<1>1. storesSince \in Nat
  BY DEF Typed, TypeOK
<1>2. CASE Worker
  <2>1. CASE Loop \/ LockQueue \/ IdleWait \/ PopEvent \/ NoMoreEvents
    BY <2>1 DEF Loop, LockQueue, IdleWait, PopEvent, NoMoreEvents
  <2>2. CASE NextRequest \/ AddDir \/ OpenDir \/ ReadEntry \/ EndListing
    BY <2>2 DEF NextRequest, AddDir, OpenDir, ReadEntry, EndListing
  <2>3. CASE SetChildren
    BY <1>1, <2>3 DEF SetChildren
  <2>4. CASE WaitWhilePaused \/ Requeue \/ BreakLock \/ Finish \/ Report
    BY <2>4 DEF WaitWhilePaused, Requeue, BreakLock, Finish, Report
  <2> QED
    BY <1>2, <2>1, <2>2, <2>3, <2>4 DEF Worker
<1>3. CASE Client
  <2>1. CASE OrderBegin \/ StopIdle \/ RescanBegin \/ GetWatcherLimits \/ DestroyBegin
    BY <2>1 DEF OrderBegin, StopIdle, RescanBegin, GetWatcherLimits, DestroyBegin
  <2>2. CASE ClientGoesOn
    BY <2>2 DEF ClientGoesOn, OrderSet, PauseSet, ResumeSet, StopSet, StopReturn,
                RescanPush, DestroySet, Join
  <2> QED
    BY <1>3, <2>1, <2>2 DEF Client
<1>4. CASE Mkdir \/ Rmdir \/ ReadEvents \/ Terminated
  BY <1>4 DEF Mkdir, Rmdir, ReadEvents, Terminated, vars
<1> QED
  BY <1>2, <1>3, <1>4 DEF Next

\* While an order to pause or to stop stands, at most one directory is stored.
THEOREM OrderHonouredAlways == Spec => []OrderHonoured
<1>1. Init => OrderInv
  BY DEF Init, OrderInv
<1>2. OrderInv /\ UNCHANGED vars => OrderInv'
  BY DEF OrderInv, vars, flagVars, history
<1>3. Typed /\ OrderInv => OrderHonoured
  BY DEF Typed, TypeOK, OrderInv, OrderHonoured
<1> QED
  BY <1>1, <1>2, <1>3, OrderStep, TypedAlways, PTL DEF Spec

-----------------------------------------------------------------------------
(* What the queue owes *)

\* No listing that was owed is lost when the directories found, or a rescan, are
\* queued, and these are owed with all below them.
THEOREM NothingOwedIsLost == Spec => NothingOwedLost
<1> DEFINE NoneLost(asked) ==
             /\ Owed(scanQueue) \subseteq Owed(scanQueue')
             /\ \A d \in Dirs : (\E p \in asked : IsPrefix(p, d)) => d \in Owed(scanQueue')
<1>1. ASSUME Typed, Requeue
      PROVE  NoneLost(ToSet(newPaths))
  <2>1. /\ scanQueue \in Seq(Request) /\ scanRequest.path \in Dirs
        /\ newPaths \in Seq(ChildrenOf(scanRequest.path))
    BY <1>1, TypedQueue DEF Typed, TypeOK
  <2>2. CASE newPaths = << >>
    BY <1>1, <2>2 DEF Requeue, ToSet
  <2>3. CASE newPaths # << >>
    <3>1. scanQueue' = AddChildrenToQueue(scanQueue, newPaths, TRUE, FALSE)
      BY <1>1, <2>3 DEF Requeue
    <3>2. /\ Owed(scanQueue) \subseteq Owed(scanQueue')
          /\ \A k \in DOMAIN newPaths : \A d \in Dirs :
               IsPrefix(newPaths[k], d) => d \in Owed(scanQueue')
      BY <2>1, <2>3, <3>1, AddChildrenOwed
    <3> QED
      BY <3>2 DEF ToSet
  <2> QED
    BY <2>2, <2>3
<1>2. ASSUME Typed, RescanPush
      PROVE  NoneLost({folder_path})
  <2>1. /\ scanQueue \in Seq(Request) /\ folder_path \in Dirs
        /\ scanQueue' = AddAll(scanQueue, <<folder_path>>, TRUE, FALSE)
    BY <1>2 DEF RescanPush, AddToQueue, Typed, TypeOK
  <2> DEFINE ps == <<folder_path>>
  <2>2. ps \in Seq(Dirs) /\ 1 \in DOMAIN ps /\ ps[1] = folder_path
    BY <2>1
  <2> HIDE DEF ps
  <2>3. /\ Owed(scanQueue) \subseteq Owed(AddAll(scanQueue, ps, TRUE, FALSE))
        /\ \A k \in DOMAIN ps : \A d \in Dirs :
             IsPrefix(ps[k], d) => d \in Owed(AddAll(scanQueue, ps, TRUE, FALSE))
    BY <2>1, <2>2, AddAllOwed
  <2> QED
    BY <2>1, <2>2, <2>3 DEF ps
<1>3. Typed /\ [Next]_vars =>
        [Requeue \/ RescanPush => NoneLost(IF Requeue THEN ToSet(newPaths) ELSE {folder_path})]_vars
  <2>1. ASSUME Typed, Requeue \/ RescanPush
        PROVE  NoneLost(IF Requeue THEN ToSet(newPaths) ELSE {folder_path})
    <3> HIDE DEF NoneLost
    <3>1. CASE Requeue
      BY <1>1, <2>1, <3>1
    <3>2. CASE ~ Requeue
      BY <1>2, <2>1, <3>2
    <3> QED
      BY <3>1, <3>2
  <2> HIDE DEF NoneLost
  <2> QED
    BY <2>1
<1> QED
  BY <1>3, TypedAlways, PTL DEF Spec, NothingOwedLost

-----------------------------------------------------------------------------
(* Coverage. It is inductive together with three facts: the database has with *)
(* a directory all those above it; a recursive listing about to be stored has *)
(* all its directories in newPaths but the excluded ones; and Locals. The     *)
(* steps that neither store nor list are covered by one lemma: what is noted  *)
(* somewhere stays noted, and a directory that changes on disk gets noted.    *)

Covered(d) == \/ IsExcluded(d)
              \/ KnownChildren(d) = ChildrenOf(d) \intersect disk
              \/ Pending(d)

DbClosed == \A d \in db : \A c \in Dirs : IsPrefix(c, d) => c \in db

StoreListed ==
    wpc = "store" =>
        IF scanRequest.recursive THEN scannedEntries \ Excluded \subseteq ToSet(newPaths)
        ELSE newPaths = << >>

CoverInv == Coverage /\ DbClosed /\ StoreListed

Noted == Owed(scanQueue) \union missed \union ToSet(inotify) \union ToSet(eventQueue)

LEMMA CoverInit == Init => CoverInv
<1> SUFFICES ASSUME Init
             PROVE  CoverInv
  OBVIOUS
<1>1. Root \in Dirs
  BY DirsFacts
<1>2. Owed(scanQueue) = Dirs
  <2>1. /\ [path |-> Root, recursive |-> TRUE] \in Request
        /\ scanQueue = <<[path |-> Root, recursive |-> TRUE]>>
    BY DirsFacts DEF Init
  <2>2. \A d \in Dirs : IsPrefix(Root, d)
    <3> SUFFICES ASSUME NEW d \in Dirs
                 PROVE  IsPrefix(Root, d)
      OBVIOUS
    <3>1. Root \in Seq(Name) /\ Len(Root) = 0 /\ 1 .. Len(Root) = {}
      BY DEF Root
    <3>2. d \in Seq(Name) /\ Len(d) \in Nat
      BY DirsAssumption
    <3>3. Len(Root) <= Len(d) /\ \A i \in 1 .. Len(Root) : Root[i] = d[i]
      BY <3>1, <3>2
    <3> QED
      BY <3>1, <3>2, <3>3, PrefixPointwise
  <2> QED
    BY <2>1, <2>2, OwedOne DEF Lists
<1>3. Coverage
  BY <1>1, <1>2 DEF Init, Coverage, Pending
<1>4. DbClosed
  <2> SUFFICES ASSUME NEW c \in Dirs, IsPrefix(c, Root)
               PROVE  c = Root
    BY DEF Init, DbClosed
  <2>1. c \in Seq(Name) /\ Len(c) \in Nat /\ Root \in Seq(Name) /\ Len(Root) = 0
    BY DirsAssumption DEF Root
  <2>2. Len(c) <= 0
    BY <2>1, PrefixPointwise
  <2> QED
    BY <2>1, <2>2 DEF Root
<1> QED
  BY <1>3, <1>4 DEF Init, StoreListed, CoverInv

LEMMA KeptStep ==
    ASSUME CoverInv, Noted \subseteq Noted',
           UNCHANGED <<db, scanRequest, listVars>>,
           \A d \in db : \/ ChildrenOf(d) \intersect disk' = ChildrenOf(d) \intersect disk
                         \/ d \in Noted',
           wpc \in {"addDir", "open"} => wpc' \in {"addDir", "open"},
           wpc = "read" <=> wpc' = "read",
           wpc = "store" <=> wpc' = "store"
    PROVE  CoverInv'
<1> USE DEF listVars
<1>1. ASSUME NEW d \in db
      PROVE  Covered(d)'
  <2>1. Covered(d)
    BY DEF CoverInv, Coverage, Covered
  <2>2. CASE d \in Noted'
    BY <2>2 DEF Covered, Pending, Noted
  <2>3. CASE ChildrenOf(d) \intersect disk' = ChildrenOf(d) \intersect disk
    <3>1. KnownChildren(d)' = KnownChildren(d)
      BY DEF KnownChildren
    <3>2. Pending(d) => Pending(d)'
      BY DEF Pending, Noted
    <3> QED
      BY <2>1, <2>3, <3>1, <3>2 DEF Covered, IsExcluded
  <2> QED
    BY <2>2, <2>3
<1>2. Coverage'
  BY <1>1 DEF Coverage, Covered
<1> QED
  BY <1>2 DEF CoverInv, DbClosed, StoreListed

\* Taking a request, reading entries
LEMMA CoverListing ==
    ASSUME Typed, CoverInv, NextRequest \/ OpenDir \/ ReadEntry
    PROVE  CoverInv'
<1> USE DEF queueVars, flagVars, dbVars, listVars, clientVars, osVars, history, GoTo
<1>1. scanRequest \in Request /\ scanRequest.path \in Dirs /\ scanQueue \in Seq(Request)
  BY TypedQueue
<1>2. \A d \in db : d \in Dirs /\ Covered(d)
  BY DEF Typed, TypeOK, CoverInv, Coverage, Covered
<1>3. CASE NextRequest
  <2>1. CASE scanQueue # << >> /\ scannerStatus # "IDLE"
    <3>1. /\ scanRequest' = Head(scanQueue) /\ scanQueue' = Tail(scanQueue)
          /\ wpc = "next" /\ wpc' = "addDir"
          /\ UNCHANGED <<db, disk, missed, inotify, eventQueue, newPaths>>
      BY <1>3, <2>1 DEF NextRequest
    <3>2. Owed(scanQueue) = Owed(<<scanRequest'>>) \union Owed(scanQueue')
      BY <1>1, <2>1, <3>1, OwedHead
    <3>3. ASSUME NEW d \in db
          PROVE  Covered(d)'
      <4>1. KnownChildren(d)' = KnownChildren(d)
        BY <3>1 DEF KnownChildren
      <4>2. Pending(d) => Pending(d)'
        BY <3>1, <3>2 DEF Pending
      <4> QED
        BY <1>2, <3>1, <4>1, <4>2 DEF Covered, IsExcluded
    <3> QED
      BY <3>1, <3>3 DEF CoverInv, Coverage, Covered, DbClosed, StoreListed
  <2>2. CASE ~ (scanQueue # << >> /\ scannerStatus # "IDLE")
    <3>1. /\ wpc = "next" /\ wpc' = "finish"
          /\ UNCHANGED <<scanQueue, scanRequest, db, listVars, disk, missed,
                         inotify, eventQueue>>
      BY <1>3, <2>2 DEF NextRequest
    <3>2. Noted' = Noted
      BY <3>1 DEF Noted
    <3> QED
      BY <3>1, <3>2, KeptStep
  <2> QED
    BY <2>1, <2>2
<1>4. CASE OpenDir
  <2> DEFINE path == scanRequest.path
  <2>1. /\ wpc = "open" /\ wpc' = "read"
        /\ unread' = ChildrenOf(path) \intersect disk /\ scannedEntries' = {}
        /\ missed' = missed \ {path}
        /\ UNCHANGED <<scanQueue, scanRequest, db, newPaths, disk, inotify, eventQueue>>
    BY <1>4 DEF OpenDir
  <2>2. ASSUME NEW d \in db
        PROVE  Covered(d)'
    <3>1. CASE d = path
      <4>1. KnownChildren(d)' = ChildrenOf(d) \intersect disk'
        BY <2>1, <3>1 DEF KnownChildren
      <4> QED
        BY <4>1 DEF Covered
    <3>2. CASE d # path
      <4>1. KnownChildren(d)' = KnownChildren(d)
        BY <2>1, <3>2 DEF KnownChildren
      <4>2. d \in Owed(<<scanRequest>>) => scanRequest.recursive /\ IsStrictPrefix(path, d)
        BY <1>1, <3>2, OwedOne DEF Lists, IsStrictPrefix
      <4>3. Pending(d) => Pending(d)'
        BY <2>1, <3>2, <4>2 DEF Pending
      <4> QED
        BY <1>2, <2>1, <4>1, <4>3 DEF Covered, IsExcluded
    <3> QED
      BY <3>1, <3>2
  <2> QED
    BY <2>1, <2>2 DEF CoverInv, Coverage, Covered, DbClosed, StoreListed
<1>5. CASE ReadEntry
  <2> DEFINE path == scanRequest.path
  <2>1. /\ wpc = "read" /\ wpc' = "read"
        /\ UNCHANGED <<scanQueue, scanRequest, db, newPaths, disk, inotify, eventQueue, missed>>
    BY <1>5 DEF ReadEntry
  <2>2. PICK entry \in unread :
          IF entry \in disk
            THEN /\ unread' = unread \ {entry}
                 /\ scannedEntries' = scannedEntries \union {entry}
            ELSE /\ unread' = {}
                 /\ UNCHANGED scannedEntries
    BY <1>5 DEF ReadEntry
  <2>3. entry \in disk => scannedEntries' \union unread' = scannedEntries \union unread
    BY <2>2
  <2>4. ASSUME NEW d \in db
        PROVE  Covered(d)'
    <3>1. Pending(d) => Pending(d)'
      BY <2>1 DEF Pending
    <3>2. CASE d # path \/ entry \in disk
      <4>1. KnownChildren(d)' = KnownChildren(d)
        BY <2>1, <2>3, <3>2 DEF KnownChildren
      <4> QED
        BY <1>2, <2>1, <3>1, <4>1 DEF Covered, IsExcluded
    <3>3. CASE d = path /\ entry \notin disk
      <4>1. entry \in KnownChildren(d)
        BY <2>1, <2>2, <3>3 DEF KnownChildren
      <4> QED
        BY <1>2, <2>1, <3>1, <3>3, <4>1 DEF Covered, IsExcluded
    <3> QED
      BY <3>2, <3>3
  <2> QED
    BY <2>1, <2>4 DEF CoverInv, Coverage, Covered, DbClosed, StoreListed
<1> QED
  BY <1>3, <1>4, <1>5

\* The listing ends: what the request was going to have listed below is in
\* newPaths, or was not found, or the whole request is missed.
LEMMA CoverEndListing ==
    ASSUME Typed, CoverInv, EndListing
    PROVE  CoverInv'
<1> USE DEF queueVars, flagVars, dbVars, listVars, clientVars, osVars, history, GoTo
<1> DEFINE path == scanRequest.path
<1>1. scanRequest \in Request /\ path \in Dirs /\ scanQueue \in Seq(Request)
  BY TypedQueue
<1>2. \A d \in db : d \in Dirs /\ Covered(d)
  BY DEF Typed, TypeOK, CoverInv, Coverage, Covered
<1>3. /\ wpc = "read" /\ unread = {}
      /\ UNCHANGED <<scanQueue, scanRequest, db, unread, disk, inotify, eventQueue>>
  BY DEF EndListing
<1>4. CASE scannerStatus = "STOPPING"
  <2>1. /\ wpc' = "break" /\ newPaths' = newPaths
        /\ missed' = missed \union Owed(<<scanRequest>>)
    BY <1>4 DEF EndListing
  <2>2. ASSUME NEW d \in db
        PROVE  Covered(d)'
    <3>1. CASE Lists(scanRequest, d)
      <4>1. d \in missed'
        BY <1>1, <1>2, <2>1, <3>1, OwedOne
      <4> QED
        BY <4>1 DEF Covered, Pending
    <3>2. CASE ~ Lists(scanRequest, d)
      <4>1. d # path /\ ~ (scanRequest.recursive /\ IsStrictPrefix(path, d))
        BY <3>2 DEF Lists, IsStrictPrefix
      <4>2. KnownChildren(d)' = KnownChildren(d)
        BY <1>3, <2>1, <4>1 DEF KnownChildren
      <4>3. Pending(d) => Pending(d)'
        BY <1>3, <2>1, <4>1 DEF Pending
      <4> QED
        BY <1>2, <1>3, <4>2, <4>3 DEF Covered, IsExcluded
    <3> QED
      BY <3>1, <3>2
  <2> QED
    BY <1>3, <2>1, <2>2 DEF CoverInv, Coverage, Covered, DbClosed, StoreListed
<1>5. CASE scannerStatus # "STOPPING"
  <2>1. /\ wpc' = "store" /\ newPaths = << >>
        /\ UNCHANGED <<scannedEntries, missed>>
        /\ newPaths' \in IF scanRequest.recursive
                            THEN SetToSeqs(scannedEntries \ Excluded) ELSE {<< >>}
    BY <1>3, <1>5 DEF EndListing, Typed, Locals
  <2>2. scanRequest.recursive => ToSet(newPaths') = scannedEntries \ Excluded
    <3>1. scannedEntries \subseteq Dirs
      BY DirsFacts DEF Typed, TypeOK
    <3> QED
      BY <2>1, <3>1, ArrangedAll
  <2>3. ASSUME NEW d \in db
        PROVE  Covered(d)'
    <3>1. KnownChildren(d)' = KnownChildren(d)
      BY <1>3, <2>1 DEF KnownChildren
    <3>2. CASE scanRequest.recursive /\ IsStrictPrefix(path, d)
      <4>1. PICK c \in ChildrenOf(path) : IsPrefix(c, d)
        BY <1>1, <1>2, <3>2, ChildOnTheWay
      <4>2. CASE c \notin scannedEntries
        BY <1>3, <2>1, <4>1, <4>2 DEF Covered, Pending
      <4>3. CASE c \in Excluded
        BY <4>1, <4>3 DEF Covered, IsExcluded
      <4>4. CASE c \in scannedEntries \ Excluded
        <5>1. \E i \in DOMAIN newPaths' : newPaths'[i] = c
          BY <2>2, <3>2, <4>4 DEF ToSet
        <5> QED
          BY <4>1, <5>1 DEF Covered, Pending
      <4> QED
        BY <4>2, <4>3, <4>4
    <3>3. CASE ~ (scanRequest.recursive /\ IsStrictPrefix(path, d))
      <4>1. Pending(d) => Pending(d)'
        <5>1. DOMAIN newPaths = {}
          BY <2>1
        <5> QED
          BY <1>3, <2>1, <3>3, <5>1 DEF Pending
      <4> QED
        BY <1>2, <1>3, <3>1, <4>1 DEF Covered, IsExcluded
    <3> QED
      BY <3>2, <3>3
  <2>4. StoreListed'
    BY <1>3, <2>1, <2>2 DEF StoreListed
  <2> QED
    BY <1>3, <2>3, <2>4 DEF CoverInv, Coverage, Covered, DbClosed
<1> QED
  BY <1>4, <1>5

\* The listing is stored: the new directories are in newPaths, and of what was not
\* found, and all below, nothing is left in the database.
LEMMA CoverSetChildren ==
    ASSUME Typed, CoverInv, SetChildren
    PROVE  CoverInv'
<1> USE DEF queueVars, flagVars, dbVars, listVars, clientVars, osVars, history, GoTo
<1> DEFINE path    == scanRequest.path
           gone    == (ChildrenOf(path) \intersect db) \ scannedEntries
           below   == {d \in Dirs : \E g \in gone : IsPrefix(g, d)}
<1>1. path \in Dirs /\ path \in Seq(Name)
  BY TypedQueue, DirsAssumption
<1>2. \A d \in db : d \in Dirs /\ d \in Seq(Name) /\ Covered(d)
  BY DirsAssumption DEF Typed, TypeOK, CoverInv, Coverage, Covered
<1>3. /\ wpc = "store" /\ wpc' = "paused" /\ unread = {}
      /\ scannedEntries \subseteq ChildrenOf(path)
      /\ UNCHANGED <<scanQueue, scanRequest, disk, inotify, eventQueue, missed>>
  BY DEF SetChildren, Typed, TypeOK, Locals
<1>4. ASSUME NEW d \in db, NEW c \in ChildrenOf(path), IsPrefix(c, d)
      PROVE  path \in db /\ c \in db
  <2>1. c \in Dirs /\ c \in Seq(Name) /\ IsPrefix(path, c)
    BY <1>1, ChildIsBelow, DirsAssumption DEF ChildrenOf, IsStrictPrefix
  <2>2. IsPrefix(path, d)
    BY <1>1, <1>2, <1>4, <2>1, PrefixOrder
  <2> QED
    BY <1>1, <1>4, <2>1, <2>2 DEF CoverInv, DbClosed
<1>5. CASE path \notin db
  <2>1. UNCHANGED <<db, newPaths>>
    BY <1>5 DEF SetChildren
  <2>2. ASSUME NEW d \in db
        PROVE  Covered(d)'
    <3>1. KnownChildren(d)' = KnownChildren(d)
      BY <1>3, <1>5, <2>1 DEF KnownChildren
    <3>2. Pending(d) => Pending(d)'
      BY <1>3, <1>4, <1>5, <2>1 DEF Pending
    <3> QED
      BY <1>2, <1>3, <3>1, <3>2 DEF Covered, IsExcluded
  <2> QED
    BY <1>3, <2>1, <2>2 DEF CoverInv, Coverage, Covered, DbClosed, StoreListed
<1>6. CASE path \in db
  <2>1. /\ db' = (db \ below) \union scannedEntries
        /\ newPaths' \in IF scanRequest.recursive
                            THEN {newPaths} ELSE SetToSeqs(scannedEntries \ db)
    BY <1>6 DEF SetChildren, StoredChildren
  <2>2. path \in db'
    BY <1>1, <1>6, <2>1, ChildIsBelow
  <2>3. ChildrenOf(path) \intersect db' = scannedEntries
    <3>1. \A c \in gone : c \in below
      BY <1>2, PrefixOrder
    <3> QED
      BY <1>3, <2>1, <3>1
  <2>4. ASSUME NEW d \in db \ below, d # path
        PROVE  ChildrenOf(d) \intersect db' = ChildrenOf(d) \intersect db
    <3>1. ASSUME NEW e \in ChildrenOf(d), e \in db
          PROVE  e \notin below
      <4> SUFFICES ASSUME NEW g \in gone, IsPrefix(g, e)
                   PROVE  FALSE
        OBVIOUS
      <4>1. g = e \/ IsPrefix(g, d)
        BY <1>2, AboveChild
      <4>2. g # e
        BY <2>4 DEF ChildrenOf
      <4> QED
        BY <1>2, <2>4, <4>1, <4>2
    <3>2. ChildrenOf(d) \intersect scannedEntries = {}
      BY <1>3, <2>4 DEF ChildrenOf
    <3> QED
      BY <2>1, <3>1, <3>2
  <2>5. ASSUME NEW d \in scannedEntries, d \notin db
        PROVE  IsExcluded(d) \/ \E i \in DOMAIN newPaths' : IsPrefix(newPaths'[i], d)
    <3>1. d \in Dirs /\ IsPrefix(d, d)
      BY <1>3, PrefixOrder, DirsAssumption DEF ChildrenOf
    <3>2. CASE d \in Excluded
      BY <3>1, <3>2 DEF IsExcluded
    <3>3. CASE d \in ToSet(newPaths')
      BY <3>1, <3>3 DEF ToSet
    <3>4. scanRequest.recursive => scannedEntries \ Excluded \subseteq ToSet(newPaths')
      BY <1>3, <2>1 DEF CoverInv, StoreListed
    <3>5. ~ scanRequest.recursive => ToSet(newPaths') = scannedEntries \ db
      BY <1>3, <2>1, ArrangedAll DEF ChildrenOf
    <3> QED
      BY <2>5, <3>2, <3>3, <3>4, <3>5
  <2>6. ASSUME NEW d \in db'
        PROVE  Covered(d)'
    <3>1. CASE d = path
      <4>1. KnownChildren(d)' = KnownChildren(d)
        BY <1>3, <2>3, <3>1 DEF KnownChildren
      <4>2. Pending(d) => Pending(d)'
        <5>1. \A c \in ChildrenOf(path) : ~ IsPrefix(c, d)
          BY <1>1, <3>1, ChildIsBelow
        <5>2. \A i \in DOMAIN newPaths : ~ IsPrefix(newPaths[i], d)
          <6>1. \A i \in DOMAIN newPaths : newPaths[i] \in ChildrenOf(path)
            BY DEF Typed, TypeOK
          <6> QED
            BY <5>1, <6>1
        <5> QED
          BY <1>3, <5>1, <5>2 DEF Pending
      <4> QED
        BY <1>2, <1>3, <1>6, <3>1, <4>1, <4>2 DEF Covered, IsExcluded
    <3>2. CASE d \in db \ below /\ d # path
      <4>1. KnownChildren(d)' = KnownChildren(d)
        BY <1>3, <2>4, <3>2 DEF KnownChildren
      <4>2. Pending(d) => Pending(d)'
        <5>1. \A c \in ChildrenOf(path) \ scannedEntries : ~ IsPrefix(c, d)
          BY <1>2, <1>4, <3>2
        <5>2. ASSUME NEW i \in DOMAIN newPaths, IsPrefix(newPaths[i], d)
              PROVE  newPaths' = newPaths
          <6>1. newPaths # << >>
            OBVIOUS
          <6> QED
            BY <1>3, <2>1, <6>1 DEF CoverInv, StoreListed
        <5> QED
          BY <1>3, <5>1, <5>2 DEF Pending
      <4> QED
        BY <1>2, <1>3, <3>2, <4>1, <4>2 DEF Covered, IsExcluded
    <3>3. CASE d \notin db
      BY <2>1, <2>5, <3>3 DEF Covered, IsExcluded, Pending
    <3>4. CASE d \in scannedEntries /\ d \in db
      <4>1. d \notin below
        <5> SUFFICES ASSUME NEW g \in gone, IsPrefix(g, d)
                     PROVE  FALSE
          OBVIOUS
        <5>1. g = d \/ IsPrefix(g, path)
          BY <1>1, <1>2, <1>3, <3>4, AboveChild
        <5> QED
          BY <1>1, <3>4, <5>1, ChildIsBelow
      <4>2. d # path
        BY <1>1, <1>3, <3>4, ChildIsBelow DEF IsStrictPrefix
      <4> QED
        BY <3>2, <3>4, <4>1, <4>2
    <3> QED
      BY <2>1, <3>1, <3>2, <3>3, <3>4
  <2>7. DbClosed'
    <3> SUFFICES ASSUME NEW d \in db', NEW c \in Dirs, IsPrefix(c, d)
                 PROVE  c \in db'
      BY DEF DbClosed
    <3>1. \A x \in db, y \in Dirs : IsPrefix(y, x) => y \in db
      BY DEF CoverInv, DbClosed
    <3>2. ASSUME NEW x \in db \ below, IsPrefix(c, x)
          PROVE  c \in db'
      <4>1. c \in db /\ c \in Seq(Name)
        BY <1>2, <3>1, <3>2
      <4>2. \A g \in gone : IsPrefix(g, c) => IsPrefix(g, x)
        BY <1>2, <3>2, <4>1, PrefixOrder
      <4>3. x \in Dirs /\ \A g \in gone : ~ IsPrefix(g, x)
        BY <1>2, <3>2
      <4> QED
        BY <2>1, <4>1, <4>2, <4>3
    <3>3. CASE d \in db \ below
      BY <3>2, <3>3
    <3>4. CASE d \in scannedEntries
      <4>1. c = d \/ IsPrefix(c, path)
        BY <1>1, <1>3, <3>4, AboveChild
      <4>2. path \in db \ below
        BY <1>1, <1>6, ChildIsBelow
      <4> QED
        BY <3>2, <4>1, <4>2
    <3> QED
      BY <2>1, <3>3, <3>4
  <2> QED
    BY <1>3, <2>6, <2>7 DEF CoverInv, Coverage, Covered, StoreListed
<1> QED
  BY <1>5, <1>6

\* The new directories are queued.
LEMMA CoverRequeue ==
    ASSUME Typed, CoverInv, Requeue
    PROVE  CoverInv'
<1> USE DEF queueVars, flagVars, dbVars, listVars, clientVars, osVars, history, GoTo
<1>1. /\ scanQueue \in Seq(Request) /\ scanRequest.path \in Dirs
      /\ newPaths \in Seq(ChildrenOf(scanRequest.path))
  BY TypedQueue DEF Typed, TypeOK
<1>2. \A d \in db : d \in Dirs /\ Covered(d)
  BY DEF Typed, TypeOK, CoverInv, Coverage, Covered
<1>3. /\ wpc = "requeue" /\ wpc' = "events"
      /\ UNCHANGED <<scanRequest, db, unread, scannedEntries, disk, missed,
                     inotify, eventQueue>>
  BY DEF Requeue
<1>4. /\ Owed(scanQueue) \subseteq Owed(scanQueue')
      /\ \A k \in DOMAIN newPaths : \A d \in Dirs :
           IsPrefix(newPaths[k], d) => d \in Owed(scanQueue')
  <2>1. CASE newPaths = << >>
    BY <2>1 DEF Requeue
  <2>2. CASE newPaths # << >>
    BY <1>1, <2>2, AddChildrenOwed DEF Requeue
  <2> QED
    BY <2>1, <2>2
<1>5. ASSUME NEW d \in db
      PROVE  Covered(d)'
  <2>1. KnownChildren(d)' = KnownChildren(d)
    BY <1>3 DEF KnownChildren
  <2>2. Pending(d) => Pending(d)'
    BY <1>2, <1>3, <1>4 DEF Pending
  <2> QED
    BY <1>2, <1>3, <2>1, <2>2 DEF Covered, IsExcluded
<1> QED
  BY <1>3, <1>5 DEF CoverInv, Coverage, Covered, DbClosed, StoreListed

\* The other steps of the worker: what is taken from eventQueue or thrown out of
\* the queue is queued or missed.
LEMMA CoverOtherWorker ==
    ASSUME Typed, CoverInv,
           \/ Loop \/ LockQueue \/ IdleWait \/ NoMoreEvents \/ AddDir
           \/ WaitWhilePaused \/ BreakLock \/ Report \/ PopEvent \/ Finish
    PROVE  CoverInv'
<1> USE DEF queueVars, flagVars, dbVars, listVars, clientVars, osVars, history, GoTo
<1>1. scanQueue \in Seq(Request)
  BY TypedQueue
<1>2. Noted \subseteq Noted'
  <2>1. CASE PopEvent
    <3>1. /\ eventQueue # << >> /\ eventQueue \in Seq(Dirs)
          /\ scanQueue' = AddToQueue(scanQueue, Head(eventQueue), FALSE, TRUE)
          /\ eventQueue' = Tail(eventQueue)
          /\ missed' = missed \union (Owed(scanQueue) \ Owed(scanQueue'))
          /\ inotify' = inotify
      BY <2>1 DEF PopEvent, Typed, TypeOK
    <3>2. Head(eventQueue) \in Dirs
      BY <3>1
    <3>3. Head(eventQueue) \in Owed(scanQueue')
      BY <1>1, <3>1, <3>2, AddOne
    <3>4. ToSet(eventQueue) = {Head(eventQueue)} \union ToSet(eventQueue')
      BY <3>1, HeadToSet
    <3> QED
      BY <3>1, <3>3, <3>4 DEF Noted
  <2>2. CASE Finish
    BY <2>2 DEF Finish, Noted
  <2>3. CASE UNCHANGED <<scanQueue, missed, inotify, eventQueue>>
    BY <2>3 DEF Noted
  <2> QED
    BY <2>1, <2>2, <2>3 DEF Loop, LockQueue, IdleWait, NoMoreEvents, AddDir,
       WaitWhilePaused, BreakLock, Report
<1>3. /\ UNCHANGED <<db, scanRequest, listVars, disk>>
      /\ wpc \in {"addDir", "open"} => wpc' \in {"addDir", "open"}
      /\ wpc = "read" <=> wpc' = "read"
      /\ wpc = "store" <=> wpc' = "store"
  BY DEF Loop, LockQueue, IdleWait, NoMoreEvents, AddDir, WaitWhilePaused,
         BreakLock, Report, PopEvent, Finish
<1> QED
  BY <1>2, <1>3, KeptStep

LEMMA CoverClient ==
    ASSUME Typed, CoverInv, Client
    PROVE  CoverInv'
<1> USE DEF queueVars, flagVars, dbVars, listVars, clientVars, osVars, history,
            clientFrame
<1>1. Owed(scanQueue) \subseteq Owed(scanQueue')
  <2>1. CASE RescanPush
    BY <2>1, TypedQueue, AddOne DEF RescanPush, Typed, TypeOK
  <2>2. CASE UNCHANGED scanQueue
    BY <2>2
  <2> QED
    BY <2>1, <2>2 DEF Client, ClientGoesOn, OrderBegin, StopIdle, RescanBegin,
       GetWatcherLimits, DestroyBegin, OrderSet, StopReturn, DestroySet, Join
<1>2. UNCHANGED clientFrame
  BY DEF Client, ClientGoesOn, OrderBegin, StopIdle, RescanBegin, RescanPush,
         GetWatcherLimits, DestroyBegin, OrderSet, StopReturn, DestroySet, Join
<1>3. Noted \subseteq Noted'
  BY <1>1, <1>2 DEF Noted
<1> QED
  BY <1>2, <1>3, KeptStep

LEMMA ChangedNoted ==
    ASSUME Typed, NEW dir \in Dirs, Changed(dir), UNCHANGED <<scanQueue, eventQueue>>
    PROVE  Noted \union {dir} \subseteq Noted'
<1>1. CASE dir \in watched
  <2>1. inotify \in Seq(Dirs) /\ inotify' = Append(inotify, dir) /\ missed' = missed
    BY <1>1 DEF Changed, Typed, TypeOK
  <2>2. ToSet(inotify') = ToSet(inotify) \union {dir}
    BY <2>1, AppendToSet
  <2> QED
    BY <2>1, <2>2 DEF Noted
<1>2. CASE dir \notin watched
  BY <1>2 DEF Changed, Noted
<1> QED
  BY <1>1, <1>2

\* A directory whose children change on disk is notified, or missed if it is not
\* watched.
LEMMA CoverSystem ==
    ASSUME Typed, CoverInv, Mkdir \/ Rmdir \/ ReadEvents
    PROVE  CoverInv'
<1> USE DEF queueVars, flagVars, dbVars, listVars, clientVars, history
<1>1. UNCHANGED <<scanQueue, db, wpc, scanRequest, listVars>>
  BY DEF Mkdir, Rmdir, ReadEvents
<1>2. CASE Mkdir \/ Rmdir
  <2>1. PICK p \in Dirs : /\ \A d : d # Front(p) =>
                               ChildrenOf(d) \intersect disk' = ChildrenOf(d) \intersect disk
                          /\ Front(p) \in Dirs
                          /\ Changed(Front(p))
    <3>1. CASE Mkdir
      <4>1. PICK p \in Dirs \ disk : /\ Front(p) \in disk
                                    /\ disk' = disk \union {p}
                                    /\ Changed(Front(p))
        BY <3>1 DEF Mkdir
      <4> QED
        BY <4>1 DEF ChildrenOf, Typed, TypeOK
    <3>2. CASE Rmdir
      <4>1. PICK p \in disk \ {Root} : /\ disk' = disk \ {p}
                                      /\ Changed(Front(p))
        BY <3>2 DEF Rmdir
      <4>2. p \in Dirs
        BY <4>1 DEF Typed, TypeOK
      <4>3. Front(p) \in Dirs
        BY <4>1, <4>2, FrontInDirs
      <4> QED
        BY <4>1, <4>2, <4>3 DEF ChildrenOf
    <3> QED
      BY <1>2, <3>1, <3>2
  <2>2. UNCHANGED eventQueue
    BY <1>2 DEF Mkdir, Rmdir
  <2>3. Noted \union {Front(p)} \subseteq Noted'
    BY <1>1, <2>1, <2>2, ChangedNoted
  <2> QED
    BY <1>1, <2>1, <2>3, KeptStep
<1>3. CASE ReadEvents
  <2>1. /\ inotify # << >> /\ inotify \in Seq(Dirs) /\ eventQueue \in Seq(Dirs)
        /\ inotify' = Tail(inotify)
        /\ eventQueue' = Append(eventQueue, Head(inotify))
        /\ UNCHANGED <<missed, disk>>
    BY <1>3 DEF ReadEvents, Typed, TypeOK
  <2>2. Head(inotify) \in Dirs
    BY <2>1
  <2>3. /\ ToSet(inotify) = {Head(inotify)} \union ToSet(inotify')
        /\ ToSet(eventQueue') = ToSet(eventQueue) \union {Head(inotify)}
    BY <2>1, <2>2, HeadToSet, AppendToSet
  <2>4. Noted \subseteq Noted'
    BY <1>1, <2>1, <2>3 DEF Noted
  <2> QED
    BY <1>1, <2>1, <2>4, KeptStep
<1> QED
  BY <1>2, <1>3

LEMMA CoverStep ==
    ASSUME Typed, CoverInv, [Next]_vars
    PROVE  CoverInv'
<1>1. CASE UNCHANGED vars
  <2>1. UNCHANGED <<db, scanRequest, listVars, disk, wpc, scanQueue, missed,
                   inotify, eventQueue>>
    BY <1>1 DEF vars, queueVars, dbVars, osVars, history
  <2>2. Noted' = Noted
    BY <2>1 DEF Noted
  <2> QED
    BY <2>1, <2>2, KeptStep
<1> QED
  BY <1>1, CoverListing, CoverEndListing, CoverSetChildren, CoverRequeue,
     CoverOtherWorker, CoverClient, CoverSystem DEF Next, Worker, Terminated

LEMMA CoverAlways == Spec => []CoverInv
<1>1. Typed /\ CoverInv /\ [Next]_vars => CoverInv'
  BY CoverStep
<1> QED
  BY <1>1, CoverInit, TypedAlways, PTL DEF Spec

\* A directory whose children in the database are not those on disk is always one
\* that is going to be looked at again.
THEOREM CoverageAlways == Spec => []Coverage
<1>1. CoverInv => Coverage
  BY DEF CoverInv
<1> QED
  BY <1>1, CoverAlways, PTL

\* At rest, the database shows what is on disk. With nothing queued or notified,
\* and nothing in hand, Coverage leaves only the directories missed.
THEOREM SettledMatchesDiskAlways == Spec => []SettledMatchesDisk
<1>1. Typed /\ Coverage => SettledMatchesDisk
  <2> SUFFICES ASSUME Typed, Coverage, Settled, NEW d \in db \ missed, ~ IsExcluded(d)
               PROVE  ChildrenOf(d) \intersect db = ChildrenOf(d) \intersect disk
    BY DEF SettledMatchesDisk
  <2>1. /\ wpc = "sleep" /\ scanQueue = << >> /\ inotify = << >> /\ eventQueue = << >>
        /\ newPaths = << >>
    BY DEF Settled, Typed, Locals
  <2>2. Owed(scanQueue) = {} /\ ToSet(inotify) = {} /\ ToSet(eventQueue) = {}
        /\ DOMAIN newPaths = {}
    BY <2>1 DEF Owed, ToSet
  <2>3. ~ Pending(d)
    BY <2>1, <2>2 DEF Pending
  <2>4. KnownChildren(d) = ChildrenOf(d) \intersect db
    BY <2>1 DEF KnownChildren
  <2> QED
    BY <2>3, <2>4 DEF Coverage
<1> QED
  BY <1>1, TypedAlways, CoverageAlways, PTL
=============================================================================
