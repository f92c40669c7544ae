----------------------------- MODULE FileDBProofs -----------------------------
(* Invariants of FileDB, for every set of paths, every listing and every      *)
(* assignment of CRCs to names.                                               *)
EXTENDS FileDB, SublistProofs

-----------------------------------------------------------------------------
(* Chains and buckets *)

LEMMA WithoutItems ==
    ASSUME NEW T, NEW chain \in Seq(T), NEW S
    PROVE  /\ Without(chain, S) \in Seq(T)
           /\ ToSet(Without(chain, S)) = ToSet(chain) \ S
           /\ IsInjective(chain) => IsInjective(Without(chain, S))
<1> DEFINE K == {i \in DOMAIN chain : chain[i] \notin S}
           r == Pick(chain, K)
<1>1. K \in SUBSET DOMAIN chain
  OBVIOUS
<1>4. {chain[i] : i \in K} = ToSet(chain) \ S
  BY DEF ToSet
<1> HIDE DEF K
<1>2. /\ r \in Seq(T)
      /\ Len(r) = Cardinality(K)
      /\ \A n \in 1 .. Cardinality(K) : Nth(K, n) \in K /\ r[n] = chain[Nth(K, n)]
      /\ \A n, k \in 1 .. Cardinality(K) : Nth(K, n) = Nth(K, k) => n = k
  BY <1>1, PickProperties
<1>3. ToSet(r) = {chain[i] : i \in K}
  BY <1>1, PickItems
<1>5. ASSUME IsInjective(chain)
      PROVE  IsInjective(r)
  <2>1. DOMAIN r = 1 .. Cardinality(K)
    BY <1>2
  <2>2. ASSUME NEW n \in DOMAIN r, NEW k \in DOMAIN r, r[n] = r[k]
        PROVE  n = k
    <3>1. Nth(K, n) \in DOMAIN chain /\ Nth(K, k) \in DOMAIN chain
      BY <1>1, <1>2, <2>1
    <3>2. chain[Nth(K, n)] = chain[Nth(K, k)]
      BY <1>2, <2>1, <2>2
    <3>3. Nth(K, n) = Nth(K, k)
      BY <1>5, <3>1, <3>2 DEF IsInjective
    <3> QED
      BY <1>2, <2>1, <3>3
  <2> QED
    BY <2>2 DEF IsInjective
<1> QED
  BY <1>2, <1>3, <1>4, <1>5 DEF Without, K

LEMMA AddToBinItems ==
    ASSUME NEW T, NEW chain \in Seq(T), NEW c \in T, NEW s
    PROVE  /\ AddToBin(chain, c, s) \in Seq(T)
           /\ ToSet(AddToBin(chain, c, s)) = ToSet(chain) \union {c}
<1> DEFINE ahead == {i \in DOMAIN chain : bin[chain[i]] > s}
           rest  == DOMAIN chain \ ahead
           x == Pick(chain, ahead)
           y == <<c>>
           z == Pick(chain, rest)
<1>1. ahead \in SUBSET DOMAIN chain /\ rest \in SUBSET DOMAIN chain
  OBVIOUS
<1>2. {chain[i] : i \in ahead} \union {chain[i] : i \in rest} = ToSet(chain)
  BY DEF ToSet
<1>3. AddToBin(chain, c, s) = (x \o y) \o z
  BY DEF AddToBin
<1> HIDE DEF ahead, rest
<1>4. x \in Seq(T) /\ ToSet(x) = {chain[i] : i \in ahead}
  BY <1>1, PickProperties, PickItems
<1>5. z \in Seq(T) /\ ToSet(z) = {chain[i] : i \in rest}
  BY <1>1, PickProperties, PickItems
<1>6. y \in Seq(T) /\ ToSet(y) = {c}
  BY DEF ToSet
<1> HIDE DEF x, y, z
<1>7. x \o y \in Seq(T) /\ ToSet(x \o y) = ToSet(x) \union {c}
  BY <1>4, <1>6, ConcatToSet
<1> DEFINE xy == x \o y
<1>8. xy \in Seq(T) /\ ToSet(xy) = ToSet(x) \union {c}
  BY <1>7
<1> HIDE DEF xy
<1>9. xy \o z \in Seq(T) /\ ToSet(xy \o z) = ToSet(xy) \union ToSet(z)
  BY <1>5, <1>8, ConcatToSet
<1>10. AddToBin(chain, c, s) = xy \o z
  BY <1>3 DEF xy
<1> QED
  BY <1>2, <1>4, <1>5, <1>8, <1>9, <1>10

LEMMA AppendDistinct ==
    ASSUME NEW T, NEW s \in Seq(T), NEW x \in T, IsInjective(s), x \notin ToSet(s)
    PROVE  /\ Append(s, x) \in Seq(T)
           /\ ToSet(Append(s, x)) = ToSet(s) \union {x}
           /\ IsInjective(Append(s, x))
<1>1. /\ Len(s) \in Nat /\ DOMAIN s = 1 .. Len(s)
      /\ DOMAIN Append(s, x) = 1 .. Len(s) + 1
      /\ \A i \in DOMAIN s : Append(s, x)[i] = s[i]
      /\ Append(s, x)[Len(s) + 1] = x
  OBVIOUS
<1>2. \A i \in DOMAIN s : s[i] # x
  BY DEF ToSet
<1>3. ASSUME NEW i \in DOMAIN Append(s, x), NEW j \in DOMAIN Append(s, x),
             Append(s, x)[i] = Append(s, x)[j]
      PROVE  i = j
  <2>1. \A k \in DOMAIN Append(s, x) : k \in DOMAIN s \/ k = Len(s) + 1
    BY <1>1
  <2>2. CASE i \in DOMAIN s /\ j \in DOMAIN s
    BY <1>1, <1>3, <2>2 DEF IsInjective
  <2>3. CASE i = Len(s) + 1 \/ j = Len(s) + 1
    BY <1>1, <1>2, <1>3, <2>1, <2>3
  <2> QED
    BY <2>1, <2>2, <2>3
<1>4. Append(s, x) \in Seq(T) /\ ToSet(Append(s, x)) = ToSet(s) \union {x}
  BY AppendToSet
<1>5. IsInjective(Append(s, x))
  BY <1>3 DEF IsInjective
<1> QED
  BY <1>4, <1>5

-----------------------------------------------------------------------------
(* Paths *)

LEMMA PathFacts ==
    /\ Root \in Path
    /\ IsFiniteSet(Path)
    /\ \A p \in Path : p \in Seq(Name) /\ Len(p) \in Nat
    /\ \A p \in Path \ {Root} : Front(p) \in Path /\ Len(Front(p)) = Len(p) - 1
<1>1. ASSUME NEW p \in Path \ {Root}
      PROVE  Front(p) \in Path /\ Len(Front(p)) = Len(p) - 1
  <2>1. Front(p) \in Path
    BY FileDBAssumption DEF Root
  <2>2. p \in Seq(Name) /\ p # << >>
    BY FileDBAssumption DEF Root
  <2>3. /\ Len(p) \in Nat /\ Len(p) # 0
        /\ \A i \in 1 .. Len(p) : p[i] \in Name
    BY <2>2
  <2> DEFINE n == Len(p) - 1
  <2>4. n \in Nat /\ \A i \in 1 .. n : p[i] \in Name
    BY <2>3
  <2> HIDE DEF n
  <2>5. Len(SubSeq(p, 1, n)) = IF 1 <= n THEN n - 1 + 1 ELSE 0
    BY <2>4, SubSeqProperties
  <2>6. Len(SubSeq(p, 1, n)) = n
    BY <2>4, <2>5
  <2> QED
    BY <2>1, <2>6 DEF Front, n
<1> QED
  BY <1>1, FileDBAssumption DEF Root

LEMMA AppendedPath ==
    ASSUME NEW p \in Path, NEW n, Append(p, n) \in Path
    PROVE  /\ Append(p, n) # Root
           /\ Front(Append(p, n)) = p
           /\ Last(Append(p, n)) = n
<1>1. p \in Seq(Name) /\ Append(p, n) \in Seq(Name)
  BY PathFacts
<1>2. Len(p) \in Nat /\ Len(Append(p, n)) = Len(p) + 1
  BY <1>1
<1>3. n \in Name
  <2>1. Append(p, n)[Len(p) + 1] = n
    BY <1>1
  <2> QED
    BY <1>1, <1>2, <2>1
<1>4. SubSeq(Append(p, n), 1, Len(p)) = p
  BY <1>1, <1>2, <1>3
<1> QED
  BY <1>1, <1>2, <1>3, <1>4 DEF Front, Last, Root

LEMMA BelowFacts ==
    ASSUME NEW c \in Path
    PROVE  /\ c \in Below(c)
           /\ c # Root => Root \notin Below(c)
           /\ \A q \in Path \ {Root} : Front(q) \in Below(c) => q \in Below(c)
           /\ \A q \in Below(c) : q = c \/ (q # Root /\ Front(q) \in Below(c))
<1>1. \A s, t \in Path : IsPrefix(s, t) <=> /\ Len(s) <= Len(t)
                                            /\ \A i \in 1 .. Len(s) : s[i] = t[i]
  <2> SUFFICES ASSUME NEW s \in Path, NEW t \in Path
               PROVE  IsPrefix(s, t) <=> /\ Len(s) <= Len(t)
                                         /\ \A i \in 1 .. Len(s) : s[i] = t[i]
    OBVIOUS
  <2>1. s \in Seq(Name) /\ t \in Seq(Name)
    BY PathFacts
  <2> QED
    BY <2>1, PrefixPointwise
<1>2. Len(Root) = 0 /\ (c # Root => Len(c) > 0) /\ Len(c) \in Nat
  BY PathFacts DEF Root
<1>3. ASSUME NEW q \in Path \ {Root}
      PROVE  /\ Front(q) \in Path
             /\ Len(q) \in Nat /\ Len(q) > 0
             /\ Len(Front(q)) = Len(q) - 1
             /\ \A i \in 1 .. Len(q) - 1 : Front(q)[i] = q[i]
  <2>1. q \in Seq(Name) /\ q # << >>
    BY PathFacts DEF Root
  <2> QED
    BY <2>1, PathFacts DEF Front
<1>4. ASSUME NEW q \in Path \ {Root}, Front(q) \in Below(c)
      PROVE  q \in Below(c)
  BY <1>1, <1>2, <1>3, <1>4 DEF Below
<1>5. ASSUME NEW q \in Below(c), q # c
      PROVE  q # Root /\ Front(q) \in Below(c)
  <2>1. /\ q \in Path /\ Len(q) \in Nat
        /\ Len(c) <= Len(q)
        /\ \A i \in 1 .. Len(c) : c[i] = q[i]
    BY <1>1, <1>5, PathFacts DEF Below
  <2>2. Len(c) # Len(q)
    <3>1. c \in Seq(Name) /\ q \in Seq(Name)
      BY <2>1, PathFacts
    <3> QED
      BY <1>5, <2>1, <3>1, SeqEqual
  <2>3. Len(c) <= Len(q) - 1 /\ q # Root
    BY <1>2, <2>1, <2>2
  <2> QED
    BY <1>1, <1>2, <1>3, <2>1, <2>3 DEF Below
<1> QED
  BY <1>1, <1>2, <1>4, <1>5, PathFacts DEF Below

-----------------------------------------------------------------------------
(* The invariant *)

Typed ==
    /\ entries \subseteq Path
    /\ dirs \subseteq entries
    /\ Root \in dirs
    /\ children \in [Path -> Seq(Path)]
    /\ entriesMap \in [SUBSET Bit -> Seq(Path)]
    /\ listing \in Seq(Entry)
    /\ next \in Nat

\* Every entry lies in one that is there
Closed == \A e \in entries \ {Root} : Front(e) \in entries

\* A directory has its children, but for those on their way out
ChildSets ==
    \A p \in Path : ToSet(children[p]) = (ChildrenOf(p) \intersect entries) \ deletedChildren

\* Where the call is, or will be when the change of size has risen
At == IF pc = "rise" THEN returnTo ELSE pc

\* What the call works on is there, and what it deletes lies right below. A change
\* of size rises from entries that stay.
Places ==
    /\ At \in {"idle", "loop", "cleanup"}
    /\ parentEntry \in entries
    /\ deletedChildren \subseteq ChildrenOf(parentEntry) \intersect entries
    /\ At # "cleanup" => deletedChildren = {}
    /\ pc = "rise" =>
         /\ At # "idle"
         /\ sizeChanged.entry \in entries \ {Root}
         /\ At = "cleanup" => Len(sizeChanged.entry) <= Len(parentEntry)

\* Of the listing, what is still to be looked at and there already is marked, and
\* each name comes once: so every mark that is taken off was there.
Marks ==
    /\ At # "loop" => pendingDelete = {}
    /\ At = "loop" =>
         /\ pendingDelete \subseteq ToSet(children[parentEntry])
         /\ deletedDirCount = Cardinality(pendingDelete \intersect dirs)
         /\ deletedFileCount = Cardinality(pendingDelete \ dirs)
         /\ \A i \in DOMAIN listing :
              i >= next => \A c \in entries :
                  c = Append(parentEntry, listing[i].name) => c \in pendingDelete
    /\ \A i, j \in DOMAIN listing : listing[i].name = listing[j].name => i = j

DBInv == Typed /\ Closed /\ ChildSets /\ Places /\ Marks /\ MapMatchesTree /\ CountsMatch

LEMMA GotoAt ==
    ASSUME NEW to, NEW e, NEW change, Goto(to, e, change), to # "rise"
    PROVE  /\ At' = to
           /\ pc' = "rise" => e # Root /\ sizeChanged'.entry = e
<1>1. CASE e # Root /\ change # 0
  <2>1. pc' = "rise" /\ returnTo' = to /\ sizeChanged' = [entry |-> e, change |-> change]
    BY <1>1 DEF Goto
  <2>2. sizeChanged'.entry = e
    BY <2>1
  <2> QED
    BY <1>1, <2>1, <2>2 DEF At
<1>2. CASE ~ (e # Root /\ change # 0)
  BY <1>2 DEF Goto, At
<1> QED
  BY <1>1, <1>2

LEMMA FiniteEntries ==
    ASSUME Typed
    PROVE  /\ IsFiniteSet(entries) /\ IsFiniteSet(dirs)
           /\ \A S : S \subseteq entries => IsFiniteSet(S) /\ Cardinality(S) \in Nat
<1>1. \A S : S \subseteq Path => IsFiniteSet(S) /\ Cardinality(S) \in Nat
  BY PathFacts, FS_Subset, FS_CardinalityType
<1> QED
  BY <1>1 DEF Typed

LEMMA CrcType ==
    ASSUME NEW p
    PROVE  PathCrc(p) \in SUBSET Bit
BY DEF PathCrc

\* What the code finds is an entry.
LEMMA FoundIsEntry ==
    ASSUME Typed, MapMatchesTree, NEW p \in Path, FindEntry(p) # None
    PROVE  FindEntry(p) \in entries
<1> DEFINE bucket == entriesMap[PathCrc(p)]
           hits   == {k \in DOMAIN bucket : NamesMatch(bucket[k], p)}
<1>1. CASE p = Root
  BY <1>1 DEF FindEntry, Typed
<1>2. CASE p # Root
  <2>1. bucket \in Seq(Path) /\ ToSet(bucket) \subseteq entries
    BY CrcType DEF Typed, MapMatchesTree
  <2>2. hits # {} /\ FindEntry(p) = bucket[Min(hits)]
    BY <1>2 DEF FindEntry
  <2>3. Len(bucket) \in Nat /\ hits \in SUBSET (1 .. Len(bucket))
    BY <2>1
  <2>4. Min(hits) \in hits
    <3> HIDE DEF hits
    <3> QED
      BY <2>2, <2>3, MinIsMember
  <2>5. Min(hits) \in DOMAIN bucket
    BY <2>4
  <2>6. bucket[Min(hits)] \in ToSet(bucket)
    <3> HIDE DEF hits, bucket
    <3> QED
      BY <2>5 DEF ToSet
  <2> QED
    BY <2>1, <2>2, <2>6
<1> QED
  BY <1>1, <1>2

\* What is in the map is what is there.
LEMMA ChildIsEntry ==
    ASSUME Typed, MapMatchesTree, NEW p \in Path, NEW n, Append(p, n) \in Path
    PROVE  HasChild(p, n) <=> Append(p, n) \in entries
<1>1. Append(p, n) # Root
  BY AppendedPath
<1> QED
  BY <1>1, CrcType DEF HasChild, MapMatchesTree

LEMMA InitInv == Init => DBInv
<1> SUFFICES ASSUME Init PROVE DBInv
  OBVIOUS
<1> USE DEF Init
<1>0. ToSet(<< >>) = {} /\ IsInjective(<< >>) /\ \A T : << >> \in Seq(T)
  BY DEF ToSet, IsInjective
<1>1. Typed
  BY <1>0, PathFacts DEF Typed
<1>2. Closed
  BY DEF Closed
<1>3. ChildSets
  BY <1>0 DEF ChildSets, ChildrenOf
<1>4. Places
  BY DEF Places, At
<1>5. Marks
  BY DEF Marks, At
<1>6. MapMatchesTree
  BY <1>0 DEF MapMatchesTree
<1>7. CountsMatch
  BY FS_EmptySet, FS_Singleton DEF CountsMatch
<1> QED
  BY <1>1, <1>2, <1>3, <1>4, <1>5, <1>6, <1>7 DEF DBInv

-----------------------------------------------------------------------------
(* The steps *)

\* Entries are listed once, and named differently.
LEMMA ListedOnce ==
    ASSUME NEW p, NEW l \in SortedListings(p)
    PROVE  /\ l \in Seq(Entry)
           /\ \A i, j \in DOMAIN l : l[i].name = l[j].name => i = j
<1>1. PICK S \in SUBSET Entry : /\ IsFiniteSet(S)
                                /\ \A d, e \in S : d.name = e.name => d = e
                                /\ l \in SetToSeqs(S)
  BY DEF SortedListings
<1>2. /\ l \in [1 .. Cardinality(S) -> S]
      /\ \A i, j \in 1 .. Cardinality(S) : i # j => l[i] # l[j]
  BY <1>1 DEF SetToSeqs
<1>3. Cardinality(S) \in Nat
  BY <1>1, FS_CardinalityType
<1>4. l \in Seq(Entry) /\ DOMAIN l = 1 .. Cardinality(S)
  BY <1>2, <1>3
<1> QED
  BY <1>1, <1>2, <1>4

LEMMA MarkChildrenInv == DBInv /\ MarkChildren => DBInv'
<1> SUFFICES ASSUME DBInv, MarkChildren PROVE DBInv'
  OBVIOUS
<1>1. Typed /\ Closed /\ ChildSets /\ Places /\ Marks /\ MapMatchesTree /\ CountsMatch
  BY DEF DBInv
<1>2. PICK p \in Path :
         /\ FindEntry(p) # None
         /\ parentEntry' = FindEntry(p)
         /\ listing' \in SortedListings(p)
         /\ pendingDelete' = pendingDelete \union ToSet(children[FindEntry(p)])
         /\ deletedDirCount' = Cardinality(ToSet(children[FindEntry(p)]) \intersect dirs)
         /\ deletedFileCount' = Cardinality(ToSet(children[FindEntry(p)]) \ dirs)
  BY DEF MarkChildren
<1>3. /\ pc = "idle" /\ pc' = "loop" /\ next' = 1
      /\ UNCHANGED <<entries, dirs, size, children, bin, entriesMap, fileCount,
                     dirCount, deletedChildren>>
  BY DEF MarkChildren, countVars
<1>4. At = "idle" /\ At' = "loop"
  BY <1>3 DEF At
<1>5. parentEntry' \in entries
  BY <1>1, <1>2, FoundIsEntry
<1>6. /\ listing' \in Seq(Entry)
      /\ \A i, j \in DOMAIN listing' : listing'[i].name = listing'[j].name => i = j
  BY <1>2, ListedOnce
<1>7. deletedChildren = {} /\ pendingDelete = {}
  BY <1>1, <1>4 DEF Places, Marks
<1>8. Typed'
  BY <1>1, <1>3, <1>6 DEF Typed
<1>9. Closed' /\ ChildSets' /\ MapMatchesTree' /\ CountsMatch'
  BY <1>1, <1>3 DEF Closed, ChildSets, MapMatchesTree, CountsMatch
<1>10. Places'
  BY <1>3, <1>4, <1>5, <1>7 DEF Places
<1>11. Marks'
  <2>1. pendingDelete' = ToSet(children[parentEntry'])
    BY <1>2, <1>7
  <2>2. /\ deletedDirCount' = Cardinality(pendingDelete' \intersect dirs)
        /\ deletedFileCount' = Cardinality(pendingDelete' \ dirs)
    BY <1>2, <2>1
  <2>3. ASSUME NEW n, Append(parentEntry', n) \in entries
        PROVE  Append(parentEntry', n) \in pendingDelete'
    <3>1. parentEntry' \in Path /\ Append(parentEntry', n) \in Path
      BY <1>1, <1>5, <2>3 DEF Typed
    <3>2. Append(parentEntry', n) \in ChildrenOf(parentEntry')
      BY <3>1, AppendedPath DEF ChildrenOf
    <3> QED
      BY <1>1, <1>7, <2>1, <2>3, <3>1, <3>2 DEF ChildSets
  <2> QED
    BY <1>3, <1>4, <1>6, <2>1, <2>2, <2>3 DEF Marks
<1> QED
  BY <1>8, <1>9, <1>10, <1>11 DEF DBInv

\* Which entry a listed one is
LEMMA ListedFacts ==
    ASSUME Typed, Places, NEW e, NEW c \in Path, NextListed(e, c)
    PROVE  /\ At = "loop" /\ pc = "loop"
           /\ next \in DOMAIN listing /\ next' \in Nat
           /\ c = Append(parentEntry, listing[next].name)
           /\ parentEntry \in Path
           /\ c # Root /\ Front(c) = parentEntry
           /\ \A i \in DOMAIN listing : i >= next' => i >= next /\ i # next
           /\ \A i \in DOMAIN listing :
                c = Append(parentEntry, listing[i].name) => listing[i].name = listing[next].name
<1>1. /\ At = "loop" /\ pc = "loop" /\ next \in DOMAIN listing
      /\ c = Append(parentEntry, listing[next].name)
      /\ next' = next + 1
  BY DEF NextListed, At
<1>2. parentEntry \in Path /\ next \in Nat
  BY DEF Typed, Places
<1>3. c # Root /\ Front(c) = parentEntry /\ Last(c) = listing[next].name
  BY <1>1, <1>2, AppendedPath
<1>4. \A i \in DOMAIN listing : c = Append(parentEntry, listing[i].name) => Last(c) = listing[i].name
  BY <1>2, AppendedPath
<1>5. \A i \in DOMAIN listing : i \in Nat
  BY DEF Typed
<1>6. \A i \in DOMAIN listing : i >= next' => i >= next /\ i # next
  BY <1>1, <1>2, <1>5
<1> QED
  BY <1>1, <1>2, <1>3, <1>4, <1>6

LEMMA KeepEntryInv == DBInv /\ KeepEntry => DBInv'
<1> SUFFICES ASSUME DBInv, KeepEntry PROVE DBInv'
  OBVIOUS
<1>1. Typed /\ Closed /\ ChildSets /\ Places /\ Marks /\ MapMatchesTree /\ CountsMatch
  BY DEF DBInv
<1>2. PICK e \in ToSet(listing), c \in Path :
        /\ NextListed(e, c)
        /\ HasChild(parentEntry, e.name)
        /\ pendingDelete' = pendingDelete \ {c}
        /\ CountedOff(c)
        /\ IF c \in dirs
             THEN pc' = "loop" /\ UNCHANGED <<size, riseVars>>
             ELSE /\ size' = [size EXCEPT ![c] = e.size]
                  /\ Goto("loop", c, e.size - size[c])
  BY DEF KeepEntry
<1>3. UNCHANGED <<entries, dirs, children, entriesMap, fileCount, dirCount,
                  parentEntry, listing, deletedChildren>>
  BY DEF KeepEntry, countVars, argVars
<1>4. /\ At = "loop" /\ pc = "loop"
      /\ next \in DOMAIN listing /\ next' \in Nat
      /\ c = Append(parentEntry, listing[next].name)
      /\ parentEntry \in Path
      /\ c # Root /\ Front(c) = parentEntry
      /\ \A i \in DOMAIN listing : i >= next' => i >= next /\ i # next
      /\ \A i \in DOMAIN listing :
           c = Append(parentEntry, listing[i].name) => listing[i].name = listing[next].name
  BY <1>1, <1>2, ListedFacts
<1>5. c \in entries
  <2>1. c = Append(parentEntry, e.name)
    BY <1>2 DEF NextListed
  <2> QED
    BY <1>1, <1>2, <1>4, <2>1, ChildIsEntry
<1>6. At' = "loop" /\ (pc' = "rise" => sizeChanged'.entry = c)
  <2>1. CASE c \in dirs
    BY <1>2, <2>1 DEF At
  <2>2. CASE c \notin dirs
    BY <1>2, <2>2, GotoAt
  <2> QED
    BY <2>1, <2>2
<1>7. Typed' /\ Closed' /\ ChildSets' /\ MapMatchesTree' /\ CountsMatch'
  BY <1>1, <1>3, <1>4 DEF Typed, Closed, ChildSets, MapMatchesTree, CountsMatch
<1>8. Places'
  BY <1>1, <1>3, <1>4, <1>5, <1>6 DEF Places
<1>9. c \in pendingDelete
  <2>1. next >= next
    BY <1>1, <1>4 DEF Typed
  <2> QED
    BY <1>1, <1>4, <1>5, <2>1 DEF Marks
<1>10. /\ deletedDirCount' = Cardinality(pendingDelete' \intersect dirs)
       /\ deletedFileCount' = Cardinality(pendingDelete' \ dirs)
  <2>1. pendingDelete \subseteq entries
    BY <1>1, <1>4 DEF Marks, ChildSets
  <2>2. /\ IsFiniteSet(pendingDelete \intersect dirs) /\ IsFiniteSet(pendingDelete \ dirs)
        /\ Cardinality(pendingDelete \intersect dirs) \in Nat
        /\ Cardinality(pendingDelete \ dirs) \in Nat
    BY <1>1, <2>1, FiniteEntries
  <2>3. /\ deletedDirCount = Cardinality(pendingDelete \intersect dirs)
        /\ deletedFileCount = Cardinality(pendingDelete \ dirs)
    BY <1>1, <1>4 DEF Marks
  <2>4. CASE c \in dirs
    <3>1. /\ pendingDelete' \intersect dirs = (pendingDelete \intersect dirs) \ {c}
          /\ pendingDelete' \ dirs = pendingDelete \ dirs
          /\ c \in pendingDelete \intersect dirs
      BY <1>2, <1>9, <2>4
    <3>2. Cardinality((pendingDelete \intersect dirs) \ {c})
            = Cardinality(pendingDelete \intersect dirs) - 1
      BY <2>2, <3>1, FS_RemoveElement
    <3> QED
      BY <1>2, <2>3, <2>4, <3>1, <3>2 DEF CountedOff
  <2>5. CASE c \notin dirs
    <3>1. /\ pendingDelete' \ dirs = (pendingDelete \ dirs) \ {c}
          /\ pendingDelete' \intersect dirs = pendingDelete \intersect dirs
          /\ c \in pendingDelete \ dirs
      BY <1>2, <1>9, <2>5
    <3>2. Cardinality((pendingDelete \ dirs) \ {c}) = Cardinality(pendingDelete \ dirs) - 1
      BY <2>2, <3>1, FS_RemoveElement
    <3> QED
      BY <1>2, <2>3, <2>5, <3>1, <3>2 DEF CountedOff
  <2> QED
    BY <2>4, <2>5
<1>11. Marks'
  <2>1. pendingDelete' \subseteq ToSet(children[parentEntry])
    BY <1>1, <1>2, <1>4 DEF Marks
  <2>2. ASSUME NEW i \in DOMAIN listing, i >= next',
               NEW d \in entries, d = Append(parentEntry, listing[i].name)
        PROVE  d \in pendingDelete'
    <3>1. i >= next /\ i # next
      BY <1>4, <2>2
    <3>2. d \in pendingDelete
      BY <1>1, <1>4, <2>2, <3>1 DEF Marks
    <3>3. d # c
      BY <1>1, <1>4, <2>2, <3>1 DEF Marks
    <3> QED
      BY <1>2, <3>2, <3>3
  <2>3. \A i, j \in DOMAIN listing : listing[i].name = listing[j].name => i = j
    BY <1>1 DEF Marks
  <2> QED
    BY <1>3, <1>6, <1>10, <2>1, <2>2, <2>3 DEF Marks
<1> QED
  BY <1>7, <1>8, <1>11 DEF DBInv

LEMMA AddEntryInv == DBInv /\ AddEntry => DBInv'
<1> SUFFICES ASSUME DBInv, AddEntry PROVE DBInv'
  OBVIOUS
<1>1. Typed /\ Closed /\ ChildSets /\ Places /\ Marks /\ MapMatchesTree /\ CountsMatch
  BY DEF DBInv
<1>2. PICK e \in ToSet(listing), c \in Path :
        /\ NextListed(e, c)
        /\ ~ HasChild(parentEntry, e.name)
        /\ entries' = entries \union {c}
        /\ dirs' = IF e.dir THEN dirs \union {c} ELSE dirs
        /\ children' = [children EXCEPT ![parentEntry] = AddToBin(@, c, e.size)]
        /\ dirCount' = IF e.dir THEN dirCount + 1 ELSE dirCount
        /\ fileCount' = IF e.dir THEN fileCount ELSE fileCount + 1
        /\ entriesMap' = [entriesMap EXCEPT ![PathCrc(c)] = Append(@, c)]
        /\ Goto("loop", parentEntry, e.size)
  BY DEF AddEntry
<1>3. UNCHANGED <<parentEntry, listing, pendingDelete, deletedFileCount,
                  deletedDirCount, deletedChildren>>
  BY DEF AddEntry, argVars, deleteVars
<1>4. /\ At = "loop" /\ pc = "loop"
      /\ next \in DOMAIN listing /\ next' \in Nat
      /\ c = Append(parentEntry, listing[next].name)
      /\ parentEntry \in Path
      /\ c # Root /\ Front(c) = parentEntry
      /\ \A i \in DOMAIN listing : i >= next' => i >= next /\ i # next
      /\ \A i \in DOMAIN listing :
           c = Append(parentEntry, listing[i].name) => listing[i].name = listing[next].name
  BY <1>1, <1>2, ListedFacts
<1>5. c \notin entries
  <2>1. c = Append(parentEntry, e.name)
    BY <1>2 DEF NextListed
  <2> QED
    BY <1>1, <1>2, <1>4, <2>1, ChildIsEntry
<1>6. /\ At' = "loop"
      /\ pc' = "rise" => parentEntry # Root /\ sizeChanged'.entry = parentEntry
  BY <1>2, GotoAt
<1>7. deletedChildren = {}
  BY <1>1, <1>4 DEF Places
<1>8. /\ children[parentEntry] \in Seq(Path)
      /\ AddToBin(children[parentEntry], c, e.size) \in Seq(Path)
      /\ ToSet(AddToBin(children[parentEntry], c, e.size)) = ToSet(children[parentEntry]) \union {c}
  <2>1. children[parentEntry] \in Seq(Path)
    BY <1>1, <1>4 DEF Typed
  <2> QED
    BY <2>1, AddToBinItems
<1>9. /\ children' \in [Path -> Seq(Path)]
      /\ ToSet(children'[parentEntry]) = ToSet(children[parentEntry]) \union {c}
      /\ \A q \in Path \ {parentEntry} : children'[q] = children[q]
  BY <1>1, <1>2, <1>4, <1>8 DEF Typed
<1>10. /\ entriesMap[PathCrc(c)] \in Seq(Path)
       /\ Append(entriesMap[PathCrc(c)], c) \in Seq(Path)
       /\ ToSet(Append(entriesMap[PathCrc(c)], c)) = ToSet(entriesMap[PathCrc(c)]) \union {c}
       /\ IsInjective(Append(entriesMap[PathCrc(c)], c))
  <2>1. /\ entriesMap[PathCrc(c)] \in Seq(Path)
        /\ IsInjective(entriesMap[PathCrc(c)])
        /\ c \notin ToSet(entriesMap[PathCrc(c)])
    BY <1>1, <1>5, CrcType DEF Typed, MapMatchesTree
  <2> QED
    BY <2>1, AppendDistinct
<1>11. /\ entriesMap' \in [SUBSET Bit -> Seq(Path)]
       /\ entriesMap'[PathCrc(c)] = Append(entriesMap[PathCrc(c)], c)
       /\ \A crc \in SUBSET Bit : crc # PathCrc(c) => entriesMap'[crc] = entriesMap[crc]
  BY <1>1, <1>2, <1>10, CrcType DEF Typed
<1>12. Typed'
  BY <1>1, <1>2, <1>3, <1>4, <1>9, <1>11 DEF Typed
<1>13. Closed'
  BY <1>1, <1>2, <1>4 DEF Closed, Places
<1>14. ChildSets'
  <2> SUFFICES ASSUME NEW q \in Path
               PROVE  ToSet(children'[q]) = ChildrenOf(q) \intersect entries'
    BY <1>3, <1>7 DEF ChildSets
  <2>1. ToSet(children[q]) = ChildrenOf(q) \intersect entries
    BY <1>1, <1>7 DEF ChildSets
  <2>2. c \in ChildrenOf(q) <=> q = parentEntry
    BY <1>4 DEF ChildrenOf
  <2> QED
    BY <1>2, <1>9, <2>1, <2>2
<1>15. Places'
  BY <1>1, <1>2, <1>3, <1>6, <1>7 DEF Places
<1>16. MapMatchesTree'
  <2> SUFFICES ASSUME NEW crc \in SUBSET Bit
               PROVE  /\ ToSet(entriesMap'[crc]) = {d \in entries' \ {Root} : PathCrc(d) = crc}
                      /\ IsInjective(entriesMap'[crc])
    BY DEF MapMatchesTree, PathCrc
  <2>1. /\ ToSet(entriesMap[crc]) = {d \in entries \ {Root} : PathCrc(d) = crc}
        /\ IsInjective(entriesMap[crc])
    BY <1>1 DEF MapMatchesTree
  <2>2. CASE crc = PathCrc(c)
    BY <1>2, <1>4, <1>10, <1>11, <2>1, <2>2
  <2>3. CASE crc # PathCrc(c)
    BY <1>2, <1>11, <2>1, <2>3
  <2> QED
    BY <2>2, <2>3
<1>17. CountsMatch'
  <2>1. /\ IsFiniteSet(entries \ dirs) /\ IsFiniteSet(dirs)
        /\ c \notin dirs
    BY <1>1, <1>5, FiniteEntries DEF Typed
  <2>2. CASE e.dir
    <3>1. dirs' = dirs \union {c} /\ entries' \ dirs' = entries \ dirs
      BY <1>2, <1>5, <2>2
    <3>2. Cardinality(dirs \union {c}) = Cardinality(dirs) + 1
      BY <2>1, FS_AddElement
    <3> QED
      BY <1>1, <1>2, <2>2, <3>1, <3>2 DEF CountsMatch
  <2>3. CASE ~ e.dir
    <3>1. dirs' = dirs /\ entries' \ dirs' = (entries \ dirs) \union {c}
      BY <1>2, <2>1, <2>3
    <3>2. Cardinality((entries \ dirs) \union {c}) = Cardinality(entries \ dirs) + 1
      BY <1>5, <2>1, FS_AddElement
    <3> QED
      BY <1>1, <1>2, <2>3, <3>1, <3>2 DEF CountsMatch
  <2> QED
    BY <2>2, <2>3
<1>18. Marks'
  <2>1. pendingDelete \subseteq ToSet(children[parentEntry]) /\ c \notin pendingDelete
    BY <1>1, <1>4, <1>5 DEF Marks, ChildSets
  <2>2. pendingDelete' \subseteq ToSet(children'[parentEntry'])
    BY <1>3, <1>9, <2>1
  <2>3. pendingDelete \intersect dirs' = pendingDelete \intersect dirs
        /\ pendingDelete \ dirs' = pendingDelete \ dirs
    BY <1>2, <2>1
  <2>4. /\ deletedDirCount' = Cardinality(pendingDelete' \intersect dirs')
        /\ deletedFileCount' = Cardinality(pendingDelete' \ dirs')
    BY <1>1, <1>3, <1>4, <2>3 DEF Marks
  <2>5. ASSUME NEW i \in DOMAIN listing, i >= next',
               NEW d \in entries', d = Append(parentEntry, listing[i].name)
        PROVE  d \in pendingDelete
    <3>1. i >= next /\ i # next
      BY <1>4, <2>5
    <3>2. d # c
      BY <1>1, <1>4, <2>5, <3>1 DEF Marks
    <3> QED
      BY <1>1, <1>2, <1>4, <2>5, <3>1, <3>2 DEF Marks
  <2>6. \A i, j \in DOMAIN listing : listing[i].name = listing[j].name => i = j
    BY <1>1 DEF Marks
  <2> QED
    BY <1>3, <1>6, <2>2, <2>4, <2>5, <2>6 DEF Marks
<1> QED
  BY <1>12, <1>13, <1>14, <1>15, <1>16, <1>17, <1>18 DEF DBInv

LEMMA OnChildSizeChangedInv == DBInv /\ OnChildSizeChanged => DBInv'
<1> SUFFICES ASSUME DBInv, OnChildSizeChanged PROVE DBInv'
  OBVIOUS
<1> DEFINE e == sizeChanged.entry
           p == Front(e)
<1>1. Typed /\ Closed /\ ChildSets /\ Places /\ Marks /\ MapMatchesTree /\ CountsMatch
  BY DEF DBInv
<1>2. /\ pc = "rise"
      /\ \/ /\ children' = [children EXCEPT ![p] = Rebinned(e)]
            /\ Goto(returnTo, p, sizeChanged.change)
         \/ pc' = returnTo /\ UNCHANGED <<children, returnTo>>
  BY DEF OnChildSizeChanged, riseVars
<1>3. UNCHANGED <<entries, dirs, pendingDelete, entriesMap, fileCount, dirCount,
                  listing, parentEntry, next, deletedFileCount, deletedDirCount,
                  deletedChildren>>
  BY DEF OnChildSizeChanged, countVars, argVars, deleteVars
<1>4. /\ At = returnTo /\ returnTo \in {"loop", "cleanup"}
      /\ e \in entries \ {Root} /\ e \in Path
      /\ At = "cleanup" => Len(e) <= Len(parentEntry)
  BY <1>1, <1>2 DEF Places, At, Typed
<1> HIDE DEF e
<1>5. p \in entries /\ p \in Path /\ Len(p) = Len(e) - 1 /\ Len(e) \in Nat
  BY <1>1, <1>4, PathFacts DEF Closed, Typed
<1>6. e \in ToSet(children[p])
  <2>1. e \in ChildrenOf(p)
    BY <1>4 DEF ChildrenOf
  <2>2. e \notin deletedChildren
    <3>1. CASE At # "cleanup"
      BY <1>1, <3>1 DEF Places
    <3>2. CASE At = "cleanup"
      <4>1. \A d \in deletedChildren : Len(parentEntry) = Len(d) - 1 /\ Len(d) \in Nat
        BY <1>1, PathFacts DEF Places, ChildrenOf
      <4> QED
        BY <1>4, <1>5, <3>2, <4>1
    <3> QED
      BY <3>1, <3>2
  <2> QED
    BY <1>1, <1>4, <1>5, <2>1, <2>2 DEF ChildSets
<1>7. Rebinned(e) \in Seq(Path) /\ ToSet(Rebinned(e)) = ToSet(children[p])
  <2>1. children[p] \in Seq(Path)
    BY <1>1, <1>5 DEF Typed
  <2> DEFINE w == Without(children[p], {e})
  <2>2. w \in Seq(Path) /\ ToSet(w) = ToSet(children[p]) \ {e}
    BY <2>1, WithoutItems
  <2> HIDE DEF w
  <2>3. /\ AddToBin(w, e, size[e]) \in Seq(Path)
        /\ ToSet(AddToBin(w, e, size[e])) = ToSet(w) \union {e}
    BY <1>4, <2>2, AddToBinItems
  <2>4. Rebinned(e) = AddToBin(w, e, size[e])
    BY DEF Rebinned, w
  <2> QED
    BY <1>6, <2>2, <2>3, <2>4
<1>8. /\ children' \in [Path -> Seq(Path)]
      /\ \A q \in Path : ToSet(children'[q]) = ToSet(children[q])
  <2>1. CASE UNCHANGED children
    BY <1>1, <2>1 DEF Typed
  <2>2. CASE children' = [children EXCEPT ![p] = Rebinned(e)]
    <3>1. children \in [Path -> Seq(Path)]
      BY <1>1 DEF Typed
    <3> QED
      BY <1>5, <1>7, <2>2, <3>1
  <2> QED
    BY <1>2, <2>1, <2>2 DEF e
<1>9. At' = At /\ (pc' = "rise" => p # Root /\ sizeChanged'.entry = p)
  <2>1. CASE pc' = returnTo /\ UNCHANGED returnTo
    BY <1>4, <2>1 DEF At
  <2>2. CASE Goto(returnTo, p, sizeChanged.change)
    BY <1>4, <2>2, GotoAt
  <2> QED
    BY <1>2, <2>1, <2>2 DEF e
<1>10. Typed'
  BY <1>1, <1>3, <1>8 DEF Typed
<1>11. Closed' /\ MapMatchesTree' /\ CountsMatch'
  BY <1>1, <1>3 DEF Closed, MapMatchesTree, CountsMatch
<1>12. ChildSets'
  BY <1>1, <1>3, <1>8 DEF ChildSets
<1>13. Places'
  <2>1. Len(parentEntry) \in Nat
    BY <1>1, PathFacts DEF Places, Typed
  <2>2. At = "cleanup" => Len(p) <= Len(parentEntry)
    BY <1>4, <1>5, <2>1
  <2> QED
    BY <1>1, <1>3, <1>4, <1>5, <1>9, <2>2 DEF Places
<1>14. Marks'
  <2>1. ToSet(children'[parentEntry]) = ToSet(children[parentEntry])
    BY <1>1, <1>8 DEF Places, Typed
  <2> QED
    BY <1>1, <1>3, <1>9, <2>1 DEF Marks
<1> QED
  BY <1>10, <1>11, <1>12, <1>13, <1>14 DEF DBInv

\* Whatever the counts decide, all that is marked is removed.
LEMMA RemovesMarked ==
    ASSUME DBInv, pc = "loop"
    PROVE  ToRemove = pendingDelete /\ pendingDelete \subseteq ToSet(children[parentEntry])
<1>1. Typed /\ ChildSets /\ Places /\ Marks /\ At = "loop"
  BY DEF DBInv, At
<1>2. pendingDelete \subseteq ToSet(children[parentEntry])
  BY <1>1 DEF Marks
<1>3. pendingDelete \subseteq entries
  BY <1>1, <1>2 DEF ChildSets, Places, Typed
<1>4. CASE deletedFileCount + deletedDirCount > 0
  BY <1>2, <1>4 DEF ToRemove, Marked
<1>5. CASE ~ (deletedFileCount + deletedDirCount > 0)
  <2>1. /\ IsFiniteSet(pendingDelete \intersect dirs) /\ IsFiniteSet(pendingDelete \ dirs)
        /\ Cardinality(pendingDelete \intersect dirs) \in Nat
        /\ Cardinality(pendingDelete \ dirs) \in Nat
    BY <1>1, <1>3, FiniteEntries
  <2>2. /\ deletedDirCount = Cardinality(pendingDelete \intersect dirs)
        /\ deletedFileCount = Cardinality(pendingDelete \ dirs)
    BY <1>1 DEF Marks
  <2>3. /\ Cardinality(pendingDelete \intersect dirs) = 0
        /\ Cardinality(pendingDelete \ dirs) = 0
    BY <1>5, <2>1, <2>2
  <2>4. pendingDelete \intersect dirs = {} /\ pendingDelete \ dirs = {}
    BY <2>1, <2>3, FS_EmptySet
  <2> QED
    BY <1>2, <1>5, <2>4 DEF ToRemove
<1> QED
  BY <1>2, <1>4, <1>5

LEMMA RemovePendingDeleteInv == DBInv /\ RemovePendingDelete => DBInv'
<1> SUFFICES ASSUME DBInv, RemovePendingDelete PROVE DBInv'
  OBVIOUS
<1>1. Typed /\ Closed /\ ChildSets /\ Places /\ Marks /\ MapMatchesTree /\ CountsMatch
  BY DEF DBInv
<1>2. /\ pc = "loop"
      /\ children' = [children EXCEPT ![parentEntry] = Without(@, ToRemove)]
      /\ pendingDelete' = pendingDelete \ ToRemove
      /\ deletedChildren' = ToRemove
      /\ UNCHANGED <<entries, dirs, entriesMap, fileCount, dirCount, parentEntry,
                     listing, next>>
  BY DEF RemovePendingDelete, countVars, argVars
<1>3. PICK change : Goto("cleanup", parentEntry, change)
  BY DEF RemovePendingDelete
<1>4. /\ At = "loop" /\ At' = "cleanup"
      /\ pc' = "rise" => parentEntry # Root /\ sizeChanged'.entry = parentEntry
  BY <1>2, <1>3, GotoAt DEF At
<1>5. /\ parentEntry \in entries /\ parentEntry \in Path
      /\ deletedChildren = {}
      /\ Len(parentEntry) \in Nat
  BY <1>1, <1>4, PathFacts DEF Places, Typed
<1>6. /\ children[parentEntry] \in Seq(Path)
      /\ ToSet(children[parentEntry]) = ChildrenOf(parentEntry) \intersect entries
  BY <1>1, <1>5 DEF Typed, ChildSets
<1>7. ToRemove = pendingDelete /\ ToRemove \subseteq ChildrenOf(parentEntry) \intersect entries
  BY <1>2, <1>6, RemovesMarked
<1> DEFINE w == Without(children[parentEntry], ToRemove)
<1>8. w \in Seq(Path) /\ ToSet(w) = ToSet(children[parentEntry]) \ ToRemove
  BY <1>6, WithoutItems
<1>9. children' = [children EXCEPT ![parentEntry] = w]
  BY <1>2
<1> HIDE DEF w
<1>10. /\ children' \in [Path -> Seq(Path)]
       /\ children'[parentEntry] = w
       /\ \A q \in Path \ {parentEntry} : children'[q] = children[q]
  BY <1>1, <1>5, <1>8, <1>9 DEF Typed
<1>11. Typed'
  BY <1>1, <1>2, <1>10 DEF Typed
<1>12. Closed' /\ MapMatchesTree' /\ CountsMatch'
  BY <1>1, <1>2 DEF Closed, MapMatchesTree, CountsMatch
<1>13. ChildSets'
  <2> SUFFICES ASSUME NEW q \in Path
               PROVE  ToSet(children'[q]) = (ChildrenOf(q) \intersect entries) \ ToRemove
    BY <1>2 DEF ChildSets
  <2>1. CASE q = parentEntry
    BY <1>6, <1>8, <1>10, <2>1
  <2>2. CASE q # parentEntry
    <3>1. ToSet(children'[q]) = ChildrenOf(q) \intersect entries
      BY <1>1, <1>5, <1>10, <2>2 DEF ChildSets
    <3>2. \A d \in ToRemove : d \notin ChildrenOf(q)
      BY <1>7, <2>2 DEF ChildrenOf
    <3> QED
      BY <3>1, <3>2
  <2> QED
    BY <2>1, <2>2
<1>14. Places'
  BY <1>2, <1>4, <1>5, <1>7 DEF Places
<1>15. Marks'
  BY <1>1, <1>2, <1>4, <1>7 DEF Marks
<1> QED
  BY <1>11, <1>12, <1>13, <1>14, <1>15 DEF DBInv

LEMMA CleanupEntryCrcInv == DBInv /\ CleanupEntryCrc => DBInv'
<1> SUFFICES ASSUME DBInv, CleanupEntryCrc PROVE DBInv'
  OBVIOUS
<1>1. Typed /\ Closed /\ ChildSets /\ Places /\ Marks /\ MapMatchesTree /\ CountsMatch
  BY DEF DBInv
<1>2. PICK c \in deletedChildren :
         /\ deletedChildren' = deletedChildren \ {c}
         /\ entriesMap' = MapCleaned(c)
         /\ dirCount' = dirCount - DeletedDirs(c)
         /\ fileCount' = fileCount - DeletedFiles(c)
         /\ entries' = entries \ Below(c)
         /\ dirs' = dirs \ Below(c)
         /\ children' = [q \in Path |-> IF q \in Below(c) THEN << >> ELSE children[q]]
  BY DEF CleanupEntryCrc
<1>3. /\ pc = "cleanup"
      /\ UNCHANGED <<pendingDelete, pc, parentEntry, listing, next, deletedFileCount,
                     deletedDirCount>>
  BY DEF CleanupEntryCrc, argVars
<1>4. At = "cleanup" /\ At' = "cleanup"
  BY <1>3 DEF At
<1>5. /\ c \in Path \ {Root} /\ c \in entries /\ Front(c) = parentEntry
      /\ parentEntry \in Path /\ parentEntry \in entries
  BY <1>1, <1>2 DEF Places, ChildrenOf, Typed
<1>6. /\ c \in Below(c) /\ Root \notin Below(c)
      /\ \A q \in Path \ {Root} : Front(q) \in Below(c) => q \in Below(c)
      /\ \A q \in Below(c) : q = c \/ (q # Root /\ Front(q) \in Below(c))
  BY <1>5, BelowFacts
<1>7. parentEntry \notin Below(c)
  <2>1. /\ Len(c) \in Nat /\ Len(parentEntry) = Len(c) - 1
        /\ c \in Seq(Name) /\ parentEntry \in Seq(Name)
    BY <1>5, PathFacts
  <2> QED
    BY <2>1, PrefixPointwise DEF Below
<1>8. \A d \in deletedChildren \ {c} : d \notin Below(c)
  BY <1>1, <1>5, <1>6, <1>7 DEF Places, ChildrenOf
<1>9. \A q \in Path : q \notin Below(c) => \A d \in ChildrenOf(q) : d \in Below(c) => d = c
  BY <1>6 DEF ChildrenOf
<1>10. children' \in [Path -> Seq(Path)]
  BY <1>1, <1>2 DEF Typed
<1>11. /\ entriesMap' \in [SUBSET Bit -> Seq(Path)]
       /\ \A crc \in SUBSET Bit :
            /\ ToSet(entriesMap'[crc]) = ToSet(entriesMap[crc]) \ {d \in Below(c) : PathCrc(d) = crc}
            /\ IsInjective(entriesMap'[crc])
  <2>1. ASSUME NEW crc \in SUBSET Bit
        PROVE  LET S == {d \in Below(c) : PathCrc(d) = crc}
               IN  /\ Without(entriesMap[crc], S) \in Seq(Path)
                   /\ ToSet(Without(entriesMap[crc], S)) = ToSet(entriesMap[crc]) \ S
                   /\ IsInjective(Without(entriesMap[crc], S))
    <3>1. entriesMap[crc] \in Seq(Path) /\ IsInjective(entriesMap[crc])
      BY <1>1 DEF Typed, MapMatchesTree
    <3> QED
      BY <3>1, WithoutItems
  <2> QED
    BY <1>2, <2>1 DEF MapCleaned
<1>12. Typed'
  BY <1>1, <1>2, <1>3, <1>6, <1>10, <1>11 DEF Typed
<1>13. Closed'
  BY <1>1, <1>2, <1>6 DEF Closed, Typed
<1>14. ChildSets'
  <2> SUFFICES ASSUME NEW q \in Path
               PROVE  ToSet(children'[q])
                        = (ChildrenOf(q) \intersect (entries \ Below(c))) \ (deletedChildren \ {c})
    BY <1>2 DEF ChildSets
  <2>1. CASE q \in Below(c)
    <3>1. ToSet(children'[q]) = {}
      BY <1>2, <2>1 DEF ToSet
    <3>2. ChildrenOf(q) \subseteq Below(c)
      BY <1>6, <2>1 DEF ChildrenOf
    <3> QED
      BY <3>1, <3>2
  <2>2. CASE q \notin Below(c)
    <3>1. ToSet(children'[q]) = (ChildrenOf(q) \intersect entries) \ deletedChildren
      BY <1>1, <1>2, <2>2 DEF ChildSets
    <3> QED
      BY <1>2, <1>6, <1>9, <2>2, <3>1
  <2> QED
    BY <2>1, <2>2
<1>15. Places'
  BY <1>1, <1>2, <1>3, <1>4, <1>5, <1>7, <1>8 DEF Places
<1>16. Marks'
  BY <1>1, <1>3, <1>4 DEF Marks
<1>17. MapMatchesTree'
  <2> SUFFICES ASSUME NEW crc \in SUBSET Bit
               PROVE  /\ ToSet(entriesMap'[crc]) = {d \in entries' \ {Root} : PathCrc(d) = crc}
                      /\ IsInjective(entriesMap'[crc])
    BY DEF MapMatchesTree, PathCrc
  <2>1. ToSet(entriesMap[crc]) = {d \in entries \ {Root} : PathCrc(d) = crc}
    BY <1>1 DEF MapMatchesTree
  <2> QED
    BY <1>2, <1>11, <2>1
<1>18. CountsMatch'
  <2>1. InMap(Below(c)) = Below(c) \intersect entries
    BY <1>1, <1>6, CrcType DEF InMap, MapMatchesTree
  <2>2. /\ IsFiniteSet(dirs) /\ IsFiniteSet(entries \ dirs)
        /\ Cardinality(dirs) \in Nat /\ Cardinality(entries \ dirs) \in Nat
    BY <1>1, FiniteEntries DEF Typed
  <2>3. /\ InMap(Below(c)) \intersect dirs = dirs \intersect Below(c)
        /\ InMap(Below(c)) \ dirs = (entries \ dirs) \intersect Below(c)
        /\ entries' \ dirs' = (entries \ dirs) \ Below(c)
    BY <1>1, <1>2, <2>1 DEF Typed
  <2>4. Cardinality(dirs \ Below(c)) = Cardinality(dirs) - Cardinality(dirs \intersect Below(c))
    BY <2>2, FS_Difference
  <2>5. Cardinality((entries \ dirs) \ Below(c))
          = Cardinality(entries \ dirs) - Cardinality((entries \ dirs) \intersect Below(c))
    BY <2>2, FS_Difference
  <2>6. dirCount = Cardinality(dirs) /\ fileCount = Cardinality(entries \ dirs)
    BY <1>1 DEF CountsMatch
  <2> QED
    BY <1>2, <2>3, <2>4, <2>5, <2>6 DEF CountsMatch, DeletedDirs, DeletedFiles
<1> QED
  BY <1>12, <1>13, <1>14, <1>15, <1>16, <1>17, <1>18 DEF DBInv

LEMMA FinishInv == DBInv /\ Finish => DBInv'
<1> SUFFICES ASSUME DBInv, Finish PROVE DBInv'
  OBVIOUS
<1>1. Typed /\ Closed /\ ChildSets /\ Places /\ Marks /\ MapMatchesTree /\ CountsMatch
  BY DEF DBInv
<1>2. /\ pc = "cleanup" /\ pc' = "idle"
      /\ deletedChildren = {}
      /\ parentEntry' = Root /\ listing' = << >> /\ next' = 1
      /\ UNCHANGED <<entries, dirs, children, pendingDelete, entriesMap, fileCount,
                     dirCount, deletedChildren>>
  BY DEF Finish, entryVars, countVars
<1>3. At = "cleanup" /\ At' = "idle"
  BY <1>2 DEF At
<1>4. Typed'
  BY <1>1, <1>2 DEF Typed
<1>5. Closed' /\ ChildSets' /\ MapMatchesTree' /\ CountsMatch'
  BY <1>1, <1>2 DEF Closed, ChildSets, MapMatchesTree, CountsMatch
<1>6. Places'
  BY <1>1, <1>2, <1>3 DEF Places, Typed
<1>7. Marks'
  BY <1>1, <1>2, <1>3 DEF Marks
<1> QED
  BY <1>4, <1>5, <1>6, <1>7 DEF DBInv

\* Nothing changes that the invariant is about.
LEMMA UnchangedInv ==
    ASSUME DBInv,
           UNCHANGED <<entries, dirs, children, pendingDelete, entriesMap, fileCount,
                       dirCount, pc, listing, next, parentEntry, deletedFileCount,
                       deletedDirCount, deletedChildren, sizeChanged, returnTo>>
    PROVE  DBInv'
<1>1. Typed' /\ Closed' /\ ChildSets' /\ MapMatchesTree' /\ CountsMatch'
  BY DEF DBInv, Typed, Closed, ChildSets, MapMatchesTree, CountsMatch
<1>2. At' = At
  BY DEF At
<1>3. Places'
  BY <1>2 DEF DBInv, Places
<1>4. Marks'
  BY <1>2 DEF DBInv, Marks
<1> QED
  BY <1>1, <1>3, <1>4 DEF DBInv

LEMMA StepInv == DBInv /\ [Next]_vars => DBInv'
<1> SUFFICES ASSUME DBInv, [Next]_vars PROVE DBInv'
  OBVIOUS
<1>1. CASE SetChildrenForPath
  BY <1>1, MarkChildrenInv, KeepEntryInv, AddEntryInv, OnChildSizeChangedInv,
     RemovePendingDeleteInv, CleanupEntryCrcInv, FinishInv DEF SetChildrenForPath
<1>2. CASE ProcessEntry
  BY <1>2, UnchangedInv DEF ProcessEntry, entryVars, countVars, argVars, deleteVars, riseVars
<1>3. CASE UNCHANGED vars
  BY <1>3, UnchangedInv DEF vars, entryVars, countVars, argVars, deleteVars, riseVars
<1> QED
  BY <1>1, <1>2, <1>3 DEF Next

\* Map, tree, marks and counts agree at every step (DBInv above).
THEOREM DBInvAlways == Spec => []DBInv
BY InitInv, StepInv, PTL DEF Spec

-----------------------------------------------------------------------------
(* Sizes and bins *)

\* A chain has each child once, those in the bigger bins first.
InBins(chain, b) ==
    /\ IsInjective(chain)
    /\ \A i, j \in DOMAIN chain : i < j => b[chain[i]] >= b[chain[j]]

\* What is picked from a chain stays in order.
LEMMA PickInBins ==
    ASSUME NEW T, NEW chain \in Seq(T), NEW K \in SUBSET DOMAIN chain, NEW b, InBins(chain, b)
    PROVE  InBins(Pick(chain, K), b)
<1> DEFINE r == Pick(chain, K)
<1>1. /\ r \in Seq(T) /\ Len(r) = Cardinality(K)
      /\ \A n \in 1 .. Cardinality(K) : Nth(K, n) \in K /\ r[n] = chain[Nth(K, n)]
      /\ \A n, k \in 1 .. Cardinality(K) : Nth(K, n) = Nth(K, k) => n = k
  BY PickProperties
<1>2. DOMAIN r = 1 .. Cardinality(K)
  BY <1>1
<1>3. Len(chain) \in Nat /\ K \in SUBSET (1 .. Len(chain))
  OBVIOUS
<1> HIDE DEF r
<1>4. ASSUME NEW n \in DOMAIN r, NEW k \in DOMAIN r, r[n] = r[k]
      PROVE  n = k
  <2>1. Nth(K, n) \in DOMAIN chain /\ Nth(K, k) \in DOMAIN chain
    BY <1>1, <1>2
  <2>2. chain[Nth(K, n)] = chain[Nth(K, k)]
    BY <1>1, <1>2, <1>4
  <2> QED
    BY <1>1, <1>2, <2>1, <2>2 DEF InBins, IsInjective
<1>5. ASSUME NEW n \in DOMAIN r, NEW k \in DOMAIN r, n < k
      PROVE  b[r[n]] >= b[r[k]]
  <2>1. Nth(K, n) < Nth(K, k)
    BY <1>2, <1>3, <1>5, NthOrder
  <2>2. Nth(K, n) \in DOMAIN chain /\ Nth(K, k) \in DOMAIN chain
    BY <1>1, <1>2
  <2> QED
    BY <1>1, <1>2, <2>1, <2>2 DEF InBins
<1> QED
  BY <1>4, <1>5 DEF InBins, IsInjective, r

LEMMA WithoutInBins ==
    ASSUME NEW T, NEW chain \in Seq(T), NEW S, NEW b, InBins(chain, b)
    PROVE  InBins(Without(chain, S), b)
<1>1. {i \in DOMAIN chain : chain[i] \notin S} \in SUBSET DOMAIN chain
  OBVIOUS
<1> QED
  BY <1>1, PickInBins DEF Without

\* A chain is put before another, of smaller bins.
LEMMA ConcatInBins ==
    ASSUME NEW T, NEW s \in Seq(T), NEW t \in Seq(T), NEW b, InBins(s, b), InBins(t, b),
           \A x \in ToSet(s), y \in ToSet(t) : x # y /\ b[x] >= b[y]
    PROVE  InBins(s \o t, b)
<1> DEFINE u == s \o t
<1>1. /\ u \in Seq(T) /\ Len(s) \in Nat /\ Len(t) \in Nat /\ DOMAIN s = 1 .. Len(s)
      /\ DOMAIN t = 1 .. Len(t)
      /\ \A i \in DOMAIN u : i \in Nat
  <2>1. u \in Seq(T)
    BY ConcatItems
  <2> HIDE DEF u
  <2> QED
    BY <2>1
<1>2. \A i \in DOMAIN u :
        \/ i \in DOMAIN s /\ u[i] = s[i]
        \/ i - Len(s) \in DOMAIN t /\ u[i] = t[i - Len(s)]
  BY ConcatItems
<1> HIDE DEF u
<1>3. \A i \in DOMAIN s, j \in DOMAIN t : s[i] # t[j] /\ b[s[i]] >= b[t[j]]
  BY DEF ToSet
<1>4. ASSUME NEW i \in DOMAIN u, NEW j \in DOMAIN u, i < j
      PROVE  u[i] # u[j] /\ b[u[i]] >= b[u[j]]
  <2>1. CASE i \in DOMAIN s /\ u[i] = s[i] /\ j \in DOMAIN s /\ u[j] = s[j]
    BY <1>1, <1>4, <2>1 DEF InBins, IsInjective
  <2>2. CASE i \in DOMAIN s /\ u[i] = s[i] /\ j - Len(s) \in DOMAIN t /\ u[j] = t[j - Len(s)]
    BY <1>3, <2>2
  <2>3. CASE /\ i - Len(s) \in DOMAIN t /\ u[i] = t[i - Len(s)]
             /\ j - Len(s) \in DOMAIN t /\ u[j] = t[j - Len(s)]
    <3>1. i - Len(s) < j - Len(s)
      BY <1>1, <1>4
    <3> QED
      BY <1>1, <2>3, <3>1 DEF InBins, IsInjective
  <2>4. CASE i - Len(s) \in DOMAIN t /\ j \in DOMAIN s
    BY <1>1, <1>4, <2>4
  <2> QED
    BY <1>2, <2>1, <2>2, <2>3, <2>4
<1>5. \A i, j \in DOMAIN u : u[i] = u[j] => i = j
  <2> SUFFICES ASSUME NEW i \in DOMAIN u, NEW j \in DOMAIN u, u[i] = u[j], i # j
               PROVE  FALSE
    OBVIOUS
  <2>1. i < j \/ j < i
    BY <1>1
  <2> QED
    BY <1>4, <2>1
<1> QED
  BY <1>4, <1>5 DEF InBins, IsInjective, u

\* _addChild keeps a chain in order.
LEMMA AddToBinInBins ==
    ASSUME NEW T, NEW chain \in Seq(T), NEW c \in T, c \notin ToSet(chain), NEW s \in Int,
           \A x \in ToSet(chain) : bin[x] \in Int, InBins(chain, bin),
           NEW b, b[c] = s, \A x \in ToSet(chain) : b[x] = bin[x]
    PROVE  InBins(AddToBin(chain, c, s), b)
<1> DEFINE ahead == {i \in DOMAIN chain : bin[chain[i]] > s}
           rest  == DOMAIN chain \ ahead
           x == Pick(chain, ahead)
           y == <<c>>
           z == Pick(chain, rest)
<1>1. ahead \in SUBSET DOMAIN chain /\ rest \in SUBSET DOMAIN chain
  OBVIOUS
<1>2. AddToBin(chain, c, s) = (x \o y) \o z
  BY DEF AddToBin
<1>3. InBins(chain, b)
  <2>1. \A i \in DOMAIN chain : b[chain[i]] = bin[chain[i]]
    BY DEF ToSet
  <2> QED
    BY <2>1 DEF InBins
<1>4. /\ \A i \in ahead : chain[i] \in ToSet(chain) /\ b[chain[i]] > s
      /\ \A i \in rest : chain[i] \in ToSet(chain) /\ b[chain[i]] \in Int /\ b[chain[i]] <= s
  <2>1. \A i \in DOMAIN chain : /\ chain[i] \in ToSet(chain)
                                /\ b[chain[i]] = bin[chain[i]] /\ bin[chain[i]] \in Int
    BY DEF ToSet
  <2> QED
    BY <2>1
<1>5. \A i \in ahead : b[chain[i]] \in Int
  BY <1>1, <1>4
<1>6. \A i \in ahead, j \in rest : chain[i] # chain[j]
  BY DEF InBins, IsInjective
<1> HIDE DEF ahead, rest
<1>7. x \in Seq(T) /\ ToSet(x) = {chain[i] : i \in ahead} /\ InBins(x, b)
  BY <1>1, <1>3, PickProperties, PickItems, PickInBins
<1>8. z \in Seq(T) /\ ToSet(z) = {chain[i] : i \in rest} /\ InBins(z, b)
  BY <1>1, <1>3, PickProperties, PickItems, PickInBins
<1>9. y \in Seq(T) /\ ToSet(y) = {c} /\ InBins(y, b)
  BY DEF ToSet, InBins, IsInjective
<1> HIDE DEF x, y, z
<1> DEFINE xy == x \o y
<1>10. xy \in Seq(T) /\ ToSet(xy) = ToSet(x) \union {c}
  BY <1>7, <1>9, ConcatToSet
<1>11. InBins(xy, b)
  <2>1. \A v \in ToSet(x), w \in ToSet(y) : v # w /\ b[v] >= b[w]
    BY <1>4, <1>5, <1>7, <1>9
  <2> QED
    BY <1>7, <1>9, <2>1, ConcatInBins
<1> HIDE DEF xy
<1>12. InBins(xy \o z, b)
  <2>1. \A v \in ToSet(xy), w \in ToSet(z) : v # w /\ b[v] >= b[w]
    BY <1>4, <1>5, <1>6, <1>7, <1>8, <1>10
  <2> QED
    BY <1>8, <1>10, <1>11, <2>1, ConcatInBins
<1> QED
  BY <1>2, <1>12 DEF xy

\* Each entry is in the bin of its size, but for the one whose change rises, which is
\* in that of its old size: where onChildSizeChanged looks for it.
SizeInv ==
    /\ size \in [Path -> Int] /\ bin \in [Path -> Int]
    /\ sizeChanged \in [entry : Path, change : Int]
    /\ \A p \in Path : InBins(children[p], bin)
    /\ \A e \in entries \ {Root} :
         bin[e] = IF pc = "rise" /\ e = sizeChanged.entry
                    THEN size[e] - sizeChanged.change ELSE size[e]

\* The other variables
RestInv ==
    /\ usedSpace \in Int /\ bHasChanges \in BOOLEAN
    /\ path \in Path /\ next # 0
    /\ returnTo \in {"idle", "loop", "cleanup"}
    /\ deletedFileCount \in Int /\ deletedDirCount \in Int
    /\ DOMAIN before \subseteq Path
    /\ newPaths \in Seq(Path)
    /\ \A i \in DOMAIN listing : /\ Append(path, listing[i].name) \in Path
                                 /\ Append(parentEntry, listing[i].name) \in Path

LEMMA InBinsSame ==
    ASSUME NEW chain, NEW b, InBins(chain, b), NEW d,
           \A x \in ToSet(chain) : d[x] = b[x]
    PROVE  InBins(chain, d)
<1>1. \A i \in DOMAIN chain : d[chain[i]] = b[chain[i]]
  BY DEF ToSet
<1> QED
  BY <1>1 DEF InBins

\* What changes is the size of one entry, from where the change rises.
LEMMA GotoBins ==
    ASSUME NEW to, to # "rise", NEW p \in Path, NEW change \in Int, Goto(to, p, change),
           sizeChanged \in [entry : Path, change : Int],
           size' \in [Path -> Int], entries' \subseteq Path,
           p \in entries' \ {Root} => bin'[p] = size'[p] - change,
           \A e \in entries' \ {Root} : e # p => bin'[e] = size'[e]
    PROVE  /\ sizeChanged' \in [entry : Path, change : Int]
           /\ \A e \in entries' \ {Root} :
                bin'[e] = IF pc' = "rise" /\ e = sizeChanged'.entry
                            THEN size'[e] - sizeChanged'.change ELSE size'[e]
<1>1. CASE p # Root /\ change # 0
  <2>1. pc' = "rise" /\ sizeChanged' = [entry |-> p, change |-> change]
    BY <1>1 DEF Goto
  <2>2. sizeChanged'.entry = p /\ sizeChanged'.change = change
    BY <2>1
  <2>3. sizeChanged' \in [entry : Path, change : Int]
    BY <2>1
  <2> QED
    BY <2>1, <2>2, <2>3
<1>2. CASE ~ (p # Root /\ change # 0)
  <2>1. pc' = to /\ sizeChanged' = sizeChanged
    BY <1>2 DEF Goto, riseVars
  <2>2. ASSUME NEW e \in entries' \ {Root}
        PROVE  bin'[e] = size'[e]
    <3>1. size'[e] \in Int
      OBVIOUS
    <3> QED
      BY <1>2, <2>2, <3>1
  <2> QED
    BY <2>1, <2>2
<1> QED
  BY <1>1, <1>2

\* What is listed
LEMMA EntrySize ==
    ASSUME Typed, NEW i \in DOMAIN listing
    PROVE  /\ listing[i] \in Entry
           /\ listing[i].name \in Name /\ listing[i].dir \in BOOLEAN
           /\ listing[i].size \in Size /\ listing[i].size \in Int
<1>1. listing \in Seq(Entry)
  BY DEF Typed
<1>2. listing[i] \in Entry
  BY <1>1
<1>3. listing[i] \in [name : Name, dir : BOOLEAN, size : Size]
  BY <1>2 DEF Entry
<1>4. listing[i].name \in Name /\ listing[i].dir \in BOOLEAN /\ listing[i].size \in Size
  BY <1>3
<1>5. Size \subseteq Int
  BY FileDBAssumption
<1>6. listing[i].size \in Int
  BY <1>4, <1>5
<1> QED
  BY <1>2, <1>4, <1>6

LEMMA InitSize == Init => SizeInv /\ RestInv
<1> SUFFICES ASSUME Init PROVE SizeInv /\ RestInv
  OBVIOUS
<1>1. SizeInv
  BY PathFacts DEF Init, SizeInv, InBins, IsInjective
<1>2. RestInv
  BY PathFacts DEF Init, RestInv
<1> QED
  BY <1>1, <1>2

\* Sizes, bins and children stay as they are, and nothing rises.
LEMMA StillSize ==
    ASSUME SizeInv, UNCHANGED <<entries, size, bin, children>>, pc # "rise", pc' # "rise",
           sizeChanged' \in [entry : Path, change : Int]
    PROVE  SizeInv'
BY DEF SizeInv

LEMMA KeepEntrySize == DBInv /\ SizeInv /\ KeepEntry => SizeInv'
<1> SUFFICES ASSUME DBInv, SizeInv, KeepEntry PROVE SizeInv'
  OBVIOUS
<1>1. Typed /\ Places
  BY DEF DBInv
<1>2. PICK e \in ToSet(listing), c \in Path :
        /\ NextListed(e, c)
        /\ IF c \in dirs
             THEN pc' = "loop" /\ UNCHANGED <<size, riseVars>>
             ELSE /\ size' = [size EXCEPT ![c] = e.size]
                  /\ Goto("loop", c, e.size - size[c])
  BY DEF KeepEntry
<1>3. UNCHANGED <<entries, children, bin>>
  BY DEF KeepEntry
<1>4. pc = "loop" /\ next \in DOMAIN listing /\ e = listing[next]
  BY <1>2 DEF NextListed
<1>5. CASE c \in dirs
  BY <1>2, <1>3, <1>4, <1>5, StillSize DEF riseVars, SizeInv
<1>6. CASE c \notin dirs
  <2>1. e.size \in Int
    BY <1>1, <1>4, EntrySize
  <2>2. /\ size \in [Path -> Int] /\ bin \in [Path -> Int]
        /\ sizeChanged \in [entry : Path, change : Int]
        /\ \A d \in entries \ {Root} : bin[d] = size[d]
    BY <1>4 DEF SizeInv
  <2>3. /\ size' \in [Path -> Int]
        /\ size'[c] = e.size
        /\ \A d \in Path \ {c} : size'[d] = size[d]
    BY <1>2, <1>6, <2>1, <2>2
  <2>4. entries \subseteq Path /\ size[c] \in Int
    BY <1>1, <2>2 DEF Typed
  <2> DEFINE change == e.size - size[c]
  <2>5. change \in Int /\ size[c] = size'[c] - change
    BY <2>1, <2>3, <2>4
  <2>6. Goto("loop", c, change)
    BY <1>2, <1>6
  <2> HIDE DEF change
  <2>7. c \in entries' \ {Root} => bin'[c] = size'[c] - change
    BY <1>3, <2>2, <2>5
  <2>8. \A d \in entries' \ {Root} : d # c => bin'[d] = size'[d]
    BY <1>3, <2>2, <2>3, <2>4
  <2>9. /\ sizeChanged' \in [entry : Path, change : Int]
        /\ \A d \in entries' \ {Root} :
             bin'[d] = IF pc' = "rise" /\ d = sizeChanged'.entry
                         THEN size'[d] - sizeChanged'.change ELSE size'[d]
    BY <1>3, <2>2, <2>3, <2>4, <2>5, <2>6, <2>7, <2>8, GotoBins
  <2> QED
    BY <1>3, <2>2, <2>3, <2>9 DEF SizeInv
<1> QED
  BY <1>5, <1>6

LEMMA AddEntrySize == DBInv /\ SizeInv /\ AddEntry => SizeInv'
<1> SUFFICES ASSUME DBInv, SizeInv, AddEntry PROVE SizeInv'
  OBVIOUS
<1>1. Typed /\ ChildSets /\ Places /\ MapMatchesTree
  BY DEF DBInv
<1>2. PICK e \in ToSet(listing), c \in Path :
        /\ NextListed(e, c)
        /\ ~ HasChild(parentEntry, e.name)
        /\ entries' = entries \union {c}
        /\ size' = [size EXCEPT ![c] = e.size, ![parentEntry] = @ + e.size]
        /\ children' = [children EXCEPT ![parentEntry] = AddToBin(@, c, e.size)]
        /\ bin' = [bin EXCEPT ![c] = e.size]
        /\ Goto("loop", parentEntry, e.size)
  BY DEF AddEntry
<1>3. /\ At = "loop" /\ pc = "loop" /\ next \in DOMAIN listing
      /\ c = Append(parentEntry, listing[next].name)
      /\ parentEntry \in Path /\ c # Root /\ Front(c) = parentEntry
  BY <1>1, <1>2, ListedFacts
<1>4. e = listing[next] /\ c = Append(parentEntry, e.name)
  BY <1>2 DEF NextListed
<1>5. c \notin entries
  BY <1>1, <1>2, <1>3, <1>4, ChildIsEntry
<1>6. parentEntry # c /\ parentEntry \in entries /\ entries \subseteq Path
  BY <1>1, <1>5 DEF Places, Typed
<1>7. e.size \in Int
  BY <1>1, <1>3, <1>4, EntrySize
<1>8. /\ size \in [Path -> Int] /\ bin \in [Path -> Int]
      /\ sizeChanged \in [entry : Path, change : Int]
      /\ \A d \in entries \ {Root} : bin[d] = size[d]
      /\ \A q \in Path : InBins(children[q], bin)
  BY <1>3 DEF SizeInv
<1> DEFINE s == e.size
<1>9. /\ size' \in [Path -> Int]
      /\ size'[c] = s /\ size'[parentEntry] = size[parentEntry] + s
      /\ \A d \in Path \ {c, parentEntry} : size'[d] = size[d]
  <2>1. size' = [size EXCEPT ![c] = s, ![parentEntry] = @ + s]
    BY <1>2
  <2> HIDE DEF s
  <2>2. s \in Int
    BY <1>7 DEF s
  <2>3. size' = [d \in Path |-> IF d = parentEntry THEN size[d] + s
                               ELSE IF d = c THEN s ELSE size[d]]
    BY <1>3, <1>6, <1>8, <2>1
  <2>4. \A d \in Path : size[d] \in Int /\ size[d] + s \in Int
    BY <1>8, <2>2
  <2>5. size' \in [Path -> Int]
    BY <2>2, <2>3, <2>4
  <2>6. size'[c] = s /\ size'[parentEntry] = size[parentEntry] + s
    BY <1>3, <1>6, <2>3
  <2>7. \A d \in Path \ {c, parentEntry} : size'[d] = size[d]
    BY <2>3
  <2> QED
    BY <2>5, <2>6, <2>7
<1>10. /\ bin' \in [Path -> Int] /\ bin'[c] = s
       /\ \A d \in Path \ {c} : bin'[d] = bin[d]
  BY <1>2, <1>7, <1>8
<1>11. /\ sizeChanged' \in [entry : Path, change : Int]
       /\ \A d \in entries' \ {Root} :
            bin'[d] = IF pc' = "rise" /\ d = sizeChanged'.entry
                        THEN size'[d] - sizeChanged'.change ELSE size'[d]
  <2> HIDE DEF s
  <2>1. Goto("loop", parentEntry, s) /\ s \in Int
    BY <1>2, <1>7 DEF s
  <2>2. entries' \subseteq Path
    BY <1>2, <1>6
  <2>3. parentEntry \in entries' \ {Root} => bin'[parentEntry] = size'[parentEntry] - s
    <3>1. size[parentEntry] \in Int
      BY <1>3, <1>8
    <3> QED
      BY <1>3, <1>6, <1>8, <1>9, <1>10, <2>1, <3>1
  <2>4. \A d \in entries' \ {Root} : d # parentEntry => bin'[d] = size'[d]
    BY <1>2, <1>6, <1>8, <1>9, <1>10
  <2> QED
    BY <1>3, <1>8, <1>9, <2>1, <2>2, <2>3, <2>4, GotoBins
<1>12. \A q \in Path : c \notin ToSet(children[q]) /\ ToSet(children[q]) \subseteq Path
  BY <1>1, <1>5, <1>6 DEF ChildSets
<1>13. ASSUME NEW q \in Path
       PROVE  InBins(children'[q], bin')
  <2>1. /\ \A x \in ToSet(children[q]) : bin'[x] = bin[x] /\ bin[x] \in Int
        /\ InBins(children[q], bin)
    BY <1>8, <1>10, <1>12
  <2>2. children[q] \in Seq(Path)
    BY <1>1 DEF Typed
  <2>3. CASE q = parentEntry
    <3>1. children'[q] = AddToBin(children[q], c, s)
      BY <1>1, <1>2, <2>3 DEF Typed
    <3> HIDE DEF s
    <3>2. s \in Int
      BY <1>7 DEF s
    <3>3. InBins(AddToBin(children[q], c, s), bin')
      BY <1>10, <1>12, <2>1, <2>2, <3>2, AddToBinInBins
    <3> QED
      BY <3>1, <3>3
  <2>4. CASE q # parentEntry
    <3>1. children'[q] = children[q]
      BY <1>1, <1>2, <2>4 DEF Typed
    <3>2. InBins(children[q], bin')
      BY <2>1, InBinsSame
    <3> QED
      BY <3>1, <3>2
  <2> QED
    BY <2>3, <2>4
<1> QED
  BY <1>9, <1>10, <1>11, <1>13 DEF SizeInv

\* The child whose size has changed is always found in the bin of its old size.
LEMMA RisesThrough ==
    ASSUME DBInv, SizeInv, OnChildSizeChanged
    PROVE  LET e == sizeChanged.entry
               p == Front(e)
           IN  /\ e \in entries \ {Root} /\ p \in entries /\ p # e
               /\ pc = "rise" /\ returnTo \in {"loop", "cleanup"}
               /\ bin[e] = size[e] - sizeChanged.change
               /\ children' = [children EXCEPT ![p] = Rebinned(e)]
               /\ bin' = [bin EXCEPT ![e] = size[e]]
               /\ size' = [size EXCEPT ![p] = @ + sizeChanged.change]
               /\ Goto(returnTo, p, sizeChanged.change)
<1> DEFINE e == sizeChanged.entry
           p == Front(e)
<1>1. pc = "rise"
  BY DEF OnChildSizeChanged
<1>2. e \in entries \ {Root} /\ returnTo \in {"loop", "cleanup"}
  BY <1>1 DEF DBInv, Places, At
<1>3. bin[e] = size[e] - sizeChanged.change
  BY <1>1, <1>2 DEF SizeInv
<1>4. p \in entries /\ p # e
  <2>1. p \in entries /\ e \in Path
    BY <1>2 DEF DBInv, Closed, Typed
  <2>2. Len(p) = Len(e) - 1 /\ Len(e) \in Nat
    BY <1>2, <2>1, PathFacts
  <2> QED
    BY <2>1, <2>2
<1> QED
  BY <1>1, <1>2, <1>3, <1>4 DEF OnChildSizeChanged

LEMMA OnChildSizeChangedSize == DBInv /\ SizeInv /\ OnChildSizeChanged => SizeInv'
<1> SUFFICES ASSUME DBInv, SizeInv, OnChildSizeChanged PROVE SizeInv'
  OBVIOUS
<1> DEFINE e == sizeChanged.entry
           p == Front(e)
           change == sizeChanged.change
<1>1. /\ e \in entries \ {Root} /\ p \in entries /\ p # e
      /\ pc = "rise" /\ returnTo \in {"loop", "cleanup"}
      /\ bin[e] = size[e] - change
      /\ children' = [children EXCEPT ![p] = Rebinned(e)]
      /\ bin' = [bin EXCEPT ![e] = size[e]]
      /\ size' = [size EXCEPT ![p] = @ + change]
      /\ Goto(returnTo, p, change)
  BY RisesThrough
<1>2. Typed /\ ChildSets
  BY DEF DBInv
<1>3. /\ size \in [Path -> Int] /\ bin \in [Path -> Int]
      /\ sizeChanged \in [entry : Path, change : Int]
      /\ \A d \in entries \ {Root} : d # e => bin[d] = size[d]
      /\ \A q \in Path : InBins(children[q], bin)
  BY <1>1 DEF SizeInv
<1>4. e \in Path /\ p \in Path /\ entries \subseteq Path /\ change \in Int /\ size[e] \in Int
  BY <1>1, <1>2, <1>3 DEF Typed
<1>5. UNCHANGED entries
  BY DEF OnChildSizeChanged
<1> HIDE DEF e, p, change
<1>6. /\ bin' \in [Path -> Int] /\ bin'[e] = size[e]
      /\ \A d \in Path \ {e} : bin'[d] = bin[d]
      /\ size' \in [Path -> Int] /\ size'[p] = size[p] + change
      /\ \A d \in Path \ {p} : size'[d] = size[d]
  BY <1>1, <1>3, <1>4
<1>7. /\ sizeChanged' \in [entry : Path, change : Int]
      /\ \A d \in entries' \ {Root} :
           bin'[d] = IF pc' = "rise" /\ d = sizeChanged'.entry
                       THEN size'[d] - sizeChanged'.change ELSE size'[d]
  <2>1. p \in entries' \ {Root} => bin'[p] = size'[p] - change
    <3>1. size[p] \in Int
      BY <1>3, <1>4
    <3> QED
      BY <1>1, <1>3, <1>4, <1>5, <1>6, <3>1
  <2>2. \A d \in entries' \ {Root} : d # p => bin'[d] = size'[d]
    BY <1>1, <1>3, <1>4, <1>5, <1>6
  <2>3. returnTo # "rise" /\ entries' \subseteq Path
    BY <1>1, <1>4, <1>5
  <2> QED
    BY <1>1, <1>3, <1>4, <1>6, <2>1, <2>2, <2>3, GotoBins
<1>8. \A q \in Path : children[q] \in Seq(Path) /\ ToSet(children[q]) \subseteq Path
  BY <1>2, <1>4 DEF Typed, ChildSets
<1>9. ASSUME NEW q \in Path
      PROVE  InBins(children'[q], bin')
  <2>1. CASE q = p
    <3> DEFINE w == Without(children[p], {e})
    <3>1. w \in Seq(Path) /\ ToSet(w) = ToSet(children[p]) \ {e} /\ InBins(w, bin)
      BY <1>3, <1>4, <1>8, WithoutItems, WithoutInBins
    <3> HIDE DEF w
    <3>2. /\ e \notin ToSet(w)
          /\ \A x \in ToSet(w) : bin[x] \in Int
          /\ \A x \in ToSet(w) : bin'[x] = bin[x]
      BY <1>3, <1>4, <1>6, <1>8, <3>1
    <3> DEFINE s == size[e]
    <3>9. s \in Int /\ bin'[e] = s
      BY <1>4, <1>6
    <3> HIDE DEF s
    <3>3. InBins(AddToBin(w, e, s), bin')
      <4>1. /\ w \in Seq(Path) /\ e \in Path /\ e \notin ToSet(w) /\ s \in Int
            /\ InBins(w, bin) /\ bin'[e] = s
        BY <1>4, <3>1, <3>2, <3>9
      <4>2. \A x \in ToSet(w) : bin[x] \in Int
        BY <3>2
      <4>3. \A x \in ToSet(w) : bin'[x] = bin[x]
        BY <3>2
      <4> QED
        BY <4>1, <4>2, <4>3, AddToBinInBins
    <3>4. children'[q] = AddToBin(w, e, s)
      <4>1. Rebinned(e) = AddToBin(w, e, s)
        BY DEF Rebinned, w, p, s
      <4> QED
        BY <1>1, <1>2, <1>4, <2>1, <4>1 DEF Typed
    <3> QED
      BY <3>3, <3>4
  <2>2. CASE q # p
    <3>1. children'[q] = children[q]
      BY <1>1, <1>2, <2>2 DEF Typed
    <3>2. e \notin ToSet(children[q])
      BY <1>2, <2>2 DEF ChildSets, ChildrenOf, p
    <3>3. InBins(children[q], bin) /\ \A x \in ToSet(children[q]) : bin'[x] = bin[x]
      BY <1>3, <1>6, <1>8, <3>2
    <3>4. InBins(children[q], bin')
      BY <3>3, InBinsSame
    <3> QED
      BY <3>1, <3>4
  <2> QED
    BY <2>1, <2>2
<1> QED
  BY <1>6, <1>7, <1>9 DEF SizeInv

\* The sizes of what is removed add up.
LEMMA SizesAddUp ==
    ASSUME Typed, SizeInv, NEW S \in SUBSET entries
    PROVE  Total(size, S) \in Int
<1>1. IsFiniteSet(S)
  BY FiniteEntries
<1>2. Valued(size, S)
  BY DEF Typed, SizeInv, Valued
<1> QED
  BY <1>1, <1>2, TotalFacts

LEMMA RemovePendingDeleteSize == DBInv /\ SizeInv /\ RemovePendingDelete => SizeInv'
<1> SUFFICES ASSUME DBInv, SizeInv, RemovePendingDelete PROVE SizeInv'
  OBVIOUS
<1> DEFINE change == Total(size, ToRemove)
<1>1. Typed /\ ChildSets /\ Places
  BY DEF DBInv
<1>2. /\ pc = "loop"
      /\ children' = [children EXCEPT ![parentEntry] = Without(@, ToRemove)]
      /\ size' = [size EXCEPT ![parentEntry] = @ - change]
      /\ Goto("cleanup", parentEntry, - change)
      /\ UNCHANGED <<entries, bin>>
  BY DEF RemovePendingDelete
<1>3. /\ size \in [Path -> Int] /\ bin \in [Path -> Int]
      /\ sizeChanged \in [entry : Path, change : Int]
      /\ \A d \in entries \ {Root} : bin[d] = size[d]
      /\ \A q \in Path : InBins(children[q], bin)
  BY <1>2 DEF SizeInv
<1>4. parentEntry \in Path /\ parentEntry \in entries /\ entries \subseteq Path
  BY <1>1 DEF Places, Typed
<1>5. change \in Int
  <2>1. ToRemove \in SUBSET entries
    BY <1>1, <1>4 DEF ToRemove, Marked, ChildSets
  <2> QED
    BY <1>1, <2>1, SizesAddUp
<1> HIDE DEF change
<1>6. /\ size' \in [Path -> Int] /\ size'[parentEntry] = size[parentEntry] - change
      /\ \A d \in Path \ {parentEntry} : size'[d] = size[d]
  BY <1>2, <1>3, <1>4, <1>5
<1>7. /\ sizeChanged' \in [entry : Path, change : Int]
      /\ \A d \in entries' \ {Root} :
           bin'[d] = IF pc' = "rise" /\ d = sizeChanged'.entry
                       THEN size'[d] - sizeChanged'.change ELSE size'[d]
  <2>1. - change \in Int
    BY <1>5
  <2>2. parentEntry \in entries' \ {Root} => bin'[parentEntry] = size'[parentEntry] - (- change)
    <3>1. size[parentEntry] \in Int
      BY <1>3, <1>4
    <3> QED
      BY <1>2, <1>3, <1>4, <1>5, <1>6, <3>1
  <2>3. \A d \in entries' \ {Root} : d # parentEntry => bin'[d] = size'[d]
    BY <1>2, <1>3, <1>4, <1>6
  <2> QED
    BY <1>2, <1>3, <1>4, <1>6, <2>1, <2>2, <2>3, GotoBins
<1>8. ASSUME NEW q \in Path
      PROVE  InBins(children'[q], bin')
  <2>1. children[q] \in Seq(Path) /\ InBins(children[q], bin)
    BY <1>1, <1>3 DEF Typed
  <2>2. CASE q = parentEntry
    <3>1. children'[q] = Without(children[q], ToRemove)
      BY <1>1, <1>2, <2>2 DEF Typed
    <3>2. InBins(Without(children[q], ToRemove), bin)
      BY <2>1, WithoutInBins
    <3> QED
      BY <1>2, <3>1, <3>2
  <2>3. CASE q # parentEntry
    BY <1>1, <1>2, <2>1, <2>3 DEF Typed
  <2> QED
    BY <2>2, <2>3
<1> QED
  BY <1>2, <1>3, <1>6, <1>7, <1>8 DEF SizeInv

\* What a deleted child takes with it has no place in the children of what stays.
LEMMA CleanupEntryCrcSize == DBInv /\ SizeInv /\ CleanupEntryCrc => SizeInv'
<1> SUFFICES ASSUME DBInv, SizeInv, CleanupEntryCrc PROVE SizeInv'
  OBVIOUS
<1>1. Typed /\ ChildSets /\ Places
  BY DEF DBInv
<1>2. PICK c \in deletedChildren :
         /\ entries' = entries \ Below(c)
         /\ size' = [q \in Path |-> IF q \in Below(c) THEN 0 ELSE size[q]]
         /\ bin' = [q \in Path |-> IF q \in Below(c) THEN 0 ELSE bin[q]]
         /\ children' = [q \in Path |-> IF q \in Below(c) THEN << >> ELSE children[q]]
  BY DEF CleanupEntryCrc
<1>3. pc = "cleanup" /\ pc' = "cleanup" /\ UNCHANGED sizeChanged
  BY DEF CleanupEntryCrc, riseVars
<1>4. /\ size \in [Path -> Int] /\ bin \in [Path -> Int]
      /\ sizeChanged \in [entry : Path, change : Int]
      /\ \A d \in entries \ {Root} : bin[d] = size[d]
      /\ \A q \in Path : InBins(children[q], bin)
  BY <1>3 DEF SizeInv
<1>5. c \in Path /\ entries \subseteq Path
  BY <1>1, <1>2 DEF Places, ChildrenOf, Typed
<1>6. /\ size' \in [Path -> Int] /\ bin' \in [Path -> Int]
      /\ \A d \in entries' \ {Root} : bin'[d] = size'[d]
  BY <1>2, <1>4, <1>5
<1>7. ASSUME NEW q \in Path
      PROVE  InBins(children'[q], bin')
  <2>1. CASE q \in Below(c)
    BY <1>2, <2>1 DEF InBins, IsInjective
  <2>2. CASE q \notin Below(c)
    <3>1. children'[q] = children[q] /\ InBins(children[q], bin)
      BY <1>2, <1>4, <2>2
    <3>2. ASSUME NEW x \in ToSet(children[q])
          PROVE  bin'[x] = bin[x]
      <4>1. x \in ChildrenOf(q) \intersect entries /\ x # c
        BY <1>1, <1>2 DEF ChildSets
      <4>2. x \notin Below(c)
        BY <1>5, <2>2, <4>1, BelowFacts DEF ChildrenOf
      <4> QED
        BY <1>2, <1>5, <4>1, <4>2
    <3>3. InBins(children[q], bin')
      BY <3>1, <3>2, InBinsSame
    <3> QED
      BY <3>1, <3>3
  <2> QED
    BY <2>1, <2>2
<1> QED
  BY <1>3, <1>4, <1>6, <1>7 DEF SizeInv

LEMMA StepSize == DBInv /\ SizeInv /\ [Next]_vars => SizeInv'
<1> SUFFICES ASSUME DBInv, SizeInv, [Next]_vars PROVE SizeInv'
  OBVIOUS
<1>1. CASE MarkChildren
  BY <1>1, StillSize DEF MarkChildren, riseVars, SizeInv
<1>2. CASE Finish
  BY <1>2, PathFacts, StillSize DEF Finish, entryVars
<1>3. CASE ProcessEntry
  BY <1>3, StillSize DEF ProcessEntry, entryVars, riseVars, SizeInv
<1>4. CASE UNCHANGED vars
  BY <1>4 DEF vars, entryVars, riseVars, SizeInv
<1> QED
  BY <1>1, <1>2, <1>3, <1>4, KeepEntrySize, AddEntrySize, OnChildSizeChangedSize,
     RemovePendingDeleteSize, CleanupEntryCrcSize DEF Next, SetChildrenForPath

LEMMA ListedPaths ==
    ASSUME NEW p, NEW l \in SortedListings(p)
    PROVE  \A i \in DOMAIN l : Append(p, l[i].name) \in Path
<1>1. PICK S \in SUBSET {e \in Entry : Append(p, e.name) \in Path} :
           IsFiniteSet(S) /\ l \in SetToSeqs(S)
  BY DEF SortedListings
<1>2. l \in [1 .. Cardinality(S) -> S]
  BY <1>1 DEF SetToSeqs
<1> QED
  BY <1>1, <1>2

LEMMA GotoReturns ==
    ASSUME NEW to \in {"loop", "cleanup"}, NEW e, NEW change, Goto(to, e, change),
           returnTo \in {"idle", "loop", "cleanup"}
    PROVE  returnTo' \in {"idle", "loop", "cleanup"}
BY DEF Goto, riseVars

LEMMA StepRest == DBInv /\ SizeInv /\ RestInv /\ [Next]_vars => RestInv'
<1> SUFFICES ASSUME DBInv, SizeInv, RestInv, [Next]_vars PROVE RestInv'
  OBVIOUS
<1>1. Typed /\ Places /\ ChildSets
  BY DEF DBInv
<1> USE DEF RestInv, countVars, argVars, deleteVars, riseVars, entryVars
<1>2. CASE MarkChildren
  <2>1. PICK p \in Path :
           /\ FindEntry(p) # None
           /\ path' = p
           /\ parentEntry' = FindEntry(p)
           /\ listing' \in SortedListings(p) \intersect SortedListings(FindEntry(p))
           /\ deletedDirCount' = Cardinality(ToSet(children[FindEntry(p)]) \intersect dirs)
           /\ deletedFileCount' = Cardinality(ToSet(children[FindEntry(p)]) \ dirs)
    BY <1>2 DEF MarkChildren
  <2>2. /\ next' = 1 /\ before' = Tree
        /\ UNCHANGED <<usedSpace, bHasChanges, returnTo, newPaths>>
    BY <1>2 DEF MarkChildren
  <2>3. FindEntry(p) \in entries /\ entries \subseteq Path
    BY <1>1, <2>1, FoundIsEntry DEF DBInv, Typed
  <2>4. ToSet(children[FindEntry(p)]) \subseteq entries
    BY <1>1, <2>3 DEF ChildSets
  <2>5. deletedDirCount' \in Int /\ deletedFileCount' \in Int
    <3>1. /\ ToSet(children[FindEntry(p)]) \intersect dirs \subseteq entries
          /\ ToSet(children[FindEntry(p)]) \ dirs \subseteq entries
      BY <2>4
    <3> QED
      BY <1>1, <2>1, <3>1, FiniteEntries
  <2>6. DOMAIN before' = entries
    BY <2>2 DEF Tree
  <2>7. \A i \in DOMAIN listing' : /\ Append(p, listing'[i].name) \in Path
                                   /\ Append(FindEntry(p), listing'[i].name) \in Path
    BY <2>1, ListedPaths
  <2> QED
    BY <2>1, <2>2, <2>3, <2>5, <2>6, <2>7
<1>3. CASE KeepEntry
  <2>1. PICK e \in ToSet(listing), c \in Path :
          /\ NextListed(e, c)
          /\ CountedOff(c)
          /\ IF c \in dirs
               THEN pc' = "loop" /\ UNCHANGED <<size, riseVars>>
               ELSE Goto("loop", c, e.size - size[c])
    BY <1>3 DEF KeepEntry
  <2>2. UNCHANGED <<usedSpace, bHasChanges, path, parentEntry, listing, newPaths, before>>
    BY <1>3 DEF KeepEntry
  <2>3. next' # 0
    BY <1>1, <2>1 DEF NextListed, Typed
  <2>4. deletedFileCount' \in Int /\ deletedDirCount' \in Int
    BY <2>1 DEF CountedOff
  <2>5. returnTo' \in {"idle", "loop", "cleanup"}
    BY <2>1, GotoReturns
  <2> QED
    BY <2>2, <2>3, <2>4, <2>5
<1>4. CASE AddEntry
  <2>1. PICK e \in ToSet(listing), c \in Path :
          /\ NextListed(e, c)
          /\ newPaths' = Reported(e)
          /\ Goto("loop", parentEntry, e.size)
    BY <1>4 DEF AddEntry
  <2>2. UNCHANGED <<usedSpace, bHasChanges, path, parentEntry, listing, before,
                    deletedFileCount, deletedDirCount>>
    BY <1>4 DEF AddEntry
  <2>3. next' # 0 /\ next \in DOMAIN listing /\ e = listing[next]
    BY <1>1, <2>1 DEF NextListed, Typed
  <2>4. newPaths' \in Seq(Path)
    <3>1. Append(path, e.name) \in Path
      BY <2>3
    <3> QED
      BY <2>1, <3>1 DEF Reported
  <2>5. returnTo' \in {"idle", "loop", "cleanup"}
    BY <2>1, GotoReturns
  <2> QED
    BY <2>2, <2>3, <2>4, <2>5
<1>5. CASE OnChildSizeChanged
  <2>1. Goto(returnTo, Front(sizeChanged.entry), sizeChanged.change) /\ returnTo \in {"loop", "cleanup"}
    BY <1>5, RisesThrough
  <2>2. returnTo' \in {"idle", "loop", "cleanup"}
    BY <2>1, GotoReturns
  <2> QED
    BY <1>5, <2>2 DEF OnChildSizeChanged
<1>6. CASE RemovePendingDelete
  <2>1. Goto("cleanup", parentEntry, - Total(size, ToRemove))
    BY <1>6 DEF RemovePendingDelete
  <2>2. returnTo' \in {"idle", "loop", "cleanup"}
    BY <2>1, GotoReturns
  <2> QED
    BY <1>6, <2>2 DEF RemovePendingDelete
<1>7. CASE CleanupEntryCrc
  BY <1>7 DEF CleanupEntryCrc
<1>8. CASE Finish
  BY <1>8, PathFacts DEF Finish, SizeInv
<1>9. CASE ProcessEntry
  BY <1>9 DEF ProcessEntry
<1>10. CASE UNCHANGED vars
  BY <1>10 DEF vars
<1> QED
  BY <1>2, <1>3, <1>4, <1>5, <1>6, <1>7, <1>8, <1>9, <1>10 DEF Next, SetChildrenForPath

FullInv == DBInv /\ SizeInv /\ RestInv

\* So do the sizes, the bins and what is left of a call (SizeInv and RestInv above).
THEOREM FullInvAlways == Spec => []FullInv
<1>1. Init => FullInv
  BY InitInv, InitSize DEF FullInv
<1>2. FullInv /\ [Next]_vars => FullInv'
  BY StepInv, StepSize, StepRest DEF FullInv
<1> QED
  BY <1>1, <1>2, PTL DEF Spec

-----------------------------------------------------------------------------
(* Finding by path *)

\* The names of p whose CRC has bit b
Having(p, b) == {i \in DOMAIN p : b \in NameCrc[p[i]]}

LEMMA Parity ==
    ASSUME NEW x \in Nat, NEW y \in Nat, NEW z \in Nat, x = y - z,
           x % 2 = 1 <=> y % 2 = 1
    PROVE  z % 2 # 1
BY SMTT(30)

\* The CRCs of the two parts of a path add up to its own; if that of the second is
\* that of the whole, that of the first is empty.
LEMMA CrcOfRest ==
    ASSUME NEW p \in Seq(Name), NEW e \in Seq(Name), NEW k \in Nat,
           Len(p) = Len(e) + k,
           \A i \in 1 .. Len(e) : e[i] = p[i + k],
           PathCrc(e) = PathCrc(p)
    PROVE  PathCrc(SubSeq(p, 1, k)) = {}
<1> DEFINE d == SubSeq(p, 1, k)
<1>1. /\ Len(p) \in Nat /\ DOMAIN p = 1 .. Len(p)
      /\ Len(e) \in Nat /\ DOMAIN e = 1 .. Len(e)
      /\ k <= Len(p)
  OBVIOUS
<1>2. DOMAIN d = 1 .. k /\ \A i \in 1 .. k : d[i] = p[i]
  <2>1. \A i \in 1 .. k : p[i] \in Name
    BY <1>1
  <2>2. /\ d \in Seq(Name)
        /\ Len(d) = IF 1 <= k THEN k - 1 + 1 ELSE 0
        /\ \A i \in 1 .. k - 1 + 1 : d[i] = p[1 + i - 1]
    BY <2>1, SubSeqProperties
  <2> HIDE DEF d
  <2>3. Len(d) = k /\ DOMAIN d = 1 .. Len(d)
    BY <2>2
  <2>4. \A i \in 1 .. k : i \in 1 .. k - 1 + 1 /\ 1 + i - 1 = i
    OBVIOUS
  <2> QED
    BY <2>2, <2>3, <2>4
<1> HIDE DEF d
<1>3. ASSUME NEW b \in Bit
      PROVE  b \notin PathCrc(d)
  <2> DEFINE rest == {i \in Having(p, b) : i > k}
             f    == [i \in Having(e, b) |-> i + k]
  <2>1. IsFiniteSet(Having(p, b)) /\ IsFiniteSet(Having(e, b))
    <3>1. IsFiniteSet(1 .. Len(p)) /\ IsFiniteSet(1 .. Len(e))
      BY <1>1, FS_Interval
    <3> QED
      BY <1>1, <3>1, FS_Subset DEF Having
  <2>2. Having(d, b) \subseteq Having(p, b) /\ rest = Having(p, b) \ Having(d, b)
    BY <1>1, <1>2 DEF Having
  <2>3. Cardinality(rest) = Cardinality(Having(e, b))
    <3>1. \A i \in Having(e, b) : i \in 1 .. Len(e) /\ e[i] = p[i + k]
      BY <1>1 DEF Having
    <3>2. \A i \in Having(e, b) : i + k \in rest
      BY <1>1, <3>1 DEF Having
    <3>3. ASSUME NEW j \in rest
          PROVE  j - k \in Having(e, b) /\ (j - k) + k = j
      <4>1. j \in 1 .. Len(p) /\ j > k /\ b \in NameCrc[p[j]]
        BY <1>1 DEF Having
      <4>2. j - k \in 1 .. Len(e) /\ (j - k) + k = j
        BY <1>1, <4>1
      <4>3. e[j - k] = p[j]
        BY <4>2
      <4> QED
        BY <1>1, <4>1, <4>2, <4>3 DEF Having
    <3>4. \A i, j \in Having(e, b) : i + k = j + k => i = j
      BY <1>1, <3>1
    <3>5. f \in Bijection(Having(e, b), rest)
      <4>1. f \in [Having(e, b) -> rest]
        BY <3>2
      <4>2. IsInjective(f)
        BY <3>4 DEF IsInjective
      <4>3. \A j \in rest : \E i \in Having(e, b) : f[i] = j
        BY <3>3
      <4> QED
        BY <4>1, <4>2, <4>3 DEF Bijection, Injection, Surjection
    <3>6. ExistsBijection(Having(e, b), rest)
      BY <3>5 DEF ExistsBijection
    <3> QED
      BY <2>1, <3>6, FS_Bijection
  <2>4. Cardinality(rest) = Cardinality(Having(p, b)) - Cardinality(Having(d, b))
    <3>1. Having(p, b) \intersect Having(d, b) = Having(d, b)
      BY <2>2
    <3> QED
      BY <2>1, <2>2, <3>1, FS_Difference
  <2>5. /\ Cardinality(Having(p, b)) \in Nat
        /\ Cardinality(Having(e, b)) \in Nat
        /\ Cardinality(Having(d, b)) \in Nat
    BY <2>1, <2>2, FS_Subset, FS_CardinalityType
  <2>6. Cardinality(Having(e, b)) % 2 = 1 <=> Cardinality(Having(p, b)) % 2 = 1
    BY <1>3 DEF PathCrc, Having
  <2>7. Cardinality(Having(d, b)) % 2 # 1
    BY <2>3, <2>4, <2>5, <2>6, Parity
  <2> QED
    BY <2>7 DEF PathCrc, Having
<1> QED
  BY <1>3 DEF d, PathCrc

\* What the bucket of a path has that matches it is the entry of that path, or one
\* it may be mistaken for.
LEMMA HitIsEntry ==
    ASSUME NEW p \in Path, NEW e \in Path \ {Root},
           PathCrc(e) = PathCrc(p), NamesMatch(e, p)
    PROVE  e \in {p} \union Mistaken(p)
<1>1. /\ p \in Seq(Name) /\ Len(p) \in Nat
      /\ e \in Seq(Name) /\ Len(e) \in Nat /\ Len(e) # 0
  BY PathFacts DEF Root
<1> DEFINE k == Len(p) - Len(e)
<1>2. k \in Nat /\ Len(p) = Len(e) + k
  BY <1>1 DEF NamesMatch
<1>3. \A i \in 1 .. Len(e) : i + Len(p) - Len(e) = i + k
  BY <1>1
<1>4. \A i \in 1 .. Len(e) : e[i] = p[i + k]
  BY <1>1, <1>3 DEF NamesMatch
<1>5. PathCrc(SubSeq(p, 1, k)) = {}
  <2> HIDE DEF k
  <2> QED
    BY <1>1, <1>2, <1>4, CrcOfRest
<1>6. CASE k = 0
  <2>1. Len(e) = Len(p)
    BY <1>1, <1>2, <1>6
  <2>2. \A i \in 1 .. Len(e) : e[i] = p[i]
    BY <1>1, <1>4, <1>6
  <2> QED
    BY <1>1, <2>1, <2>2, SeqEqual
<1>7. CASE k # 0
  <2>1. Len(e) < Len(p)
    BY <1>1, <1>2, <1>7
  <2> QED
    BY <1>5, <2>1 DEF Mistaken
<1> QED
  BY <1>6, <1>7

LEMMA MapFinds ==
    ASSUME Typed, MapMatchesTree, NEW p \in Path
    PROVE  /\ p \in entries => FindEntry(p) # None
           /\ FindEntry(p) # None => /\ FindEntry(p) \in entries
                                     /\ FindEntry(p) \in {p} \union Mistaken(p)
<1> DEFINE bucket == entriesMap[PathCrc(p)]
           hits   == {k \in DOMAIN bucket : NamesMatch(bucket[k], p)}
<1>1. CASE p = Root
  BY <1>1, FileDBAssumption DEF FindEntry, Typed, Root
<1>2. CASE p # Root
  <2>1. /\ bucket \in Seq(Path)
        /\ ToSet(bucket) = {e \in entries \ {Root} : PathCrc(e) = PathCrc(p)}
    BY CrcType DEF Typed, MapMatchesTree
  <2>2. \A k \in DOMAIN bucket : bucket[k] \in ToSet(bucket)
    BY DEF ToSet
  <2>3. ASSUME NEW k \in hits
        PROVE  bucket[k] \in entries /\ bucket[k] \in {p} \union Mistaken(p)
    <3>1. /\ bucket[k] \in entries \ {Root} /\ PathCrc(bucket[k]) = PathCrc(p)
          /\ NamesMatch(bucket[k], p)
      BY <2>1, <2>2
    <3> QED
      BY <3>1, HitIsEntry DEF Typed
  <2>4. CASE hits = {}
    <3>1. p \notin entries
      <4> SUFFICES ASSUME p \in entries PROVE FALSE
        OBVIOUS
      <4>1. PICK k \in DOMAIN bucket : bucket[k] = p
        BY <1>2, <2>1 DEF ToSet
      <4>2. NamesMatch(p, p)
        <5>1. p \in Seq(Name)
          BY PathFacts
        <5>2. /\ Len(p) \in Nat /\ DOMAIN p = 1 .. Len(p)
          BY <5>1
        <5>3. \A i \in DOMAIN p : i + Len(p) - Len(p) = i
          BY <5>2
        <5> QED
          BY <5>2, <5>3 DEF NamesMatch
      <4> QED
        BY <2>4, <4>1, <4>2
    <3> QED
      BY <1>2, <2>4, <3>1 DEF FindEntry
  <2>5. CASE hits # {}
    <3>1. FindEntry(p) = bucket[Min(hits)]
      BY <1>2, <2>5 DEF FindEntry
    <3>2. Len(bucket) \in Nat /\ hits \in SUBSET (1 .. Len(bucket))
      BY <2>1
    <3>3. Min(hits) \in hits
      <4> HIDE DEF hits
      <4> QED
        BY <2>5, <3>2, MinIsMember
    <3>4. FindEntry(p) \in entries /\ FindEntry(p) \in {p} \union Mistaken(p)
      BY <2>3, <3>1, <3>3
    <3> QED
      BY <3>4, FileDBAssumption DEF Typed
  <2> QED
    BY <2>4, <2>5
<1> QED
  BY <1>1, <1>2

-----------------------------------------------------------------------------
(* What a call does *)

\* The names on a listing are those of what may be a directory or of what may be a
\* file: nothing that was the one is the other later.
NoTypeChange == \A n \in Name : Kind[n] # BOOLEAN

Listed(i) == Append(parentEntry, listing[i].name)

\* What the listing gives up to where the call is
Names == {listing[i].name : i \in {i \in DOMAIN listing : i < next}}
Given == {Append(parentEntry, n) : n \in Names}

\* The children there were that are not listed
Lost == {q \in ChildrenOf(parentEntry) \intersect DOMAIN before : Last(q) \notin Names}

\* What was in the tree when the call began, what was listed since, and what was
\* removed: what is in it now.
CallInv ==
    /\ before \in [DOMAIN before -> [dir : BOOLEAN, size : Int]]
    /\ At # "idle" =>
        /\ parentEntry \in DOMAIN before
        /\ \A q \in DOMAIN before \intersect entries : before[q].dir <=> q \in dirs
        /\ \A i \in DOMAIN listing :
             i < next /\ Listed(i) \notin DOMAIN before => (listing[i].dir <=> Listed(i) \in dirs)
    /\ At = "loop" =>
        /\ entries = DOMAIN before \union Given
        /\ pendingDelete = Lost
    /\ At = "cleanup" =>
        /\ next \notin DOMAIN listing
        /\ deletedChildren \subseteq Lost
        /\ entries = {q \in DOMAIN before \union Given :
                        \A g \in Lost \ deletedChildren : q \notin Below(g)}

\* The directories that are new
New == (ChildrenOf(parentEntry) \intersect dirs) \ (DOMAIN before \union deletedChildren)

\* They are what is to be scanned next.
NewInv ==
    /\ IsInjective(newPaths)
    /\ At = "idle" => newPaths = << >>
    /\ At # "idle" => ToSet(newPaths) = {Append(path, Last(c)) : c \in New}

LEMMA ChildPath ==
    ASSUME NEW q \in Path \ {Root}
    PROVE  q = Append(Front(q), Last(q))
<1>1. q \in Seq(Name) /\ q # << >>
  BY PathFacts DEF Root
<1>2. Len(q) \in Nat /\ Len(q) # 0 /\ \A i \in 1 .. Len(q) : q[i] \in Name
  BY <1>1
<1> QED
  BY <1>1, <1>2 DEF Front, Last

\* Below a child of p there is no other child of p, nor p.
LEMMA ChildrenApart ==
    ASSUME NEW p \in Path, NEW c \in ChildrenOf(p)
    PROVE  /\ c \in Path \ {Root} /\ Front(c) = p /\ p \notin Below(c)
           /\ \A q \in ChildrenOf(p) : q \in Below(c) => q = c
<1>1. c \in Path \ {Root} /\ Front(c) = p
  BY DEF ChildrenOf
<1>2. p \notin Below(c)
  <2>1. /\ Len(c) \in Nat /\ Len(p) = Len(c) - 1
        /\ c \in Seq(Name) /\ p \in Seq(Name)
    BY <1>1, PathFacts
  <2> QED
    BY <2>1, PrefixPointwise DEF Below
<1>3. \A q \in Below(c) : q = c \/ (q # Root /\ Front(q) \in Below(c))
  BY <1>1, BelowFacts
<1> QED
  BY <1>1, <1>2, <1>3 DEF ChildrenOf

\* The next entry is listed with none of the names before.
LEMMA NextGiven ==
    ASSUME DBInv, RestInv, CallInv, NEW e, NEW c \in Path, NextListed(e, c),
           UNCHANGED <<parentEntry, listing>>
    PROVE  /\ At = "loop" /\ next \in DOMAIN listing /\ e = listing[next] /\ c = Listed(next)
           /\ c \in ChildrenOf(parentEntry) /\ Last(c) = listing[next].name
           /\ parentEntry \in Path
           /\ \A i \in DOMAIN listing : i < next' <=> i < next \/ i = next
           /\ \A i \in DOMAIN listing : i < next => Listed(i) # c
           /\ Names' = Names \union {listing[next].name}
           /\ Given' = Given \union {c}
           /\ c \notin Given
<1>1. Typed /\ Places /\ Marks
  BY DEF DBInv
<1>2. /\ At = "loop" /\ next \in DOMAIN listing /\ e = listing[next]
      /\ c = Append(parentEntry, listing[next].name)
      /\ next' = next + 1
  BY DEF NextListed, At
<1>3. parentEntry \in Path
  BY <1>2 DEF CallInv, RestInv
<1>4. c = Listed(next)
  BY <1>2, <1>3 DEF Listed
<1>5. c # Root /\ Front(c) = parentEntry /\ Last(c) = listing[next].name
  BY <1>2, <1>3, AppendedPath
<1>6. c \in ChildrenOf(parentEntry)
  BY <1>5 DEF ChildrenOf
<1>7. \A i \in DOMAIN listing : i \in Nat
  BY <1>1 DEF Typed
<1>8. \A i \in DOMAIN listing : i < next' <=> i < next \/ i = next
  BY <1>1, <1>2, <1>7 DEF Typed
<1>9. ASSUME NEW i \in DOMAIN listing, i < next
      PROVE  Listed(i) # c
  <2>1. Last(Listed(i)) = listing[i].name
    BY <1>3, AppendedPath DEF RestInv, Listed
  <2>2. i # next
    BY <1>1, <1>2, <1>7, <1>9 DEF Typed
  <2> QED
    BY <1>1, <1>2, <1>5, <2>1, <2>2 DEF Marks
<1>10. Names' = Names \union {listing[next].name}
  BY <1>2, <1>8 DEF Names
<1>11. Given' = Given \union {c}
  BY <1>2, <1>3, <1>10 DEF Given
<1>12. c \notin Given
  BY <1>9 DEF Given, Names, Listed
<1> QED
  BY <1>2, <1>3, <1>4, <1>5, <1>6, <1>8, <1>9, <1>10, <1>11, <1>12

\* Nothing changes that CallInv and NewInv are about.
LEMMA SameCall ==
    ASSUME CallInv, NewInv, At' = At,
           UNCHANGED <<before, entries, dirs, path, parentEntry, listing, next,
                       pendingDelete, deletedChildren, newPaths>>
    PROVE  CallInv' /\ NewInv'
<1>1. Names' = Names
  BY DEF Names
<1>2. Given' = Given /\ Lost' = Lost
  BY <1>1 DEF Given, Lost, ChildrenOf
<1>3. \A i : Listed(i)' = Listed(i)
  BY DEF Listed
<1>4. CallInv'
  BY <1>2, <1>3 DEF CallInv, Below
<1>5. NewInv'
  BY DEF NewInv, New, ChildrenOf
<1> QED
  BY <1>4, <1>5

LEMMA MarkChildrenCall ==
    ASSUME DBInv, SizeInv, NewInv, MarkChildren
    PROVE  CallInv' /\ NewInv'
<1>1. Typed /\ ChildSets /\ Places /\ Marks /\ MapMatchesTree
  BY DEF DBInv
<1>2. PICK p \in Path :
        /\ FindEntry(p) # None
        /\ path' = p
        /\ parentEntry' = FindEntry(p)
        /\ pendingDelete' = pendingDelete \union ToSet(children[FindEntry(p)])
  BY DEF MarkChildren
<1>3. /\ pc = "idle" /\ pc' = "loop" /\ next' = 1 /\ before' = Tree
      /\ UNCHANGED <<entries, dirs, size, children, deletedChildren, newPaths>>
  BY DEF MarkChildren
<1>4. At = "idle" /\ At' = "loop"
  BY <1>3 DEF At
<1>5. FindEntry(p) \in entries
  BY <1>1, <1>2, MapFinds
<1>6. deletedChildren = {} /\ pendingDelete = {}
  BY <1>1, <1>4 DEF Places, Marks
<1>7. /\ before' = [q \in entries |-> [dir |-> q \in dirs, size |-> OwnSize(q)]]
      /\ DOMAIN before' = entries
      /\ \A q \in entries : before'[q] = [dir |-> q \in dirs, size |-> OwnSize(q)]
  BY <1>3 DEF Tree
<1>8. ASSUME NEW q \in entries
      PROVE  OwnSize(q) \in Int
  <2>1. q \in Path /\ size[q] \in Int
    BY <1>1 DEF Typed, SizeInv
  <2>2. ToSet(children[q]) \in SUBSET entries
    BY <1>1, <2>1 DEF ChildSets
  <2>3. Total(size, ToSet(children[q])) \in Int
    BY <1>1, <2>2, SizesAddUp
  <2> QED
    BY <2>1, <2>3 DEF OwnSize
<1>9. before' \in [DOMAIN before' -> [dir : BOOLEAN, size : Int]]
  BY <1>7, <1>8
<1>10. \A q \in entries : before'[q].dir <=> q \in dirs
  BY <1>7
<1>11. \A i \in DOMAIN listing' : ~ (i < next')
  <2>1. Typed'
    BY MarkChildrenInv DEF DBInv
  <2> QED
    BY <1>3, <2>1 DEF Typed
<1>12. Names' = {} /\ Given' = {}
  <2>1. Names' = {}
    BY <1>11 DEF Names
  <2> QED
    BY <2>1 DEF Given
<1>13. Lost' = ChildrenOf(FindEntry(p)) \intersect entries
  BY <1>2, <1>7, <1>12 DEF Lost, ChildrenOf
<1>14. pendingDelete' = Lost'
  BY <1>1, <1>2, <1>5, <1>6, <1>13 DEF ChildSets, Typed
<1>15. CallInv'
  BY <1>2, <1>3, <1>4, <1>5, <1>7, <1>9, <1>10, <1>12, <1>14, <1>11 DEF CallInv
<1>16. NewInv'
  <2>1. newPaths = << >> /\ ToSet(newPaths) = {}
    BY <1>4 DEF NewInv, ToSet
  <2>2. dirs \subseteq entries
    BY <1>1 DEF Typed
  <2>3. New' = {}
    BY <1>3, <1>7, <2>2 DEF New
  <2> QED
    BY <1>3, <1>4, <2>1, <2>3 DEF NewInv
<1> QED
  BY <1>15, <1>16

LEMMA KeepEntryCall ==
    ASSUME DBInv, RestInv, CallInv, NewInv, KeepEntry
    PROVE  CallInv' /\ NewInv'
<1>1. Typed /\ Places /\ MapMatchesTree
  BY DEF DBInv
<1>2. PICK e \in ToSet(listing), c \in Path :
        /\ NextListed(e, c)
        /\ HasChild(parentEntry, e.name)
        /\ pendingDelete' = pendingDelete \ {c}
        /\ IF c \in dirs
             THEN pc' = "loop" /\ UNCHANGED <<size, riseVars>>
             ELSE Goto("loop", c, e.size - size[c])
  BY DEF KeepEntry
<1>3. UNCHANGED <<before, entries, dirs, path, parentEntry, listing, deletedChildren, newPaths>>
  BY DEF KeepEntry, argVars
<1>4. At' = "loop"
  BY <1>2, GotoAt DEF At
<1>5. /\ At = "loop" /\ next \in DOMAIN listing /\ e = listing[next] /\ c = Listed(next)
      /\ c \in ChildrenOf(parentEntry) /\ Last(c) = listing[next].name
      /\ parentEntry \in Path
      /\ \A i \in DOMAIN listing : i < next' <=> i < next \/ i = next
      /\ Names' = Names \union {listing[next].name}
      /\ Given' = Given \union {c}
      /\ c \notin Given
  BY <1>2, <1>3, NextGiven
<1>6. c \in entries
  BY <1>1, <1>2, <1>5, ChildIsEntry DEF Listed
<1>7. entries = DOMAIN before \union Given /\ pendingDelete = Lost
  BY <1>5 DEF CallInv
<1>8. c \in DOMAIN before
  BY <1>5, <1>6, <1>7
<1>9. Lost' = Lost \ {c}
  <2>1. \A q \in ChildrenOf(parentEntry) : Last(q) = Last(c) => q = c
    BY <1>5, ChildPath DEF ChildrenOf
  <2> QED
    BY <1>3, <1>5, <2>1 DEF Lost, ChildrenOf
<1>10. \A i : Listed(i)' = Listed(i)
  BY <1>3 DEF Listed
<1>11. \A i \in DOMAIN listing :
         i < next' /\ Listed(i) \notin DOMAIN before => (listing[i].dir <=> Listed(i) \in dirs)
  BY <1>5, <1>8 DEF CallInv
<1>12. CallInv'
  BY <1>2, <1>3, <1>4, <1>5, <1>6, <1>7, <1>9, <1>10, <1>11 DEF CallInv
<1>13. NewInv'
  BY <1>3, <1>4, <1>5 DEF NewInv, New, ChildrenOf
<1> QED
  BY <1>12, <1>13

LEMMA AddEntryCall ==
    ASSUME DBInv, RestInv, CallInv, NewInv, AddEntry
    PROVE  CallInv' /\ NewInv'
<1>1. Typed /\ Places /\ MapMatchesTree
  BY DEF DBInv
<1>2. PICK e \in ToSet(listing), c \in Path :
        /\ NextListed(e, c)
        /\ ~ HasChild(parentEntry, e.name)
        /\ entries' = entries \union {c}
        /\ dirs' = IF e.dir THEN dirs \union {c} ELSE dirs
        /\ newPaths' = Reported(e)
        /\ Goto("loop", parentEntry, e.size)
  BY DEF AddEntry
<1>3. UNCHANGED <<before, path, parentEntry, listing, pendingDelete, deletedChildren>>
  BY DEF AddEntry, argVars, deleteVars
<1>4. At' = "loop"
  BY <1>2, GotoAt
<1>5. /\ At = "loop" /\ next \in DOMAIN listing /\ e = listing[next] /\ c = Listed(next)
      /\ c \in ChildrenOf(parentEntry) /\ Last(c) = e.name
      /\ parentEntry \in Path
      /\ \A i \in DOMAIN listing : i < next' <=> i < next \/ i = next
      /\ \A i \in DOMAIN listing : i < next => Listed(i) # c
      /\ Names' = Names \union {listing[next].name}
      /\ Given' = Given \union {c}
  BY <1>2, <1>3, NextGiven
<1>6. c \notin entries
  BY <1>1, <1>2, <1>5, ChildIsEntry DEF Listed
<1>7. entries = DOMAIN before \union Given /\ pendingDelete = Lost
  BY <1>5 DEF CallInv
<1>8. c \notin DOMAIN before /\ c \notin dirs /\ dirs \subseteq entries
  BY <1>1, <1>6, <1>7 DEF Typed
<1>9. Lost' = Lost
  <2>1. \A q \in ChildrenOf(parentEntry) : Last(q) = listing[next].name => q = c
    BY <1>5, ChildPath DEF ChildrenOf, Listed
  <2> QED
    BY <1>3, <1>5, <1>8, <2>1 DEF Lost, ChildrenOf
<1>10. \A i : Listed(i)' = Listed(i)
  BY <1>3 DEF Listed
<1>11. c \in dirs' <=> e.dir
  BY <1>2, <1>8
<1>12. \A q \in Path : q # c => (q \in dirs' <=> q \in dirs)
  BY <1>2
<1>13. ASSUME NEW i \in DOMAIN listing, i < next', Listed(i) \notin DOMAIN before
       PROVE  listing[i].dir <=> Listed(i) \in dirs'
  <2>1. CASE i = next
    BY <1>5, <1>11, <2>1
  <2>2. CASE i # next
    <3>1. i < next /\ Listed(i) # c /\ Listed(i) \in Path
      BY <1>5, <1>13, <2>2 DEF RestInv, Listed
    <3> QED
      BY <1>5, <1>12, <1>13, <3>1 DEF CallInv
  <2> QED
    BY <2>1, <2>2
<1>14. \A q \in DOMAIN before \intersect entries' : before[q].dir <=> q \in dirs'
  BY <1>2, <1>5, <1>8, <1>12 DEF CallInv
<1>15. CallInv'
  BY <1>2, <1>3, <1>4, <1>5, <1>7, <1>9, <1>10, <1>13, <1>14 DEF CallInv
<1>16. NewInv'
  <2>1. deletedChildren = {}
    BY <1>1, <1>5 DEF Places
  <2>2. /\ newPaths \in Seq(Path) /\ IsInjective(newPaths)
        /\ ToSet(newPaths) = {Append(path, Last(d)) : d \in New}
        /\ New = (ChildrenOf(parentEntry) \intersect dirs) \ DOMAIN before
    BY <1>5, <2>1 DEF NewInv, New, RestInv
  <2> DEFINE n == Append(path, e.name)
  <2>3. CASE e.dir
    <3>1. newPaths' = Append(newPaths, n)
      BY <1>2, <2>3 DEF Reported
    <3>2. n \in Path /\ path \in Path /\ n = Append(path, Last(c)) /\ Last(n) = Last(c)
      BY <1>5, AppendedPath DEF RestInv
    <3>3. n \notin ToSet(newPaths)
      <4> SUFFICES ASSUME NEW d \in New, n = Append(path, Last(d)) PROVE FALSE
        BY <2>2
      <4>1. Last(d) = Last(c) /\ d \in ChildrenOf(parentEntry) /\ d \in dirs
        BY <2>2, <3>2, AppendedPath
      <4>2. d = c
        BY <1>5, <4>1, ChildPath DEF ChildrenOf
      <4> QED
        BY <1>8, <4>1, <4>2
    <3>4. /\ ToSet(Append(newPaths, n)) = ToSet(newPaths) \union {n}
          /\ IsInjective(Append(newPaths, n))
      <4>1. n \in Path /\ newPaths \in Seq(Path) /\ IsInjective(newPaths)
        BY <2>2, <3>2
      <4> HIDE DEF n
      <4> QED
        BY <3>3, <4>1, AppendDistinct
    <3>5. New' = New \union {c}
      <4>1. dirs' = dirs \union {c} /\ deletedChildren' = {} /\ before' = before
        BY <1>2, <1>3, <2>1, <2>3
      <4>2. New' = (ChildrenOf(parentEntry) \intersect dirs') \ DOMAIN before
        BY <1>3, <4>1 DEF New, ChildrenOf
      <4> QED
        BY <1>5, <1>8, <2>2, <4>1, <4>2
    <3>6. ToSet(newPaths') = {Append(path, Last(d)) : d \in New'}
      BY <2>2, <3>1, <3>2, <3>4, <3>5
    <3> QED
      BY <1>3, <1>4, <3>1, <3>4, <3>6 DEF NewInv
  <2>4. CASE ~ e.dir
    <3>1. newPaths' = newPaths /\ dirs' = dirs
      BY <1>2, <2>4 DEF Reported
    <3> QED
      BY <1>3, <1>4, <2>1, <2>2, <3>1 DEF NewInv, New, ChildrenOf
  <2> QED
    BY <2>3, <2>4
<1> QED
  BY <1>15, <1>16

LEMMA RemovePendingDeleteCall ==
    ASSUME DBInv, CallInv, NewInv, RemovePendingDelete
    PROVE  CallInv' /\ NewInv'
<1>1. /\ pc = "loop" /\ next \notin DOMAIN listing
      /\ deletedChildren' = ToRemove
      /\ Goto("cleanup", parentEntry, - Total(size, ToRemove))
      /\ UNCHANGED <<before, entries, dirs, path, parentEntry, listing, next, newPaths>>
  BY DEF RemovePendingDelete, argVars
<1>2. At = "loop" /\ At' = "cleanup"
  BY <1>1, GotoAt DEF At
<1>3. ToRemove = Lost /\ entries = DOMAIN before \union Given
  BY <1>1, <1>2, RemovesMarked DEF CallInv
<1>4. Names' = Names
  BY <1>1 DEF Names
<1>5. Given' = Given /\ Lost' = Lost
  BY <1>1, <1>4 DEF Given, Lost, ChildrenOf
<1>6. \A i : Listed(i)' = Listed(i)
  BY <1>1 DEF Listed
<1>7. CallInv'
  BY <1>1, <1>2, <1>3, <1>5, <1>6 DEF CallInv
<1>8. NewInv'
  <2>1. deletedChildren = {}
    BY <1>2 DEF DBInv, Places
  <2>2. deletedChildren' \subseteq DOMAIN before
    BY <1>1, <1>3 DEF Lost
  <2>3. New' = New
    BY <1>1, <2>1, <2>2 DEF New, ChildrenOf
  <2> QED
    BY <1>1, <1>2, <2>3 DEF NewInv
<1> QED
  BY <1>7, <1>8

LEMMA CleanupEntryCrcCall ==
    ASSUME DBInv, RestInv, CallInv, NewInv, CleanupEntryCrc
    PROVE  CallInv' /\ NewInv'
<1>1. PICK c \in deletedChildren :
         /\ deletedChildren' = deletedChildren \ {c}
         /\ entries' = entries \ Below(c)
         /\ dirs' = dirs \ Below(c)
  BY DEF CleanupEntryCrc
<1>2. /\ pc = "cleanup"
      /\ UNCHANGED <<before, path, parentEntry, listing, next, pc, newPaths>>
  BY DEF CleanupEntryCrc, argVars
<1>3. At = "cleanup" /\ At' = "cleanup"
  BY <1>2 DEF At
<1>4. /\ parentEntry \in Path /\ parentEntry \in DOMAIN before
      /\ next \notin DOMAIN listing
      /\ c \in Lost /\ deletedChildren \subseteq Lost
  BY <1>3 DEF CallInv, RestInv
<1>5. c \in ChildrenOf(parentEntry) /\ c \in DOMAIN before
  BY <1>4 DEF Lost
<1>6. parentEntry \notin Below(c) /\ \A q \in ChildrenOf(parentEntry) : q \in Below(c) => q = c
  BY <1>4, <1>5, ChildrenApart
<1>7. Names' = Names
  BY <1>2 DEF Names
<1>8. Given' = Given /\ Lost' = Lost
  BY <1>2, <1>7 DEF Given, Lost, ChildrenOf
<1>9. \A i : Listed(i)' = Listed(i)
  BY <1>2 DEF Listed
<1>10. ASSUME NEW i \in DOMAIN listing, i < next, Listed(i) \notin DOMAIN before
       PROVE  listing[i].dir <=> Listed(i) \in dirs'
  <2>1. Listed(i) \in ChildrenOf(parentEntry)
    BY <1>4, AppendedPath DEF RestInv, Listed, ChildrenOf
  <2>2. Listed(i) \notin Below(c)
    BY <1>5, <1>6, <1>10, <2>1
  <2> QED
    BY <1>1, <1>3, <1>10, <2>2 DEF CallInv
<1>11. \A q \in DOMAIN before \intersect entries' : before[q].dir <=> q \in dirs'
  BY <1>1, <1>3 DEF CallInv
<1>12. entries' = {q \in DOMAIN before \union Given :
                     \A g \in Lost \ deletedChildren' : q \notin Below(g)}
  <2>1. entries = {q \in DOMAIN before \union Given :
                     \A g \in Lost \ deletedChildren : q \notin Below(g)}
    BY <1>3 DEF CallInv
  <2> QED
    BY <1>1, <1>4, <2>1
<1>13. CallInv'
  BY <1>1, <1>2, <1>3, <1>4, <1>8, <1>9, <1>10, <1>11, <1>12 DEF CallInv, Below
<1>14. NewInv'
  <2>1. ChildrenOf(parentEntry) \intersect dirs' = (ChildrenOf(parentEntry) \intersect dirs) \ {c}
    <3>1. c \in Below(c)
      BY <1>5, BelowFacts DEF ChildrenOf
    <3> QED
      BY <1>1, <1>6, <3>1
  <2>2. New' = New
    BY <1>1, <1>2, <1>5, <2>1 DEF New, ChildrenOf
  <2> QED
    BY <1>2, <1>3, <2>2 DEF NewInv
<1> QED
  BY <1>13, <1>14

LEMMA StepCall ==
    ASSUME FullInv, CallInv, NewInv, [Next]_vars
    PROVE  CallInv' /\ NewInv'
<1>1. DBInv /\ SizeInv /\ RestInv
  BY DEF FullInv
<1>2. CASE OnChildSizeChanged
  <2>1. Goto(returnTo, Front(sizeChanged.entry), sizeChanged.change)
        /\ returnTo \in {"loop", "cleanup"} /\ pc = "rise"
    BY <1>1, <1>2, RisesThrough
  <2>2. At' = At
    BY <2>1, GotoAt DEF At
  <2> QED
    BY <1>2, <2>2, SameCall DEF OnChildSizeChanged, argVars, deleteVars
<1>3. CASE Finish
  <2>1. At' = "idle" /\ newPaths' = << >> /\ before' = before
    BY <1>3 DEF Finish, At
  <2> QED
    BY <2>1 DEF CallInv, NewInv, IsInjective
<1>4. CASE ProcessEntry
  <2>1. At' = At
    BY <1>4 DEF ProcessEntry, At
  <2> QED
    BY <1>4, <2>1, SameCall DEF ProcessEntry, argVars, deleteVars, entryVars
<1>5. CASE UNCHANGED vars
  <2>1. At' = At
    BY <1>5 DEF vars, riseVars, At
  <2> QED
    BY <1>5, <2>1, SameCall DEF vars, argVars, deleteVars, entryVars
<1> QED
  BY <1>1, <1>2, <1>3, <1>4, <1>5, MarkChildrenCall, KeepEntryCall, AddEntryCall,
     RemovePendingDeleteCall, CleanupEntryCrcCall DEF Next, SetChildrenForPath

LEMMA InitCall == Init => CallInv /\ NewInv
<1> SUFFICES ASSUME Init PROVE CallInv /\ NewInv
  OBVIOUS
<1>1. At = "idle" /\ newPaths = << >> /\ before = [p \in {Root} |-> [dir |-> TRUE, size |-> 0]]
  BY DEF Init, At
<1>2. before \in [DOMAIN before -> [dir : BOOLEAN, size : Int]]
  BY <1>1
<1> QED
  BY <1>1, <1>2 DEF CallInv, NewInv, IsInjective

ReportInv == FullInv /\ CallInv /\ NewInv

\* A call has kept and marked what it must, in the entry it has found (CallInv, NewInv).
THEOREM ReportInvAlways == Spec => []ReportInv
<1>1. Init => ReportInv
  BY InitInv, InitSize, InitCall DEF ReportInv, FullInv
<1>2. ReportInv /\ [Next]_vars => ReportInv'
  BY StepInv, StepSize, StepRest, StepCall DEF ReportInv, FullInv
<1> QED
  BY <1>1, <1>2, PTL DEF Spec

\* An entry is what its name says, and lies in a directory.
KindInv ==
    /\ \A e \in entries \ {Root} :
         /\ e \in dirs => TRUE \in Kind[Last(e)]
         /\ e \notin dirs => FALSE \in Kind[Last(e)]
         /\ Front(e) \in dirs
    /\ At # "idle" => parentEntry \in dirs

\* What may be a directory is none otherwise.
LEMMA OneKind ==
    ASSUME NoTypeChange, NEW n \in Name
    PROVE  ~ (TRUE \in Kind[n] /\ FALSE \in Kind[n])
<1>1. Kind[n] \subseteq BOOLEAN
  BY FileDBAssumption
<1> QED
  BY <1>1 DEF NoTypeChange

LEMMA LastName ==
    ASSUME NEW q \in Path \ {Root}
    PROVE  Last(q) \in Name
<1>1. q \in Seq(Name) /\ q # << >>
  BY PathFacts DEF Root
<1>2. Len(q) \in Nat /\ Len(q) # 0 /\ \A i \in 1 .. Len(q) : q[i] \in Name
  BY <1>1
<1> QED
  BY <1>1, <1>2 DEF Last

LEMMA ListedKind ==
    ASSUME Typed, NEW i \in DOMAIN listing
    PROVE  /\ listing[i].dir => TRUE \in Kind[listing[i].name]
           /\ ~ listing[i].dir => FALSE \in Kind[listing[i].name]
<1>1. listing[i] \in Entry /\ listing[i].dir \in BOOLEAN
  BY EntrySize
<1>2. listing[i].dir \in Kind[listing[i].name]
  BY <1>1 DEF Entry
<1>3. CASE listing[i].dir = TRUE
  BY <1>2, <1>3
<1>4. CASE listing[i].dir = FALSE
  BY <1>2, <1>4
<1> QED
  BY <1>1, <1>3, <1>4

LEMMA StepKind ==
    ASSUME NoTypeChange, ReportInv, KindInv, [Next]_vars
    PROVE  KindInv'
<1>1. DBInv /\ SizeInv /\ RestInv /\ CallInv /\ Typed /\ Places /\ MapMatchesTree
  BY DEF ReportInv, FullInv, DBInv
<1>2. ASSUME At' = At \/ At' = "idle", UNCHANGED <<entries, dirs, parentEntry>>
      PROVE  KindInv'
  BY <1>2 DEF KindInv
<1>3. CASE MarkChildren
  <2>1. PICK p \in Path :
          /\ \A i \in DOMAIN p : TRUE \in Kind[p[i]]
          /\ FindEntry(p) # None
          /\ parentEntry' = FindEntry(p)
    BY <1>3 DEF MarkChildren
  <2>2. UNCHANGED <<entries, dirs>>
    BY <1>3 DEF MarkChildren
  <2> DEFINE e == FindEntry(p)
  <2>3. e \in entries /\ (e = p \/ e \in Mistaken(p))
    BY <1>1, <2>1, MapFinds
  <2>4. e \in dirs
    <3>1. CASE e = Root
      BY <1>1, <3>1 DEF Typed
    <3>2. CASE e # Root
      <4>1. /\ e \in Seq(Name) /\ e # << >> /\ p \in Seq(Name)
            /\ Len(e) \in Nat /\ Len(e) # 0 /\ Len(p) \in Nat
        <5>1. e \in Path
          BY <1>1, <2>3 DEF Typed
        <5> QED
          BY <3>2, <5>1, PathFacts DEF Root
      <4>2. Last(e) = p[Len(p)] /\ Len(p) \in DOMAIN p
        <5>1. CASE e = p
          BY <4>1, <5>1 DEF Last
        <5>2. CASE e \in Mistaken(p)
          <6>1. Len(e) < Len(p) /\ \A i \in DOMAIN e : e[i] = p[i + Len(p) - Len(e)]
            BY <5>2 DEF Mistaken, NamesMatch
          <6>2. Len(e) \in DOMAIN e /\ Len(e) + Len(p) - Len(e) = Len(p)
            BY <4>1
          <6> QED
            BY <4>1, <6>1, <6>2 DEF Last
        <5> QED
          BY <2>3, <5>1, <5>2
      <4>3. TRUE \in Kind[Last(e)] /\ e \in Path \ {Root}
        BY <1>1, <2>1, <2>3, <3>2, <4>2 DEF Typed
      <4> QED
        BY <2>3, <4>3, LastName, OneKind DEF KindInv
    <3> QED
      BY <3>1, <3>2
  <2> QED
    BY <2>1, <2>2, <2>4 DEF KindInv
<1>4. CASE KeepEntry
  <2>1. PICK e \in ToSet(listing), c \in Path :
          /\ NextListed(e, c)
          /\ IF c \in dirs
               THEN pc' = "loop" /\ UNCHANGED <<size, riseVars>>
               ELSE Goto("loop", c, e.size - size[c])
    BY <1>4 DEF KeepEntry
  <2>2. At = "loop" /\ At' = "loop"
    BY <2>1, GotoAt DEF NextListed, At
  <2> QED
    BY <1>2, <1>4, <2>2 DEF KeepEntry, argVars
<1>5. CASE AddEntry
  <2>1. PICK e \in ToSet(listing), c \in Path :
          /\ NextListed(e, c)
          /\ ~ HasChild(parentEntry, e.name)
          /\ entries' = entries \union {c}
          /\ dirs' = IF e.dir THEN dirs \union {c} ELSE dirs
          /\ Goto("loop", parentEntry, e.size)
    BY <1>5 DEF AddEntry
  <2>2. UNCHANGED <<path, parentEntry, listing>>
    BY <1>5 DEF AddEntry, argVars
  <2>3. /\ At = "loop" /\ next \in DOMAIN listing /\ e = listing[next] /\ c = Listed(next)
        /\ c \in ChildrenOf(parentEntry) /\ Last(c) = listing[next].name
        /\ parentEntry \in Path
    BY <1>1, <2>1, <2>2, NextGiven
  <2>4. c \notin entries /\ c \notin dirs
    BY <1>1, <2>1, <2>3, ChildIsEntry DEF Listed, Typed
  <2>5. parentEntry \in dirs /\ Front(c) = parentEntry
    BY <2>3 DEF KindInv, ChildrenOf
  <2>6. /\ e.dir => TRUE \in Kind[Last(c)]
        /\ ~ e.dir => FALSE \in Kind[Last(c)]
        /\ c \in dirs' <=> e.dir
    BY <1>1, <2>1, <2>3, <2>4, ListedKind
  <2>7. \A q \in entries : q # c /\ (q \in dirs' <=> q \in dirs)
    BY <2>1, <2>4
  <2>8. dirs \subseteq dirs'
    BY <2>1
  <2> QED
    BY <2>1, <2>2, <2>5, <2>6, <2>7, <2>8 DEF KindInv
<1>6. CASE OnChildSizeChanged
  <2>1. Goto(returnTo, Front(sizeChanged.entry), sizeChanged.change)
        /\ returnTo \in {"loop", "cleanup"} /\ pc = "rise"
    BY <1>1, <1>6, RisesThrough
  <2>2. At' = At
    BY <2>1, GotoAt DEF At
  <2> QED
    BY <1>2, <1>6, <2>2 DEF OnChildSizeChanged, argVars
<1>7. CASE RemovePendingDelete
  <2>1. parentEntry \in dirs
    BY <1>7 DEF RemovePendingDelete, KindInv, At
  <2> QED
    BY <1>7, <2>1 DEF RemovePendingDelete, argVars, KindInv
<1>8. CASE CleanupEntryCrc
  <2>1. PICK c \in deletedChildren :
           /\ entries' = entries \ Below(c)
           /\ dirs' = dirs \ Below(c)
    BY <1>8 DEF CleanupEntryCrc
  <2>2. pc = "cleanup" /\ UNCHANGED parentEntry
    BY <1>8 DEF CleanupEntryCrc, argVars
  <2>3. c \in ChildrenOf(parentEntry) /\ parentEntry \in Path /\ parentEntry \in dirs
    BY <1>1, <2>1, <2>2 DEF Places, Typed, KindInv, At
  <2>4. c \in Path /\ parentEntry \notin Below(c)
    BY <2>3, ChildrenApart
  <2>5. \A q \in Path \ {Root} : Front(q) \in Below(c) => q \in Below(c)
    BY <2>4, BelowFacts
  <2> QED
    BY <1>1, <2>1, <2>2, <2>3, <2>4, <2>5 DEF KindInv, Typed
<1>9. CASE Finish
  BY <1>2, <1>9 DEF Finish, entryVars, At, KindInv
<1>10. CASE ProcessEntry
  <2>1. At' = At
    BY <1>10 DEF ProcessEntry, At
  <2> QED
    BY <1>2, <1>10, <2>1 DEF ProcessEntry, entryVars, argVars
<1>11. CASE UNCHANGED vars
  <2>1. At' = At
    BY <1>11 DEF vars, riseVars, At
  <2> QED
    BY <1>2, <1>11, <2>1 DEF vars, entryVars, argVars
<1> QED
  BY <1>3, <1>4, <1>5, <1>6, <1>7, <1>8, <1>9, <1>10, <1>11 DEF Next, SetChildrenForPath

\* The size an entry has by itself, once what rises to it has come
Rising(q) ==
    IF pc = "rise" /\ q = Front(sizeChanged.entry) THEN sizeChanged.change ELSE 0
Own(q) == OwnSize(q) + Rising(q)

\* A file that was listed has the size listed, also what is new; what else is there
\* has by itself the size it had.
OwnInv ==
    At # "idle" =>
        /\ \A i \in DOMAIN listing :
             i < next /\ (Listed(i) \notin dirs \/ Listed(i) \notin DOMAIN before)
             => Own(Listed(i)) = listing[i].size
        /\ \A q \in entries \intersect DOMAIN before :
             q \in dirs \/ q \notin Given => Own(q) = before[q].size

LEMMA OneMoved ==
    ASSUME NEW S, IsFiniteSet(S), NEW f, Valued(f, S), NEW y, NEW d \in Int, NEW e,
           e[y] = f[y] + d, \A x \in S : x # y => e[x] = f[x]
    PROVE  /\ Total(f, S) \in Int
           /\ Total(e, S) = Total(f, S) + (IF y \in S THEN d ELSE 0)
<1>1. Total(f, S) \in Int
  BY TotalFacts
<1>2. CASE y \in S
  <2>1. f[y] \in Int /\ e[y] \in Int /\ e[y] - f[y] = d
    BY <1>2 DEF Valued
  <2>2. \A x \in S \ {y} : e[x] = f[x]
    OBVIOUS
  <2>3. Total(e, S) = Total(f, S) + (e[y] - f[y])
    BY <1>2, <2>1, <2>2, TotalChanged
  <2> QED
    BY <1>1, <1>2, <2>1, <2>3
<1>3. CASE y \notin S
  <2>1. Same(f, e, S)
    BY <1>3 DEF Same
  <2>2. Total(f, S) = Total(e, S)
    BY <2>1, TotalSame
  <2> QED
    BY <1>1, <1>3, <2>2
<1> QED
  BY <1>1, <1>2, <1>3

LEMMA ChildSizes ==
    ASSUME Typed, ChildSets, SizeInv, NEW q \in Path
    PROVE  /\ IsFiniteSet(ToSet(children[q])) /\ ToSet(children[q]) \subseteq entries
           /\ Valued(size, ToSet(children[q]))
           /\ size[q] \in Int /\ Total(size, ToSet(children[q])) \in Int
           /\ OwnSize(q) = size[q] - Total(size, ToSet(children[q])) /\ OwnSize(q) \in Int
<1>1. ToSet(children[q]) \subseteq entries
  BY DEF ChildSets
<1>2. IsFiniteSet(ToSet(children[q]))
  BY <1>1, FiniteEntries
<1>3. Valued(size, ToSet(children[q])) /\ size[q] \in Int
  BY <1>1 DEF Valued, Typed, SizeInv
<1>4. Total(size, ToSet(children[q])) \in Int
  BY <1>2, <1>3, TotalFacts
<1>5. OwnSize(q) = size[q] - Total(size, ToSet(children[q]))
  BY DEF OwnSize
<1> QED
  BY <1>1, <1>2, <1>3, <1>4, <1>5

\* Where a change goes that is on its way up from y
LEMMA RisesTo ==
    ASSUME NEW to, to # "rise", NEW y \in Path, NEW d \in Int, Goto(to, y, d), NEW q
    PROVE  Rising(q)' = IF y # Root /\ q = Front(y) THEN d ELSE 0
<1>1. CASE y # Root /\ d # 0
  <2>1. pc' = "rise" /\ sizeChanged' = [entry |-> y, change |-> d]
    BY <1>1 DEF Goto
  <2>2. sizeChanged'.entry = y /\ sizeChanged'.change = d
    BY <2>1
  <2> QED
    BY <1>1, <2>1, <2>2 DEF Rising
<1>2. CASE ~ (y # Root /\ d # 0)
  <2>1. pc' # "rise"
    BY <1>2 DEF Goto
  <2> QED
    BY <1>2, <2>1 DEF Rising
<1> QED
  BY <1>1, <1>2

\* The size of y changes, and that of the directory it lies in will: no other entry
\* has another size by itself.
LEMMA OthersOwn ==
    ASSUME Typed, ChildSets, SizeInv,
           NEW y \in entries \ deletedChildren, NEW d \in Int,
           NEW to, to # "rise", Goto(to, y, d), size'[y] = size[y] + d,
           NEW q \in Path, q # y, size'[q] = size[q],
           ToSet(children'[q]) = ToSet(children[q]),
           \A x \in ToSet(children[q]) : x # y => size'[x] = size[x]
    PROVE  Own(q)' = OwnSize(q)
<1>1. y \in Path
  BY DEF Typed
<1>2. Rising(q)' = IF y # Root /\ q = Front(y) THEN d ELSE 0
  BY <1>1, RisesTo
<1> DEFINE S == ToSet(children[q])
           t == Total(size, S)
<1>3. /\ IsFiniteSet(S) /\ Valued(size, S) /\ size[q] \in Int /\ t \in Int
      /\ OwnSize(q) = size[q] - t
  BY ChildSizes
<1>4. y \in S <=> y # Root /\ q = Front(y)
  BY <1>1 DEF ChildSets, ChildrenOf
<1>5. OwnSize(q)' = size[q] - Total(size', S)
  BY DEF OwnSize
<1> HIDE DEF S
<1>6. \A x \in S : x # y => size'[x] = size[x]
  BY DEF S
<1>7. Total(size', S) = t + (IF y \in S THEN d ELSE 0)
  BY <1>3, <1>6, OneMoved
<1> HIDE DEF t
<1>8. Own(q)' = OwnSize(q)' + Rising(q)'
  BY DEF Own
<1>9. CASE y \in S
  BY <1>2, <1>3, <1>4, <1>5, <1>7, <1>8, <1>9
<1>10. CASE y \notin S
  BY <1>2, <1>3, <1>4, <1>5, <1>7, <1>8, <1>10
<1> QED
  BY <1>9, <1>10

\* No entry lies in itself.
LEMMA FrontApart ==
    ASSUME NEW y \in Path \ {Root}
    PROVE  Front(y) # y
<1>1. Len(Front(y)) = Len(y) - 1 /\ Len(y) \in Nat
  BY PathFacts
<1> QED
  BY <1>1

LEMMA ChangedOwn ==
    ASSUME NEW to, to # "rise", NEW y \in Path, NEW d \in Int, Goto(to, y, d)
    PROVE  Own(y)' = OwnSize(y)' + 0
<1>1. Rising(y)' = IF y # Root /\ y = Front(y) THEN d ELSE 0
  BY RisesTo
<1>2. Rising(y)' = 0
  BY <1>1, FrontApart
<1> QED
  BY <1>2 DEF Own

\* A file has nothing in it.
LEMMA FileIsLeaf ==
    ASSUME Typed, ChildSets, KindInv, NEW q \in Path \ dirs
    PROVE  ToSet(children[q]) = {}
<1>1. \A x \in ChildrenOf(q) \intersect entries : FALSE
  BY DEF KindInv, ChildrenOf
<1> QED
  BY <1>1 DEF ChildSets

LEMMA MarkChildrenOwn ==
    ASSUME DBInv, SizeInv, MarkChildren
    PROVE  OwnInv'
<1>1. /\ pc' = "loop" /\ next' = 1 /\ before' = Tree
      /\ UNCHANGED <<entries, dirs, size, children>>
  BY DEF MarkChildren
<1>2. Typed' /\ Typed /\ ChildSets
  BY MarkChildrenInv DEF DBInv
<1>3. \A i \in DOMAIN listing' : ~ (i < next')
  BY <1>1, <1>2 DEF Typed
<1>4. \A q \in entries : before'[q].size = OwnSize(q)
  BY <1>1 DEF Tree
<1>5. ASSUME NEW q \in entries
      PROVE  Own(q)' = OwnSize(q)
  <2>1. Rising(q)' = 0 /\ OwnSize(q)' = OwnSize(q)
    BY <1>1 DEF Rising, OwnSize
  <2>2. OwnSize(q) \in Int
    BY <1>2, <1>5, ChildSizes DEF Typed
  <2> QED
    BY <2>1, <2>2 DEF Own
<1> QED
  BY <1>1, <1>3, <1>4, <1>5 DEF OwnInv

LEMMA KeepEntryOwn ==
    ASSUME DBInv, SizeInv, RestInv, CallInv, KindInv, OwnInv, KeepEntry
    PROVE  OwnInv'
<1>1. Typed /\ ChildSets /\ Places /\ MapMatchesTree
  BY DEF DBInv
<1>2. PICK e \in ToSet(listing), c \in Path :
        /\ NextListed(e, c)
        /\ HasChild(parentEntry, e.name)
        /\ IF c \in dirs
             THEN pc' = "loop" /\ UNCHANGED <<size, riseVars>>
             ELSE /\ size' = [size EXCEPT ![c] = e.size]
                  /\ Goto("loop", c, e.size - size[c])
  BY DEF KeepEntry
<1>3. UNCHANGED <<before, entries, dirs, path, parentEntry, listing, children, deletedChildren>>
  BY DEF KeepEntry, argVars
<1>4. pc = "loop" /\ deletedChildren = {}
  BY <1>1, <1>2 DEF NextListed, Places, At
<1>5. /\ At = "loop" /\ next \in DOMAIN listing /\ e = listing[next] /\ c = Listed(next)
      /\ parentEntry \in Path
      /\ \A i \in DOMAIN listing : i < next' <=> i < next \/ i = next
      /\ \A i \in DOMAIN listing : i < next => Listed(i) # c
      /\ Given' = Given \union {c}
      /\ c \notin Given
  BY <1>2, <1>3, NextGiven
<1>6. c \in entries
  BY <1>1, <1>2, <1>5, ChildIsEntry DEF Listed
<1>7. c \in DOMAIN before
  BY <1>5, <1>6 DEF CallInv
<1>8. \A i : Listed(i)' = Listed(i)
  BY <1>3 DEF Listed
<1>9. \A i \in DOMAIN listing : Listed(i) \in Path
  BY DEF RestInv, Listed
<1>10. ASSUME NEW q \in Path
       PROVE  Own(q) = OwnSize(q)
  BY <1>1, <1>4, ChildSizes DEF Own, Rising
<1>11. ASSUME NEW q \in Path, q # c \/ c \in dirs
       PROVE  Own(q)' = Own(q)
  <2>1. CASE c \in dirs
    BY <1>2, <1>3, <1>4, <2>1 DEF Own, OwnSize, Rising
  <2>2. CASE c \notin dirs
    <3> DEFINE d == e.size - size[c]
    <3>1. e.size \in Int /\ size[c] \in Int
      BY <1>1, <1>5, EntrySize DEF SizeInv
    <3>2. d \in Int /\ e.size = size[c] + d
      BY <3>1
    <3>3. Goto("loop", c, d)
      BY <1>2, <2>2
    <3>4. size'[c] = e.size /\ \A x \in Path \ {c} : size'[x] = size[x]
      BY <1>2, <2>2 DEF SizeInv
    <3> HIDE DEF d
    <3>5. ToSet(children'[q]) = ToSet(children[q]) /\ ToSet(children[q]) \subseteq Path
      BY <1>1, <1>3 DEF ChildSets, Typed
    <3>6. Own(q)' = OwnSize(q)
      <4>1. c \in entries \ deletedChildren /\ q # c
        BY <1>4, <1>6, <1>11, <2>2
      <4>2. size'[c] = size[c] + d /\ size'[q] = size[q]
        BY <3>2, <3>4, <4>1
      <4>3. \A x \in ToSet(children[q]) : x # c => size'[x] = size[x]
        BY <3>4, <3>5
      <4> QED
        BY <1>1, <3>2, <3>3, <3>5, <4>1, <4>2, <4>3, OthersOwn
    <3> QED
      BY <1>10, <3>6
  <2> QED
    BY <2>1, <2>2
<1>12. ASSUME c \notin dirs
       PROVE  Own(c)' = e.size
  <2>1. e.size \in Int /\ size[c] \in Int
    BY <1>1, <1>5, EntrySize DEF SizeInv
  <2> DEFINE d == e.size - size[c]
  <2>2. d \in Int /\ Goto("loop", c, d)
    BY <1>2, <1>12, <2>1
  <2> HIDE DEF d
  <2>3. Own(c)' = OwnSize(c)' + 0
    BY <2>2, ChangedOwn
  <2>4. ToSet(children[c]) = {} /\ size'[c] = e.size
    BY <1>1, <1>2, <1>12, FileIsLeaf DEF SizeInv
  <2>5. Total(size', ToSet(children'[c])) = 0
    <3>1. ToSet(children'[c]) = {}
      BY <1>3, <2>4
    <3>2. IsFiniteSet({}) /\ Valued(size', {})
      BY FS_EmptySet DEF Valued
    <3> QED
      BY <3>1, <3>2, TotalFacts
  <2> QED
    BY <2>1, <2>3, <2>4, <2>5 DEF OwnSize
<1>13. ASSUME NEW i \in DOMAIN listing, i < next', Listed(i) \notin dirs \/ Listed(i) \notin DOMAIN before
       PROVE  Own(Listed(i))' = listing[i].size
  <2>1. CASE i = next
    BY <1>5, <1>7, <1>8, <1>12, <1>13, <2>1
  <2>2. CASE i # next
    <3>1. i < next /\ Listed(i) # c /\ Listed(i) \in Path
      BY <1>5, <1>9, <1>13, <2>2
    <3>2. Own(Listed(i)) = listing[i].size
      BY <1>5, <1>13, <3>1 DEF OwnInv
    <3> QED
      BY <1>8, <1>11, <3>1, <3>2
  <2> QED
    BY <2>1, <2>2
<1>14. ASSUME NEW q \in entries \intersect DOMAIN before, q \in dirs \/ q \notin Given'
       PROVE  Own(q)' = before[q].size
  <2>1. q \in Path /\ (q # c \/ c \in dirs) /\ (q \in dirs \/ q \notin Given)
    BY <1>1, <1>5, <1>14 DEF Typed
  <2> QED
    BY <1>5, <1>11, <1>14, <2>1 DEF OwnInv
<1> QED
  BY <1>3, <1>8, <1>13, <1>14 DEF OwnInv

LEMMA AddEntryOwn ==
    ASSUME DBInv, SizeInv, RestInv, CallInv, KindInv, OwnInv, AddEntry
    PROVE  OwnInv'
<1>1. Typed /\ Closed /\ ChildSets /\ Places /\ MapMatchesTree
  BY DEF DBInv
<1>2. PICK e \in ToSet(listing), c \in Path :
        /\ NextListed(e, c)
        /\ ~ HasChild(parentEntry, e.name)
        /\ entries' = entries \union {c}
        /\ dirs' = IF e.dir THEN dirs \union {c} ELSE dirs
        /\ size' = [size EXCEPT ![c] = e.size, ![parentEntry] = @ + e.size]
        /\ children' = [children EXCEPT ![parentEntry] = AddToBin(@, c, e.size)]
        /\ Goto("loop", parentEntry, e.size)
  BY DEF AddEntry
<1>3. UNCHANGED <<before, path, parentEntry, listing, deletedChildren>>
  BY DEF AddEntry, argVars, deleteVars
<1>4. pc = "loop" /\ deletedChildren = {} /\ parentEntry \in entries
  BY <1>1, <1>2 DEF NextListed, Places, At
<1>5. /\ At = "loop" /\ next \in DOMAIN listing /\ e = listing[next] /\ c = Listed(next)
      /\ parentEntry \in Path /\ c \in ChildrenOf(parentEntry)
      /\ \A i \in DOMAIN listing : i < next' <=> i < next \/ i = next
      /\ \A i \in DOMAIN listing : i < next => Listed(i) # c
      /\ Given' = Given \union {c}
  BY <1>2, <1>3, NextGiven
<1>6. c \notin entries /\ c \notin dirs /\ parentEntry # c
  BY <1>1, <1>2, <1>4, <1>5, ChildIsEntry DEF Listed, Typed
<1>7. c \notin DOMAIN before
  BY <1>5, <1>6 DEF CallInv
<1>8. \A i : Listed(i)' = Listed(i)
  BY <1>3 DEF Listed
<1>9. \A i \in DOMAIN listing : Listed(i) \in Path
  BY DEF RestInv, Listed
<1>10. ASSUME NEW q \in Path
       PROVE  Own(q) = OwnSize(q) /\ OwnSize(q) \in Int
  BY <1>1, <1>4, ChildSizes DEF Own, Rising
<1> DEFINE s == e.size
           ch == AddToBin(children[parentEntry], c, s)
<1>11. s \in Int
  BY <1>1, <1>5, EntrySize
<1>12. /\ size \in [Path -> Int] /\ children \in [Path -> Seq(Path)]
       /\ size' = [size EXCEPT ![c] = s, ![parentEntry] = @ + s]
       /\ children' = [children EXCEPT ![parentEntry] = ch]
       /\ Goto("loop", parentEntry, s)
  BY <1>1, <1>2 DEF Typed, SizeInv
<1>13. ToSet(ch) = ToSet(children[parentEntry]) \union {c}
  BY <1>5, <1>12, AddToBinItems
<1> HIDE DEF s, ch
<1>14. /\ size'[c] = s /\ size'[parentEntry] = size[parentEntry] + s
       /\ \A d \in Path : d # c /\ d # parentEntry => size'[d] = size[d]
  BY <1>5, <1>6, <1>11, <1>12
<1>15. /\ ToSet(children'[parentEntry]) = ToSet(children[parentEntry]) \union {c}
       /\ \A d \in Path : d # parentEntry => children'[d] = children[d]
  BY <1>5, <1>12, <1>13
<1>16. \A q \in Path : c \notin ToSet(children[q]) /\ ToSet(children[q]) \subseteq Path
  BY <1>1, <1>6 DEF ChildSets, Typed
<1>17. ASSUME NEW q \in Path, q # c
       PROVE  Own(q)' = Own(q)
  <2>1. CASE q = parentEntry
    <3> DEFINE S == ToSet(children[q])
    <3>1. /\ IsFiniteSet(S) /\ Valued(size, S) /\ size[q] \in Int /\ Total(size, S) \in Int
          /\ OwnSize(q) = size[q] - Total(size, S)
      BY <1>1, ChildSizes
    <3>2. q \notin S /\ c \notin S /\ S \subseteq Path
      <4>1. q # Root => Front(q) # q
        BY FrontApart
      <4> QED
        BY <1>1, <1>16, <4>1 DEF ChildSets, ChildrenOf
    <3>3. Total(size', S \union {c}) = Total(size, S) + s
      <4>1. Same(size, size', S)
        BY <1>14, <2>1, <3>2 DEF Same
      <4>2. Total(size, S) = Total(size', S)
        BY <3>1, <4>1, TotalSame
      <4>3. IsFiniteSet(S \union {c})
        BY <3>1, FS_AddElement
      <4>4. Valued(size', S \union {c})
        BY <1>11, <1>14, <3>1, <4>1 DEF Valued, Same
      <4>5. {c} \in SUBSET (S \union {c}) /\ (S \union {c}) \ {c} = S
        BY <3>2
      <4> HIDE DEF S
      <4> DEFINE U == S \union {c}
      <4>8. U \ {c} = S
        BY <4>5
      <4>6. Total(size', U) = Total(size', {c}) + Total(size', U \ {c})
        BY <4>3, <4>4, <4>5, TotalFacts
      <4>7. Total(size', {c}) = s
        BY <1>11, <1>14, TotalOfOne
      <4>9. Total(size, S) \in Int
        BY <3>1
      <4> HIDE DEF U
      <4>10. Total(size', U) = s + Total(size, S)
        BY <4>2, <4>6, <4>7, <4>8
      <4> QED
        BY <1>11, <4>9, <4>10 DEF U
    <3>4. OwnSize(q)' = size'[q] - Total(size', S \union {c})
      BY <1>15, <2>1 DEF OwnSize
    <3>5. Own(q)' = OwnSize(q)' + 0
      BY <1>11, <1>12, <2>1, ChangedOwn
    <3> HIDE DEF S
    <3> QED
      BY <1>10, <1>11, <1>14, <2>1, <3>1, <3>3, <3>4, <3>5
  <2>2. CASE q # parentEntry
    <3>1. size'[q] = size[q] /\ ToSet(children'[q]) = ToSet(children[q])
      BY <1>14, <1>15, <1>17, <2>2
    <3>2. \A x \in ToSet(children[q]) : x # parentEntry => size'[x] = size[x]
      BY <1>14, <1>16
    <3>3. parentEntry \in entries \ deletedChildren /\ size'[parentEntry] = size[parentEntry] + s
      BY <1>4, <1>14
    <3>4. Own(q)' = OwnSize(q)
      BY <1>1, <1>11, <1>12, <2>2, <3>1, <3>2, <3>3, OthersOwn
    <3> QED
      BY <1>10, <3>4
  <2> QED
    BY <2>1, <2>2
<1>18. Own(c)' = s
  <2>1. Rising(c)' = 0
    <3>1. Rising(c)' = IF parentEntry # Root /\ c = Front(parentEntry) THEN s ELSE 0
      BY <1>5, <1>11, <1>12, RisesTo
    <3>2. parentEntry # Root => Front(parentEntry) \in entries
      BY <1>1, <1>4 DEF Closed
    <3> QED
      BY <1>6, <3>1, <3>2
  <2>2. ToSet(children'[c]) = {}
    <3>1. \A x \in ChildrenOf(c) \intersect entries : FALSE
      BY <1>1, <1>6 DEF Closed, ChildrenOf
    <3>2. ToSet(children[c]) = {}
      BY <1>1, <3>1 DEF ChildSets
    <3> QED
      BY <1>6, <1>15, <3>2
  <2>3. Total(size', {}) = 0
    <3>1. IsFiniteSet({}) /\ Valued(size', {})
      BY FS_EmptySet DEF Valued
    <3> QED
      BY <3>1, TotalFacts
  <2> QED
    BY <1>11, <1>14, <2>1, <2>2, <2>3 DEF Own, OwnSize
<1>19. ASSUME NEW i \in DOMAIN listing, i < next', Listed(i) \notin dirs' \/ Listed(i) \notin DOMAIN before
       PROVE  Own(Listed(i))' = listing[i].size
  <2>1. CASE i = next
    BY <1>5, <1>8, <1>18, <2>1 DEF s
  <2>2. CASE i # next
    <3>1. i < next /\ Listed(i) # c /\ Listed(i) \in Path
      BY <1>5, <1>9, <1>19, <2>2
    <3>2. Listed(i) \notin dirs \/ Listed(i) \notin DOMAIN before
      BY <1>2, <1>19
    <3>3. Own(Listed(i)) = listing[i].size
      BY <1>5, <3>1, <3>2 DEF OwnInv
    <3> QED
      BY <1>8, <1>17, <3>1, <3>3
  <2> QED
    BY <2>1, <2>2
<1>20. ASSUME NEW q \in entries' \intersect DOMAIN before, q \in dirs' \/ q \notin Given'
       PROVE  Own(q)' = before[q].size
  <2>1. q \in entries /\ q # c /\ q \in Path
    BY <1>1, <1>2, <1>7, <1>20 DEF Typed
  <2>2. q \in dirs \/ q \notin Given
    BY <1>2, <1>5, <1>20, <2>1
  <2> QED
    BY <1>5, <1>17, <1>20, <2>1, <2>2 DEF OwnInv
<1> QED
  BY <1>3, <1>8, <1>19, <1>20 DEF OwnInv

\* What every entry has by itself stays as it is.
LEMMA SameOwn ==
    ASSUME Typed, RestInv, OwnInv, At' = At,
           UNCHANGED <<before, entries, dirs, path, parentEntry, listing, next>>,
           \A q \in Path : Own(q)' = Own(q)
    PROVE  OwnInv'
<1>1. Names' = Names
  BY DEF Names
<1>2. Given' = Given
  BY <1>1 DEF Given
<1>3. \A i : Listed(i)' = Listed(i)
  BY DEF Listed
<1>4. \A i \in DOMAIN listing : Listed(i) \in Path
  BY DEF RestInv, Listed
<1>5. entries \subseteq Path
  BY DEF Typed
<1> QED
  BY <1>2, <1>3, <1>4, <1>5 DEF OwnInv

LEMMA OnChildSizeChangedOwn ==
    ASSUME DBInv, DBInv', SizeInv, RestInv, OwnInv, OnChildSizeChanged
    PROVE  OwnInv'
<1> DEFINE e == sizeChanged.entry
           p == Front(e)
           d == sizeChanged.change
<1>1. /\ e \in entries \ {Root} /\ p \in entries /\ p # e
      /\ pc = "rise" /\ returnTo \in {"loop", "cleanup"}
      /\ size' = [size EXCEPT ![p] = @ + d]
      /\ Goto(returnTo, p, d)
  BY RisesThrough
<1>2. Typed /\ ChildSets /\ Places /\ ChildSets'
  BY DEF DBInv
<1>3. UNCHANGED <<before, entries, dirs, path, parentEntry, listing, next, deletedChildren>>
  BY DEF OnChildSizeChanged, argVars, deleteVars
<1>4. p \in Path /\ d \in Int /\ size \in [Path -> Int] /\ entries \subseteq Path
  BY <1>1, <1>2 DEF Typed, SizeInv
<1>5. \A q \in Path : Rising(q) = IF q = p THEN d ELSE 0
  BY <1>1 DEF Rising
<1>6. At' = At
  BY <1>1, GotoAt DEF At
<1>7. p \notin deletedChildren
  <2>1. CASE At = "cleanup"
    <3>1. \A q \in deletedChildren : Front(q) = parentEntry /\ q \in Path \ {Root}
      BY <1>2 DEF Places, ChildrenOf
    <3>2. \A q \in deletedChildren : Len(parentEntry) = Len(q) - 1 /\ Len(q) \in Nat
      BY <3>1, PathFacts
    <3>3. Len(e) <= Len(parentEntry) /\ Len(p) = Len(e) - 1 /\ Len(e) \in Nat
      BY <1>1, <1>2, <1>4, <2>1, PathFacts DEF Places, Typed
    <3> QED
      BY <3>2, <3>3
  <2>2. CASE At # "cleanup"
    BY <1>2, <2>2 DEF Places
  <2> QED
    BY <2>1, <2>2
<1> HIDE DEF e, p, d
<1>8. size'[p] = size[p] + d /\ \A x \in Path \ {p} : size'[x] = size[x]
  BY <1>1, <1>4
<1>9. \A q \in Path : ToSet(children'[q]) = ToSet(children[q]) /\ ToSet(children[q]) \subseteq Path
  BY <1>2, <1>3, <1>4 DEF ChildSets, ChildrenOf
<1>10. ASSUME NEW q \in Path
       PROVE  Own(q)' = Own(q)
  <2>1. CASE q = p
    <3> DEFINE S == ToSet(children[q])
    <3>1. /\ IsFiniteSet(S) /\ Valued(size, S) /\ size[q] \in Int /\ Total(size, S) \in Int
          /\ OwnSize(q) = size[q] - Total(size, S)
      BY <1>2, ChildSizes
    <3>2. q \notin S
      <4>1. q # Root => Front(q) # q
        BY FrontApart
      <4> QED
        BY <1>2, <4>1 DEF ChildSets, ChildrenOf
    <3>3. Total(size, S) = Total(size', S)
      <4>1. Same(size, size', S)
        BY <1>8, <1>9, <2>1, <3>2 DEF Same
      <4> QED
        BY <3>1, <4>1, TotalSame
    <3>4. OwnSize(q)' = size'[q] - Total(size', S)
      BY <1>9 DEF OwnSize
    <3>5. Own(q)' = OwnSize(q)' + 0
      <4>1. returnTo # "rise" /\ Goto(returnTo, q, d)
        BY <1>1, <2>1
      <4> QED
        BY <1>4, <4>1, ChangedOwn
    <3>6. Own(q) = OwnSize(q) + d
      BY <1>5, <2>1 DEF Own
    <3> HIDE DEF S
    <3> QED
      BY <1>4, <1>8, <2>1, <3>1, <3>3, <3>4, <3>5, <3>6
  <2>2. CASE q # p
    <3>1. /\ size'[q] = size[q] /\ ToSet(children'[q]) = ToSet(children[q])
          /\ p \in entries \ deletedChildren /\ returnTo # "rise"
      BY <1>1, <1>7, <1>8, <1>9, <2>2
    <3>2. \A x \in ToSet(children[q]) : x # p => size'[x] = size[x]
      BY <1>8, <1>9
    <3>3. Own(q)' = OwnSize(q)
      BY <1>1, <1>2, <1>4, <1>8, <2>2, <3>1, <3>2, OthersOwn
    <3>4. OwnSize(q) \in Int
      BY <1>2, ChildSizes
    <3> QED
      BY <1>5, <2>2, <3>3, <3>4 DEF Own
  <2> QED
    BY <2>1, <2>2
<1> QED
  BY <1>2, <1>3, <1>6, <1>10, SameOwn

LEMMA RemovePendingDeleteOwn ==
    ASSUME DBInv, SizeInv, RestInv, OwnInv, RemovePendingDelete
    PROVE  OwnInv'
<1> DEFINE R == ToRemove
           t == Total(size, R)
           d == - t
           y == parentEntry
<1>1. Typed /\ ChildSets /\ Places
  BY DEF DBInv
<1>2. /\ pc = "loop"
      /\ children' = [children EXCEPT ![y] = Without(@, R)]
      /\ size' = [size EXCEPT ![y] = @ - t]
      /\ Goto("cleanup", y, d)
      /\ UNCHANGED <<before, entries, dirs, path, parentEntry, listing, next>>
  BY DEF RemovePendingDelete, argVars
<1>3. /\ At = "loop" /\ At' = "cleanup"
      /\ deletedChildren = {} /\ y \in entries /\ y \in Path /\ entries \subseteq Path
  BY <1>1, <1>2, GotoAt DEF At, Places, Typed
<1>4. R \subseteq ToSet(children[y])
  BY <1>2, RemovesMarked
<1>5. t \in Int
  <2>1. R \in SUBSET entries
    BY <1>1, <1>3, <1>4 DEF ChildSets
  <2> QED
    BY <1>1, <2>1, SizesAddUp
<1>6. size \in [Path -> Int] /\ children \in [Path -> Seq(Path)]
  BY <1>1 DEF Typed, SizeInv
<1> HIDE DEF R
<1>7. ToSet(children'[y]) = ToSet(children[y]) \ R /\ \A q \in Path \ {y} : children'[q] = children[q]
  BY <1>2, <1>3, <1>6, WithoutItems
<1> HIDE DEF t
<1>8. size'[y] = size[y] - t /\ \A x \in Path \ {y} : size'[x] = size[x]
  BY <1>2, <1>3, <1>6
<1>9. d \in Int /\ size'[y] = size[y] + d
  <2>1. size[y] \in Int
    BY <1>3, <1>6
  <2> QED
    BY <1>5, <1>8, <2>1
<1>10. Goto("cleanup", y, d)
  BY <1>2
<1> HIDE DEF d, y
<1>11. \A q \in Path : ToSet(children[q]) \subseteq Path
  BY <1>1, <1>3 DEF ChildSets
<1>12. ASSUME NEW q \in Path
       PROVE  Own(q)' = OwnSize(q)
  <2>1. CASE q = y
    <3> DEFINE S == ToSet(children[q])
    <3>1. /\ IsFiniteSet(S) /\ Valued(size, S) /\ size[q] \in Int /\ Total(size, S) \in Int
          /\ OwnSize(q) = size[q] - Total(size, S)
      BY <1>1, ChildSizes
    <3>2. q \notin S
      <4>1. q # Root => Front(q) # q
        BY FrontApart
      <4> QED
        BY <1>1, <4>1 DEF ChildSets, ChildrenOf
    <3>3. R \in SUBSET S /\ S \subseteq Path
      BY <1>4, <1>11, <2>1
    <3>4. OwnSize(q)' = size'[q] - Total(size', S \ R)
      BY <1>7, <2>1 DEF OwnSize
    <3>5. Own(q)' = OwnSize(q)' + 0
      <4>1. Goto("cleanup", q, d)
        BY <1>10, <2>1
      <4> QED
        BY <1>9, <4>1, ChangedOwn
    <3> HIDE DEF S
    <3>6. Total(size, S) = t + Total(size, S \ R)
      BY <3>1, <3>3, TotalFacts DEF t
    <3>7. S \ R \in SUBSET S /\ IsFiniteSet(S \ R)
      BY <3>1, FS_Subset
    <3>8. Total(size, S \ R) = Total(size', S \ R) /\ Total(size, S \ R) \in Int
      <4>1. Same(size, size', S \ R)
        BY <1>8, <2>1, <3>2, <3>3 DEF Same
      <4> QED
        BY <3>1, <3>7, <4>1, TotalSame, TotalFacts
    <3>9. size'[q] = size[q] - t
      BY <1>8, <2>1
    <3> QED
      BY <1>5, <3>1, <3>4, <3>5, <3>6, <3>8, <3>9
  <2>2. CASE q # y
    <3>1. /\ size'[q] = size[q] /\ ToSet(children'[q]) = ToSet(children[q])
          /\ y \in entries \ deletedChildren
      BY <1>3, <1>7, <1>8, <2>2
    <3>2. \A x \in ToSet(children[q]) : x # y => size'[x] = size[x]
      BY <1>8, <1>11
    <3> QED
      BY <1>1, <1>9, <1>10, <2>2, <3>1, <3>2, OthersOwn
  <2> QED
    BY <2>1, <2>2
<1>13. ASSUME NEW q \in Path
       PROVE  Own(q)' = Own(q)
  <2>1. Own(q) = OwnSize(q)
    BY <1>1, <1>2, ChildSizes DEF Own, Rising
  <2> QED
    BY <1>12, <2>1
<1>14. Names' = Names
  BY <1>2 DEF Names
<1>15. Given' = Given
  BY <1>2, <1>14 DEF Given
<1>16. \A i : Listed(i)' = Listed(i)
  BY <1>2 DEF Listed
<1>17. \A i \in DOMAIN listing : Listed(i) \in Path
  BY DEF RestInv, Listed
<1> QED
  BY <1>2, <1>3, <1>13, <1>15, <1>16, <1>17 DEF OwnInv

LEMMA CleanupEntryCrcOwn ==
    ASSUME DBInv, DBInv', SizeInv, RestInv, CallInv, OwnInv, CleanupEntryCrc
    PROVE  OwnInv'
<1>1. PICK c \in deletedChildren :
         /\ entries' = entries \ Below(c)
         /\ dirs' = dirs \ Below(c)
         /\ size' = [q \in Path |-> IF q \in Below(c) THEN 0 ELSE size[q]]
         /\ children' = [q \in Path |-> IF q \in Below(c) THEN << >> ELSE children[q]]
  BY DEF CleanupEntryCrc
<1>2. /\ pc = "cleanup"
      /\ UNCHANGED <<before, path, parentEntry, listing, next, pc>>
  BY DEF CleanupEntryCrc, argVars
<1>3. Typed /\ ChildSets /\ Places /\ Closed' /\ entries \subseteq Path
  BY DEF DBInv, Typed
<1>4. At = "cleanup" /\ At' = "cleanup"
  BY <1>2 DEF At
<1>5. c \in Lost /\ parentEntry \in Path
  BY <1>1, <1>4 DEF CallInv, RestInv
<1>6. c \in ChildrenOf(parentEntry) /\ c \in DOMAIN before /\ Last(c) \notin Names
  BY <1>5 DEF Lost
<1>7. /\ c \in Path \ {Root}
      /\ \A q \in ChildrenOf(parentEntry) : q \in Below(c) => q = c
  BY <1>5, <1>6, ChildrenApart
<1>8. \A q \in Below(c) : q = c \/ (q # Root /\ Front(q) \in Below(c))
  BY <1>7, BelowFacts
<1>9. ASSUME NEW q \in Path, q \notin Below(c)
      PROVE  Own(q)' = Own(q)
  <2> DEFINE S == ToSet(children[q])
  <2>1. /\ IsFiniteSet(S) /\ Valued(size, S) /\ size[q] \in Int /\ Total(size, S) \in Int
        /\ OwnSize(q) = size[q] - Total(size, S)
    BY <1>3, ChildSizes
  <2>2. size'[q] = size[q] /\ children'[q] = children[q]
    BY <1>1, <1>9
  <2>3. S \subseteq Path /\ \A x \in S : x \notin Below(c)
    <3>1. \A x \in S : x \in ChildrenOf(q) /\ x \in entries /\ x # c
      BY <1>1, <1>3 DEF ChildSets
    <3> QED
      BY <1>3, <1>8, <1>9, <3>1 DEF ChildrenOf
  <2>4. OwnSize(q)' = size[q] - Total(size', S)
    BY <2>2 DEF OwnSize
  <2>5. Rising(q)' = 0 /\ Rising(q) = 0
    BY <1>2 DEF Rising
  <2>6. Own(q) = OwnSize(q) + 0 /\ Own(q)' = OwnSize(q)' + 0
    BY <2>5 DEF Own
  <2> HIDE DEF S
  <2>7. Total(size, S) = Total(size', S)
    <3>1. Same(size, size', S)
      BY <1>1, <2>3 DEF Same
    <3> QED
      BY <2>1, <3>1, TotalSame
  <2> QED
    BY <2>1, <2>4, <2>6, <2>7
<1>10. Names' = Names
  BY <1>2 DEF Names
<1>11. Given' = Given
  BY <1>2, <1>10 DEF Given
<1>12. \A i : Listed(i)' = Listed(i)
  BY <1>2 DEF Listed
<1>13. ASSUME NEW i \in DOMAIN listing, i < next
       PROVE  Listed(i) \in Path /\ Listed(i) \notin Below(c)
  <2>1. Listed(i) \in ChildrenOf(parentEntry) /\ Last(Listed(i)) = listing[i].name
    BY <1>5, AppendedPath DEF RestInv, Listed, ChildrenOf
  <2>2. Last(Listed(i)) \in Names
    BY <1>13, <2>1 DEF Names
  <2> QED
    BY <1>6, <1>7, <2>1, <2>2 DEF ChildrenOf
<1>14. ASSUME NEW i \in DOMAIN listing, i < next, Listed(i) \notin dirs' \/ Listed(i) \notin DOMAIN before
       PROVE  Own(Listed(i))' = listing[i].size
  <2>1. Listed(i) \notin dirs \/ Listed(i) \notin DOMAIN before
    BY <1>1, <1>13, <1>14
  <2>2. Own(Listed(i)) = listing[i].size
    BY <1>4, <1>14, <2>1 DEF OwnInv
  <2> QED
    BY <1>9, <1>12, <1>13, <1>14, <2>2
<1>15. ASSUME NEW q \in entries' \intersect DOMAIN before, q \in dirs' \/ q \notin Given
       PROVE  Own(q)' = before[q].size
  <2>1. q \in entries /\ q \in Path /\ q \notin Below(c) /\ (q \in dirs \/ q \notin Given)
    BY <1>1, <1>3, <1>15
  <2> QED
    BY <1>4, <1>9, <1>15, <2>1 DEF OwnInv
<1> QED
  BY <1>2, <1>11, <1>12, <1>14, <1>15 DEF OwnInv

LEMMA StepOwn ==
    ASSUME NoTypeChange, ReportInv, KindInv, OwnInv, [Next]_vars
    PROVE  OwnInv'
<1>1. DBInv /\ SizeInv /\ RestInv /\ CallInv /\ Typed /\ DBInv'
  BY StepInv DEF ReportInv, FullInv, DBInv
<1>2. CASE Finish
  BY <1>2 DEF Finish, OwnInv, At
<1>3. ASSUME UNCHANGED <<before, entries, dirs, size, children, pc, sizeChanged, returnTo,
                         path, parentEntry, listing, next>>
      PROVE  OwnInv'
  <2>1. At' = At
    BY <1>3 DEF At
  <2>2. \A q \in Path : Own(q)' = Own(q)
    BY <1>3 DEF Own, OwnSize, Rising
  <2> QED
    BY <1>1, <1>3, <2>1, <2>2, SameOwn
<1>4. CASE ProcessEntry
  BY <1>3, <1>4 DEF ProcessEntry, entryVars, argVars, riseVars
<1>5. CASE UNCHANGED vars
  BY <1>3, <1>5 DEF vars, entryVars, argVars, riseVars
<1> QED
  BY <1>1, <1>2, <1>4, <1>5, MarkChildrenOwn, KeepEntryOwn, AddEntryOwn, OnChildSizeChangedOwn,
     RemovePendingDeleteOwn, CleanupEntryCrcOwn DEF Next, SetChildrenForPath

TreeInv == ReportInv /\ KindInv /\ OwnInv

LEMMA InitTree == Init => TreeInv
<1> SUFFICES ASSUME Init PROVE TreeInv
  OBVIOUS
<1>1. ReportInv
  BY InitInv, InitSize, InitCall DEF ReportInv, FullInv
<1>2. KindInv /\ OwnInv
  BY DEF Init, KindInv, OwnInv, At
<1> QED
  BY <1>1, <1>2 DEF TreeInv

\* If nothing changes its kind, kinds and sizes are those of the listings.
THEOREM TreeInvAlways ==
    ASSUME NoTypeChange
    PROVE  Spec => []TreeInv
<1>1. TreeInv /\ [Next]_vars => TreeInv'
  BY StepInv, StepSize, StepRest, StepCall, StepKind, StepOwn DEF TreeInv, ReportInv, FullInv
<1> QED
  BY <1>1, InitTree, PTL DEF Spec

-----------------------------------------------------------------------------
(* FileDB implements FileTree *)

LEMMA SameNotions ==
    /\ \A p : Promise!Below(p) = Below(p)
    /\ \A q : Promise!Front(q) = Front(q) /\ Promise!Last(q) = Last(q)
    /\ Promise!Root = Root
BY DEF Promise!Below, Below, Promise!IsPrefix, IsPrefix, Promise!Front, Front, Promise!Last, Last,
       Promise!Root, Root

\* The listing stored, by name
AskedListing ==
    [n \in {listing[i].name : i \in DOMAIN listing} |->
        LET e == CHOOSE e \in ToSet(listing) : e.name = n
        IN  [dir |-> e.dir, size |-> e.size]]

\* What the call under way was asked, as FileTree has it
AskedType ==
    /\ Asked = [path |-> path, entry |-> parentEntry, listing |-> AskedListing]
    /\ Asked # None
    /\ Asked.entry = parentEntry /\ Asked.listing = AskedListing
    /\ DOMAIN AskedListing = {listing[i].name : i \in DOMAIN listing}
    /\ \A i \in DOMAIN listing :
         AskedListing[listing[i].name] = [dir |-> listing[i].dir, size |-> listing[i].size]
    /\ AskedListing \in Promise!Listing(path) \intersect Promise!Listing(parentEntry)

LEMMA AskedFacts == DBInv /\ RestInv /\ CallInv /\ pc # "idle" => AskedType
<1> SUFFICES ASSUME DBInv, RestInv, CallInv, pc # "idle" PROVE AskedType
  OBVIOUS
<1>1. Typed /\ Marks
  BY DEF DBInv
<1>2. Asked = [path |-> path, entry |-> parentEntry, listing |-> AskedListing]
  BY DEF Asked, AskedListing
<1>3. Asked.entry = parentEntry /\ Asked.listing = AskedListing
  BY <1>2
<1> DEFINE N == {listing[i].name : i \in DOMAIN listing}
<1>4. DOMAIN AskedListing = N
  BY DEF AskedListing
<1>5. ASSUME NEW i \in DOMAIN listing
      PROVE  AskedListing[listing[i].name] = [dir |-> listing[i].dir, size |-> listing[i].size]
  <2> DEFINE e == CHOOSE e \in ToSet(listing) : e.name = listing[i].name
  <2>1. e \in ToSet(listing) /\ e.name = listing[i].name
    <3>1. listing[i] \in ToSet(listing)
      BY DEF ToSet
    <3> QED
      BY <3>1
  <2>2. PICK j \in DOMAIN listing : e = listing[j]
    BY <2>1 DEF ToSet
  <2>3. e = listing[i]
    BY <1>1, <2>1, <2>2 DEF Marks
  <2>4. AskedListing[listing[i].name] = [dir |-> e.dir, size |-> e.size]
    BY DEF AskedListing
  <2> QED
    BY <2>3, <2>4
<1>6. AskedListing \in [N -> [dir : BOOLEAN, size : Size]]
  <2> SUFFICES ASSUME NEW n \in N
               PROVE  AskedListing[n] \in [dir : BOOLEAN, size : Size]
    BY <1>4 DEF AskedListing
  <2>1. PICK i \in DOMAIN listing : n = listing[i].name
    OBVIOUS
  <2>2. listing[i].dir \in BOOLEAN /\ listing[i].size \in Size
    BY <1>1, EntrySize
  <2>3. AskedListing[n] = [dir |-> listing[i].dir, size |-> listing[i].size]
    BY <1>5, <2>1
  <2> QED
    BY <2>2, <2>3
<1>7. /\ N \in SUBSET {n \in Name : Append(path, n) \in Path}
      /\ N \in SUBSET {n \in Name : Append(parentEntry, n) \in Path}
  BY <1>1, EntrySize DEF RestInv
<1> HIDE DEF N
<1>8. AskedListing \in Promise!Listing(path) \intersect Promise!Listing(parentEntry)
  BY <1>6, <1>7 DEF Promise!Listing, Promise!Node
<1>9. Asked # None
  <2>1. AskedListing \in UNION {[names -> [dir : BOOLEAN, size : Size]] : names \in SUBSET Name}
    BY <1>6, <1>7
  <2>2. path \in Path /\ parentEntry \in Path
    <3>1. At # "idle"
      BY <1>1 DEF DBInv, Places, At
    <3> QED
      BY <3>1 DEF CallInv, RestInv
  <2>3. Asked \in [path : Path, entry : Path,
                   listing : UNION {[names -> [dir : BOOLEAN, size : Size]] : names \in SUBSET Name}]
    BY <1>2, <2>1, <2>2
  <2> QED
    BY <2>3, FileDBAssumption
<1> QED
  BY <1>2, <1>3, <1>4, <1>5, <1>8, <1>9 DEF AskedType, N

LEMMA AskedNext == (DBInv /\ RestInv /\ CallInv /\ pc # "idle")' => AskedType'
BY AskedFacts, PTL

LEMMA InitPromise == Init => Promise!TreeInit
<1> SUFFICES ASSUME Init PROVE Promise!TreeInit
  OBVIOUS
<1>1. Tree = [q \in {Root} |-> [dir |-> TRUE, size |-> 0]]
  <2>1. entries = {Root} /\ Root \in dirs /\ size[Root] = 0 /\ children[Root] = << >>
    BY PathFacts DEF Init
  <2>2. Total(size, {}) = 0
    <3>1. IsFiniteSet({}) /\ Valued(size, {})
      BY FS_EmptySet DEF Valued
    <3> QED
      BY <3>1, TotalFacts
  <2>3. OwnSize(Root) = 0
    <3>1. ToSet(children[Root]) = {}
      BY <2>1 DEF ToSet
    <3>2. Total(size, ToSet(children[Root])) = 0
      BY <2>2, <3>1
    <3> QED
      BY <2>1, <3>2 DEF OwnSize
  <2> QED
    BY <2>1, <2>3 DEF Tree
<1> QED
  BY <1>1 DEF Init, Asked, Promise!TreeInit, Promise!Root, Root

LEMMA MarkChildrenPromise == TreeInv /\ TreeInv' /\ MarkChildren => Promise!Request
<1> SUFFICES ASSUME TreeInv, TreeInv', MarkChildren PROVE Promise!Request
  OBVIOUS
<1>1. /\ pc = "idle" /\ pc' = "loop" /\ before' = Tree
      /\ UNCHANGED <<entries, bHasChanges>>
  BY DEF MarkChildren
<1>2. DBInv' /\ RestInv' /\ CallInv'
  BY DEF TreeInv, ReportInv, FullInv
<1>3. /\ Asked' = [path |-> path', entry |-> parentEntry', listing |-> AskedListing']
      /\ AskedListing' \in Promise!Listing(path') \intersect Promise!Listing(parentEntry')
  BY <1>1, <1>2, AskedNext DEF AskedType
<1>4. parentEntry' \in DOMAIN Tree
  <2>1. parentEntry' \in DOMAIN before'
    BY <1>1, <1>2 DEF CallInv, At
  <2> QED
    BY <1>1, <2>1
<1>5. path' \in Path /\ parentEntry' \in {path'} \union Mistaken(path')
  <2>1. PICK p \in Path : /\ FindEntry(p) # None
                          /\ path' = p
                          /\ parentEntry' = FindEntry(p)
    BY DEF MarkChildren
  <2>2. Typed /\ MapMatchesTree
    BY DEF TreeInv, ReportInv, FullInv, DBInv
  <2> QED
    BY <2>1, <2>2, MapFinds
<1>6. Asked = None
  BY <1>1 DEF Asked
<1> DEFINE MayBe == [p \in Path |-> {p} \union Mistaken(p)]
<1>7. parentEntry' \in MayBe[path'] \intersect DOMAIN Tree
  BY <1>4, <1>5
<1> QED
  BY <1>1, <1>3, <1>5, <1>6, <1>7 DEF Promise!Request

LEMMA FinishPromise == TreeInv /\ NoTypeChange /\ Finish => Promise!SetChildrenForPath
<1> SUFFICES ASSUME TreeInv, NoTypeChange, Finish PROVE Promise!SetChildrenForPath
  OBVIOUS
<1>1. /\ DBInv /\ Typed /\ ChildSets /\ SizeInv /\ RestInv /\ CallInv /\ KindInv /\ OwnInv
      /\ Marks
  BY DEF TreeInv, ReportInv, FullInv, DBInv
<1>2. /\ pc = "cleanup" /\ pc' = "idle" /\ deletedChildren = {} /\ bHasChanges' = TRUE
      /\ UNCHANGED <<entries, dirs, size, children>>
  BY DEF Finish, entryVars
<1>3. At = "cleanup"
  BY <1>2 DEF At
<1>4. AskedType
  BY <1>1, <1>2, AskedFacts
<1> DEFINE L == AskedListing
           gone == UNION {Below(g) : g \in Lost}
           kept == DOMAIN before \ gone
<1>5. \A i \in DOMAIN listing : i < next
  <2>1. next \notin DOMAIN listing /\ next \in Nat /\ next # 0
    BY <1>1, <1>3 DEF CallInv, Typed, RestInv
  <2> QED
    BY <1>1, <2>1 DEF Typed
<1>6. Names = DOMAIN L
  BY <1>4, <1>5 DEF Names, AskedType
<1>7. Given = {Append(parentEntry, n) : n \in DOMAIN L}
  BY <1>6 DEF Given
<1>8. /\ parentEntry \in Path /\ parentEntry \in DOMAIN before /\ DOMAIN before \subseteq Path
      /\ entries = {q \in DOMAIN before \union Given : \A g \in Lost : q \notin Below(g)}
      /\ \A q \in DOMAIN before \intersect entries : before[q].dir <=> q \in dirs
  BY <1>1, <1>2, <1>3 DEF CallInv, RestInv
<1>9. ASSUME NEW q \in Given
      PROVE  /\ q \in ChildrenOf(parentEntry) /\ Last(q) \in Names /\ q \in Path \ {Root}
             /\ q \in entries
             /\ \E i \in DOMAIN listing : q = Listed(i) /\ Last(q) = listing[i].name
  <2>1. PICK i \in DOMAIN listing : q = Listed(i)
    BY DEF Given, Names, Listed
  <2>2. q \in Path \ {Root} /\ Front(q) = parentEntry /\ Last(q) = listing[i].name
    BY <1>1, <1>8, <2>1, AppendedPath DEF RestInv, Listed
  <2>3. q \in ChildrenOf(parentEntry) /\ Last(q) \in Names
    BY <1>5, <2>2 DEF ChildrenOf, Names
  <2>4. \A g \in Lost : q \notin Below(g)
    BY <1>8, <2>3, ChildrenApart DEF Lost
  <2> QED
    BY <1>8, <2>1, <2>2, <2>3, <2>4
<1>10. entries = kept \union Given
  BY <1>8, <1>9
<1>11. \A g \in Lost : g \in Below(g)
  BY BelowFacts DEF Lost, ChildrenOf
<1>12. ASSUME NEW q \in DOMAIN before, q # Root, Front(q) = parentEntry, Last(q) \in DOMAIN L
       PROVE  L[Last(q)].dir = before[q].dir
  <2>1. q \in ChildrenOf(parentEntry) /\ q = Append(parentEntry, Last(q))
    BY <1>8, <1>12, ChildPath DEF ChildrenOf
  <2>2. q \in Given /\ q \in entries
    BY <1>7, <1>9, <1>12, <2>1
  <2>3. PICK i \in DOMAIN listing : Last(q) = listing[i].name
    BY <1>9, <2>2
  <2>4. L[Last(q)].dir = listing[i].dir /\ listing[i].dir \in BOOLEAN
    <3>1. L[Last(q)] = [dir |-> listing[i].dir, size |-> listing[i].size]
      BY <1>4, <2>3 DEF AskedType
    <3>2. L[Last(q)].dir = listing[i].dir
      BY <3>1
    <3> QED
      BY <1>1, <3>2, EntrySize
  <2>5. before[q].dir \in BOOLEAN /\ (before[q].dir <=> q \in dirs)
    BY <1>1, <1>8, <2>2 DEF CallInv
  <2>6. listing[i].dir <=> q \in dirs
    BY <1>1, <1>12, <2>2, <2>3, ListedKind, LastName, OneKind DEF KindInv, Typed
  <2> QED
    BY <2>4, <2>5, <2>6
<1>13. Promise!Gone(parentEntry, L) = gone
  <2> DEFINE G == {q \in DOMAIN before :
                     /\ q # Root /\ Front(q) = parentEntry
                     /\ Last(q) \in DOMAIN L => L[Last(q)].dir # before[q].dir}
  <2>1. G = Lost
    BY <1>6, <1>8, <1>12 DEF Lost, ChildrenOf
  <2>2. Promise!Gone(parentEntry, L) = UNION {Below(q) : q \in G}
    BY <1>2, SameNotions DEF Promise!Gone
  <2> HIDE DEF G
  <2> QED
    BY <2>1, <2>2
<1> DEFINE U == [q \in kept \union Given |->
                   IF q \in kept /\ (q \in Given => before[q].dir) THEN before[q] ELSE L[Last(q)]]
<1>14. Promise!Updated(parentEntry, L) = U
  BY <1>2, <1>7, <1>13, SameNotions DEF Promise!Updated
<1>15. ASSUME NEW q \in entries
       PROVE  Own(q) = OwnSize(q)
  <2>1. q \in Path
    BY <1>1 DEF Typed
  <2> QED
    BY <1>1, <1>2, <2>1, ChildSizes DEF Own, Rising
<1>16. ASSUME NEW q \in entries
       PROVE  U[q] = [dir |-> q \in dirs, size |-> OwnSize(q)]
  <2>1. CASE q \in kept /\ (q \in Given => before[q].dir)
    <3>1. U[q] = before[q]
      BY <2>1
    <3>2. /\ before[q] \in [dir : BOOLEAN, size : Int]
          /\ before[q].dir <=> q \in dirs
      BY <1>1, <1>8, <2>1 DEF CallInv
    <3>3. before[q].size = OwnSize(q)
      <4>1. q \in dirs \/ q \notin Given
        BY <2>1, <3>2
      <4> QED
        BY <1>1, <1>3, <1>15, <2>1, <4>1 DEF OwnInv
    <3>4. before[q].dir = (q \in dirs)
      BY <3>2
    <3>5. before[q] = [dir |-> before[q].dir, size |-> before[q].size]
      BY <3>2
    <3> QED
      BY <3>1, <3>3, <3>4, <3>5
  <2>2. CASE ~ (q \in kept /\ (q \in Given => before[q].dir))
    <3>1. q \in Given /\ U[q] = L[Last(q)]
      BY <1>10, <2>2
    <3>2. PICK i \in DOMAIN listing : q = Listed(i) /\ Last(q) = listing[i].name
      BY <1>9, <3>1
    <3>3. L[Last(q)] = [dir |-> listing[i].dir, size |-> listing[i].size]
      BY <1>4, <3>2 DEF AskedType
    <3>4. listing[i].dir \in BOOLEAN /\ i < next
      BY <1>1, <1>5, EntrySize
    <3>5. q \in DOMAIN before => q \in kept /\ ~ before[q].dir
      BY <1>8, <2>2, <3>1
    <3>6. listing[i].dir <=> q \in dirs
      <4>1. CASE q \in DOMAIN before
        <5>1. q \notin dirs /\ q \in Path \ {Root}
          BY <1>8, <1>9, <3>1, <3>5, <4>1
        <5> QED
          BY <1>1, <3>2, <5>1, ListedKind, LastName, OneKind DEF KindInv
      <4>2. CASE q \notin DOMAIN before
        BY <1>1, <1>3, <3>2, <3>4, <4>2 DEF CallInv
      <4> QED
        BY <4>1, <4>2
    <3>7. OwnSize(q) = listing[i].size
      <4>1. q \notin dirs \/ q \notin DOMAIN before
        BY <1>8, <3>5
      <4>2. Own(Listed(i)) = listing[i].size
        BY <1>1, <1>3, <3>2, <3>4, <4>1 DEF OwnInv
      <4> QED
        BY <1>15, <3>2, <4>2
    <3>8. listing[i].dir = (q \in dirs)
      BY <3>4, <3>6
    <3> QED
      BY <3>1, <3>3, <3>7, <3>8
  <2> QED
    BY <2>1, <2>2
<1> HIDE DEF kept, gone
<1>17. Tree' = U
  <2>1. Tree' = [q \in entries |-> [dir |-> q \in dirs, size |-> OwnSize(q)]]
    BY <1>2 DEF Tree, OwnSize
  <2>2. U = [q \in entries |-> U[q]]
    BY <1>10
  <2> HIDE DEF U
  <2> QED
    BY <1>16, <2>1, <2>2
<1>18. Asked' = None /\ Asked # None
  BY <1>2, <1>4 DEF Asked, AskedType
<1>19. Tree' = Promise!Updated(Asked.entry, Asked.listing)
  BY <1>4, <1>14, <1>17 DEF AskedType
<1> QED
  BY <1>2, <1>18, <1>19 DEF Promise!SetChildrenForPath

LEMMA StepPromise ==
    TreeInv /\ TreeInv' /\ NoTypeChange /\ [Next]_vars => [Promise!TreeNext]_(Promise!treeVars)
<1> SUFFICES ASSUME TreeInv, TreeInv', NoTypeChange, [Next]_vars
             PROVE  [Promise!TreeNext]_(Promise!treeVars)
  OBVIOUS
<1>1. ASSUME pc # "idle", pc' # "idle", UNCHANGED <<before, bHasChanges, path, parentEntry, listing>>
      PROVE  UNCHANGED Promise!treeVars
  BY <1>1 DEF Promise!treeVars, Asked
<1>2. CASE MarkChildren
  BY <1>2, MarkChildrenPromise DEF Promise!TreeNext
<1>3. CASE KeepEntry
  <2>1. pc = "loop" /\ pc' # "idle"
    BY <1>3 DEF KeepEntry, NextListed, Goto
  <2> QED
    BY <1>1, <1>3, <2>1 DEF KeepEntry, argVars
<1>4. CASE AddEntry
  <2>1. pc = "loop" /\ pc' # "idle"
    BY <1>4 DEF AddEntry, NextListed, Goto
  <2> QED
    BY <1>1, <1>4, <2>1 DEF AddEntry, argVars
<1>5. CASE OnChildSizeChanged
  <2>1. pc = "rise" /\ returnTo # "idle" /\ Goto(returnTo, Front(sizeChanged.entry), sizeChanged.change)
    BY <1>5, RisesThrough DEF TreeInv, ReportInv, FullInv
  <2>2. pc' # "idle"
    BY <2>1 DEF Goto
  <2> QED
    BY <1>1, <1>5, <2>1, <2>2 DEF OnChildSizeChanged, argVars
<1>6. CASE RemovePendingDelete
  <2>1. pc = "loop" /\ pc' # "idle"
    BY <1>6 DEF RemovePendingDelete, Goto
  <2> QED
    BY <1>1, <1>6, <2>1 DEF RemovePendingDelete, argVars
<1>7. CASE CleanupEntryCrc
  BY <1>1, <1>7 DEF CleanupEntryCrc, argVars
<1>8. CASE Finish
  BY <1>8, FinishPromise DEF Promise!TreeNext
<1>9. CASE ProcessEntry
  <2>1. /\ pc = "idle" /\ pc' = "idle" /\ bHasChanges' = FALSE
        /\ UNCHANGED <<entries, dirs, size, children>>
    BY <1>9 DEF ProcessEntry, entryVars
  <2>2. Tree' = Tree
    BY <2>1 DEF Tree, OwnSize
  <2> QED
    BY <2>1, <2>2 DEF Asked, Promise!TreeNext, Promise!ProcessEntry
<1>10. CASE UNCHANGED vars
  <2>1. Tree' = Tree
    BY <1>10 DEF vars, entryVars, Tree, OwnSize
  <2>2. Asked' = Asked
    BY <1>10 DEF vars, argVars, Asked
  <2> QED
    BY <1>10, <2>1, <2>2 DEF vars, Promise!treeVars
<1> QED
  BY <1>2, <1>3, <1>4, <1>5, <1>6, <1>7, <1>8, <1>9, <1>10 DEF Next, SetChildrenForPath

-----------------------------------------------------------------------------
(* The theorems *)

\* The map of CRCs has exactly the entries of the tree, each in its bucket and once.
THEOREM MapMatchesTreeAlways == Spec => []MapMatchesTree
<1>1. DBInv => MapMatchesTree
  BY DEF DBInv
<1> QED
  BY <1>1, DBInvAlways, PTL

\* The counts are the numbers of files and directories at every step.
THEOREM CountsMatchAlways == Spec => []CountsMatch
<1>1. DBInv => CountsMatch
  BY DEF DBInv
<1> QED
  BY <1>1, DBInvAlways, PTL

\* The counts of what is left to be deleted are those of the marks.
THEOREM MarksCountedAlways == Spec => []MarksCounted
<1>1. DBInv => MarksCounted
  BY DEF DBInv, Marks, At, MarksCounted
<1> QED
  BY <1>1, DBInvAlways, PTL

\* For the path of an entry one is found, whatever CRCs collide, and what is found is
\* the entry of the path but for one the path may be mistaken for, where the names
\* before its own cancel out in the CRC.
THEOREM FoundOrMistakenAlways == Spec => []FoundOrMistaken
<1>1. DBInv => FoundOrMistaken
  BY MapFinds DEF DBInv, FoundOrMistaken
<1> QED
  BY <1>1, DBInvAlways, PTL

\* At every step each directory has its children once and in order, and each entry
\* is in the bin where a change of its size is looked for.
THEOREM ChildrenAlwaysSorted == Spec => []ChildrenSorted
<1>1. FullInv => ChildrenSorted
  BY DEF FullInv, DBInv, SizeInv, Typed, ChildSets, InBins, ChildrenSorted
<1> QED
  BY <1>1, FullInvAlways, PTL

\* Every variable keeps its type; no count of what is there falls below what it must
\* be, and what is marked or on its way out is still there.
THEOREM TypeOKAlways == Spec => []TypeOK
<1> SUFFICES ASSUME FullInv PROVE TypeOK
  <2>1. FullInv => TypeOK
    OBVIOUS
  <2> QED
    BY <2>1, FullInvAlways, PTL
<1>1. Typed /\ ChildSets /\ Places /\ Marks /\ CountsMatch /\ SizeInv /\ RestInv
  BY DEF FullInv, DBInv
<1>2. pendingDelete \subseteq entries /\ deletedChildren \subseteq entries /\ parentEntry \in Path
  BY <1>1 DEF Places, Marks, ChildSets, Typed
<1>3. fileCount \in Nat /\ dirCount \in Nat \ {0}
  <2>1. /\ entries \ dirs \subseteq entries /\ dirs \subseteq entries
        /\ Root \in dirs
    BY <1>1 DEF Typed
  <2>2. /\ Cardinality(entries \ dirs) \in Nat
        /\ IsFiniteSet(dirs) /\ Cardinality(dirs) \in Nat
    BY <1>1, <2>1, FiniteEntries
  <2>3. Cardinality(dirs) # 0
    BY <2>1, <2>2, FS_EmptySet
  <2> QED
    BY <1>1, <2>2, <2>3 DEF CountsMatch
<1>4. pc \in {"idle", "loop", "rise", "cleanup"}
  BY <1>1 DEF Places, At
<1> QED
  BY <1>1, <1>2, <1>3, <1>4 DEF Typed, SizeInv, RestInv, TypeOK

\* What a call reports to be scanned next are the directories that were not there when
\* it began, each once, whatever it keeps and removes and whichever entry it has found.
THEOREM NewPathsAlwaysReported == Spec => []NewPathsReported
<1>1. ReportInv => NewPathsReported
  BY DEF ReportInv, NewInv, New, NewPathsReported, At
<1> QED
  BY <1>1, ReportInvAlways, PTL

\* FileDB is the tree it promises to be, for every tree and every listing: what is
\* there when a call returns is what it was asked to store, in the directory asked for
\* or one it may be mistaken for, whatever is kept, added and removed and however the
\* changes of size rise meanwhile, provided that nothing turns from a file into a
\* directory or back.
THEOREM FileDBImplementsFileTree ==
    ASSUME NoTypeChange
    PROVE  Spec => ImplementsFileTree
<1>1. Init => Promise!TreeInit
  BY InitPromise
<1>2. TreeInv /\ TreeInv' /\ [Next]_vars => [Promise!TreeNext]_(Promise!treeVars)
  BY StepPromise
<1>3. Spec => []TreeInv
  BY TreeInvAlways
<1> QED
  BY <1>1, <1>2, <1>3, PTL DEF Spec, ImplementsFileTree, Promise!TreeSpec
=============================================================================
