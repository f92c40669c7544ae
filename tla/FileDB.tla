-------------------------------- MODULE FileDB --------------------------------
(* FileDB with FileEntry (lib/src/filedb.cpp, fileentry.cpp): the tree of     *)
(* entries, each directory's children in bins by size, the map from path CRCs *)
(* to entries, and the counts that are read without the mutex.                *)
(*                                                                            *)
(* An entry is named by its place in the tree, a sequence of names. dbMtx is  *)
(* held from MarkChildren to Finish, wherever pc is not "idle". A CRC is a    *)
(* set of bits, so that XOR is symmetric difference. Definitions marked       *)
(* "Fault:" are variants of the one below them, for mutation runs.            *)
EXTENDS Sublists

CONSTANTS Name,     \* of files and directories
          Path,     \* bound: the paths there may be, sequences of names
          Size,     \* of an entry by itself
          Kind,     \* for each name, whether it may be a directory's, a file's
          Bit,      \* the bits of a CRC
          NameCrc,  \* crc16 of each name
          None      \* nullptr

ASSUME FileDBAssumption ==
    /\ Path \subseteq Seq(Name) /\ IsFiniteSet(Path)
    /\ << >> \in Path
    /\ \A p \in Path \ {<< >>} : Front(p) \in Path
    /\ Size \subseteq Nat
    /\ Kind \in [Name -> SUBSET BOOLEAN]
    /\ NameCrc \in [Name -> SUBSET Bit]
    /\ None \notin Path
    /\ None \notin [path : Path, entry : Path,
                    listing : UNION {[names -> [dir : BOOLEAN, size : Size]] : names \in SUBSET Name}]

VARIABLES
    \* the entries and their members; bin is the size of the bin an entry is in
    entries, dirs, size, children, bin, pendingDelete,
    \* the members of FileDB
    entriesMap, fileCount, dirCount, usedSpace, bHasChanges,
    \* setChildrenForPath: where it is, its arguments, its local variables
    pc, path, listing, next, parentEntry, deletedFileCount, deletedDirCount,
    deletedChildren, newPaths,
    \* the call of onChildSizeChanged under way, and where it returns to
    sizeChanged, returnTo,
    \* history: the tree when setChildrenForPath was called
    before

entryVars  == <<entries, dirs, size, children, bin, pendingDelete>>
countVars  == <<fileCount, dirCount>>
argVars    == <<path, listing, parentEntry>>
deleteVars == <<deletedFileCount, deletedDirCount, deletedChildren>>
riseVars   == <<sizeChanged, returnTo>>

vars == <<entryVars, entriesMap, countVars, usedSpace, bHasChanges, pc, argVars,
          next, deleteVars, newPaths, riseVars, before>>

Root == << >>
Below(p) == {q \in Path : IsPrefix(p, q)}
ChildrenOf(p) == {q \in Path \ {Root} : Front(q) = p}

-----------------------------------------------------------------------------
(* CRCs, and how entries are found by them *)

\* The XOR of the CRCs of the names in p
PathCrc(p) == {b \in Bit : Cardinality({i \in DOMAIN p : b \in NameCrc[p[i]]}) % 2 = 1}

\* The names of entry e, and of the directories it lies in, against those of p
\* from the end. The loop ends when it has come to the root, and e is accepted
\* though p may have more names.
NamesMatch(e, p) ==
    /\ Len(e) <= Len(p)
    /\ \A i \in DOMAIN e : e[i] = p[i + Len(p) - Len(e)]

\* Fault: whatever has the CRC of the path is taken for it
FindEntryByCrc(p) ==
    LET bucket == entriesMap[PathCrc(p)]
    IN  IF p = Root THEN Root
        ELSE IF bucket = << >> THEN None
        ELSE bucket[1]

\* _findEntry(path): the first in its bucket that matches
FindEntry(p) ==
    LET bucket == entriesMap[PathCrc(p)]
        hits   == {k \in DOMAIN bucket : NamesMatch(bucket[k], p)}
    IN  IF p = Root THEN Root
        ELSE IF hits = {} THEN None
        ELSE bucket[Min(hits)]

\* _findEntry(name, parent)
HasChild(parent, name) ==
    LET c == Append(parent, name) IN c \in ToSet(entriesMap[PathCrc(c)])

-----------------------------------------------------------------------------
(* Children in bins. The bins are in decreasing order, and so children[p] is  *)
(* their chains one after the other.                                          *)

\* _addChild: to the front of its bin, which is created if need be
AddToBin(chain, c, s) ==
    LET ahead == {i \in DOMAIN chain : bin[chain[i]] > s}
    IN  Pick(chain, ahead) \o <<c>> \o Pick(chain, DOMAIN chain \ ahead)

Without(chain, S) == Pick(chain, {i \in DOMAIN chain : chain[i] \notin S})

\* Goes on at to, by way of onChildSizeChanged in the parent of e if e has one and
\* its size has changed
Goto(to, e, change) ==
    IF e # Root /\ change # 0
      THEN /\ pc' = "rise"
           /\ sizeChanged' = [entry |-> e, change |-> change]
           /\ returnTo' = to
      ELSE pc' = to /\ UNCHANGED riseVars

\* Fault: the child stays where it is
RebinnedInPlace(e) == children[Front(e)]

\* The children of its parent after e has been taken out and put back
Rebinned(e) == AddToBin(Without(children[Front(e)], {e}), e, size[e])

\* One level of FileEntry::onChildSizeChanged: the child is looked for in the bin
\* of its old size and put into that of its new one. When it is not there the
\* sizes above stay as they are.
OnChildSizeChanged ==
    LET e == sizeChanged.entry
        p == Front(e)
    IN  /\ pc = "rise"
        /\ IF bin[e] = size[e] - sizeChanged.change
             THEN /\ children' = [children EXCEPT ![p] = Rebinned(e)]
                  /\ bin' = [bin EXCEPT ![e] = size[e]]
                  /\ size' = [size EXCEPT ![p] = @ + sizeChanged.change]
                  /\ Goto(returnTo, p, sizeChanged.change)
             ELSE /\ pc' = returnTo
                  /\ UNCHANGED <<children, bin, size, riseVars>>
        /\ UNCHANGED <<entries, dirs, pendingDelete, entriesMap, countVars,
                       usedSpace, bHasChanges, argVars, next, deleteVars,
                       newPaths, before>>

-----------------------------------------------------------------------------

Entry == {e \in [name : Name, dir : BOOLEAN, size : Size] : e.dir \in Kind[e.name]}

\* What may be listed in a directory, after the std::sort of setChildrenForPath:
\* no name twice, the bigger first
SortedListings(p) ==
    LET found == {e \in Entry : Append(p, e.name) \in Path}
        sets  == {S \in SUBSET found : /\ IsFiniteSet(S)
                                       /\ \A d, e \in S : d.name = e.name => d = e}
    IN  {l \in UNION {SetToSeqs(S) : S \in sets} :
            \A i, j \in DOMAIN l : i < j => l[i].size >= l[j].size}

\* An entry's size without what is in it
OwnSize(p) == size[p] - Total(size, ToSet(children[p]))

Tree == [p \in entries |-> [dir |-> p \in dirs, size |-> OwnSize(p)]]

Init ==
    /\ entries = {Root}
    /\ dirs = {Root}
    /\ size = [p \in Path |-> 0]
    /\ children = [p \in Path |-> << >>]
    /\ bin = [p \in Path |-> 0]
    /\ pendingDelete = {}
    /\ entriesMap = [c \in SUBSET Bit |-> << >>]
    /\ fileCount = 0
    /\ dirCount = 1
    /\ usedSpace = 0
    /\ bHasChanges = TRUE
    /\ pc = "idle"
    /\ path = Root
    /\ listing = << >>
    /\ next = 1
    /\ parentEntry = Root
    /\ deletedFileCount = 0
    /\ deletedDirCount = 0
    /\ deletedChildren = {}
    /\ newPaths = << >>
    /\ sizeChanged = [entry |-> Root, change |-> 0]
    /\ returnTo = "idle"
    /\ before = [p \in {Root} |-> [dir |-> TRUE, size |-> 0]]

\* setChildrenForPath, called with the path and the listing of a directory, finds
\* its entry and marks all its children.
MarkChildren ==
    /\ pc = "idle" /\ pc' = "loop"
    /\ \E p \in Path :
         /\ \A i \in DOMAIN p : TRUE \in Kind[p[i]]
         /\ FindEntry(p) # None
         /\ path' = p
         /\ parentEntry' = FindEntry(p)
         /\ listing' \in SortedListings(p) \intersect SortedListings(FindEntry(p))
         /\ pendingDelete' = pendingDelete \union ToSet(children[FindEntry(p)])
         /\ deletedDirCount' = Cardinality(ToSet(children[FindEntry(p)]) \intersect dirs)
         /\ deletedFileCount' = Cardinality(ToSet(children[FindEntry(p)]) \ dirs)
    /\ next' = 1
    /\ before' = Tree
    /\ UNCHANGED <<entries, dirs, size, children, bin, entriesMap, countVars,
                   usedSpace, bHasChanges, deletedChildren, newPaths, riseVars>>

NextListed(e, c) ==
    /\ pc = "loop"
    /\ next \in DOMAIN listing
    /\ e = listing[next]
    /\ c = Append(parentEntry, e.name)
    /\ next' = next + 1

\* Fault: only files are counted off
CountedOffFiles(c) ==
    /\ deletedFileCount' = IF c \in dirs THEN deletedFileCount ELSE deletedFileCount - 1
    /\ UNCHANGED deletedDirCount

CountedOff(c) ==
    /\ deletedDirCount' = IF c \in dirs THEN deletedDirCount - 1 ELSE deletedDirCount
    /\ deletedFileCount' = IF c \in dirs THEN deletedFileCount ELSE deletedFileCount - 1

\* The next entry listed is there already: it is kept, and if it is a file gets
\* the size listed.
KeepEntry ==
    \E e \in ToSet(listing), c \in Path :
        /\ NextListed(e, c)
        /\ HasChild(parentEntry, e.name)
        /\ pendingDelete' = pendingDelete \ {c}
        /\ CountedOff(c)
        /\ IF c \in dirs
             THEN pc' = "loop" /\ UNCHANGED <<size, riseVars>>
             ELSE /\ size' = [size EXCEPT ![c] = e.size]
                  /\ Goto("loop", c, e.size - size[c])
        /\ UNCHANGED <<entries, dirs, children, bin, entriesMap, countVars,
                       usedSpace, bHasChanges, argVars, deletedChildren,
                       newPaths, before>>

\* Fault: files are reported as well
ReportedAlways(e) == Append(newPaths, Append(path, e.name))

\* The path reported is put together from the one setChildrenForPath was called with
Reported(e) == IF e.dir THEN Append(newPaths, Append(path, e.name)) ELSE newPaths

\* The next entry listed is new: it is added, counted, reported if it is a
\* directory, and put into the map.
AddEntry ==
    \E e \in ToSet(listing), c \in Path :
        /\ NextListed(e, c)
        /\ ~ HasChild(parentEntry, e.name)
        /\ entries' = entries \union {c}
        /\ dirs' = IF e.dir THEN dirs \union {c} ELSE dirs
        /\ size' = [size EXCEPT ![c] = e.size, ![parentEntry] = @ + e.size]
        /\ children' = [children EXCEPT ![parentEntry] = AddToBin(@, c, e.size)]
        /\ bin' = [bin EXCEPT ![c] = e.size]
        /\ dirCount' = IF e.dir THEN dirCount + 1 ELSE dirCount
        /\ fileCount' = IF e.dir THEN fileCount ELSE fileCount + 1
        /\ newPaths' = Reported(e)
        /\ entriesMap' = [entriesMap EXCEPT ![PathCrc(c)] = Append(@, c)]
        /\ Goto("loop", parentEntry, e.size)
        /\ UNCHANGED <<pendingDelete, usedSpace, bHasChanges, argVars,
                       deleteVars, before>>

Marked == ToSet(children[parentEntry]) \intersect pendingDelete

\* Fault: one marked entry is not enough
ToRemoveOffByOne == IF deletedFileCount + deletedDirCount > 1 THEN Marked ELSE {}

\* Whether anything is removed goes by the counts, what is removed by the marks
ToRemove == IF deletedFileCount + deletedDirCount > 0 THEN Marked ELSE {}

\* removePendingDelete
RemovePendingDelete ==
    LET change == Total(size, ToRemove)
    IN  /\ pc = "loop"
        /\ next \notin DOMAIN listing
        /\ children' = [children EXCEPT ![parentEntry] = Without(@, ToRemove)]
        /\ pendingDelete' = pendingDelete \ ToRemove
        /\ deletedChildren' = ToRemove
        /\ size' = [size EXCEPT ![parentEntry] = @ - change]
        /\ Goto("cleanup", parentEntry, - change)
        /\ UNCHANGED <<entries, dirs, bin, entriesMap, countVars, usedSpace,
                       bHasChanges, argVars, next, deletedFileCount,
                       deletedDirCount, newPaths, before>>

\* The entries of the subtree S that are in the map
InMap(S) == {q \in S : q \in ToSet(entriesMap[PathCrc(q)])}

\* Fault: the function is not called for what lies below
MapCleanedShallow(c) == [crc \in SUBSET Bit |-> Without(entriesMap[crc], {c})]

MapCleaned(c) ==
    [crc \in SUBSET Bit |->
        Without(entriesMap[crc], {e \in Below(c) : PathCrc(e) = crc})]

\* Fault: the else is missing
DeletedFilesAll(c) == Cardinality(InMap(Below(c)))

\* Fault: only the entry itself counts
DeletedFilesOne(c) == Cardinality({c} \ dirs)

DeletedFiles(c) == Cardinality(InMap(Below(c)) \ dirs)

DeletedDirs(c) == Cardinality(InMap(Below(c)) \intersect dirs)

\* _cleanupEntryCrc of a deleted child, with everything below it; the entries end
\* with it.
CleanupEntryCrc ==
    /\ pc = "cleanup"
    /\ \E c \in deletedChildren :
         /\ deletedChildren' = deletedChildren \ {c}
         /\ entriesMap' = MapCleaned(c)
         /\ dirCount' = dirCount - DeletedDirs(c)
         /\ fileCount' = fileCount - DeletedFiles(c)
         /\ entries' = entries \ Below(c)
         /\ dirs' = dirs \ Below(c)
         /\ size' = [q \in Path |-> IF q \in Below(c) THEN 0 ELSE size[q]]
         /\ bin' = [q \in Path |-> IF q \in Below(c) THEN 0 ELSE bin[q]]
         /\ children' = [q \in Path |-> IF q \in Below(c) THEN << >> ELSE children[q]]
    /\ UNCHANGED <<pendingDelete, usedSpace, bHasChanges, pc, argVars, next,
                   deletedFileCount, deletedDirCount, newPaths, riseVars,
                   before>>

\* setChildrenForPath returns
Finish ==
    /\ pc = "cleanup" /\ pc' = "idle"
    /\ deletedChildren = {}
    /\ usedSpace' = size[Root]
    /\ bHasChanges' = TRUE
    /\ path' = Root /\ listing' = << >> /\ parentEntry' = Root /\ next' = 1
    /\ deletedFileCount' = 0 /\ deletedDirCount' = 0
    /\ newPaths' = << >>
    /\ sizeChanged' = [entry |-> Root, change |-> 0] /\ returnTo' = "idle"
    /\ UNCHANGED <<entryVars, entriesMap, countVars, deletedChildren, before>>

SetChildrenForPath ==
    \/ MarkChildren \/ KeepEntry \/ AddEntry \/ OnChildSizeChanged
    \/ RemovePendingDelete \/ CleanupEntryCrc \/ Finish

\* Another thread reads an entry, whichever it is.
ProcessEntry ==
    /\ pc = "idle"
    /\ \E p \in Path : FindEntry(p) # None
    /\ bHasChanges' = FALSE
    /\ UNCHANGED <<entryVars, entriesMap, countVars, usedSpace, pc, argVars,
                   next, deleteVars, newPaths, riseVars, before>>

Next == SetChildrenForPath \/ ProcessEntry

Spec == Init /\ [][Next]_vars

-----------------------------------------------------------------------------
(* Properties *)

TypeOK ==
    /\ entries \subseteq Path
    /\ dirs \subseteq entries
    /\ size \in [Path -> Int]
    /\ children \in [Path -> Seq(Path)]
    /\ bin \in [Path -> Int]
    /\ pendingDelete \subseteq entries
    /\ entriesMap \in [SUBSET Bit -> Seq(Path)]
    /\ fileCount \in Nat /\ dirCount \in Nat \ {0}
    /\ usedSpace \in Int
    /\ bHasChanges \in BOOLEAN
    /\ pc \in {"idle", "loop", "rise", "cleanup"}
    /\ path \in Path
    /\ listing \in Seq(Entry)
    /\ next \in Nat \ {0}
    /\ parentEntry \in Path
    /\ deletedFileCount \in Int /\ deletedDirCount \in Int
    /\ deletedChildren \subseteq entries
    /\ newPaths \in Seq(Path)
    /\ sizeChanged \in [entry : Path, change : Int]
    /\ returnTo \in {"idle", "loop", "cleanup"}
    /\ DOMAIN before \subseteq Path

\* The map has every entry but the root, each once, in the bucket of its CRC, and
\* nothing else: no pointer to an entry that was deleted is left in it, whatever
\* was below a directory that is gone, and whichever entries share a bucket.
MapMatchesTree ==
    \A crc \in SUBSET Bit :
        /\ ToSet(entriesMap[crc]) = {e \in entries \ {Root} : PathCrc(e) = crc}
        /\ IsInjective(entriesMap[crc])

\* fileCount and dirCount, which are read without the mutex, are the numbers of
\* entries in the map at every step.
CountsMatch ==
    /\ fileCount = Cardinality(entries \ dirs)
    /\ dirCount = Cardinality(dirs)

\* A directory has each of its children once, the biggest first, in the bin of its
\* size; only the one whose change of size is on its way up is in that of its old
\* size.
ChildrenSorted ==
    /\ \A p \in entries :
         /\ ToSet(children[p]) = (ChildrenOf(p) \intersect entries) \ deletedChildren
         /\ IsInjective(children[p])
         /\ \A i, j \in DOMAIN children[p] :
              i < j => bin[children[p][i]] >= bin[children[p][j]]
    /\ \A e \in entries \ {Root} :
         bin[e] = IF pc = "rise" /\ e = sizeChanged.entry
                    THEN size[e] - sizeChanged.change ELSE size[e]

\* The counts that decide whether anything is removed, and how much is reserved for
\* it, are those of the marks at every entry of the listing.
MarksCounted ==
    pc = "loop" => /\ deletedDirCount = Cardinality(pendingDelete \intersect dirs)
                   /\ deletedFileCount = Cardinality(pendingDelete \ dirs)

\* What is reported to be scanned next are the directories that were not there
\* when the call began, each once, under the path the call was made with.
NewPathsReported ==
    pc = "cleanup" =>
        /\ ToSet(newPaths) =
             {Append(path, Last(c)) :
                 c \in (ChildrenOf(parentEntry) \intersect dirs)
                         \ (DOMAIN before \union deletedChildren)}
        /\ IsInjective(newPaths)

\* The entries that path p may be mistaken for: p ends with their names, and the
\* CRCs of the names before those cancel out, so that both share a bucket.
Mistaken(p) ==
    {e \in Path \ {Root} : /\ Len(e) < Len(p)
                           /\ NamesMatch(e, p)
                           /\ PathCrc(SubSeq(p, 1, Len(p) - Len(e))) = {}}

\* For the path of an entry one is found; and what is found is the entry of the
\* path, or one that the path may be mistaken for because names on the way to it
\* cancel out. No other collision of CRCs leads to a wrong entry.
FoundOrMistaken ==
    pc = "idle" =>
        \A p \in Path :
            /\ p \in entries => FindEntry(p) # None
            /\ FindEntry(p) # None => /\ FindEntry(p) \in entries
                                      /\ FindEntry(p) \in {p} \union Mistaken(p)

\* What the call under way was asked to store
Asked ==
    IF pc = "idle" THEN None
    ELSE [path    |-> path,
          entry   |-> parentEntry,
          listing |-> [n \in {listing[i].name : i \in DOMAIN listing} |->
                         LET e == CHOOSE e \in ToSet(listing) : e.name = n
                         IN  [dir |-> e.dir, size |-> e.size]]]

Promise == INSTANCE FileTree
             WITH tree <- IF pc = "idle" THEN Tree ELSE before,
                  hasChanges <- bHasChanges,
                  request <- Asked,
                  MayBe <- [p \in Path |-> {p} \union Mistaken(p)]

\* FileDB implements FileTree: whatever was in the directory, and however the
\* changes of size go up the tree and from bin to bin, what is there when a call
\* returns is what it was asked to store, and every other entry has kept the size
\* it has by itself. The directory is the one asked for, or one it is mistaken for.
ImplementsFileTree == Promise!TreeSpec
=============================================================================
