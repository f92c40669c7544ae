------------------------------ MODULE ScanQueue ------------------------------
(* The queue of scan requests of SpaceScanner (lib/src/spacescanner.cpp) and  *)
(* the path comparison it relies on (lib/src/filepath.cpp).                   *)
(*                                                                            *)
(* A path is the sequence of the directory names below the scanned root, so   *)
(* the root is <<>>. The CRC that FilePath::compareTo looks at first only     *)
(* spares comparisons of names: equal names have equal CRCs.                  *)
(*                                                                            *)
(* The operators are closed forms of the loops in the code, with no recursion *)
(* in them, so that they can be reasoned about; ScanQueueLoops compares them  *)
(* with the loops themselves. Definitions marked "Fault:" are variants of the *)
(* one below them with a plausible mistake in it, for mutation runs.          *)
EXTENDS Sublists

CONSTANTS Name,     \* names of directory entries
          Dirs      \* the directories that may exist below the scanned root

VARIABLE scanQueue  \* SpaceScanner::scanQueue, the requests from the front on

Root == << >>

ASSUME DirsAssumption ==
    /\ Dirs \subseteq Seq(Name)
    /\ Dirs # {} /\ IsFiniteSet(Dirs)
    /\ \A p \in Dirs : \A n \in 0 .. Len(p) : SubSeq(p, 1, n) \in Dirs

\* SpaceScanner::ScanRequest
Request == [path : Dirs, recursive : BOOLEAN]

-----------------------------------------------------------------------------
(* FilePath::compareTo, FilePath::goUp *)

\* How p lies relative to q
CompareTo(p, q) ==
    CASE p = q                -> "EQUAL"
      [] IsStrictPrefix(p, q) -> "PARENT"
      [] IsStrictPrefix(q, p) -> "CHILD"
      [] OTHER                -> "DIFFERENT"

ChildrenOf(p) == {c \in Dirs \ {Root} : Front(c) = p}

-----------------------------------------------------------------------------
(* SpaceScanner::addToQueue, SpaceScanner::addChildrenToQueue *)

\* Fault: the loop goes on after the equal path
ErasedNoBreak(q, p) ==
    {i \in DOMAIN q : CompareTo(p, q[i].path) \in {"PARENT", "EQUAL"}}

\* Fault: the equal path is left in the queue
ErasedBelowOnly(q, p) == {i \in DOMAIN q : CompareTo(p, q[i].path) = "PARENT"}

\* The positions addToQueue(p) erases: the requests below p, up to and with
\* the first request for p itself, where the loop breaks off.
Erased(q, p) ==
    {i \in DOMAIN q : /\ CompareTo(p, q[i].path) \in {"PARENT", "EQUAL"}
                      /\ \A j \in 1 .. i - 1 : q[j].path # p}

\* addToQueue for each of the paths ps in turn, none of which is in another.
AddAll(q, ps, recursive, toBack) ==
    LET erased == UNION {Erased(q, ps[i]) : i \in DOMAIN ps}
        kept   == Pick(q, DOMAIN q \ erased)
        new    == [i \in DOMAIN ps |-> [path |-> ps[i], recursive |-> recursive]]
    IN  IF toBack THEN kept \o new ELSE Reverse(new) \o kept

AddToQueue(q, p, recursive, toBack) == AddAll(q, <<p>>, recursive, toBack)

\* Fault: any request above p will do
IsCoveredByAny(q, p) ==
    \E i \in DOMAIN q : /\ CompareTo(p, q[i].path) = "CHILD"
                        /\ \A j \in 1 .. i - 1 :
                             CompareTo(p, q[j].path) = "DIFFERENT"

\* The first request that is related to the directory p is a recursive one
\* above p
IsCovered(q, p) ==
    \E i \in DOMAIN q : /\ q[i].recursive
                        /\ CompareTo(p, q[i].path) = "CHILD"
                        /\ \A j \in 1 .. i - 1 :
                             CompareTo(p, q[j].path) = "DIFFERENT"

\* The children ps of one directory. Where no request is related to their
\* parent the code pushes them without looking for requests to erase, of which
\* there are then none.
AddChildrenToQueue(q, ps, recursive, toBack) ==
    IF IsCovered(q, Front(ps[1])) THEN q ELSE AddAll(q, ps, recursive, toBack)

-----------------------------------------------------------------------------
(* What the queue promises *)

\* The directories that the requests in q will have listed: those asked for,
\* and those below a recursive request.
Owed(q) == {d \in Dirs : \E i \in DOMAIN q :
                \/ d = q[i].path
                \/ q[i].recursive /\ IsPrefix(q[i].path, d)}

UniquePaths(q) == \A i, j \in DOMAIN q : q[i].path = q[j].path => i = j
=============================================================================
