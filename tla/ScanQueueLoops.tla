---------------------------- MODULE ScanQueueLoops ----------------------------
(* The loops of SpaceScanner::addToQueue and addChildrenToQueue as written,   *)
(* to compare the closed forms of ScanQueue with. What a loop has done after  *)
(* n rounds is the value at n of a function that is defined from the round    *)
(* before.                                                                    *)
EXTENDS ScanQueue

\* One round of the loop of addToQueue: what is kept of the requests looked at so
\* far, and whether the loop has broken off, which leaves all further ones.
EraseRound(was, p, request) ==
    LET res  == CompareTo(p, request.path)
        kept == [kept |-> Append(was.kept, request), broken |-> was.broken]
    IN  CASE was.broken \/ res \in {"DIFFERENT", "CHILD"} -> kept
          [] ~ was.broken /\ res = "PARENT"  -> was
          [] ~ was.broken /\ res = "EQUAL"   -> [kept |-> was.kept, broken |-> TRUE]

Left(q, p) ==
    LET left[n \in 0 .. Len(q)] ==
            IF n = 0 THEN [kept |-> << >>, broken |-> FALSE]
            ELSE EraseRound(left[n - 1], p, q[n])
    IN  left

LoopAddToQueue(q, p, recursive, toBack) ==
    LET rest    == Left(q, p)[Len(q)].kept
        request == [path |-> p, recursive |-> recursive]
    IN  IF toBack THEN Append(rest, request) ELSE <<request>> \o rest

\* The loop at the top of addChildrenToQueue: what n requests have decided, "batch"
\* as long as none of them is related to the parent
LookedFor(q, parent) ==
    LET found[n \in 0 .. Len(q)] ==
            IF n = 0 THEN "batch"
            ELSE LET res == CompareTo(parent, q[n].path)
                 IN  IF found[n - 1] # "batch" \/ res = "DIFFERENT" THEN found[n - 1]
                     ELSE IF res = "CHILD" /\ q[n].recursive THEN "covered"
                     ELSE "separately"
    IN  found

\* The queue when n of the children have been pushed, or added each for itself
Pushed(q, ps, recursive, toBack) ==
    LET queue[n \in 0 .. Len(ps)] ==
            IF n = 0 THEN q
            ELSE LET request == [path |-> ps[n], recursive |-> recursive]
                 IN  IF toBack THEN Append(queue[n - 1], request)
                     ELSE <<request>> \o queue[n - 1]
    IN  queue
AddedEach(q, ps, recursive, toBack) ==
    LET queue[n \in 0 .. Len(ps)] ==
            IF n = 0 THEN q
            ELSE LoopAddToQueue(queue[n - 1], ps[n], recursive, toBack)
    IN  queue

LoopAddChildrenToQueue(q, ps, recursive, toBack) ==
    LET found == LookedFor(q, Front(ps[1]))[Len(q)]
    IN  CASE found = "covered"    -> q
          [] found = "batch"      -> Pushed(q, ps, recursive, toBack)[Len(ps)]
          [] found = "separately" -> AddedEach(q, ps, recursive, toBack)[Len(ps)]

-----------------------------------------------------------------------------

\* Some children of one directory, in the order they were read
Siblings == UNION {SetToSeqs(S) : S \in (UNION {SUBSET ChildrenOf(p) : p \in Dirs}) \ {{}}}

\* addToQueue and addChildrenToQueue do what the closed forms say, for every
\* argument and in every queue the scanner can have.
LoopsAgree ==
    \A recursive, toBack \in BOOLEAN :
        /\ \A p \in Dirs : AddToQueue(scanQueue, p, recursive, toBack)
                             = LoopAddToQueue(scanQueue, p, recursive, toBack)
        /\ \A ps \in Siblings : AddChildrenToQueue(scanQueue, ps, recursive, toBack)
                             = LoopAddChildrenToQueue(scanQueue, ps, recursive, toBack)
=============================================================================
