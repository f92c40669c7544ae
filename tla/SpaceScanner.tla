---------------------------- MODULE SpaceScanner ----------------------------
(* SpaceScanner (lib/src/spacescanner.cpp): the worker thread that lists      *)
(* directories into the database, the client (the GUI thread) that pauses,    *)
(* resumes, stops, rescans and destroys the scanner, the watcher thread that  *)
(* hands on notifications, and the file system that changes under them.       *)
(*                                                                            *)
(* Only directories are modelled: db and disk are sets of directories. A file *)
(* that changes is to the scanner what a subdirectory that appears is, an     *)
(* event for the directory it lies in. Definitions marked "Fault:" are        *)
(* variants of the one below them, for mutation runs.                         *)
EXTENDS ScanQueue

CONSTANTS Excluded,     \* availableRoots and excludedMounts
          NoPath,       \* nullptr in currentScannedPath
          HasWatcher,   \* SpaceWatcher::create succeeded
          WatchLimit,   \* how many directories the kernel lets us watch
          MaxChanges,   \* bound: changes of the file system
          MaxOps        \* bound: calls of the client

ASSUME ScannerAssumption ==
    /\ Excluded \subseteq Dirs \ {Root}
    /\ NoPath \notin Dirs
    /\ HasWatcher \in BOOLEAN
    /\ WatchLimit \in Nat \ {0}
    /\ MaxChanges \in Nat
    /\ MaxOps \in Nat

VARIABLES
    \* members of SpaceScanner, besides scanQueue
    scannerStatus, runWorker, scanMtx, currentScannedPath,
    watcherLimitExceeded,
    db,             \* the directories in FileDB
    \* worker_run: where it is, and its local variables
    wpc, scanRequest, unread, scannedEntries, newPaths,
    \* the client: where it is, and what rescanPath was called with
    cpc, folder_path,
    \* the file system, the watches on it, the notifications not yet read
    \* and those in SpaceWatcher::eventQueue
    disk, watched, inotify, eventQueue,
    \* bounded counters
    changes, ops,
    \* history: the directories that must be listed again and will not be, until
    \* something else has them listed; how many directories were stored since
    \* the client's last order to pause or stop
    missed, storesSince

queueVars  == <<scanQueue, currentScannedPath>>
flagVars   == <<scannerStatus, runWorker>>
dbVars     == <<db, watcherLimitExceeded>>
listVars   == <<unread, scannedEntries, newPaths>>
clientVars == <<cpc, folder_path, ops>>
osVars     == <<disk, changes, watched, inotify, eventQueue>>
history    == <<missed, storesSince>>

vars == <<queueVars, flagVars, scanMtx, dbVars, wpc, scanRequest, listVars,
          clientVars, osVars, history>>

Status == {"IDLE", "SCANNING", "STOPPING", "SCAN_PAUSED"}

WorkerPc == {"loop", "lock", "idle", "sleep", "idleEvents", "next", "addDir",
             "open", "read", "store", "paused", "requeue", "events", "break",
             "finish", "report", "done"}

ClientPc == {"ready", "pausing", "resuming", "stopping", "stopWait",
             "rescanning", "destroying", "joining", "gone"}

-----------------------------------------------------------------------------

\* The constructor: the root is in the database, watched and queued, and the
\* worker is about to start. Any directories may exist.
Init ==
    /\ disk \in {S \in SUBSET Dirs : Root \in S /\ \A p \in S \ {Root} : Front(p) \in S}
    /\ scannerStatus = "SCANNING"
    /\ runWorker = TRUE
    /\ scanMtx = "free"
    /\ scanQueue = <<[path |-> Root, recursive |-> TRUE]>>
    /\ currentScannedPath = NoPath
    /\ watcherLimitExceeded = FALSE
    /\ db = {Root}
    /\ wpc = "loop"
    /\ scanRequest = [path |-> Root, recursive |-> TRUE]
    /\ unread = {}
    /\ scannedEntries = {}
    /\ newPaths = << >>
    /\ cpc = "ready"
    /\ folder_path = Root
    /\ watched = IF HasWatcher THEN {Root} ELSE {}
    /\ inotify = << >>
    /\ eventQueue = << >>
    /\ changes = 0
    /\ ops = 0
    /\ missed = {}
    /\ storesSince = 0

-----------------------------------------------------------------------------
(* The worker. It holds scanMtx at "idle", "idleEvents", "next", "events" and *)
(* "finish", and nowhere else.                                                *)

GoTo(from, to) == wpc = from /\ wpc' = to
Lock(thread)   == scanMtx = "free" /\ scanMtx' = thread
Unlock         == scanMtx' = "free"

\* while (runWorker)
Loop ==
    /\ GoTo("loop", IF runWorker THEN "lock" ELSE "done")
    /\ UNCHANGED <<queueVars, flagVars, scanMtx, dbVars, scanRequest, listVars,
                   clientVars, osVars, history>>

\* scanLock.lock(), at the top of the loop and after the sleep in the idle loop
LockQueue ==
    /\ \/ GoTo("lock", "idle")
       \/ GoTo("sleep", "idleEvents")
    /\ Lock("worker")
    /\ UNCHANGED <<queueVars, flagVars, dbVars, scanRequest, listVars,
                   clientVars, osVars, history>>

\* while (scanQueue.empty() && scannerStatus == IDLE)
IdleWait ==
    /\ IF scanQueue = << >> /\ scannerStatus = "IDLE"
         THEN GoTo("idle", "sleep") /\ Unlock
         ELSE GoTo("idle", "next") /\ UNCHANGED scanMtx
    /\ UNCHANGED <<queueVars, flagVars, dbVars, scanRequest, listVars,
                   clientVars, osVars, history>>

\* checkForEvents, one event: its directory is queued, not recursively, and
\* whatever the status was, it is SCANNING.
PopEvent ==
    /\ wpc \in {"idleEvents", "events"}
    /\ eventQueue # << >>
    /\ eventQueue' = Tail(eventQueue)
    /\ scanQueue' = AddToQueue(scanQueue, Head(eventQueue), FALSE, TRUE)
    /\ scannerStatus' = "SCANNING"
    /\ missed' = missed \union (Owed(scanQueue) \ Owed(scanQueue'))
    /\ UNCHANGED <<currentScannedPath, runWorker, scanMtx, dbVars, wpc,
                   scanRequest, listVars, clientVars, disk, changes, watched,
                   inotify, storesSince>>

\* checkForEvents returns
NoMoreEvents ==
    /\ \/ GoTo("idleEvents", "idle")
       \/ GoTo("events", "next")
    /\ eventQueue = << >>
    /\ UNCHANGED <<queueVars, flagVars, scanMtx, dbVars, scanRequest, listVars,
                   clientVars, osVars, history>>

\* Fault: pop_front is forgotten
NextRequestKept ==
    /\ IF scanQueue # << >> /\ scannerStatus # "IDLE"
         THEN /\ GoTo("next", "addDir")
              /\ scanRequest' = Head(scanQueue)
              /\ currentScannedPath' = Head(scanQueue).path
              /\ Unlock
         ELSE /\ GoTo("next", "finish")
              /\ UNCHANGED <<currentScannedPath, scanMtx, scanRequest>>
    /\ UNCHANGED <<scanQueue, flagVars, dbVars, listVars, clientVars, osVars, history>>

\* while (!scanQueue.empty() && scannerStatus != IDLE)
NextRequest ==
    /\ IF scanQueue # << >> /\ scannerStatus # "IDLE"
         THEN /\ GoTo("next", "addDir")
              /\ scanRequest' = Head(scanQueue)
              /\ scanQueue' = Tail(scanQueue)
              /\ currentScannedPath' = Head(scanQueue).path
              /\ Unlock
         ELSE /\ GoTo("next", "finish")
              /\ UNCHANGED <<queueVars, scanMtx, scanRequest>>
    /\ UNCHANGED <<flagVars, dbVars, listVars, clientVars, osVars, history>>

\* watcher->addDir: a directory that is gone is not watched, nor is one more
\* than the limit allows.
AddDir ==
    /\ GoTo("addDir", "open")
    /\ LET path    == scanRequest.path
           canAdd  == HasWatcher /\ path \in disk
           noSpace == path \notin watched /\ Cardinality(watched) >= WatchLimit
       IN  /\ watched' = IF canAdd /\ ~ noSpace THEN watched \union {path} ELSE watched
           /\ watcherLimitExceeded' = (watcherLimitExceeded \/ (canAdd /\ noSpace))
    /\ UNCHANGED <<queueVars, flagVars, scanMtx, db, scanRequest, listVars,
                   clientVars, disk, changes, inotify, eventQueue, history>>

\* scanChildrenAt constructs the iterator: the names in the directory
OpenDir ==
    /\ GoTo("open", "read")
    /\ unread' = ChildrenOf(scanRequest.path) \intersect disk
    /\ scannedEntries' = {}
    /\ missed' = missed \ {scanRequest.path}
    /\ UNCHANGED <<queueVars, flagVars, scanMtx, dbVars, scanRequest, newPaths,
                   clientVars, osVars, storesSince>>

\* scanChildrenAt reads one entry. An entry that was removed since its name was
\* read fails lstat, and the iterator is then no longer valid.
ReadEntry ==
    /\ wpc = "read"
    /\ \E entry \in unread :
         IF entry \in disk
           THEN /\ unread' = unread \ {entry}
                /\ scannedEntries' = scannedEntries \union {entry}
           ELSE /\ unread' = {}
                /\ UNCHANGED scannedEntries
    /\ UNCHANGED <<queueVars, flagVars, scanMtx, dbVars, wpc, scanRequest,
                   newPaths, clientVars, osVars, history>>

\* scanChildrenAt returns, with the directories to scan next if the request is
\* recursive; when the scan is to stop the listing is thrown away.
EndListing ==
    /\ unread = {}
    /\ IF scannerStatus = "STOPPING"
         THEN /\ GoTo("read", "break")
              /\ scannedEntries' = {}
              /\ UNCHANGED newPaths
              /\ missed' = missed \union Owed(<<scanRequest>>)
         ELSE /\ GoTo("read", "store")
              /\ newPaths' \in IF scanRequest.recursive
                                 THEN SetToSeqs(scannedEntries \ Excluded)
                                 ELSE {<< >>}
              /\ UNCHANGED <<scannedEntries, missed>>
    /\ UNCHANGED <<queueVars, flagVars, scanMtx, dbVars, scanRequest, unread,
                   clientVars, osVars, storesSince>>

\* Fault: nothing is deleted
StoredChildrenKept(path, entries) == db \union entries

\* FileDB::setChildrenForPath on the directories: the ones no longer there go
\* with all below them, and the new ones are reported in some order (the
\* entries were sorted by size).
StoredChildren(path, entries) ==
    LET gone == (ChildrenOf(path) \intersect db) \ entries
    IN  (db \ {d \in Dirs : \E g \in gone : IsPrefix(g, d)}) \union entries

\* Fault: a request that is not recursive does not report new directories
SetChildrenSilent ==
    /\ GoTo("store", "paused")
    /\ IF scanRequest.path \in db
         THEN db' = StoredChildren(scanRequest.path, scannedEntries)
         ELSE UNCHANGED db
    /\ scannedEntries' = {}
    /\ storesSince' = IF scannerStatus \in {"SCAN_PAUSED", "STOPPING"}
                        THEN storesSince + 1 ELSE 0
    /\ UNCHANGED <<queueVars, flagVars, scanMtx, watcherLimitExceeded, newPaths,
                   scanRequest, unread, clientVars, osVars, missed>>

SetChildren ==
    /\ GoTo("store", "paused")
    /\ IF scanRequest.path \in db
         THEN /\ db' = StoredChildren(scanRequest.path, scannedEntries)
              /\ newPaths' \in IF scanRequest.recursive
                                 THEN {newPaths} ELSE SetToSeqs(scannedEntries \ db)
         ELSE UNCHANGED <<db, newPaths>>
    /\ scannedEntries' = {}
    /\ storesSince' = IF scannerStatus \in {"SCAN_PAUSED", "STOPPING"}
                        THEN storesSince + 1 ELSE 0
    /\ UNCHANGED <<queueVars, flagVars, scanMtx, watcherLimitExceeded,
                   scanRequest, unread, clientVars, osVars, missed>>

\* Fault: the scan loop does not wait
WaitNever ==
    /\ GoTo("paused", "requeue")
    /\ UNCHANGED <<queueVars, flagVars, scanMtx, dbVars, scanRequest, listVars,
                   clientVars, osVars, history>>

\* while (scannerStatus == SCAN_PAUSED) sleep
WaitWhilePaused ==
    /\ GoTo("paused", IF scannerStatus = "SCAN_PAUSED" THEN "paused" ELSE "requeue")
    /\ UNCHANGED <<queueVars, flagVars, scanMtx, dbVars, scanRequest, listVars,
                   clientVars, osVars, history>>

\* Fault: newPaths is not cleared
RequeueUncleared ==
    /\ GoTo("requeue", "events")
    /\ Lock("worker")
    /\ scanQueue' = IF newPaths = << >> THEN scanQueue
                    ELSE AddChildrenToQueue(scanQueue, newPaths, TRUE, FALSE)
    /\ UNCHANGED <<currentScannedPath, flagVars, dbVars, scanRequest, listVars,
                   clientVars, osVars, history>>

Requeue ==
    /\ GoTo("requeue", "events")
    /\ Lock("worker")
    /\ scanQueue' = IF newPaths = << >> THEN scanQueue
                    ELSE AddChildrenToQueue(scanQueue, newPaths, TRUE, FALSE)
    /\ newPaths' = << >>
    /\ UNCHANGED <<currentScannedPath, flagVars, dbVars, scanRequest, unread,
                   scannedEntries, clientVars, osVars, history>>

\* Fault: the mutex is not taken before the break
BreakUnlocked ==
    /\ GoTo("break", "finish")
    /\ UNCHANGED <<queueVars, flagVars, scanMtx, dbVars, scanRequest, listVars,
                   clientVars, osVars, history>>

\* the break out of the scan loop
BreakLock ==
    /\ GoTo("break", "finish")
    /\ Lock("worker")
    /\ UNCHANGED <<queueVars, flagVars, dbVars, scanRequest, listVars,
                   clientVars, osVars, history>>

\* scanQueue.clear()
Finish ==
    /\ GoTo("finish", "report")
    /\ scanQueue' = << >>
    /\ currentScannedPath' = NoPath
    /\ Unlock
    /\ missed' = missed \union Owed(scanQueue)
    /\ UNCHANGED <<flagVars, dbVars, scanRequest, listVars, clientVars, osVars,
                   storesSince>>

\* Fault: an order that came late is kept
ReportUnlessStopping ==
    /\ GoTo("report", "loop")
    /\ scannerStatus' = IF scannerStatus = "STOPPING" THEN "STOPPING" ELSE "IDLE"
    /\ UNCHANGED <<queueVars, runWorker, scanMtx, dbVars, scanRequest,
                   listVars, clientVars, osVars, history>>

\* scannerStatus = IDLE, after scanMtx was given up
Report ==
    /\ GoTo("report", "loop")
    /\ scannerStatus' = "IDLE"
    /\ UNCHANGED <<queueVars, runWorker, scanMtx, dbVars, scanRequest,
                   listVars, clientVars, osVars, history>>

Worker ==
    \/ Loop \/ LockQueue \/ IdleWait \/ PopEvent \/ NoMoreEvents \/ NextRequest
    \/ AddDir \/ OpenDir \/ ReadEntry \/ EndListing \/ SetChildren
    \/ WaitWhilePaused \/ Requeue \/ BreakLock \/ Finish \/ Report

-----------------------------------------------------------------------------
(* The client, one thread. pauseScan, resumeScan and stopScan read the status *)
(* and then set it: scanMtx is held, but the worker sets IDLE without it.     *)
(* Calls that find nothing to do leave the state as it is and are left out.   *)

clientFrame == <<currentScannedPath, db, wpc, scanRequest, listVars, osVars,
                 missed>>

StartCall(to) == cpc = "ready" /\ ops < MaxOps /\ cpc' = to /\ ops' = ops + 1

\* pauseScan, resumeScan and stopScan find a status they can change
OrderBegin ==
    /\ Lock("client")
    /\ \/ scannerStatus = "SCANNING" /\ StartCall("pausing")
       \/ scannerStatus = "SCAN_PAUSED" /\ StartCall("resuming")
       \/ scannerStatus \in {"SCANNING", "SCAN_PAUSED"} /\ StartCall("stopping")
    /\ UNCHANGED <<scanQueue, flagVars, watcherLimitExceeded, folder_path,
                   storesSince, clientFrame>>

\* stopScan finds the scanner idle, and waits all the same: an event may have
\* started it again by then
StopIdle ==
    /\ scanMtx = "free"
    /\ scannerStatus = "IDLE"
    /\ StartCall("stopWait")
    /\ UNCHANGED <<scanQueue, flagVars, scanMtx, watcherLimitExceeded,
                   folder_path, storesSince, clientFrame>>

Ordered(from, to, status) ==
    /\ cpc = from /\ cpc' = to
    /\ scannerStatus' = status
    /\ storesSince' = 0

PauseSet  == Ordered("pausing", "ready", "SCAN_PAUSED")
ResumeSet == Ordered("resuming", "ready", "SCANNING")
StopSet   == Ordered("stopping", "stopWait", "STOPPING")

OrderSet ==
    /\ PauseSet \/ ResumeSet \/ StopSet
    /\ Unlock
    /\ UNCHANGED <<scanQueue, runWorker, watcherLimitExceeded, folder_path,
                   ops, clientFrame>>

\* stopScan's wait
StopReturn ==
    /\ cpc = "stopWait" /\ cpc' = "ready"
    /\ scannerStatus = "IDLE"
    /\ UNCHANGED <<scanQueue, flagVars, scanMtx, watcherLimitExceeded,
                   folder_path, ops, storesSince, clientFrame>>

\* rescanPath of a directory the database has
RescanBegin ==
    /\ Lock("client")
    /\ StartCall("rescanning")
    /\ folder_path' \in db
    /\ scannerStatus' = "SCANNING"
    /\ UNCHANGED <<scanQueue, runWorker, watcherLimitExceeded, storesSince,
                   clientFrame>>

\* Fault: only the directory itself is rescanned
RescanPushFlat ==
    /\ cpc = "rescanning" /\ cpc' = "ready"
    /\ scanQueue' = AddToQueue(scanQueue, folder_path, FALSE, FALSE)
    /\ folder_path' = Root
    /\ Unlock
    /\ UNCHANGED <<flagVars, watcherLimitExceeded, ops, storesSince,
                   clientFrame>>

RescanPush ==
    /\ cpc = "rescanning" /\ cpc' = "ready"
    /\ scanQueue' = AddToQueue(scanQueue, folder_path, TRUE, FALSE)
    /\ folder_path' = Root
    /\ Unlock
    /\ UNCHANGED <<flagVars, watcherLimitExceeded, ops, storesSince,
                   clientFrame>>

\* getWatcherLimits says once that the limit was exceeded
GetWatcherLimits ==
    /\ StartCall("ready")
    /\ watcherLimitExceeded
    /\ watcherLimitExceeded' = FALSE
    /\ UNCHANGED <<scanQueue, flagVars, scanMtx, folder_path, storesSince,
                   clientFrame>>

\* Fault: the worker is not told to end
DestroyBeginRunning ==
    /\ StartCall("destroying")
    /\ UNCHANGED <<scanQueue, flagVars, scanMtx, watcherLimitExceeded,
                   folder_path, storesSince, clientFrame>>

\* ~SpaceScanner, which takes no lock
DestroyBegin ==
    /\ StartCall("destroying")
    /\ runWorker' = FALSE
    /\ UNCHANGED <<scanQueue, scannerStatus, scanMtx, watcherLimitExceeded,
                   folder_path, storesSince, clientFrame>>

DestroySet ==
    /\ Ordered("destroying", "joining", "STOPPING")
    /\ UNCHANGED <<scanQueue, runWorker, scanMtx, watcherLimitExceeded,
                   folder_path, ops, clientFrame>>

Join ==
    /\ cpc = "joining" /\ cpc' = "gone"
    /\ wpc = "done"
    /\ UNCHANGED <<scanQueue, flagVars, scanMtx, watcherLimitExceeded,
                   folder_path, ops, storesSince, clientFrame>>

\* The steps that end a call once it was made
ClientGoesOn == OrderSet \/ StopReturn \/ RescanPush \/ DestroySet \/ Join

Client ==
    \/ OrderBegin \/ StopIdle \/ RescanBegin \/ GetWatcherLimits \/ DestroyBegin
    \/ ClientGoesOn

-----------------------------------------------------------------------------
(* The file system, and the watcher thread *)

\* A change of the entries of dir is noted by the kernel if dir is watched
Changed(dir) ==
    /\ changes' = changes + 1
    /\ IF dir \in watched
         THEN inotify' = Append(inotify, dir) /\ UNCHANGED missed
         ELSE missed' = missed \union {dir} /\ UNCHANGED inotify

\* A directory is made
Mkdir ==
    /\ changes < MaxChanges
    /\ \E p \in Dirs \ disk :
         /\ Front(p) \in disk
         /\ disk' = disk \union {p}
         /\ Changed(Front(p))
    /\ UNCHANGED <<queueVars, flagVars, scanMtx, dbVars, wpc, scanRequest,
                   listVars, clientVars, watched, eventQueue, storesSince>>

\* An empty directory is removed, and the watch on it with it
Rmdir ==
    /\ changes < MaxChanges
    /\ \E p \in disk \ {Root} :
         /\ ChildrenOf(p) \intersect disk = {}
         /\ disk' = disk \ {p}
         /\ watched' = watched \ {p}
         /\ Changed(Front(p))
    /\ UNCHANGED <<queueVars, flagVars, scanMtx, dbVars, wpc, scanRequest,
                   listVars, clientVars, eventQueue, storesSince>>

\* The watcher thread reads a notification (readEvents, addEvent)
ReadEvents ==
    /\ inotify # << >>
    /\ inotify' = Tail(inotify)
    /\ eventQueue' = Append(eventQueue, Head(inotify))
    /\ UNCHANGED <<queueVars, flagVars, scanMtx, dbVars, wpc, scanRequest,
                   listVars, clientVars, disk, changes, watched, history>>

\* The scanner is gone
Terminated ==
    /\ wpc = "done" /\ cpc = "gone"
    /\ UNCHANGED vars

-----------------------------------------------------------------------------

Next == Worker \/ Client \/ Mkdir \/ Rmdir \/ ReadEvents \/ Terminated

Spec == Init /\ [][Next]_vars

\* The threads run, and a call the client has begun goes on; no call is ever
\* owed, and neither is a change of the file system.
FairSpec == /\ Spec
            /\ WF_vars(Worker)
            /\ WF_vars(ReadEvents)
            /\ WF_vars(ClientGoesOn)

-----------------------------------------------------------------------------
(* Properties *)

TypeOK ==
    /\ scannerStatus \in Status
    /\ runWorker \in BOOLEAN
    /\ scanMtx \in {"free", "worker", "client"}
    /\ scanQueue \in Seq(Request)
    /\ currentScannedPath \in Dirs \union {NoPath}
    /\ watcherLimitExceeded \in BOOLEAN
    /\ db \subseteq Dirs
    /\ wpc \in WorkerPc
    /\ scanRequest \in Request
    /\ unread \subseteq ChildrenOf(scanRequest.path)
    /\ scannedEntries \subseteq ChildrenOf(scanRequest.path)
    /\ newPaths \in Seq(ChildrenOf(scanRequest.path))
    /\ cpc \in ClientPc
    /\ folder_path \in Dirs
    /\ disk \subseteq Dirs
    /\ watched \subseteq Dirs
    /\ inotify \in Seq(Dirs)
    /\ eventQueue \in Seq(Dirs)
    /\ changes \in Nat
    /\ ops \in Nat
    /\ missed \subseteq Dirs
    /\ storesSince \in Nat

\* The critical sections of worker_run and of the client's calls exclude each
\* other on every path through the worker's loop, the break included, where the
\* mutex is taken and given up in four places by hand.
MutexHeld ==
    /\ scanMtx = "worker" <=> wpc \in {"idle", "idleEvents", "next", "events", "finish"}
    /\ scanMtx = "client" <=> cpc \in {"pausing", "resuming", "stopping", "rescanning"}

\* No directory is queued twice, whoever queues it: the worker what it found and
\* was notified of, the client what is to be rescanned.
QueueUnique == UniquePaths(scanQueue)

\* Once the client has ordered the scan to pause or to stop, the worker stores
\* at most one more directory for as long as the order stands, wherever in its
\* loop the order meets it.
OrderHonoured == scannerStatus \in {"SCAN_PAUSED", "STOPPING"} => storesSince <= 1

IsExcluded(d) == \E e \in Excluded : IsPrefix(e, d)

\* What keeps a directory d from being forgotten: it is queued, or notified, or
\* the request in hand is still going to list it, or to queue it, or to take it
\* out of the database; or it is one of those missed.
Pending(d) ==
    LET path == scanRequest.path
    IN  \/ d \in Owed(scanQueue) \union missed
        \/ d \in ToSet(inotify) \union ToSet(eventQueue)
        \/ wpc \in {"addDir", "open"} /\ d \in Owed(<<scanRequest>>)
        \/ wpc = "read" /\ scanRequest.recursive /\ IsStrictPrefix(path, d)
        \/ /\ wpc = "store"
           /\ \E c \in ChildrenOf(path) \ scannedEntries : IsPrefix(c, d)
        \/ \E i \in DOMAIN newPaths : IsPrefix(newPaths[i], d)

\* The children of d that the database has or is about to be given
KnownChildren(d) ==
    IF wpc \in {"read", "store"} /\ d = scanRequest.path
      THEN scannedEntries \union unread
      ELSE ChildrenOf(d) \intersect db

\* At every step, in whatever order the changes, listings, notifications and
\* calls come, a directory whose children in the database are not those on disk
\* (of which one that was removed has none) is going to be looked at again.
Coverage ==
    \A d \in db :
        \/ IsExcluded(d)
        \/ KnownChildren(d) = ChildrenOf(d) \intersect disk
        \/ Pending(d)

Settled == /\ wpc = "sleep"
           /\ scanQueue = << >> /\ scannerStatus = "IDLE"
           /\ inotify = << >> /\ eventQueue = << >>

\* When the scanner has come to rest the database shows what is on disk, in
\* whatever order the changes, listings, notifications and calls came: every
\* directory it has, and is not excluded from scanning, has in it the children
\* it has on disk, unless it is one of those missed.
SettledMatchesDisk ==
    Settled =>
        \A d \in db \ missed :
            \/ IsExcluded(d)
            \/ ChildrenOf(d) \intersect db = ChildrenOf(d) \intersect disk

\* What queueing found directories or a rescan replaces in the queue, it makes up
\* for: every listing that was owed before is owed after, and so is now that of each
\* directory found or asked for and of all below it, even where a request that is in
\* the queue is taken to cover them and none is added.
NothingOwedLost ==
    [][Requeue \/ RescanPush =>
          LET asked == IF Requeue THEN ToSet(newPaths) ELSE {folder_path}
          IN  /\ Owed(scanQueue) \subseteq Owed(scanQueue')
              /\ \A d \in Dirs :
                   (\E p \in asked : IsPrefix(p, d)) => d \in Owed(scanQueue')]_vars

\* stopScan and the destructor return, the events that overwrite STOPPING and
\* the calls that race with the end of the scan notwithstanding.
StopReturns == cpc = "stopWait" ~> cpc = "ready"
DestroyReturns == cpc = "joining" ~> cpc = "gone"

\* Whatever happens, the scanner comes to rest: asleep, paused or finished.
ComesToRest ==
    <>[](\/ wpc \in {"idle", "sleep", "idleEvents"}
         \/ wpc = "paused" /\ scannerStatus = "SCAN_PAUSED"
         \/ wpc = "done")
=============================================================================
