----------------------------- MODULE SpaceWatcher -----------------------------
(* SpaceWatcher and LinuxSpaceWatcher (lib/src/spacewatcher.cpp,              *)
(* lib/private/LinuxSpaceWatcher.cpp): the map from inotify's watch           *)
(* descriptors to paths and the queue of notifications, which the watcher     *)
(* thread and the scanner's threads share, and the life of the object while   *)
(* that thread runs. The file system and inotify are the environment.         *)
(*                                                                            *)
(* A path is a sequence of names; the code's strings end in a slash, so that  *)
(* path + name names the entry and what is left of the last slash its parent. *)
(* Definitions marked "Fault:" are variants of the one below them.            *)
EXTENDS Integers, FiniteSets, SequencesExt

CONSTANTS Dir,          \* the directories (inodes) there may be
          Root,         \* the one that is at the path given to create()
          Path,         \* the paths there may be
          Nowhere,      \* where a directory is that does not exist
          MaxWatches,   \* /proc/sys/fs/inotify/max_user_watches
          MaxQueued,    \* .../max_queued_events
          MaxChanges    \* bound: changes of the file system

ASSUME WatcherAssumption ==
    /\ Root \in Dir
    /\ Path \subseteq Seq(UNION {Range(p) : p \in Path})
    /\ << >> \in Path /\ Nowhere \notin Path
    /\ MaxWatches \in Nat /\ MaxQueued \in Nat \ {0} /\ MaxChanges \in Nat

VARIABLES
    \* the file system, the watch descriptor of each directory (0: none), the
    \* last one given out, and the events not yet read
    place, watch, lastWd, kernelQueue,
    \* LinuxSpaceWatcher and SpaceWatcher: members
    inotifyWds, watchedDirCount, eventQueue, runThread,
    phase,      \* how far construction and destruction have come
    \* addDir under way: the path and what inotify_add_watch returned
    adding,
    \* the watcher thread: where it is, and watchBuffer
    rpc, watchBuffer,
    changes,
    \* history: directories that moved since they were last given to inotify;
    \* descriptors whose IN_IGNORED was processed before addDir made the entry,
    \* or was lost
    moved, orphans

osVars     == <<place, watch, lastWd, kernelQueue, changes, moved>>
mapVars    == <<inotifyWds, watchedDirCount>>
readerVars == <<rpc, watchBuffer>>

vars == <<osVars, mapVars, eventQueue, runThread, phase, adding, readerVars, orphans>>

NotAdding == [wd |-> 0, path |-> Nowhere]

Init ==
    /\ place \in [Dir -> {Nowhere, << >>}]
    /\ \A d \in Dir \ {Root} : place[d] = Nowhere
    /\ watch = [d \in Dir |-> 0]
    /\ lastWd = 0
    /\ kernelQueue = << >>
    /\ inotifyWds = << >>
    /\ watchedDirCount = 0
    /\ eventQueue = << >>
    /\ runThread = TRUE
    /\ phase = "base"
    /\ adding = NotAdding
    /\ rpc = "check"
    /\ watchBuffer = << >>
    /\ changes = 0
    /\ moved = {}
    /\ orphans = {}

-----------------------------------------------------------------------------
(* The file system and inotify.                                               *)

Exists(d) == place[d] # Nowhere
DirAt(p)  == {d \in Dir : place[d] = p}
Parent(p) == DirAt(Front(p))
WatchCount == Cardinality({d \in Dir : watch[d] # 0})
Live(wd)   == \E d \in Dir : watch[d] = wd

Overflow == [wd |-> -1, mask |-> "IN_Q_OVERFLOW", name |-> << >>, at |-> changes]

\* An event for the watch on directory d, if there is one.
Emit(queue, d, mask, name) ==
    IF watch[d] = 0 THEN queue
    ELSE IF Len(queue) < MaxQueued
      THEN Append(queue, [wd |-> watch[d], mask |-> mask, name |-> name, at |-> changes])
    ELSE IF Last(queue).mask = "IN_Q_OVERFLOW" THEN queue
    ELSE Append(queue, Overflow)

Change == changes < MaxChanges /\ changes' = changes + 1

OsOnly == UNCHANGED <<mapVars, eventQueue, runThread, phase, adding, readerVars>>

Mkdir(d, p) ==
    /\ Change
    /\ ~ Exists(d) /\ DirAt(p) = {} /\ p # << >>
    /\ \E up \in Parent(p) : kernelQueue' = Emit(kernelQueue, up, "IN_CREATE", <<Last(p)>>)
    /\ place' = [place EXCEPT ![d] = p]
    /\ moved' = moved \ {d}
    /\ OsOnly /\ UNCHANGED <<watch, lastWd, orphans>>

Rmdir(d) ==
    /\ Change
    /\ Exists(d) /\ d # Root
    /\ \A e \in Dir : Exists(e) /\ place[e] # << >> => Front(place[e]) # place[d]
    /\ \E up \in Parent(place[d]) :
         LET removed == Emit(kernelQueue, up, "IN_DELETE", <<Last(place[d])>>)
             ignored == Emit(removed, d, "IN_IGNORED", << >>)
         IN /\ kernelQueue' = ignored
            /\ orphans' = IF watch[d] # 0 /\ Last(ignored).mask = "IN_Q_OVERFLOW"
                            THEN orphans \union {watch[d]} ELSE orphans
    /\ place' = [place EXCEPT ![d] = Nowhere]
    /\ watch' = [watch EXCEPT ![d] = 0]
    /\ OsOnly /\ UNCHANGED <<lastWd, moved>>

\* A directory takes those below it along, and all of them their watches.
Rename(d, p) ==
    LET old == place[d]
        Below == {e \in Dir : Exists(e) /\ IsPrefix(old, place[e])}
        To(e) == p \o SubSeq(place[e], Len(old) + 1, Len(place[e]))
    IN /\ Change
       /\ Exists(d) /\ d # Root
       /\ p # << >> /\ DirAt(p) = {} /\ ~ IsPrefix(old, p)
       /\ \A e \in Below : To(e) \in Path
       /\ \E from \in Parent(old), to \in Parent(p) :
            kernelQueue' = Emit(Emit(kernelQueue, from, "IN_MOVED_FROM", <<Last(old)>>),
                                to, "IN_MOVED_TO", <<Last(p)>>)
       /\ place' = [e \in Dir |-> IF e \in Below THEN To(e) ELSE place[e]]
       /\ moved' = moved \union Below
       /\ OsOnly /\ UNCHANGED <<watch, lastWd, orphans>>

\* A file in directory d is written to.
Write(d) ==
    /\ Change
    /\ Exists(d)
    /\ kernelQueue' = Emit(kernelQueue, d, "IN_MODIFY", <<"file">>)
    /\ OsOnly /\ UNCHANGED <<place, watch, lastWd, moved, orphans>>

Environment ==
    \/ \E d \in Dir : Rmdir(d) \/ Write(d)
    \/ \E d \in Dir, p \in Path : Mkdir(d, p) \/ Rename(d, p)

-----------------------------------------------------------------------------
(* Calls of the owner: create, addDir, popEvent, the destructor.              *)

\* inotify_add_watch: the directory's descriptor if it has one. Without one
\* addDir returns DIR_LIMIT_REACHED or ACCESS_DENIED, and failed is next.
AddWatch(p, failed) ==
    IF \E d \in DirAt(p) : watch[d] # 0 \/ WatchCount < MaxWatches
    THEN \E d \in DirAt(p) :
           LET wd == IF watch[d] # 0 THEN watch[d] ELSE lastWd + 1
           IN /\ watch' = [watch EXCEPT ![d] = wd]
              /\ lastWd' = IF watch[d] # 0 THEN lastWd ELSE wd
              /\ adding' = [wd |-> wd, path |-> p]
              /\ moved' = moved \ {d}
              /\ UNCHANGED phase
    ELSE /\ phase' = failed
         /\ UNCHANGED <<watch, lastWd, adding, moved>>

\* LinuxSpaceWatcher(), the derived class and its readEvents()
Construct ==
    /\ phase = "base" /\ phase' = "derived"
    /\ UNCHANGED <<osVars, mapVars, eventQueue, runThread, adding, readerVars, orphans>>

\* inotify_init1: without a descriptor create() deletes the object and throws
InitInotify ==
    /\ phase = "derived"
    /\ phase' \in {"opened", "cleared"}
    /\ UNCHANGED <<osVars, mapVars, eventQueue, runThread, adding, readerVars, orphans>>

\* beginWatch: the path itself; if that fails create() deletes and throws
BeginWatch ==
    /\ phase = "opened" /\ adding = NotAdding
    /\ AddWatch(<< >>, "deleted")
    /\ UNCHANGED <<place, kernelQueue, changes, mapVars, eventQueue, runThread,
                   readerVars, orphans>>

AddDirBegin(p) ==
    /\ phase = "watching" /\ adding = NotAdding
    /\ AddWatch(p, "watching")
    /\ UNCHANGED <<place, kernelQueue, changes, mapVars, eventQueue, runThread,
                   readerVars, orphans>>

\* Fault: the path of a descriptor that is known stays what it was
StoreOnce(wd, p) ==
    IF wd \in DOMAIN inotifyWds THEN UNCHANGED mapVars
    ELSE /\ inotifyWds' = [w \in DOMAIN inotifyWds \union {wd} |->
                              IF w = wd THEN p ELSE inotifyWds[w]]
         /\ watchedDirCount' = watchedDirCount + 1

\* Fault: a path that has an entry gets no other
StoreByPath(wd, p) ==
    IF \E w \in DOMAIN inotifyWds : inotifyWds[w] = p THEN UNCHANGED mapVars
    ELSE /\ inotifyWds' = [w \in DOMAIN inotifyWds \union {wd} |->
                              IF w = wd THEN p ELSE inotifyWds[w]]
         /\ watchedDirCount' = watchedDirCount + 1

\* the entry for wd, under inotifyWdsMtx
Store(wd, p) ==
    /\ inotifyWds' = [w \in DOMAIN inotifyWds \union {wd} |->
                         IF w = wd THEN p ELSE inotifyWds[w]]
    /\ watchedDirCount' = IF wd \in DOMAIN inotifyWds THEN watchedDirCount
                                                      ELSE watchedDirCount + 1

AddDirEnd ==
    /\ adding # NotAdding
    /\ Store(adding.wd, adding.path)
    /\ adding' = NotAdding
    /\ phase' = "watching"
    /\ UNCHANGED <<osVars, eventQueue, runThread, readerVars, orphans>>

PopEvent ==
    /\ phase = "watching"
    /\ eventQueue # << >>
    /\ eventQueue' = Tail(eventQueue)
    /\ UNCHANGED <<osVars, mapVars, runThread, phase, adding, readerVars, orphans>>

\* ~LinuxSpaceWatcher: close(inotifyFd), which ends all watches
Close ==
    /\ phase = "deleted" \/ (phase = "watching" /\ adding = NotAdding)
    /\ phase' = "closed"
    /\ watch' = [d \in Dir |-> 0]
    /\ kernelQueue' = << >>
    /\ UNCHANGED <<place, lastWd, changes, moved, mapVars, eventQueue, runThread,
                   adding, readerVars, orphans>>

Clear ==
    /\ phase = "closed" /\ phase' = "cleared"
    /\ inotifyWds' = << >>
    /\ UNCHANGED <<osVars, watchedDirCount, eventQueue, runThread, adding,
                   readerVars, orphans>>

\* The members of the derived class are destroyed, then ~SpaceWatcher begins.
Destroyed ==
    /\ phase = "cleared" /\ phase' = "half"
    /\ UNCHANGED <<osVars, mapVars, eventQueue, runThread, adding, readerVars, orphans>>

\* ~SpaceWatcher: runThread = false and join
StopThread ==
    /\ phase = "half" /\ phase' = "joining"
    /\ runThread' = FALSE
    /\ UNCHANGED <<osVars, mapVars, eventQueue, adding, readerVars, orphans>>

Join ==
    /\ phase = "joining" /\ rpc = "ended"
    /\ phase' = "gone"
    /\ UNCHANGED <<osVars, mapVars, eventQueue, runThread, adding, readerVars, orphans>>

Owner ==
    \/ Construct \/ InitInotify \/ BeginWatch \/ AddDirEnd \/ PopEvent
    \/ Close \/ Clear \/ Destroyed \/ StopThread \/ Join
    \/ \E p \in Path : AddDirBegin(p)

-----------------------------------------------------------------------------
(* The watcher thread.                                                        *)

\* while (runThread)
WatcherRun ==
    /\ phase # "undefined"
    /\ rpc = "check"
    /\ rpc' = IF runThread THEN "read" ELSE "ended"
    /\ UNCHANGED <<osVars, mapVars, eventQueue, runThread, phase, adding,
                   watchBuffer, orphans>>

\* readEvents is pure virtual, and watchBuffer and inotifyWds do not exist, as
\* long as, or as soon as, the object is a SpaceWatcher only.
OnlyBase == phase \in {"base", "half", "joining"}

Undefined ==
    /\ OnlyBase /\ rpc \in {"read", "process"}
    /\ phase' = "undefined"
    /\ UNCHANGED <<osVars, mapVars, eventQueue, runThread, adding, readerVars, orphans>>

\* read(): what there is, as far as the buffer holds it; nothing from a
\* descriptor that is -1 or closed (kernelQueue is empty then).
ReadEvents ==
    /\ rpc = "read" /\ ~ OnlyBase /\ phase # "undefined"
    /\ IF kernelQueue = << >>
         THEN rpc' = "check" /\ UNCHANGED <<watchBuffer, kernelQueue>>
         ELSE \E n \in 1..Len(kernelQueue) :
                /\ watchBuffer' = SubSeq(kernelQueue, 1, n)
                /\ kernelQueue' = SubSeq(kernelQueue, n + 1, Len(kernelQueue))
                /\ rpc' = "process"
    /\ UNCHANGED <<place, watch, lastWd, changes, moved, mapVars, eventQueue,
                   runThread, phase, adding, orphans>>

Action(mask) == CASE mask = "IN_CREATE"     -> "ADDED"
                  [] mask = "IN_DELETE"     -> "REMOVED"
                  [] mask = "IN_MODIFY"     -> "MODIFIED"
                  [] mask = "IN_MOVED_FROM" -> "OLD_NAME"
                  [] mask = "IN_MOVED_TO"   -> "NEW_NAME"

\* Fault: the count is left to those who call rmDir
ForgetUncounted(wd) ==
    /\ inotifyWds' = [w \in DOMAIN inotifyWds \ {wd} |-> inotifyWds[w]]
    /\ UNCHANGED watchedDirCount

\* IN_IGNORED: the watch is no more; rmDir never counts below zero
Forget(wd) ==
    /\ inotifyWds' = [w \in DOMAIN inotifyWds \ {wd} |-> inotifyWds[w]]
    /\ watchedDirCount' = IF watchedDirCount > 0 THEN watchedDirCount - 1
                                                 ELSE watchedDirCount

\* Fault: the latest event first
AddEventFirst(event) == eventQueue' = <<event>> \o eventQueue

AddEvent(event) == eventQueue' = Append(eventQueue, event)

\* one event of the buffer; without a name (an overflow) or a path it is dropped
ProcessInotifyEvent ==
    LET event == Head(watchBuffer)
        known == event.wd \in DOMAIN inotifyWds
    IN /\ rpc = "process" /\ ~ OnlyBase /\ phase # "undefined"
       /\ \/ /\ event.mask = "IN_IGNORED"
             /\ IF known THEN Forget(event.wd) ELSE UNCHANGED mapVars
             /\ orphans' = IF event.wd = adding.wd THEN orphans \union {event.wd}
                                                   ELSE orphans
             /\ UNCHANGED eventQueue
          \/ /\ event.mask # "IN_IGNORED"
             /\ IF known /\ event.name # << >>
                  THEN AddEvent([action     |-> Action(event.mask),
                                 filepath   |-> inotifyWds[event.wd] \o event.name,
                                 parentpath |-> inotifyWds[event.wd],
                                 at         |-> event.at])
                  ELSE UNCHANGED eventQueue
             /\ UNCHANGED <<mapVars, orphans>>
       /\ watchBuffer' = Tail(watchBuffer)
       /\ rpc' = IF Len(watchBuffer) = 1 THEN "read" ELSE "process"
       /\ UNCHANGED <<osVars, runThread, phase, adding>>

Watcher == WatcherRun \/ Undefined \/ ReadEvents \/ ProcessInotifyEvent

-----------------------------------------------------------------------------

Done == phase \in {"gone", "undefined"} /\ UNCHANGED vars

Next == Environment \/ Owner \/ Watcher \/ Done

Spec == Init /\ [][Next]_vars

-----------------------------------------------------------------------------
(* Properties.                                                                *)

IsOpen == phase \in {"opened", "watching"}

\* The number of watched directories that the scanner compares with the limit is
\* that of the entries, whatever is added again, removed and counted by whom.
CountMatches == IsOpen => watchedDirCount = Cardinality(DOMAIN inotifyWds)

IgnoredPending(wd) ==
    \E e \in Range(watchBuffer \o kernelQueue) : e.mask = "IN_IGNORED" /\ e.wd = wd

\* The entries are those of the directories inotify watches: one is missing only
\* while addDir is between inotify_add_watch and the map, and one is too many
\* only until its IN_IGNORED is processed, unless that came before the entry or
\* was lost when inotify's queue was full.
MapMatchesWatches ==
    IsOpen =>
        /\ \A d \in Dir : watch[d] # 0 =>
               watch[d] \in DOMAIN inotifyWds \/ watch[d] = adding.wd
        /\ \A wd \in DOMAIN inotifyWds :
               Live(wd) \/ IgnoredPending(wd) \/ wd \in orphans

\* Notifications name the place where the directory is: its path is up to date
\* unless it was moved and has not been given to addDir since.
PathsCurrent ==
    IsOpen =>
        \A d \in Dir \ moved :
            watch[d] \in DOMAIN inotifyWds /\ watch[d] # adding.wd
                => inotifyWds[watch[d]] = place[d]

\* A notification that finds no path and is dropped ("should not happen") is
\* always for the directory being added, which the scanner lists afterwards:
\* what is dropped is in the listing.
DroppedOnlyWhileAdding ==
    rpc = "process" /\ IsOpen =>
        LET event == Head(watchBuffer)
        IN \/ event.mask \in {"IN_IGNORED", "IN_Q_OVERFLOW"}
           \/ event.wd \in DOMAIN inotifyWds
           \/ event.wd = adding.wd

\* Notifications arrive in the order in which the changes were made: a rename's
\* two, or the deletion of a directory after that of what was in it.
InOrder ==
    LET pending == eventQueue \o watchBuffer \o kernelQueue
    IN IsOpen => \A i, j \in DOMAIN pending : i < j => pending[i].at <= pending[j].at

\* spacewatcher.cpp, SpaceWatcher(): "Start thread after everything is
\* initialized": the thread never meets an object that is not yet, or no longer,
\* a LinuxSpaceWatcher.
ThreadMeetsWholeObject == phase # "undefined"
=============================================================================
