------------------------------ MODULE SpaceView ------------------------------
(* SpaceView with FileViewDB (app-gui/src/spaceview.cpp, fileviewdb.cpp): the *)
(* directory that is viewed and the history of those that were, what is on    *)
(* screen, which is a copy of part of the scanner's database, and what is     *)
(* under the mouse. MainWindow.tla makes actions of these handlers.           *)
(*                                                                            *)
(* The scanner runs in another thread and is the environment here: what it    *)
(* puts in the database, its status and its flags, as SpaceScanner and FileDB *)
(* have them. A handler reads it once, where it calls FileDB::processEntry.   *)
(* Definitions marked "Fault:" are variants of the one below them.            *)
EXTENDS Integers, SequencesExt

CONSTANTS Path,         \* the paths there may be below the root scanned, << >>
          None,         \* nullptr
          MIN_DEPTH, MAX_DEPTH, StartDepth,
          MaxHistory    \* bound: paths in the history

ASSUME ViewAssumption ==
    /\ Path \subseteq Seq(UNION {Range(p) : p \in Path})
    /\ << >> \in Path /\ None \notin Path
    /\ \A p \in Path \ {<< >>} : Front(p) \in Path
    /\ StartDepth \in MIN_DEPTH..MAX_DEPTH

VARIABLES
    \* the scanner: whether there is one, its database, FileDB::bHasChanges, its
    \* status and watcherLimitExceeded
    scanner, db, hasChanges, status, limitFlag,
    \* members of SpaceView
    currentPath, pathHistory, pathHistoryPointer, currentDepth, hoveredPath,
    showSpace,          \* which of "free" and "unknown" are to be shown
    \* FileViewDB::rootFile: what is on screen
    rootFile,
    \* MainWindow::watchLimitExceeded, which the callback sets
    watchLimitExceeded

scannerVars == <<scanner, db, status>>
historyVars == <<pathHistory, pathHistoryPointer>>
screenVars  == <<hasChanges, rootFile, hoveredPath>>
limitVars   == <<limitFlag, watchLimitExceeded>>

Root == << >>

ViewInit ==
    /\ scanner = FALSE /\ db = {} /\ hasChanges = FALSE
    /\ status = "IDLE" /\ limitFlag = FALSE
    /\ currentPath = None
    /\ pathHistory = << >> /\ pathHistoryPointer = 0
    /\ currentDepth = StartDepth
    /\ hoveredPath = None
    /\ showSpace = {"unknown"}
    /\ rootFile = None
    /\ watchLimitExceeded = FALSE

-----------------------------------------------------------------------------
(* The scanner's thread. What its worker is at when it is told to pause it still *)
(* stores.                                                                    *)

Below(p) == {q \in db : IsPrefix(p, q)}

Found(p) ==
    /\ scanner /\ status # "IDLE"
    /\ p \notin db /\ Front(p) \in db
    /\ db' = db \union {p} /\ hasChanges' = TRUE
    /\ UNCHANGED <<scanner, status, limitFlag>>

Lost(p) ==
    /\ scanner /\ status # "IDLE"
    /\ p \in db \ {Root}
    /\ db' = db \ Below(p) /\ hasChanges' = TRUE
    /\ UNCHANGED <<scanner, status, limitFlag>>

\* the scan ends, or a notification starts it again
StatusChanges ==
    /\ scanner
    /\ \/ status = "SCANNING" /\ status' = "IDLE"
       \/ status \in {"IDLE", "SCAN_PAUSED"} /\ status' = "SCANNING"
    /\ UNCHANGED <<scanner, db, hasChanges, limitFlag>>

\* a directory cannot be watched
HitLimit ==
    /\ scanner /\ status # "IDLE"
    /\ limitFlag' = TRUE
    /\ UNCHANGED <<scanner, db, hasChanges, status>>

-----------------------------------------------------------------------------
(* What is on screen.                                                         *)

\* The part of the database that is shown for path p; free and unknown space are
\* shown at the root only.
View(p, entries, depth, space) ==
    [path    |-> p,
     entries |-> {q \in entries : IsPrefix(p, q) /\ Len(q) - Len(p) <= depth},
     space   |-> IF p = Root THEN space ELSE {}]

\* What is on screen has something in it.
ShowsChildren(view) ==
    view # None /\ (view.entries # {view.path} \/ view.space # {})

\* updateHoveredView, wherever the mouse is: over an entry below the one shown, or
\* none of them. Its path is that of the directory viewed and the names from the
\* one shown down to it. (Where the path viewed is a file's and a directory is still
\* on screen, getPath throws instead; that is left out. What follows a null
\* currentPath is Crash in MainWindow.tla.)
UpdateHoveredView ==
    \/ hoveredPath' = None
    \/ /\ rootFile' # None /\ currentPath' # None
       /\ \E q \in rootFile'.entries \ {rootFile'.path} :
            hoveredPath' = currentPath' \o SubSeq(q, Len(rootFile'.path) + 1, Len(q))

\* FileViewDB::update: what was shown stays, and the flag, if the path is not in
\* the database; shown and changes are what they were before.
Update(shown, changes) ==
    IF currentPath' \in db'
    THEN /\ rootFile' = View(currentPath', db', currentDepth', showSpace')
         /\ hasChanges' = FALSE
    ELSE rootFile' = shown /\ hasChanges' = changes

\* Fault: only when the scanner has something new
AllocateIfChanged(shown, changes) ==
    IF changes /\ scanner' /\ currentPath' # None
    THEN Update(shown, changes) /\ UpdateHoveredView
    ELSE rootFile' = shown /\ hasChanges' = changes /\ UNCHANGED hoveredPath

AllocateEntries(shown, changes) ==
    IF scanner' /\ currentPath' # None
    THEN Update(shown, changes) /\ UpdateHoveredView
    ELSE rootFile' = shown /\ hasChanges' = changes /\ UNCHANGED hoveredPath

\* Fault: the scanner's flag is taken and the callback not called
TakeLimitSilently(flag) ==
    /\ limitFlag' = FALSE
    /\ UNCHANGED watchLimitExceeded

\* getWatcherLimits, whose answer is TRUE once, and onWatchLimitCallback
TakeLimit(flag) ==
    /\ limitFlag' = FALSE
    /\ watchLimitExceeded' = (watchLimitExceeded \/ flag)

OnScanUpdate == AllocateEntries(rootFile, hasChanges) /\ TakeLimit(limitFlag)

-----------------------------------------------------------------------------
(* Navigation.                                                                *)

IsAtRoot == ~ scanner \/ currentPath = Root

CanNavigateBack    == pathHistory # << >> /\ pathHistoryPointer > 0
CanNavigateForward == pathHistoryPointer + 1 < Len(pathHistory)

CanIncreaseDetail  == scanner /\ currentDepth < MAX_DEPTH
CanDecreaseDetail  == scanner /\ currentDepth > MIN_DEPTH
CanTogglePause     == scanner /\ status \in {"SCANNING", "SCAN_PAUSED"}
IsPaused           == scanner => status = "SCAN_PAUSED"

\* Fault: what was ahead in the history stays there
HistoryAppend(p) ==
    /\ Len(pathHistory) < MaxHistory
    /\ pathHistory' = Append(pathHistory, p)
    /\ pathHistoryPointer' = pathHistoryPointer + 1

\* the paths ahead are dropped, and p is the last
HistoryPush(p) ==
    /\ pathHistoryPointer + 1 < MaxHistory
    /\ pathHistory' = IF pathHistory = << >> THEN <<p>>
                      ELSE Append(SubSeq(pathHistory, 1, pathHistoryPointer + 1), p)
    /\ pathHistoryPointer' = Len(pathHistory') - 1

GoTo(p) ==
    /\ currentPath' = p
    /\ HistoryPush(p)
    /\ UNCHANGED <<scannerVars, currentDepth, showSpace>>
    /\ OnScanUpdate

ViewUnchanged ==
    UNCHANGED <<scannerVars, screenVars, limitVars, historyVars, currentPath,
                currentDepth, showSpace>>

NavigateHome == GoTo(Root)
NavigateUp   == IF IsAtRoot THEN ViewUnchanged ELSE GoTo(Front(currentPath))

MoveTo(pointer) ==
    /\ pathHistoryPointer' = pointer
    /\ currentPath' = pathHistory[pointer + 1]
    /\ UNCHANGED <<scannerVars, pathHistory, currentDepth, showSpace>>
    /\ OnScanUpdate

NavigateBack    == IF CanNavigateBack THEN MoveTo(pathHistoryPointer - 1) ELSE ViewUnchanged
NavigateForward == IF CanNavigateForward THEN MoveTo(pathHistoryPointer + 1) ELSE ViewUnchanged

\* increaseDetail and decreaseDetail
ChangeDetail(can, depth) ==
    IF can THEN /\ currentDepth' = depth
                /\ UNCHANGED <<scannerVars, historyVars, currentPath, showSpace>>
                /\ OnScanUpdate
           ELSE ViewUnchanged

\* setShowFreeSpace and setShowUnknownSpace
SetShowSpace(space) ==
    /\ showSpace' = space
    /\ UNCHANGED <<scannerVars, historyVars, currentPath, currentDepth>>
    /\ OnScanUpdate

\* resizeEvent, and setCustomPalette, which drops what was shown first
Reallocate(shown) ==
    /\ UNCHANGED <<scannerVars, historyVars, limitVars, currentPath, currentDepth, showSpace>>
    /\ AllocateEntries(shown, hasChanges)

\* mouseMoveEvent
MouseMove ==
    /\ UNCHANGED <<scannerVars, historyVars, limitVars, currentPath, currentDepth,
                   showSpace, rootFile, hasChanges>>
    /\ UpdateHoveredView

\* the left button; of the paths made of the names of two directories, only those
\* in Path (bound)
MousePress == hoveredPath \in Path /\ GoTo(hoveredPath)

\* setPause: pauseScan and resumeScan do nothing in another status
SetPause(paused) ==
    /\ status' = CASE paused /\ status = "SCANNING" -> "SCAN_PAUSED"
                   [] ~ paused /\ status = "SCAN_PAUSED" -> "SCANNING"
                   [] OTHER -> status
    /\ UNCHANGED <<scanner, db, screenVars, limitVars, historyVars, currentPath,
                   currentDepth, showSpace>>

\* SpaceScanner::rescanPath
RescanDir(p) == status' = IF p \in db THEN "SCANNING" ELSE status

\* Fault: the history is dropped wherever one is
RescanForgetting ==
    /\ RescanDir(currentPath)
    /\ pathHistory' = <<currentPath>> /\ pathHistoryPointer' = 0
    /\ UNCHANGED <<scanner, db, screenVars, limitVars, currentPath, currentDepth, showSpace>>

RescanCurrentView ==
    /\ IF scanner THEN RescanDir(currentPath) ELSE UNCHANGED status
    /\ IF scanner /\ IsAtRoot THEN pathHistory' = <<currentPath>> /\ pathHistoryPointer' = 0
                               ELSE UNCHANGED historyVars
    /\ UNCHANGED <<scanner, db, screenVars, limitVars, currentPath, currentDepth, showSpace>>

\* MainWindow::startScan as far as the view goes: the history is cleared; the old
\* scanner's view is updated for the space to be shown, and its flag taken; then
\* the new scanner is set, or, if the path could not be opened, none.
OpenScanner(space) ==
    /\ scanner' = TRUE
    /\ db' = {Root}
    /\ status' = "SCANNING"
    /\ currentPath' = Root
    /\ pathHistory' = <<Root>> /\ pathHistoryPointer' = 0
    /\ showSpace' = space
    /\ UNCHANGED currentDepth
    /\ AllocateEntries(rootFile, TRUE)
    /\ TakeLimit(limitFlag)

CloseScanner(space) ==
    /\ scanner' = FALSE
    /\ db' = {} /\ status' = "IDLE" /\ hasChanges' = FALSE
    /\ currentPath' = None
    /\ pathHistory' = << >> /\ pathHistoryPointer' = 0
    /\ showSpace' = space
    /\ rootFile' = IF scanner /\ currentPath \in db
                     THEN View(currentPath, db, currentDepth, space) ELSE rootFile
    /\ IF scanner /\ rootFile' # None
         THEN hoveredPath' \in {None} \union
                {currentPath \o SubSeq(q, Len(rootFile'.path) + 1, Len(q)) :
                     q \in rootFile'.entries \ {rootFile'.path}}
         ELSE UNCHANGED hoveredPath
    /\ UNCHANGED currentDepth
    /\ TakeLimit(limitFlag)
=============================================================================
