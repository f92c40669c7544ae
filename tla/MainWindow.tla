------------------------------ MODULE MainWindow ------------------------------
(* MainWindow (app-gui/src/mainwindow.cpp), composed with SpaceView: the      *)
(* user's and the timer's events, which buttons are enabled after each, what  *)
(* the status line says, the report that the watch limit is reached.          *)
(*                                                                            *)
(* A handler runs in the GUI thread in two steps: the view's part, and the    *)
(* window's, which pending names, so that the scanner's thread may come in    *)
(* between. No handler begins before that part is done.                       *)
EXTENDS SpaceView, FiniteSets

VARIABLES
    \* members of MainWindow: the buttons, which of them are checked, the flag
    \* that the limit was reported, what the status line says
    enabledActions, isRootScanned, pauseChecked, spaceChecked, watchLimitReported,
    mode,
    \* the window's part of the handler under way
    pending,
    \* the program has followed a null pointer
    crashed,
    \* history: the scan has reached the limit
    limitHit

viewVars == <<scannerVars, screenVars, limitVars, historyVars, currentPath,
              currentDepth, showSpace>>
buttonVars == <<enabledActions, isRootScanned, pauseChecked, spaceChecked>>
windowVars == <<buttonVars, watchLimitReported, mode, pending>>

vars == <<viewVars, windowVars, crashed, limitHit>>

Init ==
    /\ ViewInit
    /\ enabledActions = {"NEW_SCAN"}
    /\ isRootScanned = FALSE
    /\ pauseChecked = FALSE /\ spaceChecked = {}
    /\ watchLimitReported = FALSE
    /\ mode = "NO_SCAN"
    /\ pending = "none"
    /\ crashed = FALSE
    /\ limitHit = FALSE

-----------------------------------------------------------------------------
(* The scanner's thread.                                                      *)

Scanner ==
    /\ \/ \E p \in Path : Found(p) \/ Lost(p)
       \/ StatusChanges
       \/ HitLimit
    /\ limitHit' = (limitHit \/ limitFlag')
    /\ UNCHANGED <<historyVars, currentPath, currentDepth, showSpace, rootFile,
                   hoveredPath, watchLimitExceeded, windowVars, crashed>>

-----------------------------------------------------------------------------
(* The window's part of a handler.                                            *)

\* Fault: the buttons for going home and up are left as they are at the root
AvailableActionsNoReset ==
    {"NEW_SCAN"}
    \union (enabledActions \intersect {"HOME", "NAVIGATE_UP"})
    \union {x \in {"BACK"}        : CanNavigateBack}
    \union {x \in {"FORWARD"}     : CanNavigateForward}
    \union {x \in {"MORE_DETAIL"} : CanIncreaseDetail}
    \union {x \in {"LESS_DETAIL"} : CanDecreaseDetail}
    \union {x \in {"PAUSE"}       : CanTogglePause}
    \union {x \in {"REFRESH"}     : scanner}
    \union {x \in {"HOME", "NAVIGATE_UP"} : ~ IsAtRoot}
    \union {x \in {"TOGGLE_FREE", "TOGGLE_UNKNOWN"} : IsAtRoot /\ isRootScanned}

AvailableActions ==
    {"NEW_SCAN"}
    \union {x \in {"BACK"}        : CanNavigateBack}
    \union {x \in {"FORWARD"}     : CanNavigateForward}
    \union {x \in {"MORE_DETAIL"} : CanIncreaseDetail}
    \union {x \in {"LESS_DETAIL"} : CanDecreaseDetail}
    \union {x \in {"PAUSE"}       : CanTogglePause}
    \union {x \in {"REFRESH"}     : scanner}
    \union {x \in {"HOME", "NAVIGATE_UP"} : ~ IsAtRoot}
    \union {x \in {"TOGGLE_FREE", "TOGGLE_UNKNOWN"} : IsAtRoot /\ isRootScanned}

UpdateAvailableActions ==
    /\ enabledActions' = AvailableActions
    /\ pauseChecked' = IsPaused

\* getScanProgress: 100 unless a scan is under way, and then it may be
Progress == IF scanner /\ status # "IDLE" THEN {0, 100} ELSE {100}

UpdateStatusView(progress) ==
    mode' = CASE ~ scanner      -> "NO_SCAN"
              [] progress = 100 -> "SCAN_FINISHED"
              [] OTHER          -> "SCANNING"

\* The limit is reported once for a scan, when it is over; getWatcherLimits resets
\* the scanner's flag.
ReportLimit(progress) ==
    IF progress = 100 /\ watchLimitExceeded /\ ~ watchLimitReported
    THEN /\ watchLimitReported' = TRUE
         /\ watchLimitExceeded' = FALSE
         /\ limitFlag' = FALSE
    ELSE UNCHANGED <<watchLimitReported, limitVars>>

\* The progress is read twice, for the status line and for the report.
WindowUpdate ==
    /\ ~ crashed
    /\ \/ /\ pending = "onScanUpdate"
          /\ \E progress \in Progress : UpdateStatusView(progress)
          /\ UpdateAvailableActions
          /\ \E progress \in Progress : ReportLimit(progress)
       \/ /\ pending = "updateAvailableActions"
          /\ UpdateAvailableActions
          /\ UNCHANGED <<mode, watchLimitReported, limitVars>>
       \/ /\ pending = "updateStatusView"
          /\ \E progress \in Progress : UpdateStatusView(progress)
          /\ UNCHANGED <<enabledActions, pauseChecked, watchLimitReported, limitVars>>
    /\ pending' = "none"
    /\ UNCHANGED <<scannerVars, screenVars, historyVars, currentPath, currentDepth,
                   showSpace, isRootScanned, spaceChecked, crashed, limitHit>>

-----------------------------------------------------------------------------
(* The user's and the timer's events.                                          *)

Event(next)     == ~ crashed /\ pending = "none" /\ pending' = next
Button(b, next) == Event(next) /\ b \in enabledActions

WindowRest == UNCHANGED <<watchLimitReported, mode, crashed, limitHit>>
Unchecked  == UNCHANGED buttonVars /\ WindowRest

\* SpaceView::timerEvent, every 12 ms
TimerEvent ==
    /\ Event("onScanUpdate")
    /\ scanner /\ hasChanges
    /\ UNCHANGED <<scannerVars, historyVars, currentPath, currentDepth, showSpace>>
    /\ OnScanUpdate
    /\ Unchecked

\* Also the mouse has buttons for going back and forward, which are never disabled.
GoBack    == Event("onScanUpdate") /\ NavigateBack /\ Unchecked
GoForward == Event("onScanUpdate") /\ NavigateForward /\ Unchecked
GoUp      == Button("NAVIGATE_UP", "onScanUpdate") /\ NavigateUp /\ Unchecked
GoHome    == Button("HOME", "onScanUpdate") /\ NavigateHome /\ Unchecked
Enter     == Event("onScanUpdate") /\ MousePress /\ Unchecked

\* by a button, or by the wheel
MoreDetail ==
    Event("updateAvailableActions")
    /\ ChangeDetail(CanIncreaseDetail, currentDepth + 1) /\ Unchecked
LessDetail ==
    Event("updateAvailableActions")
    /\ ChangeDetail(CanDecreaseDetail, currentDepth - 1) /\ Unchecked

Hover  == Event("none") /\ MouseMove /\ Unchecked
Resize == Event("none") /\ Reallocate(rootFile) /\ Unchecked
SwitchTheme == Event("none") /\ Reallocate(None) /\ Unchecked

\* paintEvent, or updateHoveredView with an entry under the mouse: with a view on
\* screen and no current path both follow a null pointer. Setting no scanner paints
\* at once (in StartScan); a window that was hidden, or too small for a title, goes
\* on to here.
Crash ==
    /\ Event("none")
    /\ currentPath = None /\ ShowsChildren(rootFile)
    /\ crashed' = TRUE
    /\ UNCHANGED <<viewVars, buttonVars, watchLimitReported, mode, limitHit>>

TogglePause ==
    /\ Button("PAUSE", "onScanUpdate")
    /\ pauseChecked' = ~ pauseChecked
    /\ IF scanner THEN SetPause(pauseChecked') ELSE ViewUnchanged
    /\ UNCHANGED <<enabledActions, isRootScanned, spaceChecked>> /\ WindowRest

RefreshView ==
    /\ Button("REFRESH", "onScanUpdate")
    /\ enabledActions' = enabledActions \ {"REFRESH"}
    /\ RescanCurrentView
    /\ UNCHANGED <<isRootScanned, pauseChecked, spaceChecked>> /\ WindowRest

\* The right button, perhaps on an entry whose popup then asks for a rescan: of
\* what was under the mouse when it opened, since when other events came.
RightButton ==
    /\ Event("onScanUpdate")
    /\ \/ UNCHANGED status
       \/ scanner /\ \E p \in Path \ {Root} : RescanDir(p)
    /\ UNCHANGED <<scanner, db, screenVars, limitVars, historyVars, currentPath,
                   currentDepth, showSpace>>
    /\ Unchecked

ToggleSpace(b, kind) ==
    /\ Button(b, "updateStatusView")
    /\ spaceChecked' = IF kind \in spaceChecked THEN spaceChecked \ {kind}
                                                ELSE spaceChecked \union {kind}
    /\ SetShowSpace(spaceChecked')
    /\ UNCHANGED <<enabledActions, isRootScanned, pauseChecked>> /\ WindowRest

\* startScan, of a mount point or not; the path may not be there
StartScan ==
    /\ Button("NEW_SCAN", "onScanUpdate")
    /\ isRootScanned' \in BOOLEAN
    /\ spaceChecked' = IF isRootScanned' THEN {"unknown"} ELSE {}
    /\ \/ /\ OpenScanner(spaceChecked')
          /\ watchLimitReported' = FALSE
          /\ UNCHANGED crashed
       \/ /\ CloseScanner(spaceChecked')
          /\ UNCHANGED watchLimitReported
          /\ crashed' \in {FALSE, ShowsChildren(rootFile')}
    /\ limitHit' = FALSE
    /\ enabledActions' = {"NEW_SCAN"} \union
            {x \in {"TOGGLE_FREE", "TOGGLE_UNKNOWN"} : isRootScanned'}
    /\ UNCHANGED <<pauseChecked, mode>>

-----------------------------------------------------------------------------

Done == crashed /\ UNCHANGED vars

Next ==
    \/ Scanner \/ WindowUpdate
    \/ TimerEvent \/ Enter \/ Hover \/ Resize \/ SwitchTheme \/ Crash
    \/ GoBack \/ GoForward \/ GoUp \/ GoHome \/ MoreDetail \/ LessDetail
    \/ TogglePause \/ RefreshView \/ RightButton \/ StartScan
    \/ ToggleSpace("TOGGLE_FREE", "free") \/ ToggleSpace("TOGGLE_UNKNOWN", "unknown")
    \/ Done

Spec == Init /\ [][Next]_vars

-----------------------------------------------------------------------------
(* Properties.                                                                *)

\* spaceview.h: "historyPointer points to currentPath", through pushes in the
\* middle of the history, rescans that clear it and scans that replace it; and
\* going back leads to the root.
HistoryPoints ==
    scanner => /\ pathHistory[1] = Root
               /\ pathHistoryPointer < Len(pathHistory)
               /\ pathHistory[pathHistoryPointer + 1] = currentPath

\* What is on screen is what the database has below the current path, at the
\* current depth and with the space to be shown, unless the flag says that the
\* timer is going to see to it, or the path is gone from the database.
ScreenCurrent ==
    scanner /\ ~ hasChanges /\ currentPath \in db =>
        rootFile = View(currentPath, db, currentDepth, showSpace)

\* The path that a click or the popup acts on is the entry's under the mouse, with
\* the same exceptions: in what is on screen of another directory the path is made
\* of the names of both.
HoverIsShown ==
    scanner /\ ~ hasChanges /\ currentPath \in db /\ hoveredPath # None =>
        rootFile # None /\ hoveredPath \in rootFile.entries

\* Between the handlers exactly those buttons are enabled that do something, so
\* that none follows a null pointer: home and up only with a path to leave. The
\* pause button is left out, whose scan may end at any time.
ButtonsAgree ==
    pending = "none" /\ ~ crashed =>
        /\ enabledActions \ {"PAUSE"} = AvailableActions \ {"PAUSE"}
        /\ enabledActions \intersect {"HOME", "NAVIGATE_UP"} # {} =>
               currentPath \notin {None, Root}
        /\ spaceChecked # showSpace => ~ scanner

\* That the limit on watches was reached is not forgotten on the way from the
\* scanner, through a flag that is reset when it is read and a callback, to the
\* report: it is in one of the three places.
LimitNotLost ==
    limitHit => limitFlag \/ watchLimitExceeded \/ watchLimitReported
=============================================================================
