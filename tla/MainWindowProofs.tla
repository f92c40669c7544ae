--------------------------- MODULE MainWindowProofs ---------------------------
(* Theorems about MainWindow, for every set of paths, every depth and every   *)
(* bound on the history.                                                      *)
EXTENDS MainWindow, SequenceTheorems, TLAPS

\* HistoryPoints is not inductive by itself: the pointer has to be in the history also
\* when there is no scanner, and what is in the history has to be paths.
HistoryInv ==
    /\ pathHistory \in Seq(Path)
    /\ pathHistoryPointer \in Nat
    /\ pathHistory # << >> => pathHistoryPointer < Len(pathHistory)
    /\ currentPath \in Path \union {None}
    /\ HistoryPoints

LEMMA RootIsPath == Root \in Path
  BY ViewAssumption DEF Root

-----------------------------------------------------------------------------
(* The moves in the history.                                                  *)

\* Steps that leave the history, the path and the scanner alone.
LEMMA HistoryFrame ==
    ASSUME HistoryInv, UNCHANGED <<pathHistory, pathHistoryPointer, currentPath, scanner>>
    PROVE  HistoryInv'
  BY DEF HistoryInv, HistoryPoints

\* A path pushed at any place in the history is its last, and the root stays first.
LEMMA GoToKeeps ==
    ASSUME HistoryInv, NEW p \in Path, GoTo(p)
    PROVE  HistoryInv'
<1>1. currentPath' = p /\ HistoryPush(p) /\ scanner' = scanner
  BY DEF GoTo, scannerVars
<1>2. CASE pathHistory = << >>
  <2>1. pathHistory' = <<p>> /\ pathHistoryPointer' = 0 /\ ~ scanner
    BY <1>1, <1>2 DEF HistoryPush, HistoryInv, HistoryPoints
  <2> QED
    BY <1>1, <2>1 DEF HistoryInv, HistoryPoints
<1>3. CASE pathHistory # << >>
  <2> DEFINE kept == SubSeq(pathHistory, 1, pathHistoryPointer + 1)
  <2>1. pathHistory' = Append(kept, p) /\ pathHistoryPointer' = Len(pathHistory') - 1
    BY <1>1, <1>3 DEF HistoryPush
  <2>2. pathHistoryPointer \in Nat /\ pathHistoryPointer + 1 <= Len(pathHistory)
    BY <1>3 DEF HistoryInv
  <2>3. /\ kept \in Seq(Path) /\ Len(kept) = pathHistoryPointer + 1
        /\ kept[1] = pathHistory[1]
    BY <2>2 DEF HistoryInv
  <2> HIDE DEF kept
  <2>4. /\ pathHistory' \in Seq(Path) /\ Len(pathHistory') = pathHistoryPointer + 2
        /\ pathHistory'[1] = kept[1] /\ pathHistory'[pathHistoryPointer + 2] = p
    BY <2>1, <2>2, <2>3
  <2>5. pathHistoryPointer' = pathHistoryPointer + 1
    BY <2>1, <2>2, <2>4
  <2> QED
    BY <1>1, <2>2, <2>3, <2>4, <2>5 DEF HistoryInv, HistoryPoints
<1> QED
  BY <1>2, <1>3

\* Going back or forward ends at a path of the history.
LEMMA MoveToKeeps ==
    ASSUME HistoryInv, NEW pointer \in Nat, pointer < Len(pathHistory), MoveTo(pointer)
    PROVE  HistoryInv'
<1>1. /\ pathHistoryPointer' = pointer /\ currentPath' = pathHistory[pointer + 1]
      /\ pathHistory' = pathHistory /\ scanner' = scanner
  BY DEF MoveTo, scannerVars
<1>2. pathHistory[pointer + 1] \in Path
  BY DEF HistoryInv
<1> QED
  BY <1>1, <1>2 DEF HistoryInv, HistoryPoints

LEMMA NavigateKeeps ==
    ASSUME HistoryInv, NavigateBack \/ NavigateForward \/ NavigateUp \/ NavigateHome
    PROVE  HistoryInv'
<1>1. CASE NavigateBack
  <2>1. CASE CanNavigateBack
    <3>1. /\ pathHistoryPointer - 1 \in Nat /\ pathHistoryPointer - 1 < Len(pathHistory)
          /\ MoveTo(pathHistoryPointer - 1)
      BY <1>1, <2>1 DEF NavigateBack, CanNavigateBack, HistoryInv
    <3> QED
      BY <3>1, MoveToKeeps
  <2>2. CASE ~ CanNavigateBack
    BY <1>1, <2>2, HistoryFrame DEF NavigateBack, ViewUnchanged, historyVars, scannerVars
  <2> QED
    BY <2>1, <2>2
<1>2. CASE NavigateForward
  <2>1. CASE CanNavigateForward
    <3>1. /\ pathHistoryPointer + 1 \in Nat /\ pathHistoryPointer + 1 < Len(pathHistory)
          /\ MoveTo(pathHistoryPointer + 1)
      BY <1>2, <2>1 DEF NavigateForward, CanNavigateForward, HistoryInv
    <3> QED
      BY <3>1, MoveToKeeps
  <2>2. CASE ~ CanNavigateForward
    BY <1>2, <2>2, HistoryFrame DEF NavigateForward, ViewUnchanged, historyVars, scannerVars
  <2> QED
    BY <2>1, <2>2
<1>3. CASE NavigateUp
  <2>1. CASE IsAtRoot
    BY <1>3, <2>1, HistoryFrame DEF NavigateUp, ViewUnchanged, historyVars, scannerVars
  <2>2. CASE ~ IsAtRoot
    <3>1. currentPath \in Path \ {<< >>}
      BY <2>2 DEF IsAtRoot, Root, HistoryInv, HistoryPoints
    <3> QED
      BY <1>3, <2>2, <3>1, GoToKeeps, ViewAssumption DEF NavigateUp
  <2> QED
    BY <2>1, <2>2
<1>4. CASE NavigateHome
  BY <1>4, GoToKeeps, RootIsPath DEF NavigateHome
<1> QED
  BY <1>1, <1>2, <1>3, <1>4

\* A rescan at the root drops the history but for the root.
LEMMA RescanKeeps ==
    ASSUME HistoryInv, RescanCurrentView
    PROVE  HistoryInv'
<1>1. CASE scanner /\ IsAtRoot
  <2>1. /\ pathHistory' = <<Root>> /\ pathHistoryPointer' = 0
        /\ currentPath' = Root /\ scanner' = scanner
    BY <1>1 DEF RescanCurrentView, IsAtRoot
  <2> QED
    BY <2>1, RootIsPath DEF HistoryInv, HistoryPoints
<1>2. CASE ~ (scanner /\ IsAtRoot)
  BY <1>2, HistoryFrame DEF RescanCurrentView, historyVars
<1> QED
  BY <1>1, <1>2

LEMMA StartKeeps ==
    ASSUME HistoryInv, StartScan
    PROVE  HistoryInv'
<1>1. CASE OpenScanner(spaceChecked')
  <2>1. /\ pathHistory' = <<Root>> /\ pathHistoryPointer' = 0 /\ currentPath' = Root
    BY <1>1 DEF OpenScanner
  <2> QED
    BY <2>1, RootIsPath DEF HistoryInv, HistoryPoints
<1>2. CASE CloseScanner(spaceChecked')
  <2>1. /\ pathHistory' = << >> /\ pathHistoryPointer' = 0 /\ currentPath' = None
        /\ scanner' = FALSE
    BY <1>2 DEF CloseScanner
  <2> QED
    BY <2>1 DEF HistoryInv, HistoryPoints
<1> QED
  BY <1>1, <1>2 DEF StartScan

-----------------------------------------------------------------------------
(* The theorems.                                                              *)

LEMMA HistoryStep == HistoryInv /\ [Next]_vars => HistoryInv'
<1> SUFFICES ASSUME HistoryInv, [Next]_vars PROVE HistoryInv'
  OBVIOUS
<1> USE DEF historyVars, scannerVars
<1>1. CASE Scanner
  BY <1>1, HistoryFrame DEF Scanner, Found, Lost, StatusChanges, HitLimit
<1>2. CASE WindowUpdate
  BY <1>2, HistoryFrame DEF WindowUpdate
<1>3. CASE TimerEvent
  BY <1>3, HistoryFrame DEF TimerEvent
<1>4. CASE Enter
  BY <1>4, GoToKeeps DEF Enter, MousePress
<1>5. CASE Hover
  BY <1>5, HistoryFrame DEF Hover, MouseMove
<1>6. CASE Resize \/ SwitchTheme
  BY <1>6, HistoryFrame DEF Resize, SwitchTheme, Reallocate
<1>7. CASE Crash
  BY <1>7, HistoryFrame DEF Crash, viewVars
<1>8. CASE GoBack \/ GoForward \/ GoUp \/ GoHome
  BY <1>8, NavigateKeeps DEF GoBack, GoForward, GoUp, GoHome
<1>9. CASE MoreDetail \/ LessDetail
  BY <1>9, HistoryFrame DEF MoreDetail, LessDetail, ChangeDetail, ViewUnchanged
<1>10. CASE TogglePause
  BY <1>10, HistoryFrame DEF TogglePause, SetPause, ViewUnchanged
<1>11. CASE RefreshView
  BY <1>11, RescanKeeps DEF RefreshView
<1>12. CASE RightButton
  BY <1>12, HistoryFrame DEF RightButton
<1>13. CASE StartScan
  BY <1>13, StartKeeps
<1>14. CASE \/ ToggleSpace("TOGGLE_FREE", "free")
            \/ ToggleSpace("TOGGLE_UNKNOWN", "unknown")
  BY <1>14, HistoryFrame DEF ToggleSpace, SetShowSpace
<1>15. CASE Done \/ UNCHANGED vars
  BY <1>15, HistoryFrame DEF Done, vars, viewVars
<1> QED
  BY <1>1, <1>2, <1>3, <1>4, <1>5, <1>6, <1>7, <1>8, <1>9, <1>10, <1>11, <1>12, <1>13,
     <1>14, <1>15 DEF Next

\* Through every order of navigation, rescans and new scans, historyPointer points to
\* the current path and the history begins with the root (spaceview.h).
THEOREM HistoryAlwaysPoints == Spec => []HistoryPoints
<1>1. Init => HistoryInv
  BY DEF Init, ViewInit, HistoryInv, HistoryPoints
<1>2. HistoryInv => HistoryPoints
  BY DEF HistoryInv
<1> QED
  BY <1>1, <1>2, HistoryStep, PTL DEF Spec

-----------------------------------------------------------------------------
(* The limit on watches.                                                      *)

\* Steps of neither the scanner nor a scan that is started keep what is known of the
\* limit, move it to the callback's flag, or report it.
LEMMA LimitFrame ==
    ASSUME LimitNotLost, UNCHANGED <<limitHit, limitVars, watchLimitReported>>
    PROVE  LimitNotLost'
  BY Zenon DEF LimitNotLost, limitVars

LEMMA LimitTaken ==
    ASSUME LimitNotLost, UNCHANGED <<limitHit, watchLimitReported>>, TakeLimit(limitFlag)
    PROVE  LimitNotLost'
  BY Zenon DEF LimitNotLost, TakeLimit

\* A handler of the view does one or the other.
LEMMA LimitInView ==
    ASSUME LimitNotLost, UNCHANGED <<limitHit, watchLimitReported>>,
           \/ OnScanUpdate
           \/ UNCHANGED limitVars
    PROVE  LimitNotLost'
  BY LimitFrame, LimitTaken, Zenon DEF OnScanUpdate

LEMMA LimitStep == LimitNotLost /\ [Next]_vars => LimitNotLost'
<1> SUFFICES ASSUME LimitNotLost, [Next]_vars PROVE LimitNotLost'
  OBVIOUS
<1> USE DEF Unchecked, WindowRest
<1>1. CASE Scanner
  <2>1. /\ limitHit' = (limitHit \/ limitFlag')
        /\ watchLimitExceeded' = watchLimitExceeded
        /\ watchLimitReported' = watchLimitReported
    BY <1>1 DEF Scanner, windowVars
  <2>2. limitFlag' = TRUE \/ limitFlag' = limitFlag
    BY <1>1 DEF Scanner, Found, Lost, StatusChanges, HitLimit
  <2> QED
    BY <2>1, <2>2, Zenon DEF LimitNotLost
<1>2. CASE WindowUpdate
  <2>1. limitHit' = limitHit
    BY <1>2 DEF WindowUpdate
  <2>2. \/ watchLimitReported' = TRUE
        \/ UNCHANGED <<watchLimitReported, limitVars>>
    BY <1>2, Zenon DEF WindowUpdate, ReportLimit
  <2>3. CASE watchLimitReported' = TRUE
    BY <2>3, Zenon DEF LimitNotLost
  <2> QED
    BY <2>1, <2>2, <2>3, LimitFrame
<1>3. CASE TimerEvent
  BY <1>3, LimitInView DEF TimerEvent
<1>4. CASE Enter
  BY <1>4, LimitInView DEF Enter, MousePress, GoTo
<1>5. CASE Hover \/ Resize \/ SwitchTheme
  BY <1>5, LimitInView DEF Hover, MouseMove, Resize, SwitchTheme, Reallocate
<1>6. CASE Crash
  BY <1>6, LimitInView DEF Crash, viewVars
<1>7. CASE GoBack \/ GoForward \/ GoUp \/ GoHome
  <2>1. UNCHANGED <<limitHit, watchLimitReported>>
    BY <1>7 DEF GoBack, GoForward, GoUp, GoHome
  <2>2. OnScanUpdate \/ UNCHANGED limitVars
    BY <1>7 DEF GoBack, GoForward, GoUp, GoHome, NavigateBack, NavigateForward, NavigateUp,
                NavigateHome, MoveTo, GoTo, ViewUnchanged
  <2> QED
    BY <2>1, <2>2, LimitInView
<1>8. CASE MoreDetail \/ LessDetail
  BY <1>8, LimitInView DEF MoreDetail, LessDetail, ChangeDetail, ViewUnchanged
<1>9. CASE TogglePause
  BY <1>9, LimitInView DEF TogglePause, SetPause, ViewUnchanged
<1>10. CASE RefreshView \/ RightButton
  BY <1>10, LimitInView DEF RefreshView, RescanCurrentView, RightButton
<1>11. CASE StartScan
  <2>1. limitHit' = FALSE
    BY <1>11 DEF StartScan
  <2> QED
    BY <2>1, Zenon DEF LimitNotLost
<1>12. CASE \/ ToggleSpace("TOGGLE_FREE", "free")
            \/ ToggleSpace("TOGGLE_UNKNOWN", "unknown")
  BY <1>12, LimitInView DEF ToggleSpace, SetShowSpace
<1>13. CASE Done \/ UNCHANGED vars
  BY <1>13, LimitInView DEF Done, vars, viewVars, windowVars
<1> QED
  BY <1>1, <1>2, <1>3, <1>4, <1>5, <1>6, <1>7, <1>8, <1>9, <1>10, <1>11, <1>12, <1>13 DEF Next

\* Once a scan has hit the limit on watches, the scanner's flag, the window's flag or
\* the report says so, in every order of the scanner's steps and the handlers.
THEOREM LimitNeverLost == Spec => []LimitNotLost
<1>1. Init => LimitNotLost
  BY DEF Init, LimitNotLost
<1> QED
  BY <1>1, LimitStep, PTL DEF Spec

-----------------------------------------------------------------------------
(* What is on screen and under the mouse.                                     *)

\* ScreenCurrent and HoverIsShown rest on each other: the mouse is over an entry of
\* what is on screen, which is below the current path. That there is a current path
\* is HistoryInv's.
ShownInv == db \subseteq Path /\ ScreenCurrent /\ HoverIsShown

LEMMA PathAndRest ==
    ASSUME NEW p \in Path, NEW q \in Path, IsPrefix(p, q)
    PROVE  p \o SubSeq(q, Len(p) + 1, Len(q)) = q
<1> DEFINE S == UNION {Range(x) : x \in Path}
<1>1. p \in Seq(S) /\ q \in Seq(S)
  BY ViewAssumption
<1> HIDE DEF S
<1>2. Len(p) <= Len(q) /\ SubSeq(p, 1, Len(p)) = SubSeq(q, 1, Len(p))
  BY DEF IsPrefix
<1>3. \A i \in 1..Len(p) : p[i] = q[i]
  BY <1>1, <1>2
<1> DEFINE r == SubSeq(q, Len(p) + 1, Len(q))
<1>4. /\ r \in Seq(S) /\ Len(r) = Len(q) - Len(p)
      /\ \A i \in 1..Len(r) : r[i] = q[Len(p) + i]
  BY <1>1, <1>2
<1> HIDE DEF r
<1>5. /\ p \o r \in Seq(S) /\ Len(p \o r) = Len(q)
      /\ \A i \in 1..Len(q) : (p \o r)[i] = q[i]
  BY <1>1, <1>2, <1>3, <1>4
<1> QED
  BY <1>1, <1>5 DEF r

\* After an update the screen shows the current path, or that path is gone.
LEMMA AllocateShows ==
    ASSUME NEW shown, NEW changes, AllocateEntries(shown, changes),
           db' \subseteq Path, scanner' => currentPath' \in Path
    PROVE  ScreenCurrent' /\ HoverIsShown'
<1> SUFFICES ASSUME scanner', currentPath' \in db'
             PROVE  ScreenCurrent' /\ HoverIsShown'
  BY DEF ScreenCurrent, HoverIsShown
<1>1. currentPath' # None /\ currentPath' \in Path
  BY ViewAssumption
<1>2. rootFile' = View(currentPath', db', currentDepth', showSpace') /\ UpdateHoveredView
  BY <1>1 DEF AllocateEntries, Update
<1>3. ScreenCurrent'
  BY <1>2 DEF ScreenCurrent
<1>4. /\ rootFile'.path = currentPath'
      /\ \A q \in rootFile'.entries : q \in Path /\ IsPrefix(currentPath', q)
  BY <1>2 DEF View
<1>5. HoverIsShown'
  <2>1. CASE hoveredPath' = None
    BY <2>1 DEF HoverIsShown
  <2>2. ASSUME rootFile' # None, NEW q \in rootFile'.entries,
               hoveredPath' = currentPath' \o SubSeq(q, Len(rootFile'.path) + 1, Len(q))
        PROVE  HoverIsShown'
    <3>1. hoveredPath' = q
      BY <1>1, <1>4, <2>2, PathAndRest
    <3> QED
      BY <2>2, <3>1 DEF HoverIsShown
  <2> QED
    BY <1>2, <2>1, <2>2 DEF UpdateHoveredView
<1> QED
  BY <1>3, <1>5

\* Steps that change nothing the screen is made of.
LEMMA ShownFrame ==
    ASSUME ShownInv,
           UNCHANGED <<scanner, db, hasChanges, currentPath, currentDepth, showSpace,
                       rootFile, hoveredPath>>
    PROVE  ShownInv'
  BY DEF ShownInv, ScreenCurrent, HoverIsShown

\* A handler of the view that updates the screen, or does nothing.
LEMMA ShownInView ==
    ASSUME ShownInv, HistoryInv', UNCHANGED scannerVars,
           \E shown : AllocateEntries(shown, hasChanges)
    PROVE  ShownInv'
<1>1. PICK shown : AllocateEntries(shown, hasChanges)
  OBVIOUS
<1>2. db' \subseteq Path
  BY DEF ShownInv, scannerVars
<1>3. scanner' => currentPath' \in Path
  BY DEF HistoryInv, HistoryPoints
<1> QED
  BY <1>1, <1>2, <1>3, AllocateShows DEF ShownInv

LEMMA ShownStep == HistoryInv /\ ShownInv /\ [Next]_vars => ShownInv'
<1> SUFFICES ASSUME HistoryInv, ShownInv, [Next]_vars PROVE ShownInv'
  OBVIOUS
<1>1. HistoryInv'
  BY HistoryStep
<1> USE DEF scannerVars, screenVars
<1>2. ASSUME OnScanUpdate, UNCHANGED scannerVars
      PROVE  ShownInv'
  BY <1>1, <1>2, ShownInView DEF OnScanUpdate
<1>3. ASSUME NEW p, GoTo(p) PROVE ShownInv'
  BY <1>2, <1>3 DEF GoTo
<1>4. ASSUME ViewUnchanged PROVE ShownInv'
  BY <1>4, ShownFrame DEF ViewUnchanged
<1>5. CASE Scanner
  <2>1. CASE \E p \in Path : Found(p) \/ Lost(p)
    <3>1. hasChanges' = TRUE /\ db' \subseteq Path
      BY <2>1 DEF Found, Lost, ShownInv
    <3> QED
      BY <3>1 DEF ShownInv, ScreenCurrent, HoverIsShown
  <2>2. CASE StatusChanges \/ HitLimit
    BY <1>5, <2>2, ShownFrame DEF Scanner, StatusChanges, HitLimit
  <2> QED
    BY <1>5, <2>1, <2>2 DEF Scanner
<1>6. CASE WindowUpdate
  BY <1>6, ShownFrame DEF WindowUpdate
<1>7. CASE TimerEvent
  BY <1>2, <1>7 DEF TimerEvent
<1>8. CASE Enter
  BY <1>3, <1>8 DEF Enter, MousePress
<1>9. CASE Hover
  <2>1. /\ UpdateHoveredView
        /\ UNCHANGED <<scanner, db, hasChanges, currentPath, currentDepth, showSpace, rootFile>>
    BY <1>9 DEF Hover, MouseMove
  <2>2. ScreenCurrent' /\ db' \subseteq Path
    BY <2>1 DEF ShownInv, ScreenCurrent
  <2>3. HoverIsShown'
    <3> SUFFICES ASSUME scanner, ~ hasChanges, currentPath \in db, hoveredPath' # None
                 PROVE  rootFile # None /\ hoveredPath' \in rootFile.entries
      BY <2>1 DEF HoverIsShown
    <3>1. rootFile = View(currentPath, db, currentDepth, showSpace)
      BY DEF ShownInv, ScreenCurrent
    <3>2. /\ rootFile.path = currentPath /\ currentPath \in Path
          /\ \A q \in rootFile.entries : q \in Path /\ IsPrefix(currentPath, q)
      BY <3>1 DEF View, ShownInv
    <3>3. PICK q \in rootFile.entries :
            /\ rootFile # None
            /\ hoveredPath' = currentPath \o SubSeq(q, Len(rootFile.path) + 1, Len(q))
      BY <2>1 DEF UpdateHoveredView
    <3>4. hoveredPath' = q
      BY <3>2, <3>3, PathAndRest
    <3> QED
      BY <3>3, <3>4
  <2> QED
    BY <2>2, <2>3 DEF ShownInv
<1>10. CASE Resize \/ SwitchTheme
  BY <1>1, <1>10, ShownInView DEF Resize, SwitchTheme, Reallocate
<1>11. CASE Crash
  BY <1>11, ShownFrame DEF Crash, viewVars
<1>12. CASE GoBack \/ GoForward
  BY <1>2, <1>4, <1>12 DEF GoBack, GoForward, NavigateBack, NavigateForward, MoveTo
<1>13. CASE GoUp \/ GoHome
  BY <1>3, <1>4, <1>13 DEF GoUp, GoHome, NavigateUp, NavigateHome
<1>14. CASE MoreDetail \/ LessDetail
  BY <1>2, <1>4, <1>14 DEF MoreDetail, LessDetail, ChangeDetail
<1>15. CASE TogglePause
  BY <1>4, <1>15, ShownFrame DEF TogglePause, SetPause
<1>16. CASE RefreshView \/ RightButton
  BY <1>16, ShownFrame DEF RefreshView, RescanCurrentView, RightButton
<1>17. CASE StartScan
  <2>1. CASE OpenScanner(spaceChecked')
    <3>1. /\ db' = {Root} /\ currentPath' = Root /\ AllocateEntries(rootFile, TRUE)
      BY <2>1 DEF OpenScanner
    <3> QED
      BY <3>1, AllocateShows, RootIsPath DEF ShownInv
  <2>2. CASE CloseScanner(spaceChecked')
    <3>1. scanner' = FALSE /\ db' = {}
      BY <2>2 DEF CloseScanner
    <3> QED
      BY <3>1 DEF ShownInv, ScreenCurrent, HoverIsShown
  <2> QED
    BY <1>17, <2>1, <2>2 DEF StartScan
<1>18. CASE \/ ToggleSpace("TOGGLE_FREE", "free")
            \/ ToggleSpace("TOGGLE_UNKNOWN", "unknown")
  BY <1>2, <1>18 DEF ToggleSpace, SetShowSpace
<1>19. CASE Done \/ UNCHANGED vars
  BY <1>19, ShownFrame DEF Done, vars, viewVars
<1> QED
  BY <1>5, <1>6, <1>7, <1>8, <1>9, <1>10, <1>11, <1>12, <1>13, <1>14, <1>15, <1>16, <1>17,
     <1>18, <1>19 DEF Next

LEMMA ViewAlways == Spec => [](HistoryInv /\ ShownInv)
<1>1. Init => HistoryInv /\ ShownInv
  BY DEF Init, ViewInit, HistoryInv, HistoryPoints, ShownInv, ScreenCurrent, HoverIsShown
<1> QED
  BY <1>1, HistoryStep, ShownStep, PTL DEF Spec

\* Whatever the scanner finds and the user does, what is on screen is the database's
\* part below the current path, or the timer will see to it, or that path is gone.
THEOREM ScreenAlwaysCurrent == Spec => []ScreenCurrent
<1>1. ShownInv => ScreenCurrent
  BY DEF ShownInv
<1> QED
  BY <1>1, ViewAlways, PTL

\* The path a click acts on is that of an entry on screen, with the same exceptions.
THEOREM HoverAlwaysShown == Spec => []HoverIsShown
<1>1. ShownInv => HoverIsShown
  BY DEF ShownInv
<1> QED
  BY <1>1, ViewAlways, PTL

-----------------------------------------------------------------------------
(* The buttons.                                                               *)

\* ButtonsAgree is not inductive by itself. Between the two parts of a handler the
\* buttons may be those of before, unless the window's part will leave them alone.
\* What the two buttons for space say is the view's at all times, but without a
\* scanner.
ButtonsInv ==
    /\ pending \in {"none", "updateStatusView"} /\ ~ crashed =>
           enabledActions \ {"PAUSE"} = AvailableActions \ {"PAUSE"}
    /\ spaceChecked # showSpace => ~ scanner

\* What the buttons but for the one for pauses depend on.
buttonInputs == <<scanner, currentPath, historyVars, currentDepth, isRootScanned>>

LEMMA SameButtons ==
    ASSUME UNCHANGED buttonInputs
    PROVE  AvailableActions' \ {"PAUSE"} = AvailableActions \ {"PAUSE"}
<1>1. /\ CanNavigateBack' = CanNavigateBack /\ CanNavigateForward' = CanNavigateForward
      /\ CanIncreaseDetail' = CanIncreaseDetail /\ CanDecreaseDetail' = CanDecreaseDetail
      /\ IsAtRoot' = IsAtRoot /\ scanner' = scanner /\ isRootScanned' = isRootScanned
  BY DEF buttonInputs, historyVars, CanNavigateBack, CanNavigateForward, CanIncreaseDetail,
         CanDecreaseDetail, IsAtRoot
<1> QED
  BY <1>1 DEF AvailableActions

LEMMA ButtonsFrame ==
    ASSUME ButtonsInv,
           UNCHANGED <<buttonInputs, enabledActions, spaceChecked, showSpace, crashed>>,
           pending' = pending \/ pending = "none"
    PROVE  ButtonsInv'
<1>1. AvailableActions' \ {"PAUSE"} = AvailableActions \ {"PAUSE"}
  BY SameButtons
<1> QED
  BY <1>1 DEF ButtonsInv, buttonInputs

\* A handler whose second part sets the buttons.
LEMMA ButtonsLater ==
    ASSUME ButtonsInv, pending' \in {"onScanUpdate", "updateAvailableActions"},
           UNCHANGED <<scanner, spaceChecked, showSpace>>
    PROVE  ButtonsInv'
  BY DEF ButtonsInv

LEMMA ButtonsStep == ButtonsInv /\ [Next]_vars => ButtonsInv'
<1> SUFFICES ASSUME ButtonsInv, [Next]_vars PROVE ButtonsInv'
  OBVIOUS
<1> USE DEF scannerVars, historyVars, Unchecked, WindowRest, buttonVars
<1>1. CASE Scanner
  BY <1>1, ButtonsFrame DEF Scanner, Found, Lost, StatusChanges, HitLimit, buttonInputs, windowVars
<1>2. CASE WindowUpdate
  <2>1. /\ UNCHANGED <<buttonInputs, spaceChecked, showSpace, crashed>> /\ pending' = "none"
    BY <1>2 DEF WindowUpdate, buttonInputs
  <2>2. AvailableActions' \ {"PAUSE"} = AvailableActions \ {"PAUSE"}
    BY <2>1, SameButtons
  <2>3. CASE pending \in {"onScanUpdate", "updateAvailableActions"}
    <3>1. enabledActions' = AvailableActions
      BY <1>2, <2>3 DEF WindowUpdate, UpdateAvailableActions
    <3> QED
      BY <2>1, <2>2, <3>1 DEF ButtonsInv, buttonInputs
  <2>4. CASE pending = "updateStatusView"
    <3>1. enabledActions' = enabledActions
      BY <1>2, <2>4 DEF WindowUpdate
    <3> QED
      BY <2>1, <2>2, <2>4, <3>1 DEF ButtonsInv, buttonInputs
  <2> QED
    BY <1>2, <2>3, <2>4 DEF WindowUpdate
<1>3. CASE TimerEvent
  BY <1>3, ButtonsLater DEF TimerEvent, Event
<1>4. CASE Enter
  BY <1>4, ButtonsLater DEF Enter, MousePress, GoTo, Event
<1>5. CASE Hover \/ Resize \/ SwitchTheme
  BY <1>5, ButtonsFrame DEF Hover, MouseMove, Resize, SwitchTheme, Reallocate, Event, buttonInputs
<1>6. CASE Crash
  BY <1>6 DEF Crash, ButtonsInv, viewVars
<1>7. CASE GoBack \/ GoForward
  BY <1>7, ButtonsLater DEF GoBack, GoForward, NavigateBack, NavigateForward, MoveTo,
                            ViewUnchanged, Event
<1>8. CASE GoUp \/ GoHome
  BY <1>8, ButtonsLater DEF GoUp, GoHome, NavigateUp, NavigateHome, GoTo, ViewUnchanged,
                            Event, Button
<1>9. CASE MoreDetail \/ LessDetail
  BY <1>9, ButtonsLater DEF MoreDetail, LessDetail, ChangeDetail, ViewUnchanged, Event
<1>10. CASE TogglePause
  BY <1>10, ButtonsLater DEF TogglePause, SetPause, ViewUnchanged, Event, Button
<1>11. CASE RefreshView
  BY <1>11, ButtonsLater DEF RefreshView, RescanCurrentView, Event, Button
<1>12. CASE RightButton
  BY <1>12, ButtonsLater DEF RightButton, Event
<1>13. CASE StartScan
  <2>1. pending' = "onScanUpdate"
    BY <1>13 DEF StartScan, Event, Button
  <2>2. showSpace' = spaceChecked'
    BY <1>13 DEF StartScan, OpenScanner, CloseScanner
  <2> QED
    BY <2>1, <2>2 DEF ButtonsInv
<1>14. ASSUME NEW button, NEW kind, ToggleSpace(button, kind)
       PROVE  ButtonsInv'
  <2>1. /\ pending = "none" /\ ~ crashed /\ crashed' = crashed
        /\ showSpace' = spaceChecked' /\ UNCHANGED <<buttonInputs, enabledActions>>
    BY <1>14 DEF ToggleSpace, SetShowSpace, Event, Button, buttonInputs
  <2>2. AvailableActions' \ {"PAUSE"} = AvailableActions \ {"PAUSE"}
    BY <2>1, SameButtons
  <2> QED
    BY <2>1, <2>2 DEF ButtonsInv
<1>15. CASE Done \/ UNCHANGED vars
  BY <1>15, ButtonsFrame DEF Done, vars, viewVars, windowVars, buttonInputs
<1> QED
  BY <1>1, <1>2, <1>3, <1>4, <1>5, <1>6, <1>7, <1>8, <1>9, <1>10, <1>11, <1>12, <1>13,
     <1>14, <1>15 DEF Next

\* Between the handlers the buttons enabled are those that do something, and home and
\* up are only with a current path to leave.
THEOREM ButtonsAlwaysAgree == Spec => []ButtonsAgree
<1>1. Init => ButtonsInv
  <2> SUFFICES ASSUME Init PROVE ButtonsInv
    OBVIOUS
  <2>1. /\ enabledActions = {"NEW_SCAN"} /\ ~ scanner /\ isRootScanned = FALSE
        /\ pathHistory = << >> /\ pathHistoryPointer = 0
    BY DEF Init, ViewInit
  <2>2. Len(pathHistory) = 0
    BY <2>1
  <2>3. AvailableActions = {"NEW_SCAN"}
    BY <2>1, <2>2 DEF AvailableActions, CanNavigateBack, CanNavigateForward, CanIncreaseDetail,
                      CanDecreaseDetail, CanTogglePause, IsAtRoot
  <2> QED
    BY <2>1, <2>3 DEF ButtonsInv
<1>2. HistoryInv /\ ButtonsInv => ButtonsAgree
  <2> SUFFICES ASSUME HistoryInv, ButtonsInv, pending = "none", ~ crashed
               PROVE  /\ enabledActions \ {"PAUSE"} = AvailableActions \ {"PAUSE"}
                      /\ enabledActions \intersect {"HOME", "NAVIGATE_UP"} # {} =>
                             currentPath \notin {None, Root}
                      /\ spaceChecked # showSpace => ~ scanner
    BY DEF ButtonsAgree
  <2>1. enabledActions \ {"PAUSE"} = AvailableActions \ {"PAUSE"}
    BY DEF ButtonsInv
  <2>2. ~ IsAtRoot => currentPath \notin {None, Root}
    BY ViewAssumption DEF IsAtRoot, HistoryInv, HistoryPoints
  <2>3. \A x \in {"HOME", "NAVIGATE_UP"} : x \in enabledActions => ~ IsAtRoot
    BY <2>1 DEF AvailableActions
  <2> QED
    BY <2>1, <2>2, <2>3 DEF ButtonsInv
<1> QED
  BY <1>1, <1>2, ButtonsStep, ViewAlways, PTL DEF Spec
=============================================================================
