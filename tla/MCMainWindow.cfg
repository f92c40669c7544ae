CONSTANTS
    a = a
    b = b
    None = None
    Path <- MCPath
    MIN_DEPTH = 1
    MAX_DEPTH = 2
    StartDepth = 1
    MaxHistory = 3
SPECIFICATION Spec
VIEW AllButMode
INVARIANTS
    HistoryPoints
    ScreenCurrent
    HoverIsShown
    ButtonsAgree
    LimitNotLost
