CONSTANTS
    RootFile = {"f"}
    DirFile = {"p", "q"}
    Size = {0, 60, 800}
    Space = {100}
    Depth = {1, 2}
    Rect <- MCRect
    TitleHeight = 22
    MAX_CHILD_COUNT = 3
    MIN_CHILD_PIXEL_AREA = 50
SPECIFICATION Spec
INVARIANTS
    AreaDivided
    HoverFinds
    ClosestFound
    Proportional
