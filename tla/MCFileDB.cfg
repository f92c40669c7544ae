CONSTANTS
    a = a
    f = f
    None = None
    Name <- MCName
    Path <- Nested
    Size = {0, 1}
    Kind <- MCKind
    Bit <- MCBit
    NameCrc <- MCCollision
SPECIFICATION Spec
INVARIANTS
    TypeOK
    ChildrenSorted
    MarksCounted
    MapMatchesTree
    CountsMatch
    NewPathsReported
    FoundOrMistaken
PROPERTIES
    ImplementsFileTree
