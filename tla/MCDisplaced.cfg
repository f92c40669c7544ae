CONSTANTS
    a = a
    b = b
    NoPath = NoPath
    Name <- MCName
    Dirs <- Branch
    Excluded <- NoneExcluded
    HasWatcher = TRUE
    WatchLimit = 4
    MaxChanges = 1
    MaxOps = 0
SPECIFICATION Spec
INVARIANTS
    FoundDirsScanned
