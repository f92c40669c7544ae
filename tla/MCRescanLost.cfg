CONSTANTS
    a = a
    b = b
    NoPath = NoPath
    Name <- MCName
    Dirs <- Branch
    Excluded <- NoneExcluded
    HasWatcher = FALSE
    WatchLimit = 4
    MaxChanges = 0
    MaxOps = 1
SPECIFICATION Spec
PROPERTIES
    RescanKept
