CONSTANTS
    a = a
    b = b
    NoPath = NoPath
    Name <- MCName
    Dirs <- Branch
    Excluded <- MCExcluded
    HasWatcher = TRUE
    WatchLimit = 2
    MaxChanges = 2
    MaxOps = 2
SPECIFICATION Spec
INVARIANTS
    TypeOK
    MutexHeld
    OrderHonoured
    Coverage
    QueueUnique
    SettledMatchesDisk
PROPERTIES
    NothingOwedLost
