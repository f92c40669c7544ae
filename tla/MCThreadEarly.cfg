CONSTANTS
    r = r
    d = d
    e = e
    a = a
    b = b
    Dir <- MCDir
    Root = r
    Path <- MCPath
    Nowhere = Nowhere
    MaxWatches = 2
    MaxQueued = 3
    MaxChanges = 1
SPECIFICATION Spec
INVARIANTS
    ThreadMeetsWholeObject
