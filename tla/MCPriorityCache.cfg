CONSTANTS
    k1 = k1
    k2 = k2
    k3 = k3
    v1 = v1
    v2 = v2
    NoValue = NoValue
    Key <- MCKey
    Val = {v1, v2}
    Supply <- MCSupply
    SIZE_MAX = 3
    MaxAccess = 6
SPECIFICATION Spec
INVARIANTS
    TypeOK
    PointersLive
PROPERTY
    ImplementsLRU
