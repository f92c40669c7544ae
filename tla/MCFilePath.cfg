CONSTANTS
    a = a
    b = b
    Slash = Slash
    Inverted = Inverted
    NoPath = NoPath
    Letter = {a, b}
    Name <- MCName
    RootStr <- MCRootStr
    PathStr <- MCPathStr
    MaxRootLen = 2
    MaxPathLen = 3
    Bits = {0, 1}
    Crc <- MCCrc
    MaxParts = 3
SPECIFICATION Spec
INVARIANTS
    CrcsAgree
    CompareExact
    RoundTrip
