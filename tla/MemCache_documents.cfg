SPECIFICATION Spec
CONSTANTS
    Url = {u1, u2}
    Copy = {c1, c2, c3}
    Stream = {w1, w2}
    Load = {r1, r2}
    None = None
    Lengths = {0, 2}
    Sizes = {0, 2}
    MaxSegments = 2
    MaxHolds = 1
    MaxReads = 2
    MaxLeaked = 1
SYMMETRY Symmetry
INVARIANTS
    CacheInv
    SizeExact
    ServedIsKept
PROPERTIES
    IsLending
    ThrowsOutOldest
