SPECIFICATION Spec
CONSTANTS
    p1 = p1
    p2 = p2
    Null = Null
    Ids <- TwoIds
    PoolSizes = {56, 64}
    Requests = {40, 64, 100}
    MP_ALIGNMENT = 32
    MP_MAX_ALLOC_FROM_POOL = 4095
    PoolHdr = 24
    NodeHdr = 32
    LargeHdr = 16
    MaxNodes = 9
CHECK_DEADLOCK FALSE
SYMMETRY Sym2
INVARIANTS
    Disjoint
    LargeExact
    ScanBounded
    SkipsTiredOnly
