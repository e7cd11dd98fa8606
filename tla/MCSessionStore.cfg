SPECIFICATION Spec
CONSTANTS
    w1 = w1
    w2 = w2
    a = a
    b = b
    garbled = garbled
    r1 = r1
    r2 = r2
    r3 = r3
    None = None
    Workers <- TwoWorkers
    Sids <- ThreeSids
    Corrupt <- OneCorrupt
    Requests <- ThreeRequests
    SessionTTL = 2
    LocalTTL = 1
    CacheMax = 1
    MaxFaults = 1
    MaxClock = 3
CHECK_DEADLOCK FALSE
SYMMETRY Symmetry3
INVARIANTS
    TypeOK
    RevokedWithinTTL
    NoSpurious401
PROPERTY ServedBeforeExpiry
