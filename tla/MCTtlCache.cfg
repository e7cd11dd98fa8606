SPECIFICATION Spec
CONSTANTS
    w1 = w1
    w2 = w2
    m1 = m1
    g1 = g1
    i1 = i1
    r1 = r1
    r2 = r2
    p1 = p1
    None = None
    Workers = {w1, w2}
    Modalities = {m1}
    Gates = {g1}
    Issuers = {i1}
    Requests = {r1, r2}
    Patches = {p1}
    TTL = 1
    Overlap = 0
    MaxChanges = 1
    MaxClock = 2
SYMMETRY Symmetry
CHECK_DEADLOCK FALSE
INVARIANTS
    PropagatesWithinTTL
    ValidKeyAccepted
