SPECIFICATION Spec
CONSTANTS
    w1 = w1
    m1 = m1
    r1 = r1
    p1 = p1
    None = None
    Workers = {w1}
    Modalities = {m1}
    Gates = {}
    Issuers = {}
    Requests = {r1}
    Patches = {p1}
    TTL = 1
    Overlap = 1
    MaxChanges = 0
    MaxClock = 0
CHECK_DEADLOCK FALSE
INVARIANTS
    ProviderEffective
