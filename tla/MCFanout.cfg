SPECIFICATION Spec
CONSTANTS
    s1 = s1
    s2 = s2
    s3 = s3
    tA = tA
    tB = tB
    None = None
    Sockets <- TwoSockets
    Tenants <- OneTenant
    TenantOf <- SameTenant
    QueueMax = 2
    MaxEvents = 4
    MaxSetupFaults = 1
    MaxLost = 0
    MaxCleanupFaults = 0
CHECK_DEADLOCK FALSE
INVARIANTS
    TypeOK
    InOrderOnce
    NothingMissed
    GapOnlyWhenFull
