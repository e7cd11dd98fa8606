SPECIFICATION FairSpec
CONSTANTS
    s1 = s1
    s2 = s2
    s3 = s3
    tA = tA
    tB = tB
    None = None
    Sockets <- TwoSockets
    Tenants <- TwoTenants
    TenantOf <- OwnTenants
    QueueMax = 1
    MaxEvents = 0
    MaxSetupFaults = 2
    MaxLost = 0
    MaxCleanupFaults = 0
CHECK_DEADLOCK FALSE
PROPERTY ClosedWhenLast
