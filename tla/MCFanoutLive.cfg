SPECIFICATION FairSpec
CONSTANTS
    s1 = s1
    s2 = s2
    s3 = s3
    tA = tA
    tB = tB
    None = None
    Sockets <- ThreeSockets
    Tenants <- TwoTenants
    TenantOf <- MixedTenants
    QueueMax = 1
    MaxEvents = 0
    MaxSetupFaults = 1
    MaxLost = 1
    MaxCleanupFaults = 1
CHECK_DEADLOCK FALSE
INVARIANTS
    CurrentTaskAlive
    OneListener
PROPERTY SubscribeReturns
