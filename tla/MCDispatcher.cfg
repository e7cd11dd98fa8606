SPECIFICATION FairSpec
CONSTANTS
    c1 = c1
    c2 = c2
    c3 = c3
    pA = pA
    pB = pB
    None = None
    Providers <- TwoProviders
    Calls <- ThreeCalls
    ChainOf <- CrossedChains
    Threshold = 2
    Window = 1
    Cooldown = 1
    MaxInFlight = 2
    MaxClock = 2
CHECK_DEADLOCK FALSE
INVARIANTS
    TypeOK
    ChainInOrder
    PolicyEndAudited
    OpenNeedsStreak
    SkipOnlyDuringCooldown
PROPERTY DispatchEnds
