SPECIFICATION Spec
CONSTANTS
    f1 = f1
    f2 = f2
    i1 = i1
    i2 = i2
    m1 = m1
    m2 = m2
    Filters <- TwoFilters
    NoFilter = NoFilter
    Items <- TwoItems
    NoItem = NoItem
    Mods <- TwoModules
    NoMod = NoMod
    Fields <- TwoModules
    MaxReads = 3
    MaxDetails = 2
    MaxLeft = 1
    MaxRetries = 2
    MaxWrites = 2
    MaxDrawer = 3
    MaxTeam = 3
    MaxAccount = 3
CHECK_DEADLOCK FALSE
SYMMETRY SymmetryIM
INVARIANTS
    SpinnerHonest
    SettledIsSelected
    ContentIsRead
    NoDoubleSubmit
    ResultOfTheRow
    DrawerOfOneTenant
PROPERTIES
    AiFormKept
    ReadsImplementReader
