SPECIFICATION Spec
CONSTANTS
    t1 = t1
    t2 = t2
    Tenants <- TwoTenants
    NoTenant = NoTenant
    Profiles <- Users
    Memberships <- NoneOrManager
    Clicked <- FleetAndDlq
    MaxSent = 2
    MaxLoads = 2
SYMMETRY Symmetry
CHECK_DEADLOCK FALSE
INVARIANTS
    TypeOK
    RolesAreEarned
    RedirectsLand
    NavIsHonest
    RailIsWhole
PROPERTIES
    DeepLinkSurvives
