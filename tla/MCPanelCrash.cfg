SPECIFICATION Spec
CONSTANTS
    t1 = t1
    t2 = t2
    Tenants <- TwoTenants
    NoTenant = NoTenant
    Profiles <- Users
    Memberships <- NoneOrManager
    Clicked <- FleetAndDlq
    MaxSent = 2
    MaxLoads = 2
CHECK_DEADLOCK FALSE
INVARIANTS
    CrashStaysInItsModule
