SPECIFICATION AccessSpec
CONSTANTS
    a1 = a1
    t1 = t1
    r1 = r1
    r2 = r2
    Addrs = {a1}
    Tenants = {t1}
    Requests = {r1, r2}
    requestsPerMinute = 2
    Minute = 2
    cacheTTL = 2
    LookupTimeout = 1
    SelfRegistrationEnabled = TRUE
    MaxTime = 5
    NoRecord = NoRecord
    NoEntry = NoEntry
    NoTenant = NoTenant
SYMMETRY MCSymmetry
INVARIANTS
    AccessTypeOK
    BurstBounded
PROPERTIES
    RefusedAtLimit
    VerdictsAreRecent
