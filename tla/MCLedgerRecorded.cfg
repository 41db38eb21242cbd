SPECIFICATION LedgerSpec
CONSTANTS
    d1 = d1
    t1 = t1
    r1 = r1
    r2 = r2
    r3 = r3
    Discs <- MCDiscs
    Tenants <- MCTenants
    tenantOf <- MCTenantOf
    Writers <- MCTwoRequests
    Requests <- MCTwoRequests
    ExpectedSequences = {}
    IngestedSeverities = {"high"}
    ruleLists <- MCRuleLists
    MaxAge = 1
    NoOne = NoOne
    NoValue = NoValue
    NoSeverity = NoSeverity
INVARIANTS
    EveryChangeRecorded
