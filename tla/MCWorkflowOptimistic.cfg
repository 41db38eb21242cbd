SPECIFICATION Spec
CONSTANTS
    d1 = d1
    t1 = t1
    t2 = t2
    r1 = r1
    r2 = r2
    r3 = r3
    r4 = r4
    Discs <- MCDiscs
    Tenants <- MCOneTenant
    tenantOf <- MCTenantOf
    Writers <- MCTwoRequests
    Requests <- MCTwoRequests
    ExpectedSequences <- MCExpectedSequences
    IngestedSeverities = {"low"}
    NoOne = NoOne
    NoValue = NoValue
CHECK_DEADLOCK FALSE
INVARIANTS
    OneWinnerPerSequence
