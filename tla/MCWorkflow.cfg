SPECIFICATION Spec
CONSTANTS
    d1 = d1
    t1 = t1
    t2 = t2
    r1 = r1
    r2 = r2
    r3 = r3
    r4 = r4
    Discs <- MCDiscs
    Tenants <- MCTenants
    tenantOf <- MCTenantOf
    Writers <- MCFourRequests
    Requests <- MCFourRequests
    ExpectedSequences = {}
    IngestedSeverities = {"low"}
    NoOne = NoOne
    NoValue = NoValue
SYMMETRY MCSymmetry
\* The service is idle once every request has been served.
CHECK_DEADLOCK FALSE
INVARIANTS
    TypeOK
    RowIsProjection
    TransitionsJustified
    EventsTraceable
    TenantIsolation
PROPERTIES
    ImplementsAuditTrail
