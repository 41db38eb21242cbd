SPECIFICATION IngestFairSpec
CONSTANTS
    d1 = d1
    d2 = d2
    t1 = t1
    m1 = m1
    m2 = m2
    m3 = m3
    Discs <- MCDiscs
    Tenants = {t1}
    tenantOf <- MCTenantOf
    IngestedSeverities = {"low", "high"}
    Writers = {}
    NoOne = NoOne
    Messages <- MCMessages
    discOf <- MCDiscOf
    severityOf <- MCSeverityOf
    WellFormed <- MCWellFormed
    MaxOverlap <- MCMaxOverlap
    MaxCrashes = 1
INVARIANTS
    IngestTypeOK
    AckedIsPersisted
    ReceivedOnce
PROPERTIES
    EveryMessageSettles
