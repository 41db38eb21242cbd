SPECIFICATION NotifyFairSpec
CONSTANTS
    k1 = k1
    d1 = d1
    d2 = d2
    RuleIds = {k1}
    Discs = {d1, d2}
    maxRetries = 3
    MaxCrashes = 1
\* Nothing is left to do once every notification is settled.
CHECK_DEADLOCK FALSE
INVARIANTS
    NotifyTypeOK
    NotifiedOnce
    AttemptsBounded
    NoSharedRow
    
PROPERTIES
    SettledIsFinal
    SentIsAnswered
    RetriesSettle
