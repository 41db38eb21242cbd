SPECIFICATION RagFairSpec
CONSTANTS
    d1 = d1
    Discs = {d1}
    Lookback = 1
    MaxTime = 3
    MaxCrashes = 1
    NoTime = NoTime
INVARIANTS
    RagTypeOK
    OnlyExcusedIsLost
PROPERTIES
    ClosedIsFed
