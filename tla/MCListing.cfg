SPECIFICATION ListingFairSpec
CONSTANTS
    Ids = {1, 2, 3, 4}
    MaxTime = 2
    MaxListed = 4
    RequestedLimits = {0, 1, 5}
    defaultLimit = 2
    maxLimit = 3
INVARIANTS
    ListingTypeOK
    WalkIsComplete
PROPERTIES
    WalkEnds
