SPECIFICATION FairQSpec
CONSTANTS
    Workload <- Updates
    MaxParallel = 1
    MayOverlap = {}
    DeleteLabels = {}
    Points <- Ruler
    Garbage = 0
    Dist <- L2
    MaxElements = 5
    UpdateLocks = 2
    M = 2
    EfConstruction = 3
    TopLevel = 1
    Queries = {0, 9, 34}
    Ks = {2}
    Ef = 5
INVARIANTS
    QTypeOK
    SanityChecksHold
    GraphWellFormed
    NearestReached
PROPERTIES
    QueriesReturn
