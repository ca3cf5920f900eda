SPECIFICATION QSpec
CONSTANTS
    Workload <- Inserts4
    MaxParallel = 4
    MayOverlap = {}
    DeleteLabels = {}
    Points <- Ruler
    Garbage = 0
    Dist <- L2
    MaxElements = 4
    UpdateLocks = 2
    M = 2
    EfConstruction = 3
    TopLevel = 1
    Queries = {0, 9}
    Ks = {2}
    Ef = 4
INVARIANTS
    SanityChecksHold
    GraphWellFormed
    NoDuplicateLink
    EntryPointOnTop
    NeighborsFinished
    NoWildRead
    InsertionsFound
    NoWaitCycle
PROPERTIES
    EntryOnlyRises
