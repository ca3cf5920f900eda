SPECIFICATION Spec
CONSTANTS
    Workload <- Inserts6
    MaxParallel = 1
    MayOverlap = {}
    DeleteLabels = {10, 11, 12, 13}
    Points <- Ruler
    Garbage = 0
    Dist <- L2
    MaxElements = 6
    UpdateLocks = 2
    M = 2
    EfConstruction = 2
    TopLevel = 2
INVARIANTS
    NoUndefinedRead
