SPECIFICATION Spec
CONSTANTS
    Workload <- Updated2
    MaxParallel = 1
    MayOverlap = {}
    DeleteLabels = {10}
    Points <- Ruler
    Garbage = 0
    Dist <- L2
    MaxElements = 3
    UpdateLocks = 2
    M = 2
    EfConstruction = 3
    TopLevel = 0
INVARIANTS
    NoSelfNeighbor
