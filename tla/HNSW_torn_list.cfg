SPECIFICATION Spec
CONSTANTS
    Workload <- GrowingList
    MaxParallel = 2
    MayOverlap = {}
    DeleteLabels = {}
    Points <- Ruler
    Garbage = 0
    Dist <- L2
    MaxElements = 5
    UpdateLocks = 4
    M = 2
    EfConstruction = 3
    TopLevel = 0
INVARIANTS
    NoRelock
