SPECIFICATION Spec
CONSTANTS
    Workload <- SameLabel3
    MaxParallel = 2
    MayOverlap = {3, 4}
    DeleteLabels = {}
    Points <- Ruler
    Garbage = 0
    Dist <- L2
    MaxElements = 3
    UpdateLocks = 2
    M = 2
    EfConstruction = 3
    TopLevel = 0
INVARIANTS
    NoRelock
