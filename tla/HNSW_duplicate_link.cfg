SPECIFICATION Spec
CONSTANTS
    Workload <- Between
    MaxParallel = 2
    MayOverlap = {}
    DeleteLabels = {}
    Points <- Triangle
    Garbage <- Origin
    Dist <- L2Plane
    MaxElements = 5
    UpdateLocks = 4
    M = 2
    EfConstruction = 3
    TopLevel = 0
INVARIANTS
    NoDuplicateLink
