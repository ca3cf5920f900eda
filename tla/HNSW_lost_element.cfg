SPECIFICATION Spec
CONSTANTS
    Workload <- Around6
    MaxParallel = 1
    MayOverlap = {}
    DeleteLabels = {}
    Points <- Star
    Garbage <- Origin
    Dist <- L2Plane
    MaxElements = 6
    UpdateLocks = 2
    M = 2
    EfConstruction = 6
    TopLevel = 0
INVARIANTS
    NobodyLost
