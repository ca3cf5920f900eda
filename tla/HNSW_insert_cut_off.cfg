SPECIFICATION Spec
CONSTANTS
    Workload <- Around7
    MaxParallel = 1
    MayOverlap = {}
    DeleteLabels = {11, 12, 13, 14, 15}
    Points <- Star
    Garbage <- Origin
    Dist <- L2Plane
    MaxElements = 7
    UpdateLocks = 2
    M = 2
    EfConstruction = 2
    TopLevel = 1
INVARIANTS
    LinksUnlessCutOff
