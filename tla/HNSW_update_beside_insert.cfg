SPECIFICATION FairSpec
CONSTANTS
    Workload <- GrowingList
    MaxParallel = 2
    MayOverlap = {5}
    DeleteLabels = {}
    Points <- Ruler
    Garbage = 0
    Dist <- L2
    MaxElements = 5
    UpdateLocks = 2
    M = 2
    EfConstruction = 3
    TopLevel = 1
INVARIANTS
    AloneWithElement
PROPERTIES
    ReturnUnlessCaught
CHECK_DEADLOCK FALSE
