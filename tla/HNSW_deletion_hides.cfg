SPECIFICATION QSpec
CONSTANTS
    Workload <- Chain3
    MaxParallel = 1
    MayOverlap = {}
    DeleteLabels = {10, 11, 12}
    Points <- Ruler
    Garbage = 0
    Dist <- L2
    MaxElements = 3
    UpdateLocks = 2
    M = 2
    EfConstruction = 3
    TopLevel = 0
    Queries = {0, 15}
    Ks = {2}
    Ef = 10
INVARIANTS
    OnlyMarkedHidden
