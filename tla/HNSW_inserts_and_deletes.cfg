SPECIFICATION PSpec
CONSTANTS
    Workload <- Around5
    MaxParallel = 1
    MayOverlap = {}
    DeleteLabels = {10, 11, 12, 13}
    Points <- Plane
    Garbage <- Origin
    Dist <- L2Plane
    MaxElements = 5
    UpdateLocks = 2
    M = 2
    EfConstruction = 2
    TopLevel = 2
    Queries <- TwoQueries
    Ks = {1, 2}
    Ef = 2
INVARIANTS
    LinksUnlessCutOff
    NothingDeletedAnswered
    NeverEmptyHanded
PROPERTIES
    OnlyWholeFilesLoad
    LoadedAsSaved
