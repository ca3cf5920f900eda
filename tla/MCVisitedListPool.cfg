SPECIFICATION Spec
CONSTANTS
    t1 = t1
    t2 = t2
    t3 = t3
    e0 = e0
    e1 = e1
    Threads <- MCThreads
    Elements <- MCElements
    MaxV = 2
    InitMaxPools = 1
INVARIANTS
    TypeOK
    OneListOnePlace
    PoolBounded
    NoCellAhead
PROPERTIES
    ImplementsVisitedSets
