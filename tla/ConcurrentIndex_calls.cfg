SPECIFICATION FairSpec
CONSTANTS
    t1 = t1
    t2 = t2
    t3 = t3
    Threads <- ThreeThreads
    Requests <- Calls
    Labels = {0, 1}
    Vectors = {7, 8, 9}
    MaxElements = 1
    MaxNumber = 0
INVARIANTS
    TypeOK
PROPERTIES
    ImplementsAtomicIndex
    EveryCallReturns
CHECK_DEADLOCK FALSE
