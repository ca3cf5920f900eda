SPECIFICATION Spec
CONSTANTS
    o1 = o1
    o2 = o2
    p1 = p1
    Objects <- TwoObjects
    Paths <- OnePath
    Labels = {1}
    Vectors = {7}
    Capacities = {1, 2}
    MaxNumber = 1
SYMMETRY ObjectSymmetry
INVARIANTS
    TypeOK
    FlagsAgree
    CapacityRespected
PROPERTIES
    ChecksProtect
    ClearedForGood
    IdsEnterWithItems
    SynchronizedSurvives
CHECK_DEADLOCK FALSE
