SPECIFICATION Spec
CONSTANTS
    o1 = o1
    o2 = o2
    p1 = p1
    Objects <- TwoObjects
    Paths <- OnePath
    Labels = {0}
    Vectors = {7}
    Capacities = {1, 2}
    MaxNumber = 2
INVARIANTS
    LoadedAnswers
CHECK_DEADLOCK FALSE
