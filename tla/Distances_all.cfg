SPECIFICATION Spec
CONSTANTS
    MaxDim = 70
INVARIANTS
    SumsEachOnce
    NoReadPastEnd
