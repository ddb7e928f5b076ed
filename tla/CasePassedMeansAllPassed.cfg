SPECIFICATION Spec
CONSTANTS
    N = 2
    NoResult = none
INVARIANTS PassedMeansAllPassed
CHECK_DEADLOCK FALSE
