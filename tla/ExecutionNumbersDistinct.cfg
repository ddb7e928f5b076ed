SPECIFICATION Spec
CONSTANTS
    Execs = {e1, e2}
    Workers = {w1}
    Local = local
    Free = free
    Cases = 1
    MaxFaults = 0
INVARIANTS NumbersDistinct
CHECK_DEADLOCK FALSE
