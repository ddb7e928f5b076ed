SPECIFICATION Spec
CONSTANTS
    Execs = {e1}
    Workers = {w1}
    Local = local
    Free = free
    Cases = 1
    MaxFaults = 0
INVARIANTS FallBackOnlyWithoutTask
CHECK_DEADLOCK FALSE
