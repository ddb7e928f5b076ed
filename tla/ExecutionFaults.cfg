SPECIFICATION FairSpec
CONSTANTS
    Execs = {e1}
    Workers = {w1, w2}
    Local = local
    Free = free
    Cases = 2
    MaxFaults = 2
INVARIANTS TypeOK ReportMatchesRows StatusMatchesReport
PROPERTIES ImplementsContract Settles
CHECK_DEADLOCK FALSE
