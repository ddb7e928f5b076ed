CONSTANTS
    MaxCases = 3
    PageSize = 2
    MaxDeletes = 2
    Found = {1}
    MaxEvents = 2
SPECIFICATION Spec
INVARIANTS TypeOK SelectionIsShown GoneIsGone
CHECK_DEADLOCK FALSE
