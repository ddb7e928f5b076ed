SPECIFICATION Spec
CONSTANTS
    MaxUsers = 3
    PageSize = 2
    Requests = {c1, c2}
    MaxCalls = 2
    MaxFetches = 1
    MaxEvents = 1
SYMMETRY MCSymmetry
INVARIANT LastAdminStays
CHECK_DEADLOCK FALSE
