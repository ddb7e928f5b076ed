SPECIFICATION Spec
CONSTANTS
    MaxUsers = 3
    PageSize = 2
    Requests = {c1, c2}
    MaxCalls = 2
    MaxFetches = 2
    MaxEvents = 2
SYMMETRY MCSymmetry
INVARIANT ActiveAdminStays
CHECK_DEADLOCK FALSE
