CONSTANTS
    MaxCases = 2
    PageSize = 2
    MaxDeletes = 1
    Found = {1}
    MaxEvents = 1
SPECIFICATION Spec
PROPERTIES AnsweredIsDeleted
CHECK_DEADLOCK FALSE
