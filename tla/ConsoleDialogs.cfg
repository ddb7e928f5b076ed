CONSTANTS
    MaxRows = 2
    MaxWrites = 2
    CaseIds = {"case"}
    Calls = {k1, k2}
    MaxEvents = 1
SPECIFICATION Spec
SYMMETRY MCSymmetry
INVARIANTS TypeOK OwnWritesShown SelectedEnvIsListed
CHECK_DEADLOCK FALSE
