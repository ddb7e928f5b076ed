CONSTANTS
    MaxCases = 2
    MaxWrites = 2
    MaxVisits = 2
    Submissions = {s1, s2}
    Discovered = 2
    MaxEvents = 1
SPECIFICATION FormSpec
SYMMETRY MCSymmetry
INVARIANTS FormTypeOK CopiesHaveAReason
PROPERTIES SavedIsFiled
CHECK_DEADLOCK FALSE
