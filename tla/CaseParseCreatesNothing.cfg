CONSTANTS
    MaxCases = 2
    MaxWrites = 2
    MaxVisits = 1
    Submissions = {s1, s2}
    Discovered = 2
    MaxEvents = 1
SPECIFICATION FormSpec
SYMMETRY MCSymmetry
PROPERTIES ParseCreatesNothing
CHECK_DEADLOCK FALSE
