SPECIFICATION FairSpec
CONSTANTS
    N = 2
    NoResult = none
INVARIANTS TypeOK HooksPair VerdictIsEarned TeardownOnlyAfterTheRest ValuesComeFromJudgedCases
PROPERTIES ListEnds
CHECK_DEADLOCK FALSE
