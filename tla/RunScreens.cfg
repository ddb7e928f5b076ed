CONSTANTS
    MaxRuns = 2
    PageSize = 1
    Envs = {"dev"}
    HomeEnv = "dev"
    Outcomes = {"FAILED"}
    Tabs = {"RUNNING"}
    MaxVisits = 1
    MaxEvents = 1
SPECIFICATION FairSpec
INVARIANTS TypeOK OwnRunListed
PROPERTIES ListCatchesUp
CHECK_DEADLOCK FALSE
