CONSTANTS
    MaxRuns = 2
    PageSize = 1
    Envs = {"dev", "prod"}
    HomeEnv = "dev"
    Outcomes = {"FAILED"}
    Tabs = {"RUNNING"}
    MaxVisits = 1
    MaxEvents = 1
SPECIFICATION Spec
INVARIANTS FilteredByEnv
CHECK_DEADLOCK FALSE
