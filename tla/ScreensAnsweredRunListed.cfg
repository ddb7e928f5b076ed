CONSTANTS
    MaxRuns = 2
    PageSize = 1
    Envs = {"dev"}
    HomeEnv = "dev"
    Outcomes = {"FAILED"}
    Tabs = {"RUNNING"}
    MaxVisits = 1
    MaxEvents = 1
SPECIFICATION Spec
PROPERTIES AnsweredRunListed
CHECK_DEADLOCK FALSE
