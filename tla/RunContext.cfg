SPECIFICATION FairSpec
CONSTANTS
    Nothing = nothing
    NoEntry = noentry
    Runs = {r1, r2}
    Envs = {e1, e2}
    Suites = {s1}
    Servers = {a, b}
    YamlServer = a
    MaxEdits = 1
INVARIANTS TypeOK TokensOfOwnServer
PROPERTIES RunsProceed
CHECK_DEADLOCK FALSE
