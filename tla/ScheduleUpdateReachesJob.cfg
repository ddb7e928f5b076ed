SPECIFICATION SchedulesSpec
CONSTANTS
    NoRow = norow
    NoJob = nojob
    Nothing = nothing
    Schedules = {s1}
    Clients = {c1, c2}
    Triggers = {daily, hourly}
    Valid = {daily, hourly}
INVARIANTS UpdateReachesJob
CHECK_DEADLOCK FALSE
