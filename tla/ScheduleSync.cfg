SPECIFICATION SchedulesSpec
CONSTANTS
    NoRow = norow
    NoJob = nojob
    Nothing = nothing
    Schedules = {s1}
    Clients = {c1, c2, c3}
    Triggers = {daily, hourly, bad}
    Valid = {daily, hourly}
SYMMETRY RequestSymmetry
INVARIANTS SchedulesTypeOK JobFollowsRow
PROPERTIES OnlyLiveSchedulesFire
CHECK_DEADLOCK FALSE
