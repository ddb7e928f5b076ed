------------------------------ MODULE ScheduleSync -----------------------------
(***************************************************************************)
(* The rows of the table schedules and the jobs of APScheduler, which are  *)
(* two copies of the same fact: the handlers of /schedules commit the row  *)
(* and then change the job (a deletion does it the other way round), the   *)
(* start of the API process adds the jobs of all enabled rows, and a firing*)
(* job reads the row again.  Jobs survive a restart (SQLAlchemyJobStore).  *)
(*                                                                         *)
(* One API process, as docker-compose.yml starts it.  Handlers interleave  *)
(* at their awaits; adding and removing a job contains none.               *)
(***************************************************************************)
EXTENDS FiniteSets

CONSTANTS
    Schedules,  \* schedule ids (UUIDs: never used twice)
    Clients,    \* requests that may be in progress together
    Triggers,   \* what trigger_type, cron_expression, interval_seconds amount to
    Valid,      \* those that CronTrigger.from_crontab or IntervalTrigger accept
    NoRow, NoJob, Nothing

Row == [enabled: BOOLEAN, trigger: Triggers]

ASSUME ValidAssumption == Valid \subseteq Triggers
ASSUME NoRowAssumption == NoRow \notin Row
ASSUME NoJobAssumption == NoJob \notin Triggers
ASSUME NothingAssumption == Nothing \notin Schedules

VARIABLES
    row,        \* committed rows of schedules
    unused,     \* ids that no row has had yet
    job,        \* the job store: the trigger of the job of each schedule
    mode,       \* the API process and its scheduler
    stage, target, \* of each request: its step and the schedule it is about
    model,      \* of each request: its copy of the row
    fire,       \* the callback of the job (max_instances is 1)
    \* history
    late,       \* requests overtaken by another change between their halves
    doubt,      \* schedules whose job may differ from what the row asks for
    turnedOff   \* disabled or deleted while their callback runs

requestVars == <<stage, target, model>>
schedulesVars == <<row, unused, job, mode, requestVars, fire, late, doubt, turnedOff>>

SchedulesTypeOK ==
    /\ row \in [Schedules -> Row \cup {NoRow}]
    /\ unused \subseteq Schedules
    /\ job \in [Schedules -> Valid \cup {NoJob}]
    /\ mode \in {"down", "running", "broken"}
    /\ stage \in [Clients -> {"idle", "add", "update", "sync", "delete", "run"}]
    /\ target \in [Clients -> Schedules \cup {Nothing}]
    /\ model \in [Clients -> Row \cup {NoRow}]
    /\ fire \in [Schedules -> {"idle", "read", "sending"}]
    /\ late \subseteq Clients
    /\ doubt \subseteq Schedules
    /\ turnedOff \subseteq Schedules

SchedulesInit ==
    /\ row = [s \in Schedules |-> NoRow]
    /\ unused = Schedules
    /\ job = [s \in Schedules |-> NoJob]
    /\ mode = "down"
    /\ stage = [c \in Clients |-> "idle"]
    /\ target = [c \in Clients |-> Nothing]
    /\ model = [c \in Clients |-> NoRow]
    /\ fire = [s \in Schedules |-> "idle"]
    /\ late = {}
    /\ doubt = {}
    /\ turnedOff = {}

\* Slip: add_schedule takes any trigger.
WantedUnchecked(r) == IF r # NoRow /\ r.enabled THEN r.trigger ELSE NoJob

\* The job that a row asks for: add_schedule raises ValueError for a trigger
\* that is no good, and the caller logs it and goes on.
Wanted(r) == IF r # NoRow /\ r.enabled /\ r.trigger \in Valid THEN r.trigger ELSE NoJob

Enabled(s) == row[s] # NoRow /\ row[s].enabled
Halves == {"add", "sync", "delete"}
Halfway(c, s) == target[c] = s /\ stage[c] \in Halves
Quiet(s) == \A c \in Clients : ~Halfway(c, s)

Become(c, step, s, m) ==
    /\ stage' = [stage EXCEPT ![c] = step]
    /\ target' = [target EXCEPT ![c] = s]
    /\ model' = [model EXCEPT ![c] = m]
Return(c) == Become(c, "idle", Nothing, NoRow)

\* Request c changes the row or the job of s: every other request that is
\* between its two halves has been overtaken.
Overtakes(c, s) == late' = (late \cup {d \in Clients : Halfway(d, s)}) \ {c}

RowBecomes(s, r) ==
    /\ row' = [row EXCEPT ![s] = r]
    /\ turnedOff' = IF fire[s] # "idle" /\ (r = NoRow \/ ~r.enabled)
                    THEN turnedOff \cup {s} ELSE turnedOff

-------------------------------------------------------------------------------
(***************************************************************************)
(* The handlers of /schedules.                                             *)
(***************************************************************************)

\* POST /schedules up to its commit.
CreateCommit(c, s) ==
    /\ mode # "down" /\ stage[c] = "idle" /\ s \in unused
    /\ \E r \in Row : RowBecomes(s, r) /\ Become(c, "add", s, r)
    /\ unused' = unused \ {s}
    /\ UNCHANGED <<job, mode, fire, late, doubt>>

UpdateLoad(c, s) ==
    /\ mode # "down" /\ stage[c] = "idle" /\ row[s] # NoRow
    /\ Become(c, "update", s, row[s])
    /\ UNCHANGED <<row, unused, job, mode, fire, late, doubt, turnedOff>>

\* flush writes the columns whose value differs from the loaded one and locks
\* the row until the commit, refresh reads the whole row again.
UpdateCommit(c) ==
    /\ stage[c] = "update" /\ row[target[c]] # NoRow
    /\ \E body \in Row :
        LET s == target[c]
            Written(f) == IF body[f] = model[c][f] THEN row[s][f] ELSE body[f]
            new == [f \in DOMAIN body |-> Written(f)]
        IN  /\ RowBecomes(s, new)
            /\ Become(c, "sync", s, new)
            /\ Overtakes(c, s)
    /\ UNCHANGED <<unused, job, mode, fire, doubt>>

\* Slip: an update adds the job without removing the old one first.
SyncOnlyAdds(c) ==
    /\ stage[c] \in {"add", "sync"}
    /\ LET s == target[c]
           wanted == Wanted(model[c])
       IN
        /\ job' = IF mode = "running" /\ wanted # NoJob
                  THEN [job EXCEPT ![s] = wanted] ELSE job
        /\ doubt' = IF mode = "running" /\ c \notin late THEN doubt \ {s}
                    ELSE doubt \cup {s}
        /\ Overtakes(c, s)
    /\ Return(c)
    /\ UNCHANGED <<row, unused, mode, fire, turnedOff>>

\* After the commit. A creation calls add_schedule if its copy of the row is
\* enabled, an update calls remove_schedule before that. A scheduler whose start
\* has failed only remembers the job in its memory.
Sync(c) ==
    /\ stage[c] \in {"add", "sync"}
    /\ LET s == target[c]
           kept == IF stage[c] = "add" THEN job[s] ELSE NoJob
           wanted == Wanted(model[c])
       IN
        /\ job' = IF mode = "running"
                  THEN [job EXCEPT ![s] = IF wanted = NoJob THEN kept ELSE wanted]
                  ELSE job
        /\ doubt' = IF mode = "running" /\ c \notin late THEN doubt \ {s}
                    ELSE doubt \cup {s}
        /\ Overtakes(c, s)
    /\ Return(c)
    /\ UNCHANGED <<row, unused, mode, fire, turnedOff>>

\* The job store raises what the handlers do not catch, before or after the old job is
\* removed: the request fails, and the row stays committed.
SyncRaises(c) ==
    /\ stage[c] \in {"add", "sync"} /\ mode = "running"
    /\ \/ UNCHANGED job
       \/ stage[c] = "sync" /\ job' = [job EXCEPT ![target[c]] = NoJob]
    /\ doubt' = doubt \cup {target[c]}
    /\ Overtakes(c, target[c])
    /\ Return(c)
    /\ UNCHANGED <<row, unused, mode, fire, turnedOff>>

\* DELETE removes the job before it looks at the row.
DeleteJob(c, s) ==
    /\ mode # "down" /\ stage[c] = "idle"
    /\ job' = IF mode = "running" THEN [job EXCEPT ![s] = NoJob] ELSE job
    /\ Become(c, "delete", s, NoRow)
    /\ Overtakes(c, s)
    /\ UNCHANGED <<row, unused, mode, fire, doubt, turnedOff>>

DeleteCommit(c) ==
    /\ stage[c] = "delete" /\ row[target[c]] # NoRow
    /\ LET s == target[c] IN
        /\ RowBecomes(s, NoRow)
        /\ doubt' = IF mode = "running" /\ c \notin late THEN doubt \ {s}
                    ELSE doubt \cup {s}
        /\ Overtakes(c, s)
    /\ Return(c)
    /\ UNCHANGED <<unused, job, mode, fire>>

\* 404, 403 of check_project_access, or the database fails. A deletion has
\* taken the job away by then, an update has changed nothing.
Refused(c) ==
    /\ stage[c] \in {"update", "delete", "run"}
    /\ doubt' = IF stage[c] = "delete" THEN doubt \cup {target[c]} ELSE doubt
    /\ late' = late \ {c}
    /\ Return(c)
    /\ UNCHANGED <<row, unused, job, mode, fire, turnedOff>>

\* POST /schedules/{id}/run: the execution is committed together with
\* last_run_at of a row that must still exist.
RunLoad(c, s) ==
    /\ mode # "down" /\ stage[c] = "idle" /\ Enabled(s)
    /\ Become(c, "run", s, row[s])
    /\ UNCHANGED <<row, unused, job, mode, fire, late, doubt, turnedOff>>

RunCommit(c) ==
    /\ stage[c] = "run" /\ row[target[c]] # NoRow
    /\ Return(c)
    /\ UNCHANGED <<row, unused, job, mode, fire, late, doubt, turnedOff>>

\* The suite of the schedule is deleted: ON DELETE CASCADE takes the row, no
\* one tells the scheduler.
SuiteDeleted(s) ==
    /\ mode # "down" /\ row[s] # NoRow
    /\ RowBecomes(s, NoRow)
    /\ late' = late \cup {d \in Clients : Halfway(d, s)}
    /\ doubt' = doubt \cup {s}
    /\ UNCHANGED <<unused, job, mode, requestVars, fire>>

-------------------------------------------------------------------------------
(***************************************************************************)
(* fire_schedule, up to the dispatch of the execution it creates (that is  *)
(* ExecutionLifecycle!FireInsert and what follows it).                     *)
(***************************************************************************)

\* Slip: the callback trusts the job store and only looks for the row.
FireReadAny(s) ==
    /\ mode = "running" /\ job[s] # NoJob /\ fire[s] = "idle"
    /\ row[s] # NoRow
    /\ fire' = [fire EXCEPT ![s] = "read"]
    /\ UNCHANGED <<row, unused, job, mode, requestVars, late, doubt, turnedOff>>

\* A job without its row, or whose row is disabled, is skipped. An enabled row
\* whose suite is gone or empty only raises an alert.
FireRead(s) ==
    /\ mode = "running" /\ job[s] # NoJob /\ fire[s] = "idle"
    /\ Enabled(s)
    /\ fire' = [fire EXCEPT ![s] = "read"]
    /\ UNCHANGED <<row, unused, job, mode, requestVars, late, doubt, turnedOff>>

\* The execution is inserted and last_run_at updated in one transaction.
FireCommit(s) ==
    /\ fire[s] = "read" /\ row[s] # NoRow
    /\ fire' = [fire EXCEPT ![s] = "sending"]
    /\ UNCHANGED <<row, unused, job, mode, requestVars, late, doubt, turnedOff>>

\* The callback returns: dispatched, marked as failed, or without execution
\* because the row is gone (no row matches the update) or something raised.
FireEnds(s) ==
    /\ fire[s] # "idle"
    /\ fire' = [fire EXCEPT ![s] = "idle"]
    /\ turnedOff' = turnedOff \ {s}
    /\ UNCHANGED <<row, unused, job, mode, requestVars, late, doubt>>

-------------------------------------------------------------------------------
(***************************************************************************)
(* The process.                                                            *)
(***************************************************************************)

\* TestScheduler.start: add_schedule for every enabled row, then the start of
\* APScheduler. Jobs of other schedules stay in the store. main.py catches a
\* start that raises, at any point, and serves requests all the same.
Start ==
    /\ mode = "down"
    /\ \E m \in {"running", "broken"}, added \in SUBSET {s \in Schedules : Wanted(row[s]) # NoJob} :
        /\ m = "running" => \A s \in Schedules : Wanted(row[s]) # NoJob => s \in added
        /\ mode' = m
        /\ job' = [s \in Schedules |-> IF s \in added THEN Wanted(row[s]) ELSE job[s]]
        /\ doubt' = doubt \ added
    /\ UNCHANGED <<row, unused, requestVars, fire, late, turnedOff>>

\* A stop or a crash: requests and callbacks end where they are.
Stop ==
    /\ mode # "down"
    /\ mode' = "down"
    /\ doubt' = doubt \cup {s \in Schedules : ~Quiet(s)}
    /\ stage' = [c \in Clients |-> "idle"]
    /\ target' = [c \in Clients |-> Nothing]
    /\ model' = [c \in Clients |-> NoRow]
    /\ fire' = [s \in Schedules |-> "idle"]
    /\ late' = {} /\ turnedOff' = {}
    /\ UNCHANGED <<row, unused, job>>

SchedulesNext ==
    \/ \E c \in Clients, s \in Schedules :
        CreateCommit(c, s) \/ UpdateLoad(c, s) \/ DeleteJob(c, s) \/ RunLoad(c, s)
    \/ \E c \in Clients :
        \/ UpdateCommit(c) \/ Sync(c) \/ SyncRaises(c)
        \/ DeleteCommit(c) \/ Refused(c) \/ RunCommit(c)
    \/ \E s \in Schedules :
        SuiteDeleted(s) \/ FireRead(s) \/ FireCommit(s) \/ FireEnds(s)
    \/ Start \/ Stop

SchedulesSpec == SchedulesInit /\ [][SchedulesNext]_schedulesVars

-------------------------------------------------------------------------------
(***************************************************************************)
(* Properties.                                                             *)
(***************************************************************************)

\* While no request is between its two halves the job is the one the row asks
\* for, with its trigger, unless a known disturbance has come between: another
\* request overtook it, the job store raised, a deletion was refused, the process
\* ended between the halves, its scheduler never started, or a cascade removed
\* the row. The next
\* update that runs undisturbed, or the next start, removes the doubt.
JobFollowsRow ==
    \A s \in Schedules :
        Quiet(s) /\ s \notin doubt => job[s] = Wanted(row[s])

\* The same for the requests that are halfway: one that nobody has overtaken
\* still holds the row as it is committed, or has left no job behind.
HalfwayKnows ==
    \A c \in Clients : c \notin late =>
        /\ stage[c] \in {"add", "sync"} => model[c] = row[target[c]]
        /\ stage[c] = "add" => job[target[c]] = NoJob
        /\ stage[c] = "delete" /\ mode = "running" => job[target[c]] = NoJob

\* A request that is under way has its schedule and its copy of the row; none
\* outlives the process.
RequestsSound ==
    /\ \A c \in Clients : stage[c] # "idle" => target[c] \in Schedules
    /\ \A c \in Clients : stage[c] \in {"add", "sync", "update"} =>
          model[c] \in Row /\ target[c] \notin unused
    /\ late \subseteq {c \in Clients : stage[c] \in Halves}
    /\ mode = "down" => \A c \in Clients : stage[c] = "idle"

UnusedIsFresh == \A s \in unused : row[s] = NoRow /\ job[s] = NoJob

\* A callback that goes on has read an enabled row.
ReadWasEnabled == \A s \in Schedules : fire[s] = "read" => Enabled(s) \/ s \in turnedOff

\* The inductive invariant behind JobFollowsRow and OnlyLiveSchedulesFire.
SchedulesIInv ==
    /\ SchedulesTypeOK
    /\ JobFollowsRow
    /\ HalfwayKnows
    /\ RequestsSound
    /\ UnusedIsFresh
    /\ ReadWasEnabled

\* Whatever is left in the job store, a schedule that is gone starts nothing,
\* and one that is disabled only what was under way when it was disabled.
OnlyLiveSchedulesFire ==
    [][\A s \in Schedules :
          fire[s] # "sending" /\ fire'[s] = "sending" =>
              row[s] # NoRow /\ (row[s].enabled \/ s \in turnedOff)]_schedulesVars

(***************************************************************************)
(* A statement of the documentation that the code does not keep.           *)
(***************************************************************************)

\* routers/schedules.py:238: the job is updated together with the row. It would
\* hold once every request has returned, in a process that never restarted.
UpdateReachesJob ==
    (mode = "running" /\ \A c \in Clients : stage[c] = "idle") =>
        \A s \in Schedules : row[s] # NoRow /\ job[s] # NoJob => job[s] = Wanted(row[s])
===============================================================================
