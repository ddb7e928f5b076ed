-------------------------- MODULE ExecutionLifecycle --------------------------
(***************************************************************************)
(* The life of an execution record: created by POST /executions or by a    *)
(* schedule, dispatched to Celery or to a background task of the API       *)
(* process, run by the orchestrator in one database transaction, cancelled *)
(* through the API, and disturbed by crashes and repeated deliveries.      *)
(*                                                                         *)
(* The database is modelled at the grain of committed rows and row locks   *)
(* (the deployed PostgreSQL): what a session has flushed but not committed *)
(* is kept in the variables of the run and is visible to nobody else.      *)
(***************************************************************************)
EXTENDS ExecutionSummary

CONSTANTS
    Execs,      \* execution ids
    Workers,    \* Celery workers
    Local,      \* the background task of the API process
    Free,       \* nobody holds the row lock
    Cases,      \* number of case ids of an execution
    MaxFaults   \* bound on crashes and on repeated deliveries

ASSUME LocalAssumption == Local \notin Workers
ASSUME FreeAssumption == Free \notin Workers \cup {Local}
ASSUME CasesAssumption == Cases \in Nat \ {0}
ASSUME FaultsAssumption == MaxFaults \in Nat

Runners == Workers \cup {Local}

VARIABLES
    \* committed rows of the tables executions, execution_results and reports
    status,     \* executions.status, "absent" before the insert
    number,     \* executions.display_number, 0 before the insert
    hasTask,    \* executions.celery_task_id is set
    stored,     \* number of execution_results rows: all of them, and passed
    report,     \* the row of reports for the execution
    lock,       \* who holds the row lock on the executions row
    \* the request that creates the execution, and the cancel request
    req, seen, cancel,
    \* the broker
    queued,     \* messages ready for delivery
    revoked,    \* workers that have the task id in their revoked set
    \* the runs, one per execution and runner, and what the run that holds the
    \* row lock has counted and flushed
    pc, work,
    \* history
    faults, lost

rowVars == <<status, number, hasTask, stored, report>>
reqVars == <<req, seen>>
brokerVars == <<queued, revoked>>
runVars == <<pc, work>>
vars == <<status, number, hasTask, stored, report, lock, req, seen, cancel,
          queued, revoked, pc, work, faults, lost>>

Status == {"absent", "PENDING", "PASSED", "FAILED", "ERROR", "CANCELLED"}

NoReport == [kind |-> "none", tally |-> ZeroTally]
\* The report of the exception path: total 0, error 1.
ErrorReport == [kind |-> "exception", tally |-> [ZeroTally EXCEPT !.error = 1]]
SummaryReport(t) == [kind |-> "summary", tally |-> t]
Report == [kind: {"none", "exception", "summary"}, tally: Tally]

\* The results list of a run, and the result rows it has flushed so far.
Work == [tally: Tally, all: Nat, passed: Nat]
NoWork == [tally |-> ZeroTally, all |-> 0, passed |-> 0]

ReqPC == {"idle", "insert", "send", "record", "spawn", "fireSend", "fireRecord",
          "fireMark", "marked", "local", "fellBack", "done", "dead"}
CancelPC == {"idle", "revoke", "write"}
RunPC == {"idle", "build", "begin", "cases", "cleanup"}
Reason == {"no_runner", "cleanup_failed", "crash", "revoked", "mark_failed"}

TypeOK ==
    /\ status \in [Execs -> Status]
    /\ number \in [Execs -> Nat]
    /\ hasTask \in [Execs -> BOOLEAN]
    /\ stored \in [Execs -> [all: Nat, passed: Nat]]
    /\ report \in [Execs -> Report]
    /\ lock \in [Execs -> Runners \cup {Free}]
    /\ req \in [Execs -> ReqPC]
    /\ seen \in [Execs -> Nat]
    /\ cancel \in [Execs -> CancelPC]
    /\ queued \in [Execs -> Nat]
    /\ revoked \in [Execs -> SUBSET Workers]
    /\ pc \in [Execs -> [Runners -> RunPC]]
    /\ work \in [Execs -> Work]
    /\ faults \in 0..MaxFaults
    /\ lost \in [Execs -> SUBSET Reason]

Init ==
    /\ status = [e \in Execs |-> "absent"]
    /\ number = [e \in Execs |-> 0]
    /\ hasTask = [e \in Execs |-> FALSE]
    /\ stored = [e \in Execs |-> [all |-> 0, passed |-> 0]]
    /\ report = [e \in Execs |-> NoReport]
    /\ lock = [e \in Execs |-> Free]
    /\ req = [e \in Execs |-> "idle"]
    /\ seen = [e \in Execs |-> 0]
    /\ cancel = [e \in Execs |-> "idle"]
    /\ queued = [e \in Execs |-> 0]
    /\ revoked = [e \in Execs |-> {}]
    /\ pc = [e \in Execs |-> [r \in Runners |-> "idle"]]
    /\ work = [e \in Execs |-> NoWork]
    /\ faults = 0
    /\ lost = [e \in Execs |-> {}]

-------------------------------------------------------------------------------
(***************************************************************************)
(* POST /executions. The awaits of the handler cut it into steps; between  *)
(* two of them other requests, workers and crashes may act.                *)
(***************************************************************************)

\* select coalesce(max(display_number), 0): only committed rows are seen.
TriggerNumber(e) ==
    /\ req[e] = "idle"
    /\ \E x \in Execs :
        /\ \A y \in Execs : number[y] <= number[x]
        /\ seen' = [seen EXCEPT ![e] = number[x] + 1]
    /\ req' = [req EXCEPT ![e] = "insert"]
    /\ UNCHANGED <<rowVars, lock, cancel, brokerVars, runVars, faults, lost>>

\* session.add + commit, then the mode of the environment is read.
TriggerInsert(e) ==
    /\ req[e] = "insert"
    /\ status' = [status EXCEPT ![e] = "PENDING"]
    /\ number' = [number EXCEPT ![e] = seen[e]]
    /\ \E mode \in {"local", "distributed"} :
        req' = [req EXCEPT ![e] = IF mode = "local" THEN "local" ELSE "send"]
    /\ UNCHANGED <<hasTask, stored, report, lock, seen, cancel, brokerVars,
                   runVars, faults, lost>>

\* run_execution_task.delay() is accepted by the broker.
TriggerSend(e) ==
    /\ req[e] = "send"
    /\ queued' = [queued EXCEPT ![e] = @ + 1]
    /\ req' = [req EXCEPT ![e] = "record"]
    /\ UNCHANGED <<rowVars, lock, seen, cancel, revoked, runVars, faults, lost>>

\* Any exception in _dispatch_to_celery, in delay() or after it, makes the
\* caller fall back to the local mode.
TriggerFallBack(e) ==
    /\ req[e] \in {"send", "record"}
    /\ req' = [req EXCEPT ![e] = "spawn"]
    /\ UNCHANGED <<rowVars, lock, seen, cancel, brokerVars, runVars, faults, lost>>

\* celery_task_id is written and committed: the update waits for the row lock.
TriggerRecord(e) ==
    /\ req[e] = "record"
    /\ lock[e] = Free
    /\ hasTask' = [hasTask EXCEPT ![e] = TRUE]
    /\ req' = [req EXCEPT ![e] = "done"]
    /\ UNCHANGED <<status, number, stored, report, lock, seen, cancel,
                   brokerVars, runVars, faults, lost>>

\* asyncio.create_task(_execute_cases_in_background(...)).
TriggerSpawn(e) ==
    /\ req[e] \in {"local", "spawn"}
    /\ pc' = [pc EXCEPT ![e][Local] = "build"]
    /\ req' = [req EXCEPT ![e] = IF @ = "spawn" THEN "fellBack" ELSE "done"]
    /\ UNCHANGED <<rowVars, lock, seen, cancel, brokerVars, work,
                   faults, lost>>

-------------------------------------------------------------------------------
(***************************************************************************)
(* fire_schedule and POST /schedules/{id}/run: they always dispatch to     *)
(* Celery and mark the execution as failed when that goes wrong.           *)
(***************************************************************************)

\* The insert names no display_number: the column default 0 is used.
FireInsert(e) ==
    /\ req[e] = "idle"
    /\ status' = [status EXCEPT ![e] = "PENDING"]
    /\ req' = [req EXCEPT ![e] = "fireSend"]
    /\ UNCHANGED <<number, hasTask, stored, report, lock, seen, cancel,
                   brokerVars, runVars, faults, lost>>

FireSend(e) ==
    /\ req[e] = "fireSend"
    /\ queued' = [queued EXCEPT ![e] = @ + 1]
    /\ req' = [req EXCEPT ![e] = "fireRecord"]
    /\ UNCHANGED <<rowVars, lock, seen, cancel, revoked, runVars, faults, lost>>

FireRecord(e) ==
    /\ req[e] = "fireRecord"
    /\ lock[e] = Free
    /\ hasTask' = [hasTask EXCEPT ![e] = TRUE]
    /\ req' = [req EXCEPT ![e] = "done"]
    /\ UNCHANGED <<status, number, stored, report, lock, seen, cancel,
                   brokerVars, runVars, faults, lost>>

\* delay() or the commit after it raises: the handler goes on to its except.
FireFails(e) ==
    /\ req[e] \in {"fireSend", "fireRecord"}
    /\ req' = [req EXCEPT ![e] = "fireMark"]
    /\ UNCHANGED <<rowVars, lock, seen, cancel, brokerVars, runVars, faults, lost>>

\* exec_model.status = "ERROR" and commit, whatever the row holds by now.
FireMarkError(e) ==
    /\ req[e] = "fireMark"
    /\ lock[e] = Free
    /\ status' = [status EXCEPT ![e] = "ERROR"]
    /\ req' = [req EXCEPT ![e] = "marked"]
    /\ UNCHANGED <<number, hasTask, stored, report, lock, seen, cancel,
                   brokerVars, runVars, faults, lost>>

\* The commit of the mark raises too: only an alert or a 500 is left of it.
FireMarkFails(e) ==
    /\ req[e] = "fireMark"
    /\ req' = [req EXCEPT ![e] = "done"]
    /\ lost' = [lost EXCEPT ![e] = @ \cup {"mark_failed"}]
    /\ UNCHANGED <<rowVars, lock, seen, cancel, brokerVars, runVars, faults>>

-------------------------------------------------------------------------------
(***************************************************************************)
(* A run: a worker task or the background task of the API process.         *)
(***************************************************************************)

Active(e, r) == pc[e][r] # "idle"

\* The sessions of the runners R end: what they flushed is committed by the
\* action itself or lost, their row lock is free.
EndSessions(e, R) ==
    /\ lock' = [lock EXCEPT ![e] = IF @ \in R THEN Free ELSE @]
    /\ work' = [work EXCEPT ![e] = IF lock[e] \in R THEN NoWork ELSE @]

\* A message is delivered; a worker drops a task id of its revoked set.
WorkerReceive(e, w) ==
    /\ queued[e] > 0
    /\ pc[e][w] = "idle"
    /\ queued' = [queued EXCEPT ![e] = @ - 1]
    /\ pc' = [pc EXCEPT ![e][w] = IF w \in revoked[e] THEN "idle" ELSE "build"]
    /\ UNCHANGED <<rowVars, lock, reqVars, cancel, revoked, work,
                   faults, lost>>

BuildRunner(e, r) ==
    /\ pc[e][r] = "build"
    /\ pc' = [pc EXCEPT ![e][r] = "begin"]
    /\ UNCHANGED <<rowVars, lock, reqVars, cancel, brokerVars, work, faults, lost>>

\* Slip: the local path returns like the worker, but nobody notes it.
BuildFailsSilently(e, r) ==
    /\ pc[e][r] = "build"
    /\ pc' = [pc EXCEPT ![e][r] = "idle"]
    /\ UNCHANGED <<rowVars, lock, reqVars, cancel, brokerVars, work, faults, lost>>

\* create_runner raises. The local path already has a session and goes on to
\* the error report; the worker has none, returns and acknowledges the task.
BuildFails(e, r) ==
    /\ pc[e][r] = "build"
    /\ IF r = Local
       THEN /\ pc' = [pc EXCEPT ![e][r] = "cleanup"]
            /\ UNCHANGED lost
       ELSE /\ pc' = [pc EXCEPT ![e][r] = "idle"]
            /\ lost' = [lost EXCEPT ![e] = @ \cup {"no_runner"}]
    /\ UNCHANGED <<rowVars, lock, reqVars, cancel, brokerVars, work, faults>>

\* Slip: RUNNING is not flushed first, so no row lock is taken or waited for.
BeginUnlocked(e, r) ==
    /\ pc[e][r] = "begin"
    /\ lock' = [lock EXCEPT ![e] = r]
    /\ pc' = [pc EXCEPT ![e][r] = "cases"]
    /\ UNCHANGED <<rowVars, reqVars, cancel, brokerVars, work, faults, lost>>

\* status = RUNNING is flushed: the row is locked, the change not committed.
Begin(e, r) ==
    /\ pc[e][r] = "begin"
    /\ lock[e] = Free
    /\ lock' = [lock EXCEPT ![e] = r]
    /\ pc' = [pc EXCEPT ![e][r] = "cases"]
    /\ UNCHANGED <<rowVars, reqVars, cancel, brokerVars, work, faults, lost>>

\* One pass of the loop over case_ids. A case that is unknown or has a bad id
\* counts as ERROR and leaves no row; every other one leaves a row.
RunCase(e, r) ==
    /\ pc[e][r] = "cases"
    /\ work[e].tally.total < Cases
    /\ \E s \in CaseStatus, found \in BOOLEAN :
        /\ ~found => s = "ERROR"
        /\ work' = [work EXCEPT ![e] =
                      [tally |-> Count(@.tally, s),
                       all |-> IF found THEN @.all + 1 ELSE @.all,
                       passed |-> IF s = "PASS" THEN @.passed + 1 ELSE @.passed]]
    /\ UNCHANGED <<rowVars, lock, reqVars, cancel, brokerVars, pc, faults, lost>>

\* The run raises (a parse error that is no YAMLError, the database, ...) and
\* rolls back.
RunFails(e, r) ==
    /\ pc[e][r] \in {"begin", "cases"}
    /\ EndSessions(e, {r})
    /\ pc' = [pc EXCEPT ![e][r] = "cleanup"]
    /\ UNCHANGED <<rowVars, reqVars, cancel, brokerVars, faults, lost>>

\* Slip: reports.execution_id without its unique constraint.
FinishAgain(e, r) ==
    /\ pc[e][r] = "cases"
    /\ work[e].tally.total = Cases
    /\ EndSessions(e, {r})
    /\ status' = [status EXCEPT ![e] = StatusFromSummary(work[e].tally)]
    /\ report' = [report EXCEPT ![e] = SummaryReport(work[e].tally)]
    /\ stored' = [stored EXCEPT ![e] = [all |-> @.all + work[e].all,
                                       passed |-> @.passed + work[e].passed]]
    /\ pc' = [pc EXCEPT ![e][r] = "idle"]
    /\ UNCHANGED <<number, hasTask, reqVars, cancel, brokerVars, faults, lost>>

\* Final status, results and report are committed together. The unique
\* constraint of reports.execution_id refuses a second report: the commit
\* raises and nothing of this run stays.
Finish(e, r) ==
    /\ pc[e][r] = "cases"
    /\ work[e].tally.total = Cases
    /\ EndSessions(e, {r})
    /\ \/ /\ report[e] = NoReport
          /\ status' = [status EXCEPT ![e] = StatusFromSummary(work[e].tally)]
          /\ report' = [report EXCEPT ![e] = SummaryReport(work[e].tally)]
          /\ stored' = [stored EXCEPT ![e] =
                          [all |-> @.all + work[e].all,
                           passed |-> @.passed + work[e].passed]]
          /\ pc' = [pc EXCEPT ![e][r] = "idle"]
       \/ /\ report[e] # NoReport
          /\ pc' = [pc EXCEPT ![e][r] = "cleanup"]
          /\ UNCHANGED <<status, report, stored>>
    /\ UNCHANGED <<number, hasTask, reqVars, cancel, brokerVars, faults, lost>>

\* Slips: the status is committed before the report is tried, or the error
\* report replaces the one that exists.
CleanupMarksFirst(e, r) ==
    /\ pc[e][r] = "cleanup"
    /\ lock[e] = Free
    /\ status' = [status EXCEPT ![e] = "ERROR"]
    /\ report' = IF report[e] = NoReport
                 THEN [report EXCEPT ![e] = ErrorReport] ELSE report
    /\ pc' = [pc EXCEPT ![e][r] = "idle"]
    /\ UNCHANGED <<number, hasTask, stored, lock, reqVars, cancel, brokerVars,
                   work, faults, lost>>

CleanupReplaces(e, r) ==
    /\ pc[e][r] = "cleanup"
    /\ lock[e] = Free
    /\ status' = [status EXCEPT ![e] = "ERROR"]
    /\ report' = [report EXCEPT ![e] = ErrorReport]
    /\ pc' = [pc EXCEPT ![e][r] = "idle"]
    /\ UNCHANGED <<number, hasTask, stored, lock, reqVars, cancel, brokerVars,
                   work, faults, lost>>

\* The except block: status ERROR and an error report in one commit, which a
\* report that already exists turns into a swallowed IntegrityError.
Cleanup(e, r) ==
    /\ pc[e][r] = "cleanup"
    /\ lock[e] = Free
    /\ IF report[e] = NoReport
       THEN /\ status' = [status EXCEPT ![e] = "ERROR"]
            /\ report' = [report EXCEPT ![e] = ErrorReport]
       ELSE UNCHANGED <<status, report>>
    /\ pc' = [pc EXCEPT ![e][r] = "idle"]
    /\ UNCHANGED <<number, hasTask, stored, lock, reqVars, cancel, brokerVars,
                   work, faults, lost>>

\* The except block raises itself: logged and forgotten.
CleanupFails(e, r) ==
    /\ pc[e][r] = "cleanup"
    /\ pc' = [pc EXCEPT ![e][r] = "idle"]
    /\ lost' = [lost EXCEPT ![e] = @ \cup {"cleanup_failed"}]
    /\ UNCHANGED <<rowVars, lock, reqVars, cancel, brokerVars, work, faults>>

-------------------------------------------------------------------------------
(***************************************************************************)
(* POST /executions/{id}/cancel.                                           *)
(***************************************************************************)

\* The committed row is read: the task id must be set, the status PENDING or
\* RUNNING (which no commit ever writes).
CancelCheck(e) ==
    /\ cancel[e] = "idle"
    /\ hasTask[e]
    /\ status[e] = "PENDING"
    /\ cancel' = [cancel EXCEPT ![e] = "revoke"]
    /\ UNCHANGED <<rowVars, lock, reqVars, brokerVars, runVars, faults, lost>>

\* control.revoke(terminate=True) is a broadcast: the workers that hear it
\* remember the id and kill a running task, which is acknowledged.
CancelRevoke(e) ==
    /\ cancel[e] = "revoke"
    /\ \E heard \in SUBSET Workers :
        /\ revoked' = [revoked EXCEPT ![e] = @ \cup heard]
        /\ pc' = [pc EXCEPT ![e] =
                    [r \in Runners |-> IF r \in heard THEN "idle" ELSE @[r]]]
        /\ EndSessions(e, heard)
    /\ cancel' = [cancel EXCEPT ![e] = "write"]
    /\ UNCHANGED <<rowVars, reqVars, queued, faults, lost>>

\* status = CANCELLED waits for the row lock and is not checked again.
CancelWrite(e) ==
    /\ cancel[e] = "write"
    /\ lock[e] = Free
    /\ status' = [status EXCEPT ![e] = "CANCELLED"]
    /\ cancel' = [cancel EXCEPT ![e] = "idle"]
    /\ UNCHANGED <<number, hasTask, stored, report, lock, reqVars, brokerVars,
                   runVars, faults, lost>>

\* An exception in revoke or in the update: rollback and 500. Once the revoke
\* has been sent it stays sent.
CancelFails(e) ==
    /\ cancel[e] \in {"revoke", "write"}
    /\ lost' = IF cancel[e] = "write"
               THEN [lost EXCEPT ![e] = @ \cup {"revoked"}] ELSE lost
    /\ cancel' = [cancel EXCEPT ![e] = "idle"]
    /\ UNCHANGED <<rowVars, lock, reqVars, brokerVars, runVars, faults>>

-------------------------------------------------------------------------------
(***************************************************************************)
(* Faults. task_acks_late and task_reject_on_worker_lost: a message is     *)
(* acknowledged when the task returns and goes back to the queue when its  *)
(* worker dies; the broker may also deliver an unacknowledged one again.   *)
(***************************************************************************)

EndAllSessions(r) ==
    /\ lock' = [e \in Execs |-> IF lock[e] = r THEN Free ELSE lock[e]]
    /\ work' = [e \in Execs |-> IF lock[e] = r THEN NoWork ELSE work[e]]

WorkerCrash(w) ==
    /\ faults < MaxFaults
    /\ faults' = faults + 1
    /\ queued' = [e \in Execs |-> IF Active(e, w) THEN queued[e] + 1 ELSE queued[e]]
    /\ revoked' = [e \in Execs |-> revoked[e] \ {w}]
    /\ pc' = [e \in Execs |-> [pc[e] EXCEPT ![w] = "idle"]]
    /\ EndAllSessions(w)
    /\ UNCHANGED <<rowVars, reqVars, cancel, lost>>

Redeliver(e) ==
    /\ faults < MaxFaults
    /\ \E w \in Workers : Active(e, w)
    /\ faults' = faults + 1
    /\ queued' = [queued EXCEPT ![e] = @ + 1]
    /\ UNCHANGED <<rowVars, lock, reqVars, cancel, revoked, runVars, lost>>

\* The API process dies with its requests, schedule callbacks and background
\* tasks. Nothing looks for their executions after the restart.
InFlight(e) ==
    \/ req[e] \notin {"idle", "done", "fellBack", "marked", "dead"}
    \/ cancel[e] = "write"
    \/ Active(e, Local)

ApiCrash ==
    /\ faults < MaxFaults
    /\ faults' = faults + 1
    /\ req' = [e \in Execs |->
                 IF req[e] \in {"idle", "done", "fellBack", "marked"}
                 THEN req[e] ELSE "dead"]
    /\ cancel' = [e \in Execs |-> "idle"]
    /\ pc' = [e \in Execs |-> [pc[e] EXCEPT ![Local] = "idle"]]
    /\ EndAllSessions(Local)
    /\ lost' = [e \in Execs |->
                  IF InFlight(e) THEN lost[e] \cup {"crash"} ELSE lost[e]]
    /\ UNCHANGED <<rowVars, seen, brokerVars>>

-------------------------------------------------------------------------------

RequestStep(e) ==
    \/ TriggerInsert(e) \/ TriggerSend(e) \/ TriggerFallBack(e)
    \/ TriggerRecord(e) \/ TriggerSpawn(e)
    \/ FireSend(e) \/ FireRecord(e) \/ FireFails(e)
    \/ FireMarkError(e) \/ FireMarkFails(e)

RunStep(e, r) ==
    \/ BuildRunner(e, r) \/ BuildFails(e, r) \/ Begin(e, r) \/ RunCase(e, r)
    \/ RunFails(e, r) \/ Finish(e, r) \/ Cleanup(e, r) \/ CleanupFails(e, r)

CancelStep(e) == CancelRevoke(e) \/ CancelWrite(e) \/ CancelFails(e)

Receive(e) == \E w \in Workers : WorkerReceive(e, w)

Next ==
    \/ \E e \in Execs : TriggerNumber(e) \/ FireInsert(e) \/ RequestStep(e)
    \/ \E e \in Execs : CancelCheck(e) \/ CancelStep(e)
    \/ \E e \in Execs : Receive(e) \/ Redeliver(e)
    \/ \E e \in Execs, r \in Runners : RunStep(e, r)
    \/ \E w \in Workers : WorkerCrash(w)
    \/ ApiCrash

Spec == Init /\ [][Next]_vars

\* The event loop runs a request and a background task until it returns, a
\* worker takes what the broker offers, every case ends within its timeout.
Fairness ==
    /\ \A e \in Execs :
        /\ WF_vars(RequestStep(e))
        /\ WF_vars(CancelStep(e))
        /\ WF_vars(Receive(e))
    /\ \A e \in Execs, r \in Runners : WF_vars(RunStep(e, r))

FairSpec == Spec /\ Fairness

-------------------------------------------------------------------------------
(***************************************************************************)
(* Properties.                                                             *)
(***************************************************************************)

\* At most one run is between its first flush and its commit, and it is the
\* one that holds the row lock: two runs of the same execution (a redelivered
\* message, a fallback beside an accepted task) never interleave their writes.
OneRunAtATime ==
    \A e \in Execs, r \in Runners : lock[e] = r <=> pc[e][r] = "cases"

\* The rows of execution_results are those of the one run whose summary is the
\* report: no report or an error report means no rows, a summary counts every
\* case and exactly the rows that passed, and only ERROR entries have no row.
RowsMatchReport(s, rep) ==
    IF rep.kind = "summary"
    THEN /\ rep.tally.total = Cases
         /\ s.passed = rep.tally.passed
         /\ s.all <= Cases
         /\ Cases - s.all <= rep.tally.error
    ELSE s.all = 0 /\ s.passed = 0

ReportMatchesRows == \A e \in Execs : RowsMatchReport(stored[e], report[e])

\* The status column and the report agree, except that a late cancellation or
\* the failure mark of a schedule may have replaced the status; and a verdict
\* without a report is only ever such a mark.
StatusMatchesReport ==
    \A e \in Execs :
        /\ report[e] # NoReport =>
              \/ status[e] = StatusFromSummary(report[e].tally)
              \/ status[e] = "CANCELLED" /\ hasTask[e]
              \/ status[e] = "ERROR" /\ req[e] = "marked"
        /\ report[e] = NoReport =>
              \/ status[e] \in {"absent", "PENDING"}
              \/ status[e] = "CANCELLED" /\ hasTask[e]
              \/ status[e] = "ERROR" /\ req[e] = "marked"

\* The same relation for the work in progress: what the holder of the row lock
\* has flushed is what it has counted, and nobody else has flushed anything.
FlushedMatchesCounted(w) ==
    /\ w.passed = w.tally.passed
    /\ w.all <= w.tally.total
    /\ w.tally.total <= w.all + w.tally.error
    /\ w.tally.total <= Cases

WorkMatchesRows ==
    \A e \in Execs :
        /\ FlushedMatchesCounted(work[e])
        /\ lock[e] = Free => work[e] = NoWork

\* Before its insert is committed an execution has no message, run, task id or
\* report; the background task is spawned by the last step of its request; a
\* cancel request that passed its checks has seen the task id.
Created ==
    \A e \in Execs :
        /\ req[e] \in {"idle", "insert"} => status[e] = "absent"
        /\ req[e] \notin {"idle", "insert", "dead"} => status[e] # "absent"
        /\ status[e] = "absent" =>
              /\ ~hasTask[e] /\ queued[e] = 0 /\ report[e] = NoReport
              /\ \A r \in Runners : pc[e][r] = "idle"
        /\ req[e] \notin {"done", "fellBack"} => pc[e][Local] = "idle"
        /\ cancel[e] # "idle" => hasTask[e]

\* The inductive invariant behind the three invariants above.
IInv ==
    /\ TypeOK
    /\ OneRunAtATime
    /\ WorkMatchesRows
    /\ Created
    /\ ReportMatchesRows
    /\ StatusMatchesReport

\* A published report and its result rows are never replaced or added to.
PublishedOnce ==
    [][\A e \in Execs : report[e] # NoReport =>
          report'[e] = report[e] /\ stored'[e] = stored[e]]_vars

\* The contract the clients see is implemented.
Verdict(rep) == IF rep.kind = "none" THEN "none" ELSE StatusFromSummary(rep.tally)

Contract == INSTANCE ExecutionContract
                WITH status <- status, verdict <- [e \in Execs |-> Verdict(report[e])]

ImplementsContract == Contract!ContractSpec

\* An execution leaves PENDING, or it met one of the failures that nobody
\* retries: a worker that could not build its runner, an except block that
\* failed, a crash of the API process, a revoke whose update failed, a
\* schedule that could not even mark its failure.
Settles ==
    \A e \in Execs :
        status[e] = "PENDING" ~> (status[e] # "PENDING" \/ lost[e] # {})

(***************************************************************************)
(* Statements of the documentation that the code does not keep.            *)
(***************************************************************************)

\* executions.py:617 answers that the execution has been cancelled.
CancelledStays ==
    [][\A e \in Execs : status[e] = "CANCELLED" => status'[e] = "CANCELLED"]_vars

\* executions.py:304: the local fallback is taken when Celery is unavailable,
\* so no task of the execution is with a worker then.
FallBackOnlyWithoutTask ==
    \A e \in Execs, w \in Workers :
        req[e] = "fellBack" => queued[e] = 0 /\ pc[e][w] = "idle"

\* models/execution.py:96 calls display numbers self-incrementing: two triggered
\* executions have different ones.
NumbersDistinct ==
    \A d, e \in Execs : number[d] = number[e] /\ number[d] # 0 => d = e

\* executions.py:501: the status is updated even when create_runner fails.
NoRunnerLeavesNoPending ==
    \A e \in Execs : "no_runner" \in lost[e] /\ queued[e] = 0
        /\ (\A r \in Runners : pc[e][r] = "idle")
        => status[e] # "PENDING"
===============================================================================
