---------------------- MODULE ScheduledExecutionsProofs ----------------------
(***************************************************************************)
(* Proofs about the runs of the backend and the schedules that start them: *)
(* ExecutionLifecycle, for every set of executions and of workers, every   *)
(* number of cases and every number of faults, and ScheduleSync.           *)
(***************************************************************************)
EXTENDS ExecutionLifecycle, ScheduleSync, TLAPS

\* The status inferred from a summary is one of the three verdicts.
LEMMA StatusIsOutcome ==
    ASSUME NEW t \in Tally
    PROVE  StatusFromSummary(t) \in Outcome
BY DEF StatusFromSummary, Outcome

\* Counting one more result keeps the counters natural numbers.
LEMMA CountIsTally ==
    ASSUME NEW t \in Tally, NEW s \in CaseStatus
    PROVE  Count(t, s) \in Tally
BY DEF Count, Tally

\* The empty work of a run, and the two reports written without a summary.
LEMMA NoWorkIsWork == NoWork \in Work
BY DEF NoWork, Work, ZeroTally, Tally

LEMMA NoReportIsReport == NoReport \in Report
BY DEF NoReport, Report, ZeroTally, Tally

LEMMA ErrorReportIsReport == ErrorReport \in Report
BY DEF ErrorReport, Report, ZeroTally, Tally

\* The typing of every variable is preserved by every step.
LEMMA TypeStep == TypeOK /\ [Next]_vars => TypeOK'
<1>. SUFFICES ASSUME TypeOK, [Next]_vars PROVE TypeOK'
  OBVIOUS
<1>. USE DEF TypeOK, rowVars, reqVars, brokerVars, runVars
<1>1. ASSUME NEW e \in Execs, TriggerNumber(e) PROVE TypeOK'
  <2>1. seen' \in [Execs -> Nat]
    BY <1>1 DEF TriggerNumber
  <2>2. req' \in [Execs -> ReqPC]
    BY <1>1 DEF TriggerNumber, ReqPC
  <2>. QED
    BY <1>1, <2>1, <2>2 DEF TriggerNumber
<1>2. ASSUME NEW e \in Execs, FireInsert(e) PROVE TypeOK'
  <2>1. status' \in [Execs -> Status]
    BY <1>2 DEF FireInsert, Status
  <2>2. req' \in [Execs -> ReqPC]
    BY <1>2 DEF FireInsert, ReqPC
  <2>. QED
    BY <1>2, <2>1, <2>2 DEF FireInsert
<1>3. ASSUME NEW e \in Execs, TriggerInsert(e) PROVE TypeOK'
  <2>1. status' \in [Execs -> Status]
    BY <1>3 DEF TriggerInsert, Status
  <2>2. number' \in [Execs -> Nat]
    BY <1>3 DEF TriggerInsert
  <2>3. req' \in [Execs -> ReqPC]
    BY <1>3 DEF TriggerInsert, ReqPC
  <2>. QED
    BY <1>3, <2>1, <2>2, <2>3 DEF TriggerInsert
<1>4. ASSUME NEW e \in Execs, TriggerSend(e) PROVE TypeOK'
  <2>1. queued' \in [Execs -> Nat]
    BY <1>4 DEF TriggerSend
  <2>2. req' \in [Execs -> ReqPC]
    BY <1>4 DEF TriggerSend, ReqPC
  <2>. QED
    BY <1>4, <2>1, <2>2 DEF TriggerSend
<1>5. ASSUME NEW e \in Execs, TriggerFallBack(e) PROVE TypeOK'
  <2>1. req' \in [Execs -> ReqPC]
    BY <1>5 DEF TriggerFallBack, ReqPC
  <2>. QED
    BY <1>5, <2>1 DEF TriggerFallBack
<1>6. ASSUME NEW e \in Execs, TriggerRecord(e) PROVE TypeOK'
  <2>1. hasTask' \in [Execs -> BOOLEAN]
    BY <1>6 DEF TriggerRecord
  <2>2. req' \in [Execs -> ReqPC]
    BY <1>6 DEF TriggerRecord, ReqPC
  <2>. QED
    BY <1>6, <2>1, <2>2 DEF TriggerRecord
<1>7. ASSUME NEW e \in Execs, TriggerSpawn(e) PROVE TypeOK'
  <2>1. pc' \in [Execs -> [Runners -> RunPC]]
    BY <1>7 DEF TriggerSpawn, Runners, RunPC
  <2>2. req' \in [Execs -> ReqPC]
    BY <1>7 DEF TriggerSpawn, ReqPC
  <2>. QED
    BY <1>7, <2>1, <2>2 DEF TriggerSpawn
<1>8. ASSUME NEW e \in Execs, FireSend(e) PROVE TypeOK'
  <2>1. queued' \in [Execs -> Nat]
    BY <1>8 DEF FireSend
  <2>2. req' \in [Execs -> ReqPC]
    BY <1>8 DEF FireSend, ReqPC
  <2>. QED
    BY <1>8, <2>1, <2>2 DEF FireSend
<1>9. ASSUME NEW e \in Execs, FireRecord(e) PROVE TypeOK'
  <2>1. hasTask' \in [Execs -> BOOLEAN]
    BY <1>9 DEF FireRecord
  <2>2. req' \in [Execs -> ReqPC]
    BY <1>9 DEF FireRecord, ReqPC
  <2>. QED
    BY <1>9, <2>1, <2>2 DEF FireRecord
<1>10. ASSUME NEW e \in Execs, FireFails(e) PROVE TypeOK'
  <2>1. req' \in [Execs -> ReqPC]
    BY <1>10 DEF FireFails, ReqPC
  <2>. QED
    BY <1>10, <2>1 DEF FireFails
<1>11. ASSUME NEW e \in Execs, FireMarkError(e) PROVE TypeOK'
  <2>1. status' \in [Execs -> Status]
    BY <1>11 DEF FireMarkError, Status
  <2>2. req' \in [Execs -> ReqPC]
    BY <1>11 DEF FireMarkError, ReqPC
  <2>. QED
    BY <1>11, <2>1, <2>2 DEF FireMarkError
<1>12. ASSUME NEW e \in Execs, FireMarkFails(e) PROVE TypeOK'
  <2>1. req' \in [Execs -> ReqPC]
    BY <1>12 DEF FireMarkFails, ReqPC
  <2>2. lost' \in [Execs -> SUBSET Reason]
    BY <1>12 DEF FireMarkFails, Reason
  <2>. QED
    BY <1>12, <2>1, <2>2 DEF FireMarkFails
<1>13. ASSUME NEW e \in Execs, CancelCheck(e) PROVE TypeOK'
  <2>1. cancel' \in [Execs -> CancelPC]
    BY <1>13 DEF CancelCheck, CancelPC
  <2>. QED
    BY <1>13, <2>1 DEF CancelCheck
<1>14. ASSUME NEW e \in Execs, CancelRevoke(e) PROVE TypeOK'
  <2>1. revoked' \in [Execs -> SUBSET Workers]
    BY <1>14 DEF CancelRevoke
  <2>2. pc' \in [Execs -> [Runners -> RunPC]]
    BY <1>14 DEF CancelRevoke, Runners, RunPC
  <2>3. lock' \in [Execs -> Runners \cup {Free}]
    BY <1>14 DEF CancelRevoke, EndSessions, Runners
  <2>4. work' \in [Execs -> Work]
    BY <1>14, NoWorkIsWork DEF CancelRevoke, EndSessions
  <2>5. cancel' \in [Execs -> CancelPC]
    BY <1>14 DEF CancelRevoke, CancelPC
  <2>. QED
    BY <1>14, <2>1, <2>2, <2>3, <2>4, <2>5 DEF CancelRevoke
<1>15. ASSUME NEW e \in Execs, CancelWrite(e) PROVE TypeOK'
  <2>1. status' \in [Execs -> Status]
    BY <1>15 DEF CancelWrite, Status
  <2>2. cancel' \in [Execs -> CancelPC]
    BY <1>15 DEF CancelWrite, CancelPC
  <2>. QED
    BY <1>15, <2>1, <2>2 DEF CancelWrite
<1>16. ASSUME NEW e \in Execs, CancelFails(e) PROVE TypeOK'
  <2>1. cancel' \in [Execs -> CancelPC]
    BY <1>16 DEF CancelFails, CancelPC
  <2>2. lost' \in [Execs -> SUBSET Reason]
    BY <1>16 DEF CancelFails, Reason
  <2>. QED
    BY <1>16, <2>1, <2>2 DEF CancelFails
<1>17. ASSUME NEW e \in Execs, Redeliver(e) PROVE TypeOK'
  <2>1. faults' \in 0..MaxFaults
    BY <1>17, FaultsAssumption DEF Redeliver
  <2>2. queued' \in [Execs -> Nat]
    BY <1>17 DEF Redeliver
  <2>. QED
    BY <1>17, <2>1, <2>2 DEF Redeliver
<1>18. ASSUME NEW e \in Execs, NEW w \in Workers, WorkerReceive(e, w) PROVE TypeOK'
  <2>1. queued' \in [Execs -> Nat]
    BY <1>18 DEF WorkerReceive
  <2>2. pc' \in [Execs -> [Runners -> RunPC]]
    BY <1>18 DEF WorkerReceive, Runners, RunPC
  <2>. QED
    BY <1>18, <2>1, <2>2 DEF WorkerReceive
<1>19. ASSUME NEW e \in Execs, NEW r \in Runners, BuildRunner(e, r) PROVE TypeOK'
  <2>1. pc' \in [Execs -> [Runners -> RunPC]]
    BY <1>19 DEF BuildRunner, RunPC
  <2>. QED
    BY <1>19, <2>1 DEF BuildRunner
<1>20. ASSUME NEW e \in Execs, NEW r \in Runners, BuildFails(e, r) PROVE TypeOK'
  <2>1. pc' \in [Execs -> [Runners -> RunPC]]
    <3>1. PICK q \in {"idle", "cleanup"} : pc' = [pc EXCEPT ![e][r] = q]
      BY <1>20 DEF BuildFails
    <3>. QED
      BY <3>1 DEF RunPC
  <2>2. lost' \in [Execs -> SUBSET Reason]
    <3>1. lost' = lost \/ lost' = [lost EXCEPT ![e] = @ \cup {"no_runner"}]
      BY <1>20 DEF BuildFails
    <3>. QED
      BY SMTT(30), <3>1 DEF Reason
  <2>. QED
    BY <1>20, <2>1, <2>2 DEF BuildFails
<1>21. ASSUME NEW e \in Execs, NEW r \in Runners, Begin(e, r) PROVE TypeOK'
  <2>1. lock' \in [Execs -> Runners \cup {Free}]
    BY <1>21 DEF Begin
  <2>2. pc' \in [Execs -> [Runners -> RunPC]]
    BY <1>21 DEF Begin, RunPC
  <2>. QED
    BY <1>21, <2>1, <2>2 DEF Begin
<1>22. ASSUME NEW e \in Execs, NEW r \in Runners, RunCase(e, r) PROVE TypeOK'
  <2>1. work' \in [Execs -> Work]
    BY <1>22, CountIsTally DEF RunCase, Work
  <2>. QED
    BY <1>22, <2>1 DEF RunCase
<1>23. ASSUME NEW e \in Execs, NEW r \in Runners, RunFails(e, r) PROVE TypeOK'
  <2>1. lock' \in [Execs -> Runners \cup {Free}]
    BY <1>23 DEF RunFails, EndSessions
  <2>2. work' \in [Execs -> Work]
    BY <1>23, NoWorkIsWork DEF RunFails, EndSessions
  <2>3. pc' \in [Execs -> [Runners -> RunPC]]
    BY <1>23 DEF RunFails, RunPC
  <2>. QED
    BY <1>23, <2>1, <2>2, <2>3 DEF RunFails
<1>24. ASSUME NEW e \in Execs, NEW r \in Runners, Finish(e, r) PROVE TypeOK'
  <2>. /\ work[e].tally \in Tally /\ work[e].all \in Nat /\ work[e].passed \in Nat
       /\ stored[e].all \in Nat /\ stored[e].passed \in Nat
    BY DEF Work
  <2>1. status' \in [Execs -> Status]
    BY <1>24, StatusIsOutcome DEF Finish, Outcome, Status, Work
  <2>2. report' \in [Execs -> Report]
    <3>1. report' = report \/ report' = [report EXCEPT ![e] = SummaryReport(work[e].tally)]
      BY <1>24 DEF Finish
    <3>2. SummaryReport(work[e].tally) \in Report
      BY DEF Report, SummaryReport
    <3>. QED
      BY <3>1, <3>2
  <2>3. stored' \in [Execs -> [all: Nat, passed: Nat]]
    <3>. DEFINE sum == [all |-> stored[e].all + work[e].all,
                       passed |-> stored[e].passed + work[e].passed]
    <3>1. stored' = stored \/ stored' = [stored EXCEPT ![e] = sum]
      BY <1>24 DEF Finish
    <3>2. sum \in [all: Nat, passed: Nat]
      OBVIOUS
    <3>. HIDE DEF sum
    <3>. QED
      BY <3>1, <3>2
  <2>4. lock' \in [Execs -> Runners \cup {Free}]
    BY <1>24 DEF Finish, EndSessions
  <2>5. work' \in [Execs -> Work]
    BY <1>24, NoWorkIsWork DEF Finish, EndSessions
  <2>6. pc' \in [Execs -> [Runners -> RunPC]]
    <3>1. PICK q \in {"idle", "cleanup"} : pc' = [pc EXCEPT ![e][r] = q]
      BY <1>24 DEF Finish
    <3>. QED
      BY <3>1 DEF RunPC
  <2>. QED
    BY <1>24, <2>1, <2>2, <2>3, <2>4, <2>5, <2>6 DEF Finish
<1>25. ASSUME NEW e \in Execs, NEW r \in Runners, Cleanup(e, r) PROVE TypeOK'
  <2>1. status' \in [Execs -> Status]
    BY <1>25 DEF Cleanup, Status
  <2>2. report' \in [Execs -> Report]
    BY <1>25, ErrorReportIsReport DEF Cleanup
  <2>3. pc' \in [Execs -> [Runners -> RunPC]]
    BY <1>25 DEF Cleanup, RunPC
  <2>. QED
    BY <1>25, <2>1, <2>2, <2>3 DEF Cleanup
<1>26. ASSUME NEW e \in Execs, NEW r \in Runners, CleanupFails(e, r) PROVE TypeOK'
  <2>1. pc' \in [Execs -> [Runners -> RunPC]]
    BY <1>26 DEF CleanupFails, RunPC
  <2>2. lost' \in [Execs -> SUBSET Reason]
    BY <1>26 DEF CleanupFails, Reason
  <2>. QED
    BY <1>26, <2>1, <2>2 DEF CleanupFails
<1>27. ASSUME NEW w \in Workers, WorkerCrash(w) PROVE TypeOK'
  <2>1. faults' \in 0..MaxFaults
    BY <1>27, FaultsAssumption DEF WorkerCrash
  <2>2. queued' \in [Execs -> Nat]
    BY <1>27 DEF WorkerCrash
  <2>3. revoked' \in [Execs -> SUBSET Workers]
    BY <1>27 DEF WorkerCrash
  <2>4. pc' \in [Execs -> [Runners -> RunPC]]
    BY <1>27 DEF WorkerCrash, Runners, RunPC
  <2>5. lock' \in [Execs -> Runners \cup {Free}]
    BY <1>27 DEF WorkerCrash, EndAllSessions, Runners
  <2>6. work' \in [Execs -> Work]
    BY <1>27, NoWorkIsWork DEF WorkerCrash, EndAllSessions
  <2>. QED
    BY <1>27, <2>1, <2>2, <2>3, <2>4, <2>5, <2>6 DEF WorkerCrash
<1>28. ASSUME ApiCrash PROVE TypeOK'
  <2>1. faults' \in 0..MaxFaults
    BY <1>28, FaultsAssumption DEF ApiCrash
  <2>2. req' \in [Execs -> ReqPC]
    BY <1>28 DEF ApiCrash, ReqPC
  <2>3. cancel' \in [Execs -> CancelPC]
    BY <1>28 DEF ApiCrash, CancelPC
  <2>4. pc' \in [Execs -> [Runners -> RunPC]]
    BY <1>28 DEF ApiCrash, Runners, RunPC
  <2>5. lost' \in [Execs -> SUBSET Reason]
    BY <1>28 DEF ApiCrash, Reason
  <2>6. lock' \in [Execs -> Runners \cup {Free}]
    BY <1>28 DEF ApiCrash, EndAllSessions, Runners
  <2>7. work' \in [Execs -> Work]
    BY <1>28, NoWorkIsWork DEF ApiCrash, EndAllSessions
  <2>. QED
    BY <1>28, <2>1, <2>2, <2>3, <2>4, <2>5, <2>6, <2>7 DEF ApiCrash
<1>29. CASE UNCHANGED vars
  BY <1>29 DEF vars
<1>. QED
  BY <1>1, <1>2, <1>3, <1>4, <1>5, <1>6, <1>7, <1>8, <1>9, <1>10, <1>11, <1>12, <1>13, <1>14, <1>15, <1>16, <1>17, <1>18, <1>19, <1>20, <1>21, <1>22, <1>23, <1>24, <1>25, <1>26, <1>27, <1>28, <1>29
     DEF Next, RequestStep, CancelStep, Receive, RunStep

\* One run at a time is preserved by every step.
LEMMA LockStep == TypeOK /\ OneRunAtATime /\ Created /\ TypeOK' /\ [Next]_vars => OneRunAtATime'
<1>. SUFFICES ASSUME TypeOK, OneRunAtATime, Created, TypeOK', [Next]_vars PROVE OneRunAtATime'
  OBVIOUS
<1>. USE DEF OneRunAtATime, rowVars, reqVars, brokerVars, runVars
<1>1. ASSUME NEW e \in Execs, TriggerSpawn(e) PROVE OneRunAtATime'
  <2>. SUFFICES ASSUME NEW x \in Execs, NEW q \in Runners
                PROVE  lock'[x] = q <=> pc'[x][q] = "cases"
    OBVIOUS
  <2>1. pc'[x][q] = IF x = e /\ q = Local THEN "build" ELSE pc[x][q]
    BY <1>1 DEF TypeOK, TriggerSpawn, Runners
  <2>2. lock' = lock /\ pc[e][Local] # "cases"
    BY <1>1 DEF TriggerSpawn, Created
  <2>. QED
    BY <2>1, <2>2
<1>2. ASSUME NEW e \in Execs, CancelRevoke(e) PROVE OneRunAtATime'
  <2>. SUFFICES ASSUME NEW x \in Execs, NEW q \in Runners
                PROVE  lock'[x] = q <=> pc'[x][q] = "cases"
    OBVIOUS
  <2>1. PICK heard \in SUBSET Workers :
          /\ pc' = [pc EXCEPT ![e] = [k \in Runners |-> IF k \in heard THEN "idle" ELSE @[k]]]
          /\ EndSessions(e, heard)
    BY <1>2 DEF CancelRevoke
  <2>2. pc'[x][q] = IF x = e /\ q \in heard THEN "idle" ELSE pc[x][q]
    BY <2>1 DEF TypeOK
  <2>3. lock'[x] = IF x = e /\ lock[x] \in heard THEN Free ELSE lock[x]
    BY <2>1 DEF TypeOK, EndSessions
  <2>. QED
    BY <2>1, <2>2, <2>3, FreeAssumption DEF Runners
<1>3. ASSUME NEW e \in Execs, NEW w \in Workers, WorkerReceive(e, w) PROVE OneRunAtATime'
  BY <1>3 DEF TypeOK, WorkerReceive
<1>4. ASSUME NEW e \in Execs, NEW r \in Runners, BuildRunner(e, r) PROVE OneRunAtATime'
  BY <1>4 DEF TypeOK, BuildRunner
<1>5. ASSUME NEW e \in Execs, NEW r \in Runners, BuildFails(e, r) PROVE OneRunAtATime'
  <2>. SUFFICES ASSUME NEW x \in Execs, NEW q \in Runners
                PROVE  lock'[x] = q <=> pc'[x][q] = "cases"
    OBVIOUS
  <2>1. lock' = lock /\ pc[e][r] # "cases"
    BY <1>5 DEF BuildFails
  <2>2. PICK s \in {"idle", "cleanup"} : pc' = [pc EXCEPT ![e][r] = s]
    BY <1>5 DEF BuildFails
  <2>3. pc'[x][q] = IF x = e /\ q = r THEN s ELSE pc[x][q]
    BY <2>2 DEF TypeOK
  <2>. QED
    BY <2>1, <2>2, <2>3
<1>6. ASSUME NEW e \in Execs, NEW r \in Runners, Begin(e, r) PROVE OneRunAtATime'
  <2>. SUFFICES ASSUME NEW x \in Execs, NEW q \in Runners
                PROVE  lock'[x] = q <=> pc'[x][q] = "cases"
    OBVIOUS
  <2>1. pc'[x][q] = IF x = e /\ q = r THEN "cases" ELSE pc[x][q]
    BY <1>6 DEF TypeOK, Begin
  <2>2. lock'[x] = (IF x = e THEN r ELSE lock[x]) /\ lock[e] \notin Runners
    BY <1>6, FreeAssumption DEF TypeOK, Begin, Runners
  <2>. QED
    BY <2>1, <2>2
<1>7. ASSUME NEW e \in Execs, NEW r \in Runners, RunFails(e, r) PROVE OneRunAtATime'
  <2>. SUFFICES ASSUME NEW x \in Execs, NEW q \in Runners
                PROVE  lock'[x] = q <=> pc'[x][q] = "cases"
    OBVIOUS
  <2>1. PICK s \in {"idle", "cleanup"} : pc' = [pc EXCEPT ![e][r] = s]
    BY <1>7 DEF RunFails
  <2>2. pc'[x][q] = IF x = e /\ q = r THEN s ELSE pc[x][q]
    BY <2>1 DEF TypeOK
  <2>3. lock'[x] = IF x = e /\ lock[x] = r THEN Free ELSE lock[x]
    BY <1>7 DEF TypeOK, RunFails, EndSessions
  <2>. QED
    BY <2>1, <2>2, <2>3, FreeAssumption DEF Runners
<1>8. ASSUME NEW e \in Execs, NEW r \in Runners, Finish(e, r) PROVE OneRunAtATime'
  <2>. SUFFICES ASSUME NEW x \in Execs, NEW q \in Runners
                PROVE  lock'[x] = q <=> pc'[x][q] = "cases"
    OBVIOUS
  <2>1. PICK s \in {"idle", "cleanup"} : pc' = [pc EXCEPT ![e][r] = s]
    BY <1>8 DEF Finish
  <2>2. pc'[x][q] = IF x = e /\ q = r THEN s ELSE pc[x][q]
    BY <2>1 DEF TypeOK
  <2>3. lock'[x] = IF x = e /\ lock[x] = r THEN Free ELSE lock[x]
    BY <1>8 DEF TypeOK, Finish, EndSessions
  <2>. QED
    BY <2>1, <2>2, <2>3, FreeAssumption DEF Runners
<1>9. ASSUME NEW e \in Execs, NEW r \in Runners, Cleanup(e, r) PROVE OneRunAtATime'
  BY <1>9 DEF TypeOK, Cleanup
<1>10. ASSUME NEW e \in Execs, NEW r \in Runners, CleanupFails(e, r) PROVE OneRunAtATime'
  BY <1>10 DEF TypeOK, CleanupFails
<1>11. ASSUME NEW w \in Workers, WorkerCrash(w) PROVE OneRunAtATime'
  <2>. SUFFICES ASSUME NEW x \in Execs, NEW q \in Runners
                PROVE  lock'[x] = q <=> pc'[x][q] = "cases"
    OBVIOUS
  <2>1. pc'[x][q] = IF q = w THEN "idle" ELSE pc[x][q]
    BY <1>11 DEF TypeOK, WorkerCrash, Runners
  <2>2. lock'[x] = IF lock[x] = w THEN Free ELSE lock[x]
    BY <1>11 DEF WorkerCrash, EndAllSessions
  <2>. QED
    BY <2>1, <2>2, FreeAssumption DEF Runners
<1>12. ASSUME ApiCrash PROVE OneRunAtATime'
  <2>. SUFFICES ASSUME NEW x \in Execs, NEW q \in Runners
                PROVE  lock'[x] = q <=> pc'[x][q] = "cases"
    OBVIOUS
  <2>1. pc'[x][q] = IF q = Local THEN "idle" ELSE pc[x][q]
    BY <1>12 DEF TypeOK, ApiCrash, Runners
  <2>2. lock'[x] = IF lock[x] = Local THEN Free ELSE lock[x]
    BY <1>12 DEF ApiCrash, EndAllSessions
  <2>. QED
    BY <2>1, <2>2, FreeAssumption DEF Runners
<1>13. CASE UNCHANGED <<lock, pc>>
  BY <1>13
<1>. QED
  BY <1>1, <1>2, <1>3, <1>4, <1>5, <1>6, <1>7, <1>8, <1>9, <1>10, <1>11, <1>12, <1>13
     DEF Next, RequestStep, CancelStep, Receive, RunStep, vars,
         TriggerNumber, FireInsert, TriggerInsert, TriggerSend, TriggerFallBack, TriggerRecord, FireSend, FireRecord, FireFails, FireMarkError, FireMarkFails, CancelCheck, CancelWrite, CancelFails, Redeliver, RunCase

\* Nothing counted and nothing flushed agree.
LEMMA NoWorkMatches == FlushedMatchesCounted(NoWork)
BY CasesAssumption DEF FlushedMatchesCounted, NoWork, ZeroTally

\* One pass of the case loop keeps counted and flushed in agreement.
LEMMA CountMatches ==
    ASSUME NEW w \in Work, FlushedMatchesCounted(w), w.tally.total < Cases,
           NEW s \in CaseStatus, NEW found \in BOOLEAN, ~found => s = "ERROR"
    PROVE  FlushedMatchesCounted(
              [tally |-> Count(w.tally, s),
               all |-> IF found THEN w.all + 1 ELSE w.all,
               passed |-> IF s = "PASS" THEN w.passed + 1 ELSE w.passed])
BY CasesAssumption DEF FlushedMatchesCounted, Count, CaseStatus, Work, Tally

\* Ending sessions leaves the work of the others alone.
LEMMA EndedSessionsMatch ==
    ASSUME TypeOK, WorkMatchesRows, NEW e \in Execs, NEW R \in SUBSET Runners,
           EndSessions(e, R)
    PROVE  WorkMatchesRows'
<1>. SUFFICES ASSUME NEW x \in Execs
              PROVE  FlushedMatchesCounted(work'[x]) /\ (lock'[x] = Free => work'[x] = NoWork)
  BY DEF WorkMatchesRows, FlushedMatchesCounted
<1>1. CASE x = e /\ lock[e] \in R
  BY <1>1, NoWorkMatches DEF EndSessions, TypeOK
<1>2. CASE ~(x = e /\ lock[e] \in R)
  <2>1. lock'[x] = lock[x] /\ work'[x] = work[x]
    BY <1>2 DEF EndSessions, TypeOK
  <2>. QED
    BY <2>1 DEF WorkMatchesRows
<1>. QED
  BY <1>1, <1>2

LEMMA EndedAllSessionsMatch ==
    ASSUME TypeOK, WorkMatchesRows, NEW r \in Runners, EndAllSessions(r)
    PROVE  WorkMatchesRows'
<1>. SUFFICES ASSUME NEW x \in Execs
              PROVE  FlushedMatchesCounted(work'[x]) /\ (lock'[x] = Free => work'[x] = NoWork)
  BY DEF WorkMatchesRows, FlushedMatchesCounted
<1>1. CASE lock[x] = r
  BY <1>1, NoWorkMatches DEF EndAllSessions
<1>2. CASE lock[x] # r
  BY <1>2 DEF EndAllSessions, WorkMatchesRows
<1>. QED
  BY <1>1, <1>2

\* The relation between work in progress and flushed rows is preserved.
LEMMA WorkStep == TypeOK /\ WorkMatchesRows /\ OneRunAtATime /\ TypeOK' /\ [Next]_vars => WorkMatchesRows'
<1>. SUFFICES ASSUME TypeOK, WorkMatchesRows, OneRunAtATime, TypeOK', [Next]_vars PROVE WorkMatchesRows'
  OBVIOUS
<1>. USE DEF WorkMatchesRows, rowVars, reqVars, brokerVars, runVars
<1>1. ASSUME NEW e \in Execs, CancelRevoke(e) PROVE WorkMatchesRows'
  BY <1>1, EndedSessionsMatch DEF CancelRevoke, Runners
<1>2. ASSUME NEW e \in Execs, NEW r \in Runners, Begin(e, r) PROVE WorkMatchesRows'
  BY <1>2 DEF TypeOK, Begin
<1>3. ASSUME NEW e \in Execs, NEW r \in Runners, RunCase(e, r) PROVE WorkMatchesRows'
  <2>. SUFFICES ASSUME NEW x \in Execs
                PROVE  FlushedMatchesCounted(work'[x]) /\ (lock'[x] = Free => work'[x] = NoWork)
    BY DEF FlushedMatchesCounted
  <2>1. lock' = lock /\ lock[e] # Free
    BY <1>3, FreeAssumption DEF RunCase, OneRunAtATime, Runners
  <2>2. PICK s \in CaseStatus, found \in BOOLEAN :
          /\ ~found => s = "ERROR"
          /\ work' = [work EXCEPT ![e] =
                        [tally |-> Count(@.tally, s),
                         all |-> IF found THEN @.all + 1 ELSE @.all,
                         passed |-> IF s = "PASS" THEN @.passed + 1 ELSE @.passed]]
    BY <1>3 DEF RunCase
  <2>3. CASE x = e
    <3>1. FlushedMatchesCounted(work'[e])
      BY <1>3, <2>2, CountMatches DEF TypeOK, RunCase
    <3>. QED
      BY <2>1, <2>3, <3>1
  <2>4. CASE x # e
    BY <2>1, <2>2, <2>4 DEF TypeOK
  <2>. QED
    BY <2>3, <2>4
<1>4. ASSUME NEW e \in Execs, NEW r \in Runners, RunFails(e, r) PROVE WorkMatchesRows'
  BY <1>4, EndedSessionsMatch DEF RunFails
<1>5. ASSUME NEW e \in Execs, NEW r \in Runners, Finish(e, r) PROVE WorkMatchesRows'
  BY <1>5, EndedSessionsMatch DEF Finish
<1>6. ASSUME NEW w \in Workers, WorkerCrash(w) PROVE WorkMatchesRows'
  BY <1>6, EndedAllSessionsMatch DEF WorkerCrash, Runners
<1>7. ASSUME ApiCrash PROVE WorkMatchesRows'
  BY <1>7, EndedAllSessionsMatch DEF ApiCrash, Runners
<1>8. CASE UNCHANGED <<lock, work>>
  BY <1>8
<1>. QED
  BY <1>1, <1>2, <1>3, <1>4, <1>5, <1>6, <1>7, <1>8
     DEF Next, RequestStep, CancelStep, Receive, RunStep, vars,
         TriggerNumber, FireInsert, TriggerInsert, TriggerSend, TriggerFallBack, TriggerRecord, TriggerSpawn, FireSend, FireRecord, FireFails, FireMarkError, FireMarkFails, CancelCheck, CancelWrite, CancelFails, Redeliver, WorkerReceive, BuildRunner, BuildFails, Cleanup, CleanupFails

\* What holds before the insert is preserved.
LEMMA CreatedStep == TypeOK /\ Created /\ OneRunAtATime /\ TypeOK' /\ [Next]_vars => Created'
<1>. SUFFICES ASSUME TypeOK, Created, OneRunAtATime, TypeOK', [Next]_vars PROVE Created'
  OBVIOUS
<1>. USE DEF Created, rowVars, reqVars, brokerVars, runVars
<1>1. ASSUME NEW e \in Execs, TriggerNumber(e) PROVE Created'
  BY <1>1 DEF TypeOK, TriggerNumber
<1>2. ASSUME NEW e \in Execs, FireInsert(e) PROVE Created'
  BY <1>2 DEF TypeOK, FireInsert
<1>3. ASSUME NEW e \in Execs, TriggerInsert(e) PROVE Created'
  BY <1>3 DEF TypeOK, TriggerInsert
<1>4. ASSUME NEW e \in Execs, TriggerSend(e) PROVE Created'
  BY <1>4 DEF TypeOK, TriggerSend
<1>5. ASSUME NEW e \in Execs, TriggerFallBack(e) PROVE Created'
  BY <1>5 DEF TypeOK, TriggerFallBack
<1>6. ASSUME NEW e \in Execs, TriggerRecord(e) PROVE Created'
  BY <1>6 DEF TypeOK, TriggerRecord
<1>7. ASSUME NEW e \in Execs, TriggerSpawn(e) PROVE Created'
  BY <1>7 DEF TypeOK, TriggerSpawn
<1>8. ASSUME NEW e \in Execs, FireSend(e) PROVE Created'
  BY <1>8 DEF TypeOK, FireSend
<1>9. ASSUME NEW e \in Execs, FireRecord(e) PROVE Created'
  BY <1>9 DEF TypeOK, FireRecord
<1>10. ASSUME NEW e \in Execs, FireFails(e) PROVE Created'
  BY <1>10 DEF TypeOK, FireFails
<1>11. ASSUME NEW e \in Execs, FireMarkError(e) PROVE Created'
  BY <1>11 DEF TypeOK, FireMarkError
<1>12. ASSUME NEW e \in Execs, FireMarkFails(e) PROVE Created'
  BY <1>12 DEF TypeOK, FireMarkFails
<1>13. ASSUME NEW e \in Execs, CancelCheck(e) PROVE Created'
  BY <1>13 DEF TypeOK, CancelCheck
<1>14. ASSUME NEW e \in Execs, CancelRevoke(e) PROVE Created'
  <2>1. PICK heard \in SUBSET Workers :
          pc' = [pc EXCEPT ![e] = [k \in Runners |-> IF k \in heard THEN "idle" ELSE @[k]]]
    BY <1>14 DEF CancelRevoke
  <2>2. \A x \in Execs, q \in Runners :
          pc'[x][q] = IF x = e /\ q \in heard THEN "idle" ELSE pc[x][q]
    BY <2>1 DEF TypeOK
  <2>3. \A x \in Execs : cancel'[x] # "idle" => cancel[x] # "idle"
    BY <1>14 DEF TypeOK, CancelRevoke
  <2>. QED
    BY <1>14, <2>2, <2>3 DEF CancelRevoke, Runners
<1>15. ASSUME NEW e \in Execs, CancelWrite(e) PROVE Created'
  BY <1>15 DEF TypeOK, CancelWrite
<1>16. ASSUME NEW e \in Execs, CancelFails(e) PROVE Created'
  BY <1>16 DEF TypeOK, CancelFails
<1>17. ASSUME NEW e \in Execs, Redeliver(e) PROVE Created'
  <2>1. status[e] # "absent"
    BY <1>17 DEF Redeliver, Active, Runners
  <2>2. \A x \in Execs : x # e => queued'[x] = queued[x]
    BY <1>17 DEF TypeOK, Redeliver
  <2>. QED
    BY <1>17, <2>1, <2>2 DEF Redeliver
<1>18. ASSUME NEW e \in Execs, NEW w \in Workers, WorkerReceive(e, w) PROVE Created'
  <2>1. status[e] # "absent"
    BY <1>18 DEF WorkerReceive
  <2>2. \A x \in Execs : x # e => queued'[x] = queued[x]
    BY <1>18 DEF TypeOK, WorkerReceive
  <2>3. \A x \in Execs, q \in Runners : x # e \/ q # w => pc'[x][q] = pc[x][q]
    BY <1>18 DEF TypeOK, WorkerReceive
  <2>4. w # Local /\ Local \in Runners
    BY LocalAssumption DEF Runners
  <2>. QED
    BY <1>18, <2>1, <2>2, <2>3, <2>4 DEF WorkerReceive
<1>19. ASSUME NEW e \in Execs, NEW r \in Runners, BuildRunner(e, r) PROVE Created'
  BY <1>19 DEF TypeOK, BuildRunner
<1>20. ASSUME NEW e \in Execs, NEW r \in Runners, BuildFails(e, r) PROVE Created'
  <2>1. PICK s \in {"idle", "cleanup"} : pc' = [pc EXCEPT ![e][r] = s]
    BY <1>20 DEF BuildFails
  <2>2. \A x \in Execs, q \in Runners :
          pc'[x][q] = IF x = e /\ q = r THEN s ELSE pc[x][q]
    BY <2>1 DEF TypeOK
  <2>3. pc[e][r] # "idle"
    BY <1>20 DEF BuildFails
  <2>. QED
    BY <1>20, <2>2, <2>3 DEF BuildFails, Runners
<1>21. ASSUME NEW e \in Execs, NEW r \in Runners, Begin(e, r) PROVE Created'
  BY <1>21 DEF TypeOK, Begin
<1>22. ASSUME NEW e \in Execs, NEW r \in Runners, RunFails(e, r) PROVE Created'
  BY <1>22 DEF TypeOK, RunFails, EndSessions
<1>23. ASSUME NEW e \in Execs, NEW r \in Runners, Finish(e, r) PROVE Created'
  <2>1. PICK s \in {"idle", "cleanup"} : pc' = [pc EXCEPT ![e][r] = s]
    BY <1>23 DEF Finish
  <2>2. \A x \in Execs, q \in Runners :
          pc'[x][q] = IF x = e /\ q = r THEN s ELSE pc[x][q]
    BY <2>1 DEF TypeOK
  <2>3. pc[e][r] # "idle" /\ status[e] # "absent"
    BY <1>23 DEF Finish
  <2>4. status'[e] # "absent"
    <3>1. StatusFromSummary(work[e].tally) # "absent"
      BY DEF StatusFromSummary
    <3>2. \/ status' = status
          \/ status' = [status EXCEPT ![e] = StatusFromSummary(work[e].tally)]
      BY <1>23 DEF Finish
    <3>. QED
      BY <2>3, <3>1, <3>2 DEF TypeOK
  <2>5. \A x \in Execs : x # e => status'[x] = status[x] /\ report'[x] = report[x]
    BY <1>23 DEF Finish, TypeOK
  <2>6. UNCHANGED <<hasTask, queued, req, cancel>>
    BY <1>23 DEF Finish
  <2>. QED
    BY <2>2, <2>3, <2>4, <2>5, <2>6 DEF Runners
<1>24. ASSUME NEW e \in Execs, NEW r \in Runners, Cleanup(e, r) PROVE Created'
  BY <1>24 DEF TypeOK, Cleanup
<1>25. ASSUME NEW e \in Execs, NEW r \in Runners, CleanupFails(e, r) PROVE Created'
  BY <1>25 DEF TypeOK, CleanupFails
<1>26. ASSUME NEW w \in Workers, WorkerCrash(w) PROVE Created'
  <2>1. \A x \in Execs, q \in Runners : pc'[x][q] = IF q = w THEN "idle" ELSE pc[x][q]
    BY <1>26 DEF TypeOK, WorkerCrash
  <2>2. \A x \in Execs : status[x] = "absent" => queued'[x] = queued[x]
    BY <1>26 DEF WorkerCrash, Active, Runners
  <2>. QED
    BY <1>26, <2>1, <2>2 DEF WorkerCrash, Runners
<1>27. ASSUME ApiCrash PROVE Created'
  BY <1>27 DEF TypeOK, ApiCrash, EndAllSessions
<1>28. CASE UNCHANGED <<status, hasTask, queued, report, pc, req, cancel>>
  BY <1>28
<1>. QED
  BY <1>1, <1>2, <1>3, <1>4, <1>5, <1>6, <1>7, <1>8, <1>9, <1>10, <1>11, <1>12, <1>13, <1>14, <1>15, <1>16, <1>17, <1>18, <1>19, <1>20, <1>21, <1>22, <1>23, <1>24, <1>25, <1>26, <1>27, <1>28
     DEF Next, RequestStep, CancelStep, Receive, RunStep, vars,
         RunCase

\* The agreement of report and result rows is preserved.
LEMMA RowsStep == TypeOK /\ ReportMatchesRows /\ WorkMatchesRows /\ OneRunAtATime /\ TypeOK' /\ [Next]_vars => ReportMatchesRows'
<1>. SUFFICES ASSUME TypeOK, ReportMatchesRows, WorkMatchesRows, OneRunAtATime, TypeOK', [Next]_vars PROVE ReportMatchesRows'
  OBVIOUS
<1>. USE DEF ReportMatchesRows, rowVars, reqVars, brokerVars, runVars
<1>1. ASSUME NEW e \in Execs, NEW r \in Runners, Finish(e, r) PROVE ReportMatchesRows'
  <2>1. work[e] \in Work /\ stored[e] \in [all: Nat, passed: Nat] /\ report[e] \in Report
    BY DEF TypeOK
  <2>2. CASE report[e] # NoReport
    BY <1>1, <2>2 DEF Finish
  <2>3. CASE report[e] = NoReport
    <3>. DEFINE sum == [all |-> stored[e].all + work[e].all,
                       passed |-> stored[e].passed + work[e].passed]
    <3>1. stored' = [stored EXCEPT ![e] = sum]
      BY <1>1, <2>3 DEF Finish
    <3>2. report' = [report EXCEPT ![e] = SummaryReport(work[e].tally)]
      BY <1>1, <2>3 DEF Finish
    <3>3. stored[e].all = 0 /\ stored[e].passed = 0
      BY <2>3 DEF ReportMatchesRows, RowsMatchReport, NoReport
    <3>4. FlushedMatchesCounted(work[e]) /\ work[e].tally.total = Cases
      BY <1>1 DEF Finish, WorkMatchesRows
    <3>5. RowsMatchReport(sum, SummaryReport(work[e].tally))
      BY <2>1, <3>3, <3>4, CasesAssumption
         DEF RowsMatchReport, SummaryReport, FlushedMatchesCounted, Work, Tally
    <3>. HIDE DEF sum
    <3>. SUFFICES ASSUME NEW x \in Execs PROVE RowsMatchReport(stored'[x], report'[x])
      BY DEF ReportMatchesRows, RowsMatchReport
    <3>6. CASE x = e
      BY <3>1, <3>2, <3>5, <3>6 DEF TypeOK
    <3>7. CASE x # e
      BY <3>1, <3>2, <3>7 DEF TypeOK, ReportMatchesRows
    <3>. QED
      BY <3>6, <3>7
  <2>. QED
    BY <2>2, <2>3
<1>2. ASSUME NEW e \in Execs, NEW r \in Runners, Cleanup(e, r) PROVE ReportMatchesRows'
  <2>1. CASE report[e] # NoReport
    BY <1>2, <2>1 DEF Cleanup
  <2>2. CASE report[e] = NoReport
    <3>1. report' = [report EXCEPT ![e] = ErrorReport] /\ stored' = stored
      BY <1>2, <2>2 DEF Cleanup
    <3>2. RowsMatchReport(stored[e], ErrorReport)
      BY <2>2 DEF ReportMatchesRows, RowsMatchReport, NoReport, ErrorReport
    <3>. SUFFICES ASSUME NEW x \in Execs PROVE RowsMatchReport(stored'[x], report'[x])
      BY DEF ReportMatchesRows, RowsMatchReport
    <3>3. CASE x = e
      BY <3>1, <3>2, <3>3 DEF TypeOK
    <3>4. CASE x # e
      BY <3>1, <3>4 DEF TypeOK, ReportMatchesRows
    <3>. QED
      BY <3>3, <3>4
  <2>. QED
    BY <2>1, <2>2
<1>3. CASE UNCHANGED <<stored, report>>
  BY <1>3
<1>. QED
  BY ZenonT(30), <1>1, <1>2, <1>3
     DEF Next, RequestStep, CancelStep, Receive, RunStep, vars,
         TriggerNumber, FireInsert, TriggerInsert, TriggerSend, TriggerFallBack, TriggerRecord, TriggerSpawn, FireSend, FireRecord, FireFails, FireMarkError, FireMarkFails, CancelCheck, CancelRevoke, CancelWrite, CancelFails, Redeliver, WorkerReceive, BuildRunner, BuildFails, Begin, RunCase, RunFails, CleanupFails, WorkerCrash, ApiCrash

\* The agreement of status and report is preserved.
LEMMA StatusStep == TypeOK /\ StatusMatchesReport /\ Created /\ TypeOK' /\ [Next]_vars => StatusMatchesReport'
<1>. SUFFICES ASSUME TypeOK, StatusMatchesReport, Created, TypeOK', [Next]_vars PROVE StatusMatchesReport'
  OBVIOUS
<1>. USE DEF StatusMatchesReport, rowVars, reqVars, brokerVars, runVars
<1>1. ASSUME NEW e \in Execs, TriggerNumber(e) PROVE StatusMatchesReport'
  BY <1>1 DEF TypeOK, TriggerNumber
<1>2. ASSUME NEW e \in Execs, FireInsert(e) PROVE StatusMatchesReport'
  <2>1. report[e] = NoReport
    BY <1>2 DEF FireInsert, Created
  <2>2. \A x \in Execs : x # e => status'[x] = status[x] /\ req'[x] = req[x]
    BY <1>2 DEF FireInsert, TypeOK
  <2>3. status'[e] = "PENDING" /\ UNCHANGED <<report, hasTask>>
    BY <1>2 DEF FireInsert, TypeOK
  <2>. QED
    BY <2>1, <2>2, <2>3
<1>3. ASSUME NEW e \in Execs, TriggerInsert(e) PROVE StatusMatchesReport'
  <2>1. report[e] = NoReport
    BY <1>3 DEF TriggerInsert, Created
  <2>2. \A x \in Execs : x # e => status'[x] = status[x] /\ req'[x] = req[x]
    BY <1>3 DEF TriggerInsert, TypeOK
  <2>3. status'[e] = "PENDING" /\ UNCHANGED <<report, hasTask>>
    BY <1>3 DEF TriggerInsert, TypeOK
  <2>. QED
    BY <2>1, <2>2, <2>3
<1>4. ASSUME NEW e \in Execs, TriggerSend(e) PROVE StatusMatchesReport'
  BY <1>4 DEF TypeOK, TriggerSend
<1>5. ASSUME NEW e \in Execs, TriggerFallBack(e) PROVE StatusMatchesReport'
  BY <1>5 DEF TypeOK, TriggerFallBack
<1>6. ASSUME NEW e \in Execs, TriggerRecord(e) PROVE StatusMatchesReport'
  BY <1>6 DEF TypeOK, TriggerRecord
<1>7. ASSUME NEW e \in Execs, TriggerSpawn(e) PROVE StatusMatchesReport'
  BY <1>7 DEF TypeOK, TriggerSpawn
<1>8. ASSUME NEW e \in Execs, FireSend(e) PROVE StatusMatchesReport'
  BY <1>8 DEF TypeOK, FireSend
<1>9. ASSUME NEW e \in Execs, FireRecord(e) PROVE StatusMatchesReport'
  BY <1>9 DEF TypeOK, FireRecord
<1>10. ASSUME NEW e \in Execs, FireFails(e) PROVE StatusMatchesReport'
  BY <1>10 DEF TypeOK, FireFails
<1>11. ASSUME NEW e \in Execs, FireMarkError(e) PROVE StatusMatchesReport'
  BY <1>11 DEF TypeOK, FireMarkError
<1>12. ASSUME NEW e \in Execs, FireMarkFails(e) PROVE StatusMatchesReport'
  BY <1>12 DEF TypeOK, FireMarkFails
<1>13. ASSUME NEW e \in Execs, CancelWrite(e) PROVE StatusMatchesReport'
  <2>1. hasTask[e]
    BY <1>13 DEF CancelWrite, Created
  <2>2. \A x \in Execs : status'[x] = IF x = e THEN "CANCELLED" ELSE status[x]
    BY <1>13 DEF CancelWrite, TypeOK
  <2>3. UNCHANGED <<report, hasTask, req>>
    BY <1>13 DEF CancelWrite
  <2>. QED
    BY <2>1, <2>2, <2>3
<1>14. ASSUME NEW e \in Execs, NEW r \in Runners, Finish(e, r) PROVE StatusMatchesReport'
  <2>1. CASE report[e] # NoReport
    BY <1>14, <2>1 DEF Finish
  <2>2. CASE report[e] = NoReport
    <3>. DEFINE verdict == StatusFromSummary(work[e].tally)
    <3>1. \A x \in Execs : status'[x] = IF x = e THEN verdict ELSE status[x]
      BY <1>14, <2>2 DEF Finish, TypeOK
    <3>2. \A x \in Execs :
            report'[x] = IF x = e THEN SummaryReport(work[e].tally) ELSE report[x]
      BY <1>14, <2>2 DEF Finish, TypeOK
    <3>3. StatusFromSummary(SummaryReport(work[e].tally).tally) = verdict
      BY DEF SummaryReport
    <3>4. SummaryReport(work[e].tally) # NoReport
      BY DEF SummaryReport, NoReport
    <3>5. UNCHANGED <<hasTask, req>>
      BY <1>14 DEF Finish
    <3>. HIDE DEF verdict
    <3>. QED
      BY <3>1, <3>2, <3>3, <3>4, <3>5
  <2>. QED
    BY <2>1, <2>2
<1>15. ASSUME NEW e \in Execs, NEW r \in Runners, Cleanup(e, r) PROVE StatusMatchesReport'
  <2>1. CASE report[e] # NoReport
    BY <1>15, <2>1 DEF Cleanup
  <2>2. CASE report[e] = NoReport
    <3>1. \A x \in Execs : status'[x] = IF x = e THEN "ERROR" ELSE status[x]
      BY <1>15, <2>2 DEF Cleanup, TypeOK
    <3>2. \A x \in Execs : report'[x] = IF x = e THEN ErrorReport ELSE report[x]
      BY <1>15, <2>2 DEF Cleanup, TypeOK
    <3>3. StatusFromSummary(ErrorReport.tally) = "ERROR" /\ ErrorReport # NoReport
      BY DEF ErrorReport, NoReport, ZeroTally, StatusFromSummary
    <3>4. UNCHANGED <<hasTask, req>>
      BY <1>15 DEF Cleanup
    <3>. QED
      BY <3>1, <3>2, <3>3, <3>4
  <2>. QED
    BY <2>1, <2>2
<1>16. ASSUME ApiCrash PROVE StatusMatchesReport'
  BY <1>16 DEF TypeOK, ApiCrash, EndAllSessions
<1>17. CASE UNCHANGED <<status, report, hasTask, req>>
  BY <1>17
<1>. QED
  BY ZenonT(30), <1>1, <1>2, <1>3, <1>4, <1>5, <1>6, <1>7, <1>8, <1>9, <1>10, <1>11, <1>12, <1>13, <1>14, <1>15, <1>16, <1>17
     DEF Next, RequestStep, CancelStep, Receive, RunStep, vars,
         CancelCheck, CancelRevoke, CancelFails, Redeliver, WorkerReceive, BuildRunner, BuildFails, Begin, RunCase, RunFails, CleanupFails, WorkerCrash

\* Every initial state satisfies the inductive invariant.
LEMMA InitIInv == Init => IInv
<1>. SUFFICES ASSUME Init PROVE IInv
  OBVIOUS
<1>1. TypeOK
  <2>1. ZeroTally \in Tally
    BY DEF ZeroTally, Tally
  <2>. QED
    BY <2>1, NoWorkIsWork, NoReportIsReport, FaultsAssumption
       DEF Init, TypeOK, Status, ReqPC, CancelPC, RunPC
<1>2. OneRunAtATime
  BY FreeAssumption DEF Init, OneRunAtATime, Runners
<1>3. WorkMatchesRows
  BY NoWorkMatches DEF Init, WorkMatchesRows
<1>4. Created
  BY DEF Init, Created, Runners
<1>5. ReportMatchesRows
  BY DEF Init, ReportMatchesRows, RowsMatchReport, NoReport
<1>6. StatusMatchesReport
  BY DEF Init, StatusMatchesReport
<1>. QED
  BY <1>1, <1>2, <1>3, <1>4, <1>5, <1>6 DEF IInv

\* Every step preserves the inductive invariant.
LEMMA StepIInv == IInv /\ [Next]_vars => IInv'
BY TypeStep, LockStep, WorkStep, CreatedStep, RowsStep, StatusStep DEF IInv

\* Type correctness.
THEOREM TypeCorrect == Spec => []TypeOK
<1>1. Init => TypeOK
  BY InitIInv DEF IInv
<1>. QED
  BY <1>1, TypeStep, PTL DEF Spec

\* The inductive invariant holds in every reachable state.
THEOREM Invariance == Spec => []IInv
BY InitIInv, StepIInv, PTL DEF Spec

\* Two runs of one execution never interleave their writes: the row lock taken
\* by the first flush of orchestrator serialises them.
THEOREM Serialised == Spec => []OneRunAtATime
<1>1. IInv => OneRunAtATime
  BY DEF IInv
<1>. QED
  BY <1>1, Invariance, PTL

\* The result rows in the database are those of the run that wrote the report,
\* whatever redeliveries, fallbacks and crashes happened.
THEOREM RowsAgree == Spec => []ReportMatchesRows
<1>1. IInv => ReportMatchesRows
  BY DEF IInv
<1>. QED
  BY <1>1, Invariance, PTL

\* The status agrees with the report unless a cancellation or the failure mark
\* of a schedule has replaced it.
THEOREM StatusAgrees == Spec => []StatusMatchesReport
<1>1. IInv => StatusMatchesReport
  BY DEF IInv
<1>. QED
  BY <1>1, Invariance, PTL

\* A published report and its rows never change again.
THEOREM ReportIsFinal == Spec => PublishedOnce
<1>. DEFINE Kept == \A e \in Execs : report[e] # NoReport =>
                        report'[e] = report[e] /\ stored'[e] = stored[e]
<1>1. IInv /\ [Next]_vars => [Kept]_vars
  <2>. SUFFICES ASSUME IInv, [Next]_vars PROVE Kept
    OBVIOUS
  <2>. USE DEF rowVars
  <2>1. CASE UNCHANGED <<report, stored>>
    BY <2>1
  <2>2. ASSUME NEW e \in Execs, NEW r \in Runners, Finish(e, r) PROVE Kept
    BY <2>2 DEF Finish, IInv, TypeOK
  <2>3. ASSUME NEW e \in Execs, NEW r \in Runners, Cleanup(e, r) PROVE Kept
    BY <2>3 DEF Cleanup, IInv, TypeOK
  <2>. QED
    BY ZenonT(30), <2>1, <2>2, <2>3
       DEF Next, RequestStep, CancelStep, Receive, RunStep, vars,
           TriggerNumber, FireInsert, TriggerInsert, TriggerSend, TriggerFallBack, TriggerRecord, TriggerSpawn, FireSend, FireRecord, FireFails, FireMarkError, FireMarkFails, CancelCheck, CancelRevoke, CancelWrite, CancelFails, Redeliver, WorkerReceive, BuildRunner, BuildFails, Begin, RunCase, RunFails, CleanupFails, WorkerCrash, ApiCrash
<1>. QED
  BY <1>1, Invariance, PTL DEF Spec, PublishedOnce

\* The lifecycle implements the contract: every step publishes a verdict once,
\* submits, overrides the status, or is invisible to the clients.
THEOREM ContractImplemented == Spec => ImplementsContract
<1>. DEFINE verdicts == [e \in Execs |-> Verdict(report[e])]
<1>1. Init => Contract!ContractInit
  BY DEF Init, Contract!ContractInit, Verdict, NoReport
<1>2. IInv /\ [Next]_vars => [Contract!ContractNext]_(Contract!cvars)
  <2>. SUFFICES ASSUME IInv, [Next]_vars
                PROVE  Contract!ContractNext \/ UNCHANGED <<status, verdicts>>
    BY DEF Contract!cvars
  <2>. USE DEF IInv, TypeOK, rowVars
  <2>1. CASE UNCHANGED <<status, report>>
    BY <2>1
  <2>2. ASSUME NEW e \in Execs, TriggerInsert(e) \/ FireInsert(e)
        PROVE  Contract!Submit(e)
    BY <2>2 DEF TriggerInsert, FireInsert, Created, Contract!Submit
  <2>3. ASSUME NEW e \in Execs, CancelWrite(e) \/ FireMarkError(e)
        PROVE  Contract!Override(e)
    BY <2>3 DEF CancelWrite, FireMarkError, Created, Contract!Override
  <2>4. ASSUME NEW e \in Execs, NEW r \in Runners, Finish(e, r)
        PROVE  Contract!Publish(e) \/ UNCHANGED <<status, verdicts>>
    <3>1. CASE report[e] # NoReport
      BY <2>4, <3>1 DEF Finish
    <3>2. CASE report[e] = NoReport
      <4>. DEFINE v == StatusFromSummary(work[e].tally)
      <4>1. status[e] # "absent" /\ Verdict(report[e]) = "none"
        BY <2>4, <3>2 DEF Finish, Created, Verdict, NoReport
      <4>2. v \in {"PASSED", "FAILED", "ERROR"}
        BY DEF StatusFromSummary
      <4>3. status' = [status EXCEPT ![e] = v]
        BY <2>4, <3>2 DEF Finish
      <4>4. \A x \in Execs : Verdict(report'[x]) = IF x = e THEN v ELSE Verdict(report[x])
        BY <2>4, <3>2 DEF Finish, Verdict, SummaryReport
      <4>5. verdicts' = [verdicts EXCEPT ![e] = v]
        BY <4>4
      <4>. HIDE DEF v
      <4>. QED
        BY <4>1, <4>2, <4>3, <4>5 DEF Contract!Publish, Contract!Verdict
    <3>. QED
      BY <3>1, <3>2
  <2>5. ASSUME NEW e \in Execs, NEW r \in Runners, Cleanup(e, r)
        PROVE  Contract!Publish(e) \/ UNCHANGED <<status, verdicts>>
    <3>1. CASE report[e] # NoReport
      BY <2>5, <3>1 DEF Cleanup
    <3>2. CASE report[e] = NoReport
      <4>1. status[e] # "absent" /\ Verdict(report[e]) = "none"
        BY <2>5, <3>2 DEF Cleanup, Created, Verdict, NoReport
      <4>2. status' = [status EXCEPT ![e] = "ERROR"]
        BY <2>5, <3>2 DEF Cleanup
      <4>3. Verdict(ErrorReport) = "ERROR"
        BY DEF Verdict, ErrorReport, ZeroTally, StatusFromSummary
      <4>4. report' = [report EXCEPT ![e] = ErrorReport]
        BY <2>5, <3>2 DEF Cleanup
      <4>5. verdicts' = [verdicts EXCEPT ![e] = "ERROR"]
        BY <4>3, <4>4
      <4>. QED
        BY <4>1, <4>2, <4>5 DEF Contract!Publish, Contract!Verdict
    <3>. QED
      BY <3>1, <3>2
  <2>. DEFINE Mapped == Contract!ContractNext \/ UNCHANGED <<status, verdicts>>
  <2>6. ASSUME NEW e \in Execs,
               \/ TriggerInsert(e) \/ FireInsert(e) \/ CancelWrite(e) \/ FireMarkError(e)
        PROVE  Mapped
    BY <2>2, <2>3, <2>6 DEF Contract!ContractNext
  <2>7. ASSUME NEW e \in Execs, NEW r \in Runners, Finish(e, r) \/ Cleanup(e, r)
        PROVE  Mapped
    BY <2>4, <2>5, <2>7 DEF Contract!ContractNext
  <2>8. UNCHANGED <<status, report>> => Mapped
    BY <2>1
  <2>. HIDE DEF Mapped
  <2>9. Mapped
    BY ZenonT(30), <2>6, <2>7, <2>8
       DEF Next, RequestStep, CancelStep, Receive, RunStep, vars,
           TriggerNumber, TriggerSend, TriggerFallBack, TriggerRecord, TriggerSpawn, FireSend, FireRecord, FireFails, FireMarkFails, CancelCheck, CancelRevoke, CancelFails, Redeliver, WorkerReceive, BuildRunner, BuildFails, Begin, RunCase, RunFails, CleanupFails, WorkerCrash, ApiCrash
  <2>. QED
    BY <2>9 DEF Mapped
<1>. QED
  BY <1>1, <1>2, Invariance, PTL DEF Spec, ImplementsContract, Contract!ContractSpec

-------------------------------------------------------------------------------
(***************************************************************************)
(* The schedules, for every set of them, of concurrent requests and of     *)
(* triggers.  Each lemma takes one conjunct of SchedulesIInv and goes      *)
(* through the actions.                                                    *)
(***************************************************************************)

\* Typing is preserved by every step.
LEMMA ScheduleTypeStep == SchedulesIInv /\ [SchedulesNext]_schedulesVars => SchedulesTypeOK'
<1>. SUFFICES ASSUME SchedulesIInv, [SchedulesNext]_schedulesVars PROVE SchedulesTypeOK'
  OBVIOUS
<1>. USE ValidAssumption, NoRowAssumption, NoJobAssumption, NothingAssumption DEF SchedulesIInv, SchedulesTypeOK, requestVars
<1>1. ASSUME NEW c \in Clients, NEW s \in Schedules, CreateCommit(c, s) PROVE SchedulesTypeOK'
  BY <1>1 DEF CreateCommit, RowBecomes, Become, Row, RequestsSound
<1>2. ASSUME NEW c \in Clients, NEW s \in Schedules, UpdateLoad(c, s) PROVE SchedulesTypeOK'
  BY <1>2 DEF UpdateLoad, Become, Row, RequestsSound
<1>3. ASSUME NEW c \in Clients, NEW s \in Schedules, DeleteJob(c, s) PROVE SchedulesTypeOK'
  BY <1>3 DEF DeleteJob, Become, Overtakes, Row, RequestsSound
<1>4. ASSUME NEW c \in Clients, NEW s \in Schedules, RunLoad(c, s) PROVE SchedulesTypeOK'
  BY <1>4 DEF RunLoad, Become, Row, RequestsSound
<1>5. ASSUME NEW c \in Clients, UpdateCommit(c) PROVE SchedulesTypeOK'
  BY <1>5 DEF UpdateCommit, RowBecomes, Become, Overtakes, Row, RequestsSound
<1>6. ASSUME NEW c \in Clients, Sync(c) PROVE SchedulesTypeOK'
  BY <1>6 DEF Sync, Return, Become, Overtakes, Wanted, Row, RequestsSound
<1>17. ASSUME NEW c \in Clients, SyncRaises(c) PROVE SchedulesTypeOK'
  BY <1>17 DEF SyncRaises, Return, Become, Overtakes, Row, RequestsSound
<1>7. ASSUME NEW c \in Clients, DeleteCommit(c) PROVE SchedulesTypeOK'
  BY <1>7 DEF DeleteCommit, RowBecomes, Return, Become, Overtakes, Row, RequestsSound
<1>8. ASSUME NEW c \in Clients, Refused(c) PROVE SchedulesTypeOK'
  BY <1>8 DEF Refused, Return, Become, Row, RequestsSound
<1>9. ASSUME NEW c \in Clients, RunCommit(c) PROVE SchedulesTypeOK'
  BY <1>9 DEF RunCommit, Return, Become, Row, RequestsSound
<1>10. ASSUME NEW s \in Schedules, SuiteDeleted(s) PROVE SchedulesTypeOK'
  BY <1>10 DEF SuiteDeleted, RowBecomes, Row, RequestsSound
<1>11. ASSUME NEW s \in Schedules, FireRead(s) PROVE SchedulesTypeOK'
  BY <1>11 DEF FireRead, Row, RequestsSound
<1>12. ASSUME NEW s \in Schedules, FireCommit(s) PROVE SchedulesTypeOK'
  BY <1>12 DEF FireCommit, Row, RequestsSound
<1>13. ASSUME NEW s \in Schedules, FireEnds(s) PROVE SchedulesTypeOK'
  BY <1>13 DEF FireEnds, Row, RequestsSound
<1>14. ASSUME Start PROVE SchedulesTypeOK'
  BY <1>14 DEF Start, Wanted, Row, RequestsSound
<1>15. ASSUME Stop PROVE SchedulesTypeOK'
  BY <1>15 DEF Stop, Row, RequestsSound
<1>16. CASE UNCHANGED schedulesVars
  BY <1>16 DEF schedulesVars, Row, RequestsSound, Wanted
<1>. QED
  BY <1>1, <1>2, <1>3, <1>4, <1>5, <1>6, <1>7, <1>8, <1>9, <1>10, <1>11, <1>12, <1>13, <1>14, <1>15, <1>16, <1>17 DEF SchedulesNext

\* An id without a row has no job and nobody is about to add one.
LEMMA FreshStep == SchedulesIInv /\ [SchedulesNext]_schedulesVars => UnusedIsFresh'
<1>. SUFFICES ASSUME SchedulesIInv, [SchedulesNext]_schedulesVars PROVE UnusedIsFresh'
  OBVIOUS
<1>. USE ValidAssumption, NoRowAssumption, NoJobAssumption, NothingAssumption DEF SchedulesIInv, SchedulesTypeOK, UnusedIsFresh, RequestsSound, requestVars
<1>1. ASSUME NEW c \in Clients, NEW s \in Schedules, CreateCommit(c, s) PROVE UnusedIsFresh'
  BY <1>1 DEF CreateCommit, RowBecomes, Become
<1>2. ASSUME NEW c \in Clients, NEW s \in Schedules, UpdateLoad(c, s) PROVE UnusedIsFresh'
  BY <1>2 DEF UpdateLoad, Become
<1>3. ASSUME NEW c \in Clients, NEW s \in Schedules, DeleteJob(c, s) PROVE UnusedIsFresh'
  BY <1>3 DEF DeleteJob, Become, Overtakes
<1>4. ASSUME NEW c \in Clients, NEW s \in Schedules, RunLoad(c, s) PROVE UnusedIsFresh'
  BY <1>4 DEF RunLoad, Become
<1>5. ASSUME NEW c \in Clients, UpdateCommit(c) PROVE UnusedIsFresh'
  BY <1>5 DEF UpdateCommit, RowBecomes, Become, Overtakes
<1>6. ASSUME NEW c \in Clients, Sync(c) PROVE UnusedIsFresh'
  BY <1>6 DEF Sync, Return, Become, Overtakes, Wanted
<1>17. ASSUME NEW c \in Clients, SyncRaises(c) PROVE UnusedIsFresh'
  BY <1>17 DEF SyncRaises, Return, Become, Overtakes
<1>7. ASSUME NEW c \in Clients, DeleteCommit(c) PROVE UnusedIsFresh'
  BY <1>7 DEF DeleteCommit, RowBecomes, Return, Become, Overtakes
<1>8. ASSUME NEW c \in Clients, Refused(c) PROVE UnusedIsFresh'
  BY <1>8 DEF Refused, Return, Become
<1>9. ASSUME NEW c \in Clients, RunCommit(c) PROVE UnusedIsFresh'
  BY <1>9 DEF RunCommit, Return, Become
<1>10. ASSUME NEW s \in Schedules, SuiteDeleted(s) PROVE UnusedIsFresh'
  BY <1>10 DEF SuiteDeleted, RowBecomes
<1>11. ASSUME NEW s \in Schedules, FireRead(s) PROVE UnusedIsFresh'
  BY <1>11 DEF FireRead
<1>12. ASSUME NEW s \in Schedules, FireCommit(s) PROVE UnusedIsFresh'
  BY <1>12 DEF FireCommit
<1>13. ASSUME NEW s \in Schedules, FireEnds(s) PROVE UnusedIsFresh'
  BY <1>13 DEF FireEnds
<1>14. ASSUME Start PROVE UnusedIsFresh'
  BY <1>14 DEF Start, Wanted
<1>15. ASSUME Stop PROVE UnusedIsFresh'
  BY <1>15 DEF Stop
<1>16. CASE UNCHANGED schedulesVars
  BY <1>16 DEF schedulesVars, Wanted
<1>. QED
  BY <1>1, <1>2, <1>3, <1>4, <1>5, <1>6, <1>7, <1>8, <1>9, <1>10, <1>11, <1>12, <1>13, <1>14, <1>15, <1>16, <1>17 DEF SchedulesNext

\* Requests stay sound.
LEMMA RequestsStep == SchedulesIInv /\ [SchedulesNext]_schedulesVars => RequestsSound'
<1>. SUFFICES ASSUME SchedulesIInv, [SchedulesNext]_schedulesVars PROVE RequestsSound'
  OBVIOUS
<1>. USE ValidAssumption, NoRowAssumption, NoJobAssumption, NothingAssumption DEF SchedulesIInv, SchedulesTypeOK, UnusedIsFresh, RequestsSound, requestVars
<1>1. ASSUME NEW c \in Clients, NEW s \in Schedules, CreateCommit(c, s) PROVE RequestsSound'
  BY <1>1 DEF CreateCommit, RowBecomes, Become, Halves, Row, Halfway
<1>2. ASSUME NEW c \in Clients, NEW s \in Schedules, UpdateLoad(c, s) PROVE RequestsSound'
  BY <1>2 DEF UpdateLoad, Become, Halves, Row, Halfway
<1>3. ASSUME NEW c \in Clients, NEW s \in Schedules, DeleteJob(c, s) PROVE RequestsSound'
  BY <1>3 DEF DeleteJob, Become, Overtakes, Halves, Row, Halfway
<1>4. ASSUME NEW c \in Clients, NEW s \in Schedules, RunLoad(c, s) PROVE RequestsSound'
  BY <1>4 DEF RunLoad, Become, Halves, Row, Halfway
<1>5. ASSUME NEW c \in Clients, UpdateCommit(c) PROVE RequestsSound'
  BY <1>5 DEF UpdateCommit, RowBecomes, Become, Overtakes, Halves, Row, Halfway
<1>6. ASSUME NEW c \in Clients, Sync(c) PROVE RequestsSound'
  BY <1>6 DEF Sync, Return, Become, Overtakes, Wanted, Halves, Row, Halfway
<1>17. ASSUME NEW c \in Clients, SyncRaises(c) PROVE RequestsSound'
  BY <1>17 DEF SyncRaises, Return, Become, Overtakes, Halves, Row, Halfway
<1>7. ASSUME NEW c \in Clients, DeleteCommit(c) PROVE RequestsSound'
  BY <1>7 DEF DeleteCommit, RowBecomes, Return, Become, Overtakes, Halves, Row, Halfway
<1>8. ASSUME NEW c \in Clients, Refused(c) PROVE RequestsSound'
  BY <1>8 DEF Refused, Return, Become, Halves, Row, Halfway
<1>9. ASSUME NEW c \in Clients, RunCommit(c) PROVE RequestsSound'
  BY <1>9 DEF RunCommit, Return, Become, Halves, Row, Halfway
<1>10. ASSUME NEW s \in Schedules, SuiteDeleted(s) PROVE RequestsSound'
  BY <1>10 DEF SuiteDeleted, RowBecomes, Halves, Row, Halfway
<1>11. ASSUME NEW s \in Schedules, FireRead(s) PROVE RequestsSound'
  BY <1>11 DEF FireRead, Halves, Row, Halfway
<1>12. ASSUME NEW s \in Schedules, FireCommit(s) PROVE RequestsSound'
  BY <1>12 DEF FireCommit, Halves, Row, Halfway
<1>13. ASSUME NEW s \in Schedules, FireEnds(s) PROVE RequestsSound'
  BY <1>13 DEF FireEnds, Halves, Row, Halfway
<1>14. ASSUME Start PROVE RequestsSound'
  BY <1>14 DEF Start, Wanted, Halves, Row, Halfway
<1>15. ASSUME Stop PROVE RequestsSound'
  BY <1>15 DEF Stop, Halves, Row, Halfway
<1>16. CASE UNCHANGED schedulesVars
  BY <1>16 DEF schedulesVars, Halves, Row, Halfway, Wanted
<1>. QED
  BY <1>1, <1>2, <1>3, <1>4, <1>5, <1>6, <1>7, <1>8, <1>9, <1>10, <1>11, <1>12, <1>13, <1>14, <1>15, <1>16, <1>17 DEF SchedulesNext

\* A request nobody has overtaken knows the row.
LEMMA HalfwayStep == SchedulesIInv /\ [SchedulesNext]_schedulesVars => HalfwayKnows'
<1>. SUFFICES ASSUME SchedulesIInv, [SchedulesNext]_schedulesVars PROVE HalfwayKnows'
  OBVIOUS
<1>. USE ValidAssumption, NoRowAssumption, NoJobAssumption, NothingAssumption DEF SchedulesIInv, SchedulesTypeOK, UnusedIsFresh, RequestsSound, HalfwayKnows, requestVars
<1>1. ASSUME NEW c \in Clients, NEW s \in Schedules, CreateCommit(c, s) PROVE HalfwayKnows'
  BY <1>1 DEF CreateCommit, RowBecomes, Become, Halves, Halfway
<1>2. ASSUME NEW c \in Clients, NEW s \in Schedules, UpdateLoad(c, s) PROVE HalfwayKnows'
  BY <1>2 DEF UpdateLoad, Become, Halves, Halfway
<1>3. ASSUME NEW c \in Clients, NEW s \in Schedules, DeleteJob(c, s) PROVE HalfwayKnows'
  BY <1>3 DEF DeleteJob, Become, Overtakes, Halves, Halfway
<1>4. ASSUME NEW c \in Clients, NEW s \in Schedules, RunLoad(c, s) PROVE HalfwayKnows'
  BY <1>4 DEF RunLoad, Become, Halves, Halfway
<1>5. ASSUME NEW c \in Clients, UpdateCommit(c) PROVE HalfwayKnows'
  BY <1>5 DEF UpdateCommit, RowBecomes, Become, Overtakes, Halves, Halfway
<1>6. ASSUME NEW c \in Clients, Sync(c) PROVE HalfwayKnows'
  BY <1>6 DEF Sync, Return, Become, Overtakes, Wanted, Halves, Halfway
<1>17. ASSUME NEW c \in Clients, SyncRaises(c) PROVE HalfwayKnows'
  BY <1>17 DEF SyncRaises, Return, Become, Overtakes, Halves, Halfway
<1>7. ASSUME NEW c \in Clients, DeleteCommit(c) PROVE HalfwayKnows'
  BY <1>7 DEF DeleteCommit, RowBecomes, Return, Become, Overtakes, Halves, Halfway
<1>8. ASSUME NEW c \in Clients, Refused(c) PROVE HalfwayKnows'
  BY <1>8 DEF Refused, Return, Become, Halves, Halfway
<1>9. ASSUME NEW c \in Clients, RunCommit(c) PROVE HalfwayKnows'
  BY <1>9 DEF RunCommit, Return, Become, Halves, Halfway
<1>10. ASSUME NEW s \in Schedules, SuiteDeleted(s) PROVE HalfwayKnows'
  BY <1>10 DEF SuiteDeleted, RowBecomes, Halves, Halfway
<1>11. ASSUME NEW s \in Schedules, FireRead(s) PROVE HalfwayKnows'
  BY <1>11 DEF FireRead, Halves, Halfway
<1>12. ASSUME NEW s \in Schedules, FireCommit(s) PROVE HalfwayKnows'
  BY <1>12 DEF FireCommit, Halves, Halfway
<1>13. ASSUME NEW s \in Schedules, FireEnds(s) PROVE HalfwayKnows'
  BY <1>13 DEF FireEnds, Halves, Halfway
<1>14. ASSUME Start PROVE HalfwayKnows'
  BY <1>14 DEF Start, Wanted, Halves, Halfway
<1>15. ASSUME Stop PROVE HalfwayKnows'
  BY <1>15 DEF Stop, Halves, Halfway
<1>16. CASE UNCHANGED schedulesVars
  BY <1>16 DEF schedulesVars, Halves, Halfway, Wanted
<1>. QED
  BY <1>1, <1>2, <1>3, <1>4, <1>5, <1>6, <1>7, <1>8, <1>9, <1>10, <1>11, <1>12, <1>13, <1>14, <1>15, <1>16, <1>17 DEF SchedulesNext

\* The job follows the row.
LEMMA JobStep == SchedulesIInv /\ [SchedulesNext]_schedulesVars => JobFollowsRow'
<1>. SUFFICES ASSUME SchedulesIInv, [SchedulesNext]_schedulesVars PROVE JobFollowsRow'
  OBVIOUS
<1>. USE ValidAssumption, NoRowAssumption, NoJobAssumption, NothingAssumption DEF SchedulesIInv, SchedulesTypeOK, UnusedIsFresh, RequestsSound, HalfwayKnows, JobFollowsRow, requestVars
<1>1. ASSUME NEW c \in Clients, NEW s \in Schedules, CreateCommit(c, s) PROVE JobFollowsRow'
  BY <1>1 DEF CreateCommit, RowBecomes, Become, Halves, Halfway, Quiet, Wanted
<1>2. ASSUME NEW c \in Clients, NEW s \in Schedules, UpdateLoad(c, s) PROVE JobFollowsRow'
  BY <1>2 DEF UpdateLoad, Become, Halves, Halfway, Quiet, Wanted
<1>3. ASSUME NEW c \in Clients, NEW s \in Schedules, DeleteJob(c, s) PROVE JobFollowsRow'
  BY <1>3 DEF DeleteJob, Become, Overtakes, Halves, Halfway, Quiet, Wanted
<1>4. ASSUME NEW c \in Clients, NEW s \in Schedules, RunLoad(c, s) PROVE JobFollowsRow'
  BY <1>4 DEF RunLoad, Become, Halves, Halfway, Quiet, Wanted
<1>5. ASSUME NEW c \in Clients, UpdateCommit(c) PROVE JobFollowsRow'
  BY <1>5 DEF UpdateCommit, RowBecomes, Become, Overtakes, Halves, Halfway, Quiet, Wanted
<1>6. ASSUME NEW c \in Clients, Sync(c) PROVE JobFollowsRow'
  BY <1>6 DEF Sync, Return, Become, Overtakes, Wanted, Halves, Halfway, Quiet
<1>17. ASSUME NEW c \in Clients, SyncRaises(c) PROVE JobFollowsRow'
  BY <1>17 DEF SyncRaises, Return, Become, Overtakes, Halves, Halfway, Quiet
<1>7. ASSUME NEW c \in Clients, DeleteCommit(c) PROVE JobFollowsRow'
  BY <1>7 DEF DeleteCommit, RowBecomes, Return, Become, Overtakes, Halves, Halfway, Quiet, Wanted
<1>8. ASSUME NEW c \in Clients, Refused(c) PROVE JobFollowsRow'
  BY <1>8 DEF Refused, Return, Become, Halves, Halfway, Quiet, Wanted
<1>9. ASSUME NEW c \in Clients, RunCommit(c) PROVE JobFollowsRow'
  BY <1>9 DEF RunCommit, Return, Become, Halves, Halfway, Quiet, Wanted
<1>10. ASSUME NEW s \in Schedules, SuiteDeleted(s) PROVE JobFollowsRow'
  BY <1>10 DEF SuiteDeleted, RowBecomes, Halves, Halfway, Quiet, Wanted
<1>11. ASSUME NEW s \in Schedules, FireRead(s) PROVE JobFollowsRow'
  BY <1>11 DEF FireRead, Halves, Halfway, Quiet, Wanted
<1>12. ASSUME NEW s \in Schedules, FireCommit(s) PROVE JobFollowsRow'
  BY <1>12 DEF FireCommit, Halves, Halfway, Quiet, Wanted
<1>13. ASSUME NEW s \in Schedules, FireEnds(s) PROVE JobFollowsRow'
  BY <1>13 DEF FireEnds, Halves, Halfway, Quiet, Wanted
<1>14. ASSUME Start PROVE JobFollowsRow'
  BY <1>14 DEF Start, Wanted, Halves, Halfway, Quiet
<1>15. ASSUME Stop PROVE JobFollowsRow'
  BY <1>15 DEF Stop, Halves, Halfway, Quiet, Wanted
<1>16. CASE UNCHANGED schedulesVars
  BY <1>16 DEF schedulesVars, Halves, Halfway, Quiet, Wanted
<1>. QED
  BY <1>1, <1>2, <1>3, <1>4, <1>5, <1>6, <1>7, <1>8, <1>9, <1>10, <1>11, <1>12, <1>13, <1>14, <1>15, <1>16, <1>17 DEF SchedulesNext

\* A callback past its first read has seen an enabled row.
LEMMA ReadStep == SchedulesIInv /\ [SchedulesNext]_schedulesVars => ReadWasEnabled'
<1>. SUFFICES ASSUME SchedulesIInv, [SchedulesNext]_schedulesVars PROVE ReadWasEnabled'
  OBVIOUS
<1>. USE ValidAssumption, NoRowAssumption, NoJobAssumption, NothingAssumption DEF SchedulesIInv, SchedulesTypeOK, UnusedIsFresh, RequestsSound, ReadWasEnabled, requestVars
<1>1. ASSUME NEW c \in Clients, NEW s \in Schedules, CreateCommit(c, s) PROVE ReadWasEnabled'
  BY <1>1 DEF CreateCommit, RowBecomes, Become, Enabled
<1>2. ASSUME NEW c \in Clients, NEW s \in Schedules, UpdateLoad(c, s) PROVE ReadWasEnabled'
  BY <1>2 DEF UpdateLoad, Become, Enabled
<1>3. ASSUME NEW c \in Clients, NEW s \in Schedules, DeleteJob(c, s) PROVE ReadWasEnabled'
  BY <1>3 DEF DeleteJob, Become, Overtakes, Enabled
<1>4. ASSUME NEW c \in Clients, NEW s \in Schedules, RunLoad(c, s) PROVE ReadWasEnabled'
  BY <1>4 DEF RunLoad, Become, Enabled
<1>5. ASSUME NEW c \in Clients, UpdateCommit(c) PROVE ReadWasEnabled'
  BY <1>5 DEF UpdateCommit, RowBecomes, Become, Overtakes, Enabled
<1>6. ASSUME NEW c \in Clients, Sync(c) PROVE ReadWasEnabled'
  BY <1>6 DEF Sync, Return, Become, Overtakes, Wanted, Enabled
<1>17. ASSUME NEW c \in Clients, SyncRaises(c) PROVE ReadWasEnabled'
  BY <1>17 DEF SyncRaises, Return, Become, Overtakes, Enabled
<1>7. ASSUME NEW c \in Clients, DeleteCommit(c) PROVE ReadWasEnabled'
  BY <1>7 DEF DeleteCommit, RowBecomes, Return, Become, Overtakes, Enabled
<1>8. ASSUME NEW c \in Clients, Refused(c) PROVE ReadWasEnabled'
  BY <1>8 DEF Refused, Return, Become, Enabled
<1>9. ASSUME NEW c \in Clients, RunCommit(c) PROVE ReadWasEnabled'
  BY <1>9 DEF RunCommit, Return, Become, Enabled
<1>10. ASSUME NEW s \in Schedules, SuiteDeleted(s) PROVE ReadWasEnabled'
  BY <1>10 DEF SuiteDeleted, RowBecomes, Enabled
<1>11. ASSUME NEW s \in Schedules, FireRead(s) PROVE ReadWasEnabled'
  BY <1>11 DEF FireRead, Enabled
<1>12. ASSUME NEW s \in Schedules, FireCommit(s) PROVE ReadWasEnabled'
  BY <1>12 DEF FireCommit, Enabled
<1>13. ASSUME NEW s \in Schedules, FireEnds(s) PROVE ReadWasEnabled'
  BY <1>13 DEF FireEnds, Enabled
<1>14. ASSUME Start PROVE ReadWasEnabled'
  BY <1>14 DEF Start, Wanted, Enabled
<1>15. ASSUME Stop PROVE ReadWasEnabled'
  BY <1>15 DEF Stop, Enabled
<1>16. CASE UNCHANGED schedulesVars
  BY <1>16 DEF schedulesVars, Enabled, Wanted
<1>. QED
  BY <1>1, <1>2, <1>3, <1>4, <1>5, <1>6, <1>7, <1>8, <1>9, <1>10, <1>11, <1>12, <1>13, <1>14, <1>15, <1>16, <1>17 DEF SchedulesNext


\* Initially there are no rows, no jobs and no requests.
LEMMA SchedulesBegin == SchedulesInit => SchedulesIInv
BY ValidAssumption, NoRowAssumption, NoJobAssumption, NothingAssumption
   DEF SchedulesInit, SchedulesIInv, SchedulesTypeOK, JobFollowsRow, HalfwayKnows, RequestsSound,
       UnusedIsFresh, ReadWasEnabled, Wanted, Quiet

\* Type correctness of the schedule tables, the job store and the requests.
THEOREM SchedulesTypeCorrect == SchedulesSpec => []SchedulesTypeOK
<1>1. SchedulesIInv /\ [SchedulesNext]_schedulesVars => SchedulesIInv'
  BY ScheduleTypeStep, FreshStep, RequestsStep, HalfwayStep, JobStep, ReadStep DEF SchedulesIInv
<1>2. SchedulesIInv => SchedulesTypeOK
  BY DEF SchedulesIInv
<1>. QED
  BY <1>1, <1>2, SchedulesBegin, PTL DEF SchedulesSpec

\* The inductive invariant holds in every reachable state.
THEOREM SchedulesInvariance == SchedulesSpec => []SchedulesIInv
<1>1. SchedulesIInv /\ [SchedulesNext]_schedulesVars => SchedulesIInv'
  BY ScheduleTypeStep, FreshStep, RequestsStep, HalfwayStep, JobStep, ReadStep DEF SchedulesIInv
<1>. QED
  BY <1>1, SchedulesBegin, PTL DEF SchedulesSpec

\* The handlers of /schedules keep the job of a schedule equal to what its row
\* asks for, unless one of the named disturbances has come between the commit
\* and the call of the scheduler.
THEOREM JobsFollowRows == SchedulesSpec => []JobFollowsRow
<1>1. SchedulesIInv => JobFollowsRow
  BY DEF SchedulesIInv
<1>. QED
  BY <1>1, SchedulesInvariance, PTL

\* fire_schedule creates executions for live schedules only, however stale the
\* job that called it is.
THEOREM FiringIsChecked == SchedulesSpec => OnlyLiveSchedulesFire
<1>. DEFINE Checked == \A s \in Schedules :
              fire[s] # "sending" /\ fire'[s] = "sending" =>
                  row[s] # NoRow /\ (row[s].enabled \/ s \in turnedOff)
<1>1. SchedulesIInv /\ [SchedulesNext]_schedulesVars => [Checked]_schedulesVars
  <2>. SUFFICES ASSUME SchedulesIInv, [SchedulesNext]_schedulesVars PROVE Checked
    OBVIOUS
  <2>. USE DEF SchedulesIInv, SchedulesTypeOK, ReadWasEnabled, Enabled
  <2>1. CASE UNCHANGED fire
    BY <2>1
  <2>2. ASSUME NEW s \in Schedules, FireCommit(s) PROVE Checked
    BY <2>2 DEF FireCommit
  <2>3. ASSUME NEW s \in Schedules, FireRead(s) \/ FireEnds(s) PROVE Checked
    BY <2>3 DEF FireRead, FireEnds
  <2>4. CASE Stop
    BY <2>4 DEF Stop
  <2>. QED
    BY <2>1, <2>2, <2>3, <2>4
       DEF SchedulesNext, schedulesVars, CreateCommit, UpdateLoad, DeleteJob, RunLoad, UpdateCommit,
           Sync, SyncRaises, DeleteCommit, Refused, RunCommit, SuiteDeleted, Start
<1>. QED
  BY <1>1, SchedulesInvariance, PTL DEF SchedulesSpec, OnlyLiveSchedulesFire
===============================================================================
