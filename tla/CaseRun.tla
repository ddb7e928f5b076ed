-------------------------------- MODULE CaseRun -------------------------------
(***************************************************************************)
(* One list of cases, run by TestRunner.run_suite (path "sync": the CLI,   *)
(* every case in a thread that is joined with a timeout) or by the loop of *)
(* the ExecutionOrchestrator (path "async": arun_case under wait_for).     *)
(*                                                                         *)
(* A timeout abandons a case, it does not stop it: a thread goes on with   *)
(* the rest of its case, and so does the thread in which a gRPC call of    *)
(* the async path runs, while the loop is already at the next case.        *)
(*                                                                         *)
(* What a case declares (skip, setup, variables, assertions, db_asserts,   *)
(* teardown) is chosen where the code looks at it.  Of every dictionary of *)
(* variables the model keeps one name, and of its value the case that gave *)
(* it: all merges in the code are name by name.                            *)
(***************************************************************************)
EXTENDS ExecutionSummary, FiniteSets

CONSTANTS
    N,          \* number of cases
    NoResult

Case == 1..N
Result == [passed: BOOLEAN, status: CaseStatus]

ASSUME NAssumption == N \in Nat \ {0}
ASSUME NoResultAssumption == NoResult \notin Result

VARIABLES
    path,       \* who runs the list
    phase,      \* "begin", "cases" or "over"
    outcome,    \* how the list ended
    at,         \* the case the loop is at
    suite,      \* suite_variables
    timed,      \* the case the loop is at has a timeout
    row,        \* per case: what the loop has recorded
    \* per case, in its own thread or coroutine
    pc,         \* its step; during a call the executor that is called
    local,      \* the dictionary "variables" of the case
    step,       \* the step scope of its TestContext
    result,     \* case_result
    \* history: hooks called per case, what went wrong, whether teardown ran
    hooks, errors, went, torn

loopVars == <<path, phase, outcome, at, suite, timed, row>>
caseVars == <<pc, local, step, result>>
history == <<hooks, errors, went, torn>>
vars == <<loopVars, caseVars, history>>

\* The case that gave the value; 0 for the suite's own value, or none at all.
Value == 0..N
\* {**low, **high}, for one name.
Merge(low, high) == IF high = 0 THEN low ELSE high

Call == {"http", "ws", "grpc"}
Running == {"new", "vars", "setup", "execute", "db", "teardown", "end"} \cup Call
Settled == {"done", "raised", "cancelled"}
Ends == {"none", "setup_error", "raised", "notified"} \cup Outcome
Passing == [passed |-> TRUE, status |-> "PASS"]
Skipped == [passed |-> TRUE, status |-> "SKIP"]
Bad(s) == [passed |-> FALSE, status |-> s]

TypeOK ==
    /\ path \in {"sync", "async"}
    /\ phase \in {"begin", "cases", "over"}
    /\ outcome \in Ends
    /\ at \in 1..(N + 1)
    /\ suite \in Value
    /\ row \in [Case -> Result \cup {NoResult}]
    /\ pc \in [Case -> {"idle"} \cup Running \cup Settled]
    /\ timed \in BOOLEAN
    /\ local \in [Case -> Value] /\ step \in [Case -> Value]
    /\ result \in [Case -> Result]
    /\ hooks \in [Case -> [start: Nat, end: Nat]]
    /\ errors \subseteq Case
    /\ went \in [Case -> SUBSET {"unmet", "db", "raised"}]
    /\ torn \in [Case -> BOOLEAN]

Init ==
    /\ path \in {"sync", "async"}
    /\ phase = "begin" /\ outcome = "none" /\ at = 1
    /\ suite = 0
    /\ row = [i \in Case |-> NoResult]
    /\ pc = [i \in Case |-> "idle"]
    /\ timed = FALSE
    /\ local = [i \in Case |-> 0] /\ step = local
    /\ result = [i \in Case |-> Passing]
    /\ hooks = [i \in Case |-> [start |-> 0, end |-> 0]]
    /\ errors = {}
    /\ went = [i \in Case |-> {}]
    /\ torn = [i \in Case |-> FALSE]

\* The loop has given the case up; its coroutine is gone with it on the async
\* path, its thread is not.
Abandoned(i) == i < at
Orphan(i) == Abandoned(i) /\ path = "async"

Goto(i, label) == pc' = [pc EXCEPT ![i] = label]
Dispatch(i, starts, ends) ==
    hooks' = [hooks EXCEPT ![i] = [start |-> @.start + starts, end |-> @.end + ends]]

-------------------------------------------------------------------------------
(***************************************************************************)
(* One case: _do_run_case and _ado_run_case_async, which differ in how the *)
(* executor is called.  Hooks never raise, PluginManager.dispatch logs.    *)
(***************************************************************************)

CaseStart(i) ==
    /\ pc[i] = "new"
    /\ Goto(i, "vars") /\ Dispatch(i, 1, 0)
    /\ UNCHANGED <<loopVars, local, step, result, errors, went, torn>>

\* case.skip
CaseSkipped(i) ==
    /\ pc[i] = "new"
    /\ Goto(i, "done") /\ Dispatch(i, 1, 1)
    /\ result' = [result EXCEPT ![i] = Skipped]
    /\ UNCHANGED <<loopVars, local, step, errors, went, torn>>

\* variables = {**suite_variables, **case.variables}, read after the hooks.
BuildVariables(i) ==
    /\ pc[i] = "vars"
    /\ \E own \in {0, i} :
        /\ local' = [local EXCEPT ![i] = Merge(suite, own)]
        /\ step' = [step EXCEPT ![i] = Merge(suite, own)]
    /\ Goto(i, "setup")
    /\ UNCHANGED <<loopVars, result, history>>

\* Slip: status is left alone, as the executors leave it.
FailsKeepingStatus(i) ==
    /\ result' = [result EXCEPT ![i].passed = FALSE]
    /\ went' = [went EXCEPT ![i] = @ \cup {"raised"}]
    /\ errors' = errors \cup {i}
    /\ Goto(i, "end")

\* Slip: the teardown is moved to a finally.
FailsTearingDown(i) ==
    /\ result' = [result EXCEPT ![i] = Bad("FAIL")]
    /\ went' = [went EXCEPT ![i] = @ \cup {"raised"}]
    /\ errors' = errors \cup {i}
    /\ Goto(i, "teardown")

\* The except blocks: db_asserts and teardown are skipped.
Fails(i) ==
    /\ result' = [result EXCEPT ![i] = Bad("FAIL")]
    /\ went' = [went EXCEPT ![i] = @ \cup {"raised"}]
    /\ errors' = errors \cup {i}
    /\ Goto(i, "end")

\* What the setup extracts is visible to the case and to its step scope.
Setup(i) ==
    /\ pc[i] = "setup"
    /\ \E v \in {0, i} :
        /\ local' = [local EXCEPT ![i] = Merge(@, v)]
        /\ step' = [step EXCEPT ![i] = Merge(@, v)]
    /\ Goto(i, "execute")
    /\ UNCHANGED <<loopVars, result, history>>

\* The actions before the one that raises have already changed "variables".
SetupRaises(i) ==
    /\ pc[i] = "setup"
    /\ \E v \in {0, i} : local' = [local EXCEPT ![i] = Merge(@, v)]
    /\ Fails(i)
    /\ UNCHANGED <<loopVars, step, hooks, torn>>

\* The first executor that supports the case is called.
ChooseExecutor(i) ==
    /\ pc[i] = "execute"
    /\ \E x \in Call : Goto(i, x)
    /\ UNCHANGED <<loopVars, local, step, result, history>>

\* NoExecutorFoundError: case_end is dispatched and the error goes up.
NoExecutor(i) ==
    /\ pc[i] = "execute"
    /\ Goto(i, "raised") /\ Dispatch(i, 0, 1)
    /\ UNCHANGED <<loopVars, local, step, result, errors, went, torn>>

\* The executor returns.  Assertions that do not hold, a WebSocket error and a
\* gRPC error that is no GrpcError (swallowed) set passed and leave status at
\* PASS.  A gRPC call of the async path runs in a pool thread, whose context is
\* not that of the case: what it extracts is not seen again.
Respond(i) ==
    /\ pc[i] \in Call
    /\ Goto(i, IF Orphan(i) THEN "cancelled" ELSE "db")
    /\ \E met, swallowed, extracted \in BOOLEAN :
        /\ swallowed => ~met /\ pc[i] = "grpc"
        /\ extracted => pc[i] = "http" \/ (pc[i] = "grpc" /\ path = "sync")
        /\ result' = [result EXCEPT ![i].passed = met]
        /\ went' = [went EXCEPT ![i] = IF met THEN @ ELSE @ \cup {"unmet"}]
        /\ errors' = IF swallowed THEN errors \cup {i} ELSE errors
        /\ step' = [step EXCEPT ![i] = IF extracted THEN i ELSE @]
    /\ UNCHANGED <<loopVars, local, hooks, torn>>

\* Slip: the late call of an abandoned case reports to the plugins.
CallRaisesAnyway(i) ==
    /\ pc[i] \in Call
    /\ Fails(i)
    /\ UNCHANGED <<loopVars, local, step, hooks, torn>>

CallRaises(i) ==
    /\ pc[i] \in Call /\ ~Orphan(i)
    /\ Fails(i)
    /\ UNCHANGED <<loopVars, local, step, hooks, torn>>

\* Nobody awaits the late exception of an orphan.
OrphanRaises(i) ==
    /\ pc[i] \in Call /\ Orphan(i)
    /\ Goto(i, "cancelled")
    /\ UNCHANGED <<loopVars, local, step, result, history>>

DbAsserts(i) ==
    /\ pc[i] = "db"
    /\ Goto(i, "teardown")
    /\ \E held \in BOOLEAN :
        /\ result' = [result EXCEPT ![i] = IF held THEN @ ELSE Bad("FAIL")]
        /\ went' = [went EXCEPT ![i] = IF held THEN @ ELSE @ \cup {"db"}]
    /\ UNCHANGED <<loopVars, local, step, hooks, errors, torn>>

DbRaises(i) ==
    /\ pc[i] = "db"
    /\ Fails(i)
    /\ UNCHANGED <<loopVars, local, step, hooks, torn>>

\* run_teardown logs what its actions raise.
Teardown(i) ==
    /\ pc[i] = "teardown"
    /\ \E has \in BOOLEAN : torn' = [torn EXCEPT ![i] = has]
    /\ Goto(i, "end")
    /\ UNCHANGED <<loopVars, local, step, result, hooks, errors, went>>

\* end_step(promote=True), extracted_vars = get_all_variables(), case_end.
CaseEnd(i) ==
    /\ pc[i] = "end"
    /\ Goto(i, "done") /\ Dispatch(i, 0, 1)
    /\ UNCHANGED <<loopVars, local, step, result, errors, went, torn>>

-------------------------------------------------------------------------------
(***************************************************************************)
(* The loop over the cases.                                                *)
(***************************************************************************)

\* suite_start and the suite setup of run_suite; the orchestrator resolves
\* the suite setups before its loop.
Begin ==
    /\ phase = "begin"
    /\ phase' = "cases"
    /\ UNCHANGED <<path, outcome, at, suite, timed, row, caseVars, history>>

\* The setup raises: run_suite returns before cases, teardown and suite_end.
SetupError ==
    /\ phase = "begin" /\ path = "sync"
    /\ phase' = "over" /\ outcome' = "setup_error"
    /\ UNCHANGED <<path, at, suite, timed, row, caseVars, history>>

AtCase == phase = "cases" /\ at <= N

Launch ==
    /\ AtCase /\ pc[at] = "idle"
    /\ Goto(at, "new")
    /\ timed' \in BOOLEAN
    /\ UNCHANGED <<path, phase, outcome, at, suite, row, local, step, result, history>>

Record(r) == row' = [row EXCEPT ![at] = r] /\ at' = at + 1

\* The orchestrator finds no case, no YAML or YAML that does not parse.
Reject ==
    /\ AtCase /\ path = "async" /\ pc[at] = "idle"
    /\ Record(Bad("ERROR"))
    /\ UNCHANGED <<path, phase, outcome, suite, timed, caseVars, history>>

\* The result is recorded and its variables go to the later cases.
Collect ==
    /\ AtCase /\ pc[at] = "done"
    /\ Record(result[at])
    /\ suite' = Merge(suite, IF result[at].status = "SKIP" THEN 0 ELSE step[at])
    /\ UNCHANGED <<path, phase, outcome, timed, caseVars, history>>

\* The orchestrator records what arun_case raises and goes on.
CollectRaised ==
    /\ AtCase /\ pc[at] = "raised" /\ path = "async"
    /\ Record(Bad("ERROR"))
    /\ UNCHANGED <<path, phase, outcome, suite, timed, caseVars, history>>

\* run_suite does not: no teardown, no suite_end, no notification.  Neither
\* does the orchestrator when YAML parses and is no case (ValueError).
SuiteRaises ==
    /\ AtCase
    /\ \/ path = "sync" /\ pc[at] = "raised"
       \/ path = "async" /\ pc[at] = "idle"
    /\ phase' = "over" /\ outcome' = "raised"
    /\ UNCHANGED <<path, at, suite, timed, row, caseVars, history>>

\* Slip: what the case had so far goes to the later cases.
TimeOutKeepsVariables ==
    /\ AtCase /\ timed
    /\ pc[at] \in (IF path = "sync" THEN Running ELSE Call)
    /\ Record(Bad("TIMEOUT"))
    /\ suite' = Merge(suite, step[at])
    /\ errors' = errors \cup {at}
    /\ UNCHANGED <<path, phase, outcome, timed, caseVars, hooks, went, torn>>

\* Slip: the coroutine waits for the pool thread before it gives up.
TimeOutWaitsForThread ==
    /\ AtCase /\ timed
    /\ \/ path = "sync" /\ pc[at] \in Running /\ UNCHANGED pc
       \/ path = "async" /\ pc[at] \in {"http", "ws"} /\ Goto(at, "cancelled")
    /\ Record(Bad("TIMEOUT"))
    /\ errors' = errors \cup {at}
    /\ UNCHANGED <<path, phase, outcome, suite, timed, local, step, result,
                   hooks, went, torn>>

\* thread.join returns and the thread is alive, or wait_for cancels the
\* coroutine at its only await.  A pool thread stays if it was running.
TimeOut ==
    /\ AtCase /\ timed
    /\ \/ /\ path = "sync" /\ pc[at] \in Running
          /\ UNCHANGED pc
       \/ /\ path = "async" /\ pc[at] \in Call
          /\ \/ Goto(at, "cancelled")
             \/ pc[at] = "grpc" /\ UNCHANGED pc
    /\ Record(Bad("TIMEOUT"))
    /\ errors' = errors \cup {at}
    /\ UNCHANGED <<path, phase, outcome, suite, timed, local, step, result,
                   hooks, went, torn>>

Number(s) == Cardinality({i \in Case : row[i] # NoResult /\ row[i].status = s})
Summary == [total |-> N, passed |-> Number("PASS"), failed |-> Number("FAIL"),
            error |-> Number("ERROR"), skipped |-> Number("SKIP")]

\* Suite teardown, suite_end and the notifications; or the summary, the final
\* status and the report.
Finish ==
    /\ phase = "cases" /\ at = N + 1
    /\ phase' = "over"
    /\ outcome' = IF path = "sync" THEN "notified" ELSE StatusFromSummary(Summary)
    /\ UNCHANGED <<path, at, suite, timed, row, caseVars, history>>

OwnStep(i) ==
    \/ CaseStart(i) \/ CaseSkipped(i) \/ BuildVariables(i) \/ Setup(i) \/ SetupRaises(i)
    \/ ChooseExecutor(i) \/ NoExecutor(i) \/ DbAsserts(i) \/ DbRaises(i)
    \/ Teardown(i) \/ CaseEnd(i)
CallStep(i) == Respond(i) \/ CallRaises(i) \/ OrphanRaises(i)
Loop == \/ Begin \/ SetupError \/ Launch \/ Reject \/ Collect \/ CollectRaised
        \/ SuiteRaises \/ TimeOut \/ Finish

Next == Loop \/ \E i \in Case : OwnStep(i) \/ CallStep(i)

Spec == Init /\ [][Next]_vars

\* Every thread and the loop go on.  Only the call of a case that has a
\* timeout may hang; without one the clients' own timeouts end it.
Fairness ==
    /\ WF_vars(Loop)
    /\ \A i \in Case : WF_vars(OwnStep(i)) /\ WF_vars(~(timed /\ at = i) /\ CallStep(i))

FairSpec == Spec /\ Fairness

-------------------------------------------------------------------------------
(***************************************************************************)
(* Properties.                                                             *)
(***************************************************************************)

Judged(i) == row[i] # NoResult /\ row[i].status \in {"PASS", "FAIL"}

\* Plugins see every case that the loop has judged begin once and end once,
\* whatever raised in between, and never see a case end that the async path
\* has timed out; no case begins or ends twice, even when its thread outlives
\* it.  (_do_run_case, _ado_run_case_async, _cleanup_on_timeout)
HooksPair ==
    \A i \in Case :
        /\ hooks[i].end <= hooks[i].start /\ hooks[i].start <= 1
        /\ Judged(i) => hooks[i].start = 1 /\ hooks[i].end = 1
        /\ path = "async" /\ row[i] = Bad("TIMEOUT") => hooks[i].end = 0
        /\ row[i] = Bad("TIMEOUT") => i \in errors
        /\ "raised" \in went[i] => i \in errors

\* A recorded verdict is about this very run of the case: nothing raised and no
\* database assertion failed behind a PASS, one of the two is behind a FAIL,
\* and passed says that nothing at all went wrong.  A case whose thread outlives
\* it cannot turn it.  (case_result of runner.py and of the executors)
VerdictIsEarned ==
    \A i \in Case : Judged(i) =>
        /\ row[i].status = "FAIL" <=> went[i] \cap {"raised", "db"} # {}
        /\ row[i].passed <=> went[i] = {}

\* A case teardown never runs on the remains of a setup, a call or a database
\* assertion that raised, and a case the async path gives up is not torn down
\* later behind the back of the cases that follow.
TeardownOnlyAfterTheRest ==
    \A i \in Case : torn[i] =>
        /\ "raised" \notin went[i]
        /\ path = "async" => row[i] # Bad("TIMEOUT")

\* The variables a case works with come from the suite, from itself or from
\* cases the loop has judged: what a case has set before it timed out never
\* reaches another one, and only a case that was itself given up can see
\* values of a later one.
ValuesComeFromJudgedCases ==
    \A i \in Case : LET j == local[i] IN
        /\ j \notin {0, i} => Judged(j)
        /\ j > i => row[i] = Bad("TIMEOUT")

\* What the loop has recorded stays: the late end of an abandoned thread or
\* call changes no result and no variable of the list.
RecordedIsFinal ==
    [][/\ \A i \in Case : row[i] # NoResult => row'[i] = row[i]
       /\ suite' # suite => at' = at + 1]_vars

\* The parts of the inductive invariant: what the step of a case says about
\* its hooks and its verdict, what the position of the loop says about the rows
\* and the threads, and where every value comes from.
HooksFollow(i) ==
    hooks[i] = [start |-> IF pc[i] \in {"idle", "new"} THEN 0 ELSE 1,
                end |-> IF pc[i] \in {"done", "raised"} THEN 1 ELSE 0]

VerdictFollows(i) ==
    /\ result[i].passed <=> went[i] = {}
    /\ result[i].status = "FAIL" <=> went[i] \cap {"raised", "db"} # {}
    /\ result[i].status \in {"PASS", "FAIL", "SKIP"}
    /\ result[i].status = "SKIP" => pc[i] = "done"
    /\ pc[i] \in {"idle", "new", "vars", "setup", "execute", "raised"} \cup Call => went[i] = {}
    /\ pc[i] = "db" => went[i] \subseteq {"unmet"}
    /\ pc[i] = "teardown" => "raised" \notin went[i]
    /\ torn[i] => pc[i] \in {"end", "done"} /\ "raised" \notin went[i]
    /\ "raised" \in went[i] => i \in errors

RowFollows(i) ==
    /\ row[i] # NoResult <=> i < at
    /\ i > at => pc[i] = "idle"
    /\ row[i] \in {NoResult, Bad("TIMEOUT"), Bad("ERROR")} \/ (pc[i] = "done" /\ row[i] = result[i])
    /\ i < at /\ pc[i] \in Running => row[i] = Bad("TIMEOUT")
    /\ row[i] = Bad("TIMEOUT") => i \in errors
    /\ row[i] = Bad("TIMEOUT") /\ path = "async" => pc[i] \in {"cancelled", "grpc"}

ValuesFollow(i) ==
    /\ step[i] \notin {0, i} => Judged(step[i])
    /\ local[i] \notin {0, i} => Judged(local[i])
    /\ local[i] > i => row[i] = Bad("TIMEOUT")

SuiteFollows == suite # 0 => Judged(suite)

IInv ==
    /\ TypeOK
    /\ SuiteFollows
    /\ \A i \in Case : HooksFollow(i) /\ VerdictFollows(i) /\ RowFollows(i) /\ ValuesFollow(i)

\* However calls hang, the list ends: the loop never waits for a case that has
\* a timeout.  (run_case, arun_case)
ListEnds == <>(phase = "over")

\* "passed: 是否通过; status: 执行状态（PASS/FAIL/...）" (models.py, CaseResult):
\* an execution is reported as PASSED only if every case of it passed.
PassedMeansAllPassed ==
    outcome = "PASSED" => \A i \in Case : row[i].passed
===============================================================================
