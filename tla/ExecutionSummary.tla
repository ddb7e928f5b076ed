--------------------------- MODULE ExecutionSummary ---------------------------
(***************************************************************************)
(* The summary of one execution and the status derived from it.            *)
(* framework/execution_orchestrator.py counts the case results of a run    *)
(* and infers the final status of the execution from the counts.           *)
(***************************************************************************)
EXTENDS Naturals

\* framework/models.py: CaseStatus.
CaseStatus == {"PASS", "FAIL", "SKIP", "TIMEOUT", "ERROR"}

Tally == [total: Nat, passed: Nat, failed: Nat, error: Nat, skipped: Nat]

ZeroTally == [total |-> 0, passed |-> 0, failed |-> 0, error |-> 0, skipped |-> 0]

\* One more entry in the results list: len(results) grows by one and at most
\* one of the four counters does. TIMEOUT has no counter.
Count(t, s) ==
    [total   |-> t.total + 1,
     passed  |-> t.passed  + (IF s = "PASS"  THEN 1 ELSE 0),
     failed  |-> t.failed  + (IF s = "FAIL"  THEN 1 ELSE 0),
     error   |-> t.error   + (IF s = "ERROR" THEN 1 ELSE 0),
     skipped |-> t.skipped + (IF s = "SKIP"  THEN 1 ELSE 0)]

Outcome == {"PASSED", "FAILED", "ERROR"}

\* Slip: a status of its own when everything was skipped.
StatusWithSkipped(t) ==
    IF t.total # 0 /\ t.skipped = t.total THEN "SKIPPED"
    ELSE IF t.passed = t.total THEN "PASSED" ELSE "FAILED"

\* _execution_status_from_summary: the tests are made in this order.
StatusFromSummary(t) ==
    IF t.total = 0 \/ t.error = t.total THEN "ERROR"
    ELSE IF t.passed = t.total THEN "PASSED" ELSE "FAILED"
===============================================================================
