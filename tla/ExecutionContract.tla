-------------------------- MODULE ExecutionContract ---------------------------
(***************************************************************************)
(* What a client of the API may rely on about one execution record and its *)
(* report, whatever runs, retries and crashes happen behind them: a verdict*)
(* is published once, together with its status, and from then on only an   *)
(* administrative mark (a cancellation, or the failure mark of a schedule) *)
(* can hide it.                                                            *)
(***************************************************************************)
CONSTANT Execs

VARIABLES status,   \* the status column of the execution
          verdict   \* the outcome its report states, "none" without a report

cvars == <<status, verdict>>

Verdict == {"PASSED", "FAILED", "ERROR"}

ContractTypeOK ==
    /\ status \in [Execs -> Verdict \cup {"absent", "PENDING", "CANCELLED"}]
    /\ verdict \in [Execs -> Verdict \cup {"none"}]

ContractInit ==
    /\ status = [e \in Execs |-> "absent"]
    /\ verdict = [e \in Execs |-> "none"]

Submit(e) ==
    /\ status[e] = "absent"
    /\ status' = [status EXCEPT ![e] = "PENDING"]
    /\ UNCHANGED verdict

\* The verdict and the status become visible in the same commit.
Publish(e) ==
    /\ status[e] # "absent"
    /\ verdict[e] = "none"
    /\ \E v \in Verdict :
        /\ verdict' = [verdict EXCEPT ![e] = v]
        /\ status' = [status EXCEPT ![e] = v]

\* A cancellation or a failure mark touches the status alone.
Override(e) ==
    /\ status[e] # "absent"
    /\ \E s \in {"CANCELLED", "ERROR"} : status' = [status EXCEPT ![e] = s]
    /\ UNCHANGED verdict

ContractNext == \E e \in Execs : Submit(e) \/ Publish(e) \/ Override(e)

ContractSpec == ContractInit /\ [][ContractNext]_cvars
===============================================================================
