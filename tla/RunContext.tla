------------------------------- MODULE RunContext -----------------------------
(***************************************************************************)
(* What an execution runs with: the runner of its environment, and the     *)
(* variables that the setups of its suites have extracted, an access token *)
(* for instance.  Both are kept by the process: _runner_cache for ever,    *)
(* _suite_setup_cache for 300 seconds; environments and suites are edited  *)
(* meanwhile.                                                              *)
(*                                                                         *)
(* One process, as each has its own caches.  Executions interleave at their*)
(* awaits.  An environment is what its server is; YamlServer is what the   *)
(* YAML files say of every environment, perhaps nothing at all.            *)
(***************************************************************************)
EXTENDS Naturals

CONSTANTS
    Runs,       \* executions in progress together
    Envs,       \* names of environments
    Suites,     \* names of suites
    Servers,
    YamlServer,
    MaxEdits,   \* bound: changes to environments and suites
    Nothing, NoEntry

ASSUME YamlAssumption == YamlServer \in Servers
ASSUME NothingAssumption == Nothing \notin Servers \cup Runs \cup Suites \cup Envs
ASSUME NoEntryAssumption == NoEntry \notin Servers \cup {Nothing}

VARIABLES
    row,        \* the server in the row of each environment, if it has one
    def,        \* what the tables say of each suite
    edits,
    runner,     \* _runner_cache: the server that the runner talks to
    lock,       \* the holder of _runner_cache_lock
    cache,      \* _suite_setup_cache, without the entries that have expired
    pc, env,
    server,     \* of each run: the server of its runner
    todo,       \* suites whose setup is still to be resolved
    at,         \* the suite that is being looked up
    token,      \* of each run: the server that issued the token of each suite
    own         \* the suites whose own variables it has

storeVars == <<row, def, edits>>
runVars == <<pc, env, server, todo, at, token, own>>
vars == <<storeVars, runner, lock, cache, runVars>>

\* Setup and variables are found in the config of the row, else in a case of the
\* suite, or in the cases of the run if there is no row.
Definition == [setup: BOOLEAN, variables: BOOLEAN]

Steps == {"idle", "waiting", "loading", "suites", "querying", "ready"}

TypeOK ==
    /\ row \in [Envs -> Servers \cup {Nothing}]
    /\ def \in [Suites -> Definition]
    /\ edits \in Nat
    /\ runner \in [Envs -> Servers \cup {Nothing}]
    /\ lock \in Runs \cup {Nothing}
    /\ cache \in [Suites -> [Envs -> Servers \cup {Nothing, NoEntry}]]
    /\ pc \in [Runs -> Steps]
    /\ env \in [Runs -> Envs \cup {Nothing}]
    /\ server \in [Runs -> Servers \cup {Nothing}]
    /\ todo \in [Runs -> SUBSET Suites]
    /\ at \in [Runs -> Suites \cup {Nothing}]
    /\ token \in [Runs -> [Suites -> Servers \cup {Nothing}]]
    /\ own \in [Runs -> SUBSET Suites]

NoRunners == [e \in Envs |-> Nothing]
NoEntries == [s \in Suites |-> [e \in Envs |-> NoEntry]]
NoTokens == [s \in Suites |-> Nothing]

Init ==
    /\ row = [e \in Envs |-> Nothing]
    /\ def \in [Suites -> Definition]
    /\ edits = 0
    /\ runner = NoRunners
    /\ lock = Nothing
    /\ cache = NoEntries
    /\ pc = [r \in Runs |-> "idle"]
    /\ env = [r \in Runs |-> Nothing]
    /\ server = [r \in Runs |-> Nothing]
    /\ todo = [r \in Runs |-> {}]
    /\ at = [r \in Runs |-> Nothing]
    /\ token = [r \in Runs |-> NoTokens]
    /\ own = [r \in Runs |-> {}]

Goto(r, step) == pc' = [pc EXCEPT ![r] = step]

\* The run is over: its variables go with it.
Forget(r) ==
    /\ Goto(r, "idle")
    /\ env' = [env EXCEPT ![r] = Nothing]
    /\ server' = [server EXCEPT ![r] = Nothing]
    /\ todo' = [todo EXCEPT ![r] = {}]
    /\ at' = [at EXCEPT ![r] = Nothing]
    /\ token' = [token EXCEPT ![r] = NoTokens]
    /\ own' = [own EXCEPT ![r] = {}]

-------------------------------------------------------------------------------
(***************************************************************************)
(* create_runner.                                                          *)
(***************************************************************************)

Start(r, e, names) ==
    /\ pc[r] = "idle"
    /\ Goto(r, "waiting")
    /\ env' = [env EXCEPT ![r] = e]
    /\ todo' = [todo EXCEPT ![r] = names]
    /\ UNCHANGED <<storeVars, runner, lock, cache, server, at, token, own>>

RunnerHit(r) ==
    /\ pc[r] = "waiting" /\ lock = Nothing
    /\ runner[env[r]] # Nothing
    /\ server' = [server EXCEPT ![r] = runner[env[r]]]
    /\ Goto(r, "suites")
    /\ UNCHANGED <<storeVars, runner, lock, cache, env, todo, at, token, own>>

\* Slip: the environment is read before the lock is taken.
RunnerMissUnlocked(r) ==
    /\ pc[r] = "waiting" /\ lock = Nothing
    /\ runner[env[r]] = Nothing
    /\ Goto(r, "loading")
    /\ UNCHANGED <<storeVars, runner, lock, cache, env, server, todo, at, token, own>>

\* The lock is held while the database is asked for the environment.
RunnerMiss(r) ==
    /\ pc[r] = "waiting" /\ lock = Nothing
    /\ runner[env[r]] = Nothing
    /\ lock' = r
    /\ Goto(r, "loading")
    /\ UNCHANGED <<storeVars, runner, cache, env, server, todo, at, token, own>>

Unlock == lock' = Nothing

\* The row if there is one and the database answers, else the YAML files. What
\* happens between the query and the release of the lock (the session is
\* closed, the clients are built) changes nothing that anybody else can see.
RunnerLoaded(r) ==
    /\ pc[r] = "loading"
    /\ \E found \in {row[env[r]], Nothing} :
        LET s == IF found = Nothing THEN YamlServer ELSE found IN
        /\ runner' = [runner EXCEPT ![env[r]] = s]
        /\ server' = [server EXCEPT ![r] = s]
    /\ Unlock
    /\ Goto(r, "suites")
    /\ UNCHANGED <<storeVars, cache, env, todo, at, token, own>>

\* Slip: the lock is released on the way of success only.
RunnerFailsLocked(r) ==
    /\ pc[r] = "loading"
    /\ Forget(r)
    /\ UNCHANGED <<storeVars, runner, lock, cache>>

\* The YAML files do not pass the validation: the execution ends as ERROR.
RunnerFails(r) ==
    /\ pc[r] = "loading"
    /\ Unlock
    /\ Forget(r)
    /\ UNCHANGED <<storeVars, runner, cache>>

-------------------------------------------------------------------------------
(***************************************************************************)
(* _resolve_and_run_suite_setups.  The lock of the setup cache is never    *)
(* held over an await, so it orders nothing.                               *)
(***************************************************************************)

\* Slip: nobody checks that there is an entry.
SetupHitUnchecked(r, s) ==
    /\ pc[r] = "suites" /\ s \in todo[r]
    /\ token' = [token EXCEPT ![r][s] = cache[s][env[r]]]
    /\ todo' = [todo EXCEPT ![r] = @ \ {s}]
    /\ UNCHANGED <<storeVars, runner, lock, cache, pc, env, server, at, own>>

\* Slip: the key of an entry is the name of the suite alone.
SetupHitAnywhere(r, s) ==
    /\ pc[r] = "suites" /\ s \in todo[r]
    /\ \E e \in Envs :
        /\ cache[s][e] # NoEntry
        /\ token' = [token EXCEPT ![r][s] = cache[s][e]]
    /\ todo' = [todo EXCEPT ![r] = @ \ {s}]
    /\ UNCHANGED <<storeVars, runner, lock, cache, pc, env, server, at, own>>

SetupHit(r, s) ==
    /\ pc[r] = "suites" /\ s \in todo[r]
    /\ cache[s][env[r]] # NoEntry
    /\ token' = [token EXCEPT ![r][s] = cache[s][env[r]]]
    /\ todo' = [todo EXCEPT ![r] = @ \ {s}]
    /\ UNCHANGED <<storeVars, runner, lock, cache, pc, env, server, at, own>>

SetupMiss(r, s) ==
    /\ pc[r] = "suites" /\ s \in todo[r]
    /\ cache[s][env[r]] = NoEntry
    /\ at' = [at EXCEPT ![r] = s]
    /\ Goto(r, "querying")
    /\ UNCHANGED <<storeVars, runner, lock, cache, env, server, todo, token, own>>

\* The suite at[r] is dealt with: the run has got the token t, the cache keeps
\* the entry, and the variables that the suite defines are merged.
Resolved(r, t, entry) ==
    LET s == at[r] IN
    /\ cache' = [cache EXCEPT ![s][env[r]] = entry]
    /\ token' = [token EXCEPT ![r][s] = t]
    /\ own' = [own EXCEPT ![r] = IF def[s].variables THEN @ \cup {s} ELSE @]
    /\ todo' = [todo EXCEPT ![r] = @ \ {s}]
    /\ at' = [at EXCEPT ![r] = Nothing]
    /\ Goto(r, "suites")
    /\ UNCHANGED <<storeVars, runner, lock, env, server>>

NoSetup(r) ==
    /\ pc[r] = "querying" /\ ~def[at[r]].setup
    /\ Resolved(r, Nothing, Nothing)

\* run_setup contains no await: it, and the new entry, are one step.
SetupSucceeds(r) ==
    /\ pc[r] = "querying" /\ def[at[r]].setup
    /\ Resolved(r, server[r], server[r])

\* The empty result is kept as well. Actions before the one that failed may have
\* left their variables with this run, and with no other.
SetupFails(r) ==
    /\ pc[r] = "querying" /\ def[at[r]].setup
    /\ \E t \in {server[r], Nothing} : Resolved(r, t, Nothing)

\* Two suites have this name (nothing forbids it), or the database fails: the
\* execution ends as ERROR.
LookupFails(r) ==
    /\ pc[r] = "querying"
    /\ Forget(r)
    /\ UNCHANGED <<storeVars, runner, lock, cache>>

SetupsDone(r) ==
    /\ pc[r] = "suites" /\ todo[r] = {}
    /\ Goto(r, "ready")
    /\ UNCHANGED <<storeVars, runner, lock, cache, env, server, todo, at, token, own>>

\* The cases have run.
Finish(r) ==
    /\ pc[r] = "ready"
    /\ Forget(r)
    /\ UNCHANGED <<storeVars, runner, lock, cache>>

-------------------------------------------------------------------------------
(***************************************************************************)
(* The surroundings.                                                       *)
(***************************************************************************)

\* 300 seconds have passed.
Expire(s, e) ==
    /\ cache[s][e] # NoEntry
    /\ cache' = [cache EXCEPT ![s][e] = NoEntry]
    /\ UNCHANGED <<storeVars, runner, lock, runVars>>

Edit == edits < MaxEdits /\ edits' = edits + 1

\* The commit of a creation, update or deletion. Nobody calls
\* invalidate_runner_cache.
EnvironmentWritten(e, c) ==
    /\ Edit
    /\ row' = [row EXCEPT ![e] = c]
    /\ UNCHANGED <<def, runner, lock, cache, runVars>>

SuiteWritten(s, d) ==
    /\ Edit
    /\ def' = [def EXCEPT ![s] = d]
    /\ UNCHANGED <<row, runner, lock, cache, runVars>>

Restart ==
    /\ Edit
    /\ runner' = NoRunners
    /\ lock' = Nothing
    /\ cache' = NoEntries
    /\ pc' = [r \in Runs |-> "idle"]
    /\ env' = [r \in Runs |-> Nothing]
    /\ server' = [r \in Runs |-> Nothing]
    /\ todo' = [r \in Runs |-> {}]
    /\ at' = [r \in Runs |-> Nothing]
    /\ token' = [r \in Runs |-> NoTokens]
    /\ own' = [r \in Runs |-> {}]
    /\ UNCHANGED <<row, def>>

\* What the event loop and the database do for a run without being asked.
Advance(r) ==
    \/ RunnerLoaded(r) \/ RunnerFails(r)
    \/ \E s \in Suites : SetupHit(r, s) \/ SetupMiss(r, s)
    \/ NoSetup(r) \/ SetupSucceeds(r) \/ SetupFails(r) \/ LookupFails(r)
    \/ SetupsDone(r)

Next ==
    \/ \E r \in Runs :
        \/ \E e \in Envs, names \in SUBSET Suites : Start(r, e, names)
        \/ RunnerHit(r) \/ RunnerMiss(r)
        \/ Advance(r)
        \/ Finish(r)
    \/ \E s \in Suites, e \in Envs : Expire(s, e)
    \/ \E e \in Envs, c \in Servers \cup {Nothing} : EnvironmentWritten(e, c)
    \/ \E s \in Suites, d \in Definition : SuiteWritten(s, d)
    \/ Restart

Spec == Init /\ [][Next]_vars

\* The loop resumes every coroutine that can go on, the database answers or
\* raises, and asyncio.Lock wakes its waiters in the order of their arrival.
Fairness ==
    \A r \in Runs : WF_vars(Advance(r)) /\ SF_vars(RunnerHit(r) \/ RunnerMiss(r))
FairSpec == Spec /\ Fairness

-------------------------------------------------------------------------------
(***************************************************************************)
(* Properties.                                                             *)
(***************************************************************************)

\* A run that has a token of some suite, from its own setup or from that of an
\* earlier run, got it from the very server that its cases are sent to, however
\* environments are edited, entries expire and runs overlap. It takes the lock
\* of create_runner, the environment in the key of an entry, and a runner that
\* lives at least as long as the entries made with it.
TokensOfOwnServer ==
    \A r \in Runs, s \in Suites : token[r][s] # Nothing => token[r][s] = server[r]

\* create_runner makes one runner at a time, and only for an environment that
\* has none.
LockSound ==
    /\ \A r \in Runs : pc[r] = "loading" <=> lock = r
    /\ \A r \in Runs : pc[r] = "loading" => runner[env[r]] = Nothing

\* A run is in an environment, looks up a suite that is still to be resolved,
\* and has no token before it has a runner.
RunsPlaced ==
    /\ \A r \in Runs : pc[r] # "idle" => env[r] \in Envs
    /\ \A r \in Runs : pc[r] = "querying" => at[r] \in todo[r]
    /\ \A r \in Runs : pc[r] \in {"idle", "waiting", "loading"} => token[r] = NoTokens

\* All runs in an environment share its one runner.
RunnerShared ==
    \A r \in Runs : pc[r] \in {"suites", "querying", "ready"} =>
        server[r] # Nothing /\ server[r] = runner[env[r]]

\* A token in the cache comes from the runner that the process still has.
EntriesOfRunner ==
    \A s \in Suites, e \in Envs :
        cache[s][e] \in Servers => cache[s][e] = runner[e]

\* The inductive invariant behind TokensOfOwnServer.
IInv ==
    /\ TypeOK
    /\ LockSound
    /\ RunsPlaced
    /\ RunnerShared
    /\ EntriesOfRunner
    /\ TokensOfOwnServer

\* A run that asks for its runner gets as far as its first case, or ends. One
\* lock serves all environments: it must come back on every way out of
\* create_runner.
RunsProceed ==
    \A r \in Runs : pc[r] = "waiting" ~> pc[r] \in {"ready", "idle"}

(***************************************************************************)
(* A statement of the documentation that the code does not keep.           *)
(***************************************************************************)

\* execution_orchestrator.py:257: a hit merges the variables, as a miss does. A
\* run that starts its cases has the variables of its suites, as long as nobody
\* edits them.
SuiteVariablesPresent ==
    edits = 0 => \A r \in Runs, s \in Suites :
        pc[r] = "ready" /\ token[r][s] # Nothing /\ def[s].variables => s \in own[r]
===============================================================================
