---------------------------- MODULE RunContextProofs --------------------------
(***************************************************************************)
(* Proofs about RunContext, for every set of runs, environments, suites and*)
(* servers and every number of edits.  Each lemma takes one conjunct of    *)
(* IInv through the actions.                                               *)
(***************************************************************************)
EXTENDS RunContext, TLAPS

\* Typing is preserved by every step.
LEMMA TypeStep == IInv /\ [Next]_vars => TypeOK'
<1>. SUFFICES ASSUME IInv, [Next]_vars PROVE TypeOK'
  OBVIOUS
<1>. USE YamlAssumption, NothingAssumption, NoEntryAssumption DEF IInv, TypeOK, Steps, Definition, storeVars, runVars
<1>1. ASSUME NEW r \in Runs, NEW e \in Envs, NEW names \in SUBSET Suites, Start(r, e, names) PROVE TypeOK'
  BY <1>1 DEF Start, Goto, NoTokens, NoRunners, NoEntries, RunsPlaced
<1>2. ASSUME NEW r \in Runs, RunnerHit(r) PROVE TypeOK'
  BY <1>2 DEF RunnerHit, Goto, NoTokens, NoRunners, NoEntries, RunsPlaced
<1>3. ASSUME NEW r \in Runs, RunnerMiss(r) PROVE TypeOK'
  BY <1>3 DEF RunnerMiss, Goto, NoTokens, NoRunners, NoEntries, RunsPlaced
<1>4. ASSUME NEW r \in Runs, RunnerLoaded(r) PROVE TypeOK'
  BY <1>4 DEF RunnerLoaded, Unlock, Goto, NoTokens, NoRunners, NoEntries, RunsPlaced
<1>5. ASSUME NEW r \in Runs, RunnerFails(r) PROVE TypeOK'
  BY <1>5 DEF RunnerFails, Unlock, Forget, Goto, NoTokens, NoRunners, NoEntries, RunsPlaced
<1>6. ASSUME NEW r \in Runs, NEW s \in Suites, SetupHit(r, s) PROVE TypeOK'
  BY <1>6 DEF SetupHit, NoTokens, NoRunners, NoEntries, RunsPlaced
<1>7. ASSUME NEW r \in Runs, NEW s \in Suites, SetupMiss(r, s) PROVE TypeOK'
  BY <1>7 DEF SetupMiss, Goto, NoTokens, NoRunners, NoEntries, RunsPlaced
<1>8. ASSUME NEW r \in Runs, NoSetup(r) PROVE TypeOK'
  BY <1>8 DEF NoSetup, Resolved, Goto, NoTokens, NoRunners, NoEntries, RunsPlaced
<1>9. ASSUME NEW r \in Runs, SetupSucceeds(r) PROVE TypeOK'
  BY <1>9 DEF SetupSucceeds, Resolved, Goto, NoTokens, NoRunners, NoEntries, RunsPlaced
<1>10. ASSUME NEW r \in Runs, SetupFails(r) PROVE TypeOK'
  BY <1>10 DEF SetupFails, Resolved, Goto, NoTokens, NoRunners, NoEntries, RunsPlaced
<1>11. ASSUME NEW r \in Runs, LookupFails(r) PROVE TypeOK'
  BY <1>11 DEF LookupFails, Forget, Goto, NoTokens, NoRunners, NoEntries, RunsPlaced
<1>12. ASSUME NEW r \in Runs, SetupsDone(r) PROVE TypeOK'
  BY <1>12 DEF SetupsDone, Goto, NoTokens, NoRunners, NoEntries, RunsPlaced
<1>13. ASSUME NEW r \in Runs, Finish(r) PROVE TypeOK'
  BY <1>13 DEF Finish, Forget, Goto, NoTokens, NoRunners, NoEntries, RunsPlaced
<1>14. ASSUME NEW s \in Suites, NEW e \in Envs, Expire(s, e) PROVE TypeOK'
  BY <1>14 DEF Expire, NoTokens, NoRunners, NoEntries, RunsPlaced
<1>15. ASSUME NEW e \in Envs, NEW c \in Servers \cup {Nothing}, EnvironmentWritten(e, c) PROVE TypeOK'
  BY <1>15 DEF EnvironmentWritten, Edit, NoTokens, NoRunners, NoEntries, RunsPlaced
<1>16. ASSUME NEW s \in Suites, NEW d \in Definition, SuiteWritten(s, d) PROVE TypeOK'
  BY <1>16 DEF SuiteWritten, Edit, NoTokens, NoRunners, NoEntries, RunsPlaced
<1>17. ASSUME Restart PROVE TypeOK'
  BY <1>17 DEF Restart, Edit, NoRunners, NoEntries, NoTokens, RunsPlaced
<1>18. CASE UNCHANGED vars
  BY <1>18 DEF vars
<1>. QED
  BY <1>1, <1>2, <1>3, <1>4, <1>5, <1>6, <1>7, <1>8, <1>9, <1>10, <1>11, <1>12, <1>13, <1>14, <1>15, <1>16, <1>17, <1>18 DEF Next, Advance

\* Only the holder of the lock loads, and only what is missing.
LEMMA LockStep == IInv /\ [Next]_vars => LockSound'
<1>. SUFFICES ASSUME IInv, [Next]_vars PROVE LockSound'
  OBVIOUS
<1>. USE YamlAssumption, NothingAssumption, NoEntryAssumption DEF IInv, TypeOK, LockSound, RunsPlaced, storeVars, runVars
<1>1. ASSUME NEW r \in Runs, NEW e \in Envs, NEW names \in SUBSET Suites, Start(r, e, names) PROVE LockSound'
  BY <1>1 DEF Start, Goto
<1>2. ASSUME NEW r \in Runs, RunnerHit(r) PROVE LockSound'
  BY <1>2 DEF RunnerHit, Goto
<1>3. ASSUME NEW r \in Runs, RunnerMiss(r) PROVE LockSound'
  BY <1>3 DEF RunnerMiss, Goto
<1>4. ASSUME NEW r \in Runs, RunnerLoaded(r) PROVE LockSound'
  BY <1>4 DEF RunnerLoaded, Unlock, Goto
<1>5. ASSUME NEW r \in Runs, RunnerFails(r) PROVE LockSound'
  BY <1>5 DEF RunnerFails, Unlock, Forget, Goto
<1>6. ASSUME NEW r \in Runs, NEW s \in Suites, SetupHit(r, s) PROVE LockSound'
  BY <1>6 DEF SetupHit
<1>7. ASSUME NEW r \in Runs, NEW s \in Suites, SetupMiss(r, s) PROVE LockSound'
  BY <1>7 DEF SetupMiss, Goto
<1>8. ASSUME NEW r \in Runs, NoSetup(r) PROVE LockSound'
  BY <1>8 DEF NoSetup, Resolved, Goto
<1>9. ASSUME NEW r \in Runs, SetupSucceeds(r) PROVE LockSound'
  BY <1>9 DEF SetupSucceeds, Resolved, Goto
<1>10. ASSUME NEW r \in Runs, SetupFails(r) PROVE LockSound'
  BY <1>10 DEF SetupFails, Resolved, Goto
<1>11. ASSUME NEW r \in Runs, LookupFails(r) PROVE LockSound'
  BY <1>11 DEF LookupFails, Forget, Goto
<1>12. ASSUME NEW r \in Runs, SetupsDone(r) PROVE LockSound'
  BY <1>12 DEF SetupsDone, Goto
<1>13. ASSUME NEW r \in Runs, Finish(r) PROVE LockSound'
  BY <1>13 DEF Finish, Forget, Goto
<1>14. ASSUME NEW s \in Suites, NEW e \in Envs, Expire(s, e) PROVE LockSound'
  BY <1>14 DEF Expire
<1>15. ASSUME NEW e \in Envs, NEW c \in Servers \cup {Nothing}, EnvironmentWritten(e, c) PROVE LockSound'
  BY <1>15 DEF EnvironmentWritten, Edit
<1>16. ASSUME NEW s \in Suites, NEW d \in Definition, SuiteWritten(s, d) PROVE LockSound'
  BY <1>16 DEF SuiteWritten, Edit
<1>17. ASSUME Restart PROVE LockSound'
  BY <1>17 DEF Restart, Edit, NoRunners, NoEntries
<1>18. CASE UNCHANGED vars
  BY <1>18 DEF vars
<1>. QED
  BY <1>1, <1>2, <1>3, <1>4, <1>5, <1>6, <1>7, <1>8, <1>9, <1>10, <1>11, <1>12, <1>13, <1>14, <1>15, <1>16, <1>17, <1>18 DEF Next, Advance

\* Runs stay where their environment and their step say.
LEMMA PlacedStep == IInv /\ [Next]_vars => RunsPlaced'
<1>. SUFFICES ASSUME IInv, [Next]_vars PROVE RunsPlaced'
  OBVIOUS
<1>. USE YamlAssumption, NothingAssumption, NoEntryAssumption DEF IInv, TypeOK, RunsPlaced, storeVars, runVars
<1>1. ASSUME NEW r \in Runs, NEW e \in Envs, NEW names \in SUBSET Suites, Start(r, e, names) PROVE RunsPlaced'
  BY <1>1 DEF Start, Goto
<1>2. ASSUME NEW r \in Runs, RunnerHit(r) PROVE RunsPlaced'
  BY <1>2 DEF RunnerHit, Goto
<1>3. ASSUME NEW r \in Runs, RunnerMiss(r) PROVE RunsPlaced'
  BY <1>3 DEF RunnerMiss, Goto
<1>4. ASSUME NEW r \in Runs, RunnerLoaded(r) PROVE RunsPlaced'
  BY <1>4 DEF RunnerLoaded, Unlock, Goto
<1>5. ASSUME NEW r \in Runs, RunnerFails(r) PROVE RunsPlaced'
  BY <1>5 DEF RunnerFails, Unlock, Forget, Goto
<1>6. ASSUME NEW r \in Runs, NEW s \in Suites, SetupHit(r, s) PROVE RunsPlaced'
  BY <1>6 DEF SetupHit
<1>7. ASSUME NEW r \in Runs, NEW s \in Suites, SetupMiss(r, s) PROVE RunsPlaced'
  BY <1>7 DEF SetupMiss, Goto
<1>8. ASSUME NEW r \in Runs, NoSetup(r) PROVE RunsPlaced'
  BY <1>8 DEF NoSetup, Resolved, Goto
<1>9. ASSUME NEW r \in Runs, SetupSucceeds(r) PROVE RunsPlaced'
  BY <1>9 DEF SetupSucceeds, Resolved, Goto
<1>10. ASSUME NEW r \in Runs, SetupFails(r) PROVE RunsPlaced'
  BY <1>10 DEF SetupFails, Resolved, Goto
<1>11. ASSUME NEW r \in Runs, LookupFails(r) PROVE RunsPlaced'
  BY <1>11 DEF LookupFails, Forget, Goto
<1>12. ASSUME NEW r \in Runs, SetupsDone(r) PROVE RunsPlaced'
  BY <1>12 DEF SetupsDone, Goto
<1>13. ASSUME NEW r \in Runs, Finish(r) PROVE RunsPlaced'
  BY <1>13 DEF Finish, Forget, Goto
<1>14. ASSUME NEW s \in Suites, NEW e \in Envs, Expire(s, e) PROVE RunsPlaced'
  BY <1>14 DEF Expire
<1>15. ASSUME NEW e \in Envs, NEW c \in Servers \cup {Nothing}, EnvironmentWritten(e, c) PROVE RunsPlaced'
  BY <1>15 DEF EnvironmentWritten, Edit
<1>16. ASSUME NEW s \in Suites, NEW d \in Definition, SuiteWritten(s, d) PROVE RunsPlaced'
  BY <1>16 DEF SuiteWritten, Edit
<1>17. ASSUME Restart PROVE RunsPlaced'
  BY <1>17 DEF Restart, Edit, NoRunners, NoEntries
<1>18. CASE UNCHANGED vars
  BY <1>18 DEF vars
<1>. QED
  BY <1>1, <1>2, <1>3, <1>4, <1>5, <1>6, <1>7, <1>8, <1>9, <1>10, <1>11, <1>12, <1>13, <1>14, <1>15, <1>16, <1>17, <1>18 DEF Next, Advance

\* A runner is not replaced while a run has it: only Restart takes it, with the run.
LEMMA SharedStep == IInv /\ [Next]_vars => RunnerShared'
<1>. SUFFICES ASSUME IInv, [Next]_vars PROVE RunnerShared'
  OBVIOUS
<1>. USE YamlAssumption, NothingAssumption, NoEntryAssumption DEF IInv, TypeOK, LockSound, RunsPlaced, RunnerShared, storeVars, runVars
<1>1. ASSUME NEW r \in Runs, NEW e \in Envs, NEW names \in SUBSET Suites, Start(r, e, names) PROVE RunnerShared'
  BY <1>1 DEF Start, Goto
<1>2. ASSUME NEW r \in Runs, RunnerHit(r) PROVE RunnerShared'
  BY <1>2 DEF RunnerHit, Goto
<1>3. ASSUME NEW r \in Runs, RunnerMiss(r) PROVE RunnerShared'
  BY <1>3 DEF RunnerMiss, Goto
<1>4. ASSUME NEW r \in Runs, RunnerLoaded(r) PROVE RunnerShared'
  BY <1>4 DEF RunnerLoaded, Unlock, Goto
<1>5. ASSUME NEW r \in Runs, RunnerFails(r) PROVE RunnerShared'
  BY <1>5 DEF RunnerFails, Unlock, Forget, Goto
<1>6. ASSUME NEW r \in Runs, NEW s \in Suites, SetupHit(r, s) PROVE RunnerShared'
  BY <1>6 DEF SetupHit
<1>7. ASSUME NEW r \in Runs, NEW s \in Suites, SetupMiss(r, s) PROVE RunnerShared'
  BY <1>7 DEF SetupMiss, Goto
<1>8. ASSUME NEW r \in Runs, NoSetup(r) PROVE RunnerShared'
  BY <1>8 DEF NoSetup, Resolved, Goto
<1>9. ASSUME NEW r \in Runs, SetupSucceeds(r) PROVE RunnerShared'
  BY <1>9 DEF SetupSucceeds, Resolved, Goto
<1>10. ASSUME NEW r \in Runs, SetupFails(r) PROVE RunnerShared'
  BY <1>10 DEF SetupFails, Resolved, Goto
<1>11. ASSUME NEW r \in Runs, LookupFails(r) PROVE RunnerShared'
  BY <1>11 DEF LookupFails, Forget, Goto
<1>12. ASSUME NEW r \in Runs, SetupsDone(r) PROVE RunnerShared'
  BY <1>12 DEF SetupsDone, Goto
<1>13. ASSUME NEW r \in Runs, Finish(r) PROVE RunnerShared'
  BY <1>13 DEF Finish, Forget, Goto
<1>14. ASSUME NEW s \in Suites, NEW e \in Envs, Expire(s, e) PROVE RunnerShared'
  BY <1>14 DEF Expire
<1>15. ASSUME NEW e \in Envs, NEW c \in Servers \cup {Nothing}, EnvironmentWritten(e, c) PROVE RunnerShared'
  BY <1>15 DEF EnvironmentWritten, Edit
<1>16. ASSUME NEW s \in Suites, NEW d \in Definition, SuiteWritten(s, d) PROVE RunnerShared'
  BY <1>16 DEF SuiteWritten, Edit
<1>17. ASSUME Restart PROVE RunnerShared'
  BY <1>17 DEF Restart, Edit, NoRunners, NoEntries
<1>18. CASE UNCHANGED vars
  BY <1>18 DEF vars
<1>. QED
  BY <1>1, <1>2, <1>3, <1>4, <1>5, <1>6, <1>7, <1>8, <1>9, <1>10, <1>11, <1>12, <1>13, <1>14, <1>15, <1>16, <1>17, <1>18 DEF Next, Advance

\* A new entry comes from the runner of the run, and no runner is replaced.
LEMMA EntriesStep == IInv /\ [Next]_vars => EntriesOfRunner'
<1>. SUFFICES ASSUME IInv, [Next]_vars PROVE EntriesOfRunner'
  OBVIOUS
<1>. USE YamlAssumption, NothingAssumption, NoEntryAssumption DEF IInv, TypeOK, LockSound, RunsPlaced, RunnerShared, EntriesOfRunner, storeVars, runVars
<1>1. ASSUME NEW r \in Runs, NEW e \in Envs, NEW names \in SUBSET Suites, Start(r, e, names) PROVE EntriesOfRunner'
  BY <1>1 DEF Start, Goto
<1>2. ASSUME NEW r \in Runs, RunnerHit(r) PROVE EntriesOfRunner'
  BY <1>2 DEF RunnerHit, Goto
<1>3. ASSUME NEW r \in Runs, RunnerMiss(r) PROVE EntriesOfRunner'
  BY <1>3 DEF RunnerMiss, Goto
<1>4. ASSUME NEW r \in Runs, RunnerLoaded(r) PROVE EntriesOfRunner'
  BY <1>4 DEF RunnerLoaded, Unlock, Goto
<1>5. ASSUME NEW r \in Runs, RunnerFails(r) PROVE EntriesOfRunner'
  BY <1>5 DEF RunnerFails, Unlock, Forget, Goto
<1>6. ASSUME NEW r \in Runs, NEW s \in Suites, SetupHit(r, s) PROVE EntriesOfRunner'
  BY <1>6 DEF SetupHit
<1>7. ASSUME NEW r \in Runs, NEW s \in Suites, SetupMiss(r, s) PROVE EntriesOfRunner'
  BY <1>7 DEF SetupMiss, Goto
<1>8. ASSUME NEW r \in Runs, NoSetup(r) PROVE EntriesOfRunner'
  BY <1>8 DEF NoSetup, Resolved, Goto
<1>9. ASSUME NEW r \in Runs, SetupSucceeds(r) PROVE EntriesOfRunner'
  BY <1>9 DEF SetupSucceeds, Resolved, Goto
<1>10. ASSUME NEW r \in Runs, SetupFails(r) PROVE EntriesOfRunner'
  BY <1>10 DEF SetupFails, Resolved, Goto
<1>11. ASSUME NEW r \in Runs, LookupFails(r) PROVE EntriesOfRunner'
  BY <1>11 DEF LookupFails, Forget, Goto
<1>12. ASSUME NEW r \in Runs, SetupsDone(r) PROVE EntriesOfRunner'
  BY <1>12 DEF SetupsDone, Goto
<1>13. ASSUME NEW r \in Runs, Finish(r) PROVE EntriesOfRunner'
  BY <1>13 DEF Finish, Forget, Goto
<1>14. ASSUME NEW s \in Suites, NEW e \in Envs, Expire(s, e) PROVE EntriesOfRunner'
  BY <1>14 DEF Expire
<1>15. ASSUME NEW e \in Envs, NEW c \in Servers \cup {Nothing}, EnvironmentWritten(e, c) PROVE EntriesOfRunner'
  BY <1>15 DEF EnvironmentWritten, Edit
<1>16. ASSUME NEW s \in Suites, NEW d \in Definition, SuiteWritten(s, d) PROVE EntriesOfRunner'
  BY <1>16 DEF SuiteWritten, Edit
<1>17. ASSUME Restart PROVE EntriesOfRunner'
  BY <1>17 DEF Restart, Edit, NoRunners, NoEntries
<1>18. CASE UNCHANGED vars
  BY <1>18 DEF vars
<1>. QED
  BY <1>1, <1>2, <1>3, <1>4, <1>5, <1>6, <1>7, <1>8, <1>9, <1>10, <1>11, <1>12, <1>13, <1>14, <1>15, <1>16, <1>17, <1>18 DEF Next, Advance

\* A token that is taken from the cache comes from the runner that the run has.
LEMMA TokensStep == IInv /\ [Next]_vars => TokensOfOwnServer'
<1>. SUFFICES ASSUME IInv, [Next]_vars PROVE TokensOfOwnServer'
  OBVIOUS
<1>. USE YamlAssumption, NothingAssumption, NoEntryAssumption DEF IInv, TypeOK, RunsPlaced, RunnerShared, EntriesOfRunner, TokensOfOwnServer, storeVars, runVars
<1>1. ASSUME NEW r \in Runs, NEW e \in Envs, NEW names \in SUBSET Suites, Start(r, e, names) PROVE TokensOfOwnServer'
  BY <1>1 DEF Start, Goto, NoTokens
<1>2. ASSUME NEW r \in Runs, RunnerHit(r) PROVE TokensOfOwnServer'
  BY <1>2 DEF RunnerHit, Goto, NoTokens
<1>3. ASSUME NEW r \in Runs, RunnerMiss(r) PROVE TokensOfOwnServer'
  BY <1>3 DEF RunnerMiss, Goto, NoTokens
<1>4. ASSUME NEW r \in Runs, RunnerLoaded(r) PROVE TokensOfOwnServer'
  BY <1>4 DEF RunnerLoaded, Unlock, Goto, NoTokens
<1>5. ASSUME NEW r \in Runs, RunnerFails(r) PROVE TokensOfOwnServer'
  BY <1>5 DEF RunnerFails, Unlock, Forget, Goto, NoTokens
<1>6. ASSUME NEW r \in Runs, NEW s \in Suites, SetupHit(r, s) PROVE TokensOfOwnServer'
  BY <1>6 DEF SetupHit, NoTokens
<1>7. ASSUME NEW r \in Runs, NEW s \in Suites, SetupMiss(r, s) PROVE TokensOfOwnServer'
  BY <1>7 DEF SetupMiss, Goto, NoTokens
<1>8. ASSUME NEW r \in Runs, NoSetup(r) PROVE TokensOfOwnServer'
  BY <1>8 DEF NoSetup, Resolved, Goto, NoTokens
<1>9. ASSUME NEW r \in Runs, SetupSucceeds(r) PROVE TokensOfOwnServer'
  BY <1>9 DEF SetupSucceeds, Resolved, Goto, NoTokens
<1>10. ASSUME NEW r \in Runs, SetupFails(r) PROVE TokensOfOwnServer'
  BY <1>10 DEF SetupFails, Resolved, Goto, NoTokens
<1>11. ASSUME NEW r \in Runs, LookupFails(r) PROVE TokensOfOwnServer'
  BY <1>11 DEF LookupFails, Forget, Goto, NoTokens
<1>12. ASSUME NEW r \in Runs, SetupsDone(r) PROVE TokensOfOwnServer'
  BY <1>12 DEF SetupsDone, Goto, NoTokens
<1>13. ASSUME NEW r \in Runs, Finish(r) PROVE TokensOfOwnServer'
  BY <1>13 DEF Finish, Forget, Goto, NoTokens
<1>14. ASSUME NEW s \in Suites, NEW e \in Envs, Expire(s, e) PROVE TokensOfOwnServer'
  BY <1>14 DEF Expire, NoTokens
<1>15. ASSUME NEW e \in Envs, NEW c \in Servers \cup {Nothing}, EnvironmentWritten(e, c) PROVE TokensOfOwnServer'
  BY <1>15 DEF EnvironmentWritten, Edit, NoTokens
<1>16. ASSUME NEW s \in Suites, NEW d \in Definition, SuiteWritten(s, d) PROVE TokensOfOwnServer'
  BY <1>16 DEF SuiteWritten, Edit, NoTokens
<1>17. ASSUME Restart PROVE TokensOfOwnServer'
  BY <1>17 DEF Restart, Edit, NoRunners, NoEntries, NoTokens
<1>18. CASE UNCHANGED vars
  BY <1>18 DEF vars
<1>. QED
  BY <1>1, <1>2, <1>3, <1>4, <1>5, <1>6, <1>7, <1>8, <1>9, <1>10, <1>11, <1>12, <1>13, <1>14, <1>15, <1>16, <1>17, <1>18 DEF Next, Advance
\* A process that has just started has nothing in its caches and no run.
LEMMA InitIInv == Init => IInv
BY YamlAssumption, NothingAssumption, NoEntryAssumption
   DEF Init, IInv, TypeOK, LockSound, RunsPlaced, RunnerShared, EntriesOfRunner,
       TokensOfOwnServer, NoRunners, NoEntries, NoTokens, Steps, Definition

\* The invariant is inductive.
LEMMA NextIInv == IInv /\ [Next]_vars => IInv'
BY TypeStep, LockStep, PlacedStep, SharedStep, EntriesStep, TokensStep DEF IInv

\* create_runner and the setup cache keep one runner per environment, and every
\* cached token belongs to it.
THEOREM Invariance == Spec => []IInv
BY InitIInv, NextIInv, PTL DEF Spec

\* Type correctness of both caches and of the runs.
THEOREM TypeCorrect == Spec => []TypeOK
<1>1. IInv => TypeOK
  BY DEF IInv
<1>. QED
  BY <1>1, Invariance, PTL

\* A run never sends its cases to another server than the one that issued its
\* tokens.
THEOREM TokensFit == Spec => []TokensOfOwnServer
<1>1. IInv => TokensOfOwnServer
  BY DEF IInv
<1>. QED
  BY <1>1, Invariance, PTL
===============================================================================
