# A verification project for the API test framework

The repository is a platform for API tests: cases and suites are YAML documents
in a database, a FastAPI service runs them on request or on a schedule, in its
own process or in Celery workers, results become reports, and a web console made
with React shows and controls all of it. This directory holds TLA+ models of its
core and of the console, the TLC configurations that check them on small instances,
and proofs for every instance. All paths below are relative to `src/`.

## 1. Inventory

### Components

| component | state | operations | hard behaviour |
| --- | --- | --- | --- |
| Execution lifecycle: `api/routers/executions.py`, `framework/execution_orchestrator.py` (second half), `worker/tasks.py`, `worker/celery_app.py` | rows of executions, execution_results, reports; row locks; broker queue; revoked task ids; a session per run | trigger, dispatch to Celery or to a background task, fall back, run, publish, cancel, mark as failed | redelivery (`acks_late`, `reject_on_worker_lost`), a fallback beside an accepted task, a cancellation racing the final update, crashes between commits |
| Scheduler: `framework/scheduler.py`, `api/routers/schedules.py` | rows of schedules, jobs of APScheduler in a SQL job store, mode of the process | create, update, delete, run now, fire, start, stop | row and job change in two steps with an await between them; jobs survive restarts; cascades |
| Case runner: `framework/runner.py`, `framework/executors/`, case loop of the orchestrator | variables of suite, case and step; results; a thread or coroutine per case | launch, build variables, setup, call, assertions, database assertions, teardown, hooks, time-out | a time-out abandons a thread that goes on; exceptions at each step; values that pass from case to case |
| Run context: `create_runner` in `api/dependencies.py`, setup cache in `framework/execution_orchestrator.py` (first half) | `_runner_cache` and its lock, `_suite_setup_cache` | get or make a runner, look up, execute and cache a suite setup, expire | caches tested before and filled after an await; environments edited meanwhile; failed setups cached |
| Case catalogue: `api/routers/cases.py` | rows of test_cases | create, update (version + 1), delete, import | lost updates, commits after the response, a failed flush in the middle of an import |
| Suites and environments: `api/routers/suites.py`, `api/routers/environments.py`, `environment_repo.py`, `field_encryptor.py` | JSON columns, encrypted variables | create, update by read, merge and write, delete | lost updates, masked values written back |
| YAML synchronisation: `framework/sync.py`, `framework/cli.py`, `framework/parser.py` | files and rows | import and export under a conflict strategy | one session for many rows, names that are not unique |
| Recording: `framework/recorder/`, `api/routers/recorder.py`, `pages/RecorderPage.tsx` | a session (recording, paused) in memory, archived sessions, HAR files; the status that the page polled last | start, pause, resume, stop, replay, generate | a singleton shared by requests; pages that act on an old status |
| Users: `api/routers/users.py`, `pages/UsersPage.tsx` | rows of users; the page's own list without a cache, its dialogs | create, update, delete, search, turn the page | a last administrator who is checked in one statement and removed in another; answers that overtake each other |
| Console sessions: `frontend/src/api/client.ts`, `store/authStore.ts`, `AuthGuard.tsx`, login pages | access token, refresh token and user in the store, `isRefreshing` and the queue behind it, calls in flight | log in, log out, reload, renew a token after a 401, send again | several 401 at once, renewals that fail, answers that outlive their session |
| Console pages of cases: `pages/CasesPage.tsx`, `CaseEditPage.tsx`, `CaseDetailPage.tsx`, `CaseImportPage.tsx` | cached lists per page and search, selection, dialogs; a form and its two calls | list, search, select, delete, run, edit, file in a suite, import | a selection over lists that change; deletions that fail one by one; a second call that fails after the first |
| Console pages of tables: `SuitesPage.tsx`, `SchedulesPage.tsx`, `EnvironmentsPage.tsx`, `MockRulesPage.tsx`, `Header.tsx` | one cached list, a dialog, a confirmation; the environment in use | open, save, delete, toggle, run now, choose an environment | calls beside loads, late answers, rows that other users change |
| Console pages of runs: `ExecutionsPage.tsx`, `ExecutionDetailPage.tsx`, `ReportsPage.tsx`, `DashboardPage.tsx` | cached queries, a poll, a trigger dialog | trigger, filter, turn the page, poll | lists that nobody tells that runs have moved on |
| Mock service: `framework/mock/`, `api/routers/mocks.py` | rules in memory and in a table | register, match, remove | limited rules, two copies of the rules |
| Worker health: `framework/worker_health.py` | Redis keys with a time to live, alerted set | beat, stop, check, alert | expiry, alert once and again after recovery |
| Notifications: `framework/notifications/` | channels | fan out, retry | one channel of several failing |
| HTTP clients: `framework/client.py`, `framework/interceptors/`, `auth_manager.py` | connection pools, tokens | request with retry, refresh | repeated requests that are not idempotent |
| Everything else | see section 7 | | |

### How they interact

- A client's `POST /executions`, or a job of the scheduler, inserts an execution
  and dispatches it: `delay()` to the broker, or `asyncio.create_task`.
- The task or background run asks `create_runner` for the runner of its
  environment, resolves the setups of the suites involved, and calls
  `arun_case` for each case in order; each result row is flushed, and the final
  status and the report are committed in the same transaction.
- The CLI and the pytest collector use the synchronous half of the runner
  (`run_suite`, `run_case`) and write no rows.
- The console calls the handlers by axios, whose interceptors add the token and
  renew it; pages read through react-query, whose cache is invalidated by the
  writes of the same tab and by nothing else. The page of users keeps its list
  itself.
- Handlers of environments and suites change what later runs read; nobody tells
  the caches. Deleting a suite removes its schedules by cascade; nobody tells
  the scheduler.

## 2. Modules

| module | models | state and actions |
| --- | --- | --- |
| `ExecutionSummary` | `_compute_summary`, `_execution_status_from_summary` | pure operators: `Count`, `StatusFromSummary` |
| `ExecutionContract` | nothing of the code: what a client may rely on | `status`, `verdict`; `Submit`, `Publish`, `Override` |
| `ExecutionLifecycle` | execution records, their request, their runs, cancel, broker, crashes | committed rows in `status`, `number`, `hasTask`, `stored`, `report`; `lock` is the row lock; `work` what the holder of the lock has flushed and counted; one action per step between two commits or awaits that others can see |
| `ScheduleSync` | schedules and jobs | `row`, `job`, `mode`; handlers split at their commits (`UpdateLoad`, `UpdateCommit`, `Sync`, or `SyncRaises` where the job store fails; `DeleteJob`, `DeleteCommit`), callback `FireRead`, `FireCommit`, `FireEnds`, process `Start`, `Stop` |
| `CaseRun` | one list of cases on either path | `pc` per case (its own thread or coroutine), `row` what the loop has recorded, `local`, `step`, `suite` the three scopes of variables; `Loop` and `OwnStep`/`CallStep` interleave |
| `RunContext` | the two caches of a process | `runner` with `lock`, `cache`; `Start` to `RunnerLoaded` is `create_runner`, `SetupHit` to `SetupsDone` is `_resolve_and_run_suite_setups`; edits, expiry and restart surround them |
| `QueryCache` | one entry of the console's query cache, under the options of `App.tsx` | pure operators: `Fetched`, `Mounted`, `Invalidated`, `Served`, `Arrived`, `Failed`, `Aged` |
| `ConsoleSession` | store, interceptors, guard and login pages of one tab | `token`, `refresh`, `user` the store; `st` where each call is (`sent`, `lead` renews, `queued` behind it, `hung`); answers, renewals and what the user does |
| `CaseNumbers`, `Disturbances` | the cases of the catalogue; what the pages do not bring about themselves | `Cases`; `events` counts other users, failures and time, `Event` |
| `CaseList` | the page of cases | `updated_at` the committed cases of the backend and their order, `uncommitted` the deletions that are answered before they are committed (`DeleteServed`, `DeleteCommitted`), `query` a cache entry per list, `selectedIds`; deletions one by one in `delete`, a batch in `batch` |
| `CaseForm` | editor, page of one case, import | `sub` a submission from saving to filing; `text`, `named`, `members` the backend, `flushed` the transactions that are answered before they are committed (`SaveServed`, `ImportServed`, `CaseCommitted`) |
| `ConsoleDialogs` | the four pages that keep a table by a dialog, the header's list | `table` says which; `calls` under way, each served and answered in steps of its own |
| `RunScreens` | executions, one execution, reports, dashboard | `runs` of the backend, which end by themselves; `query` per list, `trigger` the call, from the dialog of the executions (`handleTrigger`, which invalidates the lists) or from the pages of cases, of a case and of suites (`TriggerElsewhere`, which does not) |
| `Recorder` | the manager, its handlers and its page | `current`, `state`, `history` the manager; `status`, `sessions` what the page polled |
| `Users` | handlers and page of users | `req` a request from `sent` to `checked` to `ok`, `raced` whether a check was overtaken; `list`, `fetches` the page |
| `MC...` | instances for TLC | symmetry sets; `CaseList`, `RunScreens` and `Recorder`, whose configurations need none, are checked as they are |
| `ScheduledExecutionsProofs` | proofs about `ExecutionLifecycle` and `ScheduleSync` | |
| `CaseRunProofs`, `RunContextProofs` | proofs about `CaseRun`; about `RunContext` | |
| `ConsoleSessionProofs`, `ConsoleDialogsProofs`, `UsersProofs` | proofs about the module of that name | |
| `CaseCatalogueProofs` | proofs about `CaseList` and `CaseForm` | |
| `ConsoleRunsProofs` | proofs about `Recorder` and `RunScreens` | |

Components whose proofs share a module do not share names: `SchedulesInit`, `SchedulesNext`,
`SchedulesTypeOK` and so on in `ScheduleSync`, `Form...` in `CaseForm`, `Recorder...` in
`Recorder`. What they do share they extend: `CaseNumbers`, `Disturbances`, `QueryCache`.

`ExecutionLifecycle` extends `ExecutionSummary` and implements
`ExecutionContract` (`Contract == INSTANCE ExecutionContract WITH ...`, the
verdict being the status that the report states). `CaseRun` uses the same
summary. The modules meet at commits: `ScheduleSync!FireCommit` is
`ExecutionLifecycle!FireInsert`; the run that `ExecutionLifecycle` counts case
by case (`RunCase`) is the async path of `CaseRun`; its `BuildRunner` and
`BuildFails` are the outcomes of `RunContext`. `CaseList`, `CaseForm`,
`ConsoleDialogs`, `RunScreens` and `Recorder` compose a page, the query cache
(`QueryCache`, which they extend) and the tables of the backend behind it; each of
their calls is made, served and answered in three steps, so that loads, writes
and writes of other users fall between them; a write whose handler leaves the commit
to `get_db_session` (`api/dependencies.py:326`) is committed, or rolled back, in a fourth
one, as FastAPI ends the dependency when the answer is out. The handlers of suites,
environments, schedules and users commit before they answer. `RunScreens!TriggerServed` and `RunEnds`
are what the console sees of `ExecutionLifecycle`.

Each module contains a few operators marked `Slip:`. They are not part of the
specification. Each is a plausible mistake in the definition that follows it,
recorded in `PROJECT.json` under `mutants`, and shows that a property would
notice.

### Abstractions

- The database is committed rows plus row locks, as on the PostgreSQL of
  `docker-compose.yml`. What a session has flushed is visible to it alone; a
  crash loses it.
- One API process, as `docker-compose.yml` starts it; several workers. The
  caches of `RunContext` are per process, so one process is enough there.
- Requests and coroutines interleave only at their awaits; code between two
  awaits is one action. `run_setup` is synchronous and is one step with the
  cache entry that follows it, although it stops the whole event loop meanwhile.
- A case is what it declares (skip, setup, assertions, teardown), chosen where
  the code looks. A variable is the case that gave its value. An environment is
  the server it names. A trigger is a model value, valid or not.
- The console runs in one tab, in the foreground, and JavaScript is atomic between
  two awaits. A load is asked for, served by the backend and applied in three steps;
  the single retry of react-query is part of the load, which fails when both attempts
  have. Rows are numbered as they are created; what they say is the number of the
  write that said it. Searches, names and wording are left out except where a
  property tells them apart (`Found`, masks of secrets, members of suites).
- `RunScreens` and `ConsoleDialogs` choose their page in `Init`: what these
  pages cache is disjoint, so their composition adds states and no behaviour.
- History variables (`faults`, `lost`, `doubt`, `late`, `turnedOff`, `hooks`,
  `went`, `torn`, `errors`; `outlived`, `crossed`, `gone`, `made`, `excused`, `wasIn`, `acked`,
  `raced`) are written and never read by the guards of code
  actions, except that `faults` bounds the number of crashes.

## 3. What the runs check

| run | instance | shows |
| --- | --- | --- |
| `execution_faults` | 1 execution of 2 cases, 2 workers and the API process, 2 faults, fairness | the result rows are those the report counts (`ReportMatchesRows`), status and report agree up to named overrides (`StatusMatchesReport`), `ExecutionContract` is implemented, an execution leaves PENDING unless one of five named failures happened (`Settles`) |
| `schedule_sync` | 1 schedule, 3 requests, 2 valid and 1 invalid trigger, restarts | the job is the one the row asks for unless a named disturbance happened (`JobFollowsRow`); a schedule that is gone starts nothing (`OnlyLiveSchedulesFire`) |
| `case_run` | 2 cases, both paths, fairness | `HooksPair`, `VerdictIsEarned`, `TeardownOnlyAfterTheRest`, `ValuesComeFromJudgedCases`, `ListEnds` |
| `run_context` | 2 runs, 2 environments, 1 suite, 2 servers, 1 edit or restart, fairness | a token is only used against the server that issued it (`TokensOfOwnServer`), every run gets its runner or ends (`RunsProceed`) |
| `console_session` | 2 calls at once, 2 logins, 2 access tokens each, fairness | one renewal at a time (`OneRenewal`), the store holds one session (`StoreCoherent`), calls are sent again in theirs (`ResentInItsSession`), only a login begins one (`OnlyLoginBegins`), calls settle or hang behind a renewal that failed (`CallsSettle`) |
| `case_list` | 3 cases on pages of 2, a search that finds one, 2 deletions, 2 disturbances | what is selected is on the screen (`SelectionIsShown`), fresh lists show nothing whose deletion was committed when it was answered (`GoneIsGone`) |
| `case_form` | 2 cases, 2 writes, 2 editors, 2 submissions at once, 2 endpoints, 1 disturbance | second copies of a case have one of two named reasons (`CopiesHaveAReason`), a form with a suite is left only when the suite has named its case (`SavedIsFiled`) |
| `console_dialogs` | each of the 4 tables with 2 rows, one of them there at first, 1 write and any deletions, 2 calls at once, 1 disturbance | no row of a fresh list is older than the last own write to it that was acknowledged, deletions included (`OwnWritesShown`), the environment in use is in the header's list (`SelectedEnvIsListed`) |
| `run_screens` | 2 runs on pages of 1, 2 tabs, 1 leave, 1 disturbance, fairness | a run triggered in the dialog of the executions is in the first fresh list (`OwnRunListed`), the list catches up with the backend (`ListCatchesUp`) |
| `recorder` | 2 sessions, 2 disturbances (restarts, other clients, lost loads) | no start replaces a session that records (`RecordingIsFiled`) |
| `users` | 3 users on pages of 2, 2 calls at once, 2 loads at once, 2 disturbances | a row with the role of administrators, active or not, is left while no check is overtaken (`AdminStays`), the list shows own writes unless an overtaken answer replaced it (`OwnWritesShown`) |

`OneRunAtATime`, `PublishedOnce` and `RecordedIsFinal` are left to the proofs of section 4,
which hold for every instance.

One run, `users_last_admin`, looks for what `api/routers/users.py` promises, that
there is always an administrator, and finds a counterexample: two administrators delete
each other, both handlers have counted two, both writes go through.

Fourteen further disagreements each have a configuration that TLC refutes in seconds; they
are not among the runs of `PROJECT.json`:

| configuration (module) | what the code or a document says | what happens |
| --- | --- | --- |
| `ExecutionCancelledStays` (`MCExecutionLifecycle`) | `routers/executions.py:617`: the answer is that the execution has been cancelled | the final update of a run overwrites a committed CANCELLED |
| `ExecutionFallBackOnlyWithoutTask` (`MCExecutionLifecycle`) | `routers/executions.py:304`: the local mode is taken when Celery is unavailable | `delay()` succeeds, the commit of the task id fails, the fallback runs beside the task |
| `ExecutionNumbersDistinct` (`MCExecutionLifecycle`) | `models/execution.py:96`: display numbers increment themselves | two requests read the same maximum and insert the same number |
| `ExecutionNoRunnerLeavesNoPending` (`MCExecutionLifecycle`) | `routers/executions.py:501`: the status is updated even when `create_runner` fails | a worker whose `create_runner` raises has no session yet and leaves the row PENDING |
| `ScheduleUpdateReachesJob` (`MCScheduleSync`) | `routers/schedules.py:238`: the job is updated together with the row | two updates commit in one order and change the job in the other |
| `CasePassedMeansAllPassed` (`MCCaseRun`) | `models.py`, `CaseResult`: `passed` says whether a case passed, and PASSED is said of a run whose cases all did | a result with `passed` false and status PASS is counted as passed |
| `RunSuiteVariables` (`MCRunContext`) | `execution_orchestrator.py:257`: a hit merges the variables as a miss does | a hit in the setup cache does not merge them |
| `CaseParseCreatesNothing` (`MCCaseForm`) | `CaseImportPage.tsx:58`: the first call is a dry run | the handler knows no dry run: the parsing creates the cases, the import creates them again |
| `ReportFilterFilters` (`RunScreens`) | the page of reports filters by environment | the handler ignores the parameter: every environment shows all reports |
| `CaseAnsweredIsDeleted` (`CaseList`) | `routers/cases.py`, `delete_case`: the answer is that the case has been deleted, and the page loads its lists again for it | the answer is sent before the commit: the load may read the row that is still there, or the commit fails after the answer |
| `CaseAnsweredIsSaved` (`MCCaseForm`) | `routers/cases.py:134`: the answer 201 means that the case has been created | likewise, the page of the case or its filing may come before the row, or without it |
| `ScreensAnsweredRunListed` (`RunScreens`) | the pages that trigger a run go to the list of executions to show it | a trigger outside `useTriggerExecution` invalidates nothing: a list that counts as fresh is shown without the run |
| `UsersActiveAdminStays` (`MCUsers`) | `routers/users.py:217`: the last administrator cannot demote or deactivate himself | the count does not look at `is_active`: one deactivates the other, then demotes himself |
| `RecorderPausedIsKept` (`Recorder`) | `recorder_manager.py:255`: pausing keeps the data that is recorded | a start replaces a paused session with what it has recorded |

### Why the bounds are enough

- *Executions*: no action of `ExecutionLifecycle` reads the row of another
  execution except `TriggerNumber`, so one execution shows everything but the
  display numbers, whose configuration has two. Two workers and the local runner give
  every pair of competing runs; two faults allow a crash of the run that
  follows a redelivery. Two cases of a run separate an empty, a partial and a full list.
- *Schedules*: schedules do not interact. Three requests are needed for a
  request that overtakes one that has overtaken another. Two valid triggers
  tell a stale job from the right one, an invalid one makes `add_schedule`
  raise.
- *Cases*: the loop only looks at the current case, values only pass from
  earlier cases to later ones, so two cases show a case that is left behind
  and one that follows it. Three cases exceed the time one run should take;
  the proofs cover every `N`.
- *Run context*: two runs make every race of `create_runner`, two environments
  tell keys apart. One edit is enough for two versions of an environment. Two
  edits were checked too (478 thousand states) and change nothing.
- *Console sessions*: two calls are needed for one that queues behind the renewal of
  the other, two logins for an answer that outlives its session, two tokens for a
  session to be renewed.
- *Pages*: two calls or submissions at once are the least that overtake each other,
  and symmetric where they are alike. All cases of `case_list` exist at first. A page of one or two rows with one more row
  than fits shows rows that move to another page. The disturbances (other users,
  lost answers, loads and commits that fail, data that ages, leaving the page, runs
  triggered from other pages) share one bound,
  so that each alone and, where it is two, each pair of them is explored; what the
  user and the backend do otherwise is bounded by rows and writes alone. The proofs
  hold for every value of these bounds.
- *Users*: user 1 has the page and user 2 is a second administrator, which is the least
  for a race; the third user is created, and moves a page of two.
- Runs say `CHECK_DEADLOCK FALSE` because the systems may come to rest: every
  execution finished and no fault left, a list of cases over, all edits used, every
  page left. `recorder` alone is checked for deadlock, as its polls go on.

### Fairness

- `ExecutionLifecycle`: weak fairness of each request, of the reception of a
  message and of each step of a run. The event loop resumes every coroutine that
  can go on, the broker offers a ready message to an idle worker, cases have a
  time-out. Crashes, cancellations and redeliveries are never forced.
- `CaseRun`: weak fairness of the loop and of each step of a case. The call
  itself is fair only when the case has no time-out, as then the clients' own
  time-outs end it; with a time-out it may hang for ever, and the list must end
  all the same. gRPC reflection has no time-out of its own
  (`framework/executors/grpc_executor.py:316`): for a case without a time-out that uses
  it, `ListEnds` takes for granted that its server answers or drops the connection.
- `RunContext`: weak fairness of a run's own steps. Getting the lock is strongly
  fair because `asyncio.Lock` wakes its waiters in the order of their arrival.
- `ConsoleSession`: weak fairness of the answer to each call and of the end of each
  renewal: calls have a time-out of 30 seconds (`client.ts`), a renewal ends with its
  connection. What the user does is never forced.
- `RunScreens`: weak fairness of the poll (`refetchInterval`) and of the two halves of
  a load of the list, in which the retry and the time-out are contained. Runs are not
  forced to end, users not to stay.
- The other pages have no liveness property: that an answer arrives is axios'
  time-out, and nothing follows from it but what `ListCatchesUp` shows already.
- `ScheduleSync` has no liveness property: nothing in the code promises that a
  stale job is ever repaired.

## 4. What is proved

TLAPS checks the following for all values of the constants, under the named
assumptions of each module (placeholder values differ from real ones, at least
one case, `MaxFaults` a natural number; `YamlServer` is a server; `Valid` is a set
of triggers; bounds of rows, writes and calls are natural numbers, positive where
there must be one; marks of rows are no cases, no outcome of a run is the mark `absent`).

- `ScheduledExecutionsProofs`, of executions: `TypeCorrect`, `Invariance` (`IInv`),
  `Serialised`, `RowsAgree`, `StatusAgrees`, `ReportIsFinal`, and `ContractImplemented`, the
  refinement of `ExecutionContract`.
  `ReportMatchesRows` is not inductive: the run that publishes must have counted
  what it flushed (`WorkMatchesRows`), nobody else may have flushed anything,
  which is the row lock (`OneRunAtATime`), and nothing may happen to a row that
  is not committed yet (`Created`). The refinement follows from the same
  invariant: publication is the only step that changes a report, and it is
  guarded by the unique constraint on it.
- `ScheduledExecutionsProofs`, of schedules: `SchedulesTypeCorrect`,
  `SchedulesInvariance` (`SchedulesIInv`), `JobsFollowRows`, `FiringIsChecked`. `JobFollowsRow` speaks of moments when nobody is between the
  two halves; `HalfwayKnows` carries it over: a request that nobody has overtaken
  still holds the committed row, so its second half restores the agreement.
- `CaseRunProofs`: `TypeCorrect`, `Invariance`, `HooksArePaired`,
  `VerdictsAreEarned`, `TeardownIsClean`, `ValuesAreJudged`, `RecordsAreFinal`, for
  every number of cases. The invariant ties the step of each thread to its hooks
  and its verdict (`HooksFollow`, `VerdictFollows`), the position of the loop to
  what is recorded (`RowFollows`: a thread still running behind the loop has been
  recorded as TIMEOUT), and every value to a judged case (`ValuesFollow`,
  `SuiteFollows`).
- `RunContextProofs`: `TypeCorrect`, `Invariance`, `TokensFit`, for any number of
  runs, environments, suites and edits. The lock ensures that a runner is made
  only where there is none (`LockSound`); so a runner is never replaced while a
  run or an entry depends on it (`RunnerShared`, `EntriesOfRunner`).

- `ConsoleSessionProofs`: `TypeCorrect`, `Invariance`, `RenewsOnce`, `StoreIsCoherent`,
  `LoginBegins`, `ResentAsSent`, for any number of calls, logins and tokens. The store is
  coherent because whoever writes to it late has looked: a renewal holds the refresh token
  that it started with (`RenewalHolds`), the guard's flag stops a call that was made
  for a page that is gone (`GuardWaits`, `GuardHasSession`, `GuardFollows`), and a call
  that has not outlived its session carries a token of the store's
  (`CallsFollow`). Nobody holds the refresh token of a login to come (`BasesKnown`).
- `ConsoleDialogsProofs`: `TypeCorrect`, `Invariance`, `WritesAreShown`, `EnvIsListed`, for
  any number of rows, writes and calls. Acknowledgements reach the screen in three
  steps: the table is as new as what was acknowledged (`TableNewest`, writes being
  numbered upwards), an answer that no invalidation has overtaken is as new
  (`AnswerNewEnough`), and fresh data was such an answer (`FreshRests`). Of the
  header's list there is one value at a time (`HeaderOne`).
- `ConsoleRunsProofs`, of the recorder: `RecorderTypeCorrect`, `RecorderInvariance`,
  `RecordingsAreFiled`. The manager has a
  session exactly when it is not idle, numbered and not archived (`ManagerSound`); the
  page matters for its types only (`PageSound`): whatever it sends, the manager looks
  at its own state.
- `ConsoleRunsProofs`, of the screens of runs: `ScreensTypeCorrect`,
  `ScreensInvariance`, `OwnRunsListed`, for any number of runs, outcomes and rows on a page.
  Acknowledgements reach the screen in three steps again: a run that was answered exists
  (`RunsKnown`); the backend lists a run that exists in the first page, or `PageSize` newer
  ones (`FirstPageFinds`, by counting); so does an answer that no invalidation has
  overtaken (`AnswerFinds`), which becomes the data. Every acknowledgement in the dialog
  invalidates every list, so nothing has to be carried over it; runs triggered from other
  pages never enter `acked`. The type invariant needs that a page
  of a run is only loaded for a run that exists, and that what the dashboard counts, and
  the pages of a list, are no more than the runs.
- `CaseCatalogueProofs`, of the list of cases: `ListTypeCorrect`, `ListInvariance`,
  `SelectedIsShown`, `DeletedIsGone`, for any number of cases, rows on a page and
  deletions, whatever a search finds. A case whose deletion was committed when it was
  answered is not stored and nobody stores it again (`DeletedStays`); it is in no answer that no invalidation
  has overtaken (`AnswersClean`); and data that is fresh is not being loaded
  (`FreshRests`). `SelectionIsShown` needs that nothing is selected on a page that is
  left (`SelectedOnPage`): every step that changes the items of the page resets the
  selection (`ItemsStay`, `DataStay`).
- `CaseCatalogueProofs`, of the form: `FormTypeCorrect`, `FormInvariance`,
  `CopiesAreExcused`, `SavedCasesAreFiled`, for any number of cases, visits, submissions and
  writes. `CopiesHaveAReason` counts cases; inductive is that an editor that is not excused
  has made at most one, by its only save that is under way (`MadeOnce`, `OneSave`), and
  that submissions belong to editors that were opened (`Submitted`, `Visited`).
  `SavedIsFiled` is a step property: the list that is written when a case is filed, and
  every list of members that is cached or answered, has been the suite's (`Filed`).
- `UsersProofs`: `Typing`, `TypeCorrect`, `Invariance`, `AdminIsLeft`, `ShowsInvariance`,
  `ShowsOwnWrites`. `AdminIsLeft` is about the role, as the handlers' count is; that an
  active administrator is left is false. The bounds of `TypeOK` are not inductive: a user is not written more
  often than it has versions because every call that is under way was counted when it was
  made and writes at most once (`Counted`), and what is acknowledged was written
  (`Written`, `Known`). `OwnWritesShown` follows from the load that was started last: it
  is still under way, and has read nothing or every write that the page was told of, or
  the list holds them already (`Told`); loads that were overtaken stay behind (`Behind`).
  `AdminStays` becomes inductive with `ChecksHold`: what a request
  has checked still holds of the table until another one writes, which is what
  `stale` records. Counting becomes a witness in `OneBesides`: with more than one
  administrator there is one besides any user.

In every proof module there is one lemma per conjunct of the invariant, with a step for
each action that can disturb it and one for those that cannot.

Facts that are needed more than once are lemmas of their own: pages of at
least one row are no more than there are rows (`PagesBounded`), and what a query of the
cache does keeps the type of its entry (`EntryTypes`) and changes its fields as `QueryCache`
says (`EntryFields`).

Every safety property of every run that must pass is a theorem. Only model-checked:
`Settles`, `ListEnds`, `RunsProceed`, `CallsSettle` and `ListCatchesUp`, as liveness under
fairness is beyond this prover.

## 5. What the models say about the code

Things that hold, and why they are not obvious:

- Two runs of one execution are possible, and still never mix their rows: the
  first flush of a run updates the executions row, and PostgreSQL keeps that row
  locked until the commit. The second run then fails on the unique constraint of
  the report and its rollback takes its rows with it.
- A job that outlives its row, of which there are several ways, never starts an
  execution: the callback reads the row again.
- A thread that outlives its time-out cannot change a recorded result: the loop
  has replaced it by a TIMEOUT object of its own.
- Runners are never refreshed (`invalidate_runner_cache` has no caller), so an
  edited environment takes effect at the next restart. That is also what keeps
  cached tokens valid: dropping the runner on an edit without dropping the setup
  entries would send the old server's token to the new one. The mutant
  `EnvironmentWrittenAndDropped` is exactly that.

- The page of cases never has a selection that it does not show, although lists are
  replaced behind it: every list that is shown, refetched or cut short resets it.
- A late answer closes whichever dialog is open, its own or another; still a list
  that counts as fresh is never older than an acknowledged own write, because every
  success of the page's own mutations invalidates the list and drops the load under way. Only a first load is
  joined instead, and may be older (`old` in `QueryCache`).
- The flag `isRefreshing` is true exactly while a renewal is out. Calls queued behind a
  renewal that fails are never answered, and hang; this is the only way.
- However old the status a page acts on, no start replaces a recording session:
  the handler looks again. A paused one is replaced with what it has recorded, against
  `recorder_manager.py:255`, which says that pausing keeps it.
- A deletion of a case is answered before it is committed, and so is a save. What holds is
  the half that does not depend on the commit: where it was in time, no list that
  counts as fresh shows the case, on whatever page and under whatever search. Where it
  was late, or failed, the list may show the case for as long as it counts as fresh.
- A run that is triggered in the dialog of the executions is in the first list that counts
  as fresh. One that is triggered anywhere else is there when the interval is over.
- `RenewalFails` stands for all ways in which a renewal does not bring a token, except an
  answer of 200 without one, after which `client.ts:76` would leave `isRefreshing` set:
  `routers/auth.py:331` never answers so.

Other disagreements met while reading, not shown by a run:

- `DELETE /schedules/{id}` removes the job before it looks for the row and checks
  the project (`api/routers/schedules.py:315`): a refusal leaves an enabled
  schedule that never fires. In `ScheduleSync` this is `Refused`, one of the
  disturbances that `JobFollowsRow` excepts.
- RUNNING is flushed and never committed before the end
  (`framework/execution_orchestrator.py:660`), so no client sees it; the status
  goes from PENDING to its final value. This is why the model has no RUNNING.
- Scheduled executions get display number 0.
- `decrypt_variables` (`environment_repo.py`, "供执行引擎在运行时使用") has no caller:
  runs get the encrypted text of passwords and tokens.
- `autotest sync` and `autotest import` flush and never commit.
- The page of mock rules looks for `rules` in what the response interceptor has already
  unwrapped to the bare list: it shows none, and edit and delete cannot be reached.
- The button that resumes a recording is inside the branch of a session that records
  and is only shown for one that is paused: it is never there.
- An environment with a secret is edited with its mask, which is written back as the
  secret.
- Importing matches by name alone, where `framework/sync.py:10` says name and
  source file.
- The heartbeat of a worker is started in an event loop that `asyncio.run` closes
  at once (`worker/tasks.py:198`).

## 6. Plan

The order in which the project was built, the most important behaviour first; all of it
is done:

1. Execution lifecycle and contract, schedules, case runner, run context, with
   invariants and proofs.
2. The console's query cache and session, then its pages over it: cases, tables, runs,
   recorder, users.
3. The inductive invariants of session, tables, recorder and users; then those of the pages
   of cases and of runs, and the bounds of users.

What could follow, in this order: the handlers of cases, suites and environments at the
grain of load and commit (lost updates); the worker's
heartbeat with discrete time; the rules of the mock service.

## 7. Not modelled, and why

Backend:

- Handlers of cases, suites and environments: in the console's modules each is the one
  step that serves a call, with the commit of cases after it. Their lost updates are listed as hazards without a property.
- YAML synchronisation and the command line: one command at a time.
- The server of mock rules, worker health, notifications, plugins, HTTP retries inside
  one call: state of one process, or outcomes that `CaseRun` already has as pass, fail,
  raise or hang.
- Passwords, projects and membership: stateless checks. A refusal is an outcome of the
  handlers that are modelled.
- Analytics, coverage, HTML and Allure output: read-only.
- OpenAPI import, case generation, smart assertions, variable detection: one pass
  over text or JSON, heuristic, no state.
- Assertions, extraction, templates: pure functions on JSON. In `CaseRun` an
  assertion holds, does not hold or raises.
- gRPC and WebSocket exchanges, database drivers, mail and web hooks: I/O. Their
  outcomes (answer, exception, hang) are in `CaseRun`.
- Several API processes (`uvicorn --workers`, offered by the repository's README): each
  would run its own scheduler on one job store. The deployment files start one.
- Deployment, migrations: no logic of their own to check.

Console:

- `CoveragePage`, the page of smart assertions, charts, the results inside a page of a run
  or a report: they show one answer.
- Sidebar, layout, languages, the kit of components, change of a password, the fields of
  the registration: local to one form, no second actor.
- The search on the page of suites, text, tags and priorities of cases, the editor role of
  users: data that no property tells apart.
- Edit, delete, clear and duplicate on the page of mock rules and resume on the page of
  the recorder: unreachable, see section 5.
- `frontend-demo` is a prototype without a backend; `api/static/assets` is the compiled
  console.

## 8. Running

    tlc -workers 2 -config ExecutionFaults.cfg MCExecutionLifecycle.tla
    tlc -workers 2 -config ScheduleSync.cfg MCScheduleSync.tla
    tlc -workers 2 -config CaseRun.cfg MCCaseRun.tla
    tlc -workers 2 -config RunContext.cfg MCRunContext.tla
    tlc -workers 2 -config ConsoleSession.cfg MCConsoleSession.tla
    tlc -workers 2 -config ConsoleDialogs.cfg MCConsoleDialogs.tla
    tlapm ScheduledExecutionsProofs.tla

and likewise for the other modules: module `M` has its instance in `MCM`, its
configuration in a file of its name; its proofs are in the module that section 2 names.

`PROJECT.json` lists every run with its module and configuration, the source lines
each definition models, the mutants, the hazards and the theorems.
