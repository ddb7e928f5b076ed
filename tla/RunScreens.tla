-------------------------------- MODULE RunScreens --------------------------------
(***************************************************************************)
(* The pages of the web console that show runs: the list of executions,    *)
(* which is polled and triggers runs, the page of one execution, the list  *)
(* of reports and the dashboard; beside the runs of the backend, which go  *)
(* on whatever is on the screen.                                           *)
(*                                                                         *)
(* A behaviour is about one of the pages and what else the user does: what *)
(* they cache is disjoint.  A run is its environment and its status; runs  *)
(* are numbered as they are created.  The browser's tab stays in the       *)
(* foreground.                                                             *)
(***************************************************************************)
EXTENDS Naturals, Sequences, FiniteSets, Disturbances, QueryCache

CONSTANTS
    MaxRuns,    \* bound: runs there ever are
    PageSize,
    Envs, HomeEnv,
    Outcomes,   \* the statuses that a run may end with
    Tabs,       \* the statuses whose tab is used
    MaxVisits   \* bound: pages that are left

\* The disturbances are tabs and next pages, dialogs that are cancelled, answers that are
\* lost, loads that fail, data that ages, runs of other users and runs triggered elsewhere.
ASSUME ScreensAssumption ==
    /\ MaxRuns \in Nat \ {0} /\ PageSize \in Nat \ {0} /\ MaxVisits \in Nat
    /\ HomeEnv \in Envs /\ Tabs \subseteq {"RUNNING"} \cup Outcomes
    /\ "absent" \notin Outcomes

VARIABLES
    screen,     \* the page that the behaviour is about
    runs,
    visits,
    canEdit,    \* the user is not a viewer
    page,
    key,        \* the list of executions: the parameters of the address
    query,      \* its cache
    subject,    \* the run whose page was opened last
    detail,     \* the cache of the pages of runs
    envFilter, reports,
    dashboard, pieces,
    triggerOpen,
    globalEnv,  \* selectedEnv of the store
    trigger,    \* the call that triggers a run
    acked       \* the runs that the user triggered in the dialog, once they were answered

listVars == <<key, query, triggerOpen, globalEnv, trigger, acked>>
viewVars == <<subject, detail, envFilter, reports, dashboard, pieces>>
vars == <<screen, runs, visits, events, canEdit, page, listVars, viewVars>>

Runs == 1..MaxRuns
\* PENDING and RUNNING are not told apart, nor are their tabs.
Statuses == {"RUNNING"} \cup Outcomes
Run == [env: Envs, status: Statuses]

Screens == {"executions", "detail", "reports", "dashboard"}
Keys == [page: Runs, status: {"all"} \cup Tabs]
FirstPage == [page |-> 1, status |-> "all"]

\* One page of a list: the status of each run on it, and the number of pages.
Lists == [rows: [Runs -> Statuses \cup {"absent"}], pages: Runs]

\* A page of a run loads the run and its report; the results
\* in each of them are there once the run has ended.
Parts == {"execution", "report"}
AllEnvs == "all"
Filters == Envs \cup {AllEnvs}

\* The dashboard: runs that have ended, and failures among them.
Calls == {"trends", "failures"}
Figures == [Calls -> 0..MaxRuns]
NotServed == MaxRuns + 1
NoPieces == [call \in Calls |-> NotServed]

\* "by": the dialog that is mounted, the one of a page that was left, or another page.
NoTrigger == [st |-> "idle", env |-> HomeEnv, run |-> 0, by |-> "other"]

TypeOK ==
    /\ runs \in Seq(Run) /\ Len(runs) <= MaxRuns
    /\ visits \in 0..MaxVisits /\ events \in 0..MaxEvents
    /\ screen \in Screens /\ page \in {screen, "elsewhere"} /\ canEdit \in BOOLEAN
    /\ key \in Keys /\ query \in [Keys -> Entries(Lists)]
    /\ subject \in Runs /\ detail \in [Runs \X Parts -> Entries(Statuses)]
    /\ envFilter \in Filters /\ reports \in [Filters -> Entries(SUBSET Runs)]
    /\ dashboard \in Entries(Figures)
    /\ pieces \in [Calls -> 0..NotServed]
    /\ triggerOpen \in BOOLEAN /\ globalEnv \in Envs
    /\ trigger \in [st: {"idle", "sent", "ok", "refused"}, env: Envs, run: 0..MaxRuns,
                    by: {"dialog", "left", "other"}]
    /\ acked \subseteq Runs

Init ==
    /\ runs \in {<<>>, <<[env |-> HomeEnv, status |-> "RUNNING"]>>}
    /\ visits = 0 /\ events = 0
    /\ screen \in Screens /\ page = "elsewhere" /\ canEdit \in BOOLEAN
    /\ key = FirstPage /\ query = [k \in Keys |-> Blank]
    /\ subject = 1 /\ detail = [p \in Runs \X Parts |-> Blank]
    /\ envFilter = AllEnvs /\ reports = [f \in Filters |-> Blank]
    /\ dashboard = Blank /\ pieces = NoPieces
    /\ triggerOpen = FALSE /\ globalEnv = HomeEnv
    /\ trigger = NoTrigger /\ acked = {}

-------------------------------------------------------------------------------
(***************************************************************************)
(* The backend.                                                            *)
(***************************************************************************)

Ended(r) == r \in DOMAIN runs /\ runs[r].status \in Outcomes

RunEnds(r) ==
    /\ r \in DOMAIN runs /\ ~Ended(r)
    /\ \E s \in Outcomes : runs' = [runs EXCEPT ![r].status = s]
    /\ UNCHANGED <<screen, visits, events, canEdit, page, listVars, viewVars>>

Created(env) ==
    /\ Len(runs) < MaxRuns
    /\ runs' = Append(runs, [env |-> env, status |-> "RUNNING"])

\* Another user, a schedule or a webhook.
OtherRun ==
    /\ Event
    /\ Created(HomeEnv)
    /\ UNCHANGED <<screen, visits, canEdit, page, listVars, viewVars>>

\* The backend refuses viewers, and suites without cases.  The answer may be lost.
TriggerServed ==
    /\ trigger.st = "sent"
    /\ \/ /\ canEdit
          /\ Created(trigger.env)
          /\ \/ /\ trigger' = [trigger EXCEPT !.st = "ok", !.run = Len(runs) + 1]
                /\ UNCHANGED events
             \/ trigger' = [trigger EXCEPT !.st = "refused"] /\ Event
       \/ trigger' = [trigger EXCEPT !.st = "refused"] /\ UNCHANGED <<runs, events>>
    /\ UNCHANGED <<screen, visits, canEdit, page, key, query, triggerOpen, globalEnv, acked,
                   viewVars>>

Matching(status) == {r \in DOMAIN runs : status = "all" \/ runs[r].status = status}

RowsListed(k) ==
    LET all == Matching(k.status)
        newer(r) == Cardinality({q \in all : q > r})
        from == (k.page - 1) * PageSize
    IN [r \in Runs |-> IF r \in all /\ newer(r) >= from /\ newer(r) < from + PageSize
                          THEN runs[r].status ELSE "absent"]

PagesOf(k) == (Cardinality(Matching(k.status)) + PageSize - 1) \div PageSize

\* Slip: a list without runs has no page.
ExecutionsListedNoMinimum(k) == [rows |-> RowsListed(k), pages |-> PagesOf(k)]

\* list_executions: the newest first, at least one page.
ExecutionsListed(k) ==
    [rows |-> RowsListed(k), pages |-> IF PagesOf(k) = 0 THEN 1 ELSE PagesOf(k)]

\* The client sends env_name, list_reports reads env: every filter lists all the reports.
ReportsListed(filter) == {r \in DOMAIN runs : Ended(r)}

-------------------------------------------------------------------------------
(***************************************************************************)
(* What the list shows.                                                    *)
(***************************************************************************)

RowsOf(l) == {r \in Runs : l.rows[r] # "absent"}
Rows == UNION {RowsOf(l) : l \in query[key].data}
totalPages == IF Has(query[key]) THEN (CHOOSE l \in query[key].data : TRUE).pages ELSE 1

\* The table, in the place of which are a skeleton, an error or the notice of an empty list.
TableShown == page = "executions" /\ ~query[key].err /\ Rows # {}

\* The notice of an empty list, with a button of its own.
EmptyShown == page = "executions" /\ ~query[key].err /\ Has(query[key]) /\ Rows = {}

-------------------------------------------------------------------------------
(***************************************************************************)
(* Going from page to page.                                                *)
(***************************************************************************)

Opens(p) ==
    /\ screen = p /\ page = "elsewhere"
    /\ page' = p
    /\ UNCHANGED <<screen, runs, visits, events, canEdit, triggerOpen, globalEnv, trigger, acked>>

\* At the first page of the list.
ExecutionsPage ==
    /\ Opens("executions")
    /\ key' = FirstPage
    /\ query' = [query EXCEPT ![FirstPage] = Mounted(@)]
    /\ UNCHANGED viewVars

ReportsPage ==
    /\ Opens("reports")
    /\ envFilter' = AllEnvs
    /\ reports' = [reports EXCEPT ![AllEnvs] = Mounted(@)]
    /\ UNCHANGED <<key, query, subject, detail, dashboard, pieces>>

DashboardPage ==
    /\ Opens("dashboard")
    /\ dashboard' = Mounted(dashboard)
    /\ UNCHANGED <<key, query, subject, detail, envFilter, reports, pieces>>

\* A row of the executions or of the reports is pressed.  Both loads start together.
ExecutionDetailPage(r) ==
    /\ Opens("detail") /\ r \in DOMAIN runs
    /\ subject' = r
    /\ detail' = [p \in Runs \X Parts |-> IF p[1] = r THEN Mounted(detail[p]) ELSE detail[p]]
    /\ UNCHANGED <<key, query, envFilter, reports, dashboard, pieces>>

\* The page is unmounted: its dialog is gone, and a call of it is without a page.
Leave ==
    /\ page # "elsewhere" /\ visits < MaxVisits
    /\ visits' = visits + 1
    /\ page' = "elsewhere"
    /\ triggerOpen' = FALSE
    /\ trigger' = [trigger EXCEPT !.by = IF @ = "dialog" THEN "left" ELSE @]
    /\ UNCHANGED <<screen, runs, events, canEdit, key, query, globalEnv, acked, viewVars>>

-------------------------------------------------------------------------------
(***************************************************************************)
(* The list of executions.                                                 *)
(***************************************************************************)

ShowList(k) ==
    /\ page = "executions" /\ ~triggerOpen /\ k # key
    /\ key' = k
    /\ query' = [query EXCEPT ![k] = Mounted(@)]
    /\ UNCHANGED <<screen, runs, visits, canEdit, page, triggerOpen, globalEnv, trigger, acked,
                   viewVars>>

\* The tabs of the statuses.
SelectTab ==
    /\ Event
    /\ \E s \in {"all"} \cup Tabs : ShowList([page |-> 1, status |-> s])

PrevPage ==
    /\ TableShown /\ key.page > 1
    /\ ShowList([key EXCEPT !.page = @ - 1]) /\ UNCHANGED events

NextPage ==
    /\ TableShown /\ key.page < totalPages /\ Event
    /\ ShowList([key EXCEPT !.page = @ + 1])

\* Slip: only a list that has aged is polled.
PollAged ==
    /\ page = "executions" /\ query[key].fetch = "none" /\ ~query[key].fresh
    /\ query' = [query EXCEPT ![key] = Fetched(@)]
    /\ UNCHANGED <<screen, runs, visits, events, canEdit, page, key, triggerOpen, globalEnv, trigger,
                   acked, viewVars>>

\* refetchInterval: the list on the screen, fresh or not, after an error too.
Poll ==
    /\ page = "executions" /\ query[key].fetch = "none"
    /\ query' = [query EXCEPT ![key] = Fetched(@)]
    /\ UNCHANGED <<screen, runs, visits, events, canEdit, page, key, triggerOpen, globalEnv, trigger,
                   acked, viewVars>>

ListChanges(k, entry) ==
    /\ query' = [query EXCEPT ![k] = entry]
    /\ UNCHANGED <<screen, runs, visits, canEdit, page, key, triggerOpen, globalEnv, trigger, acked,
                   viewVars>>

ListServed(k) ==
    /\ query[k].fetch = "sent"
    /\ ListChanges(k, Served(query[k], ExecutionsListed(k))) /\ UNCHANGED events

ListArrives(k) ==
    /\ query[k].fetch = "served"
    /\ ListChanges(k, Arrived(query[k])) /\ UNCHANGED events

ListFailsOrAges(k) ==
    /\ Event
    /\ \/ query[k].fetch # "none" /\ ListChanges(k, Failed(query[k]))
       \/ query[k].fresh /\ ListChanges(k, Aged(query[k]))

-------------------------------------------------------------------------------
(***************************************************************************)
(* Triggering a run.                                                       *)
(***************************************************************************)

\* The button of the header is for editors, that of an empty list for everyone.
OpenTrigger ==
    /\ page = "executions" /\ ~triggerOpen
    /\ canEdit \/ EmptyShown
    /\ triggerOpen' = TRUE
    /\ UNCHANGED <<screen, runs, visits, events, canEdit, page, key, query, globalEnv, trigger, acked,
                   viewVars>>

\* It is never disabled.
CancelTrigger ==
    /\ triggerOpen /\ Event
    /\ triggerOpen' = FALSE
    /\ UNCHANGED <<screen, runs, visits, canEdit, page, key, query, globalEnv, trigger, acked,
                   viewVars>>

\* The form holds the environment in use, or the one that was chosen instead, and any
\* suite.  bound: one call that triggers at a time.
handleTrigger ==
    /\ triggerOpen /\ trigger.st = "idle"
    /\ \E env \in Envs :
         trigger' = [st |-> "sent", env |-> env, run |-> 0, by |-> "dialog"]
    /\ UNCHANGED <<screen, runs, visits, events, canEdit, page, key, query, triggerOpen, globalEnv,
                   acked, viewVars>>

\* Slip: only the list on the screen is invalidated.
ExecutionsInvalidatedHere ==
    query' = [query EXCEPT ![key] = Invalidated(@, page = "executions")]

\* useTriggerExecution: every list, whatever its parameters.
ExecutionsInvalidated ==
    query' = [k \in Keys |-> Invalidated(query[k], page = "executions" /\ k = key)]

\* The environment of the run becomes the one in use; the dialog closes, although it may
\* have been cancelled and opened again, where the page that made the call is still there.
TriggerArrives ==
    /\ trigger.st = "ok" /\ trigger.by # "other"
    /\ trigger' = NoTrigger
    /\ acked' = acked \cup {trigger.run}
    /\ ExecutionsInvalidated
    /\ globalEnv' = trigger.env
    /\ triggerOpen' = (triggerOpen /\ trigger.by # "dialog")
    /\ UNCHANGED <<screen, runs, visits, events, canEdit, page, key, viewVars>>

\* The buttons of the cases, of one case and of the suites.
TriggerElsewhere ==
    /\ page = "elsewhere" /\ trigger.st = "idle" /\ Event
    /\ trigger' = [NoTrigger EXCEPT !.st = "sent"]
    /\ UNCHANGED <<screen, runs, visits, canEdit, page, key, query, triggerOpen, globalEnv,
                   acked, viewVars>>

\* A success goes to the executions, or to the run, from wherever the user is by then; it
\* invalidates nothing.
ElsewhereArrives ==
    /\ trigger.st = "ok" /\ trigger.by = "other"
    /\ trigger' = NoTrigger
    /\ \/ /\ screen = "executions" /\ page' = "executions"
          /\ key' = FirstPage
          /\ query' = IF page = page' /\ key = key' THEN query
                      ELSE [query EXCEPT ![FirstPage] = Mounted(@)]
          /\ UNCHANGED <<triggerOpen, viewVars>>
       \/ /\ screen = "detail" /\ page' = "detail"
          /\ subject' = trigger.run
          /\ detail' = IF page = page' /\ subject = subject' THEN detail
                       ELSE [p \in Runs \X Parts |->
                              IF p[1] = subject' THEN Mounted(detail[p]) ELSE detail[p]]
          /\ UNCHANGED <<key, query, triggerOpen, envFilter, reports, dashboard, pieces>>
       \/ /\ page' = "elsewhere" /\ triggerOpen' = FALSE
          /\ UNCHANGED <<key, query, viewVars>>
    /\ UNCHANGED <<screen, runs, visits, events, canEdit, globalEnv, acked>>

TriggerFails ==
    /\ trigger.st = "refused"
    /\ trigger' = NoTrigger
    /\ UNCHANGED <<screen, runs, visits, events, canEdit, page, key, query, triggerOpen, globalEnv,
                   acked, viewVars>>

-------------------------------------------------------------------------------
(***************************************************************************)
(* The page of a run, the reports, the dashboard.                          *)
(***************************************************************************)

PartChanges(p, entry) ==
    /\ detail' = [detail EXCEPT ![p] = entry]
    /\ UNCHANGED <<screen, runs, visits, canEdit, page, listVars, subject, envFilter, reports,
                   dashboard, pieces>>

PartServed(p) ==
    /\ detail[p].fetch = "sent"
    /\ PartChanges(p, Served(detail[p], runs[p[1]].status)) /\ UNCHANGED events

PartArrives(p) ==
    /\ detail[p].fetch = "served"
    /\ PartChanges(p, Arrived(detail[p])) /\ UNCHANGED events

PartFailsOrAges(p) ==
    /\ Event
    /\ \/ detail[p].fetch # "none" /\ PartChanges(p, Failed(detail[p]))
       \/ detail[p].fresh /\ PartChanges(p, Aged(detail[p]))

FilterReports ==
    /\ page = "reports" /\ Event
    /\ \E f \in Filters \ {envFilter} :
         /\ envFilter' = f
         /\ reports' = [reports EXCEPT ![f] = Mounted(@)]
    /\ UNCHANGED <<screen, runs, visits, canEdit, page, listVars, subject, detail, dashboard, pieces>>

ReportsChange(f, entry) ==
    /\ reports' = [reports EXCEPT ![f] = entry]
    /\ UNCHANGED <<screen, runs, visits, canEdit, page, listVars, subject, detail, envFilter, dashboard,
                   pieces>>

ReportsServed(f) ==
    /\ reports[f].fetch = "sent"
    /\ ReportsChange(f, Served(reports[f], ReportsListed(f))) /\ UNCHANGED events

ReportsArrive(f) ==
    /\ reports[f].fetch = "served"
    /\ ReportsChange(f, Arrived(reports[f])) /\ UNCHANGED events

ReportsFailOrAge(f) ==
    /\ Event
    /\ \/ reports[f].fetch # "none" /\ ReportsChange(f, Failed(reports[f]))
       \/ reports[f].fresh /\ ReportsChange(f, Aged(reports[f]))

\* The calls of the dashboard are served at moments of their own.
Figure(call) ==
    Cardinality({r \in DOMAIN runs : Ended(r) /\ (call = "trends" \/ runs[r].status # "PASSED")})

PieceServed(call) ==
    /\ dashboard.fetch = "sent" /\ pieces[call] = NotServed
    /\ pieces' = [pieces EXCEPT ![call] = Figure(call)]
    /\ UNCHANGED <<screen, runs, visits, events, canEdit, page, listVars, subject, detail, envFilter,
                   reports, dashboard>>

\* It arrives when both have; the failure categories may be missing, and are not shown.
DashboardArrives ==
    /\ \A call \in Calls : pieces[call] # NotServed
    /\ dashboard' = Arrived(Served(dashboard, pieces))
    /\ pieces' = NoPieces
    /\ UNCHANGED <<screen, runs, visits, events, canEdit, page, listVars, subject, detail, envFilter,
                   reports>>

DashboardFailsOrAges ==
    /\ Event
    /\ \/ dashboard.fetch # "none" /\ dashboard' = Failed(dashboard) /\ pieces' = NoPieces
       \/ dashboard.fresh /\ dashboard' = Aged(dashboard) /\ UNCHANGED pieces
    /\ UNCHANGED <<screen, runs, visits, canEdit, page, listVars, subject, detail, envFilter, reports>>

-------------------------------------------------------------------------------
Next ==
    \/ OtherRun \/ TriggerServed
    \/ Leave \/ ExecutionsPage \/ ReportsPage \/ DashboardPage
    \/ SelectTab \/ PrevPage \/ NextPage \/ Poll
    \/ OpenTrigger \/ CancelTrigger \/ handleTrigger
    \/ TriggerArrives \/ TriggerElsewhere \/ ElsewhereArrives \/ TriggerFails
    \/ FilterReports \/ DashboardArrives \/ DashboardFailsOrAges
    \/ \E r \in Runs : RunEnds(r) \/ ExecutionDetailPage(r)
    \/ \E k \in Keys : ListServed(k) \/ ListArrives(k) \/ ListFailsOrAges(k)
    \/ \E p \in Runs \X Parts : PartServed(p) \/ PartArrives(p) \/ PartFailsOrAges(p)
    \/ \E f \in Filters : ReportsServed(f) \/ ReportsArrive(f) \/ ReportsFailOrAge(f)
    \/ \E call \in Calls : PieceServed(call)

\* The interval of the list, and loads of it that come to an end.
Fairness ==
    /\ WF_vars(Poll)
    /\ \A k \in Keys : WF_vars(ListServed(k)) /\ WF_vars(ListArrives(k))

Spec == Init /\ [][Next]_vars

FairSpec == Spec /\ Fairness

-------------------------------------------------------------------------------
(***************************************************************************)
(* Properties.                                                             *)
(***************************************************************************)

\* A page of the list has the run, or as many newer ones as it holds.
HasRun(l, r) == r \in RowsOf(l) \/ Cardinality({q \in RowsOf(l) : q > r}) = PageSize

\* The list tells what it was loaded with, and neither loads again nor shows an error.
Settled(e) == Current(e) /\ e.fetch = "none" /\ ~e.err

\* A run that was triggered in the dialog of the executions is in the first page of the
\* list once it was answered, wherever the user was by then: in a list that counts as fresh,
\* and whose last load is over and has not failed, unless that load overtook the run.
OwnRunListed ==
    Settled(query[FirstPage]) => \A l \in query[FirstPage].data, r \in acked : HasRun(l, r)

\* The same of any run of the user at the moment of its answer, those triggered from the pages
\* of cases and suites included, which go to the executions.
AnsweredRunListed ==
    [][trigger.st = "ok" /\ trigger'.st = "idle" /\ Settled(query'[FirstPage]) =>
         \A l \in query'[FirstPage].data : HasRun(l, trigger.run)]_vars

\* The list on the screen follows the runs: while it stays there it comes to show what
\* the backend has, although nothing the user does tells it that runs have moved on.
ListCatchesUp ==
    page = "executions" ~>
        \/ page # "executions"
        \/ query[key].data = {ExecutionsListed(key)}

\* The reports of an environment ("no reports in this environment", says the page of an
\* empty one) are of runs in that environment.
FilteredByEnv ==
    page = "reports" /\ envFilter # AllEnvs =>
        \A r \in UNION reports[envFilter].data : runs[r].env = envFilter
===============================================================================
