-------------------------------- MODULE CaseForm --------------------------------
(***************************************************************************)
(* The pages of the web console that make one case: the editor, the page   *)
(* of one case and the import, for one suite that cases may be filed in.   *)
(*                                                                         *)
(* What a case says is the number of the write that said it; whether it    *)
(* names the suite is kept apart, for the editor files the case in the     *)
(* suite by a second call.  The user is an editor.                         *)
(***************************************************************************)
EXTENDS Naturals, FiniteSets, CaseNumbers, Disturbances, QueryCache

CONSTANTS
    MaxWrites,      \* bound: writes
    MaxVisits,      \* bound: editors opened
    Submissions,    \* submissions of a form that may be under way together
    Discovered      \* endpoints in the document that is imported

\* The disturbances are changes by other users, loads and answers that are lost, data that
\* ages, commits that fail, runs, imports.
ASSUME FormAssumption ==
    MaxWrites \in Nat \ {0} /\ MaxVisits \in Nat /\ Discovered \in Nat \ {0}

VARIABLES
    text,       \* the last write of each case, 0 before it exists
    named,      \* cases that name the suite
    members,    \* case_ids of the suite
    writes,
    flushed,    \* writes that the backend has done but not yet committed
    detail,     \* the cached query of each case
    suites,     \* the cached query of the suites
    page, id, visit,
    form,       \* what the editor shows
    versions, executing,    \* the page of a case
    import,     \* the page of the import
    sub,        \* the submissions
    runSent,    \* the run of a case is under way
    made,       \* cases that each editor has created
    excused,    \* editors with a submission past its save, or whose answer was lost
    wasIn       \* cases that have been in the suite

backend == <<text, named, members, writes, flushed>>
formPageVars == <<page, id, visit, form, versions, executing, import>>
history == <<made, excused, wasIn>>
formVars == <<backend, events, detail, suites, formPageVars, sub, runSent, history>>

Visits == 1..MaxVisits
Writes == 1..MaxWrites
Exists(c) == text[c] # 0

\* A transaction that creates or saves cases.
Flushes == [cases: SUBSET Cases, text: Writes, named: BOOLEAN]
\* The rows that it has written are locked, and the ones it has created are its own.
Locked == UNION {w.cases : w \in flushed}
Free == {c \in Cases : ~Exists(c)} \ Locked

CaseData == [text: Writes, named: BOOLEAN]
\* What the form was filled from, 0 where from nothing, and whether it names the suite;
\* what the user types over it is left out.
Forms == [base: 0..MaxWrites, suite: BOOLEAN]
EmptyForm == [base |-> 0, suite |-> FALSE]

\* "saving" until the backend has written, "filing" likewise for the suite.
Stages == {"idle", "saving", "saved", "notSaved", "filing", "filed", "notFiled"}
Subs == [st: Stages, visit: 0..MaxVisits, case: 0..MaxCases, suite: BOOLEAN,
         known: BOOLEAN, list: SUBSET Cases]
NoSub == [st |-> "idle", visit |-> 0, case |-> NoCase, suite |-> FALSE, known |-> FALSE,
          list |-> {}]

\* "endpoints", "chosen": how many are listed and selected; "cases": created so far.
Imports == [st: {"idle", "parsing", "parsed", "importing", "imported"},
            endpoints: 0..Discovered, chosen: 0..Discovered, result: BOOLEAN]
NoImport == [st |-> "idle", endpoints |-> 0, chosen |-> 0, result |-> FALSE]

FormTypeOK ==
    /\ text \in [Cases -> 0..MaxWrites]
    /\ named \subseteq Cases /\ members \subseteq Cases
    /\ writes \in 0..MaxWrites /\ flushed \subseteq Flushes /\ events \in 0..MaxEvents
    /\ detail \in [Cases -> Entries(CaseData)] /\ suites \in Entries(SUBSET Cases)
    /\ page \in {"away", "new", "edit", "case", "import"}
    /\ id \in Cases \cup {NoCase} /\ visit \in 0..MaxVisits
    /\ form \in Forms
    /\ versions \in {"none", "loading", "loaded"} /\ executing \in BOOLEAN
    /\ import \in Imports
    /\ sub \in [Submissions -> Subs]
    /\ runSent \in BOOLEAN
    /\ made \in [Visits -> SUBSET Cases] /\ excused \subseteq Visits /\ wasIn \subseteq Cases

FormInit ==
    /\ writes \in {0, 1}
    /\ text = [c \in Cases |-> IF c = 1 THEN writes ELSE 0]
    /\ named = {} /\ members \in {{}, {c \in Cases : text[c] # 0}}
    /\ flushed = {} /\ events = 0
    /\ detail = [c \in Cases |-> Blank]
    /\ suites = Blank
    /\ page = "away" /\ id = NoCase /\ visit = 0
    /\ form = EmptyForm
    /\ versions = "none" /\ executing = FALSE
    /\ import = NoImport
    /\ sub = [s \in Submissions |-> NoSub]
    /\ runSent = FALSE
    /\ made = [v \in Visits |-> {}] /\ excused = {} /\ wasIn = members

-------------------------------------------------------------------------------
(***************************************************************************)
(* Pages and queries.                                                      *)
(***************************************************************************)

\* The page that shows the query of a case.
Shows(c) == page \in {"edit", "case"} /\ id = c

\* The effect on the case: the form says what the cache says, whatever has been typed over it.
Filled(d) == [base |-> d.text, suite |-> d.named]

FilledFrom(data, old) == IF data = Nothing THEN old ELSE Filled(CHOOSE d \in data : TRUE)

\* Every way out of a page; what was on it is gone.
Away ==
    /\ page' = "away" /\ id' = NoCase /\ form' = EmptyForm
    /\ versions' = "none" /\ executing' = FALSE /\ import' = NoImport

LeaveCase ==
    /\ page # "away"
    /\ Away
    /\ UNCHANGED <<backend, events, detail, suites, visit, sub, runSent, history>>

\* The editor, of a case or of a new one, with the case's and the suites' queries.
CaseEditPage(c) ==
    /\ page = "away" /\ visit < MaxVisits
    /\ c # NoCase => Exists(c)
    /\ page' = IF c = NoCase THEN "new" ELSE "edit"
    /\ id' = c
    /\ visit' = visit + 1
    /\ suites' = Mounted(suites)
    /\ IF c = NoCase
         THEN form' = EmptyForm /\ UNCHANGED detail
         ELSE /\ detail' = [detail EXCEPT ![c] = Mounted(@)]
              /\ form' = FilledFrom(detail[c].data, EmptyForm)
    /\ UNCHANGED <<backend, events, versions, executing, import, sub, runSent, history>>

\* The page of a case also asks once for its versions.
CaseDetailPage(c) ==
    /\ page = "away" /\ Exists(c)
    /\ page' = "case" /\ id' = c
    /\ detail' = [detail EXCEPT ![c] = Mounted(@)]
    /\ versions' = "loading"
    /\ UNCHANGED <<backend, events, suites, visit, form, executing, import, sub, runSent, history>>

\* The versions arrive, or fail to, and there are none.
VersionsSettle ==
    /\ versions = "loading"
    /\ versions' = "loaded"
    /\ UNCHANGED <<backend, events, detail, suites, page, id, visit, form, executing, import,
                   sub, runSent, history>>

CaseServed(c) ==
    /\ detail[c].fetch = "sent"
    /\ detail' = [detail EXCEPT ![c] = Served(@, [text |-> text[c], named |-> c \in named])]
    /\ UNCHANGED <<backend, events, suites, formPageVars, sub, runSent, history>>

\* The same data again is the same object, and no effect.
Refilled(c) ==
    form' = IF page = "edit" /\ id = c /\ detail[c].ans # detail[c].data
              THEN FilledFrom(detail[c].ans, form) ELSE form

CaseArrives(c) ==
    /\ detail[c].fetch = "served"
    /\ detail' = [detail EXCEPT ![c] = Arrived(@)]
    /\ Refilled(c)
    /\ UNCHANGED <<backend, events, suites, page, id, visit, versions, executing, import, sub,
                   runSent, history>>

SuitesServed ==
    /\ suites.fetch = "sent"
    /\ suites' = Served(suites, members)
    /\ UNCHANGED <<backend, events, detail, formPageVars, sub, runSent, history>>

SuitesArrive ==
    /\ suites.fetch = "served"
    /\ suites' = Arrived(suites)
    /\ UNCHANGED <<backend, events, detail, formPageVars, sub, runSent, history>>

QueriesFailOrAge ==
    /\ Event
    /\ \/ suites.fetch # "none" /\ suites' = Failed(suites) /\ UNCHANGED detail
       \/ suites.fresh /\ suites' = Aged(suites) /\ UNCHANGED detail
       \/ \E c \in Cases :
            /\ \/ detail[c].fetch # "none" /\ detail' = [detail EXCEPT ![c] = Failed(@)]
               \/ detail[c].fresh /\ detail' = [detail EXCEPT ![c] = Aged(@)]
            /\ UNCHANGED suites
    /\ UNCHANGED <<backend, formPageVars, sub, runSent, history>>

\* Another user saves a case, or the suite with one case more or less.
OtherUserWrites ==
    /\ Event
    /\ \/ /\ writes < MaxWrites
          /\ writes' = writes + 1
          /\ \E c \in Cases \ Locked : Exists(c) /\ text' = [text EXCEPT ![c] = writes']
          /\ UNCHANGED <<members, wasIn>>
       \/ /\ \E c \in Cases : /\ Exists(c)
                              /\ members' \in {members \cup {c}, members \ {c}} \ {members}
          /\ wasIn' = wasIn \cup members'
          /\ UNCHANGED <<text, writes>>
    /\ UNCHANGED <<named, flushed, detail, suites, formPageVars, sub, runSent, made, excused>>

-------------------------------------------------------------------------------
(***************************************************************************)
(* The editor.                                                             *)
(***************************************************************************)

\* The editor of a case whose first load is under way shows no form.
FormShown ==
    \/ page = "new"
    \/ page = "edit" /\ (Has(detail[id]) \/ detail[id].fetch = "none")

\* The field of the suite, which offers the ones that are loaded.
ChooseSuite ==
    /\ FormShown
    /\ Has(suites) \/ form.suite
    /\ form' = [form EXCEPT !.suite = ~@]
    /\ UNCHANGED <<backend, events, detail, suites, page, id, visit, versions, executing,
                   import, sub, runSent, history>>

\* createCase.isPending, updateCase.isPending: only the save counts, not the filing.
savePending == \E s \in Submissions : sub[s].visit = visit
                                      /\ sub[s].st \in {"saving", "saved", "notSaved"}

\* Slip: the button stays enabled while the save is under way.
SaveAlwaysEnabled == FormShown

\* The button, and Enter, which presses it.
SaveEnabled == FormShown /\ ~savePending

\* What is filed is worked out from the suites as they are cached now.
handleSubmit(s) ==
    /\ SaveEnabled
    /\ sub[s].st = "idle"
    /\ sub' = [sub EXCEPT ![s] = [st |-> "saving", visit |-> visit, case |-> id,
                                  suite |-> form.suite, known |-> Has(suites),
                                  list |-> UNION suites.data]]
    /\ UNCHANGED <<backend, events, detail, suites, formPageVars, runSent, history>>

Stage(s, stage) == sub' = [sub EXCEPT ![s].st = stage]

\* The backend creates or overwrites the case as a whole and answers.
SaveServed(s) ==
    /\ sub[s].st = "saving" /\ writes < MaxWrites
    /\ \E c \in Cases :
         /\ IF sub[s].case = NoCase THEN c \in Free /\ \A d \in Free : c <= d
                                    ELSE c = sub[s].case /\ c \notin Locked
         /\ writes' = writes + 1
         /\ flushed' = flushed \cup {[cases |-> {c}, text |-> writes', named |-> sub[s].suite]}
         /\ made' = [made EXCEPT ![sub[s].visit] = IF sub[s].case = NoCase THEN @ \cup {c} ELSE @]
         /\ sub' = [sub EXCEPT ![s].st = "saved", ![s].case = c]
    /\ UNCHANGED <<text, named, members, events, detail, suites, formPageVars, runSent, excused,
                   wasIn>>

\* The session of a request is committed when the answer is out; a commit that fails is
\* rolled back, and nobody is told.  A suite that was not chosen was not sent and so stays.
CaseCommitted ==
    /\ \E w \in flushed :
         /\ flushed' = flushed \ {w}
         /\ \/ /\ text' = [c \in Cases |-> IF c \in w.cases THEN w.text ELSE text[c]]
               /\ named' = IF w.named THEN named \cup w.cases ELSE named
               /\ UNCHANGED events
            \/ Event /\ UNCHANGED <<text, named>>
    /\ UNCHANGED <<members, writes, detail, suites, formPageVars, sub, runSent, history>>

\* A call fails before the backend, or its answer is lost.
CallLost(s) ==
    /\ Event
    /\ \/ sub[s].st \in {"saving", "saved"} /\ Stage(s, "notSaved")
       \/ sub[s].st \in {"filing", "filed"} /\ Stage(s, "notFiled")
    /\ excused' = excused \cup {sub[s].visit}
    /\ UNCHANGED <<backend, detail, suites, formPageVars, runSent, made, wasIn>>

\* navigate("/cases"), from wherever the user is by then.
Leaves(s) == sub' = [sub EXCEPT ![s] = NoSub] /\ Away

Files(s) == sub[s].suite /\ sub[s].known /\ sub[s].case \notin sub[s].list

\* The query of the case is not invalidated, only the lists are.
SaveAnswered(s) ==
    /\ sub[s].st = "saved"
    /\ IF Files(s)
         THEN /\ Stage(s, "filing")
              /\ excused' = excused \cup {sub[s].visit}
              /\ UNCHANGED <<page, id, form, versions, executing, import>>
         ELSE Leaves(s) /\ UNCHANGED excused
    /\ UNCHANGED <<backend, events, detail, suites, visit, runSent, made, wasIn>>

\* The members of the suite are written as a whole.
FilingServed(s) ==
    /\ sub[s].st = "filing"
    /\ members' = sub[s].list \cup {sub[s].case}
    /\ wasIn' = wasIn \cup members'
    /\ Stage(s, "filed")
    /\ UNCHANGED <<text, named, writes, flushed, events, detail, suites, formPageVars, runSent, made,
                   excused>>

FilingAnswered(s) ==
    /\ sub[s].st = "filed"
    /\ suites' = Invalidated(suites, page \in {"new", "edit", "import"})
    /\ Leaves(s)
    /\ UNCHANGED <<backend, events, detail, visit, runSent, history>>

\* Slip: the failure of the second call is not looked at.
SubmitFailsOrLeaves(s) ==
    /\ sub[s].st \in {"notSaved", "notFiled"}
    /\ IF sub[s].st = "notFiled"
         THEN Leaves(s)
         ELSE /\ sub' = [sub EXCEPT ![s] = NoSub]
              /\ UNCHANGED <<page, id, form, versions, executing, import>>
    /\ UNCHANGED <<backend, events, detail, suites, visit, runSent, history>>

\* Either failure: the form stays, and what was saved stays saved.
SubmitFails(s) ==
    /\ sub[s].st \in {"notSaved", "notFiled"}
    /\ sub' = [sub EXCEPT ![s] = NoSub]
    /\ UNCHANGED <<backend, events, detail, suites, formPageVars, runSent, history>>

-------------------------------------------------------------------------------
(***************************************************************************)
(* Running the case that is shown.                                         *)
(***************************************************************************)

\* bound: one run under way.
handleExecute ==
    /\ page = "case" /\ ~executing /\ ~runSent /\ Event
    /\ executing' = TRUE /\ runSent' = TRUE
    /\ UNCHANGED <<backend, detail, suites, page, id, visit, form, versions, import,
                   sub, history>>

\* A success goes to the execution, from wherever the user is by then.
ExecuteAnswered ==
    /\ runSent
    /\ runSent' = FALSE
    /\ \/ Away
       \/ executing' = FALSE /\ UNCHANGED <<page, id, form, versions, import>>
    /\ UNCHANGED <<backend, events, detail, suites, visit, sub, history>>

-------------------------------------------------------------------------------
(***************************************************************************)
(* The import.  A call that outlives the page touches only the backend,    *)
(* where it might as well have come before the page was left.              *)
(***************************************************************************)

CaseImportPage ==
    /\ page = "away" /\ Event
    /\ page' = "import" /\ import' = NoImport
    /\ suites' = Mounted(suites)
    /\ UNCHANGED <<backend, detail, id, visit, form, versions, executing, sub, runSent,
                   history>>

Imported(i) ==
    /\ page = "import"
    /\ import' = i
    /\ UNCHANGED <<events, detail, suites, page, id, visit, form, versions, executing, sub, runSent,
                   history>>

handleParse ==
    /\ import.st = "idle"
    /\ Imported([NoImport EXCEPT !.st = "parsing", !.chosen = import.chosen])
    /\ UNCHANGED backend

\* The list of endpoints and the button below it.
EndpointsShown == import.endpoints > 0 /\ ~import.result

handleImport ==
    /\ EndpointsShown /\ import.chosen > 0 /\ import.st = "idle"
    /\ Imported([import EXCEPT !.st = "importing"])
    /\ UNCHANGED backend

\* The backend creates a case for every endpoint, the ones that are not chosen included,
\* and names the suite of the document; it knows no dry run.  bound: as many as are left.
ImportServed ==
    /\ import.st \in {"parsing", "importing"}
    /\ writes < MaxWrites
    /\ writes' = writes + 1
    /\ LET born == {c \in Free : Cardinality({d \in Free : d < c}) < Discovered}
       IN flushed' = flushed \cup {[cases |-> born, text |-> writes', named |-> FALSE]}
    /\ Imported([import EXCEPT !.st = IF @ = "parsing" THEN "parsed" ELSE "imported"])
    /\ UNCHANGED <<text, named, members>>

\* Slip: the choice is added to the one of the document before.
ImportAnsweredOnTop ==
    /\ import.st \in {"parsed", "imported"}
    /\ Imported(IF import.st = "parsed"
                  THEN [st |-> "idle", endpoints |-> Discovered, result |-> FALSE,
                        chosen |-> import.chosen + Discovered]
                  ELSE [import EXCEPT !.st = "idle", !.result = TRUE])
    /\ UNCHANGED backend

\* The page lists as many endpoints as there are, all chosen, or shows the result.
ImportAnswered ==
    /\ import.st \in {"parsed", "imported"}
    /\ Imported(IF import.st = "parsed"
                  THEN [st |-> "idle", endpoints |-> Discovered, chosen |-> Discovered,
                        result |-> FALSE]
                  ELSE [import EXCEPT !.st = "idle", !.result = TRUE])
    /\ UNCHANGED backend

ImportFails ==
    /\ import.st # "idle"
    /\ Imported([import EXCEPT !.st = "idle"])
    /\ UNCHANGED backend

toggleEndpoint ==
    /\ EndpointsShown
    /\ \E n \in 0..Discovered \ {import.chosen} : Imported([import EXCEPT !.chosen = n])
    /\ UNCHANGED backend

\* The button that begins again.
ImportAnother ==
    /\ import.result
    /\ Imported([import EXCEPT !.endpoints = 0, !.chosen = 0, !.result = FALSE])
    /\ UNCHANGED backend

-------------------------------------------------------------------------------
FormNext ==
    \/ LeaveCase \/ VersionsSettle \/ SuitesServed \/ SuitesArrive \/ QueriesFailOrAge
    \/ CaseCommitted \/ OtherUserWrites \/ ChooseSuite \/ handleExecute \/ ExecuteAnswered
    \/ CaseImportPage \/ handleParse \/ handleImport \/ ImportServed \/ ImportAnswered
    \/ ImportFails \/ toggleEndpoint \/ ImportAnother
    \/ \E c \in Cases \cup {NoCase} : CaseEditPage(c)
    \/ \E c \in Cases : CaseDetailPage(c) \/ CaseServed(c) \/ CaseArrives(c)
    \/ \E s \in Submissions :
         \/ handleSubmit(s) \/ SaveServed(s) \/ CallLost(s) \/ SaveAnswered(s)
         \/ FilingServed(s) \/ FilingAnswered(s) \/ SubmitFails(s)

FormSpec == FormInit /\ [][FormNext]_formVars

-------------------------------------------------------------------------------
(***************************************************************************)
(* Properties.                                                             *)
(***************************************************************************)

\* One form of a new case creates a second case only after its first submission was
\* past its save, with the filing under way or failed, or lost its answer.
CopiesHaveAReason ==
    \A v \in Visits : Cardinality(made[v]) > 1 => v \in excused

\* A submission with a suite leaves the form only when the suite has named the case,
\* unless the suites were not loaded when it was submitted.
SavedIsFiled ==
    [][\A s \in Submissions :
         (/\ sub[s].suite /\ sub[s].known
          /\ sub[s].st # "idle" /\ sub'[s].st = "idle"
          /\ page # "away" /\ page' = "away") => sub[s].case \in wasIn]_formVars

\* CaseImportPage.tsx:58 calls the first call of the import a dry run: the parsing of a
\* document creates no case.
ParseCreatesNothing ==
    [][import.st = "parsing" /\ import'.st = "parsed" => UNCHANGED <<text, flushed>>]_formVars

\* cases.py:134 says that the answer of a creation is its success: a case that the answer
\* names is stored.
AnsweredIsSaved ==
    [][\A s \in Submissions :
         sub[s].st = "saved" /\ sub'[s].st \in {"idle", "filing"} => Exists(sub[s].case)]_formVars
===============================================================================
