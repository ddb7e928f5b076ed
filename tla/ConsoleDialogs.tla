------------------------------ MODULE ConsoleDialogs ------------------------------
(***************************************************************************)
(* The four pages of the web console that keep a table by means of a       *)
(* dialog: suites, schedules, environments and mock rules.  A page caches  *)
(* one list; its dialog is filled from a cached row and writes the row as  *)
(* a whole.  The header, beside them all, keeps the environment in use.    *)
(*                                                                         *)
(* A behaviour is about one of the tables.  A row is the number of the     *)
(* write that wrote it last and its marks: the cases of a suite, whether a *)
(* schedule is enabled, whether a secret of an environment has become its  *)
(* own mask.  Names do not change.                                         *)
(***************************************************************************)
EXTENDS Naturals, FiniteSets, QueryCache

CONSTANTS
    MaxRows,    \* bound: rows there ever are
    MaxWrites,  \* bound: writes
    CaseIds,    \* the cases that a suite may have
    Calls,      \* calls that change rows and may be under way together
    MaxEvents   \* bound: writes by other users, loads and calls that fail, data that ages,
                \* leaves of the page, runs, triggers, choices in the header

ASSUME DialogsAssumption ==
    /\ MaxRows \in Nat \ {0} /\ MaxWrites \in Nat \ {0} /\ MaxEvents \in Nat
    /\ {"enabled", "masked"} \cap CaseIds = {}

VARIABLES
    table,
    db, writes, events,
    onPage, canEdit,
    query,          \* the list of the page
    header,         \* the list of environments in the header
    selectedEnv,
    dialogOpen, editing, form, deleteTarget, triggeringId,
    calls,
    acked           \* of each row, the last own write that was acknowledged

dialogVars == <<dialogOpen, editing, form, deleteTarget, triggeringId>>
vars == <<table, db, writes, events, onPage, canEdit, query, header, selectedEnv, dialogVars,
          calls, acked>>

Tables == {"suites", "schedules", "environments", "mocks"}
Rows == 1..MaxRows
NoRow == 0
Marks == CaseIds \cup {"enabled", "masked"}
\* A row that is deleted is Gone, and not created again.
Gone == MaxWrites + 1
Row == [n: 0..Gone, marks: SUBSET Marks]
Absent == [n |-> 0, marks |-> {}]
Deleted == [n |-> Gone, marks |-> {}]
Lists == [Rows -> Row]
Exists(r) == db[r].n \in 1..MaxWrites
Unborn(r) == db[r].n = 0 /\ \A q \in 1..(r - 1) : db[q].n # 0

Kinds == {"create", "update", "toggle", "delete", "run", "trigger"}
\* "sent", then done by the backend as write n, or refused; "mine": the page that made the
\* call is still mounted.
Call == [st: {"idle", "sent", "ok", "refused"}, kind: Kinds, row: 0..MaxRows,
         marks: SUBSET Marks, n: 0..Gone, mine: BOOLEAN]
NoCall == [st |-> "idle", kind |-> "run", row |-> NoRow, marks |-> {}, n |-> 0, mine |-> FALSE]

TypeOK ==
    /\ table \in Tables
    /\ db \in Lists /\ writes \in 0..MaxWrites /\ events \in 0..MaxEvents
    /\ onPage \in BOOLEAN /\ canEdit \in BOOLEAN
    /\ query \in Entries(Lists) /\ header \in Entries(SUBSET Rows)
    /\ selectedEnv \in 0..MaxRows
    /\ dialogOpen \in BOOLEAN
    /\ editing \in 0..MaxRows /\ deleteTarget \in 0..MaxRows /\ triggeringId \in 0..MaxRows
    /\ form \subseteq Marks
    /\ calls \in [Calls -> Call]
    /\ acked \in [Rows -> 0..Gone]

Init ==
    /\ table \in Tables
    /\ writes = 1
    /\ db = [r \in Rows |-> IF r = 1 THEN [n |-> 1, marks |-> {}] ELSE Absent]
    /\ events = 0
    /\ onPage = FALSE /\ canEdit \in BOOLEAN
    /\ query = Blank
    \* The header has loaded.
    /\ header = IF table = "environments" THEN Arrived(Served(Blank, {1})) ELSE Blank
    /\ selectedEnv = IF table = "environments" THEN 1 ELSE NoRow
    /\ dialogOpen = FALSE /\ editing = NoRow /\ form = {}
    /\ deleteTarget = NoRow /\ triggeringId = NoRow
    /\ calls = [c \in Calls |-> NoCall]
    /\ acked = [r \in Rows |-> 0]

Event == events < MaxEvents /\ events' = events + 1

-------------------------------------------------------------------------------
(***************************************************************************)
(* What the pages show.                                                    *)
(***************************************************************************)

Listed == UNION {{r \in Rows : l[r].n # 0} : l \in query.data}
Cached(r) == (CHOOSE l \in query.data : TRUE)[r]

\* The cards of suites, which stay when a refetch fails.
SuiteCards == Listed

\* The table of schedules, likewise.
ScheduleRows == Listed

\* The cards of environments, which an error hides.
EnvironmentCards == IF query.err THEN {} ELSE Listed

\* The table of mock rules: it looks for "rules" in what the response interceptor has
\* unwrapped to the bare list, so that there are none, and nothing to edit or to delete.
RuleRows == {}

Shown ==
    IF ~onPage THEN {}
    ELSE CASE table = "suites" -> SuiteCards
           [] table = "schedules" -> ScheduleRows
           [] table = "environments" -> EnvironmentCards
           [] OTHER -> RuleRows

\* A modal dialog keeps the rest of the page from being clicked.
NothingOpen == ~dialogOpen /\ deleteTarget = NoRow

\* isPending of the hooks of the page that is mounted.
Pending(kinds) ==
    \E c \in Calls : calls[c].mine /\ calls[c].st # "idle" /\ calls[c].kind \in kinds

-------------------------------------------------------------------------------
(***************************************************************************)
(* Pages and lists.                                                        *)
(***************************************************************************)

\* What a closed dialog keeps is overwritten when it opens, and left out.
DialogCloses == dialogOpen' = FALSE /\ editing' = NoRow /\ form' = {}

Closed ==
    /\ DialogCloses
    /\ deleteTarget' = NoRow /\ triggeringId' = NoRow

OpenPage ==
    /\ ~onPage
    /\ onPage' = TRUE
    /\ query' = Mounted(query)
    /\ Closed
    /\ UNCHANGED <<table, db, writes, events, canEdit, header, selectedEnv, calls, acked>>

Left ==
    /\ onPage' = FALSE
    /\ Closed

LeavePage ==
    /\ onPage /\ Event
    /\ Left
    /\ calls' = [c \in Calls |-> [calls[c] EXCEPT !.mine = FALSE]]
    /\ UNCHANGED <<table, db, writes, canEdit, query, header, selectedEnv, acked>>

\* What the backend answers with: the secrets of an environment as masks.
Answer ==
    [r \in Rows |-> IF ~Exists(r) THEN Absent
                    ELSE IF table = "environments" THEN [db[r] EXCEPT !.marks = {"masked"}]
                    ELSE db[r]]

ListServed ==
    /\ query.fetch = "sent"
    /\ query' = Served(query, Answer)
    /\ UNCHANGED <<table, db, writes, events, onPage, canEdit, header, selectedEnv, dialogVars,
                   calls, acked>>

ListArrives ==
    /\ query.fetch = "served"
    /\ query' = Arrived(query)
    /\ UNCHANGED <<table, db, writes, events, onPage, canEdit, header, selectedEnv, dialogVars,
                   calls, acked>>

LoadFailsOrAges ==
    /\ Event
    /\ \/ query.fetch # "none" /\ query' = Failed(query) /\ UNCHANGED header
       \/ query.fresh /\ query' = Aged(query) /\ UNCHANGED header
       \/ header.fetch # "none" /\ header' = Failed(header) /\ UNCHANGED query
    /\ UNCHANGED <<table, db, writes, onPage, canEdit, selectedEnv, dialogVars, calls, acked>>

\* Another user writes, deletes or creates a row.
OtherUser ==
    /\ Event
    /\ writes < MaxWrites
    /\ \E r \in Rows :
         \/ /\ Exists(r)
            /\ \/ writes' = writes + 1 /\ db' = [db EXCEPT ![r].n = writes']
               \/ UNCHANGED writes /\ db' = [db EXCEPT ![r] = Deleted]
         \/ /\ Unborn(r)
            /\ writes' = writes + 1
            /\ db' = [db EXCEPT ![r] = [n |-> writes', marks |-> {}]]
    /\ UNCHANGED <<table, onPage, canEdit, query, header, selectedEnv, dialogVars, calls, acked>>

-------------------------------------------------------------------------------
(***************************************************************************)
(* The header.                                                             *)
(***************************************************************************)

HeaderServed ==
    /\ header.fetch = "sent"
    /\ header' = Served(header, {r \in Rows : Exists(r)})
    /\ UNCHANGED <<table, db, writes, events, onPage, canEdit, query, selectedEnv, dialogVars,
                   calls, acked>>

\* Slip: an environment is only chosen where none is.
FirstOnlyOfNone(envs) == IF selectedEnv = NoRow THEN envs ELSE {selectedEnv}

\* Slip: an environment that is gone gives way to the next one.
NextOf(envs) == IF selectedEnv \in envs THEN {selectedEnv} ELSE {selectedEnv + 1}

\* An environment in use that is not in the list gives way to the first one of it.
FirstOf(envs) == IF selectedEnv \in envs THEN {selectedEnv} ELSE envs

HeaderArrives ==
    /\ header.fetch = "served"
    /\ header' = Arrived(header)
    /\ LET envs == UNION header.ans
       IN IF envs = {} THEN UNCHANGED selectedEnv ELSE selectedEnv' \in FirstOf(envs)
    /\ UNCHANGED <<table, db, writes, events, onPage, canEdit, query, dialogVars, calls, acked>>

handleEnvChange(r) ==
    /\ r \in UNION header.data /\ r # selectedEnv /\ Event
    /\ selectedEnv' = r
    /\ UNCHANGED <<table, db, writes, onPage, canEdit, query, header, dialogVars, calls,
                   acked>>

-------------------------------------------------------------------------------
(***************************************************************************)
(* The dialog.                                                             *)
(***************************************************************************)

Open(r, marks) ==
    /\ onPage /\ canEdit /\ NothingOpen
    /\ dialogOpen' = TRUE /\ editing' = r /\ form' = marks
    /\ UNCHANGED <<table, db, writes, events, onPage, canEdit, query, header, selectedEnv,
                   deleteTarget, triggeringId, calls, acked>>

SuitesOpenCreate == table = "suites" /\ Open(NoRow, {})
SchedulesOpenCreate == table = "schedules" /\ Open(NoRow, {"enabled"})
EnvironmentsOpenCreate == table = "environments" /\ Open(NoRow, {})
MockRulesOpenCreate == table = "mocks" /\ Open(NoRow, {})

\* The dialog is filled from the row on the screen, and not again when that changes.
SuitesOpenEdit(r) == table = "suites" /\ r \in Shown /\ Open(r, Cached(r).marks)
SchedulesOpenEdit(r) == table = "schedules" /\ r \in Shown /\ Open(r, Cached(r).marks)

\* With the masks in the place of the secrets.
EnvironmentsOpenEdit(r) == table = "environments" /\ r \in Shown /\ Open(r, Cached(r).marks)

Fill(marks) ==
    /\ dialogOpen
    /\ form' = marks
    /\ UNCHANGED <<table, db, writes, events, onPage, canEdit, query, header, selectedEnv,
                   dialogOpen, editing, deleteTarget, triggeringId, calls, acked>>

Toggled(mark) == IF mark \in form THEN form \ {mark} ELSE form \cup {mark}

toggleCaseId == table = "suites" /\ \E c \in CaseIds : Fill(Toggled(c))

\* The switch of the schedule's dialog.
SetEnabled == table = "schedules" /\ Fill(Toggled("enabled"))

\* A secret that is typed anew is not its mask.
updateVariableRow == table = "environments" /\ "masked" \in form /\ Fill({})

\* Cancel is never disabled.
Cancel ==
    /\ dialogOpen
    /\ DialogCloses
    /\ UNCHANGED <<table, db, writes, events, onPage, canEdit, query, header, selectedEnv,
                   deleteTarget, triggeringId, calls, acked>>

-------------------------------------------------------------------------------
(***************************************************************************)
(* Calls.                                                                  *)
(***************************************************************************)

Send(kind, r, marks) ==
    \E c \in Calls :
        /\ calls[c].st = "idle"
        /\ calls' = [calls EXCEPT ![c] = [st |-> "sent", kind |-> kind, row |-> r,
                                          marks |-> marks, n |-> 0, mine |-> TRUE]]

\* The button that saves, of the row that is edited when it is pressed.
Save ==
    /\ dialogOpen
    /\ ~Pending({"create", "update", "toggle"})
    /\ Send(IF editing = NoRow THEN "create" ELSE "update", editing, form)
    /\ UNCHANGED <<table, db, writes, events, onPage, canEdit, query, header, selectedEnv,
                   dialogVars, acked>>

SuitesHandleSave == table = "suites" /\ Save
SchedulesHandleSave == table = "schedules" /\ Save
EnvironmentsHandleSubmit == table = "environments" /\ Save
MockRulesHandleSubmit == table = "mocks" /\ Save

\* The button that asks first.
AskDelete(r) ==
    /\ canEdit /\ NothingOpen
    /\ r \in Shown
    /\ deleteTarget' = r
    /\ UNCHANGED <<table, db, writes, events, onPage, canEdit, query, header, selectedEnv,
                   dialogOpen, editing, form, triggeringId, calls, acked>>

\* The confirmation closes as it is pressed; cancelled, it only closes.
Confirm(guard) ==
    /\ deleteTarget # NoRow
    /\ deleteTarget' = NoRow
    /\ \/ guard /\ Send("delete", deleteTarget, {})
       \/ UNCHANGED calls
    /\ UNCHANGED <<table, db, writes, events, onPage, canEdit, query, header, selectedEnv,
                   dialogOpen, editing, form, triggeringId, acked>>

SuitesHandleDelete == table = "suites" /\ Confirm(TRUE)
SchedulesHandleDelete == table = "schedules" /\ Confirm(TRUE)
EnvironmentsHandleDelete == table = "environments" /\ Confirm(~Pending({"delete"}))

Press(kind, r, marks) ==
    /\ canEdit /\ NothingOpen /\ r \in Shown
    /\ Send(kind, r, marks)
    /\ UNCHANGED <<table, db, writes, onPage, canEdit, query, header, selectedEnv,
                   dialogOpen, editing, form, deleteTarget, acked>>

\* The switch in the table negates what the table shows.
handleToggleEnabled(r) ==
    /\ table = "schedules" /\ ~Pending({"update", "toggle"})
    /\ r \in Shown
    /\ Press("toggle", r, {"enabled"} \ Cached(r).marks)
    /\ UNCHANGED <<events, triggeringId>>

handleRunNow(r) ==
    /\ table = "schedules" /\ ~Pending({"run"})
    /\ Press("run", r, {}) /\ Event
    /\ UNCHANGED triggeringId

handleTrigger(r) ==
    /\ table = "suites" /\ triggeringId # r
    /\ Press("trigger", r, {}) /\ Event
    /\ triggeringId' = r

\* The backend.  The variables of an environment are merged: a secret that is sent as its
\* mask is its mask from then on, and what is left out stays.
CallServed(c) ==
    /\ calls[c].st = "sent"
    /\ LET call == calls[c]
           r == IF call.kind # "create" THEN call.row
                ELSE CHOOSE q \in Rows : Unborn(q)
           ok(n) == calls' = [calls EXCEPT ![c].st = "ok", ![c].row = r, ![c].n = n]
           refused == calls' = [calls EXCEPT ![c].st = "refused"]
       IN \/ /\ call.kind \in {"create", "update", "toggle"}
             /\ IF call.kind = "create"
                  THEN \E q \in Rows : Unborn(q)
                  ELSE Exists(r)
             /\ writes < MaxWrites
             /\ writes' = writes + 1
             /\ db' = [db EXCEPT ![r] = [n |-> writes', marks |-> call.marks]]
             /\ ok(writes')
          \/ /\ call.kind = "delete" /\ Exists(r)
             /\ db' = [db EXCEPT ![r] = Deleted]
             /\ ok(Gone)
             /\ UNCHANGED writes
          \/ /\ call.kind \in {"run", "trigger"} /\ Exists(r)
             /\ ok(0)
             /\ UNCHANGED <<db, writes>>
          \/ /\ call.kind # "create" /\ ~Exists(call.row)
             /\ refused
             /\ UNCHANGED <<db, writes>>
    /\ UNCHANGED <<table, events, onPage, canEdit, query, header, selectedEnv, dialogVars, acked>>

\* A call fails on its way, before the backend or after it.
CallLost(c) ==
    /\ calls[c].st \in {"sent", "ok"} /\ Event
    /\ calls' = [calls EXCEPT ![c].st = "refused"]
    /\ UNCHANGED <<table, db, writes, onPage, canEdit, query, header, selectedEnv, dialogVars,
                   acked>>

Done(c) == calls' = [calls EXCEPT ![c] = NoCall]

\* Slip: a write is not followed by an invalidation.
NotInvalidated == UNCHANGED <<query, header>>

\* onSuccess of the hooks: every list of the table, the one in the header included.
ListInvalidated ==
    /\ query' = Invalidated(query, onPage)
    /\ header' = IF table = "environments" THEN Invalidated(header, TRUE) ELSE header

Acknowledged(c) ==
    acked' = [acked EXCEPT ![calls[c].row] =
                IF calls[c].n > @ THEN calls[c].n ELSE @]

\* A save closes the dialog that is open by then, its own or another.
SaveAnswered(c) ==
    /\ calls[c].st = "ok" /\ calls[c].kind \in {"create", "update"}
    /\ ListInvalidated
    /\ Acknowledged(c)
    /\ IF calls[c].mine THEN DialogCloses ELSE UNCHANGED <<dialogOpen, editing, form>>
    /\ Done(c)
    /\ UNCHANGED <<table, db, writes, events, onPage, canEdit, selectedEnv, deleteTarget,
                   triggeringId>>

\* The pages of environments and mock rules then close the confirmation that is open.
DeleteAnswered(c) ==
    /\ calls[c].st \in {"ok", "refused"} /\ calls[c].kind = "delete"
    /\ IF calls[c].st = "ok"
         THEN ListInvalidated /\ Acknowledged(c)
         ELSE UNCHANGED <<query, header, acked>>
    /\ deleteTarget' = IF table = "environments" /\ calls[c].mine THEN NoRow ELSE deleteTarget
    /\ Done(c)
    /\ UNCHANGED <<table, db, writes, events, onPage, canEdit, selectedEnv, dialogOpen, editing,
                   form, triggeringId>>

\* useUpdateSchedule and useRunSchedule.
ToggleOrRunAnswered(c) ==
    /\ calls[c].st = "ok" /\ calls[c].kind \in {"toggle", "run"}
    /\ ListInvalidated
    /\ Acknowledged(c)
    /\ Done(c)
    /\ UNCHANGED <<table, db, writes, events, onPage, canEdit, selectedEnv, dialogVars>>

\* To the execution, from wherever the user is by then.
TriggerAnswered(c) ==
    /\ calls[c].st = "ok" /\ calls[c].kind = "trigger"
    /\ Left
    /\ calls' = [d \in Calls |-> IF d = c THEN NoCall ELSE [calls[d] EXCEPT !.mine = FALSE]]
    /\ UNCHANGED <<table, db, writes, events, canEdit, query, header, selectedEnv, acked>>

\* Any other failure is only told to the user.
CallFails(c) ==
    /\ calls[c].st = "refused" /\ calls[c].kind # "delete"
    /\ triggeringId' = IF calls[c].kind = "trigger" /\ calls[c].mine THEN NoRow ELSE triggeringId
    /\ Done(c)
    /\ UNCHANGED <<table, db, writes, events, onPage, canEdit, query, header, selectedEnv,
                   dialogOpen, editing, form, deleteTarget, acked>>

-------------------------------------------------------------------------------
Next ==
    \/ OpenPage \/ LeavePage \/ ListServed \/ ListArrives \/ LoadFailsOrAges \/ OtherUser
    \/ HeaderServed \/ HeaderArrives
    \/ SuitesOpenCreate \/ SchedulesOpenCreate \/ EnvironmentsOpenCreate \/ MockRulesOpenCreate
    \/ toggleCaseId \/ SetEnabled \/ updateVariableRow \/ Cancel
    \/ SuitesHandleSave \/ SchedulesHandleSave
    \/ EnvironmentsHandleSubmit \/ MockRulesHandleSubmit
    \/ SuitesHandleDelete \/ SchedulesHandleDelete \/ EnvironmentsHandleDelete
    \/ \E r \in Rows :
         \/ SuitesOpenEdit(r) \/ SchedulesOpenEdit(r) \/ EnvironmentsOpenEdit(r)
         \/ AskDelete(r) \/ handleToggleEnabled(r) \/ handleRunNow(r) \/ handleTrigger(r)
         \/ handleEnvChange(r)
    \/ \E c \in Calls :
         \/ CallServed(c) \/ CallLost(c) \/ SaveAnswered(c) \/ DeleteAnswered(c)
         \/ ToggleOrRunAnswered(c) \/ TriggerAnswered(c) \/ CallFails(c)

Spec == Init /\ [][Next]_vars

-------------------------------------------------------------------------------
(***************************************************************************)
(* Properties.                                                             *)
(***************************************************************************)

\* A list that counts as fresh shows what its user has been told is done: no row is older
\* than the last own write of it, and none that was deleted is left.  Only a load that
\* overtook the write is excepted.
OwnWritesShown ==
    Current(query) =>
        \A l \in query.data : \A r \in Rows : l[r].n # 0 => l[r].n >= acked[r]

\* Executions run in an environment that is in the header's list, whoever deletes which,
\* from when that list is known to have one.
SelectedEnvIsListed ==
    \A envs \in header.data : envs # {} => selectedEnv \in envs
===============================================================================
