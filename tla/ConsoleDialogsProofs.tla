-------------------------- MODULE ConsoleDialogsProofs --------------------------
(***************************************************************************)
(* Proofs about ConsoleDialogs, for every number of rows, writes, calls    *)
(* under way together and disturbances.                                    *)
(*                                                                         *)
(* OwnWritesShown is carried from the table to the screen in three steps:  *)
(* the table is at least as new as what was acknowledged, an answer that   *)
(* was served after the last invalidation is, and so is fresh data.        *)
(***************************************************************************)
EXTENDS ConsoleDialogs, TLAPS

\* The rows of a list are as new as what was acknowledged.
NewEnough(l) == \A r \in Rows : l[r].n # 0 => l[r].n >= acked[r]

\* Writes are numbered upwards, a deletion last.
TableNewest ==
    /\ \A r \in Rows : Exists(r) => db[r].n <= writes
    /\ \A r \in Rows : acked[r] <= db[r].n
    /\ \A c \in Calls : calls[c].st = "ok" => calls[c].row \in Rows /\ calls[c].n <= db[calls[c].row].n

\* A call about a row that is there names it.
CallsOfRows ==
    \A c \in Calls : calls[c].st # "idle" /\ calls[c].kind # "create" => calls[c].row \in Rows

\* An answer that no invalidation has overtaken.
AnswerNewEnough ==
    query.fetch = "served" /\ ~query.old => \A l \in query.ans : NewEnough(l)

\* Fresh data is not being loaded again.
FreshRests == query.fetch # "none" => ~query.fresh

\* The list of the header is one value.
HeaderOne == \E v, w : header.data \subseteq {v} /\ header.ans \subseteq {w}

IInv ==
    /\ TypeOK /\ CallsOfRows /\ TableNewest /\ AnswerNewEnough /\ FreshRests /\ OwnWritesShown
    /\ HeaderOne /\ SelectedEnvIsListed

-------------------------------------------------------------------------------
\* What a query does keeps the type of its entry.
LEMMA EntryTypes ==
    ASSUME NEW V, NEW e \in Entries(V)
    PROVE  /\ Fetched(e) \in Entries(V) /\ Mounted(e) \in Entries(V)
           /\ \A active \in BOOLEAN : Invalidated(e, active) \in Entries(V)
           /\ \A value \in V : Served(e, value) \in Entries(V)
           /\ Arrived(e) \in Entries(V) /\ Failed(e) \in Entries(V) /\ Aged(e) \in Entries(V)
<1>1. ASSUME NEW d \in Entries(V) PROVE Fetched(d) \in Entries(V)
  BY DEF Entries, Fetched, Has, Nothing
<1>2. [e EXCEPT !.fresh = FALSE] \in Entries(V)
  BY DEF Entries
<1>3. [e EXCEPT !.fresh = FALSE, !.old = @ \/ e.fetch # "none"] \in Entries(V)
  BY DEF Entries
<1>4. ASSUME NEW active \in BOOLEAN PROVE Invalidated(e, active) \in Entries(V)
  BY <1>1, <1>2, <1>3 DEF Invalidated
<1>5. ASSUME NEW value \in V PROVE Served(e, value) \in Entries(V)
  BY DEF Entries, Served
<1>6. Arrived(e) \in Entries(V) /\ Failed(e) \in Entries(V) /\ Aged(e) \in Entries(V)
  BY DEF Entries, Arrived, Failed, Aged, Nothing
<1>. QED  BY <1>1, <1>4, <1>5, <1>6 DEF Mounted

\* The fields of an entry after each of them.
LEMMA EntryFields ==
    ASSUME NEW V, NEW e \in Entries(V)
    PROVE  /\ LET f == Fetched(e) IN
              f.data = e.data /\ f.ans = {} /\ f.fresh = e.fresh /\ ~f.old /\ f.fetch = "sent"
           /\ \A active \in BOOLEAN : LET f == Invalidated(e, active) IN
              /\ f.data = e.data /\ f.ans \subseteq e.ans /\ ~f.fresh
              /\ f.fetch = "served" => f.old
           /\ \A value \in V : LET f == Served(e, value) IN
              f.data = e.data /\ f.ans = {value} /\ f.fresh = e.fresh /\ f.old = e.old /\ f.fetch = "served"
           /\ LET f == Arrived(e) IN
              f.data = e.ans /\ f.ans = {} /\ f.fresh /\ f.old = e.old /\ f.fetch = "none"
           /\ LET f == Failed(e) IN
              f.data = e.data /\ f.ans = {} /\ f.fresh = e.fresh /\ ~f.old /\ f.fetch = "none"
           /\ LET f == Aged(e) IN
              f.data = e.data /\ f.ans = e.ans /\ ~f.fresh /\ f.old = e.old /\ f.fetch = e.fetch
<1>1. ASSUME NEW d \in Entries(V)
      PROVE  /\ Fetched(d).data = d.data /\ Fetched(d).ans = {} /\ Fetched(d).fresh = d.fresh
             /\ ~Fetched(d).old /\ Fetched(d).fetch = "sent"
  BY DEF Entries, Fetched, Nothing
<1>2. /\ [e EXCEPT !.fresh = FALSE] \in Entries(V)
      /\ [e EXCEPT !.fresh = FALSE].data = e.data /\ ~[e EXCEPT !.fresh = FALSE].fresh
  BY DEF Entries
<1>3. ASSUME NEW active \in BOOLEAN
      PROVE  /\ Invalidated(e, active).data = e.data /\ Invalidated(e, active).ans \subseteq e.ans
             /\ ~Invalidated(e, active).fresh
             /\ Invalidated(e, active).fetch = "served" => Invalidated(e, active).old
  <2>1. CASE active /\ (e.fetch = "none" \/ Has(e))
    <3>1. Invalidated(e, active) = Fetched([e EXCEPT !.fresh = FALSE])
      BY <2>1 DEF Invalidated
    <3>. QED  BY <1>1, <1>2, <3>1
  <2>2. CASE ~(active /\ (e.fetch = "none" \/ Has(e)))
    <3>1. Invalidated(e, active) = [e EXCEPT !.fresh = FALSE, !.old = @ \/ e.fetch # "none"]
      BY <2>2 DEF Invalidated
    <3>. QED  BY <3>1 DEF Entries
  <2>. QED  BY <2>1, <2>2
<1>4. ASSUME NEW value \in V
      PROVE  /\ Served(e, value).data = e.data /\ Served(e, value).ans = {value}
             /\ Served(e, value).fresh = e.fresh /\ Served(e, value).old = e.old
             /\ Served(e, value).fetch = "served"
  BY DEF Entries, Served
<1>5. /\ Arrived(e).data = e.ans /\ Arrived(e).ans = {} /\ Arrived(e).fresh
      /\ Arrived(e).old = e.old /\ Arrived(e).fetch = "none"
  BY DEF Entries, Arrived, Nothing
<1>6. /\ Failed(e).data = e.data /\ Failed(e).ans = {} /\ Failed(e).fresh = e.fresh
      /\ ~Failed(e).old /\ Failed(e).fetch = "none"
  BY DEF Entries, Failed, Nothing
<1>7. /\ Aged(e).data = e.data /\ Aged(e).ans = e.ans /\ ~Aged(e).fresh
      /\ Aged(e).old = e.old /\ Aged(e).fetch = e.fetch
  BY DEF Entries, Aged
<1>. QED  BY <1>1, <1>3, <1>4, <1>5, <1>6, <1>7
-------------------------------------------------------------------------------
\* What is on the screen is a row, and its marks are marks.
LEMMA ShownRows ==
    ASSUME TypeOK, NEW r \in Shown
    PROVE  r \in Rows /\ Cached(r).marks \subseteq Marks
<1>1. query.data \subseteq Lists
  BY DEF TypeOK, Entries
<1>2. r \in Listed
  BY DEF Shown, SuiteCards, ScheduleRows, EnvironmentCards, RuleRows
<1>3. r \in Rows /\ query.data # {}
  BY <1>2 DEF Listed
<1>4. (CHOOSE l \in query.data : TRUE) \in Lists
  BY <1>1, <1>3
<1>. QED  BY <1>3, <1>4 DEF Cached, Lists, Row

\* A call that is made.
LEMMA SendStep ==
    ASSUME TypeOK, NEW kind \in Kinds, NEW r \in 0..MaxRows, NEW marks \in SUBSET Marks, Send(kind, r, marks)
    PROVE  /\ calls' \in [Calls -> Call]
           /\ \A c \in Calls : calls'[c].st = "ok" => calls'[c] = calls[c]
<1>. DEFINE call == [st |-> "sent", kind |-> kind, row |-> r, marks |-> marks, n |-> 0, mine |-> TRUE]
<1>1. PICK c \in Calls : calls' = [calls EXCEPT ![c] = call]
  BY DEF Send
<1>2. call \in Call /\ call.st # "ok"
  BY DialogsAssumption DEF Call, Gone
<1>. HIDE DEF call
<1>. QED  BY <1>1, <1>2 DEF TypeOK

\* A call that is over.
LEMMA DoneStep ==
    ASSUME TypeOK, NEW c \in Calls, Done(c)
    PROVE  /\ calls' \in [Calls -> Call]
           /\ \A d \in Calls : calls'[d].st = "ok" => calls'[d] = calls[d]
<1>1. NoCall \in Call /\ NoCall.st # "ok"
  BY DialogsAssumption DEF NoCall, Call, Kinds, NoRow, Gone
<1>. QED  BY <1>1 DEF Done, TypeOK

\* The calls of a page that is left.
LEMMA OthersStep ==
    ASSUME TypeOK
    PROVE  \A c \in Calls : [calls[c] EXCEPT !.mine = FALSE] \in Call
  BY DEF TypeOK, Call

-------------------------------------------------------------------------------
\* The lists are loaded, and marked as the page and its calls will have it.
LEMMA QueriesStep ==
    TypeOK /\ [Next]_vars => query' \in Entries(Lists) /\ header' \in Entries(SUBSET Rows)
<1>. SUFFICES ASSUME TypeOK, [Next]_vars PROVE query' \in Entries(Lists) /\ header' \in Entries(SUBSET Rows)
  OBVIOUS
<1>1. Answer \in Lists
  BY DialogsAssumption DEF TypeOK, Answer, Lists, Row, Absent, Marks, Gone
<1>2. {r \in Rows : Exists(r)} \in SUBSET Rows
  OBVIOUS
<1>3. query \in Entries(Lists) /\ header \in Entries(SUBSET Rows) /\ onPage \in BOOLEAN
  BY DEF TypeOK
<1>4. query' \in {query, Mounted(query), Served(query, Answer), Arrived(query), Failed(query),
                  Aged(query), Invalidated(query, onPage)}
  BY DEF Next, vars, dialogVars, OpenPage, LeavePage, ListServed, ListArrives, LoadFailsOrAges, OtherUser,
         HeaderServed, HeaderArrives, SuitesOpenCreate, SchedulesOpenCreate, EnvironmentsOpenCreate,
         MockRulesOpenCreate, Open, Fill, toggleCaseId, SetEnabled, updateVariableRow, Cancel, Save,
         SuitesHandleSave, SchedulesHandleSave, EnvironmentsHandleSubmit, MockRulesHandleSubmit, Confirm,
         SuitesHandleDelete, SchedulesHandleDelete, EnvironmentsHandleDelete, SuitesOpenEdit,
         SchedulesOpenEdit, EnvironmentsOpenEdit, AskDelete, Press, handleToggleEnabled, handleRunNow,
         handleTrigger, handleEnvChange, CallServed, CallLost, SaveAnswered, DeleteAnswered,
         ToggleOrRunAnswered, TriggerAnswered, CallFails, ListInvalidated
<1>5. header' \in {header, Served(header, {r \in Rows : Exists(r)}), Arrived(header), Failed(header),
                   Invalidated(header, TRUE)}
  BY DEF Next, vars, dialogVars, OpenPage, LeavePage, ListServed, ListArrives, LoadFailsOrAges, OtherUser,
         HeaderServed, HeaderArrives, SuitesOpenCreate, SchedulesOpenCreate, EnvironmentsOpenCreate,
         MockRulesOpenCreate, Open, Fill, toggleCaseId, SetEnabled, updateVariableRow, Cancel, Save,
         SuitesHandleSave, SchedulesHandleSave, EnvironmentsHandleSubmit, MockRulesHandleSubmit, Confirm,
         SuitesHandleDelete, SchedulesHandleDelete, EnvironmentsHandleDelete, SuitesOpenEdit,
         SchedulesOpenEdit, EnvironmentsOpenEdit, AskDelete, Press, handleToggleEnabled, handleRunNow,
         handleTrigger, handleEnvChange, CallServed, CallLost, SaveAnswered, DeleteAnswered,
         ToggleOrRunAnswered, TriggerAnswered, CallFails, ListInvalidated
<1>. QED  BY <1>1, <1>2, <1>3, <1>4, <1>5, EntryTypes

\* Typing is preserved by every step.
LEMMA TypeStep == TypeOK /\ [Next]_vars => TypeOK'
<1>. SUFFICES ASSUME TypeOK, [Next]_vars PROVE TypeOK'
  OBVIOUS
<1>1. query' \in Entries(Lists) /\ header' \in Entries(SUBSET Rows)
  BY QueriesStep
<1>2. /\ NoRow \in 0..MaxRows /\ \A r \in Rows : r \in 0..MaxRows
      /\ {} \subseteq Marks /\ "enabled" \in Marks /\ CaseIds \subseteq Marks
      /\ 0 \in 0..Gone /\ Gone \in 0..Gone /\ Absent \in Row /\ Deleted \in Row
      /\ \A n \in 0..MaxWrites : n \in 0..Gone
  BY DialogsAssumption DEF NoRow, Rows, Marks, Gone, Absent, Deleted, Row
<1>. USE <1>1, <1>2
<1>3. CASE OpenPage \/ LeavePage
  <2>1. calls' \in [Calls -> Call]
    BY <1>3, OthersStep DEF OpenPage, LeavePage, TypeOK
  <2>2. /\ onPage' \in BOOLEAN /\ dialogOpen' \in BOOLEAN /\ editing' \in 0..MaxRows
        /\ deleteTarget' \in 0..MaxRows /\ triggeringId' \in 0..MaxRows /\ form' \subseteq Marks
    BY <1>3 DEF OpenPage, LeavePage, Left, Closed, DialogCloses
  <2>3. events' \in 0..MaxEvents
    BY <1>3, DialogsAssumption DEF TypeOK, OpenPage, LeavePage, Event
  <2>4. UNCHANGED <<table, db, writes, canEdit, selectedEnv, acked>>
    BY <1>3 DEF OpenPage, LeavePage
  <2>. QED  BY <2>1, <2>2, <2>3, <2>4 DEF TypeOK
<1>4. CASE ListServed \/ ListArrives \/ LoadFailsOrAges \/ HeaderServed
  BY <1>4, DialogsAssumption DEF TypeOK, ListServed, ListArrives, LoadFailsOrAges, HeaderServed, Event, dialogVars
<1>5. CASE OtherUser
  <2>1. writes' \in 0..MaxWrites /\ events' \in 0..MaxEvents
    BY <1>5, DialogsAssumption DEF TypeOK, OtherUser, Event
  <2>2. db' \in Lists
    <3>1. writes + 1 \in 0..Gone /\ writes < MaxWrites
      BY <1>5, DialogsAssumption DEF TypeOK, OtherUser, Gone
    <3>2. \A r \in Rows : [db[r] EXCEPT !.n = writes + 1] \in Row /\ [n |-> writes + 1, marks |-> {}] \in Row
      BY <3>1 DEF TypeOK, Lists, Row
    <3>. QED  BY <1>5, <3>2 DEF OtherUser, TypeOK, Lists
  <2>3. UNCHANGED <<table, onPage, canEdit, selectedEnv, dialogVars, calls, acked>>
    BY <1>5 DEF OtherUser
  <2>. QED  BY <2>1, <2>2, <2>3 DEF TypeOK, dialogVars
<1>6. CASE HeaderArrives
  <2>1. selectedEnv' \in {selectedEnv} \cup UNION header.ans
    BY <1>6 DEF HeaderArrives, FirstOf
  <2>2. UNION header.ans \subseteq Rows
    BY DEF TypeOK, Entries
  <2>. QED  BY <1>6, <2>1, <2>2 DEF TypeOK, HeaderArrives, dialogVars
<1>7. ASSUME NEW r \in Rows, handleEnvChange(r) PROVE TypeOK'
  BY <1>7, DialogsAssumption DEF TypeOK, handleEnvChange, Event, dialogVars
<1>8. ASSUME NEW r \in 0..MaxRows, NEW marks \in SUBSET Marks, Open(r, marks) PROVE TypeOK'
  BY <1>8 DEF TypeOK, Open
<1>9. CASE SuitesOpenCreate \/ SchedulesOpenCreate \/ EnvironmentsOpenCreate \/ MockRulesOpenCreate
  BY <1>8, <1>9 DEF SuitesOpenCreate, SchedulesOpenCreate, EnvironmentsOpenCreate, MockRulesOpenCreate
<1>10. ASSUME NEW r \in Rows, SuitesOpenEdit(r) \/ SchedulesOpenEdit(r) \/ EnvironmentsOpenEdit(r) PROVE TypeOK'
  BY <1>8, <1>10, ShownRows DEF SuitesOpenEdit, SchedulesOpenEdit, EnvironmentsOpenEdit
<1>11. ASSUME NEW marks \in SUBSET Marks, Fill(marks) PROVE TypeOK'
  BY <1>11 DEF TypeOK, Fill
<1>12. CASE toggleCaseId \/ SetEnabled \/ updateVariableRow
  <2>1. \A mark \in Marks : Toggled(mark) \in SUBSET Marks
    BY DEF Toggled, TypeOK
  <2>. QED  BY <1>11, <1>12, <2>1 DEF toggleCaseId, SetEnabled, updateVariableRow
<1>13. CASE Cancel
  BY <1>13 DEF TypeOK, Cancel, DialogCloses
<1>14. CASE Save
  <2>1. calls' \in [Calls -> Call]
    <3>1. Send(IF editing = NoRow THEN "create" ELSE "update", editing, form)
      BY <1>14 DEF Save
    <3>2. (IF editing = NoRow THEN "create" ELSE "update") \in Kinds /\ editing \in 0..MaxRows /\ form \in SUBSET Marks
      BY DEF Kinds, TypeOK
    <3>. QED  BY <3>1, <3>2, SendStep
  <2>. QED  BY <1>14, <2>1 DEF TypeOK, Save, dialogVars
<1>15. ASSUME NEW r \in Rows, AskDelete(r) PROVE TypeOK'
  BY <1>15 DEF TypeOK, AskDelete
<1>16. ASSUME NEW guard, Confirm(guard) PROVE TypeOK'
  <2>1. calls' \in [Calls -> Call]
    <3>1. "delete" \in Kinds /\ deleteTarget \in 0..MaxRows /\ {} \in SUBSET Marks
      BY DEF Kinds, TypeOK
    <3>. QED  BY <1>16, <3>1, SendStep DEF Confirm, TypeOK
  <2>. QED  BY <1>16, <2>1 DEF TypeOK, Confirm
<1>17. ASSUME NEW r \in Rows, handleToggleEnabled(r) \/ handleRunNow(r) \/ handleTrigger(r) PROVE TypeOK'
  <2>1. PICK kind \in Kinds, marks \in SUBSET Marks : Press(kind, r, marks)
    BY <1>17 DEF handleToggleEnabled, handleRunNow, handleTrigger, Kinds
  <2>2. calls' \in [Calls -> Call]
    BY <2>1, SendStep DEF Press
  <2>3. events' \in 0..MaxEvents /\ triggeringId' \in 0..MaxRows
    BY <1>17, DialogsAssumption DEF TypeOK, handleToggleEnabled, handleRunNow, handleTrigger, Event
  <2>. QED  BY <2>1, <2>2, <2>3 DEF TypeOK, Press
<1>18. ASSUME NEW c \in Calls, CallLost(c) PROVE TypeOK'
  <2>1. calls' \in [Calls -> Call]
    BY <1>18 DEF TypeOK, CallLost, Call
  <2>. QED  BY <1>18, <2>1, DialogsAssumption DEF TypeOK, CallLost, Event, dialogVars
<1>19. ASSUME NEW c \in Calls, SaveAnswered(c) \/ DeleteAnswered(c) \/ ToggleOrRunAnswered(c) \/ CallFails(c)
       PROVE  TypeOK'
  <2>1. calls' \in [Calls -> Call]
    BY <1>19, DoneStep DEF SaveAnswered, DeleteAnswered, ToggleOrRunAnswered, CallFails
  <2>2. acked' \in [Rows -> 0..Gone]
    <3>1. calls[c].n \in 0..Gone
      BY DEF TypeOK, Call
    <3>2. acked' = acked \/ Acknowledged(c)
      BY <1>19 DEF SaveAnswered, DeleteAnswered, ToggleOrRunAnswered, CallFails
    <3>. QED  BY <3>1, <3>2 DEF Acknowledged, TypeOK
  <2>3. /\ dialogOpen' \in BOOLEAN /\ editing' \in 0..MaxRows /\ deleteTarget' \in 0..MaxRows
        /\ triggeringId' \in 0..MaxRows /\ form' \subseteq Marks
    BY <1>19 DEF TypeOK, SaveAnswered, DeleteAnswered, ToggleOrRunAnswered, CallFails, DialogCloses, dialogVars
  <2>4. UNCHANGED <<table, db, writes, events, onPage, canEdit, selectedEnv>>
    BY <1>19 DEF SaveAnswered, DeleteAnswered, ToggleOrRunAnswered, CallFails
  <2>. QED  BY <2>1, <2>2, <2>3, <2>4 DEF TypeOK
<1>20. ASSUME NEW c \in Calls, TriggerAnswered(c) PROVE TypeOK'
  <2>1. NoCall \in Call
    BY DEF NoCall, Call, Kinds
  <2>2. calls' \in [Calls -> Call]
    BY <1>20, <2>1, OthersStep DEF TriggerAnswered
  <2>. QED  BY <1>20, <2>2 DEF TypeOK, TriggerAnswered, Left, Closed, DialogCloses
<1>21. CASE UNCHANGED vars
  BY <1>21 DEF TypeOK, vars, dialogVars
<1>22. ASSUME NEW c \in Calls, CallServed(c) PROVE TypeOK'
  <2>. DEFINE call == calls[c]
              r == IF call.kind # "create" THEN call.row ELSE CHOOSE q \in Rows : Unborn(q)
  <2>1. call \in Call
    BY DEF TypeOK
  <2>2. CASE /\ call.kind \in {"create", "update", "toggle"}
             /\ IF call.kind = "create" THEN \E q \in Rows : Unborn(q) ELSE Exists(r)
             /\ writes < MaxWrites
             /\ writes' = writes + 1
             /\ db' = [db EXCEPT ![r] = [n |-> writes', marks |-> call.marks]]
             /\ calls' = [calls EXCEPT ![c].st = "ok", ![c].row = r, ![c].n = writes']
    <3>1. r \in 0..MaxRows
      BY <2>1, <2>2 DEF Call
    <3>2. writes' \in 0..MaxWrites
      <4>1. writes \in 0..MaxWrites /\ MaxWrites \in Nat
        BY DialogsAssumption DEF TypeOK
      <4>2. writes < MaxWrites /\ writes' = writes + 1
        BY <2>2
      <4>. QED  BY ONLY <4>1, <4>2
    <3>3. db' \in Lists
      BY <2>1, <2>2, <3>2 DEF TypeOK, Lists, Row, Call
    <3>4. calls' \in [Calls -> Call]
      BY <2>1, <2>2, <3>1, <3>2 DEF TypeOK, Call
    <3>. QED  BY <1>22, <3>2, <3>3, <3>4 DEF TypeOK, CallServed, dialogVars
  <2>3. CASE /\ UNCHANGED writes
             /\ db' \in {db, [db EXCEPT ![r] = Deleted]}
             /\ \/ calls' = [calls EXCEPT ![c].st = "ok", ![c].row = r, ![c].n = Gone]
                \/ calls' = [calls EXCEPT ![c].st = "ok", ![c].row = r, ![c].n = 0]
                \/ calls' = [calls EXCEPT ![c].st = "refused"]
             /\ call.kind # "create"
    <3>1. r \in 0..MaxRows
      BY <2>1, <2>3 DEF Call
    <3>2. calls' \in [Calls -> Call]
      BY <2>1, <2>3, <3>1 DEF TypeOK, Call
    <3>3. db' \in Lists
      BY <2>3 DEF TypeOK, Lists
    <3>. QED  BY <1>22, <2>3, <3>2, <3>3 DEF TypeOK, CallServed, dialogVars
  <2>. QED  BY <1>22, <2>2, <2>3 DEF CallServed
<1>. QED  BY <1>3, <1>4, <1>5, <1>6, <1>7, <1>9, <1>10, <1>12, <1>13, <1>14, <1>15, <1>16, <1>17, <1>18,
             <1>19, <1>20, <1>21, <1>22
          DEF Next, SuitesHandleSave, SchedulesHandleSave, EnvironmentsHandleSubmit, MockRulesHandleSubmit,
              SuitesHandleDelete, SchedulesHandleDelete, EnvironmentsHandleDelete
-------------------------------------------------------------------------------
\* The steps that touch neither table nor lists: one that makes a call, and the others.
Asks ==
    /\ UNCHANGED <<db, writes, query, header, selectedEnv, acked>>
    /\ \E kind \in Kinds, r \in 0..MaxRows, marks \in SUBSET Marks :
         (kind # "create" => r \in Rows) /\ Send(kind, r, marks)

Idles == UNCHANGED <<db, writes, query, header, selectedEnv, calls, acked>>

\* An answer that is acknowledged, or a failure that is told.
Ended(c) == SaveAnswered(c) \/ DeleteAnswered(c) \/ ToggleOrRunAnswered(c) \/ CallFails(c)

LEMMA Steps ==
    ASSUME TypeOK, [Next]_vars
    PROVE  \/ Asks \/ Idles
           \/ OpenPage \/ LeavePage \/ ListServed \/ ListArrives \/ LoadFailsOrAges \/ OtherUser
           \/ HeaderServed \/ HeaderArrives \/ \E r \in Rows : handleEnvChange(r)
           \/ \E c \in Calls : CallServed(c) \/ CallLost(c) \/ Ended(c) \/ TriggerAnswered(c)
<1>1. CASE Save
  <2>1. /\ (IF editing = NoRow THEN "create" ELSE "update") \in Kinds /\ editing \in 0..MaxRows
        /\ form \in SUBSET Marks
        /\ (IF editing = NoRow THEN "create" ELSE "update") # "create" => editing \in Rows
    BY DEF Kinds, TypeOK, NoRow, Rows
  <2>. QED  BY <1>1, <2>1 DEF Save, Asks
<1>2. ASSUME NEW guard, Confirm(guard) PROVE Asks \/ Idles
  <2>1. "delete" \in Kinds /\ deleteTarget \in 0..MaxRows /\ {} \in SUBSET Marks /\ deleteTarget \in Rows
    BY <1>2 DEF Kinds, TypeOK, Confirm, NoRow, Rows
  <2>. QED  BY <1>2, <2>1 DEF Confirm, Asks, Idles
<1>3. ASSUME NEW r \in Rows, handleToggleEnabled(r) \/ handleRunNow(r) \/ handleTrigger(r) PROVE Asks
  <2>1. PICK kind \in Kinds, marks \in SUBSET Marks : Press(kind, r, marks)
    BY <1>3 DEF handleToggleEnabled, handleRunNow, handleTrigger, Kinds, Marks
  <2>2. r \in 0..MaxRows
    BY DEF Rows
  <2>. QED  BY <2>1, <2>2 DEF Press, Asks
<1>4. CASE \/ SuitesOpenCreate \/ SchedulesOpenCreate \/ EnvironmentsOpenCreate \/ MockRulesOpenCreate
           \/ toggleCaseId \/ SetEnabled \/ updateVariableRow \/ Cancel
           \/ \E r \in Rows : SuitesOpenEdit(r) \/ SchedulesOpenEdit(r) \/ EnvironmentsOpenEdit(r) \/ AskDelete(r)
           \/ UNCHANGED vars
  BY <1>4 DEF Idles, vars, SuitesOpenCreate, SchedulesOpenCreate, EnvironmentsOpenCreate, MockRulesOpenCreate,
              Open, toggleCaseId, SetEnabled, updateVariableRow, Fill, Cancel, SuitesOpenEdit,
              SchedulesOpenEdit, EnvironmentsOpenEdit, AskDelete
<1>. QED  BY <1>1, <1>2, <1>3, <1>4
          DEF Next, Ended, SuitesHandleSave, SchedulesHandleSave, EnvironmentsHandleSubmit,
              MockRulesHandleSubmit, SuitesHandleDelete, SchedulesHandleDelete, EnvironmentsHandleDelete

\* No call is done but by the backend.
LEMMA CallsKept ==
    ASSUME TypeOK, CallsOfRows,
           \/ Asks \/ UNCHANGED calls \/ LeavePage
           \/ \E c \in Calls : CallLost(c) \/ Ended(c) \/ TriggerAnswered(c)
    PROVE  /\ CallsOfRows'
           /\ \A d \in Calls : calls'[d].st = "ok" =>
                calls[d].st = "ok" /\ calls'[d].row = calls[d].row /\ calls'[d].n = calls[d].n
<1>. USE DEF TypeOK, CallsOfRows
<1>1. CASE Asks
  <2>1. PICK kind \in Kinds, r \in 0..MaxRows, marks \in SUBSET Marks :
          (kind # "create" => r \in Rows) /\ Send(kind, r, marks)
    BY <1>1 DEF Asks
  <2>. DEFINE call == [st |-> "sent", kind |-> kind, row |-> r, marks |-> marks, n |-> 0, mine |-> TRUE]
  <2>2. PICK c \in Calls : calls' = [calls EXCEPT ![c] = call]
    BY <2>1 DEF Send
  <2>3. call.st = "sent" /\ call.kind = kind /\ call.row = r
    OBVIOUS
  <2>. HIDE DEF call
  <2>. QED  BY <2>1, <2>2, <2>3
<1>2. CASE UNCHANGED calls
  BY <1>2
<1>3. CASE LeavePage
  BY <1>3 DEF LeavePage, Call
<1>4. ASSUME NEW c \in Calls, CallLost(c) PROVE
        /\ CallsOfRows'
        /\ \A d \in Calls : calls'[d].st = "ok" =>
             calls[d].st = "ok" /\ calls'[d].row = calls[d].row /\ calls'[d].n = calls[d].n
  BY <1>4 DEF CallLost, Call
<1>5. ASSUME NEW c \in Calls, Ended(c) PROVE
        /\ CallsOfRows'
        /\ \A d \in Calls : calls'[d].st = "ok" =>
             calls[d].st = "ok" /\ calls'[d].row = calls[d].row /\ calls'[d].n = calls[d].n
  <2>1. calls' = [calls EXCEPT ![c] = NoCall] /\ NoCall.st = "idle"
    BY <1>5 DEF Ended, SaveAnswered, DeleteAnswered, ToggleOrRunAnswered, CallFails, Done, NoCall
  <2>. QED  BY <2>1
<1>6. ASSUME NEW c \in Calls, TriggerAnswered(c) PROVE
        /\ CallsOfRows'
        /\ \A d \in Calls : calls'[d].st = "ok" =>
             calls[d].st = "ok" /\ calls'[d].row = calls[d].row /\ calls'[d].n = calls[d].n
  <2>1. NoCall.st = "idle"
    BY DEF NoCall
  <2>2. calls' = [d \in Calls |-> IF d = c THEN NoCall ELSE [calls[d] EXCEPT !.mine = FALSE]]
    BY <1>6 DEF TriggerAnswered
  <2>. QED  BY <2>1, <2>2 DEF Call
<1>. QED  BY <1>1, <1>2, <1>3, <1>4, <1>5, <1>6
-------------------------------------------------------------------------------
\* What the backend does for a call.
LEMMA ServedStep ==
    ASSUME TypeOK, CallsOfRows, TableNewest, NEW c \in Calls, CallServed(c)
    PROVE  CallsOfRows' /\ TableNewest'
<1>. DEFINE call == calls[c]
            r == IF call.kind # "create" THEN call.row ELSE CHOOSE q \in Rows : Unborn(q)
            Outcome(n) == calls' = [calls EXCEPT ![c].st = "ok", ![c].row = r, ![c].n = n]
<1>. USE DEF TypeOK
<1>1. call \in Call /\ call.st = "sent" /\ acked' = acked /\ writes \in Nat /\ MaxWrites \in Nat
  <2>1. call.st = "sent" /\ acked' = acked
    BY DEF CallServed
  <2>2. writes \in Nat /\ MaxWrites \in Nat
    BY DialogsAssumption
  <2>. QED  BY <2>1, <2>2
<1>2. \A q \in Rows : db[q] \in Row /\ db[q].n \in 0..Gone
  BY DEF Lists, Row
<1>3. ASSUME NEW n \in Nat, Outcome(n), r \in Rows, UNCHANGED writes \/ writes' = writes + 1, n <= db'[r].n,
             \A q \in Rows : db[q].n <= db'[q].n /\ (Exists(q)' => db'[q].n <= writes')
      PROVE  CallsOfRows' /\ TableNewest'
  <2>1. \A d \in Calls : d # c => calls'[d] = calls[d]
    BY <1>3
  <2>2. calls'[c].row = r /\ calls'[c].n = n
    BY <1>1, <1>3 DEF Call
  <2>3. CallsOfRows'
    BY <1>3, <2>1, <2>2 DEF CallsOfRows
  <2>4. \A q \in Rows : acked'[q] <= db'[q].n
    <3>1. \A q \in Rows : acked[q] \in Nat /\ db[q].n \in Nat /\ db'[q].n \in Nat
      <4>1. db' \in Lists
        BY TypeStep DEF Next
      <4>. QED  BY <1>2, <4>1 DEF Lists, Row
    <3>2. ASSUME NEW q \in Rows PROVE acked'[q] <= db'[q].n
      <4>1. acked'[q] = acked[q] /\ acked[q] <= db[q].n /\ db[q].n <= db'[q].n
        BY <1>1, <1>3 DEF TableNewest
      <4>. QED  BY ONLY <3>1, <4>1
    <3>. QED  BY <3>2
  <2>5. \A d \in Calls : calls'[d].st = "ok" => calls'[d].row \in Rows /\ calls'[d].n <= db'[calls'[d].row].n
    <3>1. ASSUME NEW d \in Calls, d # c, calls'[d].st = "ok"
          PROVE  calls'[d].row \in Rows /\ calls'[d].n <= db'[calls'[d].row].n
      <4>1. calls[d].row \in Rows /\ calls[d].n <= db[calls[d].row].n /\ calls[d].n \in Nat
        BY <2>1, <3>1 DEF TableNewest, Call
      <4>2. db[calls[d].row].n \in Nat /\ db'[calls[d].row].n \in Nat
        <5>1. db' \in Lists
          BY TypeStep DEF Next
        <5>. QED  BY <1>2, <4>1, <5>1 DEF Lists, Row
      <4>3. db[calls[d].row].n <= db'[calls[d].row].n /\ calls'[d] = calls[d]
        BY <1>3, <2>1, <3>1, <4>1
      <4>. HIDE DEF TypeOK
      <4>. QED  BY <4>1, <4>2, <4>3
    <3>. QED  BY <1>3, <2>2, <3>1
  <2>. QED  BY <1>3, <2>3, <2>4, <2>5 DEF TableNewest
<1>4. CASE /\ call.kind \in {"create", "update", "toggle"}
           /\ IF call.kind = "create" THEN \E q \in Rows : Unborn(q) ELSE Exists(r)
           /\ writes < MaxWrites
           /\ writes' = writes + 1
           /\ db' = [db EXCEPT ![r] = [n |-> writes', marks |-> call.marks]]
           /\ Outcome(writes')
  <2>1. r \in Rows /\ (Unborn(r) \/ Exists(r))
    BY <1>1, <1>4 DEF CallsOfRows
  <2>2. db[r].n <= writes /\ db[r].n \in Nat
    BY <1>1, <1>2, <2>1 DEF TableNewest, Unborn
  <2>3. db'[r].n = writes + 1 /\ \A q \in Rows : q # r => db'[q] = db[q]
    BY <1>4, <2>1 DEF Lists
  <2>4. writes' = writes + 1 /\ Outcome(writes') /\ writes' \in Nat
    <3>1. Outcome(writes')
      BY <1>4
    <3>2. writes' = writes + 1
      BY <1>4
    <3>3. writes' \in Nat
      BY ONLY <1>1, <3>2
    <3>. QED  BY <3>1, <3>2, <3>3
  <2>. HIDE DEF r, Outcome, TypeOK
  <2>5. \A q \in Rows : db[q].n <= db'[q].n
    BY <1>1, <1>2, <2>2, <2>3
  <2>6. \A q \in Rows : Exists(q)' => db'[q].n <= writes'
    BY <1>1, <1>2, <2>3, <2>4 DEF TableNewest, Exists
  <2>7. writes' <= db'[r].n
    BY <1>1, <2>3, <2>4
  <2>. QED  BY <1>3, <2>1, <2>4, <2>5, <2>6, <2>7
<1>5. CASE /\ call.kind # "create" /\ Exists(r) /\ UNCHANGED writes
           /\ db' = [db EXCEPT ![r] = Deleted]
           /\ Outcome(Gone)
  <2>1. r \in Rows /\ Gone \in Nat /\ Outcome(Gone) /\ UNCHANGED writes
    BY <1>1, <1>5 DEF CallsOfRows, Gone
  <2>2. db'[r].n = Gone /\ \A q \in Rows : q # r => db'[q] = db[q]
    BY <1>5, <2>1 DEF Lists, Deleted
  <2>. HIDE DEF r, Outcome, TypeOK
  <2>3. \A q \in Rows : db[q].n <= db'[q].n
    BY <1>2, <2>1, <2>2 DEF Gone
  <2>4. \A q \in Rows : Exists(q)' => db'[q].n <= writes'
    BY <1>1, <2>1, <2>2 DEF TableNewest, Exists, Gone
  <2>5. Gone <= db'[r].n
    BY <2>1, <2>2
  <2>. QED  BY <1>3, <2>1, <2>3, <2>4, <2>5
<1>6. CASE /\ call.kind # "create" /\ Exists(r)
           /\ Outcome(0)
           /\ UNCHANGED <<db, writes>>
  <2>1. r \in Rows
    BY <1>1, <1>6 DEF CallsOfRows
  <2>2. 0 <= db'[r].n /\ \A q \in Rows : db[q].n <= db'[q].n
    BY <1>2, <1>6, <2>1
  <2>3. \A q \in Rows : Exists(q)' => db'[q].n <= writes'
    BY <1>6 DEF TableNewest, Exists
  <2>. HIDE DEF r
  <2>. QED  BY <1>3, <1>6, <2>1, <2>2, <2>3
<1>7. CASE /\ calls' = [calls EXCEPT ![c].st = "refused"]
           /\ UNCHANGED <<db, writes>>
  BY <1>1, <1>7 DEF CallsOfRows, TableNewest, Exists, Call
<1>. QED  BY <1>4, <1>5, <1>6, <1>7 DEF CallServed

\* A write that is acknowledged is in the table.
LEMMA AckStep ==
    ASSUME TypeOK, TableNewest, NEW c \in Calls, calls[c].st = "ok", Acknowledged(c)
    PROVE  \A r \in Rows : acked'[r] <= db[r].n
<1>1. calls[c].row \in Rows /\ calls[c].n <= db[calls[c].row].n
  BY DEF TableNewest
<1>. QED  BY <1>1 DEF Acknowledged, TypeOK, TableNewest

\* The table is as new as what was acknowledged, whoever writes.
LEMMA TableStep == IInv /\ [Next]_vars => CallsOfRows' /\ TableNewest'
<1>. SUFFICES ASSUME IInv, [Next]_vars PROVE CallsOfRows' /\ TableNewest'
  OBVIOUS
<1>0. TypeOK /\ CallsOfRows /\ TableNewest
  BY DEF IInv
<1>1. ASSUME UNCHANGED <<db, writes>>, \A r \in Rows : acked'[r] <= db[r].n,
             \/ Asks \/ UNCHANGED calls \/ LeavePage
             \/ \E c \in Calls : CallLost(c) \/ Ended(c) \/ TriggerAnswered(c)
      PROVE  CallsOfRows' /\ TableNewest'
  BY <1>0, <1>1, CallsKept DEF TableNewest, Exists
<1>2. ASSUME acked' = acked PROVE \A r \in Rows : acked'[r] <= db[r].n
  BY <1>0, <1>2 DEF TableNewest
<1>3. CASE Asks \/ Idles
  BY <1>1, <1>2, <1>3 DEF Asks, Idles
<1>4. CASE \/ OpenPage \/ LeavePage \/ ListServed \/ ListArrives \/ LoadFailsOrAges
           \/ HeaderServed \/ HeaderArrives \/ \E r \in Rows : handleEnvChange(r)
  BY <1>1, <1>2, <1>4 DEF OpenPage, LeavePage, ListServed, ListArrives, LoadFailsOrAges, HeaderServed,
                          HeaderArrives, handleEnvChange
<1>5. ASSUME NEW c \in Calls, CallLost(c) \/ TriggerAnswered(c) PROVE CallsOfRows' /\ TableNewest'
  BY <1>1, <1>2, <1>5 DEF CallLost, TriggerAnswered
<1>6. ASSUME NEW c \in Calls, Ended(c) PROVE CallsOfRows' /\ TableNewest'
  <2>1. acked' = acked \/ (calls[c].st = "ok" /\ Acknowledged(c))
    BY <1>6 DEF Ended, SaveAnswered, DeleteAnswered, ToggleOrRunAnswered, CallFails
  <2>2. UNCHANGED <<db, writes>>
    BY <1>6 DEF Ended, SaveAnswered, DeleteAnswered, ToggleOrRunAnswered, CallFails
  <2>. QED  BY <1>0, <1>1, <1>2, <1>6, <2>1, <2>2, AckStep
<1>7. ASSUME NEW c \in Calls, CallServed(c) PROVE CallsOfRows' /\ TableNewest'
  BY <1>0, <1>7, ServedStep
<1>8. CASE OtherUser
  <2>1. calls' = calls /\ acked' = acked /\ writes \in Nat /\ MaxWrites \in Nat
    BY <1>0, <1>8, DialogsAssumption DEF OtherUser, TypeOK
  <2>2. \A q \in Rows : db[q] \in Row /\ db[q].n \in 0..Gone /\ acked[q] \in Nat
    BY <1>0 DEF TypeOK, Lists, Row
  <2>3. PICK r \in Rows :
          \/ Exists(r) /\ writes' = writes + 1 /\ db' = [db EXCEPT ![r].n = writes']
          \/ Exists(r) /\ UNCHANGED writes /\ db' = [db EXCEPT ![r] = Deleted]
          \/ Unborn(r) /\ writes' = writes + 1 /\ db' = [db EXCEPT ![r] = [n |-> writes', marks |-> {}]]
    BY <1>8 DEF OtherUser
  <2>4. db'[r].n \in {writes', Gone} /\ db[r].n <= db'[r].n /\ \A q \in Rows : q # r => db'[q] = db[q]
    BY <1>0, <2>1, <2>2, <2>3 DEF TypeOK, Lists, Row, TableNewest, Unborn, Deleted, Gone
  <2>5. writes' >= writes /\ writes' \in Nat
    BY <2>1, <2>3
  <2>6. \A q \in Rows : db[q].n <= db'[q].n /\ db'[q].n \in Nat
    BY <2>1, <2>2, <2>4, <2>5 DEF Gone
  <2>7. \A q \in Rows : Exists(q)' => db'[q].n <= writes'
    BY <1>0, <2>1, <2>2, <2>4, <2>5 DEF TableNewest, Exists, Gone
  <2>8. \A q \in Rows : acked'[q] <= db'[q].n
    BY <1>0, <2>1, <2>2, <2>6 DEF TableNewest
  <2>9. \A d \in Calls : calls'[d].st = "ok" => calls'[d].row \in Rows /\ calls'[d].n <= db'[calls'[d].row].n
    <3>1. \A d \in Calls : calls[d].n \in Nat
      BY <1>0 DEF TypeOK, Call
    <3>. QED  BY <1>0, <2>1, <2>2, <2>6, <3>1 DEF TableNewest
  <2>. QED  BY <1>0, <2>1, <2>7, <2>8, <2>9 DEF TableNewest, CallsOfRows
<1>. QED  BY <1>0, <1>3, <1>4, <1>5, <1>6, <1>7, <1>8, Steps
-------------------------------------------------------------------------------
\* The answer of the backend is the table.
LEMMA AnswerIsNew ==
    ASSUME TypeOK, TableNewest
    PROVE  Answer \in Lists /\ NewEnough(Answer)
<1>1. Answer \in Lists
  BY DialogsAssumption DEF TypeOK, Answer, Lists, Row, Absent, Marks, Gone
<1>2. ASSUME NEW r \in Rows, Answer[r].n # 0 PROVE Answer[r].n = db[r].n
  BY <1>2 DEF Answer, Absent, TypeOK, Lists, Row
<1>3. \A r \in Rows : acked[r] \in Nat /\ db[r].n \in Nat /\ acked[r] <= db[r].n
  BY DEF TypeOK, Lists, Row, TableNewest
<1>. QED  BY <1>1, <1>2, <1>3 DEF NewEnough

\* An invalidation leaves nothing that counts as new.
LEMMA InvalidatedStep ==
    ASSUME TypeOK, ListInvalidated
    PROVE  AnswerNewEnough' /\ FreshRests' /\ OwnWritesShown'
<1>1. query \in Entries(Lists) /\ onPage \in BOOLEAN /\ query' = Invalidated(query, onPage)
  BY DEF TypeOK, ListInvalidated
<1>2. ~query'.fresh /\ (query'.fetch = "served" => query'.old)
  BY <1>1, EntryFields
<1>. QED  BY <1>2 DEF AnswerNewEnough, FreshRests, OwnWritesShown, Current

\* The list of the page, from the table to the screen.
LEMMA ListStep == IInv /\ [Next]_vars => AnswerNewEnough' /\ FreshRests' /\ OwnWritesShown'
<1>. SUFFICES ASSUME IInv, [Next]_vars PROVE AnswerNewEnough' /\ FreshRests' /\ OwnWritesShown'
  OBVIOUS
<1>0. /\ TypeOK /\ TableNewest /\ AnswerNewEnough /\ FreshRests /\ OwnWritesShown
      /\ query \in Entries(Lists)
  BY DEF IInv, TypeOK
<1>1. ASSUME query' = query, acked' = acked PROVE AnswerNewEnough' /\ FreshRests' /\ OwnWritesShown'
  BY <1>0, <1>1 DEF AnswerNewEnough, FreshRests, OwnWritesShown, NewEnough, Current
<1>2. ASSUME acked' = acked, query' = Fetched(query), ~query.fresh
      PROVE  AnswerNewEnough' /\ FreshRests' /\ OwnWritesShown'
  <2>1. query'.fetch = "sent" /\ ~query'.fresh
    BY <1>0, <1>2, EntryFields
  <2>. QED  BY <2>1 DEF AnswerNewEnough, FreshRests, OwnWritesShown, Current
<1>3. CASE Asks \/ Idles
  BY <1>1, <1>3 DEF Asks, Idles
<1>4. CASE OpenPage
  BY <1>1, <1>2, <1>4 DEF OpenPage, Mounted
<1>5. CASE \/ LeavePage \/ OtherUser \/ HeaderServed \/ HeaderArrives \/ \E r \in Rows : handleEnvChange(r)
           \/ \E c \in Calls : CallServed(c) \/ CallLost(c) \/ TriggerAnswered(c)
  BY <1>1, <1>5 DEF LeavePage, OtherUser, HeaderServed, HeaderArrives, handleEnvChange, CallServed,
                    CallLost, TriggerAnswered
<1>6. CASE ListServed
  <2>1. query.fetch = "sent" /\ acked' = acked /\ query' = Served(query, Answer)
    BY <1>6 DEF ListServed
  <2>2. Answer \in Lists /\ NewEnough(Answer)
    BY <1>0, AnswerIsNew
  <2>3. query'.ans = {Answer} /\ query'.fresh = query.fresh /\ query'.fetch = "served"
    BY <1>0, <2>1, <2>2, EntryFields
  <2>4. ~query'.fresh
    BY <1>0, <2>1, <2>3 DEF FreshRests
  <2>. HIDE DEF Answer
  <2>5. \A l \in query'.ans : NewEnough(l)'
    BY <2>1, <2>2, <2>3 DEF NewEnough
  <2>. QED  BY <2>4, <2>5 DEF AnswerNewEnough, FreshRests, OwnWritesShown, Current
<1>7. CASE ListArrives
  <2>1. query.fetch = "served" /\ acked' = acked /\ query' = Arrived(query)
    BY <1>7 DEF ListArrives
  <2>2. query'.data = query.ans /\ query'.old = query.old /\ query'.fetch = "none"
    BY <1>0, <2>1, EntryFields
  <2>. QED  BY <1>0, <2>1, <2>2 DEF AnswerNewEnough, FreshRests, OwnWritesShown, Current, NewEnough
<1>8. CASE LoadFailsOrAges
  <2>1. CASE query.fetch # "none" /\ query' = Failed(query)
    <3>1. query'.fresh = query.fresh /\ query'.fetch = "none"
      BY <1>0, <2>1, EntryFields
    <3>. QED  BY <1>0, <2>1, <3>1 DEF AnswerNewEnough, FreshRests, OwnWritesShown, Current
  <2>2. CASE query' = Aged(query)
    <3>1. /\ query'.ans = query.ans /\ ~query'.fresh /\ query'.old = query.old
          /\ query'.fetch = query.fetch
      BY <1>0, <2>2, EntryFields
    <3>2. acked' = acked
      BY <1>8 DEF LoadFailsOrAges
    <3>. QED  BY <1>0, <3>1, <3>2 DEF AnswerNewEnough, FreshRests, OwnWritesShown, Current, NewEnough
  <2>3. CASE query' = query
    BY <1>1, <1>8, <2>3 DEF LoadFailsOrAges
  <2>. QED  BY <1>8, <2>1, <2>2, <2>3 DEF LoadFailsOrAges
<1>9. ASSUME NEW c \in Calls, Ended(c) PROVE AnswerNewEnough' /\ FreshRests' /\ OwnWritesShown'
  <2>1. ListInvalidated \/ (query' = query /\ acked' = acked)
    BY <1>9 DEF Ended, SaveAnswered, DeleteAnswered, ToggleOrRunAnswered, CallFails
  <2>. QED  BY <1>0, <1>1, <2>1, InvalidatedStep
<1>. QED  BY <1>0, <1>3, <1>4, <1>5, <1>6, <1>7, <1>8, <1>9, Steps

\* The header has one list, and an environment of it.
LEMMA HeaderStep == IInv /\ [Next]_vars => HeaderOne' /\ SelectedEnvIsListed'
<1>. SUFFICES ASSUME IInv, [Next]_vars PROVE HeaderOne' /\ SelectedEnvIsListed'
  OBVIOUS
<1>0. TypeOK /\ HeaderOne /\ SelectedEnvIsListed /\ header \in Entries(SUBSET Rows)
  BY DEF IInv, TypeOK
<1>1. ASSUME header'.data = header.data, header'.ans \subseteq header.ans, selectedEnv' = selectedEnv
      PROVE  HeaderOne' /\ SelectedEnvIsListed'
  BY <1>0, <1>1 DEF HeaderOne, SelectedEnvIsListed
<1>2. CASE Asks \/ Idles
  BY <1>1, <1>2 DEF Asks, Idles
<1>3. CASE OpenPage \/ LeavePage \/ ListServed \/ ListArrives \/ OtherUser
  BY <1>1, <1>3 DEF OpenPage, LeavePage, ListServed, ListArrives, OtherUser
<1>4. CASE LoadFailsOrAges
  <2>1. Failed(header).data = header.data /\ Failed(header).ans = {}
    BY <1>0, EntryFields
  <2>. QED  BY <1>1, <1>4, <2>1 DEF LoadFailsOrAges
<1>5. CASE HeaderServed
  <2>1. header' = Served(header, {r \in Rows : Exists(r)}) /\ selectedEnv' = selectedEnv
    BY <1>5 DEF HeaderServed
  <2>2. \A value \in SUBSET Rows : Served(header, value).data = header.data /\ Served(header, value).ans = {value}
    BY <1>0 DEF Served, Entries
  <2>3. PICK envs \in SUBSET Rows : envs = {r \in Rows : Exists(r)}
    OBVIOUS
  <2>4. header'.data = header.data /\ header'.ans = {envs}
    BY <2>1, <2>2, <2>3
  <2>. QED  BY <1>0, <2>1, <2>4 DEF HeaderOne, SelectedEnvIsListed
<1>6. CASE HeaderArrives
  <2>1. header'.data = header.ans /\ header'.ans = {}
    BY <1>0, <1>6, EntryFields DEF HeaderArrives
  <2>2. PICK w : header.ans \subseteq {w}
    BY <1>0 DEF HeaderOne
  <2>3. ASSUME NEW envs \in header.ans, envs # {} PROVE selectedEnv' \in envs
    <3>1. UNION header.ans = envs
      BY <2>2, <2>3
    <3>. QED  BY <1>6, <2>3, <3>1 DEF HeaderArrives, FirstOf
  <2>. QED  BY <2>1, <2>2, <2>3 DEF HeaderOne, SelectedEnvIsListed
<1>7. ASSUME NEW r \in Rows, handleEnvChange(r) PROVE HeaderOne' /\ SelectedEnvIsListed'
  <2>1. header' = header /\ selectedEnv' = r /\ r \in UNION header.data
    BY <1>7 DEF handleEnvChange
  <2>2. PICK v : header.data \subseteq {v}
    BY <1>0 DEF HeaderOne
  <2>3. \A envs \in header.data : r \in envs
    BY <2>1, <2>2
  <2>. QED  BY <1>0, <2>1, <2>3 DEF HeaderOne, SelectedEnvIsListed
<1>8. ASSUME NEW c \in Calls, CallServed(c) \/ CallLost(c) \/ TriggerAnswered(c)
      PROVE  HeaderOne' /\ SelectedEnvIsListed'
  BY <1>1, <1>8 DEF CallServed, CallLost, TriggerAnswered
<1>9. ASSUME NEW c \in Calls, Ended(c) PROVE HeaderOne' /\ SelectedEnvIsListed'
  <2>1. header' \in {header, Invalidated(header, TRUE)} /\ selectedEnv' = selectedEnv
    BY <1>9 DEF Ended, SaveAnswered, DeleteAnswered, ToggleOrRunAnswered, CallFails, ListInvalidated
  <2>2. \A active \in BOOLEAN : /\ Invalidated(header, active).data = header.data
                                 /\ Invalidated(header, active).ans \subseteq header.ans
    BY <1>0, EntryFields
  <2>3. TRUE \in BOOLEAN
    OBVIOUS
  <2>4. Invalidated(header, TRUE).data = header.data /\ Invalidated(header, TRUE).ans \subseteq header.ans
    BY <2>2, <2>3, Zenon
  <2>. QED  BY <1>1, <2>1, <2>4
<1>. QED  BY <1>0, <1>2, <1>3, <1>4, <1>5, <1>6, <1>7, <1>8, <1>9, Steps

-------------------------------------------------------------------------------
\* The invariant holds at first.
LEMMA InitHolds == Init => IInv
<1>. SUFFICES ASSUME Init PROVE IInv
  OBVIOUS
<1>1. /\ Blank \in Entries(Lists) /\ Blank \in Entries(SUBSET Rows)
      /\ ~Blank.fresh /\ Blank.fetch = "none" /\ Blank.data = {} /\ Blank.ans = {}
  BY DEF Blank, Entries, Nothing
<1>2. 1 \in Rows /\ {1} \in SUBSET Rows
  BY DialogsAssumption DEF Rows
<1>3. /\ Arrived(Served(Blank, {1})) \in Entries(SUBSET Rows)
      /\ Arrived(Served(Blank, {1})).data = {{1}} /\ Arrived(Served(Blank, {1})).ans = {}
  <2>1. Served(Blank, {1}) \in Entries(SUBSET Rows) /\ Served(Blank, {1}).ans = {{1}}
    BY <1>1, <1>2 DEF Served, Blank, Entries, Nothing
  <2>. QED  BY <2>1, EntryTypes, EntryFields
<1>4. header \in Entries(SUBSET Rows) /\ HeaderOne /\ SelectedEnvIsListed
  BY <1>1, <1>3 DEF Init, HeaderOne, SelectedEnvIsListed
<1>5. \A r \in Rows : db[r] \in Row /\ (r = 1 => db[r].n = 1) /\ (r # 1 => db[r].n = 0)
  BY DialogsAssumption DEF Init, Row, Absent, Gone
<1>6. TypeOK
  <2>1. NoCall \in Call
    BY DialogsAssumption DEF NoCall, Call, Kinds, NoRow, Gone
  <2>2. db \in Lists
    BY <1>5 DEF Init, Lists
  <2>3. acked \in [Rows -> 0..Gone] /\ writes \in 0..MaxWrites /\ events \in 0..MaxEvents
    BY DialogsAssumption DEF Init, Gone
  <2>4. selectedEnv \in 0..MaxRows /\ NoRow \in 0..MaxRows
    BY DialogsAssumption DEF Init, NoRow
  <2>. QED  BY <1>1, <1>4, <2>1, <2>2, <2>3, <2>4 DEF Init, TypeOK
<1>7. CallsOfRows /\ TableNewest
  <2>1. NoCall.st = "idle"
    BY DEF NoCall
  <2>. QED  BY <1>5, <2>1 DEF Init, CallsOfRows, TableNewest, Exists
<1>8. AnswerNewEnough /\ FreshRests /\ OwnWritesShown
  BY <1>1 DEF Init, AnswerNewEnough, FreshRests, OwnWritesShown, Current
<1>. QED  BY <1>4, <1>6, <1>7, <1>8 DEF IInv

\* The invariant on which the properties rest holds in every state.
THEOREM Invariance == Spec => []IInv
<1>1. IInv /\ [Next]_vars => IInv'
  BY TypeStep, TableStep, ListStep, HeaderStep DEF IInv
<1>. QED  BY <1>1, InitHolds, PTL DEF Spec

\* Every variable has its type.
THEOREM TypeCorrect == Spec => []TypeOK
<1>1. IInv => TypeOK
  BY DEF IInv
<1>. QED  BY <1>1, Invariance, PTL

\* A fresh list is never older than an own write of which its user has been told, whatever
\* other calls and loads were under way.
THEOREM WritesAreShown == Spec => []OwnWritesShown
<1>1. IInv => OwnWritesShown
  BY DEF IInv
<1>. QED  BY <1>1, Invariance, PTL

\* The environment in use is one of the header's list.
THEOREM EnvIsListed == Spec => []SelectedEnvIsListed
<1>1. IInv => SelectedEnvIsListed
  BY DEF IInv
<1>. QED  BY <1>1, Invariance, PTL
===============================================================================
