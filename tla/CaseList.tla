-------------------------------- MODULE CaseList --------------------------------
(***************************************************************************)
(* The page of cases of the web console: a list that is cached per page    *)
(* and search, rows that are selected, deleted and run, alone or together, *)
(* and the cases of the backend, which other users change too.             *)
(*                                                                         *)
(* A case is a number.  Its text, tags and priority are left out: a list   *)
(* is the set of cases on one page of it.                                  *)
(***************************************************************************)
EXTENDS Naturals, FiniteSets, CaseNumbers, Disturbances, QueryCache

CONSTANTS
    PageSize,
    MaxDeletes, \* bound: cases that the user deletes
    Found       \* the cases that the search in use finds

\* The disturbances are changes by other users, loads, deletions and commits that fail,
\* lists that age, searches, runs, pages turned, and leaves of the page.
ASSUME CasesAssumption ==
    /\ PageSize \in Nat \ {0} /\ MaxDeletes \in Nat
    /\ Found \subseteq Cases

VARIABLES
    updated_at, \* when each case was changed last, 0 where there is no such case
    uncommitted, \* cases whose deletion the backend has done but not yet committed
    canEdit,    \* the user is not a viewer
    onPage,     \* the page is mounted
    key,        \* the list it shows: the parameters of its address
    query,      \* the cache
    selectedIds, deleteId, batchDeleteOpen, runningIds,
    delete,     \* the call that deletes each case
    latest,     \* the case of the last of them, while it is under way: the buttons show it
    batch,      \* the calls of a batch that has not been answered as a whole
    run,        \* the call that runs one case, or a batch of them
    gone        \* cases whose deletion was committed when it was answered

pageVars == <<selectedIds, deleteId, batchDeleteOpen, runningIds>>
calls == <<delete, latest, batch, run, gone>>
caseTable == <<updated_at, uncommitted>>
vars == <<caseTable, events, canEdit, onPage, key, query, pageVars, calls>>

Stored == {c \in Cases : updated_at[c] # 0}
Searches == {"all", "found"}
PagesFor(n) == (n + PageSize - 1) \div PageSize
Pages == 1..PagesFor(MaxCases)
Keys == [page: Pages, search: Searches]
FirstPage == [page |-> 1, search |-> "all"]

Lists == [items: SUBSET Cases, pages: Pages]

TypeOK ==
    /\ updated_at \in [Cases -> 0..(MaxCases + MaxEvents)]
    /\ uncommitted \subseteq Cases
    /\ events \in 0..MaxEvents
    /\ canEdit \in BOOLEAN /\ onPage \in BOOLEAN
    /\ key \in Keys
    /\ query \in [Keys -> Entries(Lists)]
    /\ selectedIds \subseteq Cases /\ runningIds \subseteq Cases
    /\ deleteId \in Cases \cup {NoCase} /\ latest \in Cases \cup {NoCase}
    /\ batchDeleteOpen \in BOOLEAN
    /\ delete \in [Cases -> {"none", "sent", "ok", "refused", "done"}]
    /\ batch \subseteq Cases
    /\ run \in [ids: SUBSET Cases, many: BOOLEAN]
    /\ gone \subseteq Cases

NoRun == [ids |-> {}, many |-> FALSE]

Init ==
    /\ updated_at = [c \in Cases |-> c]
    /\ uncommitted = {} /\ events = 0
    /\ canEdit \in BOOLEAN
    /\ onPage = FALSE
    /\ key = FirstPage
    /\ query = [k \in Keys |-> Blank]
    /\ selectedIds = {} /\ deleteId = NoCase /\ batchDeleteOpen = FALSE /\ runningIds = {}
    /\ delete = [c \in Cases |-> "none"] /\ latest = NoCase /\ batch = {}
    /\ run = NoRun
    /\ gone = {}

-------------------------------------------------------------------------------
(***************************************************************************)
(* The backend.                                                            *)
(***************************************************************************)

Matching(search) == {c \in Stored : search = "all" \/ c \in Found}

\* The one that was changed last comes first.
Slice(k) ==
    LET all == Matching(k.search)
        newer(c) == Cardinality({d \in all : updated_at[d] > updated_at[c]})
        from == (k.page - 1) * PageSize
    IN {c \in all : newer(c) >= from /\ newer(c) < from + PageSize}

PagesOf(k) == PagesFor(Cardinality(Matching(k.search)))

\* Slip: a list without cases has no page.
CaseListedNoMinimum(k) == [items |-> Slice(k), pages |-> PagesOf(k)]

\* list: one page of the cases that match, and the number of pages, at least one.
CaseListed(k) == [items |-> Slice(k), pages |-> IF PagesOf(k) = 0 THEN 1 ELSE PagesOf(k)]

Without(c) == [updated_at EXCEPT ![c] = 0]

\* Another user creates, saves or deletes a case; it is changed after all the others.  The
\* row of a deletion that is not committed is locked.
OtherUser ==
    /\ Event
    /\ \/ \E c \in Cases : /\ delete[c] = "none" /\ \A d \in Stored : d < c
                           /\ updated_at' = [updated_at EXCEPT ![c] = MaxCases + events']
       \/ \E c \in Stored \ uncommitted :
            updated_at' \in {[updated_at EXCEPT ![c] = MaxCases + events'], Without(c)}
    /\ UNCHANGED <<uncommitted, canEdit, onPage, key, query, pageVars, calls>>

\* A deletion reaches its handler, which answers 404 where the case is gone and otherwise
\* deletes the row and answers.
DeleteServed(c) ==
    /\ delete[c] = "sent"
    /\ IF c \in Stored
         THEN /\ uncommitted' = uncommitted \cup {c}
              /\ delete' = [delete EXCEPT ![c] = "ok"]
         ELSE /\ delete' = [delete EXCEPT ![c] = "refused"]
              /\ UNCHANGED uncommitted
    /\ UNCHANGED <<updated_at, events, canEdit, onPage, key, query, pageVars, latest, batch, run,
                   gone>>

\* The session of the request is committed when the answer is out; a commit that fails is
\* rolled back, and nobody is told.
DeleteCommitted(c) ==
    /\ c \in uncommitted
    /\ uncommitted' = uncommitted \ {c}
    /\ \/ updated_at' = Without(c) /\ UNCHANGED events
       \/ Event /\ UNCHANGED updated_at
    /\ UNCHANGED <<canEdit, onPage, key, query, pageVars, calls>>

\* The call fails on its way, before the backend or after it.
DeleteLost(c) ==
    /\ delete[c] \in {"sent", "ok"} /\ Event
    /\ delete' = [delete EXCEPT ![c] = "refused"]
    /\ UNCHANGED <<caseTable, canEdit, onPage, key, query, pageVars, latest, batch, run, gone>>

-------------------------------------------------------------------------------
(***************************************************************************)
(* What the page shows.                                                    *)
(***************************************************************************)

data == query[key].data
Items == UNION {l.items : l \in data}
totalPages == IF data = Nothing THEN 1 ELSE (CHOOSE l \in data : TRUE).pages

\* The table: neither loading, nor an error, nor the notice that there are no cases.
TableShown == onPage /\ ~query[key].err /\ Items # {}

\* The bar above the rows that are selected.
BatchBar == TableShown /\ canEdit /\ selectedIds # {}

\* The buttons of a row.
RowButtons(c) == TableShown /\ canEdit /\ c \in Items

\* The pages that the numbers below the table offer, the ones between the dots left out.
PageRange ==
    IF totalPages <= 7 THEN 1..totalPages
    ELSE {1, totalPages} \cup {p \in 2..(totalPages - 1) : p >= key.page - 1 /\ p <= key.page + 1}

\* The last call that deletes is under way.
deletePending == latest # NoCase

-------------------------------------------------------------------------------
(***************************************************************************)
(* The list.                                                               *)
(***************************************************************************)

NothingOpen ==
    /\ selectedIds' = {} /\ deleteId' = NoCase /\ batchDeleteOpen' = FALSE
    /\ runningIds' = {}

CasesPage ==
    /\ ~onPage
    /\ onPage' = TRUE
    /\ key' = FirstPage
    /\ query' = [query EXCEPT ![FirstPage] = Mounted(@)]
    /\ NothingOpen
    /\ UNCHANGED <<caseTable, events, canEdit, calls>>

\* A row is opened, or the user goes elsewhere.
LeavePage ==
    /\ onPage /\ Event
    /\ onPage' = FALSE
    /\ NothingOpen
    /\ UNCHANGED <<caseTable, canEdit, key, query, calls>>

\* Slip: the selection is kept when the list changes.
SelectionKept == UNCHANGED selectedIds

\* The effect on the items, whenever they are another object: nothing is selected.
SelectionReset == selectedIds' = {}

ShowList(k) ==
    /\ onPage /\ k # key
    /\ key' = k
    /\ query' = [query EXCEPT ![k] = Mounted(@)]
    /\ SelectionReset
    /\ UNCHANGED <<caseTable, canEdit, onPage, deleteId, batchDeleteOpen, runningIds, calls>>

\* The search field and the tabs of the priorities: both go to the first page.
handleSearch ==
    /\ Event
    /\ \E s \in Searches : ShowList([page |-> 1, search |-> s])

\* The numbers below the table, and the arrows beside them.
goToPage ==
    /\ TableShown /\ Event
    /\ \E p \in PageRange : ShowList([key EXCEPT !.page = p])

ListServed(k) ==
    /\ query[k].fetch = "sent"
    /\ query' = [query EXCEPT ![k] = Served(@, CaseListed(k))]
    /\ UNCHANGED <<caseTable, events, canEdit, onPage, key, pageVars, calls>>

\* Items that are the same as before stay the same object; the same cases may differ in what
\* the model leaves out.
ListArrives(k) ==
    /\ query[k].fetch = "served"
    /\ query' = [query EXCEPT ![k] = Arrived(@)]
    /\ \/ /\ onPage /\ k = key
          /\ SelectionReset
       \/ /\ ~onPage \/ k # key \/ UNION {l.items : l \in query[k].ans} = Items
          /\ UNCHANGED selectedIds
    /\ UNCHANGED <<caseTable, events, canEdit, onPage, key, deleteId, batchDeleteOpen, runningIds,
                   calls>>

ListFails(k) ==
    /\ query[k].fetch # "none" /\ Event
    /\ query' = [query EXCEPT ![k] = Failed(@)]
    /\ UNCHANGED <<caseTable, canEdit, onPage, key, pageVars, calls>>

ListAges(k) ==
    /\ query[k].fresh /\ Event
    /\ query' = [query EXCEPT ![k] = Aged(@)]
    /\ UNCHANGED <<caseTable, canEdit, onPage, key, pageVars, calls>>

-------------------------------------------------------------------------------
(***************************************************************************)
(* Selecting.                                                              *)
(***************************************************************************)

Select(ids) ==
    /\ TableShown
    /\ selectedIds' = ids
    /\ UNCHANGED <<caseTable, events, canEdit, onPage, key, query, deleteId, batchDeleteOpen,
                   runningIds, calls>>

\* The number of the selected is compared, not the rows.
toggleSelectAll ==
    Select(IF Cardinality(selectedIds) = Cardinality(Items) THEN {} ELSE Items)

toggleSelect(c) ==
    /\ c \in Items
    /\ Select(IF c \in selectedIds THEN selectedIds \ {c} ELSE selectedIds \cup {c})

\* The button of the bar that takes the selection back.
clearSelection == BatchBar /\ Select({})

-------------------------------------------------------------------------------
(***************************************************************************)
(* Deleting.                                                               *)
(***************************************************************************)

\* bound: a case has one call that deletes it, and MaxDeletes cases have one.
Sendable(ids) ==
    /\ \A c \in ids : delete[c] = "none"
    /\ Cardinality(ids \cup {c \in Cases : delete[c] # "none"}) <= MaxDeletes

Send(ids) ==
    /\ Sendable(ids)
    /\ delete' = [c \in Cases |-> IF c \in ids THEN "sent" ELSE delete[c]]
    /\ latest' \in ids

\* The buttons that ask first.
AskDelete(c) ==
    /\ RowButtons(c)
    /\ deleteId = NoCase /\ ~batchDeleteOpen
    /\ deleteId' = c
    /\ UNCHANGED <<caseTable, events, canEdit, onPage, key, query, selectedIds, batchDeleteOpen,
                   runningIds, calls>>

AskBatchDelete ==
    /\ BatchBar
    /\ deleteId = NoCase /\ ~batchDeleteOpen
    /\ batchDeleteOpen' = TRUE
    /\ UNCHANGED <<caseTable, events, canEdit, onPage, key, query, selectedIds, deleteId, runningIds,
                   calls>>

\* The confirmation closes as it is pressed; cancelled, it only closes.
handleSingleDelete ==
    /\ deleteId # NoCase
    /\ deleteId' = NoCase
    /\ \/ ~deletePending /\ Send({deleteId})
       \/ UNCHANGED <<delete, latest>>
    /\ UNCHANGED <<caseTable, events, canEdit, onPage, key, query, selectedIds, batchDeleteOpen,
                   runningIds, batch, run, gone>>

\* It deletes what is selected now: nothing, where the list has changed behind it.
\* bound: one batch at a time.
handleBatchDelete ==
    /\ batchDeleteOpen
    /\ batchDeleteOpen' = FALSE
    /\ \/ /\ selectedIds # {} /\ batch = {}
          /\ Send(selectedIds)
          /\ batch' = selectedIds
       \/ UNCHANGED <<delete, latest, batch>>
    /\ UNCHANGED <<caseTable, events, canEdit, onPage, key, query, selectedIds, deleteId, runningIds,
                   run, gone>>

\* Slip: only the list on the screen is invalidated.
ListsInvalidatedHere ==
    query' = [query EXCEPT ![key] = Invalidated(@, onPage)]

\* useDeleteCase: every list, whatever its parameters.
ListsInvalidated ==
    query' = [k \in Keys |-> Invalidated(query[k], onPage /\ k = key)]

\* A call is answered: alone, its confirmation closes, whichever is open now; of a batch,
\* the last success or the first failure answers for all, and a failure keeps what is
\* selected.
DeleteAnswered(c) ==
    /\ delete[c] \in {"ok", "refused"}
    /\ delete' = [delete EXCEPT ![c] = "done"]
    /\ IF delete[c] = "ok"
         THEN gone' = gone \cup ({c} \ Stored) /\ ListsInvalidated
         ELSE UNCHANGED <<gone, query>>
    /\ IF c \notin batch
         THEN /\ deleteId' = NoCase
              /\ UNCHANGED <<batch, selectedIds, batchDeleteOpen>>
         ELSE /\ batch' = IF delete[c] = "ok" THEN batch \ {c} ELSE {}
              /\ batchDeleteOpen' = (batchDeleteOpen /\ batch' # {})
              /\ selectedIds' = IF batch' = {} /\ delete[c] = "ok" THEN {} ELSE selectedIds
              /\ UNCHANGED deleteId
    /\ latest' = IF latest = c THEN NoCase ELSE latest
    /\ UNCHANGED <<caseTable, events, canEdit, onPage, key, runningIds, run>>

-------------------------------------------------------------------------------
(***************************************************************************)
(* Running.                                                                *)
(***************************************************************************)

\* bound: one call that runs cases at a time.
handleRunCase(c) ==
    /\ RowButtons(c) /\ c \notin runningIds
    /\ run = NoRun /\ Event
    /\ run' = [ids |-> {c}, many |-> FALSE]
    /\ runningIds' = runningIds \cup {c}
    /\ UNCHANGED <<caseTable, canEdit, onPage, key, query, selectedIds, deleteId,
                   batchDeleteOpen, delete, latest, batch, gone>>

handleBatchRun ==
    /\ BatchBar
    /\ run = NoRun /\ Event
    /\ run' = [ids |-> {}, many |-> TRUE]
    /\ UNCHANGED <<caseTable, canEdit, onPage, key, query, pageVars, delete, latest, batch,
                   gone>>

\* A success goes to the executions, from wherever the user is by then.
RunTriggered ==
    /\ run # NoRun
    /\ run' = NoRun
    /\ onPage' = FALSE
    /\ NothingOpen
    /\ UNCHANGED <<caseTable, events, canEdit, key, query, delete, latest, batch, gone>>

\* A failure frees the button.
RunFails ==
    /\ run # NoRun
    /\ run' = NoRun
    /\ runningIds' = runningIds \ run.ids
    /\ UNCHANGED <<caseTable, events, canEdit, onPage, key, query, selectedIds, deleteId,
                   batchDeleteOpen, delete, latest, batch, gone>>

-------------------------------------------------------------------------------
Next ==
    \/ OtherUser \/ CasesPage \/ LeavePage \/ handleSearch \/ goToPage
    \/ toggleSelectAll \/ clearSelection
    \/ AskBatchDelete \/ handleSingleDelete \/ handleBatchDelete
    \/ handleBatchRun \/ RunTriggered \/ RunFails
    \/ \E k \in Keys : ListServed(k) \/ ListArrives(k) \/ ListFails(k) \/ ListAges(k)
    \/ \E c \in Cases : \/ DeleteServed(c) \/ DeleteCommitted(c) \/ DeleteLost(c) \/ DeleteAnswered(c)
                        \/ toggleSelect(c) \/ AskDelete(c) \/ handleRunCase(c)

Spec == Init /\ [][Next]_vars

-------------------------------------------------------------------------------
(***************************************************************************)
(* Properties.                                                             *)
(***************************************************************************)

\* What is selected is among the items of the list that the page is on, whichever list was
\* shown, refetched or cut short meanwhile.
SelectionIsShown == selectedIds \subseteq Items

\* A case whose deletion was committed by the time it was answered is in no list of the
\* cache that counts as fresh, the other pages and searches included, except in one whose
\* load overtook the deletion.
GoneIsGone ==
    \A k \in Keys : Current(query[k]) =>
        \A l \in query[k].data : l.items \cap gone = {}

\* cases.py:363 answers that the case has been deleted: then it is not stored.
AnsweredIsDeleted ==
    [][\A c \in Cases : delete[c] = "ok" /\ delete'[c] = "done" => c \notin Stored]_vars
===============================================================================
