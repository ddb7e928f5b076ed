-------------------------- MODULE CaseCatalogueProofs --------------------------
(***************************************************************************)
(* Proofs about CaseList and CaseForm, for every number of cases, of cases *)
(* on a page, of deletions, visits and submissions, of disturbances, and   *)
(* searches that find what they like.                                      *)
(*                                                                         *)
(* GoneIsGone is carried from the backend to the cache in three steps: a   *)
(* case whose deletion was committed before it was acknowledged is not     *)
(* stored, it is in no answer that was served after the last invalidation, *)
(* and so not in fresh data.                                               *)
(* CopiesHaveAReason is not inductive: an editor that is not excused has   *)
(* made nothing while its only save is under way, and is left with its     *)
(* case.                                                                   *)
(***************************************************************************)
EXTENDS CaseList, CaseForm, FiniteSetTheorems, TLAPS

\* A case that was not stored when its deletion was acknowledged is not stored again.
DeletedStays == \A c \in gone : delete[c] = "done" /\ updated_at[c] = 0

Clean(lists) == \A l \in lists : l.items \cap gone = {}

\* An answer that no invalidation has overtaken.
AnswersClean ==
    \A k \in Keys : query[k].fetch = "served" /\ ~query[k].old => Clean(query[k].ans)

\* Fresh data is not being loaded again.
FreshRests == \A k \in Keys : query[k].fetch # "none" => ~query[k].fresh

\* Nothing is selected on a page that is not there.
SelectedOnPage == ~onPage => selectedIds = {}

ListIInv ==
    /\ TypeOK /\ DeletedStays /\ AnswersClean /\ FreshRests /\ GoneIsGone
    /\ SelectedOnPage /\ SelectionIsShown

-------------------------------------------------------------------------------
\* What a query does keeps the type of its entry.
LEMMA EntryTypes ==
    ASSUME NEW V, NEW e \in Entries(V)
    PROVE  /\ Fetched(e) \in Entries(V) /\ Mounted(e) \in Entries(V)
           /\ \A active \in BOOLEAN : Invalidated(e, active) \in Entries(V)
           /\ \A value \in V : Served(e, value) \in Entries(V)
           /\ Arrived(e) \in Entries(V) /\ Failed(e) \in Entries(V) /\ Aged(e) \in Entries(V)
<1>1. ASSUME NEW d \in Entries(V) PROVE Fetched(d) \in Entries(V)
  BY DEF Entries, Fetched, Has, Nothing
<1>2. [e EXCEPT !.fresh = FALSE] \in Entries(V)
  BY DEF Entries
<1>3. [e EXCEPT !.fresh = FALSE, !.old = @ \/ e.fetch # "none"] \in Entries(V)
  BY DEF Entries
<1>4. ASSUME NEW active \in BOOLEAN PROVE Invalidated(e, active) \in Entries(V)
  BY <1>1, <1>2, <1>3 DEF Invalidated
<1>5. ASSUME NEW value \in V PROVE Served(e, value) \in Entries(V)
  BY DEF Entries, Served
<1>6. Arrived(e) \in Entries(V) /\ Failed(e) \in Entries(V) /\ Aged(e) \in Entries(V)
  BY DEF Entries, Arrived, Failed, Aged, Nothing
<1>. QED  BY <1>1, <1>4, <1>5, <1>6 DEF Mounted

\* The fields of an entry after each of them.
LEMMA EntryFields ==
    ASSUME NEW V, NEW e \in Entries(V)
    PROVE  /\ LET f == Mounted(e) IN
              /\ f.data = e.data
              /\ f = e \/ (~e.fresh /\ ~f.fresh /\ f.fetch = "sent" /\ f.err = (Has(e) /\ e.err))
           /\ \A active \in BOOLEAN : LET f == Invalidated(e, active) IN
              /\ f.data = e.data /\ ~f.fresh
              /\ f.fetch = "served" => f.old
           /\ \A value \in V : LET f == Served(e, value) IN
              /\ f.data = e.data /\ f.ans = {value} /\ f.fresh = e.fresh /\ f.old = e.old
              /\ f.fetch = "served"
           /\ LET f == Arrived(e) IN
              f.data = e.ans /\ f.fresh /\ f.old = e.old /\ f.fetch = "none"
           /\ LET f == Failed(e) IN
              f.data = e.data /\ f.fresh = e.fresh /\ ~f.old /\ f.fetch = "none"
           /\ LET f == Aged(e) IN
              f.data = e.data /\ f.ans = e.ans /\ ~f.fresh /\ f.old = e.old /\ f.fetch = e.fetch
<1>1. ASSUME NEW d \in Entries(V)
      PROVE  /\ Fetched(d).data = d.data /\ Fetched(d).fresh = d.fresh /\ ~Fetched(d).old
             /\ Fetched(d).fetch = "sent" /\ Fetched(d).err = (Has(d) /\ d.err)
  BY DEF Entries, Fetched
<1>2. /\ [e EXCEPT !.fresh = FALSE] \in Entries(V)
      /\ [e EXCEPT !.fresh = FALSE].data = e.data /\ ~[e EXCEPT !.fresh = FALSE].fresh
  BY DEF Entries
<1>3. ASSUME NEW active \in BOOLEAN
      PROVE  /\ Invalidated(e, active).data = e.data /\ ~Invalidated(e, active).fresh
             /\ Invalidated(e, active).fetch = "served" => Invalidated(e, active).old
  <2>1. CASE active /\ (e.fetch = "none" \/ Has(e))
    <3>1. Invalidated(e, active) = Fetched([e EXCEPT !.fresh = FALSE])
      BY <2>1 DEF Invalidated
    <3>. QED  BY <1>1, <1>2, <3>1
  <2>2. CASE ~(active /\ (e.fetch = "none" \/ Has(e)))
    <3>1. Invalidated(e, active) = [e EXCEPT !.fresh = FALSE, !.old = @ \/ e.fetch # "none"]
      BY <2>2 DEF Invalidated
    <3>. QED  BY <3>1 DEF Entries
  <2>. QED  BY <2>1, <2>2
<1>4. ASSUME NEW value \in V
      PROVE  /\ Served(e, value).data = e.data /\ Served(e, value).ans = {value}
             /\ Served(e, value).fresh = e.fresh /\ Served(e, value).old = e.old
             /\ Served(e, value).fetch = "served"
  BY DEF Entries, Served
<1>5. /\ Arrived(e).data = e.ans /\ Arrived(e).fresh
      /\ Arrived(e).old = e.old /\ Arrived(e).fetch = "none"
  BY DEF Entries, Arrived
<1>6. /\ Failed(e).data = e.data /\ Failed(e).fresh = e.fresh
      /\ ~Failed(e).old /\ Failed(e).fetch = "none"
  BY DEF Entries, Failed
<1>7. /\ Aged(e).data = e.data /\ Aged(e).ans = e.ans /\ ~Aged(e).fresh
      /\ Aged(e).old = e.old /\ Aged(e).fetch = e.fetch
  BY DEF Entries, Aged
<1>8. /\ Mounted(e).data = e.data
      /\ \/ Mounted(e) = e
         \/ /\ ~e.fresh /\ ~Mounted(e).fresh /\ Mounted(e).fetch = "sent"
            /\ Mounted(e).err = (Has(e) /\ e.err)
  BY <1>1 DEF Mounted, Entries
<1>. QED  BY <1>3, <1>4, <1>5, <1>6, <1>7, <1>8

\* The pages of fewer rows are fewer, and those of one row are one.
LEMMA PagesBounded ==
    /\ PagesFor(MaxCases) \in Nat \ {0}
    /\ \A n \in Nat : n <= MaxCases => PagesFor(n) \in 0..PagesFor(MaxCases)
<1>1. MaxCases \in Nat \ {0} /\ PageSize \in Nat \ {0}
  BY CaseNumbersAssumption, CasesAssumption
<1>2. \A a, b \in Nat : a <= b => a \div PageSize <= b \div PageSize
  BY <1>1, SMT
<1>3. \A n \in Nat : n + PageSize - 1 \in Nat /\ (n + PageSize - 1) \div PageSize \in Nat
  BY <1>1, SMT
<1>4. PageSize \div PageSize = 1
  BY <1>1, SMT
<1>5. PageSize <= MaxCases + PageSize - 1
  BY <1>1
<1>6. 1 <= PagesFor(MaxCases)
  BY <1>1, <1>2, <1>3, <1>4, <1>5 DEF PagesFor
<1>7. ASSUME NEW n \in Nat, n <= MaxCases PROVE PagesFor(n) <= PagesFor(MaxCases)
  <2>1. n + PageSize - 1 <= MaxCases + PageSize - 1
    BY <1>1, <1>7
  <2>. QED  BY <1>1, <1>2, <1>3, <2>1 DEF PagesFor
<1>8. \A n \in Nat : PagesFor(n) \in Nat
  BY <1>3 DEF PagesFor
<1>. QED  BY <1>1, <1>6, <1>7, <1>8

\* What the backend answers is a list, of stored cases.
LEMMA ListedTyped ==
    ASSUME TypeOK, NEW k \in Keys
    PROVE  CaseListed(k) \in Lists /\ CaseListed(k).items \subseteq Stored
<1>. DEFINE all == Matching(k.search)
<1>1. all \subseteq Stored /\ Stored \subseteq Cases
  BY DEF Matching, Stored
<1>2. MaxCases \in Nat \ {0} /\ PageSize \in Nat \ {0}
  BY CaseNumbersAssumption, CasesAssumption
<1>3. IsFiniteSet(Cases) /\ Cardinality(Cases) = MaxCases
  BY <1>2, FS_Interval DEF Cases
<1>4. IsFiniteSet(all) /\ Cardinality(all) <= MaxCases
  BY <1>1, <1>3, FS_Subset
<1>5. Cardinality(all) \in Nat
  BY <1>4, FS_CardinalityType
<1>6. PagesOf(k) \in 0..PagesFor(MaxCases) /\ PagesFor(MaxCases) \in Nat \ {0}
  <2>1. PagesOf(k) = PagesFor(Cardinality(all))
    BY DEF PagesOf
  <2>. HIDE DEF all
  <2>. QED  BY <1>4, <1>5, <2>1, PagesBounded
<1>7. Slice(k) \subseteq all
  BY DEF Slice
<1>. HIDE DEF all
<1>8. (IF PagesOf(k) = 0 THEN 1 ELSE PagesOf(k)) \in Pages
  BY <1>6 DEF Pages
<1>. QED  BY <1>1, <1>7, <1>8 DEF CaseListed, Lists

-------------------------------------------------------------------------------
\* The pages that the pager offers are pages.
LEMMA OfferedPages == TypeOK => PageRange \subseteq Pages /\ FirstPage \in Keys
<1>. SUFFICES ASSUME TypeOK PROVE PageRange \subseteq Pages /\ FirstPage \in Keys
  OBVIOUS
<1>1. PagesFor(MaxCases) \in Nat \ {0}
  BY PagesBounded
<1>2. totalPages \in Pages
  <2>1. CASE data = Nothing
    BY <1>1, <2>1 DEF totalPages, Pages
  <2>2. CASE data # Nothing
    <3>1. data \subseteq Lists
      BY DEF TypeOK, data, Entries
    <3>2. (CHOOSE l \in data : TRUE) \in Lists
      BY <2>2, <3>1 DEF Nothing
    <3>. QED  BY <2>2, <3>2 DEF totalPages, Lists
  <2>. QED  BY <2>1, <2>2
<1>3. PageRange \subseteq Pages
  BY <1>1, <1>2 DEF PageRange, Pages
<1>4. FirstPage \in Keys
  BY <1>1 DEF FirstPage, Keys, Pages, Searches
<1>. QED  BY <1>3, <1>4

\* The lists that the address may name.
LEMMA ShownKeys ==
    ASSUME TypeOK, handleSearch \/ goToPage
    PROVE  \E k \in Keys : ShowList(k)
<1>1. CASE handleSearch
  <2>1. PICK s \in Searches : ShowList([page |-> 1, search |-> s])
    BY <1>1 DEF handleSearch
  <2>2. [page |-> 1, search |-> s] \in Keys
    BY PagesBounded DEF Keys, Pages
  <2>. QED  BY <2>1, <2>2
<1>2. CASE goToPage
  <2>1. PICK p \in PageRange : ShowList([key EXCEPT !.page = p])
    BY <1>2 DEF goToPage
  <2>2. [key EXCEPT !.page = p] \in Keys
    BY OfferedPages DEF TypeOK, Keys
  <2>. QED  BY <2>1, <2>2
<1>. QED  BY <1>1, <1>2

\* What happens to the lists in the cache: each is mounted, invalidated, served, answered,
\* failed, aged, or as it was.
LEMMA QueriesTyped == TypeOK /\ [Next]_vars => query' \in [Keys -> Entries(Lists)]
<1>. SUFFICES ASSUME TypeOK, [Next]_vars PROVE query' \in [Keys -> Entries(Lists)]
  OBVIOUS
<1>1. query \in [Keys -> Entries(Lists)] /\ \A k \in Keys : query[k] \in Entries(Lists)
  BY DEF TypeOK
<1>2. \A k \in Keys : /\ Mounted(query[k]) \in Entries(Lists)
                      /\ \A active \in BOOLEAN : Invalidated(query[k], active) \in Entries(Lists)
                      /\ Served(query[k], CaseListed(k)) \in Entries(Lists)
                      /\ Arrived(query[k]) \in Entries(Lists)
                      /\ Failed(query[k]) \in Entries(Lists) /\ Aged(query[k]) \in Entries(Lists)
  BY <1>1, EntryTypes, ListedTyped
<1>3. CASE CasesPage
  BY <1>1, <1>2, <1>3, OfferedPages DEF CasesPage
<1>4. CASE handleSearch \/ goToPage
  BY <1>1, <1>2, <1>4, ShownKeys DEF ShowList
<1>5. ASSUME NEW k \in Keys, ListServed(k) \/ ListArrives(k) \/ ListFails(k) \/ ListAges(k)
      PROVE  query' \in [Keys -> Entries(Lists)]
  BY <1>1, <1>2, <1>5 DEF ListServed, ListArrives, ListFails, ListAges
<1>6. ASSUME NEW c \in Cases, DeleteAnswered(c) PROVE query' \in [Keys -> Entries(Lists)]
  <2>1. CASE ListsInvalidated
    <3>1. \A k \in Keys : Invalidated(query[k], onPage /\ k = key) \in Entries(Lists)
      BY <1>2 DEF TypeOK
    <3>. QED  BY <2>1, <3>1 DEF ListsInvalidated
  <2>. QED  BY <1>1, <1>6, <2>1 DEF DeleteAnswered
<1>7. CASE \/ OtherUser \/ LeavePage \/ toggleSelectAll \/ clearSelection \/ AskBatchDelete
           \/ handleSingleDelete \/ handleBatchDelete \/ handleBatchRun \/ RunTriggered \/ RunFails
           \/ \E c \in Cases : \/ DeleteServed(c) \/ DeleteCommitted(c) \/ DeleteLost(c)
                                \/ toggleSelect(c) \/ AskDelete(c) \/ handleRunCase(c)
           \/ UNCHANGED vars
  <2>1. query' = query
    BY <1>7 DEF OtherUser, LeavePage, toggleSelectAll, clearSelection, Select, AskBatchDelete,
                handleSingleDelete, handleBatchDelete, handleBatchRun, RunTriggered, RunFails,
                DeleteServed, DeleteCommitted, DeleteLost, toggleSelect, AskDelete, handleRunCase, vars
  <2>. QED  BY <1>1, <2>1
<1>. QED  BY <1>3, <1>4, <1>5, <1>6, <1>7 DEF Next

\* What happens to the cases and to the count of the disturbances.
LEMMA StoredTyped ==
    TypeOK /\ [Next]_vars => /\ updated_at' \in [Cases -> 0..(MaxCases + MaxEvents)]
                             /\ events' \in 0..MaxEvents
<1>. SUFFICES ASSUME TypeOK, [Next]_vars
     PROVE  updated_at' \in [Cases -> 0..(MaxCases + MaxEvents)] /\ events' \in 0..MaxEvents
  OBVIOUS
<1>. USE DEF caseTable
<1>1. /\ updated_at \in [Cases -> 0..(MaxCases + MaxEvents)] /\ events \in 0..MaxEvents
      /\ MaxCases \in Nat /\ MaxEvents \in Nat
  BY CaseNumbersAssumption, EventsAssumption DEF TypeOK
<1>2. \A c \in Cases : Without(c) \in [Cases -> 0..(MaxCases + MaxEvents)]
  BY <1>1 DEF Without
<1>3. Event => events' \in 0..MaxEvents /\ MaxCases + events' \in 0..(MaxCases + MaxEvents)
  BY <1>1 DEF Event
<1>4. CASE OtherUser
  <2>1. events' \in 0..MaxEvents /\ MaxCases + events' \in 0..(MaxCases + MaxEvents)
    BY <1>3, <1>4 DEF OtherUser
  <2>2. \A c \in Cases : [updated_at EXCEPT ![c] = MaxCases + events'] \in [Cases -> 0..(MaxCases + MaxEvents)]
    BY <1>1, <2>1
  <2>. QED  BY <1>2, <1>4, <2>1, <2>2 DEF OtherUser, Stored
<1>5. ASSUME NEW c \in Cases, DeleteServed(c) \/ DeleteCommitted(c) \/ DeleteLost(c)
      PROVE  updated_at' \in [Cases -> 0..(MaxCases + MaxEvents)] /\ events' \in 0..MaxEvents
  BY <1>1, <1>2, <1>3, <1>5 DEF DeleteServed, DeleteCommitted, DeleteLost
<1>6. ASSUME NEW k \in Keys, ListServed(k) \/ ListArrives(k) \/ ListFails(k) \/ ListAges(k)
      PROVE  updated_at' = updated_at /\ events' \in 0..MaxEvents
  BY <1>1, <1>3, <1>6 DEF ListServed, ListArrives, ListFails, ListAges
<1>7. CASE handleSearch \/ goToPage
  BY <1>1, <1>3, <1>7 DEF handleSearch, goToPage, ShowList
<1>8. ASSUME NEW c \in Cases, DeleteAnswered(c) \/ toggleSelect(c) \/ AskDelete(c) \/ handleRunCase(c)
      PROVE  updated_at' = updated_at /\ events' \in 0..MaxEvents
  BY <1>1, <1>3, <1>8 DEF DeleteAnswered, toggleSelect, Select, AskDelete, handleRunCase
<1>9. CASE \/ CasesPage \/ LeavePage \/ toggleSelectAll \/ clearSelection \/ AskBatchDelete
           \/ handleSingleDelete \/ handleBatchDelete \/ handleBatchRun \/ RunTriggered \/ RunFails
           \/ UNCHANGED vars
  BY <1>1, <1>3, <1>9 DEF CasesPage, LeavePage, toggleSelectAll, clearSelection, Select, AskBatchDelete,
                handleSingleDelete, handleBatchDelete, handleBatchRun, RunTriggered, RunFails, vars
<1>. QED  BY <1>1, <1>4, <1>5, <1>6, <1>7, <1>8, <1>9 DEF Next

\* What the page keeps, and the calls.
PageTyped ==
    /\ canEdit \in BOOLEAN /\ onPage \in BOOLEAN
    /\ key \in Keys
    /\ selectedIds \subseteq Cases /\ runningIds \subseteq Cases
    /\ deleteId \in Cases \cup {NoCase} /\ latest \in Cases \cup {NoCase}
    /\ batchDeleteOpen \in BOOLEAN
    /\ delete \in [Cases -> {"none", "sent", "ok", "refused", "done"}]
    /\ batch \subseteq Cases
    /\ run \in [ids: SUBSET Cases, many: BOOLEAN]
    /\ gone \subseteq Cases /\ uncommitted \subseteq Cases

LEMMA PageStep == TypeOK /\ [Next]_vars => PageTyped'
<1>. SUFFICES ASSUME TypeOK, [Next]_vars PROVE PageTyped'
  OBVIOUS
<1>. USE DEF caseTable, pageVars, calls
<1>1. PageTyped
  BY DEF TypeOK, PageTyped
<1>2. Items \subseteq Cases
  BY DEF TypeOK, Items, data, Entries, Lists
<1>3. FirstPage \in Keys
  BY OfferedPages
<1>4. CASE CasesPage \/ LeavePage
  BY <1>1, <1>3, <1>4 DEF CasesPage, LeavePage, NothingOpen, PageTyped
<1>5. CASE handleSearch \/ goToPage
  <2>1. PICK k \in Keys : ShowList(k)
    BY <1>5, ShownKeys
  <2>. QED  BY <1>1, <2>1 DEF ShowList, SelectionReset, PageTyped
<1>6. ASSUME NEW k \in Keys, ListServed(k) \/ ListArrives(k) \/ ListFails(k) \/ ListAges(k)
      PROVE  PageTyped'
  BY <1>1, <1>6 DEF ListServed, ListArrives, SelectionReset, ListFails, ListAges, PageTyped
<1>7. ASSUME NEW ids \in SUBSET Cases, Select(ids) PROVE PageTyped'
  BY <1>1, <1>7 DEF Select, PageTyped
<1>8. CASE toggleSelectAll \/ clearSelection
  BY <1>2, <1>7, <1>8 DEF toggleSelectAll, clearSelection
<1>9. ASSUME NEW c \in Cases, toggleSelect(c) PROVE PageTyped'
  <2>1. selectedIds \ {c} \in SUBSET Cases /\ selectedIds \cup {c} \in SUBSET Cases
    BY <1>1 DEF PageTyped
  <2>. QED  BY <1>7, <1>9, <2>1 DEF toggleSelect
<1>10. CASE AskBatchDelete
  BY <1>1, <1>10 DEF AskBatchDelete, PageTyped
<1>11. ASSUME NEW c \in Cases, AskDelete(c) PROVE PageTyped'
  BY <1>1, <1>11 DEF AskDelete, PageTyped
<1>12. ASSUME NEW ids \in SUBSET Cases, Send(ids)
       PROVE  /\ delete' \in [Cases -> {"none", "sent", "ok", "refused", "done"}]
              /\ latest' \in Cases
  BY <1>1, <1>12 DEF Send, PageTyped
<1>13. CASE handleSingleDelete
  <2>1. {deleteId} \in SUBSET Cases
    BY <1>1, <1>13 DEF handleSingleDelete, PageTyped
  <2>2. /\ delete' \in [Cases -> {"none", "sent", "ok", "refused", "done"}]
        /\ latest' \in Cases \cup {NoCase}
    BY <1>1, <1>12, <1>13, <2>1 DEF handleSingleDelete, PageTyped
  <2>. QED  BY <1>1, <1>13, <2>2 DEF handleSingleDelete, PageTyped
<1>14. CASE handleBatchDelete
  <2>1. selectedIds \in SUBSET Cases
    BY <1>1 DEF PageTyped
  <2>2. /\ delete' \in [Cases -> {"none", "sent", "ok", "refused", "done"}]
        /\ latest' \in Cases \cup {NoCase} /\ batch' \subseteq Cases
    BY <1>1, <1>12, <1>14, <2>1 DEF handleBatchDelete, PageTyped
  <2>. QED  BY <1>1, <1>14, <2>2 DEF handleBatchDelete, PageTyped
<1>15. ASSUME NEW c \in Cases, DeleteServed(c) \/ DeleteCommitted(c) \/ DeleteLost(c) PROVE PageTyped'
  BY <1>1, <1>15 DEF DeleteServed, DeleteCommitted, DeleteLost, PageTyped
<1>16. ASSUME NEW c \in Cases, DeleteAnswered(c) PROVE PageTyped'
  <2>1. /\ delete' \in [Cases -> {"none", "sent", "ok", "refused", "done"}]
        /\ gone' \subseteq Cases
    BY <1>1, <1>16 DEF DeleteAnswered, PageTyped
  <2>2. /\ UNCHANGED <<caseTable, canEdit, onPage, key, runningIds, run>>
        /\ latest' \in Cases \cup {NoCase}
    BY <1>1, <1>16 DEF DeleteAnswered, PageTyped
  <2>3. /\ deleteId' \in Cases \cup {NoCase}
        /\ batch' \subseteq Cases /\ selectedIds' \subseteq Cases
    BY <1>1, <1>16 DEF DeleteAnswered, PageTyped
  <2>4. batchDeleteOpen' \in BOOLEAN
    BY <1>1, <1>16 DEF DeleteAnswered, PageTyped
  <2>. QED  BY <1>1, <2>1, <2>2, <2>3, <2>4 DEF PageTyped
<1>17. ASSUME NEW c \in Cases, handleRunCase(c) PROVE PageTyped'
  BY <1>1, <1>17 DEF handleRunCase, PageTyped
<1>18. CASE handleBatchRun
  BY <1>1, <1>18 DEF handleBatchRun, PageTyped
<1>19. CASE RunTriggered
  BY <1>1, <1>19 DEF RunTriggered, NothingOpen, NoRun, PageTyped
<1>20. CASE RunFails
  <2>1. runningIds' \subseteq Cases /\ run' \in [ids: SUBSET Cases, many: BOOLEAN]
    BY <1>1, <1>20 DEF RunFails, NoRun, PageTyped
  <2>. QED  BY <1>1, <1>20, <2>1 DEF RunFails, PageTyped
<1>21. CASE OtherUser \/ UNCHANGED vars
  BY <1>1, <1>21 DEF OtherUser, vars, PageTyped
<1>. QED  BY <1>4, <1>5, <1>6, <1>8, <1>9, <1>10, <1>11, <1>13, <1>14, <1>15, <1>16, <1>17, <1>18,
             <1>19, <1>20, <1>21 DEF Next

-------------------------------------------------------------------------------
\* A case that is gone is neither created nor saved again.
LEMMA DeletedStep == TypeOK /\ DeletedStays /\ [Next]_vars => DeletedStays'
<1>. SUFFICES ASSUME TypeOK, DeletedStays, [Next]_vars PROVE DeletedStays'
  OBVIOUS
<1>. USE DEF caseTable, pageVars, calls
<1>1. /\ updated_at \in [Cases -> 0..(MaxCases + MaxEvents)]
      /\ delete \in [Cases -> {"none", "sent", "ok", "refused", "done"}] /\ gone \subseteq Cases
  BY DEF TypeOK
<1>2. CASE OtherUser
  <2>1. PICK c, t :
          /\ c \in Cases /\ updated_at' = [updated_at EXCEPT ![c] = t]
          /\ delete[c] = "none" \/ updated_at[c] # 0 \/ t = 0
    BY <1>2 DEF OtherUser, Stored, Without
  <2>2. \A d \in Cases : updated_at[d] = 0 /\ delete[d] # "none" => updated_at'[d] = 0
    BY <1>1, <2>1
  <2>3. delete' = delete /\ gone' = gone
    BY <1>2 DEF OtherUser
  <2>. QED  BY <1>1, <2>2, <2>3 DEF DeletedStays
<1>3. ASSUME NEW c \in Cases, DeleteServed(c) \/ DeleteCommitted(c) \/ DeleteLost(c)
      PROVE  DeletedStays'
  <2>1. gone' = gone
    BY <1>3 DEF DeleteServed, DeleteCommitted, DeleteLost
  <2>2. \A d \in Cases : /\ delete[d] = "done" => delete'[d] = "done"
                         /\ updated_at[d] = 0 => updated_at'[d] = 0
    BY <1>1, <1>3 DEF DeleteServed, DeleteCommitted, DeleteLost, Without
  <2>. QED  BY <1>1, <2>1, <2>2 DEF DeletedStays
<1>4. ASSUME NEW c \in Cases, DeleteAnswered(c) PROVE DeletedStays'
  <2>1. /\ delete' = [delete EXCEPT ![c] = "done"] /\ updated_at' = updated_at
        /\ gone' \subseteq gone \cup ({c} \ Stored)
    BY <1>4 DEF DeleteAnswered
  <2>2. \A d \in Cases : updated_at'[d] = updated_at[d]
                         /\ (delete[d] = "done" \/ d = c => delete'[d] = "done")
    BY <1>1, <2>1
  <2>3. c \notin Stored => updated_at[c] = 0
    BY DEF Stored
  <2>. QED  BY <1>1, <2>1, <2>2, <2>3 DEF DeletedStays
<1>5. ASSUME NEW ids, Send(ids), updated_at' = updated_at, gone' = gone PROVE DeletedStays'
  <2>1. \A c \in Cases : /\ delete'[c] = IF c \in ids THEN "sent" ELSE delete[c]
                         /\ c \in ids => delete[c] = "none"
    BY <1>5 DEF Send, Sendable
  <2>. QED  BY <1>1, <1>5, <2>1 DEF DeletedStays
<1>6. CASE handleSingleDelete \/ handleBatchDelete
  <2>1. updated_at' = updated_at /\ gone' = gone
    BY <1>6 DEF handleSingleDelete, handleBatchDelete
  <2>2. CASE delete' = delete
    BY <2>1, <2>2 DEF DeletedStays
  <2>3. CASE \E ids : Send(ids)
    BY <1>5, <2>1, <2>3
  <2>. QED  BY <1>6, <2>2, <2>3 DEF handleSingleDelete, handleBatchDelete
<1>7. ASSUME UNCHANGED <<updated_at, delete, gone>> PROVE DeletedStays'
  BY <1>7 DEF DeletedStays
<1>8. CASE \/ CasesPage \/ LeavePage \/ toggleSelectAll \/ clearSelection \/ AskBatchDelete
           \/ handleBatchRun \/ RunTriggered \/ RunFails \/ handleSearch \/ goToPage
           \/ \E k \in Keys : ListServed(k) \/ ListArrives(k) \/ ListFails(k) \/ ListAges(k)
           \/ \E c \in Cases : toggleSelect(c) \/ AskDelete(c) \/ handleRunCase(c)
           \/ UNCHANGED vars
  BY <1>7, <1>8 DEF CasesPage, LeavePage, toggleSelectAll, clearSelection, Select, AskBatchDelete,
       handleBatchRun, RunTriggered, RunFails, handleSearch, goToPage, ShowList, ListServed,
       ListArrives, ListFails, ListAges, toggleSelect, AskDelete, handleRunCase, vars
<1>. QED  BY <1>2, <1>3, <1>4, <1>6, <1>8 DEF Next

\* Each list of the cache stays clean: where nothing was deleted, by what happens to its
\* entry; where something was, because every entry is invalidated.
Unstained(k) ==
    /\ query[k].fetch = "served" /\ ~query[k].old => Clean(query[k].ans)
    /\ query[k].fetch # "none" => ~query[k].fresh
    /\ Current(query[k]) => Clean(query[k].data)

LEMMA CacheStep ==
    TypeOK /\ DeletedStays /\ (\A k \in Keys : Unstained(k)) /\ [Next]_vars =>
        \A k \in Keys : Unstained(k)'
<1>. SUFFICES ASSUME TypeOK, DeletedStays, \A k \in Keys : Unstained(k), [Next]_vars
     PROVE  \A k \in Keys : Unstained(k)'
  OBVIOUS
<1>. USE DEF caseTable, pageVars, calls
<1>1. query \in [Keys -> Entries(Lists)] /\ \A k \in Keys : query[k] \in Entries(Lists)
  BY DEF TypeOK
<1>2. ASSUME NEW k \in Keys, query'[k] = query[k], gone' = gone PROVE Unstained(k)'
  BY <1>2 DEF Unstained, Clean
<1>3. ASSUME NEW k \in Keys, query'[k] = Mounted(query[k]), gone' = gone PROVE Unstained(k)'
  <2>1. CASE query'[k] = query[k]
    BY <1>2, <1>3, <2>1
  <2>2. CASE ~query'[k].fresh /\ query'[k].fetch = "sent"
    BY <2>2 DEF Unstained, Current
  <2>. QED  BY <1>1, <1>3, <2>1, <2>2, EntryFields
<1>4. ASSUME NEW k \in Keys, query' = [query EXCEPT ![k] = Mounted(@)], gone' = gone
      PROVE  \A q \in Keys : Unstained(q)'
  BY <1>1, <1>2, <1>3, <1>4
<1>5. CASE CasesPage
  BY <1>4, <1>5, OfferedPages DEF CasesPage
<1>6. CASE handleSearch \/ goToPage
  <2>1. PICK k \in Keys : ShowList(k)
    BY <1>6, ShownKeys
  <2>. QED  BY <1>4, <2>1 DEF ShowList
<1>7. ASSUME NEW k \in Keys, ListServed(k) PROVE Unstained(k)'
  <2>1. CaseListed(k) \in Lists /\ CaseListed(k).items \subseteq Stored
    BY ListedTyped
  <2>2. query'[k] = Served(query[k], CaseListed(k)) /\ gone' = gone /\ query[k].fetch = "sent"
    BY <1>1, <1>7 DEF ListServed
  <2>3. /\ query'[k].data = query[k].data /\ query'[k].ans = {CaseListed(k)}
        /\ query'[k].fresh = query[k].fresh /\ query'[k].fetch = "served"
    BY <1>1, <2>1, <2>2, EntryFields
  <2>4. ~query[k].fresh
    BY <2>2 DEF Unstained
  <2>5. CaseListed(k).items \cap gone = {}
    BY <2>1 DEF DeletedStays, Stored
  <2>. QED  BY <2>2, <2>3, <2>4, <2>5 DEF Unstained, Clean, Current
<1>8. ASSUME NEW k \in Keys, ListArrives(k) PROVE Unstained(k)'
  <2>1. query'[k] = Arrived(query[k]) /\ gone' = gone /\ query[k].fetch = "served"
    BY <1>1, <1>8 DEF ListArrives
  <2>2. /\ query'[k].data = query[k].ans /\ query'[k].old = query[k].old /\ query'[k].fetch = "none"
    BY <1>1, <2>1, EntryFields
  <2>. QED  BY <2>1, <2>2 DEF Unstained, Clean, Current
<1>9. ASSUME NEW k \in Keys, ListFails(k) PROVE Unstained(k)'
  <2>1. query'[k] = Failed(query[k]) /\ gone' = gone /\ query[k].fetch # "none"
    BY <1>1, <1>9 DEF ListFails
  <2>2. query'[k].fresh = query[k].fresh /\ query'[k].fetch = "none"
    BY <1>1, <2>1, EntryFields
  <2>. QED  BY <2>1, <2>2 DEF Unstained, Current
<1>10. ASSUME NEW k \in Keys, ListAges(k) PROVE Unstained(k)'
  <2>1. query'[k] = Aged(query[k]) /\ gone' = gone
    BY <1>1, <1>10 DEF ListAges
  <2>2. /\ ~query'[k].fresh /\ query'[k].ans = query[k].ans /\ query'[k].old = query[k].old
        /\ query'[k].fetch = query[k].fetch
    BY <1>1, <2>1, EntryFields
  <2>. QED  BY <2>1, <2>2 DEF Unstained, Clean, Current
<1>11. ASSUME NEW k \in Keys, ListServed(k) \/ ListArrives(k) \/ ListFails(k) \/ ListAges(k)
       PROVE  \A q \in Keys : Unstained(q)'
  <2>1. gone' = gone /\ \A q \in Keys : q # k => query'[q] = query[q]
    BY <1>1, <1>11 DEF ListServed, ListArrives, ListFails, ListAges
  <2>. QED  BY <1>2, <1>7, <1>8, <1>9, <1>10, <1>11, <2>1
<1>12. ASSUME NEW c \in Cases, DeleteAnswered(c) PROVE \A q \in Keys : Unstained(q)'
  <2>1. CASE delete[c] = "ok"
    <3>1. ListsInvalidated
      BY <1>12, <2>1 DEF DeleteAnswered
    <3>2. ASSUME NEW q \in Keys PROVE ~query'[q].fresh /\ (query'[q].fetch = "served" => query'[q].old)
      <4>1. (onPage /\ q = key) \in BOOLEAN
        BY DEF TypeOK
      <4>2. query'[q] = Invalidated(query[q], onPage /\ q = key)
        BY <3>1 DEF ListsInvalidated
      <4>3. \A active \in BOOLEAN : /\ ~Invalidated(query[q], active).fresh
                                    /\ Invalidated(query[q], active).fetch = "served" =>
                                         Invalidated(query[q], active).old
        BY <1>1, EntryFields
      <4>. QED  BY <4>1, <4>2, <4>3
    <3>. QED  BY <3>2 DEF Unstained, Current
  <2>2. CASE delete[c] # "ok"
    BY <1>2, <1>12, <2>2 DEF DeleteAnswered
  <2>. QED  BY <2>1, <2>2
<1>13. CASE \/ OtherUser \/ LeavePage \/ toggleSelectAll \/ clearSelection \/ AskBatchDelete
            \/ handleSingleDelete \/ handleBatchDelete \/ handleBatchRun \/ RunTriggered \/ RunFails
            \/ \E c \in Cases : \/ DeleteServed(c) \/ DeleteCommitted(c) \/ DeleteLost(c)
                                 \/ toggleSelect(c) \/ AskDelete(c) \/ handleRunCase(c)
            \/ UNCHANGED vars
  <2>1. query' = query /\ gone' = gone
    BY <1>13 DEF OtherUser, LeavePage, toggleSelectAll, clearSelection, Select, AskBatchDelete,
                handleSingleDelete, handleBatchDelete, handleBatchRun, RunTriggered, RunFails,
                DeleteServed, DeleteCommitted, DeleteLost, toggleSelect, AskDelete, handleRunCase, vars
  <2>. QED  BY <1>2, <2>1
<1>. QED  BY <1>5, <1>6, <1>11, <1>12, <1>13 DEF Next
-------------------------------------------------------------------------------
\* The items are those of the data on the screen: they change when another list is shown
\* and when an answer arrives for this one, and in nothing else.
LEMMA ItemsStay ==
    ASSUME TypeOK, key \in Keys, key' = key, query'[key].data = query[key].data
    PROVE  Items' = Items
BY DEF Items, data

LEMMA DataStay ==
    ASSUME TypeOK, [Next]_vars, NEW q \in Keys
    PROVE  query'[q].data = query[q].data \/ ListArrives(q)
<1>. USE DEF caseTable, pageVars, calls
<1>1. query \in [Keys -> Entries(Lists)] /\ query[q] \in Entries(Lists)
  BY DEF TypeOK
<1>2. /\ Mounted(query[q]).data = query[q].data
      /\ Failed(query[q]).data = query[q].data /\ Aged(query[q]).data = query[q].data
  BY <1>1, EntryFields
<1>3. Served(query[q], CaseListed(q)).data = query[q].data
  BY <1>1, EntryFields, ListedTyped
<1>4. \A active \in BOOLEAN : Invalidated(query[q], active).data = query[q].data
  BY <1>1, EntryFields
<1>5. CASE CasesPage
  BY <1>1, <1>2, <1>5, OfferedPages DEF CasesPage
<1>6. CASE handleSearch \/ goToPage
  BY <1>1, <1>2, <1>6, ShownKeys DEF ShowList
<1>7. ASSUME NEW k \in Keys, ListServed(k) \/ ListArrives(k) \/ ListFails(k) \/ ListAges(k)
      PROVE  query'[q].data = query[q].data \/ ListArrives(q)
  BY <1>1, <1>2, <1>3, <1>7 DEF ListServed, ListArrives, ListFails, ListAges
<1>8. ASSUME NEW c \in Cases, DeleteAnswered(c) PROVE query'[q].data = query[q].data
  <2>1. CASE ListsInvalidated
    <3>1. (onPage /\ q = key) \in BOOLEAN
      BY DEF TypeOK
    <3>2. query'[q] = Invalidated(query[q], onPage /\ q = key)
      BY <2>1 DEF ListsInvalidated
    <3>. QED  BY <1>4, <3>1, <3>2
  <2>. QED  BY <1>8, <2>1 DEF DeleteAnswered
<1>9. CASE \/ OtherUser \/ LeavePage \/ toggleSelectAll \/ clearSelection \/ AskBatchDelete
           \/ handleSingleDelete \/ handleBatchDelete \/ handleBatchRun \/ RunTriggered \/ RunFails
           \/ \E c \in Cases : \/ DeleteServed(c) \/ DeleteCommitted(c) \/ DeleteLost(c)
                                \/ toggleSelect(c) \/ AskDelete(c) \/ handleRunCase(c)
           \/ UNCHANGED vars
  BY <1>9 DEF OtherUser, LeavePage, toggleSelectAll, clearSelection, Select, AskBatchDelete,
              handleSingleDelete, handleBatchDelete, handleBatchRun, RunTriggered, RunFails,
              DeleteServed, DeleteCommitted, DeleteLost, toggleSelect, AskDelete, handleRunCase, vars
<1>. QED  BY <1>5, <1>6, <1>7, <1>8, <1>9 DEF Next

\* What is selected is taken back, or stays with the items; only a click adds to it, and
\* a click needs its row.
LEMMA SelectionStep ==
    TypeOK /\ SelectedOnPage /\ SelectionIsShown /\ [Next]_vars =>
        SelectedOnPage' /\ SelectionIsShown'
<1>. SUFFICES ASSUME TypeOK, SelectedOnPage, SelectionIsShown, [Next]_vars
     PROVE  SelectedOnPage' /\ SelectionIsShown'
  OBVIOUS
<1>. USE DEF caseTable, pageVars, calls
<1>1. /\ query \in [Keys -> Entries(Lists)] /\ key \in Keys /\ onPage \in BOOLEAN
  BY DEF TypeOK
<1>2. ASSUME selectedIds' = {} PROVE SelectedOnPage' /\ SelectionIsShown'
  BY <1>2 DEF SelectedOnPage, SelectionIsShown
<1>3. ASSUME onPage' = onPage, selectedIds' = selectedIds, key' = key,
             query'[key].data = query[key].data
      PROVE  SelectedOnPage' /\ SelectionIsShown'
  BY <1>1, <1>3, ItemsStay DEF SelectedOnPage, SelectionIsShown
<1>4. ASSUME onPage' = onPage, selectedIds' \subseteq selectedIds, key' = key,
             query'[key].data = query[key].data
      PROVE  SelectedOnPage' /\ SelectionIsShown'
  BY <1>1, <1>4, ItemsStay DEF SelectedOnPage, SelectionIsShown
<1>5. CASE CasesPage \/ LeavePage \/ RunTriggered
  BY <1>2, <1>5 DEF CasesPage, LeavePage, RunTriggered, NothingOpen
<1>6. CASE handleSearch \/ goToPage
  <2>1. PICK k \in Keys : ShowList(k)
    BY <1>6, ShownKeys
  <2>. QED  BY <1>2, <2>1 DEF ShowList, SelectionReset
<1>7. ASSUME NEW k \in Keys, ListArrives(k) PROVE SelectedOnPage' /\ SelectionIsShown'
  <2>1. key' = key /\ onPage' = onPage /\ query' = [query EXCEPT ![k] = Arrived(@)]
    BY <1>7 DEF ListArrives
  <2>2. CASE SelectionReset
    BY <1>2, <2>2 DEF SelectionReset
  <2>3. CASE k # key /\ selectedIds' = selectedIds
    BY <1>1, <1>3, <2>1, <2>3
  <2>4. CASE ~onPage /\ selectedIds' = selectedIds
    BY <1>2, <2>4 DEF SelectedOnPage
  <2>5. CASE k = key /\ UNION {l.items : l \in query[k].ans} = Items /\ selectedIds' = selectedIds
    <3>1. query'[k].data = query[k].ans
      BY <1>1, <2>1, EntryFields
    <3>2. Items' = Items
      BY <2>1, <2>5, <3>1 DEF Items, data
    <3>. QED  BY <2>1, <2>5, <3>2 DEF SelectedOnPage, SelectionIsShown
  <2>. QED  BY <1>7, <2>2, <2>3, <2>4, <2>5 DEF ListArrives
<1>8. ASSUME NEW k \in Keys, ListServed(k) \/ ListFails(k) \/ ListAges(k)
      PROVE  SelectedOnPage' /\ SelectionIsShown'
  <2>1. key' = key /\ onPage' = onPage /\ selectedIds' = selectedIds
    BY <1>8 DEF ListServed, ListFails, ListAges
  <2>. QED  BY <1>1, <1>3, <1>7, <2>1, DataStay
<1>9. ASSUME NEW ids, Select(ids), ids \subseteq Items PROVE SelectedOnPage' /\ SelectionIsShown'
  <2>1. key' = key /\ query' = query /\ onPage' = onPage /\ onPage /\ selectedIds' = ids
    BY <1>9 DEF Select, TableShown
  <2>2. Items' = Items
    BY <1>1, <2>1, ItemsStay
  <2>. QED  BY <1>9, <2>1, <2>2 DEF SelectedOnPage, SelectionIsShown
<1>10. CASE toggleSelectAll \/ clearSelection
  BY <1>9, <1>10 DEF toggleSelectAll, clearSelection
<1>11. ASSUME NEW c \in Cases, toggleSelect(c) PROVE SelectedOnPage' /\ SelectionIsShown'
  <2>1. selectedIds \ {c} \subseteq Items /\ selectedIds \cup {c} \subseteq Items
    BY <1>11 DEF toggleSelect, SelectionIsShown
  <2>. QED  BY <1>9, <1>11, <2>1 DEF toggleSelect
<1>12. ASSUME NEW c \in Cases, DeleteAnswered(c) PROVE SelectedOnPage' /\ SelectionIsShown'
  <2>1. key' = key /\ onPage' = onPage
    BY <1>12 DEF DeleteAnswered
  <2>2. selectedIds' \subseteq selectedIds
    BY <1>12 DEF DeleteAnswered
  <2>3. query'[key].data = query[key].data \/ ListArrives(key)
    BY <1>1, DataStay
  <2>. QED  BY <1>1, <1>4, <1>7, <2>1, <2>2, <2>3
<1>13. CASE \/ OtherUser \/ AskBatchDelete \/ handleSingleDelete \/ handleBatchDelete
            \/ handleBatchRun \/ RunFails
            \/ \E c \in Cases : \/ DeleteServed(c) \/ DeleteCommitted(c) \/ DeleteLost(c)
                                 \/ AskDelete(c) \/ handleRunCase(c)
            \/ UNCHANGED vars
  <2>1. key' = key /\ onPage' = onPage /\ selectedIds' = selectedIds /\ query' = query
    BY <1>13 DEF OtherUser, AskBatchDelete, handleSingleDelete, handleBatchDelete, handleBatchRun,
                RunFails, DeleteServed, DeleteCommitted, DeleteLost, AskDelete, handleRunCase, vars
  <2>. QED  BY <1>3, <2>1
<1>. QED  BY <1>5, <1>6, <1>7, <1>8, <1>10, <1>11, <1>12, <1>13 DEF Next

-------------------------------------------------------------------------------
\* At first nothing is cached, selected or deleted.
LEMMA ListBegins == Init => ListIInv
<1>. SUFFICES ASSUME Init PROVE ListIInv
  OBVIOUS
<1>1. MaxCases \in Nat \ {0} /\ MaxEvents \in Nat
  BY CaseNumbersAssumption, EventsAssumption
<1>2. updated_at \in [Cases -> 0..(MaxCases + MaxEvents)]
  <2>1. \A c \in Cases : c \in 0..(MaxCases + MaxEvents)
    BY <1>1 DEF Cases
  <2>. QED  BY <2>1 DEF Init
<1>3. FirstPage \in Keys
  BY PagesBounded DEF FirstPage, Keys, Pages, Searches
<1>4. Blank \in Entries(Lists) /\ Blank.fetch = "none" /\ ~Blank.fresh
  BY DEF Blank, Entries, Nothing
<1>5. query \in [Keys -> Entries(Lists)] /\ \A k \in Keys : query[k] = Blank
  BY <1>4 DEF Init
<1>6. TypeOK
  <2>1. events \in 0..MaxEvents /\ key \in Keys
    BY <1>1, <1>3 DEF Init
  <2>5. canEdit \in BOOLEAN /\ onPage \in BOOLEAN
    BY Zenon DEF Init
  <2>2. /\ selectedIds \subseteq Cases /\ runningIds \subseteq Cases /\ batch \subseteq Cases
        /\ gone \subseteq Cases /\ uncommitted \subseteq Cases /\ batchDeleteOpen \in BOOLEAN
        /\ deleteId \in Cases \cup {NoCase} /\ latest \in Cases \cup {NoCase}
    BY DEF Init
  <2>3. delete \in [Cases -> {"none", "sent", "ok", "refused", "done"}]
    BY DEF Init
  <2>4. run \in [ids: SUBSET Cases, many: BOOLEAN]
    BY DEF Init, NoRun
  <2>. QED  BY <1>2, <1>5, <2>1, <2>2, <2>3, <2>4, <2>5, Zenon DEF TypeOK
<1>7. DeletedStays /\ SelectedOnPage /\ SelectionIsShown
  BY DEF Init, DeletedStays, SelectedOnPage, SelectionIsShown
<1>8. AnswersClean /\ FreshRests /\ GoneIsGone
  BY <1>4, <1>5 DEF AnswersClean, FreshRests, GoneIsGone, Current
<1>. QED  BY <1>6, <1>7, <1>8 DEF ListIInv

\* What is unstained is what the invariant says of the cache.
LEMMA CacheUnstained ==
    (\A k \in Keys : Unstained(k)) <=> AnswersClean /\ FreshRests /\ GoneIsGone
BY DEF Unstained, AnswersClean, FreshRests, GoneIsGone, Clean

\* Every step keeps the type, the deletions, the cache and the selection right.
LEMMA ListStep == ListIInv /\ [Next]_vars => ListIInv'
<1>. SUFFICES ASSUME ListIInv, [Next]_vars PROVE ListIInv'
  OBVIOUS
<1>1. TypeOK'
  <2>1. /\ query' \in [Keys -> Entries(Lists)] /\ PageTyped'
        /\ updated_at' \in [Cases -> 0..(MaxCases + MaxEvents)] /\ events' \in 0..MaxEvents
    BY QueriesTyped, PageStep, StoredTyped DEF ListIInv
  <2>. QED  BY <2>1 DEF TypeOK, PageTyped
<1>2. DeletedStays'
  BY DeletedStep DEF ListIInv
<1>3. (\A k \in Keys : Unstained(k))'
  BY CacheStep, CacheUnstained DEF ListIInv
<1>4. (AnswersClean /\ FreshRests /\ GoneIsGone)'
  BY <1>3, CacheUnstained, PTL
<1>5. SelectedOnPage' /\ SelectionIsShown'
  BY SelectionStep DEF ListIInv
<1>. QED  BY <1>1, <1>2, <1>4, <1>5 DEF ListIInv

\* The inductive invariant: types, deletions that last once they were answered after their
\* commit, a cache whose answers and fresh lists are clean of them, and a selection that is
\* among the items of the page.
THEOREM ListInvariance == Spec => []ListIInv
<1>1. Init => ListIInv
  BY ListBegins
<1>2. ListIInv /\ [Next]_vars => ListIInv'
  BY ListStep
<1>. QED  BY <1>1, <1>2, PTL DEF Spec

\* The page, its cache and the cases of the backend keep their types.
THEOREM ListTypeCorrect == Spec => []TypeOK
<1>1. ListIInv => TypeOK
  BY DEF ListIInv
<1>. QED  BY <1>1, ListInvariance, PTL

\* Whatever list is shown, refetched or cut short, what is selected is among its items.
THEOREM SelectedIsShown == Spec => []SelectionIsShown
<1>1. ListIInv => SelectionIsShown
  BY DEF ListIInv
<1>. QED  BY <1>1, ListInvariance, PTL

\* No list that counts as fresh and current holds a case whose deletion was committed by the
\* time it was answered.
THEOREM DeletedIsGone == Spec => []GoneIsGone
<1>1. ListIInv => GoneIsGone
  BY DEF ListIInv
<1>. QED  BY <1>1, ListInvariance, PTL

-------------------------------------------------------------------------------
(***************************************************************************)
(* The pages that make one case.                                           *)
(*                                                                         *)
(* A form that is still shown has made a case only where the save that     *)
(* made it is under way, and then its button is disabled.  What is filed   *)
(* is worked out from suites that were read from the backend, so a case    *)
(* that was found in the list has been in the suite.                       *)
(***************************************************************************)

\* The stages in which the button of the form is disabled.
Pending == {"saving", "saved", "notSaved"}

\* A submission belongs to an editor that was opened, and knows its case once that is saved.
Submitted ==
    \A s \in Submissions :
      /\ sub[s].st = "idle" => sub[s] = NoSub
      /\ sub[s].st # "idle" => sub[s].visit \in 1..visit
      /\ sub[s].st \in {"saved", "filing", "filed"} => sub[s].case \in Cases

\* Only an editor that was opened makes cases; a page of a case is about one.
Visited ==
    /\ \A v \in Visits : made[v] # {} => v <= visit
    /\ page \in {"new", "edit"} => visit # 0
    /\ page \in {"edit", "case"} => id \in Cases
    /\ page = "new" => id = NoCase

\* What is being loaded exists.
LoadedExist == \A c \in Cases : detail[c].fetch # "none" => Exists(c)

\* An editor has one save under way.
OneSave ==
    \A s, t \in Submissions : s # t /\ sub[s].st \in Pending /\ sub[t].st \in Pending =>
        sub[s].visit # sub[t].visit

\* An editor that is not excused makes one case, by its only save, and is left with it.
MadeOnce ==
    \A v \in Visits \ excused :
      /\ \A c, d \in made[v] : c = d
      /\ \A s \in Submissions : sub[s].st = "saving" /\ sub[s].visit = v => made[v] = {}
      /\ made[v] # {} /\ v = visit /\ page \in {"new", "edit"} =>
           \E s \in Submissions : sub[s].st = "saved" /\ sub[s].visit = v

\* Every list of members, cached, answered or worked with, was once the suite's.
Filed ==
    /\ members \subseteq wasIn
    /\ \A l \in suites.data \cup suites.ans : l \subseteq wasIn
    /\ \A s \in Submissions : /\ sub[s].list \subseteq wasIn
                              /\ sub[s].st = "filed" => sub[s].case \in wasIn

FormIInv ==
    FormTypeOK /\ Submitted /\ Visited /\ LoadedExist /\ OneSave /\ MadeOnce /\ Filed

\* The parts of the type invariant.
BackendTyped ==
    /\ text \in [Cases -> 0..MaxWrites]
    /\ named \subseteq Cases /\ members \subseteq Cases /\ writes \in 0..MaxWrites
    /\ flushed \subseteq Flushes
    /\ made \in [Visits -> SUBSET Cases] /\ excused \subseteq Visits /\ wasIn \subseteq Cases

CachesTyped == detail \in [Cases -> Entries(CaseData)] /\ suites \in Entries(SUBSET Cases)

ShownTyped ==
    /\ page \in {"away", "new", "edit", "case", "import"}
    /\ id \in Cases \cup {NoCase} /\ visit \in 0..MaxVisits
    /\ form \in Forms
    /\ versions \in {"none", "loading", "loaded"} /\ executing \in BOOLEAN
    /\ import \in Imports
    /\ events \in 0..MaxEvents /\ runSent \in BOOLEAN

LEMMA FormTypeParts ==
    FormTypeOK <=> BackendTyped /\ CachesTyped /\ ShownTyped /\ sub \in [Submissions -> Subs]
BY DEF FormTypeOK, BackendTyped, CachesTyped, ShownTyped

\* What a save does, whichever case it is about.
Saves(s, c) ==
    /\ sub[s].st = "saving" /\ writes < MaxWrites /\ writes' = writes + 1
    /\ flushed' = flushed \cup {[cases |-> {c}, text |-> writes', named |-> sub[s].suite]}
    /\ made' = [made EXCEPT ![sub[s].visit] =
                   IF sub[s].case = NoCase THEN @ \cup {c} ELSE @]
    /\ sub' = [sub EXCEPT ![s] = [sub[s] EXCEPT !.st = "saved", !.case = c]]
    /\ UNCHANGED <<text, named, members, events, detail, suites, formPageVars, runSent, excused,
                   wasIn>>

LEMMA SavedCase ==
    ASSUME FormTypeOK, NEW s \in Submissions, SaveServed(s)
    PROVE  \E c \in Cases : Saves(s, c)
<1>1. sub \in [Submissions -> Subs]
  BY DEF FormTypeOK
<1>2. PICK c \in Cases :
        /\ writes' = writes + 1
        /\ flushed' = flushed \cup {[cases |-> {c}, text |-> writes', named |-> sub[s].suite]}
        /\ made' = [made EXCEPT ![sub[s].visit] = IF sub[s].case = NoCase THEN @ \cup {c} ELSE @]
        /\ sub' = [sub EXCEPT ![s].st = "saved", ![s].case = c]
  BY DEF SaveServed
<1>3. sub' = [sub EXCEPT ![s] = [sub[s] EXCEPT !.st = "saved", !.case = c]]
  BY <1>1, <1>2
<1>. QED  BY <1>2, <1>3 DEF Saves, SaveServed

-------------------------------------------------------------------------------
\* The steps of a submission: what becomes of it, and of the others nothing.
SubmissionStep(s, x) == sub' = [sub EXCEPT ![s] = x]

LEMMA Submissions1 ==
    ASSUME FormTypeOK, NEW s \in Submissions
    PROVE  /\ sub[s] \in Subs
           /\ handleSubmit(s) =>
                SubmissionStep(s, [st |-> "saving", visit |-> visit, case |-> id,
                                   suite |-> form.suite, known |-> Has(suites),
                                   list |-> UNION suites.data])
           /\ CallLost(s) =>
                \/ sub[s].st \in {"saving", "saved"} /\ SubmissionStep(s, [sub[s] EXCEPT !.st = "notSaved"])
                \/ sub[s].st \in {"filing", "filed"} /\ SubmissionStep(s, [sub[s] EXCEPT !.st = "notFiled"])
           /\ SaveAnswered(s) =>
                \/ SubmissionStep(s, [sub[s] EXCEPT !.st = "filing"])
                \/ SubmissionStep(s, NoSub)
           /\ FilingServed(s) => SubmissionStep(s, [sub[s] EXCEPT !.st = "filed"])
           /\ FilingAnswered(s) \/ SubmitFails(s) => SubmissionStep(s, NoSub)
BY DEF FormTypeOK, SubmissionStep, handleSubmit, CallLost, SaveAnswered, FilingServed,
       FilingAnswered, SubmitFails, Stage, Leaves

\* The actions that leave the submissions alone.
NoSubmission ==
    \/ LeaveCase \/ VersionsSettle \/ SuitesServed \/ SuitesArrive \/ QueriesFailOrAge
    \/ CaseCommitted \/ OtherUserWrites \/ ChooseSuite \/ handleExecute \/ ExecuteAnswered
    \/ CaseImportPage \/ handleParse \/ handleImport \/ ImportServed \/ ImportAnswered
    \/ ImportFails \/ toggleEndpoint \/ ImportAnother
    \/ \E c \in Cases \cup {NoCase} : CaseEditPage(c)
    \/ \E c \in Cases : CaseDetailPage(c) \/ CaseServed(c) \/ CaseArrives(c)
    \/ UNCHANGED formVars

LEMMA SubmissionsRest == NoSubmission => sub' = sub
BY DEF NoSubmission, LeaveCase, VersionsSettle, SuitesServed, SuitesArrive, QueriesFailOrAge,
       CaseCommitted, OtherUserWrites, ChooseSuite, handleExecute, ExecuteAnswered, CaseImportPage, handleParse,
       handleImport, ImportServed, ImportAnswered, ImportFails, toggleEndpoint, ImportAnother,
       Imported, CaseEditPage, CaseDetailPage, CaseServed, CaseArrives, formVars

\* The submissions keep their type.
LEMMA SubsStep == FormTypeOK /\ [FormNext]_formVars => sub' \in [Submissions -> Subs]
<1>. SUFFICES ASSUME FormTypeOK, [FormNext]_formVars PROVE sub' \in [Submissions -> Subs]
  OBVIOUS
<1>1. sub \in [Submissions -> Subs]
  BY DEF FormTypeOK
<1>2. ASSUME NEW s \in Submissions, NEW x \in Subs, SubmissionStep(s, x)
      PROVE  sub' \in [Submissions -> Subs]
  BY <1>1, <1>2 DEF SubmissionStep
<1>3. NoSub \in Subs
  BY CaseNumbersAssumption, FormAssumption DEF NoSub, Subs, Stages, NoCase
<1>4. ASSUME NEW s \in Submissions, NEW stage \in Stages PROVE [sub[s] EXCEPT !.st = stage] \in Subs
  BY <1>1 DEF Subs
<1>5. ASSUME NEW s \in Submissions, handleSubmit(s) PROVE sub' \in [Submissions -> Subs]
  <2>1. visit \in 0..MaxVisits /\ form.suite \in BOOLEAN /\ UNION suites.data \subseteq Cases
    BY DEF FormTypeOK, Forms, Entries
  <2>2. id \in 0..MaxCases
    BY CaseNumbersAssumption DEF FormTypeOK, Cases, NoCase
  <2>3. Has(suites) \in BOOLEAN
    BY DEF Has
  <2>4. [st |-> "saving", visit |-> visit, case |-> id, suite |-> form.suite,
         known |-> Has(suites), list |-> UNION suites.data] \in Subs
    BY <2>1, <2>2, <2>3 DEF Subs, Stages
  <2>. QED  BY <1>2, <1>5, <2>4, Submissions1
<1>6. ASSUME NEW s \in Submissions, SaveServed(s) PROVE sub' \in [Submissions -> Subs]
  <2>1. PICK c \in Cases : Saves(s, c)
    BY <1>6, SavedCase
  <2>2. c \in 0..MaxCases
    BY CaseNumbersAssumption DEF Cases
  <2>3. [sub[s] EXCEPT !.st = "saved", !.case = c] \in Subs
    BY <1>1, <2>2 DEF Subs, Stages
  <2>. QED  BY <1>1, <2>1, <2>3 DEF Saves
<1>7. ASSUME NEW s \in Submissions,
             CallLost(s) \/ SaveAnswered(s) \/ FilingServed(s) \/ FilingAnswered(s) \/ SubmitFails(s)
      PROVE  sub' \in [Submissions -> Subs]
  <2>1. /\ [sub[s] EXCEPT !.st = "notSaved"] \in Subs /\ [sub[s] EXCEPT !.st = "notFiled"] \in Subs
        /\ [sub[s] EXCEPT !.st = "filing"] \in Subs /\ [sub[s] EXCEPT !.st = "filed"] \in Subs
    BY <1>4 DEF Stages
  <2>. QED  BY <1>2, <1>3, <1>7, <2>1, Submissions1
<1>8. CASE NoSubmission
  BY <1>1, <1>8, SubmissionsRest
<1>. QED  BY <1>5, <1>6, <1>7, <1>8 DEF FormNext, NoSubmission

\* The cases, the suite and what is remembered of them keep their types.
LEMMA BackendStep == FormTypeOK /\ Submitted /\ [FormNext]_formVars => BackendTyped'
<1>. SUFFICES ASSUME FormTypeOK, Submitted, [FormNext]_formVars PROVE BackendTyped'
  OBVIOUS
<1>. USE DEF backend, history
<1>1. BackendTyped /\ \A s \in Submissions : sub[s] \in Subs /\ sub[s].list \subseteq Cases
  BY FormTypeParts DEF Subs
<1>2. \A s \in Submissions : sub[s].st # "idle" => sub[s].visit \in Visits
  BY FormAssumption DEF Submitted, Visits, FormTypeOK
<1>3. ASSUME writes < MaxWrites, writes' = writes + 1 PROVE writes' \in 0..MaxWrites /\ writes' \in Writes
  BY <1>1, <1>3, FormAssumption DEF BackendTyped, Writes
<1>4. CASE OtherUserWrites
  <2>1. CASE /\ writes < MaxWrites /\ writes' = writes + 1
             /\ \E c \in Cases \ Locked : Exists(c) /\ text' = [text EXCEPT ![c] = writes']
             /\ UNCHANGED <<members, wasIn>>
    <3>1. writes' \in 0..MaxWrites
      BY <1>3, <2>1
    <3>2. text' \in [Cases -> 0..MaxWrites]
      BY <1>1, <2>1, <3>1 DEF BackendTyped
    <3>. QED  BY <1>1, <1>4, <2>1, <3>1, <3>2 DEF OtherUserWrites, BackendTyped
  <2>2. CASE /\ \E c \in Cases : /\ Exists(c)
                                 /\ members' \in {members \cup {c}, members \ {c}} \ {members}
             /\ wasIn' = wasIn \cup members'
             /\ UNCHANGED <<text, writes>>
    <3>1. members' \subseteq Cases
      BY <1>1, <2>2 DEF BackendTyped
    <3>. QED  BY <1>1, <1>4, <2>2, <3>1 DEF OtherUserWrites, BackendTyped
  <2>. QED  BY <1>4, <2>1, <2>2 DEF OtherUserWrites
<1>5. ASSUME NEW s \in Submissions, SaveServed(s) PROVE BackendTyped'
  <2>1. PICK c \in Cases : Saves(s, c)
    BY <1>5, SavedCase
  <2>2. writes' \in 0..MaxWrites /\ writes' \in Writes /\ sub[s].visit \in Visits
    BY <1>2, <1>3, <2>1 DEF Saves
  <2>3. flushed' \subseteq Flushes
    <3>1. sub[s].suite \in BOOLEAN
      BY <1>1 DEF Subs
    <3>2. [cases |-> {c}, text |-> writes', named |-> sub[s].suite] \in Flushes
      BY <2>2, <3>1 DEF Flushes
    <3>. QED  BY <1>1, <2>1, <3>2 DEF Saves, BackendTyped
  <2>4. made' \in [Visits -> SUBSET Cases]
    BY <1>1, <2>1, <2>2 DEF Saves, BackendTyped
  <2>. QED  BY <1>1, <2>1, <2>2, <2>3, <2>4 DEF Saves, BackendTyped
<1>6. ASSUME NEW s \in Submissions, CallLost(s) \/ SaveAnswered(s) PROVE BackendTyped'
  <2>1. sub[s].visit \in Visits
    BY <1>2, <1>6 DEF CallLost, SaveAnswered
  <2>2. excused' \subseteq Visits
    BY <1>1, <1>6, <2>1 DEF CallLost, SaveAnswered, BackendTyped
  <2>3. UNCHANGED <<text, named, members, writes, flushed, made, wasIn>>
    BY <1>6 DEF CallLost, SaveAnswered
  <2>. QED  BY <1>1, <2>2, <2>3 DEF BackendTyped
<1>7. ASSUME NEW s \in Submissions, FilingServed(s) PROVE BackendTyped'
  <2>1. sub[s].case \in Cases /\ sub[s].list \subseteq Cases
    BY <1>1, <1>7 DEF FilingServed, Submitted
  <2>2. members' \subseteq Cases /\ wasIn' = wasIn \cup members'
    BY <1>7, <2>1 DEF FilingServed
  <2>3. UNCHANGED <<text, named, writes, flushed, made, excused>>
    BY <1>7 DEF FilingServed
  <2>. QED  BY <1>1, <2>2, <2>3 DEF BackendTyped
<1>8. CASE ImportServed
  <2>1. writes' \in 0..MaxWrites /\ writes' \in Writes
    BY <1>3, <1>8 DEF ImportServed
  <2>2. flushed' \subseteq Flushes
    <3>1. PICK born \in SUBSET Cases :
            flushed' = flushed \cup {[cases |-> born, text |-> writes', named |-> FALSE]}
      BY <1>8 DEF ImportServed, Free
    <3>2. [cases |-> born, text |-> writes', named |-> FALSE] \in Flushes
      BY <2>1 DEF Flushes
    <3>. QED  BY <1>1, <3>1, <3>2 DEF BackendTyped
  <2>3. UNCHANGED <<text, named, members, made, excused, wasIn>>
    BY <1>8 DEF ImportServed, Imported
  <2>. QED  BY <1>1, <2>1, <2>2, <2>3 DEF BackendTyped
<1>10. CASE CaseCommitted
  <2>1. PICK w \in flushed :
          /\ flushed' = flushed \ {w}
          /\ \/ /\ text' = [c \in Cases |-> IF c \in w.cases THEN w.text ELSE text[c]]
                /\ named' = IF w.named THEN named \cup w.cases ELSE named
             \/ UNCHANGED <<text, named>>
    BY <1>10 DEF CaseCommitted
  <2>2. w.cases \subseteq Cases /\ w.text \in 0..MaxWrites
    BY <1>1, FormAssumption DEF BackendTyped, Flushes, Writes
  <2>3. text' \in [Cases -> 0..MaxWrites] /\ named' \subseteq Cases /\ flushed' \subseteq Flushes
    BY <1>1, <2>1, <2>2 DEF BackendTyped
  <2>4. UNCHANGED <<members, writes, made, excused, wasIn>>
    BY <1>10 DEF CaseCommitted
  <2>. QED  BY <1>1, <2>3, <2>4 DEF BackendTyped
<1>9. CASE \/ LeaveCase \/ VersionsSettle \/ SuitesServed \/ SuitesArrive \/ QueriesFailOrAge
           \/ ChooseSuite \/ handleExecute \/ ExecuteAnswered \/ CaseImportPage \/ handleParse
           \/ handleImport \/ ImportAnswered \/ ImportFails \/ toggleEndpoint \/ ImportAnother
           \/ \E c \in Cases \cup {NoCase} : CaseEditPage(c)
           \/ \E c \in Cases : CaseDetailPage(c) \/ CaseServed(c) \/ CaseArrives(c)
           \/ \E s \in Submissions : handleSubmit(s) \/ FilingAnswered(s) \/ SubmitFails(s)
           \/ UNCHANGED formVars
  <2>1. UNCHANGED <<backend, history>>
    BY <1>9 DEF LeaveCase, VersionsSettle, SuitesServed, SuitesArrive, QueriesFailOrAge,
         ChooseSuite, handleExecute, ExecuteAnswered, CaseImportPage, handleParse, handleImport,
         ImportAnswered, ImportFails, toggleEndpoint, ImportAnother, Imported, CaseEditPage,
         CaseDetailPage, CaseServed, CaseArrives, handleSubmit, FilingAnswered, SubmitFails, formVars
  <2>. QED  BY <1>1, <2>1 DEF BackendTyped
<1>. QED  BY <1>4, <1>5, <1>6, <1>7, <1>8, <1>9, <1>10 DEF FormNext

\* A case stays, and only the pages of one that exists load it.
LEMMA LoadedStep == FormTypeOK /\ Submitted /\ LoadedExist /\ [FormNext]_formVars => LoadedExist'
<1>. SUFFICES ASSUME FormTypeOK, Submitted, LoadedExist, [FormNext]_formVars PROVE LoadedExist'
  OBVIOUS
<1>. USE DEF backend, history
<1>1. /\ detail \in [Cases -> Entries(CaseData)] /\ text \in [Cases -> 0..MaxWrites]
      /\ \A c \in Cases : detail[c] \in Entries(CaseData)
  BY DEF FormTypeOK
<1>2. writes' = writes + 1 => writes' # 0
  BY FormAssumption DEF FormTypeOK
<1>3. ASSUME NEW c \in Cases, Exists(c) PROVE Exists(c)'
  <2>1. CASE CaseCommitted
    <3>1. PICK w \in flushed :
            text' \in {[d \in Cases |-> IF d \in w.cases THEN w.text ELSE text[d]], text}
      BY <2>1 DEF CaseCommitted
    <3>2. w.text # 0
      BY FormAssumption DEF FormTypeOK, Flushes, Writes
    <3>. QED  BY <1>3, <3>1, <3>2 DEF Exists
  <2>2. CASE OtherUserWrites
    <3>1. CASE text' = text
      BY <1>3, <3>1 DEF Exists
    <3>2. CASE writes' = writes + 1 /\ \E d \in Cases : text' = [text EXCEPT ![d] = writes']
      BY <1>1, <1>2, <1>3, <3>2 DEF Exists
    <3>. QED  BY <2>2, <3>1, <3>2 DEF OtherUserWrites
  <2>4. CASE ~OtherUserWrites /\ ~CaseCommitted
    <3>1. text' = text
      BY <2>4 DEF FormNext, LeaveCase, VersionsSettle, SuitesServed, SuitesArrive, QueriesFailOrAge,
         ChooseSuite, handleExecute, ExecuteAnswered, CaseImportPage, handleParse, handleImport,
         ImportServed, ImportAnswered, ImportFails, toggleEndpoint, ImportAnother, Imported,
         CaseEditPage, CaseDetailPage, CaseServed, CaseArrives, handleSubmit, SaveServed, CallLost,
         SaveAnswered, FilingServed, FilingAnswered, SubmitFails, formVars
    <3>. QED  BY <1>3, <3>1 DEF Exists
  <2>. QED  BY <2>1, <2>2, <2>4
<1>4. ASSUME NEW c \in Cases, Exists(c) \/ detail'[c].fetch = "none" \/ detail'[c].fetch = detail[c].fetch
      PROVE  detail'[c].fetch # "none" => Exists(c)'
  BY <1>3, <1>4 DEF LoadedExist
<1>5. ASSUME NEW c \in Cases \cup {NoCase}, CaseEditPage(c) PROVE LoadedExist'
  <2>1. \/ detail' = detail
        \/ c \in Cases /\ Exists(c) /\ \A d \in Cases : d # c => detail'[d] = detail[d]
    BY <1>1, <1>5 DEF CaseEditPage
  <2>. QED  BY <1>4, <2>1 DEF LoadedExist
<1>6. ASSUME NEW c \in Cases, CaseDetailPage(c) \/ CaseServed(c) \/ CaseArrives(c) PROVE LoadedExist'
  <2>1. Exists(c) /\ \A d \in Cases : d # c => detail'[d] = detail[d]
    BY <1>1, <1>6 DEF CaseDetailPage, CaseServed, CaseArrives, LoadedExist
  <2>. QED  BY <1>4, <2>1 DEF LoadedExist
<1>7. CASE QueriesFailOrAge
  <2>1. \A c \in Cases : detail'[c] \in {detail[c], Failed(detail[c]), Aged(detail[c])}
    BY <1>1, <1>7 DEF QueriesFailOrAge
  <2>2. \A c \in Cases : Failed(detail[c]).fetch = "none" /\ Aged(detail[c]).fetch = detail[c].fetch
    BY <1>1, EntryFields
  <2>. QED  BY <1>4, <2>1, <2>2 DEF LoadedExist
<1>8. CASE /\ ~QueriesFailOrAge /\ \A c \in Cases \cup {NoCase} : ~CaseEditPage(c)
           /\ \A c \in Cases : ~CaseDetailPage(c) /\ ~CaseServed(c) /\ ~CaseArrives(c)
  <2>1. detail' = detail
    BY <1>8 DEF FormNext, LeaveCase, VersionsSettle, SuitesServed, SuitesArrive, CaseCommitted,
         OtherUserWrites,
         ChooseSuite, handleExecute, ExecuteAnswered, CaseImportPage, handleParse, handleImport,
         ImportServed, ImportAnswered, ImportFails, toggleEndpoint, ImportAnother, Imported,
         handleSubmit, SaveServed, CallLost, SaveAnswered, FilingServed, FilingAnswered,
         SubmitFails, formVars
  <2>. QED  BY <1>4, <2>1 DEF LoadedExist
<1>. QED  BY <1>5, <1>6, <1>7, <1>8

\* The cached queries keep their types.
LEMMA CachesStep == FormTypeOK /\ LoadedExist /\ [FormNext]_formVars => CachesTyped'
<1>. SUFFICES ASSUME FormTypeOK, LoadedExist, [FormNext]_formVars PROVE CachesTyped'
  OBVIOUS
<1>1. /\ detail \in [Cases -> Entries(CaseData)] /\ suites \in Entries(SUBSET Cases)
      /\ \A c \in Cases : detail[c] \in Entries(CaseData)
  BY DEF FormTypeOK
<1>2. \A c \in Cases :
        /\ Mounted(detail[c]) \in Entries(CaseData) /\ Arrived(detail[c]) \in Entries(CaseData)
        /\ Failed(detail[c]) \in Entries(CaseData) /\ Aged(detail[c]) \in Entries(CaseData)
  BY <1>1, EntryTypes
<1>3. /\ Mounted(suites) \in Entries(SUBSET Cases) /\ Arrived(suites) \in Entries(SUBSET Cases)
      /\ Failed(suites) \in Entries(SUBSET Cases) /\ Aged(suites) \in Entries(SUBSET Cases)
  BY <1>1, EntryTypes
<1>4. CASE \E c \in Cases \cup {NoCase} : CaseEditPage(c)
  <2>1. PICK c \in Cases \cup {NoCase} : CaseEditPage(c)
    BY <1>4
  <2>2. suites' = Mounted(suites)
        /\ \/ detail' = detail
           \/ c \in Cases /\ detail' = [detail EXCEPT ![c] = Mounted(@)]
    BY <2>1 DEF CaseEditPage
  <2>. QED  BY <1>1, <1>2, <1>3, <2>2 DEF CachesTyped
<1>5. ASSUME NEW c \in Cases, CaseDetailPage(c) \/ CaseArrives(c) PROVE CachesTyped'
  BY <1>1, <1>2, <1>5 DEF CaseDetailPage, CaseArrives, CachesTyped
<1>6. ASSUME NEW c \in Cases, CaseServed(c) PROVE CachesTyped'
  <2>1. text[c] \in Writes
    BY <1>6, FormAssumption DEF CaseServed, LoadedExist, Exists, FormTypeOK, Writes
  <2>2. (c \in named) \in BOOLEAN
    OBVIOUS
  <2>3. [text |-> text[c], named |-> c \in named] \in CaseData
    BY <2>1, <2>2 DEF CaseData
  <2>4. Served(detail[c], [text |-> text[c], named |-> c \in named]) \in Entries(CaseData)
    BY <1>1, <2>3, EntryTypes
  <2>. QED  BY <1>1, <1>6, <2>4 DEF CaseServed, CachesTyped
<1>7. CASE SuitesServed
  <2>1. Served(suites, members) \in Entries(SUBSET Cases)
    BY <1>1, EntryTypes DEF FormTypeOK
  <2>. QED  BY <1>1, <1>7, <2>1 DEF SuitesServed, CachesTyped
<1>8. CASE SuitesArrive \/ CaseImportPage
  BY <1>1, <1>3, <1>8 DEF SuitesArrive, CaseImportPage, CachesTyped
<1>9. CASE QueriesFailOrAge
  BY <1>1, <1>2, <1>3, <1>9 DEF QueriesFailOrAge, CachesTyped
<1>10. ASSUME NEW s \in Submissions, FilingAnswered(s) PROVE CachesTyped'
  <2>1. (page \in {"new", "edit", "import"}) \in BOOLEAN
    OBVIOUS
  <2>2. \A active \in BOOLEAN : Invalidated(suites, active) \in Entries(SUBSET Cases)
    BY <1>1, EntryTypes
  <2>3. Invalidated(suites, page \in {"new", "edit", "import"}) \in Entries(SUBSET Cases)
    BY <2>1, <2>2
  <2>. QED  BY <1>1, <1>10, <2>3 DEF FilingAnswered, CachesTyped
<1>11. CASE \/ LeaveCase \/ VersionsSettle \/ CaseCommitted \/ OtherUserWrites \/ ChooseSuite \/ handleExecute
            \/ ExecuteAnswered \/ handleParse \/ handleImport \/ ImportServed \/ ImportAnswered
            \/ ImportFails \/ toggleEndpoint \/ ImportAnother \/ UNCHANGED formVars
            \/ \E s \in Submissions : \/ handleSubmit(s) \/ SaveServed(s) \/ CallLost(s)
                                      \/ SaveAnswered(s) \/ FilingServed(s) \/ SubmitFails(s)
  <2>1. UNCHANGED <<detail, suites>>
    BY <1>11 DEF LeaveCase, VersionsSettle, CaseCommitted, OtherUserWrites, ChooseSuite, handleExecute,
         ExecuteAnswered, handleParse, handleImport, ImportServed, ImportAnswered, ImportFails,
         toggleEndpoint, ImportAnother, Imported, handleSubmit, SaveServed, CallLost,
         SaveAnswered, FilingServed, SubmitFails, formVars
  <2>. QED  BY <1>1, <2>1 DEF CachesTyped
<1>. QED  BY <1>4, <1>5, <1>6, <1>7, <1>8, <1>9, <1>10, <1>11 DEF FormNext

\* What the pages show keeps its type.
LEMMA ShownStep == FormTypeOK /\ [FormNext]_formVars => ShownTyped'
<1>. SUFFICES ASSUME FormTypeOK, [FormNext]_formVars PROVE ShownTyped'
  OBVIOUS
<1>. USE DEF formPageVars
<1>1. ShownTyped
  BY FormTypeParts
<1>2. EmptyForm \in Forms /\ NoImport \in Imports
  BY FormAssumption DEF EmptyForm, Forms, NoImport, Imports
<1>3. Event => events' \in 0..MaxEvents
  BY <1>1, EventsAssumption DEF Event, ShownTyped
<1>4. \A c \in Cases : detail[c].data \subseteq CaseData /\ detail[c].ans \subseteq CaseData
  BY DEF FormTypeOK, Entries
<1>5. ASSUME NEW d \in SUBSET CaseData, NEW old \in Forms PROVE FilledFrom(d, old) \in Forms
  <2>1. ASSUME NEW x \in CaseData PROVE Filled(x) \in Forms
    BY FormAssumption DEF Filled, Forms, CaseData, Writes
  <2>2. CASE d # Nothing
    <3>1. (CHOOSE x \in d : TRUE) \in CaseData
      BY <2>2 DEF Nothing
    <3>. QED  BY <2>1, <2>2, <3>1 DEF FilledFrom
  <2>. QED  BY <2>2 DEF FilledFrom
<1>6. ASSUME Away, UNCHANGED visit, UNCHANGED events, runSent' \in BOOLEAN PROVE ShownTyped'
  BY <1>1, <1>2, <1>6 DEF Away, ShownTyped
<1>7. CASE LeaveCase
  BY <1>1, <1>6, <1>7 DEF LeaveCase, ShownTyped
<1>8. CASE ExecuteAnswered
  BY <1>1, <1>6, <1>8 DEF ExecuteAnswered, ShownTyped
<1>9. ASSUME NEW s \in Submissions, SaveAnswered(s) \/ FilingAnswered(s) PROVE ShownTyped'
  <2>1. CASE Away
    BY <1>1, <1>6, <1>9, <2>1 DEF SaveAnswered, FilingAnswered, ShownTyped
  <2>. QED  BY <1>1, <1>9, <2>1 DEF SaveAnswered, FilingAnswered, Leaves, ShownTyped
<1>10. CASE \E c \in Cases \cup {NoCase} : CaseEditPage(c)
  <2>1. PICK c \in Cases \cup {NoCase} : CaseEditPage(c)
    BY <1>10
  <2>2. form' \in Forms
    BY <1>2, <1>4, <1>5, <2>1 DEF CaseEditPage
  <2>3. visit' \in 0..MaxVisits
    BY <1>1, <2>1, FormAssumption DEF CaseEditPage, ShownTyped
  <2>4. page' \in {"new", "edit"} /\ id' = c
    BY <2>1 DEF CaseEditPage
  <2>5. UNCHANGED <<events, versions, executing, import, runSent>>
    BY <2>1 DEF CaseEditPage
  <2>. QED  BY <1>1, <2>2, <2>3, <2>4, <2>5 DEF ShownTyped
<1>11. ASSUME NEW c \in Cases, CaseDetailPage(c) PROVE ShownTyped'
  BY <1>1, <1>11 DEF CaseDetailPage, ShownTyped
<1>12. ASSUME NEW c \in Cases, CaseArrives(c) PROVE ShownTyped'
  <2>1. form' \in Forms
    BY <1>1, <1>4, <1>5, <1>12 DEF CaseArrives, Refilled, ShownTyped
  <2>2. UNCHANGED <<page, id, visit, versions, executing, import, events, runSent>>
    BY <1>12 DEF CaseArrives
  <2>. QED  BY <1>1, <2>1, <2>2 DEF ShownTyped
<1>13. CASE ChooseSuite
  <2>1. form' \in Forms
    BY <1>1, <1>13 DEF ChooseSuite, ShownTyped, Forms
  <2>2. UNCHANGED <<page, id, visit, versions, executing, import, events, runSent>>
    BY <1>13 DEF ChooseSuite
  <2>. QED  BY <1>1, <2>1, <2>2 DEF ShownTyped
<1>14. CASE VersionsSettle
  BY <1>1, <1>14 DEF VersionsSettle, ShownTyped
<1>15. CASE handleExecute
  BY <1>1, <1>3, <1>15 DEF handleExecute, ShownTyped
<1>16. CASE CaseImportPage
  BY <1>1, <1>2, <1>3, <1>16 DEF CaseImportPage, ShownTyped
<1>17. ASSUME NEW i \in Imports, Imported(i) PROVE ShownTyped'
  <2>1. import' = i /\ UNCHANGED <<page, id, visit, form, versions, executing, events, runSent>>
    BY <1>17 DEF Imported
  <2>. QED  BY <1>1, <2>1 DEF ShownTyped
<1>18. CASE handleParse \/ handleImport \/ ImportServed \/ ImportFails
  <2>1. import \in Imports
    BY <1>1 DEF ShownTyped
  <2>2. [NoImport EXCEPT !.st = "parsing", !.chosen = import.chosen] \in Imports
    BY <1>2, <2>1 DEF Imports
  <2>3. /\ [import EXCEPT !.st = "importing"] \in Imports /\ [import EXCEPT !.st = "idle"] \in Imports
        /\ [import EXCEPT !.st = IF @ = "parsing" THEN "parsed" ELSE "imported"] \in Imports
    BY <2>1 DEF Imports
  <2>. QED  BY <1>17, <1>18, <2>2, <2>3 DEF handleParse, handleImport, ImportServed, ImportFails
<1>19. CASE ImportAnswered \/ toggleEndpoint \/ ImportAnother
  <2>1. import \in Imports /\ Discovered \in Nat
    BY <1>1, FormAssumption DEF ShownTyped
  <2>2. [st |-> "idle", endpoints |-> Discovered, chosen |-> Discovered, result |-> FALSE] \in Imports
    BY <2>1 DEF Imports
  <2>3. [import EXCEPT !.st = "idle", !.result = TRUE] \in Imports
    BY <2>1 DEF Imports
  <2>8. [import EXCEPT !.endpoints = 0, !.chosen = 0, !.result = FALSE] \in Imports
    <3>1. 0 \in 0..Discovered
      BY <2>1
    <3>2. \A n \in 0..Discovered : [import EXCEPT !.endpoints = n, !.chosen = n, !.result = FALSE] \in Imports
      BY <2>1, Zenon DEF Imports
    <3>. QED  BY <3>1, <3>2
  <2>7. \A n \in 0..Discovered : [import EXCEPT !.chosen = n] \in Imports
    BY <2>1 DEF Imports
  <2>4. CASE ImportAnswered
    BY <1>17, <2>2, <2>3, <2>4 DEF ImportAnswered
  <2>5. CASE toggleEndpoint
    BY <1>17, <2>7, <2>5 DEF toggleEndpoint
  <2>6. CASE ImportAnother
    BY <1>17, <2>6, <2>8 DEF ImportAnother
  <2>. QED  BY <1>19, <2>4, <2>5, <2>6
<1>20. CASE QueriesFailOrAge \/ CaseCommitted \/ OtherUserWrites \/ \E s \in Submissions : CallLost(s)
  <2>3. events \in 0..MaxEvents
    BY <1>1 DEF ShownTyped
  <2>1. events' \in 0..MaxEvents
    BY <1>3, <1>20, <2>3 DEF QueriesFailOrAge, CaseCommitted, OtherUserWrites, CallLost
  <2>2. UNCHANGED <<formPageVars, runSent>>
    BY <1>20 DEF QueriesFailOrAge, CaseCommitted, OtherUserWrites, CallLost
  <2>. QED  BY <1>1, <2>1, <2>2 DEF ShownTyped
<1>21. CASE \/ SuitesServed \/ SuitesArrive \/ UNCHANGED formVars
            \/ \E c \in Cases : CaseServed(c)
            \/ \E s \in Submissions : handleSubmit(s) \/ SaveServed(s) \/ FilingServed(s) \/ SubmitFails(s)
  <2>1. UNCHANGED <<formPageVars, events, runSent>>
    BY <1>21 DEF SuitesServed, SuitesArrive, CaseServed, handleSubmit, SaveServed, FilingServed,
                 SubmitFails, formVars
  <2>. QED  BY <1>1, <2>1 DEF ShownTyped
<1>. QED  BY <1>7, <1>8, <1>9, <1>10, <1>11, <1>12, <1>13, <1>14, <1>15, <1>16, <1>18, <1>19, <1>20,
             <1>21 DEF FormNext

-------------------------------------------------------------------------------
\* How a page becomes an editor, and how it changes at all.
PageMoves ==
    \/ UNCHANGED <<page, id, visit>>
    \/ page' \in {"away", "import"} /\ UNCHANGED visit
    \/ page' = "case" /\ id' \in Cases /\ UNCHANGED visit
    \/ /\ visit' = visit + 1
       /\ \/ page' = "new" /\ id' = NoCase
          \/ page' = "edit" /\ id' \in Cases

LEMMA PagesMove == [FormNext]_formVars => PageMoves
<1>. USE DEF formPageVars
<1>1. ASSUME NEW c \in Cases \cup {NoCase}, CaseEditPage(c) PROVE PageMoves
  BY <1>1 DEF CaseEditPage, PageMoves
<1>2. ASSUME NEW c \in Cases, CaseDetailPage(c) PROVE PageMoves
  BY <1>2 DEF CaseDetailPage, PageMoves
<1>3. CASE \/ LeaveCase \/ ExecuteAnswered \/ CaseImportPage
           \/ \E s \in Submissions : SaveAnswered(s) \/ FilingAnswered(s)
  BY <1>3 DEF LeaveCase, ExecuteAnswered, CaseImportPage, SaveAnswered, FilingAnswered, Leaves,
              Away, PageMoves
<1>4. CASE \/ VersionsSettle \/ SuitesServed \/ SuitesArrive \/ QueriesFailOrAge
           \/ CaseCommitted \/ OtherUserWrites
           \/ ChooseSuite \/ handleExecute \/ handleParse \/ handleImport \/ ImportServed
           \/ ImportAnswered \/ ImportFails \/ toggleEndpoint \/ ImportAnother \/ UNCHANGED formVars
           \/ \E c \in Cases : CaseServed(c) \/ CaseArrives(c)
           \/ \E s \in Submissions : \/ handleSubmit(s) \/ SaveServed(s) \/ CallLost(s)
                                     \/ FilingServed(s) \/ SubmitFails(s)
  BY <1>4 DEF VersionsSettle, SuitesServed, SuitesArrive, QueriesFailOrAge, CaseCommitted, OtherUserWrites,
       ChooseSuite, handleExecute, handleParse, handleImport, ImportServed, ImportAnswered,
       ImportFails, toggleEndpoint, ImportAnother, Imported, CaseServed, CaseArrives, handleSubmit,
       SaveServed, CallLost, FilingServed, SubmitFails, formVars, PageMoves
<1>. QED  BY <1>1, <1>2, <1>3, <1>4 DEF FormNext

\* What a submission is after its step: nothing, or another stage of the same editor's.
LEMMA SubmissionStages ==
    ASSUME FormTypeOK, NEW s \in Submissions, NEW stage \in Stages
    PROVE  LET x == [sub[s] EXCEPT !.st = stage] IN
           /\ x.st = stage /\ x.visit = sub[s].visit /\ x.case = sub[s].case /\ x.list = sub[s].list
           /\ x.suite = sub[s].suite /\ x.known = sub[s].known
BY DEF FormTypeOK, Subs

LEMMA SubmittedStep == FormTypeOK /\ Submitted /\ Visited /\ [FormNext]_formVars => Submitted'
<1>. SUFFICES ASSUME FormTypeOK, Submitted, Visited, [FormNext]_formVars PROVE Submitted'
  OBVIOUS
<1>. DEFINE Right(x) == /\ x.st = "idle" => x = NoSub
                        /\ x.st # "idle" => x.visit \in 1..visit
                        /\ x.st \in {"saved", "filing", "filed"} => x.case \in Cases
<1>1. sub \in [Submissions -> Subs] /\ visit \in Nat
  BY FormAssumption DEF FormTypeOK
<1>2. visit' \in {visit, visit + 1}
  BY PagesMove DEF PageMoves
<1>3. ASSUME NEW s \in Submissions, NEW x, SubmissionStep(s, x), Right(x) PROVE Submitted'
  <2>1. \A t \in Submissions : sub'[t] = IF t = s THEN x ELSE sub[t]
    BY <1>1, <1>3 DEF SubmissionStep
  <2>. QED  BY <1>1, <1>2, <1>3, <2>1 DEF Submitted
<1>4. NoSub.st = "idle" /\ Right(NoSub)
  BY DEF NoSub
<1>5. ASSUME NEW s \in Submissions, handleSubmit(s) PROVE Submitted'
  <2>. DEFINE x == [st |-> "saving", visit |-> visit, case |-> id, suite |-> form.suite,
                    known |-> Has(suites), list |-> UNION suites.data]
  <2>1. visit \in 1..visit
    BY <1>1, <1>5 DEF handleSubmit, SaveEnabled, FormShown, Visited
  <2>2. Right(x)
    BY <2>1
  <2>3. SubmissionStep(s, x)
    BY <1>5, Submissions1
  <2>. QED  BY <1>3, <2>2, <2>3
<1>6. ASSUME NEW s \in Submissions, SaveServed(s) PROVE Submitted'
  <2>1. PICK c \in Cases : Saves(s, c)
    BY <1>6, SavedCase
  <2>. DEFINE x == [sub[s] EXCEPT !.st = "saved", !.case = c]
  <2>2. x.st = "saved" /\ x.visit = sub[s].visit /\ x.case = c
    BY <1>1 DEF Subs
  <2>3. sub[s].visit \in 1..visit
    BY <2>1 DEF Saves, Submitted
  <2>4. SubmissionStep(s, x)
    BY <2>1 DEF Saves, SubmissionStep
  <2>. HIDE DEF x
  <2>. QED  BY <1>3, <2>2, <2>3, <2>4
<1>7. ASSUME NEW s \in Submissions, NEW stage \in Stages, stage # "idle", sub[s].st # "idle",
             stage \in {"saved", "filing", "filed"} => sub[s].st \in {"saved", "filing", "filed"},
             SubmissionStep(s, [sub[s] EXCEPT !.st = stage])
      PROVE  Submitted'
  <2>. DEFINE x == [sub[s] EXCEPT !.st = stage]
  <2>1. x.st = stage /\ x.visit = sub[s].visit /\ x.case = sub[s].case
    BY SubmissionStages
  <2>2. SubmissionStep(s, x)
    BY <1>7
  <2>. HIDE DEF x
  <2>. QED  BY <1>3, <1>7, <2>1, <2>2 DEF Submitted
<1>8. ASSUME NEW s \in Submissions,
             CallLost(s) \/ SaveAnswered(s) \/ FilingServed(s) \/ FilingAnswered(s) \/ SubmitFails(s)
      PROVE  Submitted'
  <2>1. CASE CallLost(s)
    BY <1>7, <2>1, Submissions1 DEF Stages
  <2>2. CASE SaveAnswered(s)
    <3>1. sub[s].st = "saved"
      BY <2>2 DEF SaveAnswered
    <3>. QED  BY <1>3, <1>4, <1>7, <2>2, <3>1, Submissions1 DEF Stages
  <2>3. CASE FilingServed(s)
    <3>1. sub[s].st = "filing"
      BY <2>3 DEF FilingServed
    <3>. QED  BY <1>7, <2>3, <3>1, Submissions1 DEF Stages
  <2>4. CASE FilingAnswered(s) \/ SubmitFails(s)
    BY <1>3, <1>4, <2>4, Submissions1
  <2>. QED  BY <1>8, <2>1, <2>2, <2>3, <2>4
<1>9. CASE NoSubmission
  BY <1>1, <1>2, <1>9, SubmissionsRest DEF Submitted
<1>. QED  BY <1>5, <1>6, <1>8, <1>9 DEF FormNext, NoSubmission

\* Only a save makes a case.
LEMMA MadeRests ==
    [FormNext]_formVars /\ (\A s \in Submissions : ~SaveServed(s)) => made' = made
BY DEF FormNext, LeaveCase, VersionsSettle, SuitesServed, SuitesArrive, QueriesFailOrAge,
       CaseCommitted, OtherUserWrites, ChooseSuite, handleExecute, ExecuteAnswered, CaseImportPage, handleParse,
       handleImport, ImportServed, ImportAnswered, ImportFails, toggleEndpoint, ImportAnother,
       Imported, CaseEditPage, CaseDetailPage, CaseServed, CaseArrives, handleSubmit, CallLost,
       SaveAnswered, FilingServed, FilingAnswered, SubmitFails, formVars, history

LEMMA VisitedStep == FormTypeOK /\ Submitted /\ Visited /\ [FormNext]_formVars => Visited'
<1>. SUFFICES ASSUME FormTypeOK, Submitted, Visited, [FormNext]_formVars PROVE Visited'
  OBVIOUS
<1>1. visit \in Nat /\ made \in [Visits -> SUBSET Cases]
  BY FormAssumption DEF FormTypeOK
<1>2. visit' \in {visit, visit + 1}
  BY PagesMove DEF PageMoves
<1>3. \A v \in Visits : made'[v] # {} => v <= visit
  <2>1. ASSUME NEW s \in Submissions, SaveServed(s) PROVE \A v \in Visits : made'[v] # {} => v <= visit
    <3>1. PICK c \in Cases : Saves(s, c)
      BY <2>1, SavedCase
    <3>2. sub[s].visit \in 1..visit
      BY <3>1 DEF Saves, Submitted
    <3>3. \A v \in Visits : v # sub[s].visit => made'[v] = made[v]
      BY <1>1, <3>1 DEF Saves
    <3>. QED  BY <1>1, <3>2, <3>3 DEF Visited
  <2>. QED  BY <2>1, MadeRests DEF Visited
<1>4. \A v \in Visits : made'[v] # {} => v <= visit'
  BY <1>1, <1>2, <1>3, FormAssumption DEF Visits
<1>5. /\ page' \in {"new", "edit"} => visit' # 0
      /\ page' \in {"edit", "case"} => id' \in Cases
      /\ page' = "new" => id' = NoCase
  BY <1>1, PagesMove DEF PageMoves, Visited
<1>. QED  BY <1>4, <1>5 DEF Visited

\* The button is disabled while the save of its editor is under way.
LEMMA OneSaveStep == FormTypeOK /\ OneSave /\ [FormNext]_formVars => OneSave'
<1>. SUFFICES ASSUME FormTypeOK, OneSave, [FormNext]_formVars PROVE OneSave'
  OBVIOUS
<1>1. sub \in [Submissions -> Subs]
  BY DEF FormTypeOK
<1>2. ASSUME NEW s \in Submissions, NEW x, SubmissionStep(s, x),
             \/ x.st \notin Pending
             \/ x.visit = sub[s].visit /\ sub[s].st \in Pending
             \/ \A t \in Submissions : sub[t].st \in Pending => sub[t].visit # x.visit
      PROVE  OneSave'
  <2>1. \A t \in Submissions : sub'[t] = IF t = s THEN x ELSE sub[t]
    BY <1>1, <1>2 DEF SubmissionStep
  <2>. QED  BY <1>2, <2>1 DEF OneSave
<1>3. ASSUME NEW s \in Submissions, handleSubmit(s) PROVE OneSave'
  <2>. DEFINE x == [st |-> "saving", visit |-> visit, case |-> id, suite |-> form.suite,
                    known |-> Has(suites), list |-> UNION suites.data]
  <2>1. \A t \in Submissions : sub[t].st \in Pending => sub[t].visit # x.visit
    BY <1>3 DEF handleSubmit, SaveEnabled, savePending, Pending
  <2>2. SubmissionStep(s, x)
    BY <1>3, Submissions1
  <2>. HIDE DEF x
  <2>. QED  BY <1>2, <2>1, <2>2
<1>4. ASSUME NEW s \in Submissions, SaveServed(s) PROVE OneSave'
  <2>1. PICK c \in Cases : Saves(s, c)
    BY <1>4, SavedCase
  <2>. DEFINE x == [sub[s] EXCEPT !.st = "saved", !.case = c]
  <2>2. x.visit = sub[s].visit /\ sub[s].st \in Pending
    BY <1>1, <2>1 DEF Subs, Saves, Pending
  <2>3. SubmissionStep(s, x)
    BY <2>1 DEF Saves, SubmissionStep
  <2>. HIDE DEF x
  <2>. QED  BY <1>2, <2>2, <2>3
<1>5. ASSUME NEW s \in Submissions, NEW stage \in Stages,
             stage \in Pending => sub[s].st \in Pending,
             SubmissionStep(s, [sub[s] EXCEPT !.st = stage])
      PROVE  OneSave'
  <2>. DEFINE x == [sub[s] EXCEPT !.st = stage]
  <2>1. x.st = stage /\ x.visit = sub[s].visit
    BY SubmissionStages
  <2>2. SubmissionStep(s, x)
    BY <1>5
  <2>. HIDE DEF x
  <2>. QED  BY <1>2, <1>5, <2>1, <2>2
<1>6. NoSub.st \notin Pending
  BY DEF NoSub, Pending
<1>7. ASSUME NEW s \in Submissions,
             CallLost(s) \/ SaveAnswered(s) \/ FilingServed(s) \/ FilingAnswered(s) \/ SubmitFails(s)
      PROVE  OneSave'
  <2>1. SubmissionStep(s, NoSub) => OneSave'
    BY <1>2, <1>6
  <2>2. SubmissionStep(s, [sub[s] EXCEPT !.st = "filing"]) => OneSave'
    BY <1>5 DEF Stages, Pending
  <2>3. SubmissionStep(s, [sub[s] EXCEPT !.st = "filed"]) => OneSave'
    BY <1>5 DEF Stages, Pending
  <2>4. SubmissionStep(s, [sub[s] EXCEPT !.st = "notFiled"]) => OneSave'
    BY <1>5 DEF Stages, Pending
  <2>5. sub[s].st \in {"saving", "saved"} /\ SubmissionStep(s, [sub[s] EXCEPT !.st = "notSaved"]) => OneSave'
    BY <1>5 DEF Stages, Pending
  <2>. QED  BY <1>7, <2>1, <2>2, <2>3, <2>4, <2>5, Submissions1
<1>8. CASE NoSubmission
  BY <1>8, SubmissionsRest DEF OneSave
<1>. QED  BY <1>3, <1>4, <1>7, <1>8 DEF FormNext, NoSubmission

\* What MadeOnce says of one editor.
Once(v) ==
    /\ \A c, d \in made[v] : c = d
    /\ \A s \in Submissions : sub[s].st = "saving" /\ sub[s].visit = v => made[v] = {}
    /\ made[v] # {} /\ v = visit /\ page \in {"new", "edit"} =>
         \E s \in Submissions : sub[s].st = "saved" /\ sub[s].visit = v

LEMMA MadeOnceStep ==
    FormTypeOK /\ Submitted /\ Visited /\ OneSave /\ MadeOnce /\ [FormNext]_formVars => MadeOnce'
<1>. SUFFICES ASSUME FormTypeOK, Submitted, Visited, OneSave, MadeOnce, [FormNext]_formVars,
                     NEW v \in Visits, v \notin excused'
     PROVE  Once(v)'
  BY DEF MadeOnce, Once
<1>1. sub \in [Submissions -> Subs] /\ made \in [Visits -> SUBSET Cases] /\ visit \in Nat
  BY FormAssumption DEF FormTypeOK
<1>2. excused \subseteq excused'
  BY DEF FormNext, LeaveCase, VersionsSettle, SuitesServed, SuitesArrive, QueriesFailOrAge,
       CaseCommitted, OtherUserWrites, ChooseSuite, handleExecute, ExecuteAnswered, CaseImportPage, handleParse,
       handleImport, ImportServed, ImportAnswered, ImportFails, toggleEndpoint, ImportAnother,
       Imported, CaseEditPage, CaseDetailPage, CaseServed, CaseArrives, handleSubmit, SaveServed,
       CallLost, SaveAnswered, FilingServed, FilingAnswered, SubmitFails, formVars, history
<1>3. Once(v)
  BY <1>2 DEF MadeOnce, Once
<1>4. ASSUME made[v] # {}, v = visit', page' \in {"new", "edit"}
      PROVE  v = visit /\ page \in {"new", "edit"}
  <2>1. v <= visit
    BY <1>4 DEF Visited
  <2>. QED  BY <1>1, <1>4, <2>1, PagesMove DEF PageMoves
<1>5. CASE NoSubmission
  <2>1. sub' = sub /\ made' = made
    <3>1. \A s \in Submissions : sub[s].st = "saving" => sub'[s].st = "saving"
      BY <1>5, SubmissionsRest
    <3>2. \A s \in Submissions : SaveServed(s) => sub[s].st = "saving" /\ sub'[s].st = "saved"
      <4>1. SUFFICES ASSUME NEW s \in Submissions, SaveServed(s)
                     PROVE  sub[s].st = "saving" /\ sub'[s].st = "saved"
        OBVIOUS
      <4>2. PICK c \in Cases : Saves(s, c)
        BY <4>1, SavedCase
      <4>. QED  BY <1>1, <4>2 DEF Saves, Subs
    <3>. QED  BY <1>5, <3>1, <3>2, SubmissionsRest, MadeRests
  <2>. QED  BY <1>3, <1>4, <2>1 DEF Once
\* A submission that saves nothing, of an editor that has not made a case or is left.
<1>6. ASSUME NEW s \in Submissions, NEW x, SubmissionStep(s, x), made' = made,
             x.st = "saving" /\ x.visit = v => made[v] = {},
             sub[s].st = "saved" /\ sub[s].visit = v => page' \notin {"new", "edit"}
      PROVE  Once(v)'
  <2>1. \A t \in Submissions : sub'[t] = IF t = s THEN x ELSE sub[t]
    BY <1>1, <1>6 DEF SubmissionStep
  <2>. QED  BY <1>3, <1>4, <1>6, <2>1 DEF Once
<1>7. ASSUME NEW s \in Submissions, handleSubmit(s) PROVE Once(v)'
  <2>. DEFINE x == [st |-> "saving", visit |-> visit, case |-> id, suite |-> form.suite,
                    known |-> Has(suites), list |-> UNION suites.data]
  <2>1. SubmissionStep(s, x) /\ made' = made /\ sub[s].st = "idle"
    BY <1>7, Submissions1 DEF handleSubmit, history
  <2>2. visit = v => made[v] = {}
    BY <1>3, <1>7 DEF handleSubmit, SaveEnabled, FormShown, savePending, Once
  <2>3. x.visit = visit
    OBVIOUS
  <2>. HIDE DEF x
  <2>. QED  BY <1>6, <2>1, <2>2, <2>3
<1>8. ASSUME NEW s \in Submissions, SaveServed(s) PROVE Once(v)'
  <2>1. PICK c \in Cases : Saves(s, c)
    BY <1>8, SavedCase
  <2>2. /\ \A t \in Submissions : t # s => sub'[t] = sub[t]
        /\ sub'[s].st = "saved" /\ sub'[s].visit = sub[s].visit /\ sub[s].st = "saving"
    BY <1>1, <2>1 DEF Saves, Subs
  <2>3. CASE v = sub[s].visit
    <3>1. made[v] = {}
      BY <1>3, <2>2, <2>3 DEF Once
    <3>2. \A d \in made'[v] : d = c
      BY <1>1, <2>1, <2>3, <3>1 DEF Saves
    <3>3. \A t \in Submissions : t # s /\ sub[t].st = "saving" => sub[t].visit # v
      BY <2>2, <2>3 DEF OneSave, Pending
    <3>. QED  BY <2>2, <2>3, <3>2, <3>3 DEF Once
  <2>4. CASE v # sub[s].visit
    <3>1. made'[v] = made[v]
      BY <1>1, <2>1, <2>4 DEF Saves
    <3>. QED  BY <1>3, <1>4, <2>2, <2>4, <3>1 DEF Once
  <2>. QED  BY <2>3, <2>4
<1>9. ASSUME NEW s \in Submissions, NEW stage \in Stages, stage # "saving",
             SubmissionStep(s, [sub[s] EXCEPT !.st = stage]), made' = made, sub[s].visit # v
      PROVE  Once(v)'
  <2>. DEFINE x == [sub[s] EXCEPT !.st = stage]
  <2>1. x.st = stage
    BY SubmissionStages
  <2>. HIDE DEF x
  <2>2. SubmissionStep(s, x)
    BY <1>9 DEF x
  <2>. QED  BY <1>6, <1>9, <2>1, <2>2
<1>10. NoSub.st = "idle"
  BY DEF NoSub
<1>11. ASSUME NEW s \in Submissions, CallLost(s) PROVE Once(v)'
  <2>1. made' = made /\ sub[s].visit # v
    BY <1>11 DEF CallLost
  <2>. QED  BY <1>9, <1>11, <2>1, Submissions1 DEF Stages
<1>12. ASSUME NEW s \in Submissions, SaveAnswered(s) PROVE Once(v)'
  <2>1. made' = made
    BY <1>12 DEF SaveAnswered
  <2>2. CASE Files(s)
    BY <1>9, <1>12, <2>1, <2>2 DEF SaveAnswered, Stage, SubmissionStep, Stages
  <2>3. CASE ~Files(s)
    <3>1. SubmissionStep(s, NoSub) /\ page' = "away"
      BY <1>12, <2>3 DEF SaveAnswered, Leaves, Away, SubmissionStep
    <3>. QED  BY <1>6, <1>10, <2>1, <3>1
  <2>. QED  BY <2>2, <2>3
<1>13. ASSUME NEW s \in Submissions, FilingServed(s) PROVE Once(v)'
  <2>. DEFINE x == [sub[s] EXCEPT !.st = "filed"]
  <2>1. made' = made /\ sub[s].st = "filing" /\ SubmissionStep(s, x)
    BY <1>13, Submissions1 DEF FilingServed
  <2>2. x.st = "filed"
    BY SubmissionStages DEF Stages
  <2>. HIDE DEF x
  <2>. QED  BY <1>6, <2>1, <2>2
<1>14. ASSUME NEW s \in Submissions, FilingAnswered(s) \/ SubmitFails(s) PROVE Once(v)'
  <2>1. made' = made /\ sub[s].st # "saved" /\ SubmissionStep(s, NoSub)
    BY <1>14, Submissions1 DEF FilingAnswered, SubmitFails, history
  <2>. QED  BY <1>6, <1>10, <2>1
<1>. QED  BY <1>5, <1>7, <1>8, <1>11, <1>12, <1>13, <1>14 DEF FormNext, NoSubmission

\* The values that an entry holds or is about to: what happens to it adds only what is served.
LEMMA EntryHolds ==
    ASSUME NEW V, NEW e \in Entries(V)
    PROVE  /\ Mounted(e).data \cup Mounted(e).ans \subseteq e.data \cup e.ans
           /\ \A active \in BOOLEAN :
                Invalidated(e, active).data \cup Invalidated(e, active).ans \subseteq e.data \cup e.ans
           /\ \A value \in V :
                Served(e, value).data \cup Served(e, value).ans \subseteq e.data \cup {value}
           /\ Arrived(e).data \cup Arrived(e).ans \subseteq e.data \cup e.ans
           /\ Failed(e).data \cup Failed(e).ans \subseteq e.data \cup e.ans
           /\ Aged(e).data \cup Aged(e).ans \subseteq e.data \cup e.ans
<1>1. ASSUME NEW d \in Entries(V) PROVE Fetched(d).data = d.data /\ Fetched(d).ans = {}
  BY DEF Entries, Fetched, Nothing
<1>2. /\ [e EXCEPT !.fresh = FALSE] \in Entries(V)
      /\ [e EXCEPT !.fresh = FALSE].data = e.data
  BY DEF Entries
<1>3. ASSUME NEW active \in BOOLEAN
      PROVE  Invalidated(e, active).data \cup Invalidated(e, active).ans \subseteq e.data \cup e.ans
  <2>1. Fetched([e EXCEPT !.fresh = FALSE]).data = e.data
        /\ Fetched([e EXCEPT !.fresh = FALSE]).ans = {}
    BY <1>1, <1>2
  <2>2. /\ [e EXCEPT !.fresh = FALSE, !.old = @ \/ e.fetch # "none"].data = e.data
        /\ [e EXCEPT !.fresh = FALSE, !.old = @ \/ e.fetch # "none"].ans = e.ans
    BY DEF Entries
  <2>. QED  BY <2>1, <2>2 DEF Invalidated
<1>4. Mounted(e).data \cup Mounted(e).ans \subseteq e.data \cup e.ans
  BY <1>1 DEF Mounted
<1>5. \A value \in V : Served(e, value).data = e.data /\ Served(e, value).ans = {value}
  BY EntryFields
<1>6. Arrived(e).data = e.ans /\ Arrived(e).ans = {}
  BY DEF Entries, Arrived, Nothing
<1>7. Failed(e).data = e.data /\ Failed(e).ans = {}
  BY DEF Entries, Failed, Nothing
<1>8. Aged(e).data = e.data /\ Aged(e).ans = e.ans
  BY EntryFields
<1>. QED  BY <1>3, <1>4, <1>5, <1>6, <1>7, <1>8

\* What was in the suite is remembered, and the suites that are cached were read from it.
LEMMA MembersStep ==
    FormTypeOK /\ Filed /\ [FormNext]_formVars =>
        wasIn \subseteq wasIn' /\ members' \subseteq wasIn'
<1>. SUFFICES ASSUME FormTypeOK, Filed, [FormNext]_formVars
     PROVE  wasIn \subseteq wasIn' /\ members' \subseteq wasIn'
  OBVIOUS
<1>1. ASSUME NEW s \in Submissions, FilingServed(s)
      PROVE  wasIn \subseteq wasIn' /\ members' \subseteq wasIn'
  BY <1>1 DEF FilingServed
<1>2. CASE OtherUserWrites
  BY <1>2 DEF OtherUserWrites, Filed
<1>3. CASE UNCHANGED <<members, wasIn>>
  BY <1>3 DEF Filed
<1>4. CASE ~OtherUserWrites /\ \A s \in Submissions : ~FilingServed(s)
  BY <1>3, <1>4 DEF FormNext, LeaveCase, VersionsSettle, SuitesServed, SuitesArrive,
       QueriesFailOrAge, CaseCommitted, ChooseSuite, handleExecute, ExecuteAnswered, CaseImportPage, handleParse,
       handleImport, ImportServed, ImportAnswered, ImportFails, toggleEndpoint, ImportAnother,
       Imported, CaseEditPage, CaseDetailPage, CaseServed, CaseArrives, handleSubmit, SaveServed,
       CallLost, SaveAnswered, FilingAnswered, SubmitFails, formVars, backend, history
<1>. QED  BY <1>1, <1>2, <1>4

LEMMA SuitesStep ==
    FormTypeOK /\ [FormNext]_formVars =>
        suites'.data \cup suites'.ans \subseteq suites.data \cup suites.ans \cup {members}
<1>. SUFFICES ASSUME FormTypeOK, [FormNext]_formVars
     PROVE  suites'.data \cup suites'.ans \subseteq suites.data \cup suites.ans \cup {members}
  OBVIOUS
<1>1. suites \in Entries(SUBSET Cases) /\ members \in SUBSET Cases
  BY DEF FormTypeOK
<1>2. CASE SuitesServed
  BY <1>1, <1>2, EntryHolds DEF SuitesServed
<1>3. ASSUME NEW s \in Submissions, FilingAnswered(s)
      PROVE  suites'.data \cup suites'.ans \subseteq suites.data \cup suites.ans
  <2>1. \A active \in BOOLEAN :
          Invalidated(suites, active).data \cup Invalidated(suites, active).ans
              \subseteq suites.data \cup suites.ans
    BY <1>1, EntryHolds
  <2>2. (page \in {"new", "edit", "import"}) \in BOOLEAN
    OBVIOUS
  <2>3. suites' = Invalidated(suites, page \in {"new", "edit", "import"})
    BY <1>3 DEF FilingAnswered
  <2>. QED  BY <2>1, <2>2, <2>3
<1>4. CASE suites' \in {suites, Mounted(suites), Arrived(suites), Failed(suites), Aged(suites)}
  BY <1>1, <1>4, EntryHolds
<1>5. CASE \/ SuitesArrive \/ QueriesFailOrAge \/ CaseImportPage
           \/ \E c \in Cases \cup {NoCase} : CaseEditPage(c)
  BY <1>4, <1>5 DEF SuitesArrive, QueriesFailOrAge, CaseImportPage, CaseEditPage
<1>6. CASE \/ LeaveCase \/ VersionsSettle \/ CaseCommitted \/ OtherUserWrites \/ ChooseSuite \/ handleExecute
           \/ ExecuteAnswered \/ handleParse \/ handleImport \/ ImportServed \/ ImportAnswered
           \/ ImportFails \/ toggleEndpoint \/ ImportAnother \/ UNCHANGED formVars
           \/ \E c \in Cases : CaseDetailPage(c) \/ CaseServed(c) \/ CaseArrives(c)
           \/ \E s \in Submissions : \/ handleSubmit(s) \/ SaveServed(s) \/ CallLost(s)
                                     \/ SaveAnswered(s) \/ FilingServed(s) \/ SubmitFails(s)
  BY <1>4, <1>6 DEF LeaveCase, VersionsSettle, CaseCommitted, OtherUserWrites, ChooseSuite, handleExecute,
       ExecuteAnswered, handleParse, handleImport, ImportServed, ImportAnswered, ImportFails,
       toggleEndpoint, ImportAnother, Imported, CaseDetailPage, CaseServed, CaseArrives,
       handleSubmit, SaveServed, CallLost, SaveAnswered, FilingServed, SubmitFails, formVars
<1>. QED  BY <1>2, <1>3, <1>5, <1>6 DEF FormNext

LEMMA FiledStep == FormTypeOK /\ Filed /\ [FormNext]_formVars => Filed'
<1>. SUFFICES ASSUME FormTypeOK, Filed, [FormNext]_formVars PROVE Filed'
  OBVIOUS
<1>1. sub \in [Submissions -> Subs]
  BY DEF FormTypeOK
<1>2. wasIn \subseteq wasIn' /\ members' \subseteq wasIn'
  BY MembersStep
<1>3. \A l \in suites'.data \cup suites'.ans : l \subseteq wasIn'
  BY <1>2, SuitesStep DEF Filed
<1>. DEFINE Right(x) == x.list \subseteq wasIn' /\ (x.st = "filed" => x.case \in wasIn')
<1>4. SUFFICES \A s \in Submissions : Right(sub'[s])
  BY <1>2, <1>3 DEF Filed
<1>5. \A s \in Submissions : Right(sub[s])
  BY <1>2 DEF Filed
<1>6. ASSUME NEW s \in Submissions, NEW x, SubmissionStep(s, x), Right(x)
      PROVE  \A t \in Submissions : Right(sub'[t])
  <2>1. \A t \in Submissions : sub'[t] = IF t = s THEN x ELSE sub[t]
    BY <1>1, <1>6 DEF SubmissionStep
  <2>. HIDE DEF Right
  <2>. QED  BY <1>5, <1>6, <2>1
<1>7. ASSUME NEW s \in Submissions, handleSubmit(s) PROVE \A t \in Submissions : Right(sub'[t])
  <2>. DEFINE x == [st |-> "saving", visit |-> visit, case |-> id, suite |-> form.suite,
                    known |-> Has(suites), list |-> UNION suites.data]
  <2>1. SubmissionStep(s, x)
    BY <1>7, Submissions1
  <2>2. Right(x)
    BY <1>2 DEF Filed
  <2>. QED  BY <1>6, <2>1, <2>2
<1>8. ASSUME NEW s \in Submissions, SaveServed(s) PROVE \A t \in Submissions : Right(sub'[t])
  <2>1. PICK c \in Cases : Saves(s, c)
    BY <1>8, SavedCase
  <2>. DEFINE x == [sub[s] EXCEPT !.st = "saved", !.case = c]
  <2>2. x.st = "saved" /\ x.list = sub[s].list
    BY <1>1 DEF Subs
  <2>3. SubmissionStep(s, x)
    BY <2>1 DEF Saves, SubmissionStep
  <2>. HIDE DEF x
  <2>4. Right(x)
    BY <1>5, <2>2
  <2>. QED  BY <1>6, <2>3, <2>4
<1>9. ASSUME NEW s \in Submissions, NEW stage \in Stages, stage = "filed" => sub[s].case \in wasIn',
             SubmissionStep(s, [sub[s] EXCEPT !.st = stage])
      PROVE  \A t \in Submissions : Right(sub'[t])
  <2>. DEFINE x == [sub[s] EXCEPT !.st = stage]
  <2>1. x.st = stage /\ x.case = sub[s].case /\ x.list = sub[s].list
    BY SubmissionStages
  <2>2. SubmissionStep(s, x)
    BY <1>9
  <2>. HIDE DEF x
  <2>3. Right(x)
    BY <1>5, <1>9, <2>1
  <2>. QED  BY <1>6, <2>2, <2>3
<1>10. Right(NoSub)
  BY DEF NoSub
<1>11. ASSUME NEW s \in Submissions,
              CallLost(s) \/ SaveAnswered(s) \/ FilingAnswered(s) \/ SubmitFails(s)
       PROVE  \A t \in Submissions : Right(sub'[t])
  <2>. HIDE DEF Right
  <2>. QED  BY <1>6, <1>9, <1>10, <1>11, Submissions1 DEF Stages
<1>12. ASSUME NEW s \in Submissions, FilingServed(s) PROVE \A t \in Submissions : Right(sub'[t])
  <2>1. sub[s].case \in wasIn'
    BY <1>2, <1>12 DEF FilingServed
  <2>. HIDE DEF Right
  <2>. QED  BY <1>9, <1>12, <2>1, Submissions1 DEF Stages
<1>13. CASE NoSubmission
  <2>. HIDE DEF Right
  <2>. QED  BY <1>5, <1>13, SubmissionsRest
<1>. HIDE DEF Right
<1>. QED  BY <1>7, <1>8, <1>11, <1>12, <1>13 DEF FormNext, NoSubmission

-------------------------------------------------------------------------------
\* At first no page is open and at most one case exists.
LEMMA FormBegins == FormInit => FormIInv
<1>. SUFFICES ASSUME FormInit PROVE FormIInv
  OBVIOUS
<1>1. /\ MaxCases \in Nat \ {0} /\ MaxEvents \in Nat
      /\ MaxWrites \in Nat \ {0} /\ MaxVisits \in Nat /\ Discovered \in Nat \ {0}
  BY CaseNumbersAssumption, EventsAssumption, FormAssumption
<1>2. \A V : Blank \in Entries(V) /\ Blank.data = {} /\ Blank.ans = {} /\ Blank.fetch = "none"
  BY DEF Blank, Entries, Nothing
<1>3. NoSub \in Subs /\ NoSub.st = "idle" /\ NoSub.list = {}
  BY <1>1 DEF NoSub, Subs, Stages, NoCase
<1>4. sub \in [Submissions -> Subs] /\ \A s \in Submissions : sub[s] = NoSub
  BY <1>3 DEF FormInit
<1>5. CachesTyped /\ \A c \in Cases : detail[c].fetch = "none"
  BY <1>2 DEF FormInit, CachesTyped
<1>6. BackendTyped
  <2>1. text \in [Cases -> 0..MaxWrites] /\ writes \in 0..MaxWrites
    BY <1>1 DEF FormInit
  <2>2. members \subseteq Cases /\ wasIn \subseteq Cases
    BY DEF FormInit
  <2>. QED  BY <2>1, <2>2 DEF FormInit, BackendTyped
<1>7. ShownTyped
  <2>1. EmptyForm \in Forms /\ NoImport \in Imports
    BY <1>1 DEF EmptyForm, Forms, NoImport, Imports
  <2>2. events \in 0..MaxEvents /\ visit \in 0..MaxVisits
    BY <1>1 DEF FormInit
  <2>. QED  BY <2>1, <2>2 DEF FormInit, ShownTyped
<1>8. Submitted /\ OneSave /\ LoadedExist
  BY <1>3, <1>4, <1>5 DEF Submitted, OneSave, Pending, LoadedExist
<1>9. Visited
  BY DEF FormInit, Visited
<1>10. MadeOnce
  BY DEF FormInit, MadeOnce
<1>11. Filed
  BY <1>2, <1>3, <1>4 DEF FormInit, Filed
<1>. QED  BY <1>4, <1>5, <1>6, <1>7, <1>8, <1>9, <1>10, <1>11, FormTypeParts DEF FormIInv

LEMMA FormTypeStep ==
    FormTypeOK /\ Submitted /\ LoadedExist /\ [FormNext]_formVars => FormTypeOK'
<1>1. (FormTypeOK <=> BackendTyped /\ CachesTyped /\ ShownTyped /\ sub \in [Submissions -> Subs])'
  BY FormTypeParts, PTL
<1>. QED  BY <1>1, BackendStep, CachesStep, ShownStep, SubsStep

LEMMA FormStep == FormIInv /\ [FormNext]_formVars => FormIInv'
BY FormTypeStep, SubmittedStep, VisitedStep, LoadedStep, OneSaveStep, MadeOnceStep, FiledStep
   DEF FormIInv

\* The inductive invariant of the pages of one case.
THEOREM FormInvariance == FormSpec => []FormIInv
<1>. QED  BY FormBegins, FormStep, PTL DEF FormSpec

\* The pages, their caches, the submissions and the backend keep their types.
THEOREM FormTypeCorrect == FormSpec => []FormTypeOK
<1>1. FormIInv => FormTypeOK
  BY DEF FormIInv
<1>. QED  BY <1>1, FormInvariance, PTL

\* A form makes a second case only after it was past its save or had lost an answer.
THEOREM CopiesAreExcused == FormSpec => []CopiesHaveAReason
<1>1. FormIInv => CopiesHaveAReason
  <2>. SUFFICES ASSUME FormIInv, NEW v \in Visits, Cardinality(made[v]) > 1, v \notin excused
                PROVE  FALSE
    BY DEF CopiesHaveAReason
  <2>1. \A c, d \in made[v] : c = d
    BY DEF FormIInv, MadeOnce
  <2>2. CASE made[v] = {}
    BY <2>2, FS_EmptySet
  <2>3. ASSUME NEW c \in made[v] PROVE FALSE
    <3>1. made[v] = {c}
      BY <2>1, <2>3
    <3>2. Cardinality(made[v]) = 1
      BY <3>1, FS_Singleton
    <3>. QED  BY <3>2
  <2>. QED  BY <2>2, <2>3
<1>. QED  BY <1>1, FormInvariance, PTL

\* A submission with a suite leaves the form only when the suite has named its case.
THEOREM SavedCasesAreFiled == FormSpec => SavedIsFiled
<1>. DEFINE LeavesFiled ==
              \A s \in Submissions :
                (/\ sub[s].suite /\ sub[s].known
                 /\ sub[s].st # "idle" /\ sub'[s].st = "idle"
                 /\ page # "away" /\ page' = "away") => sub[s].case \in wasIn
<1>1. FormIInv /\ [FormNext]_formVars => [LeavesFiled]_formVars
  <2>. SUFFICES ASSUME FormIInv, FormNext, NEW s \in Submissions, sub[s].suite, sub[s].known,
                       sub[s].st # "idle", sub'[s].st = "idle", page # "away", page' = "away"
                PROVE  sub[s].case \in wasIn
    OBVIOUS
  <2>1. sub \in [Submissions -> Subs] /\ Filed /\ FormTypeOK
    BY DEF FormIInv, FormTypeOK
  <2>2. ~NoSubmission
    BY SubmissionsRest
  <2>3. PICK t \in Submissions : \/ handleSubmit(t) \/ SaveServed(t) \/ CallLost(t) \/ SaveAnswered(t)
                                 \/ FilingServed(t) \/ FilingAnswered(t) \/ SubmitFails(t)
    BY <2>2 DEF FormNext, NoSubmission
  <2>4. CASE SaveAnswered(t)
    <3>1. t = s /\ ~Files(t)
      BY <2>1, <2>4 DEF SaveAnswered, Leaves, Stage
    <3>. QED  BY <2>1, <3>1 DEF Files, Filed
  <2>5. CASE FilingAnswered(t)
    <3>1. t = s
      BY <2>1, <2>5 DEF FilingAnswered, Leaves
    <3>. QED  BY <2>1, <2>5, <3>1 DEF FilingAnswered, Filed
  <2>6. CASE handleSubmit(t) \/ SaveServed(t) \/ CallLost(t) \/ FilingServed(t) \/ SubmitFails(t)
    <3>1. page' = page
      BY <2>6 DEF handleSubmit, SaveServed, CallLost, FilingServed, SubmitFails, formPageVars
    <3>. QED  BY <3>1
  <2>. QED  BY <2>3, <2>4, <2>5, <2>6
<1>2. (FormSpec => [][LeavesFiled]_formVars)
  BY <1>1, FormInvariance, PTL DEF FormSpec
<1>. QED  BY <1>2 DEF SavedIsFiled
===============================================================================
