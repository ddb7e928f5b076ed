------------------------------- MODULE UsersProofs -------------------------------
(***************************************************************************)
(* Proofs about Users, for every number of users, of requests under way    *)
(* together, of calls and of disturbances.                                 *)
(*                                                                         *)
(* AdminStays is not inductive: that the write of a request leaves an      *)
(* administrator follows from what its handler has checked, as long as     *)
(* what it has checked still holds of the table.  OwnWritesShown joins the *)
(* table to the cache: what an answer reads is as new as what was          *)
(* acknowledged when its load began.                                       *)
(***************************************************************************)
EXTENDS Users, FiniteSetTheorems, SequenceTheorems, TLAPS

Row == [active: BOOLEAN, n: Nat, role: Roles \cup {NoRole}]
AnyRequest == [by: {Me, Other}, form: Form, kind: {"create", "update", "delete"},
               n: Nat, old: Form, page: Nat, st: {"idle", "sent", "checked", "ok", "failed"},
               stale: BOOLEAN, user: Nat]

\* As much of the typing as the rest needs, without the bounds.
Shaped ==
    /\ db \in [Users -> Row]
    /\ \A u \in Users : db[u].n = 0 => db[u].role = NoRole
    /\ req \in [Requests -> AnyRequest]
    /\ raced \in BOOLEAN /\ page \in Nat /\ editing \in Nat

\* What was checked holds until another request has written.
ChecksHold ==
    \A c \in Requests : req[c].st = "checked" /\ ~req[c].stale => Allowed(req[c])

IInv == Shaped /\ ChecksHold /\ AdminStays

-------------------------------------------------------------------------------
\* Where there is more than one administrator, there is one besides any user.
LEMMA OneBesides ==
    ASSUME AnotherAdmin, NEW v
    PROVE  \E u \in Users : u # v /\ IsAdmin(u)
<1>. DEFINE S == {u \in Users : IsAdmin(u)}
<1>1. IsFiniteSet(Users)
  BY FS_Interval, UsersAssumption DEF Users
<1>2. IsFiniteSet(S) /\ Cardinality(S) \in Nat
  BY <1>1, FS_Subset, FS_CardinalityType
<1>3. IsFiniteSet({v}) /\ Cardinality({v}) = 1
  BY FS_Singleton
<1>4. ASSUME S \subseteq {v} PROVE FALSE
  <2>1. Cardinality(S) <= 1
    BY <1>3, <1>4, FS_Subset
  <2>. QED  BY <1>2, <2>1 DEF AnotherAdmin
<1>. QED  BY <1>4

\* What is allowed to a request depends on the table and on four of its fields.
LEMMA AllowedStays ==
    ASSUME db' = db, NEW c \in Requests, NEW d \in Requests, Allowed(req[d]),
           req'[c].by = req[d].by, req'[c].kind = req[d].kind,
           req'[c].user = req[d].user, req'[c].form = req[d].form
    PROVE  Allowed(req[c])'
<1>1. AnotherAdmin' <=> AnotherAdmin
  BY DEF AnotherAdmin, IsAdmin, Exists
<1>. QED  BY <1>1 DEF Allowed, Authorized, UpdateAllowed, DeleteAllowed, IsAdmin, Exists

-------------------------------------------------------------------------------
\* The requests of a step that neither checks nor writes.
Kept ==
    \A c \in Requests : req'[c].st = "checked" =>
        /\ req[c].st = "checked" /\ req'[c].stale = req[c].stale
        /\ req'[c].by = req[c].by /\ req'[c].kind = req[c].kind
        /\ req'[c].user = req[c].user /\ req'[c].form = req[c].form

LEMMA KeptHolds == ChecksHold /\ db' = db /\ Kept => ChecksHold'
  BY AllowedStays DEF ChecksHold, Kept

\* A commit keeps the shape, and makes every check that is left stale.
LEMMA CommitsStep ==
    ASSUME Shaped, NEW c \in Requests, NEW u \in Nat, NEW row \in Row,
           row.n # 0, Commits(c, u, row)
    PROVE  Shaped' /\ ChecksHold'
<1>. USE DEF Shaped
<1>1. PICK answer \in {Done(c, u, row), Failed(req[c])} :
        req' = [d \in Requests |->
                  IF d = c THEN answer ELSE [req[d] EXCEPT !.stale = @ \/ (req[d].st = "checked")]]
  BY DEF Commits
<1>2. Failed(req[c]) \in AnyRequest
  <2>1. req[c] \in AnyRequest
    OBVIOUS
  <2>. QED  BY <2>1 DEF AnyRequest, Failed, Waits, NoRequest, Form, Blank, Roles, Me, NoUser
<1>3. Done(c, u, row) \in AnyRequest
  <2>1. req[c] \in AnyRequest
    OBVIOUS
  <2>. QED  BY <2>1 DEF AnyRequest, Done, Waits, NoRequest, Form, Blank, Roles, Row, Me, NoUser
<1>4. answer.st # "checked"
  <2>1. Failed(req[c]).st # "checked"
    BY DEF Failed, Waits, NoRequest
  <2>2. Done(c, u, row).st # "checked"
    BY DEF Done, Waits, NoRequest
  <2>. QED  BY <2>1, <2>2
<1>5. db' = [db EXCEPT ![u] = row] /\ raced' \in BOOLEAN /\ page' = page /\ editing' = editing
  BY DEF Commits, pageVars, dialogs
<1>6. Shaped'
  BY ZenonT(30), <1>1, <1>2, <1>3, <1>5 DEF AnyRequest
<1>7. \A d \in Requests : req'[d].st = "checked" => req'[d].stale
  BY <1>1, <1>4 DEF AnyRequest
<1>. QED  BY <1>6, <1>7 DEF ChecksHold

\* The steps that write nothing.
Quiet(c) ==
    \/ OtherAdmin(c) \/ handleCreate(c) \/ handleUpdate(c)
    \/ CallArrives(c) \/ CallFails(c)
    \/ \E u \in Users : handleDelete(c, u)

Calm ==
    \/ UsersPage \/ Reload \/ handleSearch \/ PrevPage \/ NextPage
    \/ OpenCreate \/ CancelCreate \/ CancelEdit
    \/ \E u \in Users : openEdit(u)
    \/ \E i \in 1..MaxFetches : FetchServed(i) \/ FetchArrives(i) \/ FetchFails(i)
    \/ UNCHANGED vars

\* The page changes its number, its dialogs and its loads, and no request.
LEMMA CalmStep == Shaped /\ Calm => Shaped' /\ db' = db /\ raced' = raced /\ Kept
<1>. SUFFICES ASSUME Shaped, Calm PROVE Shaped' /\ db' = db /\ raced' = raced /\ Kept
  OBVIOUS
<1>1. db' = db /\ raced' = raced /\ req' = req
  BY DEF Calm, UsersPage, Reload, handleSearch, PrevPage, NextPage, GoTo, OpenCreate, CancelCreate,
         CancelEdit, openEdit, DialogChanges, FetchServed, FetchArrives, FetchFails, vars, backend
<1>2. page' \in Nat /\ editing' \in Nat
  <2>. USE DEF Shaped, pageVars, dialogs
  <2>1. CASE UsersPage \/ Reload
    BY <2>1 DEF UsersPage, Reload
  <2>2. CASE handleSearch
    BY <2>2 DEF handleSearch
  <2>3. CASE PrevPage \/ NextPage
    BY <2>3 DEF PrevPage, NextPage, GoTo
  <2>4. CASE OpenCreate \/ CancelCreate \/ CancelEdit
    BY <2>4 DEF OpenCreate, CancelCreate, CancelEdit, DialogChanges, NoUser
  <2>5. CASE \E u \in Users : openEdit(u)
    BY <2>5 DEF openEdit, DialogChanges, Users
  <2>6. CASE \E i \in 1..MaxFetches : FetchServed(i) \/ FetchArrives(i) \/ FetchFails(i)
    BY <2>6 DEF FetchServed, FetchArrives, FetchFails
  <2>7. CASE UNCHANGED vars
    BY <2>7 DEF vars
  <2>. QED  BY <2>1, <2>2, <2>3, <2>4, <2>5, <2>6, <2>7 DEF Calm
<1>. QED  BY <1>1, <1>2 DEF Shaped, Kept

\* A call that is made or answered checks nothing.
LEMMA QuietStep ==
    ASSUME NEW c \in Requests, Shaped, Quiet(c)
    PROVE  Shaped' /\ db' = db /\ raced' = raced /\ Kept
<1>1. db' = db /\ raced' = raced /\ page' = page /\ editing' \in {editing, NoUser}
  BY DEF Quiet, OtherAdmin, handleCreate, handleUpdate, handleDelete, Send, CallArrives, CallFails,
         Answers, Closes, backend, pageVars, dialogs
<1>2. PICK r \in AnyRequest : r.st \in {"sent", "idle"} /\ req' = [req EXCEPT ![c] = r]
  <2>1. CASE OtherAdmin(c)
    <3>1. PICK kind \in {"update", "delete"}, u \in Users, f \in Form :
            req' = [req EXCEPT ![c] = [NoRequest EXCEPT !.by = Other, !.form = f, !.kind = kind,
                                                        !.st = "sent", !.user = u]]
      BY <2>1 DEF OtherAdmin
    <3>2. u \in Nat
      BY DEF Users
    <3>3. [NoRequest EXCEPT !.by = Other, !.form = f, !.kind = kind, !.st = "sent", !.user = u] \in AnyRequest
      BY <3>2 DEF NoRequest, AnyRequest, Form, Blank, Roles, Me, Other, NoUser
    <3>4. [NoRequest EXCEPT !.by = Other, !.form = f, !.kind = kind, !.st = "sent", !.user = u].st = "sent"
      BY DEF NoRequest
    <3>. QED  BY <3>1, <3>3, <3>4
  <2>2. ASSUME NEW kind \in {"create", "update", "delete"}, NEW u \in Nat, NEW f \in Form, Send(c, kind, u, f)
        PROVE  \E r \in AnyRequest : r.st \in {"sent", "idle"} /\ req' = [req EXCEPT ![c] = r]
    <3>. DEFINE r == [NoRequest EXCEPT !.form = f, !.kind = kind, !.page = page, !.st = "sent", !.user = u]
    <3>1. r \in AnyRequest
      BY DEF NoRequest, AnyRequest, Form, Blank, Roles, Me, NoUser, Shaped
    <3>2. r.st = "sent"
      BY DEF NoRequest
    <3>3. req' = [req EXCEPT ![c] = r]
      BY <2>2 DEF Send
    <3>. HIDE DEF r
    <3>. QED  BY <3>1, <3>2, <3>3
  <2>3. CASE handleCreate(c)
    BY <2>2, <2>3 DEF handleCreate, NewForm, Form, NoUser
  <2>4. CASE handleUpdate(c)
    BY <2>2, <2>4 DEF handleUpdate, Shaped
  <2>5. CASE \E u \in Users : handleDelete(c, u)
    <3>1. PICK u \in Users : Send(c, "delete", u, Blank)
      BY <2>5 DEF handleDelete
    <3>2. u \in Nat /\ Blank \in Form
      BY DEF Users, Blank, Form, Roles
    <3>. QED  BY <2>2, <3>1, <3>2
  <2>6. CASE CallArrives(c) \/ CallFails(c)
    <3>1. NoRequest \in AnyRequest
      BY DEF NoRequest, AnyRequest, Blank, Form, Roles, Me, NoUser
    <3>2. NoRequest.st = "idle"
      BY DEF NoRequest
    <3>. QED  BY <2>6, <3>1, <3>2 DEF CallArrives, CallFails
  <2>. QED  BY <2>1, <2>3, <2>4, <2>5, <2>6 DEF Quiet
<1>. QED  BY <1>1, <1>2 DEF Shaped, Kept, NoUser

\* Leaving the page takes its name off its calls, and forgets those that were answered.
LEMMA LeaveStep == Shaped /\ LeavePage => Shaped' /\ db' = db /\ raced' = raced /\ Kept
<1>. SUFFICES ASSUME Shaped, LeavePage PROVE Shaped' /\ db' = db /\ raced' = raced /\ Kept
  OBVIOUS
<1>1. NoRequest \in AnyRequest
  BY DEF NoRequest, AnyRequest, Blank, Form, Roles, Me, NoUser
<1>. QED  BY ZenonT(30), <1>1 DEF LeavePage, Shaped, Kept, AnyRequest, NoRequest, backend, NoUser
-------------------------------------------------------------------------------
\* A request that passes its check is allowed by the table as it is.
LEMMA CheckStep ==
    ASSUME NEW c \in Requests, Shaped, ChecksHold, Check(c)
    PROVE  Shaped' /\ ChecksHold' /\ db' = db /\ raced' = raced
<1>1. db' = db /\ raced' = raced /\ page' = page /\ editing' = editing
  BY DEF Check, backend, pageVars, dialogs
<1>2. req[c] \in AnyRequest
  BY DEF Shaped
<1>3. CASE /\ Allowed(req[c])
           /\ req' = [req EXCEPT ![c].st = "checked", ![c].old = Loaded(req[c])]
  <2>1. Loaded(req[c]) \in Form
    BY <1>2, <1>3 DEF Shaped, Loaded, Allowed, UpdateAllowed, Exists, Row, Form, Blank, Roles, NoRole
  <2>2. Shaped'
    BY <1>1, <1>2, <1>3, <2>1 DEF Shaped, AnyRequest
  <2>3. \A d \in Requests : /\ req'[d].by = req[d].by /\ req'[d].kind = req[d].kind
                            /\ req'[d].user = req[d].user /\ req'[d].form = req[d].form
                            /\ d # c => req'[d] = req[d]
    BY <1>3 DEF Shaped, AnyRequest
  <2>. QED  BY <1>1, <1>3, <2>2, <2>3, AllowedStays DEF ChecksHold
<1>4. CASE req' = [req EXCEPT ![c] = Failed(@)]
  <2>1. Failed(req[c]) \in AnyRequest
    BY <1>2 DEF AnyRequest, Failed, Waits, NoRequest, Form, Blank, Roles, Me, NoUser
  <2>2. Failed(req[c]).st # "checked"
    BY DEF Failed, Waits, NoRequest
  <2>3. Shaped' /\ Kept
    BY <1>1, <1>4, <2>1, <2>2 DEF Shaped, Kept
  <2>. QED  BY <1>1, <2>3, KeptHolds
<1>. QED  BY <1>3, <1>4 DEF Check

\* A user who is there when a row is made keeps the table from being without.
LEMMA CreateStep ==
    ASSUME NEW c \in Requests, IInv, CreateCommit(c)
    PROVE  IInv'
<1>1. PICK u \in Users : /\ db[u].n = 0
                         /\ Commits(c, u, [active |-> req[c].form.active, n |-> 1, role |-> req[c].form.role])
  BY DEF CreateCommit
<1>. DEFINE row == [active |-> req[c].form.active, n |-> 1, role |-> req[c].form.role]
<1>2. row \in Row /\ row.n # 0 /\ u \in Nat
  BY DEF IInv, Shaped, AnyRequest, Form, Row, Users
<1>3. Shaped' /\ ChecksHold'
  BY <1>1, <1>2, CommitsStep DEF IInv
<1>4. db' = [db EXCEPT ![u] = row] /\ raced' = (raced \/ req[c].stale)
  BY <1>1 DEF Commits
<1>5. ASSUME NEW v \in Users, IsAdmin(v) PROVE IsAdmin(v)'
  BY <1>1, <1>4, <1>5 DEF IInv, Shaped, IsAdmin, Exists
<1>. QED  BY <1>3, <1>4, <1>5 DEF IInv, AdminStays

\* Whoever changes another remains; whoever demotes himself has seen another one.
LEMMA UpdateStep ==
    ASSUME NEW c \in Requests, IInv, UpdateCommit(c)
    PROVE  IInv'
<1>1. req[c] \in AnyRequest /\ req[c].st = "checked"
  BY DEF IInv, Shaped, UpdateCommit
<1>2. CASE Exists(req[c].user) /\ Commits(c, req[c].user, Updated(req[c]))
  <2>. DEFINE u == req[c].user
  <2>1. u \in Users /\ u \in Nat
    BY <1>2 DEF Exists, Users
  <2>2. Updated(req[c]) \in Row /\ Updated(req[c]).n # 0
    BY <1>1, <2>1 DEF IInv, Shaped, AnyRequest, Form, Updated, Row
  <2>3. Shaped' /\ ChecksHold'
    BY <1>2, <2>1, <2>2, CommitsStep DEF IInv
  <2>4. db' = [db EXCEPT ![u] = Updated(req[c])] /\ raced' = (raced \/ req[c].stale)
    BY <1>2 DEF Commits
  <2>5. CASE raced \/ req[c].stale
    BY <2>3, <2>4, <2>5 DEF IInv, AdminStays
  <2>6. CASE ~req[c].stale
    <3>1. Allowed(req[c]) /\ (req[c].kind = "update")
      BY <1>1, <2>6 DEF IInv, ChecksHold, UpdateCommit
    <3>2. IsAdmin(req[c].by) /\ UpdateAllowed(req[c])
      BY <3>1 DEF Allowed, Authorized
    <3>3. ASSUME NEW v \in Users, v # u, IsAdmin(v) PROVE IsAdmin(v)'
      BY <2>4, <3>3 DEF IInv, Shaped, IsAdmin, Exists
    <3>4. CASE u # req[c].by
      <4>1. PICK v \in Users : v # u /\ IsAdmin(v)
        BY <3>2, <3>4 DEF IsAdmin, Exists
      <4>2. IsAdmin(v)'
        BY <3>3, <4>1
      <4>. QED  BY <2>3, <4>2 DEF IInv, AdminStays
    <3>5. CASE u = req[c].by /\ req[c].form.role = "admin"
      <4>1. Updated(req[c]).role = "admin"
        BY <3>2, <3>5 DEF Updated, IsAdmin
      <4>2. db'[u].role = "admin"
        BY <2>1, <2>4, <4>1 DEF IInv, Shaped
      <4>3. \E v \in Users : IsAdmin(v)'
        BY <2>1, <4>2 DEF IsAdmin, Exists, NoRole
      <4>. QED  BY <2>3, <4>3 DEF IInv, AdminStays
    <3>6. CASE u = req[c].by /\ req[c].form.role # "admin"
      <4>1. PICK v \in Users : v # u /\ IsAdmin(v)
        BY <3>2, <3>6, OneBesides DEF UpdateAllowed
      <4>2. IsAdmin(v)'
        BY <3>3, <4>1
      <4>. QED  BY <2>3, <4>2 DEF IInv, AdminStays
    <3>. QED  BY <3>4, <3>5, <3>6
  <2>. QED  BY <2>5, <2>6
<1>3. CASE /\ req' = [req EXCEPT ![c] = Failed(@)]
           /\ UNCHANGED <<backend, calls, events, pageVars>>
  <2>1. Failed(req[c]) \in AnyRequest
    BY <1>1 DEF AnyRequest, Failed, Waits, NoRequest, Form, Blank, Roles, Me, NoUser
  <2>2. Failed(req[c]).st # "checked"
    BY DEF Failed, Waits, NoRequest
  <2>3. Shaped' /\ Kept /\ db' = db /\ raced' = raced
    BY <1>3, <2>1, <2>2 DEF IInv, Shaped, Kept, backend, pageVars, dialogs
  <2>. QED  BY <2>3, KeptHolds DEF IInv, AdminStays, IsAdmin, Exists
<1>. QED  BY <1>2, <1>3 DEF UpdateCommit

\* Nobody deletes himself.
LEMMA DeleteStep ==
    ASSUME NEW c \in Requests, IInv, DeleteCommit(c)
    PROVE  IInv'
<1>. DEFINE u == req[c].user
            row == [Unborn EXCEPT !.n = Gone]
<1>1. req[c] \in AnyRequest /\ req[c].st = "checked" /\ req[c].kind = "delete" /\ Commits(c, u, row)
  BY DEF IInv, Shaped, DeleteCommit
<1>2. row \in Row /\ row.n # 0 /\ u \in Nat
  <2>1. Gone \in Nat /\ Gone # 0
    BY UsersAssumption DEF Gone
  <2>2. row \in Row
    BY <2>1 DEF Unborn, Row
  <2>3. row.n = Gone
    BY DEF Unborn
  <2>. QED  BY <1>1, <2>1, <2>2, <2>3 DEF AnyRequest
<1>3. Shaped' /\ ChecksHold'
  BY <1>1, <1>2, CommitsStep DEF IInv
<1>4. db' = [db EXCEPT ![u] = row] /\ raced' = (raced \/ req[c].stale)
  BY <1>1 DEF Commits
<1>5. CASE raced \/ req[c].stale
  BY <1>3, <1>4, <1>5 DEF IInv, AdminStays
<1>6. CASE ~req[c].stale
  <2>1. IsAdmin(req[c].by) /\ u # req[c].by
    BY <1>1, <1>6 DEF IInv, ChecksHold, Allowed, Authorized, DeleteAllowed
  <2>2. PICK v \in Users : v # u /\ IsAdmin(v)
    BY <2>1 DEF IsAdmin, Exists
  <2>3. IsAdmin(v)'
    BY <1>4, <2>2 DEF IInv, Shaped, IsAdmin, Exists
  <2>. QED  BY <1>3, <2>3 DEF IInv, AdminStays
<1>. QED  BY <1>5, <1>6

-------------------------------------------------------------------------------
\* The invariant holds at first.
LEMMA InitHolds == Init => IInv
<1>. SUFFICES ASSUME Init PROVE IInv
  OBVIOUS
<1>1. Shaped
  <2>1. NoRequest \in AnyRequest
    BY DEF NoRequest, AnyRequest, Blank, Form, Roles, Me, NoUser
  <2>2. Founder \in Row /\ Founder.n # 0 /\ Unborn \in Row /\ Unborn.role = NoRole
    BY DEF Founder, Unborn, Row, Roles, NoRole
  <2>. QED  BY <2>1, <2>2 DEF Init, Shaped, NoUser
<1>2. ChecksHold
  BY DEF Init, ChecksHold, NoRequest
<1>3. Me \in Users /\ IsAdmin(Me)
  BY UsersAssumption DEF Init, Users, Me, IsAdmin, Exists, Founder, NoRole
<1>. QED  BY <1>1, <1>2, <1>3 DEF IInv, AdminStays

\* Every step keeps the invariant.
LEMMA StepHolds == IInv /\ [Next]_vars => IInv'
<1>. SUFFICES ASSUME IInv, [Next]_vars PROVE IInv'
  OBVIOUS
<1>1. ASSUME Shaped', db' = db, raced' = raced, Kept PROVE IInv'
  BY <1>1, KeptHolds DEF IInv, AdminStays, IsAdmin, Exists
<1>2. CASE Calm
  BY <1>1, <1>2, CalmStep DEF IInv
<1>3. CASE LeavePage
  BY <1>1, <1>3, LeaveStep DEF IInv
<1>4. ASSUME NEW c \in Requests, Quiet(c) PROVE IInv'
  BY <1>1, <1>4, QuietStep DEF IInv
<1>5. ASSUME NEW c \in Requests, Check(c) PROVE IInv'
  BY <1>5, CheckStep DEF IInv, AdminStays, IsAdmin, Exists
<1>6. ASSUME NEW c \in Requests, CreateCommit(c) \/ UpdateCommit(c) \/ DeleteCommit(c) PROVE IInv'
  BY <1>6, CreateStep, UpdateStep, DeleteStep
<1>. QED  BY <1>2, <1>3, <1>4, <1>5, <1>6 DEF Next, Calm, Quiet

\* The invariant on which AdminStays rests holds in every state.
THEOREM Invariance == Spec => []IInv
<1>. QED  BY InitHolds, StepHolds, PTL DEF Spec

\* As long as no write relies on an overtaken check, a row with the role of administrators is
\* left, active or not, however many requests are under way: the checks of update_user and
\* delete_user are enough between them.
THEOREM AdminIsLeft == Spec => []AdminStays
<1>1. IInv => AdminStays
  BY DEF IInv
<1>. QED  BY <1>1, Invariance, PTL

-------------------------------------------------------------------------------
(***************************************************************************)
(* The typing, with its bounds.  That a user is not written more often     *)
(* than Versions allows needs the calls that are under way: each was       *)
(* counted when it was made, and may write once.                           *)
(***************************************************************************)

Busy == {c \in Requests : req[c].st \in {"sent", "checked"}}

\* A row that is not deleted was written by its creation and by calls that are over.
Counted ==
    /\ IsFiniteSet(Busy)
    /\ \A u \in Users : db[u].n # Gone => db[u].n + Cardinality(Busy) <= calls + 1

\* A row that is there was created and not deleted.
Aged == \A u \in Users : Exists(u) => db[u].n \notin {0, Gone}

\* What is changed or deleted was a user once.
Targeted ==
    \A c \in Busy : req[c].kind # "create" => req[c].user \in Users

\* An answer is for the page, and of a write that has taken place.
Written ==
    \A c \in Requests : req[c].st = "ok" =>
        Waits(req[c]) /\ req[c].user \in Users /\ req[c].n <= db[req[c].user].n

\* So is what the page has learnt.
Known == \A u \in Users : acked[u] <= db[u].n

Backed ==
    /\ db \in [Users -> User] /\ raced \in BOOLEAN
    /\ req \in [Requests -> Request]
    /\ calls \in 0..MaxCalls /\ acked \in Versions
    /\ Counted /\ Aged /\ Targeted /\ Written /\ Known

Loads == fetches \in Seq(Fetch) /\ Len(fetches) <= MaxFetches

Paged ==
    /\ events \in 0..MaxEvents
    /\ storedRole \in Roles
    /\ onPage \in BOOLEAN /\ loading \in BOOLEAN /\ error \in BOOLEAN /\ crossed \in BOOLEAN
    /\ page \in Pages /\ list \in [page: Pages, rows: Versions]
    /\ createOpen \in BOOLEAN /\ editing \in 0..MaxUsers
    /\ ~(createOpen /\ editing # NoUser)
    /\ Loads

\* Division keeps the order.
LEMMA DivMonotone ==
    ASSUME NEW a \in Nat, NEW b \in Nat, NEW d \in Nat \ {0}, a <= b
    PROVE  a \div d <= b \div d
BY SMT

LEMMA DivPositive ==
    ASSUME NEW a \in Nat, NEW d \in Nat \ {0}, d <= a
    PROVE  a \div d \in Nat \ {0}
BY SMT

\* There is a first page, and no list of users has a page that is not in Pages.
LEMMA PagesAreEnough ==
    /\ 1 \in Pages
    /\ totalPages \in Nat /\ \A p \in Nat \ {0} : p <= totalPages => p \in Pages
    /\ Pages \subseteq Nat \ {0}
    /\ \A p \in Pages : p > 1 => p - 1 \in Pages
<1>. DEFINE most == MaxUsers + PageSize - 1
<1>1. most \in Nat /\ PageSize \in Nat \ {0} /\ PageSize <= most /\ MaxUsers \in Nat
  BY UsersAssumption
<1>2. most \div PageSize \in Nat \ {0}
  BY <1>1, DivPositive
<1>8. PICK last \in Nat \ {0} : Pages = 1..last
  BY <1>2 DEF Pages
<1>9. 1 \in Pages /\ Pages \subseteq Nat \ {0} /\ \A p \in Pages : p > 1 => p - 1 \in Pages
  BY <1>8
<1>3. IsFiniteSet(Users) /\ Cardinality(Users) = MaxUsers
  BY <1>1, FS_Interval DEF Users
<1>4. Listed \subseteq Users
  BY DEF Listed
<1>5. Cardinality(Listed) \in Nat /\ Cardinality(Listed) <= MaxUsers
  BY <1>3, <1>4, FS_Subset, FS_CardinalityType
<1>6. CASE Cardinality(Listed) = 0
  BY <1>8, <1>9, <1>6 DEF totalPages
<1>7. CASE Cardinality(Listed) # 0
  <2>. DEFINE some == Cardinality(Listed) + PageSize - 1
  <2>1. some \in Nat /\ some <= most /\ PageSize <= some
    BY <1>1, <1>5, <1>7
  <2>2. some \div PageSize <= most \div PageSize /\ some \div PageSize \in Nat \ {0}
    BY <1>1, <2>1, DivMonotone, DivPositive
  <2>3. totalPages = some \div PageSize
    BY <1>7 DEF totalPages
  <2>. HIDE DEF some
  <2>4. \A p \in Nat \ {0} : p <= some \div PageSize => p \in Pages
    BY <1>2, <2>2 DEF Pages
  <2>. QED  BY <1>9, <2>2, <2>3, <2>4
<1>. QED  BY <1>6, <1>7

\* What starting loads does to them.
LEMMA FetchesStep ==
    ASSUME Loads, NEW ps \in Seq(Pages), Fetches(ps)
    PROVE  /\ Loads' /\ loading' = TRUE /\ error' = FALSE
           /\ Len(fetches') = Len(fetches) + Len(ps)
           /\ \A i \in 1..Len(fetches) : fetches'[i] = fetches[i]
           /\ \A i \in 1..Len(ps) : /\ fetches'[Len(fetches) + i].st = "sent"
                                    /\ ~fetches'[Len(fetches) + i].overtaken
<1>. DEFINE new == [i \in DOMAIN ps |-> [overtaken |-> FALSE, page |-> ps[i], rows |-> Nobody, st |-> "sent"]]
<1>1. Nobody \in Versions
  BY UsersAssumption DEF Nobody, Versions, Gone
<1>2. \A i \in DOMAIN ps : new[i] \in Fetch
  BY <1>1 DEF Fetch
<1>3. new \in Seq(Fetch) /\ Len(new) = Len(ps) /\ DOMAIN new = 1..Len(ps)
  BY <1>2
<1>4. fetches' = fetches \o new /\ Len(fetches) + Len(ps) <= MaxFetches /\ loading' = TRUE /\ error' = FALSE
  BY DEF Fetches
<1>5. \A i \in 1..Len(ps) : new[i].st = "sent" /\ ~new[i].overtaken
  OBVIOUS
<1>. HIDE DEF new
<1>6. fetches' \in Seq(Fetch) /\ Len(fetches') = Len(fetches) + Len(ps)
  <2>1. fetches \in Seq(Fetch) /\ new \in Seq(Fetch)
    BY <1>3 DEF Loads
  <2>2. fetches \o new \in Seq(Fetch) /\ Len(fetches \o new) = Len(fetches) + Len(new)
    BY ONLY <2>1, ConcatProperties
  <2>. QED  BY <1>3, <1>4, <2>2
<1>7. \A i \in 1..Len(ps) : fetches'[Len(fetches) + i] = new[i]
  BY <1>3, <1>4 DEF Loads
<1>8. \A i \in 1..Len(fetches) : fetches'[i] = fetches[i]
  BY <1>3, <1>4 DEF Loads
<1>. QED  BY <1>4, <1>5, <1>6, <1>7, <1>8 DEF Loads

\* What is left when a load is over.
LEMMA WithoutOne ==
    ASSUME Loads, NEW i \in DOMAIN fetches
    PROVE  /\ Without(i) \in Seq(Fetch) /\ Len(Without(i)) = Len(fetches) - 1
           /\ Len(fetches) - 1 \in Nat
           /\ \A j \in 1..(Len(fetches) - 1) : Without(i)[j] = IF j < i THEN fetches[j] ELSE fetches[j + 1]
<1>1. fetches \in Seq(Fetch) /\ i \in 1..Len(fetches) /\ Len(fetches) \in Nat
  BY DEF Loads
<1>. DEFINE s == SubSeq(fetches, 1, i - 1)
            t == SubSeq(fetches, i + 1, Len(fetches))
<1>2. s \in Seq(Fetch) /\ Len(s) = i - 1 /\ \A j \in 1..(i - 1) : s[j] = fetches[j]
  BY <1>1
<1>3. t \in Seq(Fetch) /\ Len(t) = Len(fetches) - i /\ \A j \in 1..(Len(fetches) - i) : t[j] = fetches[i + j]
  BY <1>1
<1>4. Without(i) = s \o t
  BY DEF Without
<1>. HIDE DEF s, t
<1>5. Without(i) \in Seq(Fetch) /\ Len(Without(i)) = Len(fetches) - 1
  BY <1>1, <1>2, <1>3, <1>4
<1>6. \A j \in 1..(i - 1) : Without(i)[j] = fetches[j]
  BY <1>1, <1>2, <1>3, <1>4
<1>7. ASSUME NEW j \in 1..(Len(fetches) - 1), ~(j < i) PROVE Without(i)[j] = fetches[j + 1]
  <2>1. j - (i - 1) \in 1..(Len(fetches) - i)
    BY <1>1, <1>7
  <2>2. /\ j \in 1..(Len(s) + Len(t)) /\ ~(j <= Len(s)) /\ j - Len(s) = j - (i - 1)
    BY <1>1, <1>2, <1>3, <1>7
  <2>3. Without(i)[j] = t[j - Len(s)]
    BY SMTT(30), <1>2, <1>3, <1>4, <2>2
  <2>4. t[j - (i - 1)] = fetches[i + (j - (i - 1))] /\ i + (j - (i - 1)) = j + 1
    BY SMTT(30), <1>1, <1>3, <2>1
  <2>. QED  BY <2>2, <2>3, <2>4
<1>. QED  BY <1>1, <1>5, <1>6, <1>7

\* What an answer leaves of the loads: the later ones as they were, the earlier overtaken.
LEMMA ArrivalLeaves ==
    ASSUME Loads, NEW i \in DOMAIN fetches,
           fetches' = [j \in 1..(Len(fetches) - 1) |-> [Without(i)[j] EXCEPT !.overtaken = @ \/ j < i]]
    PROVE  /\ Loads' /\ Len(fetches') = Len(fetches) - 1
           /\ \A j \in 1..(Len(fetches) - 1) :
                LET k == IF j < i THEN j ELSE j + 1
                IN /\ k \in 1..Len(fetches)
                   /\ fetches'[j].overtaken = (fetches[k].overtaken \/ j < i)
                   /\ fetches'[j].st = fetches[k].st /\ fetches'[j].rows = fetches[k].rows
<1>1. fetches \in Seq(Fetch) /\ i \in 1..Len(fetches) /\ Len(fetches) \in Nat /\ Len(fetches) <= MaxFetches
  BY DEF Loads
<1>. DEFINE w == Without(i)
            n == Len(fetches) - 1
<1>2. w \in Seq(Fetch) /\ Len(w) = n /\ n \in Nat
  BY WithoutOne
<1>3. \A j \in 1..n : w[j] = IF j < i THEN fetches[j] ELSE fetches[j + 1]
  BY WithoutOne
<1>4. fetches' = [j \in 1..n |-> [w[j] EXCEPT !.overtaken = @ \/ j < i]]
  OBVIOUS
<1>. HIDE DEF w
<1>5. ASSUME NEW j \in 1..n
      PROVE  /\ fetches'[j] \in Fetch
             /\ fetches'[j].overtaken = (w[j].overtaken \/ j < i)
             /\ fetches'[j].st = w[j].st /\ fetches'[j].rows = w[j].rows
  <2>1. w[j] \in Fetch
    BY <1>2, <1>5
  <2>2. fetches'[j] = [w[j] EXCEPT !.overtaken = @ \/ j < i]
    BY <1>4, <1>5
  <2>. QED  BY <2>1, <2>2 DEF Fetch
<1>6. fetches' \in [1..n -> Fetch]
  BY <1>4, <1>5
<1>7. fetches' \in Seq(Fetch) /\ Len(fetches') = n
  BY <1>2, <1>6
<1>8. Loads'
  BY <1>1, <1>7, UsersAssumption DEF Loads
<1>9. ASSUME NEW j \in 1..n
      PROVE  LET k == IF j < i THEN j ELSE j + 1 IN k \in 1..Len(fetches) /\ w[j] = fetches[k]
  BY <1>1, <1>3, <1>9
<1>. QED  BY <1>5, <1>7, <1>8, <1>9

\* The page keeps its shape in what it does by itself.
LEMMA CalmPaged ==
    ASSUME Backed, Paged, Calm
    PROVE  Paged'
<1>. USE DEF pageVars, dialogs
<1>1. \A s \in Pages : <<s>> \in Seq(Pages) /\ \A q \in Pages : <<q, s>> \in Seq(Pages)
  OBVIOUS
<1>2. 1 \in Pages /\ Pages \subseteq Nat \ {0}
  BY PagesAreEnough
<1>3. Event => events' \in 0..MaxEvents
  BY UsersAssumption DEF Event, Paged
<1>4. CASE UsersPage
  <2>1. Fetches(<<1>>) /\ Loads
    BY <1>4 DEF UsersPage, Paged
  <2>2. Loads' /\ loading' = TRUE /\ error' = FALSE
    BY <1>1, <1>2, <2>1, FetchesStep
  <2>. QED  BY <1>4, <2>2 DEF UsersPage, Paged
<1>5. CASE Reload
  <2>1. storedRole' \in Roles
    BY <1>5, UsersAssumption DEF Reload, Backed, Exists, User
  <2>. QED  BY <1>3, <1>5, <2>1 DEF Reload, Paged, Loads
<1>6. CASE handleSearch
  <2>. DEFINE ps == IF page = 1 THEN <<1>> ELSE <<page, 1>>
  <2>1. Fetches(ps) /\ Loads
    BY <1>6 DEF handleSearch, Paged
  <2>2. page \in Pages
    BY DEF Paged
  <2>3. ps \in Seq(Pages)
    BY <1>1, <1>2, <2>2
  <2>. HIDE DEF ps
  <2>4. Loads' /\ loading' = TRUE /\ error' = FALSE
    BY <2>1, <2>3, FetchesStep
  <2>. QED  BY <1>2, <1>3, <1>6, <2>4 DEF handleSearch, Paged
<1>7. ASSUME NEW s \in Pages, GoTo(s) PROVE Paged'
  <2>1. Fetches(<<s>>) /\ Loads /\ <<s>> \in Seq(Pages)
    BY <1>1, <1>7 DEF GoTo, Paged
  <2>2. Loads' /\ loading' = TRUE /\ error' = FALSE
    BY <2>1, FetchesStep
  <2>. QED  BY <1>3, <1>7, <2>2 DEF GoTo, Paged
<1>8. CASE PrevPage
  <2>1. page \in Pages /\ page > 1
    BY <1>8 DEF PrevPage, Paged
  <2>2. page - 1 \in Pages
    BY <2>1, PagesAreEnough
  <2>. QED  BY <1>7, <1>8, <2>2 DEF PrevPage
<1>9. CASE NextPage
  <2>1. page \in Pages /\ page < totalPages
    BY <1>9 DEF NextPage, Paged
  <2>2. page + 1 \in Pages
    BY <1>2, <2>1, PagesAreEnough
  <2>. QED  BY <1>7, <1>9, <2>2 DEF NextPage
<1>10. CASE OpenCreate \/ CancelCreate \/ CancelEdit
  <2>1. UNCHANGED <<events, storedRole, onPage, page, list, loading, error, fetches, crossed>>
    BY <1>10 DEF OpenCreate, CancelCreate, CancelEdit, DialogChanges
  <2>2. /\ createOpen' \in BOOLEAN /\ editing' \in {editing, NoUser}
        /\ ~(createOpen' /\ editing' # NoUser)
    BY <1>10 DEF OpenCreate, CancelCreate, CancelEdit, NothingOpen, Paged
  <2>. QED  BY <2>1, <2>2, UsersAssumption DEF Paged, Loads, NoUser
<1>11. CASE \E u \in Users : openEdit(u)
  BY <1>11, UsersAssumption DEF openEdit, NothingOpen, DialogChanges, Paged, Loads, NoUser, Users
<1>12. ASSUME NEW i \in 1..MaxFetches, FetchServed(i) PROVE Paged'
  <2>1. [u \in Users |-> db[u].n] \in Versions
    BY DEF Backed, Versions, User
  <2>2. fetches \in Seq(Fetch) /\ i \in 1..Len(fetches)
    <3>1. Loads /\ i \in DOMAIN fetches
      BY <1>12 DEF FetchServed, Paged
    <3>. QED  BY <3>1 DEF Loads
  <2>. DEFINE f == [fetches[i] EXCEPT !.st = "served", !.rows = [u \in Users |-> db[u].n]]
  <2>3. fetches[i] \in Fetch
    BY <2>2
  <2>4. f \in Fetch
    BY <2>1, <2>3 DEF Fetch
  <2>5. fetches' = [fetches EXCEPT ![i] = f]
    BY <1>12 DEF FetchServed
  <2>. HIDE DEF f
  <2>6. fetches' \in Seq(Fetch) /\ Len(fetches') = Len(fetches)
    BY <2>2, <2>4, <2>5
  <2>. QED  BY <1>12, <2>6 DEF FetchServed, Paged, Loads
<1>13. ASSUME NEW i \in 1..MaxFetches, FetchArrives(i) PROVE Paged'
  <2>1. fetches \in Seq(Fetch) /\ i \in DOMAIN fetches
    BY <1>13 DEF FetchArrives, Paged, Loads
  <2>2. fetches[i] \in Fetch
    BY <2>1
  <2>3. list' \in [page : Pages, rows : Versions] /\ crossed' \in BOOLEAN
    BY <1>13, <2>2 DEF FetchArrives, Fetch
  <2>4. Loads'
    BY <1>13, <2>1, ArrivalLeaves DEF FetchArrives, Paged
  <2>. QED  BY <1>13, <2>3, <2>4 DEF FetchArrives, Paged
<1>14. ASSUME NEW i \in 1..MaxFetches, FetchFails(i) PROVE Paged'
  <2>1. Loads /\ i \in DOMAIN fetches
    BY <1>14 DEF FetchFails, Paged
  <2>2. Without(i) \in Seq(Fetch) /\ Len(Without(i)) = Len(fetches) - 1 /\ Len(fetches) - 1 \in Nat
    BY <2>1, WithoutOne
  <2>3. Loads'
    BY <1>14, <2>1, <2>2, UsersAssumption DEF FetchFails, Loads
  <2>. QED  BY <1>3, <1>14, <2>3 DEF FetchFails, Paged
<1>15. CASE UNCHANGED vars
  BY <1>15 DEF vars, Paged, Loads
<1>. QED  BY <1>4, <1>5, <1>6, <1>8, <1>9, <1>10, <1>11, <1>12, <1>13, <1>14, <1>15 DEF Calm

-------------------------------------------------------------------------------
\* No request, and one that has failed, are requests.
LEMMA Requested ==
    /\ NoRequest \in Request /\ NoRequest.st = "idle" /\ ~Waits(NoRequest)
    /\ \A r \in Request : Failed(r) \in Request /\ Failed(r).st \in {"idle", "failed"}
<1>1. NoRequest \in Request /\ NoRequest.st = "idle" /\ ~Waits(NoRequest)
  BY UsersAssumption DEF NoRequest, Request, Blank, Form, Roles, Me, NoUser, Gone, Waits
<1>2. ASSUME NEW r \in Request PROVE Failed(r) \in Request /\ Failed(r).st \in {"idle", "failed"}
  BY <1>1, <1>2 DEF Failed, Request, NoRequest
<1>. QED  BY <1>1, <1>2

\* A step that changes one request and no row.
LEMMA RequestBacked ==
    ASSUME Backed, NEW c \in Requests, NEW r \in Request,
           req' = [req EXCEPT ![c] = r], r.st # "ok",
           r.st \in {"sent", "checked"} /\ r.kind # "create" => r.user \in Users,
           db' = db, raced' = raced,
           acked' \in Versions, \A u \in Users : acked'[u] <= db[u].n,
           \/ calls' = calls /\ (r.st \in {"sent", "checked"} => c \in Busy)
           \/ calls' = calls + 1 /\ calls < MaxCalls
    PROVE  Backed'
<1>1. req \in [Requests -> Request] /\ calls \in 0..MaxCalls /\ IsFiniteSet(Busy)
  BY DEF Backed, Counted
<1>2. req' \in [Requests -> Request] /\ req'[c] = r /\ \A d \in Requests : d # c => req'[d] = req[d]
  BY <1>1
<1>3. calls' \in 0..MaxCalls
  BY <1>1, UsersAssumption
<1>4. Cardinality(Busy) \in Nat
  BY <1>1, FS_CardinalityType
<1>5. /\ IsFiniteSet(Busy') /\ Cardinality(Busy') \in Nat
      /\ Cardinality(Busy') - calls' <= Cardinality(Busy) - calls
  <2>1. CASE calls' = calls /\ (r.st \in {"sent", "checked"} => c \in Busy)
    <3>1. Busy' \subseteq Busy
      BY <1>2, <2>1 DEF Busy
    <3>. QED  BY <1>1, <1>4, <2>1, <3>1, FS_Subset, FS_CardinalityType
  <2>2. CASE calls' = calls + 1
    <3>1. Busy' \subseteq Busy \cup {c}
      BY <1>2 DEF Busy
    <3>2. IsFiniteSet(Busy \cup {c}) /\ Cardinality(Busy \cup {c}) <= Cardinality(Busy) + 1
      <4>1. /\ IsFiniteSet(Busy \cup {c})
            /\ Cardinality(Busy \cup {c}) = IF c \in Busy THEN Cardinality(Busy) ELSE Cardinality(Busy) + 1
        BY <1>1, FS_AddElement
      <4>. QED  BY <1>4, <4>1
    <3>3. IsFiniteSet(Busy') /\ Cardinality(Busy') <= Cardinality(Busy \cup {c})
      BY <3>1, <3>2, FS_Subset
    <3>4. Cardinality(Busy') \in Nat /\ Cardinality(Busy \cup {c}) \in Nat
      BY <3>2, <3>3, FS_CardinalityType
    <3>. QED  BY <1>1, <1>4, <2>2, <3>2, <3>3, <3>4
  <2>. QED  BY <2>1, <2>2
<1>6. Counted'
  <2>1. ASSUME NEW u \in Users, db[u].n # Gone PROVE db[u].n + Cardinality(Busy') <= calls' + 1
    <3>1. db[u].n \in Nat /\ db[u].n + Cardinality(Busy) <= calls + 1
      BY <2>1 DEF Backed, Counted, User
    <3>. QED  BY <1>1, <1>3, <1>4, <1>5, <3>1
  <2>. QED  BY <1>5, <2>1 DEF Counted
<1>7. Aged' /\ Known'
  BY DEF Backed, Aged, Exists, Known
<1>8. Targeted'
  BY <1>2 DEF Backed, Targeted, Busy
<1>9. Written'
  BY <1>2 DEF Backed, Written, Waits
<1>. QED  BY <1>2, <1>3, <1>6, <1>7, <1>8, <1>9 DEF Backed

\* A commit, of a row that is no older than the one it replaces.
LEMMA CommitBacked ==
    ASSUME Backed, Paged, NEW c \in Busy, NEW u \in Users, NEW row \in User, Commits(c, u, row),
           row.n >= db[u].n, row.n # Gone => db[u].n # Gone /\ row.n <= db[u].n + 1,
           row.role # NoRole => row.n \notin {0, Gone}
    PROVE  Backed' /\ Paged'
<1>1. c \in Requests /\ req \in [Requests -> Request] /\ req[c] \in Request
  BY DEF Backed, Busy
<1>2. db \in [Users -> User] /\ calls \in 0..MaxCalls /\ IsFiniteSet(Busy) /\ Cardinality(Busy) \in Nat
  BY FS_CardinalityType DEF Backed, Counted
<1>3. PICK answer \in {Done(c, u, row), Failed(req[c])} :
        /\ req' = [d \in Requests |->
                     IF d = c THEN answer ELSE [req[d] EXCEPT !.stale = @ \/ (req[d].st = "checked")]]
        /\ events' \in 0..MaxEvents
  BY UsersAssumption DEF Commits, Event, Paged
<1>4. /\ answer \in Request /\ answer.st \in {"idle", "failed", "ok"}
      /\ answer.st = "ok" => Waits(answer) /\ answer.user = u /\ answer.n = row.n
  <2>1. /\ Done(c, u, row) \in Request /\ Done(c, u, row).st \in {"idle", "ok"}
        /\ Done(c, u, row).st = "ok" =>
             Waits(Done(c, u, row)) /\ Done(c, u, row).user = u /\ Done(c, u, row).n = row.n
    <3>1. u \in 0..MaxUsers /\ row.n \in 0..Gone
      BY UsersAssumption DEF Users, User
    <3>2. NoRequest \in Request /\ NoRequest.st = "idle"
      BY Requested
    <3>. QED  BY <1>1, <3>1, <3>2 DEF Done, Request, NoRequest, Waits
  <2>. QED  BY <1>1, <2>1, Requested
<1>5. \A d \in Requests : d # c => req'[d] = [req[d] EXCEPT !.stale = @ \/ (req[d].st = "checked")]
  BY <1>3
<1>6. \A d \in Requests : d # c => /\ req'[d] \in Request /\ req'[d].st = req[d].st
                                   /\ req'[d].kind = req[d].kind /\ req'[d].user = req[d].user
                                   /\ req'[d].n = req[d].n /\ req'[d].page = req[d].page
  <2>1. ASSUME NEW r \in Request
        PROVE  LET s == [r EXCEPT !.stale = @ \/ (r.st = "checked")]
               IN s \in Request /\ s.st = r.st /\ s.kind = r.kind /\ s.user = r.user /\ s.n = r.n /\ s.page = r.page
    BY <2>1 DEF Request
  <2>2. ASSUME NEW d \in Requests, d # c
        PROVE  /\ req'[d] \in Request /\ req'[d].st = req[d].st
               /\ req'[d].kind = req[d].kind /\ req'[d].user = req[d].user
               /\ req'[d].n = req[d].n /\ req'[d].page = req[d].page
    <3>1. req[d] \in Request
      BY <1>1
    <3>2. req'[d] = [req[d] EXCEPT !.stale = @ \/ (req[d].st = "checked")]
      BY <1>5, <2>2
    <3>. QED  BY <2>1, <3>1, <3>2
  <2>. QED  BY <2>2
<1>7. req' \in [Requests -> Request] /\ req'[c] = answer
  BY <1>1, <1>3, <1>4, <1>6
<1>8. /\ db' = [db EXCEPT ![u] = row] /\ raced' \in BOOLEAN /\ calls' = calls /\ acked' = acked
      /\ UNCHANGED pageVars
  BY <1>1 DEF Commits, pageVars, Backed, Request
<1>9. db' \in [Users -> User] /\ db'[u] = row /\ \A v \in Users : v # u => db'[v] = db[v]
  BY <1>2, <1>8
<1>10. \A v \in Users : db'[v].n >= db[v].n
  BY <1>2, <1>9 DEF User
<1>11. Busy' \subseteq Busy \ {c}
  BY <1>4, <1>6, <1>7 DEF Busy
<1>12. IsFiniteSet(Busy') /\ Cardinality(Busy') \in Nat /\ Cardinality(Busy') <= Cardinality(Busy) - 1
  <2>1. IsFiniteSet(Busy \ {c}) /\ Cardinality(Busy \ {c}) = Cardinality(Busy) - 1
    BY <1>2, FS_RemoveElement
  <2>. QED  BY <1>11, <2>1, FS_Subset, FS_CardinalityType
<1>13. Counted'
  <2>1. ASSUME NEW v \in Users, db'[v].n # Gone PROVE db'[v].n + Cardinality(Busy') <= calls + 1
    <3>1. db[v].n # Gone /\ db'[v].n <= db[v].n + 1
      BY <1>2, <1>9, <2>1 DEF User
    <3>2. db[v].n + Cardinality(Busy) <= calls + 1
      BY <3>1 DEF Backed, Counted
    <3>3. db[v].n \in Nat /\ db'[v].n \in Nat
      BY <1>2, <1>9 DEF User
    <3>. QED  BY <1>2, <1>12, <3>1, <3>2, <3>3
  <2>. QED  BY <1>8, <1>12, <2>1 DEF Counted, Gone
<1>14. Aged'
  BY <1>2, <1>9 DEF Backed, Aged, Exists, Gone
<1>15. Targeted'
  BY <1>6, <1>7, <1>11 DEF Backed, Targeted, Busy
<1>16. Written'
  <2>1. ASSUME NEW d \in Requests, req'[d].st = "ok"
        PROVE  Waits(req'[d]) /\ req'[d].user \in Users /\ req'[d].n <= db'[req'[d].user].n
    <3>1. CASE d = c
      <4>1. Waits(req'[d]) /\ req'[d].user = u /\ req'[d].n = row.n
        BY <1>4, <1>7, <2>1, <3>1
      <4>. QED  BY <1>9, <4>1 DEF User, Gone
    <3>2. CASE d # c
      <4>1. Waits(req[d]) /\ req[d].user \in Users /\ req[d].n <= db[req[d].user].n
        BY <1>6, <2>1, <3>2 DEF Backed, Written
      <4>2. req[d].n \in Nat /\ db[req[d].user].n \in Nat /\ db'[req[d].user].n \in Nat
        BY <1>1, <1>2, <1>9, <4>1 DEF Request, User
      <4>. QED  BY <1>6, <1>10, <3>2, <4>1, <4>2 DEF Waits
    <3>. QED  BY <3>1, <3>2
  <2>. QED  BY <2>1 DEF Written
<1>17. Known'
  <2>1. ASSUME NEW v \in Users PROVE acked[v] <= db'[v].n
    <3>1. acked[v] <= db[v].n /\ acked[v] \in Nat /\ db[v].n \in Nat /\ db'[v].n \in Nat
      BY <1>2, <1>9 DEF Backed, Known, Versions, User
    <3>. QED  BY <1>10, <3>1
  <2>. QED  BY <1>8, <2>1 DEF Known
<1>18. Backed'
  BY <1>2, <1>7, <1>8, <1>9, <1>13, <1>14, <1>15, <1>16, <1>17 DEF Backed
<1>. QED  BY <1>3, <1>8, <1>18 DEF Paged, Loads, pageVars, dialogs

\* A call that is made.
LEMMA MadeBacked ==
    ASSUME Backed, Paged, NEW c \in Requests, NEW r \in Request,
           Call(c), req' = [req EXCEPT ![c] = r], r.st = "sent",
           r.kind # "create" => r.user \in Users,
           UNCHANGED <<backend, acked>>
    PROVE  Backed'
<1>1. calls < MaxCalls /\ calls' = calls + 1 /\ db' = db /\ raced' = raced
  BY DEF Call, backend
<1>2. acked' \in Versions /\ \A u \in Users : acked'[u] <= db[u].n
  BY DEF Backed, Known
<1>. QED  BY <1>1, <1>2, RequestBacked

\* The calls of the two administrators, and the answers to those of the page.
LEMMA QuietTyped ==
    ASSUME Backed, Paged, NEW c \in Requests, Quiet(c)
    PROVE  Backed' /\ Paged'
<1>. USE DEF pageVars, dialogs
<1>1. /\ Blank \in Form /\ Users \subseteq 0..MaxUsers
      /\ Event => events' \in 0..MaxEvents
      /\ page \in Pages /\ editing \in 0..MaxUsers /\ (editing # NoUser => editing \in Users)
  BY UsersAssumption DEF Blank, Form, Roles, Users, Event, Paged, NoUser
<1>2. CASE OtherAdmin(c)
  <2>1. PICK kind \in {"update", "delete"}, u \in Users, f \in Form :
          req' = [req EXCEPT ![c] = [NoRequest EXCEPT !.by = Other, !.form = f, !.kind = kind,
                                                      !.st = "sent", !.user = u]]
    BY <1>2 DEF OtherAdmin
  <2>. DEFINE r == [NoRequest EXCEPT !.by = Other, !.form = f, !.kind = kind, !.st = "sent", !.user = u]
  <2>2. r \in Request /\ r.st = "sent" /\ r.user = u
    BY <1>1, Requested DEF Request, Other, NoRequest
  <2>3. Call(c) /\ Event /\ UNCHANGED <<backend, pageVars>> /\ req' = [req EXCEPT ![c] = r]
    BY <1>2, <2>1 DEF OtherAdmin
  <2>. HIDE DEF r
  <2>4. Backed'
    BY <2>2, <2>3, MadeBacked
  <2>. QED  BY <1>1, <2>3, <2>4 DEF Paged, Loads
<1>3. ASSUME NEW kind \in {"create", "update", "delete"}, NEW u \in 0..MaxUsers, NEW f \in Form,
             kind # "create" => u \in Users, Send(c, kind, u, f)
      PROVE  Backed' /\ Paged'
  <2>. DEFINE r == [NoRequest EXCEPT !.form = f, !.kind = kind, !.page = page, !.st = "sent", !.user = u]
  <2>1. r \in Request /\ r.st = "sent" /\ r.user = u /\ r.kind = kind
    BY <1>1, Requested DEF Request, NoRequest
  <2>2. Call(c) /\ UNCHANGED <<backend, acked>> /\ req' = [req EXCEPT ![c] = r]
    BY <1>3 DEF Send
  <2>. HIDE DEF r
  <2>3. Backed'
    BY <1>3, <2>1, <2>2, MadeBacked
  <2>. QED  BY <1>3, <2>3 DEF Send, Paged, Loads
<1>4. CASE handleCreate(c)
  <2>1. PICK f \in NewForm : Send(c, "create", NoUser, f)
    BY <1>4 DEF handleCreate
  <2>2. f \in Form
    BY DEF NewForm, Form
  <2>3. NoUser \in 0..MaxUsers
    BY UsersAssumption DEF NoUser
  <2>. QED  BY <1>3, <2>1, <2>2, <2>3
<1>5. CASE handleUpdate(c)
  <2>1. PICK f \in Form : Send(c, "update", editing, f)
    BY <1>5 DEF handleUpdate
  <2>2. editing \in Users
    BY <1>1, <1>5 DEF handleUpdate
  <2>. QED  BY <1>1, <1>3, <2>1, <2>2
<1>6. ASSUME NEW u \in Users, handleDelete(c, u) PROVE Backed' /\ Paged'
  <2>1. Send(c, "delete", u, Blank) /\ u \in 0..MaxUsers
    BY <1>1, <1>6 DEF handleDelete
  <2>. QED  BY <1>1, <1>3, <2>1
<1>7. CASE CallArrives(c) \/ CallFails(c)
  <2>1. /\ req' = [req EXCEPT ![c] = NoRequest]
        /\ NoRequest \in Request /\ NoRequest.st = "idle"
        /\ db' = db /\ raced' = raced /\ calls' = calls
    BY <1>7, Requested DEF CallArrives, CallFails, backend
  <2>2. CASE CallFails(c)
    <3>1. acked' \in Versions /\ \A u \in Users : acked'[u] <= db[u].n
      BY <2>2 DEF CallFails, Backed, Known
    <3>2. Backed'
      BY <2>1, <3>1, RequestBacked
    <3>. QED  BY <2>2, <3>2 DEF CallFails, Paged, Loads
  <2>3. CASE CallArrives(c)
    <3>1. /\ req[c] \in Request /\ Waits(req[c]) /\ req[c].user \in Users
          /\ req[c].n <= db[req[c].user].n
      BY <2>3 DEF CallArrives, Backed, Written
    <3>2. req[c].page \in Pages /\ req[c].n \in 0..Gone
      BY <3>1 DEF Request, Waits
    <3>3. acked' = [acked EXCEPT ![req[c].user] = req[c].n] /\ Fetches(<<req[c].page>>) /\ Closes(req[c].kind)
      BY <2>3 DEF CallArrives, Answers
    <3>4. acked' \in Versions /\ \A u \in Users : acked'[u] <= db[u].n
      BY <3>1, <3>2, <3>3 DEF Backed, Known, Versions
    <3>5. Backed'
      BY <2>1, <3>4, RequestBacked
    <3>6. <<req[c].page>> \in Seq(Pages)
      BY <3>2
    <3>7. Loads' /\ loading' = TRUE /\ error' = FALSE
      BY <3>3, <3>6, FetchesStep DEF Paged
    <3>8. /\ createOpen' \in BOOLEAN /\ editing' \in 0..MaxUsers
          /\ ~(createOpen' /\ editing' # NoUser)
      BY <3>3, UsersAssumption DEF Closes, Paged, NoUser
    <3>. QED  BY <2>3, <3>5, <3>7, <3>8 DEF CallArrives, Paged
  <2>. QED  BY <1>7, <2>2, <2>3
<1>. QED  BY <1>2, <1>4, <1>5, <1>6, <1>7 DEF Quiet

\* A check, of a call that is under way before and may be after.
LEMMA CheckTyped ==
    ASSUME Backed, Paged, NEW c \in Requests, Check(c)
    PROVE  Backed' /\ Paged'
<1>1. /\ req[c] \in Request /\ req[c].st = "sent" /\ c \in Busy
      /\ req[c].kind # "create" => req[c].user \in Users
  BY DEF Backed, Targeted, Check, Busy
<1>2. /\ db' = db /\ raced' = raced /\ calls' = calls /\ UNCHANGED pageVars
      /\ events' \in 0..MaxEvents
  BY UsersAssumption DEF Check, backend, Event, Paged
<1>3. acked' \in Versions /\ \A u \in Users : acked'[u] <= db[u].n
  BY <1>2 DEF pageVars, Backed, Known
<1>4. CASE /\ Allowed(req[c])
           /\ req' = [req EXCEPT ![c].st = "checked", ![c].old = Loaded(req[c])]
  <2>1. Loaded(req[c]) \in Form
    BY <1>1, <1>4 DEF Backed, User, Loaded, Allowed, UpdateAllowed, Exists, Form, Blank, Roles, NoRole
  <2>. DEFINE r == [req[c] EXCEPT !.st = "checked", !.old = Loaded(req[c])]
  <2>2. r \in Request /\ r.st = "checked" /\ r.kind = req[c].kind /\ r.user = req[c].user
    BY <1>1, <2>1 DEF Request
  <2>3. req' = [req EXCEPT ![c] = r]
    BY <1>4 DEF Backed
  <2>. HIDE DEF r
  <2>. QED  BY <1>1, <1>2, <1>3, <2>2, <2>3, RequestBacked DEF Paged, Loads, pageVars, dialogs
<1>5. CASE req' = [req EXCEPT ![c] = Failed(@)]
  <2>. DEFINE r == Failed(req[c])
  <2>1. r \in Request /\ r.st \in {"idle", "failed"} /\ req' = [req EXCEPT ![c] = r]
    BY <1>1, <1>5, Requested DEF Backed
  <2>. HIDE DEF r
  <2>. QED  BY <1>1, <1>2, <1>3, <2>1, RequestBacked DEF Paged, Loads, pageVars, dialogs
<1>. QED  BY <1>4, <1>5 DEF Check

\* Each of the three writes is of a row that is no older than the one it replaces.
LEMMA WritesTyped ==
    ASSUME Backed, Paged, NEW c \in Requests, CreateCommit(c) \/ UpdateCommit(c) \/ DeleteCommit(c)
    PROVE  Backed' /\ Paged'
<1>1. /\ req[c] \in Request /\ req[c].st = "checked" /\ c \in Busy
      /\ req[c].kind # "create" => req[c].user \in Users
  BY DEF Backed, Targeted, CreateCommit, UpdateCommit, DeleteCommit, Busy
<1>2. Gone = MaxCalls + 2 /\ MaxCalls \in Nat /\ calls \in 0..MaxCalls
  BY UsersAssumption DEF Gone, Backed
<1>3. CASE CreateCommit(c)
  <2>. DEFINE row == [active |-> req[c].form.active, n |-> 1, role |-> req[c].form.role]
  <2>1. PICK u \in Users : db[u].n = 0 /\ Commits(c, u, row)
    BY <1>3 DEF CreateCommit
  <2>2. row \in User /\ row.n = 1
    BY <1>1, <1>2 DEF Request, Form, User
  <2>. HIDE DEF row
  <2>. QED  BY <1>1, <1>2, <2>1, <2>2, CommitBacked
<1>4. CASE DeleteCommit(c)
  <2>. DEFINE row == [Unborn EXCEPT !.n = Gone]
  <2>1. Commits(c, req[c].user, row) /\ req[c].user \in Users
    BY <1>1, <1>4 DEF DeleteCommit
  <2>2. row \in User /\ row.n = Gone /\ row.role = NoRole
    <3>1. Gone \in 0..Gone
      BY <1>2
    <3>2. row \in User
      BY <3>1 DEF Unborn, User
    <3>3. row.n = Gone /\ row.role = NoRole
      BY DEF Unborn
    <3>. QED  BY <3>2, <3>3
  <2>3. db[req[c].user].n \in 0..Gone
    BY <2>1 DEF Backed, User
  <2>. HIDE DEF row
  <2>. QED  BY <1>1, <1>2, <2>1, <2>2, <2>3, CommitBacked
<1>5. CASE UpdateCommit(c) /\ Exists(req[c].user)
  <2>. DEFINE u == req[c].user
              row == Updated(req[c])
  <2>1. Commits(c, u, row) /\ u \in Users /\ db[u] \in User
    BY <1>1, <1>5 DEF UpdateCommit, Backed, Exists
  <2>2. db[u].n \in 0..Gone /\ db[u].n \notin {0, Gone} /\ db[u].role # NoRole
    BY <1>5, <2>1 DEF Backed, Aged, User, Exists
  <2>3. db[u].n + Cardinality(Busy) <= calls + 1
    BY <2>1, <2>2 DEF Backed, Counted
  <2>4. Cardinality(Busy) \in Nat /\ Cardinality(Busy) # 0
    BY <1>1, FS_CardinalityType, FS_EmptySet DEF Backed, Counted
  <2>5. db[u].n + 1 \in 1..(Gone - 1)
    BY <1>2, <2>2, <2>3, <2>4
  <2>6. row.n = db[u].n + 1 /\ row \in User
    <3>1. req[c].form \in Form /\ row.n = db[u].n + 1
      BY <1>1 DEF Request, Updated
    <3>2. row.active \in BOOLEAN /\ row.role \in Roles \cup {NoRole}
      BY <2>1, <3>1 DEF Updated, Form, User
    <3>3. row = [active |-> row.active, n |-> db[u].n + 1, role |-> row.role]
      BY DEF Updated
    <3>4. db[u].n + 1 \in 0..Gone
      BY <1>2, <2>5
    <3>. QED  BY <3>1, <3>2, <3>3, <3>4 DEF User
  <2>. HIDE DEF row
  <2>. QED  BY <1>1, <1>2, <2>1, <2>2, <2>5, <2>6, CommitBacked
<1>6. CASE UpdateCommit(c) /\ ~Exists(req[c].user)
  <2>. DEFINE r == Failed(req[c])
  <2>1. req' = [req EXCEPT ![c] = r] /\ UNCHANGED <<backend, calls, events, pageVars>>
    BY <1>6 DEF UpdateCommit, Backed
  <2>2. r \in Request /\ r.st \in {"idle", "failed"}
    BY <1>1, Requested
  <2>3. acked' \in Versions /\ \A u \in Users : acked'[u] <= db[u].n
    BY <2>1 DEF pageVars, Backed, Known
  <2>. HIDE DEF r
  <2>. QED  BY <1>1, <2>1, <2>2, <2>3, RequestBacked DEF Paged, Loads, backend, pageVars, dialogs
<1>. QED  BY <1>3, <1>4, <1>5, <1>6

\* Leaving the page forgets what was answered, and keeps what is under way.
LEMMA LeaveTyped ==
    ASSUME Backed, Paged, LeavePage
    PROVE  Backed' /\ Paged'
<1>1. /\ req' = [c \in Requests |-> IF req[c].st \in {"sent", "checked"}
                                      THEN [req[c] EXCEPT !.page = 0] ELSE NoRequest]
      /\ db' = db /\ raced' = raced /\ calls' = calls
  BY DEF LeavePage, backend
<1>2. ASSUME NEW c \in Requests
      PROVE  /\ req'[c] \in Request /\ req'[c].st # "ok"
             /\ req'[c].st \in {"sent", "checked"} =>
                  req'[c].st = req[c].st /\ req'[c].kind = req[c].kind /\ req'[c].user = req[c].user
             /\ req[c].st \in {"sent", "checked"} => req'[c].st = req[c].st
  <2>1. req[c] \in Request
    BY DEF Backed
  <2>2. CASE req[c].st \in {"sent", "checked"}
    BY <1>1, <2>1, <2>2 DEF Request
  <2>3. CASE req[c].st \notin {"sent", "checked"}
    BY <1>1, <2>3, Requested
  <2>. QED  BY <2>2, <2>3
<1>3. Busy' = Busy
  BY <1>2 DEF Busy
<1>4. Nobody \in Versions /\ \A u \in Users : Nobody[u] = 0 /\ db[u].n \in Nat
  BY UsersAssumption DEF Nobody, Versions, Gone, Backed, User
<1>5. acked' \in Versions /\ Known'
  BY <1>1, <1>4 DEF LeavePage, Known
<1>6. req' \in [Requests -> Request] /\ Written'
  BY <1>1, <1>2 DEF Written
<1>7. Counted' /\ Aged' /\ Targeted'
  <2>1. Counted'
    <3>1. Counted /\ db' = db /\ calls' = calls
      BY <1>1 DEF Backed
    <3>. QED  BY <1>3, <3>1 DEF Counted
  <2>2. Aged'
    <3>1. Aged /\ db' = db
      BY <1>1 DEF Backed
    <3>. QED  BY <3>1 DEF Aged, Exists
  <2>3. Targeted'
    <3>1. Targeted
      BY DEF Backed
    <3>2. ASSUME NEW c \in Busy, req'[c].kind # "create" PROVE req'[c].user \in Users
      BY <1>2, <3>1, <3>2 DEF Targeted, Busy
    <3>. QED  BY <1>3, <3>2 DEF Targeted
  <2>. QED  BY <2>1, <2>2, <2>3
<1>8. Paged'
  <2>1. 1 \in Pages /\ events' \in 0..MaxEvents
    BY PagesAreEnough, UsersAssumption DEF LeavePage, Event, Paged
  <2>2. NoList \in [page : Pages, rows : Versions] /\ NoUser \in 0..MaxUsers
    BY <1>4, <2>1, UsersAssumption DEF NoList, NoUser
  <2>3. Loads'
    BY UsersAssumption DEF LeavePage, Loads
  <2>. QED  BY <2>1, <2>2, <2>3 DEF LeavePage, Paged
<1>. QED  BY <1>1, <1>5, <1>6, <1>7, <1>8 DEF Backed

\* What the page does by itself leaves rows and requests as they are.
LEMMA CalmBacked ==
    ASSUME Backed, Calm
    PROVE  Backed'
<1>1. db' = db /\ raced' = raced /\ req' = req /\ calls' = calls /\ acked' = acked
  BY DEF Calm, UsersPage, Reload, handleSearch, PrevPage, NextPage, GoTo, OpenCreate, CancelCreate,
         CancelEdit, openEdit, DialogChanges, FetchServed, FetchArrives, FetchFails, vars, backend,
         pageVars
<1>. QED  BY <1>1 DEF Backed, Counted, Aged, Exists, Targeted, Written, Known, Busy, Waits, Gone

\* Rows, requests and page keep their types, and the counts that they rest on.
THEOREM Typing == Spec => [](Backed /\ Paged)
<1>1. Init => Backed /\ Paged
  <2>. SUFFICES ASSUME Init PROVE Backed /\ Paged
    OBVIOUS
  <2>1. Founder \in User /\ Founder.n = 1 /\ Unborn \in User /\ Unborn.n = 0 /\ Unborn.role = NoRole
    BY UsersAssumption DEF Founder, Unborn, User, Roles, Gone
  <2>2. Nobody \in Versions /\ \A u \in Users : Nobody[u] = 0
    BY UsersAssumption DEF Nobody, Versions, Gone
  <2>3. Busy = {} /\ req \in [Requests -> Request] /\ \A c \in Requests : req[c] = NoRequest
    BY Requested DEF Init, Busy
  <2>4. db \in [Users -> User] /\ \A u \in Users : db[u] = Founder \/ db[u] = Unborn
    BY <2>1 DEF Init
  <2>5. Counted /\ Aged
    BY <2>1, <2>3, <2>4, FS_EmptySet, UsersAssumption DEF Init, Counted, Aged, Exists, Gone
  <2>6. Targeted /\ Written /\ Known
    BY <2>1, <2>2, <2>3, <2>4, Requested DEF Init, Targeted, Written, Known
  <2>7. Backed
    <3>1. db \in [Users -> User]
      BY <2>1, <2>4 DEF Init
    <3>2. raced \in BOOLEAN /\ acked \in Versions
      BY <2>2 DEF Init
    <3>3. calls \in 0..MaxCalls
      BY UsersAssumption DEF Init
    <3>. QED  BY <2>3, <2>5, <2>6, <3>1, <3>2, <3>3 DEF Backed
  <2>8. NoList \in [page : Pages, rows : Versions] /\ NoUser \in 0..MaxUsers /\ 1 \in Pages
    BY <2>2, PagesAreEnough, UsersAssumption DEF NoList, NoUser
  <2>9. Loads
    BY UsersAssumption DEF Init, Loads
  <2>10. events \in 0..MaxEvents /\ storedRole \in Roles
    BY UsersAssumption DEF Init, Roles
  <2>. QED  BY <2>7, <2>8, <2>9, <2>10 DEF Init, Paged
<1>2. Backed /\ Paged /\ [Next]_vars => (Backed /\ Paged)'
  <2>. SUFFICES ASSUME Backed, Paged, [Next]_vars PROVE Backed' /\ Paged'
    OBVIOUS
  <2>1. CASE Calm
    BY <2>1, CalmPaged, CalmBacked
  <2>2. CASE LeavePage
    BY <2>2, LeaveTyped
  <2>3. ASSUME NEW c \in Requests, Quiet(c) PROVE Backed' /\ Paged'
    BY <2>3, QuietTyped
  <2>4. ASSUME NEW c \in Requests, Check(c) PROVE Backed' /\ Paged'
    BY <2>4, CheckTyped
  <2>5. ASSUME NEW c \in Requests, CreateCommit(c) \/ UpdateCommit(c) \/ DeleteCommit(c)
        PROVE  Backed' /\ Paged'
    BY <2>5, WritesTyped
  <2>. QED  BY <2>1, <2>2, <2>3, <2>4, <2>5 DEF Next, Calm, Quiet
<1>. QED  BY <1>1, <1>2, PTL DEF Spec

\* Every variable keeps its type, however many users, requests, calls and disturbances.
THEOREM TypeCorrect == Spec => []TypeOK
<1>1. Backed /\ Paged => TypeOK
  BY DEF Backed, Paged, Loads, TypeOK
<1>. QED  BY <1>1, Typing, PTL

-------------------------------------------------------------------------------
(***************************************************************************)
(* What the page shows.  The list can be old only while something is about *)
(* to replace it, after an error, or because an overtaken answer came in   *)
(* last; which loads are overtaken follows from their order.               *)
(***************************************************************************)

Fresh(rows) == \A u \in Users : rows[u] >= acked[u]

\* A call is under way that the page waits for, or something failed that it told its user.
Excused == ~onPage \/ error \/ \E c \in Requests : Waits(req[c])

\* The load that was started last is still under way, and no later one has been shown.
Latest == fetches # <<>> /\ ~fetches[Len(fetches)].overtaken

\* Whatever was started before an overtaken load is overtaken.
Behind ==
    \A i, j \in 1..Len(fetches) : i < j /\ fetches[j].overtaken => fetches[i].overtaken

Told ==
    ~Excused =>
        IF Latest
          THEN fetches[Len(fetches)].st = "served" => Fresh(fetches[Len(fetches)].rows)
          ELSE crossed \/ Fresh(list.rows)

\* A call that is not under way is not waited for.
Still == \A c \in Requests : req[c].st = "idle" => ~Waits(req[c])

Shows == Behind /\ Told /\ Still

\* Steps that leave loads and list alone, and whoever is excused is so after them.
LEMMA SameShows ==
    ASSUME Shows, Still', UNCHANGED <<fetches, list, crossed, acked>>, Excused => Excused'
    PROVE  Shows'
BY DEF Shows, Behind, Told, Latest, Fresh

\* Steps that start loads, the last of which has read nothing yet.
LEMMA FetchesShow ==
    ASSUME Shows, Still', Paged, NEW ps \in Seq(Pages), Len(ps) \in {1, 2}, Fetches(ps)
    PROVE  Shows'
<1>1. /\ Len(fetches') = Len(fetches) + Len(ps)
      /\ \A i \in 1..Len(fetches) : fetches'[i] = fetches[i]
      /\ \A i \in 1..Len(ps) : /\ fetches'[Len(fetches) + i].st = "sent"
                               /\ ~fetches'[Len(fetches) + i].overtaken
  BY FetchesStep DEF Paged
<1>. DEFINE n == Len(fetches)
            m == Len(ps)
<1>5. n \in Nat /\ m \in Nat \ {0}
  <2>1. fetches \in Seq(Fetch)
    BY DEF Paged, Loads
  <2>2. Len(fetches) \in Nat
    BY <2>1
  <2>3. Len(ps) \in Nat \ {0}
    OBVIOUS
  <2>. QED  BY <2>2, <2>3
<1>. HIDE DEF n, m
<1>6. /\ Len(fetches') = n + m
      /\ \A i \in 1..n : fetches'[i] = fetches[i]
      /\ \A i \in 1..m : fetches'[n + i].st = "sent" /\ ~fetches'[n + i].overtaken
  BY <1>1 DEF n, m
<1>2. /\ fetches'[n + m].st = "sent" /\ ~fetches'[n + m].overtaken /\ Len(fetches') = n + m
      /\ n + m \in Nat \ {0}
  BY <1>5, <1>6
<1>3. ASSUME NEW i \in 1..(n + m), NEW j \in 1..(n + m), i < j, fetches'[j].overtaken
      PROVE  fetches'[i].overtaken
  <2>1. CASE j <= n
    <3>1. i \in 1..n /\ j \in 1..n
      BY <1>3, <1>5, <2>1
    <3>. QED  BY <1>3, <1>6, <3>1 DEF Shows, Behind, n
  <2>2. CASE j > n
    <3>1. j - n \in 1..m /\ n + (j - n) = j
      BY <1>3, <1>5, <2>2
    <3>. QED  BY <1>3, <1>6, <3>1
  <2>. QED  BY <1>3, <1>5, <2>1, <2>2
<1>4. Latest' /\ fetches'[Len(fetches')].st # "served"
  <2>1. fetches' # <<>>
    BY <1>2
  <2>. QED  BY <1>2, <2>1 DEF Latest
<1>. QED  BY <1>2, <1>3, <1>4 DEF Shows, Behind, Told

\* A list that is read by now has every write that was acknowledged.
LEMMA ServedShows ==
    ASSUME Backed, Paged, Shows, NEW i \in 1..MaxFetches, FetchServed(i)
    PROVE  Shows'
<1>1. /\ fetches \in Seq(Fetch) /\ i \in 1..Len(fetches)
      /\ UNCHANGED <<req, onPage, error, list, crossed, acked>>
      /\ fetches' = [fetches EXCEPT ![i].st = "served", ![i].rows = [u \in Users |-> db[u].n]]
  <2>1. Loads /\ i \in DOMAIN fetches
    BY DEF FetchServed, Paged
  <2>2. fetches \in Seq(Fetch) /\ i \in 1..Len(fetches)
    BY <2>1 DEF Loads
  <2>. QED  BY <2>2 DEF FetchServed
<1>2. \A j \in 1..Len(fetches) : fetches[j] \in Fetch
  BY <1>1
<1>3. /\ Len(fetches') = Len(fetches) /\ Len(fetches) \in Nat
      /\ \A j \in 1..Len(fetches) : j # i => fetches'[j] = fetches[j]
  BY <1>1
<1>4. fetches'[i].rows = [u \in Users |-> db[u].n] /\ fetches'[i].overtaken = fetches[i].overtaken
  BY <1>1, <1>2 DEF Fetch
<1>5. \A j \in 1..Len(fetches) : fetches'[j].overtaken = fetches[j].overtaken
  BY <1>3, <1>4
<1>6. Behind'
  BY <1>3, <1>5 DEF Shows, Behind
<1>7. Still' /\ (Excused' <=> Excused)
  BY <1>1 DEF Shows, Still, Excused, Waits
<1>8. Latest' <=> Latest
  BY <1>1, <1>3, <1>5 DEF Latest
<1>9. \A u \in Users : db[u].n \in Nat /\ acked[u] \in Nat /\ db[u].n >= acked[u]
  BY DEF Backed, Known, User, Versions
<1>10. ASSUME ~Excused, Latest, fetches'[Len(fetches)].st = "served"
       PROVE  \A u \in Users : fetches'[Len(fetches)].rows[u] >= acked[u]
  <2>1. CASE i = Len(fetches)
    BY <1>4, <1>9, <2>1
  <2>2. CASE i # Len(fetches)
    <3>1. fetches'[Len(fetches)] = fetches[Len(fetches)]
      BY <1>1, <1>3, <2>2
    <3>. QED  BY <1>10, <3>1 DEF Shows, Told, Fresh
  <2>. QED  BY <2>1, <2>2
<1>11. Told'
  BY <1>1, <1>3, <1>7, <1>8, <1>10 DEF Shows, Told, Fresh
<1>. QED  BY <1>6, <1>7, <1>11 DEF Shows

\* The answer to the latest load is shown as it is; any other leaves the latest to come, or
\* is marked as overtaken.
LEMMA ArrivalShows ==
    ASSUME Backed, Paged, Shows, NEW i \in 1..MaxFetches, FetchArrives(i)
    PROVE  Shows'
<1>. DEFINE n == Len(fetches)
            back(j) == IF j < i THEN j ELSE j + 1
<1>1. /\ Loads /\ i \in DOMAIN fetches /\ fetches[i].st = "served"
      /\ list' = [page |-> fetches[i].page, rows |-> fetches[i].rows]
      /\ crossed' = fetches[i].overtaken
      /\ fetches' = [j \in 1..(n - 1) |-> [Without(i)[j] EXCEPT !.overtaken = @ \/ j < i]]
      /\ UNCHANGED <<req, onPage, error, acked>>
  BY DEF FetchArrives, Paged
<1>2. i \in 1..n /\ n \in Nat \ {0} /\ n - 1 \in Nat
  BY <1>1 DEF Loads
<1>3. /\ Len(fetches') = n - 1
      /\ \A j \in 1..(n - 1) : /\ back(j) \in 1..n
                               /\ fetches'[j].overtaken = (fetches[back(j)].overtaken \/ j < i)
                               /\ fetches'[j].st = fetches[back(j)].st
                               /\ fetches'[j].rows = fetches[back(j)].rows
  BY <1>1, ArrivalLeaves
<1>8. Len(fetches') = 0 => fetches' = <<>>
  <2>1. fetches' \in Seq(Fetch)
    BY <1>1, ArrivalLeaves DEF Loads
  <2>. QED  BY <2>1, EmptySeq
<1>4. Behind'
  <2>1. ASSUME NEW j \in 1..(n - 1), NEW k \in 1..(n - 1), j < k, fetches'[k].overtaken
        PROVE  fetches'[j].overtaken
    <3>1. CASE j < i
      BY <1>3, <2>1, <3>1
    <3>2. CASE ~(j < i)
      <4>1. ~(k < i) /\ back(j) < back(k)
        BY <1>2, <2>1, <3>2
      <4>2. fetches[back(k)].overtaken
        BY <1>3, <2>1, <4>1
      <4>3. fetches[back(j)].overtaken
        BY <1>2, <1>3, <4>1, <4>2 DEF Shows, Behind
      <4>. QED  BY <1>3, <4>3
    <3>. QED  BY <3>1, <3>2
  <2>. QED  BY <1>3, <2>1 DEF Behind
<1>5. Still' /\ (Excused' <=> Excused)
  BY <1>1 DEF Shows, Still, Excused, Waits
<1>6. ASSUME ~Excused
      PROVE  IF Latest' THEN fetches'[n - 1].st = "served" => Fresh(fetches'[n - 1].rows)
             ELSE crossed' \/ Fresh(list'.rows)
  <2>1. CASE Latest /\ i = n
    <3>1. Fresh(list'.rows)
      BY <1>1, <1>6, <2>1 DEF Shows, Told
    <3>2. ~Latest'
      <4>1. CASE n - 1 = 0
        BY <1>3, <1>8, <4>1 DEF Latest
      <4>2. CASE n - 1 # 0
        <5>1. n - 1 \in 1..(n - 1) /\ n - 1 < i
          BY <1>2, <2>1, <4>2
        <5>. QED  BY <1>3, <5>1 DEF Latest
      <4>. QED  BY <4>1, <4>2
    <3>. QED  BY <3>1, <3>2
  <2>2. CASE Latest /\ i # n
    <3>1. n - 1 \in 1..(n - 1) /\ ~(n - 1 < i) /\ back(n - 1) = n
      BY <1>2, <2>2
    <3>2. fetches' # <<>>
      BY <1>3, <3>1
    <3>3. Latest' /\ fetches'[n - 1].st = fetches[n].st /\ fetches'[n - 1].rows = fetches[n].rows
      BY <1>3, <2>2, <3>1, <3>2 DEF Latest
    <3>. QED  BY <1>6, <2>2, <3>3 DEF Shows, Told
  <2>3. CASE ~Latest
    <3>1. fetches # <<>>
      BY <1>1
    <3>2. fetches[n].overtaken
      BY <2>3, <3>1 DEF Latest
    <3>3. fetches[i].overtaken
      BY <1>2, <3>2 DEF Shows, Behind
    <3>4. ~Latest'
      <4>1. CASE n - 1 = 0
        BY <1>3, <1>8, <4>1 DEF Latest
      <4>2. CASE n - 1 # 0
        <5>1. n - 1 \in 1..(n - 1) /\ back(n - 1) \in 1..n
          BY <1>2, <4>2
        <5>2. fetches[back(n - 1)].overtaken \/ n - 1 < i
          BY <1>2, <3>2, <5>1
        <5>. QED  BY <1>3, <5>1, <5>2 DEF Latest
      <4>. QED  BY <4>1, <4>2
    <3>. QED  BY <1>1, <3>3, <3>4
  <2>. QED  BY <2>1, <2>2, <2>3
<1>7. Told'
  BY <1>1, <1>3, <1>5, <1>6 DEF Told, Fresh
<1>. QED  BY <1>4, <1>5, <1>7 DEF Shows

\* A load that fails says so.
LEMMA FailureShows ==
    ASSUME Paged, Shows, NEW i \in 1..MaxFetches, FetchFails(i)
    PROVE  Shows'
<1>. DEFINE n == Len(fetches)
            back(j) == IF j < i THEN j ELSE j + 1
<1>1. /\ Loads /\ i \in DOMAIN fetches /\ fetches' = Without(i)
      /\ error' /\ req' = req
  BY DEF FetchFails, Paged
<1>2. fetches \in Seq(Fetch) /\ i \in 1..n /\ n \in Nat /\ n - 1 \in Nat
  BY <1>1, WithoutOne DEF Loads
<1>3. /\ Len(fetches') = n - 1
      /\ \A j \in 1..(n - 1) : fetches'[j] = fetches[back(j)] /\ back(j) \in 1..n
  <2>1. /\ Len(Without(i)) = n - 1
        /\ \A j \in 1..(n - 1) : Without(i)[j] = IF j < i THEN fetches[j] ELSE fetches[j + 1]
    BY <1>1, WithoutOne
  <2>2. \A j \in 1..(n - 1) : back(j) \in 1..n
    BY <1>2
  <2>. QED  BY <1>1, <2>1, <2>2
<1>4. Behind'
  <2>1. ASSUME NEW j \in 1..(n - 1), NEW k \in 1..(n - 1), j < k, fetches'[k].overtaken
        PROVE  fetches'[j].overtaken
    <3>1. back(j) < back(k)
      BY <1>2, <2>1
    <3>. QED  BY <1>3, <2>1, <3>1 DEF Shows, Behind
  <2>. QED  BY <1>3, <2>1 DEF Behind
<1>5. Still'
  BY <1>1 DEF Shows, Still, Waits
<1>. QED  BY <1>1, <1>4, <1>5 DEF Shows, Told, Excused

\* The rest of what the page does by itself.
LEMMA CalmShows ==
    ASSUME Backed, Paged, Shows, Calm
    PROVE  Shows'
<1>. USE DEF pageVars, dialogs
<1>1. 1 \in Pages /\ \A s \in Pages : /\ <<s>> \in Seq(Pages) /\ Len(<<s>>) = 1
                                      /\ <<s, 1>> \in Seq(Pages) /\ Len(<<s, 1>>) = 2
  BY PagesAreEnough
<1>2. req' = req
  BY DEF Calm, UsersPage, Reload, handleSearch, PrevPage, NextPage, GoTo, OpenCreate, CancelCreate,
         CancelEdit, openEdit, DialogChanges, FetchServed, FetchArrives, FetchFails, vars
<1>3. Still'
  BY <1>2 DEF Shows, Still, Waits
<1>4. CASE UsersPage
  <2>1. Fetches(<<1>>)
    BY <1>4 DEF UsersPage
  <2>. QED  BY <1>1, <1>3, <2>1, FetchesShow
<1>5. CASE handleSearch
  <2>. DEFINE ps == IF page = 1 THEN <<1>> ELSE <<page, 1>>
  <2>1. Fetches(ps) /\ page \in Pages
    BY <1>5 DEF handleSearch, Paged
  <2>2. ps \in Seq(Pages) /\ Len(ps) \in {1, 2}
    BY <1>1, <2>1
  <2>. HIDE DEF ps
  <2>. QED  BY <1>3, <2>1, <2>2, FetchesShow
<1>6. ASSUME NEW s \in Pages, GoTo(s) PROVE Shows'
  <2>1. Fetches(<<s>>)
    BY <1>6 DEF GoTo
  <2>. QED  BY <1>1, <1>3, <2>1, FetchesShow
<1>7. CASE PrevPage
  <2>1. page - 1 \in Pages /\ GoTo(page - 1)
    BY <1>7, PagesAreEnough DEF PrevPage, Paged
  <2>. QED  BY <1>6, <2>1
<1>8. CASE NextPage
  <2>1. page \in Nat \ {0} /\ page < totalPages /\ totalPages \in Nat
    BY <1>8, PagesAreEnough DEF NextPage, Paged
  <2>2. page + 1 \in Pages /\ GoTo(page + 1)
    BY <1>8, <2>1, PagesAreEnough DEF NextPage
  <2>. QED  BY <1>6, <2>2
<1>9. CASE Reload \/ OpenCreate \/ CancelCreate \/ CancelEdit \/ UNCHANGED vars \/ \E u \in Users : openEdit(u)
  <2>1. UNCHANGED <<fetches, list, crossed, acked, onPage, error>>
    BY <1>9 DEF Reload, OpenCreate, CancelCreate, CancelEdit, openEdit, DialogChanges, vars
  <2>2. Excused' <=> Excused
    BY <1>2, <2>1 DEF Excused, Waits
  <2>. QED  BY <1>3, <2>1, <2>2, SameShows
<1>10. CASE \E i \in 1..MaxFetches : FetchServed(i) \/ FetchArrives(i) \/ FetchFails(i)
  BY <1>10, ServedShows, ArrivalShows, FailureShows
<1>. QED  BY <1>4, <1>5, <1>7, <1>8, <1>9, <1>10 DEF Calm

\* A step of a request that leaves the page alone keeps it waiting as long as it did.
LEMMA WaitsStay ==
    ASSUME Backed, Shows, UNCHANGED pageVars,
           \A c \in Requests : /\ Waits(req[c]) => Waits(req'[c])
                               /\ req'[c].st = "idle" => ~Waits(req'[c])
    PROVE  Shows'
<1>1. UNCHANGED <<fetches, list, crossed, acked, onPage, error>>
  BY DEF pageVars
<1>2. Excused => Excused'
  BY <1>1 DEF Excused, Waits
<1>3. Still'
  BY DEF Still, Waits
<1>. QED  BY <1>1, <1>2, <1>3, SameShows

\* A call that has failed is waited for if it was.
LEMMA FailedWaits ==
    ASSUME NEW r \in Request
    PROVE  /\ Waits(Failed(r)) <=> Waits(r)
           /\ Failed(r).st = "idle" => ~Waits(Failed(r))
<1>1. CASE Waits(r)
  <2>1. Failed(r) = [NoRequest EXCEPT !.page = r.page, !.st = "failed"]
    BY <1>1 DEF Failed
  <2>2. Failed(r).page = r.page /\ Failed(r).st = "failed"
    BY <2>1 DEF NoRequest
  <2>. QED  BY <1>1, <2>2 DEF Waits
<1>2. CASE ~Waits(r)
  <2>1. Failed(r) = NoRequest
    BY <1>2 DEF Failed
  <2>. QED  BY <1>2, <2>1, Requested
<1>. QED  BY <1>1, <1>2

\* The handlers answer, and the other administrator's calls are nobody's.
LEMMA HandlersShow ==
    ASSUME Backed, Paged, Shows, NEW c \in Requests,
           Check(c) \/ CreateCommit(c) \/ UpdateCommit(c) \/ DeleteCommit(c) \/ OtherAdmin(c)
    PROVE  Shows'
<1>1. UNCHANGED pageVars
  BY DEF Check, CreateCommit, UpdateCommit, DeleteCommit, OtherAdmin, Commits
<1>2. req \in [Requests -> Request] /\ req[c] \in Request
  BY DEF Backed
<1>3. ASSUME NEW r, req' = [req EXCEPT ![c] = r],
             Waits(req[c]) => Waits(r), r.st = "idle" => ~Waits(r)
      PROVE  Shows'
  <2>1. req'[c] = r /\ \A d \in Requests : d # c => req'[d] = req[d]
    BY <1>2, <1>3
  <2>. QED  BY <1>1, <1>3, <2>1, WaitsStay DEF Shows, Still
<1>4. ASSUME req' = [req EXCEPT ![c] = Failed(@)] PROVE Shows'
  <2>1. req' = [req EXCEPT ![c] = Failed(req[c])]
    BY <1>2, <1>4
  <2>. QED  BY <1>2, <1>3, <2>1, FailedWaits
<1>5. ASSUME NEW u, NEW row, Commits(c, u, row) PROVE Shows'
  <2>1. PICK answer \in {Done(c, u, row), Failed(req[c])} :
          req' = [d \in Requests |->
                    IF d = c THEN answer ELSE [req[d] EXCEPT !.stale = @ \/ (req[d].st = "checked")]]
    BY <1>5 DEF Commits
  <2>2. /\ Waits(Done(c, u, row)) <=> Waits(req[c])
        /\ Done(c, u, row).st = "idle" => ~Waits(Done(c, u, row))
    <3>1. CASE Waits(req[c])
      <4>1. Done(c, u, row).page = req[c].page /\ Done(c, u, row).st = "ok"
        BY <3>1 DEF Done, NoRequest
      <4>. QED  BY <3>1, <4>1 DEF Waits
    <3>2. CASE ~Waits(req[c])
      <4>1. Done(c, u, row) = NoRequest
        BY <3>2 DEF Done
      <4>. QED  BY <3>2, <4>1, Requested
    <3>. QED  BY <3>1, <3>2
  <2>3. Waits(answer) <=> Waits(req[c])
    BY <1>2, <2>1, <2>2, FailedWaits
  <2>4. answer.st = "idle" => ~Waits(answer)
    BY <1>2, <2>1, <2>2, FailedWaits
  <2>5. ASSUME NEW d \in Requests, d # c PROVE req'[d].st = req[d].st /\ req'[d].page = req[d].page
    <3>1. req[d] \in Request /\ req'[d] = [req[d] EXCEPT !.stale = @ \/ (req[d].st = "checked")]
      BY <1>2, <2>1, <2>5
    <3>. QED  BY <3>1 DEF Request
  <2>6. ASSUME NEW d \in Requests
        PROVE  /\ Waits(req[d]) => Waits(req'[d])
               /\ req'[d].st = "idle" => ~Waits(req'[d])
    <3>1. CASE d = c
      <4>1. req'[d] = answer
        BY <2>1, <3>1
      <4>. QED  BY <2>3, <2>4, <3>1, <4>1
    <3>2. CASE d # c
      BY <2>5, <3>2 DEF Shows, Still, Waits
    <3>. QED  BY <3>1, <3>2
  <2>. QED  BY <1>1, <2>6, WaitsStay
<1>6. CASE Check(c)
  <2>1. CASE req' = [req EXCEPT ![c].st = "checked", ![c].old = Loaded(req[c])]
    <3>. DEFINE r == [req[c] EXCEPT !.st = "checked", !.old = Loaded(req[c])]
    <3>1. req' = [req EXCEPT ![c] = r]
      BY <1>2, <2>1
    <3>2. r.page = req[c].page /\ r.st = "checked"
      BY <1>2 DEF Request
    <3>. HIDE DEF r
    <3>. QED  BY <1>3, <3>1, <3>2 DEF Waits
  <2>. QED  BY <1>4, <1>6, <2>1 DEF Check
<1>7. CASE CreateCommit(c)
  BY <1>5, <1>7 DEF CreateCommit
<1>8. CASE UpdateCommit(c)
  BY <1>4, <1>5, <1>8 DEF UpdateCommit
<1>9. CASE DeleteCommit(c)
  BY <1>5, <1>9 DEF DeleteCommit
<1>10. CASE OtherAdmin(c)
  <2>1. PICK kind \in {"update", "delete"}, u \in Users, f \in Form :
          req' = [req EXCEPT ![c] = [NoRequest EXCEPT !.by = Other, !.form = f, !.kind = kind,
                                                      !.st = "sent", !.user = u]]
    BY <1>10 DEF OtherAdmin
  <2>. DEFINE r == [NoRequest EXCEPT !.by = Other, !.form = f, !.kind = kind, !.st = "sent", !.user = u]
  <2>2. r.st = "sent" /\ req' = [req EXCEPT ![c] = r]
    BY <2>1 DEF NoRequest
  <2>3. ~Waits(req[c])
    BY <1>10 DEF OtherAdmin, Call, Shows, Still
  <2>. HIDE DEF r
  <2>. QED  BY <1>3, <2>2, <2>3
<1>. QED  BY <1>6, <1>7, <1>8, <1>9, <1>10

\* A call that the page makes is one that it waits for; an answer starts a load, and an
\* error is shown.
LEMMA CallsShow ==
    ASSUME Backed, Paged, Shows, NEW c \in Requests,
           \/ handleCreate(c) \/ handleUpdate(c) \/ \E u \in Users : handleDelete(c, u)
           \/ CallArrives(c) \/ CallFails(c)
    PROVE  Shows'
<1>1. req \in [Requests -> Request]
  BY DEF Backed
<1>2. ASSUME NEW kind, NEW u, NEW f, Send(c, kind, u, f) PROVE Shows'
  <2>. DEFINE r == [NoRequest EXCEPT !.form = f, !.kind = kind, !.page = page, !.st = "sent", !.user = u]
  <2>1. req' = [req EXCEPT ![c] = r] /\ UNCHANGED <<fetches, list, crossed, acked>>
    BY <1>2 DEF Send
  <2>2. r.page = page /\ r.st = "sent"
    BY DEF NoRequest
  <2>3. page # 0
    BY PagesAreEnough DEF Paged
  <2>. HIDE DEF r
  <2>4. Excused'
    BY <1>1, <2>1, <2>2, <2>3 DEF Excused, Waits
  <2>5. Still'
    BY <1>1, <2>1, <2>2 DEF Shows, Still, Waits
  <2>. QED  BY <2>1, <2>4, <2>5, SameShows
<1>3. ASSUME req' = [req EXCEPT ![c] = NoRequest] PROVE Still'
  <2>1. req'[c] = NoRequest /\ \A d \in Requests : d # c => req'[d] = req[d]
    BY <1>1, <1>3
  <2>. QED  BY <2>1, Requested DEF Shows, Still, Waits
<1>4. CASE CallArrives(c)
  <2>1. Still' /\ Fetches(<<req[c].page>>)
    BY <1>3, <1>4 DEF CallArrives, Answers
  <2>2. req[c].page \in Pages
    <3>1. req[c] \in Request /\ Waits(req[c])
      BY <1>4 DEF CallArrives, Backed, Written
    <3>. QED  BY <3>1 DEF Request, Waits
  <2>3. <<req[c].page>> \in Seq(Pages) /\ Len(<<req[c].page>>) = 1
    BY <2>2
  <2>. QED  BY <2>1, <2>3, FetchesShow
<1>5. CASE CallFails(c)
  <2>1. Still' /\ UNCHANGED <<fetches, list, crossed, acked>> /\ error'
    BY <1>3, <1>5 DEF CallFails
  <2>. QED  BY <2>1, SameShows DEF Excused
<1>6. CASE handleCreate(c) \/ handleUpdate(c) \/ \E u \in Users : handleDelete(c, u)
  BY <1>2, <1>6 DEF handleCreate, handleUpdate, handleDelete
<1>. QED  BY <1>4, <1>5, <1>6

\* The invariant on which OwnWritesShown rests holds in every state.
THEOREM ShowsInvariance == Spec => []Shows
<1>1. Init => Shows
  <2>. SUFFICES ASSUME Init PROVE Shows
    OBVIOUS
  <2>1. Behind
    BY DEF Init, Behind
  <2>. QED  BY <2>1, Requested DEF Init, Shows, Told, Excused, Still
<1>2. Backed /\ Paged /\ Shows /\ [Next]_vars => Shows'
  <2>. SUFFICES ASSUME Backed, Paged, Shows, [Next]_vars PROVE Shows'
    OBVIOUS
  <2>1. CASE Calm
    BY <2>1, CalmShows
  <2>2. CASE LeavePage
    <3>1. ~onPage' /\ fetches' = <<>>
      BY <2>2 DEF LeavePage
    <3>2. \A c \in Requests : req'[c].st = "idle" => ~Waits(req'[c])
      <4>1. ASSUME NEW c \in Requests, req[c].st \in {"sent", "checked"} PROVE req'[c].st # "idle"
        <5>1. req[c] \in Request /\ req'[c] = [req[c] EXCEPT !.page = 0]
          BY <2>2, <4>1 DEF LeavePage, Backed
        <5>. QED  BY <4>1, <5>1 DEF Request
      <4>2. ASSUME NEW c \in Requests, req[c].st \notin {"sent", "checked"} PROVE req'[c] = NoRequest
        BY <2>2, <4>2 DEF LeavePage
      <4>. QED  BY <4>1, <4>2, Requested
    <3>3. Behind'
      BY <3>1 DEF Behind
    <3>. QED  BY <3>1, <3>2, <3>3 DEF Shows, Told, Excused, Still, Waits
  <2>3. ASSUME NEW c \in Requests, Quiet(c) PROVE Shows'
    BY <2>3, CallsShow, HandlersShow DEF Quiet
  <2>4. ASSUME NEW c \in Requests, Check(c) \/ CreateCommit(c) \/ UpdateCommit(c) \/ DeleteCommit(c)
        PROVE  Shows'
    BY <2>4, HandlersShow
  <2>. QED  BY <2>1, <2>2, <2>3, <2>4 DEF Next, Calm, Quiet
<1>. QED  BY <1>1, <1>2, Typing, PTL DEF Spec

\* The page shows its own writes, however many loads and calls cross each other: an update,
\* a creation or a deletion that was acknowledged is in the list as soon as the page is at rest.
THEOREM ShowsOwnWrites == Spec => []OwnWritesShown
<1>1. Shows => OwnWritesShown
  BY DEF Shows, Told, Latest, Excused, Fresh, OwnWritesShown
<1>. QED  BY <1>1, ShowsInvariance, PTL
===============================================================================
