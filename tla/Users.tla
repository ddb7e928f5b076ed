----------------------------------- MODULE Users -----------------------------------
(***************************************************************************)
(* The administration of users: the handlers of the API, which check and   *)
(* write in two steps with other requests between them, and the page of    *)
(* the web console, which keeps its list in its own state, without a       *)
(* cache, and loads it again after each of its calls.                      *)
(*                                                                         *)
(* Users are numbered as they are created; the page is user 1's, and user  *)
(* 2 is an administrator with a page of his own.  Whom a text that is      *)
(* searched for matches is left out: everyone does.  So are passwords and  *)
(* names, except that they may be refused; of the list, the page's copy    *)
(* keeps who is in it and by which write.                                  *)
(***************************************************************************)
EXTENDS Naturals, Sequences, FiniteSets

CONSTANTS
    MaxUsers,   \* bound: users there ever are
    PageSize,
    Requests,   \* calls that change users and may be under way together
    MaxCalls,   \* bound: calls that change users
    MaxFetches, \* bound: loads of the list under way together
    MaxEvents   \* bound: calls of the other administrator, calls that fail or whose answer
                \* is lost, searches, turns and leaves of the page, reloads

ASSUME UsersAssumption ==
    /\ MaxUsers \in Nat /\ MaxUsers >= 2 /\ PageSize \in Nat \ {0}
    /\ MaxCalls \in Nat /\ MaxFetches \in Nat \ {0} /\ MaxEvents \in Nat

VARIABLES
    db,
    req, calls,
    raced,      \* a request has written after another had written since its check
    events,
    storedRole, \* role of the user in the store of the console
    onPage,
    page, list, \* the number in the pager, and the answer that is shown
    loading, error,
    createOpen, editing,
    fetches,    \* loads under way, in the order in which they were started
    crossed,    \* what is shown was asked for before an answer that it replaced
    acked       \* of each user, the last own write that was acknowledged

backend == <<db, raced>>
dialogs == <<createOpen, editing>>
pageVars == <<storedRole, onPage, page, list, loading, error, dialogs, fetches, crossed, acked>>
vars == <<backend, req, calls, events, pageVars>>

Users == 1..MaxUsers
Pages == 1..((MaxUsers + PageSize - 1) \div PageSize)
NoUser == 0
Me == 1
Other == 2
Gone == MaxCalls + 2
Roles == {"admin", "viewer"}
NoRole == "none"  \* of a row that is not there, or not any longer
\* "n" counts the writes of the user, 0 before it is created.
User == [active: BOOLEAN, n: 0..Gone, role: Roles \cup {NoRole}]
Unborn == [active |-> FALSE, n |-> 0, role |-> NoRole]
Founder == [active |-> TRUE, n |-> 1, role |-> "admin"]
Versions == [Users -> 0..Gone]
Nobody == [u \in Users |-> 0]

Form == [active: BOOLEAN, role: Roles]
NewForm == [active: {TRUE}, role: Roles]  \* as the dialog proposes it, but for the role
Blank == [active |-> TRUE, role |-> "viewer"]

\* "page" is the number in the pager when the page made the call, 0 of a call whose
\* answer no page waits for; "old" is what an update has loaded.
Request == [by: {Me, Other}, form: Form, kind: {"create", "update", "delete"},
            n: 0..Gone, old: Form, page: {0} \cup Pages, st: {"idle", "sent", "checked", "ok", "failed"},
            stale: BOOLEAN, user: 0..MaxUsers]
NoRequest == [by |-> Me, form |-> Blank, kind |-> "create", n |-> 0, old |-> Blank,
              page |-> 0, st |-> "idle", stale |-> FALSE, user |-> NoUser]
Waits(r) == r.page # 0
Failed(r) == IF Waits(r) THEN [NoRequest EXCEPT !.page = r.page, !.st = "failed"] ELSE NoRequest

Fetch == [overtaken: BOOLEAN, page: Pages, rows: Versions, st: {"sent", "served"}]
NoList == [page |-> 1, rows |-> Nobody]

TypeOK ==
    /\ db \in [Users -> User] /\ raced \in BOOLEAN
    /\ req \in [Requests -> Request]
    /\ calls \in 0..MaxCalls /\ events \in 0..MaxEvents
    /\ storedRole \in Roles
    /\ onPage \in BOOLEAN /\ loading \in BOOLEAN /\ error \in BOOLEAN /\ crossed \in BOOLEAN
    /\ page \in Pages /\ list \in [page: Pages, rows: Versions]
    /\ createOpen \in BOOLEAN /\ editing \in 0..MaxUsers
    /\ ~(createOpen /\ editing # NoUser)
    /\ fetches \in Seq(Fetch) /\ Len(fetches) <= MaxFetches
    /\ acked \in Versions

Init ==
    /\ db = [u \in Users |-> IF u \in {Me, Other} THEN Founder ELSE Unborn]
    /\ raced = FALSE
    /\ req = [c \in Requests |-> NoRequest]
    /\ calls = 0 /\ events = 0
    /\ storedRole = "admin" /\ onPage = FALSE /\ page = 1 /\ list = NoList
    /\ loading = FALSE /\ error = FALSE
    /\ createOpen = FALSE /\ editing = NoUser
    /\ fetches = <<>> /\ crossed = FALSE
    /\ acked = Nobody

Call(c) == req[c].st = "idle" /\ calls < MaxCalls /\ calls' = calls + 1

Event == events < MaxEvents /\ events' = events + 1

-------------------------------------------------------------------------------
(***************************************************************************)
(* The handlers: a step up to the last read, and a step that writes and    *)
(* commits.                                                                *)
(***************************************************************************)

Exists(u) == u \in Users /\ db[u].role # NoRole
IsAdmin(u) == Exists(u) /\ db[u].role = "admin"
Authorized(u) == IsAdmin(u) /\ db[u].active

\* Slip: the last administrator counts as one that is left.
AnotherAdminOrSelf == Cardinality({u \in Users : IsAdmin(u)}) > 0

\* Whether it is active does not matter.
AnotherAdmin == Cardinality({u \in Users : IsAdmin(u)}) > 1

UpdateAllowed(r) ==
    /\ Exists(r.user)
    /\ (r.user = r.by /\ r.form.role # "admin") => AnotherAdmin
    /\ r.user = r.by => r.form.active

DeleteAllowed(r) ==
    /\ r.user # r.by
    /\ Exists(r.user)
    /\ IsAdmin(r.user) => AnotherAdmin

Allowed(r) ==
    /\ Authorized(r.by)
    /\ r.kind = "update" => UpdateAllowed(r)
    /\ r.kind = "delete" => DeleteAllowed(r)

Loaded(r) ==
    IF r.kind = "update" THEN [active |-> db[r.user].active, role |-> db[r.user].role] ELSE Blank

\* Where nothing else forbids it, a name that is taken or a password that is weak may.
Check(c) ==
    /\ req[c].st = "sent"
    /\ \/ /\ Allowed(req[c])
          /\ req' = [req EXCEPT ![c].st = "checked", ![c].old = Loaded(req[c])]
          /\ UNCHANGED events
       \/ /\ ~Allowed(req[c])
          /\ req' = [req EXCEPT ![c] = Failed(@)]
          /\ UNCHANGED events
       \/ /\ req[c].kind # "delete" /\ Event
          /\ req' = [req EXCEPT ![c] = Failed(@)]
    /\ UNCHANGED <<backend, calls, pageVars>>

\* The columns that differ from what was loaded are written.
Updated(r) ==
    [active |-> IF r.form.active = r.old.active THEN db[r.user].active ELSE r.form.active,
     role |-> IF r.form.role = r.old.role THEN db[r.user].role ELSE r.form.role,
     n |-> db[r.user].n + 1]

Done(c, u, row) ==
    IF Waits(req[c])
      THEN [NoRequest EXCEPT !.kind = req[c].kind, !.n = row.n, !.page = req[c].page, !.st = "ok", !.user = u]
      ELSE NoRequest

\* The commit of c makes the checks of the others stale.  Its answer may be lost.
Commits(c, u, row) ==
    /\ db' = [db EXCEPT ![u] = row]
    /\ raced' = (raced \/ req[c].stale)
    /\ \E answer \in {Done(c, u, row), Failed(req[c])} :
        /\ \/ answer = Done(c, u, row) /\ UNCHANGED events
           \/ Waits(req[c]) /\ answer = Failed(req[c]) /\ Event
        /\ req' = [d \in Requests |->
                     IF d = c THEN answer
                     ELSE [req[d] EXCEPT !.stale = @ \/ (req[d].st = "checked")]]
    /\ UNCHANGED <<calls, pageVars>>

CreateCommit(c) ==
    /\ req[c].st = "checked" /\ req[c].kind = "create"
    /\ \E u \in Users :
        /\ db[u].n = 0 /\ \A v \in 1..(u - 1) : db[v].n # 0
        /\ Commits(c, u, [active |-> req[c].form.active, n |-> 1, role |-> req[c].form.role])

\* A row that is gone meanwhile is an error.
UpdateCommit(c) ==
    /\ req[c].st = "checked" /\ req[c].kind = "update"
    /\ \/ /\ Exists(req[c].user)
          /\ Commits(c, req[c].user, Updated(req[c]))
       \/ /\ ~Exists(req[c].user)
          /\ req' = [req EXCEPT ![c] = Failed(@)]
          /\ UNCHANGED <<backend, calls, events, pageVars>>

DeleteCommit(c) ==
    /\ req[c].st = "checked" /\ req[c].kind = "delete"
    /\ Commits(c, req[c].user, [Unborn EXCEPT !.n = Gone])

\* Any administrator's page sends role and state together.
OtherAdmin(c) ==
    /\ Call(c) /\ Event
    /\ \E kind \in {"update", "delete"}, u \in Users, f \in Form :
        /\ Exists(u) /\ (kind = "delete" => f = Blank)
        /\ req' = [req EXCEPT ![c] = [NoRequest EXCEPT !.by = Other, !.form = f, !.kind = kind,
                                                       !.st = "sent", !.user = u]]
    /\ UNCHANGED <<backend, pageVars>>

-------------------------------------------------------------------------------
(***************************************************************************)
(* The page and its list.                                                  *)
(***************************************************************************)

Listed == {u \in Users : list.rows[u] \in 1..(Gone - 1)}

\* The newest first; neither table nor pager is there while loading.
Rows ==
    LET newer(u) == Cardinality({v \in Listed : v > u})
        from == (list.page - 1) * PageSize
    IN {u \in Listed : ~loading /\ newer(u) >= from /\ newer(u) < from + PageSize}

totalPages ==
    LET n == Cardinality(Listed) IN IF n = 0 THEN 1 ELSE (n + PageSize - 1) \div PageSize

NothingOpen == onPage /\ ~createOpen /\ editing = NoUser

\* fetchUsers, for the pages ps.
Fetches(ps) ==
    /\ Len(fetches) + Len(ps) <= MaxFetches
    /\ fetches' = fetches \o [i \in DOMAIN ps |->
                                [overtaken |-> FALSE, page |-> ps[i], rows |-> Nobody, st |-> "sent"]]
    /\ loading' = TRUE /\ error' = FALSE

\* What the backend says of the user by now does not matter.
RoleGuard == storedRole = "admin"

UsersPage ==
    /\ ~onPage /\ RoleGuard
    /\ onPage' = TRUE
    /\ Fetches(<<1>>)
    /\ UNCHANGED <<backend, req, calls, events, storedRole, page, list, dialogs, crossed, acked>>

\* The state of the page is gone, and nobody listens to its calls.
LeavePage ==
    /\ onPage /\ Event
    /\ onPage' = FALSE
    /\ page' = 1 /\ list' = NoList /\ loading' = FALSE /\ error' = FALSE
    /\ createOpen' = FALSE /\ editing' = NoUser
    /\ fetches' = <<>> /\ crossed' = FALSE
    /\ acked' = Nobody
    /\ req' = [c \in Requests |-> IF req[c].st \in {"sent", "checked"}
                                         THEN [req[c] EXCEPT !.page = 0] ELSE NoRequest]
    /\ UNCHANGED <<backend, calls, storedRole>>

\* AuthGuard asks who the user is when the console is loaded; only then the store learns it.
Reload ==
    /\ ~onPage /\ Event
    /\ Exists(Me) /\ db[Me].active
    /\ storedRole' = db[Me].role
    /\ UNCHANGED <<backend, req, calls, onPage, page, list, loading, error, dialogs, fetches, crossed, acked>>

\* The page that was shown is loaded and, if it was another, the first one as well.
handleSearch ==
    /\ NothingOpen /\ Event
    /\ page' = 1
    /\ Fetches(IF page = 1 THEN <<1>> ELSE <<page, 1>>)
    /\ UNCHANGED <<backend, req, calls, storedRole, onPage, list, dialogs, crossed, acked>>

GoTo(p) ==
    /\ NothingOpen /\ ~loading /\ Event
    /\ page' = p
    /\ Fetches(<<p>>)
    /\ UNCHANGED <<backend, req, calls, storedRole, onPage, list, dialogs, crossed, acked>>

PrevPage == page > 1 /\ GoTo(page - 1)

\* Slip: the button is not disabled on the last page.
NextPageAlways == GoTo(page + 1)

NextPage == page < totalPages /\ GoTo(page + 1)

FetchServed(i) ==
    /\ i \in DOMAIN fetches /\ fetches[i].st = "sent" /\ Authorized(Me)
    /\ fetches' = [fetches EXCEPT ![i].st = "served", ![i].rows = [u \in Users |-> db[u].n]]
    /\ UNCHANGED <<backend, req, calls, events, storedRole, onPage, page, list, loading, error, dialogs, crossed, acked>>

Without(i) == SubSeq(fetches, 1, i - 1) \o SubSeq(fetches, i + 1, Len(fetches))

\* Whatever arrives is shown, and ends the notice that something is loading.
FetchArrives(i) ==
    /\ i \in DOMAIN fetches /\ fetches[i].st = "served"
    /\ list' = [page |-> fetches[i].page, rows |-> fetches[i].rows]
    /\ crossed' = fetches[i].overtaken
    /\ loading' = FALSE
    /\ fetches' = [j \in 1..(Len(fetches) - 1) |->
                     [Without(i)[j] EXCEPT !.overtaken = @ \/ j < i]]
    /\ UNCHANGED <<backend, req, calls, events, storedRole, onPage, page, error, dialogs, acked>>

FetchFails(i) ==
    /\ i \in DOMAIN fetches
    /\ \/ Event
       \/ ~Authorized(Me) /\ UNCHANGED events
    /\ fetches' = Without(i)
    /\ loading' = FALSE /\ error' = TRUE
    /\ UNCHANGED <<backend, req, calls, storedRole, onPage, page, list, dialogs, crossed, acked>>

-------------------------------------------------------------------------------
(***************************************************************************)
(* The dialogs and the calls of the page.                                  *)
(***************************************************************************)

DialogChanges == UNCHANGED <<backend, req, calls, events, storedRole, onPage, page, list, loading, error, fetches, crossed, acked>>

OpenCreate ==
    /\ NothingOpen
    /\ createOpen' = TRUE /\ UNCHANGED editing
    /\ DialogChanges

CancelCreate ==
    /\ createOpen
    /\ createOpen' = FALSE /\ UNCHANGED editing
    /\ DialogChanges

openEdit(u) ==
    /\ NothingOpen /\ u \in Rows
    /\ editing' = u /\ UNCHANGED createOpen
    /\ DialogChanges

CancelEdit ==
    /\ editing # NoUser
    /\ editing' = NoUser /\ UNCHANGED createOpen
    /\ DialogChanges

\* No button is disabled while a call is under way.
Send(c, kind, u, f) ==
    /\ Call(c)
    /\ req' = [req EXCEPT ![c] = [NoRequest EXCEPT !.form = f, !.kind = kind,
                                                   !.page = page, !.st = "sent", !.user = u]]
    /\ error' = FALSE
    /\ UNCHANGED <<backend, events, storedRole, onPage, page, list, loading, dialogs, fetches, crossed, acked>>

handleCreate(c) == createOpen /\ \E f \in NewForm : Send(c, "create", NoUser, f)

\* The form is filled with what the list says, and its user may change all of it.
handleUpdate(c) == editing # NoUser /\ \E f \in Form : Send(c, "update", editing, f)

handleDelete(c, u) == NothingOpen /\ u \in Rows /\ u # Me /\ Send(c, "delete", u, Blank)

\* The dialog of the kind is closed, whoever it is about by now.
Closes(kind) ==
    /\ createOpen' = (createOpen /\ kind # "create")
    /\ editing' = IF kind = "update" THEN NoUser ELSE editing

\* Slip: after an update the list is as it was.
AnswersNoReload(c) ==
    /\ Closes(req[c].kind)
    /\ acked' = [acked EXCEPT ![req[c].user] = req[c].n]
    /\ IF req[c].kind = "update"
         THEN UNCHANGED <<fetches, loading, error>>
         ELSE Fetches(<<req[c].page>>)

\* The page is loaded again that was shown when the call was made.
Answers(c) ==
    /\ Closes(req[c].kind)
    /\ acked' = [acked EXCEPT ![req[c].user] = req[c].n]
    /\ Fetches(<<req[c].page>>)

CallArrives(c) ==
    /\ req[c].st = "ok"
    /\ req' = [req EXCEPT ![c] = NoRequest]
    /\ Answers(c)
    /\ UNCHANGED <<backend, calls, events, storedRole, onPage, page, list, crossed>>

CallFails(c) ==
    /\ req[c].st = "failed"
    /\ req' = [req EXCEPT ![c] = NoRequest]
    /\ error' = TRUE
    /\ UNCHANGED <<backend, calls, events, storedRole, onPage, page, list, loading, dialogs, fetches, crossed, acked>>

-------------------------------------------------------------------------------
Next ==
    \/ UsersPage \/ LeavePage \/ Reload \/ handleSearch \/ PrevPage \/ NextPage
    \/ OpenCreate \/ CancelCreate \/ CancelEdit
    \/ \E u \in Users : openEdit(u)
    \/ \E i \in 1..MaxFetches : FetchServed(i) \/ FetchArrives(i) \/ FetchFails(i)
    \/ \E c \in Requests :
         \/ OtherAdmin(c) \/ Check(c)
         \/ CreateCommit(c) \/ UpdateCommit(c) \/ DeleteCommit(c)
         \/ handleCreate(c) \/ handleUpdate(c)
         \/ CallArrives(c) \/ CallFails(c)
         \/ \E u \in Users : handleDelete(c, u)

Spec == Init /\ [][Next]_vars

-------------------------------------------------------------------------------
(***************************************************************************)
(* Properties.                                                             *)
(***************************************************************************)

\* As long as no request writes on a check that another write has overtaken, the
\* administrators cannot take away the last row with their role, although the handlers look
\* for another one only where somebody demotes himself or deletes an administrator.  A row
\* counts whether it is active or not, as it does for the handlers.
AdminStays == raced \/ \E u \in Users : IsAdmin(u)

\* The handlers of src/api/routers/users.py are to keep the last administrator ("the last
\* admin is not demoted", "not deleted"), whatever is asked at the same time.
LastAdminStays == \E u \in Users : IsAdmin(u)

\* When nothing is under way and no error is shown, what the page shows was read after
\* each of its writes that was acknowledged; except after an answer that was overtaken,
\* which nothing keeps from being shown.
OwnWritesShown ==
    onPage /\ fetches = <<>> /\ ~error /\ ~crossed /\ (\A c \in Requests : ~Waits(req[c])) =>
        \A u \in Users : list.rows[u] >= acked[u]

\* users.py:217 says that the last administrator can neither demote nor deactivate himself:
\* somebody who can administer is left, as long as no check is overtaken.
ActiveAdminStays == raced \/ \E u \in Users : Authorized(u)
===============================================================================
