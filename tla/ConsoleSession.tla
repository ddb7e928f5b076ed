----------------------------- MODULE ConsoleSession ----------------------------
(***************************************************************************)
(* The session of a user of the web console, in one browser tab: the       *)
(* tokens in the store, the calls in flight, the silent renewal of an      *)
(* access token after a 401, the guard of the application, and the pages   *)
(* that let a user in or out.                                              *)
(*                                                                         *)
(* A session is the number of the login that began it, 0 where there is    *)
(* none.  It stands for its user and for its refresh token; its access     *)
(* tokens are numbered as they are issued.  A call that is answered is     *)
(* free for the next one.  localStorage always equals the store of the     *)
(* only tab.                                                               *)
(***************************************************************************)
EXTENDS Naturals, FiniteSets

CONSTANTS
    Calls,      \* axios calls that may be in flight together
    MaxLogins,  \* bound: successful logins
    MaxTokens   \* bound: access tokens issued in one session

ASSUME BoundsAssumption == MaxLogins \in Nat /\ MaxTokens \in Nat \ {0}

VARIABLES
    logins,
    issued,     \* access tokens issued in each session
    expired,    \* those up to this number have expired
    token, refresh, user,   \* the store
    isRefreshing,
    st,         \* where each call is
    kind,       \* who waits for it
    tok,        \* the access token that it carries
    retried,    \* _retry
    base,       \* what the guard has seen in the store when it was mounted
    held,       \* the refresh token that a renewal uses
    page,
    outlived,   \* calls in flight whose session was left meanwhile
    crossed     \* an answer for one session has been written to the store of another

serverVars == <<logins, issued, expired>>
store == <<token, refresh, user>>
callVars == <<st, kind, tok, retried, base, held>>
history == <<outlived, crossed>>
vars == <<serverVars, store, isRefreshing, callVars, page, history>>

Sessions == 0..MaxLogins
Token == [session: Sessions, n: 0..MaxTokens]
NoToken == [session |-> 0, n |-> 0]

\* "sent" to the server, "lead" renews the token, "queued" behind a renewal, "hung"
\* for ever.  A page that is left still gets its answer: "lateLogin", "data".
States == {"idle", "sent", "lead", "queued", "hung"}
Kinds == {"data", "me", "login", "lateLogin"}
Pages == {"login", "loading", "checking", "app"}

TypeOK ==
    /\ logins \in Sessions
    /\ issued \in [Sessions -> 0..MaxTokens] /\ expired \in [Sessions -> 0..MaxTokens]
    /\ token \in Token /\ refresh \in Sessions /\ user \in Sessions
    /\ isRefreshing \in BOOLEAN
    /\ st \in [Calls -> States] /\ kind \in [Calls -> Kinds]
    /\ tok \in [Calls -> Token]
    /\ retried \in [Calls -> BOOLEAN]
    /\ base \in [Calls -> [token: Token, refresh: Sessions]]
    /\ held \in [Calls -> Sessions]
    /\ page \in Pages
    /\ outlived \subseteq Calls
    /\ crossed \in BOOLEAN

Init ==
    /\ logins = 0
    /\ issued = [k \in Sessions |-> 0]
    /\ expired = [k \in Sessions |-> 0]
    /\ token = NoToken /\ refresh = 0 /\ user = 0
    /\ isRefreshing = FALSE
    /\ st = [c \in Calls |-> "idle"]
    /\ kind = [c \in Calls |-> "data"]
    /\ tok = [c \in Calls |-> NoToken]
    /\ retried = [c \in Calls |-> FALSE]
    /\ base = [c \in Calls |-> [token |-> NoToken, refresh |-> 0]]
    /\ held = [c \in Calls |-> 0]
    /\ page = "login"
    /\ outlived = {}
    /\ crossed = FALSE

-------------------------------------------------------------------------------
(***************************************************************************)
(* The store and the pages.                                                *)
(***************************************************************************)

HasToken(t) == t.session # 0
Valid(t) == t.session # 0 /\ t.n > expired[t.session]

\* The flag isAuthenticated, which every setter recomputes from the two.
IsAuthenticated == HasToken(token) /\ user # 0

InFlight == {c \in Calls : st[c] \in {"sent", "lead", "queued"}}

setAuth(t, r, u) == token' = t /\ refresh' = r /\ user' = u

\* Slip: the refresh token is not removed.
logoutKeepsRefresh == setAuth(NoToken, refresh, 0)

\* Slip: the access token is not removed.
logoutKeepsToken == setAuth(token, 0, 0)

logout == setAuth(NoToken, 0, 0)

\* Slip: the guard's call is marked as late, which nothing knows of it.
DetachedAsLate(kinds) ==
    [c \in Calls |-> CASE kinds[c] = "me" -> "lateMe"
                       [] kinds[c] = "login" -> "lateLogin"
                       [] OTHER -> kinds[c]]

\* A page that is left stops listening to its calls (the flag cancelled of the
\* guard), except that the login page still does what it would have done.
Detached(kinds) ==
    [c \in Calls |-> CASE kinds[c] = "me" -> "data"
                       [] kinds[c] = "login" -> "lateLogin"
                       [] OTHER -> kinds[c]]

\* The interceptor's way to the login page, a no-op there.
ToLogin(kinds) ==
    /\ page' = "login"
    /\ kind' = IF page = "login" THEN kinds ELSE Detached(kinds)

\* Every call in flight belongs to a session that is over.
SessionLeft(calls) == outlived' = outlived \cup calls

\* A new call from a page; the request interceptor attaches the token of the store.
Call(c, what) ==
    /\ st[c] = "idle"
    /\ st' = [st EXCEPT ![c] = "sent"]
    /\ retried' = [retried EXCEPT ![c] = FALSE]
    /\ tok' = [tok EXCEPT ![c] = token]
    /\ outlived' = outlived \ {c}

NoBase == [token |-> NoToken, refresh |-> 0]

\* The call is over, and so are its config and the closures around it.
Forget(c) ==
    /\ tok' = [tok EXCEPT ![c] = NoToken]
    /\ retried' = [retried EXCEPT ![c] = FALSE]
    /\ base' = [base EXCEPT ![c] = NoBase]
    /\ held' = [held EXCEPT ![c] = 0]

Ends(c) ==
    /\ st' = [st EXCEPT ![c] = "idle"]
    /\ Forget(c)

-------------------------------------------------------------------------------
(***************************************************************************)
(* Pages.                                                                  *)
(***************************************************************************)

\* The guard is mounted, by the address bar, by history, by a load: without a token it
\* goes to the login page, else it asks for the user.
MountGuard(c) ==
    IF HasToken(token)
      THEN /\ Call(c, "me")
           /\ page' = "checking"
           /\ kind' = [Detached(kind) EXCEPT ![c] = "me"]
           /\ base' = [base EXCEPT ![c] = [token |-> token, refresh |-> refresh]]
           /\ UNCHANGED <<held>>
      ELSE /\ page' = "login"
           /\ kind' = Detached(kind)
           /\ UNCHANGED <<st, tok, retried, base, held, outlived>>

OpenApp(c) ==
    /\ page \in {"login", "loading"}
    /\ MountGuard(c)
    /\ UNCHANGED <<serverVars, store, isRefreshing, crossed>>

\* The login page is opened by the address bar, by history, or 1.5 seconds after a
\* registration, wherever its user has gone meanwhile.  The session goes on.
BackToLogin ==
    /\ page \in {"checking", "app"}
    /\ page' = "login"
    /\ kind' = Detached(kind)
    /\ UNCHANGED <<serverVars, store, isRefreshing, st, tok, retried, base, held, history>>

\* handleLogout of the header.
Logout ==
    /\ page = "app"
    /\ logout
    /\ page' = "login"
    /\ kind' = Detached(kind)
    /\ SessionLeft(InFlight)
    /\ crossed' = FALSE
    /\ UNCHANGED <<serverVars, isRefreshing, st, tok, retried, base, held>>

\* A page of the application asks for data or changes something.
Request(c) ==
    /\ page = "app"
    /\ Call(c, "data")
    /\ kind' = [kind EXCEPT ![c] = "data"]
    /\ UNCHANGED <<serverVars, store, isRefreshing, base, held, page, crossed>>

\* handleSubmit of the login page; the button is disabled while a call is out.
SubmitLogin(c) ==
    /\ page = "login"
    /\ \A d \in Calls : kind[d] = "login" => st[d] = "idle"
    /\ Call(c, "login")
    /\ kind' = [kind EXCEPT ![c] = "login"]
    /\ UNCHANGED <<serverVars, store, isRefreshing, base, held, page, crossed>>

\* The tab is loaded again: the store comes back from localStorage, the rest is gone.
Reload ==
    /\ isRefreshing' = FALSE
    /\ page' = IF page = "login" THEN page ELSE "loading"
    /\ st' = [c \in Calls |-> "idle"]
    /\ kind' = [c \in Calls |-> "data"]
    /\ tok' = [c \in Calls |-> NoToken]
    /\ retried' = [c \in Calls |-> FALSE]
    /\ base' = [c \in Calls |-> NoBase]
    /\ held' = [c \in Calls |-> 0]
    /\ outlived' = {}
    /\ UNCHANGED <<serverVars, store, crossed>>

-------------------------------------------------------------------------------
(***************************************************************************)
(* Answers.                                                                *)
(***************************************************************************)

\* A call that is not about logging in succeeds.
DataArrives(c) ==
    /\ st[c] = "sent" /\ Valid(tok[c]) /\ kind[c] = "data"
    /\ Ends(c)
    /\ outlived' = outlived \ {c}
    /\ UNCHANGED <<serverVars, store, isRefreshing, kind, page, crossed>>

\* The guard learns who the user is, and writes back the tokens that it saw when it
\* was mounted, not those that the store has by now.
MeArrives(c) ==
    /\ st[c] = "sent" /\ Valid(tok[c]) /\ kind[c] = "me"
    /\ Ends(c)
    /\ setAuth(base[c].token, base[c].refresh, tok[c].session)
    /\ page' = "app"
    /\ kind' = [kind EXCEPT ![c] = "data"]
    /\ outlived' = outlived \ {c}
    /\ crossed' = (crossed \/ base[c].refresh # refresh)
    /\ UNCHANGED <<serverVars, isRefreshing>>

\* Slip: the refresh token of the store is kept if there is one.
LoginArrivesKeepsRefresh(c) ==
    LET k == logins + 1
        first == [session |-> k, n |-> 1]
        mounts == page = "login" IN
    /\ st[c] = "sent" /\ kind[c] \in {"login", "lateLogin"}
    /\ logins < MaxLogins
    /\ logins' = k
    /\ issued' = [issued EXCEPT ![k] = 1]
    /\ setAuth(first, IF refresh # 0 THEN refresh ELSE k, k)
    /\ page' = IF mounts THEN "checking" ELSE page
    /\ st' = [st EXCEPT ![c] = IF mounts THEN "sent" ELSE "idle"]
    /\ kind' = IF mounts THEN [Detached(kind) EXCEPT ![c] = "me"]
                         ELSE [kind EXCEPT ![c] = "data"]
    /\ tok' = [tok EXCEPT ![c] = IF mounts THEN first ELSE NoToken]
    /\ base' = [base EXCEPT ![c] = IF mounts THEN [token |-> first, refresh |-> refresh'] ELSE NoBase]
    /\ retried' = [retried EXCEPT ![c] = FALSE]
    /\ held' = [held EXCEPT ![c] = 0]
    /\ outlived' = (outlived \cup InFlight) \ {c}
    /\ crossed' = FALSE
    /\ UNCHANGED <<expired, isRefreshing>>

\* The right password: a session begins and the application is opened, whose guard
\* asks with the new token (its call takes the place of the login's).  Whoever else is
\* still in flight belongs to an earlier session.
LoginArrives(c) ==
    LET k == logins + 1
        first == [session |-> k, n |-> 1]
        mounts == page = "login" IN
    /\ st[c] = "sent" /\ kind[c] \in {"login", "lateLogin"}
    /\ logins < MaxLogins
    /\ logins' = k
    /\ issued' = [issued EXCEPT ![k] = 1]
    /\ setAuth(first, k, k)
    /\ page' = IF mounts THEN "checking" ELSE page
    /\ st' = [st EXCEPT ![c] = IF mounts THEN "sent" ELSE "idle"]
    /\ kind' = IF mounts THEN [Detached(kind) EXCEPT ![c] = "me"]
                         ELSE [kind EXCEPT ![c] = "data"]
    /\ tok' = [tok EXCEPT ![c] = IF mounts THEN first ELSE NoToken]
    /\ base' = [base EXCEPT ![c] = IF mounts THEN [token |-> first, refresh |-> k] ELSE NoBase]
    /\ retried' = [retried EXCEPT ![c] = FALSE]
    /\ held' = [held EXCEPT ![c] = 0]
    /\ outlived' = (outlived \cup InFlight) \ {c}
    /\ crossed' = FALSE
    /\ UNCHANGED <<expired, isRefreshing>>

\* What a page does when its call is rejected: the guard, whatever the reason, ends
\* the session and goes to the login page; the others show a message.
Rejected(c) ==
    /\ IF kind[c] = "me"
         THEN /\ logout
              /\ ToLogin([kind EXCEPT ![c] = "data"])
              /\ outlived' = (outlived \cup InFlight) \ {c}
              /\ crossed' = FALSE
         ELSE /\ UNCHANGED <<store, page, crossed>>
              /\ kind' = [kind EXCEPT ![c] = "data"]
              /\ outlived' = outlived \ {c}

\* A timeout, a broken connection, any status other than 401.
CallFails(c) ==
    /\ st[c] = "sent"
    /\ Ends(c)
    /\ Rejected(c)
    /\ UNCHANGED <<serverVars, isRefreshing>>

\* A 401: the token is no longer good, or the password is wrong.
Refused(c) ==
    /\ st[c] = "sent"
    /\ kind[c] \in {"data", "me"} => ~Valid(tok[c])

RefusedAgain(c) ==
    /\ Refused(c) /\ retried[c]
    /\ Ends(c)
    /\ Rejected(c)
    /\ UNCHANGED <<serverVars, isRefreshing>>

\* The interceptor ends the session: there is no refresh token, or it was refused.
EndSession(c) ==
    /\ logout
    /\ ToLogin([kind EXCEPT ![c] = "data"])
    /\ outlived' = (outlived \cup InFlight) \ {c}
    /\ crossed' = FALSE

RefusedForGood(c) ==
    /\ Refused(c) /\ ~retried[c] /\ refresh = 0
    /\ Ends(c)
    /\ EndSession(c)
    /\ UNCHANGED <<serverVars, isRefreshing>>

RefusedAndQueued(c) ==
    /\ Refused(c) /\ ~retried[c] /\ refresh # 0 /\ isRefreshing
    /\ st' = [st EXCEPT ![c] = "queued"]
    /\ UNCHANGED <<serverVars, store, isRefreshing, kind, tok, retried, base, held,
                   page, history>>

\* Slip: the flag is set when the renewal is answered, not when it is asked for.
RefusedAndRenewsLate(c) ==
    /\ Refused(c) /\ ~retried[c] /\ refresh # 0 /\ ~isRefreshing
    /\ st' = [st EXCEPT ![c] = "lead"]
    /\ retried' = [retried EXCEPT ![c] = TRUE]
    /\ held' = [held EXCEPT ![c] = refresh]
    /\ UNCHANGED <<serverVars, store, isRefreshing, kind, tok, base, page,
                   history>>

RefusedAndRenews(c) ==
    /\ Refused(c) /\ ~retried[c] /\ refresh # 0 /\ ~isRefreshing
    /\ st' = [st EXCEPT ![c] = "lead"]
    /\ retried' = [retried EXCEPT ![c] = TRUE]
    /\ held' = [held EXCEPT ![c] = refresh]
    /\ isRefreshing' = TRUE
    /\ UNCHANGED <<serverVars, store, kind, tok, base, page, history>>

Queue == {c \in Calls : st[c] = "queued"}

\* setToken, then the queue and the call itself are sent again with the new token.
RenewalArrives(c) ==
    LET k == held[c]
        t == [session |-> k, n |-> issued[k] + 1]
        again == Queue \cup {c} IN
    /\ st[c] = "lead" /\ issued[k] < MaxTokens
    /\ issued' = [issued EXCEPT ![k] = @ + 1]
    /\ token' = t /\ UNCHANGED <<refresh, user>>
    /\ isRefreshing' = FALSE
    /\ st' = [d \in Calls |-> IF d \in again THEN "sent" ELSE st[d]]
    /\ tok' = [d \in Calls |-> IF d \in again THEN t ELSE tok[d]]
    /\ retried' = [d \in Calls |-> IF d \in again THEN TRUE ELSE retried[d]]
    /\ held' = [held EXCEPT ![c] = 0]
    /\ crossed' = (crossed \/ k # refresh)
    /\ UNCHANGED <<logins, expired, kind, base, page, outlived>>

\* Slip: the queue is not emptied.
RenewalFailsQueueStays(c) ==
    /\ st[c] = "lead"
    /\ isRefreshing' = FALSE
    /\ st' = [st EXCEPT ![c] = "idle"]
    /\ Forget(c)
    /\ EndSession(c)
    /\ UNCHANGED serverVars

\* The refresh token has expired, its user is deactivated, or the connection breaks.
\* The queue is emptied, and nobody ever answers those that were in it.
RenewalFails(c) ==
    /\ st[c] = "lead"
    /\ isRefreshing' = FALSE
    /\ st' = [d \in Calls |-> IF d = c THEN "idle" ELSE IF d \in Queue THEN "hung" ELSE st[d]]
    /\ Forget(c)
    /\ EndSession(c)
    /\ UNCHANGED <<serverVars>>

-------------------------------------------------------------------------------
(***************************************************************************)
(* The server.                                                             *)
(***************************************************************************)

\* Tokens of a session expire in the order of their issue.
Expire(k) ==
    /\ expired[k] < issued[k]
    /\ expired' = [expired EXCEPT ![k] = issued[k]]
    /\ UNCHANGED <<logins, issued, store, isRefreshing, callVars, page, history>>

-------------------------------------------------------------------------------
Answer(c) ==
    \/ DataArrives(c) \/ MeArrives(c) \/ LoginArrives(c)
    \/ CallFails(c)
    \/ RefusedAgain(c) \/ RefusedForGood(c) \/ RefusedAndQueued(c) \/ RefusedAndRenews(c)

Renewal(c) == RenewalArrives(c) \/ RenewalFails(c)

UserActs ==
    \/ Logout \/ BackToLogin \/ Reload
    \/ \E c \in Calls : OpenApp(c) \/ Request(c) \/ SubmitLogin(c)

Next ==
    \/ UserActs
    \/ \E c \in Calls : Answer(c) \/ Renewal(c)
    \/ \E k \in Sessions : Expire(k)

Spec == Init /\ [][Next]_vars

\* Calls have a time-out of 30 seconds; a renewal has none of its own and ends with its
\* connection.
FairSpec == Spec /\ \A c \in Calls : WF_vars(Answer(c)) /\ WF_vars(Renewal(c))

-------------------------------------------------------------------------------
(***************************************************************************)
(* Properties.                                                             *)
(***************************************************************************)

\* isRefreshing is true exactly while a renewal is out, and there is one at most, so
\* nobody queues behind a renewal that is over and no token is renewed twice at once
\* (the lock of client.ts, set and reset on five paths).
OneRenewal ==
    /\ \A c, d \in Calls : st[c] = "lead" /\ st[d] = "lead" => c = d
    /\ isRefreshing <=> \E c \in Calls : st[c] = "lead"

\* Access token, refresh token and user in the store belong to one session, or there
\* is none of the three, whatever was in flight when users logged out and in; except
\* after an answer has outlived its session and is written all the same (setToken in
\* client.ts and setAuth in the guard take it without looking at the store).
StoreCoherent ==
    \/ crossed
    \/ token = NoToken /\ refresh = 0 /\ user = 0
    \/ refresh # 0 /\ token.session = refresh /\ user = refresh

\* A call that the interceptor sends again goes under the session for which it was
\* first sent, unless it was still in flight when the user left that session, or was
\* queued behind a renewal that was.
ResentInItsSession ==
    [][\A c \in Calls :
        st[c] \in {"lead", "queued"} /\ st'[c] = "sent" /\ HasToken(tok[c]) =>
            tok'[c].session = tok[c].session \/ c \in outlived \/ crossed']_vars

\* Nobody becomes logged in without a login: neither the answer to the guard nor a
\* renewal brings a session back that has ended, except after such a crossing.
OnlyLoginBegins ==
    [][~IsAuthenticated /\ IsAuthenticated' => logins' # logins \/ crossed]_vars

\* Every call is settled, or its promise is abandoned because it was in the queue of a
\* renewal that failed: the retries of the interceptor go round in no circle.
CallsSettle ==
    \A c \in Calls : st[c] \in {"sent", "lead", "queued"} ~> st[c] \in {"idle", "hung"}

===============================================================================
