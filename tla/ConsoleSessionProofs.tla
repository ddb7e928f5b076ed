------------------------- MODULE ConsoleSessionProofs --------------------------
(***************************************************************************)
(* Proofs about ConsoleSession, for every number of calls, logins and      *)
(* tokens.                                                                 *)
(*                                                                         *)
(* StoreCoherent rests on the guard: what the guard writes back belongs to *)
(* the session of the store, if it has seen its refresh token.  That needs *)
(* that every way out of a session leaves the guard's page, so that the    *)
(* flag cancelled stops a call that was made for a session that is over.   *)
(***************************************************************************)
EXTENDS ConsoleSession, TLAPS

Out == {"sent", "lead", "queued"}

\* The guard waits for one call, while its page is shown.
GuardWaits ==
    /\ \A c \in Calls : kind[c] = "me" => page = "checking"
    /\ \A c, d \in Calls : kind[c] = "me" /\ kind[d] = "me" => c = d

\* Nobody holds the refresh token of a login that is still to come.
BasesKnown ==
    /\ refresh <= logins
    /\ \A c \in Calls : base[c].refresh <= logins

\* Every way out of a session leaves the page of the guard.
GuardHasSession == page = "checking" /\ ~crossed => refresh # 0

\* What the guard has seen, and what its call carries, is of one session.
GuardFollows ==
    \A c \in Calls :
        kind[c] = "me" /\ st[c] \in Out /\ ~crossed /\ base[c].refresh = refresh =>
            base[c].token.session = refresh /\ tok[c].session = refresh

\* A call that is out, and did not see its session being left, is of the store's session.
CallsFollow ==
    \A c \in Calls :
        st[c] \in Out /\ c \notin outlived /\ HasToken(tok[c]) /\ ~crossed =>
            tok[c].session = refresh

\* A renewal has a refresh token.
RenewalHolds == \A c \in Calls : st[c] = "lead" => held[c] # 0

IInv ==
    /\ TypeOK /\ OneRenewal /\ RenewalHolds /\ GuardWaits /\ BasesKnown
    /\ GuardHasSession /\ GuardFollows /\ CallsFollow /\ StoreCoherent

-------------------------------------------------------------------------------
\* A page that is left has no call of a guard.
LEMMA DetachedKinds ==
    ASSUME NEW kinds \in [Calls -> Kinds]
    PROVE  Detached(kinds) \in [Calls -> Kinds \ {"me"}]
  BY DEF Detached, Kinds

\* Without a token there is no session.
LEMMA NoTokenType == NoToken \in Token /\ NoToken.session = 0
  BY BoundsAssumption DEF NoToken, Token, Sessions

\* What a page does about a call that was rejected keeps the types.
LEMMA RejectedType ==
    ASSUME TypeOK, NEW c \in Calls, Rejected(c) \/ EndSession(c)
    PROVE  /\ token' \in Token /\ refresh' \in Sessions /\ user' \in Sessions
           /\ kind' \in [Calls -> Kinds] /\ page' \in Pages
           /\ outlived' \subseteq Calls /\ crossed' \in BOOLEAN
<1>1. 0 \in Sessions /\ "data" \in Kinds /\ "login" \in Pages
  BY BoundsAssumption DEF Sessions, Kinds, Pages
<1>2. [kind EXCEPT ![c] = "data"] \in [Calls -> Kinds]
  BY <1>1 DEF TypeOK
<1>3. Detached([kind EXCEPT ![c] = "data"]) \in [Calls -> Kinds]
  BY <1>2, DetachedKinds
<1>4. InFlight \subseteq Calls
  BY DEF InFlight
<1>. QED  BY <1>1, <1>2, <1>3, <1>4, NoTokenType DEF TypeOK, Rejected, EndSession, logout, setAuth, ToLogin, store

\* Typing is preserved by every step.
LEMMA TypeStep == TypeOK /\ [Next]_vars => TypeOK'
<1>. SUFFICES ASSUME TypeOK, [Next]_vars PROVE TypeOK'
  OBVIOUS
<1>0. /\ 0 \in Sessions /\ NoBase \in [token: Token, refresh: Sessions]
      /\ Detached(kind) \in [Calls -> Kinds]
      /\ InFlight \subseteq Calls
  BY BoundsAssumption, NoTokenType, DetachedKinds DEF Sessions, NoBase, TypeOK, InFlight
<1>. USE <1>0, NoTokenType, BoundsAssumption DEF TypeOK, serverVars, store, history, States, Kinds, Pages
<1>1. ASSUME NEW c \in Calls, OpenApp(c) PROVE TypeOK'
  <2>1. [token |-> token, refresh |-> refresh] \in [token: Token, refresh: Sessions]
    OBVIOUS
  <2>2. /\ base' \in [Calls -> [token: Token, refresh: Sessions]]
        /\ tok' \in [Calls -> Token]
    <3>1. \/ tok' = tok /\ base' = base
          \/ /\ tok' = [tok EXCEPT ![c] = token]
             /\ base' = [base EXCEPT ![c] = [token |-> token, refresh |-> refresh]]
      BY <1>1, Zenon DEF OpenApp, MountGuard, Call
    <3>2. [tok EXCEPT ![c] = token] \in [Calls -> Token]
      OBVIOUS
    <3>3. [base EXCEPT ![c] = [token |-> token, refresh |-> refresh]]
            \in [Calls -> [token: Token, refresh: Sessions]]
      BY <2>1, Zenon
    <3>. QED  BY Zenon, <3>1, <3>2, <3>3
  <2>3. /\ kind' \in [Calls -> Kinds] /\ page' \in Pages
        /\ st' \in [Calls -> States] /\ retried' \in [Calls -> BOOLEAN] /\ held' \in [Calls -> Sessions]
        /\ outlived' \subseteq Calls
    BY ZenonT(30), <1>1 DEF OpenApp, MountGuard, Call
  <2>. QED  BY <1>1, <2>2, <2>3 DEF OpenApp
<1>2. CASE BackToLogin
  BY <1>2 DEF BackToLogin
<1>3. CASE Logout
  BY <1>3 DEF Logout, logout, setAuth, SessionLeft
<1>4. ASSUME NEW c \in Calls, Request(c) PROVE TypeOK'
  BY <1>4 DEF Request, Call
<1>5. ASSUME NEW c \in Calls, SubmitLogin(c) PROVE TypeOK'
  BY <1>5 DEF SubmitLogin, Call
<1>6. CASE Reload
  BY <1>6 DEF Reload
<1>7. ASSUME NEW c \in Calls, DataArrives(c) PROVE TypeOK'
  BY <1>7 DEF DataArrives, Ends, Forget
<1>8. ASSUME NEW c \in Calls, MeArrives(c) PROVE TypeOK'
  <2>1. base[c] \in [token: Token, refresh: Sessions] /\ tok[c] \in Token /\ tok[c].session \in Sessions
    BY DEF Token
  <2>. QED  BY <1>8, <2>1 DEF MeArrives, Ends, Forget, setAuth
<1>9. ASSUME NEW c \in Calls, LoginArrives(c) PROVE TypeOK'
  <2>. DEFINE k == logins + 1
              first == [session |-> k, n |-> 1]
  <2>1. k \in Sessions /\ first \in Token
    BY <1>9 DEF LoginArrives, Sessions, Token
  <2>2. logins' = k /\ issued' = [issued EXCEPT ![k] = 1] /\ expired' = expired /\ isRefreshing' = isRefreshing
    BY <1>9 DEF LoginArrives
  <2>3. token' = first /\ refresh' = k /\ user' = k /\ crossed' = FALSE
    BY <1>9 DEF LoginArrives, setAuth
  <2>4. /\ st' \in [Calls -> States] /\ retried' \in [Calls -> BOOLEAN] /\ held' \in [Calls -> Sessions]
        /\ page' \in Pages /\ outlived' \subseteq Calls
    BY <1>9 DEF LoginArrives
  <2>5. kind' \in [Calls -> Kinds]
    BY <1>9 DEF LoginArrives
  <2>6. /\ tok' = [tok EXCEPT ![c] = IF page = "login" THEN first ELSE NoToken]
        /\ base' = [base EXCEPT ![c] = IF page = "login" THEN [token |-> first, refresh |-> k] ELSE NoBase]
    BY <1>9 DEF LoginArrives
  <2>. HIDE DEF k, first
  <2>7. tok' \in [Calls -> Token] /\ base' \in [Calls -> [token: Token, refresh: Sessions]]
    BY <2>1, <2>6
  <2>8. issued' \in [Sessions -> 0..MaxTokens]
    <3>1. 1 \in 0..MaxTokens /\ issued \in [Sessions -> 0..MaxTokens]
      OBVIOUS
    <3>. QED  BY ONLY <2>2, <3>1
  <2>9. token' \in Token /\ refresh' \in Sessions /\ user' \in Sessions /\ logins' \in Sessions
    BY <2>1, <2>2, <2>3
  <2>. QED  BY <2>2, <2>3, <2>4, <2>5, <2>7, <2>8, <2>9
<1>10. ASSUME NEW c \in Calls, CallFails(c) \/ RefusedAgain(c) \/ RefusedForGood(c) PROVE TypeOK'
  <2>1. Rejected(c) \/ EndSession(c)
    BY <1>10 DEF CallFails, RefusedAgain, RefusedForGood
  <2>2. /\ token' \in Token /\ refresh' \in Sessions /\ user' \in Sessions
        /\ kind' \in [Calls -> Kinds] /\ page' \in Pages
        /\ outlived' \subseteq Calls /\ crossed' \in BOOLEAN
    BY <2>1, RejectedType
  <2>3. Ends(c) /\ UNCHANGED <<serverVars, isRefreshing>>
    BY <1>10 DEF CallFails, RefusedAgain, RefusedForGood
  <2>4. /\ st' \in [Calls -> States] /\ tok' \in [Calls -> Token] /\ retried' \in [Calls -> BOOLEAN]
        /\ base' \in [Calls -> [token: Token, refresh: Sessions]] /\ held' \in [Calls -> Sessions]
    BY <2>3 DEF Ends, Forget
  <2>. QED  BY <2>2, <2>3, <2>4
<1>11. ASSUME NEW c \in Calls, RefusedAndQueued(c) PROVE TypeOK'
  BY <1>11 DEF RefusedAndQueued
<1>12. ASSUME NEW c \in Calls, RefusedAndRenews(c) PROVE TypeOK'
  BY <1>12 DEF RefusedAndRenews
<1>13. ASSUME NEW c \in Calls, RenewalArrives(c) PROVE TypeOK'
  <2>. DEFINE t == [session |-> held[c], n |-> issued[held[c]] + 1]
  <2>1. held[c] \in Sessions /\ issued[held[c]] + 1 \in 0..MaxTokens
    BY <1>13 DEF RenewalArrives
  <2>2. t \in Token
    BY <2>1 DEF Token
  <2>3. token' = t /\ tok' = [d \in Calls |-> IF d \in Queue \cup {c} THEN t ELSE tok[d]]
    BY <1>13 DEF RenewalArrives
  <2>. HIDE DEF t
  <2>4. token' \in Token /\ tok' \in [Calls -> Token]
    BY <2>2, <2>3
  <2>. QED  BY <1>13, <2>1, <2>4 DEF RenewalArrives
<1>14. ASSUME NEW c \in Calls, RenewalFails(c) PROVE TypeOK'
  BY <1>14, RejectedType DEF RenewalFails, Forget
<1>15. ASSUME NEW k \in Sessions, Expire(k) PROVE TypeOK'
  BY <1>15 DEF Expire, callVars
<1>16. CASE UNCHANGED vars
  BY <1>16 DEF vars, callVars
<1>. QED  BY <1>1, <1>2, <1>3, <1>4, <1>5, <1>6, <1>7, <1>8, <1>9, <1>10, <1>11, <1>12, <1>13, <1>14,
             <1>15, <1>16 DEF Next, UserActs, Answer, Renewal
-------------------------------------------------------------------------------
\* The flag and the call that renews go together.
LEMMA RenewalStep ==
    TypeOK /\ OneRenewal /\ RenewalHolds /\ [Next]_vars => OneRenewal' /\ RenewalHolds'
<1>. SUFFICES ASSUME TypeOK, OneRenewal, RenewalHolds, [Next]_vars PROVE OneRenewal' /\ RenewalHolds'
  OBVIOUS
<1>. DEFINE Goal == OneRenewal' /\ RenewalHolds'
<1>1. ASSUME isRefreshing' = isRefreshing,
             \A c \in Calls : /\ st'[c] = "lead" <=> st[c] = "lead"
                              /\ st'[c] = "lead" => held'[c] = held[c]
      PROVE  Goal
  BY <1>1 DEF OneRenewal, RenewalHolds
<1>2. CASE BackToLogin \/ Logout \/ UNCHANGED vars
  BY <1>1, <1>2 DEF BackToLogin, Logout, vars, callVars
<1>3. ASSUME NEW c \in Calls, OpenApp(c) \/ Request(c) \/ SubmitLogin(c) PROVE Goal
  BY <1>1, <1>3 DEF OpenApp, MountGuard, Request, SubmitLogin, Call, TypeOK
<1>4. CASE Reload
  BY <1>4 DEF Reload, OneRenewal, RenewalHolds
<1>5. ASSUME NEW c \in Calls, DataArrives(c) \/ MeArrives(c) PROVE Goal
  BY <1>1, <1>5 DEF DataArrives, MeArrives, Ends, Forget, TypeOK
<1>6. ASSUME NEW c \in Calls, LoginArrives(c) PROVE Goal
  BY <1>1, <1>6 DEF LoginArrives, TypeOK
<1>7. ASSUME NEW c \in Calls, CallFails(c) \/ RefusedAgain(c) \/ RefusedForGood(c) PROVE Goal
  BY <1>1, <1>7 DEF CallFails, RefusedAgain, RefusedForGood, Refused, Ends, Forget, TypeOK
<1>8. ASSUME NEW c \in Calls, RefusedAndQueued(c) PROVE Goal
  BY <1>1, <1>8 DEF RefusedAndQueued, Refused, TypeOK
<1>9. ASSUME NEW c \in Calls, RefusedAndRenews(c) PROVE Goal
  BY <1>9 DEF RefusedAndRenews, OneRenewal, RenewalHolds, TypeOK
<1>10. ASSUME NEW c \in Calls, RenewalArrives(c) PROVE Goal
  BY <1>10 DEF RenewalArrives, OneRenewal, RenewalHolds, TypeOK
<1>11. ASSUME NEW c \in Calls, RenewalFails(c) PROVE Goal
  BY <1>11 DEF RenewalFails, OneRenewal, RenewalHolds, TypeOK
<1>12. ASSUME NEW k \in Sessions, Expire(k) PROVE Goal
  BY <1>1, <1>12 DEF Expire, callVars
<1>. QED  BY <1>2, <1>3, <1>4, <1>5, <1>6, <1>7, <1>8, <1>9, <1>10, <1>11, <1>12 DEF Next, UserActs, Answer, Renewal

-------------------------------------------------------------------------------
\* Once the page is left or the session is over, no call is the guard's.
LEMMA GuardLeaves ==
    ASSUME TypeOK, GuardWaits, NEW c \in Calls, NEW kinds \in [Calls -> Kinds],
           \A d \in Calls : d # c => kinds[d] = kind[d], kinds[c] # "me", ToLogin(kinds)
    PROVE  \A d \in Calls : kind'[d] # "me"
<1>1. CASE page = "login"
  BY <1>1 DEF ToLogin, GuardWaits
<1>2. CASE page # "login"
  BY <1>2, DetachedKinds DEF ToLogin
<1>. QED  BY <1>1, <1>2

\* A call that is rejected leaves the guard and its session as they were, or ends both.
LEMMA RejectedLeaves ==
    ASSUME TypeOK, GuardWaits, NEW c \in Calls, Rejected(c) \/ EndSession(c)
    PROVE  \/ /\ token' = NoToken /\ refresh' = 0 /\ user' = 0
              /\ page' = "login" /\ ~crossed' /\ \A d \in Calls : kind'[d] # "me"
           \/ /\ token' = token /\ refresh' = refresh /\ user' = user
              /\ page' = page /\ crossed' = crossed
              /\ kind' = [kind EXCEPT ![c] = "data"]
<1>1. [kind EXCEPT ![c] = "data"] \in [Calls -> Kinds]
  BY DEF TypeOK, Kinds
<1>2. ASSUME ToLogin([kind EXCEPT ![c] = "data"]) PROVE \A d \in Calls : kind'[d] # "me"
  BY <1>1, <1>2, GuardLeaves DEF TypeOK
<1>3. CASE EndSession(c) \/ kind[c] = "me"
  BY <1>2, <1>3 DEF EndSession, Rejected, logout, setAuth, ToLogin, store
<1>4. CASE Rejected(c) /\ kind[c] # "me"
  BY <1>4 DEF Rejected, store
<1>. QED  BY <1>3, <1>4

\* Whoever leaves a session leaves the guard; whoever mounts it is the only one.
LEMMA GuardStep == IInv /\ [Next]_vars => GuardWaits' /\ BasesKnown' /\ GuardHasSession'
<1>. SUFFICES ASSUME IInv, [Next]_vars PROVE GuardWaits' /\ BasesKnown' /\ GuardHasSession'
  OBVIOUS
<1>0. Detached(kind) \in [Calls -> Kinds \ {"me"}] /\ NoBase.refresh = 0 /\ logins \in Nat
  BY DetachedKinds, BoundsAssumption DEF IInv, TypeOK, NoBase, Sessions
<1>. USE <1>0 DEF IInv, TypeOK, GuardWaits, BasesKnown, GuardHasSession
<1>1. ASSUME NEW c \in Calls, OpenApp(c) PROVE GuardWaits' /\ BasesKnown' /\ GuardHasSession'
  <2>1. UNCHANGED <<logins, store, crossed>> /\ MountGuard(c)
    BY <1>1 DEF OpenApp, serverVars
  <2>2. CASE HasToken(token)
    <3>1. page' = "checking" /\ kind' = [Detached(kind) EXCEPT ![c] = "me"]
      BY <2>1, <2>2 DEF MountGuard
    <3>2. base' = [base EXCEPT ![c] = [token |-> token, refresh |-> refresh]]
      BY <2>1, <2>2 DEF MountGuard
    <3>3. GuardWaits'
      BY <3>1
    <3>4. BasesKnown'
      BY <2>1, <3>2 DEF store
    <3>5. GuardHasSession'
      BY <2>1, <2>2 DEF store, HasToken, StoreCoherent, NoToken
    <3>. QED  BY <3>3, <3>4, <3>5
  <2>3. CASE ~HasToken(token)
    BY <2>1, <2>3 DEF MountGuard, store
  <2>. QED  BY <2>2, <2>3
<1>2. CASE BackToLogin \/ Logout
  BY <1>2 DEF BackToLogin, Logout, logout, setAuth, serverVars, store, history
<1>3. ASSUME NEW c \in Calls, Request(c) \/ SubmitLogin(c) PROVE GuardWaits' /\ BasesKnown' /\ GuardHasSession'
  BY <1>3 DEF Request, SubmitLogin, serverVars, store
<1>4. CASE Reload
  BY <1>4 DEF Reload, serverVars, store
<1>5. ASSUME NEW c \in Calls, DataArrives(c) PROVE GuardWaits' /\ BasesKnown' /\ GuardHasSession'
  BY <1>5 DEF DataArrives, Ends, Forget, serverVars, store
<1>6. ASSUME NEW c \in Calls, MeArrives(c) PROVE GuardWaits' /\ BasesKnown' /\ GuardHasSession'
  BY <1>6 DEF MeArrives, Ends, Forget, setAuth, serverVars
<1>7. ASSUME NEW c \in Calls, LoginArrives(c) PROVE GuardWaits' /\ BasesKnown' /\ GuardHasSession'
  <2>1. GuardWaits'
    BY <1>7 DEF LoginArrives
  <2>2. BasesKnown'
    BY SMTT(30), <1>7 DEF LoginArrives, setAuth, Sessions
  <2>3. GuardHasSession'
    BY <1>7 DEF LoginArrives, setAuth
  <2>. QED  BY <2>1, <2>2, <2>3
<1>8. ASSUME NEW c \in Calls, CallFails(c) \/ RefusedAgain(c) \/ RefusedForGood(c) \/ RenewalFails(c)
      PROVE  GuardWaits' /\ BasesKnown' /\ GuardHasSession'
  <2>1. Rejected(c) \/ EndSession(c)
    BY <1>8 DEF CallFails, RefusedAgain, RefusedForGood, RenewalFails
  <2>2. logins' = logins /\ base' = [base EXCEPT ![c] = NoBase]
    BY <1>8 DEF CallFails, RefusedAgain, RefusedForGood, RenewalFails, Ends, Forget, serverVars
  <2>3. BasesKnown'
    BY <2>1, <2>2, RejectedLeaves
  <2>. QED  BY <2>1, <2>3, RejectedLeaves
<1>9. ASSUME NEW c \in Calls, RefusedAndQueued(c) \/ RefusedAndRenews(c) \/ RenewalArrives(c)
      PROVE  GuardWaits' /\ BasesKnown' /\ GuardHasSession'
  <2>1. UNCHANGED <<logins, refresh, base, kind, page>> /\ (crossed => crossed')
    BY <1>9 DEF RefusedAndQueued, RefusedAndRenews, RenewalArrives, serverVars, store, history
  <2>. QED  BY <2>1
<1>10. CASE (\E k \in Sessions : Expire(k)) \/ UNCHANGED vars
  BY <1>10 DEF Expire, vars, callVars, store, history, serverVars
<1>. QED  BY <1>1, <1>2, <1>3, <1>4, <1>5, <1>6, <1>7, <1>8, <1>9, <1>10 DEF Next, UserActs, Answer, Renewal
\* The answer that the guard waits for is for the session that it has seen.
LEMMA FollowsStep == IInv /\ [Next]_vars => GuardFollows'
<1>. SUFFICES ASSUME IInv, [Next]_vars PROVE GuardFollows'
  OBVIOUS
<1>0. Detached(kind) \in [Calls -> Kinds \ {"me"}]
  BY DetachedKinds DEF IInv, TypeOK
<1>. USE <1>0 DEF IInv, TypeOK, Out
<1>1. ASSUME refresh' = refresh, crossed' = crossed,
             \A d \in Calls : kind'[d] = "me" /\ st'[d] \in Out =>
                kind[d] = "me" /\ st[d] \in Out /\ base'[d] = base[d] /\ tok'[d] = tok[d]
      PROVE  GuardFollows'
  BY <1>1 DEF GuardFollows
<1>2. ASSUME \A d \in Calls : kind'[d] # "me" PROVE GuardFollows'
  BY <1>2 DEF GuardFollows
<1>3. ASSUME NEW c \in Calls, OpenApp(c) PROVE GuardFollows'
  <2>1. MountGuard(c) /\ UNCHANGED <<store, crossed>>
    BY <1>3 DEF OpenApp
  <2>2. CASE HasToken(token)
    <3>1. \A d \in Calls : kind'[d] = "me" => d = c
      BY <2>1, <2>2 DEF MountGuard
    <3>2. base'[c].token = token /\ tok'[c] = token
      BY <2>1, <2>2 DEF MountGuard, Call
    <3>3. ~crossed => token.session = refresh
      BY <2>2 DEF StoreCoherent, HasToken, NoToken
    <3>. QED  BY <2>1, <3>1, <3>2, <3>3 DEF GuardFollows, store
  <2>3. CASE ~HasToken(token)
    BY <1>2, <2>1, <2>3 DEF MountGuard
  <2>. QED  BY <2>2, <2>3
<1>4. CASE BackToLogin \/ Logout \/ Reload
  BY <1>2, <1>4 DEF BackToLogin, Logout, Reload
<1>5. ASSUME NEW c \in Calls, Request(c) \/ SubmitLogin(c) PROVE GuardFollows'
  BY <1>1, <1>5 DEF Request, SubmitLogin, Call, store
<1>6. ASSUME NEW c \in Calls, DataArrives(c) PROVE GuardFollows'
  BY <1>1, <1>6 DEF DataArrives, Ends, Forget, store
<1>7. ASSUME NEW c \in Calls, MeArrives(c) PROVE GuardFollows'
  BY <1>2, <1>7 DEF MeArrives, GuardWaits
<1>8. ASSUME NEW c \in Calls, LoginArrives(c) PROVE GuardFollows'
  <2>1. refresh' = logins + 1
    BY <1>8 DEF LoginArrives, setAuth
  <2>2. CASE page = "login"
    <3>1. \A d \in Calls : kind'[d] = "me" => d = c
      BY <1>8, <2>2 DEF LoginArrives
    <3>2. tok'[c].session = logins + 1 /\ base'[c].token.session = logins + 1
      BY <1>8, <2>2 DEF LoginArrives
    <3>. QED  BY <2>1, <3>1, <3>2 DEF GuardFollows
  <2>3. CASE page # "login"
    <3>1. \A d \in Calls : kind'[d] = "me" => d # c /\ base'[d] = base[d]
      BY <1>8, <2>3 DEF LoginArrives
    <3>2. \A d \in Calls : base[d].refresh # logins + 1
      BY BoundsAssumption DEF BasesKnown, Sessions
    <3>. QED  BY <2>1, <3>1, <3>2 DEF GuardFollows
  <2>. QED  BY <2>2, <2>3
<1>9. ASSUME NEW c \in Calls, CallFails(c) \/ RefusedAgain(c) \/ RefusedForGood(c) \/ RenewalFails(c)
      PROVE  GuardFollows'
  <2>1. Rejected(c) \/ EndSession(c)
    BY <1>9 DEF CallFails, RefusedAgain, RefusedForGood, RenewalFails
  <2>2. \A d \in Calls : d # c => /\ st'[d] \in Out => st[d] \in Out
                                  /\ base'[d] = base[d] /\ tok'[d] = tok[d]
    BY <1>9 DEF CallFails, RefusedAgain, RefusedForGood, RenewalFails, Ends, Forget
  <2>3. st'[c] \notin Out
    BY <1>9 DEF CallFails, RefusedAgain, RefusedForGood, RenewalFails, Ends
  <2>. QED  BY <1>1, <1>2, <2>1, <2>2, <2>3, RejectedLeaves
<1>10. ASSUME NEW c \in Calls, RefusedAndQueued(c) \/ RefusedAndRenews(c) PROVE GuardFollows'
  BY <1>1, <1>10 DEF RefusedAndQueued, RefusedAndRenews, Refused, store, history
<1>11. ASSUME NEW c \in Calls, RenewalArrives(c) PROVE GuardFollows'
  <2>1. /\ kind' = kind /\ base' = base /\ refresh' = refresh
        /\ crossed' = (crossed \/ held[c] # refresh)
    BY <1>11 DEF RenewalArrives
  <2>2. \A d \in Calls : st'[d] \in Out =>
           st[d] \in Out /\ (tok'[d] = tok[d] \/ tok'[d].session = held[c])
    BY <1>11 DEF RenewalArrives, Queue
  <2>. QED  BY <2>1, <2>2 DEF GuardFollows
<1>12. CASE (\E k \in Sessions : Expire(k)) \/ UNCHANGED vars
  BY <1>1, <1>12 DEF Expire, vars, callVars, store, history
<1>. QED  BY <1>3, <1>4, <1>5, <1>6, <1>7, <1>8, <1>9, <1>10, <1>11, <1>12 DEF Next, UserActs, Answer, Renewal

\* Whoever leaves a session marks the calls that are out.
LEMMA CallsStep == IInv /\ [Next]_vars => CallsFollow'
<1>. SUFFICES ASSUME IInv, [Next]_vars PROVE CallsFollow'
  OBVIOUS
<1>. USE DEF IInv, TypeOK, Out, HasToken
<1>1. ASSUME refresh' = refresh, crossed => crossed', NEW c \in Calls,
             outlived \ {c} \subseteq outlived',
             \A d \in Calls : d # c => tok'[d] = tok[d] /\ (st'[d] \in Out => st[d] \in Out),
             \/ st'[c] \notin Out
             \/ tok'[c] = token
             \/ tok'[c] = tok[c] /\ st[c] \in Out /\ outlived' = outlived
      PROVE  CallsFollow'
  <2>1. ~crossed /\ token.session # 0 => token.session = refresh
    BY DEF StoreCoherent, NoToken
  <2>. QED  BY <1>1, <2>1 DEF CallsFollow
<1>2. ASSUME UNCHANGED <<refresh, tok, outlived>>, crossed => crossed',
             \A d \in Calls : st'[d] \in Out => st[d] \in Out
      PROVE  CallsFollow'
  BY <1>2 DEF CallsFollow
<1>3. ASSUME \A d \in Calls : st'[d] \in Out /\ d \notin outlived' => tok'[d].session = refresh'
      PROVE  CallsFollow'
  BY <1>3 DEF CallsFollow
<1>4. ASSUME NEW c \in Calls, OpenApp(c) PROVE CallsFollow'
  <2>1. CASE HasToken(token)
    BY <1>1, <1>4, <2>1 DEF OpenApp, MountGuard, Call, store
  <2>2. CASE ~HasToken(token)
    BY <1>2, <1>4, <2>2 DEF OpenApp, MountGuard, store
  <2>. QED  BY <2>1, <2>2
<1>5. ASSUME NEW c \in Calls, Request(c) \/ SubmitLogin(c) PROVE CallsFollow'
  BY <1>1, <1>5 DEF Request, SubmitLogin, Call, store
<1>6. CASE Logout
  BY <1>3, <1>6 DEF Logout, SessionLeft, InFlight
<1>7. CASE BackToLogin \/ UNCHANGED vars \/ \E k \in Sessions : Expire(k)
  BY <1>2, <1>7 DEF BackToLogin, Expire, vars, callVars, store, history
<1>8. CASE Reload
  BY <1>3, <1>8 DEF Reload
<1>9. ASSUME NEW c \in Calls, DataArrives(c) PROVE CallsFollow'
  BY <1>1, <1>9 DEF DataArrives, Ends, Forget, store
<1>10. ASSUME NEW c \in Calls, MeArrives(c) PROVE CallsFollow'
  <2>1. /\ refresh' = base[c].refresh /\ crossed' = (crossed \/ base[c].refresh # refresh)
        /\ outlived' = outlived \ {c} /\ st'[c] \notin Out
        /\ \A d \in Calls : d # c => tok'[d] = tok[d] /\ st'[d] = st[d]
    BY <1>10 DEF MeArrives, setAuth, Ends, Forget
  <2>. QED  BY <2>1 DEF CallsFollow
<1>11. ASSUME NEW c \in Calls, LoginArrives(c) PROVE CallsFollow'
  <2>1. \A d \in Calls : d # c => (st'[d] = st[d] /\ (d \in InFlight => d \in outlived'))
    BY <1>11 DEF LoginArrives
  <2>2. st'[c] \in Out => tok'[c].session = refresh'
    BY <1>11 DEF LoginArrives, setAuth
  <2>. QED  BY <1>3, <2>1, <2>2 DEF InFlight
<1>12. ASSUME NEW c \in Calls, CallFails(c) \/ RefusedAgain(c) \/ RefusedForGood(c) \/ RenewalFails(c)
       PROVE  CallsFollow'
  <2>1. st'[c] \notin Out /\ \A d \in Calls : d # c => tok'[d] = tok[d] /\ (st'[d] \in Out => st[d] \in Out)
    BY <1>12 DEF CallFails, RefusedAgain, RefusedForGood, RenewalFails, Ends, Forget
  <2>2. \/ InFlight \ {c} \subseteq outlived'
        \/ refresh' = refresh /\ crossed' = crossed /\ outlived' = outlived \ {c}
    BY <1>12 DEF CallFails, RefusedAgain, RefusedForGood, RenewalFails, EndSession, Rejected, store
  <2>. QED  BY <1>1, <1>3, <2>1, <2>2 DEF InFlight
<1>13. ASSUME NEW c \in Calls, RefusedAndQueued(c) \/ RefusedAndRenews(c) PROVE CallsFollow'
  BY <1>2, <1>13 DEF RefusedAndQueued, RefusedAndRenews, Refused, store, history
<1>14. ASSUME NEW c \in Calls, RenewalArrives(c) PROVE CallsFollow'
  <2>1. refresh' = refresh /\ crossed' = (crossed \/ held[c] # refresh) /\ outlived' = outlived
    BY <1>14 DEF RenewalArrives
  <2>2. \A d \in Calls : st'[d] \in Out =>
           st[d] \in Out /\ (tok'[d] = tok[d] \/ tok'[d].session = held[c])
    BY <1>14 DEF RenewalArrives, Queue
  <2>. QED  BY <2>1, <2>2 DEF CallsFollow
<1>. QED  BY <1>4, <1>5, <1>6, <1>7, <1>8, <1>9, <1>10, <1>11, <1>12, <1>13, <1>14
             DEF Next, UserActs, Answer, Renewal

\* The store is written by a login and a logout, by a renewal, and by the guard.
LEMMA CoherentStep == IInv /\ [Next]_vars => StoreCoherent'
<1>. SUFFICES ASSUME IInv, [Next]_vars PROVE StoreCoherent'
  OBVIOUS
<1>. USE DEF IInv, TypeOK
<1>1. ASSUME UNCHANGED <<store, crossed>> PROVE StoreCoherent'
  BY <1>1 DEF StoreCoherent, store
<1>2. ASSUME token' = NoToken, refresh' = 0, user' = 0 PROVE StoreCoherent'
  BY <1>2 DEF StoreCoherent
<1>3. ASSUME NEW c \in Calls, MeArrives(c) PROVE StoreCoherent'
  <2>1. /\ token' = base[c].token /\ refresh' = base[c].refresh /\ user' = tok[c].session
        /\ crossed' = (crossed \/ base[c].refresh # refresh)
    BY <1>3 DEF MeArrives, setAuth
  <2>2. kind[c] = "me" /\ st[c] \in Out
    BY <1>3 DEF MeArrives, Out
  <2>3. ASSUME ~crossed, base[c].refresh = refresh
        PROVE  refresh # 0 /\ base[c].token.session = refresh /\ tok[c].session = refresh
    BY <2>2, <2>3 DEF GuardWaits, GuardHasSession, GuardFollows
  <2>. QED  BY <2>1, <2>3 DEF StoreCoherent
<1>4. ASSUME NEW c \in Calls, LoginArrives(c) PROVE StoreCoherent'
  BY <1>4, BoundsAssumption DEF LoginArrives, setAuth, StoreCoherent, Sessions
<1>5. ASSUME NEW c \in Calls, CallFails(c) \/ RefusedAgain(c) \/ RefusedForGood(c) \/ RenewalFails(c)
      PROVE  StoreCoherent'
  <2>1. Rejected(c) \/ EndSession(c)
    BY <1>5 DEF CallFails, RefusedAgain, RefusedForGood, RenewalFails
  <2>. QED  BY <1>1, <1>2, <2>1, RejectedLeaves DEF store
<1>6. ASSUME NEW c \in Calls, RenewalArrives(c) PROVE StoreCoherent'
  <2>1. /\ token'.session = held[c] /\ refresh' = refresh /\ user' = user
        /\ crossed' = (crossed \/ held[c] # refresh)
    BY <1>6 DEF RenewalArrives
  <2>2. held[c] # 0
    BY <1>6 DEF RenewalArrives, RenewalHolds
  <2>. QED  BY <2>1, <2>2 DEF StoreCoherent
<1>7. CASE Logout
  BY <1>2, <1>7 DEF Logout, logout, setAuth
<1>8. CASE BackToLogin \/ Reload \/ (\E k \in Sessions : Expire(k)) \/ UNCHANGED vars
  BY <1>1, <1>8 DEF BackToLogin, Reload, Expire, vars, store, history
<1>9. ASSUME NEW c \in Calls,
             \/ OpenApp(c) \/ Request(c) \/ SubmitLogin(c) \/ DataArrives(c)
             \/ RefusedAndQueued(c) \/ RefusedAndRenews(c)
      PROVE  StoreCoherent'
  BY <1>1, <1>9 DEF OpenApp, Request, SubmitLogin, DataArrives, RefusedAndQueued, RefusedAndRenews, store, history
<1>. QED  BY <1>3, <1>4, <1>5, <1>6, <1>7, <1>8, <1>9 DEF Next, UserActs, Answer, Renewal
-------------------------------------------------------------------------------
\* The invariant holds at first.
LEMMA InitHolds == Init => IInv
<1>. SUFFICES ASSUME Init PROVE IInv
  OBVIOUS
<1>1. TypeOK
  <2>1. 0 \in Sessions /\ 0 \in 0..MaxTokens /\ [token |-> NoToken, refresh |-> 0] \in [token: Token, refresh: Sessions]
    BY NoTokenType, BoundsAssumption DEF Sessions
  <2>. QED  BY <2>1, NoTokenType DEF Init, TypeOK, States, Kinds, Pages
<1>2. OneRenewal /\ RenewalHolds /\ GuardWaits /\ GuardHasSession /\ GuardFollows /\ CallsFollow /\ StoreCoherent
  BY DEF Init, OneRenewal, RenewalHolds, GuardWaits, GuardHasSession, GuardFollows, CallsFollow, StoreCoherent, Out
<1>3. BasesKnown
  BY DEF Init, BasesKnown
<1>. QED  BY <1>1, <1>2, <1>3 DEF IInv

\* The invariant on which the properties rest holds in every state.
THEOREM Invariance == Spec => []IInv
<1>1. IInv /\ [Next]_vars => IInv'
  BY TypeStep, RenewalStep, GuardStep, FollowsStep, CallsStep, CoherentStep DEF IInv
<1>. QED  BY <1>1, InitHolds, PTL DEF Spec

\* Every variable has its type.
THEOREM TypeCorrect == Spec => []TypeOK
<1>1. IInv => TypeOK
  BY DEF IInv
<1>. QED  BY <1>1, Invariance, PTL

\* However many calls are refused at once, one of them renews the token, and the flag of
\* client.ts says so on every path.
THEOREM RenewsOnce == Spec => []OneRenewal
<1>1. IInv => OneRenewal
  BY DEF IInv
<1>. QED  BY <1>1, Invariance, PTL

\* Tokens and user of the store are of one session, whatever was under way when its user
\* logged out and in, but for an answer that crosses sessions.
THEOREM StoreIsCoherent == Spec => []StoreCoherent
<1>1. IInv => StoreCoherent
  BY DEF IInv
<1>. QED  BY <1>1, Invariance, PTL

\* Without such an answer nobody becomes logged in but by a login.
THEOREM LoginBegins == Spec => OnlyLoginBegins
<1>1. IInv /\ [Next]_vars =>
        [~IsAuthenticated /\ IsAuthenticated' => logins' # logins \/ crossed]_vars
  <2>. SUFFICES ASSUME IInv, Next, ~IsAuthenticated, ~crossed, logins' = logins
                PROVE  ~IsAuthenticated'
    OBVIOUS
  <2>1. token = NoToken /\ refresh = 0 /\ user = 0
    BY DEF IInv, StoreCoherent, IsAuthenticated, HasToken
  <2>2. ASSUME UNCHANGED store PROVE ~IsAuthenticated'
    BY <2>2 DEF store, IsAuthenticated, HasToken
  <2>3. ASSUME NEW c \in Calls, RenewalArrives(c) PROVE ~IsAuthenticated'
    BY <2>1, <2>3 DEF RenewalArrives, IsAuthenticated
  <2>4. ASSUME NEW c \in Calls, MeArrives(c) PROVE FALSE
    BY <2>1, <2>4 DEF MeArrives, IInv, GuardWaits, GuardHasSession
  <2>5. ASSUME NEW c \in Calls, LoginArrives(c) PROVE FALSE
    BY <2>5, BoundsAssumption DEF LoginArrives, IInv, TypeOK, Sessions
  <2>6. ASSUME NEW c \in Calls, CallFails(c) \/ RefusedAgain(c) \/ RefusedForGood(c) \/ RenewalFails(c)
        PROVE  ~IsAuthenticated'
    <3>1. Rejected(c) \/ EndSession(c)
      BY <2>6 DEF CallFails, RefusedAgain, RefusedForGood, RenewalFails
    <3>2. user' = 0
      BY <2>1, <3>1, RejectedLeaves DEF IInv
    <3>. QED  BY <3>2 DEF IsAuthenticated
  <2>7. CASE Logout
    BY <2>7 DEF Logout, logout, setAuth, IsAuthenticated
  <2>8. CASE BackToLogin \/ Reload \/ (\E k \in Sessions : Expire(k))
    BY <2>2, <2>8 DEF BackToLogin, Reload, Expire
  <2>9. ASSUME NEW c \in Calls,
               \/ OpenApp(c) \/ Request(c) \/ SubmitLogin(c) \/ DataArrives(c)
               \/ RefusedAndQueued(c) \/ RefusedAndRenews(c)
        PROVE  ~IsAuthenticated'
    BY <2>2, <2>9 DEF OpenApp, Request, SubmitLogin, DataArrives, RefusedAndQueued, RefusedAndRenews
  <2>. QED  BY <2>3, <2>4, <2>5, <2>6, <2>7, <2>8, <2>9 DEF Next, UserActs, Answer, Renewal
<1>. QED  BY <1>1, Invariance, PTL DEF Spec, OnlyLoginBegins
\* A call that was refused is sent again for the session for which it was sent first, if it
\* did not see that session being left.
THEOREM ResentAsSent == Spec => ResentInItsSession
<1>1. IInv /\ [Next]_vars =>
        [\A c \in Calls :
            st[c] \in {"lead", "queued"} /\ st'[c] = "sent" /\ HasToken(tok[c]) =>
                tok'[c].session = tok[c].session \/ c \in outlived \/ crossed']_vars
  <2>. SUFFICES ASSUME IInv, Next, NEW d \in Calls, st[d] \in {"lead", "queued"}, st'[d] = "sent",
                       HasToken(tok[d]), d \notin outlived, ~crossed'
                PROVE  tok'[d].session = tok[d].session
    OBVIOUS
  <2>. USE DEF IInv, TypeOK
  <2>1. ASSUME NEW c \in Calls, RenewalArrives(c) PROVE tok'[d].session = tok[d].session
    <3>1. ~crossed /\ held[c] = refresh
      BY <2>1 DEF RenewalArrives
    <3>2. tok[d].session = refresh
      BY <3>1 DEF CallsFollow, Out
    <3>3. tok'[d] = tok[d] \/ tok'[d].session = held[c]
      BY <2>1 DEF RenewalArrives
    <3>. QED  BY <3>1, <3>2, <3>3
  <2>2. ASSUME NEW c \in Calls, \/ OpenApp(c) \/ Request(c) \/ SubmitLogin(c)
                                \/ DataArrives(c) \/ MeArrives(c) \/ LoginArrives(c)
        PROVE  FALSE
    BY <2>2 DEF OpenApp, MountGuard, Request, SubmitLogin, Call, DataArrives, MeArrives, LoginArrives, Ends
  <2>3. ASSUME NEW c \in Calls,
               \/ CallFails(c) \/ RefusedAgain(c) \/ RefusedForGood(c)
               \/ RefusedAndQueued(c) \/ RefusedAndRenews(c) \/ RenewalFails(c)
        PROVE  FALSE
    BY <2>3 DEF CallFails, RefusedAgain, RefusedForGood, RefusedAndQueued, RefusedAndRenews,
                RenewalFails, Refused, Ends
  <2>4. CASE Logout \/ BackToLogin \/ Reload \/ \E k \in Sessions : Expire(k)
    BY <2>4 DEF Logout, BackToLogin, Reload, Expire, callVars
  <2>. QED  BY <2>1, <2>2, <2>3, <2>4 DEF Next, UserActs, Answer, Renewal
<1>. QED  BY <1>1, Invariance, PTL DEF Spec, ResentInItsSession
===============================================================================
