-------------------------- MODULE ConsoleRunsProofs --------------------------
(***************************************************************************)
(* Proofs about Recorder and RunScreens, for every number of sessions, of  *)
(* runs, of environments and outcomes, of rows on a page, and of           *)
(* disturbances.                                                           *)
(*                                                                         *)
(* RecordingIsFiled follows from what a session of the manager may be.     *)
(* OwnRunListed is carried from the backend to the cache: a run that was   *)
(* answered to its user exists; the backend lists a run that exists in the *)
(* first page, or a page of newer ones; an acknowledgement marks the       *)
(* answers that are on their way.                                          *)
(***************************************************************************)
EXTENDS Recorder, RunScreens, FiniteSetTheorems, SequenceTheorems, TLAPS

\* A session is idle or the manager's last; restarts are among the disturbances.
ManagerSound ==
    /\ started \in 0..MaxSessions
    /\ current \in 0..started /\ state \in States /\ ((state = "idle") <=> (current = NoSession))
    /\ history \subseteq 1..started /\ current \notin history
    /\ restarts \in Nat /\ events \in 0..MaxEvents /\ restarts <= events

PageSound ==
    /\ onPage \in BOOLEAN
    /\ status \in Entries(Status) /\ sessions \in Entries(SUBSET Sessions)
    /\ control \in Call(Controls) /\ file \in Call({"replay", "generate"})
    /\ replayDialogOpen \in BOOLEAN
    /\ selectedSession \in Sessions \cup {NoSession}
    /\ replayResult \in Sessions \cup {NoSession}

RecorderIInv == ManagerSound /\ PageSound

-------------------------------------------------------------------------------
\* What a query does keeps the type of its entry.
LEMMA EntryTypes ==
    ASSUME NEW V, NEW e \in Entries(V)
    PROVE  /\ Fetched(e) \in Entries(V) /\ Mounted(e) \in Entries(V)
           /\ \A active \in BOOLEAN : Invalidated(e, active) \in Entries(V)
           /\ \A value \in V : Served(e, value) \in Entries(V)
           /\ Arrived(e) \in Entries(V) /\ Failed(e) \in Entries(V) /\ Aged(e) \in Entries(V)
<1>1. ASSUME NEW d \in Entries(V) PROVE Fetched(d) \in Entries(V)
  BY DEF Entries, Fetched, Has, Nothing
<1>2. [e EXCEPT !.fresh = FALSE] \in Entries(V)
  BY DEF Entries
<1>3. [e EXCEPT !.fresh = FALSE, !.old = @ \/ e.fetch # "none"] \in Entries(V)
  BY DEF Entries
<1>4. ASSUME NEW active \in BOOLEAN PROVE Invalidated(e, active) \in Entries(V)
  BY <1>1, <1>2, <1>3 DEF Invalidated
<1>5. ASSUME NEW value \in V PROVE Served(e, value) \in Entries(V)
  BY DEF Entries, Served
<1>6. Arrived(e) \in Entries(V) /\ Failed(e) \in Entries(V) /\ Aged(e) \in Entries(V)
  BY DEF Entries, Arrived, Failed, Aged, Nothing
<1>. QED  BY <1>1, <1>4, <1>5, <1>6 DEF Mounted

\* An entry is there without a value of its type, too.
LEMMA BlankEntry == ASSUME NEW V PROVE Blank \in Entries(V)
  BY DEF Blank, Entries, Nothing

-------------------------------------------------------------------------------
\* The operations of the manager.
LEMMA DoesStep ==
    ASSUME ManagerSound, NEW kind \in Controls, Does(kind), events' \in {events, events + 1},
           events' \in 0..MaxEvents
    PROVE  ManagerSound'
<1>. USE RecorderAssumption, EventsAssumption DEF ManagerSound, is_recording, NoSession, States
<1>1. CASE Starts
  <2>1. started' = started + 1 /\ started' \in 1..MaxSessions /\ current' = started' /\ state' = "recording"
    BY <1>1 DEF Starts
  <2>2. history' = history /\ restarts' = restarts /\ history \subseteq 1..started
    BY <1>1 DEF Starts
  <2>3. history' \subseteq 1..started' /\ current' \notin history'
    BY <2>1, <2>2
  <2>. QED  BY <2>1, <2>2, <2>3
<1>2. CASE Stops
  BY <1>2 DEF Stops
<1>3. CASE Pauses
  BY <1>3 DEF Pauses
<1>. QED  BY <1>1, <1>2, <1>3 DEF Does

\* The manager, with what else may change it: clients, and the end of the process.
LEMMA ManagerStep == RecorderIInv /\ [RecorderNext]_recorderVars => ManagerSound'
<1>. SUFFICES ASSUME RecorderIInv, [RecorderNext]_recorderVars PROVE ManagerSound'
  OBVIOUS
<1>1. CASE manager' = manager /\ events' \in {events, events + 1} /\ events' \in 0..MaxEvents
  BY <1>1 DEF RecorderIInv, ManagerSound, manager
<1>2. CASE OtherClient
  <2>1. events' = events + 1 /\ events' \in 0..MaxEvents
    BY <1>2, RecorderAssumption, EventsAssumption DEF OtherClient, Event, RecorderIInv, ManagerSound
  <2>2. CASE Resumes
    BY <1>1, <2>1, <2>2 DEF Resumes
  <2>. QED  BY <1>2, <2>1, <2>2, DoesStep DEF OtherClient, RecorderIInv
<1>3. CASE Restart
  BY <1>3, RecorderAssumption, EventsAssumption DEF Restart, Event, RecorderIInv, ManagerSound, NoSession, States
<1>4. CASE ControlServed
  <2>1. control.kind \in Controls /\ events \in 0..MaxEvents
    BY DEF RecorderIInv, PageSound, ManagerSound, Call
  <2>2. events' \in {events, events + 1} /\ events' \in 0..MaxEvents
    BY <1>4, <2>1, EventsAssumption DEF ControlServed, Event
  <2>. QED  BY <1>1, <1>4, <2>1, <2>2, DoesStep DEF ControlServed, RecorderIInv
<1>5. CASE LeavePage \/ FailsOrAges
  BY <1>1, <1>5, RecorderAssumption, EventsAssumption DEF LeavePage, FailsOrAges, Event, RecorderIInv, ManagerSound
<1>6. CASE \/ RecorderPage \/ PollStatus \/ StatusServed \/ StatusArrives \/ SessionsServed \/ SessionsArrive
           \/ handleStart \/ handleStop \/ handlePause \/ ControlArrives \/ ControlFails
           \/ CloseReplay \/ handleReplaySubmit \/ FileServed \/ FileArrives
           \/ \E s \in Sessions : handleReplay(s) \/ handleGenerate(s)
           \/ UNCHANGED recorderVars
  <2>1. manager' = manager /\ events' = events
    BY <1>6 DEF RecorderPage, PollStatus, StatusServed, StatusArrives, SessionsServed, SessionsArrive,
                handleStart, handleStop, handlePause, Press, ControlArrives, ControlFails, CloseReplay,
                handleReplaySubmit, Send, FileServed, FileArrives, handleReplay, handleGenerate, recorderVars
  <2>. QED  BY <1>1, <2>1 DEF RecorderIInv, ManagerSound
<1>. QED  BY <1>2, <1>3, <1>4, <1>5, <1>6 DEF RecorderNext

\* The two queries of the page.
LEMMA QueriesStep ==
    RecorderIInv /\ [RecorderNext]_recorderVars => status' \in Entries(Status) /\ sessions' \in Entries(SUBSET Sessions)
<1>. SUFFICES ASSUME RecorderIInv, [RecorderNext]_recorderVars
              PROVE  status' \in Entries(Status) /\ sessions' \in Entries(SUBSET Sessions)
  OBVIOUS
<1>1. [session |-> current, state |-> state] \in Status
  <2>1. current \in Sessions \cup {NoSession}
    BY RecorderAssumption, EventsAssumption DEF RecorderIInv, ManagerSound, Sessions, NoSession
  <2>2. state \in States
    BY DEF RecorderIInv, ManagerSound
  <2>. QED  BY <2>1, <2>2 DEF Status
<1>2. history \in SUBSET Sessions
  BY RecorderAssumption, EventsAssumption DEF RecorderIInv, ManagerSound, Sessions
<1>3. onPage \in BOOLEAN /\ status \in Entries(Status) /\ sessions \in Entries(SUBSET Sessions)
  BY DEF RecorderIInv, PageSound
<1>4. CASE status' = status /\ sessions' = sessions
  BY <1>3, <1>4
<1>5. /\ Fetched(status) \in Entries(Status) /\ Mounted(status) \in Entries(Status)
      /\ Invalidated(status, onPage) \in Entries(Status) /\ Arrived(status) \in Entries(Status)
      /\ Served(status, [session |-> current, state |-> state]) \in Entries(Status)
      /\ Failed(status) \in Entries(Status)
  BY <1>1, <1>3, EntryTypes
<1>6. /\ Mounted(sessions) \in Entries(SUBSET Sessions)
      /\ Invalidated(sessions, onPage) \in Entries(SUBSET Sessions)
      /\ Arrived(sessions) \in Entries(SUBSET Sessions)
      /\ Served(sessions, history) \in Entries(SUBSET Sessions)
      /\ Failed(sessions) \in Entries(SUBSET Sessions) /\ Aged(sessions) \in Entries(SUBSET Sessions)
  BY <1>2, <1>3, EntryTypes
<1>7. CASE \/ RecorderPage \/ PollStatus \/ StatusServed \/ StatusArrives \/ SessionsServed \/ SessionsArrive
           \/ FailsOrAges \/ ControlArrives
  BY <1>3, <1>5, <1>6, <1>7 DEF RecorderPage, PollStatus, StatusServed, StatusArrives, SessionsServed,
                                SessionsArrive, FailsOrAges, ControlArrives
<1>8. CASE \/ OtherClient \/ Restart \/ LeavePage \/ handleStart \/ handleStop \/ handlePause
           \/ ControlServed \/ ControlFails \/ CloseReplay \/ handleReplaySubmit \/ FileServed \/ FileArrives
           \/ \E s \in Sessions : handleReplay(s) \/ handleGenerate(s)
           \/ UNCHANGED recorderVars
  BY <1>4, <1>8 DEF OtherClient, Restart, LeavePage, handleStart, handleStop, handlePause, Press,
                    ControlServed, ControlFails, CloseReplay, handleReplaySubmit, Send, FileServed,
                    FileArrives, handleReplay, handleGenerate, recorderVars
<1>. QED  BY <1>7, <1>8 DEF RecorderNext
\* What the page keeps itself.
LEMMA RecorderPageStep == RecorderIInv /\ [RecorderNext]_recorderVars => PageSound'
<1>. SUFFICES ASSUME RecorderIInv, [RecorderNext]_recorderVars PROVE PageSound'
  OBVIOUS
<1>1. status' \in Entries(Status) /\ sessions' \in Entries(SUBSET Sessions)
  BY QueriesStep
<1>. USE <1>1 DEF RecorderIInv, PageSound, Call, Controls, Sessions, NoSession
<1>2. CASE RecorderPage \/ PollStatus \/ StatusServed \/ StatusArrives \/ SessionsServed \/ SessionsArrive \/ FailsOrAges
  BY <1>2 DEF RecorderPage, PollStatus, StatusServed, StatusArrives, SessionsServed, SessionsArrive, FailsOrAges, dialog
<1>3. CASE OtherClient \/ Restart \/ CloseReplay \/ UNCHANGED recorderVars
  BY <1>3 DEF OtherClient, Restart, CloseReplay, dialog, recorderVars
<1>4. CASE LeavePage
  BY <1>4 DEF LeavePage
<1>5. CASE handleStart \/ handleStop \/ handlePause
  <2>1. PICK kind \in Controls : Press(kind)
    BY <1>5 DEF handleStart, handleStop, handlePause
  <2>2. [kind |-> kind, mine |-> TRUE, of |-> NoSession, st |-> "sent"] \in Call(Controls)
    OBVIOUS
  <2>. QED  BY <2>1, <2>2 DEF Press, dialog
<1>6. CASE ControlServed
  BY <1>6 DEF ControlServed, dialog
<1>7. CASE ControlArrives \/ ControlFails
  <2>1. control' = NoControl /\ NoControl \in Call(Controls)
    BY <1>7 DEF ControlArrives, ControlFails, NoControl
  <2>. QED  BY <1>7, <2>1 DEF ControlArrives, ControlFails, dialog
<1>8. CASE handleReplaySubmit
  BY <1>8 DEF handleReplaySubmit, Send, dialog
<1>9. CASE FileServed
  BY <1>9 DEF FileServed, dialog
<1>10. CASE FileArrives
  BY <1>10 DEF FileArrives, NoFile
<1>11. ASSUME NEW s \in Sessions, handleReplay(s) PROVE PageSound'
  BY <1>11 DEF handleReplay
<1>12. ASSUME NEW s \in Sessions, handleGenerate(s) PROVE PageSound'
  BY <1>12 DEF handleGenerate, Send, dialog
<1>. QED  BY <1>2, <1>3, <1>4, <1>5, <1>6, <1>7, <1>8, <1>9, <1>10, <1>11, <1>12 DEF RecorderNext

-------------------------------------------------------------------------------
\* The invariant holds at first.
LEMMA RecorderBegins == RecorderInit => RecorderIInv
<1>. SUFFICES ASSUME RecorderInit PROVE RecorderIInv
  OBVIOUS
<1>1. ManagerSound
  BY RecorderAssumption, EventsAssumption DEF RecorderInit, ManagerSound, States, NoSession
<1>2. status \in Entries(Status) /\ sessions \in Entries(SUBSET Sessions)
  BY BlankEntry DEF RecorderInit
<1>. QED  BY <1>1, <1>2 DEF RecorderInit, RecorderIInv, PageSound, NoControl, NoFile, Call, Controls, NoSession

\* The manager and the page are as they should be in every state.
THEOREM RecorderInvariance == RecorderSpec => []RecorderIInv
<1>1. RecorderIInv /\ [RecorderNext]_recorderVars => RecorderIInv'
  BY ManagerStep, RecorderPageStep DEF RecorderIInv
<1>. QED  BY <1>1, RecorderBegins, PTL DEF RecorderSpec

\* Every variable has its type; the session of the manager is never one of the archive.
THEOREM RecorderTypeCorrect == RecorderSpec => []RecorderTypeOK
<1>1. RecorderIInv => RecorderTypeOK
  BY RecorderAssumption, EventsAssumption DEF RecorderIInv, ManagerSound, PageSound, RecorderTypeOK
<1>. QED  BY <1>1, RecorderInvariance, PTL

\* No order of calls, however many pages and clients make them, replaces a session that is
\* recording: start refuses, stop archives, pause keeps, and only a restart forgets.
THEOREM RecordingsAreFiled == RecorderSpec => RecordingIsFiled
<1>1. RecorderIInv /\ [RecorderNext]_recorderVars =>
        [is_recording /\ current' # current => current \in history' \/ restarts' # restarts]_recorderVars
  <2>. SUFFICES ASSUME RecorderIInv, RecorderNext, is_recording, current' # current
                PROVE  current \in history' \/ restarts' # restarts
    OBVIOUS
  <2>1. CASE Restart
    BY <2>1 DEF Restart, RecorderIInv, ManagerSound
  <2>2. ASSUME NEW kind \in Controls, Does(kind) PROVE current \in history'
    BY <2>2 DEF Does, Starts, Stops, Pauses
  <2>3. CASE OtherClient
    BY <2>2, <2>3 DEF OtherClient, Resumes, manager
  <2>4. CASE ControlServed
    BY <2>2, <2>4 DEF ControlServed, manager, RecorderIInv, PageSound, Call
  <2>. QED  BY <2>1, <2>3, <2>4 DEF RecorderNext, RecorderPage, LeavePage, PollStatus, StatusServed, StatusArrives,
         SessionsServed, SessionsArrive, FailsOrAges, handleStart, handleStop, handlePause, Press,
         ControlArrives, ControlFails, CloseReplay, handleReplaySubmit, Send, FileServed, FileArrives,
         handleReplay, handleGenerate, manager
<1>. QED  BY <1>1, RecorderInvariance, PTL DEF RecorderSpec, RecordingIsFiled

-------------------------------------------------------------------------------
(***************************************************************************)
(* The pages that show runs.                                               *)
(*                                                                         *)
(* A run that was answered to its user exists, so the backend lists it at  *)
(* first, or a page of newer ones; an answer that no acknowledgement has   *)
(* overtaken still does when it has become data.                           *)
(***************************************************************************)

\* What OwnRunListed says of one list.
Finds(l) == \A r \in acked : HasRun(l, r)

\* The runs that are named somewhere exist.
RunsKnown ==
    /\ acked \subseteq DOMAIN runs
    /\ trigger.st = "ok" => trigger.run \in DOMAIN runs
    /\ \A p \in Runs \X Parts : detail[p].fetch # "none" => p[1] \in DOMAIN runs

\* The answer for the first page that is on its way, and OwnRunListed itself.
AnswerFinds ==
    LET e == query[FirstPage]
    IN e.fetch = "served" /\ ~e.old => \A l \in e.ans : Finds(l)

ScreensIInv == TypeOK /\ RunsKnown /\ AnswerFinds /\ OwnRunListed

\* The parts of the type invariant.
RunsTyped ==
    /\ runs \in Seq(Run) /\ Len(runs) <= MaxRuns
    /\ visits \in 0..MaxVisits /\ events \in 0..MaxEvents

ListTyped ==
    /\ screen \in Screens /\ page \in {screen, "elsewhere"} /\ canEdit \in BOOLEAN
    /\ key \in Keys
    /\ triggerOpen \in BOOLEAN /\ globalEnv \in Envs
    /\ trigger \in [st: {"idle", "sent", "ok", "refused"}, env: Envs, run: 0..MaxRuns,
                    by: {"dialog", "left", "other"}]
    /\ acked \subseteq Runs

ViewTyped ==
    /\ subject \in Runs /\ detail \in [Runs \X Parts -> Entries(Statuses)]
    /\ envFilter \in Filters /\ reports \in [Filters -> Entries(SUBSET Runs)]
    /\ dashboard \in Entries(Figures)
    /\ pieces \in [Calls -> 0..NotServed]

LEMMA ScreensTypeParts ==
    TypeOK <=> RunsTyped /\ ListTyped /\ ViewTyped /\ query \in [Keys -> Entries(Lists)]
BY DEF TypeOK, RunsTyped, ListTyped, ViewTyped

\* Pages of at least one row are no more than there are rows.
LEMMA PagesBounded ==
    ASSUME NEW n \in Nat, NEW size \in Nat \ {0}
    PROVE  (n + size - 1) \div size \in 0..n
<1>1. CASE n = 0
  BY <1>1
<1>2. CASE n # 0
  <2>1. n * size \in Nat /\ n + size - 1 \in Nat
    OBVIOUS
  <2>2. n + size - 1 <= n * size
    <3>1. PICK m \in Nat, s \in Nat : n = m + 1 /\ size = s + 1
      BY <1>2
    <3>2. m * s \in Nat /\ n * size = m * s + m + s + 1
      BY <3>1
    <3>. QED  BY <3>1, <3>2
  <2>3. (n * size) \div size = n
    BY SMT
  <2>4. \A a, b \in Nat : a <= b => a \div size <= b \div size
    BY SMT
  <2>5. (n + size - 1) \div size \in Nat
    BY SMT, <2>1
  <2>. QED  BY <2>1, <2>2, <2>3, <2>4, <2>5
<1>. QED  BY <1>1, <1>2

\* The runs are numbered from the first, and are no more than there may be.
LEMMA RunNumbers ==
    ASSUME TypeOK
    PROVE  /\ Len(runs) \in 0..MaxRuns /\ DOMAIN runs = 1..Len(runs) /\ DOMAIN runs \subseteq Runs
           /\ \A r \in DOMAIN runs : runs[r] \in Run /\ runs[r].status \in Statuses
<1>1. Len(runs) \in Nat /\ DOMAIN runs = 1..Len(runs) /\ runs \in [1..Len(runs) -> Run]
  BY LenProperties DEF TypeOK
<1>2. Len(runs) <= MaxRuns /\ MaxRuns \in Nat
  BY ScreensAssumption DEF TypeOK
<1>. QED  BY <1>1, <1>2 DEF Runs, Run

\* What the backend lists is a list.
LEMMA ExecutionsTyped == ASSUME TypeOK, NEW k \in Keys PROVE ExecutionsListed(k) \in Lists
<1>. DEFINE all == Matching(k.status)
<1>1. all \subseteq DOMAIN runs
  BY DEF Matching
<1>2. MaxRuns \in Nat \ {0} /\ PageSize \in Nat \ {0}
  BY ScreensAssumption
<1>3. IsFiniteSet(Runs) /\ Cardinality(Runs) = MaxRuns
  BY <1>2, FS_Interval DEF Runs
<1>4. IsFiniteSet(all) /\ Cardinality(all) <= MaxRuns
  BY <1>1, <1>3, RunNumbers, FS_Subset
<1>5. Cardinality(all) \in Nat
  BY <1>4, FS_CardinalityType
<1>6. PagesOf(k) \in 0..Cardinality(all)
  <2>1. PagesOf(k) = (Cardinality(all) + PageSize - 1) \div PageSize
    BY DEF PagesOf
  <2>. HIDE DEF all
  <2>. QED  BY <1>2, <1>5, <2>1, PagesBounded
<1>7. RowsListed(k) \in [Runs -> Statuses \cup {"absent"}]
  <2>1. \A r \in all : runs[r].status \in Statuses
    BY <1>1, RunNumbers
  <2>. DEFINE newer(r) == Cardinality({q \in all : q > r})
              from == (k.page - 1) * PageSize
  <2>2. RowsListed(k) = [r \in Runs |-> IF r \in all /\ newer(r) >= from /\ newer(r) < from + PageSize
                                          THEN runs[r].status ELSE "absent"]
    BY DEF RowsListed
  <2>. HIDE DEF all, newer, from
  <2>. QED  BY <2>1, <2>2
<1>. HIDE DEF all
<1>8. (IF PagesOf(k) = 0 THEN 1 ELSE PagesOf(k)) \in Runs
  BY <1>2, <1>4, <1>5, <1>6 DEF Runs
<1>. QED  BY <1>7, <1>8 DEF ExecutionsListed, Lists

\* Of the runs that exist, the first page lists each, or a page of newer ones.
LEMMA FirstPageFinds ==
    ASSUME TypeOK, NEW r \in DOMAIN runs
    PROVE  LET l == ExecutionsListed(FirstPage) IN
           r \in RowsOf(l) \/ Cardinality({q \in RowsOf(l) : q > r}) = PageSize
<1>. DEFINE n == Len(runs)
            l == ExecutionsListed(FirstPage)
<1>1. n \in Nat /\ DOMAIN runs = 1..n /\ n <= MaxRuns /\ r \in 1..n /\ PageSize \in Nat \ {0}
      /\ MaxRuns \in Nat
  BY RunNumbers, ScreensAssumption
<1>2. Matching(FirstPage.status) = 1..n
  BY <1>1 DEF Matching, FirstPage
<1>. HIDE DEF n
<1>3. \A i \in 1..n : Cardinality({q \in 1..n : q > i}) = n - i
  <2>. SUFFICES ASSUME NEW i \in 1..n PROVE Cardinality({q \in 1..n : q > i}) = n - i
    OBVIOUS
  <2>1. {q \in 1..n : q > i} = (i + 1)..n
    BY <1>1
  <2>2. i \in Nat /\ i + 1 \in Int /\ i <= n
    BY <1>1
  <2>3. Cardinality((i + 1)..n) = IF i + 1 > n THEN 0 ELSE n - (i + 1) + 1
    BY <1>1, <2>2, FS_Interval
  <2>4. (IF i + 1 > n THEN 0 ELSE n - (i + 1) + 1) = n - i
    BY <1>1, <2>2
  <2>. QED  BY <2>1, <2>3, <2>4
<1>4. (FirstPage.page - 1) * PageSize = 0
  BY <1>1 DEF FirstPage
<1>5. l.rows = [i \in Runs |-> IF i \in 1..n /\ Cardinality({q \in 1..n : q > i}) >= 0
                                  /\ Cardinality({q \in 1..n : q > i}) < 0 + PageSize
                                 THEN runs[i].status ELSE "absent"]
  BY <1>2, <1>4 DEF ExecutionsListed, RowsListed
<1>6. \A i \in 1..n : runs[i].status # "absent"
  BY <1>1, RunNumbers, ScreensAssumption DEF Statuses
<1>7. 1..n \subseteq Runs
  BY <1>1 DEF Runs
<1>8. RowsOf(l) = {i \in 1..n : n - i < PageSize}
  <2>1. \A i \in 1..n : /\ Cardinality({q \in 1..n : q > i}) >= 0
                        /\ Cardinality({q \in 1..n : q > i}) < 0 + PageSize <=> n - i < PageSize
    BY <1>1, <1>3
  <2>2. \A i \in Runs : l.rows[i] # "absent" <=> i \in 1..n /\ n - i < PageSize
    BY <1>5, <1>6, <2>1
  <2>. QED  BY <1>7, <2>2 DEF RowsOf
<1>. HIDE DEF l
<1>9. CASE n - r < PageSize
  BY <1>1, <1>8, <1>9 DEF l
<1>10. CASE ~(n - r < PageSize)
  <2>1. {q \in RowsOf(l) : q > r} = (n - PageSize + 1)..n
    BY <1>1, <1>8, <1>10
  <2>2. n - PageSize + 1 <= n /\ n - PageSize + 1 \in Int
    BY <1>1
  <2>3. Cardinality((n - PageSize + 1)..n) = n - (n - PageSize + 1) + 1
    BY <1>1, <2>2, FS_Interval
  <2>4. n - (n - PageSize + 1) + 1 = PageSize
    BY <1>1
  <2>. QED  BY <2>1, <2>3, <2>4 DEF l
<1>. QED  BY <1>9, <1>10

-------------------------------------------------------------------------------
\* What happens to a list of the cache; the runs that are acknowledged are more only where
\* every list is invalidated.
ListMove(k) ==
    \/ /\ acked' = acked
       /\ \/ query'[k] = query[k] \/ query'[k] = Mounted(query[k]) \/ query'[k] = Fetched(query[k])
          \/ query'[k] = Failed(query[k]) \/ query'[k] = Aged(query[k])
          \/ query'[k] = Served(query[k], ExecutionsListed(k))
          \/ query[k].fetch = "served" /\ query'[k] = Arrived(query[k])
    \/ query'[k] = Invalidated(query[k], page = "executions" /\ k = key)

\* The list that a tab, or the button of the previous or of the next page, shows.
LEMMA ShownLists ==
    ASSUME TypeOK, SelectTab \/ PrevPage \/ NextPage
    PROVE  \E k \in Keys : ShowList(k)
<1>1. MaxRuns \in Nat \ {0} /\ key \in Keys /\ key.page \in 1..MaxRuns
  BY ScreensAssumption DEF TypeOK, Keys, Runs
<1>2. CASE SelectTab
  <2>1. PICK s \in {"all"} \cup Tabs : ShowList([page |-> 1, status |-> s])
    BY <1>2 DEF SelectTab
  <2>2. [page |-> 1, status |-> s] \in Keys
    BY <1>1 DEF Keys, Runs
  <2>. QED  BY <2>1, <2>2
<1>3. CASE PrevPage
  <2>1. ShowList([key EXCEPT !.page = @ - 1]) /\ key.page - 1 \in Runs
    BY <1>1, <1>3 DEF PrevPage, Runs
  <2>. QED  BY <1>1, <2>1 DEF Keys
<1>4. CASE NextPage
  <2>1. totalPages \in 1..MaxRuns
    <3>1. CASE Has(query[key])
      <4>1. query[key].data \subseteq Lists /\ query[key].data # {}
        BY <1>1, <3>1 DEF TypeOK, Entries, Has, Nothing
      <4>2. (CHOOSE l \in query[key].data : TRUE) \in Lists
        BY <4>1
      <4>. QED  BY <3>1, <4>2 DEF totalPages, Lists, Runs
    <3>. QED  BY <1>1, <3>1 DEF totalPages
  <2>2. ShowList([key EXCEPT !.page = @ + 1]) /\ key.page + 1 \in Runs
    BY <1>1, <1>4, <2>1 DEF NextPage, Runs
  <2>. QED  BY <1>1, <2>2 DEF Keys
<1>. QED  BY <1>2, <1>3, <1>4

LEMMA ListMoves ==
    TypeOK /\ [Next]_vars => query' = [k \in Keys |-> query'[k]] /\ \A k \in Keys : ListMove(k)
<1>. SUFFICES ASSUME TypeOK, [Next]_vars
     PROVE  query' = [k \in Keys |-> query'[k]] /\ \A k \in Keys : ListMove(k)
  OBVIOUS
<1>. USE DEF listVars, viewVars
<1>1. query = [k \in Keys |-> query[k]] /\ FirstPage \in Keys /\ key \in Keys
  <2>1. FirstPage \in Keys
    BY ScreensAssumption DEF Keys, FirstPage, Runs
  <2>. QED  BY <2>1 DEF TypeOK
<1>2. ASSUME NEW k \in Keys, acked' = acked,
             \/ query' = [query EXCEPT ![k] = Mounted(@)]
             \/ query' = [query EXCEPT ![k] = Fetched(@)]
             \/ query' = [query EXCEPT ![k] = Failed(query[k])]
             \/ query' = [query EXCEPT ![k] = Aged(query[k])]
             \/ query' = [query EXCEPT ![k] = Served(query[k], ExecutionsListed(k))]
             \/ query[k].fetch = "served" /\ query' = [query EXCEPT ![k] = Arrived(query[k])]
      PROVE  query' = [q \in Keys |-> query'[q]] /\ \A q \in Keys : ListMove(q)
  <2>1. query' = [q \in Keys |-> query'[q]] /\ \A q \in Keys : q # k => query'[q] = query[q]
    BY <1>1, <1>2
  <2>2. ListMove(k)
    BY <1>1, <1>2 DEF ListMove
  <2>. QED  BY <1>2, <2>1, <2>2 DEF ListMove
<1>3. CASE ExecutionsPage
  BY <1>1, <1>2, <1>3 DEF ExecutionsPage, Opens
<1>4. CASE SelectTab \/ PrevPage \/ NextPage
  BY <1>2, <1>4, ShownLists DEF ShowList
<1>5. CASE Poll
  BY <1>1, <1>2, <1>5 DEF Poll
<1>6. ASSUME NEW k \in Keys, ListServed(k) \/ ListArrives(k) \/ ListFailsOrAges(k)
      PROVE  query' = [q \in Keys |-> query'[q]] /\ \A q \in Keys : ListMove(q)
  BY <1>2, <1>6 DEF ListServed, ListArrives, ListFailsOrAges, ListChanges
<1>7. CASE TriggerArrives
  BY <1>7 DEF TriggerArrives, ExecutionsInvalidated, ListMove
<1>8. CASE query' = query /\ acked' = acked
  BY <1>1, <1>8 DEF ListMove
<1>9. CASE \/ OtherRun \/ TriggerServed \/ Leave \/ ReportsPage \/ DashboardPage
           \/ OpenTrigger \/ CancelTrigger \/ handleTrigger \/ TriggerElsewhere \/ TriggerFails
           \/ FilterReports \/ DashboardArrives \/ DashboardFailsOrAges
           \/ \E r \in Runs : RunEnds(r) \/ ExecutionDetailPage(r)
  <2>1. query' = query /\ acked' = acked
    BY <1>9 DEF OtherRun, TriggerServed, Leave, ReportsPage, DashboardPage, OpenTrigger, CancelTrigger,
                handleTrigger, TriggerElsewhere, TriggerFails, FilterReports, DashboardArrives,
                DashboardFailsOrAges,
                RunEnds, ExecutionDetailPage, Opens
  <2>. QED  BY <1>8, <2>1
<1>10. CASE \/ \E p \in Runs \X Parts : PartServed(p) \/ PartArrives(p) \/ PartFailsOrAges(p)
            \/ \E f \in Filters : ReportsServed(f) \/ ReportsArrive(f) \/ ReportsFailOrAge(f)
            \/ \E call \in Calls : PieceServed(call)
            \/ UNCHANGED vars
  <2>1. query' = query /\ acked' = acked
    BY <1>10 DEF PartServed, PartArrives, PartFailsOrAges, PartChanges, ReportsServed, ReportsArrive,
                 ReportsFailOrAge, ReportsChange, PieceServed, vars
  <2>. QED  BY <1>8, <2>1
<1>11. CASE ElsewhereArrives
  <2>1. /\ acked' = acked
        /\ query' = query \/ query' = [query EXCEPT ![FirstPage] = Mounted(@)]
    BY <1>11 DEF ElsewhereArrives
  <2>. QED  BY <1>1, <1>2, <1>8, <2>1
<1>. QED  BY <1>3, <1>4, <1>5, <1>6, <1>7, <1>9, <1>10, <1>11 DEF Next

LEMMA ListsStep == TypeOK /\ [Next]_vars => query' \in [Keys -> Entries(Lists)]
<1>. SUFFICES ASSUME TypeOK, [Next]_vars PROVE query' \in [Keys -> Entries(Lists)]
  OBVIOUS
<1>1. ASSUME NEW k \in Keys PROVE query'[k] \in Entries(Lists)
  <2>1. query[k] \in Entries(Lists) /\ ExecutionsListed(k) \in Lists
    BY ExecutionsTyped DEF TypeOK
  <2>2. (page = "executions" /\ k = key) \in BOOLEAN
    OBVIOUS
  <2>3. ListMove(k)
    BY ListMoves
  <2>4. /\ Fetched(query[k]) \in Entries(Lists) /\ Mounted(query[k]) \in Entries(Lists)
        /\ \A active \in BOOLEAN : Invalidated(query[k], active) \in Entries(Lists)
        /\ Served(query[k], ExecutionsListed(k)) \in Entries(Lists)
        /\ Arrived(query[k]) \in Entries(Lists)
        /\ Failed(query[k]) \in Entries(Lists) /\ Aged(query[k]) \in Entries(Lists)
    BY <2>1, EntryTypes
  <2>. QED  BY <2>1, <2>2, <2>3, <2>4 DEF ListMove
<1>. QED  BY <1>1, ListMoves

-------------------------------------------------------------------------------
\* OwnRunListed and AnswerFinds, of an entry.
DataFinds(e) == Settled(e) => \A l \in e.data : Finds(l)
AnsFinds(e) == e.fetch = "served" /\ ~e.old => \A l \in e.ans : Finds(l)

LEMMA FirstPageParts ==
    /\ OwnRunListed <=> DataFinds(query[FirstPage])
    /\ AnswerFinds <=> AnsFinds(query[FirstPage])
BY DEF OwnRunListed, AnswerFinds, DataFinds, AnsFinds, Finds

\* A load that starts has no answer yet; what is marked or has failed claims nothing; an
\* answer is served with the runs that are known, and becomes the data.
LEMMA FirstPageStep ==
    TypeOK /\ RunsKnown /\ AnswerFinds /\ OwnRunListed /\ [Next]_vars => AnswerFinds' /\ OwnRunListed'
<1>. SUFFICES ASSUME TypeOK, RunsKnown, AnswerFinds, OwnRunListed, [Next]_vars
     PROVE  AnswerFinds' /\ OwnRunListed'
  OBVIOUS
<1>. DEFINE e == query[FirstPage]
            f == query'[FirstPage]
<1>1. FirstPage \in Keys
  BY ScreensAssumption DEF Keys, FirstPage, Runs
<1>2. e \in Entries(Lists) /\ ExecutionsListed(FirstPage) \in Lists
  BY <1>1, ExecutionsTyped DEF TypeOK
<1>3. ListMove(FirstPage)
  BY <1>1, ListMoves
<1>4. DataFinds(e) /\ AnsFinds(e)
  BY FirstPageParts
<1>5. /\ OwnRunListed' <=> DataFinds(e)'
      /\ AnswerFinds' <=> AnsFinds(e)'
  BY DEF OwnRunListed, AnswerFinds, DataFinds, AnsFinds, Finds
<1>6. CASE acked' = acked /\ f = e
  BY <1>4, <1>5, <1>6 DEF DataFinds, AnsFinds, Finds
<1>7. CASE f.fetch = "sent"
  BY <1>5, <1>7 DEF DataFinds, AnsFinds, Settled
<1>8. ASSUME NEW d \in Entries(Lists) PROVE Fetched(d).fetch = "sent"
  BY DEF Entries, Fetched
<1>9. CASE acked' = acked /\ (f = Mounted(e) \/ f = Fetched(e))
  BY <1>2, <1>6, <1>7, <1>8, <1>9 DEF Mounted
<1>10. CASE f = Failed(e)
  <2>1. f.fetch = "none" /\ f.err
    BY <1>2, <1>10 DEF Entries, Failed
  <2>. QED  BY <1>5, <2>1 DEF DataFinds, AnsFinds, Settled
<1>11. CASE acked' = acked /\ f = Aged(e)
  <2>1. ~f.fresh /\ f.fetch = e.fetch /\ f.old = e.old /\ f.ans = e.ans
    BY <1>2, <1>11 DEF Entries, Aged
  <2>. QED  BY <1>4, <1>5, <1>11, <2>1 DEF DataFinds, AnsFinds, Finds, HasRun, RowsOf, Settled, Current
<1>12. CASE acked' = acked /\ f = Served(e, ExecutionsListed(FirstPage))
  <2>1. f.fetch = "served" /\ f.ans = {ExecutionsListed(FirstPage)}
    BY <1>2, <1>12 DEF Entries, Served
  <2>2. Finds(ExecutionsListed(FirstPage))
    BY FirstPageFinds DEF RunsKnown, Finds, HasRun
  <2>. QED  BY <1>5, <1>12, <2>1, <2>2 DEF DataFinds, AnsFinds, Finds, HasRun, Settled
<1>13. CASE acked' = acked /\ e.fetch = "served" /\ f = Arrived(e)
  <2>1. f.fetch = "none" /\ f.data = e.ans /\ f.old = e.old
    BY <1>2, <1>13 DEF Entries, Arrived
  <2>. QED  BY <1>4, <1>5, <1>13, <2>1 DEF DataFinds, AnsFinds, Finds, HasRun, Settled, Current
<1>14. CASE f = Invalidated(e, page = "executions" /\ FirstPage = key)
  <2>1. CASE f = Fetched([e EXCEPT !.fresh = FALSE])
    <3>1. [e EXCEPT !.fresh = FALSE] \in Entries(Lists)
      BY <1>2 DEF Entries
    <3>. QED  BY <1>7, <1>8, <2>1, <3>1
  <2>2. CASE f = [e EXCEPT !.fresh = FALSE, !.old = @ \/ e.fetch # "none"]
    <3>1. ~f.fresh /\ f.fetch = e.fetch /\ (f.fetch = "served" => f.old)
      BY <1>2, <2>2 DEF Entries
    <3>. QED  BY <1>5, <3>1 DEF DataFinds, AnsFinds, Settled, Current
  <2>. QED  BY <1>14, <2>1, <2>2 DEF Invalidated
<1>. QED  BY <1>3, <1>6, <1>9, <1>10, <1>11, <1>12, <1>13, <1>14 DEF ListMove

-------------------------------------------------------------------------------
\* What happens to the runs.
RunsMove ==
    \/ runs' = runs
    \/ \E r \in DOMAIN runs, s \in Outcomes : runs' = [runs EXCEPT ![r].status = s]
    \/ \E env \in Envs : Created(env)

LEMMA RunsMoves == TypeOK /\ [Next]_vars => RunsMove
<1>. SUFFICES ASSUME TypeOK, [Next]_vars PROVE RunsMove
  OBVIOUS
<1>. USE DEF RunsMove
<1>1. CASE OtherRun
  BY <1>1, ScreensAssumption DEF OtherRun
<1>2. CASE TriggerServed
  BY <1>2 DEF TriggerServed, TypeOK
<1>3. ASSUME NEW r \in Runs, RunEnds(r) PROVE RunsMove
  BY <1>3 DEF RunEnds
<1>4. CASE runs' = runs
  BY <1>4
<1>5. CASE \/ Leave \/ ExecutionsPage \/ ReportsPage \/ DashboardPage
           \/ SelectTab \/ PrevPage \/ NextPage \/ Poll
           \/ OpenTrigger \/ CancelTrigger \/ handleTrigger \/ TriggerArrives \/ TriggerElsewhere
           \/ ElsewhereArrives \/ TriggerFails
  BY <1>4, <1>5, ShownLists DEF Leave, ExecutionsPage, ReportsPage, DashboardPage, Opens, ShowList, Poll,
       OpenTrigger, CancelTrigger, handleTrigger, TriggerArrives, TriggerElsewhere,
       ElsewhereArrives, TriggerFails
<1>6. CASE \/ FilterReports \/ DashboardArrives \/ DashboardFailsOrAges
           \/ \E r \in Runs : ExecutionDetailPage(r)
           \/ \E k \in Keys : ListServed(k) \/ ListArrives(k) \/ ListFailsOrAges(k)
           \/ \E p \in Runs \X Parts : PartServed(p) \/ PartArrives(p) \/ PartFailsOrAges(p)
           \/ \E g \in Filters : ReportsServed(g) \/ ReportsArrive(g) \/ ReportsFailOrAge(g)
           \/ \E call \in Calls : PieceServed(call)
           \/ UNCHANGED vars
  <2>1. runs' = runs
    BY <1>6 DEF FilterReports, DashboardArrives, DashboardFailsOrAges, ExecutionDetailPage, Opens,
         ListServed, ListArrives, ListFailsOrAges, ListChanges, PartServed, PartArrives, PartFailsOrAges,
         PartChanges, ReportsServed, ReportsArrive, ReportsFailOrAge, ReportsChange, PieceServed, vars
  <2>. QED  BY <1>4, <2>1
<1>. QED  BY <1>1, <1>2, <1>3, <1>5, <1>6 DEF Next

\* A run that exists stays, and a run that is created has the next number.
LEMMA RunsGrow ==
    TypeOK /\ [Next]_vars =>
        /\ runs' \in Seq(Run) /\ Len(runs') <= MaxRuns
        /\ DOMAIN runs \subseteq DOMAIN runs'
<1>. SUFFICES ASSUME TypeOK, [Next]_vars
     PROVE  /\ runs' \in Seq(Run) /\ Len(runs') <= MaxRuns
            /\ DOMAIN runs \subseteq DOMAIN runs'
  OBVIOUS
<1>1. runs \in Seq(Run) /\ Len(runs) \in Nat /\ Len(runs) <= MaxRuns /\ DOMAIN runs = 1..Len(runs)
  BY RunNumbers DEF TypeOK
<1>2. CASE runs' = runs
  BY <1>1, <1>2
<1>3. ASSUME NEW r \in DOMAIN runs, NEW s \in Outcomes, runs' = [runs EXCEPT ![r].status = s]
      PROVE  runs' \in Seq(Run) /\ Len(runs') = Len(runs) /\ DOMAIN runs' = DOMAIN runs
  <2>1. runs[r] \in Run
    BY RunNumbers
  <2>2. [runs[r] EXCEPT !.status = s] \in Run
    BY <2>1 DEF Run, Statuses
  <2>3. runs' = [runs EXCEPT ![r] = [runs[r] EXCEPT !.status = s]]
    BY <1>3
  <2>. QED  BY <1>1, <2>2, <2>3, ExceptSeq
<1>4. ASSUME NEW env \in Envs, Created(env)
      PROVE  runs' \in Seq(Run) /\ Len(runs') = Len(runs) + 1 /\ Len(runs) < MaxRuns
  <2>1. [env |-> env, status |-> "RUNNING"] \in Run
    BY DEF Run, Statuses
  <2>2. runs' = Append(runs, [env |-> env, status |-> "RUNNING"]) /\ Len(runs) < MaxRuns
    BY <1>4 DEF Created
  <2>. HIDE DEF Run
  <2>. QED  BY <1>1, <2>1, <2>2, AppendProperties
<1>5. ASSUME NEW env \in Envs, Created(env)
      PROVE  Len(runs') <= MaxRuns /\ DOMAIN runs \subseteq DOMAIN runs'
  <2>1. DOMAIN runs' = 1..(Len(runs) + 1)
    BY <1>1, <1>4, <1>5, LenProperties
  <2>. QED  BY <1>1, <1>4, <1>5, <2>1, ScreensAssumption
<1>. QED  BY <1>1, <1>2, <1>3, <1>4, <1>5, RunsMoves DEF RunsMove

-------------------------------------------------------------------------------
\* Counts of visits and of disturbances; with the runs, their part of the type.
LEMMA RunsStep == TypeOK /\ [Next]_vars => RunsTyped'
<1>. SUFFICES ASSUME TypeOK, [Next]_vars PROVE RunsTyped'
  OBVIOUS
<1>1. /\ visits \in 0..MaxVisits /\ events \in 0..MaxEvents /\ MaxVisits \in Nat /\ MaxEvents \in Nat
  BY ScreensAssumption, EventsAssumption DEF TypeOK
<1>2. CASE Event /\ visits' = visits
  BY <1>1, <1>2, RunsGrow DEF Event, RunsTyped
<1>3. CASE visits' = visits /\ events' = events
  BY <1>1, <1>3, RunsGrow DEF RunsTyped
<1>4. CASE Leave
  BY <1>1, <1>4, RunsGrow DEF Leave, RunsTyped
<1>5. CASE \/ OtherRun \/ CancelTrigger \/ TriggerElsewhere \/ SelectTab \/ NextPage \/ FilterReports
           \/ DashboardFailsOrAges
           \/ \E k \in Keys : ListFailsOrAges(k)
           \/ \E p \in Runs \X Parts : PartFailsOrAges(p)
           \/ \E f \in Filters : ReportsFailOrAge(f)
  BY <1>2, <1>5 DEF OtherRun, CancelTrigger, TriggerElsewhere, SelectTab, NextPage, ShowList, FilterReports,
       DashboardFailsOrAges, ListFailsOrAges, ListChanges, PartFailsOrAges, PartChanges,
       ReportsFailOrAge, ReportsChange
<1>6. CASE TriggerServed
  BY <1>2, <1>3, <1>6 DEF TriggerServed
<1>7. CASE \/ ExecutionsPage \/ ReportsPage \/ DashboardPage \/ PrevPage \/ Poll
           \/ OpenTrigger \/ handleTrigger \/ TriggerArrives
           \/ ElsewhereArrives \/ TriggerFails \/ DashboardArrives
           \/ \E r \in Runs : RunEnds(r) \/ ExecutionDetailPage(r)
  BY <1>3, <1>7 DEF ExecutionsPage, ReportsPage, DashboardPage, Opens, PrevPage, ShowList, Poll,
       OpenTrigger, handleTrigger, TriggerArrives, ElsewhereArrives, TriggerFails, DashboardArrives, RunEnds,
       ExecutionDetailPage
<1>8. CASE \/ \E k \in Keys : ListServed(k) \/ ListArrives(k)
           \/ \E p \in Runs \X Parts : PartServed(p) \/ PartArrives(p)
           \/ \E f \in Filters : ReportsServed(f) \/ ReportsArrive(f)
           \/ \E call \in Calls : PieceServed(call)
           \/ UNCHANGED vars
  BY <1>3, <1>8 DEF ListServed, ListArrives, ListChanges, PartServed, PartArrives, PartChanges,
       ReportsServed, ReportsArrive, ReportsChange, PieceServed, vars
<1>. QED  BY <1>4, <1>5, <1>6, <1>7, <1>8 DEF Next

\* What the page of the executions holds, and the run that is being triggered.
LEMMA ListTypedStep == TypeOK /\ RunsKnown /\ [Next]_vars => ListTyped'
<1>. SUFFICES ASSUME TypeOK, RunsKnown, [Next]_vars PROVE ListTyped'
  OBVIOUS
<1>. USE DEF listVars, viewVars
<1>1. ListTyped /\ HomeEnv \in Envs /\ MaxRuns \in Nat \ {0} /\ NoTrigger.run \in 0..MaxRuns
  BY ScreensAssumption DEF TypeOK, ListTyped, NoTrigger
<1>2. FirstPage \in Keys
  BY <1>1 DEF Keys, FirstPage, Runs
<1>3. NoTrigger \in [st: {"idle", "sent", "ok", "refused"}, env: Envs, run: 0..MaxRuns, by: {"dialog", "left", "other"}]
  BY <1>1 DEF NoTrigger
<1>4. CASE UNCHANGED <<screen, page, canEdit, key, triggerOpen, globalEnv, trigger, acked>>
  BY <1>1, <1>4 DEF ListTyped
<1>5. ASSUME NEW p \in Screens, Opens(p), key' \in Keys PROVE ListTyped'
  BY <1>1, <1>5 DEF Opens, ListTyped
<1>6. CASE ExecutionsPage \/ ReportsPage \/ DashboardPage \/ \E r \in Runs : ExecutionDetailPage(r)
  BY <1>1, <1>2, <1>5, <1>6 DEF ExecutionsPage, ReportsPage, DashboardPage, ExecutionDetailPage,
       Screens, ListTyped
<1>7. CASE SelectTab \/ PrevPage \/ NextPage
  <2>1. PICK k \in Keys : ShowList(k)
    BY <1>7, ShownLists
  <2>. QED  BY <1>1, <2>1 DEF ShowList, ListTyped
<1>8. CASE Leave
  BY <1>1, <1>8 DEF Leave, ListTyped
<1>9. CASE OpenTrigger \/ CancelTrigger
  BY <1>1, <1>9 DEF OpenTrigger, CancelTrigger, ListTyped
<1>10. CASE handleTrigger
  BY <1>1, <1>10 DEF handleTrigger, ListTyped
<1>11. CASE TriggerServed
  <2>1. CASE /\ Created(trigger.env)
             /\ trigger' = [trigger EXCEPT !.st = "ok", !.run = Len(runs) + 1]
    <3>1. Len(runs) + 1 \in 0..MaxRuns
      BY <1>1, <2>1, RunNumbers DEF Created
    <3>. QED  BY <1>1, <1>11, <2>1, <3>1 DEF TriggerServed, ListTyped
  <2>2. CASE trigger' = [trigger EXCEPT !.st = "refused"]
    BY <1>1, <1>11, <2>2 DEF TriggerServed, ListTyped
  <2>. QED  BY <1>11, <2>1, <2>2 DEF TriggerServed
<1>12. CASE TriggerArrives
  <2>1. trigger.run \in DOMAIN runs /\ DOMAIN runs \subseteq Runs
    BY <1>12, RunNumbers DEF TriggerArrives, RunsKnown
  <2>2. acked' \subseteq Runs
    BY <1>1, <1>12, <2>1 DEF TriggerArrives, ListTyped
  <2>3. triggerOpen' \in BOOLEAN
    BY <1>1, <1>12 DEF TriggerArrives, ListTyped
  <2>4. globalEnv' \in Envs /\ trigger' = NoTrigger
    BY <1>1, <1>12 DEF TriggerArrives, ListTyped
  <2>. QED  BY <1>1, <1>3, <1>12, <2>2, <2>3, <2>4 DEF TriggerArrives, ListTyped
<1>13. CASE TriggerFails
  BY <1>1, <1>3, <1>13 DEF TriggerFails, ListTyped
<1>16. CASE TriggerElsewhere
  BY <1>1, <1>3, <1>16 DEF TriggerElsewhere, ListTyped
<1>17. CASE ElsewhereArrives
  <2>1. /\ page' \in {screen', "elsewhere"} /\ key' \in Keys /\ triggerOpen' \in BOOLEAN
        /\ trigger' = NoTrigger
    BY <1>1, <1>2, <1>17 DEF ElsewhereArrives, ListTyped
  <2>2. UNCHANGED <<screen, canEdit, globalEnv, acked>>
    BY <1>17 DEF ElsewhereArrives
  <2>. QED  BY <1>1, <1>3, <2>1, <2>2 DEF ListTyped
<1>14. CASE \/ OtherRun \/ Poll \/ FilterReports \/ DashboardArrives \/ DashboardFailsOrAges
            \/ \E r \in Runs : RunEnds(r)
            \/ \E k \in Keys : ListServed(k) \/ ListArrives(k) \/ ListFailsOrAges(k)
  BY <1>4, <1>14 DEF OtherRun, Poll, FilterReports, DashboardArrives, DashboardFailsOrAges, RunEnds,
       ListServed, ListArrives, ListFailsOrAges, ListChanges
<1>15. CASE \/ \E p \in Runs \X Parts : PartServed(p) \/ PartArrives(p) \/ PartFailsOrAges(p)
            \/ \E f \in Filters : ReportsServed(f) \/ ReportsArrive(f) \/ ReportsFailOrAge(f)
            \/ \E call \in Calls : PieceServed(call)
            \/ UNCHANGED vars
  BY <1>4, <1>15 DEF PartServed, PartArrives, PartFailsOrAges, PartChanges, ReportsServed,
       ReportsArrive, ReportsFailOrAge, ReportsChange, PieceServed, vars
<1>. QED  BY <1>6, <1>7, <1>8, <1>9, <1>10, <1>11, <1>12, <1>13, <1>14, <1>15, <1>16, <1>17 DEF Next

-------------------------------------------------------------------------------
\* What happens to the loads of the page of a run: they start for a run that exists.
PartMove(p) ==
    \/ detail'[p] = detail[p] \/ detail'[p] = Arrived(detail[p])
    \/ detail'[p] = Failed(detail[p]) \/ detail'[p] = Aged(detail[p])
    \/ p[1] \in DOMAIN runs /\ detail'[p] = Mounted(detail[p])
    \/ detail[p].fetch = "sent" /\ detail'[p] = Served(detail[p], runs[p[1]].status)

LEMMA PartMoves ==
    TypeOK /\ RunsKnown /\ [Next]_vars =>
        detail' = [p \in Runs \X Parts |-> detail'[p]] /\ \A p \in Runs \X Parts : PartMove(p)
<1>. SUFFICES ASSUME TypeOK, RunsKnown, [Next]_vars
     PROVE  detail' = [p \in Runs \X Parts |-> detail'[p]] /\ \A p \in Runs \X Parts : PartMove(p)
  OBVIOUS
<1>. USE DEF listVars, viewVars
<1>1. detail = [p \in Runs \X Parts |-> detail[p]]
  BY DEF TypeOK
<1>2. CASE detail' = detail
  BY <1>1, <1>2 DEF PartMove
<1>3. ASSUME NEW r \in Runs, ExecutionDetailPage(r)
      PROVE  detail' = [p \in Runs \X Parts |-> detail'[p]] /\ \A p \in Runs \X Parts : PartMove(p)
  BY <1>3 DEF ExecutionDetailPage, PartMove
<1>4. ASSUME NEW p \in Runs \X Parts, PartServed(p) \/ PartArrives(p) \/ PartFailsOrAges(p)
      PROVE  detail' = [q \in Runs \X Parts |-> detail'[q]] /\ \A q \in Runs \X Parts : PartMove(q)
  <2>1. PICK entry : detail' = [detail EXCEPT ![p] = entry] /\
                     \/ entry = Arrived(detail[p]) \/ entry = Failed(detail[p]) \/ entry = Aged(detail[p])
                     \/ detail[p].fetch = "sent" /\ entry = Served(detail[p], runs[p[1]].status)
    BY <1>4 DEF PartServed, PartArrives, PartFailsOrAges, PartChanges
  <2>2. /\ detail' = [q \in Runs \X Parts |-> detail'[q]] /\ detail'[p] = entry
        /\ \A q \in Runs \X Parts : q # p => detail'[q] = detail[q]
    BY <1>1, <2>1
  <2>. QED  BY <2>1, <2>2 DEF PartMove
<1>5. CASE \/ OtherRun \/ TriggerServed \/ Leave \/ ExecutionsPage \/ ReportsPage \/ DashboardPage
           \/ SelectTab \/ PrevPage \/ NextPage \/ Poll
           \/ OpenTrigger \/ CancelTrigger \/ handleTrigger \/ TriggerArrives \/ TriggerElsewhere
           \/ TriggerFails
           \/ FilterReports \/ DashboardArrives \/ DashboardFailsOrAges
  BY <1>2, <1>5, ShownLists DEF OtherRun, TriggerServed, Leave, ExecutionsPage, ReportsPage,
       DashboardPage, Opens, ShowList, Poll, OpenTrigger, CancelTrigger, handleTrigger, TriggerArrives,
       TriggerElsewhere, TriggerFails, FilterReports, DashboardArrives, DashboardFailsOrAges
<1>6. CASE \/ \E r \in Runs : RunEnds(r)
           \/ \E k \in Keys : ListServed(k) \/ ListArrives(k) \/ ListFailsOrAges(k)
           \/ \E f \in Filters : ReportsServed(f) \/ ReportsArrive(f) \/ ReportsFailOrAge(f)
           \/ \E call \in Calls : PieceServed(call)
           \/ UNCHANGED vars
  BY <1>2, <1>6 DEF RunEnds, ListServed, ListArrives, ListFailsOrAges, ListChanges,
       ReportsServed, ReportsArrive, ReportsFailOrAge, ReportsChange, PieceServed, vars
<1>7. CASE ElsewhereArrives
  <2>1. CASE detail' = detail
    BY <1>2, <2>1
  <2>2. CASE detail' = [p \in Runs \X Parts |->
                         IF p[1] = trigger.run THEN Mounted(detail[p]) ELSE detail[p]]
    <3>1. trigger.run \in DOMAIN runs
      BY <1>7 DEF ElsewhereArrives, RunsKnown
    <3>. QED  BY <2>2, <3>1 DEF PartMove
  <2>. QED  BY <1>7, <2>1, <2>2 DEF ElsewhereArrives
<1>. QED  BY <1>3, <1>4, <1>5, <1>6, <1>7 DEF Next

LEMMA DetailStep ==
    TypeOK /\ RunsKnown /\ [Next]_vars =>
        /\ detail' \in [Runs \X Parts -> Entries(Statuses)]
        /\ \A p \in Runs \X Parts : detail'[p].fetch # "none" => p[1] \in DOMAIN runs'
<1>. SUFFICES ASSUME TypeOK, RunsKnown, [Next]_vars, NEW p \in Runs \X Parts
     PROVE  /\ detail'[p] \in Entries(Statuses)
            /\ detail'[p].fetch # "none" => p[1] \in DOMAIN runs
  BY PartMoves, RunsGrow
<1>1. detail[p] \in Entries(Statuses) /\ (detail[p].fetch # "none" => p[1] \in DOMAIN runs)
  BY DEF TypeOK, RunsKnown
<1>2. PartMove(p)
  BY PartMoves
<1>3. /\ Mounted(detail[p]) \in Entries(Statuses) /\ Arrived(detail[p]) \in Entries(Statuses)
      /\ Failed(detail[p]) \in Entries(Statuses) /\ Aged(detail[p]) \in Entries(Statuses)
      /\ \A s \in Statuses : Served(detail[p], s) \in Entries(Statuses)
  BY <1>1, EntryTypes
<1>4. CASE detail[p].fetch = "sent" /\ detail'[p] = Served(detail[p], runs[p[1]].status)
  <2>1. p[1] \in DOMAIN runs /\ runs[p[1]].status \in Statuses
    BY <1>1, <1>4, RunNumbers
  <2>. QED  BY <1>3, <1>4, <2>1
<1>5. CASE \/ detail'[p] = detail[p] \/ detail'[p] = Arrived(detail[p])
           \/ detail'[p] = Failed(detail[p]) \/ detail'[p] = Aged(detail[p])
  <2>1. /\ Arrived(detail[p]).fetch = "none" /\ Failed(detail[p]).fetch = "none"
        /\ Aged(detail[p]).fetch = detail[p].fetch
    BY <1>1 DEF Entries, Arrived, Failed, Aged
  <2>. QED  BY <1>1, <1>3, <1>5, <2>1
<1>6. CASE p[1] \in DOMAIN runs /\ detail'[p] = Mounted(detail[p])
  BY <1>3, <1>6
<1>. QED  BY <1>2, <1>4, <1>5, <1>6 DEF PartMove

LEMMA RunsKnownStep == TypeOK /\ RunsKnown /\ [Next]_vars => RunsKnown'
<1>. SUFFICES ASSUME TypeOK, RunsKnown, [Next]_vars PROVE RunsKnown'
  OBVIOUS
<1>. USE DEF listVars, viewVars
<1>1. /\ DOMAIN runs \subseteq DOMAIN runs' /\ acked \subseteq DOMAIN runs
      /\ trigger.st = "ok" => trigger.run \in DOMAIN runs
  BY RunsGrow DEF RunsKnown
<1>. SUFFICES /\ acked' \subseteq DOMAIN runs'
              /\ trigger'.st = "ok" => trigger'.run \in DOMAIN runs'
  BY DetailStep DEF RunsKnown
<1>2. CASE acked' = acked /\ (trigger' = trigger \/ trigger'.st # "ok")
  BY <1>1, <1>2
<1>3. CASE TriggerArrives
  BY <1>1, <1>3 DEF TriggerArrives, NoTrigger
<1>4. CASE TriggerServed
  <2>1. acked' = acked
    BY <1>4 DEF TriggerServed
  <2>2. CASE trigger' = [trigger EXCEPT !.st = "refused"]
    <3>1. trigger'.st # "ok"
      BY <2>2 DEF TypeOK
    <3>. QED  BY <1>2, <2>1, <3>1
  <2>3. CASE /\ Created(trigger.env)
             /\ trigger' = [trigger EXCEPT !.st = "ok", !.run = Len(runs) + 1]
    <3>1. trigger'.run = Len(runs) + 1
      BY <2>3 DEF TypeOK
    <3>2. runs' \in Seq(Run) /\ Len(runs') = Len(runs) + 1 /\ Len(runs) \in Nat
      <4>1. trigger.env \in Envs
        BY DEF TypeOK
      <4>2. [env |-> trigger.env, status |-> "RUNNING"] \in Run
        BY <4>1 DEF Run, Statuses
      <4>3. runs \in Seq(Run) /\ Len(runs) \in Nat
        BY RunNumbers DEF TypeOK
      <4>4. runs' = Append(runs, [env |-> trigger.env, status |-> "RUNNING"])
        BY <2>3 DEF Created
      <4>. HIDE DEF Run
      <4>. QED  BY <4>2, <4>3, <4>4, AppendProperties
    <3>3. DOMAIN runs' = 1..(Len(runs) + 1)
      BY <3>2, LenProperties
    <3>4. Len(runs) + 1 \in DOMAIN runs'
      BY <3>2, <3>3
    <3>. QED  BY <1>1, <2>1, <3>1, <3>4
  <2>. QED  BY <1>4, <2>2, <2>3 DEF TriggerServed
<1>5. CASE Leave
  <2>1. trigger'.st = trigger.st /\ trigger'.run = trigger.run /\ acked' = acked
    BY <1>5 DEF Leave, TypeOK
  <2>. QED  BY <1>1, <2>1
<1>6. CASE handleTrigger \/ TriggerElsewhere \/ ElsewhereArrives \/ TriggerFails
  BY <1>2, <1>6 DEF handleTrigger, TriggerElsewhere, ElsewhereArrives, TriggerFails, NoTrigger
<1>7. CASE \/ OtherRun \/ ExecutionsPage \/ ReportsPage \/ DashboardPage
           \/ SelectTab \/ PrevPage \/ NextPage \/ Poll
           \/ OpenTrigger \/ CancelTrigger \/ FilterReports \/ DashboardArrives \/ DashboardFailsOrAges
           \/ \E r \in Runs : RunEnds(r) \/ ExecutionDetailPage(r)
  BY <1>2, <1>7, ShownLists DEF OtherRun, ExecutionsPage, ReportsPage,
       DashboardPage, Opens, ShowList, Poll, OpenTrigger, CancelTrigger, FilterReports,
       DashboardArrives, DashboardFailsOrAges, RunEnds, ExecutionDetailPage
<1>8. CASE \/ \E k \in Keys : ListServed(k) \/ ListArrives(k) \/ ListFailsOrAges(k)
           \/ \E p \in Runs \X Parts : PartServed(p) \/ PartArrives(p) \/ PartFailsOrAges(p)
           \/ \E f \in Filters : ReportsServed(f) \/ ReportsArrive(f) \/ ReportsFailOrAge(f)
           \/ \E call \in Calls : PieceServed(call)
           \/ UNCHANGED vars
  BY <1>2, <1>8 DEF ListServed, ListArrives, ListFailsOrAges, ListChanges,
       PartServed, PartArrives, PartFailsOrAges, PartChanges,
       ReportsServed, ReportsArrive, ReportsFailOrAge, ReportsChange, PieceServed, vars
<1>. QED  BY <1>3, <1>4, <1>5, <1>6, <1>7, <1>8 DEF Next

-------------------------------------------------------------------------------
\* What the dashboard counts is no more than the runs.
LEMMA FiguresBounded == ASSUME TypeOK, NEW call PROVE Figure(call) \in 0..MaxRuns
<1>. DEFINE counted == {r \in DOMAIN runs : Ended(r) /\ (call = "trends" \/ runs[r].status # "PASSED")}
<1>1. MaxRuns \in Nat \ {0}
  BY ScreensAssumption
<1>2. IsFiniteSet(Runs) /\ Cardinality(Runs) = MaxRuns
  BY <1>1, FS_Interval DEF Runs
<1>3. counted \subseteq Runs
  BY RunNumbers
<1>4. Figure(call) = Cardinality(counted)
  BY DEF Figure
<1>. HIDE DEF counted
<1>5. IsFiniteSet(counted) /\ Cardinality(counted) <= MaxRuns
  BY <1>2, <1>3, FS_Subset
<1>6. Cardinality(counted) \in Nat
  BY <1>5, FS_CardinalityType
<1>. QED  BY <1>1, <1>4, <1>5, <1>6

\* The dashboard, and the pieces of its answer.
LEMMA DashboardStep ==
    TypeOK /\ [Next]_vars => dashboard' \in Entries(Figures) /\ pieces' \in [Calls -> 0..NotServed]
<1>. SUFFICES ASSUME TypeOK, [Next]_vars
     PROVE  dashboard' \in Entries(Figures) /\ pieces' \in [Calls -> 0..NotServed]
  OBVIOUS
<1>. USE DEF listVars, viewVars
<1>1. dashboard \in Entries(Figures) /\ pieces \in [Calls -> 0..NotServed]
  BY DEF TypeOK
<1>2. MaxRuns \in Nat
  BY ScreensAssumption
<1>3. NoPieces \in [Calls -> 0..NotServed]
  BY <1>2 DEF NoPieces, NotServed
<1>4. /\ Mounted(dashboard) \in Entries(Figures) /\ Failed(dashboard) \in Entries(Figures)
      /\ Aged(dashboard) \in Entries(Figures)
      /\ \A figures \in Figures : Served(dashboard, figures) \in Entries(Figures)
  BY <1>1, EntryTypes
<1>5. CASE UNCHANGED <<dashboard, pieces>>
  BY <1>1, <1>5
<1>6. CASE DashboardPage
  BY <1>1, <1>4, <1>6 DEF DashboardPage
<1>7. CASE DashboardFailsOrAges
  BY <1>1, <1>3, <1>4, <1>7 DEF DashboardFailsOrAges
<1>8. CASE DashboardArrives
  <2>1. \A call \in Calls : pieces[call] \in 0..MaxRuns
    BY <1>1, <1>2, <1>8 DEF DashboardArrives, NotServed
  <2>2. pieces \in Figures
    BY <1>1, <2>1 DEF Figures
  <2>3. Served(dashboard, pieces) \in Entries(Figures)
    BY <1>4, <2>2
  <2>4. Arrived(Served(dashboard, pieces)) \in Entries(Figures)
    BY <2>3, EntryTypes
  <2>. QED  BY <1>3, <1>8, <2>4 DEF DashboardArrives
<1>9. ASSUME NEW call \in Calls, PieceServed(call)
      PROVE  dashboard' \in Entries(Figures) /\ pieces' \in [Calls -> 0..NotServed]
  <2>1. Figure(call) \in 0..NotServed
    BY <1>2, FiguresBounded DEF NotServed
  <2>. QED  BY <1>1, <1>9, <2>1 DEF PieceServed
<1>10. CASE \/ OtherRun \/ TriggerServed \/ Leave \/ ExecutionsPage \/ ReportsPage
            \/ SelectTab \/ PrevPage \/ NextPage \/ Poll
            \/ OpenTrigger \/ CancelTrigger \/ handleTrigger \/ TriggerArrives \/ TriggerElsewhere
           \/ ElsewhereArrives \/ TriggerFails
            \/ FilterReports
  BY <1>5, <1>10, ShownLists DEF OtherRun, TriggerServed, Leave, ExecutionsPage, ReportsPage,
       Opens, ShowList, Poll, OpenTrigger, CancelTrigger, handleTrigger, TriggerArrives,
       TriggerElsewhere, ElsewhereArrives, TriggerFails, FilterReports
<1>11. CASE \/ \E r \in Runs : RunEnds(r) \/ ExecutionDetailPage(r)
            \/ \E k \in Keys : ListServed(k) \/ ListArrives(k) \/ ListFailsOrAges(k)
            \/ \E p \in Runs \X Parts : PartServed(p) \/ PartArrives(p) \/ PartFailsOrAges(p)
            \/ \E f \in Filters : ReportsServed(f) \/ ReportsArrive(f) \/ ReportsFailOrAge(f)
            \/ UNCHANGED vars
  BY <1>5, <1>11 DEF RunEnds, ExecutionDetailPage, ListServed, ListArrives, ListFailsOrAges,
       ListChanges, PartServed, PartArrives, PartFailsOrAges, PartChanges, ReportsServed, ReportsArrive,
       ReportsFailOrAge, ReportsChange, vars
<1>. QED  BY <1>6, <1>7, <1>8, <1>9, <1>10, <1>11 DEF Next

LEMMA ReportsStep ==
    TypeOK /\ RunsKnown /\ [Next]_vars =>
        /\ subject' \in Runs /\ envFilter' \in Filters
        /\ reports' \in [Filters -> Entries(SUBSET Runs)]
<1>. DEFINE Typed == /\ subject \in Runs /\ envFilter \in Filters
                     /\ reports \in [Filters -> Entries(SUBSET Runs)]
<1>. SUFFICES ASSUME TypeOK, RunsKnown, [Next]_vars PROVE Typed'
  OBVIOUS
<1>. USE DEF listVars, viewVars
<1>1. Typed /\ AllEnvs \in Filters /\ \A f \in Filters : ReportsListed(f) \in SUBSET Runs
  BY RunNumbers DEF TypeOK, Filters, ReportsListed
<1>2. \A f \in Filters : /\ Mounted(reports[f]) \in Entries(SUBSET Runs)
                         /\ Served(reports[f], ReportsListed(f)) \in Entries(SUBSET Runs)
                         /\ Arrived(reports[f]) \in Entries(SUBSET Runs)
                         /\ Failed(reports[f]) \in Entries(SUBSET Runs)
                         /\ Aged(reports[f]) \in Entries(SUBSET Runs)
  BY <1>1, EntryTypes
<1>3. CASE UNCHANGED <<subject, envFilter, reports>>
  BY <1>1, <1>3
<1>4. CASE ReportsPage
  BY <1>1, <1>2, <1>4 DEF ReportsPage
<1>5. ASSUME NEW r \in Runs, ExecutionDetailPage(r) PROVE Typed'
  BY <1>1, <1>5 DEF ExecutionDetailPage
<1>6. CASE FilterReports
  BY <1>1, <1>2, <1>6 DEF FilterReports
<1>7. ASSUME NEW f \in Filters, ReportsServed(f) \/ ReportsArrive(f) \/ ReportsFailOrAge(f) PROVE Typed'
  BY <1>1, <1>2, <1>7 DEF ReportsServed, ReportsArrive, ReportsFailOrAge, ReportsChange
<1>10. CASE ElsewhereArrives
  <2>1. trigger.run \in Runs
    BY <1>10, RunNumbers DEF ElsewhereArrives, RunsKnown
  <2>2. UNCHANGED <<envFilter, reports>> /\ (subject' = subject \/ subject' = trigger.run)
    BY <1>10 DEF ElsewhereArrives
  <2>. QED  BY <1>1, <2>1, <2>2
<1>. HIDE DEF Typed
<1>8. CASE \/ OtherRun \/ TriggerServed \/ Leave \/ ExecutionsPage \/ DashboardPage
           \/ SelectTab \/ PrevPage \/ NextPage \/ Poll
           \/ OpenTrigger \/ CancelTrigger \/ handleTrigger \/ TriggerArrives \/ TriggerElsewhere
           \/ TriggerFails
           \/ DashboardArrives \/ DashboardFailsOrAges
  BY <1>3, <1>8, ShownLists DEF OtherRun, TriggerServed, Leave, ExecutionsPage, DashboardPage,
       Opens, ShowList, Poll, OpenTrigger, CancelTrigger, handleTrigger, TriggerArrives,
       TriggerElsewhere, TriggerFails, DashboardArrives, DashboardFailsOrAges
<1>9. CASE \/ \E r \in Runs : RunEnds(r)
           \/ \E k \in Keys : ListServed(k) \/ ListArrives(k) \/ ListFailsOrAges(k)
           \/ \E p \in Runs \X Parts : PartServed(p) \/ PartArrives(p) \/ PartFailsOrAges(p)
           \/ \E call \in Calls : PieceServed(call)
           \/ UNCHANGED vars
  BY <1>3, <1>9 DEF RunEnds, ListServed, ListArrives, ListFailsOrAges,
       ListChanges, PartServed, PartArrives, PartFailsOrAges, PartChanges, PieceServed, vars
<1>. QED  BY <1>4, <1>5, <1>6, <1>7, <1>8, <1>9, <1>10 DEF Next

-------------------------------------------------------------------------------
LEMMA ScreensBegin == Init => ScreensIInv
<1>. SUFFICES ASSUME Init PROVE ScreensIInv
  OBVIOUS
<1>1. MaxRuns \in Nat \ {0} /\ MaxVisits \in Nat /\ MaxEvents \in Nat /\ HomeEnv \in Envs
  BY ScreensAssumption, EventsAssumption
<1>2. RunsTyped
  <2>1. [env |-> HomeEnv, status |-> "RUNNING"] \in Run
    BY <1>1 DEF Run, Statuses
  <2>. DEFINE one == [env |-> HomeEnv, status |-> "RUNNING"]
  <2>2. runs = <<>> \/ runs = <<one>>
    BY DEF Init
  <2>. HIDE DEF one
  <2>3. ASSUME runs = <<>> PROVE runs \in Seq(Run) /\ Len(runs) <= MaxRuns
    <3>1. runs \in Seq(Run) /\ Len(runs) = 0
      BY <2>3, EmptySeq
    <3>. QED  BY <1>1, <3>1
  <2>4. ASSUME runs = <<one>> PROVE runs \in Seq(Run) /\ Len(runs) <= MaxRuns
    <3>1. runs \in Seq(Run) /\ Len(runs) = 1
      BY <2>1, <2>4 DEF one
    <3>. QED  BY <1>1, <3>1
  <2>5. runs \in Seq(Run) /\ Len(runs) <= MaxRuns
    BY <2>2, <2>3, <2>4
  <2>. QED  BY <1>1, <2>5 DEF Init, RunsTyped
<1>3. ListTyped
  <2>1. FirstPage \in Keys
    BY <1>1 DEF Keys, FirstPage, Runs
  <2>2. NoTrigger \in [st: {"idle", "sent", "ok", "refused"}, env: Envs, run: 0..MaxRuns, by: {"dialog", "left", "other"}]
    BY <1>1 DEF NoTrigger
  <2>. QED  BY <1>1, <2>1, <2>2 DEF Init, ListTyped
<1>4. ViewTyped
  <2>1. NoPieces \in [Calls -> 0..NotServed]
    BY <1>1 DEF NoPieces, NotServed
  <2>. QED  BY <1>1, <2>1, BlankEntry DEF Init, ViewTyped, Runs, Filters
<1>5. query \in [Keys -> Entries(Lists)] /\ FirstPage \in Keys /\ query[FirstPage] = Blank
  BY <1>1, BlankEntry DEF Init, Keys, FirstPage, Runs
<1>6. RunsKnown
  BY DEF Init, RunsKnown, NoTrigger, Blank
<1>7. AnswerFinds /\ OwnRunListed
  BY <1>5 DEF AnswerFinds, OwnRunListed, Settled, Blank, Current
<1>. QED  BY <1>2, <1>3, <1>4, <1>5, <1>6, <1>7, ScreensTypeParts DEF ScreensIInv

LEMMA ScreensStep == ScreensIInv /\ [Next]_vars => ScreensIInv'
<1>. SUFFICES ASSUME ScreensIInv, [Next]_vars PROVE ScreensIInv'
  OBVIOUS
<1>1. RunsTyped' /\ ListTyped' /\ query' \in [Keys -> Entries(Lists)]
  BY RunsStep, ListTypedStep, ListsStep DEF ScreensIInv
<1>2. ViewTyped'
  BY DetailStep, DashboardStep, ReportsStep DEF ScreensIInv, ViewTyped
<1>3. TypeOK'
  BY <1>1, <1>2 DEF TypeOK, RunsTyped, ListTyped, ViewTyped
<1>. QED  BY <1>3, RunsKnownStep, FirstPageStep DEF ScreensIInv

\* The inductive invariant: the types, the runs that are named exist, and the answer for the
\* first page has the runs of the user, or newer ones.
THEOREM ScreensInvariance == Spec => []ScreensIInv
BY ScreensBegin, ScreensStep, PTL DEF Spec

\* The pages hold what they are meant to hold: pages of lists are pages that exist, the
\* figures of the dashboard count runs, and a page of a run is of one that exists.
THEOREM ScreensTypeCorrect == Spec => []TypeOK
<1>1. ScreensIInv => TypeOK
  BY DEF ScreensIInv
<1>. QED  BY <1>1, ScreensInvariance, PTL

\* The fresh first page of the executions has every run that the user triggered in the dialog of
\* the executions, or a page of newer ones, wherever the user was when the answer came.
THEOREM OwnRunsListed == Spec => []OwnRunListed
<1>1. ScreensIInv => OwnRunListed
  BY DEF ScreensIInv
<1>. QED  BY <1>1, ScreensInvariance, PTL
===============================================================================
