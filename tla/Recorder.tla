---------------------------------- MODULE Recorder ----------------------------------
(***************************************************************************)
(* Recording: the manager in the process of the API, which has one session *)
(* at a time and archives those that are stopped, and the page of the web  *)
(* console that controls it by what it polled last, replays the archived   *)
(* sessions and generates cases from them.                                 *)
(*                                                                         *)
(* Sessions are numbered as they are started.  The API starts them without *)
(* an HTTP client, so that nothing is intercepted: what a session records  *)
(* is left out.                                                            *)
(***************************************************************************)
EXTENDS Naturals, FiniteSets, Disturbances, QueryCache

CONSTANT
    MaxSessions     \* bound: sessions that are started

\* The disturbances are calls of other clients, restarts, calls that are lost, loads that fail,
\* data that ages, leaves of the page.
ASSUME RecorderAssumption == MaxSessions \in Nat \ {0}

VARIABLES
    started,        \* the number of sessions
    current, state, \* the session of the manager, and its state
    history,        \* the sessions it archived
    restarts,
    onPage,
    status, sessions,   \* the two queries of the page
    control, file,  \* its calls: to the manager, and about archived files
    replayDialogOpen, selectedSession, replayResult

manager == <<started, current, state, history, restarts>>
dialog == <<replayDialogOpen, selectedSession, replayResult>>
recorderVars == <<manager, events, onPage, status, sessions, control, file, dialog>>

Sessions == 1..MaxSessions
NoSession == 0
States == {"idle", "recording", "paused"}
Status == [session: Sessions \cup {NoSession}, state: States]
Controls == {"start", "stop", "pause"}
\* "mine": the page that made the call is still mounted.
Call(kinds) == [kind: kinds, mine: BOOLEAN, of: Sessions \cup {NoSession},
                st: {"idle", "sent", "ok", "failed"}]
NoControl == [kind |-> "start", mine |-> FALSE, of |-> NoSession, st |-> "idle"]
NoFile == [kind |-> "replay", mine |-> FALSE, of |-> NoSession, st |-> "idle"]

RecorderTypeOK ==
    /\ started \in 0..MaxSessions /\ restarts \in 0..MaxEvents /\ events \in 0..MaxEvents
    /\ current \in 0..started /\ state \in States /\ ((state = "idle") <=> (current = NoSession))
    /\ history \subseteq 1..started /\ current \notin history
    /\ onPage \in BOOLEAN
    /\ status \in Entries(Status) /\ sessions \in Entries(SUBSET Sessions)
    /\ control \in Call(Controls) /\ file \in Call({"replay", "generate"})
    /\ replayDialogOpen \in BOOLEAN
    /\ selectedSession \in Sessions \cup {NoSession}
    /\ replayResult \in Sessions \cup {NoSession}

RecorderInit ==
    /\ started = 0 /\ current = NoSession /\ state = "idle" /\ history = {} /\ restarts = 0
    /\ events = 0 /\ onPage = FALSE
    /\ status = Blank /\ sessions = Blank
    /\ control = NoControl /\ file = NoFile
    /\ replayDialogOpen = FALSE /\ selectedSession = NoSession /\ replayResult = NoSession

-------------------------------------------------------------------------------
(***************************************************************************)
(* The manager.  Each operation is one step of the event loop, its check   *)
(* in the router included; where the check fails nothing changes.          *)
(***************************************************************************)

is_recording == state = "recording"

\* Slip: a session is started whatever there is.
StartsAnyway ==
    /\ started < MaxSessions
    /\ started' = started + 1 /\ current' = started' /\ state' = "recording"
    /\ UNCHANGED <<history, restarts>>

\* A session that is paused is replaced, and not archived.
Starts ==
    /\ ~is_recording
    /\ started < MaxSessions
    /\ started' = started + 1 /\ current' = started' /\ state' = "recording"
    /\ UNCHANGED <<history, restarts>>

\* Slip: the session stays the manager's after it has been archived.
StopsAndKeeps ==
    /\ is_recording
    /\ history' = history \cup {current}
    /\ UNCHANGED <<started, current, state, restarts>>

\* The router refuses what the manager could do: to stop a session that is paused.
Stops ==
    /\ is_recording
    /\ history' = history \cup {current}
    /\ current' = NoSession /\ state' = "idle"
    /\ UNCHANGED <<started, restarts>>

Pauses ==
    /\ is_recording
    /\ state' = "paused"
    /\ UNCHANGED <<started, current, history, restarts>>

\* Without a client the session stays paused, and the answer says that it was resumed.
Resumes == state = "paused" /\ UNCHANGED manager

Does(kind) ==
    \/ kind = "start" /\ Starts
    \/ kind = "stop" /\ Stops
    \/ kind = "pause" /\ Pauses

CanDo(kind) == IF kind = "start" THEN ~is_recording ELSE is_recording

OtherClient ==
    /\ Event
    /\ Resumes \/ \E kind \in Controls : Does(kind)
    /\ UNCHANGED <<onPage, status, sessions, control, file, dialog>>

\* The manager is an object in memory: what was recorded and archived is forgotten.
Restart ==
    /\ Event
    /\ restarts' = restarts + 1
    /\ current' = NoSession /\ state' = "idle" /\ history' = {}
    /\ UNCHANGED <<started, onPage, status, sessions, control, file, dialog>>

\* A call of the page is served, though its answer may be lost; or it is refused, or, a
\* stop, fails to write its file before it changes the session; or it is lost on its way.
ControlServed ==
    /\ control.st = "sent"
    /\ \/ /\ Does(control.kind)
          /\ \E answer \in {"ok", "failed"} : control' = [control EXCEPT !.st = answer]
          /\ UNCHANGED events
       \/ /\ \/ CanDo(control.kind) /\ control.kind # "stop" /\ Event
             \/ (CanDo(control.kind) => control.kind = "stop") /\ UNCHANGED events
          /\ control' = [control EXCEPT !.st = "failed"]
          /\ UNCHANGED manager
    /\ UNCHANGED <<onPage, status, sessions, file, dialog>>

-------------------------------------------------------------------------------
(***************************************************************************)
(* What the page shows, and what it loads.                                 *)
(***************************************************************************)

isRecording == \E s \in status.data : s.state = "recording"
isPaused == \E s \in status.data : s.state = "paused"

\* The rows of the history, which stay when a load fails.
sessionList == UNION sessions.data

\* The rows whose buttons can be pressed: the dialog is modal, and whatever is archived
\* has a file.
SessionRows == IF replayDialogOpen THEN {} ELSE sessionList

RecorderPage ==
    /\ ~onPage
    /\ onPage' = TRUE
    /\ status' = Mounted(status) /\ sessions' = Mounted(sessions)
    /\ UNCHANGED <<manager, events, control, file, dialog>>

LeavePage ==
    /\ onPage /\ Event
    /\ onPage' = FALSE
    /\ control' = [control EXCEPT !.mine = FALSE] /\ file' = [file EXCEPT !.mine = FALSE]
    /\ replayDialogOpen' = FALSE /\ selectedSession' = NoSession /\ replayResult' = NoSession
    /\ UNCHANGED <<manager, status, sessions>>

\* refetchInterval.
PollStatus ==
    /\ onPage /\ status.fetch = "none"
    /\ status' = Fetched(status)
    /\ UNCHANGED <<manager, events, onPage, sessions, control, file, dialog>>

StatusServed ==
    /\ status.fetch = "sent"
    /\ status' = Served(status, [session |-> current, state |-> state])
    /\ UNCHANGED <<manager, events, onPage, sessions, control, file, dialog>>

StatusArrives ==
    /\ status.fetch = "served"
    /\ status' = Arrived(status)
    /\ UNCHANGED <<manager, events, onPage, sessions, control, file, dialog>>

SessionsServed ==
    /\ sessions.fetch = "sent"
    /\ sessions' = Served(sessions, history)
    /\ UNCHANGED <<manager, events, onPage, status, control, file, dialog>>

SessionsArrive ==
    /\ sessions.fetch = "served"
    /\ sessions' = Arrived(sessions)
    /\ UNCHANGED <<manager, events, onPage, status, control, file, dialog>>

FailsOrAges ==
    /\ Event
    /\ \/ status.fetch # "none" /\ status' = Failed(status) /\ UNCHANGED sessions
       \/ sessions.fetch # "none" /\ sessions' = Failed(sessions) /\ UNCHANGED status
       \/ sessions.fresh /\ sessions' = Aged(sessions) /\ UNCHANGED status
    /\ UNCHANGED <<manager, onPage, control, file, dialog>>

-------------------------------------------------------------------------------
(***************************************************************************)
(* The controls.                                                           *)
(***************************************************************************)

\* bound: one call to the manager at a time.
Press(kind) ==
    /\ onPage /\ ~replayDialogOpen
    /\ control.st = "idle"
    /\ control' = [kind |-> kind, mine |-> TRUE, of |-> NoSession, st |-> "sent"]
    /\ UNCHANGED <<manager, events, onPage, status, sessions, file, dialog>>

\* Without a status too: what is not known to record can be started.
handleStart == ~isRecording /\ Press("start")
handleStop == isRecording /\ Press("stop")

\* The button to resume is inside the branch of a session that records, and only for one
\* that is paused: it is never there.
handlePause == isRecording /\ ~isPaused /\ Press("pause")

\* A success invalidates the status; a stop the history as well.
ControlArrives ==
    /\ control.st = "ok"
    /\ control' = NoControl
    /\ status' = Invalidated(status, onPage)
    /\ sessions' = IF control.kind = "stop" THEN Invalidated(sessions, onPage) ELSE sessions
    /\ UNCHANGED <<manager, events, onPage, file, dialog>>

ControlFails ==
    /\ control.st = "failed"
    /\ control' = NoControl
    /\ UNCHANGED <<manager, events, onPage, status, sessions, file, dialog>>

-------------------------------------------------------------------------------
(***************************************************************************)
(* Replaying, and generating cases.                                        *)
(***************************************************************************)

\* Each opening begins without a result.
handleReplay(s) ==
    /\ onPage /\ s \in SessionRows
    /\ replayDialogOpen' = TRUE /\ selectedSession' = s /\ replayResult' = NoSession
    /\ UNCHANGED <<manager, events, onPage, status, sessions, control, file>>

CloseReplay ==
    /\ replayDialogOpen
    /\ replayDialogOpen' = FALSE
    /\ UNCHANGED <<manager, events, onPage, status, sessions, control, file, selectedSession,
                   replayResult>>

\* bound: one call about a file at a time.
Send(kind, s) ==
    /\ file.st = "idle"
    /\ file' = [kind |-> kind, mine |-> TRUE, of |-> s, st |-> "sent"]
    /\ UNCHANGED <<manager, events, onPage, status, sessions, control, dialog>>

\* A result takes the place of the form.
ResultShown == replayResult # NoSession

handleReplaySubmit ==
    /\ replayDialogOpen /\ ~ResultShown
    /\ Send("replay", selectedSession)

handleGenerate(s) ==
    /\ onPage /\ s \in SessionRows
    /\ Send("generate", s)

\* The archive is a file, and outlives the manager.
FileServed ==
    /\ file.st = "sent"
    /\ \E answer \in {"ok", "failed"} : file' = [file EXCEPT !.st = answer]
    /\ UNCHANGED <<manager, events, onPage, status, sessions, control, dialog>>

\* Of a replay that arrives the page shows the result, under the session that is selected
\* by then.  Of cases that were generated, and of what fails, it only tells.
FileArrives ==
    /\ file.st \in {"ok", "failed"}
    /\ file' = NoFile
    /\ replayResult' = IF file.kind = "replay" /\ file.st = "ok" /\ file.mine
                         THEN file.of ELSE replayResult
    /\ UNCHANGED <<manager, events, onPage, status, sessions, control, replayDialogOpen,
                   selectedSession>>

-------------------------------------------------------------------------------
RecorderNext ==
    \/ OtherClient \/ Restart
    \/ RecorderPage \/ LeavePage \/ PollStatus \/ StatusServed \/ StatusArrives
    \/ SessionsServed \/ SessionsArrive \/ FailsOrAges
    \/ handleStart \/ handleStop \/ handlePause
    \/ ControlServed \/ ControlArrives \/ ControlFails
    \/ CloseReplay \/ handleReplaySubmit \/ FileServed \/ FileArrives
    \/ \E s \in Sessions : handleReplay(s) \/ handleGenerate(s)

RecorderSpec == RecorderInit /\ [][RecorderNext]_recorderVars

-------------------------------------------------------------------------------
(***************************************************************************)
(* Properties.                                                             *)
(***************************************************************************)

\* A session that records ends by being paused or archived: no start, of a page or a
\* client that acts on a status of some seconds ago, replaces it; only a restart of the
\* process loses it.
RecordingIsFiled ==
    [][is_recording /\ current' # current =>
        current \in history' \/ restarts' # restarts]_recorderVars

\* recorder_manager.py:255 says that a pause keeps the data that was recorded: a session that
\* is paused goes on or is archived, unless the process restarts.
PausedIsKept ==
    [][state = "paused" /\ current' # current =>
        current \in history' \/ restarts' # restarts]_recorderVars
===============================================================================
