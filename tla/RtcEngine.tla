------------------------------ MODULE RtcEngine ------------------------------
(***************************************************************************)
(* The connection lifecycle of livekit/src/rtc_engine/mod.rs: one engine,  *)
(* the RtcSessions it creates, the engine_task that listens to the         *)
(* installed session, the reconnect task, concurrent close() calls, and    *)
(* the operations that hold a read guard of reconnecting_lock.             *)
(*                                                                         *)
(* A session is an element of Sessions; it is created by                   *)
(* RtcSession::connect, may lose its signal connection or its transport at *)
(* any time, and reports that with a SessionEvent::Close.  Of the many     *)
(* session events that engine_task hands on to the room, one stands for    *)
(* all: the ParticipantUpdate.  Between two awaits the code runs under the *)
(* running_handle lock, so each such section is one action.                *)
(***************************************************************************)
EXTENDS Naturals, Sequences, FiniteSets

CONSTANTS
    Sessions,            \* the RtcSessions that can be created (bound)
    Ops,                 \* concurrent calls that use wait_reconnection
    DataOps,             \* those of Ops that are publish_data calls
    NoSession,           \* the engine_task is None, no session installed
    RECONNECT_ATTEMPTS,  \* attempts of one reconnect_task
    JoinRetries,         \* EngineOptions::join_retries
    People,              \* identities of remote participants
    MaxReports,          \* bound on the events that the sessions report
    MaxCloses            \* bound on the application's calls of close()

ASSUME SessionsAssumption == NoSession \notin Sessions
ASSUME OpsAssumption == DataOps \subseteq Ops
ASSUME AttemptsAssumption == RECONNECT_ATTEMPTS \in Nat \ {0}
ASSUME JoinAssumption == JoinRetries \in Nat
ASSUME BoundsAssumption == MaxReports \in Nat /\ MaxCloses \in Nat

VARIABLES
    \* EngineHandle, guarded by running_handle
    session, closed, reconnecting, can_reconnect, full_reconnect, engine_task,
    \* the sessions and their engine tasks
    sess,            \* life of each RtcSession
    sig, pc,         \* the sessions whose signal link / transport is up
    events,          \* session_events: what engine_task has not handled yet
    task,            \* life of the engine_task spawned for each session
    stopper,         \* who took the engine_task of each session, and why
    reports,         \* number of events reported so far
    \* the reconnect task
    rpc,             \* its program counter
    attempt,         \* the loop variable i
    rfull,           \* the full_reconnect it read in this attempt
    rnew,            \* the session try_restart_connection is connecting
    \* the engine event channel to the room
    engine_rx, receiver, ack,
    close_spawned,   \* close() tasks spawned by a Disconnect, not yet polled
    closes,          \* number of application calls of close() so far
    op, opsess       \* the callers of wait_reconnection

handleVars == <<session, closed, reconnecting, can_reconnect, full_reconnect,
                engine_task>>
sessVars == <<sess, sig, pc, events, task, stopper, reports>>
recVars == <<rpc, attempt, rfull, rnew>>
chanVars == <<engine_rx, receiver, ack>>
closeVars == <<close_spawned, closes>>
opVars == <<op, opsess>>
vars == <<handleVars, sessVars, recVars, chanVars, closeVars, opVars>>

-----------------------------------------------------------------------------
Actions == {"Resume", "Reconnect", "Disconnect"}

Reasons == {"ClientInitiated", "Other"}

\* Events that carry a oneshot sender the reconnect task waits on.
AckEvents == {"Resuming", "SignalResumed", "Resumed",
              "Restarting", "SignalRestarted", "Restarted"}

\* What engine_task hands on unchanged: who came, and who left.
Forwarded == [type : {"ParticipantUpdate"}, who : People, here : BOOLEAN]

SessionEvents == [type : {"Close"}, action : Actions] \cup Forwarded

EngineEvents ==
    [type : AckEvents \cup {"Disconnected"}, reason : Reasons] \cup Forwarded

\* Program points at which the reconnect task has not taken, or has already
\* dropped, the write guard of reconnecting_lock.
Unlocked == {"joining", "join_failed", "idle", "lock"}

\* The awaits inside one attempt that resumes, and inside one that restarts.
ResumeSteps == {"announced_resume", "resume", "sync", "wait_resume"}
RestartSteps == {"announced_restart", "take", "stop_old", "connect",
                 "signal_restarted", "wait_pc"}

RPoints == Unlocked \cup ResumeSteps \cup RestartSteps
           \cup {"loop", "tick", "recovered", "failed", "closing", "finish"}

Holding(o) == op[o] \in {"granted", "using"}

Listening(s) == task[s] \in {"running", "stopping"}

\* The session's own tasks run and can still report to the engine.
CanReport(s) == sess[s] \in {"open", "closing"}

-----------------------------------------------------------------------------
Init ==
    /\ session = NoSession
    /\ closed = FALSE
    /\ reconnecting = FALSE
    /\ can_reconnect = TRUE
    /\ full_reconnect = FALSE
    /\ engine_task = NoSession
    /\ sess = [s \in Sessions |-> "unused"]
    /\ sig = {}
    /\ pc = {}
    /\ events = [s \in Sessions |-> <<>>]
    /\ task = [s \in Sessions |-> "none"]
    /\ stopper = [s \in Sessions |-> "nobody"]
    /\ reports = 0
    /\ rpc = "joining"
    /\ attempt = 0
    /\ rfull = FALSE
    /\ rnew = NoSession
    /\ engine_rx = <<>>
    /\ receiver = TRUE
    /\ ack = "none"
    /\ close_spawned = 0
    /\ closes = 0
    /\ op = [o \in Ops |-> "idle"]
    /\ opsess = [o \in Ops |-> NoSession]

\* engine_tx.send of an event the sender then waits on.  Without a receiver
\* the oneshot sender is dropped and the wait ends at once.
SendAndWait(type) ==
    /\ UNCHANGED receiver
    /\ IF receiver
       THEN /\ engine_rx' = Append(engine_rx,
                                   [type |-> type, reason |-> "Other"])
            /\ ack' = "pending"
       ELSE /\ ack' = "done"
            /\ UNCHANGED engine_rx

Acked ==
    /\ ack = "done"
    /\ ack' = "none"
    /\ UNCHANGED <<engine_rx, receiver>>

-----------------------------------------------------------------------------
(* EngineInner::connect *)

\* try_connect succeeded: the engine is created around the session and the
\* session's engine_task starts.
Join(s) ==
    /\ rpc = "joining"
    /\ sess[s] = "unused"
    /\ sess' = [sess EXCEPT ![s] = "open"]
    /\ sig' = sig \cup {s}
    /\ pc' = pc \cup {s}
    /\ session' = s
    /\ engine_task' = s
    /\ task' = [task EXCEPT ![s] = "running"]
    /\ rpc' = "idle"
    /\ attempt' = 0
    /\ UNCHANGED <<closed, reconnecting, can_reconnect, full_reconnect, events,
                   stopper, reports, rfull, rnew, chanVars, closeVars, opVars>>

\* try_connect failed; after join_retries + 1 failures connect gives up.
JoinFail ==
    /\ rpc = "joining"
    /\ attempt' = attempt + 1
    /\ rpc' = IF attempt < JoinRetries THEN "joining" ELSE "join_failed"
    /\ UNCHANGED <<handleVars, sessVars, rfull, rnew, chanVars, closeVars,
                   opVars>>

-----------------------------------------------------------------------------
(* The session: losing a link, and reporting it *)

Report(s, action) ==
    /\ CanReport(s)
    /\ reports < MaxReports
    /\ reports' = reports + 1
    /\ events' = [events EXCEPT
                     ![s] = Append(@, [type |-> "Close", action |-> action])]
    /\ UNCHANGED <<handleVars, sess, task, stopper, recVars, chanVars,
                   closeVars, opVars>>

\* SignalEvent::Close: the session reports Resume unless it is itself closed.
SignalLost(s) ==
    /\ s \in sig
    /\ sig' = sig \ {s}
    /\ UNCHANGED pc
    /\ Report(s, "Resume")

\* The primary PeerConnection reached the Failed state.
TransportLost(s) ==
    /\ s \in pc
    /\ pc' = pc \ {s}
    /\ UNCHANGED sig
    /\ Report(s, "Resume")

\* The server sent a LeaveRequest with an action, over a live signal link;
\* for Reconnect and Disconnect it has dropped this participant.
LeaveReceived(s, action) ==
    /\ s \in sig
    /\ UNCHANGED sig
    /\ pc' = IF action = "Resume" THEN pc ELSE pc \ {s}
    /\ Report(s, action)

\* A ParticipantUpdate came over a live signal link.
Forward(s, e) ==
    /\ CanReport(s)
    /\ s \in sig
    /\ reports < MaxReports
    /\ reports' = reports + 1
    /\ events' = [events EXCEPT ![s] = Append(@, e)]
    /\ UNCHANGED <<handleVars, sess, sig, pc, task, stopper, recVars, chanVars,
                   closeVars, opVars>>

-----------------------------------------------------------------------------
(* engine_task and on_session_event *)

\* reconnection_needed: start a cycle, or only escalate the running one.
reconnection_needed(full) ==
    IF ~can_reconnect
    THEN UNCHANGED <<reconnecting, full_reconnect, rpc>>
    ELSE IF reconnecting
    THEN /\ full_reconnect' = (full_reconnect \/ full)
         /\ UNCHANGED <<reconnecting, rpc>>
    ELSE /\ reconnecting' = TRUE
         /\ full_reconnect' = full
         /\ rpc' = "lock"

\* A Disconnect spawns close(reason) and bars any further reconnection.
OnClose(action) ==
    \/ /\ action \in {"Resume", "Reconnect"}
       /\ reconnection_needed(action = "Reconnect")
       /\ UNCHANGED <<can_reconnect, close_spawned>>
    \/ /\ action = "Disconnect"
       /\ can_reconnect' = FALSE
       /\ close_spawned' = close_spawned + 1
       /\ UNCHANGED <<reconnecting, full_reconnect, rpc>>

\* engine_tx.send of an event that nobody answers.
HandOn(e) ==
    /\ engine_rx' = IF receiver THEN Append(engine_rx, e) ELSE engine_rx
    /\ UNCHANGED <<receiver, ack>>

\* The engine task of s takes one event; the select may still prefer an
\* event to a close_rx that has already fired.
OnSessionEvent(s) ==
    /\ Listening(s)
    /\ events[s] # <<>>
    /\ events' = [events EXCEPT ![s] = Tail(@)]
    /\ LET e == Head(events[s])
       IN \/ /\ e.type = "Close"
             /\ OnClose(e.action)
             /\ UNCHANGED chanVars
          \/ /\ e \in Forwarded
             /\ HandOn(e)
             /\ UNCHANGED <<reconnecting, can_reconnect, full_reconnect, rpc,
                            close_spawned>>
    /\ UNCHANGED <<session, closed, engine_task, sess, sig, pc, task, stopper,
                   reports, attempt, rfull, rnew, closes, opVars>>

\* close_rx fires: the loop breaks and session_events is dropped.
EngineTaskEnds(s) ==
    /\ task[s] = "stopping"
    /\ task' = [task EXCEPT ![s] = "ended"]
    /\ events' = [events EXCEPT ![s] = <<>>]
    /\ UNCHANGED <<handleVars, sess, sig, pc, stopper, reports, recVars,
                   chanVars, closeVars, opVars>>

-----------------------------------------------------------------------------
(* Stopping a session whose engine_task was taken out of the handle *)

\* engine_task.take(), for the given purpose; session.close starts.
TakeTask(who) ==
    /\ engine_task' = NoSession
    /\ IF engine_task = NoSession
       THEN UNCHANGED <<sess, stopper>>
       ELSE /\ sess' = [sess EXCEPT ![engine_task] = "closing"]
            /\ stopper' = [stopper EXCEPT ![engine_task] = who]

\* Mutant: close_tx is not sent to the engine task.
SessionClosed_NotSent(s) ==
    /\ sess[s] = "closing"
    /\ sess' = [sess EXCEPT ![s] = "closed"]
    /\ sig' = sig \ {s}
    /\ pc' = pc \ {s}
    /\ UNCHANGED <<handleVars, events, task, stopper, reports, recVars,
                   chanVars, closeVars, opVars>>

\* session.close(..).await returned: the session's tasks are joined, its
\* PeerConnections and SignalClient closed; then close_tx.send(()).
SessionClosed(s) ==
    /\ sess[s] = "closing"
    /\ sess' = [sess EXCEPT ![s] = "closed"]
    /\ sig' = sig \ {s}
    /\ pc' = pc \ {s}
    /\ task' = [task EXCEPT ![s] = "stopping"]
    /\ UNCHANGED <<handleVars, events, stopper, reports, recVars, chanVars,
                   closeVars, opVars>>

-----------------------------------------------------------------------------
(* close(reason) *)

\* closed = true and engine_task.take(); with no task there is nothing else.
BeginClose(reason) ==
    /\ closed' = TRUE
    /\ TakeTask(reason)
    /\ UNCHANGED <<session, reconnecting, can_reconnect, full_reconnect, sig,
                   pc, events, task, reports, chanVars, opVars>>

\* The application's call, made by Room::close.
AppClose(reason) ==
    /\ rpc \notin {"joining", "join_failed"}
    /\ closes < MaxCloses
    /\ closes' = closes + 1
    /\ BeginClose(reason)
    /\ UNCHANGED <<recVars, close_spawned>>

\* The call spawned by a server's Disconnect.
SpawnedClose ==
    /\ close_spawned > 0
    /\ close_spawned' = close_spawned - 1
    /\ BeginClose("Other")
    /\ UNCHANGED <<recVars, closes>>

\* engine_task.await returned: Disconnected is sent.  A close made by the
\* reconnect task then returns to it.
CloseEnd(s) ==
    /\ task[s] = "ended"
    /\ stopper[s] \in Reasons
    /\ stopper' = [stopper EXCEPT ![s] = "done"]
    /\ HandOn([type |-> "Disconnected", reason |-> stopper[s]])
    /\ UNCHANGED <<handleVars, sess, sig, pc, events, task, reports, recVars,
                   closeVars, opVars>>

-----------------------------------------------------------------------------
(* The reconnect task *)

\* Mutant: the reconnection does not wait for the read guards.
Lock_NoReaders ==
    /\ rpc = "lock"
    /\ rpc' = "loop"
    /\ attempt' = 0
    /\ UNCHANGED <<handleVars, sessVars, rfull, rnew, chanVars, closeVars,
                   opVars>>

\* reconnecting_lock.write(): waits until no read guard is held.
Lock ==
    /\ rpc = "lock"
    /\ \A o \in Ops : ~Holding(o)
    /\ rpc' = "loop"
    /\ attempt' = 0
    /\ UNCHANGED <<handleVars, sessVars, rfull, rnew, chanVars, closeVars,
                   opVars>>

\* The head of the attempt loop.  Only attempt 0 announces itself.
BeginAttempt ==
    /\ rpc = "loop"
    /\ attempt < RECONNECT_ATTEMPTS
    /\ ~closed
    /\ rfull' = full_reconnect
    /\ \/ /\ attempt = 0
          /\ rpc' = IF full_reconnect THEN "announced_restart"
                                      ELSE "announced_resume"
          /\ SendAndWait(IF full_reconnect THEN "Restarting" ELSE "Resuming")
       \/ /\ attempt > 0
          /\ rpc' = IF full_reconnect THEN "take" ELSE "resume"
          /\ UNCHANGED chanVars
    /\ UNCHANGED <<handleVars, sessVars, attempt, rnew, closeVars, opVars>>

\* The engine was closed, or the attempts are used up: reconnect_task fails.
GiveUp ==
    /\ rpc = "loop"
    /\ closed \/ attempt >= RECONNECT_ATTEMPTS
    /\ rpc' = "failed"
    /\ UNCHANGED <<handleVars, sessVars, attempt, rfull, rnew, chanVars,
                   closeVars, opVars>>

Announced ==
    /\ rpc \in {"announced_restart", "announced_resume"}
    /\ Acked
    /\ rpc' = IF rfull THEN "take" ELSE "resume"
    /\ UNCHANGED <<handleVars, sessVars, attempt, rfull, rnew, closeVars,
                   opVars>>

\* Mutant: the old engine task is not awaited.
TakeOld_NoJoin ==
    /\ rpc = "take"
    /\ TakeTask("restart")
    /\ rpc' = "connect"
    /\ UNCHANGED <<session, closed, reconnecting, can_reconnect,
                   full_reconnect, sig, pc, events, task, reports, attempt,
                   rfull, rnew, chanVars, closeVars, opVars>>

\* try_restart_connection: take the current session's task, if it has one.
TakeOld ==
    /\ rpc = "take"
    /\ TakeTask("restart")
    /\ rpc' = IF engine_task = NoSession THEN "connect" ELSE "stop_old"
    /\ UNCHANGED <<session, closed, reconnecting, can_reconnect,
                   full_reconnect, sig, pc, events, task, reports, attempt,
                   rfull, rnew, chanVars, closeVars, opVars>>

\* The old session is closed and its engine task has been awaited.
OldStopped(s) ==
    /\ rpc = "stop_old"
    /\ stopper[s] = "restart"
    /\ task[s] = "ended"
    /\ stopper' = [stopper EXCEPT ![s] = "done"]
    /\ rpc' = "connect"
    /\ UNCHANGED <<handleVars, sess, sig, pc, events, task, reports, attempt,
                   rfull, rnew, chanVars, closeVars, opVars>>

\* RtcSession::connect succeeded; the room is told with SignalRestarted.
ConnectOk(s) ==
    /\ rpc = "connect"
    /\ sess[s] = "unused"
    /\ sess' = [sess EXCEPT ![s] = "open"]
    /\ sig' = sig \cup {s}
    /\ rnew' = s
    /\ rpc' = "signal_restarted"
    /\ SendAndWait("SignalRestarted")
    /\ UNCHANGED <<handleVars, pc, events, task, stopper, reports, attempt,
                   rfull, closeVars, opVars>>

ConnectErr ==
    /\ rpc = "connect"
    /\ rpc' = "tick"
    /\ UNCHANGED <<handleVars, sessVars, attempt, rfull, rnew, chanVars,
                   closeVars, opVars>>

SignalRestartedAcked ==
    /\ rpc = "signal_restarted"
    /\ Acked
    /\ rpc' = "wait_pc"
    /\ UNCHANGED <<handleVars, sessVars, attempt, rfull, rnew, closeVars,
                   opVars>>

\* wait_pc_connection succeeded: install the new session and its engine task
\* (without looking at closed), send Restarted.
Install ==
    /\ rpc = "wait_pc"
    /\ pc' = pc \cup {rnew}
    /\ session' = rnew
    /\ engine_task' = rnew
    /\ task' = [task EXCEPT ![rnew] = "running"]
    /\ rnew' = NoSession
    /\ rpc' = "recovered"
    /\ SendAndWait("Restarted")
    /\ UNCHANGED <<closed, reconnecting, can_reconnect, full_reconnect, sess,
                   sig, events, stopper, reports, attempt, rfull, closeVars,
                   opVars>>

\* wait_pc_connection failed: the new session is dropped, never closed.
WaitPcErr ==
    /\ rpc = "wait_pc"
    /\ sess' = [sess EXCEPT ![rnew] = "dropped"]
    /\ sig' = sig \ {rnew}
    /\ pc' = pc \ {rnew}
    /\ events' = [events EXCEPT ![rnew] = <<>>]
    /\ rnew' = NoSession
    /\ rpc' = "tick"
    /\ UNCHANGED <<handleVars, task, stopper, reports, attempt, rfull,
                   chanVars, closeVars, opVars>>

\* try_resume_connection: session.restart() reconnected the signal link.
ResumeOk ==
    /\ rpc = "resume"
    /\ sig' = sig \cup {session}
    /\ rpc' = "sync"
    /\ SendAndWait("SignalResumed")
    /\ UNCHANGED <<handleVars, sess, pc, events, task, stopper, reports,
                   attempt, rfull, rnew, closeVars, opVars>>

SyncAcked ==
    /\ rpc = "sync"
    /\ Acked
    /\ rpc' = "wait_resume"
    /\ UNCHANGED <<handleVars, sessVars, attempt, rfull, rnew, closeVars,
                   opVars>>

\* Mutant: wait_pc_connection does not look at closed.
Resumed_Closed ==
    /\ rpc = "wait_resume"
    /\ rpc' = "recovered"
    /\ SendAndWait("Resumed")
    /\ UNCHANGED <<handleVars, sessVars, attempt, rfull, rnew, closeVars,
                   opVars>>

\* restart_publisher and wait_pc_connection succeeded (the latter fails once
\* the session is closed): send Resumed.
Resumed ==
    /\ rpc = "wait_resume"
    /\ sess[session] # "closed"
    /\ pc' = pc \cup {session}
    /\ rpc' = "recovered"
    /\ SendAndWait("Resumed")
    /\ UNCHANGED <<handleVars, sess, sig, events, task, stopper, reports,
                   attempt, rfull, rnew, closeVars, opVars>>

\* Any step of the resume failed: the next attempts are full reconnects.
ResumeErr ==
    /\ rpc \in {"resume", "wait_resume"}
    /\ full_reconnect' = TRUE
    /\ rpc' = "tick"
    /\ UNCHANGED <<session, closed, reconnecting, can_reconnect, engine_task,
                   sessVars, attempt, rfull, rnew, chanVars, closeVars,
                   opVars>>

\* The interval ticked: next attempt.
Tick ==
    /\ rpc = "tick"
    /\ attempt' = attempt + 1
    /\ rpc' = "loop"
    /\ UNCHANGED <<handleVars, sessVars, rfull, rnew, chanVars, closeVars,
                   opVars>>

\* The room acknowledged Restarted or Resumed: reconnect_task returns Ok.
Recovered ==
    /\ rpc = "recovered"
    /\ Acked
    /\ rpc' = "finish"
    /\ UNCHANGED <<handleVars, sessVars, attempt, rfull, rnew, closeVars,
                   opVars>>

\* reconnect_task failed: the task calls close(UnknownReason) itself ...
CloseFailed ==
    /\ rpc = "failed"
    /\ BeginClose("Other")
    /\ rpc' = IF engine_task = NoSession THEN "finish" ELSE "closing"
    /\ UNCHANGED <<attempt, rfull, rnew, closeVars>>

\* ... and waits for it to return.
CloseReturned ==
    /\ rpc = "closing"
    /\ stopper[session] = "done"
    /\ rpc' = "finish"
    /\ UNCHANGED <<handleVars, sessVars, attempt, rfull, rnew, chanVars,
                   closeVars, opVars>>

\* Mutant: reconnecting is not reset.
Finish_NoReset ==
    /\ rpc = "finish"
    /\ rpc' = "idle"
    /\ op' = [o \in Ops |-> IF op[o] = "waiting" THEN "granted" ELSE op[o]]
    /\ UNCHANGED <<handleVars, sessVars, attempt, rfull, rnew, chanVars,
                   closeVars, opsess>>

\* reconnecting = false and the write guard is dropped: the readers queued
\* behind it all get the lock.
Finish ==
    /\ rpc = "finish"
    /\ reconnecting' = FALSE
    /\ rpc' = "idle"
    /\ op' = [o \in Ops |-> IF op[o] = "waiting" THEN "granted" ELSE op[o]]
    /\ UNCHANGED <<session, closed, can_reconnect, full_reconnect,
                   engine_task, sessVars, attempt, rfull, rnew, chanVars,
                   closeVars, opsess>>

-----------------------------------------------------------------------------
(* wait_reconnection and the operations that use it *)

\* reconnecting_lock.read(): queued behind a writer that holds or awaits it.
OpCall(o) ==
    /\ rpc \notin {"joining", "join_failed"}
    /\ op[o] = "idle"
    /\ op' = [op EXCEPT ![o] = IF rpc = "idle" THEN "granted" ELSE "waiting"]
    /\ UNCHANGED <<handleVars, sessVars, recVars, chanVars, closeVars, opsess>>

\* With the guard held: fail if the engine is closed, else use its session.
OpStart(o) ==
    /\ op[o] = "granted"
    /\ op' = [op EXCEPT ![o] = IF closed THEN "idle" ELSE "using"]
    /\ opsess' = [opsess EXCEPT ![o] = IF closed THEN NoSession ELSE session]
    /\ UNCHANGED <<handleVars, sessVars, recVars, chanVars, closeVars>>

\* The operation returns and drops its guard.
OpEnd(o) ==
    /\ op[o] = "using"
    /\ op' = [op EXCEPT ![o] = "idle"]
    /\ opsess' = [opsess EXCEPT ![o] = NoSession]
    /\ UNCHANGED <<handleVars, sessVars, recVars, chanVars, closeVars>>

-----------------------------------------------------------------------------
(* The room, as the engine sees it: the receiver of its event channel *)

AckQueued == \E i \in DOMAIN engine_rx : engine_rx[i].type \in AckEvents

\* The room takes an event, and answers it at once or later.
RoomTakes(answered) ==
    /\ engine_rx # <<>>
    /\ engine_rx' = Tail(engine_rx)
    /\ ack' = IF Head(engine_rx).type \in AckEvents /\ answered
              THEN "done" ELSE ack
    /\ UNCHANGED <<handleVars, sessVars, recVars, receiver, closeVars, opVars>>

RoomRecv == \E answered \in BOOLEAN : RoomTakes(answered)

\* A late answer to an event already taken.
RoomAck ==
    /\ ack = "pending"
    /\ ~AckQueued
    /\ ack' = "done"
    /\ UNCHANGED <<handleVars, sessVars, recVars, engine_rx, receiver,
                   closeVars, opVars>>

\* The room task ended after a close(): queued events and their oneshot
\* senders are dropped.
RoomGone ==
    /\ receiver
    /\ closed
    /\ receiver' = FALSE
    /\ engine_rx' = <<>>
    /\ ack' = IF AckQueued THEN "done" ELSE ack
    /\ UNCHANGED <<handleVars, sessVars, recVars, closeVars, opVars>>

-----------------------------------------------------------------------------
\* The reconnect task, but for the JoinResponse of a full reconnect.
ReconnectLocal ==
    \/ Lock \/ BeginAttempt \/ GiveUp \/ Announced
    \/ TakeOld \/ ConnectErr \/ SignalRestartedAcked \/ Install \/ WaitPcErr
    \/ ResumeOk \/ SyncAcked \/ Resumed \/ ResumeErr
    \/ Tick \/ Recovered \/ CloseFailed \/ CloseReturned \/ Finish
    \/ \E s \in Sessions : OldStopped(s)

ReconnectStep == ReconnectLocal \/ \E s \in Sessions : ConnectOk(s)

\* The engine tasks, and close() once the session it closes is closed.
EngineTaskStep ==
    \/ \E s \in Sessions :
          OnSessionEvent(s) \/ EngineTaskEnds(s) \/ CloseEnd(s)
    \/ SpawnedClose

EngineStep == EngineTaskStep \/ \E s \in Sessions : SessionClosed(s)

CallerStep ==
    \/ JoinFail
    \/ \E s \in Sessions : Join(s)
    \/ \E r \in Reasons : AppClose(r)
    \/ \E o \in Ops : OpCall(o) \/ OpStart(o) \/ OpEnd(o)

SessionStep ==
    \E s \in Sessions :
       \/ SignalLost(s) \/ TransportLost(s)
       \/ \E a \in Actions : LeaveReceived(s, a)

UpdateStep == \E s \in Sessions, e \in Forwarded : Forward(s, e)

RoomStep == RoomRecv \/ RoomAck \/ RoomGone

Next ==
    \/ ReconnectStep \/ EngineStep \/ CallerStep \/ SessionStep \/ UpdateStep
    \/ RoomStep

Safe == Init /\ [][Next]_vars

\* A publish_data waits for the data channel to drain, which needs the
\* transport or the end of the session; any other operation has a timeout.
OpMustEnd(o) ==
    /\ OpEnd(o)
    /\ o \in DataOps => opsess[o] \in pc \/ sess[opsess[o]] = "closed"

\* A timer bounds RtcSession::connect and wait_pc_connection.  Nothing bounds
\* SignalClient::restart, which waits for the write lock of the stream.
ReconnectOwed == rpc # "resume" /\ ReconnectLocal

\* Every spawned task is polled by the runtime, room_task takes its events,
\* and operations return.  Nothing is assumed of the network, the server or the
\* application, nor of what waits on them: SignalClient::restart and ::close,
\* and with the latter RtcSession::close, and send_sync_state of the room.
Fairness ==
    /\ WF_vars(ReconnectOwed)
    /\ WF_vars(EngineTaskStep)
    /\ \A o \in Ops : WF_vars(OpStart(o)) /\ WF_vars(OpMustEnd(o))
    /\ WF_vars(RoomRecv)

Spec == Safe /\ Fairness

-----------------------------------------------------------------------------
(* Properties *)

\* Every variable has its type; no loop runs past its last attempt.
TypeOK ==
    /\ session \in Sessions \cup {NoSession}
    /\ closed \in BOOLEAN
    /\ reconnecting \in BOOLEAN
    /\ can_reconnect \in BOOLEAN
    /\ full_reconnect \in BOOLEAN
    /\ engine_task \in Sessions \cup {NoSession}
    /\ sess \in [Sessions -> {"unused", "open", "closing", "closed", "dropped"}]
    /\ sig \subseteq Sessions
    /\ pc \subseteq Sessions
    /\ events \in [Sessions -> Seq(SessionEvents)]
    /\ task \in [Sessions -> {"none", "running", "stopping", "ended"}]
    /\ stopper \in [Sessions -> Reasons \cup {"nobody", "restart", "done"}]
    /\ reports \in 0..MaxReports
    /\ rpc \in RPoints
    /\ attempt \in 0..(IF rpc \in {"joining", "join_failed"}
                       THEN JoinRetries + 1 ELSE RECONNECT_ATTEMPTS)
    /\ rfull \in BOOLEAN
    /\ rnew \in Sessions \cup {NoSession}
    /\ engine_rx \in Seq(EngineEvents)
    /\ receiver \in BOOLEAN
    /\ ack \in {"none", "pending", "done"}
    /\ close_spawned \in Nat
    /\ closes \in 0..MaxCloses
    /\ op \in [Ops -> {"idle", "waiting", "granted", "using"}]
    /\ opsess \in [Ops -> Sessions \cup {NoSession}]

\* While the engine is not closed, at most one engine_task reads session
\* events: a restart joins the old task before the new session is installed,
\* so reports of two sessions never interleave.
OneEngineTask ==
    ~closed => \A s, t \in Sessions : Listening(s) /\ Listening(t) => s = t

\* An operation that passed wait_reconnection keeps the installed session for
\* as long as it runs: no restart replaces or closes it, only close() may.
OpsOnCurrentSession ==
    \A o \in Ops :
        op[o] = "using" => /\ opsess[o] = session
                           /\ closed \/ sess[session] = "open"

\* Outside the reconnect task's locked section an engine that was not closed
\* always has an open session with a running engine_task, so that a later
\* failure will be heard.
UnlockedHasListener ==
    (rpc \in {"idle", "lock"} /\ ~closed) =>
        /\ engine_task = session
        /\ task[session] = "running"
        /\ sess[session] = "open"

\* A resume is only tried on a session that was not torn down: once an attempt
\* of the cycle has failed, every later one is a full reconnect.
ResumeOnlyLiveSession ==
    (rpc \in ResumeSteps /\ ~closed) =>
        sess[session] = "open" /\ engine_task = session

\* reconnection_needed and the reconnect loop only escalate to a full
\* reconnect within a cycle; a stale Close that asks to resume never
\* downgrades it.
NeverDowngrade ==
    [][(reconnecting /\ reconnecting' /\ full_reconnect) => full_reconnect']_vars

\* RtcSession::close of s returns, once it was called.  It need not:
\* SignalClient::close waits for the write lock of the stream, which a sender
\* may hold for ever when its peer has stopped reading.
Returns(s) == []<>(sess[s] # "closing")

\* Every reconnection cycle ends, by recovery or by closing the engine, if the
\* four waits that no timer bounds do: for the read guards of publish_data
\* calls, which a dead data channel may keep for ever; for RtcSession::close;
\* for SignalClient::restart; for the room's answer, which send_sync_state
\* delays.
ReconnectionEnds ==
    (/\ \A o \in DataOps : []<>~Holding(o)
     /\ \A s \in Sessions : Returns(s)
     /\ []<>(rpc # "resume")
     /\ []<>(ack # "pending")) => (reconnecting ~> ~reconnecting)

\* Every close() that took the engine_task runs to its end and sends
\* Disconnected, whatever the reconnect task is doing, if the session it closes
\* lets RtcSession::close return.
CloseCompletes ==
    \A s \in Sessions :
        Returns(s) => (stopper[s] \in Reasons ~> stopper[s] = "done")

\* "The close function can send a signal to cancel the reconnection": once the
\* engine is closed and neither a close() nor a reconnection is in flight, no
\* engine_task is left running.
ClosedEngineStops ==
    (closed /\ rpc = "idle" /\ close_spawned = 0) =>
        engine_task = NoSession

\* reconnect_task is "Runned every time the PeerConnection or the SignalClient
\* is closed": an idle engine that has handled every report of its session
\* has a session whose links are up.
LossesAreRecovered ==
    (rpc = "idle" /\ ~closed /\ can_reconnect /\ events[session] = <<>>) =>
        session \in sig \cap pc

=============================================================================
