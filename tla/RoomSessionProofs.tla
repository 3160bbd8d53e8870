-------------------------- MODULE RoomSessionProofs --------------------------
(***************************************************************************)
(* Proofs about RtcEngine and RoomSession, for any number of sessions,     *)
(* operations, attempts, reports and close() calls.                        *)
(*                                                                         *)
(* First the engine with the room as an open environment.  None of its     *)
(* four safety invariants is inductive; Control, Ownership and Guards      *)
(* strengthen them with what the reconnect task knows at each of its       *)
(* program points.                                                         *)
(*                                                                         *)
(* Then the room implements that environment: every step of RoomSession is *)
(* a step of RtcEngine or leaves the engine alone.  Each theorem about     *)
(* Safe is therefore a theorem about the composition, and the engine's     *)
(* invariant is at hand for the room's own: the offer of a resume waits    *)
(* for send_sync_state (AckInv), Disconnected is final (StopInv,           *)
(* FinalInv), and nobody goes missing in a reconnection: what each update  *)
(* will make known is followed through the two queues (Kept, PeopleInv).   *)
(***************************************************************************)
EXTENDS RoomSession, TLAPS

-----------------------------------------------------------------------------
(* The engine *)

\* Points of the reconnect task at which, unless the engine was closed, the
\* installed session is the one it has been all along.
KeepsSession == {"idle", "lock", "recovered", "finish"} \cup ResumeSteps

\* What the program counter of the reconnect task says of its own variables
\* and of the flags of the handle.
Control ==
    /\ reconnecting <=> rpc \notin {"joining", "join_failed", "idle"}
    /\ rpc \in RestartSteps \cup {"tick"} => full_reconnect
    /\ (rpc = "loop" /\ attempt > 0) => full_reconnect
    /\ rpc = "announced_resume" => ~rfull
    /\ rpc = "announced_restart" => rfull
    /\ rpc \in ResumeSteps \cup RestartSteps \cup {"tick"} =>
           attempt < RECONNECT_ATTEMPTS
    /\ rpc = "joining" => attempt <= JoinRetries
    /\ rpc \notin {"joining", "join_failed"} => session \in Sessions
    /\ rpc \in {"signal_restarted", "wait_pc"} => rnew \in Sessions
    /\ rpc \in {"joining", "join_failed"} =>
           /\ engine_task = NoSession
           /\ \A s \in Sessions : sess[s] = "unused" /\ task[s] = "none"
    /\ rpc = "closing" => closed

\* Who may stop a session, and which engine tasks can be listening.
Ownership ==
    /\ \A s \in Sessions :
          /\ sess[s] = "unused" => task[s] = "none" /\ stopper[s] = "nobody"
          /\ sess[s] = "open" => task[s] \in {"none", "running"}
          /\ sess[s] = "closing" => task[s] = "running"
          /\ sess[s] = "dropped" => task[s] = "none"
          /\ stopper[s] = "restart" => rpc = "stop_old" /\ s = session
    /\ engine_task # NoSession =>
          /\ engine_task = session
          /\ sess[session] = "open"
          /\ task[session] = "running"
    /\ rpc \in {"joining", "join_failed", "stop_old", "connect",
                "signal_restarted", "wait_pc"} => engine_task = NoSession
    /\ rpc \in {"signal_restarted", "wait_pc"} =>
          /\ sess[rnew] = "open"
          /\ task[rnew] = "none"
    /\ ~closed => \A s \in Sessions : Listening(s) =>
          s = session /\ (engine_task = NoSession => rpc = "stop_old")
    /\ (~closed /\ (rpc \in KeepsSession \/ (rpc = "loop" /\ ~full_reconnect)))
          => engine_task = session /\ session \in Sessions

\* A read guard is only held while the write guard is not, and an operation
\* uses the session that was installed when it got its guard.
Guards ==
    \A o \in Ops :
        /\ Holding(o) => rpc \in {"idle", "lock"}
        /\ op[o] = "using" => opsess[o] = session

IInv == TypeOK /\ Control /\ Ownership /\ Guards

-----------------------------------------------------------------------------
(* Types *)

\* Sending an event to the room keeps the channel well typed.
LEMMA SendType ==
    ASSUME TypeOK, NEW type \in AckEvents, SendAndWait(type)
    PROVE  /\ engine_rx' \in Seq(EngineEvents)
           /\ receiver' \in BOOLEAN
           /\ ack' \in {"none", "pending", "done"}
<1>1. [type |-> type, reason |-> "Other"] \in EngineEvents
    BY DEF EngineEvents, Reasons
<1>2. engine_rx \in Seq(EngineEvents) /\ receiver \in BOOLEAN
    BY DEF TypeOK
<1> QED
    BY <1>1, <1>2 DEF SendAndWait

\* Taking the engine task out of the handle, for a restart or a close.
LEMMA TakeType ==
    ASSUME TypeOK, NEW who \in Reasons \cup {"restart"}, TakeTask(who)
    PROVE  /\ engine_task' \in Sessions \cup {NoSession}
           /\ sess' \in [Sessions -> {"unused", "open", "closing", "closed",
                                     "dropped"}]
           /\ stopper' \in [Sessions -> Reasons \cup {"nobody", "restart", "done"}]
BY DEF TypeOK, TakeTask

\* What a session reports is appended to its events.
LEMMA EventsType ==
    ASSUME TypeOK, NEW s \in Sessions, NEW e \in SessionEvents,
           reports < MaxReports, reports' = reports + 1,
           events' = [events EXCEPT ![s] = Append(@, e)]
    PROVE  /\ events' \in [Sessions -> Seq(SessionEvents)]
           /\ reports' \in 0..MaxReports
<1>1. events[s] \in Seq(SessionEvents) /\ reports \in 0..MaxReports
    BY DEF TypeOK
<1>2. Append(events[s], e) \in Seq(SessionEvents)
    BY <1>1
<1> QED
    BY <1>1, <1>2, BoundsAssumption DEF TypeOK

LEMMA ReportType ==
    ASSUME TypeOK, NEW s \in Sessions, NEW a \in Actions, Report(s, a)
    PROVE  /\ events' \in [Sessions -> Seq(SessionEvents)]
           /\ reports' \in 0..MaxReports
<1>1. [type |-> "Close", action |-> a] \in SessionEvents
    BY DEF SessionEvents
<1> QED
    BY <1>1, EventsType DEF Report

LEMMA ForwardType ==
    ASSUME TypeOK, NEW s \in Sessions, NEW e \in Forwarded, Forward(s, e)
    PROVE  /\ events' \in [Sessions -> Seq(SessionEvents)]
           /\ reports' \in 0..MaxReports
<1>1. e \in SessionEvents
    BY DEF SessionEvents
<1> QED
    BY <1>1, EventsType DEF Forward

\* An event that nobody answers keeps the channel well typed.
LEMMA HandOnType ==
    ASSUME TypeOK, NEW e \in EngineEvents, HandOn(e)
    PROVE  /\ engine_rx' \in Seq(EngineEvents)
           /\ UNCHANGED <<receiver, ack>>
BY DEF TypeOK, HandOn

\* Every step keeps the types; the loop bounds need Control.
LEMMA TypeStep ==
    TypeOK /\ Control /\ [Next]_vars => TypeOK'
<1> SUFFICES ASSUME TypeOK, Control, [Next]_vars PROVE TypeOK'
    OBVIOUS
<1> USE SessionsAssumption, AttemptsAssumption, JoinAssumption, BoundsAssumption
    DEF TypeOK, Control, RPoints, Unlocked, ResumeSteps, RestartSteps
<1>1. CASE Lock
    BY <1>1 DEF Lock, handleVars, sessVars, recVars, chanVars, closeVars,
       opVars
<1>2. CASE BeginAttempt
    BY <1>2, SendType DEF BeginAttempt, handleVars, sessVars, recVars,
       chanVars, closeVars, opVars, AckEvents
<1>3. CASE GiveUp
    BY <1>3 DEF GiveUp, handleVars, sessVars, recVars, chanVars, closeVars,
       opVars
<1>4. CASE Announced
    BY <1>4 DEF Announced, Acked, handleVars, sessVars, recVars, chanVars,
       closeVars, opVars
<1>5. CASE TakeOld
    BY <1>5, TakeType DEF TakeOld, handleVars, sessVars, recVars, chanVars,
       closeVars, opVars
<1>6. CASE ConnectErr
    BY <1>6 DEF ConnectErr, handleVars, sessVars, recVars, chanVars,
       closeVars, opVars
<1>7. CASE SignalRestartedAcked
    BY <1>7 DEF SignalRestartedAcked, Acked, handleVars, sessVars, recVars,
       chanVars, closeVars, opVars
<1>8. CASE Install
    BY <1>8, SendType DEF Install, handleVars, sessVars, recVars, chanVars,
       closeVars, opVars, AckEvents
<1>9. CASE WaitPcErr
    BY <1>9 DEF WaitPcErr, handleVars, sessVars, recVars, chanVars,
       closeVars, opVars
<1>10. CASE ResumeOk
    BY <1>10, SendType DEF ResumeOk, handleVars, sessVars, recVars, chanVars,
       closeVars, opVars, AckEvents
<1>11. CASE SyncAcked
    BY <1>11 DEF SyncAcked, Acked, handleVars, sessVars, recVars, chanVars,
       closeVars, opVars
<1>12. CASE Resumed
    BY <1>12, SendType DEF Resumed, handleVars, sessVars, recVars, chanVars,
       closeVars, opVars, AckEvents
<1>13. CASE ResumeErr
    BY <1>13 DEF ResumeErr, handleVars, sessVars, recVars, chanVars,
       closeVars, opVars
<1>14. CASE Tick
    BY <1>14 DEF Tick, handleVars, sessVars, recVars, chanVars, closeVars,
       opVars
<1>15. CASE Recovered
    BY <1>15 DEF Recovered, Acked, handleVars, sessVars, recVars, chanVars,
       closeVars, opVars
<1>16. CASE CloseFailed
    BY <1>16, TakeType DEF CloseFailed, BeginClose, handleVars, sessVars,
       recVars, chanVars, closeVars, opVars, Reasons
<1>17. CASE CloseReturned
    BY <1>17 DEF CloseReturned, handleVars, sessVars, recVars, chanVars,
       closeVars, opVars
<1>18. CASE Finish
    BY <1>18 DEF Finish, handleVars, sessVars, recVars, chanVars, closeVars,
       opVars
<1>19. ASSUME NEW s \in Sessions, OldStopped(s) PROVE TypeOK'
    BY <1>19 DEF OldStopped, handleVars, sessVars, recVars, chanVars,
       closeVars, opVars
<1>20. ASSUME NEW s \in Sessions, ConnectOk(s) PROVE TypeOK'
    BY <1>20, SendType DEF ConnectOk, handleVars, sessVars, recVars,
       chanVars, closeVars, opVars, AckEvents
<1>21. ASSUME NEW s \in Sessions, OnSessionEvent(s) PROVE TypeOK'
  <2> DEFINE e == Head(events[s])
  <2>1. events[s] \in Seq(SessionEvents) /\ events[s] # <<>>
    BY <1>21 DEF OnSessionEvent
  <2>2. e \in SessionEvents /\ Tail(events[s]) \in Seq(SessionEvents)
    BY <2>1
  <2>3. events' \in [Sessions -> Seq(SessionEvents)]
    BY <1>21, <2>2 DEF OnSessionEvent
  <2>4. /\ rpc \notin {"joining", "join_failed"}
        /\ UNCHANGED <<session, closed, engine_task, sess, sig, pc, task,
                       stopper, reports, attempt, rfull, rnew, closes, opVars>>
    BY <1>21 DEF OnSessionEvent, Listening
  <2>5. CASE OnClose(e.action) /\ UNCHANGED chanVars
    <3>1. full_reconnect' \in BOOLEAN
      BY <2>5 DEF OnClose, reconnection_needed
    <3>2. reconnecting' \in BOOLEAN /\ rpc' \in {rpc, "lock"}
      BY <2>5 DEF OnClose, reconnection_needed
    <3>3. /\ can_reconnect' \in {can_reconnect, FALSE}
          /\ close_spawned' \in {close_spawned, close_spawned + 1}
      BY <2>5 DEF OnClose
    <3>4. can_reconnect' \in BOOLEAN
      BY <3>3
    <3>5. close_spawned' \in Nat
      BY <3>3
    <3> QED
      BY <2>3, <2>4, <2>5, <3>1, <3>2, <3>4, <3>5 DEF chanVars, opVars
  <2>6. CASE /\ e \in Forwarded /\ HandOn(e)
             /\ UNCHANGED <<reconnecting, can_reconnect, full_reconnect, rpc,
                            close_spawned>>
    <3>1. e \in EngineEvents
      BY <2>6 DEF EngineEvents
    <3>2. engine_rx' \in Seq(EngineEvents) /\ UNCHANGED <<receiver, ack>>
      BY <2>6, <3>1, HandOnType
    <3> QED
      BY <2>3, <2>4, <2>6, <3>2 DEF opVars
  <2> QED
    BY <1>21, <2>5, <2>6 DEF OnSessionEvent
<1>22. ASSUME NEW s \in Sessions, EngineTaskEnds(s) PROVE TypeOK'
    BY <1>22 DEF EngineTaskEnds, handleVars, sessVars, recVars, chanVars,
       closeVars, opVars
<1>23. ASSUME NEW s \in Sessions, SessionClosed(s) PROVE TypeOK'
    BY <1>23 DEF SessionClosed, handleVars, sessVars, recVars, chanVars,
       closeVars, opVars
<1>24. ASSUME NEW s \in Sessions, CloseEnd(s) PROVE TypeOK'
  <2>1. [type |-> "Disconnected", reason |-> stopper[s]] \in EngineEvents
    BY <1>24 DEF CloseEnd, EngineEvents
  <2>2. engine_rx' \in Seq(EngineEvents) /\ UNCHANGED <<receiver, ack>>
    BY <1>24, <2>1, HandOnType DEF CloseEnd
  <2> QED
    BY <1>24, <2>2 DEF CloseEnd, handleVars, recVars, closeVars, opVars
<1>25. CASE SpawnedClose
    BY <1>25, TakeType DEF SpawnedClose, BeginClose, handleVars, sessVars,
       recVars, chanVars, closeVars, opVars, Reasons
<1>26. CASE JoinFail
    BY <1>26 DEF JoinFail, handleVars, sessVars, recVars, chanVars,
       closeVars, opVars
<1>27. ASSUME NEW s \in Sessions, Join(s) PROVE TypeOK'
    BY <1>27 DEF Join, handleVars, sessVars, recVars, chanVars, closeVars,
       opVars
<1>28. ASSUME NEW r \in Reasons, AppClose(r) PROVE TypeOK'
    BY <1>28, TakeType DEF AppClose, BeginClose, handleVars, sessVars,
       recVars, chanVars, closeVars, opVars
<1>29. ASSUME NEW o \in Ops, OpCall(o) PROVE TypeOK'
    BY <1>29 DEF OpCall, handleVars, sessVars, recVars, chanVars, closeVars,
       opVars
<1>30. ASSUME NEW o \in Ops, OpStart(o) PROVE TypeOK'
    BY <1>30 DEF OpStart, handleVars, sessVars, recVars, chanVars, closeVars,
       opVars
<1>31. ASSUME NEW o \in Ops, OpEnd(o) PROVE TypeOK'
    BY <1>31 DEF OpEnd, handleVars, sessVars, recVars, chanVars, closeVars,
       opVars
<1>40. ASSUME events' \in [Sessions -> Seq(SessionEvents)],
              reports' \in 0..MaxReports,
              sig' \subseteq Sessions, pc' \subseteq Sessions,
              UNCHANGED <<handleVars, sess, task, stopper, recVars, chanVars,
                          closeVars, opVars>>
       PROVE  TypeOK'
    BY <1>40 DEF handleVars, recVars, chanVars, closeVars, opVars
<1>41. ASSUME NEW s \in Sessions, NEW a \in Actions, Report(s, a),
              sig' \subseteq Sessions, pc' \subseteq Sessions
       PROVE  TypeOK'
  <2>1. UNCHANGED <<handleVars, sess, task, stopper, recVars, chanVars,
                    closeVars, opVars>>
    BY <1>41 DEF Report
  <2> QED
    BY <1>40, <1>41, <2>1, ReportType
<1>32. ASSUME NEW s \in Sessions, SignalLost(s) PROVE TypeOK'
    BY <1>32, <1>41 DEF SignalLost, Actions
<1>33. ASSUME NEW s \in Sessions, TransportLost(s) PROVE TypeOK'
    BY <1>33, <1>41 DEF TransportLost, Actions
<1>34. ASSUME NEW s \in Sessions, NEW a \in Actions, LeaveReceived(s, a)
       PROVE  TypeOK'
    BY <1>34, <1>41 DEF LeaveReceived
<1>39. ASSUME NEW s \in Sessions, NEW e \in Forwarded, Forward(s, e)
       PROVE  TypeOK'
  <2>1. UNCHANGED <<handleVars, sess, sig, pc, task, stopper, recVars, chanVars,
                    closeVars, opVars>>
    BY <1>39 DEF Forward
  <2> QED
    BY <1>39, <1>40, <2>1, ForwardType
<1>35. CASE RoomRecv
    BY <1>35 DEF RoomRecv, RoomTakes, handleVars, sessVars, recVars,
       chanVars, closeVars, opVars
<1>36. CASE RoomAck
    BY <1>36 DEF RoomAck, handleVars, sessVars, recVars, chanVars, closeVars,
       opVars
<1>37. CASE RoomGone
  <2>1. engine_rx' = <<>> /\ receiver' = FALSE
    BY <1>37 DEF RoomGone
  <2>2. ack' \in {"none", "pending", "done"}
    BY <1>37 DEF RoomGone
  <2>3. <<>> \in Seq(EngineEvents)
    OBVIOUS
  <2>4. UNCHANGED <<handleVars, sessVars, recVars, closeVars, opVars>>
    BY <1>37 DEF RoomGone
  <2> QED
    BY <2>1, <2>2, <2>3, <2>4, ZenonT(40) DEF handleVars, sessVars, recVars, closeVars, opVars
<1>38. CASE UNCHANGED vars
    BY <1>38 DEF vars, handleVars, sessVars, recVars, chanVars, closeVars, opVars
<1> QED
    BY <1>1, <1>2, <1>3, <1>4, <1>5, <1>6, <1>7, <1>8, <1>9, <1>10, <1>11,
       <1>12, <1>13, <1>14, <1>15, <1>16, <1>17, <1>18, <1>19, <1>20,
       <1>21, <1>22, <1>23, <1>24, <1>25, <1>26, <1>27, <1>28, <1>29,
       <1>30, <1>31, <1>32, <1>33, <1>34, <1>35, <1>36, <1>37, <1>38, <1>39
    DEF Next, ReconnectStep, ReconnectLocal, EngineStep, EngineTaskStep,
        CallerStep, SessionStep, UpdateStep, RoomStep

-----------------------------------------------------------------------------
(* The strengthened invariant *)

\* A cycle sets reconnecting, never withdraws full_reconnect, and counts its
\* attempts.
LEMMA ControlStep ==
    TypeOK /\ Control /\ [Next]_vars => Control'
<1> SUFFICES ASSUME TypeOK, Control, [Next]_vars PROVE Control'
    OBVIOUS
<1> USE SessionsAssumption, AttemptsAssumption, JoinAssumption
    DEF TypeOK, Control, RPoints, Unlocked, ResumeSteps, RestartSteps
<1>1. CASE Lock
    BY <1>1 DEF Lock, handleVars, sessVars, recVars, chanVars, closeVars,
       opVars
<1>2. CASE BeginAttempt
    BY <1>2 DEF BeginAttempt, handleVars, sessVars, recVars, chanVars,
       closeVars, opVars
<1>3. CASE GiveUp
    BY <1>3 DEF GiveUp, handleVars, sessVars, recVars, chanVars, closeVars,
       opVars
<1>4. CASE Announced
    BY <1>4 DEF Announced, Acked, handleVars, sessVars, recVars, chanVars,
       closeVars, opVars
<1>5. CASE TakeOld
    BY <1>5 DEF TakeOld, TakeTask, handleVars, sessVars, recVars, chanVars,
       closeVars, opVars
<1>6. CASE ConnectErr
    BY <1>6 DEF ConnectErr, handleVars, sessVars, recVars, chanVars,
       closeVars, opVars
<1>7. CASE SignalRestartedAcked
    BY <1>7 DEF SignalRestartedAcked, Acked, handleVars, sessVars, recVars,
       chanVars, closeVars, opVars
<1>8. CASE Install
    BY <1>8 DEF Install, handleVars, sessVars, recVars, chanVars, closeVars,
       opVars
<1>9. CASE WaitPcErr
    BY <1>9 DEF WaitPcErr, handleVars, sessVars, recVars, chanVars,
       closeVars, opVars
<1>10. CASE ResumeOk
    BY <1>10 DEF ResumeOk, handleVars, sessVars, recVars, chanVars,
       closeVars, opVars
<1>11. CASE SyncAcked
    BY <1>11 DEF SyncAcked, Acked, handleVars, sessVars, recVars, chanVars,
       closeVars, opVars
<1>12. CASE Resumed
    BY <1>12 DEF Resumed, handleVars, sessVars, recVars, chanVars, closeVars,
       opVars
<1>13. CASE ResumeErr
    BY <1>13 DEF ResumeErr, handleVars, sessVars, recVars, chanVars,
       closeVars, opVars
<1>14. CASE Tick
    BY <1>14 DEF Tick, handleVars, sessVars, recVars, chanVars, closeVars,
       opVars
<1>15. CASE Recovered
    BY <1>15 DEF Recovered, Acked, handleVars, sessVars, recVars, chanVars,
       closeVars, opVars
<1>16. CASE CloseFailed
    BY <1>16 DEF CloseFailed, BeginClose, TakeTask, handleVars, sessVars,
       recVars, chanVars, closeVars, opVars
<1>17. CASE CloseReturned
    BY <1>17 DEF CloseReturned, handleVars, sessVars, recVars, chanVars,
       closeVars, opVars
<1>18. CASE Finish
    BY <1>18 DEF Finish, handleVars, sessVars, recVars, chanVars, closeVars,
       opVars
<1>19. ASSUME NEW s \in Sessions, OldStopped(s) PROVE Control'
    BY <1>19 DEF OldStopped, handleVars, sessVars, recVars, chanVars,
       closeVars, opVars
<1>20. ASSUME NEW s \in Sessions, ConnectOk(s) PROVE Control'
    BY <1>20 DEF ConnectOk, handleVars, sessVars, recVars, chanVars,
       closeVars, opVars
<1>21. ASSUME NEW s \in Sessions, OnSessionEvent(s) PROVE Control'
    BY <1>21 DEF OnSessionEvent, OnClose, reconnection_needed, Actions,
       handleVars, sessVars, recVars, chanVars, closeVars, opVars, Listening
<1>22. ASSUME NEW s \in Sessions, EngineTaskEnds(s) PROVE Control'
    BY <1>22 DEF EngineTaskEnds, handleVars, sessVars, recVars, chanVars,
       closeVars, opVars
<1>23. ASSUME NEW s \in Sessions, SessionClosed(s) PROVE Control'
    BY <1>23 DEF SessionClosed, handleVars, sessVars, recVars, chanVars,
       closeVars, opVars
<1>24. ASSUME NEW s \in Sessions, CloseEnd(s) PROVE Control'
    BY <1>24 DEF CloseEnd, handleVars, sessVars, recVars, chanVars,
       closeVars, opVars
<1>25. CASE SpawnedClose
    BY <1>25 DEF SpawnedClose, BeginClose, TakeTask, handleVars, sessVars,
       recVars, chanVars, closeVars, opVars
<1>26. CASE JoinFail
    BY <1>26 DEF JoinFail, handleVars, sessVars, recVars, chanVars,
       closeVars, opVars
<1>27. ASSUME NEW s \in Sessions, Join(s) PROVE Control'
    BY <1>27 DEF Join, handleVars, sessVars, recVars, chanVars, closeVars,
       opVars
<1>28. ASSUME NEW r \in Reasons, AppClose(r) PROVE Control'
    BY <1>28 DEF AppClose, BeginClose, TakeTask, handleVars, sessVars,
       recVars, chanVars, closeVars, opVars
<1>29. ASSUME NEW o \in Ops, OpCall(o) PROVE Control'
    BY <1>29 DEF OpCall, handleVars, sessVars, recVars, chanVars, closeVars,
       opVars
<1>30. ASSUME NEW o \in Ops, OpStart(o) PROVE Control'
    BY <1>30 DEF OpStart, handleVars, sessVars, recVars, chanVars, closeVars,
       opVars
<1>31. ASSUME NEW o \in Ops, OpEnd(o) PROVE Control'
    BY <1>31 DEF OpEnd, handleVars, sessVars, recVars, chanVars, closeVars,
       opVars
<1>32. ASSUME NEW s \in Sessions, SignalLost(s) PROVE Control'
    BY <1>32 DEF SignalLost, Report, handleVars, sessVars, recVars, chanVars,
       closeVars, opVars
<1>33. ASSUME NEW s \in Sessions, TransportLost(s) PROVE Control'
    BY <1>33 DEF TransportLost, Report, handleVars, sessVars, recVars,
       chanVars, closeVars, opVars
<1>34. ASSUME NEW s \in Sessions, NEW a \in Actions, LeaveReceived(s, a) PROVE Control'
    BY <1>34 DEF LeaveReceived, Report, Actions, handleVars, sessVars,
       recVars, chanVars, closeVars, opVars
<1>39. ASSUME NEW s \in Sessions, NEW e \in Forwarded, Forward(s, e) PROVE Control'
    BY <1>39 DEF Forward, handleVars, sessVars, recVars, chanVars, closeVars,
       opVars
<1>35. CASE RoomRecv
    BY <1>35 DEF RoomRecv, RoomTakes, handleVars, sessVars, recVars,
       chanVars, closeVars, opVars
<1>36. CASE RoomAck
    BY <1>36 DEF RoomAck, handleVars, sessVars, recVars, chanVars, closeVars,
       opVars
<1>37. CASE RoomGone
    BY <1>37 DEF RoomGone, handleVars, sessVars, recVars, chanVars,
       closeVars, opVars
<1>38. CASE UNCHANGED vars
    BY <1>38 DEF vars, handleVars, sessVars, recVars, chanVars, closeVars, opVars
<1> QED
    BY <1>1, <1>2, <1>3, <1>4, <1>5, <1>6, <1>7, <1>8, <1>9, <1>10, <1>11,
       <1>12, <1>13, <1>14, <1>15, <1>16, <1>17, <1>18, <1>19, <1>20,
       <1>21, <1>22, <1>23, <1>24, <1>25, <1>26, <1>27, <1>28, <1>29,
       <1>30, <1>31, <1>32, <1>33, <1>34, <1>35, <1>36, <1>37, <1>38, <1>39
    DEF Next, ReconnectStep, ReconnectLocal, EngineStep, EngineTaskStep,
        CallerStep, SessionStep, UpdateStep, RoomStep

\* The handle owns at most one running session, and only the reconnect task
\* or one close() can have taken it.
LEMMA OwnershipStep ==
    TypeOK /\ Control /\ Ownership /\ [Next]_vars => Ownership'
<1> SUFFICES ASSUME TypeOK, Control, Ownership, [Next]_vars PROVE Ownership'
    OBVIOUS
<1> USE SessionsAssumption
    DEF TypeOK, Control, Ownership, RPoints, Unlocked, ResumeSteps, RestartSteps,
        KeepsSession, Listening
<1>1. CASE Lock
    BY <1>1 DEF Lock, handleVars, sessVars, recVars, chanVars, closeVars,
       opVars
<1>2. CASE BeginAttempt
    BY <1>2 DEF BeginAttempt, handleVars, sessVars, recVars, chanVars,
       closeVars, opVars
<1>3. CASE GiveUp
    BY <1>3 DEF GiveUp, handleVars, sessVars, recVars, chanVars, closeVars,
       opVars
<1>4. CASE Announced
    BY <1>4 DEF Announced, Acked, handleVars, sessVars, recVars, chanVars,
       closeVars, opVars
<1>5. CASE TakeOld
    BY <1>5 DEF TakeOld, TakeTask, handleVars, sessVars, recVars, chanVars,
       closeVars, opVars
<1>6. CASE ConnectErr
    BY <1>6 DEF ConnectErr, handleVars, sessVars, recVars, chanVars,
       closeVars, opVars
<1>7. CASE SignalRestartedAcked
    BY <1>7 DEF SignalRestartedAcked, Acked, handleVars, sessVars, recVars,
       chanVars, closeVars, opVars
<1>8. CASE Install
    BY <1>8 DEF Install, handleVars, sessVars, recVars, chanVars, closeVars,
       opVars
<1>9. CASE WaitPcErr
    BY <1>9 DEF WaitPcErr, handleVars, sessVars, recVars, chanVars,
       closeVars, opVars
<1>10. CASE ResumeOk
    BY <1>10 DEF ResumeOk, handleVars, sessVars, recVars, chanVars,
       closeVars, opVars
<1>11. CASE SyncAcked
    BY <1>11 DEF SyncAcked, Acked, handleVars, sessVars, recVars, chanVars,
       closeVars, opVars
<1>12. CASE Resumed
    BY <1>12 DEF Resumed, handleVars, sessVars, recVars, chanVars, closeVars,
       opVars
<1>13. CASE ResumeErr
    BY <1>13 DEF ResumeErr, handleVars, sessVars, recVars, chanVars,
       closeVars, opVars
<1>14. CASE Tick
    BY <1>14 DEF Tick, handleVars, sessVars, recVars, chanVars, closeVars,
       opVars
<1>15. CASE Recovered
    BY <1>15 DEF Recovered, Acked, handleVars, sessVars, recVars, chanVars,
       closeVars, opVars
<1>16. CASE CloseFailed
    BY <1>16 DEF CloseFailed, BeginClose, TakeTask, handleVars, sessVars,
       recVars, chanVars, closeVars, opVars, Reasons
<1>17. CASE CloseReturned
    BY <1>17 DEF CloseReturned, handleVars, sessVars, recVars, chanVars,
       closeVars, opVars
<1>18. CASE Finish
    BY <1>18 DEF Finish, handleVars, sessVars, recVars, chanVars, closeVars,
       opVars
<1>19. ASSUME NEW s \in Sessions, OldStopped(s) PROVE Ownership'
    BY <1>19 DEF OldStopped, handleVars, sessVars, recVars, chanVars,
       closeVars, opVars
<1>20. ASSUME NEW s \in Sessions, ConnectOk(s) PROVE Ownership'
    BY <1>20 DEF ConnectOk, handleVars, sessVars, recVars, chanVars,
       closeVars, opVars
<1>21. ASSUME NEW s \in Sessions, OnSessionEvent(s) PROVE Ownership'
    BY <1>21 DEF OnSessionEvent, OnClose, reconnection_needed, Actions,
       handleVars, sessVars, recVars, chanVars, closeVars, opVars
<1>22. ASSUME NEW s \in Sessions, EngineTaskEnds(s) PROVE Ownership'
    BY <1>22 DEF EngineTaskEnds, handleVars, sessVars, recVars, chanVars,
       closeVars, opVars
<1>23. ASSUME NEW s \in Sessions, SessionClosed(s) PROVE Ownership'
    BY <1>23 DEF SessionClosed, handleVars, sessVars, recVars, chanVars,
       closeVars, opVars
<1>24. ASSUME NEW s \in Sessions, CloseEnd(s) PROVE Ownership'
    BY <1>24 DEF CloseEnd, handleVars, sessVars, recVars, chanVars,
       closeVars, opVars
<1>25. CASE SpawnedClose
    BY <1>25 DEF SpawnedClose, BeginClose, TakeTask, handleVars, sessVars,
       recVars, chanVars, closeVars, opVars, Reasons
<1>26. CASE JoinFail
    BY <1>26 DEF JoinFail, handleVars, sessVars, recVars, chanVars,
       closeVars, opVars
<1>27. ASSUME NEW s \in Sessions, Join(s) PROVE Ownership'
    BY <1>27 DEF Join, handleVars, sessVars, recVars, chanVars, closeVars,
       opVars
<1>28. ASSUME NEW r \in Reasons, AppClose(r) PROVE Ownership'
    BY <1>28 DEF AppClose, BeginClose, TakeTask, handleVars, sessVars,
       recVars, chanVars, closeVars, opVars, Reasons
<1>29. ASSUME NEW o \in Ops, OpCall(o) PROVE Ownership'
    BY <1>29 DEF OpCall, handleVars, sessVars, recVars, chanVars, closeVars,
       opVars
<1>30. ASSUME NEW o \in Ops, OpStart(o) PROVE Ownership'
    BY <1>30 DEF OpStart, handleVars, sessVars, recVars, chanVars, closeVars,
       opVars
<1>31. ASSUME NEW o \in Ops, OpEnd(o) PROVE Ownership'
    BY <1>31 DEF OpEnd, handleVars, sessVars, recVars, chanVars, closeVars,
       opVars
<1>32. ASSUME NEW s \in Sessions, SignalLost(s) PROVE Ownership'
    BY <1>32 DEF SignalLost, Report, handleVars, sessVars, recVars, chanVars,
       closeVars, opVars
<1>33. ASSUME NEW s \in Sessions, TransportLost(s) PROVE Ownership'
    BY <1>33 DEF TransportLost, Report, handleVars, sessVars, recVars,
       chanVars, closeVars, opVars
<1>34. ASSUME NEW s \in Sessions, NEW a \in Actions, LeaveReceived(s, a) PROVE Ownership'
    BY <1>34 DEF LeaveReceived, Report, Actions, handleVars, sessVars,
       recVars, chanVars, closeVars, opVars
<1>39. ASSUME NEW s \in Sessions, NEW e \in Forwarded, Forward(s, e) PROVE Ownership'
    BY <1>39 DEF Forward, handleVars, sessVars, recVars, chanVars, closeVars,
       opVars
<1>35. CASE RoomRecv
    BY <1>35 DEF RoomRecv, RoomTakes, handleVars, sessVars, recVars,
       chanVars, closeVars, opVars
<1>36. CASE RoomAck
    BY <1>36 DEF RoomAck, handleVars, sessVars, recVars, chanVars, closeVars,
       opVars
<1>37. CASE RoomGone
    BY <1>37 DEF RoomGone, handleVars, sessVars, recVars, chanVars,
       closeVars, opVars
<1>38. CASE UNCHANGED vars
    BY <1>38 DEF vars, handleVars, sessVars, recVars, chanVars, closeVars, opVars
<1> QED
    BY <1>1, <1>2, <1>3, <1>4, <1>5, <1>6, <1>7, <1>8, <1>9, <1>10, <1>11,
       <1>12, <1>13, <1>14, <1>15, <1>16, <1>17, <1>18, <1>19, <1>20,
       <1>21, <1>22, <1>23, <1>24, <1>25, <1>26, <1>27, <1>28, <1>29,
       <1>30, <1>31, <1>32, <1>33, <1>34, <1>35, <1>36, <1>37, <1>38, <1>39
    DEF Next, ReconnectStep, ReconnectLocal, EngineStep, EngineTaskStep,
        CallerStep, SessionStep, UpdateStep, RoomStep

\* Guards and the write lock exclude each other.
LEMMA GuardsStep ==
    TypeOK /\ Control /\ Guards /\ [Next]_vars => Guards'
<1> SUFFICES ASSUME TypeOK, Control, Guards, [Next]_vars PROVE Guards'
    OBVIOUS
<1> USE SessionsAssumption
    DEF TypeOK, Control, Guards, RPoints, Unlocked, ResumeSteps, RestartSteps,
        Holding
<1>1. CASE Lock
    BY <1>1 DEF Lock, handleVars, sessVars, recVars, chanVars, closeVars,
       opVars
<1>2. CASE BeginAttempt
    BY <1>2 DEF BeginAttempt, handleVars, sessVars, recVars, chanVars,
       closeVars, opVars
<1>3. CASE GiveUp
    BY <1>3 DEF GiveUp, handleVars, sessVars, recVars, chanVars, closeVars,
       opVars
<1>4. CASE Announced
    BY <1>4 DEF Announced, Acked, handleVars, sessVars, recVars, chanVars,
       closeVars, opVars
<1>5. CASE TakeOld
    BY <1>5 DEF TakeOld, TakeTask, handleVars, sessVars, recVars, chanVars,
       closeVars, opVars
<1>6. CASE ConnectErr
    BY <1>6 DEF ConnectErr, handleVars, sessVars, recVars, chanVars,
       closeVars, opVars
<1>7. CASE SignalRestartedAcked
    BY <1>7 DEF SignalRestartedAcked, Acked, handleVars, sessVars, recVars,
       chanVars, closeVars, opVars
<1>8. CASE Install
    BY <1>8 DEF Install, handleVars, sessVars, recVars, chanVars, closeVars,
       opVars
<1>9. CASE WaitPcErr
    BY <1>9 DEF WaitPcErr, handleVars, sessVars, recVars, chanVars,
       closeVars, opVars
<1>10. CASE ResumeOk
    BY <1>10 DEF ResumeOk, handleVars, sessVars, recVars, chanVars,
       closeVars, opVars
<1>11. CASE SyncAcked
    BY <1>11 DEF SyncAcked, Acked, handleVars, sessVars, recVars, chanVars,
       closeVars, opVars
<1>12. CASE Resumed
    BY <1>12 DEF Resumed, handleVars, sessVars, recVars, chanVars, closeVars,
       opVars
<1>13. CASE ResumeErr
    BY <1>13 DEF ResumeErr, handleVars, sessVars, recVars, chanVars,
       closeVars, opVars
<1>14. CASE Tick
    BY <1>14 DEF Tick, handleVars, sessVars, recVars, chanVars, closeVars,
       opVars
<1>15. CASE Recovered
    BY <1>15 DEF Recovered, Acked, handleVars, sessVars, recVars, chanVars,
       closeVars, opVars
<1>16. CASE CloseFailed
    BY <1>16 DEF CloseFailed, BeginClose, TakeTask, handleVars, sessVars,
       recVars, chanVars, closeVars, opVars
<1>17. CASE CloseReturned
    BY <1>17 DEF CloseReturned, handleVars, sessVars, recVars, chanVars,
       closeVars, opVars
<1>18. CASE Finish
    BY <1>18 DEF Finish, handleVars, sessVars, recVars, chanVars, closeVars,
       opVars
<1>19. ASSUME NEW s \in Sessions, OldStopped(s) PROVE Guards'
    BY <1>19 DEF OldStopped, handleVars, sessVars, recVars, chanVars,
       closeVars, opVars
<1>20. ASSUME NEW s \in Sessions, ConnectOk(s) PROVE Guards'
    BY <1>20 DEF ConnectOk, handleVars, sessVars, recVars, chanVars,
       closeVars, opVars
<1>21. ASSUME NEW s \in Sessions, OnSessionEvent(s) PROVE Guards'
    BY <1>21 DEF OnSessionEvent, OnClose, reconnection_needed, Actions,
       handleVars, sessVars, recVars, chanVars, closeVars, opVars
<1>22. ASSUME NEW s \in Sessions, EngineTaskEnds(s) PROVE Guards'
    BY <1>22 DEF EngineTaskEnds, handleVars, sessVars, recVars, chanVars,
       closeVars, opVars
<1>23. ASSUME NEW s \in Sessions, SessionClosed(s) PROVE Guards'
    BY <1>23 DEF SessionClosed, handleVars, sessVars, recVars, chanVars,
       closeVars, opVars
<1>24. ASSUME NEW s \in Sessions, CloseEnd(s) PROVE Guards'
    BY <1>24 DEF CloseEnd, handleVars, sessVars, recVars, chanVars,
       closeVars, opVars
<1>25. CASE SpawnedClose
    BY <1>25 DEF SpawnedClose, BeginClose, TakeTask, handleVars, sessVars,
       recVars, chanVars, closeVars, opVars
<1>26. CASE JoinFail
    BY <1>26 DEF JoinFail, handleVars, sessVars, recVars, chanVars,
       closeVars, opVars
<1>27. ASSUME NEW s \in Sessions, Join(s) PROVE Guards'
    BY <1>27 DEF Join, handleVars, sessVars, recVars, chanVars, closeVars,
       opVars
<1>28. ASSUME NEW r \in Reasons, AppClose(r) PROVE Guards'
    BY <1>28 DEF AppClose, BeginClose, TakeTask, handleVars, sessVars,
       recVars, chanVars, closeVars, opVars
<1>29. ASSUME NEW o \in Ops, OpCall(o) PROVE Guards'
    BY <1>29 DEF OpCall, handleVars, sessVars, recVars, chanVars, closeVars,
       opVars
<1>30. ASSUME NEW o \in Ops, OpStart(o) PROVE Guards'
    BY <1>30 DEF OpStart, handleVars, sessVars, recVars, chanVars, closeVars,
       opVars
<1>31. ASSUME NEW o \in Ops, OpEnd(o) PROVE Guards'
    BY <1>31 DEF OpEnd, handleVars, sessVars, recVars, chanVars, closeVars,
       opVars
<1>32. ASSUME NEW s \in Sessions, SignalLost(s) PROVE Guards'
    BY <1>32 DEF SignalLost, Report, handleVars, sessVars, recVars, chanVars,
       closeVars, opVars
<1>33. ASSUME NEW s \in Sessions, TransportLost(s) PROVE Guards'
    BY <1>33 DEF TransportLost, Report, handleVars, sessVars, recVars,
       chanVars, closeVars, opVars
<1>34. ASSUME NEW s \in Sessions, NEW a \in Actions, LeaveReceived(s, a) PROVE Guards'
    BY <1>34 DEF LeaveReceived, Report, Actions, handleVars, sessVars,
       recVars, chanVars, closeVars, opVars
<1>39. ASSUME NEW s \in Sessions, NEW e \in Forwarded, Forward(s, e) PROVE Guards'
    BY <1>39 DEF Forward, handleVars, sessVars, recVars, chanVars, closeVars,
       opVars
<1>35. CASE RoomRecv
    BY <1>35 DEF RoomRecv, RoomTakes, handleVars, sessVars, recVars,
       chanVars, closeVars, opVars
<1>36. CASE RoomAck
    BY <1>36 DEF RoomAck, handleVars, sessVars, recVars, chanVars, closeVars,
       opVars
<1>37. CASE RoomGone
    BY <1>37 DEF RoomGone, handleVars, sessVars, recVars, chanVars,
       closeVars, opVars
<1>38. CASE UNCHANGED vars
    BY <1>38 DEF vars, handleVars, sessVars, recVars, chanVars, closeVars, opVars
<1> QED
    BY <1>1, <1>2, <1>3, <1>4, <1>5, <1>6, <1>7, <1>8, <1>9, <1>10, <1>11,
       <1>12, <1>13, <1>14, <1>15, <1>16, <1>17, <1>18, <1>19, <1>20,
       <1>21, <1>22, <1>23, <1>24, <1>25, <1>26, <1>27, <1>28, <1>29,
       <1>30, <1>31, <1>32, <1>33, <1>34, <1>35, <1>36, <1>37, <1>38, <1>39
    DEF Next, ReconnectStep, ReconnectLocal, EngineStep, EngineTaskStep,
        CallerStep, SessionStep, UpdateStep, RoomStep

-----------------------------------------------------------------------------
(* The theorems *)

\* The engine that is about to join satisfies the invariant.
LEMMA InitInv == Init => IInv
<1> SUFFICES ASSUME Init PROVE IInv
    OBVIOUS
<1> USE SessionsAssumption, AttemptsAssumption, JoinAssumption,
        BoundsAssumption DEF Init
<1>1. TypeOK
    <2>1. <<>> \in Seq(EngineEvents) /\ <<>> \in Seq(SessionEvents)
        OBVIOUS
    <2>2. events \in [Sessions -> Seq(SessionEvents)]
        BY <2>1
    <2>3. attempt \in 0..(IF rpc \in {"joining", "join_failed"}
                         THEN JoinRetries + 1 ELSE RECONNECT_ATTEMPTS)
        OBVIOUS
    <2>4. engine_rx \in Seq(EngineEvents)
        BY <2>1
    <2>5. reports \in 0..MaxReports /\ closes \in 0..MaxCloses
        OBVIOUS
    <2>6. /\ sess \in [Sessions -> {"unused", "open", "closing", "closed",
                                  "dropped"}]
          /\ task \in [Sessions -> {"none", "running", "stopping", "ended"}]
          /\ stopper \in [Sessions -> Reasons \cup {"nobody", "restart", "done"}]
        OBVIOUS
    <2>7. /\ op \in [Ops -> {"idle", "waiting", "granted", "using"}]
          /\ opsess \in [Ops -> Sessions \cup {NoSession}]
        OBVIOUS
    <2>8. rpc \in RPoints
        BY DEF RPoints, Unlocked
    <2> HIDE DEF Init
    <2>9. /\ session = NoSession /\ engine_task = NoSession /\ rnew = NoSession
          /\ closed = FALSE /\ reconnecting = FALSE /\ can_reconnect = TRUE
          /\ full_reconnect = FALSE /\ rfull = FALSE /\ receiver = TRUE
          /\ sig = {} /\ pc = {} /\ ack = "none" /\ close_spawned = 0
        BY DEF Init
    <2> QED
        BY <2>2, <2>3, <2>4, <2>5, <2>6, <2>7, <2>8, <2>9 DEF TypeOK
<1>2. Control
    BY DEF Control, Unlocked, ResumeSteps, RestartSteps
<1>3. Ownership
    BY DEF Ownership, Listening, KeepsSession, ResumeSteps
<1>4. Guards
    BY DEF Guards, Holding
<1> QED
    BY <1>1, <1>2, <1>3, <1>4 DEF IInv

\* The conjunction of the types and the three strengthenings is inductive.
THEOREM Invariance == Safe => []IInv
<1>1. IInv /\ [Next]_vars => IInv'
    BY TypeStep, ControlStep, OwnershipStep, GuardsStep DEF IInv
<1> QED
    BY InitInv, <1>1, PTL DEF Safe

\* Every variable keeps its type and no loop of the code runs past its last
\* attempt.
THEOREM TypeCorrect == Safe => []TypeOK
<1>1. IInv => TypeOK
    BY DEF IInv
<1> QED
    BY Invariance, <1>1, PTL

\* At most one engine_task listens while the engine is not closed.
THEOREM OneEngineTaskHolds == Safe => []OneEngineTask
<1>1. IInv => OneEngineTask
    BY DEF IInv, Ownership, OneEngineTask
<1> QED
    BY Invariance, <1>1, PTL

\* An operation that passed wait_reconnection keeps its session.
THEOREM OpsKeepTheirSession == Safe => []OpsOnCurrentSession
<1>1. IInv => OpsOnCurrentSession
    <2> SUFFICES ASSUME IInv, NEW o \in Ops, op[o] = "using"
                 PROVE  opsess[o] = session /\ (closed \/ sess[session] = "open")
        BY DEF OpsOnCurrentSession
    <2>1. rpc \in {"idle", "lock"} /\ opsess[o] = session
        BY DEF IInv, Guards, Holding
    <2>2. ~closed => engine_task = session /\ session \in Sessions
        BY <2>1 DEF IInv, Ownership, KeepsSession
    <2> QED
        BY <2>1, <2>2, SessionsAssumption DEF IInv, Ownership
<1> QED
    BY Invariance, <1>1, PTL

\* Outside the locked section an engine that is not closed has a listener.
THEOREM UnlockedListens == Safe => []UnlockedHasListener
<1>1. IInv => UnlockedHasListener
    BY SessionsAssumption
       DEF IInv, Ownership, UnlockedHasListener, KeepsSession
<1> QED
    BY Invariance, <1>1, PTL

\* The reconnect task only resumes a session that was not torn down.
THEOREM ResumesLiveSession == Safe => []ResumeOnlyLiveSession
<1>1. IInv => ResumeOnlyLiveSession
    BY SessionsAssumption
       DEF IInv, Ownership, ResumeOnlyLiveSession, KeepsSession
<1> QED
    BY Invariance, <1>1, PTL

\* Within a cycle full_reconnect is only escalated: of all steps, those that
\* write it either set it or start a new cycle.
THEOREM EscalationOnly == Safe => NeverDowngrade
<1>1. TypeOK /\ [Next]_vars =>
          [(reconnecting /\ reconnecting' /\ full_reconnect)
              => full_reconnect']_vars
    <2> SUFFICES ASSUME TypeOK, Next, reconnecting, full_reconnect
                 PROVE  full_reconnect'
        BY DEF vars, handleVars
    <2>1. ASSUME NEW s \in Sessions, OnSessionEvent(s) PROVE full_reconnect'
        BY <2>1 DEF OnSessionEvent, OnClose, reconnection_needed
    <2>2. CASE ResumeErr
        BY <2>2 DEF ResumeErr
    <2>3. CASE UNCHANGED full_reconnect
        BY <2>3
    <2>4. (\E s \in Sessions : OnSessionEvent(s)) \/ ResumeErr
          \/ UNCHANGED full_reconnect
        <3>1. ReconnectStep => ResumeErr \/ UNCHANGED full_reconnect
            BY DEF ReconnectStep, ReconnectLocal, Lock, BeginAttempt, GiveUp, Announced,
                   TakeOld, ConnectErr, SignalRestartedAcked, Install,
                   WaitPcErr, ResumeOk, SyncAcked, Resumed, Tick, Recovered,
                   CloseFailed, BeginClose, CloseReturned, Finish, OldStopped,
                   ConnectOk, handleVars
        <3>2. EngineStep => (\E s \in Sessions : OnSessionEvent(s))
                            \/ UNCHANGED full_reconnect
            BY DEF EngineStep, EngineTaskStep, EngineTaskEnds, SessionClosed,
                   CloseEnd, SpawnedClose, BeginClose, handleVars
        <3>3. CallerStep \/ SessionStep \/ UpdateStep \/ RoomStep =>
                  UNCHANGED full_reconnect
            BY DEF CallerStep, JoinFail, Join, AppClose, BeginClose, OpCall,
                   OpStart, OpEnd, SessionStep, SignalLost, TransportLost,
                   LeaveReceived, Report, UpdateStep, Forward, RoomStep,
                   RoomRecv, RoomTakes, RoomAck, RoomGone, handleVars
        <3> QED
            BY <3>1, <3>2, <3>3 DEF Next
    <2> QED
        BY <2>1, <2>2, <2>3, <2>4
<1> QED
    BY TypeCorrect, <1>1, PTL DEF Safe, NeverDowngrade

-----------------------------------------------------------------------------
(* The room implements the engine's environment *)

\* A handler takes the head of the channel, answering now or later.
LEMMA HandlerStep == RoomHandler => RoomStep
BY DEF RoomHandler, handle_resuming, handle_signal_resumed, handle_resumed,
       handle_restarting, handle_signal_restarted, handle_restarted,
       handle_participant_update, handle_disconnected, RoomStep, RoomRecv

\* What the room's tasks do is a step of the room in the engine's specification,
\* or none: the room's own state is not part of it.
LEMMA RoomTaskStepMaps == RoomTaskStep => Next \/ UNCHANGED vars
<1>1. RoomHandler => Next
    BY HandlerStep DEF Next
<1>2. send_sync_state => Next
    BY DEF send_sync_state, Next, RoomStep
<1>3. Republished \/ SpawnedRoomClose \/ RoomCloseSent \/ RoomTasksJoined
      \/ RoomClosed => UNCHANGED vars
    BY DEF Republished, SpawnedRoomClose, RoomCloseSent, RoomTasksJoined,
           RoomClosed
<1>4. RoomCloseEngine => Next
    BY DEF RoomCloseEngine, Next, CallerStep
<1>5. RoomTaskEnds => Next
    BY DEF RoomTaskEnds, Next, RoomStep
<1> QED
    BY <1>1, <1>2, <1>3, <1>4, <1>5 DEF RoomTaskStep, RoomCloseStep

\* The engine's own steps are steps of its specification as they are.
LEMMA EngineOnlyMaps == EngineOnly => Next
BY DEF EngineOnly, Next, ReconnectStep, CallerStep

\* What the server says of a participant is an event that engine_task hands on.
LEMMA TellsForwards ==
    ASSUME NEW s \in Sessions, NEW p \in People, NEW here \in BOOLEAN,
           ServerTells(s, p, here)
    PROVE  Next
<1>1. [type |-> "ParticipantUpdate", who |-> p, here |-> here] \in Forwarded
    BY DEF Forwarded
<1> QED
    BY <1>1 DEF ServerTells, Next, UpdateStep

\* The composition of room and engine implements the engine's specification.
THEOREM RoomImplementsEngine == RoomSafe => ImplementsEngine
<1>1. RoomInit => Init
    BY DEF RoomInit
<1>2. [RoomNext]_allVars => [Next]_vars
    <2> SUFFICES ASSUME [RoomNext]_allVars PROVE [Next]_vars
        OBVIOUS
    <2>1. CASE RoomTaskStep
        BY <2>1, RoomTaskStepMaps
    <2>2. CASE EngineOnly
        BY <2>2, EngineOnlyMaps
    <2>3. ASSUME NEW s \in Sessions, RoomConnect(s) \/ RoomConnectOk(s)
          PROVE  Next
        BY <2>3 DEF RoomConnect, RoomConnectOk, Next, ReconnectStep, CallerStep
    <2>4. ASSUME NEW r \in Reasons, RoomClose(r) PROVE UNCHANGED vars
        BY <2>4 DEF RoomClose
    <2>5. ASSUME NEW s \in Sessions, NEW p \in People, NEW here \in BOOLEAN,
                 ServerTells(s, p, here)
          PROVE  Next
        BY <2>5, TellsForwards
    <2>6. CASE UNCHANGED allVars
        BY <2>6 DEF allVars
    <2> QED
        BY <2>1, <2>2, <2>3, <2>4, <2>5, <2>6 DEF RoomNext
<1> QED
    BY <1>1, <1>2, PTL DEF RoomSafe, ImplementsEngine, Safe

-----------------------------------------------------------------------------
(* The answer that the engine waits for *)

\* Where the reconnect task waits for an answer to the event it has sent.
AckPoints == {"announced_restart", "announced_resume", "signal_restarted",
              "recovered", "sync"}

\* The event whose answer it waits for at point p.
Awaits(p, type) ==
    \/ p = "announced_resume" /\ type = "Resuming"
    \/ p = "announced_restart" /\ type = "Restarting"
    \/ p = "sync" /\ type = "SignalResumed"
    \/ p = "signal_restarted" /\ type = "SignalRestarted"
    \/ p = "recovered" /\ type \in {"Resumed", "Restarted"}

IsAckAt(q, i) == i \in DOMAIN q /\ q[i].type \in AckEvents

\* What is on its way between the reconnect task and the room: outside its
\* AckPoints nothing, at one of them one event, or the send_sync_state that the
\* room spawned for it, or an answer.
AckInv ==
    /\ ~receiver => engine_rx = <<>>
    /\ rpc \notin AckPoints => ack = "none" /\ ~AckQueued /\ ~syncing
    /\ AckQueued => ack = "pending" /\ ~syncing
    /\ \A i, j \in DOMAIN engine_rx :
           IsAckAt(engine_rx, i) /\ IsAckAt(engine_rx, j) => i = j
    /\ \A i \in DOMAIN engine_rx :
           IsAckAt(engine_rx, i) => Awaits(rpc, engine_rx[i].type)
    /\ syncing => rpc = "sync" /\ ack = "pending"
    /\ (rpc = "sync" /\ receiver) =>
           AckQueued \/ syncing \/ (ack = "done" /\ synced # "none")
    /\ SyncBeforeOffer

\* Sending an event at a point with nothing on its way.
LEMMA Sent ==
    ASSUME TypeOK, ~AckQueued, NEW type \in AckEvents, SendAndWait(type)
    PROVE  /\ receiver' = receiver
           /\ ~receiver => engine_rx' = engine_rx /\ ack' = "done"
           /\ receiver => ack' = "pending" /\ AckQueued'
           /\ \A i, j \in DOMAIN engine_rx' :
                 IsAckAt(engine_rx', i) /\ IsAckAt(engine_rx', j) => i = j
           /\ \A i \in DOMAIN engine_rx' :
                 IsAckAt(engine_rx', i) => engine_rx'[i].type = type
<1> DEFINE e == [type |-> type, reason |-> "Other"]
<1>1. engine_rx \in Seq(EngineEvents)
    BY DEF TypeOK
<1>2. CASE ~receiver
    BY <1>2 DEF SendAndWait, AckQueued, IsAckAt
<1>3. CASE receiver
  <2>1. engine_rx' = Append(engine_rx, e) /\ ack' = "pending"
    BY <1>3 DEF SendAndWait
  <2>2. /\ DOMAIN engine_rx = 1..Len(engine_rx)
        /\ DOMAIN engine_rx' = 1..(Len(engine_rx) + 1)
        /\ Len(engine_rx) \in Nat
        /\ engine_rx'[Len(engine_rx) + 1] = e
        /\ \A i \in 1..Len(engine_rx) : engine_rx'[i] = engine_rx[i]
    BY <1>1, <2>1
  <2>3. e.type = type
    OBVIOUS
  <2>4. \A i \in DOMAIN engine_rx' :
            IsAckAt(engine_rx', i) => i = Len(engine_rx) + 1
    BY <2>2 DEF AckQueued, IsAckAt
  <2>5. AckQueued'
    BY <2>2, <2>3 DEF AckQueued
  <2> QED
    BY <1>3, <2>1, <2>2, <2>3, <2>4, <2>5 DEF SendAndWait
<1> QED
    BY <1>2, <1>3

\* Taking the head of the channel: only its event can stop being queued.
LEMMA Taken ==
    ASSUME TypeOK, AckInv, engine_rx # <<>>, engine_rx' = Tail(engine_rx)
    PROVE  /\ Head(engine_rx).type \in AckEvents => AckQueued /\ ~AckQueued'
           /\ Head(engine_rx).type \in AckEvents =>
                 Awaits(rpc, Head(engine_rx).type)
           /\ Head(engine_rx).type \notin AckEvents => (AckQueued <=> AckQueued')
           /\ \A i, j \in DOMAIN engine_rx' :
                 IsAckAt(engine_rx', i) /\ IsAckAt(engine_rx', j) => i = j
           /\ \A i \in DOMAIN engine_rx' :
                 IsAckAt(engine_rx', i) => Awaits(rpc, engine_rx'[i].type)
<1>1. engine_rx \in Seq(EngineEvents)
    BY DEF TypeOK
<1>2. /\ DOMAIN engine_rx = 1..Len(engine_rx)
      /\ DOMAIN engine_rx' = 1..(Len(engine_rx) - 1)
      /\ Len(engine_rx) \in Nat \ {0}
      /\ Head(engine_rx) = engine_rx[1]
      /\ \A i \in 1..(Len(engine_rx) - 1) : engine_rx'[i] = engine_rx[i + 1]
    BY <1>1
<1>3. \A i \in DOMAIN engine_rx' :
          /\ i + 1 \in DOMAIN engine_rx /\ i + 1 # 1
          /\ IsAckAt(engine_rx', i) <=> IsAckAt(engine_rx, i + 1)
    BY <1>2 DEF IsAckAt
<1>4. \A i, j \in DOMAIN engine_rx :
          IsAckAt(engine_rx, i) /\ IsAckAt(engine_rx, j) => i = j
    BY DEF AckInv
<1>5. \A i, j \in DOMAIN engine_rx' :
          IsAckAt(engine_rx', i) /\ IsAckAt(engine_rx', j) => i = j
  <2> SUFFICES ASSUME NEW i \in DOMAIN engine_rx', NEW j \in DOMAIN engine_rx',
                      IsAckAt(engine_rx', i), IsAckAt(engine_rx', j)
               PROVE  i = j
    OBVIOUS
  <2>1. i + 1 = j + 1
    BY <1>3, <1>4
  <2> QED
    BY <1>2, <2>1
<1>6. ASSUME Head(engine_rx).type \in AckEvents PROVE AckQueued /\ ~AckQueued'
  <2>1. IsAckAt(engine_rx, 1) /\ AckQueued
    BY <1>2, <1>6 DEF IsAckAt, AckQueued
  <2>2. \A i \in DOMAIN engine_rx' : ~IsAckAt(engine_rx', i)
    BY <1>2, <1>3, <1>4, <2>1
  <2> QED
    BY <2>1, <2>2 DEF AckQueued, IsAckAt
<1>7. ASSUME Head(engine_rx).type \notin AckEvents PROVE AckQueued <=> AckQueued'
  <2>1. ASSUME AckQueued PROVE AckQueued'
    <3>1. PICK i \in DOMAIN engine_rx : engine_rx[i].type \in AckEvents
      BY <2>1 DEF AckQueued
    <3>2. i # 1
      BY <1>2, <1>7, <3>1
    <3>3. i - 1 \in DOMAIN engine_rx' /\ engine_rx'[i - 1] = engine_rx[i]
      BY <1>2, <3>2
    <3> QED
      BY <3>1, <3>3 DEF AckQueued
  <2>2. ASSUME AckQueued' PROVE AckQueued
    BY <1>2, <2>2 DEF AckQueued
  <2> QED
    BY <2>1, <2>2
<1>8. \A i \in DOMAIN engine_rx' :
          IsAckAt(engine_rx', i) => Awaits(rpc, engine_rx'[i].type)
    BY <1>2, <1>3 DEF AckInv
<1>9. Head(engine_rx).type \in AckEvents =>
          Awaits(rpc, Head(engine_rx).type)
    BY <1>2 DEF AckInv, IsAckAt
<1> QED
    BY <1>5, <1>6, <1>7, <1>8, <1>9

\* An event that nobody waits for is queued.
LEMMA HandedOn ==
    ASSUME TypeOK, AckInv, NEW e, e.type \notin AckEvents, HandOn(e),
           UNCHANGED <<rpc, syncing, synced>>
    PROVE  AckInv'
<1>1. engine_rx \in Seq(EngineEvents)
    BY DEF TypeOK
<1>2. UNCHANGED <<receiver, ack>>
    BY DEF HandOn
<1>3. CASE ~receiver
  <2>1. engine_rx' = engine_rx
    BY <1>3 DEF HandOn
  <2> QED
    BY <1>2, <2>1 DEF AckInv, AckQueued, IsAckAt, SyncBeforeOffer
<1>4. CASE receiver
  <2>1. engine_rx' = Append(engine_rx, e)
    BY <1>4 DEF HandOn
  <2>2. /\ DOMAIN engine_rx = 1..Len(engine_rx)
        /\ DOMAIN engine_rx' = 1..(Len(engine_rx) + 1)
        /\ Len(engine_rx) \in Nat
        /\ engine_rx'[Len(engine_rx) + 1] = e
        /\ \A i \in 1..Len(engine_rx) : engine_rx'[i] = engine_rx[i]
    BY <1>1, <2>1
  <2>3. \A i : IsAckAt(engine_rx', i) =>
            IsAckAt(engine_rx, i) /\ engine_rx'[i] = engine_rx[i]
    BY <1>1, <2>2 DEF IsAckAt
  <2>4. AckQueued <=> AckQueued'
    BY <1>1, <2>2, <2>3 DEF AckQueued, IsAckAt
  <2>5. \A i, j \in DOMAIN engine_rx' :
            IsAckAt(engine_rx', i) /\ IsAckAt(engine_rx', j) => i = j
    BY <2>3 DEF AckInv, IsAckAt
  <2>6. \A i \in DOMAIN engine_rx' :
            IsAckAt(engine_rx', i) => Awaits(rpc', engine_rx'[i].type)
    BY <2>3 DEF AckInv, IsAckAt
  <2> QED
    BY <1>2, <1>4, <2>4, <2>5, <2>6 DEF AckInv, SyncBeforeOffer
<1> QED
    BY <1>3, <1>4

\* A step that moves the reconnect task between points with nothing on its way,
\* or nowhere.
LEMMA NothingMoves ==
    ASSUME AckInv, UNCHANGED <<chanVars, syncing, synced>>,
           \/ rpc' = rpc
           \/ rpc \notin AckPoints /\ rpc' \notin AckPoints \cup {"wait_resume"}
    PROVE  AckInv'
BY DEF AckInv, AckQueued, IsAckAt, SyncBeforeOffer, chanVars, AckPoints

\* The reconnect task sends an event and goes to wait for its answer.
LEMMA SendsAndWaits ==
    ASSUME TypeOK, AckInv, UNCHANGED <<syncing, synced>>,
           rpc \notin AckPoints, rpc' \in AckPoints,
           NEW type \in AckEvents, SendAndWait(type),
           Awaits(rpc', type)
    PROVE  AckInv'
<1>1. ~AckQueued /\ ~syncing
    BY DEF AckInv
<1>2. /\ receiver' = receiver
      /\ ~receiver => engine_rx' = engine_rx /\ ack' = "done"
      /\ receiver => ack' = "pending" /\ AckQueued'
      /\ \A i, j \in DOMAIN engine_rx' :
            IsAckAt(engine_rx', i) /\ IsAckAt(engine_rx', j) => i = j
      /\ \A i \in DOMAIN engine_rx' :
            IsAckAt(engine_rx', i) => engine_rx'[i].type = type
    BY <1>1, Sent
<1>3. ~receiver => ~AckQueued'
    BY <1>1, <1>2 DEF AckQueued
<1>4. rpc' # "wait_resume"
    BY DEF AckPoints
<1> QED
    BY <1>1, <1>2, <1>3, <1>4 DEF AckInv, SyncBeforeOffer

\* The answer has come: nothing is left on its way.
LEMMA AnswerTaken ==
    ASSUME AckInv, Acked, UNCHANGED <<syncing, synced>>, rpc \in AckPoints,
           rpc' \notin AckPoints, rpc' = "wait_resume" => rpc = "sync"
    PROVE  AckInv'
<1>1. ~AckQueued /\ ~syncing /\ ack' = "none"
    BY DEF AckInv, Acked
<1>2. UNCHANGED <<engine_rx, receiver>>
    BY DEF Acked
<1>3. ~AckQueued' /\ ~syncing'
    BY <1>1, <1>2 DEF AckQueued
<1>4. \A i : ~IsAckAt(engine_rx', i)
    BY <1>3 DEF AckQueued, IsAckAt
<1>5. SyncBeforeOffer'
    BY <1>1, <1>2 DEF AckInv, Acked, SyncBeforeOffer
<1> QED
    BY <1>1, <1>2, <1>3, <1>4, <1>5 DEF AckInv, AckPoints

-----------------------------------------------------------------------------
LEMMA AckInit == RoomInit => AckInv
BY DEF RoomInit, Init, AckInv, AckQueued, IsAckAt, SyncBeforeOffer, AckPoints

\* The engine's own steps.
LEMMA AckEngine == TypeOK /\ Control /\ AckInv /\ EngineOnly => AckInv'
<1> SUFFICES ASSUME TypeOK, Control, AckInv, EngineOnly PROVE AckInv'
    OBVIOUS
<1>0. UNCHANGED <<syncing, synced>>
    BY DEF EngineOnly, roomVars, stateVars
<1>1. CASE Lock \/ GiveUp \/ TakeOld \/ ConnectErr \/ WaitPcErr \/ ResumeErr
           \/ Tick \/ CloseFailed \/ CloseReturned \/ Finish \/ JoinFail
  <2>1. UNCHANGED chanVars
    BY <1>1 DEF Lock, GiveUp, TakeOld, ConnectErr, WaitPcErr, ResumeErr, Tick,
       CloseFailed, BeginClose, CloseReturned, Finish, JoinFail
  <2>2. rpc \notin AckPoints /\ rpc' \notin AckPoints \cup {"wait_resume"}
    BY <1>1 DEF Lock, GiveUp, TakeOld, ConnectErr, WaitPcErr, ResumeErr, Tick,
       CloseFailed, CloseReturned, Finish, JoinFail, AckPoints
  <2> QED
    BY <1>0, <2>1, <2>2, NothingMoves
<1>2. CASE BeginAttempt
  <2>1. CASE attempt = 0
    <3>1. PICK type \in {"Restarting", "Resuming"} :
              SendAndWait(type) /\ Awaits(rpc', type)
      BY <1>2, <2>1 DEF BeginAttempt, Awaits
    <3>2. rpc = "loop" /\ rpc' \in AckPoints
      BY <1>2, <2>1 DEF BeginAttempt, AckPoints
    <3> QED
      BY <1>0, <3>1, <3>2, SendsAndWaits DEF AckPoints, AckEvents, Awaits
  <2>2. CASE attempt # 0
    <3>1. rpc = "loop" /\ rpc' \in {"take", "resume"} /\ UNCHANGED chanVars
      BY <1>2, <2>2 DEF BeginAttempt
    <3> QED
      BY <1>0, <3>1, NothingMoves DEF AckPoints
  <2> QED
    BY <2>1, <2>2
<1>3. CASE Announced
    BY <1>0, <1>3, AnswerTaken DEF Announced, AckPoints
<1>4. CASE SignalRestartedAcked
    BY <1>0, <1>4, AnswerTaken DEF SignalRestartedAcked, AckPoints
<1>5. CASE SyncAcked
    BY <1>0, <1>5, AnswerTaken DEF SyncAcked, AckPoints
<1>6. CASE Recovered
    BY <1>0, <1>6, AnswerTaken DEF Recovered, AckPoints
<1>7. CASE Install
    BY <1>0, <1>7, SendsAndWaits DEF Install, AckPoints, AckEvents, Awaits
<1>8. CASE Resumed
    BY <1>0, <1>8, SendsAndWaits DEF Resumed, AckPoints, AckEvents, Awaits
<1>9. ASSUME NEW s \in Sessions, OldStopped(s) PROVE AckInv'
    BY <1>0, <1>9, NothingMoves DEF OldStopped, AckPoints
<1>10. ASSUME NEW s \in Sessions, OnSessionEvent(s) PROVE AckInv'
  <2>1. CASE \E e \in Forwarded : HandOn(e) /\ rpc' = rpc
    <3>1. PICK e \in Forwarded : HandOn(e) /\ rpc' = rpc
      BY <2>1
    <3>2. e.type \notin AckEvents
      BY DEF Forwarded, AckEvents
    <3> QED
      BY <1>0, <3>1, <3>2, HandedOn
  <2>2. CASE \E action : OnClose(action) /\ UNCHANGED chanVars
    <3>1. rpc' = rpc \/ (rpc' = "lock" /\ ~reconnecting)
      BY <2>2 DEF OnClose, reconnection_needed
    <3>2. ~reconnecting => rpc \notin AckPoints
      BY DEF Control, AckPoints
    <3> QED
      BY <1>0, <2>2, <3>1, <3>2, NothingMoves DEF AckPoints
  <2> QED
    BY <1>10, <2>1, <2>2 DEF OnSessionEvent
<1>11. ASSUME NEW s \in Sessions, EngineTaskEnds(s) \/ SessionClosed(s)
       PROVE  AckInv'
    BY <1>0, <1>11, NothingMoves DEF EngineTaskEnds, SessionClosed, recVars
<1>12. ASSUME NEW s \in Sessions, CloseEnd(s) PROVE AckInv'
    BY <1>0, <1>12, HandedOn DEF CloseEnd, AckEvents, recVars
<1>13. CASE SpawnedClose
    BY <1>0, <1>13, NothingMoves DEF SpawnedClose, BeginClose, recVars
<1>14. CASE SessionStep
    BY <1>0, <1>14, NothingMoves
       DEF SessionStep, SignalLost, TransportLost, LeaveReceived, Report, recVars
<1>15. ASSUME NEW o \in Ops, OpCall(o) \/ OpStart(o) \/ OpEnd(o) PROVE AckInv'
    BY <1>0, <1>15, NothingMoves DEF OpCall, OpStart, OpEnd, recVars
<1>16. CASE ResumeOk
    BY <1>0, <1>16, SendsAndWaits DEF ResumeOk, AckPoints, AckEvents, Awaits
<1> QED
    BY <1>1, <1>2, <1>3, <1>4, <1>5, <1>6, <1>7, <1>8, <1>9, <1>10, <1>11,
       <1>12, <1>13, <1>14, <1>15, <1>16
       DEF EngineOnly, ReconnectLocal, EngineStep, EngineTaskStep

\* The handlers and the tasks of the room.
LEMMA AckRoom == TypeOK /\ AckInv /\ RoomTaskStep => AckInv'
<1> SUFFICES ASSUME TypeOK, AckInv, RoomTaskStep PROVE AckInv'
    OBVIOUS
<1>1. ASSUME RoomTakes(TRUE), UNCHANGED <<syncing, synced>>,
             Head(engine_rx).type # "SignalResumed"
      PROVE  AckInv'
  <2>1. /\ engine_rx # <<>> /\ engine_rx' = Tail(engine_rx)
        /\ receiver' = receiver /\ rpc' = rpc
        /\ ack' = IF Head(engine_rx).type \in AckEvents THEN "done" ELSE ack
    BY <1>1 DEF RoomTakes, recVars
  <2>2. receiver
    BY <2>1 DEF AckInv
  <2>3. Head(engine_rx).type \in AckEvents => rpc # "sync"
    BY <1>1, <2>1, Taken DEF Awaits
  <2> QED
    BY <1>1, <2>1, <2>2, <2>3, Taken DEF AckInv, SyncBeforeOffer
<1>2. CASE handle_signal_resumed
  <2>1. /\ engine_rx # <<>> /\ engine_rx' = Tail(engine_rx)
        /\ receiver' = receiver /\ rpc' = rpc /\ ack' = ack
        /\ Head(engine_rx).type = "SignalResumed"
        /\ syncing' = TRUE
    BY <1>2 DEF handle_signal_resumed, RoomTakes, Incoming, recVars
  <2>2. Head(engine_rx).type \in AckEvents
    BY <2>1 DEF AckEvents
  <2>3. receiver /\ AckQueued /\ ~AckQueued' /\ rpc = "sync" /\ ack = "pending"
    BY <2>1, <2>2, Taken DEF AckInv, Awaits
  <2>4. \A i : ~IsAckAt(engine_rx', i)
    BY <2>3 DEF AckQueued, IsAckAt
  <2> QED
    BY <2>1, <2>3, <2>4 DEF AckInv, AckPoints, SyncBeforeOffer
<1>3. CASE handle_resuming \/ handle_resumed \/ handle_restarting
           \/ handle_signal_restarted \/ handle_restarted
           \/ handle_participant_update \/ handle_disconnected
    BY <1>1, <1>3 DEF handle_resuming, handle_resumed, handle_restarting,
       handle_signal_restarted, handle_restarted, handle_participant_update,
       handle_disconnected, Incoming, stateVars
<1>4. CASE send_sync_state
  <2>1. /\ syncing /\ ~AckQueued /\ ack' = "done" /\ syncing' = FALSE
        /\ synced' # "none"
        /\ UNCHANGED <<rpc, engine_rx, receiver>>
    BY <1>4 DEF send_sync_state, RoomAck, recVars
  <2>2. ~AckQueued' /\ rpc = "sync"
    BY <2>1 DEF AckQueued, AckInv
  <2> QED
    BY <2>1, <2>2 DEF AckInv, AckQueued, IsAckAt, AckPoints, SyncBeforeOffer
<1>5. CASE Republished \/ SpawnedRoomClose \/ RoomCloseSent
           \/ RoomTasksJoined \/ RoomClosed
    BY <1>5, NothingMoves DEF Republished, SpawnedRoomClose, RoomCloseSent,
       RoomTasksJoined, RoomClosed, vars, recVars, stateVars
<1>6. CASE RoomCloseEngine
    BY <1>6, NothingMoves DEF RoomCloseEngine, AppClose, BeginClose, recVars,
       stateVars
<1>7. CASE RoomTaskEnds
  <2>1. /\ ~receiver' /\ engine_rx' = <<>>
        /\ ack' = IF AckQueued THEN "done" ELSE ack
        /\ UNCHANGED <<rpc, syncing, synced>>
    BY <1>7 DEF RoomTaskEnds, RoomGone, recVars, roomVars, stateVars
  <2>2. ~AckQueued' /\ \A i : ~IsAckAt(engine_rx', i)
    BY <2>1 DEF AckQueued, IsAckAt
  <2> QED
    BY <2>1, <2>2 DEF AckInv, SyncBeforeOffer
<1> QED
    BY <1>2, <1>3, <1>4, <1>5, <1>6, <1>7
       DEF RoomTaskStep, RoomHandler, RoomCloseStep

LEMMA AckStep == TypeOK /\ Control /\ AckInv /\ [RoomNext]_allVars => AckInv'
<1> SUFFICES ASSUME TypeOK, Control, AckInv, [RoomNext]_allVars PROVE AckInv'
    OBVIOUS
<1>1. CASE RoomTaskStep
    BY <1>1, AckRoom
<1>2. CASE EngineOnly
    BY <1>2, AckEngine
<1>3. ASSUME NEW s \in Sessions, RoomConnect(s) PROVE AckInv'
    BY <1>3, NothingMoves DEF RoomConnect, Join, AckPoints
<1>4. ASSUME NEW s \in Sessions, RoomConnectOk(s) PROVE AckInv'
    BY <1>4, SendsAndWaits
       DEF RoomConnectOk, ConnectOk, stateVars, AckPoints, AckEvents, Awaits
<1>5. ASSUME NEW r \in Reasons, RoomClose(r) PROVE AckInv'
    BY <1>5, NothingMoves DEF RoomClose, vars, recVars, stateVars
<1>6. ASSUME NEW s \in Sessions, NEW p \in People, NEW here \in BOOLEAN,
             ServerTells(s, p, here)
      PROVE  AckInv'
    BY <1>6, NothingMoves DEF ServerTells, Forward, recVars, stateVars
<1>7. CASE UNCHANGED allVars
    BY <1>7, NothingMoves DEF allVars, vars, recVars, roomVars, stateVars
<1> QED
    BY <1>1, <1>2, <1>3, <1>4, <1>5, <1>6, <1>7 DEF RoomNext

\* After a resume the publisher's offer waits for the send_sync_state of this
\* resume to return, while the room is there to run it: the engine goes on only
\* with the answer to its own SignalResumed, which comes after the message (or
\* after none, if a description is missing), and no answer to another event is
\* taken for it.
THEOREM OfferFollowsSync == RoomSafe => []SyncBeforeOffer
<1>1. IInv => TypeOK /\ Control
    BY DEF IInv
<1>2. AckInv => SyncBeforeOffer
    BY DEF AckInv
<1>3. RoomSafe => []IInv
    BY RoomImplementsEngine, Invariance, PTL DEF ImplementsEngine
<1> QED
    BY <1>1, <1>2, <1>3, AckInit, AckStep, PTL DEF RoomSafe

-----------------------------------------------------------------------------
(* A room that has announced Disconnected *)

\* The events whose handlers announce another state.
Comings == {"Resuming", "Restarting", "Resumed"}

Shut == state = "Disconnected" /\ room_handle # "none"

Seen == Shut \/ \E i \in DOMAIN engine_rx : engine_rx[i].type = "Disconnected"

\* A close in flight has the engine closed, and a resume under way is of the
\* session that it stops.
StopInv ==
    /\ \A s \in Sessions : stopper[s] \in Reasons => closed
    /\ rpc \in ResumeSteps =>
           \A s \in Sessions : stopper[s] \in Reasons => s = session

\* Once Disconnected is queued no resume can succeed, and no announcement is
\* queued behind it.
FinalInv ==
    /\ rpc = "joining" => room_handle = "none"
    /\ StopInv
    /\ Seen => closed /\ (rpc \in ResumeSteps => sess[session] = "closed")
    /\ Shut => \A j \in DOMAIN engine_rx : engine_rx[j].type \notin Comings
    /\ \A i, j \in DOMAIN engine_rx :
           i < j /\ engine_rx[i].type = "Disconnected" =>
               engine_rx[j].type \notin Comings

\* A closed engine stays closed, begins no resume and reopens no session.
LEMMA ClosedStays ==
    ASSUME IInv, StopInv, [Next]_vars
    PROVE  /\ closed => closed'
           /\ (closed /\ rpc' \in ResumeSteps) =>
                 /\ rpc \in ResumeSteps /\ session' = session
                 /\ sess[session] = "closed" => sess'[session] = "closed"
           /\ rpc' = "joining" => rpc = "joining"
           /\ StopInv'
<1> DEFINE Goal ==
        /\ closed => closed'
        /\ (closed /\ rpc' \in ResumeSteps) =>
              /\ rpc \in ResumeSteps /\ session' = session
              /\ sess[session] = "closed" => sess'[session] = "closed"
        /\ rpc' = "joining" => rpc = "joining"
        /\ StopInv'
<1> SUFFICES Goal
    OBVIOUS
<1>0. /\ stopper \in [Sessions -> Reasons \cup {"nobody", "restart", "done"}]
      /\ sess \in [Sessions -> {"unused", "open", "closing", "closed", "dropped"}]
      /\ closed \in BOOLEAN
      /\ engine_task # NoSession =>
            engine_task = session /\ sess[session] = "open"
    BY DEF IInv, TypeOK, Ownership
<1>1. ASSUME UNCHANGED <<closed, session, sess, stopper>>,
             rpc' \in ResumeSteps => rpc \in ResumeSteps,
             rpc' = "joining" => rpc = "joining"
      PROVE  Goal
    BY <1>1 DEF StopInv
<1>2. CASE Lock \/ GiveUp \/ Announced \/ ConnectErr \/ SignalRestartedAcked
           \/ ResumeOk \/ SyncAcked \/ Resumed \/ ResumeErr \/ Tick \/ Recovered
           \/ CloseReturned \/ Finish \/ JoinFail
    BY <1>1, <1>2 DEF Lock, GiveUp, Announced, ConnectErr, SignalRestartedAcked,
       ResumeOk, SyncAcked, Resumed, ResumeErr, Tick, Recovered, CloseReturned,
       Finish, JoinFail, handleVars, sessVars, ResumeSteps, IInv, Control
<1>3. CASE BeginAttempt
    BY <1>0, <1>3 DEF BeginAttempt, handleVars, sessVars, StopInv
<1>4. CASE Install
    BY <1>0, <1>4 DEF Install, ResumeSteps, StopInv
<1>5. CASE TakeOld
    BY <1>0, <1>5 DEF TakeOld, TakeTask, ResumeSteps, StopInv, Reasons
<1>6. CASE WaitPcErr
    BY <1>0, <1>6 DEF WaitPcErr, ResumeSteps, StopInv, handleVars
<1>7. ASSUME NEW r \in Reasons, BeginClose(r),
             rpc' \in ResumeSteps => rpc' = rpc,
             rpc' = "joining" => rpc = "joining"
      PROVE  Goal
    BY <1>0, <1>7 DEF BeginClose, TakeTask, StopInv
<1>8. CASE CloseFailed
    BY <1>7, <1>8 DEF CloseFailed, ResumeSteps, Reasons
<1>9. CASE SpawnedClose
    BY <1>7, <1>9 DEF SpawnedClose, recVars, Reasons
<1>10. ASSUME NEW r \in Reasons, AppClose(r) PROVE Goal
    BY <1>7, <1>10 DEF AppClose, recVars
<1>11. ASSUME NEW s \in Sessions, OldStopped(s) PROVE Goal
    BY <1>0, <1>11 DEF OldStopped, ResumeSteps, StopInv, handleVars, Reasons
<1>12. ASSUME NEW s \in Sessions, ConnectOk(s) PROVE Goal
    BY <1>0, <1>12 DEF ConnectOk, ResumeSteps, StopInv, handleVars
<1>13. ASSUME NEW s \in Sessions, OnSessionEvent(s) PROVE Goal
  <2>1. rpc' \in {rpc, "lock"} /\ UNCHANGED <<closed, session, sess, stopper>>
    BY <1>13 DEF OnSessionEvent, OnClose, reconnection_needed
  <2> QED
    BY <1>1, <2>1 DEF ResumeSteps
<1>14. ASSUME NEW s \in Sessions, EngineTaskEnds(s) PROVE Goal
    BY <1>1, <1>14 DEF EngineTaskEnds, handleVars, recVars
<1>15. ASSUME NEW s \in Sessions, SessionClosed(s) PROVE Goal
    BY <1>0, <1>15 DEF SessionClosed, handleVars, recVars, StopInv
<1>16. ASSUME NEW s \in Sessions, CloseEnd(s) PROVE Goal
    BY <1>0, <1>16 DEF CloseEnd, handleVars, recVars, StopInv, Reasons
<1>17. ASSUME NEW s \in Sessions, Join(s) PROVE Goal
    BY <1>0, <1>17 DEF Join, ResumeSteps, StopInv
<1>18. CASE SessionStep
    BY <1>1, <1>18 DEF SessionStep, SignalLost, TransportLost, LeaveReceived,
       Report, handleVars, recVars
<1>19. ASSUME NEW o \in Ops, OpCall(o) \/ OpStart(o) \/ OpEnd(o) PROVE Goal
    BY <1>1, <1>19 DEF OpCall, OpStart, OpEnd, handleVars, sessVars, recVars
<1>20. CASE RoomStep
    BY <1>1, <1>20 DEF RoomStep, RoomRecv, RoomTakes, RoomAck, RoomGone,
       handleVars, sessVars, recVars
<1>21. CASE UpdateStep
    BY <1>1, <1>21 DEF UpdateStep, Forward, handleVars, recVars
<1>22. CASE UNCHANGED vars
    BY <1>1, <1>22 DEF vars, handleVars, sessVars, recVars
<1> QED
    BY <1>2, <1>3, <1>4, <1>5, <1>6, <1>8, <1>9, <1>10, <1>11, <1>12, <1>13,
       <1>14, <1>15, <1>16, <1>17, <1>18, <1>19, <1>20, <1>21, <1>22
       DEF Next, ReconnectStep, ReconnectLocal, EngineStep, EngineTaskStep,
           CallerStep

\* What a step leaves to show when the engine keeps what it had.
LEMMA FinalFrom ==
    ASSUME IInv, FinalInv, [Next]_vars,
           rpc = "joining" /\ rpc' = "joining" => room_handle' = room_handle,
           Seen' => Seen,
           Shut' => \A j \in DOMAIN engine_rx' : engine_rx'[j].type \notin Comings,
           \A i, j \in DOMAIN engine_rx' :
               i < j /\ engine_rx'[i].type = "Disconnected" =>
                   engine_rx'[j].type \notin Comings
    PROVE  FinalInv'
BY ClosedStays DEF FinalInv

\* An event is queued: an announcement only if Disconnected was not.
LEMMA Queued ==
    ASSUME TypeOK, FinalInv, NEW e \in EngineEvents,
           engine_rx' = Append(engine_rx, e), UNCHANGED <<state, room_handle>>,
           e.type \in Comings => ~Seen
    PROVE  /\ Seen' => Seen \/ e.type = "Disconnected"
           /\ Shut' => \A j \in DOMAIN engine_rx' :
                           engine_rx'[j].type \notin Comings
           /\ \A i, j \in DOMAIN engine_rx' :
                 i < j /\ engine_rx'[i].type = "Disconnected" =>
                     engine_rx'[j].type \notin Comings
<1>1. /\ DOMAIN engine_rx = 1..Len(engine_rx)
      /\ DOMAIN engine_rx' = 1..(Len(engine_rx) + 1)
      /\ Len(engine_rx) \in Nat
      /\ engine_rx'[Len(engine_rx) + 1] = e
      /\ \A i \in 1..Len(engine_rx) : engine_rx'[i] = engine_rx[i]
    BY DEF TypeOK
<1>2. Shut' => Shut
    BY DEF Shut
<1>3. Seen' => Seen \/ e.type = "Disconnected"
    BY <1>1, <1>2 DEF Seen
<1>4. Shut => Seen
    BY DEF Seen
<1>5. Shut' => \A j \in DOMAIN engine_rx' : engine_rx'[j].type \notin Comings
    BY <1>1, <1>2, <1>4 DEF FinalInv
<1>6. ASSUME NEW i \in DOMAIN engine_rx', NEW j \in DOMAIN engine_rx',
             i < j, engine_rx'[i].type = "Disconnected"
      PROVE  engine_rx'[j].type \notin Comings
  <2>1. i \in DOMAIN engine_rx /\ engine_rx[i].type = "Disconnected" /\ Seen
    BY <1>1, <1>6 DEF Seen
  <2> QED
    BY <1>1, <1>6, <2>1 DEF FinalInv
<1> QED
    BY <1>3, <1>5, <1>6

\* An event is taken.
LEMMA Dequeued ==
    ASSUME TypeOK, FinalInv, engine_rx # <<>>, engine_rx' = Tail(engine_rx)
    PROVE  /\ \A i \in DOMAIN engine_rx' :
                 \E k \in DOMAIN engine_rx : engine_rx[k] = engine_rx'[i]
           /\ \A i, j \in DOMAIN engine_rx' :
                 i < j /\ engine_rx'[i].type = "Disconnected" =>
                     engine_rx'[j].type \notin Comings
           /\ \E i \in DOMAIN engine_rx : engine_rx[i] = Head(engine_rx)
           /\ Head(engine_rx).type = "Disconnected" =>
                 \A j \in DOMAIN engine_rx' : engine_rx'[j].type \notin Comings
<1>1. /\ DOMAIN engine_rx = 1..Len(engine_rx)
      /\ DOMAIN engine_rx' = 1..(Len(engine_rx) - 1)
      /\ Len(engine_rx) \in Nat \ {0}
      /\ Head(engine_rx) = engine_rx[1]
      /\ \A i \in 1..(Len(engine_rx) - 1) : engine_rx'[i] = engine_rx[i + 1]
    BY DEF TypeOK
<1>2. \A i \in DOMAIN engine_rx' :
          i + 1 \in DOMAIN engine_rx /\ engine_rx[i + 1] = engine_rx'[i]
          /\ 1 < i + 1
    BY <1>1
<1>3. ASSUME NEW i \in DOMAIN engine_rx', NEW j \in DOMAIN engine_rx',
             i < j, engine_rx'[i].type = "Disconnected"
      PROVE  engine_rx'[j].type \notin Comings
  <2>1. i + 1 < j + 1
    BY <1>1, <1>3
  <2> QED
    BY <1>2, <1>3, <2>1 DEF FinalInv
<1>4. 1 \in DOMAIN engine_rx
    BY <1>1
<1>5. ASSUME Head(engine_rx).type = "Disconnected", NEW j \in DOMAIN engine_rx'
      PROVE  engine_rx'[j].type \notin Comings
    BY <1>1, <1>2, <1>4, <1>5 DEF FinalInv
<1> QED
    BY <1>1, <1>2, <1>3, <1>4, <1>5

LEMMA FinalInit == RoomInit => FinalInv
BY DEF RoomInit, Init, FinalInv, StopInv, Seen, Shut, Reasons, ResumeSteps

\* A step that leaves the channel and what the room announced alone.
LEMMA FinalQuiet ==
    ASSUME IInv, FinalInv, [Next]_vars, UNCHANGED <<engine_rx, state>>,
           room_handle = "none" => room_handle' = "none"
    PROVE  FinalInv'
<1>1. (Shut' => Shut) /\ (Seen' => Seen)
    BY DEF Shut, Seen
<1> QED
    BY <1>1, ClosedStays DEF FinalInv

\* The reconnect task sends an event, if the room is there.
LEMMA FinalSends ==
    ASSUME IInv, FinalInv, [Next]_vars, UNCHANGED <<state, room_handle>>,
           NEW type \in AckEvents, SendAndWait(type), type \in Comings => ~Seen
    PROVE  FinalInv'
<1> DEFINE e == [type |-> type, reason |-> "Other"]
<1>1. e \in EngineEvents /\ e.type = type /\ type # "Disconnected"
    BY DEF EngineEvents, Reasons, AckEvents
<1>2. CASE receiver
  <2>1. engine_rx' = Append(engine_rx, e)
    BY <1>2 DEF SendAndWait
  <2>2. TypeOK
    BY DEF IInv
  <2> HIDE DEF e
  <2> QED
    BY <1>1, <2>1, <2>2, Queued, FinalFrom
<1>3. CASE ~receiver
    BY <1>3, FinalQuiet DEF SendAndWait
<1> QED
    BY <1>2, <1>3

\* An update is handed on: it announces nothing.
LEMMA FinalHandsOn ==
    ASSUME IInv, FinalInv, [Next]_vars, UNCHANGED <<state, room_handle>>,
           NEW e \in Forwarded, HandOn(e)
    PROVE  FinalInv'
<1>1. e.type \notin Comings \cup {"Disconnected"}
    BY DEF Forwarded, Comings
<1>2. CASE receiver
  <2>1. engine_rx' = Append(engine_rx, e) /\ e \in EngineEvents /\ TypeOK
    BY <1>2 DEF HandOn, EngineEvents, IInv
  <2> QED
    BY <1>1, <2>1, Queued, FinalFrom
<1>3. CASE ~receiver
    BY <1>3, FinalQuiet DEF HandOn
<1> QED
    BY <1>2, <1>3

LEMMA FinalEngine == IInv /\ FinalInv /\ EngineOnly => FinalInv'
<1> SUFFICES ASSUME IInv, FinalInv, EngineOnly PROVE FinalInv'
    OBVIOUS
<1>0. UNCHANGED <<state, room_handle>> /\ [Next]_vars
    BY EngineOnlyMaps DEF EngineOnly, roomVars, stateVars, roomCloseVars
<1>1. ASSUME UNCHANGED engine_rx PROVE FinalInv'
    BY <1>0, <1>1, FinalQuiet
<1>2. CASE BeginAttempt
  <2>1. ~Seen
    BY <1>2 DEF BeginAttempt, FinalInv
  <2> QED
    BY <1>0, <1>1, <1>2, <2>1, FinalSends DEF BeginAttempt, chanVars, AckEvents
<1>3. CASE Install
    BY <1>0, <1>3, FinalSends DEF Install, AckEvents, Comings
<1>4. CASE Resumed
  <2>1. ~Seen
    BY <1>4 DEF Resumed, FinalInv, ResumeSteps
  <2> QED
    BY <1>0, <1>4, <2>1, FinalSends DEF Resumed, AckEvents
<1>5. ASSUME NEW s \in Sessions, CloseEnd(s) PROVE FinalInv'
  <2> DEFINE e == [type |-> "Disconnected", reason |-> stopper[s]]
  <2>1. e \in EngineEvents /\ e.type = "Disconnected" /\ TypeOK
    BY <1>5 DEF CloseEnd, EngineEvents, IInv
  <2>2. closed /\ (rpc \in ResumeSteps => s = session)
    BY <1>5 DEF CloseEnd, FinalInv, StopInv
  <2>3. sess[s] = "closed"
    BY <1>5, ZenonT(40) DEF CloseEnd, IInv, Ownership, TypeOK
  <2>4. UNCHANGED <<closed, rpc, session, sess>>
    BY <1>5 DEF CloseEnd, handleVars, recVars
  <2>5. CASE receiver
    <3>1. engine_rx' = Append(engine_rx, e)
      BY <1>5, <2>5 DEF CloseEnd, HandOn
    <3>2. e.type \notin Comings
      BY <2>1 DEF Comings
    <3> HIDE DEF e
    <3>3. /\ Shut' => \A j \in DOMAIN engine_rx' :
                           engine_rx'[j].type \notin Comings
          /\ \A i, j \in DOMAIN engine_rx' :
                 i < j /\ engine_rx'[i].type = "Disconnected" =>
                     engine_rx'[j].type \notin Comings
      BY <1>0, <2>1, <3>1, <3>2, Queued
    <3> QED
      BY <1>0, <2>2, <2>3, <2>4, <3>3, ClosedStays DEF FinalInv
  <2>6. CASE ~receiver
    BY <1>1, <1>5, <2>6 DEF CloseEnd, HandOn
  <2> QED
    BY <2>5, <2>6
<1>6. ASSUME NEW s \in Sessions, OnSessionEvent(s) PROVE FinalInv'
  <2>1. CASE \E e \in Forwarded : HandOn(e)
    BY <1>0, <2>1, FinalHandsOn
  <2>2. CASE UNCHANGED chanVars
    BY <1>1, <2>2 DEF chanVars
  <2> QED
    BY <1>6, <2>1, <2>2 DEF OnSessionEvent
<1>7. CASE Lock \/ GiveUp \/ Announced \/ TakeOld \/ ConnectErr
           \/ SignalRestartedAcked \/ WaitPcErr \/ SyncAcked \/ ResumeErr \/ Tick
           \/ Recovered \/ CloseFailed \/ CloseReturned \/ Finish \/ JoinFail
           \/ SpawnedClose \/ SessionStep
    BY <1>1, <1>7 DEF Lock, GiveUp, Announced, TakeOld, ConnectErr,
       SignalRestartedAcked, WaitPcErr, SyncAcked, ResumeErr, Tick, Recovered,
       CloseFailed, BeginClose, CloseReturned, Finish, JoinFail, SpawnedClose,
       SessionStep, SignalLost, TransportLost, LeaveReceived, Report, Acked,
       chanVars
<1>8. ASSUME NEW s \in Sessions,
             OldStopped(s) \/ EngineTaskEnds(s) \/ SessionClosed(s)
      PROVE  UNCHANGED engine_rx
    BY <1>8 DEF OldStopped, EngineTaskEnds, SessionClosed, chanVars
<1>9. ASSUME NEW o \in Ops, OpCall(o) \/ OpStart(o) \/ OpEnd(o)
      PROVE  UNCHANGED engine_rx
    BY <1>9 DEF OpCall, OpStart, OpEnd, chanVars
<1>10. CASE ResumeOk
    BY <1>0, <1>10, FinalSends DEF ResumeOk, AckEvents, Comings
<1> QED
    BY <1>1, <1>2, <1>3, <1>4, <1>5, <1>6, <1>7, <1>8, <1>9, <1>10
       DEF EngineOnly, ReconnectLocal, EngineStep, EngineTaskStep

LEMMA FinalRoom == IInv /\ FinalInv /\ RoomTaskStep => FinalInv'
<1> SUFFICES ASSUME IInv, FinalInv, RoomTaskStep PROVE FinalInv'
    OBVIOUS
<1>0. [Next]_vars /\ TypeOK
    BY RoomTaskStepMaps DEF IInv
<1>1. ASSUME NEW answered \in BOOLEAN, RoomTakes(answered),
             UNCHANGED room_handle,
             \/ state' = state
             \/ state' # "Disconnected"
             \/ Head(engine_rx).type = "Disconnected"
      PROVE  FinalInv'
  <2>1. engine_rx # <<>> /\ engine_rx' = Tail(engine_rx)
    BY <1>1 DEF RoomTakes
  <2>2. Seen' => Seen
    BY <1>0, <1>1, <2>1, Dequeued DEF Seen, Shut
  <2>3. Shut' => \A j \in DOMAIN engine_rx' : engine_rx'[j].type \notin Comings
    BY <1>0, <1>1, <2>1, Dequeued DEF Shut, FinalInv
  <2> QED
    BY <1>0, <1>1, <2>1, <2>2, <2>3, Dequeued, FinalFrom
<1>2. CASE RoomHandler
    BY <1>1, <1>2 DEF RoomHandler, handle_resuming, handle_signal_resumed,
       handle_resumed, handle_restarting, handle_signal_restarted,
       handle_restarted, handle_participant_update, handle_disconnected,
       Incoming, roomCloseVars, stateVars
<1>3. CASE send_sync_state
    BY <1>0, <1>3, FinalQuiet DEF send_sync_state, RoomAck, roomCloseVars
<1>4. CASE Republished
  <2>1. UNCHANGED <<engine_rx, room_handle>> /\ ~Shut'
    BY <1>4 DEF Republished, vars, chanVars, roomCloseVars, Shut
  <2> QED
    BY <1>0, <2>1, FinalFrom DEF FinalInv, Seen
<1>5. CASE SpawnedRoomClose
    BY <1>0, <1>5, FinalQuiet DEF SpawnedRoomClose, vars, chanVars, stateVars
<1>6. CASE RoomCloseEngine
    BY <1>0, <1>6, FinalQuiet
       DEF RoomCloseEngine, AppClose, BeginClose, chanVars, stateVars, Reasons
<1>7. CASE RoomCloseSent \/ RoomTasksJoined \/ RoomClosed
    BY <1>0, <1>7, FinalQuiet
       DEF RoomCloseSent, RoomTasksJoined, RoomClosed, vars, chanVars, stateVars
<1>8. CASE RoomTaskEnds
  <2>1. engine_rx' = <<>> /\ UNCHANGED <<state, room_handle>>
    BY <1>8 DEF RoomTaskEnds, RoomGone, roomVars, stateVars, roomCloseVars
  <2>2. Seen' => Seen
    BY <2>1 DEF Seen, Shut
  <2> QED
    BY <1>0, <2>1, <2>2, FinalFrom
<1> QED
    BY <1>2, <1>3, <1>4, <1>5, <1>6, <1>7, <1>8 DEF RoomTaskStep, RoomCloseStep

LEMMA FinalStep == IInv /\ FinalInv /\ [RoomNext]_allVars => FinalInv'
<1> SUFFICES ASSUME IInv, FinalInv, [RoomNext]_allVars PROVE FinalInv'
    OBVIOUS
<1>1. CASE RoomTaskStep
    BY <1>1, FinalRoom
<1>2. CASE EngineOnly
    BY <1>2, FinalEngine
<1>3. ASSUME NEW s \in Sessions, RoomConnect(s) PROVE FinalInv'
  <2>1. [Next]_vars /\ UNCHANGED engine_rx /\ ~Shut' /\ rpc' # "joining"
    BY <1>3 DEF RoomConnect, Join, Next, CallerStep, chanVars, Shut
  <2> QED
    BY <2>1, ClosedStays DEF FinalInv, Seen
<1>4. ASSUME NEW s \in Sessions, RoomConnectOk(s) PROVE FinalInv'
  <2>1. [Next]_vars /\ SendAndWait("SignalRestarted")
    BY <1>4 DEF RoomConnectOk, ConnectOk, Next, ReconnectStep
  <2> QED
    BY <1>4, <2>1, FinalSends
       DEF RoomConnectOk, stateVars, roomCloseVars, AckEvents, Comings
<1>5. ASSUME NEW r \in Reasons, RoomClose(r) PROVE FinalInv'
    BY <1>5, FinalQuiet DEF RoomClose, vars, chanVars, stateVars
<1>6. ASSUME NEW s \in Sessions, NEW p \in People, NEW here \in BOOLEAN,
             ServerTells(s, p, here)
      PROVE  FinalInv'
    BY <1>6, TellsForwards, FinalQuiet
       DEF ServerTells, Forward, chanVars, stateVars, roomCloseVars
<1>7. CASE UNCHANGED allVars
    BY <1>7, FinalQuiet DEF allVars, vars, chanVars, roomVars, stateVars,
       roomCloseVars
<1> QED
    BY <1>1, <1>2, <1>3, <1>4, <1>5, <1>6, <1>7 DEF RoomNext

\* A room that has announced Disconnected announces nothing else, but for a
\* republishing task of handle_restarted: the close that queued the event had
\* stopped the session, so no resume succeeds after it, and a restart that does
\* announces nothing by itself.
THEOREM DisconnectedStays == RoomSafe => DisconnectedIsFinal
<1>1. IInv /\ FinalInv /\ [RoomNext]_allVars =>
          [(state = "Disconnected" /\ room_handle # "none" /\ republishing = 0)
              => state' = "Disconnected"]_allVars
  <2> SUFFICES ASSUME IInv, FinalInv, RoomNext, Shut, republishing = 0
               PROVE  state' = "Disconnected"
    BY DEF Shut
  <2>1. state = "Disconnected" /\ rpc # "joining"
    BY DEF Shut, FinalInv
  <2>2. \A type \in Comings : ~Incoming(type)
    <3>1. engine_rx \in Seq(EngineEvents)
      BY DEF IInv, TypeOK
    <3>2. engine_rx # <<>> =>
              1 \in DOMAIN engine_rx /\ Head(engine_rx) = engine_rx[1]
      BY <3>1
    <3> QED
      BY <3>2 DEF Incoming, FinalInv
  <2>3. CASE RoomHandler
    BY <2>1, <2>2, <2>3 DEF RoomHandler, handle_resuming, handle_signal_resumed,
       handle_resumed, handle_restarting, handle_signal_restarted,
       handle_restarted, handle_participant_update, handle_disconnected,
       Comings, stateVars
  <2>4. CASE RoomTaskStep /\ ~RoomHandler
    BY <2>1, <2>4 DEF RoomTaskStep, RoomCloseStep, send_sync_state, Republished,
       SpawnedRoomClose, RoomCloseEngine, RoomCloseSent, RoomTasksJoined,
       RoomClosed, RoomTaskEnds, stateVars, roomVars
  <2>5. CASE EngineOnly
    BY <2>1, <2>5 DEF EngineOnly, roomVars, stateVars
  <2>6. ASSUME NEW s \in Sessions, RoomConnect(s) \/ RoomConnectOk(s)
        PROVE  state' = "Disconnected"
    BY <2>1, <2>6 DEF RoomConnect, Join, RoomConnectOk, stateVars
  <2>7. ASSUME NEW r \in Reasons, RoomClose(r) PROVE state' = "Disconnected"
    BY <2>1, <2>7 DEF RoomClose, stateVars
  <2>8. ASSUME NEW s \in Sessions, NEW p \in People, NEW here \in BOOLEAN,
               ServerTells(s, p, here)
        PROVE  state' = "Disconnected"
    BY <2>1, <2>8 DEF ServerTells, stateVars
  <2> QED
    BY <2>3, <2>4, <2>5, <2>6, <2>7, <2>8 DEF RoomNext
<1>2. RoomSafe => []IInv
    BY RoomImplementsEngine, Invariance, PTL DEF ImplementsEngine
<1> QED
    BY <1>1, <1>2, FinalInit, FinalStep, PTL DEF RoomSafe, DisconnectedIsFinal

-----------------------------------------------------------------------------
(* The participants *)

Come(p) == [type |-> "ParticipantUpdate", who |-> p, here |-> TRUE]

Leave(p) == [type |-> "ParticipantUpdate", who |-> p, here |-> FALSE]

\* Once the updates in the queue q are applied, p is known: the last of them
\* about p says that it is here, or there is none and p is known already.
Kept(q, p, known) ==
    \/ \E i \in DOMAIN q :
          /\ q[i] = Come(p)
          /\ \A j \in DOMAIN q : j > i => q[j] # Leave(p)
    \/ known /\ \A j \in DOMAIN q : q[j] # Leave(p)

\* What one event does to p's being known.
Told(e, p, known) ==
    IF e = Come(p) THEN TRUE ELSE IF e = Leave(p) THEN FALSE ELSE known

LEMMA ComeIsNotLeave == ASSUME NEW p PROVE Come(p) # Leave(p)
<1>1. Come(p).here # Leave(p).here
    BY DEF Come, Leave
<1> QED
    BY <1>1

\* Queuing an event is as if it were applied last ...
LEMMA KeptAppend ==
    ASSUME NEW S, NEW q \in Seq(S), NEW e \in S, NEW p, NEW known \in BOOLEAN
    PROVE  Kept(Append(q, e), p, known) <=> Told(e, p, Kept(q, p, known))
<1> DEFINE r == Append(q, e)
<1>1. /\ DOMAIN q = 1..Len(q) /\ Len(q) \in Nat
      /\ DOMAIN r = 1..(Len(q) + 1)
      /\ r[Len(q) + 1] = e
      /\ \A i \in 1..Len(q) : r[i] = q[i]
    OBVIOUS
<1> HIDE DEF r
<1>2. CASE e = Come(p)
  <2>1. Len(q) + 1 \in DOMAIN r /\ \A j \in DOMAIN r : ~(j > Len(q) + 1)
    BY <1>1
  <2> QED
    BY <1>1, <1>2, <2>1 DEF Kept, Told, r
<1>3. CASE e = Leave(p)
  <2>1. \A i \in DOMAIN r : r[i] = Come(p) => Len(q) + 1 > i
    BY <1>1, <1>3, ComeIsNotLeave
  <2>2. Len(q) + 1 \in DOMAIN r
    BY <1>1
  <2> QED
    BY <1>1, <1>3, <2>1, <2>2, ComeIsNotLeave DEF Kept, Told, r
<1>4. CASE e # Come(p) /\ e # Leave(p)
  <2>1. \A i \in DOMAIN r : r[i] = Come(p) \/ r[i] = Leave(p) =>
            i \in DOMAIN q /\ r[i] = q[i]
    BY <1>1, <1>4
  <2>2. \A i \in DOMAIN q : i \in DOMAIN r /\ r[i] = q[i]
    BY <1>1
  <2>3. Kept(r, p, known) <=> Kept(q, p, known)
    BY <2>1, <2>2 DEF Kept
  <2> QED
    BY <1>4, <2>3 DEF Told, r
<1> QED
    BY <1>2, <1>3, <1>4

\* ... and taking one from the queue as if it were applied first.
LEMMA KeptTail ==
    ASSUME NEW S, NEW q \in Seq(S), q # <<>>, NEW p, NEW known \in BOOLEAN
    PROVE  Kept(q, p, known) <=> Kept(Tail(q), p, Told(Head(q), p, known))
<1> DEFINE t == Tail(q)
           k == Told(Head(q), p, known)
<1>1. /\ DOMAIN q = 1..Len(q) /\ Len(q) \in Nat \ {0}
      /\ DOMAIN t = 1..(Len(q) - 1)
      /\ Head(q) = q[1]
      /\ \A i \in 1..(Len(q) - 1) : t[i] = q[i + 1]
    OBVIOUS
<1> HIDE DEF t
<1>2. \A i \in DOMAIN t : i + 1 \in DOMAIN q /\ q[i + 1] = t[i] /\ i + 1 > 1
    BY <1>1
<1>3. \A i \in DOMAIN q : i # 1 => i - 1 \in DOMAIN t /\ t[i - 1] = q[i]
    BY <1>1
<1>4. (\A j \in DOMAIN t : t[j] # Leave(p)) <=>
          \A j \in DOMAIN q : j > 1 => q[j] # Leave(p)
    BY <1>1, <1>2, <1>3
<1>5. ASSUME NEW i \in DOMAIN t
      PROVE  (\A j \in DOMAIN t : j > i => t[j] # Leave(p)) <=>
             (\A j \in DOMAIN q : j > i + 1 => q[j] # Leave(p))
    BY <1>1, <1>2, <1>3, <1>5
<1>6. 1 \in DOMAIN q
    BY <1>1
<1> DEFINE Later == \E i \in DOMAIN t :
                       /\ t[i] = Come(p)
                       /\ \A j \in DOMAIN t : j > i => t[j] # Leave(p)
           NoLeave == \A j \in DOMAIN t : t[j] # Leave(p)
           LaterQ == \E i \in DOMAIN q :
                       /\ i # 1
                       /\ q[i] = Come(p)
                       /\ \A j \in DOMAIN q : j > i => q[j] # Leave(p)
<1>7. Later => LaterQ
  <2> SUFFICES ASSUME NEW i \in DOMAIN t, t[i] = Come(p),
                      \A j \in DOMAIN t : j > i => t[j] # Leave(p)
               PROVE  LaterQ
    OBVIOUS
  <2>1. i + 1 \in DOMAIN q /\ q[i + 1] = Come(p) /\ i + 1 # 1
    BY <1>1, <1>2
  <2> QED
    BY <1>5, <2>1
<1>8. LaterQ => Later
  <2> SUFFICES ASSUME NEW i \in DOMAIN q, i # 1, q[i] = Come(p),
                      \A j \in DOMAIN q : j > i => q[j] # Leave(p)
               PROVE  Later
    OBVIOUS
  <2>1. i - 1 \in DOMAIN t /\ t[i - 1] = Come(p) /\ (i - 1) + 1 = i
    BY <1>1, <1>3
  <2> QED
    BY <1>5, <2>1
<1>9. Kept(q, p, known) <=> LaterQ \/ (k /\ NoLeave)
  <2>1. (\A j \in DOMAIN q : q[j] # Leave(p)) <=> NoLeave /\ q[1] # Leave(p)
    BY <1>1, <1>4, <1>6
  <2>2. Kept(q, p, known) <=>
            LaterQ \/ (q[1] = Come(p) /\ NoLeave)
            \/ (known /\ NoLeave /\ q[1] # Leave(p))
    BY <1>4, <1>6, <2>1 DEF Kept
  <2>3. k <=> (q[1] = Come(p) \/ (known /\ q[1] # Leave(p)))
    BY <1>1, ComeIsNotLeave DEF Told
  <2> HIDE DEF k, LaterQ, NoLeave
  <2> QED
    BY <2>2, <2>3
<1>10. Kept(t, p, k) <=> Later \/ (k /\ NoLeave)
    BY DEF Kept
<1> HIDE DEF Later, LaterQ, NoLeave, k
<1>11. Kept(q, p, known) <=> Kept(t, p, k)
    BY <1>7, <1>8, <1>9, <1>10
<1> QED
    BY <1>11 DEF t, k

\* Any other event, and a queue of others, changes nobody.
IsUpdate(e) == e.type = "ParticipantUpdate"

LEMMA ToldQuiet ==
    ASSUME NEW e, ~IsUpdate(e), NEW p, NEW known
    PROVE  Told(e, p, known) = known
<1>1. e # Come(p) /\ e # Leave(p)
    BY DEF IsUpdate, Come, Leave
<1> QED
    BY <1>1 DEF Told

LEMMA KeptQuiet ==
    ASSUME NEW q, NEW p, NEW known \in BOOLEAN,
           \A j \in DOMAIN q : ~IsUpdate(q[j])
    PROVE  Kept(q, p, known) <=> known
<1>1. IsUpdate(Come(p)) /\ IsUpdate(Leave(p))
    BY DEF IsUpdate, Come, Leave
<1> QED
    BY <1>1 DEF Kept

\* Who is known before may only help.
LEMMA KeptMonotone ==
    ASSUME NEW q, NEW p, NEW known, NEW more, known => more,
           Kept(q, p, known)
    PROVE  Kept(q, p, more)
BY DEF Kept

\* Nothing is queued before there is a session that reports it, and a session is
\* being connected only where the reconnect task waits for it.
Fresh ==
    /\ \A s \in Sessions : sess[s] = "unused" => events[s] = <<>>
    /\ rpc \notin {"signal_restarted", "wait_pc"} => rnew = NoSession
    /\ rpc \in {"joining", "join_failed"} => engine_rx = <<>>

LEMMA FreshInit == Init => Fresh
BY DEF Init, Fresh

LEMMA FreshStep == IInv /\ Fresh /\ [Next]_vars => Fresh'
<1> SUFFICES ASSUME IInv, Fresh, [Next]_vars PROVE Fresh'
    OBVIOUS
<1>0. TypeOK /\ Control /\ Ownership
    BY DEF IInv
<1>1. ASSUME UNCHANGED <<events, rnew>>,
             \A s \in Sessions : sess'[s] = "unused" => sess[s] = "unused",
             \/ rpc' = rpc /\ (engine_rx = <<>> => engine_rx' = <<>>)
             \/ rpc' = rpc /\ rpc \notin {"joining", "join_failed"}
             \/ /\ rpc' \notin {"joining", "join_failed"}
                /\ rpc \notin {"signal_restarted", "wait_pc"}
             \/ rpc = "signal_restarted" /\ rpc' = "wait_pc"
             \/ rpc = "joining" /\ engine_rx' = engine_rx
      PROVE  Fresh'
    BY <1>1 DEF Fresh
<1>2. CASE Lock \/ GiveUp \/ Announced \/ ConnectErr \/ SignalRestartedAcked
           \/ SyncAcked \/ ResumeErr \/ Tick \/ Recovered \/ CloseReturned
           \/ Finish \/ JoinFail \/ BeginAttempt \/ ResumeOk \/ Resumed
    BY <1>1, <1>2 DEF Lock, GiveUp, Announced, ConnectErr, SignalRestartedAcked,
       SyncAcked, ResumeErr, Tick, Recovered, CloseReturned, Finish, JoinFail,
       BeginAttempt, ResumeOk, Resumed, sessVars, chanVars
<1>3. ASSUME NEW who, TakeTask(who), NEW s \in Sessions, sess'[s] = "unused"
      PROVE  sess[s] = "unused"
    BY <1>0, <1>3 DEF TakeTask, TypeOK
<1>4. CASE TakeOld \/ CloseFailed \/ SpawnedClose \/ \E r \in Reasons : AppClose(r)
  <2>1. \A s \in Sessions : sess'[s] = "unused" => sess[s] = "unused"
    BY <1>3, <1>4 DEF TakeOld, CloseFailed, SpawnedClose, AppClose, BeginClose
  <2> QED
    BY <1>1, <1>4, <2>1 DEF TakeOld, CloseFailed, SpawnedClose, AppClose,
       BeginClose, recVars, chanVars
<1>5. ASSUME NEW s \in Sessions, OldStopped(s) PROVE Fresh'
    BY <1>1, <1>5 DEF OldStopped, chanVars
<1>6. ASSUME NEW s \in Sessions, SessionClosed(s) PROVE Fresh'
    BY <1>0, <1>1, <1>6 DEF SessionClosed, TypeOK, recVars, chanVars
<1>7. ASSUME NEW s \in Sessions, CloseEnd(s) PROVE Fresh'
  <2>1. rpc \notin {"joining", "join_failed"}
    BY <1>0, <1>7 DEF CloseEnd, Control
  <2> QED
    BY <1>1, <1>7, <2>1 DEF CloseEnd, recVars
<1>8. CASE Install
    BY <1>0, <1>8 DEF Install, Fresh
<1>9. CASE WaitPcErr
  <2>1. rnew \in Sessions /\ rnew' = NoSession /\ rpc' = "tick"
        /\ sess' = [sess EXCEPT ![rnew] = "dropped"]
        /\ events' = [events EXCEPT ![rnew] = <<>>]
    BY <1>0, <1>9 DEF WaitPcErr, Control
  <2> QED
    BY <1>0, <2>1 DEF Fresh, TypeOK
<1>10. ASSUME NEW s \in Sessions, ConnectOk(s) \/ Join(s) PROVE Fresh'
  <2>1. \A t \in Sessions : sess'[t] = "unused" => sess[t] = "unused"
    BY <1>0, <1>10 DEF ConnectOk, Join, TypeOK
  <2>2. events' = events /\ rpc' \in {"signal_restarted", "idle"}
        /\ (rpc' = "idle" => UNCHANGED rnew /\ rpc = "joining")
    BY <1>10 DEF ConnectOk, Join
  <2> QED
    BY <2>1, <2>2 DEF Fresh
<1>11. ASSUME NEW s \in Sessions, sess[s] # "unused", NEW q,
              events' = [events EXCEPT ![s] = q],
              UNCHANGED <<sess, rnew>>,
              rpc' = rpc \/ (rpc' = "lock" /\ rpc = "idle"),
              engine_rx' = engine_rx \/ rpc \notin {"joining", "join_failed"}
       PROVE  Fresh'
    BY <1>0, <1>11 DEF Fresh, TypeOK
<1>12. ASSUME NEW s \in Sessions, OnSessionEvent(s) \/ EngineTaskEnds(s)
       PROVE  Fresh'
  <2>1. Listening(s)
    BY <1>12 DEF OnSessionEvent, EngineTaskEnds, Listening
  <2>2. sess[s] # "unused" /\ rpc \notin {"joining", "join_failed"}
    BY <1>0, <2>1 DEF Listening, Ownership, Control
  <2>3. rpc' = rpc \/ (rpc' = "lock" /\ ~reconnecting)
    BY <1>12 DEF OnSessionEvent, OnClose, reconnection_needed, EngineTaskEnds,
       recVars
  <2>4. ~reconnecting => rpc = "idle"
    BY <1>0, <2>2 DEF Control
  <2>5. UNCHANGED <<sess, rnew>> /\ \E q : events' = [events EXCEPT ![s] = q]
    BY <1>12 DEF OnSessionEvent, EngineTaskEnds, recVars
  <2> QED
    BY <1>11, <2>2, <2>3, <2>4, <2>5
<1>13. ASSUME NEW s \in Sessions, NEW a \in Actions, Report(s, a) PROVE Fresh'
    BY <1>11, <1>13 DEF Report, CanReport, recVars, chanVars
<1>14. ASSUME NEW s \in Sessions, NEW e \in Forwarded, Forward(s, e) PROVE Fresh'
    BY <1>11, <1>14 DEF Forward, CanReport, recVars, chanVars
<1>15. CASE SessionStep
    BY <1>13, <1>15 DEF SessionStep, SignalLost, TransportLost, LeaveReceived,
       Actions
<1>16. ASSUME NEW o \in Ops, OpCall(o) \/ OpStart(o) \/ OpEnd(o) PROVE Fresh'
    BY <1>1, <1>16 DEF OpCall, OpStart, OpEnd, sessVars, recVars, chanVars
<1>17. CASE RoomRecv
  <2>1. engine_rx # <<>> /\ UNCHANGED <<events, rnew, rpc, sess>>
    BY <1>17 DEF RoomRecv, RoomTakes, sessVars, recVars
  <2> QED
    BY <1>1, <2>1
<1>18. CASE RoomAck \/ RoomGone
    BY <1>1, <1>18 DEF RoomAck, RoomGone, sessVars, recVars
<1>19. CASE UNCHANGED vars
    BY <1>1, <1>19 DEF vars, sessVars, recVars, chanVars
<1> QED
    BY <1>2, <1>4, <1>5, <1>6, <1>7, <1>8, <1>9, <1>10, <1>12, <1>14, <1>15,
       <1>16, <1>17, <1>18, <1>19
       DEF Next, ReconnectStep, ReconnectLocal, EngineStep, EngineTaskStep,
           CallerStep, UpdateStep, RoomStep

\* Whom the server has said to be here, the room knows once it has handled what
\* engine_task has not yet taken and then what is queued for the room.
ToldKnown ==
    \A p \in told :
        Kept(events[session], p, Kept(engine_rx, p, p \in remote_participants))

\* The same of the session being connected, which starts from its JoinResponse.
ToldAhead == \A p \in told : Kept(events[rnew], p, p \in join_response)

\* No update of the old session is queued behind SignalRestarted ...
NoneBehind ==
    \A i, j \in DOMAIN engine_rx :
        i < j /\ engine_rx[i].type = "SignalRestarted" =>
            ~IsUpdate(engine_rx[j])

\* ... so none is left once the room has created whom the JoinResponse lists.
CaughtUp ==
    /\ \A j \in DOMAIN engine_rx : ~IsUpdate(engine_rx[j])
    /\ join_response \subseteq remote_participants

Connecting == rpc \in {"signal_restarted", "wait_pc"}

\* A session is installed, and no Restarting may be about to remove everybody.
Steady ==
    engine_task # NoSession /\ rpc \notin {"announced_restart", "take"}

Created == ack = "done" \/ rpc = "wait_pc"

PeopleInv ==
    (~closed /\ receiver) =>
        /\ Steady => ToldKnown
        /\ Connecting => ToldAhead /\ NoneBehind /\ (Created => CaughtUp)

\* What a step has to show.
LEMMA PeopleFrom ==
    ASSUME PeopleInv,
           (~closed /\ receiver)' => ~closed /\ receiver,
           (~closed /\ receiver /\ Steady)' => Steady /\ (ToldKnown => ToldKnown'),
           (~closed /\ receiver /\ Connecting)' =>
               /\ Connecting
               /\ ToldAhead => ToldAhead'
               /\ NoneBehind => NoneBehind'
               /\ Created' => Created /\ (CaughtUp => CaughtUp')
    PROVE  PeopleInv'
BY DEF PeopleInv

\* A step that moves neither updates nor people.
LEMMA PeopleQuiet ==
    ASSUME PeopleInv, UNCHANGED <<events, engine_rx, session, rnew, peopleVars>>,
           (~closed /\ receiver)' => ~closed /\ receiver,
           Steady' => Steady,
           Connecting' => Connecting /\ (Created' => Created)
    PROVE  PeopleInv'
<1>1. UNCHANGED <<told, join_response, remote_participants>>
    BY DEF peopleVars
<1>2. /\ ToldKnown => ToldKnown'
      /\ ToldAhead => ToldAhead'
      /\ NoneBehind => NoneBehind'
      /\ CaughtUp => CaughtUp'
    BY <1>1 DEF ToldKnown, ToldAhead, NoneBehind, CaughtUp, Kept
<1> QED
    BY <1>2, PeopleFrom

\* An event that is no update is queued for the room.
LEMMA PeopleQueued ==
    ASSUME TypeOK, NEW e \in EngineEvents, ~IsUpdate(e),
           engine_rx' = Append(engine_rx, e),
           UNCHANGED <<events, session, rnew, peopleVars>>
    PROVE  /\ ToldKnown => ToldKnown'
           /\ ToldAhead => ToldAhead'
           /\ NoneBehind => NoneBehind'
           /\ CaughtUp => CaughtUp'
<1>1. /\ engine_rx \in Seq(EngineEvents)
      /\ UNCHANGED <<told, join_response, remote_participants>>
    BY DEF TypeOK, peopleVars
<1>2. /\ DOMAIN engine_rx = 1..Len(engine_rx) /\ Len(engine_rx) \in Nat
      /\ DOMAIN engine_rx' = 1..(Len(engine_rx) + 1)
      /\ engine_rx'[Len(engine_rx) + 1] = e
      /\ \A i \in 1..Len(engine_rx) : engine_rx'[i] = engine_rx[i]
    BY <1>1
<1>3. ASSUME ToldKnown, NEW p \in told
      PROVE  Kept(events[session], p,
                  Kept(engine_rx', p, p \in remote_participants))
  <2> DEFINE known == p \in remote_participants
  <2>1. known \in BOOLEAN /\ Kept(engine_rx, p, known) \in BOOLEAN
    BY DEF Kept
  <2>2. Kept(engine_rx', p, known) <=> Told(e, p, Kept(engine_rx, p, known))
    BY <1>1, <2>1, KeptAppend
  <2>3. Kept(engine_rx, p, known) => Kept(engine_rx', p, known)
    BY <2>2, ToldQuiet
  <2>4. Kept(events[session], p, Kept(engine_rx, p, known))
    BY <1>3 DEF ToldKnown
  <2> QED
    BY <2>3, <2>4, KeptMonotone
<1>4. ToldKnown => ToldKnown'
    BY <1>1, <1>3 DEF ToldKnown
<1>5. ToldAhead => ToldAhead'
    BY <1>1 DEF ToldAhead
<1>6. NoneBehind => NoneBehind'
    BY <1>2 DEF NoneBehind
<1>7. CaughtUp => CaughtUp'
    BY <1>1, <1>2 DEF CaughtUp
<1> QED
    BY <1>4, <1>5, <1>6, <1>7

\* What a session reports is queued for its engine task.
LEMMA KeptReported ==
    ASSUME TypeOK, NEW s \in Sessions, NEW x \in Sessions,
           NEW e \in SessionEvents, NEW p, NEW known \in BOOLEAN,
           events' = [events EXCEPT ![s] = Append(@, e)]
    PROVE  Kept(events'[x], p, known) <=>
               IF x = s THEN Told(e, p, Kept(events[x], p, known))
                        ELSE Kept(events[x], p, known)
<1>1. events \in [Sessions -> Seq(SessionEvents)]
    BY DEF TypeOK
<1>2. CASE x = s
  <2>1. events[s] \in Seq(SessionEvents) /\ events'[x] = Append(events[s], e)
    BY <1>1, <1>2
  <2> QED
    BY <1>2, <2>1, KeptAppend
<1>3. CASE x # s
    BY <1>1, <1>3
<1> QED
    BY <1>2, <1>3

\* The server says of one who is here, or not: of the session that counts, the
\* promise is kept, whoever is known before.
LEMMA KeptTold ==
    ASSUME TypeOK, NEW s \in Sessions, NEW p \in People, NEW here \in BOOLEAN,
           ServerTells(s, p, here), Latest \in Sessions,
           NEW q \in told', NEW known \in BOOLEAN,
           q \in told => Kept(events[Latest], q, known)
    PROVE  Kept(events'[Latest], q, known)
<1> DEFINE e == [type |-> "ParticipantUpdate", who |-> p, here |-> here]
           x == Latest
<1>1. /\ e \in SessionEvents
      /\ events' = [events EXCEPT ![s] = Append(@, e)]
    BY DEF ServerTells, Forward, SessionEvents, Forwarded
<1>0. x \in Sessions /\ e \in SessionEvents
    BY <1>1
<1> HIDE DEF e, x
<1>2. Kept(events'[x], q, known) <=>
          IF x = s THEN Told(e, q, Kept(events[x], q, known))
                   ELSE Kept(events[x], q, known)
    BY <1>0, <1>1, KeptReported
<1>3. q # p => e # Come(q) /\ e # Leave(q)
  <2>1. e.who = p /\ Come(q).who = q /\ Leave(q).who = q
    BY DEF Come, Leave, e
  <2> QED
    BY <2>1
<1>4. here => e = Come(p)
    BY DEF Come, e
<1>5. ~here /\ x = s => p \notin told'
    BY DEF ServerTells, x
<1>6. q # p \/ x # s => q \in told
    BY DEF ServerTells, x
<1>7. q # p => Told(e, q, Kept(events[x], q, known)) = Kept(events[x], q, known)
    BY <1>3 DEF Told
<1>8. q = p /\ here => Told(e, q, Kept(events[x], q, known))
    BY <1>4 DEF Told
<1>9. q \in told => Kept(events[x], q, known)
    BY DEF x
<1>10. Kept(events'[x], q, known)
    BY <1>2, <1>5, <1>6, <1>7, <1>8, <1>9
<1> QED
    BY <1>10 DEF x

\* A step that only sends an event, or hands on one that is no update.
LEMMA PeopleSends ==
    ASSUME TypeOK, PeopleInv, UNCHANGED <<events, session, rnew, peopleVars>>,
           UNCHANGED <<closed, receiver>>,
           receiver => \E e \in EngineEvents :
                           ~IsUpdate(e) /\ engine_rx' = Append(engine_rx, e),
           Steady' => Steady,
           Connecting' => Connecting /\ (Created' => Created)
    PROVE  PeopleInv'
<1>1. CASE receiver
  <2>1. PICK e \in EngineEvents :
            ~IsUpdate(e) /\ engine_rx' = Append(engine_rx, e)
    BY <1>1
  <2> QED
    BY <2>1, PeopleQueued, PeopleFrom
<1>2. CASE ~receiver
    BY <1>2 DEF PeopleInv
<1> QED
    BY <1>1, <1>2

LEMMA SentIsQuiet ==
    ASSUME NEW type \in AckEvents, SendAndWait(type)
    PROVE  /\ UNCHANGED receiver
           /\ receiver => \E e \in EngineEvents :
                              ~IsUpdate(e) /\ engine_rx' = Append(engine_rx, e)
<1> DEFINE e == [type |-> type, reason |-> "Other"]
<1>1. e \in EngineEvents /\ ~IsUpdate(e)
    BY DEF EngineEvents, Reasons, IsUpdate, AckEvents
<1>2. receiver => engine_rx' = Append(engine_rx, e)
    BY DEF SendAndWait
<1> HIDE DEF e
<1> QED
    BY <1>1, <1>2 DEF SendAndWait

LEMMA PeopleInit == RoomInit => PeopleInv
BY DEF RoomInit, Init, PeopleInv, Steady, Connecting

\* The reconnect task: the new session is installed once the room has caught up.
LEMMA PeopleReconnect ==
    IInv /\ Fresh /\ PeopleInv /\ ReconnectLocal /\ UNCHANGED roomVars => PeopleInv'
<1> SUFFICES ASSUME IInv, Fresh, PeopleInv, ReconnectLocal, UNCHANGED roomVars
             PROVE  PeopleInv'
    OBVIOUS
<1>0. /\ UNCHANGED <<peopleVars, told, join_response, remote_participants>>
      /\ TypeOK /\ Control /\ Ownership
    BY DEF roomVars, peopleVars, IInv
<1> USE DEF Steady, Connecting, Created
<1>1. CASE Lock \/ GiveUp \/ ConnectErr \/ ResumeErr \/ Tick \/ CloseReturned
           \/ Finish
    BY <1>0, <1>1, PeopleQuiet DEF Lock, GiveUp, ConnectErr, ResumeErr, Tick,
       CloseReturned, Finish, handleVars, sessVars, chanVars
<1>2. CASE SyncAcked \/ Recovered \/ SignalRestartedAcked
    BY <1>0, <1>2, PeopleQuiet DEF SyncAcked, Recovered, SignalRestartedAcked,
       Acked, handleVars, sessVars
<1>3. CASE Announced
  <2>1. /\ rpc = "announced_restart" \/ rpc = "announced_resume"
        /\ rpc' \in {"take", "resume"}
        /\ rpc = "announced_restart" => rpc' = "take"
        /\ UNCHANGED <<engine_rx, receiver, handleVars, sessVars, rnew>>
    BY <1>0, <1>3 DEF Announced, Acked, Control
  <2> QED
    BY <1>0, <2>1, PeopleQuiet DEF handleVars, sessVars
<1>4. CASE BeginAttempt
  <2>1. /\ rpc = "loop" /\ UNCHANGED <<handleVars, sessVars, rnew>>
        /\ rpc' \notin {"signal_restarted", "wait_pc"}
    BY <1>4 DEF BeginAttempt
  <2>2. CASE UNCHANGED chanVars
    BY <1>0, <2>1, <2>2, PeopleQuiet DEF handleVars, sessVars, chanVars
  <2>3. CASE \E type \in AckEvents : SendAndWait(type)
    <3>1. PICK type \in AckEvents : SendAndWait(type)
      BY <2>3
    <3> QED
      BY <1>0, <2>1, <3>1, SentIsQuiet, PeopleSends DEF handleVars, sessVars
  <2> QED
    BY <1>4, <2>2, <2>3 DEF BeginAttempt, AckEvents
<1>5. CASE Resumed \/ ResumeOk
  <2>1. PICK type \in AckEvents : SendAndWait(type)
    BY <1>5 DEF Resumed, ResumeOk, AckEvents
  <2>2. /\ rpc \in {"wait_resume", "resume"} /\ rpc' \in {"recovered", "sync"}
        /\ UNCHANGED <<events, session, closed, engine_task, rnew>>
    BY <1>5 DEF Resumed, ResumeOk, handleVars
  <2> QED
    BY <1>0, <2>1, <2>2, SentIsQuiet, PeopleSends
<1>6. CASE WaitPcErr \/ TakeOld
  <2>1. engine_task' = NoSession /\ rpc' \in {"tick", "connect", "stop_old"}
    BY <1>0, <1>6 DEF WaitPcErr, TakeOld, TakeTask, handleVars, Ownership
  <2> QED
    BY <2>1 DEF PeopleInv
<1>7. ASSUME NEW s \in Sessions, OldStopped(s) PROVE PeopleInv'
    BY <1>0, <1>7, PeopleQuiet DEF OldStopped, handleVars, chanVars
<1>8. CASE CloseFailed
    BY <1>8 DEF CloseFailed, BeginClose, PeopleInv
<1>9. CASE Install
  <2>1. /\ rpc = "wait_pc" /\ rpc' = "recovered"
        /\ session' = rnew /\ UNCHANGED <<events, closed>>
        /\ SendAndWait("Restarted") /\ "Restarted" \in AckEvents
    BY <1>9 DEF Install, AckEvents
  <2> SUFFICES ASSUME ~closed, receiver PROVE ToldKnown'
    BY <2>1 DEF PeopleInv, SendAndWait
  <2>2. ToldAhead /\ CaughtUp
    BY <2>1 DEF PeopleInv
  <2>3. PICK e \in EngineEvents :
            ~IsUpdate(e) /\ engine_rx' = Append(engine_rx, e)
    BY <2>1, SentIsQuiet
  <2>4. \A j \in DOMAIN engine_rx' : ~IsUpdate(engine_rx'[j])
    <3>1. engine_rx \in Seq(EngineEvents)
      BY <1>0 DEF TypeOK
    <3>2. /\ DOMAIN engine_rx = 1..Len(engine_rx) /\ Len(engine_rx) \in Nat
          /\ DOMAIN engine_rx' = 1..(Len(engine_rx) + 1)
          /\ engine_rx'[Len(engine_rx) + 1] = e
          /\ \A i \in 1..Len(engine_rx) : engine_rx'[i] = engine_rx[i]
      BY <2>3, <3>1
    <3> QED
      BY <2>2, <2>3, <3>2 DEF CaughtUp
  <2>5. ASSUME NEW p \in told
        PROVE  Kept(events[rnew], p,
                    Kept(engine_rx', p, p \in remote_participants))
    <3>1. Kept(engine_rx', p, p \in remote_participants) <=>
              p \in remote_participants
      <4>1. (p \in remote_participants) \in BOOLEAN
        OBVIOUS
      <4> DEFINE q == engine_rx'
      <4>2. \A j \in DOMAIN q : ~IsUpdate(q[j])
        BY <2>4
      <4> HIDE DEF q
      <4>3. Kept(q, p, p \in remote_participants) <=> p \in remote_participants
        BY <4>1, <4>2, KeptQuiet
      <4> QED
        BY <4>3 DEF q
    <3>2. p \in join_response =>
              Kept(engine_rx', p, p \in remote_participants)
      BY <2>2, <3>1 DEF CaughtUp
    <3>3. Kept(events[rnew], p, p \in join_response)
      BY <2>2 DEF ToldAhead
    <3> QED
      BY <3>2, <3>3, KeptMonotone
  <2> QED
    BY <1>0, <2>1, <2>5 DEF ToldKnown
<1> QED
    BY <1>1, <1>2, <1>3, <1>4, <1>5, <1>6, <1>7, <1>8, <1>9 DEF ReconnectLocal

\* The engine tasks: an update moves from one channel to the next, and only from
\* the session that is installed.
LEMMA PeopleTasks ==
    IInv /\ PeopleInv /\ EngineStep /\ UNCHANGED roomVars => PeopleInv'
<1> SUFFICES ASSUME IInv, PeopleInv, EngineStep, UNCHANGED roomVars
             PROVE  PeopleInv'
    OBVIOUS
<1>0. /\ UNCHANGED <<peopleVars, told, join_response, remote_participants>>
      /\ TypeOK /\ Control /\ Ownership
    BY DEF roomVars, peopleVars, IInv
<1> USE DEF Steady, Connecting, Created
<1>1. CASE SpawnedClose
    BY <1>1 DEF SpawnedClose, BeginClose, PeopleInv
<1>2. ASSUME NEW s \in Sessions, SessionClosed(s) PROVE PeopleInv'
    BY <1>0, <1>2, PeopleQuiet DEF SessionClosed, handleVars, recVars, chanVars
<1>3. ASSUME NEW s \in Sessions, CloseEnd(s) PROVE PeopleInv'
  <2> DEFINE e == [type |-> "Disconnected", reason |-> stopper[s]]
  <2>1. e \in EngineEvents /\ ~IsUpdate(e)
    BY <1>3 DEF CloseEnd, EngineEvents, IsUpdate
  <2>2. receiver => engine_rx' = Append(engine_rx, e)
    BY <1>3 DEF CloseEnd, HandOn
  <2>3. UNCHANGED <<events, handleVars, recVars, receiver, ack>>
    BY <1>3 DEF CloseEnd, HandOn
  <2> HIDE DEF e
  <2> QED
    BY <1>0, <2>1, <2>2, <2>3, PeopleSends DEF handleVars, recVars
<1>4. ASSUME NEW s \in Sessions, Listening(s), ~closed
      PROVE  /\ s = session /\ ~Connecting
             /\ Steady => task[s] = "running"
    BY <1>0, <1>4, SessionsAssumption DEF Ownership
<1>5. ASSUME NEW s \in Sessions, EngineTaskEnds(s) PROVE PeopleInv'
  <2>1. Listening(s) /\ task[s] # "running" /\ UNCHANGED <<handleVars, recVars>>
    BY <1>5 DEF EngineTaskEnds, Listening
  <2>2. ~closed => ~Steady' /\ ~Connecting'
    BY <1>4, <2>1 DEF handleVars, recVars
  <2> QED
    BY <2>1, <2>2 DEF PeopleInv, handleVars
<1>6. ASSUME NEW s \in Sessions, OnSessionEvent(s) PROVE PeopleInv'
  <2> DEFINE e == Head(events[s])
             rest == Tail(events[s])
  <2>1. /\ UNCHANGED <<closed, receiver, session, engine_task>>
        /\ rpc' = rpc \/ (rpc' = "lock" /\ ~reconnecting)
    BY <1>6 DEF OnSessionEvent, OnClose, reconnection_needed, chanVars, HandOn
  <2>2. ~reconnecting => rpc \notin {"announced_restart", "take"}
    BY <1>0 DEF Control
  <2> SUFFICES ASSUME ~closed, receiver, Steady PROVE ToldKnown => ToldKnown'
    <3>1. Listening(s)
      BY <1>6 DEF OnSessionEvent
    <3>2. ~closed => ~Connecting'
      BY <1>4, <2>1, <3>1
    <3> QED
      BY <2>1, <2>2, <3>2, PeopleFrom
  <2>3. s = session
    BY <1>4, <1>6 DEF OnSessionEvent
  <2>4. events[s] \in Seq(SessionEvents) /\ events[s] # <<>>
        /\ events'[s] = rest
    BY <1>0, <1>6 DEF OnSessionEvent, TypeOK
  <2>5. ASSUME NEW p, NEW known \in BOOLEAN
        PROVE  Kept(events[s], p, known) <=> Kept(rest, p, Told(e, p, known))
    BY <2>4, KeptTail
  <2>6. CASE e.type = "Close" /\ UNCHANGED chanVars
    <3> SUFFICES ASSUME NEW p \in told,
                        Kept(events[s], p, Kept(engine_rx, p,
                                                p \in remote_participants))
                 PROVE  Kept(rest, p, Kept(engine_rx, p,
                                           p \in remote_participants))
      BY <1>0, <2>1, <2>3, <2>4, <2>6 DEF ToldKnown, chanVars
    <3> DEFINE known == Kept(engine_rx, p, p \in remote_participants)
    <3>1. known \in BOOLEAN
      BY DEF Kept
    <3>2. Told(e, p, known) = known
      BY <2>6, ToldQuiet DEF IsUpdate
    <3> HIDE DEF known, e, rest
    <3>3. Kept(events[s], p, known) => Kept(rest, p, known)
      BY <2>5, <3>1, <3>2
    <3> QED
      BY <3>3 DEF known
  <2>7. CASE e \in Forwarded /\ HandOn(e)
    <3>1. engine_rx' = Append(engine_rx, e) /\ e \in EngineEvents
          /\ engine_rx \in Seq(EngineEvents)
      BY <1>0, <2>7 DEF HandOn, EngineEvents, TypeOK
    <3> SUFFICES ASSUME NEW p \in told,
                        Kept(events[s], p, Kept(engine_rx, p,
                                                p \in remote_participants))
                 PROVE  Kept(rest, p, Kept(engine_rx', p,
                                           p \in remote_participants))
      BY <1>0, <2>1, <2>3, <2>4 DEF ToldKnown
    <3> DEFINE here == p \in remote_participants
               known == Kept(engine_rx, p, here)
               more == Kept(engine_rx', p, here)
    <3>2. known \in BOOLEAN /\ here \in BOOLEAN /\ more \in BOOLEAN
      BY DEF Kept
    <3>3. more <=> Told(e, p, known)
      BY <3>1, <3>2, KeptAppend
    <3> HIDE DEF known, more, e, rest
    <3>4. Kept(events[s], p, known) => Kept(rest, p, Told(e, p, known))
      BY <2>5, <3>2
    <3>5. Kept(events[s], p, known) => Kept(rest, p, more)
      BY <3>3, <3>4, KeptMonotone
    <3> QED
      BY <3>5 DEF known, more
  <2> QED
    BY <1>6, <2>6, <2>7 DEF OnSessionEvent
<1> QED
    BY <1>1, <1>2, <1>3, <1>5, <1>6 DEF EngineStep, EngineTaskStep

\* The room takes an event that is no update, and that changes nobody.
LEMMA PeopleTakes ==
    ASSUME TypeOK, AckInv, PeopleInv, NEW answered \in BOOLEAN,
           RoomTakes(answered), UNCHANGED peopleVars,
           ~IsUpdate(Head(engine_rx)), Head(engine_rx).type # "SignalRestarted"
    PROVE  PeopleInv'
<1>1. /\ engine_rx # <<>> /\ engine_rx' = Tail(engine_rx)
      /\ engine_rx \in Seq(EngineEvents)
      /\ UNCHANGED <<closed, receiver, engine_task, session, events, rpc, rnew,
                     told, join_response, remote_participants>>
    BY DEF RoomTakes, handleVars, sessVars, recVars, peopleVars, TypeOK
<1>2. Connecting => ack' = ack
  <2>1. Head(engine_rx).type \in AckEvents => Awaits(rpc, Head(engine_rx).type)
    BY <1>1, Taken
  <2> QED
    BY <2>1 DEF RoomTakes, Connecting, Awaits
<1>3. ToldKnown => ToldKnown'
  <2> SUFFICES ASSUME NEW p \in told,
                      Kept(events[session], p,
                           Kept(engine_rx, p, p \in remote_participants))
               PROVE  Kept(events[session], p,
                           Kept(engine_rx', p, p \in remote_participants))
    BY <1>1 DEF ToldKnown
  <2> DEFINE known == p \in remote_participants
  <2>1. known \in BOOLEAN
    OBVIOUS
  <2>2. Told(Head(engine_rx), p, known) = known
    BY ToldQuiet
  <2> HIDE DEF known
  <2>3. Kept(engine_rx, p, known) => Kept(engine_rx', p, known)
    BY <1>1, <2>1, <2>2, KeptTail
  <2> QED
    BY <2>3, KeptMonotone DEF known
<1>4. ToldAhead => ToldAhead'
    BY <1>1 DEF ToldAhead
<1>5. /\ DOMAIN engine_rx = 1..Len(engine_rx) /\ Len(engine_rx) \in Nat \ {0}
      /\ DOMAIN engine_rx' = 1..(Len(engine_rx) - 1)
      /\ \A i \in 1..(Len(engine_rx) - 1) : engine_rx'[i] = engine_rx[i + 1]
    BY <1>1
<1>6. \A i \in DOMAIN engine_rx' :
          i + 1 \in DOMAIN engine_rx /\ engine_rx[i + 1] = engine_rx'[i]
    BY <1>5
<1>7. NoneBehind => NoneBehind'
  <2>1. \A i, j \in DOMAIN engine_rx' : i < j => i + 1 < j + 1
    BY <1>5
  <2> QED
    BY <1>6, <2>1 DEF NoneBehind
<1>8. CaughtUp => CaughtUp'
    BY <1>1, <1>6 DEF CaughtUp
<1> QED
    BY <1>1, <1>2, <1>3, <1>4, <1>7, <1>8, PeopleFrom
       DEF Steady, Connecting, Created

\* Everybody is removed only before the old session is stopped, and the room
\* answers SignalRestarted once it has created those of the JoinResponse.
LEMMA PeopleRoom == IInv /\ AckInv /\ PeopleInv /\ RoomTaskStep => PeopleInv'
<1> SUFFICES ASSUME IInv, AckInv, PeopleInv, RoomTaskStep PROVE PeopleInv'
    OBVIOUS
<1>0. TypeOK /\ Control /\ Ownership
    BY DEF IInv
<1>1. ASSUME NEW answered \in BOOLEAN, RoomTakes(answered)
      PROVE  /\ engine_rx # <<>> /\ engine_rx' = Tail(engine_rx)
             /\ engine_rx \in Seq(EngineEvents)
             /\ UNCHANGED <<closed, receiver, engine_task, session, events, rpc,
                            rnew>>
             /\ Head(engine_rx).type \in AckEvents =>
                    Awaits(rpc, Head(engine_rx).type)
    BY <1>0, <1>1, Taken DEF RoomTakes, handleVars, sessVars, recVars, TypeOK
<1>2. CASE handle_restarting
  <2>1. RoomTakes(TRUE) /\ Head(engine_rx).type = "Restarting"
    BY <1>2 DEF handle_restarting, Incoming
  <2>2. rpc = "announced_restart" /\ rpc' = rpc
    BY <1>1, <2>1 DEF AckEvents, Awaits
  <2> QED
    BY <2>2 DEF PeopleInv, Steady, Connecting
<1>3. CASE handle_signal_restarted
  <2>1. /\ RoomTakes(TRUE) /\ Head(engine_rx).type = "SignalRestarted"
        /\ remote_participants' = remote_participants \cup join_response
        /\ UNCHANGED <<told, join_response>>
    BY <1>3 DEF handle_signal_restarted, Incoming
  <2>2. rpc = "signal_restarted" /\ rpc' = rpc
    BY <1>1, <2>1 DEF AckEvents, Awaits
  <2>3. engine_task' = NoSession /\ ToldAhead' = ToldAhead
    BY <1>0, <1>1, <2>1, <2>2 DEF Ownership, ToldAhead
  <2>9. /\ engine_rx # <<>> /\ engine_rx' = Tail(engine_rx)
        /\ engine_rx \in Seq(EngineEvents)
    BY <1>1, <2>1
  <2>4. /\ DOMAIN engine_rx = 1..Len(engine_rx)
        /\ Len(engine_rx) \in Nat \ {0}
        /\ DOMAIN engine_rx' = 1..(Len(engine_rx) - 1)
        /\ Head(engine_rx) = engine_rx[1]
        /\ \A i \in 1..(Len(engine_rx) - 1) : engine_rx'[i] = engine_rx[i + 1]
    BY <2>9
  <2>5. \A i \in DOMAIN engine_rx' : /\ i + 1 \in DOMAIN engine_rx
                                     /\ 1 < i + 1
                                     /\ engine_rx[i + 1] = engine_rx'[i]
    BY <2>4
  <2>6. 1 \in DOMAIN engine_rx
    BY <2>4
  <2>7. NoneBehind => \A j \in DOMAIN engine_rx' : ~IsUpdate(engine_rx'[j])
    BY <2>1, <2>4, <2>5, <2>6 DEF NoneBehind
  <2>8. NoneBehind => NoneBehind' /\ CaughtUp'
    BY <2>1, <2>7 DEF NoneBehind, CaughtUp
  <2> QED
    BY <1>1, <2>1, <2>2, <2>3, <2>8 DEF PeopleInv, Steady, Connecting
<1>4. CASE handle_participant_update
  <2> DEFINE e == Head(engine_rx)
  <2>1. /\ RoomTakes(TRUE) /\ e.type = "ParticipantUpdate"
        /\ remote_participants' = IF e.here
                                  THEN remote_participants \cup {e.who}
                                  ELSE remote_participants \ {e.who}
        /\ UNCHANGED <<told, join_response>>
    BY <1>4 DEF handle_participant_update, Incoming
  <2>10. /\ engine_rx # <<>> /\ engine_rx' = Tail(engine_rx)
         /\ engine_rx \in Seq(EngineEvents)
    BY <1>1, <2>1
  <2>11. /\ DOMAIN engine_rx = 1..Len(engine_rx)
         /\ Len(engine_rx) \in Nat \ {0}
         /\ DOMAIN engine_rx' = 1..(Len(engine_rx) - 1)
         /\ e = engine_rx[1] /\ e \in EngineEvents
         /\ \A i \in 1..(Len(engine_rx) - 1) : engine_rx'[i] = engine_rx[i + 1]
    BY <2>10
  <2>2. e \in Forwarded
    <3>1. e \in EngineEvents
      BY <2>11
    <3> HIDE DEF e
    <3> QED
      BY <2>1, <3>1 DEF EngineEvents, AckEvents
  <2>3. ASSUME NEW p
        PROVE  Told(e, p, p \in remote_participants) <=>
                   p \in remote_participants'
    <3>1. e = [type |-> "ParticipantUpdate", who |-> e.who, here |-> e.here]
          /\ e.here \in BOOLEAN
      BY <2>2 DEF Forwarded
    <3> HIDE DEF e
    <3>2. e = Come(p) <=> e.here /\ e.who = p
      BY <3>1 DEF Come
    <3>3. e = Leave(p) <=> ~e.here /\ e.who = p
      BY <3>1 DEF Leave
    <3> QED
      BY <2>1, <3>2, <3>3 DEF Told
  <2>4. ToldKnown => ToldKnown'
    <3> SUFFICES ASSUME NEW p \in told,
                        Kept(events[session], p,
                             Kept(engine_rx, p, p \in remote_participants))
                 PROVE  Kept(events[session], p,
                             Kept(engine_rx', p, p \in remote_participants'))
      BY <1>1, <2>1 DEF ToldKnown
    <3> DEFINE known == p \in remote_participants
               more == p \in remote_participants'
    <3>1. known \in BOOLEAN /\ (Told(e, p, known) <=> more)
      BY <2>3
    <3> HIDE DEF known, more
    <3>2. Kept(engine_rx, p, known) => Kept(engine_rx', p, Told(e, p, known))
      BY <1>1, <2>1, <3>1, KeptTail
    <3>3. Kept(engine_rx, p, known) => Kept(engine_rx', p, more)
      BY <3>1, <3>2, KeptMonotone
    <3> QED
      BY <3>3, KeptMonotone DEF known, more
  <2>5. engine_rx[1] = e /\ 1 \in DOMAIN engine_rx
    BY <2>11
  <2>6. ~CaughtUp
    BY <2>1, <2>5 DEF CaughtUp, IsUpdate
  <2>7. ToldAhead => ToldAhead'
    BY <1>1, <2>1 DEF ToldAhead
  <2>8. NoneBehind => NoneBehind'
    <3>1. \A i \in DOMAIN engine_rx' :
              i + 1 \in DOMAIN engine_rx /\ engine_rx[i + 1] = engine_rx'[i]
      BY <2>11
    <3>2. \A i, j \in DOMAIN engine_rx' : i < j => i + 1 < j + 1
      BY <2>11
    <3> QED
      BY <3>1, <3>2 DEF NoneBehind
  <2>9. ack' = ack
    BY <2>1 DEF RoomTakes, AckEvents
  <2> QED
    BY <1>1, <2>1, <2>4, <2>6, <2>7, <2>8, <2>9, PeopleFrom
       DEF Steady, Connecting, Created
<1>5. CASE handle_resuming \/ handle_signal_resumed \/ handle_resumed
           \/ handle_restarted \/ handle_disconnected
  <2>1. /\ RoomTakes(TRUE) \/ RoomTakes(FALSE)
        /\ Head(engine_rx).type # "SignalRestarted"
        /\ ~IsUpdate(Head(engine_rx))
        /\ UNCHANGED peopleVars
    BY <1>5 DEF handle_resuming, handle_signal_resumed, handle_resumed,
       handle_restarted, handle_disconnected, Incoming, IsUpdate
  <2> QED
    BY <1>0, <2>1, PeopleTakes
<1>6. CASE send_sync_state
  <2>1. rpc = "sync" /\ UNCHANGED <<handleVars, sessVars, recVars, engine_rx,
                                    receiver, peopleVars>>
    BY <1>6 DEF send_sync_state, RoomAck, AckInv
  <2> QED
    BY <2>1, PeopleQuiet
       DEF handleVars, sessVars, recVars, Steady, Connecting, Created
<1>7. CASE Republished \/ SpawnedRoomClose \/ RoomCloseSent
           \/ RoomTasksJoined \/ RoomClosed
    BY <1>7, PeopleQuiet DEF Republished, SpawnedRoomClose, RoomCloseSent,
       RoomTasksJoined, RoomClosed, vars, handleVars, sessVars, recVars,
       chanVars, Steady, Connecting, Created
<1>8. CASE RoomCloseEngine
    BY <1>8 DEF RoomCloseEngine, AppClose, BeginClose, PeopleInv
<1>9. CASE RoomTaskEnds
    BY <1>9 DEF RoomTaskEnds, RoomGone, PeopleInv
<1> QED
    BY <1>2, <1>3, <1>4, <1>5, <1>6, <1>7, <1>8, <1>9
       DEF RoomTaskStep, RoomHandler, RoomCloseStep

\* A session reports a loss, or the server's wish.
LEMMA PeopleReports ==
    ASSUME TypeOK, PeopleInv, UNCHANGED roomVars,
           NEW s \in Sessions, NEW a \in Actions, Report(s, a),
           Steady => session \in Sessions,
           Connecting => rnew \in Sessions
    PROVE  PeopleInv'
<1> DEFINE e == [type |-> "Close", action |-> a]
<1>1. /\ e \in SessionEvents /\ ~IsUpdate(e)
      /\ events' = [events EXCEPT ![s] = Append(@, e)]
    BY DEF Report, SessionEvents, IsUpdate
<1>2. UNCHANGED <<engine_rx, receiver, ack, closed, session, engine_task, rpc,
                  rnew, told, join_response, remote_participants>>
    BY DEF Report, handleVars, recVars, chanVars, roomVars, peopleVars
<1> HIDE DEF e
<1>3. ASSUME NEW x \in Sessions, NEW p, NEW known \in BOOLEAN
      PROVE  Kept(events'[x], p, known) <=> Kept(events[x], p, known)
  <2>1. Told(e, p, Kept(events[x], p, known)) = Kept(events[x], p, known)
    BY <1>1, ToldQuiet
  <2>2. Kept(events'[x], p, known) <=>
            IF x = s THEN Told(e, p, Kept(events[x], p, known))
                     ELSE Kept(events[x], p, known)
    BY <1>1, <1>3, KeptReported
  <2> QED
    BY <2>1, <2>2
<1>4. session \in Sessions => (ToldKnown => ToldKnown')
  <2>1. \A p : Kept(engine_rx, p, p \in remote_participants) \in BOOLEAN
    BY DEF Kept
  <2>2. session \in Sessions =>
            \A p : Kept(events'[session], p,
                        Kept(engine_rx, p, p \in remote_participants)) <=>
                   Kept(events[session], p,
                        Kept(engine_rx, p, p \in remote_participants))
    BY <1>3, <2>1
  <2> QED
    BY <1>2, <2>2 DEF ToldKnown
<1>5. rnew \in Sessions => (ToldAhead => ToldAhead')
  <2>1. \A p : (p \in join_response) \in BOOLEAN
    OBVIOUS
  <2>2. rnew \in Sessions =>
            \A p : Kept(events'[rnew], p, p \in join_response) <=>
                   Kept(events[rnew], p, p \in join_response)
    BY <1>3, <2>1
  <2> QED
    BY <1>2, <2>2 DEF ToldAhead
<1>6. (NoneBehind => NoneBehind') /\ (CaughtUp => CaughtUp')
    BY <1>2 DEF NoneBehind, CaughtUp
<1> QED
    BY <1>2, <1>4, <1>5, <1>6, PeopleFrom DEF Steady, Connecting, Created

\* The server says of one who is here, or not.
LEMMA PeopleTold ==
    ASSUME IInv, Fresh, PeopleInv, NEW s \in Sessions, NEW p \in People,
           NEW here \in BOOLEAN, ServerTells(s, p, here)
    PROVE  PeopleInv'
<1>0. TypeOK /\ Control /\ Ownership
    BY DEF IInv
<1>1. UNCHANGED <<engine_rx, receiver, ack, closed, session, engine_task, rpc,
                  rnew, join_response, remote_participants>>
    BY DEF ServerTells, Forward, handleVars, recVars, chanVars
<1>2. Steady => Latest = session /\ Latest \in Sessions
    BY <1>0, SessionsAssumption
       DEF Steady, Ownership, Control, Fresh, Latest, TypeOK
<1>3. Connecting => Latest = rnew /\ Latest \in Sessions
    BY <1>0, SessionsAssumption DEF Connecting, Control, Latest
<1>4. Steady => (ToldKnown => ToldKnown')
  <2> SUFFICES ASSUME Steady, ToldKnown, NEW q \in told'
               PROVE  Kept(events'[session], q,
                           Kept(engine_rx, q, q \in remote_participants))
    BY <1>1 DEF ToldKnown
  <2> DEFINE known == Kept(engine_rx, q, q \in remote_participants)
  <2>1. known \in BOOLEAN
    BY DEF Kept
  <2>2. q \in told => Kept(events[Latest], q, known)
    BY <1>2 DEF ToldKnown
  <2> HIDE DEF known
  <2>3. Kept(events'[Latest], q, known)
    BY <1>0, <1>2, <2>1, <2>2, KeptTold
  <2> QED
    BY <1>2, <2>3 DEF known
<1>5. Connecting => (ToldAhead => ToldAhead')
  <2> SUFFICES ASSUME Connecting, ToldAhead, NEW q \in told'
               PROVE  Kept(events'[rnew], q, q \in join_response)
    BY <1>1 DEF ToldAhead
  <2> DEFINE known == q \in join_response
  <2>1. known \in BOOLEAN
    OBVIOUS
  <2>2. q \in told => Kept(events[Latest], q, known)
    BY <1>3 DEF ToldAhead
  <2> HIDE DEF known
  <2>3. Kept(events'[Latest], q, known)
    BY <1>0, <1>3, <2>1, <2>2, KeptTold
  <2> QED
    BY <1>3, <2>3 DEF known
<1>6. (NoneBehind => NoneBehind') /\ (CaughtUp => CaughtUp')
    BY <1>1 DEF NoneBehind, CaughtUp
<1> QED
    BY <1>1, <1>4, <1>5, <1>6, PeopleFrom DEF Steady, Connecting, Created

\* A JoinResponse says anew who is here.
LEMMA PeopleJoins ==
    ASSUME IInv, Fresh, AckInv, PeopleInv, NEW s \in Sessions,
           RoomConnect(s) \/ RoomConnectOk(s)
    PROVE  PeopleInv'
<1>0. TypeOK /\ Control /\ Ownership
    BY DEF IInv
<1>1. JoinResponse /\ told' = join_response'
    BY DEF RoomConnect, RoomConnectOk, JoinResponse
<1>2. events[s] = <<>> /\ events' = events
    BY DEF RoomConnect, RoomConnectOk, Join, ConnectOk, Fresh
<1>3. ASSUME NEW p \in join_response', NEW known, known
      PROVE  Kept(<<>>, p, known)
    BY <1>3 DEF Kept
<1>4. CASE RoomConnect(s)
  <2>1. /\ engine_rx = <<>> /\ engine_rx' = <<>> /\ session' = s /\ rpc' = "idle"
        /\ remote_participants' = join_response'
    BY <1>4 DEF RoomConnect, Join, chanVars, Fresh
  <2>2. ToldKnown'
    BY <1>1, <1>2, <1>3, <2>1 DEF ToldKnown
  <2> QED
    BY <2>1, <2>2 DEF PeopleInv, Connecting
<1>5. CASE RoomConnectOk(s)
  <2>1. /\ rpc = "connect" /\ rpc' = "signal_restarted" /\ rnew' = s
        /\ SendAndWait("SignalRestarted") /\ "SignalRestarted" \in AckEvents
        /\ UNCHANGED <<engine_task, closed>>
    BY <1>5 DEF RoomConnectOk, ConnectOk, handleVars, AckEvents
  <2>2. engine_task' = NoSession
    BY <1>0, <2>1 DEF Ownership
  <2>3. ToldAhead'
    BY <1>1, <1>2, <1>3, <2>1 DEF ToldAhead
  <2>4. receiver => ack' = "pending" /\ NoneBehind'
    <3> SUFFICES ASSUME receiver PROVE ack' = "pending" /\ NoneBehind'
      OBVIOUS
    <3>1. ~AckQueued
      BY <2>1 DEF AckInv, AckPoints
    <3>2. /\ engine_rx \in Seq(EngineEvents) /\ ack' = "pending"
          /\ engine_rx' = Append(engine_rx, [type |-> "SignalRestarted",
                                             reason |-> "Other"])
      BY <1>0, <2>1 DEF SendAndWait, TypeOK
    <3>3. /\ DOMAIN engine_rx = 1..Len(engine_rx) /\ Len(engine_rx) \in Nat
          /\ DOMAIN engine_rx' = 1..(Len(engine_rx) + 1)
          /\ \A i \in 1..Len(engine_rx) : engine_rx'[i] = engine_rx[i]
      BY <3>2
    <3>4. \A i \in DOMAIN engine_rx' : engine_rx'[i].type = "SignalRestarted" =>
              i = Len(engine_rx) + 1
      BY <2>1, <3>1, <3>3 DEF AckQueued
    <3>5. \A j \in DOMAIN engine_rx' : ~(Len(engine_rx) + 1 < j)
      BY <3>3
    <3> QED
      BY <3>2, <3>4, <3>5 DEF NoneBehind
  <2> QED
    BY <2>1, <2>2, <2>3, <2>4 DEF PeopleInv, Steady, Created, SendAndWait
<1> QED
    BY <1>4, <1>5

LEMMA PeopleStep ==
    IInv /\ Fresh /\ AckInv /\ PeopleInv /\ [RoomNext]_allVars => PeopleInv'
<1> SUFFICES ASSUME IInv, Fresh, AckInv, PeopleInv, [RoomNext]_allVars
             PROVE  PeopleInv'
    OBVIOUS
<1>0. TypeOK /\ Control /\ Ownership
    BY DEF IInv
<1>1. CASE RoomTaskStep
    BY <1>1, PeopleRoom
<1>2. ASSUME UNCHANGED roomVars, NEW s \in Sessions, NEW a \in Actions,
             Report(s, a)
      PROVE  PeopleInv'
  <2>1. Steady => session \in Sessions
    BY <1>0, SessionsAssumption DEF Steady, Ownership, TypeOK
  <2>2. Connecting => rnew \in Sessions
    BY <1>0 DEF Connecting, Control
  <2> QED
    BY <1>0, <1>2, <2>1, <2>2, PeopleReports
<1>3. CASE SessionStep /\ UNCHANGED roomVars
    BY <1>2, <1>3 DEF SessionStep, SignalLost, TransportLost, LeaveReceived,
       Actions
<1>4. CASE UNCHANGED roomVars
           /\ (JoinFail \/ \E o \in Ops : OpCall(o) \/ OpStart(o) \/ OpEnd(o))
    BY <1>4, PeopleQuiet DEF JoinFail, OpCall, OpStart, OpEnd, handleVars,
       sessVars, recVars, chanVars, roomVars, Steady, Connecting, Created
<1>5. CASE EngineOnly
    BY <1>3, <1>4, <1>5, PeopleReconnect, PeopleTasks DEF EngineOnly
<1>6. ASSUME NEW r \in Reasons, RoomClose(r) PROVE PeopleInv'
    BY <1>6, PeopleQuiet DEF RoomClose, vars, handleVars, sessVars, recVars,
       chanVars, Steady, Connecting, Created
<1>7. CASE UNCHANGED allVars
    BY <1>7, PeopleQuiet DEF allVars, vars, handleVars, sessVars, recVars,
       chanVars, roomVars, Steady, Connecting, Created
<1> QED
    BY <1>1, <1>5, <1>6, <1>7, PeopleJoins, PeopleTold DEF RoomNext

\* Nobody goes missing in a reconnection: a room whose engine has no reconnection
\* under way, and whose events are handled, knows everybody of whom the server
\* said last that it is here.  handle_restarting removes them all, updates of
\* the old session and of the new one cross two queues, and the JoinResponse
\* takes a third way.  None is lost, because the old engine task has ended before
\* the new session joins, so that none of its updates is queued behind
\* SignalRestarted, and because the new session is installed, and its updates
\* taken, only after the room has created whom the JoinResponse lists.
THEOREM NobodyGoesMissing == RoomSafe => []NobodyMissing
<1>1. IInv => TypeOK /\ Control
    BY DEF IInv
<1>2. IInv /\ PeopleInv => NobodyMissing
  <2> SUFFICES ASSUME IInv, PeopleInv, rpc = "idle", ~closed, receiver,
                      engine_rx = <<>>,
                      \A i \in DOMAIN events[session] :
                          events[session][i] \notin Forwarded,
                      NEW p \in told
               PROVE  p \in remote_participants
    BY DEF NobodyMissing
  <2>1. engine_task # NoSession /\ session \in Sessions
    BY SessionsAssumption DEF IInv, Ownership, KeepsSession
  <2>2. Kept(events[session], p, Kept(engine_rx, p, p \in remote_participants))
    BY <2>1 DEF PeopleInv, Steady, ToldKnown
  <2>3. events[session] \in Seq(SessionEvents)
    BY <2>1 DEF IInv, TypeOK
  <2>4. \A i \in DOMAIN events[session] : ~IsUpdate(events[session][i])
    BY <2>3 DEF IsUpdate, SessionEvents
  <2>5. Kept(engine_rx, p, p \in remote_participants) \in BOOLEAN
    BY DEF Kept
  <2>6. Kept(engine_rx, p, p \in remote_participants)
    BY <2>2, <2>4, <2>5, KeptQuiet
  <2> QED
    BY <2>6 DEF Kept
<1>3. RoomSafe => []IInv
    BY RoomImplementsEngine, Invariance, PTL DEF ImplementsEngine
<1>4. RoomSafe => []AckInv
    BY <1>1, <1>3, AckInit, AckStep, PTL DEF RoomSafe
<1>5. Safe => []Fresh
    BY Invariance, FreshInit, FreshStep, PTL DEF Safe
<1>6. RoomSafe => []Fresh
    BY <1>5, RoomImplementsEngine, PTL DEF ImplementsEngine
<1> QED
    BY <1>2, <1>3, <1>4, <1>6, PeopleInit, PeopleStep, PTL DEF RoomSafe

=============================================================================
