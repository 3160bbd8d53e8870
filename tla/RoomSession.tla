----------------------------- MODULE RoomSession -----------------------------
(***************************************************************************)
(* The room on top of the engine: the reconnection handlers, the           *)
(* connection state and Room::close of livekit/src/room/mod.rs, composed   *)
(* with RtcEngine.  The room is the receiver of the engine's events; its   *)
(* handlers run one at a time in room_task, but some spawn a task that     *)
(* outlives the handler (send_sync_state, the republishing of tracks,      *)
(* close after a server disconnect).                                       *)
(***************************************************************************)
EXTENDS RtcEngine

VARIABLES
    state,               \* RoomInfo::state, the ConnectionState
    syncing,             \* a spawned send_sync_state has not answered yet
    synced,              \* what send_sync_state did since SignalResumed
    republishing,        \* spawned tasks of handle_restarted still running
    room_handle,         \* Option<Handle>: present, or how far close() is
    closing_on,          \* the session whose close() Room::close waits for
    room_close_spawned,  \* Room::close tasks spawned by handle_disconnected
    remote_participants, \* identities the room knows
    join_response,       \* other_participants of the last JoinResponse
    told                 \* who is here by all the server has said of late

stateVars == <<state, syncing, synced, republishing>>
roomCloseVars == <<room_handle, closing_on, room_close_spawned>>
peopleVars == <<remote_participants, join_response, told>>
roomVars == <<stateVars, roomCloseVars, peopleVars>>
allVars == <<vars, roomVars>>

-----------------------------------------------------------------------------
RoomInit ==
    /\ Init
    /\ state = "Disconnected"
    /\ syncing = FALSE
    /\ synced = "none"
    /\ republishing = 0
    /\ room_handle = "none"
    /\ closing_on = NoSession
    /\ room_close_spawned = 0
    /\ remote_participants = {}
    /\ join_response = {}
    /\ told = {}

\* A JoinResponse lists who is in the room.
JoinResponse == \E people \in SUBSET People :
    join_response' = people /\ told' = people

\* Room::connect: the engine joined, the room creates the participants of the
\* join response and its state becomes Connected.
RoomConnect(s) ==
    /\ Join(s)
    /\ JoinResponse
    /\ remote_participants' = join_response'
    /\ state' = "Connected"
    /\ room_handle' = "open"
    /\ UNCHANGED <<syncing, synced, republishing, closing_on,
                   room_close_spawned>>

-----------------------------------------------------------------------------
(* The handlers of room_task, one per engine event *)

Incoming(type) == engine_rx # <<>> /\ Head(engine_rx).type = type

handle_resuming ==
    /\ Incoming("Resuming")
    /\ RoomTakes(TRUE)
    /\ state' = "Reconnecting"
    /\ UNCHANGED <<syncing, synced, republishing, roomCloseVars, peopleVars>>

\* Mutant: the answer is sent before the SyncState message.
handle_signal_resumed_AckFirst ==
    /\ Incoming("SignalResumed")
    /\ RoomTakes(TRUE)
    /\ syncing' = TRUE
    /\ synced' = "none"
    /\ UNCHANGED <<state, republishing, roomCloseVars, peopleVars>>

\* Spawns send_sync_state; the answer is sent when it returns.
handle_signal_resumed ==
    /\ Incoming("SignalResumed")
    /\ RoomTakes(FALSE)
    /\ syncing' = TRUE
    /\ synced' = "none"
    /\ UNCHANGED <<state, republishing, roomCloseVars, peopleVars>>

\* It returned: the message went to the signal client, or none was made
\* because a description, or the subscriber, is missing.
send_sync_state ==
    /\ syncing
    /\ RoomAck
    /\ syncing' = FALSE
    /\ synced' \in {"sent", "skipped"}
    /\ UNCHANGED <<state, republishing, roomCloseVars, peopleVars>>

handle_resumed ==
    /\ Incoming("Resumed")
    /\ RoomTakes(TRUE)
    /\ state' = "Connected"
    /\ UNCHANGED <<syncing, synced, republishing, roomCloseVars, peopleVars>>

\* Removes every remote participant before the full reconnect.
handle_restarting ==
    /\ Incoming("Restarting")
    /\ RoomTakes(TRUE)
    /\ remote_participants' = {}
    /\ state' = "Reconnecting"
    /\ UNCHANGED <<syncing, synced, republishing, roomCloseVars,
                   join_response, told>>

\* Mutant: the participants of the new JoinResponse are not created.
handle_signal_restarted_Ignored ==
    /\ Incoming("SignalRestarted")
    /\ RoomTakes(TRUE)
    /\ UNCHANGED roomVars

\* handle_participant_update(other_participants): creates or refreshes the
\* participants of the new JoinResponse, removes none.
handle_signal_restarted ==
    /\ Incoming("SignalRestarted")
    /\ RoomTakes(TRUE)
    /\ remote_participants' = remote_participants \cup join_response
    /\ UNCHANGED <<stateVars, roomCloseVars, join_response, told>>

\* Creates or refreshes the participant, or disconnects and removes it.
handle_participant_update ==
    /\ Incoming("ParticipantUpdate")
    /\ RoomTakes(TRUE)
    /\ LET update == Head(engine_rx)
       IN remote_participants' = IF update.here
                                 THEN remote_participants \cup {update.who}
                                 ELSE remote_participants \ {update.who}
    /\ UNCHANGED <<stateVars, roomCloseVars, join_response, told>>

\* Answers first; a spawned task republishes the tracks.
handle_restarted ==
    /\ Incoming("Restarted")
    /\ RoomTakes(TRUE)
    /\ republishing' = republishing + 1
    /\ UNCHANGED <<state, syncing, synced, roomCloseVars, peopleVars>>

\* The spawned task has unpublished and republished every track (or failed
\* to): Connected and RoomEvent::Reconnected.
Republished ==
    /\ republishing > 0
    /\ republishing' = republishing - 1
    /\ state' = "Connected"
    /\ UNCHANGED <<vars, syncing, synced, roomCloseVars, peopleVars>>

\* Mutant: the room is not closed after a server disconnect.
handle_disconnected_NoClose ==
    /\ Incoming("Disconnected")
    /\ RoomTakes(TRUE)
    /\ state' = "Disconnected"
    /\ UNCHANGED <<syncing, synced, republishing, roomCloseVars, peopleVars>>

handle_disconnected ==
    /\ Incoming("Disconnected")
    /\ RoomTakes(TRUE)
    /\ state' = "Disconnected"
    /\ room_close_spawned' =
          IF Head(engine_rx).reason = "ClientInitiated"
          THEN room_close_spawned ELSE room_close_spawned + 1
    /\ UNCHANGED <<syncing, synced, republishing, room_handle, closing_on,
                   peopleVars>>

-----------------------------------------------------------------------------
(* Room::close *)

\* The handle is taken: a second close fails with AlreadyClosed.  The tracks
\* are unpublished before the engine is closed.
RoomClose(reason) ==
    /\ room_handle = "open"
    /\ room_handle' = reason
    /\ UNCHANGED <<vars, stateVars, closing_on, room_close_spawned,
                   peopleVars>>

SpawnedRoomClose ==
    /\ room_close_spawned > 0
    /\ room_close_spawned' = room_close_spawned - 1
    /\ room_handle' = IF room_handle = "open" THEN "Other" ELSE room_handle
    /\ UNCHANGED <<vars, stateVars, closing_on, peopleVars>>

\* rtc_engine.close(reason)
RoomCloseEngine ==
    /\ room_handle \in Reasons
    /\ AppClose(room_handle)
    /\ closing_on' = engine_task
    /\ room_handle' = "closing"
    /\ UNCHANGED <<stateVars, room_close_spawned, peopleVars>>

\* Mutant: close also waits for the Disconnected event to be handled.
RoomCloseSent_AwaitEvent ==
    /\ room_handle = "closing"
    /\ state = "Disconnected"
    /\ room_handle' = "stopped"
    /\ UNCHANGED <<vars, stateVars, closing_on, room_close_spawned,
                   peopleVars>>

\* It returned: close_tx.send(()).
RoomCloseSent ==
    /\ room_handle = "closing"
    /\ closing_on # NoSession => stopper[closing_on] = "done"
    /\ room_handle' = "stopped"
    /\ UNCHANGED <<vars, stateVars, closing_on, room_close_spawned,
                   peopleVars>>

\* Awaited, the tasks of the data streams and of the data tracks have ended.
RoomTasksJoined ==
    /\ room_handle = "stopped"
    /\ room_handle' = "joined"
    /\ UNCHANGED <<vars, stateVars, closing_on, room_close_spawned,
                   peopleVars>>

\* So has room_task: close returns.
RoomClosed ==
    /\ room_handle = "joined"
    /\ ~receiver
    /\ room_handle' = "closed"
    /\ UNCHANGED <<vars, stateVars, closing_on, room_close_spawned,
                   peopleVars>>

\* Mutant: the room task is stopped before the engine is closed.
RoomTaskEnds_BeforeEngine ==
    /\ room_handle \in Reasons \cup {"stopped", "joined"}
    /\ receiver
    /\ receiver' = FALSE
    /\ engine_rx' = <<>>
    /\ ack' = IF AckQueued THEN "done" ELSE ack
    /\ UNCHANGED <<handleVars, sessVars, recVars, closeVars, opVars, roomVars>>

\* room_task sees close_rx, perhaps before events that are already queued.
RoomTaskEnds ==
    /\ room_handle \in {"stopped", "joined"}
    /\ RoomGone
    /\ UNCHANGED roomVars

-----------------------------------------------------------------------------
(* The server, as the room hears it *)

\* The session whose messages still count: the one being connected, if any.
Latest == IF rnew = NoSession THEN session ELSE rnew

\* The server says of p that it is here, or that it has left; the session's
\* tasks queue the update for engine_task.
ServerTells(s, p, here) ==
    /\ Forward(s, [type |-> "ParticipantUpdate", who |-> p, here |-> here])
    /\ told' = IF s # Latest THEN told
               ELSE IF here THEN told \cup {p} ELSE told \ {p}
    /\ UNCHANGED <<stateVars, roomCloseVars, remote_participants,
                   join_response>>

\* The JoinResponse of a full reconnect.
RoomConnectOk(s) ==
    /\ ConnectOk(s)
    /\ JoinResponse
    /\ UNCHANGED <<stateVars, roomCloseVars, remote_participants>>

-----------------------------------------------------------------------------
RoomHandler ==
    \/ handle_resuming \/ handle_signal_resumed \/ handle_resumed
    \/ handle_restarting \/ handle_signal_restarted \/ handle_restarted
    \/ handle_participant_update \/ handle_disconnected

RoomCloseStep ==
    \/ SpawnedRoomClose \/ RoomCloseEngine \/ RoomCloseSent \/ RoomClosed

RoomTaskStep ==
    \/ RoomHandler \/ send_sync_state \/ Republished
    \/ RoomCloseStep \/ RoomTasksJoined \/ RoomTaskEnds

\* The engine's own steps that the room takes no part in.
EngineOnly ==
    /\ \/ ReconnectLocal \/ EngineStep \/ SessionStep \/ JoinFail
       \/ \E o \in Ops : OpCall(o) \/ OpStart(o) \/ OpEnd(o)
    /\ UNCHANGED roomVars

RoomNext ==
    \/ RoomTaskStep
    \/ EngineOnly
    \/ \E s \in Sessions : RoomConnect(s) \/ RoomConnectOk(s)
    \/ \E r \in Reasons : RoomClose(r)
    \/ \E s \in Sessions, p \in People, here \in BOOLEAN :
          ServerTells(s, p, here)

RoomSafe == RoomInit /\ [][RoomNext]_allVars

\* As for the engine: every spawned task runs.  room_task also ends: its
\* select polls close_rx, which stays ready.  As there, nothing is assumed of
\* what waits on the network or the server: send_sync_state, the republishing,
\* and the tasks of the data streams and data tracks that Room::close awaits.
RoomFairness ==
    /\ WF_allVars(ReconnectOwed /\ UNCHANGED roomVars)
    /\ WF_allVars(EngineTaskStep /\ UNCHANGED roomVars)
    /\ WF_allVars(RoomHandler)
    /\ WF_allVars(RoomCloseStep)
    /\ WF_allVars(RoomTaskEnds)
    /\ \A o \in Ops :
          WF_allVars((OpStart(o) \/ OpMustEnd(o)) /\ UNCHANGED roomVars)

RoomSpec == RoomSafe /\ RoomFairness

-----------------------------------------------------------------------------
(* Properties *)

\* Every variable of the room has its type.
RoomTypeOK ==
    /\ TypeOK
    /\ state \in {"Connected", "Reconnecting", "Disconnected"}
    /\ syncing \in BOOLEAN
    /\ synced \in {"none", "sent", "skipped"}
    /\ republishing \in Nat
    /\ room_handle \in Reasons \cup {"none", "open", "closing", "stopped",
                                    "joined", "closed"}
    /\ closing_on \in Sessions \cup {NoSession}
    /\ room_close_spawned \in Nat
    /\ remote_participants \subseteq People
    /\ join_response \subseteq People
    /\ told \subseteq People

\* The room's steps are steps of the engine or leave it alone: the composition
\* implements the engine's specification, whose environment is any receiver.
ImplementsEngine == Safe

\* The publisher's ICE restart offer follows the SyncState message: the engine
\* goes on after SignalResumed only when the send_sync_state of this resume has
\* returned.  It has then sent the message, or found no description to send.
SyncBeforeOffer == (rpc = "wait_resume" /\ receiver) => synced # "none"

\* A close() that took the session for any reason but the application's own
\* stops the room's task too, if every RtcSession::close returns.
DisconnectClosesRoom ==
    (\A s \in Sessions : Returns(s)) =>
        \A s \in Sessions : stopper[s] = "Other" ~> ~receiver

\* Room::close always returns, whatever the reconnect task is doing and
\* whatever is still queued for the room, if RtcSession::close does and the
\* tasks of the data streams and data tracks end.
RoomCloseEnds ==
    (/\ \A s \in Sessions : Returns(s)
     /\ []<>(room_handle # "stopped"))
    => (room_handle \in Reasons ~> room_handle = "closed")

\* A room that has announced Disconnected does not go back to Connected or
\* Reconnecting: no event of an earlier reconnection is still on its way.  The
\* exception is a republishing task of handle_restarted, which nothing cancels
\* and which ends by announcing Connected.
DisconnectedIsFinal ==
    [][(state = "Disconnected" /\ room_handle # "none" /\ republishing = 0) =>
            state' = "Disconnected"]_allVars

\* Nobody goes missing: a room whose engine has no reconnection under way and
\* whose events are handled knows every participant of whom the server said
\* last that it is here, although a full reconnect removes them all, the updates
\* of the old session and of the new one pass through two channels and the
\* JoinResponse takes a third way.  The room may know others: an update of the
\* old session that is handled after Restarting brings one back.
NobodyMissing ==
    (/\ rpc = "idle" /\ ~closed /\ receiver
     /\ engine_rx = <<>>
     /\ \A i \in DOMAIN events[session] : events[session][i] \notin Forwarded)
    => told \subseteq remote_participants

=============================================================================
