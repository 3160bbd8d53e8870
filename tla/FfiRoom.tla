------------------------------- MODULE FfiRoom -------------------------------
(***************************************************************************)
(* livekit-ffi/src/server/room.rs: what a foreign client hears of a room.  *)
(* Requests are answered by callbacks from tasks of their own, the room's  *)
(* events are forwarded by room_task, and two sets of sids order the       *)
(* callbacks of publish_track and unpublish_track against the events of    *)
(* the same track.                                                         *)
(*                                                                         *)
(* Underneath runs the room of the SDK, as far as it dispatches these      *)
(* events: LocalParticipant::publish_track and unpublish_track, the        *)
(* reconnection handlers with their republishing task, and Room::close.    *)
(***************************************************************************)
EXTENDS Naturals, Sequences, FiniteSets

CONSTANTS
    Requests,        \* PublishTrackRequests of the client
    Unpublishes,     \* UnpublishTrackRequests
    Disconnects,     \* DisconnectRequests
    MaxCycles,       \* reconnection cycles (bound)
    MaxSids          \* sids the server gives out (bound)

ASSUME BoundsAssumption == MaxCycles \in Nat /\ MaxSids \in Nat

Sids == 1..MaxSids
Jobs == (1..MaxCycles) \X Sids       \* republish of a sid, one per cycle
Publishers == Requests \cup Jobs

ASSUME NamesAssumption == Requests \cap Jobs = {}

VARIABLES
    \* the room of the SDK
    room,                \* RoomInfo::state
    engine,              \* RtcEngine: "none", "open", "locked" while a
                         \* reconnection holds its lock, "closed"
    cycles,              \* reconnections so far
    published,           \* track_publications of the local participant
    cleared,             \* publications whose track was set to None
    next_sid,
    publisher,           \* publish_track, by request or by republish job
    sid,                 \* the sid it was given
    group,               \* the republishing task of each cycle
    snapshot,            \* published_tracks of that task
    closing,             \* Room::close
    to_close,            \* publications it still has to unpublish
    events,              \* the receiver of RoomEvents
    \* the FFI server
    connect,             \* FfiRoom::connect
    handle,              \* FfiRoom::handle behind its async mutex
    room_task, forwarding, reconnecting,
    pending_published, pending_unpublished,
    close_tx,
    unpublish, target, disconnect,
    \* what the client was told, as callbacks and events
    told

sdkVars == <<room, engine, cycles, published, cleared, next_sid, publisher, sid,
             group, snapshot, closing, to_close, events>>
taskVars == <<connect, handle, room_task, forwarding, reconnecting,
              close_tx>>
pendingVars == <<pending_published, pending_unpublished>>
requestVars == <<unpublish, target, disconnect>>
ffiVars == <<taskVars, pendingVars, requestVars, told>>
vars == <<sdkVars, ffiVars>>

NoEvent == [type |-> "none", sid |-> 0]
ConnectCallback == <<"ConnectCallback", 0>>
RoomEos == <<"RoomEos", 0>>
Says(message) == told' = told \cup {message}

\* Dispatcher::dispatch; Room::close ends by clearing it.
Dispatch(type, s) ==
    events' = IF closing = "closed" THEN events
              ELSE Append(events, [type |-> type, sid |-> s])

-----------------------------------------------------------------------------
Init ==
    /\ room = "Disconnected"
    /\ engine = "none"
    /\ cycles = 0
    /\ published = {}
    /\ cleared = {}
    /\ next_sid = 1
    /\ publisher = [q \in Publishers |-> "none"]
    /\ sid = [q \in Publishers |-> 0]
    /\ group = [c \in 1..MaxCycles |-> "none"]
    /\ snapshot = [c \in 1..MaxCycles |-> {}]
    /\ closing = "open"
    /\ to_close = {}
    /\ events = <<>>
    /\ connect = "none"
    /\ handle = "none"
    /\ room_task = "none"
    /\ forwarding = NoEvent
    /\ reconnecting = FALSE
    /\ pending_published = {}
    /\ pending_unpublished = {}
    /\ close_tx = FALSE
    /\ unpublish = [u \in Unpublishes |-> "none"]
    /\ target = [u \in Unpublishes |-> 0]
    /\ disconnect = [x \in Disconnects |-> "none"]
    /\ told = {}

-----------------------------------------------------------------------------
(* FfiRoom::connect *)

\* Room::connect returned; the handle's mutex is locked until the tasks run.
RoomConnected ==
    /\ connect = "none"
    /\ connect' = "locked"
    /\ handle' = "locked"
    /\ room' = "Connected"
    /\ engine' = "open"
    /\ UNCHANGED <<cycles, published, cleared, next_sid, publisher, sid,
                   group, snapshot, closing, to_close, events, room_task,
                   forwarding, reconnecting, close_tx, pendingVars,
                   requestVars, told>>

ConnectFails ==
    /\ connect = "none"
    /\ connect' = "failed"
    /\ Says(<<"ConnectError", 0>>)
    /\ UNCHANGED <<sdkVars, handle, room_task, forwarding, reconnecting,
                   close_tx, pendingVars, requestVars>>

CallbackSent ==
    /\ connect = "locked"
    /\ connect' = "called"
    /\ Says(ConnectCallback)
    /\ UNCHANGED <<sdkVars, handle, room_task, forwarding, reconnecting,
                   close_tx, pendingVars, requestVars>>

\* Mutant: the tasks are started before the callback is sent.
TasksSpawned_Early ==
    /\ \/ connect = "locked" /\ room_task = "none" /\ UNCHANGED <<connect, handle>>
       \/ connect = "called" /\ connect' = "done" /\ handle' = "some"
    /\ room_task' = IF room_task = "none" THEN "idle" ELSE room_task
    /\ UNCHANGED <<sdkVars, forwarding, reconnecting, close_tx, pendingVars,
                   requestVars, told>>

\* The tasks are spawned and the handle is stored, which unlocks its mutex.
TasksSpawned ==
    /\ connect = "called"
    /\ connect' = "done"
    /\ room_task' = "idle"
    /\ handle' = "some"
    /\ UNCHANGED <<sdkVars, forwarding, reconnecting, close_tx, pendingVars,
                   requestVars, told>>

\* The client knows the room's handles from the callback.
Connected == ConnectCallback \in told

-----------------------------------------------------------------------------
(* LocalParticipant::publish_track, for a request or a republish job *)

EngineOpen == engine \in {"open", "locked"}

\* A job whose JoinSet was dropped by a panic.
Aborted(q) == q \in Jobs /\ group[q[1]] = "panicked"

PublisherMoves(q, from, to) ==
    /\ publisher[q] = from
    /\ publisher' = [publisher EXCEPT ![q] = to]

publish_track(r) ==
    /\ Connected
    /\ PublisherMoves(r, "none", "adding")
    /\ UNCHANGED <<room, engine, cycles, published, cleared, next_sid, sid, group,
                   snapshot, closing, to_close, events, ffiVars>>

\* add_track has waited for the reconnection and the server's answer.
AddTrack(q) ==
    /\ engine = "open" /\ ~Aborted(q)
    /\ next_sid <= MaxSids
    /\ PublisherMoves(q, "adding", "sending")
    /\ sid' = [sid EXCEPT ![q] = next_sid]
    /\ next_sid' = next_sid + 1
    /\ UNCHANGED <<room, engine, cycles, published, cleared, group, snapshot,
                   closing, to_close, events, ffiVars>>

\* A request that fails is answered at once, a job only logs it.
PublishFails(q) ==
    /\ PublisherMoves(q, "adding", "done") \/ PublisherMoves(q, "sending", "done")
    /\ IF q \in Requests THEN Says(<<"PublishTrackError", q>>) ELSE UNCHANGED told
    /\ UNCHANGED <<room, engine, cycles, published, cleared, next_sid, sid, group,
                   snapshot, closing, to_close, events, taskVars, pendingVars,
                   requestVars>>

\* create_sender waits for the reconnection again.
add_publication(q) ==
    /\ engine = "open" /\ ~Aborted(q)
    /\ PublisherMoves(q, "sending", "added")
    /\ published' = published \cup {sid[q]}
    /\ UNCHANGED <<room, engine, cycles, cleared, next_sid, sid, group, snapshot,
                   closing, to_close, events, ffiVars>>

LocalTrackPublished(q) ==
    /\ PublisherMoves(q, "added", IF q \in Requests THEN "published" ELSE "done")
    /\ Dispatch("LocalTrackPublished", sid[q])
    /\ UNCHANGED <<room, engine, cycles, published, cleared, next_sid, sid, group,
                   snapshot, closing, to_close, ffiVars>>

\* The spawned task of RoomInner::publish_track.
PublishCallback(r) ==
    /\ PublisherMoves(r, "published", "called")
    /\ Says(<<"PublishTrackCallback", r>>)
    /\ UNCHANGED <<room, engine, cycles, published, cleared, next_sid, sid, group,
                   snapshot, closing, to_close, events, taskVars, pendingVars,
                   requestVars>>

\* Mutant: the sid is inserted before the callback is sent.
PublishInserted_First(r) ==
    /\ PublisherMoves(r, "published", "published")
    /\ pending_published' = pending_published \cup {sid[r]}
    /\ UNCHANGED <<room, engine, cycles, published, cleared, next_sid, sid, group,
                   snapshot, closing, to_close, events, taskVars,
                   pending_unpublished, requestVars, told>>

PublishInserted(r) ==
    /\ PublisherMoves(r, "called", "done")
    /\ pending_published' = pending_published \cup {sid[r]}
    /\ UNCHANGED <<room, engine, cycles, published, cleared, next_sid, sid, group,
                   snapshot, closing, to_close, events, taskVars,
                   pending_unpublished, requestVars, told>>

-----------------------------------------------------------------------------
(* LocalParticipant::unpublish_track and RoomInner::unpublish_track *)

\* The client names a track it was told of. remove_publication finds it, or the
\* request is answered with "track not found".
unpublish_track(u, s) ==
    /\ \/ <<"LocalTrackPublished", s>> \in told
       \/ \E r \in Requests : sid[r] = s /\ <<"PublishTrackCallback", r>> \in told
    /\ unpublish[u] = "none"
    /\ target' = [target EXCEPT ![u] = s]
    /\ \/ /\ s \in published
          /\ published' = published \ {s}
          /\ unpublish' = [unpublish EXCEPT ![u] = "removed"]
          /\ UNCHANGED told
       \/ /\ s \notin published
          /\ unpublish' = [unpublish EXCEPT ![u] = "done"]
          /\ Says(<<"UnpublishTrackError", u>>)
          /\ UNCHANGED published
    /\ UNCHANGED <<room, engine, cycles, cleared, next_sid, publisher, sid, group,
                   snapshot, closing, to_close, events, taskVars, pendingVars,
                   disconnect>>

\* remove_track succeeded: the event, then set_track(None).
Unpublished(u) ==
    /\ unpublish[u] = "removed"
    /\ unpublish' = [unpublish EXCEPT ![u] = "waiting"]
    /\ Dispatch("LocalTrackUnpublished", target[u])
    /\ cleared' = cleared \cup {target[u]}
    /\ UNCHANGED <<room, engine, cycles, published, next_sid, publisher, sid,
                   group, snapshot, closing, to_close, taskVars, pendingVars,
                   target, disconnect, told>>

RemoveTrackFails(u) ==
    /\ unpublish[u] = "removed"
    /\ unpublish' = [unpublish EXCEPT ![u] = "done"]
    /\ Says(<<"UnpublishTrackError", u>>)
    /\ UNCHANGED <<sdkVars, taskVars, pendingVars, target, disconnect>>

\* Mutant: the callback does not wait for the event.
UnpublishCallback_AtOnce(u) ==
    /\ unpublish[u] = "waiting"
    /\ pending_unpublished' = pending_unpublished \ {target[u]}
    /\ unpublish' = [unpublish EXCEPT ![u] = "done"]
    /\ Says(<<"UnpublishTrackCallback", u>>)
    /\ UNCHANGED <<sdkVars, taskVars, pending_published, target, disconnect>>

\* The loop over pending_unpublished_tracks finds the sid.
UnpublishCallback(u) ==
    /\ unpublish[u] = "waiting"
    /\ target[u] \in pending_unpublished
    /\ pending_unpublished' = pending_unpublished \ {target[u]}
    /\ unpublish' = [unpublish EXCEPT ![u] = "done"]
    /\ Says(<<"UnpublishTrackCallback", u>>)
    /\ UNCHANGED <<sdkVars, taskVars, pending_published, target, disconnect>>

UnpublishStep(u) == Unpublished(u) \/ UnpublishCallback(u)

-----------------------------------------------------------------------------
(* Reconnections: the room's handlers and the republishing task *)

\* The lock is taken, then handle_resuming or handle_restarting.
ReconnectionBegins ==
    /\ engine = "open"
    /\ cycles < MaxCycles
    /\ cycles' = cycles + 1
    /\ engine' = "locked"
    /\ room' = "Reconnecting"
    /\ IF room = "Connected" THEN Dispatch("Reconnecting", 0) ELSE UNCHANGED events
    /\ UNCHANGED <<published, cleared, next_sid, publisher, sid, group, snapshot,
                   closing, to_close, ffiVars>>

\* handle_resumed, then the lock is released.
handle_resumed ==
    /\ engine = "locked"
    /\ engine' = "open"
    /\ room' = "Connected"
    /\ Dispatch("Reconnected", 0)
    /\ UNCHANGED <<cycles, published, cleared, next_sid, publisher, sid, group,
                   snapshot, closing, to_close, ffiVars>>

\* The task is spawned with the publications of this moment.
handle_restarted ==
    /\ engine = "locked"
    /\ engine' = "open"
    /\ group' = [group EXCEPT ![cycles] = "running"]
    /\ snapshot' = [snapshot EXCEPT ![cycles] = published]
    /\ UNCHANGED <<room, cycles, published, cleared, next_sid, publisher, sid,
                   closing, to_close, events, ffiVars>>

\* The loop over the publications spawns one job for each.
JobSpawned(c, s) ==
    /\ group[c] = "running" /\ s \in snapshot[c] \ cleared
    /\ PublisherMoves(<<c, s>>, "none", "removing")
    /\ UNCHANGED <<room, engine, cycles, published, cleared, next_sid, sid, group,
                   snapshot, closing, to_close, events, ffiVars>>

\* publication.track().unwrap() panics when the track was unpublished since. The jobs
\* spawned so far go no further than their next await; some have not even begun.
RepublishPanics(c) ==
    /\ group[c] = "running"
    /\ \E s \in snapshot[c] \cap cleared : publisher[<<c, s>>] = "none"
    /\ group' = [group EXCEPT ![c] = "panicked"]
    /\ \E dropped \in SUBSET {q \in {c} \X snapshot[c] : publisher[q] = "removing"} :
          publisher' = [q \in Publishers |-> IF q \in dropped THEN "done" ELSE publisher[q]]
    /\ UNCHANGED <<room, engine, cycles, published, cleared, next_sid, sid,
                   snapshot, closing, to_close, events, ffiVars>>

\* lp.unpublish_track of a job; its error is ignored.
JobRemoves(j) ==
    /\ PublisherMoves(j, "removing",
                      IF j[2] \in published THEN "removed" ELSE "adding")
    /\ published' = published \ {j[2]}
    /\ UNCHANGED <<room, engine, cycles, cleared, next_sid, sid, group, snapshot,
                   closing, to_close, events, ffiVars>>

\* The event and set_track(None), unless remove_track fails after the publication was
\* removed.
JobUnpublishes(j) ==
    /\ PublisherMoves(j, "removed", "adding")
    /\ \/ cleared' = cleared \cup {j[2]} /\ Dispatch("LocalTrackUnpublished", j[2])
       \/ UNCHANGED <<cleared, events>>
    /\ UNCHANGED <<room, engine, cycles, published, next_sid, sid, group, snapshot,
                   closing, to_close, ffiVars>>

\* All jobs have ended: Connected and RoomEvent::Reconnected.
Republished(c) ==
    /\ group[c] = "running"
    /\ \A s \in snapshot[c] : publisher[<<c, s>>] = "done"
    /\ group' = [group EXCEPT ![c] = "done"]
    /\ room' = "Connected"
    /\ Dispatch("Reconnected", 0)
    /\ UNCHANGED <<engine, cycles, published, cleared, next_sid, publisher, sid,
                   snapshot, closing, to_close, ffiVars>>

GroupStep(c) == RepublishPanics(c) \/ \E s \in Sids : JobSpawned(c, s)

-----------------------------------------------------------------------------
(* Room::close *)

\* The engine gave up or the server asked to leave: handle_disconnected, which
\* spawns Room::close (AlreadyClosed when another call has the room's handle).
handle_disconnected ==
    /\ EngineOpen
    /\ room' = "Disconnected"
    /\ engine' = "closed"
    /\ Dispatch("Disconnected", 0)
    /\ IF closing = "open"
       THEN closing' = "unpublishing" /\ to_close' = published
       ELSE UNCHANGED <<closing, to_close>>
    /\ UNCHANGED <<cycles, published, cleared, next_sid, publisher, sid, group,
                   snapshot, ffiVars>>

CloseUnpublishes(s) ==
    /\ closing = "unpublishing" /\ s \in to_close
    /\ to_close' = to_close \ {s}
    /\ published' = published \ {s}
    /\ \/ /\ s \in published
          /\ cleared' = cleared \cup {s}
          /\ Dispatch("LocalTrackUnpublished", s)
       \/ UNCHANGED <<cleared, events>>     \* it is gone, or remove_track fails
    /\ UNCHANGED <<room, engine, cycles, next_sid, publisher, sid, group, snapshot,
                   closing, ffiVars>>

\* rtc_engine.close, whose Disconnected the room's task may still handle; the tasks of
\* the room have ended, and the dispatcher is cleared. Nothing bounds these awaits.
RoomClosed ==
    /\ closing = "unpublishing" /\ to_close = {}
    /\ closing' = "closed"
    /\ engine' = "closed"
    /\ \/ UNCHANGED <<room, events>>
       \/ /\ EngineOpen
          /\ room' = "Disconnected"
          /\ Dispatch("Disconnected", 0)
    /\ UNCHANGED <<cycles, published, cleared, next_sid, publisher, sid, group,
                   snapshot, to_close, ffiVars>>

CloseStep == \E s \in Sids : CloseUnpublishes(s)

-----------------------------------------------------------------------------
(* on_disconnect and FfiRoom::close *)

\* close_with_reason: whoever takes the room's handle waits for the end, the
\* others get AlreadyClosed.
Disconnect(x) ==
    /\ Connected
    /\ disconnect[x] = "none"
    /\ \/ /\ closing = "open"
          /\ closing' = "unpublishing"
          /\ to_close' = published
          /\ disconnect' = [disconnect EXCEPT ![x] = "closing"]
       \/ /\ closing # "open"
          /\ disconnect' = [disconnect EXCEPT ![x] = "taking"]
          /\ UNCHANGED <<closing, to_close>>
    /\ UNCHANGED <<room, engine, cycles, published, cleared, next_sid, publisher,
                   sid, group, snapshot, events, taskVars, pendingVars, unpublish,
                   target, told>>

CloseReturned(x) ==
    disconnect[x] = "taking" \/ (disconnect[x] = "closing" /\ closing = "closed")

\* The first disconnect to take the handle stops the tasks.
HandleTaken(x) ==
    disconnect' = [disconnect EXCEPT
                      ![x] = IF handle = "some" THEN "joining" ELSE "joined"]

\* Mutant: the tasks are awaited before they are told to end.
TakeHandle_NotSent(x) ==
    /\ CloseReturned(x) /\ handle # "locked"
    /\ handle' = "taken"
    /\ HandleTaken(x)
    /\ UNCHANGED <<sdkVars, connect, room_task, forwarding, reconnecting,
                   close_tx, pendingVars, unpublish, target, told>>

\* self.handle.lock().await.take(), and close_tx.send(()).
TakeHandle(x) ==
    /\ CloseReturned(x) /\ handle # "locked"
    /\ handle' = "taken"
    /\ close_tx' = TRUE
    /\ HandleTaken(x)
    /\ UNCHANGED <<sdkVars, connect, room_task, forwarding, reconnecting,
                   pendingVars, unpublish, target, told>>

DisconnectCallback(x) ==
    /\ disconnect[x] \in {"joining", "joined"}
    /\ disconnect[x] = "joining" => room_task = "ended"
    /\ disconnect' = [disconnect EXCEPT ![x] = "done"]
    /\ Says(<<IF disconnect[x] = "joining" THEN "DisconnectCallback"
              ELSE "SecondDisconnectCallback", x>>)
    /\ UNCHANGED <<sdkVars, taskVars, pendingVars, unpublish, target>>

DisconnectStep(x) == TakeHandle(x) \/ DisconnectCallback(x)

-----------------------------------------------------------------------------
(* room_task and forward_event *)

EventTaken ==
    /\ room_task = "idle"
    /\ events # <<>>
    /\ forwarding' = Head(events)
    /\ events' = Tail(events)
    /\ room_task' = "forwarding"
    /\ UNCHANGED <<room, engine, cycles, published, cleared, next_sid, publisher,
                   sid, group, snapshot, closing, to_close, connect, handle,
                   reconnecting, close_tx, pendingVars, requestVars, told>>

Forwards(type) == room_task = "forwarding" /\ forwarding.type = type
ForwardingEnds == room_task' = "idle" /\ forwarding' = NoEvent

\* While reconnecting the event is taken for that of a republish.
ForwardPublished ==
    /\ Forwards("LocalTrackPublished")
    /\ \/ reconnecting /\ UNCHANGED pending_published
       \/ /\ ~reconnecting
          /\ forwarding.sid \in pending_published
          /\ pending_published' = pending_published \ {forwarding.sid}
    /\ Says(<<"LocalTrackPublished", forwarding.sid>>)
    /\ ForwardingEnds
    /\ UNCHANGED <<sdkVars, connect, handle, reconnecting, close_tx,
                   pending_unpublished, requestVars>>

ForwardUnpublished ==
    /\ Forwards("LocalTrackUnpublished")
    /\ Says(<<"LocalTrackUnpublished", forwarding.sid>>)
    /\ room_task' = "inserting"
    /\ UNCHANGED <<sdkVars, connect, handle, forwarding, reconnecting,
                   close_tx, pendingVars, requestVars>>

UnpublishedInserted ==
    /\ room_task = "inserting"
    /\ pending_unpublished' = pending_unpublished \cup {forwarding.sid}
    /\ ForwardingEnds
    /\ UNCHANGED <<sdkVars, connect, handle, reconnecting, close_tx,
                   pending_published, requestVars, told>>

ForwardState ==
    /\ \/ Forwards("Reconnecting") /\ reconnecting' = TRUE
       \/ Forwards("Reconnected") /\ reconnecting' = FALSE
       \/ Forwards("Disconnected") /\ UNCHANGED reconnecting
    /\ Says(<<forwarding.type, 0>>)
    /\ ForwardingEnds
    /\ UNCHANGED <<sdkVars, connect, handle, close_tx, pendingVars,
                   requestVars>>

\* close_rx is polled between two events.
RoomTaskEnds ==
    /\ room_task = "idle" /\ close_tx
    /\ room_task' = "ended"
    /\ Says(RoomEos)
    /\ UNCHANGED <<sdkVars, connect, handle, forwarding, reconnecting,
                   close_tx, pendingVars, requestVars>>

RoomTaskStep ==
    \/ EventTaken \/ ForwardPublished \/ ForwardUnpublished
    \/ UnpublishedInserted \/ ForwardState

-----------------------------------------------------------------------------
Client ==
    \/ \E r \in Requests : publish_track(r)
    \/ \E u \in Unpublishes, s \in Sids : unpublish_track(u, s)
    \/ \E x \in Disconnects : Disconnect(x)

\* What spawned tasks do between two awaits of the SDK.
System ==
    \/ CallbackSent \/ TasksSpawned
    \/ \E q \in Publishers : LocalTrackPublished(q)
    \/ \E r \in Requests : PublishCallback(r) \/ PublishInserted(r)
    \/ \E u \in Unpublishes : UnpublishStep(u)
    \/ \E c \in 1..MaxCycles : GroupStep(c)
    \/ \E j \in Jobs : JobRemoves(j) \/ JobUnpublishes(j)
    \/ CloseStep
    \/ \E x \in Disconnects : DisconnectStep(x)
    \/ RoomTaskStep \/ RoomTaskEnds

\* The ends of the SDK's awaits, and what the server and the network do.
Environment ==
    \/ RoomConnected \/ ConnectFails
    \/ \E q \in Publishers : AddTrack(q) \/ add_publication(q) \/ PublishFails(q)
    \/ \E u \in Unpublishes : RemoveTrackFails(u)
    \/ ReconnectionBegins \/ handle_resumed \/ handle_restarted
    \/ \E c \in 1..MaxCycles : Republished(c)
    \/ handle_disconnected \/ RoomClosed

Next == Client \/ System \/ Environment

Safe == Init /\ [][Next]_vars

\* Spawned tasks run. No await of the SDK need return: a reconnection, a publish_track
\* and Room::close may each wait for ever. Nothing here repeats for ever, so fairness of
\* the system as a whole is that of each of its tasks.
Spec == Safe /\ WF_vars(System)

-----------------------------------------------------------------------------
(* Properties *)

\* Every variable whose values are not fixed by the shape of its actions has its type.
TypeOK ==
    /\ room \in {"Disconnected", "Connected", "Reconnecting"}
    /\ published \subseteq Sids /\ cleared \subseteq Sids
    /\ next_sid \in 1..MaxSids + 1
    /\ sid \in [Publishers -> 0..MaxSids]
    /\ target \in [Unpublishes -> 0..MaxSids]
    /\ pending_published \subseteq Sids
    /\ pending_unpublished \subseteq Sids
    /\ forwarding.sid \in 0..MaxSids

\* What FfiRoom says of publish_track (room.rs:443-444): the client is told of
\* LocalTrackPublished after the callback of its request. room_task gives that
\* up while it takes the room to be reconnecting, for the tracks a full
\* reconnect publishes anew.
PublishedAfterCallback ==
    [][\A s \in Sids :
          /\ <<"LocalTrackPublished", s>> \in told' \ told
          /\ ~reconnecting
          => \E r \in Requests :
                sid[r] = s /\ <<"PublishTrackCallback", r>> \in told]_vars

\* What FfiRoom says of unpublish_track (room.rs:513-516): the callback comes
\* after the event, whoever removed the track first: the request itself, a
\* republishing task or Room::close.
UnpublishedBeforeCallback ==
    \A u \in Unpublishes :
        <<"UnpublishTrackCallback", u>> \in told
            => <<"LocalTrackUnpublished", target[u]>> \in told

RoomEvents ==
    {<<type, 0>> : type \in {"Reconnecting", "Reconnected", "Disconnected"}}
        \cup {"LocalTrackPublished", "LocalTrackUnpublished"} \X Sids

\* The client hears the events of a room between its ConnectCallback and its
\* RoomEos, and the callback of the disconnect that stopped the tasks comes
\* after that, however early the disconnect is asked for (room.rs:194-201).
\* RoomSidChanged is outside the frame: a task of its own (room.rs:222-235) sends it
\* when the room has its sid, which may be after RoomEos.
EventsFramed ==
    /\ [][\A m \in told' \ told :
             m \in RoomEvents \cup {RoomEos}
                 => ConnectCallback \in told /\ RoomEos \notin told]_vars
    /\ [](\A x \in Disconnects :
             <<"DisconnectCallback", x>> \in told => RoomEos \in told)

\* room_task waits for the callback of a request that was never made.
WaitsForRepublish ==
    /\ Forwards("LocalTrackPublished") /\ ~reconnecting
    /\ forwarding.sid \notin {sid[r] : r \in Requests}

\* A disconnect is answered, and an unpublish unless the room is closed meanwhile, with
\* two exceptions: room_task comes to wait for the callback of a republished track, or
\* Room::close never returns to FfiRoom::close (room.rs:314), which puts no bound on it,
\* be it the close of this disconnect or of handle_disconnected.
RequestsEnd ==
    [](~WaitsForRepublish) /\ []<>(closing # "unpublishing") =>
        /\ \A x \in Disconnects :
               disconnect[x] # "none" ~> disconnect[x] = "done"
        /\ \A u \in Unpublishes :
               unpublish[u] # "none"
                   ~> unpublish[u] = "done" \/ close_tx \/ closing = "closed"

\* What the comment in forward_event says (room.rs:1052-1058): room_task waits
\* for a callback only when a request asked for the track.
WaitsForRequests == ~WaitsForRepublish
=============================================================================
