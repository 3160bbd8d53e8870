# A verification project for the LiveKit Rust SDKs

TLA+ specifications of the parts of this repository in which concurrency, failure and
ordering decide whether the program is right, with TLC instances that model-check them and
TLAPS proofs about the engine, the room, the signal client, the data channels, the
negotiation, local data tracks, remote calls, data streams and the FFI server.  Paths below are relative to `src/`.

    tlc -workers 2 -config RtcEngine_engine.cfg MCRtcEngine     # one run
    tlapm RoomSessionProofs.tla                                 # one module of proofs

## 1. The system

The SDK keeps one participant connected to a LiveKit server.  An application holds a `Room`;
the room owns an engine; the engine owns, one after another, *sessions*; a session owns a
signal connection (a websocket) and two peer connections with their data channels.  A foreign
client (Python, Unity, Node) reaches the same room through the FFI server.

    foreign client - FFI server (requests, callbacks, room_task)
                                |  RoomEvent channel
    Room (room_task, handlers) <- EngineEvent channel - RtcEngine (engine_task, reconnect task)
     | data streams, RPC, data tracks                       |  SessionEvent channel
                                                        RtcSession (signal_task, rtc_task,
                                                            |       data_channel_task, negotiation)
                                                   SignalClient + PeerTransports + data channels

Everything runs as tokio tasks that exchange messages over channels and share state behind
locks.  What is hard is always the same: a task reads something, awaits, and acts on what it
read while another task has moved on.

### 1.1 Components, their state, operations and properties

| component | state it keeps | operations | what is hard | what makes it correct |
|---|---|---|---|---|
| **RtcEngine** `livekit/src/rtc_engine/mod.rs` | `EngineHandle` (session, closed, reconnecting, can_reconnect, full_reconnect, engine_task), `reconnecting_lock` | connect, close, guarded operations, `on_session_event`, `reconnection_needed`, `reconnect_task` | close() and a late Close during every await of a restart; operations against the write lock; answers of the room | one listener, operations keep their session, cycles and close() end if the waits without a timer do, escalation only |
| **Room** `livekit/src/room/mod.rs` | connection state, participants, `Handle` of the room task, detached tasks | connect, the handlers of the engine's events, close | spawned tasks that outlive their handler; a room task that ends before its events | state follows the engine, send_sync_state precedes the offer, nobody goes missing, a close ends if what it awaits does |
| **SignalClient** `livekit-api/src/signal_client/` | stream behind an `RwLock`, queue behind a `Mutex`, `reconnecting`, task handle | send, flush, queue, restart, close, signal_task, ping timeout | two fair locks held across awaits, a restart under way, a peer that stops reading | senders on the current stream, no duplicate, nobody closes another's stream, restart ends |
| **Data channels of a session** `livekit/src/rtc_engine/rtc_session.rs` | sequence, buffered amounts, queues, retry queue, receive state | publish_data, data_channel_task, retry on resume, receive, SyncState | amounts reported late, resumes in the middle of everything, duplicates | exact backpressure, no gap, no double queueing, callers return, nothing forwarded is lost |
| **Publisher negotiation** `rtc_session.rs`, `peer_transport.rs`, `livekit-protocol/src/debouncer.rs` | `NegotiationState`, task_running, waiting_for_answer, waker, debouncer, the transport's mutex and `renegotiate` | publisher_negotiation_needed, the negotiation loop, offers, answers, ICE restart | calls from any thread against the end of the loop; offers against answers | one loop, a put-off offer is made, every request is negotiated |
| **Local data tracks** `livekit-datatrack/src/local` | descriptors, a watch channel and a task per track, a task per owed result, two bounded channels | publish, cancel, unpublish, republish, shutdown | late answers of the server, a republish that crosses an unpublish, full channels | a descriptor has its task, nothing stays at the server out of reach, shutdown ends |
| **Remote data tracks** `livekit-datatrack/src/remote` | descriptors with their subscription, the index of subscriber handles, a task per subscribed track, two bounded channels | publication updates, subscribe, subscriber handles, end of a track's task, resend after a reconnect, shutdown | a subscriber that arrives while the last one leaves; handles of an old session | manager and server agree, an unused subscription is given back, no stream stays silent |
| **Data track frames** `livekit-datatrack/src/{local,remote}`, `livekit/src/rtc_engine/dc_sender.rs` | 16-bit counters, partial frame, the sender's queue and amount | packetize, enqueue, send, reassemble | wrap-around, lost and overtaking packets, an amount taken off without sending | frames come out whole and once, the queue drains |
| **RPC** `livekit/src/room/participant/local_participant.rs` | pending acks and responses | perform_rpc, incoming requests, acks, responses | two timers racing ack, response and publish; repeated requests | a call comes back once, with an answer to it or a local error |
| **Data streams** `livekit/src/room/data_stream` | a raw stream per writer with its index, the publishing task, the receiver's open streams | open, write, close, drop; header, chunk, trailer | cancelled and failed writes, repeated and lost packets, changes of encryption | content in order, a clean end means all of it, readers end |
| **FFI server** `livekit-ffi/src/server` | the room's handle, its tasks, two sets of sids that order callbacks against events | connect, publish, unpublish, disconnect, room_task | tasks that wait for each other's marks while the SDK reconnects or closes | callbacks and events in the promised order, requests answered |
| **Participants, publications** | tracks, permissions, subscription status | publish_track, updates | operations against updates of the server | not modelled, section 6 |
| **TtlMap, TakeCell, utf8 chunks** | small containers | | expiry | not modelled |
| E2EE manager, region URLs, access tokens, server API, webhooks, runtime adapters, uniffi, wakeword, device-info, imgproc, yuv/soxr, libwebrtc and webrtc-sys, generated protocol, examples | | | | not modelled: sequential wrappers, conversions, native bindings or generated code |

`PROJECT.json` lists every component, and under `hazards` each place of this code where a
wrong step would hardly be met by a test, with the properties that are about it.

## 2. The modules

| module | of | composes |
|---|---|---|
| `RtcEngine` | the engine and the life of its sessions | |
| `RoomSession` | the room's handlers and close | extends `RtcEngine` |
| `RoomSessionProofs` | proofs about the engine; the room implements the environment the engine assumes; its own safety | extends `RoomSession` |
| `SignalClient` | the signal client and its locks | |
| `ReliableData` | the way of a data packet, publisher to receiver | |
| `ReliableDataProofs` | proofs about it | extends `ReliableData` |
| `PublisherNegotiation` | offers and answers of the publisher | |
| `SignallingProofs` | proofs about the signal client and the negotiation | extends `SignalClient` and `PublisherNegotiation` |
| `LocalDataTracks` | the manager of published data tracks and its tasks | |
| `RemoteDataTracks` | the manager of subscribed data tracks, its tasks and its callers | |
| `RemoteDataTracksProofs` | proofs about it | extends `RemoteDataTracks` |
| `DataTrackPackets` | the packets of a data track, publisher to subscriber | |
| `DataTracksProofs` | proofs about published tracks and their packets | extends `LocalDataTracks` and `DataTrackPackets` |
| `RpcCall` | what a remote call promises (abstract) | |
| `Rpc` | both sides of remote calls | implements `RpcCall` |
| `RpcProofs` | that it does, and that nothing stays pending | extends `Rpc` |
| `DataStreams` | the writers, the publishing task and the readers of data streams | |
| `DataStreamsProofs` | what readers get | extends `DataStreams` |
| `FfiRoom` | what a foreign client hears of a room, over the room underneath | |
| `FfiRoomProofs` | the order of what it hears | extends `FfiRoom` |
| `MC...` | the instances for TLC | |

In each module an operator whose name ends in `_Something` and whose comment begins with
`Mutant:` is a plausible bug in the definition that follows it.  No specification uses one; each
shows that one property would see that bug.

### 2.1 RtcEngine

A session is a model value of `Sessions`.  `sess[s]` is its life (unused, open, closing, closed,
dropped), `sig` and `pc` are the sessions whose signal link and transport are up, `events[s]` is the
`session_events` channel, `task[s]` its engine_task, `stopper[s]` who took that task out of the
handle.  The first six variables are the fields of `EngineHandle`.  The reconnect task is a program
counter `rpc` whose values are its awaits; between two awaits the code runs under
`running_handle`, so a section between two awaits is one action: `Lock` waits for the write guard,
`BeginAttempt` is the head of the loop, `TakeOld`, `OldStopped`, `ConnectOk`,
`SignalRestartedAcked` and `Install` are `try_restart_connection`; `ResumeOk`, `SyncAcked` and
`Resumed` are `try_resume_connection` and its completion; `Tick`, `GiveUp`, `CloseFailed`, `Finish`
end an attempt or the task.  `reconnection_needed` and `OnClose` are the handler of
`SessionEvent::Close`.  `BeginClose`, `SessionClosed`, `EngineTaskEnds`, `CloseEnd` are the awaits of
`close`.  `OpCall`, `OpStart`, `OpEnd` are a caller of `wait_reconnection`; those in `DataOps` are
`publish_data`, which holds its guard until the data channel has taken the packet.  The room is
any receiver: it takes events in order and answers at once or later (`RoomTakes`, `RoomAck`), and may
end once the engine is closed (`RoomGone`).  Of the `SessionEvent`s that are only forwarded there is
one, ParticipantUpdate (`Forwarded`): `Forward` queues it in `events[s]`, `HandOn` is the engine_task that
passes it to the room.  It is a report like the others: it takes its place in both queues.

Left out: the other forwarded events, the join options, time (a timeout is a step that may happen),
`reconnecting_interval` beyond the order of attempts.

### 2.2 RoomSession

Adds the connection state, `send_sync_state` (spawned by `handle_signal_resumed`), the
republishing tasks of `handle_restarted`, the handle that `Room::close` takes, and the remote
participants as a set of identities.  `send_sync_state` sends the message or finds no description, or no subscriber, and
sends nothing (`synced`); the answer follows in both cases.  `Room::close` goes from the engine's close
(`closing`) by `close_tx` (`stopped`) through the ends of the data-stream and data-track tasks (`joined`,
`RoomTasksJoined`) to that of `room_task` (`closed`).  Each handler is the engine's `RoomTakes` with the room's
own assignments, so that a step of the room is a step of the engine: that is the refinement
`ImplementsEngine`, checked and proved.  It says that what is proved of the engine with an arbitrary
receiver holds with this one.

What the server says of the participants comes in three ways.  `ServerTells` puts an update into the queue of a session, from
which engine_task hands it on to `handle_participant_update`; a JoinResponse waits in
`join_response` until `handle_signal_restarted` reads it; and `Room::connect` uses the first one at once.  `told` is
what the server said last of everybody, over the session that is being connected, or else the installed
one: it is history, and what `NobodyMissing` compares the room with.  A resume brings nothing of its own: what the server
replays are further updates in the same queue.

### 2.3 SignalClient

Both locks are tokio's fair ones: a lock is the sequence of the processes that hold or await it.
Guards live as long as the Rust temporaries: the read guard in `if let Some(stream) =
self.stream.read().await.as_ref()` is held through the send.  Processes are the senders, one
signal_task per stream (which pings, so it also sends), the restart and the closer.  `received` is what
the server got.  A stream in `Stuck` has a peer that stopped reading.  Left out: the first connection
(regions, v0/v1 paths, proxy), the token, and what messages say.

### 2.4 ReliableData

One publication is one packet of size 1 with a `Threshold` in packets; `events` is `dc_events`, and
`result[p]` is what the awaiting `publish_data` saw.  `OnPublishPacket`, `OnPublishData`,
`OnBufferedAmountChange` and `OnRetryFrom` are the arms of `data_channel_task`;
`SendUntilThreshold` is the loop `_send_until_threshold`.  The channel (`dc_buffer`, `wire`), the server
and the downlink are external: in order, lossy when the link fails; the server names the highest sequence it has
(`Highest`) and forwards each packet once, plus what a SyncState says is missing.  A lost link may come back by
itself (`LinkBack`) or be resumed (`Resume`), and nobody owes either: a `publish_data` that waits holds the read guard of
`reconnecting_lock`, which keeps the reconnection out.  Left out: encryption, the 30 s expiry of the receive state, changes of the threshold.

### 2.5 PublisherNegotiation

A description is named by the number of local changes it covers.  `fast_publish` is chosen in `Init`.
A call becomes the task it spawns (`at[c]`).  `CreateOffer`/`SendOffer` hold the transport's mutex across
`create_offer`; `PutOff` is the branch that sets `renegotiate`; `SetRemoteDescription` is an Answer.
Answers carry no name, so one to an offer that was rolled back may be taken for another
(`Accepts`) or be refused (`Refuses`): both are modelled.  `CandidateRefused` is the error exit between the answer and
the look at `renegotiate`: a pending candidate is refused, and the flag that was set stays so (`stranded`).  Left
out: SDP munging, the gathering of ICE candidates, the subscriber transport, which only answers, and the
failure of `restart_publisher`.

### 2.6 LocalDataTracks

A publication is named by its handle.  `descriptors` is the manager's map, `state[h]` the watch channel of a
track and `task[h]` its `TrackTask`; `call[h]` is what `publish_track` gave its caller and `result[h]` the oneshot
to the task that forwards it (`ForwardResult`, `ForwardCancelled`).  `event_in` and `event_out` hold
`EVENT_BUFFER_COUNT` events: `TrySend` drops an event when there is no room, as the callers of `try_send` ignore,
while `TaskEnds` and `OutputSent` await a slot.  The manager takes one event at a time (`Takes`); a
handler that awaits a slot for its output has it in `output`, and what a loop still has to visit in `todo`, so
that tasks run between two turns of `on_republish_tracks` or `shutdown`.  `Republished` is a step of its own, as the
application may unpublish between the manager's reading of the state and its writing.  `ForwardOutput`, `ForwarderEnds`,
`ForwardAnswer` and `handle_restarted` are the room's part; the server answers, ends tracks, and loses
all it knows with a full reconnect.  The signal stream may be lost with what is on it (`StreamLost`), and a request that finds
no stream is dropped.  History are `lost`, an event was dropped by a full channel, and `missed`, the tracks the stream
lost a message about.  Left out: frames and packets,
queries, the allocation of handles, and the guard of the input's last clone, which the room outlives.

### 2.7 RemoteDataTracks

A track is its sid, and each call of `subscribe()` is a caller of its own.  `subscription[s]` and
`sub_handle[s]` are the descriptor's `SubscriptionState`, `sub_handles` the manager's index,
`result_txs[s]` the callers a pending subscription owes an answer, `task[s]` the `TrackTask`.  The channels are as in
`LocalDataTracks`: `TrySend` drops an event, `RequestSent` and `TaskEnds` await a slot.  `Takes` is the
manager's loop with a handler per event (`on_subscribe_request`, `on_unsubscribe_request`,
`on_sfu_publication_updates`, `on_sfu_subscriber_handles`, `on_resend_subscription_updates`, `shutdown`).  The
server is external: it publishes and withdraws tracks, gives handles, and forgets all of them with a full
reconnect, after which the JoinResponse names only the publishers that are still there (`present`).
The link to the server loses nothing but with a full reconnect: that a resume alone may lose a request, as in
`LocalDataTracks`, is left out, and what `AgreedWithServer` and `NothingLeftOpen` say holds of links that lose nothing.
Left out too: packets, frames and their pipeline; one publisher.

### 2.8 Rpc and RpcCall

The network is the set of messages sent: each arrives any number of times, in any order, or never.
`perform_rpc` is the program counter `call[c]` with the two maps it registers in and the two
oneshots; `handle_incoming_rpc_request` is one task for each delivery of a request.  `RpcCall`
is the abstract call: it begins, its destination may answer it, and it returns once, with one of these
answers or an error of the caller's side.  `Rpc` implements it with the answers given as `AnswersGiven`.
A call may be dropped by the application (`cancelled`), which leaves its two entries in the maps.  Payloads are
abstracted to how an invocation can end.

### 2.9 DataStreams

A stream has its `RawStream` behind the mutex of its writers (`op[s]` is what the holder awaits), one
task publishes the packets of all streams, and the `IncomingStreamManager` hands chunks to readers.  Contents are the
numbers of the calls, so a repeated, missing or swapped chunk shows.  `retry` is what the data channel keeps of
refused packets (`ReliableData`); the wire is in order, but a session takes packets with it, and what the
receiver did not name in its SyncState comes once more.  Every chunk has length 1, so `bytes_processed` is
`chunk_index`.  Encryption is one flag that may change between packets.

### 2.10 DataTrackPackets

A packet has length 1 and a payload that names its frame and its place.  `Modulus` stands for 2^16, and the counters
begin at 0 or close to their wrap.  The channel is unordered and does not retransmit
(`rtc_session.rs:500-509`), so what is in the air arrives in any order or is lost.  `handle_enqueue_for_send` and
`handle_bytes_sent` are the two arms of the `DataChannelSender`; `push_to_partial` and `finalize` are the
`Depacketizer`.  `Modulus` has to exceed what is under way, as it does in the code.  The channel holds a set of packets
(`dc_buffer`, then `air`): it keeps no order that anybody could rely on.

### 2.11 FfiRoom

What the client heard is the set `told`.  `connect`, `publish_track`, `unpublish_track` and `disconnect` are
program counters over the awaits of the tasks that `livekit-ffi/src/server/room.rs` spawns; `room_task` forwards one event at a time, and
`forwarding` is the one it is at.  `pending_published` and `pending_unpublished` are the two sets of sids by which those tasks
wait for each other.  Underneath is the room of the SDK as far as it dispatches these events:
`PublishStep` for a request and for each job of a republishing task, `handle_resumed`, `handle_restarted`, the
unpublishing of `Room::close`, and a server that may end the room.  The ends of the SDK's awaits are `Environment`: a
publish, a republishing and `Room::close` may each take for ever.  A republishing task spawns its jobs one by one
(`JobSpawned`); one that finds a track gone panics (`RepublishPanics`, `livekit/src/room/mod.rs:1574`) and aborts those it has
spawned, wherever they are.  A job whose `remove_track` fails (`local_participant.rs:530`) goes on to publish and tells nothing.  Left out: the other
requests (data, transcription, DTMF, metadata, streams, RPC), the other events, the task that awaits the room's sid,
the handle table, audio filters and `dispose`.  `create_sender` is merged with `add_publication`.

## 3. The runs

Two workers, each run between seconds and three minutes on a small machine.  Deadlock is not checked because every one of
these systems may come to rest: an engine that is closed, senders and publications that are used up.

| run | instance | properties | shows |
|---|---|---|---|
| `engine` | 3 sessions, 1 publish_data, 2 attempts, 1 join retry, 2 reports (losses or updates of 1 participant), 1 close | `OneEngineTask`, `OpsOnCurrentSession`, `ReconnectionEnds`, `CloseCompletes` | handle, sessions and guards stay consistent; a cycle ends, and close() sends Disconnected, if the waits without a timer do |
| `room` | 2 sessions, no operation, 1 participant, 2 reports (losses or updates), 2 attempts, no join retry, 1 close | `SyncBeforeOffer`, `NobodyMissing`, `ImplementsEngine`, `DisconnectClosesRoom`, `RoomCloseEnds`, `DisconnectedIsFinal` | the room follows the engine, nobody goes missing, and a close ends with the room closed if the session and the other tasks let it |
| `signal` | 2 senders (one message not queuable), 2 streams, the first one stuck | `SendersUseCurrentStream`, `AtMostOnce`, `TaskClosesItsOwn`, `RestartEnds` | sends, pings, restart, close and failures keep to one stream |
| `data` | 2 reliable packets, threshold 0, 2 resumes of the publisher, 1 of the subscriber | `AmountIsExact`, `QueuesAreSound`, `PublishEnds`, `ForwardedIsEmitted` | the counter is exact, first transmissions are in sequence, callers return when the link does, the receiver gets what the server has |
| `nego` | 2 calls, both paths, 2 losses, 1 failing create_offer, 1 refused candidate | `OneNegotiationTask`, `RenegotiationIsOwed`, `AskedIsAgreed` | one loop, nothing put off is forgotten but by a refused candidate |
| `local_tracks` | 2 publications, channels of 2 slots, 1 full reconnect, lost stream or request, or track ended by the server | `ActiveHasTask`, `NoneLeftBehind`, `UnpublishedAtServer`, `ShutdownEnds` | tasks, descriptors and the server agree, shutdown ends |
| `remote_tracks` | 1 track that comes and goes, 2 handles, 2 callers, channels of 2 slots, 1 full reconnect | `AgreedWithServer`, `NothingLeftOpen`, `ShutdownEnds` | manager and server agree, nothing unused stays subscribed, no stream stays silent |
| `rpc` | 2 calls, 2 deliveries of requests, a handler that answers or fails | `ImplementsRpcCall`, `CallsEnd` | a call comes back once, with an answer of its own, if its publish ends |
| `streams` | 1 stream, 3 writes or closes, length 2 or undeclared, 2 disturbances, 1 packet under way | `InOrderWithoutGaps`, `CleanEndIsWhole`, `ReadersEnd` | what readers get, and when their streams end |
| `data_track_packets` | 2 frames of 0 to 4 packets, modulus 9 from 0 or 8, a reassembly buffer of 3, 1 refused send | `FramesComeOutWhole`, `FramesThatCameAreDelivered`, `QueueDrains` | reassembly across loss, reordering and wrap; the sender's queue drains |
| `ffi_room` | 1 publish, 1 unpublish, 1 disconnect, 1 cycle, 2 sids | `PublishedAfterCallback`, `UnpublishedBeforeCallback`, `EventsFramed`, `RequestsEnd` | callbacks and events come in the promised order, requests are answered if `Room::close` returns |
| `ffi_room_republish` | 1 publish, 2 cycles, 2 sids | `WaitsForRequests` | **violated**: section 5 |

### 3.1 Why the bounds are enough

*Sessions*: three allow a restart of a session that itself came from a restart; two suffice in the
room, whose handlers know no session.  *Attempts*: with two, one attempt fails, the next is the
escalated one, and using them up is reached too.  *Reports*: two are a loss and a second one that
meets the cycle the first has started; a forwarded update takes the place of either, so that in the room one
update meets one loss, or two updates each other (what more of them do is proved: `NobodyGoesMissing`).  *Closes*: a server's Disconnect
spawns its own close, so with one application call two meet.  What one operation and these few reports cannot show of the
engine's safety is proved for any number of them (section 4).  *Senders*: two, with the ping of each signal_task
and both locks, give every order of one reader waiting before and one behind a writer.  *Packets* of a
session: with threshold 0 one is in the channel while the other waits or is being published; two resumes in a row retransmit a
retransmission.  A lossy packet runs through the same arms without the retry queue.  *Calls* of the negotiation: one that owns
the loop and one that meets it at each of its points.  *Publications* of data tracks: one that is visited and one
still to be visited by a loop of the manager; with two slots both channels fill up, and one is full while the
other is not.  *Callers* of a remote track: the one whose stream ends and the one that arrives meanwhile; two handles
are that of the old and that of the new session.  *RPC*: two calls, so that an answer could reach the wrong one; two
deliveries are a request and its repetition.  *Streams*: three calls are two chunks and a close, or a write
that is cancelled and repeated; one stream, as streams share only the publishing task, which takes packets in
order.  *Frames*: two that overlap in the air, one of them larger than the reassembly buffer (`MaxBufferPackets` 3 stands for 128), both
counters, of sequences and of frames, across their wrap.  *FFI*: two sids are that of the publication and that of its republication; the room may also be
closed by the server, so a disconnect of the client meets another close.  Two cycles in the violated run are a full reconnect and a resume
during its republishing.

`MaxReports` counts all events the sessions report, the forwarded ones included.  `MaxDisturbances`, `MaxRefused`, `NumStreams`,
`PubResumes`, `SubResumes`, `MaxLosses`, `MaxFailures`, `MaxReconnects`, `MaxDeliveries`, `MaxUnderWay` are likewise bounds of the environment.

### 3.2 Fairness

Weak fairness is put on what the runtime owes, a task that can step does, and never on the environment's failures.

* The reconnect task (`ReconnectOwed`), every engine task, the room's handlers, the steps of `Room::close` between its awaits and
  the end of `room_task`, the senders and signal tasks, `data_channel_task`, the managers and forwarders of data tracks, the
  arrival of data streams, the tasks of the FFI server.
* Nothing is assumed of an await that no timer bounds and that another party may hold up: `RtcSession::close` and
  `SignalClient::close` (a sender whose peer stopped reading keeps their lock), `SignalClient::restart` and the resume of a link,
  `publish_data` (of the engine's callers, remote calls and data streams), `send_sync_state`, the republishing of tracks, the
  ends of the data-stream and data-track tasks for which `Room::close` waits, and in `FfiRoom` every await of the SDK,
  `Room::close` among them.  Where a property needs one of them to end, it says so in its premise (3.3).
* The FIFO of tokio's locks is part of the state in `SignalClient`, not a fairness assumption.  The
  transport's mutex in `PublisherNegotiation` is a plain one in the model, hence strong fairness of `OfferStep` and
  `Answering`: tokio's mutex is fair, a waiter gets it when it is free again and again.
* A track task, or a caller of `subscribe()`, that awaits a slot of the manager's channel gets it when there is one again
  and again (strong fairness of `TaskEnds`, `RequestSent`): tokio's channel serves its senders in turn.  Callers give
  up in the end, if nothing comes.
* An operation on the engine ends by its own timeout.  A `publish_data` (`OpMustEnd`) ends when its
  transport is up or its session is closed, and otherwise need not.  A remote call whose request is published goes on by a message or
  by one of its timers, which is the weak fairness of its caller; that the publish itself returns is no part of it.
* The server answers offers, requests and SyncStates that reach it.  What a stream has on the wire
  arrives unless it is lost; an open data channel over a link that is up transmits what it has taken.  `RtcSession::connect` and
  `wait_pc_connection` succeed or fail, as timers bound them.  No other courtesy of network, server or application is assumed.
* `FfiRoom` has weak fairness of its `System` as a whole, without its `Environment`.  Every behaviour of that module takes finitely many
  steps, because requests, cycles and sids are used up, so this is the same as fairness of each task; the polling
  loops of `unpublish_track` and `room_task` are guards, not steps.

### 3.3 Premises of conditional properties

Where the code does not keep a property in all cases, the property names the exception, and TLC refutes it
without the premise.

| property | what it supposes or excludes |
|---|---|
| `ReconnectionEnds` | the four waits without a timer end: for the guards of `publish_data`, for `RtcSession::close`, for `SignalClient::restart`, for the room's answer |
| `CloseCompletes` | `RtcSession::close` of the session in question returns (`Returns`) |
| `DisconnectClosesRoom` | every `RtcSession::close` returns |
| `RoomCloseEnds` | the same, and the data-stream and data-track tasks end |
| `SyncBeforeOffer` | the room is there; SyncState may have been skipped for want of a description |
| `DisconnectedIsFinal` | no republishing task is under way |
| `NobodyMissing` | an idle engine and a room that has handled its updates; the room may know more people than are there |
| `RestartEnds` | no close(), no sender that queues with the guard in hand, no send to a peer that does not read |
| `PublishEnds` | in the end the link is up and the channel open, or the session is closed |
| `ForwardedIsEmitted` | the server received the packets in order, and a downlink that fails is resumed again and again |
| `RenegotiationIsOwed` | an offer that a refused candidate stranded is excepted |
| `AskedIsAgreed` | `create_offer` succeeds, no answer crosses the rollback of its offer, no offer is stranded, a lost link comes up again |
| `NoneLeftBehind` | no event is lost to a full channel, no caller gave up, the signal stream lost no message about the track |
| `UnpublishedAtServer` | no full reconnect, and the signal stream lost no message about the track |
| `ShutdownEnds`, of both managers | the input channel is not full during the shutdown |
| `AgreedWithServer`, `NothingLeftOpen` | no event is lost to a full channel (`lost`), no publisher left during a full reconnect (`present`); the link is lossless by construction |
| `CallsEnd` | the `publish_data` of the call's request returns |
| `InOrderWithoutGaps` | an index used twice on a stream that also lost a packet is excepted |
| `CleanEndIsWhole` | in addition, a loss on a stream without a declared length |
| `ReadersEnd` | publications end (`PublicationsEnd`); a closed room, a stream that lost a packet or a publication are excepted |
| `FramesThatCameAreDelivered` | the frame fits into the buffer and its packets came together |
| `QueueDrains` | refused sends do not exceed the threshold by themselves |
| `PublishedAfterCallback` | `room_task` does not take the room to be reconnecting |
| `RequestsEnd` | `room_task` does not wait for a republished track, `Room::close` returns, and for an unpublish, the room is not closed meanwhile |

## 4. The proofs

All of them hold for every value of the constants that satisfies the named assumptions of the modules.  `SignallingProofs`
holds the proofs of two modules, the client and the negotiation whose offers it carries, and `DataTracksProofs` those of the local
manager and of the packets; that is why the definitions of `PublisherNegotiation` and `DataTrackPackets` say what they are of
(`NegotiationInit`, `PacketsSafe`, `at` for a program counter).

| module | theorem | property |
|---|---|---|
| `RoomSessionProofs` | `TypeCorrect` | `TypeOK` of the engine |
| | `OneEngineTaskHolds` | `OneEngineTask` |
| | `OpsKeepTheirSession` | `OpsOnCurrentSession` |
| | `UnlockedListens` | `UnlockedHasListener` |
| | `ResumesLiveSession` | `ResumeOnlyLiveSession` |
| | `EscalationOnly` | `NeverDowngrade` |
| | `RoomImplementsEngine` | `ImplementsEngine` |
| | `OfferFollowsSync` | `SyncBeforeOffer` |
| | `DisconnectedStays` | `DisconnectedIsFinal` |
| | `NobodyGoesMissing` | `NobodyMissing` |
| `SignallingProofs` | `TypeCorrect`, `OneStream` | `TypeOK`, `OneOpenStream` |
| | `SendersStay` | `SendersUseCurrentStream` |
| | `NoneTwice` | `AtMostOnce` |
| | `OwnStreamOnly` | `TaskClosesItsOwn` |
| | `OneLoop` | `OneNegotiationTask` |
| | `PutOffIsOwed` | `RenegotiationIsOwed` |
| `ReliableDataProofs` | `TypeCorrect` | `TypeOK` |
| | `AmountExact` | `AmountIsExact` |
| | `QueuesSound` | `QueuesAreSound` |
| `DataTracksProofs` | `TypeCorrect` | `TypeOK` of the local manager |
| | `DescriptorHasTask` | `ActiveHasTask` |
| | `SettledLeavesNone` | `NoneLeftBehind` |
| | `FramesComeOutWholeAlways` | `FramesComeOutWhole` |
| | `FramesThatCameAlways` | `FramesThatCameAreDelivered` |
| `RemoteDataTracksProofs` | `RemoteTypes` | `TypeOK` |
| | `Agreement` | `AgreedWithServer` |
| `DataStreamsProofs` | `TypeCorrect` | `TypeOK` |
| | `ReadersGetOrder` | `InOrder`, the first part of `InOrderWithoutGaps` |
| | `NoGapsUnlessReused` | `WithoutGaps` of the streams that used no index twice |
| | `ReadersGetAll` | `InOrderWithoutGaps` |
| | `CleanEndsAreWhole` | `CleanEndIsWhole` |
| `RpcProofs` | `NothingStaysPending` | `NothingLeftPending` |
| | `RpcImplementsCall` | `ImplementsRpcCall` |
| `FfiRoomProofs` | `PublishCallbackIsFirst` | `PublishedAfterCallback` |
| | `UnpublishCallbackIsLast` | `UnpublishedBeforeCallback` |
| | `EventsAreFramed` | `EventsFramed` |

The `TypeOK` of every module with proofs, the engine's `UnlockedHasListener`, `ResumeOnlyLiveSession` and `NeverDowngrade`, the
pending maps' `NothingLeftPending` and the signal client's `OneOpenStream` are in no run, because their proofs cover every instance.

### 4.1 The engine

None of the six is inductive.  `IInv == TypeOK /\ Control /\ Ownership /\ Guards` is:

* `Control` says what a program point of the reconnect task knows of its own variables: which points imply
  `full_reconnect`, that `reconnecting` is set exactly between `lock` and `finish`, which points have a new session.
  `ResumeOnlyLiveSession` needs it: a second attempt exists only once full_reconnect is set.
* `Ownership` says who may stop a session: `stopper[s] = "restart"` only while the task
  waits for exactly that session, an engine_task in the handle belongs to the open installed session, and an
  engine_task that listens is the installed one.  It is the argument why two listeners never
  coexist: a restart waits at `stop_old` before it connects.
* `Guards` says that read guards exclude the write guard, and that an operation uses the session of its
  guard.

One lemma per part (`TypeStep`, `ControlStep`, `OwnershipStep`, `GuardsStep`) goes through the actions of
`Next`; `InitInv` and `Invariance` put them together; each property is then a consequence of `IInv` at one
state, or of one step for `NeverDowngrade`.

### 4.2 The room

`RoomSessionProofs` proves `RoomImplementsEngine`: `RoomSafe => ImplementsEngine`, step by step.  The
theorems above are then theorems of the composition, and the engine's `IInv` is an invariant of it, at hand for
three strengthenings of the room's own properties:

* `AckInv`, for `SyncBeforeOffer`: between the reconnect task and the room there is at most one thing on its way, the
  announcement that is awaited, or the `send_sync_state` spawned for it, or the answer.  So the answer that lets a
  resume offer is that of the `send_sync_state` of this resume, which has sent its message or had none to send, and no
  answer to an older announcement stands in for it.
* `StopInv` and `FinalInv`, for `DisconnectedIsFinal`: whoever stops a session for a reason has closed the engine; once
  Disconnected is queued a resume under way is of the session that was closed, so it fails, and no announcement is queued
  behind Disconnected.
* `PeopleInv`, for `NobodyMissing`.  A promise about a participant ("the room knows it, or will once it has handled what is
  queued") is followed through a queue by `Kept`: what is put behind, taken from the front, or passed from the
  session's queue into the engine's is what `KeptAppend`, `KeptTail` and `KeptMonotone` are about.  `Fresh` says that sessions not yet joined have
  nothing queued.  The four parts are for the moments of a cycle: `ToldKnown`, while the session is installed, what the server
  told is known to the room behind its two queues; `ToldAhead`, while a new session connects, what it told is in
  the JoinResponse behind its own queue; `NoneBehind`, a new session joins only after the old engine task has ended, so nothing
  of the old session comes behind SignalRestarted; `CaughtUp`, a new session is installed only after
  SignalRestarted was handled, so that nothing of the new one comes before it.  The first is handed to the second by the
  join and taken back by the installation.

### 4.3 The signal client

A lock is a sequence, so the proofs begin with what an entry, a release from the middle and a release of
the head leave to the others (`Keeps`): nobody loses a lock by another's step.  `Exclusive` says that a writer excludes readers.
Above it `IInv` has these parts besides the types:

* `LockInv`: who uses the stream reads it, the restart connects under the write lock, a flush holds the queue.
* `CurrentInv`: the stream that is used is the one behind the lock.  It is kept because whoever replaces the stream writes, and a
  writer excludes the readers of `LockInv`.
* `OpenInv`: the write_task that runs is that of the stream behind the lock, and there is none while a restart is between
  its close and its connection.
* `TaskInv`: while nobody closes the client, a signal_task that runs is the one in the handle or the one the restart awaits, and
  the stream is its own.  That is `TaskClosesItsOwn` before the step.
* `MessagesInv`: a message is with its sender, in the queue or at the server, in one of the three places only.

### 4.4 The data channels

`ReliableDataProofs` rests on `IInv == TypeOK /\ NumberedOnce /\ Placed /\ AmountIsExact`.

* `NumberedOnce`: the numbers given are 1 to `next_sequence - 1`, one packet each, and a packet that waits for its number waits
  once.  The type invariant needs it: it bounds the numbers by the number of packets.
* `Placed`: what was handed to the channel has no gap (`Earlier`); what a resume puts into the retry queue had been handed over before;
  a packet is once in the retry queue, the request queue or the events (`OnePlace`); and what was not sent
  yet waits in the order of its numbers, in the request queue first and as an event after it.  `QueuesAreSound` alone is not inductive: a resume moves
  packets from the retry queue behind those of the events, and the order of the first transmissions survives
  only because none of the packets it moves is one of them.  A task that ended left nothing behind.
* `AmountIsExact`: what the task counts as buffered, against the channel and the changes under way as partial sums.

`SendUntilThreshold` is a loop: its effect is described by the number of requests it takes, and the queues by what is left of them.
`SumOf` and `Missing` are recursive functions.  The induction theorems of the library cannot be used (their hypothesis is an
operator), so what is needed of `SumOf` for every length is proved by the least length at which it fails.

### 4.5 The negotiation and local data tracks

`LoopInv` adds to `OneNegotiationTask` that a loop that runs has `task_running` set, which is what stops the next call.
(Both are part of `NegotiationInv`, in `SignallingProofs`.)  `OfferInv` adds to `RenegotiationIsOwed` who holds the transport's mutex: it is held across `create_offer`, and
`renegotiate` is false whenever an offer holds it, so a flag that is set has an answer to come, or a refused candidate has
left it behind (`stranded`).

`TasksInv`, for `ActiveHasTask`, extends the property to the moment in which `on_republish_tracks` has a descriptor
in hand: a track that it still has to visit has a task that runs, or its UnpublishRequest is in the channel.  The
lemmas before it say what an event that is put into or taken from a bounded channel does to the events in it.

`SettledInv`, for `NoneLeftBehind`, follows a track from the moment the server publishes it.  `KeptInv` is the chain of custody:
there is a task that runs, or its UnpublishRequest, or the manager's SfuUnpublishRequest at one of the three stages of its way
to the server, or a granting answer that is on its way to the manager.  Nothing in the chain is taken without
putting the next link in its place, but by the signal stream, and that is what `missed` records.  Two cases need more: the answer of a publication makes a task only if
somebody awaits the result (`AwaitedInv`), and a manager or a forwarder that ends breaks the chain, but only with a room that
has closed, at whose server there is no track any more (`ClosingInv`).

### 4.6 Remote data tracks

`AgreedWithServer` speaks of the moment when nothing is under way; its invariant has to say what holds while anything may be.
Two chains of channels join the manager and the server: `answers` before `event_in` one way, `output` before `event_out` the other
way.  `LastToCome(X, e)` says that e is the last event of the kinds X in the first chain, `NoneComes(X)` that there is none;
`LastToGo` and `NoneGoes` say so of the second.  For each track, as long as nothing was lost, the publisher has not left unseen
and the room is open (`Undisturbed`), `TrackInv` is:

* `UnknownInv`, `NamedInv`, `WithdrawnInv`, of the publication: an update that omits a published track comes before
  every one that names it (`Precede`), and the last update on its way omits a withdrawn track, or the manager has
  forgotten it.  So a descriptor is only given up when the track is gone for good.
* `ReleasedInv` and `WantedInv`, of the requests: without a subscription the last request on its way is to end it, or there is none and
  the server serves none; with one the last request is to begin it, or the server serves it, unless a
  ResendSubscriptionUpdates is still to come.
* `AnnouncedInv`, of the handles: what the server serves is the last handle it announced, or the manager has it, unless a request to end it
  is on its way.

A request and an answer may cross anywhere in the two chains; each part says which side has the last word.  A new
subscription finds no handle of an old one in its way: before it was asked for, the track was released, so the
server serves it only if an Unsubscribe is still under way, and `AnnouncedInv` is silent then.  A new session empties the server and cuts the
first chain, and puts an update and a Resend behind the cut, on which `WantedInv` waits.

The sections before the steps are about channels alone: what is last, and what precedes what, when an event is put into, taken
from or passed between two of them (`GoesOver`, `FirstShrinks`, `SecondGrows`).  The steps that are not about a track leave its
`TrackInv` by `QuietStep`; those of the shutdown contradict `ClosingInv`, since manager and forwarder end only with a room that closes.

### 4.7 Remote calls

`RpcProofs` rests on `IInv`: the type invariant; `ChannelsInv`, which says at which points of `perform_rpc` an entry
may be in a map and that an oneshot is filled only after its entry was taken out; `OutcomeInv`, a call is over
exactly when it has an outcome; `AnswersInv`, a response on the wire or in a oneshot was given by a task of the
destination to this very call; and `NothingLeftPending` itself.  With them each step of `Rpc` is a step of
`RpcCall` or a stutter: the caller's steps in `CallerRefines`, those of the destination's tasks in `TaskRefines`,
the arrival of messages in `ArrivalRefines`.  `MovedTask` and `KeptAnswers` say what a task that goes on
does to the set of answers given: nothing is ever taken back.

### 4.8 Data streams

The runs state `InOrderWithoutGaps` of what readers have; the proofs need what is on the way to them.  `OnTheWay` is every
packet that was ever put on the wire, `Pipe` adds those in the queue and in the retry queue.

* `Numbered`: of two chunks of a stream the one with the higher index has the higher number, and on a
  stream that used no index twice two chunks with one index are the same chunk.
* `Placed`: what a reader has at place k came in a chunk with index k - 1, and the descriptor's index is the
  number of its items.

Order follows from both: places are indices, and numbers grow with them.  So does the absence of gaps: a chunk between the first and
the last item has its index between theirs, and the item at that index is that chunk.

That an index used twice does no harm unless a packet was lost, and that a clean end means all of it, takes a second invariant above the first one,
`HeldInv == IInv /\ Flow /\ Held`.  `Flow` is about the sender and the wire:

* `Latest`, `Opening`, `Opened`: a write that waits is the last call of its stream; no chunk is made before the header was answered, and
  no header is left to be published after that.  So a stream is never opened again behind its chunks (`HeaderFirst`).
* `AckedInOrder`: a chunk whose write returned Ok is on the wire before every later one; `OwedBefore`: and before every trailer that
  counts on it.  Both hold through cancelled and refused writes, because those alone leave packets behind that may come late.

`Held` is about the receiver: a descriptor is of an open reader and has its length (`Described`), and the reader of a stream that
lost nothing has every chunk that arrived (`Seen`).  With `AckedInOrder` nothing is missing before
the last item (`NoneLeftOut`), with `OwedBefore` nothing at a trailer (`AllWhole`).

### 4.9 What a foreign client hears

`FfiRoomProofs` splits `Next` (`NextSplits`) into the steps of the SDK, which say nothing to the client
(`SdkIsSilent`), and those of the FFI server.  Each theorem then has an invariant of its own:

* `UnpublishInv`: a sid is in `pending_unpublished` only once its event was told, and a request that was answered
  had found its sid there.
* `FrameInv`: `room_task` runs only between the ConnectCallback and RoomEos, and a disconnect that comes early finds the
  handle's mutex held until the tasks are there to be stopped.
* `PublishInv`: a sid enters `pending_published` only after the callback of the request that was given it, and a request
  keeps its sid.

### 4.10 The packets of a data track

The two theorems suppose `NumbersSuffice`: no frame has more packets than there are sequences, and no more frames are pushed than
there are frame numbers, 65536 in the code.  Without it an old packet could pass for one of a new frame, which the 16 bits
of the format do not rule out.  Within it the sequence goes round as often as it likes, the frame number once, and frames, buffers,
threshold and failures are of any size.  The configuration of the run satisfies it.  Three invariants lead to the properties:

* `NumbersInv`: every packet there is, in whatever place, is what `packetize` made of its place in its frame (`Genuine`),
  and two packets of a frame have sequences as far apart as their places (`InStep`).  So a frame number names one frame
  (`NumbersDiffer`), a sequence within it one packet, and the payload tells packets apart (`OnePacket`).
* `PlaceInv`: a packet is in one place, and what waits for the room is younger than all that has left it.  So what is in the air has not arrived
  before, and a frame whose first packet arrives now has not come out (`Novel`).
* `DepacketizerInv`: the partial frame holds packets of one frame that has not come out, each at its sequence (`GatheredInv`); what
  came out is whole and began with a packet that came (`DeliveredInv`); and an unbroken run of a frame's packets
  is all in the partial frame (`RunInv`), which therefore has room for the next one (`Fits`).

`finalize` computes the sequences from the first to the last with wrapping arithmetic; `Finalized` shows that they are those of the frame's
packets, so that it gives the whole frame or nothing.  That the last packet of a run finds all others there is a count: as many
different places as a frame has are all of them (`Counted`).  `SingleArrives`, `StartArrives` and `NextArrives` are
the arrival's three cases.

### 4.11 Only model-checked

All liveness (`ReconnectionEnds`, `CloseCompletes`, `DisconnectClosesRoom`,
`RoomCloseEnds`, `RestartEnds`, `PublishEnds`, `ForwardedIsEmitted`, `AskedIsAgreed`,
`UnpublishedAtServer`, `ShutdownEnds`, `NothingLeftOpen`, `CallsEnd`, `ReadersEnd`, `QueueDrains`, `RequestsEnd`) rests on fairness and is out of
the prover's reach.  Every safety property of a passing run is a theorem.

## 5. Where the code and its words part

One run ends in a counterexample.

* `ffi_room_republish`.  `forward_event` waits, for LocalTrackPublished, until the task of a PublishTrackRequest has put
  the sid into a set; its comment (`livekit-ffi/src/server/room.rs:1052-1058`) excepts a reconnecting room, where tracks are
  republished without a request.  But a resume that comes during the republishing of a full reconnect announces
  Reconnected before the republishing task has ended: the next republished track finds
  `reconnecting` false, and `room_task` waits for a callback nobody sends (`:1059-1066`).  The client hears nothing more of this room.

### Divergences without a run of their own

Met while modelling and reproduced with TLC; each can be seen again with the definition or the change
named.

**Engine and room**

* `close()` sets `closed` and takes the engine_task, but a restart that is past `TakeOld`
  has already taken it and later installs a new session and task without looking at `closed`.  The comment at
  `livekit/src/rtc_engine/mod.rs:736` counts on close() cancelling the reconnection.  `ClosedEngineStops`, under `Safe` with 3 sessions.
* A Close that arrives after the last attempt succeeded and before `reconnecting = false` only updates flags nobody
  reads again (`rtc_engine/mod.rs:707`): the engine idles on a dead session.  `LossesAreRecovered` in `engine`.
* A `publish_data` blocked on a dead channel keeps the read guard the reconnection waits for, and neither ever ends: drop the
  first premise of `ReconnectionEnds`, or that of `PublishEnds`, `CallsEnd` or `ReadersEnd`.
* `RtcSession::close` waits for the write lock of the stream (`CloseEnds`, below), and everything above it waits with it: drop
  `Returns` in `CloseCompletes`, `DisconnectClosesRoom` or `RoomCloseEnds`.  `Room::close` then waits for the
  data tracks, whose shutdown may not end either (`ShutdownEnds`): drop the second premise of `RoomCloseEnds`.
* `send_sync_state` returns without a message when a description or the subscriber is missing (`livekit/src/room/mod.rs:1325-1346`), and
  `tx` is answered all the same (`:1533`): the publisher's offer then follows no SyncState, although the comment at
  `rtc_engine/mod.rs:907` says that it must.  Ask for `synced = "sent"` in `SyncBeforeOffer`.
* The republishing task announces Connected after Disconnected: drop `republishing = 0` in
  `DisconnectedIsFinal`.
* Participants who are gone may stay with the room: Restarting is announced only by the first attempt, so those of the old
  session survive a full reconnect that began as a resume; and an update of the old session may be handled
  after Restarting and bring one back.  Ask for `remote_participants \subseteq told` in `NobodyMissing`.
* The republishing task unwraps the track of a publication the application unpublished after the snapshot
  (`livekit/src/room/mod.rs:1574`): it panics and Reconnected is never announced; one unpublished a little later is published again.
  Both are steps of `FfiRoom` (`RepublishStarts`).

**Signal client**

* A sender awaits the queue with the read guard of the stream; another holds the
  queue and awaits the stream; `close()` waits for the write lock between them.  `CloseEnds` with 3 queuable senders
  and 1 stream.
* `close()` waits behind a sender whose peer stopped reading, before the bound in
  `SignalStream::close` begins: `CloseEnds` with `Stuck = {1}` and one sender.
* A queuable message sent when the stream is gone and `reconnecting` is not set yet is dropped
  (`signal_client/mod.rs:421-435`, the `if let` at `:430` has no else): a resume alone may so cost an SfuUnpublishRequest, and the
  server keeps the track (`StreamLost` in `LocalDataTracks`; drop `missed` in `UnpublishedAtServer`); a sender that flushed before a restart may overtake the queue
  (`:404`, `:428`); a restart under way stores a stream after close() returned (`:406`).  These need a history
  of dropped messages and of the order of calls, which the module does not keep.

**Data channels and negotiation**

* `update_packet_rx_state` logs that it ignores a duplicate, its caller emits it (`rtc_session.rs:1055`).
  `DuplicatesIgnored` in `data`.
* The retry queue is trimmed to the size of the last buffered amount change (`rtc_session.rs:961`): what was under
  way on a lost link may no longer be in it.  Retried packets are queued behind newer ones
  (`:1028`): remove the premise of `ForwardedIsEmitted`.
* A call that reads `waiting_for_answer` before the negotiation loop ends, or finds `task_running`
  not cleared yet, leaves `PendingRetry` for a loop that is gone; every later call finds the
  same state and does the same.  `RetryIsMade` with 2 calls, no loss and no failure.
* A call made while the debounced offer is being created is accepted by the debouncer and starts nothing
  (`rtc_session.rs:2041`).
* A pending candidate that is refused makes `set_remote_description` return between the answer and its look at `renegotiate`
  (`peer_transport.rs:113-115`): the offer that was put off is not made until somebody asks for another one.  Drop `stranded` in
  `RenegotiationIsOwed` or `AskedIsAgreed`.
* The answer to an offer that an ICE restart rolled back is taken for the answer to the new one: remove
  `AnswersMatch` from `AskedIsAgreed`.

**Data tracks**

* The caller of `publish_track` times out; the server's answer is already in the channel when
  `PublishCancelled` is put behind it.  The answer finds a descriptor nobody waits for and returns
  (`livekit-datatrack/src/local/manager.rs:197`), although the comment at `:188` promises an unpublish
  request for this case.  `CancelledIsUnpublished` with 1 publication and no disturbance.
* `on_republish_tracks` overwrites an application's Unpublished that the track task has not seen yet: the track is
  published again although it was unpublished.  Drop the premise of `UnpublishedAtServer`.
* `shutdown` awaits the track tasks, which await a slot of the channel nobody drains any more, and `Room::close`
  awaits `shutdown`.  Drop the premise of `ShutdownEnds`, in either manager.
* Shutdown, RepublishTracks, subscriber handles and the server's answers are sent with `try_send`, and lost when the channel is
  full; the subscriber's channel of 16 slots is shared with the packets.  Drop
  `~lost` in `NoneLeftBehind` or `AgreedWithServer`.  A refused or repeated answer to a republish removes the descriptor of
  a track whose task runs on (`local/manager.rs:205`, `:209`): drop the second disjunct of `NoneLeftBehind`.
* Two remote tracks that exchange their handles in a full reconnect: the second update removes the index entry the first
  has just made (`remote/manager.rs:253`), and the packets of an active subscription find no track.  `ActiveIsRouted` with 2
  tracks.
* A publisher that leaves during a full reconnect is not in the JoinResponse, and nothing removes its descriptors and streams: drop
  `present`.
* A packet of an older frame takes the partial frame of the newer one away, and a Final that overtakes its last Inter makes the frame
  Incomplete, although the buffer is there for reordering.  A frame of more than 128 packets is pushed and never delivered;
  an empty one has no packets.  A send that the channel refuses counts as buffered for ever.

**Remote calls and data streams**

* A `perform_rpc` future that is dropped leaves both its map entries for ever: drop the exception in
  `NothingLeftPending`.  A response without an ack, or before it, ends with ConnectionTimeout although the answer is there
  (`local_participant.rs:892`).  A repeated request runs its handler again.  RecipientDisconnected is never produced.
* A write that is cancelled while it awaits its answer leaves its packet queued, and the next write uses the same index: a reader
  gets MissedChunk.  A packet that was refused stays in the retry queue and may come after all.
* `close` of one clone of a writer does not stop another clone's write (`data_stream/outgoing.rs:166`), although the error
  AlreadyClosed exists for it (`data_stream/mod.rs:35-36`).  `WrittenBeforeTheEnd` with two streams' worth of calls.
* Without `total_length`, losing the last chunks, or a failed write followed by the trailer that Drop sends, is a clean end with
  part of the content: drop the disjuncts of `CleanEndIsWhole`.
* A cancelled or failed header, a lost trailer, a full reconnect, a publisher that left, or `Room::close` leave readers open
  for ever (`ReadersEnd` excludes them).  Streams are keyed by their id alone, and a repeated header re-opens a
  stream that was closed.

**FFI server**

* A publish during the republishing may hear LocalTrackPublished before its callback: drop `~reconnecting` in
  `PublishedAfterCallback`.
* A republishing job whose `remove_track` fails (`local_participant.rs:530`) has removed the publication and says nothing of it; it
  publishes the track again, and the client never hears LocalTrackUnpublished of the old one (`JobUnpublishes`).
* `FfiRoom::close` awaits `Room::close` without a bound (`room.rs:314`): drop the second premise of `RequestsEnd`.
* An unpublish polls for ever once `room_task` has ended or `Room::close` has cleared the dispatcher: drop the last two
  disjuncts of `RequestsEnd`.  Data that is still queued when `close_tx` fires gets no callback.

**Participants**, read and not modelled: a media task may add a publication again that was unpublished meanwhile
(`remote_participant.rs:176`); `set_subscribed(false)` before the media arrives leaves a track attached; two UpdateSubscription
tasks may run out of order (`:364`); `set_enabled` unwraps a track that may be gone (`publication/remote.rs:284`);
TrackUnsubscribed may come twice (`:94-106`); `set_metadata` registers its waiter after the request was sent
(`local_participant.rs:379-394`).

## 6. What is not modelled, and the plan

* *Participants and publications.*  The code keeps none of the orders one would state (the list above), and what is left to say is
  that a field has the value last assigned.  The set of remote participants is in `RoomSession`, the local publications in `FfiRoom`.
* *The room's other handlers* (speakers, chat, transcription, connection quality, data packets): each forwards one event, and keeps
  no state that another step reads.
* *The first connection of the signal client*, with its regions, paths and proxy: a sequence of attempts, each of which either
  answers or fails, before anything is shared.
* *The other FFI requests*: a lookup of a handle, one call of the SDK, and one callback.
* *Time*: the 30 s expiry of the receive state and of `TtlMap`, ping and reconnect intervals.  A timeout is a step that
  may happen.
* *Numbers as wide as they are*: counters of 2^32 packets.  The 16-bit ones are modelled with a small modulus.
* *Native media code, pixel and sample conversion, inference*, and generated messages, which are most lines of this repository.

Next would come a `ParticipantTracks` module, once the code fixes which of subscription, media and publication wins; an abstract lifecycle
(`Connected`, `Reconnecting`, `Closed`) that `RoomSession` implements; and the theorems about
`DataTrackPackets` for more frames than there are frame numbers, with a bound on what is under way instead.
