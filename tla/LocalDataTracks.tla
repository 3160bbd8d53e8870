---------------------------- MODULE LocalDataTracks ----------------------------
(***************************************************************************)
(* livekit-datatrack/src/local: the manager of the data tracks that the    *)
(* local participant publishes.  It is one task that takes its input from  *)
(* a bounded channel, sends its output into another, and starts a task for *)
(* each track and one for each result it owes a caller.  The room forwards *)
(* the output to the server and the server's answers to the input.         *)
(*                                                                         *)
(* A publication is named by its handle.  Frames and their packets are     *)
(* left out.  The server is external.                                      *)
(***************************************************************************)
EXTENDS Naturals, Sequences, FiniteSets, SequencesExt

CONSTANTS
    Handles,               \* handles of the publications (bound)
    EVENT_BUFFER_COUNT,    \* capacity of the input and of the output channel
    MaxDisturbances        \* full reconnects, losses of the signal stream or of a
                           \* request, and tracks that the server ends of its own
                           \* accord, together (bound)

ASSUME BufferAssumption == EVENT_BUFFER_COUNT \in Nat \ {0}
ASSUME DisturbancesAssumption == MaxDisturbances \in Nat

VARIABLES
    call,           \* what publish_track returned to its caller
    result,         \* the oneshot from the manager to forward_publish_result
    event_in,       \* the input channel
    event_out,      \* the output channel
    lost,           \* history: a full input channel has cost an event
    descriptors,    \* the manager's map, by handle
    state,          \* PublishState in the watch channel of each track
    task,           \* TrackTask of each handle
    mgr,            \* what the manager is doing
    todo,           \* descriptors a loop of the manager has still to visit
    output,         \* the output event the manager awaits a slot for
    forwarder,      \* local_dt_forward_task
    \* the room, the connection and the server
    closing,        \* Room::close has closed the engine and sent close_tx
    restarted,      \* a full reconnect that handle_restarted has not seen yet
    requests, answers, server, disturbances,
    missed          \* history: the signal stream has lost a message about the handle

callVars == <<call, result>>
chanVars == <<event_in, event_out, lost>>
trackVars == <<state, task>>
mgrVars == <<descriptors, mgr, todo, output>>
roomVars == <<forwarder, closing, restarted>>
serverVars == <<requests, answers, server, disturbances, missed>>
vars == <<callVars, chanVars, trackVars, mgrVars, roomVars, serverVars>>

-----------------------------------------------------------------------------
Event(type, h) == [type |-> type, handle |-> h]
None == Event("None", "none")
Answer(h, ok) == [type |-> "SfuPublishResponse", handle |-> h, ok |-> ok]

Full(channel) == Len(channel) >= EVENT_BUFFER_COUNT

\* The receiver of the input lives until the manager's task has ended.
InputOpen == mgr # "ended"

\* ManagerInput::send, a try_send: the event is dropped when there is no room.
TrySend(event) ==
    /\ event_in' = IF InputOpen /\ ~Full(event_in) THEN Append(event_in, event)
                   ELSE event_in
    /\ lost' = (lost \/ (InputOpen /\ Full(event_in)))

Init ==
    /\ call = [h \in Handles |-> "none"]
    /\ result = [h \in Handles |-> "none"]
    /\ event_in = <<>>
    /\ event_out = <<>>
    /\ lost = FALSE
    /\ descriptors = [h \in Handles |-> "none"]
    /\ state = [h \in Handles |-> "none"]
    /\ task = [h \in Handles |-> "none"]
    /\ mgr = "idle"
    /\ todo = {}
    /\ output = None
    /\ forwarder = "running"
    /\ closing = FALSE
    /\ restarted = FALSE
    /\ requests = <<>>
    /\ answers = <<>>
    /\ server = {}
    /\ disturbances = 0
    /\ missed = {}

-----------------------------------------------------------------------------
(* The application *)

publish_track(h) ==
    /\ call[h] = "none"
    /\ TrySend(Event("PublishRequest", h))
    /\ call' = [call EXCEPT ![h] = IF InputOpen /\ ~Full(event_in)
                                   THEN "waiting" ELSE "err"]
    /\ UNCHANGED <<result, event_out, trackVars, mgrVars, roomVars, serverVars>>

\* PUBLISH_TIMEOUT: the caller drops its receiver.
PublishTimeout(h) ==
    /\ call[h] = "waiting"
    /\ call' = [call EXCEPT ![h] = "timeout"]
    /\ UNCHANGED <<result, chanVars, trackVars, mgrVars, roomVars, serverVars>>

\* unpublish(), or the last clone of the track is dropped.
local_unpublish(h) ==
    /\ call[h] = "ok"
    /\ state[h] # "Unpublished"
    /\ state' = [state EXCEPT ![h] = "Unpublished"]
    /\ UNCHANGED <<callVars, chanVars, task, mgrVars, roomVars, serverVars>>

-----------------------------------------------------------------------------
(* forward_publish_result *)

\* The select is biased towards the result.  A caller that gave up drops the
\* track that comes with it.
ForwardResult(h) ==
    /\ result[h] \in {"ok", "err"}
    /\ result' = [result EXCEPT ![h] = "closed"]
    /\ IF call[h] = "waiting"
       THEN call' = [call EXCEPT ![h] = result[h]] /\ UNCHANGED state
       ELSE /\ state' = IF result[h] = "ok"
                        THEN [state EXCEPT ![h] = "Unpublished"] ELSE state
            /\ UNCHANGED call
    /\ UNCHANGED <<chanVars, task, mgrVars, roomVars, serverVars>>

\* The caller gave up first.
ForwardCancelled(h) ==
    /\ result[h] \in {"open", "dropped"}
    /\ call[h] = "timeout"
    /\ result' = [result EXCEPT ![h] = "closed"]
    /\ TrySend(Event("PublishCancelled", h))
    /\ UNCHANGED <<call, event_out, trackVars, mgrVars, roomVars, serverVars>>

-----------------------------------------------------------------------------
(* TrackTask *)

TaskSeesUnpublished(h) ==
    /\ task[h] = "running"
    /\ state[h] = "Unpublished"
    /\ task' = [task EXCEPT ![h] = "sending"]
    /\ UNCHANGED <<callVars, chanVars, state, mgrVars, roomVars, serverVars>>

\* Mutant: the request is dropped when the channel is full.
TaskEnds_TrySend(h) ==
    /\ task[h] = "sending"
    /\ TrySend(Event("UnpublishRequest", h))
    /\ task' = [task EXCEPT ![h] = "ended"]
    /\ UNCHANGED <<callVars, event_out, state, mgrVars, roomVars, serverVars>>

\* event_in_tx.send(UnpublishRequest).await, then the task returns.
TaskEnds(h) ==
    /\ task[h] = "sending"
    /\ InputOpen => ~Full(event_in)
    /\ TrySend(Event("UnpublishRequest", h))
    /\ task' = [task EXCEPT ![h] = "ended"]
    /\ UNCHANGED <<callVars, event_out, state, mgrVars, roomVars, serverVars>>

-----------------------------------------------------------------------------
(* Manager *)

Takes(type) ==
    /\ mgr = "idle" /\ output = None
    /\ event_in # <<>> /\ Head(event_in).type = type
    /\ event_in' = Tail(event_in)
    /\ UNCHANGED <<event_out, lost>>

on_publish_request ==
    /\ Takes("PublishRequest")
    /\ LET h == Head(event_in).handle IN
         /\ descriptors' = [descriptors EXCEPT ![h] = "pending"]
         /\ result' = [result EXCEPT ![h] = "open"]
         /\ output' = Event("SfuPublishRequest", h)
    /\ UNCHANGED <<call, trackVars, mgr, todo, roomVars, serverVars>>

on_publish_cancelled ==
    /\ Takes("PublishCancelled")
    /\ descriptors' = [descriptors EXCEPT ![Head(event_in).handle] = "none"]
    /\ UNCHANGED <<callVars, trackVars, mgr, todo, output, roomVars, serverVars>>

\* A pending publication loses its sender, an active one ends.
remove_descriptor(h) ==
    /\ descriptors' = [descriptors EXCEPT ![h] = "none"]
    /\ result' = IF descriptors[h] = "pending" /\ result[h] = "open"
                 THEN [result EXCEPT ![h] = "dropped"] ELSE result
    /\ state' = IF descriptors[h] = "active"
                THEN [state EXCEPT ![h] = "Unpublished"] ELSE state
    /\ UNCHANGED <<call, task>>

\* Mutant: the server is not told.
on_unpublish_request_Local ==
    /\ Takes("UnpublishRequest")
    /\ remove_descriptor(Head(event_in).handle)
    /\ UNCHANGED <<mgr, todo, output, roomVars, serverVars>>

on_unpublish_request ==
    /\ Takes("UnpublishRequest")
    /\ remove_descriptor(Head(event_in).handle)
    /\ output' = Event("SfuUnpublishRequest", Head(event_in).handle)
    /\ UNCHANGED <<mgr, todo, roomVars, serverVars>>

on_sfu_unpublish_response ==
    /\ Takes("SfuUnpublishResponse")
    /\ remove_descriptor(Head(event_in).handle)
    /\ UNCHANGED <<mgr, todo, output, roomVars, serverVars>>

\* Mutant: the answer is ignored.
UnknownPublished_Ignored(h) ==
    /\ descriptors[h] = "none"
    /\ UNCHANGED <<callVars, trackVars, descriptors, mgr, todo, output>>

\* An answer that nobody waits for any more.
UnknownPublished(h) ==
    /\ descriptors[h] = "none"
    /\ output' = Event("SfuUnpublishRequest", h)
    /\ UNCHANGED <<callVars, trackVars, descriptors, mgr, todo>>

\* The answer to a pending request; with a track its task starts.
PendingPublished(h, ok) ==
    /\ descriptors[h] = "pending"
    /\ IF result[h] = "closed"
       THEN /\ descriptors' = [descriptors EXCEPT ![h] = "none"]
            /\ UNCHANGED <<result, trackVars>>
       ELSE IF ok
       THEN /\ descriptors' = [descriptors EXCEPT ![h] = "active"]
            /\ result' = [result EXCEPT ![h] = "ok"]
            /\ state' = [state EXCEPT ![h] = "Published"]
            /\ task' = [task EXCEPT ![h] = "running"]
       ELSE /\ descriptors' = [descriptors EXCEPT ![h] = "none"]
            /\ result' = [result EXCEPT ![h] = "err"]
            /\ UNCHANGED trackVars
    /\ UNCHANGED <<call, mgr, todo, output>>

\* The answer to a republish; any other answer to an active track removes its
\* descriptor and does nothing else.
ActivePublished(h, ok) ==
    /\ descriptors[h] = "active"
    /\ descriptors' = [descriptors EXCEPT ![h] = "none"]
    /\ IF state[h] = "Republishing" /\ ok
       THEN mgr' = "republished" /\ todo' = {h}
       ELSE UNCHANGED <<mgr, todo>>
    /\ UNCHANGED <<callVars, trackVars, output>>

on_sfu_publish_response ==
    /\ Takes("SfuPublishResponse")
    /\ LET h == Head(event_in).handle
           ok == Head(event_in).ok
       IN  UnknownPublished(h) \/ PendingPublished(h, ok) \/ ActivePublished(h, ok)
    /\ UNCHANGED <<roomVars, serverVars>>

\* state_tx.send(Published), after the state was read: the application may
\* have unpublished the track meanwhile.
Republished(h) ==
    /\ mgr = "republished" /\ h \in todo
    /\ state' = [state EXCEPT ![h] = "Published"]
    /\ descriptors' = [descriptors EXCEPT ![h] = "active"]
    /\ mgr' = "idle"
    /\ todo' = {}
    /\ UNCHANGED <<callVars, chanVars, task, output, roomVars, serverVars>>

Known == {h \in Handles : descriptors[h] # "none"}

on_republish_tracks ==
    /\ Takes("RepublishTracks")
    /\ todo' = Known
    /\ mgr' = IF Known = {} THEN "idle" ELSE "republish"
    /\ UNCHANGED <<callVars, trackVars, descriptors, output, roomVars, serverVars>>

\* One turn of its loop: a pending publication fails, an active one becomes
\* Republishing, whatever its state was.
Republish(h) ==
    /\ mgr = "republish" /\ output = None /\ h \in todo
    /\ IF descriptors[h] = "pending"
       THEN /\ descriptors' = [descriptors EXCEPT ![h] = "none"]
            /\ result' = IF result[h] = "open" THEN [result EXCEPT ![h] = "err"]
                         ELSE result
            /\ UNCHANGED <<state, output>>
       ELSE /\ state' = [state EXCEPT ![h] = "Republishing"]
            /\ output' = Event("SfuPublishRequest", h)
            /\ UNCHANGED <<descriptors, result>>
    /\ todo' = todo \ {h}
    /\ mgr' = IF todo' = {} THEN "idle" ELSE "republish"
    /\ UNCHANGED <<call, chanVars, task, roomVars, serverVars>>

\* event_out_tx.send(..).await; it fails at once without a receiver.
OutputSent ==
    /\ output # None
    /\ forwarder = "running" => ~Full(event_out)
    /\ event_out' = IF forwarder = "running" THEN Append(event_out, output)
                    ELSE event_out
    /\ output' = None
    /\ UNCHANGED <<callVars, event_in, lost, trackVars, descriptors, mgr, todo,
                   roomVars, serverVars>>

\* The loop ends, shutdown() visits the descriptors.  The input channel stays
\* open, but nobody takes from it.
on_shutdown ==
    /\ Takes("Shutdown")
    /\ mgr' = "shutdown"
    /\ todo' = Known
    /\ UNCHANGED <<callVars, trackVars, descriptors, output, roomVars, serverVars>>

\* Mutant: the track is not told that it ends.
ShutdownTrack_Silent(h) ==
    /\ mgr = "shutdown" /\ h \in todo /\ descriptors[h] = "active"
    /\ \A g \in todo : descriptors[g] # "ending"
    /\ descriptors' = [descriptors EXCEPT ![h] = "ending"]
    /\ UNCHANGED <<callVars, chanVars, trackVars, mgr, todo, output, roomVars,
                   serverVars>>

\* An active track is told to end, and its task awaited before the next.
ShutdownTrack(h) ==
    /\ mgr = "shutdown" /\ h \in todo /\ descriptors[h] = "active"
    /\ \A g \in todo : descriptors[g] # "ending"
    /\ descriptors' = [descriptors EXCEPT ![h] = "ending"]
    /\ state' = [state EXCEPT ![h] = "Unpublished"]
    /\ UNCHANGED <<callVars, chanVars, task, mgr, todo, output, roomVars,
                   serverVars>>

ShutdownPending(h) ==
    /\ mgr = "shutdown" /\ h \in todo /\ descriptors[h] = "pending"
    /\ \A g \in todo : descriptors[g] # "ending"
    /\ descriptors' = [descriptors EXCEPT ![h] = "none"]
    /\ result' = IF result[h] = "open" THEN [result EXCEPT ![h] = "err"] ELSE result
    /\ todo' = todo \ {h}
    /\ UNCHANGED <<call, chanVars, trackVars, mgr, output, roomVars, serverVars>>

TaskJoined(h) ==
    /\ mgr = "shutdown" /\ h \in todo /\ descriptors[h] = "ending"
    /\ task[h] = "ended"
    /\ descriptors' = [descriptors EXCEPT ![h] = "none"]
    /\ todo' = todo \ {h}
    /\ UNCHANGED <<callVars, chanVars, trackVars, mgr, output, roomVars, serverVars>>

\* The manager is dropped with its input: callers still queued there get
\* Disconnected.
ManagerEnds ==
    /\ mgr = "shutdown" /\ todo = {}
    /\ mgr' = "ended"
    /\ event_in' = <<>>
    /\ call' = [h \in Handles |->
                   IF call[h] = "waiting"
                      /\ Event("PublishRequest", h) \in ToSet(event_in)
                   THEN "err" ELSE call[h]]
    /\ UNCHANGED <<result, event_out, lost, trackVars, descriptors, todo, output,
                   roomVars, serverVars>>

ManagerStep ==
    \/ on_publish_request \/ on_publish_cancelled \/ on_unpublish_request
    \/ on_sfu_publish_response \/ on_sfu_unpublish_response
    \/ on_republish_tracks \/ on_shutdown \/ OutputSent \/ ManagerEnds
    \/ \E h \in Handles : \/ Republished(h) \/ Republish(h) \/ ShutdownTrack(h)
                          \/ ShutdownPending(h) \/ TaskJoined(h)

-----------------------------------------------------------------------------
(* The room *)

\* local_dt_forward_task sends one output event to the server, as far as there
\* is a connection.  SignalClient::send drops it when the stream is gone and
\* `reconnecting` is not set yet; it queues what it cannot send otherwise.
ForwardOutput ==
    /\ forwarder = "running"
    /\ event_out # <<>>
    /\ event_out' = Tail(event_out)
    /\ \/ /\ requests' = IF closing THEN requests ELSE Append(requests, Head(event_out))
          /\ UNCHANGED <<disturbances, missed>>
       \/ /\ disturbances < MaxDisturbances
          /\ disturbances' = disturbances + 1
          /\ missed' = missed \cup {Head(event_out).handle}
          /\ UNCHANGED requests
    /\ UNCHANGED <<callVars, event_in, lost, trackVars, mgrVars, roomVars, answers,
                   server>>

\* close_rx: it asks the manager to shut down and ends.
ForwarderEnds ==
    /\ forwarder = "running"
    /\ closing
    /\ forwarder' = "ended"
    /\ TrySend(Event("Shutdown", "none"))
    /\ event_out' = <<>>
    /\ UNCHANGED <<callVars, trackVars, mgrVars, closing, restarted, serverVars>>

\* Room::close: the engine is closed before close_tx is sent.
RoomCloses ==
    /\ ~closing
    /\ closing' = TRUE
    /\ requests' = <<>> /\ answers' = <<>> /\ server' = {}
    /\ UNCHANGED <<callVars, chanVars, trackVars, mgrVars, forwarder, restarted,
                   disturbances, missed>>

\* EngineEvent::LocalDataTrackInput
ForwardAnswer ==
    /\ answers # <<>>
    /\ answers' = Tail(answers)
    /\ TrySend(Head(answers))
    /\ UNCHANGED <<callVars, event_out, trackVars, mgrVars, roomVars, requests,
                   server, disturbances, missed>>

handle_restarted ==
    /\ restarted
    /\ restarted' = FALSE
    /\ TrySend(Event("RepublishTracks", "none"))
    /\ UNCHANGED <<callVars, event_out, trackVars, mgrVars, forwarder, closing,
                   serverVars>>

-----------------------------------------------------------------------------
(* The server *)

ServerPublishes ==
    /\ requests # <<>> /\ Head(requests).type = "SfuPublishRequest"
    /\ requests' = Tail(requests)
    /\ \E ok \in BOOLEAN :
          /\ answers' = Append(answers, Answer(Head(requests).handle, ok))
          /\ server' = IF ok THEN server \cup {Head(requests).handle} ELSE server
    /\ UNCHANGED <<callVars, chanVars, trackVars, mgrVars, roomVars, disturbances,
                   missed>>

\* On request, or of its own accord.
ServerUnpublishes(h) ==
    /\ \/ /\ requests # <<>> /\ Head(requests) = Event("SfuUnpublishRequest", h)
          /\ requests' = Tail(requests)
          /\ UNCHANGED disturbances
       \/ /\ h \in server
          /\ disturbances < MaxDisturbances
          /\ disturbances' = disturbances + 1
          /\ UNCHANGED requests
    /\ server' = server \ {h}
    /\ answers' = IF h \in server
                  THEN Append(answers, Event("SfuUnpublishResponse", h))
                  ELSE answers
    /\ UNCHANGED <<callVars, chanVars, trackVars, mgrVars, roomVars, missed>>

\* A full reconnect: a new session at the server, which knows no track of it.
Reconnect ==
    /\ ~closing
    /\ disturbances < MaxDisturbances
    /\ disturbances' = disturbances + 1
    /\ restarted' = TRUE
    /\ requests' = <<>> /\ answers' = <<>> /\ server' = {}
    /\ UNCHANGED <<callVars, chanVars, trackVars, mgrVars, forwarder, closing, missed>>

\* A resume alone: what was under way on the old stream does not arrive.
StreamLost ==
    /\ ~closing
    /\ disturbances < MaxDisturbances
    /\ disturbances' = disturbances + 1
    /\ missed' = missed \cup {h \in Handles :
                     \E m \in ToSet(requests) \cup ToSet(answers) : m.handle = h}
    /\ requests' = <<>> /\ answers' = <<>>
    /\ UNCHANGED <<callVars, chanVars, trackVars, mgrVars, roomVars, server>>

-----------------------------------------------------------------------------
ForwardStep(h) == ForwardResult(h) \/ ForwardCancelled(h)

Next ==
    \/ \E h \in Handles :
          \/ publish_track(h) \/ PublishTimeout(h) \/ local_unpublish(h)
          \/ ForwardStep(h) \/ TaskSeesUnpublished(h) \/ TaskEnds(h)
          \/ ServerUnpublishes(h)
    \/ ManagerStep
    \/ ForwardOutput \/ ForwarderEnds \/ RoomCloses \/ ForwardAnswer
    \/ handle_restarted
    \/ ServerPublishes \/ Reconnect \/ StreamLost

Safe == Init /\ [][Next]_vars

\* Every task runs, a caller's timeout expires, the server answers.  A track task
\* that awaits a slot is served in its turn: the channel is fair.
Fairness ==
    /\ \A h \in Handles :
          /\ WF_vars(ForwardStep(h)) /\ WF_vars(PublishTimeout(h))
          /\ WF_vars(TaskSeesUnpublished(h)) /\ SF_vars(TaskEnds(h))
          /\ WF_vars(requests # <<>> /\ ServerUnpublishes(h) /\ requests' # requests)
    /\ WF_vars(ManagerStep)
    /\ WF_vars(ForwardOutput) /\ WF_vars(ForwarderEnds)
    /\ WF_vars(ForwardAnswer) /\ WF_vars(handle_restarted)
    /\ WF_vars(ServerPublishes)

Spec == Safe /\ Fairness

-----------------------------------------------------------------------------
(* Properties *)

Inputs ==
    [type : {"PublishRequest", "PublishCancelled", "UnpublishRequest",
             "SfuUnpublishResponse"}, handle : Handles]
      \cup [type : {"SfuPublishResponse"}, handle : Handles, ok : BOOLEAN]
      \cup [type : {"RepublishTracks", "Shutdown"}, handle : {"none"}]
Outputs == [type : {"SfuPublishRequest", "SfuUnpublishRequest"}, handle : Handles]

\* Every variable has its type, and no channel holds more than its capacity.
TypeOK ==
    /\ call \in [Handles -> {"none", "waiting", "ok", "err", "timeout"}]
    /\ result \in [Handles -> {"none", "open", "ok", "err", "dropped", "closed"}]
    /\ event_in \in Seq(Inputs) /\ Len(event_in) <= EVENT_BUFFER_COUNT
    /\ event_out \in Seq(Outputs) /\ Len(event_out) <= EVENT_BUFFER_COUNT
    /\ descriptors \in [Handles -> {"none", "pending", "active", "ending"}]
    /\ state \in [Handles -> {"none", "Published", "Republishing", "Unpublished"}]
    /\ task \in [Handles -> {"none", "running", "sending", "ended"}]
    /\ mgr \in {"idle", "republish", "republished", "shutdown", "ended"}
    /\ todo \subseteq Handles
    /\ output \in Outputs \cup {None}
    /\ forwarder \in {"running", "ended"}
    /\ lost \in BOOLEAN /\ closing \in BOOLEAN /\ restarted \in BOOLEAN
    /\ requests \in Seq(Outputs) /\ answers \in Seq(Inputs)
    /\ server \subseteq Handles
    /\ disturbances \in 0..MaxDisturbances
    /\ missed \subseteq Handles

\* A descriptor never outlives its track: while the manager takes input, an
\* active descriptor has a task that runs, or whose UnpublishRequest is on its
\* way, through a full channel and a state that a republish overwrites.
ActiveHasTask ==
    mgr \in {"idle", "republish", "republished"} =>
        \A h \in Handles :
            descriptors[h] = "active" =>
                \/ task[h] \in {"running", "sending"}
                \/ Event("UnpublishRequest", h) \in ToSet(event_in)

Settled ==
    /\ event_in = <<>> /\ event_out = <<>> /\ output = None /\ mgr = "idle"
    /\ requests = <<>> /\ answers = <<>> /\ ~restarted

\* Nothing is left behind at the server: once every event is handled, a track it
\* publishes can still be ended from here, through its descriptor or, when a
\* refused or repeated answer to a republish cost it that, through its task.
\* An event lost to a full channel, a message that the signal stream loses with a
\* resume or for want of a stream, and a publication whose caller gave up
\* (CancelledIsUnpublished) are other matters.
NoneLeftBehind ==
    (Settled /\ ~lost /\ \A h \in Handles : call[h] # "timeout") =>
        \A h \in server \ missed :
            descriptors[h] # "none" \/ task[h] \in {"running", "sending"}

\* A track that the application ends, or that it dropped, is ended at the server
\* too, as long as no full reconnect meets it on the way, unless the signal stream
\* loses a message about it: SignalClient::send drops the request that finds no
\* stream before `reconnecting` is set, and no resume sends it again.
UnpublishedAtServer ==
    []~restarted =>
        \A h \in Handles :
            state[h] = "Unpublished" ~> h \notin server \/ h \in missed

\* "Shutdown the manager and all associated tracks": shutdown() comes to an end,
\* unless the input channel is full: the track tasks it awaits then wait for a
\* slot, and the manager that should make one waits for them.
ShutdownEnds ==
    [](mgr = "shutdown" => ~Full(event_in)) =>
        (mgr = "shutdown" ~> mgr = "ended")

\* "This can occur if a publish request is cancelled before the SFU responds,
\* send an unpublish request to ensure consistent SFU state": a publication
\* whose caller gave up does not stay at the server.
CancelledIsUnpublished ==
    \A h \in Handles : call[h] = "timeout" ~> h \notin server

=============================================================================
