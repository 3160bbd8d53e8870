---------------------------- MODULE RemoteDataTracks ----------------------------
(***************************************************************************)
(* livekit-datatrack/src/remote: the manager of the data tracks that the   *)
(* other participants publish, with the task of each subscribed track, the *)
(* callers of subscribe() and the streams they hold, and the room's        *)
(* forwarding in both directions.                                          *)
(*                                                                         *)
(* One other participant publishes; each call of subscribe() is made by a  *)
(* caller of its own.  Packets and frames are left out: a packet reaches   *)
(* the track that sub_handles gives for its handle.  The server is         *)
(* external.                                                               *)
(***************************************************************************)
EXTENDS Naturals, Sequences, FiniteSets, SequencesExt

CONSTANTS
    Sids,                  \* tracks, each published at most once (bound)
    Handles,               \* subscriber handles of the server
    Callers,               \* calls of subscribe() (bound)
    NoOne,                 \* no track, no handle
    EVENT_BUFFER_COUNT,    \* capacity of the input and of the output channel
    MaxReconnects          \* full reconnects (bound)

ASSUME FiniteAssumption == IsFiniteSet(Sids)
ASSUME NoOneAssumption == NoOne \notin Sids \cup Handles
ASSUME BufferAssumption == EVENT_BUFFER_COUNT \in Nat \ {0}
ASSUME ReconnectsAssumption == MaxReconnects \in Nat

VARIABLES
    \* the manager
    subscription,   \* SubscriptionState of each descriptor, "unknown" without one
    sub_handle,     \* the handle an active subscription keeps
    sub_handles,    \* the manager's index: track of each handle
    result_txs,     \* callers that a pending subscription owes an answer
    is_published,   \* the watch channel of each track
    mgr, todo,      \* what the manager is doing, descriptors shutdown has to visit
    output,         \* output events of the running handler not sent yet
    task,           \* TrackTask of each track
    event_in, event_out,
    lost,           \* history: a full input channel has cost an event
    \* the application
    call, target,   \* state of each call, with its stream, and the track it is about
    offered,        \* tracks the room has told the application of
    \* the room, the connection and the server
    forwarder,      \* remote_dt_forward_task
    closing,        \* Room::close has closed the engine and sent close_tx
    answers,        \* engine events on their way to the manager's input
    published,      \* tracks the other participant publishes
    withdrawn,      \* tracks it published before
    present,        \* it did not leave while this side was reconnecting
    server,         \* handle of each subscription, as the server knows it
    reconnects

mgrVars == <<subscription, sub_handle, sub_handles, result_txs, is_published>>
ctlVars == <<mgr, todo, output>>
chanVars == <<event_in, event_out, lost>>
appVars == <<call, target, offered>>
roomVars == <<forwarder, closing>>
serverVars == <<published, withdrawn, present, server, reconnects>>
vars == <<mgrVars, ctlVars, task, chanVars, appVars, roomVars, answers, serverVars>>

-----------------------------------------------------------------------------
Event(type, s) == [type |-> type, sid |-> s]
Subscribe(s) == Event("Subscribe", s)
Unsubscribe(s) == Event("Unsubscribe", s)
SubscribeRequest(c, s) == [type |-> "SubscribeRequest", by |-> c, sid |-> s]
SubscriberHandle(h, s) == [type |-> "SfuSubscriberHandles", handle |-> h, sid |-> s]
PublicationUpdate(tracks) == [type |-> "SfuPublicationUpdates", tracks |-> tracks]

Full(channel) == Len(channel) >= EVENT_BUFFER_COUNT

\* The receiver of the input lives until the manager's task has ended.
InputOpen == mgr # "ended"

\* ManagerInput::send, a try_send: the event is dropped when there is no room.
TrySend(event) ==
    /\ event_in' = IF InputOpen /\ ~Full(event_in) THEN Append(event_in, event)
                   ELSE event_in
    /\ lost' = (lost \/ (InputOpen /\ Full(event_in)))

\* Sender::send(..).await: waits for a slot, fails without a receiver.
Send(event) ==
    /\ InputOpen => ~Full(event_in)
    /\ event_in' = IF InputOpen THEN Append(event_in, event) ELSE event_in
    /\ UNCHANGED lost

Open(s) == {c \in Callers : call[c] = "streaming" /\ target[c] = s}
Waiting(s) == {c \in result_txs[s] : call[c] = "waiting"}

\* The senders of a broadcast channel are gone: its streams end.
StreamsEnd(s) == [c \in Callers |-> IF c \in Open(s) THEN "over" ELSE call[c]]

Init ==
    /\ subscription = [s \in Sids |-> "unknown"]
    /\ sub_handle = [s \in Sids |-> NoOne]
    /\ sub_handles = [h \in Handles |-> NoOne]
    /\ result_txs = [s \in Sids |-> {}]
    /\ is_published = [s \in Sids |-> FALSE]
    /\ mgr = "running" /\ todo = {} /\ output = <<>>
    /\ task = [s \in Sids |-> "none"]
    /\ event_in = <<>> /\ event_out = <<>> /\ lost = FALSE
    /\ call = [c \in Callers |-> "idle"]
    /\ target = [c \in Callers |-> NoOne]
    /\ offered = {}
    /\ forwarder = "running" /\ closing = FALSE
    /\ answers = <<>>
    /\ published = {} /\ withdrawn = {} /\ present = TRUE
    /\ server = [s \in Sids |-> NoOne]
    /\ reconnects = 0

-----------------------------------------------------------------------------
(* The application *)

subscribe(c, s) ==
    /\ call[c] = "idle"
    /\ s \in offered
    /\ call' = [call EXCEPT ![c] = "sending"]
    /\ target' = [target EXCEPT ![c] = s]
    /\ UNCHANGED <<mgrVars, ctlVars, task, chanVars, offered, roomVars, answers,
                   serverVars>>

\* event_in_tx.send(SubscribeRequest).await
RequestSent(c) ==
    /\ call[c] = "sending"
    /\ Send(SubscribeRequest(c, target[c]))
    /\ call' = [call EXCEPT ![c] = IF InputOpen THEN "waiting" ELSE "over"]
    /\ UNCHANGED <<mgrVars, ctlVars, task, event_out, target, offered, roomVars, answers, serverVars>>

\* The ten seconds for the answer.
SubscribeTimeout(c) ==
    /\ call[c] = "waiting"
    /\ call' = [call EXCEPT ![c] = "over"]
    /\ UNCHANGED <<mgrVars, ctlVars, task, chanVars, target, offered, roomVars, answers, serverVars>>

DropStream(c) ==
    /\ call[c] = "streaming"
    /\ call' = [call EXCEPT ![c] = "over"]
    /\ UNCHANGED <<mgrVars, ctlVars, task, chanVars, target, offered, roomVars, answers, serverVars>>

-----------------------------------------------------------------------------
(* TrackTask: the select is biased towards the change of published_rx. *)

\* The streams stay open as long as the active descriptor has its own sender.
TaskSeesUnpublished(s) ==
    /\ task[s] = "running"
    /\ ~is_published[s]
    /\ task' = [task EXCEPT ![s] = "ended"]
    /\ call' = IF subscription[s] = "Active" THEN call ELSE StreamsEnd(s)
    /\ UNCHANGED <<mgrVars, ctlVars, chanVars, target, offered, roomVars, answers,
                   serverVars>>

\* frame_tx.closed(): no receiver is left.
TaskSeesNoReceivers(s) ==
    /\ task[s] = "running"
    /\ is_published[s]
    /\ Open(s) = {}
    /\ task' = [task EXCEPT ![s] = "sending"]
    /\ UNCHANGED <<mgrVars, ctlVars, chanVars, appVars, roomVars, answers, serverVars>>

\* event_in_tx.send(UnsubscribeRequest).await, then the task returns.
TaskEnds(s) ==
    /\ task[s] = "sending"
    /\ Send(Event("UnsubscribeRequest", s))
    /\ task' = [task EXCEPT ![s] = "ended"]
    /\ call' = IF subscription[s] = "Active" THEN call ELSE StreamsEnd(s)
    /\ UNCHANGED <<mgrVars, ctlVars, event_out, target, offered, roomVars, answers,
                   serverVars>>

-----------------------------------------------------------------------------
(* Manager.  A handler changes the descriptors and then sends its output events; *)
(* the manager takes no other input in between.                                  *)

Takes(type) ==
    /\ mgr = "running" /\ output = <<>>
    /\ event_in # <<>> /\ Head(event_in).type = type
    /\ event_in' = Tail(event_in)
    /\ UNCHANGED <<event_out, lost>>

Answer(callers, value) ==
    [c \in Callers |-> IF c \in callers THEN value ELSE call[c]]

on_subscribe_request ==
    /\ Takes("SubscribeRequest")
    /\ LET c == Head(event_in).by
           s == Head(event_in).sid
           asking == {c} \cap {d \in Callers : call[d] = "waiting"}
       IN  \/ /\ subscription[s] = "unknown"
              /\ call' = Answer(asking, "over")
              /\ UNCHANGED <<subscription, result_txs, output>>
           \/ /\ subscription[s] = "None"
              /\ output' = <<Subscribe(s)>>
              /\ subscription' = [subscription EXCEPT ![s] = "Pending"]
              /\ result_txs' = [result_txs EXCEPT ![s] = {c}]
              /\ UNCHANGED call
           \/ /\ subscription[s] = "Pending"
              /\ result_txs' = [result_txs EXCEPT ![s] = @ \cup {c}]
              /\ UNCHANGED <<subscription, output, call>>
           \/ /\ subscription[s] = "Active"
              /\ call' = Answer(asking, "streaming")
              /\ UNCHANGED <<subscription, result_txs, output>>
    /\ UNCHANGED <<sub_handle, sub_handles, is_published, mgr, todo, task, target,
                   offered, roomVars, answers, serverVars>>

\* Mutant: the server is not told.
on_unsubscribe_request_Local ==
    /\ Takes("UnsubscribeRequest")
    /\ LET s == Head(event_in).sid IN
         IF subscription[s] = "Active"
         THEN /\ subscription' = [subscription EXCEPT ![s] = "None"]
              /\ sub_handle' = [sub_handle EXCEPT ![s] = NoOne]
              /\ sub_handles' = [sub_handles EXCEPT ![sub_handle[s]] = NoOne]
              /\ call' = StreamsEnd(s)
         ELSE UNCHANGED <<subscription, sub_handle, sub_handles, call>>
    /\ UNCHANGED <<result_txs, is_published, mgr, todo, output, task, target, offered,
                   roomVars, answers, serverVars>>

\* The descriptor's sender goes with its subscription, the task's is gone already.
on_unsubscribe_request ==
    /\ Takes("UnsubscribeRequest")
    /\ LET s == Head(event_in).sid IN
         IF subscription[s] = "Active"
         THEN /\ subscription' = [subscription EXCEPT ![s] = "None"]
              /\ sub_handle' = [sub_handle EXCEPT ![s] = NoOne]
              /\ sub_handles' = [sub_handles EXCEPT ![sub_handle[s]] = NoOne]
              /\ output' = <<Unsubscribe(s)>>
              /\ call' = StreamsEnd(s)
         ELSE UNCHANGED <<subscription, sub_handle, sub_handles, output, call>>
    /\ UNCHANGED <<result_txs, is_published, mgr, todo, task, target, offered,
                   roomVars, answers, serverVars>>

Known == {s \in Sids : subscription[s] # "unknown"}

\* Tracks that are not known yet get a descriptor, tracks of the publisher that the
\* update does not name lose theirs: with it go the callers that wait, and the
\* streams as soon as the task has ended.
on_sfu_publication_updates ==
    /\ Takes("SfuPublicationUpdates")
    /\ LET tracks == Head(event_in).tracks
           new == tracks \ Known
           gone == Known \ tracks
           active == {s \in gone : subscription[s] = "Active"}
           disappointed == UNION {Waiting(s) : s \in gone}
           silent == UNION {Open(s) : s \in {t \in active : task[t] = "ended"}}
           Events(type, tracks_) == {Event(type, s) : s \in tracks_}
       IN  /\ subscription' = [s \in Sids |-> IF s \in new THEN "None"
                                              ELSE IF s \in gone THEN "unknown"
                                              ELSE subscription[s]]
           /\ sub_handle' = [s \in Sids |-> IF s \in gone THEN NoOne ELSE sub_handle[s]]
           /\ sub_handles' = [h \in Handles |->
                                 IF \E s \in active : sub_handle[s] = h THEN NoOne
                                 ELSE sub_handles[h]]
           /\ result_txs' = [s \in Sids |-> IF s \in gone THEN {} ELSE result_txs[s]]
           /\ is_published' = [s \in Sids |-> s \in new \/ (is_published[s] /\ s \notin gone)]
           /\ call' = [c \in Callers |-> IF c \in disappointed \cup silent THEN "over" ELSE call[c]]
           /\ output' = SetToSeq(Events("TrackPublished", new))
                          \o SetToSeq(Events("TrackUnpublished", gone))
    /\ UNCHANGED <<mgr, todo, task, target, offered, roomVars, answers, serverVars>>

\* register_subscriber_handle: a new handle for an active subscription.  The entry
\* of the handle it had goes, whosever it is by now.
HandleChanged(h, s) ==
    /\ subscription[s] = "Active"
    /\ sub_handle' = [sub_handle EXCEPT ![s] = h]
    /\ sub_handles' = [sub_handles EXCEPT ![sub_handle[s]] = NoOne, ![h] = s]
    /\ UNCHANGED <<subscription, result_txs, task, call>>

\* The handle of a pending subscription: its task starts, everybody gets a stream.
HandleAssigned(h, s) ==
    /\ subscription[s] = "Pending"
    /\ subscription' = [subscription EXCEPT ![s] = "Active"]
    /\ sub_handle' = [sub_handle EXCEPT ![s] = h]
    /\ sub_handles' = [sub_handles EXCEPT ![h] = s]
    /\ task' = [task EXCEPT ![s] = "running"]
    /\ call' = Answer(Waiting(s), "streaming")
    /\ result_txs' = [result_txs EXCEPT ![s] = {}]

on_sfu_subscriber_handles ==
    /\ Takes("SfuSubscriberHandles")
    /\ LET h == Head(event_in).handle
           s == Head(event_in).sid
       IN  \/ HandleChanged(h, s)
           \/ HandleAssigned(h, s)
           \/ /\ subscription[s] \in {"unknown", "None"}
              /\ UNCHANGED <<mgrVars, task, call>>
    /\ UNCHANGED <<is_published, ctlVars, target, offered, roomVars, answers, serverVars>>

Subscribed == {s \in Sids : subscription[s] \in {"Pending", "Active"}}

\* Mutant: only active subscriptions are sent again.
on_resend_subscription_updates_Active ==
    /\ Takes("ResendSubscriptionUpdates")
    /\ output' = SetToSeq({Subscribe(s) : s \in {t \in Sids : subscription[t] = "Active"}})
    /\ UNCHANGED <<mgrVars, mgr, todo, task, appVars, roomVars, answers, serverVars>>

on_resend_subscription_updates ==
    /\ Takes("ResendSubscriptionUpdates")
    /\ output' = SetToSeq({Subscribe(s) : s \in Subscribed})
    /\ UNCHANGED <<mgrVars, mgr, todo, task, appVars, roomVars, answers, serverVars>>

\* event_out_tx.send(..).await; it fails at once without a receiver.
OutputSent ==
    /\ output # <<>>
    /\ forwarder = "running" => ~Full(event_out)
    /\ event_out' = IF forwarder = "running" THEN Append(event_out, Head(output))
                    ELSE event_out
    /\ output' = Tail(output)
    /\ UNCHANGED <<mgrVars, mgr, todo, task, event_in, lost, appVars, roomVars, answers, serverVars>>

\* The loop ends, shutdown() visits the descriptors.  The input channel stays open,
\* but nobody takes from it.
on_shutdown ==
    /\ Takes("Shutdown")
    /\ mgr' = "shutdown"
    /\ todo' = Known
    /\ UNCHANGED <<mgrVars, output, task, appVars, roomVars, answers, serverVars>>

\* The track whose task shutdown() is awaiting.
Joining == {s \in todo : subscription[s] = "Active" /\ ~is_published[s]}

\* Mutant: the track is not told.
ShutdownTrack_Silent(s) ==
    /\ mgr = "shutdown" /\ s \in todo /\ Joining = {}
    /\ call' = Answer(Waiting(s), "over")
    /\ result_txs' = [result_txs EXCEPT ![s] = {}]
    /\ IF subscription[s] = "Active" THEN UNCHANGED <<subscription, todo>>
       ELSE /\ subscription' = [subscription EXCEPT ![s] = "unknown"]
            /\ todo' = todo \ {s}
    /\ UNCHANGED <<sub_handle, sub_handles, is_published, mgr, output, task, chanVars,
                   target, offered, roomVars, answers, serverVars>>

\* One turn of its loop: the track is unpublished, and who waits for it answered.
ShutdownTrack(s) ==
    /\ mgr = "shutdown" /\ s \in todo /\ Joining = {}
    /\ is_published' = [is_published EXCEPT ![s] = FALSE]
    /\ call' = Answer(Waiting(s), "over")
    /\ result_txs' = [result_txs EXCEPT ![s] = {}]
    /\ IF subscription[s] = "Active" THEN UNCHANGED <<subscription, todo>>
       ELSE /\ subscription' = [subscription EXCEPT ![s] = "unknown"]
            /\ todo' = todo \ {s}
    /\ UNCHANGED <<sub_handle, sub_handles, mgr, output, task, chanVars, target,
                   offered, roomVars, answers, serverVars>>

TaskJoined(s) ==
    /\ mgr = "shutdown" /\ s \in Joining
    /\ task[s] = "ended"
    /\ subscription' = [subscription EXCEPT ![s] = "unknown"]
    /\ call' = StreamsEnd(s)
    /\ todo' = todo \ {s}
    /\ UNCHANGED <<sub_handle, sub_handles, result_txs, is_published, mgr, output, task,
                   chanVars, target, offered, roomVars, answers, serverVars>>

\* The manager is dropped with its index and its input: callers still queued there
\* get Disconnected.
ManagerEnds ==
    /\ mgr = "shutdown" /\ todo = {}
    /\ mgr' = "ended"
    /\ event_in' = <<>>
    /\ sub_handle' = [s \in Sids |-> NoOne]
    /\ sub_handles' = [h \in Handles |-> NoOne]
    /\ call' = Answer({c \in Callers : call[c] = "waiting"}, "over")
    /\ UNCHANGED <<subscription, result_txs, is_published, todo, output, task, event_out,
                   lost, target, offered, roomVars, answers, serverVars>>

ManagerStep ==
    \/ on_subscribe_request \/ on_unsubscribe_request \/ on_sfu_publication_updates
    \/ on_sfu_subscriber_handles \/ on_resend_subscription_updates
    \/ OutputSent \/ on_shutdown \/ ManagerEnds
    \/ \E s \in Sids : ShutdownTrack(s) \/ TaskJoined(s)

-----------------------------------------------------------------------------
(* The room and the server *)

\* UpdateDataSubscription: the server assigns any free handle.  A track it does not
\* publish, or serves already, is no news.  A request that a reconnect overtakes has
\* the effect of one that the old session served: none.
ServerUpdates(s, subscribe_) ==
    IF ~subscribe_
    THEN server' = [server EXCEPT ![s] = NoOne] /\ UNCHANGED answers
    ELSE IF s \in published /\ server[s] = NoOne
    THEN \E h \in Handles \ {server[t] : t \in Sids} :
            /\ server' = [server EXCEPT ![s] = h]
            /\ answers' = Append(answers, SubscriberHandle(h, s))
    ELSE UNCHANGED <<server, answers>>

\* remote_dt_forward_task: what is for the application goes to it, the rest to the
\* server, as far as there is a connection.  What the signal stream loses with a
\* resume is left out: SignalClient::send drops a request that finds no stream before
\* `reconnecting` is set, and what was under way on the old stream is not sent again.
ForwardOutput ==
    /\ forwarder = "running"
    /\ event_out # <<>>
    /\ event_out' = Tail(event_out)
    /\ LET event == Head(event_out) IN
         /\ offered' = IF event.type = "TrackPublished" THEN offered \cup {event.sid}
                       ELSE offered
         /\ IF event.type \in {"Subscribe", "Unsubscribe"} /\ ~closing
            THEN ServerUpdates(event.sid, event.type = "Subscribe")
            ELSE UNCHANGED <<server, answers>>
    /\ UNCHANGED <<mgrVars, ctlVars, task, event_in, lost, call, target, roomVars,
                   published, withdrawn, present, reconnects>>

\* close_rx: it asks the manager to shut down and ends.
ForwarderEnds ==
    /\ forwarder = "running"
    /\ closing
    /\ forwarder' = "ended"
    /\ TrySend(Event("Shutdown", NoOne))
    /\ event_out' = <<>>
    /\ UNCHANGED <<mgrVars, ctlVars, task, appVars, closing, answers, serverVars>>

\* Room::close: the engine is closed before close_tx is sent.  What the session had
\* passed to the room is still handled.
RoomCloses ==
    /\ ~closing
    /\ closing' = TRUE
    /\ \E kept \in 0..Len(answers) : answers' = SubSeq(answers, 1, kept)
    /\ server' = [s \in Sids |-> NoOne]
    /\ UNCHANGED <<mgrVars, ctlVars, task, chanVars, appVars, forwarder, published,
                   withdrawn, present, reconnects>>

\* EngineEvent::RemoteDataTrackInput, and what handle_restarted sends.
ForwardAnswer ==
    /\ answers # <<>>
    /\ answers' = Tail(answers)
    /\ TrySend(Head(answers))
    /\ UNCHANGED <<mgrVars, ctlVars, task, event_out, appVars, roomVars,
                   serverVars>>

-----------------------------------------------------------------------------
(* The server and the other participant *)

Publish(s) ==
    /\ ~closing /\ present
    /\ s \notin published \cup withdrawn
    /\ published' = published \cup {s}
    /\ answers' = Append(answers, PublicationUpdate(published'))
    /\ UNCHANGED <<mgrVars, ctlVars, task, chanVars, appVars, roomVars, withdrawn, present, server, reconnects>>

Withdraw(s) ==
    /\ ~closing
    /\ s \in published
    /\ published' = published \ {s}
    /\ withdrawn' = withdrawn \cup {s}
    /\ server' = [server EXCEPT ![s] = NoOne]
    /\ answers' = Append(answers, PublicationUpdate(published'))
    /\ UNCHANGED <<mgrVars, ctlVars, task, chanVars, appVars, roomVars, present, reconnects>>

\* A full reconnect: a new session, in which nothing is subscribed.  What the old
\* one had passed to the room is still handled, then the JoinResponse of the new
\* one and handle_restarted.  A participant that left meanwhile is missing in the
\* JoinResponse.
Reconnect ==
    /\ ~closing
    /\ reconnects < MaxReconnects
    /\ reconnects' = reconnects + 1
    /\ server' = [s \in Sids |-> NoOne]
    /\ \E kept \in 0..Len(answers), stays \in {present, FALSE} :
          /\ present' = stays
          /\ published' = IF stays THEN published ELSE {}
          /\ withdrawn' = IF stays THEN withdrawn ELSE withdrawn \cup published
          /\ answers' = SubSeq(answers, 1, kept)
               \o (IF stays THEN <<PublicationUpdate(published)>> ELSE <<>>)
               \o <<Event("ResendSubscriptionUpdates", NoOne)>>
    /\ UNCHANGED <<mgrVars, ctlVars, task, chanVars, appVars, roomVars>>

-----------------------------------------------------------------------------
Next ==
    \/ \E c \in Callers : \/ \E s \in Sids : subscribe(c, s)
                          \/ RequestSent(c) \/ SubscribeTimeout(c) \/ DropStream(c)
    \/ \E s \in Sids : \/ TaskSeesUnpublished(s) \/ TaskSeesNoReceivers(s) \/ TaskEnds(s)
                       \/ Publish(s) \/ Withdraw(s)
    \/ ManagerStep
    \/ ForwardOutput \/ ForwarderEnds \/ RoomCloses \/ ForwardAnswer
    \/ Reconnect

Safe == Init /\ [][Next]_vars

\* Every task runs, a caller's timeout expires, the server answers.  Whoever awaits
\* a slot of the input channel is served in its turn: the channel is fair.
Fairness ==
    /\ \A c \in Callers : SF_vars(RequestSent(c)) /\ WF_vars(SubscribeTimeout(c))
    /\ \A s \in Sids : /\ WF_vars(TaskSeesUnpublished(s)) /\ WF_vars(TaskSeesNoReceivers(s))
                       /\ SF_vars(TaskEnds(s))
    /\ WF_vars(ManagerStep)
    /\ WF_vars(ForwardOutput) /\ WF_vars(ForwarderEnds) /\ WF_vars(ForwardAnswer)

Spec == Safe /\ Fairness

-----------------------------------------------------------------------------
(* Properties *)

Inputs ==
    [type : {"SubscribeRequest"}, by : Callers, sid : Sids]
      \cup [type : {"UnsubscribeRequest"}, sid : Sids]
      \cup [type : {"SfuPublicationUpdates"}, tracks : SUBSET Sids]
      \cup [type : {"SfuSubscriberHandles"}, handle : Handles, sid : Sids]
      \cup [type : {"ResendSubscriptionUpdates", "Shutdown"}, sid : {NoOne}]
Outputs == [type : {"Subscribe", "Unsubscribe", "TrackPublished", "TrackUnpublished"},
            sid : Sids]

\* Every variable has its type, and no channel holds more than its capacity.
TypeOK ==
    /\ subscription \in [Sids -> {"unknown", "None", "Pending", "Active"}]
    /\ sub_handle \in [Sids -> Handles \cup {NoOne}]
    /\ sub_handles \in [Handles -> Sids \cup {NoOne}]
    /\ result_txs \in [Sids -> SUBSET Callers]
    /\ is_published \in [Sids -> BOOLEAN]
    /\ mgr \in {"running", "shutdown", "ended"}
    /\ todo \subseteq Sids
    /\ output \in Seq(Outputs)
    /\ task \in [Sids -> {"none", "running", "sending", "ended"}]
    /\ event_in \in Seq(Inputs) /\ Len(event_in) <= EVENT_BUFFER_COUNT
    /\ event_out \in Seq(Outputs) /\ Len(event_out) <= EVENT_BUFFER_COUNT
    /\ lost \in BOOLEAN
    /\ call \in [Callers -> {"idle", "sending", "waiting", "streaming", "over"}]
    /\ target \in [Callers -> Sids \cup {NoOne}]
    /\ offered \subseteq Sids
    /\ forwarder \in {"running", "ended"} /\ closing \in BOOLEAN
    /\ answers \in Seq(Inputs)
    /\ published \subseteq Sids /\ withdrawn \subseteq Sids /\ present \in BOOLEAN
    /\ server \in [Sids -> Handles \cup {NoOne}]
    /\ reconnects \in 0..MaxReconnects

Settled ==
    /\ event_in = <<>> /\ event_out = <<>> /\ output = <<>> /\ mgr = "running"
    /\ answers = <<>> /\ ~closing

\* Once every event is handled, the manager and the server agree on what is
\* subscribed and under which handle, whatever crossed on the way: subscriptions
\* that began or ended during a full reconnect, answers of the old session, tracks
\* that came and went.  An event lost to a full channel, a message lost with the
\* signal stream, and a publisher that left unseen, are other matters.
AgreedWithServer ==
    (Settled /\ ~lost /\ present) =>
        \A s \in Sids :
            IF server[s] # NoOne
            THEN subscription[s] = "Active" /\ sub_handle[s] = server[s]
            ELSE subscription[s] \notin {"Pending", "Active"}

Unused(s) == \A c \in Callers : target[c] = s => call[c] = "over"

\* A subscription nobody uses any more is given back to the server: also one that
\* was granted when every caller had given up, and one whose last stream is
\* dropped while a full reconnect renews it; the signal stream loses nothing.
GivenBack ==
    []~lost => \A s \in Sids : (Unused(s) ~> server[s] = NoOne \/ ~Unused(s))

\* While shutdown() runs, the input channel has room.
Drains == [](mgr = "shutdown" => ~Full(event_in))

\* No stream stays open and silent: that of a track that is no longer published,
\* and that of a caller who came between the end of the track's task and the
\* UnsubscribeRequest it left in the channel, come to their end.
StreamsEndWithTheirTrack ==
    []~lost /\ []present /\ Drains =>
        \A c \in Callers, s \in Sids :
            (c \in Open(s) /\ (s \in withdrawn \/ task[s] = "ended")) ~> c \notin Open(s)

\* Neither side of a subscription outlives the other: the server's is given back
\* when the last caller goes, the callers' streams end when the track does.
NothingLeftOpen == GivenBack /\ StreamsEndWithTheirTrack

\* "Shutdown the manager, ending any subscriptions": shutdown() comes to an end,
\* unless the input channel is full: a task that found no receiver then waits for
\* a slot, and the manager that should make one waits for the task.
ShutdownEnds ==
    Drains => (mgr = "shutdown" ~> mgr = "ended")

\* "An index that allows track descriptors to be looked up by subscriber handle,
\* necessary for routing incoming packets", with "Update handle for an active
\* subscription. This can occur following a full reconnect": once every event is
\* handled, the packets of every active subscription find it.
ActiveIsRouted ==
    (Settled /\ ~lost /\ present) =>
        \A s \in Sids : subscription[s] = "Active" => sub_handles[sub_handle[s]] = s

=============================================================================
