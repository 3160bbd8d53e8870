---------------------------- MODULE FfiRoomProofs ----------------------------
(***************************************************************************)
(* Proofs about FfiRoom, for any number of requests, disconnects, cycles   *)
(* and sids: the order in which a client hears callbacks and events.       *)
(***************************************************************************)
EXTENDS FfiRoom, TLAPS

\* The steps of the SDK underneath say nothing to the client.
SdkStep ==
    \/ \E r \in Requests : publish_track(r)
    \/ \E q \in Publishers : AddTrack(q) \/ add_publication(q) \/ LocalTrackPublished(q)
    \/ ReconnectionBegins \/ handle_resumed \/ handle_restarted
    \/ \E c \in 1..MaxCycles : GroupStep(c) \/ Republished(c)
    \/ \E j \in Jobs : JobRemoves(j) \/ JobUnpublishes(j)
    \/ handle_disconnected \/ CloseStep \/ RoomClosed

LEMMA SdkIsSilent == SdkStep => UNCHANGED ffiVars
<1> SUFFICES ASSUME SdkStep PROVE UNCHANGED ffiVars
  OBVIOUS
<1>1. CASE \E r \in Requests : publish_track(r)
  BY <1>1 DEF publish_track
<1>2. CASE \E q \in Publishers : AddTrack(q) \/ add_publication(q) \/ LocalTrackPublished(q)
  BY <1>2 DEF AddTrack, add_publication, LocalTrackPublished
<1>3. CASE ReconnectionBegins \/ handle_resumed \/ handle_restarted
  BY <1>3 DEF ReconnectionBegins, handle_resumed, handle_restarted
<1>4. CASE \E c \in 1..MaxCycles : GroupStep(c) \/ Republished(c)
  BY <1>4 DEF GroupStep, JobSpawned, RepublishPanics, Republished
<1>5. CASE \E j \in Jobs : JobRemoves(j) \/ JobUnpublishes(j)
  BY <1>5 DEF JobRemoves, JobUnpublishes
<1>6. CASE handle_disconnected \/ CloseStep \/ RoomClosed
  BY <1>6 DEF handle_disconnected, CloseStep, RoomClosed, CloseUnpublishes
<1> QED
  BY <1>1, <1>2, <1>3, <1>4, <1>5, <1>6 DEF SdkStep

\* The other steps, one by one.
FfiStep ==
    \/ RoomConnected \/ CallbackSent \/ TasksSpawned \/ ConnectFails
    \/ \E q \in Publishers : PublishFails(q)
    \/ \E r \in Requests : PublishCallback(r) \/ PublishInserted(r)
    \/ \E u \in Unpublishes, s \in Sids : unpublish_track(u, s)
    \/ \E u \in Unpublishes : UnpublishStep(u) \/ RemoveTrackFails(u)
    \/ \E x \in Disconnects : Disconnect(x) \/ DisconnectStep(x)
    \/ RoomTaskStep \/ RoomTaskEnds

LEMMA NextSplits == Next => SdkStep \/ FfiStep
BY DEF Next, Client, System, Environment, SdkStep, FfiStep

-----------------------------------------------------------------------------
\* unpublish_track's callbacks: a sid is waiting for its request only once its
\* event was told, and a request that was answered keeps its sid.
UnpublishInv ==
    /\ target \in [Unpublishes -> Sids \cup {0}]
    /\ unpublish \in [Unpublishes -> {"none", "removed", "waiting", "done"}]
    /\ \A s \in pending_unpublished : <<"LocalTrackUnpublished", s>> \in told
    /\ room_task = "inserting" => <<"LocalTrackUnpublished", forwarding.sid>> \in told
    /\ \A u \in Unpublishes :
          <<"UnpublishTrackCallback", u>> \in told => unpublish[u] = "done"
    /\ UnpublishedBeforeCallback

LEMMA UnpublishInvHolds == Safe => []UnpublishInv
<1>1. Init => UnpublishInv
  BY DEF Init, UnpublishInv, UnpublishedBeforeCallback
<1>2. UnpublishInv /\ [Next]_vars => UnpublishInv'
  <2> SUFFICES ASSUME UnpublishInv, [Next]_vars PROVE UnpublishInv'
    OBVIOUS
  <2>1. CASE UNCHANGED vars \/ SdkStep
    BY <2>1, SdkIsSilent DEF UnpublishInv, UnpublishedBeforeCallback, vars, ffiVars,
       taskVars, pendingVars, requestVars
  <2>2. CASE RoomConnected \/ CallbackSent \/ TasksSpawned \/ ConnectFails
    BY <2>2 DEF RoomConnected, CallbackSent, TasksSpawned, ConnectFails,
       Says, ConnectCallback, UnpublishInv, UnpublishedBeforeCallback, pendingVars,
       requestVars
  <2>3. CASE \E q \in Publishers : PublishFails(q)
    BY <2>3 DEF PublishFails, Says, UnpublishInv, UnpublishedBeforeCallback, taskVars,
       pendingVars, requestVars
  <2>4. CASE \E r \in Requests : PublishCallback(r) \/ PublishInserted(r)
    BY <2>4 DEF PublishCallback, PublishInserted, Says, UnpublishInv,
       UnpublishedBeforeCallback, taskVars, pendingVars, requestVars
  <2>5. CASE \E u \in Unpublishes, s \in Sids : unpublish_track(u, s)
    BY <2>5 DEF unpublish_track, Says, UnpublishInv, UnpublishedBeforeCallback, taskVars,
       pendingVars
  <2>6. CASE \E u \in Unpublishes : UnpublishStep(u) \/ RemoveTrackFails(u)
    BY <2>6 DEF UnpublishStep, Unpublished, UnpublishCallback, RemoveTrackFails, Says,
       UnpublishInv, UnpublishedBeforeCallback, taskVars, pendingVars
  <2>7. CASE \E x \in Disconnects : Disconnect(x) \/ DisconnectStep(x)
    BY <2>7 DEF Disconnect, DisconnectStep, TakeHandle, DisconnectCallback, Says,
       UnpublishInv, UnpublishedBeforeCallback, taskVars, pendingVars
  <2>8. CASE RoomTaskStep \/ RoomTaskEnds
    <3>1. CASE EventTaken \/ ForwardPublished \/ ForwardState \/ RoomTaskEnds
      BY <2>8, <3>1 DEF EventTaken, ForwardPublished, ForwardState, RoomTaskEnds,
         ForwardingEnds, Says, RoomEos, Forwards, UnpublishInv, UnpublishedBeforeCallback,
         pendingVars, requestVars
    <3>2. CASE ForwardUnpublished \/ UnpublishedInserted
      BY <2>8, <3>2 DEF ForwardUnpublished, UnpublishedInserted, ForwardingEnds, Says,
         Forwards, UnpublishInv, UnpublishedBeforeCallback, pendingVars, requestVars
    <3> QED
      BY <2>8, <3>1, <3>2 DEF RoomTaskStep
  <2> QED
    BY <2>1, <2>2, <2>3, <2>4, <2>5, <2>6, <2>7, <2>8, NextSplits DEF FfiStep
<1> QED
  BY <1>1, <1>2, PTL DEF Safe

\* The callback of an unpublish comes after LocalTrackUnpublished of its track,
\* however the SDK's steps interleave with room_task (room.rs:513-516).
THEOREM UnpublishCallbackIsLast == Safe => []UnpublishedBeforeCallback
<1>1. UnpublishInv => UnpublishedBeforeCallback
  BY DEF UnpublishInv
<1> QED
  BY <1>1, UnpublishInvHolds, PTL

-----------------------------------------------------------------------------
\* The frame of the events: the tasks run once the callback was sent, and say
\* nothing after RoomEos.
FrameInv ==
    /\ disconnect \in [Disconnects ->
                         {"none", "closing", "taking", "joining", "joined", "done"}]
    /\ connect \in {"called", "done"} => ConnectCallback \in told
    /\ room_task # "none" => connect = "done"
    /\ room_task = "ended" <=> RoomEos \in told
    /\ \A x \in Disconnects :
          <<"DisconnectCallback", x>> \in told => RoomEos \in told

\* What one step may tell the client.
Framed ==
    \A m \in told' \ told :
        m \in RoomEvents \cup {RoomEos} => ConnectCallback \in told /\ RoomEos \notin told

LEMMA FrameStep == FrameInv /\ [Next]_vars => FrameInv' /\ Framed
<1> SUFFICES ASSUME FrameInv, [Next]_vars PROVE FrameInv' /\ Framed
  OBVIOUS
<1> USE DEF ConnectCallback, RoomEos
<1>1. CASE UNCHANGED vars \/ SdkStep
  BY <1>1, SdkIsSilent DEF FrameInv, Framed, vars, ffiVars, taskVars, requestVars
<1>2. CASE RoomConnected \/ CallbackSent \/ TasksSpawned \/ ConnectFails
  BY <1>2 DEF RoomConnected, CallbackSent, TasksSpawned, ConnectFails,
     Says, FrameInv, Framed, RoomEvents, requestVars
<1>3. CASE \E q \in Publishers : PublishFails(q)
  BY <1>3 DEF PublishFails, Says, FrameInv, Framed, RoomEvents, taskVars, requestVars
<1>4. CASE \E r \in Requests : PublishCallback(r) \/ PublishInserted(r)
  BY <1>4 DEF PublishCallback, PublishInserted, Says, FrameInv, Framed, RoomEvents,
     taskVars, requestVars
<1>5. CASE \E u \in Unpublishes, s \in Sids : unpublish_track(u, s)
  BY <1>5 DEF unpublish_track, Says, FrameInv, Framed, RoomEvents, taskVars
<1>6. CASE \E u \in Unpublishes : UnpublishStep(u) \/ RemoveTrackFails(u)
  BY <1>6 DEF UnpublishStep, Unpublished, UnpublishCallback, RemoveTrackFails, Says,
     FrameInv, Framed, RoomEvents, taskVars
<1>7. CASE \E x \in Disconnects : Disconnect(x) \/ TakeHandle(x)
  BY <1>7 DEF Disconnect, TakeHandle, HandleTaken, FrameInv, Framed, taskVars
<1>8. CASE \E x \in Disconnects : DisconnectCallback(x)
  BY <1>8 DEF DisconnectCallback, Says, FrameInv, Framed, RoomEvents, taskVars
<1>9. CASE RoomTaskStep \/ RoomTaskEnds
  BY <1>9 DEF RoomTaskStep, EventTaken, ForwardPublished, ForwardUnpublished,
     UnpublishedInserted, ForwardState, RoomTaskEnds, Forwards, ForwardingEnds, Says,
     FrameInv, Framed, RoomEvents, requestVars
<1> QED
  BY <1>1, <1>2, <1>3, <1>4, <1>5, <1>6, <1>7, <1>8, <1>9, NextSplits
  DEF FfiStep, DisconnectStep

\* The client hears the room's events between ConnectCallback and RoomEos, and
\* the DisconnectCallback of the disconnect that stopped the tasks after that
\* (room.rs:185-201).
THEOREM EventsAreFramed == Safe => EventsFramed
<1>1. Init => FrameInv
  BY DEF Init, FrameInv, ConnectCallback, RoomEos
<1>2. FrameInv /\ [Next]_vars => [Framed]_vars
  BY FrameStep
<1>3. FrameInv =>
        \A x \in Disconnects : <<"DisconnectCallback", x>> \in told => RoomEos \in told
  BY DEF FrameInv
<1>4. Safe => []FrameInv
  BY <1>1, FrameStep, PTL DEF Safe
<1>5. Safe => [][Framed]_vars
  BY <1>4, <1>2, PTL DEF Safe
<1>6. Safe => [](\A x \in Disconnects :
                    <<"DisconnectCallback", x>> \in told => RoomEos \in told)
  BY <1>4, <1>3, PTL
<1> QED
  BY <1>5, <1>6 DEF EventsFramed, Framed

-----------------------------------------------------------------------------
PublisherStates == {"none", "removing", "removed", "adding", "sending", "added",
                    "published", "called", "done"}

\* publish_track's callbacks: only a request that was answered puts its sid in
\* the set, and it keeps that sid.
PublishInv ==
    /\ publisher \in [Publishers -> PublisherStates]
    /\ sid \in [Publishers -> Sids \cup {0}]
    /\ next_sid \in Nat \ {0}
    /\ published \subseteq Sids
    /\ snapshot \in [1..MaxCycles -> SUBSET Sids]
    /\ \A q \in Publishers : publisher[q] = "sending" => sid[q] \in Sids
    /\ \A r \in Requests :
          /\ <<"PublishTrackCallback", r>> \in told => publisher[r] \in {"called", "done"}
          /\ publisher[r] = "called" => <<"PublishTrackCallback", r>> \in told
    /\ \A s \in pending_published :
          \E r \in Requests : sid[r] = s /\ <<"PublishTrackCallback", r>> \in told

\* What one step may tell the client of a published track.
AfterCallback ==
    \A s \in Sids :
        /\ <<"LocalTrackPublished", s>> \in told' \ told
        /\ ~reconnecting
        => \E r \in Requests :
              sid[r] = s /\ <<"PublishTrackCallback", r>> \in told

LEMMA SdkPublishStep == PublishInv /\ SdkStep => PublishInv' /\ AfterCallback
<1> SUFFICES ASSUME PublishInv, SdkStep PROVE PublishInv' /\ AfterCallback
  OBVIOUS
<1>1. UNCHANGED <<told, pending_published>>
  BY SdkIsSilent DEF ffiVars, pendingVars
<1>2. AfterCallback
  BY <1>1 DEF AfterCallback
<1> USE <1>1 DEF PublishInv, PublisherStates, Publishers
<1>3. CASE \E r \in Requests : publish_track(r)
  BY <1>3, <1>2 DEF publish_track, PublisherMoves
<1>4. CASE \E q \in Publishers : AddTrack(q)
  <2>1. PICK q \in Publishers : AddTrack(q)
    BY <1>4
  <2>2. next_sid \in Sids
    BY <2>1, BoundsAssumption DEF AddTrack, Sids
  <2>3. q \in Requests => <<"PublishTrackCallback", q>> \notin told
    BY <2>1 DEF AddTrack, PublisherMoves
  <2> QED
    BY <2>1, <2>2, <2>3, <1>2 DEF AddTrack, PublisherMoves
<1>5. CASE \E q \in Publishers : add_publication(q) \/ LocalTrackPublished(q)
  BY <1>5, <1>2 DEF add_publication, LocalTrackPublished, PublisherMoves
<1>6. CASE ReconnectionBegins \/ handle_resumed \/ handle_restarted
  BY <1>6, <1>2 DEF ReconnectionBegins, handle_resumed, handle_restarted
<1>7. CASE \E c \in 1..MaxCycles : GroupStep(c) \/ Republished(c)
  <2>1. PICK c \in 1..MaxCycles : GroupStep(c) \/ Republished(c)
    BY <1>7
  <2>2. CASE \E s \in Sids : JobSpawned(c, s)
    <3>1. PICK s \in Sids : JobSpawned(c, s)
      BY <2>2
    <3>2. <<c, s>> \in Jobs /\ <<c, s>> \notin Requests
      BY NamesAssumption DEF Jobs
    <3> QED
      BY <3>1, <3>2, <1>2 DEF JobSpawned, PublisherMoves
  <2>3. CASE RepublishPanics(c)
    <3>1. PICK dropped \in SUBSET {q \in {c} \X snapshot[c] : publisher[q] = "removing"} :
             publisher' = [q \in Publishers |-> IF q \in dropped THEN "done" ELSE publisher[q]]
      BY <2>3 DEF RepublishPanics
    <3>2. \A r \in Requests : r \notin dropped
      BY NamesAssumption DEF Jobs
    <3>3. UNCHANGED <<next_sid, sid, published, snapshot>>
      BY <2>3 DEF RepublishPanics
    <3>4. publisher' \in [Publishers -> PublisherStates]
      BY <3>1
    <3>5. \A r \in Requests : publisher'[r] = publisher[r]
      BY <3>1, <3>2
    <3>6. \A q \in Publishers : publisher'[q] = "sending" => publisher[q] = "sending"
      BY <3>1
    <3> QED
      BY <3>3, <3>4, <3>5, <3>6, <1>2
  <2> QED
    BY <2>1, <2>2, <2>3, <1>2 DEF GroupStep, Republished
<1>8. CASE \E j \in Jobs : JobRemoves(j) \/ JobUnpublishes(j)
  BY <1>8, <1>2, NamesAssumption, ZenonT(40) DEF JobRemoves, JobUnpublishes, PublisherMoves
<1>9. CASE handle_disconnected \/ CloseStep \/ RoomClosed
  BY <1>9, <1>2 DEF handle_disconnected, CloseStep, RoomClosed, CloseUnpublishes
<1> QED
  BY <1>3, <1>4, <1>5, <1>6, <1>7, <1>8, <1>9 DEF SdkStep

LEMMA PublishStepKeeps == PublishInv /\ [Next]_vars => PublishInv' /\ AfterCallback
<1> SUFFICES ASSUME PublishInv, [Next]_vars PROVE PublishInv' /\ AfterCallback
  OBVIOUS
<1> USE DEF PublishInv, AfterCallback, PublisherStates, Publishers
<1>1. CASE UNCHANGED vars
  BY <1>1 DEF vars, ffiVars, sdkVars, pendingVars
<1>2. CASE RoomConnected \/ CallbackSent \/ TasksSpawned \/ ConnectFails
  BY <1>2 DEF RoomConnected, CallbackSent, TasksSpawned, ConnectFails,
     Says, ConnectCallback, sdkVars, pendingVars
<1>3. CASE \E q \in Publishers : PublishFails(q)
  BY <1>3 DEF PublishFails, PublisherMoves, Says, pendingVars
<1>4. CASE \E r \in Requests : PublishCallback(r) \/ PublishInserted(r)
  BY <1>4 DEF PublishCallback, PublishInserted, PublisherMoves, Says, pendingVars
<1>5. CASE \E u \in Unpublishes, s \in Sids : unpublish_track(u, s)
  BY <1>5 DEF unpublish_track, Says, pendingVars
<1>6. CASE \E u \in Unpublishes : UnpublishStep(u) \/ RemoveTrackFails(u)
  BY <1>6 DEF UnpublishStep, Unpublished, UnpublishCallback, RemoveTrackFails, Says,
     sdkVars, pendingVars
<1>7. CASE \E x \in Disconnects : Disconnect(x) \/ DisconnectStep(x)
  BY <1>7 DEF Disconnect, DisconnectStep, TakeHandle, DisconnectCallback, Says,
     sdkVars, pendingVars
<1>8. CASE RoomTaskStep \/ RoomTaskEnds
  BY <1>8 DEF RoomTaskStep, EventTaken, ForwardPublished, ForwardUnpublished,
     UnpublishedInserted, ForwardState, RoomTaskEnds, Forwards, Says, RoomEos, sdkVars,
     pendingVars
<1> QED
  BY <1>1, <1>2, <1>3, <1>4, <1>5, <1>6, <1>7, <1>8, NextSplits, SdkPublishStep
  DEF FfiStep

\* Outside a reconnection, as room_task sees it, LocalTrackPublished comes after
\* the callback of the request that published the track (room.rs:443-444).
THEOREM PublishCallbackIsFirst == Safe => PublishedAfterCallback
<1>1. Init => PublishInv
  BY DEF Init, PublishInv, PublisherStates, Publishers
<1>2. PublishInv /\ [Next]_vars => [AfterCallback]_vars
  BY PublishStepKeeps
<1>3. Safe => []PublishInv
  BY <1>1, PublishStepKeeps, PTL DEF Safe
<1>4. Safe => [][AfterCallback]_vars
  BY <1>3, <1>2, PTL DEF Safe
<1> QED
  BY <1>4 DEF PublishedAfterCallback, AfterCallback
=============================================================================
