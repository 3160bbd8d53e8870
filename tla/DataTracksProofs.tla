-------------------------- MODULE DataTracksProofs --------------------------
(***************************************************************************)
(* Proofs about the data tracks.  Of LocalDataTracks, for any number of    *)
(* publications, any size of the channels and any number of disturbances:  *)
(* types, that a descriptor never outlives the task of its track, and that *)
(* no track is left behind at the server.  Of DataTrackPackets, for frames *)
(* and buffers of any size and any modulus: what comes out of the          *)
(* Depacketizer went into the Packetizer, and a frame whose packets came   *)
(* together comes out.                                                     *)
(***************************************************************************)
EXTENDS LocalDataTracks, DataTrackPackets, FiniteSetTheorems, TLAPS

-----------------------------------------------------------------------------
(* The channels *)

LEMMA AppendSet ==
    ASSUME NEW S, NEW s \in Seq(S), NEW e \in S
    PROVE  /\ Append(s, e) \in Seq(S) /\ Len(Append(s, e)) = Len(s) + 1
           /\ ToSet(Append(s, e)) = ToSet(s) \cup {e}
<1>1. Append(s, e) \in Seq(S) /\ Len(Append(s, e)) = Len(s) + 1
  OBVIOUS
<1>2. \A i \in 1..Len(s) : Append(s, e)[i] = s[i]
  OBVIOUS
<1>3. Append(s, e)[Len(s) + 1] = e
  OBVIOUS
<1>4. /\ DOMAIN s = 1..Len(s) /\ DOMAIN Append(s, e) = 1..(Len(s) + 1)
      /\ Len(s) \in Nat
  BY <1>1
<1>5. 1..(Len(s) + 1) = 1..Len(s) \cup {Len(s) + 1}
  BY <1>4
<1> QED
  <2>1. ToSet(Append(s, e)) = {Append(s, e)[i] : i \in 1..Len(s) \cup {Len(s) + 1}}
    BY <1>4, <1>5 DEF ToSet
  <2>2. ToSet(s) = {s[i] : i \in 1..Len(s)}
    BY <1>4 DEF ToSet
  <2> QED
    BY <1>1, <1>2, <1>3, <2>1, <2>2

LEMMA TailSet ==
    ASSUME NEW S, NEW s \in Seq(S), s # <<>>
    PROVE  /\ Head(s) \in S
           /\ Tail(s) \in Seq(S) /\ Len(Tail(s)) = Len(s) - 1
           /\ ToSet(s) = {Head(s)} \cup ToSet(Tail(s))
<1>1. /\ Head(s) \in S
      /\ Tail(s) \in Seq(S) /\ Len(Tail(s)) = Len(s) - 1
  OBVIOUS
<1>2. \A i \in 1..Len(s) : i = 1 \/ (i - 1 \in 1..Len(Tail(s)) /\ s[i] = Tail(s)[i - 1])
  OBVIOUS
<1>3. \A i \in 1..Len(Tail(s)) : i + 1 \in 1..Len(s) /\ Tail(s)[i] = s[i + 1]
  OBVIOUS
<1>4. 1 \in 1..Len(s) /\ Head(s) = s[1]
  OBVIOUS
<1>5. DOMAIN s = 1..Len(s) /\ DOMAIN Tail(s) = 1..Len(Tail(s))
  BY <1>1
<1>6. ToSet(s) = {s[i] : i \in 1..Len(s)}
  BY <1>5 DEF ToSet
<1>7. ToSet(Tail(s)) = {Tail(s)[i] : i \in 1..Len(Tail(s))}
  BY <1>5 DEF ToSet
<1>8. ToSet(s) \subseteq {Head(s)} \cup ToSet(Tail(s))
  BY <1>2, <1>4, <1>6, <1>7, ZenonT(40)
<1>9. {Head(s)} \cup ToSet(Tail(s)) \subseteq ToSet(s)
  BY <1>3, <1>4, <1>6, <1>7
<1> QED
  BY <1>1, <1>8, <1>9

InputOK == event_in \in Seq(Inputs) /\ Len(event_in) <= EVENT_BUFFER_COUNT

\* What try_send leaves of the channel.
LEMMA Sends ==
    ASSUME InputOK, lost \in BOOLEAN, NEW event \in Inputs, TrySend(event)
    PROVE  /\ InputOK' /\ lost' \in BOOLEAN
           /\ ToSet(event_in) \subseteq ToSet(event_in')
           /\ InputOpen /\ ~Full(event_in) => event \in ToSet(event_in')
BY AppendSet, BufferAssumption DEF InputOK, TrySend, Full

\* What the manager finds, and what it leaves in the channel.
LEMMA TakesOne ==
    ASSUME InputOK, NEW type, Takes(type)
    PROVE  /\ InputOK' /\ Head(event_in) \in Inputs /\ Head(event_in).type = type
           /\ mgr = "idle" /\ output = None /\ UNCHANGED <<event_out, lost>>
           /\ ToSet(event_in) = {Head(event_in)} \cup ToSet(event_in')
BY TailSet, BufferAssumption DEF InputOK, Takes

\* The request of a task stays in the channel until it is the one that is taken.
LEMMA RequestStays ==
    ASSUME InputOK, NEW type, Takes(type), NEW h,
           Event("UnpublishRequest", h) \in ToSet(event_in),
           type # "UnpublishRequest" \/ Head(event_in).handle # h
    PROVE  Event("UnpublishRequest", h) \in ToSet(event_in')
BY TakesOne DEF Event

\* What an input is about.
LEMMA InputsAre ==
    ASSUME NEW e \in Inputs
    PROVE  /\ e.type \in {"PublishRequest", "PublishCancelled", "UnpublishRequest",
                          "SfuUnpublishResponse", "SfuPublishResponse"} => e.handle \in Handles
           /\ e.type = "SfuPublishResponse" => e.ok \in BOOLEAN
BY DEF Inputs

LEMMA InputsMade ==
    /\ \A h \in Handles :
          /\ \A type \in {"PublishRequest", "PublishCancelled", "UnpublishRequest",
                          "SfuUnpublishResponse"} : Event(type, h) \in Inputs
          /\ \A ok \in BOOLEAN : Answer(h, ok) \in Inputs
    /\ \A type \in {"RepublishTracks", "Shutdown"} : Event(type, "none") \in Inputs
BY DEF Inputs, Event, Answer

LEMMA OutputsMade ==
    /\ \A h \in Handles : \A type \in {"SfuPublishRequest", "SfuUnpublishRequest"} :
          Event(type, h) \in Outputs
    /\ \A e \in Outputs : e.handle \in Handles
BY DEF Outputs, Event

-----------------------------------------------------------------------------
\* TypeOK, and what ActiveHasTask needs besides: a descriptor that is away while the
\* manager sends Published to its track has a task too.
HasTask(h) ==
    \/ task[h] \in {"running", "sending"}
    \/ Event("UnpublishRequest", h) \in ToSet(event_in)

TasksInv ==
    mgr \in {"idle", "republish", "republished"} =>
        \A h \in Handles :
            descriptors[h] = "active" \/ (mgr = "republished" /\ h \in todo) => HasTask(h)

IInv == TypeOK /\ TasksInv

LEMMA TypeStep == TypeOK /\ [Next]_vars => TypeOK'
<1> SUFFICES ASSUME TypeOK, [Next]_vars PROVE TypeOK'
  OBVIOUS
<1> USE DEF TypeOK, InputOK, callVars, chanVars, trackVars, mgrVars, roomVars,
        serverVars
<1>1. ASSUME NEW h \in Handles, publish_track(h) PROVE TypeOK'
  BY <1>1, Sends, InputsMade DEF publish_track
<1>2. ASSUME NEW h \in Handles, PublishTimeout(h) PROVE TypeOK'
  BY <1>2 DEF PublishTimeout
<1>3. ASSUME NEW h \in Handles, local_unpublish(h) PROVE TypeOK'
  BY <1>3 DEF local_unpublish
<1>4. ASSUME NEW h \in Handles, ForwardResult(h) PROVE TypeOK'
  BY <1>4 DEF ForwardResult
<1>5. ASSUME NEW h \in Handles, ForwardCancelled(h) PROVE TypeOK'
  BY <1>5, Sends, InputsMade DEF ForwardCancelled
<1>6. ASSUME NEW h \in Handles, TaskSeesUnpublished(h) PROVE TypeOK'
  BY <1>6 DEF TaskSeesUnpublished
<1>7. ASSUME NEW h \in Handles, TaskEnds(h) PROVE TypeOK'
  BY <1>7, Sends, InputsMade DEF TaskEnds, InputOpen
<1>8. ASSUME NEW h \in Handles, ServerUnpublishes(h) PROVE TypeOK'
  <2>1. requests' \in Seq(Outputs)
    BY <1>8, TailSet, ZenonT(40) DEF ServerUnpublishes
  <2>2. answers' \in Seq(Inputs)
    BY <1>8, AppendSet, InputsMade DEF ServerUnpublishes
  <2>3. disturbances' \in 0..MaxDisturbances
    BY <1>8, DisturbancesAssumption DEF ServerUnpublishes
  <2> QED
    BY <1>8, <2>1, <2>2, <2>3 DEF ServerUnpublishes
<1>9. ASSUME NEW h \in Handles, Republished(h) PROVE TypeOK'
  BY <1>9 DEF Republished
<1>10. ASSUME NEW h \in Handles, Republish(h) PROVE TypeOK'
  BY <1>10, OutputsMade DEF Republish
<1>11. ASSUME NEW h \in Handles, ShutdownTrack(h) PROVE TypeOK'
  BY <1>11 DEF ShutdownTrack
<1>12. ASSUME NEW h \in Handles, ShutdownPending(h) PROVE TypeOK'
  BY <1>12 DEF ShutdownPending
<1>13. ASSUME NEW h \in Handles, TaskJoined(h) PROVE TypeOK'
  BY <1>13 DEF TaskJoined
<1>14. CASE on_publish_request
  BY <1>14, TakesOne, RequestStays, InputsAre, OutputsMade DEF on_publish_request
<1>15. CASE on_publish_cancelled
  BY <1>15, TakesOne, RequestStays, InputsAre DEF on_publish_cancelled
<1>16. CASE on_unpublish_request
  BY <1>16, TakesOne, RequestStays, InputsAre, OutputsMade
     DEF on_unpublish_request, remove_descriptor
<1>17. CASE on_sfu_unpublish_response
  BY <1>17, TakesOne, RequestStays, InputsAre
     DEF on_sfu_unpublish_response, remove_descriptor
<1>18. CASE on_sfu_publish_response
  <2> DEFINE e == Head(event_in)
  <2>1. /\ InputOK' /\ e.handle \in Handles /\ e.ok \in BOOLEAN
        /\ mgr = "idle" /\ output = None /\ UNCHANGED <<event_out, lost>>
    BY <1>18, TakesOne, InputsAre DEF on_sfu_publish_response
  <2>2. UNCHANGED <<roomVars, serverVars>>
    BY <1>18 DEF on_sfu_publish_response
  <2>3. CASE UnknownPublished(e.handle)
    BY <2>1, <2>2, <2>3, OutputsMade DEF UnknownPublished
  <2>4. CASE PendingPublished(e.handle, e.ok)
    <3>1. descriptors' \in [Handles -> {"none", "pending", "active", "ending"}]
      <4>1. \E v \in {"none", "active"} :
               descriptors' = [descriptors EXCEPT ![e.handle] = v]
        BY <2>4 DEF PendingPublished
      <4> QED
        BY <2>1, <4>1
    <3>3. result' \in [Handles -> {"none", "open", "ok", "err", "dropped", "closed"}]
      <4>1. \/ result' = result
            \/ \E v \in {"ok", "err"} : result' = [result EXCEPT ![e.handle] = v]
        BY <2>4 DEF PendingPublished
      <4> QED
        BY <2>1, <4>1
    <3>2. /\ state' \in [Handles -> {"none", "Published", "Republishing", "Unpublished"}]
          /\ task' \in [Handles -> {"none", "running", "sending", "ended"}]
      <4>1. \/ state' = state /\ task' = task
            \/ /\ state' = [state EXCEPT ![e.handle] = "Published"]
               /\ task' = [task EXCEPT ![e.handle] = "running"]
        BY <2>4 DEF PendingPublished
      <4> QED
        BY <2>1, <4>1
    <3> QED
      BY <2>1, <2>2, <2>4, <3>1, <3>2, <3>3 DEF PendingPublished
  <2>5. CASE ActivePublished(e.handle, e.ok)
    BY <2>1, <2>2, <2>5 DEF ActivePublished
  <2> QED
    BY <1>18, <2>3, <2>4, <2>5 DEF on_sfu_publish_response
<1>19. CASE on_republish_tracks
  BY <1>19, TakesOne, RequestStays DEF on_republish_tracks, Known
<1>20. CASE on_shutdown
  BY <1>20, TakesOne, RequestStays DEF on_shutdown, Known
<1>21. CASE OutputSent
  BY <1>21, AppendSet, BufferAssumption DEF OutputSent, Full
<1>22. CASE ManagerEnds
  BY <1>22, BufferAssumption DEF ManagerEnds
<1>23. CASE ForwardOutput
  <2>1. /\ Head(event_out) \in Outputs /\ event_out' \in Seq(Outputs)
        /\ Len(event_out') <= EVENT_BUFFER_COUNT
    BY <1>23, TailSet, BufferAssumption DEF ForwardOutput
  <2>2. requests' \in Seq(Outputs)
    <3>1. requests' = requests \/ requests' = Append(requests, Head(event_out))
      BY <1>23 DEF ForwardOutput
    <3>2. Append(requests, Head(event_out)) \in Seq(Outputs)
      BY <2>1, AppendSet
    <3> QED
      BY <3>1, <3>2
  <2>3. disturbances' \in 0..MaxDisturbances /\ missed' \subseteq Handles
    BY <1>23, <2>1, DisturbancesAssumption, OutputsMade DEF ForwardOutput
  <2> QED
    BY <1>23, <2>1, <2>2, <2>3 DEF ForwardOutput
<1>24. CASE ForwarderEnds
  BY <1>24, Sends, InputsMade, BufferAssumption DEF ForwarderEnds
<1>25. CASE RoomCloses
  BY <1>25 DEF RoomCloses
<1>26. CASE ForwardAnswer
  BY <1>26, Sends, TailSet DEF ForwardAnswer
<1>27. CASE handle_restarted
  BY <1>27, Sends, InputsMade DEF handle_restarted
<1>28. CASE ServerPublishes
  BY <1>28, AppendSet, TailSet, InputsMade, OutputsMade DEF ServerPublishes
<1>29. CASE Reconnect
  BY <1>29, DisturbancesAssumption DEF Reconnect
<1>30. CASE UNCHANGED vars
  BY <1>30 DEF vars
<1>31. CASE StreamLost
  BY <1>31, DisturbancesAssumption DEF StreamLost
<1> QED
  BY <1>1, <1>2, <1>3, <1>4, <1>5, <1>6, <1>7, <1>8, <1>9, <1>10, <1>11, <1>12, <1>13,
     <1>14, <1>15, <1>16, <1>17, <1>18, <1>19, <1>20, <1>21, <1>22, <1>23, <1>24,
     <1>25, <1>26, <1>27, <1>28, <1>29, <1>30, <1>31
     DEF Next, ManagerStep, ForwardStep

\* One step for each action: who ends a task has put its request into the channel, and
\* who takes that out has removed the descriptor.
LEMMA TasksStep == IInv /\ [Next]_vars => TasksInv'
<1> SUFFICES ASSUME IInv, [Next]_vars PROVE TasksInv'
  OBVIOUS
<1> USE DEF IInv, TypeOK, TasksInv, HasTask, InputOK, callVars, chanVars, trackVars,
        mgrVars, roomVars, serverVars
<1>1. ASSUME NEW h \in Handles, publish_track(h) PROVE TasksInv'
  BY <1>1, Sends, InputsMade DEF publish_track
<1>2. ASSUME NEW h \in Handles, PublishTimeout(h) PROVE TasksInv'
  BY <1>2 DEF PublishTimeout
<1>3. ASSUME NEW h \in Handles, local_unpublish(h) PROVE TasksInv'
  BY <1>3 DEF local_unpublish
<1>4. ASSUME NEW h \in Handles, ForwardResult(h) PROVE TasksInv'
  BY <1>4 DEF ForwardResult
<1>5. ASSUME NEW h \in Handles, ForwardCancelled(h) PROVE TasksInv'
  BY <1>5, Sends, InputsMade DEF ForwardCancelled
<1>6. ASSUME NEW h \in Handles, TaskSeesUnpublished(h) PROVE TasksInv'
  BY <1>6 DEF TaskSeesUnpublished
<1>7. ASSUME NEW h \in Handles, TaskEnds(h) PROVE TasksInv'
  BY <1>7, Sends, InputsMade DEF TaskEnds, InputOpen
<1>8. ASSUME NEW h \in Handles, ServerUnpublishes(h) PROVE TasksInv'
  BY <1>8, DisturbancesAssumption, AppendSet, TailSet, InputsMade DEF ServerUnpublishes
<1>9. ASSUME NEW h \in Handles, Republished(h) PROVE TasksInv'
  BY <1>9 DEF Republished
<1>10. ASSUME NEW h \in Handles, Republish(h) PROVE TasksInv'
  BY <1>10, OutputsMade DEF Republish
<1>11. ASSUME NEW h \in Handles, ShutdownTrack(h) PROVE TasksInv'
  BY <1>11 DEF ShutdownTrack
<1>12. ASSUME NEW h \in Handles, ShutdownPending(h) PROVE TasksInv'
  BY <1>12 DEF ShutdownPending
<1>13. ASSUME NEW h \in Handles, TaskJoined(h) PROVE TasksInv'
  BY <1>13 DEF TaskJoined
<1>14. CASE on_publish_request
  BY <1>14, TakesOne, RequestStays, InputsAre, OutputsMade DEF on_publish_request
<1>15. CASE on_publish_cancelled
  BY <1>15, TakesOne, RequestStays, InputsAre DEF on_publish_cancelled
<1>16. CASE on_unpublish_request
  BY <1>16, TakesOne, RequestStays, InputsAre, OutputsMade
     DEF on_unpublish_request, remove_descriptor
<1>17. CASE on_sfu_unpublish_response
  BY <1>17, TakesOne, RequestStays, InputsAre
     DEF on_sfu_unpublish_response, remove_descriptor
<1>18. CASE on_sfu_publish_response
  BY <1>18, TakesOne, RequestStays, InputsAre, OutputsMade
     DEF on_sfu_publish_response, UnknownPublished, PendingPublished, ActivePublished
<1>19. CASE on_republish_tracks
  BY <1>19, TakesOne, RequestStays DEF on_republish_tracks, Known
<1>20. CASE on_shutdown
  BY <1>20, TakesOne, RequestStays DEF on_shutdown, Known
<1>21. CASE OutputSent
  BY <1>21, AppendSet, BufferAssumption DEF OutputSent, Full
<1>22. CASE ManagerEnds
  BY <1>22, BufferAssumption DEF ManagerEnds
<1>23. CASE ForwardOutput
  BY <1>23, AppendSet, TailSet, BufferAssumption DEF ForwardOutput
<1>24. CASE ForwarderEnds
  BY <1>24, Sends, InputsMade, BufferAssumption DEF ForwarderEnds
<1>25. CASE RoomCloses
  BY <1>25 DEF RoomCloses
<1>26. CASE ForwardAnswer
  BY <1>26, Sends, TailSet DEF ForwardAnswer
<1>27. CASE handle_restarted
  BY <1>27, Sends, InputsMade DEF handle_restarted
<1>28. CASE ServerPublishes
  BY <1>28, AppendSet, TailSet, InputsMade, OutputsMade DEF ServerPublishes
<1>29. CASE Reconnect
  BY <1>29, DisturbancesAssumption DEF Reconnect
<1>30. CASE UNCHANGED vars
  BY <1>30 DEF vars
<1>31. CASE StreamLost
  BY <1>31 DEF StreamLost
<1> QED
  BY <1>1, <1>2, <1>3, <1>4, <1>5, <1>6, <1>7, <1>8, <1>9, <1>10, <1>11, <1>12, <1>13,
     <1>14, <1>15, <1>16, <1>17, <1>18, <1>19, <1>20, <1>21, <1>22, <1>23, <1>24,
     <1>25, <1>26, <1>27, <1>28, <1>29, <1>30, <1>31
     DEF Next, ManagerStep, ForwardStep

LEMMA InitInv == Init => IInv
<1> SUFFICES ASSUME Init PROVE IInv
  OBVIOUS
<1>1. TypeOK
  <2>1. /\ event_in \in Seq(Inputs) /\ event_out \in Seq(Outputs)
        /\ requests \in Seq(Outputs) /\ answers \in Seq(Inputs)
        /\ Len(event_in) <= EVENT_BUFFER_COUNT /\ Len(event_out) <= EVENT_BUFFER_COUNT
    BY BufferAssumption DEF Init
  <2>2. /\ call \in [Handles -> {"none", "waiting", "ok", "err", "timeout"}]
        /\ result \in [Handles -> {"none", "open", "ok", "err", "dropped", "closed"}]
        /\ descriptors \in [Handles -> {"none", "pending", "active", "ending"}]
        /\ state \in [Handles -> {"none", "Published", "Republishing", "Unpublished"}]
        /\ task \in [Handles -> {"none", "running", "sending", "ended"}]
    BY DEF Init
  <2>3. disturbances \in 0..MaxDisturbances
    BY DisturbancesAssumption DEF Init
  <2> QED
    BY <2>1, <2>2, <2>3 DEF Init, TypeOK
<1>2. TasksInv
  BY DEF Init, TasksInv
<1> QED
  BY <1>1, <1>2 DEF IInv

LEMMA Invariance == Safe => []IInv
<1>1. IInv /\ [Next]_vars => IInv'
  BY TypeStep, TasksStep DEF IInv
<1> QED
  BY <1>1, InitInv, PTL DEF Safe

-----------------------------------------------------------------------------
\* Every variable keeps its type and no channel of the manager exceeds its capacity.
THEOREM TypeCorrect == Safe => []TypeOK
BY Invariance, PTL DEF IInv

\* A descriptor never outlives its track, whoever ends the track first, the
\* application, the server, a drop or a republish that meets any of them.  It is about
\* the UnpublishRequest that TrackTask sends with send().await, not with try_send.
THEOREM DescriptorHasTask == Safe => []ActiveHasTask
<1>1. IInv => ActiveHasTask
  BY DEF IInv, TasksInv, HasTask, ActiveHasTask
<1> QED
  BY <1>1, Invariance, PTL

-----------------------------------------------------------------------------
(* Nothing is left behind: from the moment the server publishes a track until it ends *)
(* it, there is a task that will ask for that, the request on its way, or an answer   *)
(* that makes the one or the other.                                                   *)

SfuUnpublish(h) == Event("SfuUnpublishRequest", h)

Kept(h) ==
    \/ task[h] \in {"running", "sending"}
    \/ Event("UnpublishRequest", h) \in ToSet(event_in)
    \/ output = SfuUnpublish(h) \/ SfuUnpublish(h) \in ToSet(event_out) \cup ToSet(requests)
    \/ Answer(h, TRUE) \in ToSet(answers) \cup ToSet(event_in)

GaveUp == \E h \in Handles : call[h] = "timeout"

\* The manager ends only with the room, which has no track at the server any more.
ClosingInv ==
    /\ forwarder = "ended" => closing
    /\ mgr \in {"shutdown", "ended"} => closing
    /\ Event("Shutdown", "none") \in ToSet(event_in) => closing
    /\ Event("Shutdown", "none") \notin ToSet(answers)
    /\ closing => server = {} /\ requests = <<>>

\* A pending publication that its caller waits for has the sender of its result.
AwaitedInv ==
    \A h \in Handles :
        descriptors[h] = "pending" /\ call[h] # "timeout" => result[h] = "open"

KeptInv == ~lost /\ ~GaveUp => \A h \in server \ missed : Kept(h)

SettledInv == ClosingInv /\ AwaitedInv /\ KeptInv

\* What try_send leaves, when it drops nothing.
LEMMA SendsAll ==
    ASSUME InputOK, NEW event \in Inputs, TrySend(event)
    PROVE  /\ ToSet(event_in) \subseteq ToSet(event_in')
           /\ ToSet(event_in') \subseteq ToSet(event_in) \cup {event}
           /\ ~lost' => ~lost /\ (InputOpen => event \in ToSet(event_in'))
<1>1. CASE InputOpen /\ ~Full(event_in)
  <2>1. ToSet(event_in') = ToSet(event_in) \cup {event}
    BY <1>1, AppendSet DEF InputOK, TrySend
  <2> QED
    BY <1>1, <2>1 DEF TrySend
<1>2. CASE ~(InputOpen /\ ~Full(event_in))
  BY <1>2 DEF TrySend
<1> QED
  BY <1>1, <1>2

\* The input that is taken is the one that goes.
LEMMA TakesIt ==
    ASSUME InputOK, NEW type, Takes(type)
    PROVE  /\ ToSet(event_in') \subseteq ToSet(event_in)
           /\ \A e \in ToSet(event_in) : e \in ToSet(event_in') \/ e = Head(event_in)
           /\ Head(event_in).type = type /\ Head(event_in) \in ToSet(event_in)
           /\ mgr = "idle" /\ output = None /\ UNCHANGED <<event_out, lost>>
<1>1. /\ Head(event_in).type = type /\ mgr = "idle" /\ output = None
      /\ UNCHANGED <<event_out, lost>>
      /\ ToSet(event_in) = {Head(event_in)} \cup ToSet(event_in')
  BY TakesOne
<1> QED
  BY <1>1

LEMMA EventIs ==
    /\ \A type, h : Event(type, h).type = type /\ Event(type, h).handle = h
    /\ \A h, ok : /\ Answer(h, ok).type = "SfuPublishResponse"
                  /\ Answer(h, ok).handle = h /\ Answer(h, ok).ok = ok
    /\ \A type, h : type # "None" => Event(type, h) # None
BY DEF Event, Answer, None

\* What is not undone: an event lost, a caller that gave up, the end of the room.
LEMMA Lasting ==
    ASSUME TypeOK, [Next]_vars
    PROVE  /\ lost => lost'
           /\ closing => closing'
           /\ missed \subseteq missed'
           /\ \A h \in Handles : call[h] = "timeout" => call'[h] = "timeout"
<1> USE DEF TypeOK, callVars, chanVars, trackVars, mgrVars, roomVars, serverVars
<1>1. ASSUME NEW h \in Handles,
             \/ publish_track(h) \/ PublishTimeout(h) \/ local_unpublish(h)
             \/ ForwardStep(h) \/ TaskSeesUnpublished(h) \/ TaskEnds(h)
             \/ ServerUnpublishes(h)
      PROVE  /\ lost => lost'
             /\ closing => closing'
             /\ missed \subseteq missed'
             /\ \A g \in Handles : call[g] = "timeout" => call'[g] = "timeout"
  BY <1>1 DEF publish_track, PublishTimeout, local_unpublish, ForwardStep, ForwardResult,
     ForwardCancelled, TaskSeesUnpublished, TaskEnds, ServerUnpublishes, TrySend
<1>2. CASE \/ on_publish_request \/ on_publish_cancelled \/ on_unpublish_request
           \/ on_sfu_publish_response \/ on_sfu_unpublish_response
           \/ on_republish_tracks \/ on_shutdown \/ OutputSent \/ ManagerEnds
  BY <1>2 DEF on_publish_request, on_publish_cancelled, on_unpublish_request,
     on_sfu_publish_response, UnknownPublished, PendingPublished, ActivePublished,
     on_sfu_unpublish_response, remove_descriptor, on_republish_tracks, on_shutdown,
     OutputSent, ManagerEnds, Takes
<1>3. ASSUME NEW h \in Handles,
             \/ Republished(h) \/ Republish(h) \/ ShutdownTrack(h)
             \/ ShutdownPending(h) \/ TaskJoined(h)
      PROVE  UNCHANGED <<lost, closing, missed, call>>
  BY <1>3 DEF Republished, Republish, ShutdownTrack, ShutdownPending, TaskJoined
<1>4. CASE \/ ForwardOutput \/ ForwarderEnds \/ RoomCloses \/ ForwardAnswer
           \/ handle_restarted \/ ServerPublishes \/ Reconnect \/ StreamLost
           \/ UNCHANGED vars
  BY <1>4 DEF ForwardOutput, ForwarderEnds, RoomCloses, ForwardAnswer, handle_restarted,
     ServerPublishes, Reconnect, StreamLost, TrySend, vars
<1> QED
  BY <1>1, <1>2, <1>3, <1>4 DEF Next, ManagerStep

LEMMA ClosingStep == TypeOK /\ ClosingInv /\ [Next]_vars => ClosingInv'
<1> SUFFICES ASSUME TypeOK, ClosingInv, [Next]_vars PROVE ClosingInv'
  OBVIOUS
<1> DEFINE Shutdown == Event("Shutdown", "none")
<1>0. InputOK
  BY DEF TypeOK, InputOK
<1> USE DEF ClosingInv, callVars, chanVars, trackVars, mgrVars, roomVars, serverVars
\* Only the forwarder of a room that closes asks for a shutdown.
<1>1. ASSUME NEW e \in Inputs, TrySend(e), e.type # "Shutdown",
             UNCHANGED <<forwarder, mgr, closing>>, Shutdown \notin ToSet(answers'),
             closing => server' = server /\ requests' = requests
      PROVE  ClosingInv'
  <2>1. Shutdown \in ToSet(event_in') => Shutdown \in ToSet(event_in)
    BY <1>0, <1>1, SendsAll, EventIs
  <2> QED
    BY <1>1, <2>1
<1>2. ASSUME NEW type, Takes(type), UNCHANGED <<forwarder, closing, server, requests, answers>>,
             mgr' \in {"shutdown", "ended"} => type = "Shutdown"
      PROVE  ClosingInv'
  <2>1. /\ ToSet(event_in') \subseteq ToSet(event_in)
        /\ Head(event_in).type = type /\ Head(event_in) \in ToSet(event_in)
    BY <1>0, <1>2, TakesIt
  <2>2. type = "Shutdown" => Head(event_in) = Shutdown
    <3>1. Head(event_in) \in Inputs
      BY <1>0, <1>2, TakesOne
    <3> QED
      BY <2>1, <3>1 DEF Inputs, Event
  <2> QED
    BY <1>2, <2>1, <2>2
<1>3. ASSUME UNCHANGED <<forwarder, mgr, closing, event_in, server, requests, answers>>
      PROVE  ClosingInv'
  BY <1>3
<1>4. ASSUME NEW h \in Handles,
             \/ publish_track(h) \/ ForwardCancelled(h) \/ TaskEnds(h)
      PROVE  ClosingInv'
  <2>1. /\ UNCHANGED <<forwarder, mgr, closing, server, requests, answers>>
        /\ \/ TrySend(Event("PublishRequest", h))
           \/ TrySend(Event("PublishCancelled", h))
           \/ TrySend(Event("UnpublishRequest", h))
    BY <1>4 DEF publish_track, ForwardCancelled, TaskEnds
  <2> QED
    BY <1>1, <2>1, InputsMade, EventIs
<1>5. ASSUME NEW h \in Handles,
             \/ PublishTimeout(h) \/ local_unpublish(h) \/ ForwardResult(h)
             \/ TaskSeesUnpublished(h)
      PROVE  ClosingInv'
  BY <1>3, <1>5 DEF PublishTimeout, local_unpublish, ForwardResult, TaskSeesUnpublished
<1>6. ASSUME NEW h \in Handles, ServerUnpublishes(h) PROVE ClosingInv'
  <2>1. UNCHANGED <<forwarder, mgr, closing, event_in>> /\ server' = server \ {h}
    BY <1>6 DEF ServerUnpublishes
  <2>2. closing => requests' = requests
    BY <1>6 DEF ServerUnpublishes
  <2>3. Shutdown \notin ToSet(answers')
    <3>1. \/ answers' = answers
          \/ answers' = Append(answers, Event("SfuUnpublishResponse", h))
      BY <1>6 DEF ServerUnpublishes
    <3>2. answers \in Seq(Inputs) /\ Event("SfuUnpublishResponse", h) \in Inputs
      BY InputsMade DEF TypeOK
    <3>3. Shutdown # Event("SfuUnpublishResponse", h)
      BY EventIs
    <3>4. ToSet(Append(answers, Event("SfuUnpublishResponse", h)))
              = ToSet(answers) \cup {Event("SfuUnpublishResponse", h)}
      BY <3>2, AppendSet
    <3>5. CASE answers' = answers
      BY <3>5
    <3>6. CASE answers' = Append(answers, Event("SfuUnpublishResponse", h))
      BY <3>3, <3>4, <3>6
    <3> QED
      BY <3>1, <3>5, <3>6
  <2> QED
    BY <2>1, <2>2, <2>3
<1>7. CASE \/ on_publish_request \/ on_publish_cancelled \/ on_unpublish_request
           \/ on_sfu_unpublish_response
  <2>1. /\ UNCHANGED <<forwarder, mgr, closing, server, requests, answers>>
        /\ \E type : Takes(type)
    BY <1>7 DEF on_publish_request, on_publish_cancelled, on_unpublish_request,
       on_sfu_unpublish_response
  <2>2. mgr = "idle"
    BY <2>1 DEF Takes
  <2> QED
    BY <1>2, <2>1, <2>2
<1>8. CASE on_sfu_publish_response \/ on_republish_tracks
  <2>1. /\ UNCHANGED <<forwarder, closing, server, requests, answers>>
        /\ mgr' \in {mgr, "idle", "republish", "republished"}
        /\ \E type : Takes(type)
    BY <1>8 DEF on_sfu_publish_response, UnknownPublished, PendingPublished,
       ActivePublished, on_republish_tracks
  <2>2. mgr = "idle"
    BY <2>1 DEF Takes
  <2> QED
    BY <1>2, <2>1, <2>2
<1>9. CASE on_shutdown
  BY <1>2, <1>9 DEF on_shutdown
<1>10. CASE OutputSent
  BY <1>3, <1>10 DEF OutputSent
<1>11. CASE ManagerEnds
  <2>1. /\ UNCHANGED <<forwarder, closing, server, requests, answers>> /\ mgr = "shutdown"
        /\ event_in' = <<>>
    BY <1>11 DEF ManagerEnds
  <2>2. ToSet(event_in') = {}
    BY <2>1 DEF ToSet
  <2> QED
    BY <2>1, <2>2
<1>12. ASSUME NEW h \in Handles,
              \/ Republished(h) \/ Republish(h) \/ ShutdownTrack(h)
              \/ ShutdownPending(h) \/ TaskJoined(h)
       PROVE  ClosingInv'
  <2>1. /\ UNCHANGED <<forwarder, closing, event_in, server, requests, answers>>
        /\ mgr' \in {mgr, "idle", "republish"}
    BY <1>12 DEF Republished, Republish, ShutdownTrack, ShutdownPending, TaskJoined
  <2> QED
    BY <2>1
<1>13. CASE ForwardOutput
  <2>1. UNCHANGED <<forwarder, mgr, closing, event_in, server, answers>>
      /\ (closing => requests' = requests)
    BY <1>13 DEF ForwardOutput
  <2> QED
    BY <2>1
<1>14. CASE ForwarderEnds
  BY <1>14 DEF ForwarderEnds
<1>15. CASE RoomCloses \/ Reconnect \/ StreamLost
  <2>1. /\ UNCHANGED <<forwarder, mgr, event_in>> /\ server' \in {server, {}}
        /\ requests' = <<>> /\ answers' = <<>>
        /\ (closing => closing') /\ (closing' => closing \/ server' = {})
    BY <1>15 DEF RoomCloses, Reconnect, StreamLost
  <2>2. ToSet(answers') = {}
    BY <2>1 DEF ToSet
  <2> QED
    BY <2>1, <2>2
<1>16. CASE ForwardAnswer
  <2>1. answers \in Seq(Inputs) /\ answers # <<>> /\ TrySend(Head(answers))
        /\ answers' = Tail(answers) /\ UNCHANGED <<forwarder, mgr, closing, server, requests>>
    BY <1>16 DEF ForwardAnswer, TypeOK
  <2>2. /\ Head(answers) \in Inputs /\ Head(answers) \in ToSet(answers)
        /\ ToSet(answers') \subseteq ToSet(answers)
    BY <2>1, TailSet
  <2>3. Shutdown \in ToSet(event_in') => Shutdown \in ToSet(event_in) \/ Shutdown = Head(answers)
    BY <1>0, <2>1, <2>2, SendsAll
  <2>4. Shutdown \notin ToSet(answers') /\ Shutdown # Head(answers)
    BY <2>2
  <2> QED
    BY <2>1, <2>3, <2>4
<1>17. CASE handle_restarted
  <2>1. /\ TrySend(Event("RepublishTracks", "none"))
        /\ UNCHANGED <<forwarder, mgr, closing, server, requests, answers>>
    BY <1>17 DEF handle_restarted
  <2> QED
    BY <1>1, <2>1, InputsMade, EventIs
<1>18. CASE ServerPublishes
  <2>1. UNCHANGED <<forwarder, mgr, closing, event_in>> /\ requests # <<>>
    BY <1>18 DEF ServerPublishes
  <2>2. PICK ok \in BOOLEAN : answers' = Append(answers, Answer(Head(requests).handle, ok))
    BY <1>18 DEF ServerPublishes
  <2>3. answers \in Seq(Inputs) /\ Answer(Head(requests).handle, ok) \in Inputs
    <3>1. Head(requests).handle \in Handles
      BY <2>1, TailSet, OutputsMade DEF TypeOK
    <3> QED
      BY <3>1, InputsMade DEF TypeOK
  <2>4. Shutdown # Answer(Head(requests).handle, ok)
    BY EventIs
  <2>5. Shutdown \notin ToSet(answers')
    BY <2>2, <2>3, <2>4, AppendSet
  <2> QED
    BY <2>1, <2>5
<1>19. CASE UNCHANGED vars
  BY <1>3, <1>19 DEF vars
<1> QED
  BY <1>4, <1>5, <1>6, <1>7, <1>8, <1>9, <1>10, <1>11, <1>12, <1>13, <1>14, <1>15, <1>16,
     <1>17, <1>18, <1>19 DEF Next, ManagerStep, ForwardStep

LEMMA AwaitedStep == TypeOK /\ AwaitedInv /\ [Next]_vars => AwaitedInv'
<1> SUFFICES ASSUME TypeOK, AwaitedInv, [Next]_vars,
                    NEW h \in Handles, descriptors'[h] = "pending", call'[h] # "timeout"
             PROVE  result'[h] = "open"
  BY DEF AwaitedInv
<1> USE DEF TypeOK, callVars, chanVars, trackVars, mgrVars, roomVars, serverVars
<1>1. call[h] # "timeout" /\ (descriptors[h] = "pending" => result[h] = "open")
  BY Lasting DEF AwaitedInv
<1>2. ASSUME NEW g \in Handles, ForwardStep(g) PROVE result'[h] = "open"
  <2>1. \/ result[g] \in {"ok", "err"}
        \/ call[g] = "timeout"
    BY <1>2 DEF ForwardStep, ForwardResult, ForwardCancelled
  <2>2. result' = [result EXCEPT ![g] = "closed"] /\ UNCHANGED descriptors
    BY <1>2 DEF ForwardStep, ForwardResult, ForwardCancelled
  <2> QED
    BY <1>1, <2>1, <2>2
<1>3. ASSUME NEW g \in Handles,
             \/ publish_track(g) \/ PublishTimeout(g) \/ local_unpublish(g)
             \/ TaskSeesUnpublished(g) \/ TaskEnds(g) \/ ServerUnpublishes(g)
      PROVE  result'[h] = "open"
  BY <1>1, <1>3 DEF publish_track, PublishTimeout, local_unpublish, TaskSeesUnpublished,
     TaskEnds, ServerUnpublishes
<1>4. CASE \/ on_publish_request \/ on_publish_cancelled \/ on_unpublish_request
           \/ on_sfu_unpublish_response \/ on_sfu_publish_response
  <2> DEFINE e == Head(event_in)
  <2>1. e.handle \in Handles
    <3>1. \E type : /\ Takes(type)
                    /\ type \in {"PublishRequest", "PublishCancelled", "UnpublishRequest",
                                 "SfuUnpublishResponse", "SfuPublishResponse"}
      BY <1>4 DEF on_publish_request, on_publish_cancelled, on_unpublish_request,
         on_sfu_unpublish_response, on_sfu_publish_response
    <3> QED
      BY <3>1, TakesOne, InputsAre DEF InputOK
  <2>2. CASE on_publish_request
    BY <1>1, <2>1, <2>2 DEF on_publish_request
  <2>3. CASE on_publish_cancelled
    BY <1>1, <2>1, <2>3 DEF on_publish_cancelled
  <2>4. CASE on_unpublish_request \/ on_sfu_unpublish_response
    BY <1>1, <2>1, <2>4 DEF on_unpublish_request, on_sfu_unpublish_response,
       remove_descriptor
  <2>5. CASE on_sfu_publish_response
    <3>1. h # e.handle => descriptors'[h] = descriptors[h] /\ result'[h] = result[h]
      BY <2>1, <2>5 DEF on_sfu_publish_response, UnknownPublished, PendingPublished,
         ActivePublished
    <3>2. h = e.handle => descriptors'[h] # "pending"
      BY <2>1, <2>5 DEF on_sfu_publish_response, UnknownPublished, PendingPublished,
         ActivePublished
    <3> QED
      BY <1>1, <3>1, <3>2
  <2> QED
    BY <1>4, <2>2, <2>3, <2>4, <2>5
<1>5. CASE \/ on_republish_tracks \/ on_shutdown \/ OutputSent \/ ManagerEnds
  BY <1>1, <1>5 DEF on_republish_tracks, on_shutdown, OutputSent, ManagerEnds
<1>6. ASSUME NEW g \in Handles,
             \/ Republished(g) \/ ShutdownTrack(g) \/ TaskJoined(g)
      PROVE  result'[h] = "open"
  BY <1>1, <1>6 DEF Republished, ShutdownTrack, TaskJoined
<1>7. ASSUME NEW g \in Handles, Republish(g) \/ ShutdownPending(g)
      PROVE  result'[h] = "open"
  BY <1>1, <1>7 DEF Republish, ShutdownPending
<1>8. CASE \/ ForwardOutput \/ ForwarderEnds \/ RoomCloses \/ ForwardAnswer
           \/ handle_restarted \/ ServerPublishes \/ Reconnect \/ StreamLost
           \/ UNCHANGED vars
  BY <1>1, <1>8 DEF ForwardOutput, ForwarderEnds, RoomCloses, ForwardAnswer,
     handle_restarted, ServerPublishes, Reconnect, StreamLost, vars
<1> QED
  BY <1>2, <1>3, <1>4, <1>5, <1>6, <1>7, <1>8 DEF Next, ManagerStep

LEMMA KeptStep == IInv /\ SettledInv /\ ClosingInv' /\ [Next]_vars => KeptInv'
<1> SUFFICES ASSUME IInv, SettledInv, ClosingInv', [Next]_vars, ~lost', ~GaveUp',
                    NEW h \in server' \ missed'
             PROVE  Kept(h)'
  BY DEF KeptInv
<1>1. TypeOK /\ InputOK /\ TasksInv /\ ClosingInv /\ AwaitedInv
  BY DEF IInv, TypeOK, InputOK, SettledInv
<1>2. h \in Handles \/ h \in server
  <2>1. server' \subseteq Handles
    BY <1>1, TypeStep DEF TypeOK
  <2> QED
    BY <2>1
<1>3. ~lost /\ ~closing /\ \A g \in Handles : call[g] # "timeout"
  BY <1>1, Lasting DEF ClosingInv, GaveUp
<1>4. h \in Handles /\ (h \in server => Kept(h))
  <2>1. missed \subseteq missed'
    BY Lasting, <1>1
  <2> QED
    BY <1>1, <1>2, <1>3, <2>1 DEF SettledInv, KeptInv, GaveUp, TypeOK
<1>5. /\ mgr \notin {"shutdown", "ended"} /\ forwarder # "ended" /\ InputOpen
      /\ mgr' \notin {"shutdown", "ended"} /\ ~closing'
  BY <1>1, <1>3 DEF ClosingInv, InputOpen
<1> DEFINE asks == Event("UnpublishRequest", h)
           answer == Answer(h, TRUE)
           sfu == SfuUnpublish(h)
<1> USE DEF callVars, chanVars, trackVars, mgrVars, roomVars, serverVars
<1>6. task \in [Handles -> {"none", "running", "sending", "ended"}]
  BY <1>1 DEF TypeOK
<1>28. asks.type = "UnpublishRequest" /\ asks.handle = h
  BY EventIs
<1>29. answer.type = "SfuPublishResponse" /\ answer.handle = h /\ answer.ok = TRUE
  BY EventIs
<1>30. sfu # None
  BY EventIs DEF SfuUnpublish
\* What is on its way goes on.
<1>7. ASSUME h \in server, UNCHANGED <<task, output, event_out, requests, answers>>,
             asks \in ToSet(event_in) => asks \in ToSet(event_in'),
             answer \in ToSet(event_in) => answer \in ToSet(event_in')
      PROVE  Kept(h)'
  BY <1>4, <1>7 DEF Kept, SfuUnpublish
<1>8. ASSUME NEW e \in Inputs, TrySend(e), h \in server,
             UNCHANGED <<task, output, event_out, requests, answers>>
      PROVE  Kept(h)'
  BY <1>1, <1>7, <1>8, SendsAll
<1>9. ASSUME NEW g \in Handles,
             \/ publish_track(g) \/ PublishTimeout(g) \/ local_unpublish(g)
             \/ ForwardResult(g) \/ ForwardCancelled(g)
      PROVE  Kept(h)'
  <2>1. UNCHANGED <<task, output, event_out, requests, answers, server>>
    BY <1>9 DEF publish_track, PublishTimeout, local_unpublish, ForwardResult,
       ForwardCancelled
  <2>2. CASE publish_track(g)
    BY <1>8, <2>1, <2>2, InputsMade DEF publish_track
  <2>3. CASE ForwardCancelled(g)
    BY <1>8, <2>1, <2>3, InputsMade DEF ForwardCancelled
  <2>4. CASE PublishTimeout(g) \/ local_unpublish(g) \/ ForwardResult(g)
    BY <1>7, <2>1, <2>4 DEF PublishTimeout, local_unpublish, ForwardResult
  <2> QED
    BY <1>9, <2>2, <2>3, <2>4
<1>10. ASSUME NEW g \in Handles, TaskSeesUnpublished(g) PROVE Kept(h)'
  BY <1>4, <1>6, <1>10 DEF TaskSeesUnpublished, Kept, SfuUnpublish
<1>11. ASSUME NEW g \in Handles, TaskEnds(g) PROVE Kept(h)'
  <2>1. /\ TrySend(Event("UnpublishRequest", g)) /\ task' = [task EXCEPT ![g] = "ended"]
        /\ UNCHANGED <<output, event_out, requests, answers, server>>
    BY <1>11 DEF TaskEnds
  <2>2. /\ ToSet(event_in) \subseteq ToSet(event_in')
        /\ Event("UnpublishRequest", g) \in ToSet(event_in')
    BY <1>1, <1>5, <2>1, SendsAll, InputsMade
  <2> QED
    BY <1>4, <1>6, <2>1, <2>2 DEF Kept, SfuUnpublish
<1>12. ASSUME NEW g \in Handles, ServerUnpublishes(g) PROVE Kept(h)'
  <2>1. /\ UNCHANGED <<task, event_in, output, event_out>>
        /\ server' = server \ {g} /\ h # g /\ h \in server
    BY <1>12 DEF ServerUnpublishes
  <2>2. ToSet(answers) \subseteq ToSet(answers')
    <3>1. answers' = answers \/ answers' = Append(answers, Event("SfuUnpublishResponse", g))
      BY <1>12 DEF ServerUnpublishes
    <3>2. answers \in Seq(Inputs) /\ Event("SfuUnpublishResponse", g) \in Inputs
      BY <1>1, InputsMade DEF TypeOK
    <3>3. ToSet(Append(answers, Event("SfuUnpublishResponse", g)))
              = ToSet(answers) \cup {Event("SfuUnpublishResponse", g)}
      BY <3>2, AppendSet
    <3>4. CASE answers' = answers
      BY <3>4
    <3>5. CASE answers' = Append(answers, Event("SfuUnpublishResponse", g))
      BY <3>3, <3>5
    <3> QED
      BY <3>1, <3>4, <3>5
  <2>3. sfu \in ToSet(requests) => sfu \in ToSet(requests')
    <3>1. CASE requests' = requests
      BY <3>1
    <3>2. CASE /\ requests # <<>> /\ Head(requests) = Event("SfuUnpublishRequest", g)
               /\ requests' = Tail(requests)
      <4>1. ToSet(requests) = {Head(requests)} \cup ToSet(requests')
        BY <1>1, <3>2, TailSet DEF TypeOK
      <4>2. Head(requests) # sfu
        BY <2>1, <3>2, EventIs DEF SfuUnpublish
      <4> QED
        BY <4>1, <4>2
    <3> QED
      BY <1>12, <3>1, <3>2 DEF ServerUnpublishes
  <2> QED
    BY <1>4, <2>1, <2>2, <2>3 DEF Kept, SfuUnpublish
\* An input is taken that is not about the end of this track.
<1>13. ASSUME NEW type, Takes(type), type \notin {"UnpublishRequest", "SfuPublishResponse"},
              UNCHANGED <<task, requests, answers, server>>
       PROVE  Kept(h)'
  <2>1. /\ \A e \in ToSet(event_in) : e \in ToSet(event_in') \/ e = Head(event_in)
        /\ Head(event_in).type = type /\ output = None /\ UNCHANGED event_out
    BY <1>1, <1>13, TakesIt
  <2>2. asks # Head(event_in) /\ answer # Head(event_in)
    <3> HIDE DEF asks, answer
    <3> QED
      BY <1>13, <1>28, <1>29, <2>1
  <2> QED
    BY <1>4, <1>13, <1>30, <2>1, <2>2 DEF Kept, SfuUnpublish
<1>14. CASE \/ on_publish_request \/ on_publish_cancelled \/ on_sfu_unpublish_response
            \/ on_republish_tracks \/ on_shutdown
  <2>1. /\ UNCHANGED <<task, requests, answers, server>>
        /\ \E type : Takes(type) /\ type \notin {"UnpublishRequest", "SfuPublishResponse"}
    BY <1>14 DEF on_publish_request, on_publish_cancelled, on_sfu_unpublish_response,
       on_republish_tracks, on_shutdown, remove_descriptor
  <2> QED
    BY <1>13, <2>1
<1>15. CASE on_unpublish_request
  <2> DEFINE e == Head(event_in)
  <2>1. /\ Takes("UnpublishRequest") /\ output' = Event("SfuUnpublishRequest", e.handle)
        /\ UNCHANGED <<task, requests, answers, server>>
    BY <1>15 DEF on_unpublish_request, remove_descriptor
  <2>2. /\ \A f \in ToSet(event_in) : f \in ToSet(event_in') \/ f = e
        /\ e.type = "UnpublishRequest" /\ output = None /\ UNCHANGED event_out
    BY <1>1, <2>1, TakesIt
  <2>3. answer # e /\ (asks = e => e.handle = h)
    <3> HIDE DEF asks, answer
    <3> QED
      BY <1>28, <1>29, <2>2
  <2> QED
    BY <1>4, <1>30, <2>1, <2>2, <2>3 DEF Kept, SfuUnpublish
<1>16. CASE on_sfu_publish_response
  <2> DEFINE e == Head(event_in)
  <2>1. /\ Takes("SfuPublishResponse")
        /\ UnknownPublished(e.handle) \/ PendingPublished(e.handle, e.ok)
              \/ ActivePublished(e.handle, e.ok)
        /\ UNCHANGED <<requests, answers, server>>
    BY <1>16 DEF on_sfu_publish_response
  <2>2. /\ \A f \in ToSet(event_in) : f \in ToSet(event_in') \/ f = e
        /\ e.type = "SfuPublishResponse" /\ mgr = "idle" /\ output = None
        /\ UNCHANGED event_out
    BY <1>1, <2>1, TakesIt
  <2>3. asks # e /\ (answer = e => e.handle = h /\ e.ok = TRUE)
    <3> HIDE DEF asks, answer
    <3> QED
      BY <1>28, <1>29, <2>2
  <2>4. e.handle \in Handles
    BY <1>1, <2>1, TakesOne, InputsAre
  <2>5. task[h] \in {"running", "sending"} => task'[h] \in {"running", "sending"}
    <3>1. CASE UnknownPublished(e.handle)
      BY <3>1 DEF UnknownPublished
    <3>2. CASE PendingPublished(e.handle, e.ok)
      <4>1. task' = task \/ task' = [task EXCEPT ![e.handle] = "running"]
        BY <3>2 DEF PendingPublished
      <4>2. CASE task' = task
        BY <4>2
      <4>3. CASE task' = [task EXCEPT ![e.handle] = "running"]
        <5> HIDE DEF e
        <5> QED
          BY <1>4, <1>6, <2>4, <4>3
      <4> QED
        BY <4>1, <4>2, <4>3
    <3>3. CASE ActivePublished(e.handle, e.ok)
      BY <3>3 DEF ActivePublished
    <3> QED
      BY <2>1, <3>1, <3>2, <3>3
\* The answer that kept it is the one that is taken.
  <2>6. CASE answer = e
    <3>1. CASE UnknownPublished(h)
      BY <3>1 DEF UnknownPublished, Kept, SfuUnpublish
    <3>2. CASE PendingPublished(h, TRUE)
      <4>1. result[h] = "open"
        BY <1>1, <1>3, <1>4, <3>2 DEF AwaitedInv, PendingPublished
      <4>2. task' = [task EXCEPT ![h] = "running"]
        BY <3>2, <4>1 DEF PendingPublished
      <4> QED
        BY <1>4, <1>6, <4>2 DEF Kept
    <3>3. CASE ActivePublished(h, TRUE)
      <4>1. task[h] \in {"running", "sending"} \/ asks \in ToSet(event_in)
        BY <1>1, <1>4, <2>2, <3>3 DEF TasksInv, HasTask, ActivePublished
      <4> QED
        BY <2>2, <2>3, <2>5, <4>1 DEF Kept
    <3> QED
      BY <2>1, <2>3, <2>6, <3>1, <3>2, <3>3
  <2>7. CASE answer # e
    BY <1>4, <1>30, <2>1, <2>2, <2>3, <2>5, <2>7 DEF Kept, SfuUnpublish
  <2> QED
    BY <2>6, <2>7
<1>17. CASE OutputSent
  <2>1. event_out' = Append(event_out, output) /\ output # None
        /\ UNCHANGED <<task, event_in, requests, answers, server>>
    BY <1>1, <1>5, <1>17 DEF OutputSent, TypeOK
  <2>2. ToSet(event_out') = ToSet(event_out) \cup {output}
    BY <1>1, <2>1, AppendSet DEF TypeOK
  <2> QED
    BY <1>4, <2>1, <2>2 DEF Kept, SfuUnpublish
<1>18. CASE ManagerEnds
  BY <1>5, <1>18 DEF ManagerEnds
<1>19. ASSUME NEW g \in Handles,
              \/ Republished(g) \/ ShutdownTrack(g) \/ ShutdownPending(g) \/ TaskJoined(g)
       PROVE  Kept(h)'
  BY <1>7, <1>19 DEF Republished, ShutdownTrack, ShutdownPending, TaskJoined
<1>20. ASSUME NEW g \in Handles, Republish(g) PROVE Kept(h)'
  <2>1. output = None /\ UNCHANGED <<task, event_in, event_out, requests, answers, server>>
    BY <1>20 DEF Republish
  <2>2. sfu # None
    BY EventIs DEF SfuUnpublish
  <2> QED
    BY <1>4, <2>1, <2>2 DEF Kept, SfuUnpublish
<1>21. CASE ForwardOutput
  <2>1. /\ event_out # <<>> /\ event_out' = Tail(event_out)
        /\ UNCHANGED <<task, event_in, output, answers, server>>
        /\ \/ requests' = Append(requests, Head(event_out))
           \/ requests' = requests /\ Head(event_out).handle # h
    BY <1>3, <1>21 DEF ForwardOutput
  <2>2. /\ Head(event_out) \in Outputs /\ ToSet(event_out) = {Head(event_out)} \cup ToSet(event_out')
    BY <1>1, <2>1, TailSet DEF TypeOK
  <2>3. \/ ToSet(requests') = ToSet(requests) \cup {Head(event_out)}
        \/ ToSet(requests') = ToSet(requests) /\ Head(event_out) # sfu
    <3>1. CASE requests' = Append(requests, Head(event_out))
      BY <1>1, <2>2, <3>1, AppendSet DEF TypeOK
    <3>2. CASE requests' = requests /\ Head(event_out).handle # h
      BY <3>2, EventIs DEF SfuUnpublish
    <3> QED
      BY <2>1, <3>1, <3>2
  <2> QED
    BY <1>4, <2>1, <2>2, <2>3 DEF Kept, SfuUnpublish
<1>22. CASE ForwarderEnds \/ RoomCloses
  BY <1>3, <1>5, <1>22 DEF ForwarderEnds, RoomCloses
<1>23. CASE ForwardAnswer
  <2>1. /\ answers # <<>> /\ answers' = Tail(answers) /\ TrySend(Head(answers))
        /\ UNCHANGED <<task, output, event_out, requests, server>>
    BY <1>23 DEF ForwardAnswer
  <2>2. /\ Head(answers) \in Inputs /\ ToSet(answers) = {Head(answers)} \cup ToSet(answers')
    BY <1>1, <2>1, TailSet DEF TypeOK
  <2>3. ToSet(event_in) \subseteq ToSet(event_in') /\ Head(answers) \in ToSet(event_in')
    BY <1>1, <1>5, <2>1, <2>2, SendsAll
  <2> QED
    BY <1>4, <2>1, <2>2, <2>3 DEF Kept, SfuUnpublish
<1>24. CASE handle_restarted
  BY <1>8, <1>24, InputsMade DEF handle_restarted
<1>25. CASE ServerPublishes
  <2> DEFINE g == Head(requests).handle
  <2>1. PICK ok \in BOOLEAN :
            /\ requests # <<>> /\ Head(requests).type = "SfuPublishRequest"
            /\ requests' = Tail(requests) /\ answers' = Append(answers, Answer(g, ok))
            /\ server' = IF ok THEN server \cup {g} ELSE server
            /\ UNCHANGED <<task, event_in, output, event_out>>
    BY <1>25 DEF ServerPublishes
  <2>2. g \in Handles /\ ToSet(requests) = {Head(requests)} \cup ToSet(requests')
    BY <1>1, <2>1, TailSet, OutputsMade DEF TypeOK
  <2>3. ToSet(answers') = ToSet(answers) \cup {Answer(g, ok)}
    BY <1>1, <2>1, <2>2, AppendSet, InputsMade DEF TypeOK
  <2>4. sfu # Head(requests)
    BY <2>1, EventIs DEF SfuUnpublish
  <2> HIDE DEF g
  <2>5. CASE h \in server
    BY <1>4, <2>1, <2>2, <2>3, <2>4, <2>5 DEF Kept, SfuUnpublish
  <2>6. CASE h \notin server
    <3>1. ok = TRUE /\ h = g
      BY <2>1, <2>6
    <3> QED
      BY <2>3, <3>1 DEF Kept
  <2> QED
    BY <2>5, <2>6
<1>26. CASE Reconnect
  BY <1>26 DEF Reconnect
<1>27. CASE UNCHANGED vars
  BY <1>7, <1>27 DEF vars
\* A message about this track that was under way would be missed.
<1>31. CASE StreamLost
  <2>1. /\ UNCHANGED <<task, event_in, output, event_out, server>>
        /\ \A m \in ToSet(requests) \cup ToSet(answers) : m.handle # h
    BY <1>4, <1>31 DEF StreamLost
  <2>2. sfu.handle = h
    BY EventIs DEF SfuUnpublish
  <2>3. sfu \notin ToSet(requests) /\ answer \notin ToSet(answers)
    BY <1>29, <2>1, <2>2
  <2> QED
    BY <1>4, <2>1, <2>3 DEF Kept, SfuUnpublish
<1> QED
  BY <1>9, <1>10, <1>11, <1>12, <1>14, <1>15, <1>16, <1>17, <1>18, <1>19, <1>20, <1>21,
     <1>22, <1>23, <1>24, <1>25, <1>26, <1>27, <1>31 DEF Next, ManagerStep, ForwardStep

LEMMA SettledInvariance == Safe => []SettledInv
<1>1. Init => SettledInv
  <2>1. Init => ToSet(event_in) = {} /\ ToSet(answers) = {}
    BY DEF Init, ToSet
  <2> QED
    BY <2>1 DEF Init, SettledInv, ClosingInv, AwaitedInv, KeptInv
<1>2. IInv /\ SettledInv /\ [Next]_vars => SettledInv'
  BY ClosingStep, AwaitedStep, KeptStep DEF IInv, SettledInv
<1> QED
  BY <1>1, <1>2, Invariance, PTL DEF Safe

\* Once every event is handled, a track that the server publishes has a task here that
\* can still end it, unless an event was lost, the signal stream lost a message about it
\* or a caller gave up.  It is about the answers to a publication that nobody waits for
\* and the order in which a track's task and the answer to its republish come to the
\* manager.
THEOREM SettledLeavesNone == Safe => []NoneLeftBehind
<1>1. TypeOK /\ SettledInv => NoneLeftBehind
  <2> SUFFICES ASSUME TypeOK, SettledInv, Settled, ~lost,
                      \A g \in Handles : call[g] # "timeout", NEW h \in server \ missed
               PROVE  task[h] \in {"running", "sending"}
    BY DEF NoneLeftBehind
  <2>1. Kept(h)
    BY DEF SettledInv, KeptInv, GaveUp
  <2>2. /\ ToSet(event_in) = {} /\ ToSet(event_out) = {} /\ ToSet(requests) = {}
        /\ ToSet(answers) = {} /\ output = None
    BY DEF Settled, ToSet
  <2>3. SfuUnpublish(h) # None
    BY EventIs DEF SfuUnpublish
  <2> QED
    BY <2>1, <2>2, <2>3 DEF Kept
<1> QED
  BY <1>1, TypeCorrect, SettledInvariance, PTL


-----------------------------------------------------------------------------
(* The packets of the frames *)

\* What the theorems suppose: no frame has more packets than there are sequences, and no
\* more frames are pushed than there are frame numbers, so that none is used again.  The
\* sequence goes round any number of times, the frame number once.
NumbersSuffice == MaxFrames <= Modulus /\ \A n \in Sizes : n <= Modulus

Numbers == 0..(Modulus - 1)
Payloads == [frame : Nat, part : Nat]
Packets == [marker : {"Single", "Start", "Inter", "Final"}, sequence : Numbers,
            frame_number : Numbers, payload : Payloads]

\* What waits for the data channel, and what it has got.
Line == send_queue \o send_rx
Gone == dc_buffer \cup air \cup Range(arrived)
Batched == UNION {Range(packets_out[i]) : i \in DOMAIN packets_out}
Made == Gone \cup Range(Line) \cup Batched

PacketTypes ==
    /\ sequence \in Numbers /\ frame_number \in Numbers
    /\ frames \in Seq(Sizes) /\ Len(frames) <= MaxFrames
    /\ packets_out \in Seq(Seq(Packets))
    /\ send_rx \in Seq(Packets) /\ send_queue \in Seq(Packets)
    /\ buffered_amount \in Nat /\ failures \in Nat /\ dc_events \in Nat
    /\ dc_buffer \subseteq Packets /\ air \subseteq Packets
    /\ arrived \in Seq(Packets)
    /\ partial \in Partials \cup {NoFrame}
    /\ delivered \in Seq(Seq(Payloads))

\* A packet is what packetize makes of its place in its frame.
Genuine(p) ==
    LET f == p.payload.frame IN
    /\ f \in DOMAIN frames
    /\ p.payload.part \in 1..frames[f]
    /\ p.marker = frame_marker(p.payload.part, frames[f])
    /\ frame_number = wrapping_add(p.frame_number, Len(frames) + 1 - f)

\* The sequences of a frame's packets differ as their places do.
InStep(p, q) ==
    p.payload.frame = q.payload.frame /\ q.payload.part <= p.payload.part =>
        p.sequence = wrapping_add(q.sequence, p.payload.part - q.payload.part)

NumbersInv == \A p \in Made : Genuine(p) /\ \A q \in Made : InStep(p, q)

\* A packet is in one place.
OnePlace ==
    /\ \A i, j \in DOMAIN Line : Line[i] = Line[j] => i = j
    /\ Range(Line) \cap Gone = {}
    /\ dc_buffer \cap air = {} /\ (dc_buffer \cup air) \cap Range(arrived) = {}
    /\ \A i, j \in DOMAIN arrived : arrived[i] = arrived[j] => i = j

\* The frames that wait for the room come after all others, in their order.
BatchesFollow ==
    \A i \in DOMAIN packets_out : \A k \in DOMAIN packets_out[i] :
        /\ packets_out[i][k].payload.part = k
        /\ \A p \in Gone \cup Range(Line) : p.payload.frame < packets_out[i][k].payload.frame
        /\ \A j \in DOMAIN packets_out : i < j =>
              \A l \in DOMAIN packets_out[j] :
                 packets_out[i][k].payload.frame < packets_out[j][l].payload.frame

PlaceInv == OnePlace /\ BatchesFollow

\* What is gathered are packets of the frame f that came, from its first one on.
Gathers(P, f, came) ==
    /\ \E q \in came :
          /\ q.payload = Payload(f, 1) /\ q.marker = "Start"
          /\ q.sequence = P.start_sequence /\ q.frame_number = P.frame_number
    /\ \A s \in DOMAIN P.payloads : \E q \in came :
          q.payload = P.payloads[s] /\ q.sequence = s /\ q.payload.frame = f

\* The partial frame holds packets of one frame, which has not come out.
GatheredInv ==
    partial # NoFrame =>
       \E f \in DOMAIN frames :
          /\ Gathers(partial, f, Range(arrived))
          /\ \A i \in DOMAIN delivered : delivered[i] # WholeFrame(f)

DeliveredInv ==
    /\ \A i \in DOMAIN delivered : \E f \in DOMAIN frames :
          /\ delivered[i] = WholeFrame(f) /\ frames[f] >= 1
          /\ \E q \in Range(arrived) : q.payload = Payload(f, 1)
    /\ \A i, j \in DOMAIN delivered : delivered[i] = delivered[j] => i = j

\* The packets that came from i on are those of one frame, and not its last one.
Run(i) ==
    /\ arrived[i].marker = "Start"
    /\ frames[arrived[i].payload.frame] <= MaxBufferPackets
    /\ \A k \in i..Len(arrived) :
          arrived[k].payload.frame = arrived[i].payload.frame /\ arrived[k].marker # "Final"

\* They are all in the partial frame.
RunInv ==
    \A i \in DOMAIN arrived :
        Run(i) =>
           /\ partial # NoFrame
           /\ partial.frame_number = arrived[i].frame_number
           /\ partial.start_sequence = arrived[i].sequence
           /\ DOMAIN partial.payloads = {arrived[k].sequence : k \in i..Len(arrived)}

-----------------------------------------------------------------------------
(* The counters *)

LEMMA Rests ==
    ASSUME NEW m \in Nat \ {0}
    PROVE  /\ \A s \in 0..(m - 1) : s % m = s
           /\ \A s \in m..(2 * m - 1) : s % m = s - m
           /\ \A s \in Nat : s % m \in 0..(m - 1)
<1>1. ASSUME NEW s \in 0..(m - 1) PROVE s % m = s
  OBVIOUS
<1>2. ASSUME NEW s \in m..(2 * m - 1) PROVE s % m = s - m
  OBVIOUS
<1>3. ASSUME NEW s \in Nat PROVE s % m \in 0..(m - 1)
  OBVIOUS
<1> QED
  BY <1>1, <1>2, <1>3

LEMMA WrapIs ==
    ASSUME NEW a \in Numbers, NEW x \in 0..Modulus
    PROVE  wrapping_add(a, x) = IF a + x < Modulus THEN a + x ELSE a + x - Modulus
<1>1. Modulus \in Nat \ {0} /\ a \in Nat /\ x \in Nat /\ a < Modulus /\ a + x < 2 * Modulus
  BY ModulusAssumption DEF Numbers
<1>2. CASE a + x < Modulus
  <2>1. a + x \in 0..(Modulus - 1)
    BY <1>1, <1>2
  <2>2. \A s \in 0..(Modulus - 1) : s % Modulus = s
    BY <1>1, Rests
  <2> QED
    BY <1>2, <2>1, <2>2 DEF wrapping_add
<1>3. CASE a + x >= Modulus
  <2>1. a + x \in Modulus..(2 * Modulus - 1)
    BY <1>1, <1>3
  <2>2. \A s \in Modulus..(2 * Modulus - 1) : s % Modulus = s - Modulus
    BY <1>1, Rests
  <2>3. (a + x) % Modulus = (a + x) - Modulus
    BY <2>1, <2>2
  <2> QED
    BY <1>1, <1>3, <2>3 DEF wrapping_add
<1> QED
  BY <1>1, <1>2, <1>3

LEMMA WrapType ==
    ASSUME NEW a \in Numbers, NEW x \in Nat PROVE wrapping_add(a, x) \in Numbers
<1>1. Modulus \in Nat \ {0} /\ a + x \in Nat
  BY ModulusAssumption DEF Numbers
<1>2. \A s \in Nat : s % Modulus \in 0..(Modulus - 1)
  BY <1>1, Rests
<1> QED
  BY <1>1, <1>2 DEF Numbers, wrapping_add

LEMMA WrapZero == ASSUME NEW a \in Numbers PROVE wrapping_add(a, 0) = a
BY WrapIs, ModulusAssumption DEF Numbers

LEMMA WrapTwice ==
    ASSUME NEW a \in Numbers, NEW x \in Nat, NEW y \in Nat, x + y <= Modulus
    PROVE  wrapping_add(wrapping_add(a, x), y) = wrapping_add(a, x + y)
<1>1. x \in 0..Modulus /\ y \in 0..Modulus /\ x + y \in 0..Modulus /\ Modulus \in Nat
  BY ModulusAssumption
<1>2. wrapping_add(a, x) \in Numbers
  BY WrapType
<1>3. wrapping_add(a, x) = IF a + x < Modulus THEN a + x ELSE a + x - Modulus
  BY <1>1, WrapIs
<1>4. wrapping_add(a, x + y) = IF a + (x + y) < Modulus THEN a + (x + y) ELSE a + (x + y) - Modulus
  BY <1>1, WrapIs
<1> DEFINE b == wrapping_add(a, x)
<1> HIDE DEF b
<1>5. wrapping_add(b, y) = IF b + y < Modulus THEN b + y ELSE b + y - Modulus
  BY <1>1, <1>2, WrapIs DEF b
<1>6. wrapping_add(b, y) = wrapping_add(a, x + y)
  BY <1>1, <1>2, <1>3, <1>4, <1>5 DEF b, Numbers
<1> QED
  BY <1>6 DEF b

\* What is added can be read off, if it is less than a turn.
LEMMA WrapDiffers ==
    ASSUME NEW a \in Numbers, NEW x \in 0..Modulus, NEW y \in 0..Modulus,
           x - y < Modulus, y - x < Modulus, wrapping_add(a, x) = wrapping_add(a, y)
    PROVE  x = y
BY WrapIs, ModulusAssumption DEF Numbers

LEMMA WrapSame ==
    ASSUME NEW a \in Numbers, NEW b \in Numbers, NEW x \in 0..Modulus,
           wrapping_add(a, x) = wrapping_add(b, x)
    PROVE  a = b
BY WrapIs, ModulusAssumption DEF Numbers

\* The difference of the end's sequence and the start's.
LEMMA WrapBack ==
    ASSUME NEW a \in Numbers, NEW x \in 0..(Modulus - 1)
    PROVE  wrapping_add(wrapping_add(a, x), Modulus - a) = x
<1>1. Modulus \in Nat /\ a \in 0..(Modulus - 1) /\ x \in 0..Modulus /\ Modulus - a \in 0..Modulus
  BY ModulusAssumption DEF Numbers
<1> DEFINE b == wrapping_add(a, x)
<1>2. b \in Numbers /\ b = IF a + x < Modulus THEN a + x ELSE a + x - Modulus
  BY <1>1, WrapType, WrapIs
<1> HIDE DEF b
<1>3. wrapping_add(b, Modulus - a) =
        IF b + (Modulus - a) < Modulus THEN b + (Modulus - a) ELSE b + (Modulus - a) - Modulus
  BY <1>1, <1>2, WrapIs
<1>4. wrapping_add(b, Modulus - a) = x
  BY <1>1, <1>2, <1>3 DEF Numbers
<1> QED
  BY <1>4 DEF b

-----------------------------------------------------------------------------
(* Packets *)

LEMMA ElementOf == ASSUME NEW S, NEW s \in Seq(S), NEW i \in DOMAIN s PROVE s[i] \in S
OBVIOUS

LEMMA LineTypes ==
    ASSUME PacketTypes
    PROVE  /\ Line \in Seq(Packets)
           /\ Gone \subseteq Packets /\ Batched \subseteq Packets /\ Made \subseteq Packets
<1>1. Line \in Seq(Packets)
  BY DEF PacketTypes, Line
<1>2. Range(arrived) \subseteq Packets /\ Range(Line) \subseteq Packets
  BY <1>1, ElementOf DEF PacketTypes, Range
<1>3. \A i \in DOMAIN packets_out : Range(packets_out[i]) \subseteq Packets
  <2> SUFFICES ASSUME NEW i \in DOMAIN packets_out, NEW k \in DOMAIN packets_out[i]
               PROVE  packets_out[i][k] \in Packets
    BY DEF Range
  <2>1. packets_out[i] \in Seq(Packets)
    BY ElementOf DEF PacketTypes
  <2> QED
    BY <2>1, ElementOf
<1>4. Gone \subseteq Packets
  BY <1>2 DEF Gone, PacketTypes
<1>5. Batched \subseteq Packets
  BY <1>3 DEF Batched
<1> QED
  BY <1>1, <1>2, <1>4, <1>5 DEF Made

LEMMA NumbersDiffer ==
    ASSUME NumbersSuffice, PacketTypes, NEW p \in Packets, NEW q \in Packets,
           Genuine(p), Genuine(q)
    PROVE  p.payload.frame = q.payload.frame <=> p.frame_number = q.frame_number
<1> DEFINE x == Len(frames) + 1 - p.payload.frame
           y == Len(frames) + 1 - q.payload.frame
<1>1. Len(frames) \in Nat /\ DOMAIN frames = 1..Len(frames)
      /\ Len(frames) <= MaxFrames /\ MaxFrames <= Modulus /\ MaxFrames \in Nat
  BY SizesAssumption DEF PacketTypes, NumbersSuffice
<1>2. Modulus \in Nat
  BY ModulusAssumption
<1>3. p.payload.frame \in 1..Len(frames) /\ q.payload.frame \in 1..Len(frames)
  BY <1>1 DEF Genuine
<1>4. /\ x \in 0..Modulus /\ y \in 0..Modulus /\ x - y < Modulus /\ y - x < Modulus
      /\ x = y <=> p.payload.frame = q.payload.frame
  <2>1. Len(frames) <= Modulus
    BY <1>1, <1>2
  <2> DEFINE l == Len(frames)
             i == p.payload.frame
             j == q.payload.frame
  <2>2. l \in Nat /\ l <= Modulus /\ i \in 1..l /\ j \in 1..l
    BY <1>1, <1>3, <2>1
  <2> HIDE DEF l, i, j
  <2>3. /\ l + 1 - i \in 0..Modulus /\ l + 1 - j \in 0..Modulus
        /\ (l + 1 - i) - (l + 1 - j) < Modulus /\ (l + 1 - j) - (l + 1 - i) < Modulus
        /\ l + 1 - i = l + 1 - j <=> i = j
    BY <1>2, <2>2
  <2> QED
    BY <2>3, Zenon DEF l, i, j
<1>5. /\ frame_number = wrapping_add(p.frame_number, x)
      /\ frame_number = wrapping_add(q.frame_number, y)
  BY DEF Genuine
<1>6. p.frame_number \in Numbers /\ q.frame_number \in Numbers
  BY DEF Packets
<1> HIDE DEF x, y
<1>8. ASSUME p.frame_number = q.frame_number PROVE x = y
  BY <1>4, <1>5, <1>6, <1>8, WrapDiffers
<1>9. ASSUME x = y PROVE p.frame_number = q.frame_number
  BY <1>4, <1>5, <1>6, <1>9, WrapSame
<1> QED
  BY <1>4, <1>8, <1>9

\* The payload tells one packet from another.
LEMMA OnePacket ==
    ASSUME NumbersSuffice, PacketTypes, NumbersInv, NEW p \in Made, NEW q \in Made,
           p.payload = q.payload
    PROVE  p = q
<1>1. p \in Packets /\ q \in Packets /\ Genuine(p) /\ Genuine(q) /\ InStep(p, q)
  BY LineTypes DEF NumbersInv
<1>2. p.frame_number = q.frame_number
  BY <1>1, NumbersDiffer
<1>3. p.marker = q.marker
  BY <1>1 DEF Genuine
<1>4. p.payload.part \in Nat /\ q.sequence \in Numbers
  BY <1>1 DEF Packets, Payloads
<1>5. p.sequence = wrapping_add(q.sequence, 0)
  BY <1>1, <1>4 DEF InStep
<1>6. p.sequence = q.sequence
  BY <1>4, <1>5, WrapZero
<1> QED
  BY <1>1, <1>2, <1>3, <1>6 DEF Packets

LEMMA Fewer ==
    ASSUME NumbersInv, Made' \subseteq Made, UNCHANGED <<frames, frame_number>>
    PROVE  NumbersInv'
BY DEF NumbersInv, Genuine, InStep

LEMMA MarkerIs ==
    ASSUME NEW n \in Nat, NEW i \in 1..n
    PROVE  /\ frame_marker(i, n) \in {"Single", "Start", "Inter", "Final"}
           /\ frame_marker(i, n) = "Single" <=> n = 1
           /\ frame_marker(i, n) = "Start" <=> n > 1 /\ i = 1
           /\ frame_marker(i, n) = "Final" <=> n > 1 /\ i = n
<1>1. CASE n = 1
  BY <1>1 DEF frame_marker
<1>2. CASE n > 1 /\ i = 1
  BY <1>2 DEF frame_marker
<1>3. CASE n > 1 /\ i # 1 /\ i = n
  BY <1>3 DEF frame_marker
<1>4. CASE n > 1 /\ i # 1 /\ i # n
  BY <1>4 DEF frame_marker
<1> QED
  BY <1>1, <1>2, <1>3, <1>4

LEMMA PayloadIs ==
    ASSUME NEW f, NEW i PROVE Payload(f, i).frame = f /\ Payload(f, i).part = i
BY DEF Payload

LEMMA Packetized ==
    ASSUME PacketTypes, NEW n \in Sizes
    PROVE  LET f == Len(frames) + 1
               batch == packetize(f, n)
           IN  /\ batch \in Seq(Packets) /\ n \in Nat /\ DOMAIN batch = 1..n
               /\ \A i \in 1..n :
                     /\ batch[i].marker = frame_marker(i, n)
                     /\ batch[i].sequence = wrapping_add(sequence, i - 1)
                     /\ batch[i].frame_number = frame_number
                     /\ batch[i].payload = Payload(f, i)
<1> DEFINE f == Len(frames) + 1
           batch == packetize(f, n)
<1>1. n \in Nat /\ f \in Nat /\ sequence \in Numbers /\ frame_number \in Numbers
  BY SizesAssumption DEF PacketTypes
<1>2. batch = [i \in 1..n |-> [marker |-> frame_marker(i, n),
                               sequence |-> wrapping_add(sequence, i - 1),
                               frame_number |-> frame_number,
                               payload |-> Payload(f, i)]]
  BY DEF packetize
<1> HIDE DEF f, batch
<1>3. ASSUME NEW i \in 1..n PROVE batch[i] \in Packets
  <2>1. frame_marker(i, n) \in {"Single", "Start", "Inter", "Final"}
    BY <1>1, MarkerIs
  <2>2. wrapping_add(sequence, i - 1) \in Numbers
    BY <1>1, WrapType
  <2>3. Payload(f, i) \in Payloads
    BY <1>1 DEF Payload, Payloads
  <2> QED
    BY <1>1, <1>2, <2>1, <2>2, <2>3 DEF Packets
<1>4. batch \in [1..n -> Packets]
  BY <1>2, <1>3
<1>5. batch \in Seq(Packets)
  BY <1>1, <1>4
<1> QED
  BY <1>1, <1>2, <1>5 DEF f, batch

-----------------------------------------------------------------------------
(* The sender *)

\* The first n packets of the line leave it, and the data channel gets those that are kept.
Drained(n, kept) ==
    /\ n \in 0..Len(Line) /\ kept \subseteq 1..n
    /\ Len(Line') = Len(Line) - n
    /\ \A i \in 1..(Len(Line) - n) : Line'[i] = Line[n + i]
    /\ dc_buffer' = dc_buffer \cup {Line[i] : i \in kept}
    /\ UNCHANGED <<packetizer, packets_out, air, depacketizer>>

LEMMA Joins ==
    ASSUME NEW S, NEW s \in Seq(S), NEW t \in Seq(S)
    PROVE  /\ Len(s \o t) = Len(s) + Len(t)
           /\ \A i \in 1..Len(s) : (s \o t)[i] = s[i]
           /\ \A i \in 1..Len(t) : (s \o t)[Len(s) + i] = t[i]
OBVIOUS

LEMMA Loop ==
    ASSUME PacketTypes, NEW queue \in Seq(Packets), NEW amount \in Nat,
           send_until_threshold(queue, amount),
           send_rx' \in Seq(Packets), Line = queue \o send_rx', dc_events' \in Nat,
           UNCHANGED <<packetizer, packets_out, air, depacketizer>>
    PROVE  PacketTypes' /\ \E n, kept : Drained(n, kept)
<1> DEFINE n == IF amount > Threshold THEN 0
                ELSE Shorter(Len(queue), Threshold + 1 - amount)
<1>1. Threshold \in Nat /\ MaxFailures \in Nat
  BY BuffersAssumption
<1>2. Len(queue) \in Nat /\ n \in 0..Len(queue)
  BY <1>1 DEF Shorter
<1>3. /\ send_queue' = SubSeq(queue, n + 1, Len(queue))
      /\ buffered_amount' = amount + n
      /\ \E refused \in SUBSET (1..n) :
            /\ failures' = failures + Cardinality(refused)
            /\ dc_buffer' = dc_buffer \cup {queue[i] : i \in (1..n) \ refused}
  BY DEF send_until_threshold
<1> HIDE DEF n
<1>4. PICK refused \in SUBSET (1..n) :
            /\ failures' = failures + Cardinality(refused)
            /\ dc_buffer' = dc_buffer \cup {queue[i] : i \in (1..n) \ refused}
  BY <1>3
<1> DEFINE kept == (1..n) \ refused
           rest == send_rx'
<1>5. kept \subseteq 1..n /\ \A i \in kept : i \in 1..Len(queue)
  BY <1>2
<1>6. Cardinality(refused) \in Nat
  <2>1. IsFiniteSet(1..n)
    BY <1>2, FS_Interval
  <2> QED
    BY <2>1, FS_Subset, FS_CardinalityType
<1>7. PacketTypes'
  <2>1. SubSeq(queue, n + 1, Len(queue)) \in Seq(Packets)
    BY <1>2
  <2>2. {queue[i] : i \in kept} \subseteq Packets
    BY <1>5
  <2>3. buffered_amount' \in Nat /\ failures' \in Nat
    BY SMTT(20), <1>2, <1>3, <1>4, <1>6 DEF PacketTypes
  <2> QED
    BY <1>3, <1>4, <2>1, <2>2, <2>3 DEF PacketTypes, packetizer, depacketizer
<1>8. /\ Len(Line) = Len(queue) + Len(rest)
      /\ \A i \in 1..Len(queue) : Line[i] = queue[i]
      /\ \A i \in 1..Len(rest) : Line[Len(queue) + i] = rest[i]
      /\ Len(rest) \in Nat
  OBVIOUS
<1> DEFINE front == SubSeq(queue, n + 1, Len(queue))
<1>9. /\ front \in Seq(Packets) /\ Len(front) = Len(queue) - n
      /\ \A j \in 1..(Len(queue) - n) : front[j] = queue[n + j]
      /\ Line' = front \o rest /\ rest \in Seq(Packets)
  BY <1>2, <1>3 DEF Line
<1> HIDE DEF front, rest
<1>10. /\ Len(Line') = Len(front) + Len(rest)
       /\ \A i \in 1..Len(front) : Line'[i] = front[i]
       /\ \A i \in 1..Len(rest) : Line'[Len(front) + i] = rest[i]
  <2>1. front \in Seq(Packets) /\ rest \in Seq(Packets) /\ Line' = front \o rest
    BY <1>9
  <2>2. /\ Len(front \o rest) = Len(front) + Len(rest)
        /\ \A i \in 1..Len(front) : (front \o rest)[i] = front[i]
        /\ \A i \in 1..Len(rest) : (front \o rest)[Len(front) + i] = rest[i]
    BY <2>1, Joins
  <2> QED
    BY <2>1, <2>2, Zenon
<1>11. Len(Line') = Len(Line) - n
       /\ \A i \in 1..(Len(Line) - n) : Line'[i] = Line[n + i]
  <2>1. Len(Line') = Len(Line) - n
    BY <1>2, <1>8, <1>9, <1>10
  <2>2. ASSUME NEW i \in 1..(Len(Line) - n), i <= Len(queue) - n PROVE Line'[i] = Line[n + i]
    <3>1. i \in 1..(Len(queue) - n) /\ n + i \in 1..Len(queue) /\ i \in 1..Len(front)
      BY <1>2, <1>8, <1>9, <2>2
    <3> QED
      BY <1>8, <1>9, <1>10, <3>1
  <2>3. ASSUME NEW i \in 1..(Len(Line) - n), i > Len(queue) - n PROVE Line'[i] = Line[n + i]
    <3> DEFINE j == i - (Len(queue) - n)
    <3>1. j \in 1..Len(rest) /\ i = Len(front) + j /\ n + i = Len(queue) + j
      BY <1>2, <1>8, <1>9, <2>3
    <3> HIDE DEF j
    <3> QED
      BY <1>8, <1>10, <3>1
  <2>4. \A i \in 1..(Len(Line) - n) : i <= Len(queue) - n \/ i > Len(queue) - n
    BY <1>2, <1>8
  <2> QED
    BY <2>1, <2>2, <2>3, <2>4
<1>12. {queue[i] : i \in kept} = {Line[i] : i \in kept}
  BY <1>5, <1>8
<1>13. Drained(n, kept)
  BY <1>2, <1>4, <1>5, <1>8, <1>11, <1>12 DEF Drained
<1> QED
  BY <1>7, <1>13

LEMMA SenderDrains ==
    ASSUME PacketTypes, handle_enqueue_for_send \/ handle_bytes_sent
    PROVE  PacketTypes' /\ \E n, kept : Drained(n, kept)
<1>1. CASE handle_enqueue_for_send
  <2> DEFINE queue == Append(send_queue, Head(send_rx))
  <2>1. /\ send_rx # <<>> /\ send_rx' = Tail(send_rx)
        /\ send_until_threshold(queue, buffered_amount)
        /\ UNCHANGED <<packetizer, packets_out, dc_events, air, depacketizer>>
    BY <1>1 DEF handle_enqueue_for_send
  <2>2. send_rx \in Seq(Packets) /\ send_queue \in Seq(Packets) /\ buffered_amount \in Nat
        /\ dc_events \in Nat
    BY DEF PacketTypes
  <2>3. queue \in Seq(Packets) /\ send_rx' \in Seq(Packets) /\ Line = queue \o send_rx'
    BY <2>1, <2>2 DEF Line
  <2> HIDE DEF queue
  <2> QED
    BY <2>1, <2>2, <2>3, Loop
<1>2. CASE handle_bytes_sent /\ buffered_amount >= 1
  <2>1. /\ dc_events > 0 /\ dc_events' = dc_events - 1
        /\ send_until_threshold(send_queue, buffered_amount - 1)
        /\ UNCHANGED <<packetizer, packets_out, send_rx, air, depacketizer>>
    BY <1>2 DEF handle_bytes_sent, PacketTypes
  <2>2. send_rx \in Seq(Packets) /\ send_queue \in Seq(Packets) /\ buffered_amount - 1 \in Nat
        /\ dc_events' \in Nat
    BY <1>2, <2>1 DEF PacketTypes
  <2>3. Line = send_queue \o send_rx'
    BY <2>1 DEF Line
  <2> QED
    BY <2>1, <2>2, <2>3, Loop
<1>3. CASE handle_bytes_sent /\ buffered_amount < 1
  <2>1. /\ dc_events > 0 /\ dc_events' = dc_events - 1 /\ buffered_amount' = 0
        /\ UNCHANGED <<packetizer, packets_out, send_rx, send_queue, dc_buffer, failures, air,
                       depacketizer>>
    BY <1>3 DEF handle_bytes_sent
  <2>2. PacketTypes'
    BY <2>1 DEF PacketTypes, packetizer, depacketizer
  <2>3. Line' = Line /\ Len(Line) \in Nat
    BY <2>1, LineTypes DEF Line
  <2>4. Drained(0, {})
    BY <2>1, <2>3 DEF Drained
  <2> QED
    BY <2>2, <2>4
<1> QED
  BY <1>1, <1>2, <1>3 DEF PacketTypes

-----------------------------------------------------------------------------
(* Every packet is in one place *)

PacketInv == PacketTypes /\ NumbersInv /\ PlaceInv

\* No packet is made and none comes to the room's turn.
LEMMA Follow ==
    ASSUME BatchesFollow, UNCHANGED packets_out,
           Gone' \cup Range(Line') \subseteq Gone \cup Range(Line)
    PROVE  BatchesFollow'
BY DEF BatchesFollow

LEMMA StillMade ==
    ASSUME UNCHANGED packets_out, Gone' \cup Range(Line') \subseteq Gone \cup Range(Line)
    PROVE  Made' \subseteq Made
BY DEF Made, Batched

LEMMA DrainedInv ==
    ASSUME PacketInv, PacketTypes', NEW n, NEW kept, Drained(n, kept)
    PROVE  PacketInv' /\ Made' \subseteq Made
<1>1. Line \in Seq(Packets) /\ Line' \in Seq(Packets) /\ OnePlace /\ BatchesFollow /\ NumbersInv
  BY DEF PacketInv, PlaceInv, PacketTypes, Line
<1>2. /\ Len(Line) \in Nat /\ n \in 0..Len(Line) /\ kept \subseteq 1..n
      /\ DOMAIN Line = 1..Len(Line) /\ DOMAIN Line' = 1..(Len(Line) - n)
      /\ \A i \in DOMAIN Line' : Line'[i] = Line[n + i] /\ n + i \in DOMAIN Line
      /\ dc_buffer' = dc_buffer \cup {Line[i] : i \in kept}
      /\ UNCHANGED <<packetizer, packets_out, air, depacketizer>>
  BY <1>1 DEF Drained
<1>3. kept \subseteq DOMAIN Line /\ \A i \in kept, j \in DOMAIN Line' : i # n + j
  BY <1>2
<1> DEFINE given == {Line[i] : i \in kept}
<1>4. Gone' = Gone \cup given /\ given \subseteq Range(Line) /\ Range(Line') \subseteq Range(Line)
      /\ UNCHANGED <<air, arrived, frames, frame_number>>
  BY <1>2, <1>3 DEF Gone, Range, depacketizer, packetizer
<1>5. Range(Line') \cap given = {}
  BY <1>1, <1>2, <1>3 DEF OnePlace, Range
<1>6. \A i, j \in DOMAIN Line' : Line'[i] = Line'[j] => i = j
  <2> SUFFICES ASSUME NEW i \in DOMAIN Line', NEW j \in DOMAIN Line', Line'[i] = Line'[j]
               PROVE  i = j
    OBVIOUS
  <2>1. n + i = n + j
    BY <1>1, <1>2 DEF OnePlace
  <2> QED
    BY <1>2, <2>1
<1> HIDE DEF given
<1>7. dc_buffer' = dc_buffer \cup given
  BY <1>2 DEF given
<1>8. OnePlace'
  BY <1>1, <1>4, <1>5, <1>6, <1>7 DEF OnePlace, Gone
<1>9. BatchesFollow' /\ Made' \subseteq Made
  BY <1>1, <1>2, <1>4, Follow, StillMade
<1> QED
  BY <1>1, <1>4, <1>8, <1>9, Fewer DEF PacketInv, PlaceInv

LEMMA TransmittedInv ==
    ASSUME PacketInv, Transmitted PROVE PacketInv' /\ Made' \subseteq Made
<1>1. PICK p \in dc_buffer : dc_buffer' = dc_buffer \ {p} /\ air' = air \cup {p}
  BY DEF Transmitted
<1>2. UNCHANGED <<packetizer, packets_out, send_rx, send_queue, buffered_amount, failures,
                  depacketizer>> /\ dc_events' = dc_events + 1
  BY DEF Transmitted
<1>3. PacketTypes'
  BY <1>1, <1>2 DEF PacketInv, PacketTypes, packetizer, depacketizer
<1>4. Line' = Line /\ arrived' = arrived
  BY <1>2 DEF Line, depacketizer
<1>5. Gone' = Gone
  BY <1>1, <1>4 DEF Gone
<1>6. OnePlace'
  BY <1>1, <1>4, <1>5 DEF PacketInv, PlaceInv, OnePlace
<1>7. BatchesFollow' /\ Made' \subseteq Made
  BY <1>2, <1>4, <1>5, Follow, StillMade DEF PacketInv, PlaceInv
<1> QED
  BY <1>2, <1>3, <1>6, <1>7, Fewer DEF PacketInv, PlaceInv, packetizer

LEMMA LoseInv ==
    ASSUME PacketInv, Lose PROVE PacketInv' /\ Made' \subseteq Made
<1>1. air' \subseteq air
      /\ UNCHANGED <<packetizer, packets_out, send_rx, sender, dc_events, depacketizer>>
  BY DEF Lose
<1>2. PacketTypes'
  BY <1>1 DEF PacketInv, PacketTypes, packetizer, sender, depacketizer
<1>3. Line' = Line /\ arrived' = arrived /\ dc_buffer' = dc_buffer
  BY <1>1 DEF Line, sender, depacketizer
<1>4. Gone' \subseteq Gone
  BY <1>1, <1>3 DEF Gone
<1>5. OnePlace'
  BY <1>1, <1>3, <1>4 DEF PacketInv, PlaceInv, OnePlace
<1>6. BatchesFollow' /\ Made' \subseteq Made
  BY <1>1, <1>3, <1>4, Follow, StillMade DEF PacketInv, PlaceInv
<1> QED
  BY <1>1, <1>2, <1>5, <1>6, Fewer DEF PacketInv, PlaceInv, packetizer

\* Whatever the depacketizer makes of the packet.
LEMMA ArriveInv ==
    ASSUME PacketInv, NEW p \in air, air' = air \ {p}, arrived' = Append(arrived, p),
           UNCHANGED <<packetizer, packets_out, send_rx, sender, dc_events>>,
           partial' \in Partials \cup {NoFrame}, delivered' \in Seq(Seq(Payloads))
    PROVE  /\ PacketInv' /\ Made' \subseteq Made
           /\ Range(arrived') = Range(arrived) \cup {p} /\ p \notin Range(arrived)
<1>1. arrived \in Seq(Packets) /\ p \in Packets /\ air \subseteq Packets
  BY DEF PacketInv, PacketTypes
<1>2. PacketTypes'
  BY <1>1 DEF PacketInv, PacketTypes, packetizer, sender
<1>3. Line' = Line /\ dc_buffer' = dc_buffer
  BY DEF Line, sender
<1>4. /\ DOMAIN arrived = 1..Len(arrived) /\ DOMAIN arrived' = 1..(Len(arrived) + 1)
      /\ Len(arrived) \in Nat /\ arrived'[Len(arrived) + 1] = p
      /\ \A i \in DOMAIN arrived : arrived'[i] = arrived[i]
  BY <1>1
<1>5. Range(arrived') = Range(arrived) \cup {p}
  <2>1. \A i \in DOMAIN arrived' : i \in DOMAIN arrived \/ i = Len(arrived) + 1
    BY <1>4
  <2>2. DOMAIN arrived \subseteq DOMAIN arrived' /\ Len(arrived) + 1 \in DOMAIN arrived'
    BY <1>4
  <2> QED
    BY <1>4, <2>1, <2>2 DEF Range
<1>6. p \notin Range(arrived) /\ p \notin dc_buffer
  BY DEF PacketInv, PlaceInv, OnePlace
<1>7. Gone' = Gone
  BY <1>3, <1>5 DEF Gone
<1>8. \A i, j \in DOMAIN arrived' : arrived'[i] = arrived'[j] => i = j
  <2>1. \A i \in DOMAIN arrived' : i \in DOMAIN arrived \/ i = Len(arrived) + 1
    BY <1>4
  <2>2. \A i \in DOMAIN arrived : arrived'[i] # p
    BY <1>4, <1>6 DEF Range
  <2> QED
    BY <1>4, <2>1, <2>2 DEF PacketInv, PlaceInv, OnePlace
<1>9. OnePlace'
  BY <1>3, <1>5, <1>6, <1>7, <1>8 DEF PacketInv, PlaceInv, OnePlace
<1>10. BatchesFollow' /\ Made' \subseteq Made
  BY <1>3, <1>7, Follow, StillMade DEF PacketInv, PlaceInv
<1> QED
  BY <1>2, <1>5, <1>6, <1>9, <1>10, Fewer DEF PacketInv, PlaceInv, packetizer

-----------------------------------------------------------------------------
(* The track's task and the room *)

LEMMA FrontOf ==
    ASSUME NEW S, NEW s \in Seq(S), NEW m \in Int, m <= Len(s)
    PROVE  /\ SubSeq(s, 1, m) \in Seq(S)
           /\ \A i \in DOMAIN SubSeq(s, 1, m) :
                 i \in DOMAIN s /\ SubSeq(s, 1, m)[i] = s[i]
<1>1. CASE m >= 1
  BY <1>1
<1>2. CASE m < 1
  <2>1. SubSeq(s, 1, m) = <<>>
    BY <1>2
  <2> QED
    BY <2>1
<1> QED
  BY <1>1, <1>2

LEMMA TailOf ==
    ASSUME NEW S, NEW s \in Seq(S), s # <<>>
    PROVE  /\ Head(s) = s[1] /\ 1 \in DOMAIN s /\ Tail(s) \in Seq(S)
           /\ \A i \in DOMAIN Tail(s) : i + 1 \in DOMAIN s /\ Tail(s)[i] = s[i + 1] /\ i + 1 > 1
           /\ \A i, j \in DOMAIN Tail(s) : i < j => i + 1 < j + 1
OBVIOUS

LEMMA RoomInv ==
    ASSUME PacketInv, try_send_data_track_packets
    PROVE  PacketInv' /\ Made' \subseteq Made
<1> DEFINE batch == Head(packets_out)
           m == Shorter(Len(batch), ChannelBuffer - Len(send_rx))
           cut == SubSeq(batch, 1, m)
<1>1. /\ packets_out # <<>> /\ packets_out' = Tail(packets_out)
      /\ send_rx' = send_rx \o cut
      /\ UNCHANGED <<packetizer, sender, dc_events, air, depacketizer>>
  BY DEF try_send_data_track_packets
<1>2. /\ packets_out \in Seq(Seq(Packets)) /\ send_rx \in Seq(Packets)
      /\ send_queue \in Seq(Packets) /\ Line \in Seq(Packets)
  BY LineTypes DEF PacketInv, PacketTypes
<1>3. /\ batch = packets_out[1] /\ 1 \in DOMAIN packets_out /\ packets_out' \in Seq(Seq(Packets))
      /\ \A i \in DOMAIN packets_out' :
            i + 1 \in DOMAIN packets_out /\ packets_out'[i] = packets_out[i + 1] /\ i + 1 > 1
      /\ \A i, j \in DOMAIN packets_out' : i < j => i + 1 < j + 1
  BY <1>1, <1>2, TailOf
<1>4. batch \in Seq(Packets)
  BY <1>2, <1>3, ElementOf
<1>5. m \in Int /\ m <= Len(batch)
  <2>1. ChannelBuffer - Len(send_rx) \in Int /\ Len(batch) \in Int
    BY <1>2, <1>4, BuffersAssumption
  <2> QED
    BY <2>1 DEF Shorter
<1> HIDE DEF batch, m
<1>6. cut \in Seq(Packets) /\ \A i \in DOMAIN cut : i \in DOMAIN batch /\ cut[i] = batch[i]
  BY <1>4, <1>5, FrontOf
<1> HIDE DEF cut
<1>7. PacketTypes'
  BY <1>1, <1>2, <1>3, <1>6 DEF PacketInv, PacketTypes, packetizer, sender, depacketizer
<1>8. Line' = Line \o cut
  <2>1. send_queue' = send_queue /\ send_rx' = send_rx \o cut
    BY <1>1 DEF sender
  <2>2. send_queue \o (send_rx \o cut) = (send_queue \o send_rx) \o cut
    BY <1>2, <1>6
  <2> QED
    BY <2>1, <2>2 DEF Line
<1>9. /\ \A i \in DOMAIN Line : i \in DOMAIN Line' /\ Line'[i] = Line[i]
      /\ \A i \in DOMAIN Line' :
            \/ i \in DOMAIN Line
            \/ i - Len(Line) \in DOMAIN cut /\ Line'[i] = cut[i - Len(Line)]
      /\ \A i \in DOMAIN cut : Len(Line) + i \in DOMAIN Line' /\ Line'[Len(Line) + i] = cut[i]
      /\ DOMAIN Line \subseteq Int /\ Len(Line) \in Int /\ DOMAIN Line' \subseteq Int
  BY <1>2, <1>6, <1>8
<1>10. Range(Line') = Range(Line) \cup Range(cut) /\ Range(cut) \subseteq Range(batch)
       /\ Gone' = Gone
  <2>1. Range(cut) \subseteq Range(batch)
    BY <1>6 DEF Range
  <2>2. Range(Line') \subseteq Range(Line) \cup Range(cut)
    BY <1>9 DEF Range
  <2>3. Range(Line) \cup Range(cut) \subseteq Range(Line')
    BY <1>9 DEF Range
  <2>4. Gone' = Gone
    BY <1>1 DEF Gone, sender, depacketizer
  <2> QED
    BY <2>1, <2>2, <2>3, <2>4
<1>11. OnePlace /\ BatchesFollow
  BY DEF PacketInv, PlaceInv
<1>12. \A k \in DOMAIN cut :
          /\ cut[k].payload.part = k
          /\ \A p \in Gone \cup Range(Line) : p.payload.frame < cut[k].payload.frame
  BY <1>3, <1>6, <1>11 DEF BatchesFollow
<1>13. (Gone \cup Range(Line)) \cap Range(cut) = {}
  <2>1. \A p \in Gone \cup Range(Line) : p.payload.frame \in Nat
    BY LineTypes DEF PacketInv, Made, Packets, Payloads
  <2>2. \A p \in Gone \cup Range(Line) : ~(p.payload.frame < p.payload.frame)
    BY <2>1
  <2> QED
    BY <1>12, <2>2 DEF Range
<1>14. \A i, j \in DOMAIN Line' : Line'[i] = Line'[j] => i = j
  <2> SUFFICES ASSUME NEW i \in DOMAIN Line', NEW j \in DOMAIN Line', Line'[i] = Line'[j]
               PROVE  i = j
    OBVIOUS
  <2>0. \A h \in DOMAIN Line' : IF h \in DOMAIN Line THEN Line'[h] \in Range(Line)
                                                       ELSE Line'[h] \in Range(cut)
    BY <1>9 DEF Range
  <2>1. CASE i \in DOMAIN Line /\ j \in DOMAIN Line
    BY <1>9, <1>11, <2>1 DEF OnePlace
  <2>2. CASE i \in DOMAIN Line /\ j \notin DOMAIN Line
    BY <1>13, <2>0, <2>2
  <2>3. CASE i \notin DOMAIN Line /\ j \in DOMAIN Line
    BY <1>13, <2>0, <2>3
  <2>4. CASE i \notin DOMAIN Line /\ j \notin DOMAIN Line
    <3>1. i - Len(Line) = j - Len(Line)
      BY <1>9, <1>12, <2>4
    <3> QED
      BY <1>9, <3>1
  <2> QED
    BY <2>1, <2>2, <2>3, <2>4
<1>15. OnePlace'
  <2>1. UNCHANGED <<dc_buffer, air, arrived>>
    BY <1>1 DEF sender, depacketizer
  <2>2. Range(Line') \cap Gone' = {}
    BY <1>10, <1>11, <1>13 DEF OnePlace
  <2> QED
    BY <1>11, <1>14, <2>1, <2>2 DEF OnePlace
<1>16. BatchesFollow'
  <2> SUFFICES ASSUME NEW i \in DOMAIN packets_out', NEW k \in DOMAIN packets_out'[i]
               PROVE  /\ packets_out'[i][k].payload.part = k
                      /\ \A p \in Gone' \cup Range(Line') :
                            p.payload.frame < packets_out'[i][k].payload.frame
                      /\ \A j \in DOMAIN packets_out' : i < j =>
                            \A l \in DOMAIN packets_out'[j] :
                               packets_out'[i][k].payload.frame < packets_out'[j][l].payload.frame
    BY DEF BatchesFollow
  <2>1. i + 1 \in DOMAIN packets_out /\ packets_out'[i] = packets_out[i + 1] /\ 1 < i + 1
    BY <1>3
  <2>2. /\ packets_out'[i][k].payload.part = k
        /\ \A p \in Gone \cup Range(Line) : p.payload.frame < packets_out'[i][k].payload.frame
    BY <1>11, <2>1 DEF BatchesFollow
  <2>3. \A p \in Range(cut) : p.payload.frame < packets_out'[i][k].payload.frame
    BY <1>3, <1>6, <1>11, <2>1 DEF BatchesFollow, Range
  <2>4. ASSUME NEW j \in DOMAIN packets_out', i < j, NEW l \in DOMAIN packets_out'[j]
        PROVE  packets_out'[i][k].payload.frame < packets_out'[j][l].payload.frame
    <3>1. j + 1 \in DOMAIN packets_out /\ packets_out'[j] = packets_out[j + 1] /\ i + 1 < j + 1
      BY <1>3, <2>4
    <3> QED
      BY <1>11, <2>1, <2>4, <3>1 DEF BatchesFollow
  <2> QED
    BY <1>10, <2>2, <2>3, <2>4
<1>17. Made' \subseteq Made
  <2>1. Range(batch) \subseteq Batched
    BY <1>3 DEF Batched
  <2>2. Batched' \subseteq Batched
    BY <1>3 DEF Batched
  <2> QED
    BY <1>10, <2>1, <2>2 DEF Made
<1> QED
  BY <1>1, <1>7, <1>15, <1>16, <1>17, Fewer DEF PacketInv, PlaceInv, packetizer

\* The frames that were pushed keep their sizes.
LEMMA PushNumbers ==
    ASSUME NumbersSuffice, PacketInv, NEW n \in Sizes, Len(frames) < MaxFrames,
           frames' = Append(frames, n), sequence' = wrapping_add(sequence, n),
           frame_number' = wrapping_add(frame_number, 1)
    PROVE  LET f == Len(frames) + 1
               batch == packetize(f, n)
           IN  /\ frames' \in Seq(Sizes) /\ Len(frames') = Len(frames) + 1
               /\ DOMAIN frames \subseteq DOMAIN frames' /\ f \in DOMAIN frames'
               /\ f \notin DOMAIN frames /\ DOMAIN frames \subseteq 1..Len(frames)
               /\ \A g \in DOMAIN frames : frames'[g] = frames[g]
               /\ sequence' \in Numbers /\ frame_number' \in Numbers
               /\ \A p \in Packets : Genuine(p) => Genuine(p)'
               /\ \A p \in Range(batch) : Genuine(p)' /\ p.payload.frame = f
               /\ \A p, q \in Range(batch) : InStep(p, q)
<1> DEFINE f == Len(frames) + 1
           batch == packetize(f, n)
<1>1. /\ frames \in Seq(Sizes) /\ n \in Nat /\ n <= Modulus /\ Modulus \in Nat \ {0}
      /\ Len(frames) \in Nat /\ Len(frames) + 1 <= Modulus
      /\ sequence \in Numbers /\ frame_number \in Numbers
  BY SizesAssumption, ModulusAssumption DEF PacketInv, PacketTypes, NumbersSuffice
<1>2. /\ frames' \in Seq(Sizes) /\ Len(frames') = Len(frames) + 1
      /\ DOMAIN frames = 1..Len(frames) /\ DOMAIN frames' = 1..(Len(frames) + 1)
      /\ \A g \in DOMAIN frames : frames'[g] = frames[g]
      /\ frames'[f] = n /\ f = Len(frames) + 1
  BY <1>1
<1>3. /\ batch \in Seq(Packets) /\ DOMAIN batch = 1..n
      /\ \A i \in 1..n :
            /\ batch[i].marker = frame_marker(i, n)
            /\ batch[i].sequence = wrapping_add(sequence, i - 1)
            /\ batch[i].frame_number = frame_number
            /\ batch[i].payload = Payload(f, i)
  BY Packetized DEF PacketInv
<1> HIDE DEF batch, f
<1>4. ASSUME NEW p \in Packets, Genuine(p) PROVE Genuine(p)'
  <2> DEFINE g == p.payload.frame
             age == Len(frames) + 1 - g
  <2>1. /\ g \in DOMAIN frames /\ p.payload.part \in 1..frames[g]
        /\ p.marker = frame_marker(p.payload.part, frames[g])
        /\ frame_number = wrapping_add(p.frame_number, age)
    BY <1>4 DEF Genuine
  <2> HIDE DEF g
  <2>2. age \in Nat /\ age + 1 <= Modulus /\ Len(frames') + 1 - g = age + 1
    BY <1>1, <1>2, <2>1
  <2> HIDE DEF age
  <2>3. wrapping_add(wrapping_add(p.frame_number, age), 1) = wrapping_add(p.frame_number, age + 1)
    BY <2>2, WrapTwice DEF Packets
  <2>4. frame_number' = wrapping_add(p.frame_number, Len(frames') + 1 - g)
    BY <2>1, <2>2, <2>3
  <2>5. g \in DOMAIN frames' /\ frames'[g] = frames[g]
    BY <1>2, <2>1
  <2> QED
    BY <2>1, <2>4, <2>5 DEF Genuine, g
<1>5. ASSUME NEW i \in 1..n, NEW p, p = batch[i] PROVE Genuine(p)' /\ p.payload.frame = f
  <2>1. p.payload.frame = f /\ p.payload.part = i
    BY <1>3, <1>5, PayloadIs
  <2>2. frame_number' = wrapping_add(p.frame_number, Len(frames') + 1 - f)
    <3>1. Len(frames') + 1 - f = 1
      BY <1>1, <1>2
    <3> QED
      BY <1>3, <1>5, <3>1
  <2>3. f \in DOMAIN frames'
    BY <1>1, <1>2
  <2> QED
    BY <1>2, <1>3, <1>5, <2>1, <2>2, <2>3 DEF Genuine
<1>6. ASSUME NEW i \in 1..n, NEW j \in 1..n, j <= i PROVE InStep(batch[i], batch[j])
  <2>1. j - 1 \in Nat /\ i - j \in Nat /\ (j - 1) + (i - j) <= Modulus /\ (j - 1) + (i - j) = i - 1
    BY <1>1, <1>6
  <2>2. wrapping_add(wrapping_add(sequence, j - 1), i - j) = wrapping_add(sequence, i - 1)
    BY <1>1, <2>1, WrapTwice
  <2>3. batch[i].payload.part = i /\ batch[j].payload.part = j
    BY <1>3, PayloadIs
  <2> QED
    BY <1>3, <2>2, <2>3 DEF InStep
<1>7. ASSUME NEW i \in 1..n, NEW j \in 1..n PROVE InStep(batch[i], batch[j])
  <2>1. CASE j <= i
    BY <1>6, <2>1
  <2>2. CASE ~(j <= i)
    <3>1. batch[i].payload.part = i /\ batch[j].payload.part = j
      BY <1>3, PayloadIs
    <3> QED
      BY <2>2, <3>1 DEF InStep
  <2> QED
    BY <2>1, <2>2
<1>8. sequence' \in Numbers /\ frame_number' \in Numbers
  BY <1>1, WrapType
<1>9. /\ \A p \in Range(batch) : Genuine(p)' /\ p.payload.frame = f
      /\ \A p, q \in Range(batch) : InStep(p, q)
  BY <1>3, <1>5, <1>7 DEF Range
<1>10. /\ DOMAIN frames \subseteq DOMAIN frames' /\ f \in DOMAIN frames'
       /\ f \notin DOMAIN frames /\ DOMAIN frames \subseteq 1..Len(frames)
  BY <1>1, <1>2
<1> QED
  BY <1>2, <1>4, <1>8, <1>9, <1>10 DEF batch, f

LEMMA PushInv ==
    ASSUME NumbersSuffice, PacketInv, PushFrame
    PROVE  /\ PacketInv' /\ UNCHANGED <<Gone, arrived, partial, delivered>>
           /\ DOMAIN frames \subseteq DOMAIN frames' /\ \A g \in DOMAIN frames : frames'[g] = frames[g]
<1>1. PICK n \in Sizes :
         /\ frames' = Append(frames, n)
         /\ sequence' = wrapping_add(sequence, n)
         /\ packets_out' = IF Len(packets_out) < EventBuffer
                           THEN Append(packets_out, packetize(Len(frames) + 1, n))
                           ELSE packets_out
  BY DEF PushFrame
<1>2. /\ Len(frames) < MaxFrames /\ frame_number' = wrapping_add(frame_number, 1)
      /\ UNCHANGED <<send_rx, sender, dc_events, air, depacketizer>>
  BY DEF PushFrame
<1> DEFINE f == Len(frames) + 1
           batch == packetize(f, n)
<1>3. /\ frames' \in Seq(Sizes) /\ Len(frames') = Len(frames) + 1
      /\ DOMAIN frames \subseteq DOMAIN frames' /\ f \in DOMAIN frames'
      /\ f \notin DOMAIN frames /\ DOMAIN frames \subseteq 1..Len(frames)
      /\ \A g \in DOMAIN frames : frames'[g] = frames[g]
      /\ sequence' \in Numbers /\ frame_number' \in Numbers
      /\ \A p \in Packets : Genuine(p) => Genuine(p)'
      /\ \A p \in Range(batch) : Genuine(p)' /\ p.payload.frame = f
      /\ \A p, q \in Range(batch) : InStep(p, q)
  BY <1>1, <1>2, PushNumbers
<1>4. batch \in Seq(Packets) /\ \A i \in DOMAIN batch : batch[i].payload = Payload(f, i)
  BY Packetized DEF PacketInv
<1>5. packets_out' \in {packets_out, Append(packets_out, batch)}
  BY <1>1
<1>6. packets_out \in Seq(Seq(Packets)) /\ Len(frames) \in Nat /\ MaxFrames \in Nat
     /\ f = Len(frames) + 1
  BY SizesAssumption DEF PacketInv, PacketTypes
<1> HIDE DEF batch, f
<1>7. packets_out' \in Seq(Seq(Packets))
  BY SMTT(20), <1>4, <1>5, <1>6
<1>8. PacketTypes'
  BY <1>2, <1>3, <1>6, <1>7 DEF PacketInv, PacketTypes, sender, depacketizer
<1>9. UNCHANGED <<Gone, Line, arrived, partial, delivered, dc_buffer, air>>
  BY <1>2 DEF Gone, Line, sender, depacketizer
<1>10. Made' \subseteq Made \cup Range(batch)
  <2>1. CASE packets_out' = packets_out
    BY <1>9, <2>1 DEF Made, Batched
  <2>2. CASE packets_out' = Append(packets_out, batch)
    <3>1. \A i \in DOMAIN packets_out' :
             (i \in DOMAIN packets_out /\ packets_out'[i] = packets_out[i]) \/ packets_out'[i] = batch
      BY <1>4, <1>6, <2>2
    <3>2. Batched' \subseteq Batched \cup Range(batch)
      BY <3>1 DEF Batched
    <3> QED
      BY <1>9, <3>2 DEF Made
  <2> QED
    BY <1>5, <2>1, <2>2
<1>11. \A p \in Made : p \in Packets /\ Genuine(p) /\ p.payload.frame \in 1..Len(frames)
  BY <1>3, LineTypes DEF PacketInv, NumbersInv, Genuine
<1>12. NumbersInv'
  <2>1. \A p \in Made' : Genuine(p)'
    BY <1>3, <1>10, <1>11
  <2>2. ASSUME NEW p \in Made', NEW q \in Made' PROVE InStep(p, q)
    <3>1. CASE p \in Made /\ q \in Made
      BY <3>1 DEF PacketInv, NumbersInv
    <3>2. CASE p \in Range(batch) /\ q \in Range(batch)
      BY <1>3, <3>2
    <3>3. CASE (p \in Made /\ q \in Range(batch)) \/ (p \in Range(batch) /\ q \in Made)
      <4>1. p.payload.frame # q.payload.frame
        BY <1>3, <1>6, <1>11, <3>3
      <4> QED
        BY <4>1 DEF InStep
    <3> QED
      BY <1>10, <3>1, <3>2, <3>3
  <2> QED
    BY <2>1, <2>2 DEF NumbersInv, InStep
<1>13. OnePlace'
  BY <1>9 DEF PacketInv, PlaceInv, OnePlace
<1>14. BatchesFollow'
  <2>1. BatchesFollow
    BY DEF PacketInv, PlaceInv
  <2>2. CASE packets_out' = packets_out
    BY <1>9, <2>1, <2>2 DEF BatchesFollow
  <2>3. CASE packets_out' = Append(packets_out, batch)
    <3> DEFINE b == Len(packets_out) + 1
    <3>1. /\ DOMAIN packets_out' = DOMAIN packets_out \cup {b} /\ packets_out'[b] = batch
          /\ \A i \in DOMAIN packets_out : packets_out'[i] = packets_out[i] /\ i < b
          /\ b \notin DOMAIN packets_out /\ \A i \in DOMAIN packets_out' : ~(b < i)
      BY <1>4, <1>6, <2>3
    <3> HIDE DEF b
    <3>2. \A k \in DOMAIN batch : batch[k].payload.part = k /\ batch[k].payload.frame = f
      BY <1>4, PayloadIs
    <3>3. \A p \in Made : p.payload.frame < f
      BY <1>6, <1>11
    <3>4. \A i \in DOMAIN packets_out : \A k \in DOMAIN packets_out[i] : packets_out[i][k] \in Made
      BY DEF Made, Batched, Range
    <3> SUFFICES ASSUME NEW i \in DOMAIN packets_out', NEW k \in DOMAIN packets_out'[i]
                 PROVE  /\ packets_out'[i][k].payload.part = k
                        /\ \A p \in Gone' \cup Range(Line') :
                              p.payload.frame < packets_out'[i][k].payload.frame
                        /\ \A j \in DOMAIN packets_out' : i < j =>
                              \A l \in DOMAIN packets_out'[j] :
                                 packets_out'[i][k].payload.frame < packets_out'[j][l].payload.frame
      BY DEF BatchesFollow
    <3>5. CASE i = b
      <4>1. /\ packets_out'[i][k].payload.part = k
            /\ \A p \in Gone' \cup Range(Line') : p.payload.frame < packets_out'[i][k].payload.frame
        BY <1>9, <3>1, <3>2, <3>3, <3>5 DEF Made
      <4> QED
        BY <3>1, <3>5, <4>1
    <3>6. CASE i \in DOMAIN packets_out
      <4>1. packets_out'[i] = packets_out[i]
        BY <3>1, <3>6
      <4>2. /\ packets_out'[i][k].payload.part = k
            /\ \A p \in Gone' \cup Range(Line') : p.payload.frame < packets_out'[i][k].payload.frame
        BY <1>9, <2>1, <3>6, <4>1 DEF BatchesFollow
      <4>3. ASSUME NEW j \in DOMAIN packets_out', i < j, NEW l \in DOMAIN packets_out'[j]
            PROVE  packets_out'[i][k].payload.frame < packets_out'[j][l].payload.frame
        <5>1. CASE j = b
          BY <3>1, <3>2, <3>3, <3>4, <3>6, <4>1, <4>3, <5>1
        <5>2. CASE j \in DOMAIN packets_out
          BY <2>1, <3>1, <3>6, <4>1, <4>3, <5>2 DEF BatchesFollow
        <5> QED
          BY <3>1, <5>1, <5>2
      <4> QED
        BY <4>2, <4>3
    <3> QED
      BY <3>1, <3>5, <3>6
  <2> QED
    BY <1>5, <2>2, <2>3
<1> QED
  BY <1>3, <1>8, <1>9, <1>12, <1>13, <1>14 DEF PacketInv, PlaceInv

-----------------------------------------------------------------------------
(* The depacketizer *)

DepacketizerInv == GatheredInv /\ DeliveredInv /\ RunInv /\ FramesThatCameAreDelivered

\* What has arrived was made.
LEMMA ArrivedWereMade ==
    ASSUME PacketInv
    PROVE  \A i \in DOMAIN arrived :
              /\ arrived[i] \in Made /\ arrived[i] \in Range(arrived) /\ arrived[i] \in Packets
              /\ Genuine(arrived[i]) /\ arrived[i].payload.frame \in DOMAIN frames
BY LineTypes DEF PacketInv, NumbersInv, Genuine, Made, Gone, Range

LEMMA NothingCame ==
    ASSUME PacketInv, DepacketizerInv, UNCHANGED <<arrived, partial, delivered>>,
           DOMAIN frames \subseteq DOMAIN frames', \A g \in DOMAIN frames : frames'[g] = frames[g],
           frames' \in Seq(Sizes)
    PROVE  DepacketizerInv'
<1>1. \A g \in DOMAIN frames : WholeFrame(g)' = WholeFrame(g)
  BY DEF WholeFrame
<1>2. GatheredInv'
  BY <1>1 DEF DepacketizerInv, GatheredInv
<1>3. DeliveredInv'
  <2>1. DeliveredInv
    BY DEF DepacketizerInv
  <2>2. ASSUME NEW i \in DOMAIN delivered
        PROVE  \E f \in DOMAIN frames' :
                  /\ delivered[i] = WholeFrame(f)' /\ frames'[f] >= 1
                  /\ \E q \in Range(arrived) : q.payload = Payload(f, 1)
    BY <1>1, <2>1 DEF DeliveredInv
  <2> QED
    BY <2>1, <2>2 DEF DeliveredInv
<1>4. RunInv'
  <2>1. \A i \in DOMAIN arrived : Run(i)' => Run(i)
    BY ArrivedWereMade DEF Run
  <2> QED
    BY <2>1 DEF DepacketizerInv, RunInv
<1>5. FramesThatCameAreDelivered'
  <2> SUFFICES ASSUME NEW f \in DOMAIN frames', frames'[f] \in 1..MaxBufferPackets,
                      NEW i \in DOMAIN arrived, Came(f, i)'
               PROVE  \E d \in DOMAIN delivered : delivered[d] = WholeFrame(f)'
    BY DEF FramesThatCameAreDelivered
  <2>1. frames'[f] \in Nat /\ frames'[f] >= 1 /\ i \in Nat
    BY BuffersAssumption DEF PacketInv, PacketTypes
  <2>2. i \in i..(i + frames'[f] - 1)
    BY <2>1
  <2>3. arrived[i].payload.frame = f
    BY <2>2 DEF Came
  <2>4. f \in DOMAIN frames /\ frames'[f] = frames[f]
    BY <2>3, ArrivedWereMade
  <2>5. Came(f, i)
    BY <2>4 DEF Came
  <2> QED
    BY <1>1, <2>4, <2>5 DEF DepacketizerInv, FramesThatCameAreDelivered
<1> QED
  BY <1>2, <1>3, <1>4, <1>5 DEF DepacketizerInv

LEMMA WholeFrames ==
    ASSUME PacketTypes, NEW f \in DOMAIN frames
    PROVE  /\ frames[f] \in Nat /\ f \in Nat /\ WholeFrame(f) \in Seq(Payloads)
           /\ frames[f] >= 1 => 1 \in DOMAIN WholeFrame(f) /\ WholeFrame(f)[1] = Payload(f, 1)
<1>1. frames[f] \in Nat /\ f \in Nat
  <2>1. frames \in Seq(Sizes)
    BY DEF PacketTypes
  <2>2. frames[f] \in Sizes /\ f \in Nat
    BY <2>1
  <2> QED
    BY <2>2, SizesAssumption
<1>2. \A i \in 1..frames[f] : Payload(f, i) \in Payloads
  BY <1>1 DEF Payload, Payloads
<1>3. WholeFrame(f) = [i \in 1..frames[f] |-> Payload(f, i)]
  BY DEF WholeFrame
<1>4. WholeFrame(f) \in [1..frames[f] -> Payloads]
  BY <1>2, <1>3
<1>5. WholeFrame(f) \in Seq(Payloads)
  BY <1>1, <1>4
<1> QED
  BY <1>1, <1>3, <1>5

LEMMA WholeFramesDiffer ==
    ASSUME PacketTypes, NEW f \in DOMAIN frames, NEW g \in DOMAIN frames,
           frames[f] >= 1, frames[g] >= 1, WholeFrame(f) = WholeFrame(g)
    PROVE  f = g
<1>1. Payload(f, 1) = Payload(g, 1)
  BY WholeFrames
<1> QED
  BY <1>1, PayloadIs

\* What a packet is known to be.
LEMMA MadeIs ==
    ASSUME PacketInv, NEW p \in Made
    PROVE  LET f == p.payload.frame IN
           /\ p \in Packets /\ Genuine(p) /\ p.payload = Payload(f, p.payload.part)
           /\ f \in DOMAIN frames /\ p.payload.part \in 1..frames[f] /\ frames[f] \in Nat
           /\ frames[f] >= 1 /\ p.payload.part \in Nat
           /\ p.marker \in {"Single", "Start", "Inter", "Final"}
           /\ p.marker = "Single" <=> frames[f] = 1
           /\ p.marker = "Start" <=> frames[f] > 1 /\ p.payload.part = 1
           /\ p.marker = "Final" <=> frames[f] > 1 /\ p.payload.part = frames[f]
<1> DEFINE f == p.payload.frame
           i == p.payload.part
<1>1. p \in Packets /\ Genuine(p)
  BY LineTypes DEF PacketInv, NumbersInv
<1>2. f \in DOMAIN frames /\ i \in 1..frames[f] /\ p.marker = frame_marker(i, frames[f])
  BY <1>1 DEF Genuine
<1>3. frames[f] \in Nat
  BY <1>2, WholeFrames DEF PacketInv
<1>4. p.payload = Payload(f, i)
  BY <1>1 DEF Packets, Payloads, Payload
<1> HIDE DEF f, i
<1>5. frames[f] >= 1 /\ i \in Nat
  BY <1>2, <1>3
<1> QED
  BY <1>1, <1>2, <1>3, <1>4, <1>5, MarkerIs DEF f, i

\* A frame whose first packet is still on its way has not come out.
LEMMA Novel ==
    ASSUME NumbersSuffice, PacketInv, DeliveredInv, NEW p \in air, p.payload.part = 1
    PROVE  \A i \in DOMAIN delivered : delivered[i] # WholeFrame(p.payload.frame)
<1> DEFINE f == p.payload.frame
<1>1. p \in Made /\ f \in DOMAIN frames /\ frames[f] >= 1 /\ p.payload = Payload(f, 1)
  <2>1. p \in Made
    BY DEF Made, Gone
  <2> QED
    BY <2>1, MadeIs
<1> HIDE DEF f
<1>2. ASSUME NEW i \in DOMAIN delivered, delivered[i] = WholeFrame(f) PROVE FALSE
  <2>1. PICK g \in DOMAIN frames :
           /\ delivered[i] = WholeFrame(g) /\ frames[g] >= 1
           /\ \E q \in Range(arrived) : q.payload = Payload(g, 1)
    BY <1>2 DEF DeliveredInv
  <2>2. g = f
    BY <1>1, <1>2, <2>1, WholeFramesDiffer DEF PacketInv
  <2>3. PICK q \in Range(arrived) : q.payload = p.payload
    BY <1>1, <2>1, <2>2
  <2>4. q = p
    BY <1>1, <2>3, OnePacket DEF PacketInv, Made, Gone
  <2> QED
    BY <2>3, <2>4 DEF PacketInv, PlaceInv, OnePlace
<1> QED
  BY <1>2 DEF f

LEMMA OneMore ==
    ASSUME PacketTypes, DeliveredInv, NEW f \in DOMAIN frames, frames[f] >= 1,
           delivered' = Append(delivered, WholeFrame(f)),
           \A i \in DOMAIN delivered : delivered[i] # WholeFrame(f),
           frames' = frames, Range(arrived) \subseteq Range(arrived'),
           \E q \in Range(arrived') : q.payload = Payload(f, 1)
    PROVE  DeliveredInv' /\ delivered' \in Seq(Seq(Payloads))
<1> DEFINE w == WholeFrame(f)
<1>1. w \in Seq(Payloads) /\ delivered \in Seq(Seq(Payloads))
  BY WholeFrames DEF PacketTypes
<1> HIDE DEF w
<1>2. delivered' = Append(delivered, w) /\ \A i \in DOMAIN delivered : delivered[i] # w
  BY DEF w
<1>3. /\ delivered' \in Seq(Seq(Payloads))
      /\ \A i \in DOMAIN delivered' :
            \/ i \in DOMAIN delivered /\ delivered'[i] = delivered[i]
            \/ i = Len(delivered) + 1 /\ delivered'[i] = w
  BY <1>1, <1>2
<1>4. \A g \in DOMAIN frames : WholeFrame(g)' = WholeFrame(g)
  BY DEF WholeFrame
<1>5. ASSUME NEW i \in DOMAIN delivered'
      PROVE  \E g \in DOMAIN frames' :
                /\ delivered'[i] = WholeFrame(g)' /\ frames'[g] >= 1
                /\ \E q \in Range(arrived') : q.payload = Payload(g, 1)
  <2>1. CASE delivered'[i] = w
    BY <1>4, <2>1 DEF w
  <2>2. CASE i \in DOMAIN delivered /\ delivered'[i] = delivered[i]
    <3>1. PICK g \in DOMAIN frames :
             /\ delivered[i] = WholeFrame(g) /\ frames[g] >= 1
             /\ \E q \in Range(arrived) : q.payload = Payload(g, 1)
      BY <2>2 DEF DeliveredInv
    <3> QED
      BY <1>4, <2>2, <3>1
  <2> QED
    BY <1>3, <2>1, <2>2
<1>6. \A i, j \in DOMAIN delivered' : delivered'[i] = delivered'[j] => i = j
  BY <1>2, <1>3 DEF DeliveredInv
<1> QED
  BY <1>3, <1>5, <1>6 DEF DeliveredInv

\* A packet arrives, whatever becomes of it.
Arrives(p) ==
    /\ p \in air /\ air' = air \ {p} /\ arrived' = Append(arrived, p)
    /\ UNCHANGED <<packetizer, packets_out, send_rx, sender, dc_events>>

LEMMA Arrival ==
    ASSUME NumbersSuffice, PacketInv, NEW p, Arrives(p)
    PROVE  /\ Len(arrived) \in Nat /\ DOMAIN arrived = 1..Len(arrived)
           /\ DOMAIN arrived' = 1..(Len(arrived) + 1) /\ Len(arrived') = Len(arrived) + 1
           /\ arrived'[Len(arrived) + 1] = p
           /\ \A i \in 1..Len(arrived) : arrived'[i] = arrived[i]
           /\ \A i \in 1..(Len(arrived) + 1) : arrived'[i] \in Made
           /\ \A i, j \in 1..(Len(arrived) + 1) :
                 arrived'[i].payload = arrived'[j].payload => i = j
           /\ frames' = frames /\ p \notin Range(arrived) /\ p \in Made
           /\ Range(arrived) \subseteq Range(arrived') /\ p \in Range(arrived')
<1> DEFINE l == Len(arrived)
<1>1. arrived \in Seq(Packets) /\ p \in Packets /\ p \in air /\ p \in Made /\ frames' = frames
  BY DEF PacketInv, PacketTypes, Arrives, packetizer, Made, Gone
<1>2. /\ l \in Nat /\ DOMAIN arrived = 1..l /\ DOMAIN arrived' = 1..(l + 1) /\ Len(arrived') = l + 1
      /\ arrived'[l + 1] = p /\ \A i \in 1..l : arrived'[i] = arrived[i]
      /\ \A i \in 1..(l + 1) : i \in 1..l \/ i = l + 1
      /\ 1..l \subseteq 1..(l + 1) /\ l + 1 \in 1..(l + 1)
  BY <1>1 DEF Arrives
<1> HIDE DEF l
<1>3. p \notin Range(arrived)
  BY <1>1 DEF PacketInv, PlaceInv, OnePlace
<1>4. \A i \in 1..(l + 1) : arrived'[i] \in Made
  BY <1>1, <1>2, ArrivedWereMade
<1>5. Range(arrived) \subseteq Range(arrived') /\ p \in Range(arrived')
  BY <1>2 DEF Range
<1>6. ASSUME NEW i \in 1..(l + 1), NEW j \in 1..(l + 1), arrived'[i].payload = arrived'[j].payload
      PROVE  i = j
  <2>1. arrived'[i] = arrived'[j]
    BY <1>4, <1>6, OnePacket DEF PacketInv
  <2>2. CASE i \in 1..l /\ j \in 1..l
    BY <1>2, <2>1, <2>2 DEF PacketInv, PlaceInv, OnePlace
  <2>3. \A k \in 1..l : arrived'[k] \in Range(arrived)
    BY <1>2 DEF Range
  <2> QED
    BY <1>2, <1>3, <2>1, <2>2, <2>3
<1> QED
  BY <1>1, <1>2, <1>3, <1>4, <1>5, <1>6 DEF l

\* As many different places as a frame has are all of them.
LEMMA Counted ==
    ASSUME NEW lo \in Nat, NEW hi \in Nat, lo <= hi, NEW n \in Nat
    PROVE  \A g \in [lo..hi -> 1..n] :
              (\A k, l \in lo..hi : g[k] = g[l] => k = l) =>
                 /\ hi - lo + 1 <= n
                 /\ hi - lo + 1 = n => \A m \in 1..n : \E k \in lo..hi : g[k] = m
<1> SUFFICES ASSUME NEW g \in [lo..hi -> 1..n], \A k, l \in lo..hi : g[k] = g[l] => k = l
             PROVE  /\ hi - lo + 1 <= n
                    /\ hi - lo + 1 = n => \A m \in 1..n : \E k \in lo..hi : g[k] = m
  OBVIOUS
<1>1. g \in Injection(lo..hi, 1..n)
  BY DEF Injection, IsInjective
<1>2. /\ IsFiniteSet(1..n) /\ Cardinality(1..n) = n
      /\ IsFiniteSet(lo..hi) /\ Cardinality(lo..hi) = hi - lo + 1
  <2>1. IsFiniteSet(1..n) /\ Cardinality(1..n) = IF 1 > n THEN 0 ELSE n - 1 + 1
    BY FS_Interval
  <2>2. IsFiniteSet(lo..hi) /\ Cardinality(lo..hi) = IF lo > hi THEN 0 ELSE hi - lo + 1
    BY FS_Interval
  <2> QED
    BY <2>1, <2>2
<1>3. /\ Cardinality(lo..hi) <= Cardinality(1..n)
      /\ Cardinality(lo..hi) = Cardinality(1..n) <=> g \in Surjection(lo..hi, 1..n)
  BY <1>1, <1>2, FS_Injection
<1> QED
  BY <1>2, <1>3 DEF Surjection

LEMMA Runs ==
    ASSUME NumbersSuffice, PacketInv, NEW p, Arrives(p), NEW f \in DOMAIN frames,
           NEW lo \in 1..(Len(arrived) + 1), NEW hi \in lo..(Len(arrived) + 1),
           \A k \in lo..hi : arrived'[k].payload.frame = f
    PROVE  /\ hi - lo + 1 <= frames[f]
           /\ hi - lo + 1 = frames[f] =>
                 \A m \in 1..frames[f] : \E k \in lo..hi : arrived'[k].payload = Payload(f, m)
<1>1. lo \in Nat /\ hi \in Nat /\ lo <= hi /\ lo..hi \subseteq 1..(Len(arrived) + 1)
  BY Arrival
<1>2. frames[f] \in Nat
  BY WholeFrames DEF PacketInv
<1> DEFINE g == [k \in lo..hi |-> arrived'[k].payload.part]
<1>3. \A k \in lo..hi : g[k] \in 1..frames[f] /\ arrived'[k].payload = Payload(f, g[k])
  <2> SUFFICES ASSUME NEW k \in lo..hi
               PROVE  g[k] \in 1..frames[f] /\ arrived'[k].payload = Payload(f, g[k])
    OBVIOUS
  <2> DEFINE q == arrived'[k]
  <2>1. q \in Made /\ q.payload.frame = f /\ g[k] = q.payload.part
    BY <1>1, Arrival
  <2> HIDE DEF q, g
  <2>2. q \in Packets /\ Genuine(q)
    BY <2>1, LineTypes DEF PacketInv, NumbersInv
  <2>3. q.payload = Payload(f, q.payload.part)
    BY <2>1, <2>2 DEF Packets, Payloads, Payload
  <2> QED
    BY <2>1, <2>2, <2>3 DEF Genuine, q
<1>4. g \in [lo..hi -> 1..frames[f]]
  BY <1>3
<1>5. \A k, l \in lo..hi : g[k] = g[l] => k = l
  <2> HIDE DEF g
  <2>1. \A k, l \in lo..hi : g[k] = g[l] => arrived'[k].payload = arrived'[l].payload
    BY <1>3
  <2> QED
    BY <1>1, <2>1, Arrival
<1> HIDE DEF g
<1>6. /\ hi - lo + 1 <= frames[f]
      /\ hi - lo + 1 = frames[f] => \A m \in 1..frames[f] : \E k \in lo..hi : g[k] = m
  <2> DEFINE n == frames[f]
  <2>1. n \in Nat /\ g \in [lo..hi -> 1..n]
    BY <1>2, <1>4
  <2> HIDE DEF n
  <2>2. hi - lo + 1 <= n /\ (hi - lo + 1 = n => \A m \in 1..n : \E k \in lo..hi : g[k] = m)
    <3>1. \A h \in [lo..hi -> 1..n] :
             (\A k, l \in lo..hi : h[k] = h[l] => k = l) =>
                /\ hi - lo + 1 <= n
                /\ hi - lo + 1 = n => \A m \in 1..n : \E k \in lo..hi : h[k] = m
      BY <1>1, <2>1, Counted
    <3> QED
      BY <1>5, <2>1, <3>1
  <2> QED
    BY <2>2 DEF n
<1> QED
  BY <1>3, <1>6


-----------------------------------------------------------------------------
(* The partial frame *)

\* push_to_partial takes the packet in.
Gathering(p) ==
    /\ partial # NoFrame /\ p.frame_number = partial.frame_number
    /\ ~(Cardinality(DOMAIN partial.payloads) >= MaxBufferPackets)

Grown(p) ==
    [partial EXCEPT !.payloads =
        [s \in DOMAIN partial.payloads \cup {p.sequence} |->
            IF s = p.sequence THEN p.payload ELSE partial.payloads[s]]]

LEMMA PushCases ==
    ASSUME NEW p, push_to_partial(p)
    PROVE  \/ ~Gathering(p) /\ partial' = NoFrame /\ delivered' = delivered
           \/ Gathering(p) /\ p.marker = "Final" /\ finalize(Grown(p), p.sequence)
           \/ Gathering(p) /\ p.marker # "Final" /\ partial' = Grown(p) /\ delivered' = delivered
BY DEF push_to_partial, Gathering, Grown

LEMMA GrownIs ==
    ASSUME PacketTypes, partial # NoFrame, NEW p \in Packets
    PROVE  LET P == Grown(p) IN
           /\ P \in Partials /\ P.frame_number = partial.frame_number
           /\ P.start_sequence = partial.start_sequence
           /\ DOMAIN P.payloads = DOMAIN partial.payloads \cup {p.sequence}
           /\ P.payloads[p.sequence] = p.payload
           /\ \A s \in DOMAIN partial.payloads :
                 s # p.sequence => P.payloads[s] = partial.payloads[s]
<1> DEFINE D == DOMAIN partial.payloads \cup {p.sequence}
           g == [s \in D |-> IF s = p.sequence THEN p.payload ELSE partial.payloads[s]]
<1>1. partial \in Partials
  BY DEF PacketTypes
<1>2. PICK S \in SUBSET (0..(Modulus - 1)) : partial.payloads \in [S -> [frame : Nat, part : Nat]]
  BY <1>1 DEF Partials
<1>3. D \in SUBSET (0..(Modulus - 1)) /\ g \in [D -> [frame : Nat, part : Nat]]
  BY <1>2 DEF Packets, Numbers, Payloads
<1>4. Grown(p) = [partial EXCEPT !.payloads = g]
  BY DEF Grown
<1>5. DOMAIN g = D /\ p.sequence \in D /\ g[p.sequence] = p.payload
      /\ \A s \in DOMAIN partial.payloads : s # p.sequence => g[s] = partial.payloads[s]
  OBVIOUS
<1> HIDE DEF g
<1>6. /\ Grown(p) \in Partials /\ Grown(p).payloads = g
      /\ Grown(p).frame_number = partial.frame_number
      /\ Grown(p).start_sequence = partial.start_sequence
  BY <1>1, <1>3, <1>4 DEF Partials
<1> QED
  BY <1>5, <1>6

\* A packet with the number of the partial frame is of that frame.
LEMMA Grows ==
    ASSUME NumbersSuffice, PacketInv, NEW p \in Made, NEW f \in DOMAIN frames,
           NEW came \in SUBSET Made, partial # NoFrame, Gathers(partial, f, came),
           p.frame_number = partial.frame_number
    PROVE  p.payload.frame = f /\ Gathers(Grown(p), f, came \cup {p})
<1>1. PICK q \in came :
         /\ q.payload = Payload(f, 1) /\ q.marker = "Start"
         /\ q.sequence = partial.start_sequence /\ q.frame_number = partial.frame_number
  BY DEF Gathers
<1>2. q \in Packets /\ Genuine(q) /\ p \in Packets /\ Genuine(p)
  BY MadeIs
<1>3. p.payload.frame = q.payload.frame
  BY <1>1, <1>2, NumbersDiffer DEF PacketInv
<1>4. p.payload.frame = f
  BY <1>1, <1>3, PayloadIs
<1> DEFINE P == Grown(p)
<1>5. /\ P.frame_number = partial.frame_number /\ P.start_sequence = partial.start_sequence
      /\ DOMAIN P.payloads = DOMAIN partial.payloads \cup {p.sequence}
      /\ P.payloads[p.sequence] = p.payload
      /\ \A s \in DOMAIN partial.payloads : s # p.sequence => P.payloads[s] = partial.payloads[s]
  BY <1>2, GrownIs DEF PacketInv
<1> HIDE DEF P
<1>6. ASSUME NEW s \in DOMAIN P.payloads
      PROVE  \E r \in came \cup {p} :
                r.payload = P.payloads[s] /\ r.sequence = s /\ r.payload.frame = f
  <2>1. CASE s = p.sequence
    BY <1>4, <1>5, <2>1
  <2>2. CASE s # p.sequence /\ s \in DOMAIN partial.payloads
    BY <1>5, <2>2 DEF Gathers
  <2> QED
    BY <1>5, <2>1, <2>2
<1>7. Gathers(P, f, came \cup {p})
  BY <1>1, <1>5, <1>6 DEF Gathers
<1> QED
  BY <1>4, <1>7 DEF P

\* The place of a packet in its frame and its sequence.
LEMMA SequenceIs ==
    ASSUME NumbersSuffice, PacketInv, NEW f \in DOMAIN frames, NEW q \in Made, NEW start \in Made,
           start.payload = Payload(f, 1), q.payload.frame = f
    PROVE  /\ q.payload.part \in 1..frames[f] /\ q.payload = Payload(f, q.payload.part)
           /\ q.sequence = wrapping_add(start.sequence, q.payload.part - 1)
           /\ frames[f] \in Nat /\ frames[f] <= Modulus /\ Modulus \in Nat
           /\ start.sequence \in Numbers
<1>1. /\ q.payload.part \in 1..frames[f] /\ q.payload = Payload(f, q.payload.part)
      /\ frames[f] \in Nat /\ start \in Packets
  BY MadeIs
<1>2. start.payload.frame = f /\ start.payload.part = 1
  BY PayloadIs
<1>3. InStep(q, start)
  BY DEF PacketInv, NumbersInv
<1>4. q.sequence = wrapping_add(start.sequence, q.payload.part - 1)
  BY <1>1, <1>2, <1>3 DEF InStep
<1>5. frames[f] <= Modulus
  <2>1. frames \in Seq(Sizes)
    BY DEF PacketInv, PacketTypes
  <2>2. frames[f] \in Sizes
    BY <2>1
  <2> QED
    BY <2>2 DEF NumbersSuffice
<1> QED
  BY <1>1, <1>4, <1>5, ModulusAssumption DEF Packets

\* finalize gives the frame of which the packets were gathered, or nothing.
LEMMA Finalized ==
    ASSUME NumbersSuffice, PacketInv, NEW f \in DOMAIN frames, NEW came \in SUBSET Made,
           NEW P, Gathers(P, f, came), NEW p \in came, p.marker = "Final", p.payload.frame = f,
           finalize(P, p.sequence)
    PROVE  /\ partial' = NoFrame
           /\ \/ delivered' = delivered
              \/ delivered' = Append(delivered, WholeFrame(f))
           /\ (\A m \in 1..frames[f] : \E q \in came :
                  q.payload = Payload(f, m) /\ q.sequence \in DOMAIN P.payloads) =>
                     delivered' = Append(delivered, WholeFrame(f))
           /\ \E q \in came : q.payload = Payload(f, 1)
           /\ frames[f] >= 1
<1> DEFINE n == frames[f]
           a == P.start_sequence
           expected == Expected(P, p.sequence)
<1>1. PICK start \in came :
         start.payload = Payload(f, 1) /\ start.marker = "Start" /\ start.sequence = a
  BY DEF Gathers
<1>2. /\ n \in Nat /\ n >= 1 /\ n <= Modulus /\ a \in Numbers /\ Modulus \in Nat
      /\ p.payload.part = n
  BY <1>1, SequenceIs, MadeIs
<1>3. \A q \in came : q.payload.frame = f =>
         /\ q.payload.part \in 1..n /\ q.payload = Payload(f, q.payload.part)
         /\ q.sequence = wrapping_add(a, q.payload.part - 1)
  BY <1>1, SequenceIs
<1>4. p.sequence = wrapping_add(a, n - 1)
  BY <1>2, <1>3
<1> HIDE DEF n, a, expected
<1>5. wrapping_add(p.sequence, Modulus - a) = n - 1
  BY <1>2, <1>4, WrapBack
<1>6. expected = [i \in 1..n |-> wrapping_add(a, i - 1)]
  <2>1. (n - 1) + 1 = n
    BY <1>2
  <2> QED
    BY <1>5, <2>1 DEF Expected, expected, a
<1>7. ASSUME NEW i \in 1..n, expected[i] \in DOMAIN P.payloads
      PROVE  P.payloads[expected[i]] = Payload(f, i)
  <2>1. PICK q \in came :
           q.payload = P.payloads[expected[i]] /\ q.sequence = expected[i] /\ q.payload.frame = f
    BY <1>7 DEF Gathers
  <2> DEFINE j == q.payload.part
  <2>2. j \in 1..n /\ q.payload = Payload(f, j) /\ q.sequence = wrapping_add(a, j - 1)
    BY <1>3, <2>1
  <2> HIDE DEF j
  <2>3. /\ i - 1 \in 0..Modulus /\ j - 1 \in 0..Modulus
        /\ (i - 1) - (j - 1) < Modulus /\ (j - 1) - (i - 1) < Modulus
    BY <1>2, <2>2
  <2>4. wrapping_add(a, i - 1) = wrapping_add(a, j - 1)
    BY <1>6, <2>1, <2>2
  <2>5. i - 1 = j - 1
    BY <1>2, <2>3, <2>4, WrapDiffers
  <2>6. i = j
    BY <1>2, <2>2, <2>5
  <2> QED
    BY <2>1, <2>2, <2>6
<1> DEFINE w == [i \in DOMAIN expected |-> P.payloads[expected[i]]]
<1>8. /\ partial' = NoFrame
      /\ delivered' = IF Range(expected) \subseteq DOMAIN P.payloads
                      THEN Append(delivered, w) ELSE delivered
  BY DEF finalize, Deliver, expected
<1>9. ASSUME Range(expected) \subseteq DOMAIN P.payloads PROVE w = WholeFrame(f)
  <2>1. \A i \in 1..n : expected[i] \in DOMAIN P.payloads
    BY <1>6, <1>9 DEF Range
  <2>2. DOMAIN expected = 1..n
    BY <1>6
  <2>3. w = [i \in 1..n |-> Payload(f, i)]
    BY <1>7, <2>1, <2>2
  <2> QED
    BY <2>3 DEF WholeFrame, n
<1> HIDE DEF w
<1>10. ASSUME \A m \in 1..n : \E q \in came :
                 q.payload = Payload(f, m) /\ q.sequence \in DOMAIN P.payloads
       PROVE  Range(expected) \subseteq DOMAIN P.payloads
  <2> SUFFICES ASSUME NEW m \in 1..n PROVE expected[m] \in DOMAIN P.payloads
    BY <1>6 DEF Range
  <2>1. PICK q \in came : q.payload = Payload(f, m) /\ q.sequence \in DOMAIN P.payloads
    BY <1>10
  <2>2. q.payload.frame = f /\ q.payload.part = m
    BY <2>1, PayloadIs
  <2>3. q.sequence = wrapping_add(a, m - 1)
    BY <1>3, <2>2
  <2> QED
    BY <1>6, <2>1, <2>3
<1> QED
  BY <1>1, <1>2, <1>8, <1>9, <1>10 DEF n

\* While a run of a frame's packets goes on, there is room for the next one.
LEMMA Fits ==
    ASSUME NumbersSuffice, PacketInv, RunInv, NEW p, Arrives(p),
           NEW i \in 1..Len(arrived), Run(i), p.payload.frame = arrived[i].payload.frame
    PROVE  /\ Gathering(p)
           /\ partial.frame_number = arrived[i].frame_number
           /\ partial.start_sequence = arrived[i].sequence
           /\ DOMAIN partial.payloads = {arrived[k].sequence : k \in i..Len(arrived)}
<1> DEFINE l == Len(arrived)
           f == p.payload.frame
           q == arrived[i]
<1>1. /\ l \in Nat /\ DOMAIN arrived = 1..l /\ arrived'[l + 1] = p
      /\ \A k \in 1..l : arrived'[k] = arrived[k]
      /\ p \in Made /\ q \in Made
  BY Arrival, ArrivedWereMade
<1>2. /\ f \in DOMAIN frames /\ frames[f] \in Nat
      /\ p \in Packets /\ q \in Packets /\ Genuine(p) /\ Genuine(q)
  BY <1>1, MadeIs
<1>3. /\ partial # NoFrame /\ partial.frame_number = q.frame_number
      /\ partial.start_sequence = q.sequence
      /\ DOMAIN partial.payloads = {arrived[k].sequence : k \in i..l}
  BY <1>1 DEF RunInv
<1>4. p.frame_number = q.frame_number
  BY <1>2, NumbersDiffer DEF PacketInv
<1>5. \A k \in i..l : arrived[k].payload.frame = f
  BY DEF Run
<1>6. frames[f] <= MaxBufferPackets
  BY DEF Run
<1> HIDE DEF f, q, l
<1>7. \A k \in i..(l + 1) : arrived'[k].payload.frame = f
  <2>1. \A k \in i..(l + 1) : k \in i..l \/ k = l + 1
    BY <1>1 DEF l
  <2>2. \A k \in i..l : k \in 1..l
    BY <1>1 DEF l
  <2> QED
    BY <1>1, <1>5, <2>1, <2>2 DEF f
<1>8. (l + 1) - i + 1 <= frames[f]
  <2>1. i \in 1..(l + 1) /\ l + 1 \in i..(l + 1)
    BY <1>1 DEF l
  <2> QED
    BY <1>2, <1>7, <2>1, Runs DEF l
<1>9. Cardinality(DOMAIN partial.payloads) \in Nat
      /\ Cardinality(DOMAIN partial.payloads) <= l - i + 1
  <2> DEFINE g == [k \in i..l |-> arrived[k].sequence]
             D == DOMAIN partial.payloads
  <2>1. i \in Int /\ l \in Int /\ i <= l
    BY <1>1 DEF l
  <2>2. IsFiniteSet(i..l) /\ Cardinality(i..l) = l - i + 1
    <3>1. IsFiniteSet(i..l) /\ Cardinality(i..l) = IF i > l THEN 0 ELSE l - i + 1
      BY <2>1, FS_Interval
    <3> QED
      BY <2>1, <3>1
  <2>3. g \in Surjection(i..l, D)
    BY <1>3 DEF Surjection
  <2> HIDE DEF g, D
  <2>4. IsFiniteSet(D) /\ Cardinality(D) <= Cardinality(i..l)
    BY <2>2, <2>3, FS_Surjection
  <2>5. Cardinality(D) \in Nat
    BY <2>4, FS_CardinalityType
  <2> QED
    BY <2>2, <2>4, <2>5 DEF D
<1>10. ~(Cardinality(DOMAIN partial.payloads) >= MaxBufferPackets)
  <2> DEFINE c == Cardinality(DOMAIN partial.payloads)
  <2>1. c \in Nat /\ c <= l - i + 1 /\ (l + 1) - i + 1 <= frames[f]
    BY <1>8, <1>9
  <2> HIDE DEF c
  <2>2. ~(c >= MaxBufferPackets)
    BY <1>1, <1>2, <1>6, <2>1, BuffersAssumption DEF l
  <2> QED
    BY <2>2 DEF c
<1> QED
  BY <1>3, <1>4, <1>10 DEF Gathering, q, l

-----------------------------------------------------------------------------
(* A packet arrives *)

\* What holds already of the frames that came goes on.
LEMMA CameBefore ==
    ASSUME NumbersSuffice, PacketInv, FramesThatCameAreDelivered, NEW p, Arrives(p),
           \A d \in DOMAIN delivered : d \in DOMAIN delivered' /\ delivered'[d] = delivered[d],
           \A f \in DOMAIN frames, i \in 1..(Len(arrived) + 1) :
              frames[f] \in 1..MaxBufferPackets /\ Came(f, i)'
                /\ i + frames[f] - 1 = Len(arrived) + 1 =>
                 \E d \in DOMAIN delivered' : delivered'[d] = WholeFrame(f)
    PROVE  FramesThatCameAreDelivered'
<1> DEFINE l == Len(arrived)
<1>1. /\ l \in Nat /\ DOMAIN arrived = 1..l /\ DOMAIN arrived' = 1..(l + 1)
      /\ Len(arrived') = l + 1 /\ frames' = frames
      /\ \A i \in 1..l : arrived'[i] = arrived[i]
  BY Arrival
<1>2. \A f \in DOMAIN frames : WholeFrame(f)' = WholeFrame(f)
  BY <1>1 DEF WholeFrame
<1> HIDE DEF l
<1> SUFFICES ASSUME NEW f \in DOMAIN frames, frames[f] \in 1..MaxBufferPackets,
                    NEW i \in 1..(l + 1), Came(f, i)'
             PROVE  \E d \in DOMAIN delivered' : delivered'[d] = WholeFrame(f)
  BY <1>1, <1>2 DEF FramesThatCameAreDelivered
<1> DEFINE n == frames[f]
<1>3. /\ n \in Nat /\ n >= 1 /\ i \in Nat /\ i + n - 1 <= l + 1
      /\ \A k \in i..(i + n - 1) : arrived'[k].payload.frame = f
      /\ n > 1 => arrived'[i].marker = "Start" /\ arrived'[i + n - 1].marker = "Final"
  BY <1>1, BuffersAssumption DEF Came
<1> HIDE DEF n
<1>4. CASE i + n - 1 = l + 1
  BY <1>4 DEF l, n
<1>5. CASE i + n - 1 <= l
  <2>1. i \in 1..l /\ i + n - 1 \in 1..l /\ i..(i + n - 1) \subseteq 1..l
    BY <1>1, <1>3, <1>5
  <2>2. Came(f, i)
    BY <1>1, <1>3, <1>5, <2>1 DEF Came, n, l
  <2>3. \E d \in DOMAIN delivered : delivered[d] = WholeFrame(f)
    BY <1>1, <2>1, <2>2 DEF FramesThatCameAreDelivered
  <2> QED
    BY <2>3
<1> QED
  BY <1>1, <1>3, <1>4, <1>5

LEMMA NothingMore ==
    ASSUME NumbersSuffice, PacketInv, DeliveredInv, NEW p, Arrives(p), delivered' = delivered
    PROVE  DeliveredInv' /\ delivered' \in Seq(Seq(Payloads))
<1>1. frames' = frames /\ Range(arrived) \subseteq Range(arrived')
  BY Arrival
<1>2. \A f \in DOMAIN frames : WholeFrame(f)' = WholeFrame(f)
  BY <1>1 DEF WholeFrame
<1>3. ASSUME NEW i \in DOMAIN delivered
      PROVE  \E f \in DOMAIN frames :
                /\ delivered[i] = WholeFrame(f) /\ frames[f] >= 1
                /\ \E q \in Range(arrived') : q.payload = Payload(f, 1)
  BY <1>1 DEF DeliveredInv
<1>4. \A i, j \in DOMAIN delivered : delivered[i] = delivered[j] => i = j
  BY DEF DeliveredInv
<1>5. DeliveredInv'
  BY <1>1, <1>2, <1>3, <1>4 DEF DeliveredInv
<1> QED
  BY <1>5 DEF PacketInv, PacketTypes

\* A run of the packets with the new one.
LEMMA RunsOn ==
    ASSUME NumbersSuffice, PacketInv, NEW p, Arrives(p), NEW i \in 1..(Len(arrived) + 1), Run(i)'
    PROVE  \/ i = Len(arrived) + 1 /\ p.marker = "Start"
           \/ /\ i \in 1..Len(arrived) /\ Run(i) /\ p.marker \notin {"Final", "Single", "Start"}
              /\ p.payload.frame = arrived[i].payload.frame
<1> DEFINE l == Len(arrived)
<1>1. /\ l \in Nat /\ Len(arrived') = l + 1 /\ frames' = frames /\ arrived'[l + 1] = p
      /\ \A k \in 1..l : arrived'[k] = arrived[k]
      /\ \A k \in 1..(l + 1) : arrived'[k] \in Made
  BY Arrival
<1>2. /\ arrived'[i].marker = "Start"
      /\ frames[arrived'[i].payload.frame] <= MaxBufferPackets
      /\ \A k \in i..(l + 1) :
            arrived'[k].payload.frame = arrived'[i].payload.frame /\ arrived'[k].marker # "Final"
  BY <1>1 DEF Run
<1>3. CASE i = l + 1
  BY <1>1, <1>2, <1>3
<1>4. CASE i \in 1..l
  <2> DEFINE q == arrived'[i]
  <2>1. i..l \subseteq i..(l + 1) /\ i..l \subseteq 1..l /\ l + 1 \in i..(l + 1) /\ i # l + 1
        /\ i \in 1..(l + 1) /\ l + 1 \in 1..(l + 1)
    BY <1>1, <1>4
  <2>2. q = arrived[i]
    BY <1>1, <1>4
  <2>3. p.payload.frame = q.payload.frame /\ p.marker # "Final"
    BY <1>1, <1>2, <2>1
  <2>4. Run(i)
    BY <1>1, <1>2, <2>1, <2>2 DEF Run, l
  <2>5. p \in Made /\ q \in Made /\ q.marker = "Start"
    BY <1>1, <1>2, <2>1
  <2>6. p.payload # q.payload
    BY <1>1, <2>1, Arrival
  <2> HIDE DEF q
  <2>7. p.marker \notin {"Single", "Start"}
    BY <2>3, <2>5, <2>6, MadeIs
  <2> QED
    BY <1>4, <2>2, <2>3, <2>4, <2>7
<1> QED
  BY <1>1, <1>3, <1>4

\* What an arrival must show of the depacketizer.
Unpacks ==
    /\ partial' \in Partials \cup {NoFrame} /\ delivered' \in Seq(Seq(Payloads))
    /\ DepacketizerInv'

LEMMA SingleArrives ==
    ASSUME NumbersSuffice, PacketInv, DepacketizerInv, NEW p, Arrives(p),
           p.marker = "Single", frame_from_single(p)
    PROVE  Unpacks
<1> DEFINE f == p.payload.frame
<1>1. p \in Made /\ p \in air
  BY Arrival DEF Arrives
<1>2. /\ f \in DOMAIN frames /\ frames[f] = 1 /\ p.payload.part = 1 /\ p.payload = Payload(f, 1)
  BY <1>1, MadeIs
<1>3. partial' = NoFrame /\ delivered' = Append(delivered, <<p.payload>>)
  BY DEF frame_from_single, Deliver
<1>4. /\ frames' = frames /\ Range(arrived) \subseteq Range(arrived') /\ p \in Range(arrived')
      /\ Len(arrived) \in Nat /\ arrived'[Len(arrived) + 1] = p
  BY Arrival
<1>5. \A i \in DOMAIN delivered : delivered[i] # WholeFrame(f)
  BY <1>1, <1>2, Novel DEF DepacketizerInv
<1> HIDE DEF f
<1>6. <<p.payload>> = WholeFrame(f)
  BY <1>2 DEF WholeFrame
<1>7. DeliveredInv' /\ delivered' \in Seq(Seq(Payloads))
  BY <1>2, <1>3, <1>4, <1>5, <1>6, OneMore DEF PacketInv, DepacketizerInv
<1>8. GatheredInv'
  BY <1>3 DEF GatheredInv
<1>9. RunInv'
  <2>1. ASSUME NEW i \in DOMAIN arrived', Run(i)' PROVE FALSE
    BY <2>1, RunsOn, Arrival
  <2> QED
    BY <2>1 DEF RunInv
<1>10. delivered \in Seq(Seq(Payloads)) /\ <<p.payload>> \in Seq(Payloads)
  BY <1>2, <1>6, WholeFrames DEF PacketInv, PacketTypes
<1>11. /\ \A d \in DOMAIN delivered : d \in DOMAIN delivered' /\ delivered'[d] = delivered[d]
       /\ Len(delivered) + 1 \in DOMAIN delivered'
       /\ delivered'[Len(delivered) + 1] = <<p.payload>>
  BY <1>3, <1>10
<1>12. ASSUME NEW g \in DOMAIN frames, NEW i \in 1..(Len(arrived) + 1), Came(g, i)',
              frames[g] \in 1..MaxBufferPackets, i + frames[g] - 1 = Len(arrived) + 1
       PROVE  \E d \in DOMAIN delivered' : delivered'[d] = WholeFrame(g)
  <2>1. Len(arrived) + 1 \in i..(i + frames[g] - 1)
    BY <1>4, <1>12
  <2>2. arrived'[Len(arrived) + 1].payload.frame = g
    BY <1>4, <1>12, <2>1 DEF Came
  <2>3. g = f
    BY <1>4, <2>2 DEF f
  <2> QED
    BY <1>6, <1>11, <2>3
<1>13. FramesThatCameAreDelivered'
  BY <1>11, <1>12, CameBefore DEF DepacketizerInv
<1> QED
  BY <1>3, <1>7, <1>8, <1>9, <1>13 DEF Unpacks, DepacketizerInv

LEMMA StartArrives ==
    ASSUME NumbersSuffice, PacketInv, DepacketizerInv, NEW p, Arrives(p),
           p.marker = "Start", begin_partial(p)
    PROVE  Unpacks
<1> DEFINE f == p.payload.frame
           l == Len(arrived)
           new == [frame_number |-> p.frame_number, start_sequence |-> p.sequence,
                   payloads |-> [s \in {p.sequence} |-> p.payload]]
<1>1. p \in Made /\ p \in air /\ p \in Packets
  BY Arrival, MadeIs DEF Arrives
<1>2. f \in DOMAIN frames /\ frames[f] > 1 /\ p.payload.part = 1 /\ p.payload = Payload(f, 1)
  BY <1>1, MadeIs
<1>3. partial' = new /\ delivered' = delivered
  BY DEF begin_partial
<1>4. new \in Partials
  <2> DEFINE S == {p.sequence}
             g == [s \in S |-> p.payload]
  <2>1. S \in SUBSET (0..(Modulus - 1)) /\ g \in [S -> [frame : Nat, part : Nat]]
    BY <1>1 DEF Packets, Numbers, Payloads
  <2>2. p.frame_number \in Nat /\ p.sequence \in Nat
    BY <1>1, ModulusAssumption DEF Packets, Numbers
  <2> HIDE DEF S
  <2> QED
    BY <2>1, <2>2 DEF Partials, S
<1>5. /\ frames' = frames /\ p \in Range(arrived') /\ l \in Nat /\ DOMAIN arrived' = 1..(l + 1)
      /\ arrived'[l + 1] = p /\ Len(arrived') = l + 1
  BY Arrival
<1>6. \A i \in DOMAIN delivered : delivered[i] # WholeFrame(f)
  BY <1>1, <1>2, Novel DEF DepacketizerInv
<1> HIDE DEF f, l
<1>7. DeliveredInv' /\ delivered' \in Seq(Seq(Payloads))
  BY <1>3, NothingMore DEF DepacketizerInv
<1>8. GatheredInv'
  <2>1. /\ new.frame_number = p.frame_number /\ new.start_sequence = p.sequence
        /\ DOMAIN new.payloads = {p.sequence} /\ new.payloads[p.sequence] = p.payload
    OBVIOUS
  <2> HIDE DEF new
  <2>2. Gathers(new, f, Range(arrived'))
    BY <1>2, <1>5, <2>1 DEF Gathers, f
  <2>3. WholeFrame(f)' = WholeFrame(f)
    BY <1>5 DEF WholeFrame
  <2> QED
    BY <1>2, <1>3, <1>5, <1>6, <2>2, <2>3 DEF GatheredInv
<1>9. RunInv'
  <2> SUFFICES ASSUME NEW i \in 1..(l + 1), Run(i)'
               PROVE  /\ new # NoFrame
                      /\ new.frame_number = arrived'[i].frame_number
                      /\ new.start_sequence = arrived'[i].sequence
                      /\ DOMAIN new.payloads = {arrived'[k].sequence : k \in i..(l + 1)}
    BY <1>3, <1>5 DEF RunInv
  <2>1. i = l + 1
    BY RunsOn DEF l
  <2>2. i..(l + 1) = {l + 1}
    BY <1>5, <2>1
  <2>3. {arrived'[k].sequence : k \in i..(l + 1)} = {p.sequence}
    BY <1>5, <2>2
  <2> QED
    BY <1>4, <1>5, <2>1, <2>3, NoFrameAssumption
<1>10. ASSUME NEW g \in DOMAIN frames, NEW i \in 1..(l + 1), Came(g, i)',
              frames[g] \in 1..MaxBufferPackets, i + frames[g] - 1 = l + 1
       PROVE  FALSE
  <2>1. l + 1 \in i..(i + frames[g] - 1)
    BY <1>5, <1>10
  <2>2. p.payload.frame = g /\ (frames[g] > 1 => p.marker = "Final")
    BY <1>5, <1>10, <2>1 DEF Came
  <2> QED
    BY <1>2, <2>2 DEF f
<1>11. FramesThatCameAreDelivered'
  BY <1>3, <1>10, CameBefore DEF DepacketizerInv, l
<1> QED
  BY <1>3, <1>4, <1>7, <1>8, <1>9, <1>11 DEF Unpacks, DepacketizerInv

\* The next packet of a run, not the frame's last one.
LEMMA NextOfRun ==
    ASSUME NumbersSuffice, PacketInv, RunInv, NEW p, Arrives(p), push_to_partial(p),
           NEW i \in 1..(Len(arrived) + 1), Run(i)', p.marker = "Inter"
    PROVE  /\ partial' # NoFrame
           /\ partial'.frame_number = arrived'[i].frame_number
           /\ partial'.start_sequence = arrived'[i].sequence
           /\ DOMAIN partial'.payloads = {arrived'[k].sequence : k \in i..(Len(arrived) + 1)}
<1> DEFINE l == Len(arrived)
<1>1. i \in 1..l /\ Run(i) /\ p.payload.frame = arrived[i].payload.frame
  BY RunsOn
<1>2. /\ l \in Nat /\ arrived'[l + 1] = p /\ \A k \in 1..l : arrived'[k] = arrived[k]
      /\ p \in Packets
  BY Arrival, MadeIs
<1> HIDE DEF l
<1>3. /\ Gathering(p) /\ partial.frame_number = arrived[i].frame_number
      /\ partial.start_sequence = arrived[i].sequence
      /\ DOMAIN partial.payloads = {arrived[k].sequence : k \in i..l}
  BY <1>1, Fits DEF l
<1>4. partial' = Grown(p)
  BY <1>3, PushCases
<1>5. /\ Grown(p) \in Partials /\ Grown(p).frame_number = partial.frame_number
      /\ Grown(p).start_sequence = partial.start_sequence
      /\ DOMAIN Grown(p).payloads = DOMAIN partial.payloads \cup {p.sequence}
  BY <1>2, <1>3, GrownIs DEF PacketInv, Gathering
<1>6. {arrived'[k].sequence : k \in i..(l + 1)} = {arrived[k].sequence : k \in i..l} \cup {p.sequence}
  <2>1. i..(l + 1) = (i..l) \cup {l + 1} /\ i..l \subseteq 1..l
    BY <1>1, <1>2
  <2> QED
    BY <1>2, <2>1
<1> QED
  BY <1>1, <1>2, <1>3, <1>4, <1>5, <1>6, NoFrameAssumption DEF l

\* The last packet of a frame of which all packets came.
LEMMA LastOfRun ==
    ASSUME NumbersSuffice, PacketInv, RunInv, NEW p, Arrives(p), push_to_partial(p),
           p.marker = "Final", NEW f \in DOMAIN frames, frames[f] \in 1..MaxBufferPackets,
           NEW i \in 1..(Len(arrived) + 1), Came(f, i)', i + frames[f] - 1 = Len(arrived) + 1
    PROVE  /\ Gathering(p) /\ p.payload.frame = f
           /\ \A m \in 1..frames[f] : \E q \in Range(arrived') :
                 q.payload = Payload(f, m) /\ q.sequence \in DOMAIN Grown(p).payloads
<1> DEFINE l == Len(arrived)
           n == frames[f]
<1>1. /\ l \in Nat /\ arrived'[l + 1] = p /\ \A k \in 1..l : arrived'[k] = arrived[k]
      /\ \A k \in 1..(l + 1) : arrived'[k] \in Made
      /\ frames' = frames /\ DOMAIN arrived' = 1..(l + 1) /\ p \in Made
  BY Arrival
<1>2. /\ n \in Nat /\ n >= 1 /\ i \in Nat /\ i + n - 1 = l + 1
      /\ \A k \in i..(l + 1) : arrived'[k].payload.frame = f
      /\ n > 1 => arrived'[i].marker = "Start"
  BY <1>1, BuffersAssumption DEF Came
<1>3. l + 1 \in i..(l + 1) /\ i..(l + 1) \subseteq 1..(l + 1) /\ i..l \subseteq i..(l + 1)
      /\ i..l \subseteq 1..l /\ l + 1 \in 1..(l + 1)
  BY <1>1, <1>2
<1>4. p.payload.frame = f
  BY <1>1, <1>2, <1>3
<1>5. n > 1 /\ p.payload = Payload(f, n)
  BY <1>1, <1>4, MadeIs
<1>6. i \in 1..l /\ i \in i..l
  BY <1>1, <1>2, <1>5
<1>7. arrived[i].marker = "Start" /\ arrived[i].payload.frame = f
  BY <1>1, <1>2, <1>3, <1>5, <1>6
<1>8. ASSUME NEW k \in i..l
      PROVE  arrived[k].payload.frame = f /\ arrived[k].marker # "Final"
  <2>1. k \in 1..l /\ k \in i..(l + 1) /\ k \in 1..(l + 1) /\ k # l + 1
    BY <1>1, <1>3
  <2>2. arrived[k] \in Made /\ arrived[k].payload.frame = f /\ arrived'[k] = arrived[k]
    BY <1>1, <1>2, <2>1
  <2>3. arrived'[k].payload # p.payload
    BY <1>1, <1>3, <2>1, Arrival
  <2> DEFINE q == arrived[k]
  <2>4. q \in Made /\ q.payload.frame = f /\ q.payload # Payload(f, n)
    BY <1>5, <2>2, <2>3
  <2> HIDE DEF q
  <2>5. q.marker # "Final"
    BY <2>4, MadeIs
  <2> QED
    BY <2>2, <2>5 DEF q
<1>9. Run(i)
  BY <1>7, <1>8 DEF Run
<1>10. /\ Gathering(p) /\ DOMAIN partial.payloads = {arrived[k].sequence : k \in i..l}
  BY <1>4, <1>6, <1>7, <1>9, Fits
<1>11. DOMAIN Grown(p).payloads = DOMAIN partial.payloads \cup {p.sequence}
  BY <1>1, <1>10, MadeIs, GrownIs DEF PacketInv, Gathering
<1>12. \A k \in i..(l + 1) : arrived'[k].sequence \in DOMAIN Grown(p).payloads
  <2>1. \A k \in i..(l + 1) : k \in i..l \/ k = l + 1
    BY <1>1, <1>2
  <2> QED
    BY <1>1, <1>3, <1>10, <1>11, <2>1
<1>13. \A m \in 1..n : \E k \in i..(l + 1) : arrived'[k].payload = Payload(f, m)
  <2>1. (l + 1) - i + 1 = n
    BY <1>1, <1>2
  <2> QED
    BY <1>2, <1>3, <2>1, Runs
<1>14. \A k \in i..(l + 1) : arrived'[k] \in Range(arrived')
  BY <1>1, <1>3 DEF Range
<1> QED
  BY <1>4, <1>10, <1>12, <1>13, <1>14

LEMMA NextArrives ==
    ASSUME NumbersSuffice, PacketInv, DepacketizerInv, NEW p, Arrives(p),
           p.marker \in {"Inter", "Final"}, push_to_partial(p)
    PROVE  Unpacks
<1> DEFINE l == Len(arrived)
<1>1. /\ l \in Nat /\ DOMAIN arrived' = 1..(l + 1) /\ Len(arrived') = l + 1 /\ frames' = frames
      /\ arrived'[l + 1] = p /\ p \in Made /\ p \in Packets
      /\ Range(arrived') = Range(arrived) \cup {p} /\ Range(arrived) \subseteq Made
  <2>1. l \in Nat /\ DOMAIN arrived = 1..l /\ DOMAIN arrived' = 1..(l + 1)
        /\ Len(arrived') = l + 1 /\ frames' = frames
        /\ arrived'[l + 1] = p /\ p \in Made /\ p \in Packets
        /\ \A i \in 1..l : arrived'[i] = arrived[i]
    BY Arrival, MadeIs
  <2>2. 1..(l + 1) = (1..l) \cup {l + 1}
    BY <2>1
  <2> QED
    BY <2>1, <2>2 DEF Range, Made, Gone
<1>2. \A f \in DOMAIN frames : WholeFrame(f)' = WholeFrame(f)
  BY <1>1 DEF WholeFrame
<1>3. GatheredInv /\ DeliveredInv /\ RunInv /\ FramesThatCameAreDelivered /\ PacketTypes
  BY DEF DepacketizerInv, PacketInv
<1> HIDE DEF l
<1>4. CASE /\ Gathering(p) /\ p.marker = "Final" /\ finalize(Grown(p), p.sequence)
  <2>1. PICK f \in DOMAIN frames :
           /\ Gathers(partial, f, Range(arrived))
           /\ \A i \in DOMAIN delivered : delivered[i] # WholeFrame(f)
    BY <1>3, <1>4 DEF GatheredInv, Gathering
  <2>2. p.payload.frame = f /\ Gathers(Grown(p), f, Range(arrived'))
    BY <1>1, <1>4, <2>1, Grows DEF Gathering
  <2>3. p \in Range(arrived') /\ Range(arrived') \subseteq Made
    BY <1>1
  <2>4. /\ partial' = NoFrame
        /\ delivered' = delivered \/ delivered' = Append(delivered, WholeFrame(f))
        /\ (\A m \in 1..frames[f] : \E q \in Range(arrived') :
               q.payload = Payload(f, m) /\ q.sequence \in DOMAIN Grown(p).payloads) =>
                  delivered' = Append(delivered, WholeFrame(f))
        /\ \E q \in Range(arrived') : q.payload = Payload(f, 1)
        /\ frames[f] >= 1
    BY <1>4, <2>2, <2>3, Finalized
  <2>5. DeliveredInv' /\ delivered' \in Seq(Seq(Payloads))
    <3>1. CASE delivered' = delivered
      BY <1>3, <3>1, NothingMore
    <3>2. CASE delivered' = Append(delivered, WholeFrame(f))
      BY <1>1, <1>3, <2>1, <2>4, <3>2, OneMore
    <3> QED
      BY <2>4, <3>1, <3>2
  <2>6. GatheredInv'
    BY <2>4 DEF GatheredInv
  <2>7. RunInv'
    <3>1. ASSUME NEW i \in 1..(l + 1), Run(i)' PROVE FALSE
      BY <1>4, <3>1, RunsOn DEF l
    <3> QED
      BY <1>1, <3>1 DEF RunInv
  <2>8. delivered \in Seq(Seq(Payloads)) /\ WholeFrame(f) \in Seq(Payloads)
    BY <1>3, WholeFrames DEF PacketTypes
  <2>9. /\ \A d \in DOMAIN delivered : d \in DOMAIN delivered' /\ delivered'[d] = delivered[d]
        /\ delivered' = Append(delivered, WholeFrame(f)) =>
              \E d \in DOMAIN delivered' : delivered'[d] = WholeFrame(f)
    <3> DEFINE w == WholeFrame(f)
    <3>1. w \in Seq(Payloads) /\ (delivered' = delivered \/ delivered' = Append(delivered, w))
      BY <2>4, <2>8
    <3> HIDE DEF w
    <3>2. Len(delivered) + 1 \in DOMAIN Append(delivered, w)
          /\ Append(delivered, w)[Len(delivered) + 1] = w
          /\ \A d \in DOMAIN delivered :
                d \in DOMAIN Append(delivered, w) /\ Append(delivered, w)[d] = delivered[d]
      BY <2>8, <3>1
    <3>3. /\ \A d \in DOMAIN delivered : d \in DOMAIN delivered' /\ delivered'[d] = delivered[d]
          /\ delivered' = Append(delivered, w) => \E d \in DOMAIN delivered' : delivered'[d] = w
      BY <3>1, <3>2
    <3> QED
      BY <3>3 DEF w
  <2>10. ASSUME NEW g \in DOMAIN frames, NEW i \in 1..(l + 1), Came(g, i)',
                frames[g] \in 1..MaxBufferPackets, i + frames[g] - 1 = l + 1
         PROVE  \E d \in DOMAIN delivered' : delivered'[d] = WholeFrame(g)
    <3>1. /\ p.payload.frame = g
          /\ \A m \in 1..frames[g] : \E q \in Range(arrived') :
                q.payload = Payload(g, m) /\ q.sequence \in DOMAIN Grown(p).payloads
      BY <1>3, <1>4, <2>10, LastOfRun DEF l
    <3> QED
      BY <2>2, <2>4, <2>9, <3>1
  <2>11. FramesThatCameAreDelivered'
    BY <1>3, <2>9, <2>10, CameBefore DEF l
  <2> QED
    BY <2>4, <2>5, <2>6, <2>7, <2>11 DEF Unpacks, DepacketizerInv
<1>5. CASE p.marker = "Inter" /\ delivered' = delivered
           /\ (partial' = NoFrame \/ (Gathering(p) /\ partial' = Grown(p)))
  <2>1. DeliveredInv' /\ delivered' \in Seq(Seq(Payloads))
    BY <1>3, <1>5, NothingMore
  <2>2. partial' \in Partials \cup {NoFrame}
    BY <1>1, <1>3, <1>5, GrownIs DEF Gathering
  <2>3. GatheredInv'
    <3>1. CASE partial' = NoFrame
      BY <3>1 DEF GatheredInv
    <3>2. CASE Gathering(p) /\ partial' = Grown(p)
      <4>1. PICK f \in DOMAIN frames :
               /\ Gathers(partial, f, Range(arrived))
               /\ \A i \in DOMAIN delivered : delivered[i] # WholeFrame(f)
        BY <1>3, <3>2 DEF GatheredInv, Gathering
      <4>2. Gathers(Grown(p), f, Range(arrived'))
        BY <1>1, <3>2, <4>1, Grows DEF Gathering
      <4> QED
        BY <1>1, <1>2, <1>5, <3>2, <4>1, <4>2 DEF GatheredInv
    <3> QED
      BY <1>5, <3>1, <3>2
  <2>4. RunInv'
    <3> SUFFICES ASSUME NEW i \in 1..(l + 1), Run(i)'
                 PROVE  /\ partial' # NoFrame
                        /\ partial'.frame_number = arrived'[i].frame_number
                        /\ partial'.start_sequence = arrived'[i].sequence
                        /\ DOMAIN partial'.payloads = {arrived'[k].sequence : k \in i..(l + 1)}
      BY <1>1 DEF RunInv
    <3> QED
      BY <1>3, <1>5, NextOfRun DEF l
  <2>5. ASSUME NEW g \in DOMAIN frames, NEW i \in 1..(l + 1), Came(g, i)',
               frames[g] \in 1..MaxBufferPackets, i + frames[g] - 1 = l + 1
        PROVE  FALSE
    <3>1. l + 1 \in i..(i + frames[g] - 1)
      BY <1>1, <2>5
    <3>2. p.payload.frame = g /\ (frames[g] > 1 => p.marker = "Final")
      BY <1>1, <2>5, <3>1 DEF Came
    <3>3. frames[g] # 1 /\ frames[g] \in Nat /\ frames[g] >= 1
      BY <1>1, <1>5, <3>2, MadeIs
    <3> QED
      BY <1>5, <3>2, <3>3
  <2>6. FramesThatCameAreDelivered'
    BY <1>3, <1>5, <2>5, CameBefore DEF l
  <2> QED
    BY <2>1, <2>2, <2>3, <2>4, <2>6 DEF Unpacks, DepacketizerInv
<1>6. CASE p.marker = "Final" /\ ~Gathering(p) /\ partial' = NoFrame /\ delivered' = delivered
  <2>1. DeliveredInv' /\ delivered' \in Seq(Seq(Payloads))
    BY <1>3, <1>6, NothingMore
  <2>2. GatheredInv'
    BY <1>6 DEF GatheredInv
  <2>3. RunInv'
    <3>1. ASSUME NEW i \in 1..(l + 1), Run(i)' PROVE FALSE
      BY <1>6, <3>1, RunsOn DEF l
    <3> QED
      BY <1>1, <3>1 DEF RunInv
  <2>4. ASSUME NEW g \in DOMAIN frames, NEW i \in 1..(l + 1), Came(g, i)',
               frames[g] \in 1..MaxBufferPackets, i + frames[g] - 1 = l + 1
        PROVE  FALSE
    BY <1>3, <1>6, <2>4, LastOfRun DEF l
  <2>5. FramesThatCameAreDelivered'
    BY <1>3, <1>6, <2>4, CameBefore DEF l
  <2> QED
    BY <1>6, <2>1, <2>2, <2>3, <2>5 DEF Unpacks, DepacketizerInv
<1>7. p.marker = "Final" \/ p.marker = "Inter"
  OBVIOUS
<1>8. CASE ~Gathering(p) /\ partial' = NoFrame /\ delivered' = delivered
  BY <1>5, <1>6, <1>7, <1>8
<1>9. CASE Gathering(p) /\ p.marker # "Final" /\ partial' = Grown(p) /\ delivered' = delivered
  BY <1>5, <1>7, <1>9
<1> QED
  BY <1>4, <1>8, <1>9, PushCases

-----------------------------------------------------------------------------
(* The steps *)

LEMMA FramesInit == ASSUME PacketsInit PROVE PacketInv /\ DepacketizerInv
<1>1. /\ frames = <<>> /\ packets_out = <<>> /\ send_rx = <<>> /\ send_queue = <<>>
      /\ buffered_amount = 0 /\ failures = 0 /\ dc_events = 0 /\ dc_buffer = {} /\ air = {}
      /\ arrived = <<>> /\ partial = NoFrame /\ delivered = <<>>
      /\ sequence \in Numbers /\ frame_number \in Numbers
  BY ModulusAssumption DEF PacketsInit, Numbers
<1>2. PacketTypes
  BY <1>1, SizesAssumption DEF PacketTypes
<1>3. Line = <<>> /\ Gone = {} /\ Batched = {} /\ Made = {}
  BY <1>1 DEF Line, Gone, Batched, Made, Range
<1>4. NumbersInv /\ PlaceInv
  BY <1>1, <1>3 DEF NumbersInv, PlaceInv, OnePlace, BatchesFollow, Range
<1>5. GatheredInv /\ DeliveredInv /\ RunInv /\ FramesThatCameAreDelivered
  BY <1>1 DEF GatheredInv, DeliveredInv, RunInv, FramesThatCameAreDelivered
<1> QED
  BY <1>2, <1>4, <1>5 DEF PacketInv, DepacketizerInv

LEMMA FramesStep ==
    ASSUME NumbersSuffice, PacketInv, DepacketizerInv, [PacketsNext]_packetVars
    PROVE  PacketInv' /\ DepacketizerInv'
<1>1. ASSUME PacketInv', UNCHANGED <<frames, arrived, partial, delivered>>
      PROVE  PacketInv' /\ DepacketizerInv'
  BY <1>1, NothingCame DEF PacketInv, PacketTypes
<1>2. CASE PushFrame
  <2>1. /\ PacketInv' /\ UNCHANGED <<arrived, partial, delivered>>
        /\ DOMAIN frames \subseteq DOMAIN frames' /\ \A g \in DOMAIN frames : frames'[g] = frames[g]
    BY <1>2, PushInv
  <2> QED
    BY <2>1, NothingCame DEF PacketInv, PacketTypes
<1>3. CASE try_send_data_track_packets
  BY <1>1, <1>3, RoomInv DEF try_send_data_track_packets, packetizer, depacketizer
<1>4. CASE handle_enqueue_for_send \/ handle_bytes_sent
  <2>1. PacketInv'
    BY <1>4, SenderDrains, DrainedInv DEF PacketInv
  <2> QED
    BY <1>1, <1>4, <2>1 DEF handle_enqueue_for_send, handle_bytes_sent, packetizer, depacketizer
<1>5. CASE Transmitted
  BY <1>1, <1>5, TransmittedInv DEF Transmitted, packetizer, depacketizer
<1>6. CASE Lose
  BY <1>1, <1>6, LoseInv DEF Lose, packetizer, depacketizer
<1>7. CASE Arrive
  <2>1. PICK p \in air :
           /\ air' = air \ {p}
           /\ arrived' = Append(arrived, p)
           /\ CASE p.marker = "Single" -> frame_from_single(p)
                [] p.marker = "Start" -> begin_partial(p)
                [] p.marker \in {"Inter", "Final"} -> push_to_partial(p)
           /\ UNCHANGED <<packetizer, packets_out, send_rx, sender, dc_events>>
    BY <1>7 DEF Arrive
  <2>2. Arrives(p)
    BY <2>1 DEF Arrives
  <2>3. p.marker \in {"Single", "Start", "Inter", "Final"}
    BY LineTypes DEF PacketInv, Packets, Gone, PacketTypes
  <2>4. Unpacks
    <3>1. CASE p.marker = "Single"
      BY <2>1, <2>2, <3>1, SingleArrives
    <3>2. CASE p.marker = "Start"
      BY <2>1, <2>2, <3>2, StartArrives
    <3>3. CASE p.marker \in {"Inter", "Final"}
      BY <2>1, <2>2, <3>3, NextArrives
    <3> QED
      BY <2>3, <3>1, <3>2, <3>3
  <2>5. PacketInv'
    BY <2>1, <2>4, ArriveInv DEF Unpacks
  <2> QED
    BY <2>4, <2>5 DEF Unpacks
<1>8. CASE UNCHANGED packetVars
  <2>1. UNCHANGED <<packetizer, packets_out, send_rx, sender, dc_events, air, depacketizer>>
    BY <1>8 DEF packetVars
  <2>2. PacketTypes' /\ Line' = Line /\ Gone' = Gone /\ Batched' = Batched
    BY <2>1 DEF PacketInv, PacketTypes, packetizer, sender, depacketizer, Line, Gone, Batched
  <2>3. Made' = Made
    BY <2>2 DEF Made
  <2>4. NumbersInv' /\ PlaceInv'
    BY <2>1, <2>2, <2>3 DEF PacketInv, NumbersInv, Genuine, InStep, PlaceInv, OnePlace,
       BatchesFollow, packetizer, sender, depacketizer
  <2> QED
    BY <1>1, <2>1, <2>2, <2>4 DEF PacketInv, packetizer, depacketizer
<1> QED
  BY <1>2, <1>3, <1>4, <1>5, <1>6, <1>7, <1>8 DEF PacketsNext

\* The invariants of the way of a packet and of the depacketizer.
THEOREM FramesInv == NumbersSuffice /\ PacketsSafe => [](PacketInv /\ DepacketizerInv)
<1> SUFFICES ASSUME NumbersSuffice PROVE PacketsSafe => [](PacketInv /\ DepacketizerInv)
  OBVIOUS
<1>1. PacketsInit => PacketInv /\ DepacketizerInv
  BY FramesInit
<1>2. PacketInv /\ DepacketizerInv /\ [PacketsNext]_packetVars
        => (PacketInv /\ DepacketizerInv)'
  BY FramesStep
<1> QED
  BY <1>1, <1>2, PTL DEF PacketsSafe

\* Every frame that comes out of a subscriber's depacketizer is one that the publisher
\* pushed, whole and in its order, and comes out once: push_to_partial and finalize.
THEOREM FramesComeOutWholeAlways ==
    NumbersSuffice /\ PacketsSafe => []FramesComeOutWhole
<1>1. DepacketizerInv => FramesComeOutWhole
  BY DEF DepacketizerInv, DeliveredInv, FramesComeOutWhole
<1> QED
  BY <1>1, FramesInv, PTL

\* A frame that fits into the buffer and whose packets came together, the first one first
\* and the last one last, is delivered: push_to_partial and finalize.
THEOREM FramesThatCameAlways ==
    NumbersSuffice /\ PacketsSafe => []FramesThatCameAreDelivered
<1>1. DepacketizerInv => FramesThatCameAreDelivered
  BY DEF DepacketizerInv
<1> QED
  BY <1>1, FramesInv, PTL

=============================================================================
