------------------------- MODULE RemoteDataTracksProofs -------------------------
(***************************************************************************)
(* Proofs about RemoteDataTracks, for any number of tracks, handles,       *)
(* callers and reconnects, and channels of any capacity: once every event  *)
(* is handled, the manager and the server agree on the subscriptions.      *)
(*                                                                         *)
(* Two chains of channels link the two: the server's events come through   *)
(* answers and event_in, the manager's requests go through output and      *)
(* event_out.  The invariant says, for each track, what the last event of  *)
(* a kind in a chain is, or that there is none and what holds then.        *)
(***************************************************************************)
EXTENDS RemoteDataTracks, FiniteSetTheorems, TLAPS

-----------------------------------------------------------------------------
(* The channels *)

LEMMA AppendSet ==
    ASSUME NEW S, NEW s \in Seq(S), NEW e \in S
    PROVE  /\ Append(s, e) \in Seq(S) /\ Len(Append(s, e)) = Len(s) + 1
           /\ ToSet(Append(s, e)) = ToSet(s) \cup {e}
<1>1. Append(s, e) \in Seq(S) /\ Len(Append(s, e)) = Len(s) + 1
  OBVIOUS
<1>2. \A i \in 1..Len(s) : Append(s, e)[i] = s[i]
  OBVIOUS
<1>3. Append(s, e)[Len(s) + 1] = e
  OBVIOUS
<1>4. /\ DOMAIN s = 1..Len(s) /\ DOMAIN Append(s, e) = 1..(Len(s) + 1)
      /\ Len(s) \in Nat
  BY <1>1
<1>5. 1..(Len(s) + 1) = 1..Len(s) \cup {Len(s) + 1}
  BY <1>4
<1> QED
  <2>1. ToSet(Append(s, e)) = {Append(s, e)[i] : i \in 1..Len(s) \cup {Len(s) + 1}}
    BY <1>4, <1>5 DEF ToSet
  <2>2. ToSet(s) = {s[i] : i \in 1..Len(s)}
    BY <1>4 DEF ToSet
  <2> QED
    BY <1>1, <1>2, <1>3, <2>1, <2>2

LEMMA TailSet ==
    ASSUME NEW S, NEW s \in Seq(S), s # <<>>
    PROVE  /\ Head(s) \in S
           /\ Tail(s) \in Seq(S) /\ Len(Tail(s)) = Len(s) - 1
           /\ ToSet(s) = {Head(s)} \cup ToSet(Tail(s))
<1>1. /\ Head(s) \in S
      /\ Tail(s) \in Seq(S) /\ Len(Tail(s)) = Len(s) - 1
  OBVIOUS
<1>2. \A i \in 1..Len(s) : i = 1 \/ (i - 1 \in 1..Len(Tail(s)) /\ s[i] = Tail(s)[i - 1])
  OBVIOUS
<1>3. \A i \in 1..Len(Tail(s)) : i + 1 \in 1..Len(s) /\ Tail(s)[i] = s[i + 1]
  OBVIOUS
<1>4. 1 \in 1..Len(s) /\ Head(s) = s[1]
  OBVIOUS
<1>5. DOMAIN s = 1..Len(s) /\ DOMAIN Tail(s) = 1..Len(Tail(s))
  BY <1>1
<1>6. ToSet(s) = {s[i] : i \in 1..Len(s)}
  BY <1>5 DEF ToSet
<1>7. ToSet(Tail(s)) = {Tail(s)[i] : i \in 1..Len(Tail(s))}
  BY <1>5 DEF ToSet
<1>8. ToSet(s) \subseteq {Head(s)} \cup ToSet(Tail(s))
  BY <1>2, <1>4, <1>6, <1>7, ZenonT(40)
<1>9. {Head(s)} \cup ToSet(Tail(s)) \subseteq ToSet(s)
  BY <1>3, <1>4, <1>6, <1>7
<1> QED
  BY <1>1, <1>8, <1>9

LEMMA OneSet ==
    ASSUME NEW S, NEW e \in S
    PROVE  /\ <<e>> \in Seq(S) /\ ToSet(<<e>>) = {e}
           /\ <<>> \in Seq(S) /\ ToSet(<<>>) = {}
BY DEF ToSet

\* What is left of a channel that is cut off.
LEMMA CutSet ==
    ASSUME NEW S, NEW s \in Seq(S), NEW k \in 0..Len(s)
    PROVE  /\ SubSeq(s, 1, k) \in Seq(S)
           /\ ToSet(SubSeq(s, 1, k)) \subseteq ToSet(s)
<1>1. /\ SubSeq(s, 1, k) \in Seq(S) /\ Len(SubSeq(s, 1, k)) = k
      /\ \A i \in 1..k : SubSeq(s, 1, k)[i] = s[i] /\ i \in 1..Len(s)
  OBVIOUS
<1>2. DOMAIN SubSeq(s, 1, k) = 1..k /\ DOMAIN s = 1..Len(s)
  BY <1>1
<1> QED
  BY <1>1, <1>2 DEF ToSet

\* A finite set of events becomes a sequence of them all.
LEMMA SetSent ==
    ASSUME NEW S, NEW T \in SUBSET S, IsFiniteSet(T)
    PROVE  SetToSeq(T) \in Seq(S) /\ ToSet(SetToSeq(T)) = T
<1> DEFINE n == Cardinality(T)
<1>1. n \in Nat /\ ExistsBijection(1..n, T)
  BY FS_CardinalityType
<1>2. \E f \in [1..n -> T] : IsInjective(f)
  BY <1>1 DEF ExistsBijection, Bijection, Injection, IsInjective
<1>3. SetToSeq(T) \in [1..n -> T] /\ IsInjective(SetToSeq(T))
  BY <1>2 DEF SetToSeq
<1>4. IsFiniteSet(1..n) /\ Cardinality(1..n) = n
  BY <1>1, FS_Interval
<1>5. SetToSeq(T) \in Injection(1..n, T)
  BY <1>3 DEF Injection, IsInjective
<1>6. SetToSeq(T) \in Surjection(1..n, T)
  BY <1>4, <1>5, FS_Injection
<1>7. ToSet(SetToSeq(T)) = T
  BY <1>3, <1>6 DEF ToSet, Surjection
<1>8. SetToSeq(T) \in Seq(S)
  BY <1>1, <1>3
<1> QED
  BY <1>7, <1>8

InputOK == event_in \in Seq(Inputs) /\ Len(event_in) <= EVENT_BUFFER_COUNT

\* What try_send leaves of the channel.
LEMMA TrySends ==
    ASSUME InputOK, lost \in BOOLEAN, NEW event \in Inputs, TrySend(event)
    PROVE  InputOK' /\ lost' \in BOOLEAN
BY AppendSet, BufferAssumption DEF InputOK, TrySend, Full

LEMMA Sends ==
    ASSUME InputOK, NEW event \in Inputs, Send(event)
    PROVE  InputOK' /\ UNCHANGED lost
BY AppendSet, BufferAssumption DEF InputOK, Send, Full

\* What the manager finds, and what it leaves in the channel.
LEMMA TakesOne ==
    ASSUME InputOK, NEW type, Takes(type)
    PROVE  /\ InputOK' /\ Head(event_in) \in Inputs /\ Head(event_in).type = type
           /\ mgr = "running" /\ output = <<>> /\ UNCHANGED <<event_out, lost>>
           /\ ToSet(event_in) = {Head(event_in)} \cup ToSet(event_in')
BY TailSet, BufferAssumption DEF InputOK, Takes

\* What an input is about.
LEMMA InputsAre ==
    ASSUME NEW e \in Inputs
    PROVE  /\ e.type = "SubscribeRequest" => e.by \in Callers /\ e.sid \in Sids
           /\ e.type = "UnsubscribeRequest" => e.sid \in Sids
           /\ e.type = "SfuPublicationUpdates" => e.tracks \in SUBSET Sids
           /\ e.type = "SfuSubscriberHandles" => e.handle \in Handles /\ e.sid \in Sids
BY DEF Inputs

LEMMA InputsMade ==
    /\ \A c \in Callers, s \in Sids : SubscribeRequest(c, s) \in Inputs
    /\ \A s \in Sids : Event("UnsubscribeRequest", s) \in Inputs
    /\ \A tracks \in SUBSET Sids : PublicationUpdate(tracks) \in Inputs
    /\ \A h \in Handles, s \in Sids : SubscriberHandle(h, s) \in Inputs
    /\ \A type \in {"ResendSubscriptionUpdates", "Shutdown"} : Event(type, NoOne) \in Inputs
BY DEF Inputs, Event, SubscribeRequest, PublicationUpdate, SubscriberHandle

LEMMA OutputsMade ==
    /\ \A s \in Sids, type \in {"Subscribe", "Unsubscribe", "TrackPublished",
                                "TrackUnpublished"} : Event(type, s) \in Outputs
    /\ \A e \in Outputs : e.sid \in Sids
BY DEF Outputs, Event

\* The output of a handler that has an event for each of some tracks.
LEMMA OutputOf ==
    ASSUME NEW type \in {"Subscribe", "Unsubscribe", "TrackPublished", "TrackUnpublished"},
           NEW tracks \in SUBSET Sids
    PROVE  LET events == {Event(type, s) : s \in tracks}
           IN  /\ SetToSeq(events) \in Seq(Outputs)
               /\ ToSet(SetToSeq(events)) = events
<1>1. IsFiniteSet(tracks)
  BY FiniteAssumption, FS_Subset
<1> DEFINE events == {Event(type, s) : s \in tracks}
<1>2. IsFiniteSet(events)
  <2> DEFINE f == [s \in tracks |-> Event(type, s)]
  <2>1. f \in Surjection(tracks, events)
    BY DEF Surjection
  <2> QED
    BY <1>1, <2>1, FS_Surjection
<1>3. events \in SUBSET Outputs
  BY OutputsMade
<1> QED
  BY <1>2, <1>3, SetSent

-----------------------------------------------------------------------------
(* Types *)

\* A call that was made is about a track: what it sends is an input.
CallsInv == \A c \in Callers : call[c] # "idle" => target[c] \in Sids

Types == TypeOK /\ CallsInv

LEMMA SomeCallsEnd ==
    ASSUME Types, NEW value \in {"waiting", "streaming", "over"},
           NEW who \in SUBSET {c \in Callers : call[c] # "idle"},
           call' = [c \in Callers |-> IF c \in who THEN value ELSE call[c]], target' = target
    PROVE  /\ call' \in [Callers -> {"idle", "sending", "waiting", "streaming", "over"}]
           /\ CallsInv'
BY DEF Types, TypeOK, CallsInv

LEMMA TypeStep == Types /\ [Next]_vars => Types'
<1> SUFFICES ASSUME Types, [Next]_vars PROVE Types'
  OBVIOUS
<1> USE DEF Types, TypeOK, InputOK, CallsInv, mgrVars, ctlVars, chanVars, appVars, roomVars,
        serverVars
<1>1. ASSUME NEW c \in Callers, NEW s \in Sids, subscribe(c, s) PROVE Types'
  BY <1>1 DEF subscribe
<1>2. ASSUME NEW c \in Callers, RequestSent(c) PROVE Types'
  BY <1>2, Sends, InputsMade DEF RequestSent
<1>3. ASSUME NEW c \in Callers, SubscribeTimeout(c) PROVE Types'
  BY <1>3 DEF SubscribeTimeout
<1>4. ASSUME NEW c \in Callers, DropStream(c) PROVE Types'
  BY <1>4 DEF DropStream
<1>5. ASSUME NEW s \in Sids, TaskSeesUnpublished(s) PROVE Types'
  BY <1>5 DEF TaskSeesUnpublished, StreamsEnd, Open
<1>6. ASSUME NEW s \in Sids, TaskSeesNoReceivers(s) PROVE Types'
  BY <1>6 DEF TaskSeesNoReceivers
<1>7. ASSUME NEW s \in Sids, TaskEnds(s) PROVE Types'
  BY <1>7, Sends, InputsMade DEF TaskEnds, StreamsEnd, Open
<1>8. ASSUME NEW s \in Sids, Publish(s) PROVE Types'
  BY <1>8, AppendSet, InputsMade DEF Publish
<1>9. ASSUME NEW s \in Sids, Withdraw(s) PROVE Types'
  BY <1>9, AppendSet, InputsMade DEF Withdraw
<1>10. CASE on_subscribe_request
  <2> DEFINE c == Head(event_in).by
             s == Head(event_in).sid
             asking == {c} \cap {d \in Callers : call[d] = "waiting"}
  <2>1. /\ InputOK' /\ mgr = "running" /\ UNCHANGED <<event_out, lost>>
        /\ c \in Callers /\ s \in Sids
    BY <1>10, TakesOne, InputsAre DEF on_subscribe_request
  <2>2. UNCHANGED <<sub_handle, sub_handles, is_published, mgr, todo, task, target,
                    offered, roomVars, answers, serverVars>>
    BY <1>10 DEF on_subscribe_request
  <2>3. output' = <<>> \/ output' = <<Subscribe(s)>>
    BY <1>10 DEF on_subscribe_request, Takes
  <2>4. output' \in Seq(Outputs)
    <3>1. Subscribe(s) \in Outputs
      BY <2>1, OutputsMade DEF Subscribe
    <3> QED
      <4>1. <<>> \in Seq(Outputs) /\ <<Subscribe(s)>> \in Seq(Outputs)
        BY <3>1, OneSet
      <4> HIDE DEF s
      <4> QED
        BY <2>3, <4>1
  <2>5. /\ subscription' \in [Sids -> {"unknown", "None", "Pending", "Active"}]
        /\ result_txs' \in [Sids -> SUBSET Callers]
    <3>1. subscription' = subscription \/ subscription' = [subscription EXCEPT ![s] = "Pending"]
      BY <1>10 DEF on_subscribe_request
    <3>2. \/ result_txs' = result_txs \/ result_txs' = [result_txs EXCEPT ![s] = {c}]
          \/ result_txs' = [result_txs EXCEPT ![s] = @ \cup {c}]
      BY <1>10 DEF on_subscribe_request
    <3> HIDE DEF c, s
    <3>3. subscription' \in [Sids -> {"unknown", "None", "Pending", "Active"}]
      BY <2>1, <3>1
    <3>4. result_txs' \in [Sids -> SUBSET Callers]
      <4>1. CASE result_txs' = [result_txs EXCEPT ![s] = @ \cup {c}]
        <5>1. result_txs[s] \cup {c} \in SUBSET Callers
          BY <2>1
        <5> QED
          BY <2>1, <4>1, <5>1
      <4>2. CASE result_txs' = [result_txs EXCEPT ![s] = {c}]
        BY <2>1, <4>2
      <4> QED
        BY <3>2, <4>1, <4>2
    <3> QED
      BY <3>3, <3>4
  <2>6. \/ call' = call
        \/ \E value \in {"over", "streaming"} :
              call' = [d \in Callers |-> IF d \in asking THEN value ELSE call[d]]
    BY <1>10 DEF on_subscribe_request, Answer
  <2>7. /\ call' \in [Callers -> {"idle", "sending", "waiting", "streaming", "over"}]
        /\ CallsInv'
    BY <2>2, <2>6, SomeCallsEnd
  <2> QED
    BY <2>1, <2>2, <2>4, <2>5, <2>7
<1>11. CASE on_unsubscribe_request
  <2> DEFINE s == Head(event_in).sid
  <2>1. /\ InputOK' /\ mgr = "running" /\ UNCHANGED <<event_out, lost>> /\ s \in Sids
    BY <1>11, TakesOne, InputsAre DEF on_unsubscribe_request
  <2>2. output' = output \/ output' = <<Unsubscribe(s)>>
    BY <1>11 DEF on_unsubscribe_request
  <2>3. output' \in Seq(Outputs)
    <3>1. Unsubscribe(s) \in Outputs
      BY <2>1, OutputsMade DEF Unsubscribe
    <3> QED
      BY <2>2, <3>1, OneSet, ZenonT(40)
  <2> QED
    <3>1. /\ subscription' = subscription \/ subscription' = [subscription EXCEPT ![s] = "None"]
          /\ sub_handle' = sub_handle \/ sub_handle' = [sub_handle EXCEPT ![s] = NoOne]
          /\ \/ sub_handles' = sub_handles
             \/ sub_handles' = [sub_handles EXCEPT ![sub_handle[s]] = NoOne]
          /\ call' = call \/ call' = StreamsEnd(s)
          /\ UNCHANGED <<result_txs, is_published, mgr, todo, task, target, offered,
                         roomVars, answers, serverVars>>
      BY <1>11 DEF on_unsubscribe_request
    <3>2. call' \in [Callers -> {"idle", "sending", "waiting", "streaming", "over"}] /\ CallsInv'
      BY <3>1 DEF StreamsEnd, Open
    <3> HIDE DEF s
    <3>3. subscription' \in [Sids -> {"unknown", "None", "Pending", "Active"}]
      BY <2>1, <3>1
    <3>4. sub_handle' \in [Sids -> Handles \cup {NoOne}]
      BY <2>1, <3>1
    <3>5. sub_handles' \in [Handles -> Sids \cup {NoOne}]
      BY <2>1, <3>1
    <3> QED
      BY <2>1, <2>3, <3>1, <3>2, <3>3, <3>4, <3>5
<1>12. CASE on_sfu_publication_updates
  <2> DEFINE tracks == Head(event_in).tracks
             new == tracks \ Known
             gone == Known \ tracks
             first == {Event("TrackPublished", s) : s \in new}
             second == {Event("TrackUnpublished", s) : s \in gone}
  <2>1. /\ InputOK' /\ mgr = "running" /\ UNCHANGED <<event_out, lost>> /\ tracks \subseteq Sids
    BY <1>12, TakesOne, InputsAre DEF on_sfu_publication_updates
  <2>2. output' = SetToSeq(first) \o SetToSeq(second)
    BY <1>12 DEF on_sfu_publication_updates
  <2>3. SetToSeq(first) \in Seq(Outputs) /\ SetToSeq(second) \in Seq(Outputs)
    BY <2>1, OutputOf DEF Known
  <2>4. output' \in Seq(Outputs)
    <3> HIDE DEF first, second
    <3> QED
      BY <2>2, <2>3
  <2>5. /\ subscription' \in [Sids -> {"unknown", "None", "Pending", "Active"}]
        /\ sub_handle' \in [Sids -> Handles \cup {NoOne}]
        /\ sub_handles' \in [Handles -> Sids \cup {NoOne}]
        /\ result_txs' \in [Sids -> SUBSET Callers]
    BY <1>12 DEF on_sfu_publication_updates
  <2>6. is_published' \in [Sids -> BOOLEAN]
    BY <1>12 DEF on_sfu_publication_updates
  <2>7. \E who \in SUBSET {c \in Callers : call[c] # "idle"} :
           call' = [c \in Callers |-> IF c \in who THEN "over" ELSE call[c]]
    <3> DEFINE active == {s \in gone : subscription[s] = "Active"}
               disappointed == UNION {Waiting(s) : s \in gone}
               silent == UNION {Open(s) : s \in {t \in active : task[t] = "ended"}}
    <3>1. call' = [c \in Callers |-> IF c \in disappointed \cup silent THEN "over" ELSE call[c]]
      BY <1>12 DEF on_sfu_publication_updates
    <3>2. \A s \in Sids : /\ Waiting(s) \subseteq {c \in Callers : call[c] # "idle"}
                          /\ Open(s) \subseteq {c \in Callers : call[c] # "idle"}
      BY DEF Waiting, Open
    <3>3. disappointed \cup silent \subseteq {c \in Callers : call[c] # "idle"}
      BY <3>2 DEF Known
    <3> QED
      BY <3>1, <3>3
  <2>8. UNCHANGED <<mgr, todo, task, target, offered, roomVars, answers, serverVars>>
    BY <1>12 DEF on_sfu_publication_updates
  <2>9. /\ call' \in [Callers -> {"idle", "sending", "waiting", "streaming", "over"}]
        /\ CallsInv'
    BY <2>7, <2>8, SomeCallsEnd
  <2> QED
    BY <2>1, <2>4, <2>5, <2>6, <2>8, <2>9
<1>13. CASE on_sfu_subscriber_handles
  <2> DEFINE h == Head(event_in).handle
             s == Head(event_in).sid
  <2>1. /\ InputOK' /\ mgr = "running" /\ UNCHANGED <<event_out, lost>>
        /\ h \in Handles /\ s \in Sids
    BY <1>13, TakesOne, InputsAre DEF on_sfu_subscriber_handles
  <2>2. UNCHANGED <<is_published, ctlVars, target, offered, roomVars, answers, serverVars>>
    BY <1>13 DEF on_sfu_subscriber_handles
  <2>3. CASE HandleChanged(h, s)
    BY <2>1, <2>2, <2>3 DEF HandleChanged
  <2>4. CASE HandleAssigned(h, s)
    <3>1. call' \in [Callers -> {"idle", "sending", "waiting", "streaming", "over"}] /\ CallsInv'
      BY <2>2, <2>4, SomeCallsEnd DEF HandleAssigned, Answer, Waiting
    <3> HIDE DEF h, s
    <3> QED
      BY <2>1, <2>2, <2>4, <3>1 DEF HandleAssigned
  <2>5. CASE UNCHANGED <<mgrVars, task, call>>
    BY <2>1, <2>2, <2>5
  <2> QED
    BY <1>13, <2>3, <2>4, <2>5 DEF on_sfu_subscriber_handles
<1>14. CASE on_resend_subscription_updates
  <2>1. output' \in Seq(Outputs)
    BY <1>14, OutputOf DEF on_resend_subscription_updates, Subscribe, Subscribed
  <2> QED
    BY <1>14, <2>1, TakesOne DEF on_resend_subscription_updates
<1>15. CASE OutputSent
  BY <1>15, AppendSet, TailSet, BufferAssumption DEF OutputSent, Full
<1>16. CASE on_shutdown
  BY <1>16, TakesOne DEF on_shutdown, Known
<1>17. CASE ManagerEnds
  BY <1>17, BufferAssumption DEF ManagerEnds, Answer
<1>18. ASSUME NEW s \in Sids, ShutdownTrack(s) PROVE Types'
  BY <1>18 DEF ShutdownTrack, Answer, Waiting
<1>19. ASSUME NEW s \in Sids, TaskJoined(s) PROVE Types'
  BY <1>19 DEF TaskJoined, StreamsEnd, Open
<1>20. CASE ForwardOutput
  <2> DEFINE s == Head(event_out).sid
  <2>1. /\ event_out' \in Seq(Outputs) /\ Len(event_out') <= EVENT_BUFFER_COUNT /\ s \in Sids
    BY <1>20, TailSet, OutputsMade, BufferAssumption DEF ForwardOutput
  <2>2. /\ server' \in [Sids -> Handles \cup {NoOne}] /\ answers' \in Seq(Inputs)
    <3>1. CASE UNCHANGED <<server, answers>>
      BY <3>1
    <3>2. ASSUME NEW b \in BOOLEAN, ServerUpdates(s, b)
          PROVE  server' \in [Sids -> Handles \cup {NoOne}] /\ answers' \in Seq(Inputs)
      <4> HIDE DEF s
      <4> QED
        <5>1. CASE \E h \in Handles : /\ server' = [server EXCEPT ![s] = h]
                                      /\ answers' = Append(answers, SubscriberHandle(h, s))
          <6>1. PICK h \in Handles : /\ server' = [server EXCEPT ![s] = h]
                                     /\ answers' = Append(answers, SubscriberHandle(h, s))
            BY <5>1
          <6>2. SubscriberHandle(h, s) \in Inputs
            BY <2>1, InputsMade
          <6>3. server' \in [Sids -> Handles \cup {NoOne}]
            BY <2>1, <6>1
          <6> QED
            BY <6>1, <6>2, <6>3, AppendSet
        <5>2. CASE /\ server' = [server EXCEPT ![s] = NoOne] \/ server' = server
                   /\ answers' = answers
          BY <2>1, <5>2
        <5> QED
          BY <3>2, <5>1, <5>2 DEF ServerUpdates
    <3> QED
      BY <1>20, <3>1, <3>2 DEF ForwardOutput
  <2>3. offered' \subseteq Sids
    BY <1>20, <2>1 DEF ForwardOutput
  <2> QED
    BY <1>20, <2>1, <2>2, <2>3 DEF ForwardOutput
<1>21. CASE ForwarderEnds
  BY <1>21, TrySends, InputsMade, BufferAssumption DEF ForwarderEnds
<1>22. CASE RoomCloses
  BY <1>22, CutSet DEF RoomCloses
<1>23. CASE ForwardAnswer
  BY <1>23, TrySends, TailSet DEF ForwardAnswer
<1>24. CASE Reconnect
  <2>1. answers' \in Seq(Inputs)
    <3>1. PICK kept \in 0..Len(answers), last \in {<<>>, <<PublicationUpdate(published)>>} :
             answers' = SubSeq(answers, 1, kept) \o last
                          \o <<Event("ResendSubscriptionUpdates", NoOne)>>
      BY <1>24 DEF Reconnect
    <3>2. SubSeq(answers, 1, kept) \in Seq(Inputs)
      BY CutSet
    <3>3. PublicationUpdate(published) \in Inputs
      BY InputsMade
    <3>4. last \in Seq(Inputs)
      <4>1. <<>> \in Seq(Inputs) /\ <<PublicationUpdate(published)>> \in Seq(Inputs)
        BY <3>3, OneSet
      <4> QED
        BY <4>1
    <3>5. <<Event("ResendSubscriptionUpdates", NoOne)>> \in Seq(Inputs)
      BY InputsMade, OneSet
    <3> QED
      BY <3>1, <3>2, <3>4, <3>5
  <2>2. present' \in BOOLEAN /\ published' \subseteq Sids /\ withdrawn' \subseteq Sids
    BY <1>24 DEF Reconnect
  <2>3. reconnects' \in 0..MaxReconnects /\ server' \in [Sids -> Handles \cup {NoOne}]
    BY <1>24, ReconnectsAssumption DEF Reconnect
  <2> QED
    BY <1>24, <2>1, <2>2, <2>3 DEF Reconnect
<1>25. CASE UNCHANGED vars
  BY <1>25 DEF vars
<1> QED
  BY <1>1, <1>2, <1>3, <1>4, <1>5, <1>6, <1>7, <1>8, <1>9, <1>10, <1>11, <1>12, <1>13,
     <1>14, <1>15, <1>16, <1>17, <1>18, <1>19, <1>20, <1>21, <1>22, <1>23, <1>24, <1>25
     DEF Next, ManagerStep

LEMMA TypeInit == Init => Types
<1> SUFFICES ASSUME Init PROVE Types
  OBVIOUS
<1>1. /\ event_in \in Seq(Inputs) /\ event_out \in Seq(Outputs) /\ output \in Seq(Outputs)
      /\ answers \in Seq(Inputs)
      /\ Len(event_in) <= EVENT_BUFFER_COUNT /\ Len(event_out) <= EVENT_BUFFER_COUNT
  BY BufferAssumption DEF Init
<1>2. /\ subscription \in [Sids -> {"unknown", "None", "Pending", "Active"}]
      /\ sub_handle \in [Sids -> Handles \cup {NoOne}]
      /\ sub_handles \in [Handles -> Sids \cup {NoOne}]
      /\ result_txs \in [Sids -> SUBSET Callers]
      /\ is_published \in [Sids -> BOOLEAN]
      /\ task \in [Sids -> {"none", "running", "sending", "ended"}]
      /\ call \in [Callers -> {"idle", "sending", "waiting", "streaming", "over"}]
      /\ target \in [Callers -> Sids \cup {NoOne}]
      /\ server \in [Sids -> Handles \cup {NoOne}]
  BY DEF Init
<1>3. reconnects \in 0..MaxReconnects
  BY ReconnectsAssumption DEF Init
<1> QED
  BY <1>1, <1>2, <1>3 DEF Init, Types, TypeOK, CallsInv

-----------------------------------------------------------------------------
(* What comes last in two channels, one behind the other *)

\* The last of the events of X in a channel is e; in the channel second behind first.
LastIs(q, X, e) ==
    \E i \in DOMAIN q : q[i] = e /\ \A j \in DOMAIN q : i < j /\ q[j] \in X => q[j] = e

NoneOf(q, X) == ToSet(q) \cap X = {}

LastOf(first, second, X, e) == LastIs(second, X, e) \/ (NoneOf(second, X) /\ LastIs(first, X, e))

LEMMA LastMember == ASSUME NEW q, NEW X, NEW e, LastIs(q, X, e) PROVE e \in ToSet(q)
BY DEF LastIs, ToSet

LEMMA LastAppend ==
    ASSUME NEW S, NEW q \in Seq(S), NEW x \in S, NEW X, NEW e
    PROVE  /\ x \notin X /\ LastIs(q, X, e) => LastIs(Append(q, x), X, e)
           /\ LastIs(Append(q, x), X, x)
<1>1. /\ DOMAIN q = 1..Len(q) /\ DOMAIN Append(q, x) = 1..(Len(q) + 1) /\ Len(q) \in Nat
      /\ \A i \in 1..Len(q) : Append(q, x)[i] = q[i]
      /\ Append(q, x)[Len(q) + 1] = x
  OBVIOUS
<1>2. ASSUME x \notin X, LastIs(q, X, e) PROVE LastIs(Append(q, x), X, e)
  <2>1. PICK i \in DOMAIN q : q[i] = e /\ \A j \in DOMAIN q : i < j /\ q[j] \in X => q[j] = e
    BY <1>2 DEF LastIs
  <2>2. i \in DOMAIN Append(q, x) /\ Append(q, x)[i] = e
    BY <1>1, <2>1
  <2>3. ASSUME NEW j \in DOMAIN Append(q, x), i < j, Append(q, x)[j] \in X
        PROVE  Append(q, x)[j] = e
    <3>1. j \in 1..Len(q)
      BY <1>1, <1>2, <2>3
    <3> QED
      BY <1>1, <2>1, <2>3, <3>1
  <2> QED
    BY <2>2, <2>3 DEF LastIs
<1>3. LastIs(Append(q, x), X, x)
  <2>1. Len(q) + 1 \in DOMAIN Append(q, x)
    BY <1>1
  <2>2. \A j \in DOMAIN Append(q, x) : ~(Len(q) + 1 < j)
    BY <1>1
  <2> QED
    BY <1>1, <2>1, <2>2 DEF LastIs
<1> QED
  BY <1>2, <1>3

LEMMA LastTail ==
    ASSUME NEW S, NEW q \in Seq(S), q # <<>>, NEW X, NEW e, LastIs(q, X, e)
    PROVE  LastIs(Tail(q), X, e) \/ (Head(q) = e /\ NoneOf(Tail(q), X))
<1>1. /\ Tail(q) \in Seq(S) /\ Len(Tail(q)) = Len(q) - 1 /\ Head(q) = q[1] /\ Len(q) \in Nat
      /\ \A i \in 1..Len(Tail(q)) : i + 1 \in 1..Len(q) /\ Tail(q)[i] = q[i + 1]
  OBVIOUS
<1>2. DOMAIN q = 1..Len(q) /\ DOMAIN Tail(q) = 1..Len(Tail(q))
  BY <1>1
<1>3. PICK i \in DOMAIN q : q[i] = e /\ \A j \in DOMAIN q : i < j /\ q[j] \in X => q[j] = e
  BY DEF LastIs
<1>4. \A j \in DOMAIN Tail(q) : i < j + 1 /\ Tail(q)[j] \in X => Tail(q)[j] = e
  BY <1>1, <1>2, <1>3
<1>5. CASE i # 1
  <2>1. i - 1 \in DOMAIN Tail(q) /\ Tail(q)[i - 1] = e
    BY <1>1, <1>2, <1>3, <1>5
  <2>2. \A j \in DOMAIN Tail(q) : i - 1 < j => i < j + 1
    BY <1>2
  <2> QED
    BY <1>4, <2>1, <2>2 DEF LastIs
<1>6. CASE i = 1 /\ ~NoneOf(Tail(q), X)
  <2>1. PICK k \in DOMAIN Tail(q) : Tail(q)[k] \in X
    BY <1>6 DEF NoneOf, ToSet
  <2>2. \A j \in DOMAIN Tail(q) : Tail(q)[j] \in X => Tail(q)[j] = e
    BY <1>2, <1>4, <1>6
  <2> QED
    BY <2>1, <2>2 DEF LastIs
<1> QED
  BY <1>1, <1>3, <1>5, <1>6

\* A channel in which X has no other event than e.
LEMMA LastOnly ==
    ASSUME NEW q, NEW X, NEW e, e \in ToSet(q), ToSet(q) \cap X \subseteq {e}
    PROVE  LastIs(q, X, e)
<1>1. PICK i \in DOMAIN q : q[i] = e
  BY DEF ToSet
<1>2. \A j \in DOMAIN q : q[j] \in X => q[j] = e
  BY DEF ToSet
<1> QED
  BY <1>1, <1>2 DEF LastIs

\* An event that is not of X is put into the first channel.
LEMMA FirstGrows ==
    ASSUME NEW S, NEW a \in Seq(S), NEW b \in Seq(S), NEW x \in S, NEW X, x \notin X, NEW e
    PROVE  /\ LastOf(a, b, X, e) => LastOf(Append(a, x), b, X, e)
           /\ NoneOf(a, X) => NoneOf(Append(a, x), X)
BY LastAppend, AppendSet DEF LastOf, NoneOf

LEMMA SecondGrows ==
    ASSUME NEW S, NEW a \in Seq(S), NEW b \in Seq(S), NEW x \in S, NEW X, NEW e
    PROVE  /\ x \notin X /\ LastOf(a, b, X, e) => LastOf(a, Append(b, x), X, e)
           /\ x \notin X /\ NoneOf(b, X) => NoneOf(Append(b, x), X)
           /\ LastOf(a, Append(b, x), X, x)
BY LastAppend, AppendSet DEF LastOf, NoneOf

\* An event is taken from the first channel.
LEMMA FirstShrinks ==
    ASSUME NEW S, NEW a \in Seq(S), NEW b \in Seq(S), a # <<>>, NEW X, NEW e
    PROVE  /\ LastOf(a, b, X, e) => \/ LastOf(Tail(a), b, X, e)
                                    \/ Head(a) = e /\ NoneOf(Tail(a), X) /\ NoneOf(b, X)
           /\ NoneOf(a, X) => NoneOf(Tail(a), X)
BY LastTail, TailSet DEF LastOf, NoneOf

\* An event goes from the second channel to the first one.
LEMMA GoesOver ==
    ASSUME NEW S, NEW a \in Seq(S), NEW b \in Seq(S), b # <<>>, NEW X, NEW e \in X
    PROVE  /\ LastOf(a, b, X, e) => LastOf(Append(a, Head(b)), Tail(b), X, e)
           /\ NoneOf(a, X) /\ NoneOf(b, X)
                 => NoneOf(Append(a, Head(b)), X) /\ NoneOf(Tail(b), X)
<1>1. /\ Head(b) \in S /\ Tail(b) \in Seq(S) /\ ToSet(b) = {Head(b)} \cup ToSet(Tail(b))
      /\ ToSet(Append(a, Head(b))) = ToSet(a) \cup {Head(b)}
  BY TailSet, AppendSet
<1>2. NoneOf(a, X) /\ NoneOf(b, X) => NoneOf(Append(a, Head(b)), X) /\ NoneOf(Tail(b), X)
  BY <1>1 DEF NoneOf
<1>3. CASE LastIs(b, X, e)
  <2>1. LastIs(Tail(b), X, e) \/ (Head(b) = e /\ NoneOf(Tail(b), X))
    BY <1>3, LastTail
  <2>2. LastIs(Append(a, Head(b)), X, Head(b))
    BY <1>1, LastAppend
  <2> QED
    BY <1>2, <2>1, <2>2 DEF LastOf
<1>4. CASE NoneOf(b, X) /\ LastIs(a, X, e)
  <2>1. Head(b) \notin X /\ NoneOf(Tail(b), X)
    BY <1>1, <1>4 DEF NoneOf
  <2>2. LastIs(Append(a, Head(b)), X, e)
    BY <1>1, <1>4, <2>1, LastAppend
  <2> QED
    BY <1>2, <2>1, <2>2 DEF LastOf
<1> QED
  BY <1>2, <1>3, <1>4 DEF LastOf

-----------------------------------------------------------------------------
(* What comes before what in the two channels *)

\* No event of B comes after one of A.
NoneAfter(q, A, B) == \A i, j \in DOMAIN q : i < j /\ q[i] \in A => q[j] \notin B

Precede(first, second, A, B) ==
    NoneAfter(first, A, B) /\ NoneAfter(second, A, B) /\ (NoneOf(first, A) \/ NoneOf(second, B))

LEMMA AfterAppend ==
    ASSUME NEW S, NEW q \in Seq(S), NEW x \in S, NEW A, NEW B, NoneAfter(q, A, B),
           x \notin B \/ NoneOf(q, A)
    PROVE  NoneAfter(Append(q, x), A, B)
<1>1. /\ DOMAIN q = 1..Len(q) /\ DOMAIN Append(q, x) = 1..(Len(q) + 1) /\ Len(q) \in Nat
      /\ \A i \in 1..Len(q) : Append(q, x)[i] = q[i]
      /\ Append(q, x)[Len(q) + 1] = x
  OBVIOUS
<1>2. ASSUME NEW i \in DOMAIN Append(q, x), NEW j \in DOMAIN Append(q, x), i < j,
             Append(q, x)[i] \in A
      PROVE  Append(q, x)[j] \notin B
  <2>1. i \in DOMAIN q /\ q[i] \in A
    BY <1>1, <1>2
  <2>2. CASE j \in DOMAIN q
    BY <1>1, <1>2, <2>1, <2>2 DEF NoneAfter
  <2>3. CASE j = Len(q) + 1
    BY <1>1, <2>1, <2>3 DEF NoneOf, ToSet
  <2> QED
    BY <1>1, <1>2, <2>2, <2>3
<1> QED
  BY <1>2 DEF NoneAfter

LEMMA AfterTail ==
    ASSUME NEW S, NEW q \in Seq(S), q # <<>>, NEW A, NEW B, NoneAfter(q, A, B)
    PROVE  NoneAfter(Tail(q), A, B) /\ (Head(q) \in A => NoneOf(Tail(q), B))
<1>1. /\ Tail(q) \in Seq(S) /\ Len(Tail(q)) = Len(q) - 1 /\ Head(q) = q[1] /\ Len(q) \in Nat
      /\ \A i \in 1..Len(Tail(q)) : i + 1 \in 1..Len(q) /\ Tail(q)[i] = q[i + 1]
      /\ 1 \in 1..Len(q)
  OBVIOUS
<1>2. DOMAIN q = 1..Len(q) /\ DOMAIN Tail(q) = 1..Len(Tail(q))
  BY <1>1
<1>3. NoneAfter(Tail(q), A, B)
  <2> SUFFICES ASSUME NEW i \in DOMAIN Tail(q), NEW j \in DOMAIN Tail(q), i < j, Tail(q)[i] \in A
               PROVE  Tail(q)[j] \notin B
    BY DEF NoneAfter
  <2>1. i + 1 < j + 1 /\ i + 1 \in DOMAIN q /\ j + 1 \in DOMAIN q
    BY <1>1, <1>2
  <2> QED
    BY <1>1, <1>2, <2>1 DEF NoneAfter
<1>4. ASSUME Head(q) \in A PROVE NoneOf(Tail(q), B)
  <2> SUFFICES ASSUME NEW j \in DOMAIN Tail(q) PROVE Tail(q)[j] \notin B
    BY DEF NoneOf, ToSet
  <2>1. 1 < j + 1 /\ j + 1 \in DOMAIN q /\ 1 \in DOMAIN q
    BY <1>1, <1>2
  <2> QED
    BY <1>1, <1>2, <1>4, <2>1 DEF NoneAfter
<1> QED
  BY <1>3, <1>4

LEMMA AfterCut ==
    ASSUME NEW S, NEW q \in Seq(S), NEW k \in 0..Len(q), NEW A, NEW B, NoneAfter(q, A, B)
    PROVE  NoneAfter(SubSeq(q, 1, k), A, B)
<1>1. /\ SubSeq(q, 1, k) \in Seq(S) /\ Len(SubSeq(q, 1, k)) = k
      /\ \A i \in 1..k : SubSeq(q, 1, k)[i] = q[i] /\ i \in 1..Len(q)
  OBVIOUS
<1>2. DOMAIN SubSeq(q, 1, k) = 1..k /\ DOMAIN q = 1..Len(q)
  BY <1>1
<1> QED
  BY <1>1, <1>2 DEF NoneAfter

LEMMA FirstGrowsAfter ==
    ASSUME NEW S, NEW a \in Seq(S), NEW b \in Seq(S), NEW x \in S, NEW A, NEW B,
           x \notin A \cup B, Precede(a, b, A, B)
    PROVE  Precede(Append(a, x), b, A, B)
BY AfterAppend, AppendSet DEF Precede, NoneOf

LEMMA SecondGrowsAfter ==
    ASSUME NEW S, NEW a \in Seq(S), NEW b \in Seq(S), NEW x \in S, NEW A, NEW B,
           x \notin B \/ (NoneOf(a, A) /\ NoneOf(b, A)), Precede(a, b, A, B)
    PROVE  Precede(a, Append(b, x), A, B)
BY AfterAppend, AppendSet DEF Precede, NoneOf

LEMMA FirstShrinksAfter ==
    ASSUME NEW S, NEW a \in Seq(S), NEW b \in Seq(S), a # <<>>, NEW A, NEW B, Precede(a, b, A, B)
    PROVE  /\ Precede(Tail(a), b, A, B)
           /\ Head(a) \in A => NoneOf(Tail(a), B) /\ NoneOf(b, B)
BY AfterTail, TailSet DEF Precede, NoneOf

LEMMA GoesOverAfter ==
    ASSUME NEW S, NEW a \in Seq(S), NEW b \in Seq(S), b # <<>>, NEW A, NEW B, A \cap B = {},
           Precede(a, b, A, B)
    PROVE  Precede(Append(a, Head(b)), Tail(b), A, B)
<1>1. /\ Head(b) \in S /\ Tail(b) \in Seq(S) /\ ToSet(b) = {Head(b)} \cup ToSet(Tail(b))
      /\ ToSet(Append(a, Head(b))) = ToSet(a) \cup {Head(b)}
  BY TailSet, AppendSet
<1>2. NoneAfter(Tail(b), A, B) /\ (Head(b) \in A => NoneOf(Tail(b), B))
  BY AfterTail DEF Precede
<1>3. Head(b) \notin B \/ NoneOf(a, A)
  BY <1>1 DEF Precede, NoneOf
<1>4. NoneAfter(Append(a, Head(b)), A, B)
  BY <1>1, <1>3, AfterAppend DEF Precede
<1>5. NoneOf(Append(a, Head(b)), A) \/ NoneOf(Tail(b), B)
  BY <1>1, <1>2 DEF Precede, NoneOf
<1> QED
  BY <1>2, <1>4, <1>5 DEF Precede

-----------------------------------------------------------------------------
(* The way of a subscription: the events that the server has sent and those that the *)
(* manager has sent lead both to the same state, as far as they are about the track. *)

Resend == Event("ResendSubscriptionUpdates", NoOne)
Shutdown == Event("Shutdown", NoOne)

\* The updates of the publications, and those that name a track or not.
Updates == {PublicationUpdate(tracks) : tracks \in SUBSET Sids}
Naming(s) == {PublicationUpdate(tracks) : tracks \in {t \in SUBSET Sids : s \in t}}
Omitting(s) == {PublicationUpdate(tracks) : tracks \in {t \in SUBSET Sids : s \notin t}}

HandlesOf(s) == {SubscriberHandle(h, s) : h \in Handles}
RequestsOf(s) == {Subscribe(s), Unsubscribe(s)}

NoneComes(X) == NoneOf(event_in, X) /\ NoneOf(answers, X)
LastToCome(X, e) == LastOf(event_in, answers, X, e)
NoneGoes(X) == NoneOf(event_out, X) /\ NoneOf(output, X)
LastToGo(X, e) == LastOf(event_out, output, X, e)

\* The manager and the forwarder end only with the room.
ClosingInv ==
    /\ mgr # "running" => closing
    /\ forwarder = "ended" => closing
    /\ Shutdown \in ToSet(event_in) => closing
    /\ Shutdown \notin ToSet(answers)

\* A track that was never published is not known.
UnknownInv(s) ==
    s \notin published \cup withdrawn => subscription[s] = "unknown" /\ NoneComes(Naming(s))

\* Of a published track, all updates name it from the first one on that does.
NamedInv(s) ==
    s \in published =>
        /\ Precede(event_in, answers, Naming(s), Omitting(s))
        /\ subscription[s] # "unknown" => NoneComes(Omitting(s))

\* A track that was withdrawn is not known any more once all updates are handled.
WithdrawnInv(s) ==
    s \in withdrawn =>
        \/ \E u \in Omitting(s) : LastToCome(Updates, u)
        \/ NoneComes(Updates) /\ subscription[s] = "unknown"

ServedInv(s) == server[s] # NoOne => s \in published

\* Without a subscription, the last request is to end it; or there is none and the server
\* serves none.
ReleasedInv(s) ==
    s \notin withdrawn /\ subscription[s] \in {"unknown", "None"} =>
        \/ LastToGo(RequestsOf(s), Unsubscribe(s))
        \/ NoneGoes(RequestsOf(s)) /\ server[s] = NoOne

\* With a subscription, the last request is to begin it, or the server does serve it;
\* unless the requests are about to be sent again.
WantedInv(s) ==
    s \in published /\ subscription[s] \in {"Pending", "Active"} /\ NoneComes({Resend}) =>
        \/ LastToGo(RequestsOf(s), Subscribe(s))
        \/ NoneGoes(RequestsOf(s)) /\ server[s] # NoOne

\* What the server serves it has announced, and it is the last that it announced; unless
\* a request to end it is on its way.
AnnouncedInv(s) ==
    server[s] # NoOne /\ NoneGoes({Unsubscribe(s)}) =>
        \/ LastToCome(HandlesOf(s), SubscriberHandle(server[s], s))
        \/ NoneComes(HandlesOf(s)) /\ subscription[s] = "Active" /\ sub_handle[s] = server[s]

TrackInv(s) ==
    /\ UnknownInv(s) /\ NamedInv(s) /\ WithdrawnInv(s) /\ ServedInv(s)
    /\ ReleasedInv(s) /\ WantedInv(s) /\ AnnouncedInv(s)

\* No event was lost, no publisher left unseen, and the room is there.
Undisturbed == ~lost /\ present /\ ~closing

TracksInv == Undisturbed => published \cap withdrawn = {} /\ \A s \in Sids : TrackInv(s)

IInv == Types /\ ClosingInv /\ TracksInv

-----------------------------------------------------------------------------
(* The kinds of events *)

LEMMA Kinds ==
    ASSUME NEW s
    PROVE  /\ \A x \in Updates : x.type = "SfuPublicationUpdates"
           /\ \A x \in HandlesOf(s) : x.type = "SfuSubscriberHandles" /\ x.sid = s
           /\ Resend.type = "ResendSubscriptionUpdates" /\ Shutdown.type = "Shutdown"
           /\ \A x \in RequestsOf(s) : x.type \in {"Subscribe", "Unsubscribe"} /\ x.sid = s
           /\ Subscribe(s) # Unsubscribe(s)
BY DEF Updates, HandlesOf, Resend, Shutdown, RequestsOf, PublicationUpdate, SubscriberHandle, Event,
   Subscribe, Unsubscribe

LEMMA UpdateKinds ==
    ASSUME NEW s
    PROVE  /\ Naming(s) \subseteq Updates /\ Omitting(s) \subseteq Updates
           /\ Naming(s) \cap Omitting(s) = {}
           /\ \A x \in Inputs : x.type = "SfuPublicationUpdates" =>
                 /\ x \in Updates
                 /\ s \in x.tracks => x \in Naming(s)
                 /\ s \notin x.tracks => x \in Omitting(s)
           /\ \A tracks \in SUBSET Sids :
                 /\ PublicationUpdate(tracks).tracks = tracks
                 /\ PublicationUpdate(tracks).type = "SfuPublicationUpdates"
<1>1. ASSUME NEW x \in Inputs, x.type = "SfuPublicationUpdates"
      PROVE  x.tracks \in SUBSET Sids /\ x = PublicationUpdate(x.tracks)
  BY <1>1 DEF Inputs, PublicationUpdate
<1>2. \A tracks : PublicationUpdate(tracks).tracks = tracks
  BY DEF PublicationUpdate
<1> QED
  BY <1>1, <1>2 DEF Updates, Naming, Omitting, PublicationUpdate

LEMMA InputKinds ==
    ASSUME NEW x \in Inputs, NEW s \in Sids
    PROVE  /\ x.type = "SfuSubscriberHandles" =>
                 /\ x = SubscriberHandle(x.handle, x.sid)
                 /\ x.sid = s => x \in HandlesOf(s)
           /\ x.type = "ResendSubscriptionUpdates" => x = Resend
           /\ x.type = "Shutdown" => x = Shutdown
           /\ \A h, g : SubscriberHandle(h, s) = SubscriberHandle(g, s) => h = g
<1>1. x.type = "SfuSubscriberHandles" =>
         x.handle \in Handles /\ x = SubscriberHandle(x.handle, x.sid)
  BY DEF Inputs, SubscriberHandle
<1>2. \A h, g : SubscriberHandle(h, s) = SubscriberHandle(g, s) => h = g
  <2>1. \A h : SubscriberHandle(h, s).handle = h
    BY DEF SubscriberHandle
  <2> QED
    BY <2>1
<1>3. /\ x.type = "ResendSubscriptionUpdates" => x = Resend
      /\ x.type = "Shutdown" => x = Shutdown
  BY DEF Inputs, Resend, Shutdown, Event
<1> QED
  BY <1>1, <1>2, <1>3 DEF HandlesOf

-----------------------------------------------------------------------------
(* What a step does to the channels, as far as one track is concerned *)

Relevant(s) == Updates \cup HandlesOf(s) \cup {Resend}

\* Nothing that comes to the track changes; the event x is taken.
DownStays(s) ==
    /\ \A X \in SUBSET Relevant(s) :
          /\ NoneComes(X) => NoneComes(X)'
          /\ \A e \in X : LastToCome(X, e) => LastToCome(X, e)'
    /\ NoneComes({Resend})' => NoneComes({Resend})
    /\ Precede(event_in, answers, Naming(s), Omitting(s))
          => Precede(event_in, answers, Naming(s), Omitting(s))'

DownTaken(s, x) ==
    /\ \A X \in SUBSET Relevant(s) :
          /\ NoneComes(X) => NoneComes(X)'
          /\ \A e \in X : LastToCome(X, e) => LastToCome(X, e)' \/ (x = e /\ NoneComes(X)')
    /\ x # Resend /\ NoneComes({Resend})' => NoneComes({Resend})
    /\ Precede(event_in, answers, Naming(s), Omitting(s)) =>
          /\ Precede(event_in, answers, Naming(s), Omitting(s))'
          /\ x \in Naming(s) => NoneComes(Omitting(s))'
    /\ \A X : NoneComes(X) => x \notin X

\* No request about the track is made or served.
UpStays(s) ==
    /\ \A X \in SUBSET RequestsOf(s) :
          /\ NoneGoes(X) => NoneGoes(X)'
          /\ \A e \in X : LastToGo(X, e) => LastToGo(X, e)'
    /\ NoneGoes({Unsubscribe(s)})' => NoneGoes({Unsubscribe(s)})

ChannelTypes ==
    /\ event_in \in Seq(Inputs) /\ answers \in Seq(Inputs)
    /\ event_out \in Seq(Outputs) /\ output \in Seq(Outputs)

LEMMA SameDown ==
    ASSUME UNCHANGED <<event_in, answers>>
    PROVE  \A s \in Sids : DownStays(s)
<1>1. \A X, e : /\ NoneComes(X)' <=> NoneComes(X)
                /\ LastToCome(X, e)' <=> LastToCome(X, e)
  BY DEF NoneComes, LastToCome, NoneOf, LastOf, LastIs
<1>2. \A A, B : Precede(event_in, answers, A, B)' <=> Precede(event_in, answers, A, B)
  BY DEF Precede, NoneOf, NoneAfter
<1> QED
  BY <1>1, <1>2 DEF DownStays, Naming, Omitting

LEMMA SameUp ==
    ASSUME UNCHANGED <<event_out, output>>
    PROVE  \A s \in Sids : UpStays(s)
<1>1. \A X, e : /\ NoneGoes(X)' <=> NoneGoes(X)
                /\ LastToGo(X, e)' <=> LastToGo(X, e)
  BY DEF NoneGoes, LastToGo, NoneOf, LastOf, LastIs
<1> QED
  BY <1>1 DEF UpStays

\* The application or a task of a track puts its request into the input channel.
LEMMA OtherDown ==
    ASSUME ChannelTypes, NEW x \in Inputs,
           x.type \in {"SubscribeRequest", "UnsubscribeRequest"},
           event_in' = Append(event_in, x), answers' = answers
    PROVE  \A s \in Sids : DownStays(s)
<1> SUFFICES ASSUME NEW s \in Sids PROVE DownStays(s)
  OBVIOUS
<1>1. x \notin Relevant(s) /\ Naming(s) \cup Omitting(s) \subseteq Relevant(s)
  BY Kinds, UpdateKinds DEF Relevant
<1>2. ASSUME NEW X \in SUBSET Relevant(s), NEW e
      PROVE  /\ NoneComes(X) => NoneComes(X)'
             /\ LastToCome(X, e) => LastToCome(X, e)'
  <2>1. x \notin X
    BY <1>1
  <2>2. /\ NoneComes(X)' <=> NoneOf(Append(event_in, x), X) /\ NoneOf(answers, X)
        /\ LastToCome(X, e)' <=> LastOf(Append(event_in, x), answers, X, e)
    BY DEF NoneComes, LastToCome, NoneOf, LastOf, LastIs
  <2> QED
    BY <2>1, <2>2, FirstGrows DEF ChannelTypes, NoneComes, LastToCome
<1>3. NoneComes({Resend})' => NoneComes({Resend})
  BY AppendSet DEF ChannelTypes, NoneComes, NoneOf
<1>4. Precede(event_in, answers, Naming(s), Omitting(s))
          => Precede(event_in, answers, Naming(s), Omitting(s))'
  <2>1. Precede(event_in, answers, Naming(s), Omitting(s))'
           <=> Precede(Append(event_in, x), answers, Naming(s), Omitting(s))
    BY DEF Precede, NoneOf, NoneAfter, Naming, Omitting
  <2>2. x \notin Naming(s) \cup Omitting(s)
    BY <1>1
  <2> QED
    BY <2>1, <2>2, FirstGrowsAfter DEF ChannelTypes
<1> QED
  BY <1>2, <1>3, <1>4 DEF DownStays

\* The room forwards an event, and none is lost.
LEMMA ForwardedDown ==
    ASSUME ChannelTypes, answers # <<>>,
           event_in' = Append(event_in, Head(answers)), answers' = Tail(answers)
    PROVE  \A s \in Sids : DownStays(s)
<1> SUFFICES ASSUME NEW s \in Sids PROVE DownStays(s)
  OBVIOUS
<1>1. ASSUME NEW X, NEW e \in X
      PROVE  LastToCome(X, e) => LastToCome(X, e)'
  <2>1. LastToCome(X, e)' <=> LastOf(Append(event_in, Head(answers)), Tail(answers), X, e)
    BY DEF LastToCome, NoneOf, LastOf, LastIs
  <2> QED
    BY <2>1, GoesOver DEF ChannelTypes, LastToCome
<1>2. ToSet(event_in') = ToSet(event_in) \cup {Head(answers)}
      /\ ToSet(answers) = {Head(answers)} \cup ToSet(answers')
  BY AppendSet, TailSet DEF ChannelTypes
<1>3. \A X : NoneComes(X)' <=> NoneComes(X)
  BY <1>2 DEF NoneComes, NoneOf
<1>4. Precede(event_in, answers, Naming(s), Omitting(s))
          => Precede(event_in, answers, Naming(s), Omitting(s))'
  <2>1. Precede(event_in, answers, Naming(s), Omitting(s))'
           <=> Precede(Append(event_in, Head(answers)), Tail(answers), Naming(s), Omitting(s))
    BY DEF Precede, NoneOf, NoneAfter, Naming, Omitting
  <2> QED
    BY <2>1, GoesOverAfter, UpdateKinds DEF ChannelTypes
<1> QED
  BY <1>1, <1>3, <1>4 DEF DownStays

\* The manager takes an event.
LEMMA TakenDown ==
    ASSUME ChannelTypes, event_in # <<>>, event_in' = Tail(event_in), answers' = answers
    PROVE  \A s \in Sids : DownTaken(s, Head(event_in))
<1> SUFFICES ASSUME NEW s \in Sids PROVE DownTaken(s, Head(event_in))
  OBVIOUS
<1> DEFINE x == Head(event_in)
<1>1. ToSet(event_in) = {x} \cup ToSet(event_in')
  BY TailSet DEF ChannelTypes
<1>2. \A X : /\ NoneComes(X) => NoneComes(X)' /\ x \notin X
             /\ x \notin X /\ NoneComes(X)' => NoneComes(X)
  BY <1>1 DEF NoneComes, NoneOf
<1>3. ASSUME NEW X, NEW e
      PROVE  LastToCome(X, e) => LastToCome(X, e)' \/ (x = e /\ NoneComes(X)')
  <2>1. /\ LastToCome(X, e)' <=> LastOf(Tail(event_in), answers, X, e)
        /\ NoneComes(X)' <=> NoneOf(Tail(event_in), X) /\ NoneOf(answers, X)
    BY DEF LastToCome, NoneComes, NoneOf, LastOf, LastIs
  <2> QED
    BY <2>1, FirstShrinks DEF ChannelTypes, LastToCome
<1>4. Precede(event_in, answers, Naming(s), Omitting(s)) =>
          /\ Precede(event_in, answers, Naming(s), Omitting(s))'
          /\ x \in Naming(s) => NoneComes(Omitting(s))'
  <2>1. /\ Precede(event_in, answers, Naming(s), Omitting(s))'
              <=> Precede(Tail(event_in), answers, Naming(s), Omitting(s))
        /\ NoneComes(Omitting(s))'
              <=> NoneOf(Tail(event_in), Omitting(s)) /\ NoneOf(answers, Omitting(s))
    BY DEF Precede, NoneOf, NoneAfter, Naming, Omitting, NoneComes
  <2> QED
    BY <2>1, FirstShrinksAfter DEF ChannelTypes
<1>5. x # Resend /\ NoneComes({Resend})' => NoneComes({Resend})
  BY <1>2
<1> HIDE DEF x
<1> QED
  BY <1>2, <1>3, <1>4, <1>5 DEF DownTaken, x

\* An event that is not relevant is taken.
LEMMA OtherTaken ==
    ASSUME NEW s \in Sids, NEW x, DownTaken(s, x), x \notin Relevant(s)
    PROVE  DownStays(s)
BY DEF DownTaken, DownStays, Relevant

\* The manager's output goes on to the channel.
LEMMA SentUp ==
    ASSUME ChannelTypes, output # <<>>,
           event_out' = Append(event_out, Head(output)), output' = Tail(output)
    PROVE  \A s \in Sids : UpStays(s)
<1>1. ASSUME NEW X, NEW e \in X
      PROVE  LastToGo(X, e) => LastToGo(X, e)'
  <2>1. LastToGo(X, e)' <=> LastOf(Append(event_out, Head(output)), Tail(output), X, e)
    BY DEF LastToGo, NoneOf, LastOf, LastIs
  <2> QED
    BY <2>1, GoesOver DEF ChannelTypes, LastToGo
<1>2. ToSet(event_out') = ToSet(event_out) \cup {Head(output)}
      /\ ToSet(output) = {Head(output)} \cup ToSet(output')
  BY AppendSet, TailSet DEF ChannelTypes
<1>3. \A X : NoneGoes(X)' <=> NoneGoes(X)
  BY <1>2 DEF NoneGoes, NoneOf
<1> QED
  BY <1>1, <1>3 DEF UpStays

\* A handler, which has no output left from the last one, makes its own.
LEMMA MadeUp ==
    ASSUME output = <<>>, event_out' = event_out, NEW s \in Sids
    PROVE  /\ ToSet(output') \cap RequestsOf(s) = {} => UpStays(s)
           /\ \A X, e : ToSet(output') \cap X = {e} => LastToGo(X, e)'
           /\ \A X : NoneGoes(X)' => NoneGoes(X)
<1>1. ToSet(output) = {} /\ ToSet(event_out') = ToSet(event_out)
  BY DEF ToSet
<1>2. \A X : NoneGoes(X)' <=> NoneGoes(X) /\ ToSet(output') \cap X = {}
  BY <1>1 DEF NoneGoes, NoneOf
<1>3. ASSUME NEW X, NEW e, ToSet(output') \cap X = {e} PROVE LastToGo(X, e)'
  <2>1. LastIs(output', X, e)
    BY <1>3, LastOnly
  <2> QED
    BY <2>1 DEF LastToGo, LastOf
<1>4. ASSUME NEW X, NEW e, ToSet(output') \cap X = {}, LastToGo(X, e) PROVE LastToGo(X, e)'
  <2>1. ~LastIs(output, X, e)
    BY <1>1 DEF LastIs
  <2>2. LastIs(event_out', X, e) /\ NoneOf(output', X)
    BY <1>4, <2>1 DEF LastToGo, LastOf, NoneOf
  <2> QED
    BY <2>2 DEF LastToGo, LastOf, NoneOf
<1>5. ToSet(output') \cap RequestsOf(s) = {} => UpStays(s)
  BY <1>2, <1>4 DEF UpStays, RequestsOf
<1> QED
  BY <1>2, <1>3, <1>5

-----------------------------------------------------------------------------
(* What a step leaves of a track *)

UpdatesStay(s) ==
    /\ \A X \in SUBSET Updates :
          /\ NoneComes(X) => NoneComes(X)'
          /\ \A e \in X : LastToCome(X, e) => LastToCome(X, e)'
    /\ Precede(event_in, answers, Naming(s), Omitting(s))
          => Precede(event_in, answers, Naming(s), Omitting(s))'

HandlesStay(s) ==
    /\ NoneComes(HandlesOf(s)) => NoneComes(HandlesOf(s))'
    /\ \A e \in HandlesOf(s) : LastToCome(HandlesOf(s), e) => LastToCome(HandlesOf(s), e)'

\* The track is published or not as before.
PublicationStays(s) ==
    (s \in published' <=> s \in published) /\ (s \in withdrawn' <=> s \in withdrawn)

LEMMA Constants ==
    ASSUME NEW s
    PROVE  /\ Naming(s)' = Naming(s) /\ Omitting(s)' = Omitting(s) /\ Updates' = Updates
           /\ HandlesOf(s)' = HandlesOf(s) /\ RequestsOf(s)' = RequestsOf(s)
           /\ \A e : LastToCome(Updates, e)' <=> LastOf(event_in', answers', Updates, e)
           /\ NoneComes(Updates)' <=> NoneOf(event_in', Updates) /\ NoneOf(answers', Updates)
BY DEF Naming, Omitting, Updates, HandlesOf, RequestsOf, LastToCome, NoneComes, LastOf, LastIs,
   NoneOf

\* Of the channel with the events, the parts are those about the updates, the handles
\* and the resending.
LEMMA DownParts ==
    ASSUME NEW s \in Sids
    PROVE  /\ DownStays(s) => UpdatesStay(s) /\ HandlesStay(s)
           /\ \A x : DownTaken(s, x) =>
                 /\ x \notin Updates => UpdatesStay(s)
                 /\ x \notin HandlesOf(s) => HandlesStay(s)
<1>1. \A X \in SUBSET Updates : X \in SUBSET Relevant(s)
  BY DEF Relevant
<1>2. HandlesOf(s) \in SUBSET Relevant(s)
  BY DEF Relevant
<1>3. DownStays(s) => UpdatesStay(s) /\ HandlesStay(s)
  BY <1>1, <1>2 DEF DownStays, UpdatesStay, HandlesStay
<1>4. ASSUME NEW x, DownTaken(s, x), x \notin Updates PROVE UpdatesStay(s)
  BY <1>1, <1>4 DEF DownTaken, UpdatesStay
<1>5. ASSUME NEW x, DownTaken(s, x), x \notin HandlesOf(s) PROVE HandlesStay(s)
  BY <1>2, <1>5 DEF DownTaken, HandlesStay
<1> QED
  BY <1>3, <1>4, <1>5

LEMMA NamesStay ==
    ASSUME NEW s \in Sids, UnknownInv(s), NamedInv(s), WithdrawnInv(s),
           PublicationStays(s), UpdatesStay(s),
           subscription'[s] = "unknown" <=> subscription[s] = "unknown"
    PROVE  UnknownInv(s)' /\ NamedInv(s)' /\ WithdrawnInv(s)'
<1>1. /\ Naming(s) \in SUBSET Updates /\ Omitting(s) \in SUBSET Updates
      /\ Updates \in SUBSET Updates
  BY UpdateKinds
<1>2. UnknownInv(s)'
  <2>1. NoneComes(Naming(s)) => NoneComes(Naming(s))'
    BY <1>1 DEF UpdatesStay
  <2> QED
    BY <2>1, Constants DEF UnknownInv, PublicationStays
<1>3. NamedInv(s)'
  <2>1. NoneComes(Omitting(s)) => NoneComes(Omitting(s))'
    BY <1>1 DEF UpdatesStay
  <2> QED
    BY <2>1 DEF NamedInv, PublicationStays, UpdatesStay
<1>4. WithdrawnInv(s)'
  <2>1. \A u \in Omitting(s) : LastToCome(Updates, u) => LastToCome(Updates, u)'
    BY <1>1 DEF UpdatesStay
  <2>2. NoneComes(Updates) => NoneComes(Updates)'
    BY <1>1 DEF UpdatesStay
  <2>3. \A u : LastToCome(Updates, u)' <=> LastOf(event_in', answers', Updates', u)
    BY DEF LastToCome
  <2> QED
    BY <2>1, <2>2, <2>3, Constants DEF WithdrawnInv, PublicationStays
<1> QED
  BY <1>2, <1>3, <1>4

LEMMA RequestsStay ==
    ASSUME NEW s \in Sids, ServedInv(s), ReleasedInv(s), WantedInv(s),
           PublicationStays(s), UpStays(s), server'[s] = server[s],
           subscription'[s] \in {"unknown", "None"} <=> subscription[s] \in {"unknown", "None"},
           subscription'[s] \in {"Pending", "Active"} => subscription[s] \in {"Pending", "Active"},
           NoneComes({Resend})' => NoneComes({Resend})
    PROVE  ServedInv(s)' /\ ReleasedInv(s)' /\ WantedInv(s)'
<1>1. \A X \in SUBSET RequestsOf(s) :
          /\ NoneGoes(X) => NoneGoes(X)'
          /\ \A e \in X : LastToGo(X, e) => LastToGo(X, e)'
  BY DEF UpStays
<1>2. ServedInv(s)'
  BY DEF ServedInv, PublicationStays
<1>3. ReleasedInv(s)'
  <2>1. LastToGo(RequestsOf(s), Unsubscribe(s)) => LastToGo(RequestsOf(s), Unsubscribe(s))'
    BY <1>1 DEF RequestsOf
  <2>2. NoneGoes(RequestsOf(s)) => NoneGoes(RequestsOf(s))'
    BY <1>1
  <2> QED
    BY <2>1, <2>2 DEF ReleasedInv, PublicationStays
<1>4. WantedInv(s)'
  <2>1. LastToGo(RequestsOf(s), Subscribe(s)) => LastToGo(RequestsOf(s), Subscribe(s))'
    BY <1>1 DEF RequestsOf
  <2>2. NoneGoes(RequestsOf(s)) => NoneGoes(RequestsOf(s))'
    BY <1>1
  <2> QED
    BY <2>1, <2>2 DEF WantedInv, PublicationStays
<1> QED
  BY <1>2, <1>3, <1>4

LEMMA AnnouncementStays ==
    ASSUME NEW s \in Sids, server[s] \in Handles \cup {NoOne}, AnnouncedInv(s),
           HandlesStay(s), server'[s] = server[s],
           NoneGoes({Unsubscribe(s)})' => NoneGoes({Unsubscribe(s)}),
           subscription[s] = "Active" =>
              subscription'[s] = "Active" /\ sub_handle'[s] = sub_handle[s]
    PROVE  AnnouncedInv(s)'
<1>1. CASE server[s] = NoOne
  BY <1>1 DEF AnnouncedInv
<1>2. ASSUME NEW h \in Handles, server[s] = h PROVE AnnouncedInv(s)'
  <2>1. h # NoOne /\ SubscriberHandle(h, s) \in HandlesOf(s)
    BY NoOneAssumption DEF HandlesOf
  <2>2. NoneGoes({Unsubscribe(s)})' =>
          \/ LastToCome(HandlesOf(s), SubscriberHandle(h, s))
          \/ NoneComes(HandlesOf(s)) /\ subscription[s] = "Active" /\ sub_handle[s] = h
    BY <1>2, <2>1 DEF AnnouncedInv
  <2>3. NoneGoes({Unsubscribe(s)})' =>
          \/ LastToCome(HandlesOf(s), SubscriberHandle(h, s))'
          \/ NoneComes(HandlesOf(s))' /\ subscription'[s] = "Active" /\ sub_handle'[s] = h
    BY <2>1, <2>2 DEF HandlesStay
  <2> QED
    BY <1>2, <2>3 DEF AnnouncedInv
<1> QED
  BY <1>1, <1>2

\* A step that does nothing to a track.
LEMMA QuietStep ==
    ASSUME NEW s \in Sids, server[s] \in Handles \cup {NoOne},
           TrackInv(s), DownStays(s), UpStays(s), PublicationStays(s),
           subscription'[s] = subscription[s], sub_handle'[s] = sub_handle[s],
           server'[s] = server[s]
    PROVE  TrackInv(s)'
<1>1. UnknownInv(s)' /\ NamedInv(s)' /\ WithdrawnInv(s)'
  BY NamesStay, DownParts DEF TrackInv
<1>2. ServedInv(s)' /\ ReleasedInv(s)' /\ WantedInv(s)'
  BY RequestsStay DEF TrackInv, DownStays
<1>3. AnnouncedInv(s)'
  BY AnnouncementStays, DownParts DEF TrackInv, UpStays
<1> QED
  BY <1>1, <1>2, <1>3 DEF TrackInv
-----------------------------------------------------------------------------
(* The room stays until it closes *)

LEMMA ClosingStep == Types /\ ClosingInv /\ [Next]_vars => ClosingInv'
<1> SUFFICES ASSUME Types, ClosingInv, [Next]_vars PROVE ClosingInv'
  OBVIOUS
<1>0. InputOK /\ answers \in Seq(Inputs) /\ ClosingInv
  BY DEF Types, TypeOK, InputOK
<1> USE DEF ClosingInv, mgrVars, ctlVars, chanVars, appVars, roomVars, serverVars
<1>1. ASSUME NEW x \in Inputs, x.type # "Shutdown",
             event_in' = event_in \/ event_in' = Append(event_in, x),
             UNCHANGED <<mgr, forwarder, closing, answers>>
      PROVE  ClosingInv'
  <2>1. ToSet(event_in') \subseteq ToSet(event_in) \cup {x}
    BY <1>0, <1>1, AppendSet DEF InputOK
  <2>2. x # Shutdown
    BY <1>1, Kinds
  <2> QED
    BY <1>0, <1>1, <2>1, <2>2
<1>2. ASSUME NEW type, Takes(type), UNCHANGED <<forwarder, closing, answers>>,
             mgr' = mgr \/ type = "Shutdown"
      PROVE  ClosingInv'
  <2>1. /\ Head(event_in) \in Inputs /\ Head(event_in).type = type
        /\ ToSet(event_in) = {Head(event_in)} \cup ToSet(event_in')
    BY <1>0, <1>2, TakesOne
  <2>2. type = "Shutdown" => Head(event_in) = Shutdown
    BY <2>1 DEF Inputs, Shutdown, Event
  <2> QED
    BY <1>0, <1>2, <2>1, <2>2
<1>3. ASSUME UNCHANGED <<mgr, forwarder, closing, event_in>>, Shutdown \notin ToSet(answers')
      PROVE  ClosingInv'
  BY <1>0, <1>3
<1>4. ASSUME NEW c \in Callers, NEW s \in Sids, subscribe(c, s) PROVE ClosingInv'
  BY <1>0, <1>4 DEF subscribe
<1>5. ASSUME NEW c \in Callers, RequestSent(c) PROVE ClosingInv'
  <2>1. SubscribeRequest(c, target[c]) \in Inputs
    BY <1>5, InputsMade DEF RequestSent, Types, CallsInv
  <2>2. SubscribeRequest(c, target[c]).type # "Shutdown"
    BY DEF SubscribeRequest
  <2> QED
    BY <1>1, <1>5, <2>1, <2>2 DEF RequestSent, Send
<1>6. ASSUME NEW c \in Callers, SubscribeTimeout(c) \/ DropStream(c) PROVE ClosingInv'
  BY <1>0, <1>6 DEF SubscribeTimeout, DropStream
<1>7. ASSUME NEW s \in Sids, TaskSeesUnpublished(s) \/ TaskSeesNoReceivers(s) PROVE ClosingInv'
  BY <1>0, <1>7 DEF TaskSeesUnpublished, TaskSeesNoReceivers
<1>8. ASSUME NEW s \in Sids, TaskEnds(s) PROVE ClosingInv'
  <2>1. /\ Event("UnsubscribeRequest", s) \in Inputs
        /\ Event("UnsubscribeRequest", s).type # "Shutdown"
    BY InputsMade DEF Event
  <2> QED
    BY <1>1, <1>8, <2>1 DEF TaskEnds, Send
<1>9. ASSUME NEW x \in Inputs, x.type # "Shutdown",
             answers' = answers \/ answers' = Append(answers, x)
      PROVE  Shutdown \notin ToSet(answers')
  <2>1. x # Shutdown
    BY <1>9, Kinds
  <2>2. ToSet(Append(answers, x)) = ToSet(answers) \cup {x}
    BY <1>0, AppendSet
  <2>3. Shutdown \notin ToSet(Append(answers, x)) /\ Shutdown \notin ToSet(answers)
    BY <1>0, <2>1, <2>2
  <2>4. CASE answers' = answers
    BY <2>3, <2>4
  <2>5. CASE answers' = Append(answers, x)
    BY <2>3, <2>5
  <2> QED
    BY <1>9, <2>4, <2>5
<1>10. ASSUME NEW s \in Sids, Publish(s) \/ Withdraw(s) PROVE ClosingInv'
  <2>1. /\ PublicationUpdate(published') \in Inputs
        /\ PublicationUpdate(published').type # "Shutdown"
    <3>1. published' \in SUBSET Sids
      BY <1>10 DEF Publish, Withdraw, Types, TypeOK
    <3> QED
      BY <3>1, InputsMade, UpdateKinds
  <2> QED
    BY <1>3, <1>9, <1>10, <2>1 DEF Publish, Withdraw
<1>11. CASE \/ on_subscribe_request \/ on_unsubscribe_request \/ on_sfu_publication_updates
            \/ on_sfu_subscriber_handles \/ on_resend_subscription_updates \/ on_shutdown
  BY <1>2, <1>11 DEF on_subscribe_request, on_unsubscribe_request, on_sfu_publication_updates,
     on_sfu_subscriber_handles, on_resend_subscription_updates, on_shutdown
<1>12. CASE OutputSent
  BY <1>0, <1>12 DEF OutputSent
<1>13. CASE ManagerEnds
  <2>1. ToSet(event_in') = {}
    BY <1>13 DEF ManagerEnds, ToSet
  <2> QED
    BY <1>0, <1>13, <2>1 DEF ManagerEnds
<1>14. ASSUME NEW s \in Sids, ShutdownTrack(s) \/ TaskJoined(s) PROVE ClosingInv'
  BY <1>0, <1>14 DEF ShutdownTrack, TaskJoined
<1>15. CASE ForwardOutput
  <2>1. UNCHANGED <<answers, closing, mgr, forwarder, event_in>>
          \/ \E s \in Sids, h \in Handles : answers' = Append(answers, SubscriberHandle(h, s))
    <3>1. Head(event_out).sid \in Sids
      BY <1>15, TailSet, OutputsMade DEF ForwardOutput, Types, TypeOK
    <3> QED
      BY <1>15, <3>1 DEF ForwardOutput, ServerUpdates
  <2>2. \A s \in Sids, h \in Handles : /\ SubscriberHandle(h, s) \in Inputs
                                       /\ SubscriberHandle(h, s).type # "Shutdown"
    BY InputsMade DEF SubscriberHandle
  <2>3. Shutdown \notin ToSet(answers')
    BY <1>0, <1>9, <2>1, <2>2
  <2> QED
    BY <1>3, <1>15, <2>3 DEF ForwardOutput
<1>16. CASE ForwarderEnds
  BY <1>0, <1>16 DEF ForwarderEnds
<1>17. CASE RoomCloses
  BY <1>0, <1>17, CutSet DEF RoomCloses
<1>18. CASE ForwardAnswer
  <2>1. /\ Head(answers) \in Inputs /\ ToSet(answers) = {Head(answers)} \cup ToSet(answers')
        /\ ToSet(event_in') \subseteq ToSet(event_in) \cup {Head(answers)}
    BY <1>0, <1>18, TailSet, AppendSet DEF ForwardAnswer, TrySend, InputOK
  <2> QED
    BY <1>0, <1>18, <2>1 DEF ForwardAnswer
<1>19. CASE Reconnect
  <2>1. PICK kept \in 0..Len(answers), stays \in {present, FALSE} :
          answers' = SubSeq(answers, 1, kept)
               \o (IF stays THEN <<PublicationUpdate(published)>> ELSE <<>>)
               \o <<Event("ResendSubscriptionUpdates", NoOne)>>
    BY <1>19 DEF Reconnect
  <2> DEFINE cut == SubSeq(answers, 1, kept)
             u == PublicationUpdate(published)
  <2>2. cut \in Seq(Inputs) /\ Shutdown \notin ToSet(cut)
    BY <1>0, CutSet
  <2>3. u \in Inputs /\ Resend \in Inputs /\ u # Shutdown /\ Resend # Shutdown
    BY Kinds, UpdateKinds, InputsMade DEF Types, TypeOK, Resend
  <2>4. answers' = Append(cut, Resend) \/ answers' = Append(Append(cut, u), Resend)
    <3> HIDE DEF cut, u
    <3>1. \/ answers' = cut \o <<>> \o <<Resend>>
          \/ answers' = cut \o <<u>> \o <<Resend>>
      BY <2>1 DEF cut, u, Resend
    <3>2. cut \o <<>> \o <<Resend>> = Append(cut, Resend)
      BY <2>2, <2>3
    <3>3. cut \o <<u>> \o <<Resend>> = Append(Append(cut, u), Resend)
      BY <2>2, <2>3
    <3> QED
      BY <3>1, <3>2, <3>3
  <2>5. /\ Append(cut, u) \in Seq(Inputs)
        /\ ToSet(Append(cut, u)) = ToSet(cut) \cup {u}
        /\ ToSet(Append(cut, Resend)) = ToSet(cut) \cup {Resend}
    BY <2>2, <2>3, AppendSet, ZenonT(40)
  <2>6. ToSet(Append(Append(cut, u), Resend)) = ToSet(Append(cut, u)) \cup {Resend}
    <3> DEFINE q == Append(cut, u)
    <3>1. q \in Seq(Inputs)
      BY <2>5
    <3> HIDE DEF q
    <3>2. ToSet(Append(q, Resend)) = ToSet(q) \cup {Resend}
      BY <2>3, <3>1, AppendSet
    <3> QED
      BY <3>2 DEF q
  <2>7. Shutdown \notin ToSet(answers')
    <3> HIDE DEF cut, u
    <3>1. CASE answers' = Append(cut, Resend)
      BY <2>2, <2>3, <2>5, <3>1
    <3>2. CASE answers' = Append(Append(cut, u), Resend)
      BY <2>2, <2>3, <2>5, <2>6, <3>2
    <3> QED
      BY <2>4, <3>1, <3>2
  <2> QED
    BY <1>3, <1>19, <2>7 DEF Reconnect
<1>20. CASE UNCHANGED vars
  BY <1>0, <1>20 DEF vars
<1> QED
  BY <1>4, <1>5, <1>6, <1>7, <1>8, <1>10, <1>11, <1>12, <1>13, <1>14, <1>15, <1>16, <1>17,
     <1>18, <1>19, <1>20 DEF Next, ManagerStep

\* What is not undone: a lost event, a publisher that left, the end of the room.
LEMMA Lasting == Types /\ [Next]_vars /\ Undisturbed' => Undisturbed
<1> SUFFICES ASSUME Types, [Next]_vars
             PROVE  (lost => lost') /\ (closing => closing') /\ (present' => present)
  BY DEF Undisturbed, Types, TypeOK
<1> DEFINE Lasts == (lost => lost') /\ (closing => closing') /\ (present' => present)
<1> USE DEF chanVars, roomVars, serverVars
<1>1. ASSUME NEW c \in Callers, NEW s \in Sids, subscribe(c, s) PROVE Lasts
  BY <1>1 DEF subscribe
<1>2. ASSUME NEW c \in Callers,
             RequestSent(c) \/ SubscribeTimeout(c) \/ DropStream(c)
      PROVE  Lasts
  BY <1>2 DEF RequestSent, SubscribeTimeout, DropStream, Send
<1>3. ASSUME NEW s \in Sids,
             \/ TaskSeesUnpublished(s) \/ TaskSeesNoReceivers(s) \/ TaskEnds(s)
             \/ Publish(s) \/ Withdraw(s) \/ ShutdownTrack(s) \/ TaskJoined(s)
      PROVE  Lasts
  BY <1>3 DEF TaskSeesUnpublished, TaskSeesNoReceivers, TaskEnds, Send, Publish, Withdraw,
     ShutdownTrack, TaskJoined
<1>4. CASE on_subscribe_request \/ on_unsubscribe_request \/ on_sfu_publication_updates
             \/ on_sfu_subscriber_handles \/ on_resend_subscription_updates
  BY <1>4 DEF on_subscribe_request, on_unsubscribe_request, on_sfu_publication_updates,
     on_sfu_subscriber_handles, on_resend_subscription_updates, Takes
<1>5. CASE OutputSent \/ on_shutdown \/ ManagerEnds
  BY <1>5 DEF OutputSent, on_shutdown, ManagerEnds, Takes
<1>6. CASE ForwardOutput \/ RoomCloses
  BY <1>6 DEF ForwardOutput, RoomCloses
<1>7. CASE ForwarderEnds \/ ForwardAnswer
  <2>1. /\ lost' = (lost \/ (InputOpen /\ Full(event_in)))
        /\ UNCHANGED <<closing, present>>
    BY <1>7 DEF ForwarderEnds, ForwardAnswer, TrySend
  <2> QED
    BY <2>1
<1>8. CASE Reconnect
  <2>1. present' = present \/ present' = FALSE
    BY <1>8 DEF Reconnect
  <2>2. lost' = lost /\ closing' = closing
    BY <1>8 DEF Reconnect
  <2>3. present' => present
    BY <2>1
  <2> QED
    BY <2>2, <2>3
<1>9. CASE UNCHANGED vars
  BY <1>9 DEF vars
<1> QED
  BY <1>1, <1>2, <1>3, <1>4, <1>5, <1>6, <1>7, <1>8, <1>9 DEF Next, ManagerStep
-----------------------------------------------------------------------------
(* The steps, one after the other: what each of them does to the tracks *)

Tracks == published \cap withdrawn = {} /\ \A s \in Sids : TrackInv(s)

\* What a step can rely on, as long as nothing disturbs.
Steady == Types /\ ClosingInv /\ Undisturbed /\ Undisturbed' /\ Tracks

LEMMA SteadyFacts ==
    ASSUME Steady
    PROVE  /\ mgr = "running" /\ forwarder = "running" /\ InputOpen
           /\ ChannelTypes /\ InputOK
           /\ ~closing /\ ~closing' /\ ~lost' /\ present'
           /\ Shutdown \notin ToSet(event_in)
           /\ \A s \in Sids : /\ server[s] \in Handles \cup {NoOne} /\ TrackInv(s)
                              /\ subscription[s] \in {"unknown", "None", "Pending", "Active"}
BY DEF Steady, ClosingInv, Undisturbed, Types, TypeOK, ChannelTypes, InputOK, InputOpen, Tracks

\* A step that is not about any subscription.
LEMMA NothingHappens ==
    ASSUME Steady, UNCHANGED <<subscription, sub_handle, server, published, withdrawn>>,
           \A s \in Sids : DownStays(s) /\ UpStays(s)
    PROVE  Tracks'
<1>1. \A s \in Sids : TrackInv(s)'
  BY SteadyFacts, QuietStep DEF PublicationStays
<1> QED
  BY <1>1 DEF Steady, Tracks

LEMMA ApplicationSteps ==
    ASSUME Steady, NEW c \in Callers,
           \/ \E s \in Sids : subscribe(c, s)
           \/ RequestSent(c) \/ SubscribeTimeout(c) \/ DropStream(c)
    PROVE  Tracks'
<1> USE DEF mgrVars, ctlVars, chanVars, serverVars
<1>1. CASE (\E s \in Sids : subscribe(c, s)) \/ SubscribeTimeout(c) \/ DropStream(c)
  <2>1. UNCHANGED <<subscription, sub_handle, server, published, withdrawn,
                    event_in, answers, event_out, output>>
    BY <1>1 DEF subscribe, SubscribeTimeout, DropStream
  <2> QED
    BY <2>1, NothingHappens, SameDown, SameUp
<1>2. CASE RequestSent(c)
  <2>1. /\ SubscribeRequest(c, target[c]) \in Inputs
        /\ SubscribeRequest(c, target[c]).type = "SubscribeRequest"
    BY <1>2, InputsMade DEF RequestSent, Steady, Types, CallsInv, SubscribeRequest
  <2>2. \A s \in Sids : DownStays(s)
    BY <1>2, <2>1, OtherDown, SteadyFacts DEF RequestSent, Send
  <2> QED
    BY <1>2, <2>2, NothingHappens, SameUp DEF RequestSent
<1> QED
  BY <1>1, <1>2

LEMMA TaskSteps ==
    ASSUME Steady, NEW t \in Sids,
           TaskSeesUnpublished(t) \/ TaskSeesNoReceivers(t) \/ TaskEnds(t)
    PROVE  Tracks'
<1> USE DEF mgrVars, ctlVars, chanVars, serverVars
<1>1. CASE TaskSeesUnpublished(t) \/ TaskSeesNoReceivers(t)
  <2>1. UNCHANGED <<subscription, sub_handle, server, published, withdrawn,
                    event_in, answers, event_out, output>>
    BY <1>1 DEF TaskSeesUnpublished, TaskSeesNoReceivers
  <2> QED
    BY <2>1, NothingHappens, SameDown, SameUp
<1>2. CASE TaskEnds(t)
  <2>1. /\ Event("UnsubscribeRequest", t) \in Inputs
        /\ Event("UnsubscribeRequest", t).type = "UnsubscribeRequest"
    BY InputsMade DEF Event
  <2>2. \A s \in Sids : DownStays(s)
    BY <1>2, <2>1, OtherDown, SteadyFacts DEF TaskEnds, Send
  <2> QED
    BY <1>2, <2>2, NothingHappens, SameUp DEF TaskEnds
<1> QED
  BY <1>1, <1>2

\* The steps that pass an event on; and those of a room that closes, or of a manager that
\* shuts down, which would need a room that has closed.
LEMMA ForwardingSteps ==
    ASSUME Steady,
           OutputSent \/ ForwardAnswer \/ ForwarderEnds \/ RoomCloses \/ on_shutdown \/ ManagerEnds
             \/ \E s \in Sids : ShutdownTrack(s) \/ TaskJoined(s)
    PROVE  Tracks'
<1> USE DEF mgrVars, ctlVars, chanVars, serverVars
<1>1. CASE OutputSent
  <2>1. \A s \in Sids : UpStays(s)
    BY <1>1, SentUp, SteadyFacts DEF OutputSent
  <2> QED
    BY <1>1, <2>1, NothingHappens, SameDown DEF OutputSent
<1>2. CASE ForwardAnswer
  <2>1. event_in' = Append(event_in, Head(answers))
    BY <1>2, SteadyFacts DEF ForwardAnswer, TrySend
  <2>2. \A s \in Sids : DownStays(s)
    BY <1>2, <2>1, ForwardedDown, SteadyFacts DEF ForwardAnswer
  <2> QED
    BY <1>2, <2>2, NothingHappens, SameUp DEF ForwardAnswer
<1>3. CASE ForwarderEnds \/ RoomCloses
  BY <1>3, SteadyFacts DEF ForwarderEnds, RoomCloses
<1>4. CASE on_shutdown
  <2>1. Head(event_in) \in Inputs /\ Head(event_in).type = "Shutdown"
        /\ Head(event_in) \in ToSet(event_in)
    BY <1>4, TakesOne, SteadyFacts DEF on_shutdown
  <2>2. Head(event_in) = Shutdown
    BY <2>1 DEF Inputs, Shutdown, Event
  <2> QED
    BY <2>1, <2>2, SteadyFacts
<1>5. CASE ManagerEnds \/ \E s \in Sids : ShutdownTrack(s) \/ TaskJoined(s)
  BY <1>5, SteadyFacts DEF ManagerEnds, ShutdownTrack, TaskJoined
<1> QED
  BY <1>1, <1>2, <1>3, <1>4, <1>5

\* The manager takes an event, and handles it.
LEMMA ManagerTakes ==
    ASSUME Steady, NEW type, Takes(type), UNCHANGED answers
    PROVE  /\ Head(event_in) \in Inputs /\ Head(event_in).type = type
           /\ output = <<>> /\ event_out' = event_out
           /\ \A s \in Sids : DownTaken(s, Head(event_in))
           /\ type \in {"SubscribeRequest", "UnsubscribeRequest"} =>
                 \A s \in Sids : DownStays(s)
<1>1. /\ Head(event_in) \in Inputs /\ Head(event_in).type = type
      /\ output = <<>> /\ event_out' = event_out
  BY TakesOne, SteadyFacts
<1>2. \A s \in Sids : DownTaken(s, Head(event_in))
  BY TakenDown, SteadyFacts DEF Takes
<1>3. ASSUME type \in {"SubscribeRequest", "UnsubscribeRequest"}, NEW s \in Sids PROVE DownStays(s)
  <2>1. Head(event_in) \notin Relevant(s)
    BY <1>1, <1>3, Kinds DEF Relevant
  <2> QED
    BY <1>2, <2>1, OtherTaken
<1> QED
  BY <1>1, <1>2, <1>3

\* The requests about one track are not about another.
LEMMA OtherRequests ==
    ASSUME NEW s \in Sids, NEW t \in Sids, s # t
    PROVE  Subscribe(t) \notin RequestsOf(s) /\ Unsubscribe(t) \notin RequestsOf(s)
BY DEF RequestsOf, Subscribe, Unsubscribe, Event

LEMMA SubscribeStep == ASSUME Steady, on_subscribe_request PROVE Tracks'
<1> USE DEF mgrVars, ctlVars, serverVars
<1>0. PICK t \in Sids : t = Head(event_in).sid
  BY ManagerTakes, InputsAre DEF on_subscribe_request
<1>1. /\ output = <<>> /\ event_out' = event_out
      /\ \A s \in Sids : DownStays(s)
  BY ManagerTakes DEF on_subscribe_request
<1>2. UNCHANGED <<sub_handle, server, published, withdrawn>>
  BY DEF on_subscribe_request
<1>3. \/ output' = <<>> /\ subscription' = subscription
      \/ /\ output' = <<Subscribe(t)>> /\ subscription[t] = "None"
         /\ subscription' = [subscription EXCEPT ![t] = "Pending"]
  BY <1>0, <1>1 DEF on_subscribe_request
<1>4. CASE output' = <<>> /\ subscription' = subscription
  <2>1. \A s \in Sids : UpStays(s)
    BY <1>1, <1>4, SameUp
  <2> QED
    BY <1>1, <1>2, <1>4, <2>1, NothingHappens
<1>5. CASE /\ output' = <<Subscribe(t)>> /\ subscription[t] = "None"
           /\ subscription' = [subscription EXCEPT ![t] = "Pending"]
  <2>1. ToSet(output') = {Subscribe(t)}
    BY <1>5, OneSet
  <2>2. /\ subscription'[t] = "Pending"
        /\ \A s \in Sids \ {t} : subscription'[s] = subscription[s]
    BY <1>1, <1>5 DEF Steady, Types, TypeOK
  <2>3. \A s \in Sids : PublicationStays(s)
    BY <1>2 DEF PublicationStays
  <2>4. ASSUME NEW s \in Sids, s # t PROVE TrackInv(s)'
    <3>1. UpStays(s)
      BY <1>1, <2>1, <2>4, MadeUp, OtherRequests
    <3> QED
      BY <1>1, <1>2, <2>2, <2>3, <2>4, <3>1, QuietStep, SteadyFacts
  <2>5. TrackInv(t)'
    <3>1. TrackInv(t)
      BY <1>1, SteadyFacts
    <3>2. UnknownInv(t)' /\ NamedInv(t)' /\ WithdrawnInv(t)'
      BY <1>1, <1>5, <2>2, <2>3, <3>1, NamesStay, DownParts DEF TrackInv
    <3>3. ServedInv(t)'
      BY <1>2, <3>1 DEF TrackInv, ServedInv
    <3>4. ReleasedInv(t)'
      BY <2>2 DEF ReleasedInv
    <3>5. WantedInv(t)'
      <4>1. ToSet(output') \cap RequestsOf(t) = {Subscribe(t)}
        BY <2>1 DEF RequestsOf
      <4>2. LastToGo(RequestsOf(t), Subscribe(t))'
        BY <1>1, <4>1, MadeUp
      <4> QED
        BY <4>2 DEF WantedInv
    \* A subscription that was given back and is not served.
    <3>6. AnnouncedInv(t)'
      <4>1. server[t] # NoOne => t \in published /\ t \notin withdrawn
        BY <3>1 DEF TrackInv, ServedInv, Steady, Tracks
      <4>2. server[t] # NoOne => LastToGo(RequestsOf(t), Unsubscribe(t))
        BY <1>5, <3>1, <4>1 DEF TrackInv, ReleasedInv
      <4>3. LastToGo(RequestsOf(t), Unsubscribe(t)) => ~NoneGoes({Unsubscribe(t)})
        BY LastMember DEF LastToGo, LastOf, NoneGoes, NoneOf
      <4>4. NoneGoes({Unsubscribe(t)})' => NoneGoes({Unsubscribe(t)})
        BY <1>1, MadeUp
      <4> QED
        BY <1>2, <4>2, <4>3, <4>4 DEF AnnouncedInv
    <3> QED
      BY <3>2, <3>3, <3>4, <3>5, <3>6 DEF TrackInv
  <2> QED
    BY <1>2, <2>4, <2>5 DEF Steady, Tracks
<1> QED
  BY <1>3, <1>4, <1>5

LEMMA UnsubscribeStep == ASSUME Steady, on_unsubscribe_request PROVE Tracks'
<1> USE DEF mgrVars, ctlVars, serverVars
<1>0. PICK t \in Sids : t = Head(event_in).sid
  BY ManagerTakes, InputsAre DEF on_unsubscribe_request
<1>1. /\ output = <<>> /\ event_out' = event_out
      /\ \A s \in Sids : DownStays(s)
  BY ManagerTakes DEF on_unsubscribe_request
<1>2. UNCHANGED <<server, published, withdrawn>>
  BY DEF on_unsubscribe_request
<1>3. \/ UNCHANGED <<subscription, sub_handle, output>>
      \/ /\ output' = <<Unsubscribe(t)>> /\ subscription[t] = "Active"
         /\ subscription' = [subscription EXCEPT ![t] = "None"]
         /\ sub_handle' = [sub_handle EXCEPT ![t] = NoOne]
  BY <1>0 DEF on_unsubscribe_request
<1>4. CASE UNCHANGED <<subscription, sub_handle, output>>
  BY <1>1, <1>2, <1>4, SameUp, NothingHappens
<1>5. CASE /\ output' = <<Unsubscribe(t)>> /\ subscription[t] = "Active"
           /\ subscription' = [subscription EXCEPT ![t] = "None"]
           /\ sub_handle' = [sub_handle EXCEPT ![t] = NoOne]
  <2>1. ToSet(output') = {Unsubscribe(t)}
    BY <1>5, OneSet
  <2>2. /\ subscription'[t] = "None"
        /\ \A s \in Sids \ {t} :
              subscription'[s] = subscription[s] /\ sub_handle'[s] = sub_handle[s]
    BY <1>1, <1>5 DEF Steady, Types, TypeOK
  <2>3. \A s \in Sids : PublicationStays(s)
    BY <1>2 DEF PublicationStays
  <2>4. ASSUME NEW s \in Sids, s # t PROVE TrackInv(s)'
    <3>1. UpStays(s)
      BY <1>1, <2>1, <2>4, MadeUp, OtherRequests
    <3> QED
      BY <1>1, <1>2, <2>2, <2>3, <2>4, <3>1, QuietStep, SteadyFacts
  <2>5. TrackInv(t)'
    <3>1. TrackInv(t)
      BY <1>1, SteadyFacts
    <3>2. UnknownInv(t)' /\ NamedInv(t)' /\ WithdrawnInv(t)'
      BY <1>1, <1>5, <2>2, <2>3, <3>1, NamesStay, DownParts DEF TrackInv
    <3>3. ServedInv(t)'
      BY <1>2, <3>1 DEF TrackInv, ServedInv
    <3>4. ReleasedInv(t)'
      <4>1. ToSet(output') \cap RequestsOf(t) = {Unsubscribe(t)}
        BY <2>1 DEF RequestsOf
      <4>2. LastToGo(RequestsOf(t), Unsubscribe(t))'
        BY <1>1, <4>1, MadeUp
      <4> QED
        BY <4>2 DEF ReleasedInv
    <3>5. WantedInv(t)'
      BY <2>2 DEF WantedInv
    <3>6. AnnouncedInv(t)'
      BY <2>1 DEF AnnouncedInv, NoneGoes, NoneOf
    <3> QED
      BY <3>2, <3>3, <3>4, <3>5, <3>6 DEF TrackInv
  <2> QED
    BY <1>2, <2>4, <2>5 DEF Steady, Tracks
<1> QED
  BY <1>3, <1>4, <1>5

LEMMA PublicationsStep == ASSUME Steady, on_sfu_publication_updates PROVE Tracks'
<1> DEFINE x == Head(event_in)
<1> USE DEF mgrVars, ctlVars, serverVars
<1>0. PICK tracks \in SUBSET Sids : tracks = x.tracks
  BY ManagerTakes, InputsAre DEF on_sfu_publication_updates
<1> DEFINE new == tracks \ Known
           gone == Known \ tracks
<1>1. /\ x \in Inputs /\ x.type = "SfuPublicationUpdates"
      /\ output = <<>> /\ event_out' = event_out
      /\ \A s \in Sids : DownTaken(s, x)
      /\ UNCHANGED <<server, published, withdrawn>>
  BY ManagerTakes DEF on_sfu_publication_updates
<1>2. /\ subscription' = [s \in Sids |-> IF s \in new THEN "None"
                                         ELSE IF s \in gone THEN "unknown"
                                         ELSE subscription[s]]
      /\ sub_handle' = [s \in Sids |-> IF s \in gone THEN NoOne ELSE sub_handle[s]]
      /\ output' = SetToSeq({Event("TrackPublished", s) : s \in new})
                     \o SetToSeq({Event("TrackUnpublished", s) : s \in gone})
  BY <1>0 DEF on_sfu_publication_updates
<1>3. \A s \in Sids : UpStays(s)
  <2> DEFINE first == SetToSeq({Event("TrackPublished", s) : s \in new})
             second == SetToSeq({Event("TrackUnpublished", s) : s \in gone})
  <2>1. new \in SUBSET Sids /\ gone \in SUBSET Sids
    BY DEF Known
  <2>2. /\ first \in Seq(Outputs) /\ second \in Seq(Outputs)
        /\ \A e \in ToSet(first) : e.type = "TrackPublished"
        /\ \A e \in ToSet(second) : e.type = "TrackUnpublished"
    <3>1. /\ first \in Seq(Outputs) /\ ToSet(first) = {Event("TrackPublished", s) : s \in new}
          /\ second \in Seq(Outputs) /\ ToSet(second) = {Event("TrackUnpublished", s) : s \in gone}
      <4> HIDE DEF new, gone
      <4> QED
        BY <2>1, OutputOf
    <3> HIDE DEF first, second, new, gone
    <3> QED
      BY <3>1 DEF Event
  <2>3. output' = first \o second
    BY <1>2
  <2> HIDE DEF first, second
  <2>4. ToSet(output') \subseteq ToSet(first) \cup ToSet(second)
    <3>1. \A i \in DOMAIN (first \o second) :
             \/ i \in DOMAIN first /\ (first \o second)[i] = first[i]
             \/ i - Len(first) \in DOMAIN second /\ (first \o second)[i] = second[i - Len(first)]
      BY <2>2
    <3> QED
      BY <2>3, <3>1 DEF ToSet
  <2>5. \A s \in Sids : ToSet(output') \cap RequestsOf(s) = {}
    BY <2>2, <2>4, Kinds
  <2> QED
    BY <1>1, <2>5, MadeUp
<1>4. \A s \in Sids : PublicationStays(s)
  BY <1>1 DEF PublicationStays
<1> SUFFICES ASSUME NEW s \in Sids PROVE TrackInv(s)'
  BY <1>1 DEF Steady, Tracks
<1>5. /\ TrackInv(s) /\ server[s] \in Handles \cup {NoOne}
      /\ subscription[s] \in {"unknown", "None", "Pending", "Active"}
  BY SteadyFacts
<1>6. /\ x \in Updates /\ x \notin HandlesOf(s) /\ x # Resend
      /\ s \in tracks => x \in Naming(s) /\ x \notin Omitting(s)
      /\ s \notin tracks => x \in Omitting(s) /\ x \notin Naming(s)
  <2>1. x \in Updates /\ x \notin HandlesOf(s) /\ x # Resend
    BY <1>1, Kinds, UpdateKinds
  <2>2. Naming(s) \cap Omitting(s) = {}
    BY UpdateKinds
  <2>3. /\ s \in tracks => x \in Naming(s)
        /\ s \notin tracks => x \in Omitting(s)
    BY <1>0, <1>1, UpdateKinds
  <2> HIDE DEF x
  <2> QED
    BY <2>1, <2>2, <2>3
<1>7. /\ subscription'[s] = IF s \in new THEN "None"
                             ELSE IF s \in gone THEN "unknown" ELSE subscription[s]
      /\ sub_handle'[s] = IF s \in gone THEN NoOne ELSE sub_handle[s]
      /\ s \in new <=> s \in tracks /\ subscription[s] = "unknown"
      /\ s \in gone <=> s \notin tracks /\ subscription[s] # "unknown"
  BY <1>2 DEF Known
<1>8. /\ Naming(s) \in SUBSET Updates /\ Omitting(s) \in SUBSET Updates
      /\ Updates \subseteq Relevant(s)
  BY UpdateKinds DEF Relevant
\* What the update leaves of the other updates.
<1>9. /\ NoneComes(Naming(s)) => NoneComes(Naming(s))' /\ x \notin Naming(s)
      /\ NoneComes(Omitting(s)) => NoneComes(Omitting(s))' /\ x \notin Omitting(s)
      /\ ~NoneComes(Updates)
      /\ \A u \in Omitting(s) :
            LastToCome(Updates, u) => LastToCome(Updates, u)' \/ (x = u /\ NoneComes(Updates)')
      /\ NamedInv(s) /\ s \in published =>
            /\ Precede(event_in, answers, Naming(s), Omitting(s))'
            /\ x \in Naming(s) => NoneComes(Omitting(s))'
  <2>1. DownTaken(s, x)
    BY <1>1
  <2> HIDE DEF x
  <2>2. \A X \in SUBSET Relevant(s) :
          /\ NoneComes(X) => NoneComes(X)' /\ x \notin X
          /\ \A e \in X : LastToCome(X, e) => LastToCome(X, e)' \/ (x = e /\ NoneComes(X)')
    BY <2>1 DEF DownTaken
  <2>3. {Naming(s), Omitting(s), Updates} \subseteq SUBSET Relevant(s)
    BY <1>8
  <2>4. NoneComes(Updates) => x \notin Updates
    BY <2>2, <2>3
  <2>5. \A u \in Omitting(s) :
            LastToCome(Updates, u) => LastToCome(Updates, u)' \/ (x = u /\ NoneComes(Updates)')
    BY <1>8, <2>2, <2>3
  <2>6. NamedInv(s) /\ s \in published =>
            /\ Precede(event_in, answers, Naming(s), Omitting(s))'
            /\ x \in Naming(s) => NoneComes(Omitting(s))'
    BY <2>1 DEF DownTaken, NamedInv
  <2> QED
    BY <1>6, <2>2, <2>3, <2>4, <2>5, <2>6
<1> HIDE DEF x, new, gone
\* A track that is still published is not omitted.
<1>10. s \in gone => s \in withdrawn /\ s \notin published
  <2>1. s \in gone /\ s \in published => FALSE
    BY <1>5, <1>6, <1>7, <1>9 DEF TrackInv, NamedInv
  <2> QED
    BY <1>5, <1>7, <2>1 DEF TrackInv, UnknownInv
<1>11. UnknownInv(s)'
  <2>1. s \notin published \cup withdrawn => subscription[s] = "unknown" /\ NoneComes(Naming(s))
    BY <1>5 DEF TrackInv, UnknownInv
  <2>2. s \notin published \cup withdrawn => subscription'[s] = "unknown" /\ NoneComes(Naming(s))'
    BY <1>6, <1>7, <1>9, <2>1
  <2> QED
    BY <1>4, <2>2 DEF UnknownInv, PublicationStays
<1>12. NamedInv(s)'
  <2>1. s \in published =>
          /\ Precede(event_in, answers, Naming(s), Omitting(s))'
          /\ subscription'[s] # "unknown" => NoneComes(Omitting(s))'
    BY <1>5, <1>6, <1>7, <1>9 DEF TrackInv, NamedInv
  <2> QED
    BY <1>4, <2>1 DEF NamedInv, PublicationStays
<1>13. WithdrawnInv(s)'
  <2>1. s \in withdrawn => \E u \in Omitting(s) : LastToCome(Updates, u)
    BY <1>5, <1>9 DEF TrackInv, WithdrawnInv
  <2>2. s \in withdrawn =>
          \/ \E u \in Omitting(s) : LastToCome(Updates, u)'
          \/ NoneComes(Updates)' /\ subscription'[s] = "unknown"
    BY <1>6, <1>7, <1>9, <2>1
  <2> QED
    BY <1>4, <2>2, Constants DEF WithdrawnInv, PublicationStays, LastToCome
<1>14. CASE s \notin gone
  <2>1. ServedInv(s)' /\ ReleasedInv(s)' /\ WantedInv(s)'
    <3>1. NoneComes({Resend})' => NoneComes({Resend})
      BY <1>1, <1>6 DEF DownTaken
    <3>2. /\ subscription'[s] \in {"unknown", "None"} <=> subscription[s] \in {"unknown", "None"}
          /\ subscription'[s] \in {"Pending", "Active"} => subscription[s] \in {"Pending", "Active"}
      BY <1>7, <1>14
    <3> QED
      BY <1>1, <1>3, <1>4, <1>5, <3>1, <3>2, RequestsStay DEF TrackInv
  <2>2. AnnouncedInv(s)'
    <3>1. HandlesStay(s)
      BY <1>1, <1>6, DownParts
    <3>2. subscription[s] = "Active" =>
             subscription'[s] = "Active" /\ sub_handle'[s] = sub_handle[s]
      BY <1>7, <1>14
    <3> QED
      BY <1>1, <1>3, <1>5, <3>1, <3>2, AnnouncementStays DEF TrackInv, UpStays
  <2> QED
    BY <1>11, <1>12, <1>13, <2>1, <2>2 DEF TrackInv
<1>15. CASE s \in gone
  <2>1. s \notin published' /\ s \in withdrawn' /\ server'[s] = NoOne
    BY <1>1, <1>5, <1>10, <1>15 DEF TrackInv, ServedInv
  <2>2. ServedInv(s)' /\ ReleasedInv(s)' /\ WantedInv(s)' /\ AnnouncedInv(s)'
    BY <2>1 DEF ServedInv, ReleasedInv, WantedInv, AnnouncedInv
  <2> QED
    BY <1>11, <1>12, <1>13, <2>2 DEF TrackInv
<1> QED
  BY <1>14, <1>15

LEMMA HandlesStep == ASSUME Steady, on_sfu_subscriber_handles PROVE Tracks'
<1> USE DEF mgrVars, ctlVars, serverVars
<1>0. /\ Head(event_in) \in Inputs /\ Head(event_in).type = "SfuSubscriberHandles"
      /\ output = <<>> /\ event_out' = event_out
      /\ \A s \in Sids : DownTaken(s, Head(event_in))
      /\ UNCHANGED <<output, server, published, withdrawn>>
  BY ManagerTakes DEF on_sfu_subscriber_handles
<1>1. PICK h \in Handles, t \in Sids : Head(event_in) = SubscriberHandle(h, t)
  BY <1>0, InputsAre, InputKinds
<1>2. Head(event_in).handle = h /\ Head(event_in).sid = t
  BY <1>1 DEF SubscriberHandle
<1>3. HandleChanged(h, t) \/ HandleAssigned(h, t)
        \/ (subscription[t] \in {"unknown", "None"} /\ UNCHANGED <<subscription, sub_handle>>)
  BY <1>2 DEF on_sfu_subscriber_handles
<1>4. /\ \A s \in Sids \ {t} : subscription'[s] = subscription[s] /\ sub_handle'[s] = sub_handle[s]
      /\ \/ /\ subscription[t] \in {"Pending", "Active"}
            /\ subscription'[t] = "Active" /\ sub_handle'[t] = h
         \/ /\ subscription[t] \in {"unknown", "None"}
            /\ subscription'[t] = subscription[t] /\ sub_handle'[t] = sub_handle[t]
  BY <1>3 DEF HandleChanged, HandleAssigned, Steady, Types, TypeOK
<1>5. \A s \in Sids : PublicationStays(s) /\ UpStays(s)
  BY <1>0, SameUp DEF PublicationStays
<1>6. ASSUME NEW s \in Sids, s # t PROVE TrackInv(s)'
  <2>1. Head(event_in) \notin Relevant(s)
    BY <1>0, <1>2, <1>6, Kinds DEF Relevant
  <2> QED
    BY <1>0, <1>4, <1>5, <1>6, <2>1, OtherTaken, QuietStep, SteadyFacts
<1>7. TrackInv(t)'
  <2>1. TrackInv(t) /\ server[t] \in Handles \cup {NoOne}
    BY SteadyFacts
  <2>2. SubscriberHandle(h, t) \in HandlesOf(t) /\ SubscriberHandle(h, t) \notin Updates
          /\ SubscriberHandle(h, t) # Resend
    BY Kinds DEF HandlesOf
  <2>3. DownTaken(t, SubscriberHandle(h, t))
    BY <1>0, <1>1
  <2>4. UnknownInv(t)' /\ NamedInv(t)' /\ WithdrawnInv(t)'
    BY <1>4, <1>5, <2>1, <2>2, <2>3, NamesStay, DownParts DEF TrackInv
  <2>5. ServedInv(t)' /\ ReleasedInv(t)' /\ WantedInv(t)'
    <3>1. NoneComes({Resend})' => NoneComes({Resend})
      BY <2>2, <2>3 DEF DownTaken
    <3>2. /\ subscription'[t] \in {"unknown", "None"} <=> subscription[t] \in {"unknown", "None"}
          /\ subscription'[t] \in {"Pending", "Active"} => subscription[t] \in {"Pending", "Active"}
      BY <1>4
    <3> QED
      BY <1>0, <1>5, <2>1, <3>1, <3>2, RequestsStay DEF TrackInv
  <2>6. AnnouncedInv(t)'
    <3>1. CASE server[t] = NoOne
      BY <1>0, <3>1 DEF AnnouncedInv
    <3>2. CASE ~NoneGoes({Unsubscribe(t)})'
      BY <3>2 DEF AnnouncedInv
    <3>3. ASSUME NEW g \in Handles, server[t] = g, NoneGoes({Unsubscribe(t)})'
          PROVE  AnnouncedInv(t)'
      <4>1. g # NoOne /\ SubscriberHandle(g, t) \in HandlesOf(t)
        BY NoOneAssumption DEF HandlesOf
      <4>2. NoneGoes({Unsubscribe(t)})
        BY <1>5, <3>3 DEF UpStays
      \* The server has a subscription: so the manager has one, which takes the handle.
      <4>3. subscription'[t] = "Active" /\ sub_handle'[t] = h
        <5>1. t \in published /\ t \notin withdrawn
          BY <2>1, <3>3, <4>1 DEF TrackInv, ServedInv, Steady, Tracks
        <5>2. ~LastToGo(RequestsOf(t), Unsubscribe(t))
          BY <4>2, LastMember DEF LastToGo, LastOf, NoneGoes, NoneOf
        <5>3. subscription[t] \notin {"unknown", "None"}
          BY <2>1, <3>3, <4>1, <5>1, <5>2 DEF TrackInv, ReleasedInv
        <5> QED
          BY <1>4, <5>3
      <4>4. LastToCome(HandlesOf(t), SubscriberHandle(g, t))
        <5>1. ~NoneComes(HandlesOf(t))
          BY <2>2, <2>3 DEF DownTaken
        <5> QED
          BY <2>1, <3>3, <4>1, <4>2, <5>1 DEF TrackInv, AnnouncedInv
      <4>5. \/ LastToCome(HandlesOf(t), SubscriberHandle(g, t))'
            \/ SubscriberHandle(h, t) = SubscriberHandle(g, t) /\ NoneComes(HandlesOf(t))'
        <5>1. HandlesOf(t) \in SUBSET Relevant(t)
          BY DEF Relevant
        <5> QED
          BY <2>3, <4>1, <4>4, <5>1 DEF DownTaken
      <4>6. SubscriberHandle(h, t) = SubscriberHandle(g, t) => h = g
        BY DEF SubscriberHandle
      <4> QED
        BY <1>0, <3>3, <4>3, <4>5, <4>6 DEF AnnouncedInv
    <3> QED
      BY <2>1, <3>1, <3>2, <3>3
  <2> QED
    BY <2>4, <2>5, <2>6 DEF TrackInv
<1> QED
  BY <1>0, <1>6, <1>7 DEF Steady, Tracks

LEMMA ResendStep == ASSUME Steady, on_resend_subscription_updates PROVE Tracks'
<1> USE DEF mgrVars, ctlVars, serverVars
<1>0. /\ Head(event_in) \in Inputs /\ Head(event_in).type = "ResendSubscriptionUpdates"
      /\ output = <<>> /\ event_out' = event_out
      /\ \A s \in Sids : DownTaken(s, Head(event_in))
      /\ UNCHANGED <<server, published, withdrawn, subscription, sub_handle>>
  BY ManagerTakes DEF on_resend_subscription_updates, appVars
<1>1. Head(event_in) = Resend
  BY <1>0 DEF Inputs, Resend, Event
<1>2. ToSet(output') = {Subscribe(t) : t \in Subscribed}
  <2>1. {Subscribe(t) : t \in Subscribed} = {Event("Subscribe", t) : t \in Subscribed}
    BY DEF Subscribe
  <2>2. ToSet(SetToSeq({Event("Subscribe", t) : t \in Subscribed}))
           = {Event("Subscribe", t) : t \in Subscribed}
    BY OutputOf DEF Subscribed
  <2> QED
    BY <2>1, <2>2 DEF on_resend_subscription_updates
<1> SUFFICES ASSUME NEW s \in Sids PROVE TrackInv(s)'
  BY <1>0 DEF Steady, Tracks
<1>3. /\ TrackInv(s) /\ server[s] \in Handles \cup {NoOne}
      /\ DownTaken(s, Resend) /\ PublicationStays(s)
  BY <1>0, <1>1, SteadyFacts DEF PublicationStays
<1>4. Resend \notin Updates /\ Resend \notin HandlesOf(s)
  BY Kinds
<1>5. UnknownInv(s)' /\ NamedInv(s)' /\ WithdrawnInv(s)'
  BY <1>0, <1>3, <1>4, NamesStay, DownParts DEF TrackInv
<1>6. AnnouncedInv(s)'
  <2>1. NoneGoes({Unsubscribe(s)})' => NoneGoes({Unsubscribe(s)})
    BY <1>0, MadeUp
  <2> QED
    BY <1>0, <1>3, <1>4, <2>1, AnnouncementStays, DownParts DEF TrackInv
<1>7. ServedInv(s)'
  BY <1>0, <1>3 DEF TrackInv, ServedInv
<1>8. CASE s \in Subscribed
  <2>1. ToSet(output') \cap RequestsOf(s) = {Subscribe(s)}
    <3>1. \A t \in Subscribed : Subscribe(t) \in RequestsOf(s) => t = s
      BY OtherRequests DEF Subscribed
    <3> QED
      BY <1>2, <1>8, <3>1 DEF RequestsOf
  <2>2. LastToGo(RequestsOf(s), Subscribe(s))'
    BY <1>0, <2>1, MadeUp
  <2>3. WantedInv(s)'
    BY <2>2 DEF WantedInv
  <2>4. ReleasedInv(s)'
    BY <1>0, <1>8 DEF ReleasedInv, Subscribed
  <2> QED
    BY <1>5, <1>6, <1>7, <2>3, <2>4 DEF TrackInv
<1>9. CASE s \notin Subscribed
  <2>1. ToSet(output') \cap RequestsOf(s) = {}
    BY <1>2, <1>9, OtherRequests DEF Subscribed
  <2>2. UpStays(s)
    BY <1>0, <2>1, MadeUp
  <2>3. ReleasedInv(s)'
    <3>1. LastToGo(RequestsOf(s), Unsubscribe(s)) => LastToGo(RequestsOf(s), Unsubscribe(s))'
      BY <2>2 DEF UpStays, RequestsOf
    <3>2. NoneGoes(RequestsOf(s)) => NoneGoes(RequestsOf(s))'
      BY <2>2 DEF UpStays
    <3> QED
      BY <1>0, <1>3, <3>1, <3>2 DEF TrackInv, ReleasedInv
  <2>4. WantedInv(s)'
    BY <1>0, <1>9 DEF WantedInv, Subscribed
  <2> QED
    BY <1>5, <1>6, <1>7, <2>3, <2>4 DEF TrackInv
<1> QED
  BY <1>8, <1>9

\* The forwarder takes a request, for the server.
UpTaken(s, x) ==
    /\ \A X \in SUBSET RequestsOf(s) :
          /\ NoneGoes(X) => NoneGoes(X)' /\ x \notin X
          /\ \A e \in X : LastToGo(X, e) => LastToGo(X, e)' \/ (x = e /\ NoneGoes(X)')
    /\ x # Unsubscribe(s) /\ NoneGoes({Unsubscribe(s)})' => NoneGoes({Unsubscribe(s)})

LEMMA TakenUp ==
    ASSUME ChannelTypes, event_out # <<>>, event_out' = Tail(event_out), output' = output
    PROVE  \A s \in Sids : UpTaken(s, Head(event_out))
<1> SUFFICES ASSUME NEW s \in Sids PROVE UpTaken(s, Head(event_out))
  OBVIOUS
<1> DEFINE x == Head(event_out)
<1>1. ToSet(event_out) = {x} \cup ToSet(event_out')
  BY TailSet DEF ChannelTypes
<1>2. \A X : /\ NoneGoes(X) => NoneGoes(X)' /\ x \notin X
             /\ x \notin X /\ NoneGoes(X)' => NoneGoes(X)
  BY <1>1 DEF NoneGoes, NoneOf
<1>3. ASSUME NEW X, NEW e
      PROVE  LastToGo(X, e) => LastToGo(X, e)' \/ (x = e /\ NoneGoes(X)')
  <2>1. /\ LastToGo(X, e)' <=> LastOf(Tail(event_out), output, X, e)
        /\ NoneGoes(X)' <=> NoneOf(Tail(event_out), X) /\ NoneOf(output, X)
    BY DEF LastToGo, NoneGoes, NoneOf, LastOf, LastIs
  <2> QED
    BY <2>1, FirstShrinks DEF ChannelTypes, LastToGo
<1>4. x # Unsubscribe(s) /\ NoneGoes({Unsubscribe(s)})' => NoneGoes({Unsubscribe(s)})
  BY <1>2
<1> HIDE DEF x
<1> QED
  BY <1>2, <1>3, <1>4 DEF UpTaken, x

LEMMA OtherUp ==
    ASSUME NEW s \in Sids, NEW x, UpTaken(s, x), x \notin RequestsOf(s)
    PROVE  UpStays(s)
BY DEF UpTaken, UpStays, RequestsOf

\* The server, or the new session, adds an event that is on its way to the manager.
LEMMA AddedDown ==
    ASSUME ChannelTypes, NEW x \in Inputs, event_in' = event_in, answers' = Append(answers, x),
           NEW s \in Sids
    PROVE  /\ \A X : x \notin X =>
                 /\ NoneComes(X) => NoneComes(X)'
                 /\ \A e : LastToCome(X, e) => LastToCome(X, e)'
           /\ \A X : LastToCome(X, x)'
           /\ \A X : NoneComes(X)' => NoneComes(X)
           /\ /\ \/ x \notin Omitting(s)
                 \/ NoneComes(Naming(s))
              /\ Precede(event_in, answers, Naming(s), Omitting(s))
              => Precede(event_in, answers, Naming(s), Omitting(s))'
           /\ x \notin Relevant(s) => DownStays(s)
<1>1. ASSUME NEW X, NEW e
      PROVE  /\ x \notin X /\ NoneComes(X) => NoneComes(X)'
             /\ x \notin X /\ LastToCome(X, e) => LastToCome(X, e)'
             /\ LastToCome(X, x)'
             /\ NoneComes(X)' => NoneComes(X)
  <2>1. /\ NoneComes(X)' <=> NoneOf(event_in, X) /\ NoneOf(Append(answers, x), X)
        /\ LastToCome(X, e)' <=> LastOf(event_in, Append(answers, x), X, e)
        /\ LastToCome(X, x)' <=> LastOf(event_in, Append(answers, x), X, x)
    BY DEF NoneComes, LastToCome, NoneOf, LastOf, LastIs
  <2>2. NoneOf(Append(answers, x), X) => NoneOf(answers, X)
    BY AppendSet DEF ChannelTypes, NoneOf
  <2> QED
    BY <2>1, <2>2, SecondGrows DEF ChannelTypes, NoneComes, LastToCome
<1>2. /\ x \notin Omitting(s) \/ NoneComes(Naming(s))
      /\ Precede(event_in, answers, Naming(s), Omitting(s))
      => Precede(event_in, answers, Naming(s), Omitting(s))'
  <2>1. Precede(event_in, answers, Naming(s), Omitting(s))'
           <=> Precede(event_in, Append(answers, x), Naming(s), Omitting(s))
    BY DEF Precede, NoneOf, NoneAfter, Naming, Omitting
  <2> QED
    BY <2>1, SecondGrowsAfter DEF ChannelTypes, NoneComes
<1>3. x \notin Relevant(s) => DownStays(s)
  <2>1. Naming(s) \cup Omitting(s) \subseteq Relevant(s)
    BY UpdateKinds DEF Relevant
  <2> QED
    BY <1>1, <1>2, <2>1 DEF DownStays, Relevant
<1> QED
  BY <1>1, <1>2, <1>3

\* The server hears of the end of a subscription.
LEMMA ServerEnds ==
    ASSUME Steady, NEW t \in Sids, UpTaken(t, Unsubscribe(t)), DownStays(t), PublicationStays(t),
           subscription' = subscription, sub_handle' = sub_handle, server'[t] = NoOne
    PROVE  TrackInv(t)'
<1>1. TrackInv(t)
  BY SteadyFacts
<1>2. UnknownInv(t)' /\ NamedInv(t)' /\ WithdrawnInv(t)'
  BY <1>1, NamesStay, DownParts DEF TrackInv
<1>3. ServedInv(t)' /\ AnnouncedInv(t)'
  BY DEF ServedInv, AnnouncedInv
<1>4. /\ RequestsOf(t) \in SUBSET RequestsOf(t) /\ Unsubscribe(t) \in RequestsOf(t)
      /\ Subscribe(t) \in RequestsOf(t) /\ Subscribe(t) # Unsubscribe(t)
  BY Kinds DEF RequestsOf
<1>5. /\ LastToGo(RequestsOf(t), Unsubscribe(t)) =>
            LastToGo(RequestsOf(t), Unsubscribe(t))' \/ NoneGoes(RequestsOf(t))'
      /\ LastToGo(RequestsOf(t), Subscribe(t)) => LastToGo(RequestsOf(t), Subscribe(t))'
      /\ ~NoneGoes(RequestsOf(t))
  BY <1>4 DEF UpTaken
<1>6. ReleasedInv(t)'
  BY <1>1, <1>5 DEF TrackInv, ReleasedInv, PublicationStays
<1>7. WantedInv(t)'
  <2>1. NoneComes({Resend})' => NoneComes({Resend})
    BY DEF DownStays
  <2> QED
    BY <1>1, <1>5, <2>1 DEF TrackInv, WantedInv, PublicationStays
<1> QED
  BY <1>2, <1>3, <1>6, <1>7 DEF TrackInv

\* The server hears of the beginning of one: it announces a handle for a track that it
\* does not serve.
LEMMA ServerBegins ==
    ASSUME Steady, NEW t \in Sids, UpTaken(t, Subscribe(t)), event_in' = event_in,
           UNCHANGED <<subscription, sub_handle, published, withdrawn>>,
           \/ /\ t \in published /\ server[t] = NoOne
              /\ \E h \in Handles : /\ server'[t] = h
                                    /\ answers' = Append(answers, SubscriberHandle(h, t))
           \/ ~(t \in published /\ server[t] = NoOne) /\ UNCHANGED <<server, answers>>
    PROVE  TrackInv(t)'
<1>1. TrackInv(t) /\ PublicationStays(t) /\ server[t] \in Handles \cup {NoOne}
  BY SteadyFacts DEF PublicationStays
<1>2. /\ RequestsOf(t) \in SUBSET RequestsOf(t) /\ Unsubscribe(t) \in RequestsOf(t)
      /\ Subscribe(t) \in RequestsOf(t) /\ Subscribe(t) # Unsubscribe(t)
  BY Kinds DEF RequestsOf
<1>3. /\ LastToGo(RequestsOf(t), Unsubscribe(t)) => LastToGo(RequestsOf(t), Unsubscribe(t))'
      /\ LastToGo(RequestsOf(t), Subscribe(t)) =>
            LastToGo(RequestsOf(t), Subscribe(t))' \/ NoneGoes(RequestsOf(t))'
      /\ ~NoneGoes(RequestsOf(t))
      /\ NoneGoes({Unsubscribe(t)})' => NoneGoes({Unsubscribe(t)})
  BY <1>2 DEF UpTaken
<1>4. ReleasedInv(t)'
  BY <1>1, <1>3 DEF TrackInv, ReleasedInv, PublicationStays
<1>5. ASSUME NoneComes({Resend})' => NoneComes({Resend}), t \in published => server'[t] # NoOne
      PROVE  WantedInv(t)'
  BY <1>1, <1>3, <1>5 DEF TrackInv, WantedInv, PublicationStays
<1>6. ASSUME t \in published, server[t] = NoOne, NEW h \in Handles, server'[t] = h,
             answers' = Append(answers, SubscriberHandle(h, t))
      PROVE  TrackInv(t)'
  <2>1. /\ SubscriberHandle(h, t) \in Inputs /\ SubscriberHandle(h, t) \notin Updates
        /\ SubscriberHandle(h, t) # Resend /\ h # NoOne
    BY InputsMade, Kinds, NoOneAssumption DEF HandlesOf
  <2>2. UpdatesStay(t)
    <3>1. SubscriberHandle(h, t) \notin Omitting(t)
      BY <2>1, UpdateKinds
    <3> QED
      BY <1>6, <2>1, <3>1, AddedDown, SteadyFacts DEF UpdatesStay
  <2>3. UnknownInv(t)' /\ NamedInv(t)' /\ WithdrawnInv(t)'
    BY <1>1, <2>2, NamesStay DEF TrackInv
  <2>4. ServedInv(t)'
    BY <1>6 DEF ServedInv
  <2>5. WantedInv(t)'
    <3>1. NoneComes({Resend})' => NoneComes({Resend})
      BY <1>6, <2>1, AddedDown, SteadyFacts
    <3> QED
      BY <1>5, <1>6, <2>1, <3>1
  <2>6. AnnouncedInv(t)'
    <3>1. LastToCome(HandlesOf(t), SubscriberHandle(h, t))'
      BY <1>6, <2>1, AddedDown, SteadyFacts
    <3> QED
      BY <1>6, <3>1 DEF AnnouncedInv
  <2> QED
    BY <1>4, <2>3, <2>4, <2>5, <2>6 DEF TrackInv
<1>7. CASE ~(t \in published /\ server[t] = NoOne) /\ UNCHANGED <<server, answers>>
  <2>1. DownStays(t)
    BY <1>7, SameDown
  <2>2. UnknownInv(t)' /\ NamedInv(t)' /\ WithdrawnInv(t)'
    BY <1>1, <2>1, NamesStay, DownParts DEF TrackInv
  <2>3. ServedInv(t)'
    BY <1>1, <1>7 DEF TrackInv, ServedInv
  <2>4. WantedInv(t)'
    BY <1>5, <1>7, <2>1 DEF DownStays
  <2>5. AnnouncedInv(t)'
    BY <1>1, <1>3, <1>7, <2>1, AnnouncementStays, DownParts DEF TrackInv
  <2> QED
    BY <1>4, <2>2, <2>3, <2>4, <2>5 DEF TrackInv
<1> QED
  BY <1>6, <1>7

LEMMA ForwardOutputStep == ASSUME Steady, ForwardOutput PROVE Tracks'
<1> USE DEF mgrVars, ctlVars
<1>0. /\ event_out # <<>> /\ event_out' = Tail(event_out)
      /\ output' = output /\ event_in' = event_in
      /\ UNCHANGED <<subscription, sub_handle, published, withdrawn>>
  BY DEF ForwardOutput
<1>1. PICK x \in Outputs : x = Head(event_out)
  BY <1>0, TailSet, SteadyFacts DEF ChannelTypes
<1>2. PICK t \in Sids : t = x.sid
  BY OutputsMade
<1>3. \A s \in Sids : UpTaken(s, x) /\ PublicationStays(s)
  BY <1>0, <1>1, TakenUp, SteadyFacts DEF PublicationStays
<1>4. /\ x.type = "Subscribe" => x = Subscribe(t)
      /\ x.type = "Unsubscribe" => x = Unsubscribe(t)
      /\ \A s \in Sids :
            s # t \/ x.type \notin {"Subscribe", "Unsubscribe"} => x \notin RequestsOf(s)
  BY <1>2, Kinds DEF Outputs, Subscribe, Unsubscribe, Event
<1>5. IF x.type \in {"Subscribe", "Unsubscribe"}
      THEN ServerUpdates(t, x.type = "Subscribe")
      ELSE UNCHANGED <<server, answers>>
  BY <1>1, <1>2, SteadyFacts DEF ForwardOutput
<1>6. CASE x.type \notin {"Subscribe", "Unsubscribe"}
  BY <1>0, <1>3, <1>4, <1>5, <1>6, SameDown, OtherUp, NothingHappens
<1>7. CASE x.type = "Unsubscribe"
  <2>1. server' = [server EXCEPT ![t] = NoOne] /\ answers' = answers
    BY <1>5, <1>7 DEF ServerUpdates
  <2>2. server'[t] = NoOne /\ \A s \in Sids \ {t} : server'[s] = server[s]
    BY <2>1 DEF Steady, Types, TypeOK
  <2>3. \A s \in Sids : DownStays(s)
    BY <1>0, <2>1, SameDown
  <2>4. \A s \in Sids \ {t} : TrackInv(s)'
    BY <1>0, <1>3, <1>4, <2>2, <2>3, OtherUp, QuietStep, SteadyFacts
  <2>5. TrackInv(t)'
    BY <1>0, <1>3, <1>4, <1>7, <2>2, <2>3, ServerEnds
  <2> QED
    BY <1>0, <2>4, <2>5 DEF Steady, Tracks
<1>8. CASE x.type = "Subscribe"
  <2>1. \/ /\ t \in published /\ server[t] = NoOne
           /\ \E h \in Handles : /\ server' = [server EXCEPT ![t] = h]
                                 /\ answers' = Append(answers, SubscriberHandle(h, t))
        \/ ~(t \in published /\ server[t] = NoOne) /\ UNCHANGED <<server, answers>>
    BY <1>5, <1>8 DEF ServerUpdates
  <2>2. \A s \in Sids \ {t} : DownStays(s) /\ server'[s] = server[s]
    <3>1. CASE UNCHANGED <<server, answers>>
      BY <1>0, <3>1, SameDown
    <3>2. ASSUME NEW h \in Handles, server' = [server EXCEPT ![t] = h],
                 answers' = Append(answers, SubscriberHandle(h, t)), NEW s \in Sids \ {t}
          PROVE  DownStays(s) /\ server'[s] = server[s]
      <4>1. SubscriberHandle(h, t) \in Inputs
        BY InputsMade
      <4>2. SubscriberHandle(h, t) \notin Relevant(s)
        <5>1. SubscriberHandle(h, t).sid = t /\ SubscriberHandle(h, t).type = "SfuSubscriberHandles"
          BY DEF SubscriberHandle
        <5> QED
          BY <5>1, Kinds DEF Relevant
      <4> QED
        BY <1>0, <3>2, <4>1, <4>2, AddedDown, SteadyFacts DEF Steady, Types, TypeOK
    <3> QED
      BY <2>1, <3>1, <3>2
  <2>3. \A s \in Sids \ {t} : TrackInv(s)'
    BY <1>0, <1>3, <1>4, <2>2, OtherUp, QuietStep, SteadyFacts
  <2>4. TrackInv(t)'
    <3>1. \/ /\ t \in published /\ server[t] = NoOne
             /\ \E h \in Handles : /\ server'[t] = h
                                   /\ answers' = Append(answers, SubscriberHandle(h, t))
          \/ ~(t \in published /\ server[t] = NoOne) /\ UNCHANGED <<server, answers>>
      BY <2>1 DEF Steady, Types, TypeOK
    <3> QED
      BY <1>0, <1>3, <1>4, <1>8, <3>1, ServerBegins
  <2> QED
    BY <1>0, <2>3, <2>4 DEF Steady, Tracks
<1> QED
  BY <1>6, <1>7, <1>8

\* The server announces what is published: nothing new for a track that stays as it is.
LEMMA UpdateAdded ==
    ASSUME Steady, NEW tracks \in SUBSET Sids, event_in' = event_in,
           answers' = Append(answers, PublicationUpdate(tracks)),
           UNCHANGED <<subscription, sub_handle, event_out, output>>,
           NEW s \in Sids, PublicationStays(s), s \in published <=> s \in tracks,
           server'[s] = server[s]
    PROVE  TrackInv(s)'
<1> DEFINE u == PublicationUpdate(tracks)
<1>1. /\ u \in Inputs /\ u \in Updates /\ u \notin HandlesOf(s) /\ u # Resend
      /\ s \in tracks => u \in Naming(s) /\ u \notin Omitting(s)
      /\ s \notin tracks => u \in Omitting(s) /\ u \notin Naming(s)
  <2>1. u \in Inputs /\ u.type = "SfuPublicationUpdates" /\ u.tracks = tracks
    BY InputsMade, UpdateKinds
  <2>2. u \in Updates /\ u \notin HandlesOf(s) /\ u # Resend
    BY <2>1, Kinds, UpdateKinds
  <2>3. (s \in tracks => u \in Naming(s)) /\ (s \notin tracks => u \in Omitting(s))
    BY <2>1, UpdateKinds
  <2>4. Naming(s) \cap Omitting(s) = {}
    BY UpdateKinds
  <2> HIDE DEF u
  <2> QED
    BY <2>1, <2>2, <2>3, <2>4
<1>2. /\ \A X : u \notin X =>
             /\ NoneComes(X) => NoneComes(X)'
             /\ \A e : LastToCome(X, e) => LastToCome(X, e)'
      /\ \A X : LastToCome(X, u)'
      /\ \A X : NoneComes(X)' => NoneComes(X)
      /\ /\ u \notin Omitting(s)
         /\ Precede(event_in, answers, Naming(s), Omitting(s))
         => Precede(event_in, answers, Naming(s), Omitting(s))'
  BY <1>1, AddedDown, SteadyFacts
<1>3. TrackInv(s) /\ server[s] \in Handles \cup {NoOne}
  BY SteadyFacts
<1> HIDE DEF u
<1>4. UnknownInv(s)'
  <2>1. s \notin published \cup withdrawn => subscription[s] = "unknown" /\ NoneComes(Naming(s))'
    BY <1>1, <1>2, <1>3 DEF TrackInv, UnknownInv
  <2> QED
    BY <2>1 DEF UnknownInv, PublicationStays
<1>5. NamedInv(s)'
  <2>1. s \in published =>
          /\ Precede(event_in, answers, Naming(s), Omitting(s))'
          /\ subscription[s] # "unknown" => NoneComes(Omitting(s))'
    BY <1>1, <1>2, <1>3 DEF TrackInv, NamedInv
  <2> QED
    BY <2>1 DEF NamedInv, PublicationStays
<1>6. WithdrawnInv(s)'
  <2>1. s \in withdrawn => u \in Omitting(s)
    BY <1>1 DEF Steady, Tracks
  <2>2. \A X : LastToCome(X, u)'
    BY <1>2
  <2> QED
    BY <2>1, <2>2, Constants DEF WithdrawnInv, PublicationStays, LastToCome
<1>7. ServedInv(s)' /\ ReleasedInv(s)' /\ WantedInv(s)'
  BY <1>2, <1>3, RequestsStay, SameUp DEF TrackInv
<1>8. AnnouncedInv(s)'
  <2>1. HandlesStay(s)
    BY <1>1, <1>2 DEF HandlesStay
  <2> QED
    BY <1>3, <2>1, AnnouncementStays, SameUp DEF TrackInv, UpStays
<1> QED
  BY <1>4, <1>5, <1>6, <1>7, <1>8 DEF TrackInv

LEMMA PublishStep == ASSUME Steady, NEW t \in Sids, Publish(t) PROVE Tracks'
<1> USE DEF mgrVars, ctlVars, chanVars, appVars, roomVars
<1>0. /\ t \notin published \cup withdrawn
      /\ published' = published \cup {t} /\ withdrawn' = withdrawn
      /\ answers' = Append(answers, PublicationUpdate(published \cup {t}))
      /\ UNCHANGED <<subscription, sub_handle, server, event_in, event_out, output>>
  BY DEF Publish
<1>1. published \cup {t} \in SUBSET Sids
  BY DEF Steady, Types, TypeOK
<1>2. ASSUME NEW s \in Sids, s # t PROVE TrackInv(s)'
  BY <1>0, <1>1, <1>2, UpdateAdded DEF PublicationStays
<1>3. TrackInv(t)'
  <2>1. /\ TrackInv(t) /\ subscription'[t] = "unknown" /\ NoneComes(Naming(t))
        /\ server'[t] = NoOne
    BY <1>0, SteadyFacts DEF TrackInv, UnknownInv, ServedInv
  <2>2. NamedInv(t)'
    <3>1. Precede(event_in, answers, Naming(t), Omitting(t))
      <4>1. \A q : NoneOf(q, Naming(t)) => NoneAfter(q, Naming(t), Omitting(t))
        BY DEF NoneOf, NoneAfter, ToSet
      <4> QED
        BY <2>1, <4>1 DEF Precede, NoneComes
    <3>2. PublicationUpdate(published \cup {t}) \in Inputs
      BY <1>1, InputsMade
    <3>3. Precede(event_in, answers, Naming(t), Omitting(t))'
      BY <1>0, <2>1, <3>1, <3>2, AddedDown, SteadyFacts
    <3> QED
      BY <2>1, <3>3 DEF NamedInv
  <2>3. UnknownInv(t)' /\ WithdrawnInv(t)' /\ ServedInv(t)' /\ WantedInv(t)' /\ AnnouncedInv(t)'
    BY <1>0, <2>1 DEF UnknownInv, WithdrawnInv, ServedInv, WantedInv, AnnouncedInv
  <2>4. ReleasedInv(t)'
    <3>1. /\ LastToGo(RequestsOf(t), Unsubscribe(t)) => LastToGo(RequestsOf(t), Unsubscribe(t))'
          /\ NoneGoes(RequestsOf(t)) => NoneGoes(RequestsOf(t))'
      BY <1>0, SameUp DEF UpStays, RequestsOf
    <3>2. \/ LastToGo(RequestsOf(t), Unsubscribe(t))
          \/ NoneGoes(RequestsOf(t)) /\ server[t] = NoOne
      BY <1>0, <2>1 DEF TrackInv, ReleasedInv
    <3> QED
      BY <2>1, <3>1, <3>2 DEF ReleasedInv
  <2> QED
    BY <2>2, <2>3, <2>4 DEF TrackInv
<1>4. published' \cap withdrawn' = {}
  BY <1>0 DEF Steady, Tracks
<1> QED
  BY <1>2, <1>3, <1>4 DEF Tracks

LEMMA WithdrawStep == ASSUME Steady, NEW t \in Sids, Withdraw(t) PROVE Tracks'
<1> USE DEF mgrVars, ctlVars, chanVars, appVars, roomVars
<1>0. /\ t \in published
      /\ published' = published \ {t} /\ withdrawn' = withdrawn \cup {t}
      /\ server' = [server EXCEPT ![t] = NoOne]
      /\ answers' = Append(answers, PublicationUpdate(published \ {t}))
      /\ UNCHANGED <<subscription, sub_handle, event_in, event_out, output>>
  BY DEF Withdraw
<1>1. /\ published \ {t} \in SUBSET Sids
      /\ server'[t] = NoOne /\ \A s \in Sids \ {t} : server'[s] = server[s]
  BY <1>0 DEF Steady, Types, TypeOK
<1>2. ASSUME NEW s \in Sids, s # t PROVE TrackInv(s)'
  BY <1>0, <1>1, <1>2, UpdateAdded DEF PublicationStays
<1>3. TrackInv(t)'
  <2>1. WithdrawnInv(t)'
    <3>1. PublicationUpdate(published \ {t}) \in Inputs \cap Omitting(t)
      BY <1>1, InputsMade DEF Omitting
    <3>2. PICK u \in Inputs : u = PublicationUpdate(published \ {t})
      BY <3>1
    <3>3. LastToCome(Updates, u)'
      BY <1>0, <3>2, AddedDown, SteadyFacts
    <3> QED
      BY <3>1, <3>2, <3>3, Constants DEF WithdrawnInv, LastToCome
  <2>2. t \notin published' /\ t \in withdrawn' /\ server'[t] = NoOne
    BY <1>0, <1>1
  <2>3. /\ UnknownInv(t)' /\ NamedInv(t)' /\ ServedInv(t)' /\ ReleasedInv(t)'
        /\ WantedInv(t)' /\ AnnouncedInv(t)'
    BY <2>2 DEF UnknownInv, NamedInv, ServedInv, ReleasedInv, WantedInv, AnnouncedInv
  <2> QED
    BY <2>1, <2>3 DEF TrackInv
<1>4. published' \cap withdrawn' = {}
  BY <1>0 DEF Steady, Tracks
<1> QED
  BY <1>2, <1>3, <1>4 DEF Tracks

\* Whatever of the old session gets through, the update of the new one comes after it, and
\* then the request to send every subscription again.
LEMMA ReconnectStep == ASSUME Steady, Reconnect PROVE Tracks'
<1> USE DEF mgrVars, ctlVars, chanVars, appVars, roomVars
<1>0. /\ server' = [s \in Sids |-> NoOne]
      /\ UNCHANGED <<subscription, sub_handle, event_in, event_out, output>>
  BY DEF Reconnect
<1>1. PICK kept \in 0..Len(answers), stays \in {present, FALSE} :
        /\ present' = stays
        /\ published' = IF stays THEN published ELSE {}
        /\ withdrawn' = IF stays THEN withdrawn ELSE withdrawn \cup published
        /\ answers' = SubSeq(answers, 1, kept)
               \o (IF stays THEN <<PublicationUpdate(published)>> ELSE <<>>)
               \o <<Event("ResendSubscriptionUpdates", NoOne)>>
  BY DEF Reconnect
<1>2. PICK u \in Inputs : u = PublicationUpdate(published)
  BY InputsMade DEF Steady, Types, TypeOK
<1>3. PICK cut \in Seq(Inputs) : cut = SubSeq(answers, 1, kept)
  BY CutSet, SteadyFacts DEF ChannelTypes
<1>4. published' = published /\ withdrawn' = withdrawn /\ answers' = cut \o <<u>> \o <<Resend>>
  BY <1>1, <1>2, <1>3, SteadyFacts DEF Resend
<1>5. Resend \in Inputs
  BY InputsMade DEF Resend
<1>6. PICK q \in Seq(Inputs) : q = Append(cut, u)
  BY AppendSet
<1>7. answers' = Append(q, Resend)
  BY <1>4, <1>5, <1>6
<1>8. /\ ToSet(answers') = ToSet(q) \cup {Resend} /\ ToSet(q) = ToSet(cut) \cup {u}
      /\ ToSet(cut) \subseteq ToSet(answers)
  <2>1. ToSet(Append(q, Resend)) = ToSet(q) \cup {Resend}
    BY <1>5, AppendSet
  <2>2. ToSet(Append(cut, u)) = ToSet(cut) \cup {u}
    BY AppendSet
  <2>3. ToSet(SubSeq(answers, 1, kept)) \subseteq ToSet(answers)
    BY CutSet, SteadyFacts DEF ChannelTypes
  <2> QED
    BY <1>3, <1>6, <1>7, <2>1, <2>2, <2>3
<1>9. \A X : u \notin X /\ Resend \notin X /\ NoneComes(X) => NoneComes(X)'
  BY <1>0, <1>8 DEF NoneComes, NoneOf
<1> SUFFICES ASSUME NEW s \in Sids PROVE TrackInv(s)'
  BY <1>4 DEF Steady, Tracks
<1>10. /\ u \in Updates /\ Resend \notin Updates
       /\ s \in published => u \in Naming(s) /\ u \notin Omitting(s)
       /\ s \notin published => u \in Omitting(s) /\ u \notin Naming(s)
  <2>1. u \in Inputs /\ u.type = "SfuPublicationUpdates" /\ u.tracks = published
    BY <1>2, UpdateKinds DEF Steady, Types, TypeOK
  <2>2. Resend \notin Updates
    BY Kinds
  <2>3. (s \in published => u \in Naming(s)) /\ (s \notin published => u \in Omitting(s))
    BY <2>1, UpdateKinds
  <2>4. Naming(s) \cap Omitting(s) = {} /\ u \in Updates
    BY <2>1, UpdateKinds
  <2> QED
    BY <2>2, <2>3, <2>4
<1>11. TrackInv(s) /\ Naming(s) \subseteq Updates /\ Omitting(s) \subseteq Updates
  BY SteadyFacts, UpdateKinds
<1>12. UnknownInv(s)'
  <2>1. s \notin published \cup withdrawn => subscription[s] = "unknown" /\ NoneComes(Naming(s))'
    BY <1>9, <1>10, <1>11 DEF TrackInv, UnknownInv
  <2> QED
    BY <1>0, <1>4, <2>1 DEF UnknownInv
<1>13. NamedInv(s)'
  <2>1. CASE s \notin published
    BY <1>4, <2>1 DEF NamedInv
  <2>2. CASE s \in published
    <3>1. Precede(event_in, answers, Naming(s), Omitting(s))
      BY <1>11, <2>2 DEF TrackInv, NamedInv
    <3>2. Precede(event_in, cut, Naming(s), Omitting(s))
      <4>1. NoneAfter(cut, Naming(s), Omitting(s))
        BY <1>3, <3>1, AfterCut, SteadyFacts DEF Precede, ChannelTypes
      <4>2. NoneOf(answers, Omitting(s)) => NoneOf(cut, Omitting(s))
        BY <1>8 DEF NoneOf
      <4> QED
        BY <3>1, <4>1, <4>2 DEF Precede
    <3>3. Precede(event_in, q, Naming(s), Omitting(s))
      BY <1>6, <1>10, <2>2, <3>2, SecondGrowsAfter, SteadyFacts DEF ChannelTypes
    <3>4. Precede(event_in, Append(q, Resend), Naming(s), Omitting(s))
      BY <1>5, <1>10, <1>11, <3>3, SecondGrowsAfter, SteadyFacts DEF ChannelTypes
    <3>5. Precede(event_in, answers, Naming(s), Omitting(s))'
      BY <1>0, <1>7, <3>4, Constants
    <3>6. subscription[s] # "unknown" => NoneComes(Omitting(s))'
      BY <1>9, <1>10, <1>11, <2>2 DEF TrackInv, NamedInv
    <3> QED
      BY <1>0, <3>5, <3>6 DEF NamedInv
  <2> QED
    BY <2>1, <2>2
<1>14. WithdrawnInv(s)'
  <2>1. s \in withdrawn => u \in Omitting(s)
    BY <1>10 DEF Steady, Tracks
  <2>2. LastIs(q, Updates, u)
    BY <1>6, LastAppend
  <2>3. LastIs(Append(q, Resend), Updates, u)
    BY <1>5, <1>10, <2>2, LastAppend
  <2>4. LastOf(event_in', answers', Updates, u)
    BY <1>7, <2>3 DEF LastOf
  <2> QED
    BY <1>4, <2>1, <2>4, Constants DEF WithdrawnInv
<1>15. ServedInv(s)' /\ AnnouncedInv(s)'
  BY <1>0 DEF ServedInv, AnnouncedInv
<1>16. ReleasedInv(s)'
  <2>1. /\ LastToGo(RequestsOf(s), Unsubscribe(s)) => LastToGo(RequestsOf(s), Unsubscribe(s))'
        /\ NoneGoes(RequestsOf(s)) => NoneGoes(RequestsOf(s))'
    BY <1>0, SameUp DEF UpStays, RequestsOf
  <2> QED
    BY <1>0, <1>4, <1>11, <2>1 DEF TrackInv, ReleasedInv
<1>17. WantedInv(s)'
  BY <1>8 DEF WantedInv, NoneComes, NoneOf
<1> QED
  BY <1>12, <1>13, <1>14, <1>15, <1>16, <1>17 DEF TrackInv

-----------------------------------------------------------------------------
(* The invariant *)

LEMMA InvInit == Init => IInv
<1> SUFFICES ASSUME Init PROVE IInv
  OBVIOUS
<1>1. /\ ToSet(event_in) = {} /\ ToSet(answers) = {} /\ ToSet(event_out) = {} /\ ToSet(output) = {}
  BY DEF Init, ToSet
<1>2. ClosingInv
  BY <1>1 DEF Init, ClosingInv
<1>3. TracksInv
  <2>1. ASSUME NEW s \in Sids PROVE TrackInv(s)
    <3>1. subscription[s] = "unknown" /\ server[s] = NoOne /\ published = {} /\ withdrawn = {}
      BY DEF Init
    <3> QED
      BY <1>1, <3>1 DEF TrackInv, UnknownInv, NamedInv, WithdrawnInv, ServedInv, ReleasedInv,
         WantedInv, AnnouncedInv, NoneComes, NoneGoes, NoneOf
  <2> QED
    BY <2>1 DEF Init, TracksInv
<1> QED
  BY <1>2, <1>3, TypeInit DEF IInv

LEMMA TracksStep == ASSUME Steady, Next PROVE Tracks'
BY ApplicationSteps, TaskSteps, ForwardingSteps, SubscribeStep, UnsubscribeStep, PublicationsStep,
   HandlesStep, ResendStep, ForwardOutputStep, PublishStep, WithdrawStep, ReconnectStep
   DEF Next, ManagerStep

LEMMA InvStep == IInv /\ [Next]_vars => IInv'
<1> SUFFICES ASSUME IInv, [Next]_vars PROVE IInv'
  OBVIOUS
<1>1. Types' /\ ClosingInv'
  BY TypeStep, ClosingStep DEF IInv
<1>2. TracksInv'
  <2>1. CASE ~Undisturbed'
    BY <2>1 DEF TracksInv
  <2>2. CASE Undisturbed'
    <3>1. Steady
      BY <2>2, Lasting DEF IInv, TracksInv, Steady, Tracks
    <3>2. Tracks'
      <4>1. CASE Next
        BY <3>1, <4>1, TracksStep
      <4>2. CASE UNCHANGED vars
        BY <3>1, <4>2, NothingHappens, SameDown, SameUp
           DEF vars, mgrVars, ctlVars, chanVars, serverVars
      <4> QED
        BY <4>1, <4>2
    <3> QED
      BY <3>2 DEF TracksInv, Tracks
  <2> QED
    BY <2>1, <2>2
<1> QED
  BY <1>1, <1>2 DEF IInv

LEMMA InvAgrees == IInv => AgreedWithServer
<1> SUFFICES ASSUME IInv, Settled, ~lost, present, NEW s \in Sids
             PROVE  IF server[s] # NoOne
                    THEN subscription[s] = "Active" /\ sub_handle[s] = server[s]
                    ELSE subscription[s] \notin {"Pending", "Active"}
  BY DEF AgreedWithServer
<1>1. /\ \A X : NoneComes(X) /\ NoneGoes(X)
      /\ \A X, e : ~LastToCome(X, e) /\ ~LastToGo(X, e)
  <2>1. ToSet(event_in) = {} /\ ToSet(answers) = {} /\ ToSet(event_out) = {} /\ ToSet(output) = {}
    BY DEF Settled, ToSet
  <2>2. \A X, e : ~LastToCome(X, e) /\ ~LastToGo(X, e)
    BY <2>1, LastMember DEF LastToCome, LastToGo, LastOf
  <2> QED
    BY <2>1, <2>2 DEF NoneComes, NoneGoes, NoneOf
<1>2. TrackInv(s) /\ published \cap withdrawn = {}
  BY DEF IInv, TracksInv, Undisturbed, Settled
<1>3. CASE server[s] # NoOne
  BY <1>1, <1>2, <1>3 DEF TrackInv, AnnouncedInv
<1>4. CASE server[s] = NoOne
  <2>1. s \in published => subscription[s] \notin {"Pending", "Active"}
    BY <1>1, <1>2, <1>4 DEF TrackInv, WantedInv
  <2>2. s \in withdrawn => subscription[s] = "unknown"
    BY <1>1, <1>2 DEF TrackInv, WithdrawnInv
  <2>3. s \notin published \cup withdrawn => subscription[s] = "unknown"
    BY <1>2 DEF TrackInv, UnknownInv
  <2> QED
    BY <1>4, <2>1, <2>2, <2>3
<1> QED
  BY <1>3, <1>4

\* Every variable has its type, and no channel of the manager holds more than
\* EVENT_BUFFER_COUNT events.
THEOREM RemoteTypes == Safe => []TypeOK
<1>1. Types => TypeOK
  BY DEF Types
<1> QED
  BY TypeInit, TypeStep, <1>1, PTL DEF Safe

\* Once every event is handled, the manager and the server agree on what is subscribed
\* and under which handle: it is about the handlers of the manager, each of which decides
\* on what it knew when the events of the server and its own requests crossed, and about
\* on_resend_subscription_updates, which brings the two together in a new session.
THEOREM Agreement == Safe => []AgreedWithServer
<1>1. Safe => []IInv
  BY InvInit, InvStep, PTL DEF Safe
<1> QED
  BY <1>1, InvAgrees, PTL

=============================================================================
