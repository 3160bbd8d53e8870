----------------------------- MODULE ReliableData -----------------------------
(***************************************************************************)
(* livekit/src/rtc_engine/rtc_session.rs: the way of a data packet from    *)
(* publish_data through the data_channel_task of the publishing session,   *)
(* its data channel and the server to the rtc task of a receiving session, *)
(* and what a resume of either session retransmits.                        *)
(*                                                                         *)
(* A packet is named by its publication and has size 1.  The server and    *)
(* the two data channels are external: the channels deliver in order, and  *)
(* a lost link loses what was under way.                                   *)
(***************************************************************************)
EXTENDS Naturals, Sequences, FiniteSets, SequencesExt

CONSTANTS
    Reliable,        \* publications of kind Reliable
    Lossy,           \* publications of kind Lossy
    Threshold,       \* buffered_amount_low_threshold, in packets
    PubResumes,      \* resumes of the publishing session (bound)
    SubResumes       \* resumes of the receiving session (bound)

ASSUME PublicationsAssumption == Reliable \cap Lossy = {} /\ IsFiniteSet(Reliable)
ASSUME BoundsAssumption ==
    Threshold \in Nat /\ PubResumes \in Nat /\ SubResumes \in Nat

Publications == Reliable \cup Lossy
Kinds == {"reliable", "lossy"}
KindOf(p) == IF p \in Reliable THEN "reliable" ELSE "lossy"
MaxSeq == Cardinality(Reliable)

VARIABLES
    \* the publishing session
    result,          \* what publish_data returned, "waiting" while it awaits
    events,          \* dc_events, the channel of data_channel_task
    rtc_events,      \* callbacks of the data channels on their way to it
    next_sequence,   \* next_packet_sequence
    sequence,        \* sequence of each packet, 0 when it has none
    amount,          \* {lossy,reliable}_buffered_amount
    request_queue,   \* {lossy,reliable}_queue
    retry_queue,     \* sent packets kept for a retry
    task,            \* data_channel_task: "running" or "ended"
    \* the publisher's data channels
    dc_open, dc_buffer, link, wire,
    \* the server
    server,          \* packets it has, in order of arrival
    downlink,        \* packets on their way to the receiving session
    forwarding,      \* it forwards packets as they arrive
    sync,            \* sequences of SyncState on their way to it
    \* the receiving session
    rx_state,        \* packet_rx_state of the one publisher
    emitted,         \* how often each packet was emitted to the room
    \* history and bounds
    handed,          \* packets handed to the reliable channel
    pub_resumes, sub_resumes

pubVars == <<result, events, rtc_events, next_sequence, sequence, amount,
             request_queue, retry_queue, task, handed>>
dcVars == <<dc_open, dc_buffer, link, wire>>
subVars == <<downlink, forwarding, sync, rx_state, emitted>>
boundVars == <<pub_resumes, sub_resumes>>
vars == <<pubVars, dcVars, server, subVars, boundVars>>

-----------------------------------------------------------------------------
Init ==
    /\ result = [p \in Publications |-> "none"]
    /\ events = <<>>
    /\ rtc_events = <<>>
    /\ next_sequence = 1
    /\ sequence = [p \in Publications |-> 0]
    /\ amount = [k \in Kinds |-> 0]
    /\ request_queue = [k \in Kinds |-> <<>>]
    /\ retry_queue = <<>>
    /\ task = "running"
    /\ dc_open = TRUE
    /\ dc_buffer = [k \in Kinds |-> <<>>]
    /\ link = "up"
    /\ wire = <<>>
    /\ server = <<>>
    /\ downlink = <<>>
    /\ forwarding = TRUE
    /\ sync = <<>>
    /\ rx_state = 0
    /\ emitted = [p \in Publications |-> 0]
    /\ handed = {}
    /\ pub_resumes = 0
    /\ sub_resumes = 0

-----------------------------------------------------------------------------
(* DataChannelEvent *)

PublishPacket(p) == [type |-> "PublishPacket", packet |-> p]
PublishData(p) == [type |-> "PublishData", packet |-> p]
BufferedAmountChange(k, n) ==
    [type |-> "BufferedAmountChange", kind |-> k, sent |-> n]
RetryFrom(n) == [type |-> "RetryFrom", last |-> n]

IsEvent(type) == task = "running" /\ events # <<>> /\ Head(events).type = type

\* dc_emitter.send fails once the task has ended; publish_data then returns Err.
publish_data(p) ==
    /\ result[p] = "none"
    /\ IF task = "running"
       THEN /\ result' = [result EXCEPT ![p] = "waiting"]
            /\ events' = Append(events, PublishPacket(p))
       ELSE result' = [result EXCEPT ![p] = "err"] /\ UNCHANGED events
    /\ UNCHANGED <<rtc_events, next_sequence, sequence, amount, request_queue,
                   retry_queue, task, handed, dcVars, server,
                   subVars, boundVars>>

-----------------------------------------------------------------------------
(* data_channel_task *)

\* A reliable packet gets its sequence; the encoded packet is queued again.
OnPublishPacket ==
    /\ IsEvent("PublishPacket")
    /\ LET p == Head(events).packet IN
         /\ events' = Append(Tail(events), PublishData(p))
         /\ IF p \in Reliable
            THEN /\ sequence' = [sequence EXCEPT ![p] = next_sequence]
                 /\ next_sequence' = next_sequence + 1
            ELSE UNCHANGED <<sequence, next_sequence>>
    /\ UNCHANGED <<result, rtc_events, amount, request_queue, retry_queue,
                   task, handed, dcVars, server, subVars, boundVars>>

\* How many packets of a queue go out: one while the amount is within the
\* threshold, then the next.
Sendable(q, buffered) ==
    Cardinality({i \in DOMAIN q : buffered + (i - 1) <= Threshold})

\* _send_until_threshold over queue q of kind k with the given buffered amount.
\* The amount grows and the packet is kept for a retry whether or not the
\* channel took it.
SendUntilThreshold(k, q, buffered) ==
    LET n == Sendable(q, buffered)
        out == SubSeq(q, 1, n)
    IN  /\ amount' = [amount EXCEPT ![k] = buffered + n]
        /\ request_queue' = [request_queue EXCEPT ![k] = SubSeq(q, n + 1, Len(q))]
        /\ dc_buffer' = IF dc_open THEN [dc_buffer EXCEPT ![k] = @ \o out]
                        ELSE dc_buffer
        /\ result' = [p \in Publications |->
                         IF p \in ToSet(out) /\ result[p] = "waiting"
                         THEN IF dc_open THEN "ok" ELSE "err"
                         ELSE result[p]]
        /\ IF k = "reliable"
           THEN handed' = handed \cup ToSet(out)
           ELSE UNCHANGED handed

Retained(k, q, buffered) ==
    IF k = "reliable" THEN retry_queue \o SubSeq(q, 1, Sendable(q, buffered))
    ELSE retry_queue

\* TxQueue::trim: dequeue until no more than n remain.
Trim(q, n) == IF Len(q) <= n THEN q ELSE SubSeq(q, Len(q) - n + 1, Len(q))

OnPublishData ==
    /\ IsEvent("PublishData")
    /\ LET p == Head(events).packet
           k == KindOf(p)
           q == Append(request_queue[k], p)
       IN  /\ SendUntilThreshold(k, q, amount[k])
           /\ retry_queue' = Retained(k, q, amount[k])
    /\ events' = Tail(events)
    /\ UNCHANGED <<rtc_events, next_sequence, sequence, task, dc_open, link,
                   wire, server, subVars, boundVars>>

\* Mutant: the amount is only kept, nothing is sent.
OnBufferedAmountChange_NoSend ==
    /\ IsEvent("BufferedAmountChange")
    /\ LET k == Head(events).kind
           sent == Head(events).sent
       IN  amount' = [amount EXCEPT ![k] = IF @ < sent THEN 0 ELSE @ - sent]
    /\ events' = Tail(events)
    /\ UNCHANGED <<result, rtc_events, next_sequence, sequence, request_queue,
                   retry_queue, task, handed, dcVars, server,
                   subVars, boundVars>>

\* Mutant: the amount that left the channel is not subtracted from the total
\* when the queue is empty.
OnBufferedAmountChange_Forgets ==
    /\ IsEvent("BufferedAmountChange")
    /\ LET k == Head(events).kind
           q == request_queue[k]
           left == IF q = <<>> THEN amount[k] ELSE amount[k] - Head(events).sent
       IN  /\ SendUntilThreshold(k, q, left)
           /\ retry_queue' = Retained(k, q, left)
    /\ events' = Tail(events)
    /\ UNCHANGED <<rtc_events, next_sequence, sequence, task, dc_open, link,
                   wire, server, subVars, boundVars>>

\* Bytes left the channel: send more, then trim the retry queue by the same
\* number.
OnBufferedAmountChange ==
    /\ IsEvent("BufferedAmountChange")
    /\ LET k == Head(events).kind
           sent == Head(events).sent
           left == IF amount[k] < sent THEN 0 ELSE amount[k] - sent
           q == request_queue[k]
       IN  /\ SendUntilThreshold(k, q, left)
           /\ retry_queue' = IF k = "reliable"
                             THEN Trim(Retained(k, q, left), sent)
                             ELSE retry_queue
    /\ events' = Tail(events)
    /\ UNCHANGED <<rtc_events, next_sequence, sequence, task, dc_open, link,
                   wire, server, subVars, boundVars>>

\* The packets of a queue that come after the given sequence, in the queue's order.
Missing(q, last) ==
    LET missing[i \in 0..Len(q)] ==
            IF i = 0 THEN <<>>
            ELSE IF sequence[q[i]] > last THEN Append(missing[i - 1], q[i])
            ELSE missing[i - 1]
    IN  missing[Len(q)]

\* Mutant: the packets stay in the retry queue.
OnRetryFrom_Peek ==
    /\ IsEvent("RetryFrom")
    /\ LET last == Head(events).last
           again == Missing(retry_queue, last)
       IN  events' = Tail(events) \o [i \in DOMAIN again |-> PublishData(again[i])]
    /\ UNCHANGED <<result, rtc_events, next_sequence, sequence, amount,
                   request_queue, retry_queue, task, handed, dcVars, server,
                   subVars, boundVars>>

\* _enqueue_for_retry_from: the retry queue is emptied, and what the server has
\* not got is queued again behind the events already there.
OnRetryFrom ==
    /\ IsEvent("RetryFrom")
    /\ LET last == Head(events).last
           again == Missing(retry_queue, last)
       IN  events' = Tail(events) \o [i \in DOMAIN again |-> PublishData(again[i])]
    /\ retry_queue' = <<>>
    /\ UNCHANGED <<result, rtc_events, next_sequence, sequence, amount,
                   request_queue, task, handed, dcVars, server, subVars,
                   boundVars>>

\* close_tx: the task drops its queues, and the completions with them.
TaskEnds ==
    /\ task = "running"
    /\ task' = "ended"
    /\ events' = <<>>
    /\ request_queue' = [k \in Kinds |-> <<>>]
    /\ retry_queue' = <<>>
    /\ result' = [p \in Publications |->
                     IF result[p] = "waiting" THEN "err" ELSE result[p]]
    /\ UNCHANGED <<rtc_events, next_sequence, sequence, amount, handed, dcVars,
                   server, subVars, boundVars>>

DataChannelTask ==
    OnPublishPacket \/ OnPublishData \/ OnBufferedAmountChange \/ OnRetryFrom

\* The rtc task forwards the change of the buffered amount.
OnRtcBufferedAmountChange ==
    /\ rtc_events # <<>>
    /\ rtc_events' = Tail(rtc_events)
    /\ events' = IF task = "running" THEN Append(events, Head(rtc_events))
                 ELSE events
    /\ UNCHANGED <<result, next_sequence, sequence, amount, request_queue,
                   retry_queue, task, handed, dcVars, server,
                   subVars, boundVars>>

-----------------------------------------------------------------------------
(* The publisher's data channels and the server's receiving side *)

\* n packets leave the buffer of a channel.
DcSent(k, n) ==
    /\ dc_open /\ link = "up"
    /\ n \in 1..Len(dc_buffer[k])
    /\ wire' = wire \o SubSeq(dc_buffer[k], 1, n)
    /\ dc_buffer' = [dc_buffer EXCEPT ![k] = SubSeq(@, n + 1, Len(@))]
    /\ rtc_events' = Append(rtc_events, BufferedAmountChange(k, n))
    /\ UNCHANGED <<result, events, next_sequence, sequence, amount,
                   request_queue, retry_queue, task, handed, dc_open, link,
                   server, subVars, boundVars>>

\* The server keeps and forwards what it has not got yet.
ServerReceives ==
    /\ link = "up" /\ wire # <<>>
    /\ wire' = Tail(wire)
    /\ IF Head(wire) \in ToSet(server)
       THEN UNCHANGED <<server, downlink>>
       ELSE /\ server' = Append(server, Head(wire))
            /\ downlink' = IF forwarding THEN Append(downlink, Head(wire))
                           ELSE downlink
    /\ UNCHANGED <<pubVars, dc_open, dc_buffer, link, forwarding, sync,
                   rx_state, emitted, boundVars>>

\* The server or the transport closes the channels for good.
DcCloses ==
    /\ dc_open
    /\ dc_open' = FALSE
    /\ dc_buffer' = [k \in Kinds |-> <<>>]
    /\ wire' = <<>>
    /\ UNCHANGED <<pubVars, link, server, subVars, boundVars>>

\* The transport to the server fails.
LinkLost ==
    /\ link = "up"
    /\ pub_resumes < PubResumes
    /\ link' = "down"
    /\ UNCHANGED <<pubVars, dc_open, dc_buffer, wire, server, subVars, boundVars>>

\* ICE finds a way again by itself: SCTP sends once more what did not arrive.
LinkBack ==
    /\ link = "down"
    /\ link' = "up"
    /\ UNCHANGED <<pubVars, dc_open, dc_buffer, wire, server, subVars, boundVars>>

Highest(log) ==
    CHOOSE n \in 0..MaxSeq :
        /\ \A p \in ToSet(log) : sequence[p] <= n
        /\ n = 0 \/ \E p \in ToSet(log) : sequence[p] = n

\* SessionInner::restart: the ReconnectResponse names the last sequence the
\* server has received.  What was under way on a lost link is gone.
Resume ==
    /\ task = "running"
    /\ pub_resumes < PubResumes
    /\ pub_resumes' = pub_resumes + 1
    /\ link' = "up"
    /\ wire' = IF link = "down" THEN <<>> ELSE wire
    /\ events' = Append(events, RetryFrom(Highest(server)))
    /\ UNCHANGED <<result, rtc_events, next_sequence, sequence, amount,
                   request_queue, retry_queue, task, handed, dc_open,
                   dc_buffer, wire, server, subVars, sub_resumes>>

-----------------------------------------------------------------------------
(* The receiving session *)

\* A duplicate or an older packet leaves the state as it is.
update_packet_rx_state(p) ==
    IF p \in Reliable /\ sequence[p] > rx_state THEN sequence[p] ELSE rx_state

\* RtcEvent::Data: update_packet_rx_state ignores a sequence it has seen, the
\* packet is emitted in any case.
OnData ==
    /\ downlink # <<>>
    /\ downlink' = Tail(downlink)
    /\ LET p == Head(downlink) IN
         /\ rx_state' = update_packet_rx_state(p)
         /\ emitted' = [emitted EXCEPT ![p] = @ + 1]
    /\ UNCHANGED <<pubVars, dcVars, server, forwarding, sync, boundVars>>

\* The downlink fails with what is under way on it; the server forwards again
\* once it got a SyncState.
DownlinkLost ==
    /\ forwarding
    /\ sub_resumes < SubResumes
    /\ downlink' = <<>>
    /\ forwarding' = FALSE
    /\ UNCHANGED <<pubVars, dcVars, server, sync, rx_state, emitted,
                   boundVars>>

\* Mutant: the state claims one packet more.
SyncStateSent_OffByOne ==
    /\ sub_resumes < SubResumes
    /\ sub_resumes' = sub_resumes + 1
    /\ sync' = Append(sync, rx_state + 1)
    /\ UNCHANGED <<pubVars, dcVars, server, downlink, forwarding, rx_state,
                   emitted, pub_resumes>>

\* SyncState carries data_channel_receive_states.
SyncStateSent ==
    /\ sub_resumes < SubResumes
    /\ sub_resumes' = sub_resumes + 1
    /\ sync' = Append(sync, rx_state)
    /\ UNCHANGED <<pubVars, dcVars, server, downlink, forwarding, rx_state,
                   emitted, pub_resumes>>

\* The server sends the reliable packets that came after it; a lossy one has
\* sequence 0.
ServerSyncs ==
    /\ sync # <<>>
    /\ sync' = Tail(sync)
    /\ forwarding' = TRUE
    /\ downlink' = downlink \o Missing(server, Head(sync))
    /\ UNCHANGED <<pubVars, dcVars, server, rx_state, emitted, boundVars>>

-----------------------------------------------------------------------------
Network ==
    \/ \E k \in Kinds : \E n \in 1..Cardinality(Publications) : DcSent(k, n)
    \/ ServerReceives
    \/ ServerSyncs

Next ==
    \/ \E p \in Publications : publish_data(p)
    \/ DataChannelTask \/ TaskEnds
    \/ OnRtcBufferedAmountChange
    \/ Network
    \/ LinkLost \/ LinkBack \/ Resume \/ DcCloses
    \/ OnData \/ DownlinkLost \/ SyncStateSent

Safe == Init /\ [][Next]_vars

\* The tasks run, the open channels, a link that is up and the server work.  No resume
\* and no end of the session is fair: publish_data keeps the read guard of
\* reconnecting_lock while it waits, and the reconnection that would repair the link, or
\* replace a session whose channels closed, needs that lock for writing.
Fairness ==
    /\ WF_vars(DataChannelTask)
    /\ WF_vars(OnRtcBufferedAmountChange)
    /\ WF_vars(Network)
    /\ WF_vars(OnData)

Spec == Safe /\ Fairness

-----------------------------------------------------------------------------
(* Properties *)

Packets == Seq(Publications)
Changes == [type : {"BufferedAmountChange"}, kind : Kinds, sent : Nat]
Events ==
    [type : {"PublishPacket", "PublishData"}, packet : Publications] \cup Changes
      \cup [type : {"RetryFrom"}, last : 0..MaxSeq]

\* Every variable has its type; in particular no sequence number is assigned
\* beyond the number of reliable packets.
TypeOK ==
    /\ result \in [Publications -> {"none", "waiting", "ok", "err"}]
    /\ events \in Seq(Events) /\ rtc_events \in Seq(Changes)
    /\ next_sequence \in 1..(MaxSeq + 1)
    /\ sequence \in [Publications -> 0..MaxSeq]
    /\ amount \in [Kinds -> Nat]
    /\ request_queue \in [Kinds -> Packets] /\ retry_queue \in Packets
    /\ task \in {"running", "ended"}
    /\ dc_open \in BOOLEAN /\ link \in {"up", "down"}
    /\ dc_buffer \in [Kinds -> Packets] /\ wire \in Packets
    /\ server \in Packets /\ downlink \in Packets
    /\ forwarding \in BOOLEAN /\ sync \in Seq(0..MaxSeq) /\ rx_state \in 0..MaxSeq
    /\ emitted \in [Publications -> Nat]
    /\ handed \subseteq Reliable
    /\ pub_resumes \in 0..PubResumes /\ sub_resumes \in 0..SubResumes

Sent(e, k) == IF e.type = "BufferedAmountChange" /\ e.kind = k THEN e.sent ELSE 0

SumOf(log, k) ==
    LET sum[i \in 0..Len(log)] == IF i = 0 THEN 0 ELSE sum[i - 1] + Sent(log[i], k)
    IN  sum[Len(log)]

\* The task's buffered amount is what the channel holds plus the changes it has
\* not handled yet, through every delay between the callback and the task: the
\* backpressure neither leaks nor lets more than one packet past the threshold.
AmountIsExact ==
    task = "running" /\ dc_open =>
        \A k \in Kinds :
            /\ amount[k] = Len(dc_buffer[k]) + SumOf(events, k) + SumOf(rtc_events, k)
            /\ amount[k] <= Threshold + 1

\* The packets handed to the reliable channel are a prefix of the sequence: a
\* first transmission never skips or overtakes another, however publishers,
\* retries and the threshold interleave.
NoGaps ==
    LET seen == {sequence[p] : p \in handed} IN
    seen = 1..Cardinality(seen)

\* Where a reliable packet is held.
Places(p) ==
    ({"retry"} \X {i \in DOMAIN retry_queue : retry_queue[i] = p})
    \cup ({"request"} \X {i \in DOMAIN request_queue["reliable"] :
                              request_queue["reliable"][i] = p})
    \cup ({"event"} \X {i \in DOMAIN events : events[i] = PublishData(p)})

\* A packet is held once, in the retry queue or waiting to be sent: two resumes
\* in a row do not multiply it.
OneCopyQueued == \A p \in Reliable : \A a, b \in Places(p) : a = b

\* What the retries rest on: the reliable channel was given the packets from the
\* first one on, and of each of them one copy is queued.
QueuesAreSound == NoGaps /\ OneCopyQueued

\* The session is of use: it was closed, or its channels and the link work.
Usable == task = "ended" \/ (dc_open /\ link = "up")

\* A publish_data returns, once its packet is handed over or the session is
\* closed, if in the end the link is up, again or still, or the session is closed.
\* Excepted is the link that stays down and the channel that stays closed: the
\* waiting publish_data itself withholds the lock from the reconnection.  What
\* the property excludes is a packet forgotten in a queue, through losses,
\* resumes, retries and every delay of the amount events.
PublishEnds ==
    <>[]Usable =>
        \A p \in Publications : result[p] = "waiting" ~> result[p] \in {"ok", "err"}

\* The server has received the reliable packets in the order of their sequence.
ServerInOrder ==
    \A i, j \in DOMAIN server :
        i < j /\ {server[i], server[j]} \subseteq Reliable =>
            sequence[server[i]] < sequence[server[j]]

\* Every reliable packet the server has reaches the room of the receiver, also
\* when the downlink fails, whatever SyncState crosses with it: the state it
\* carries claims no packet that is missing.  One number can say so only while
\* the publisher's retries keep the order, hence the first premise; the second is that
\* a receiver that lost its downlink resumes, with a SyncState that arrives.
ForwardedIsEmitted ==
    []ServerInOrder /\ []<>forwarding =>
        \A p \in Reliable : p \in ToSet(server) ~> emitted[p] > 0

\* "Ignoring duplicate/out-of-order reliable data message": the room sees no
\* reliable packet twice.
DuplicatesIgnored == \A p \in Reliable : emitted[p] <= 1

=============================================================================
