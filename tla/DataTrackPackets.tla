---------------------------- MODULE DataTrackPackets ----------------------------
(***************************************************************************)
(* The frames of a data track on their way: the Packetizer and the task of *)
(* a published track (livekit-datatrack/src/local), the DataChannelSender  *)
(* (livekit/src/rtc_engine/dc_sender.rs) with its backpressure, and the    *)
(* Depacketizer of a subscriber (livekit-datatrack/src/remote).            *)
(*                                                                         *)
(* A packet has the length 1, its payload is the number of its frame and   *)
(* its place in it.  The data channel is unordered and does not retransmit: *)
(* what is in the air arrives in any order or is lost, which also stands   *)
(* for the full channels of the receiver.                                  *)
(***************************************************************************)
EXTENDS Integers, Sequences, FiniteSets, SequencesExt

CONSTANTS
    Sizes,            \* packets a frame is divided into
    MaxFrames,        \* frames that are pushed (bound)
    Modulus,          \* of sequence and frame_number; 2^16 in the code
    FirstNumbers,     \* what the two counters may have come to
    MaxBufferPackets, \* MAX_BUFFER_PACKETS
    EventBuffer,      \* EVENT_BUFFER_COUNT
    ChannelBuffer,    \* CHANNEL_BUFFER_SIZE
    Threshold,        \* low_buffer_threshold, in packets
    MaxFailures,      \* sends that the data channel refuses (bound)
    NoFrame           \* no partial frame

VARIABLES
    \* the publisher
    sequence, frame_number,  \* Packetizer
    frames,                  \* history: the size of each frame
    packets_out,               \* OutputEvent::PacketsAvailable
    send_rx,                 \* the channel of the DataChannelSender
    send_queue,
    buffered_amount,
    dc_events,               \* BytesSent, each of one packet
    \* the way
    dc_buffer,               \* what the data channel has not sent yet, in any order
    air,
    failures,
    \* the subscriber
    arrived,                 \* history: the packets in the order they came
    partial,                 \* Depacketizer.partial
    delivered                \* history: the frames it gave

packetizer == <<sequence, frame_number, frames>>
sender == <<send_queue, buffered_amount, dc_buffer, failures>>
depacketizer == <<arrived, partial, delivered>>
packetVars == <<packetizer, packets_out, send_rx, sender, dc_events, air, depacketizer>>

-----------------------------------------------------------------------------
ASSUME SizesAssumption == Sizes \subseteq Nat /\ MaxFrames \in Nat
ASSUME ModulusAssumption == Modulus \in Nat \ {0} /\ FirstNumbers \subseteq 0..(Modulus - 1)
ASSUME BuffersAssumption ==
    /\ MaxBufferPackets \in Nat \ {0} /\ EventBuffer \in Nat \ {0}
    /\ ChannelBuffer \in Nat \ {0} /\ Threshold \in Nat /\ MaxFailures \in Nat


\* PartialFrame: the payloads gathered of a frame, by their sequence.
Partials ==
    [frame_number : Nat, start_sequence : Nat,
     payloads : UNION {[s -> [frame : Nat, part : Nat]] : s \in SUBSET (0..(Modulus - 1))}]

ASSUME NoFrameAssumption == NoFrame \notin Partials

wrapping_add(n, k) == (n + k) % Modulus

PacketsInit ==
    /\ sequence \in FirstNumbers /\ frame_number \in FirstNumbers
    /\ frames = <<>>
    /\ packets_out = <<>>
    /\ send_rx = <<>> /\ send_queue = <<>>
    /\ buffered_amount = 0
    /\ dc_events = 0
    /\ dc_buffer = {}
    /\ air = {}
    /\ failures = 0
    /\ arrived = <<>> /\ partial = NoFrame /\ delivered = <<>>

-----------------------------------------------------------------------------
(* The task of a published track *)

frame_marker(index, count) ==
    CASE count <= 1 -> "Single"
      [] count > 1 /\ index = 1 -> "Start"
      [] count > 1 /\ index = count -> "Final"
      [] OTHER -> "Inter"

Payload(f, i) == [frame |-> f, part |-> i]

packetize(f, count) ==
    [i \in 1..count |-> [marker |-> frame_marker(i, count),
                         sequence |-> wrapping_add(sequence, i - 1),
                         frame_number |-> frame_number,
                         payload |-> Payload(f, i)]]

\* process_and_send: the packets of a frame are given to the room together, or dropped.
\* A frame without bytes has no packet, and is dropped.
PushFrame ==
    /\ Len(frames) < MaxFrames
    /\ \E n \in Sizes :
          LET packets == packetize(Len(frames) + 1, n) IN
          /\ frames' = Append(frames, n)
          /\ sequence' = wrapping_add(sequence, n)
          /\ packets_out' = IF Len(packets_out) < EventBuffer THEN Append(packets_out, packets)
                                                          ELSE packets_out
    /\ frame_number' = wrapping_add(frame_number, 1)
    /\ UNCHANGED <<send_rx, sender, dc_events, air, depacketizer>>

Shorter(m, n) == IF m <= n THEN m ELSE n

\* The rest of a batch is dropped at the first packet there is no room for.
try_send_data_track_packets ==
    /\ packets_out # <<>>
    /\ packets_out' = Tail(packets_out)
    /\ LET batch == Head(packets_out)
           room == ChannelBuffer - Len(send_rx)
       IN send_rx' = send_rx \o SubSeq(batch, 1, Shorter(Len(batch), room))
    /\ UNCHANGED <<packetizer, sender, dc_events, air, depacketizer>>

-----------------------------------------------------------------------------
(* DataChannelSender *)

\* The loop ends when the queue is empty or the amount is over the threshold.  A packet
\* that the data channel refuses counts as buffered.
send_until_threshold(queue, amount) ==
    LET n == IF amount > Threshold THEN 0 ELSE Shorter(Len(queue), Threshold + 1 - amount)
    IN
    /\ send_queue' = SubSeq(queue, n + 1, Len(queue))
    /\ buffered_amount' = amount + n
    /\ \E refused \in SUBSET (1..n) :
          /\ failures + Cardinality(refused) <= MaxFailures
          /\ failures' = failures + Cardinality(refused)
          /\ dc_buffer' = dc_buffer \cup {queue[i] : i \in (1..n) \ refused}

handle_enqueue_for_send ==
    /\ send_rx # <<>>
    /\ send_rx' = Tail(send_rx)
    /\ send_until_threshold(Append(send_queue, Head(send_rx)), buffered_amount)
    /\ UNCHANGED <<packetizer, packets_out, dc_events, air, depacketizer>>

\* Mutant: only new payloads start the loop.
handle_bytes_sent_Only ==
    /\ dc_events > 0
    /\ dc_events' = dc_events - 1
    /\ buffered_amount' = IF buffered_amount < 1 THEN 0 ELSE buffered_amount - 1
    /\ UNCHANGED <<send_queue, dc_buffer, failures>>
    /\ UNCHANGED <<packetizer, packets_out, send_rx, air, depacketizer>>

handle_bytes_sent ==
    /\ dc_events > 0
    /\ dc_events' = dc_events - 1
    /\ IF buffered_amount < 1
       THEN buffered_amount' = 0 /\ UNCHANGED <<send_queue, dc_buffer, failures>>
       ELSE send_until_threshold(send_queue, buffered_amount - 1)
    /\ UNCHANGED <<packetizer, packets_out, send_rx, air, depacketizer>>

\* The data channel sends a packet and reports it.
Transmitted ==
    /\ \E packet \in dc_buffer :
          /\ dc_buffer' = dc_buffer \ {packet}
          /\ air' = air \cup {packet}
    /\ dc_events' = dc_events + 1
    /\ UNCHANGED <<packetizer, packets_out, send_rx, send_queue, buffered_amount, failures,
                   depacketizer>>

-----------------------------------------------------------------------------
(* Depacketizer *)

Deliver(frame) == delivered' = Append(delivered, frame)

frame_from_single(packet) ==
    /\ partial' = NoFrame
    /\ Deliver(<<packet.payload>>)

\* What was gathered of another frame is dropped.
begin_partial(packet) ==
    /\ partial' = [frame_number |-> packet.frame_number,
                   start_sequence |-> packet.sequence,
                   payloads |-> [s \in {packet.sequence} |-> packet.payload]]
    /\ UNCHANGED delivered

\* The sequences from the start packet's to the final one's.
Expected(p, end) ==
    [i \in 1..(wrapping_add(end, Modulus - p.start_sequence) + 1) |->
        wrapping_add(p.start_sequence, i - 1)]

\* Mutant: what there is makes the frame.
finalize_Gaps(p, end) ==
    LET present == SelectSeq(Expected(p, end), LAMBDA s : s \in DOMAIN p.payloads) IN
    /\ partial' = NoFrame
    /\ Deliver([i \in DOMAIN present |-> p.payloads[present[i]]])

\* Mutant: the sequence does not wrap.
finalize_Straight(p, end) ==
    /\ partial' = NoFrame
    /\ IF p.start_sequence..end \subseteq DOMAIN p.payloads /\ p.start_sequence <= end
       THEN Deliver([i \in 1..(end - p.start_sequence + 1) |->
                        p.payloads[p.start_sequence + i - 1]])
       ELSE UNCHANGED delivered

finalize(p, end) ==
    LET expected == Expected(p, end) IN
    /\ partial' = NoFrame
    /\ IF Range(expected) \subseteq DOMAIN p.payloads
       THEN Deliver([i \in DOMAIN expected |-> p.payloads[expected[i]]])
       ELSE UNCHANGED delivered

\* A packet of another frame takes the partial one away, as does one too many; a packet
\* with the sequence of another replaces it.
push_to_partial(packet) ==
    LET gathered == [s \in DOMAIN partial.payloads \cup {packet.sequence} |->
                        IF s = packet.sequence THEN packet.payload ELSE partial.payloads[s]]
    IN
    IF \/ partial = NoFrame
       \/ packet.frame_number # partial.frame_number
       \/ Cardinality(DOMAIN partial.payloads) >= MaxBufferPackets
    THEN partial' = NoFrame /\ UNCHANGED delivered
    ELSE IF packet.marker = "Final"
    THEN finalize([partial EXCEPT !.payloads = gathered], packet.sequence)
    ELSE partial' = [partial EXCEPT !.payloads = gathered] /\ UNCHANGED delivered

Arrive ==
    \E packet \in air :
        /\ air' = air \ {packet}
        /\ arrived' = Append(arrived, packet)
        /\ CASE packet.marker = "Single" -> frame_from_single(packet)
             [] packet.marker = "Start" -> begin_partial(packet)
             [] packet.marker \in {"Inter", "Final"} -> push_to_partial(packet)
        /\ UNCHANGED <<packetizer, packets_out, send_rx, sender, dc_events>>

Lose ==
    \E packet \in air :
        /\ air' = air \ {packet}
        /\ UNCHANGED <<packetizer, packets_out, send_rx, sender, dc_events, depacketizer>>

-----------------------------------------------------------------------------
PacketsNext ==
    \/ PushFrame \/ try_send_data_track_packets
    \/ handle_enqueue_for_send \/ handle_bytes_sent \/ Transmitted
    \/ Arrive \/ Lose

PacketsSafe == PacketsInit /\ [][PacketsNext]_packetVars

\* The sender's task runs, an open data channel sends what it holds and reports it.
PacketsSpec == PacketsSafe /\ WF_packetVars(handle_enqueue_for_send) /\ WF_packetVars(handle_bytes_sent)
             /\ WF_packetVars(Transmitted)

-----------------------------------------------------------------------------
(* The properties *)

\* The packets of a frame, all of them, in their order.
WholeFrame(f) == [i \in 1..frames[f] |-> Payload(f, i)]

\* Every frame that comes out went in: it has all the bytes of one frame, in their
\* order, and no frame comes out twice, whatever is lost or overtaken and while the
\* counters wrap.  It is about push_to_partial and finalize.
FramesComeOutWhole ==
    /\ \A i \in DOMAIN delivered :
          \E f \in DOMAIN frames : delivered[i] = WholeFrame(f)
    /\ \A i, j \in DOMAIN delivered : delivered[i] = delivered[j] => i = j

Came(f, i) ==
    LET n == frames[f] IN
    /\ i + n - 1 <= Len(arrived)
    /\ \A k \in i..(i + n - 1) : arrived[k].payload.frame = f
    /\ n > 1 => arrived[i].marker = "Start" /\ arrived[i + n - 1].marker = "Final"

\* A frame whose packets all came, the first one first and the last one last, with none
\* of another frame in between, is delivered, if it is not larger than the buffer.
FramesThatCameAreDelivered ==
    \A f \in DOMAIN frames :
        (frames[f] \in 1..MaxBufferPackets /\ \E i \in DOMAIN arrived : Came(f, i)) =>
            \E i \in DOMAIN delivered : delivered[i] = WholeFrame(f)

\* A payload that the sender took is sent in the end, unless the data channel refused so
\* many that their amounts alone are over the threshold.  It is about the two places that
\* call send_until_threshold.
QueueDrains == (send_queue # <<>>) ~> (send_queue = <<>> \/ failures > Threshold)

=============================================================================
