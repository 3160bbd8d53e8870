------------------------------ MODULE DataStreams ------------------------------
(***************************************************************************)
(* Data streams, livekit/src/room/data_stream: a RawStream behind the      *)
(* mutex of its writers, the task that publishes the packets of all of     *)
(* them, and the IncomingStreamManager of a receiver with the channel of   *)
(* each reader.  Also the handlers and tasks of livekit/src/room/mod.rs    *)
(* between them.                                                           *)
(*                                                                         *)
(* Every chunk has length 1, so that bytes_processed is chunk_index.  The  *)
(* way between the publication and the receiver is external: in order, but *)
(* packets are lost with a session, and those the receiver did not name in *)
(* its SyncState come once more.  A write of several chunks is one write   *)
(* for each: another writer may then come between two of them.             *)
(***************************************************************************)
EXTENDS Naturals, Sequences, FiniteSets, SequencesExt

CONSTANTS
    Streams,          \* stream ids
    MaxCalls,         \* chunks written to a stream and calls of close (bound)
    Lengths,          \* total_length of a header: a number or Undeclared
    Undeclared,
    MaxDisturbances,  \* failed publications, lost packets, repetitions, changes of
                      \* encryption, in all (bound)
    MaxUnderWay,      \* packets published and not arrived, before the next one (bound)
    NoStream          \* no descriptor

VARIABLES
    \* the sender
    raw,          \* RawStream: none, open, closed (is_closed), dropping, gone; refused if
                  \* its header had no answer
    op,           \* what the holder of its mutex awaits the answer to
    index,        \* progress.chunk_index
    calls,        \* calls of write_chunk and close, which number the chunks
    acked,        \* history: the chunks whose write returned Ok
    reused,       \* history: a write ended without Ok, its index is used again
    packets,      \* packet_tx: requests, with somebody to answer or not
    task,         \* outgoing_data_stream_task
    encrypted,    \* is_dc_encryption_enabled
    \* the way to the receiver
    retry,        \* failed packets that the data channel keeps for a resume
    wire,         \* what was published
    arrived,      \* how much of it has arrived
    lost,         \* history: the streams of which a packet was lost
    failed,       \* history: the streams of which a publication failed
    disturbances,
    \* the receiver
    open_streams, \* IncomingStreamManager.open_streams
    readers       \* the readers of each stream id, with what their channel was given

writer == <<raw, op, index, calls, acked, reused>>
outgoing == <<packets, task>>
network == <<encrypted, retry, wire, arrived, lost, failed, disturbances>>
receiver == <<open_streams, readers>>
vars == <<writer, outgoing, network, receiver>>

-----------------------------------------------------------------------------
ASSUME BoundsAssumption ==
    MaxCalls \in Nat /\ MaxDisturbances \in Nat /\ MaxUnderWay \in Nat \ {0}
ASSUME LengthsAssumption == Lengths \subseteq Nat \cup {Undeclared} /\ Undeclared \notin Nat

Header(s, n) == [type |-> "header", id |-> s, total |-> n]
Chunk(s, i, d) == [type |-> "chunk", id |-> s, index |-> i, data |-> d]
\* owed is history: what had been written with Ok when the trailer was made.
Trailer(s, abnormal) == [type |-> "trailer", id |-> s, abnormal |-> abnormal, owed |-> acked[s]]

Init ==
    /\ raw = [s \in Streams |-> "none"]
    /\ op = [s \in Streams |-> "idle"]
    /\ index = [s \in Streams |-> 0]
    /\ calls = [s \in Streams |-> 0]
    /\ acked = [s \in Streams |-> {}]
    /\ reused = {}
    /\ packets = <<>>
    /\ task = "running"
    /\ encrypted = FALSE
    /\ retry = <<>>
    /\ wire = <<>>
    /\ arrived = 0
    /\ lost = {}
    /\ failed = {}
    /\ disturbances = 0
    /\ open_streams = [s \in Streams |-> NoStream]
    /\ readers = [s \in Streams |-> <<>>]

Disturb ==
    /\ disturbances < MaxDisturbances
    /\ disturbances' = disturbances + 1

-----------------------------------------------------------------------------
(* The writers of a stream *)

Request(packet) ==
    packets' = Append(packets, [packet |-> packet, waits |-> TRUE])

\* stream_text, stream_bytes and the send_ methods: the header is sent before there is a
\* RawStream.
Open(s) ==
    /\ raw[s] = "none" /\ op[s] = "idle" /\ task = "running"
    /\ \E n \in Lengths : Request(Header(s, n))
    /\ op' = [op EXCEPT ![s] = "header"]
    /\ UNCHANGED <<raw, index, calls, acked, reused, task, network, receiver>>

\* A clone of the writer does not know that another closed the stream.
write_chunk(s) ==
    /\ raw[s] \in {"open", "closed"} /\ op[s] = "idle" /\ task = "running"
    /\ calls[s] < MaxCalls
    /\ Request(Chunk(s, index[s], calls[s] + 1))
    /\ calls' = [calls EXCEPT ![s] = @ + 1]
    /\ op' = [op EXCEPT ![s] = "chunk"]
    /\ UNCHANGED <<raw, index, acked, reused, task, network, receiver>>

\* close and close_with_reason; of a closed stream they return AlreadyClosed.
close(s) ==
    /\ raw[s] = "open" /\ op[s] = "idle" /\ task = "running"
    /\ \E abnormal \in BOOLEAN : Request(Trailer(s, abnormal))
    /\ calls[s] < MaxCalls
    /\ calls' = [calls EXCEPT ![s] = @ + 1]
    /\ op' = [op EXCEPT ![s] = "trailer"]
    /\ UNCHANGED <<raw, index, acked, reused, task, network, receiver>>

\* The holder of the mutex goes on with the answer to its packet.
Answered(packet, ok) ==
    LET s == packet.id
        written == packet.type = "chunk" /\ ok
    IN
    /\ op' = [op EXCEPT ![s] = "idle"]
    /\ raw' = [raw EXCEPT ![s] = CASE packet.type = "header" -> IF ok THEN "open" ELSE "refused"
                                   [] packet.type = "trailer" /\ ok -> "closed"
                                   [] OTHER -> @]
    /\ index' = [index EXCEPT ![s] = IF written THEN @ + 1 ELSE @]
    /\ acked' = [acked EXCEPT ![s] = IF written THEN @ \cup {packet.data} ELSE @]
    /\ reused' = IF packet.type = "chunk" /\ ~ok THEN reused \cup {s} ELSE reused
    /\ UNCHANGED calls

Unanswered(s) ==
    [i \in DOMAIN packets |->
        IF packets[i].packet.id = s THEN [packets[i] EXCEPT !.waits = FALSE] ELSE packets[i]]

\* The future of an operation is dropped: its packet stays in the channel.  Without an
\* answer to the header there will be no RawStream.
Cancel(s) ==
    /\ op[s] # "idle"
    /\ op' = [op EXCEPT ![s] = "idle"]
    /\ raw' = [raw EXCEPT ![s] = IF op[s] = "header" THEN "refused" ELSE @]
    /\ reused' = IF op[s] = "chunk" THEN reused \cup {s} ELSE reused
    /\ packets' = Unanswered(s)
    /\ UNCHANGED <<index, calls, acked, task, network, receiver>>

\* The last writer is dropped.
Drop(s) ==
    /\ raw[s] \in {"open", "closed"} /\ op[s] = "idle"
    /\ raw' = [raw EXCEPT ![s] = IF @ = "open" THEN "dropping" ELSE "gone"]
    /\ UNCHANGED <<op, index, calls, acked, reused, outgoing, network, receiver>>

\* Mutant: only a stream that was written to is closed.
DropTask_Written(s) ==
    /\ raw[s] = "dropping"
    /\ raw' = [raw EXCEPT ![s] = "gone"]
    /\ packets' = IF task = "running" /\ index[s] > 0
                  THEN Append(packets, [packet |-> Trailer(s, FALSE), waits |-> FALSE])
                  ELSE packets
    /\ UNCHANGED <<op, index, calls, acked, reused, task, network, receiver>>

\* The task that Drop has spawned: an unclosed stream is closed normally.
DropTask(s) ==
    /\ raw[s] = "dropping"
    /\ raw' = [raw EXCEPT ![s] = "gone"]
    /\ packets' = IF task = "running"
                  THEN Append(packets, [packet |-> Trailer(s, FALSE), waits |-> FALSE])
                  ELSE packets
    /\ UNCHANGED <<op, index, calls, acked, reused, task, network, receiver>>

-----------------------------------------------------------------------------
(* outgoing_data_stream_task: one packet at a time through publish_data *)

Taken == Head(packets)

\* The encryption is that of the time of the publication.
OnTheWire(packet) == [packet |-> packet, encrypted |-> encrypted]

Respond(ok) ==
    /\ packets' = Tail(packets)
    /\ IF Taken.waits THEN Answered(Taken.packet, ok) ELSE UNCHANGED writer

Published ==
    /\ task = "running" /\ packets # <<>>
    /\ Len(wire) < arrived + MaxUnderWay
    /\ Respond(TRUE)
    /\ wire' = Append(wire, OnTheWire(Taken.packet))
    /\ UNCHANGED <<task, encrypted, retry, arrived, lost, failed, disturbances, receiver>>

\* A packet that the data channel refused is in its retry queue all the same; one that
\* never reached the channel is gone.
PublishFails ==
    /\ task = "running" /\ packets # <<>>
    /\ Disturb
    /\ Respond(FALSE)
    /\ retry' \in {retry, Append(retry, OnTheWire(Taken.packet))}
    /\ failed' = failed \cup {Taken.packet.id}
    /\ UNCHANGED <<task, encrypted, wire, arrived, lost, receiver>>

\* A resume: RetryFrom publishes what was kept, between other packets.
Retried ==
    /\ retry # <<>>
    /\ wire' = Append(wire, Head(retry))
    /\ retry' = Tail(retry)
    /\ UNCHANGED <<writer, outgoing, encrypted, arrived, lost, failed, disturbances, receiver>>

\* Room::close: whoever waits gets the error of a closed request channel.
RoomCloses ==
    /\ task = "running"
    /\ task' = "ended"
    /\ packets' = <<>>
    /\ raw' = [s \in Streams |-> IF op[s] = "header" THEN "refused" ELSE raw[s]]
    /\ op' = [s \in Streams |-> "idle"]
    /\ reused' = reused \cup {s \in Streams : op[s] = "chunk"}
    /\ UNCHANGED <<index, calls, acked, network, receiver>>

SwitchEncryption ==
    /\ Disturb
    /\ encrypted' = ~encrypted
    /\ UNCHANGED <<writer, outgoing, retry, wire, arrived, lost, failed, receiver>>

\* What was under way in a session that a full reconnect replaced.
Lose ==
    /\ arrived < Len(wire)
    /\ Disturb
    /\ arrived' = arrived + 1
    /\ lost' = lost \cup {wire[arrived + 1].packet.id}
    /\ UNCHANGED <<writer, outgoing, encrypted, retry, wire, failed, receiver>>

\* The receiver resumes, with a SyncState written before the last packets came.
Repeat ==
    /\ Disturb
    /\ arrived' \in 0..(arrived - 1)
    /\ UNCHANGED <<writer, outgoing, encrypted, retry, wire, lost, failed, receiver>>

-----------------------------------------------------------------------------
(* IncomingStreamManager *)

Reader(s) == open_streams[s].reader

\* What remains of readers[s] when the descriptor is removed, with how its channel ends.
Ended(s, how, owed) ==
    [readers EXCEPT ![s][Reader(s)].end = how, ![s][Reader(s)].owed = owed]

close_stream_with_error(s, error) ==
    /\ open_streams' = [open_streams EXCEPT ![s] = NoStream]
    /\ readers' = Ended(s, error, {})

NewReader(total) ==
    [items |-> <<>>, total |-> total, end |-> "open", owed |-> {}, dropped |-> FALSE]

handle_header(header, enc) ==
    LET s == header.id IN
    IF open_streams[s] # NoStream THEN UNCHANGED receiver ELSE
    /\ readers' = [readers EXCEPT ![s] = Append(@, NewReader(header.total))]
    /\ open_streams' = [open_streams EXCEPT ![s] =
           [index |-> 0, total |-> header.total, encrypted |-> enc,
            reader |-> Len(readers[s]) + 1]]

TooLong(n, total) == total # Undeclared /\ n > total

\* The send fails once the reader is gone.
yield_chunk(s, data) ==
    IF readers[s][Reader(s)].dropped
    THEN /\ open_streams' = [open_streams EXCEPT ![s] = NoStream]
         /\ readers' = Ended(s, "clean", {})
    ELSE /\ open_streams' = [open_streams EXCEPT ![s].index = @ + 1]
         /\ readers' = [readers EXCEPT ![s][Reader(s)].items = Append(@, data)]

\* Mutant: a chunk that was had before is let through.
handle_chunk_Repeated(chunk, enc) ==
    LET s == chunk.id
        d == open_streams[s]
    IN
    CASE d = NoStream -> UNCHANGED receiver
      [] d # NoStream /\ d.encrypted # enc -> close_stream_with_error(s, "EncryptionTypeMismatch")
      [] d # NoStream /\ d.encrypted = enc /\ d.index < chunk.index ->
             close_stream_with_error(s, "MissedChunk")
      [] d # NoStream /\ d.encrypted = enc /\ d.index >= chunk.index ->
             IF TooLong(d.index + 1, d.total) THEN close_stream_with_error(s, "LengthExceeded")
                                              ELSE yield_chunk(s, chunk.data)

handle_chunk(chunk, enc) ==
    LET s == chunk.id
        d == open_streams[s]
    IN
    CASE d = NoStream -> UNCHANGED receiver
      [] d # NoStream /\ d.encrypted # enc -> close_stream_with_error(s, "EncryptionTypeMismatch")
      [] d # NoStream /\ d.encrypted = enc /\ d.index # chunk.index ->
             close_stream_with_error(s, "MissedChunk")
      [] d # NoStream /\ d.encrypted = enc /\ d.index = chunk.index ->
             IF TooLong(d.index + 1, d.total) THEN close_stream_with_error(s, "LengthExceeded")
                                              ELSE yield_chunk(s, chunk.data)

\* Mutant: the length is not asked for.
handle_trailer_Unmeasured(trailer) ==
    LET s == trailer.id
        d == open_streams[s]
    IN
    IF d = NoStream THEN UNCHANGED receiver ELSE
    /\ open_streams' = [open_streams EXCEPT ![s] = NoStream]
    /\ readers' = IF trailer.abnormal THEN Ended(s, "AbnormalEnd", {})
                                      ELSE Ended(s, "clean", trailer.owed)

handle_trailer(trailer) ==
    LET s == trailer.id
        d == open_streams[s]
        how == IF d.total # Undeclared /\ d.index < d.total THEN "Incomplete"
               ELSE IF trailer.abnormal THEN "AbnormalEnd" ELSE "clean"
    IN
    IF d = NoStream THEN UNCHANGED receiver ELSE
    /\ open_streams' = [open_streams EXCEPT ![s] = NoStream]
    /\ readers' = Ended(s, how, trailer.owed)

Arrive ==
    LET p == wire[arrived + 1].packet
        enc == wire[arrived + 1].encrypted
    IN
    /\ arrived < Len(wire)
    /\ arrived' = arrived + 1
    /\ CASE p.type = "header" -> handle_header(p, enc)
         [] p.type = "chunk" -> handle_chunk(p, enc)
         [] p.type = "trailer" -> handle_trailer(p)
    /\ UNCHANGED <<writer, outgoing, encrypted, retry, wire, lost, failed, disturbances>>

\* The application drops a reader, nobody takes it, or a text is not UTF-8.
DropReader(s) ==
    \E r \in DOMAIN readers[s] :
        /\ readers[s][r].end = "open" /\ ~readers[s][r].dropped
        /\ readers' = [readers EXCEPT ![s][r].dropped = TRUE]
        /\ UNCHANGED <<writer, outgoing, network, open_streams>>

-----------------------------------------------------------------------------
Next ==
    \/ \E s \in Streams :
          \/ Open(s) \/ write_chunk(s) \/ close(s)
          \/ Cancel(s) \/ Drop(s) \/ DropTask(s) \/ DropReader(s)
    \/ Published \/ PublishFails \/ RoomCloses
    \/ Retried \/ SwitchEncryption \/ Lose \/ Repeat \/ Arrive

Safe == Init /\ [][Next]_vars

\* Spawned tasks run, and what is under way arrives or is lost.  The task's await of
\* publish_data has no bound, so that its end is not among what is fair.
Spec == Safe /\ WF_vars(Arrive) /\ \A s \in Streams : WF_vars(DropTask(s))

-----------------------------------------------------------------------------
(* The properties *)

Packets ==
    [type : {"header"}, id : Streams, total : Lengths]
    \cup [type : {"chunk"}, id : Streams, index : 0..MaxCalls, data : 1..MaxCalls]
    \cup [type : {"trailer"}, id : Streams, abnormal : BOOLEAN, owed : SUBSET (1..MaxCalls)]
OnWire == [packet : Packets, encrypted : BOOLEAN]
Descriptors == [index : 0..MaxCalls, total : Lengths, encrypted : BOOLEAN, reader : Nat \ {0}]
Ends == {"open", "clean", "EncryptionTypeMismatch", "MissedChunk", "LengthExceeded",
         "Incomplete", "AbnormalEnd"}

\* Every variable keeps its type.
TypeOK ==
    /\ raw \in [Streams -> {"none", "open", "closed", "dropping", "gone", "refused"}]
    /\ op \in [Streams -> {"idle", "header", "chunk", "trailer"}]
    /\ index \in [Streams -> 0..MaxCalls]
    /\ calls \in [Streams -> 0..MaxCalls]
    /\ acked \in [Streams -> SUBSET (1..MaxCalls)]
    /\ packets \in Seq([packet : Packets, waits : BOOLEAN])
    /\ task \in {"running", "ended"}
    /\ encrypted \in BOOLEAN
    /\ retry \in Seq(OnWire) /\ wire \in Seq(OnWire)
    /\ arrived \in 0..Len(wire)
    /\ reused \subseteq Streams /\ lost \subseteq Streams /\ failed \subseteq Streams
    /\ disturbances \in 0..MaxDisturbances
    /\ open_streams \in [Streams -> Descriptors \cup {NoStream}]
    /\ \A s \in Streams : \A r \in DOMAIN readers[s] : readers[s][r].end \in Ends

\* What a reader gets are chunks in the order they were written, each once.
InOrder ==
    \A s \in Streams : \A r \in DOMAIN readers[s] :
        LET items == readers[s][r].items IN
        \A i, j \in DOMAIN items : i < j => items[i] < items[j]

\* None that was written with Ok is left out of the items between those it got.
WithoutGaps(s) ==
    \A r \in DOMAIN readers[s] :
        LET items == readers[s][r].items IN
        \A d \in acked[s] : items # <<>> /\ d < Last(items) => d \in ToSet(items)

\* A reader gets its chunks in order and without gaps, through repetitions, failures and
\* cancelled writes.  A gap is excused where an index that a failed or cancelled write
\* used was used again by the next one, if a packet of that stream was lost too.  It is
\* about the index check of handle_chunk and the index of write_chunk.
InOrderWithoutGaps ==
    InOrder /\ \A s \in Streams : WithoutGaps(s) \/ (s \in reused /\ s \in lost)

\* A reader whose stream ended without an error holds everything that had been written
\* with Ok when the stream was closed, or as much as the header declared.  Excluded are
\* a stream that declared no length and lost a packet, and an index used twice on a
\* stream that lost one.
CleanEndIsWhole ==
    \A s \in Streams : \A r \in DOMAIN readers[s] :
        LET reader == readers[s][r] IN
        (reader.end = "clean" /\ ~reader.dropped) =>
            \/ reader.owed \subseteq ToSet(reader.items)
            \/ s \in lost /\ (reader.total = Undeclared \/ s \in reused)
            \/ Len(reader.items) = reader.total

\* A chunk whose write returned Ok is on the wire before any trailer of its stream.  The
\* code: write_chunk does not look at is_closed, while another writer of the same stream
\* gets AlreadyClosed from close.
WrittenBeforeTheEnd ==
    \A i, j \in DOMAIN wire :
        LET chunk == wire[i].packet
            trailer == wire[j].packet
        IN
        (chunk.type = "chunk" /\ trailer.type = "trailer" /\ chunk.id = trailer.id
             /\ chunk.data \in acked[chunk.id]) => i < j

\* Each publish_data that outgoing_data_stream_task awaits returns, with Ok or an error.
PublicationsEnd == WF_vars(Published \/ PublishFails)

\* A stream whose writer is gone ends for its readers, closed or not, unless its room
\* was closed, or one of its packets failed or was lost.  Excepted is a publication that
\* never returns: publish_data may wait for ever for room in the data channel, and the
\* one task publishes for all streams.
ReadersEnd ==
    PublicationsEnd => \A s \in Streams :
        raw[s] = "gone" ~>
            \/ task = "ended" \/ s \in failed \/ s \in lost
            \/ /\ readers[s] # <<>>
               /\ \A r \in DOMAIN readers[s] : readers[s][r].end # "open"

=============================================================================
