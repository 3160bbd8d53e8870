--------------------------- MODULE DataStreamsProofs ---------------------------
(***************************************************************************)
(* Proofs about DataStreams, for any number of streams, chunks, failures,  *)
(* losses and repetitions.  A first invariant, IInv, is about the numbers  *)
(* and indices of the chunks and gives the order of what a reader gets.  A *)
(* second, HeldInv, adds the order of the packets on the wire and what the *)
(* readers of a stream hold that lost nothing: a reader gets its chunks    *)
(* without gaps, and all of them when its stream ends without an error.    *)
(***************************************************************************)
EXTENDS DataStreams, TLAPS

IsChunk(p, s) == p.type = "chunk" /\ p.id = s

\* The packets that were published, and all that were made and not dropped.
OnTheWay == {wire[i].packet : i \in DOMAIN wire}
Pipe == {packets[i].packet : i \in DOMAIN packets}
            \cup {retry[i].packet : i \in DOMAIN retry} \cup OnTheWay

Requests == [packet : Packets, waits : BOOLEAN]
Readers == [items : Seq(1..MaxCalls), total : Lengths \cup {Undeclared}, end : Ends,
            owed : SUBSET (1..MaxCalls), dropped : BOOLEAN]

Types == TypeOK /\ readers \in [Streams -> Seq(Readers)]

\* Whoever waits for an answer is the one operation of its stream.
Waiting ==
    /\ \A i \in DOMAIN packets :
          packets[i].waits => op[packets[i].packet.id] = packets[i].packet.type
    /\ \A i, j \in DOMAIN packets :
          packets[i].waits /\ packets[j].waits
              /\ packets[i].packet.id = packets[j].packet.id => i = j

\* The numbers of the chunks grow with their indices, and no two chunks have one index
\* unless a write failed or was cancelled.
Numbered ==
    /\ \A s \in Streams : index[s] <= calls[s] /\ (op[s] = "chunk" => index[s] < calls[s])
    /\ \A s \in Streams : \A p \in Pipe : IsChunk(p, s) =>
          /\ p.index < p.data /\ p.data <= calls[s] /\ p.index <= index[s]
          /\ s \notin reused /\ op[s] # "chunk" => p.index < index[s]
    /\ \A s \in Streams : \A p, q \in Pipe : IsChunk(p, s) /\ IsChunk(q, s) =>
          /\ p.index < q.index => p.data < q.data
          /\ s \notin reused /\ p.index = q.index => p.data = q.data
    /\ \A s \in Streams : \A d \in acked[s] :
          \E p \in OnTheWay : IsChunk(p, s) /\ p.data = d

\* What a reader has at a place came in a chunk with the index of that place, and the
\* descriptor counts it.
Placed ==
    \A s \in Streams :
        /\ \A r \in DOMAIN readers[s] : \A k \in DOMAIN readers[s][r].items :
              \E p \in OnTheWay : IsChunk(p, s) /\ p.index + 1 = k
                                    /\ p.data = readers[s][r].items[k]
        /\ open_streams[s] # NoStream =>
              /\ Reader(s) \in DOMAIN readers[s]
              /\ open_streams[s].index = Len(readers[s][Reader(s)].items)

IInv == Types /\ Waiting /\ Numbered /\ Placed

-----------------------------------------------------------------------------
(* Sequences *)

LEMMA Appended ==
    ASSUME NEW S, NEW q \in Seq(S), NEW e \in S
    PROVE  /\ Append(q, e) \in Seq(S)
           /\ Len(q) \in Nat /\ Len(Append(q, e)) = Len(q) + 1
           /\ DOMAIN q = 1..Len(q) /\ DOMAIN Append(q, e) = 1..(Len(q) + 1)
           /\ Append(q, e)[Len(q) + 1] = e
           /\ \A i \in 1..Len(q) : Append(q, e)[i] = q[i]
OBVIOUS

LEMMA Shortened ==
    ASSUME NEW S, NEW q \in Seq(S), q # <<>>
    PROVE  /\ Tail(q) \in Seq(S) /\ Head(q) \in S
           /\ Len(q) \in Nat \ {0}
           /\ DOMAIN q = 1..Len(q) /\ DOMAIN Tail(q) = 1..(Len(q) - 1)
           /\ Head(q) = q[1]
           /\ \A i \in 1..(Len(q) - 1) : Tail(q)[i] = q[i + 1]
OBVIOUS

LEMMA Element ==
    ASSUME NEW S, NEW q \in Seq(S), NEW k \in DOMAIN q
    PROVE  k \in Nat \ {0} /\ q[k] \in S
<1>1. DOMAIN q = 1..Len(q) /\ Len(q) \in Nat
  OBVIOUS
<1>2. k \in Nat \ {0}
  BY <1>1
<1> QED
  BY <1>1, <1>2

LEMMA Mapped ==
    ASSUME NEW S, NEW n \in Nat, NEW f \in [1..n -> S]
    PROVE  f \in Seq(S) /\ Len(f) = n
OBVIOUS

\* A packet that a stream makes.
LEMMA Made ==
    ASSUME NEW s \in Streams
    PROVE  /\ \A n \in Lengths : Header(s, n) \in Packets
           /\ \A i \in 0..MaxCalls, d \in 1..MaxCalls : Chunk(s, i, d) \in Packets
           /\ \A b \in BOOLEAN : acked[s] \subseteq 1..MaxCalls => Trailer(s, b) \in Packets
           /\ \A n : Header(s, n).type = "header" /\ Header(s, n).id = s
           /\ \A b : Trailer(s, b).type = "trailer" /\ Trailer(s, b).id = s
           /\ \A i, d : LET c == Chunk(s, i, d) IN
                 c.type = "chunk" /\ c.id = s /\ c.index = i /\ c.data = d
BY DEF Header, Chunk, Trailer, Packets

LEMMA PacketIs ==
    ASSUME NEW p \in Packets
    PROVE  /\ p.type \in {"header", "chunk", "trailer"} /\ p.id \in Streams
           /\ p.type = "header" => p.total \in Lengths
           /\ p.type = "chunk" => p.index \in 0..MaxCalls /\ p.data \in 1..MaxCalls
           /\ p.type = "trailer" => p.owed \in SUBSET (1..MaxCalls)
BY DEF Packets

LEMMA RequestIs ==
    ASSUME NEW q \in Seq(Requests), NEW i \in DOMAIN q
    PROVE  q[i] \in Requests /\ q[i].packet \in Packets /\ q[i].waits \in BOOLEAN
<1>1. q[i] \in Requests
  OBVIOUS
<1> QED
  BY <1>1 DEF Requests

LEMMA OnWireIs ==
    ASSUME NEW q \in Seq(OnWire), NEW i \in DOMAIN q
    PROVE  q[i] \in OnWire /\ q[i].packet \in Packets
<1>1. q[i] \in OnWire
  OBVIOUS
<1> QED
  BY <1>1 DEF OnWire

LEMMA InitInv == Init => IInv
<1> SUFFICES ASSUME Init PROVE IInv
  OBVIOUS
<1> USE BoundsAssumption DEF Init
<1>1. Types
  <2>1. <<>> \in Seq([packet : Packets, waits : BOOLEAN]) /\ <<>> \in Seq(OnWire)
    OBVIOUS
  <2>2. arrived \in 0..Len(wire)
    OBVIOUS
  <2>3. readers \in [Streams -> Seq(Readers)]
    OBVIOUS
  <2>4. \A s \in Streams : \A r \in DOMAIN readers[s] : readers[s][r].end \in Ends
    OBVIOUS
  <2>5. /\ raw \in [Streams -> {"none", "open", "closed", "dropping", "gone", "refused"}]
        /\ op \in [Streams -> {"idle", "header", "chunk", "trailer"}]
        /\ index \in [Streams -> 0..MaxCalls] /\ calls \in [Streams -> 0..MaxCalls]
        /\ acked \in [Streams -> SUBSET (1..MaxCalls)]
        /\ disturbances \in 0..MaxDisturbances
    OBVIOUS
  <2>6. open_streams \in [Streams -> Descriptors \cup {NoStream}]
    OBVIOUS
  <2> QED
    BY <2>1, <2>2, <2>3, <2>4, <2>5, <2>6 DEF Types, TypeOK
<1>2. Waiting
  BY DEF Waiting
<1>3. Pipe = {} /\ OnTheWay = {}
  BY DEF Pipe, OnTheWay
<1>4. Numbered
  BY <1>3 DEF Numbered
<1>5. Placed
  BY DEF Placed
<1> QED
  BY <1>1, <1>2, <1>4, <1>5 DEF IInv

-----------------------------------------------------------------------------
(* The writers *)

\* A request is made, by the operation that is now that of its stream or by none.
LEMMA Requested ==
    ASSUME Types, Waiting, NEW p \in Packets, NEW w \in BOOLEAN,
           packets' = Append(packets, [packet |-> p, waits |-> w]),
           UNCHANGED <<retry, wire>>,
           w => op[p.id] = "idle" /\ p.type # "idle"
                  /\ op' = [op EXCEPT ![p.id] = p.type],
           ~w => UNCHANGED op
    PROVE  /\ packets' \in Seq(Requests)
           /\ Waiting'
           /\ Pipe' = Pipe \cup {p} /\ OnTheWay' = OnTheWay
<1> DEFINE e == [packet |-> p, waits |-> w]
<1>1. e \in Requests /\ e.packet = p /\ e.waits = w
  BY DEF Requests
<1>2. packets \in Seq(Requests)
  BY DEF Types, TypeOK, Requests
<1> HIDE DEF e
<1>3. /\ packets' \in Seq(Requests) /\ Len(packets) \in Nat
      /\ DOMAIN packets = 1..Len(packets) /\ DOMAIN packets' = 1..(Len(packets) + 1)
      /\ packets'[Len(packets) + 1] = e
      /\ \A i \in 1..Len(packets) : packets'[i] = packets[i]
  BY <1>1, <1>2, Appended DEF e
<1>4. Pipe' = Pipe \cup {p}
  BY <1>1, <1>3 DEF Pipe, OnTheWay
<1>5. \A i \in DOMAIN packets :
          packets[i].packet.id \in Streams /\ packets[i].packet.type # "idle"
  BY <1>2, RequestIs, PacketIs
<1>6. Waiting'
  <2>1. op \in [Streams -> {"idle", "header", "chunk", "trailer"}]
    BY DEF Types, TypeOK
  <2>2. w => \A i \in DOMAIN packets : packets[i].waits => packets[i].packet.id # p.id
    BY <1>5 DEF Waiting
  <2>3. \A i \in DOMAIN packets' : i \in DOMAIN packets \/ i = Len(packets) + 1
    BY <1>3
  <2>4. \A i \in DOMAIN packets' :
            packets'[i].waits => op'[packets'[i].packet.id] = packets'[i].packet.type
    BY <1>1, <1>3, <1>5, <2>1, <2>2, <2>3, PacketIs DEF Waiting
  <2>5. \A i, j \in DOMAIN packets' :
            packets'[i].waits /\ packets'[j].waits
                /\ packets'[i].packet.id = packets'[j].packet.id => i = j
    BY <1>1, <1>3, <2>2, <2>3 DEF Waiting
  <2> QED
    BY <2>4, <2>5 DEF Waiting
<1> QED
  BY <1>3, <1>4, <1>6 DEF OnTheWay

LEMMA PipeTyped == ASSUME Types PROVE \A p \in Pipe : p \in Packets
<1>1. packets \in Seq(Requests) /\ retry \in Seq(OnWire) /\ wire \in Seq(OnWire)
  BY DEF Types, TypeOK, Requests
<1> QED
  BY <1>1, RequestIs, OnWireIs DEF Pipe, OnTheWay

\* A step that numbers no chunk and answers no write.
LEMMA NumberedStays ==
    ASSUME Types, Numbered, Types',
           \A p \in Pipe' : p \in Pipe \/ p.type # "chunk",
           OnTheWay \subseteq OnTheWay',
           UNCHANGED <<index, acked>>,
           reused \subseteq reused',
           \A s \in Streams :
              /\ calls[s] <= calls'[s]
              /\ op'[s] = "chunk" => op[s] = "chunk"
              /\ op[s] = "chunk" /\ op'[s] # "chunk" => s \in reused'
    PROVE  Numbered'
<1>1. /\ index \in [Streams -> 0..MaxCalls] /\ index' = index
      /\ calls \in [Streams -> 0..MaxCalls] /\ calls' \in [Streams -> 0..MaxCalls]
  BY DEF Types, TypeOK
<1>2. \A p \in Pipe : p.type = "chunk" => p.index \in Nat /\ p.data \in Nat
  BY PipeTyped, PacketIs, BoundsAssumption
<1>3. \A s \in Streams :
          index'[s] <= calls'[s] /\ (op'[s] = "chunk" => index'[s] < calls'[s])
  BY <1>1, BoundsAssumption DEF Numbered
<1>4. ASSUME NEW s \in Streams, NEW p \in Pipe', IsChunk(p, s)
      PROVE  /\ p.index < p.data /\ p.data <= calls'[s] /\ p.index <= index'[s]
             /\ s \notin reused' /\ op'[s] # "chunk" => p.index < index'[s]
  <2>1. p \in Pipe
    BY <1>4 DEF IsChunk
  <2>2. p.index \in Nat /\ p.data \in Nat
    BY <1>2, <1>4, <2>1 DEF IsChunk
  <2>3. s \notin reused' /\ op'[s] # "chunk" => s \notin reused /\ op[s] # "chunk"
    OBVIOUS
  <2> QED
    BY <1>1, <1>4, <2>1, <2>2, <2>3, BoundsAssumption DEF Numbered
<1>5. \A s \in Streams : \A p, q \in Pipe' : IsChunk(p, s) /\ IsChunk(q, s) =>
          /\ p.index < q.index => p.data < q.data
          /\ s \notin reused' /\ p.index = q.index => p.data = q.data
  BY DEF Numbered, IsChunk
<1>6. \A s \in Streams : \A d \in acked'[s] :
          \E p \in OnTheWay' : IsChunk(p, s) /\ p.data = d
  BY DEF Numbered
<1> QED
  BY <1>3, <1>4, <1>5, <1>6 DEF Numbered

\* A chunk is numbered and takes the next index.
LEMMA ChunkNumbered ==
    ASSUME Types, Numbered, Types', NEW s \in Streams, NEW p \in Packets,
           IsChunk(p, s), p.index = index[s], p.data = calls[s] + 1,
           Pipe' = Pipe \cup {p}, OnTheWay' = OnTheWay,
           op[s] = "idle", op' = [op EXCEPT ![s] = "chunk"],
           calls' = [calls EXCEPT ![s] = @ + 1],
           UNCHANGED <<index, acked, reused>>
    PROVE  Numbered'
<1>1. /\ index \in [Streams -> 0..MaxCalls] /\ index' = index
      /\ calls \in [Streams -> 0..MaxCalls]
      /\ op \in [Streams -> {"idle", "header", "chunk", "trailer"}]
  BY DEF Types, TypeOK
<1>2. \A q \in Pipe : q.type = "chunk" => q.index \in Nat /\ q.data \in Nat
  BY PipeTyped, PacketIs, BoundsAssumption
<1>3. \A t \in Streams :
          index'[t] <= calls'[t] /\ (op'[t] = "chunk" => index'[t] < calls'[t])
  BY <1>1, BoundsAssumption DEF Numbered
<1>4. ASSUME NEW t \in Streams, NEW q \in Pipe', IsChunk(q, t)
      PROVE  /\ q.index < q.data /\ q.data <= calls'[t] /\ q.index <= index'[t]
             /\ t \notin reused' /\ op'[t] # "chunk" => q.index < index'[t]
  <2>1. CASE q = p
    <3>1. t = s /\ op'[t] = "chunk"
      BY <1>1, <1>4, <2>1 DEF IsChunk
    <3> QED
      BY <1>1, <2>1, <3>1, BoundsAssumption DEF Numbered
  <2>2. CASE q \in Pipe
    <3>1. q.index \in Nat /\ q.data \in Nat
      BY <1>2, <1>4, <2>2 DEF IsChunk
    <3>2. op'[t] # "chunk" => op[t] # "chunk"
      BY <1>1
    <3> QED
      BY <1>1, <1>4, <2>2, <3>1, <3>2, BoundsAssumption DEF Numbered
  <2> QED
    BY <2>1, <2>2
\* Those there are have smaller numbers, and smaller indices if none is used twice.
<1>5. \A q \in Pipe : IsChunk(q, s) =>
          /\ q.data < p.data /\ q.index <= p.index
          /\ s \notin reused => q.index < p.index
  <2> SUFFICES ASSUME NEW q \in Pipe, IsChunk(q, s)
               PROVE  /\ q.data < p.data /\ q.index <= p.index
                      /\ s \notin reused => q.index < p.index
    OBVIOUS
  <2>1. q.index \in Nat /\ q.data \in Nat
    BY <1>2 DEF IsChunk
  <2>2. q.data <= calls[s] /\ q.index <= index[s]
        /\ (s \notin reused => q.index < index[s])
    BY DEF Numbered
  <2> QED
    BY <1>1, <2>1, <2>2, BoundsAssumption
<1>6. ASSUME NEW t \in Streams, NEW q \in Pipe', NEW u \in Pipe',
             IsChunk(q, t), IsChunk(u, t)
      PROVE  /\ q.index < u.index => q.data < u.data
             /\ t \notin reused' /\ q.index = u.index => q.data = u.data
  <2>1. CASE q \in Pipe /\ u \in Pipe
    BY <1>6, <2>1 DEF Numbered
  <2>2. CASE q = p /\ u \in Pipe
    <3>1. t = s /\ u.index <= q.index /\ (s \notin reused => u.index < q.index)
      BY <1>5, <1>6, <2>2 DEF IsChunk
    <3>2. u.index \in Nat /\ q.index \in Nat
      BY <1>1, <1>2, <1>6, <2>2 DEF IsChunk
    <3> QED
      BY <3>1, <3>2
  <2>3. CASE q \in Pipe /\ u = p
    <3>1. t = s /\ q.data < u.data /\ (s \notin reused => q.index < u.index)
      BY <1>5, <1>6, <2>3 DEF IsChunk
    <3>2. u.index \in Nat /\ q.index \in Nat
      BY <1>1, <1>2, <1>6, <2>3 DEF IsChunk
    <3> QED
      BY <3>1, <3>2
  <2>4. CASE q = p /\ u = p
    BY <1>1, <2>4
  <2> QED
    BY <2>1, <2>2, <2>3, <2>4
<1>7. \A t \in Streams : \A d \in acked'[t] :
          \E q \in OnTheWay' : IsChunk(q, t) /\ q.data = d
  BY DEF Numbered
<1> QED
  BY <1>3, <1>4, <1>6, <1>7 DEF Numbered

\* A write returns Ok: its chunk is on the way, the next one gets the next index.
LEMMA ChunkAcked ==
    ASSUME Types, Numbered, Types', NEW s \in Streams, NEW p \in Pipe, IsChunk(p, s),
           Pipe' \subseteq Pipe, OnTheWay \cup {p} \subseteq OnTheWay',
           op[s] = "chunk", op' = [op EXCEPT ![s] = "idle"],
           index' = [index EXCEPT ![s] = @ + 1],
           acked' = [acked EXCEPT ![s] = @ \cup {p.data}],
           UNCHANGED <<calls, reused>>
    PROVE  Numbered'
<1>1. /\ index \in [Streams -> 0..MaxCalls]
      /\ calls \in [Streams -> 0..MaxCalls]
      /\ op \in [Streams -> {"idle", "header", "chunk", "trailer"}]
      /\ acked \in [Streams -> SUBSET (1..MaxCalls)]
  BY DEF Types, TypeOK
<1>2. \A q \in Pipe : q.type = "chunk" => q.index \in Nat /\ q.data \in Nat
  BY PipeTyped, PacketIs, BoundsAssumption
<1>3. \A t \in Streams :
          index'[t] <= calls'[t] /\ (op'[t] = "chunk" => index'[t] < calls'[t])
  BY <1>1, BoundsAssumption DEF Numbered
<1>4. ASSUME NEW t \in Streams, NEW q \in Pipe', IsChunk(q, t)
      PROVE  /\ q.index < q.data /\ q.data <= calls'[t] /\ q.index <= index'[t]
             /\ t \notin reused' /\ op'[t] # "chunk" => q.index < index'[t]
  <2>1. q.index \in Nat /\ q.data \in Nat
    BY <1>2, <1>4 DEF IsChunk
  <2>2. /\ q.index < q.data /\ q.data <= calls[t] /\ q.index <= index[t]
        /\ t \notin reused /\ op[t] # "chunk" => q.index < index[t]
    BY <1>4 DEF Numbered
  <2> QED
    BY <1>1, <2>1, <2>2, BoundsAssumption
<1>5. \A t \in Streams : \A q, u \in Pipe' : IsChunk(q, t) /\ IsChunk(u, t) =>
          /\ q.index < u.index => q.data < u.data
          /\ t \notin reused' /\ q.index = u.index => q.data = u.data
  BY DEF Numbered
<1>6. \A t \in Streams : \A d \in acked'[t] :
          \E q \in OnTheWay' : IsChunk(q, t) /\ q.data = d
  BY <1>1 DEF Numbered
<1> QED
  BY <1>3, <1>4, <1>5, <1>6 DEF Numbered

\* What a step does to a request stays with the packet: nobody waits for it any more.
LEMMA Unheard ==
    ASSUME Types, NEW s \in Streams, packets' = Unanswered(s), UNCHANGED <<retry, wire>>
    PROVE  /\ packets' \in Seq(Requests) /\ DOMAIN packets' = DOMAIN packets
           /\ \A i \in DOMAIN packets :
                 /\ packets'[i].packet = packets[i].packet
                 /\ packets'[i].waits => packets[i].waits /\ packets[i].packet.id # s
           /\ Pipe' = Pipe /\ OnTheWay' = OnTheWay
<1>1. packets \in Seq(Requests)
  BY DEF Types, TypeOK, Requests
<1>2. Len(packets) \in Nat /\ DOMAIN packets = 1..Len(packets)
  BY <1>1
<1>3. \A i \in DOMAIN packets : packets[i] \in Requests
  BY <1>1
<1>4. packets' = [i \in 1..Len(packets) |->
          IF packets[i].packet.id = s THEN [packets[i] EXCEPT !.waits = FALSE] ELSE packets[i]]
  BY <1>2 DEF Unanswered
<1>5. \A i \in 1..Len(packets) :
          /\ packets'[i] \in Requests
          /\ packets'[i].packet = packets[i].packet
          /\ packets'[i].waits => packets[i].waits /\ packets[i].packet.id # s
  BY <1>2, <1>3, <1>4 DEF Requests
<1>6. packets' \in [1..Len(packets) -> Requests]
  BY <1>4, <1>5
<1>7. packets' \in Seq(Requests) /\ DOMAIN packets' = DOMAIN packets
  BY <1>2, <1>6, Mapped
<1>8. Pipe' = Pipe
  BY <1>2, <1>5, <1>7 DEF Pipe, OnTheWay
<1> QED
  BY <1>2, <1>5, <1>7, <1>8 DEF OnTheWay

-----------------------------------------------------------------------------
(* The task *)

WriterTypes ==
    /\ raw \in [Streams -> {"none", "open", "closed", "dropping", "gone", "refused"}]
    /\ op \in [Streams -> {"idle", "header", "chunk", "trailer"}]
    /\ index \in [Streams -> 0..MaxCalls]
    /\ calls \in [Streams -> 0..MaxCalls]
    /\ acked \in [Streams -> SUBSET (1..MaxCalls)]
    /\ reused \subseteq Streams
    /\ packets \in Seq(Requests)

\* The packet at the head of the channel is taken, and whoever waits for it is answered.
LEMMA Responded ==
    ASSUME IInv, NEW ok \in BOOLEAN, packets # <<>>, Respond(ok)
    PROVE  /\ Taken.packet \in Packets /\ Taken.packet \in Pipe
           /\ {packets'[i].packet : i \in DOMAIN packets'}
                 \subseteq {packets[i].packet : i \in DOMAIN packets}
           /\ WriterTypes' /\ Waiting'
<1> DEFINE p == Taken.packet
           s == p.id
<1>1. packets \in Seq(Requests) /\ packets' = Tail(packets)
  BY DEF IInv, Types, TypeOK, Requests, Respond
<1>2. /\ packets' \in Seq(Requests) /\ Len(packets) \in Nat \ {0}
      /\ DOMAIN packets = 1..Len(packets) /\ DOMAIN packets' = 1..(Len(packets) - 1)
      /\ Taken = packets[1] /\ Taken \in Requests
      /\ \A i \in 1..(Len(packets) - 1) : packets'[i] = packets[i + 1]
  BY <1>1, Shortened DEF Taken
<1>3. p \in Packets /\ p \in Pipe /\ 1 \in DOMAIN packets
  BY <1>2 DEF Requests, Pipe
<1>4. \A i \in DOMAIN packets' :
          i + 1 \in DOMAIN packets /\ i + 1 # 1 /\ packets'[i] = packets[i + 1]
  BY <1>2
<1>5. {packets'[i].packet : i \in DOMAIN packets'}
          \subseteq {packets[i].packet : i \in DOMAIN packets}
  BY <1>4
<1>6. \A i \in DOMAIN packets : packets[i].packet.id \in Streams
  BY <1>1, RequestIs, PacketIs
<1>7. s \in Streams /\ (p.type = "chunk" => p.data \in 1..MaxCalls)
  BY <1>3, PacketIs
<1>8. Taken.waits => op[s] = p.type
  BY <1>2, <1>3 DEF IInv, Waiting
<1>9. WriterTypes
  BY <1>1 DEF IInv, Types, TypeOK, WriterTypes
<1>10. WriterTypes'
  <2>1. CASE Taken.waits
    <3> USE <1>7, <1>9, <2>1 DEF WriterTypes, Respond, Answered
    <3>1. raw' \in [Streams -> {"none", "open", "closed", "dropping", "gone", "refused"}]
      OBVIOUS
    <3>2. op' \in [Streams -> {"idle", "header", "chunk", "trailer"}]
      OBVIOUS
    <3>3. p.type = "chunk" => index[s] < calls[s]
      BY <1>8 DEF IInv, Numbered
    <3>4. index' \in [Streams -> 0..MaxCalls]
      BY <3>3, BoundsAssumption
    <3> DEFINE more == IF p.type = "chunk" /\ ok THEN acked[s] \cup {p.data} ELSE acked[s]
    <3>5. acked' \in [Streams -> SUBSET (1..MaxCalls)]
      <4>1. acked' = [acked EXCEPT ![s] = more]
        OBVIOUS
      <4>2. more \in SUBSET (1..MaxCalls)
        OBVIOUS
      <4> HIDE DEF more
      <4> QED
        BY <4>1, <4>2
    <3>6. calls' \in [Streams -> 0..MaxCalls] /\ reused' \subseteq Streams
      OBVIOUS
    <3> QED
      BY <1>2, <3>1, <3>2, <3>4, <3>5, <3>6
  <2>2. CASE ~Taken.waits
    BY <1>2, <1>9, <2>2 DEF Respond, WriterTypes, writer
  <2> QED
    BY <2>1, <2>2
<1>11. \A i \in DOMAIN packets' : packets'[i].waits =>
           op'[packets'[i].packet.id] = packets'[i].packet.type
  <2> SUFFICES ASSUME NEW i \in DOMAIN packets', packets'[i].waits
               PROVE  op'[packets'[i].packet.id] = packets'[i].packet.type
    OBVIOUS
  <2> DEFINE t == packets[i + 1].packet.id
  <2>1. op[t] = packets'[i].packet.type /\ t \in Streams /\ packets'[i].packet.id = t
    BY <1>4, <1>6 DEF IInv, Waiting
  <2>2. CASE Taken.waits
    <3>1. t # s
      BY <1>2, <1>3, <1>4, <2>2 DEF IInv, Waiting
    <3>2. op' = [op EXCEPT ![s] = "idle"]
      BY <2>2 DEF Respond, Answered
    <3> QED
      BY <1>9, <2>1, <3>1, <3>2 DEF WriterTypes
  <2>3. CASE ~Taken.waits
    BY <2>1, <2>3 DEF Respond, writer
  <2> QED
    BY <2>2, <2>3
<1>12. \A i, j \in DOMAIN packets' :
           packets'[i].waits /\ packets'[j].waits
               /\ packets'[i].packet.id = packets'[j].packet.id => i = j
  <2> SUFFICES ASSUME NEW i \in DOMAIN packets', NEW j \in DOMAIN packets',
                      packets'[i].waits, packets'[j].waits,
                      packets'[i].packet.id = packets'[j].packet.id
               PROVE  i = j
    OBVIOUS
  <2>1. i + 1 = j + 1
    BY <1>4 DEF IInv, Waiting
  <2> QED
    BY <1>2, <2>1
<1> QED
  BY <1>3, <1>5, <1>10, <1>11, <1>12 DEF Waiting

\* ... and the numbers of the chunks stay sound, whatever the answer is.
LEMMA RespondedNumbered ==
    ASSUME IInv, Types', NEW ok \in BOOLEAN, packets # <<>>, Respond(ok),
           Pipe' \subseteq Pipe, OnTheWay \subseteq OnTheWay',
           ok => Taken.packet \in OnTheWay'
    PROVE  Numbered'
<1> DEFINE p == Taken.packet
           s == p.id
<1>1. p \in Packets /\ p \in Pipe
  BY Responded
<1>2. s \in Streams /\ p.type \in {"header", "chunk", "trailer"}
  BY <1>1, PacketIs
<1>3. Types /\ Numbered /\ WriterTypes
  BY DEF IInv, Types, TypeOK, WriterTypes, Requests
<1>4. packets[1] = Taken /\ 1 \in DOMAIN packets
  <2>1. packets \in Seq(Requests)
    BY <1>3 DEF WriterTypes
  <2> QED
    BY <2>1, Shortened DEF Taken
<1>5. Taken.waits => op[s] = p.type
  BY <1>4 DEF IInv, Waiting
<1>6. CASE ~Taken.waits
  BY <1>3, <1>6, NumberedStays, BoundsAssumption DEF Respond, writer, WriterTypes
<1>7. CASE Taken.waits /\ p.type = "chunk" /\ ok
  <2>1. /\ op' = [op EXCEPT ![s] = "idle"] /\ index' = [index EXCEPT ![s] = @ + 1]
        /\ acked' = [acked EXCEPT ![s] = @ \cup {p.data}]
        /\ UNCHANGED <<calls, reused>>
    BY <1>7 DEF Respond, Answered
  <2>2. IsChunk(p, s) /\ op[s] = "chunk" /\ OnTheWay \cup {p} \subseteq OnTheWay'
    BY <1>5, <1>7 DEF IsChunk
  <2> HIDE DEF p, s
  <2> QED
    BY <1>1, <1>2, <1>3, <2>1, <2>2, ChunkAcked
<1>8. CASE Taken.waits /\ ~(p.type = "chunk" /\ ok)
  <2>1. op' = [op EXCEPT ![s] = "idle"] /\ UNCHANGED calls
    BY <1>8 DEF Respond, Answered
  <2>2. UNCHANGED <<index, acked>>
    BY <1>3, <1>8 DEF Respond, Answered, WriterTypes
  <2>3. reused \subseteq reused' /\ (p.type = "chunk" => s \in reused')
    BY <1>8 DEF Respond, Answered
  <2>4. \A t \in Streams :
            /\ calls[t] <= calls'[t]
            /\ op'[t] = "chunk" => op[t] = "chunk"
            /\ op[t] = "chunk" /\ op'[t] # "chunk" => t \in reused'
    BY <1>2, <1>3, <1>5, <1>8, <2>1, <2>3, BoundsAssumption DEF WriterTypes
  <2> HIDE DEF p, s
  <2> QED
    BY <1>3, <2>2, <2>3, <2>4, NumberedStays
<1> QED
  BY <1>6, <1>7, <1>8

-----------------------------------------------------------------------------
(* The receiver *)

\* A step that leaves the receiver alone and takes nothing off the wire.
LEMMA PlacedStays ==
    ASSUME Placed, UNCHANGED receiver, OnTheWay \subseteq OnTheWay' PROVE Placed'
BY DEF Placed, receiver, Reader

ReceiverTypes ==
    /\ open_streams \in [Streams -> Descriptors \cup {NoStream}]
    /\ readers \in [Streams -> Seq(Readers)]
    /\ \A s \in Streams : \A r \in DOMAIN readers[s] : readers[s][r].end \in Ends

\* The descriptor of a stream leads to its reader.
LEMMA ReaderIs ==
    ASSUME Types, Placed, NEW s \in Streams, open_streams[s] # NoStream
    PROVE  /\ open_streams[s] \in Descriptors
           /\ Reader(s) \in DOMAIN readers[s]
           /\ readers[s][Reader(s)] \in Readers
           /\ readers[s][Reader(s)].items \in Seq(1..MaxCalls)
           /\ open_streams[s].index = Len(readers[s][Reader(s)].items)
<1>1. Reader(s) \in DOMAIN readers[s] /\ readers[s] \in Seq(Readers)
  BY DEF Types, Placed
<1>2. readers[s][Reader(s)] \in Readers
  BY <1>1
<1> QED
  BY <1>1, <1>2 DEF Types, TypeOK, Placed, Readers

\* One reader of one stream is changed, and with it the descriptor of the stream.
LEMMA ReaderChanged ==
    ASSUME Types, Placed, UNCHANGED wire, NEW s \in Streams, NEW r \in DOMAIN readers[s],
           NEW new \in Readers, NEW d \in Descriptors \cup {NoStream},
           readers' = [readers EXCEPT ![s][r] = new],
           open_streams' = [open_streams EXCEPT ![s] = d],
           \A k \in DOMAIN new.items :
              \/ k \in DOMAIN readers[s][r].items /\ new.items[k] = readers[s][r].items[k]
              \/ \E p \in OnTheWay : IsChunk(p, s) /\ p.index + 1 = k /\ p.data = new.items[k],
           d # NoStream =>
              IF d.reader = r THEN d.index = Len(new.items)
              ELSE /\ d.reader \in DOMAIN readers[s]
                   /\ d.index = Len(readers[s][d.reader].items)
    PROVE  ReceiverTypes' /\ Placed'
<1>1. readers \in [Streams -> Seq(Readers)]
      /\ open_streams \in [Streams -> Descriptors \cup {NoStream}]
  BY DEF Types, TypeOK
<1>2. /\ readers[s] \in Seq(Readers) /\ Len(readers[s]) \in Nat
      /\ DOMAIN readers[s] = 1..Len(readers[s])
  BY <1>1
<1>3. /\ readers'[s] = [readers[s] EXCEPT ![r] = new]
      /\ \A t \in Streams : t # s => readers'[t] = readers[t]
  BY <1>1
<1>4. readers'[s] \in [1..Len(readers[s]) -> Readers]
  BY <1>2, <1>3
<1>5. readers'[s] \in Seq(Readers) /\ DOMAIN readers'[s] = DOMAIN readers[s]
  BY <1>2, <1>4, Mapped
<1>6. readers' \in [Streams -> Seq(Readers)]
  BY <1>1, <1>3, <1>5
<1>7. open_streams' \in [Streams -> Descriptors \cup {NoStream}]
  BY <1>1
<1>8. \A t \in Streams : \A q \in DOMAIN readers'[t] : readers'[t][q].end \in Ends
  <2> SUFFICES ASSUME NEW t \in Streams, NEW q \in DOMAIN readers'[t]
               PROVE  readers'[t][q].end \in Ends
    OBVIOUS
  <2>1. readers'[t] \in Seq(Readers)
    BY <1>6
  <2>2. readers'[t][q] \in Readers
    BY <2>1
  <2> QED
    BY <2>2 DEF Readers
<1>9. OnTheWay' = OnTheWay
  BY DEF OnTheWay
<1>10. /\ readers'[s][r] = new
       /\ \A q \in DOMAIN readers[s] : q # r => readers'[s][q] = readers[s][q]
  BY <1>2, <1>3
<1>11. ASSUME NEW t \in Streams, NEW q \in DOMAIN readers'[t],
              NEW k \in DOMAIN readers'[t][q].items
       PROVE  \E p \in OnTheWay' : IsChunk(p, t) /\ p.index + 1 = k
                                     /\ p.data = readers'[t][q].items[k]
  <2>1. CASE t = s /\ q = r
    BY <1>9, <1>10, <1>11, <2>1 DEF Placed
  <2>2. CASE ~(t = s /\ q = r)
    <3>1. q \in DOMAIN readers[t] /\ readers'[t][q] = readers[t][q]
      BY <1>3, <1>5, <1>10, <1>11, <2>2
    <3> QED
      BY <1>9, <1>11, <3>1 DEF Placed
  <2> QED
    BY <2>1, <2>2
<1>12. ASSUME NEW t \in Streams, open_streams'[t] # NoStream
       PROVE  /\ open_streams'[t].reader \in DOMAIN readers'[t]
              /\ open_streams'[t].index = Len(readers'[t][open_streams'[t].reader].items)
  <2>1. CASE t = s
    <3>1. open_streams'[t] = d /\ d # NoStream
      BY <1>1, <1>12, <2>1
    <3>2. CASE d.reader = r
      BY <1>5, <1>10, <2>1, <3>1, <3>2
    <3>3. CASE d.reader # r
      BY <1>5, <1>10, <2>1, <3>1, <3>3
    <3> QED
      BY <3>2, <3>3
  <2>2. CASE t # s
    BY <1>1, <1>3, <1>12, <2>2 DEF Placed, Reader
  <2> QED
    BY <2>1, <2>2
<1> QED
  BY <1>6, <1>7, <1>8, <1>11, <1>12 DEF ReceiverTypes, Placed, Reader

\* The channel of a reader is closed.
LEMMA ReaderEnded ==
    ASSUME Types, Placed, UNCHANGED wire, NEW s \in Streams, open_streams[s] # NoStream,
           NEW how \in Ends, NEW owed \in SUBSET (1..MaxCalls),
           open_streams' = [open_streams EXCEPT ![s] = NoStream],
           readers' = Ended(s, how, owed)
    PROVE  ReceiverTypes' /\ Placed'
<1> DEFINE r == Reader(s)
           new == [readers[s][r] EXCEPT !.end = how, !.owed = owed]
<1>1. r \in DOMAIN readers[s] /\ readers[s][r] \in Readers
  BY ReaderIs
<1>2. new \in Readers /\ new.items = readers[s][r].items
  BY <1>1 DEF Readers
<1>3. readers \in [Streams -> Seq(Readers)]
  BY DEF Types
<1>4. readers' = [readers EXCEPT ![s][r] = new]
  BY <1>1, <1>3 DEF Ended
<1> HIDE DEF r, new
<1> QED
  BY <1>1, <1>2, <1>4, ReaderChanged

\* A reader is given a chunk, or is found to be gone.
LEMMA Yielded ==
    ASSUME Types, Placed, Numbered, UNCHANGED wire, NEW p \in OnTheWay, p \in Packets,
           NEW s \in Streams, IsChunk(p, s),
           open_streams[s] # NoStream, open_streams[s].index = p.index,
           yield_chunk(s, p.data)
    PROVE  ReceiverTypes' /\ Placed'
<1> DEFINE r == Reader(s)
           d == open_streams[s]
<1>1. /\ r \in DOMAIN readers[s] /\ readers[s][r] \in Readers /\ d \in Descriptors
      /\ readers[s][r].items \in Seq(1..MaxCalls) /\ d.index = Len(readers[s][r].items)
  BY ReaderIs
<1>2. /\ open_streams \in [Streams -> Descriptors \cup {NoStream}]
      /\ readers \in [Streams -> Seq(Readers)] /\ calls[s] \in 0..MaxCalls
  BY DEF Types, TypeOK
<1>3. CASE readers[s][r].dropped
  BY <1>3, ReaderEnded DEF yield_chunk, Ends
<1>4. CASE ~readers[s][r].dropped
  <2> DEFINE items == Append(readers[s][r].items, p.data)
             new == [readers[s][r] EXCEPT !.items = items]
             next == [d EXCEPT !.index = @ + 1]
  <2>1. p.index \in Nat /\ p.data \in 1..MaxCalls
    BY PacketIs, BoundsAssumption DEF IsChunk
  <2>2. p.index < p.data /\ p \in Pipe
    BY DEF Numbered, Pipe
  <2>3. next \in Descriptors /\ next.reader = r /\ next.index = p.index + 1
    <3>1. p.index + 1 \in 0..MaxCalls
      BY <2>1, <2>2, BoundsAssumption
    <3>2. d.reader = r /\ d.index = p.index
      BY DEF Reader
    <3> HIDE DEF d, r
    <3> QED
      BY <1>1, <2>1, <3>1, <3>2 DEF Descriptors
  <2>4. /\ items \in Seq(1..MaxCalls) /\ Len(items) = p.index + 1
        /\ DOMAIN items = 1..(p.index + 1) /\ items[p.index + 1] = p.data
        /\ DOMAIN readers[s][r].items = 1..p.index
        /\ \A k \in 1..p.index : items[k] = readers[s][r].items[k]
    BY <1>1, <2>1, Appended
  <2> HIDE DEF items
  <2>5. new \in Readers /\ new.items = items
    BY <1>1, <2>4 DEF Readers
  <2>6. readers' = [readers EXCEPT ![s][r] = new]
    BY <1>1, <1>2, <1>4 DEF yield_chunk, items
  <2>7. open_streams' = [open_streams EXCEPT ![s] = next]
    BY <1>2, <1>4 DEF yield_chunk
  <2> HIDE DEF new, next, r, d
  <2>8. \A k \in DOMAIN new.items :
            \/ k \in DOMAIN readers[s][r].items /\ new.items[k] = readers[s][r].items[k]
            \/ \E q \in OnTheWay : IsChunk(q, s) /\ q.index + 1 = k /\ q.data = new.items[k]
    <3> SUFFICES ASSUME NEW k \in DOMAIN new.items
                 PROVE  \/ k \in DOMAIN readers[s][r].items
                              /\ new.items[k] = readers[s][r].items[k]
                        \/ IsChunk(p, s) /\ p.index + 1 = k /\ p.data = new.items[k]
      OBVIOUS
    <3>1. k \in 1..p.index \/ k = p.index + 1
      BY <2>1, <2>4, <2>5
    <3> QED
      BY <2>4, <2>5, <3>1
  <2>9. next.reader = r /\ next.index = Len(new.items)
    BY <2>3, <2>4, <2>5
  <2>10. r \in DOMAIN readers[s] /\ new \in Readers /\ next \in Descriptors \cup {NoStream}
    BY <1>1, <2>3, <2>5
  <2> QED
    BY <2>6, <2>7, <2>8, <2>9, <2>10, ReaderChanged, ZenonT(40)
<1> QED
  BY <1>3, <1>4

\* A header opens a stream that is not open, for a new reader.
LEMMA HeaderHandled ==
    ASSUME Types, Placed, UNCHANGED wire, NEW p \in Packets, p.type = "header",
           NEW enc \in BOOLEAN, handle_header(p, enc)
    PROVE  ReceiverTypes' /\ Placed'
<1> DEFINE s == p.id
           new == NewReader(p.total)
           n == Len(readers[s]) + 1
           d == [index |-> 0, total |-> p.total, encrypted |-> enc, reader |-> n]
<1>1. s \in Streams /\ p.total \in Lengths
  BY PacketIs
<1>2. /\ open_streams \in [Streams -> Descriptors \cup {NoStream}]
      /\ readers \in [Streams -> Seq(Readers)]
      /\ \A t \in Streams : \A r \in DOMAIN readers[t] : readers[t][r].end \in Ends
  BY DEF Types, TypeOK
<1>3. CASE open_streams[s] # NoStream
  BY <1>2, <1>3, PlacedStays DEF handle_header, receiver, ReceiverTypes, OnTheWay
<1>4. CASE open_streams[s] = NoStream
  <2>1. /\ readers' = [readers EXCEPT ![s] = Append(@, new)]
        /\ open_streams' = [open_streams EXCEPT ![s] = d]
    BY <1>4 DEF handle_header
  <2>2. new \in Readers /\ new.items = <<>>
    <3>1. new = [items |-> <<>>, total |-> p.total, end |-> "open", owed |-> {},
                 dropped |-> FALSE]
      BY DEF NewReader
    <3>2. <<>> \in Seq(1..MaxCalls) /\ {} \in SUBSET (1..MaxCalls) /\ "open" \in Ends
      BY DEF Ends
    <3> HIDE DEF new
    <3> QED
      BY <1>1, <3>1, <3>2 DEF Readers
  <2> HIDE DEF new, s
  <2>3. /\ readers'[s] \in Seq(Readers) /\ n \in Nat \ {0}
        /\ DOMAIN readers[s] = 1..(n - 1) /\ DOMAIN readers'[s] = 1..n
        /\ readers'[s][n] = new
        /\ \A r \in 1..(n - 1) : readers'[s][r] = readers[s][r]
    BY <1>1, <1>2, <2>1, <2>2, Appended
  <2>4. \A t \in Streams : t # s => readers'[t] = readers[t]
    BY <1>2, <2>1
  <2>5. readers' \in [Streams -> Seq(Readers)]
    BY <1>1, <1>2, <2>1, <2>3
  <2>6. d \in Descriptors /\ d.reader = n /\ d.index = 0
    BY <1>1, <2>3, BoundsAssumption DEF Descriptors
  <2> HIDE DEF d
  <2>7. open_streams' \in [Streams -> Descriptors \cup {NoStream}]
    BY <1>2, <2>1, <2>6
  <2>8. \A t \in Streams : \A r \in DOMAIN readers'[t] :
            (r \in DOMAIN readers[t] /\ readers'[t][r] = readers[t][r])
            \/ (t = s /\ r = n)
    BY <2>3, <2>4
  <2>9. new.end \in Ends
    BY <2>2 DEF Readers
  <2>10. \A t \in Streams : \A r \in DOMAIN readers'[t] : readers'[t][r].end \in Ends
    BY <1>2, <2>3, <2>8, <2>9
  <2>11. OnTheWay' = OnTheWay
    BY DEF OnTheWay
  <2> HIDE DEF n
  <2>12. ASSUME NEW t \in Streams, NEW r \in DOMAIN readers'[t],
                NEW k \in DOMAIN readers'[t][r].items
         PROVE  \E q \in OnTheWay' : IsChunk(q, t) /\ q.index + 1 = k
                                       /\ q.data = readers'[t][r].items[k]
    <3>1. CASE t = s /\ r = n
      BY <2>2, <2>3, <2>12, <3>1
    <3>2. CASE ~(t = s /\ r = n)
      <4>1. r \in DOMAIN readers[t] /\ readers'[t][r] = readers[t][r]
        BY <2>8, <2>12, <3>2
      <4> QED
        BY <2>11, <2>12, <4>1 DEF Placed
    <3> QED
      BY <3>1, <3>2
  <2>13. ASSUME NEW t \in Streams, open_streams'[t] # NoStream
         PROVE  /\ open_streams'[t].reader \in DOMAIN readers'[t]
                /\ open_streams'[t].index = Len(readers'[t][open_streams'[t].reader].items)
    <3>1. CASE t = s
      BY <1>2, <2>1, <2>2, <2>3, <2>6, <3>1
    <3>2. CASE t # s
      BY <1>2, <2>1, <2>4, <2>13, <3>2 DEF Placed, Reader
    <3> QED
      BY <3>1, <3>2
  <2> QED
    BY <2>5, <2>7, <2>10, <2>12, <2>13 DEF ReceiverTypes, Placed, Reader
<1> QED
  BY <1>3, <1>4

LEMMA NothingReceived ==
    ASSUME Types, Placed, UNCHANGED wire, UNCHANGED receiver
    PROVE  ReceiverTypes' /\ Placed'
BY PlacedStays DEF Types, TypeOK, ReceiverTypes, receiver, OnTheWay

LEMMA ReaderFailed ==
    ASSUME Types, Placed, UNCHANGED wire, NEW s \in Streams, open_streams[s] # NoStream,
           NEW error \in Ends, close_stream_with_error(s, error)
    PROVE  ReceiverTypes' /\ Placed'
<1>1. /\ open_streams' = [open_streams EXCEPT ![s] = NoStream]
      /\ readers' = Ended(s, error, {})
  BY DEF close_stream_with_error
<1>2. {} \in SUBSET (1..MaxCalls)
  OBVIOUS
<1> QED
  BY <1>1, <1>2, ReaderEnded

LEMMA ChunkHandled ==
    ASSUME Types, Placed, Numbered, UNCHANGED wire, NEW p \in OnTheWay, p \in Packets,
           p.type = "chunk", NEW enc \in BOOLEAN, handle_chunk(p, enc)
    PROVE  ReceiverTypes' /\ Placed'
<1> DEFINE s == p.id
           d == open_streams[s]
<1>1. s \in Streams /\ IsChunk(p, s)
  BY PacketIs DEF IsChunk
<1>2. {"EncryptionTypeMismatch", "MissedChunk", "LengthExceeded"} \subseteq Ends
  BY DEF Ends
<1>3. CASE d = NoStream
  BY <1>3, NothingReceived DEF handle_chunk
<1>4. CASE d # NoStream /\ d.encrypted # enc
  <2>1. close_stream_with_error(s, "EncryptionTypeMismatch")
    BY <1>4 DEF handle_chunk
  <2> QED
    BY <1>1, <1>2, <1>4, <2>1, ReaderFailed
<1>5. CASE d # NoStream /\ d.encrypted = enc /\ d.index # p.index
  <2>1. close_stream_with_error(s, "MissedChunk")
    BY <1>5 DEF handle_chunk
  <2> QED
    BY <1>1, <1>2, <1>5, <2>1, ReaderFailed
<1>6. CASE d # NoStream /\ d.encrypted = enc /\ d.index = p.index
  <2>1. \/ close_stream_with_error(s, "LengthExceeded")
        \/ yield_chunk(s, p.data)
    BY <1>6 DEF handle_chunk
  <2>2. CASE close_stream_with_error(s, "LengthExceeded")
    BY <1>1, <1>2, <1>6, <2>2, ReaderFailed
  <2>3. CASE yield_chunk(s, p.data)
    BY <1>1, <1>6, <2>3, Yielded
  <2> QED
    BY <2>1, <2>2, <2>3
<1> QED
  BY <1>3, <1>4, <1>5, <1>6

LEMMA TrailerHandled ==
    ASSUME Types, Placed, UNCHANGED wire, NEW p \in Packets, p.type = "trailer",
           handle_trailer(p)
    PROVE  ReceiverTypes' /\ Placed'
<1> DEFINE s == p.id
           d == open_streams[s]
           how == IF d.total # Undeclared /\ d.index < d.total THEN "Incomplete"
                  ELSE IF p.abnormal THEN "AbnormalEnd" ELSE "clean"
<1>1. s \in Streams /\ p.owed \in SUBSET (1..MaxCalls)
  BY PacketIs
<1>2. CASE d = NoStream
  BY <1>2, NothingReceived DEF handle_trailer
<1>3. CASE d # NoStream
  <2>1. /\ open_streams' = [open_streams EXCEPT ![s] = NoStream]
        /\ readers' = Ended(s, how, p.owed)
    BY <1>3 DEF handle_trailer
  <2>2. how \in Ends
    BY DEF Ends
  <2> HIDE DEF how
  <2> QED
    BY <1>1, <1>3, <2>1, <2>2, ReaderEnded
<1> QED
  BY <1>2, <1>3

-----------------------------------------------------------------------------
(* Every step *)

NetworkTypes ==
    /\ task \in {"running", "ended"}
    /\ encrypted \in BOOLEAN
    /\ retry \in Seq(OnWire) /\ wire \in Seq(OnWire)
    /\ arrived \in 0..Len(wire)
    /\ lost \subseteq Streams /\ failed \subseteq Streams
    /\ disturbances \in 0..MaxDisturbances

LEMMA Parts == Types <=> WriterTypes /\ NetworkTypes /\ ReceiverTypes
BY DEF Types, TypeOK, WriterTypes, NetworkTypes, ReceiverTypes, Requests

LEMMA PartsNext == WriterTypes' /\ NetworkTypes' /\ ReceiverTypes' => Types'
BY DEF Types, TypeOK, WriterTypes, NetworkTypes, ReceiverTypes, Requests

LEMMA NetworkSame == NetworkTypes /\ UNCHANGED <<task, network>> => NetworkTypes'
BY DEF NetworkTypes, network

\* A request of a writer: everything but the numbers of the chunks follows.
LEMMA RequestKeeps ==
    ASSUME IInv, NEW p \in Packets, op[p.id] = "idle", Request(p),
           op' = [op EXCEPT ![p.id] = p.type],
           calls' \in [Streams -> 0..MaxCalls],
           UNCHANGED <<raw, index, acked, reused, task, network, receiver>>
    PROVE  Types' /\ Waiting' /\ Placed' /\ Pipe' = Pipe \cup {p} /\ OnTheWay' = OnTheWay
<1>1. WriterTypes /\ NetworkTypes /\ ReceiverTypes
  BY Parts DEF IInv
<1>2. packets' = Append(packets, [packet |-> p, waits |-> TRUE])
  BY DEF Request
<1>3. p.type \in {"header", "chunk", "trailer"} /\ p.id \in Streams
  BY PacketIs
<1>4. UNCHANGED <<retry, wire>>
  BY DEF network
<1>5. /\ packets' \in Seq(Requests) /\ Waiting'
      /\ Pipe' = Pipe \cup {p} /\ OnTheWay' = OnTheWay
  <2>1. p.type # "idle"
    BY <1>3
  <2> QED
    BY <1>2, <1>4, <2>1, Requested, TRUE \in BOOLEAN DEF IInv
<1>6. WriterTypes'
  BY <1>1, <1>3, <1>5 DEF WriterTypes
<1>7. ReceiverTypes' /\ Placed'
  BY <1>4, NothingReceived DEF IInv
<1> QED
  BY <1>1, <1>5, <1>6, <1>7, NetworkSame, PartsNext

LEMMA OpenInv == ASSUME IInv, NEW s \in Streams, Open(s) PROVE IInv'
<1>1. PICK n \in Lengths : Request(Header(s, n))
  BY DEF Open
<1> DEFINE p == Header(s, n)
<1>2. p \in Packets /\ p.type = "header" /\ p.id = s
  BY Made
<1>3. /\ op[s] = "idle" /\ op' = [op EXCEPT ![s] = "header"]
      /\ UNCHANGED <<raw, index, calls, acked, reused, task, network, receiver>>
  BY DEF Open
<1>4. /\ calls' \in [Streams -> 0..MaxCalls]
      /\ op \in [Streams -> {"idle", "header", "chunk", "trailer"}]
  BY <1>3 DEF IInv, Types, TypeOK
<1> HIDE DEF p
<1>5. Types' /\ Waiting' /\ Placed' /\ Pipe' = Pipe \cup {p} /\ OnTheWay' = OnTheWay
  BY <1>1, <1>2, <1>3, <1>4, RequestKeeps DEF p
<1>6. \A t \in Streams :
          /\ calls[t] <= calls'[t]
          /\ op'[t] = "chunk" => op[t] = "chunk"
          /\ op[t] = "chunk" /\ op'[t] # "chunk" => t \in reused'
  BY <1>3, <1>4, BoundsAssumption
<1>7. Numbered'
  BY <1>2, <1>3, <1>5, <1>6, NumberedStays DEF IInv
<1> QED
  BY <1>5, <1>7 DEF IInv

LEMMA WriteInv == ASSUME IInv, NEW s \in Streams, write_chunk(s) PROVE IInv'
<1> DEFINE p == Chunk(s, index[s], calls[s] + 1)
<1>1. /\ index[s] \in 0..MaxCalls /\ calls \in [Streams -> 0..MaxCalls]
  BY DEF IInv, Types, TypeOK
<1>2. /\ op[s] = "idle" /\ op' = [op EXCEPT ![s] = "chunk"] /\ Request(p)
      /\ calls' = [calls EXCEPT ![s] = @ + 1] /\ calls[s] < MaxCalls
      /\ UNCHANGED <<raw, index, acked, reused, task, network, receiver>>
  BY DEF write_chunk
<1>3. calls[s] + 1 \in 1..MaxCalls /\ calls' \in [Streams -> 0..MaxCalls]
  BY <1>1, <1>2, BoundsAssumption
<1>4. /\ p \in Packets /\ p.type = "chunk" /\ p.id = s
      /\ p.index = index[s] /\ p.data = calls[s] + 1
  BY <1>1, <1>3, Made
<1> HIDE DEF p
<1>5. Types' /\ Waiting' /\ Placed' /\ Pipe' = Pipe \cup {p} /\ OnTheWay' = OnTheWay
  BY <1>2, <1>3, <1>4, RequestKeeps
<1>6. Numbered'
  BY <1>2, <1>4, <1>5, ChunkNumbered DEF IInv, IsChunk
<1> QED
  BY <1>5, <1>6 DEF IInv

LEMMA CloseInv == ASSUME IInv, NEW s \in Streams, close(s) PROVE IInv'
<1>1. PICK abnormal \in BOOLEAN : Request(Trailer(s, abnormal))
  BY DEF close
<1> DEFINE p == Trailer(s, abnormal)
<1>2. acked[s] \subseteq 1..MaxCalls /\ calls \in [Streams -> 0..MaxCalls]
      /\ op \in [Streams -> {"idle", "header", "chunk", "trailer"}]
  BY DEF IInv, Types, TypeOK
<1>3. p \in Packets /\ p.type = "trailer" /\ p.id = s
  BY <1>2, Made
<1>4. /\ op[s] = "idle" /\ op' = [op EXCEPT ![s] = "trailer"]
      /\ calls' = [calls EXCEPT ![s] = @ + 1] /\ calls[s] < MaxCalls
      /\ UNCHANGED <<raw, index, acked, reused, task, network, receiver>>
  BY DEF close
<1>5. calls' \in [Streams -> 0..MaxCalls]
  BY <1>2, <1>4, BoundsAssumption
<1> HIDE DEF p
<1>6. Types' /\ Waiting' /\ Placed' /\ Pipe' = Pipe \cup {p} /\ OnTheWay' = OnTheWay
  BY <1>1, <1>3, <1>4, <1>5, RequestKeeps DEF p
<1>7. \A t \in Streams :
          /\ calls[t] <= calls'[t]
          /\ op'[t] = "chunk" => op[t] = "chunk"
          /\ op[t] = "chunk" /\ op'[t] # "chunk" => t \in reused'
  BY <1>2, <1>4, BoundsAssumption
<1>8. Numbered'
  BY <1>3, <1>4, <1>6, <1>7, NumberedStays DEF IInv
<1> QED
  BY <1>6, <1>8 DEF IInv

\* A step in which no stream makes a chunk and no operation begins or ends.
LEMMA NumberedSame ==
    ASSUME IInv, Types', UNCHANGED <<op, index, calls, acked, reused>>,
           \A p \in Pipe' : p \in Pipe \/ p.type # "chunk", OnTheWay \subseteq OnTheWay'
    PROVE  Numbered'
<1>1. \A s \in Streams : calls[s] <= calls'[s]
  BY BoundsAssumption DEF IInv, Types, TypeOK
<1> QED
  BY <1>1, NumberedStays DEF IInv

LEMMA CancelInv == ASSUME IInv, NEW s \in Streams, Cancel(s) PROVE IInv'
<1>1. WriterTypes /\ NetworkTypes /\ ReceiverTypes
  BY Parts DEF IInv
<1>2. /\ op' = [op EXCEPT ![s] = "idle"] /\ packets' = Unanswered(s)
      /\ raw' = [raw EXCEPT ![s] = IF op[s] = "header" THEN "refused" ELSE @]
      /\ reused' = IF op[s] = "chunk" THEN reused \cup {s} ELSE reused
      /\ UNCHANGED <<index, calls, acked, task, network, receiver>>
  BY DEF Cancel
<1>3. UNCHANGED <<retry, wire>>
  BY <1>2 DEF network
<1>4. /\ packets' \in Seq(Requests) /\ DOMAIN packets' = DOMAIN packets
      /\ \A i \in DOMAIN packets :
            /\ packets'[i].packet = packets[i].packet
            /\ packets'[i].waits => packets[i].waits /\ packets[i].packet.id # s
      /\ Pipe' = Pipe /\ OnTheWay' = OnTheWay
  BY <1>2, <1>3, Unheard DEF IInv
<1>5. WriterTypes'
  BY <1>1, <1>2, <1>4 DEF WriterTypes
<1>6. ReceiverTypes' /\ Placed'
  BY <1>2, <1>3, NothingReceived DEF IInv
<1>7. Types'
  BY <1>1, <1>2, <1>5, <1>6, NetworkSame, PartsNext
<1>8. Waiting'
  <2>1. \A i \in DOMAIN packets' : packets'[i].waits =>
            op'[packets'[i].packet.id] = packets'[i].packet.type
    <3>1. \A i \in DOMAIN packets : packets[i].packet.id \in Streams
      BY <1>1, RequestIs, PacketIs DEF WriterTypes
    <3> QED
      BY <1>1, <1>2, <1>4, <3>1 DEF IInv, Waiting, WriterTypes
  <2>2. \A i, j \in DOMAIN packets' :
            packets'[i].waits /\ packets'[j].waits
                /\ packets'[i].packet.id = packets'[j].packet.id => i = j
    BY <1>4 DEF IInv, Waiting
  <2> QED
    BY <2>1, <2>2 DEF Waiting
<1>9. \A t \in Streams :
          /\ calls[t] <= calls'[t]
          /\ op'[t] = "chunk" => op[t] = "chunk"
          /\ op[t] = "chunk" /\ op'[t] # "chunk" => t \in reused'
  BY <1>1, <1>2, BoundsAssumption DEF WriterTypes
<1>10. Numbered'
  BY <1>2, <1>4, <1>7, <1>9, NumberedStays DEF IInv
<1> QED
  BY <1>6, <1>7, <1>8, <1>10 DEF IInv

LEMMA DropInv == ASSUME IInv, NEW s \in Streams, Drop(s) PROVE IInv'
<1>1. WriterTypes /\ NetworkTypes /\ ReceiverTypes
  BY Parts DEF IInv
<1>2. /\ raw' = [raw EXCEPT ![s] = IF @ = "open" THEN "dropping" ELSE "gone"]
      /\ UNCHANGED <<op, index, calls, acked, reused, packets, task, network, receiver>>
  BY DEF Drop, outgoing
<1>3. UNCHANGED <<retry, wire>> /\ Pipe' = Pipe /\ OnTheWay' = OnTheWay
  BY <1>2 DEF network, Pipe, OnTheWay
<1>4. WriterTypes'
  BY <1>1, <1>2 DEF WriterTypes
<1>5. ReceiverTypes' /\ Placed'
  BY <1>2, <1>3, NothingReceived DEF IInv
<1>6. Types'
  BY <1>1, <1>2, <1>4, <1>5, NetworkSame, PartsNext
<1>7. Waiting'
  BY <1>2 DEF IInv, Waiting
<1> QED
  BY <1>2, <1>3, <1>5, <1>6, <1>7, NumberedSame DEF IInv

LEMMA DropTaskInv == ASSUME IInv, NEW s \in Streams, DropTask(s) PROVE IInv'
<1> DEFINE p == Trailer(s, FALSE)
<1>1. WriterTypes /\ NetworkTypes /\ ReceiverTypes
  BY Parts DEF IInv
<1>2. p \in Packets /\ p.type = "trailer"
  <2>1. acked[s] \subseteq 1..MaxCalls
    BY <1>1 DEF WriterTypes
  <2>2. \E b \in BOOLEAN : p = Trailer(s, b)
    OBVIOUS
  <2> HIDE DEF p
  <2> QED
    BY <2>1, <2>2, Made
<1>3. /\ raw' = [raw EXCEPT ![s] = "gone"]
      /\ packets' \in {packets, Append(packets, [packet |-> p, waits |-> FALSE])}
      /\ UNCHANGED <<op, index, calls, acked, reused, task, network, receiver>>
  BY DEF DropTask
<1>4. UNCHANGED <<retry, wire>>
  BY <1>3 DEF network
<1> HIDE DEF p
<1>5. packets' \in Seq(Requests) /\ Waiting' /\ Pipe' \subseteq Pipe \cup {p}
      /\ OnTheWay' = OnTheWay
  <2>1. CASE packets' = packets
    BY <1>1, <1>3, <1>4, <2>1 DEF IInv, Waiting, WriterTypes, Pipe, OnTheWay
  <2>2. CASE packets' = Append(packets, [packet |-> p, waits |-> FALSE])
    BY <1>2, <1>3, <1>4, <2>2, Requested, FALSE \in BOOLEAN DEF IInv
  <2> QED
    BY <1>3, <2>1, <2>2
<1>6. WriterTypes'
  BY <1>1, <1>3, <1>5 DEF WriterTypes
<1>7. ReceiverTypes' /\ Placed'
  BY <1>3, <1>4, NothingReceived DEF IInv
<1>8. Types'
  BY <1>1, <1>3, <1>6, <1>7, NetworkSame, PartsNext
<1>9. Numbered'
  BY <1>2, <1>3, <1>5, <1>8, NumberedSame
<1> QED
  BY <1>5, <1>7, <1>8, <1>9 DEF IInv

\* A packet is published: it is on the way behind the others.
LEMMA WireGrows ==
    ASSUME NetworkTypes, NEW e \in OnWire, wire' = Append(wire, e)
    PROVE  /\ wire' \in Seq(OnWire) /\ Len(wire) \in Nat /\ Len(wire') = Len(wire) + 1
           /\ OnTheWay' = OnTheWay \cup {e.packet}
<1>1. wire \in Seq(OnWire)
  BY DEF NetworkTypes
<1>2. /\ wire' \in Seq(OnWire) /\ Len(wire) \in Nat /\ Len(wire') = Len(wire) + 1
      /\ DOMAIN wire = 1..Len(wire) /\ DOMAIN wire' = 1..(Len(wire) + 1)
      /\ wire'[Len(wire) + 1] = e /\ \A i \in 1..Len(wire) : wire'[i] = wire[i]
  BY <1>1, Appended
<1>3. OnTheWay' = OnTheWay \cup {e.packet}
  BY <1>2 DEF OnTheWay
<1> QED
  BY <1>2, <1>3

LEMMA OnTheWireIs ==
    ASSUME encrypted \in BOOLEAN, NEW p \in Packets
    PROVE  OnTheWire(p) \in OnWire /\ OnTheWire(p).packet = p
BY DEF OnTheWire, OnWire

LEMMA PublishedInv == ASSUME IInv, Published PROVE IInv'
<1>1. WriterTypes /\ NetworkTypes /\ ReceiverTypes
  BY Parts DEF IInv
<1> DEFINE p == Taken.packet
<1>2. /\ packets # <<>> /\ Respond(TRUE) /\ wire' = Append(wire, OnTheWire(p))
      /\ UNCHANGED <<task, encrypted, retry, arrived, lost, failed, disturbances, receiver>>
  BY DEF Published
<1>3. /\ p \in Packets /\ p \in Pipe /\ WriterTypes' /\ Waiting'
      /\ {packets'[i].packet : i \in DOMAIN packets'}
            \subseteq {packets[i].packet : i \in DOMAIN packets}
  BY <1>2, Responded, TRUE \in BOOLEAN
<1> HIDE DEF p
<1>4. OnTheWire(p) \in OnWire /\ OnTheWire(p).packet = p
  BY <1>1, <1>3, OnTheWireIs DEF NetworkTypes
<1>5. /\ wire' \in Seq(OnWire) /\ Len(wire) \in Nat /\ Len(wire') = Len(wire) + 1
      /\ OnTheWay' = OnTheWay \cup {p}
  BY <1>1, <1>2, <1>4, WireGrows
<1>6. NetworkTypes'
  BY <1>1, <1>2, <1>5 DEF NetworkTypes
<1>7. ReceiverTypes'
  BY <1>1, <1>2 DEF ReceiverTypes, receiver
<1>8. Types'
  BY <1>3, <1>6, <1>7, PartsNext
<1>9. Pipe' \subseteq Pipe
  BY <1>2, <1>3, <1>5 DEF Pipe
<1>10. Numbered'
  BY <1>2, <1>5, <1>8, <1>9, RespondedNumbered, TRUE \in BOOLEAN DEF p
<1>11. Placed'
  BY <1>2, <1>5, PlacedStays DEF IInv
<1> QED
  BY <1>3, <1>8, <1>10, <1>11 DEF IInv

LEMMA PublishFailsInv == ASSUME IInv, PublishFails PROVE IInv'
<1>1. WriterTypes /\ NetworkTypes /\ ReceiverTypes
  BY Parts DEF IInv
<1> DEFINE p == Taken.packet
<1>2. /\ packets # <<>> /\ Respond(FALSE) /\ Disturb
      /\ retry' \in {retry, Append(retry, OnTheWire(p))}
      /\ failed' = failed \cup {p.id}
      /\ UNCHANGED <<task, encrypted, wire, arrived, lost, receiver>>
  BY DEF PublishFails
<1>3. /\ p \in Packets /\ p \in Pipe /\ WriterTypes' /\ Waiting'
      /\ {packets'[i].packet : i \in DOMAIN packets'}
            \subseteq {packets[i].packet : i \in DOMAIN packets}
  BY <1>2, Responded, FALSE \in BOOLEAN
<1> HIDE DEF p
<1>4. OnTheWire(p) \in OnWire /\ OnTheWire(p).packet = p /\ p.id \in Streams
  BY <1>1, <1>3, OnTheWireIs, PacketIs DEF NetworkTypes
<1>5. OnTheWay' = OnTheWay
  BY <1>2 DEF OnTheWay
<1>6. /\ retry' \in Seq(OnWire)
      /\ {retry'[i].packet : i \in DOMAIN retry'}
            \subseteq {retry[i].packet : i \in DOMAIN retry} \cup {p}
  <2>1. retry \in Seq(OnWire)
    BY <1>1 DEF NetworkTypes
  <2>2. CASE retry' = retry
    BY <2>1, <2>2
  <2>3. CASE retry' = Append(retry, OnTheWire(p))
    <3>1. /\ retry' \in Seq(OnWire) /\ Len(retry) \in Nat
          /\ DOMAIN retry = 1..Len(retry) /\ DOMAIN retry' = 1..(Len(retry) + 1)
          /\ retry'[Len(retry) + 1] = OnTheWire(p)
          /\ \A i \in 1..Len(retry) : retry'[i] = retry[i]
      BY <1>4, <2>1, <2>3, Appended
    <3>2. \A i \in DOMAIN retry' : i \in DOMAIN retry \/ i = Len(retry) + 1
      BY <3>1
    <3> QED
      BY <1>4, <3>1, <3>2
  <2> QED
    BY <1>2, <2>2, <2>3
<1>7. NetworkTypes'
  BY <1>1, <1>2, <1>4, <1>6, BoundsAssumption DEF NetworkTypes, Disturb
<1>8. ReceiverTypes'
  BY <1>1, <1>2 DEF ReceiverTypes, receiver
<1>9. Types'
  BY <1>3, <1>7, <1>8, PartsNext
<1>10. Pipe' \subseteq Pipe
  BY <1>3, <1>5, <1>6 DEF Pipe
<1>11. Numbered'
  BY <1>2, <1>5, <1>9, <1>10, RespondedNumbered, FALSE \in BOOLEAN
<1>12. Placed'
  BY <1>2, <1>5, PlacedStays DEF IInv
<1> QED
  BY <1>3, <1>9, <1>11, <1>12 DEF IInv

LEMMA RoomClosesInv == ASSUME IInv, RoomCloses PROVE IInv'
<1>1. WriterTypes /\ NetworkTypes /\ ReceiverTypes
  BY Parts DEF IInv
<1>2. /\ task' = "ended" /\ packets' = <<>> /\ op' = [s \in Streams |-> "idle"]
      /\ raw' = [s \in Streams |-> IF op[s] = "header" THEN "refused" ELSE raw[s]]
      /\ reused' = reused \cup {s \in Streams : op[s] = "chunk"}
      /\ UNCHANGED <<index, calls, acked, network, receiver>>
  BY DEF RoomCloses
<1>3. UNCHANGED <<retry, wire>> /\ OnTheWay' = OnTheWay /\ Pipe' \subseteq Pipe
  BY <1>2 DEF network, Pipe, OnTheWay
<1>4. WriterTypes'
  BY <1>1, <1>2 DEF WriterTypes
<1>5. NetworkTypes'
  BY <1>1, <1>2 DEF NetworkTypes, network
<1>6. ReceiverTypes' /\ Placed'
  BY <1>2, <1>3, NothingReceived DEF IInv
<1>7. Types'
  BY <1>4, <1>5, <1>6, PartsNext
<1>8. Waiting'
  BY <1>2 DEF Waiting
<1>9. \A t \in Streams :
          /\ calls[t] <= calls'[t]
          /\ op'[t] = "chunk" => op[t] = "chunk"
          /\ op[t] = "chunk" /\ op'[t] # "chunk" => t \in reused'
  BY <1>1, <1>2, BoundsAssumption DEF WriterTypes
<1>10. Numbered'
  BY <1>2, <1>3, <1>7, <1>9, NumberedStays DEF IInv
<1> QED
  BY <1>6, <1>7, <1>8, <1>10 DEF IInv

LEMMA RetriedInv == ASSUME IInv, Retried PROVE IInv'
<1>1. WriterTypes /\ NetworkTypes /\ ReceiverTypes
  BY Parts DEF IInv
<1> DEFINE e == Head(retry)
<1>2. /\ retry # <<>> /\ wire' = Append(wire, e) /\ retry' = Tail(retry)
      /\ UNCHANGED <<raw, op, index, calls, acked, reused, packets, task>>
      /\ UNCHANGED <<encrypted, arrived, lost, failed, disturbances, receiver>>
  BY DEF Retried, writer, outgoing
<1>3. /\ retry' \in Seq(OnWire) /\ e \in OnWire /\ Len(retry) \in Nat \ {0}
      /\ DOMAIN retry = 1..Len(retry) /\ DOMAIN retry' = 1..(Len(retry) - 1)
      /\ e = retry[1] /\ \A i \in 1..(Len(retry) - 1) : retry'[i] = retry[i + 1]
  BY <1>1, <1>2, Shortened DEF NetworkTypes
<1> HIDE DEF e
<1>4. /\ wire' \in Seq(OnWire) /\ Len(wire) \in Nat /\ Len(wire') = Len(wire) + 1
      /\ OnTheWay' = OnTheWay \cup {e.packet}
  BY <1>1, <1>2, <1>3, WireGrows
<1>5. \A i \in DOMAIN retry' : i + 1 \in DOMAIN retry /\ retry'[i] = retry[i + 1]
  BY <1>3
<1>6. 1 \in DOMAIN retry
  BY <1>3
<1>7. Pipe' \subseteq Pipe
  BY <1>2, <1>3, <1>4, <1>5, <1>6 DEF Pipe
<1>8. WriterTypes' /\ ReceiverTypes' /\ NetworkTypes'
  BY <1>1, <1>2, <1>3, <1>4 DEF WriterTypes, ReceiverTypes, receiver, NetworkTypes
<1>9. Types'
  BY <1>8, PartsNext
<1>10. Waiting' /\ Placed'
  BY <1>2, <1>4, PlacedStays DEF IInv, Waiting
<1>11. Numbered'
  BY <1>2, <1>4, <1>7, <1>9, NumberedSame
<1> QED
  BY <1>9, <1>10, <1>11 DEF IInv

\* What happens on the way to packets that are under way.
LEMMA NetworkInv ==
    ASSUME IInv, SwitchEncryption \/ Lose \/ Repeat
    PROVE  IInv'
<1>1. WriterTypes /\ NetworkTypes /\ ReceiverTypes
  BY Parts DEF IInv
<1>2. UNCHANGED <<raw, op, index, calls, acked, reused, packets, task, retry, wire, receiver>>
  BY DEF SwitchEncryption, Lose, Repeat, writer, outgoing
<1>3. OnTheWay' = OnTheWay /\ Pipe' = Pipe
  BY <1>2 DEF OnTheWay, Pipe
<1>4. WriterTypes' /\ ReceiverTypes' /\ Placed'
  BY <1>1, <1>2, NothingReceived DEF WriterTypes, IInv
<1>5. NetworkTypes'
  <2> USE <1>1, <1>2, BoundsAssumption DEF NetworkTypes, Disturb
  <2>1. CASE SwitchEncryption
    BY <2>1 DEF SwitchEncryption
  <2>2. CASE Lose
    <3>1. arrived + 1 \in DOMAIN wire
      BY <2>2 DEF Lose
    <3>2. wire[arrived + 1].packet.id \in Streams
      BY <3>1, OnWireIs, PacketIs
    <3> QED
      BY <2>2, <3>2 DEF Lose
  <2>3. CASE Repeat
    BY <2>3 DEF Repeat
  <2> QED
    BY <2>1, <2>2, <2>3
<1>6. Types'
  BY <1>4, <1>5, PartsNext
<1>7. Waiting'
  BY <1>2 DEF IInv, Waiting
<1>8. Numbered'
  BY <1>2, <1>3, <1>6, NumberedSame
<1> QED
  BY <1>4, <1>6, <1>7, <1>8 DEF IInv

LEMMA ArriveInv == ASSUME IInv, Arrive PROVE IInv'
<1>1. WriterTypes /\ NetworkTypes /\ ReceiverTypes
  BY Parts DEF IInv
<1> DEFINE p == wire[arrived + 1].packet
           enc == wire[arrived + 1].encrypted
<1>2. /\ arrived < Len(wire) /\ arrived' = arrived + 1
      /\ CASE p.type = "header" -> handle_header(p, enc)
           [] p.type = "chunk" -> handle_chunk(p, enc)
           [] p.type = "trailer" -> handle_trailer(p)
      /\ UNCHANGED <<raw, op, index, calls, acked, reused, packets, task>>
      /\ UNCHANGED <<encrypted, retry, wire, lost, failed, disturbances>>
  BY DEF Arrive, writer, outgoing
<1>3. wire \in Seq(OnWire) /\ arrived + 1 \in DOMAIN wire
  BY <1>1, <1>2 DEF NetworkTypes
<1>4. p \in Packets /\ p \in OnTheWay /\ enc \in BOOLEAN
  BY <1>3, OnWireIs DEF OnTheWay, OnWire
<1>5. p.type \in {"header", "chunk", "trailer"}
  BY <1>4, PacketIs
<1> HIDE DEF p, enc
<1>6. ReceiverTypes' /\ Placed'
  <2>1. CASE p.type = "header"
    BY <1>2, <1>4, <2>1, HeaderHandled DEF IInv
  <2>2. CASE p.type = "chunk"
    BY <1>2, <1>4, <2>2, ChunkHandled DEF IInv
  <2>3. CASE p.type = "trailer"
    BY <1>2, <1>4, <2>3, TrailerHandled DEF IInv
  <2> QED
    BY <1>5, <2>1, <2>2, <2>3
<1>7. OnTheWay' = OnTheWay /\ Pipe' = Pipe
  BY <1>2 DEF OnTheWay, Pipe
<1>8. WriterTypes' /\ NetworkTypes'
  BY <1>1, <1>2 DEF WriterTypes, NetworkTypes
<1>9. Types'
  BY <1>6, <1>8, PartsNext
<1>10. Waiting'
  BY <1>2 DEF IInv, Waiting
<1>11. Numbered'
  BY <1>2, <1>7, <1>9, NumberedSame
<1> QED
  BY <1>6, <1>9, <1>10, <1>11 DEF IInv

LEMMA DropReaderInv == ASSUME IInv, NEW s \in Streams, DropReader(s) PROVE IInv'
<1>1. WriterTypes /\ NetworkTypes /\ ReceiverTypes
  BY Parts DEF IInv
<1>2. PICK r \in DOMAIN readers[s] :
          /\ readers' = [readers EXCEPT ![s][r].dropped = TRUE]
          /\ UNCHANGED <<writer, outgoing, network, open_streams>>
  BY DEF DropReader
<1>3. UNCHANGED <<raw, op, index, calls, acked, reused, packets, task, network, wire, retry,
                  open_streams>>
  BY <1>2 DEF writer, outgoing, network
<1> DEFINE new == [readers[s][r] EXCEPT !.dropped = TRUE]
           d == open_streams[s]
<1>4. readers[s] \in Seq(Readers)
  BY <1>1 DEF ReceiverTypes
<1>5. readers[s][r] \in Readers
  BY <1>4
<1>6. new \in Readers /\ new.items = readers[s][r].items
  BY <1>5 DEF Readers
<1>7. readers' = [readers EXCEPT ![s][r] = new]
  BY <1>2
<1>8. d \in Descriptors \cup {NoStream} /\ open_streams' = [open_streams EXCEPT ![s] = d]
  BY <1>1, <1>3 DEF ReceiverTypes
<1>9. d # NoStream => d.reader \in DOMAIN readers[s]
                        /\ d.index = Len(readers[s][d.reader].items)
  BY DEF IInv, Placed, Reader
<1> HIDE DEF new, d
<1>10. ReceiverTypes' /\ Placed'
  <2>1. d # NoStream => IF d.reader = r THEN d.index = Len(new.items)
                        ELSE /\ d.reader \in DOMAIN readers[s]
                             /\ d.index = Len(readers[s][d.reader].items)
    BY <1>6, <1>9
  <2>2. \A k \in DOMAIN new.items :
            \/ k \in DOMAIN readers[s][r].items /\ new.items[k] = readers[s][r].items[k]
            \/ \E p \in OnTheWay : IsChunk(p, s) /\ p.index + 1 = k /\ p.data = new.items[k]
    BY <1>6
  <2>3. Types /\ Placed /\ UNCHANGED wire
    BY <1>3 DEF IInv
  <2> QED
    BY <1>6, <1>7, <1>8, <2>1, <2>2, <2>3, ReaderChanged
<1>11. OnTheWay' = OnTheWay /\ Pipe' = Pipe
  BY <1>3 DEF OnTheWay, Pipe
<1>12. WriterTypes' /\ NetworkTypes'
  BY <1>1, <1>3, NetworkSame DEF WriterTypes
<1>13. Types'
  BY <1>10, <1>12, PartsNext
<1>14. Waiting'
  BY <1>3 DEF IInv, Waiting
<1>15. Numbered'
  BY <1>3, <1>11, <1>13, NumberedSame
<1> QED
  BY <1>10, <1>13, <1>14, <1>15 DEF IInv

LEMMA StepInv == IInv /\ [Next]_vars => IInv'
<1> SUFFICES ASSUME IInv, [Next]_vars PROVE IInv'
  OBVIOUS
<1>1. ASSUME NEW s \in Streams,
             \/ Open(s) \/ write_chunk(s) \/ close(s)
             \/ Cancel(s) \/ Drop(s) \/ DropTask(s) \/ DropReader(s)
      PROVE  IInv'
  BY <1>1, OpenInv, WriteInv, CloseInv, CancelInv, DropInv, DropTaskInv, DropReaderInv
<1>2. CASE Published
  BY <1>2, PublishedInv
<1>3. CASE PublishFails
  BY <1>3, PublishFailsInv
<1>4. CASE RoomCloses
  BY <1>4, RoomClosesInv
<1>5. CASE Retried
  BY <1>5, RetriedInv
<1>6. CASE SwitchEncryption \/ Lose \/ Repeat
  BY <1>6, NetworkInv
<1>7. CASE Arrive
  BY <1>7, ArriveInv
<1>8. CASE UNCHANGED vars
  <2>1. UNCHANGED <<raw, op, index, calls, acked, reused, packets, task, network, retry, wire,
                    receiver>>
    BY <1>8 DEF vars, writer, outgoing, network
  <2>2. OnTheWay' = OnTheWay /\ Pipe' = Pipe
    BY <2>1 DEF OnTheWay, Pipe
  <2>3. WriterTypes /\ NetworkTypes /\ ReceiverTypes
    BY Parts DEF IInv
  <2>4. ReceiverTypes' /\ Placed'
    BY <2>1, NothingReceived DEF IInv
  <2>5. WriterTypes' /\ NetworkTypes'
    BY <2>1, <2>3, NetworkSame DEF WriterTypes
  <2>6. Types' /\ Waiting'
    BY <2>1, <2>4, <2>5, PartsNext DEF IInv, Waiting
  <2> QED
    BY <2>1, <2>2, <2>4, <2>6, NumberedSame DEF IInv
<1> QED
  BY <1>1, <1>2, <1>3, <1>4, <1>5, <1>6, <1>7, <1>8 DEF Next

\* The conjunction of the types and the three strengthenings is inductive.
THEOREM Invariant == Safe => []IInv
<1> QED
  BY InitInv, StepInv, PTL DEF Safe

\* Every variable keeps its type, with any number of streams, chunks and failures.
THEOREM TypeCorrect == Safe => []TypeOK
<1>1. IInv => TypeOK
  BY DEF IInv, Types
<1> QED
  BY <1>1, Invariant, PTL

\* What a reader has at two places: two chunks of its stream, with these indices.
LEMMA Places ==
    ASSUME IInv, NEW s \in Streams, NEW r \in DOMAIN readers[s],
           NEW k \in DOMAIN readers[s][r].items
    PROVE  /\ readers[s][r].items \in Seq(1..MaxCalls) /\ k \in Nat \ {0}
           /\ readers[s][r].items[k] \in Nat
           /\ \E p \in Pipe : /\ IsChunk(p, s) /\ p.index + 1 = k
                              /\ p.data = readers[s][r].items[k]
                              /\ p.index \in Nat
<1>1. readers[s] \in Seq(Readers)
  BY DEF IInv, Types
<1>2. readers[s][r] \in Readers
  BY <1>1
<1>3. readers[s][r].items \in Seq(1..MaxCalls)
  BY <1>2 DEF Readers
<1>4. k \in Nat \ {0} /\ readers[s][r].items[k] \in 1..MaxCalls
  BY <1>3, Element
<1>5. PICK p \in OnTheWay : /\ IsChunk(p, s) /\ p.index + 1 = k
                            /\ p.data = readers[s][r].items[k]
  BY DEF IInv, Placed
<1>6. p \in Pipe /\ p.index \in Nat
  BY <1>5, PipeTyped, PacketIs, BoundsAssumption DEF Pipe, IInv, IsChunk
<1> QED
  BY <1>3, <1>4, <1>5, <1>6, BoundsAssumption

\* What a reader gets are chunks in the order they were written, each once, whatever is
\* lost, repeated, cancelled or fails.
THEOREM ReadersGetOrder == Safe => []InOrder
<1>1. IInv => InOrder
  <2> SUFFICES ASSUME IInv, NEW s \in Streams, NEW r \in DOMAIN readers[s],
                      NEW i \in DOMAIN readers[s][r].items,
                      NEW j \in DOMAIN readers[s][r].items, i < j
               PROVE  readers[s][r].items[i] < readers[s][r].items[j]
    BY DEF InOrder
  <2>1. PICK p \in Pipe : /\ IsChunk(p, s) /\ p.index + 1 = i
                          /\ p.data = readers[s][r].items[i] /\ p.index \in Nat
    BY Places
  <2>2. PICK q \in Pipe : /\ IsChunk(q, s) /\ q.index + 1 = j
                          /\ q.data = readers[s][r].items[j] /\ q.index \in Nat
    BY Places
  <2>3. p.index < q.index
    BY <2>1, <2>2
  <2> QED
    BY <2>1, <2>2, <2>3 DEF IInv, Numbered
<1> QED
  BY <1>1, Invariant, PTL

\* ... and leave out none that was written with Ok, as long as no write of the stream
\* failed or was cancelled: a lost packet ends the reader, it never makes a gap.
THEOREM NoGapsUnlessReused == Safe => [](\A s \in Streams \ reused : WithoutGaps(s))
<1>1. IInv => \A s \in Streams \ reused : WithoutGaps(s)
  <2> SUFFICES ASSUME IInv, NEW s \in Streams, s \notin reused, NEW r \in DOMAIN readers[s],
                      NEW d \in acked[s], readers[s][r].items # <<>>,
                      d < Last(readers[s][r].items)
               PROVE  d \in ToSet(readers[s][r].items)
    BY DEF WithoutGaps
  <2> DEFINE items == readers[s][r].items
             n == Len(items)
  <2>1. items \in Seq(1..MaxCalls)
    <3>1. readers[s] \in Seq(Readers)
      BY DEF IInv, Types
    <3>2. readers[s][r] \in Readers
      BY <3>1
    <3> QED
      BY <3>2 DEF Readers
  <2>2. n \in DOMAIN items /\ DOMAIN items = 1..n /\ n \in Nat
    BY <2>1
  <2>3. PICK q \in Pipe : /\ IsChunk(q, s) /\ q.index + 1 = n
                          /\ q.data = items[n] /\ q.index \in Nat
    BY <2>2, Places
  <2>4. PICK p \in OnTheWay : IsChunk(p, s) /\ p.data = d
    BY DEF IInv, Numbered
  <2>5. p \in Pipe /\ p.index \in Nat /\ d \in Nat
    BY <2>4, PipeTyped, PacketIs, BoundsAssumption DEF Pipe, IInv, IsChunk
  <2>6. d < items[n] /\ items[n] \in Nat
    BY <2>1, <2>2, BoundsAssumption DEF Last
  <2> HIDE DEF items, n
  <2>7. /\ p.index < q.index => p.data < q.data
        /\ q.index < p.index => q.data < p.data
        /\ p.index = q.index => p.data = q.data
    BY <2>3, <2>4, <2>5 DEF IInv, Numbered
  <2>8. p.index < q.index
    BY <2>3, <2>4, <2>5, <2>6, <2>7
  <2>9. p.index + 1 \in DOMAIN items
    BY <2>2, <2>3, <2>5, <2>8
  <2>10. PICK u \in Pipe : /\ IsChunk(u, s) /\ u.index + 1 = p.index + 1
                           /\ u.data = items[p.index + 1] /\ u.index \in Nat
    BY <2>9, Places DEF items
  <2>11. u.index = p.index
    BY <2>5, <2>10
  <2>12. u.data = p.data
    BY <2>4, <2>5, <2>10, <2>11 DEF IInv, Numbered
  <2>13. d = items[p.index + 1]
    BY <2>4, <2>10, <2>12
  <2> QED
    BY <2>9, <2>13 DEF ToSet, items
<1> QED
  BY <1>1, Invariant, PTL

-----------------------------------------------------------------------------
(* The order on the wire.  A resume publishes failed packets between others, *)
(* so that the wire is not in the order of the requests; what holds of it:   *)

IsHeader(p, s) == p.type = "header" /\ p.id = s

Queued == {packets[i].packet : i \in DOMAIN packets}
Kept == {retry[i].packet : i \in DOMAIN retry}

\* A write that waits is the last call of its stream.
Latest ==
    \A i \in DOMAIN packets :
        packets[i].waits /\ packets[i].packet.type = "chunk" =>
            packets[i].packet.data = calls[packets[i].packet.id]

\* A stream opens with the answer to its header, and writes while it is open.
Opening ==
    \A s \in Streams :
        /\ op[s] = "header" => raw[s] = "none"
        /\ op[s] \in {"chunk", "trailer"} => raw[s] \in {"open", "closed"}

\* No chunk is made before, no header is left to be published after that.
Opened ==
    \A s \in Streams :
        /\ raw[s] \in {"none", "refused"} => \A p \in Pipe : ~IsChunk(p, s)
        /\ raw[s] \notin {"none", "refused"} => \A p \in Queued \cup Kept : ~IsHeader(p, s)
        /\ raw[s] = "none" =>
              /\ \A p \in Kept : ~IsHeader(p, s)
              /\ \A i \in DOMAIN packets : IsHeader(packets[i].packet, s) => packets[i].waits

HeaderFirst ==
    \A s \in Streams : \A i, j \in DOMAIN wire :
        IsHeader(wire[i].packet, s) /\ IsChunk(wire[j].packet, s) => i < j

\* A chunk whose write returned Ok was published before every later one, also before
\* those that a resume publishes.
AckedInOrder ==
    \A s \in Streams : \A d \in acked[s] : \E i \in DOMAIN wire :
        /\ IsChunk(wire[i].packet, s) /\ wire[i].packet.data = d
        /\ \A j \in DOMAIN wire : IsChunk(wire[j].packet, s) /\ d < wire[j].packet.data => i < j

\* ... and before every trailer that counts on it.
OwedBefore ==
    /\ \A p \in Pipe : p.type = "trailer" =>
          \A d \in p.owed : \E q \in OnTheWay : IsChunk(q, p.id) /\ q.data = d
    /\ \A j \in DOMAIN wire : wire[j].packet.type = "trailer" =>
          \A d \in wire[j].packet.owed : \E i \in DOMAIN wire :
             i < j /\ IsChunk(wire[i].packet, wire[j].packet.id) /\ wire[i].packet.data = d

Flow == Latest /\ Opening /\ Opened /\ HeaderFirst /\ AckedInOrder /\ OwedBefore

-----------------------------------------------------------------------------
\* What the sender looks at stays as it is.
LEMMA FlowStays ==
    ASSUME Flow, UNCHANGED <<raw, op, calls, acked, packets, retry, wire>>
    PROVE  Flow'
<1>1. Latest' /\ Opening' /\ HeaderFirst' /\ AckedInOrder'
  BY DEF Flow, Latest, Opening, HeaderFirst, AckedInOrder
<1>2. Pipe' = Pipe /\ OnTheWay' = OnTheWay /\ Queued' = Queued /\ Kept' = Kept
  BY DEF Pipe, OnTheWay, Queued, Kept
<1>3. Opened' /\ OwedBefore'
  BY <1>2 DEF Flow, Opened, OwedBefore
<1> QED
  BY <1>1, <1>3 DEF Flow

\* A packet is queued behind the others.
LEMMA Grown ==
    ASSUME Types, NEW p \in Packets, NEW w \in BOOLEAN,
           packets' = Append(packets, [packet |-> p, waits |-> w]),
           UNCHANGED <<retry, wire>>
    PROVE  /\ Queued' = Queued \cup {p} /\ Kept' = Kept /\ OnTheWay' = OnTheWay
           /\ Pipe' = Pipe \cup {p}
           /\ \A i \in DOMAIN packets' :
                 \/ i \in DOMAIN packets /\ packets'[i] = packets[i]
                 \/ packets'[i].packet = p /\ packets'[i].waits = w
<1> DEFINE e == [packet |-> p, waits |-> w]
<1>1. e \in Requests /\ e.packet = p /\ e.waits = w
  BY DEF Requests
<1>2. packets \in Seq(Requests)
  BY DEF Types, TypeOK, Requests
<1> HIDE DEF e
<1>3. /\ packets' \in Seq(Requests) /\ Len(packets) \in Nat
      /\ DOMAIN packets = 1..Len(packets) /\ DOMAIN packets' = 1..(Len(packets) + 1)
      /\ packets'[Len(packets) + 1] = e
      /\ \A i \in 1..Len(packets) : packets'[i] = packets[i]
  BY <1>1, <1>2, Appended DEF e
<1>4. Queued' = Queued \cup {p}
  BY <1>1, <1>3 DEF Queued
<1>5. Kept' = Kept /\ OnTheWay' = OnTheWay
  BY DEF Kept, OnTheWay
<1>6. \A i \in DOMAIN packets' : i \in DOMAIN packets \/ i = Len(packets) + 1
  BY <1>3
<1>7. Pipe = Queued \cup Kept \cup OnTheWay /\ Pipe' = Queued' \cup Kept' \cup OnTheWay'
  BY DEF Pipe, Queued, Kept
<1> QED
  BY <1>1, <1>3, <1>4, <1>5, <1>6, <1>7

\* Who waits is the operation of its stream.
LEMMA NobodyWaits ==
    ASSUME IInv, NEW s \in Streams, op[s] = "idle", NEW i \in DOMAIN packets,
           packets[i].packet.id = s
    PROVE  ~packets[i].waits
<1>1. packets \in Seq(Requests)
  BY DEF IInv, Types, TypeOK, Requests
<1>2. packets[i].packet.type \in {"header", "chunk", "trailer"}
  BY <1>1, RequestIs, PacketIs
<1> QED
  BY <1>2 DEF IInv, Waiting

\* A stream asks for its header, its next chunk or its trailer to be published.
LEMMA RequestFlow ==
    ASSUME IInv, Flow, NEW p \in Packets, op[p.id] = "idle", Request(p),
           op' = [op EXCEPT ![p.id] = p.type],
           p.type = "header" => raw[p.id] = "none",
           p.type # "header" => raw[p.id] \in {"open", "closed"},
           p.type = "chunk" => p.data = calls'[p.id],
           p.type = "trailer" => p.owed = acked[p.id],
           \A t \in Streams : t # p.id => calls'[t] = calls[t],
           UNCHANGED <<raw, acked, retry, wire>>
    PROVE  Flow'
<1>1. Types /\ Numbered
  BY DEF IInv
<1>2. p.type \in {"header", "chunk", "trailer"} /\ p.id \in Streams
  BY PacketIs
<1>3. packets' = Append(packets, [packet |-> p, waits |-> TRUE])
  BY DEF Request
<1>4. /\ Queued' = Queued \cup {p} /\ Kept' = Kept /\ OnTheWay' = OnTheWay
      /\ Pipe' = Pipe \cup {p}
      /\ \A i \in DOMAIN packets' :
            \/ i \in DOMAIN packets /\ packets'[i] = packets[i]
            \/ packets'[i].packet = p /\ packets'[i].waits = TRUE
  BY <1>1, <1>3, Grown, TRUE \in BOOLEAN
<1>5. \A i \in DOMAIN packets : packets[i].packet.id \in Streams
  <2>1. packets \in Seq(Requests)
    BY <1>1 DEF Types, TypeOK, Requests
  <2> QED
    BY <2>1, RequestIs, PacketIs
<1>6. Latest'
  <2> SUFFICES ASSUME NEW i \in DOMAIN packets', packets'[i].waits,
                      packets'[i].packet.type = "chunk"
               PROVE  packets'[i].packet.data = calls'[packets'[i].packet.id]
    BY DEF Latest
  <2>1. CASE packets'[i].packet = p
    BY <2>1
  <2>2. CASE i \in DOMAIN packets /\ packets'[i] = packets[i]
    <3>1. packets[i].packet.id # p.id
      BY <1>2, <2>2, NobodyWaits
    <3> QED
      BY <1>5, <2>2, <3>1 DEF Flow, Latest
  <2> QED
    BY <1>4, <2>1, <2>2
<1>7. Opening'
  <2>1. op \in [Streams -> {"idle", "header", "chunk", "trailer"}]
    BY <1>1 DEF Types, TypeOK
  <2> QED
    BY <1>2, <2>1 DEF Flow, Opening
<1>8. Opened'
  <2>1. \A s \in Streams : raw'[s] \in {"none", "refused"} => \A q \in Pipe' : ~IsChunk(q, s)
    BY <1>2, <1>4 DEF Flow, Opened, IsChunk
  <2>2. \A s \in Streams : raw'[s] \notin {"none", "refused"} =>
            \A q \in Queued' \cup Kept' : ~IsHeader(q, s)
    BY <1>2, <1>4 DEF Flow, Opened, IsHeader
  <2>3. \A s \in Streams : raw'[s] = "none" =>
            /\ \A q \in Kept' : ~IsHeader(q, s)
            /\ \A i \in DOMAIN packets' : IsHeader(packets'[i].packet, s) => packets'[i].waits
    BY <1>4 DEF Flow, Opened
  <2> QED
    BY <2>1, <2>2, <2>3 DEF Opened
<1>9. HeaderFirst' /\ AckedInOrder'
  BY DEF Flow, HeaderFirst, AckedInOrder
<1>10. OwedBefore'
  <2>1. \A d \in acked[p.id] : \E q \in OnTheWay : IsChunk(q, p.id) /\ q.data = d
    BY <1>1, <1>2 DEF Numbered
  <2> QED
    BY <1>4, <2>1 DEF Flow, OwedBefore
<1> QED
  BY <1>6, <1>7, <1>8, <1>9, <1>10 DEF Flow

LEMMA OpenFlow == ASSUME IInv, Flow, NEW s \in Streams, Open(s) PROVE Flow'
<1>1. PICK n \in Lengths : Request(Header(s, n))
  BY DEF Open
<1> DEFINE p == Header(s, n)
<1>2. p \in Packets /\ p.type = "header" /\ p.id = s
  BY Made
<1>3. /\ raw[s] = "none" /\ op[s] = "idle" /\ op' = [op EXCEPT ![s] = "header"]
      /\ UNCHANGED <<raw, calls, acked, retry, wire>>
  BY DEF Open, network
<1> HIDE DEF p
<1> QED
  BY <1>1, <1>2, <1>3, RequestFlow DEF p

LEMMA WriteFlow == ASSUME IInv, Flow, NEW s \in Streams, write_chunk(s) PROVE Flow'
<1> DEFINE p == Chunk(s, index[s], calls[s] + 1)
<1>1. /\ index[s] \in 0..MaxCalls /\ calls \in [Streams -> 0..MaxCalls]
  BY DEF IInv, Types, TypeOK
<1>2. /\ raw[s] \in {"open", "closed"}
      /\ op[s] = "idle" /\ op' = [op EXCEPT ![s] = "chunk"] /\ Request(p)
      /\ calls' = [calls EXCEPT ![s] = @ + 1] /\ calls[s] < MaxCalls
      /\ UNCHANGED <<raw, acked, retry, wire>>
  BY DEF write_chunk, network
<1>3. calls[s] + 1 \in 1..MaxCalls
  BY <1>1, <1>2, BoundsAssumption
<1>4. /\ p \in Packets /\ p.type = "chunk" /\ p.id = s /\ p.data = calls[s] + 1
  BY <1>1, <1>3, Made
<1> HIDE DEF p
<1>5. p.data = calls'[p.id] /\ \A t \in Streams : t # p.id => calls'[t] = calls[t]
  BY <1>1, <1>2, <1>4
<1> QED
  BY <1>2, <1>4, <1>5, RequestFlow

LEMMA CloseFlow == ASSUME IInv, Flow, NEW s \in Streams, close(s) PROVE Flow'
<1>1. PICK abnormal \in BOOLEAN : Request(Trailer(s, abnormal))
  BY DEF close
<1> DEFINE p == Trailer(s, abnormal)
<1>2. acked[s] \subseteq 1..MaxCalls /\ calls \in [Streams -> 0..MaxCalls]
  BY DEF IInv, Types, TypeOK
<1>3. p \in Packets /\ p.type = "trailer" /\ p.id = s
  BY <1>2, Made
<1>4. p.owed = acked[s]
  BY DEF Trailer
<1>5. /\ raw[s] = "open" /\ op[s] = "idle" /\ op' = [op EXCEPT ![s] = "trailer"]
      /\ calls' = [calls EXCEPT ![s] = @ + 1]
      /\ UNCHANGED <<raw, acked, retry, wire>>
  BY DEF close, network
<1> HIDE DEF p
<1>6. \A t \in Streams : t # p.id => calls'[t] = calls[t]
  BY <1>2, <1>3, <1>5
<1> QED
  BY <1>1, <1>3, <1>4, <1>5, <1>6, RequestFlow DEF p

LEMMA CancelFlow == ASSUME IInv, Flow, NEW s \in Streams, Cancel(s) PROVE Flow'
<1>1. /\ op' = [op EXCEPT ![s] = "idle"] /\ packets' = Unanswered(s)
      /\ raw' = [raw EXCEPT ![s] = IF op[s] = "header" THEN "refused" ELSE @]
      /\ UNCHANGED <<calls, acked, retry, wire>>
  BY DEF Cancel, network
<1>2. /\ DOMAIN packets' = DOMAIN packets
      /\ \A i \in DOMAIN packets :
            /\ packets'[i].packet = packets[i].packet
            /\ packets'[i].waits => packets[i].waits /\ packets[i].packet.id # s
      /\ Pipe' = Pipe /\ OnTheWay' = OnTheWay
  BY <1>1, Unheard DEF IInv
<1>3. Queued' = Queued /\ Kept' = Kept
  BY <1>1, <1>2 DEF Queued, Kept
<1>4. /\ raw \in [Streams -> {"none", "open", "closed", "dropping", "gone", "refused"}]
      /\ op \in [Streams -> {"idle", "header", "chunk", "trailer"}]
      /\ packets \in Seq(Requests)
  BY DEF IInv, Types, TypeOK, Requests
<1>5. Latest'
  BY <1>1, <1>2 DEF Flow, Latest
<1>6. Opening'
  BY <1>1, <1>4 DEF Flow, Opening
<1>7. Opened'
  <2>1. \A t \in Streams : raw'[t] \in {"none", "refused"} => raw[t] \in {"none", "refused"}
    BY <1>1, <1>4 DEF Flow, Opening
  <2>2. \A t \in Streams : raw'[t] \notin {"none", "refused"} => raw[t] \notin {"none", "refused"}
    BY <1>1, <1>4
  <2>3. ASSUME NEW t \in Streams, raw'[t] = "none", NEW i \in DOMAIN packets',
               IsHeader(packets'[i].packet, t)
        PROVE  packets'[i].waits
    <3>1. raw[t] = "none" /\ (t = s => op[s] # "header")
      BY <1>1, <1>4, <2>3
    <3>2. i \in DOMAIN packets /\ IsHeader(packets[i].packet, t)
      BY <1>2, <2>3
    <3>3. packets[i].waits
      BY <3>1, <3>2 DEF Flow, Opened
    <3>4. op[t] = "header"
      BY <3>2, <3>3 DEF IInv, Waiting, IsHeader
    <3>5. packets'[i] = packets[i]
      <4>1. packets[i].packet.id # s
        BY <3>1, <3>2, <3>4 DEF IsHeader
      <4> QED
        BY <1>1, <3>2, <4>1 DEF Unanswered
    <3> QED
      BY <3>3, <3>5
  <2>4. \A t \in Streams : raw'[t] = "none" => raw[t] = "none"
    BY <1>1, <1>4
  <2> QED
    BY <1>2, <1>3, <2>1, <2>2, <2>3, <2>4 DEF Flow, Opened
<1>8. HeaderFirst' /\ AckedInOrder'
  BY <1>1 DEF Flow, HeaderFirst, AckedInOrder
<1>9. OwedBefore'
  BY <1>1, <1>2 DEF Flow, OwedBefore
<1> QED
  BY <1>5, <1>6, <1>7, <1>8, <1>9 DEF Flow

LEMMA DropFlow == ASSUME IInv, Flow, NEW s \in Streams, Drop(s) PROVE Flow'
<1>1. /\ raw[s] \in {"open", "closed"} /\ op[s] = "idle"
      /\ raw' = [raw EXCEPT ![s] = IF @ = "open" THEN "dropping" ELSE "gone"]
      /\ UNCHANGED <<op, calls, acked, packets, retry, wire>>
  BY DEF Drop, outgoing, network
<1>2. raw \in [Streams -> {"none", "open", "closed", "dropping", "gone", "refused"}]
  BY DEF IInv, Types, TypeOK
<1>3. Pipe' = Pipe /\ OnTheWay' = OnTheWay /\ Queued' = Queued /\ Kept' = Kept
  BY <1>1 DEF Pipe, OnTheWay, Queued, Kept
<1>4. Latest' /\ HeaderFirst' /\ AckedInOrder'
  BY <1>1 DEF Flow, Latest, HeaderFirst, AckedInOrder
<1>5. Opening'
  BY <1>1, <1>2 DEF Flow, Opening
<1>6. \A t \in Streams :
          \/ raw'[t] = raw[t]
          \/ raw[t] \notin {"none", "refused"} /\ raw'[t] \notin {"none", "refused"}
  BY <1>1, <1>2
<1>7. Opened'
  BY <1>1, <1>3, <1>6 DEF Flow, Opened
<1>8. OwedBefore'
  BY <1>1, <1>3 DEF Flow, OwedBefore
<1> QED
  BY <1>4, <1>5, <1>7, <1>8 DEF Flow

LEMMA DropTaskFlow == ASSUME IInv, Flow, NEW s \in Streams, DropTask(s) PROVE Flow'
<1> DEFINE p == Trailer(s, FALSE)
<1>1. /\ raw[s] = "dropping" /\ raw' = [raw EXCEPT ![s] = "gone"]
      /\ packets' \in {packets, Append(packets, [packet |-> p, waits |-> FALSE])}
      /\ UNCHANGED <<op, calls, acked, retry, wire>>
  BY DEF DropTask, network
<1>2. /\ raw \in [Streams -> {"none", "open", "closed", "dropping", "gone", "refused"}]
      /\ acked[s] \subseteq 1..MaxCalls /\ Types
  BY DEF IInv, Types, TypeOK
<1>3. p \in Packets /\ p.type = "trailer" /\ p.id = s /\ p.owed = acked[s]
  <2>1. p.owed = acked[s]
    BY DEF Trailer
  <2>2. \E b \in BOOLEAN : p = Trailer(s, b)
    OBVIOUS
  <2> HIDE DEF p
  <2> QED
    BY <1>2, <2>1, <2>2, Made
<1> HIDE DEF p
<1>4. /\ Queued' \subseteq Queued \cup {p} /\ Kept' = Kept /\ OnTheWay' = OnTheWay
      /\ Pipe' \subseteq Pipe \cup {p}
      /\ \A i \in DOMAIN packets' :
            \/ i \in DOMAIN packets /\ packets'[i] = packets[i]
            \/ packets'[i].packet = p /\ packets'[i].waits = FALSE
  <2>1. CASE packets' = packets
    BY <1>1, <2>1 DEF Pipe, OnTheWay, Queued, Kept
  <2>2. CASE packets' = Append(packets, [packet |-> p, waits |-> FALSE])
    BY <1>1, <1>2, <1>3, <2>2, Grown, FALSE \in BOOLEAN
  <2> QED
    BY <1>1, <2>1, <2>2
<1>5. Latest'
  BY <1>1, <1>4 DEF Flow, Latest
<1>6. Opening'
  BY <1>1, <1>2 DEF Flow, Opening
<1>7. \A t \in Streams :
          \/ raw'[t] = raw[t]
          \/ raw[t] \notin {"none", "refused"} /\ raw'[t] \notin {"none", "refused"}
  BY <1>1, <1>2
<1>8. Opened'
  <2>1. \A t \in Streams : raw'[t] \in {"none", "refused"} => \A q \in Pipe' : ~IsChunk(q, t)
    BY <1>3, <1>4, <1>7 DEF Flow, Opened, IsChunk
  <2>2. \A t \in Streams : raw'[t] \notin {"none", "refused"} =>
            \A q \in Queued' \cup Kept' : ~IsHeader(q, t)
    BY <1>3, <1>4, <1>7 DEF Flow, Opened, IsHeader
  <2>3. \A t \in Streams : raw'[t] = "none" =>
            /\ \A q \in Kept' : ~IsHeader(q, t)
            /\ \A i \in DOMAIN packets' : IsHeader(packets'[i].packet, t) => packets'[i].waits
    BY <1>3, <1>4, <1>7 DEF Flow, Opened, IsHeader
  <2> QED
    BY <2>1, <2>2, <2>3 DEF Opened
<1>9. HeaderFirst' /\ AckedInOrder'
  BY <1>1 DEF Flow, HeaderFirst, AckedInOrder
<1>10. OwedBefore'
  <2>1. \A d \in acked[s] : \E q \in OnTheWay : IsChunk(q, s) /\ q.data = d
    BY DEF IInv, Numbered
  <2> QED
    BY <1>1, <1>3, <1>4, <2>1 DEF Flow, OwedBefore
<1> QED
  BY <1>5, <1>6, <1>8, <1>9, <1>10 DEF Flow
\* A packet is published behind the others.
LEMMA WireIs ==
    ASSUME wire \in Seq(OnWire), NEW e \in OnWire, wire' = Append(wire, e)
    PROVE  /\ \A i \in DOMAIN wire : i \in Nat /\ i \in DOMAIN wire' /\ wire'[i] = wire[i]
           /\ \E n \in DOMAIN wire' :
                 /\ wire'[n] = e
                 /\ \A i \in DOMAIN wire : i < n
                 /\ \A i \in DOMAIN wire' : i \in DOMAIN wire \/ i = n
<1>1. /\ Len(wire) \in Nat /\ DOMAIN wire = 1..Len(wire)
      /\ DOMAIN wire' = 1..(Len(wire) + 1)
      /\ wire'[Len(wire) + 1] = e /\ \A i \in 1..Len(wire) : wire'[i] = wire[i]
  BY Appended
<1> QED
  BY <1>1

\* What that leaves of the order on the wire.
LEMMA PublishedInOrder ==
    ASSUME Types, Flow, NEW e \in OnWire, wire' = Append(wire, e),
           e.packet \in Pipe, Pipe' \subseteq Pipe,
           \A s \in Streams : \A q \in Pipe : ~(IsHeader(e.packet, s) /\ IsChunk(q, s)),
           \A s \in Streams : \A d \in acked'[s] :
              \/ d \in acked[s]
              \/ /\ IsChunk(e.packet, s) /\ e.packet.data = d
                 /\ \A q \in Pipe : IsChunk(q, s) => ~(d < q.data)
    PROVE  HeaderFirst' /\ AckedInOrder' /\ OwedBefore'
<1>1. wire \in Seq(OnWire)
  BY DEF Types, TypeOK
<1>2. \A i \in DOMAIN wire : i \in Nat /\ i \in DOMAIN wire' /\ wire'[i] = wire[i]
  BY <1>1, WireIs
<1>3. PICK n \in DOMAIN wire' :
          /\ wire'[n] = e
          /\ \A i \in DOMAIN wire : i < n
          /\ \A i \in DOMAIN wire' : i \in DOMAIN wire \/ i = n
  BY <1>1, WireIs
<1>4. \A i \in DOMAIN wire : wire[i].packet \in Pipe
  BY DEF Pipe, OnTheWay
<1>5. HeaderFirst'
  <2> SUFFICES ASSUME NEW s \in Streams, NEW i \in DOMAIN wire', NEW j \in DOMAIN wire',
                      IsHeader(wire'[i].packet, s), IsChunk(wire'[j].packet, s)
               PROVE  i < j
    BY DEF HeaderFirst, IsHeader, IsChunk
  <2>1. CASE i = n
    <3>1. j # n
      BY <1>3, <2>1 DEF IsHeader, IsChunk
    <3> QED
      BY <1>2, <1>3, <1>4, <2>1, <3>1
  <2>2. CASE i \in DOMAIN wire /\ j = n
    BY <1>3, <2>2
  <2>3. CASE i \in DOMAIN wire /\ j \in DOMAIN wire
    BY <1>2, <2>3 DEF Flow, HeaderFirst
  <2> QED
    BY <1>3, <2>1, <2>2, <2>3
<1>6. AckedInOrder'
  <2> SUFFICES ASSUME NEW s \in Streams, NEW d \in acked'[s]
               PROVE  \E i \in DOMAIN wire' :
                         /\ IsChunk(wire'[i].packet, s) /\ wire'[i].packet.data = d
                         /\ \A j \in DOMAIN wire' :
                               IsChunk(wire'[j].packet, s) /\ d < wire'[j].packet.data => i < j
    BY DEF AckedInOrder, IsChunk
  <2>1. CASE d \in acked[s]
    <3>1. PICK i \in DOMAIN wire :
              /\ IsChunk(wire[i].packet, s) /\ wire[i].packet.data = d
              /\ \A j \in DOMAIN wire :
                    IsChunk(wire[j].packet, s) /\ d < wire[j].packet.data => i < j
      BY <2>1 DEF Flow, AckedInOrder
    <3>2. ASSUME NEW j \in DOMAIN wire', IsChunk(wire'[j].packet, s),
                 d < wire'[j].packet.data
          PROVE  i < j
      BY <1>2, <1>3, <3>1, <3>2
    <3> QED
      BY <1>2, <3>1, <3>2
  <2>2. CASE d \notin acked[s]
    <3>1. /\ IsChunk(e.packet, s) /\ e.packet.data = d
          /\ \A q \in Pipe : IsChunk(q, s) => ~(d < q.data)
      BY <2>2
    <3>2. ASSUME NEW j \in DOMAIN wire', IsChunk(wire'[j].packet, s),
                 d < wire'[j].packet.data
          PROVE  FALSE
      <4>1. wire'[j].packet \in Pipe
        BY <1>2, <1>3, <1>4
      <4> QED
        BY <3>1, <3>2, <4>1
    <3> QED
      BY <1>3, <3>1, <3>2
  <2> QED
    BY <2>1, <2>2
<1>7. OwedBefore'
  <2>1. OnTheWay \subseteq OnTheWay'
    BY <1>2 DEF OnTheWay
  <2>2. \A p \in Pipe' : p.type = "trailer" =>
            \A d \in p.owed : \E q \in OnTheWay' : IsChunk(q, p.id) /\ q.data = d
    BY <2>1 DEF Flow, OwedBefore
  <2>3. ASSUME NEW j \in DOMAIN wire', wire'[j].packet.type = "trailer",
               NEW d \in wire'[j].packet.owed
        PROVE  \E i \in DOMAIN wire' :
                  i < j /\ IsChunk(wire'[i].packet, wire'[j].packet.id)
                        /\ wire'[i].packet.data = d
    <3>1. CASE j \in DOMAIN wire
      BY <1>2, <2>3, <3>1 DEF Flow, OwedBefore
    <3>2. CASE j = n
      <4>1. PICK q \in OnTheWay : IsChunk(q, e.packet.id) /\ q.data = d
        BY <1>3, <2>3, <3>2 DEF Flow, OwedBefore
      <4>2. PICK i \in DOMAIN wire : wire[i].packet = q
        BY DEF OnTheWay
      <4> QED
        BY <1>2, <1>3, <3>2, <4>1, <4>2
    <3> QED
      BY <1>3, <3>1, <3>2
  <2> QED
    BY <2>2, <2>3 DEF OwedBefore, IsChunk
<1> QED
  BY <1>5, <1>6, <1>7

\* The packet at the head of the channel is taken: what is left of the others.
LEMMA QueueTaken ==
    ASSUME IInv, packets # <<>>, packets' = Tail(packets)
    PROVE  /\ Taken = packets[1] /\ 1 \in DOMAIN packets
           /\ Taken.packet \in Packets /\ Taken.packet \in Queued /\ Taken.waits \in BOOLEAN
           /\ \A i \in DOMAIN packets' :
                 i + 1 \in DOMAIN packets /\ i + 1 # 1 /\ packets'[i] = packets[i + 1]
           /\ Queued' \subseteq Queued
<1>1. packets \in Seq(Requests)
  BY DEF IInv, Types, TypeOK, Requests
<1>2. /\ Len(packets) \in Nat \ {0}
      /\ DOMAIN packets = 1..Len(packets) /\ DOMAIN packets' = 1..(Len(packets) - 1)
      /\ Taken = packets[1] /\ Taken \in Requests
      /\ \A i \in 1..(Len(packets) - 1) : packets'[i] = packets[i + 1]
  BY <1>1, Shortened DEF Taken
<1>3. \A i \in DOMAIN packets' :
          i + 1 \in DOMAIN packets /\ i + 1 # 1 /\ packets'[i] = packets[i + 1]
  BY <1>2
<1>4. 1 \in DOMAIN packets /\ Taken.packet \in Packets /\ Taken.waits \in BOOLEAN
  BY <1>2 DEF Requests
<1>5. Taken.packet \in Queued
  BY <1>2, <1>4 DEF Queued
<1>6. Queued' \subseteq Queued
  BY <1>3 DEF Queued
<1> QED
  BY <1>2, <1>3, <1>4, <1>5, <1>6

\* Whatever the answer is, the streams stay as far as their answers say.
LEMMA RespondedFlow ==
    ASSUME IInv, Flow, NEW ok \in BOOLEAN, packets # <<>>, Respond(ok),
           Pipe' \subseteq Pipe,
           \A q \in Kept' : q \in Kept \/ (~ok /\ q = Taken.packet)
    PROVE  Latest' /\ Opening' /\ Opened'
<1> DEFINE p == Taken.packet
           s == p.id
<1>1. packets' = Tail(packets)
  BY DEF Respond
<1>2. /\ Taken = packets[1] /\ 1 \in DOMAIN packets
      /\ p \in Packets /\ p \in Queued /\ Taken.waits \in BOOLEAN
      /\ \A i \in DOMAIN packets' :
            i + 1 \in DOMAIN packets /\ i + 1 # 1 /\ packets'[i] = packets[i + 1]
      /\ Queued' \subseteq Queued
  BY <1>1, QueueTaken
<1>3. s \in Streams /\ p.type \in {"header", "chunk", "trailer"}
  BY <1>2, PacketIs
<1>4. /\ raw \in [Streams -> {"none", "open", "closed", "dropping", "gone", "refused"}]
      /\ op \in [Streams -> {"idle", "header", "chunk", "trailer"}]
  BY DEF IInv, Types, TypeOK
<1>5. Taken.waits => op[s] = p.type
  BY <1>2 DEF IInv, Waiting
<1>6. Latest'
  <2>1. calls' = calls
    BY DEF Respond, Answered, writer
  <2> QED
    BY <1>2, <2>1 DEF Flow, Latest
<1>7. CASE ~Taken.waits
  <2>1. UNCHANGED <<raw, op>>
    BY <1>7 DEF Respond, writer
  <2>2. Opening'
    BY <2>1 DEF Flow, Opening
  <2>3. \A t \in Streams : raw[t] # "refused" => ~IsHeader(p, t)
    BY <1>2, <1>7 DEF Flow, Opened
  <2>4. Opened'
    <3>1. \A t \in Streams : raw'[t] \in {"none", "refused"} => \A q \in Pipe' : ~IsChunk(q, t)
      BY <2>1 DEF Flow, Opened
    <3>2. \A t \in Streams : raw'[t] \notin {"none", "refused"} =>
              \A q \in Queued' \cup Kept' : ~IsHeader(q, t)
      BY <1>2, <2>1, <2>3 DEF Flow, Opened
    <3>3. \A t \in Streams : raw'[t] = "none" =>
              /\ \A q \in Kept' : ~IsHeader(q, t)
              /\ \A i \in DOMAIN packets' : IsHeader(packets'[i].packet, t) => packets'[i].waits
      BY <1>2, <2>1, <2>3 DEF Flow, Opened
    <3> QED
      BY <3>1, <3>2, <3>3 DEF Opened
  <2> QED
    BY <1>6, <2>2, <2>4
<1>8. CASE Taken.waits
  <2>1. /\ op' = [op EXCEPT ![s] = "idle"]
        /\ raw' = [raw EXCEPT ![s] = CASE p.type = "header" -> IF ok THEN "open" ELSE "refused"
                                       [] p.type = "trailer" /\ ok -> "closed"
                                       [] OTHER -> @]
    BY <1>8 DEF Respond, Answered
  <2>2. op[s] = p.type
    BY <1>5, <1>8
  <2> HIDE DEF p, s
  <2>3. \A t \in Streams : t # s => raw'[t] = raw[t] /\ op'[t] = op[t]
    BY <1>3, <1>4, <2>1
  <2>4. p.type = "header" => raw[s] = "none" /\ raw'[s] = IF ok THEN "open" ELSE "refused"
    BY <1>3, <1>4, <2>1, <2>2 DEF Flow, Opening
  <2>5. p.type # "header" =>
            raw[s] \in {"open", "closed"} /\ raw'[s] \in {"open", "closed"}
    BY <1>3, <1>4, <2>1, <2>2 DEF Flow, Opening
  <2>6. Opening'
    BY <1>3, <1>4, <2>1, <2>3 DEF Flow, Opening
  <2>7. p.id = s
    BY DEF s
\* No second header waits.
  <2>8. p.type = "header" => \A q \in Queued' : ~IsHeader(q, s)
    <3> SUFFICES ASSUME p.type = "header", NEW i \in DOMAIN packets',
                        IsHeader(packets'[i].packet, s)
                 PROVE  FALSE
      BY DEF Queued
    <3>1. i + 1 \in DOMAIN packets /\ i + 1 # 1 /\ IsHeader(packets[i + 1].packet, s)
      BY <1>2
    <3>2. packets[i + 1].waits
      BY <1>3, <2>4, <3>1 DEF Flow, Opened
    <3>3. packets[1].waits /\ packets[1].packet.id = packets[i + 1].packet.id
      BY <1>2, <1>8, <3>1 DEF IsHeader, p, s
    <3> QED
      BY <1>2, <3>1, <3>2, <3>3 DEF IInv, Waiting
  <2>9. Opened'
    <3>1. \A t \in Streams : raw'[t] \in {"none", "refused"} => raw[t] \in {"none", "refused"}
      BY <2>3, <2>4, <2>5
    <3>2. \A t \in Streams : raw'[t] \in {"none", "refused"} => \A q \in Pipe' : ~IsChunk(q, t)
      BY <3>1 DEF Flow, Opened
    <3>3. ASSUME NEW t \in Streams, raw'[t] \notin {"none", "refused"}
          PROVE  \A q \in Queued' \cup Kept' : ~IsHeader(q, t)
      <4>1. CASE t = s /\ p.type = "header"
        <5>1. ok /\ raw[t] = "none"
          BY <2>4, <3>3, <4>1
        <5>2. \A q \in Kept' : ~IsHeader(q, t)
          BY <5>1 DEF Flow, Opened
        <5> QED
          BY <2>8, <4>1, <5>2
      <4>2. CASE ~(t = s /\ p.type = "header")
        <5>1. raw[t] \notin {"none", "refused"}
          BY <2>3, <2>5, <3>3, <4>2
        <5>2. ~IsHeader(p, t)
          BY <2>7, <4>2 DEF IsHeader
        <5> QED
          BY <1>2, <5>1, <5>2 DEF Flow, Opened, p
      <4> QED
        BY <4>1, <4>2
    <3>4. ASSUME NEW t \in Streams, raw'[t] = "none"
          PROVE  /\ \A q \in Kept' : ~IsHeader(q, t)
                 /\ \A i \in DOMAIN packets' :
                       IsHeader(packets'[i].packet, t) => packets'[i].waits
      <4>1. t # s /\ raw[t] = "none"
        BY <2>3, <2>4, <2>5, <3>4
      <4>2. ~IsHeader(p, t)
        BY <2>7, <4>1 DEF IsHeader
      <4> QED
        BY <1>2, <4>1, <4>2 DEF Flow, Opened, p
    <3> QED
      BY <3>2, <3>3, <3>4 DEF Opened
  <2> QED
    BY <1>6, <2>6, <2>9
<1> QED
  BY <1>2, <1>7, <1>8

LEMMA PublishedFlow == ASSUME IInv, Flow, Published PROVE Flow'
<1> DEFINE p == Taken.packet
           s == p.id
           e == OnTheWire(p)
<1>1. /\ packets # <<>> /\ Respond(TRUE) /\ wire' = Append(wire, e) /\ UNCHANGED retry
      /\ packets' = Tail(packets)
  BY DEF Published, Respond
<1>2. /\ p \in Packets /\ p \in Queued /\ Queued' \subseteq Queued
      /\ Taken = packets[1] /\ 1 \in DOMAIN packets
  BY <1>1, QueueTaken
<1>3. /\ wire \in Seq(OnWire) /\ encrypted \in BOOLEAN /\ Types /\ NetworkTypes
      /\ acked \in [Streams -> SUBSET (1..MaxCalls)]
      /\ calls \in [Streams -> 0..MaxCalls]
  BY DEF IInv, Types, TypeOK, NetworkTypes
<1>4. e \in OnWire /\ e.packet = p
  BY <1>2, <1>3, OnTheWireIs
<1>5. s \in Streams /\ p.type \in {"header", "chunk", "trailer"}
  BY <1>2, PacketIs
<1> HIDE DEF e, p, s
<1>6. Kept' = Kept /\ OnTheWay' = OnTheWay \cup {p}
  <2>1. OnTheWay' = OnTheWay \cup {e.packet}
    BY <1>1, <1>3, <1>4, WireGrows
  <2> QED
    BY <1>1, <1>4, <2>1 DEF Kept
<1>7. p \in Pipe /\ Pipe' \subseteq Pipe
  BY <1>2, <1>6 DEF Pipe, Queued, Kept
<1>8. Latest' /\ Opening' /\ Opened'
  BY <1>1, <1>6, <1>7, RespondedFlow, TRUE \in BOOLEAN
<1>9. \A t \in Streams : \A q \in Pipe : ~(IsHeader(p, t) /\ IsChunk(q, t))
  BY <1>2 DEF Flow, Opened
<1>10. \A t \in Streams : \A d \in acked'[t] :
           \/ d \in acked[t]
           \/ /\ IsChunk(p, t) /\ p.data = d
              /\ \A q \in Pipe : IsChunk(q, t) => ~(d < q.data)
  <2>1. CASE ~Taken.waits
    BY <1>1, <2>1 DEF Respond, writer
  <2>2. CASE Taken.waits /\ p.type # "chunk"
    BY <1>1, <1>3, <2>2 DEF Respond, Answered, p
  <2>3. CASE Taken.waits /\ p.type = "chunk"
    <3>1. acked' = [acked EXCEPT ![s] = @ \cup {p.data}]
      BY <1>1, <2>3 DEF Respond, Answered, p, s
    <3>2. p.data = calls[s]
      BY <1>2, <2>3 DEF Flow, Latest, p, s
    <3>3. \A q \in Pipe : IsChunk(q, s) => ~(p.data < q.data)
      <4> SUFFICES ASSUME NEW q \in Pipe, IsChunk(q, s) PROVE ~(p.data < q.data)
        OBVIOUS
      <4>1. q.data <= calls[s]
        BY <1>5 DEF IInv, Numbered
      <4>2. q.data \in Nat /\ calls[s] \in Nat
        BY <1>3, <1>5, PipeTyped, PacketIs, BoundsAssumption DEF IsChunk
      <4> QED
        BY <3>2, <4>1, <4>2
    <3>4. \A t \in Streams : t # s => acked'[t] = acked[t]
      BY <1>3, <3>1
    <3>5. acked'[s] = acked[s] \cup {p.data}
      BY <1>3, <1>5, <3>1
    <3>6. IsChunk(p, s)
      BY <2>3 DEF IsChunk, s
    <3> QED
      BY <3>3, <3>4, <3>5, <3>6
  <2> QED
    BY <2>1, <2>2, <2>3
<1>11. HeaderFirst' /\ AckedInOrder' /\ OwedBefore'
  BY <1>1, <1>3, <1>4, <1>7, <1>9, <1>10, PublishedInOrder
<1> QED
  BY <1>8, <1>11 DEF Flow

LEMMA PublishFailsFlow == ASSUME IInv, Flow, PublishFails PROVE Flow'
<1> DEFINE p == Taken.packet
<1>1. /\ packets # <<>> /\ Respond(FALSE) /\ packets' = Tail(packets)
      /\ retry' \in {retry, Append(retry, OnTheWire(p))} /\ UNCHANGED wire
  BY DEF PublishFails, Respond
<1>2. p \in Packets /\ p \in Queued /\ Queued' \subseteq Queued
  BY <1>1, QueueTaken
<1>3. /\ retry \in Seq(OnWire) /\ encrypted \in BOOLEAN
      /\ acked \in [Streams -> SUBSET (1..MaxCalls)]
  BY DEF IInv, Types, TypeOK
<1>4. OnTheWire(p) \in OnWire /\ OnTheWire(p).packet = p
  BY <1>2, <1>3, OnTheWireIs
<1> HIDE DEF p
<1>5. Kept' \subseteq Kept \cup {p}
  <2>1. CASE retry' = retry
    BY <2>1 DEF Kept
  <2>2. CASE retry' = Append(retry, OnTheWire(p))
    <3>1. /\ Len(retry) \in Nat
          /\ DOMAIN retry = 1..Len(retry) /\ DOMAIN retry' = 1..(Len(retry) + 1)
          /\ retry'[Len(retry) + 1] = OnTheWire(p)
          /\ \A i \in 1..Len(retry) : retry'[i] = retry[i]
      BY <1>3, <1>4, <2>2, Appended
    <3>2. \A i \in DOMAIN retry' : i \in DOMAIN retry \/ i = Len(retry) + 1
      BY <3>1
    <3> QED
      BY <1>4, <3>1, <3>2 DEF Kept
  <2> QED
    BY <1>1, <2>1, <2>2
<1>6. OnTheWay' = OnTheWay
  BY <1>1 DEF OnTheWay
<1>7. Pipe' \subseteq Pipe
  BY <1>2, <1>5, <1>6 DEF Pipe, Queued, Kept
<1>8. Latest' /\ Opening' /\ Opened'
  BY <1>1, <1>5, <1>7, RespondedFlow, FALSE \in BOOLEAN DEF p
<1>9. acked' = acked
  BY <1>1, <1>3 DEF Respond, Answered, writer
<1>10. HeaderFirst' /\ AckedInOrder'
  BY <1>1, <1>9 DEF Flow, HeaderFirst, AckedInOrder
<1>11. OwedBefore'
  BY <1>1, <1>6, <1>7 DEF Flow, OwedBefore
<1> QED
  BY <1>8, <1>10, <1>11 DEF Flow

LEMMA RoomClosesFlow == ASSUME IInv, Flow, RoomCloses PROVE Flow'
<1>1. /\ packets' = <<>> /\ op' = [s \in Streams |-> "idle"]
      /\ raw' = [s \in Streams |-> IF op[s] = "header" THEN "refused" ELSE raw[s]]
      /\ UNCHANGED <<calls, acked, retry, wire>>
  BY DEF RoomCloses, network
<1>2. /\ Queued' = {} /\ Kept' = Kept /\ OnTheWay' = OnTheWay /\ Pipe' \subseteq Pipe
  BY <1>1 DEF Pipe, OnTheWay, Queued, Kept
<1>3. Latest' /\ Opening' /\ HeaderFirst' /\ AckedInOrder'
  BY <1>1 DEF Flow, Latest, Opening, HeaderFirst, AckedInOrder
<1>4. Opened'
  <2>1. \A s \in Streams : raw'[s] \in {"none", "refused"} => raw[s] \in {"none", "refused"}
    BY <1>1 DEF Flow, Opening
  <2>2. \A s \in Streams : raw'[s] \notin {"refused"} => raw'[s] = raw[s]
    BY <1>1
  <2>3. \A s \in Streams : raw'[s] \in {"none", "refused"} => \A p \in Pipe' : ~IsChunk(p, s)
    BY <1>2, <2>1 DEF Flow, Opened
  <2>4. \A s \in Streams : raw'[s] \notin {"none", "refused"} =>
            \A p \in Queued' \cup Kept' : ~IsHeader(p, s)
    BY <1>2, <2>2 DEF Flow, Opened
  <2>5. \A s \in Streams : raw'[s] = "none" =>
            /\ \A p \in Kept' : ~IsHeader(p, s)
            /\ \A i \in DOMAIN packets' : IsHeader(packets'[i].packet, s) => packets'[i].waits
    BY <1>1, <1>2, <2>2 DEF Flow, Opened
  <2> QED
    BY <2>3, <2>4, <2>5 DEF Opened
<1>5. OwedBefore'
  BY <1>1, <1>2 DEF Flow, OwedBefore
<1> QED
  BY <1>3, <1>4, <1>5 DEF Flow

LEMMA RetriedFlow == ASSUME IInv, Flow, Retried PROVE Flow'
<1> DEFINE e == Head(retry)
<1>1. /\ retry # <<>> /\ wire' = Append(wire, e) /\ retry' = Tail(retry)
      /\ UNCHANGED <<raw, op, calls, acked, packets>>
  BY DEF Retried, writer, outgoing
<1>2. Types /\ NetworkTypes /\ retry \in Seq(OnWire)
  BY DEF IInv, Types, TypeOK, NetworkTypes
<1>3. /\ e \in OnWire /\ Len(retry) \in Nat \ {0}
      /\ DOMAIN retry = 1..Len(retry) /\ DOMAIN retry' = 1..(Len(retry) - 1)
      /\ e = retry[1] /\ \A i \in 1..(Len(retry) - 1) : retry'[i] = retry[i + 1]
  BY <1>1, <1>2, Shortened
<1>4. \A i \in DOMAIN retry' : i + 1 \in DOMAIN retry /\ retry'[i] = retry[i + 1]
  BY <1>3
<1>5. e.packet \in Kept /\ Kept' \subseteq Kept /\ Queued' = Queued
  <2>1. 1 \in DOMAIN retry
    BY <1>3
  <2> QED
    BY <1>1, <1>3, <1>4, <2>1 DEF Kept, Queued
<1> HIDE DEF e
<1>6. OnTheWay' = OnTheWay \cup {e.packet}
  BY <1>1, <1>2, <1>3, WireGrows
<1>7. e.packet \in Pipe /\ Pipe' \subseteq Pipe
  BY <1>5, <1>6 DEF Pipe, Queued, Kept
<1>8. Latest' /\ Opening'
  BY <1>1 DEF Flow, Latest, Opening
<1>9. Opened'
  <2>1. \A s \in Streams : raw'[s] \in {"none", "refused"} => \A p \in Pipe' : ~IsChunk(p, s)
    BY <1>1, <1>7 DEF Flow, Opened
  <2>2. \A s \in Streams : raw'[s] \notin {"none", "refused"} =>
            \A p \in Queued' \cup Kept' : ~IsHeader(p, s)
    BY <1>1, <1>5 DEF Flow, Opened
  <2>3. \A s \in Streams : raw'[s] = "none" =>
            /\ \A p \in Kept' : ~IsHeader(p, s)
            /\ \A i \in DOMAIN packets' : IsHeader(packets'[i].packet, s) => packets'[i].waits
    BY <1>1, <1>5 DEF Flow, Opened
  <2> QED
    BY <2>1, <2>2, <2>3 DEF Opened
<1>10. \A s \in Streams : \A q \in Pipe : ~(IsHeader(e.packet, s) /\ IsChunk(q, s))
  BY <1>5 DEF Flow, Opened
<1>11. HeaderFirst' /\ AckedInOrder' /\ OwedBefore'
  BY <1>1, <1>2, <1>3, <1>7, <1>10, PublishedInOrder
<1> QED
  BY <1>8, <1>9, <1>11 DEF Flow

-----------------------------------------------------------------------------
(* What the readers hold *)

\* A descriptor is of an open reader, with its length.
Described ==
    \A s \in Streams : open_streams[s] # NoStream =>
        LET d == open_streams[s]
            reader == readers[s][Reader(s)]
        IN  reader.end = "open" /\ reader.total = d.total /\ ~TooLong(d.index, d.total)

\* The reader of a stream that lost nothing has every chunk that came.
Seen ==
    \A s \in Streams \ lost : open_streams[s] # NoStream =>
        \A i \in 1..arrived : IsChunk(wire[i].packet, s) =>
            wire[i].packet.data \in ToSet(readers[s][Reader(s)].items)

GapFree(s, items) == \A d \in acked[s] : items # <<>> /\ d < Last(items) => d \in ToSet(items)

Whole(s, reader) ==
    reader.end = "clean" /\ ~reader.dropped =>
        \/ reader.owed \subseteq ToSet(reader.items)
        \/ s \in lost /\ (reader.total = Undeclared \/ s \in reused)
        \/ Len(reader.items) = reader.total

NoneLeftOut ==
    \A s \in Streams \ lost : \A r \in DOMAIN readers[s] : GapFree(s, readers[s][r].items)
AllWhole == \A s \in Streams : \A r \in DOMAIN readers[s] : Whole(s, readers[s][r])

Held == Described /\ Seen /\ NoneLeftOut /\ AllWhole

\* A new chunk is not older than what the readers have.
LEMMA LastIs ==
    ASSUME IInv, NEW s \in Streams, NEW r \in DOMAIN readers[s], readers[s][r].items # <<>>
    PROVE  /\ Last(readers[s][r].items) \in Nat
           /\ \E p \in Pipe : IsChunk(p, s) /\ p.data = Last(readers[s][r].items)
<1> DEFINE items == readers[s][r].items
<1>1. items \in Seq(1..MaxCalls)
  <2>1. readers[s] \in Seq(Readers)
    BY DEF IInv, Types
  <2>2. readers[s][r] \in Readers
    BY <2>1
  <2> QED
    BY <2>2 DEF Readers
<1>2. Len(items) \in DOMAIN items
  BY <1>1
<1>3. Last(items) = items[Len(items)]
  BY DEF Last
<1> QED
  BY <1>2, <1>3, Places

\* A step that gives nothing to the receiver.
LEMMA HeldStays ==
    ASSUME IInv, Held, UNCHANGED receiver, arrived' \in 0..arrived,
           \A i \in 1..arrived : wire'[i] = wire[i],
           lost \subseteq lost', reused \subseteq reused',
           \A s \in Streams : \A d \in acked'[s] :
              \/ d \in acked[s]
              \/ d \in Nat /\ \A q \in Pipe : IsChunk(q, s) => ~(d < q.data)
    PROVE  Held'
<1>1. UNCHANGED <<open_streams, readers>>
  BY DEF receiver
<1>2. Described'
  BY <1>1 DEF Held, Described, Reader
<1>3. Seen'
  <2>1. arrived \in Nat
    BY DEF IInv, Types, TypeOK
  <2>2. \A i \in 1..arrived' : i \in 1..arrived /\ wire'[i] = wire[i]
    BY <2>1
  <2> QED
    BY <1>1, <2>2 DEF Held, Seen, Reader
<1>4. NoneLeftOut'
  <2> SUFFICES ASSUME NEW s \in Streams, s \notin lost, NEW r \in DOMAIN readers[s],
                      NEW d \in acked'[s], readers[s][r].items # <<>>,
                      d < Last(readers[s][r].items)
               PROVE  d \in ToSet(readers[s][r].items)
    BY <1>1 DEF NoneLeftOut, GapFree
  <2>1. d \in acked[s]
    BY LastIs
  <2> QED
    BY <2>1 DEF Held, NoneLeftOut, GapFree
<1>5. AllWhole'
  BY <1>1 DEF Held, AllWhole, Whole
<1> QED
  BY <1>2, <1>3, <1>4, <1>5 DEF Held

\* One reader is changed: the others are as they were.
LEMMA OneChanged ==
    ASSUME Types, NEW s \in Streams, NEW r \in DOMAIN readers[s], NEW new,
           readers' = [readers EXCEPT ![s][r] = new]
    PROVE  /\ readers'[s][r] = new
           /\ \A t \in Streams : /\ DOMAIN readers'[t] = DOMAIN readers[t]
                                 /\ \A q \in DOMAIN readers[t] :
                                       t # s \/ q # r => readers'[t][q] = readers[t][q]
<1>1. readers \in [Streams -> Seq(Readers)]
  BY DEF Types
<1>2. /\ readers'[s] = [readers[s] EXCEPT ![r] = new]
      /\ \A t \in Streams : t # s => readers'[t] = readers[t]
  BY <1>1
<1> QED
  BY <1>2

LEMMA OneReplaced ==
    ASSUME Types, Held, NEW s \in Streams, NEW r \in DOMAIN readers[s], NEW new,
           readers' = [readers EXCEPT ![s][r] = new],
           UNCHANGED <<acked, lost, reused>>,
           s \notin lost => GapFree(s, new.items), Whole(s, new)
    PROVE  NoneLeftOut' /\ AllWhole'
<1>1. /\ readers'[s][r] = new
      /\ \A t \in Streams : /\ DOMAIN readers'[t] = DOMAIN readers[t]
                            /\ \A q \in DOMAIN readers[t] :
                                  t # s \/ q # r => readers'[t][q] = readers[t][q]
  BY OneChanged, ZenonT(40)
<1>2. NoneLeftOut'
  <2> SUFFICES ASSUME NEW t \in Streams \ lost, NEW q \in DOMAIN readers'[t]
               PROVE  GapFree(t, readers'[t][q].items)
    BY DEF NoneLeftOut, GapFree
  <2>1. CASE t = s /\ q = r
    BY <1>1, <2>1
  <2>2. CASE ~(t = s /\ q = r)
    <3>1. q \in DOMAIN readers[t] /\ readers'[t][q] = readers[t][q]
      BY <1>1, <2>2
    <3> QED
      BY <3>1 DEF Held, NoneLeftOut
  <2> QED
    BY <2>1, <2>2
<1>3. AllWhole'
  <2> SUFFICES ASSUME NEW t \in Streams, NEW q \in DOMAIN readers'[t]
               PROVE  Whole(t, readers'[t][q])
    BY DEF AllWhole, Whole
  <2>1. CASE t = s /\ q = r
    BY <1>1, <2>1
  <2>2. CASE ~(t = s /\ q = r)
    <3>1. q \in DOMAIN readers[t] /\ readers'[t][q] = readers[t][q]
      BY <1>1, <2>2
    <3> QED
      BY <3>1 DEF Held, AllWhole
  <2> QED
    BY <2>1, <2>2
<1> QED
  BY <1>2, <1>3

\* The other streams see what they saw, if what arrives is not theirs.
LEMMA OthersSeen ==
    ASSUME Types, Held, NEW s \in Streams, arrived' = arrived + 1, UNCHANGED <<wire, lost>>,
           wire[arrived + 1].packet.id = s,
           \A t \in Streams : t # s =>
              open_streams'[t] = open_streams[t] /\ readers'[t] = readers[t],
           s \notin lost /\ open_streams'[s] # NoStream =>
              \A i \in 1..(arrived + 1) : IsChunk(wire[i].packet, s) =>
                  wire[i].packet.data \in ToSet(readers'[s][open_streams'[s].reader].items)
    PROVE  Seen'
<1>1. arrived \in Nat
  BY DEF Types, TypeOK
<1> SUFFICES ASSUME NEW t \in Streams \ lost, open_streams'[t] # NoStream,
                    NEW i \in 1..(arrived + 1), IsChunk(wire[i].packet, t)
             PROVE  wire[i].packet.data \in ToSet(readers'[t][open_streams'[t].reader].items)
  BY DEF Seen, Reader, IsChunk
<1>2. CASE t = s
  BY <1>2
<1>3. CASE t # s
  <2>1. i # arrived + 1
    BY <1>3 DEF IsChunk
  <2>2. i \in 1..arrived
    BY <1>1, <2>1
  <2> QED
    BY <1>3, <2>2 DEF Held, Seen, Reader
<1> QED
  BY <1>2, <1>3

\* The channel of a reader is closed, and if cleanly it has what is asked of it.
LEMMA EndedHeld ==
    ASSUME IInv, Held, NEW s \in Streams, open_streams[s] # NoStream,
           NEW how, NEW owed,
           open_streams' = [open_streams EXCEPT ![s] = NoStream],
           readers' = Ended(s, how, owed),
           wire[arrived + 1].packet.id = s, arrived' = arrived + 1,
           UNCHANGED <<acked, lost, reused, wire>>,
           how = "clean" /\ ~readers[s][Reader(s)].dropped =>
              \/ owed \subseteq ToSet(readers[s][Reader(s)].items)
              \/ s \in lost /\ (readers[s][Reader(s)].total = Undeclared \/ s \in reused)
              \/ Len(readers[s][Reader(s)].items) = readers[s][Reader(s)].total
    PROVE  Held'
<1> DEFINE r == Reader(s)
           new == [readers[s][r] EXCEPT !.end = how, !.owed = owed]
<1>1. Types /\ r \in DOMAIN readers[s] /\ readers[s][r] \in Readers
  BY ReaderIs DEF IInv
<1>2. /\ new.items = readers[s][r].items /\ new.end = how /\ new.owed = owed
      /\ new.total = readers[s][r].total /\ new.dropped = readers[s][r].dropped
  BY <1>1 DEF Readers
<1>3. /\ readers \in [Streams -> Seq(Readers)]
      /\ open_streams \in [Streams -> Descriptors \cup {NoStream}]
  BY <1>1 DEF Types, TypeOK
<1>4. readers' = [readers EXCEPT ![s][r] = new]
  BY <1>1, <1>3 DEF Ended
<1>5. GapFree(s, new.items) \/ s \in lost
  BY <1>1, <1>2 DEF Held, NoneLeftOut
<1>6. Whole(s, new)
  BY <1>2 DEF Whole
<1> HIDE DEF new, r
<1>7. NoneLeftOut' /\ AllWhole'
  BY <1>1, <1>4, <1>5, <1>6, OneReplaced
<1>8. /\ open_streams'[s] = NoStream
      /\ \A t \in Streams : t # s =>
            open_streams'[t] = open_streams[t] /\ readers'[t] = readers[t]
  BY <1>3, <1>4
<1>9. Described'
  BY <1>8 DEF Held, Described, Reader
<1>10. Seen'
  BY <1>1, <1>8, OthersSeen
<1> QED
  BY <1>7, <1>9, <1>10 DEF Held

\* Nothing of the packet that comes is for a reader.
LEMMA IgnoredHeld ==
    ASSUME IInv, Held, NEW s \in Streams, UNCHANGED receiver,
           wire[arrived + 1].packet.id = s, arrived' = arrived + 1,
           UNCHANGED <<acked, lost, reused, wire>>,
           open_streams[s] = NoStream \/ ~IsChunk(wire[arrived + 1].packet, s)
    PROVE  Held'
<1>1. UNCHANGED <<open_streams, readers>> /\ Types
  BY DEF receiver, IInv
<1>2. arrived \in Nat
  BY <1>1 DEF Types, TypeOK
<1>3. ASSUME s \notin lost, open_streams[s] # NoStream,
             NEW i \in 1..(arrived + 1), IsChunk(wire[i].packet, s)
      PROVE  wire[i].packet.data \in ToSet(readers[s][open_streams[s].reader].items)
  <2>1. i \in 1..arrived
    BY <1>2, <1>3
  <2> QED
    BY <1>3, <2>1 DEF Held, Seen, Reader
<1>4. Seen'
  BY <1>1, <1>3, OthersSeen
<1> QED
  BY <1>1, <1>4 DEF Held, Described, NoneLeftOut, AllWhole, GapFree, Whole, Reader

\* The packet that arrives next.
Coming == wire[arrived + 1].packet

LEMMA ComingIs ==
    ASSUME Types, arrived < Len(wire)
    PROVE  /\ arrived \in Nat /\ arrived + 1 \in DOMAIN wire
           /\ Coming \in Packets /\ Coming \in OnTheWay
           /\ wire[arrived + 1].encrypted \in BOOLEAN
           /\ \A i \in 1..(arrived + 1) : i \in DOMAIN wire /\ (i \in 1..arrived \/ i = arrived + 1)
<1>1. wire \in Seq(OnWire) /\ arrived \in 0..Len(wire)
  BY DEF Types, TypeOK
<1>2. Len(wire) \in Nat /\ DOMAIN wire = 1..Len(wire)
  BY <1>1
<1>3. arrived \in Nat /\ arrived + 1 \in DOMAIN wire
  BY <1>1, <1>2
<1>4. wire[arrived + 1] \in OnWire /\ Coming \in Packets
  BY <1>1, <1>3, OnWireIs DEF Coming
<1>5. Coming \in OnTheWay
  BY <1>3 DEF Coming, OnTheWay
<1>6. wire[arrived + 1].encrypted \in BOOLEAN
  BY <1>4 DEF OnWire
<1>7. \A i \in 1..(arrived + 1) : i \in DOMAIN wire /\ (i \in 1..arrived \/ i = arrived + 1)
  BY <1>1, <1>2, <1>3
<1> QED
  BY <1>3, <1>4, <1>5, <1>6, <1>7

LEMMA HeaderHeld ==
    ASSUME IInv, Flow, Held, arrived < Len(wire), arrived' = arrived + 1,
           UNCHANGED <<acked, lost, reused, wire>>,
           Coming.type = "header", NEW enc \in BOOLEAN, handle_header(Coming, enc)
    PROVE  Held'
<1> DEFINE p == Coming
           s == p.id
           new == NewReader(p.total)
           n == Len(readers[s]) + 1
           d == [index |-> 0, total |-> p.total, encrypted |-> enc, reader |-> n]
<1>1. Types
  BY DEF IInv
<1>2. /\ arrived \in Nat /\ arrived + 1 \in DOMAIN wire /\ p \in Packets
      /\ \A i \in 1..(arrived + 1) : i \in DOMAIN wire /\ (i \in 1..arrived \/ i = arrived + 1)
  BY <1>1, ComingIs
<1>3. s \in Streams /\ p.total \in Lengths /\ wire[arrived + 1].packet.id = s
  BY <1>2, PacketIs DEF Coming
<1>4. CASE open_streams[s] # NoStream
  <2>1. UNCHANGED receiver
    BY <1>4 DEF handle_header
  <2>2. ~IsChunk(wire[arrived + 1].packet, s)
    BY DEF IsChunk, Coming
  <2> QED
    BY <1>3, <2>1, <2>2, IgnoredHeld
<1>5. CASE open_streams[s] = NoStream
  <2>1. /\ readers' = [readers EXCEPT ![s] = Append(@, new)]
        /\ open_streams' = [open_streams EXCEPT ![s] = d]
    BY <1>5 DEF handle_header
  <2>2. /\ readers \in [Streams -> Seq(Readers)]
        /\ open_streams \in [Streams -> Descriptors \cup {NoStream}]
    BY <1>1 DEF Types, TypeOK
  <2>3. /\ new.items = <<>> /\ new.end = "open" /\ new.total = p.total
        /\ d.index = 0 /\ d.total = p.total /\ d.reader = n
    BY DEF NewReader
  <2> DEFINE q == readers[s]
  <2>4. q \in Seq(Readers) /\ Len(q) \in Nat /\ DOMAIN q = 1..Len(q)
    BY <1>3, <2>2
  <2>5. readers'[s] = Append(q, new)
    BY <1>3, <2>1, <2>2
  <2> HIDE DEF new, d, q
  <2>6. /\ DOMAIN Append(q, new) = 1..(Len(q) + 1) /\ Append(q, new)[Len(q) + 1] = new
        /\ \A r \in 1..Len(q) : Append(q, new)[r] = q[r]
    BY <2>4
  <2>7. n = Len(q) + 1
    BY DEF q
  <2>8. /\ DOMAIN readers'[s] = 1..n /\ readers'[s][n] = new /\ n \in Nat
        /\ \A r \in DOMAIN readers'[s] :
              r = n \/ (r \in DOMAIN readers[s] /\ readers'[s][r] = readers[s][r])
    <3>1. \A r \in 1..(Len(q) + 1) : r = Len(q) + 1 \/ r \in 1..Len(q)
      BY <2>4
    <3> QED
      BY <2>4, <2>5, <2>6, <2>7, <3>1 DEF q
  <2>9. /\ open_streams'[s] = d
        /\ \A t \in Streams : t # s =>
              open_streams'[t] = open_streams[t] /\ readers'[t] = readers[t]
    BY <1>3, <2>1, <2>2
  <2> HIDE DEF n
  <2>10. Described'
    <3>1. ~TooLong(0, p.total)
      <4> DEFINE total == p.total
      <4>1. total = Undeclared \/ total \in Nat
        BY <1>3, LengthsAssumption
      <4> HIDE DEF total
      <4>2. total \in Nat => ~(0 > total)
        OBVIOUS
      <4>3. ~TooLong(0, total)
        BY <4>1, <4>2 DEF TooLong
      <4> QED
        BY <4>3 DEF total
    <3>2. ASSUME NEW t \in Streams, open_streams'[t] # NoStream
          PROVE  /\ readers'[t][open_streams'[t].reader].end = "open"
                 /\ readers'[t][open_streams'[t].reader].total = open_streams'[t].total
                 /\ ~TooLong(open_streams'[t].index, open_streams'[t].total)
      <4>1. CASE t = s
        BY <2>3, <2>8, <2>9, <3>1, <4>1
      <4>2. CASE t # s
        BY <2>9, <3>2, <4>2 DEF Held, Described, Reader
      <4> QED
        BY <4>1, <4>2
    <3> QED
      BY <3>2 DEF Described, Reader, TooLong
  <2>11. ASSUME NEW i \in 1..(arrived + 1) PROVE ~IsChunk(wire[i].packet, s)
    <3>1. i \in DOMAIN wire /\ i <= arrived + 1
      BY <1>2
    <3>2. IsHeader(wire[arrived + 1].packet, s)
      BY DEF IsHeader, Coming
    <3>3. IsChunk(wire[i].packet, s) => arrived + 1 < i
      BY <1>2, <1>3, <3>1, <3>2 DEF Flow, HeaderFirst
    <3> QED
      BY <1>2, <3>1, <3>3
  <2>12. Seen'
    BY <1>1, <1>3, <2>9, <2>11, OthersSeen
  <2>13. NoneLeftOut'
    <3> SUFFICES ASSUME NEW t \in Streams \ lost, NEW r \in DOMAIN readers'[t]
                 PROVE  GapFree(t, readers'[t][r].items)
      BY DEF NoneLeftOut, GapFree
    <3>1. CASE t = s /\ r = n
      BY <2>3, <2>8, <3>1 DEF GapFree
    <3>2. CASE ~(t = s /\ r = n)
      <4>1. r \in DOMAIN readers[t] /\ readers'[t][r] = readers[t][r]
        BY <2>8, <2>9, <3>2
      <4> QED
        BY <4>1 DEF Held, NoneLeftOut
    <3> QED
      BY <3>1, <3>2
  <2>14. AllWhole'
    <3> SUFFICES ASSUME NEW t \in Streams, NEW r \in DOMAIN readers'[t]
                 PROVE  Whole(t, readers'[t][r])
      BY DEF AllWhole, Whole
    <3>1. CASE t = s /\ r = n
      BY <2>3, <2>8, <3>1 DEF Whole
    <3>2. CASE ~(t = s /\ r = n)
      <4>1. r \in DOMAIN readers[t] /\ readers'[t][r] = readers[t][r]
        BY <2>8, <2>9, <3>2
      <4> QED
        BY <4>1 DEF Held, AllWhole
    <3> QED
      BY <3>1, <3>2
  <2> QED
    BY <2>10, <2>12, <2>13, <2>14 DEF Held
<1> QED
  BY <1>4, <1>5

\* The chunk that the reader waits for is given to it.
LEMMA YieldedHeld ==
    ASSUME IInv, Flow, Held, arrived < Len(wire), arrived' = arrived + 1,
           UNCHANGED <<acked, lost, reused, wire>>,
           NEW s \in Streams, IsChunk(Coming, s), open_streams[s] # NoStream,
           ~TooLong(open_streams[s].index + 1, open_streams[s].total),
           yield_chunk(s, Coming.data)
    PROVE  Held'
<1> DEFINE p == Coming
           r == Reader(s)
           d == open_streams[s]
<1>1. Types /\ Placed
  BY DEF IInv
<1>2. /\ arrived \in Nat /\ arrived + 1 \in DOMAIN wire /\ p \in Packets /\ p.id = s
      /\ wire[arrived + 1].packet = p
      /\ \A i \in 1..(arrived + 1) : i \in DOMAIN wire /\ (i \in 1..arrived \/ i = arrived + 1)
  BY <1>1, ComingIs DEF IsChunk, Coming
<1>3. /\ d \in Descriptors /\ r \in DOMAIN readers[s] /\ readers[s][r] \in Readers
      /\ readers[s][r].items \in Seq(1..MaxCalls)
  BY <1>1, ReaderIs
<1>4. CASE readers[s][r].dropped
  <2>1. /\ open_streams' = [open_streams EXCEPT ![s] = NoStream]
        /\ readers' = Ended(s, "clean", {})
    BY <1>4 DEF yield_chunk
  <2> QED
    BY <1>2, <1>4, <2>1, EndedHeld
<1>5. CASE ~readers[s][r].dropped
  <2> DEFINE old == readers[s][r].items
             items == Append(old, p.data)
             new == [readers[s][r] EXCEPT !.items = items]
             next == [d EXCEPT !.index = @ + 1]
  <2>1. /\ readers \in [Streams -> Seq(Readers)]
        /\ open_streams \in [Streams -> Descriptors \cup {NoStream}]
    BY <1>1 DEF Types, TypeOK
  <2>2. /\ readers' = [readers EXCEPT ![s][r] = new]
        /\ open_streams' = [open_streams EXCEPT ![s] = next]
    BY <1>3, <1>5, <2>1 DEF yield_chunk
  <2>3. p.data \in 1..MaxCalls
    BY <1>2, PacketIs DEF IsChunk
  <2>4. /\ items # <<>> /\ Last(items) = p.data
        /\ \A x : x \in ToSet(old) => x \in ToSet(items)
        /\ p.data \in ToSet(items)
    <3>1. old \in Seq(1..MaxCalls)
      BY <1>3
    <3> HIDE DEF old
    <3>2. /\ items \in Seq(1..MaxCalls) /\ Len(old) \in Nat /\ Len(items) = Len(old) + 1
          /\ DOMAIN old = 1..Len(old) /\ DOMAIN items = 1..(Len(old) + 1)
          /\ items[Len(old) + 1] = p.data
          /\ \A k \in 1..Len(old) : items[k] = old[k]
      BY <2>3, <3>1, Appended
    <3> HIDE DEF items
    <3>3. \A k \in DOMAIN old : k \in DOMAIN items /\ items[k] = old[k]
      BY <3>2
    <3>4. Len(old) + 1 \in DOMAIN items
      BY <3>2
    <3>5. items # <<>>
      BY <3>2
    <3>6. Last(items) = p.data
      BY <3>2 DEF Last
    <3> QED
      BY <3>2, <3>3, <3>4, <3>5, <3>6 DEF ToSet
  <2>5. /\ new.items = items /\ new.end = readers[s][r].end
        /\ new.total = readers[s][r].total /\ new.dropped = readers[s][r].dropped
    BY <1>3 DEF Readers
  <2>6. next.index = d.index + 1 /\ next.total = d.total /\ next.reader = r
    BY <1>3 DEF Descriptors, Reader
  <2>7. readers[s][r].end = "open" /\ readers[s][r].total = d.total
    BY DEF Held, Described
  <2>8. s \notin lost => \A i \in 1..arrived :
            IsChunk(wire[i].packet, s) => wire[i].packet.data \in ToSet(old)
    BY DEF Held, Seen
  <2> HIDE DEF old, items, new, next
  <2>9. ASSUME s \notin lost PROVE GapFree(s, new.items)
    <3> SUFFICES ASSUME NEW e \in acked[s], e < p.data PROVE e \in ToSet(items)
      BY <2>4, <2>5 DEF GapFree
    <3>1. PICK i \in DOMAIN wire :
              /\ IsChunk(wire[i].packet, s) /\ wire[i].packet.data = e
              /\ \A j \in DOMAIN wire :
                    IsChunk(wire[j].packet, s) /\ e < wire[j].packet.data => i < j
      BY DEF Flow, AckedInOrder
    <3>2. i < arrived + 1
      BY <1>2, <3>1
    <3>3. i \in Nat \ {0}
      <4>1. wire \in Seq(OnWire)
        BY <1>1 DEF Types, TypeOK
      <4> QED
        BY <4>1, Element
    <3>4. i \in 1..arrived
      BY <1>2, <3>2, <3>3
    <3> QED
      BY <2>4, <2>8, <2>9, <3>1, <3>4
  <2>10. Whole(s, new)
    BY <2>5, <2>7 DEF Whole
  <2>11. r \in DOMAIN readers[s]
    BY <1>3
  <2> HIDE DEF r
  <2>12. NoneLeftOut' /\ AllWhole'
    BY <1>1, <2>2, <2>9, <2>10, <2>11, OneReplaced
  <2>13. /\ open_streams'[s] = next /\ readers'[s][r] = new
         /\ \A t \in Streams : t # s =>
               open_streams'[t] = open_streams[t] /\ readers'[t] = readers[t]
    <3>1. readers'[s][r] = new
      <4>1. readers' = [readers EXCEPT ![s][r] = new]
        BY <2>2
      <4>2. readers'[s] = [readers[s] EXCEPT ![r] = new]
        BY <2>1, <4>1
      <4> QED
        BY <2>11, <4>2
    <3>2. \A t \in Streams : t # s => readers'[t] = readers[t]
      BY <2>1, <2>2
    <3>3. open_streams'[s] = next
      <4>1. s \in DOMAIN open_streams
        BY <2>1
      <4> QED
        BY <2>2, <4>1
    <3>4. \A t \in Streams : t # s => open_streams'[t] = open_streams[t]
      BY <2>1, <2>2
    <3> QED
      BY <3>1, <3>2, <3>3, <3>4
  <2>14. Described'
    <3> SUFFICES ASSUME NEW t \in Streams, open_streams'[t] # NoStream
                 PROVE  /\ readers'[t][open_streams'[t].reader].end = "open"
                        /\ readers'[t][open_streams'[t].reader].total = open_streams'[t].total
                        /\ ~TooLong(open_streams'[t].index, open_streams'[t].total)
      BY DEF Described, Reader, TooLong
    <3>1. CASE t = s
      BY <2>5, <2>6, <2>7, <2>13, <3>1
    <3>2. CASE t # s
      BY <2>13, <3>2 DEF Held, Described, Reader
    <3> QED
      BY <3>1, <3>2
  <2>15. ASSUME s \notin lost, NEW i \in 1..(arrived + 1), IsChunk(wire[i].packet, s)
         PROVE  wire[i].packet.data \in ToSet(items)
    <3>1. CASE i \in 1..arrived
      BY <2>4, <2>8, <2>15, <3>1
    <3>2. CASE i = arrived + 1
      BY <1>2, <2>4, <3>2
    <3> QED
      BY <1>2, <3>1, <3>2
  <2>16. Seen'
    <3>1. wire[arrived + 1].packet.id = s
      BY <1>2
    <3>2. readers'[s][open_streams'[s].reader].items = items
      BY <2>5, <2>6, <2>13
    <3> QED
      BY <1>1, <2>13, <2>15, <3>1, <3>2, OthersSeen
  <2> QED
    BY <2>12, <2>14, <2>16 DEF Held
<1> QED
  BY <1>3, <1>4, <1>5

LEMMA ErrorHeld ==
    ASSUME IInv, Held, NEW s \in Streams, open_streams[s] # NoStream, NEW error,
           error # "clean", close_stream_with_error(s, error),
           Coming.id = s, arrived' = arrived + 1,
           UNCHANGED <<acked, lost, reused, wire>>
    PROVE  Held'
<1>1. /\ open_streams' = [open_streams EXCEPT ![s] = NoStream]
      /\ readers' = Ended(s, error, {})
  BY DEF close_stream_with_error
<1> QED
  BY <1>1, EndedHeld DEF Coming

LEMMA ChunkHeld ==
    ASSUME IInv, Flow, Held, arrived < Len(wire), arrived' = arrived + 1,
           UNCHANGED <<acked, lost, reused, wire>>,
           Coming.type = "chunk", NEW enc \in BOOLEAN, handle_chunk(Coming, enc)
    PROVE  Held'
<1> DEFINE p == Coming
           s == p.id
           d == open_streams[s]
<1>1. p \in Packets
  BY ComingIs DEF IInv
<1>2. s \in Streams /\ IsChunk(p, s)
  BY <1>1, PacketIs DEF IsChunk
<1>3. CASE d = NoStream
  <2>1. UNCHANGED receiver
    BY <1>3 DEF handle_chunk
  <2> QED
    BY <1>2, <1>3, <2>1, IgnoredHeld DEF Coming
<1>4. CASE d # NoStream /\ d.encrypted # enc
  <2>1. close_stream_with_error(s, "EncryptionTypeMismatch")
    BY <1>4 DEF handle_chunk
  <2> QED
    BY <1>2, <1>4, <2>1, ErrorHeld
<1>5. CASE d # NoStream /\ d.encrypted = enc /\ d.index # p.index
  <2>1. close_stream_with_error(s, "MissedChunk")
    BY <1>5 DEF handle_chunk
  <2> QED
    BY <1>2, <1>5, <2>1, ErrorHeld
<1>6. CASE d # NoStream /\ d.encrypted = enc /\ d.index = p.index
  <2>1. IF TooLong(d.index + 1, d.total) THEN close_stream_with_error(s, "LengthExceeded")
                                         ELSE yield_chunk(s, p.data)
    BY <1>6 DEF handle_chunk
  <2>2. CASE TooLong(d.index + 1, d.total)
    BY <1>2, <1>6, <2>1, <2>2, ErrorHeld
  <2>3. CASE ~TooLong(d.index + 1, d.total)
    BY <1>2, <1>6, <2>1, <2>3, YieldedHeld
  <2> QED
    BY <2>2, <2>3
<1> QED
  BY <1>3, <1>4, <1>5, <1>6

LEMMA TrailerHeld ==
    ASSUME IInv, Flow, Held, arrived < Len(wire), arrived' = arrived + 1,
           UNCHANGED <<acked, lost, reused, wire>>,
           Coming.type = "trailer", handle_trailer(Coming)
    PROVE  Held'
<1> DEFINE p == Coming
           s == p.id
           d == open_streams[s]
           how == IF d.total # Undeclared /\ d.index < d.total THEN "Incomplete"
                  ELSE IF p.abnormal THEN "AbnormalEnd" ELSE "clean"
           reader == readers[s][Reader(s)]
<1>1. Types /\ Placed
  BY DEF IInv
<1>2. /\ arrived \in Nat /\ arrived + 1 \in DOMAIN wire /\ p \in Packets
      /\ wire[arrived + 1].packet = p
  BY <1>1, ComingIs DEF Coming
<1>3. s \in Streams
  BY <1>2, PacketIs
<1>4. CASE d = NoStream
  <2>1. UNCHANGED receiver
    BY <1>4 DEF handle_trailer
  <2> QED
    BY <1>2, <1>3, <1>4, <2>1, IgnoredHeld
<1>5. CASE d # NoStream
  <2>1. /\ open_streams' = [open_streams EXCEPT ![s] = NoStream]
        /\ readers' = Ended(s, how, p.owed)
    BY <1>5 DEF handle_trailer
  <2>2. d \in Descriptors /\ d.index = Len(reader.items) /\ reader \in Readers
    BY <1>1, <1>3, <1>5, ReaderIs
  <2>3. reader.total = d.total /\ ~TooLong(d.index, d.total)
    BY <1>3, <1>5 DEF Held, Described
  <2>4. s \notin lost => p.owed \subseteq ToSet(reader.items)
    <3> SUFFICES ASSUME s \notin lost, NEW x \in p.owed PROVE x \in ToSet(reader.items)
      OBVIOUS
    <3>1. PICK i \in DOMAIN wire :
              i < arrived + 1 /\ IsChunk(wire[i].packet, s) /\ wire[i].packet.data = x
      BY <1>2 DEF Flow, OwedBefore
    <3>2. i \in Nat \ {0}
      <4>1. wire \in Seq(OnWire)
        BY <1>1 DEF Types, TypeOK
      <4> QED
        BY <4>1, Element
    <3>3. i \in 1..arrived
      BY <1>2, <3>1, <3>2
    <3> QED
      BY <1>3, <1>5, <3>1, <3>3 DEF Held, Seen
  <2>5. how = "clean" /\ d.total # Undeclared => Len(reader.items) = reader.total
    <3> SUFFICES ASSUME how = "clean", d.total # Undeclared
                 PROVE  Len(reader.items) = reader.total
      OBVIOUS
    <3>1. ~(d.index < d.total) /\ ~(d.index > d.total)
      BY <2>3 DEF TooLong
    <3>2. d.index \in 0..MaxCalls /\ d.total \in Lengths
      BY <2>2 DEF Descriptors
    <3>3. d.index \in Nat
      BY <3>2, BoundsAssumption
    <3>4. d.total \in Nat
      BY <3>2, LengthsAssumption
    <3> QED
      BY <2>2, <2>3, <3>1, <3>3, <3>4
  <2>6. how = "clean" =>
            \/ p.owed \subseteq ToSet(reader.items)
            \/ s \in lost /\ (reader.total = Undeclared \/ s \in reused)
            \/ Len(reader.items) = reader.total
    BY <2>3, <2>4, <2>5
  <2> HIDE DEF how
  <2> QED
    BY <1>2, <1>3, <1>5, <2>1, <2>6, EndedHeld
<1> QED
  BY <1>4, <1>5

LEMMA ArriveHeld == ASSUME IInv, Flow, Held, Arrive PROVE Held'
<1> DEFINE p == Coming
           enc == wire[arrived + 1].encrypted
<1>1. /\ arrived < Len(wire) /\ arrived' = arrived + 1
      /\ CASE p.type = "header" -> handle_header(p, enc)
           [] p.type = "chunk" -> handle_chunk(p, enc)
           [] p.type = "trailer" -> handle_trailer(p)
      /\ UNCHANGED <<acked, reused, wire, lost>>
  BY DEF Arrive, Coming, writer
<1>2. p \in Packets /\ enc \in BOOLEAN
  BY <1>1, ComingIs DEF IInv
<1>3. p.type \in {"header", "chunk", "trailer"}
  BY <1>2, PacketIs
<1> HIDE DEF enc
<1>4. CASE p.type = "header"
  BY <1>1, <1>2, <1>4, HeaderHeld
<1>5. CASE p.type = "chunk"
  BY <1>1, <1>2, <1>5, ChunkHeld
<1>6. CASE p.type = "trailer"
  BY <1>1, <1>2, <1>6, TrailerHeld
<1> QED
  BY <1>3, <1>4, <1>5, <1>6

LEMMA LoseHeld == ASSUME IInv, Held, Lose PROVE Held'
<1> DEFINE s == wire[arrived + 1].packet.id
<1>1. /\ arrived < Len(wire) /\ arrived' = arrived + 1 /\ lost' = lost \cup {s}
      /\ UNCHANGED <<open_streams, readers, acked, reused, wire>>
  BY DEF Lose, writer, receiver
<1>2. arrived \in Nat
  BY DEF IInv, Types, TypeOK
<1>3. Seen'
  <2> SUFFICES ASSUME NEW t \in Streams \ lost, t # s, open_streams[t] # NoStream,
                      NEW i \in 1..(arrived + 1), IsChunk(wire[i].packet, t)
               PROVE  wire[i].packet.data \in ToSet(readers[t][Reader(t)].items)
    BY <1>1 DEF Seen, Reader, IsChunk
  <2>1. i \in 1..arrived
    BY <1>2 DEF IsChunk
  <2> QED
    BY <2>1 DEF Held, Seen
<1>4. Described' /\ NoneLeftOut' /\ AllWhole'
  BY <1>1 DEF Held, Described, NoneLeftOut, AllWhole, GapFree, Whole, Reader
<1> QED
  BY <1>3, <1>4 DEF Held

LEMMA DropReaderHeld == ASSUME IInv, Held, NEW s \in Streams, DropReader(s) PROVE Held'
<1>1. PICK r \in DOMAIN readers[s] :
          /\ readers[s][r].end = "open"
          /\ readers' = [readers EXCEPT ![s][r].dropped = TRUE]
          /\ UNCHANGED <<acked, lost, reused, wire, arrived, open_streams>>
  BY DEF DropReader, writer, network
<1> DEFINE new == [readers[s][r] EXCEPT !.dropped = TRUE]
<1>2. Types /\ readers[s] \in Seq(Readers)
  BY DEF IInv, Types
<1>3. readers[s][r] \in Readers
  BY <1>2
<1>4. /\ new.items = readers[s][r].items /\ new.end = "open"
      /\ new.total = readers[s][r].total
  BY <1>1, <1>3 DEF Readers
<1>5. readers' = [readers EXCEPT ![s][r] = new]
  BY <1>1
<1> HIDE DEF new
<1>6. /\ readers'[s][r] = new
      /\ \A t \in Streams : /\ DOMAIN readers'[t] = DOMAIN readers[t]
                            /\ \A q \in DOMAIN readers[t] :
                                  t # s \/ q # r => readers'[t][q] = readers[t][q]
  BY <1>2, <1>5, OneChanged, ZenonT(40)
<1>7. NoneLeftOut' /\ AllWhole'
  <2>1. s \notin lost => GapFree(s, new.items)
    BY <1>4 DEF Held, NoneLeftOut
  <2>2. Whole(s, new)
    BY <1>4 DEF Whole
  <2>3. UNCHANGED <<acked, lost, reused>>
    BY <1>1
  <2> QED
    BY <1>2, <1>5, <2>1, <2>2, <2>3, OneReplaced
<1>8. \A t \in Streams : open_streams[t] # NoStream => Reader(t) \in DOMAIN readers[t]
  BY DEF IInv, Placed
<1>9. \A t \in Streams : open_streams[t] # NoStream =>
          /\ readers'[t][Reader(t)].items = readers[t][Reader(t)].items
          /\ readers'[t][Reader(t)].end = readers[t][Reader(t)].end
          /\ readers'[t][Reader(t)].total = readers[t][Reader(t)].total
  BY <1>1, <1>4, <1>6, <1>8
<1>10. Described' /\ Seen'
  BY <1>1, <1>9 DEF Held, Described, Seen, Reader
<1> QED
  BY <1>7, <1>10 DEF Held

-----------------------------------------------------------------------------
(* Every step, once more *)

\* A chunk whose write returns Ok now is the last one of its stream.
LEMMA AnsweredAcks ==
    ASSUME IInv, Flow, NEW ok \in BOOLEAN, packets # <<>>, Respond(ok)
    PROVE  /\ reused \subseteq reused'
           /\ \A s \in Streams : \A d \in acked'[s] :
                 \/ d \in acked[s]
                 \/ d \in Nat /\ \A q \in Pipe : IsChunk(q, s) => ~(d < q.data)
<1> DEFINE p == Taken.packet
           s == p.id
<1>1. packets' = Tail(packets)
  BY DEF Respond
<1>2. p \in Packets /\ Taken = packets[1] /\ 1 \in DOMAIN packets
  BY <1>1, QueueTaken
<1>3. /\ Types /\ acked \in [Streams -> SUBSET (1..MaxCalls)]
      /\ calls \in [Streams -> 0..MaxCalls]
  BY DEF IInv, Types, TypeOK
<1>4. s \in Streams
  BY <1>2, PacketIs
<1>5. reused \subseteq reused'
  BY DEF Respond, Answered, writer
<1>6. CASE ~(Taken.waits /\ p.type = "chunk" /\ ok)
  <2>1. acked' = acked
    BY <1>3, <1>6 DEF Respond, Answered, writer
  <2> QED
    BY <1>5, <2>1
<1>7. CASE Taken.waits /\ p.type = "chunk" /\ ok
  <2>1. acked' = [acked EXCEPT ![s] = @ \cup {p.data}]
    BY <1>7 DEF Respond, Answered
  <2>2. p.data = calls[s]
    BY <1>2, <1>7 DEF Flow, Latest
  <2> HIDE DEF p, s
  <2>3. \A q \in Pipe : IsChunk(q, s) => ~(calls[s] < q.data)
    <3> SUFFICES ASSUME NEW q \in Pipe, IsChunk(q, s) PROVE ~(calls[s] < q.data)
      OBVIOUS
    <3>1. q.data <= calls[s]
      BY <1>4 DEF IInv, Numbered
    <3>2. q.data \in Nat /\ calls[s] \in Nat
      BY <1>3, <1>4, PipeTyped, PacketIs, BoundsAssumption DEF IsChunk
    <3> QED
      BY <3>1, <3>2
  <2>4. calls[s] \in Nat
    BY <1>3, <1>4, BoundsAssumption
  <2>5. \A t \in Streams : t # s => acked'[t] = acked[t]
    BY <1>3, <2>1
  <2>6. acked'[s] = acked[s] \cup {calls[s]}
    BY <1>3, <1>4, <2>1, <2>2
  <2> QED
    BY <1>5, <2>3, <2>4, <2>5, <2>6
<1> QED
  BY <1>6, <1>7

\* A step of the sender.
LEMMA SenderHeld ==
    ASSUME IInv, Held, UNCHANGED <<acked, receiver, wire, arrived, lost>>,
           reused \subseteq reused'
    PROVE  Held'
<1>1. arrived \in Nat
  BY DEF IInv, Types, TypeOK
<1>2. arrived' \in 0..arrived
  BY <1>1
<1> QED
  BY <1>2, HeldStays

LEMMA GrownHeld ==
    ASSUME IInv, Held, NEW e \in OnWire, wire' = Append(wire, e),
           UNCHANGED <<receiver, arrived, lost>>, reused \subseteq reused',
           \A s \in Streams : \A d \in acked'[s] :
              \/ d \in acked[s]
              \/ d \in Nat /\ \A q \in Pipe : IsChunk(q, s) => ~(d < q.data)
    PROVE  Held'
<1>1. /\ wire \in Seq(OnWire) /\ arrived \in 0..Len(wire)
  BY DEF IInv, Types, TypeOK
<1>2. /\ Len(wire) \in Nat /\ DOMAIN wire = 1..Len(wire)
  BY <1>1
<1>3. \A i \in DOMAIN wire : wire'[i] = wire[i]
  BY <1>1, WireIs
<1>4. \A i \in 1..arrived : wire'[i] = wire[i]
  BY <1>1, <1>2, <1>3
<1>5. arrived' \in 0..arrived
  BY <1>1, <1>2
<1> QED
  BY <1>4, <1>5, HeldStays

LEMMA PublishedHeld == ASSUME IInv, Flow, Held, Published PROVE Held'
<1>1. /\ packets # <<>> /\ Respond(TRUE) /\ wire' = Append(wire, OnTheWire(Taken.packet))
      /\ packets' = Tail(packets)
      /\ UNCHANGED <<receiver, arrived, lost>>
  BY DEF Published, Respond
<1>2. OnTheWire(Taken.packet) \in OnWire
  <2>1. Taken.packet \in Packets
    BY <1>1, QueueTaken
  <2>2. encrypted \in BOOLEAN
    BY DEF IInv, Types, TypeOK
  <2> QED
    BY <2>1, <2>2, OnTheWireIs
<1>3. /\ reused \subseteq reused'
      /\ \A s \in Streams : \A d \in acked'[s] :
            \/ d \in acked[s]
            \/ d \in Nat /\ \A q \in Pipe : IsChunk(q, s) => ~(d < q.data)
  BY <1>1, AnsweredAcks, TRUE \in BOOLEAN
<1> QED
  BY <1>1, <1>2, <1>3, GrownHeld

LEMMA PublishFailsHeld == ASSUME IInv, Flow, Held, PublishFails PROVE Held'
<1>1. /\ packets # <<>> /\ Respond(FALSE) /\ UNCHANGED <<receiver, arrived, lost, wire>>
  BY DEF PublishFails
<1>2. acked' = acked
  BY <1>1 DEF IInv, Types, TypeOK, Respond, Answered, writer
<1>3. reused \subseteq reused'
  BY <1>1, AnsweredAcks, FALSE \in BOOLEAN
<1> QED
  BY <1>1, <1>2, <1>3, SenderHeld

LEMMA RetriedHeld == ASSUME IInv, Held, Retried PROVE Held'
<1>1. /\ retry # <<>> /\ wire' = Append(wire, Head(retry))
      /\ UNCHANGED <<acked, reused, receiver, arrived, lost>>
  BY DEF Retried, writer
<1>2. Head(retry) \in OnWire
  BY <1>1, Shortened DEF IInv, Types, TypeOK
<1> QED
  BY <1>1, <1>2, GrownHeld

LEMMA RepeatHeld == ASSUME IInv, Held, Repeat PROVE Held'
<1>1. /\ arrived' \in 0..(arrived - 1) /\ UNCHANGED <<acked, reused, receiver, wire, lost>>
  BY DEF Repeat, writer
<1>2. arrived \in Nat
  BY DEF IInv, Types, TypeOK
<1>3. arrived' \in 0..arrived
  BY <1>1, <1>2
<1> QED
  BY <1>1, <1>3, HeldStays

\* The types and the numbers, what is on the wire, and what the readers hold.
HeldInv == IInv /\ Flow /\ Held

LEMMA InitHeld == Init => Flow /\ Held
<1> SUFFICES ASSUME Init PROVE Flow /\ Held
  OBVIOUS
<1>1. Pipe = {} /\ Queued = {} /\ Kept = {}
  BY DEF Init, Pipe, OnTheWay, Queued, Kept
<1>2. Flow
  BY <1>1 DEF Init, Flow, Latest, Opening, Opened, HeaderFirst, AckedInOrder, OwedBefore
<1>3. Held
  BY DEF Init, Held, Described, Seen, NoneLeftOut, AllWhole
<1> QED
  BY <1>2, <1>3

LEMMA StepFlow == ASSUME IInv, Flow, [Next]_vars PROVE Flow'
<1>1. ASSUME NEW s \in Streams,
             \/ Open(s) \/ write_chunk(s) \/ close(s)
             \/ Cancel(s) \/ Drop(s) \/ DropTask(s)
      PROVE  Flow'
  BY <1>1, OpenFlow, WriteFlow, CloseFlow, CancelFlow, DropFlow, DropTaskFlow
<1>2. ASSUME NEW s \in Streams, DropReader(s) PROVE Flow'
  BY <1>2, FlowStays DEF DropReader, writer, outgoing, network
<1>3. CASE Published \/ PublishFails \/ RoomCloses \/ Retried
  BY <1>3, PublishedFlow, PublishFailsFlow, RoomClosesFlow, RetriedFlow
<1>4. CASE SwitchEncryption \/ Lose \/ Repeat \/ Arrive
  BY <1>4, FlowStays DEF SwitchEncryption, Lose, Repeat, Arrive, writer, outgoing
<1>5. CASE UNCHANGED vars
  BY <1>5, FlowStays DEF vars, writer, outgoing, network
<1> QED
  BY <1>1, <1>2, <1>3, <1>4, <1>5 DEF Next

LEMMA StepHeld == ASSUME IInv, Flow, Held, [Next]_vars PROVE Held'
<1>1. ASSUME NEW s \in Streams,
             \/ Open(s) \/ write_chunk(s) \/ close(s)
             \/ Cancel(s) \/ Drop(s) \/ DropTask(s)
      PROVE  Held'
  <2>1. UNCHANGED <<acked, receiver, wire, arrived, lost>> /\ reused \subseteq reused'
    BY <1>1 DEF Open, write_chunk, close, Cancel, Drop, DropTask, network
  <2> QED
    BY <2>1, SenderHeld
<1>2. ASSUME NEW s \in Streams, DropReader(s) PROVE Held'
  BY <1>2, DropReaderHeld
<1>3. CASE Published \/ PublishFails \/ Retried
  BY <1>3, PublishedHeld, PublishFailsHeld, RetriedHeld
<1>4. CASE RoomCloses \/ SwitchEncryption \/ UNCHANGED vars
  <2>1. UNCHANGED <<acked, receiver, wire, arrived, lost>> /\ reused \subseteq reused'
    BY <1>4 DEF RoomCloses, SwitchEncryption, vars, network, writer
  <2> QED
    BY <2>1, SenderHeld
<1>5. CASE Lose \/ Repeat
  BY <1>5, LoseHeld, RepeatHeld
<1>6. CASE Arrive
  BY <1>6, ArriveHeld
<1> QED
  BY <1>1, <1>2, <1>3, <1>4, <1>5, <1>6 DEF Next

\* What is on the wire and what the readers hold is inductive together with IInv.
THEOREM HeldInvariant == Safe => []HeldInv
<1>1. Init => HeldInv
  BY InitInv, InitHeld DEF HeldInv
<1>2. HeldInv /\ [Next]_vars => HeldInv'
  BY StepInv, StepFlow, StepHeld DEF HeldInv
<1> QED
  BY <1>1, <1>2, PTL DEF Safe

\* A reader gets its chunks in order and without gaps: a gap takes an index that a
\* failed or cancelled write used and the next one used again, and a lost packet.
THEOREM ReadersGetAll == Safe => []InOrderWithoutGaps
<1>1. HeldInv => \A s \in Streams : s \notin lost => WithoutGaps(s)
  BY DEF HeldInv, Held, NoneLeftOut, GapFree, WithoutGaps
<1>2. InOrder /\ (\A s \in Streams \ reused : WithoutGaps(s))
          /\ (\A s \in Streams : s \notin lost => WithoutGaps(s)) => InOrderWithoutGaps
  BY DEF InOrderWithoutGaps
<1> QED
  BY <1>1, <1>2, HeldInvariant, ReadersGetOrder, NoGapsUnlessReused, PTL

\* A reader whose stream ended without an error holds what had been written with Ok
\* when the stream was closed, or as much as the header declared.
THEOREM CleanEndsAreWhole == Safe => []CleanEndIsWhole
<1>1. HeldInv => CleanEndIsWhole
  BY DEF HeldInv, Held, AllWhole, Whole, CleanEndIsWhole
<1> QED
  BY <1>1, HeldInvariant, PTL

=============================================================================
