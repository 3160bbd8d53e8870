---------------------------- MODULE SignallingProofs ----------------------------
(***************************************************************************)
(* Proofs about the way to the server, for constants of any size.          *)
(*                                                                         *)
(* SignalClient: whoever sends does so on the current stream, no message   *)
(* reaches the server twice, and without a close() no signal_task closes   *)
(* the stream of another.                                                  *)
(*                                                                         *)
(* PublisherNegotiation, which sends its offers there: one negotiation     *)
(* loop runs, and an offer that was put off is owed an answer.             *)
(***************************************************************************)
EXTENDS SignalClient, PublisherNegotiation, TLAPS

Entries == Procs \X {"r", "w"}

\* Reads and Writes, of any state of the lock.
ReadsIn(lock, p) == \E i \in DOMAIN lock :
                        /\ lock[i] = <<p, "r">>
                        /\ \A j \in 1..(i - 1) : lock[j][2] = "r"
WritesIn(lock, p) == lock # <<>> /\ lock[1] = <<p, "w">>

\* Nobody but q loses the lock between two of its states.
Keeps(lock, next, q) ==
    \A p \in Procs \ {q} : /\ ReadsIn(lock, p) => ReadsIn(next, p)
                           /\ WritesIn(lock, p) => WritesIn(next, p)

-----------------------------------------------------------------------------
(* The locks *)

LEMMA Names ==
    /\ NumStreams \in Nat \ {0} /\ Restart \in Nat /\ Closer \in Nat /\ Restart # Closer
    /\ Restart \notin Callers /\ Closer \notin Callers
    /\ Callers \subseteq Procs /\ Streams \subseteq Callers /\ Streams \subseteq Nat \ {0}
    /\ Restart \in Procs /\ Closer \in Procs
    /\ NoStream \notin Streams /\ Streams \cup {NoStream} = 0..NumStreams
    /\ Procs = Callers \cup {Restart, Closer}
BY SendersAssumption, StreamsAssumption DEF Callers, Restart, Closer, Procs, Streams, NoStream

LEMMA Removal ==
    ASSUME NEW S, NEW s \in Seq(S), NEW i \in DOMAIN s
    PROVE  /\ RemoveAt(s, i) \in Seq(S)
           /\ Len(s) \in Nat \ {0} /\ i \in 1..Len(s)
           /\ DOMAIN RemoveAt(s, i) = 1..(Len(s) - 1)
           /\ \A j \in 1..(Len(s) - 1) :
                  RemoveAt(s, i)[j] = IF j < i THEN s[j] ELSE s[j + 1]
<1>1. Len(s) \in Nat \ {0} /\ i \in 1..Len(s)
  OBVIOUS
<1> DEFINE a == SubSeq(s, 1, i - 1)
           b == SubSeq(s, i + 1, Len(s))
<1>2. a \in Seq(S) /\ Len(a) = i - 1 /\ \A j \in 1..(i - 1) : a[j] = s[j]
  BY <1>1
<1>3. b \in Seq(S) /\ Len(b) = Len(s) - i /\ \A j \in 1..(Len(s) - i) : b[j] = s[j + i]
  BY <1>1
<1>4. RemoveAt(s, i) = a \o b
  BY DEF RemoveAt
<1> HIDE DEF a, b
<1>5. /\ a \o b \in Seq(S) /\ Len(a \o b) = Len(s) - 1
      /\ DOMAIN (a \o b) = 1..(Len(s) - 1)
  BY <1>1, <1>2, <1>3
<1>6. ASSUME NEW j \in 1..(Len(s) - 1)
      PROVE  (a \o b)[j] = IF j < i THEN s[j] ELSE s[j + 1]
  <2>1. CASE j < i
    BY <1>1, <1>2, <1>3, <2>1
  <2>2. CASE ~(j < i)
    <3>1. (a \o b)[j] = b[j - (i - 1)] /\ j - (i - 1) \in 1..(Len(s) - i)
      BY <1>1, <1>2, <1>3, <2>2
    <3> QED
      BY <1>1, <1>3, <2>2, <3>1
  <2> QED
    BY <2>1, <2>2
<1> QED
  BY <1>1, <1>4, <1>5, <1>6

LEMMA Joined ==
    ASSUME NEW lock \in Seq(Entries), NEW e \in Entries
    PROVE  /\ Append(lock, e) \in Seq(Entries)
           /\ \A q : Keeps(lock, Append(lock, e), q)
<1>1. /\ Append(lock, e) \in Seq(Entries) /\ Len(lock) \in Nat
      /\ DOMAIN lock = 1..Len(lock) /\ DOMAIN Append(lock, e) = 1..(Len(lock) + 1)
      /\ \A i \in 1..Len(lock) : Append(lock, e)[i] = lock[i]
  OBVIOUS
<1> DEFINE next == Append(lock, e)
<1> HIDE DEF next
<1>2. ASSUME NEW p, ReadsIn(lock, p) PROVE ReadsIn(next, p)
  <2>1. PICK i \in DOMAIN lock : /\ lock[i] = <<p, "r">>
                                 /\ \A j \in 1..(i - 1) : lock[j][2] = "r"
    BY <1>2 DEF ReadsIn
  <2>2. i \in DOMAIN next /\ next[i] = <<p, "r">> /\ \A j \in 1..(i - 1) : next[j][2] = "r"
    BY <1>1, <2>1 DEF next
  <2> QED
    BY <2>2 DEF ReadsIn
<1>3. ASSUME NEW p, WritesIn(lock, p) PROVE WritesIn(next, p)
  <2>1. 1 \in DOMAIN lock
    BY <1>1, <1>3 DEF WritesIn
  <2> QED
    BY <1>1, <1>3, <2>1 DEF WritesIn, next
<1> QED
  BY <1>1, <1>2, <1>3 DEF Keeps, next

LEMMA Left ==
    ASSUME NEW lock \in Seq(Entries), NEW q, NEW i \in DOMAIN lock, lock[i][1] = q
    PROVE  RemoveAt(lock, i) \in Seq(Entries) /\ Keeps(lock, RemoveAt(lock, i), q)
<1> DEFINE next == RemoveAt(lock, i)
<1>1. /\ next \in Seq(Entries) /\ Len(lock) \in Nat \ {0} /\ i \in 1..Len(lock)
      /\ DOMAIN lock = 1..Len(lock) /\ DOMAIN next = 1..(Len(lock) - 1)
      /\ \A j \in 1..(Len(lock) - 1) : next[j] = IF j < i THEN lock[j] ELSE lock[j + 1]
  BY Removal
<1> HIDE DEF next
<1>2. ASSUME NEW p, p # q, ReadsIn(lock, p) PROVE ReadsIn(next, p)
  <2>1. PICK k \in DOMAIN lock : /\ lock[k] = <<p, "r">>
                                 /\ \A j \in 1..(k - 1) : lock[j][2] = "r"
    BY <1>2 DEF ReadsIn
  <2>2. k # i /\ k \in 1..Len(lock)
    BY <1>1, <1>2, <2>1
  <2>3. CASE k < i
    <3>1. k \in DOMAIN next /\ next[k] = <<p, "r">> /\ \A j \in 1..(k - 1) : next[j][2] = "r"
      BY <1>1, <2>1, <2>2, <2>3
    <3> QED
      BY <3>1 DEF ReadsIn
  <2>4. CASE k > i
    <3>1. k - 1 \in DOMAIN next /\ next[k - 1] = <<p, "r">>
      BY <1>1, <2>1, <2>2, <2>4
    <3>2. \A j \in 1..((k - 1) - 1) : next[j][2] = "r"
      BY <1>1, <2>1, <2>2, <2>4
    <3> QED
      BY <3>1, <3>2 DEF ReadsIn
  <2> QED
    BY <1>1, <2>2, <2>3, <2>4
<1>3. ASSUME NEW p, p # q, WritesIn(lock, p) PROVE WritesIn(next, p)
  <2>1. lock[1] = <<p, "w">> /\ i # 1
    BY <1>3 DEF WritesIn
  <2>2. 1 \in DOMAIN next /\ next[1] = lock[1]
    BY <1>1, <2>1
  <2>3. next # <<>>
    BY <2>2
  <2> QED
    BY <2>1, <2>2, <2>3 DEF WritesIn
<1> QED
  BY <1>1, <1>2, <1>3 DEF Keeps, next

LEMMA AfterRelease ==
    ASSUME stream_lock \in Seq(Entries), NEW q
    PROVE  Released(q) \in Seq(Entries) /\ Keeps(stream_lock, Released(q), q)
<1> DEFINE mine == {i \in DOMAIN stream_lock : stream_lock[i][1] = q}
<1>1. CASE mine = {}
  BY <1>1 DEF Released, Keeps
<1>2. CASE mine # {}
  <2>1. PICK i \in mine : i = CHOOSE j \in mine : TRUE
    BY <1>2
  <2>2. Released(q) = RemoveAt(stream_lock, i)
    BY <1>2, <2>1 DEF Released
  <2> QED
    BY <2>1, <2>2, Left
<1> QED
  BY <1>1, <1>2

-----------------------------------------------------------------------------
(* The invariants *)

\* Who uses the stream reads it, the restart connects under the write lock, and a flush
\* holds the queue.
LockInv ==
    /\ \A p \in Callers \cup {Restart} :
          pc[p] \in {"sending", "requeue", "flush_send"} => Reads(p)
    /\ pc[Restart] = "connecting" => Writes(Restart)
    /\ \A p \in Procs : pc[p] \in {"flush_read", "flush_send"} => HasQueue(p)

\* The stream that is used is the one behind the lock.
CurrentInv ==
    \A p \in Callers \cup {Restart} :
        pc[p] \in {"sending", "requeue", "flush_send"} => on[p] = stream /\ stream # NoStream

\* The write_task that runs is that of the current stream; from its close to the end of
\* its connection attempt a restart finds none.
Streamless == {"r_handle", "r_join", "r_joined", "r_close_again", "r_closed", "r_connect",
               "connecting"}
OpenInv ==
    /\ \A g \in Streams : writer[g] = "up" => g = stream
    /\ pc[Restart] \in Streamless => stream = NoStream

\* While nobody closes the client: the only signal_task that runs is in the handle, or it
\* is the one that the restart awaits.
Alive(g) == pc[g] \notin {"none", "done"}
Flushing == {"flush", "flush_read", "flush_send", "spawn"}
NoTask == {"r_joined", "r_close_again", "r_closed", "r_connect", "connecting"} \cup Flushing
TaskInv ==
    pc[Closer] = "idle" =>
        /\ \A g \in Streams : Alive(g) =>
              /\ stream \in {g, NoStream}
              /\ handle = g \/ (pc[Restart] = "r_join" /\ on[Restart] = g)
              /\ pc[Restart] \notin NoTask
        /\ pc[Restart] = "r_join" => handle = NoStream
        /\ pc[Restart] \in Flushing => stream \in {on[Restart], NoStream}

\* A message is in one place: with its sender, in the queue, or at the server.
InHand == {"flush", "flush_read", "flush_send", "read", "sending", "requeue",
           "queue_message"}
Elements(s) == {s[i] : i \in DOMAIN s}
Distinct(s) == \A i, j \in DOMAIN s : s[i] = s[j] => i = j
Got == Elements(received)
Kept == Elements(queue)
MessagesInv ==
    /\ Distinct(received) /\ Distinct(queue)
    /\ Got \cap Kept = {}
    /\ Got \cup Kept \subseteq sent
    /\ \A p \in Callers : pc[p] \in InHand => p \in sent /\ p \notin Got \cup Kept

IInv == TypeOK /\ LockInv /\ CurrentInv /\ OpenInv /\ TaskInv /\ MessagesInv

\* The calls of close, and where each of them goes on.
Calling(p, from, to) ==
    \/ p = Closer /\ from = "idle" /\ to = "close"
    \/ p \in Streams /\ from = "idle" /\ to = "task_close"
    \/ p = Restart /\ from = "idle" /\ to = "r_close"
    \/ p = Restart /\ from = "r_joined" /\ to = "r_close_again"
    \/ p = Restart /\ from = "r_closed" /\ to = "r_connect"
Closing(p, from, to) ==
    \/ p = Closer /\ from = "close" /\ to = "take_handle"
    \/ p \in Streams /\ from = "task_close" /\ to = "done"
    \/ p = Restart /\ from = "r_close" /\ to = "r_handle"
    \/ p = Restart /\ from = "r_close_again" /\ to = "r_closed"
Taking(p, from, to) ==
    \/ p = Closer /\ from = "take_handle" /\ to = "join"
    \/ p = Restart /\ from = "r_handle" /\ to = "r_join"
Joining(p, from, to) ==
    \/ p = Closer /\ from = "join" /\ to = "done"
    \/ p = Restart /\ from = "r_join" /\ to = "r_joined"

Sending(p) == SendCall(p) \/ ReadStream(p) \/ SendOk(p) \/ SendFailed(p) \/ queue_message(p)
Flush(p) == FlushLocked(p) \/ FlushRead(p) \/ FlushSend(p) \/ FlushDone(p)
CloseStep(p, from, to) ==
    \/ Calling(p, from, to) /\ CloseCall(p, from, to)
    \/ Closing(p, from, to) /\ CloseStream(p, from, to)
    \/ Taking(p, from, to) /\ TakeHandle(p, from, to)
    \/ Joining(p, from, to) /\ TaskJoined(p, from, to)

LEMMA NextSplits ==
    Next => \/ \E p \in Callers : Sending(p)
            \/ \E p \in Callers \cup {Restart} : Flush(p)
            \/ \E p \in Procs : \E from, to \in Points : CloseStep(p, from, to)
            \/ \E g \in Streams : Reconnected(g) \/ WsBreaks(g) \/ WriterEnds(g)
            \/ Reconnecting \/ RestartFailed \/ RestartDone
<1> SUFFICES ASSUME Next
             PROVE  \/ \E p \in Callers : Sending(p)
                    \/ \E p \in Callers \cup {Restart} : Flush(p)
                    \/ \E p \in Procs : \E from, to \in Points : CloseStep(p, from, to)
                    \/ \E g \in Streams : Reconnected(g) \/ WsBreaks(g) \/ WriterEnds(g)
                    \/ Reconnecting \/ RestartFailed \/ RestartDone
  OBVIOUS
<1> USE Names
<1>1. \A p \in Callers \cup {Restart} : SendStep(p) =>
          Flush(p) \/ (p \in Callers /\ Sending(p))
  BY DEF SendStep, Flush, Sending
<1>2. CASE Close
  <2>1. CloseStep(Closer, "idle", "close") \/ CloseStep(Closer, "close", "take_handle")
        \/ CloseStep(Closer, "take_handle", "join") \/ CloseStep(Closer, "join", "done")
    BY <1>2 DEF Close, CloseStep, Calling, Closing, Taking, Joining
  <2> QED
    BY <2>1 DEF Points
<1>3. ASSUME NEW g \in Streams, TaskStep(g) \/ PingTimeout(g)
      PROVE  \E p \in Procs : \E from, to \in Points : CloseStep(p, from, to)
  <2>1. CloseStep(g, "idle", "task_close") \/ CloseStep(g, "task_close", "done")
    BY <1>3 DEF TaskStep, EventsEnd, TaskCloses, PingTimeout, CloseStep, Calling, Closing
  <2> QED
    BY <2>1 DEF Points
<1>4. CASE RestartCall
  <2>1. CloseStep(Restart, "idle", "r_close")
    BY <1>4 DEF RestartCall, CloseStep, Calling
  <2> QED
    BY <2>1 DEF Points
<1>5. CASE RestartStep
  <2>1. \/ CloseStep(Restart, "r_close", "r_handle")
        \/ CloseStep(Restart, "r_handle", "r_join")
        \/ CloseStep(Restart, "r_join", "r_joined")
        \/ CloseStep(Restart, "r_joined", "r_close_again")
        \/ CloseStep(Restart, "r_close_again", "r_closed")
        \/ CloseStep(Restart, "r_closed", "r_connect")
        \/ Reconnecting \/ (\E g \in Streams : Reconnected(g))
        \/ RestartFailed \/ RestartDone
    BY <1>5 DEF RestartStep, CloseStep, Calling, Closing, Taking, Joining
  <2> QED
    BY <2>1 DEF Points
<1>6. CASE \E p \in Callers : SendCall(p)
  BY <1>6 DEF Sending
<1> QED
  BY <1>1, <1>2, <1>3, <1>4, <1>5, <1>6 DEF Next, Resuming

LEMMA InitInv == Init => IInv
<1> SUFFICES ASSUME Init PROVE IInv
  OBVIOUS
<1> USE Names, SendersAssumption DEF Init
<1>1. TypeOK
  <2>1. /\ stream_lock \in Seq(Procs \X {"r", "w"}) /\ queue \in Seq(Callers)
        /\ queue_lock \in Seq(Procs) /\ received \in Seq(Callers)
        /\ broken \subseteq Streams /\ sent \subseteq Callers
    OBVIOUS
  <2>4. stream \in 0..NumStreams /\ handle \in 0..NumStreams
    OBVIOUS
  <2>5. reconnecting \in BOOLEAN
    OBVIOUS
  <2>2. writer \in [Streams -> {"none", "up", "ended"}] /\ pc \in [Procs -> Points]
    BY DEF Points
  <2>3. on \in [Procs -> 0..NumStreams]
    BY DEF NoStream
  <2> QED
    BY <2>1, <2>2, <2>3, <2>4, <2>5 DEF TypeOK
<1>2. \A p \in Procs : pc[p] \in {"none", "idle"}
  OBVIOUS
<1>3. LockInv /\ CurrentInv /\ OpenInv
  BY <1>2 DEF LockInv, CurrentInv, OpenInv, Streamless
<1>4. TaskInv
  BY <1>2 DEF TaskInv, Alive, NoTask, Flushing, NoStream
<1>5. Got = {} /\ Kept = {}
  BY DEF Got, Kept, Elements
<1>6. MessagesInv
  BY <1>2, <1>5 DEF MessagesInv, InHand, Distinct
<1> QED
  BY <1>1, <1>3, <1>4, <1>6 DEF IInv

-----------------------------------------------------------------------------
(* What a step of a process does to the locks *)

\* p joins or leaves a lock, or both.
Moves(p) ==
    /\ stream_lock' \in {stream_lock, Append(stream_lock, <<p, "r">>),
                         Append(stream_lock, <<p, "w">>), Released(p),
                         Append(Released(p), <<p, "r">>)}
    /\ \/ queue_lock' \in {queue_lock, Append(queue_lock, p)}
       \/ HasQueue(p) /\ queue_lock' = Tail(queue_lock)

LEMMA Moved ==
    ASSUME TypeOK, NEW p \in Procs, Moves(p)
    PROVE  /\ stream_lock' \in Seq(Entries) /\ Keeps(stream_lock, stream_lock', p)
           /\ queue_lock' \in Seq(Procs)
           /\ \A q \in Procs \ {p} : HasQueue(q) => HasQueue(q)'
<1>1. stream_lock \in Seq(Entries) /\ queue_lock \in Seq(Procs)
  BY DEF TypeOK, Entries
<1>2. <<p, "r">> \in Entries /\ <<p, "w">> \in Entries
  BY DEF Entries
<1>3. Released(p) \in Seq(Entries) /\ Keeps(stream_lock, Released(p), p)
  BY <1>1, AfterRelease
<1>4. stream_lock' \in Seq(Entries) /\ Keeps(stream_lock, stream_lock', p)
  <2>1. CASE stream_lock' = stream_lock
    BY <1>1, <2>1 DEF Keeps
  <2>2. CASE stream_lock' = Append(stream_lock, <<p, "r">>)
    BY <1>1, <1>2, <2>2, Joined
  <2>3. CASE stream_lock' = Append(stream_lock, <<p, "w">>)
    BY <1>1, <1>2, <2>3, Joined
  <2>4. CASE stream_lock' = Released(p)
    BY <1>3, <2>4
  <2>5. CASE stream_lock' = Append(Released(p), <<p, "r">>)
    <3>1. stream_lock' \in Seq(Entries) /\ Keeps(Released(p), stream_lock', p)
      BY <1>2, <1>3, <2>5, Joined
    <3> QED
      BY <1>3, <3>1 DEF Keeps
  <2> QED
    BY <2>1, <2>2, <2>3, <2>4, <2>5 DEF Moves
<1>5. queue_lock' \in Seq(Procs) /\ \A q \in Procs \ {p} : HasQueue(q) => HasQueue(q)'
  <2>1. CASE queue_lock' = queue_lock
    BY <1>1, <2>1 DEF HasQueue
  <2>2. CASE queue_lock' = Append(queue_lock, p)
    BY <1>1, <2>2 DEF HasQueue
  <2>3. CASE HasQueue(p) /\ queue_lock' = Tail(queue_lock)
    BY <1>1, <2>3 DEF HasQueue
  <2> QED
    BY <2>1, <2>2, <2>3 DEF Moves
<1> QED
  BY <1>4, <1>5

\* The same in the words of the specification.
LEMMA LocksKept ==
    ASSUME TypeOK, NEW p \in Procs, Moves(p)
    PROVE  \A q \in Procs \ {p} : /\ Reads(q) => Reads(q)'
                                  /\ Writes(q) => Writes(q)'
                                  /\ HasQueue(q) => HasQueue(q)'
<1>1. /\ stream_lock' \in Seq(Entries) /\ Keeps(stream_lock, stream_lock', p)
      /\ \A q \in Procs \ {p} : HasQueue(q) => HasQueue(q)'
  BY Moved
<1>2. stream_lock \in Seq(Entries)
  BY DEF TypeOK, Entries
<1>3. \A q : (Writes(q) <=> WritesIn(stream_lock, q))
             /\ (Writes(q)' <=> WritesIn(stream_lock', q))
  BY <1>1, <1>2 DEF Writes, WritesIn
<1>4. \A q : (Reads(q) <=> ReadsIn(stream_lock, q))
             /\ (Reads(q)' <=> ReadsIn(stream_lock', q))
  BY DEF Reads, ReadsIn
<1> QED
  BY <1>1, <1>3, <1>4 DEF Keeps

\* A reader keeps every writer out.
LEMMA Exclusive ==
    ASSUME TypeOK, NEW p, NEW q, Reads(p), Writes(q) PROVE FALSE
<1>1. stream_lock \in Seq(Entries) /\ stream_lock[1] = <<q, "w">>
  BY DEF TypeOK, Entries, Writes
<1>2. PICK i \in DOMAIN stream_lock : /\ stream_lock[i] = <<p, "r">>
                                      /\ \A j \in 1..(i - 1) : stream_lock[j][2] = "r"
  BY DEF Reads
<1>3. i \in Nat \ {0}
  BY <1>1, <1>2
<1>4. CASE i = 1
  BY <1>1, <1>2, <1>4
<1>5. CASE i # 1
  <2>1. 1 \in 1..(i - 1)
    BY <1>3, <1>5
  <2> QED
    BY <1>1, <1>2, <2>1
<1> QED
  BY <1>4, <1>5

LEMMA SendingMoves == ASSUME IInv, NEW p \in Callers, Sending(p) PROVE Moves(p)
<1> USE DEF Moves
<1>1. CASE SendCall(p)
  BY <1>1 DEF SendCall, AwaitQueue
<1>2. CASE ReadStream(p)
  BY <1>2 DEF ReadStream, Release
<1>3. CASE SendOk(p)
  BY <1>3 DEF SendOk, Release
<1>4. CASE SendFailed(p)
  BY <1>4 DEF SendFailed, Release, AwaitQueue
<1>5. CASE queue_message(p)
  BY <1>5 DEF queue_message, Release, ReleaseQueue
<1> QED
  BY <1>1, <1>2, <1>3, <1>4, <1>5 DEF Sending

LEMMA FlushMoves == ASSUME IInv, NEW p \in Callers \cup {Restart}, Flush(p) PROVE Moves(p)
<1> USE Names DEF Moves, AfterFlush, Release, ReleaseQueue
<1>1. CASE FlushLocked(p)
  BY <1>1 DEF FlushLocked, Await
<1>2. CASE FlushRead(p)
  <2>1. HasQueue(p)
    BY <1>2 DEF FlushRead, IInv, LockInv
  <2> QED
    BY <1>2, <2>1 DEF FlushRead, lockVars
<1>3. CASE FlushSend(p)
  BY <1>3 DEF FlushSend, lockVars
<1>4. CASE FlushDone(p)
  <2>1. HasQueue(p)
    BY <1>4 DEF FlushDone, IInv, LockInv
  <2> QED
    BY <1>4, <2>1 DEF FlushDone
<1> QED
  BY <1>1, <1>2, <1>3, <1>4 DEF Flush

LEMMA ClosingMoves ==
    ASSUME NEW p \in Procs, NEW from, NEW to, CloseStep(p, from, to) PROVE Moves(p)
<1> USE DEF Moves
<1>1. CASE CloseCall(p, from, to)
  BY <1>1 DEF CloseCall, Await
<1>2. CASE CloseStream(p, from, to)
  BY <1>2 DEF CloseStream, Release
<1>3. CASE TakeHandle(p, from, to) \/ TaskJoined(p, from, to)
  BY <1>3 DEF TakeHandle, TaskJoined, lockVars
<1> QED
  BY <1>1, <1>2, <1>3 DEF CloseStep

LEMMA RestartMoves ==
    ASSUME (\E g \in Streams : Reconnected(g) \/ WsBreaks(g) \/ WriterEnds(g))
               \/ Reconnecting \/ RestartFailed \/ RestartDone
    PROVE  Moves(Restart)
BY DEF Moves, Reconnected, WsBreaks, WriterEnds, Reconnecting, RestartFailed, RestartDone,
       Release, AwaitQueue, lockVars

-----------------------------------------------------------------------------
(* Every step keeps the types *)

LEMMA OneMore ==
    ASSUME NEW S, NEW s \in Seq(S), NEW e \in S
    PROVE  /\ Append(s, e) \in Seq(S) /\ Len(s) \in Nat
           /\ DOMAIN s = 1..Len(s) /\ DOMAIN Append(s, e) = 1..(Len(s) + 1)
           /\ Append(s, e)[Len(s) + 1] = e
           /\ \A i \in 1..Len(s) : Append(s, e)[i] = s[i]
OBVIOUS

LEMMA OneLess ==
    ASSUME NEW S, NEW s \in Seq(S), s # <<>>
    PROVE  /\ Tail(s) \in Seq(S) /\ Head(s) \in S /\ Head(s) = s[1]
           /\ Len(s) \in Nat \ {0}
           /\ DOMAIN s = 1..Len(s) /\ DOMAIN Tail(s) = 1..(Len(s) - 1)
           /\ \A i \in 1..(Len(s) - 1) : Tail(s)[i] = s[i + 1]
OBVIOUS

LockTypes == stream_lock \in Seq(Procs \X {"r", "w"}) /\ queue_lock \in Seq(Procs)

LEMMA SendingTypes == ASSUME IInv, NEW p \in Callers, Sending(p) PROVE TypeOK'
<1>1. LockTypes'
  BY SendingMoves, Moved, Names DEF LockTypes, Entries, IInv
<1>2. /\ pc \in [Procs -> Points] /\ on \in [Procs -> 0..NumStreams]
      /\ stream \in 0..NumStreams /\ handle \in 0..NumStreams /\ reconnecting \in BOOLEAN
      /\ writer \in [Streams -> {"none", "up", "ended"}] /\ broken \subseteq Streams
      /\ queue \in Seq(Callers) /\ received \in Seq(Callers) /\ sent \subseteq Callers
  BY DEF IInv, TypeOK
<1> USE DEF streamVars, lockVars, Goto
<1>3. /\ stream' \in 0..NumStreams /\ handle' \in 0..NumStreams
      /\ broken' \subseteq Streams /\ sent' \subseteq Callers
  BY <1>2 DEF Sending, SendCall, ReadStream, SendOk, SendFailed, queue_message
<1>4. reconnecting' = reconnecting
  BY DEF Sending, SendCall, ReadStream, SendOk, SendFailed, queue_message
<1>5. \E point \in Points : pc' = [pc EXCEPT ![p] = point]
  BY DEF Sending, SendCall, ReadStream, SendOk, SendFailed, queue_message, Points
<1>6. pc' \in [Procs -> Points]
  BY <1>2, <1>5
<1>7. on' \in [Procs -> 0..NumStreams]
  BY <1>2 DEF Sending, SendCall, ReadStream, SendOk, SendFailed, queue_message
<1>8. writer' \in [Streams -> {"none", "up", "ended"}]
  BY <1>2 DEF Sending, SendCall, ReadStream, SendOk, SendFailed, queue_message
<1>9. queue' \in Seq(Callers) /\ received' \in Seq(Callers)
  <2>1. queue' \in {queue, Append(queue, p)} /\ received' \in {received, Append(received, p)}
    BY DEF Sending, SendCall, ReadStream, SendOk, SendFailed, queue_message
  <2>2. Append(queue, p) \in Seq(Callers) /\ Append(received, p) \in Seq(Callers)
    BY <1>2, OneMore
  <2> QED
    BY <1>2, <2>1, <2>2
<1> QED
  BY <1>1, <1>2, <1>3, <1>4, <1>6, <1>7, <1>8, <1>9 DEF TypeOK, LockTypes

LEMMA FlushTypes == ASSUME IInv, NEW p \in Callers \cup {Restart}, Flush(p) PROVE TypeOK'
<1>1. LockTypes'
  BY FlushMoves, Moved, Names DEF LockTypes, Entries, IInv
<1>2. /\ pc \in [Procs -> Points] /\ on \in [Procs -> 0..NumStreams]
      /\ stream \in 0..NumStreams /\ handle \in 0..NumStreams /\ reconnecting \in BOOLEAN
      /\ writer \in [Streams -> {"none", "up", "ended"}] /\ broken \subseteq Streams
      /\ queue \in Seq(Callers) /\ received \in Seq(Callers) /\ sent \subseteq Callers
  BY DEF IInv, TypeOK
<1> USE DEF streamVars, lockVars, Goto, AfterFlush, Flush, FlushLocked, FlushRead, FlushSend,
            FlushDone
<1>3. /\ stream' = stream /\ handle' = handle /\ broken' = broken /\ sent' = sent
      /\ reconnecting' = reconnecting
  OBVIOUS
<1>4. \/ pc' = pc
      \/ \E point \in Points : pc' = [pc EXCEPT ![p] = point]
  BY DEF Points
<1>5. pc' \in [Procs -> Points]
  BY <1>2, <1>4
<1>6. on' \in [Procs -> 0..NumStreams]
  BY <1>2
<1>7. writer' \in [Streams -> {"none", "up", "ended"}]
  BY <1>2
<1>8. queue' \in Seq(Callers) /\ received' \in Seq(Callers)
  <2>1. \/ queue' = queue /\ received' = received
        \/ queue # <<>> /\ queue' = Tail(queue)
             /\ received' \in {received, Append(received, Head(queue))}
    OBVIOUS
  <2>2. queue # <<>> => /\ Tail(queue) \in Seq(Callers)
                        /\ Append(received, Head(queue)) \in Seq(Callers)
    BY <1>2, OneLess, OneMore
  <2> QED
    BY <1>2, <2>1, <2>2
<1> QED
  BY <1>1, <1>2, <1>3, <1>5, <1>6, <1>7, <1>8 DEF TypeOK, LockTypes

LEMMA ClosingTypes ==
    ASSUME IInv, NEW p \in Procs, NEW from \in Points, NEW to \in Points,
           CloseStep(p, from, to)
    PROVE  TypeOK'
<1>1. LockTypes'
  BY ClosingMoves, Moved DEF LockTypes, Entries, IInv
<1>2. /\ pc \in [Procs -> Points] /\ on \in [Procs -> 0..NumStreams]
      /\ stream \in 0..NumStreams /\ handle \in 0..NumStreams
      /\ writer \in [Streams -> {"none", "up", "ended"}]
  BY DEF IInv, TypeOK
<1> USE Names DEF streamVars, lockVars, Goto, CloseStep, CloseCall, CloseStream, TakeHandle,
                  TaskJoined
<1>3. UNCHANGED <<broken, queue, reconnecting, sent, received>>
  OBVIOUS
<1>4. pc' = [pc EXCEPT ![p] = to]
  OBVIOUS
<1>5. stream' \in {stream, NoStream} /\ handle' \in {handle, NoStream}
  OBVIOUS
<1>6. on' \in [Procs -> 0..NumStreams]
  BY <1>2
<1>7. writer' \in [Streams -> {"none", "up", "ended"}]
  BY <1>2
<1>8. stream' \in 0..NumStreams /\ handle' \in 0..NumStreams
  BY <1>2, <1>5
<1> QED
  BY <1>1, <1>2, <1>3, <1>4, <1>6, <1>7, <1>8 DEF TypeOK, LockTypes, IInv

Opening ==
    \/ \E g \in Streams : Reconnected(g) \/ WsBreaks(g) \/ WriterEnds(g)
    \/ Reconnecting \/ RestartFailed \/ RestartDone

LEMMA OpeningTypes == ASSUME IInv, Opening PROVE TypeOK'
<1>1. LockTypes'
  BY RestartMoves, Moved, Names DEF LockTypes, Entries, IInv, Opening
<1>2. /\ pc \in [Procs -> Points] /\ on \in [Procs -> 0..NumStreams]
      /\ stream \in 0..NumStreams /\ handle \in 0..NumStreams /\ reconnecting \in BOOLEAN
      /\ writer \in [Streams -> {"none", "up", "ended"}] /\ broken \subseteq Streams
  BY DEF IInv, TypeOK
<1> USE Names DEF streamVars, lockVars, Goto, Opening, Reconnected, WsBreaks, WriterEnds,
                  Reconnecting, RestartFailed, RestartDone
<1>3. UNCHANGED <<queue, sent, received>>
  OBVIOUS
<1>4. {"flush", "connecting", "idle"} \subseteq Points
  BY DEF Points
<1>5. pc' \in [Procs -> Points]
  BY <1>2, <1>4
<1>6. stream' \in 0..NumStreams /\ handle' \in 0..NumStreams
  BY <1>2
<1>7. on' \in [Procs -> 0..NumStreams]
  BY <1>2
<1>8. writer' \in [Streams -> {"none", "up", "ended"}] /\ broken' \subseteq Streams
  BY <1>2
<1>9. reconnecting' \in BOOLEAN
  BY <1>2
<1> QED
  BY <1>1, <1>3, <1>5, <1>6, <1>7, <1>8, <1>9 DEF TypeOK, LockTypes, IInv

-----------------------------------------------------------------------------
(* ... and the locks and the stream *)

LEMMA SendingControl ==
    ASSUME IInv, NEW p \in Callers, Sending(p)
    PROVE  /\ LockInv' /\ CurrentInv' /\ OpenInv'
<1>1. TypeOK /\ TypeOK' /\ p \in Procs /\ p # Restart
  BY SendingTypes, Names DEF IInv
<1>2. \A q \in Procs \ {p} : /\ Reads(q) => Reads(q)'
                             /\ Writes(q) => Writes(q)'
                             /\ HasQueue(q) => HasQueue(q)'
  BY <1>1, SendingMoves, LocksKept
<1>3. pc \in [Procs -> Points] /\ on \in [Procs -> 0..NumStreams]
      /\ writer \in [Streams -> {"none", "up", "ended"}]
  BY <1>1 DEF TypeOK
<1> USE DEF streamVars, lockVars, Goto
<1>4. \E point : pc' = [pc EXCEPT ![p] = point]
  BY DEF Sending, SendCall, ReadStream, SendOk, SendFailed, queue_message
<1>5. stream' = stream
  BY DEF Sending, SendCall, ReadStream, SendOk, SendFailed, queue_message
<1>6. \A q \in Procs \ {p} : pc'[q] = pc[q] /\ on'[q] = on[q]
  BY <1>3, <1>4 DEF Sending, SendCall, ReadStream, SendOk, SendFailed, queue_message
<1>7. pc'[p] \in {"sending", "requeue", "flush_send"} =>
          Reads(p)' /\ on'[p] = stream /\ stream # NoStream
  <2>1. CASE ReadStream(p)
    BY <1>1, <1>3, <2>1 DEF ReadStream, Reads
  <2>2. CASE SendFailed(p)
    <3>1. pc[p] = "sending"
      BY <2>2 DEF SendFailed
    <3>2. Reads(p) /\ on[p] = stream /\ stream # NoStream
      BY <1>1, <3>1 DEF IInv, LockInv, CurrentInv
    <3> QED
      BY <1>1, <1>3, <2>2, <3>2 DEF SendFailed, Reads
  <2>3. CASE SendCall(p) \/ SendOk(p) \/ queue_message(p)
    BY <1>1, <1>3, <2>3 DEF SendCall, SendOk, queue_message
  <2> QED
    BY <2>1, <2>2, <2>3 DEF Sending
<1>8. pc'[p] \notin {"flush_read", "flush_send"}
  BY <1>1, <1>3 DEF Sending, SendCall, ReadStream, SendOk, SendFailed, queue_message
<1>9. LockInv'
  BY <1>1, <1>2, <1>6, <1>7, <1>8, Names DEF IInv, LockInv
<1>10. CurrentInv'
  BY <1>1, <1>5, <1>6, <1>7, Names DEF IInv, CurrentInv
<1>11. \A g \in Streams : writer'[g] = "up" => writer[g] = "up"
  BY <1>3 DEF Sending, SendCall, ReadStream, SendOk, SendFailed, queue_message
<1>12. OpenInv'
  BY <1>1, <1>5, <1>6, <1>11, Names DEF IInv, OpenInv
<1> QED
  BY <1>9, <1>10, <1>12

LEMMA FlushControl ==
    ASSUME IInv, NEW p \in Callers \cup {Restart}, Flush(p)
    PROVE  LockInv' /\ CurrentInv' /\ OpenInv'
<1>1. TypeOK /\ TypeOK' /\ p \in Procs
  BY FlushTypes, Names DEF IInv
<1>2. \A q \in Procs \ {p} : /\ Reads(q) => Reads(q)'
                             /\ Writes(q) => Writes(q)'
                             /\ HasQueue(q) => HasQueue(q)'
  BY <1>1, FlushMoves, LocksKept
<1>3. pc \in [Procs -> Points] /\ on \in [Procs -> 0..NumStreams]
      /\ writer \in [Streams -> {"none", "up", "ended"}]
  BY <1>1 DEF TypeOK
<1> USE DEF streamVars, lockVars, Goto
<1>4. \A q \in Procs \ {p} : pc'[q] = pc[q] /\ on'[q] = on[q]
  BY <1>3 DEF Flush, FlushLocked, FlushRead, FlushSend, FlushDone, AfterFlush
<1>5. stream' = stream
  BY DEF Flush, FlushLocked, FlushRead, FlushSend, FlushDone
<1>6. /\ pc'[p] \in {"sending", "requeue", "flush_send"} =>
             Reads(p)' /\ on'[p] = stream /\ stream # NoStream
      /\ pc'[p] \in {"flush_read", "flush_send"} => HasQueue(p)'
      /\ pc'[p] \notin Streamless
  <2>1. CASE FlushLocked(p)
    BY <1>1, <1>3, <2>1 DEF FlushLocked, AfterFlush, HasQueue, Streamless
  <2>2. CASE FlushRead(p)
    <3>1. HasQueue(p)
      BY <1>1, <2>2 DEF FlushRead, IInv, LockInv
    <3>2. CASE stream = NoStream
      <4>1. pc'[p] \in {"spawn", "read"}
        BY <1>1, <1>3, <2>2, <3>2 DEF FlushRead, AfterFlush
      <4> QED
        BY <4>1 DEF Streamless
    <3>3. CASE stream # NoStream
      <4>1. pc'[p] = "flush_send" /\ on'[p] = stream /\ UNCHANGED lockVars
        BY <1>1, <1>3, <2>2, <3>3 DEF FlushRead
      <4>2. Reads(p)' /\ HasQueue(p)'
        BY <2>2, <3>1, <4>1 DEF FlushRead, Reads, HasQueue
      <4> QED
        BY <3>3, <4>1, <4>2 DEF Streamless
    <3> QED
      BY <3>2, <3>3
  <2>3. CASE FlushSend(p)
    <3>1. pc[p] = "flush_send"
      BY <2>3 DEF FlushSend
    <3>2. Reads(p) /\ HasQueue(p) /\ on[p] = stream /\ stream # NoStream
      BY <1>1, <3>1 DEF IInv, LockInv, CurrentInv
    <3> QED
      BY <2>3, <3>1, <3>2 DEF FlushSend, HasQueue, Reads, Streamless
  <2>4. CASE FlushDone(p)
    BY <1>1, <1>3, <2>4 DEF FlushDone, AfterFlush, Streamless
  <2> QED
    BY <2>1, <2>2, <2>3, <2>4 DEF Flush
<1>7. LockInv'
  <2>1. pc'[Restart] = "connecting" => Writes(Restart)'
    BY <1>2, <1>4, <1>6, Names DEF IInv, LockInv, Streamless
  <2> QED
    BY <1>1, <1>2, <1>4, <1>6, <2>1, Names DEF IInv, LockInv
<1>8. CurrentInv'
  BY <1>1, <1>4, <1>5, <1>6, Names DEF IInv, CurrentInv
<1>9. \A g \in Streams : writer'[g] = "up" => writer[g] = "up"
  BY <1>3 DEF Flush, FlushLocked, FlushRead, FlushSend, FlushDone
<1>10. OpenInv'
  BY <1>1, <1>4, <1>5, <1>6, <1>9, Names DEF IInv, OpenInv
<1> QED
  BY <1>7, <1>8, <1>10

LEMMA ClosingControl ==
    ASSUME IInv, NEW p \in Procs, NEW from \in Points, NEW to \in Points,
           CloseStep(p, from, to)
    PROVE  LockInv' /\ CurrentInv' /\ OpenInv'
<1>1. TypeOK /\ TypeOK'
  BY ClosingTypes DEF IInv
<1>2. \A q \in Procs \ {p} : /\ Reads(q) => Reads(q)'
                             /\ Writes(q) => Writes(q)'
                             /\ HasQueue(q) => HasQueue(q)'
  BY <1>1, ClosingMoves, LocksKept
<1>3. pc \in [Procs -> Points] /\ on \in [Procs -> 0..NumStreams]
      /\ writer \in [Streams -> {"none", "up", "ended"}] /\ stream \in 0..NumStreams
  BY <1>1 DEF TypeOK
<1> USE DEF streamVars, lockVars, Goto
<1>4. pc' = [pc EXCEPT ![p] = to] /\ pc[p] = from
  BY DEF CloseStep, CloseCall, CloseStream, TakeHandle, TaskJoined
<1>5. \A q \in Procs \ {p} : pc'[q] = pc[q] /\ on'[q] = on[q]
  BY <1>3, <1>4 DEF CloseStep, CloseCall, CloseStream, TakeHandle, TaskJoined
<1>6. /\ to \notin {"sending", "requeue", "flush_send", "flush_read", "connecting"}
      /\ p = Restart /\ to \in Streamless =>
             from \in Streamless \/ (Closing(p, from, to) /\ CloseStream(p, from, to))
  BY Names DEF CloseStep, Calling, Closing, Taking, Joining, Streamless
<1>7. LockInv'
  BY <1>2, <1>3, <1>4, <1>5, <1>6, Names DEF IInv, LockInv
<1>8. CurrentInv' /\ OpenInv'
  <2>1. CASE CloseStream(p, from, to)
    <3>1. Writes(p) /\ stream' = NoStream
      BY <2>1 DEF CloseStream
    <3>2. \A q \in Callers \cup {Restart} : pc[q] \notin {"sending", "requeue", "flush_send"}
      BY <1>1, <3>1, Exclusive DEF IInv, LockInv
    <3>3. \A g \in Streams : writer'[g] # "up"
      <4> SUFFICES ASSUME NEW g \in Streams, writer'[g] = "up" PROVE FALSE
        OBVIOUS
      <4>1. writer' = IF stream = NoStream THEN writer
                      ELSE [writer EXCEPT ![stream] = "ended"]
        BY <2>1 DEF CloseStream
      <4>2. writer[g] = "up" => g = stream
        BY DEF IInv, OpenInv
      <4> QED
        BY <1>3, <4>1, <4>2, Names
    <3> QED
      BY <1>3, <1>4, <1>5, <1>6, <3>1, <3>2, <3>3, Names DEF CurrentInv, OpenInv
  <2>2. CASE ~CloseStream(p, from, to)
    <3>1. stream' = stream /\ writer' = writer
      BY <2>2 DEF CloseStep, CloseCall, TakeHandle, TaskJoined
    <3> QED
      BY <1>3, <1>4, <1>5, <1>6, <2>2, <3>1, Names DEF IInv, CurrentInv, OpenInv
  <2> QED
    BY <2>1, <2>2
<1> QED
  BY <1>7, <1>8

LEMMA OpeningControl == ASSUME IInv, Opening PROVE LockInv' /\ CurrentInv' /\ OpenInv'
<1>1. TypeOK /\ TypeOK'
  BY OpeningTypes DEF IInv
<1>2. \A q \in Procs \ {Restart} : /\ Reads(q) => Reads(q)'
                                   /\ HasQueue(q) => HasQueue(q)'
  BY <1>1, RestartMoves, LocksKept, Names DEF Opening
<1>3. pc \in [Procs -> Points] /\ on \in [Procs -> 0..NumStreams]
      /\ writer \in [Streams -> {"none", "up", "ended"}] /\ stream \in 0..NumStreams
  BY <1>1 DEF TypeOK
<1> USE DEF streamVars, lockVars, Goto
<1>4. CASE \E g \in Streams : Reconnected(g)
  <2>1. PICK g \in Streams : Reconnected(g)
    BY <1>4
  <2>2. pc[Restart] = "connecting" /\ stream' = g /\ writer' = [writer EXCEPT ![g] = "up"]
        /\ pc' = [pc EXCEPT ![Restart] = "flush"] /\ on' = [on EXCEPT ![Restart] = g]
    BY <2>1 DEF Reconnected
  <2>3. Writes(Restart) /\ stream = NoStream
    BY <2>2 DEF IInv, LockInv, OpenInv, Streamless
  <2>4. \A q \in Callers \cup {Restart} : pc[q] \notin {"sending", "requeue", "flush_send"}
    BY <1>1, <2>3, Exclusive DEF IInv, LockInv
  <2>5. \A h \in Streams : writer[h] # "up"
    BY <2>3, Names DEF IInv, OpenInv
  <2>6. \A q \in Procs : pc'[q] # "flush" => pc'[q] = pc[q] /\ q # Restart
    BY <1>3, <2>2, Names
  <2>7. pc'[Restart] = "flush"
    BY <1>3, <2>2, Names
  <2>8. LockInv'
    BY <1>2, <2>4, <2>6, <2>7, Names DEF IInv, LockInv
  <2>9. CurrentInv'
    BY <2>4, <2>6, Names DEF CurrentInv
  <2>10. OpenInv'
    BY <1>3, <2>2, <2>5, <2>7, Names DEF OpenInv, Streamless
  <2> QED
    BY <2>8, <2>9, <2>10
<1>5. CASE ~\E g \in Streams : Reconnected(g)
  <2>1. on' = on /\ stream' = stream
    BY <1>5 DEF Opening, WsBreaks, WriterEnds, Reconnecting, RestartFailed, RestartDone
  <2>2. \A g \in Streams : writer'[g] = "up" => writer[g] = "up"
    BY <1>3, <1>5 DEF Opening, WsBreaks, WriterEnds, Reconnecting, RestartFailed, RestartDone
  <2>3. \A q \in Procs \ {Restart} : pc'[q] \in {pc[q], "idle"}
    BY <1>3, <1>5 DEF Opening, WsBreaks, WriterEnds, Reconnecting, RestartFailed, RestartDone
  <2>4. \/ pc'[Restart] = pc[Restart] /\ UNCHANGED <<stream_lock, queue_lock>>
        \/ pc'[Restart] = "idle"
        \/ /\ pc[Restart] = "r_connect" /\ pc'[Restart] = "connecting"
           /\ Writes(Restart) /\ UNCHANGED <<stream_lock, queue_lock>>
    <3>1. CASE RestartDone
      <4>1. on[Restart] \in 0..NumStreams
        BY <1>3, Names
      <4>2. on[Restart] # Restart
        BY <4>1, StreamsAssumption DEF Restart
      <4> QED
        BY <1>3, <3>1, <4>2, Names DEF RestartDone
    <3>2. CASE ~RestartDone
      BY <1>3, <1>5, <3>2, Names
         DEF Opening, WsBreaks, WriterEnds, Reconnecting, RestartFailed
    <3> QED
      BY <3>1, <3>2
  <2>5. /\ UNCHANGED <<stream_lock, queue_lock>> =>
              (Reads(Restart) => Reads(Restart)') /\ (Writes(Restart) => Writes(Restart)')
              /\ (HasQueue(Restart) => HasQueue(Restart)')
    BY DEF Reads, Writes, HasQueue
  <2>6. LockInv'
    BY <1>2, <2>3, <2>4, <2>5, Names DEF IInv, LockInv
  <2>7. CurrentInv'
    BY <2>1, <2>3, <2>4, Names DEF IInv, CurrentInv
  <2>8. OpenInv'
    BY <2>1, <2>2, <2>4 DEF IInv, OpenInv, Streamless
  <2> QED
    BY <2>6, <2>7, <2>8
<1> QED
  BY <1>4, <1>5

-----------------------------------------------------------------------------
(* ... and the signal_tasks *)

LEMMA SendingTasks ==
    ASSUME IInv, NEW p \in Callers, Sending(p) PROVE TaskInv'
<1>1. pc \in [Procs -> Points] /\ on \in [Procs -> 0..NumStreams] /\ p \in Procs
      /\ p # Restart /\ p # Closer
  BY Names DEF IInv, TypeOK
<1> USE DEF streamVars, lockVars, Goto
<1>2. pc[p] \notin {"none", "done"} /\ pc' = [pc EXCEPT ![p] = pc'[p]]
  BY <1>1 DEF Sending, SendCall, ReadStream, SendOk, SendFailed, queue_message
<1>3. stream' = stream /\ handle' = handle
  BY DEF Sending, SendCall, ReadStream, SendOk, SendFailed, queue_message
<1>4. on'[Restart] = on[Restart]
  BY <1>1, Names DEF Sending, SendCall, ReadStream, SendOk, SendFailed, queue_message
<1>5. pc'[Restart] = pc[Restart] /\ pc'[Closer] = pc[Closer]
  BY <1>1, <1>2, Names
<1>6. \A g \in Streams : Alive(g)' => Alive(g)
  BY <1>1, <1>2, Names DEF Alive
<1> QED
  BY <1>3, <1>4, <1>5, <1>6 DEF IInv, TaskInv

LEMMA FlushTasks ==
    ASSUME IInv, NEW p \in Callers \cup {Restart}, Flush(p) PROVE TaskInv'
<1>1. pc \in [Procs -> Points] /\ on \in [Procs -> 0..NumStreams] /\ p \in Procs
      /\ p # Closer
  BY Names DEF IInv, TypeOK
<1> USE DEF streamVars, lockVars, Goto, Flush, FlushLocked, FlushRead, FlushSend, FlushDone,
            AfterFlush
<1>2. /\ pc[p] \in {"flush", "flush_read", "flush_send"}
      /\ \A q \in Procs \ {p} : pc'[q] = pc[q] /\ on'[q] = on[q]
  BY <1>1
<1>3. stream' = stream /\ handle' = handle
  OBVIOUS
<1>4. p = Restart => /\ pc[p] \in Flushing /\ pc'[p] \in Flushing
                     /\ on'[p] \in {on[p], stream}
  BY <1>1 DEF Flushing
<1> HIDE DEF Flush
<1>5. pc'[Closer] = pc[Closer]
  BY <1>1, <1>2, Names
<1>6. \A g \in Streams : Alive(g)' => Alive(g)
  BY <1>1, <1>2, Names DEF Alive
<1>7. CASE p = Restart
  BY <1>3, <1>4, <1>5, <1>6, <1>7 DEF IInv, TaskInv, NoTask, Flushing
<1>8. CASE p # Restart
  <2>1. pc'[Restart] = pc[Restart] /\ on'[Restart] = on[Restart]
    BY <1>2, <1>8, Names
  <2> QED
    BY <1>3, <1>5, <1>6, <2>1 DEF IInv, TaskInv
<1> QED
  BY <1>7, <1>8

LEMMA ClosingTasks ==
    ASSUME IInv, NEW p \in Procs, NEW from \in Points, NEW to \in Points,
           CloseStep(p, from, to)
    PROVE  TaskInv'
<1>1. pc \in [Procs -> Points] /\ on \in [Procs -> 0..NumStreams]
  BY DEF IInv, TypeOK
<1> USE DEF streamVars, lockVars, Goto
<1>2. pc' = [pc EXCEPT ![p] = to] /\ pc[p] = from
  BY DEF CloseStep, CloseCall, CloseStream, TakeHandle, TaskJoined
<1>3. \A q \in Procs \ {p} : pc'[q] = pc[q] /\ on'[q] = on[q]
  BY <1>1, <1>2 DEF CloseStep, CloseCall, CloseStream, TakeHandle, TaskJoined
<1>4. stream' \in {stream, NoStream}
  BY DEF CloseStep, CloseCall, CloseStream, TakeHandle, TaskJoined
<1>5. CASE p = Closer
  <2>1. pc'[Closer] # "idle"
    BY <1>1, <1>2, <1>5, Names DEF CloseStep, Calling, Closing, Taking, Joining
  <2> QED
    BY <2>1 DEF TaskInv
<1>6. CASE p \in Streams
  <2>1. /\ from \in {"idle", "task_close"} /\ handle' = handle
        /\ pc'[Restart] = pc[Restart] /\ on'[Restart] = on[Restart]
        /\ pc'[Closer] = pc[Closer]
    BY <1>3, <1>6, Names DEF CloseStep, Calling, Closing, Taking, Joining, CloseCall, CloseStream
  <2>2. \A g \in Streams : Alive(g)' => Alive(g)
    BY <1>1, <1>2, <2>1, Names DEF Alive
  <2> QED
    BY <1>4, <2>1, <2>2 DEF IInv, TaskInv
<1>7. CASE p = Restart
  <2>1. pc'[Closer] = pc[Closer] /\ pc[Restart] = from /\ pc'[Restart] = to
    BY <1>1, <1>2, <1>7, Names
  <2>2. \A g \in Streams : Alive(g)' <=> Alive(g)
    BY <1>3, <1>7, Names DEF Alive
  <2>3. CASE Calling(p, from, to) /\ CloseCall(p, from, to)
    BY <1>7, <2>1, <2>2, <2>3, Names
       DEF IInv, TaskInv, Calling, CloseCall, NoTask, Flushing
  <2>4. CASE Closing(p, from, to) /\ CloseStream(p, from, to)
    BY <1>7, <2>1, <2>2, <2>4, Names
       DEF IInv, TaskInv, Closing, CloseStream, NoTask, Flushing
  <2>5. CASE Taking(p, from, to) /\ TakeHandle(p, from, to)
    <3>1. on'[Restart] = handle /\ handle' = NoStream /\ stream' = stream
          /\ from = "r_handle" /\ to = "r_join"
      BY <1>1, <1>7, <2>5, Names DEF Taking, TakeHandle
    <3> QED
      BY <2>1, <2>2, <3>1, Names DEF IInv, TaskInv, NoTask, Flushing
  <2>6. CASE Joining(p, from, to) /\ TaskJoined(p, from, to)
    <3>1. /\ on[Restart] # NoStream => pc[on[Restart]] = "done"
          /\ from = "r_join" /\ to = "r_joined" /\ UNCHANGED <<stream, handle>>
      BY <1>7, <2>6, Names DEF Joining, TaskJoined
    <3>2. pc[Closer] = "idle" => \A g \in Streams : ~Alive(g)
      BY <2>1, <3>1, Names DEF IInv, TaskInv, Alive
    <3> QED
      BY <2>1, <2>2, <3>1, <3>2 DEF TaskInv, Flushing
  <2> QED
    BY <2>3, <2>4, <2>5, <2>6 DEF CloseStep
<1> QED
  BY <1>5, <1>6, <1>7, Names DEF CloseStep, Calling, Closing, Taking, Joining

LEMMA OpeningTasks == ASSUME IInv, Opening PROVE TaskInv'
<1>1. pc \in [Procs -> Points] /\ on \in [Procs -> 0..NumStreams]
  BY DEF IInv, TypeOK
<1> USE DEF streamVars, lockVars, Goto
<1>2. CASE \E g \in Streams : Reconnected(g)
  <2>1. PICK g \in Streams : Reconnected(g)
    BY <1>2
  <2>2. /\ pc[Restart] = "connecting" /\ pc' = [pc EXCEPT ![Restart] = "flush"]
        /\ stream' = g /\ on' = [on EXCEPT ![Restart] = g] /\ handle' = handle
    BY <2>1 DEF Reconnected
  <2>3. /\ pc'[Restart] = "flush" /\ on'[Restart] = g /\ pc'[Closer] = pc[Closer]
        /\ \A h \in Streams : Alive(h)' <=> Alive(h)
    BY <1>1, <2>2, Names DEF Alive
  <2> QED
    BY <2>2, <2>3 DEF IInv, TaskInv, NoTask, Flushing
<1>3. CASE \E g \in Streams : WsBreaks(g) \/ WriterEnds(g)
  <2>1. UNCHANGED <<stream, handle, pc, on>>
    BY <1>3 DEF WsBreaks, WriterEnds
  <2> QED
    BY <2>1 DEF IInv, TaskInv, Alive
<1>4. CASE Reconnecting
  <2>1. /\ UNCHANGED <<stream, handle, on>> /\ pc[Restart] = "r_connect"
        /\ pc'[Restart] = "connecting" /\ pc'[Closer] = pc[Closer]
        /\ \A h \in Streams : Alive(h)' <=> Alive(h)
    BY <1>1, <1>4, Names DEF Reconnecting, Alive
  <2> QED
    BY <2>1 DEF IInv, TaskInv, NoTask, Flushing
<1>5. CASE RestartFailed
  <2>1. /\ UNCHANGED <<stream, handle, on>> /\ pc[Restart] = "connecting"
        /\ pc'[Restart] = "idle" /\ pc'[Closer] = pc[Closer]
        /\ \A h \in Streams : Alive(h)' <=> Alive(h)
    BY <1>1, <1>5, Names DEF RestartFailed, Alive
  <2> QED
    BY <2>1 DEF IInv, TaskInv, NoTask, Flushing
<1>6. CASE RestartDone
  <2> DEFINE g == on[Restart]
  <2>1. /\ pc[Restart] = "spawn" /\ handle' = g /\ UNCHANGED <<stream, on>>
        /\ pc' = [pc EXCEPT ![Restart] = "idle", ![g] = "idle"]
    BY <1>6 DEF RestartDone
  <2>2. g \in 0..NumStreams
    BY <1>1, Names
  <2>3. g # Restart /\ g # Closer
    BY <2>2, StreamsAssumption DEF Restart, Closer
  <2>4. pc'[Restart] = "idle" /\ pc'[Closer] = pc[Closer]
    BY <1>1, <2>1, <2>3, Names
  <2>5. \A h \in Streams : Alive(h)' => h = g \/ Alive(h)
    BY <1>1, <2>1, Names DEF Alive
  <2> QED
    BY <2>1, <2>4, <2>5 DEF IInv, TaskInv, NoTask, Flushing
<1> QED
  BY <1>2, <1>3, <1>4, <1>5, <1>6 DEF Opening

-----------------------------------------------------------------------------
(* ... and the messages *)

\* A message that its sender has is put behind the others.
LEMMA Put ==
    ASSUME NEW s \in Seq(Callers), NEW m \in Callers, Distinct(s), m \notin Elements(s)
    PROVE  Distinct(Append(s, m)) /\ Elements(Append(s, m)) = Elements(s) \cup {m}
<1> DEFINE n == Append(s, m)
<1>1. /\ Len(s) \in Nat /\ DOMAIN s = 1..Len(s) /\ DOMAIN n = 1..(Len(s) + 1)
      /\ n[Len(s) + 1] = m /\ \A i \in 1..Len(s) : n[i] = s[i]
  BY OneMore
<1> HIDE DEF n
<1>2. \A i \in DOMAIN n : i \in DOMAIN s \/ i = Len(s) + 1
  BY <1>1
<1>3. Distinct(n)
  BY <1>1, <1>2 DEF Distinct, Elements
<1>4. Elements(n) = Elements(s) \cup {m}
  BY <1>1, <1>2 DEF Elements
<1> QED
  BY <1>3, <1>4 DEF n

\* The message at the head of the queue is taken out of it.
LEMMA Pulled ==
    ASSUME NEW s \in Seq(Callers), s # <<>>, Distinct(s)
    PROVE  /\ Distinct(Tail(s)) /\ Elements(Tail(s)) = Elements(s) \ {Head(s)}
           /\ Head(s) \in Elements(s) /\ Head(s) \in Callers
<1> DEFINE n == Tail(s)
<1>1. /\ Len(s) \in Nat \ {0} /\ DOMAIN s = 1..Len(s) /\ DOMAIN n = 1..(Len(s) - 1)
      /\ Head(s) = s[1] /\ Head(s) \in Callers
      /\ \A i \in 1..(Len(s) - 1) : n[i] = s[i + 1]
  BY OneLess
<1> HIDE DEF n
<1>2. \A i \in DOMAIN n : i + 1 \in DOMAIN s /\ i + 1 # 1 /\ n[i] = s[i + 1]
  BY <1>1
<1>3. Distinct(n)
  <2> SUFFICES ASSUME NEW i \in DOMAIN n, NEW j \in DOMAIN n, n[i] = n[j] PROVE i = j
    BY DEF Distinct
  <2>1. i + 1 = j + 1
    BY <1>2 DEF Distinct
  <2> QED
    BY <1>1, <2>1
<1>4. \A k \in DOMAIN s : k = 1 \/ (k - 1 \in DOMAIN n /\ n[k - 1] = s[k])
  BY <1>1
<1>5. 1 \in DOMAIN s
  BY <1>1
<1>6. ASSUME NEW e \in Elements(n) PROVE e \in Elements(s) /\ e # Head(s)
  <2>1. PICK i \in DOMAIN n : e = n[i]
    BY DEF Elements
  <2>2. i + 1 \in DOMAIN s /\ e = s[i + 1] /\ i + 1 # 1
    BY <1>2, <2>1
  <2> QED
    BY <1>1, <1>5, <2>2 DEF Elements, Distinct
<1>7. ASSUME NEW e \in Elements(s), e # Head(s) PROVE e \in Elements(n)
  <2>1. PICK k \in DOMAIN s : e = s[k]
    BY DEF Elements
  <2>2. k - 1 \in DOMAIN n /\ n[k - 1] = e
    BY <1>1, <1>4, <1>7, <2>1
  <2> QED
    BY <2>2 DEF Elements
<1> QED
  BY <1>1, <1>3, <1>5, <1>6, <1>7 DEF n, Elements

LEMMA SendingMessages == ASSUME IInv, NEW p \in Callers, Sending(p) PROVE MessagesInv'
<1>1. /\ pc \in [Procs -> Points] /\ p \in Procs /\ p # Restart
      /\ queue \in Seq(Callers) /\ received \in Seq(Callers)
  BY Names DEF IInv, TypeOK
<1> USE DEF streamVars, lockVars, Goto
<1>2. \A q \in Callers \ {p} : pc'[q] = pc[q]
  BY <1>1, Names DEF Sending, SendCall, ReadStream, SendOk, SendFailed, queue_message
<1>3. MessagesInv
  BY DEF IInv
<1>4. CASE SendCall(p)
  <2>1. p \notin sent /\ sent' = sent \cup {p} /\ UNCHANGED <<queue, received>>
    BY <1>4 DEF SendCall
  <2>2. Got' = Got /\ Kept' = Kept
    BY <2>1 DEF Got, Kept
  <2> QED
    BY <1>2, <1>3, <2>1, <2>2 DEF MessagesInv
<1>5. CASE ReadStream(p) \/ SendFailed(p)
  <2>1. UNCHANGED <<sent, queue, received>> /\ pc[p] \in InHand
    BY <1>5 DEF ReadStream, SendFailed, InHand
  <2>2. Got' = Got /\ Kept' = Kept
    BY <2>1 DEF Got, Kept
  <2> QED
    BY <1>2, <1>3, <2>1, <2>2 DEF MessagesInv
<1>6. CASE SendOk(p)
  <2>1. /\ UNCHANGED <<sent, queue>> /\ received' = Append(received, p)
        /\ pc[p] \in InHand /\ pc'[p] = "idle"
    BY <1>1, <1>6 DEF SendOk, InHand
  <2>2. p \in sent /\ p \notin Got \cup Kept
    BY <1>3, <2>1 DEF MessagesInv
  <2>3. /\ Distinct(received')
        /\ Got' = Got \cup {p} /\ Kept' = Kept
    BY <1>1, <1>3, <2>1, <2>2, Put DEF Got, Kept, MessagesInv
  <2> QED
    BY <1>2, <1>3, <2>1, <2>2, <2>3 DEF MessagesInv, InHand
<1>7. CASE queue_message(p)
  <2>1. /\ UNCHANGED <<sent, received>> /\ queue' = Append(queue, p)
        /\ pc[p] \in InHand /\ pc'[p] = "idle"
    BY <1>1, <1>7 DEF queue_message, InHand
  <2>2. p \in sent /\ p \notin Got \cup Kept
    BY <1>3, <2>1 DEF MessagesInv
  <2>3. /\ Distinct(queue')
        /\ Got' = Got /\ Kept' = Kept \cup {p}
    BY <1>1, <1>3, <2>1, <2>2, Put DEF Got, Kept, MessagesInv
  <2> QED
    BY <1>2, <1>3, <2>1, <2>2, <2>3 DEF MessagesInv, InHand
<1> QED
  BY <1>4, <1>5, <1>6, <1>7 DEF Sending

\* A step that moves no message, and gives none to a process.
LEMMA MessagesStay ==
    ASSUME MessagesInv, UNCHANGED <<sent, queue, received>>,
           \A q \in Callers : pc'[q] \in InHand => pc[q] \in InHand
    PROVE  MessagesInv'
<1>1. Got' = Got /\ Kept' = Kept
  BY DEF Got, Kept
<1> QED
  BY <1>1 DEF MessagesInv

LEMMA FlushMessages ==
    ASSUME IInv, NEW p \in Callers \cup {Restart}, Flush(p) PROVE MessagesInv'
<1>1. /\ pc \in [Procs -> Points] /\ p \in Procs
      /\ queue \in Seq(Callers) /\ received \in Seq(Callers) /\ MessagesInv
  BY Names DEF IInv, TypeOK
<1> USE DEF streamVars, lockVars, Goto
<1>2. pc[p] \in InHand /\ \A q \in Procs \ {p} : pc'[q] = pc[q]
  BY <1>1 DEF Flush, FlushLocked, FlushRead, FlushSend, FlushDone, AfterFlush, InHand
<1>3. \A q \in Callers : pc'[q] \in InHand => pc[q] \in InHand
  BY <1>2, Names
<1>4. CASE FlushLocked(p) \/ FlushRead(p) \/ FlushDone(p)
  <2>1. UNCHANGED <<sent, queue, received>>
    BY <1>4 DEF FlushLocked, FlushRead, FlushDone
  <2> QED
    BY <1>1, <1>3, <2>1, MessagesStay
<1>5. CASE FlushSend(p)
  <2> DEFINE m == Head(queue)
  <2>1. /\ queue # <<>> /\ queue' = Tail(queue) /\ UNCHANGED <<pc, sent>>
        /\ received' \in {received, Append(received, m)}
    BY <1>5 DEF FlushSend
  <2>2. /\ Distinct(queue')
        /\ Kept' = Kept \ {m} /\ m \in Kept /\ m \in Callers
    BY <1>1, <2>1, Pulled DEF MessagesInv, Kept
  <2>3. m \notin Got
    BY <1>1, <2>2 DEF MessagesInv
  <2> HIDE DEF m
  <2>4. /\ Distinct(received')
        /\ Got' \in {Got, Got \cup {m}}
    <3>1. CASE received' = received
      BY <1>1, <3>1 DEF MessagesInv, Got
    <3>2. CASE received' = Append(received, m)
      BY <1>1, <2>2, <2>3, <3>2, Put DEF MessagesInv, Got
    <3> QED
      BY <2>1, <3>1, <3>2
  <2> QED
    BY <1>1, <2>1, <2>2, <2>3, <2>4 DEF MessagesInv
<1> QED
  BY <1>4, <1>5 DEF Flush

LEMMA ClosingMessages ==
    ASSUME IInv, NEW p \in Procs, NEW from \in Points, NEW to \in Points,
           CloseStep(p, from, to)
    PROVE  MessagesInv'
<1>1. pc \in [Procs -> Points] /\ MessagesInv
  BY DEF IInv, TypeOK
<1>2. UNCHANGED <<sent, queue, received>> /\ pc' = [pc EXCEPT ![p] = to] /\ to \notin InHand
  BY DEF CloseStep, CloseCall, CloseStream, TakeHandle, TaskJoined, Goto, Calling, Closing,
         Taking, Joining, InHand
<1> QED
  BY <1>1, <1>2, Names, MessagesStay

LEMMA OpeningMessages == ASSUME IInv, Opening PROVE MessagesInv'
<1>1. pc \in [Procs -> Points] /\ MessagesInv
  BY DEF IInv, TypeOK
<1>2. UNCHANGED <<sent, queue, received>>
  BY DEF Opening, Reconnected, WsBreaks, WriterEnds, Reconnecting, RestartFailed, RestartDone
<1>3. \A q \in Procs \ {Restart} : pc'[q] \in {pc[q], "idle"}
  BY <1>1 DEF Opening, Reconnected, WsBreaks, WriterEnds, Reconnecting, RestartFailed,
              RestartDone, Goto
<1> QED
  BY <1>1, <1>2, <1>3, Names, MessagesStay DEF InHand

-----------------------------------------------------------------------------
(* The theorems *)

LEMMA StepInv == IInv /\ [Next]_vars => IInv'
<1> SUFFICES ASSUME IInv, [Next]_vars PROVE IInv'
  OBVIOUS
<1>1. ASSUME NEW p \in Callers, Sending(p) PROVE IInv'
  BY <1>1, SendingTypes, SendingControl, SendingTasks, SendingMessages DEF IInv
<1>2. ASSUME NEW p \in Callers \cup {Restart}, Flush(p) PROVE IInv'
  BY <1>2, FlushTypes, FlushControl, FlushTasks, FlushMessages DEF IInv
<1>3. ASSUME NEW p \in Procs, NEW from \in Points, NEW to \in Points, CloseStep(p, from, to)
      PROVE  IInv'
  BY <1>3, ClosingTypes, ClosingControl, ClosingTasks, ClosingMessages DEF IInv
<1>4. CASE Opening
  BY <1>4, OpeningTypes, OpeningControl, OpeningTasks, OpeningMessages DEF IInv
<1>5. CASE UNCHANGED vars
  <2> USE <1>5 DEF vars, streamVars, lockVars
  <2>1. TypeOK'
    BY DEF IInv, TypeOK
  <2>2. LockInv' /\ CurrentInv' /\ OpenInv'
    BY DEF IInv, LockInv, CurrentInv, OpenInv, Reads, Writes, HasQueue
  <2>3. TaskInv'
    BY DEF IInv, TaskInv, Alive
  <2>4. MessagesInv'
    BY MessagesStay DEF IInv
  <2> QED
    BY <2>1, <2>2, <2>3, <2>4 DEF IInv
<1> QED
  BY <1>1, <1>2, <1>3, <1>4, <1>5, NextSplits DEF Opening

\* The conjunction of the types and the five parts is inductive.
THEOREM Invariant == Safe => []IInv
<1> QED
  BY InitInv, StepInv, PTL DEF Safe

\* Every variable keeps its type, for any number of senders, streams and restarts.
THEOREM TypeCorrect == Safe => []TypeOK
<1>1. IInv => TypeOK
  BY DEF IInv
<1> QED
  BY <1>1, Invariant, PTL

\* At most one write_task runs: whoever takes the stream out of the lock ends it before
\* the lock lets the next connection in.
THEOREM OneStream == Safe => []OneOpenStream
<1>1. IInv => OneOpenStream
  BY DEF IInv, OpenInv, OneOpenStream
<1> QED
  BY <1>1, Invariant, PTL

\* Whoever sends, or queues its message with the guard in hand, does so on the stream that
\* is behind the lock.
THEOREM SendersStay == Safe => []SendersUseCurrentStream
<1>1. IInv => SendersUseCurrentStream
  BY DEF IInv, CurrentInv, SendersUseCurrentStream
<1> QED
  BY <1>1, Invariant, PTL

\* No message reaches the server twice, through failed flushes, messages put back and
\* restarts.
THEOREM NoneTwice == Safe => []AtMostOnce
<1>1. IInv => AtMostOnce
  BY DEF IInv, MessagesInv, AtMostOnce, IsInjective, Distinct
<1> QED
  BY <1>1, Invariant, PTL

\* While nobody closes the client, a signal_task that ends closes its own stream or none:
\* a restart has awaited it before there is another.
THEOREM OwnStreamOnly == Safe => TaskClosesItsOwn
<1> DEFINE Own == \A g \in Streams :
               pc[Closer] = "idle" /\ pc[g] = "task_close" /\ pc'[g] = "done" =>
                   stream \in {g, NoStream}
<1>1. IInv => Own
  BY DEF IInv, TaskInv, Alive
<1>2. IInv /\ [Next]_vars => [Own]_vars
  BY <1>1
<1>3. Safe => [][Own]_vars
  BY <1>2, Invariant, PTL DEF Safe
<1> QED
  BY <1>3 DEF TaskClosesItsOwn

-----------------------------------------------------------------------------
(* PublisherNegotiation *)

\* Where a call runs the loop of execute_negotiation_with_retry, with fast_publish.
LoopPoints == {"start", "offer", "offering", "await", "check", "ending"}
InLoop(c) == at[c] \in LoopPoints

\* Where the debounced offer is made, without.
DebouncePoints == {"debounce", "sleep", "executed"}

\* The points of at, whatever the process.
NegotiationPoints ==
    LoopPoints \cup DebouncePoints
      \cup {"idle", "mark", "queue", "notify", "wait", "replaced", "done"}

\* A loop that runs has task_running set, which is what keeps the next call from
\* starting another.
LoopInv ==
    /\ at \in [Negotiators -> NegotiationPoints]
    /\ fast_publish =>
          /\ \A c \in Requests : at[c] \notin DebouncePoints
          /\ \A c \in Requests : InLoop(c) => task_running
          /\ \A c, d \in Requests : InLoop(c) /\ InLoop(d) => c = d

\* The mutex of the transport is held across create_offer, from a stable state unless
\* an ICE restart has just rolled an offer back.  A stranded flag is one of a stable state:
\* the next offer takes it up.
OfferInv ==
    /\ signaling \in {"Stable", "HaveLocalOffer"}
    /\ \A p \in Negotiators : at[p] = "offering" => mutex = p
    /\ mutex \notin {Nobody, Resumer} => ~renegotiate \/ stranded
    /\ renegotiate \in BOOLEAN /\ stranded \in BOOLEAN /\ refused \in Nat
    /\ stranded => signaling = "Stable"
    /\ RenegotiationIsOwed

NegotiationInv == LoopInv /\ OfferInv

-----------------------------------------------------------------------------
LEMMA NamesDiffer ==
    /\ Requests \subseteq Negotiators
    /\ Answerer \in Negotiators /\ Resumer \in Negotiators
    /\ Answerer # Resumer /\ Nobody \notin Negotiators
    /\ \A c \in Requests : c # Answerer /\ c # Resumer
BY NamesAssumption DEF Negotiators, Answerer, Resumer, Nobody

LEMMA NegotiationInitInv == NegotiationInit => NegotiationInv
<1> SUFFICES ASSUME NegotiationInit PROVE LoopInv /\ OfferInv
  BY DEF NegotiationInv
<1>1. LoopInv
  BY NamesDiffer DEF NegotiationInit, LoopInv, InLoop, NegotiationPoints, LoopPoints,
     DebouncePoints
<1>2. /\ signaling = "Stable" /\ mutex = Nobody /\ ~renegotiate /\ ~stranded
      /\ renegotiate \in BOOLEAN /\ stranded \in BOOLEAN /\ refused \in Nat
      /\ \A p \in Negotiators : at[p] # "offering"
  BY DEF NegotiationInit
<1> QED
  BY <1>1, <1>2 DEF OfferInv, RenegotiationIsOwed

\* Every action of Next leaves a process where it is, but the one that it moves.
LEMMA NegotiationStepInv == NegotiationInv /\ [NegotiationNext]_negotiationVars => NegotiationInv'
<1> SUFFICES ASSUME NegotiationInv, [NegotiationNext]_negotiationVars
             PROVE  (LoopInv /\ OfferInv)'
  BY DEF NegotiationInv
<1>0. /\ LoopInv /\ OfferInv
      /\ Requests \subseteq Negotiators
      /\ Answerer \in Negotiators /\ Resumer \in Negotiators
      /\ Answerer # Resumer /\ Nobody \notin Negotiators
      /\ \A c \in Requests : c # Answerer /\ c # Resumer
  BY NamesDiffer DEF NegotiationInv
<1> DEFINE Held == (LoopInv /\ OfferInv)'
<1> USE <1>0 DEF LoopInv, OfferInv, RenegotiationIsOwed, InLoop,
        NegotiationPoints, LoopPoints, DebouncePoints, GoesTo, queueVars,
        transportVars, linkVars
<1>1. ASSUME NEW c \in Requests, publisher_negotiation_needed(c) PROVE Held
  BY <1>1 DEF publisher_negotiation_needed
<1>2. ASSUME NEW c \in Requests, MarkForRetry(c) PROVE Held
  BY <1>2 DEF MarkForRetry
<1>3. ASSUME NEW c \in Requests, queue_negotiation(c) PROVE Held
  BY <1>3 DEF queue_negotiation
<1>4. ASSUME NEW c \in Requests, debounce_negotiation(c) PROVE Held
  BY <1>4 DEF debounce_negotiation
<1>5. ASSUME NEW c \in Requests, Debounced(c) PROVE Held
  BY <1>5 DEF Debounced
<1>6. ASSUME NEW c \in Requests, DebounceTaskEnds(c) PROVE Held
  BY <1>6 DEF DebounceTaskEnds
<1>7. ASSUME NEW c \in Requests, NegotiationStarts(c) PROVE Held
  BY <1>7 DEF NegotiationStarts
<1>8. ASSUME NEW c \in Requests, AnswerNotified(c) PROVE Held
  BY <1>8 DEF AnswerNotified
<1>9. ASSUME NEW c \in Requests, AnswerTimeout(c) PROVE Held
  BY <1>9 DEF AnswerTimeout
<1>10. ASSUME NEW c \in Requests, CheckRetry(c) PROVE Held
  BY <1>10 DEF CheckRetry
<1>11. ASSUME NEW c \in Requests, TaskEnds(c) PROVE Held
  BY <1>11 DEF TaskEnds
<1>12. ASSUME NEW p \in Negotiators, PutOff(p) PROVE Held
  BY <1>12 DEF PutOff, AfterOffer, Rejected
<1>13. ASSUME NEW p \in Negotiators, CreateOffer(p) PROVE Held
  BY <1>13 DEF CreateOffer, Rejected
<1>14. ASSUME NEW p \in Negotiators, SendOffer(p) PROVE Held
  BY <1>14 DEF SendOffer, AfterOffer
<1>15. ASSUME NEW p \in Negotiators, CreateOfferFails(p) PROVE Held
  BY <1>15 DEF CreateOfferFails
<1>16. CASE SetRemoteDescription
  BY <1>16 DEF SetRemoteDescription, AnswerTaken, Accepts
<1>23. CASE CandidateRefused
  <2>1. refused' \in Nat /\ refused' > 0
    BY <1>23 DEF CandidateRefused
  <2>2. signaling' = "Stable" /\ stranded' = renegotiate /\ mutex = Nobody
        /\ UNCHANGED <<queueVars, at, mutex, renegotiate>>
    BY <1>23 DEF CandidateRefused, AnswerTaken
  <2> QED
    BY <2>1, <2>2
<1>17. CASE SetRemoteDescriptionFails
  BY <1>17 DEF SetRemoteDescriptionFails
<1>18. CASE NotifyLoop
  BY <1>18 DEF NotifyLoop
<1>19. CASE ServerAnswers \/ LinkLost
  BY <1>19 DEF ServerAnswers, LinkLost
<1>20. CASE restart_publisher
  BY <1>20 DEF restart_publisher
<1>21. CASE wait_pc_connection
  BY <1>21 DEF wait_pc_connection
<1>22. CASE UNCHANGED negotiationVars
  BY <1>22 DEF negotiationVars
<1> QED
  BY <1>1, <1>2, <1>3, <1>4, <1>5, <1>6, <1>7, <1>8, <1>9, <1>10, <1>11, <1>12, <1>13,
     <1>14, <1>15, <1>16, <1>17, <1>18, <1>19, <1>20, <1>21, <1>22, <1>23
     DEF NegotiationNext, CallStep, OfferStep, Answering

-----------------------------------------------------------------------------
\* At most one negotiation loop runs: the loops of two calls would steal each other's
\* answer.  It is the argument for the swap of task_running under the lock of state in
\* queue_negotiation.
THEOREM OneLoop == NegotiationSafe => []OneNegotiationTask
<1>1. NegotiationInv => OneNegotiationTask
  BY DEF NegotiationInv, LoopInv, InLoop, LoopPoints, OneNegotiationTask
<1> QED
  BY <1>1, NegotiationInitInv, NegotiationStepInv, PTL DEF NegotiationSafe

\* renegotiate is set only while an offer is under way or being replaced: the answer
\* that set_remote_description handles finds it, whoever put the offer off, unless a
\* candidate was refused between that answer and the look at the flag.  It is about the
\* mutex that create_and_send_offer holds across create_offer.
THEOREM PutOffIsOwed == NegotiationSafe => []RenegotiationIsOwed
<1>1. NegotiationInv => RenegotiationIsOwed
  BY DEF NegotiationInv, OfferInv
<1> QED
  BY <1>1, NegotiationInitInv, NegotiationStepInv, PTL DEF NegotiationSafe

=============================================================================
