----------------------------- MODULE SignalClient -----------------------------
(***************************************************************************)
(* livekit-api/src/signal_client: the SignalClient with its two async      *)
(* locks (the RwLock around the current SignalStream and the Mutex around  *)
(* the queue of messages), the callers of send(), one signal_task per      *)
(* stream, restart() and close().                                          *)
(*                                                                         *)
(* Both locks are tokio's: first in, first out.  A lock is the sequence of *)
(* the processes that hold or await it; a reader holds it when only        *)
(* readers are in front, a writer when nobody is.  Guards are dropped      *)
(* where the Rust temporaries are: a guard taken in the scrutinee of an    *)
(* `if let` is held for its whole body.                                    *)
(***************************************************************************)
EXTENDS Naturals, Sequences, FiniteSets, SequencesExt

CONSTANTS
    Senders,       \* callers of send(), one message each, named as its sender
    Unqueuable,    \* the senders whose message is not is_queuable
    NumStreams,    \* SignalStreams that can be created (bound)
    Stuck          \* streams whose peer stops reading: a write never returns

Streams == 1..NumStreams
NoStream == 0

ASSUME SendersAssumption == Senders \cap (0..(NumStreams + 2)) = {}
ASSUME UnqueuableAssumption == Unqueuable \subseteq Senders
ASSUME StreamsAssumption == NumStreams \in Nat \ {0} /\ Stuck \subseteq Streams

\* The signal_task of stream g is the process g; it sends pings, so it is also
\* a caller of send().
Callers == Senders \cup Streams
Restart == NumStreams + 1
Closer == NumStreams + 2
Procs == Callers \cup {Restart, Closer}

VARIABLES
    stream,        \* the Option<SignalStream> behind the RwLock
    stream_lock,   \* the RwLock: <<process, "r" or "w">> in order of arrival
    queue,         \* messages to send after a reconnection
    queue_lock,    \* the Mutex around queue, in order of arrival
    reconnecting,  \* SignalInner::reconnecting
    writer,        \* write_task of each stream
    broken,        \* streams whose websocket is closed or failed
    handle,        \* SignalClient::handle: the stream whose task it is
    pc,            \* program counter of each process
    on,            \* the stream a process is sending on or closing
    sent,          \* callers that have called send()
    received       \* what the server received, in order

lockVars == <<stream_lock, queue_lock>>
streamVars == <<stream, writer, broken, handle>>
vars == <<streamVars, lockVars, queue, reconnecting, pc, on, sent,
          received>>

-----------------------------------------------------------------------------
(* The locks *)

Reads(p) == \E i \in DOMAIN stream_lock :
               /\ stream_lock[i] = <<p, "r">>
               /\ \A j \in 1..(i - 1) : stream_lock[j][2] = "r"
Writes(p) == stream_lock # <<>> /\ Head(stream_lock) = <<p, "w">>
HasQueue(p) == queue_lock # <<>> /\ Head(queue_lock) = p

Await(p, mode) == stream_lock' = Append(stream_lock, <<p, mode>>)
Released(p) ==
    LET mine == {i \in DOMAIN stream_lock : stream_lock[i][1] = p} IN
    IF mine = {} THEN stream_lock ELSE RemoveAt(stream_lock, CHOOSE i \in mine : TRUE)
Release(p) == stream_lock' = Released(p)
AwaitQueue(p) == queue_lock' = Append(queue_lock, p)
ReleaseQueue == queue_lock' = Tail(queue_lock)

Goto(p, point) == pc' = [pc EXCEPT ![p] = point]

is_queuable(m) == m \notin Unqueuable

-----------------------------------------------------------------------------
Init ==
    /\ stream = 1
    /\ stream_lock = <<>>
    /\ queue = <<>>
    /\ queue_lock = <<>>
    /\ reconnecting = FALSE
    /\ writer = [g \in Streams |-> IF g = 1 THEN "up" ELSE "none"]
    /\ broken = {}
    /\ handle = 1
    /\ pc = [p \in Procs |-> IF p \in Streams \ {1} THEN "none" ELSE "idle"]
    /\ on = [p \in Procs |-> NoStream]
    /\ sent = {}
    /\ received = <<>>

-----------------------------------------------------------------------------
(* send *)

\* Queue the message while reconnecting, else flush the queue first.
SendCall(p) ==
    /\ pc[p] = "idle"
    /\ p \notin sent
    /\ sent' = sent \cup {p}
    /\ \/ /\ ~reconnecting
          /\ AwaitQueue(p)
          /\ Goto(p, "flush")
       \/ /\ reconnecting /\ is_queuable(p)
          /\ AwaitQueue(p)
          /\ Goto(p, "queue_message")
       \/ /\ reconnecting /\ ~is_queuable(p)
          /\ Goto(p, "idle")
          /\ UNCHANGED queue_lock
    /\ UNCHANGED <<streamVars, stream_lock, queue, reconnecting, on, received>>

\* Where flush_queue returns to: send goes on to read the stream, restart is
\* done.
AfterFlush(p) ==
    IF p = Restart
    THEN Goto(p, "spawn") /\ Release(p)
    ELSE Goto(p, "read") /\ stream_lock' = Append(Released(p), <<p, "r">>)

\* flush_queue holds the queue's lock and awaits the stream's.
FlushLocked(p) ==
    /\ pc[p] = "flush"
    /\ HasQueue(p)
    /\ IF queue = <<>>
       THEN AfterFlush(p) /\ ReleaseQueue
       ELSE Goto(p, "flush_read") /\ Await(p, "r") /\ UNCHANGED queue_lock
    /\ UNCHANGED <<streamVars, queue, reconnecting, on, sent, received>>

FlushRead(p) ==
    /\ pc[p] = "flush_read"
    /\ Reads(p)
    /\ IF stream = NoStream
       THEN AfterFlush(p) /\ ReleaseQueue /\ UNCHANGED on
       ELSE /\ Goto(p, "flush_send")
            /\ on' = [on EXCEPT ![p] = stream]
            /\ UNCHANGED lockVars
    /\ UNCHANGED <<streamVars, queue, reconnecting, sent, received>>

\* The write_task of g can write: the call returns Ok.
Written(g) == writer[g] = "up" /\ g \notin broken \cup Stuck

\* The write fails (WsError), or the write_task is gone (SendError).
WsFailed(g) == writer[g] = "up" /\ g \in broken
Ended(g) == writer[g] = "ended"

\* Mutant: the queue is iterated but not drained.
FlushSend_NoDrain(p) ==
    /\ pc[p] = "flush_send"
    /\ queue # <<>>
    /\ Written(on[p])
    /\ Len(received) < 4
    /\ received' = Append(received, Head(queue))
    /\ UNCHANGED <<streamVars, lockVars, queue, reconnecting, pc, on, sent>>

\* One message of the drained queue; an error loses it.
FlushSend(p) ==
    /\ pc[p] = "flush_send"
    /\ queue # <<>>
    /\ \/ /\ Written(on[p])
          /\ received' = Append(received, Head(queue))
          /\ UNCHANGED writer
       \/ /\ WsFailed(on[p]) \/ Ended(on[p])
          /\ writer' = [writer EXCEPT ![on[p]] = "ended"]
          /\ UNCHANGED received
    /\ queue' = Tail(queue)
    /\ UNCHANGED <<stream, broken, handle, lockVars, reconnecting, pc, on,
                   sent>>

FlushDone(p) ==
    /\ pc[p] = "flush_send"
    /\ queue = <<>>
    /\ AfterFlush(p)
    /\ ReleaseQueue
    /\ UNCHANGED <<streamVars, queue, reconnecting, on, sent, received>>

\* Without a stream the message is dropped.
ReadStream(p) ==
    /\ pc[p] = "read"
    /\ Reads(p)
    /\ IF stream = NoStream
       THEN /\ Goto(p, "idle")
            /\ Release(p)
            /\ UNCHANGED on
       ELSE /\ Goto(p, "sending")
            /\ on' = [on EXCEPT ![p] = stream]
            /\ UNCHANGED stream_lock
    /\ UNCHANGED <<streamVars, queue_lock, queue, reconnecting, sent,
                   received>>

SendOk(p) ==
    /\ pc[p] = "sending"
    /\ Written(on[p])
    /\ received' = Append(received, p)
    /\ Goto(p, "idle")
    /\ Release(p)
    /\ UNCHANGED <<streamVars, queue_lock, queue, reconnecting, on, sent>>

\* Only a SendError queues the message; the read guard is still held.
SendFailed(p) ==
    /\ pc[p] = "sending"
    /\ \/ /\ Ended(on[p]) /\ is_queuable(p)
          /\ Goto(p, "requeue")
          /\ AwaitQueue(p)
          /\ UNCHANGED <<stream_lock, writer>>
       \/ /\ Ended(on[p]) /\ ~is_queuable(p)
          /\ Goto(p, "idle")
          /\ Release(p)
          /\ UNCHANGED <<queue_lock, writer>>
       \/ /\ WsFailed(on[p])
          /\ writer' = [writer EXCEPT ![on[p]] = "ended"]
          /\ Goto(p, "idle")
          /\ Release(p)
          /\ UNCHANGED queue_lock
    /\ UNCHANGED <<stream, broken, handle, queue, reconnecting, on, sent,
                   received>>

queue_message(p) ==
    /\ pc[p] \in {"queue_message", "requeue"}
    /\ HasQueue(p)
    /\ queue' = Append(queue, p)
    /\ ReleaseQueue
    /\ Release(p)
    /\ Goto(p, "idle")
    /\ UNCHANGED <<streamVars, reconnecting, on, sent, received>>

-----------------------------------------------------------------------------
(* close, by close(), restart() and the end of a signal_task *)

\* inner.close: await the write lock ...
CloseCall(p, from, to) ==
    /\ pc[p] = from
    /\ Await(p, "w")
    /\ Goto(p, to)
    /\ UNCHANGED <<streamVars, queue_lock, queue, reconnecting, on, sent,
                   received>>

\* Mutant: the stream is taken without waiting for its readers.
CloseStream_NoWait(p, from, to) ==
    /\ pc[p] = from
    /\ stream' = NoStream
    /\ writer' = IF stream = NoStream THEN writer
                 ELSE [writer EXCEPT ![stream] = "ended"]
    /\ Release(p)
    /\ Goto(p, to)
    /\ on' = [on EXCEPT ![p] = stream]
    /\ UNCHANGED <<broken, handle, queue_lock, queue, reconnecting, sent,
                   received>>

\* ... take the stream, and close it under the lock: within CLOSE_TIMEOUT its
\* write_task has ended or is cancelled.
CloseStream(p, from, to) ==
    /\ pc[p] = from
    /\ Writes(p)
    /\ stream' = NoStream
    /\ writer' = IF stream = NoStream THEN writer
                 ELSE [writer EXCEPT ![stream] = "ended"]
    /\ Release(p)
    /\ Goto(p, to)
    /\ on' = [on EXCEPT ![p] = stream]
    /\ UNCHANGED <<broken, handle, queue_lock, queue, reconnecting, sent,
                   received>>

\* Mutant: the handle is left in place and the task not awaited.
TakeHandle_NoAwait(p, from, to) ==
    /\ pc[p] = from
    /\ on' = [on EXCEPT ![p] = NoStream]
    /\ Goto(p, to)
    /\ UNCHANGED <<streamVars, lockVars, queue, reconnecting, sent,
                   received>>

\* SignalClient::close then takes the handle and awaits the signal_task.
TakeHandle(p, from, to) ==
    /\ pc[p] = from
    /\ handle' = NoStream
    /\ on' = [on EXCEPT ![p] = handle]
    /\ Goto(p, to)
    /\ UNCHANGED <<stream, writer, broken, lockVars, queue, reconnecting,
                   sent, received>>

TaskJoined(p, from, to) ==
    /\ pc[p] = from
    /\ on[p] # NoStream => pc[on[p]] = "done"
    /\ Goto(p, to)
    /\ UNCHANGED <<streamVars, lockVars, queue, reconnecting, on, sent,
                   received>>

Close ==
    \/ CloseCall(Closer, "idle", "close")
    \/ CloseStream(Closer, "close", "take_handle")
    \/ TakeHandle(Closer, "take_handle", "join")
    \/ TaskJoined(Closer, "join", "done")

-----------------------------------------------------------------------------
(* signal_task *)

\* internal_events ended with the read_task.
EventsEnd(g) ==
    /\ writer[g] = "ended" \/ g \in broken
    /\ CloseCall(g, "idle", "task_close")

\* No message for ping_timeout.
PingTimeout(g) == CloseCall(g, "idle", "task_close")

TaskCloses(g) == CloseStream(g, "task_close", "done")

-----------------------------------------------------------------------------
(* restart *)

\* The session resumes, for a lost signal link or a lost peer connection, as
\* often as there are streams left.
RestartCall ==
    /\ \E g \in Streams : writer[g] = "none"
    /\ CloseCall(Restart, "idle", "r_close")

\* The write lock is held for the whole connection attempt.
Reconnecting ==
    /\ pc[Restart] = "r_connect"
    /\ Writes(Restart)
    /\ reconnecting' = TRUE
    /\ Goto(Restart, "connecting")
    /\ UNCHANGED <<streamVars, lockVars, queue, on, sent, received>>

\* Mutant: the queue is flushed with the write guard still held.
Reconnected_NoDrop(g) ==
    /\ pc[Restart] = "connecting"
    /\ writer[g] = "none"
    /\ \A h \in 1..(g - 1) : writer[h] # "none"
    /\ stream' = g
    /\ writer' = [writer EXCEPT ![g] = "up"]
    /\ on' = [on EXCEPT ![Restart] = g]
    /\ AwaitQueue(Restart)
    /\ Goto(Restart, "flush")
    /\ UNCHANGED <<broken, handle, stream_lock, queue, reconnecting, sent,
                   received>>

\* The ReconnectResponse arrived: install the stream, drop the lock, flush.
Reconnected(g) ==
    /\ pc[Restart] = "connecting"
    /\ writer[g] = "none"
    /\ \A h \in 1..(g - 1) : writer[h] # "none"
    /\ stream' = g
    /\ writer' = [writer EXCEPT ![g] = "up"]
    /\ on' = [on EXCEPT ![Restart] = g]
    /\ Release(Restart)
    /\ AwaitQueue(Restart)
    /\ Goto(Restart, "flush")
    /\ UNCHANGED <<broken, handle, queue, reconnecting, sent, received>>

\* The attempt failed: the guards and the scopeguard run.  The session's next
\* resume calls restart again.
RestartFailed ==
    /\ pc[Restart] = "connecting"
    /\ reconnecting' = FALSE
    /\ Release(Restart)
    /\ Goto(Restart, "idle")
    /\ UNCHANGED <<streamVars, queue_lock, queue, on, sent, received>>

\* The stream the queue was flushed on gets its signal_task.
RestartDone ==
    /\ pc[Restart] = "spawn"
    /\ reconnecting' = FALSE
    /\ LET g == on[Restart] IN
         /\ handle' = g
         /\ pc' = [pc EXCEPT ![Restart] = "idle", ![g] = "idle"]
    /\ UNCHANGED <<stream, writer, broken, lockVars, queue, on, sent,
                   received>>

RestartStep ==
    \/ CloseStream(Restart, "r_close", "r_handle")
    \/ TakeHandle(Restart, "r_handle", "r_join")
    \/ TaskJoined(Restart, "r_join", "r_joined")
    \/ CloseCall(Restart, "r_joined", "r_close_again")
    \/ CloseStream(Restart, "r_close_again", "r_closed")
    \/ CloseCall(Restart, "r_closed", "r_connect")
    \/ Reconnecting
    \/ \E g \in Streams : Reconnected(g)
    \/ RestartFailed
    \/ RestartDone

-----------------------------------------------------------------------------
(* The websocket *)

\* The connection fails or the server closes it.
WsBreaks(g) ==
    /\ writer[g] = "up"
    /\ g \notin broken
    /\ broken' = broken \cup {g}
    /\ UNCHANGED <<stream, writer, handle, lockVars, queue, reconnecting, pc,
                   on, sent, received>>

\* The read_task ended and told the write_task to close.
WriterEnds(g) ==
    /\ writer[g] = "up"
    /\ g \in broken
    /\ writer' = [writer EXCEPT ![g] = "ended"]
    /\ UNCHANGED <<stream, broken, handle, lockVars, queue, reconnecting, pc,
                   on, sent, received>>

-----------------------------------------------------------------------------
\* What a process does once it has called send, or once restart flushes.
SendStep(p) ==
    \/ FlushLocked(p) \/ FlushRead(p) \/ FlushSend(p) \/ FlushDone(p)
    \/ p \in Callers /\ (\/ ReadStream(p) \/ SendOk(p) \/ SendFailed(p)
                         \/ queue_message(p))

TaskStep(g) == EventsEnd(g) \/ TaskCloses(g)

Resuming ==
    \/ \E p \in Callers : SendCall(p)
    \/ \E p \in Callers \cup {Restart} : SendStep(p)
    \/ \E g \in Streams : \/ TaskStep(g) \/ PingTimeout(g)
                          \/ WsBreaks(g) \/ WriterEnds(g)
    \/ RestartCall
    \/ RestartStep

Next == Resuming \/ Close

Safe == Init /\ [][Next]_vars

\* Every task that can run does; the network owes nothing except that a
\* broken connection is noticed.
Fairness ==
    /\ \A p \in Callers \cup {Restart} : WF_vars(SendStep(p))
    /\ \A g \in Streams : WF_vars(TaskStep(g)) /\ WF_vars(WriterEnds(g))
    /\ \A g \in Stuck : WF_vars(PingTimeout(g))
    /\ WF_vars(RestartStep)
    /\ WF_vars(Close /\ pc[Closer] # "idle")

Spec == Safe /\ Fairness

-----------------------------------------------------------------------------
(* Properties *)

Points == {"none", "idle", "flush", "flush_read", "flush_send", "read",
           "sending", "requeue", "queue_message", "task_close", "close",
           "take_handle", "join", "r_close", "r_handle", "r_join", "r_joined",
           "r_close_again", "r_closed", "r_connect", "connecting", "spawn",
           "done"}

\* Every variable has its type.
TypeOK ==
    /\ stream \in 0..NumStreams
    /\ stream_lock \in Seq(Procs \X {"r", "w"})
    /\ queue \in Seq(Callers)
    /\ queue_lock \in Seq(Procs)
    /\ reconnecting \in BOOLEAN
    /\ writer \in [Streams -> {"none", "up", "ended"}]
    /\ broken \subseteq Streams
    /\ handle \in 0..NumStreams
    /\ pc \in [Procs -> Points]
    /\ on \in [Procs -> 0..NumStreams]
    /\ sent \subseteq Callers
    /\ received \in Seq(Callers)

\* At most one stream is open: whoever takes the stream out of the lock ends
\* its tasks before the lock lets a new one in.
OneOpenStream ==
    \A g, h \in Streams : writer[g] = "up" /\ writer[h] = "up" => g = h

\* Nobody sends on a stream that is no longer the current one: close waits for
\* the readers of the stream before it takes it.
SendersUseCurrentStream ==
    \A p \in Callers :
        pc[p] \in {"sending", "flush_send", "requeue"} => on[p] = stream

\* Nobody else touches the queue between the emptiness check and the end of a
\* flush, so no two flushes interleave and the server sees no message twice.
AtMostOnce == IsInjective(received)

\* While no close() is called, the signal_task of an old stream never closes
\* a newer one: restart waits for it first.
TaskClosesItsOwn ==
    [][\A g \in Streams :
          pc[Closer] = "idle" /\ pc[g] = "task_close" /\ pc'[g] = "done" =>
              stream \in {g, NoStream}]_vars

\* A restart always ends, whatever the senders and the old signal_task hold, as
\* long as nobody closes the client, no sender queues its message with the
\* guard of the stream in hand (CloseEnds is about what that does), and none
\* writes to a peer that no longer reads.
RestartEnds ==
    [](/\ pc[Closer] = "idle"
       /\ \A p \in Callers : /\ pc[p] # "requeue"
                             /\ pc[p] \in {"sending", "flush_send"} =>
                                   on[p] \notin Stuck) =>
        (pc[Restart] = "r_close" ~> pc[Restart] = "idle")

\* "Bound teardown even when the peer or the send queue is stuck": a close()
\* that was called returns.
CloseEnds == pc[Closer] = "close" ~> pc[Closer] = "done"

=============================================================================
