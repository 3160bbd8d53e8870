---------------------------------- MODULE Rpc ----------------------------------
(***************************************************************************)
(* Remote procedure calls between two participants, livekit/src/room/      *)
(* participant/local_participant.rs: perform_rpc on the caller's side with *)
(* its two maps of pending channels, handle_incoming_rpc_request on the    *)
(* destination's, and the three messages between them.                     *)
(*                                                                         *)
(* The network is the set of messages sent: each arrives any number of     *)
(* times, in any order, or never, which also stands for a publish that     *)
(* fails, and for one that fails and is sent again by the retry queue.     *)
(* There is one method; its payloads are left out.                         *)
(***************************************************************************)
EXTENDS Naturals, FiniteSets

CONSTANTS
    Calls,            \* request ids of the calls made (bound)
    MaxDeliveries,    \* times a request reaches its destination, in all (bound)
    HandlerAnswers,   \* how an invocation of the handler ends: a payload, an error of its
                      \* own, ResponsePayloadTooLarge, ApplicationError after a panic
    None              \* no answer, no outcome

VARIABLES
    \* the caller
    call,                \* where perform_rpc is
    outcome,             \* what it returned
    pending_acks,        \* rpc_state.pending_acks
    pending_responses,   \* rpc_state.pending_responses
    acked,               \* what the channel of the ack holds
    response,            \* what the channel of the response holds
    \* the network
    sent,
    \* the destination
    tasks,               \* handle_incoming_rpc_request, one for each delivery
    registered           \* the method has a handler

callerVars == <<call, outcome, pending_acks, pending_responses, acked, response>>
vars == <<callerVars, sent, tasks, registered>>

-----------------------------------------------------------------------------
Answers == HandlerAnswers \cup {"UnsupportedMethod"}
LocalErrors == {"refused", "SendFailed", "ConnectionTimeout", "ResponseTimeout",
                "cancelled"}

ASSUME DeliveriesAssumption == MaxDeliveries \in Nat
ASSUME NoneAssumption == None \notin Answers \cup LocalErrors

Request(c) == [type |-> "request", id |-> c]
Ack(c) == [type |-> "ack", id |-> c]
Response(c, v) == [type |-> "response", id |-> c, value |-> v]

Task(c, n, step, v) == [id |-> c, delivery |-> n, step |-> step, value |-> v]

Init ==
    /\ call = [c \in Calls |-> "idle"]
    /\ outcome = [c \in Calls |-> None]
    /\ pending_acks = {}
    /\ pending_responses = {}
    /\ acked = [c \in Calls |-> FALSE]
    /\ response = [c \in Calls |-> None]
    /\ sent = {}
    /\ tasks = {}
    /\ registered = FALSE

-----------------------------------------------------------------------------
(* perform_rpc *)

Returns(c, o) ==
    /\ call' = [call EXCEPT ![c] = "over"]
    /\ outcome' = [outcome EXCEPT ![c] = o]

\* The payload is too large, or the server too old.
Refused(c) ==
    /\ call[c] = "idle"
    /\ Returns(c, "refused")
    /\ UNCHANGED <<pending_acks, pending_responses, acked, response, sent, tasks,
                   registered>>

\* Both channels are registered before the request is published.
perform_rpc(c) ==
    /\ call[c] = "idle"
    /\ call' = [call EXCEPT ![c] = "publishing"]
    /\ pending_acks' = pending_acks \cup {c}
    /\ pending_responses' = pending_responses \cup {c}
    /\ sent' = sent \cup {Request(c)}
    /\ UNCHANGED <<outcome, acked, response, tasks, registered>>

RequestPublished(c) ==
    /\ call[c] = "publishing"
    /\ call' = [call EXCEPT ![c] = "awaitingAck"]
    /\ UNCHANGED <<outcome, pending_acks, pending_responses, acked, response, sent, tasks,
                   registered>>

\* An error of publish_data; the packet may be in the retry queue all the same.
PublishFails(c) ==
    /\ call[c] = "publishing"
    /\ Returns(c, "SendFailed")
    /\ pending_acks' = pending_acks \ {c}
    /\ pending_responses' = pending_responses \ {c}
    /\ UNCHANGED <<acked, response, sent, tasks, registered>>

AckReceived(c) ==
    /\ call[c] = "awaitingAck"
    /\ acked[c]
    /\ call' = [call EXCEPT ![c] = "awaitingResponse"]
    /\ UNCHANGED <<outcome, pending_acks, pending_responses, acked, response, sent, tasks,
                   registered>>

\* Mutant: the timer does not count once the response is there.
AckTimeout_Unanswered(c) ==
    /\ call[c] = "awaitingAck"
    /\ ~acked[c] /\ response[c] = None
    /\ Returns(c, "ConnectionTimeout")
    /\ pending_acks' = pending_acks \ {c}
    /\ pending_responses' = pending_responses \ {c}
    /\ UNCHANGED <<acked, response, sent, tasks, registered>>

\* The seven seconds for the ack; a response that is there already goes with it.
AckTimeout(c) ==
    /\ call[c] = "awaitingAck"
    /\ ~acked[c]
    /\ Returns(c, "ConnectionTimeout")
    /\ pending_acks' = pending_acks \ {c}
    /\ pending_responses' = pending_responses \ {c}
    /\ UNCHANGED <<acked, response, sent, tasks, registered>>

ResponseReceived(c) ==
    /\ call[c] = "awaitingResponse"
    /\ response[c] # None
    /\ Returns(c, response[c])
    /\ UNCHANGED <<pending_acks, pending_responses, acked, response, sent, tasks,
                   registered>>

ResponseTimeout(c) ==
    /\ call[c] = "awaitingResponse"
    /\ response[c] = None
    /\ Returns(c, "ResponseTimeout")
    /\ pending_responses' = pending_responses \ {c}
    /\ UNCHANGED <<pending_acks, acked, response, sent, tasks, registered>>

InProgress(c) == call[c] \in {"publishing", "awaitingAck", "awaitingResponse"}

\* The application drops the future: nothing takes the channels out of the maps.
Cancelled(c) ==
    /\ InProgress(c)
    /\ Returns(c, "cancelled")
    /\ UNCHANGED <<pending_acks, pending_responses, acked, response, sent, tasks,
                   registered>>

-----------------------------------------------------------------------------
(* Messages that reach the caller *)

handle_incoming_rpc_ack(c) ==
    /\ Ack(c) \in sent
    /\ c \in pending_acks
    /\ pending_acks' = pending_acks \ {c}
    /\ acked' = [acked EXCEPT ![c] = TRUE]
    /\ UNCHANGED <<call, outcome, pending_responses, response, sent, tasks, registered>>

\* Mutant: the response is given to any call that waits for one.
handle_incoming_rpc_response_Any(c) ==
    /\ c \in pending_responses
    /\ pending_responses' = pending_responses \ {c}
    /\ \E d \in Calls : \E v \in Answers :
          /\ Response(d, v) \in sent
          /\ response' = [response EXCEPT ![c] = v]
    /\ UNCHANGED <<call, outcome, pending_acks, acked, sent, tasks, registered>>

handle_incoming_rpc_response(c) ==
    /\ c \in pending_responses
    /\ pending_responses' = pending_responses \ {c}
    /\ \E v \in Answers :
          /\ Response(c, v) \in sent
          /\ response' = [response EXCEPT ![c] = v]
    /\ UNCHANGED <<call, outcome, pending_acks, acked, sent, tasks, registered>>

-----------------------------------------------------------------------------
(* The destination *)

\* EngineEvent::RpcRequest starts a task, whose first step is to publish the ack.
RequestDelivered(c) ==
    /\ Request(c) \in sent
    /\ \E n \in 1..MaxDeliveries :
          /\ \A t \in tasks : t.delivery < n
          /\ tasks' = tasks \cup {Task(c, n, "acking", None)}
    /\ UNCHANGED <<callerVars, sent, registered>>

TaskMoves(t, step, v) ==
    tasks' = (tasks \ {t}) \cup {Task(t.id, t.delivery, step, v)}

\* The handler is looked up after the ack has been published.
AckPublished(t) ==
    /\ t.step = "acking"
    /\ sent' = sent \cup {Ack(t.id)}
    /\ IF registered THEN TaskMoves(t, "invoking", None)
       ELSE TaskMoves(t, "responding", "UnsupportedMethod")
    /\ UNCHANGED <<callerVars, registered>>

HandlerEnds(t) ==
    /\ t.step = "invoking"
    /\ \E v \in HandlerAnswers : TaskMoves(t, "responding", v)
    /\ UNCHANGED <<callerVars, sent, registered>>

ResponsePublished(t) ==
    /\ t.step = "responding"
    /\ sent' = sent \cup {Response(t.id, t.value)}
    /\ TaskMoves(t, "over", t.value)
    /\ UNCHANGED <<callerVars, registered>>

register_rpc_method ==
    /\ ~registered
    /\ registered' = TRUE
    /\ UNCHANGED <<callerVars, sent, tasks>>

unregister_rpc_method ==
    /\ registered
    /\ registered' = FALSE
    /\ UNCHANGED <<callerVars, sent, tasks>>

-----------------------------------------------------------------------------
\* The steps that perform_rpc takes by itself once its request is published: a timer
\* ends each wait.
CallerStep(c) ==
    \/ AckReceived(c) \/ AckTimeout(c)
    \/ ResponseReceived(c) \/ ResponseTimeout(c)

Next ==
    \/ \E c \in Calls :
          \/ Refused(c) \/ perform_rpc(c) \/ RequestPublished(c) \/ PublishFails(c)
          \/ CallerStep(c) \/ Cancelled(c)
          \/ handle_incoming_rpc_ack(c) \/ handle_incoming_rpc_response(c)
          \/ RequestDelivered(c)
    \/ \E t \in tasks : AckPublished(t) \/ HandlerEnds(t) \/ ResponsePublished(t)
    \/ register_rpc_method \/ unregister_rpc_method

\* No timer bounds the publish: publish_data waits for a reconnection and for room in
\* the data channel, so that its end is not among what is fair.
Safe == Init /\ [][Next]_vars
Spec == Safe /\ \A c \in Calls : WF_vars(CallerStep(c))

-----------------------------------------------------------------------------
(* Properties *)

Messages ==
    [type : {"request", "ack"}, id : Calls]
      \cup [type : {"response"}, id : Calls, value : Answers]
Tasks ==
    [id : Calls, delivery : 1..MaxDeliveries, step : {"acking", "invoking"},
     value : {None}]
      \cup [id : Calls, delivery : 1..MaxDeliveries, step : {"responding", "over"},
            value : Answers]

\* Every variable has its type.
TypeOK ==
    /\ call \in [Calls -> {"idle", "publishing", "awaitingAck", "awaitingResponse",
                           "over"}]
    /\ outcome \in [Calls -> Answers \cup LocalErrors \cup {None}]
    /\ pending_acks \subseteq Calls
    /\ pending_responses \subseteq Calls
    /\ acked \in [Calls -> BOOLEAN]
    /\ response \in [Calls -> Answers \cup {None}]
    /\ sent \subseteq Messages
    /\ tasks \subseteq Tasks
    /\ registered \in BOOLEAN

\* A call that came back leaves nothing in the maps, whichever of the publish, the
\* two answers and the two timers came first and whatever arrives afterwards.  A
\* call that the application dropped is another matter.
NothingLeftPending ==
    \A c \in Calls :
        call[c] = "over" /\ outcome[c] # "cancelled" =>
            c \notin pending_acks \cup pending_responses

\* What the destination has answered to each call.
AnswersGiven ==
    [c \in Calls |->
        {t.value : t \in {u \in tasks : u.id = c /\ u.step \in {"responding", "over"}}}]

Promise == INSTANCE RpcCall WITH
    called <- {c \in Calls : call[c] # "idle"},
    answers <- AnswersGiven,
    NoOutcome <- None

\* A call comes back at most once, with an answer its destination gave to this very
\* call or an error of its own, although acks, responses and requests are repeated,
\* overtake each other and outlive their calls.
ImplementsRpcCall == Promise!Safe

\* Every call whose publish ends comes back, although any message may be lost: the two
\* timers bound the waits for the ack and the response.  Excepted is a call whose
\* publish_data never returns: it may wait for ever in the data channel while it holds
\* the guard that the reconnection needs, and perform_rpc puts no timer on it.
CallsEnd ==
    \A c \in Calls : []<>(call[c] # "publishing") => Promise!Returns(c)

=============================================================================
