-------------------------------- MODULE RpcProofs --------------------------------
(***************************************************************************)
(* Proofs about Rpc, for any number of calls and of deliveries: a call     *)
(* that came back leaves nothing behind, and Rpc implements RpcCall.       *)
(***************************************************************************)
EXTENDS Rpc, TLAPS

\* A channel that holds a value is in no map any more, and a call that has not begun
\* has none.
ChannelsInv ==
    \A c \in Calls :
        /\ acked[c] => c \notin pending_acks
        /\ response[c] # None => c \notin pending_responses
        /\ call[c] = "awaitingResponse" => c \notin pending_acks
        /\ call[c] = "idle" => /\ c \notin pending_acks \cup pending_responses
                               /\ ~acked[c] /\ response[c] = None

\* An outcome is there exactly when the call is over.
OutcomeInv == \A c \in Calls : (call[c] = "over") <=> (outcome[c] # None)

Answered(c, v) ==
    \E t \in tasks : t.id = c /\ t.step \in {"responding", "over"} /\ t.value = v

\* Whatever is on its way to a call, or in its channel, is an answer to this call, and
\* nothing is before the call has begun.
AnswersInv ==
    /\ \A c \in Calls, v \in Answers :
          (Response(c, v) \in sent \/ response[c] = v) => Answered(c, v)
    /\ \A c \in Calls : Request(c) \in sent => call[c] # "idle"
    /\ \A t \in tasks : call[t.id] # "idle"

IInv == TypeOK /\ ChannelsInv /\ OutcomeInv /\ AnswersInv /\ NothingLeftPending

-----------------------------------------------------------------------------
\* What a task does next keeps every answer given so far.
LEMMA MovedTask ==
    ASSUME TypeOK, NEW t \in tasks, NEW step, NEW v, TaskMoves(t, step, v),
           t.step \in {"acking", "invoking"} \/ (step = "over" /\ v = t.value),
           NEW c, NEW w, Answered(c, w)
    PROVE  Answered(c, w)'
<1>1. PICK u \in tasks : u.id = c /\ u.step \in {"responding", "over"} /\ u.value = w
  BY DEF Answered
<1>2. CASE u = t
  <2>1. step = "over" /\ v = t.value
    BY <1>1, <1>2
  <2>2. Task(t.id, t.delivery, step, v) \in tasks'
    BY DEF TaskMoves
  <2> QED
    BY <1>1, <1>2, <2>1, <2>2 DEF Answered, Task
<1>3. CASE u # t
  <2>1. u \in tasks'
    BY <1>3 DEF TaskMoves
  <2> QED
    BY <1>1, <2>1 DEF Answered
<1> QED
  BY <1>2, <1>3

\* Nobody but a task changes tasks, and every call keeps the answers it has.
LEMMA KeptAnswers ==
    ASSUME TypeOK, [Next]_vars, NEW c \in Calls, NEW w \in Answers, Answered(c, w)
    PROVE  Answered(c, w)'
<1>1. CASE UNCHANGED tasks
  BY <1>1 DEF Answered
<1>2. CASE \E d \in Calls : RequestDelivered(d)
  <2>1. tasks \subseteq tasks'
    BY <1>2 DEF RequestDelivered
  <2> QED
    BY <2>1 DEF Answered
<1>3. ASSUME NEW t \in tasks, AckPublished(t) \/ HandlerEnds(t) \/ ResponsePublished(t)
      PROVE  Answered(c, w)'
  <2>1. CASE AckPublished(t)
    BY <1>3, <2>1, MovedTask DEF AckPublished
  <2>2. CASE HandlerEnds(t)
    <3>1. PICK v \in HandlerAnswers : TaskMoves(t, "responding", v)
      BY <2>2 DEF HandlerEnds
    <3> QED
      BY <2>2, <3>1, <1>3, MovedTask DEF HandlerEnds
  <2>3. CASE ResponsePublished(t)
    BY <1>3, <2>3, MovedTask DEF ResponsePublished
  <2> QED
    BY <1>3, <2>1, <2>2, <2>3
<1>4. CASE \E d \in Calls : \/ Refused(d) \/ perform_rpc(d) \/ RequestPublished(d)
                            \/ PublishFails(d) \/ CallerStep(d) \/ Cancelled(d)
                            \/ handle_incoming_rpc_ack(d) \/ handle_incoming_rpc_response(d)
  <2>1. UNCHANGED tasks
    BY <1>4 DEF Refused, perform_rpc, CallerStep, RequestPublished, PublishFails, AckReceived,
       AckTimeout, ResponseReceived, ResponseTimeout, Cancelled, handle_incoming_rpc_ack,
       handle_incoming_rpc_response
  <2> QED
    BY <1>1, <2>1
<1>5. CASE register_rpc_method \/ unregister_rpc_method \/ UNCHANGED vars
  BY <1>1, <1>5 DEF register_rpc_method, unregister_rpc_method, vars
<1> QED
  BY <1>2, <1>3, <1>4, <1>5 DEF Next

-----------------------------------------------------------------------------
LEMMA InitInv == Init => IInv
BY NoneAssumption
   DEF Init, IInv, TypeOK, ChannelsInv, OutcomeInv, AnswersInv, NothingLeftPending

\* A step of perform_rpc, whose effects are on one call only.
LEMMA CallerKeepsInv ==
    ASSUME IInv, NEW c \in Calls,
           Refused(c) \/ perform_rpc(c) \/ RequestPublished(c) \/ PublishFails(c)
           \/ CallerStep(c) \/ Cancelled(c)
    PROVE  TypeOK' /\ ChannelsInv' /\ OutcomeInv' /\ NothingLeftPending'
<1> USE NoneAssumption
<1>1. CASE Refused(c)
  BY <1>1 DEF IInv, Refused, Returns, TypeOK, ChannelsInv, OutcomeInv, NothingLeftPending,
     LocalErrors
<1>2. CASE perform_rpc(c)
  <2>1. TypeOK'
    BY <1>2 DEF IInv, perform_rpc, TypeOK, Request, Messages
  <2> QED
    BY <1>2, <2>1 DEF IInv, perform_rpc, TypeOK, ChannelsInv, OutcomeInv, NothingLeftPending
<1>3. CASE RequestPublished(c) \/ AckReceived(c)
  BY <1>3 DEF IInv, RequestPublished, AckReceived, TypeOK, ChannelsInv, OutcomeInv,
     NothingLeftPending
<1>4. CASE PublishFails(c) \/ AckTimeout(c) \/ ResponseTimeout(c)
  BY <1>4 DEF IInv, PublishFails, AckTimeout, ResponseTimeout, Returns, TypeOK, ChannelsInv,
     OutcomeInv, NothingLeftPending, LocalErrors
<1>5. CASE ResponseReceived(c)
  BY <1>5 DEF IInv, ResponseReceived, Returns, TypeOK, ChannelsInv, OutcomeInv,
     NothingLeftPending
<1>6. CASE Cancelled(c)
  BY <1>6 DEF IInv, Cancelled, InProgress, Returns, TypeOK, ChannelsInv, OutcomeInv,
     NothingLeftPending, LocalErrors
<1> QED
  BY <1>1, <1>2, <1>3, <1>4, <1>5, <1>6 DEF CallerStep

\* Messages that reach the caller, and the destination's own steps.
LEMMA OthersKeepInv ==
    ASSUME IInv, [Next]_vars,
           \/ \E c \in Calls : \/ handle_incoming_rpc_ack(c)
                               \/ handle_incoming_rpc_response(c)
                               \/ RequestDelivered(c)
           \/ \E t \in tasks : AckPublished(t) \/ HandlerEnds(t) \/ ResponsePublished(t)
           \/ register_rpc_method \/ unregister_rpc_method \/ UNCHANGED vars
    PROVE  TypeOK' /\ ChannelsInv' /\ OutcomeInv' /\ NothingLeftPending'
<1> USE NoneAssumption DEF IInv
<1>1. ASSUME NEW c \in Calls, handle_incoming_rpc_ack(c)
      PROVE  TypeOK' /\ ChannelsInv' /\ OutcomeInv' /\ NothingLeftPending'
  BY <1>1 DEF handle_incoming_rpc_ack, TypeOK, ChannelsInv, OutcomeInv, NothingLeftPending
<1>2. ASSUME NEW c \in Calls, handle_incoming_rpc_response(c)
      PROVE  TypeOK' /\ ChannelsInv' /\ OutcomeInv' /\ NothingLeftPending'
  BY <1>2 DEF handle_incoming_rpc_response, TypeOK, ChannelsInv, OutcomeInv,
     NothingLeftPending
<1>3. ASSUME NEW c \in Calls, RequestDelivered(c)
      PROVE  TypeOK' /\ UNCHANGED callerVars
  BY <1>3 DEF RequestDelivered, TypeOK, Tasks, Task, callerVars
<1>4. ASSUME NEW t \in tasks, AckPublished(t)
      PROVE  TypeOK' /\ UNCHANGED callerVars
  <2>1. t \in Tasks
    BY DEF TypeOK
  <2>2. Ack(t.id) \in Messages
    BY <2>1 DEF Tasks, Messages, Ack
  <2>3. /\ Task(t.id, t.delivery, "invoking", None) \in Tasks
        /\ Task(t.id, t.delivery, "responding", "UnsupportedMethod") \in Tasks
    BY <2>1 DEF Tasks, Task, Answers
  <2> QED
    BY <1>4, <2>2, <2>3 DEF AckPublished, TaskMoves, TypeOK, callerVars
<1>5. ASSUME NEW t \in tasks, HandlerEnds(t)
      PROVE  TypeOK' /\ UNCHANGED callerVars
  <2>1. \A v \in HandlerAnswers : Task(t.id, t.delivery, "responding", v) \in Tasks
    BY DEF TypeOK, Tasks, Task, Answers
  <2> QED
    BY <1>5, <2>1 DEF HandlerEnds, TaskMoves, TypeOK, callerVars
<1>6. ASSUME NEW t \in tasks, ResponsePublished(t)
      PROVE  TypeOK' /\ UNCHANGED callerVars
  <2>1. t \in Tasks /\ t.step = "responding"
    BY <1>6 DEF TypeOK, ResponsePublished
  <2>2. Response(t.id, t.value) \in Messages
    BY <2>1 DEF Tasks, Messages, Response
  <2>3. Task(t.id, t.delivery, "over", t.value) \in Tasks
    BY <2>1 DEF Tasks, Task
  <2> QED
    BY <1>6, <2>2, <2>3 DEF ResponsePublished, TaskMoves, TypeOK, callerVars
<1>7. CASE register_rpc_method \/ unregister_rpc_method \/ UNCHANGED vars
  BY <1>7 DEF register_rpc_method, unregister_rpc_method, vars, callerVars, TypeOK,
     ChannelsInv, OutcomeInv, NothingLeftPending
<1>8. ASSUME UNCHANGED callerVars
      PROVE  ChannelsInv' /\ OutcomeInv' /\ NothingLeftPending'
  BY <1>8 DEF callerVars, ChannelsInv, OutcomeInv, NothingLeftPending
<1> QED
  BY <1>1, <1>2, <1>3, <1>4, <1>5, <1>6, <1>7, <1>8

LEMMA MessagesDiffer ==
    \A c, d, v : /\ Request(c) # Response(d, v)
                 /\ Ack(c) # Response(d, v)
                 /\ Ack(c) # Request(d)
<1> TAKE c, d, v
<1>1. Request(c).type = "request" /\ Ack(c).type = "ack" /\ Response(d, v).type = "response"
      /\ Request(d).type = "request"
  BY DEF Request, Ack, Response
<1> QED
  BY <1>1

\* Who sends what.
LEMMA SentBy ==
    ASSUME [Next]_vars
    PROVE  \/ sent' = sent
           \/ \E c \in Calls : perform_rpc(c) /\ sent' = sent \cup {Request(c)}
           \/ \E t \in tasks : AckPublished(t) /\ sent' = sent \cup {Ack(t.id)}
           \/ \E t \in tasks : /\ ResponsePublished(t)
                               /\ sent' = sent \cup {Response(t.id, t.value)}
BY DEF Next, vars, callerVars, Refused, perform_rpc, CallerStep, RequestPublished,
   PublishFails, AckReceived, AckTimeout, ResponseReceived, ResponseTimeout, Cancelled,
   handle_incoming_rpc_ack, handle_incoming_rpc_response, RequestDelivered, AckPublished,
   HandlerEnds, ResponsePublished, register_rpc_method, unregister_rpc_method

\* Nothing is sent, or put into a channel, that its destination has not answered.
LEMMA AnswersKept ==
    ASSUME IInv, [Next]_vars
    PROVE  AnswersInv'
<1> USE NoneAssumption DEF IInv
<1>1. ASSUME NEW c \in Calls, NEW v \in Answers, Answered(c, v)
      PROVE  Answered(c, v)'
  BY <1>1, KeptAnswers
<1>2. ASSUME NEW c \in Calls, NEW v \in Answers, (Response(c, v) \in sent)'
      PROVE  Answered(c, v)'
  <2>1. CASE Response(c, v) \in sent
    BY <1>1, <2>1 DEF AnswersInv
  <2>2. CASE Response(c, v) \notin sent
    <3>1. PICK t \in tasks : ResponsePublished(t)
      BY <1>2, <2>2, SentBy, MessagesDiffer
    <3>2. t.id = c /\ t.value = v
      <4>1. Response(c, v) = Response(t.id, t.value)
        BY <1>2, <2>2, <3>1 DEF ResponsePublished
      <4>2. /\ Response(c, v).id = c /\ Response(c, v).value = v
            /\ Response(t.id, t.value).id = t.id /\ Response(t.id, t.value).value = t.value
        BY DEF Response
      <4> QED
        BY <4>1, <4>2
    <3>3. Answered(c, v)
      BY <3>1, <3>2 DEF ResponsePublished, Answered
    <3> QED
      BY <1>1, <3>3
  <2> QED
    BY <2>1, <2>2
<1>3. ASSUME NEW c \in Calls, NEW v \in Answers, (response[c] = v)'
      PROVE  Answered(c, v)'
  <2>1. CASE response[c] = v
    BY <1>1, <2>1 DEF AnswersInv
  <2>2. CASE response[c] # v
    <3>1. PICK d \in Calls : handle_incoming_rpc_response(d)
      BY <1>3, <2>2 DEF Next, vars, callerVars, Refused, perform_rpc, CallerStep,
         RequestPublished, PublishFails, AckReceived, AckTimeout, ResponseReceived,
         ResponseTimeout, Cancelled, handle_incoming_rpc_ack, RequestDelivered, AckPublished,
         HandlerEnds, ResponsePublished, register_rpc_method, unregister_rpc_method
    <3>2. d = c /\ Response(c, v) \in sent
      BY <1>3, <2>2, <3>1 DEF handle_incoming_rpc_response, TypeOK
    <3> QED
      BY <1>1, <3>2 DEF AnswersInv
  <2> QED
    BY <2>1, <2>2
<1>4. ASSUME NEW c \in Calls, call[c] # "idle"
      PROVE  call'[c] # "idle"
  BY <1>4 DEF Next, vars, callerVars, Refused, perform_rpc, CallerStep,
     RequestPublished, PublishFails, AckReceived, AckTimeout, ResponseReceived,
     ResponseTimeout, Cancelled, Returns, handle_incoming_rpc_ack,
     handle_incoming_rpc_response, RequestDelivered, AckPublished, HandlerEnds,
     ResponsePublished, register_rpc_method, unregister_rpc_method, TypeOK
<1>5. ASSUME NEW c \in Calls, (Request(c) \in sent)'
      PROVE  call'[c] # "idle"
  <2>1. CASE Request(c) \in sent
    BY <2>1, <1>4 DEF AnswersInv
  <2>2. CASE Request(c) \notin sent
    <3>1. PICK d \in Calls : perform_rpc(d) /\ Request(c) = Request(d)
      <4>1. \A d, v : Request(c) # Ack(d) /\ Request(c) # Response(d, v)
        BY MessagesDiffer
      <4>2. sent' = sent \/ Request(c) \in sent' \ sent
        BY <1>5, <2>2
      <4> QED
        BY <1>5, <2>2, <4>1, SentBy
    <3>2. Request(c).id = c /\ Request(d).id = d
      BY DEF Request
    <3> QED
      BY <3>1, <3>2 DEF perform_rpc, TypeOK
  <2> QED
    BY <2>1, <2>2
<1>6. ASSUME NEW t \in tasks'
      PROVE  call'[t.id] # "idle"
  <2>1. \/ t \in tasks
        \/ \E c \in Calls : Request(c) \in sent /\ t.id = c
        \/ \E u \in tasks : t.id = u.id
    BY DEF Next, vars, callerVars, Refused, perform_rpc, CallerStep,
       RequestPublished, PublishFails, AckReceived, AckTimeout, ResponseReceived,
       ResponseTimeout, Cancelled, handle_incoming_rpc_ack, handle_incoming_rpc_response,
       RequestDelivered, AckPublished, HandlerEnds, ResponsePublished, TaskMoves, Task,
       register_rpc_method, unregister_rpc_method
  <2>2. \A u \in tasks : u.id \in Calls
    BY DEF TypeOK, Tasks
  <2> QED
    BY <2>1, <2>2, <1>4 DEF AnswersInv
<1> QED
  BY <1>2, <1>3, <1>5, <1>6 DEF AnswersInv

\* The inductive invariant holds.
THEOREM Invariance == Safe => []IInv
<1>1. ASSUME IInv, [Next]_vars
      PROVE  IInv'
  <2>1. AnswersInv'
    BY <1>1, AnswersKept
  <2>2. TypeOK' /\ ChannelsInv' /\ OutcomeInv' /\ NothingLeftPending'
    BY <1>1, CallerKeepsInv, OthersKeepInv DEF Next
  <2> QED
    BY <2>1, <2>2 DEF IInv
<1> QED
  BY <1>1, InitInv, PTL DEF Safe

\* NothingLeftPending: a call that came back leaves nothing in the maps of rpc_state, for
\* every order of answers, timers and failures.
THEOREM NothingStaysPending == Safe => []NothingLeftPending
BY Invariance, PTL DEF IInv

-----------------------------------------------------------------------------
(* The refinement *)

\* A task that moves changes what was answered to its own call only, by one value.
LEMMA MovedAnswers ==
    ASSUME TypeOK, NEW t \in tasks, NEW step, NEW v, TaskMoves(t, step, v),
           \/ t.step \in {"acking", "invoking"} /\ step \in {"invoking", "responding"}
           \/ t.step = "responding" /\ step = "over" /\ v = t.value,
           NEW c \in Calls
    PROVE  AnswersGiven'[c] = IF c = t.id /\ step # "invoking" THEN AnswersGiven[c] \cup {v}
                              ELSE AnswersGiven[c]
<1> DEFINE new == Task(t.id, t.delivery, step, v)
           Given(u) == u.id = c /\ u.step \in {"responding", "over"}
<1>1. tasks' = (tasks \ {t}) \cup {new}
  BY DEF TaskMoves
<1>2. new.id = t.id /\ new.step = step /\ new.value = v
  BY DEF Task
<1>3. AnswersGiven[c] = {u.value : u \in {w \in tasks : Given(w)}}
  BY DEF AnswersGiven
<1>4. AnswersGiven'[c] = {u.value : u \in {w \in tasks' : Given(w)}}
  BY DEF AnswersGiven
<1>5. CASE c = t.id /\ step # "invoking"
  <2>1. Given(new)
    BY <1>2, <1>5
  <2>2. Given(t) => t.value = v
    OBVIOUS
  <2>3. \A w : w \in AnswersGiven'[c] <=> w = v \/ \E u \in tasks : u # t /\ Given(u) /\ u.value = w
    BY <1>1, <1>2, <1>4, <2>1
  <2>4. \A w : w \in AnswersGiven[c] <=> \E u \in tasks : Given(u) /\ u.value = w
    BY <1>3
  <2>5. \A w : w \in AnswersGiven'[c] <=> w \in AnswersGiven[c] \cup {v}
    BY <2>2, <2>3, <2>4
  <2>6. AnswersGiven'[c] = AnswersGiven[c] \cup {v}
    BY <2>5
  <2> QED
    BY <1>5, <2>6
<1>6. CASE ~(c = t.id /\ step # "invoking")
  <2>1. ~Given(new) /\ ~Given(t)
    BY <1>2, <1>6
  <2>2. {u \in tasks' : Given(u)} = {u \in tasks : Given(u)}
    BY <1>1, <2>1
  <2> QED
    BY <1>3, <1>4, <1>6, <2>2
<1> QED
  BY <1>5, <1>6

LEMMA InitRefines == Init => Promise!Init
BY DEF Init, Promise!Init, AnswersGiven

\* A step of perform_rpc is a step of the promise, or none.
LEMMA CallerRefines ==
    ASSUME IInv, NEW c \in Calls,
           Refused(c) \/ perform_rpc(c) \/ RequestPublished(c) \/ PublishFails(c)
           \/ CallerStep(c) \/ Cancelled(c)
    PROVE  Promise!Next \/ UNCHANGED Promise!vars
<1> DEFINE called == {d \in Calls : call[d] # "idle"}
<1>1. UNCHANGED tasks
  BY DEF Refused, perform_rpc, CallerStep, RequestPublished, PublishFails, AckReceived,
     AckTimeout, ResponseReceived, ResponseTimeout, Cancelled
<1>2. UNCHANGED AnswersGiven
  BY <1>1 DEF AnswersGiven
<1>3. TypeOK
  BY DEF IInv
<1>4. CASE Refused(c)
  <2>1. c \notin called /\ called' = called \cup {c}
    BY <1>3, <1>4 DEF Refused, Returns, TypeOK
  <2>2. Promise!Refuse(c)
    BY <1>2, <1>4, <2>1 DEF Refused, Returns, Promise!Refuse, LocalErrors
  <2> QED
    BY <2>2 DEF Promise!Next
<1>5. CASE perform_rpc(c)
  <2>1. c \notin called /\ called' = called \cup {c}
    BY <1>3, <1>5 DEF perform_rpc, TypeOK
  <2>2. Promise!Call(c)
    BY <1>2, <1>5, <2>1 DEF perform_rpc, Promise!Call
  <2> QED
    BY <2>2 DEF Promise!Next
<1>6. CASE RequestPublished(c) \/ AckReceived(c)
  <2>1. called' = called /\ UNCHANGED outcome
    BY <1>3, <1>6 DEF RequestPublished, AckReceived, TypeOK
  <2> QED
    BY <1>2, <2>1 DEF Promise!vars
<1>7. ASSUME NEW o \in LocalErrors \cup AnswersGiven[c], Returns(c, o), call[c] # "idle",
             call[c] # "over"
      PROVE  Promise!Next
  <2>1. c \in called /\ called' = called
    BY <1>3, <1>7 DEF Returns, TypeOK
  <2>2. outcome[c] = None
    BY <1>7 DEF IInv, OutcomeInv
  <2>3. Promise!Return(c)
    BY <1>2, <1>7, <2>1, <2>2 DEF Returns, Promise!Return
  <2> QED
    BY <2>3 DEF Promise!Next
<1>8. CASE PublishFails(c) \/ AckTimeout(c) \/ ResponseTimeout(c) \/ Cancelled(c)
  BY <1>7, <1>8 DEF PublishFails, AckTimeout, ResponseTimeout, Cancelled, InProgress,
     LocalErrors
<1>9. CASE ResponseReceived(c)
  <2>1. response[c] \in Answers
    BY <1>3, <1>9 DEF ResponseReceived, TypeOK
  <2>2. Answered(c, response[c])
    BY <2>1 DEF IInv, AnswersInv
  <2>3. response[c] \in AnswersGiven[c]
    BY <2>2 DEF Answered, AnswersGiven
  <2> QED
    BY <1>7, <1>9, <2>3 DEF ResponseReceived
<1> QED
  BY <1>4, <1>5, <1>6, <1>8, <1>9 DEF CallerStep

\* A step of a task answers its call, or adds nothing.
LEMMA TaskRefines ==
    ASSUME IInv, NEW t \in tasks, AckPublished(t) \/ HandlerEnds(t) \/ ResponsePublished(t)
    PROVE  Promise!Next \/ UNCHANGED Promise!vars
<1> DEFINE c == t.id
<1>1. TypeOK /\ c \in Calls /\ call[c] # "idle"
  BY DEF IInv, TypeOK, Tasks, AnswersInv
<1>2. UNCHANGED callerVars
  BY DEF AckPublished, HandlerEnds, ResponsePublished
<1>3. AnswersGiven = [d \in Calls |-> AnswersGiven[d]]
      /\ AnswersGiven' = [d \in Calls |-> AnswersGiven'[d]]
  BY DEF AnswersGiven
<1>4. ASSUME NEW v \in Answers,
             \A d \in Calls : AnswersGiven'[d] =
                 IF d = c THEN AnswersGiven[d] \cup {v} ELSE AnswersGiven[d]
      PROVE  Promise!Next
  <2>1. AnswersGiven' = [AnswersGiven EXCEPT ![c] = @ \cup {v}]
    BY <1>3, <1>4
  <2>2. Promise!Answer(c)
    BY <1>1, <1>2, <2>1 DEF Promise!Answer, callerVars
  <2> QED
    BY <1>1, <2>2 DEF Promise!Next
<1>5. ASSUME \A d \in Calls : AnswersGiven'[d] = AnswersGiven[d]
      PROVE  UNCHANGED Promise!vars
  <2>1. AnswersGiven' = AnswersGiven
    BY <1>3, <1>5
  <2> QED
    BY <1>2, <2>1 DEF Promise!vars, callerVars
<1>6. CASE AckPublished(t)
  <2>1. CASE registered
    <3>1. TaskMoves(t, "invoking", None) /\ t.step = "acking"
      BY <1>6, <2>1 DEF AckPublished
    <3>2. \A d \in Calls : AnswersGiven'[d] = AnswersGiven[d]
      BY <3>1, <1>1, MovedAnswers
    <3> QED
      BY <3>2, <1>5
  <2>2. CASE ~registered
    <3>1. TaskMoves(t, "responding", "UnsupportedMethod") /\ t.step = "acking"
      BY <1>6, <2>2 DEF AckPublished
    <3>2. \A d \in Calls : AnswersGiven'[d] =
             IF d = c THEN AnswersGiven[d] \cup {"UnsupportedMethod"} ELSE AnswersGiven[d]
      BY <3>1, <1>1, MovedAnswers
    <3> QED
      BY <3>2, <1>4 DEF Answers
  <2> QED
    BY <2>1, <2>2
<1>7. CASE HandlerEnds(t)
  <2>1. PICK v \in HandlerAnswers : TaskMoves(t, "responding", v) /\ t.step = "invoking"
    BY <1>7 DEF HandlerEnds
  <2>2. \A d \in Calls : AnswersGiven'[d] =
           IF d = c THEN AnswersGiven[d] \cup {v} ELSE AnswersGiven[d]
    BY <2>1, <1>1, MovedAnswers
  <2> QED
    BY <2>2, <1>4 DEF Answers
<1>8. CASE ResponsePublished(t)
  <2>1. TaskMoves(t, "over", t.value) /\ t.step = "responding" /\ t.value \in Answers
    BY <1>8 DEF ResponsePublished, IInv, TypeOK, Tasks
  <2>2. \A d \in Calls : AnswersGiven'[d] =
           IF d = c THEN AnswersGiven[d] \cup {t.value} ELSE AnswersGiven[d]
    BY <2>1, <1>1, MovedAnswers
  <2> QED
    BY <2>1, <2>2, <1>4
<1> QED
  BY <1>6, <1>7, <1>8

\* What arrives at the caller, and a request that arrives at its destination, is no step
\* of the promise.
LEMMA ArrivalRefines ==
    ASSUME IInv, NEW c \in Calls,
           \/ handle_incoming_rpc_ack(c) \/ handle_incoming_rpc_response(c)
           \/ RequestDelivered(c)
    PROVE  UNCHANGED Promise!vars
<1>1. UNCHANGED <<call, outcome>>
  BY DEF handle_incoming_rpc_ack, handle_incoming_rpc_response, RequestDelivered, callerVars
<1>2. CASE UNCHANGED tasks
  BY <1>1, <1>2 DEF Promise!vars, AnswersGiven
<1>3. CASE RequestDelivered(c)
  <2>1. PICK n : tasks' = tasks \cup {Task(c, n, "acking", None)}
    BY <1>3 DEF RequestDelivered
  <2>2. Task(c, n, "acking", None).step = "acking"
    BY DEF Task
  <2>3. \A d \in Calls :
           {u \in tasks' : u.id = d /\ u.step \in {"responding", "over"}}
             = {u \in tasks : u.id = d /\ u.step \in {"responding", "over"}}
    BY <2>1, <2>2
  <2>4. AnswersGiven' = AnswersGiven
    BY <2>3 DEF AnswersGiven
  <2> QED
    BY <1>1, <2>4 DEF Promise!vars
<1> QED
  BY <1>2, <1>3 DEF handle_incoming_rpc_ack, handle_incoming_rpc_response

\* ImplementsRpcCall: perform_rpc, its maps and the destination's tasks implement the
\* promise of RpcCall, whatever the network does.
THEOREM RpcImplementsCall == Safe => ImplementsRpcCall
<1>1. Init => Promise!Init
  BY InitRefines
<1>2. ASSUME IInv, [Next]_vars
      PROVE  [Promise!Next]_(Promise!vars)
  <2>1. CASE register_rpc_method \/ unregister_rpc_method \/ UNCHANGED vars
    BY <2>1 DEF register_rpc_method, unregister_rpc_method, vars, callerVars,
       Promise!vars, AnswersGiven
  <2> QED
    BY <1>2, <2>1, CallerRefines, TaskRefines, ArrivalRefines DEF Next
<1> QED
  BY <1>1, <1>2, Invariance, PTL DEF Safe, ImplementsRpcCall, Promise!Safe

=============================================================================
