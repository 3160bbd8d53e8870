------------------------- MODULE PublisherNegotiation -------------------------
(***************************************************************************)
(* livekit/src/rtc_engine: how a session negotiates its publisher peer     *)
(* connection.  publisher_negotiation_needed is called from any thread     *)
(* after a change of the local media; with fast_publish it runs a          *)
(* negotiation loop (NegotiationQueue), without it a debounced offer       *)
(* (livekit-protocol/src/debouncer.rs).  PeerTransport serialises offers   *)
(* and answers under its async mutex.                                      *)
(*                                                                         *)
(* A description is named by the number of changes it covers.  The signal  *)
(* link and the server's answers are external.                             *)
(***************************************************************************)
EXTENDS Naturals, Sequences, FiniteSets

CONSTANTS
    Requests,      \* calls of publisher_negotiation_needed (bound)
    MaxLosses,     \* losses of the signal link (bound)
    MaxFailures,   \* failures of create_offer (bound)
    MaxRefused     \* failures of add_ice_candidate after an answer (bound)

Answerer == "answer"      \* the signal_task, in the handler of an Answer
Resumer == "resume"       \* the engine's resume, in restart_publisher
Negotiators == Requests \cup {Answerer, Resumer}
Nobody == "nobody"

ASSUME RequestsAssumption == IsFiniteSet(Requests) /\ Cardinality(Requests) >= 1
ASSUME NamesAssumption == {Answerer, Resumer, Nobody} \cap Requests = {}
ASSUME BoundsAssumption == MaxLosses \in Nat /\ MaxFailures \in Nat /\ MaxRefused \in Nat

VARIABLES
    fast_publish,   \* of the JoinResponse, for the session's life
    state,          \* NegotiationState
    task_running, waiting_for_answer,
    permit,         \* the permit of waker: Notify
    debouncer,      \* the call whose debounced offer is the current Debouncer
    at,             \* of a call, then of the task it spawned
    mutex,          \* who holds TransportInner
    renegotiate,    \* TransportInner::renegotiate
    signaling,      \* signaling_state of the peer connection
    creating,       \* the changes in the last offer created
    changes,        \* changes of the local media so far
    stranded,       \* history: an answer was taken that left renegotiate set, and no
                    \* offer was made since
    asked,          \* the changes create_and_send_offer has accepted
    agreed,         \* the changes in the last answered offer
    offers, answers, link, losses, failures, refused

queueVars == <<fast_publish, state, task_running, waiting_for_answer, permit, debouncer>>
transportVars == <<mutex, renegotiate, signaling, creating, stranded, asked>>
linkVars == <<offers, answers, link, losses, failures, refused>>
negotiationVars == <<queueVars, at, transportVars, changes, agreed, linkVars>>

GoesTo(p, point) == at' = [at EXCEPT ![p] = point]

-----------------------------------------------------------------------------
NegotiationInit ==
    /\ fast_publish \in BOOLEAN
    /\ state = "Idle"
    /\ task_running = FALSE
    /\ waiting_for_answer = FALSE
    /\ permit = FALSE
    /\ debouncer = Nobody
    /\ at = [p \in Negotiators |-> "idle"]
    /\ mutex = Nobody
    /\ renegotiate = FALSE
    /\ signaling = "Stable"
    /\ creating = 0
    /\ stranded = FALSE
    /\ changes = 0
    /\ asked = 0
    /\ agreed = 0
    /\ offers = <<>>
    /\ answers = <<>>
    /\ link = "up"
    /\ losses = 0
    /\ failures = 0
    /\ refused = 0

-----------------------------------------------------------------------------
(* publisher_negotiation_needed *)

\* The media changed; with fast_publish, waiting_for_answer is read first.
publisher_negotiation_needed(c) ==
    /\ at[c] = "idle"
    /\ changes' = changes + 1
    /\ GoesTo(c, IF ~fast_publish THEN "debounce"
               ELSE IF waiting_for_answer THEN "mark" ELSE "queue")
    /\ UNCHANGED <<queueVars, transportVars, agreed, linkVars>>

MarkForRetry(c) ==
    /\ at[c] = "mark"
    /\ state' = "PendingRetry"
    /\ GoesTo(c, "done")
    /\ UNCHANGED <<fast_publish, task_running, waiting_for_answer, permit,
                   debouncer, transportVars, changes, agreed, linkVars>>

\* Mutant: the task is started without looking for a running one.
queue_negotiation_NoSwap(c) ==
    /\ at[c] = "queue"
    /\ IF state = "Idle"
       THEN /\ task_running' = TRUE /\ state' = "InProgress" /\ GoesTo(c, "start")
       ELSE /\ state' = "PendingRetry" /\ GoesTo(c, "done")
            /\ UNCHANGED task_running
    /\ UNCHANGED <<fast_publish, waiting_for_answer, permit, debouncer,
                   transportVars, changes, agreed, linkVars>>

\* Under the lock of state.
queue_negotiation(c) ==
    /\ at[c] = "queue"
    /\ IF state = "Idle" /\ ~task_running
       THEN /\ task_running' = TRUE /\ state' = "InProgress" /\ GoesTo(c, "start")
       ELSE /\ state' = "PendingRetry" /\ GoesTo(c, "done")
            /\ UNCHANGED task_running
    /\ UNCHANGED <<fast_publish, waiting_for_answer, permit, debouncer,
                   transportVars, changes, agreed, linkVars>>

\* Debouncer::call succeeds as long as the debounce_task has its receiver.
Debouncing(c) == at[c] \in {"sleep", "offer", "offering", "executed"}

debounce_negotiation(c) ==
    /\ at[c] = "debounce"
    /\ IF debouncer # Nobody /\ Debouncing(debouncer)
       THEN GoesTo(c, "done") /\ UNCHANGED debouncer
       ELSE debouncer' = c /\ GoesTo(c, "sleep")
    /\ UNCHANGED <<fast_publish, state, task_running, waiting_for_answer,
                   permit, transportVars, changes, agreed, linkVars>>

\* PUBLISHER_NEGOTIATION_FREQUENCY without a call.
Debounced(c) ==
    /\ at[c] = "sleep"
    /\ GoesTo(c, "offer")
    /\ UNCHANGED <<queueVars, transportVars, changes, agreed, linkVars>>

DebounceTaskEnds(c) ==
    /\ at[c] = "executed"
    /\ GoesTo(c, "done")
    /\ UNCHANGED <<queueVars, transportVars, changes, agreed, linkVars>>

-----------------------------------------------------------------------------
(* PeerTransport *)

AfterOffer(p) ==
    GoesTo(p, CASE p = Answerer -> "notify"
              [] p = Resumer -> "wait"
              [] OTHER -> IF fast_publish THEN "await" ELSE "executed")

Rejected(p) == signaling = "HaveLocalOffer" /\ ~(p = Resumer /\ agreed > 0)

\* Mutant: an offer under way is taken to cover the change.
PutOff_Skips(p) ==
    /\ at[p] = "offer"
    /\ mutex = Nobody
    /\ Rejected(p)
    /\ asked' = changes
    /\ AfterOffer(p)
    /\ UNCHANGED <<queueVars, mutex, renegotiate, signaling, creating, stranded,
                   changes, agreed, linkVars>>

\* create_and_send_offer while an offer is under way: repeat it after the answer.
PutOff(p) ==
    /\ at[p] = "offer"
    /\ mutex = Nobody
    /\ Rejected(p)
    /\ renegotiate' = TRUE
    /\ asked' = changes
    /\ AfterOffer(p)
    /\ UNCHANGED <<queueVars, mutex, signaling, creating, stranded, changes,
                   agreed, linkVars>>

\* create_and_send_offer up to create_offer; an ICE restart first rolls back
\* the offer under way.
CreateOffer(p) ==
    /\ at[p] = "offer"
    /\ mutex = Nobody
    /\ ~Rejected(p)
    /\ signaling' = "Stable"
    /\ mutex' = p
    /\ creating' = changes
    /\ GoesTo(p, "offering")
    /\ UNCHANGED <<queueVars, renegotiate, stranded, asked, changes, agreed, linkVars>>

\* create_offer fails.  The loop goes on, the handler of an Answer returns; when
\* restart_publisher fails the engine replaces the session, which is not
\* modelled.
CreateOfferFails(p) ==
    /\ at[p] = "offering"
    /\ p # Resumer
    /\ failures < MaxFailures
    /\ failures' = failures + 1
    /\ mutex' = Nobody
    /\ IF p = Answerer
       THEN GoesTo(p, "idle") /\ UNCHANGED waiting_for_answer
       ELSE IF fast_publish
       THEN GoesTo(p, "check") /\ waiting_for_answer' = FALSE
       ELSE GoesTo(p, "executed") /\ UNCHANGED waiting_for_answer
    /\ UNCHANGED <<fast_publish, state, task_running, permit, debouncer,
                   renegotiate, signaling, creating, stranded, asked, changes,
                   agreed, offers, answers, link, losses, refused>>

\* set_local_description, and the handler sends the offer; without a signal
\* link it is dropped, an offer is not queuable.
SendOffer(p) ==
    /\ at[p] = "offering"
    /\ signaling' = "HaveLocalOffer"
    /\ asked' = IF asked > creating THEN asked ELSE creating
    /\ offers' = IF link = "up" THEN Append(offers, creating) ELSE offers
    /\ mutex' = Nobody
    /\ stranded' = FALSE
    /\ AfterOffer(p)
    /\ UNCHANGED <<queueVars, renegotiate, creating, changes, agreed, answers,
                   link, losses, failures, refused>>

\* set_remote_description refuses an answer in the stable state, and may refuse
\* one to another offer, whose media sections differ.
Accepts == signaling = "HaveLocalOffer"
Refuses(answer) == signaling = "Stable" \/ answer # creating

AnswerTaken ==
    /\ at[Answerer] = "idle" /\ mutex = Nobody /\ answers # <<>>
    /\ Accepts
    /\ answers' = Tail(answers)
    /\ signaling' = "Stable"
    /\ agreed' = Head(answers)

\* Mutant: renegotiate is left set.
SetRemoteDescription_KeepsFlag ==
    /\ AnswerTaken
    /\ GoesTo(Answerer, IF renegotiate THEN "offer" ELSE "notify")
    /\ UNCHANGED <<queueVars, mutex, renegotiate, creating, stranded, asked, changes,
                   offers, link, losses, failures, refused>>

\* An offer that was put off is made right after the answer, outside the mutex.
SetRemoteDescription ==
    /\ AnswerTaken
    /\ renegotiate' = FALSE
    /\ GoesTo(Answerer, IF renegotiate THEN "offer" ELSE "notify")
    /\ UNCHANGED <<queueVars, mutex, creating, stranded, asked, changes, offers,
                   link, losses, failures, refused>>

\* A candidate that came before the answer is refused: the handler returns with the
\* error, the answer is set and renegotiate has not been looked at.
CandidateRefused ==
    /\ AnswerTaken
    /\ refused < MaxRefused
    /\ refused' = refused + 1
    /\ stranded' = renegotiate
    /\ UNCHANGED <<queueVars, at, mutex, renegotiate, creating, asked, changes, offers,
                   link, losses, failures>>

\* The handler returns with the error.
SetRemoteDescriptionFails ==
    /\ at[Answerer] = "idle" /\ mutex = Nobody /\ answers # <<>>
    /\ Refuses(Head(answers))
    /\ answers' = Tail(answers)
    /\ UNCHANGED <<queueVars, at, transportVars, changes, agreed, offers, link,
                   losses, failures, refused>>

\* The handler of the Answer wakes the negotiation loop.
NotifyLoop ==
    /\ at[Answerer] = "notify"
    /\ GoesTo(Answerer, "idle")
    /\ permit' = (permit \/ (fast_publish /\ waiting_for_answer))
    /\ waiting_for_answer' = (waiting_for_answer /\ ~fast_publish)
    /\ UNCHANGED <<fast_publish, state, task_running, debouncer, transportVars,
                   changes, agreed, linkVars>>

-----------------------------------------------------------------------------
(* execute_negotiation_with_retry *)

NegotiationStarts(c) ==
    /\ at[c] = "start"
    /\ waiting_for_answer' = TRUE
    /\ GoesTo(c, "offer")
    /\ UNCHANGED <<fast_publish, state, task_running, permit, debouncer,
                   transportVars, changes, agreed, linkVars>>

AnswerNotified(c) ==
    /\ at[c] = "await"
    /\ permit
    /\ permit' = FALSE
    /\ GoesTo(c, "check")
    /\ UNCHANGED <<fast_publish, state, task_running, waiting_for_answer,
                   debouncer, transportVars, changes, agreed, linkVars>>

\* 10 s without an answer.
AnswerTimeout(c) ==
    /\ at[c] = "await"
    /\ waiting_for_answer' = FALSE
    /\ GoesTo(c, "check")
    /\ UNCHANGED <<fast_publish, state, task_running, permit, debouncer,
                   transportVars, changes, agreed, linkVars>>

CheckRetry(c) ==
    /\ at[c] = "check"
    /\ IF state = "PendingRetry"
       THEN state' = "InProgress" /\ GoesTo(c, "start")
       ELSE state' = "Idle" /\ GoesTo(c, "ending")
    /\ UNCHANGED <<fast_publish, task_running, waiting_for_answer, permit,
                   debouncer, transportVars, changes, agreed, linkVars>>

TaskEnds(c) ==
    /\ at[c] = "ending"
    /\ task_running' = FALSE
    /\ GoesTo(c, "done")
    /\ UNCHANGED <<fast_publish, state, waiting_for_answer, permit, debouncer,
                   transportVars, changes, agreed, linkVars>>

-----------------------------------------------------------------------------
(* The signal link *)

ServerAnswers ==
    /\ offers # <<>>
    /\ answers' = Append(answers, Head(offers))
    /\ offers' = Tail(offers)
    /\ UNCHANGED <<queueVars, at, transportVars, changes, agreed, link, losses,
                   failures, refused>>

LinkLost ==
    /\ link = "up"
    /\ losses < MaxLosses
    /\ losses' = losses + 1
    /\ link' = "down"
    /\ offers' = <<>>
    /\ answers' = <<>>
    /\ UNCHANGED <<queueVars, at, transportVars, changes, agreed, failures, refused>>

\* The engine resumed the link; an ICE restart follows when has_published.
restart_publisher ==
    /\ link = "down"
    /\ at[Resumer] = "idle"
    /\ link' = "up"
    /\ IF changes > 0 THEN GoesTo(Resumer, "offer") ELSE UNCHANGED at
    /\ UNCHANGED <<queueVars, transportVars, changes, agreed, offers, answers,
                   losses, failures, refused>>

\* wait_pc_connection: a publisher that has been answered is connected, one
\* that has not is given up and the engine replaces the session.
wait_pc_connection ==
    /\ at[Resumer] = "wait"
    /\ GoesTo(Resumer, IF agreed > 0 THEN "idle" ELSE "replaced")
    /\ UNCHANGED <<queueVars, transportVars, changes, agreed, linkVars>>

-----------------------------------------------------------------------------
CallStep(c) ==
    \/ MarkForRetry(c) \/ queue_negotiation(c)
    \/ debounce_negotiation(c) \/ Debounced(c) \/ DebounceTaskEnds(c)
    \/ NegotiationStarts(c) \/ AnswerNotified(c) \/ AnswerTimeout(c)
    \/ CheckRetry(c) \/ TaskEnds(c)

OfferStep(p) == PutOff(p) \/ CreateOffer(p) \/ SendOffer(p)

Answering == SetRemoteDescription \/ SetRemoteDescriptionFails

NegotiationNext ==
    \/ \E c \in Requests : publisher_negotiation_needed(c) \/ CallStep(c)
    \/ \E p \in Negotiators : OfferStep(p) \/ CreateOfferFails(p)
    \/ Answering \/ CandidateRefused \/ NotifyLoop
    \/ ServerAnswers \/ LinkLost \/ restart_publisher \/ wait_pc_connection

\* Every task runs, and the server answers an offer that reaches it.  A resume of the
\* link may wait for ever, so that restart_publisher is not among what is fair.
NegotiationFairness ==
    /\ \A c \in Requests : WF_negotiationVars(CallStep(c))
    /\ \A p \in Negotiators : SF_negotiationVars(OfferStep(p))
    /\ SF_negotiationVars(Answering) /\ WF_negotiationVars(NotifyLoop)
    /\ WF_negotiationVars(ServerAnswers) /\ WF_negotiationVars(wait_pc_connection)

NegotiationSafe == NegotiationInit /\ [][NegotiationNext]_negotiationVars
NegotiationSpec == NegotiationSafe /\ NegotiationFairness

-----------------------------------------------------------------------------
(* Properties *)

MaxChanges == Cardinality(Requests)

\* Every variable has its type, and no description covers a change not yet made.
NegotiationTypeOK ==
    /\ fast_publish \in BOOLEAN
    /\ state \in {"Idle", "InProgress", "PendingRetry"}
    /\ task_running \in BOOLEAN /\ waiting_for_answer \in BOOLEAN
    /\ permit \in BOOLEAN
    /\ debouncer \in Requests \cup {Nobody}
    /\ at \in [Negotiators -> {"idle", "mark", "queue", "debounce", "sleep", "offer",
                         "offering", "executed", "notify", "start", "await",
                         "check", "ending", "wait", "replaced", "done"}]
    /\ mutex \in Negotiators \cup {Nobody}
    /\ renegotiate \in BOOLEAN /\ stranded \in BOOLEAN
    /\ signaling \in {"Stable", "HaveLocalOffer"}
    /\ changes \in 0..MaxChanges
    /\ creating \in 0..changes
    /\ asked \in 0..changes /\ agreed \in 0..changes
    /\ offers \in Seq(0..changes) /\ answers \in Seq(0..changes)
    /\ link \in {"up", "down"} /\ losses \in 0..MaxLosses
    /\ failures \in 0..MaxFailures /\ refused \in 0..MaxRefused

\* At most one negotiation loop runs, however the calls interleave with its end;
\* two loops would steal each other's answer.
OneNegotiationTask ==
    fast_publish =>
        \A c, d \in Requests :
            {at[c], at[d]} \subseteq {"start", "offer", "offering", "await", "check", "ending"}
              => c = d

\* An offer that was put off is owed an answer: renegotiate is set only while an offer
\* is under way or being replaced, never in a stable state where nothing would take it
\* up.  Excepted is the error exit of set_remote_description between the answer and the
\* look at renegotiate (a candidate is refused, peer_transport.rs:113-115): the flag then
\* stays set, with nothing owed, until somebody else makes an offer.
RenegotiationIsOwed ==
    /\ renegotiate => signaling = "HaveLocalOffer" \/ mutex # Nobody \/ stranded
    /\ stranded => renegotiate /\ refused > 0

\* Every answer under way is to the offer last made.
AnswersMatch ==
    signaling = "HaveLocalOffer" => \A i \in DOMAIN answers : answers[i] = creating

\* A change that create_and_send_offer was called for is negotiated, through offers that
\* were put off, answers that wake the wrong loop, candidates that are refused, and a
\* link that is lost, unless the session is replaced (its successor starts from the
\* whole media).  It takes for granted that create_offer does not fail, that no answer
\* crosses the rollback of its offer (answers carry no name of theirs), that no refused
\* candidate leaves a put-off offer stranded, and that a lost link comes up again.
AskedIsAgreed ==
    [](AnswersMatch /\ failures = 0 /\ ~stranded) /\ []<>(link = "up") =>
        \A v \in 1..MaxChanges :
            asked >= v ~> agreed >= v \/ at[Resumer] = "replaced"

=============================================================================
