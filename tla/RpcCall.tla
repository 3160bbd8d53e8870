-------------------------------- MODULE RpcCall --------------------------------
(***************************************************************************)
(* What perform_rpc promises: a call comes back once, with an answer that  *)
(* its destination gave to this very call or with an error of its own.     *)
(***************************************************************************)
CONSTANTS
    Calls,          \* calls of perform_rpc
    Answers,        \* what a destination may answer
    LocalErrors,    \* errors the caller's side makes
    NoOutcome

VARIABLES
    called,         \* calls that have begun
    answers,        \* what the destination has answered to each call
    outcome         \* what each call returned

vars == <<called, answers, outcome>>

Init ==
    /\ called = {}
    /\ answers = [c \in Calls |-> {}]
    /\ outcome = [c \in Calls |-> NoOutcome]

Call(c) ==
    /\ c \notin called
    /\ called' = called \cup {c}
    /\ UNCHANGED <<answers, outcome>>

\* A call that is refused before anything is sent.
Refuse(c) ==
    /\ c \notin called
    /\ called' = called \cup {c}
    /\ \E e \in LocalErrors : outcome' = [outcome EXCEPT ![c] = e]
    /\ UNCHANGED answers

\* The destination may answer more than once, and after the call is over.
Answer(c) ==
    /\ c \in called
    /\ \E v \in Answers : answers' = [answers EXCEPT ![c] = @ \cup {v}]
    /\ UNCHANGED <<called, outcome>>

Return(c) ==
    /\ c \in called
    /\ outcome[c] = NoOutcome
    /\ \E o \in LocalErrors \cup answers[c] : outcome' = [outcome EXCEPT ![c] = o]
    /\ UNCHANGED <<called, answers>>

Next == \E c \in Calls : Call(c) \/ Refuse(c) \/ Answer(c) \/ Return(c)

Safe == Init /\ [][Next]_vars

\* A call that has begun comes back.
Returns(c) == c \in called ~> outcome[c] # NoOutcome

=============================================================================
