---------------------------- MODULE CallContract ----------------------------
(* What an RPC promises to its caller, whatever the protocol: the caller      *)
(* receives the messages of the implementation in order, succeeds only with   *)
(* all of them and after the implementation succeeded, with the trailer it    *)
(* set, and fails with the error of the server. Only when the connection is   *)
(* lost may it fail with another error. A message is its number.              *)
EXTENDS Naturals, Sequences

VARIABLES
  emitted,   \* number of messages the server has written
  answer,    \* the end of the server's response: << >>, or <<[error, trailer]>>
  received,  \* the messages the caller has
  outcome,   \* the end of the call: << >>, or <<[error, trailer]>>
  lost       \* whether the connection was lost

vars == <<emitted, answer, received, outcome, lost>>

Init == /\ emitted = 0 /\ answer = << >> /\ received = << >> /\ outcome = << >>
        /\ lost = FALSE

(* A response ends once; its last message may come with the end.              *)
Respond == /\ answer = << >>
           /\ \/ emitted' = emitted + 1 /\ UNCHANGED answer
              \/ emitted' \in {emitted, emitted + 1} /\ Len(answer') = 1
           /\ UNCHANGED <<received, outcome, lost>>

Receive == /\ outcome = << >> /\ Len(received) < emitted
           /\ received' = Append(received, Len(received) + 1)
           /\ UNCHANGED <<emitted, answer, outcome, lost>>

Succeed == /\ outcome = << >> /\ answer # << >> /\ answer[1].error = << >>
           /\ outcome' = answer /\ received' = [i \in 1 .. emitted |-> i]
           /\ UNCHANGED <<emitted, answer, lost>>

(* A unary call gives up the message it may have.                             *)
FailWith == /\ outcome = << >> /\ answer # << >> /\ answer[1].error # << >>
            /\ outcome' = answer /\ received' \in {received, << >>}
            /\ UNCHANGED <<emitted, answer, lost>>

Lose == lost' = TRUE /\ UNCHANGED <<emitted, answer, received, outcome>>

FailLost == /\ outcome = << >> /\ lost
            /\ Len(outcome') = 1 /\ outcome'[1].error # << >>
            /\ received' \in {received, << >>}
            /\ UNCHANGED <<emitted, answer, lost>>

Next == Respond \/ Receive \/ Succeed \/ FailWith \/ Lose \/ FailLost
Spec == Init /\ [][Next]_vars
=============================================================================
