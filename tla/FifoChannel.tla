----------------------------- MODULE FifoChannel -----------------------------
(* What createWritableIterable() promises its two users, whatever it queues:  *)
(* the n-th read is answered with the n-th payload, and every read is         *)
(* answered as soon as its answer is known.                                   *)
EXTENDS Naturals, Sequences, SequencesExt

CONSTANTS
  Payload,   \* what can be written, each payload once
  Done       \* the answer { done: true }

VARIABLES
  mode,      \* "open", "closed" by the writer, "cancelled" by the reader
  sent,      \* payloads accepted from the writer, in order
  asked,     \* how many reads were made
  answers    \* the answers given to the reads, in order

vars == <<mode, sent, asked, answers>>

\* The answers the step adds: payloads in order, then Done, none withheld.
Settled ==
  /\ IsPrefix(answers, answers')
  /\ Len(answers') = IF mode' = "open" /\ Len(sent') < asked' THEN Len(sent') ELSE asked'
  /\ \A i \in Len(answers) + 1 .. Len(answers') :
       answers'[i] = IF i <= Len(sent') /\ mode' # "cancelled" THEN sent'[i] ELSE Done

Init == mode = "open" /\ sent = <<>> /\ asked = 0 /\ answers = <<>>

Send(x) ==
  /\ mode = "open"
  /\ \A i \in 1..Len(sent) : sent[i] # x
  /\ sent' = Append(sent, x)
  /\ Settled
  /\ UNCHANGED <<mode, asked>>

Ask == asked' = asked + 1 /\ Settled /\ UNCHANGED <<mode, sent>>

Close ==
  /\ mode' = IF mode = "open" THEN "closed" ELSE mode
  /\ Settled
  /\ UNCHANGED <<sent, asked>>

Cancel == mode' = "cancelled" /\ Settled /\ UNCHANGED <<sent, asked>>

Next == Ask \/ Close \/ Cancel \/ \E x \in Payload : Send(x)

Spec == Init /\ [][Next]_vars
==============================================================================
