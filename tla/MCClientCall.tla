----------------------------- MODULE MCClientCall -----------------------------
(* The calls of the model checker's runs of ClientCall.                        *)
EXTENDS ClientCall

AllCalls    == {r \in NewCall : r.stream => r.body}
SomeCodes   == {NotFound, DeadlineExceeded}
NotYetEnded == {r \in AllCalls : r.signal # "aborted" /\ r.timeout # "zero"}
=============================================================================
