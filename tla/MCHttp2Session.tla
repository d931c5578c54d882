--------------------------- MODULE MCHttp2Session ---------------------------
(* Sets of events for the model checker's runs of Http2Session.               *)
EXTENDS Http2Session

Everything    == AllEvents
WithoutAbort  == AllEvents \ {"abort"}
Ending        == {"goaway", "lost", "refused", "idle"}
OnlyAbort     == {"abort"}
OnlyGoaway    == {"goaway"}
OnlyLost      == {"lost"}
OnlySilence   == {"silence"}

\* Bound: callers make requests only, and from tasks.
Begins(w) == call[w] = Idle /\ call'[w] # Idle
Requests  == \A w \in Caller : Begins(w) => jobs = <<>> /\ call'[w] = Pending("request")

RequestsSpec == Init /\ [][Next /\ Requests]_vars /\ Fairness
=============================================================================
