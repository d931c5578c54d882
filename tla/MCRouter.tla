------------------------------- MODULE MCRouter -------------------------------
(* The service of the model checker's run of Router.                          *)
EXTENDS Router

CONSTANTS m1, m2

OneService   == {{m1, m2}}
SecondStreams == {m2}
=============================================================================
