------------------------------- MODULE MCBodies -------------------------------
(* The messages of the model checker's run of Bodies: up to two in a stream,   *)
(* that breaks off at any byte. With 3 bits for a length, 4 and more are the   *)
(* ones that a signed length makes negative. Some messages are within the      *)
(* limits only when they are compressed.                                       *)
EXTENDS Bodies

Messages ==
  {Message(0, 2, "nothing"), Message(1, 1, "nothing"), Message(4, 3, "nothing"),
   Message(6, 2, "nothing"), Message(5, 7, "nothing"), Message(7, 7, "nothing"),
   Message(3, 3, "corrupt"), Message(1, 1, "unparsable"),
   Message(2, 1, "unserializable"), Message(3, 1, "end")}

AllStreams == UNION {[1 .. n -> Messages] : n \in 0 .. 2}

AllHints == {<< >>} \cup {<<n>> : n \in {0, 3, 4, 6}}
=============================================================================
