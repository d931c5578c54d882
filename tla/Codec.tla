-------------------------------- MODULE Codec --------------------------------
(* What is done to a message on its way to the body of a request or response,  *)
(* and back: serialization (connect/src/protocol/serialization.ts) within the  *)
(* limits of limit-io.ts, compression (connect-node/src/compression.ts) and    *)
(* the flags of the envelope (envelope.ts). A message is how many bytes it has *)
(* serialized and compressed, and what is wrong with it:                       *)
(*   "nothing", "unserializable", "unparsable", "corrupt" (compressed data), or *)
(*   "end": it is an end of the stream, for which the limit is not looked at.  *)
EXTENDS Integers, Sequences, Codes

CONSTANTS writeMaxBytes, readMaxBytes, compressMinBytes

ASSUME LimitAssumption ==
  writeMaxBytes \in Nat /\ readMaxBytes \in Nat /\ compressMinBytes \in Nat

Message(size, compressed, is) == [size |-> size, compressed |-> compressed, is |-> is]

assertWriteMaxBytes(n) == IF n > writeMaxBytes THEN ResourceExhausted ELSE NoCode
assertReadMaxBytes(n)  == IF n > readMaxBytes THEN ResourceExhausted ELSE NoCode

-----------------------------------------------------------------------------
(* Writing. The error of createBinarySerialization() and its JSON counterpart, *)
(* within limitSerialization().                                                *)
serialize(m) ==
  CASE m.is = "unserializable" -> Internal
    [] m.is = "end"            -> NoCode
    [] OTHER                   -> assertWriteMaxBytes(m.size)

envelopeCompress(m, compression) ==
  LET flag == compression /\ m.size >= compressMinBytes
  IN  [compressedFlag |-> flag, len |-> IF flag THEN m.compressed ELSE m.size, of |-> m]

(* The envelopes that come of a stream: it fails at a message that does not    *)
(* serialize, after what was written before.                                   *)
transformSerializeEnvelope(messages, compression) ==
  LET written == {i \in 1 .. Len(messages) :
                   \A j \in 1 .. i : serialize(messages[j]) = NoCode}
  IN  [i \in written |-> envelopeCompress(messages[i], compression)]

-----------------------------------------------------------------------------
(* Reading. zlib stops at readMaxBytes of output.                              *)
wrapZLibErrors(m) ==
  IF m.is = "corrupt" THEN InvalidArgument
  ELSE IF m.size > readMaxBytes THEN ResourceExhausted ELSE NoCode

envelopeDecompress(e, compression) ==
  CASE ~e.compressedFlag -> NoCode
    [] e.compressedFlag /\ ~compression -> InvalidArgument
    [] OTHER -> wrapZLibErrors(e.of)

(* limitSerialization() and the parsers.                                       *)
parse(m) ==
  IF assertReadMaxBytes(m.size) # NoCode THEN ResourceExhausted
  ELSE IF m.is = "unparsable" THEN InvalidArgument ELSE NoCode

(* What a reader makes of an end: clients of Connect and gRPC-web parse it,    *)
(* their servers skip it. gRPC knows of none: it is a message there.           *)
EndIs == {"parsed", "skipped", "message"}

transformParseEnvelope(m, end) ==
  IF m.is = "end" /\ end # "message" THEN NoCode ELSE parse(m)

transformDecompressEnvelope(e, compression, end) ==
  LET error == envelopeDecompress(e, compression)
  IN  IF error # NoCode THEN error ELSE transformParseEnvelope(e.of, end)
=============================================================================
