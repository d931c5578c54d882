-------------------------------- MODULE Bodies --------------------------------
(* The readers of a body: what is made of a stream of bytes that arrives in    *)
(* chunks of any size and may break off anywhere. transformSplitEnvelope() and *)
(* readAllBytes() (connect/src/protocol/async-iterable.ts) of servers and of   *)
(* clients on Node.js, createEnvelopeReadableStream() (envelope.ts) of         *)
(* clients in browsers. A byte is its place in the stream: what counts is how  *)
(* many there are, and what the headers of the envelopes say. What is read is  *)
(* decompressed and parsed as in Codec, which also says what was written.      *)
EXTENDS Codec

CONSTANTS
  SignBit,    \* the highest bit of the length in the header of an envelope: 2^31
  MaxChunk,   \* bound: bytes of a chunk
  Streams,    \* the messages that are written, one after the other
  Hints       \* values of Content-Length for a body read as a whole; at most one each

ASSUME SignAssumption == SignBit \in Nat

ASSUME ChunkAssumption == MaxChunk \in Nat

ASSUME StreamsAssumption ==
  \A messages \in Streams :
    /\ DOMAIN messages = 1 .. Len(messages) /\ Len(messages) \in Nat
    /\ \A i \in 1 .. Len(messages) :
         messages[i].size \in Nat /\ messages[i].compressed \in Nat

ASSUME HintsAssumption == \A hint \in Hints : hint # << >> => hint[1] \in Nat

Header == 5

VARIABLES
  wire,     \* the envelopes, and their lengths; how many bytes arrive; and whether
            \* the reader can decompress, and what an end is to it
  r         \* the reader

vars == <<wire, r>>

-----------------------------------------------------------------------------
(* Where the envelopes begin: encodeEnvelope() writes 5 bytes before the data. *)
Begins(lens) ==
  LET at[i \in 1 .. (Len(lens) + 1)] ==
        IF i = 1 THEN 0 ELSE at[i - 1] + Header + lens[i - 1]
  IN  at

Size(lens) == Begins(lens)[Len(lens) + 1]

(* The length in the next header, unsigned with DataView, signed with shifts.  *)
NextLen ==
  IF Len(r.out) + 1 \in DOMAIN wire.lens THEN wire.lens[Len(r.out) + 1] ELSE 0

NextEnvelope == wire.envelopes[Len(r.out) + 1]

Signed(n) == IF n >= SignBit THEN n - 2 * SignBit ELSE n

HasHeader == r.buffer >= Header

Yields(size, bytes) == [r EXCEPT !.out = Append(@, size), !.buffer = @ - bytes]

Decode(e) == transformDecompressEnvelope(e, wire.compression, wire.end)

(* What an envelope adds to what is read: the size of its message.             *)
Skipped == -1

Adds(m, end) == IF m.is = "end" /\ end = "skipped" THEN Skipped ELSE m.size

Fails(code) == r' = [r EXCEPT !.st = "error", !.code = code]

(* A reader takes the next chunk when it has no use for what it holds.         *)
TakeChunk ==
  \E k \in 0 .. MaxChunk :
    /\ k <= wire.size - r.read
    /\ r' = [r EXCEPT !.buffer = @ + k, !.read = @ + k]

AtEnd == r.read = wire.size

-----------------------------------------------------------------------------
Readers == {[by |-> by, hint |-> << >>] : by \in {"split", "web"}}
             \cup [by : {"all"}, hint : Hints]

Wire(envelopes, size, compression, end) ==
  [envelopes |-> envelopes, lens |-> [i \in DOMAIN envelopes |-> envelopes[i].len],
   size |-> size, compression |-> compression, end |-> end]

Written(compressions) ==
  {transformSerializeEnvelope(messages, c) : messages \in Streams, c \in compressions}

Cut(envelopes, compressions, ends) ==
  {Wire(envelopes, size, c, end) :
     size \in 0 .. Size([i \in DOMAIN envelopes |-> envelopes[i].len]),
     c \in compressions, end \in ends}

Single == {es \in Written(BOOLEAN) : Len(es) = 1 /\ es[1].of.is # "end"}

(* Browsers do not ask for compressed envelopes. A body that is read as a      *)
(* whole is one message without a header: its compression is in a field.       *)
Wires(by) ==
  CASE by = "split" -> UNION {Cut(es, BOOLEAN, EndIs) : es \in Written(BOOLEAN)}
    [] by = "web"   -> UNION {Cut(es, {FALSE}, {"parsed"}) : es \in Written({FALSE})}
    [] by = "all"   -> {w \in UNION {Cut(es, {TRUE}, {"message"}) : es \in Single} :
                          w.size = w.lens[1]}

Init ==
  \E b \in Readers :
    /\ wire \in Wires(b.by)
    /\ r = [by |-> b.by, hint |-> b.hint,
          read   |-> 0,        \* bytes taken
          buffer |-> 0,        \* bytes held
          out    |-> << >>,    \* what was read: the sizes of the messages
          st |-> "reading", code |-> NoCode]

Reading(by) == r.st = "reading" /\ r.by = by /\ UNCHANGED wire

(* transformSplitEnvelope().                                                   *)

(* Variant: the limit is looked at when the message is there.                  *)
TooLongLate == NextLen > readMaxBytes /\ r.buffer >= Header + NextLen

TooLong == NextLen > readMaxBytes

(* Variant: a message without data waits for more.                             *)
FitsLoose == r.buffer > Header + NextLen

Fits == r.buffer >= Header + NextLen

SplitLimit ==
  /\ Reading("split") /\ HasHeader /\ TooLong
  /\ Fails(ResourceExhausted)

(* The envelope is decompressed and parsed before the next is read.            *)
SplitShift ==
  /\ Reading("split") /\ HasHeader /\ ~TooLong /\ Fits
  /\ LET error == Decode(NextEnvelope)
     IN  IF error = NoCode THEN r' = Yields(Adds(NextEnvelope.of, wire.end), Header + NextLen)
         ELSE Fails(error)

SplitWaits == HasHeader => ~TooLong /\ ~Fits

SplitChunk == Reading("split") /\ SplitWaits /\ TakeChunk

SplitEnd ==
  /\ Reading("split") /\ SplitWaits /\ AtEnd
  /\ IF r.buffer = 0 THEN r' = [r EXCEPT !.st = "done"] ELSE Fails(InvalidArgument)

(* createEnvelopeReadableStream(): pull().                                     *)

(* createClientMethodSerializers(): without limits.                             *)
webParse(m) == IF m.is = "unparsable" THEN InvalidArgument ELSE NoCode

WebHas == HasHeader /\ r.buffer >= Header + Signed(NextLen)

(* With a negative length, the data and the rest of the buffer are counted     *)
(* from its end: what is read from there on is garbage.                        *)
WebEnqueue ==
  /\ Reading("web") /\ WebHas
  /\ IF Signed(NextLen) < 0 THEN r' = [r EXCEPT !.st = "garbled"]
     ELSE IF webParse(NextEnvelope.of) # NoCode THEN Fails(webParse(NextEnvelope.of))
     ELSE r' = Yields(NextLen, Header + NextLen)

WebChunk == Reading("web") /\ ~WebHas /\ TakeChunk

(* The stream closes, or a message that has its header is enqueued as is, and  *)
(* may or may not parse.                                                       *)
WebEnd ==
  /\ Reading("web") /\ ~WebHas /\ AtEnd
  /\ \/ r.buffer = 0 /\ r' = [r EXCEPT !.st = "done"]
     \/ HasHeader /\ r' = [Yields(r.buffer - Header, r.buffer) EXCEPT !.st = "done"]
     \/ HasHeader /\ Fails(InvalidArgument)
     \/ r.buffer # 0 /\ ~HasHeader /\ Fails(DataLoss)

(* readAllBytes(), with the length that was promised, or without.              *)

AllLimit == IF r.hint = << >> THEN r.buffer > readMaxBytes ELSE r.hint[1] > readMaxBytes

AllTooMany == r.hint # << >> /\ r.buffer > r.hint[1]

AllFails ==
  /\ Reading("all") /\ (AllLimit \/ AllTooMany)
  /\ Fails(IF AllLimit THEN ResourceExhausted ELSE InvalidArgument)

AllChunk == Reading("all") /\ ~AllLimit /\ ~AllTooMany /\ TakeChunk

AllEnd ==
  /\ Reading("all") /\ ~AllLimit /\ ~AllTooMany /\ AtEnd
  /\ IF r.hint # << >> /\ r.buffer < r.hint[1] THEN Fails(InvalidArgument)
     ELSE IF Decode(NextEnvelope) # NoCode THEN Fails(Decode(NextEnvelope))
     ELSE r' = [Yields(Adds(NextEnvelope.of, wire.end), r.buffer) EXCEPT !.st = "done"]

Next == \/ SplitLimit \/ SplitShift \/ SplitChunk \/ SplitEnd
        \/ WebEnqueue \/ WebChunk \/ WebEnd
        \/ AllFails \/ AllChunk \/ AllEnd

Spec == Init /\ [][Next]_vars

-----------------------------------------------------------------------------
(* The envelopes of a stream that are complete, and the bytes after them.      *)
Complete(w) ==
  CHOOSE n \in 0 .. Len(w.lens) :
    /\ Begins(w.lens)[n + 1] <= w.size
    /\ n < Len(w.lens) => Begins(w.lens)[n + 2] > w.size

Rest(w) == w.size - Begins(w.lens)[Complete(w) + 1]

(* What has to become of the i-th envelope, if so much of it arrives that it   *)
(* can be told: an error, or none. A length over the limit is one as soon as   *)
(* the header is there.                                                        *)
Judged(w, by, i) ==
  LET e == w.envelopes[i]
  IN  IF by = "split" /\ e.len > readMaxBytes /\ Begins(w.lens)[i] + Header <= w.size
      THEN ResourceExhausted
      ELSE IF i > Complete(w) THEN NoCode
      ELSE IF by = "web" THEN webParse(e.of)
      ELSE transformDecompressEnvelope(e, w.compression, w.end)

(* The messages before the first error, and the errors that are then possible. *)
Good(w, by) ==
  CHOOSE n \in 0 .. Len(w.lens) :
    /\ \A i \in 1 .. n : Judged(w, by, i) = NoCode
    /\ n < Len(w.lens) => Judged(w, by, n + 1) # NoCode

Sizes(w, n) == [i \in 1 .. n |-> Adds(w.envelopes[i].of, w.end)]

Short(w) == \A i \in 1 .. Len(w.lens) : w.lens[i] < SignBit

Outcomes(w, by, hint) ==
  CASE by # "all" /\ Good(w, by) < Len(w.lens) ->
         {<<Sizes(w, Good(w, by)), Judged(w, by, Good(w, by) + 1)>>}
    [] by = "split" /\ Good(w, by) = Len(w.lens) ->
         {<<Sizes(w, Complete(w)), IF Rest(w) = 0 THEN NoCode ELSE InvalidArgument>>}
    [] by = "web" /\ Good(w, by) = Len(w.lens) ->
         {<<Sizes(w, Complete(w)), IF Rest(w) = 0 THEN NoCode ELSE DataLoss>>}
    [] OTHER ->
         LET promised == IF hint = << >> THEN w.size ELSE hint[1]
             error    == transformDecompressEnvelope(w.envelopes[1], TRUE, w.end)
         IN  CASE promised > readMaxBytes -> {<< << >>, ResourceExhausted>>}
               [] promised <= readMaxBytes /\ w.size # promised -> {<< << >>, InvalidArgument>>}
               [] OTHER -> {<<IF error = NoCode THEN Sizes(w, 1) ELSE << >>, error>>}

(* What is read begins one of the outcomes, and is one when the reader ends.   *)
Reads(ended) ==
  \E o \in Outcomes(wire, r.by, r.hint) :
    IF ended THEN <<r.out, r.code>> = o
    ELSE Len(r.out) <= Len(o[1]) /\ r.out = SubSeq(o[1], 1, Len(r.out))

(* The body ends within the data of a message, and all before it are good.     *)
BreaksOff(w, by) == Good(w, by) = Len(w.lens) /\ Rest(w) >= Header

(* However a body is cut into chunks, a reader makes the same of it: the       *)
(* messages that were written and are complete, in order, and the error for    *)
(* the first one that is not, or that does not pass (async-iterable.ts:1047).  *)
(* Not so in a browser: lengths of 2^31 or more are not read, and what becomes *)
(* of a last message that breaks off is left open here.                        *)
ReadAsWritten ==
  (r.by = "web" => Short(wire)) =>
    \/ Reads(r.st # "reading")
    \/ r.st # "reading" /\ r.by = "web" /\ BreaksOff(wire, r.by)

(* "premature end of stream" (envelope.ts:92) is the error for a body that     *)
(* breaks off. In a browser it is not: a message of which only a part arrived  *)
(* is passed on.                                                               *)
PartIsNoMessage == Short(wire) /\ r.st # "reading" => Reads(TRUE)

(* A reader with a limit holds no more than a message of the permitted size,   *)
(* and the chunk that exceeds it (async-iterable.ts:1056).                     *)
BufferBounded == r.by # "web" => r.buffer <= Header + readMaxBytes + MaxChunk
=============================================================================
