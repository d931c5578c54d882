------------------------------ MODULE ClientCall ------------------------------
(* One call of a client over Node.js: what a caller, the timer, the network    *)
(* and the server do to it, in any order, one turn of the event loop at a      *)
(* time. What the server sends is abstract; Rpc has the protocols.             *)
EXTENDS NodeClient

CONSTANTS
  MaxChunks,   \* bound: chunks of the response body
  MaxSent      \* bound: messages of the request

vars == <<x>>

Users(r) == CASE r.signal = "aborted" -> {<<reason>> : reason \in Aborts(r)}
              [] OTHER                -> {Unaborted}

Init == \E r \in Requests : \E user \in Users(r) : x = Called(r, user)

Pending == x.sentinel.st = "pending"

-----------------------------------------------------------------------------
(* The caller and the clock.                                                   *)

UserAborts ==
  /\ x.req.signal = "live" /\ x.user = Unaborted
  /\ \E reason \in Aborts(x.req) :
       x' = Signalled(Foreign([x EXCEPT !.user = <<reason>>], reason), reason)

DeadlineFires ==
  /\ x.timer
  /\ x' = Signalled([x EXCEPT !.timer = FALSE, !.deadline = TRUE],
                    ConnectErr(DeadlineExceeded))

(* The caller of a stream asks for a message, and fails at once if the         *)
(* sentinel is rejected.                                                       *)
AskMessage ==
  /\ x.reader = "idle"
  /\ x' = IF x.sentinel.st = "rejected" THEN Abort(x, ConnectErr(x.sentinel.code))
          ELSE [x EXCEPT !.reader = "reading"]

-----------------------------------------------------------------------------
(* The stream and the request.                                                 *)

(* The connection is there: sinkRequest() begins, unless the sentinel is       *)
(* rejected, when a HTTP/2 stream is closed.                                   *)
Opened ==
  /\ x.stream = "connecting"
  /\ LET y == [x EXCEPT !.stream = "open"]
         z == IF x.sentinel.st = "rejected" THEN Destroyed(y) ELSE y
     IN  x' = IF ~x.req.body THEN [z EXCEPT !.sink = "end", !.ended = TRUE]
              ELSE [z EXCEPT !.sink = IF Pending THEN "next" ELSE "stopped"]

OpenFails ==
  /\ x.stream = "connecting"
  /\ \E chain \in {<<"ECONNREFUSED">>, <<"ERR_HTTP2_ERROR", "ENOTFOUND">>, <<"EPROTO">>} :
       x' = Reject([x EXCEPT !.stream = "closed"], NodeErr(chain))

(* The request iterable answers sinkRequest(): with a message, at its end, or  *)
(* with an error. It ends once it was told to.                                 *)
NextRequest ==
  /\ x.sink = "next"
  /\ \/ /\ ~x.returned /\ x.sent < (IF x.req.stream THEN MaxSent ELSE 1)
        /\ x' = [x EXCEPT !.sink = "write", !.sent = @ + 1]
     \/ /\ x.returned \/ x.req.stream \/ x.sent = 1
        /\ x' = [x EXCEPT !.sink = "end", !.ended = TRUE, !.over = TRUE]

RequestFails ==
  /\ x.sink = "next" /\ x.req.stream /\ ~x.returned
  /\ \E reason \in OwnErrors :
       x' = Reject(Foreign([x EXCEPT !.sink = "stopped", !.over = TRUE], reason), reason)

(* The callback of write(): the sentinel is looked at before the next message. *)
Written ==
  /\ x.sink = "write" /\ x.stream = "open"
  /\ x' = [x EXCEPT !.sink = IF x.sentinel.st = "rejected" THEN "stopped" ELSE "next"]

(* With an error, that of a write after the end is only for the iterable.      *)
WriteFails ==
  /\ x.sink = "write" /\ x.stream \in {"closing", "closed"}
  /\ LET y == [x EXCEPT !.sink = "stopped", !.thrown = TRUE]
     IN  \/ x.eof /\ x.rst = 0 /\ x' = y
         \/ x' = Reject(y, NodeErr(<<"ERR_STREAM_DESTROYED">>))

EndWritten ==
  /\ x.sink = "end"
  /\ x' = [x EXCEPT !.sink = "over"]

Closed ==
  /\ x.stream = "closing" \/ (x.stream = "open" /\ x.eof /\ x.ended)
  /\ x' = [x EXCEPT !.stream = "closed"]

(* The server resets the stream, or the connection is lost. HTTP/2 has codes:  *)
(* a stream that fails emits an error, one that is canceled only closes, and   *)
(* one closed without an error looks like one that ended.                      *)
Reset ==
  /\ x.stream = "open"
  /\ LET closed(code) == [x EXCEPT !.stream = "closed", !.rst = code]
         fails(code)  == [closed(code) EXCEPT !.broken = Pending]
     IN  IF x.req.http2
         THEN \/ x' = [closed(0) EXCEPT !.eof = x.head]
              \/ x' = Reject(fails(H2CANCEL), ConnectErr(connectErrorFromH2ResetCode(H2CANCEL)))
              \/ x' = Reject(fails(2), NodeErr(<<"ERR_HTTP2_STREAM_ERROR">>))
         ELSE x' = Reject(fails(0), NodeErr(<<"ECONNRESET">>))

-----------------------------------------------------------------------------
(* The response.                                                               *)

(* The response event resolves the promise for the response. The transport     *)
(* may reject its head.                                                        *)
Response ==
  /\ x.stream = "open" /\ x.reader = "head"
  /\ LET y == [x EXCEPT !.head = TRUE]
     IN  \/ x' = [y EXCEPT !.reader = IF x.req.stream THEN "idle" ELSE "reading"]
         \/ \E code \in ErrorCodes : x' = Raise(y, code)

Chunk ==
  /\ x.stream = "open" /\ x.head /\ ~x.eof /\ x.chunks < MaxChunks
  /\ x' = [x EXCEPT !.chunks = @ + 1]

End ==
  /\ x.stream = "open" /\ x.head /\ ~x.eof
  /\ x' = [x EXCEPT !.eof = TRUE]

(* The transport reads a chunk, which completes a message, or is no message, or *)
(* has the error of a stream.                                                  *)
Read ==
  /\ x.reader = "reading" /\ x.got < x.chunks
  /\ LET y == [x EXCEPT !.got = @ + 1]
     IN  \/ x' = [y EXCEPT !.reader = IF x.req.stream THEN "idle" ELSE "reading"]
         \/ \E code \in ErrorCodes : x' = Raise(y, code)

(* The body ended: the sentinel is resolved. A Connect unary response is then  *)
(* decompressed, in a thread of its own; the others are complete or not.       *)
ReadEnd ==
  /\ x.reader = "reading" /\ x.got = x.chunks /\ x.eof
  /\ LET y == [x EXCEPT !.sentinel.st = IF Pending THEN "resolved" ELSE @]
     IN  \/ ~x.req.stream /\ x' = [y EXCEPT !.reader = "decoding"]
         \/ x' = Done(y)
         \/ \E code \in ErrorCodes : x' = Raise(y, code)

Decode ==
  /\ x.reader = "decoding"
  /\ \/ x' = Done(x)
     \/ \E code \in ErrorCodes : x' = Raise(x, code)

-----------------------------------------------------------------------------
Next == \/ UserAborts \/ DeadlineFires \/ AskMessage
        \/ Opened \/ OpenFails \/ NextRequest \/ RequestFails \/ Written \/ WriteFails
        \/ EndWritten \/ Closed \/ Reset
        \/ Response \/ Chunk \/ End \/ Read \/ ReadEnd \/ Decode

Spec == Init /\ [][Next]_vars

(* Timers fire, connections are made or fail, a closed stream closes and fails *)
(* its writes, a request iterable that was told ends, and the caller of a      *)
(* stream reads on. Nothing is assumed of the server: it may stop to read, and *)
(* flow control then keeps the callback of a write (Written) away for ever.    *)
FairSpec ==
  /\ Spec
  /\ WF_vars(DeadlineFires) /\ WF_vars(AskMessage) /\ WF_vars(Opened \/ OpenFails)
  /\ WF_vars(NextRequest /\ (x.returned \/ ~x.req.stream))
  /\ WF_vars(WriteFails) /\ WF_vars(EndWritten) /\ WF_vars(Closed)
  /\ WF_vars(Read) /\ WF_vars(ReadEnd) /\ WF_vars(Decode)

-----------------------------------------------------------------------------
Settled == x.outcome # << >>

(* A call that succeeds has read the whole response, and its stream did not    *)
(* fail before the end was read (sentinel.race, node-universal-client.ts:490). *)
SuccessReadAll ==
  x.outcome = <<NoCode>> => /\ x.eof /\ x.got = x.chunks /\ ~x.broken
                            /\ x.sentinel.st = "resolved"

(* A call that fails after its deadline passed reports the deadline, also if   *)
(* something else failed first or a late error discards the reason             *)
(* (run-call.ts:176). One that reports a deadline has passed its own, or its   *)
(* server or its caller said so.                                               *)
DeadlineReported ==
  [][~Settled /\ Settled' /\ x'.outcome # <<NoCode>> =>
       /\ x'.deadline => x'.outcome = <<DeadlineExceeded>>
       /\ x'.outcome = <<DeadlineExceeded>> => x'.deadline \/ x'.foreign]_vars

(* The request iterable of a stream is thrown an error by the call only if the *)
(* call fails: a write that fails is another matter (run-call.ts:112).         *)
CleanReturn ==
  [][x.hook /\ x'.thrown /\ ~x.thrown /\ x.sink = x'.sink /\ Settled' =>
       x'.outcome # <<NoCode>>]_vars

(* With a timeout, every call comes to an end, whatever the server does, and   *)
(* the caller hears of it, unless it was the caller that cancelled             *)
(* (signals.ts:81, callback-client.ts:111).                                    *)
DeadlineBounds ==
  x.req.timeout # "none" ~> Settled /\ (x.heard # << >> \/ x.user # Unaborted)

(* A call that is over keeps no stream open, if its requests end, unless its   *)
(* response was read to its end while a write waits for a server that does not *)
(* read on: done() and abort() close nothing then.                             *)
StreamReleased ==
  Settled ~> \/ x.stream = "closed"
             \/ x.sentinel.st = "resolved" /\ [](x.sink = "write")

(* No call that is over keeps a stream open (run-call.ts:158).                 *)
NothingLeaks == Settled ~> x.stream = "closed"

(* A call that is over tells its request iterable so, unless that ended        *)
(* (run-call.ts:108),                                                          *)
RequestReleased == Settled /\ x.req.stream ~> x.returned \/ x.over

(* if it was not over before it began.                                         *)
LiveRequestReleased ==
  Settled /\ x.req.stream /\ x.req.signal # "aborted" /\ x.req.timeout # "zero"
    ~> x.returned \/ x.over

(* A call that its caller cancelled, and that fails, fails with Canceled       *)
(* (call-options.ts:32).                                                       *)
CancelRaisesCanceled ==
  [][~Settled /\ Settled' /\ x'.outcome # <<NoCode>> /\ x.user # Unaborted =>
       x'.outcome = <<Canceled>>]_vars
=============================================================================
