------------------------------ MODULE NodeClient ------------------------------
(* The HTTP clients of Node.js (connect-node/src/node-universal-client.ts) and *)
(* the signals of a call (connect/src/protocol/run-call.ts, signals.ts), as    *)
(* operators on the state x of one call. A callback that calls another is one  *)
(* operator applied to another: what runs in one turn of the event loop, with  *)
(* the promise reactions it causes, is one step.                               *)
EXTENDS Codes

CONSTANTS
  Requests,   \* the calls to make: records of NewCall
  ErrorCodes  \* the codes of errors that servers answer with, and transports raise

ASSUME ErrorCodesAssumption == ErrorCodes \subseteq Code

VARIABLE x           \* the call

(* An error of Node.js, the code property of its cause, if any, after its own. *)
NodeErr(chain) == [kind |-> "node", chain |-> chain]

(* connectErrorFromNodeReason(), of whatever is the reason.                    *)
nodeReasonCode(reason) ==
  CASE reason.kind = "connect" -> reason.code
    [] reason.kind = "abort"   -> Canceled
    [] reason.kind = "node"    -> connectErrorFromNodeReason(reason.chain)
    [] OTHER                   -> Internal

(* ConnectError.from(reason) knows nothing of Node.js.                         *)
reasonCode(reason) == codeFrom(reason, Unknown)

-----------------------------------------------------------------------------
(* What a call consists of. A caller chooses:                                  *)
(*   stream   a streaming call, with an iterable of requests                   *)
(*   body     whether a unary call has a request body                          *)
(*   http2    the version of HTTP                                              *)
(*   callback a callback client, which is told by callbacks, and cancels        *)
(*   timeout  "none", "ms", or "zero" for a timeout that is over already       *)
(*   signal   "none", "live", or "aborted"                                     *)
NewCall == [stream : BOOLEAN, body : BOOLEAN, http2 : BOOLEAN,
            callback : BOOLEAN, timeout : {"none", "zero", "ms"}, signal : {"none", "live", "aborted"}]

(* Errors of the caller: any, a ConnectError too, such as that of another call *)
(* whose deadline passed.                                                      *)
OwnErrors == {OtherErr, ConnectErr(DeadlineExceeded)}

(* abort() without and with a reason. wrapSignal() of the callback client      *)
(* forgets the reason.                                                         *)
Aborts(r) == IF r.callback THEN {AbortErr} ELSE {AbortErr} \union OwnErrors

Unaborted == << >>               \* the reason of a signal: a sequence of at most one

(* Whether the signal of the call has the listener for the request iterable:   *)
(* runStreamingCall() adds it after the signal was linked, so not if it was    *)
(* aborted before the call.                                                    *)
Hooked(r, aborted) == r.stream /\ aborted = Unaborted

(* createLinkedAbortController(): the first of the linked signals that is      *)
(* aborted gives its reason.                                                   *)
LinkedAbort(user, deadline) ==
  IF user # Unaborted THEN user
  ELSE IF deadline THEN <<ConnectErr(DeadlineExceeded)>> ELSE Unaborted

(* createSentinel(): rejected at once if the signal is aborted.                *)
Sentinel(aborted) ==
  IF aborted = Unaborted THEN [st |-> "pending", code |-> NoCode]
  ELSE [st |-> "rejected", code |-> nodeReasonCode(aborted[1])]

(* The call as it is made: setupSignal(), then the request of the HTTP client. *)
Made(r, user) ==
  LET aborted == LinkedAbort(user, r.timeout = "zero")
  IN  [ req      |-> r,
        user     |-> user,                    \* the signal of the caller
        deadline |-> r.timeout = "zero",      \* createDeadlineSignal(): its signal
        timer    |-> r.timeout = "ms",        \* and its timer
        foreign  |-> user = <<ConnectErr(DeadlineExceeded)>>,  \* history: see Foreign
        aborted  |-> aborted,                 \* the signal of the call
        hook     |-> Hooked(r, aborted),
        thrown   |-> FALSE,                   \* the request iterable: throw(), return(),
        returned |-> FALSE,
        over     |-> FALSE,                   \* ended or failed of its own
        sentinel |-> Sentinel(aborted),
        stream   |-> "connecting",            \* the ClientRequest or ClientHttp2Stream
        rst      |-> 0,                       \* the code it closed with
        ended    |-> FALSE,                   \* end() was called
        sink     |-> "none",                  \* sinkRequest()
        sent     |-> 0,                       \* messages taken from the request iterable
        head     |-> FALSE,                   \* the response event was emitted
        chunks   |-> 0,                       \* what arrived of the body, and
        got      |-> 0,                       \* what the transport read of it
        eof      |-> FALSE,
        reader   |-> "head",                  \* the transport
        broken   |-> FALSE,                   \* history: the stream failed while it was read
        outcome  |-> << >>,                   \* NoCode or the code of the error
        heard    |-> << >> ]                  \* and what the caller is told of it

(* History: the server, or the caller, spoke of a deadline that is not this    *)
(* call's.                                                                     *)
Foreign(y, reason) ==
  [y EXCEPT !.foreign = @ \/ reason = ConnectErr(DeadlineExceeded)]

-----------------------------------------------------------------------------
(* sentinel.reject(): the sentinel has closed the stream when the reaction to  *)
(* its rejection ran. A HTTP/2 stream that is yet to be opened closes then.    *)
rstCode(code) == IF code = Canceled THEN H2CANCEL ELSE 2

(* Variant: a stream of HTTP/2 is left open.                                   *)
DestroyedHttp1(y) ==
  IF y.stream \in {"open", "connecting"} /\ ~y.req.http2
  THEN [y EXCEPT !.stream = "closing"]
  ELSE y

Destroyed(y) ==
  IF y.stream = "open" \/ (y.stream = "connecting" /\ ~y.req.http2)
  THEN [y EXCEPT !.stream = "closing",
                 !.rst = IF y.req.http2 THEN rstCode(y.sentinel.code) ELSE 0]
  ELSE y

SettleSentinel(y, reason) ==
  IF y.sentinel.st # "pending" THEN y
  ELSE Destroyed([y EXCEPT !.sentinel =
                    [st |-> "rejected", code |-> nodeReasonCode(reason)]])

(* Variant: the request iterable is only told of errors.                       *)
ToldErrors(y, error) ==
  IF ~y.hook \/ ~error THEN y
  ELSE [y EXCEPT !.hook = FALSE, !.thrown = TRUE, !.returned = TRUE]

(* The abort listener of a streaming call tells the request iterable.          *)
Told(y, error) ==
  IF ~y.hook THEN y
  ELSE [y EXCEPT !.hook = FALSE, !.thrown = @ \/ error, !.returned = TRUE]

(* The promise of a call settles with its outcome. A callback client discards  *)
(* Canceled if its caller cancelled: it tells of the end of a stream, and      *)
(* nothing of a unary call.                                                    *)
Settles(y, code) ==
  [y EXCEPT !.timer = FALSE, !.reader = "done", !.outcome = <<code>>,
            !.heard = IF ~(y.req.callback /\ code = Canceled /\ y.user # Unaborted)
                      THEN <<code>>
                      ELSE IF y.req.stream THEN <<NoCode>> ELSE << >>]

(* Variant: the deadline is not looked at.                                     *)
AbortPlain(y, reason) ==
  LET e == reasonCode(reason)
      z == IF y.aborted # Unaborted THEN y
           ELSE SettleSentinel(Told([y EXCEPT !.aborted = <<ConnectErr(e)>>], TRUE),
                               ConnectErr(e))
  IN  Settles(z, e)

(* abort() of setupSignal(): the transport failed, and so does the call.       *)
Abort(y, reason) ==
  LET e == IF y.deadline THEN DeadlineExceeded ELSE reasonCode(reason)
      z == IF y.aborted # Unaborted THEN y
           ELSE SettleSentinel(Told([y EXCEPT !.aborted = <<ConnectErr(e)>>], TRUE),
                               ConnectErr(e))
  IN  Settles(z, e)

(* The server answered with an error, or the transport finds one in what it    *)
(* answered.                                                                   *)
Raise(y, code) == Abort(Foreign(y, ConnectErr(code)), ConnectErr(code))

(* Variant: an error is thrown into the request iterable of a call that is     *)
(* done.                                                                       *)
DoneWithError(y) ==
  LET z == IF y.aborted # Unaborted THEN y ELSE Told([y EXCEPT !.aborted = <<AbortErr>>], TRUE)
  IN  Settles(z, NoCode)

(* done() of setupSignal(). The sentinel is resolved already.                  *)
Done(y) ==
  LET z == IF y.aborted # Unaborted THEN y ELSE Told([y EXCEPT !.aborted = <<AbortErr>>], FALSE)
  IN  Settles(z, NoCode)

(* The promise for the response, and sentinel.race() while the body is read,   *)
(* fail with the sentinel.                                                     *)
Waiting(y) == y.reader \in {"head", "reading"}

(* Variant: the body is read without racing the sentinel.                      *)
RejectHeadOnly(y, reason) ==
  LET z == SettleSentinel(y, reason)
  IN  IF y.sentinel.st = "pending" /\ y.reader = "head"
      THEN Abort(z, ConnectErr(z.sentinel.code)) ELSE z

Reject(y, reason) ==
  LET z == SettleSentinel(y, reason)
  IN  IF y.sentinel.st = "pending" /\ Waiting(y)
      THEN Abort(z, ConnectErr(z.sentinel.code)) ELSE z

(* The signal of the call is aborted by the caller's or by the deadline.       *)
Signalled(y, reason) ==
  IF y.aborted # Unaborted THEN y
  ELSE Reject(Told([y EXCEPT !.aborted = <<reason>>], TRUE), reason)

(* Made, and failed at once if the signal is aborted.                          *)
Called(r, user) ==
  LET y == Made(r, user)
  IN  IF y.sentinel.st = "rejected"
      THEN Abort(Destroyed(y), ConnectErr(y.sentinel.code)) ELSE y
=============================================================================
