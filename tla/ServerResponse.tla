---------------------------- MODULE ServerResponse ----------------------------
(* The response to one streaming call on a Node.js server: the implementation  *)
(* (an async generator), the pipeline of the handler that pulls from it        *)
(* (outputIt of createStreamHandler() and of the gRPC handlers, pipe() and     *)
(* makeIterableAbortable()), the writer (universalResponseToNodeResponse() and *)
(* write(), connect-node/src/node-universal-handler.ts), the context of the    *)
(* handler with its signal and timer, and the response object of Node.js.      *)
EXTENDS Codes

CONSTANTS
  MaxOut,      \* bound: messages the implementation yields
  HighWater    \* how many unsent chunks the stream of Node.js takes at most

ASSUME OutAssumption == MaxOut \in Nat /\ HighWater \in Nat \ {0}

VARIABLES
  conf,     \* the call: protocol, version of HTTP
  impl,     \* the implementation
  ctx,      \* the context: why its signal is aborted, and the timer of the deadline
  pipe,     \* the pipeline: what it does, and the chunk it yielded
  writer,   \* universalResponseToNodeResponse(): headers are sent with the first chunk
  node      \* the response object

vars == <<conf, impl, ctx, pipe, writer, node>>

Message(n) == [end |-> FALSE, is |-> n]
End(code)  == [end |-> TRUE, is |-> code]     \* the end envelope, or the trailers

-----------------------------------------------------------------------------
(* The context.                                                                *)

aborted(reason) ==
  [ctx EXCEPT !.reason = IF @ = "none" THEN reason ELSE @]

abort(reason) == [aborted(reason) EXCEPT !.timer = FALSE]     \* context.abort()

(* return() on the source, when pipe() is finished: it aborts the context, and *)
(* ends a generator that is suspended at a yield.                              *)
returned(i) == IF i.st = "yielded" THEN [i EXCEPT !.st = "over"] ELSE i

(* A chunk cannot be serialized or compressed after errors are caught: the     *)
(* pipeline fails, and with it the response.                                   *)
PipelineFails(i) == pipe' = [pipe EXCEPT !.st = "failed"] /\ impl' = returned(i)

(* What was raised, if anything, is in the end of the stream, which is a last  *)
(* chunk, but with gRPC the trailers of the response.                          *)
Ending(i, error) ==
  \/ /\ conf.protocol = "grpc"
     /\ pipe' = [st |-> "done", item |-> End(error)] /\ impl' = returned(i)
  \/ /\ conf.protocol # "grpc"
     /\ \/ pipe' = [st |-> "yielded", item |-> End(error)] /\ impl' = i
        \/ PipelineFails(i)

(* Variant: the context is not aborted when the response is complete.          *)
CatchFinallyIdle(i, error) == ctx' = ctx /\ Ending(i, error)

(* transformCatchFinally().                                                    *)
CatchFinally(i, error) == ctx' = abort("done") /\ Ending(i, error)

-----------------------------------------------------------------------------
(* untilFirst() has pulled the first chunk when the response begins.           *)
Init ==
  /\ conf \in [protocol : {"connect", "grpc", "grpc-web"}, http2 : BOOLEAN]
  /\ impl = [st |-> "running", out |-> 0, error |-> NoCode]
  /\ ctx \in [reason : {"none"}, timer : BOOLEAN]
  /\ pipe = [st |-> "pulling", item |-> Message(0)]
  /\ writer = "next"
  /\ node = [st |-> "open", headers |-> FALSE, foreign |-> FALSE, unsent |-> 0,
             body |-> << >>, silent |-> FALSE, uncaught |-> FALSE]

(* The implementation.                                                         *)

ImplYields ==
  /\ impl.st = "running" /\ impl.out < MaxOut
  /\ impl' = [impl EXCEPT !.st = "yielded", !.out = @ + 1]
  /\ UNCHANGED <<conf, ctx, pipe, writer, node>>

ImplEnds ==
  /\ impl.st = "running"
  /\ \E error \in {NoCode, Internal, DeadlineExceeded} :
       CatchFinally([impl EXCEPT !.st = "over", !.error = error], error)
  /\ UNCHANGED <<conf, writer, node>>

(* It handles an error thrown into it at a yield, and ends or yields again:    *)
(* then pipe() rethrows, and return() ends it.                                 *)
ImplUnwinds ==
  /\ impl.st = "unwinding"
  /\ impl' = [impl EXCEPT !.st = "over"]
  /\ pipe' = [pipe EXCEPT !.st = "failed"]
  /\ UNCHANGED <<conf, ctx, writer, node>>

(* The pipeline.                                                               *)

(* A message is serialized, compressed and joined. gRPC compresses before it   *)
(* catches errors, the others after it.                                        *)
Transform ==
  /\ pipe.st = "pulling" /\ impl.st = "yielded"
  /\ \/ /\ pipe' = [st |-> "yielded", item |-> Message(impl.out)]
        /\ UNCHANGED <<impl, ctx>>
     \/ CatchFinally([impl EXCEPT !.error = Internal], Internal)
     \/ conf.protocol # "grpc" /\ ctx' = abort("done") /\ PipelineFails(impl)
  /\ UNCHANGED <<conf, writer, node>>

(* Variant: the pipeline is pulled on after its last chunk.                     *)
PullOn ==
  /\ pipe' = [pipe EXCEPT !.st = "pulling"]
  /\ impl' = IF impl.st = "over" THEN impl ELSE [impl EXCEPT !.st = "running"]
  /\ UNCHANGED ctx

(* The writer takes the next chunk, when the write of the last one settled.    *)
Pull ==
  IF pipe.item.end
  THEN /\ pipe' = [pipe EXCEPT !.st = "done"] /\ impl' = returned(impl)
       /\ ctx' = abort("done")
  ELSE /\ pipe' = [pipe EXCEPT !.st = "pulling"]
       /\ impl' = [impl EXCEPT !.st = "running"] /\ UNCHANGED ctx

(* Variant: nothing is thrown into the pipeline.                               *)
WriteErrorUnheard ==
  /\ writer' = "failed"
  /\ UNCHANGED <<ctx, pipe, impl>>

(* A write error is thrown into the pipeline, which aborts the context and     *)
(* throws the error into the implementation; return() has to wait.             *)
WriteError ==
  /\ writer' = "failed"
  /\ ctx' = abort("error")
  /\ IF impl.st = "yielded"
     THEN /\ pipe' = [pipe EXCEPT !.st = "aborting"]
          /\ impl' = [impl EXCEPT !.st = "unwinding"]
     ELSE pipe' = [pipe EXCEPT !.st = "failed"] /\ UNCHANGED impl

-----------------------------------------------------------------------------
(* The writer.                                                                 *)

(* Variant: the writer does not wait for the stream to drain.                  *)
AcceptsAlways == TRUE

Accepts == node.unsent + 1 < HighWater    \* write() returns true

(* The headers are written with the first chunk, and throw if some were sent   *)
(* already, or if Node.js does not take them. A write to a stream that is not  *)
(* open is refused, and fails later.                                           *)
Write ==
  /\ writer = "next" /\ pipe.st = "yielded"
  /\ \/ ~node.headers /\ WriteError /\ UNCHANGED node
     \/ /\ node.foreign => node.headers
        /\ node' = IF node.st # "open" THEN [node EXCEPT !.headers = TRUE]
                   ELSE [node EXCEPT !.headers = TRUE, !.unsent = @ + 1,
                                     !.body = Append(@, pipe.item)]
        /\ IF node.st = "open" /\ Accepts THEN Pull /\ UNCHANGED writer
           ELSE /\ writer' = IF node.st = "open" THEN "drain" ELSE "refused"
                /\ UNCHANGED <<impl, ctx, pipe>>
  /\ UNCHANGED conf

(* Variant: the event drain is not listened for.                               *)
SendsUnheard ==
  /\ node.st \in {"open", "ended"} /\ node.unsent > 0
  /\ node' = [node EXCEPT !.unsent = @ - 1]
  /\ UNCHANGED <<conf, impl, ctx, pipe, writer>>

(* Node.js sends what was written, and emits drain when all of it is sent and  *)
(* the response did not end.                                                   *)
Sends ==
  /\ node.st \in {"open", "ended"} /\ node.unsent > 0
  /\ node' = [node EXCEPT !.unsent = @ - 1]
  /\ IF node.st = "open" /\ node.unsent = 1 /\ writer = "drain"
     THEN Pull /\ writer' = "next"
     ELSE UNCHANGED <<impl, ctx, pipe, writer>>
  /\ UNCHANGED conf

(* A write after the end of a response of HTTP/1.1 also emits the event error. *)
EmitsError == writer = "refused" /\ node.st = "ended"

(* Variant: the listeners are removed, and no other is added.                  *)
SettledLoud == [node EXCEPT !.uncaught = EmitsError]

(* The callback of write() has the error. The write listens for no more, but   *)
(* a listener that does nothing is there for the event.                        *)
SettledSilent == [node EXCEPT !.silent = ~EmitsError]

WriteFails ==
  /\ writer = "refused" \/ (writer = "drain" /\ node.st = "closed")
  /\ WriteError
  /\ node' = SettledSilent
  /\ UNCHANGED conf

(* The pipeline is done: trailers, and the end of the response. end() has no   *)
(* callback, and the event end that the promise waits for is one of readable   *)
(* streams. Headers or trailers that Node.js does not take throw: the response *)
(* is left open.                                                               *)
WriteEnd ==
  /\ writer = "next" /\ pipe.st = "done"
  /\ \/ /\ ~node.headers \/ conf.protocol = "grpc"
        /\ writer' = "failed" /\ UNCHANGED node
     \/ /\ writer' = "ending"
        /\ node' = IF node.st # "open" THEN node
                   ELSE [node EXCEPT !.headers = TRUE, !.st = "ended",
                                     !.body = IF conf.protocol # "grpc" THEN @
                                              ELSE Append(@, pipe.item)]
  /\ UNCHANGED <<conf, impl, ctx, pipe>>

(* An error of the pipeline is not a write error. The response is left open.   *)
ReadFails ==
  /\ writer = "next" /\ pipe.st = "failed"
  /\ writer' = "failed"
  /\ UNCHANGED <<conf, impl, ctx, pipe, node>>

-----------------------------------------------------------------------------
(* The connection, the clock, the process, and code beside the adapter.        *)

(* The connection is lost, the peer resets the stream, or the response was     *)
(* sent.                                                                       *)
Closes ==
  /\ node.st # "closed"
  /\ node' = [node EXCEPT !.st = "closed"]
  /\ UNCHANGED <<conf, impl, ctx, pipe, writer>>

(* The event close of the request aborts its signal. With HTTP/1.1, Node.js    *)
(* emits it as soon as the body of the request is read.                        *)
RequestCloses ==
  /\ ~conf.http2 \/ node.st = "closed"
  /\ ctx.reason = "none"
  /\ ctx' = aborted("request")
  /\ UNCHANGED <<conf, impl, pipe, writer, node>>

(* A middleware ends the response of HTTP/1.1 on its own.                      *)
EndedElsewhere ==
  /\ node.st = "open" /\ ~conf.http2
  /\ node' = [node EXCEPT !.st = "ended", !.foreign = TRUE]
  /\ UNCHANGED <<conf, impl, ctx, pipe, writer>>

DeadlineFires ==
  /\ ctx.timer
  /\ ctx' = [aborted("deadline") EXCEPT !.timer = FALSE]
  /\ UNCHANGED <<conf, impl, pipe, writer, node>>

ShutsDown ==
  /\ ctx.reason = "none"
  /\ ctx' = aborted("shutdown")
  /\ UNCHANGED <<conf, impl, pipe, writer, node>>

Next == \/ ImplYields \/ ImplEnds \/ ImplUnwinds \/ Transform
        \/ Write \/ Sends \/ WriteFails \/ WriteEnd \/ ReadFails
        \/ Closes \/ RequestCloses \/ EndedElsewhere \/ DeadlineFires \/ ShutsDown

Spec == Init /\ [][Next]_vars

(* Callbacks are called, the peer reads or its connection closes, events are   *)
(* emitted, and an implementation ends once its signal is aborted.             *)
FairSpec ==
  /\ Spec
  /\ WF_vars(ImplEnds /\ ctx.reason # "none") /\ WF_vars(ImplUnwinds) /\ WF_vars(Transform)
  /\ WF_vars(Write) /\ WF_vars(WriteFails) /\ WF_vars(WriteEnd) /\ WF_vars(ReadFails)
  /\ WF_vars(node.unsent > 0 /\ (Sends \/ Closes))
  /\ WF_vars(node.st = "closed" /\ RequestCloses)

-----------------------------------------------------------------------------
(* The types. What the stream of Node.js has not sent stays within its high    *)
(* water mark: the writer waits for it to drain (node-universal-handler.ts:221).*)
TypeOK ==
  /\ conf \in [protocol : {"connect", "grpc", "grpc-web"}, http2 : BOOLEAN]
  /\ impl \in [st : {"running", "yielded", "unwinding", "over"}, out : 0..MaxOut,
               error : {NoCode, DeadlineExceeded, Internal}]
  /\ ctx  \in [reason : {"none", "request", "deadline", "shutdown", "error", "done"},
               timer : BOOLEAN]
  /\ pipe.st \in {"pulling", "yielded", "aborting", "done", "failed"}
  /\ writer \in {"next", "drain", "refused", "ending", "failed"}
  /\ node.st \in {"open", "ended", "closed"} /\ node.unsent \in 0..HighWater

(* The body has the messages in order, then at most one end. A response that   *)
(* the writer ended is complete: it has all messages, unless it has an error,  *)
(* and its end says how the implementation ended.                              *)
ResponseFaithful ==
  LET b    == node.body
      last == b[Len(b)]
      msgs == {i \in 1..Len(b) : ~b[i].end}
  IN  /\ \A i \in msgs : b[i] = Message(i)
      /\ \A i \in 1..Len(b) : b[i].end => i = Len(b)
      /\ node.st = "ended" /\ ~node.foreign =>
           /\ b # << >> /\ last = End(impl.error)
           /\ impl.error = NoCode => Len(b) = impl.out + 1

(* The signal of the context is aborted, and its timer stopped, when the       *)
(* implementation is over (handler-factory.ts:445). It is aborted as done only *)
(* when the pipeline takes no message any more, and for an error only when the *)
(* response failed.                                                            *)
ContextScope ==
  /\ impl.st = "over" => ctx.reason # "none" /\ ~ctx.timer
  /\ ctx.reason = "done" => pipe.item.end \/ pipe.st = "failed"
  /\ ctx.reason = "error" => writer = "failed"

(* "An AbortSignal that is aborted when the connection with the client is      *)
(* closed or when the deadline is reached" (implementation.ts:79): not so with *)
(* HTTP/1.1, where it is aborted when the request was read.                    *)
SignalMeansClosed == ctx.reason = "request" => node.st = "closed"

(* No event error is emitted that nobody listens for, which would end the      *)
(* process (node-universal-handler.ts:230).                                    *)
NoUncaughtError == ~node.uncaught

(* An implementation whose response fails or is cut off does not stay          *)
(* suspended.                                                                  *)
ImplReleased ==
  writer = "failed" \/ (node.st = "closed" /\ ~node.foreign) ~> impl.st = "over"

(* The response of an implementation that is over ends, or fails. Code that    *)
(* ends a response while a write waits for it to drain leaves it waiting.      *)
ResponseEnds ==
  impl.st = "over" ~> writer \in {"ending", "failed"} \/ node.foreign
=============================================================================
