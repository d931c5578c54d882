------------------------- MODULE ServerResponseProofs -------------------------
(* Theorems about ServerResponse, for every number of messages and every high  *)
(* water mark.                                                                 *)
EXTENDS ServerResponse, TLAPS

Item == [end : BOOLEAN, is : Nat]

Reasons == {"none", "request", "deadline", "shutdown", "error", "done"}

Impl == [st : {"running", "yielded", "unwinding", "over"}, out : 0..MaxOut,
         error : {NoCode, DeadlineExceeded, Internal}]

Ctx == [reason : Reasons, timer : BOOLEAN]

Pipe == [st : {"pulling", "yielded", "aborting", "done", "failed"}, item : Item]

Node == [st : {"open", "ended", "closed"}, headers : BOOLEAN, foreign : BOOLEAN,
         unsent : 0..HighWater, body : Seq(Item), silent : BOOLEAN, uncaught : BOOLEAN]

Typed ==
  /\ conf \in [protocol : {"connect", "grpc", "grpc-web"}, http2 : BOOLEAN]
  /\ impl \in Impl /\ ctx \in Ctx /\ pipe \in Pipe /\ node \in Node
  /\ writer \in {"next", "drain", "refused", "ending", "failed"}
  /\ writer = "next" => node.unsent < HighWater

(* Who waits for whom: the implementation runs only while the pipeline pulls,  *)
(* and the pipeline pulls only while the writer waits for the next chunk.      *)
Turns ==
  /\ impl.st = "running" => pipe.st = "pulling"
  /\ impl.st = "unwinding" => pipe.st = "aborting"
  /\ pipe.st = "pulling" =>
       impl.st \in {"running", "yielded"} /\ writer = "next" /\ ~pipe.item.end
  /\ pipe.st = "yielded" => writer \in {"next", "drain", "refused"}
  /\ pipe.st = "yielded" /\ ~pipe.item.end => impl.st = "yielded"
  /\ pipe.st = "yielded" /\ pipe.item.end => conf.protocol # "grpc"
  /\ pipe.st = "aborting" => writer = "failed"
  /\ pipe.st = "done" => pipe.item.end /\ writer \in {"next", "ending", "failed"}
  /\ pipe.st = "failed" => writer \in {"next", "failed"}
  /\ pipe.item.end => pipe.item = End(impl.error)
  /\ writer \in {"refused", "ending"} => node.st # "open"
  /\ node.foreign => node.st # "open"
  /\ node.st = "ended" => node.foreign \/ writer = "ending"

(* Once the context is done, no message is taken from the implementation.      *)
Context ==
  /\ impl.st \in {"unwinding", "over"} => ctx.reason # "none" /\ ~ctx.timer
  /\ ctx.reason = "done" => pipe.st = "failed" \/ (pipe.item.end /\ pipe.st # "pulling")
  /\ ctx.reason = "error" => writer = "failed"

(* The first n chunks of the body are messages, in order.                      *)
Prefix(b, n) == \A i \in 1 .. n : b[i] = Message(i)

(* What the body has, of what the implementation yielded, when it was written  *)
(* up to a chunk that is still in the pipeline, or up to this chunk.           *)
Before ==
  LET n == Len(node.body)
  IN  /\ Prefix(node.body, n)
      /\ pipe.st = "pulling" =>
           impl.out = IF impl.st = "running" THEN n ELSE n + 1
      /\ pipe.st \in {"yielded", "done"} =>
           IF pipe.item.end THEN impl.error = NoCode => impl.out = n
           ELSE impl.out = n + 1 /\ pipe.item = Message(n + 1)

After ==
  LET n == Len(node.body)
  IN  /\ n > 0 /\ Prefix(node.body, n - 1) /\ node.body[n] = pipe.item
      /\ IF pipe.item.end THEN impl.error = NoCode => impl.out = n - 1
         ELSE impl.out = n /\ pipe.item = Message(n)

Written ==
  IF writer \in {"drain", "ending"} \/ (pipe.st = "done" /\ conf.protocol # "grpc")
  THEN After ELSE Before

Progress ==
  /\ node.st = "open" /\ pipe.st \in {"pulling", "yielded", "done"} => Written
  /\ node.st = "ended" /\ ~node.foreign => After

(* Whatever became of the call.                                                *)
Shape ==
  \A i \in 1 .. Len(node.body) :
    IF node.body[i].end THEN i = Len(node.body) ELSE node.body[i] = Message(i)

Inv == Typed /\ Turns /\ Context /\ Progress /\ Shape

State == Typed /\ Turns /\ Context

-----------------------------------------------------------------------------
\* The chunks and the contexts of the pipeline have their types.
LEMMA Types ==
  /\ \A n \in Nat : Message(n) \in Item /\ ~Message(n).end
  /\ \A c \in {NoCode, DeadlineExceeded, Internal} : End(c) \in Item /\ End(c).end
  /\ HighWater \in Nat /\ HighWater > 0 /\ MaxOut \in Nat
BY OutAssumption DEF Message, End, Item, NoCode, DeadlineExceeded, Internal

\* The first reason for which a context is aborted stays.
LEMMA Aborts ==
  ASSUME ctx \in Ctx, NEW reason \in Reasons \ {"none"}
  PROVE  /\ aborted(reason) \in Ctx /\ abort(reason) \in Ctx
         /\ aborted(reason).timer = ctx.timer /\ ~abort(reason).timer
         /\ aborted(reason).reason = IF ctx.reason = "none" THEN reason ELSE ctx.reason
         /\ abort(reason).reason = IF ctx.reason = "none" THEN reason ELSE ctx.reason
BY DEF aborted, abort, Reasons, Ctx

\* What return() does to an implementation.
LEMMA Returns ==
  ASSUME NEW i \in Impl
  PROVE  /\ returned(i) \in Impl /\ returned(i).out = i.out /\ returned(i).error = i.error
         /\ returned(i).st = IF i.st = "yielded" THEN "over" ELSE i.st
BY DEF returned, Impl

\* transformCatchFinally() yields the end of the stream, or is done with it,
\* or what comes after it fails.
LEMMA Catches ==
  ASSUME ctx \in Ctx, pipe \in Pipe, NEW i \in Impl,
         NEW error \in {NoCode, DeadlineExceeded, Internal},
         CatchFinally(i, error)
  PROVE  /\ ctx' \in Ctx /\ ctx'.reason # "none" /\ ~ctx'.timer
         /\ ctx'.reason = IF ctx.reason = "none" THEN "done" ELSE ctx.reason
         /\ impl' \in Impl /\ impl'.out = i.out /\ impl'.error = i.error
         /\ impl'.st \in {i.st, "over"}
         /\ pipe' \in Pipe
         /\ \/ /\ pipe'.item = End(error) /\ pipe'.item.end
               /\ pipe'.st = IF conf.protocol = "grpc" THEN "done" ELSE "yielded"
            \/ pipe'.item = pipe.item /\ pipe'.st = "failed"
<1>1. "done" \in Reasons \ {"none"}
  BY DEF Reasons
<1>2. ctx' = abort("done")
  BY DEF CatchFinally
<1>3. /\ ctx' \in Ctx /\ ~ctx'.timer
      /\ ctx'.reason = IF ctx.reason = "none" THEN "done" ELSE ctx.reason
  BY <1>1, <1>2, Aborts
<1>4. /\ \/ pipe' = [st |-> IF conf.protocol = "grpc" THEN "done" ELSE "yielded",
                     item |-> End(error)]
         \/ pipe' = [pipe EXCEPT !.st = "failed"]
      /\ impl' \in {i, returned(i)}
  BY DEF CatchFinally, Ending, PipelineFails
<1> QED
  BY <1>3, <1>4, Returns, Types DEF Pipe

\* A chunk that is written is the last of the body, after what it had.
LEMMA Writes ==
  ASSUME NEW b \in Seq(Item), NEW item \in Item
  PROVE  /\ Append(b, item) \in Seq(Item) /\ Len(Append(b, item)) = Len(b) + 1
         /\ Append(b, item)[Len(b) + 1] = item
         /\ \A i \in 1 .. Len(b) : Append(b, item)[i] = b[i]
         /\ Len(b) \in Nat
OBVIOUS

-----------------------------------------------------------------------------
\* What follows of a yield of the implementation.
LEMMA Yields ==
  ASSUME State, ImplYields
  PROVE  /\ impl.st = "running" /\ impl' \in Impl /\ impl'.st = "yielded"
         /\ impl'.out = impl.out + 1 /\ impl'.error = impl.error
         /\ UNCHANGED <<conf, ctx, pipe, writer, node>>
<1>1. impl \in Impl /\ impl.out < MaxOut /\ impl.out + 1 \in 0..MaxOut
  BY Types DEF State, Typed, ImplYields, Impl
<1> QED
  BY <1>1 DEF ImplYields, Impl

\* A message is yielded.
LEMMA YieldsKeeps ==
  ASSUME State, ImplYields
  PROVE  State'
BY Yields DEF State, Typed, Turns, Context

\* The implementation ends, and the pipeline with it, or after one more chunk.
LEMMA EndsKeeps ==
  ASSUME State, ImplEnds
  PROVE  State'
<1>1. PICK error \in {NoCode, Internal, DeadlineExceeded} :
        CatchFinally([impl EXCEPT !.st = "over", !.error = error], error)
  BY DEF ImplEnds
<1> DEFINE i == [impl EXCEPT !.st = "over", !.error = error]
<1>2. i \in Impl /\ i.st = "over" /\ i.error = error
  BY DEF State, Typed, Impl
<1>3. impl.st = "running" /\ UNCHANGED <<conf, writer, node>> /\ ctx \in Ctx /\ pipe \in Pipe
  BY DEF ImplEnds, State, Typed
<1>5. CatchFinally(i, error) /\ error \in {NoCode, DeadlineExceeded, Internal}
  BY <1>1
<1> HIDE DEF i
<1>4. /\ ctx' \in Ctx /\ ctx'.reason # "none" /\ ~ctx'.timer
      /\ ctx'.reason = IF ctx.reason = "none" THEN "done" ELSE ctx.reason
      /\ impl' \in Impl /\ impl'.error = error /\ impl'.st = "over"
      /\ pipe' \in Pipe
      /\ \/ /\ pipe'.item = End(error) /\ pipe'.item.end
            /\ pipe'.st = IF conf.protocol = "grpc" THEN "done" ELSE "yielded"
         \/ pipe'.item = pipe.item /\ pipe'.st = "failed"
  BY <1>2, <1>3, <1>5, Catches
<1>6. Typed'
  BY <1>3, <1>4 DEF State, Typed
<1>7. Turns'
  BY <1>3, <1>4 DEF State, Turns, Typed
<1>8. Context'
  BY <1>3, <1>4 DEF State, Context, Turns
<1> QED
  BY <1>6, <1>7, <1>8 DEF State

\* The implementation has handled the error, and the pipeline fails.
LEMMA UnwindsKeeps ==
  ASSUME State, ImplUnwinds
  PROVE  State'
<1>1. /\ impl' \in Impl /\ impl'.st = "over" /\ impl'.error = impl.error
      /\ pipe' \in Pipe /\ pipe'.st = "failed" /\ pipe'.item = pipe.item
  BY DEF State, Typed, ImplUnwinds, Impl, Pipe
<1> QED
  BY <1>1 DEF ImplUnwinds, State, Typed, Turns, Context

-----------------------------------------------------------------------------
\* A message becomes a chunk, or the end of the stream, or the pipeline fails.
LEMMA TransformKeeps ==
  ASSUME State, Transform
  PROVE  State'
<1>1. /\ pipe.st = "pulling" /\ impl.st = "yielded" /\ impl.out \in Nat
      /\ UNCHANGED <<conf, writer, node>>
      /\ impl \in Impl /\ ctx \in Ctx /\ pipe \in Pipe
  BY DEF Transform, State, Typed, Impl
<1>2. CASE pipe' = [st |-> "yielded", item |-> Message(impl.out)] /\ UNCHANGED <<impl, ctx>>
  <2>1. pipe' \in Pipe /\ pipe'.st = "yielded" /\ ~pipe'.item.end
    BY <1>1, <1>2, Types DEF Pipe
  <2> QED
    BY <1>1, <1>2, <2>1 DEF State, Typed, Turns, Context
<1>3. CASE CatchFinally([impl EXCEPT !.error = Internal], Internal)
  <2> DEFINE i == [impl EXCEPT !.error = Internal]
  <2>1. i \in Impl /\ i.st = "yielded" /\ i.error = Internal
    BY <1>1 DEF Impl
  <2>2. CatchFinally(i, Internal)
    BY <1>3
  <2> HIDE DEF i
  <2>3. /\ ctx' \in Ctx /\ ctx'.reason # "none" /\ ~ctx'.timer
        /\ ctx'.reason = IF ctx.reason = "none" THEN "done" ELSE ctx.reason
        /\ impl' \in Impl /\ impl'.error = Internal /\ impl'.st \in {"yielded", "over"}
        /\ pipe' \in Pipe
        /\ \/ /\ pipe'.item = End(Internal) /\ pipe'.item.end
              /\ pipe'.st = IF conf.protocol = "grpc" THEN "done" ELSE "yielded"
           \/ pipe'.item = pipe.item /\ pipe'.st = "failed"
    BY <1>1, <2>1, <2>2, Catches
  <2> QED
    BY <1>1, <2>3 DEF State, Typed, Turns, Context
<1>4. CASE ctx' = abort("done") /\ PipelineFails(impl)
  <2>0. pipe' = [pipe EXCEPT !.st = "failed"] /\ impl' = returned(impl)
    BY <1>4 DEF PipelineFails
  <2>1. pipe' \in Pipe /\ pipe'.st = "failed" /\ pipe'.item = pipe.item
    BY <1>1, <2>0 DEF Pipe
  <2>2. impl' \in Impl /\ impl'.st = "over" /\ impl'.error = impl.error
    BY <1>1, <2>0, Returns
  <2>3. /\ ctx' \in Ctx /\ ctx'.reason # "none" /\ ~ctx'.timer
        /\ ctx'.reason = IF ctx.reason = "none" THEN "done" ELSE ctx.reason
    BY <1>1, <1>4, Aborts DEF Reasons
  <2> QED
    BY <1>1, <2>1, <2>2, <2>3 DEF State, Typed, Turns, Context
<1> QED
  BY <1>2, <1>3, <1>4 DEF Transform

\* The next chunk is pulled: the implementation goes on, or all is done.
LEMMA Pulls ==
  ASSUME State, Pull
  PROVE  /\ impl' \in Impl /\ impl'.error = impl.error /\ impl'.out = impl.out
         /\ ctx' \in Ctx /\ pipe' \in Pipe /\ pipe'.item = pipe.item
         /\ pipe.item.end =>
              /\ pipe'.st = "done" /\ ctx'.reason # "none" /\ ~ctx'.timer
              /\ ctx'.reason = IF ctx.reason = "none" THEN "done" ELSE ctx.reason
              /\ impl'.st = IF impl.st = "yielded" THEN "over" ELSE impl.st
         /\ ~pipe.item.end => pipe'.st = "pulling" /\ impl'.st = "running" /\ ctx' = ctx
<1>1. impl \in Impl /\ ctx \in Ctx /\ pipe \in Pipe
  BY DEF State, Typed
<1>2. CASE pipe.item.end
  <2>1. pipe' = [pipe EXCEPT !.st = "done"] /\ impl' = returned(impl) /\ ctx' = abort("done")
    BY <1>2 DEF Pull
  <2> QED
    BY <1>1, <1>2, <2>1, Returns, Aborts DEF Pipe, Reasons
<1>3. CASE ~pipe.item.end
  BY <1>1, <1>3 DEF Pull, Pipe, Impl
<1> QED
  BY <1>2, <1>3

\* A write error aborts the context, and unwinds the implementation.
LEMMA WriteErrors ==
  ASSUME State, WriteError
  PROVE  /\ impl' \in Impl /\ impl'.error = impl.error /\ impl'.out = impl.out
         /\ ctx' \in Ctx /\ ctx'.reason # "none" /\ ~ctx'.timer /\ writer' = "failed"
         /\ ctx'.reason = IF ctx.reason = "none" THEN "error" ELSE ctx.reason
         /\ pipe' \in Pipe /\ pipe'.item = pipe.item
         /\ impl.st = "yielded" => impl'.st = "unwinding" /\ pipe'.st = "aborting"
         /\ impl.st # "yielded" => impl'.st = impl.st /\ pipe'.st = "failed"
<1>1. impl \in Impl /\ ctx \in Ctx /\ pipe \in Pipe
  BY DEF State, Typed
<1>2. /\ ctx' \in Ctx /\ ctx'.reason # "none" /\ ~ctx'.timer
      /\ ctx'.reason = IF ctx.reason = "none" THEN "error" ELSE ctx.reason
  BY <1>1, Aborts DEF WriteError, Reasons
<1> QED
  BY <1>1, <1>2 DEF WriteError, Pipe, Impl

-----------------------------------------------------------------------------
\* The steps of the writer.
LEMMA WriteKeeps ==
  ASSUME State, Write
  PROVE  State'
<1>1. /\ writer = "next" /\ pipe.st = "yielded" /\ conf' = conf
      /\ node \in Node /\ pipe.item \in Item /\ node.unsent < HighWater
  BY DEF Write, State, Typed, Pipe
<1>6. CASE WriteError /\ UNCHANGED node
  BY <1>1, <1>6, WriteErrors DEF State, Typed, Turns, Context
<1> SUFFICES ASSUME ~(WriteError /\ UNCHANGED node) PROVE State'
  BY <1>6
<1>2. /\ node' \in Node /\ node'.st = node.st /\ node'.foreign = node.foreign
      /\ node'.unsent = IF node.st = "open" THEN node.unsent + 1 ELSE node.unsent
  <2>1. CASE node.st # "open"
    BY <1>1, <2>1 DEF Write, Node
  <2>2. CASE node.st = "open"
    <3>1. /\ node.unsent + 1 \in 0..HighWater /\ Append(node.body, pipe.item) \in Seq(Item)
      BY <1>1, Types, Writes DEF Node
    <3>2. node' = [node EXCEPT !.headers = TRUE, !.unsent = @ + 1,
                               !.body = Append(@, pipe.item)]
      BY <2>2 DEF Write
    <3> QED
      BY <1>1, <2>2, <3>1, <3>2 DEF Node
  <2> QED
    BY <2>1, <2>2
<1>4. CASE node.st = "open" /\ Accepts /\ Pull /\ UNCHANGED writer
  <2>1. node'.unsent < HighWater
    BY <1>2, <1>4 DEF Accepts
  <2> QED
    BY <1>1, <1>2, <1>4, <2>1, Pulls DEF State, Typed, Turns, Context
<1>5. CASE /\ writer' = IF node.st = "open" THEN "drain" ELSE "refused"
           /\ UNCHANGED <<impl, ctx, pipe>>
  BY <1>1, <1>2, <1>5 DEF State, Typed, Turns, Context
<1> QED
  BY <1>4, <1>5 DEF Write

\* A chunk is sent, which may be what the writer waits for.
LEMMA SendsKeeps ==
  ASSUME State, Sends
  PROVE  State'
<1>1. /\ node' \in Node /\ node'.st = node.st /\ node'.foreign = node.foreign
      /\ node'.unsent = node.unsent - 1 /\ node'.unsent \in Nat /\ conf' = conf
  <2>1. node \in Node /\ node.unsent - 1 \in 0..HighWater
    BY Types DEF Sends, State, Typed, Node
  <2> QED
    BY <2>1 DEF Sends, Node
<1>2. CASE node.st = "open" /\ node.unsent = 1 /\ writer = "drain" /\ Pull /\ writer' = "next"
  <2>1. pipe.st = "yielded" /\ node'.unsent < HighWater
    BY <1>1, <1>2, Types DEF State, Turns, Typed, Pipe
  <2> QED
    BY <1>1, <1>2, <2>1, Pulls DEF State, Typed, Turns, Context
<1>3. CASE UNCHANGED <<impl, ctx, pipe, writer>>
  <2>1. writer = "next" => node'.unsent < HighWater
    BY <1>1, Types DEF State, Typed, Node
  <2> QED
    BY <1>1, <1>3, <2>1 DEF State, Typed, Turns, Context
<1> QED
  BY <1>2, <1>3 DEF Sends

\* A write that failed.
LEMMA WriteFailsKeeps ==
  ASSUME State, WriteFails
  PROVE  State'
<1>1. /\ node' \in Node /\ node'.st = node.st /\ node'.foreign = node.foreign
      /\ conf' = conf /\ pipe.st = "yielded"
  BY DEF WriteFails, SettledSilent, EmitsError, State, Typed, Turns, Node, Pipe
<1> QED
  BY <1>1, WriteErrors DEF WriteFails, State, Typed, Turns, Context

\* The response ends.
LEMMA WriteEndKeeps ==
  ASSUME State, WriteEnd
  PROVE  State'
<1>3. CASE writer' = "failed" /\ UNCHANGED node
  BY <1>3 DEF WriteEnd, State, Typed, Turns, Context
<1> SUFFICES ASSUME ~(writer' = "failed" /\ UNCHANGED node) PROVE State'
  BY <1>3
<1>1. /\ node' \in Node /\ node'.foreign = node.foreign
      /\ node'.st = IF node.st = "open" THEN "ended" ELSE node.st
  <2>1. node \in Node /\ pipe.item \in Item
    BY DEF State, Typed, Pipe
  <2>2. Append(node.body, pipe.item) \in Seq(Item)
    BY <2>1, Writes DEF Node
  <2> QED
    BY <2>1, <2>2 DEF WriteEnd, Node
<1>2. writer = "next" /\ pipe.st = "done" /\ writer' = "ending" /\ UNCHANGED <<conf, impl, ctx, pipe>>
  BY DEF WriteEnd
<1> QED
  BY <1>1, <1>2 DEF State, Typed, Turns, Context

\* The writer gives up.
LEMMA ReadFailsKeeps ==
  ASSUME State, ReadFails
  PROVE  State'
BY DEF ReadFails, State, Typed, Turns, Context

\* The steps of the connection, the clock and the process.
LEMMA OthersKeep ==
  ASSUME State, Closes \/ RequestCloses \/ EndedElsewhere \/ DeadlineFires \/ ShutsDown
  PROVE  State'
<1>1. CASE Closes \/ EndedElsewhere
  <2>1. /\ node' \in Node /\ node'.unsent = node.unsent /\ node.st # "closed"
        /\ UNCHANGED <<conf, impl, ctx, pipe, writer>>
        /\ \/ node'.st = "closed" /\ node'.foreign = node.foreign
           \/ node.st = "open" /\ node'.st = "ended" /\ node'.foreign
    BY <1>1 DEF Closes, EndedElsewhere, State, Typed, Node
  <2> QED
    BY <2>1 DEF State, Typed, Turns, Context
<1>2. CASE RequestCloses \/ DeadlineFires \/ ShutsDown
  <2>1. ctx \in Ctx /\ UNCHANGED <<conf, impl, pipe, writer, node>>
    BY <1>2 DEF RequestCloses, DeadlineFires, ShutsDown, State, Typed
  <2>2. /\ ctx' \in Ctx
        /\ ctx'.timer => ctx.timer
        /\ ctx.reason # "none" => ctx'.reason = ctx.reason
        /\ ctx.reason = "none" => ctx'.reason \in {"deadline", "shutdown", "request"}
    <3>1. CASE RequestCloses
      BY <2>1, <3>1, Aborts DEF RequestCloses, Reasons
    <3>2. CASE DeadlineFires
      <4> DEFINE c == aborted("deadline")
      <4>1. /\ c \in Ctx /\ ctx' = [c EXCEPT !.timer = FALSE]
            /\ c.reason = IF ctx.reason = "none" THEN "deadline" ELSE ctx.reason
        BY <2>1, <3>2, Aborts DEF DeadlineFires, Reasons
      <4> HIDE DEF c
      <4> QED
        BY <4>1 DEF Ctx
    <3>3. CASE ShutsDown
      BY <2>1, <3>3, Aborts DEF ShutsDown, Reasons
    <3> QED
      BY <1>2, <3>1, <3>2, <3>3
  <2> QED
    BY <2>1, <2>2 DEF State, Typed, Turns, Context
<1> QED
  BY <1>1, <1>2

-----------------------------------------------------------------------------
(* State is an invariant, and with it the scope of the context.                *)
THEOREM StateInvariant == Spec => []State
<1>1. Init => State
  <2> SUFFICES ASSUME Init PROVE State
    OBVIOUS
  <2>1. /\ << >> \in Seq(Item) /\ 0 \in 0..MaxOut /\ 0 \in 0..HighWater
        /\ Message(0) \in Item /\ ~Message(0).end
    BY Types
  <2>2. impl \in Impl /\ ctx \in Ctx /\ pipe \in Pipe /\ node \in Node
    BY <2>1 DEF Init, Impl, Ctx, Pipe, Node, Reasons
  <2> QED
    BY <2>1, <2>2, Types DEF Init, State, Typed, Turns, Context
<1>2. ASSUME State, [Next]_vars PROVE State'
  <2>1. CASE UNCHANGED vars
    BY <1>2, <2>1 DEF vars, State, Typed, Turns, Context
  <2> QED
    BY <1>2, <2>1, YieldsKeeps, EndsKeeps, UnwindsKeeps, TransformKeeps, WriteKeeps,
       SendsKeeps, WriteFailsKeeps, WriteEndKeeps, ReadFailsKeeps, OthersKeep DEF Next
<1> QED
  BY <1>1, <1>2, PTL DEF Spec

(* TypeOK is an invariant: what is not sent stays within the high water mark.  *)
THEOREM TypeCorrect == Spec => []TypeOK
<1>1. State => TypeOK
  BY DEF State, Typed, TypeOK, Impl, Ctx, Reasons, Pipe, Node
<1> QED
  BY <1>1, StateInvariant, PTL

(* The context is aborted, and its timer stopped, when the implementation is   *)
(* over; as done, only when the pipeline takes no message any more, and for an *)
(* error, only when the response failed.                                       *)
THEOREM ContextIsScoped == Spec => []ContextScope
<1>1. State => ContextScope
  BY DEF State, Context, ContextScope
<1> QED
  BY <1>1, StateInvariant, PTL

-----------------------------------------------------------------------------
\* What the writer did not add to is as it was.
LEMMA SameBody ==
  ASSUME State, Progress, Shape, node'.body = node.body
  PROVE  /\ Shape'
         /\ \A n : Prefix(node'.body, n) = Prefix(node.body, n)
BY DEF Shape, Prefix

\* A chunk that is written after messages is a message or an end.
LEMMA WrittenOnce ==
  ASSUME State, Progress, Shape, node.st = "open", pipe.st \in {"yielded", "done"},
         Before, node'.body = Append(node.body, pipe.item)
  PROVE  Shape' /\ (pipe'.item = pipe.item /\ impl'.out = impl.out
                      /\ impl'.error = impl.error => After')
<1>1. node.body \in Seq(Item) /\ pipe.item \in Item
  BY DEF State, Typed, Node, Pipe
<1> DEFINE n == Len(node.body)
<1>2. /\ Len(node'.body) = n + 1 /\ n \in Nat /\ node'.body[n + 1] = pipe.item
      /\ \A i \in 1 .. n : node'.body[i] = node.body[i] /\ node.body[i] = Message(i)
  BY <1>1, Writes DEF Before, Prefix
<1>3. \A i \in 1 .. n : ~Message(i).end
  BY Types
<1>4. Shape'
  BY <1>2, <1>3 DEF Shape, Before
<1>5. ASSUME pipe'.item = pipe.item, impl'.out = impl.out, impl'.error = impl.error
      PROVE  After'
  BY <1>2, <1>5, Types DEF After, Before, Prefix
<1> QED
  BY <1>4, <1>5

\* The steps of the implementation and of the pipeline keep the body.
LEMMA PipelineBody ==
  ASSUME Inv, ImplYields \/ ImplEnds \/ ImplUnwinds \/ Transform
  PROVE  Progress' /\ Shape'
<1>0. State /\ Progress /\ Shape
  BY DEF Inv, State
<1>1. node' = node /\ writer' = writer /\ conf' = conf
  BY DEF ImplYields, ImplEnds, ImplUnwinds, Transform
<1>2. Shape' /\ \A n : Prefix(node'.body, n) = Prefix(node.body, n)
  BY <1>0, <1>1, SameBody
<1>3. node.st = "ended" => node.foreign
  BY DEF Inv, Turns, ImplYields, ImplEnds, ImplUnwinds, Transform
<1>4. CASE ImplUnwinds
  <2>1. pipe'.st = "failed"
    BY <1>4 DEF ImplUnwinds, Inv, Typed, Pipe
  <2> QED
    BY <1>1, <1>2, <1>3, <2>1 DEF Progress
<1>5. CASE ImplYields \/ ImplEnds \/ Transform
  <2>1. pipe.st = "pulling" /\ writer = "next"
    BY <1>5, Yields, <1>0 DEF Inv, Turns, ImplEnds, Transform
  <2> SUFFICES ASSUME node.st = "open", pipe'.st \in {"pulling", "yielded", "done"}
               PROVE  Written'
    BY <1>1, <1>2, <1>3 DEF Progress
  <2>2. Before /\ pipe.st = "pulling"
    BY <2>1 DEF Inv, Progress, Written
  <2>3. impl.out = IF impl.st = "running" THEN Len(node.body) ELSE Len(node.body) + 1
    BY <2>2 DEF Before
  <2>4. Len(node.body) \in Nat /\ impl \in Impl /\ ctx \in Ctx /\ pipe \in Pipe
    BY DEF Inv, Typed, Node
  <2>5. Before' => Written'
    <3>1. pipe'.st # "done" \/ conf.protocol = "grpc"
      <4>1. CASE ImplYields
        BY <2>1, <4>1, Yields, <1>0
      <4>2. CASE pipe' = [pipe EXCEPT !.st = "failed"] \/ pipe'.st = "yielded"
        BY <2>4, <4>2 DEF Pipe
      <4>3. CASE \E i, error : CatchFinally(i, error)
        BY <2>4, <4>3 DEF CatchFinally, Ending, PipelineFails, Pipe
      <4> QED
        BY <1>5, <4>1, <4>2, <4>3 DEF ImplEnds, Transform, PipelineFails
    <3> QED
      BY <1>1, <2>1, <3>1 DEF Written
  <2>6. CASE ImplYields
    <3>1. impl'.st = "yielded" /\ impl'.out = impl.out + 1 /\ impl.st = "running" /\ pipe' = pipe
      BY <2>6, <1>0, Yields
    <3>2. Before'
      BY <1>1, <1>2, <2>2, <2>3, <3>1 DEF Before
    <3> QED
      BY <2>5, <3>2
  <2>7. CASE ImplEnds
    <3>1. PICK error \in {NoCode, Internal, DeadlineExceeded} :
            CatchFinally([impl EXCEPT !.st = "over", !.error = error], error)
      BY <2>7 DEF ImplEnds
    <3> DEFINE i == [impl EXCEPT !.st = "over", !.error = error]
    <3>2. i \in Impl /\ i.out = impl.out /\ impl.st = "running"
      BY <2>4, <2>7 DEF Impl, ImplEnds
    <3>3. CatchFinally(i, error) /\ error \in {NoCode, DeadlineExceeded, Internal}
      BY <3>1
    <3> HIDE DEF i
    <3>4. impl'.out = impl.out /\ (pipe'.item.end \/ pipe'.st = "failed")
          /\ pipe'.st # "pulling"
      BY <2>4, <3>2, <3>3, Catches
    <3>5. Before'
      BY <1>1, <1>2, <2>2, <2>3, <3>2, <3>4 DEF Before
    <3> QED
      BY <2>5, <3>5
  <2>8. CASE Transform
    <3>1. impl.st = "yielded"
      BY <2>8 DEF Transform
    <3>2. CASE /\ pipe' = [st |-> "yielded", item |-> Message(impl.out)]
               /\ UNCHANGED <<impl, ctx>>
      <4>1. pipe'.st = "yielded" /\ pipe'.item = Message(impl.out) /\ ~pipe'.item.end
        BY <2>4, <3>2, Types DEF Impl
      <4>2. Before'
        BY <1>1, <1>2, <2>2, <2>3, <3>1, <3>2, <4>1 DEF Before
      <4> QED
        BY <2>5, <4>2
    <3>3. CASE CatchFinally([impl EXCEPT !.error = Internal], Internal)
      <4> DEFINE i == [impl EXCEPT !.error = Internal]
      <4>1. i \in Impl /\ i.error = Internal /\ CatchFinally(i, Internal)
        BY <2>4, <3>3 DEF Impl
      <4> HIDE DEF i
      <4>2. impl'.error = Internal /\ (pipe'.item.end \/ pipe'.st = "failed")
            /\ pipe'.st # "pulling"
        BY <2>4, <4>1, Catches
      <4>3. Before'
        BY <1>1, <1>2, <2>2, <4>2 DEF Before, Internal, NoCode
      <4> QED
        BY <2>5, <4>3
    <3>4. CASE pipe' = [pipe EXCEPT !.st = "failed"]
      BY <2>4, <3>4 DEF Pipe
    <3> QED
      BY <2>8, <3>2, <3>3, <3>4 DEF Transform, PipelineFails
  <2> QED
    BY <1>5, <2>6, <2>7, <2>8
<1> QED
  BY <1>4, <1>5

\* A step that neither writes nor pulls keeps what is known of the body.
LEMMA IdleBody ==
  ASSUME Inv, node'.body = node.body, UNCHANGED <<conf, impl, pipe, writer>>,
         node'.st = "open" => node.st = "open",
         node'.st = "ended" /\ ~node'.foreign => node.st = "ended" /\ ~node.foreign
  PROVE  Progress' /\ Shape'
<1>1. Shape' /\ \A n : Prefix(node'.body, n) = Prefix(node.body, n)
  BY SameBody DEF Inv, State
<1>2. After' = After /\ Before' = Before
  BY <1>1 DEF After, Before
<1>3. Written' = Written
  BY <1>2 DEF Written
<1> QED
  BY <1>1, <1>2, <1>3 DEF Inv, Progress

\* A chunk is pulled after it was written.
LEMMA PullBody ==
  ASSUME Inv, Pull, After', pipe.st = "yielded",
         writer' = "next", conf' = conf, node'.st # "ended" \/ node'.foreign
  PROVE  Progress'
<1> DEFINE n == Len(node'.body)
<1>1. State
  BY DEF Inv, State
<1>2. /\ impl'.error = impl.error /\ impl'.out = impl.out /\ pipe'.item = pipe.item
      /\ pipe.item.end => pipe'.st = "done"
      /\ ~pipe.item.end => pipe'.st = "pulling" /\ impl'.st = "running"
  BY <1>1, Pulls
<1>3. CASE pipe.item.end
  <2>1. conf'.protocol # "grpc"
    BY <1>3 DEF Inv, Turns
  <2> QED
    BY <1>2, <1>3, <2>1 DEF Progress, Written
<1>4. CASE ~pipe.item.end
  <2>1. n > 0 /\ Prefix(node'.body, n - 1) /\ node'.body[n] = Message(n) /\ impl'.out = n
    BY <1>2, <1>4 DEF After
  <2>2. Prefix(node'.body, n)
    BY <2>1 DEF Prefix
  <2>3. Before'
    BY <1>2, <1>4, <2>1, <2>2 DEF Before
  <2> QED
    BY <1>2, <1>4, <2>3 DEF Progress, Written
<1> QED
  BY <1>3, <1>4

\* What is written are messages in order, and an end.
LEMMA WriteBody ==
  ASSUME Inv, Write
  PROVE  Progress' /\ Shape'
<1>1. /\ State /\ Progress /\ Shape /\ node \in Node
      /\ writer = "next" /\ pipe.st = "yielded" /\ conf' = conf
      /\ node.st = "ended" => node.foreign
  BY DEF Inv, State, Typed, Turns, Write
<1>4. CASE WriteError /\ UNCHANGED node
  <2>1. pipe'.st \in {"aborting", "failed"}
    BY <1>1, <1>4 DEF WriteError, Inv, Typed, Pipe
  <2>2. Shape'
    BY <1>1, <1>4, SameBody
  <2> QED
    BY <1>1, <1>4, <2>1, <2>2 DEF Progress
<1> SUFFICES ASSUME ~(WriteError /\ UNCHANGED node) PROVE Progress' /\ Shape'
  BY <1>4
<1>2. CASE node.st # "open"
  <2>1. node'.body = node.body /\ node'.st = node.st /\ node'.foreign = node.foreign
    BY <1>1, <1>2 DEF Write, Node
  <2>2. Shape'
    BY <1>1, <2>1, SameBody
  <2> QED
    BY <1>1, <1>2, <2>1, <2>2 DEF Progress
<1>3. CASE node.st = "open"
  <2>1. /\ node'.body = Append(node.body, pipe.item) /\ node'.st = "open"
        /\ ~node.foreign
    BY <1>1, <1>3 DEF Write, Node, Inv, Turns
  <2>2. Before
    BY <1>1, <1>3 DEF Progress, Written
  <2>3. Shape' /\ (pipe'.item = pipe.item /\ impl'.out = impl.out
                     /\ impl'.error = impl.error => After')
    BY <1>1, <1>3, <2>1, <2>2, WrittenOnce
  <2>4. CASE Pull /\ UNCHANGED writer
    <3>1. After'
      BY <1>1, <2>3, <2>4, Pulls
    <3>2. Progress'
      BY <1>1, <2>1, <2>4, <3>1, PullBody
    <3> QED
      BY <2>3, <3>2
  <2>5. CASE writer' = "drain" /\ UNCHANGED <<impl, ctx, pipe>>
    BY <2>1, <2>3, <2>5 DEF Progress, Written
  <2> QED
    BY <1>3, <2>1, <2>4, <2>5 DEF Write
<1> QED
  BY <1>2, <1>3

\* What is sent was in the body; a pull that follows keeps what is known of it.
LEMMA SendsBody ==
  ASSUME Inv, Sends
  PROVE  Progress' /\ Shape'
<1>1. /\ node'.body = node.body /\ node'.st = node.st /\ node'.foreign = node.foreign
      /\ conf' = conf
  BY DEF Inv, Typed, Node, Sends
<1>2. CASE node.st = "open" /\ writer = "drain" /\ Pull /\ writer' = "next"
  <2>1. pipe.st = "yielded" /\ State
    BY <1>2 DEF Inv, Turns, State, Typed, Pipe
  <2>2. After
    BY <1>2, <2>1 DEF Inv, Progress, Written
  <2>3. Shape' /\ \A n : Prefix(node'.body, n) = Prefix(node.body, n)
    BY <1>1, <2>1, SameBody DEF Inv
  <2>4. impl'.error = impl.error /\ impl'.out = impl.out /\ pipe'.item = pipe.item
    BY <1>2, <2>1, Pulls
  <2>5. After'
    BY <1>1, <2>2, <2>3, <2>4 DEF After
  <2> QED
    BY <1>1, <1>2, <2>1, <2>3, <2>5, PullBody
<1>3. CASE UNCHANGED <<impl, ctx, pipe, writer>>
  BY <1>1, <1>3, IdleBody
<1> QED
  BY <1>2, <1>3 DEF Sends

\* A write that fails adds nothing.
LEMMA WriteFailsBody ==
  ASSUME Inv, WriteFails
  PROVE  Progress' /\ Shape'
<1>1. /\ node'.body = node.body /\ node'.st = node.st /\ node'.foreign = node.foreign
      /\ node.st # "open"
      /\ node.st = "ended" => node.foreign
  BY DEF Inv, Typed, Turns, Node, WriteFails, SettledSilent
<1>2. Shape'
  BY <1>1, SameBody DEF Inv, State
<1> QED
  BY <1>1, <1>2 DEF Progress

\* The end of the response completes the body.
LEMMA WriteEndBody ==
  ASSUME Inv, WriteEnd
  PROVE  Progress' /\ Shape'
<1>5. CASE writer' = "failed" /\ UNCHANGED node
  <2>1. /\ State /\ Progress /\ Shape /\ writer = "next"
        /\ UNCHANGED <<conf, impl, ctx, pipe>>
    BY DEF Inv, State, WriteEnd
  <2>2. Shape' /\ \A n : Prefix(node'.body, n) = Prefix(node.body, n)
    BY <1>5, <2>1, SameBody
  <2>3. After' = After /\ Before' = Before
    BY <1>5, <2>1, <2>2 DEF After, Before
  <2>4. Written' = Written
    BY <1>5, <2>1, <2>3 DEF Written
  <2> QED
    BY <1>5, <2>1, <2>2, <2>3, <2>4 DEF Progress
<1> SUFFICES ASSUME ~(writer' = "failed" /\ UNCHANGED node) PROVE Progress' /\ Shape'
  BY <1>5
<1>1. /\ State /\ Progress /\ Shape /\ node \in Node
      /\ writer = "next" /\ pipe.st = "done" /\ writer' = "ending"
      /\ UNCHANGED <<conf, impl, ctx, pipe>>
      /\ node.st = "ended" => node.foreign
  BY DEF Inv, State, Typed, Turns, WriteEnd
<1>2. CASE node.st # "open"
  <2>1. node' = node
    BY <1>2 DEF WriteEnd
  <2>2. Shape'
    BY <1>1, <2>1, SameBody
  <2> QED
    BY <1>1, <1>2, <2>1, <2>2 DEF Progress
<1>3. CASE node.st = "open" /\ conf.protocol = "grpc"
  <2>1. node'.body = Append(node.body, pipe.item) /\ node'.st = "ended"
    BY <1>1, <1>3 DEF WriteEnd, Node
  <2>2. Before
    BY <1>1, <1>3 DEF Progress, Written
  <2>3. Shape' /\ After'
    BY <1>1, <1>3, <2>1, <2>2, WrittenOnce
  <2> QED
    BY <2>1, <2>3 DEF Progress
<1>4. CASE node.st = "open" /\ conf.protocol # "grpc"
  <2>1. node'.body = node.body /\ node'.st = "ended"
    BY <1>1, <1>4 DEF WriteEnd, Node
  <2>2. After
    BY <1>1, <1>4 DEF Progress, Written
  <2>3. Shape' /\ \A n : Prefix(node'.body, n) = Prefix(node.body, n)
    BY <1>1, <2>1, SameBody
  <2>4. After'
    BY <1>1, <2>1, <2>2, <2>3 DEF After
  <2> QED
    BY <2>1, <2>3, <2>4 DEF Progress
<1> QED
  BY <1>2, <1>3, <1>4

(* The inductive invariant: with the turns of the implementation, the pipeline *)
(* and the writer, how much of what was yielded is in the body.                *)
THEOREM ResponseInvariant == Spec => []Inv
<1>1. Init => Progress /\ Shape
  <2> SUFFICES ASSUME Init PROVE Progress /\ Shape
    OBVIOUS
  <2> QED
    BY DEF Init, Progress, Written, Before, Prefix, Shape
<1>2. ASSUME Inv, [Next]_vars PROVE Progress' /\ Shape'
  <2>1. CASE ReadFails
    <3>1. node' = node /\ pipe' = pipe /\ pipe.st = "failed" /\ writer = "next"
      BY <2>1 DEF ReadFails
    <3>2. Shape' /\ (node.st = "ended" => node.foreign)
      BY <1>2, <3>1, SameBody DEF Inv, State, Turns
    <3> QED
      BY <3>1, <3>2 DEF Progress
  <2>2. CASE \/ Closes \/ RequestCloses \/ EndedElsewhere \/ DeadlineFires \/ ShutsDown
            \/ UNCHANGED vars
    <3>1. /\ node'.body = node.body /\ UNCHANGED <<conf, impl, pipe, writer>>
          /\ node'.st = "open" => node.st = "open"
          /\ node'.st = "ended" /\ ~node'.foreign => node.st = "ended" /\ ~node.foreign
      BY <1>2, <2>2 DEF Inv, Typed, Node, Closes, RequestCloses, EndedElsewhere,
         DeadlineFires, ShutsDown, vars
    <3> QED
      BY <1>2, <3>1, IdleBody
  <2> QED
    BY <1>2, <2>1, <2>2, PipelineBody, WriteBody, SendsBody, WriteFailsBody,
       WriteEndBody DEF Next
<1>3. State /\ Progress /\ Shape <=> Inv
  BY DEF State, Inv
<1>4. Inv /\ State' /\ [Next]_vars => Inv'
  BY <1>2 DEF State, Inv
<1> QED
  BY <1>1, <1>3, <1>4, StateInvariant, PTL DEF Spec

(* The body has the messages in order, then at most one end, and a response    *)
(* that ended is complete.                                                     *)
THEOREM ResponseIsFaithful == Spec => []ResponseFaithful
<1>1. Inv => ResponseFaithful
  <2> SUFFICES ASSUME Inv PROVE ResponseFaithful
    OBVIOUS
  <2>1. \A i \in 1 .. Len(node.body) :
          IF node.body[i].end THEN i = Len(node.body) ELSE node.body[i] = Message(i)
    BY DEF Inv, Shape
  <2>2. ASSUME node.st = "ended", ~node.foreign
        PROVE  /\ node.body # << >> /\ node.body[Len(node.body)] = End(impl.error)
               /\ impl.error = NoCode => Len(node.body) = impl.out + 1
    <3>1. After /\ writer = "ending" /\ pipe.item.end /\ pipe.item = End(impl.error)
      BY <2>2 DEF Inv, Progress, Turns, Typed, Pipe
    <3>2. node.body \in Seq(Item) /\ Len(node.body) > 0 /\ impl.out \in Nat
      BY <3>1, Types DEF After, Inv, Typed, Node, Impl
    <3> QED
      BY <3>1, <3>2 DEF After
  <2> QED
    BY <2>1, <2>2 DEF ResponseFaithful
<1> QED
  BY <1>1, ResponseInvariant, PTL

(* No event error of the response finds no listener: each write that settles   *)
(* with an error leaves one behind.                                            *)
THEOREM ErrorsAreHeard == Spec => []NoUncaughtError
<1>1. Init => NoUncaughtError
  BY DEF Init, NoUncaughtError
<1>2. State /\ NoUncaughtError /\ [Next]_vars => NoUncaughtError'
  <2> SUFFICES ASSUME State, ~node.uncaught, [Next]_vars PROVE ~node'.uncaught
    BY DEF NoUncaughtError
  <2>1. node \in Node
    BY DEF State, Typed
  <2>2. CASE UNCHANGED node
    BY <2>2
  <2>3. CASE Write
    BY <2>1, <2>3 DEF Write, Node
  <2>4. CASE Sends \/ WriteFails
    BY <2>1, <2>4 DEF Sends, WriteFails, SettledSilent, Node
  <2>5. CASE WriteEnd
    BY <2>1, <2>5 DEF WriteEnd, Node
  <2>6. CASE Closes \/ EndedElsewhere
    BY <2>1, <2>6 DEF Closes, EndedElsewhere, Node
  <2> QED
    BY <2>2, <2>3, <2>4, <2>5, <2>6 DEF Next, ImplYields, ImplEnds, ImplUnwinds, Transform,
       ReadFails, RequestCloses, DeadlineFires, ShutsDown, vars
<1> QED
  BY <1>1, <1>2, StateInvariant, PTL DEF Spec
=============================================================================
