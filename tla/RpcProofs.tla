----------------------------- MODULE RpcProofs -----------------------------
(* Proofs about Rpc, for every request and response of a bounded length, and  *)
(* for calls with any number of messages. The invariants, one for each kind   *)
(* of initial state, say what was taken of a request and read of a response:  *)
(* CallInv of a call of ours, RequestInv and AnswerInv of the request of      *)
(* another client, and ResponseInv of the response of another server. The     *)
(* last part is the refinement of CallContract: what is written on the wire   *)
(* is read as it was (BlockSurvives, EndStreamKeeps, StatusFieldsKeep,        *)
(* JsonKeepsErrors, MuxSurvives), client and server agree (Agreement), and    *)
(* OursInv says how far a response is written and read.                       *)
EXTENDS Rpc, FiniteSetTheorems, WellFoundedInduction, TLAPS

-----------------------------------------------------------------------------
(* The fields of the handler and of the client, once there is one.            *)

SrvShape(s) ==
  s = [f \in {"pc", "taken", "inputClosed", "got", "out", "invoked", "aborted",
              "trailer", "fin"} |-> s[f]]

ClShape(c) == c = [f \in {"pc", "sent", "read", "msgs", "trailer", "outcome"} |-> c[f]]

DownShape(d) == d = [f \in {"head", "frames", "end", "json", "trailer"} |-> d[f]]

UpShape(u) == u = [f \in {"frames", "end"} |-> u[f]]

Shapes == /\ srv.pc # "none" => SrvShape(srv)
          /\ cl.pc # "none" => ClShape(cl)
          /\ DownShape(down)
          /\ UpShape(up)

(* The protocol of a request depends on nothing but the request.              *)
LEMMA RequestIsRead ==
  ASSUME call' = call
  PROVE  /\ selectedProtocol' = selectedProtocol /\ compression' = compression
         /\ earlyError' = earlyError /\ unaryHandler' = unaryHandler
         /\ streamHandler' = streamHandler /\ single' = single
  BY DEF selectedProtocol, compression, isGet, earlyError, connectEarlyError,
         grpcEarlyError, parsedTimeout, unaryHandler, streamHandler, single

(* A pull of the pipeline.                                                    *)
LEMMA PulledFields ==
  ASSUME SrvShape(srv), NEW input
  PROVE  LET s == Pulled(input)
         IN  /\ SrvShape(s)
             /\ s.pc = srv.pc /\ s.got = srv.got /\ s.invoked = srv.invoked
             /\ s.out = srv.out /\ s.fin = srv.fin /\ s.trailer = srv.trailer
             /\ input.is = "message" => s.taken = srv.taken + 1 /\ s.inputClosed = FALSE
             /\ input.is # "message" => s.taken = srv.taken
  BY DEF SrvShape, Pulled

(* What the pipeline returns.                                                 *)
LEMMA NextInputIs ==
  /\ NextInput.is = "message" =>
       /\ ~srv.inputClosed /\ earlyError = NoCode /\ More /\ Readable(Envelop)
       /\ NextInput.msg = Envelop.msg
  /\ NextInput.is = "done" /\ ~srv.inputClosed =>
       earlyError = NoCode /\ ~More /\ up.end = "end"
  /\ NextInput.is \in {"message", "done", "error"}
<1>1. CASE srv.inputClosed
  BY <1>1 DEF NextInput, InputDone
<1>2. CASE ~srv.inputClosed /\ earlyError # NoCode
  BY <1>2 DEF NextInput, InputError
<1>3. CASE ~srv.inputClosed /\ earlyError = NoCode /\ More
  <2>1. NextInput = IF Readable(Envelop) THEN Message(Envelop.msg) ELSE InputError(InvalidArgument)
    BY <1>3 DEF NextInput
  <2> QED  BY <2>1, <1>3 DEF Message, InputError
<1>4. CASE ~srv.inputClosed /\ earlyError = NoCode /\ ~More
  <2>1. NextInput = CASE up.end = "end"     -> InputDone
                      [] up.end = "partial" -> InputError(InvalidArgument)
                      [] OTHER              -> InputError(Aborted)
    BY <1>4 DEF NextInput
  <2> QED  BY <2>1, <1>4 DEF InputDone, InputError
<1> QED  BY <1>1, <1>2, <1>3, <1>4

(* The end of a response.                                                     *)
LEMMA CompleteFields ==
  ASSUME NEW s, SrvShape(s), NEW error, NEW t, Complete(s, error, t)
  PROVE  /\ SrvShape(srv') /\ UNCHANGED <<call, up>>
         /\ srv'.pc = "done" /\ srv'.taken = s.taken /\ srv'.got = s.got
         /\ srv'.invoked = s.invoked /\ srv'.fin = <<error>> /\ srv'.out = s.out
         /\ down' = IF streamHandler THEN Ended(error, t) ELSE UnaryEnded(error, 1, t)
  BY DEF SrvShape, Complete

(* Writing envelopes commits the head and appends to the body.                *)
LEMMA WrittenShape ==
  ASSUME DownShape(down), NEW frames
  PROVE  /\ DownShape(Written(frames)) /\ Written(frames).head = Committed
         /\ Written(frames).frames = down.frames \o frames
         /\ Written(frames).end = down.end /\ Written(frames).json = down.json
  BY DEF DownShape, Written

(* Every end of a response leaves its fields.                                 *)
LEMMA EndedShape ==
  ASSUME DownShape(down), NEW error, NEW t
  PROVE  DownShape(Ended(error, t)) /\ DownShape(UnaryEnded(error, 1, t))
<1>1. DownShape(UnaryEnded(error, 1, t))
  BY DEF DownShape, UnaryEnded
<1>2. \A frames : DownShape(Written(frames))
  BY WrittenShape
<1>3. /\ DownShape(grpcEnded(error, t)) /\ DownShape(grpcWebEnded(error, t))
      /\ DownShape(connectEnded(error, t))
  <2>1. \A d, x : DownShape(d) => DownShape([d EXCEPT !.end = "end"])
                               /\ DownShape([d EXCEPT !.trailer = x, !.end = "end"])
    BY DEF DownShape
  <2> QED  BY <1>2, <2>1 DEF grpcEnded, grpcWebEnded, connectEnded
<1> QED  BY <1>1, <1>3 DEF Ended

-----------------------------------------------------------------------------
(* What each step of the handler does to its fields.                          *)

(* A request is refused, or the handler of its protocol starts: the one for   *)
(* Connect unary reads the body, one for a stream waits for the first         *)
(* message, or calls the implementation if the caller sends a stream.         *)
LEMMA SelectFields ==
  ASSUME SrvShape(srv), Select
  PROVE  /\ SrvShape(srv') /\ UNCHANGED <<call, up>> /\ srv.pc = "start"
         /\ srv'.taken = srv.taken /\ srv'.got = srv.got /\ srv'.fin = srv.fin
         /\ srv'.out = srv.out /\ srv'.inputClosed = srv.inputClosed
         /\ \/ srv'.pc = "refused" /\ srv'.invoked = srv.invoked /\ DownShape(down')
            \/ down' = down /\ srv'.pc = "body" /\ srv'.invoked = 0 /\ unaryHandler
            \/ down' = down /\ srv'.pc = "first" /\ srv'.invoked = 0 /\ streamHandler /\ single
            \/ down' = down /\ srv'.pc = "impl" /\ srv'.invoked = 1 /\ streamHandler /\ ~single
<1> DEFINE status == IF negotiateProtocol # 200 THEN negotiateProtocol ELSE handlerStatus
<1>1. UNCHANGED <<call, up>> /\ srv.pc = "start"
  BY Zenon DEF Select
<1>3. CASE status # 200
  <2>1. /\ srv' = [srv EXCEPT !.pc = "refused"]
        /\ down' = [NoResponse EXCEPT
                     !.head = << ResponseHead(status, Unset, Unset, EmptyHeaders) >>, !.end = "end"]
    BY <1>3, Zenon DEF Select
  <2>2. DownShape(NoResponse)
    BY DEF DownShape, NoResponse
  <2>3. ASSUME NEW d, NEW h, DownShape(d)
        PROVE  DownShape([d EXCEPT !.head = h, !.end = "end"])
    BY <2>3 DEF DownShape
  <2>4. DownShape(down')
    BY <2>1, <2>2, <2>3
  <2>5. LET s == [srv EXCEPT !.pc = "refused"]
        IN  /\ SrvShape(s) /\ s.pc = "refused" /\ s.invoked = srv.invoked /\ s.taken = srv.taken
            /\ s.got = srv.got /\ s.fin = srv.fin /\ s.out = srv.out
            /\ s.inputClosed = srv.inputClosed
    BY DEF SrvShape
  <2> QED  BY <1>1, <2>1, <2>4, <2>5
<1>4. CASE status = 200
  <2> DEFINE pc == CASE ~streamHandler -> "body"
                     [] streamHandler /\ call.kind \in {Unary, ServerStreaming} -> "first"
                     [] OTHER -> "impl"
             n  == IF streamHandler /\ call.kind \notin {Unary, ServerStreaming} THEN 1 ELSE 0
  <2>1. srv' = [srv EXCEPT !.pc = pc, !.invoked = n] /\ down' = down
    BY <1>4, Zenon DEF Select
  <2>2. \/ pc = "body" /\ n = 0 /\ unaryHandler
        \/ pc = "first" /\ n = 0 /\ streamHandler /\ single
        \/ pc = "impl" /\ n = 1 /\ streamHandler /\ ~single
    BY DEF single, streamHandler
  <2> HIDE DEF pc, n
  <2>3. /\ SrvShape(srv') /\ srv'.pc = pc /\ srv'.invoked = n /\ srv'.taken = srv.taken
        /\ srv'.got = srv.got /\ srv'.fin = srv.fin /\ srv'.out = srv.out
        /\ srv'.inputClosed = srv.inputClosed
    BY <2>1 DEF SrvShape
  <2> QED  BY <1>1, <2>1, <2>2, <2>3
<1> QED  BY <1>3, <1>4

(* An end that is skipped is taken, and nothing else happens.                 *)
LEMMA SkipEndFields ==
  ASSUME SrvShape(srv), SkipEnd
  PROVE  /\ SrvShape(srv') /\ UNCHANGED <<call, up, down>>
         /\ srv.pc \in {"first", "impl", "drain"} /\ ~srv.inputClosed /\ Skippable
         /\ srv'.pc = srv.pc /\ srv'.taken = srv.taken + 1 /\ srv'.got = srv.got
         /\ srv'.invoked = srv.invoked /\ srv'.fin = srv.fin /\ srv'.out = srv.out
         /\ srv'.inputClosed = srv.inputClosed
  BY DEF SrvShape, SkipEnd

(* A handler that ends with an error or without one.                          *)
Completed(error) ==
  /\ SrvShape(srv') /\ UNCHANGED <<call, up>> /\ srv'.pc = "done" /\ srv'.fin = <<error>>
  /\ \E t : down' = IF streamHandler THEN Ended(error, t) ELSE UnaryEnded(error, 1, t)

(* Complete() is such an end.                                                 *)
LEMMA CompleteEnds ==
  ASSUME NEW s, SrvShape(s), NEW error, NEW t, Complete(s, error, t)
  PROVE  /\ Completed(error)
         /\ srv'.taken = s.taken /\ srv'.got = s.got /\ srv'.invoked = s.invoked
  BY CompleteFields DEF Completed

(* Connect unary: an error, or a call with the one intact message.            *)
LEMMA ReadUnaryFields ==
  ASSUME SrvShape(srv), ReadUnaryMessage
  PROVE  /\ SrvShape(srv') /\ UNCHANGED <<call, up>> /\ srv.pc = "body"
         /\ \/ /\ \E code : Completed(ProtocolError(code))
               /\ srv'.taken = srv.taken /\ srv'.got = srv.got /\ srv'.invoked = srv.invoked
            \/ /\ earlyError = NoCode /\ up.end \notin {"open", "cut", "partial"}
               /\ Len(up.frames) = 1 /\ Intact(up.frames[1]) /\ down' = down
               /\ srv'.pc = "impl" /\ srv'.taken = 1 /\ srv'.got = <<up.frames[1].msg>>
               /\ srv'.invoked = 1 /\ srv'.fin = srv.fin /\ srv'.out = srv.out
               /\ srv'.inputClosed = srv.inputClosed
<1>1. srv.pc = "body" /\ (earlyError # NoCode \/ up.end # "open")
  BY Zenon DEF ReadUnaryMessage
<1>2. ASSUME NEW code, Complete(srv, ProtocolError(code), EmptyHeaders)
      PROVE  /\ \E c : Completed(ProtocolError(c))
             /\ SrvShape(srv') /\ UNCHANGED <<call, up>>
             /\ srv'.taken = srv.taken /\ srv'.got = srv.got /\ srv'.invoked = srv.invoked
  BY <1>2, CompleteFields DEF Completed
<1>3. CASE \/ earlyError # NoCode \/ up.end = "cut" \/ up.end = "partial"
           \/ Len(up.frames) # 1 \/ ~Intact(up.frames[1])
  <2>1. \E code : Complete(srv, ProtocolError(code), EmptyHeaders)
    BY <1>3, Zenon DEF ReadUnaryMessage
  <2> QED  BY <1>1, <1>2, <2>1
<1>4. CASE /\ earlyError = NoCode /\ up.end # "cut" /\ up.end # "partial"
           /\ Len(up.frames) = 1 /\ Intact(up.frames[1])
  <2>1. /\ srv' = [srv EXCEPT !.pc = "impl", !.taken = 1, !.got = <<up.frames[1].msg>>,
                              !.invoked = 1]
        /\ UNCHANGED <<call, up, down>>
    BY <1>4, Zenon DEF ReadUnaryMessage
  <2> QED  BY <1>1, <1>4, <2>1 DEF SrvShape
<1> QED  BY <1>3, <1>4

(* A unary or server-streaming call of a stream handler begins with the first *)
(* message the pipeline returns, or ends with an error.                       *)
LEMMA FirstInputFields ==
  ASSUME SrvShape(srv), FirstInput
  PROVE  /\ SrvShape(srv') /\ UNCHANGED <<call, up>> /\ srv.pc = "first"
         /\ \/ /\ \E code : Completed(ProtocolError(code))
               /\ srv'.taken = srv.taken /\ srv'.got = srv.got /\ srv'.invoked = srv.invoked
            \/ /\ NextInput.is = "message" /\ down' = down
               /\ srv'.pc = "impl" /\ srv'.taken = srv.taken + 1
               /\ srv'.got = <<NextInput.msg>> /\ srv'.invoked = 1
               /\ srv'.fin = srv.fin /\ srv'.out = srv.out /\ srv'.inputClosed = FALSE
<1>1. srv.pc = "first"
  BY Zenon DEF FirstInput
<1>2. CASE NextInput.is = "message"
  <2> DEFINE s == Pulled(NextInput)
  <2>1. /\ srv' = [s EXCEPT !.pc = "impl", !.got = <<NextInput.msg>>, !.invoked = 1]
        /\ UNCHANGED <<call, up, down>>
    BY <1>2, Zenon DEF FirstInput
  <2>2. /\ SrvShape(s) /\ s.taken = srv.taken + 1 /\ s.fin = srv.fin /\ s.out = srv.out
        /\ s.inputClosed = FALSE
    BY <1>2, PulledFields
  <2> HIDE DEF s
  <2>3. /\ SrvShape(srv') /\ srv'.pc = "impl" /\ srv'.got = <<NextInput.msg>>
        /\ srv'.invoked = 1 /\ srv'.taken = s.taken /\ srv'.fin = s.fin /\ srv'.out = s.out
        /\ srv'.inputClosed = s.inputClosed
    BY <2>1, <2>2 DEF SrvShape
  <2> QED  BY <1>1, <1>2, <2>1, <2>2, <2>3
<1>3. CASE NextInput.is # "message"
  <2>1. \E code : Complete(Pulled(NextInput), ProtocolError(code), EmptyHeaders)
    BY <1>3, Zenon DEF FirstInput
  <2>2. SrvShape(Pulled(NextInput)) /\ Pulled(NextInput).taken = srv.taken
        /\ Pulled(NextInput).got = srv.got /\ Pulled(NextInput).invoked = srv.invoked
    BY <1>3, PulledFields
  <2> QED  BY <1>1, <2>1, <2>2, CompleteEnds DEF Completed
<1> QED  BY <1>2, <1>3

(* An implementation that reads its stream gets the next message, if any.     *)
LEMMA ImplReadFields ==
  ASSUME SrvShape(srv), ImplRead
  PROVE  /\ SrvShape(srv') /\ UNCHANGED <<call, up, down>> /\ srv.pc = "impl" /\ ~single
         /\ srv'.pc = "impl" /\ srv'.invoked = srv.invoked /\ srv'.fin = srv.fin
         /\ srv'.out = srv.out
         /\ \/ srv'.taken = srv.taken /\ srv'.got = srv.got
            \/ /\ NextInput.is = "message" /\ srv'.taken = srv.taken + 1
               /\ srv'.got = Append(srv.got, NextInput.msg)
<1>1. /\ srv.pc = "impl" /\ ~single /\ UNCHANGED <<call, up, down>>
  BY DEF ImplRead, single, Unary, ServerStreaming, ClientStreaming, BiDiStreaming
<1> DEFINE s == Pulled(NextInput)
           g == IF NextInput.is = "message" THEN Append(s.got, NextInput.msg) ELSE s.got
<1>2. srv' = [s EXCEPT !.got = g]
  BY Zenon DEF ImplRead
<1>3. /\ SrvShape(s) /\ s.pc = srv.pc /\ s.got = srv.got /\ s.invoked = srv.invoked
      /\ s.out = srv.out /\ s.fin = srv.fin
      /\ NextInput.is = "message" => s.taken = srv.taken + 1
      /\ NextInput.is # "message" => s.taken = srv.taken
  BY PulledFields
<1>4. \/ NextInput.is = "message" /\ g = Append(s.got, NextInput.msg)
      \/ NextInput.is # "message" /\ g = s.got
  OBVIOUS
<1> HIDE DEF s, g
<1>5. /\ SrvShape(srv') /\ srv'.pc = s.pc /\ srv'.got = g /\ srv'.invoked = s.invoked
      /\ srv'.taken = s.taken /\ srv'.fin = s.fin /\ srv'.out = s.out
  BY <1>2, <1>3 DEF SrvShape
<1> QED  BY <1>1, <1>3, <1>4, <1>5

(* A yielded message is numbered and written.                                 *)
LEMMA ImplYieldFields ==
  ASSUME SrvShape(srv), ImplYield
  PROVE  /\ SrvShape(srv') /\ UNCHANGED <<call, up>> /\ srv.pc = "impl"
         /\ srv'.pc = "impl" /\ srv'.invoked = srv.invoked /\ srv'.fin = srv.fin
         /\ srv'.taken = srv.taken /\ srv'.got = srv.got /\ srv'.out = srv.out + 1
         /\ srv'.inputClosed = srv.inputClosed
         /\ down' = Written(<<Envelope(srv.out + 1, Compressed)>>)
  BY DEF SrvShape, ImplYield

(* An implementation that returns ends the response, or its request is read   *)
(* to the end first.                                                          *)
LEMMA ImplReturnFields ==
  ASSUME SrvShape(srv), ImplReturn
  PROVE  /\ SrvShape(srv') /\ UNCHANGED <<call, up>> /\ srv.pc = "impl"
         /\ srv'.invoked = srv.invoked /\ srv'.taken = srv.taken /\ srv'.got = srv.got
         /\ \/ Completed(<< >>) /\ (unaryHandler \/ call.kind = BiDiStreaming)
            \/ /\ streamHandler /\ srv'.fin = srv.fin /\ srv'.out \in {srv.out, 1}
               /\ srv'.inputClosed = srv.inputClosed
               /\ srv'.pc = IF call.kind = ClientStreaming THEN "drained" ELSE "drain"
               /\ down' \in {down, Written(<<Envelope(1, Compressed)>>)}
<1> PICK t \in ImplTrailers :
      LET one == call.kind \in {Unary, ClientStreaming}
          s   == IF one THEN [srv EXCEPT !.out = 1] ELSE srv
      IN  IF call.kind = BiDiStreaming \/ ~streamHandler THEN Complete(s, << >>, t)
          ELSE /\ srv' = [s EXCEPT !.pc = IF call.kind = ClientStreaming THEN "drained"
                                          ELSE "drain", !.trailer = t]
               /\ down' = IF one THEN Written(<<Envelope(1, Compressed)>>) ELSE down
               /\ UNCHANGED <<call, up>>
  BY Zenon DEF ImplReturn
<1> DEFINE one == call.kind \in {Unary, ClientStreaming}
           s   == IF one THEN [srv EXCEPT !.out = 1] ELSE srv
<1>1. srv.pc = "impl"
  BY Zenon DEF ImplReturn
<1>2. /\ SrvShape(s) /\ s.taken = srv.taken /\ s.got = srv.got /\ s.invoked = srv.invoked
      /\ s.fin = srv.fin /\ s.out \in {srv.out, 1} /\ s.inputClosed = srv.inputClosed
  BY DEF SrvShape
<1>3. CASE call.kind = BiDiStreaming \/ ~streamHandler
  <2>1. Complete(s, << >>, t)
    BY <1>3
  <2> HIDE DEF s
  <2>2. /\ Completed(<< >>)
        /\ srv'.taken = s.taken /\ srv'.got = s.got /\ srv'.invoked = s.invoked
    BY <1>2, <2>1, CompleteEnds
  <2> QED  BY <1>1, <1>2, <1>3, <2>2 DEF Completed, streamHandler
<1>4. CASE ~(call.kind = BiDiStreaming \/ ~streamHandler)
  <2> DEFINE pc == IF call.kind = ClientStreaming THEN "drained" ELSE "drain"
  <2>1. /\ srv' = [s EXCEPT !.pc = pc, !.trailer = t]
        /\ down' \in {down, Written(<<Envelope(1, Compressed)>>)} /\ UNCHANGED <<call, up>>
    BY <1>4
  <2> HIDE DEF s, pc
  <2>2. /\ SrvShape(srv') /\ srv'.pc = pc /\ srv'.taken = s.taken /\ srv'.got = s.got
        /\ srv'.invoked = s.invoked /\ srv'.fin = s.fin /\ srv'.out = s.out
        /\ srv'.inputClosed = s.inputClosed
    BY <1>2, <2>1 DEF SrvShape
  <2> USE DEF pc
  <2> QED  BY <1>1, <1>2, <1>4, <2>1, <2>2
<1> QED  BY <1>3, <1>4

(* An implementation that throws ends the response with an error.             *)
LEMMA ImplThrowFields ==
  ASSUME SrvShape(srv), ImplThrow
  PROVE  /\ SrvShape(srv') /\ UNCHANGED <<call, up>> /\ srv.pc = "impl"
         /\ \E e : Completed(Sent(e))
         /\ srv'.invoked = srv.invoked /\ srv'.taken = srv.taken /\ srv'.got = srv.got
<1>1. PICK e \in ImplErrors, t \in ImplTrailers : Complete(srv, Sent(e), t)
  BY Zenon DEF ImplThrow
<1>2. srv.pc = "impl"
  BY Zenon DEF ImplThrow
<1> QED  BY <1>1, <1>2, CompleteEnds DEF Completed

(* The request ends without another message, or the response has an error.    *)
LEMMA DrainFields ==
  ASSUME SrvShape(srv), Drain
  PROVE  /\ SrvShape(srv') /\ UNCHANGED <<call, up>> /\ srv.pc = "drain"
         /\ srv'.invoked = srv.invoked /\ srv'.got = srv.got
         /\ srv'.taken = srv.taken
              \/ (srv'.taken = srv.taken + 1 /\ NextInput.is = "message")
         /\ \/ NextInput.is = "done" /\ Completed(<< >>)
            \/ \E code : Completed(ProtocolError(code))
<1> DEFINE error == CASE NextInput.is = "done"    -> << >>
                      [] NextInput.is = "message" -> ProtocolError(InvalidArgument)
                      [] OTHER                    -> ProtocolError(NextInput.code)
<1>1. srv.pc = "drain" /\ Complete(Pulled(NextInput), error, srv.trailer)
  BY Zenon DEF Drain
<1>2. (NextInput.is = "done" /\ error = << >>) \/ \E code : error = ProtocolError(code)
  <2>1. CASE NextInput.is = "done"
    BY <2>1
  <2>2. CASE NextInput.is = "message"
    BY <2>2
  <2>3. CASE NextInput.is # "done" /\ NextInput.is # "message"
    BY <2>3
  <2> QED  BY <2>1, <2>2, <2>3
<1> HIDE DEF error
<1>3. /\ SrvShape(Pulled(NextInput))
      /\ Pulled(NextInput).got = srv.got /\ Pulled(NextInput).invoked = srv.invoked
      /\ \/ Pulled(NextInput).taken = srv.taken
         \/ Pulled(NextInput).taken = srv.taken + 1 /\ NextInput.is = "message"
  BY PulledFields
<1>4. /\ Completed(error) /\ srv'.taken = Pulled(NextInput).taken
      /\ srv'.got = Pulled(NextInput).got /\ srv'.invoked = Pulled(NextInput).invoked
  BY <1>1, <1>3, CompleteEnds
<1> QED  BY <1>1, <1>2, <1>3, <1>4 DEF Completed

(* The stream of a client-streaming call need not be read to its end.         *)
LEMMA DrainedFields ==
  ASSUME SrvShape(srv), Drained
  PROVE  /\ SrvShape(srv') /\ UNCHANGED <<call, up>> /\ srv.pc = "drained"
         /\ Completed(<< >>)
         /\ srv'.invoked = srv.invoked /\ srv'.taken = srv.taken /\ srv'.got = srv.got
  BY CompleteEnds DEF Drained, Completed

(* The handler of a lost connection stops and writes nothing.                 *)
LEMMA HangUpFields ==
  ASSUME SrvShape(srv), HangUp
  PROVE  /\ SrvShape(srv') /\ UNCHANGED <<call, up, down>>
         /\ down.end = "cut" /\ srv.pc \notin {"done", "refused", "gone"}
         /\ srv'.pc = "gone" /\ srv'.invoked = srv.invoked /\ srv'.taken = srv.taken
         /\ srv'.got = srv.got /\ srv'.fin = srv.fin
  BY DEF SrvShape, HangUp

(* The steps of the handlers for streams and of the one for Connect unary.    *)
LEMMA ServerCases ==
  ASSUME Server
  PROVE  /\ UNCHANGED <<call, up, peer, cl, lost>> /\ down.end # "cut"
         /\ \/ Select
            \/ unaryHandler /\ (ReadUnaryMessage \/ ImplReturn \/ ImplThrow)
            \/ /\ streamHandler
               /\ \/ SkipEnd \/ FirstInput \/ ImplRead \/ ImplYield
                  \/ ImplReturn \/ ImplThrow \/ Drain \/ Drained
<1>1. UNCHANGED <<call, up>>
  BY DEF Server, HandlerStep, Select, connectUnaryHandler, connectStreamHandler, grpcHandler,
         grpcWebHandler, StreamStep, ReadUnaryMessage, ImplReturn, ImplThrow, SkipEnd, FirstInput,
         ImplRead, ImplYield, Drain, Drained, Complete
<1>2. \/ Select
      \/ unaryHandler /\ (ReadUnaryMessage \/ ImplReturn \/ ImplThrow)
      \/ streamHandler /\ StreamStep
  BY DEF Server, HandlerStep, connectUnaryHandler, connectStreamHandler, grpcHandler,
         grpcWebHandler, streamHandler, unaryHandler
<1> QED  BY <1>1, <1>2 DEF Server, HandlerStep, StreamStep

-----------------------------------------------------------------------------
(* What each step of the client does to its fields.                           *)

Settled(error, msgs) ==
  /\ ClShape(cl') /\ cl'.pc = "done" /\ cl'.sent = cl.sent /\ cl'.read = cl.read
  /\ cl'.msgs = IF unaryCall /\ error # << >> THEN << >> ELSE msgs
  /\ cl'.outcome[1].error = error
  /\ UpShape(up') /\ up'.frames = up.frames
  /\ DownShape(down') /\ down'.frames = down.frames
  /\ down'.end \in {"cut", down.end} /\ (down.end # "open" => down' = down)
  /\ UNCHANGED <<call, srv, peer>>

Fails == \E error, msgs : error # << >> /\ Settled(error, msgs)

(* Settle() does what Settled says.                                           *)
LEMMA SettleFields ==
  ASSUME ClShape(cl), UpShape(up), DownShape(down), NEW error, NEW msgs, NEW trailer,
         Settle(error, msgs, trailer)
  PROVE  Settled(error, msgs)
<1>1. UNCHANGED <<call, srv, peer>>
  BY DEF Settle
<1>2. /\ ClShape(cl') /\ cl'.pc = "done" /\ cl'.sent = cl.sent /\ cl'.read = cl.read
      /\ cl'.msgs = IF unaryCall /\ error # << >> THEN << >> ELSE msgs
      /\ cl'.outcome[1].error = error
  BY DEF Settle, ClShape
<1>3. UpShape(up') /\ up'.frames = up.frames
  BY DEF Settle, UpShape
<1>4. /\ DownShape(down') /\ down'.frames = down.frames
      /\ down'.end \in {"cut", down.end} /\ (down.end # "open" => down' = down)
  BY DEF Settle, DownShape
<1> QED  BY <1>1, <1>2, <1>3, <1>4 DEF Settled

(* Settle() with an error fails the call.                                     *)
LEMMA SettleFails ==
  ASSUME ClShape(cl), UpShape(up), DownShape(down), NEW error, NEW msgs, NEW trailer,
         Settle(error, msgs, trailer), error # << >>
  PROVE  Fails
  BY SettleFields DEF Fails

(* Fail() fails the call.                                                     *)
LEMMA FailFails ==
  ASSUME ClShape(cl), UpShape(up), DownShape(down), NEW code, Fail(code)
  PROVE  Fails
  BY SettleFails DEF Fail

(* A message of the caller is numbered and appended to the request.           *)
LEMMA SendMessageFields ==
  ASSUME ClShape(cl), SendMessage
  PROVE  /\ ClShape(cl') /\ UpShape(up') /\ up.end = "open"
         /\ cl' = [cl EXCEPT !.sent = cl.sent + 1]
         /\ cl'.pc = cl.pc /\ cl'.sent = cl.sent + 1 /\ cl'.read = cl.read
         /\ cl'.msgs = cl.msgs /\ cl'.outcome = cl.outcome /\ cl'.trailer = cl.trailer
         /\ up'.frames = Append(up.frames, Envelope(cl.sent + 1, RequestCompressed))
         /\ UNCHANGED <<call, srv, down, peer>>
  BY DEF ClShape, UpShape, SendMessage

(* The end of a request changes nothing else.                                 *)
LEMMA SendEndFields ==
  ASSUME UpShape(up), SendEnd
  PROVE  /\ UpShape(up') /\ up.end = "open" /\ up'.frames = up.frames
         /\ UNCHANGED <<call, srv, down, peer, cl>>
  BY DEF UpShape, SendEnd

(* The head of the response fails the call, or is followed by the body.       *)
LEMMA ReadHeadFields ==
  ASSUME ClShape(cl), UpShape(up), DownShape(down), ReadHead
  PROVE  /\ cl.pc = "sending"
         /\ \/ Fails
            \/ /\ HeadError = << >> /\ ClShape(cl') /\ UNCHANGED <<call, up, srv, down, peer>>
               /\ cl'.pc = IF peer.protocol = "connect" /\ unaryCall THEN "unary" ELSE "body"
               /\ cl'.sent = cl.sent /\ cl'.read = cl.read /\ cl'.msgs = cl.msgs
               /\ cl'.trailer = cl.trailer /\ cl'.outcome = cl.outcome
<1>1. cl.pc = "sending"
  BY Zenon DEF ReadHead
<1>2. CASE HeadError # << >>
  <2>1. Settle(HeadError, cl.msgs, EmptyHeaders)
    BY <1>2, Zenon DEF ReadHead
  <2> QED  BY <1>1, <1>2, <2>1, SettleFails
<1>3. CASE HeadError = << >>
  <2> DEFINE pc == IF peer.protocol = "connect" /\ unaryCall THEN "unary" ELSE "body"
  <2>1. cl' = [cl EXCEPT !.pc = pc] /\ UNCHANGED <<call, up, srv, down, peer>>
    BY <1>3, Zenon DEF ReadHead
  <2> HIDE DEF pc
  <2>2. /\ ClShape(cl') /\ cl'.pc = pc /\ cl'.sent = cl.sent /\ cl'.read = cl.read
        /\ cl'.msgs = cl.msgs /\ cl'.trailer = cl.trailer /\ cl'.outcome = cl.outcome
    BY <2>1 DEF ClShape
  <2> QED  BY <1>1, <1>3, <2>1, <2>2 DEF pc
<1> QED  BY <1>2, <1>3

(* A response without a head fails the call.                                  *)
LEMMA NoHeadFields ==
  ASSUME ClShape(cl), UpShape(up), DownShape(down), NoHead
  PROVE  Fails
<1>1. PICK code \in LostCodes : Fail(code)
  BY Zenon DEF NoHead
<1> QED  BY <1>1, FailFails

(* Connect unary: only a body that is complete and parses is a success.       *)
LEMMA ReadUnaryResponse ==
  ASSUME ClShape(cl), UpShape(up), DownShape(down), ReadConnectUnary
  PROVE  /\ cl.pc = "unary" /\ down.end # "open"
         /\ \/ Fails
            \/ /\ down.end \notin {"cut", "partial"} /\ ~(down.end = "end" /\ isUnaryError)
               /\ BodyParses /\ Settled(<< >>, <<down.frames[1].msg>>)
<1> DEFINE muxed == trailerDemux(head.fields)
           metadata == appendHeaders(muxed[1], muxed[2])
           error == errorFromJsonBytes(down.json[1], metadata, connectStatusError)
<1>1. cl.pc = "unary" /\ down.end # "open"
  BY Zenon DEF ReadConnectUnary
<1>2. CASE down.end = "cut"
  <2>1. \E code \in LostCodes : Fail(code)
    BY <1>2, Zenon DEF ReadConnectUnary
  <2> QED  BY <1>1, <2>1, FailFails
<1>3. CASE down.end = "partial"
  <2>1. Fail(InvalidArgument)
    BY <1>3 DEF ReadConnectUnary
  <2> QED  BY <1>1, <2>1, FailFails
<1>4. CASE down.end = "end" /\ isUnaryError
  <2>1. IF web /\ ~down.json[1].valid THEN Fail(Unknown)
        ELSE Settle(<<error.error>>, << >>, EmptyHeaders)
    BY <1>4 DEF ReadConnectUnary
  <2> HIDE DEF error
  <2>2. <<error.error>> # << >>
    OBVIOUS
  <2> QED  BY <1>1, <2>1, <2>2, FailFails, SettleFails
<1>5. CASE down.end \notin {"cut", "partial"} /\ ~(down.end = "end" /\ isUnaryError)
  <2>1. IF BodyParses THEN Settle(<< >>, <<down.frames[1].msg>>, muxed[2])
        ELSE Fail(InvalidArgument)
    BY <1>5 DEF ReadConnectUnary
  <2> HIDE DEF muxed
  <2> QED  BY <1>1, <1>5, <2>1, FailFails, SettleFields
<1> QED  BY <1>2, <1>3, <1>4, <1>5

(* A message fails the call, or was not refused, parses, and is appended.     *)
LEMMA ReadMessageFields ==
  ASSUME ClShape(cl), UpShape(up), DownShape(down), ReadMessage
  PROVE  /\ cl.pc = "body" /\ cl.read < Len(down.frames) /\ ~IsEnd(Unread)
         /\ \/ Fails
            \/ /\ ~Refused /\ Parses(Unread) /\ ClShape(cl') /\ UNCHANGED <<call, up, srv, down, peer>>
               /\ cl'.pc = "body" /\ cl'.read = cl.read + 1 /\ cl'.sent = cl.sent
               /\ cl'.msgs = Append(cl.msgs, Unread.msg)
               /\ cl'.trailer = cl.trailer /\ cl'.outcome = cl.outcome
<1>1. cl.pc = "body" /\ cl.read < Len(down.frames) /\ ~IsEnd(Unread)
  BY Zenon DEF ReadMessage
<1>2. CASE Refused \/ ~Parses(Unread)
  <2>1. Fail(Violation) \/ Fail(InvalidArgument)
    BY <1>2, Zenon DEF ReadMessage
  <2> QED  BY <1>1, <2>1, FailFails
<1>3. CASE ~Refused /\ Parses(Unread)
  <2>1. cl' = [[cl EXCEPT !.read = cl.read + 1] EXCEPT !.msgs = Append(@, Unread.msg)]
        /\ UNCHANGED <<call, up, srv, down, peer>>
    BY <1>3, Zenon DEF ReadMessage, Read
  <2> QED  BY <1>1, <1>3, <2>1 DEF ClShape
<1> QED  BY <1>2, <1>3

(* An end fails the call, or was not refused and is kept.                     *)
LEMMA ReadEndFields ==
  ASSUME ClShape(cl), UpShape(up), DownShape(down), ReadEnd
  PROVE  /\ cl.pc = "body" /\ cl.read < Len(down.frames) /\ IsEnd(Unread)
         /\ \/ Fails
            \/ /\ ~Refused /\ ClShape(cl') /\ UNCHANGED <<call, up, srv, down, peer>>
               /\ ~unaryCall => EndError = << >>
               /\ cl'.pc = "body" /\ cl'.read = cl.read + 1 /\ cl'.sent = cl.sent
               /\ cl'.msgs = cl.msgs /\ cl'.outcome = cl.outcome
               /\ cl'.trailer # << >>
               /\ cl.trailer = << >> => cl'.trailer = <<EndTrailer>>
<1> DEFINE garbled == ~Parses(Unread) /\ (node \/ peer.protocol = "connect")
<1>1. cl.pc = "body" /\ cl.read < Len(down.frames) /\ IsEnd(Unread)
  BY Zenon DEF ReadEnd
<1>2. CASE Refused \/ garbled
  <2>1. Fail(Violation) \/ Fail(InvalidArgument)
    BY <1>2, Zenon DEF ReadEnd
  <2> QED  BY <1>1, <2>1, FailFails
<1>3. CASE ~Refused /\ ~garbled /\ ~unaryCall /\ EndError # << >>
  <2>1. Settle(EndError, cl.msgs, EmptyHeaders)
    BY <1>3, Zenon DEF ReadEnd
  <2> QED  BY <1>1, <1>3, <2>1, SettleFails
<1>4. CASE ~Refused /\ ~garbled /\ ~(~unaryCall /\ EndError # << >>)
  <2> DEFINE t == IF cl.trailer = << >> THEN EndTrailer ELSE SetAll(cl.trailer[1], EndTrailer)
  <2>1. /\ cl' = [[cl EXCEPT !.read = cl.read + 1] EXCEPT !.trailer =
                    <<IF @ = << >> THEN EndTrailer ELSE SetAll(@[1], EndTrailer)>>]
        /\ UNCHANGED <<call, up, srv, down, peer>>
    BY <1>4, Zenon DEF ReadEnd, Read
  <2>2. [cl EXCEPT !.read = cl.read + 1].trailer = cl.trailer
    BY DEF ClShape
  <2>3. cl' = [[cl EXCEPT !.read = cl.read + 1] EXCEPT !.trailer = <<t>>]
    BY <2>1, <2>2
  <2> HIDE DEF t
  <2>4. /\ ClShape(cl') /\ cl'.pc = cl.pc /\ cl'.read = cl.read + 1 /\ cl'.sent = cl.sent
        /\ cl'.msgs = cl.msgs /\ cl'.outcome = cl.outcome /\ cl'.trailer = <<t>>
    BY <2>3 DEF ClShape
  <2>5. cl.trailer = << >> => t = EndTrailer
    BY DEF t
  <2> QED  BY <1>1, <1>4, <2>1, <2>4, <2>5
<1> QED  BY <1>2, <1>3, <1>4

(* The end of the body fails the call, or all of it was fine.                 *)
LEMMA ReadBodyEndFields ==
  ASSUME ClShape(cl), UpShape(up), DownShape(down), ReadBodyEnd
  PROVE  /\ cl.pc = "body" /\ cl.read = Len(down.frames) /\ down.end # "open"
         /\ \/ Fails
            \/ /\ down.end \notin {"cut", "partial"} /\ BodyError = << >>
               /\ unaryCall => cl.msgs # << >>
               /\ call.kind = ClientStreaming => cl.msgs # << >>
               /\ Settled(<< >>, cl.msgs)
<1>1. cl.pc = "body" /\ cl.read = Len(down.frames) /\ down.end # "open"
  BY Zenon DEF ReadBodyEnd, BodyEnds
<1>2. CASE down.end = "cut"
  <2>1. \E code \in LostCodes : Fail(code)
    BY <1>2, Zenon DEF ReadBodyEnd
  <2> QED  BY <1>1, <2>1, FailFails
<1>3. CASE down.end = "partial"
  <2>1. Fail(Premature)
    BY <1>3 DEF ReadBodyEnd
  <2> QED  BY <1>1, <2>1, FailFails
<1>4. CASE down.end \notin {"cut", "partial"}
  <2>1. PICK fields :
          IF BodyError # << >> THEN Settle(BodyError, cl.msgs, EmptyHeaders)
          ELSE IF unaryCall /\ cl.msgs = << >> THEN Fail(Violation)
          ELSE Answer(fields)
    BY <1>4 DEF ReadBodyEnd
  <2>2. CASE BodyError # << >>
    BY <1>1, <2>1, <2>2, SettleFails
  <2>3. CASE BodyError = << >> /\ unaryCall /\ cl.msgs = << >>
    BY <1>1, <2>1, <2>3, FailFails
  <2>4. CASE BodyError = << >> /\ ~(unaryCall /\ cl.msgs = << >>)
    <3>1. Answer(fields)
      BY <2>1, <2>4
    <3>2. CASE call.kind = ClientStreaming /\ cl.msgs = << >>
      <4>1. Settle(<<Error(Internal, "client", << >>, EmptyHeaders)>>, << >>, EmptyHeaders)
        BY <3>1, <3>2, Zenon DEF Answer
      <4> QED  BY <1>1, <4>1, SettleFails
    <3>3. CASE ~(call.kind = ClientStreaming /\ cl.msgs = << >>)
      <4>1. Settle(<< >>, cl.msgs, fields)
        BY <3>1, <3>3, Zenon DEF Answer
      <4> QED  BY <1>1, <1>4, <2>4, <3>3, <4>1, SettleFields
    <3> QED  BY <3>2, <3>3
  <2> QED  BY <2>2, <2>3, <2>4
<1> QED  BY <1>2, <1>3, <1>4

(* The steps of the transports: Connect unary and the others.                 *)
LEMMA ClientCases ==
  ASSUME Client
  PROVE  /\ cl.pc \notin {"none", "done"} /\ UNCHANGED <<call, srv, peer, lost>>
         /\ peer.protocol \in {"connect", "grpc", "grpc-web"} /\ (web \/ node)
         /\ \/ SendMessage \/ SendEnd \/ ReadHead \/ NoHead
            \/ peer.protocol = "connect" /\ unaryCall /\ ReadConnectUnary
            \/ /\ ~(peer.protocol = "connect" /\ unaryCall)
               /\ ReadMessage \/ ReadEnd \/ ReadBodyEnd
<1>1. /\ peer.protocol \in {"connect", "grpc", "grpc-web"} /\ (web \/ node)
      /\ \/ Request
         \/ peer.protocol = "connect" /\ unaryCall /\ ReadConnectUnary
         \/ ~(peer.protocol = "connect" /\ unaryCall) /\ ReadBody
  BY DEF Client, ClientStep, connectUnary, connectStream, grpcUnary, grpcStream, grpcWebUnary,
         grpcWebStream, webConnectUnary, webConnectStream, webGrpcWebUnary, webGrpcWebStream,
         Uses, web, node
<1>2. UNCHANGED lost /\ cl.pc \notin {"none", "done"}
  BY Zenon DEF Client
<1>3. ASSUME NEW e, NEW m, NEW t, Settle(e, m, t)
      PROVE  UNCHANGED <<call, srv, peer>>
  BY <1>3 DEF Settle
<1>4. ASSUME NEW c, Fail(c)
      PROVE  UNCHANGED <<call, srv, peer>>
  BY <1>3, <1>4 DEF Fail
<1>5. UNCHANGED <<call, srv, peer>>
  <2>1. CASE SendMessage \/ SendEnd
    BY <2>1 DEF SendMessage, SendEnd
  <2>2. CASE ReadHead
    BY <1>3, <2>2, Zenon DEF ReadHead
  <2>3. CASE NoHead
    BY <1>4, <2>3, Zenon DEF NoHead
  <2>4. CASE ReadConnectUnary
    <3>1. \/ \E code : Fail(code)
          \/ \E e, m, t : Settle(e, m, t)
      BY <2>4 DEF ReadConnectUnary
    <3> QED  BY <1>3, <1>4, <3>1
  <2>5. CASE ReadMessage
    BY <1>4, <2>5, Zenon DEF ReadMessage
  <2>6. CASE ReadEnd
    BY <1>3, <1>4, <2>6, Zenon DEF ReadEnd
  <2>7. CASE ReadBodyEnd
    <3>1. \/ \E code : Fail(code)
          \/ \E e, m, t : Settle(e, m, t)
      BY <2>7 DEF ReadBodyEnd, Answer
    <3> QED  BY <1>3, <1>4, <3>1
  <2> QED  BY <1>1, <2>1, <2>2, <2>3, <2>4, <2>5, <2>6, <2>7 DEF Request, ReadBody
<1> QED  BY <1>1, <1>2, <1>5 DEF Request, ReadBody

-----------------------------------------------------------------------------
(* The records keep their fields, and the roles do not change.                *)

(* The records have their fields in every initial state.                      *)
LEMMA InitShapes == Init => Shapes
<1> SUFFICES ASSUME Init PROVE Shapes
  OBVIOUS
<1>1. DownShape(NoResponse) /\ UpShape(NoBody) /\ \A b : UpShape(Given(b))
  BY DEF DownShape, NoResponse, UpShape, NoBody, Given
<1>2. \A n : ClShape(Sending(n)) /\ Sending(n).pc = "sending"
  BY DEF ClShape, Sending
<1>3. HandlerInit => SrvShape(srv)
  BY DEF SrvShape, HandlerInit
<1>4. CASE InitCall
  <2>1. UpShape(up) /\ HandlerInit /\ down = NoResponse /\ \E n : cl = Sending(n)
    BY <1>1, <1>4 DEF InitCall
  <2> QED  BY <1>1, <1>2, <1>3, <2>1 DEF Shapes
<1>5. CASE InitRequest
  <2>1. HandlerInit /\ down = NoResponse /\ cl.pc = "none"
    BY <1>5 DEF InitRequest
  <2>2. UpShape(up)
    BY <1>5 DEF InitRequest, UpShape
  <2> QED  BY <1>1, <1>3, <2>1, <2>2 DEF Shapes
<1>6. CASE InitResponse
  <2>1. up = Given(<<Envelope(1, FALSE)>>) /\ srv.pc = "none" /\ cl = Sending(1)
    BY <1>6 DEF InitResponse
  <2>2. DownShape(down)
    BY <1>6 DEF InitResponse, DownShape
  <2> QED  BY <1>1, <1>2, <2>1, <2>2 DEF Shapes
<1> QED  BY <1>4, <1>5, <1>6 DEF Init

(* The fields once a response ended.                                          *)
LEMMA EndedFields ==
  ASSUME DownShape(down), NEW error, Completed(error)
  PROVE  SrvShape(srv') /\ srv'.pc = "done" /\ DownShape(down') /\ up' = up
  BY EndedShape DEF Completed

(* The fields once a call failed.                                             *)
LEMMA FailedFields ==
  ASSUME Fails
  PROVE  /\ ClShape(cl') /\ cl'.pc = "done" /\ cl'.sent = cl.sent
         /\ UpShape(up') /\ up'.frames = up.frames /\ DownShape(down') /\ srv' = srv
         /\ cl'.outcome[1].error # << >> /\ (down.end # "open" => down' = down)
  BY DEF Fails, Settled

(* The steps of the server keep the fields, and the client as it is.          *)
LEMMA ServerShapes ==
  ASSUME Shapes, Server
  PROVE  SrvShape(srv') /\ srv'.pc # "none" /\ DownShape(down') /\ UNCHANGED <<up, cl>>
<1> USE DEF Shapes
<1>1. SrvShape(srv) /\ DownShape(down) /\ UNCHANGED <<up, cl>>
  BY ServerCases DEF Server
<1>2. CASE Select
  BY <1>1, <1>2, SelectFields
<1>3. CASE SkipEnd
  BY <1>1, <1>3, SkipEndFields
<1>4. CASE ReadUnaryMessage
  BY <1>1, <1>4, ReadUnaryFields, EndedFields
<1>5. CASE FirstInput
  BY <1>1, <1>5, FirstInputFields, EndedFields
<1>6. CASE ImplRead
  BY <1>1, <1>6, ImplReadFields
<1>7. CASE ImplYield
  BY <1>1, <1>7, ImplYieldFields, WrittenShape
<1>8. CASE ImplReturn
  <2>1. Completed(<< >>) => srv'.pc # "none" /\ DownShape(down')
    BY <1>1, EndedFields
  <2>2. down' \in {down, Written(<<Envelope(1, Compressed)>>)} => DownShape(down')
    BY <1>1, WrittenShape
  <2> QED  BY <1>1, <1>8, <2>1, <2>2, ImplReturnFields
<1>9. CASE ImplThrow
  BY <1>1, <1>9, ImplThrowFields, EndedFields
<1>10. CASE Drain
  BY <1>1, <1>10, DrainFields, EndedFields
<1>11. CASE Drained
  BY <1>1, <1>11, DrainedFields, EndedFields
<1> QED  BY <1>1, <1>2, <1>3, <1>4, <1>5, <1>6, <1>7, <1>8, <1>9, <1>10, <1>11, ServerCases

(* The steps of the client keep the fields, and the server as it is.          *)
LEMMA ClientShapes ==
  ASSUME Shapes, Client
  PROVE  ClShape(cl') /\ cl'.pc # "none" /\ UpShape(up') /\ DownShape(down') /\ srv' = srv
<1>1. /\ ClShape(cl) /\ UpShape(up) /\ DownShape(down) /\ srv' = srv
      /\ cl.pc \notin {"none", "done"}
  BY ClientCases DEF Client, Shapes
<1>2. Fails => ClShape(cl') /\ cl'.pc # "none" /\ UpShape(up') /\ DownShape(down')
  BY FailedFields
<1>3. ASSUME NEW e, NEW m, Settled(e, m)
      PROVE  ClShape(cl') /\ cl'.pc # "none" /\ UpShape(up') /\ DownShape(down')
  BY <1>3 DEF Settled
<1>4. CASE SendMessage
  BY <1>1, <1>4, SendMessageFields
<1>5. CASE SendEnd
  BY <1>1, <1>5, SendEndFields
<1>6. CASE ReadHead
  BY <1>1, <1>2, <1>6, ReadHeadFields
<1>7. CASE NoHead
  BY <1>1, <1>2, <1>7, NoHeadFields
<1>8. CASE ReadConnectUnary
  BY <1>1, <1>2, <1>3, <1>8, ReadUnaryResponse
<1>9. CASE ReadMessage
  BY <1>1, <1>2, <1>9, ReadMessageFields
<1>10. CASE ReadEnd
  BY <1>1, <1>2, <1>10, ReadEndFields
<1>11. CASE ReadBodyEnd
  BY <1>1, <1>2, <1>3, <1>11, ReadBodyEndFields
<1> QED  BY <1>1, <1>4, <1>5, <1>6, <1>7, <1>8, <1>9, <1>10, <1>11, ClientCases

(* A lost connection keeps the fields, and loses no envelope of the request.  *)
LEMMA LoseFields ==
  ASSUME Shapes, Lose
  PROVE  /\ Ours /\ UNCHANGED <<call, srv, peer, cl>> /\ UpShape(up') /\ up'.frames = up.frames
         /\ DownShape(down')
<1>1. /\ Ours /\ UNCHANGED <<call, srv, peer, cl>>
      /\ up' = IF up.end = "open" THEN [up EXCEPT !.end = "cut"] ELSE up
      /\ \E n : down' = [down EXCEPT !.frames = SubSeq(@, 1, n), !.end = "cut", !.json = << >>]
  BY DEF Lose
<1>2. UpShape(up') /\ up'.frames = up.frames
  BY <1>1 DEF Shapes, UpShape
<1>3. DownShape(down')
  <2>1. PICK n : down' = [down EXCEPT !.frames = SubSeq(@, 1, n), !.end = "cut", !.json = << >>]
    BY <1>1
  <2> QED  BY <2>1 DEF Shapes, DownShape
<1> QED  BY <1>1, <1>2, <1>3

(* Every step keeps the fields and the roles.                                 *)
LEMMA NextShapes ==
  ASSUME Shapes, [Next]_vars
  PROVE  Shapes' /\ (cl'.pc = "none" <=> cl.pc = "none") /\ (srv'.pc = "none" <=> srv.pc = "none")
<1>1. CASE Server
  BY <1>1, ServerShapes DEF Shapes, Server
<1>2. CASE Stop
  BY <1>2, HangUpFields DEF Shapes, Stop
<1>3. CASE Client
  BY <1>3, ClientShapes DEF Shapes, Client
<1>4. CASE Lose
  BY <1>4, LoseFields DEF Shapes
<1>5. CASE UNCHANGED vars
  BY <1>5 DEF vars, Shapes
<1> QED  BY <1>1, <1>2, <1>3, <1>4, <1>5 DEF Next

(* The records always have their fields.                                      *)
LEMMA ShapesKept == Spec => []Shapes
<1>1. Init => Shapes
  BY InitShapes
<1>2. Shapes /\ [Next]_vars => Shapes'
  BY NextShapes
<1> QED  BY <1>1, <1>2, PTL DEF Spec

-----------------------------------------------------------------------------
(* A call of ours: the caller's messages are numbered, the pipeline takes     *)
(* them in order, and an implementation has what was taken until it returned. *)

OurEnvelope == [end : {FALSE}, comp : BOOLEAN, valid : {TRUE}, msg : Nat,
                es : {<< >>}, tr : {<< >>}]

Numbered(frames) == /\ frames \in Seq(OurEnvelope)
                    /\ \A i \in 1 .. Len(frames) : frames[i].msg = i

TakenInOrder == /\ srv.taken \in 0 .. Len(up.frames)
                /\ srv.got \in Seq(Nat) /\ Ordered(srv.got) /\ Len(srv.got) <= srv.taken
                /\ srv.pc \in {"start", "body", "first"} => srv.taken = 0
                /\ srv.pc = "impl" => Len(srv.got) = srv.taken
                /\ srv.invoked \in {0, 1}

CallInv == Ours => Numbered(up.frames) /\ Len(up.frames) = cl.sent /\ TakenInOrder

(* What our client and server write are messages with their number.           *)
LEMMA EnvelopeIsOurs ==
  ASSUME NEW m \in Nat, NEW c \in BOOLEAN
  PROVE  Envelope(m, c) \in OurEnvelope /\ Envelope(m, c).msg = m
  BY DEF Envelope, OurEnvelope

(* A message is compressed or not.                                            *)
LEMMA CompressionIsBoolean == RequestCompressed \in BOOLEAN /\ Compressed \in BOOLEAN
  BY DEF RequestCompressed, Compressed

(* No call of ours begins with a message taken.                               *)
LEMMA InitCallInv == Init => CallInv
<1> SUFFICES ASSUME Init, Ours PROVE Numbered(up.frames) /\ Len(up.frames) = cl.sent /\ TakenInOrder
  BY DEF CallInv
<1>1. InitCall
  BY DEF Init, InitRequest, InitResponse, Ours
<1>2. HandlerInit /\ up = (IF Whole THEN Given(<<Envelope(1, RequestCompressed)>>) ELSE NoBody)
      /\ cl = Sending(IF Whole THEN 1 ELSE 0)
  BY <1>1, Zenon DEF InitCall
<1>3. Numbered(up.frames) /\ Len(up.frames) = cl.sent
  <2>1. CASE Whole
    <3>1. up.frames = <<Envelope(1, RequestCompressed)>> /\ cl.sent = 1
      BY <1>2, <2>1 DEF Given, Sending
    <3>2. Envelope(1, RequestCompressed) \in OurEnvelope /\ Envelope(1, RequestCompressed).msg = 1
      BY EnvelopeIsOurs, CompressionIsBoolean
    <3> QED  BY <3>1, <3>2 DEF Numbered
  <2>2. CASE ~Whole
    BY <1>2, <2>2 DEF NoBody, Sending, Numbered
  <2> QED  BY <2>1, <2>2
<1>4. TakenInOrder
  <2>1. srv.taken = 0 /\ srv.got = << >> /\ srv.invoked = 0 /\ srv.pc = "start"
    BY <1>2 DEF HandlerInit
  <2>2. Len(up.frames) \in Nat /\ << >> \in Seq(Nat)
    BY <1>3 DEF Numbered
  <2> QED  BY <2>1, <2>2 DEF TakenInOrder, Ordered
<1> QED  BY <1>3, <1>4

(* A message that the pipeline returns is the next one.                       *)
LEMMA NextIsNumbered ==
  ASSUME Numbered(up.frames), srv.taken \in 0 .. Len(up.frames), NextInput.is = "message"
  PROVE  srv.taken + 1 \in 1 .. Len(up.frames) /\ NextInput.msg = srv.taken + 1
<1>1. srv.taken < Len(up.frames) /\ NextInput.msg = up.frames[srv.taken + 1].msg
  BY NextInputIs DEF More, Envelop
<1>2. Len(up.frames) \in Nat
  BY DEF Numbered
<1> QED  BY <1>1, <1>2 DEF Numbered

(* The steps of the server keep the order of the messages of the caller.      *)
LEMMA ServerCallInv ==
  ASSUME Shapes, CallInv, Ours, Server
  PROVE  TakenInOrder'
<1> USE DEF Shapes
<1>1. /\ SrvShape(srv) /\ Numbered(up.frames) /\ TakenInOrder /\ up' = up
      /\ Len(up.frames) \in Nat /\ srv.pc # "none"
  BY ServerCases DEF CallInv, Server, Numbered
<1>2. ASSUME srv'.pc \notin {"start", "body", "first", "impl"}, srv'.got = srv.got,
             srv'.taken = srv.taken, srv'.invoked = srv.invoked
      PROVE  TakenInOrder'
  BY <1>1, <1>2 DEF TakenInOrder, Ordered
<1>3. CASE Select
  <2>1. /\ srv.pc = "start" /\ srv'.pc \in {"refused", "body", "first", "impl"}
        /\ srv'.got = srv.got /\ srv'.taken = srv.taken /\ srv'.invoked \in {srv.invoked, 0, 1}
    BY <1>1, <1>3, SelectFields
  <2>2. Len(srv.got) = 0 /\ srv.taken = 0
    BY <1>1, <2>1 DEF TakenInOrder
  <2> QED  BY <1>1, <2>1, <2>2 DEF TakenInOrder, Ordered
<1>4. CASE SkipEnd
  <2>1. More /\ Envelop.end
    BY <1>1, <1>4, SkipEndFields DEF Skippable
  <2>2. up.frames[srv.taken + 1] \in OurEnvelope
    BY <1>1, <2>1 DEF More, TakenInOrder, Numbered
  <2> QED  BY <2>1, <2>2 DEF Envelop, OurEnvelope
<1>5. CASE ReadUnaryMessage
  <2>1. CASE \E code : Completed(ProtocolError(code))
    BY <1>1, <1>2, <1>5, <2>1, ReadUnaryFields DEF Completed
  <2>2. CASE Len(up.frames) = 1 /\ srv'.pc = "impl" /\ srv'.taken = 1
             /\ srv'.got = <<up.frames[1].msg>> /\ srv'.invoked = 1
    <3>1. srv'.got = <<1>>
      BY <1>1, <2>2 DEF Numbered
    <3>2. <<1>> \in Seq(Nat) /\ Len(<<1>>) = 1 /\ Ordered(<<1>>)
      BY DEF Ordered
    <3> QED  BY <1>1, <2>2, <3>1, <3>2 DEF TakenInOrder, Ordered
  <2> QED  BY <1>1, <1>5, <2>1, <2>2, ReadUnaryFields
<1>6. CASE FirstInput
  <2>1. CASE \E code : Completed(ProtocolError(code))
    BY <1>1, <1>2, <1>6, <2>1, FirstInputFields DEF Completed
  <2>2. CASE NextInput.is = "message" /\ srv'.pc = "impl" /\ srv'.taken = srv.taken + 1
             /\ srv'.got = <<NextInput.msg>> /\ srv'.invoked = 1
    <3>1. srv.taken = 0
      BY <1>1, <1>6, FirstInputFields DEF TakenInOrder
    <3>2. srv'.got = <<1>> /\ srv'.taken = 1 /\ 1 \in 0 .. Len(up.frames)
      BY <1>1, <2>2, <3>1, NextIsNumbered DEF TakenInOrder
    <3>3. <<1>> \in Seq(Nat) /\ Len(<<1>>) = 1 /\ Ordered(<<1>>)
      BY DEF Ordered
    <3> QED  BY <1>1, <2>2, <3>2, <3>3 DEF TakenInOrder, Ordered
  <2> QED  BY <1>1, <1>6, <2>1, <2>2, FirstInputFields
<1>7. CASE ImplRead
  <2>1. CASE srv'.taken = srv.taken /\ srv'.got = srv.got
    BY <1>1, <1>7, <2>1, ImplReadFields DEF TakenInOrder, Ordered
  <2>2. CASE NextInput.is = "message" /\ srv'.taken = srv.taken + 1
             /\ srv'.got = Append(srv.got, NextInput.msg)
    <3>1. srv.pc = "impl" /\ srv'.pc = "impl" /\ srv'.invoked = srv.invoked
      BY <1>1, <1>7, ImplReadFields
    <3>2. /\ NextInput.msg = srv.taken + 1 /\ srv.taken + 1 \in 1 .. Len(up.frames)
          /\ srv.got \in Seq(Nat) /\ Len(srv.got) = srv.taken /\ srv.taken \in Nat
          /\ Ordered(srv.got)
      BY <1>1, <2>2, <3>1, NextIsNumbered DEF TakenInOrder
    <3>3. srv'.got = Append(srv.got, srv.taken + 1)
      BY <2>2, <3>2
    <3>4. srv'.got \in Seq(Nat) /\ Len(srv'.got) = srv.taken + 1 /\ Ordered(srv'.got)
      BY <3>2, <3>3 DEF Ordered
    <3> QED  BY <1>1, <2>2, <3>1, <3>2, <3>4 DEF TakenInOrder, Ordered
  <2> QED  BY <1>1, <1>7, <2>1, <2>2, ImplReadFields
<1>8. CASE ImplYield
  BY <1>1, <1>8, ImplYieldFields DEF TakenInOrder, Ordered
<1>9. CASE ImplReturn
  BY <1>1, <1>2, <1>9, ImplReturnFields DEF Completed
<1>10. CASE ImplThrow
  BY <1>1, <1>2, <1>10, ImplThrowFields DEF Completed
<1>11. CASE Drain
  <2>1. srv'.pc = "done" /\ srv'.got = srv.got /\ srv'.invoked = srv.invoked
    BY <1>1, <1>11, DrainFields DEF Completed
  <2>2. CASE srv'.taken = srv.taken
    BY <1>2, <2>1, <2>2
  <2>3. CASE srv'.taken = srv.taken + 1 /\ NextInput.is = "message"
    <3>1. srv.taken + 1 \in 1 .. Len(up.frames)
      BY <1>1, <2>3, NextIsNumbered DEF TakenInOrder
    <3> QED  BY <1>1, <2>1, <2>3, <3>1 DEF TakenInOrder, Ordered
  <2> QED  BY <1>1, <1>11, <2>2, <2>3, DrainFields
<1>12. CASE Drained
  BY <1>1, <1>2, <1>12, DrainedFields DEF Completed
<1> QED  BY <1>3, <1>4, <1>5, <1>6, <1>7, <1>8, <1>9, <1>10, <1>11, <1>12, ServerCases

(* The steps of the client number the messages of the caller.                 *)
LEMMA ClientCallInv ==
  ASSUME Shapes, CallInv, Ours, Client
  PROVE  Numbered(up'.frames) /\ Len(up'.frames) = cl'.sent /\ TakenInOrder'
<1>1. /\ ClShape(cl) /\ UpShape(up) /\ DownShape(down) /\ srv' = srv
      /\ Numbered(up.frames) /\ Len(up.frames) = cl.sent /\ TakenInOrder
  BY ClientShapes DEF CallInv, Client, Shapes
<1>2. ASSUME up'.frames = up.frames, cl'.sent = cl.sent
      PROVE  Numbered(up'.frames) /\ Len(up'.frames) = cl'.sent /\ TakenInOrder'
  BY <1>1, <1>2 DEF TakenInOrder, Ordered
<1>3. CASE SendMessage
  <2> DEFINE e == Envelope(cl.sent + 1, RequestCompressed)
  <2>1. up'.frames = Append(up.frames, e) /\ cl'.sent = cl.sent + 1
    BY <1>1, <1>3, SendMessageFields
  <2>2. cl.sent \in Nat
    BY <1>1 DEF Numbered
  <2>3. e \in OurEnvelope /\ e.msg = cl.sent + 1
    BY <2>2, EnvelopeIsOurs, CompressionIsBoolean
  <2> HIDE DEF e
  <2>4. Append(up.frames, e) \in Seq(OurEnvelope) /\ Len(Append(up.frames, e)) = cl.sent + 1
        /\ \A i \in 1 .. cl.sent + 1 : Append(up.frames, e)[i].msg = i
    BY <1>1, <2>2, <2>3 DEF Numbered
  <2>5. Numbered(up'.frames) /\ Len(up'.frames) = cl'.sent
    BY <2>1, <2>4 DEF Numbered
  <2>6. srv.taken \in 0 .. Len(up'.frames)
    BY <1>1, <2>1, <2>2, <2>4 DEF TakenInOrder
  <2> QED  BY <1>1, <2>5, <2>6 DEF TakenInOrder, Ordered
<1>4. Fails => up'.frames = up.frames /\ cl'.sent = cl.sent
  BY FailedFields
<1>5. ASSUME NEW e, NEW m, Settled(e, m)
      PROVE  up'.frames = up.frames /\ cl'.sent = cl.sent
  BY <1>5 DEF Settled
<1>6. CASE SendEnd
  BY <1>1, <1>2, <1>6, SendEndFields
<1>7. CASE ReadHead
  BY <1>1, <1>2, <1>4, <1>7, ReadHeadFields
<1>8. CASE NoHead
  BY <1>1, <1>2, <1>4, <1>8, NoHeadFields
<1>9. CASE ReadConnectUnary
  BY <1>1, <1>2, <1>4, <1>5, <1>9, ReadUnaryResponse
<1>10. CASE ReadMessage
  BY <1>1, <1>2, <1>4, <1>10, ReadMessageFields
<1>11. CASE ReadEnd
  BY <1>1, <1>2, <1>4, <1>11, ReadEndFields
<1>12. CASE ReadBodyEnd
  BY <1>1, <1>2, <1>4, <1>5, <1>12, ReadBodyEndFields
<1> QED  BY <1>3, <1>6, <1>7, <1>8, <1>9, <1>10, <1>11, <1>12, ClientCases

(* Every step keeps CallInv.                                                  *)
LEMMA NextCallInv ==
  ASSUME Shapes, CallInv, [Next]_vars
  PROVE  CallInv'
<1> SUFFICES ASSUME Ours'
             PROVE  Numbered(up'.frames) /\ Len(up'.frames) = cl'.sent /\ TakenInOrder'
  BY DEF CallInv
<1>1. Ours
  BY NextShapes DEF Ours
<1>2. Numbered(up.frames) /\ Len(up.frames) = cl.sent /\ TakenInOrder
  BY <1>1 DEF CallInv
<1>3. CASE Server
  <2>1. UNCHANGED <<up, cl>>
    BY <1>3, ServerCases
  <2> QED  BY <1>1, <1>2, <1>3, <2>1, ServerCallInv
<1>4. CASE Stop
  BY <1>1, <1>2, <1>4, HangUpFields DEF Stop, Shapes, TakenInOrder, Ordered
<1>5. CASE Client
  BY <1>1, <1>5, ClientCallInv
<1>6. CASE Lose
  BY <1>2, <1>6, LoseFields DEF TakenInOrder, Ordered
<1>7. CASE UNCHANGED vars
  BY <1>2, <1>7 DEF vars, TakenInOrder, Ordered
<1> QED  BY <1>3, <1>4, <1>5, <1>6, <1>7 DEF Next

(* The implementation of a call of ours sees the messages of the caller in    *)
(* order and none twice, and is called once.                                  *)
THEOREM CallsAreInOrder == Spec => []InputsInOrder
<1>1. Init => Shapes /\ CallInv
  BY InitShapes, InitCallInv
<1>2. Shapes /\ CallInv /\ [Next]_vars => (Shapes /\ CallInv)'
  BY NextShapes, NextCallInv
<1>3. CallInv => InputsInOrder
  BY DEF CallInv, TakenInOrder, InputsInOrder, Numbered
<1> QED  BY <1>1, <1>2, <1>3, PTL DEF Spec

-----------------------------------------------------------------------------
(* A request of another client: what was taken of its body, and what that     *)
(* says of the rest once the implementation of a unary or server-streaming    *)
(* method is called.                                                          *)

First(i) == i \in Inputs /\ (\A j \in Inputs : i <= j) /\ Readable(up.frames[i])

OnlyInput(i) == /\ Inputs = {i} /\ up.end = "end"
                /\ \A j \in DOMAIN up.frames : Readable(up.frames[j])

TakenAre(S) == \A j \in 1 .. srv.taken : Readable(up.frames[j]) /\ (j \in Inputs => j \in S)

CalledWith(i) ==
  /\ First(i)
  /\ srv.pc \in {"impl", "drain"} /\ streamHandler =>
       i <= srv.taken /\ TakenAre({i}) /\ srv.inputClosed = FALSE
  /\ srv.pc = "impl" /\ unaryHandler => OnlyInput(i)
  /\ srv.fin = << << >> >> => OnlyInput(i)

Requested == /\ up.frames \in Seq(OtherEnvelopes)
             /\ up.end \in {"end", "partial", "cut"}
             /\ srv.taken \in 0 .. Len(up.frames)

Uncalled == /\ srv.pc = "start" => srv.taken = 0
            /\ srv.pc = "first" => streamHandler /\ single /\ TakenAre({})
            /\ srv.pc = "body" => unaryHandler
            /\ srv.pc = "drain" => streamHandler
            /\ srv.pc = "drained" => ~single
            /\ srv.pc \in {"start", "body", "first", "refused"} => srv.invoked = 0
            /\ srv.pc \notin {"done", "gone"} => srv.fin = << >>

Called == srv.invoked = 1 /\ single => earlyError = NoCode /\ \E i \in Inputs : CalledWith(i)

RequestInv ==
  Theirs => Requested /\ Uncalled /\ Called /\ (earlyError # NoCode => srv.got = << >>)

(* What is said of a request depends on nothing but the call and its body.    *)
LEMMA SameRequest ==
  ASSUME UNCHANGED <<call, up>>
  PROVE  /\ Inputs' = Inputs /\ earlyError' = earlyError /\ single' = single
         /\ streamHandler' = streamHandler /\ unaryHandler' = unaryHandler
         /\ \A f : Readable(f)' <=> Readable(f)
         /\ \A i : First(i)' <=> First(i)
         /\ \A i : OnlyInput(i)' <=> OnlyInput(i)
<1>1. /\ Inputs' = Inputs /\ earlyError' = earlyError /\ single' = single
      /\ streamHandler' = streamHandler /\ unaryHandler' = unaryHandler
      /\ compression' = compression
  BY RequestIsRead DEF Inputs
<1>2. \A f : Readable(f)' <=> Readable(f)
  BY <1>1 DEF Readable
<1>3. ASSUME NEW i
      PROVE  (First(i)' <=> First(i)) /\ (OnlyInput(i)' <=> OnlyInput(i))
  BY <1>1 DEF First, OnlyInput, Readable
<1> QED  BY <1>1, <1>2, <1>3

(* No request of another client begins with an implementation called.         *)
LEMMA InitRequestInv == Init => RequestInv
<1> SUFFICES ASSUME Init, Theirs
             PROVE  Requested /\ Uncalled /\ Called /\ (earlyError # NoCode => srv.got = << >>)
  BY DEF RequestInv
<1>1. InitRequest
  BY DEF Init, InitCall, InitResponse, Theirs, Sending
<1>2. HandlerInit
  BY <1>1 DEF InitRequest
<1>3. up.frames \in Seq(OtherEnvelopes) /\ up.end \in {"end", "partial", "cut"}
  <2>1. PICK f \in Bodies(OtherEnvelopes, MaxEnvelopes - 1), e \in {"end", "partial", "cut"} :
          up = [frames |-> f, end |-> e]
    BY <1>1 DEF InitRequest
  <2>2. f \in Seq(OtherEnvelopes)
    BY BodyAssumption DEF Bodies
  <2> QED  BY <2>1, <2>2
<1>4. /\ srv.taken = 0 /\ srv.got = << >> /\ srv.invoked = 0 /\ srv.pc = "start"
      /\ srv.fin = << >>
  BY <1>2 DEF HandlerInit
<1> QED  BY <1>3, <1>4 DEF Requested, Uncalled, Called

(* A step that calls nothing and takes nothing keeps what was found.          *)
LEMMA CalledStays ==
  ASSUME Called, UNCHANGED <<call, up>>, srv'.invoked = srv.invoked,
         \/ srv'.pc \notin {"impl", "drain"}
         \/ /\ srv.pc \in {"impl", "drain"} /\ srv'.pc \in {srv.pc, "drain"}
            /\ srv'.taken = srv.taken /\ srv'.inputClosed = srv.inputClosed,
         srv'.pc = "drain" => streamHandler,
         srv'.fin = << << >> >> => srv'.fin = srv.fin
  PROVE  Called'
<1> SUFFICES ASSUME srv.invoked = 1, single
             PROVE  earlyError = NoCode /\ \E i \in Inputs : CalledWith(i)'
  BY SameRequest DEF Called
<1>1. PICK i \in Inputs : CalledWith(i)
  BY DEF Called
<1>2. /\ First(i)' /\ (srv'.fin = << << >> >> => OnlyInput(i)')
      /\ (srv'.pc = "impl" /\ unaryHandler' => OnlyInput(i)')
  BY <1>1, SameRequest DEF CalledWith, streamHandler
<1>3. srv'.pc \in {"impl", "drain"} /\ streamHandler' =>
        i <= srv'.taken /\ TakenAre({i})' /\ srv'.inputClosed = FALSE
  BY <1>1, SameRequest DEF CalledWith, TakenAre
<1>4. CalledWith(i)'
  BY <1>2, <1>3 DEF CalledWith
<1> QED  BY <1>4 DEF Called

(* An end with an error, and one without after the only input.                *)
LEMMA FailureIsCalled ==
  ASSUME Called, NEW error, Completed(error), error # << >>, srv'.invoked = srv.invoked
  PROVE  Called'
<1>1. srv'.fin # << << >> >>
  BY DEF Completed
<1> QED  BY <1>1, CalledStays DEF Completed

(* A call that succeeds had one message in a request that was complete.       *)
LEMMA SuccessIsCalled ==
  ASSUME Called, Completed(<< >>), srv'.invoked = srv.invoked,
         single /\ srv.invoked = 1 => \E i \in Inputs : First(i) /\ OnlyInput(i)
  PROVE  Called'
<1>1. UNCHANGED <<call, up>> /\ srv'.pc = "done"
  BY DEF Completed
<1> QED  BY <1>1, SameRequest DEF Called, CalledWith

(* What the handler sends for an error is one.                                *)
LEMMA CodesAreErrors == (\A code : ProtocolError(code) # << >>) /\ (\A e : Sent(e) # << >>)
  BY DEF ProtocolError, Sent

(* One more envelope of the body: an end that is skipped, or an input.        *)
LEMMA OneMoreTaken ==
  ASSUME Requested, NEW S, NEW T, TakenAre(S), UNCHANGED <<call, up>>,
         srv'.taken = srv.taken + 1, More, Readable(Envelop),
         S \subseteq T, srv.taken + 1 \in Inputs => srv.taken + 1 \in T
  PROVE  TakenAre(T)' /\ srv'.taken \in 0 .. Len(up.frames)
<1>1. srv.taken \in Nat /\ Len(up.frames) \in Nat /\ srv.taken < Len(up.frames)
  BY DEF Requested, More
<1>2. SUFFICES ASSUME NEW j \in 1 .. srv.taken + 1
               PROVE  Readable(up.frames[j]) /\ (j \in Inputs => j \in T)
  BY <1>1, SameRequest DEF TakenAre
<1>3. CASE j = srv.taken + 1
  BY <1>3 DEF Envelop
<1>4. CASE j # srv.taken + 1
  BY <1>1, <1>4 DEF TakenAre
<1> QED  BY <1>3, <1>4

(* A handler that ended waits for nothing of its request.                     *)
LEMMA StoppedIsUncalled ==
  ASSUME srv'.pc \in {"done", "gone"}
  PROVE  Uncalled'
  BY DEF Uncalled

(* Selecting the handler keeps RequestInv.                                    *)
LEMMA SelectRequestInv ==
  ASSUME SrvShape(srv), RequestInv, Theirs, Select
  PROVE  Requested' /\ Uncalled' /\ Called' /\ (earlyError' # NoCode => srv'.got = << >>)
<1>1. /\ UNCHANGED <<call, up>> /\ srv.pc = "start" /\ srv'.taken = srv.taken
      /\ srv'.got = srv.got /\ srv'.fin = srv.fin
      /\ \/ srv'.pc = "refused" /\ srv'.invoked = srv.invoked
         \/ srv'.pc = "body" /\ srv'.invoked = 0 /\ unaryHandler
         \/ srv'.pc = "first" /\ srv'.invoked = 0 /\ streamHandler /\ single
         \/ srv'.pc = "impl" /\ srv'.invoked = 1 /\ streamHandler /\ ~single
  BY SelectFields
<1>2. /\ srv.taken = 0 /\ srv.invoked = 0 /\ srv.fin = << >> /\ Requested
      /\ earlyError # NoCode => srv.got = << >>
  BY <1>1 DEF RequestInv, Uncalled
<1>3. Requested'
  BY <1>1, <1>2 DEF Requested
<1>4. Uncalled'
  BY <1>1, <1>2, SameRequest DEF Uncalled, TakenAre
<1>5. Called'
  <2>1. single' = single
    BY <1>1, SameRequest
  <2>2. ~(srv'.invoked = 1 /\ single')
    BY <1>1, <1>2, <2>1
  <2> QED  BY <2>2 DEF Called
<1> QED  BY <1>1, <1>2, <1>3, <1>4, <1>5, SameRequest

(* Skipping an end keeps it: an end is no message, and was readable.          *)
LEMMA SkipEndRequestInv ==
  ASSUME SrvShape(srv), RequestInv, Theirs, streamHandler, SkipEnd
  PROVE  Requested' /\ Uncalled' /\ Called' /\ (earlyError' # NoCode => srv'.got = << >>)
<1>1. /\ UNCHANGED <<call, up>> /\ srv.pc \in {"first", "impl", "drain"} /\ srv'.pc = srv.pc
      /\ Skippable /\ srv'.taken = srv.taken + 1 /\ srv'.got = srv.got
      /\ srv'.invoked = srv.invoked /\ srv'.fin = srv.fin /\ srv'.inputClosed = srv.inputClosed
  BY SkipEndFields
<1>2. /\ Requested /\ Uncalled /\ Called /\ (earlyError # NoCode => srv.got = << >>)
  BY DEF RequestInv
<1>3. More /\ Readable(Envelop) /\ srv.taken + 1 \notin Inputs
  BY <1>1 DEF Skippable, Envelop, Inputs
<1>4. srv'.taken \in 0 .. Len(up.frames)
  <2>1. srv.taken \in Nat /\ Len(up.frames) \in Nat /\ srv.taken < Len(up.frames)
    BY <1>2, <1>3 DEF Requested, More
  <2> QED  BY <1>1, <2>1
<1>5. ASSUME NEW S, TakenAre(S)
      PROVE  TakenAre(S)'
  BY <1>1, <1>2, <1>3, <1>5, OneMoreTaken
<1>6. Requested'
  BY <1>1, <1>2, <1>4 DEF Requested
<1>7. Uncalled'
  <2>1. srv.pc = "first" => TakenAre({})'
    BY <1>2, <1>5 DEF Uncalled
  <2> QED  BY <1>1, <1>2, <2>1, SameRequest DEF Uncalled
<1>8. Called'
  <2> SUFFICES ASSUME srv.invoked = 1, single
               PROVE  earlyError = NoCode /\ \E i \in Inputs : CalledWith(i)'
    BY <1>1, SameRequest DEF Called
  <2>1. earlyError = NoCode
    BY <1>2 DEF Called
  <2>2. PICK i \in Inputs : CalledWith(i)
    BY <1>2 DEF Called
  <2>3. i \in Nat /\ srv.taken \in Nat
    BY <1>2 DEF Inputs, Requested
  <2>4. srv.pc \in {"impl", "drain"} => i <= srv'.taken /\ TakenAre({i})' /\ srv.inputClosed = FALSE
    BY <1>1, <1>5, <2>2, <2>3 DEF CalledWith
  <2>5. /\ First(i)' /\ (srv'.fin = << << >> >> => OnlyInput(i)')
        /\ (srv'.pc = "impl" /\ unaryHandler' => OnlyInput(i)')
    BY <1>1, <2>2, SameRequest DEF CalledWith
  <2>6. CalledWith(i)'
    BY <1>1, <2>4, <2>5 DEF CalledWith
  <2> QED  BY <2>1, <2>6
<1> QED  BY <1>1, <1>2, <1>6, <1>7, <1>8, SameRequest

(* The end of a response leaves what was taken as it is.                      *)
LEMMA CompletedRequestInv ==
  ASSUME RequestInv, Theirs, NEW error, Completed(error),
         srv'.taken = srv.taken \/ (srv'.taken = srv.taken + 1 /\ More), srv'.got = srv.got
  PROVE  Requested' /\ Uncalled' /\ (earlyError' # NoCode => srv'.got = << >>)
<1>1. UNCHANGED <<call, up>> /\ srv'.pc = "done"
  BY DEF Completed
<1>2. Requested /\ (earlyError # NoCode => srv.got = << >>)
  BY DEF RequestInv
<1>3. srv'.taken \in 0 .. Len(up.frames)
  <2>1. srv.taken \in 0 .. Len(up.frames) /\ Len(up.frames) \in Nat
    BY <1>2 DEF Requested
  <2> QED  BY <2>1 DEF More
<1> QED  BY <1>1, <1>2, <1>3, StoppedIsUncalled, SameRequest DEF Requested

(* The handler for Connect unary calls the implementation with the only       *)
(* message.                                                                   *)
LEMMA ReadUnaryRequestInv ==
  ASSUME SrvShape(srv), RequestInv, Theirs, unaryHandler, ReadUnaryMessage
  PROVE  Requested' /\ Uncalled' /\ Called' /\ (earlyError' # NoCode => srv'.got = << >>)
<1>1. Requested /\ Uncalled /\ Called /\ (earlyError # NoCode => srv.got = << >>)
  BY DEF RequestInv
<1>2. UNCHANGED <<call, up>> /\ srv.pc = "body"
  BY ReadUnaryFields
<1>3. CASE /\ \E code : Completed(ProtocolError(code))
           /\ srv'.taken = srv.taken /\ srv'.got = srv.got /\ srv'.invoked = srv.invoked
  BY <1>1, <1>3, CompletedRequestInv, FailureIsCalled, CodesAreErrors
<1>4. CASE /\ earlyError = NoCode /\ up.end \notin {"open", "cut", "partial"}
           /\ Len(up.frames) = 1 /\ Intact(up.frames[1])
           /\ srv'.pc = "impl" /\ srv'.taken = 1 /\ srv'.invoked = 1 /\ srv'.fin = srv.fin
  <2>1. DOMAIN up.frames = {1} /\ up.end = "end"
    BY <1>1, <1>4 DEF Requested
  <2>2. Readable(up.frames[1]) /\ Inputs = {1}
    BY <1>4, <2>1 DEF Intact, Readable, Inputs
  <2>3. First(1) /\ OnlyInput(1)
    BY <2>1, <2>2 DEF First, OnlyInput
  <2>4. CalledWith(1)'
    BY <1>2, <1>4, <2>3, SameRequest DEF CalledWith, streamHandler
  <2>5. Called'
    BY <1>2, <1>4, <2>2, <2>4, SameRequest DEF Called
  <2>6. Requested' /\ Uncalled'
    BY <1>1, <1>2, <1>4 DEF Requested, Uncalled
  <2> QED  BY <1>2, <1>4, <2>5, <2>6, SameRequest
<1> QED  BY <1>3, <1>4, ReadUnaryFields

(* The first message the pipeline returns is the first of the request.        *)
LEMMA FirstInputRequestInv ==
  ASSUME SrvShape(srv), RequestInv, Theirs, streamHandler, FirstInput
  PROVE  Requested' /\ Uncalled' /\ Called' /\ (earlyError' # NoCode => srv'.got = << >>)
<1>1. Requested /\ Uncalled /\ Called /\ (earlyError # NoCode => srv.got = << >>)
  BY DEF RequestInv
<1>2. UNCHANGED <<call, up>> /\ srv.pc = "first"
  BY FirstInputFields
<1>3. CASE /\ \E code : Completed(ProtocolError(code))
           /\ srv'.taken = srv.taken /\ srv'.got = srv.got /\ srv'.invoked = srv.invoked
  BY <1>1, <1>3, CompletedRequestInv, FailureIsCalled, CodesAreErrors
<1>4. CASE /\ NextInput.is = "message" /\ srv'.pc = "impl" /\ srv'.taken = srv.taken + 1
           /\ srv'.invoked = 1 /\ srv'.fin = srv.fin /\ srv'.inputClosed = FALSE
  <2>1. earlyError = NoCode /\ More /\ Readable(Envelop)
    BY <1>4, NextInputIs
  <2>2. TakenAre({})
    BY <1>1, <1>2 DEF Uncalled
  <2> PICK i \in Nat : i = srv.taken + 1
    BY <1>1 DEF Requested
  <2>3. srv.taken \in Nat /\ Len(up.frames) \in Nat /\ i <= Len(up.frames)
        /\ DOMAIN up.frames = 1 .. Len(up.frames)
    BY <1>1, <2>1 DEF Requested, More
  <2>4. CASE i \in Inputs
    <3>1. TakenAre({i})' /\ srv'.taken \in 0 .. Len(up.frames)
      <4>1. {} \subseteq {i} /\ (srv.taken + 1 \in Inputs => srv.taken + 1 \in {i})
        OBVIOUS
      <4> QED  BY <1>1, <1>2, <1>4, <2>1, <2>2, <4>1, OneMoreTaken
    <3>2. First(i)
      <4>1. ASSUME NEW j \in Inputs PROVE i <= j
        <5>1. j \in 1 .. Len(up.frames) /\ j \notin 1 .. srv.taken
          BY <2>2, <2>3 DEF Inputs, TakenAre
        <5> QED  BY <2>3, <5>1
      <4> QED  BY <2>1, <2>4, <4>1 DEF First, Envelop
    <3>3. CalledWith(i)'
      <4>1. /\ First(i)' /\ i <= srv'.taken /\ srv'.fin = << >> /\ ~unaryHandler'
            /\ srv'.inputClosed = FALSE
        BY <1>1, <1>2, <1>4, <2>3, <3>2, SameRequest DEF Uncalled, streamHandler
      <4>2. srv'.fin # << << >> >>
        BY <4>1
      <4> QED  BY <3>1, <4>1, <4>2 DEF CalledWith
    <3>4. Called'
      <4>1. earlyError' = NoCode /\ i \in Inputs'
        BY <1>2, <2>1, <2>4, SameRequest
      <4> QED  BY <3>3, <4>1 DEF Called
    <3> QED  BY <1>1, <1>2, <1>4, <2>1, <3>1, <3>4, SameRequest DEF Requested, Uncalled
  <2>5. CASE i \notin Inputs
    <3>1. Envelop.end /\ selectedProtocol # "grpc"
      BY <2>3, <2>5 DEF Envelop, Inputs
    <3>2. InputReady /\ ~srv.inputClosed
      BY <1>4, NextInputIs, Zenon DEF FirstInput
    <3> QED  BY <2>1, <3>1, <3>2 DEF InputReady, Skippable
  <2> QED  BY <2>4, <2>5
<1> QED  BY <1>3, <1>4, FirstInputFields

(* An implementation that reads or writes keeps RequestInv.                   *)
LEMMA ImplRequestInv ==
  ASSUME SrvShape(srv), RequestInv, Theirs, ImplRead \/ ImplYield
  PROVE  Requested' /\ Uncalled' /\ Called' /\ (earlyError' # NoCode => srv'.got = << >>)
<1>1. Requested /\ Uncalled /\ Called /\ (earlyError # NoCode => srv.got = << >>)
  BY DEF RequestInv
<1>2. CASE ImplYield
  <2>1. /\ UNCHANGED <<call, up>> /\ srv.pc = "impl" /\ srv'.pc = "impl"
        /\ srv'.invoked = srv.invoked /\ srv'.fin = srv.fin /\ srv'.taken = srv.taken
        /\ srv'.got = srv.got /\ srv'.inputClosed = srv.inputClosed
    BY <1>2, ImplYieldFields
  <2>2. Called'
    BY <1>1, <2>1, CalledStays
  <2> QED  BY <1>1, <2>1, <2>2, SameRequest DEF Requested, Uncalled
<1>3. CASE ImplRead
  <2>1. /\ UNCHANGED <<call, up>> /\ srv.pc = "impl" /\ ~single /\ srv'.pc = "impl"
        /\ srv'.invoked = srv.invoked /\ srv'.fin = srv.fin
    BY <1>3, ImplReadFields
  <2>2. Called' /\ Uncalled'
    BY <1>1, <2>1, SameRequest DEF Called, Uncalled
  <2>3. CASE srv'.taken = srv.taken /\ srv'.got = srv.got
    BY <1>1, <2>1, <2>2, <2>3, SameRequest DEF Requested
  <2>4. CASE NextInput.is = "message" /\ srv'.taken = srv.taken + 1
    <3>1. earlyError = NoCode /\ More
      BY <2>4, NextInputIs
    <3>2. srv.taken \in Nat /\ Len(up.frames) \in Nat
      BY <1>1 DEF Requested
    <3>3. Requested'
      BY <1>1, <2>1, <2>4, <3>1, <3>2 DEF Requested, More
    <3> QED  BY <2>1, <2>2, <3>1, <3>3, SameRequest
  <2> QED  BY <1>3, <2>3, <2>4, ImplReadFields
<1> QED  BY <1>2, <1>3

(* An implementation that returns or throws keeps RequestInv.                 *)
LEMMA ReturnRequestInv ==
  ASSUME SrvShape(srv), RequestInv, Theirs, ImplReturn \/ ImplThrow \/ Drained
  PROVE  Requested' /\ Uncalled' /\ Called' /\ (earlyError' # NoCode => srv'.got = << >>)
<1>1. Requested /\ Uncalled /\ Called /\ (earlyError # NoCode => srv.got = << >>)
  BY DEF RequestInv
<1>2. CASE ImplThrow
  <2>1. /\ \E e : Completed(Sent(e))
        /\ srv'.invoked = srv.invoked /\ srv'.taken = srv.taken /\ srv'.got = srv.got
    BY <1>2, ImplThrowFields
  <2> QED  BY <1>1, <2>1, CompletedRequestInv, FailureIsCalled, CodesAreErrors
<1>3. CASE Drained
  <2>1. /\ Completed(<< >>) /\ srv.pc = "drained"
        /\ srv'.invoked = srv.invoked /\ srv'.taken = srv.taken /\ srv'.got = srv.got
    BY <1>3, DrainedFields
  <2>2. ~single
    BY <1>1, <2>1 DEF Uncalled
  <2> QED  BY <1>1, <2>1, <2>2, CompletedRequestInv, SuccessIsCalled
<1>4. CASE ImplReturn
  <2>1. /\ srv.pc = "impl" /\ UNCHANGED <<call, up>>
        /\ srv'.invoked = srv.invoked /\ srv'.taken = srv.taken /\ srv'.got = srv.got
    BY <1>4, ImplReturnFields
  <2>2. CASE Completed(<< >>) /\ (unaryHandler \/ call.kind = BiDiStreaming)
    <3>1. single => unaryHandler
      BY <2>2 DEF single, Unary, ServerStreaming, BiDiStreaming
    <3>2. single /\ srv.invoked = 1 => \E i \in Inputs : First(i) /\ OnlyInput(i)
      BY <1>1, <2>1, <3>1 DEF Called, CalledWith
    <3> QED  BY <1>1, <2>1, <2>2, <3>2, CompletedRequestInv, SuccessIsCalled
  <2>3. CASE /\ streamHandler /\ srv'.fin = srv.fin
             /\ srv'.inputClosed = srv.inputClosed
             /\ srv'.pc = IF call.kind = ClientStreaming THEN "drained" ELSE "drain"
    <3>1. Called'
      BY <1>1, <2>1, <2>3, CalledStays
    <3>2. srv'.pc = "drained" => ~single
      BY <2>3 DEF single, Unary, ServerStreaming, ClientStreaming
    <3> QED  BY <1>1, <2>1, <2>3, <3>1, <3>2, SameRequest DEF Requested, Uncalled
  <2> QED  BY <1>4, <2>2, <2>3, ImplReturnFields
<1> QED  BY <1>2, <1>3, <1>4

(* A request that was drained had no other message.                           *)
LEMMA DrainRequestInv ==
  ASSUME SrvShape(srv), RequestInv, Theirs, Drain
  PROVE  Requested' /\ Uncalled' /\ Called' /\ (earlyError' # NoCode => srv'.got = << >>)
<1>1. Requested /\ Uncalled /\ Called /\ (earlyError # NoCode => srv.got = << >>)
  BY DEF RequestInv
<1>2. /\ srv.pc = "drain" /\ srv'.invoked = srv.invoked /\ srv'.got = srv.got
      /\ srv'.taken = srv.taken \/ (srv'.taken = srv.taken + 1 /\ More)
  BY DrainFields, NextInputIs
<1>3. CASE \E code : Completed(ProtocolError(code))
  BY <1>1, <1>2, <1>3, CompletedRequestInv, FailureIsCalled, CodesAreErrors
<1>4. CASE NextInput.is = "done" /\ Completed(<< >>)
  <2>1. ASSUME single, srv.invoked = 1
        PROVE  \E i \in Inputs : First(i) /\ OnlyInput(i)
    <3>1. PICK i \in Inputs : CalledWith(i)
      BY <1>1, <2>1 DEF Called
    <3>2. First(i) /\ TakenAre({i}) /\ srv.inputClosed = FALSE
      BY <1>1, <1>2, <3>1 DEF CalledWith, Uncalled
    <3>3. ~More /\ up.end = "end"
      BY <1>4, <3>2, NextInputIs
    <3>4. srv.taken = Len(up.frames) /\ DOMAIN up.frames = 1 .. srv.taken
      BY <1>1, <3>3 DEF Requested, More
    <3>5. OnlyInput(i)
      BY <3>2, <3>3, <3>4 DEF OnlyInput, TakenAre, Inputs
    <3> QED  BY <3>2, <3>5
  <2> QED  BY <1>1, <1>2, <1>4, <2>1, CompletedRequestInv, SuccessIsCalled
<1> QED  BY <1>3, <1>4, DrainFields

(* Every step keeps RequestInv.                                               *)
LEMMA NextRequestInv ==
  ASSUME Shapes, RequestInv, [Next]_vars
  PROVE  RequestInv'
<1> SUFFICES ASSUME Theirs'
             PROVE  Requested' /\ Uncalled' /\ Called' /\ (earlyError' # NoCode => srv'.got = << >>)
  BY DEF RequestInv
<1>1. Theirs
  BY NextShapes DEF Theirs
<1>2. Requested /\ Uncalled /\ Called /\ (earlyError # NoCode => srv.got = << >>)
  BY <1>1 DEF RequestInv
<1>3. CASE Server
  <2>1. SrvShape(srv)
    BY <1>3 DEF Shapes, Server
  <2> QED  BY <1>1, <1>3, <2>1, ServerCases, SelectRequestInv, SkipEndRequestInv,
              ReadUnaryRequestInv, FirstInputRequestInv, ImplRequestInv, ReturnRequestInv,
              DrainRequestInv
<1>4. CASE Stop
  <2>1. /\ UNCHANGED <<call, up>> /\ srv'.pc = "gone" /\ srv'.invoked = srv.invoked
        /\ srv'.taken = srv.taken /\ srv'.got = srv.got /\ srv'.fin = srv.fin
    BY <1>4, HangUpFields DEF Stop, Shapes
  <2>2. Called'
    BY <1>2, <2>1, CalledStays
  <2> QED  BY <1>2, <2>1, <2>2, StoppedIsUncalled, SameRequest DEF Requested
<1>5. CASE Client
  BY <1>1, <1>5 DEF Client, Theirs
<1>6. CASE Lose
  BY <1>1, <1>6 DEF Lose, Ours, Theirs
<1>7. CASE UNCHANGED vars
  <2>1. UNCHANGED <<call, up, srv>>
    BY <1>7 DEF vars
  <2>2. Called'
    <3>1. \A i : CalledWith(i)' <=> CalledWith(i)
      BY <2>1, SameRequest DEF CalledWith, TakenAre
    <3> QED  BY <1>2, <2>1, <3>1, SameRequest DEF Called
  <2>3. Uncalled'
    BY <1>2, <2>1, SameRequest DEF Uncalled, TakenAre
  <2> QED  BY <1>2, <2>1, <2>2, <2>3, SameRequest DEF Requested
<1> QED  BY <1>3, <1>4, <1>5, <1>6, <1>7 DEF Next

(* What was taken of the body of a request of another client, and what it has *)
(* to be for the call to succeed.                                             *)
THEOREM RequestInvariant == Spec => [](Shapes /\ RequestInv)
<1>1. Init => Shapes /\ RequestInv
  BY InitShapes, InitRequestInv
<1>2. Shapes /\ RequestInv /\ [Next]_vars => (Shapes /\ RequestInv)'
  BY NextShapes, NextRequestInv
<1> QED  BY <1>1, <1>2, PTL DEF Spec

(* A unary or server-streaming implementation is called only for a request    *)
(* that begins with a message, and succeeds only if it was the only one.      *)
THEOREM OneInputOnly == Spec => []OneInput
<1>1. RequestInv => OneInput
  BY DEF RequestInv, Called, CalledWith, First, OnlyInput, OneInput
<1> QED  BY <1>1, RequestInvariant, PTL

(* An implementation reads no message of a request with an early error.       *)
THEOREM EarlyErrorsComeFirst == Spec => []EarlyErrorsFirst
<1>1. RequestInv => EarlyErrorsFirst
  BY DEF RequestInv, EarlyErrorsFirst
<1> QED  BY <1>1, RequestInvariant, PTL

-----------------------------------------------------------------------------
(* The response to a request of another client: messages, until it ends.      *)

Answering == /\ down.frames \in Seq(OurEnvelope) /\ srv.out \in Nat
             /\ down.head = << >> \/ Len(down.head) = 1

AnswerInv ==
  Theirs => /\ srv.pc \notin {"done", "refused", "gone"} => Answering
            /\ ResponseWellFormed

(* The status that is set first is overwritten, unless the call succeeds.      *)
LEMMA GrpcFieldsAre ==
  ASSUME NEW error, NEW t
  PROVE  /\ headerGrpcStatus \notin DOMAIN t =>
              grpcFields(<< >>, t) = HeaderSet(t, headerGrpcStatus, <<grpcStatusOk>>)
         /\ error # << >> => grpcFields(error, t) = setTrailerStatus(t, error[1])
         /\ headerGrpcStatus \in DOMAIN grpcFields(error, t)
<1> DEFINE fields == SetAll(InitialStatus, t)
<1>1. /\ DOMAIN fields = DOMAIN t \cup {headerGrpcStatus}
      /\ fields = [k \in DOMAIN t \cup {headerGrpcStatus} |->
                    IF k \in DOMAIN t THEN t[k] ELSE <<grpcStatusOk>>]
  BY DEF SetAll, InitialStatus, HeaderSet, EmptyHeaders
<1>2. \A v : HeaderSet(fields, headerGrpcStatus, v) = HeaderSet(t, headerGrpcStatus, v)
  BY <1>1 DEF HeaderSet
<1>3. headerGrpcStatus \notin DOMAIN t => fields = HeaderSet(t, headerGrpcStatus, <<grpcStatusOk>>)
  BY <1>1 DEF HeaderSet
<1> HIDE DEF fields
<1>4. error # << >> => setTrailerStatus(fields, error[1]) = setTrailerStatus(t, error[1])
  BY <1>2, Zenon DEF setTrailerStatus
<1>5. grpcFields(error, t) = IF error = << >> THEN fields ELSE setTrailerStatus(fields, error[1])
  BY DEF grpcFields, fields
<1>6. grpcFields(<< >>, t) = fields
  BY DEF grpcFields, fields
<1>7. headerGrpcStatus \in DOMAIN grpcFields(error, t)
  BY <1>1, <1>5 DEF setTrailerStatus, HeaderSet
<1> QED  BY <1>3, <1>4, <1>5, <1>6, <1>7

(* A message of an implementation, compressed or not.                         *)
LEMMA MessageIsOurs ==
  ASSUME NEW n \in Nat
  PROVE  Envelope(n, Compressed) \in OurEnvelope
  BY EnvelopeIsOurs, CompressionIsBoolean

(* A sequence with one more element, of whatever kind.                        *)
LEMMA OneMoreFrame ==
  ASSUME NEW S, NEW s \in Seq(S), NEW e
  PROVE  /\ Len(s \o <<e>>) = Len(s) + 1 /\ DOMAIN (s \o <<e>>) = 1 .. Len(s) + 1
         /\ \A i \in 1 .. Len(s) : (s \o <<e>>)[i] = s[i]
         /\ (s \o <<e>>)[Len(s) + 1] = e
         /\ e \in S => s \o <<e>> \in Seq(S)
<1>1. s \in Seq(S \cup {e}) /\ <<e>> \in Seq(S \cup {e}) /\ Len(<<e>>) = 1 /\ <<e>>[1] = e
      /\ Len(s) \in Nat
  OBVIOUS
<1> QED  BY <1>1

(* A message that is written keeps the response to messages only.             *)
LEMMA WrittenMessage ==
  ASSUME DownShape(down), down.frames \in Seq(OurEnvelope),
         down.head = << >> \/ Len(down.head) = 1,
         NEW n \in Nat, down' = Written(<<Envelope(n, Compressed)>>)
  PROVE  down'.frames \in Seq(OurEnvelope) /\ Len(down'.head) = 1
<1>1. /\ down'.frames = down.frames \o <<Envelope(n, Compressed)>> /\ down'.head = Committed
  BY WrittenShape
<1>2. Len(Committed) = 1
  BY DEF Committed
<1>3. Envelope(n, Compressed) \in OurEnvelope
  BY MessageIsOurs
<1>4. down.frames \o <<Envelope(n, Compressed)>> \in Seq(OurEnvelope)
  BY <1>3, OneMoreFrame
<1> QED  BY <1>1, <1>2, <1>4

(* What the three ways to end a stream leave.                                 *)
LEMMA EndedWell ==
  ASSUME DownShape(down), Answering, NEW error, NEW t
  PROVE  LET d == Ended(error, t)
             ends == {i \in DOMAIN d.frames : d.frames[i].end}
         IN  /\ Len(d.head) = 1 /\ d.end = "end"
             /\ selectedProtocol = "grpc" => ends = {} /\ headerGrpcStatus \in DOMAIN d.trailer
             /\ selectedProtocol # "grpc" => ends = {Len(d.frames)}
<1>1. Len(Committed) = 1
  BY DEF Committed, Answering
<1>2. \A i \in 1 .. Len(down.frames) : down.frames[i].end = FALSE
  <2>1. \A i \in 1 .. Len(down.frames) : down.frames[i] \in OurEnvelope
    BY DEF Answering
  <2>2. \A f \in OurEnvelope : f.end = FALSE
    BY DEF OurEnvelope
  <2> QED  BY <2>1, <2>2
<1>3. Len(down.frames) \in Nat /\ DOMAIN down.frames = 1 .. Len(down.frames)
  BY DEF Answering
<1>4. CASE selectedProtocol = "grpc"
  <2> DEFINE w == Written(<< >>)
             d == [w EXCEPT !.trailer = grpcFields(error, t), !.end = "end"]
  <2>1. DownShape(w) /\ w.head = Committed /\ w.frames = down.frames
    <3>1. down.frames \o << >> = down.frames
      BY DEF Answering
    <3> QED  BY <3>1, WrittenShape
  <2>2. Ended(error, t) = d
    BY <1>4 DEF Ended, grpcEnded
  <2> HIDE DEF w
  <2>3. /\ d.head = w.head /\ d.frames = w.frames /\ d.end = "end"
        /\ d.trailer = grpcFields(error, t)
    BY <2>1 DEF DownShape
  <2>4. headerGrpcStatus \in DOMAIN grpcFields(error, t)
    BY GrpcFieldsAre
  <2> HIDE DEF d
  <2> QED  BY <1>1, <1>2, <1>3, <1>4, <2>1, <2>2, <2>3, <2>4
<1>5. CASE selectedProtocol # "grpc"
  <2>1. PICK e : e.end = TRUE /\ Ended(error, t) = [Written(<<e>>) EXCEPT !.end = "end"]
    BY <1>5 DEF Ended, grpcWebEnded, connectEnded, EndEnvelope
  <2> DEFINE w == Written(<<e>>)
             d == [w EXCEPT !.end = "end"]
  <2>2. DownShape(w) /\ w.head = Committed /\ w.frames = down.frames \o <<e>>
    BY WrittenShape
  <2> HIDE DEF w
  <2>3. d.head = w.head /\ d.frames = w.frames /\ d.end = "end"
    BY <2>2 DEF DownShape
  <2>4. Ended(error, t) = d
    BY <2>1 DEF w
  <2> HIDE DEF d
  <2>5. /\ Len(w.frames) = Len(down.frames) + 1 /\ DOMAIN w.frames = 1 .. Len(down.frames) + 1
        /\ \A i \in 1 .. Len(down.frames) : w.frames[i] = down.frames[i]
        /\ w.frames[Len(down.frames) + 1] = e
    BY <2>2, OneMoreFrame DEF Answering
  <2>6. {i \in DOMAIN w.frames : w.frames[i].end} = {Len(w.frames)}
    BY <1>2, <1>3, <2>1, <2>5
  <2> QED  BY <1>1, <1>5, <2>2, <2>3, <2>4, <2>6
<1> QED  BY <1>4, <1>5

(* A Connect unary response has a message with status 200, or an error.       *)
LEMMA UnaryEndedWell ==
  ASSUME NEW error, NEW t
  PROVE  LET d == UnaryEnded(error, 1, t)
             ends == {i \in DOMAIN d.frames : d.frames[i].end}
         IN  /\ Len(d.head) = 1 /\ d.end = "end" /\ ends = {}
             /\ (d.head[1].status = 200) = (Len(d.frames) = 1)
             /\ (d.head[1].status = 200) = (d.json = << >>)
<1> DEFINE d == UnaryEnded(error, 1, t)
<1>1. /\ Len(d.head) = 1 /\ d.end = "end"
      /\ d.head[1].status = IF error = << >> THEN 200 ELSE codeToHttpStatus(error[1].code)
      /\ d.frames = IF error = << >> THEN <<Envelope(1, Compressed)>> ELSE << >>
      /\ d.json = IF error = << >> THEN << >>
                  ELSE <<[valid |-> TRUE, json |-> errorToJson(error[1])]>>
  BY DEF UnaryEnded, ResponseHead
<1>2. \A code : codeToHttpStatus(code) # 200
  BY DEF codeToHttpStatus
<1> HIDE DEF d
<1>3. CASE error = << >>
  <2>1. d.frames = <<Envelope(1, Compressed)>> /\ Envelope(1, Compressed).end = FALSE
    BY <1>1, <1>3 DEF Envelope
  <2>2. {i \in DOMAIN d.frames : d.frames[i].end} = {} /\ Len(d.frames) = 1
    BY <2>1
  <2> QED  BY <1>1, <1>3, <2>2 DEF d
<1>4. CASE error # << >>
  <2>1. d.frames = << >> /\ d.json # << >> /\ d.head[1].status # 200
    BY <1>1, <1>2, <1>4
  <2>2. {i \in DOMAIN d.frames : d.frames[i].end} = {} /\ Len(d.frames) = 0
    BY <2>1
  <2> QED  BY <1>1, <1>4, <2>1, <2>2 DEF d
<1> QED  BY <1>3, <1>4

(* A response that ended is well-formed.                                      *)
LEMMA CompletedWell ==
  ASSUME DownShape(down), Answering, NEW error, Completed(error)
  PROVE  ResponseWellFormed'
<1>1. PICK t : down' = IF streamHandler THEN Ended(error, t) ELSE UnaryEnded(error, 1, t)
  BY DEF Completed
<1>2. /\ selectedProtocol' = selectedProtocol /\ streamHandler' = streamHandler
  BY RequestIsRead DEF Completed
<1>3. CASE streamHandler
  <2>1. /\ Len(down'.head) = 1 /\ down'.end = "end"
        /\ selectedProtocol = "grpc" => Ends' = {} /\ headerGrpcStatus \in DOMAIN down'.trailer
        /\ selectedProtocol # "grpc" => Ends' = {Len(down'.frames)}
    BY <1>1, <1>3, EndedWell DEF Ends
  <2>2. CASE selectedProtocol = "grpc"
    BY <1>2, <2>1, <2>2 DEF ResponseWellFormed
  <2>3. CASE selectedProtocol # "grpc"
    BY <1>2, <1>3, <2>1, <2>3 DEF ResponseWellFormed
  <2> QED  BY <2>2, <2>3
<1>4. CASE ~streamHandler
  <2>1. /\ Len(down'.head) = 1 /\ down'.end = "end" /\ Ends' = {}
        /\ (head'.status = 200) = (Len(down'.frames) = 1)
        /\ (head'.status = 200) = (down'.json = << >>)
    BY <1>1, <1>4, UnaryEndedWell DEF Ends, head
  <2>2. selectedProtocol # "grpc"
    BY <1>4 DEF streamHandler, unaryHandler
  <2> QED  BY <1>2, <1>4, <2>1, <2>2 DEF ResponseWellFormed
<1> QED  BY <1>3, <1>4

(* No request begins with a response.                                         *)
LEMMA InitAnswerInv == Init => AnswerInv
<1> SUFFICES ASSUME Init, Theirs PROVE Answering /\ srv.pc = "start"
  BY DEF AnswerInv, ResponseWellFormed, Answered
<1>1. HandlerInit /\ down = NoResponse
  BY DEF Init, InitRequest, InitCall, InitResponse, Theirs, Sending
<1> QED  BY <1>1 DEF HandlerInit, NoResponse, Answering

(* Every step keeps AnswerInv.                                                *)
LEMMA NextAnswerInv ==
  ASSUME Shapes, AnswerInv, [Next]_vars
  PROVE  AnswerInv'
<1> SUFFICES ASSUME Theirs'
             PROVE  /\ srv'.pc \notin {"done", "refused", "gone"} => Answering'
                    /\ ResponseWellFormed'
  BY DEF AnswerInv
<1>1. Theirs /\ DownShape(down)
  BY NextShapes DEF Theirs, Shapes
<1>2. ResponseWellFormed /\ (srv.pc \notin {"done", "refused", "gone"} => Answering)
  BY <1>1 DEF AnswerInv
<1>3. srv'.pc # "done" => ResponseWellFormed'
  BY DEF ResponseWellFormed, Answered
<1>4. CASE Server
  <2> USE DEF Shapes
  <2>1. SrvShape(srv)
    BY <1>4 DEF Server
  <2>2. ASSUME NEW error, Completed(error), Answering
        PROVE  srv'.pc = "done" /\ ResponseWellFormed'
    BY <1>1, <2>2, CompletedWell DEF Completed
  <2>3. ASSUME Answering, srv'.pc # "done", srv'.out = srv.out, down' = down
        PROVE  Answering' /\ ResponseWellFormed'
    BY <1>3, <2>3 DEF Answering
  <2>4. CASE Select
    <3>1. Answering /\ srv'.out = srv.out /\ srv'.pc # "done"
          /\ (srv'.pc = "refused" \/ down' = down)
      BY <1>2, <2>1, <2>4, SelectFields
    <3> QED  BY <1>3, <2>3, <3>1
  <2>5. CASE SkipEnd
    BY <1>2, <2>1, <2>3, <2>5, SkipEndFields
  <2>6. CASE ReadUnaryMessage
    BY <1>2, <2>1, <2>2, <2>3, <2>6, ReadUnaryFields
  <2>7. CASE FirstInput
    BY <1>2, <2>1, <2>2, <2>3, <2>7, FirstInputFields
  <2>8. CASE ImplRead
    BY <1>2, <2>1, <2>3, <2>8, ImplReadFields
  <2>9. CASE ImplYield
    <3>1. /\ Answering /\ srv'.pc = "impl" /\ srv'.out = srv.out + 1
          /\ down' = Written(<<Envelope(srv.out + 1, Compressed)>>)
      BY <1>2, <2>1, <2>9, ImplYieldFields
    <3>2. down'.frames \in Seq(OurEnvelope) /\ Len(down'.head) = 1 /\ srv'.out \in Nat
      BY <1>1, <3>1, WrittenMessage DEF Answering
    <3> QED  BY <1>3, <3>1, <3>2 DEF Answering
  <2>10. CASE ImplReturn
    <3>1. Answering
      BY <1>2, <2>1, <2>10, ImplReturnFields
    <3>2. CASE Completed(<< >>)
      BY <2>2, <3>1, <3>2
    <3>3. CASE /\ srv'.out \in {srv.out, 1} /\ srv'.pc \in {"drained", "drain"}
               /\ down' \in {down, Written(<<Envelope(1, Compressed)>>)}
      <4>1. srv'.out \in Nat
        BY <3>1, <3>3 DEF Answering
      <4>2. CASE down' = down
        BY <1>3, <3>1, <3>3, <4>1, <4>2 DEF Answering
      <4>3. CASE down' = Written(<<Envelope(1, Compressed)>>)
        <5>1. down'.frames \in Seq(OurEnvelope) /\ Len(down'.head) = 1
          BY <1>1, <3>1, <4>3, WrittenMessage DEF Answering
        <5> QED  BY <1>3, <3>3, <4>1, <5>1 DEF Answering
      <4> QED  BY <3>3, <4>2, <4>3
    <3> QED  BY <2>1, <2>10, <3>2, <3>3, ImplReturnFields
  <2>11. CASE ImplThrow
    BY <1>2, <2>1, <2>2, <2>11, ImplThrowFields
  <2>12. CASE Drain
    BY <1>2, <2>1, <2>2, <2>12, DrainFields
  <2>13. CASE Drained
    BY <1>2, <2>1, <2>2, <2>13, DrainedFields
  <2> QED  BY <1>4, <2>4, <2>5, <2>6, <2>7, <2>8, <2>9, <2>10, <2>11, <2>12, <2>13, ServerCases
<1>5. CASE Stop
  BY <1>3, <1>5, HangUpFields DEF Stop, Shapes
<1>6. CASE Client
  BY <1>1, <1>6 DEF Client, Theirs
<1>7. CASE Lose
  BY <1>1, <1>7 DEF Lose, Ours, Theirs
<1>8. CASE UNCHANGED vars
  <2>1. UNCHANGED <<call, srv, down, cl>>
    BY <1>8 DEF vars
  <2>2. selectedProtocol' = selectedProtocol /\ streamHandler' = streamHandler
    BY <2>1, RequestIsRead
  <2> QED  BY <1>2, <2>1, <2>2 DEF Answering, ResponseWellFormed, Answered, Theirs, Ends, head
<1> QED  BY <1>4, <1>5, <1>6, <1>7, <1>8 DEF Next

(* Whatever the request, a response that is not a refusal ends exactly once,  *)
(* where its protocol says so, and nothing follows.                           *)
THEOREM ResponsesEndOnce == Spec => []ResponseWellFormed
<1>1. Init => Shapes /\ AnswerInv /\ ResponseWellFormed
  BY InitShapes, InitAnswerInv DEF AnswerInv, ResponseWellFormed, Answered
<1>2. Shapes /\ AnswerInv /\ [Next]_vars => (Shapes /\ AnswerInv)'
  BY NextShapes, NextAnswerInv
<1>3. AnswerInv => ResponseWellFormed
  BY DEF AnswerInv, ResponseWellFormed, Answered
<1> QED  BY <1>1, <1>2, <1>3, PTL DEF Spec

-----------------------------------------------------------------------------
(* The response of another server: what was read of its body, and that no     *)
(* error was passed over.                                                     *)

Sole == peer.protocol = "connect" /\ unaryCall

EndFieldsOf(f) == IF web /\ f.comp THEN EmptyHeaders ELSE trailerParse(f.tr[1])

(* An end that was read has no error, or it is kept for the end of the body.  *)
FineEnd(f) ==
  /\ peer.protocol = "connect" => f.es[1].shape = "object" /\ f.es[1].error = << >>
  /\ peer.protocol = "grpc-web" /\ ~unaryCall => findTrailerError(EndFieldsOf(f)) = << >>
  /\ peer.protocol = "grpc-web" /\ unaryCall => cl.trailer = <<EndFieldsOf(f)>>

HeadIsFine ==
  /\ head.status \in 200 .. 299
  /\ peer.protocol # "connect" => findTrailerError(head.fields) = << >>

MessagesRead ==
  /\ Len(cl.msgs) = Cardinality(MessagesUpTo(cl.read))
  /\ \A i \in MessagesUpTo(cl.read) :
       /\ Cardinality(MessagesUpTo(i)) \in 1 .. Len(cl.msgs)
       /\ cl.msgs[Cardinality(MessagesUpTo(i))] = down.frames[i].msg
  /\ unaryCall => Len(cl.msgs) <= 1

EndsRead ==
  /\ \A i \in 1 .. cl.read : IF IsEnd(down.frames[i]) THEN FineEnd(down.frames[i])
                                                     ELSE Parses(down.frames[i])
  /\ cl.trailer = << >> <=> \A i \in 1 .. cl.read : ~IsEnd(down.frames[i])
  /\ node /\ ~unaryCall => \A i \in 1 .. cl.read : IsEnd(down.frames[i]) => i = cl.read
  /\ trailersOnly => cl.read = 0

Reading == /\ cl.read \in 0 .. Len(down.frames)
           /\ cl.msgs \in Seq({f.msg : f \in Replies(peer.protocol)})
           /\ cl.pc = "sending" => cl.read = 0 /\ cl.msgs = << >> /\ cl.trailer = << >>
           /\ cl.pc = "unary" => Sole /\ (HeadIsFine \/ isUnaryError)
           /\ cl.pc = "body" => ~Sole /\ HeadIsFine /\ MessagesRead /\ EndsRead

(* What a browser gets of a body that breaks off within an envelope.          *)
EndsWithin ==
  down.end = "within" => /\ peer.protocol # "grpc" /\ ~Sole /\ down.frames # << >>
                         /\ CutShort(down.frames[Len(down.frames)])

ResponseInv ==
  srv.pc = "none" =>
    /\ down.frames \in Seq(Replies(peer.protocol)) /\ down.end \in {"end", "partial", "within"}
    /\ EndsWithin
    /\ cl.pc \in {"sending", "unary", "body", "done"}
    /\ cl.pc # "done" => Reading
    /\ SuccessIsComplete /\ ErrorsAreRaised

(* What is said of a response depends on the call, the client and the         *)
(* response.                                                                  *)
LEMMA SameResponse ==
  ASSUME UNCHANGED <<call, peer, down>>
  PROVE  /\ web' = web /\ node' = node /\ unaryCall' = unaryCall /\ Sole' = Sole
         /\ trailersOnly' = trailersOnly /\ isUnaryError' = isUnaryError
         /\ HeadIsFine' = HeadIsFine /\ Ends' = Ends /\ BodyParses' = BodyParses
         /\ foundStatus' = foundStatus
         /\ \A f : (IsEnd(f)' <=> IsEnd(f)) /\ (Parses(f)' <=> Parses(f))
         /\ (EndsWithin' <=> EndsWithin)
         /\ \A f : EndFieldsOf(f)' = EndFieldsOf(f)
         /\ \A n : MessagesUpTo(n)' = MessagesUpTo(n)
<1>1. /\ web' = web /\ node' = node /\ unaryCall' = unaryCall /\ head' = head
      /\ Ends' = Ends /\ foundStatus' = foundStatus
  BY DEF web, node, unaryCall, head, Ends, foundStatus
<1>2. /\ Sole' = Sole /\ trailersOnly' = trailersOnly /\ isUnaryError' = isUnaryError
      /\ BodyParses' = BodyParses /\ HeadIsFine' = HeadIsFine
  BY <1>1 DEF Sole, trailersOnly, isUnaryError, BodyParses, HeadIsFine
<1>3. responseEncoding' = responseEncoding
  BY <1>1 DEF responseEncoding, acceptCompression
<1>4. \A f : (IsEnd(f)' <=> IsEnd(f)) /\ (Parses(f)' <=> Parses(f))
  BY <1>1, <1>3 DEF IsEnd, Parses, endFlag
<1>5. \A f : EndFieldsOf(f)' = EndFieldsOf(f)
  BY <1>1 DEF EndFieldsOf
<1>6. \A n : MessagesUpTo(n)' = MessagesUpTo(n)
  BY <1>1 DEF MessagesUpTo, IsEnd, endFlag
<1>7. EndsWithin' <=> EndsWithin
  <2>1. CutShort(down.frames[Len(down.frames)])' <=> CutShort(down.frames[Len(down.frames)])
    BY DEF CutShort
  <2> QED  BY <1>1, <1>2, <2>1 DEF EndsWithin
<1> QED  BY <1>1, <1>2, <1>4, <1>5, <1>6, <1>7

(* How many messages there are up to an envelope.                             *)
LEMMA MessagesCounted ==
  ASSUME NEW n \in Nat
  PROVE  /\ IsFiniteSet(MessagesUpTo(n)) /\ Cardinality(MessagesUpTo(n)) \in Nat
         /\ MessagesUpTo(0) = {} /\ Cardinality(MessagesUpTo(0)) = 0
         /\ IsEnd(down.frames[n + 1]) => MessagesUpTo(n + 1) = MessagesUpTo(n)
         /\ ~IsEnd(down.frames[n + 1]) =>
              /\ MessagesUpTo(n + 1) = MessagesUpTo(n) \cup {n + 1}
              /\ Cardinality(MessagesUpTo(n + 1)) = Cardinality(MessagesUpTo(n)) + 1
<1>1. MessagesUpTo(n) \subseteq 1 .. n
  BY DEF MessagesUpTo
<1>2. IsFiniteSet(MessagesUpTo(n)) /\ Cardinality(MessagesUpTo(n)) \in Nat
  <2>1. IsFiniteSet(1 .. n)
    BY FS_Interval
  <2>2. MessagesUpTo(n) \in SUBSET (1 .. n)
    BY <1>1
  <2>3. IsFiniteSet(MessagesUpTo(n))
    BY <2>1, <2>2, FS_Subset
  <2> QED  BY <2>3, FS_CardinalityType
<1>3. MessagesUpTo(0) = {} /\ Cardinality(MessagesUpTo(0)) = 0
  BY FS_EmptySet DEF MessagesUpTo
<1>4. IsEnd(down.frames[n + 1]) => MessagesUpTo(n + 1) = MessagesUpTo(n)
  BY DEF MessagesUpTo
<1>5. ~IsEnd(down.frames[n + 1]) => MessagesUpTo(n + 1) = MessagesUpTo(n) \cup {n + 1}
  BY DEF MessagesUpTo
<1>6. n + 1 \notin MessagesUpTo(n)
  BY <1>1
<1>7. ~IsEnd(down.frames[n + 1]) =>
        Cardinality(MessagesUpTo(n + 1)) = Cardinality(MessagesUpTo(n)) + 1
  BY <1>2, <1>5, <1>6, FS_AddElement
<1> QED  BY <1>2, <1>3, <1>4, <1>5, <1>7

(* An end stream raises no error only if it is an object without one.         *)
LEMMA EndStreamIsFine ==
  ASSUME NEW json,
         LET e == endStreamFromJson(json) IN (IF e.thrown THEN <<e.error>> ELSE e.error) = << >>
  PROVE  json.shape = "object" /\ json.error = << >>
<1> DEFINE metadata == IF json.metadata = << >> THEN EmptyHeaders ELSE json.metadata[1]
           error    == errorFromJson(json.error[1], metadata, InvalidEndStream)
           e        == endStreamFromJson(json)
<1>1. CASE json.shape # "object"
  <2>1. e = Thrown(InvalidEndStream)
    BY <1>1 DEF endStreamFromJson
  <2>2. e.thrown = TRUE
    BY <2>1 DEF Thrown
  <2> QED  BY <2>2
<1>2. CASE json.shape = "object" /\ json.error # << >>
  <2>1. e = IF error.thrown THEN error
            ELSE [thrown |-> FALSE, metadata |-> metadata, error |-> <<error.error>>]
    BY <1>2 DEF endStreamFromJson
  <2> HIDE DEF error, metadata
  <2>2. CASE error.thrown
    BY <2>1, <2>2
  <2>3. CASE ~error.thrown
    <3>1. e.thrown = FALSE /\ e.error = <<error.error>>
      BY <2>1, <2>3
    <3> QED  BY <3>1
  <2> QED  BY <2>2, <2>3
<1> QED  BY <1>1, <1>2

(* A head without an error.                                                   *)
LEMMA HeadErrorIsFine ==
  ASSUME HeadError = << >>
  PROVE  HeadIsFine \/ isUnaryError
<1>1. StatusError = << >>
  BY DEF HeadError
<1>2. CASE peer.protocol = "connect"
  BY <1>1, <1>2 DEF StatusError, HeadIsFine
<1>3. CASE peer.protocol = "grpc"
  BY <1>1, <1>3 DEF StatusError, HeadIsFine, grpcStatusError
<1>4. CASE peer.protocol \notin {"connect", "grpc"}
  BY <1>1, <1>4 DEF StatusError, HeadIsFine, grpcWebStatusError
<1> QED  BY <1>2, <1>3, <1>4

(* No response of another server begins with anything read of it.             *)
LEMMA InitResponseInv == Init => ResponseInv
<1> SUFFICES ASSUME Init, srv.pc = "none"
             PROVE  /\ down.frames \in Seq(Replies(peer.protocol))
                    /\ down.end \in {"end", "partial", "within"} /\ EndsWithin
                    /\ cl.pc = "sending" /\ Reading
  BY DEF ResponseInv, SuccessIsComplete, ErrorsAreRaised, Succeeded
<1>1. InitResponse
  BY DEF Init, InitCall, InitRequest, HandlerInit
<1>2. /\ down.frames \in Seq(Replies(peer.protocol))
      /\ down.end \in {"end", "partial", "within"} /\ EndsWithin
  <2> DEFINE max == IF peer.protocol = "connect" /\ unaryCall THEN 1 ELSE MaxEnvelopes
             E   == BodyEndings
             Fits(e, f) == e = "within" => f # << >> /\ CutShort(f[Len(f)])
             Is(h, e, t, j, f) == /\ Fits(e, f)
                                  /\ down = [head |-> <<h>>, frames |-> f, end |-> e,
                                             trailer |-> t, json |-> j]
  <2>1. \E h : \E e \in E : \E t : \E j : \E f \in Bodies(Replies(peer.protocol), max) :
          Is(h, e, t, j, f)
    BY <1>1, Zenon DEF InitResponse
  <2>2. max \in Nat
    BY BodyAssumption
  <2>3. /\ E \subseteq {"end", "partial", "within"}
        /\ "within" \in E => peer.protocol # "grpc" /\ ~Sole
    <3>1. web \/ node
      BY <1>1, CallsAssumption DEF InitResponse, IsTransport, web, node
    <3>2. web => peer.protocol # "grpc" /\ ~node
      BY <1>1, CallsAssumption DEF InitResponse, IsTransport, web, node
    <3> QED  BY <3>1, <3>2 DEF BodyEndings, Sole
  <2> HIDE DEF max, E, Fits
  <2>4. \A f \in Bodies(Replies(peer.protocol), max) : f \in Seq(Replies(peer.protocol))
    BY <2>2 DEF Bodies
  <2>5. PICK h, t, j : \E e \in E : \E f \in Bodies(Replies(peer.protocol), max) :
          Is(h, e, t, j, f)
    BY <2>1
  <2>6. PICK e \in E : \E f \in Bodies(Replies(peer.protocol), max) : Is(h, e, t, j, f)
    BY <2>5
  <2>7. PICK f \in Bodies(Replies(peer.protocol), max) : Is(h, e, t, j, f)
    BY <2>6
  <2>8. down.frames = f /\ down.end = e /\ Fits(e, f)
    BY <2>7
  <2>9. EndsWithin
    BY <2>3, <2>8 DEF EndsWithin, Fits
  <2> QED  BY <2>3, <2>4, <2>8, <2>9
<1>3. cl = Sending(1)
  BY <1>1 DEF InitResponse
<1>4. cl.pc = "sending" /\ cl.read = 0 /\ cl.msgs = << >> /\ cl.trailer = << >>
  BY <1>3 DEF Sending
<1>5. Len(down.frames) \in Nat
  BY <1>2
<1>6. << >> \in Seq({f.msg : f \in Replies(peer.protocol)})
  OBVIOUS
<1> QED  BY <1>2, <1>4, <1>5, <1>6 DEF Reading

(* A response depends on nothing else.                                        *)
LEMMA ResponseStutters ==
  ASSUME ResponseInv, UNCHANGED <<call, peer, down, srv>>, cl'.pc = cl.pc, cl'.read = cl.read,
         cl'.msgs = cl.msgs, cl'.trailer = cl.trailer, cl'.outcome = cl.outcome
  PROVE  ResponseInv'
<1> SUFFICES ASSUME srv.pc = "none" PROVE ResponseInv'
  BY DEF ResponseInv
<1>1. \A f : FineEnd(f)' <=> FineEnd(f)
  BY SameResponse DEF FineEnd
<1>2. MessagesRead' <=> MessagesRead
  BY SameResponse DEF MessagesRead
<1>3. EndsRead' <=> EndsRead
  BY SameResponse, <1>1 DEF EndsRead
<1>4. Reading' <=> Reading
  BY SameResponse, <1>2, <1>3 DEF Reading
<1>5. Succeeded' <=> Succeeded
  BY DEF Succeeded
<1>6. SuccessIsComplete' <=> SuccessIsComplete
  BY SameResponse, <1>5 DEF SuccessIsComplete
<1>7. ErrorsAreRaised' <=> ErrorsAreRaised
  <2>1. head' = head
    BY DEF head
  <2> QED  BY <2>1, SameResponse, <1>5 DEF ErrorsAreRaised
<1> QED  BY SameResponse, <1>4, <1>6, <1>7 DEF ResponseInv

(* A call that fails takes nothing for a success.                             *)
LEMMA FailedResponse ==
  ASSUME ResponseInv, srv.pc = "none", Fails
  PROVE  ResponseInv'
<1>1. PICK error, msgs : error # << >> /\ Settled(error, msgs)
  BY DEF Fails
<1>2. /\ cl'.pc = "done" /\ cl'.outcome[1].error # << >> /\ UNCHANGED <<call, srv, peer>>
      /\ down.end # "open" => down' = down
  BY <1>1 DEF Settled
<1>3. down' = down
  BY <1>2 DEF ResponseInv
<1>4. SuccessIsComplete' /\ ErrorsAreRaised'
  BY <1>2 DEF SuccessIsComplete, ErrorsAreRaised, Succeeded
<1> QED  BY SameResponse, <1>2, <1>3, <1>4 DEF ResponseInv

(* The head: no message was read yet, and it has no error.                    *)
LEMMA HeadOfResponse ==
  ASSUME ResponseInv, srv.pc = "none", ClShape(cl), UpShape(up), DownShape(down), ReadHead
  PROVE  ResponseInv'
<1>1. CASE Fails
  BY <1>1, FailedResponse
<1>2. CASE ~Fails
  <2> DEFINE pc == IF peer.protocol = "connect" /\ unaryCall THEN "unary" ELSE "body"
  <2>1. /\ cl.pc = "sending" /\ HeadError = << >> /\ UNCHANGED <<call, up, srv, down, peer>>
        /\ cl'.pc = pc /\ cl'.read = cl.read /\ cl'.msgs = cl.msgs /\ cl'.trailer = cl.trailer
    BY <1>2, ReadHeadFields
  <2>2. cl.read = 0 /\ cl.msgs = << >> /\ cl.trailer = << >>
    BY <2>1 DEF ResponseInv, Reading
  <2>3. HeadIsFine \/ isUnaryError
    BY <2>1, HeadErrorIsFine
  <2>4. isUnaryError => Sole
    BY DEF isUnaryError, Sole, unaryCall
  <2>5. MessagesRead'
    <3>1. MessagesUpTo(0) = {} /\ Cardinality(MessagesUpTo(0)) = 0
      BY MessagesCounted
    <3>2. MessagesUpTo(0)' = MessagesUpTo(0)
      BY <2>1, SameResponse
    <3>3. cl'.read = 0 /\ cl'.msgs = << >> /\ Len(<< >>) = 0
      BY <2>1, <2>2
    <3> QED  BY <3>1, <3>2, <3>3 DEF MessagesRead
  <2>6. EndsRead'
    <3>1. cl'.read = 0 /\ cl'.trailer = << >>
      BY <2>1, <2>2
    <3> QED  BY <3>1 DEF EndsRead
  <2>7. Sole' = Sole /\ HeadIsFine' = HeadIsFine /\ isUnaryError' = isUnaryError
    BY <2>1, SameResponse
  <2>8. Reading'
    <3>1. /\ cl'.read \in 0 .. Len(down'.frames)
          /\ cl'.msgs \in Seq({f.msg : f \in Replies(peer'.protocol)})
      BY <2>1 DEF ResponseInv, Reading
    <3>2. cl'.pc = IF Sole THEN "unary" ELSE "body"
      BY <2>1 DEF Sole
    <3> HIDE DEF pc
    <3> QED  BY <2>3, <2>4, <2>5, <2>6, <2>7, <3>1, <3>2 DEF Reading
  <2>9. cl'.pc \in {"unary", "body"}
    BY <2>1
  <2>10. SuccessIsComplete' /\ ErrorsAreRaised'
    BY <2>9 DEF SuccessIsComplete, ErrorsAreRaised, Succeeded
  <2> QED  BY SameResponse, <2>1, <2>8, <2>9, <2>10 DEF ResponseInv
<1> QED  BY <1>1, <1>2

(* What is not refused.                                                       *)
LEMMA NotRefused ==
  ASSUME ~Refused, ~Sole, EndsRead, peer.protocol \in {"connect", "grpc", "grpc-web"}
  PROVE  /\ ~trailersOnly
         /\ unaryCall /\ ~IsEnd(Unread) => cl.msgs = << >>
         /\ unaryCall /\ IsEnd(Unread) => cl.trailer = << >>
         /\ node /\ ~unaryCall => \A i \in 1 .. cl.read : ~IsEnd(down.frames[i])
<1>1. CASE unaryCall
  BY <1>1 DEF Refused, unaryRefuses, trailersOnly
<1>2. CASE ~unaryCall /\ peer.protocol = "connect"
  BY <1>2 DEF Refused, connectStreamRefuses, trailersOnly, EndsRead
<1>3. CASE ~unaryCall /\ peer.protocol = "grpc-web"
  BY <1>3 DEF Refused, grpcWebStreamRefuses, EndsRead
<1>4. CASE ~unaryCall /\ peer.protocol = "grpc"
  BY <1>4 DEF trailersOnly, IsEnd, endFlag
<1> QED  BY <1>1, <1>2, <1>3, <1>4

(* A message that is read is the next one, and parses.                        *)
LEMMA MessageOfResponse ==
  ASSUME ResponseInv, srv.pc = "none", ClShape(cl), UpShape(up), DownShape(down), ReadMessage,
         ~Sole, peer.protocol \in {"connect", "grpc", "grpc-web"}
  PROVE  ResponseInv'
<1>1. CASE Fails
  BY <1>1, FailedResponse
<1>2. CASE ~Fails
  <2>1. /\ cl.pc = "body" /\ cl.read < Len(down.frames) /\ ~IsEnd(Unread) /\ ~Refused
        /\ Parses(Unread) /\ UNCHANGED <<call, up, srv, down, peer>>
        /\ cl'.pc = "body" /\ cl'.read = cl.read + 1
        /\ cl'.msgs = Append(cl.msgs, Unread.msg) /\ cl'.trailer = cl.trailer
    BY <1>2, ReadMessageFields
  <2>2. Reading
    BY <2>1 DEF ResponseInv
  <2> DEFINE M == {f.msg : f \in Replies(peer.protocol)}
  <2>3. /\ cl.read \in Nat /\ cl.read + 1 \in 1 .. Len(down.frames) /\ Len(down.frames) \in Nat
        /\ cl.msgs \in Seq(M) /\ HeadIsFine /\ MessagesRead /\ EndsRead
    BY <2>1, <2>2 DEF ResponseInv, Reading
  <2>4. Unread = down.frames[cl.read + 1] /\ Unread.msg \in M
    BY <2>3 DEF Unread, ResponseInv
  <2>5. /\ ~trailersOnly
        /\ unaryCall => cl.msgs = << >>
        /\ node /\ ~unaryCall => \A i \in 1 .. cl.read : ~IsEnd(down.frames[i])
    BY <2>1, <2>3, NotRefused
  <2>6. /\ cl'.msgs \in Seq(M) /\ Len(cl'.msgs) = Len(cl.msgs) + 1
        /\ \A i \in 1 .. Len(cl.msgs) : cl'.msgs[i] = cl.msgs[i]
        /\ cl'.msgs[Len(cl.msgs) + 1] = Unread.msg /\ Len(cl.msgs) \in Nat
    <3> HIDE DEF M
    <3> QED  BY <2>1, <2>3, <2>4
  <2> HIDE DEF M
  <2>7. MessagesRead'
    <3> DEFINE n == cl.read
               up1 == MessagesUpTo(n + 1)
    <3>1. /\ up1 = MessagesUpTo(n) \cup {n + 1}
          /\ Cardinality(up1) = Cardinality(MessagesUpTo(n)) + 1
      BY <2>1, <2>3, <2>4, MessagesCounted
    <3>2. Len(cl.msgs) = Cardinality(MessagesUpTo(n))
      BY <2>3 DEF MessagesRead
    <3>3. \A k : MessagesUpTo(k)' = MessagesUpTo(k)
      BY <2>1, SameResponse
    <3>4. ASSUME NEW i \in up1
          PROVE  /\ Cardinality(MessagesUpTo(i)) \in 1 .. Len(cl'.msgs)
                 /\ cl'.msgs[Cardinality(MessagesUpTo(i))] = down.frames[i].msg
      <4>1. CASE i = n + 1
        BY <2>4, <2>6, <3>1, <3>2, <4>1
      <4>2. CASE i \in MessagesUpTo(n)
        <5>1. /\ Cardinality(MessagesUpTo(i)) \in 1 .. Len(cl.msgs)
              /\ cl.msgs[Cardinality(MessagesUpTo(i))] = down.frames[i].msg
          BY <2>3, <4>2 DEF MessagesRead
        <5> QED  BY <2>6, <5>1
      <4> QED  BY <3>1, <3>4, <4>1, <4>2
    <3>5. unaryCall => Len(cl'.msgs) <= 1
      BY <2>5, <2>6
    <3>6. unaryCall' = unaryCall /\ down' = down /\ cl'.read = n + 1
      BY <2>1, SameResponse
    <3>8. MessagesUpTo(cl.read)' = up1
      BY <2>1, <3>6 DEF MessagesUpTo, IsEnd, endFlag, unaryCall, web
    <3> HIDE DEF up1
    <3>9. /\ Len(cl'.msgs) = Cardinality(up1)
          /\ \A i \in up1 : /\ Cardinality(MessagesUpTo(i)') \in 1 .. Len(cl'.msgs)
                            /\ cl'.msgs[Cardinality(MessagesUpTo(i)')] = down'.frames[i].msg
      BY <2>6, <3>1, <3>2, <3>3, <3>4, <3>6
    <3> QED  BY <3>5, <3>6, <3>8, <3>9 DEF MessagesRead
  <2>8. EndsRead'
    <3>1. \A f : FineEnd(f)' <=> FineEnd(f)
      BY <2>1, SameResponse DEF FineEnd
    <3>2. \A i \in 1 .. cl.read + 1 : IF IsEnd(down.frames[i]) THEN FineEnd(down.frames[i])
                                                              ELSE Parses(down.frames[i])
      <4>1. \A i \in 1 .. cl.read + 1 : i \in 1 .. cl.read \/ i = cl.read + 1
        BY <2>3
      <4> QED  BY <2>1, <2>3, <2>4, <4>1 DEF EndsRead
    <3>3. cl.trailer = << >> <=> \A i \in 1 .. cl.read + 1 : ~IsEnd(down.frames[i])
      <4>1. \A i \in 1 .. cl.read + 1 : i \in 1 .. cl.read \/ i = cl.read + 1
        BY <2>3
      <4>2. \A i \in 1 .. cl.read : i \in 1 .. cl.read + 1
        BY <2>3
      <4> QED  BY <2>1, <2>3, <2>4, <4>1, <4>2 DEF EndsRead
    <3>4. node /\ ~unaryCall => \A i \in 1 .. cl.read + 1 : ~IsEnd(down.frames[i])
      <4>1. \A i \in 1 .. cl.read + 1 : i \in 1 .. cl.read \/ i = cl.read + 1
        BY <2>3
      <4> QED  BY <2>1, <2>4, <2>5, <4>1
    <3>5. /\ node' = node /\ unaryCall' = unaryCall /\ trailersOnly' = trailersOnly
          /\ \A f : (IsEnd(f)' <=> IsEnd(f)) /\ (Parses(f)' <=> Parses(f))
      BY <2>1, SameResponse
    <3>6. down' = down /\ cl'.read = cl.read + 1 /\ cl'.trailer = cl.trailer /\ ~trailersOnly
      BY <2>1, <2>5
    <3>7. \A i \in 1 .. cl.read + 1 : IF IsEnd(down.frames[i])' THEN FineEnd(down.frames[i])'
                                                               ELSE Parses(down.frames[i])'
      BY <3>1, <3>2, <3>5, <3>6
    <3>8. cl.trailer = << >> <=> \A i \in 1 .. cl.read + 1 : ~IsEnd(down.frames[i])'
      BY <3>3, <3>5, <3>6
    <3>9. node /\ ~unaryCall => \A i \in 1 .. cl.read + 1 : ~IsEnd(down.frames[i])'
      BY <3>4, <3>5, <3>6
    <3> QED  BY <3>5, <3>6, <3>7, <3>8, <3>9 DEF EndsRead
  <2>9. Reading'
    <3>1. Sole' = Sole /\ HeadIsFine' = HeadIsFine
      BY <2>1, SameResponse
    <3>2. cl'.msgs \in Seq({f.msg : f \in Replies(peer'.protocol)})
      BY <2>1, <2>6 DEF M
    <3>3. cl'.read \in 0 .. Len(down'.frames)
      BY <2>1, <2>3
    <3> QED  BY <2>1, <2>3, <2>7, <2>8, <3>1, <3>2, <3>3 DEF Reading
  <2>10. SuccessIsComplete' /\ ErrorsAreRaised'
    BY <2>1 DEF SuccessIsComplete, ErrorsAreRaised, Succeeded
  <2> QED  BY SameResponse, <2>1, <2>9, <2>10 DEF ResponseInv
<1> QED  BY <1>1, <1>2

(* An end that is read has no error, or its error is kept for the end of the  *)
(* body.                                                                      *)
LEMMA EndOfResponse ==
  ASSUME ResponseInv, srv.pc = "none", ClShape(cl), UpShape(up), DownShape(down), ReadEnd,
         ~Sole, peer.protocol \in {"connect", "grpc", "grpc-web"}, web \/ node
  PROVE  ResponseInv'
<1>1. CASE Fails
  BY <1>1, FailedResponse
<1>2. CASE ~Fails
  <2>1. /\ cl.pc = "body" /\ cl.read < Len(down.frames) /\ IsEnd(Unread) /\ ~Refused
        /\ UNCHANGED <<call, up, srv, down, peer>>
        /\ ~unaryCall => EndError = << >>
        /\ cl'.pc = "body" /\ cl'.read = cl.read + 1 /\ cl'.msgs = cl.msgs
        /\ cl'.trailer # << >>
        /\ cl.trailer = << >> => cl'.trailer = <<EndTrailer>>
    BY <1>2, ReadEndFields
  <2>2. Reading
    BY <2>1 DEF ResponseInv
  <2>3. /\ cl.read \in Nat /\ cl.read + 1 \in 1 .. Len(down.frames) /\ Len(down.frames) \in Nat
        /\ HeadIsFine /\ MessagesRead /\ EndsRead
    BY <2>1, <2>2 DEF ResponseInv, Reading
  <2>4. Unread = down.frames[cl.read + 1]
    BY DEF Unread
  <2>5. /\ ~trailersOnly
        /\ unaryCall => cl.trailer = << >>
        /\ node /\ ~unaryCall => \A i \in 1 .. cl.read : ~IsEnd(down.frames[i])
    BY <2>1, <2>3, NotRefused
  <2>6. \A i \in 1 .. cl.read + 1 : i \in 1 .. cl.read \/ i = cl.read + 1
    BY <2>3
  <2>7. MessagesRead'
    <3>1. MessagesUpTo(cl.read + 1) = MessagesUpTo(cl.read)
      BY <2>1, <2>3, <2>4, MessagesCounted
    <3>2. \A k : MessagesUpTo(k)' = MessagesUpTo(k)
      BY <2>1, SameResponse
    <3>3. unaryCall' = unaryCall /\ down' = down
      BY <2>1, SameResponse
    <3>4. MessagesUpTo(cl.read)' = MessagesUpTo(cl.read + 1)
      BY <2>1 DEF MessagesUpTo, IsEnd, endFlag, unaryCall, web
    <3> QED  BY <2>1, <2>3, <3>1, <3>2, <3>3, <3>4 DEF MessagesRead
  <2> DEFINE n == cl.read
  <2>8. PICK f : f = down.frames[n + 1]
    OBVIOUS
  <2>9. Unread = f /\ IsEnd(f)
    BY <2>1, <2>4, <2>8
  <2>10. FineEnd(f)'
    <3>1. CASE peer.protocol = "connect"
      <4>1. ~unaryCall
        BY <3>1 DEF Sole
      <4>2. LET e == endStreamFromJson(f.es[1])
            IN  (IF e.thrown THEN <<e.error>> ELSE e.error) = << >>
        BY <2>1, <2>9, <3>1, <4>1 DEF EndError
      <4>3. f.es[1].shape = "object" /\ f.es[1].error = << >>
        BY <4>2, EndStreamIsFine
      <4> QED  BY <2>1, <3>1, <4>3 DEF FineEnd
    <3>2. CASE peer.protocol = "grpc-web"
      <4>1. EndFields = EndFieldsOf(f)
        BY <2>9 DEF EndFields, EndFieldsOf
      <4>2. ~unaryCall => findTrailerError(EndFieldsOf(f)) = << >>
        BY <2>1, <3>2, <4>1 DEF EndError
      <4>3. unaryCall => cl'.trailer = <<EndFieldsOf(f)>>
        BY <2>1, <2>5, <2>9, <3>2, <4>1 DEF EndTrailer
      <4>4. EndFieldsOf(f)' = EndFieldsOf(f) /\ unaryCall' = unaryCall
        BY <2>1, SameResponse
      <4> QED  BY <2>1, <3>2, <4>2, <4>3, <4>4 DEF FineEnd
    <3>3. CASE peer.protocol = "grpc"
      BY <2>1, <3>3 DEF IsEnd, endFlag
    <3> QED  BY <3>1, <3>2, <3>3
  <2>11. EndsRead'
    <3>1. \A i \in 1 .. n : IF IsEnd(down.frames[i]) THEN FineEnd(down.frames[i])
                                                    ELSE Parses(down.frames[i])
      BY <2>3 DEF EndsRead
    <3>2. \A i \in 1 .. n : IsEnd(down.frames[i]) => ~unaryCall
      BY <2>1, <2>3, <2>5, <2>9 DEF EndsRead
    <3>3. /\ node' = node /\ unaryCall' = unaryCall /\ trailersOnly' = trailersOnly
          /\ \A g : (IsEnd(g)' <=> IsEnd(g)) /\ (Parses(g)' <=> Parses(g))
          /\ \A g : EndFieldsOf(g)' = EndFieldsOf(g)
      BY <2>1, SameResponse
    <3>4. \A g : ~unaryCall => (FineEnd(g)' <=> FineEnd(g))
      BY <2>1, <3>3 DEF FineEnd
    <3>5. down' = down /\ cl'.read = n + 1 /\ cl'.trailer # << >> /\ ~trailersOnly
      BY <2>1, <2>5
    <3>6. \A i \in 1 .. n + 1 : i \in 1 .. n \/ i = n + 1
      BY <2>6
    <3>7. n + 1 \in 1 .. n + 1
      BY <2>3
    <3> HIDE DEF n
    <3>8. \A i \in 1 .. n + 1 : IF IsEnd(down.frames[i])' THEN FineEnd(down.frames[i])'
                                                         ELSE Parses(down.frames[i])'
      <4> SUFFICES ASSUME NEW i \in 1 .. n + 1
                   PROVE  IF IsEnd(down.frames[i])' THEN FineEnd(down.frames[i])'
                                                    ELSE Parses(down.frames[i])'
        OBVIOUS
      <4>1. CASE i = n + 1
        BY <2>8, <2>9, <2>10, <3>3, <3>5, <4>1
      <4>2. CASE i \in 1 .. n
        BY <3>1, <3>2, <3>3, <3>4, <3>5, <4>2
      <4> QED  BY <3>6, <4>1, <4>2
    <3>9. \E i \in 1 .. n + 1 : IsEnd(down.frames[i])'
      <4>1. \A i \in 1 .. n + 1 : i = n + 1 => IsEnd(down.frames[i])'
        BY <2>8, <2>9, <3>3, <3>5
      <4> QED  BY <3>7, <4>1
    <3>10. node /\ ~unaryCall => \A i \in 1 .. n + 1 : IsEnd(down.frames[i])' => i = n + 1
      BY <2>5, <3>3, <3>5, <3>6 DEF n
    <3> QED  BY <3>3, <3>5, <3>7, <3>8, <3>9, <3>10 DEF EndsRead
  <2>12. Reading'
    <3>1. Sole' = Sole /\ HeadIsFine' = HeadIsFine
      BY <2>1, SameResponse
    <3>2. cl'.msgs \in Seq({g.msg : g \in Replies(peer'.protocol)})
      BY <2>1, <2>2 DEF Reading
    <3>3. cl'.read \in 0 .. Len(down'.frames)
      BY <2>1, <2>3
    <3> QED  BY <2>1, <2>3, <2>7, <2>11, <3>1, <3>2, <3>3 DEF Reading
  <2>13. SuccessIsComplete' /\ ErrorsAreRaised'
    BY <2>1 DEF SuccessIsComplete, ErrorsAreRaised, Succeeded
  <2> QED  BY SameResponse, <2>1, <2>12, <2>13 DEF ResponseInv
<1> QED  BY <1>1, <1>2

(* The whole body of a Connect unary response that is taken for a success.    *)
LEMMA UnaryResponse ==
  ASSUME ResponseInv, srv.pc = "none", ClShape(cl), UpShape(up), DownShape(down),
         ReadConnectUnary, Sole
  PROVE  ResponseInv'
<1>1. CASE Fails
  BY <1>1, FailedResponse
<1>2. CASE ~Fails
  <2>1. /\ cl.pc = "unary" /\ down.end # "open" /\ down.end \notin {"cut", "partial"}
        /\ ~(down.end = "end" /\ isUnaryError)
        /\ BodyParses /\ Settled(<< >>, <<down.frames[1].msg>>)
    BY <1>2, ReadUnaryResponse
  <2>2. /\ UNCHANGED <<call, srv, peer, down>> /\ cl'.pc = "done"
        /\ cl'.msgs = <<down.frames[1].msg>>
    BY <2>1 DEF Settled
  <2>3. /\ down.end = "end" /\ HeadIsFine /\ down.frames \in Seq(Replies(peer.protocol))
        /\ EndsWithin
    BY <2>1 DEF ResponseInv, Reading, EndsWithin
  <2>4. Len(down.frames) = 1 /\ ~down.frames[1].end
    BY <2>1 DEF BodyParses
  <2>5. Ends = {}
    BY <2>3, <2>4 DEF Ends
  <2>6. MessagesUpTo(1) = {1} /\ Cardinality(MessagesUpTo(1)) = 1
    <3>1. 0 \in Nat /\ 0 + 1 = 1
      OBVIOUS
    <3>2. ~IsEnd(down.frames[1])
      BY <2>4 DEF IsEnd
    <3>3. /\ MessagesUpTo(0) = {} /\ Cardinality(MessagesUpTo(0)) = 0
          /\ ~IsEnd(down.frames[0 + 1]) =>
               /\ MessagesUpTo(0 + 1) = MessagesUpTo(0) \cup {0 + 1}
               /\ Cardinality(MessagesUpTo(0 + 1)) = Cardinality(MessagesUpTo(0)) + 1
      BY <3>1, MessagesCounted
    <3> QED  BY <3>1, <3>2, <3>3
  <2>7. /\ Sole' /\ unaryCall' = unaryCall /\ BodyParses' /\ Ends' = {} /\ HeadIsFine'
        /\ MessagesUpTo(1)' = {1} /\ \A k : MessagesUpTo(k)' = MessagesUpTo(k)
    BY <2>1, <2>2, <2>3, <2>5, <2>6, SameResponse
  <2>8. Unary # ClientStreaming
    BY DEF Unary, ClientStreaming
  <2>9. SuccessIsComplete'
    <3>1. MessagesUpTo(Len(down.frames))' = {1}
      <4>1. Len(down'.frames) = 1
        BY <2>2, <2>4
      <4> QED  BY <2>7, <4>1 DEF MessagesUpTo
    <3>2. Cardinality(MessagesUpTo(1))' = 1
      BY <2>6, <2>7
    <3>3. Cardinality({1}) = 1
      BY <2>6
    <3>4. /\ Len(cl'.msgs) = 1 /\ cl'.msgs # << >> /\ cl'.msgs[1] = down'.frames[1].msg
          /\ peer'.protocol = "connect" /\ unaryCall' /\ down'.end = "end"
      BY <2>2, <2>3, <2>7 DEF Sole
    <3> QED  BY <2>7, <3>1, <3>2, <3>3, <3>4 DEF SuccessIsComplete
  <2>10. ErrorsAreRaised'
    <3>1. peer'.protocol = "connect"
      BY <2>7 DEF Sole
    <3> QED  BY <2>7, <3>1 DEF ErrorsAreRaised, HeadIsFine
  <2> QED  BY SameResponse, <2>2, <2>3, <2>9, <2>10 DEF ResponseInv
<1> QED  BY <1>1, <1>2

(* A body that is taken for a success when it ended.                          *)
LEMMA BodyOfResponse ==
  ASSUME ResponseInv, srv.pc = "none", ClShape(cl), UpShape(up), DownShape(down), ReadBodyEnd,
         ~Sole, peer.protocol \in {"connect", "grpc", "grpc-web"}, web \/ node
  PROVE  ResponseInv'
<1>1. CASE Fails
  BY <1>1, FailedResponse
<1>2. CASE ~Fails
  <2>1. /\ cl.pc = "body" /\ cl.read = Len(down.frames) /\ down.end # "open"
        /\ down.end \notin {"cut", "partial"} /\ BodyError = << >>
        /\ unaryCall => cl.msgs # << >>
        /\ call.kind = ClientStreaming => cl.msgs # << >>
        /\ Settled(<< >>, cl.msgs)
    BY <1>2, ReadBodyEndFields
  <2>2. UNCHANGED <<call, srv, peer, down>> /\ cl'.pc = "done" /\ cl'.msgs = cl.msgs
    BY <2>1 DEF Settled
  <2>3. /\ Reading /\ down.end \in {"end", "within"} /\ down.frames \in Seq(Replies(peer.protocol))
        /\ HeadIsFine /\ MessagesRead /\ EndsRead /\ EndsWithin
    BY <2>1 DEF ResponseInv, Reading
  <2> DEFINE n == Len(down.frames)
  <2>4. n \in Nat /\ DOMAIN down.frames = 1 .. n
    BY <2>3
  <2>5. /\ \A i \in 1 .. n : IF IsEnd(down.frames[i]) THEN FineEnd(down.frames[i])
                                                      ELSE Parses(down.frames[i])
        /\ cl.trailer = << >> <=> \A i \in 1 .. n : ~IsEnd(down.frames[i])
        /\ node /\ ~unaryCall => \A i \in 1 .. n : IsEnd(down.frames[i]) => i = n
        /\ trailersOnly => n = 0
    BY <2>1, <2>3 DEF EndsRead
  <2>6. Ends = {i \in 1 .. n : down.frames[i].end}
    BY <2>4 DEF Ends
  <2>7. \A i \in 1 .. n : IsEnd(down.frames[i]) => i \in Ends
    BY <2>6 DEF IsEnd
  <2>8. /\ peer.protocol = "connect" => \A i \in Ends : IsEnd(down.frames[i])
        /\ node /\ peer.protocol # "grpc" => \A i \in Ends : IsEnd(down.frames[i])
        /\ \A i \in Ends : peer.protocol = "grpc-web" /\ ~(web /\ down.frames[i].comp)
                             => IsEnd(down.frames[i])
    <3>1. node => ~web
      BY DEF node, web
    <3> QED  BY <2>6, <3>1 DEF IsEnd, endFlag
  <2> HIDE DEF n
  <2>9. /\ Len(cl.msgs) = Cardinality(MessagesUpTo(n))
        /\ \A i \in MessagesUpTo(n) :
             cl.msgs[Cardinality(MessagesUpTo(i))] = down.frames[i].msg
        /\ unaryCall => Len(cl.msgs) <= 1
    BY <2>1, <2>3 DEF MessagesRead, n
  <2>10. unaryCall => Len(cl.msgs) = 1
    <3>1. cl.msgs \in Seq({f.msg : f \in Replies(peer.protocol)})
      BY <2>3 DEF Reading
    <3>2. cl.msgs # << >> => Len(cl.msgs) # 0
      BY <3>1
    <3>3. Len(cl.msgs) \in Nat
      BY <3>1
    <3> QED  BY <2>1, <2>9, <3>2, <3>3
  <2>11. peer.protocol # "grpc" => \/ trailersOnly /\ n = 0
                                   \/ Ends # {} /\ (Ends = {n} \/ unaryCall \/ web)
    <3>1. CASE peer.protocol # "grpc" /\ ~trailersOnly
      <4>1. cl.trailer # << >>
        BY <2>1, <3>1 DEF BodyError, connectBodyError, grpcWebBodyError, Violated
      <4>2. Ends # {}
        BY <2>5, <2>7, <4>1
      <4>3. node /\ ~unaryCall => Ends = {n}
        BY <2>5, <2>6, <2>8, <3>1, <4>2
      <4> QED  BY <4>2, <4>3
    <3> QED  BY <2>5, <3>1
  <2>12. peer.protocol = "grpc" /\ ~(foundStatus /\ ~unaryCall)
           => findTrailerError(down.trailer) = << >>
    BY <2>1 DEF BodyError, grpcBodyError
  <2>13. \A i \in Ends :
           /\ peer.protocol = "connect" =>
                down.frames[i].es[1].shape = "object" /\ down.frames[i].es[1].error = << >>
           /\ peer.protocol = "grpc-web" /\ ~(web /\ down.frames[i].comp)
                => findTrailerError(trailerParse(down.frames[i].tr[1])) = << >>
    <3> SUFFICES ASSUME NEW i \in Ends
                 PROVE  /\ peer.protocol = "connect" =>
                             /\ down.frames[i].es[1].shape = "object"
                             /\ down.frames[i].es[1].error = << >>
                        /\ peer.protocol = "grpc-web" /\ ~(web /\ down.frames[i].comp)
                             => findTrailerError(trailerParse(down.frames[i].tr[1])) = << >>
      OBVIOUS
    <3>1. i \in 1 .. n
      BY <2>6
    <3>2. CASE peer.protocol = "connect"
      BY <2>5, <2>8, <3>1, <3>2 DEF FineEnd
    <3>3. CASE peer.protocol = "grpc-web" /\ ~(web /\ down.frames[i].comp)
      <4>1. FineEnd(down.frames[i]) /\ IsEnd(down.frames[i])
        BY <2>5, <2>8, <3>1, <3>3
      <4>2. EndFieldsOf(down.frames[i]) = trailerParse(down.frames[i].tr[1])
        BY <3>3 DEF EndFieldsOf
      <4>3. CASE ~unaryCall
        BY <3>3, <4>1, <4>2, <4>3 DEF FineEnd
      <4>4. CASE unaryCall
        <5>1. cl.trailer = <<EndFieldsOf(down.frames[i])>>
          BY <3>3, <4>1, <4>4 DEF FineEnd
        <5>2. ~trailersOnly
          BY <4>4 DEF trailersOnly
        <5>3. cl.trailer # << >> /\ cl.trailer[1] = EndFieldsOf(down.frames[i])
          BY <5>1
        <5>4. findTrailerError(cl.trailer[1]) = << >>
          BY <2>1, <3>3, <5>2, <5>3 DEF BodyError, grpcWebBodyError
        <5> QED  BY <3>3, <4>2, <5>3, <5>4
      <4> QED  BY <4>3, <4>4
    <3> QED  BY <3>2, <3>3
  <2>14. SuccessIsComplete'
    <3>1. /\ ~Sole' /\ unaryCall' = unaryCall /\ Ends' = Ends /\ web' = web
          /\ trailersOnly' = trailersOnly /\ \A k : MessagesUpTo(k)' = MessagesUpTo(k)
          /\ \A f : (IsEnd(f)' <=> IsEnd(f)) /\ (Parses(f)' <=> Parses(f))
      BY <2>2, SameResponse
    <3>2. MessagesUpTo(Len(down.frames))' = MessagesUpTo(n)
      BY <2>2, <3>1 DEF MessagesUpTo, n
    <3>3. ~(peer'.protocol = "connect" /\ unaryCall')
      BY <3>1 DEF Sole
    <3>4. \A i \in DOMAIN down'.frames : IsEnd(down.frames[i])' \/ Parses(down.frames[i])'
      BY <2>2, <2>4, <2>5, <3>1
    <3>5. trailersOnly /\ n = 0 => down.frames = << >>
      BY <2>3 DEF n
    <3>6. down' = down /\ peer' = peer /\ call' = call
      BY <2>2
    <3>7. \A i \in MessagesUpTo(n) : cl'.msgs[Cardinality(MessagesUpTo(i)')] = down'.frames[i].msg
      BY <2>2, <2>9, <3>1
    <3>8. peer.protocol # "grpc" => \/ trailersOnly' /\ down'.frames = << >>
                                    \/ Ends' # {} /\ (Ends' = {Len(down'.frames)} \/ unaryCall' \/ web')
      BY <2>11, <3>1, <3>5, <3>6 DEF n
    <3>9. \/ down'.end = "end"
          \/ /\ down'.end = "within"
             /\ \/ peer'.protocol = "grpc-web"
                \/ \E i \in Ends' : i < Len(down'.frames)
      <4>1. CASE down.end = "within" /\ peer.protocol = "connect"
        <5>1. n >= 1 /\ CutShort(down.frames[n])
          BY <2>3, <4>1 DEF EndsWithin, n
        <5>2. n \notin Ends
          BY <2>6, <2>13, <4>1, <5>1 DEF CutShort
        <5>3. PICK i \in Ends : TRUE
          BY <2>11, <4>1, <5>1
        <5>4. i < n
          BY <2>4, <2>6, <5>2, <5>3
        <5> QED  BY <3>1, <3>6, <4>1, <5>3, <5>4 DEF n
      <4>2. down.end = "within" => peer.protocol # "grpc"
        BY <2>3 DEF EndsWithin
      <4> QED  BY <2>3, <3>6, <4>1, <4>2
    <3> QED  BY <2>1, <2>2, <2>9, <2>10, <3>1, <3>2, <3>3, <3>4, <3>6, <3>7, <3>8, <3>9
             DEF SuccessIsComplete
  <2>15. ErrorsAreRaised'
    <3>1. /\ unaryCall' = unaryCall /\ Ends' = Ends /\ web' = web /\ foundStatus' = foundStatus
          /\ HeadIsFine'
      BY <2>2, <2>3, SameResponse
    <3> QED  BY <2>2, <2>12, <2>13, <3>1 DEF ErrorsAreRaised, HeadIsFine
  <2> QED  BY SameResponse, <2>2, <2>3, <2>14, <2>15 DEF ResponseInv
<1> QED  BY <1>1, <1>2

(* Every step keeps what is said of a response.                               *)
LEMMA NextResponseInv ==
  ASSUME Shapes, ResponseInv, [Next]_vars
  PROVE  ResponseInv'
<1>1. CASE srv.pc # "none"
  <2>1. srv'.pc # "none"
    BY <1>1, NextShapes
  <2> QED  BY <2>1 DEF ResponseInv
<1>2. CASE srv.pc = "none" /\ Client
  <2>1. cl.pc \notin {"none", "done"} /\ ClShape(cl) /\ UpShape(up) /\ DownShape(down)
    BY <1>2, ClientCases DEF Shapes
  <2>2. CASE SendMessage
    BY <1>2, <2>1, <2>2, SendMessageFields, ResponseStutters
  <2>3. CASE SendEnd
    BY <1>2, <2>1, <2>3, SendEndFields, ResponseStutters
  <2>4. CASE ReadHead
    BY <1>2, <2>1, <2>4, HeadOfResponse
  <2>5. CASE NoHead
    BY <1>2, <2>1, <2>5, NoHeadFields, FailedResponse
  <2>6. CASE Sole /\ ReadConnectUnary
    BY <1>2, <2>1, <2>6, UnaryResponse
  <2>7. CASE ~Sole /\ (ReadMessage \/ ReadEnd \/ ReadBodyEnd)
    BY <1>2, <2>1, <2>7, ClientCases, MessageOfResponse, EndOfResponse, BodyOfResponse
  <2> QED  BY <1>2, <2>2, <2>3, <2>4, <2>5, <2>6, <2>7, ClientCases DEF Sole
<1>3. CASE UNCHANGED vars
  BY <1>3, ResponseStutters DEF vars
<1>4. CASE srv.pc = "none" /\ (Server \/ Stop \/ Lose)
  BY <1>4 DEF Server, Stop, Lose, Ours
<1> QED  BY <1>1, <1>2, <1>3, <1>4 DEF Next

(* A caller takes no response for a success that is not complete or cannot be *)
(* read, and has all of its messages then, in order and none twice.           *)
THEOREM SuccessesAreComplete == Spec => []SuccessIsComplete
<1>1. Init => Shapes /\ ResponseInv /\ SuccessIsComplete
  BY InitShapes, InitResponseInv DEF ResponseInv, SuccessIsComplete, Succeeded
<1>2. Shapes /\ ResponseInv /\ [Next]_vars => (Shapes /\ ResponseInv)'
  BY NextShapes, NextResponseInv
<1>3. ResponseInv => SuccessIsComplete
  BY DEF ResponseInv, SuccessIsComplete, Succeeded
<1> QED  BY <1>1, <1>2, <1>3, PTL DEF Spec

(* A caller takes no response for a success that carries an error, wherever   *)
(* the protocol says it.                                                      *)
THEOREM NoErrorIsLost == Spec => []ErrorsAreRaised
<1>1. Init => Shapes /\ ResponseInv /\ ErrorsAreRaised
  BY InitShapes, InitResponseInv DEF ResponseInv, ErrorsAreRaised, Succeeded
<1>2. Shapes /\ ResponseInv /\ [Next]_vars => (Shapes /\ ResponseInv)'
  BY NextShapes, NextResponseInv
<1>3. ResponseInv => ErrorsAreRaised
  BY DEF ResponseInv, ErrorsAreRaised, Succeeded
<1> QED  BY <1>1, <1>2, <1>3, PTL DEF Spec

(* The names of the codes differ in their first words.                        *)
FirstWord(name) == name[1]

(* The first word of the name of each code.                                   *)
LEMMA CodeNamesAre ==
  /\ FirstWord(CodeNames[1]) = "canceled"   /\ FirstWord(CodeNames[2]) = "unknown"
  /\ FirstWord(CodeNames[3]) = "invalid"    /\ FirstWord(CodeNames[4]) = "deadline"
  /\ FirstWord(CodeNames[5]) = "not"        /\ FirstWord(CodeNames[6]) = "already"
  /\ FirstWord(CodeNames[7]) = "permission" /\ FirstWord(CodeNames[8]) = "resource"
  /\ FirstWord(CodeNames[9]) = "failed"     /\ FirstWord(CodeNames[10]) = "aborted"
  /\ FirstWord(CodeNames[11]) = "out"       /\ FirstWord(CodeNames[12]) = "unimplemented"
  /\ FirstWord(CodeNames[13]) = "internal"  /\ FirstWord(CodeNames[14]) = "unavailable"
  /\ FirstWord(CodeNames[15]) = "data"      /\ FirstWord(CodeNames[16]) = "unauthenticated"
  BY DEF CodeNames, FirstWord

(* The codes are numbered, and each has its name.                             *)
LEMMA CodesAre == Code = 1 .. 16 /\ \A c \in Code : codeToString(c) = CodeNames[c]
  BY DEF Code, Canceled, Unauthenticated, codeToString

(* A code is read from the name it was written as.                            *)
LEMMA CodeSurvives ==
  ASSUME NEW c \in Code
  PROVE  /\ codeFromString(codeToString(c)) = c
         /\ codeToString(c) \notin {<<Absent>>, <<"other">>}
<1>1. \A d \in Code : FirstWord(CodeNames[d]) = FirstWord(CodeNames[c]) => d = c
  BY CodeNamesAre, CodesAre
<1>2. FirstWord(CodeNames[c]) \notin {"prototype", "absent", "other"}
  BY CodeNamesAre, CodesAre
<1>3. codeToString(c) \notin {PrototypeKey, <<Absent>>, <<"other">>}
  <2>1. FirstWord(PrototypeKey) = "prototype" /\ FirstWord(<<Absent>>) = "absent"
        /\ FirstWord(<<"other">>) = "other"
    BY DEF FirstWord, PrototypeKey, Absent
  <2> QED  BY <1>2, <2>1, CodesAre
<1>4. codeFromString(codeToString(c)) = CHOOSE d \in Code : codeToString(d) = codeToString(c)
  BY <1>3 DEF codeFromString
<1>5. \A d \in Code : codeToString(d) = codeToString(c) => d = c
  BY <1>1, CodesAre
<1> QED  BY <1>3, <1>4, <1>5

(* An error that another side can be told, or none.                           *)
Told(error) == error = << >> \/ (error = <<error[1]>> /\ Sendable(error[1]))

(* JSON keeps the code, the message and the details of an error.              *)
LEMMA JsonKeepsErrors ==
  ASSUME NEW e, Sendable(e), NEW metadata, NEW fallback
  PROVE  errorFromJson(errorToJson(e), metadata, fallback)
           = Returned(Error(e.code, e.message, e.details, metadata))
<1> DEFINE json == errorToJson(e)
<1>1. /\ json.shape = "object" /\ json.code = codeToString(e.code) /\ json.details = e.details
      /\ json.message = IF e.message = NoMessage THEN Absent ELSE e.message
  BY DEF errorToJson
<1>2. /\ codeFromString(json.code) = e.code /\ json.code \notin {<<Absent>>, <<"other">>}
      /\ e.code # NoCode
  BY <1>1, CodeSurvives, CodesAre DEF Sendable, NoCode
<1>3. /\ json.message # "other"
      /\ (IF json.message = Absent THEN NoMessage ELSE json.message) = e.message
  BY <1>1 DEF Sendable, NoMessage, Absent
<1>4. ~ \E i \in DOMAIN json.details : ~json.details[i].valid
  BY <1>1 DEF Sendable
<1> HIDE DEF json
<1>5. errorFromJson(json, metadata, fallback)
        = Returned(Error(codeFromString(json.code),
                         IF json.message = Absent THEN NoMessage ELSE json.message,
                         json.details, metadata))
  BY <1>1, <1>2, <1>3, <1>4 DEF errorFromJson
<1> QED  BY <1>1, <1>2, <1>3, <1>5 DEF json

(* What the contract compares of an error.                                    *)
LEMMA WireIs ==
  ASSUME NEW e, NEW metadata
  PROVE  /\ Wire(<<e>>) = <<[code |-> e.code, message |-> e.message, details |-> e.details]>>
         /\ Wire(<<Error(e.code, e.message, e.details, metadata)>>) = Wire(<<e>>)
         /\ Wire(<<e>>) # << >> /\ Wire(<< >>) = << >>
  BY DEF Wire, Error

(* The end stream of Connect keeps the error, or the trailer of a success.    *)
LEMMA EndStreamKeeps ==
  ASSUME NEW error, NEW t, Told(error)
  PROVE  LET read == endStreamFromJson(endStreamToJson(t, error))
         IN  /\ ~read.thrown
             /\ error = << >> => read.error = << >> /\ read.metadata = t
             /\ error # << >> => read.error # << >> /\ Wire(read.error) = Wire(error)
<1> DEFINE json == endStreamToJson(t, error)
<1>1. CASE error = << >>
  <2>1. json.shape = "object" /\ json.metadata = <<t>> /\ json.error = << >>
    BY <1>1 DEF endStreamToJson
  <2> HIDE DEF json
  <2>2. endStreamFromJson(json) = [thrown |-> FALSE, metadata |-> t, error |-> << >>]
    BY <2>1 DEF endStreamFromJson
  <2> QED  BY <1>1, <2>2 DEF json
<1>2. CASE error # << >>
  <2> DEFINE metadata == appendHeaders(t, error[1].metadata)
             e == error[1]
  <2>0. error = <<e>> /\ Sendable(e)
    BY <1>2 DEF Told
  <2>1. json.shape = "object" /\ json.metadata = <<metadata>> /\ json.error = <<errorToJson(e)>>
    BY <1>2 DEF endStreamToJson
  <2> HIDE DEF json, metadata, e
  <2>2. errorFromJson(errorToJson(e), metadata, InvalidEndStream)
          = Returned(Error(e.code, e.message, e.details, metadata))
    BY <2>0, JsonKeepsErrors
  <2> DEFINE r == Error(e.code, e.message, e.details, metadata)
  <2>3. /\ json.metadata # << >> /\ json.metadata[1] = metadata
        /\ json.error # << >> /\ json.error[1] = errorToJson(e)
    BY <2>1
  <2> HIDE DEF r
  <2>4. errorFromJson(json.error[1], json.metadata[1], InvalidEndStream) = Returned(r)
    BY <2>2, <2>3 DEF r
  <2>5. ~Returned(r).thrown /\ Returned(r).error = r
    BY DEF Returned
  <2>6. endStreamFromJson(json) = [thrown |-> FALSE, metadata |-> metadata, error |-> <<r>>]
    BY <2>1, <2>3, <2>4, <2>5 DEF endStreamFromJson
  <2>7. <<r>> # << >> /\ Wire(<<r>>) = Wire(<<e>>)
    BY WireIs DEF r
  <2> QED  BY <1>2, <2>0, <2>6, <2>7 DEF json
<1> QED  BY <1>1, <1>2

-----------------------------------------------------------------------------
(* The status fields of a gRPC trailer.                                       *)

(* The fields of a status have different names, and none is the missing one.  *)
LEMMA StatusFieldsDiffer ==
  /\ headerGrpcStatus # headerGrpcMessage /\ headerGrpcStatus # headerStatusDetailsBin
  /\ headerGrpcMessage # headerStatusDetailsBin
  /\ Plain(Absent) \notin {headerGrpcStatus, headerGrpcMessage, headerStatusDetailsBin}
<1>1. \A a, b : Plain(a) = Plain(b) => a = b
  BY DEF Plain
<1> QED  BY <1>1 DEF headerGrpcStatus, headerGrpcMessage, headerStatusDetailsBin, Absent

(* A trailer of gRPC keeps the error, or the fields of a success.             *)
LEMMA StatusFieldsKeep ==
  ASSUME NEW error, NEW t, Told(error), Settable(t)
  PROVE  LET found == findTrailerError(grpcFields(error, t))
         IN  /\ error = << >> => found = << >>
             /\ error # << >> => found # << >> /\ Wire(found) = Wire(error)
<1> DEFINE fields == grpcFields(error, t)
<1>0. headerStatusDetailsBin \notin DOMAIN t /\ headerGrpcStatus \notin DOMAIN t
  BY DEF Settable
<1>1. CASE error = << >>
  <2>1. fields = HeaderSet(t, headerGrpcStatus, <<grpcStatusOk>>)
    BY <1>0, <1>1, GrpcFieldsAre
  <2> HIDE DEF fields
  <2>2. /\ headerStatusDetailsBin \notin DOMAIN fields /\ headerGrpcStatus \in DOMAIN fields
        /\ fields[headerGrpcStatus] = <<grpcStatusOk>>
    BY <1>0, <2>1, StatusFieldsDiffer DEF HeaderSet
  <2>3. fields[headerGrpcStatus][1] = grpcStatusOk
    BY <2>2
  <2>4. grpcStatusOk \notin Code
    BY CodesAre DEF grpcStatusOk
  <2>5. findTrailerError(fields) = << >>
    BY <2>2, <2>3, <2>4 DEF findTrailerError
  <2> QED  BY <1>1, <2>5 DEF fields
<1>2. CASE error # << >>
  <2> DEFINE e == error[1]
             h == HeaderSet(t, headerGrpcStatus, <<e.code>>)
             s == HeaderSet(h, headerGrpcMessage, <<e.message>>)
             d == [valid |-> TRUE, code |-> e.code, message |-> e.message, details |-> e.details]
  <2>1. error = <<e>> /\ Sendable(e)
    BY <1>2 DEF Told
  <2>2. fields = IF e.details = << >> THEN s ELSE HeaderSet(s, headerStatusDetailsBin, <<d>>)
    BY <1>2, GrpcFieldsAre DEF setTrailerStatus
  <2> HIDE DEF fields, e, h
  <2>3. DOMAIN h = DOMAIN t \cup {headerGrpcStatus} /\ h[headerGrpcStatus] = <<e.code>>
    BY DEF h, HeaderSet
  <2> HIDE DEF s
  <2>4. /\ headerGrpcStatus \in DOMAIN s /\ s[headerGrpcStatus] = <<e.code>>
        /\ headerGrpcMessage \in DOMAIN s /\ s[headerGrpcMessage] = <<e.message>>
        /\ headerStatusDetailsBin \notin DOMAIN s
    BY <1>0, <2>3, StatusFieldsDiffer DEF s, HeaderSet
  <2>5. e.code \in Code /\ e.code # grpcStatusOk
    BY <2>1, CodesAre DEF Sendable, grpcStatusOk
  <2>6. CASE e.details = << >>
    <3>1. fields = s
      BY <2>2, <2>6
    <3>2. fields[headerGrpcStatus][1] = e.code /\ fields[headerGrpcMessage][1] = e.message
      BY <2>4, <3>1
    <3>3. findTrailerError(fields) = <<Error(e.code, e.message, << >>, fields)>>
      BY <2>4, <2>5, <3>1, <3>2 DEF findTrailerError
    <3>4. Wire(<<Error(e.code, e.message, << >>, fields)>>) = Wire(<<e>>)
      BY <2>6, WireIs
    <3> QED  BY <1>2, <2>1, <3>3, <3>4 DEF fields
  <2>7. CASE e.details # << >>
    <3>1. headerStatusDetailsBin \in DOMAIN fields /\ fields[headerStatusDetailsBin] = <<d>>
      BY <2>2, <2>7 DEF HeaderSet
    <3>2. fields[headerStatusDetailsBin][1] = d
      BY <3>1
    <3>3. findTrailerError(fields) = <<Error(e.code, e.message, e.details, fields)>>
      BY <2>5, <3>1, <3>2 DEF findTrailerError
    <3> QED  BY <1>2, <2>1, <3>3, WireIs DEF fields
  <2> QED  BY <2>6, <2>7
<1> QED  BY <1>1, <1>2

(* The application has the fields it set.                                     *)
LEMMA StatusIsNoField ==
  ASSUME NEW t, Settable(t)
  PROVE  App(grpcFields(<< >>, t)) = App(t)
<1>1. grpcFields(<< >>, t) = HeaderSet(t, headerGrpcStatus, <<grpcStatusOk>>)
  BY GrpcFieldsAre DEF Settable
<1> QED  BY <1>1 DEF App, HeaderSet

(* The fields can be written line by line.                                    *)
LEMMA FieldsAreLines ==
  ASSUME NEW error, NEW t, Told(error), Settable(t)
  PROVE  LET f == grpcFields(error, t)
         IN  /\ f = [k \in DOMAIN f |-> f[k]] /\ IsFiniteSet(DOMAIN f)
             /\ Plain(Absent) \notin DOMAIN f
<1>1. ASSUME NEW h, NEW k, NEW v, IsFiniteSet(DOMAIN h), Plain(Absent) \notin DOMAIN h,
             k # Plain(Absent)
      PROVE  LET s == HeaderSet(h, k, v)
             IN  /\ s = [f \in DOMAIN s |-> s[f]] /\ IsFiniteSet(DOMAIN s)
                 /\ Plain(Absent) \notin DOMAIN s
  BY <1>1, FS_AddElement DEF HeaderSet
<1>2. IsFiniteSet(DOMAIN t) /\ Plain(Absent) \notin DOMAIN t
  BY DEF Settable
<1>3. CASE error = << >>
  <2>1. grpcFields(error, t) = HeaderSet(t, headerGrpcStatus, <<grpcStatusOk>>)
    BY <1>3, GrpcFieldsAre DEF Settable
  <2> QED  BY <1>1, <1>2, <2>1, StatusFieldsDiffer
<1>4. CASE error # << >>
  <2> DEFINE e == error[1]
             h == HeaderSet(t, headerGrpcStatus, <<e.code>>)
             s == HeaderSet(h, headerGrpcMessage, <<e.message>>)
             d == [valid |-> TRUE, code |-> e.code, message |-> e.message, details |-> e.details]
             f == HeaderSet(s, headerStatusDetailsBin, <<d>>)
  <2>1. grpcFields(error, t) = IF e.details = << >> THEN s ELSE f
    BY <1>4, GrpcFieldsAre DEF setTrailerStatus
  <2>2. IsFiniteSet(DOMAIN h) /\ Plain(Absent) \notin DOMAIN h
    BY <1>1, <1>2, StatusFieldsDiffer
  <2> HIDE DEF h
  <2>3. s = [k \in DOMAIN s |-> s[k]] /\ IsFiniteSet(DOMAIN s) /\ Plain(Absent) \notin DOMAIN s
    BY <1>1, <2>2, StatusFieldsDiffer
  <2> HIDE DEF s, d
  <2>4. f = [k \in DOMAIN f |-> f[k]] /\ IsFiniteSet(DOMAIN f) /\ Plain(Absent) \notin DOMAIN f
    BY <1>1, <2>3, StatusFieldsDiffer
  <2> HIDE DEF f
  <2> QED  BY <2>1, <2>3, <2>4
<1> QED  BY <1>3, <1>4

(* Induction: a set of numbers has a least one.                               *)
LEMMA LeastNatural ==
  ASSUME NEW T \in SUBSET Nat, T # {}
  PROVE  \E n \in T : \A k \in T : n <= k
<1> PICK m \in T : TRUE
  OBVIOUS
<1> DEFINE S == {k \in T : k <= m}
           I == {0 .. k : k \in S}
<1>1. I \subseteq FiniteSubsetsOf(0 .. m) /\ I # {}
  <2>1. IsFiniteSet(0 .. m)
    BY FS_Interval
  <2>2. FiniteSubsetsOf(0 .. m) = SUBSET (0 .. m)
    BY <2>1, FS_FiniteSubsetsOfFinite
  <2> QED  BY <2>2
<1>2. PICK i \in I : \A j \in I : ~ (<<j, i>> \in StrictSubsetOrdering(0 .. m))
  <2>1. IsWellFoundedOn(StrictSubsetOrdering(0 .. m), FiniteSubsetsOf(0 .. m))
    BY FS_StrictSubsetOrderingWellFounded
  <2> HIDE DEF I
  <2> QED  BY <1>1, <2>1, WFMin
<1>3. PICK n \in S : i = 0 .. n
  OBVIOUS
<1>4. ASSUME NEW k \in S, k < n
      PROVE  FALSE
  <2>1. n \in 0 .. n /\ n \notin 0 .. k
    BY <1>4
  <2>2. <<0 .. k, 0 .. n>> \in StrictSubsetOrdering(0 .. m)
    BY <1>4, <2>1 DEF StrictSubsetOrdering
  <2> QED  BY <1>2, <1>3, <2>2
<1> QED  BY <1>4

(* The members of a finite set can be listed, as often as there are members,  *)
(* and such a list has none twice.                                            *)
LEMMA Listed ==
  ASSUME NEW S, IsFiniteSet(S)
  PROVE  /\ Cardinality(S) \in Nat
         /\ \E s \in [1 .. Cardinality(S) -> S] : {s[i] : i \in DOMAIN s} = S
<1>1. Cardinality(S) \in Nat /\ ExistsBijection(1 .. Cardinality(S), S)
  BY FS_CardinalityType
<1>2. PICK s : s \in Bijection(1 .. Cardinality(S), S)
  BY <1>1 DEF ExistsBijection
<1>3. s \in [1 .. Cardinality(S) -> S] /\ {s[i] : i \in DOMAIN s} = S
  BY <1>2 DEF Bijection, Injection, Surjection
<1> QED  BY <1>1, <1>3

(* And with as many places as elements, none is listed twice.                 *)
LEMMA ListedOnce ==
  ASSUME NEW S, IsFiniteSet(S), NEW s \in [1 .. Cardinality(S) -> S],
         {s[i] : i \in DOMAIN s} = S
  PROVE  \A i, j \in DOMAIN s : s[i] = s[j] => i = j
<1>1. Cardinality(S) \in Nat
  BY FS_CardinalityType
<1>2. IsFiniteSet(1 .. Cardinality(S)) /\ Cardinality(1 .. Cardinality(S)) = Cardinality(S)
  BY <1>1, FS_Interval
<1>3. s \in Surjection(1 .. Cardinality(S), S)
  BY DEF Surjection
<1>4. s \in Injection(1 .. Cardinality(S), S)
  BY <1>2, <1>3, FS_SurjSameCardinalityImpliesInj
<1> QED  BY <1>4 DEF Injection, IsInjective

(* What is parsed of the first lines of a block.                              *)
Lines(keys, f) == [i \in DOMAIN keys |-> [name |-> keys[i], value |-> f[keys[i]]]]

Fields(keys, f, n) == [k \in {keys[i] : i \in 1 .. n} |-> f[k]]

NextField(lines, parsed, n) ==
  IF n = 0 THEN EmptyHeaders
  ELSE IF lines[n].name = Plain(Absent) THEN parsed[n - 1]
  ELSE HeaderAppend(parsed[n - 1], lines[n].name, lines[n].value)

Parsed(lines) == CHOOSE p : p = [n \in 0 .. Len(lines) |-> NextField(lines, p, n)]

(* The fields of a block are those of all of its lines.                       *)
LEMMA ParseIsParsed ==
  ASSUME NEW lines
  PROVE  trailerParse(lines) = Parsed(lines)[Len(lines)]
  BY DEF trailerParse, Parsed, NextField

(* A block of lines with different names is parsed as the fields it has.      *)
LEMMA LinesParsed ==
  ASSUME NEW n \in Nat, NEW D, NEW keys \in [1 .. n -> D], NEW f,
         \A i, j \in 1 .. n : keys[i] = keys[j] => i = j,
         \A i \in 1 .. n : keys[i] # Plain(Absent)
  PROVE  trailerParse(Lines(keys, f)) = Fields(keys, f, n)
<1> DEFINE lines == Lines(keys, f)
           w     == [m \in 0 .. n |-> Fields(keys, f, m)]
<1>1. /\ lines \in Seq([name : D, value : {f[k] : k \in D}]) /\ Len(lines) = n
      /\ \A m \in 1 .. n : lines[m].name = keys[m] /\ lines[m].value = f[keys[m]]
  BY DEF Lines
<1> HIDE DEF lines
<1>2. ASSUME NEW m \in 1 .. n
      PROVE  HeaderAppend(Fields(keys, f, m - 1), keys[m], f[keys[m]]) = Fields(keys, f, m)
  <2>1. {keys[i] : i \in 1 .. m} = {keys[i] : i \in 1 .. m - 1} \cup {keys[m]}
    <3>1. \A i \in 1 .. m : i \in 1 .. m - 1 \/ i = m
      OBVIOUS
    <3> QED  BY <3>1
  <2>2. keys[m] \notin {keys[i] : i \in 1 .. m - 1}
    OBVIOUS
  <2> QED  BY <2>1, <2>2 DEF HeaderAppend, HeaderSet, Fields
<1>3. w = [m \in 0 .. n |-> NextField(lines, w, m)]
  <2>1. ASSUME NEW m \in 0 .. n
        PROVE  Fields(keys, f, m) = NextField(lines, w, m)
    <3>1. CASE m = 0
      BY <3>1 DEF Fields, NextField, EmptyHeaders
    <3>2. CASE m # 0
      <4>1. m \in 1 .. n /\ m - 1 \in 0 .. n
        BY <3>2
      <4>2. w[m - 1] = Fields(keys, f, m - 1)
        BY <4>1
      <4> HIDE DEF w
      <4>3. lines[m].name = keys[m] /\ lines[m].value = f[keys[m]] /\ keys[m] # Plain(Absent)
        BY <1>1, <4>1
      <4>4. NextField(lines, w, m) = HeaderAppend(w[m - 1], keys[m], f[keys[m]])
        BY <3>2, <4>3, Zenon DEF NextField
      <4> QED  BY <1>2, <4>1, <4>2, <4>4
    <3> QED  BY <3>1, <3>2
  <2> HIDE DEF lines
  <2>2. w = [m \in 0 .. n |-> Fields(keys, f, m)]
    OBVIOUS
  <2> HIDE DEF w
  <2> QED  BY <2>1, <2>2, Zenon
<1> DEFINE p == Parsed(lines)
<1>4. p = [m \in 0 .. n |-> NextField(lines, p, m)]
  <2>1. Parsed(lines) = CHOOSE q : q = [m \in 0 .. n |-> NextField(lines, q, m)]
    BY <1>1 DEF Parsed
  <2> HIDE DEF lines, w
  <2> QED  BY <1>3, <2>1, Zenon
<1> HIDE DEF p, w
<1> DEFINE T == {m \in 0 .. n : p[m] # Fields(keys, f, m)}
<1>5. T = {}
  <2> SUFFICES ASSUME T # {}
               PROVE  FALSE
    OBVIOUS
  <2>0. T \in SUBSET Nat
    OBVIOUS
  <2>1. PICK m \in T : \A k \in T : m <= k
    BY <2>0, LeastNatural
  <2>2. p[m] = NextField(lines, p, m)
    BY <1>4
  <2>3. CASE m = 0
    <3>1. p[0] = EmptyHeaders
      BY <2>2, <2>3 DEF NextField
    <3>2. Fields(keys, f, 0) = EmptyHeaders
      BY DEF Fields, EmptyHeaders
    <3> QED  BY <2>1, <2>3, <3>1, <3>2
  <2>4. CASE m # 0
    <3>1. m \in 1 .. n /\ m - 1 \in 0 .. n /\ m - 1 \notin T
      BY <2>1, <2>4
    <3>2. p[m - 1] = Fields(keys, f, m - 1)
      BY <3>1
    <3>3. lines[m].name = keys[m] /\ lines[m].value = f[keys[m]] /\ keys[m] # Plain(Absent)
      BY <1>1, <3>1
    <3>4. p[m] = HeaderAppend(p[m - 1], keys[m], f[keys[m]])
      BY <2>2, <2>4, <3>3, Zenon DEF NextField
    <3> QED  BY <1>2, <2>1, <3>1, <3>2, <3>4
  <2> QED  BY <2>3, <2>4
<1>6. p[n] = Fields(keys, f, n)
  BY <1>5
<1> QED  BY <1>1, <1>6, ParseIsParsed DEF p, lines

(* A block keeps the fields.                                                  *)
LEMMA BlockSurvives ==
  ASSUME NEW f, f = [k \in DOMAIN f |-> f[k]], IsFiniteSet(DOMAIN f),
         Plain(Absent) \notin DOMAIN f
  PROVE  trailerParse(trailerSerialize(f)) = f
<1> DEFINE n == Cardinality(DOMAIN f)
           keys == CHOOSE s \in [1 .. n -> DOMAIN f] : {s[i] : i \in DOMAIN s} = DOMAIN f
<1>1. n \in Nat /\ keys \in [1 .. n -> DOMAIN f] /\ {keys[i] : i \in DOMAIN keys} = DOMAIN f
  <2>1. n \in Nat /\ \E s \in [1 .. n -> DOMAIN f] : {s[i] : i \in DOMAIN s} = DOMAIN f
    BY Listed
  <2> HIDE DEF n
  <2> QED  BY <2>1, Zenon
<1>2. \A i, j \in 1 .. n : keys[i] = keys[j] => i = j
  <2> HIDE DEF keys
  <2> QED  BY <1>1, ListedOnce
<1>3. trailerSerialize(f) = Lines(keys, f)
  BY Zenon DEF trailerSerialize, Lines
<1> HIDE DEF keys, n
<1>4. trailerParse(Lines(keys, f)) = Fields(keys, f, n)
  BY <1>1, <1>2, LinesParsed
<1>5. {keys[i] : i \in 1 .. n} = DOMAIN f
  BY <1>1
<1>6. Fields(keys, f, n) = [k \in DOMAIN f |-> f[k]]
  BY <1>5, Zenon DEF Fields
<1> QED  BY <1>3, <1>4, <1>6

-----------------------------------------------------------------------------
(* The fields with a prefix are the trailer again.                            *)
LEMMA MuxSurvives ==
  ASSUME NEW t, Settable(t)
  PROVE  /\ trailerDemux(trailerMux(EmptyHeaders, t))[2] = t
         /\ headerGrpcStatus \notin DOMAIN trailerMux(EmptyHeaders, t)
<1> DEFINE D == DOMAIN t
           m == [k \in {Trailing(x) : x \in D} |-> t[Stripped(k)]]
<1>1. ASSUME NEW k \in D
      PROVE  /\ Stripped(Trailing(k)) = k /\ Trailing(k).prefixes > 0
             /\ Trailing(k).prefixes \in Nat
  <2>1. PICK p, x : k = [prefixes |-> p, name |-> x] /\ p \in Nat
    BY DEF Settable
  <2>2. Trailing(k) = [prefixes |-> p + 1, name |-> x]
    BY <2>1 DEF Trailing
  <2>3. Stripped(Trailing(k)) = [prefixes |-> (p + 1) - 1, name |-> x]
    BY <2>2 DEF Stripped
  <2> QED  BY <2>1, <2>2, <2>3
<1>2. trailerMux(EmptyHeaders, t) = m
  BY DEF trailerMux, SetAll, EmptyHeaders
<1> DEFINE T == {k \in DOMAIN m : k.prefixes > 0}
<1>3. T = {Trailing(x) : x \in D} /\ DOMAIN m = T
  BY <1>1
<1>4. {Stripped(x) : x \in T} = D
  BY <1>1, <1>3
<1>5. ASSUME NEW k \in D
      PROVE  m[Trailing(k)] = t[k]
  BY <1>1
<1>6. trailerDemux(m)[2] = [k \in {Stripped(x) : x \in T} |-> m[Trailing(k)]]
  BY DEF trailerDemux
<1>7. t = [k \in D |-> t[k]]
  BY DEF Settable
<1>8. headerGrpcStatus \notin DOMAIN m
  <2>1. headerGrpcStatus.prefixes = 0
    BY DEF headerGrpcStatus, Plain
  <2> QED  BY <1>3, <2>1
<1> HIDE DEF m, T, D
<1> QED  BY <1>2, <1>4, <1>5, <1>6, <1>7, <1>8

-----------------------------------------------------------------------------
(* What client and server agree on.                                           *)

AskedOurs == AcceptsWhatItSends(peer) /\ \E c \in Calls : call = c.call /\ peer = c.peer

Agreed == /\ negotiateProtocol = 200 /\ handlerStatus = 200 /\ selectedProtocol = peer.protocol
          /\ compression.response \in {Unset} \cup acceptCompression
          /\ compression.response # "identity"
          /\ web => compression.response = Unset

(* Early errors are codes.                                                    *)
LEMMA EarlyErrorsAreCodes == earlyError \in Code \cup {NoCode}
<1>1. InvalidArgument \in Code /\ Unimplemented \in Code
  BY CodesAre DEF InvalidArgument, Unimplemented
<1>2. \A a, r, s : compressionNegotiate(a, r, s).error \in {NoCode, Unimplemented}
  BY DEF compressionNegotiate
<1>3. \A v, m : connectParseTimeout(v, m).error \in {NoCode, InvalidArgument}
  <2> TAKE v, m
  <2>1. CASE v.form = "none"
    BY <2>1 DEF connectParseTimeout, Timeout
  <2> DEFINE bad == v.form = "other" \/ v.n \div 100000 > 99999
  <2>2. CASE v.form # "none" /\ bad
    BY <2>2, SMT DEF connectParseTimeout, Timeout
  <2>3. CASE v.form # "none" /\ ~bad
    BY <2>3, SMT DEF connectParseTimeout, Timeout
  <2> QED  BY <2>1, <2>2, <2>3
<1>4. \A v, m : grpcParseTimeout(v, m).error \in {NoCode, InvalidArgument}
  <2> TAKE v, m
  <2> DEFINE bad == \/ v.form = "other" \/ v.n > 99999999
                    \/ v.unit \notin DOMAIN unitToMultiplicand
  <2>1. CASE v.form = "none"
    BY <2>1 DEF grpcParseTimeout, Timeout
  <2>2. CASE v.form # "none" /\ bad
    BY <2>2, SMT DEF grpcParseTimeout, Timeout
  <2>3. CASE v.form # "none" /\ ~bad
    BY <2>3, SMT DEF grpcParseTimeout, Timeout
  <2> QED  BY <2>1, <2>2, <2>3
<1>5. compression.error \in {NoCode, Unimplemented} /\ parsedTimeout.error \in {NoCode, InvalidArgument}
  BY <1>2, <1>3, <1>4 DEF compression, parsedTimeout
<1> QED  BY <1>1, <1>5 DEF earlyError, connectEarlyError, grpcEarlyError

(* The header of a call of ours.                                              *)
HeaderShape(h) == h = [f \in {"type", "timeout", "version", "encoding", "accept"} |-> h[f]]

TypeOf(protocol, kind, binary) ==
  CASE protocol = "connect" -> IF kind = Unary
                               THEN IF binary THEN "application/proto" ELSE "application/json"
                               ELSE IF binary THEN "application/connect+proto"
                                              ELSE "application/connect+json"
    [] protocol = "grpc"    -> IF binary THEN "application/grpc+proto" ELSE "application/grpc+json"
    [] OTHER -> IF binary THEN "application/grpc-web+proto" ELSE "application/grpc-web+json"

(* A transport sets the type of its protocol, and what it accepts and sends.   *)
LEMMA AskedFields ==
  ASSUME NEW kind, NEW p, NEW large, IsTransport(p)
  PROVE  LET h == askedHeader(kind, p, large)
         IN  /\ HeaderShape(h) /\ h.type = TypeOf(p.protocol, kind, p.binary)
             /\ h.encoding \in {Unset, p.send} /\ h.accept = p.accept
<1> DEFINE timeout == IF p.timeout = << >> THEN NoTimeoutHeader
                      ELSE WriteTimeout(p.timeout[1], IF p.protocol = "connect" THEN "" ELSE "m")
           header  == CASE p.protocol = "connect" -> connectRequestHeader(kind, p.binary, timeout)
                        [] p.protocol = "grpc"    -> grpcRequestHeader(p.binary, timeout)
                        [] OTHER                  -> grpcWebRequestHeader(p.binary, timeout)
<1>0. p.protocol \in {"grpc", "grpc-web", "connect"}
  BY DEF IsTransport, Protocols
<1>1. /\ HeaderShape(header) /\ header.type = TypeOf(p.protocol, kind, p.binary)
      /\ header.encoding = Unset /\ header.accept = << >>
  <2> HIDE DEF timeout
  <2>1. CASE p.protocol = "connect"
    BY <2>1 DEF HeaderShape, TypeOf, connectRequestHeader
  <2>2. CASE p.protocol = "grpc"
    BY <2>2 DEF HeaderShape, TypeOf, grpcRequestHeader
  <2>3. CASE p.protocol = "grpc-web"
    BY <2>3 DEF HeaderShape, TypeOf, grpcRequestHeader, grpcWebRequestHeader
  <2> QED  BY <1>0, <2>1, <2>2, <2>3
<1>2. requestHeader(p.protocol, kind, p)
        = IF p.flavour = "web" THEN header ELSE requestHeaderWithCompression(header, p.accept, p.send)
  BY DEF requestHeader
<1> HIDE DEF header
<1> DEFINE h == requestHeader(p.protocol, kind, p)
<1>3. /\ HeaderShape(h) /\ h.type = TypeOf(p.protocol, kind, p.binary)
      /\ h.encoding \in {Unset, p.send} /\ h.accept = p.accept
  BY <1>1, <1>2 DEF HeaderShape, requestHeaderWithCompression, IsTransport
<1>4. askedHeader(kind, p, large) \in {h, [h EXCEPT !.encoding = Unset]}
  BY DEF askedHeader, unaryEncoding
<1> HIDE DEF h
<1>5. LET x == [h EXCEPT !.encoding = Unset]
      IN  HeaderShape(x) /\ x.type = h.type /\ x.encoding = Unset /\ x.accept = h.accept
  BY <1>3 DEF HeaderShape
<1> QED  BY <1>3, <1>4, <1>5

(* A call is a POST with the type of its protocol, or a GET of a Connect      *)
(* unary method.                                                              *)
Posts == /\ call.method = "POST"
         /\ call.header.type = TypeOf(peer.protocol, call.kind, peer.binary)
         /\ call.header.encoding \in {Unset, peer.send} /\ call.header.accept = peer.accept

Gets == /\ call.method = "GET" /\ peer.protocol = "connect" /\ call.kind = Unary
        /\ call.noSideEffects /\ call.header.type = Unset /\ call.header.accept = << >>
        /\ call.query.encoding \in {"proto", "json"}
        /\ call.query.compression \in {Unset, peer.send}

(* A call of ours is made by POST, or by GET for a unary call of Connect.     *)
LEMMA CallsArePosts ==
  ASSUME AskedOurs
  PROVE  /\ IsTransport(peer) /\ peer.send \in {Unset} \cup acceptCompression
         /\ call.kind \in MethodKind /\ (call.kind = BiDiStreaming => ~call.http1)
         /\ call.serverAccept \cap {Unset, "identity"} = {} /\ call.large \in BOOLEAN
         /\ web => call.kind \in {Unary, ServerStreaming}
         /\ Posts \/ Gets
<1>1. PICK c \in Calls : call = c.call /\ peer = c.peer
  BY DEF AskedOurs
<1>2. /\ IsTransport(peer) /\ Makes(peer, call) /\ call.large \in BOOLEAN
      /\ call.serverAccept \cap {Unset, "identity"} = {} /\ peer.send \in {Unset} \cup Names(peer)
  BY <1>1, CallsAssumption DEF AskedOurs, AcceptsWhatItSends
<1>3. Names(peer) = acceptCompression
  BY DEF Names, acceptCompression
<1> DEFINE h == askedHeader(call.kind, peer, call.large)
           g == transformConnectPostToGetRequest(h)
<1>4. /\ HeaderShape(h) /\ h.type = TypeOf(peer.protocol, call.kind, peer.binary)
      /\ h.encoding \in {Unset, peer.send} /\ h.accept = peer.accept
  BY <1>2, AskedFields
<1>5. /\ call.kind \in IF peer.flavour = "web" THEN {Unary, ServerStreaming} ELSE MethodKind
      /\ call.kind = BiDiStreaming => ~call.http1
      /\ \/ call.method = "POST" /\ call.header = h /\ call.query = NoQuery
         \/ /\ call.method = "GET" /\ peer.protocol = "connect" /\ call.kind = Unary
            /\ call.noSideEffects /\ call.header = g.header /\ call.query = g.query
  BY <1>2, Zenon DEF Makes
<1> HIDE DEF h
<1>6. CASE call.method = "GET"
  <2>1. h.type \in {"application/proto", "application/json"}
    BY <1>4, <1>5, <1>6 DEF TypeOf
  <2>2. /\ g.header.type = Unset /\ g.header.accept = << >>
        /\ g.query.encoding \in {"proto", "json"}
        /\ g.query.compression \in {Unset, h.encoding}
    BY <1>4, <2>1 DEF HeaderShape, transformConnectPostToGetRequest
  <2> HIDE DEF g
  <2>3. Gets
    BY <1>4, <1>5, <1>6, <2>2 DEF Gets
  <2> QED  BY <1>2, <1>3, <1>5, <2>3 DEF web, MethodKind
<1>7. CASE call.method # "GET"
  <2>1. Posts
    BY <1>4, <1>5, <1>7 DEF Posts
  <2> QED  BY <1>2, <1>3, <1>5, <2>1 DEF web, MethodKind
<1> QED  BY <1>6, <1>7

(* No type belongs to two protocols.                                          *)
LEMMA TypesMatch ==
  ASSUME NEW protocol \in Protocols, NEW kind, NEW binary, NEW p \in Protocols
  PROVE  LET type == TypeOf(protocol, kind, binary)
         IN  /\ type \notin {"", Unset}
             /\ type \in supportedContentType(kind, p) <=> p = protocol
<1>1. protocol \in {"grpc", "grpc-web", "connect"} /\ p \in {"grpc", "grpc-web", "connect"}
  BY DEF Protocols
<1>0. /\ supportedContentType(kind, "grpc") = grpcRegExp
      /\ supportedContentType(kind, "grpc-web") = grpcWebRegExp
      /\ supportedContentType(kind, "connect")
           = IF kind = Unary THEN contentTypeUnaryRegExp ELSE contentTypeStreamRegExp
  BY DEF supportedContentType
<1> DEFINE type == TypeOf(protocol, kind, binary)
<1>2. CASE protocol = "connect"
  <2>1. type \in IF kind = Unary THEN {"application/proto", "application/json"}
                 ELSE {"application/connect+proto", "application/connect+json"}
    BY <1>2 DEF TypeOf
  <2> QED  BY <1>1, <1>2, <1>0, <2>1
           DEF contentTypeUnaryRegExp, contentTypeStreamRegExp, grpcRegExp,
               grpcWebRegExp, Unset
<1>3. CASE protocol = "grpc"
  <2>1. type \in {"application/grpc+proto", "application/grpc+json"}
    BY <1>3 DEF TypeOf
  <2> QED  BY <1>1, <1>3, <1>0, <2>1
           DEF contentTypeUnaryRegExp, contentTypeStreamRegExp, grpcRegExp,
               grpcWebRegExp, Unset
<1>4. CASE protocol = "grpc-web"
  <2>1. type \in {"application/grpc-web+proto", "application/grpc-web+json"}
    BY <1>4 DEF TypeOf
  <2> QED  BY <1>1, <1>4, <1>0, <2>1
           DEF contentTypeUnaryRegExp, contentTypeStreamRegExp, grpcRegExp,
               grpcWebRegExp, Unset
<1> QED  BY <1>1, <1>2, <1>3, <1>4

(* The server answers in an encoding the client knows, or in none.            *)
LEMMA EncodingIsAgreed ==
  ASSUME AskedOurs
  PROVE  /\ compression.response \in {Unset} \cup acceptCompression
         /\ compression.response # "identity"
         /\ web => compression.response = Unset
<1> DEFINE available == call.serverAccept
           requested == IF isGet THEN call.query.compression ELSE call.header.encoding
           accepted  == call.header.accept
           request   == IF requested \in available THEN requested ELSE Unset
           usable    == {i \in DOMAIN accepted : accepted[i] \in available}
           first     == CHOOSE i \in usable : \A j \in usable : i <= j
<1>1. /\ IsTransport(peer) /\ peer.send \in {Unset} \cup acceptCompression
      /\ available \cap {Unset, "identity"} = {}
      /\ Posts \/ Gets
  BY CallsArePosts
<1>2. requested \in {Unset, peer.send} /\ accepted \in {<< >>, peer.accept}
  BY <1>1 DEF Posts, Gets, isGet
<1>3. compression.response = CASE accepted = << >> -> request
                              [] accepted # << >> /\ usable # {} -> accepted[first]
                              [] OTHER -> Unset
  BY DEF compression, compressionNegotiate
<1>4. CASE accepted = << >>
  <2>1. compression.response = request
    BY <1>3, <1>4
  <2>2. request \in {Unset, peer.send} /\ request # "identity"
    <3> HIDE DEF requested, available
    <3>1. Unset # "identity"
      BY DEF Unset
    <3> QED  BY <1>1, <1>2, <3>1
  <2>3. web => peer.send = Unset
    BY <1>1 DEF IsTransport, web
  <2> HIDE DEF request
  <2> QED  BY <1>1, <2>1, <2>2, <2>3
<1>5. CASE accepted # << >> /\ usable = {}
  BY <1>3, <1>5 DEF Unset
<1>6. CASE accepted # << >> /\ usable # {}
  <2>1. accepted = peer.accept /\ ~web /\ peer.accept \in Seq(acceptCompression)
    BY <1>1, <1>2, <1>6 DEF IsTransport, web, Names, acceptCompression
  <2>2. usable \subseteq DOMAIN peer.accept /\ usable \in SUBSET Nat
    BY <2>1
  <2> HIDE DEF usable
  <2>3. first \in usable
    BY <1>6, <2>2, LeastNatural
  <2>4. accepted[first] \in available /\ first \in DOMAIN peer.accept
    BY <2>2, <2>3 DEF usable
  <2> HIDE DEF first
  <2>5. compression.response = accepted[first]
    BY <1>3, <1>6
  <2>6. peer.accept[first] \in acceptCompression
    BY <2>4 DEF acceptCompression
  <2>7. accepted[first] \in acceptCompression /\ accepted[first] # "identity"
    BY <1>1, <2>1, <2>4, <2>6
  <2> QED  BY <2>1, <2>5, <2>7
<1> QED  BY <1>4, <1>5, <1>6

(* The handler of the client's protocol takes the request.                    *)
LEMMA Agreement ==
  ASSUME AskedOurs
  PROVE  Agreed
<1>1. /\ IsTransport(peer) /\ call.kind \in MethodKind
      /\ (call.kind = BiDiStreaming => ~call.http1)
      /\ Posts \/ Gets
  BY CallsArePosts
<1>2. peer.protocol \in {"grpc", "grpc-web", "connect"} /\ peer.protocol \in Protocols
  BY <1>1 DEF IsTransport, Protocols
<1>3. /\ negotiateProtocol = 200 /\ selectedProtocol = peer.protocol
      /\ handlerStatus = 200
  <2>1. CASE Posts
    <3>1. matchingMethod(call) = Protocols
      BY <2>1 DEF Posts, matchingMethod, allowedMethods
    <3>0. \A p \in Protocols :
            /\ call.header.type \notin {"", Unset}
            /\ call.header.type \in supportedContentType(call.kind, p) <=> p = peer.protocol
      <4>1. \A p \in Protocols :
              LET type == TypeOf(peer.protocol, call.kind, peer.binary)
              IN  /\ type \notin {"", Unset}
                  /\ type \in supportedContentType(call.kind, p) <=> p = peer.protocol
        BY <1>2, TypesMatch
      <4> QED  BY <2>1, <4>1 DEF Posts
    <3>2. call.header.type \notin {"", Unset}
      BY <1>2, <3>0
    <3>3. ~onlyMatch(call)
      BY <3>2 DEF onlyMatch
    <3>4. \A p \in Protocols : matches(call, p) <=> p = peer.protocol
      BY <3>0 DEF matches, contentTypeMatcher
    <3>5. negotiateProtocol = 200
      <4>1. /\ ~(call.kind = BiDiStreaming /\ call.http1) /\ matchingMethod(call) # {}
            /\ \E p \in matchingMethod(call) : matches(call, p)
        <5>1. ~(call.kind = BiDiStreaming /\ call.http1)
          BY <1>1, Zenon
        <5> QED  BY <1>2, <3>1, <3>4, <5>1
      <4> QED  BY <3>3, <4>1 DEF negotiateProtocol
    <3>6. selectedProtocol = peer.protocol
      BY <1>2, <3>1, <3>3, <3>4 DEF selectedProtocol, firstMatch
    <3>7. ~isGet
      BY <2>1 DEF Posts, isGet
    <3>8. handlerStatus = 200
      <4>1. CASE unaryHandler
        <5>1. call.header.type \in {"application/proto", "application/json"}
          BY <2>1, <3>6, <4>1 DEF Posts, TypeOf, unaryHandler
        <5>2. requestType # << >> /\ ~requestType[1].stream
          BY <3>7, <4>1, <5>1
             DEF requestType, unaryHandler, connectParseContentType, contentTypeUnaryRegExp,
                 contentTypeStreamRegExp
        <5> QED  BY <3>7, <4>1, <5>2 DEF handlerStatus, connectUnaryStatus, unaryHandler
      <4>2. CASE ~unaryHandler /\ selectedProtocol = "connect"
        <5>1. call.header.type \in {"application/connect+proto", "application/connect+json"}
          BY <2>1, <3>6, <4>2 DEF Posts, TypeOf, unaryHandler
        <5>2. requestType # << >> /\ requestType[1].stream
          BY <3>7, <4>2, <5>1
             DEF requestType, unaryHandler, connectParseContentType, contentTypeUnaryRegExp,
                 contentTypeStreamRegExp
        <5> QED  BY <2>1, <4>2, <5>2 DEF Posts, handlerStatus, connectStreamStatus
      <4>3. CASE selectedProtocol = "grpc"
        <5>1. call.header.type \in {"application/grpc+proto", "application/grpc+json"}
          BY <2>1, <3>6, <4>3 DEF Posts, TypeOf
        <5>2. requestType # << >>
          BY <4>3, <5>1 DEF requestType, grpcParseContentType, grpcRegExp
        <5> QED  BY <2>1, <4>3, <5>2 DEF Posts, handlerStatus, grpcStatus, unaryHandler
      <4>4. CASE selectedProtocol = "grpc-web"
        <5>1. call.header.type \in {"application/grpc-web+proto", "application/grpc-web+json"}
          BY <2>1, <3>6, <4>4 DEF Posts, TypeOf
        <5>2. requestType # << >> /\ ~requestType[1].text
          BY <4>4, <5>1 DEF requestType, grpcWebParseContentType, grpcWebRegExp
        <5> QED  BY <2>1, <4>4, <5>2 DEF Posts, handlerStatus, grpcWebStatus, unaryHandler
      <4> QED  BY <1>2, <3>6, <4>1, <4>2, <4>3, <4>4
    <3> QED  BY <3>5, <3>6, <3>8
  <2>2. CASE Gets
    <3>1. matchingMethod(call) = {"connect"}
      BY <2>2 DEF Gets, matchingMethod, allowedMethods, Protocols
    <3>2. onlyMatch(call)
      BY <2>2, <3>1, FS_Singleton DEF Gets, onlyMatch
    <3>3. negotiateProtocol = 200
      <4>1. ~(call.kind = BiDiStreaming /\ call.http1)
        BY <1>1, Zenon
      <4> QED  BY <3>1, <3>2, <4>1 DEF negotiateProtocol
    <3>4. selectedProtocol = "connect"
      BY <3>1 DEF selectedProtocol, firstMatch
    <3>5. isGet /\ unaryHandler
      BY <2>2, <3>4 DEF Gets, isGet, unaryHandler
    <3>6. requestType # << >> /\ ~requestType[1].stream
      BY <2>2, <3>4, <3>5 DEF Gets, requestType, parseEncodingQuery
    <3> QED  BY <2>2, <3>3, <3>4, <3>5, <3>6 DEF Gets, handlerStatus, connectUnaryStatus
  <2> QED  BY <1>1, <2>1, <2>2
<1> QED  BY <1>3, EncodingIsAgreed DEF Agreed

-----------------------------------------------------------------------------
(* What a step of the server writes: nothing, a message, or the end of the    *)
(* response.                                                                  *)

(* Methods whose implementation returns its only message.                     *)
OneReply == call.kind \in {Unary, ClientStreaming}

(* A handler counts what it wrote, and completes once: a method with one reply *)
(* writes it when its implementation returns, and succeeds only with it.      *)
OutputInv ==
  srv.pc # "none" =>
    /\ srv.out \in Nat /\ Settable(srv.trailer)
    /\ srv.fin # << >> => srv.fin = <<srv.fin[1]>> /\ Told(srv.fin[1])
    /\ srv.pc \in {"start", "refused", "body", "first", "impl", "drain", "drained", "done", "gone"}
    /\ srv.pc = "done" <=> srv.fin # << >>
    /\ OneReply => /\ srv.pc \in {"start", "body", "first", "impl"} => srv.out = 0
                   /\ srv.pc \in {"drain", "drained"} => srv.out = 1
                   /\ srv.out <= 1
                   /\ srv.fin = << << >> >> => srv.out = 1

TrailerKept == srv'.trailer = srv.trailer \/ Settable(srv'.trailer)

Quiet ==
  /\ down' = down /\ srv'.out = srv.out /\ srv'.fin = srv.fin /\ TrailerKept
  /\ \/ srv'.pc = srv.pc \/ srv'.pc = "gone"
     \/ srv.pc \in {"start", "body", "first"} /\ srv'.pc \in {"body", "first", "impl"}
     \/ srv'.pc = "drain" /\ ~OneReply

Emits ==
  /\ streamHandler /\ srv.pc = "impl" /\ srv'.fin = srv.fin /\ TrailerKept
  /\ srv'.out = srv.out + 1 /\ down' = Written(<<Envelope(srv'.out, Compressed)>>)
  /\ srv'.pc \in IF OneReply THEN {"drain", "drained"} ELSE {"impl"}

Finishing(error, t) ==
  /\ Told(error) /\ Settable(t) /\ srv'.pc = "done" /\ srv'.fin = <<error>> /\ srv'.trailer = t
  /\ srv'.out \in {srv.out, srv.out + 1} /\ (streamHandler => srv'.out = srv.out)
  /\ OneReply => srv'.out <= 1 /\ (error = << >> => srv'.out = 1)
  /\ down' = IF streamHandler THEN Ended(error, t) ELSE UnaryEnded(error, 1, t)

Finishes == \E error, t : Finishing(error, t)

Refuses ==
  /\ srv.pc = "start" /\ srv'.pc = "refused" /\ srv'.out = srv.out /\ srv'.fin = srv.fin
  /\ srv'.trailer = srv.trailer
  /\ negotiateProtocol # 200 \/ handlerStatus # 200

(* The errors of the handlers can be told to a client.                        *)
LEMMA ErrorsAreTold ==
  /\ Settable(EmptyHeaders)
  /\ Told(<< >>)
  /\ \A code \in Code : Told(ProtocolError(code))
  /\ \A e \in ImplErrors : Told(Sent(e))
  /\ \A t \in ImplTrailers : Settable(t)
<1>1. Settable(EmptyHeaders)
  BY FS_EmptySet DEF Settable, EmptyHeaders
<1>2. ASSUME NEW c \in Code, NEW m, m \notin {Absent, "other"}
      PROVE  LET e == Error(c, m, << >>, EmptyHeaders)
             IN  Sendable(e) /\ Told(<<e>>)
  <2> DEFINE e == Error(c, m, << >>, EmptyHeaders)
  <2>1. e.code = c /\ e.message = m /\ e.details = << >>
    BY DEF Error
  <2> HIDE DEF e
  <2>2. Sendable(e)
    BY <1>2, <2>1 DEF Sendable
  <2> QED  BY <2>2 DEF Told, e
<1>3. \A code \in Code : Told(ProtocolError(code))
  <2>1. "protocol error" \notin {Absent, "other"}
    BY DEF Absent
  <2> QED  BY <1>2, <2>1 DEF ProtocolError
<1>4. \A e \in ImplErrors : Told(Sent(e))
  <2> TAKE e \in ImplErrors
  <2>1. "internal error" \notin {Absent, "other"} /\ Internal \in Code
    BY CodesAre DEF Absent, Internal
  <2>2. CASE e = << >>
    BY <1>2, <2>1, <2>2 DEF Sent
  <2>3. CASE e # << >>
    BY <2>3, ErrorsAssumption DEF Sent, Told
  <2> QED  BY <2>2, <2>3
<1> QED  BY <1>1, <1>3, <1>4, TrailersAssumption DEF Told

(* The pipeline of a request raises codes.                                    *)
LEMMA InputErrorsAreCodes == NextInput.is = "error" => NextInput.code \in Code
<1>1. InvalidArgument \in Code /\ Aborted \in Code
  BY CodesAre DEF InvalidArgument, Aborted
<1>2. \A c : InputError(c).code = c
  BY DEF InputError
<1>3. CASE srv.inputClosed
  BY <1>3 DEF NextInput, InputDone
<1>4. CASE ~srv.inputClosed /\ earlyError # NoCode
  BY <1>2, <1>4, EarlyErrorsAreCodes DEF NextInput
<1>5. CASE ~srv.inputClosed /\ earlyError = NoCode /\ More
  <2>1. NextInput = IF Readable(Envelop) THEN Message(Envelop.msg) ELSE InputError(InvalidArgument)
    BY <1>5 DEF NextInput
  <2> QED  BY <1>1, <1>2, <2>1 DEF Message
<1>6. CASE ~srv.inputClosed /\ earlyError = NoCode /\ ~More
  <2>1. NextInput = CASE up.end = "end"     -> InputDone
                      [] up.end = "partial" -> InputError(InvalidArgument)
                      [] OTHER              -> InputError(Aborted)
    BY <1>6 DEF NextInput
  <2> QED  BY <1>1, <1>2, <2>1 DEF InputDone
<1> QED  BY <1>3, <1>4, <1>5, <1>6

(* Complete() finishes a response.                                            *)
LEMMA CompleteFinishes ==
  ASSUME NEW s, SrvShape(s), NEW error, NEW t, Complete(s, error, t), Told(error), Settable(t),
         s.out \in {srv.out, srv.out + 1}, streamHandler => s.out = srv.out,
         OneReply => s.out <= 1 /\ (error = << >> => s.out = 1)
  PROVE  Finishes
<1>1. srv'.trailer = t
  BY DEF Complete, SrvShape
<1>2. Finishing(error, t)
  BY <1>1, CompleteFields DEF Finishing
<1> QED  BY <1>2, Zenon DEF Finishes

(* The handler is selected, or the request is refused.                        *)
LEMMA SelectMoves ==
  ASSUME SrvShape(srv), Select
  PROVE  Quiet \/ Refuses
<1> DEFINE status == IF negotiateProtocol # 200 THEN negotiateProtocol ELSE handlerStatus
<1>1. srv.pc = "start"
  BY Zenon DEF Select
<1>2. CASE status # 200
  <2>1. srv' = [srv EXCEPT !.pc = "refused"]
    BY <1>2, Zenon DEF Select
  <2> QED  BY <1>1, <1>2, <2>1 DEF SrvShape, Refuses
<1>3. CASE status = 200
  <2> DEFINE pc == CASE ~streamHandler -> "body"
                     [] streamHandler /\ call.kind \in {Unary, ServerStreaming} -> "first"
                     [] OTHER -> "impl"
             n  == IF streamHandler /\ call.kind \notin {Unary, ServerStreaming} THEN 1 ELSE 0
  <2>1. srv' = [srv EXCEPT !.pc = pc, !.invoked = n] /\ down' = down
    BY <1>3, Zenon DEF Select
  <2>2. pc \in {"body", "first", "impl"}
    OBVIOUS
  <2> HIDE DEF pc, n
  <2>3. srv'.trailer = srv.trailer /\ srv'.pc = pc /\ srv'.out = srv.out /\ srv'.fin = srv.fin
    BY <2>1 DEF SrvShape
  <2> QED  BY <1>1, <2>1, <2>2, <2>3 DEF Quiet, TrailerKept
<1> QED  BY <1>2, <1>3

(* The steps before the implementation is called.                             *)
LEMMA InputMoves ==
  ASSUME SrvShape(srv), OutputInv, srv.pc # "none",
         SkipEnd \/ ReadUnaryMessage \/ FirstInput \/ ImplRead
  PROVE  Quiet \/ Finishes
<1>0. \A pc \in {"body", "first"} : srv.pc = pc => (OneReply => srv.out <= 1)
  BY DEF OutputInv
<1>1. CASE SkipEnd
  <2>1. srv'.trailer = srv.trailer
    BY <1>1 DEF SkipEnd, SrvShape
  <2> QED  BY <1>1, <2>1, SkipEndFields DEF Quiet, TrailerKept
<1>2. CASE ImplRead
  <2>1. srv' = [Pulled(NextInput) EXCEPT
                  !.got = IF NextInput.is = "message" THEN Append(@, NextInput.msg) ELSE @]
    BY <1>2, Zenon DEF ImplRead
  <2>2. SrvShape(Pulled(NextInput)) /\ Pulled(NextInput).trailer = srv.trailer
    BY PulledFields
  <2>3. srv'.trailer = srv.trailer
    BY <2>1, <2>2 DEF SrvShape
  <2> QED  BY <1>2, <2>3, ImplReadFields DEF Quiet, TrailerKept
<1>3. CASE ReadUnaryMessage
  <2>1. srv.pc = "body"
    BY <1>3, Zenon DEF ReadUnaryMessage
  <2>2. CASE \/ earlyError # NoCode \/ up.end = "cut" \/ up.end = "partial"
             \/ Len(up.frames) # 1 \/ ~Intact(up.frames[1])
    <3>0. \/ earlyError # NoCode /\ Complete(srv, ProtocolError(earlyError), EmptyHeaders)
          \/ Complete(srv, ProtocolError(Aborted), EmptyHeaders)
          \/ Complete(srv, ProtocolError(InvalidArgument), EmptyHeaders)
      BY <1>3, <2>2, Zenon DEF ReadUnaryMessage
    <3>1. PICK code : code \in Code /\ Complete(srv, ProtocolError(code), EmptyHeaders)
      BY <3>0, EarlyErrorsAreCodes, CodesAre DEF Aborted, InvalidArgument
    <3>2. code \in Code
      BY <3>1
    <3>3. Told(ProtocolError(code)) /\ Settable(EmptyHeaders) /\ ProtocolError(code) # << >>
      BY <3>2, ErrorsAreTold, CodesAreErrors
    <3> QED  BY <2>1, <3>1, <3>3, CompleteFinishes DEF OutputInv
  <2>3. CASE /\ earlyError = NoCode /\ up.end # "cut" /\ up.end # "partial"
             /\ Len(up.frames) = 1 /\ Intact(up.frames[1])
    <3>1. /\ srv' = [srv EXCEPT !.pc = "impl", !.taken = 1, !.got = <<up.frames[1].msg>>,
                                !.invoked = 1]
          /\ down' = down
      BY <1>3, <2>3, Zenon DEF ReadUnaryMessage
    <3> QED  BY <2>1, <3>1 DEF SrvShape, Quiet, TrailerKept
  <2> QED  BY <2>2, <2>3
<1>4. CASE FirstInput
  <2> DEFINE s == Pulled(NextInput)
  <2>1. srv.pc = "first"
    BY <1>4, Zenon DEF FirstInput
  <2>2. /\ SrvShape(s) /\ s.pc = srv.pc /\ s.out = srv.out /\ s.fin = srv.fin
        /\ s.trailer = srv.trailer
    BY PulledFields
  <2>3. CASE NextInput.is = "message"
    <3>1. /\ srv' = [s EXCEPT !.pc = "impl", !.got = <<NextInput.msg>>, !.invoked = 1]
          /\ down' = down
      BY <1>4, <2>3, Zenon DEF FirstInput
    <3> HIDE DEF s
    <3>2. /\ srv'.pc = "impl" /\ srv'.out = s.out /\ srv'.fin = s.fin /\ srv'.trailer = s.trailer
      BY <2>2, <3>1 DEF SrvShape
    <3> QED  BY <2>1, <2>2, <3>1, <3>2 DEF Quiet, TrailerKept
  <2>4. CASE NextInput.is # "message"
    <3> DEFINE code == IF NextInput.is = "error" THEN NextInput.code ELSE InvalidArgument
    <3>1. Complete(s, ProtocolError(code), EmptyHeaders)
      BY <1>4, <2>4, Zenon DEF FirstInput
    <3>2. code \in Code
      BY InputErrorsAreCodes, CodesAre DEF InvalidArgument
    <3> HIDE DEF s, code
    <3>3. Told(ProtocolError(code)) /\ Settable(EmptyHeaders) /\ ProtocolError(code) # << >>
      BY <3>2, ErrorsAreTold, CodesAreErrors
    <3>4. OneReply => srv.out <= 1
      BY <1>0, <2>1
    <3> QED  BY <2>1, <2>2, <3>1, <3>3, <3>4, CompleteFinishes DEF OutputInv
  <2> QED  BY <2>3, <2>4
<1> QED  BY <1>1, <1>2, <1>3, <1>4

(* The steps of the implementation.                                           *)
LEMMA ImplMoves ==
  ASSUME SrvShape(srv), OutputInv, srv.pc # "none",
         (streamHandler /\ ImplYield) \/ ImplReturn \/ ImplThrow
  PROVE  Quiet \/ Emits \/ Finishes
<1>1. /\ srv.pc = "impl" => srv.out \in Nat /\ (OneReply => srv.out = 0)
      /\ unaryHandler => OneReply
  BY DEF OutputInv, unaryHandler, OneReply
<1>2. CASE streamHandler /\ ImplYield
  <2>1. srv'.trailer = srv.trailer
    BY <1>2 DEF ImplYield, SrvShape
  <2>2. ~OneReply
    BY <1>2 DEF ImplYield, OneReply, Unary, ClientStreaming, ServerStreaming, BiDiStreaming
  <2> QED  BY <1>2, <2>1, <2>2, ImplYieldFields DEF Emits, TrailerKept
<1>3. CASE ImplThrow
  <2>1. PICK e \in ImplErrors, t \in ImplTrailers : Complete(srv, Sent(e), t)
    BY <1>3, Zenon DEF ImplThrow
  <2>2. srv.pc = "impl"
    BY <1>3, Zenon DEF ImplThrow
  <2>3. Told(Sent(e)) /\ Settable(t) /\ Sent(e) # << >>
    BY ErrorsAreTold, CodesAreErrors
  <2> QED  BY <1>1, <2>1, <2>2, <2>3, CompleteFinishes
<1>4. CASE ImplReturn
  <2>1. PICK t \in ImplTrailers :
        LET one == call.kind \in {Unary, ClientStreaming}
            s   == IF one THEN [srv EXCEPT !.out = 1] ELSE srv
        IN  IF call.kind = BiDiStreaming \/ ~streamHandler THEN Complete(s, << >>, t)
            ELSE /\ srv' = [s EXCEPT !.pc = IF call.kind = ClientStreaming THEN "drained"
                                            ELSE "drain", !.trailer = t]
                 /\ down' = IF one THEN Written(<<Envelope(1, Compressed)>>) ELSE down
                 /\ UNCHANGED <<call, up>>
    BY <1>4, Zenon DEF ImplReturn
  <2> DEFINE s == IF OneReply THEN [srv EXCEPT !.out = 1] ELSE srv
  <2>2. srv.pc = "impl"
    BY <1>4, Zenon DEF ImplReturn
  <2>3. /\ SrvShape(s) /\ s.fin = srv.fin /\ s.trailer = srv.trailer
        /\ s.out = IF OneReply THEN 1 ELSE srv.out
    BY DEF SrvShape
  <2>4. Settable(t) /\ Told(<< >>)
    BY ErrorsAreTold
  <2>5. CASE call.kind = BiDiStreaming \/ ~streamHandler
    <3>1. Complete(s, << >>, t)
      BY <2>1, <2>5 DEF OneReply
    <3>2. streamHandler => ~OneReply
      BY <2>5 DEF OneReply, Unary, ClientStreaming, BiDiStreaming
    <3> HIDE DEF s
    <3> QED  BY <1>1, <2>2, <2>3, <2>4, <3>1, <3>2, CompleteFinishes
  <2>6. CASE ~(call.kind = BiDiStreaming \/ ~streamHandler)
    <3> DEFINE pc == IF call.kind = ClientStreaming THEN "drained" ELSE "drain"
    <3>1. /\ srv' = [s EXCEPT !.pc = pc, !.trailer = t]
          /\ down' = IF OneReply THEN Written(<<Envelope(1, Compressed)>>) ELSE down
      BY <2>1, <2>6 DEF OneReply
    <3>2. pc \in {"drain", "drained"} /\ (~OneReply => pc = "drain")
      BY DEF OneReply
    <3> HIDE DEF s, pc
    <3>3. srv'.pc = pc /\ srv'.fin = s.fin /\ srv'.out = s.out /\ srv'.trailer = t
      BY <2>3, <3>1 DEF SrvShape
    <3> QED  BY <1>1, <2>2, <2>3, <2>4, <2>6, <3>1, <3>2, <3>3 DEF Emits, Quiet, TrailerKept
  <2> QED  BY <2>5, <2>6
<1> QED  BY <1>2, <1>3, <1>4

(* The steps after the implementation returned.                               *)
LEMMA DrainMoves ==
  ASSUME SrvShape(srv), OutputInv, srv.pc # "none", Drain \/ Drained
  PROVE  Finishes
<1>1. srv.pc \in {"drain", "drained"} => /\ srv.out \in Nat /\ (OneReply => srv.out = 1)
                                         /\ Settable(srv.trailer)
  BY DEF OutputInv
<1>2. CASE Drain
  <2> DEFINE error == CASE NextInput.is = "done"    -> << >>
                        [] NextInput.is = "message" -> ProtocolError(InvalidArgument)
                        [] OTHER                    -> ProtocolError(NextInput.code)
  <2>1. srv.pc = "drain" /\ Complete(Pulled(NextInput), error, srv.trailer)
    BY <1>2, Zenon DEF Drain
  <2>2. NextInput.is \in {"message", "done", "error"}
    BY NextInputIs
  <2>3. Told(error)
    <3>1. InvalidArgument \in Code
      BY CodesAre DEF InvalidArgument
    <3>2. CASE NextInput.is = "done"
      BY <3>2, ErrorsAreTold
    <3>3. CASE NextInput.is = "message"
      BY <3>1, <3>3, ErrorsAreTold
    <3>4. CASE NextInput.is = "error"
      BY <3>4, InputErrorsAreCodes, ErrorsAreTold
    <3> QED  BY <2>2, <3>2, <3>3, <3>4
  <2> HIDE DEF error
  <2>4. SrvShape(Pulled(NextInput)) /\ Pulled(NextInput).out = srv.out
    BY PulledFields
  <2> QED  BY <1>1, <2>1, <2>3, <2>4, CompleteFinishes
<1>3. CASE Drained
  BY <1>1, <1>3, ErrorsAreTold, CompleteFinishes DEF Drained
<1> QED  BY <1>2, <1>3

(* Every step of the server before its response ended.                        *)
LEMMA ServerMoves ==
  ASSUME Shapes, OutputInv, Server
  PROVE  /\ srv.pc \notin {"done", "refused", "gone"} /\ down.end # "cut"
         /\ Quiet \/ Emits \/ Finishes \/ Refuses
         /\ UNCHANGED <<call, up, peer, cl, lost>>
<1>1. /\ SrvShape(srv) /\ srv.pc # "none" /\ down.end # "cut"
      /\ UNCHANGED <<call, up, peer, cl, lost>>
  BY ServerCases DEF Shapes, Server
<1>2. CASE Select
  BY <1>1, <1>2, SelectMoves, SelectFields
<1>3. CASE SkipEnd \/ ReadUnaryMessage \/ FirstInput \/ ImplRead
  BY <1>1, <1>3, InputMoves, SkipEndFields, ReadUnaryFields, FirstInputFields, ImplReadFields
<1>4. CASE (streamHandler /\ ImplYield) \/ ImplReturn \/ ImplThrow
  BY <1>1, <1>4, ImplMoves, ImplYieldFields, ImplReturnFields, ImplThrowFields
<1>5. CASE Drain \/ Drained
  BY <1>1, <1>5, DrainMoves, DrainFields, DrainedFields
<1> QED  BY <1>1, <1>2, <1>3, <1>4, <1>5, ServerCases

(* Those steps, and the others, keep what a handler wrote countable.          *)
LEMMA InitOutputInv == Init => OutputInv
<1> SUFFICES ASSUME Init
             PROVE  OutputInv
  OBVIOUS
<1>1. CASE InitResponse
  BY <1>1 DEF InitResponse, OutputInv
<1>2. CASE InitCall \/ InitRequest
  <2>1. HandlerInit
    BY <1>2 DEF InitCall, InitRequest
  <2>2. srv.pc = "start" /\ srv.out = 0 /\ srv.fin = << >> /\ srv.trailer = EmptyHeaders
    BY <2>1 DEF HandlerInit
  <2> QED  BY <2>2, ErrorsAreTold DEF OutputInv
<1> QED  BY <1>1, <1>2 DEF Init

(* A handler that is not done counts what it writes.                          *)
LEMMA MovedOutputInv ==
  ASSUME OutputInv, srv.pc \notin {"none", "done", "refused", "gone"}, call' = call,
         Quiet \/ Emits \/ Finishes \/ Refuses
  PROVE  OutputInv'
<1>0. OneReply' <=> OneReply
  BY DEF OneReply
<1>1. CASE Quiet
  BY <1>0, <1>1 DEF OutputInv, Quiet, TrailerKept
<1>2. CASE Emits
  BY <1>0, <1>2 DEF OutputInv, Emits, TrailerKept
<1>3. CASE Finishes
  <2>1. PICK error, t : Finishing(error, t)
    BY <1>3, Zenon DEF Finishes
  <2>2. srv'.fin[1] = error /\ srv'.fin # << >> /\ (srv'.fin = << << >> >> => error = << >>)
    BY <2>1 DEF Finishing
  <2> QED  BY <1>0, <2>1, <2>2 DEF OutputInv, Finishing
<1>4. CASE Refuses
  <2>1. srv'.trailer = srv.trailer
    BY <1>4 DEF Refuses
  <2> QED  BY <1>0, <1>4, <2>1 DEF OutputInv, Refuses
<1> QED  BY <1>1, <1>2, <1>3, <1>4

(* Every step keeps what a handler wrote countable.                           *)
LEMMA NextOutputInv ==
  ASSUME Shapes, OutputInv, [Next]_vars
  PROVE  OutputInv'
<1>1. CASE Server
  BY <1>1, ServerMoves, MovedOutputInv DEF Server
<1>2. CASE Stop
  <2>1. SrvShape(srv) /\ srv.pc \notin {"none", "done", "refused", "gone"} /\ call' = call
    BY <1>2 DEF Shapes, Stop, HangUp
  <2>2. Quiet
    BY <1>2, <2>1 DEF Stop, HangUp, SrvShape, Quiet, TrailerKept
  <2> QED  BY <2>1, <2>2, MovedOutputInv
<1>3. CASE UNCHANGED srv /\ UNCHANGED call
  BY <1>3 DEF OutputInv, OneReply
<1>4. CASE Client
  BY <1>3, <1>4, ClientCases
<1>5. CASE Lose
  BY <1>3, <1>5 DEF Lose
<1>6. CASE UNCHANGED vars
  BY <1>3, <1>6 DEF vars
<1> QED  BY <1>1, <1>2, <1>4, <1>5, <1>6 DEF Next

-----------------------------------------------------------------------------
(* The server answers as the contract says, whoever asks.                     *)

(* A response has one end, which says its error.                              *)
LEMMA EndIsOne ==
  ASSUME NEW error, NEW t
  PROVE  /\ Len(End(error, t)) = 1 /\ End(error, t) # << >>
         /\ End(error, t)[1].error = Wire(error)
  BY DEF End

(* A step that ends no call is no step of the caller.                         *)
LEMMA CallerWaits ==
  ASSUME cl' = cl, srv'.pc = "none" <=> srv.pc = "none"
  PROVE  UNCHANGED <<Received, Outcome>>
  BY DEF Received, Outcome, Ours

(* What a handler writes is a response of the contract.                       *)
LEMMA ServerResponds ==
  ASSUME OutputInv, UNCHANGED <<call, cl, lost>>,
         srv.pc \notin {"none", "done", "refused", "gone"}, srv'.pc # "none",
         Quiet \/ Emits \/ Finishes \/ Refuses
  PROVE  [Contract!Next]_(Contract!vars)
<1>1. UNCHANGED <<Received, Outcome, lost>>
  BY CallerWaits
<1>2. srv.fin = << >> /\ Reply = << >> /\ Emitted = srv.out /\ Emitted' = srv'.out
  BY DEF OutputInv, Reply, Emitted
<1>3. CASE Quiet \/ Refuses
  <2>1. UNCHANGED <<Emitted, Reply>>
    BY <1>2, <1>3 DEF Quiet, Refuses, Reply
  <2> QED  BY <1>1, <2>1 DEF Contract!vars
<1>4. CASE Emits
  <2>1. Emitted' = Emitted + 1 /\ Reply' = Reply
    BY <1>2, <1>4 DEF Emits, Reply
  <2>2. Contract!Respond
    BY <1>1, <1>2, <2>1 DEF Contract!Respond
  <2> QED  BY <2>2 DEF Contract!Next
<1>5. CASE Finishes
  <2>1. PICK error, t : Finishing(error, t)
    BY <1>5, Zenon DEF Finishes
  <2>2. srv'.fin # << >> /\ srv'.out \in {srv.out, srv.out + 1}
    BY <2>1 DEF Finishing
  <2>3. Reply' = End(srv'.fin[1], srv'.trailer)
    BY <2>2 DEF Reply, End, Wire, App
  <2>4. Len(Reply') = 1
    BY <2>3, EndIsOne
  <2>5. Contract!Respond
    BY <1>1, <1>2, <2>2, <2>4 DEF Contract!Respond
  <2> QED  BY <2>5 DEF Contract!Next
<1> QED  BY <1>3, <1>4, <1>5

(* Every step of the server is one.                                           *)
LEMMA ServerKeepsContract ==
  ASSUME Shapes, OutputInv, Server \/ Stop
  PROVE  [Contract!Next]_(Contract!vars)
<1>1. srv'.pc # "none" /\ srv.pc # "none"
  BY NextShapes DEF Next, Server, Stop
<1>2. CASE Server
  BY <1>1, <1>2, ServerMoves, ServerResponds
<1>3. CASE Stop
  <2>1. SrvShape(srv) /\ srv.pc \notin {"none", "done", "refused", "gone"}
        /\ UNCHANGED <<call, cl, lost>>
    BY <1>3 DEF Shapes, Stop, HangUp
  <2>2. Quiet
    BY <1>3, <2>1 DEF Stop, HangUp, SrvShape, Quiet, TrailerKept
  <2> QED  BY <1>1, <2>1, <2>2, ServerResponds
<1> QED  BY <1>2, <1>3

-----------------------------------------------------------------------------
(* What a server has written for a caller of ours, and what of it that has    *)
(* read.                                                                      *)

IsSequence(s) == \E S : s \in Seq(S)

(* A sequence with one more element.                                          *)
LEMMA SequenceGrows ==
  ASSUME NEW s, IsSequence(s), NEW e
  PROVE  /\ IsSequence(s \o <<e>>) /\ Len(s) \in Nat /\ Len(s \o <<e>>) = Len(s) + 1
         /\ \A i \in 1 .. Len(s) : (s \o <<e>>)[i] = s[i]
         /\ (s \o <<e>>)[Len(s) + 1] = e
<1>1. PICK S : s \in Seq(S)
  BY Zenon DEF IsSequence
<1>2. s \in Seq(S \cup {e})
  BY <1>1
<1>3. s \o <<e>> \in Seq(S \cup {e})
  BY <1>2, OneMoreFrame
<1>4. IsSequence(s \o <<e>>)
  BY <1>3, Zenon DEF IsSequence
<1>5. Len(s) \in Nat
  BY <1>1
<1> QED  BY <1>1, <1>4, <1>5, OneMoreFrame

(* The beginning of a sequence.                                               *)
LEMMA SequenceIsCut ==
  ASSUME NEW s, IsSequence(s), NEW n \in 0 .. Len(s)
  PROVE  /\ IsSequence(SubSeq(s, 1, n)) /\ Len(SubSeq(s, 1, n)) = n
         /\ \A i \in 1 .. n : SubSeq(s, 1, n)[i] = s[i]
<1>1. PICK S : s \in Seq(S)
  BY Zenon DEF IsSequence
<1>2. /\ SubSeq(s, 1, n) \in Seq(S) /\ Len(SubSeq(s, 1, n)) = n
      /\ \A i \in 1 .. n : SubSeq(s, 1, n)[i] = s[i]
  BY <1>1
<1>3. IsSequence(SubSeq(s, 1, n))
  BY <1>2, Zenon DEF IsSequence
<1> QED  BY <1>2, <1>3

(* The empty one.                                                             *)
LEMMA NothingIsSequence ==
  /\ IsSequence(<< >>) /\ Len(<< >>) = 0
  /\ \A s : IsSequence(s) => Len(s) \in Nat /\ s \o << >> = s
  /\ \A e : IsSequence(<<e>>)
<1>1. << >> \in Seq({}) /\ Len(<< >>) = 0
  OBVIOUS
<1>2. \A e : <<e>> \in Seq({e})
  OBVIOUS
<1>3. \A s, S : s \in Seq(S) => Len(s) \in Nat /\ s \o << >> = s
  OBVIOUS
<1> QED  BY <1>1, <1>2, <1>3, Zenon DEF IsSequence

StreamHead == <<ResponseHead(200, responseType, compression.response, EmptyHeaders)>>

EndOf(error, t) ==
  IF peer.protocol = "connect" THEN EndEnvelope(<<endStreamToJson(t, error)>>, << >>, Compressed)
  ELSE EndEnvelope(<< >>, <<trailerSerialize(grpcFields(error, t))>>, Compressed)

IsFrame(i, f) ==
  IF i <= srv.out THEN f = Envelope(i, Compressed)
  ELSE endFlag /\ srv.fin # << >> /\ i = srv.out + 1 /\ f = EndOf(srv.fin[1], srv.trailer)

StreamWritten ==
  /\ down.head # << >> => down.head = StreamHead
  /\ \A i \in 1 .. Len(down.frames) : IsFrame(i, down.frames[i])
  /\ down.end = "open" => Len(down.frames) = srv.out
  /\ down.end = "end" => /\ Len(down.frames) = srv.out + (IF endFlag THEN 1 ELSE 0)
                         /\ ~endFlag => down.trailer = grpcFields(srv.fin[1], srv.trailer)

UnaryWritten ==
  /\ down.head # << >> => /\ srv.fin # << >>
                          /\ down.head = UnaryEnded(srv.fin[1], 1, srv.trailer).head
  /\ down.end = "end" => down = UnaryEnded(srv.fin[1], 1, srv.trailer)

(* The response is open, has ended with the call, or was cut off.             *)
WrittenInv ==
  /\ IsSequence(down.frames) /\ srv.pc # "refused"
  /\ down.end \in {"open", "end", "cut"}
  /\ down.end = "open" => srv.fin = << >>
  /\ down.end = "end" => srv.fin # << >> /\ down.head # << >>
  /\ down.end = "cut" => lost
  /\ IF streamHandler THEN StreamWritten ELSE UnaryWritten

(* The stream that was read: messages, and after them the end.                *)
BodyRead ==
  /\ cl.read \in 0 .. Len(down.frames)
  /\ IF cl.trailer = << >> THEN Len(cl.msgs) = cl.read /\ cl.read <= srv.out
     ELSE /\ cl.read = srv.out + 1 /\ Len(cl.msgs) = srv.out /\ srv.fin # << >>
          /\ ~unaryCall => srv.fin[1] = << >>
          /\ cl.trailer = IF peer.protocol = "connect" THEN <<srv.trailer>>
                          ELSE <<grpcFields(srv.fin[1], srv.trailer)>>

ReadInv ==
  /\ cl.pc \in {"sending", "unary", "body"} /\ cl.outcome = << >>
  /\ cl.msgs \in Seq(Nat) /\ Ordered(cl.msgs)
  /\ cl.pc \in {"sending", "unary"} => cl.msgs = << >> /\ cl.read = 0 /\ cl.trailer = << >>
  /\ cl.pc \in {"unary", "body"} => down.head # << >>
  /\ cl.pc = "unary" => unaryHandler
  /\ cl.pc = "body" => streamHandler /\ BodyRead

OursInv == Ours => AskedOurs /\ (cl.pc # "done" => WrittenInv /\ ReadInv)

-----------------------------------------------------------------------------
(* What depends on the call alone.                                            *)
LEMMA CallIsRead ==
  ASSUME UNCHANGED <<call, peer>>
  PROVE  /\ StreamHead' = StreamHead /\ (streamHandler' <=> streamHandler)
         /\ (unaryHandler' <=> unaryHandler)
         /\ (endFlag' <=> endFlag) /\ (unaryCall' <=> unaryCall) /\ (Compressed' <=> Compressed)
         /\ \A i : Envelope(i, Compressed)' = Envelope(i, Compressed)
         /\ \A error, t : /\ EndOf(error, t)' = EndOf(error, t)
                          /\ UnaryEnded(error, 1, t)' = UnaryEnded(error, 1, t)
         /\ (AskedOurs' <=> AskedOurs)
<1>1. /\ selectedProtocol' = selectedProtocol /\ compression' = compression
      /\ (unaryHandler' <=> unaryHandler) /\ (streamHandler' <=> streamHandler)
  BY RequestIsRead
<1>2. requestType' = requestType
  BY <1>1 DEF requestType, isGet
<1>3. responseType' = responseType
  BY <1>1, <1>2 DEF responseType
<1>4. StreamHead' = StreamHead
  BY <1>1, <1>3 DEF StreamHead
<1>5. Compressed' = Compressed
  BY <1>1 DEF Compressed
<1>6. (endFlag' <=> endFlag) /\ (unaryCall' <=> unaryCall) /\ (AskedOurs' <=> AskedOurs)
  BY DEF endFlag, unaryCall, AskedOurs
<1>7. \A i : Envelope(i, Compressed)' = Envelope(i, Compressed)
  BY <1>5
<1>8. \A error, t : EndOf(error, t)' = EndOf(error, t)
  BY <1>5 DEF EndOf
<1>9. \A error, t : UnaryEnded(error, 1, t)' = UnaryEnded(error, 1, t)
  BY <1>1, <1>3, <1>5 DEF UnaryEnded
<1> QED  BY <1>1, <1>4, <1>5, <1>6, <1>7, <1>8, <1>9

-----------------------------------------------------------------------------
(* The steps of the server keep what it wrote.                                *)

(* The end of a stream.                                                       *)
LEMMA StreamEnds ==
  ASSUME DownShape(down), IsSequence(down.frames), selectedProtocol = peer.protocol,
         peer.protocol \in Protocols, NEW error, NEW t
  PROVE  LET d == Ended(error, t)
         IN  /\ d.head = Committed /\ d.end = "end"
             /\ endFlag  => d.frames = down.frames \o <<EndOf(error, t)>>
             /\ ~endFlag => d.frames = down.frames /\ d.trailer = grpcFields(error, t)
<1>1. \A frames : /\ DownShape(Written(frames)) /\ Written(frames).head = Committed
                  /\ Written(frames).frames = down.frames \o frames
  BY WrittenShape
<1>2. ASSUME NEW frames
      PROVE  LET d == [Written(frames) EXCEPT !.end = "end"]
             IN  d.head = Committed /\ d.end = "end" /\ d.frames = down.frames \o frames
  <2> DEFINE w == Written(frames)
  <2>1. DownShape(w) /\ w.head = Committed /\ w.frames = down.frames \o frames
    BY <1>1
  <2> HIDE DEF w
  <2>2. LET d == [w EXCEPT !.end = "end"]
        IN  d.head = Committed /\ d.end = "end" /\ d.frames = down.frames \o frames
    BY <2>1 DEF DownShape
  <2> QED  BY <2>2 DEF w
<1>3. down.frames \o << >> = down.frames
  BY NothingIsSequence
<1>4. CASE peer.protocol = "grpc"
  <2>1. Ended(error, t) = [Written(<< >>) EXCEPT !.trailer = grpcFields(error, t), !.end = "end"]
    BY <1>4 DEF Ended, grpcEnded
  <2> DEFINE w == Written(<< >>)
             x == grpcFields(error, t)
  <2>2. DownShape(w) /\ w.head = Committed /\ w.frames = down.frames
    BY <1>1, <1>3
  <2>3. Ended(error, t) = [w EXCEPT !.trailer = x, !.end = "end"]
    BY <2>1
  <2> HIDE DEF w, x
  <2>4. LET d == [w EXCEPT !.trailer = x, !.end = "end"]
        IN  d.head = Committed /\ d.end = "end" /\ d.frames = down.frames /\ d.trailer = x
    BY <2>2 DEF DownShape
  <2> QED  BY <1>4, <2>3, <2>4 DEF endFlag, x
<1>5. CASE peer.protocol = "grpc-web"
  <2>1. Ended(error, t) = [Written(<<EndOf(error, t)>>) EXCEPT !.end = "end"]
    BY <1>5 DEF Ended, grpcWebEnded, EndOf
  <2> QED  BY <1>2, <1>5, <2>1, Zenon DEF endFlag
<1>6. CASE peer.protocol = "connect"
  <2>1. Ended(error, t) = [Written(<<EndOf(error, t)>>) EXCEPT !.end = "end"]
    BY <1>6 DEF Ended, connectEnded, EndOf
  <2> QED  BY <1>2, <1>6, <2>1, Zenon DEF endFlag
<1> QED  BY <1>4, <1>5, <1>6 DEF Protocols

(* The end of a unary response.                                               *)
LEMMA UnaryEnds ==
  ASSUME NEW error, NEW t
  PROVE  LET d == UnaryEnded(error, 1, t)
         IN  d.end = "end" /\ d.head # << >> /\ IsSequence(d.frames) /\ DownShape(d)
<1>1. UnaryEnded(error, 1, t).frames \in {<<Envelope(1, Compressed)>>, << >>}
  BY DEF UnaryEnded
<1>2. IsSequence(UnaryEnded(error, 1, t).frames)
  BY <1>1, NothingIsSequence
<1> QED  BY <1>2 DEF UnaryEnded, DownShape

(* A message is written.                                                      *)
LEMMA EmitsWritten ==
  ASSUME DownShape(down), WrittenInv, srv.out \in Nat, UNCHANGED <<call, peer>>, Emits,
         down.end = "open"
  PROVE  IsSequence(down'.frames) /\ StreamWritten' /\ down'.end = "open" /\ streamHandler
<1>1. /\ streamHandler /\ srv'.fin = srv.fin /\ srv'.out = srv.out + 1
      /\ down' = Written(<<Envelope(srv.out + 1, Compressed)>>) /\ srv.fin = << >>
  BY DEF Emits, WrittenInv
<1> DEFINE e == Envelope(srv.out + 1, Compressed)
<1>2. /\ down'.head = Committed /\ down'.frames = down.frames \o <<e>> /\ down'.end = "open"
  BY <1>1, WrittenShape
<1>3. /\ IsSequence(down.frames) /\ Len(down.frames) = srv.out
      /\ \A i \in 1 .. Len(down.frames) : down.frames[i] = Envelope(i, Compressed)
      /\ down.head # << >> => down.head = StreamHead
  BY <1>1 DEF WrittenInv, StreamWritten, IsFrame
<1> HIDE DEF e
<1>4. /\ IsSequence(down'.frames) /\ Len(down'.frames) = srv.out + 1
      /\ \A i \in 1 .. srv.out : down'.frames[i] = Envelope(i, Compressed)
      /\ down'.frames[srv.out + 1] = e
  <2> DEFINE s == down.frames
  <2>1. IsSequence(s) /\ Len(s) = srv.out
    BY <1>3
  <2>2. /\ IsSequence(s \o <<e>>) /\ Len(s \o <<e>>) = Len(s) + 1
        /\ \A i \in 1 .. Len(s) : (s \o <<e>>)[i] = s[i]
        /\ (s \o <<e>>)[Len(s) + 1] = e
    <3> HIDE DEF s
    <3> QED  BY <2>1, SequenceGrows, Zenon
  <2> QED  BY <1>2, <1>3, <2>1, <2>2
<1>5. \A i \in 1 .. Len(down'.frames) : i <= srv'.out /\ down'.frames[i] = Envelope(i, Compressed)
  BY <1>1, <1>4 DEF e
<1>6. down'.head = StreamHead
  BY <1>2, <1>3 DEF Committed, StreamHead
<1>7. StreamHead' = StreamHead /\ \A i : Envelope(i, Compressed)' = Envelope(i, Compressed)
  BY CallIsRead
<1>8. \A i \in 1 .. Len(down'.frames) : IsFrame(i, down.frames[i])'
  BY <1>5, <1>7 DEF IsFrame
<1> QED  BY <1>1, <1>2, <1>4, <1>6, <1>7, <1>8 DEF StreamWritten

(* The end of a stream is written.                                            *)
LEMMA FinishWritten ==
  ASSUME DownShape(down), WrittenInv, srv.out \in Nat, UNCHANGED <<call, peer>>,
         selectedProtocol = peer.protocol, peer.protocol \in Protocols,
         NEW error, NEW t, Finishing(error, t), down.end = "open", streamHandler
  PROVE  /\ IsSequence(down'.frames) /\ StreamWritten' /\ down'.end = "end"
         /\ down'.head # << >> /\ srv'.fin # << >>
<1>1. /\ srv'.fin = <<error>> /\ srv'.trailer = t /\ srv'.out = srv.out
      /\ down' = Ended(error, t) /\ srv.fin = << >>
  BY DEF Finishing, WrittenInv
<1>2. srv'.fin # << >> /\ srv'.fin[1] = error
  BY <1>1
<1>3. /\ IsSequence(down.frames) /\ Len(down.frames) = srv.out
      /\ \A i \in 1 .. Len(down.frames) : down.frames[i] = Envelope(i, Compressed)
      /\ down.head # << >> => down.head = StreamHead
  BY <1>1 DEF WrittenInv, StreamWritten, IsFrame
<1>4. /\ down'.head = Committed /\ down'.end = "end"
      /\ endFlag  => down'.frames = down.frames \o <<EndOf(error, t)>>
      /\ ~endFlag => down'.frames = down.frames /\ down'.trailer = grpcFields(error, t)
  BY <1>1, <1>3, StreamEnds
<1>5. down'.head = StreamHead /\ StreamHead # << >>
  BY <1>3, <1>4 DEF Committed, StreamHead
<1>6. /\ StreamHead' = StreamHead /\ (endFlag' <=> endFlag)
      /\ \A i : Envelope(i, Compressed)' = Envelope(i, Compressed)
      /\ \A x, y : EndOf(x, y)' = EndOf(x, y)
  BY CallIsRead
<1>7. EndOf(srv.fin[1], srv.trailer)' = EndOf(error, t)
  BY <1>1, <1>2, <1>6 DEF EndOf
<1>8. CASE endFlag
  <2> DEFINE e == EndOf(error, t)
  <2>1. down'.frames = down.frames \o <<e>>
    BY <1>4, <1>8
  <2> HIDE DEF e
  <2>2. /\ IsSequence(down'.frames) /\ Len(down'.frames) = srv.out + 1
        /\ \A i \in 1 .. srv.out : down'.frames[i] = Envelope(i, Compressed)
        /\ down'.frames[srv.out + 1] = e
    <3> DEFINE s == down.frames
    <3>1. IsSequence(s) /\ Len(s) = srv.out
      BY <1>3
    <3>2. /\ IsSequence(s \o <<e>>) /\ Len(s \o <<e>>) = Len(s) + 1
          /\ \A i \in 1 .. Len(s) : (s \o <<e>>)[i] = s[i]
          /\ (s \o <<e>>)[Len(s) + 1] = e
      <4> HIDE DEF s
      <4> QED  BY <3>1, SequenceGrows, Zenon
    <3> QED  BY <1>3, <2>1, <3>1, <3>2
  <2>3. ASSUME NEW i \in 1 .. Len(down'.frames)
        PROVE  IsFrame(i, down.frames[i])'
    <3>1. CASE i <= srv.out
      BY <1>1, <1>6, <2>2, <3>1 DEF IsFrame
    <3>2. CASE ~(i <= srv.out)
      <4>1. i = srv.out + 1
        BY <2>2, <3>2
      <4>2. down'.frames[i] = e
        BY <2>2, <4>1
      <4> QED  BY <1>1, <1>2, <1>6, <1>7, <1>8, <3>2, <4>1, <4>2 DEF IsFrame, e
    <3> QED  BY <3>1, <3>2
  <2> QED  BY <1>1, <1>2, <1>4, <1>5, <1>6, <1>8, <2>2, <2>3 DEF StreamWritten
<1>9. CASE ~endFlag
  <2>1. \A i \in 1 .. Len(down'.frames) : IsFrame(i, down.frames[i])'
    BY <1>1, <1>3, <1>4, <1>6, <1>9 DEF IsFrame
  <2>2. grpcFields(srv.fin[1], srv.trailer)' = grpcFields(error, t)
    BY <1>1, <1>2
  <2>3. IsSequence(down'.frames) /\ Len(down'.frames) = srv'.out
    BY <1>1, <1>3, <1>4, <1>9
  <2> QED  BY <1>1, <1>2, <1>4, <1>5, <1>6, <1>9, <2>1, <2>2, <2>3 DEF StreamWritten
<1> QED  BY <1>8, <1>9

(* Whatever the server does, its response is open, complete or cut off.       *)
LEMMA ServerWrites ==
  ASSUME Shapes, OutputInv, WrittenInv, Agreed, peer.protocol \in Protocols, srv.pc # "none",
         srv.pc \notin {"done", "refused", "gone"}, UNCHANGED <<call, peer, lost>>,
         \/ Quiet
         \/ down.end # "cut" /\ (Emits \/ Finishes \/ Refuses)
  PROVE  WrittenInv'
<1>0. /\ DownShape(down) /\ srv.out \in Nat /\ srv.fin = << >>
      /\ selectedProtocol = peer.protocol /\ (streamHandler' <=> streamHandler)
  BY CallIsRead DEF Shapes, OutputInv, Agreed
<1>1. CASE Quiet
  <2>1. /\ down' = down /\ srv'.out = srv.out /\ srv'.fin = srv.fin
        /\ srv'.pc # "refused"
    BY <1>1 DEF Quiet
  <2>2. /\ StreamHead' = StreamHead /\ (endFlag' <=> endFlag) /\ srv'.fin = << >>
        /\ \A i : Envelope(i, Compressed)' = Envelope(i, Compressed)
    BY <1>0, <2>1, CallIsRead
  <2>3. down.end # "end"
    BY <1>0 DEF WrittenInv
  <2>4. StreamWritten => StreamWritten'
    <3>1. \A i : IsFrame(i, down.frames[i]) => IsFrame(i, down.frames[i])'
      BY <1>0, <2>1, <2>2 DEF IsFrame
    <3> QED  BY <2>1, <2>2, <2>3, <3>1 DEF StreamWritten
  <2>5. UnaryWritten => UnaryWritten'
    BY <1>0, <2>1, <2>3 DEF UnaryWritten
  <2> QED  BY <1>0, <2>1, <2>4, <2>5 DEF WrittenInv
<1>2. CASE down.end # "cut" /\ Emits
  <2>1. down.end = "open"
    BY <1>0, <1>2 DEF WrittenInv
  <2>2. srv'.pc # "refused" /\ srv'.fin = << >>
    BY <1>0, <1>2 DEF Emits
  <2>3. IsSequence(down'.frames) /\ StreamWritten' /\ down'.end = "open" /\ streamHandler
    BY <1>0, <1>2, <2>1, EmitsWritten
  <2> QED  BY <1>0, <2>2, <2>3 DEF WrittenInv
<1>3. CASE down.end # "cut" /\ Finishes
  <2>1. down.end = "open"
    BY <1>0, <1>3 DEF WrittenInv
  <2>2. PICK error, t : Finishing(error, t)
    BY <1>3, Zenon DEF Finishes
  <2>3. srv'.pc = "done" /\ srv'.fin = <<error>> /\ srv'.trailer = t
    BY <2>2 DEF Finishing
  <2>4. CASE streamHandler
    <3>1. /\ IsSequence(down'.frames) /\ StreamWritten' /\ down'.end = "end"
          /\ down'.head # << >> /\ srv'.fin # << >>
      BY <1>0, <2>1, <2>2, <2>4, FinishWritten
    <3> QED  BY <1>0, <2>3, <2>4, <3>1 DEF WrittenInv
  <2>5. CASE ~streamHandler
    <3>1. down' = UnaryEnded(error, 1, t)
      BY <2>2, <2>5 DEF Finishing
    <3>2. srv'.fin # << >> /\ srv'.fin[1] = error
      BY <2>3
    <3>3. UnaryEnded(srv.fin[1], 1, srv.trailer)' = UnaryEnded(error, 1, t)
      <4>1. \A x, y : UnaryEnded(x, 1, y)' = UnaryEnded(x, 1, y)
        BY CallIsRead
      <4>2. compression' = compression
        BY RequestIsRead
      <4>3. responseType' = responseType /\ (Compressed' <=> Compressed)
        <5>1. requestType' = requestType /\ selectedProtocol' = selectedProtocol
          BY RequestIsRead DEF requestType, isGet
        <5> QED  BY <4>2, <5>1 DEF responseType, Compressed
      <4> QED  BY <2>3, <3>2, <4>2, <4>3 DEF UnaryEnded
    <3>4. /\ down'.end = "end" /\ down'.head # << >> /\ IsSequence(down'.frames)
      BY <3>1, UnaryEnds
    <3>5. UnaryWritten'
      BY <3>1, <3>2, <3>3 DEF UnaryWritten
    <3> QED  BY <1>0, <2>3, <2>5, <3>2, <3>4, <3>5 DEF WrittenInv
  <2> QED  BY <2>4, <2>5
<1>4. CASE Refuses
  BY <1>4 DEF Refuses, Agreed
<1> QED  BY <1>1, <1>2, <1>3, <1>4

-----------------------------------------------------------------------------
(* The ends of a call are ends that the contract allows.                      *)

(* What Settle() leaves.                                                      *)
LEMMA SettledExactly ==
  ASSUME ClShape(cl), NEW error, NEW msgs, NEW trailer, Settle(error, msgs, trailer)
  PROVE  /\ cl'.pc = "done" /\ cl'.outcome = <<[error |-> error, trailer |-> trailer]>>
         /\ cl'.msgs = IF unaryCall /\ error # << >> THEN << >> ELSE msgs
         /\ UNCHANGED <<call, srv, peer>>
<1> DEFINE m == IF unaryCall /\ error # << >> THEN << >> ELSE msgs
           o == <<[error |-> error, trailer |-> trailer]>>
<1>1. cl' = [cl EXCEPT !.pc = "done", !.msgs = m, !.outcome = o] /\ UNCHANGED <<call, srv, peer>>
  BY DEF Settle
<1> HIDE DEF m, o
<1>2. cl'.pc = "done" /\ cl'.outcome = o /\ cl'.msgs = m
  BY <1>1 DEF ClShape
<1> QED  BY <1>1, <1>2 DEF m, o

(* The outcome of a call of ours that ends.                                   *)
LEMMA OutcomeIs ==
  ASSUME ClShape(cl), Ours, cl.outcome = << >>,
         NEW error, NEW msgs, NEW trailer, Settle(error, msgs, trailer)
  PROVE  /\ Outcome = << >> /\ Outcome' = End(error, trailer)
         /\ Received = cl.msgs
         /\ Received' = IF unaryCall /\ error # << >> THEN << >> ELSE msgs
         /\ UNCHANGED <<Emitted, Reply>>
<1>1. /\ cl'.pc = "done" /\ cl'.outcome = <<[error |-> error, trailer |-> trailer]>>
      /\ cl'.msgs = IF unaryCall /\ error # << >> THEN << >> ELSE msgs
      /\ srv' = srv
  BY SettledExactly
<1>2. Ours' /\ cl'.outcome # << >> /\ cl'.outcome[1].error = error
      /\ cl'.outcome[1].trailer = trailer
  BY <1>1 DEF Ours
<1>3. Outcome' = End(error, trailer)
  BY <1>2 DEF Outcome, End, Wire, App
<1>4. Outcome = << >> /\ Received = cl.msgs /\ Received' = cl'.msgs
  BY <1>2 DEF Outcome, Received
<1>5. UNCHANGED <<Emitted, Reply>>
  BY <1>1 DEF Emitted, Reply, End, Wire, App
<1> QED  BY <1>1, <1>3, <1>4, <1>5

(* The error of the implementation, as it is after the transport.             *)
LEMMA FailsWith ==
  ASSUME ClShape(cl), Ours, cl.outcome = << >>, srv.fin # << >>, srv.fin[1] # << >>, lost' = lost,
         NEW error, error # << >>, Wire(error) = Wire(srv.fin[1]),
         NEW msgs, msgs \in {cl.msgs, << >>}, Settle(error, msgs, EmptyHeaders)
  PROVE  Contract!Next
<1>1. /\ Outcome = << >> /\ Outcome' = End(error, EmptyHeaders)
      /\ Received' \in {Received, << >>} /\ UNCHANGED <<Emitted, Reply>>
  BY OutcomeIs
<1>2. Reply = End(srv.fin[1], srv.trailer) /\ Reply # << >>
  BY EndIsOne DEF Reply, Ours
<1>3. End(error, EmptyHeaders) = End(srv.fin[1], srv.trailer)
  BY DEF End
<1>4. Wire(error) # << >>
  BY DEF Wire
<1>5. Reply[1].error = Wire(srv.fin[1])
  BY <1>2, EndIsOne
<1>6. Contract!FailWith
  BY <1>1, <1>2, <1>3, <1>4, <1>5 DEF Contract!FailWith
<1> QED  BY <1>6 DEF Contract!Next

(* Another error, when the connection was lost.                               *)
LEMMA FailsLost ==
  ASSUME ClShape(cl), Ours, cl.outcome = << >>, lost, lost' = lost, NEW code, Fail(code)
  PROVE  Contract!Next
<1> DEFINE e == Error(code, "transport", << >>, EmptyHeaders)
<1>1. Settle(<<e>>, cl.msgs, EmptyHeaders)
  BY DEF Fail
<1> HIDE DEF e
<1>2. /\ Outcome = << >> /\ Outcome' = End(<<e>>, EmptyHeaders)
      /\ Received' \in {Received, << >>} /\ UNCHANGED <<Emitted, Reply>>
  BY <1>1, OutcomeIs
<1>3. Len(Outcome') = 1 /\ Outcome'[1].error = Wire(<<e>>)
  BY <1>2, EndIsOne
<1>4. Wire(<<e>>) # << >>
  BY DEF Wire
<1>5. Contract!FailLost
  BY <1>2, <1>3, <1>4 DEF Contract!FailLost
<1> QED  BY <1>5 DEF Contract!Next

(* A success, with all messages and the trailer of the implementation.        *)
LEMMA Succeeds ==
  ASSUME ClShape(cl), Ours, cl.outcome = << >>, srv.fin # << >>, srv.fin[1] = << >>, lost' = lost,
         NEW msgs, msgs = [i \in 1 .. srv.out |-> i], NEW fields,
         App(fields) = App(srv.trailer), Settle(<< >>, msgs, fields)
  PROVE  Contract!Next
<1>1. /\ Outcome = << >> /\ Outcome' = End(<< >>, fields)
      /\ Received' = msgs /\ UNCHANGED <<Emitted, Reply>>
  BY OutcomeIs
<1>2. Reply = End(<< >>, srv.trailer) /\ Reply # << >> /\ Emitted = srv.out
  BY EndIsOne DEF Reply, Emitted, Ours
<1>3. End(<< >>, fields) = End(<< >>, srv.trailer)
  BY DEF End
<1>4. Reply[1].error = << >>
  BY <1>2, EndIsOne DEF Wire
<1>5. Contract!Succeed
  BY <1>1, <1>2, <1>3, <1>4 DEF Contract!Succeed
<1> QED  BY <1>5 DEF Contract!Next

(* A message.                                                                 *)
LEMMA Receives ==
  ASSUME Ours, cl.outcome = << >>, Len(cl.msgs) < srv.out, UNCHANGED <<srv, lost>>,
         cl'.pc # "none", cl'.outcome = cl.outcome, cl'.msgs = Append(cl.msgs, Len(cl.msgs) + 1)
  PROVE  Contract!Next
<1>1. Ours' /\ Emitted = srv.out
  BY DEF Ours, Emitted
<1>2. /\ Outcome = << >> /\ Outcome' = << >> /\ UNCHANGED <<Emitted, Reply>>
      /\ Received = cl.msgs /\ Received' = cl'.msgs
  BY <1>1 DEF Outcome, Emitted, Reply, Received, End, Wire, App
<1>3. Contract!Receive
  BY <1>1, <1>2 DEF Contract!Receive
<1> QED  BY <1>3 DEF Contract!Next

(* A step in which the caller gets nothing.                                   *)
LEMMA CallerReadsOn ==
  ASSUME UNCHANGED <<srv, lost>>, cl'.pc = "none" <=> cl.pc = "none",
         cl'.msgs = cl.msgs, cl'.outcome = cl.outcome
  PROVE  UNCHANGED Contract!vars
  BY DEF Contract!vars, Ours, Outcome, Received, Emitted, Reply, End, Wire, App

-----------------------------------------------------------------------------
(* The head of the response.                                                  *)

(* An encoding that was agreed on is no error.                                *)
LEMMA EncodingIsKnown ==
  ASSUME Agreed, head.encoding \in {compression.response, Unset}
  PROVE  /\ responseEncoding.error = NoCode
         /\ head.encoding = compression.response /\ Compressed => responseEncoding.name # Unset
         /\ web => ~Compressed
<1>1. /\ compression.response \in {Unset} \cup acceptCompression
      /\ compression.response # "identity" /\ (web => compression.response = Unset)
  BY DEF Agreed
<1>2. Compressed => compression.response # Unset
  BY DEF Compressed
<1>3. CASE web
  BY <1>1, <1>2, <1>3 DEF responseEncoding
<1>4. CASE ~web
  <2>1. responseEncoding = ResponseCompression(acceptCompression, head.encoding)
    BY <1>4 DEF responseEncoding
  <2>2. CASE head.encoding \in {Unset, "identity"}
    BY <1>1, <1>2, <1>4, <2>1, <2>2 DEF ResponseCompression
  <2>3. CASE head.encoding \notin {Unset, "identity"}
    BY <1>1, <1>2, <1>4, <2>1, <2>3 DEF ResponseCompression
  <2> QED  BY <2>2, <2>3
<1> QED  BY <1>3, <1>4

(* The client accepts the head of a stream, which has no status.              *)
LEMMA StreamHeadIsFine ==
  ASSUME Agreed, peer.protocol \in Protocols, web \/ node, down.head = StreamHead
  PROVE  /\ HeadError = << >> /\ ~foundStatus /\ ~trailersOnly
         /\ Compressed => ~web /\ node /\ responseEncoding.name # Unset
<1>1. head.status = 200 /\ head.encoding = compression.response /\ head.fields = EmptyHeaders
  BY DEF head, StreamHead, ResponseHead
<1>2. EncodingError = << >>
  BY <1>1, EncodingIsKnown DEF EncodingError
<1>3. headerGrpcStatus \notin DOMAIN head.fields /\ headerStatusDetailsBin \notin DOMAIN head.fields
  BY <1>1 DEF EmptyHeaders
<1>4. findTrailerError(head.fields) = << >>
  BY <1>3 DEF findTrailerError
<1>5. StatusError = << >>
  BY <1>1, <1>4 DEF StatusError, grpcStatusError, grpcWebStatusError, Protocols
<1>6. HeadError = << >>
  BY <1>2, <1>5 DEF HeadError
<1> QED  BY <1>1, <1>3, <1>6, EncodingIsKnown DEF foundStatus, trailersOnly

(* And the one of a unary response, whose status tells whether it succeeded.  *)
LEMMA UnaryHeadIsFine ==
  ASSUME Agreed, unaryHandler, NEW error, NEW t, Settable(t),
         down.head = UnaryEnded(error, 1, t).head
  PROVE  /\ HeadError = << >> /\ (isUnaryError <=> error # << >>)
         /\ Compressed <=> head.encoding \notin {Unset, "identity"}
         /\ error = << >> => trailerDemux(head.fields)[2] = t
<1> DEFINE meta == IF error = << >> THEN EmptyHeaders ELSE error[1].metadata
<1>1. /\ head.status = IF error = << >> THEN 200 ELSE codeToHttpStatus(error[1].code)
      /\ head.type = IF error = << >> THEN responseType ELSE "application/json"
      /\ head.encoding = IF Compressed THEN compression.response ELSE Unset
      /\ head.fields = trailerMux(meta, t)
  BY DEF head, UnaryEnded, ResponseHead
<1>2. peer.protocol = "connect" /\ call.kind = Unary
  BY DEF Agreed, unaryHandler
<1>3. \A c : codeToHttpStatus(c) # 200
  BY DEF codeToHttpStatus
<1>4. isUnaryError <=> error # << >>
  <2>1. CASE error = << >>
    BY <1>1, <2>1 DEF isUnaryError
  <2>2. CASE error # << >>
    <3>1. head.status # 200 /\ head.type = "application/json"
      BY <1>1, <1>3, <2>2
    <3>2. /\ connectParseContentType("application/json") # << >>
          /\ ~connectParseContentType("application/json")[1].binary
      BY DEF connectParseContentType, contentTypeUnaryRegExp, contentTypeStreamRegExp, JsonTypes
    <3> QED  BY <1>2, <2>2, <3>1, <3>2 DEF isUnaryError
  <2> QED  BY <2>1, <2>2
<1>5. EncodingError = << >>
  BY <1>1, EncodingIsKnown DEF EncodingError
<1>6. head.status = 200 \/ isUnaryError
  BY <1>1, <1>4
<1>7. HeadError = << >>
  BY <1>2, <1>5, <1>6 DEF HeadError, StatusError
<1>8. Compressed <=> head.encoding \notin {Unset, "identity"}
  BY <1>1 DEF Compressed, Agreed
<1>9. error = << >> => trailerDemux(head.fields)[2] = t
  BY <1>1, MuxSurvives
<1> QED  BY <1>4, <1>7, <1>8, <1>9

-----------------------------------------------------------------------------
(* The steps of the caller.                                                   *)

Calling ==
  /\ Shapes /\ OutputInv /\ Ours /\ Agreed /\ WrittenInv /\ ReadInv
  /\ peer.protocol \in Protocols /\ (web \/ node) /\ cl.pc \notin {"none", "done"}

(* A step of a call keeps the contract, and the call goes on or has ended.    *)
Kept == /\ [Contract!Next]_(Contract!vars)
        /\ cl'.pc = "done" \/ (cl'.pc # "none" /\ WrittenInv' /\ ReadInv')

(* A numbered sequence is the numbers up to its length.                       *)
LEMMA NumbersAre ==
  ASSUME NEW s \in Seq(Nat), Ordered(s)
  PROVE  Len(s) \in Nat /\ s = [i \in 1 .. Len(s) |-> i]
         /\ Append(s, Len(s) + 1) \in Seq(Nat) /\ Ordered(Append(s, Len(s) + 1))
         /\ Len(Append(s, Len(s) + 1)) = Len(s) + 1
<1>1. \A i \in 1 .. Len(s) : s[i] = i
  BY DEF Ordered
<1>2. Len(s) \in Nat /\ s = [i \in 1 .. Len(s) |-> s[i]]
  OBVIOUS
<1>3. s = [i \in 1 .. Len(s) |-> i]
  BY <1>1, <1>2
<1> DEFINE t == Append(s, Len(s) + 1)
<1>4. t \in Seq(Nat) /\ Len(t) = Len(s) + 1
  BY <1>2
<1>5. \A i \in 1 .. Len(s) + 1 : t[i] = i
  BY <1>1, <1>2
<1>6. Ordered(t)
  BY <1>2, <1>4, <1>5 DEF Ordered
<1> QED  BY <1>2, <1>3, <1>4, <1>6

(* A caller that reads changes nothing of what was written.                   *)
LEMMA WrittenIsKept ==
  ASSUME WrittenInv, UNCHANGED <<call, srv, down, peer, lost>>
  PROVE  WrittenInv'
<1>1. /\ StreamHead' = StreamHead /\ (streamHandler' <=> streamHandler) /\ (endFlag' <=> endFlag)
      /\ \A i : Envelope(i, Compressed)' = Envelope(i, Compressed)
  BY CallIsRead
<1>2. EndOf(srv.fin[1], srv.trailer)' = EndOf(srv.fin[1], srv.trailer)
  <2>1. Compressed' = Compressed
    BY RequestIsRead DEF Compressed
  <2> QED  BY <2>1 DEF EndOf
<1>3. UnaryEnded(srv.fin[1], 1, srv.trailer)' = UnaryEnded(srv.fin[1], 1, srv.trailer)
  <2>1. compression' = compression /\ selectedProtocol' = selectedProtocol
    BY RequestIsRead
  <2>2. requestType' = requestType
    BY <2>1 DEF requestType, isGet
  <2>3. responseType' = responseType /\ Compressed' = Compressed
    BY <2>1, <2>2 DEF responseType, Compressed
  <2> QED  BY <2>1, <2>3 DEF UnaryEnded
<1>4. StreamWritten => StreamWritten'
  <2>1. \A i : IsFrame(i, down.frames[i]) => IsFrame(i, down.frames[i])'
    BY <1>1, <1>2 DEF IsFrame
  <2> QED  BY <1>1, <2>1 DEF StreamWritten
<1>5. UnaryWritten => UnaryWritten'
  BY <1>3 DEF UnaryWritten
<1> QED  BY <1>1, <1>4, <1>5 DEF WrittenInv

(* What an ending step does is said by the contract.                          *)
LEMMA EndIsKept ==
  ASSUME ClShape(cl), Contract!Next,
         \E error, msgs, trailer : Settle(error, msgs, trailer)
  PROVE  Kept
<1>1. cl'.pc = "done"
  BY SettledExactly
<1> QED  BY <1>1 DEF Kept

(* A call fails when the connection was lost.                                 *)
LEMMA LossIsKept ==
  ASSUME Calling, lost, lost' = lost, NEW code, Fail(code)
  PROVE  Kept
<1>1. ClShape(cl) /\ cl.outcome = << >> /\ Ours
  BY DEF Calling, Shapes, ReadInv
<1>2. Contract!Next
  BY <1>1, FailsLost
<1>3. \E error, msgs, trailer : Settle(error, msgs, trailer)
  BY Zenon DEF Fail
<1> QED  BY <1>1, <1>2, <1>3, EndIsKept

(* Requests go out, whatever comes in.                                        *)
LEMMA RequestKept ==
  ASSUME Calling, SendMessage \/ SendEnd, lost' = lost
  PROVE  Kept
<1>1. ClShape(cl) /\ UpShape(up)
  BY DEF Calling, Shapes
<1>2. /\ cl'.pc = cl.pc /\ cl'.read = cl.read /\ cl'.msgs = cl.msgs /\ cl'.trailer = cl.trailer
      /\ cl'.outcome = cl.outcome /\ UNCHANGED <<call, srv, down, peer>>
  BY <1>1, SendMessageFields, SendEndFields
<1>3. UNCHANGED Contract!vars
  BY <1>2, CallerReadsOn
<1>4. WrittenInv'
  BY <1>2, WrittenIsKept DEF Calling
<1>5. ReadInv'
  <2>1. /\ (streamHandler' <=> streamHandler) /\ (unaryHandler' <=> unaryHandler)
        /\ (unaryCall' <=> unaryCall)
    BY <1>2, CallIsRead
  <2>2. BodyRead => BodyRead'
    BY <1>2, <2>1 DEF BodyRead
  <2> QED  BY <1>2, <2>1, <2>2 DEF Calling, ReadInv, Ordered
<1> QED  BY <1>2, <1>3, <1>4, <1>5 DEF Kept, Calling

(* The head of the response is accepted.                                      *)
LEMMA HeadKept ==
  ASSUME Calling, ReadHead, lost' = lost
  PROVE  Kept
<1>1. /\ ClShape(cl) /\ cl.pc = "sending" /\ down.head # << >> /\ WrittenInv /\ ReadInv
  BY Zenon DEF Calling, Shapes, ReadHead
<1>2. HeadError = << >>
  <2>1. CASE streamHandler
    BY <1>1, <2>1, StreamHeadIsFine DEF Calling, WrittenInv, StreamWritten
  <2>2. CASE ~streamHandler
    <3>1. /\ unaryHandler /\ srv.fin # << >>
          /\ down.head = UnaryEnded(srv.fin[1], 1, srv.trailer).head
      BY <1>1, <2>2 DEF WrittenInv, UnaryWritten, streamHandler
    <3>2. Settable(srv.trailer)
      BY DEF Calling, OutputInv, Ours
    <3> QED  BY <3>1, <3>2, UnaryHeadIsFine DEF Calling
  <2> QED  BY <2>1, <2>2
<1> DEFINE pc == IF peer.protocol = "connect" /\ unaryCall THEN "unary" ELSE "body"
<1>3. cl' = [cl EXCEPT !.pc = pc] /\ UNCHANGED <<call, up, srv, down, peer>>
  BY <1>2, Zenon DEF ReadHead
<1>4. pc \in {"unary", "body"} /\ (pc = "unary" <=> unaryHandler)
  BY DEF Calling, Agreed, unaryHandler, unaryCall
<1> HIDE DEF pc
<1>5. /\ cl'.pc = pc /\ cl'.read = cl.read /\ cl'.msgs = cl.msgs /\ cl'.trailer = cl.trailer
      /\ cl'.outcome = cl.outcome
  BY <1>1, <1>3 DEF ClShape
<1>6. UNCHANGED Contract!vars
  BY <1>1, <1>3, <1>4, <1>5, CallerReadsOn
<1>7. WrittenInv'
  BY <1>3, WrittenIsKept DEF Calling
<1>8. ReadInv'
  <2>1. /\ (streamHandler' <=> streamHandler) /\ (unaryHandler' <=> unaryHandler)
        /\ (unaryCall' <=> unaryCall)
    BY <1>3, CallIsRead
  <2>2. cl.msgs = << >> /\ cl.read = 0 /\ cl.trailer = << >>
    BY <1>1 DEF ReadInv
  <2>3. Len(down.frames) \in Nat
    BY <1>1, NothingIsSequence DEF WrittenInv
  <2>4. srv.out \in Nat
    BY DEF Calling, OutputInv, Ours
  <2>5. BodyRead'
    BY <1>3, <1>5, <2>2, <2>3, <2>4 DEF BodyRead
  <2> QED  BY <1>1, <1>3, <1>4, <1>5, <2>1, <2>5 DEF ReadInv, streamHandler, Ordered
<1> QED  BY <1>4, <1>5, <1>6, <1>7, <1>8 DEF Kept

(* There is no head when the connection was lost before it.                   *)
LEMMA NoHeadKept ==
  ASSUME Calling, NoHead, lost' = lost
  PROVE  Kept
<1>1. down.head = << >> /\ down.end # "open" /\ \E code \in LostCodes : Fail(code)
  BY Zenon DEF NoHead
<1>2. lost
  BY <1>1 DEF Calling, WrittenInv
<1> QED  BY <1>1, <1>2, LossIsKept

(* A unary response of Connect is read as a whole.                            *)
LEMMA ConnectUnaryKept ==
  ASSUME Calling, ReadConnectUnary, lost' = lost
  PROVE  Kept
<1>1. /\ ClShape(cl) /\ cl.pc = "unary" /\ down.end # "open" /\ down.end # "partial"
      /\ cl.outcome = << >> /\ Ours /\ unaryHandler /\ unaryCall
  BY Zenon DEF Calling, Shapes, ReadConnectUnary, WrittenInv, ReadInv, unaryHandler, unaryCall
<1>2. CASE down.end = "cut"
  <2>1. \E code \in LostCodes : Fail(code)
    BY <1>2, Zenon DEF ReadConnectUnary
  <2>2. lost
    BY <1>2 DEF Calling, WrittenInv
  <2> QED  BY <2>1, <2>2, LossIsKept
<1>3. CASE down.end = "end"
  <2> DEFINE error == srv.fin[1]
             t     == srv.trailer
             muxed == trailerDemux(head.fields)
  <2>1. /\ srv.fin # << >> /\ down = UnaryEnded(error, 1, t)
        /\ Told(error) /\ Settable(t) /\ (error = << >> => srv.out = 1)
    <3>1. srv.fin # << >> /\ down = UnaryEnded(error, 1, t)
      BY <1>1, <1>3 DEF Calling, WrittenInv, UnaryWritten, streamHandler
    <3>2. /\ srv.fin = <<srv.fin[1]>> /\ Told(error) /\ Settable(t)
          /\ srv.fin = << << >> >> => srv.out = 1
      BY <1>1, <3>1 DEF Calling, OutputInv, Ours, OneReply, unaryCall
    <3> QED  BY <3>1, <3>2
  <2>2. /\ isUnaryError <=> error # << >>
        /\ Compressed <=> head.encoding \notin {Unset, "identity"}
        /\ error = << >> => muxed[2] = t
    BY <1>1, <2>1, UnaryHeadIsFine DEF Calling
  <2>3. CASE error = << >>
    <3>1. down.frames = <<Envelope(1, Compressed)>>
      BY <2>1, <2>3 DEF UnaryEnded
    <3>2. BodyParses /\ down.frames[1].msg = 1
      <4>1. /\ Envelope(1, Compressed).valid /\ ~Envelope(1, Compressed).end
            /\ Envelope(1, Compressed).comp = Compressed /\ Envelope(1, Compressed).msg = 1
        BY DEF Envelope
      <4>2. Len(down.frames) = 1 /\ down.frames[1] = Envelope(1, Compressed)
        BY <3>1
      <4>3. Compressed = (head.encoding \notin {Unset, "identity"})
        BY <2>2 DEF Compressed
      <4> QED  BY <4>1, <4>2, <4>3 DEF BodyParses
    <3>3. Settle(<< >>, <<down.frames[1].msg>>, muxed[2])
      BY <1>1, <1>3, <2>2, <2>3, <3>2, Zenon DEF ReadConnectUnary
    <3>4. Settle(<< >>, <<1>>, t)
      BY <2>2, <2>3, <3>2, <3>3
    <3>5. <<1>> = [i \in 1 .. srv.out |-> i]
      BY <2>1, <2>3
    <3>6. Contract!Next
      BY <1>1, <2>1, <2>3, <3>4, <3>5, Succeeds
    <3> QED  BY <1>1, <3>4, <3>6, EndIsKept
  <2>4. CASE error # << >>
    <3>1. error = <<error[1]>> /\ Sendable(error[1])
      BY <2>1, <2>4 DEF Told
    <3>2. down.json[1].valid /\ down.json[1].json = errorToJson(error[1])
      <4>1. down.json = <<[valid |-> TRUE, json |-> errorToJson(error[1])]>>
        BY <2>1, <2>4 DEF UnaryEnded
      <4> QED  BY <4>1
    <3> DEFINE metadata == appendHeaders(muxed[1], muxed[2])
               read     == errorFromJsonBytes(down.json[1], metadata, connectStatusError)
               e        == error[1]
    <3>3. read = Returned(Error(e.code, e.message, e.details, metadata))
      <4>1. read = errorFromJson(errorToJson(e), metadata, connectStatusError)
        BY <3>2 DEF errorFromJsonBytes
      <4> HIDE DEF read, metadata, e
      <4> QED  BY <3>1, <4>1, JsonKeepsErrors DEF e
    <3>4. Settle(<<read.error>>, << >>, EmptyHeaders)
      BY <1>1, <1>3, <2>2, <2>4, <3>2, Zenon DEF ReadConnectUnary
    <3> HIDE DEF read, metadata
    <3>5. read.error = Error(e.code, e.message, e.details, metadata)
      BY <3>3 DEF Returned
    <3>6. Wire(<<read.error>>) = Wire(error)
      <4>1. error = <<e>>
        BY <3>1
      <4> HIDE DEF e, error
      <4>2. Wire(<<Error(e.code, e.message, e.details, metadata)>>) = Wire(<<e>>)
        BY WireIs, Zenon
      <4> QED  BY <3>5, <4>1, <4>2
    <3>7. Contract!Next
      <4> HIDE DEF e
      <4>1. <<read.error>> # << >>
        OBVIOUS
      <4> QED  BY <1>1, <2>1, <2>4, <3>4, <3>6, <4>1, FailsWith
    <3> QED  BY <1>1, <3>4, <3>7, EndIsKept
  <2> QED  BY <2>3, <2>4
<1>4. down.end \in {"cut", "end"}
  BY <1>1 DEF Calling, WrittenInv
<1> QED  BY <1>2, <1>3, <1>4

-----------------------------------------------------------------------------
(* The next envelope of a stream is the next message, or the end after all of *)
(* them.                                                                      *)
NextIsMessage ==
  /\ cl.read < srv.out /\ Unread = Envelope(cl.read + 1, Compressed) /\ ~IsEnd(Unread)
NextIsEnd ==
  /\ endFlag /\ srv.fin # << >> /\ cl.read = srv.out
  /\ Unread = EndOf(srv.fin[1], srv.trailer) /\ IsEnd(Unread)

(* What a caller reading a stream knows.                                      *)
LEMMA StreamIsRead ==
  ASSUME Calling, cl.pc = "body"
  PROVE  /\ ClShape(cl) /\ DownShape(down) /\ cl.outcome = << >> /\ Ours /\ cl.msgs \in Seq(Nat)
         /\ Ordered(cl.msgs) /\ srv.out \in Nat /\ Len(down.frames) \in Nat /\ BodyRead
         /\ StreamWritten /\ streamHandler /\ ~foundStatus /\ ~trailersOnly
         /\ Compressed => ~web /\ node /\ responseEncoding.name # Unset
         /\ \A f : f.valid /\ f.comp = Compressed => Parses(f)
         /\ peer.protocol = "connect" => ~unaryCall
         /\ unaryCall => srv.out <= 1
         /\ srv.fin # << >> => /\ Told(srv.fin[1]) /\ Settable(srv.trailer)
                               /\ OneReply /\ srv.fin[1] = << >> => srv.out = 1
<1>1. /\ ClShape(cl) /\ DownShape(down) /\ cl.outcome = << >> /\ Ours /\ cl.msgs \in Seq(Nat)
      /\ Ordered(cl.msgs) /\ BodyRead /\ streamHandler /\ StreamWritten
      /\ down.head # << >> /\ IsSequence(down.frames)
  BY DEF Calling, Shapes, ReadInv, WrittenInv
<1>2. /\ srv.out \in Nat /\ (OneReply => srv.out <= 1)
      /\ srv.fin # << >> => /\ srv.fin = <<srv.fin[1]>> /\ Told(srv.fin[1]) /\ Settable(srv.trailer)
      /\ OneReply => (srv.fin = << << >> >> => srv.out = 1)
  BY <1>1 DEF Calling, OutputInv, Ours
<1>3. Len(down.frames) \in Nat
  BY <1>1, NothingIsSequence
<1>4. down.head = StreamHead
  BY <1>1 DEF StreamWritten
<1>5. ~foundStatus /\ ~trailersOnly /\ (Compressed => ~web /\ node /\ responseEncoding.name # Unset)
  BY <1>4, StreamHeadIsFine DEF Calling
<1>6. \A f : f.valid /\ f.comp = Compressed => Parses(f)
  BY <1>5 DEF Parses
<1>7. /\ peer.protocol = "connect" => ~unaryCall
      /\ unaryCall => OneReply
  BY <1>1 DEF Calling, Agreed, streamHandler, unaryHandler, unaryCall, OneReply
<1>8. srv.fin # << >> /\ srv.fin[1] = << >> => srv.fin = << << >> >>
  BY <1>2
<1> QED  BY <1>1, <1>2, <1>3, <1>5, <1>6, <1>7, <1>8

(* It reads what the server wrote next, and refuses none of it.               *)
LEMMA NextFrame ==
  ASSUME Calling, cl.pc = "body", cl.read < Len(down.frames)
  PROVE  /\ NextIsMessage \/ NextIsEnd
         /\ cl.trailer = << >> /\ Len(cl.msgs) = cl.read /\ cl.read \in Nat
         /\ ~Refused /\ Parses(Unread)
<1>1. /\ srv.out \in Nat /\ Len(down.frames) \in Nat /\ BodyRead /\ StreamWritten
      /\ cl.msgs \in Seq(Nat) /\ ~trailersOnly /\ (unaryCall => srv.out <= 1)
      /\ Compressed => ~web
      /\ \A f : f.valid /\ f.comp = Compressed => Parses(f)
  BY StreamIsRead
<1>2. cl.read \in Nat /\ cl.read + 1 \in 1 .. Len(down.frames)
  BY <1>1 DEF BodyRead
<1>3. IsFrame(cl.read + 1, Unread)
  BY <1>1, <1>2 DEF StreamWritten, Unread
<1>4. cl.read + 1 <= srv.out + 1
  BY <1>1, <1>2, <1>3 DEF IsFrame
<1>5. cl.trailer = << >> /\ Len(cl.msgs) = cl.read
  BY <1>1, <1>2, <1>4 DEF BodyRead
<1>6. CASE cl.read + 1 <= srv.out
  <2>1. Unread = Envelope(cl.read + 1, Compressed)
    BY <1>3, <1>6 DEF IsFrame
  <2>2. Unread.valid /\ Unread.comp = Compressed /\ ~Unread.end
    BY <2>1 DEF Envelope
  <2>3. ~IsEnd(Unread) /\ Parses(Unread)
    BY <1>1, <2>2 DEF IsEnd
  <2>4. unaryCall => cl.msgs = << >>
    <3>1. unaryCall => Len(cl.msgs) = 0
      BY <1>1, <1>2, <1>5, <1>6
    <3> QED  BY <1>1, <3>1
  <2>5. ~Refused
    BY <1>1, <1>5, <2>3, <2>4
       DEF Refused, unaryRefuses, connectStreamRefuses, grpcWebStreamRefuses
  <2>6. NextIsMessage
    BY <1>1, <1>2, <1>6, <2>1, <2>3 DEF NextIsMessage
  <2> QED  BY <1>2, <1>5, <2>3, <2>5, <2>6
<1>7. CASE ~(cl.read + 1 <= srv.out)
  <2>1. /\ endFlag /\ srv.fin # << >> /\ cl.read = srv.out
        /\ Unread = EndOf(srv.fin[1], srv.trailer)
    BY <1>1, <1>2, <1>3, <1>7 DEF IsFrame
  <2>2. Unread.valid /\ Unread.comp = Compressed /\ Unread.end
    BY <2>1 DEF EndOf, EndEnvelope
  <2>3. IsEnd(Unread) /\ Parses(Unread)
    BY <1>1, <2>1, <2>2 DEF IsEnd
  <2>4. ~Refused
    BY <1>1, <1>5, <2>3 DEF Refused, unaryRefuses, connectStreamRefuses, grpcWebStreamRefuses
  <2> QED  BY <1>2, <1>5, <2>1, <2>3, <2>4 DEF NextIsEnd
<1> QED  BY <1>6, <1>7

(* Messages are received in order.                                            *)
LEMMA MessageKept ==
  ASSUME Calling, ReadMessage, lost' = lost
  PROVE  Kept
<1>1. cl.pc = "body" /\ cl.read < Len(down.frames) /\ ~IsEnd(Unread)
  BY Zenon DEF ReadMessage
<1>2. /\ ~Refused /\ Parses(Unread) /\ NextIsMessage
      /\ cl.trailer = << >> /\ Len(cl.msgs) = cl.read /\ cl.read \in Nat
  BY <1>1, NextFrame DEF NextIsEnd
<1>3. cl' = [[cl EXCEPT !.read = cl.read + 1] EXCEPT !.msgs = Append(@, Unread.msg)]
      /\ UNCHANGED <<call, up, srv, down, peer>>
  BY <1>2, Zenon DEF ReadMessage, Read
<1>4. /\ ClShape(cl) /\ cl.outcome = << >> /\ Ours /\ cl.msgs \in Seq(Nat) /\ Ordered(cl.msgs)
      /\ srv.out \in Nat /\ Len(down.frames) \in Nat /\ BodyRead
  BY <1>1, StreamIsRead
<1>5. Unread.msg = cl.read + 1 /\ cl.read < srv.out
  BY <1>2 DEF NextIsMessage, Envelope
<1>6. /\ cl'.pc = "body" /\ cl'.read = cl.read + 1 /\ cl'.trailer = cl.trailer
      /\ cl'.outcome = cl.outcome /\ cl'.msgs = Append(cl.msgs, Len(cl.msgs) + 1)
  BY <1>1, <1>2, <1>3, <1>4, <1>5 DEF ClShape
<1>7. Contract!Next
  BY <1>2, <1>3, <1>4, <1>5, <1>6, Receives
<1>8. WrittenInv'
  BY <1>3, WrittenIsKept DEF Calling
<1>9. /\ cl'.msgs \in Seq(Nat) /\ Ordered(cl.msgs)' /\ Len(cl'.msgs) = cl.read + 1
  <2> DEFINE s == cl.msgs
             t == Append(s, Len(s) + 1)
  <2>1. t \in Seq(Nat) /\ Ordered(t) /\ Len(t) = Len(s) + 1
    <3> HIDE DEF s
    <3> QED  BY <1>4, NumbersAre DEF s
  <2>2. cl'.msgs = t
    BY <1>6
  <2> HIDE DEF t
  <2>3. Ordered(cl.msgs)'
    BY <2>1, <2>2 DEF Ordered
  <2> QED  BY <1>2, <2>1, <2>2, <2>3
<1>10. BodyRead'
  <2>1. cl'.read \in 0 .. Len(down.frames) /\ cl'.read <= srv.out
    BY <1>1, <1>2, <1>4, <1>5, <1>6
  <2> QED  BY <1>2, <1>3, <1>6, <1>9, <2>1 DEF BodyRead
<1>11. ReadInv'
  <2>1. streamHandler' /\ down.head # << >>
    BY <1>1, <1>3, CallIsRead DEF Calling, ReadInv
  <2> QED  BY <1>3, <1>4, <1>6, <1>9, <1>10, <2>1 DEF ReadInv
<1> QED  BY <1>6, <1>7, <1>8, <1>11 DEF Kept

(* The end is read as the server wrote it.                                    *)
LEMMA EndIsRead ==
  ASSUME Calling, cl.pc = "body", cl.read < Len(down.frames), NextIsEnd
  PROVE  /\ srv.fin[1] # << >> /\ ~unaryCall => EndError # << >> /\ Wire(EndError) = Wire(srv.fin[1])
         /\ srv.fin[1] = << >> => EndError = << >>
         /\ unaryCall \/ srv.fin[1] = << >> =>
              EndTrailer = IF peer.protocol = "connect" THEN srv.trailer
                           ELSE grpcFields(srv.fin[1], srv.trailer)
<1> DEFINE error == srv.fin[1]
           t     == srv.trailer
<1>1. /\ Told(error) /\ Settable(t) /\ Unread = EndOf(error, t) /\ endFlag
      /\ (peer.protocol = "connect" => ~unaryCall) /\ (Compressed => ~web)
  BY StreamIsRead DEF NextIsEnd
<1> HIDE DEF error, t
<1>2. CASE peer.protocol = "connect"
  <2>1. Unread.es[1] = endStreamToJson(t, error)
    BY <1>1, <1>2 DEF EndOf, EndEnvelope
  <2> DEFINE read == endStreamFromJson(endStreamToJson(t, error))
  <2>2. /\ ~read.thrown
        /\ error = << >> => read.error = << >> /\ read.metadata = t
        /\ error # << >> => read.error # << >> /\ Wire(read.error) = Wire(error)
    BY <1>1, EndStreamKeeps
  <2>3. EndTrailer = read.metadata /\ (~read.thrown => EndError = read.error)
    BY <1>2, <2>1 DEF EndTrailer, EndError
  <2> QED  BY <1>1, <1>2, <2>2, <2>3 DEF error, t
<1>3. CASE peer.protocol # "connect"
  <2> DEFINE f == grpcFields(error, t)
  <2>1. Unread.tr[1] = trailerSerialize(f) /\ Unread.comp = Compressed
    BY <1>1, <1>3 DEF EndOf, EndEnvelope
  <2>2. trailerParse(trailerSerialize(f)) = f
    <3>1. f = [k \in DOMAIN f |-> f[k]] /\ IsFiniteSet(DOMAIN f) /\ Plain(Absent) \notin DOMAIN f
      BY <1>1, FieldsAreLines
    <3> HIDE DEF f
    <3> QED  BY <3>1, BlockSurvives
  <2>3. EndFields = f
    BY <1>1, <2>1, <2>2 DEF EndFields
  <2>4. /\ error = << >> => findTrailerError(f) = << >>
        /\ error # << >> => findTrailerError(f) # << >> /\ Wire(findTrailerError(f)) = Wire(error)
    BY <1>1, StatusFieldsKeep
  <2>5. EndError = findTrailerError(f) /\ EndTrailer = f
    BY <1>3, <2>3 DEF EndError, EndTrailer
  <2> QED  BY <1>3, <2>4, <2>5 DEF error, t
<1> QED  BY <1>2, <1>3

(* An end is kept until the end of the body, or raises its error.             *)
LEMMA EndKept ==
  ASSUME Calling, ReadEnd, lost' = lost
  PROVE  Kept
<1>1. cl.pc = "body" /\ cl.read < Len(down.frames) /\ IsEnd(Unread)
  BY Zenon DEF ReadEnd
<1>2. /\ ~Refused /\ Parses(Unread) /\ NextIsEnd
      /\ cl.trailer = << >> /\ Len(cl.msgs) = cl.read /\ cl.read \in Nat
  BY <1>1, NextFrame DEF NextIsMessage
<1>3. /\ ClShape(cl) /\ cl.outcome = << >> /\ Ours /\ cl.msgs \in Seq(Nat) /\ Ordered(cl.msgs)
      /\ srv.out \in Nat /\ Len(down.frames) \in Nat /\ BodyRead
  BY <1>1, StreamIsRead
<1>4. srv.fin # << >> /\ cl.read = srv.out
  BY <1>2 DEF NextIsEnd
<1>5. /\ srv.fin[1] # << >> /\ ~unaryCall => EndError # << >> /\ Wire(EndError) = Wire(srv.fin[1])
      /\ srv.fin[1] = << >> => EndError = << >>
      /\ unaryCall \/ srv.fin[1] = << >> =>
           EndTrailer = IF peer.protocol = "connect" THEN srv.trailer
                        ELSE grpcFields(srv.fin[1], srv.trailer)
  BY <1>1, <1>2, EndIsRead
<1>6. CASE ~unaryCall /\ srv.fin[1] # << >>
  <2>1. EndError # << >> /\ Wire(EndError) = Wire(srv.fin[1])
    BY <1>5, <1>6
  <2>2. Settle(EndError, cl.msgs, EmptyHeaders)
    BY <1>2, <1>6, <2>1, Zenon DEF ReadEnd
  <2>3. Contract!Next
    BY <1>3, <1>4, <1>6, <2>1, <2>2, FailsWith
  <2> QED  BY <1>3, <2>2, <2>3, EndIsKept
<1>7. CASE ~(~unaryCall /\ srv.fin[1] # << >>)
  <2> DEFINE t == IF cl.trailer = << >> THEN EndTrailer ELSE SetAll(cl.trailer[1], EndTrailer)
             q == IF peer.protocol = "connect" THEN srv.trailer
                  ELSE grpcFields(srv.fin[1], srv.trailer)
  <2>1. /\ cl' = [[cl EXCEPT !.read = cl.read + 1] EXCEPT !.trailer =
                    <<IF @ = << >> THEN EndTrailer ELSE SetAll(@[1], EndTrailer)>>]
        /\ UNCHANGED <<call, up, srv, down, peer>>
    <3>1. ~(~unaryCall /\ EndError # << >>)
      BY <1>5, <1>7
    <3> QED  BY <1>2, <3>1, Zenon DEF ReadEnd, Read
  <2>2. t = q
    BY <1>2, <1>5, <1>7
  <2>3. cl' = [[cl EXCEPT !.read = cl.read + 1] EXCEPT !.trailer = <<t>>]
    BY <1>3, <2>1 DEF ClShape
  <2> HIDE DEF t, q
  <2>4. /\ cl'.pc = "body" /\ cl'.read = cl.read + 1 /\ cl'.trailer = <<t>>
        /\ cl'.outcome = cl.outcome /\ cl'.msgs = cl.msgs
    BY <1>1, <1>3, <2>3 DEF ClShape
  <2>5. UNCHANGED Contract!vars
    BY <1>1, <2>1, <2>4, CallerReadsOn
  <2>6. WrittenInv'
    BY <2>1, WrittenIsKept DEF Calling
  <2>7. unaryCall' <=> unaryCall
    BY <2>1, CallIsRead
  <2>8. BodyRead'
    <3>1. cl'.read \in 0 .. Len(down.frames) /\ cl'.read = srv.out + 1 /\ Len(cl'.msgs) = srv.out
      BY <1>1, <1>2, <1>3, <1>4, <2>4
    <3>2. cl'.trailer = IF peer.protocol = "connect" THEN <<srv.trailer>>
                        ELSE <<grpcFields(srv.fin[1], srv.trailer)>>
      BY <2>2, <2>4 DEF q
    <3>3. cl'.trailer # << >>
      BY <2>4
    <3>4. grpcFields(srv.fin[1], srv.trailer)' = grpcFields(srv.fin[1], srv.trailer)
      BY <2>1
    <3> QED  BY <1>4, <1>7, <2>1, <2>7, <3>1, <3>2, <3>3, <3>4 DEF BodyRead
  <2>9. ReadInv'
    <3>1. streamHandler' /\ down.head # << >>
      BY <1>1, <2>1, CallIsRead DEF Calling, ReadInv
    <3> QED  BY <1>3, <2>1, <2>4, <2>8, <3>1 DEF ReadInv, Ordered
  <2> QED  BY <2>4, <2>5, <2>6, <2>9 DEF Kept
<1> QED  BY <1>6, <1>7

(* The end of the body is the end of the call, with what the server said.     *)
LEMMA BodyEndKept ==
  ASSUME Calling, ReadBodyEnd, lost' = lost
  PROVE  Kept
<1>1. cl.pc = "body" /\ cl.read = Len(down.frames) /\ down.end # "open"
  BY Zenon DEF ReadBodyEnd, BodyEnds
<1>2. /\ ClShape(cl) /\ cl.outcome = << >> /\ Ours /\ cl.msgs \in Seq(Nat) /\ Ordered(cl.msgs)
      /\ srv.out \in Nat /\ Len(down.frames) \in Nat /\ BodyRead /\ StreamWritten
      /\ ~foundStatus /\ ~trailersOnly /\ (peer.protocol = "connect" => ~unaryCall)
  BY <1>1, StreamIsRead
<1>3. CASE down.end = "cut"
  <2>1. \E code \in LostCodes : Fail(code)
    BY <1>3, Zenon DEF ReadBodyEnd
  <2>2. lost
    BY <1>3 DEF Calling, WrittenInv
  <2> QED  BY <2>1, <2>2, LossIsKept
<1>4. CASE down.end = "end"
  <2> DEFINE trailer == IF peer.protocol = "grpc" THEN <<down.trailer>> ELSE cl.trailer
             fields  == IF trailer = << >> THEN EmptyHeaders ELSE trailer[1]
             sent    == IF peer.protocol = "connect" THEN srv.trailer
                        ELSE grpcFields(srv.fin[1], srv.trailer)
  <2>1. srv.fin # << >>
    BY <1>4 DEF Calling, WrittenInv
  <2>2. /\ Told(srv.fin[1]) /\ Settable(srv.trailer)
        /\ OneReply /\ srv.fin[1] = << >> => srv.out = 1
    BY <1>1, <2>1, StreamIsRead
  <2>3. Len(cl.msgs) = srv.out /\ (endFlag => cl.trailer # << >>)
    BY <1>1, <1>2, <1>4 DEF StreamWritten, BodyRead
  <2>4. trailer = <<sent>> /\ (endFlag /\ ~unaryCall => srv.fin[1] = << >>)
    <3>1. CASE endFlag
      BY <1>2, <2>3, <3>1 DEF BodyRead, endFlag
    <3>2. CASE ~endFlag
      BY <1>2, <1>4, <3>2 DEF StreamWritten, endFlag
    <3> QED  BY <3>1, <3>2
  <2> HIDE DEF trailer
  <2>5. fields = sent
    BY <2>4
  <2>6. /\ srv.fin[1] = << >> => BodyError = << >>
        /\ srv.fin[1] # << >> => BodyError # << >> /\ Wire(BodyError) = Wire(srv.fin[1])
    <3>1. CASE peer.protocol = "connect"
      <4>1. BodyError = << >> /\ srv.fin[1] = << >>
        BY <1>2, <2>3, <2>4, <3>1 DEF BodyError, connectBodyError, endFlag
      <4> QED  BY <4>1
    <3>2. CASE peer.protocol # "connect"
      <4>1. BodyError = findTrailerError(grpcFields(srv.fin[1], srv.trailer))
        <5>1. CASE peer.protocol = "grpc"
          <6>1. down.trailer = sent
            BY <2>4, <5>1 DEF trailer
          <6> QED  BY <1>2, <3>2, <5>1, <6>1 DEF BodyError, grpcBodyError
        <5>2. CASE peer.protocol = "grpc-web"
          <6>1. cl.trailer = <<sent>>
            BY <2>4, <5>2 DEF trailer
          <6>2. cl.trailer # << >> /\ cl.trailer[1] = sent
            BY <6>1
          <6> QED  BY <1>2, <3>2, <5>2, <6>2 DEF BodyError, grpcWebBodyError
        <5> QED  BY <3>2, <5>1, <5>2 DEF Calling, Protocols
      <4> QED  BY <2>2, <4>1, StatusFieldsKeep
    <3> QED  BY <3>1, <3>2
  <2>7. CASE srv.fin[1] # << >>
    <3>1. BodyError # << >> /\ Wire(BodyError) = Wire(srv.fin[1])
      BY <2>6, <2>7
    <3>2. Settle(BodyError, cl.msgs, EmptyHeaders)
      BY <1>4, <3>1, Zenon DEF ReadBodyEnd
    <3>3. Contract!Next
      BY <1>2, <2>1, <2>7, <3>1, <3>2, FailsWith
    <3> QED  BY <1>2, <3>2, <3>3, EndIsKept
  <2>8. CASE srv.fin[1] = << >>
    <3>1. BodyError = << >>
      BY <2>6, <2>8
    <3>2. unaryCall \/ call.kind = ClientStreaming => cl.msgs # << >>
      <4>1. unaryCall \/ call.kind = ClientStreaming => Len(cl.msgs) = 1
        BY <2>2, <2>3, <2>8 DEF unaryCall, OneReply
      <4> QED  BY <4>1
    <3>3. Answer(fields)
      BY <1>4, <3>1, <3>2, Zenon DEF ReadBodyEnd, trailer
    <3>4. Settle(<< >>, cl.msgs, sent)
      BY <2>5, <3>2, <3>3, Zenon DEF Answer
    <3>5. cl.msgs = [i \in 1 .. srv.out |-> i]
      <4> DEFINE s == cl.msgs
      <4>1. s \in Seq(Nat) /\ Ordered(s)
        BY <1>2
      <4> HIDE DEF s
      <4>2. s = [i \in 1 .. Len(s) |-> i]
        BY <4>1, NumbersAre
      <4> QED  BY <2>3, <4>2 DEF s
    <3>6. App(sent) = App(srv.trailer)
      BY <2>2, <2>8, StatusIsNoField
    <3> HIDE DEF sent, fields
    <3>7. Contract!Next
      BY <1>2, <2>1, <2>8, <3>4, <3>5, <3>6, Succeeds
    <3> QED  BY <1>2, <3>4, <3>7, EndIsKept
  <2> QED  BY <2>7, <2>8
<1>5. down.end \in {"cut", "end"}
  BY <1>1 DEF Calling, WrittenInv
<1> QED  BY <1>3, <1>4, <1>5

(* Every step of the caller of ours.                                          *)
LEMMA CallerKeepsContract ==
  ASSUME Calling, Client
  PROVE  Kept
<1>1. lost' = lost
  BY ClientCases
<1> QED  BY <1>1, ClientCases, RequestKept, HeadKept, NoHeadKept, ConnectUnaryKept, MessageKept,
            EndKept, BodyEndKept

-----------------------------------------------------------------------------
(* Every step of a call of ours keeps the contract.                           *)

(* What is asked is known of a call of ours, and until it is done, how far    *)
(* its response is written and read.                                          *)
LEMMA InitOursInv ==
  ASSUME \A c \in Calls : AcceptsWhatItSends(c.peer)
  PROVE  Init => OursInv
<1> SUFFICES ASSUME Init, Ours
             PROVE  AskedOurs /\ WrittenInv /\ ReadInv
  BY DEF OursInv
<1>1. InitCall
  BY DEF Init, InitRequest, InitResponse, Ours
<1>2. HandlerInit /\ down = NoResponse /\ (\E n : cl = Sending(n)) /\ AskedOurs
  BY <1>1 DEF InitCall, AskedOurs
<1>3. srv.pc = "start" /\ srv.out = 0 /\ srv.fin = << >>
  BY <1>2 DEF HandlerInit
<1>4. down.frames = << >> /\ down.end = "open" /\ down.head = << >>
  BY <1>2 DEF NoResponse
<1>5. IsSequence(down.frames) /\ Len(down.frames) = 0
  BY <1>4, NothingIsSequence
<1>6. StreamWritten /\ UnaryWritten
  BY <1>3, <1>4, <1>5 DEF StreamWritten, UnaryWritten
<1>7. WrittenInv
  BY <1>3, <1>4, <1>5, <1>6 DEF WrittenInv
<1>8. /\ cl.pc = "sending" /\ cl.outcome = << >> /\ cl.msgs = << >> /\ cl.read = 0
      /\ cl.trailer = << >>
  BY <1>2 DEF Sending
<1>9. ReadInv
  BY <1>8 DEF ReadInv, Ordered
<1> QED  BY <1>2, <1>7, <1>9

(* The roles and the call stay.                                               *)
LEMMA StillAsked ==
  ASSUME Shapes, OursInv, [Next]_vars
  PROVE  (Ours' <=> Ours) /\ (Ours => AskedOurs') /\ UNCHANGED <<call, peer>>
<1>1. (cl'.pc = "none" <=> cl.pc = "none") /\ (srv'.pc = "none" <=> srv.pc = "none")
  BY NextShapes
<1>2. UNCHANGED <<call, peer>>
  BY ServerCases, ClientCases DEF Next, Stop, HangUp, Lose, vars
<1> QED  BY <1>1, <1>2 DEF Ours, OursInv, AskedOurs

(* A call of ours knows its client and its server.                            *)
LEMMA CallingOurs ==
  ASSUME Shapes, OutputInv, OursInv, Ours, cl.pc # "done"
  PROVE  Calling
<1>1. AskedOurs /\ WrittenInv /\ ReadInv
  BY DEF OursInv
<1>2. Agreed
  BY <1>1, Agreement
<1>3. peer.protocol \in Protocols /\ (web \/ node)
  BY <1>1, CallsArePosts DEF IsTransport, web, node
<1> QED  BY <1>1, <1>2, <1>3 DEF Calling, Ours

(* A lost connection loses no part of an envelope that was read.              *)
LEMMA LossKeeps ==
  ASSUME Calling, Lose
  PROVE  [Contract!Next]_(Contract!vars) /\ WrittenInv' /\ ReadInv'
<1>1. /\ DownShape(down) /\ WrittenInv /\ ReadInv
  BY DEF Calling, Shapes
<1>2. lost' = TRUE /\ UNCHANGED <<call, srv, peer, cl>>
  BY DEF Lose
<1>3. PICK n \in cl.read .. Len(down.frames) :
        down' = [down EXCEPT !.frames = SubSeq(@, 1, n), !.end = "cut", !.json = << >>]
  BY Zenon DEF Lose
<1>4. Contract!Lose
  BY <1>2 DEF Contract!Lose, Ours, Emitted, Reply, Received, Outcome, End, Wire, App
<1>5. /\ down'.head = down.head /\ down'.frames = SubSeq(down.frames, 1, n) /\ down'.end = "cut"
  BY <1>1, <1>3 DEF DownShape
<1>6. IsSequence(down.frames) /\ Len(down.frames) \in Nat
  BY <1>1, NothingIsSequence DEF WrittenInv
<1>7. /\ StreamHead' = StreamHead /\ (streamHandler' <=> streamHandler)
      /\ (unaryHandler' <=> unaryHandler) /\ (endFlag' <=> endFlag) /\ (unaryCall' <=> unaryCall)
      /\ \A i : Envelope(i, Compressed)' = Envelope(i, Compressed)
      /\ EndOf(srv.fin[1], srv.trailer)' = EndOf(srv.fin[1], srv.trailer)
  <2>1. Compressed' = Compressed
    BY <1>2, RequestIsRead DEF Compressed
  <2> QED  BY <1>2, <2>1, CallIsRead DEF EndOf
<1>8. cl.read \in Nat
  BY <1>1, <1>6 DEF ReadInv, BodyRead
<1>9. n \in 0 .. Len(down.frames) /\ cl.read <= n
  BY <1>3, <1>6, <1>8
<1> DEFINE s == SubSeq(down.frames, 1, n)
<1>10. IsSequence(s) /\ Len(s) = n /\ \A i \in 1 .. n : s[i] = down.frames[i]
  BY <1>6, <1>9, SequenceIsCut
<1>11. down'.frames = s
  BY <1>5
<1> HIDE DEF s
<1>12. StreamWritten => StreamWritten'
  <2>1. SUFFICES ASSUME StreamWritten
                 PROVE  StreamWritten'
    OBVIOUS
  <2>2. ASSUME NEW i \in 1 .. Len(s)
        PROVE  IsFrame(i, down.frames[i])'
    <3>1. i \in 1 .. Len(down.frames) /\ s[i] = down.frames[i]
      BY <1>6, <1>9, <1>10
    <3>2. IsFrame(i, down.frames[i])
      BY <2>1, <3>1 DEF StreamWritten
    <3> QED  BY <1>2, <1>7, <1>11, <3>1, <3>2 DEF IsFrame
  <2> QED  BY <1>5, <1>7, <1>11, <2>1, <2>2 DEF StreamWritten
<1>13. UnaryWritten => UnaryWritten'
  <2>1. UnaryEnded(srv.fin[1], 1, srv.trailer)' = UnaryEnded(srv.fin[1], 1, srv.trailer)
    <3>1. compression' = compression /\ selectedProtocol' = selectedProtocol
      BY <1>2, RequestIsRead
    <3>2. requestType' = requestType
      BY <1>2, <3>1 DEF requestType, isGet
    <3>3. responseType' = responseType /\ Compressed' = Compressed
      BY <1>2, <3>1, <3>2 DEF responseType, Compressed
    <3> QED  BY <1>2, <3>1, <3>3 DEF UnaryEnded
  <2> QED  BY <1>2, <1>5, <2>1 DEF UnaryWritten
<1>14. WrittenInv'
  BY <1>1, <1>2, <1>5, <1>7, <1>10, <1>11, <1>12, <1>13 DEF WrittenInv
<1>15. BodyRead => BodyRead'
  <2>1. cl'.read \in 0 .. Len(down'.frames)
    BY <1>2, <1>8, <1>9, <1>10, <1>11
  <2>2. grpcFields(srv.fin[1], srv.trailer)' = grpcFields(srv.fin[1], srv.trailer)
    BY <1>2
  <2> QED  BY <1>2, <1>7, <2>1, <2>2 DEF BodyRead
<1>16. ReadInv'
  BY <1>1, <1>2, <1>5, <1>7, <1>15 DEF ReadInv, Ordered
<1> QED  BY <1>4, <1>14, <1>16 DEF Contract!Next

(* The server of a call of ours writes on.                                    *)
LEMMA ServerKeepsOurs ==
  ASSUME Shapes, OutputInv, OursInv, Server \/ Stop, Ours, cl.pc # "done"
  PROVE  WrittenInv' /\ ReadInv'
<1>1. Calling
  BY CallingOurs
<1>2. /\ WrittenInv /\ ReadInv /\ Agreed /\ peer.protocol \in Protocols /\ SrvShape(srv)
      /\ srv.pc # "none"
  BY <1>1 DEF Calling, Shapes, Ours
<1>3. /\ srv.pc \notin {"done", "refused", "gone"} /\ UNCHANGED <<call, peer, lost, cl>>
      /\ Quiet \/ (down.end # "cut" /\ (Emits \/ Finishes \/ Refuses))
  <2>1. CASE Server
    BY <2>1, ServerMoves
  <2>2. CASE Stop
    BY <1>2, <2>2 DEF Stop, HangUp, SrvShape, Quiet, TrailerKept
  <2> QED  BY <2>1, <2>2
<1>4. WrittenInv'
  BY <1>2, <1>3, ServerWrites
<1>5. /\ (streamHandler' <=> streamHandler) /\ (unaryHandler' <=> unaryHandler)
      /\ (unaryCall' <=> unaryCall)
  BY <1>3, CallIsRead
<1>6. ReadInv'
  <2>1. CASE Quiet
    <3>1. down' = down /\ srv'.out = srv.out /\ srv'.fin = srv.fin
      BY <2>1 DEF Quiet
    <3>2. BodyRead => BodyRead'
      <4>1. cl.trailer # << >> /\ BodyRead => FALSE
        BY <1>2, <1>3 DEF BodyRead, Calling, OutputInv
      <4> QED  BY <1>3, <1>5, <3>1, <4>1 DEF BodyRead
    <3> QED  BY <1>2, <1>3, <1>5, <3>1, <3>2 DEF ReadInv, Ordered
  <2>2. CASE ~Quiet
    <3>1. down.end # "cut" /\ (Emits \/ Finishes)
      BY <1>2, <1>3, <2>2 DEF Refuses, Agreed
    <3>2. DownShape(down) /\ srv.fin = << >> /\ srv.out \in Nat /\ selectedProtocol = peer.protocol
      BY <1>1, <1>2, <1>3 DEF OutputInv, Agreed, Calling, Shapes
    <3>3. IsSequence(down.frames)
      BY <1>2 DEF WrittenInv
    <3>4. Committed # << >>
      BY DEF Committed
    <3>5. down'.head # << >> /\ down'.end # "cut" /\ srv'.out \in {srv.out, srv.out + 1}
      <4>1. CASE Emits
        <5>1. down' = Written(<<Envelope(srv'.out, Compressed)>>) /\ srv'.out = srv.out + 1
          BY <4>1 DEF Emits
        <5>2. down'.head = Committed /\ down'.end = down.end
          BY <3>2, <5>1, WrittenShape
        <5> QED  BY <3>1, <3>4, <5>1, <5>2
      <4>2. CASE Finishes
        <5>1. PICK error, t : Finishing(error, t)
          BY <4>2, Zenon DEF Finishes
        <5>2. /\ srv'.out \in {srv.out, srv.out + 1}
              /\ down' = IF streamHandler THEN Ended(error, t) ELSE UnaryEnded(error, 1, t)
          BY <5>1 DEF Finishing
        <5>3. Ended(error, t).head = Committed /\ Ended(error, t).end = "end"
          BY <1>2, <3>2, <3>3, StreamEnds
        <5>4. UnaryEnded(error, 1, t).end = "end" /\ UnaryEnded(error, 1, t).head # << >>
          BY UnaryEnds
        <5> QED  BY <3>4, <5>2, <5>3, <5>4
      <4> QED  BY <3>1, <4>1, <4>2
    <3>6. cl.pc = "body" => BodyRead'
      <4> SUFFICES ASSUME cl.pc = "body"
                   PROVE  BodyRead'
        OBVIOUS
      <4>1. /\ streamHandler /\ BodyRead /\ cl.trailer = << >> /\ Len(cl.msgs) = cl.read
            /\ cl.read <= srv.out
        BY <1>2, <3>2 DEF ReadInv, BodyRead
      <4>2. Len(down.frames) \in Nat /\ Len(down'.frames) \in Nat
        BY <1>4, <3>3, NothingIsSequence DEF WrittenInv
      <4>3. cl.read \in Nat
        BY <4>1, <4>2 DEF BodyRead
      <4>4. srv'.out <= Len(down'.frames)
        <5>1. StreamWritten' /\ down'.end \in {"open", "end"}
          BY <1>4, <1>5, <3>5, <4>1 DEF WrittenInv
        <5>2. srv'.out \in Nat
          BY <3>2, <3>5
        <5> QED  BY <5>1, <5>2 DEF StreamWritten
      <4>5. cl'.read \in 0 .. Len(down'.frames) /\ cl'.read <= srv'.out
        BY <1>3, <3>2, <3>5, <4>1, <4>2, <4>3, <4>4
      <4> QED  BY <1>3, <4>1, <4>5 DEF BodyRead
    <3> QED  BY <1>2, <1>3, <1>5, <3>5, <3>6 DEF ReadInv, Ordered
  <2> QED  BY <2>1, <2>2
<1> QED  BY <1>4, <1>6

(* What is known of a call of ours stays.                                     *)
LEMMA NextOursInv ==
  ASSUME Shapes, OutputInv, OursInv, [Next]_vars
  PROVE  OursInv'
<1> SUFFICES ASSUME Ours', cl'.pc # "done"
             PROVE  WrittenInv' /\ ReadInv'
  BY StillAsked DEF OursInv
<1>1. Ours /\ cl'.pc # "none"
  BY StillAsked DEF Ours
<1>2. cl.pc # "done"
  <2>1. Client => cl.pc # "done"
    BY ClientCases
  <2> QED  BY <2>1 DEF Next, Server, Stop, Lose, vars
<1>3. Calling
  BY <1>1, <1>2, CallingOurs
<1>4. CASE Server \/ Stop
  BY <1>1, <1>2, <1>4, ServerKeepsOurs
<1>5. CASE Client
  BY <1>3, <1>5, CallerKeepsContract DEF Kept
<1>6. CASE Lose
  BY <1>3, <1>6, LossKeeps
<1>7. CASE UNCHANGED vars
  <2>1. WrittenInv'
    BY <1>3, <1>7, WrittenIsKept DEF Calling, vars
  <2>2. (streamHandler' <=> streamHandler) /\ (unaryHandler' <=> unaryHandler)
        /\ (unaryCall' <=> unaryCall)
    BY <1>7, CallIsRead DEF vars
  <2>3. BodyRead => BodyRead'
    BY <1>7, <2>2 DEF vars, BodyRead
  <2> QED  BY <1>3, <1>7, <2>1, <2>2, <2>3 DEF Calling, ReadInv, Ordered, vars
<1> QED  BY <1>4, <1>5, <1>6, <1>7 DEF Next

-----------------------------------------------------------------------------
(* A call begins as the contract says.                                        *)
LEMMA InitContract == Init => Contract!Init
<1> SUFFICES ASSUME Init
             PROVE  Contract!Init
  OBVIOUS
<1>1. lost = FALSE
  BY DEF Init
<1>2. srv.pc # "none" => srv.out = 0 /\ srv.fin = << >>
  BY DEF Init, InitCall, InitRequest, InitResponse, HandlerInit
<1>3. Ours => cl.msgs = << >> /\ cl.outcome = << >>
  <2>1. \A n : Sending(n).msgs = << >> /\ Sending(n).outcome = << >>
    BY DEF Sending
  <2> QED  BY <2>1 DEF Init, InitCall, InitRequest, InitResponse, Ours
<1> QED  BY <1>1, <1>2, <1>3 DEF Contract!Init, Emitted, Reply, Received, Outcome

(* Every step is one of the contract, or none of its concern.                 *)
LEMMA NextContract ==
  ASSUME Shapes, OutputInv, OursInv, [Next]_vars
  PROVE  [Contract!Next]_(Contract!vars)
<1>1. CASE Server \/ Stop
  BY <1>1, ServerKeepsContract
<1>2. CASE Client
  <2>1. cl.pc \notin {"none", "done"} /\ srv' = srv /\ lost' = lost
    BY <1>2, ClientCases
  <2>2. CASE Ours
    BY <1>2, <2>1, <2>2, CallingOurs, CallerKeepsContract DEF Kept
  <2>3. CASE ~Ours
    <3>1. ~Ours'
      BY <2>3, StillAsked
    <3>2. UNCHANGED Contract!vars
      BY <2>1, <2>3, <3>1 DEF Contract!vars, Emitted, Reply, Received, Outcome, End, Wire, App
    <3> QED  BY <3>2
  <2> QED  BY <2>2, <2>3
<1>3. CASE Lose
  <2>1. Ours /\ cl.pc # "done"
    BY <1>3 DEF Lose
  <2> QED  BY <1>3, <2>1, CallingOurs, LossKeeps
<1>4. CASE UNCHANGED vars
  BY <1>4 DEF vars, Contract!vars, Ours, Emitted, Reply, Received, Outcome, End, Wire, App
<1> QED  BY <1>1, <1>2, <1>3, <1>4 DEF Next

(* Whatever the protocol, the transport and the handler, a call is what its   *)
(* contract says: the caller has the messages of the implementation in order, *)
(* succeeds only after it succeeded, with all of them and its trailer, and    *)
(* fails with its error, unless the connection was lost; provided that a      *)
(* client which compresses what it sends accepts that compression.            *)
THEOREM CallsKeepTheContract ==
  ASSUME \A c \in Calls : AcceptsWhatItSends(c.peer)
  PROVE  Spec => KeepsContract
<1>1. Init => Shapes /\ OutputInv /\ OursInv /\ Contract!Init
  BY InitShapes, InitOutputInv, InitOursInv, InitContract
<1>2. Shapes /\ OutputInv /\ OursInv /\ [Next]_vars
        => Shapes' /\ OutputInv' /\ OursInv' /\ [Contract!Next]_(Contract!vars)
  BY NextShapes, NextOutputInv, NextOursInv, NextContract
<1> QED  BY <1>1, <1>2, PTL DEF Spec, KeepsContract, Contract!Spec
=============================================================================
