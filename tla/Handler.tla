------------------------------- MODULE Handler -------------------------------
(* The server's side of one RPC: the universal handler that selects a         *)
(* protocol for a request, and the handlers of the protocols Connect, gRPC    *)
(* and gRPC-web with the implementation they call.                            *)
(*                                                                            *)
(* A body is a sequence of envelopes and how it ends: "open" (not yet),       *)
(* "end", "partial" (inside an envelope, or for a browser inside its prefix), *)
(* "within" (a browser only: inside the last envelope, which is what the      *)
(* reader made of it) or "cut" (the connection failed).                       *)
(* A Connect unary body is one envelope without its prefix.                   *)
EXTENDS Negotiation

CONSTANTS
  ImplErrors,   \* errors an implementation throws: <<ConnectError>> or << >> for any other value
  ImplTrailers, \* trailers it may set
  MaxOut        \* number of messages an implementation yields at most

(* An error has a code, and a message and details that can be written.        *)
Sendable(error) ==
  /\ error.code \in Code /\ error.message \notin {Absent, "other"}
  /\ \A i \in DOMAIN error.details : error.details[i].valid

ASSUME ErrorsAssumption ==
  \A e \in ImplErrors : e = << >> \/ (e = <<e[1]>> /\ Sendable(e[1]))

(* A trailer has finitely many fields, with names. Those with the status and  *)
(* the details of an error are the library's own: gRPC sets the status before *)
(* the implementation is called, which could replace it, and would turn its   *)
(* own success into an error.                                                 *)
Settable(trailer) ==
  /\ IsFiniteSet(DOMAIN trailer) /\ trailer = [k \in DOMAIN trailer |-> trailer[k]]
  /\ \A k \in DOMAIN trailer :
       /\ k = [prefixes |-> k.prefixes, name |-> k.name] /\ k.prefixes \in Nat
       /\ k \notin {Plain(Absent), headerGrpcStatus, headerStatusDetailsBin}

ASSUME TrailersAssumption == \A t \in ImplTrailers : Settable(t)

VARIABLES
  call,  \* the request without its body, and the options of the server
  up,    \* the body of the request
  srv,   \* the handler
  down   \* the response

(* An envelope: a message (its number), or an end with an EndStreamResponse   *)
(* (es) or a gRPC-web trailer (tr):                                           *)
Envelope(msg, comp) == [end |-> FALSE, comp |-> comp, valid |-> TRUE, msg |-> msg,
                        es |-> << >>, tr |-> << >>]
EndEnvelope(es, tr, comp) ==
  [end |-> TRUE, comp |-> comp, valid |-> TRUE, msg |-> 0, es |-> es, tr |-> tr]

(* The query of a request that is no GET.                                     *)
NoQuery == [version |-> Unset, encoding |-> Unset, compression |-> Unset]

NoBody == [frames |-> << >>, end |-> "open"]

(* head is a sequence of at most one response head. json is the error of a    *)
(* Connect unary response.                                                    *)
NoResponse == [head |-> << >>, frames |-> << >>, end |-> "open", json |-> << >>,
               trailer |-> EmptyHeaders]

ResponseHead(status, type, encoding, fields) ==
  [status |-> status, type |-> type, encoding |-> encoding, fields |-> fields]

-----------------------------------------------------------------------------
(* negotiateProtocol(): the first handler for the type of the request. No two *)
(* protocols support the same type, so that their order does not matter.      *)

Protocols == {"grpc", "grpc-web", "connect"}

allowedMethods(request, protocol) ==
  IF protocol = "connect" /\ request.noSideEffects THEN {"POST", "GET"} ELSE {"POST"}

supportedContentType(kind, protocol) ==
  CASE protocol = "grpc"     -> grpcRegExp
    [] protocol = "grpc-web" -> grpcWebRegExp
    [] OTHER -> IF kind = Unary THEN contentTypeUnaryRegExp ELSE contentTypeStreamRegExp

matchingMethod(request) ==
  {p \in Protocols : request.method \in allowedMethods(request, p)}

matches(request, protocol) ==
  contentTypeMatcher(supportedContentType(request.kind, protocol), request.header.type)

(* If the type is unset but only one handler matches, it is used.             *)
onlyMatch(request) ==
  Cardinality(matchingMethod(request)) = 1 /\ request.header.type \in {"", Unset}

negotiateProtocol ==
  IF call.kind = BiDiStreaming /\ call.http1 THEN 505
  ELSE IF matchingMethod(call) = {} THEN 405
  ELSE IF onlyMatch(call) \/ \E p \in matchingMethod(call) : matches(call, p) THEN 200
  ELSE 415

firstMatch(request) ==
  CHOOSE p \in matchingMethod(request) : onlyMatch(request) \/ matches(request, p)

selectedProtocol == firstMatch(call)

(* What the selected handler makes of the type and the method before it       *)
(* creates a context.                                                         *)
isGet         == call.method = "GET"
unaryHandler  == selectedProtocol = "connect" /\ call.kind = Unary
streamHandler == ~unaryHandler

requestType ==
  CASE selectedProtocol = "grpc"     -> grpcParseContentType(call.header.type)
    [] selectedProtocol = "grpc-web" -> grpcWebParseContentType(call.header.type)
    [] selectedProtocol = "connect" /\ isGet /\ call.kind = Unary ->
         parseEncodingQuery(call.query.encoding)
    [] OTHER -> connectParseContentType(call.header.type)

(* Each checks the type, then the method.                                     *)
connectUnaryStatus ==
  IF isGet /\ ~call.noSideEffects THEN 405
  ELSE IF requestType = << >> \/ requestType[1].stream THEN 415 ELSE 200

connectStreamStatus ==
  IF requestType = << >> \/ ~requestType[1].stream THEN 415
  ELSE IF call.method # "POST" THEN 405 ELSE 200

grpcStatus ==
  IF requestType = << >> THEN 415 ELSE IF call.method # "POST" THEN 405 ELSE 200

grpcWebStatus ==
  IF requestType = << >> \/ requestType[1].text THEN 415
  ELSE IF call.method # "POST" THEN 405 ELSE 200

handlerStatus ==
  CASE unaryHandler                   -> connectUnaryStatus
    [] selectedProtocol = "grpc"      -> grpcStatus
    [] selectedProtocol = "grpc-web"  -> grpcWebStatus
    [] OTHER                          -> connectStreamStatus

compression ==
  compressionNegotiate(call.serverAccept,
    IF isGet THEN call.query.compression ELSE call.header.encoding,
    call.header.accept)

parsedTimeout ==
  IF selectedProtocol = "connect"
  THEN connectParseTimeout(call.header.timeout, call.maxTimeoutMs)
  ELSE grpcParseTimeout(call.header.timeout, call.maxTimeoutMs)

(* The error a handler raises before it reads the body, to serialize it as    *)
(* an error response.                                                         *)
grpcEarlyError == IF compression.error # NoCode THEN compression.error
                  ELSE parsedTimeout.error

connectEarlyError ==
  LET version == IF isGet THEN call.query.version ELSE call.header.version
  IN  IF call.requireProtocolHeader /\ requireProtocolVersionHeader(version) # NoCode
      THEN InvalidArgument ELSE grpcEarlyError

earlyError == IF selectedProtocol = "connect" THEN connectEarlyError ELSE grpcEarlyError

-----------------------------------------------------------------------------
(* The pipeline for the body of the request: prepend (early errors), split,   *)
(* decompress, parse. An error ends it: what follows is never read.           *)

Message(msg)  == [is |-> "message", msg |-> msg, code |-> NoCode]
InputError(c) == [is |-> "error",   msg |-> 0,   code |-> c]
InputDone     == [is |-> "done",    msg |-> 0,   code |-> NoCode]

More     == srv.taken < Len(up.frames)
Envelop  == up.frames[srv.taken + 1]
Readable(f) == f.valid /\ (f.comp => compression.request # Unset)

(* An end envelope in a request is skipped, except by gRPC, which has none.   *)
Skippable == /\ earlyError = NoCode /\ More
             /\ Readable(Envelop) /\ Envelop.end /\ selectedProtocol # "grpc"

InputReady == /\ ~srv.inputClosed => \/ earlyError # NoCode
                                     \/ More
                                     \/ up.end # "open"
              /\ ~srv.inputClosed => ~Skippable

(* Variant: the messages of the request come before its early error.           *)
NextInputLate ==
  CASE srv.inputClosed         -> InputDone
    [] ~srv.inputClosed /\ More ->
         IF Readable(Envelop) THEN Message(Envelop.msg) ELSE InputError(InvalidArgument)
    [] OTHER -> IF earlyError # NoCode THEN InputError(earlyError) ELSE InputDone

NextInput ==
  CASE srv.inputClosed       -> InputDone
    [] ~srv.inputClosed /\ earlyError # NoCode -> InputError(earlyError)
    [] ~srv.inputClosed /\ earlyError = NoCode /\ More ->
         IF Readable(Envelop) THEN Message(Envelop.msg) ELSE InputError(InvalidArgument)
    [] OTHER -> CASE up.end = "end"     -> InputDone
                  [] up.end = "partial" -> InputError(InvalidArgument)
                  [] OTHER              -> InputError(Aborted)

(* Variant: an envelope is not removed from the buffer.                        *)
PulledAgain(input) == [srv EXCEPT !.inputClosed = input.is # "message"]

(* One pull of the pipeline.                                                  *)
Pulled(input) ==
  [srv EXCEPT !.taken = IF input.is = "message" THEN @ + 1 ELSE @,
              !.inputClosed = input.is # "message"]

-----------------------------------------------------------------------------
(* The response.                                                              *)

responseType ==
  LET binary == requestType[1].binary
  IN  CASE selectedProtocol = "grpc" ->
             IF binary THEN "application/grpc+proto" ELSE "application/grpc+json"
        [] selectedProtocol = "grpc-web" ->
             IF binary THEN "application/grpc-web+proto" ELSE "application/grpc-web+json"
        [] OTHER ->
             IF call.kind = Unary
             THEN IF binary THEN "application/proto" ELSE "application/json"
             ELSE IF binary THEN "application/connect+proto"
                            ELSE "application/connect+json"

(* Messages of call.large are at least compressMinBytes long.                 *)
Compressed == call.large /\ compression.response # Unset

(* The head is committed with the first envelope, or with the end.            *)
Committed == IF down.head # << >> THEN down.head
             ELSE << ResponseHead(200, responseType, compression.response, EmptyHeaders) >>

Written(frames) == [down EXCEPT !.head = Committed, !.frames = @ \o frames]

(* Variant: transformFinally(), which an error skips.                          *)
EndedUncaught(error, t) ==
  IF error = << >> /\ selectedProtocol = "connect"
  THEN [Written(<<EndEnvelope(<<endStreamToJson(t, error)>>, << >>, FALSE)>>)
          EXCEPT !.end = "end"]
  ELSE [Written(<< >>) EXCEPT !.end = "end"]

(* transformCatchFinally() of each protocol: an end envelope, or the fields of *)
(* the trailer, with the error (a sequence of at most one) and the trailer t.  *)
InitialStatus == HeaderSet(EmptyHeaders, headerGrpcStatus, <<grpcStatusOk>>)

grpcFields(error, t) ==
  LET fields == SetAll(InitialStatus, t)
  IN  IF error = << >> THEN fields ELSE setTrailerStatus(fields, error[1])

grpcEnded(error, t) ==
  [Written(<< >>) EXCEPT !.trailer = grpcFields(error, t), !.end = "end"]

grpcWebEnded(error, t) ==
  [Written(<<EndEnvelope(<< >>, <<trailerSerialize(grpcFields(error, t))>>, Compressed)>>)
     EXCEPT !.end = "end"]

connectEnded(error, t) ==
  [Written(<<EndEnvelope(<<endStreamToJson(t, error)>>, << >>, Compressed)>>)
     EXCEPT !.end = "end"]

Ended(error, t) ==
  CASE selectedProtocol = "grpc"     -> grpcEnded(error, t)
    [] selectedProtocol = "grpc-web" -> grpcWebEnded(error, t)
    [] OTHER                         -> connectEnded(error, t)

(* Variant: the trailer of a response is forgotten.                            *)
UnaryEndedBare(error, msg, t) ==
  [head    |-> << ResponseHead(IF error = << >> THEN 200 ELSE codeToHttpStatus(error[1].code),
                   responseType, IF Compressed THEN compression.response ELSE Unset,
                   EmptyHeaders) >>,
   frames  |-> IF error = << >> THEN <<Envelope(msg, Compressed)>> ELSE << >>,
   json    |-> IF error = << >> THEN << >>
               ELSE <<[valid |-> TRUE, json |-> errorToJson(error[1])]>>,
   end     |-> "end", trailer |-> EmptyHeaders]

(* The Connect unary handler: the error as JSON, its metadata as header.      *)
UnaryEnded(error, msg, t) ==
  LET meta   == IF error = << >> THEN EmptyHeaders ELSE error[1].metadata
      status == IF error = << >> THEN 200 ELSE codeToHttpStatus(error[1].code)
      type   == IF error = << >> THEN responseType ELSE "application/json"
  IN  [head    |-> << ResponseHead(status, type, IF Compressed THEN compression.response ELSE Unset,
                           trailerMux(meta, t)) >>,
       frames  |-> IF error = << >> THEN <<Envelope(msg, Compressed)>> ELSE << >>,
       json    |-> IF error = << >> THEN << >>
                   ELSE <<[valid |-> TRUE, json |-> errorToJson(error[1])]>>,
       end     |-> "end",
       trailer |-> EmptyHeaders]

(* What a handler sends for a thrown value.                                   *)
Sent(e) == IF e = << >>
           THEN <<Error(Internal, "internal error", << >>, EmptyHeaders)>> ELSE e

ProtocolError(code) == <<Error(code, "protocol error", << >>, EmptyHeaders)>>

(* The response is complete: the context is aborted, and nothing is read or   *)
(* written anymore.                                                           *)
Complete(s, error, t) ==
  /\ srv' = [s EXCEPT !.pc = "done", !.aborted = TRUE, !.inputClosed = TRUE,
                      !.trailer = t, !.fin = <<error>>]
  /\ down' = IF streamHandler THEN Ended(error, t) ELSE UnaryEnded(error, 1, t)
  /\ UNCHANGED <<call, up>>

-----------------------------------------------------------------------------
(* One request.                                                               *)

HandlerInit ==
  srv = [pc |-> "start", taken |-> 0, inputClosed |-> FALSE, got |-> << >>,
         out |-> 0, invoked |-> 0, aborted |-> FALSE, trailer |-> EmptyHeaders,
         fin |-> << >>]

(* Refused, or a context is created and the selected handler runs.            *)
Select ==
  /\ srv.pc = "start"
  /\ LET status == IF negotiateProtocol # 200 THEN negotiateProtocol ELSE handlerStatus
     IN  IF status # 200
         THEN /\ down' = [NoResponse EXCEPT
                            !.head = << ResponseHead(status, Unset, Unset, EmptyHeaders) >>,
                            !.end = "end"]
              /\ srv' = [srv EXCEPT !.pc = "refused"]
         ELSE /\ srv' = [srv EXCEPT
                   !.pc = CASE ~streamHandler -> "body"
                            [] streamHandler /\ call.kind \in {Unary, ServerStreaming} -> "first"
                            [] OTHER -> "impl",
                   !.invoked = IF streamHandler /\ call.kind \notin {Unary, ServerStreaming}
                               THEN 1 ELSE 0]
              /\ UNCHANGED down
  /\ UNCHANGED <<call, up>>

(* transformParseEnvelope() skips an end envelope.                            *)
SkipEnd ==
  /\ srv.pc \in {"first", "impl", "drain"} /\ ~srv.inputClosed /\ Skippable
  /\ srv' = [srv EXCEPT !.taken = @ + 1]
  /\ UNCHANGED <<call, up, down>>

(* The Connect unary handler reads and parses the whole body, or a query. It  *)
(* takes the body for compressed if and only if the request says so. An end   *)
(* is no message.                                                             *)
Intact(f) == f.valid /\ ~f.end /\ f.comp = (compression.request # Unset)

ReadUnaryMessage ==
  /\ srv.pc = "body"
  /\ earlyError # NoCode \/ up.end # "open"
  /\ LET f == up.frames[1]
     IN  IF earlyError # NoCode THEN Complete(srv, ProtocolError(earlyError), EmptyHeaders)
         ELSE IF up.end = "cut" THEN Complete(srv, ProtocolError(Aborted), EmptyHeaders)
         ELSE IF up.end = "partial" \/ Len(up.frames) # 1 \/ ~Intact(f)
              THEN Complete(srv, ProtocolError(InvalidArgument), EmptyHeaders)
         ELSE /\ srv' = [srv EXCEPT !.pc = "impl", !.taken = 1, !.got = <<f.msg>>,
                                    !.invoked = 1]
              /\ UNCHANGED <<call, up, down>>

(* Unary and server-streaming: the implementation is called with the first    *)
(* message, which has to be there.                                            *)
FirstInput ==
  /\ srv.pc = "first" /\ InputReady
  /\ IF NextInput.is = "message"
     THEN /\ srv' = [Pulled(NextInput) EXCEPT !.pc = "impl", !.got = <<NextInput.msg>>,
                                              !.invoked = 1]
          /\ UNCHANGED <<call, up, down>>
     ELSE Complete(Pulled(NextInput),
                   ProtocolError(IF NextInput.is = "error" THEN NextInput.code
                                 ELSE InvalidArgument), EmptyHeaders)

(* Client-streaming and bidi: the implementation reads its requests. It may   *)
(* catch the error of its input.                                              *)
ImplRead ==
  /\ srv.pc = "impl" /\ call.kind \in {ClientStreaming, BiDiStreaming}
  /\ ~srv.inputClosed /\ InputReady
  /\ srv' = [Pulled(NextInput) EXCEPT
               !.got = IF NextInput.is = "message" THEN Append(@, NextInput.msg) ELSE @]
  /\ UNCHANGED <<call, up, down>>

(* Server-streaming and bidi: the implementation yields a message.            *)
ImplYield ==
  /\ srv.pc = "impl" /\ call.kind \in {ServerStreaming, BiDiStreaming}
  /\ srv.out < MaxOut
  /\ srv' = [srv EXCEPT !.out = @ + 1]
  /\ down' = Written(<<Envelope(srv.out + 1, Compressed)>>)
  /\ UNCHANGED <<call, up>>

(* The implementation returns, a unary one with its message. Unary and        *)
(* server-streaming handlers check that there is no further input, but the    *)
(* Connect unary handler has read all of it.                                  *)
ImplReturn ==
  /\ srv.pc = "impl"
  /\ \E t \in ImplTrailers :
       LET one == call.kind \in {Unary, ClientStreaming}
           s   == IF one THEN [srv EXCEPT !.out = 1] ELSE srv
       IN  IF call.kind = BiDiStreaming \/ ~streamHandler THEN Complete(s, << >>, t)
           ELSE /\ srv' = [s EXCEPT !.pc = IF call.kind = ClientStreaming THEN "drained"
                                           ELSE "drain", !.trailer = t]
                /\ down' = IF one THEN Written(<<Envelope(1, Compressed)>>) ELSE down
                /\ UNCHANGED <<call, up>>

ImplThrow ==
  /\ srv.pc = "impl"
  /\ \E e \in ImplErrors, t \in ImplTrailers : Complete(srv, Sent(e), t)

(* Variant: what the input ends with is not looked at.                         *)
DrainUnchecked ==
  /\ srv.pc = "drain" /\ InputReady
  /\ Complete(Pulled(NextInput), << >>, srv.trailer)

(* The check for extra input, after the output was yielded.                   *)
Drain ==
  /\ srv.pc = "drain" /\ InputReady
  /\ LET error == CASE NextInput.is = "done"    -> << >>
                    [] NextInput.is = "message" -> ProtocolError(InvalidArgument)
                    [] OTHER                    -> ProtocolError(NextInput.code)
     IN  Complete(Pulled(NextInput), error, srv.trailer)

(* Client-streaming: the pipeline ends once its message was written.          *)
Drained ==
  /\ srv.pc = "drained"
  /\ Complete(srv, << >>, srv.trailer)

(* Variant: only the writer notices that the connection failed.                *)
HangUpWriting ==
  /\ down.end = "cut" /\ srv.pc = "impl"
  /\ srv' = [srv EXCEPT !.pc = "gone", !.aborted = TRUE, !.inputClosed = TRUE]
  /\ UNCHANGED <<call, up, down>>

(* The connection failed: the pipeline of the response is closed, and aborts  *)
(* the context.                                                               *)
HangUp ==
  /\ down.end = "cut" /\ srv.pc \notin {"done", "refused", "gone"}
  /\ srv' = [srv EXCEPT !.pc = "gone", !.aborted = TRUE, !.inputClosed = TRUE]
  /\ UNCHANGED <<call, up, down>>

(* The handlers, while their context is in use. The three for streams differ  *)
(* in what they parse, negotiate, split off and end a response with.          *)
Running == srv.pc \notin {"start", "refused", "done", "gone"}

StreamStep == \/ SkipEnd \/ FirstInput \/ ImplRead \/ ImplYield
              \/ ImplReturn \/ ImplThrow \/ Drain \/ Drained

connectUnaryHandler ==
  Running /\ unaryHandler /\ (ReadUnaryMessage \/ ImplReturn \/ ImplThrow)

connectStreamHandler ==
  Running /\ streamHandler /\ selectedProtocol = "connect" /\ StreamStep

grpcHandler    == Running /\ selectedProtocol = "grpc" /\ StreamStep

grpcWebHandler == Running /\ selectedProtocol = "grpc-web" /\ StreamStep

HandlerStep == /\ down.end # "cut"
               /\ \/ Select \/ connectUnaryHandler \/ connectStreamHandler
                  \/ grpcHandler \/ grpcWebHandler
=============================================================================
