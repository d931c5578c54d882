------------------------------ MODULE Transport ------------------------------
(* The client's side of one RPC: the transports for Connect, gRPC and         *)
(* gRPC-web of Node.js (connect), and those for Connect and gRPC-web of       *)
(* browsers (connect-web), which use fetch. A transport writes the request,   *)
(* validates the head of the response, and reads its body.                    *)
EXTENDS Handler

CONSTANTS MaxIn     \* number of messages a caller sends at most

VARIABLES peer,     \* the client: its protocol, flavour and options
          cl        \* its state

web  == peer.flavour = "web"
node == peer.flavour = "node"

(* A unary call reads the whole response before it returns.                   *)
unaryCall == call.kind = Unary
endFlag   == peer.protocol # "grpc"

(* The code of the error that a failed connection causes: node error codes    *)
(* and HTTP/2 reset codes are mapped, the TypeError of fetch is not.          *)
LostCodes == IF web THEN {Unknown} ELSE {Aborted, Unavailable, Canceled}

(* Strings that the browser transports throw become errors with code Unknown. *)
Violation == IF web THEN Unknown ELSE InvalidArgument

-----------------------------------------------------------------------------
(* The request.                                                               *)

requestHeader(protocol, kind, options) ==
  LET timeout == IF options.timeout = << >> THEN NoTimeoutHeader
                 ELSE WriteTimeout(options.timeout[1],
                                   IF protocol = "connect" THEN "" ELSE "m")
      header  == CASE protocol = "connect" -> connectRequestHeader(kind, options.binary, timeout)
                   [] protocol = "grpc"    -> grpcRequestHeader(options.binary, timeout)
                   [] OTHER                -> grpcWebRequestHeader(options.binary, timeout)
  IN  IF options.flavour = "web" THEN header
      ELSE requestHeaderWithCompression(header, options.accept, options.send)

(* Connect unary: the header announces compression only if it was applied.    *)
unaryEncoding(header, large) ==
  IF large THEN header ELSE [header EXCEPT !.encoding = Unset]

askedHeader(kind, options, large) ==
  LET header == requestHeader(options.protocol, kind, options)
  IN  IF options.protocol = "connect" /\ kind = Unary /\ options.flavour = "node"
      THEN unaryEncoding(header, large) ELSE header

RequestCompressed == node /\ call.large /\ peer.send # Unset

(* The client, some of whose messages may go with the head of the request.    *)
Sending(sent) == [pc |-> "sending", sent |-> sent, read |-> 0, msgs |-> << >>,
                  trailer |-> << >>, outcome |-> << >>]

(* The caller's messages are written as they come; a unary or a               *)
(* server-streaming call has exactly one. A browser sends it with the request,*)
(* and a GET request has it in its query.                                     *)
single == call.kind \in {Unary, ServerStreaming}

SendMessage ==
  /\ up.end = "open" /\ cl.sent < (IF single THEN 1 ELSE MaxIn)
  /\ cl' = [cl EXCEPT !.sent = @ + 1]
  /\ up' = [frames |-> Append(up.frames, Envelope(cl.sent + 1, RequestCompressed)),
            end |-> "open"]
  /\ UNCHANGED <<call, srv, down, peer>>

SendEnd ==
  /\ up.end = "open" /\ (single => cl.sent = 1)
  /\ up' = [up EXCEPT !.end = "end"]
  /\ UNCHANGED <<call, srv, down, peer, cl>>

-----------------------------------------------------------------------------
(* The response. An outcome is an error (a sequence of at most one), the      *)
(* messages and the trailer the caller has.                                   *)

(* A call that ends aborts its request (runUnaryCall, runStreamingCall).      *)
Settle(error, msgs, trailer) ==
  /\ cl' = [cl EXCEPT !.pc = "done",
                      !.msgs = IF unaryCall /\ error # << >> THEN << >> ELSE msgs,
                      !.outcome = <<[error |-> error, trailer |-> trailer]>>]
  /\ up'   = IF up.end = "open" THEN [up EXCEPT !.end = "cut"] ELSE up
  /\ down' = IF down.end = "open" THEN [down EXCEPT !.end = "cut"] ELSE down
  /\ UNCHANGED <<call, srv, peer>>

Fail(code) == Settle(<<Error(code, "transport", << >>, EmptyHeaders)>>, cl.msgs, EmptyHeaders)

head == down.head[1]

acceptCompression == {peer.accept[i] : i \in DOMAIN peer.accept}
responseEncoding == IF web THEN [name |-> Unset, error |-> NoCode]
            ELSE ResponseCompression(acceptCompression, head.encoding)

(* validateResponse() and validateResponseWithCompression(): the error they   *)
(* throw. Connect looks at the encoding first, gRPC and gRPC-web at the       *)
(* status. A Connect unary error response is returned for its JSON.           *)
isUnaryError ==
  /\ peer.protocol = "connect" /\ call.kind = Unary /\ head.status # 200
  /\ connectParseContentType(head.type) # << >>
  /\ ~connectParseContentType(head.type)[1].binary

connectStatusError == Error(codeFromHttpStatus(head.status), "HTTP", << >>, head.fields)

grpcStatusError ==
  IF head.status # 200
  THEN <<Error(grpcCodeFromHttpStatus(head.status), "HTTP", << >>, head.fields)>>
  ELSE findTrailerError(head.fields)

grpcWebStatusError ==
  IF head.status \notin 200 .. 299
  THEN <<Error(grpcCodeFromHttpStatus(head.status), "HTTP", << >>, head.fields)>>
  ELSE findTrailerError(head.fields)

StatusError ==
  CASE peer.protocol = "connect" ->
         IF head.status = 200 \/ isUnaryError THEN << >> ELSE <<connectStatusError>>
    [] peer.protocol = "grpc"    -> grpcStatusError
    [] OTHER                     -> grpcWebStatusError

EncodingError == IF responseEncoding.error = NoCode THEN << >>
                 ELSE <<Error(responseEncoding.error, "encoding", << >>, head.fields)>>

HeadError ==
  LET first  == IF peer.protocol = "connect" THEN EncodingError ELSE StatusError
      second == IF peer.protocol = "connect" THEN StatusError ELSE EncodingError
  IN  IF first # << >> THEN first ELSE second

foundStatus == peer.protocol # "connect" /\ headerGrpcStatus \in DOMAIN head.fields

(* The streams of gRPC-web accept no body after a status in the header.       *)
trailersOnly == peer.protocol = "grpc-web" /\ ~unaryCall /\ foundStatus

(* The browser transports ignore the compression flag and parse what they     *)
(* get; the web unary transport also takes a compressed trailer for a message.*)
Parses(f) == f.valid /\ (f.comp => node /\ responseEncoding.name # Unset)
IsEnd(f)  == endFlag /\ f.end /\ (f.comp => ~(web /\ unaryCall /\ peer.protocol = "grpc-web"))

(* The whole body of a Connect unary response is compressed, or nothing of it.*)
BodyParses == /\ Len(down.frames) = 1 /\ down.frames[1].valid /\ ~down.frames[1].end
              /\ down.frames[1].comp = (head.encoding \notin {Unset, "identity"})

Unread == down.frames[cl.read + 1]
Read   == [cl EXCEPT !.read = @ + 1]

(* Variant: the end of the body is only noticed if the connection is fine.     *)
BodyEndsWell == cl.read = Len(down.frames) /\ down.end = "end"

(* transformSplitEnvelope() raises an error if the body ends in an envelope,  *)
(* and createEnvelopeReadableStream() of a browser only if it ends in the     *)
(* prefix of one: it passes on what there is of an envelope (CutShort). A     *)
(* connection that fails raises its own.                                      *)
BodyEnds == cl.read = Len(down.frames) /\ down.end # "open"

(* What there is of an envelope that was cut short: a message may parse or    *)
(* not, the end of a Connect stream is no JSON, and a trailer has less fields.*)
CutShort(f) == f.end /\ peer.protocol = "connect" => f.es[1].shape # "object"

Premature == IF web THEN DataLoss ELSE InvalidArgument

-----------------------------------------------------------------------------
ReadHead ==
  /\ cl.pc = "sending" /\ down.head # << >>
  /\ IF HeadError # << >> THEN Settle(HeadError, cl.msgs, EmptyHeaders)
     ELSE /\ cl' = [cl EXCEPT !.pc = IF peer.protocol = "connect" /\ unaryCall
                                     THEN "unary" ELSE "body"]
          /\ UNCHANGED <<call, up, srv, down, peer>>

NoHead ==
  /\ cl.pc = "sending" /\ down.head = << >> /\ down.end # "open"
  /\ \E code \in LostCodes : Fail(code)

(* Connect unary: demultiplex the header, read all bytes, decompress, then    *)
(* parse an error or the message.                                             *)
ReadConnectUnary ==
  /\ cl.pc = "unary" /\ down.end # "open"
  /\ LET muxed == trailerDemux(head.fields)
         metadata == appendHeaders(muxed[1], muxed[2])
         error == errorFromJsonBytes(down.json[1], metadata, connectStatusError)
     IN  CASE down.end = "cut"     -> \E code \in LostCodes : Fail(code)
           [] down.end = "partial" -> Fail(InvalidArgument)
           [] down.end = "end" /\ isUnaryError ->
                IF web /\ ~down.json[1].valid THEN Fail(Unknown)
                ELSE Settle(<<error.error>>, << >>, EmptyHeaders)
           [] OTHER -> IF BodyParses
                       THEN Settle(<< >>, <<down.frames[1].msg>>, muxed[2])
                       ELSE Fail(InvalidArgument)

(* Variant: a unary call takes any number of messages.                         *)
ReadAnyMessage ==
  /\ cl.pc = "body" /\ cl.read < Len(down.frames) /\ ~IsEnd(Unread)
  /\ IF ~Parses(Unread) THEN Fail(InvalidArgument)
     ELSE /\ cl' = [Read EXCEPT !.msgs = Append(@, Unread.msg)]
          /\ UNCHANGED <<call, up, srv, down, peer>>

(* What a reader refuses: a second message or trailer of a unary call; after   *)
(* an end, anything in a stream, but nothing in the one of the Connect browser *)
(* transport; anything after a head that says there is no trailer.             *)
unaryRefuses         == IF IsEnd(Unread) THEN cl.trailer # << >> ELSE cl.msgs # << >>
connectStreamRefuses == node /\ cl.trailer # << >>
grpcWebStreamRefuses == trailersOnly \/ cl.trailer # << >>

Refused ==
  IF unaryCall THEN unaryRefuses
  ELSE CASE peer.protocol = "connect"  -> connectStreamRefuses
         [] peer.protocol = "grpc-web" -> grpcWebStreamRefuses
         [] OTHER                      -> FALSE

ReadMessage ==
  /\ cl.pc = "body" /\ cl.read < Len(down.frames) /\ ~IsEnd(Unread)
  /\ IF Refused THEN Fail(Violation)
     ELSE IF ~Parses(Unread) THEN Fail(InvalidArgument)
     ELSE /\ cl' = [Read EXCEPT !.msgs = Append(@, Unread.msg)]
          /\ UNCHANGED <<call, up, srv, down, peer>>

(* An end envelope: the end stream of Connect or the trailer of gRPC-web. A   *)
(* stream raises its error at once, a unary call after the body.              *)
(* Compressed bytes that a browser takes for a trailer have no fields.        *)
EndFields == IF web /\ Unread.comp THEN EmptyHeaders ELSE trailerParse(Unread.tr[1])

(* Variant: the error of an end stream is not raised.                          *)
EndErrorUnraised ==
  IF peer.protocol = "connect"
  THEN LET e == endStreamFromJson(Unread.es[1]) IN IF e.thrown THEN <<e.error>> ELSE << >>
  ELSE findTrailerError(EndFields)

EndError ==
  IF peer.protocol = "connect"
  THEN LET e == endStreamFromJson(Unread.es[1]) IN IF e.thrown THEN <<e.error>> ELSE e.error
  ELSE findTrailerError(EndFields)

EndTrailer ==
  IF peer.protocol = "connect" THEN endStreamFromJson(Unread.es[1]).metadata ELSE EndFields

ReadEnd ==
  /\ cl.pc = "body" /\ cl.read < Len(down.frames) /\ IsEnd(Unread)
  /\ LET garbled == ~Parses(Unread) /\ (node \/ peer.protocol = "connect")
     IN  IF Refused THEN Fail(Violation)
         ELSE IF garbled THEN Fail(InvalidArgument)
         ELSE IF ~unaryCall /\ EndError # << >> THEN Settle(EndError, cl.msgs, EmptyHeaders)
         ELSE /\ cl' = [Read EXCEPT !.trailer =
                          <<IF @ = << >> THEN EndTrailer ELSE SetAll(@[1], EndTrailer)>>]
              /\ UNCHANGED <<call, up, srv, down, peer>>

(* What a caller makes of a call that succeeded: a promise client takes the    *)
(* last message of a client-streaming response, and there has to be one.       *)
Answer(fields) ==
  IF call.kind = ClientStreaming /\ cl.msgs = << >>
  THEN Settle(<<Error(Internal, "client", << >>, EmptyHeaders)>>, << >>, EmptyHeaders)
  ELSE Settle(<< >>, cl.msgs, fields)

(* What is wrong with a body that ended: its end or trailer is missing, or     *)
(* the trailer has an error. gRPC takes the trailer of the response, if any.   *)
Violated == <<Error(Violation, "transport", << >>, EmptyHeaders)>>

connectBodyError == IF cl.trailer = << >> THEN Violated ELSE << >>

grpcBodyError == IF ~unaryCall /\ foundStatus THEN << >> ELSE findTrailerError(down.trailer)

grpcWebBodyError ==
  CASE trailersOnly                        -> << >>
    [] ~trailersOnly /\ cl.trailer = << >> -> Violated
    [] OTHER                               -> findTrailerError(cl.trailer[1])

BodyError ==
  CASE peer.protocol = "connect" -> connectBodyError
    [] peer.protocol = "grpc"    -> grpcBodyError
    [] OTHER                     -> grpcWebBodyError

ReadBodyEnd ==
  /\ cl.pc = "body" /\ BodyEnds
  /\ LET trailer == IF peer.protocol = "grpc" THEN <<down.trailer>> ELSE cl.trailer
     IN  CASE down.end = "cut"     -> \E code \in LostCodes : Fail(code)
           [] down.end = "partial" -> Fail(Premature)
           [] OTHER ->
                IF BodyError # << >> THEN Settle(BodyError, cl.msgs, EmptyHeaders)
                ELSE IF unaryCall /\ cl.msgs = << >> THEN Fail(Violation)
                ELSE Answer(IF trailer = << >> THEN EmptyHeaders ELSE trailer[1])

-----------------------------------------------------------------------------
(* The transports: unary() and stream() of each.                              *)

Uses(protocol, flavour, unary) ==
  peer.protocol = protocol /\ peer.flavour = flavour /\ unaryCall = unary

Request  == SendMessage \/ SendEnd \/ ReadHead \/ NoHead
ReadBody == ReadMessage \/ ReadEnd \/ ReadBodyEnd

connectUnary     == Uses("connect", "node", TRUE)   /\ (Request \/ ReadConnectUnary)
connectStream    == Uses("connect", "node", FALSE)  /\ (Request \/ ReadBody)
grpcUnary        == Uses("grpc", "node", TRUE)      /\ (Request \/ ReadBody)
grpcStream       == Uses("grpc", "node", FALSE)     /\ (Request \/ ReadBody)
grpcWebUnary     == Uses("grpc-web", "node", TRUE)  /\ (Request \/ ReadBody)
grpcWebStream    == Uses("grpc-web", "node", FALSE) /\ (Request \/ ReadBody)
webConnectUnary  == Uses("connect", "web", TRUE)    /\ (Request \/ ReadConnectUnary)
webConnectStream == Uses("connect", "web", FALSE)   /\ (Request \/ ReadBody)
webGrpcWebUnary  == Uses("grpc-web", "web", TRUE)   /\ (Request \/ ReadBody)
webGrpcWebStream == Uses("grpc-web", "web", FALSE)  /\ (Request \/ ReadBody)

ClientStep ==
  \/ connectUnary \/ connectStream \/ grpcUnary \/ grpcStream \/ grpcWebUnary \/ grpcWebStream
  \/ webConnectUnary \/ webConnectStream \/ webGrpcWebUnary \/ webGrpcWebStream
=============================================================================
