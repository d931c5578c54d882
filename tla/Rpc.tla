--------------------------------- MODULE Rpc ---------------------------------
(* One RPC: a client transport, the connection, and the server's handler. The *)
(* connection may be lost, with any suffix of what was written and not read.  *)
(* The client may also face a server that is not this one (the response is    *)
(* then given), and the server a client that is not (the request is given).   *)
EXTENDS Transport

CONSTANTS
  Calls,            \* pairs of a call and the client of ours that makes it
  OtherHeaders,     \* request headers of other clients,
  OtherEnvelopes,   \* and the envelopes they send
  OtherHeads,       \* response heads of other servers,
  Replies(_),       \* the envelopes they send in a protocol,
  OtherTrailers,    \* the trailers of gRPC servers,
  OtherErrors,      \* and the bodies of Connect unary errors
  MaxEnvelopes      \* number of envelopes in the body of another client or server

ASSUME BodyAssumption == MaxEnvelopes \in Nat

(* The transports, and the calls they make, by POST or by GET. Those of       *)
(* browsers know no gRPC, no streams of the caller and no compression.        *)
Names(p) == {p.accept[i] : i \in DOMAIN p.accept}

IsTransport(p) ==
  /\ p.accept \in Seq(Names(p))
  /\ p.protocol \in Protocols /\ p.flavour \in {"node", "web"}
  /\ p.flavour = "web" => p.protocol # "grpc" /\ p.accept = << >> /\ p.send = Unset

Makes(p, c) ==
  LET header == askedHeader(c.kind, p, c.large)
      get    == transformConnectPostToGetRequest(header)
  IN  /\ c.kind \in IF p.flavour = "web" THEN {Unary, ServerStreaming} ELSE MethodKind
      /\ c.kind = BiDiStreaming => ~c.http1
      /\ \/ c.method = "POST" /\ c.header = header /\ c.query = NoQuery
         \/ /\ c.method = "GET" /\ p.protocol = "connect" /\ c.kind = Unary /\ c.noSideEffects
            /\ c.header = get.header /\ c.query = get.query

ASSUME CallsAssumption ==
  \A c \in Calls : /\ IsTransport(c.peer) /\ Makes(c.peer, c.call)
                   /\ c.call.large \in BOOLEAN
                   /\ c.call.serverAccept \cap {Unset, "identity"} = {}

(* The options of a client may rule out that it accepts the compression it     *)
(* sends. Its calls do not keep the contract then.                             *)
AcceptsWhatItSends(p) == p.send \in {Unset} \cup Names(p)

VARIABLES lost   \* whether the connection was lost

vars == <<call, up, srv, down, peer, cl, lost>>

Given(body) == [frames |-> body, end |-> "end"]

(* A request the transport sends as a whole.                                  *)
Whole == web \/ call.method = "GET"

InitCall ==
  /\ \E c \in Calls : call = c.call /\ peer = c.peer
  /\ up = IF Whole THEN Given(<<Envelope(1, RequestCompressed)>>) ELSE NoBody
  /\ HandlerInit /\ down = NoResponse
  /\ cl = Sending(IF Whole THEN 1 ELSE 0)

Bodies(envelopes, max) == UNION {[1 .. n -> envelopes] : n \in 0 .. max}

InitRequest ==
  /\ \E kind \in MethodKind, method \in {"GET", "POST"}, h \in OtherHeaders, http1 \in BOOLEAN :
       /\ http1 => kind = BiDiStreaming
       /\ call = [kind |-> kind, method |-> method, header |-> h, http1 |-> http1,
                  query |-> NoQuery, noSideEffects |-> method = "GET",
                  serverAccept |-> {"gzip"}, maxTimeoutMs |-> 1000,
                  requireProtocolHeader |-> TRUE, large |-> FALSE]
  /\ \E f \in Bodies(OtherEnvelopes, MaxEnvelopes - 1), e \in {"end", "partial", "cut"} :
       up = [frames |-> f, end |-> e]
  /\ peer = [protocol |-> "none"]
  /\ HandlerInit /\ down = NoResponse
  /\ cl = [pc |-> "none"]

(* fetch() reads the body of a Connect unary response as a whole or fails.    *)
BodyEndings == CASE node                                        -> {"end", "partial"}
                 [] web /\ unaryCall /\ peer.protocol = "connect" -> {"end"}
                 [] OTHER                                       -> {"end", "partial", "within"}

InitResponse ==
  /\ \E c \in Calls : call = c.call /\ peer = c.peer
  /\ call.method = "POST" /\ call.kind # BiDiStreaming
  /\ \E h \in OtherHeads, e \in BodyEndings,
        t \in IF peer.protocol = "grpc" THEN OtherTrailers ELSE {EmptyHeaders},
        j \in IF peer.protocol = "connect" /\ unaryCall THEN OtherErrors ELSE {<< >>},
        f \in Bodies(Replies(peer.protocol),
                     IF peer.protocol = "connect" /\ unaryCall THEN 1 ELSE MaxEnvelopes) :
       /\ e = "within" => f # << >> /\ CutShort(f[Len(f)])
       /\ down = [head |-> <<h>>, frames |-> f, end |-> e, trailer |-> t, json |-> j]
  /\ up = Given(<<Envelope(1, FALSE)>>)
  /\ srv = [pc |-> "none"]
  /\ cl = Sending(1)

Init == lost = FALSE /\ (InitCall \/ InitRequest \/ InitResponse)

Ours == cl.pc # "none" /\ srv.pc # "none"

(* What was written last may never arrive.                                    *)
Lose ==
  /\ Ours /\ cl.pc # "done" /\ ~lost
  /\ lost' = TRUE
  /\ up' = IF up.end = "open" THEN [up EXCEPT !.end = "cut"] ELSE up
  /\ \E n \in cl.read .. Len(down.frames) :
       down' = [down EXCEPT !.frames = SubSeq(@, 1, n), !.end = "cut",
                            !.json = << >>]
  /\ UNCHANGED <<call, srv, peer, cl>>

Server == srv.pc # "none" /\ HandlerStep /\ UNCHANGED <<peer, cl, lost>>
Stop   == srv.pc # "none" /\ HangUp /\ UNCHANGED <<peer, cl, lost>>
Client == cl.pc \notin {"none", "done"} /\ ClientStep /\ UNCHANGED lost

Next == Server \/ Stop \/ Client \/ Lose
Spec == Init /\ [][Next]_vars

(* The event loops of client and server run, implementations return, and      *)
(* callers end their requests. The connection need not be lost.               *)
FairSpec == Spec /\ WF_vars(Server) /\ WF_vars(Stop) /\ WF_vars(Client)

-----------------------------------------------------------------------------
(* A call of ours keeps the contract of CallContract: what the caller gets is *)
(* what the implementation did, unless the connection was lost.               *)

App(trailer) == [k \in DOMAIN trailer \ {headerGrpcStatus} |-> trailer[k]]
Wire(error)  == IF error = << >> THEN << >>
                ELSE <<[code |-> error[1].code, message |-> error[1].message,
                        details |-> error[1].details]>>
End(error, trailer) ==
  <<[error |-> Wire(error), trailer |-> IF error = << >> THEN App(trailer) ELSE EmptyHeaders]>>

Emitted  == IF srv.pc = "none" THEN 0 ELSE srv.out
Reply    == IF srv.pc = "none" \/ srv.fin = << >> THEN << >> ELSE End(srv.fin[1], srv.trailer)
Received == IF Ours THEN cl.msgs ELSE << >>
Outcome  == IF ~Ours \/ cl.outcome = << >> THEN << >>
            ELSE End(cl.outcome[1].error, cl.outcome[1].trailer)

Contract == INSTANCE CallContract WITH
  emitted <- Emitted, answer <- Reply, received <- Received, outcome <- Outcome, lost <- lost

KeepsContract == Contract!Spec

(* The implementation of a call of ours sees the messages of the caller in    *)
(* order and none twice, and is called once.                                  *)
Ordered(s) == \A i \in DOMAIN s : s[i] = i
InputsInOrder ==
  Ours => /\ Ordered(srv.got) /\ Len(srv.got) <= cl.sent
          /\ srv.invoked <= 1

(* Every call of ours settles: it never waits for a message or an end that    *)
(* the other side only sends after hearing from it.                           *)
CallSettles == Ours ~> cl.pc \in {"none", "done"} \/ ~Ours

(* An implementation learns that its caller is gone: its context is aborted.  *)
HandlerStops ==
  (Ours /\ cl.pc = "done") ~> (srv.pc \in {"done", "refused", "gone"} \/ ~Ours)

-----------------------------------------------------------------------------
(* Requests of other clients.                                                 *)

Theirs == cl.pc = "none"
Answered == Theirs /\ srv.pc = "done"
Ends == {i \in DOMAIN down.frames : down.frames[i].end}

(* Whatever the request, a response that is not a refusal ends exactly once,  *)
(* says so where its protocol says it, and nothing follows.                   *)
ResponseWellFormed ==
  Answered =>
    /\ Len(down.head) = 1 /\ down.end = "end"
    /\ CASE selectedProtocol = "grpc" ->
              Ends = {} /\ headerGrpcStatus \in DOMAIN down.trailer
         [] streamHandler /\ selectedProtocol # "grpc" -> Ends = {Len(down.frames)}
         [] OTHER -> /\ Ends = {}
                     /\ (head.status = 200) = (Len(down.frames) = 1)
                     /\ (head.status = 200) = (down.json = << >>)

(* A unary or server-streaming implementation is called only for a request    *)
(* without early errors that begins with a message (gRPC has no ends to skip  *)
(* before it), and the call succeeds only if that was the only one and the    *)
(* request was complete, with nothing in it that could not be read.           *)
Inputs == {i \in DOMAIN up.frames : ~(up.frames[i].end /\ selectedProtocol # "grpc")}

OneInput ==
  Theirs /\ srv.invoked = 1 /\ single =>
    /\ earlyError = NoCode
    /\ \E i \in Inputs :
         /\ \A j \in Inputs : i <= j
         /\ Readable(up.frames[i])
         /\ srv.fin = << << >> >> => /\ Inputs = {i} /\ up.end = "end"
                                    /\ \A j \in DOMAIN up.frames : Readable(up.frames[j])

(* A streaming implementation that reads its input reads no message of a      *)
(* request with an early error: what it reads then is that error.             *)
EarlyErrorsFirst == Theirs /\ srv.pc \notin {"start", "refused"} /\ earlyError # NoCode
                      => srv.got = << >>

(* A Connect request without a required protocol version gets an error.       *)
RequiredVersionEnforced ==
  (Answered /\ selectedProtocol = "connect" /\ call.header.version = Unset
     /\ call.requireProtocolHeader) => srv.fin # << << >> >>

-----------------------------------------------------------------------------
(* Responses of other servers.                                                *)

Succeeded == srv.pc = "none" /\ cl.pc = "done" /\ cl.outcome[1].error = << >>

(* A caller never takes a response for a success that is not complete, has a  *)
(* message it cannot parse, or has not the messages a unary call needs, and   *)
(* it has all messages of the response then, in order and none twice. But a   *)
(* browser does if the body breaks off within a gRPC-web trailer, or within   *)
(* what follows an end.                                                       *)
MessagesUpTo(n) == {i \in 1 .. n : ~IsEnd(down.frames[i])}

SuccessIsComplete ==
  Succeeded =>
    /\ \/ down.end = "end"
       \/ down.end = "within" /\ (\/ peer.protocol = "grpc-web"
                                 \/ \E i \in Ends : i < Len(down.frames))
    /\ peer.protocol = "connect" /\ unaryCall => BodyParses
    /\ ~(peer.protocol = "connect" /\ unaryCall) =>
         \A i \in DOMAIN down.frames : IsEnd(down.frames[i]) \/ Parses(down.frames[i])
    /\ unaryCall => Len(cl.msgs) = 1
    /\ call.kind = ClientStreaming => cl.msgs # << >>
    /\ Len(cl.msgs) = Cardinality(MessagesUpTo(Len(down.frames)))
    /\ \A i \in MessagesUpTo(Len(down.frames)) :
         cl.msgs[Cardinality(MessagesUpTo(i))] = down.frames[i].msg
    /\ peer.protocol # "grpc" /\ ~(peer.protocol = "connect" /\ unaryCall)
         => \/ trailersOnly /\ down.frames = << >>
            \/ Ends # {} /\ (Ends = {Len(down.frames)} \/ unaryCall \/ web)

(* A body that ends within an envelope is no success (envelope.ts:92).        *)
NoneBreaksOff == Succeeded => down.end = "end"

(* A caller never takes a response for a success that carries an error: in    *)
(* its status, its head, its trailer or its end, as far as they arrived. The  *)
(* exceptions are a gRPC stream whose head says that there is no trailer, and *)
(* a compressed trailer, which a browser does not decompress.                 *)
ErrorsAreRaised ==
  Succeeded =>
    /\ head.status \in 200 .. 299
    /\ peer.protocol # "connect" => findTrailerError(head.fields) = << >>
    /\ peer.protocol = "grpc" /\ ~(foundStatus /\ ~unaryCall)
         => findTrailerError(down.trailer) = << >>
    /\ \A i \in Ends :
         /\ peer.protocol = "connect" =>
              down.frames[i].es[1].shape = "object" /\ down.frames[i].es[1].error = << >>
         /\ peer.protocol = "grpc-web" /\ ~(web /\ down.frames[i].comp)
              => findTrailerError(trailerParse(down.frames[i].tr[1])) = << >>
=============================================================================
