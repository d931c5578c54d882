-------------------------------- MODULE MCRpc --------------------------------
(* Calls, requests and responses for the model checker's runs of Rpc.         *)
EXTENDS Rpc

Detail == [valid |-> TRUE, type |-> "d"]
Failures == { <<Error(NotFound, "not found", <<Detail>>, EmptyHeaders)>>,
              <<Error(Aborted, NoMessage, << >>, Plain("m") :> <<"v">>)>>,
              << >> }
Trailers == {EmptyHeaders, Plain("x") :> <<"v">>}

Call(kind, method, header, query, accept, large) ==
  [kind |-> kind, method |-> method, noSideEffects |-> method = "GET", http1 |-> FALSE,
   header |-> header, query |-> query, serverAccept |-> accept, maxTimeoutMs |-> 1000,
   requireProtocolHeader |-> TRUE, large |-> large]

(* A call as a client of ours makes it.                                       *)
Ask(p, kind, accept, large, get) ==
  LET h == askedHeader(kind, p, large)
      g == transformConnectPostToGetRequest(h)
  IN  [peer |-> p,
       call |-> IF get THEN Call(kind, "GET", g.header, g.query, accept, large)
                ELSE Call(kind, "POST", h, NoQuery, accept, large)]

Peer(protocol, flavour, accept, send, timeout) ==
  [protocol |-> protocol, flavour |-> flavour, accept |-> accept, send |-> send,
   timeout |-> timeout, binary |-> TRUE]

Peers(accepts, sends, timeouts) ==
  { Peer(protocol, flavour, accept, send, timeout) :
      protocol \in {"connect", "grpc", "grpc-web"}, flavour \in {"node", "web"},
      accept \in accepts, send \in sends, timeout \in timeouts }

Made(p, kind, get) ==
  /\ p.flavour = "web" => /\ kind \in {Unary, ServerStreaming} /\ p.protocol # "grpc"
                          /\ p.accept = << >> /\ p.send = Unset
  /\ get => p.protocol = "connect" /\ kind = Unary

Asked(peers, accepts, larges) ==
  { Ask(c[1], c[2], c[3], c[4], c[5]) :
      c \in { x \in peers \X MethodKind \X accepts \X larges \X BOOLEAN :
                Made(x[1], x[2], x[5]) } }

Plainly == { << >> }
Ms(n)   == <<[ms |-> n, whole |-> TRUE, negative |-> FALSE]>>

(* Clients that accept what they send.                                        *)
TheCalls ==
  Asked(Peers({<< >>, <<"gzip">>}, {Unset}, Plainly), {{}, {"gzip"}}, {TRUE})
  \cup Asked(Peers({<<"gzip">>}, {"gzip"}, Plainly), {{}, {"gzip"}}, BOOLEAN)
  \cup Asked(Peers({<< >>}, {Unset}, {Ms(1), Ms(2000)}), {{}}, {FALSE})

(* Clients that send compressed messages, but want none.                      *)
OptedOut == Asked(Peers({<< >>}, {"gzip"}, Plainly), {{"gzip"}}, {TRUE})

-----------------------------------------------------------------------------
(* Requests of other clients: ends, compressed or malformed messages, under   *)
(* headers that are not ours.                                                 *)
InEnvelopes == { Envelope(1, FALSE), Envelope(1, TRUE),
                 [Envelope(1, FALSE) EXCEPT !.valid = FALSE],
                 EndEnvelope(<< >>, << >>, FALSE) }

Headers ==
  { [type |-> type, version |-> version, encoding |-> encoding, timeout |-> timeout,
     accept |-> << >>] :
      type \in {"application/proto", "application/connect+json", "application/connectproto",
                "application/grpc", "application/grpc-web-text", "application/grpc-web", Unset},
      version \in {protocolVersion, Unset}, encoding \in {Unset, "br"},
      timeout \in {NoTimeoutHeader, TimeoutHeader("other", 0, "m")} }

-----------------------------------------------------------------------------
(* Responses of other servers.                                                *)
Status(n) == headerGrpcStatus :> <<n>>
Line(n)   == <<[name |-> headerGrpcStatus, value |-> <<n>>]>>
Nameless  == <<[name |-> Plain(Absent), value |-> << >>]>>
GoodEnd   == [shape |-> "object", metadata |-> << >>, error |-> << >>]
BadEnd    == [GoodEnd EXCEPT !.error =
                <<[shape |-> "object", code |-> <<"not", "found">>, message |-> Absent,
                   details |-> << >>]>>]
NotJson   == [GoodEnd EXCEPT !.shape = "other"]

OutEnvelopes(protocol) ==
  { Envelope(1, FALSE), [Envelope(1, FALSE) EXCEPT !.valid = FALSE], Envelope(2, TRUE) } \cup
  CASE protocol = "connect"  -> { EndEnvelope(<<e>>, << >>, FALSE) : e \in {GoodEnd, BadEnd, NotJson} }
    [] protocol = "grpc-web" -> { EndEnvelope(<< >>, <<t>>, FALSE) :
                                    t \in {Line(0), Line(NotFound), Nameless} }
    [] OTHER -> {}

Json(code) == <<[valid |-> TRUE, json |-> [shape |-> "object", code |-> code,
                                           message |-> Absent, details |-> << >>]]>>
ErrorBodies == {Json(<<"not", "found">>), Json(<<"other">>), <<[valid |-> FALSE]>>}
GrpcTrailers == {EmptyHeaders, Status(0), Status(NotFound), Status(77)}

ResponseHeads ==
  { ResponseHead(200, "application/proto", Unset, EmptyHeaders),
    ResponseHead(200, "application/proto", "br", EmptyHeaders),
    ResponseHead(200, "application/proto", Unset, Status(0)),
    ResponseHead(200, "application/proto", Unset, Status(NotFound)),
    ResponseHead(204, "application/proto", Unset, EmptyHeaders),
    ResponseHead(503, "application/json", Unset, EmptyHeaders),
    ResponseHead(503, "text/html", Unset, EmptyHeaders) }
=============================================================================
