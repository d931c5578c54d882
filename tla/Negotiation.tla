---------------------------- MODULE Negotiation ----------------------------
(* What a client and a server agree on before a message is exchanged: the     *)
(* protocol and format (Content-Type), the timeout, the compression and the   *)
(* protocol version, from the client's request headers to the checks of the   *)
(* server's handlers.                                                         *)
(* A header or query parameter that is not set has the value Unset.           *)
EXTENDS Metadata

Unset == "unset"

Unary           == "unary"
ServerStreaming == "serverStreaming"
ClientStreaming == "clientStreaming"
BiDiStreaming   == "biDiStreaming"
MethodKind      == {Unary, ServerStreaming, ClientStreaming, BiDiStreaming}

-----------------------------------------------------------------------------
(* Content types. The three parsers, each a regular expression in the code,   *)
(* as the sets of values they accept.                                         *)

contentTypeUnaryRegExp  == {"application/proto", "application/json",
                            "application/json; charset=utf-8"}
contentTypeStreamRegExp == {"application/connect+proto", "application/connect+json",
                            "application/connect+json; charset=utf-8",
                            "application/connectproto", "application/connectjson"}
grpcRegExp    == {"application/grpc", "application/grpc+proto",
                  "application/grpc+json"}
grpcWebRegExp == {"application/grpc-web", "application/grpc-web+proto",
                  "application/grpc-web+json", "application/grpc-web-text",
                  "application/grpc-web-text+proto"}

JsonTypes == {"application/json", "application/json; charset=utf-8",
              "application/connect+json", "application/connect+json; charset=utf-8",
              "application/connectjson", "application/grpc+json",
              "application/grpc-web+json"}

(* The parsers return a sequence of at most one parsed type. The "+" is       *)
(* optional for the handler's matcher only, not for the parser.               *)
connectParseContentType(type) ==
  IF type \in contentTypeUnaryRegExp \cup
              (contentTypeStreamRegExp \ {"application/connectproto",
                                          "application/connectjson"})
  THEN << [stream |-> type \in contentTypeStreamRegExp,
           binary |-> type \notin JsonTypes] >>
  ELSE << >>

grpcParseContentType(type) ==
  IF type \in grpcRegExp THEN << [binary |-> type \notin JsonTypes] >> ELSE << >>

grpcWebParseContentType(type) ==
  IF type \in grpcWebRegExp
  THEN << [text |-> type \in {"application/grpc-web-text",
                              "application/grpc-web-text+proto"},
           binary |-> type \notin JsonTypes] >>
  ELSE << >>

parseEncodingQuery(encoding) ==
  IF encoding \in {"proto", "json"}
  THEN << [stream |-> FALSE, binary |-> encoding = "proto"] >> ELSE << >>

contentTypeMatcher(supported, type) == type \notin {"", Unset} /\ type \in supported

-----------------------------------------------------------------------------
(* Timeouts. A header value is a number with a unit (Connect has none), or    *)
(* "other" when it is not written with digits only.                           *)

TimeoutHeader(form, n, unit) == [form |-> form, n |-> n, unit |-> unit]
NoTimeoutHeader == TimeoutHeader("none", 0, "")

(* The clients print the number as it is: negative and fractional numbers     *)
(* are printed, but not in digits.                                            *)
WriteTimeout(t, unit) ==
  IF t.whole /\ ~t.negative THEN TimeoutHeader("digits", t.ms, unit)
  ELSE TimeoutHeader("other", t.ms, unit)

(* ms is a sequence of at most one number.                                    *)
Timeout(ms, error) == [ms |-> ms, error |-> error]

(* At most 10 digits.                                                         *)
connectParseTimeout(value, maxTimeoutMs) ==
  IF value.form = "none" THEN Timeout(<< >>, NoCode)
  ELSE IF value.form = "other" \/ value.n \div 100000 > 99999
       THEN Timeout(<< >>, InvalidArgument)
  ELSE Timeout(<<value.n>>, IF value.n > maxTimeoutMs THEN InvalidArgument ELSE NoCode)

(* At most 8 digits, and a unit: so many milliseconds, or so many to one. The *)
(* code keeps the fraction.                                                   *)
unitToMultiplicand ==
  [H |-> <<3600000, 1>>, M |-> <<60000, 1>>, S |-> <<1000, 1>>, m |-> <<1, 1>>,
   u |-> <<1, 1000>>, n |-> <<1, 1000000>>]

grpcParseTimeout(value, maxTimeoutMs) ==
  IF value.form = "none" THEN Timeout(<< >>, NoCode)
  ELSE IF value.form = "other" \/ value.n > 99999999
                               \/ value.unit \notin DOMAIN unitToMultiplicand
       THEN Timeout(<< >>, InvalidArgument)
  ELSE LET unit == unitToMultiplicand[value.unit]
       IN  Timeout(<<(unit[1] * value.n) \div unit[2]>>,
                   IF unit[1] * value.n > maxTimeoutMs * unit[2]
                   THEN InvalidArgument ELSE NoCode)

-----------------------------------------------------------------------------
(* Compression and protocol version.                                          *)

(* requested: Unset, "identity" or a name; accepted: the names of the header, *)
(* in order.                                                                  *)
compressionNegotiate(available, requested, accepted) ==
  LET request == IF requested \in available THEN requested ELSE Unset
      usable  == {i \in DOMAIN accepted : accepted[i] \in available}
      first   == CHOOSE i \in usable : \A j \in usable : i <= j
  IN  [request  |-> request,
       error    |-> IF requested \in {Unset, "identity"} \cup available
                    THEN NoCode ELSE Unimplemented,
       response |-> CASE accepted = << >> -> request
                      [] accepted # << >> /\ usable # {} -> accepted[first]
                      [] OTHER -> Unset]

(* The clients: an encoding they did not ask for is an error.                 *)
ResponseCompression(acceptCompression, encoding) ==
  IF encoding \in {Unset, "identity"} THEN [name |-> Unset, error |-> NoCode]
  ELSE IF encoding \in acceptCompression THEN [name |-> encoding, error |-> NoCode]
  ELSE [name |-> Unset, error |-> InvalidArgument]

protocolVersion == "1"

requireProtocolVersionHeader(version) ==
  IF version = protocolVersion THEN NoCode ELSE InvalidArgument

-----------------------------------------------------------------------------
(* Request headers. A client passes its acceptCompression in order, as a      *)
(* sequence of names, and its sendCompression, a name or Unset.               *)

connectRequestHeader(kind, useBinaryFormat, timeout) ==
  [type    |-> IF kind = Unary
               THEN IF useBinaryFormat THEN "application/proto" ELSE "application/json"
               ELSE IF useBinaryFormat THEN "application/connect+proto"
                                       ELSE "application/connect+json",
   timeout |-> timeout, version |-> protocolVersion,
   encoding |-> Unset, accept |-> << >>]

grpcRequestHeader(useBinaryFormat, timeout) ==
  [type    |-> IF useBinaryFormat THEN "application/grpc+proto"
                                  ELSE "application/grpc+json",
   timeout |-> timeout, version |-> Unset, encoding |-> Unset, accept |-> << >>]

grpcWebRequestHeader(useBinaryFormat, timeout) ==
  [grpcRequestHeader(useBinaryFormat, timeout) EXCEPT
     !.type = IF useBinaryFormat THEN "application/grpc-web+proto"
                                 ELSE "application/grpc-web+json"]

requestHeaderWithCompression(header, acceptCompression, sendCompression) ==
  [header EXCEPT !.encoding = sendCompression, !.accept = acceptCompression]

(* A GET request takes its encoding and compression from the query. It loses  *)
(* the version, the encoding and the accepted encodings from its header.      *)
transformConnectPostToGetRequest(header) ==
  [query  |-> [version |-> protocolVersion,
               encoding |-> CASE header.type = "application/proto" -> "proto"
                              [] header.type = "application/json"  -> "json"
                              [] OTHER                             -> Unset,
               compression |-> IF header.encoding = "identity" THEN Unset
                               ELSE header.encoding],
   header |-> [header EXCEPT !.type = Unset, !.version = Unset,
                             !.encoding = Unset, !.accept = << >>]]

=============================================================================
