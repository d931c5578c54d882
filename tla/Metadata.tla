------------------------------ MODULE Metadata ------------------------------
(* Headers, and the three ways an error and its metadata travel in them or in *)
(* a message: the JSON error and end stream of Connect, the "trailer-" fields *)
(* of a Connect unary response, the status fields of a gRPC trailer and the   *)
(* trailer block of gRPC-web.                                                 *)
(* A Headers object is a function from its field names to the sequence of     *)
(* values a field joins with ", ".                                            *)
EXTENDS Codes, FiniteSets, TLC

EmptyHeaders == [k \in {} |-> << >>]

(* Headers.set, Headers.append and Headers.has                                *)
HeaderSet(h, k, v)    == [f \in DOMAIN h \cup {k} |-> IF f = k THEN v ELSE h[f]]
HeaderAppend(h, k, v) == HeaderSet(h, k, IF k \in DOMAIN h THEN h[k] \o v ELSE v)

(* Each field of the second is appended to the first.                         *)
appendHeaders(h1, h2) ==
  [k \in DOMAIN h1 \cup DOMAIN h2 |->
     (IF k \in DOMAIN h1 THEN h1[k] ELSE << >>) \o
     (IF k \in DOMAIN h2 THEN h2[k] ELSE << >>)]

(* forEach(set): fields of the second replace those of the first.             *)
SetAll(h1, h2) ==
  [k \in DOMAIN h1 \cup DOMAIN h2 |-> IF k \in DOMAIN h2 THEN h2[k] ELSE h1[k]]

-----------------------------------------------------------------------------
(* "trailer-" prefixed fields. A field name is a pair: how often it has the   *)
(* prefix, and the rest.                                                      *)
Plain(k)    == [prefixes |-> 0, name |-> k]
Trailing(k) == [k EXCEPT !.prefixes = @ + 1]
Stripped(k) == [k EXCEPT !.prefixes = @ - 1]

trailerMux(header, trailer) ==
  SetAll(header, [k \in {Trailing(x) : x \in DOMAIN trailer} |->
                    trailer[Stripped(k)]])

trailerDemux(header) ==
  LET t == {k \in DOMAIN header : k.prefixes > 0}
  IN  << [k \in DOMAIN header \ t |-> header[k]],
         [k \in {Stripped(x) : x \in t} |-> header[Trailing(k)]] >>

-----------------------------------------------------------------------------
(* A ConnectError on its way: code, message, details and metadata.            *)
Error(code, message, details, metadata) ==
  [code |-> code, message |-> message, details |-> details,
   metadata |-> metadata]

NoMessage == ""
Absent    == "absent"

(* JSON that may stand where an error is expected: code and message are Absent *)
(* or of the wrong type ("other") unless they are strings, and a detail tells *)
(* whether it is well formed.                                                 *)
errorToJson(error) ==
  [shape |-> "object", code |-> codeToString(error.code),
   message |-> IF error.message = NoMessage THEN Absent ELSE error.message,
   details |-> error.details]

Thrown(error)   == [thrown |-> TRUE,  error |-> error]
Returned(error) == [thrown |-> FALSE, error |-> error]

(* The metadata is appended to the fallback before anything is validated.     *)
errorFromJson(json, metadata, fallback) ==
  LET fb == [fallback EXCEPT !.metadata = appendHeaders(@, metadata)]
  IN  IF \/ json.shape # "object"
         \/ json.code \in {<<Absent>>, <<"other">>}
         \/ codeFromString(json.code) = NoCode
         \/ json.message = "other"
         \/ \E i \in DOMAIN json.details : ~json.details[i].valid
      THEN Thrown(fb)
      ELSE Returned(Error(codeFromString(json.code),
                          IF json.message = Absent THEN NoMessage ELSE json.message,
                          json.details, metadata))

(* Text that is not JSON throws the fallback as it is.                        *)
errorFromJsonBytes(bytes, metadata, fallback) ==
  IF ~bytes.valid THEN Thrown(fallback)
  ELSE errorFromJson(bytes.json, metadata, fallback)

(* The end stream of a Connect streaming response: its error is a sequence of *)
(* at most one error, its metadata one of headers.                            *)
endStreamToJson(metadata, error) ==
  IF error = << >>
  THEN [shape |-> "object", metadata |-> <<metadata>>, error |-> << >>]
  ELSE [shape |-> "object", error |-> <<errorToJson(error[1])>>,
        metadata |-> <<appendHeaders(metadata, error[1].metadata)>>]

InvalidEndStream ==
  Error(InvalidArgument, "invalid end stream", << >>, EmptyHeaders)

(* Metadata of the wrong type has the shape "other".                          *)
endStreamFromJson(json) ==
  LET metadata == IF json.metadata = << >> THEN EmptyHeaders ELSE json.metadata[1]
      error    == errorFromJson(json.error[1], metadata, InvalidEndStream)
  IN  CASE json.shape # "object" -> Thrown(InvalidEndStream)
        [] json.shape = "object" /\ json.error = << >> ->
             [thrown |-> FALSE, metadata |-> metadata, error |-> << >>]
        [] OTHER -> IF error.thrown THEN error
                    ELSE [thrown |-> FALSE, metadata |-> metadata,
                          error |-> <<error.error>>]

-----------------------------------------------------------------------------
(* gRPC: the fields of a trailer. Details are carried by a google.rpc.Status  *)
(* in "grpc-status-details-bin"; the metadata of the error is not sent.       *)
headerGrpcStatus       == Plain("grpc-status")
headerGrpcMessage      == Plain("grpc-message")
headerStatusDetailsBin == Plain("grpc-status-details-bin")
grpcStatusOk           == 0

setTrailerStatus(target, error) ==
  LET status == HeaderSet(HeaderSet(target, headerGrpcStatus, <<error.code>>),
                          headerGrpcMessage, <<error.message>>)
  IN  IF error.details = << >> THEN status
      ELSE HeaderSet(status, headerStatusDetailsBin,
                     << [valid |-> TRUE, code |-> error.code,
                         message |-> error.message, details |-> error.details] >>)

(* The error that decodeBinaryHeader throws.                                  *)
Undecodable == Error(DataLoss, "decode", << >>, EmptyHeaders)

(* << >> when the status is 0 or there is none.                               *)
findTrailerError(fields) ==
  IF headerStatusDetailsBin \in DOMAIN fields
  THEN LET status == fields[headerStatusDetailsBin][1]
       IN  IF ~status.valid THEN <<Undecodable>>
           ELSE IF status.code = grpcStatusOk THEN << >>
           ELSE <<Error(status.code, status.message, status.details, fields)>>
  ELSE IF headerGrpcStatus \notin DOMAIN fields THEN << >>
  ELSE LET status == fields[headerGrpcStatus][1]
       IN  CASE status = grpcStatusOk -> << >>
             [] status \in Code ->
                  << Error(status,
                           IF headerGrpcMessage \in DOMAIN fields
                           THEN fields[headerGrpcMessage][1] ELSE NoMessage,
                           << >>, fields) >>
             [] OTHER -> <<Error(Internal, "invalid grpc-status", << >>, fields)>>

(* gRPC-web: a block of "name: value" lines; a line without a name is dropped *)
(* and a repeated one appended.                                               *)
trailerSerialize(trailer) ==
  LET keys == CHOOSE s \in [1 .. Cardinality(DOMAIN trailer) -> DOMAIN trailer] :
                {s[i] : i \in DOMAIN s} = DOMAIN trailer
  IN  [i \in DOMAIN keys |-> [name |-> keys[i], value |-> trailer[keys[i]]]]

trailerParse(lines) ==
  LET parsed[n \in 0 .. Len(lines)] ==
        IF n = 0 THEN EmptyHeaders
        ELSE IF lines[n].name = Plain(Absent) THEN parsed[n - 1]
        ELSE HeaderAppend(parsed[n - 1], lines[n].name, lines[n].value)
  IN  parsed[Len(lines)]
=============================================================================
