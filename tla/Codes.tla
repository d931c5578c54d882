------------------------------- MODULE Codes -------------------------------
(* The error codes of an RPC, their names, and how they are carried by and    *)
(* derived from the codes of the layers below: HTTP statuses, HTTP/2 reset    *)
(* codes and the error codes of Node.js.                                      *)
(* connect/src/code.ts, connect/src/connect-error.ts, code-string.ts and the  *)
(* two http-status.ts, connect-node/src/node-error.ts.                        *)
EXTENDS Naturals, Sequences

Canceled           == 1
Unknown            == 2
InvalidArgument    == 3
DeadlineExceeded   == 4
NotFound           == 5
AlreadyExists      == 6
PermissionDenied   == 7
ResourceExhausted  == 8
FailedPrecondition == 9
Aborted            == 10
OutOfRange         == 11
Unimplemented      == 12
Internal           == 13
Unavailable        == 14
DataLoss           == 15
Unauthenticated    == 16
Code               == Canceled .. Unauthenticated

(* The name of a code is its enum key in snake case, here its words.          *)
CodeNames ==
  << <<"canceled">>, <<"unknown">>, <<"invalid", "argument">>,
     <<"deadline", "exceeded">>, <<"not", "found">>, <<"already", "exists">>,
     <<"permission", "denied">>, <<"resource", "exhausted">>,
     <<"failed", "precondition">>, <<"aborted">>, <<"out", "of", "range">>,
     <<"unimplemented">>, <<"internal">>, <<"unavailable">>,
     <<"data", "loss">>, <<"unauthenticated">> >>

NoCode == 0

(* A number that is not a code is written in decimals.                        *)
codeToString(value) ==
  IF value \in Code THEN CodeNames[value] ELSE <<"number">>

(* The lookup table is an object literal: besides the names of the codes it   *)
(* has the keys of Object.prototype ("constructor", "toString", ...), whose   *)
(* values are functions.                                                      *)
PrototypeKey == <<"prototype", "key">>
NotACode     == 99

codeFromString(name) ==
  CASE name = PrototypeKey -> NotACode
    [] \E c \in Code : codeToString(c) = name ->
         CHOOSE c \in Code : codeToString(c) = name
    [] OTHER -> NoCode

-----------------------------------------------------------------------------
(* HTTP statuses.                                                             *)

codeToHttpStatus(code) ==
  CASE code \in {Canceled, DeadlineExceeded}         -> 408
    [] code \in {InvalidArgument, OutOfRange}        -> 400
    [] code \in {NotFound, Unimplemented}            -> 404
    [] code \in {AlreadyExists, Aborted}             -> 409
    [] code = PermissionDenied                       -> 403
    [] code = ResourceExhausted                      -> 429
    [] code = FailedPrecondition                     -> 412
    [] code = Unavailable                            -> 503
    [] code = Unauthenticated                        -> 401
    [] OTHER                                         -> 500

(* protocol-connect/http-status.ts                                            *)
codeFromHttpStatus(status) ==
  CASE status = 400                  -> InvalidArgument
    [] status = 401                  -> Unauthenticated
    [] status = 403                  -> PermissionDenied
    [] status = 404                  -> Unimplemented
    [] status = 408                  -> DeadlineExceeded
    [] status = 409                  -> Aborted
    [] status = 412                  -> FailedPrecondition
    [] status \in {413, 431}         -> ResourceExhausted
    [] status = 415                  -> Internal
    [] status \in {429, 502, 503, 504} -> Unavailable
    [] OTHER                         -> Unknown

(* protocol-grpc/http-status.ts, also used by gRPC-web                        *)
grpcCodeFromHttpStatus(status) ==
  CASE status = 400                    -> Internal
    [] status = 401                    -> Unauthenticated
    [] status = 403                    -> PermissionDenied
    [] status = 404                    -> Unimplemented
    [] status \in {429, 502, 503, 504} -> Unavailable
    [] OTHER                           -> Unknown

-----------------------------------------------------------------------------
(* Thrown values. A ConnectError has a code; an "AbortError" is what fetch    *)
(* throws when its signal aborts; any other Error or value is "other".        *)

ConnectErr(code) == [kind |-> "connect", code |-> code]
AbortErr         == [kind |-> "abort"]
OtherErr         == [kind |-> "other"]

(* ConnectError.from(reason, code): the code of the error it returns.         *)
codeFrom(reason, code) ==
  CASE reason.kind = "connect" -> reason.code
    [] reason.kind = "abort"   -> Canceled
    [] OTHER                   -> code

-----------------------------------------------------------------------------
(* Errors of Node.js: the code properties along the chain of causes of an      *)
(* error, which ends at an error that is in it already.                       *)
connectErrorFromNodeReason(chain) ==
  LET some(props) == \E i \in DOMAIN chain : chain[i] \in props
  IN  IF some({"ERR_STREAM_WRITE_AFTER_END", "ERR_STREAM_DESTROYED",
               "ERR_HTTP2_INVALID_STREAM", "ECONNRESET"}) THEN Aborted
      ELSE IF some({"ETIMEDOUT", "ENOTFOUND", "EAI_AGAIN", "ECONNREFUSED"}) THEN Unavailable
      ELSE Internal

H2CANCEL == 8

(* NoCode stands for undefined: the reset code is no error.                   *)
connectErrorFromH2ResetCode(rstCode) ==
  CASE rstCode \in {1, 2, 3, 4, 6, 9, 10} -> Internal
    [] rstCode = 7                        -> Unavailable
    [] rstCode = H2CANCEL                 -> Canceled
    [] rstCode = 11                       -> ResourceExhausted
    [] rstCode \in {12, 13}               -> PermissionDenied
    [] OTHER                              -> NoCode
=============================================================================
