-------------------------------- MODULE Router --------------------------------
(* The router (connect/src/router.ts), the implementations registered with it  *)
(* (implementation.ts), and the adapters that serve them: a Node.js server,    *)
(* Express, Fastify, Next.js, the fetch API, and the client in memory of the     *)
(* router transport (universal-handler-client.ts). An adapter is here from the *)
(* request to the response of the handler; ServerResponse has how the response *)
(* is written.                                                                 *)
EXTENDS Naturals, Sequences

CONSTANTS
  Services,      \* a service is the set of its methods
  Streaming,     \* the methods that are not unary
  MaxCalls       \* bound: registrations

Methods   == UNION Services
Protocols == {"grpc", "grpcWeb", "connect"}
Adapters  == {"node", "express", "fastify", "next", "fetch", "memory"}

VARIABLES
  adapter,
  disabled,   \* the protocols that the options of the router set to false
  handlers,   \* router.handlers: for each registration, its methods' handlers
  table,      \* the map of paths, a sequence of at most one
  request,    \* the request that is served
  answer      \* what became of it

vars == <<adapter, disabled, handlers, table, request, answer>>

Unimplemented == 0     \* else an implementation is the number of its registration

NoRequest == [path |-> "none"]

-----------------------------------------------------------------------------
(* Options. The limit on messages: the one of the router, which it validated,  *)
(* or the one of the registration, which nobody validates.                     *)
Limits == {"router", "own", "outOfRange", "undefined"}

Base == Protocols \ disabled

(* The options of a registration have limits and compression, but do not name  *)
(* protocols. If there are any, only they are asked which are disabled.        *)
whichProtocols(hasOptions) == IF hasOptions THEN Protocols ELSE Base

(* The options of a registration are spread over those of the router.          *)
Options == {[given |-> FALSE, limit |-> "router"]}
             \cup [given : {TRUE}, limit : Limits]

-----------------------------------------------------------------------------
(* Registration.                                                               *)

(* createMethodImplSpec(), and the handler of the three protocols for it.      *)
createUniversalMethodHandler(options, impl) ==
  [protocols |-> whichProtocols(options.given), impl |-> impl, limit |-> options.limit]

(* createServiceImplSpec(): the methods that are left out are unimplemented.   *)
implOf(method, given) == IF method \in given THEN Len(handlers) + 1 ELSE Unimplemented

createUniversalServiceHandlers(service, options, given) ==
  [method \in service |-> createUniversalMethodHandler(options, implOf(method, given))]

(* Protocols are enabled unless an option is false, and one has to be.         *)
ConnectRouterOptions == (SUBSET Protocols) \ {Protocols}

(* The router transport enables Connect whatever the options say.              *)
createRouterTransport == adapter = "memory" => "connect" \notin disabled

Init ==
  /\ adapter \in Adapters
  /\ disabled \in ConnectRouterOptions
  /\ createRouterTransport
  /\ handlers = << >> /\ table = << >>
  /\ request = NoRequest /\ answer = [is |-> "none"]

Registers(new) ==
  /\ table = << >> /\ Len(handlers) < MaxCalls
  /\ handlers' = Append(handlers, new)
  /\ UNCHANGED <<adapter, disabled, table, request, answer>>

(* router.service(): a handler for each method of the service.                 *)
Service ==
  \E service \in Services, options \in Options : \E given \in SUBSET service :
    Registers(createUniversalServiceHandlers(service, options, given))

(* router.rpc(): a handler for one method.                                     *)
Rpc ==
  \E method \in Methods, options \in Options :
    Registers([m \in {method} |->
                 createUniversalMethodHandler(options, Len(handlers) + 1)])

-----------------------------------------------------------------------------
(* The table of paths: a later handler replaces an earlier. Only Fastify       *)
(* refuses a path that it has.                                                 *)
Latest(method, i) ==
  /\ i \in DOMAIN handlers /\ method \in DOMAIN handlers[i]
  /\ \A j \in DOMAIN handlers : method \in DOMAIN handlers[j] => j <= i

Registered == UNION {DOMAIN handlers[i] : i \in DOMAIN handlers}

Paths == [method \in Registered |->
            handlers[CHOOSE i \in DOMAIN handlers : Latest(method, i)][method]]

MapsPaths == table' = <<Paths>>

connectNodeAdapter         == adapter = "node" /\ MapsPaths
expressConnectMiddleware   == adapter = "express" /\ MapsPaths
nextJsApiRouter            == adapter = "next" /\ MapsPaths
createUniversalHandlerClient == adapter = "memory" /\ MapsPaths

(* A function for each handler, which the program keeps by path.               *)
createFetchHandler == adapter = "fetch" /\ MapsPaths

fastifyConnectPlugin ==
  /\ adapter = "fastify"
  /\ \A i, j \in DOMAIN handlers : i # j => DOMAIN handlers[i] \cap DOMAIN handlers[j] = {}
  /\ MapsPaths

Adapt ==
  /\ table = << >>
  /\ \/ connectNodeAdapter \/ expressConnectMiddleware \/ fastifyConnectPlugin
     \/ nextJsApiRouter \/ createUniversalHandlerClient \/ createFetchHandler
  /\ UNCHANGED <<adapter, disabled, handlers, request, answer>>

-----------------------------------------------------------------------------
(* A request. A middleware may have parsed a body of JSON before: that of      *)
(* Express and Next.js reaches the handler, that of a Node.js server is not    *)
(* looked at, and the plugin for Fastify has parsers that do nothing.          *)
getPreparsedBody == adapter \in {"express", "next"}

Requests ==
  [path : Methods \cup {"other"}, protocol : Protocols, parsed : BOOLEAN]

Sends ==
  /\ table # << >> /\ request = NoRequest
  /\ request' \in {r \in Requests : r.parsed => getPreparsedBody}
  /\ answer' = [is |-> "received"]
  /\ UNCHANGED <<adapter, disabled, handlers, table>>

Answers(is) ==
  /\ answer' = [is |-> is]
  /\ UNCHANGED <<adapter, disabled, handlers, table, request>>

(* No handler: the fallback of the Node.js server or the router of Fastify     *)
(* answers 404, Express and a program with fetch handlers go on, the client in *)
(* memory raises an error.                                                     *)
NotFound ==
  /\ answer.is = "received" /\ request.path \notin DOMAIN table[1]
  /\ Answers(CASE adapter \in {"express", "fetch"} -> "next"
               [] adapter = "memory"  -> "unimplemented"
               [] OTHER               -> "404")

Handles == answer.is = "received" /\ request.path \in DOMAIN table[1]

(* universalRequestFromNodeRequest() throws if it cannot tell the authority:   *)
(* Fastify and Next.js only log it, the others let it through.                 *)
NoAuthority ==
  /\ Handles /\ adapter \notin {"fetch", "memory"}
  /\ Answers(IF adapter \in {"fastify", "next"} THEN "open" ELSE "thrown")

(* negotiateProtocol(): no handler for the content type.                       *)
Unsupported ==
  /\ Handles /\ request.protocol \notin table[1][request.path].protocols
  /\ Answers("415")

(* assertByteStreamRequest() throws, the adapter logs the error, and does not  *)
(* answer. A unary handler for Connect takes a parsed body.                    *)
assertByteStreamRequest ==
  ~request.parsed \/ (request.protocol = "connect" /\ request.path \notin Streaming)

NoByteStream == ~assertByteStreamRequest /\ Answers("open")

Implementation ==
  /\ assertByteStreamRequest
  /\ answer' = [is |-> "running", impl |-> table[1][request.path].impl]
  /\ UNCHANGED <<adapter, disabled, handlers, table, request>>

Negotiated ==
  /\ Handles /\ request.protocol \in table[1][request.path].protocols
  /\ NoByteStream \/ Implementation

Running == answer.is = "running"

(* The handler has a response, and the adapter writes it, or the writer fails, *)
(* and an error is logged unless its code is Aborted.                          *)
Responds ==
  /\ Running
  /\ \E is \in {"response"} \cup (IF adapter = "memory" THEN {} ELSE {"failed"}) :
       answer' = [is |-> is, impl |-> answer.impl]
  /\ UNCHANGED <<adapter, disabled, handlers, table, request>>

(* raceSignal(): the client in memory rejects when the signal of the request   *)
(* is aborted, and does not wait for the handler.                              *)
raceSignal == Running /\ adapter = "memory" /\ Answers("canceled")

Again ==
  /\ answer.is \notin {"none", "received", "running"}
  /\ request' = NoRequest /\ answer' = [is |-> "none"]
  /\ UNCHANGED <<adapter, disabled, handlers, table>>

Next == \/ Service \/ Rpc \/ Adapt
        \/ Sends \/ NotFound \/ NoAuthority \/ Unsupported \/ Negotiated
        \/ Responds \/ raceSignal \/ Again

Spec == Init /\ [][Next]_vars

-----------------------------------------------------------------------------
(* The types.                                                                  *)
TypeOK ==
  /\ adapter \in Adapters /\ disabled \subseteq Protocols
  /\ \A i \in DOMAIN handlers : \A method \in DOMAIN handlers[i] :
       handlers[i][method] \in [protocols : SUBSET Protocols, impl : Nat, limit : Limits]
  /\ answer.is \in {"none", "received", "next", "404", "415", "unimplemented",
                    "thrown", "open", "running", "response", "failed", "canceled"}

(* A protocol that the options of the router disable answers no request        *)
(* (router.ts:77).                                                             *)
DisabledIsOff ==
  answer.is \in {"running", "response"} => request.protocol \notin disabled

(* What answers is an implementation that was registered for the method, and   *)
(* no registration for the method is later (connect-node-adapter.ts:77).       *)
LatestAnswers ==
  answer.is \in {"running", "response", "failed"} =>
    \E i \in DOMAIN handlers :
      Latest(request.path, i) /\ handlers[i][request.path].impl = answer.impl

(* An adapter answers every request (universal.ts:84): it does not, if the     *)
(* body was parsed and the handler needs the bytes.                            *)
EveryRequestIsAnswered == answer.is # "open"

(* The limits of a handler are within the range that the options of a router   *)
(* must be in (universal-handler.ts:153).                                      *)
LimitsInRange ==
  \A i \in DOMAIN handlers : \A method \in DOMAIN handlers[i] :
    handlers[i][method].limit \in {"router", "own"}
=============================================================================
