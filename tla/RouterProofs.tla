----------------------------- MODULE RouterProofs -----------------------------
(* Theorems about Router, for every set of services, and of registrations.     *)
EXTENDS Router, TLAPS

Handler == [protocols : SUBSET Protocols, impl : Nat, limit : Limits]

Registration == UNION {[methods -> Handler] : methods \in SUBSET Methods}

Outcomes == {"none", "received", "next", "404", "415", "unimplemented", "thrown",
             "open", "running", "response", "failed", "canceled"}

Handled == {"running", "response", "failed"}

(* The inductive invariant: a method that is registered has a latest handler,  *)
(* the table is the one of the registrations, and an answer is of the handler  *)
(* in it.                                                                      *)
Typed ==
  /\ adapter \in Adapters /\ disabled \subseteq Protocols
  /\ handlers \in Seq(Registration)
  /\ answer.is \in Outcomes

HasLatest == \A method \in Registered : \E i \in DOMAIN handlers : Latest(method, i)

TableIsCurrent == table # << >> => table = <<Paths>>

AnswerIsOfTable ==
  /\ answer.is # "none" => table # << >>
  /\ answer.is \in Handled =>
       request.path \in Registered /\ answer.impl = Paths[request.path].impl

Inv == Typed /\ HasLatest /\ TableIsCurrent /\ AnswerIsOfTable

-----------------------------------------------------------------------------
\* A handler of a registration is a handler.
LEMMA HandlerType ==
  ASSUME Typed, NEW options \in Options, NEW impl \in Nat
  PROVE  createUniversalMethodHandler(options, impl) \in Handler
<1>1. options.limit \in Limits
  <2>1. CASE options = [given |-> FALSE, limit |-> "router"]
    BY <2>1 DEF Limits
  <2>2. CASE options \in [given : {TRUE}, limit : Limits]
    BY <2>2
  <2> QED
    BY <2>1, <2>2 DEF Options
<1>2. whichProtocols(options.given) \in SUBSET Protocols
  BY DEF whichProtocols, Base
<1> QED
  BY <1>1, <1>2 DEF createUniversalMethodHandler, Handler

\* A registration leaves a latest handler for each method: its own, if it has
\* the method, else the one there was.
LEMMA RegistersKeeps ==
  ASSUME Inv, NEW new \in Registration, Registers(new)
  PROVE  Inv'
<1>1. handlers \in Seq(Registration) /\ handlers' = Append(handlers, new)
  BY DEF Inv, Typed, Registers
<1>2. /\ handlers' \in Seq(Registration) /\ Len(handlers) \in Nat
      /\ DOMAIN handlers = 1..Len(handlers) /\ DOMAIN handlers' = 1..Len(handlers) + 1
      /\ \A i \in 1..Len(handlers) : handlers'[i] = handlers[i]
      /\ handlers'[Len(handlers) + 1] = new
  BY <1>1
<1>3. Typed'
  BY <1>2 DEF Inv, Typed, Registers
<1>4. HasLatest'
  <2>1. SUFFICES ASSUME NEW method \in Registered'
                 PROVE  \E i \in DOMAIN handlers' : Latest(method, i)'
    BY DEF HasLatest
  <2>2. CASE method \in DOMAIN new
    BY <1>2, <2>2 DEF Latest
  <2>3. CASE method \notin DOMAIN new
    <3>1. ASSUME NEW j \in DOMAIN handlers', method \in DOMAIN handlers'[j]
          PROVE  j \in DOMAIN handlers /\ method \in DOMAIN handlers[j]
      BY <1>2, <2>3, <3>1
    <3>2. method \in Registered
      BY <2>1, <3>1 DEF Registered
    <3>3. PICK i \in DOMAIN handlers : Latest(method, i)
      BY <3>2 DEF Inv, HasLatest
    <3>4. i \in DOMAIN handlers' /\ method \in DOMAIN handlers'[i]
      BY <1>2, <3>3 DEF Latest
    <3> QED
      BY <3>1, <3>3, <3>4 DEF Latest
  <2> QED
    BY <2>2, <2>3
<1>5. table' = << >> /\ answer'.is = "none"
  BY DEF Registers, Inv, AnswerIsOfTable
<1> QED
  BY <1>3, <1>4, <1>5 DEF Inv, TableIsCurrent, AnswerIsOfTable, Handled

\* The paths are a function of the registrations.
LEMMA SameHandlers ==
  ASSUME UNCHANGED handlers
  PROVE  Registered' = Registered /\ Paths' = Paths /\ (HasLatest => HasLatest')
<1>1. Registered' = Registered
  BY DEF Registered
<1>2. Paths' = Paths
  BY <1>1 DEF Paths, Latest
<1>3. HasLatest => HasLatest'
  BY <1>1 DEF HasLatest, Latest
<1> QED
  BY <1>1, <1>2, <1>3

\* A step that leaves the registrations and the table as they are keeps the
\* invariant, if the answer is of the table.
LEMMA AnswersKeeps ==
  ASSUME Inv, UNCHANGED <<adapter, disabled, handlers, table>>,
         answer'.is \in Outcomes, AnswerIsOfTable'
  PROVE  Inv'
<1>1. Typed'
  BY DEF Inv, Typed
<1> QED
  BY <1>1, SameHandlers DEF Inv, TableIsCurrent

-----------------------------------------------------------------------------
(* Inv is an invariant: registrations append handlers of distinct methods, an  *)
(* adapter builds the table once, and a request takes its handler from it.     *)
THEOREM RouterInvariant == Spec => []Inv
<1>1. Init => Inv
  BY DEF Init, ConnectRouterOptions, Inv, Typed, HasLatest, Registered, TableIsCurrent, AnswerIsOfTable,
     Outcomes, Handled
<1>2. ASSUME Inv, [Next]_vars PROVE Inv'
  <2>1. CASE Service
    <3>1. PICK service \in Services, options \in Options :
            \E given \in SUBSET service :
              Registers(createUniversalServiceHandlers(service, options, given))
      BY <2>1 DEF Service
    <3>2. PICK given \in SUBSET service :
            Registers(createUniversalServiceHandlers(service, options, given))
      BY <3>1
    <3>3. \A method \in service :
            createUniversalMethodHandler(options, implOf(method, given)) \in Handler
      <4>1. \A method \in service : implOf(method, given) \in Nat
        BY <1>2 DEF implOf, Unimplemented, Inv, Typed
      <4> QED
        BY <1>2, <4>1, HandlerType DEF Inv
    <3>4. service \in SUBSET Methods
      BY DEF Methods
    <3>5. createUniversalServiceHandlers(service, options, given) \in Registration
      BY <3>3, <3>4 DEF createUniversalServiceHandlers, Registration
    <3> QED
      BY <1>2, <3>2, <3>5, RegistersKeeps
  <2>2. CASE Rpc
    <3>1. PICK method \in Methods, options \in Options :
            Registers([m \in {method} |->
                         createUniversalMethodHandler(options, Len(handlers) + 1)])
      BY <2>2 DEF Rpc
    <3>2. createUniversalMethodHandler(options, Len(handlers) + 1) \in Handler
      BY <1>2, HandlerType DEF Inv, Typed
    <3>3. [m \in {method} |-> createUniversalMethodHandler(options, Len(handlers) + 1)]
            \in Registration
      <4>1. [m \in {method} |-> createUniversalMethodHandler(options, Len(handlers) + 1)]
              \in [{method} -> Handler]
        BY <3>2
      <4>2. {method} \in SUBSET Methods
        OBVIOUS
      <4> QED
        BY <4>1, <4>2 DEF Registration
    <3> QED
      BY <1>2, <3>1, <3>3, RegistersKeeps
  <2>3. CASE Adapt
    <3>1. table' = <<Paths>> /\ UNCHANGED <<adapter, disabled, handlers, request, answer>>
      BY <2>3 DEF Adapt, MapsPaths, connectNodeAdapter, expressConnectMiddleware,
         nextJsApiRouter, createUniversalHandlerClient, createFetchHandler, fastifyConnectPlugin
    <3>2. table = << >> /\ answer.is \notin Handled
      BY <1>2, <2>3 DEF Adapt, Inv, AnswerIsOfTable, Handled
    <3> QED
      <4>1. Typed'
        BY <1>2, <3>1 DEF Inv, Typed
      <4>2. HasLatest' /\ TableIsCurrent'
        BY <1>2, <3>1, SameHandlers DEF Inv, TableIsCurrent
      <4>3. AnswerIsOfTable'
        BY <3>1, <3>2 DEF AnswerIsOfTable
      <4> QED
        BY <4>1, <4>2, <4>3 DEF Inv
  <2>4. CASE Sends \/ NotFound \/ NoAuthority \/ Unsupported \/ Again \/ raceSignal
    <3>1. /\ UNCHANGED <<adapter, disabled, handlers, table>>
          /\ answer'.is \in Outcomes \ Handled
          /\ answer'.is # "none" => table # << >>
      BY <1>2, <2>4 DEF Inv, AnswerIsOfTable, Handles, Running, Sends, NotFound, NoAuthority, Unsupported, Again, raceSignal,
         Answers, Outcomes, Handled
    <3> QED
      BY <1>2, <3>1, AnswersKeeps DEF AnswerIsOfTable
  <2>5. CASE Negotiated
    <3>1. UNCHANGED <<adapter, disabled, handlers, table>>
      BY <2>5 DEF Negotiated, NoByteStream, Implementation, Answers
    <3>2. CASE NoByteStream
      <4>1. answer'.is = "open" /\ table # << >>
        BY <1>2, <2>5, <3>2 DEF NoByteStream, Answers, Negotiated, Handles, Inv,
           AnswerIsOfTable
      <4>2. AnswerIsOfTable' /\ answer'.is \in Outcomes
        BY <3>1, <4>1 DEF AnswerIsOfTable, Outcomes, Handled
      <4> QED
        BY <1>2, <3>1, <4>2, AnswersKeeps
    <3>3. CASE Implementation
      <4>1. /\ answer'.is = "running" /\ request' = request
            /\ answer'.impl = table[1][request.path].impl
        BY <3>3 DEF Implementation
      <4>2. table # << >> /\ table = <<Paths>> /\ request.path \in DOMAIN table[1]
        BY <1>2, <2>5 DEF Negotiated, Handles, Inv, AnswerIsOfTable, TableIsCurrent
      <4>3. request.path \in Registered /\ table[1] = Paths
        BY <4>2 DEF Paths
      <4>4. AnswerIsOfTable'
        BY <3>1, <4>1, <4>2, <4>3, SameHandlers DEF AnswerIsOfTable
      <4> QED
        BY <1>2, <3>1, <4>1, <4>4, AnswersKeeps DEF Outcomes
    <3> QED
      BY <2>5, <3>2, <3>3 DEF Negotiated
  <2>6. CASE Responds
    <3>1. /\ UNCHANGED <<adapter, disabled, handlers, table, request>>
          /\ answer.is \in Handled /\ answer'.is \in Handled
          /\ answer'.impl = answer.impl
      BY <2>6 DEF Responds, Running, Handled
    <3>2. AnswerIsOfTable'
      BY <1>2, <3>1, SameHandlers DEF Inv, AnswerIsOfTable, Handled
    <3> QED
      BY <1>2, <3>1, <3>2, AnswersKeeps DEF Outcomes, Handled
  <2>7. CASE UNCHANGED vars
    <3>1. AnswerIsOfTable' /\ answer'.is \in Outcomes
      BY <1>2, <2>7, SameHandlers DEF vars, Inv, Typed, AnswerIsOfTable
    <3> QED
      BY <1>2, <2>7, <3>1, AnswersKeeps DEF vars
  <2> QED
    BY <1>2, <2>1, <2>2, <2>3, <2>4, <2>5, <2>6, <2>7 DEF Next
<1> QED
  BY <1>1, <1>2, PTL DEF Spec

(* What answers a request is the implementation of the latest registration for *)
(* its method.                                                                 *)
THEOREM AnswersLatest == Spec => []LatestAnswers
<1>1. Inv => LatestAnswers
  <2> SUFFICES ASSUME Inv, answer.is \in Handled
               PROVE  \E i \in DOMAIN handlers :
                        /\ Latest(request.path, i)
                        /\ handlers[i][request.path].impl = answer.impl
    BY DEF LatestAnswers, Handled
  <2>1. request.path \in Registered /\ answer.impl = Paths[request.path].impl
    BY DEF Inv, AnswerIsOfTable
  <2> DEFINE i == CHOOSE i \in DOMAIN handlers : Latest(request.path, i)
  <2>2. i \in DOMAIN handlers /\ Latest(request.path, i)
    BY <2>1 DEF Inv, HasLatest
  <2>3. answer.impl = handlers[i][request.path].impl
    BY <2>1 DEF Paths
  <2> QED
    BY <2>2, <2>3
<1> QED
  BY <1>1, RouterInvariant, PTL

(* TypeOK is an invariant.                                                     *)
THEOREM TypeCorrect == Spec => []TypeOK
<1>1. Inv => TypeOK
  <2> SUFFICES ASSUME Inv PROVE TypeOK
    OBVIOUS
  <2>1. \A i \in DOMAIN handlers : \A method \in DOMAIN handlers[i] :
          handlers[i][method] \in Handler
    BY DEF Inv, Typed, Registration
  <2> QED
    BY <2>1 DEF Inv, Typed, TypeOK, Handler, Outcomes
<1> QED
  BY <1>1, RouterInvariant, PTL
=============================================================================
