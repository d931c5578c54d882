-------------------------- MODULE Http2SessionProofs --------------------------
(* Theorems about Http2Session, for every set of callers and connections.  All *)
(* but StreamsAreTracked hold in every configuration.                          *)
EXTENDS Http2Session, TLAPS, SequenceTheorems, FiniteSetTheorems

-----------------------------------------------------------------------------
(* Types of the operators on closures, sessions and states. *)

\* A closure of ready() stays one when any of its fields is set.
LEMMA ClosureFields ==
  ASSUME NEW r \in ReadyClosure, NEW b \in BOOLEAN, NEW n \in Nat,
         NEW h \in {"none", "manager", "shuttingDown"}
  PROVE  /\ [r EXCEPT !.on = b] \in ReadyClosure
         /\ [r EXCEPT !.errOnce = b] \in ReadyClosure
         /\ [r EXCEPT !.hook = h] \in ReadyClosure
         /\ [r EXCEPT !.streams = n] \in ReadyClosure
         /\ [r EXCEPT !.goaway = b] \in ReadyClosure
         /\ [r EXCEPT !.stale = b] \in ReadyClosure
         /\ [r EXCEPT !.pingInterval = b] \in ReadyClosure
         /\ [r EXCEPT !.pingTimeout = b] \in ReadyClosure
         /\ [r EXCEPT !.idleTimeout = b] \in ReadyClosure
BY DEF ReadyClosure

\* cleanup() leaves a closure of ready().
LEMMA CleanupType ==
  ASSUME NEW r \in ReadyClosure
  PROVE  Cleanup(r) \in ReadyClosure
BY ClosureFields DEF Cleanup

\* resetPingInterval() leaves a closure of ready().
LEMMA ResetPingIntervalType ==
  ASSUME NEW r \in ReadyClosure
  PROVE  ResetPingInterval(r) \in ReadyClosure
<1> DEFINE armed == /\ r.streams > 0 \/ PingIdle
                    /\ Keepalive /\ doublings < MaxDoublings
<1>1. armed \in BOOLEAN
  OBVIOUS
<1> HIDE DEF armed
<1>2. [[r EXCEPT !.pingTimeout = FALSE] EXCEPT !.pingInterval = armed] \in ReadyClosure
  BY <1>1, ClosureFields
<1> QED BY <1>2 DEF ResetPingInterval, armed

\* An incoming frame leaves a closure of ready().
LEMMA AliveType ==
  ASSUME NEW r \in ReadyClosure
  PROVE  Alive(r) \in ReadyClosure
BY ClosureFields DEF Alive

\* registerRequest() leaves a closure of ready().
LEMMA RegisterRequestType ==
  ASSUME NEW r \in ReadyClosure
  PROVE  RegisterRequest(r) \in ReadyClosure
<1> DEFINE n == [r EXCEPT !.streams = @ + 1]
<1>1. r.streams + 1 \in Nat
  BY DEF ReadyClosure
<1>2. n \in ReadyClosure
  BY <1>1, ClosureFields
<1> HIDE DEF n
<1>3. [ResetPingInterval(n) EXCEPT !.idleTimeout = FALSE] \in ReadyClosure
  BY <1>2, ResetPingIntervalType, ClosureFields
<1> QED BY <1>2, <1>3 DEF RegisterRequest, n

\* The close of a counted stream leaves a closure of ready(): the count does
\* not go below zero.
LEMMA StreamClosedType ==
  ASSUME NEW r \in ReadyClosure, r.streams > 0
  PROVE  StreamClosed(r) \in ReadyClosure
<1> DEFINE n == [r EXCEPT !.streams = @ - 1]
<1>1. r.streams - 1 \in Nat
  BY DEF ReadyClosure
<1>2. n \in ReadyClosure
  BY <1>1, ClosureFields
<1> HIDE DEF n
<1>3. [ResetPingInterval(n) EXCEPT !.idleTimeout = TRUE] \in ReadyClosure
  BY <1>2, ResetPingIntervalType, ClosureFields
<1> QED BY <1>2, <1>3 DEF StreamClosed, n

\* What ready() creates is a closure of it.
LEMMA NewReadyType == NewReady \in ReadyClosure
BY DEF NewReady, ReadyClosure

\* conn.destroy() leaves a session.
LEMMA DestroyedType ==
  ASSUME NEW x \in NodeSession, NEW ev \in {"close", "error", "cancel"}
  PROVE  Destroyed(x, ev) \in NodeSession
<1>1. <<>> \in Seq({"keep", "verify"})
  OBVIOUS
<1> QED BY <1>1 DEF NodeSession, Destroyed

\* The constructors of state objects make state objects.
LEMMA StateTypes ==
  ASSUME NEW c \in Conn
  PROVE  /\ closed \in StateObject /\ error \in StateObject
         /\ connecting(c) \in StateObject /\ verifying(c) \in StateObject
         /\ ready(c) \in StateObject
         /\ \A err : closedOrError(err) \in StateObject
BY DEF StateObject, closed, error, connecting, verifying, ready, closedOrError

\* A state object that is connecting, verifying or ready names its connection.
LEMMA StateConn ==
  ASSUME NEW x \in StateObject, x.t \in {"connecting", "verifying", "ready"}
  PROVE  x.c \in Conn /\ x = [t |-> x.t, c |-> x.c]
BY DEF StateObject, closed, error

\* setState() keeps the types of the state, the closures and the maintained
\* connections.
LEMMA SetStateType ==
  ASSUME TypeOK, NEW next \in StateObject, NEW R \in [Conn -> ReadyClosure],
         SetState(next, R)
  PROVE  s' \in StateObject /\ rs' \in [Conn -> ReadyClosure] /\ shuttingDown' \subseteq Conn
<1>1. s.t = "ready" => s.c \in Conn
  BY StateConn DEF TypeOK
<1>2. next.t = "ready" => next.c \in Conn
  BY StateConn
<1>3. ExitReady(R) \in [Conn -> ReadyClosure]
  <2>1. ASSUME NEW r \in ReadyClosure
        PROVE  /\ [r EXCEPT !.hook = "shuttingDown"] \in ReadyClosure
               /\ [Cleanup(r) EXCEPT !.hook = "none"] \in ReadyClosure
    BY CleanupType, ClosureFields
  <2> QED BY <1>1, <2>1 DEF ExitReady
<1>4. rs' \in [Conn -> ReadyClosure]
  <2>1. ASSUME NEW r \in ReadyClosure
        PROVE  [r EXCEPT !.hook = "manager"] \in ReadyClosure
    BY ClosureFields
  <2> QED BY <1>2, <1>3, <2>1 DEF SetState
<1>5. shuttingDown' \subseteq Conn
  BY <1>1 DEF SetState, Maintained, TypeOK
<1> QED BY <1>4, <1>5 DEF SetState

\* The microtasks that Await() queues for the callers q.
LEMMA WakeupTypes ==
  ASSUME NEW c \in Conn, NEW q \in Seq(Caller), NEW b \in BOOLEAN
  PROVE  /\ [i \in DOMAIN q |-> [k |-> "resume", w |-> q[i], c |-> c]] \in Seq(Job)
         /\ [i \in DOMAIN q |-> [k |-> "wake", w |-> q[i], ok |-> b]] \in Seq(Job)
<1>1. DOMAIN q = 1..Len(q) /\ Len(q) \in Nat /\ \A i \in DOMAIN q : q[i] \in Caller
  OBVIOUS
<1>2. \A i \in DOMAIN q : /\ [k |-> "resume", w |-> q[i], c |-> c] \in Job
                          /\ [k |-> "wake", w |-> q[i], ok |-> b] \in Job
  BY <1>1 DEF Job
<1>3. [i \in DOMAIN q |-> [k |-> "resume", w |-> q[i], c |-> c]] \in [1..Len(q) -> Job]
  BY <1>1, <1>2
<1>4. [i \in DOMAIN q |-> [k |-> "wake", w |-> q[i], ok |-> b]] \in [1..Len(q) -> Job]
  BY <1>1, <1>2
<1> QED BY <1>1, <1>3, <1>4, SeqDef

\* Rejecting waiting callers leaves calls.
LEMMA RejectedType ==
  ASSUME NEW C \in [Caller -> CallState], NEW q
  PROVE  Rejected(C, q) \in [Caller -> CallState]
BY DEF Rejected, CallState

\* Joining the promise of connect() or of verify() keeps the types.
LEMMA AwaitType ==
  ASSUME TypeOK, NEW now \in StateObject, NEW q \in Seq(Caller),
         NEW D \in [Conn -> DialClosure], NEW V \in [Conn -> VerifyPromise],
         NEW C \in [Caller -> CallState], NEW J \in Seq(Job), Await(now, q, D, V, C, J)
  PROVE  /\ call' \in [Caller -> CallState] /\ dial' \in [Conn -> DialClosure]
         /\ ver' \in [Conn -> VerifyPromise] /\ jobs' \in Seq(Job)
         /\ proc' \in {"up", "spinning", "threw"}
<1>1. call' \in [Caller -> CallState]
  BY RejectedType DEF Await
<1>2. now.t \in {"connecting", "verifying", "ready"} => now.c \in Conn
  BY StateConn
<1>3. dial' \in [Conn -> DialClosure]
  <2>1. ASSUME NEW c \in Conn PROVE D[c].q \o q \in Seq(Caller)
    BY DEF DialClosure
  <2>2. ASSUME NEW d \in DialClosure, NEW z \in Seq(Caller)
        PROVE  [d EXCEPT !.q = z] \in DialClosure
    BY DEF DialClosure
  <2> QED BY <1>2, <2>1, <2>2 DEF Await
<1>4. ver' \in [Conn -> VerifyPromise]
  <2>1. ASSUME NEW c \in Conn PROVE V[c].q \o q \in Seq(Caller)
    BY DEF VerifyPromise
  <2>2. ASSUME NEW d \in VerifyPromise, NEW z \in Seq(Caller)
        PROVE  [d EXCEPT !.q = z] \in VerifyPromise
    BY DEF VerifyPromise
  <2> QED BY <1>2, <2>1, <2>2 DEF Await
<1>5. jobs' \in Seq(Job)
  <2>1. ASSUME NEW K \in Seq(Job) PROVE J \o K \in Seq(Job)
    OBVIOUS
  <2>2. CASE now.t = "ready"
    <3>1. jobs' = J \o [i \in DOMAIN q |-> [k |-> "resume", w |-> q[i], c |-> now.c]]
      BY <2>2 DEF Await
    <3> QED BY <3>1, <2>1, <2>2, <1>2, WakeupTypes
  <2>3. CASE now.t = "connecting" /\ D[now.c].p # "pending"
    <3> DEFINE ok == D[now.c].p = "resolved"
    <3>1. jobs' = J \o [i \in DOMAIN q |-> [k |-> "wake", w |-> q[i], ok |-> ok]]
      BY <2>3 DEF Await
    <3>2. ok \in BOOLEAN
      OBVIOUS
    <3> HIDE DEF ok
    <3> QED BY <3>1, <3>2, <2>1, <2>3, <1>2, WakeupTypes
  <2>4. CASE now.t = "verifying" /\ V[now.c].p = "settled"
    <3>1. jobs' = J \o [i \in DOMAIN q |-> [k |-> "wake", w |-> q[i], ok |-> TRUE]]
      BY <2>4 DEF Await
    <3> QED BY <3>1, <2>1, <2>4, <1>2, WakeupTypes
  <2>5. CASE /\ now.t # "ready"
             /\ ~(now.t = "connecting" /\ D[now.c].p # "pending")
             /\ ~(now.t = "verifying" /\ V[now.c].p = "settled")
    <3>1. jobs' = J \o <<>>
      BY <2>5 DEF Await
    <3> QED BY <3>1
  <2> QED BY <2>2, <2>3, <2>4, <2>5
<1>6. proc' \in {"up", "spinning", "threw"}
  BY DEF Await, TypeOK
<1> QED BY <1>1, <1>3, <1>4, <1>5, <1>6

\* state.onClose and state.onError keep the types, whoever attached them.
LEMMA RunHookType ==
  ASSUME TypeOK, NEW c \in Conn, NEW next \in StateObject, RunHook(c, next)
  PROVE  s' \in StateObject /\ rs' \in [Conn -> ReadyClosure] /\ shuttingDown' \subseteq Conn
<1> DEFINE R == [rs EXCEPT ![c] = Cleanup(@)]
<1>1. R \in [Conn -> ReadyClosure]
  BY CleanupType DEF TypeOK
<1>2. CASE SetState(next, R)
  BY <1>1, <1>2, SetStateType
<1>3. CASE Keep(R)
  BY <1>1, <1>3 DEF Keep, managerVars, TypeOK
<1>4. CASE shuttingDown' = shuttingDown \ {c} /\ rs' = R /\ UNCHANGED s
  BY <1>1, <1>4 DEF TypeOK
<1> QED BY <1>2, <1>3, <1>4 DEF RunHook

\* The connection opened next is one that was not used yet.
LEMMA NewConnType == ASSUME Fresh # {} PROVE NewConn \in Conn /\ NewConn \in Fresh
<1>1. NewConn \in Fresh
  BY DEF NewConn
<1> QED BY <1>1 DEF Fresh

\* A new connect() leaves closures of connect().
LEMMA DiallingType ==
  ASSUME NEW D \in [Conn -> DialClosure], NEW c \in Conn
  PROVE  Dialling(D, c) \in [Conn -> DialClosure]
<1>1. [on |-> TRUE, p |-> "pending", q |-> <<>>] \in DialClosure
  BY DEF DialClosure
<1> QED BY <1>1 DEF Dialling

\* onExitState() of connect() leaves closures of connect().
LEMMA ExitDialType ==
  ASSUME TypeOK, NEW D \in [Conn -> DialClosure]
  PROVE  ExitDial(D) \in [Conn -> DialClosure]
BY DEF ExitDial, DialClosure

\* A session with one field changed.
LEMMA SessionFields ==
  ASSUME NEW x \in NodeSession, NEW st \in {"none", "connecting", "open", "closing", "destroyed"},
         NEW ev \in {"none", "close", "error", "cancel", "done"},
         NEW z \in Seq({"keep", "verify"}), NEW b \in BOOLEAN
  PROVE  /\ [x EXCEPT !.st = st] \in NodeSession
         /\ [x EXCEPT !.ev = ev] \in NodeSession
         /\ [x EXCEPT !.pings = z] \in NodeSession
         /\ [x EXCEPT !.silent = b] \in NodeSession
BY DEF NodeSession

\* http2.connect() leaves sessions.
LEMMA OpeningType ==
  ASSUME TypeOK, NEW c \in Conn
  PROVE  Opening(c) \in [Conn -> NodeSession]
<1>1. sess[c] \in NodeSession /\ sess \in [Conn -> NodeSession]
  BY DEF TypeOK
<1>2. <<>> \in Seq({"keep", "verify"})
  OBVIOUS
<1>3. [sess[c] EXCEPT !.st = "connecting"] \in NodeSession
  BY <1>1, <1>2, SessionFields
<1> QED BY <1>1, <1>3 DEF Opening

\* gotoReady() keeps every type, through each of its branches.
LEMMA GotoReadyType ==
  ASSUME TypeOK, NEW w \in Caller, NEW op \in Op, NEW J \in Seq(Job), GotoReady(w, op, J)
  PROVE  TypeOK'
<1> DEFINE C == [call EXCEPT ![w] = Pending(op)]
<1>0. TypeOK /\ <<w>> \in Seq(Caller)
  OBVIOUS
<1>1. C \in [Caller -> CallState]
  BY DEF TypeOK, Pending, CallState
<1>2. doublings' \in 0..MaxDoublings
  BY DEF GotoReady, TypeOK
<1> HIDE DEF C
<1>3. CASE /\ Fresh # {}
           /\ SetState(connecting(NewConn), rs)
           /\ sess' = Opening(NewConn)
           /\ Await(connecting(NewConn), <<w>>, Dialling(dial, NewConn), ver, C, J)
  <2>1. NewConn \in Conn
    BY <1>3, NewConnType
  <2>2. Dialling(dial, NewConn) \in [Conn -> DialClosure]
    BY <2>1, DiallingType DEF TypeOK
  <2>3. connecting(NewConn) \in StateObject /\ rs \in [Conn -> ReadyClosure]
        /\ ver \in [Conn -> VerifyPromise]
    BY <2>1, StateTypes DEF TypeOK
  <2>4. s' \in StateObject /\ rs' \in [Conn -> ReadyClosure] /\ shuttingDown' \subseteq Conn
    BY <1>3, <2>3, SetStateType
  <2>5. sess' \in [Conn -> NodeSession]
    BY <1>3, <2>1, OpeningType
  <2>6. /\ call' \in [Caller -> CallState] /\ dial' \in [Conn -> DialClosure]
        /\ ver' \in [Conn -> VerifyPromise] /\ jobs' \in Seq(Job)
        /\ proc' \in {"up", "spinning", "threw"}
    BY <1>3, <1>0, <1>1, <2>2, <2>3, AwaitType
  <2> QED BY <1>2, <2>4, <2>5, <2>6 DEF TypeOK
<1>4. CASE /\ s.t = "ready"
           /\ SetState(verifying(s.c), [rs EXCEPT ![s.c].pingTimeout = TRUE, ![s.c].errOnce = TRUE])
           /\ sess' = [sess EXCEPT ![s.c].pings = Append(@, "verify")]
           /\ Await(verifying(s.c), <<w>>, dial,
                    [ver EXCEPT ![s.c] = [p |-> "pending", q |-> <<>>]], C, J)
  <2> DEFINE R == [rs EXCEPT ![s.c].pingTimeout = TRUE, ![s.c].errOnce = TRUE]
             V == [ver EXCEPT ![s.c] = [p |-> "pending", q |-> <<>>]]
  <2>1. s.c \in Conn
    BY <1>4, StateConn DEF TypeOK
  <2>2. R \in [Conn -> ReadyClosure]
    <3>1. ASSUME NEW r \in ReadyClosure
          PROVE  [r EXCEPT !.pingTimeout = TRUE] \in ReadyClosure /\ [r EXCEPT !.errOnce = TRUE] \in ReadyClosure
      BY ClosureFields
    <3>2. [[rs[s.c] EXCEPT !.pingTimeout = TRUE] EXCEPT !.errOnce = TRUE] \in ReadyClosure
      BY <2>1, <3>1 DEF TypeOK
    <3>3. R = [rs EXCEPT ![s.c] = [[rs[s.c] EXCEPT !.pingTimeout = TRUE] EXCEPT !.errOnce = TRUE]]
      BY <2>1 DEF TypeOK
    <3> QED BY <3>2, <3>3 DEF TypeOK
  <2>3. V \in [Conn -> VerifyPromise]
    <3>1. [p |-> "pending", q |-> <<>>] \in VerifyPromise
      BY DEF VerifyPromise
    <3> QED BY <3>1 DEF TypeOK
  <2>4. verifying(s.c) \in StateObject /\ dial \in [Conn -> DialClosure]
    BY <2>1, StateTypes DEF TypeOK
  <2> HIDE DEF R, V
  <2>5. s' \in StateObject /\ rs' \in [Conn -> ReadyClosure] /\ shuttingDown' \subseteq Conn
    BY <1>4, <2>2, <2>4, SetStateType DEF R
  <2>6. sess' \in [Conn -> NodeSession]
    <3>1. sess[s.c].pings \in Seq({"keep", "verify"}) /\ sess[s.c] \in NodeSession
      BY <2>1 DEF TypeOK, NodeSession
    <3>2. Append(sess[s.c].pings, "verify") \in Seq({"keep", "verify"})
      BY <3>1
    <3>3. [sess[s.c] EXCEPT !.pings = Append(sess[s.c].pings, "verify")] \in NodeSession
      BY <3>1, <3>2, SessionFields
    <3> QED BY <1>4, <2>1, <3>3 DEF TypeOK
  <2>7. /\ call' \in [Caller -> CallState] /\ dial' \in [Conn -> DialClosure]
        /\ ver' \in [Conn -> VerifyPromise] /\ jobs' \in Seq(Job)
        /\ proc' \in {"up", "spinning", "threw"}
    BY <1>4, <1>0, <1>1, <2>3, <2>4, AwaitType DEF V
  <2> QED BY <1>2, <2>5, <2>6, <2>7 DEF TypeOK
<1>5. CASE /\ Await(s, <<w>>, dial, ver, C, J)
           /\ UNCHANGED <<s, shuttingDown, rs, sess>>
  <2>1. s \in StateObject /\ dial \in [Conn -> DialClosure] /\ ver \in [Conn -> VerifyPromise]
    BY DEF TypeOK
  <2>2. /\ call' \in [Caller -> CallState] /\ dial' \in [Conn -> DialClosure]
        /\ ver' \in [Conn -> VerifyPromise] /\ jobs' \in Seq(Job)
        /\ proc' \in {"up", "spinning", "threw"}
    BY <1>5, <1>0, <1>1, <2>1, AwaitType
  <2> QED BY <1>2, <1>5, <2>2 DEF TypeOK
<1> QED BY <1>3, <1>4, <1>5 DEF GotoReady, C

-----------------------------------------------------------------------------
(* TypeOK is preserved by every action.  That a counter of streams does not   *)
(* become negative follows from StreamCountExact.                             *)

\* The count of a connection with an open stream is above zero.
LEMMA OpenStreamCounted ==
  ASSUME TypeOK, StreamCountExact, NEW w \in Caller, call[w].st = "open"
  PROVE  call[w].c \in Conn /\ rs[call[w].c].streams > 0
<1>1. call[w].c \in Conn
  BY DEF TypeOK, CallState, Idle
<1> DEFINE S == StreamsOn(call[w].c)
<1>2. IsFiniteSet(S)
  <2>1. S \subseteq Caller
    BY DEF StreamsOn
  <2> QED BY <2>1, ConfigAssumption, FS_Subset
<1>3. w \in S
  BY DEF StreamsOn, HasStream
<1>4. Cardinality(S) \in Nat /\ Cardinality(S) # 0
  BY <1>2, <1>3, FS_CardinalityType, FS_EmptySet
<1>5. rs[call[w].c].streams = Cardinality(S)
  BY <1>1 DEF StreamCountExact
<1> QED BY <1>1, <1>4, <1>5

\* The first microtask is one, and the others are a queue of them.
LEMMA JobsHeadTail ==
  ASSUME TypeOK, jobs # <<>>
  PROVE  Head(jobs) \in Job /\ Tail(jobs) \in Seq(Job)
BY DEF TypeOK

\* Every promise reaction keeps every type.
LEMMA RunJobType == ASSUME TypeOK, RunJob PROVE TypeOK'
<1>0. jobs # <<>> /\ Head(jobs) \in Job /\ Tail(jobs) \in Seq(Job)
  BY JobsHeadTail DEF RunJob, Dialled, DialFailed, Pinged, Verified, Wake, Resume, NextJob
<1>t. /\ s \in StateObject /\ shuttingDown \subseteq Conn /\ rs \in [Conn -> ReadyClosure]
      /\ dial \in [Conn -> DialClosure] /\ ver \in [Conn -> VerifyPromise]
      /\ sess \in [Conn -> NodeSession] /\ call \in [Caller -> CallState]
      /\ proc \in {"up", "spinning", "threw"} /\ doublings \in 0..MaxDoublings
      /\ jobs \in Seq(Job)
  BY DEF TypeOK
<1>1. CASE Dialled
  <2> DEFINE c == Head(jobs).c
             q == Head(jobs).q
  <2>1. c \in Conn /\ q \in Seq(Caller)
    BY <1>0, <1>1 DEF Dialled, NextJob, Job
  <2> HIDE DEF c, q
  <2>2. doublings' = doublings /\ sess' = sess
    BY <1>1 DEF Dialled
  <2>3. CASE /\ SetState(ready(c), [rs EXCEPT ![c] = NewReady])
             /\ Await(ready(c), q, ExitDial(dial), ver, call, Tail(jobs))
    <3>1. ready(c) \in StateObject /\ [rs EXCEPT ![c] = NewReady] \in [Conn -> ReadyClosure]
          /\ ExitDial(dial) \in [Conn -> DialClosure]
      BY <2>1, <1>t, StateTypes, NewReadyType, ExitDialType
    <3>2. s' \in StateObject /\ rs' \in [Conn -> ReadyClosure] /\ shuttingDown' \subseteq Conn
      BY <2>3, <3>1, SetStateType
    <3>3. /\ call' \in [Caller -> CallState] /\ dial' \in [Conn -> DialClosure]
          /\ ver' \in [Conn -> VerifyPromise] /\ jobs' \in Seq(Job)
          /\ proc' \in {"up", "spinning", "threw"}
      BY <2>3, <3>1, <1>t, <1>0, <2>1, AwaitType
    <3> QED BY <1>t, <2>2, <3>2, <3>3 DEF TypeOK
  <2>4. CASE /\ Await(s, q, dial, ver, call, Tail(jobs))
             /\ UNCHANGED <<s, shuttingDown, rs>>
    <3>3. /\ call' \in [Caller -> CallState] /\ dial' \in [Conn -> DialClosure]
          /\ ver' \in [Conn -> VerifyPromise] /\ jobs' \in Seq(Job)
          /\ proc' \in {"up", "spinning", "threw"}
      BY <2>4, <1>t, <1>0, <2>1, AwaitType
    <3> QED BY <1>t, <2>2, <2>4, <3>3 DEF TypeOK
  <2>5. CASE /\ proc' = "threw"
             /\ jobs' = Tail(jobs)
             /\ UNCHANGED <<s, shuttingDown, rs, dial, ver, call>>
    BY <1>t, <1>0, <2>2, <2>5 DEF TypeOK
  <2> QED BY <1>1, <2>3, <2>4, <2>5 DEF Dialled, c, q
<1>2. CASE DialFailed
  <2>1. s' \in StateObject /\ rs' \in [Conn -> ReadyClosure] /\ shuttingDown' \subseteq Conn
    <3>1. closedOrError(Head(jobs).err) \in StateObject
      BY DEF closedOrError, StateObject
    <3> QED BY <1>2, <1>t, <3>1, SetStateType DEF DialFailed
  <2>2. dial' \in [Conn -> DialClosure] /\ call' \in [Caller -> CallState]
    BY <1>2, <1>t, ExitDialType, RejectedType DEF DialFailed
  <2> QED BY <1>2, <1>0, <1>t, <2>1, <2>2 DEF DialFailed, TypeOK
<1>3. CASE Pinged
  <2> DEFINE c == Head(jobs).c
  <2>1. c \in Conn
    BY <1>0, <1>3 DEF Pinged, NextJob, Job
  <2>2. ver[c].q \in Seq(Caller)
    BY <1>t, <2>1 DEF VerifyPromise
  <2>3. ver' \in [Conn -> VerifyPromise]
    <3>1. [p |-> "settled", q |-> <<>>] \in VerifyPromise
      BY DEF VerifyPromise
    <3> QED BY <1>3, <1>t, <3>1 DEF Pinged
  <2> DEFINE settle(next) == Append(Tail(jobs), [k |-> "verified", next |-> next, q |-> ver[c].q])
  <2>4. ASSUME NEW n \in Conn
        PROVE  settle(ready(n)) \in Seq(Job) /\ settle(connecting(n)) \in Seq(Job)
    <3>1. /\ [k |-> "verified", next |-> ready(n), q |-> ver[c].q] \in Job
          /\ [k |-> "verified", next |-> connecting(n), q |-> ver[c].q] \in Job
      BY <2>2 DEF Job, ready, connecting
    <3> QED BY <3>1, <1>0
  <2>5. CASE jobs' = settle(ready(c)) /\ UNCHANGED <<dial, sess>>
    BY <1>3, <1>t, <2>1, <2>3, <2>4, <2>5 DEF Pinged, TypeOK
  <2>6. CASE /\ Fresh # {}
             /\ dial' = Dialling(dial, NewConn)
             /\ sess' = Opening(NewConn)
             /\ jobs' = settle(connecting(NewConn))
    <3>1. NewConn \in Conn
      BY <2>6, NewConnType
    <3>2. dial' \in [Conn -> DialClosure] /\ sess' \in [Conn -> NodeSession]
      BY <1>t, <2>6, <3>1, DiallingType, OpeningType
    <3>3. jobs' \in Seq(Job)
      BY <2>4, <2>6, <3>1
    <3> QED BY <1>3, <1>t, <2>3, <3>2, <3>3 DEF Pinged, TypeOK
  <2> QED BY <1>3, <2>5, <2>6 DEF Pinged
<1>4. CASE Verified
  <2> DEFINE next == Head(jobs).next
             q == Head(jobs).q
  <2>1. next \in StateObject /\ q \in Seq(Caller)
    BY <1>0, <1>4 DEF Verified, NextJob, Job, StateObject
  <2>2. ExitDial(dial) \in [Conn -> DialClosure]
    BY <1>t, ExitDialType
  <2> HIDE DEF next, q
  <2>3. s' \in StateObject /\ rs' \in [Conn -> ReadyClosure] /\ shuttingDown' \subseteq Conn
    BY <1>4, <1>t, <2>1, SetStateType DEF Verified, next
  <2>4. /\ call' \in [Caller -> CallState] /\ dial' \in [Conn -> DialClosure]
        /\ ver' \in [Conn -> VerifyPromise] /\ jobs' \in Seq(Job)
        /\ proc' \in {"up", "spinning", "threw"}
    BY <1>4, <1>t, <1>0, <2>1, <2>2, AwaitType DEF Verified, next, q
  <2> QED BY <1>4, <1>t, <2>3, <2>4 DEF Verified, TypeOK
<1>5. CASE Wake
  <2> DEFINE w == Head(jobs).w
  <2>1. w \in Caller /\ <<w>> \in Seq(Caller)
    BY <1>0, <1>5 DEF Wake, NextJob, Job
  <2>2. CASE Await(s, <<w>>, dial, ver, call, Tail(jobs))
    <3>1. /\ call' \in [Caller -> CallState] /\ dial' \in [Conn -> DialClosure]
          /\ ver' \in [Conn -> VerifyPromise] /\ jobs' \in Seq(Job)
          /\ proc' \in {"up", "spinning", "threw"}
      BY <2>2, <1>t, <1>0, <2>1, AwaitType
    <3> QED BY <1>5, <1>t, <3>1 DEF Wake, TypeOK
  <2>3. CASE /\ call' = Rejected(call, <<w>>)
             /\ jobs' = Tail(jobs)
             /\ UNCHANGED <<dial, ver, proc>>
    BY <1>5, <1>t, <1>0, <2>3, RejectedType DEF Wake, TypeOK
  <2> QED BY <1>5, <2>2, <2>3 DEF Wake
<1>6. CASE Resume
  <2> DEFINE w == Head(jobs).w
             c == Head(jobs).c
  <2>1. w \in Caller /\ c \in Conn
    BY <1>0, <1>6 DEF Resume, NextJob, Job
  <2>2. CASE /\ call' = [call EXCEPT ![w] = Idle]
             /\ jobs' = Tail(jobs)
             /\ UNCHANGED <<s, shuttingDown, doublings, dial, ver, rs, sess, proc>>
    BY <1>t, <1>0, <2>1, <2>2 DEF TypeOK, CallState
  <2>3. CASE /\ \/ /\ call' = [call EXCEPT ![w] = Open(c, FALSE)]
                   /\ rs' = [rs EXCEPT ![c] = RegisterRequest(@)]
                \/ /\ call' = [call EXCEPT ![w] = Idle]
                   /\ UNCHANGED rs
             /\ jobs' = Tail(jobs)
             /\ UNCHANGED <<s, shuttingDown, doublings, dial, ver, sess, proc>>
    <3>1. call' \in [Caller -> CallState]
      <4>1. Open(c, FALSE) \in CallState /\ Idle \in CallState
        BY <2>1 DEF CallState, Open
      <4> QED BY <1>t, <2>3, <4>1
    <3>2. rs' \in [Conn -> ReadyClosure]
      <4>1. RegisterRequest(rs[c]) \in ReadyClosure
        BY <1>t, <2>1, RegisterRequestType
      <4> QED BY <1>t, <2>3, <4>1
    <3> QED BY <1>t, <1>0, <2>3, <3>1, <3>2 DEF TypeOK
  <2>4. CASE GotoReady(w, "request", Tail(jobs))
    <3>1. "request" \in Op
      BY DEF Op
    <3> QED BY <1>0, <2>1, <2>4, <3>1, GotoReadyType
  <2> QED BY <1>6, <2>2, <2>3, <2>4 DEF Resume
<1> QED BY <1>1, <1>2, <1>3, <1>4, <1>5, <1>6 DEF RunJob

\* Every call of the application keeps every type.
LEMMA UserType == ASSUME TypeOK, User PROVE TypeOK'
<1>t. /\ s \in StateObject /\ shuttingDown \subseteq Conn /\ rs \in [Conn -> ReadyClosure]
      /\ dial \in [Conn -> DialClosure] /\ ver \in [Conn -> VerifyPromise]
      /\ sess \in [Conn -> NodeSession] /\ call \in [Caller -> CallState]
      /\ proc \in {"up", "spinning", "threw"} /\ doublings \in 0..MaxDoublings
      /\ jobs \in Seq(Job)
  BY DEF TypeOK
<1>1. ASSUME NEW w \in Caller, NotifyResponseByteRead(w) PROVE TypeOK'
  <2>1. call[w].c \in Conn
    BY <1>1, <1>t DEF NotifyResponseByteRead, CallState, Idle
  <2>2. ResetPingInterval(Alive(rs[call[w].c])) \in ReadyClosure
    BY <1>t, <2>1, AliveType, ResetPingIntervalType
  <2>3. rs' \in [Conn -> ReadyClosure]
    BY <1>1, <1>t, <2>1, <2>2 DEF NotifyResponseByteRead
  <2> QED BY <1>1, <1>t, <2>3 DEF NotifyResponseByteRead, TypeOK
<1>2. ASSUME NEW w \in Caller, NEW op \in Op, Call(w, op) PROVE TypeOK'
  BY <1>2, <1>t, GotoReadyType DEF Call
<1>3. ASSUME NEW err \in {"cancel", "error"}, Abort(err) PROVE TypeOK'
  <2> DEFINE current == IF s.t \in {"ready", "verifying"} THEN {s.c} ELSE {}
             hit == {c \in current \cup shuttingDown : sess[c].st # "destroyed"}
             R == [c \in Conn |-> IF c \in hit
                                  THEN [rs[c] EXCEPT !.errOnce = TRUE, !.pingTimeout = FALSE]
                                  ELSE rs[c]]
             rejects == s.t = "connecting" /\ dial[s.c].p = "pending"
             D == IF rejects THEN [dial EXCEPT ![s.c].p = "rejected", ![s.c].q = <<>>] ELSE dial
  <2>1. R \in [Conn -> ReadyClosure]
    <3>1. ASSUME NEW r \in ReadyClosure
          PROVE  [[r EXCEPT !.errOnce = TRUE] EXCEPT !.pingTimeout = FALSE] \in ReadyClosure
      BY ClosureFields
    <3> HIDE DEF hit
    <3> QED BY <1>t, <3>1
  <2>2. D \in [Conn -> DialClosure]
    <3>1. ASSUME NEW d \in DialClosure
          PROVE  [[d EXCEPT !.p = "rejected"] EXCEPT !.q = <<>>] \in DialClosure
      <4>1. <<>> \in Seq(Caller)
        OBVIOUS
      <4>2. [d EXCEPT !.p = "rejected"] \in DialClosure
        BY DEF DialClosure
      <4> QED BY <4>1, <4>2 DEF DialClosure
    <3>2. CASE rejects
      <4>1. s.c \in Conn
        BY <1>t, <3>2, StateConn
      <4>2. D = [dial EXCEPT ![s.c] = [[dial[s.c] EXCEPT !.p = "rejected"] EXCEPT !.q = <<>>]]
        BY <1>t, <3>2, <4>1
      <4> QED BY <1>t, <3>1, <4>1, <4>2
    <3>3. CASE ~rejects
      BY <1>t, <3>3
    <3> QED BY <3>2, <3>3
  <2>3. sess' \in [Conn -> NodeSession]
    <3>1. \A c \in Conn : Destroyed(sess[c], err) \in NodeSession /\ Destroyed(sess[c], "close") \in NodeSession
      BY <1>t, DestroyedType
    <3>2. sess' = [c \in Conn |-> IF c \in hit THEN Destroyed(sess[c], err)
                                  ELSE IF s = connecting(c) THEN Destroyed(sess[c], "close")
                                  ELSE sess[c]]
      BY <1>3 DEF Abort
    <3> HIDE DEF hit
    <3> QED BY <1>t, <3>1, <3>2
  <2>4. closedOrError(err) \in StateObject
    BY DEF closedOrError, StateObject
  <2>5. jobs' \in Seq(Job)
    <3>1. CASE rejects
      <4>1. s.c \in Conn /\ dial[s.c].q \in Seq(Caller)
        BY <1>t, <3>1, StateConn DEF DialClosure
      <4>2. [k |-> "dialFailed", err |-> err, q |-> dial[s.c].q] \in Job
        BY <4>1 DEF Job
      <4>3. jobs' = Append(jobs, [k |-> "dialFailed", err |-> err, q |-> dial[s.c].q])
        BY <1>3, <3>1 DEF Abort
      <4> QED BY <1>t, <4>2, <4>3
    <3>2. CASE ~rejects
      BY <1>3, <1>t, <3>2 DEF Abort
    <3> QED BY <3>1, <3>2
  <2>6. SetState(closedOrError(err), R) /\ dial' = ExitDial(D)
        /\ UNCHANGED <<doublings, ver, call, proc>>
    BY <1>3 DEF Abort
  <2> HIDE DEF R, D
  <2>7. s' \in StateObject /\ rs' \in [Conn -> ReadyClosure] /\ shuttingDown' \subseteq Conn
    BY <2>1, <2>4, <2>6, SetStateType
  <2>8. dial' \in [Conn -> DialClosure]
    BY <2>2, <2>6, ExitDialType
  <2> QED BY <1>t, <2>3, <2>5, <2>6, <2>7, <2>8 DEF TypeOK
<1> QED BY <1>1, <1>2, <1>3 DEF User

\* Every event of a stream keeps every type.
LEMMA StreamType ==
  ASSUME TypeOK, StreamCountExact, Stream
  PROVE  TypeOK'
<1>t. /\ s \in StateObject /\ shuttingDown \subseteq Conn /\ rs \in [Conn -> ReadyClosure]
      /\ dial \in [Conn -> DialClosure] /\ ver \in [Conn -> VerifyPromise]
      /\ sess \in [Conn -> NodeSession] /\ call \in [Caller -> CallState]
      /\ proc \in {"up", "spinning", "threw"} /\ doublings \in 0..MaxDoublings
      /\ jobs \in Seq(Job)
  BY DEF TypeOK
<1>1. ASSUME NEW w \in Caller, OnResponse(w) PROVE TypeOK'
  <2> DEFINE c == call[w].c
  <2>1. c \in Conn
    BY <1>1, OpenStreamCounted DEF OnResponse
  <2>2. ResetPingInterval(Alive(rs[c])) \in ReadyClosure
    BY <1>t, <2>1, AliveType, ResetPingIntervalType
  <2>3. rs' \in [Conn -> ReadyClosure]
    BY <1>1, <1>t, <2>1, <2>2 DEF OnResponse
  <2>4. call' \in [Caller -> CallState]
    <3>0. call[w] \in [st : {"open"}, c : Conn, heard : BOOLEAN]
      BY <1>1, <1>t DEF OnResponse, CallState, Idle
    <3>1. [call[w] EXCEPT !.heard = TRUE] \in CallState
      BY <3>0 DEF CallState
    <3> QED BY <1>1, <1>t, <3>1 DEF OnResponse
  <2> QED BY <1>1, <1>t, <2>3, <2>4 DEF OnResponse, TypeOK
<1>2. ASSUME NEW w \in Caller, OnStreamClose(w) PROVE TypeOK'
  <2> DEFINE c == call[w].c
  <2>1. c \in Conn /\ rs[c].streams > 0
    BY <1>2, OpenStreamCounted DEF OnStreamClose
  <2>2. StreamClosed(rs[c]) \in ReadyClosure
    BY <1>t, <2>1, StreamClosedType
  <2>3. rs' \in [Conn -> ReadyClosure]
    BY <1>2, <1>t, <2>1, <2>2 DEF OnStreamClose
  <2>4. call' \in [Caller -> CallState]
    BY <1>2, <1>t DEF OnStreamClose, CallState
  <2> QED BY <1>2, <1>t, <2>3, <2>4 DEF OnStreamClose, TypeOK
<1> QED BY <1>1, <1>2 DEF Stream

\* Destroying one session leaves sessions.
LEMMA DestroyedSessions ==
  ASSUME TypeOK, NEW c \in Conn, NEW ev \in {"close", "error", "cancel"}
  PROVE  [sess EXCEPT ![c] = Destroyed(@, ev)] \in [Conn -> NodeSession]
<1>1. sess \in [Conn -> NodeSession]
  BY DEF TypeOK
<1>2. Destroyed(sess[c], ev) \in NodeSession
  BY <1>1, DestroyedType
<1> QED BY <1>1, <1>2

\* Setting a session's progress, pending event or reachability leaves sessions.
LEMMA SessionStatus ==
  ASSUME TypeOK, NEW c \in Conn,
         NEW st \in {"none", "connecting", "open", "closing", "destroyed"},
         NEW ev \in {"none", "close", "error", "cancel", "done"}, NEW b \in BOOLEAN
  PROVE  /\ [sess EXCEPT ![c].st = st] \in [Conn -> NodeSession]
         /\ [sess EXCEPT ![c].ev = ev] \in [Conn -> NodeSession]
         /\ [sess EXCEPT ![c].silent = b] \in [Conn -> NodeSession]
<1>1. sess \in [Conn -> NodeSession] /\ <<>> \in Seq({"keep", "verify"})
  BY DEF TypeOK
<1>2. /\ [sess[c] EXCEPT !.st = st] \in NodeSession
      /\ [sess[c] EXCEPT !.ev = ev] \in NodeSession
      /\ [sess[c] EXCEPT !.silent = b] \in NodeSession
  BY <1>1, SessionFields
<1> QED BY <1>1, <1>2

\* Setting the timeout flags of one closure leaves closures.
LEMMA ClosureFlags ==
  ASSUME TypeOK, NEW c \in Conn, NEW b \in BOOLEAN
  PROVE  /\ [rs EXCEPT ![c].pingTimeout = b] \in [Conn -> ReadyClosure]
         /\ [rs EXCEPT ![c].stale = b] \in [Conn -> ReadyClosure]
<1>1. rs \in [Conn -> ReadyClosure]
  BY DEF TypeOK
<1>2. /\ [rs[c] EXCEPT !.pingTimeout = b] \in ReadyClosure
      /\ [rs[c] EXCEPT !.stale = b] \in ReadyClosure
  BY <1>1, ClosureFields
<1> QED BY <1>1, <1>2

\* Every event of Node's session keeps every type.
LEMMA SessionType == ASSUME TypeOK, NEW c \in Conn, Session(c) PROVE TypeOK'
<1>t. /\ s \in StateObject /\ shuttingDown \subseteq Conn /\ rs \in [Conn -> ReadyClosure]
      /\ dial \in [Conn -> DialClosure] /\ ver \in [Conn -> VerifyPromise]
      /\ sess \in [Conn -> NodeSession] /\ call \in [Caller -> CallState]
      /\ proc \in {"up", "spinning", "threw"} /\ doublings \in 0..MaxDoublings
      /\ jobs \in Seq(Job)
  BY DEF TypeOK
<1>1. CASE OnConnect(c)
  <2>1. sess' \in [Conn -> NodeSession]
    BY <1>1, SessionStatus DEF OnConnect
  <2>2. dial[c].q \in Seq(Caller)
    BY <1>t DEF DialClosure
  <2>3. CASE /\ dial' = [dial EXCEPT ![c] = [on |-> FALSE, p |-> "resolved", q |-> <<>>]]
             /\ jobs' = Append(jobs, [k |-> "dialled", c |-> c, q |-> dial[c].q])
    <3>1. [k |-> "dialled", c |-> c, q |-> dial[c].q] \in Job
      BY <2>2 DEF Job
    <3>2. jobs' \in Seq(Job)
      BY <1>t, <2>3, <3>1
    <3>3. [on |-> FALSE, p |-> "resolved", q |-> <<>>] \in DialClosure
      BY DEF DialClosure
    <3> QED BY <1>1, <1>t, <2>1, <2>3, <3>2, <3>3 DEF OnConnect, TypeOK
  <2>4. CASE UNCHANGED <<dial, jobs>>
    BY <1>1, <1>t, <2>1, <2>4 DEF OnConnect, TypeOK
  <2> QED BY <1>1, <2>3, <2>4 DEF OnConnect
<1>2. CASE SessionLost(c)
  <2>1. sess' \in [Conn -> NodeSession]
    BY <1>2, DestroyedSessions DEF SessionLost
  <2>2. rs' \in [Conn -> ReadyClosure]
    BY <1>2, ClosureFlags DEF SessionLost
  <2> QED BY <1>2, <1>t, <2>1, <2>2 DEF SessionLost, TypeOK
<1>3. CASE Drained(c)
  <2>1. sess' \in [Conn -> NodeSession] /\ rs' \in [Conn -> ReadyClosure]
    BY <1>3, DestroyedSessions, ClosureFlags DEF Drained
  <2> QED BY <1>3, <1>t, <2>1 DEF Drained, TypeOK
<1>4. CASE Silence(c)
  <2>1. sess' \in [Conn -> NodeSession]
    BY <1>4, SessionStatus DEF Silence
  <2> QED BY <1>4, <1>t, <2>1 DEF Silence, TypeOK
<1>5. CASE EmitClose(c)
  <2>1. sess' \in [Conn -> NodeSession]
    BY <1>5, SessionStatus DEF EmitClose, Emits
  <2>2. s' \in StateObject /\ rs' \in [Conn -> ReadyClosure] /\ shuttingDown' \subseteq Conn
    <3>1. CASE RunHook(c, closed)
      BY <3>1, RunHookType, StateTypes
    <3>2. CASE Keep(rs)
      BY <1>t, <3>2 DEF Keep, managerVars
    <3> QED BY <1>5, <3>1, <3>2 DEF EmitClose
  <2> QED BY <1>5, <1>t, <2>1, <2>2 DEF EmitClose, TypeOK
<1>6. CASE EmitError(c)
  <2> DEFINE next == closedOrError(sess[c].ev)
             pinging == ver[c].p = "pending"
             refused == [k |-> "dialFailed", err |-> sess[c].ev, q |-> dial[c].q]
             unverified == [k |-> "pinged", c |-> c, ok |-> FALSE]
  <2>1. sess' \in [Conn -> NodeSession]
    BY <1>6, SessionStatus DEF EmitError, Emits
  <2>2. s' \in StateObject /\ rs' \in [Conn -> ReadyClosure] /\ shuttingDown' \subseteq Conn
    <3>1. CASE RunHook(c, next)
      BY <3>1, RunHookType, StateTypes
    <3>2. CASE Keep(rs)
      BY <1>t, <3>2 DEF Keep, managerVars
    <3> QED BY <1>6, <3>1, <3>2 DEF EmitError
  <2>3. dial' \in [Conn -> DialClosure]
    <3>1. [on |-> FALSE, p |-> "rejected", q |-> <<>>] \in DialClosure
      BY DEF DialClosure
    <3> QED BY <1>6, <1>t, <3>1 DEF EmitError
  <2>4. ver' \in [Conn -> VerifyPromise]
    <3>1. [ver[c] EXCEPT !.p = "pinged"] \in VerifyPromise
      BY <1>t DEF VerifyPromise
    <3> QED BY <1>6, <1>t, <3>1 DEF EmitError
  <2>5. jobs' \in Seq(Job)
    <3>1. refused \in Job /\ unverified \in Job
      <4>1. sess[c].ev \in {"cancel", "error"} /\ dial[c].q \in Seq(Caller)
        BY <1>6, <1>t DEF EmitError, Emits, DialClosure
      <4> QED BY <4>1 DEF Job
    <3>2. CASE dial[c].on
      <4>1. jobs' = Append(jobs, refused)
        BY <1>6, <3>2 DEF EmitError
      <4> QED BY <1>t, <3>1, <4>1
    <3>3. CASE ~dial[c].on /\ pinging
      <4>1. jobs' = Append(jobs, unverified)
        BY <1>6, <3>3 DEF EmitError
      <4> QED BY <1>t, <3>1, <4>1
    <3>4. CASE ~dial[c].on /\ ~pinging
      <4>1. jobs' = jobs
        BY <1>6, <3>4 DEF EmitError
      <4> QED BY <1>t, <4>1
    <3> QED BY <3>2, <3>3, <3>4
  <2> QED BY <1>6, <1>t, <2>1, <2>2, <2>3, <2>4, <2>5 DEF EmitError, TypeOK
<1>7. CASE PingAck(c)
  <2>1. sess[c] \in NodeSession /\ sess[c].pings \in Seq({"keep", "verify"}) /\ sess[c].pings # <<>>
    BY <1>7, <1>t DEF PingAck, NodeSession
  <2> DEFINE pong == [rs EXCEPT ![c].pingTimeout = FALSE]
             verifies == Head(sess[c].pings) = "verify"
  <2>2. pong \in [Conn -> ReadyClosure]
    BY ClosureFlags
  <2>3. CASE /\ sess' = [sess EXCEPT ![c].pings = Tail(@)]
             /\ rs' = [pong EXCEPT ![c] = IF verifies THEN Alive(@) ELSE ResetPingInterval(Alive(@))]
             /\ IF verifies
                THEN /\ ver' = [ver EXCEPT ![c].p = "pinged"]
                     /\ jobs' = Append(jobs, [k |-> "pinged", c |-> c, ok |-> TRUE])
                ELSE UNCHANGED <<ver, jobs>>
    <3>1. sess' \in [Conn -> NodeSession]
      <4>1. Tail(sess[c].pings) \in Seq({"keep", "verify"})
        BY <2>1
      <4>2. [sess[c] EXCEPT !.pings = Tail(sess[c].pings)] \in NodeSession
        BY <2>1, <4>1, SessionFields
      <4> QED BY <1>t, <2>3, <4>2
    <3>2. rs' \in [Conn -> ReadyClosure]
      <4>1. Alive(pong[c]) \in ReadyClosure /\ ResetPingInterval(Alive(pong[c])) \in ReadyClosure
        BY <2>2, AliveType, ResetPingIntervalType
      <4> HIDE DEF pong, verifies
      <4> QED BY <2>2, <2>3, <4>1
    <3>3. ver' \in [Conn -> VerifyPromise]
      <4>1. [ver[c] EXCEPT !.p = "pinged"] \in VerifyPromise
        BY <1>t DEF VerifyPromise
      <4> QED BY <1>t, <2>3, <4>1
    <3>4. jobs' \in Seq(Job)
      <4>1. [k |-> "pinged", c |-> c, ok |-> TRUE] \in Job
        BY DEF Job
      <4>2. Append(jobs, [k |-> "pinged", c |-> c, ok |-> TRUE]) \in Seq(Job)
        BY <1>t, <4>1
      <4>3. jobs' = jobs \/ jobs' = Append(jobs, [k |-> "pinged", c |-> c, ok |-> TRUE])
        BY <2>3
      <4> QED BY <1>t, <4>2, <4>3
    <3> QED BY <1>7, <1>t, <3>1, <3>2, <3>3, <3>4 DEF PingAck, TypeOK
  <2>4. CASE /\ sess' = [sess EXCEPT ![c] = Destroyed(@, "error")]
             /\ rs' = pong
             /\ UNCHANGED <<ver, jobs>>
    <3>1. sess' \in [Conn -> NodeSession]
      BY <2>4, DestroyedSessions
    <3> QED BY <1>7, <1>t, <2>2, <2>4, <3>1 DEF PingAck, TypeOK
  <2> QED BY <1>7, <2>3, <2>4 DEF PingAck
<1>8. ASSUME NEW code, OnGoaway(c, code) PROVE TypeOK'
  <2> DEFINE dies == \/ code # "noError"
                     \/ rs[c].on /\ rs[c].streams = 0 /\ NodeMajor >= 18
  <2>1. rs' \in [Conn -> ReadyClosure]
    <3> DEFINE g == rs[c].goaway \/ rs[c].on
               b == rs[c].pingTimeout /\ ~dies
    <3>1. g \in BOOLEAN /\ b \in BOOLEAN
      OBVIOUS
    <3>2. rs' = [rs EXCEPT ![c] = [[rs[c] EXCEPT !.goaway = g] EXCEPT !.pingTimeout = b]]
      BY <1>8, <1>t DEF OnGoaway
    <3> HIDE DEF g, b
    <3>3. [[rs[c] EXCEPT !.goaway = g] EXCEPT !.pingTimeout = b] \in ReadyClosure
      BY <1>t, <3>1, ClosureFields
    <3> QED BY <1>t, <3>2, <3>3
  <2>2. doublings' \in 0..MaxDoublings
    BY <1>8, <1>t, ConfigAssumption DEF OnGoaway
  <2>3. sess' \in [Conn -> NodeSession]
    <3>1. [sess[c] EXCEPT !.st = "closing"] \in NodeSession
      BY <1>t DEF NodeSession
    <3>2. Destroyed(sess[c], "cancel") \in NodeSession /\ Destroyed(sess[c], "error") \in NodeSession
      BY <1>t, DestroyedType
    <3> HIDE DEF dies
    <3> QED BY <1>8, <1>t, <3>1, <3>2 DEF OnGoaway, dies
  <2> QED BY <1>8, <1>t, <2>1, <2>2, <2>3 DEF OnGoaway, TypeOK
<1> QED BY <1>1, <1>2, <1>3, <1>4, <1>5, <1>6, <1>7, <1>8 DEF Session

\* Every timer keeps every type.
LEMMA TimerType == ASSUME TypeOK, NEW c \in Conn, Timer(c) PROVE TypeOK'
<1>t. /\ s \in StateObject /\ shuttingDown \subseteq Conn /\ rs \in [Conn -> ReadyClosure]
      /\ dial \in [Conn -> DialClosure] /\ ver \in [Conn -> VerifyPromise]
      /\ sess \in [Conn -> NodeSession] /\ call \in [Caller -> CallState]
      /\ proc \in {"up", "spinning", "threw"} /\ doublings \in 0..MaxDoublings
      /\ jobs \in Seq(Job)
  BY DEF TypeOK
<1>1. CASE Elapse(c)
  BY <1>1, <1>t, ClosureFlags DEF Elapse, TypeOK
<1>2. CASE OnPingInterval(c)
  <2>1. rs' \in [Conn -> ReadyClosure]
    <3>1. [[rs[c] EXCEPT !.pingInterval = FALSE] EXCEPT !.pingTimeout = TRUE] \in ReadyClosure
      BY <1>t, ClosureFields
    <3>2. rs' = [rs EXCEPT ![c] = [[rs[c] EXCEPT !.pingInterval = FALSE] EXCEPT !.pingTimeout = TRUE]]
      BY <1>2, <1>t DEF OnPingInterval
    <3> QED BY <1>t, <3>1, <3>2
  <2>2. sess' \in [Conn -> NodeSession]
    <3>1. sess[c] \in NodeSession /\ sess[c].pings \in Seq({"keep", "verify"})
      BY <1>t DEF NodeSession
    <3>2. Append(sess[c].pings, "keep") \in Seq({"keep", "verify"})
      BY <3>1
    <3>3. [sess[c] EXCEPT !.pings = Append(sess[c].pings, "keep")] \in NodeSession
      BY <3>1, <3>2, SessionFields
    <3>4. sess' = sess \/ sess' = [sess EXCEPT ![c].pings = Append(@, "keep")]
      BY <1>2 DEF OnPingInterval
    <3> QED BY <1>t, <3>3, <3>4
  <2>3. proc' \in {"up", "spinning", "threw"}
    BY <1>2, <1>t DEF OnPingInterval
  <2> QED BY <1>2, <1>t, <2>1, <2>2, <2>3 DEF OnPingInterval, TypeOK
<1>3. CASE OnPingTimeout(c)
  <2>1. sess' \in [Conn -> NodeSession] /\ rs' \in [Conn -> ReadyClosure]
    BY <1>3, DestroyedSessions, ClosureFlags DEF OnPingTimeout
  <2> QED BY <1>3, <1>t, <2>1 DEF OnPingTimeout, TypeOK
<1>4. CASE OnIdleTimeout(c)
  <2>1. sess' \in [Conn -> NodeSession]
    BY <1>4, <1>t, SessionStatus DEF OnIdleTimeout
  <2>2. s' \in StateObject /\ rs' \in [Conn -> ReadyClosure] /\ shuttingDown' \subseteq Conn
    BY <1>4, RunHookType, StateTypes DEF OnIdleTimeout
  <2> QED BY <1>4, <1>t, <2>1, <2>2 DEF OnIdleTimeout, TypeOK
<1> QED BY <1>1, <1>2, <1>3, <1>4 DEF Timer

\* Every step keeps every type. The stream counts are needed: a count is
\* a natural number only because a stream that closes was counted.
LEMMA TypeStep == ASSUME TypeOK, StreamCountExact, [Next]_vars PROVE TypeOK'
<1>1. CASE Next
  BY <1>1, UserType, RunJobType, StreamType, SessionType, TimerType DEF Next
<1>2. CASE UNCHANGED vars
  BY <1>2 DEF vars, TypeOK
<1> QED BY <1>1, <1>2
-----------------------------------------------------------------------------
(* What changing the state leaves alone.                                      *)

\* Q are the ready() closures R with no stream more or less, no idle timer
\* started, and no PING due on a connection that was never ready.
Calmer(R, Q) ==
  \A c \in Conn : /\ Q[c].made = R[c].made /\ Q[c].streams = R[c].streams
                  /\ Q[c].idleTimeout => R[c].idleTimeout
                  /\ Q[c].pingInterval => R[c].pingInterval \/ R[c].made

SameGoaway(R, Q) == \A c \in Conn : Q[c].goaway = R[c].goaway

Inv == TypeOK /\ StreamCountExact /\ HookIsCurrent /\ ClosuresConsistent

\* cleanup() stops timers and removes listeners, and nothing else.
LEMMA CleanupCalms ==
  ASSUME NEW r \in ReadyClosure
  PROVE  /\ Cleanup(r).made = r.made /\ Cleanup(r).streams = r.streams
         /\ Cleanup(r).goaway = r.goaway /\ Cleanup(r).hook = r.hook
         /\ ~Cleanup(r).idleTimeout /\ ~Cleanup(r).pingInterval
BY DEF Cleanup, ReadyClosure

\* setState() stops timers and moves hooks.
LEMMA SetStateCalms ==
  ASSUME TypeOK, NEW next \in StateObject, NEW R \in [Conn -> ReadyClosure],
         SetState(next, R)
  PROVE  s' = next /\ Calmer(R, rs') /\ SameGoaway(R, rs')
<1>1. s.t = "ready" => s.c \in Conn
  BY StateConn DEF TypeOK
<1>2. next.t = "ready" => next.c \in Conn
  BY StateConn
<1>3. ExitReady(R) \in [Conn -> ReadyClosure]
  <2>1. ASSUME NEW r \in ReadyClosure
        PROVE  /\ [r EXCEPT !.hook = "shuttingDown"] \in ReadyClosure
               /\ [Cleanup(r) EXCEPT !.hook = "none"] \in ReadyClosure
    BY CleanupType, ClosureFields
  <2> QED BY <1>1, <2>1 DEF ExitReady
<1>4. Calmer(R, ExitReady(R)) /\ SameGoaway(R, ExitReady(R))
  <2>1. ASSUME NEW r \in ReadyClosure
        PROVE  LET x == [Cleanup(r) EXCEPT !.hook = "none"]
                   y == [r EXCEPT !.hook = "shuttingDown"]
               IN /\ x.made = r.made /\ x.streams = r.streams /\ x.goaway = r.goaway
                  /\ ~x.idleTimeout /\ ~x.pingInterval
                  /\ y.made = r.made /\ y.streams = r.streams /\ y.goaway = r.goaway
                  /\ y.idleTimeout = r.idleTimeout /\ y.pingInterval = r.pingInterval
    BY DEF Cleanup, ReadyClosure
  <2> QED BY <1>1, <2>1 DEF Calmer, SameGoaway, ExitReady
<1>5. Calmer(ExitReady(R), rs') /\ SameGoaway(ExitReady(R), rs')
  <2>1. ASSUME NEW r \in ReadyClosure
        PROVE  LET y == [r EXCEPT !.hook = "manager"]
               IN /\ y.made = r.made /\ y.streams = r.streams /\ y.goaway = r.goaway
                  /\ y.idleTimeout = r.idleTimeout /\ y.pingInterval = r.pingInterval
    BY DEF ReadyClosure
  <2> QED BY <1>2, <1>3, <2>1 DEF Calmer, SameGoaway, SetState
<1> QED BY <1>4, <1>5 DEF Calmer, SameGoaway, SetState

\* Only the state that setState() enters is left with the manager's hook.
LEMMA SetStateHook ==
  ASSUME TypeOK, NEW next \in StateObject, NEW R \in [Conn -> ReadyClosure],
         \A c \in Conn : R[c].hook = "manager" => s = ready(c),
         SetState(next, R)
  PROVE  HookIsCurrent'
<1>1. ASSUME NEW c \in Conn PROVE ExitReady(R)[c].hook # "manager"
  <2>1. CASE s = ready(c)
    <3>1. ASSUME NEW r \in ReadyClosure
          PROVE  [r EXCEPT !.hook = "shuttingDown"].hook # "manager"
                 /\ [Cleanup(r) EXCEPT !.hook = "none"].hook # "manager"
      BY DEF Cleanup, ReadyClosure
    <3> QED BY <2>1, <3>1 DEF ExitReady, ready
  <2>2. CASE s # ready(c)
    <3>1. s.t = "ready" => s.c # c /\ s.c \in Conn
      BY <2>2, StateConn DEF TypeOK, ready
    <3> QED BY <2>2, <3>1 DEF ExitReady
  <2> QED BY <2>1, <2>2
<1>2. CASE next.t = "ready"
  <2>1. next.c \in Conn /\ next = ready(next.c)
    BY <1>2, StateConn DEF ready
  <2>2. rs' = [ExitReady(R) EXCEPT ![next.c].hook = "manager"] /\ s' = next
    BY <1>2 DEF SetState
  <2>3. ASSUME NEW c \in Conn, c # next.c PROVE rs'[c].hook # "manager"
    BY <1>1, <2>1, <2>2, <2>3
  <2> QED BY <2>1, <2>2, <2>3 DEF HookIsCurrent, ready
<1>3. CASE next.t # "ready"
  BY <1>1, <1>3 DEF SetState, HookIsCurrent
<1> QED BY <1>2, <1>3

\* A step that opens and closes no stream leaves the streams of every connection.
LEMMA SameStreams ==
  ASSUME \A w \in Caller : \/ call'[w] = call[w]
                           \/ call'[w].st # "open" /\ call[w].st # "open",
         NEW c
  PROVE  StreamsOn(c)' = StreamsOn(c)
BY DEF StreamsOn, HasStream

\* The stream counts stay exact when no stream opens or closes.
LEMMA SameCounts ==
  ASSUME StreamCountExact,
         \A w \in Caller : \/ call'[w] = call[w]
                           \/ call'[w].st # "open" /\ call[w].st # "open",
         \A c \in Conn : rs'[c].streams = rs[c].streams
  PROVE  StreamCountExact'
BY SameStreams DEF StreamCountExact

\* Rejecting callers ends no stream.
LEMMA RejectedStreams ==
  ASSUME NEW C, NEW q, NEW w \in Caller
  PROVE  \/ Rejected(C, q)[w] = C[w]
         \/ Rejected(C, q)[w].st # "open" /\ C[w].st # "open"
BY DEF Rejected, Idle

\* Callers that go on waiting lose no stream, and the promises they await are
\* not settled by it.
LEMMA AwaitKeeps ==
  ASSUME NEW now \in StateObject, NEW q \in Seq(Caller), NEW D \in [Conn -> DialClosure],
         NEW V \in [Conn -> VerifyPromise], NEW C \in [Caller -> CallState],
         NEW J \in Seq(Job), Await(now, q, D, V, C, J)
  PROVE  /\ \A w \in Caller : call'[w] = C[w] \/ (call'[w].st # "open" /\ C[w].st # "open")
         /\ \A c \in Conn : ver'[c].p = V[c].p
<1>1. \A w \in Caller : call'[w] = C[w] \/ (call'[w].st # "open" /\ C[w].st # "open")
  BY RejectedStreams DEF Await
<1>2. now.t \in {"connecting", "verifying", "ready"} => now.c \in Conn
  BY StateConn
<1>3. \A c \in Conn : ver'[c].p = V[c].p
  BY <1>2 DEF Await, VerifyPromise
<1> QED BY <1>1, <1>3

\* Microtasks that Await() queues in state now.
Woken(K, now) == \A n \in DOMAIN K : /\ K[n].k \in {"wake", "resume"}
                                     /\ K[n].k = "resume" => now = ready(K[n].c)

\* Callers that go on waiting are neither dialled nor verified: what Await()
\* queues are wakeups, and callers handed the connection of a ready state.
LEMMA AwaitJobs ==
  ASSUME NEW now \in StateObject, NEW q \in Seq(Caller), NEW D \in [Conn -> DialClosure],
         NEW V \in [Conn -> VerifyPromise], NEW C \in [Caller -> CallState],
         NEW J \in Seq(Job), Await(now, q, D, V, C, J)
  PROVE  \E K \in Seq(Job) : jobs' = J \o K /\ Woken(K, now)
<1>2. now.t \in {"connecting", "verifying", "ready"} => now.c \in Conn /\ now = [t |-> now.t, c |-> now.c]
  BY StateConn
<1>4. CASE now.t = "ready"
  <2> DEFINE K == [i \in DOMAIN q |-> [k |-> "resume", w |-> q[i], c |-> now.c]]
  <2>1. jobs' = J \o K
    BY <1>4 DEF Await
  <2>2. K \in Seq(Job)
    BY <1>2, <1>4, WakeupTypes
  <2>3. \A n \in DOMAIN K : K[n].k = "resume" /\ now = ready(K[n].c)
    BY <1>2, <1>4 DEF ready
  <2> HIDE DEF K
  <2> QED BY <2>1, <2>2, <2>3 DEF Woken
<1>5. CASE now.t = "connecting" /\ D[now.c].p # "pending"
  <2> DEFINE ok == D[now.c].p = "resolved"
             K == [i \in DOMAIN q |-> [k |-> "wake", w |-> q[i], ok |-> ok]]
  <2>1. jobs' = J \o K
    BY <1>5 DEF Await
  <2>2. ok \in BOOLEAN
    OBVIOUS
  <2> HIDE DEF ok
  <2>3. K \in Seq(Job)
    BY <1>2, <1>5, <2>2, WakeupTypes
  <2>4. \A n \in DOMAIN K : K[n].k = "wake"
    OBVIOUS
  <2> HIDE DEF K
  <2> QED BY <2>1, <2>3, <2>4 DEF Woken
<1>6. CASE now.t = "verifying" /\ V[now.c].p = "settled"
  <2> DEFINE K == [i \in DOMAIN q |-> [k |-> "wake", w |-> q[i], ok |-> TRUE]]
  <2>1. jobs' = J \o K
    BY <1>6 DEF Await
  <2>3. K \in Seq(Job)
    BY <1>2, <1>6, WakeupTypes
  <2>4. \A n \in DOMAIN K : K[n].k = "wake"
    OBVIOUS
  <2> HIDE DEF K
  <2> QED BY <2>1, <2>3, <2>4 DEF Woken
<1>7. CASE /\ now.t # "ready"
           /\ ~(now.t = "connecting" /\ D[now.c].p # "pending")
           /\ ~(now.t = "verifying" /\ V[now.c].p = "settled")
  <2>1. jobs' = J \o <<>>
    BY <1>7 DEF Await
  <2>2. <<>> \in Seq(Job) /\ DOMAIN <<>> = {}
    OBVIOUS
  <2>3. Woken(<<>>, now)
    BY <2>2 DEF Woken
  <2> QED BY <2>1, <2>2, <2>3
<1> QED BY <1>4, <1>5, <1>6, <1>7
-----------------------------------------------------------------------------
(* The queue of microtasks. *)

\* What a microtask expects goes on to hold while no connection is made ready.
LEMMA ExpectedLater ==
  ASSUME NEW J \in Seq(Job), NEW R, NEW S, NEW R2, NEW S2, AllExpected(J, R, S),
         \A c \in Conn : /\ R2[c].made = R[c].made
                         /\ S[c].st \notin {"none", "connecting"} =>
                              S2[c].st \notin {"none", "connecting"}
  PROVE  AllExpected(J, R2, S2)
<1> SUFFICES ASSUME NEW n \in DOMAIN J
             PROVE  Expected(J[n], R2, S2)
  BY DEF AllExpected
<1>1. J[n] \in Job /\ Expected(J[n], R, S)
  BY DEF AllExpected
<1>2. /\ J[n].k \in {"dialled", "pinged", "resume"} => J[n].c \in Conn
      /\ J[n].k = "verified" => J[n].next.c \in Conn
  BY <1>1 DEF Job
<1> QED BY <1>1, <1>2 DEF Expected

\* Taking the oldest microtask.
LEMMA TailJobs ==
  ASSUME NEW J \in Seq(Job), J # <<>>, NEW R, NEW S, AllExpected(J, R, S), DialledOnce(J)
  PROVE  /\ Expected(Head(J), R, S)
         /\ AllExpected(Tail(J), R, S) /\ DialledOnce(Tail(J))
         /\ Head(J).k = "dialled" =>
              \A n \in DOMAIN Tail(J) :
                Tail(J)[n].k = "dialled" => Tail(J)[n].c # Head(J).c
<1>1. /\ Head(J) = J[1] /\ 1 \in DOMAIN J
      /\ \A n \in DOMAIN Tail(J) : n + 1 \in DOMAIN J /\ Tail(J)[n] = J[n + 1] /\ n \in Nat /\ n + 1 # 1
  <2>1. Len(J) \in Nat /\ DOMAIN J = 1..Len(J) /\ Len(J) # 0
    BY EmptySeq
  <2>2. Tail(J) \in Seq(Job) /\ Len(Tail(J)) = Len(J) - 1
        /\ \A n \in 1..Len(Tail(J)) : Tail(J)[n] = J[n + 1]
    BY HeadTailProperties
  <2>3. DOMAIN Tail(J) = 1..Len(Tail(J))
    BY <2>2
  <2> QED BY <2>1, <2>2, <2>3
<1>2. Expected(Head(J), R, S) /\ AllExpected(Tail(J), R, S)
  BY <1>1 DEF AllExpected
<1>3. DialledOnce(Tail(J))
  <2> SUFFICES ASSUME NEW m \in DOMAIN Tail(J), NEW n \in DOMAIN Tail(J),
                      Tail(J)[m].k = "dialled", Tail(J)[n].k = "dialled",
                      Tail(J)[m].c = Tail(J)[n].c
               PROVE  m = n
    BY DEF DialledOnce
  <2>1. m + 1 = n + 1
    BY <1>1 DEF DialledOnce
  <2> QED BY <1>1, <2>1
<1>4. ASSUME Head(J).k = "dialled", NEW n \in DOMAIN Tail(J), Tail(J)[n].k = "dialled"
      PROVE  Tail(J)[n].c # Head(J).c
  BY <1>1, <1>4 DEF DialledOnce
<1> QED BY <1>2, <1>3, <1>4

\* Queueing a microtask.
LEMMA AppendJob ==
  ASSUME NEW J \in Seq(Job), NEW j \in Job, NEW R, NEW S, AllExpected(J, R, S), DialledOnce(J),
         Expected(j, R, S),
         j.k = "dialled" => \A n \in DOMAIN J : J[n].k = "dialled" => J[n].c # j.c
  PROVE  AllExpected(Append(J, j), R, S) /\ DialledOnce(Append(J, j))
<1>1. /\ DOMAIN Append(J, j) = 1..(Len(J) + 1) /\ DOMAIN J = 1..Len(J) /\ Len(J) \in Nat
      /\ \A n \in DOMAIN J : Append(J, j)[n] = J[n]
      /\ Append(J, j)[Len(J) + 1] = j
  BY AppendProperties
<1>2. \A n \in DOMAIN Append(J, j) : n \in DOMAIN J \/ n = Len(J) + 1
  BY <1>1
<1> QED BY <1>1, <1>2 DEF AllExpected, DialledOnce

\* Queueing the wakeups of Await().
LEMMA ConcatJobs ==
  ASSUME NEW J \in Seq(Job), NEW K \in Seq(Job), NEW R, NEW S,
         AllExpected(J, R, S), DialledOnce(J), AllExpected(K, R, S),
         \A n \in DOMAIN K : K[n].k # "dialled"
  PROVE  AllExpected(J \o K, R, S) /\ DialledOnce(J \o K)
<1>1. /\ DOMAIN (J \o K) = 1..(Len(J) + Len(K)) /\ DOMAIN J = 1..Len(J) /\ DOMAIN K = 1..Len(K)
      /\ Len(J) \in Nat /\ Len(K) \in Nat
      /\ \A n \in DOMAIN (J \o K) :
           (J \o K)[n] = IF n <= Len(J) THEN J[n] ELSE K[n - Len(J)]
  BY ConcatProperties
<1>2. ASSUME NEW n \in DOMAIN (J \o K)
      PROVE  \/ n \in DOMAIN J /\ (J \o K)[n] = J[n]
             \/ n - Len(J) \in DOMAIN K /\ (J \o K)[n] = K[n - Len(J)]
  BY <1>1
<1>3. AllExpected(J \o K, R, S)
  BY <1>2 DEF AllExpected
<1>4. DialledOnce(J \o K)
  BY <1>2 DEF DialledOnce
<1> QED BY <1>3, <1>4

\* Await() adds nothing unexpected to the microtasks J.
LEMMA AwaitExpected ==
  ASSUME NEW now \in StateObject, NEW q \in Seq(Caller), NEW D \in [Conn -> DialClosure],
         NEW V \in [Conn -> VerifyPromise], NEW C \in [Caller -> CallState],
         NEW J \in Seq(Job), Await(now, q, D, V, C, J), NEW R, NEW S,
         AllExpected(J, R, S), DialledOnce(J),
         \A c \in Conn : now = ready(c) => R[c].made
  PROVE  AllExpected(jobs', R, S) /\ DialledOnce(jobs')
<1>0. PICK K \in Seq(Job) : jobs' = J \o K /\ Woken(K, now)
  BY AwaitJobs
<1>1. /\ jobs' = J \o K
      /\ \A n \in DOMAIN K : /\ K[n].k \in {"wake", "resume"}
                             /\ K[n].k = "resume" => now = ready(K[n].c)
  BY <1>0 DEF Woken
<1>2. \A n \in DOMAIN K : K[n].k = "resume" => K[n].c \in Conn
  <2>1. ASSUME NEW n \in DOMAIN K PROVE K[n] \in Job
    OBVIOUS
  <2> QED BY <2>1 DEF Job
<1>3. AllExpected(K, R, S)
  BY <1>1, <1>2 DEF AllExpected, Expected
<1>4. \A n \in DOMAIN K : K[n].k # "dialled"
  BY <1>1
<1> QED BY <1>1, <1>3, <1>4, ConcatJobs
-----------------------------------------------------------------------------
(* The inductive invariant is preserved by every action.                      *)

\* A step that opens and closes no stream and makes no connection ready.
LEMMA CalmStep ==
  ASSUME Inv, Calmer(rs, rs'),
         \A w \in Caller : \/ call'[w] = call[w]
                           \/ call'[w].st # "open" /\ call[w].st # "open",
         \A c \in Conn : sess[c].st \notin {"none", "connecting"} =>
                           sess'[c].st \notin {"none", "connecting"},
         \A c \in Conn : ~rs[c].made => /\ sess'[c].pings = <<>> /\ ver'[c].p = "none"
                                        /\ s' \notin {ready(c), verifying(c)},
         AllExpected(jobs', rs', sess'), DialledOnce(jobs')
  PROVE  StreamCountExact' /\ ClosuresConsistent'
<1>1. StreamCountExact'
  BY SameCounts DEF Inv, Calmer
<1>2. MadeConsistent'
  BY DEF Inv, ClosuresConsistent, MadeConsistent, Calmer
<1>3. IdleTimerStopped'
  BY DEF Inv, ClosuresConsistent, IdleTimerStopped, Calmer
<1> QED BY <1>1, <1>2, <1>3 DEF ClosuresConsistent

\* The same when the microtasks, too, are only taken away.
LEMMA CalmExpected ==
  ASSUME Inv, Calmer(rs, rs'), NEW J \in Seq(Job), AllExpected(J, rs, sess),
         \A c \in Conn : sess[c].st \notin {"none", "connecting"} =>
                           sess'[c].st \notin {"none", "connecting"}
  PROVE  AllExpected(J, rs', sess')
BY ExpectedLater DEF Calmer

\* gotoReady() keeps the invariant, for a caller that has no stream.
LEMMA GotoReadyStep ==
  ASSUME Inv, NEW w \in Caller, NEW op \in Op, NEW J \in Seq(Job), GotoReady(w, op, J),
         call[w].st # "open", AllExpected(J, rs, sess), DialledOnce(J)
  PROVE  StreamCountExact' /\ HookIsCurrent' /\ ClosuresConsistent'
<1> DEFINE C == [call EXCEPT ![w] = Pending(op)]
<1>t. /\ s \in StateObject /\ rs \in [Conn -> ReadyClosure] /\ sess \in [Conn -> NodeSession]
      /\ dial \in [Conn -> DialClosure] /\ ver \in [Conn -> VerifyPromise]
      /\ call \in [Caller -> CallState] /\ <<w>> \in Seq(Caller) /\ TypeOK
  BY DEF Inv, TypeOK
<1>m. MadeConsistent
  BY DEF Inv, ClosuresConsistent
<1>1. C \in [Caller -> CallState]
  BY <1>t DEF Pending, CallState
<1>2. \A v \in Caller : C[v] = call[v] \/ (C[v].st # "open" /\ call[v].st # "open")
  BY <1>t DEF Pending
<1> HIDE DEF C
<1>3. CASE /\ Fresh # {}
           /\ SetState(connecting(NewConn), rs)
           /\ sess' = Opening(NewConn)
           /\ Await(connecting(NewConn), <<w>>, Dialling(dial, NewConn), ver, C, J)
  <2>1. NewConn \in Conn /\ sess[NewConn].st = "none"
    BY <1>3, NewConnType DEF Fresh
  <2>2. Dialling(dial, NewConn) \in [Conn -> DialClosure] /\ connecting(NewConn) \in StateObject
    BY <1>t, <2>1, DiallingType, StateTypes
  <2>3. s' = connecting(NewConn) /\ Calmer(rs, rs')
    BY <1>3, <1>t, <2>2, SetStateCalms
  <2>4. \A c \in Conn : /\ sess'[c].pings = sess[c].pings
                        /\ sess[c].st # "none" => sess'[c].st = sess[c].st
    BY <1>3, <1>t, <2>1 DEF Opening, NodeSession
  <2>5. AllExpected(J, rs', sess')
    BY <2>3, <2>4, CalmExpected
  <2>6. AllExpected(jobs', rs', sess') /\ DialledOnce(jobs')
    BY <1>3, <1>t, <1>1, <2>2, <2>5, AwaitExpected DEF ready, connecting
  <2>7. /\ \A v \in Caller : call'[v] = C[v] \/ (call'[v].st # "open" /\ C[v].st # "open")
        /\ \A c \in Conn : ver'[c].p = ver[c].p
    BY <1>3, <1>t, <1>1, <2>2, AwaitKeeps
  <2>8. \A c \in Conn : ~rs[c].made => /\ sess'[c].pings = <<>> /\ ver'[c].p = "none"
                                       /\ s' \notin {ready(c), verifying(c)}
    BY <1>m, <2>3, <2>4, <2>7 DEF MadeConsistent, connecting, ready, verifying
  <2>9. HookIsCurrent'
    BY <1>3, <1>t, <2>2, SetStateHook DEF Inv, HookIsCurrent
  <2> QED BY <1>2, <2>3, <2>4, <2>6, <2>7, <2>8, <2>9, CalmStep
<1>4. CASE /\ s.t = "ready"
           /\ SetState(verifying(s.c), [rs EXCEPT ![s.c].pingTimeout = TRUE, ![s.c].errOnce = TRUE])
           /\ sess' = [sess EXCEPT ![s.c].pings = Append(@, "verify")]
           /\ Await(verifying(s.c), <<w>>, dial,
                    [ver EXCEPT ![s.c] = [p |-> "pending", q |-> <<>>]], C, J)
  <2> DEFINE R == [rs EXCEPT ![s.c].pingTimeout = TRUE, ![s.c].errOnce = TRUE]
             V == [ver EXCEPT ![s.c] = [p |-> "pending", q |-> <<>>]]
  <2>1. s.c \in Conn /\ s = ready(s.c)
    BY <1>4, <1>t, StateConn DEF ready
  <2>2. R \in [Conn -> ReadyClosure] /\ Calmer(rs, R) /\ \A c \in Conn : R[c].hook = rs[c].hook
    <3>1. ASSUME NEW r \in ReadyClosure
          PROVE  LET x == [[r EXCEPT !.pingTimeout = TRUE] EXCEPT !.errOnce = TRUE]
                 IN /\ x \in ReadyClosure /\ x.made = r.made /\ x.streams = r.streams
                    /\ x.idleTimeout = r.idleTimeout /\ x.pingInterval = r.pingInterval
                    /\ x.hook = r.hook
      <4>1. [r EXCEPT !.pingTimeout = TRUE] \in ReadyClosure
        BY ClosureFields
      <4>2. [[r EXCEPT !.pingTimeout = TRUE] EXCEPT !.errOnce = TRUE] \in ReadyClosure
        BY <4>1, ClosureFields
      <4> QED BY <4>2 DEF ReadyClosure
    <3>2. R = [rs EXCEPT ![s.c] = [[rs[s.c] EXCEPT !.pingTimeout = TRUE] EXCEPT !.errOnce = TRUE]]
      BY <1>t, <2>1
    <3> HIDE DEF R
    <3> QED BY <1>t, <2>1, <3>1, <3>2 DEF Calmer
  <2>3. V \in [Conn -> VerifyPromise] /\ \A c \in Conn : c # s.c => V[c] = ver[c]
    <3>1. [p |-> "pending", q |-> <<>>] \in VerifyPromise
      BY DEF VerifyPromise
    <3> QED BY <1>t, <3>1
  <2>4. verifying(s.c) \in StateObject
    BY <2>1, StateTypes
  <2> HIDE DEF R, V
  <2>5. s' = verifying(s.c) /\ Calmer(R, rs')
    BY <1>4, <1>t, <2>2, <2>4, SetStateCalms DEF R
  <2>6. Calmer(rs, rs')
    BY <2>2, <2>5 DEF Calmer
  <2>7. \A c \in Conn : /\ c # s.c => sess'[c] = sess[c]
                        /\ sess'[c].st = sess[c].st
    BY <1>4, <1>t DEF NodeSession
  <2>8. AllExpected(J, rs', sess')
    BY <2>6, <2>7, CalmExpected
  <2>9. AllExpected(jobs', rs', sess') /\ DialledOnce(jobs')
    BY <1>4, <1>t, <1>1, <2>3, <2>4, <2>8, AwaitExpected DEF V, ready, verifying
  <2>10. /\ \A v \in Caller : call'[v] = C[v] \/ (call'[v].st # "open" /\ C[v].st # "open")
         /\ \A c \in Conn : ver'[c].p = V[c].p
    <3>1. Await(verifying(s.c), <<w>>, dial, V, C, J)
      BY <1>4 DEF V
    <3> QED BY <3>1, <1>t, <1>1, <2>3, <2>4, AwaitKeeps
  <2>11. rs[s.c].made
    BY <1>m, <2>1 DEF MadeConsistent
  <2>12. \A c \in Conn : ~rs[c].made => /\ sess'[c].pings = <<>> /\ ver'[c].p = "none"
                                        /\ s' \notin {ready(c), verifying(c)}
    BY <1>m, <2>3, <2>5, <2>7, <2>10, <2>11 DEF MadeConsistent, ready, verifying
  <2>13. HookIsCurrent'
    <3>1. SetState(verifying(s.c), R)
      BY <1>4 DEF R
    <3>2. \A c \in Conn : R[c].hook = "manager" => s = ready(c)
      BY <2>2 DEF Inv, HookIsCurrent
    <3> QED BY <3>1, <3>2, <1>t, <2>2, <2>4, SetStateHook
  <2> QED BY <1>2, <2>6, <2>7, <2>9, <2>10, <2>12, <2>13, CalmStep
<1>5. CASE /\ Await(s, <<w>>, dial, ver, C, J)
           /\ UNCHANGED <<s, shuttingDown, rs, sess>>
  <2>1. \A c \in Conn : s = ready(c) => rs[c].made
    BY <1>m DEF MadeConsistent
  <2>2. AllExpected(jobs', rs, sess) /\ DialledOnce(jobs')
    BY <1>5, <1>t, <1>1, <2>1, AwaitExpected
  <2>3. /\ \A v \in Caller : call'[v] = C[v] \/ (call'[v].st # "open" /\ C[v].st # "open")
        /\ \A c \in Conn : ver'[c].p = ver[c].p
    BY <1>5, <1>t, <1>1, AwaitKeeps
  <2>4. Calmer(rs, rs') /\ HookIsCurrent'
    BY <1>5 DEF Calmer, Inv, HookIsCurrent
  <2>5. \A c \in Conn : ~rs[c].made => /\ sess'[c].pings = <<>> /\ ver'[c].p = "none"
                                       /\ s' \notin {ready(c), verifying(c)}
    BY <1>5, <1>m, <2>3 DEF MadeConsistent
  <2> QED BY <1>2, <1>5, <2>2, <2>3, <2>4, <2>5, CalmStep
<1> QED BY <1>3, <1>4, <1>5 DEF GotoReady, C
\* Resetting the PING interval of a connection that was made ready.
LEMMA ResetCalms ==
  ASSUME NEW r \in ReadyClosure
  PROVE  LET x == ResetPingInterval(Alive(r))
         IN /\ x.made = r.made /\ x.streams = r.streams /\ x.goaway = r.goaway
            /\ x.hook = r.hook /\ x.idleTimeout = r.idleTimeout
BY DEF ResetPingInterval, Alive, ReadyClosure

\* The calls of the application.
LEMMA UserStep ==
  ASSUME Inv, User
  PROVE  StreamCountExact' /\ HookIsCurrent' /\ ClosuresConsistent'
<1>t. /\ s \in StateObject /\ shuttingDown \subseteq Conn /\ rs \in [Conn -> ReadyClosure]
      /\ dial \in [Conn -> DialClosure] /\ ver \in [Conn -> VerifyPromise]
      /\ sess \in [Conn -> NodeSession] /\ call \in [Caller -> CallState]
      /\ jobs \in Seq(Job) /\ TypeOK
  BY DEF Inv, TypeOK
<1>m. MadeConsistent /\ AllExpected(jobs, rs, sess) /\ DialledOnce(jobs)
  BY DEF Inv, ClosuresConsistent
<1>1. ASSUME NEW w \in Caller, NotifyResponseByteRead(w)
      PROVE  StreamCountExact' /\ HookIsCurrent' /\ ClosuresConsistent'
  <2> DEFINE c == call[w].c
  <2>1. c \in Conn /\ rs[c].made
    <3>1. c \in Conn /\ rs[c].streams > 0
      BY <1>1, <1>t DEF NotifyResponseByteRead, CallState, Idle
    <3> QED BY <3>1, <1>m DEF MadeConsistent
  <2>2. /\ rs' = [rs EXCEPT ![c] = ResetPingInterval(Alive(rs[c]))]
        /\ UNCHANGED <<s, ver, sess, call, jobs>>
    BY <1>1 DEF NotifyResponseByteRead
  <2> HIDE DEF c
  <2>3. /\ Calmer(rs, rs')
        /\ \A d \in Conn : rs'[d].hook = rs[d].hook
    BY <1>t, <2>1, <2>2, ResetCalms DEF Calmer
  <2>4. AllExpected(jobs', rs', sess') /\ DialledOnce(jobs')
    BY <1>t, <1>m, <2>2, <2>3, CalmExpected
  <2>5. HookIsCurrent'
    BY <2>2, <2>3 DEF Inv, HookIsCurrent
  <2>6. \A d \in Conn : ~rs[d].made => /\ sess'[d].pings = <<>> /\ ver'[d].p = "none"
                                       /\ s' \notin {ready(d), verifying(d)}
    BY <1>m, <2>2 DEF MadeConsistent
  <2> QED BY <2>2, <2>3, <2>4, <2>5, <2>6, CalmStep
<1>2. ASSUME NEW w \in Caller, NEW op \in Op, Call(w, op)
      PROVE  StreamCountExact' /\ HookIsCurrent' /\ ClosuresConsistent'
  <2>1. GotoReady(w, op, jobs) /\ call[w].st # "open"
    BY <1>2 DEF Call, Idle
  <2> QED BY <1>t, <1>m, <2>1, GotoReadyStep
<1>3. ASSUME NEW err \in {"cancel", "error"}, Abort(err)
      PROVE  StreamCountExact' /\ HookIsCurrent' /\ ClosuresConsistent'
  <2> DEFINE current == IF s.t \in {"ready", "verifying"} THEN {s.c} ELSE {}
             hit == {c \in current \cup shuttingDown : sess[c].st # "destroyed"}
             R == [c \in Conn |-> IF c \in hit
                                  THEN [rs[c] EXCEPT !.errOnce = TRUE, !.pingTimeout = FALSE]
                                  ELSE rs[c]]
             rejects == s.t = "connecting" /\ dial[s.c].p = "pending"
  <2>1. R \in [Conn -> ReadyClosure] /\ Calmer(rs, R) /\ \A c \in Conn : R[c].hook = rs[c].hook
    <3>1. ASSUME NEW r \in ReadyClosure
          PROVE  LET x == [r EXCEPT !.errOnce = TRUE, !.pingTimeout = FALSE]
                 IN /\ x \in ReadyClosure /\ x.made = r.made /\ x.streams = r.streams
                    /\ x.idleTimeout = r.idleTimeout /\ x.pingInterval = r.pingInterval
                    /\ x.hook = r.hook
      BY DEF ReadyClosure
    <3> HIDE DEF hit
    <3> QED BY <1>t, <3>1 DEF Calmer
  <2>2. closedOrError(err) \in StateObject
    BY DEF closedOrError, StateObject
  <2>3. SetState(closedOrError(err), R)
    BY <1>3 DEF Abort
  <2>4. \A c \in Conn : /\ sess[c].st \notin {"none", "connecting"} =>
                             sess'[c].st \notin {"none", "connecting"}
                        /\ sess[c].pings = <<>> => sess'[c].pings = <<>>
    <3>1. sess' = [c \in Conn |-> IF c \in hit THEN Destroyed(sess[c], err)
                                  ELSE IF s = connecting(c) THEN Destroyed(sess[c], "close")
                                  ELSE sess[c]]
      BY <1>3 DEF Abort
    <3>2. ASSUME NEW x \in NodeSession, NEW ev
          PROVE  /\ Destroyed(x, ev).st = "destroyed"
                 /\ x.pings = <<>> => Destroyed(x, ev).pings = <<>>
      BY DEF Destroyed, NodeSession
    <3> HIDE DEF hit
    <3> QED BY <1>t, <3>1, <3>2
  <2>5. s' = closedOrError(err) /\ Calmer(R, rs')
    <3> HIDE DEF R
    <3> QED BY <1>t, <2>1, <2>2, <2>3, SetStateCalms
  <2>6. Calmer(rs, rs')
    <3> HIDE DEF R, hit, current, rejects
    <3> QED BY <2>1, <2>5 DEF Calmer
  <2>7. AllExpected(jobs, rs', sess')
    <3> HIDE DEF R, hit, current, rejects
    <3> QED BY <1>t, <1>m, <2>4, <2>6, CalmExpected
  <2>8. AllExpected(jobs', rs', sess') /\ DialledOnce(jobs')
    <3>1. CASE rejects
      <4> DEFINE j == [k |-> "dialFailed", err |-> err, q |-> dial[s.c].q]
      <4>1. s.c \in Conn /\ dial[s.c].q \in Seq(Caller)
        BY <1>t, <3>1, StateConn DEF DialClosure
      <4>2. j \in Job /\ j.k = "dialFailed"
        BY <4>1 DEF Job
      <4>3. jobs' = Append(jobs, j)
        BY <1>3, <3>1 DEF Abort
      <4>4. Expected(j, rs', sess')
        BY <4>2 DEF Expected
      <4> HIDE DEF j
      <4> QED BY <1>t, <1>m, <2>7, <4>2, <4>3, <4>4, AppendJob
    <3>2. CASE ~rejects
      BY <1>3, <1>m, <2>7, <3>2 DEF Abort
    <3> QED BY <3>1, <3>2
  <2>9. \A c \in Conn : ~rs[c].made => /\ sess'[c].pings = <<>> /\ ver'[c].p = "none"
                                       /\ s' \notin {ready(c), verifying(c)}
    BY <1>3, <1>m, <2>4, <2>5
    DEF Abort, MadeConsistent, closedOrError, closed, error, ready, verifying
  <2>10. HookIsCurrent'
    <3>1. \A c \in Conn : R[c].hook = "manager" => s = ready(c)
      BY <2>1 DEF Inv, HookIsCurrent
    <3> HIDE DEF R
    <3> QED BY <1>t, <2>1, <2>2, <2>3, <3>1, SetStateHook
  <2>11. call' = call
    BY <1>3 DEF Abort
  <2> QED BY <2>4, <2>6, <2>8, <2>9, <2>10, <2>11, CalmStep
<1> QED BY <1>1, <1>2, <1>3 DEF User

\* The ends of streams and their responses.
LEMMA StreamStep ==
  ASSUME Inv, Stream
  PROVE  StreamCountExact' /\ HookIsCurrent' /\ ClosuresConsistent'
<1>t. /\ s \in StateObject /\ rs \in [Conn -> ReadyClosure]
      /\ sess \in [Conn -> NodeSession] /\ call \in [Caller -> CallState]
      /\ jobs \in Seq(Job) /\ TypeOK /\ StreamCountExact
  BY DEF Inv, TypeOK
<1>m. /\ MadeConsistent /\ AllExpected(jobs, rs, sess) /\ DialledOnce(jobs)
      /\ IdleTimerStopped
  BY DEF Inv, ClosuresConsistent
<1>1. ASSUME NEW w \in Caller, OnResponse(w)
      PROVE  StreamCountExact' /\ HookIsCurrent' /\ ClosuresConsistent'
  <2> DEFINE c == call[w].c
  <2>1. c \in Conn /\ rs[c].made
    <3>1. c \in Conn /\ rs[c].streams > 0
      BY <1>1, <1>t, OpenStreamCounted DEF OnResponse
    <3> QED BY <3>1, <1>m DEF MadeConsistent
  <2>2. /\ rs' = [rs EXCEPT ![c] = ResetPingInterval(Alive(rs[c]))]
        /\ UNCHANGED <<s, ver, sess, jobs>>
    BY <1>1 DEF OnResponse
  <2>3. \A v \in Caller, d \in Conn : HasStream(v, d)' <=> HasStream(v, d)
    <3>1. call[w] \in [st : {"open"}, c : Conn, heard : BOOLEAN]
      BY <1>1, <1>t DEF OnResponse, CallState, Idle
    <3>2. call' = [call EXCEPT ![w] = [call[w] EXCEPT !.heard = TRUE]]
      BY <1>1, <1>t DEF OnResponse
    <3> QED BY <1>t, <3>1, <3>2 DEF HasStream
  <2> HIDE DEF c
  <2>4. /\ Calmer(rs, rs')
        /\ \A d \in Conn : rs'[d].hook = rs[d].hook
    BY <1>t, <2>1, <2>2, ResetCalms DEF Calmer
  <2>5. AllExpected(jobs', rs', sess') /\ DialledOnce(jobs')
    BY <1>t, <1>m, <2>2, <2>4, CalmExpected
  <2>6. HookIsCurrent'
    BY <2>2, <2>4 DEF Inv, HookIsCurrent
  <2>7. MadeConsistent'
    BY <1>m, <2>2, <2>4 DEF MadeConsistent, Calmer
  <2>8. IdleTimerStopped'
    BY <1>m, <2>4 DEF IdleTimerStopped, Calmer
  <2>9. StreamCountExact'
    <3>1. \A d \in Conn : StreamsOn(d)' = StreamsOn(d)
      BY <2>3 DEF StreamsOn
    <3> QED BY <1>t, <2>4, <3>1 DEF StreamCountExact, Calmer
  <2> QED BY <2>5, <2>6, <2>7, <2>8, <2>9 DEF ClosuresConsistent
<1>2. ASSUME NEW w \in Caller, OnStreamClose(w)
      PROVE  StreamCountExact' /\ HookIsCurrent' /\ ClosuresConsistent'
  <2>0. PICK c \in Conn : c = call[w].c /\ rs[c].streams > 0
    BY <1>2, <1>t, OpenStreamCounted DEF OnStreamClose
  <2>1. rs[c].streams > 0 /\ rs[c].made
    BY <2>0, <1>m DEF MadeConsistent
  <2>2. /\ rs' = [rs EXCEPT ![c] = StreamClosed(rs[c])] /\ HasStream(w, c)
        /\ call' = [call EXCEPT ![w] = Idle]
        /\ UNCHANGED <<s, ver, sess, jobs>>
    BY <1>2, <1>t, <2>0 DEF OnStreamClose, HasStream
  <2>3. LET x == StreamClosed(rs[c])
        IN /\ x.made = rs[c].made /\ x.streams = rs[c].streams - 1 /\ x.hook = rs[c].hook
           /\ x.idleTimeout => rs[c].idleTimeout \/ x.streams = 0
    BY <1>t, <2>1 DEF StreamClosed, ResetPingInterval, ReadyClosure
  <2>4. rs'[c] = StreamClosed(rs[c]) /\ \A d \in Conn : d # c => rs'[d] = rs[d]
    BY <1>t, <2>1, <2>2
  <2>5. \A d \in Conn : rs'[d].made = rs[d].made /\ rs'[d].hook = rs[d].hook
    BY <2>3, <2>4
  <2>6. AllExpected(jobs', rs', sess') /\ DialledOnce(jobs')
    BY <1>t, <1>m, <2>2, <2>5, ExpectedLater
  <2>7. HookIsCurrent'
    BY <2>2, <2>5 DEF Inv, HookIsCurrent
  <2>8. MadeConsistent'
    BY <1>m, <2>1, <2>2, <2>4, <2>5 DEF MadeConsistent
  <2>9. IdleTimerStopped'
    BY <1>m, <2>1, <2>3, <2>4 DEF IdleTimerStopped
  <2>10. StreamCountExact'
    <3>1. StreamsOn(c)' = StreamsOn(c) \ {w} /\ w \in StreamsOn(c)
      BY <1>t, <2>2 DEF StreamsOn, HasStream, Idle
    <3>2. \A d \in Conn : d # c => StreamsOn(d)' = StreamsOn(d)
      BY <1>t, <2>2 DEF StreamsOn, HasStream, Idle
    <3>3. IsFiniteSet(StreamsOn(c))
      <4>1. StreamsOn(c) \subseteq Caller
        BY DEF StreamsOn
      <4> QED BY <4>1, ConfigAssumption, FS_Subset
    <3>4. Cardinality(StreamsOn(c)') = Cardinality(StreamsOn(c)) - 1
      BY <3>1, <3>3, FS_RemoveElement
    <3> QED BY <1>t, <2>1, <2>3, <2>4, <3>2, <3>4 DEF StreamCountExact
  <2> QED BY <2>6, <2>7, <2>8, <2>9, <2>10 DEF ClosuresConsistent
<1> QED BY <1>1, <1>2 DEF Stream
\* The hook of a connection that ended, run or not.
LEMMA RunHookStep ==
  ASSUME TypeOK, HookIsCurrent, NEW c \in Conn, NEW next \in StateObject, RunHook(c, next)
  PROVE  /\ Calmer(rs, rs') /\ SameGoaway(rs, rs') /\ HookIsCurrent'
         /\ s' = s \/ s' = next
<1> DEFINE R == [rs EXCEPT ![c] = Cleanup(@)]
<1>1. /\ R \in [Conn -> ReadyClosure] /\ Calmer(rs, R) /\ SameGoaway(rs, R)
      /\ \A d \in Conn : R[d].hook = rs[d].hook
  <2>1. rs \in [Conn -> ReadyClosure]
    BY DEF TypeOK
  <2> QED BY <2>1, CleanupCalms, CleanupType DEF Calmer, SameGoaway
<1>2. CASE SetState(next, R)
  <2>1. \A d \in Conn : R[d].hook = "manager" => s = ready(d)
    BY <1>1 DEF HookIsCurrent
  <2> HIDE DEF R
  <2>2. s' = next /\ Calmer(R, rs') /\ SameGoaway(R, rs')
    BY <1>1, <1>2, SetStateCalms
  <2>3. HookIsCurrent'
    BY <1>1, <1>2, <2>1, SetStateHook
  <2> QED BY <1>1, <2>2, <2>3 DEF Calmer, SameGoaway
<1>3. CASE rs' = R /\ s' = s
  BY <1>1, <1>3 DEF HookIsCurrent
<1> QED BY <1>2, <1>3 DEF RunHook, Keep, managerVars

\* Destroying a session cancels its PINGs.
LEMMA DestroyedStep ==
  ASSUME NEW x \in NodeSession, NEW ev
  PROVE  /\ Destroyed(x, ev).st = "destroyed"
         /\ x.pings = <<>> => Destroyed(x, ev).pings = <<>>
BY DEF Destroyed, NodeSession

\* A step that keeps the manager's state and every caller.
LEMMA QuietStep ==
  ASSUME Inv, Calmer(rs, rs'), \A d \in Conn : rs'[d].hook = rs[d].hook,
         UNCHANGED <<s, ver, call, jobs>>,
         \A d \in Conn : /\ sess[d].st \notin {"none", "connecting"} =>
                              sess'[d].st \notin {"none", "connecting"}
                         /\ ~rs[d].made => sess'[d].pings = <<>>
  PROVE  StreamCountExact' /\ HookIsCurrent' /\ ClosuresConsistent'
<1>m. MadeConsistent /\ AllExpected(jobs, rs, sess) /\ DialledOnce(jobs) /\ jobs \in Seq(Job)
  BY DEF Inv, ClosuresConsistent, TypeOK
<1>1. HookIsCurrent'
  BY DEF Inv, HookIsCurrent
<1>2. AllExpected(jobs', rs', sess') /\ DialledOnce(jobs')
  BY <1>m, CalmExpected
<1>3. \A d \in Conn : ~rs[d].made => /\ sess'[d].pings = <<>> /\ ver'[d].p = "none"
                                     /\ s' \notin {ready(d), verifying(d)}
  BY <1>m DEF MadeConsistent
<1> QED BY <1>1, <1>2, <1>3, CalmStep

\* The events of Node's session.
LEMMA SessionStep ==
  ASSUME Inv, NEW c \in Conn, Session(c)
  PROVE  StreamCountExact' /\ HookIsCurrent' /\ ClosuresConsistent'
<1>t. /\ s \in StateObject /\ rs \in [Conn -> ReadyClosure]
      /\ dial \in [Conn -> DialClosure] /\ ver \in [Conn -> VerifyPromise]
      /\ sess \in [Conn -> NodeSession] /\ jobs \in Seq(Job) /\ TypeOK /\ HookIsCurrent
  BY DEF Inv, TypeOK
<1>m. MadeConsistent /\ AllExpected(jobs, rs, sess) /\ DialledOnce(jobs)
  BY DEF Inv, ClosuresConsistent
<1>1. CASE OnConnect(c)
  <2>1. /\ rs' = rs /\ UNCHANGED <<s, ver, call>>
        /\ sess' = [sess EXCEPT ![c].st = "open"] /\ sess[c].st = "connecting"
    BY <1>1 DEF OnConnect
  <2>2. \A d \in Conn : /\ sess[d].st \notin {"none", "connecting"} =>
                             sess'[d].st \notin {"none", "connecting"}
                        /\ ~rs[d].made => sess'[d].pings = <<>>
    BY <1>t, <1>m, <2>1 DEF NodeSession, MadeConsistent
  <2>3. Calmer(rs, rs')
    BY <2>1 DEF Calmer
  <2>4. CASE jobs' = jobs
    BY <2>1, <2>2, <2>3, <2>4, QuietStep
  <2>5. CASE jobs' = Append(jobs, [k |-> "dialled", c |-> c, q |-> dial[c].q])
    <3> DEFINE j == [k |-> "dialled", c |-> c, q |-> dial[c].q]
    <3>1. j \in Job /\ j.k = "dialled" /\ j.c = c
      BY <1>t DEF Job, DialClosure
    <3>2. AllExpected(jobs, rs', sess')
      BY <1>t, <1>m, <2>2, <2>3, CalmExpected
    <3>3. Expected(j, rs', sess')
      BY <1>t, <1>m, <2>1, <3>1 DEF Expected, MadeConsistent, NodeSession
    <3>4. \A n \in DOMAIN jobs : jobs[n].k = "dialled" => jobs[n].c # c
      BY <1>m, <2>1 DEF AllExpected, Expected
    <3> HIDE DEF j
    <3>5. AllExpected(Append(jobs, j), rs', sess') /\ DialledOnce(Append(jobs, j))
      BY <1>t, <1>m, <3>1, <3>2, <3>3, <3>4, AppendJob
    <3>6. \A d \in Conn : ~rs[d].made => /\ sess'[d].pings = <<>> /\ ver'[d].p = "none"
                                         /\ s' \notin {ready(d), verifying(d)}
      BY <1>m, <2>1, <2>2 DEF MadeConsistent
    <3>7. HookIsCurrent'
      BY <1>t, <2>1 DEF HookIsCurrent
    <3> QED BY <2>1, <2>2, <2>3, <2>5, <3>5, <3>6, <3>7, CalmStep DEF j
  <2> QED BY <1>1, <2>4, <2>5 DEF OnConnect
<1>2. CASE SessionLost(c) \/ Drained(c) \/ Silence(c)
  <2>1. /\ UNCHANGED <<s, ver, call, jobs>>
        /\ rs' = rs \/ rs' = [rs EXCEPT ![c].pingTimeout = FALSE]
    BY <1>2 DEF SessionLost, Drained, Silence
  <2>2. \/ \E ev \in {"error", "close"} : sess' = [sess EXCEPT ![c] = Destroyed(sess[c], ev)]
        \/ sess' = [sess EXCEPT ![c].silent = TRUE]
    BY <1>2 DEF SessionLost, Drained, Silence
  <2>3. Calmer(rs, rs') /\ \A d \in Conn : rs'[d].hook = rs[d].hook
    <3>1. LET r == [rs[c] EXCEPT !.pingTimeout = FALSE]
          IN /\ r.made = rs[c].made /\ r.streams = rs[c].streams /\ r.hook = rs[c].hook
             /\ r.idleTimeout = rs[c].idleTimeout /\ r.pingInterval = rs[c].pingInterval
      BY <1>t DEF ReadyClosure
    <3>2. CASE rs' = rs
      BY <3>2 DEF Calmer
    <3>3. CASE rs' = [rs EXCEPT ![c] = [rs[c] EXCEPT !.pingTimeout = FALSE]]
      BY <1>t, <3>1, <3>3 DEF Calmer
    <3> QED BY <2>1, <3>2, <3>3
  <2>4. \A d \in Conn : /\ sess[d].st \notin {"none", "connecting"} =>
                             sess'[d].st \notin {"none", "connecting"}
                        /\ ~rs[d].made => sess'[d].pings = <<>>
    <3>1. CASE \E ev \in {"error", "close"} : sess' = [sess EXCEPT ![c] = Destroyed(sess[c], ev)]
      BY <1>t, <1>m, <3>1, DestroyedStep DEF MadeConsistent
    <3>2. CASE sess' = [sess EXCEPT ![c].silent = TRUE]
      BY <1>t, <1>m, <3>2 DEF MadeConsistent, NodeSession
    <3> QED BY <2>2, <3>1, <3>2
  <2> QED BY <2>1, <2>3, <2>4, QuietStep
<1>3. CASE EmitClose(c) \/ EmitError(c)
  <2>1. sess' = [sess EXCEPT ![c].ev = "done"] /\ call' = call
    BY <1>3 DEF EmitClose, EmitError, Emits
  <2>2. \A d \in Conn : sess'[d].st = sess[d].st /\ sess'[d].pings = sess[d].pings
    BY <1>t, <2>1 DEF NodeSession
  <2>3. /\ Calmer(rs, rs') /\ HookIsCurrent'
        /\ s' = s \/ s' = closed \/ s' = error
    <3>1. \A ev : closedOrError(ev) \in {closed, error}
      BY DEF closedOrError
    <3>2. CASE Keep(rs)
      BY <1>t, <3>2 DEF Keep, managerVars, Calmer, HookIsCurrent
    <3>3. CASE RunHook(c, closed)
      BY <1>t, <3>3, RunHookStep, StateTypes
    <3>4. CASE RunHook(c, closedOrError(sess[c].ev))
      BY <1>t, <3>1, <3>4, RunHookStep, StateTypes
    <3> QED BY <1>3, <3>2, <3>3, <3>4 DEF EmitClose, EmitError
  <2>4. \A d \in Conn : ver'[d].p # ver[d].p => d = c /\ ver[c].p = "pending"
    BY <1>3, <1>t DEF EmitClose, EmitError, VerifyPromise
  <2>5. AllExpected(jobs, rs', sess')
    BY <1>t, <1>m, <2>2, <2>3, CalmExpected
  <2>6. AllExpected(jobs', rs', sess') /\ DialledOnce(jobs')
    <3>1. CASE jobs' = jobs
      BY <1>m, <2>5, <3>1
    <3>2. CASE EmitError(c) /\ dial[c].on
      <4> DEFINE j == [k |-> "dialFailed", err |-> sess[c].ev, q |-> dial[c].q]
      <4>1. sess[c].ev \in {"cancel", "error"} /\ dial[c].q \in Seq(Caller)
        BY <3>2, <1>t DEF EmitError, Emits, DialClosure
      <4>2. j \in Job /\ j.k = "dialFailed"
        BY <4>1 DEF Job
      <4>3. jobs' = Append(jobs, j)
        BY <3>2 DEF EmitError
      <4>4. Expected(j, rs', sess')
        BY <4>2 DEF Expected
      <4> HIDE DEF j
      <4> QED BY <1>t, <1>m, <2>5, <4>2, <4>3, <4>4, AppendJob
    <3>3. CASE EmitError(c) /\ ~dial[c].on /\ ver[c].p = "pending"
      <4> DEFINE j == [k |-> "pinged", c |-> c, ok |-> FALSE]
      <4>1. rs'[c].made
        BY <1>m, <2>3, <3>3 DEF MadeConsistent, Calmer
      <4>2. j \in Job /\ j.k = "pinged" /\ j.c = c
        BY DEF Job
      <4>3. jobs' = Append(jobs, j)
        BY <3>3 DEF EmitError
      <4>4. Expected(j, rs', sess')
        BY <4>1, <4>2 DEF Expected
      <4> HIDE DEF j
      <4> QED BY <1>t, <1>m, <2>5, <4>2, <4>3, <4>4, AppendJob
    <3>4. CASE EmitError(c) /\ ~dial[c].on /\ ver[c].p # "pending"
      <4>1. jobs' = jobs
        BY <3>4 DEF EmitError
      <4> QED BY <4>1, <3>1
    <3>5. CASE EmitClose(c)
      BY <3>1, <3>5 DEF EmitClose
    <3> QED BY <1>3, <3>2, <3>3, <3>4, <3>5
  <2>7. \A d \in Conn : ~rs[d].made => /\ sess'[d].pings = <<>> /\ ver'[d].p = "none"
                                       /\ s' \notin {ready(d), verifying(d)}
    BY <1>m, <2>2, <2>3, <2>4 DEF MadeConsistent, closed, error, ready, verifying
  <2> QED BY <2>1, <2>2, <2>3, <2>6, <2>7, CalmStep
<1>4. CASE PingAck(c)
  <2>1. sess[c] \in NodeSession /\ sess[c].pings \in Seq({"keep", "verify"}) /\ sess[c].pings # <<>>
    BY <1>4, <1>t DEF PingAck, NodeSession
  <2>2. rs[c].made
    BY <1>m, <2>1 DEF MadeConsistent
  <2>3. UNCHANGED <<s, call>> /\ sess'[c].st \in {sess[c].st, "destroyed"}
        /\ \A d \in Conn : d # c => sess'[d] = sess[d]
    BY <1>4, <1>t, <2>1, DestroyedStep DEF PingAck, NodeSession
  <2>4. Calmer(rs, rs') /\ \A d \in Conn : rs'[d].hook = rs[d].hook
    <3> DEFINE r == [rs[c] EXCEPT !.pingTimeout = FALSE]
    <3>1. /\ r \in ReadyClosure /\ r.made = rs[c].made /\ r.streams = rs[c].streams
          /\ r.idleTimeout = rs[c].idleTimeout /\ r.hook = rs[c].hook
      BY <1>t DEF ReadyClosure
    <3>2. rs'[c] \in {r, Alive(r), ResetPingInterval(Alive(r))}
      BY <1>4, <1>t DEF PingAck
    <3>3. \A d \in Conn : d # c => rs'[d] = rs[d]
      BY <1>4, <1>t DEF PingAck
    <3> HIDE DEF r
    <3>4. /\ rs'[c].made = rs[c].made /\ rs'[c].streams = rs[c].streams
          /\ rs'[c].idleTimeout = rs[c].idleTimeout /\ rs'[c].hook = rs[c].hook
      <4>1. /\ Alive(r).made = r.made /\ Alive(r).streams = r.streams
            /\ Alive(r).idleTimeout = r.idleTimeout /\ Alive(r).hook = r.hook
        BY <3>1 DEF Alive, ReadyClosure
      <4> QED BY <3>1, <3>2, <4>1, ResetCalms
    <3> QED BY <2>2, <3>3, <3>4 DEF Calmer
  <2>5. AllExpected(jobs, rs', sess')
    <3>1. \A d \in Conn : sess[d].st \notin {"none", "connecting"} =>
                            sess'[d].st \notin {"none", "connecting"}
      BY <2>3
    <3> QED BY <1>t, <1>m, <2>4, <3>1, CalmExpected
  <2>6. AllExpected(jobs', rs', sess') /\ DialledOnce(jobs')
    <3> DEFINE j == [k |-> "pinged", c |-> c, ok |-> TRUE]
    <3>1. CASE jobs' = jobs
      BY <1>m, <2>5, <3>1
    <3>2. CASE jobs' = Append(jobs, j)
      <4>1. j \in Job /\ j.k = "pinged" /\ j.c = c
        BY DEF Job
      <4>2. Expected(j, rs', sess')
        BY <2>2, <2>4, <4>1 DEF Expected, Calmer
      <4> HIDE DEF j
      <4> QED BY <1>t, <1>m, <2>5, <3>2, <4>1, <4>2, AppendJob
    <3>3. jobs' = jobs \/ jobs' = Append(jobs, j)
      BY <1>4 DEF PingAck
    <3> QED BY <3>1, <3>2, <3>3
  <2>7. \A d \in Conn : d # c => ver'[d] = ver[d]
    BY <1>4, <1>t DEF PingAck
  <2>8. \A d \in Conn : ~rs[d].made => /\ sess'[d].pings = <<>> /\ ver'[d].p = "none"
                                       /\ s' \notin {ready(d), verifying(d)}
    BY <1>m, <2>2, <2>3, <2>7 DEF MadeConsistent
  <2>9. HookIsCurrent'
    BY <1>t, <2>3, <2>4 DEF HookIsCurrent
  <2> QED BY <2>3, <2>4, <2>6, <2>8, <2>9, CalmStep
<1>5. ASSUME NEW code, OnGoaway(c, code)
      PROVE  StreamCountExact' /\ HookIsCurrent' /\ ClosuresConsistent'
  <2>1. UNCHANGED <<s, ver, call, jobs>> /\ sess[c].st \in {"open", "closing"}
    BY <1>5 DEF OnGoaway
  <2>2. PICK g \in BOOLEAN, b \in BOOLEAN :
          rs' = [rs EXCEPT ![c] = [rs[c] EXCEPT !.goaway = g, !.pingTimeout = b]]
    <3> DEFINE dies == \/ code # "noError"
                       \/ rs[c].on /\ rs[c].streams = 0 /\ NodeMajor >= 18
               g1 == rs[c].goaway \/ rs[c].on
               b1 == rs[c].pingTimeout /\ ~dies
    <3>1. rs' = [rs EXCEPT ![c] = [rs[c] EXCEPT !.goaway = g1, !.pingTimeout = b1]]
      BY <1>5, <1>t DEF OnGoaway
    <3>2. g1 \in BOOLEAN /\ b1 \in BOOLEAN
      OBVIOUS
    <3> HIDE DEF g1, b1
    <3> QED BY <3>1, <3>2
  <2>3. Calmer(rs, rs') /\ \A d \in Conn : rs'[d].hook = rs[d].hook
    <3>1. LET r == [rs[c] EXCEPT !.goaway = g, !.pingTimeout = b]
          IN /\ r.made = rs[c].made /\ r.streams = rs[c].streams /\ r.hook = rs[c].hook
             /\ r.idleTimeout = rs[c].idleTimeout /\ r.pingInterval = rs[c].pingInterval
      BY <1>t DEF ReadyClosure
    <3> QED BY <1>t, <2>2, <3>1 DEF Calmer
  <2>4. \A d \in Conn : /\ sess[d].st \notin {"none", "connecting"} =>
                             sess'[d].st \notin {"none", "connecting"}
                        /\ ~rs[d].made => sess'[d].pings = <<>>
    <3>1. \/ sess' = [sess EXCEPT ![c] = [sess[c] EXCEPT !.st = "closing"]]
          \/ \E ev : sess' = [sess EXCEPT ![c] = Destroyed(sess[c], ev)]
      BY <1>5 DEF OnGoaway
    <3>2. CASE sess' = [sess EXCEPT ![c] = [sess[c] EXCEPT !.st = "closing"]]
      BY <1>t, <1>m, <3>2 DEF MadeConsistent, NodeSession
    <3>3. CASE \E ev : sess' = [sess EXCEPT ![c] = Destroyed(sess[c], ev)]
      BY <1>t, <1>m, <3>3, DestroyedStep DEF MadeConsistent
    <3> QED BY <3>1, <3>2, <3>3
  <2> QED BY <2>1, <2>3, <2>4, QuietStep
<1> QED BY <1>1, <1>2, <1>3, <1>4, <1>5 DEF Session
\* Timers.
LEMMA TimerStep ==
  ASSUME Inv, NEW c \in Conn, Timer(c)
  PROVE  StreamCountExact' /\ HookIsCurrent' /\ ClosuresConsistent'
<1>t. /\ s \in StateObject /\ rs \in [Conn -> ReadyClosure] /\ ver \in [Conn -> VerifyPromise]
      /\ sess \in [Conn -> NodeSession] /\ jobs \in Seq(Job) /\ TypeOK /\ HookIsCurrent
  BY DEF Inv, TypeOK
<1>m. MadeConsistent /\ AllExpected(jobs, rs, sess) /\ DialledOnce(jobs)
  BY DEF Inv, ClosuresConsistent
<1>f. ASSUME NEW q, q \in {[rs[c] EXCEPT !.pingInterval = FALSE, !.pingTimeout = TRUE],
                           [rs[c] EXCEPT !.pingTimeout = FALSE],
                           [rs[c] EXCEPT !.stale = TRUE]},
             rs' = [rs EXCEPT ![c] = q]
      PROVE  Calmer(rs, rs') /\ \A d \in Conn : rs'[d].hook = rs[d].hook
  <2>1. /\ q.made = rs[c].made /\ q.streams = rs[c].streams /\ q.hook = rs[c].hook
        /\ q.idleTimeout = rs[c].idleTimeout
        /\ q.pingInterval => rs[c].pingInterval
    <3>1. CASE q = [rs[c] EXCEPT !.pingInterval = FALSE, !.pingTimeout = TRUE]
      BY <1>t, <3>1 DEF ReadyClosure
    <3>2. CASE q = [rs[c] EXCEPT !.pingTimeout = FALSE]
      BY <1>t, <3>2 DEF ReadyClosure
    <3>3. CASE q = [rs[c] EXCEPT !.stale = TRUE]
      BY <1>t, <3>3 DEF ReadyClosure
    <3> QED BY <1>f, <3>1, <3>2, <3>3
  <2> QED BY <1>f, <1>t, <2>1 DEF Calmer
<1>1. CASE Elapse(c)
  <2>1. rs' = [rs EXCEPT ![c] = [rs[c] EXCEPT !.stale = TRUE]]
        /\ UNCHANGED <<s, ver, call, jobs, sess>>
    BY <1>1 DEF Elapse
  <2>2. Calmer(rs, rs') /\ \A d \in Conn : rs'[d].hook = rs[d].hook
    BY <1>f, <2>1
  <2> QED BY <1>m, <2>1, <2>2, QuietStep DEF MadeConsistent
<1>2. CASE OnPingInterval(c)
  <2>1. rs' = [rs EXCEPT ![c] = [rs[c] EXCEPT !.pingInterval = FALSE, !.pingTimeout = TRUE]]
        /\ UNCHANGED <<s, ver, call, jobs>>
    BY <1>2, <1>t DEF OnPingInterval
  <2>2. Calmer(rs, rs') /\ \A d \in Conn : rs'[d].hook = rs[d].hook
    BY <1>f, <2>1
  <2>3. rs[c].made
    BY <1>2, <1>m DEF OnPingInterval, MadeConsistent
  <2>4. \A d \in Conn : sess'[d].st = sess[d].st /\ (d # c => sess'[d] = sess[d])
    <3>1. sess' = sess \/ sess' = [sess EXCEPT ![c].pings = Append(@, "keep")]
      BY <1>2 DEF OnPingInterval
    <3> QED BY <1>t, <3>1 DEF NodeSession
  <2>5. \A d \in Conn : ~rs[d].made => sess'[d].pings = <<>>
    BY <1>m, <2>3, <2>4 DEF MadeConsistent
  <2> QED BY <2>1, <2>2, <2>4, <2>5, QuietStep
<1>3. CASE OnPingTimeout(c)
  <2>1. /\ rs' = [rs EXCEPT ![c] = [rs[c] EXCEPT !.pingTimeout = FALSE]]
        /\ sess' = [sess EXCEPT ![c] = Destroyed(sess[c], "error")]
        /\ UNCHANGED <<s, ver, call, jobs>>
    BY <1>3 DEF OnPingTimeout
  <2>2. Calmer(rs, rs') /\ \A d \in Conn : rs'[d].hook = rs[d].hook
    BY <1>f, <2>1
  <2>3. \A d \in Conn : /\ sess[d].st \notin {"none", "connecting"} =>
                             sess'[d].st \notin {"none", "connecting"}
                        /\ ~rs[d].made => sess'[d].pings = <<>>
    BY <1>t, <1>m, <2>1, DestroyedStep DEF MadeConsistent
  <2> QED BY <2>1, <2>2, <2>3, QuietStep
<1>4. CASE OnIdleTimeout(c)
  <2>1. sess' = sess \/ sess' = [sess EXCEPT ![c].st = "closing"]
    BY <1>4 DEF OnIdleTimeout
  <2>2. \A d \in Conn : /\ sess[d].st \notin {"none", "connecting"} =>
                             sess'[d].st \notin {"none", "connecting"}
                        /\ sess'[d].pings = sess[d].pings
    <3>1. CASE sess' = sess
      BY <3>1
    <3>2. CASE sess' = [sess EXCEPT ![c] = [sess[c] EXCEPT !.st = "closing"]]
      BY <1>t, <3>2 DEF NodeSession
    <3> QED BY <2>1, <3>1, <3>2
  <2>3. /\ Calmer(rs, rs') /\ HookIsCurrent'
        /\ s' = s \/ s' = closed
    BY <1>4, <1>t, RunHookStep, StateTypes DEF OnIdleTimeout
  <2>4. UNCHANGED <<ver, call, jobs>>
    BY <1>4 DEF OnIdleTimeout
  <2>5. AllExpected(jobs', rs', sess') /\ DialledOnce(jobs')
    BY <1>t, <1>m, <2>2, <2>3, <2>4, CalmExpected
  <2>6. \A d \in Conn : ~rs[d].made => /\ sess'[d].pings = <<>> /\ ver'[d].p = "none"
                                       /\ s' \notin {ready(d), verifying(d)}
    BY <1>m, <2>2, <2>3, <2>4 DEF MadeConsistent, closed, ready, verifying
  <2> QED BY <2>2, <2>3, <2>4, <2>5, <2>6, CalmStep
<1> QED BY <1>1, <1>2, <1>3, <1>4 DEF Timer

\* The reaction that makes a connection ready is the only one to make its
\* closure, and finds no stream on it.
LEMMA DialledStep ==
  ASSUME Inv, Dialled
  PROVE  StreamCountExact' /\ HookIsCurrent' /\ ClosuresConsistent'
<1>t. /\ s \in StateObject /\ rs \in [Conn -> ReadyClosure] /\ ver \in [Conn -> VerifyPromise]
      /\ dial \in [Conn -> DialClosure] /\ sess \in [Conn -> NodeSession] /\ jobs \in Seq(Job)
      /\ call \in [Caller -> CallState] /\ TypeOK /\ HookIsCurrent /\ StreamCountExact
  BY DEF Inv, TypeOK
<1>m. /\ MadeConsistent /\ AllExpected(jobs, rs, sess) /\ DialledOnce(jobs)
      /\ IdleTimerStopped
  BY DEF Inv, ClosuresConsistent
<1>0. jobs # <<>> /\ Head(jobs) \in Job /\ Tail(jobs) \in Seq(Job) /\ Head(jobs).k = "dialled"
  BY <1>t, JobsHeadTail DEF Dialled, NextJob
<1>1. PICK c \in Conn, q \in Seq(Caller) : c = Head(jobs).c /\ q = Head(jobs).q
  BY <1>0 DEF Job
<1>2. /\ AllExpected(Tail(jobs), rs, sess) /\ DialledOnce(Tail(jobs))
      /\ ~rs[c].made /\ sess[c].st \notin {"none", "connecting"}
      /\ \A n \in DOMAIN Tail(jobs) : Tail(jobs)[n].k = "dialled" => Tail(jobs)[n].c # c
  BY <1>t, <1>m, <1>0, <1>1, TailJobs DEF Expected
<1>3. sess' = sess
  BY DEF Dialled
<1>4. CASE /\ SetState(ready(c), [rs EXCEPT ![c] = NewReady])
           /\ Await(ready(c), q, ExitDial(dial), ver, call, Tail(jobs))
  <2> DEFINE R == [rs EXCEPT ![c] = NewReady]
  <2>1. /\ R \in [Conn -> ReadyClosure] /\ ready(c) \in StateObject
        /\ ExitDial(dial) \in [Conn -> DialClosure]
    BY <1>t, NewReadyType, StateTypes, ExitDialType
  <2>2. \A d \in Conn : IF d = c THEN R[d] = NewReady ELSE R[d] = rs[d]
    BY <1>t
  <2>3. SetState(ready(c), R)
    BY <1>4
  <2> HIDE DEF R
  <2>4. s' = ready(c) /\ Calmer(R, rs')
    BY <1>t, <2>1, <2>3, SetStateCalms
  <2>5. HookIsCurrent'
    <3>1. \A d \in Conn : R[d].hook = "manager" => s = ready(d)
      BY <1>t, <2>2 DEF HookIsCurrent, NewReady
    <3> QED BY <1>t, <2>1, <2>3, <3>1, SetStateHook
  <2>6. rs'[c].made /\ rs'[c].streams = 0 /\ rs[c].streams = 0
    BY <1>m, <1>2, <2>2, <2>4 DEF Calmer, NewReady, MadeConsistent
  <2>7. \A d \in Conn : d # c => /\ rs'[d].made = rs[d].made /\ rs'[d].streams = rs[d].streams
                                 /\ rs'[d].idleTimeout => rs[d].idleTimeout
                                 /\ rs'[d].pingInterval => rs[d].pingInterval \/ rs[d].made
    BY <2>2, <2>4 DEF Calmer
  <2>8. /\ \A w \in Caller : call'[w] = call[w] \/ (call'[w].st # "open" /\ call[w].st # "open")
        /\ \A d \in Conn : ver'[d].p = ver[d].p
    BY <1>4, <1>t, <1>0, <2>1, AwaitKeeps
  <2>9. StreamCountExact'
    BY <1>t, <2>6, <2>7, <2>8, SameCounts
  <2>10. MadeConsistent'
    BY <1>m, <1>2, <1>3, <2>4, <2>6, <2>7, <2>8 DEF MadeConsistent, ready, verifying
  <2>11. IdleTimerStopped'
    BY <1>m, <2>6, <2>7 DEF IdleTimerStopped
  <2>12. AllExpected(Tail(jobs), rs', sess')
    <3> SUFFICES ASSUME NEW n \in DOMAIN Tail(jobs)
                 PROVE  Expected(Tail(jobs)[n], rs', sess')
      BY DEF AllExpected
    <3> DEFINE j == Tail(jobs)[n]
    <3>1. j \in Job /\ Expected(j, rs, sess) /\ (j.k = "dialled" => j.c # c)
      BY <1>0, <1>2 DEF AllExpected
    <3>2. /\ j.k \in {"dialled", "pinged", "resume"} => j.c \in Conn
          /\ j.k = "verified" => j.next.c \in Conn
      BY <3>1 DEF Job
    <3> HIDE DEF j
    <3> QED BY <1>3, <2>6, <2>7, <3>1, <3>2 DEF Expected, j
  <2>13. AllExpected(jobs', rs', sess') /\ DialledOnce(jobs')
    <3>1. \A d \in Conn : ready(c) = ready(d) => rs'[d].made
      BY <2>6 DEF ready
    <3> QED BY <1>4, <1>t, <1>0, <1>2, <2>1, <2>12, <3>1, AwaitExpected
  <2> QED BY <2>5, <2>9, <2>10, <2>11, <2>13 DEF ClosuresConsistent
<1>5. CASE /\ Await(s, q, dial, ver, call, Tail(jobs))
           /\ UNCHANGED <<s, shuttingDown, rs>>
  <2>1. \A d \in Conn : s = ready(d) => rs[d].made
    BY <1>m DEF MadeConsistent
  <2>2. AllExpected(jobs', rs', sess') /\ DialledOnce(jobs')
    BY <1>5, <1>t, <1>0, <1>2, <1>3, <2>1, AwaitExpected
  <2>3. /\ \A w \in Caller : call'[w] = call[w] \/ (call'[w].st # "open" /\ call[w].st # "open")
        /\ \A d \in Conn : ver'[d].p = ver[d].p
    BY <1>5, <1>t, <1>0, AwaitKeeps
  <2>4. Calmer(rs, rs') /\ HookIsCurrent'
    BY <1>5, <1>t DEF Calmer, HookIsCurrent
  <2>5. \A d \in Conn : ~rs[d].made => /\ sess'[d].pings = <<>> /\ ver'[d].p = "none"
                                       /\ s' \notin {ready(d), verifying(d)}
    BY <1>5, <1>m, <1>3, <2>3 DEF MadeConsistent
  <2> QED BY <1>3, <2>2, <2>3, <2>4, <2>5, CalmStep
<1>6. CASE /\ jobs' = Tail(jobs)
           /\ UNCHANGED <<s, shuttingDown, rs, dial, ver, call>>
  <2>1. Calmer(rs, rs') /\ HookIsCurrent'
    BY <1>6, <1>t DEF Calmer, HookIsCurrent
  <2>2. \A d \in Conn : ~rs[d].made => /\ sess'[d].pings = <<>> /\ ver'[d].p = "none"
                                       /\ s' \notin {ready(d), verifying(d)}
    BY <1>6, <1>m, <1>3 DEF MadeConsistent
  <2> QED BY <1>6, <1>2, <1>3, <2>1, <2>2, CalmStep
<1> QED BY <1>1, <1>4, <1>5, <1>6 DEF Dialled
\* The other reactions.
LEMMA ReactionStep ==
  ASSUME Inv, DialFailed \/ Pinged \/ Verified \/ Wake
  PROVE  StreamCountExact' /\ HookIsCurrent' /\ ClosuresConsistent'
<1>t. /\ s \in StateObject /\ rs \in [Conn -> ReadyClosure] /\ ver \in [Conn -> VerifyPromise]
      /\ dial \in [Conn -> DialClosure] /\ sess \in [Conn -> NodeSession] /\ jobs \in Seq(Job)
      /\ call \in [Caller -> CallState] /\ TypeOK /\ HookIsCurrent /\ StreamCountExact
  BY DEF Inv, TypeOK
<1>m. MadeConsistent /\ AllExpected(jobs, rs, sess) /\ DialledOnce(jobs)
  BY DEF Inv, ClosuresConsistent
<1>0. /\ jobs # <<>> /\ Head(jobs) \in Job /\ Tail(jobs) \in Seq(Job)
      /\ Expected(Head(jobs), rs, sess)
      /\ AllExpected(Tail(jobs), rs, sess) /\ DialledOnce(Tail(jobs))
  <2>1. jobs # <<>>
    BY DEF DialFailed, Pinged, Verified, Wake, NextJob
  <2> QED BY <1>t, <1>m, <2>1, JobsHeadTail, TailJobs
<1>1. CASE DialFailed
  <2> DEFINE next == closedOrError(Head(jobs).err)
  <2>1. next \in StateObject /\ next \in {closed, error}
    BY DEF closedOrError, StateObject
  <2>2. SetState(next, rs) /\ jobs' = Tail(jobs) /\ UNCHANGED <<ver, sess>>
        /\ call' = Rejected(call, Head(jobs).q)
    BY <1>1 DEF DialFailed
  <2> HIDE DEF next
  <2>3. s' = next /\ Calmer(rs, rs')
    BY <1>t, <2>1, <2>2, SetStateCalms
  <2>4. HookIsCurrent'
    BY <1>t, <2>1, <2>2, SetStateHook DEF HookIsCurrent
  <2>5. \A w \in Caller : call'[w] = call[w] \/ (call'[w].st # "open" /\ call[w].st # "open")
    BY <2>2, RejectedStreams
  <2>6. AllExpected(jobs', rs', sess') /\ DialledOnce(jobs')
    BY <1>0, <1>t, <2>2, <2>3, CalmExpected
  <2>7. \A d \in Conn : ~rs[d].made => /\ sess'[d].pings = <<>> /\ ver'[d].p = "none"
                                       /\ s' \notin {ready(d), verifying(d)}
    BY <1>m, <2>1, <2>2, <2>3 DEF MadeConsistent, closed, error, ready, verifying
  <2> QED BY <2>2, <2>3, <2>4, <2>5, <2>6, <2>7, CalmStep
<1>2. CASE Pinged
  <2>1. PICK c \in Conn : c = Head(jobs).c /\ rs[c].made
    BY <1>0, <1>2 DEF Pinged, NextJob, Job, Expected
  <2>2. /\ UNCHANGED <<s, rs, call>>
        /\ ver' = [ver EXCEPT ![c] = [p |-> "settled", q |-> <<>>]]
    BY <1>2, <2>1 DEF Pinged
  <2>3. /\ \A d \in Conn : /\ sess'[d].pings = sess[d].pings
                           /\ sess[d].st # "none" => sess'[d].st = sess[d].st
        /\ \E next \in [t : {"connecting", "ready"}, c : Conn] :
             /\ jobs' = Append(Tail(jobs), [k |-> "verified", next |-> next, q |-> ver[c].q])
             /\ next.t = "ready" => next.c = c
    <3>1. CASE /\ sess' = sess
               /\ jobs' = Append(Tail(jobs), [k |-> "verified", next |-> ready(c), q |-> ver[c].q])
      <4>1. ready(c) \in [t : {"connecting", "ready"}, c : Conn] /\ ready(c).c = c
        BY DEF ready
      <4> QED BY <3>1, <4>1
    <3>2. CASE /\ Fresh # {} /\ sess' = Opening(NewConn)
               /\ jobs' = Append(Tail(jobs), [k |-> "verified", next |-> connecting(NewConn),
                                              q |-> ver[c].q])
      <4>1. NewConn \in Conn /\ sess[NewConn].st = "none"
        BY <3>2, NewConnType DEF Fresh
      <4>2. \A d \in Conn : /\ sess'[d].pings = sess[d].pings
                            /\ sess[d].st # "none" => sess'[d].st = sess[d].st
        BY <3>2, <1>t, <4>1 DEF Opening, NodeSession
      <4>3. connecting(NewConn) \in [t : {"connecting", "ready"}, c : Conn]
            /\ connecting(NewConn).t # "ready"
        BY <4>1 DEF connecting
      <4> QED BY <3>2, <4>2, <4>3
    <3>3. \/ /\ sess' = sess
             /\ jobs' = Append(Tail(jobs), [k |-> "verified", next |-> ready(c), q |-> ver[c].q])
          \/ /\ Fresh # {} /\ sess' = Opening(NewConn)
             /\ jobs' = Append(Tail(jobs), [k |-> "verified", next |-> connecting(NewConn),
                                            q |-> ver[c].q])
      BY <1>2, <2>1 DEF Pinged
    <3> QED BY <3>1, <3>2, <3>3
  <2>4. PICK next \in [t : {"connecting", "ready"}, c : Conn] :
             /\ jobs' = Append(Tail(jobs), [k |-> "verified", next |-> next, q |-> ver[c].q])
             /\ next.t = "ready" => next.c = c
    BY <2>3
  <2>5. Calmer(rs, rs') /\ HookIsCurrent'
    BY <1>t, <2>2 DEF Calmer, HookIsCurrent
  <2>6. AllExpected(jobs', rs', sess') /\ DialledOnce(jobs')
    <3> DEFINE j == [k |-> "verified", next |-> next, q |-> ver[c].q]
    <3>1. j \in Job /\ j.k = "verified" /\ j.next = next
      BY <1>t DEF Job, VerifyPromise
    <3>2. Expected(j, rs', sess')
      BY <2>1, <2>2, <2>4, <3>1 DEF Expected
    <3>3. AllExpected(Tail(jobs), rs', sess')
      BY <1>0, <1>t, <2>3, <2>5, CalmExpected
    <3>4. jobs' = Append(Tail(jobs), j)
      BY <2>4
    <3> HIDE DEF j
    <3> QED BY <1>0, <3>1, <3>2, <3>3, <3>4, AppendJob
  <2>7. \A d \in Conn : ~rs[d].made => /\ sess'[d].pings = <<>> /\ ver'[d].p = "none"
                                       /\ s' \notin {ready(d), verifying(d)}
    BY <1>m, <1>t, <2>1, <2>2, <2>3 DEF MadeConsistent
  <2> QED BY <2>2, <2>3, <2>5, <2>6, <2>7, CalmStep
<1>3. CASE Verified
  <2>0. PICK next \in [t : {"connecting", "ready"}, c : Conn], q \in Seq(Caller) :
          /\ next = Head(jobs).next /\ q = Head(jobs).q
          /\ next.t = "ready" => rs[next.c].made
    BY <1>0, <1>3 DEF Verified, NextJob, Job, Expected
  <2>1. next \in StateObject /\ ExitDial(dial) \in [Conn -> DialClosure]
    BY <1>t, ExitDialType DEF StateObject
  <2>2. /\ SetState(next, rs) /\ sess' = sess
        /\ Await(next, q, ExitDial(dial), ver, call, Tail(jobs))
    BY <1>3, <2>0 DEF Verified
  <2>3. s' = next /\ Calmer(rs, rs')
    BY <1>t, <2>1, <2>2, SetStateCalms
  <2>4. HookIsCurrent'
    BY <1>t, <2>1, <2>2, SetStateHook DEF HookIsCurrent
  <2>5. /\ \A w \in Caller : call'[w] = call[w] \/ (call'[w].st # "open" /\ call[w].st # "open")
        /\ \A d \in Conn : ver'[d].p = ver[d].p
    <3>1. /\ next \in StateObject /\ ExitDial(dial) \in [Conn -> DialClosure]
          /\ Tail(jobs) \in Seq(Job) /\ q \in Seq(Caller)
          /\ ver \in [Conn -> VerifyPromise] /\ call \in [Caller -> CallState]
      BY <1>0, <1>t, <2>1
    <3>2. PICK now \in StateObject, D \in [Conn -> DialClosure], J \in Seq(Job) :
            Await(now, q, D, ver, call, J)
      BY <2>2, <3>1
    <3>3. /\ ver \in [Conn -> VerifyPromise] /\ call \in [Caller -> CallState]
          /\ q \in Seq(Caller)
      BY <3>1
    <3> QED BY Zenon, <3>2, <3>3, AwaitKeeps
  <2>6. AllExpected(Tail(jobs), rs', sess')
    BY <1>0, <1>t, <2>2, <2>3, CalmExpected
  <2>7. AllExpected(jobs', rs', sess') /\ DialledOnce(jobs')
    <3>1. \A d \in Conn : next = ready(d) => rs'[d].made
      BY <2>0, <2>3 DEF ready, Calmer
    <3> QED BY <1>0, <1>t, <2>1, <2>2, <2>6, <3>1, AwaitExpected
  <2>8. \A d \in Conn : ~rs[d].made => /\ sess'[d].pings = <<>> /\ ver'[d].p = "none"
                                       /\ s' \notin {ready(d), verifying(d)}
    BY <1>m, <2>0, <2>2, <2>3, <2>5 DEF MadeConsistent, ready, verifying
  <2> QED BY <2>2, <2>3, <2>4, <2>5, <2>7, <2>8, CalmStep
<1>4. CASE Wake
  <2>0. PICK w \in Caller : w = Head(jobs).w
    BY <1>0, <1>4 DEF Wake, NextJob, Job
  <2>1. UNCHANGED <<s, rs, sess>> /\ <<w>> \in Seq(Caller)
    BY <1>4 DEF Wake
  <2>2. Calmer(rs, rs') /\ HookIsCurrent'
    BY <1>t, <2>1 DEF Calmer, HookIsCurrent
  <2>3. /\ \A v \in Caller : call'[v] = call[v] \/ (call'[v].st # "open" /\ call[v].st # "open")
        /\ \A d \in Conn : ver'[d].p = ver[d].p
        /\ AllExpected(jobs', rs', sess') /\ DialledOnce(jobs')
    <3>1. CASE Await(s, <<w>>, dial, ver, call, Tail(jobs))
      <4>0. PICK q \in Seq(Caller) : Await(s, q, dial, ver, call, Tail(jobs))
        BY <2>1, <3>1
      <4>1. \A d \in Conn : s = ready(d) => rs[d].made
        BY <1>m DEF MadeConsistent
      <4>2. AllExpected(jobs', rs', sess') /\ DialledOnce(jobs')
        BY <1>0, <1>t, <2>1, <3>1, <4>1, AwaitExpected
      <4>3. /\ \A v \in Caller : call'[v] = call[v] \/ (call'[v].st # "open" /\ call[v].st # "open")
            /\ \A d \in Conn : ver'[d].p = ver[d].p
        <5>1. /\ s \in StateObject /\ dial \in [Conn -> DialClosure] /\ Tail(jobs) \in Seq(Job)
              /\ ver \in [Conn -> VerifyPromise] /\ call \in [Caller -> CallState]
          BY <1>0, <1>t
        <5> QED BY <4>0, <5>1, AwaitKeeps
      <4> QED BY <4>2, <4>3
    <3>2. CASE call' = Rejected(call, <<w>>) /\ jobs' = Tail(jobs) /\ UNCHANGED ver
      BY <1>0, <2>1, <3>2, RejectedStreams
    <3> QED BY <1>4, <2>0, <3>1, <3>2 DEF Wake
  <2>4. \A d \in Conn : ~rs[d].made => /\ sess'[d].pings = <<>> /\ ver'[d].p = "none"
                                       /\ s' \notin {ready(d), verifying(d)}
    BY <1>m, <2>1, <2>3 DEF MadeConsistent
  <2> QED BY <2>1, <2>2, <2>3, <2>4, CalmStep
<1> QED BY <1>1, <1>2, <1>3, <1>4

\* request() and connect() going on with the connection of gotoReady().
LEMMA ResumeStep ==
  ASSUME Inv, Resume
  PROVE  StreamCountExact' /\ HookIsCurrent' /\ ClosuresConsistent'
<1>t. /\ s \in StateObject /\ rs \in [Conn -> ReadyClosure] /\ ver \in [Conn -> VerifyPromise]
      /\ dial \in [Conn -> DialClosure] /\ sess \in [Conn -> NodeSession] /\ jobs \in Seq(Job)
      /\ call \in [Caller -> CallState] /\ TypeOK /\ HookIsCurrent /\ StreamCountExact
  BY DEF Inv, TypeOK
<1>m. /\ MadeConsistent /\ AllExpected(jobs, rs, sess) /\ DialledOnce(jobs)
      /\ IdleTimerStopped
  BY DEF Inv, ClosuresConsistent
<1>0. /\ jobs # <<>> /\ Head(jobs) \in Job /\ Tail(jobs) \in Seq(Job)
      /\ Expected(Head(jobs), rs, sess) /\ Head(jobs).k = "resume"
      /\ AllExpected(Tail(jobs), rs, sess) /\ DialledOnce(Tail(jobs))
  <2>1. jobs # <<>> /\ Head(jobs).k = "resume"
    BY DEF Resume, NextJob
  <2> QED BY <1>t, <1>m, <2>1, JobsHeadTail, TailJobs
<1>1. PICK w \in Caller, c \in Conn : w = Head(jobs).w /\ c = Head(jobs).c /\ rs[c].made
  BY <1>0 DEF Job, Expected
<1>2. CASE /\ call' = [call EXCEPT ![w] = Idle] /\ call[w].st # "open"
           /\ jobs' = Tail(jobs) /\ UNCHANGED <<s, ver, rs, sess>>
  <2>1. \A v \in Caller : call'[v] = call[v] \/ (call'[v].st # "open" /\ call[v].st # "open")
    BY <1>2, <1>t DEF Idle
  <2>2. Calmer(rs, rs') /\ HookIsCurrent'
    BY <1>2, <1>t DEF Calmer, HookIsCurrent
  <2>3. \A d \in Conn : ~rs[d].made => /\ sess'[d].pings = <<>> /\ ver'[d].p = "none"
                                       /\ s' \notin {ready(d), verifying(d)}
    BY <1>2, <1>m DEF MadeConsistent
  <2> QED BY <1>0, <1>2, <2>1, <2>2, <2>3, CalmStep
<1>3. CASE /\ call' = [call EXCEPT ![w] = Open(c, FALSE)] /\ call[w].st # "open"
           /\ rs' = [rs EXCEPT ![c] = RegisterRequest(rs[c])]
           /\ jobs' = Tail(jobs) /\ UNCHANGED <<s, ver, sess>>
  <2>1. LET x == RegisterRequest(rs[c])
        IN /\ x.made = rs[c].made /\ x.streams = rs[c].streams + 1 /\ x.hook = rs[c].hook
           /\ x.idleTimeout => rs[c].idleTimeout /\ x.streams # 1
    BY <1>t DEF RegisterRequest, ResetPingInterval, ReadyClosure
  <2>2. rs'[c] = RegisterRequest(rs[c]) /\ \A d \in Conn : d # c => rs'[d] = rs[d]
    BY <1>3, <1>t
  <2>3. \A d \in Conn : rs'[d].made = rs[d].made /\ rs'[d].hook = rs[d].hook
    BY <2>1, <2>2
  <2>4. HookIsCurrent'
    BY <1>t, <1>3, <2>3 DEF HookIsCurrent
  <2>5. AllExpected(jobs', rs', sess') /\ DialledOnce(jobs')
    BY <1>0, <1>3, <2>3, ExpectedLater
  <2>6. MadeConsistent'
    BY <1>1, <1>3, <1>m, <2>2, <2>3 DEF MadeConsistent
  <2>7. IdleTimerStopped'
    <3>1. rs[c].idleTimeout => rs[c].streams = 0
      BY <1>m DEF IdleTimerStopped
    <3>2. ~rs'[c].idleTimeout
      BY <1>t, <2>1, <2>2, <3>1
    <3> QED BY <1>m, <2>2, <3>2 DEF IdleTimerStopped
  <2>8. StreamCountExact'
    <3>1. StreamsOn(c)' = StreamsOn(c) \cup {w} /\ w \notin StreamsOn(c)
      BY <1>t, <1>3 DEF StreamsOn, HasStream, Open
    <3>2. \A d \in Conn : d # c => StreamsOn(d)' = StreamsOn(d)
      BY <1>t, <1>3 DEF StreamsOn, HasStream, Open
    <3>3. IsFiniteSet(StreamsOn(c))
      <4>1. StreamsOn(c) \subseteq Caller
        BY DEF StreamsOn
      <4> QED BY <4>1, ConfigAssumption, FS_Subset
    <3>4. Cardinality(StreamsOn(c)') = Cardinality(StreamsOn(c)) + 1
      BY <3>1, <3>3, FS_AddElement
    <3> QED BY <1>t, <2>1, <2>2, <3>2, <3>4 DEF StreamCountExact
  <2> QED BY <2>4, <2>5, <2>6, <2>7, <2>8 DEF ClosuresConsistent
<1>4. CASE GotoReady(w, "request", Tail(jobs)) /\ call[w].st # "open"
  <2>1. "request" \in Op
    BY DEF Op
  <2> QED BY <1>0, <1>4, <2>1, GotoReadyStep
<1>5. call[w] \in {Pending("connect"), Pending("request")} => call[w].st # "open"
  BY DEF Pending
<1> QED BY <1>1, <1>2, <1>3, <1>4, <1>5 DEF Resume

-----------------------------------------------------------------------------
(* Theorems. *)

\* Initially nothing is counted, hooked or queued.
LEMMA InitInv == Init => Inv
<1> SUFFICES ASSUME Init PROVE Inv
  OBVIOUS
<1>1. TypeOK
  BY ConfigAssumption
  DEF Init, TypeOK, StateObject, closed, DialClosure, VerifyPromise, ReadyClosure, NodeSession,
      CallState, Idle
<1>2. StreamCountExact
  <2>1. \A c \in Conn : StreamsOn(c) = {}
    BY DEF Init, StreamsOn, HasStream, Idle
  <2> QED BY <2>1, FS_EmptySet DEF Init, StreamCountExact
<1>3. HookIsCurrent
  BY DEF Init, HookIsCurrent
<1>4. ClosuresConsistent
  <2>1. MadeConsistent
    BY DEF Init, MadeConsistent, closed, ready, verifying
  <2> QED BY <2>1
      DEF Init, ClosuresConsistent, AllExpected, DialledOnce, IdleTimerStopped
<1> QED BY <1>1, <1>2, <1>3, <1>4 DEF Inv

\* The invariant is inductive.
LEMMA NextInv == Inv /\ [Next]_vars => Inv'
<1> SUFFICES ASSUME Inv, [Next]_vars PROVE Inv'
  OBVIOUS
<1>1. TypeOK'
  BY TypeStep DEF Inv
<1>2. CASE Next
  BY <1>1, <1>2, UserStep, DialledStep, ReactionStep, ResumeStep, StreamStep, SessionStep,
     TimerStep DEF Next, RunJob, Inv
<1>3. CASE UNCHANGED vars
  BY <1>1, <1>3
  DEF vars, Inv, StreamCountExact, StreamsOn, HasStream, HookIsCurrent, ClosuresConsistent,
      MadeConsistent, AllExpected, Expected, DialledOnce, IdleTimerStopped
<1> QED BY <1>2, <1>3

\* The inductive invariant holds throughout.
THEOREM Invariance == Spec => []Inv
BY InitInv, NextInv, PTL DEF Spec

\* Every variable keeps its type; in particular no counter of streams is ever
\* decremented below zero (registerRequest).
THEOREM TypesHold == Spec => []TypeOK
BY Invariance, PTL DEF Inv

\* streamCount is exact on every connection (registerRequest).
THEOREM StreamCountsAreExact == Spec => []StreamCountExact
BY Invariance, PTL DEF Inv

\* No connection but the current one can change the manager's state by its end
\* (setState, onClose, onError).
THEOREM HooksAreCurrent == Spec => []HookIsCurrent
BY Invariance, PTL DEF Inv

\* The closures of connect(), verify() and ready() fit together.
THEOREM ClosuresAreConsistent == Spec => []ClosuresConsistent
BY Invariance, PTL DEF Inv
\* A connection begins to shut down only in the listener for "goaway".
LEMMA GoawayFromPeer ==
  ASSUME Inv, NEW c \in Conn, Next, ~rs[c].goaway, rs'[c].goaway
  PROVE  \E code \in {"noError", "tooManyPings", "other"} : OnGoaway(c, code)
<1>t. /\ s \in StateObject /\ rs \in [Conn -> ReadyClosure] /\ call \in [Caller -> CallState]
      /\ sess \in [Conn -> NodeSession] /\ jobs \in Seq(Job) /\ TypeOK /\ HookIsCurrent
  BY DEF Inv, TypeOK
<1>1. ~SameGoaway(rs, rs') /\ ~UNCHANGED rs
  BY DEF SameGoaway
<1>2. ASSUME NEW d \in Conn, NEW r \in ReadyClosure, rs' = [rs EXCEPT ![d] = r],
             r.goaway = rs[d].goaway
      PROVE  FALSE
  BY <1>t, <1>2
<1>3. ASSUME NEW d \in Conn, NEW b \in BOOLEAN
      PROVE  /\ rs' # [rs EXCEPT ![d].pingTimeout = b]
             /\ rs' # [rs EXCEPT ![d].stale = b]
             /\ rs' # [rs EXCEPT ![d].pingInterval = FALSE, ![d].pingTimeout = TRUE]
  <2>1. /\ [rs[d] EXCEPT !.pingTimeout = b] \in ReadyClosure
        /\ [rs[d] EXCEPT !.stale = b] \in ReadyClosure
        /\ [rs[d] EXCEPT !.pingInterval = FALSE, !.pingTimeout = TRUE] \in ReadyClosure
        /\ [rs[d] EXCEPT !.pingTimeout = b].goaway = rs[d].goaway
        /\ [rs[d] EXCEPT !.stale = b].goaway = rs[d].goaway
        /\ [rs[d] EXCEPT !.pingInterval = FALSE, !.pingTimeout = TRUE].goaway = rs[d].goaway
    BY <1>t DEF ReadyClosure
  <2>2. rs' # [rs EXCEPT ![d] = [rs[d] EXCEPT !.pingTimeout = b]]
    BY <1>2, <2>1
  <2>3. rs' # [rs EXCEPT ![d] = [rs[d] EXCEPT !.stale = b]]
    BY <1>2, <2>1
  <2>4. rs' # [rs EXCEPT ![d] = [rs[d] EXCEPT !.pingInterval = FALSE, !.pingTimeout = TRUE]]
    BY <1>2, <2>1
  <2> QED BY <1>t, <2>2, <2>3, <2>4
<1>4. ASSUME NEW w \in Caller, NEW op \in Op, NEW J, GotoReady(w, op, J)
      PROVE  FALSE
  <2>1. CASE Fresh # {} /\ SetState(connecting(NewConn), rs)
    <3>1. connecting(NewConn) \in StateObject
      BY <2>1, NewConnType, StateTypes
    <3> QED BY <1>1, <1>t, <2>1, <3>1, SetStateCalms
  <2>2. CASE /\ s.t = "ready"
             /\ SetState(verifying(s.c), [rs EXCEPT ![s.c].pingTimeout = TRUE, ![s.c].errOnce = TRUE])
    <3> DEFINE R == [rs EXCEPT ![s.c].pingTimeout = TRUE, ![s.c].errOnce = TRUE]
    <3>1. s.c \in Conn /\ verifying(s.c) \in StateObject
      BY <2>2, <1>t, StateConn, StateTypes
    <3>2. R \in [Conn -> ReadyClosure] /\ SameGoaway(rs, R)
      <4>1. LET x == [[rs[s.c] EXCEPT !.pingTimeout = TRUE] EXCEPT !.errOnce = TRUE]
            IN x \in ReadyClosure /\ x.goaway = rs[s.c].goaway
        <5>1. ASSUME NEW r \in ReadyClosure
              PROVE  LET x == [[r EXCEPT !.pingTimeout = TRUE] EXCEPT !.errOnce = TRUE]
                     IN x \in ReadyClosure /\ x.goaway = r.goaway
          BY DEF ReadyClosure
        <5> QED BY <1>t, <3>1, <5>1
      <4>2. R = [rs EXCEPT ![s.c] = [[rs[s.c] EXCEPT !.pingTimeout = TRUE] EXCEPT !.errOnce = TRUE]]
        BY <1>t, <3>1
      <4> HIDE DEF R
      <4> QED BY <1>t, <3>1, <4>1, <4>2 DEF SameGoaway
    <3>3. SetState(verifying(s.c), R)
      BY <2>2
    <3> HIDE DEF R
    <3>4. SameGoaway(R, rs')
      BY <1>t, <3>1, <3>2, <3>3, SetStateCalms
    <3> QED BY <1>1, <3>2, <3>4 DEF SameGoaway
  <2>3. CASE UNCHANGED rs
    BY <1>1, <2>3
  <2> QED BY <1>4, <2>1, <2>2, <2>3 DEF GotoReady
<1>5. ASSUME NEW r \in ReadyClosure
      PROVE  /\ ResetPingInterval(r).goaway = r.goaway /\ Alive(r).goaway = r.goaway
             /\ RegisterRequest(r).goaway = r.goaway /\ StreamClosed(r).goaway = r.goaway
             /\ ResetPingInterval(Alive(r)).goaway = r.goaway
  BY DEF ResetPingInterval, Alive, RegisterRequest, StreamClosed, ReadyClosure
<1>6. CASE User
  <2>1. ASSUME NEW w \in Caller, NotifyResponseByteRead(w) PROVE FALSE
    <3>1. call[w].c \in Conn
      BY <2>1, <1>t DEF NotifyResponseByteRead, CallState, Idle
    <3>2. rs' = [rs EXCEPT ![call[w].c] = ResetPingInterval(Alive(rs[call[w].c]))]
      BY <2>1 DEF NotifyResponseByteRead
    <3> QED BY <1>t, <1>5, <3>1, <3>2
  <2>2. ASSUME NEW w \in Caller, NEW op \in Op, Call(w, op) PROVE FALSE
    BY <1>4, <2>2 DEF Call
  <2>3. ASSUME NEW err \in {"cancel", "error"}, Abort(err) PROVE FALSE
    <3> DEFINE current == IF s.t \in {"ready", "verifying"} THEN {s.c} ELSE {}
               hit == {d \in current \cup shuttingDown : sess[d].st # "destroyed"}
               R == [d \in Conn |-> IF d \in hit
                                    THEN [rs[d] EXCEPT !.errOnce = TRUE, !.pingTimeout = FALSE]
                                    ELSE rs[d]]
    <3>1. SetState(closedOrError(err), R)
      BY <2>3 DEF Abort
    <3>2. R \in [Conn -> ReadyClosure] /\ SameGoaway(rs, R)
      <4>1. ASSUME NEW r \in ReadyClosure
            PROVE  LET x == [r EXCEPT !.errOnce = TRUE, !.pingTimeout = FALSE]
                   IN x \in ReadyClosure /\ x.goaway = r.goaway
        BY DEF ReadyClosure
      <4> HIDE DEF hit
      <4> QED BY <1>t, <4>1 DEF SameGoaway
    <3> HIDE DEF R
    <3>3. SameGoaway(R, rs')
      BY <1>t, <3>1, <3>2, SetStateCalms DEF closedOrError, StateObject
    <3> QED BY <1>1, <3>2, <3>3 DEF SameGoaway
  <2> QED BY <1>6, <2>1, <2>2, <2>3 DEF User
<1>7. CASE RunJob
  <2>0. jobs # <<>> /\ Head(jobs) \in Job /\ Tail(jobs) \in Seq(Job)
    BY <1>7, <1>t, JobsHeadTail DEF RunJob, Dialled, DialFailed, Pinged, Verified, Wake, Resume, NextJob
  <2>1. CASE Dialled
    <3>1. Head(jobs).c \in Conn
      BY <2>0, <2>1 DEF Dialled, NextJob, Job
    <3> DEFINE R == [rs EXCEPT ![Head(jobs).c] = NewReady]
    <3>2. CASE SetState(ready(Head(jobs).c), R)
      <4>1. ready(Head(jobs).c) \in StateObject /\ R \in [Conn -> ReadyClosure]
        BY <1>t, <3>1, StateTypes, NewReadyType
      <4>2. ~R[c].goaway
        BY <1>t, <3>1 DEF NewReady
      <4> HIDE DEF R
      <4>3. SameGoaway(R, rs')
        BY <1>t, <3>2, <4>1, SetStateCalms
      <4> QED BY <4>2, <4>3 DEF SameGoaway
    <3> QED BY <1>1, <2>1, <3>2 DEF Dialled
  <2>2. CASE DialFailed
    <3>1. closedOrError(Head(jobs).err) \in StateObject
      BY DEF closedOrError, StateObject
    <3> QED BY <1>1, <1>t, <2>2, <3>1, SetStateCalms DEF DialFailed
  <2>3. CASE Verified
    <3>1. Head(jobs).next \in StateObject
      BY <2>0, <2>3 DEF Verified, NextJob, Job, StateObject
    <3> QED BY <1>1, <1>t, <2>3, <3>1, SetStateCalms DEF Verified
  <2>4. CASE Pinged \/ Wake
    BY <1>1, <2>4 DEF Pinged, Wake
  <2>5. CASE Resume
    <3>1. Head(jobs).w \in Caller /\ Head(jobs).c \in Conn /\ "request" \in Op
      BY <2>0, <2>5 DEF Resume, NextJob, Job, Op
    <3>2. CASE rs' = [rs EXCEPT ![Head(jobs).c] = RegisterRequest(rs[Head(jobs).c])]
      BY <1>t, <1>5, <3>1, <3>2
    <3>3. CASE GotoReady(Head(jobs).w, "request", Tail(jobs))
      BY <1>4, <3>1, <3>3
    <3> QED BY <1>1, <2>5, <3>2, <3>3 DEF Resume
  <2> QED BY <1>7, <2>1, <2>2, <2>3, <2>4, <2>5 DEF RunJob
<1>8. CASE Stream
  <2>1. PICK w \in Caller : OnResponse(w) \/ OnStreamClose(w)
    BY <1>8 DEF Stream
  <2>2. call[w].c \in Conn
    BY <2>1, <1>t DEF OnResponse, OnStreamClose, CallState, Idle
  <2>3. \/ rs' = [rs EXCEPT ![call[w].c] = ResetPingInterval(Alive(rs[call[w].c]))]
        \/ rs' = [rs EXCEPT ![call[w].c] = StreamClosed(rs[call[w].c])]
    BY <2>1 DEF OnResponse, OnStreamClose
  <2> QED BY <1>t, <1>5, <2>2, <2>3
<1>9. ASSUME NEW d \in Conn, Timer(d) PROVE FALSE
  <2>1. CASE OnIdleTimeout(d)
    BY <1>1, <1>t, <2>1, RunHookStep, StateTypes DEF OnIdleTimeout
  <2> QED BY <1>3, <1>9, <2>1 DEF Timer, Elapse, OnPingInterval, OnPingTimeout
<1>10. ASSUME NEW d \in Conn, Session(d)
       PROVE  \E code \in {"noError", "tooManyPings", "other"} : OnGoaway(c, code)
  <2>1. ~(SessionLost(d) \/ Drained(d))
    BY <1>3 DEF SessionLost, Drained
  <2>2. ~(OnConnect(d) \/ Silence(d))
    BY <1>1 DEF OnConnect, Silence
  <2>3. ~(EmitClose(d) \/ EmitError(d))
    <3>1. ~Keep(rs)
      BY <1>1 DEF Keep
    <3>2. \A next \in StateObject : ~RunHook(d, next)
      BY <1>1, <1>t, RunHookStep
    <3>3. closed \in StateObject /\ closedOrError(sess[d].ev) \in StateObject
      BY DEF closedOrError, StateObject
    <3> QED BY <3>1, <3>2, <3>3 DEF EmitClose, EmitError
  <2>4. ~PingAck(d)
    <3> SUFFICES ASSUME PingAck(d) PROVE FALSE
      OBVIOUS
    <3> DEFINE r == [rs[d] EXCEPT !.pingTimeout = FALSE]
    <3>1. r \in ReadyClosure /\ r.goaway = rs[d].goaway
      BY <1>t DEF ReadyClosure
    <3>2. rs'[d] \in {r, Alive(r), ResetPingInterval(Alive(r))}
      BY <1>t DEF PingAck
    <3>3. \A e \in Conn : e # d => rs'[e] = rs[e]
      BY <1>t DEF PingAck
    <3> HIDE DEF r
    <3> QED BY <1>5, <3>1, <3>2, <3>3
  <2>5. PICK code \in {"noError", "tooManyPings", "other"} : OnGoaway(d, code)
    BY <1>10, <2>1, <2>2, <2>3, <2>4 DEF Session
  <2>6. d = c
    <3>1. \A e \in Conn : e # d => rs'[e] = rs[e]
      BY <1>t, <2>5 DEF OnGoaway
    <3> QED BY <3>1
  <2> QED BY <2>5, <2>6
<1> QED BY <1>6, <1>7, <1>8, <1>9, <1>10 DEF Next

\* A connection without counted streams has none.
LEMMA NoStreams ==
  ASSUME StreamCountExact, NEW c \in Conn, rs[c].streams = 0
  PROVE  StreamsOn(c) = {}
<1>1. IsFiniteSet(StreamsOn(c))
  <2>1. StreamsOn(c) \subseteq Caller
    BY DEF StreamsOn
  <2> QED BY <2>1, ConfigAssumption, FS_Subset
<1> QED BY <1>1, FS_EmptySet DEF StreamCountExact

\* The manager closes a connection of its own accord, by idle timeout or after a
\* GOAWAY, only when no stream is open on it (onIdleTimeout, onGoaway).
THEOREM OnlyIdleClose == Spec => OnlyIdleConnectionsClose
<1> DEFINE Closes == \A c \in Conn : ClosesOnItsOwn(c) => StreamsOn(c) = {}
<1>1. ASSUME Inv, [Next]_vars PROVE [Closes]_vars
  <2> SUFFICES ASSUME Next, NEW c \in Conn, ClosesOnItsOwn(c) PROVE StreamsOn(c) = {}
    BY <1>1
  <2>1. CASE rs[c].idleTimeout
    BY <1>1, <2>1, NoStreams DEF Inv, ClosesOnItsOwn, ClosuresConsistent, IdleTimerStopped
  <2>2. CASE ~rs[c].idleTimeout
    <3>1. /\ ~rs[c].goaway /\ rs'[c].goaway /\ sess[c].st = "open"
          /\ sess'[c].st = "destroyed" /\ sess'[c].ev = "cancel"
      BY <2>2 DEF ClosesOnItsOwn
    <3>2. PICK code \in {"noError", "tooManyPings", "other"} : OnGoaway(c, code)
      BY <1>1, <3>1, GoawayFromPeer
    <3>3. sess \in [Conn -> NodeSession]
      BY <1>1 DEF Inv, TypeOK
    <3>4. rs[c].streams = 0
      BY <3>1, <3>2, <3>3 DEF OnGoaway, Destroyed, NodeSession
    <3> QED BY <1>1, <3>4, NoStreams DEF Inv
  <2> QED BY <2>1, <2>2
<1> QED BY <1>1, Invariance, PTL DEF Spec, OnlyIdleConnectionsClose

-----------------------------------------------------------------------------
(* Without keep-alive, as by default, no connection is ever verified, and every *)
(* open stream is on a connection that abort() reaches.                         *)

\* No PING is due, sent or awaited.
Rests(r) == ~r.stale /\ ~r.pingInterval
NeverPings(R, S, V) ==
  \A c \in Conn : Rests(R[c]) /\ S[c].pings = <<>> /\ V[c].p = "none"

\* Only the connecting state x has listeners on its session.
Listens(D, x) == \A c \in Conn : D[c].on => x = connecting(c)

\* No reaction to a promise of connect() meets a ready state x, and one that will
\* make its connection ready meets its own connecting state, and is the only one.
IsSettled(j)   == j.k \in {"dialled", "dialFailed"}
OpenDial(j, S) == j.k = "dialled" /\ S[j.c].st = "open"
OneSettled(J, S, x) ==
  /\ \A n \in DOMAIN J : J[n].k \notin {"pinged", "verified"}
  /\ \A n \in DOMAIN J : IsSettled(J[n]) => \A c \in Conn : x # ready(c)
  /\ \A n \in DOMAIN J : OpenDial(J[n], S) =>
       /\ x = connecting(J[n].c)
       /\ \A m \in DOMAIN J : IsSettled(J[m]) => m = n

\* The current connection has its listeners and hooks: its GOAWAY is noted.
ReadyHeard(R, S, x) ==
  \A c \in Conn : x = ready(c) => /\ R[c].on /\ R[c].hook = "manager"
                                  /\ S[c].st = "closing" => R[c].goaway

\* abort() reaches connection c, or need not.
Tracked(c) == sess[c].st = "destroyed" \/ s = ready(c) \/ c \in shuttingDown
StreamsTracked ==
  /\ \A w \in Caller, c \in Conn : HasStream(w, c) => Tracked(c)
  /\ \A n \in DOMAIN jobs : jobs[n].k = "resume" => Tracked(jobs[n].c)

TrackInv ==
  /\ s.t # "verifying" /\ NeverPings(rs, sess, ver) /\ Listens(dial, s)
  /\ OneSettled(jobs, sess, s) /\ ReadyHeard(rs, sess, s) /\ StreamsTracked

\* What the operators on a closure of ready() leave alone.
LEMMA RestOperators ==
  ASSUME NEW r \in ReadyClosure, Rests(r), ~Keepalive
  PROVE  /\ \A x \in {Cleanup(r), ResetPingInterval(r), Alive(r), ResetPingInterval(Alive(r)),
                      RegisterRequest(r), NewReady} : Rests(x)
         /\ \A x \in {ResetPingInterval(r), Alive(r), ResetPingInterval(Alive(r)), RegisterRequest(r)} :
              x.on = r.on /\ x.hook = r.hook /\ x.goaway = r.goaway
         /\ Cleanup(r).hook = r.hook /\ Cleanup(r).goaway = r.goaway
         /\ r.streams > 0 => /\ Rests(StreamClosed(r)) /\ StreamClosed(r).on = r.on
                             /\ StreamClosed(r).hook = r.hook /\ StreamClosed(r).goaway = r.goaway
<1> DEFINE Like(x, y) == /\ Rests(x) /\ x.on = y.on /\ x.hook = y.hook /\ x.goaway = y.goaway
<1>1. ASSUME NEW y \in ReadyClosure, Rests(y)
      PROVE  Like(ResetPingInterval(y), y)
  <2>1. ResetPingInterval(y) = [y EXCEPT !.pingTimeout = FALSE, !.pingInterval = FALSE]
    BY DEF ResetPingInterval
  <2> QED BY <1>1, <2>1 DEF ReadyClosure, Rests
<1>2. Like(Alive(r), r) /\ Alive(r) \in ReadyClosure
  BY AliveType DEF Alive, ReadyClosure, Rests
<1>3. /\ Rests(Cleanup(r)) /\ Cleanup(r).hook = r.hook /\ Cleanup(r).goaway = r.goaway
      /\ Rests(NewReady)
  BY DEF Cleanup, NewReady, ReadyClosure, Rests
<1>4. Like(RegisterRequest(r), r)
  <2> DEFINE n == [r EXCEPT !.streams = @ + 1]
  <2>1. r.streams + 1 \in Nat
    BY DEF ReadyClosure
  <2>2. n \in ReadyClosure
    BY <2>1, ClosureFields
  <2>3. Like(n, r)
    BY DEF ReadyClosure, Rests
  <2> HIDE DEF n
  <2>4. ResetPingInterval(n) \in ReadyClosure /\ Like(ResetPingInterval(n), n)
    BY <1>1, <2>2, <2>3, ResetPingIntervalType
  <2>5. ASSUME NEW y \in ReadyClosure, Rests(y)
        PROVE  Like([y EXCEPT !.idleTimeout = FALSE], y)
    BY <2>5 DEF ReadyClosure, Rests
  <2>6. Like([ResetPingInterval(n) EXCEPT !.idleTimeout = FALSE], n)
    BY <2>4, <2>5
  <2> QED BY <2>3, <2>6 DEF RegisterRequest, n
<1>5. ASSUME r.streams > 0 PROVE Like(StreamClosed(r), r)
  <2> DEFINE n == [r EXCEPT !.streams = @ - 1]
  <2>1. r.streams - 1 \in Nat
    BY <1>5 DEF ReadyClosure
  <2>2. n \in ReadyClosure
    BY <2>1, ClosureFields
  <2>3. Like(n, r)
    BY DEF ReadyClosure, Rests
  <2> HIDE DEF n
  <2>4. ResetPingInterval(n) \in ReadyClosure /\ Like(ResetPingInterval(n), n)
    BY <1>1, <2>2, <2>3, ResetPingIntervalType
  <2>5. ASSUME NEW y \in ReadyClosure, Rests(y)
        PROVE  Like([y EXCEPT !.idleTimeout = TRUE], y)
    BY <2>5 DEF ReadyClosure, Rests
  <2>6. Like([ResetPingInterval(n) EXCEPT !.idleTimeout = TRUE], n)
    BY <2>4, <2>5
  <2> QED BY <2>3, <2>6 DEF StreamClosed, n
<1>6. Like(ResetPingInterval(r), r) /\ Like(ResetPingInterval(Alive(r)), r)
  BY <1>1, <1>2
<1> QED BY <1>2, <1>3, <1>4, <1>5, <1>6

\* setState() forgets no connection that received a GOAWAY.
LEMMA SetStateTracks ==
  ASSUME TypeOK, NEW next \in StateObject, NEW R \in [Conn -> ReadyClosure],
         SetState(next, R)
  PROVE  /\ s' = next /\ shuttingDown \subseteq shuttingDown'
         /\ \A c \in Conn : /\ Rests(R[c]) => Rests(rs'[c])
                            /\ s = ready(c) /\ R[c].goaway => c \in shuttingDown'
                            /\ next = ready(c) => /\ rs'[c].hook = "manager"
                                                  /\ s # ready(c) => rs'[c].on = R[c].on
<1>1. s.t = "ready" => s.c \in Conn /\ s = ready(s.c)
  BY StateConn DEF TypeOK, ready
<1>2. next.t = "ready" => next.c \in Conn /\ next = ready(next.c)
  BY StateConn DEF ready
<1>3. s' = next /\ shuttingDown' = Maintained(R)
  BY DEF SetState
<1>4. shuttingDown \subseteq shuttingDown' /\ \A c \in Conn : s = ready(c) /\ R[c].goaway => c \in shuttingDown'
  BY <1>3 DEF Maintained, ready
<1>5. ASSUME NEW r \in ReadyClosure
      PROVE  /\ Rests(r) => /\ Rests([r EXCEPT !.hook = "shuttingDown"])
                            /\ Rests([Cleanup(r) EXCEPT !.hook = "none"])
                            /\ Rests([r EXCEPT !.hook = "manager"])
             /\ [r EXCEPT !.hook = "manager"].hook = "manager"
             /\ [r EXCEPT !.hook = "manager"].on = r.on
  BY DEF ReadyClosure, Rests, Cleanup
<1>6. /\ ExitReady(R) \in [Conn -> ReadyClosure]
      /\ \A c \in Conn : /\ Rests(R[c]) => Rests(ExitReady(R)[c])
                         /\ s # ready(c) => ExitReady(R)[c] = R[c]
  <2>1. ASSUME NEW r \in ReadyClosure
        PROVE  /\ [r EXCEPT !.hook = "shuttingDown"] \in ReadyClosure
               /\ [Cleanup(r) EXCEPT !.hook = "none"] \in ReadyClosure
    BY CleanupType, ClosureFields
  <2> QED BY <1>1, <1>5, <2>1 DEF ExitReady
<1>7. \/ next.t = "ready" /\ rs' = [ExitReady(R) EXCEPT ![next.c].hook = "manager"]
      \/ next.t # "ready" /\ rs' = ExitReady(R)
  BY DEF SetState
<1>8. ASSUME NEW c \in Conn
      PROVE  /\ Rests(R[c]) => Rests(rs'[c])
             /\ next = ready(c) => /\ rs'[c].hook = "manager"
                                   /\ s # ready(c) => rs'[c].on = R[c].on
  <2>1. CASE next.t # "ready"
    BY <1>6, <1>7, <2>1 DEF ready
  <2>2. CASE next.t = "ready" /\ next.c # c
    <3>1. rs'[c] = ExitReady(R)[c]
      BY <1>6, <1>7, <2>2
    <3> QED BY <1>6, <2>2, <3>1 DEF ready
  <2>3. CASE next.t = "ready" /\ next.c = c
    <3>1. rs'[c] = [ExitReady(R)[c] EXCEPT !.hook = "manager"]
      BY <1>6, <1>7, <2>3
    <3>2. ExitReady(R)[c] \in ReadyClosure
      BY <1>6
    <3>3. /\ Rests(ExitReady(R)[c]) => Rests(rs'[c])
          /\ rs'[c].hook = "manager" /\ rs'[c].on = ExitReady(R)[c].on
      BY <1>5, <3>1, <3>2
    <3> QED BY <1>6, <3>3
  <2> QED BY <2>1, <2>2, <2>3
<1> QED BY <1>3, <1>4, <1>8

\* The members of a queue of microtasks.
LEMMA JobMembers ==
  ASSUME NEW J \in Seq(Job)
  PROVE  /\ J # <<>> => \A n \in DOMAIN Tail(J) : \E m \in DOMAIN J : J[m] = Tail(J)[n]
         /\ \A j \in Job : \A n \in DOMAIN Append(J, j) :
              Append(J, j)[n] = j \/ \E m \in DOMAIN J : J[m] = Append(J, j)[n]
         /\ \A K \in Seq(Job) : \A n \in DOMAIN (J \o K) :
              \/ \E m \in DOMAIN J : J[m] = (J \o K)[n]
              \/ \E m \in DOMAIN K : K[m] = (J \o K)[n]
<1>1. ASSUME J # <<>>, NEW n \in DOMAIN Tail(J) PROVE \E m \in DOMAIN J : J[m] = Tail(J)[n]
  <2>1. n + 1 \in DOMAIN J /\ Tail(J)[n] = J[n + 1]
    BY <1>1
  <2> QED BY <2>1
<1>2. ASSUME NEW j \in Job, NEW n \in DOMAIN Append(J, j)
      PROVE  Append(J, j)[n] = j \/ \E m \in DOMAIN J : J[m] = Append(J, j)[n]
  <2>1. \/ n = Len(J) + 1 /\ Append(J, j)[n] = j
        \/ n \in DOMAIN J /\ Append(J, j)[n] = J[n]
    BY AppendProperties
  <2> QED BY <2>1
<1>3. ASSUME NEW K \in Seq(Job), NEW n \in DOMAIN (J \o K)
      PROVE  \/ \E m \in DOMAIN J : J[m] = (J \o K)[n]
             \/ \E m \in DOMAIN K : K[m] = (J \o K)[n]
  <2>1. \/ n \in DOMAIN J /\ (J \o K)[n] = J[n]
        \/ n - Len(J) \in DOMAIN K /\ (J \o K)[n] = K[n - Len(J)]
    BY ConcatProperties
  <2> QED BY <2>1
<1> QED BY <1>1, <1>2, <1>3

\* The reactions to promises of connect(), in a queue that is shortened or extended.
LEMMA OneSettledParts ==
  ASSUME NEW J \in Seq(Job), NEW S, NEW x, OneSettled(J, S, x)
  PROVE  /\ J # <<>> => /\ OneSettled(Tail(J), S, x)
                        /\ Head(J).k \notin {"pinged", "verified"}
                        /\ IsSettled(Head(J)) =>
                             /\ \A n \in DOMAIN Tail(J) : ~OpenDial(Tail(J)[n], S)
                             /\ \A c \in Conn : x # ready(c)
                        /\ OpenDial(Head(J), S) =>
                             /\ \A n \in DOMAIN Tail(J) : ~IsSettled(Tail(J)[n])
                             /\ x = connecting(Head(J).c)
         /\ \A K \in Seq(Job) :
              (\A n \in DOMAIN K : K[n].k \in {"wake", "resume"}) => OneSettled(J \o K, S, x)
<1>o. \A j : OpenDial(j, S) => IsSettled(j)
  BY DEF OpenDial, IsSettled
<1>1. ASSUME J # <<>>
      PROVE  /\ OneSettled(Tail(J), S, x)
             /\ Head(J).k \notin {"pinged", "verified"}
             /\ IsSettled(Head(J)) => /\ \A n \in DOMAIN Tail(J) : ~OpenDial(Tail(J)[n], S)
                                      /\ \A c \in Conn : x # ready(c)
             /\ OpenDial(Head(J), S) => /\ \A n \in DOMAIN Tail(J) : ~IsSettled(Tail(J)[n])
                                        /\ x = connecting(Head(J).c)
  <2>1. /\ Head(J) = J[1] /\ 1 \in DOMAIN J
        /\ \A n \in DOMAIN Tail(J) :
             n \in Nat /\ n + 1 # 1 /\ n + 1 \in DOMAIN J /\ Tail(J)[n] = J[n + 1]
    BY <1>1
  <2>2. \A m, n \in DOMAIN J : OpenDial(J[n], S) /\ IsSettled(J[m]) => m = n
    BY DEF OneSettled
  <2>3. ASSUME NEW m \in DOMAIN Tail(J), NEW n \in DOMAIN Tail(J),
               OpenDial(Tail(J)[n], S), IsSettled(Tail(J)[m])
        PROVE  m = n
    <3>1. m + 1 = n + 1
      BY <2>1, <2>2, <2>3
    <3> QED BY <2>1, <3>1
  <2>4. ASSUME NEW n \in DOMAIN Tail(J),
               \/ OpenDial(Tail(J)[n], S) /\ IsSettled(Head(J))
               \/ IsSettled(Tail(J)[n]) /\ OpenDial(Head(J), S)
        PROVE  FALSE
    <3>1. n + 1 = 1
      BY <2>1, <2>2, <2>4
    <3> QED BY <2>1, <3>1
  <2>5. /\ \A n \in DOMAIN Tail(J) : Tail(J)[n].k \notin {"pinged", "verified"}
        /\ \A n \in DOMAIN Tail(J) : IsSettled(Tail(J)[n]) => \A c \in Conn : x # ready(c)
        /\ \A n \in DOMAIN Tail(J) : OpenDial(Tail(J)[n], S) => x = connecting(Tail(J)[n].c)
        /\ Head(J).k \notin {"pinged", "verified"}
        /\ IsSettled(Head(J)) => \A c \in Conn : x # ready(c)
        /\ OpenDial(Head(J), S) => x = connecting(Head(J).c)
    BY <2>1 DEF OneSettled
  <2>6. OneSettled(Tail(J), S, x)
    BY <2>3, <2>5 DEF OneSettled
  <2> QED BY <2>4, <2>5, <2>6
<1>2. ASSUME NEW K \in Seq(Job), \A n \in DOMAIN K : K[n].k \in {"wake", "resume"}
      PROVE  OneSettled(J \o K, S, x)
  <2>1. \A n \in DOMAIN (J \o K) :
          \/ n \in DOMAIN J /\ (J \o K)[n] = J[n]
          \/ n - Len(J) \in DOMAIN K /\ (J \o K)[n] = K[n - Len(J)]
    BY ConcatProperties
  <2>2. \A n \in DOMAIN (J \o K) :
          \/ n \in DOMAIN J /\ (J \o K)[n] = J[n]
          \/ (J \o K)[n].k \in {"wake", "resume"}
    BY <1>2, <2>1
  <2> QED BY <2>2 DEF OneSettled, IsSettled, OpenDial
<1> QED BY <1>1, <1>2

\* Other sessions Z, among which the connection of the state x is not open: no
\* reaction makes a connection ready,
LEMMA NoneOpens ==
  ASSUME NEW J \in Seq(Job), NEW S, NEW Z, NEW x, OneSettled(J, S, x),
         \A c \in Conn : Z[c].st = "open" => S[c].st = "open" /\ x # connecting(c)
  PROVE  \A n \in DOMAIN J : ~OpenDial(J[n], Z)
<1>1. \A n \in DOMAIN J : J[n].k = "dialled" => J[n].c \in Conn
  <2>1. \A n \in DOMAIN J : J[n] \in Job
    OBVIOUS
  <2> QED BY <2>1 DEF Job
<1> QED BY <1>1 DEF OneSettled, OpenDial

\* and every other state will do that is not ready.
LEMMA Resettled ==
  ASSUME NEW J \in Seq(Job), NEW S, NEW Z, NEW x, NEW y, OneSettled(J, S, x),
         \A c \in Conn : Z[c].st = "open" => S[c].st = "open" /\ x # connecting(c),
         \A c \in Conn : y # ready(c)
  PROVE  OneSettled(J, Z, y)
<1>1. \A n \in DOMAIN J : ~OpenDial(J[n], Z)
  BY NoneOpens
<1> QED BY <1>1 DEF OneSettled

\* Sessions of which none has opened.
LEMMA SameState ==
  ASSUME NEW J \in Seq(Job), NEW S, NEW Z, NEW x, OneSettled(J, S, x),
         \A c \in Conn : Z[c].st = "open" => S[c].st = "open"
  PROVE  OneSettled(J, Z, x)
<1>1. \A n \in DOMAIN J : J[n].k = "dialled" => J[n].c \in Conn
  <2>1. \A n \in DOMAIN J : J[n] \in Job
    OBVIOUS
  <2> QED BY <2>1 DEF Job
<1>2. \A n \in DOMAIN J : OpenDial(J[n], Z) => OpenDial(J[n], S)
  BY <1>1 DEF OpenDial
<1> QED BY <1>2 DEF OneSettled

\* A reaction to a promise of connect() that failed or was aborted.
LEMMA AppendFailed ==
  ASSUME NEW J \in Seq(Job), NEW S, NEW x, OneSettled(J, S, x), NEW j \in Job,
         j.k = "dialFailed", \A n \in DOMAIN J : ~OpenDial(J[n], S), \A c \in Conn : x # ready(c)
  PROVE  OneSettled(Append(J, j), S, x)
<1>1. \A n \in DOMAIN Append(J, j) :
        \/ n \in DOMAIN J /\ Append(J, j)[n] = J[n]
        \/ Append(J, j)[n] = j
  BY AppendProperties
<1> QED BY <1>1 DEF OneSettled, OpenDial

\* Callers that go on waiting: the closures of connect() and verify() and the
\* microtasks.
LEMMA AwaitTracks ==
  ASSUME NEW now \in StateObject, NEW q \in Seq(Caller), NEW D \in [Conn -> DialClosure],
         NEW V \in [Conn -> VerifyPromise], NEW C \in [Caller -> CallState],
         NEW J \in Seq(Job), Await(now, q, D, V, C, J), NEW S, NEW x, OneSettled(J, S, x)
  PROVE  /\ OneSettled(jobs', S, x)
         /\ \A n \in DOMAIN jobs' : \/ \E m \in DOMAIN J : J[m] = jobs'[n]
                                    \/ jobs'[n].k = "wake"
                                    \/ jobs'[n].k = "resume" /\ now = ready(jobs'[n].c)
         /\ \A c \in Conn : dial'[c].on = D[c].on
<1>0. PICK K \in Seq(Job) : jobs' = J \o K /\ Woken(K, now)
  BY AwaitJobs
<1>1. /\ jobs' = J \o K
      /\ \A n \in DOMAIN K : /\ K[n].k \in {"wake", "resume"}
                             /\ K[n].k = "resume" => now = ready(K[n].c)
  BY <1>0 DEF Woken
<1>2. OneSettled(jobs', S, x)
  BY <1>1, OneSettledParts
<1>3. ASSUME NEW n \in DOMAIN jobs'
      PROVE  \/ \E m \in DOMAIN J : J[m] = jobs'[n]
             \/ jobs'[n].k = "wake"
             \/ jobs'[n].k = "resume" /\ now = ready(jobs'[n].c)
  <2>1. \/ \E m \in DOMAIN J : J[m] = jobs'[n]
        \/ \E m \in DOMAIN K : K[m] = jobs'[n]
    BY <1>1, JobMembers
  <2> QED BY <1>1, <2>1
<1>4. \/ dial' = D
      \/ now.c \in Conn /\ dial' = [D EXCEPT ![now.c].q = @ \o q]
  BY StateConn DEF Await
<1>5. ASSUME NEW c \in Conn PROVE dial'[c].on = D[c].on
  <2>1. ASSUME NEW d \in DialClosure, NEW z PROVE [d EXCEPT !.q = z].on = d.on
    BY DEF DialClosure
  <2>2. \/ dial' = D
        \/ \E d \in Conn : dial' = [D EXCEPT ![d] = [D[d] EXCEPT !.q = D[d].q \o q]]
    BY Zenon, <1>4
  <2>3. ASSUME NEW d \in Conn, dial' = [D EXCEPT ![d] = [D[d] EXCEPT !.q = D[d].q \o q]]
        PROVE  dial'[c].on = D[c].on
    <3> DEFINE y == [D[d] EXCEPT !.q = D[d].q \o q]
    <3>1. dial' = [D EXCEPT ![d] = y]
      BY <2>3
    <3>2. y.on = D[d].on
      BY <2>1
    <3> HIDE DEF y
    <3> QED BY <3>1, <3>2
  <2> QED BY <2>2, <2>3
<1> QED BY <1>2, <1>3, <1>5

\* Streams that were open, or about to open, on a connection that is tracked.
LEMMA StillTracked ==
  ASSUME StreamsTracked,
         \A w \in Caller, c \in Conn : HasStream(w, c)' => HasStream(w, c) \/ Tracked(c)',
         \A n \in DOMAIN jobs' : jobs'[n].k = "resume" =>
           \E c \in Conn : /\ jobs'[n].c = c
                           /\ (\E m \in DOMAIN jobs : jobs[m] = jobs'[n]) \/ Tracked(c)',
         \A c \in Conn : Tracked(c) => \/ Tracked(c)'
                                       \/ (\A w \in Caller : ~HasStream(w, c)) /\ jobs' = <<>>
  PROVE  StreamsTracked'
<1>1. ASSUME NEW w \in Caller, NEW c \in Conn, HasStream(w, c)' PROVE Tracked(c)'
  <2>1. HasStream(w, c) => Tracked(c)
    BY Zenon DEF StreamsTracked
  <2> QED BY Zenon, <1>1, <2>1
<1>2. ASSUME NEW n \in DOMAIN jobs', jobs'[n].k = "resume" PROVE \E c \in Conn : jobs'[n].c = c /\ Tracked(c)'
  <2>1. PICK c \in Conn : /\ jobs'[n].c = c
                          /\ (\E m \in DOMAIN jobs : jobs[m] = jobs'[n]) \/ Tracked(c)'
    BY <1>2
  <2>2. (\E m \in DOMAIN jobs : jobs[m] = jobs'[n]) => Tracked(c)
    BY <1>2, <2>1 DEF StreamsTracked
  <2>3. jobs' # <<>>
    BY <1>2
  <2> QED BY Zenon, <2>1, <2>2, <2>3
<1>3. \A n \in DOMAIN jobs' : jobs'[n].k = "resume" => Tracked(jobs[n].c)'
  BY <1>2
<1> QED BY <1>1, <1>3 DEF StreamsTracked

\* The microtasks name connections.
LEMMA ResumeConns ==
  ASSUME NEW J \in Seq(Job)
  PROVE  \A n \in DOMAIN J : J[n] \in Job /\ (J[n].k = "resume" => J[n].c \in Conn)
<1>1. \A n \in DOMAIN J : J[n] \in Job
  OBVIOUS
<1> QED BY <1>1 DEF Job

\* In a ready state no reaction to a promise of connect() is due.
LEMMA NotDialling ==
  ASSUME NEW J, NEW S, NEW c \in Conn, OneSettled(J, S, ready(c))
  PROVE  \A Z, y : OneSettled(J, Z, y)
<1>1. \A n \in DOMAIN J : J[n].k \notin {"pinged", "verified"} /\ ~IsSettled(J[n])
  BY DEF OneSettled
<1> QED BY <1>1 DEF OneSettled, IsSettled, OpenDial

\* Callers that go on waiting, or are handed the current connection.
LEMMA AwaitStepTracks ==
  ASSUME Inv, TypeOK', TrackInv, NEW q \in Seq(Caller), NEW C \in [Caller -> CallState],
         NEW J \in Seq(Job), Await(s, q, dial, ver, C, J),
         UNCHANGED <<s, shuttingDown, rs, sess>>, OneSettled(J, sess, s),
         \A x \in Caller : C[x].st = "open" => C[x] = call[x],
         \A n \in DOMAIN J : \E m \in DOMAIN jobs : jobs[m] = J[n]
  PROVE  TrackInv'
<1>t. /\ s \in StateObject /\ dial \in [Conn -> DialClosure] /\ ver \in [Conn -> VerifyPromise]
      /\ jobs' \in Seq(Job)
  BY DEF Inv, TypeOK
<1>f. /\ s.t # "verifying" /\ NeverPings(rs, sess, ver) /\ Listens(dial, s)
      /\ ReadyHeard(rs, sess, s) /\ StreamsTracked
  BY DEF TrackInv
<1>r. \A n \in DOMAIN jobs' : jobs'[n].k = "resume" => jobs'[n].c \in Conn
  BY <1>t, ResumeConns
<1>1. /\ OneSettled(jobs', sess, s)
      /\ \A n \in DOMAIN jobs' : \/ \E m \in DOMAIN J : J[m] = jobs'[n]
                                 \/ jobs'[n].k = "wake"
                                 \/ jobs'[n].k = "resume" /\ s = ready(jobs'[n].c)
      /\ \A c \in Conn : dial'[c].on = dial[c].on
  BY <1>t, AwaitTracks
<1>2. Listens(dial', s') /\ OneSettled(jobs', sess', s')
  BY <1>f, <1>1 DEF Listens
<1>3. /\ \A x \in Caller : call'[x] = C[x] \/ (call'[x].st # "open" /\ C[x].st # "open")
      /\ \A c \in Conn : ver'[c].p = ver[c].p
  BY <1>t, AwaitKeeps
<1>4. NeverPings(rs', sess', ver')
  BY <1>f, <1>3 DEF NeverPings
<1>5. StreamsTracked'
  <2>1. \A x \in Caller, c \in Conn : HasStream(x, c)' => HasStream(x, c)
    BY <1>3 DEF HasStream
  <2>2. \A c \in Conn : (Tracked(c) => Tracked(c)') /\ (s = ready(c) => Tracked(c)')
    BY DEF Tracked
  <2>3. \A n \in DOMAIN jobs' : jobs'[n].k = "resume" =>
          (\E m \in DOMAIN jobs : jobs[m] = jobs'[n]) \/ s = ready(jobs'[n].c)
    BY <1>1
  <2>4. ASSUME NEW n \in DOMAIN jobs', jobs'[n].k = "resume"
        PROVE  \E c \in Conn : /\ jobs'[n].c = c
                               /\ (\E m \in DOMAIN jobs : jobs[m] = jobs'[n]) \/ Tracked(c)'
    BY <1>r, <2>2, <2>3, <2>4
  <2> QED BY <1>f, <2>1, <2>2, <2>4, StillTracked
<1> QED BY <1>f, <1>2, <1>4, <1>5 DEF TrackInv

\* The state that is left has no listeners any more.
LEMMA ExitDialSilent ==
  ASSUME TypeOK, NEW D \in [Conn -> DialClosure], Listens(D, s)
  PROVE  \A c \in Conn : ~ExitDial(D)[c].on
<1>1. CASE s.t = "connecting"
  <2>1. s.c \in Conn /\ s = connecting(s.c)
    BY <1>1, StateConn DEF TypeOK, connecting
  <2>2. \A c \in Conn : c # s.c => ~D[c].on
    BY <2>1 DEF Listens, connecting
  <2>3. ASSUME NEW d \in DialClosure PROVE ~[d EXCEPT !.on = FALSE].on
    BY DEF DialClosure
  <2>4. ExitDial(D) = [D EXCEPT ![s.c] = [D[s.c] EXCEPT !.on = FALSE]]
    BY <1>1 DEF ExitDial
  <2> QED BY <2>1, <2>2, <2>3, <2>4
<1>2. CASE s.t # "connecting"
  BY <1>2 DEF ExitDial, Listens, connecting
<1> QED BY <1>1, <1>2

\* A caller that enters gotoReady().
LEMMA GotoReadyTracks ==
  ASSUME Inv, TypeOK', TrackInv, NEW w \in Caller, NEW op \in Op, NEW J \in Seq(Job),
         GotoReady(w, op, J), OneSettled(J, sess, s),
         \A n \in DOMAIN J : \E m \in DOMAIN jobs : jobs[m] = J[n]
  PROVE  TrackInv'
<1> DEFINE C == [call EXCEPT ![w] = Pending(op)]
<1>t. /\ s \in StateObject /\ dial \in [Conn -> DialClosure] /\ ver \in [Conn -> VerifyPromise]
      /\ sess \in [Conn -> NodeSession] /\ <<w>> \in Seq(Caller) /\ rs \in [Conn -> ReadyClosure]
      /\ call \in [Caller -> CallState] /\ jobs' \in Seq(Job) /\ TypeOK
  BY DEF Inv, TypeOK
<1>f. /\ s.t # "verifying" /\ NeverPings(rs, sess, ver) /\ Listens(dial, s)
      /\ ReadyHeard(rs, sess, s) /\ StreamsTracked
  BY DEF TrackInv
<1>c. C \in [Caller -> CallState] /\ \A x \in Caller : C[x].st = "open" => C[x] = call[x]
  BY <1>t DEF Pending, CallState
<1>r. \A n \in DOMAIN jobs' : jobs'[n].k = "resume" => jobs'[n].c \in Conn
  BY <1>t, ResumeConns
<1> HIDE DEF C
<1>1. CASE /\ NeedsDial /\ Fresh # {} /\ sess' = Opening(NewConn) /\ SetState(connecting(NewConn), rs)
           /\ Await(connecting(NewConn), <<w>>, Dialling(dial, NewConn), ver, C, J)
  <2> DEFINE D == Dialling(dial, NewConn)
             now == connecting(NewConn)
  <2>1. now \in StateObject /\ NewConn \in Conn /\ NewConn \in Fresh /\ D \in [Conn -> DialClosure]
    BY <1>1, <1>t, NewConnType, StateTypes, DiallingType
  <2>2. \A c \in Conn : s # connecting(c)
    BY <1>1 DEF NeedsDial, connecting
  <2>3. now.t = "connecting" /\ \A c \in Conn : now # ready(c) /\ (now = connecting(c) => c = NewConn)
    BY DEF connecting, ready
  <2>5. Listens(D, now)
    BY <1>f, <1>t, <2>1, <2>2 DEF Listens, Dialling
  <2>6. Await(now, <<w>>, D, ver, C, J)
    BY <1>1
  <2>7. SetState(now, rs) /\ s' = now
    BY <1>1 DEF SetState
  <2>8. /\ \A c \in Conn : sess'[c].pings = sess[c].pings /\ (c # NewConn => sess'[c].st = sess[c].st)
        /\ sess[NewConn].st = "none"
    BY <1>1, <1>t, <2>1 DEF Opening, NodeSession, Fresh
  <2>o. \A c \in Conn : sess'[c].st = "open" => sess[c].st = "open" /\ s # connecting(c)
    BY <1>1, <1>t, <2>1, <2>2 DEF Opening, NodeSession
  <2> HIDE DEF D, now
  <2>4. OneSettled(J, sess', now)
    BY <2>2, <2>3, <2>o, Resettled
  <2>t. /\ now \in StateObject /\ <<w>> \in Seq(Caller) /\ D \in [Conn -> DialClosure]
        /\ ver \in [Conn -> VerifyPromise] /\ C \in [Caller -> CallState]
    BY <1>t, <1>c, <2>1
  <2>9. /\ OneSettled(jobs', sess', now)
        /\ \A n \in DOMAIN jobs' : \/ \E m \in DOMAIN J : J[m] = jobs'[n]
                                   \/ jobs'[n].k = "wake"
                                   \/ jobs'[n].k = "resume" /\ now = ready(jobs'[n].c)
        /\ \A c \in Conn : dial'[c].on = D[c].on
    BY <2>t, <2>4, <2>6, AwaitTracks
  <2>10. Listens(dial', s') /\ OneSettled(jobs', sess', s')
    BY <2>5, <2>7, <2>9 DEF Listens
  <2>11. /\ \A x \in Caller : call'[x] = C[x] \/ (call'[x].st # "open" /\ C[x].st # "open")
         /\ \A c \in Conn : ver'[c].p = ver[c].p
    BY <2>t, <2>6, AwaitKeeps
  <2>12. /\ shuttingDown \subseteq shuttingDown'
         /\ \A c \in Conn : /\ Rests(rs[c]) => Rests(rs'[c])
                            /\ s = ready(c) /\ rs[c].goaway => c \in shuttingDown'
    BY <1>t, <2>1, <2>7, SetStateTracks
  <2>13. NeverPings(rs', sess', ver')
    <3>1. \A c \in Conn : /\ Rests(rs[c]) => Rests(rs'[c])
                          /\ sess'[c].pings \in {sess[c].pings, <<>>}
                          /\ ver'[c].p = ver[c].p
      BY <2>8, <2>11, <2>12
    <3> QED BY <1>f, <3>1 DEF NeverPings
  <2>14. ReadyHeard(rs', sess', s')
    BY <2>3, <2>7 DEF ReadyHeard
  <2>15. ASSUME NEW c \in Conn, Tracked(c) PROVE Tracked(c)'
    <3>1. CASE sess[c].st = "destroyed"
      BY <2>8, <3>1 DEF Tracked
    <3>2. CASE s = ready(c)
      <4>1. rs[c].goaway \/ sess[c].st \in {"closing", "destroyed"}
        BY <1>1, <3>2 DEF NeedsDial, ready, Unusable
      <4>2. rs[c].goaway \/ sess[c].st = "destroyed"
        BY <1>f, <3>2, <4>1 DEF ReadyHeard
      <4>3. rs[c].goaway => c \in shuttingDown'
        BY <2>12, <3>2
      <4>4. c \in shuttingDown' => Tracked(c)'
        BY DEF Tracked
      <4> QED BY Zenon, <3>1, <4>2, <4>3, <4>4
    <3>3. CASE c \in shuttingDown
      BY <2>12, <3>3 DEF Tracked
    <3> QED BY <2>15, <3>1, <3>2, <3>3 DEF Tracked
  <2>16. StreamsTracked'
    <3>1. \A x \in Caller, c \in Conn : HasStream(x, c)' => HasStream(x, c)
      BY <1>c, <2>11 DEF HasStream
    <3>2. \A n \in DOMAIN jobs' : jobs'[n].k = "resume" => \E m \in DOMAIN jobs : jobs[m] = jobs'[n]
      BY <1>r, <2>3, <2>9
    <3> QED BY <1>f, <1>r, <2>15, <3>1, <3>2, StillTracked
  <2>17. s'.t # "verifying"
    BY <2>3, <2>7
  <2> QED BY <2>10, <2>13, <2>14, <2>16, <2>17 DEF TrackInv
<1>2. CASE s.t = "ready" /\ rs[s.c].stale
  <2>1. s.c \in Conn
    BY <1>2, <1>t, StateConn
  <2> QED BY <1>2, <1>f, <2>1 DEF NeverPings, Rests
<1>3. CASE Await(s, <<w>>, dial, ver, C, J) /\ UNCHANGED <<s, shuttingDown, rs, sess>>
  BY <1>3, <1>t, <1>c, AwaitStepTracks
<1> QED BY <1>1, <1>2, <1>3 DEF GotoReady, C

\* A step of a stream: the manager, its promises and its sessions stay as they
\* are, and so do the listeners and hooks of every connection.
LEMMA StreamTracks ==
  ASSUME Inv, TypeOK', TrackInv, UNCHANGED <<s, shuttingDown, dial, ver, sess>>,
         OneSettled(jobs', sess, s),
         \A n \in DOMAIN jobs' : \E m \in DOMAIN jobs : jobs[m] = jobs'[n],
         \A w \in Caller, c \in Conn : HasStream(w, c)' => HasStream(w, c) \/ Tracked(c),
         \A c \in Conn : /\ Rests(rs[c]) => Rests(rs'[c])
                         /\ rs'[c].on = rs[c].on /\ rs'[c].hook = rs[c].hook
                         /\ rs'[c].goaway = rs[c].goaway
  PROVE  TrackInv'
<1>f. /\ s.t # "verifying" /\ NeverPings(rs, sess, ver) /\ Listens(dial, s)
      /\ ReadyHeard(rs, sess, s) /\ StreamsTracked
  BY DEF TrackInv
<1>r. \A n \in DOMAIN jobs' : jobs'[n].k = "resume" => jobs'[n].c \in Conn
  BY ResumeConns DEF TypeOK
<1>1. NeverPings(rs', sess', ver')
  BY <1>f DEF NeverPings
<1>2. ReadyHeard(rs', sess', s')
  BY <1>f DEF ReadyHeard
<1>3. \A c \in Conn : Tracked(c) => Tracked(c)'
  BY DEF Tracked
<1>4. StreamsTracked'
  BY <1>f, <1>r, <1>3, StillTracked
<1> QED BY <1>f, <1>1, <1>2, <1>4 DEF TrackInv

\* A response or the end of a stream, on connection d.
LEMMA OneRests ==
  ASSUME TypeOK, NeverPings(rs, sess, ver), ~Keepalive, NEW d \in Conn,
         \/ rs' = [rs EXCEPT ![d] = ResetPingInterval(Alive(@))]
         \/ rs' = [rs EXCEPT ![d] = RegisterRequest(@)]
         \/ rs[d].streams > 0 /\ rs' = [rs EXCEPT ![d] = StreamClosed(@)]
  PROVE  \A c \in Conn : /\ Rests(rs[c]) => Rests(rs'[c])
                         /\ rs'[c].on = rs[c].on /\ rs'[c].hook = rs[c].hook
                         /\ rs'[c].goaway = rs[c].goaway
<1>1. rs \in [Conn -> ReadyClosure] /\ rs[d] \in ReadyClosure /\ Rests(rs[d])
  BY DEF TypeOK, NeverPings
<1>2. /\ \A c \in Conn : c # d => rs'[c] = rs[c]
      /\ \/ rs'[d] \in {ResetPingInterval(Alive(rs[d])), RegisterRequest(rs[d])}
         \/ rs[d].streams > 0 /\ rs'[d] = StreamClosed(rs[d])
  BY <1>1
<1>3. /\ Rests(rs'[d]) /\ rs'[d].on = rs[d].on /\ rs'[d].hook = rs[d].hook
      /\ rs'[d].goaway = rs[d].goaway
  BY <1>1, <1>2, RestOperators
<1> QED BY <1>2, <1>3

\* abort() destroys every connection that it reaches, and the one that connects:
\* a reaction that is already queued makes no connection ready.
LEMMA AbortTracks ==
  ASSUME Inv, TypeOK', TrackInv, NEW err \in {"cancel", "error"}, Abort(err)
  PROVE  TrackInv'
<1> DEFINE current == IF s.t \in {"ready", "verifying"} THEN {s.c} ELSE {}
           hit == {c \in current \cup shuttingDown : sess[c].st # "destroyed"}
           R == [c \in Conn |-> IF c \in hit
                                THEN [rs[c] EXCEPT !.errOnce = TRUE, !.pingTimeout = FALSE]
                                ELSE rs[c]]
           rejects == s.t = "connecting" /\ dial[s.c].p = "pending"
           D == IF rejects THEN [dial EXCEPT ![s.c].p = "rejected", ![s.c].q = <<>>] ELSE dial
           next == closedOrError(err)
<1>t. /\ TypeOK /\ s \in StateObject /\ dial \in [Conn -> DialClosure] /\ jobs \in Seq(Job)
      /\ sess \in [Conn -> NodeSession] /\ rs \in [Conn -> ReadyClosure] /\ jobs' \in Seq(Job)
  BY DEF Inv, TypeOK
<1>f. /\ s.t # "verifying" /\ NeverPings(rs, sess, ver) /\ Listens(dial, s)
      /\ OneSettled(jobs, sess, s) /\ ReadyHeard(rs, sess, s) /\ StreamsTracked
  BY DEF TrackInv
<1>1. R \in [Conn -> ReadyClosure] /\ \A c \in Conn : Rests(R[c])
  <2>1. ASSUME NEW r \in ReadyClosure, Rests(r)
        PROVE  LET x == [r EXCEPT !.errOnce = TRUE, !.pingTimeout = FALSE]
               IN x \in ReadyClosure /\ Rests(x)
    BY <2>1 DEF ReadyClosure, Rests
  <2>2. \A c \in Conn : Rests(rs[c])
    BY <1>f DEF NeverPings
  <2> HIDE DEF hit
  <2> QED BY <1>t, <2>1, <2>2
<1>2. next \in StateObject /\ next.t # "verifying" /\ \A c \in Conn : next # ready(c)
  BY DEF closedOrError, closed, error, ready, StateObject
<1>3. /\ SetState(next, R) /\ UNCHANGED <<ver, call>> /\ dial' = ExitDial(D)
      /\ sess' = [c \in Conn |->
                    IF c \in hit THEN Destroyed(sess[c], err)
                    ELSE IF s = connecting(c) THEN Destroyed(sess[c], "close") ELSE sess[c]]
  BY DEF Abort
<1>4. \/ jobs' = jobs
      \/ \E j \in Job : j.k = "dialFailed" /\ jobs' = Append(jobs, j)
  <2>1. CASE rejects
    <3> DEFINE j == [k |-> "dialFailed", err |-> err, q |-> dial[s.c].q]
    <3>1. s.c \in Conn /\ dial[s.c].q \in Seq(Caller)
      BY <1>t, <2>1, StateConn DEF DialClosure
    <3>2. j \in Job /\ j.k = "dialFailed"
      BY <3>1 DEF Job
    <3>3. jobs' = Append(jobs, j)
      BY <2>1 DEF Abort
    <3> QED BY <3>2, <3>3
  <2>2. CASE ~rejects
    BY <2>2 DEF Abort
  <2> QED BY <2>1, <2>2
<1>5. \A c \in Conn : /\ sess'[c].pings \in {sess[c].pings, <<>>}
                      /\ sess[c].st = "destroyed" => sess'[c].st = "destroyed"
                      /\ sess'[c].st = "open" => sess[c].st = "open" /\ s # connecting(c)
                      /\ s = ready(c) \/ c \in shuttingDown => sess'[c].st = "destroyed"
  <2>1. ASSUME NEW x \in NodeSession, NEW ev
        PROVE  Destroyed(x, ev).st = "destroyed" /\ Destroyed(x, ev).pings \in {x.pings, <<>>}
    BY DEF Destroyed, NodeSession
  <2>2. \A c \in Conn : s = ready(c) \/ c \in shuttingDown => c \in hit \/ sess[c].st = "destroyed"
    BY DEF ready
  <2>3. \A c \in Conn : s = ready(c) => ~(s = connecting(c))
    BY DEF ready, connecting
  <2> HIDE DEF hit
  <2> QED BY <1>t, <1>3, <2>1, <2>2, <2>3
<1>6. \A c \in Conn : ~dial'[c].on
  <2>1. \A c \in Conn : D[c].on => s = connecting(c)
    <3>1. CASE rejects
      <4>1. ASSUME NEW d \in DialClosure
            PROVE  [d EXCEPT !.p = "rejected", !.q = <<>>].on = d.on
        BY DEF DialClosure
      <4>2. D = [dial EXCEPT ![s.c] = [dial[s.c] EXCEPT !.p = "rejected", !.q = <<>>]] /\ s.c \in Conn
        BY <1>t, <3>1, StateConn
      <4>3. \A c \in Conn : D[c].on = dial[c].on
        BY <1>t, <4>1, <4>2
      <4> QED BY <1>f, <4>3 DEF Listens
    <3>2. CASE ~rejects
      BY <1>f, <3>2 DEF Listens
    <3> QED BY <3>1, <3>2
  <2>2. D \in [Conn -> DialClosure]
    <3>1. CASE rejects
      <4>1. ASSUME NEW d \in DialClosure
            PROVE  [d EXCEPT !.p = "rejected", !.q = <<>>] \in DialClosure
        <5>1. <<>> \in Seq(Caller)
          OBVIOUS
        <5> QED BY <5>1 DEF DialClosure
      <4>2. D = [dial EXCEPT ![s.c] = [dial[s.c] EXCEPT !.p = "rejected", !.q = <<>>]] /\ s.c \in Conn
        BY <1>t, <3>1, StateConn
      <4> QED BY <1>t, <4>1, <4>2
    <3>2. CASE ~rejects
      BY <1>t, <3>2
    <3> QED BY <3>1, <3>2
  <2> HIDE DEF D
  <2>3. Listens(D, s)
    BY <2>1 DEF Listens
  <2> QED BY <1>3, <1>t, <2>2, <2>3, ExitDialSilent
<1> HIDE DEF R, hit, current, rejects, D, next
<1>7. /\ s' = next /\ \A c \in Conn : Rests(rs'[c])
  BY <1>t, <1>1, <1>2, <1>3, SetStateTracks
<1>8. OneSettled(jobs, sess', s') /\ \A n \in DOMAIN jobs : ~OpenDial(jobs[n], sess')
  <2>1. jobs \in Seq(Job) /\ OneSettled(jobs, sess, s)
    BY <1>t, <1>f
  <2>2. \A c \in Conn : sess'[c].st = "open" => sess[c].st = "open" /\ s # connecting(c)
    BY <1>5
  <2>3. \A c \in Conn : s' # ready(c)
    BY <1>2, <1>7
  <2>4. OneSettled(jobs, sess', s')
    BY <2>1, <2>2, <2>3, Resettled
  <2>5. \A n \in DOMAIN jobs : ~OpenDial(jobs[n], sess')
    BY <2>1, <2>2, NoneOpens
  <2> QED BY <2>4, <2>5
<1>9. OneSettled(jobs', sess', s')
  <2>1. \A c \in Conn : s' # ready(c)
    BY <1>2, <1>7
  <2>2. ASSUME NEW j \in Job, j.k = "dialFailed" PROVE OneSettled(Append(jobs, j), sess', s')
    BY <1>t, <1>8, <2>1, <2>2, AppendFailed
  <2> QED BY <1>4, <1>8, <2>2
<1>10. NeverPings(rs', sess', ver')
  <2>1. \A c \in Conn : sess[c].pings = <<>> /\ ver[c].p = "none"
    BY <1>f DEF NeverPings
  <2>2. \A c \in Conn : sess'[c].pings = <<>> /\ ver'[c].p = "none"
    BY <1>3, <1>5, <2>1
  <2> QED BY <1>7, <2>2 DEF NeverPings
<1>11. ReadyHeard(rs', sess', s') /\ Listens(dial', s') /\ s'.t # "verifying"
  BY <1>2, <1>6, <1>7 DEF ReadyHeard, Listens
<1>12. StreamsTracked'
  <2>1. \A w \in Caller, c \in Conn : HasStream(w, c)' => HasStream(w, c)
    BY <1>3 DEF HasStream
  <2>2. \A c \in Conn : Tracked(c) => Tracked(c)'
    BY <1>5 DEF Tracked
  <2>3. \A n \in DOMAIN jobs' : jobs'[n].k = "resume" => \E m \in DOMAIN jobs : jobs[m] = jobs'[n]
    <3>1. ASSUME NEW j \in Job, j.k = "dialFailed", jobs' = Append(jobs, j), NEW n \in DOMAIN jobs',
                 jobs'[n].k = "resume"
          PROVE  \E m \in DOMAIN jobs : jobs[m] = jobs'[n]
      <4>1. jobs'[n] = j \/ \E m \in DOMAIN jobs : jobs[m] = jobs'[n]
        BY <1>t, <3>1, JobMembers
      <4> QED BY <3>1, <4>1
    <3> QED BY <1>4, <3>1
  <2>4. \A n \in DOMAIN jobs' : jobs'[n].k = "resume" => jobs'[n].c \in Conn
    BY <1>t, ResumeConns
  <2> QED BY <1>f, <2>1, <2>2, <2>3, <2>4, StillTracked
<1> QED BY <1>9, <1>10, <1>11, <1>12 DEF TrackInv

\* Calls of the application.
LEMMA UserTracks ==
  ASSUME Inv, TypeOK', TrackInv, ~Keepalive, User
  PROVE  TrackInv'
<1>f. NeverPings(rs, sess, ver) /\ OneSettled(jobs, sess, s) /\ ~Keepalive /\ TypeOK
  BY DEF TrackInv, Inv
<1>1. ASSUME NEW w \in Caller, NotifyResponseByteRead(w) PROVE TrackInv'
  <2>1. /\ UNCHANGED <<s, shuttingDown, dial, ver, sess, call, jobs>>
        /\ call[w].st = "open" /\ rs' = [rs EXCEPT ![call[w].c] = ResetPingInterval(Alive(@))]
    BY <1>1 DEF NotifyResponseByteRead
  <2>2. call[w].c \in Conn
    BY <1>f, <2>1, OpenStreamCounted DEF Inv
  <2>3. \A c \in Conn : /\ Rests(rs[c]) => Rests(rs'[c])
                        /\ rs'[c].on = rs[c].on /\ rs'[c].hook = rs[c].hook
                        /\ rs'[c].goaway = rs[c].goaway
    BY <1>f, <2>1, <2>2, OneRests
  <2>4. \A x \in Caller, c \in Conn : HasStream(x, c)' => HasStream(x, c)
    BY <2>1 DEF HasStream
  <2> QED BY <1>f, <2>1, <2>3, <2>4, StreamTracks
<1>2. ASSUME NEW w \in Caller, NEW op \in Op, Call(w, op) PROVE TrackInv'
  <2>1. GotoReady(w, op, jobs) /\ jobs \in Seq(Job)
    BY <1>f, <1>2 DEF Call, TypeOK
  <2> QED BY <1>f, <2>1, GotoReadyTracks
<1>3. ASSUME NEW err \in {"cancel", "error"}, Abort(err) PROVE TrackInv'
  BY <1>3, AbortTracks
<1> QED BY <1>1, <1>2, <1>3 DEF User

\* Events of streams.
LEMMA StreamStepTracks ==
  ASSUME Inv, TypeOK', TrackInv, ~Keepalive, Stream
  PROVE  TrackInv'
<1>f. NeverPings(rs, sess, ver) /\ OneSettled(jobs, sess, s) /\ ~Keepalive /\ TypeOK
  BY DEF TrackInv, Inv
<1>1. PICK w \in Caller : OnResponse(w) \/ OnStreamClose(w)
  BY DEF Stream
<1>2. /\ UNCHANGED <<s, shuttingDown, dial, ver, sess, jobs>>
      /\ call[w].st = "open"
      /\ \/ rs' = [rs EXCEPT ![call[w].c] = ResetPingInterval(Alive(@))]
         \/ rs' = [rs EXCEPT ![call[w].c] = StreamClosed(@)]
      /\ call' = [call EXCEPT ![w].heard = TRUE] \/ call' = [call EXCEPT ![w] = Idle]
  BY <1>1 DEF OnResponse, OnStreamClose
<1>3. call[w].c \in Conn /\ rs[call[w].c].streams > 0
  BY <1>f, <1>2, OpenStreamCounted DEF Inv
<1>4. \A c \in Conn : /\ Rests(rs[c]) => Rests(rs'[c])
                      /\ rs'[c].on = rs[c].on /\ rs'[c].hook = rs[c].hook
                      /\ rs'[c].goaway = rs[c].goaway
  BY <1>f, <1>2, <1>3, OneRests
<1>5. \A x \in Caller, c \in Conn : HasStream(x, c)' => HasStream(x, c)
  BY <1>f, <1>2 DEF TypeOK, CallState, Idle, HasStream
<1> QED BY <1>f, <1>2, <1>4, <1>5, StreamTracks

\* The hook of a connection that ends moves the manager only from that
\* connection, and leaves no trace of it but a note of its GOAWAY.
LEMMA HookEffect ==
  ASSUME Inv, TrackInv, NEW c \in Conn, NEW next \in {closed, error},
         RunHook(c, next) \/ (~rs[c].on /\ Keep(rs))
  PROVE  /\ s' = s \/ (s = ready(c) /\ s' = next)
         /\ s' # ready(c)
         /\ \A d \in Conn : /\ Rests(rs[d]) => Rests(rs'[d])
                            /\ d # c /\ d \in shuttingDown => d \in shuttingDown'
                            /\ s' = ready(d) => rs'[d] = rs[d]
<1>t. /\ TypeOK /\ s \in StateObject /\ rs \in [Conn -> ReadyClosure] /\ next \in StateObject
  BY StateTypes DEF Inv, TypeOK
<1>f. NeverPings(rs, sess, ver) /\ ReadyHeard(rs, sess, s) /\ HookIsCurrent
  BY DEF TrackInv, Inv
<1>n. \A d \in Conn : next # ready(d)
  BY DEF closed, error, ready
<1> DEFINE R == [rs EXCEPT ![c] = Cleanup(@)]
<1>1. R \in [Conn -> ReadyClosure] /\ \A d \in Conn : (d # c => R[d] = rs[d]) /\ Rests(R[d])
  <2>1. ASSUME NEW r \in ReadyClosure, Rests(r) PROVE Cleanup(r) \in ReadyClosure /\ Rests(Cleanup(r))
    BY <2>1, CleanupType DEF Cleanup, ReadyClosure, Rests
  <2>2. \A d \in Conn : Rests(rs[d])
    BY <1>f DEF NeverPings
  <2> QED BY <1>t, <2>1, <2>2
<1> HIDE DEF R
<1>2. CASE rs[c].hook = "manager" /\ SetState(next, R)
  <2>1. s = ready(c)
    BY <1>2, <1>f DEF HookIsCurrent
  <2>2. s' = next /\ shuttingDown \subseteq shuttingDown' /\ \A d \in Conn : Rests(rs'[d])
    BY <1>2, <1>1, <1>t, SetStateTracks
  <2> QED BY <1>n, <2>1, <2>2
<1>3. CASE /\ s' = s /\ s # ready(c) /\ shuttingDown \ {c} \subseteq shuttingDown'
           /\ rs' = R \/ rs' = rs
  <2>1. \A d \in Conn : Rests(rs[d]) => Rests(rs'[d])
    BY <1>1, <1>3
  <2>2. \A d \in Conn : d # c => rs'[d] = rs[d]
    BY <1>1, <1>3
  <2> QED BY <1>3, <2>1, <2>2
<1>4. s = ready(c) => rs[c].on /\ rs[c].hook = "manager"
  BY <1>f DEF ReadyHeard
<1> QED BY <1>2, <1>3, <1>4 DEF RunHook, Keep, managerVars, R

\* The end of connection c, which has no stream, with its hook or without.
LEMMA HookTracks ==
  ASSUME Inv, TrackInv, NEW c \in Conn, NEW next \in {closed, error},
         RunHook(c, next) \/ (~rs[c].on /\ Keep(rs)),
         \A w \in Caller : ~HasStream(w, c), call' = call,
         \A d \in Conn : /\ d # c => sess'[d] = sess[d]
                         /\ sess'[d].pings = sess[d].pings
                         /\ ver'[d].p = ver[d].p,
         OneSettled(jobs', sess', s), Listens(dial', s),
         \A n \in DOMAIN jobs' : jobs'[n].k # "resume"
  PROVE  TrackInv'
<1>f. /\ s.t # "verifying" /\ NeverPings(rs, sess, ver)
      /\ ReadyHeard(rs, sess, s) /\ StreamsTracked
  BY DEF TrackInv
<1>1. /\ s' = s \/ (s = ready(c) /\ s' = next)
      /\ s' # ready(c)
      /\ \A d \in Conn : /\ Rests(rs[d]) => Rests(rs'[d])
                         /\ d # c /\ d \in shuttingDown => d \in shuttingDown'
                         /\ s' = ready(d) => rs'[d] = rs[d]
  BY HookEffect
<1>2. s'.t # "verifying" /\ \A d \in Conn : next # ready(d)
  BY <1>f, <1>1 DEF closed, error, ready
<1>3. Listens(dial', s') /\ OneSettled(jobs', sess', s')
  <2>1. CASE s' = s
    BY <2>1
  <2>2. CASE s = ready(c)
    <3>1. OneSettled(jobs', sess', s')
      BY <2>2, NotDialling
    <3>2. \A d \in Conn : s # connecting(d)
      BY <2>2 DEF ready, connecting
    <3> QED BY <3>1, <3>2 DEF Listens
  <2> QED BY <1>1, <2>1, <2>2
<1>4. NeverPings(rs', sess', ver')
  BY <1>f, <1>1 DEF NeverPings
<1>5. ReadyHeard(rs', sess', s')
  <2> SUFFICES ASSUME NEW d \in Conn, s' = ready(d)
               PROVE  /\ rs'[d].on /\ rs'[d].hook = "manager"
                      /\ sess'[d].st = "closing" => rs'[d].goaway
    BY DEF ReadyHeard
  <2>1. d # c /\ s = ready(d) /\ rs'[d] = rs[d] /\ sess'[d] = sess[d]
    BY <1>1, <1>2
  <2> QED BY <1>f, <2>1 DEF ReadyHeard
<1>6. StreamsTracked'
  <2>1. ASSUME NEW w \in Caller, NEW d \in Conn, HasStream(w, d)' PROVE Tracked(d)'
    <3>1. HasStream(w, d) /\ d # c
      BY <2>1 DEF HasStream
    <3>2. Tracked(d)
      BY <1>f, <3>1 DEF StreamsTracked
    <3>3. s = ready(d) => s' = ready(d)
      BY <1>1, <3>1 DEF ready
    <3> QED BY <1>1, <3>1, <3>2, <3>3 DEF Tracked
  <2> QED BY <2>1 DEF StreamsTracked
<1> QED BY <1>2, <1>3, <1>4, <1>5, <1>6 DEF TrackInv

\* An event of one session that neither moves the manager nor settles a promise.
LEMMA OneSessionTracks ==
  ASSUME Inv, TypeOK', TrackInv, NEW c \in Conn, UNCHANGED <<s, shuttingDown, ver, call>>,
         \A d \in Conn : d # c => sess'[d] = sess[d],
         sess'[c].pings \in {sess[c].pings, <<>>},
         sess[c].st = "destroyed" => sess'[c].st = "destroyed",
         \A d \in Conn : /\ Rests(rs[d]) => Rests(rs'[d])
                         /\ rs'[d].on = rs[d].on /\ rs'[d].hook = rs[d].hook
                         /\ rs[d].goaway => rs'[d].goaway,
         sess'[c].st = "closing" /\ rs[c].on => sess[c].st = "closing" \/ rs'[c].goaway,
         Listens(dial', s), OneSettled(jobs', sess', s),
         \A n \in DOMAIN jobs' : jobs'[n].k = "resume" => \E m \in DOMAIN jobs : jobs[m] = jobs'[n]
  PROVE  TrackInv'
<1>f. /\ s.t # "verifying" /\ NeverPings(rs, sess, ver)
      /\ ReadyHeard(rs, sess, s) /\ StreamsTracked
  BY DEF TrackInv
<1>r. \A n \in DOMAIN jobs' : jobs'[n].k = "resume" => jobs'[n].c \in Conn
  BY ResumeConns DEF TypeOK
<1>1. NeverPings(rs', sess', ver')
  <2>1. \A d \in Conn : sess'[d].pings \in {sess[d].pings, <<>>}
    OBVIOUS
  <2> QED BY <1>f, <2>1 DEF NeverPings
<1>2. ReadyHeard(rs', sess', s')
  <2> SUFFICES ASSUME NEW d \in Conn, s = ready(d)
               PROVE  /\ rs'[d].on /\ rs'[d].hook = "manager"
                      /\ sess'[d].st = "closing" => rs'[d].goaway
    BY DEF ReadyHeard
  <2>1. /\ rs[d].on /\ rs[d].hook = "manager"
        /\ sess[d].st = "closing" => rs[d].goaway
    BY <1>f DEF ReadyHeard
  <2>2. CASE d # c
    BY <2>1, <2>2
  <2>3. CASE d = c
    BY <2>1, <2>3
  <2> QED BY <2>2, <2>3
<1>3. \A d \in Conn : Tracked(d) => Tracked(d)'
  BY DEF Tracked
<1>4. StreamsTracked'
  <2>1. \A w \in Caller, d \in Conn : HasStream(w, d)' => HasStream(w, d)
    BY DEF HasStream
  <2> QED BY <1>f, <1>r, <1>3, <2>1, StillTracked
<1> QED BY <1>f, <1>1, <1>2, <1>4 DEF TrackInv

\* The timer of a PING that is overdue does not make a connection due for one.
LEMMA OneFlagRests ==
  ASSUME TypeOK, NEW c \in Conn,
         \/ rs' = rs
         \/ rs' = [rs EXCEPT ![c].pingTimeout = FALSE]
         \/ \E p, g \in BOOLEAN : /\ rs[c].goaway => g
                                  /\ rs' = [rs EXCEPT ![c].goaway = g, ![c].pingTimeout = p]
  PROVE  \A d \in Conn : /\ Rests(rs[d]) => Rests(rs'[d])
                         /\ rs'[d].on = rs[d].on /\ rs'[d].hook = rs[d].hook
                         /\ rs[d].goaway => rs'[d].goaway
<1>t. rs \in [Conn -> ReadyClosure] /\ rs[c] \in ReadyClosure
  BY DEF TypeOK
<1>1. ASSUME NEW r \in ReadyClosure
      PROVE  LET x == [r EXCEPT !.pingTimeout = FALSE]
             IN /\ Rests(r) => Rests(x)
                /\ x.on = r.on /\ x.hook = r.hook /\ x.goaway = r.goaway
  BY DEF ReadyClosure, Rests
<1>2. ASSUME NEW r \in ReadyClosure, NEW p \in BOOLEAN, NEW g \in BOOLEAN, r.goaway => g
      PROVE  LET x == [[r EXCEPT !.goaway = g] EXCEPT !.pingTimeout = p]
             IN /\ Rests(r) => Rests(x)
                /\ x.on = r.on /\ x.hook = r.hook /\ (r.goaway => x.goaway)
  BY <1>2 DEF ReadyClosure, Rests
<1>3. CASE rs' = rs
  BY <1>3
<1>4. CASE rs' = [rs EXCEPT ![c].pingTimeout = FALSE]
  <2> DEFINE x == [rs[c] EXCEPT !.pingTimeout = FALSE]
  <2>1. rs' = [rs EXCEPT ![c] = x]
    BY <1>4
  <2>2. /\ Rests(rs[c]) => Rests(x)
        /\ x.on = rs[c].on /\ x.hook = rs[c].hook /\ x.goaway = rs[c].goaway
    BY <1>t, <1>1
  <2> HIDE DEF x
  <2> QED BY <1>t, <2>1, <2>2
<1>5. ASSUME NEW p \in BOOLEAN, NEW g \in BOOLEAN, rs[c].goaway => g,
             rs' = [rs EXCEPT ![c].goaway = g, ![c].pingTimeout = p]
      PROVE  \A d \in Conn : /\ Rests(rs[d]) => Rests(rs'[d])
                             /\ rs'[d].on = rs[d].on /\ rs'[d].hook = rs[d].hook
                             /\ rs[d].goaway => rs'[d].goaway
  <2> DEFINE x == [[rs[c] EXCEPT !.goaway = g] EXCEPT !.pingTimeout = p]
  <2>1. rs' = [rs EXCEPT ![c] = x]
    BY <1>5
  <2>2. /\ Rests(rs[c]) => Rests(x)
        /\ x.on = rs[c].on /\ x.hook = rs[c].hook /\ (rs[c].goaway => x.goaway)
    <3>1. rs[c] \in ReadyClosure /\ (rs[c].goaway => g)
      BY <1>t, <1>5
    <3> QED BY <1>2, <3>1
  <2> HIDE DEF x
  <2> QED BY <1>t, <2>1, <2>2
<1> QED BY <1>3, <1>4, <1>5

\* A session that is destroyed.
LEMMA DestroyedTracks ==
  ASSUME Inv, TypeOK', TrackInv, NEW c \in Conn, NEW ev,
         UNCHANGED <<s, shuttingDown, ver, call, dial, jobs>>,
         rs' = [rs EXCEPT ![c].pingTimeout = FALSE],
         sess' = [sess EXCEPT ![c] = Destroyed(@, ev)]
  PROVE  TrackInv'
<1>t. TypeOK /\ sess \in [Conn -> NodeSession] /\ sess[c] \in NodeSession
  BY DEF Inv, TypeOK
<1>1. sess'[c] = Destroyed(sess[c], ev) /\ \A d \in Conn : d # c => sess'[d] = sess[d]
  BY <1>t
<1>2. sess'[c].st = "destroyed" /\ sess'[c].pings \in {sess[c].pings, <<>>}
  BY <1>t, <1>1 DEF Destroyed, NodeSession
<1>3. \A d \in Conn : /\ Rests(rs[d]) => Rests(rs'[d])
                      /\ rs'[d].on = rs[d].on /\ rs'[d].hook = rs[d].hook
                      /\ rs[d].goaway => rs'[d].goaway
  BY <1>t, OneFlagRests
<1>4. Listens(dial', s) /\ OneSettled(jobs', sess', s)
  <2>1. Listens(dial, s) /\ OneSettled(jobs, sess, s) /\ jobs \in Seq(Job)
    BY <1>t DEF TrackInv, TypeOK
  <2>2. \A d \in Conn : sess'[d].st = "open" => sess[d].st = "open"
    BY <1>1, <1>2
  <2> QED BY <2>1, <2>2, SameState
<1> QED BY <1>1, <1>2, <1>3, <1>4, OneSessionTracks

\* Timers: without keep-alive only the idle timer and one of abort() are left.
LEMMA TimerStepTracks ==
  ASSUME Inv, TypeOK', TrackInv, ~Keepalive, NEW c \in Conn, Timer(c)
  PROVE  TrackInv'
<1>t. TypeOK /\ sess \in [Conn -> NodeSession]
  BY DEF Inv, TypeOK
<1>1. CASE Elapse(c) \/ OnPingInterval(c)
  BY <1>1 DEF Elapse, OnPingInterval, TrackInv, NeverPings, Rests
<1>2. CASE OnPingTimeout(c)
  <2>1. /\ UNCHANGED <<s, shuttingDown, ver, call, dial, jobs>>
        /\ rs' = [rs EXCEPT ![c].pingTimeout = FALSE]
        /\ sess' = [sess EXCEPT ![c] = Destroyed(@, "error")]
    BY <1>2 DEF OnPingTimeout
  <2> QED BY <2>1, DestroyedTracks
<1>3. CASE OnIdleTimeout(c)
  <2>1. /\ RunHook(c, closed) /\ jobs = <<>> /\ UNCHANGED <<dial, ver, call, jobs>>
        /\ rs[c].idleTimeout
        /\ sess' = sess \/ sess' = [sess EXCEPT ![c].st = "closing"]
    BY <1>3 DEF OnIdleTimeout, May, Quiet
  <2>2. \A w \in Caller : ~HasStream(w, c)
    <3>1. rs[c].streams = 0 /\ StreamCountExact
      BY <2>1 DEF Inv, ClosuresConsistent, IdleTimerStopped
    <3>2. StreamsOn(c) = {}
      BY <3>1, NoStreams
    <3> QED BY <3>2 DEF StreamsOn
  <2>3. \A d \in Conn : /\ d # c => sess'[d] = sess[d]
                        /\ sess'[d].pings = sess[d].pings
                        /\ ver'[d].p = ver[d].p
    BY <1>t, <2>1 DEF NodeSession
  <2>4. /\ OneSettled(jobs', sess', s) /\ Listens(dial', s)
        /\ \A n \in DOMAIN jobs' : jobs'[n].k # "resume"
    BY <2>1 DEF TrackInv, OneSettled
  <2> QED BY <2>1, <2>2, <2>3, <2>4, HookTracks
<1> QED BY <1>1, <1>2, <1>3 DEF Timer

\* The promise of connect() is settled: its listeners go, one reaction is due.
LEMMA SettlesOnce ==
  ASSUME TypeOK, NEW c \in Conn, Listens(dial, s), dial[c].on, jobs = <<>>,
         NEW p, dial' = [dial EXCEPT ![c] = [on |-> FALSE, p |-> p, q |-> <<>>]],
         NEW j \in Job, IsSettled(j), j.k = "dialled" => j.c = c, jobs' = Append(jobs, j)
  PROVE  /\ OneSettled(jobs', sess', s) /\ Listens(dial', s)
         /\ \A n \in DOMAIN jobs' : jobs'[n].k # "resume"
<1>t. dial \in [Conn -> DialClosure]
  BY DEF TypeOK
<1>1. s = connecting(c) /\ \A d \in Conn : s # ready(d)
  BY DEF Listens, connecting, ready
<1>2. ~dial'[c].on /\ \A d \in Conn : d # c => dial'[d] = dial[d]
  BY <1>t
<1>3. \A n \in DOMAIN jobs' : n = 1 /\ jobs'[n] = j
  BY AppendProperties
<1>4. Listens(dial', s)
  BY <1>2 DEF Listens
<1>5. j.k \in {"dialled", "dialFailed"}
  BY DEF IsSettled
<1>6. OneSettled(jobs', sess', s)
  BY <1>1, <1>3, <1>5 DEF OneSettled, OpenDial
<1> QED BY <1>3, <1>4, <1>5, <1>6

\* Events of Node's session.
LEMMA SessionStepTracks ==
  ASSUME Inv, TypeOK', TrackInv, NEW c \in Conn, Session(c)
  PROVE  TrackInv'
<1>t. /\ TypeOK /\ sess \in [Conn -> NodeSession] /\ sess[c] \in NodeSession
      /\ rs \in [Conn -> ReadyClosure] /\ rs[c] \in ReadyClosure
      /\ dial \in [Conn -> DialClosure] /\ jobs \in Seq(Job)
  BY DEF Inv, TypeOK
<1>f. NeverPings(rs, sess, ver) /\ Listens(dial, s) /\ OneSettled(jobs, sess, s)
  BY DEF TrackInv
<1>1. CASE SessionLost(c) \/ Drained(c)
  <2>1. /\ UNCHANGED <<s, shuttingDown, ver, call, dial, jobs>>
        /\ rs' = [rs EXCEPT ![c].pingTimeout = FALSE]
        /\ \E ev : sess' = [sess EXCEPT ![c] = Destroyed(@, ev)]
    BY Zenon, <1>1 DEF SessionLost, Drained
  <2> QED BY <2>1, DestroyedTracks
<1>2. CASE Silence(c)
  <2>1. /\ UNCHANGED <<s, shuttingDown, ver, call, dial, jobs, rs>>
        /\ sess' = [sess EXCEPT ![c].silent = TRUE]
    BY <1>2 DEF Silence
  <2>2. /\ \A d \in Conn : d # c => sess'[d] = sess[d]
        /\ sess'[c].pings = sess[c].pings /\ sess'[c].st = sess[c].st
    BY <1>t, <2>1 DEF NodeSession
  <2>3. OneSettled(jobs', sess', s)
    BY <1>t, <1>f, <2>1, <2>2, SameState
  <2> QED BY <1>f, <2>1, <2>2, <2>3, OneSessionTracks
<1>3. ASSUME NEW code, OnGoaway(c, code) PROVE TrackInv'
  <2>1. /\ UNCHANGED <<s, shuttingDown, ver, call, dial, jobs>>
        /\ sess[c].st \in {"open", "closing"}
        /\ \/ sess' = [sess EXCEPT ![c].st = "closing"]
           \/ \E ev : sess' = [sess EXCEPT ![c] = Destroyed(@, ev)]
    BY Zenon, <1>3 DEF OnGoaway
  <2>2. \E p, g \in BOOLEAN : /\ rs[c].goaway => g
                              /\ rs[c].on => g
                              /\ rs' = [rs EXCEPT ![c].goaway = g, ![c].pingTimeout = p]
    <3> DEFINE dies == \/ code # "noError"
                       \/ rs[c].on /\ rs[c].streams = 0 /\ NodeMajor >= 18
               g == rs[c].goaway \/ rs[c].on
               p == rs[c].pingTimeout /\ ~dies
    <3>1. rs' = [rs EXCEPT ![c].goaway = @ \/ rs[c].on, ![c].pingTimeout = @ /\ ~dies]
      BY <1>3 DEF OnGoaway
    <3>2. g \in BOOLEAN /\ p \in BOOLEAN
      BY <1>t DEF ReadyClosure
    <3>3. rs' = [rs EXCEPT ![c].goaway = g, ![c].pingTimeout = p]
      BY <1>t, <3>1 DEF ReadyClosure
    <3>4. (rs[c].goaway => g) /\ (rs[c].on => g)
      OBVIOUS
    <3> HIDE DEF g, p
    <3> QED BY <3>2, <3>3, <3>4
  <2>3. \A d \in Conn : /\ Rests(rs[d]) => Rests(rs'[d])
                        /\ rs'[d].on = rs[d].on /\ rs'[d].hook = rs[d].hook
                        /\ rs[d].goaway => rs'[d].goaway
    BY <1>t, <2>2, OneFlagRests
  <2>4. rs[c].on => rs'[c].goaway
    <3>1. ASSUME NEW p, NEW g, rs[c].on => g, rs' = [rs EXCEPT ![c].goaway = g, ![c].pingTimeout = p]
          PROVE  rs[c].on => rs'[c].goaway
      <4> DEFINE x == [[rs[c] EXCEPT !.goaway = g] EXCEPT !.pingTimeout = p]
      <4>1. rs' = [rs EXCEPT ![c] = x]
        BY <1>t, <3>1
      <4>2. x.goaway = g
        BY <1>t DEF ReadyClosure
      <4> HIDE DEF x
      <4> QED BY <1>t, <3>1, <4>1, <4>2
    <3> QED BY <2>2, <3>1
  <2>5. /\ \A d \in Conn : d # c => sess'[d] = sess[d]
        /\ sess'[c].pings \in {sess[c].pings, <<>>} /\ sess'[c].st # "open"
    <3>1. CASE sess' = [sess EXCEPT ![c].st = "closing"]
      BY <1>t, <3>1 DEF NodeSession
    <3>2. ASSUME NEW ev, sess' = [sess EXCEPT ![c] = Destroyed(@, ev)]
          PROVE  /\ \A d \in Conn : d # c => sess'[d] = sess[d]
                 /\ sess'[c].pings \in {sess[c].pings, <<>>} /\ sess'[c].st # "open"
      <4>1. sess'[c] = Destroyed(sess[c], ev) /\ \A d \in Conn : d # c => sess'[d] = sess[d]
        BY <1>t, <3>2
      <4>2. sess'[c].pings \in {sess[c].pings, <<>>} /\ sess'[c].st # "open"
        BY <1>t, <4>1 DEF Destroyed, NodeSession
      <4> QED BY <4>1, <4>2
    <3> QED BY <2>1, <3>1, <3>2
  <2>6. OneSettled(jobs', sess', s)
    <3>1. \A d \in Conn : sess'[d].st = "open" => sess[d].st = "open"
      BY <2>1, <2>5
    <3> QED BY <1>t, <1>f, <2>1, <3>1, SameState
  <2> QED BY <1>f, <2>1, <2>3, <2>4, <2>5, <2>6, OneSessionTracks
<1>4. CASE OnConnect(c)
  <2>1. /\ UNCHANGED <<s, shuttingDown, ver, call, rs>> /\ jobs = <<>>
        /\ sess[c].st = "connecting" /\ sess' = [sess EXCEPT ![c].st = "open"]
    BY <1>4 DEF OnConnect, Quiet
  <2>2. /\ \A d \in Conn : d # c => sess'[d] = sess[d]
        /\ sess'[c].pings = sess[c].pings /\ sess'[c].st = "open"
    BY <1>t, <2>1 DEF NodeSession
  <2>3. /\ OneSettled(jobs', sess', s) /\ Listens(dial', s)
        /\ \A n \in DOMAIN jobs' : jobs'[n].k # "resume"
    <3>1. CASE UNCHANGED <<dial, jobs>>
      BY <1>f, <2>1, <3>1 DEF OneSettled
    <3>2. CASE /\ dial[c].on
               /\ dial' = [dial EXCEPT ![c] = [on |-> FALSE, p |-> "resolved", q |-> <<>>]]
               /\ jobs' = Append(jobs, [k |-> "dialled", c |-> c, q |-> dial[c].q])
      <4> DEFINE j == [k |-> "dialled", c |-> c, q |-> dial[c].q]
      <4>1. j \in Job /\ IsSettled(j) /\ j.c = c
        BY <1>t DEF Job, DialClosure, IsSettled
      <4>2. jobs' = Append(jobs, j)
        BY <3>2
      <4> HIDE DEF j
      <4> QED BY <1>t, <1>f, <2>1, <3>2, <4>1, <4>2, SettlesOnce
    <3> QED BY <1>4, <3>1, <3>2 DEF OnConnect
  <2> QED BY <2>1, <2>2, <2>3, OneSessionTracks
<1>5. CASE EmitClose(c)
  <2>1. /\ RunHook(c, closed) \/ (~rs[c].on /\ Keep(rs))
        /\ jobs = <<>> /\ UNCHANGED <<dial, ver, call, jobs>>
        /\ \A w \in Caller : ~HasStream(w, c)
        /\ sess' = [sess EXCEPT ![c].ev = "done"]
    BY <1>5 DEF EmitClose, Emits, Quiet, HasStream
  <2>o. /\ OneSettled(jobs', sess', s) /\ Listens(dial', s)
        /\ closed \in {closed, error} /\ \A n \in DOMAIN jobs' : jobs'[n].k # "resume"
    BY <1>f, <2>1 DEF OneSettled
  <2>2. \A d \in Conn : /\ d # c => sess'[d] = sess[d]
                        /\ sess'[d].pings = sess[d].pings
                        /\ ver'[d].p = ver[d].p
    BY <1>t, <2>1 DEF NodeSession
  <2> QED BY <2>1, <2>o, <2>2, HookTracks
<1>6. CASE EmitError(c)
  <2>1. /\ \E next \in {closed, error} : RunHook(c, next) \/ (~rs[c].on /\ Keep(rs))
        /\ jobs = <<>> /\ UNCHANGED call
        /\ \A w \in Caller : ~HasStream(w, c)
        /\ sess[c].ev \in {"error", "cancel"} /\ sess' = [sess EXCEPT ![c].ev = "done"]
    BY <1>6 DEF EmitError, Emits, Quiet, HasStream, closedOrError
  <2>2. ver[c].p = "none" /\ ver' = ver
    BY <1>6, <1>f DEF EmitError, NeverPings
  <2>3. \A d \in Conn : /\ d # c => sess'[d] = sess[d]
                        /\ sess'[d].pings = sess[d].pings
                        /\ ver'[d].p = ver[d].p
    BY <1>t, <2>1, <2>2 DEF NodeSession
  <2>4. /\ OneSettled(jobs', sess', s) /\ Listens(dial', s)
        /\ \A n \in DOMAIN jobs' : jobs'[n].k # "resume"
    <3>1. CASE ~dial[c].on
      <4>1. UNCHANGED <<dial, jobs>>
        BY <1>6, <2>2, <3>1 DEF EmitError
      <4> QED BY <1>f, <2>1, <4>1 DEF OneSettled
    <3>2. CASE dial[c].on
      <4> DEFINE j == [k |-> "dialFailed", err |-> sess[c].ev, q |-> dial[c].q]
      <4>1. j \in Job /\ IsSettled(j) /\ j.k # "dialled"
        BY <1>t, <2>1 DEF Job, DialClosure, IsSettled
      <4>2. /\ jobs' = Append(jobs, j)
            /\ dial' = [dial EXCEPT ![c] = [on |-> FALSE, p |-> "rejected", q |-> <<>>]]
        BY <1>6, <3>2 DEF EmitError
      <4> HIDE DEF j
      <4> QED BY <1>t, <1>f, <2>1, <3>2, <4>1, <4>2, SettlesOnce
    <3> QED BY <3>1, <3>2
  <2> QED BY <2>1, <2>3, <2>4, HookTracks
<1>7. CASE PingAck(c)
  BY <1>7, <1>f DEF PingAck, NeverPings
<1> QED BY <1>1, <1>2, <1>3, <1>4, <1>5, <1>6, <1>7 DEF Session

\* Promise reactions.
LEMMA RunJobTracks ==
  ASSUME Inv, TypeOK', TrackInv, ~Keepalive, RunJob
  PROVE  TrackInv'
<1>0. jobs # <<>> /\ Head(jobs) \in Job /\ Tail(jobs) \in Seq(Job) /\ TypeOK /\ jobs \in Seq(Job)
  BY JobsHeadTail DEF Inv, TypeOK, RunJob, Dialled, DialFailed, Pinged, Verified, Wake, Resume, NextJob
<1>t. /\ s \in StateObject /\ dial \in [Conn -> DialClosure] /\ ver \in [Conn -> VerifyPromise]
      /\ sess \in [Conn -> NodeSession] /\ rs \in [Conn -> ReadyClosure] /\ jobs' \in Seq(Job)
      /\ call \in [Caller -> CallState]
  BY <1>0 DEF TypeOK
<1>f. /\ s.t # "verifying" /\ NeverPings(rs, sess, ver) /\ Listens(dial, s) /\ ~Keepalive
      /\ OneSettled(jobs, sess, s) /\ ReadyHeard(rs, sess, s) /\ StreamsTracked
  BY DEF TrackInv
<1>n. /\ OneSettled(Tail(jobs), sess, s)
      /\ Head(jobs).k \notin {"pinged", "verified"}
      /\ IsSettled(Head(jobs)) =>
           /\ \A n \in DOMAIN Tail(jobs) : ~OpenDial(Tail(jobs)[n], sess)
           /\ \A c \in Conn : s # ready(c)
      /\ OpenDial(Head(jobs), sess) =>
           /\ \A n \in DOMAIN Tail(jobs) : ~IsSettled(Tail(jobs)[n])
           /\ s = connecting(Head(jobs).c)
  BY <1>0, <1>f, OneSettledParts
<1>m. \A n \in DOMAIN Tail(jobs) : \E m \in DOMAIN jobs : jobs[m] = Tail(jobs)[n]
  BY <1>0, JobMembers
<1>h. Head(jobs) = jobs[1] /\ 1 \in DOMAIN jobs
  BY <1>0
<1>r. \A n \in DOMAIN jobs' : jobs'[n].k = "resume" => jobs'[n].c \in Conn
  BY <1>t, ResumeConns
<1>s. \A c \in Conn : ~ExitDial(dial)[c].on
  BY <1>0, <1>t, <1>f, ExitDialSilent
<1>k. ASSUME jobs' = Tail(jobs), UNCHANGED <<s, shuttingDown, dial, ver, sess, rs>>,
             \A w \in Caller, c \in Conn : HasStream(w, c)' => HasStream(w, c)
      PROVE  TrackInv'
  BY <1>k, <1>n, <1>m, StreamTracks
<1>1. CASE Pinged \/ Verified
  BY <1>1, <1>n DEF Pinged, Verified, NextJob
<1>2. CASE Dialled
  <2> DEFINE c == Head(jobs).c
             q == Head(jobs).q
  <2>1. c \in Conn /\ q \in Seq(Caller) /\ Head(jobs).k = "dialled" /\ IsSettled(Head(jobs))
    BY <1>0, <1>2 DEF Dialled, NextJob, Job, IsSettled
  <2>2. ready(c) \in StateObject /\ closed \in StateObject
    BY <2>1, StateTypes
  <2> HIDE DEF c, q
  <2>3. CASE /\ sess[c].st = "open" /\ SetState(ready(c), [rs EXCEPT ![c] = NewReady])
             /\ Await(ready(c), q, ExitDial(dial), ver, call, Tail(jobs)) /\ UNCHANGED sess
    <3> DEFINE R == [rs EXCEPT ![c] = NewReady]
               D == ExitDial(dial)
    <3>1. /\ R \in [Conn -> ReadyClosure] /\ R[c].on
          /\ \A d \in Conn : Rests(R[d])
      <4>1. NewReady \in ReadyClosure /\ Rests(NewReady) /\ NewReady.on
        BY NewReadyType DEF NewReady, Rests
      <4>2. \A d \in Conn : Rests(rs[d])
        BY <1>f DEF NeverPings
      <4> HIDE DEF NewReady
      <4> QED BY <1>t, <2>1, <4>1, <4>2
    <3>2. D \in [Conn -> DialClosure]
      BY <1>0, <1>t, ExitDialType
    <3>3. \A d \in Conn : s # ready(d) /\ ~D[d].on
      BY <1>n, <1>s, <2>1
    <3>4. OneSettled(Tail(jobs), sess, ready(c))
      <4>1. OpenDial(Head(jobs), sess)
        BY <2>1, <2>3 DEF OpenDial, c
      <4> QED BY <1>n, <4>1 DEF OneSettled, OpenDial, IsSettled
    <3>5. SetState(ready(c), R) /\ Await(ready(c), q, D, ver, call, Tail(jobs))
      BY <2>3
    <3> HIDE DEF R, D
    <3>t. /\ ready(c) \in StateObject /\ q \in Seq(Caller) /\ D \in [Conn -> DialClosure]
          /\ ver \in [Conn -> VerifyPromise] /\ call \in [Caller -> CallState]
          /\ Tail(jobs) \in Seq(Job)
      BY <1>0, <1>t, <2>1, <2>2, <3>2
    <3>6. /\ s' = ready(c) /\ shuttingDown \subseteq shuttingDown'
          /\ rs'[c].hook = "manager" /\ rs'[c].on
          /\ \A d \in Conn : Rests(rs'[d])
      BY <1>0, <2>1, <2>2, <3>1, <3>3, <3>5, SetStateTracks
    <3>7. /\ OneSettled(jobs', sess, ready(c))
          /\ \A n \in DOMAIN jobs' : \/ \E m \in DOMAIN Tail(jobs) : Tail(jobs)[m] = jobs'[n]
                                     \/ jobs'[n].k = "wake"
                                     \/ jobs'[n].k = "resume" /\ ready(c) = ready(jobs'[n].c)
          /\ \A d \in Conn : dial'[d].on = D[d].on
      BY <3>t, <3>4, <3>5, AwaitTracks
    <3>8. /\ \A w \in Caller : call'[w] = call[w] \/ (call'[w].st # "open" /\ call[w].st # "open")
          /\ \A d \in Conn : ver'[d].p = ver[d].p
      BY <3>t, <3>5, AwaitKeeps
    <3>9. OneSettled(jobs', sess', s') /\ Listens(dial', s')
      <4>1. OneSettled(jobs', sess', s')
        BY <2>3, <3>6, <3>7
      <4> QED BY <3>3, <3>7, <4>1 DEF Listens
    <3>10. NeverPings(rs', sess', ver')
      BY <1>f, <2>3, <3>6, <3>8 DEF NeverPings
    <3>11. ReadyHeard(rs', sess', s')
      <4>1. \A d \in Conn : ready(d) = ready(c) => d = c
        BY DEF ready
      <4> QED BY <2>3, <3>6, <4>1 DEF ReadyHeard
    <3>12. StreamsTracked'
      <4>1. \A w \in Caller, d \in Conn : HasStream(w, d)' => HasStream(w, d)
        BY <3>8 DEF HasStream
      <4>2. \A d \in Conn : (Tracked(d) => Tracked(d)') /\ (ready(c) = ready(d) => Tracked(d)')
        BY <2>3, <3>3, <3>6 DEF Tracked
      <4>3. \A n \in DOMAIN jobs' : jobs'[n].k = "resume" =>
              (\E m \in DOMAIN jobs : jobs[m] = jobs'[n]) \/ ready(c) = ready(jobs'[n].c)
        BY <1>m, <3>7
      <4>4. ASSUME NEW n \in DOMAIN jobs', jobs'[n].k = "resume"
            PROVE  \E d \in Conn : /\ jobs'[n].c = d
                                   /\ (\E m \in DOMAIN jobs : jobs[m] = jobs'[n]) \/ Tracked(d)'
        BY <1>r, <4>2, <4>3, <4>4
      <4> QED BY <1>f, <4>1, <4>2, <4>4, StillTracked
    <3>13. s'.t # "verifying"
      BY <3>6 DEF ready
    <3> QED BY <3>9, <3>10, <3>11, <3>12, <3>13 DEF TrackInv
  <2>4. CASE Await(s, q, dial, ver, call, Tail(jobs)) /\ UNCHANGED <<s, shuttingDown, rs, sess>>
    BY <1>0, <1>t, <1>n, <1>m, <2>1, <2>4, AwaitStepTracks
  <2>5. CASE jobs' = Tail(jobs) /\ UNCHANGED <<s, shuttingDown, rs, dial, ver, call, sess>>
    BY <1>k, <2>5 DEF HasStream
  <2> QED BY <1>2, <2>3, <2>4, <2>5 DEF Dialled, c, q
<1>3. CASE DialFailed
  <2> DEFINE next == closedOrError(Head(jobs).err)
  <2>1. IsSettled(Head(jobs)) /\ next \in {closed, error} /\ next \in StateObject
    <3>1. Head(jobs).k = "dialFailed"
      BY <1>3 DEF DialFailed, NextJob
    <3>2. next \in {closed, error}
      BY DEF closedOrError
    <3>3. closed \in StateObject /\ error \in StateObject
      BY DEF StateObject
    <3> HIDE DEF next
    <3> QED BY <3>1, <3>2, <3>3 DEF IsSettled
  <2>2. /\ SetState(next, rs) /\ dial' = ExitDial(dial) /\ jobs' = Tail(jobs)
        /\ call' = Rejected(call, Head(jobs).q) /\ UNCHANGED <<ver, sess>>
    BY <1>3 DEF DialFailed
  <2> HIDE DEF next
  <2>3. /\ s' = next /\ shuttingDown \subseteq shuttingDown'
        /\ \A d \in Conn : Rests(rs[d]) => Rests(rs'[d])
    BY <1>0, <1>t, <2>1, <2>2, SetStateTracks
  <2>4. OneSettled(jobs', sess', s') /\ Listens(dial', s')
    <3>1. \A d \in Conn : ~dial'[d].on
      BY <1>s, <2>2
    <3>2. OneSettled(jobs', sess', s')
      <4>1. \A d \in Conn : next # ready(d)
        BY <2>1 DEF closed, error, ready
      <4> QED BY <1>n, <2>1, <2>2, <2>3, <4>1 DEF OneSettled
    <3> QED BY <3>1, <3>2 DEF Listens
  <2>5. NeverPings(rs', sess', ver')
    BY <1>f, <2>2, <2>3 DEF NeverPings
  <2>6. s'.t # "verifying" /\ ReadyHeard(rs', sess', s')
    BY <2>1, <2>3 DEF ReadyHeard, closed, error, ready
  <2>7. StreamsTracked'
    <3>1. \A w \in Caller, d \in Conn : HasStream(w, d)' => HasStream(w, d)
      BY <2>2, RejectedStreams DEF HasStream
    <3>2. \A d \in Conn : Tracked(d) => Tracked(d)'
      BY <1>n, <2>1, <2>2, <2>3 DEF Tracked
    <3>3. \A n \in DOMAIN jobs' : \E m \in DOMAIN jobs : jobs[m] = jobs'[n]
      BY <1>m, <2>2
    <3> QED BY <1>f, <1>r, <3>1, <3>2, <3>3, StillTracked
  <2> QED BY <2>4, <2>5, <2>6, <2>7 DEF TrackInv
<1>4. CASE Wake
  <2>1. <<Head(jobs).w>> \in Seq(Caller) /\ UNCHANGED <<s, shuttingDown, rs, sess>>
    BY <1>0, <1>4 DEF Wake, NextJob, Job
  <2>2. CASE Await(s, <<Head(jobs).w>>, dial, ver, call, Tail(jobs))
    BY <1>0, <1>t, <1>n, <1>m, <2>1, <2>2, AwaitStepTracks
  <2>3. CASE call' = Rejected(call, <<Head(jobs).w>>) /\ jobs' = Tail(jobs) /\ UNCHANGED <<dial, ver>>
    <3>1. \A w \in Caller, c \in Conn : HasStream(w, c)' => HasStream(w, c)
      BY <2>3, RejectedStreams DEF HasStream
    <3> QED BY <1>k, <2>1, <2>3, <3>1
  <2> QED BY <1>4, <2>2, <2>3 DEF Wake
<1>5. CASE Resume
  <2> DEFINE w == Head(jobs).w
             c == Head(jobs).c
  <2>1. w \in Caller /\ c \in Conn /\ Head(jobs).k = "resume" /\ "request" \in Op
    BY <1>0, <1>5 DEF Resume, NextJob, Job, Op
  <2>2. Tracked(c)
    BY <1>f, <1>h, <2>1 DEF StreamsTracked
  <2> HIDE DEF w, c
  <2>3. CASE /\ call' = [call EXCEPT ![w] = Idle] /\ jobs' = Tail(jobs)
             /\ UNCHANGED <<s, shuttingDown, dial, ver, sess, rs>>
    <3>1. \A x \in Caller, d \in Conn : HasStream(x, d)' => HasStream(x, d)
      BY <1>t, <2>3 DEF HasStream, Idle
    <3> QED BY <1>k, <2>3, <3>1
  <2>4. CASE /\ call' = [call EXCEPT ![w] = Open(c, FALSE)] /\ jobs' = Tail(jobs)
             /\ rs' = [rs EXCEPT ![c] = RegisterRequest(@)]
             /\ UNCHANGED <<s, shuttingDown, dial, ver, sess>>
    <3>1. \A x \in Caller, d \in Conn : HasStream(x, d)' => HasStream(x, d) \/ Tracked(d)
      BY <1>t, <2>2, <2>4 DEF HasStream, Open
    <3>2. \A d \in Conn : /\ Rests(rs[d]) => Rests(rs'[d])
                          /\ rs'[d].on = rs[d].on /\ rs'[d].hook = rs[d].hook
                          /\ rs'[d].goaway = rs[d].goaway
      BY <1>0, <1>f, <2>1, <2>4, OneRests
    <3> QED BY <1>n, <1>m, <2>4, <3>1, <3>2, StreamTracks
  <2>5. CASE GotoReady(w, "request", Tail(jobs))
    BY <1>0, <1>n, <1>m, <2>1, <2>5, GotoReadyTracks
  <2> QED BY <1>5, <2>3, <2>4, <2>5 DEF Resume, w, c
<1> QED BY <1>1, <1>2, <1>3, <1>4, <1>5 DEF RunJob

-----------------------------------------------------------------------------
(* Without keep-alive.                                                        *)

\* At first nothing is dialled, sent or due.
LEMMA InitTracks == Init => TrackInv
BY DEF Init, TrackInv, NeverPings, Rests, Listens, OneSettled, ReadyHeard, StreamsTracked,
       HasStream, Idle, closed, ready

\* Every step keeps the connections tracked.
LEMMA NextTracks ==
  ASSUME ~Keepalive
  PROVE  Inv /\ TrackInv /\ [Next]_vars => TrackInv'
<1> SUFFICES ASSUME Inv, TrackInv, [Next]_vars PROVE TrackInv'
  OBVIOUS
<1>1. TypeOK'
  BY TypeStep DEF Inv
<1>2. CASE Next
  BY <1>1, <1>2, UserTracks, RunJobTracks, StreamStepTracks, SessionStepTracks, TimerStepTracks DEF Next
<1>3. CASE UNCHANGED vars
  BY <1>3 DEF vars, TrackInv, NeverPings, Listens, OneSettled, ReadyHeard, StreamsTracked,
              Tracked, HasStream
<1> QED BY <1>2, <1>3

\* Without keep-alive, abort() reaches every open stream: through GOAWAYs, lost
\* connections, idle timeouts, new dials and earlier aborts, the manager loses
\* track of none (setState, onExitState, gotoReady, abort).
THEOREM StreamsAreTracked ==
  ASSUME ~Keepalive
  PROVE  Spec => []OpenStreamsTracked
<1>1. Init => Inv /\ TrackInv
  BY InitInv, InitTracks
<1>2. Inv /\ TrackInv /\ [Next]_vars => Inv' /\ TrackInv'
  BY NextInv, NextTracks
<1>3. TrackInv => OpenStreamsTracked
  BY DEF TrackInv, StreamsTracked, Tracked, OpenStreamsTracked
<1> QED BY <1>1, <1>2, <1>3, PTL DEF Spec

-----------------------------------------------------------------------------
(* Three promises: the manager never lets a connection with open streams go    *)
(* without a PING, it never loses a caller that waits for a connection, and,   *)
(* until abort() is called, it listens to every connection that it dials for a *)
(* caller.                                                                     *)

(* A connection is verified only by verify(): no PING of a verification, and   *)
(* no reaction to one, belongs to a connection that was never verified.        *)
PingsNoted(S, V) ==
  \A c \in Conn : \A i \in DOMAIN S[c].pings :
    S[c].pings[i] = "verify" => V[c].p # "none"

ReactsTo(j, V) ==
  /\ j.k = "pinged" => V[j.c].p # "none"
  /\ j.k = "verified" /\ j.next.t = "ready" => V[j.next.c].p # "none"

ReactionsNoted(J, V) == \A n \in DOMAIN J : ReactsTo(J[n], V)

(* What the manager keeps beside its current connection received a GOAWAY.     *)
LeavingIsMade == \A c \in shuttingDown : rs[c].made /\ rs[c].goaway

Noted == PingsNoted(sess, ver) /\ ReactionsNoted(jobs, ver)

WatchInv == Noted /\ LeavingIsMade /\ OpenStreamsWatched

-----------------------------------------------------------------------------
(* Verifications.                                                             *)

\* What was noted of verifications stays so while no promise of one is taken
\* back and nothing new is queued.
LEMMA StillNoted ==
  ASSUME NEW J, NEW V, NEW W,
         \A c \in Conn : V[c].p # "none" => W[c].p # "none",
         \A n \in DOMAIN J : /\ J[n].k = "pinged" => J[n].c \in Conn
                             /\ J[n].k = "verified" => J[n].next.c \in Conn,
         ReactionsNoted(J, V)
  PROVE  ReactionsNoted(J, W)
BY DEF ReactionsNoted, ReactsTo

\* The parts of a queue of reactions.
LEMMA NotedParts ==
  ASSUME NEW J \in Seq(Job), NEW V
  PROVE  /\ J # <<>> /\ ReactionsNoted(J, V) =>
              ReactsTo(Head(J), V) /\ ReactionsNoted(Tail(J), V)
         /\ \A j \in Job : ReactionsNoted(J, V) /\ ReactsTo(j, V)
              => ReactionsNoted(Append(J, j), V)
         /\ \A K \in Seq(Job) : ReactionsNoted(J, V) /\ ReactionsNoted(K, V)
              => ReactionsNoted(J \o K, V)
<1>1. ASSUME J # <<>>, ReactionsNoted(J, V)
      PROVE  ReactsTo(Head(J), V) /\ ReactionsNoted(Tail(J), V)
  <2>1. /\ Head(J) = J[1] /\ 1 \in DOMAIN J
        /\ \A n \in DOMAIN Tail(J) : n + 1 \in DOMAIN J /\ Tail(J)[n] = J[n + 1]
    BY <1>1
  <2> QED BY <1>1, <2>1 DEF ReactionsNoted
<1>2. ASSUME NEW j \in Job, ReactionsNoted(J, V), ReactsTo(j, V)
      PROVE  ReactionsNoted(Append(J, j), V)
  <2>1. /\ DOMAIN Append(J, j) = 1..(Len(J) + 1) /\ DOMAIN J = 1..Len(J) /\ Len(J) \in Nat
        /\ \A n \in DOMAIN J : Append(J, j)[n] = J[n]
        /\ Append(J, j)[Len(J) + 1] = j
    BY AppendProperties
  <2>2. \A n \in DOMAIN Append(J, j) : n \in DOMAIN J \/ n = Len(J) + 1
    BY <2>1
  <2> QED BY <1>2, <2>1, <2>2 DEF ReactionsNoted
<1>3. ASSUME NEW K \in Seq(Job), ReactionsNoted(J, V), ReactionsNoted(K, V)
      PROVE  ReactionsNoted(J \o K, V)
  <2>1. /\ DOMAIN (J \o K) = 1..(Len(J) + Len(K)) /\ DOMAIN J = 1..Len(J) /\ DOMAIN K = 1..Len(K)
        /\ Len(J) \in Nat /\ Len(K) \in Nat
        /\ \A n \in DOMAIN (J \o K) :
             (J \o K)[n] = IF n <= Len(J) THEN J[n] ELSE K[n - Len(J)]
    BY ConcatProperties
  <2>2. ASSUME NEW n \in DOMAIN (J \o K)
        PROVE  \/ n \in DOMAIN J /\ n <= Len(J)
               \/ n - Len(J) \in DOMAIN K /\ ~(n <= Len(J))
    BY <2>1
  <2>3. ASSUME NEW n \in DOMAIN (J \o K) PROVE ReactsTo((J \o K)[n], V)
    <3>1. CASE n \in DOMAIN J /\ n <= Len(J)
      BY <1>3, <2>1, <3>1 DEF ReactionsNoted
    <3>2. CASE n - Len(J) \in DOMAIN K /\ ~(n <= Len(J))
      BY <1>3, <2>1, <3>2 DEF ReactionsNoted
    <3> QED BY <2>2, <3>1, <3>2
  <2> QED BY <2>3 DEF ReactionsNoted
<1> QED BY <1>1, <1>2, <1>3

\* The microtasks of a queue name connections.
LEMMA JobConns ==
  ASSUME NEW J \in Seq(Job)
  PROVE  \A n \in DOMAIN J : /\ J[n] \in Job
                             /\ J[n].k = "pinged" => J[n].c \in Conn
                             /\ J[n].k = "verified" => J[n].next.c \in Conn
<1>1. \A n \in DOMAIN J : J[n] \in Job
  OBVIOUS
<1> QED BY <1>1 DEF Job

\* Callers that go on waiting add no reaction to a verification.
LEMMA AwaitNoted ==
  ASSUME NEW now \in StateObject, NEW q \in Seq(Caller), NEW D \in [Conn -> DialClosure],
         NEW V \in [Conn -> VerifyPromise], NEW C \in [Caller -> CallState],
         NEW J \in Seq(Job), Await(now, q, D, V, C, J), NEW W,
         ReactionsNoted(J, W)
  PROVE  ReactionsNoted(jobs', W)
<1>0. PICK K \in Seq(Job) : jobs' = J \o K /\ Woken(K, now)
  BY AwaitJobs
<1>1. /\ jobs' = J \o K
      /\ \A n \in DOMAIN K : /\ K[n].k \in {"wake", "resume"}
                             /\ K[n].k = "resume" => now = ready(K[n].c)
  BY <1>0 DEF Woken
<1>2. ReactionsNoted(K, W)
  BY <1>1 DEF ReactionsNoted, ReactsTo
<1> QED BY <1>1, <1>2, NotedParts

-----------------------------------------------------------------------------
(* One lemma for each group of steps: what they note of verifications.        *)

\* The promise of a verification is never taken back.
Later == \A c \in Conn : ver[c].p # "none" => ver'[c].p # "none"

\* A step that sends no PING of a verification and queues no reaction to one.
LEMMA NotedStep ==
  ASSUME TypeOK, Noted, Later,
         \A c \in Conn : \A i \in DOMAIN sess'[c].pings :
           sess'[c].pings[i] = "verify" =>
             (\E k \in DOMAIN sess[c].pings : sess[c].pings[k] = "verify")
               \/ ver'[c].p # "none",
         ReactionsNoted(jobs', ver) \/ ReactionsNoted(jobs', ver'),
         jobs' \in Seq(Job)
  PROVE  Noted'
<1>1. PingsNoted(sess', ver')
  BY DEF Noted, PingsNoted, Later
<1>2. ReactionsNoted(jobs', ver')
  BY JobConns, StillNoted DEF Later
<1> QED BY <1>1, <1>2 DEF Noted

\* A caller that enters gotoReady().
LEMMA GotoReadyNoted ==
  ASSUME TypeOK, TypeOK', Noted, NEW w \in Caller, NEW op \in Op, NEW J \in Seq(Job),
         GotoReady(w, op, J), ReactionsNoted(J, ver)
  PROVE  Noted'
<1> DEFINE C == [call EXCEPT ![w] = Pending(op)]
<1>t. /\ s \in StateObject /\ dial \in [Conn -> DialClosure] /\ ver \in [Conn -> VerifyPromise]
      /\ sess \in [Conn -> NodeSession] /\ jobs' \in Seq(Job) /\ <<w>> \in Seq(Caller)
  BY DEF TypeOK
<1>c. C \in [Caller -> CallState]
  BY DEF TypeOK, Pending, CallState
<1> HIDE DEF C
<1>1. CASE /\ Fresh # {} /\ sess' = Opening(NewConn)
           /\ Await(connecting(NewConn), <<w>>, Dialling(dial, NewConn), ver, C, J)
  <2>1. connecting(NewConn) \in StateObject /\ NewConn \in Conn
        /\ Dialling(dial, NewConn) \in [Conn -> DialClosure]
    BY <1>1, <1>t, NewConnType, StateTypes, DiallingType
  <2>2. Later /\ ReactionsNoted(jobs', ver)
    BY <1>1, <1>t, <1>c, <2>1, AwaitKeeps, AwaitNoted DEF Later
  <2>3. \A c \in Conn : sess'[c].pings = sess[c].pings
    BY <1>1, <1>t, <2>1 DEF Opening, NodeSession
  <2> QED BY <1>t, <2>2, <2>3, NotedStep
<1>2. CASE /\ s.t = "ready"
           /\ sess' = [sess EXCEPT ![s.c].pings = Append(@, "verify")]
           /\ Await(verifying(s.c), <<w>>, dial,
                    [ver EXCEPT ![s.c] = [p |-> "pending", q |-> <<>>]], C, J)
  <2> DEFINE V == [ver EXCEPT ![s.c] = [p |-> "pending", q |-> <<>>]]
  <2>1. s.c \in Conn /\ verifying(s.c) \in StateObject
    BY <1>2, <1>t, StateConn, StateTypes
  <2>2. V \in [Conn -> VerifyPromise] /\ V[s.c].p = "pending"
        /\ \A c \in Conn : c # s.c => V[c] = ver[c]
    BY <1>t, <2>1 DEF VerifyPromise
  <2>3. Await(verifying(s.c), <<w>>, dial, V, C, J)
    BY <1>2
  <2> HIDE DEF V
  <2>4. (\A c \in Conn : ver'[c].p = V[c].p) /\ ReactionsNoted(jobs', ver)
    BY <1>t, <1>c, <2>1, <2>2, <2>3, AwaitKeeps, AwaitNoted
  <2>5. Later /\ ver'[s.c].p # "none"
    BY <2>1, <2>2, <2>4 DEF Later
  <2>6. \A c \in Conn : c # s.c => sess'[c] = sess[c]
    BY <1>2, <1>t, <2>1
  <2> QED BY <1>t, <2>4, <2>5, <2>6, NotedStep
<1>3. CASE Await(s, <<w>>, dial, ver, C, J) /\ UNCHANGED sess
  <2>1. Later /\ ReactionsNoted(jobs', ver)
    BY <1>3, <1>t, <1>c, AwaitKeeps, AwaitNoted DEF Later
  <2> QED BY <1>3, <1>t, <2>1, NotedStep
<1> QED BY <1>1, <1>2, <1>3 DEF GotoReady, C

\* A step that sends no PING, or loses those of a session.
LEMMA CalmNoted ==
  ASSUME TypeOK, Noted, Later, jobs' \in Seq(Job),
         \A c \in Conn : sess'[c].pings \in {sess[c].pings, <<>>},
         ReactionsNoted(jobs', ver) \/ ReactionsNoted(jobs', ver')
  PROVE  Noted'
<1>1. \A c \in Conn : \A i \in DOMAIN sess'[c].pings : sess'[c].pings = sess[c].pings
  <2> SUFFICES ASSUME NEW c \in Conn, NEW i \in DOMAIN sess'[c].pings, sess'[c].pings = <<>>
               PROVE  FALSE
    OBVIOUS
  <2> QED OBVIOUS
<1> QED BY <1>1, NotedStep

\* destroy() loses the PINGs of a session.
LEMMA DestroyedPings ==
  ASSUME NEW x \in NodeSession, NEW ev
  PROVE  Destroyed(x, ev).pings \in {x.pings, <<>>}
BY DEF Destroyed, NodeSession

\* Calls of the application.
LEMMA UserNoted == ASSUME TypeOK, TypeOK', Noted, User PROVE Noted'
<1>t. /\ sess \in [Conn -> NodeSession] /\ jobs \in Seq(Job) /\ jobs' \in Seq(Job)
      /\ ReactionsNoted(jobs, ver) /\ dial \in [Conn -> DialClosure]
  BY DEF TypeOK, Noted
<1>1. ASSUME NEW w \in Caller, NotifyResponseByteRead(w) PROVE Noted'
  BY <1>1, <1>t DEF NotifyResponseByteRead, Noted
<1>2. ASSUME NEW w \in Caller, NEW op \in Op, Call(w, op) PROVE Noted'
  BY <1>2, <1>t, GotoReadyNoted DEF Call
<1>3. ASSUME NEW err \in {"cancel", "error"}, Abort(err) PROVE Noted'
  <2>1. \A c \in Conn : sess'[c] \in {sess[c], Destroyed(sess[c], err), Destroyed(sess[c], "close")}
    BY <1>3, <1>t DEF Abort
  <2>2. \A c \in Conn : sess'[c].pings \in {sess[c].pings, <<>>}
    BY <1>t, <2>1, DestroyedPings
  <2>3. ReactionsNoted(jobs', ver)
    <3>1. CASE jobs' = jobs
      BY <1>t, <3>1
    <3>2. CASE /\ s.t = "connecting"
               /\ jobs' = Append(jobs, [k |-> "dialFailed", err |-> err, q |-> dial[s.c].q])
      <4> DEFINE j == [k |-> "dialFailed", err |-> err, q |-> dial[s.c].q]
      <4>1. s.c \in Conn
        BY <3>2, StateConn DEF TypeOK
      <4>2. j \in Job /\ ReactsTo(j, ver)
        BY <4>1, <1>t DEF Job, DialClosure, ReactsTo
      <4> QED BY <1>t, <3>2, <4>2, NotedParts
    <3> QED BY <1>3, <3>1, <3>2 DEF Abort
  <2>4. Later
    BY <1>3 DEF Abort, Later
  <2> QED BY <1>t, <2>2, <2>3, <2>4, CalmNoted
<1> QED BY <1>1, <1>2, <1>3 DEF User

\* Promise reactions.
LEMMA RunJobNoted == ASSUME Inv, TypeOK', Noted, RunJob PROVE Noted'
<1>0. jobs # <<>> /\ Head(jobs) \in Job /\ Tail(jobs) \in Seq(Job) /\ TypeOK
  BY JobsHeadTail DEF Inv, RunJob, Dialled, DialFailed, Pinged, Verified, Wake, Resume, NextJob
<1>t. /\ s \in StateObject /\ dial \in [Conn -> DialClosure] /\ ver \in [Conn -> VerifyPromise]
      /\ sess \in [Conn -> NodeSession] /\ jobs \in Seq(Job) /\ jobs' \in Seq(Job)
      /\ call \in [Caller -> CallState]
  BY <1>0 DEF TypeOK
<1>n. ReactsTo(Head(jobs), ver) /\ ReactionsNoted(Tail(jobs), ver)
  BY <1>0, <1>t, NotedParts DEF Noted
<1>e. ExitDial(dial) \in [Conn -> DialClosure]
  BY <1>0, <1>t, ExitDialType
<1>1. ASSUME NEW now \in StateObject, NEW q \in Seq(Caller), NEW D \in [Conn -> DialClosure],
             Await(now, q, D, ver, call, Tail(jobs)), UNCHANGED sess
      PROVE  Noted'
  <2>1. Later
    BY <1>0, <1>1, <1>t, AwaitKeeps DEF Later
  <2>2. ReactionsNoted(jobs', ver)
    BY <1>0, <1>1, <1>n, <1>t, AwaitNoted
  <2> QED BY <1>0, <1>1, <1>t, <2>1, <2>2, CalmNoted
<1>2. ASSUME jobs' = Tail(jobs), UNCHANGED <<ver, sess>>
      PROVE  Noted'
  BY <1>0, <1>2, <1>n, <1>t, CalmNoted DEF Later
<1>3. CASE Dialled
  <2>1. Head(jobs).c \in Conn /\ Head(jobs).q \in Seq(Caller)
    BY <1>0, <1>3 DEF Dialled, NextJob, Job
  <2>2. ready(Head(jobs).c) \in StateObject
    BY <2>1, StateTypes
  <2> QED BY <1>1, <1>2, <1>3, <1>e, <1>t, <2>1, <2>2 DEF Dialled
<1>4. CASE DialFailed
  BY <1>2, <1>4 DEF DialFailed
<1>5. CASE Verified
  <2>1. Head(jobs).next \in StateObject /\ Head(jobs).q \in Seq(Caller)
    BY <1>0, <1>5 DEF Verified, NextJob, Job, StateObject
  <2> QED BY <1>1, <1>5, <1>e, <2>1 DEF Verified
<1>6. CASE Wake
  <2>1. <<Head(jobs).w>> \in Seq(Caller)
    BY <1>0, <1>6 DEF Wake, NextJob, Job
  <2> QED BY <1>1, <1>2, <1>6, <1>t, <2>1 DEF Wake
<1>7. CASE Resume
  <2>1. Head(jobs).w \in Caller /\ "request" \in Op
    BY <1>0, <1>7 DEF Resume, NextJob, Job, Op
  <2> QED BY <1>0, <1>2, <1>7, <1>n, <2>1, GotoReadyNoted DEF Resume
<1>8. CASE Pinged
  <2> DEFINE c == Head(jobs).c
             j(next) == [k |-> "verified", next |-> next, q |-> ver[c].q]
  <2>1. c \in Conn /\ ver[c].q \in Seq(Caller)
    BY <1>0, <1>8, <1>t DEF Pinged, NextJob, Job, VerifyPromise
  <2>2. Later /\ ver'[c].p = "settled"
    BY <1>8, <1>t, <2>1 DEF Pinged, Later
  <2>3. ReactionsNoted(Tail(jobs), ver')
    BY <1>0, <1>n, <2>2, JobConns, StillNoted DEF Later
  <2>4. CASE jobs' = Append(Tail(jobs), j(ready(c))) /\ UNCHANGED sess
    <3>1. j(ready(c)) \in Job /\ ReactsTo(j(ready(c)), ver')
      BY <2>1, <2>2 DEF Job, ReactsTo, ready
    <3>2. ReactionsNoted(jobs', ver')
      BY <1>0, <2>3, <2>4, <3>1, NotedParts
    <3> QED BY <1>0, <1>t, <2>2, <2>4, <3>2, CalmNoted
  <2>5. CASE /\ Fresh # {} /\ sess' = Opening(NewConn)
             /\ jobs' = Append(Tail(jobs), j(connecting(NewConn)))
    <3>1. NewConn \in Conn
      BY <2>5, NewConnType
    <3>2. j(connecting(NewConn)) \in Job /\ ReactsTo(j(connecting(NewConn)), ver')
      BY <2>1, <3>1 DEF Job, ReactsTo, connecting
    <3>3. ReactionsNoted(jobs', ver')
      BY <1>0, <2>3, <2>5, <3>2, NotedParts
    <3>4. \A d \in Conn : sess'[d].pings = sess[d].pings
      BY <2>5, <1>t, <3>1 DEF Opening, NodeSession
    <3> QED BY <1>0, <1>t, <2>2, <3>3, <3>4, CalmNoted
  <2> QED BY <1>8, <2>4, <2>5 DEF Pinged
<1> QED BY <1>3, <1>4, <1>5, <1>6, <1>7, <1>8 DEF RunJob

\* Events of streams and timers.
LEMMA StreamTimerNoted ==
  ASSUME Inv, TypeOK', Noted, Stream \/ (\E c \in Conn : Timer(c))
  PROVE  Noted'
<1>t. /\ sess \in [Conn -> NodeSession] /\ jobs' \in Seq(Job) /\ jobs \in Seq(Job) /\ TypeOK
      /\ ReactionsNoted(jobs, ver)
  BY DEF Inv, TypeOK, Noted
<1>1. jobs' = jobs /\ ver' = ver
  BY DEF Stream, OnResponse, OnStreamClose, Timer, Elapse, OnPingInterval, OnPingTimeout,
         OnIdleTimeout
<1>2. ASSUME NEW c \in Conn, NEW i \in DOMAIN sess'[c].pings, sess'[c].pings[i] = "verify"
      PROVE  \E k \in DOMAIN sess[c].pings : sess[c].pings[k] = "verify"
  <2>1. CASE sess'[c].pings \in {sess[c].pings, <<>>}
    BY <1>2, <2>1
  <2>2. CASE sess'[c].pings = Append(sess[c].pings, "keep")
    BY <1>2, <1>t, <2>2 DEF NodeSession
  <2>3. sess'[c].pings \in {sess[c].pings, <<>>, Append(sess[c].pings, "keep")}
    <3>1. CASE Stream
      BY <3>1 DEF Stream, OnResponse, OnStreamClose
    <3>2. ASSUME NEW d \in Conn, Elapse(d)
          PROVE  sess' = sess
      BY <3>2 DEF Elapse
    <3>3. ASSUME NEW d \in Conn, OnPingInterval(d)
          PROVE  sess' = sess \/ sess' = [sess EXCEPT ![d].pings = Append(@, "keep")]
      BY <3>3 DEF OnPingInterval
    <3>4. ASSUME NEW d \in Conn, OnPingTimeout(d)
          PROVE  sess' = [sess EXCEPT ![d] = Destroyed(@, "error")]
      BY <3>4 DEF OnPingTimeout
    <3>5. ASSUME NEW d \in Conn, OnIdleTimeout(d)
          PROVE  sess' = sess \/ sess' = [sess EXCEPT ![d].st = "closing"]
      BY <3>5 DEF OnIdleTimeout
    <3>6. ASSUME NEW d \in Conn, \/ sess' = [sess EXCEPT ![d].pings = Append(@, "keep")]
                                 \/ sess' = [sess EXCEPT ![d] = Destroyed(@, "error")]
                                 \/ sess' = [sess EXCEPT ![d].st = "closing"]
          PROVE  sess'[c].pings \in {sess[c].pings, <<>>, Append(sess[c].pings, "keep")}
      <4>1. CASE c # d
        BY <1>t, <3>6, <4>1
      <4>2. CASE c = d
        BY <1>t, <3>6, <4>2, DestroyedPings DEF NodeSession
      <4> QED BY <4>1, <4>2
    <3> QED BY <3>1, <3>2, <3>3, <3>4, <3>5, <3>6 DEF Timer
  <2> QED BY <2>1, <2>2, <2>3
<1> QED BY <1>t, <1>1, <1>2, NotedStep DEF Later

\* Events of Node's session.
LEMMA SessionNoted ==
  ASSUME Inv, TypeOK', Noted, NEW c \in Conn, Session(c)
  PROVE  Noted'
<1>t. /\ sess \in [Conn -> NodeSession] /\ jobs' \in Seq(Job) /\ jobs \in Seq(Job) /\ TypeOK
      /\ ReactionsNoted(jobs, ver) /\ ver \in [Conn -> VerifyPromise]
      /\ dial \in [Conn -> DialClosure] /\ PingsNoted(sess, ver)
  BY DEF Inv, TypeOK, Noted
<1>d. ASSUME NEW ev, sess' = [sess EXCEPT ![c] = Destroyed(@, ev)]
      PROVE  \A d \in Conn : sess'[d].pings \in {sess[d].pings, <<>>}
  BY <1>d, <1>t, DestroyedPings
<1>1. CASE SessionLost(c) \/ Drained(c)
  BY <1>1, <1>d, <1>t, CalmNoted DEF SessionLost, Drained, Later
<1>2. CASE Silence(c) \/ EmitClose(c)
  <2>1. /\ \/ sess' = [sess EXCEPT ![c].silent = TRUE]
           \/ sess' = [sess EXCEPT ![c].ev = "done"]
        /\ jobs' = jobs /\ ver' = ver
    BY <1>2 DEF Silence, EmitClose, Emits
  <2>2. \A d \in Conn : sess'[d].pings = sess[d].pings
    <3>1. CASE sess' = [sess EXCEPT ![c].silent = TRUE]
      BY <1>t, <3>1 DEF NodeSession
    <3>2. CASE sess' = [sess EXCEPT ![c].ev = "done"]
      BY <1>t, <3>2 DEF NodeSession
    <3> QED BY <2>1, <3>1, <3>2
  <2> QED BY <1>t, <2>1, <2>2, CalmNoted DEF Later
<1>3. ASSUME NEW code, OnGoaway(c, code) PROVE Noted'
  <2>1. /\ \/ sess' = [sess EXCEPT ![c].st = "closing"]
           \/ sess' = [sess EXCEPT ![c] = Destroyed(@, "cancel")]
           \/ sess' = [sess EXCEPT ![c] = Destroyed(@, "error")]
        /\ jobs' = jobs /\ ver' = ver
    BY <1>3 DEF OnGoaway
  <2>2. \A d \in Conn : sess'[d].pings \in {sess[d].pings, <<>>}
    <3>1. CASE sess' = [sess EXCEPT ![c].st = "closing"]
      BY <1>t, <3>1 DEF NodeSession
    <3> QED BY <2>1, <3>1, <1>d
  <2> QED BY <1>t, <2>1, <2>2, CalmNoted DEF Later
<1>4. CASE OnConnect(c)
  <2> DEFINE j == [k |-> "dialled", c |-> c, q |-> dial[c].q]
  <2>1. /\ \A d \in Conn : sess'[d].pings = sess[d].pings
        /\ ver' = ver /\ (jobs' = jobs \/ jobs' = Append(jobs, j))
    BY <1>4, <1>t DEF OnConnect, NodeSession
  <2>2. j \in Job /\ ReactsTo(j, ver)
    BY <1>t DEF Job, DialClosure, ReactsTo
  <2>3. ReactionsNoted(jobs', ver)
    BY <1>t, <2>1, <2>2, NotedParts
  <2> QED BY <1>t, <2>1, <2>3, CalmNoted DEF Later
<1>5. CASE EmitError(c)
  <2> DEFINE r == [k |-> "dialFailed", err |-> sess[c].ev, q |-> dial[c].q]
             u == [k |-> "pinged", c |-> c, ok |-> FALSE]
  <2>1. \A d \in Conn : sess'[d].pings = sess[d].pings
    BY <1>5, <1>t DEF EmitError, Emits, NodeSession
  <2>2. \/ jobs' = jobs
        \/ jobs' = Append(jobs, r)
        \/ ver[c].p = "pending" /\ jobs' = Append(jobs, u)
    BY <1>5 DEF EmitError
  <2>3. r \in Job /\ ReactsTo(r, ver)
    BY <1>5, <1>t DEF EmitError, Emits, Job, DialClosure, ReactsTo
  <2>4. u \in Job /\ (ver[c].p = "pending" => ReactsTo(u, ver))
    BY DEF Job, ReactsTo
  <2>5. ReactionsNoted(jobs', ver)
    BY <1>t, <2>2, <2>3, <2>4, NotedParts
  <2>6. Later
    BY <1>5, <1>t DEF EmitError, Later, VerifyPromise
  <2> QED BY <1>t, <2>1, <2>5, <2>6, CalmNoted
<1>6. CASE PingAck(c)
  <2> DEFINE j == [k |-> "pinged", c |-> c, ok |-> TRUE]
             p == sess[c].pings
  <2>0. p \in Seq({"keep", "verify"}) /\ p # <<>>
    BY <1>6, <1>t DEF PingAck, NodeSession
  <2>1. \/ sess' = [sess EXCEPT ![c].pings = Tail(@)]
        \/ sess' = [sess EXCEPT ![c] = Destroyed(@, "error")]
    BY <1>6 DEF PingAck
  <2>2. \A d \in Conn : \A i \in DOMAIN sess'[d].pings : sess'[d].pings[i] = "verify" =>
          \E k \in DOMAIN sess[d].pings : sess[d].pings[k] = "verify"
    <3>1. \A i \in DOMAIN Tail(p) : i + 1 \in DOMAIN p /\ Tail(p)[i] = p[i + 1]
      BY <2>0
    <3>2. ASSUME NEW d \in Conn, d # c PROVE sess'[d] = sess[d]
      BY <1>t, <2>1, <3>2
    <3>3. CASE sess' = [sess EXCEPT ![c].pings = Tail(@)]
      <4>1. sess'[c].pings = Tail(p)
        BY <1>t, <3>3 DEF NodeSession
      <4> HIDE DEF p
      <4>2. \A i \in DOMAIN sess'[c].pings : sess'[c].pings[i] = "verify" =>
              \E k \in DOMAIN p : p[k] = "verify"
        BY <3>1, <4>1
      <4> QED BY <3>2, <4>2 DEF p
    <3>4. CASE sess' = [sess EXCEPT ![c] = Destroyed(@, "error")]
      <4>1. sess'[c].pings \in {sess[c].pings, <<>>}
        BY <1>d, <3>4
      <4> QED BY <3>2, <4>1
    <3> QED BY <2>1, <3>3, <3>4
  <2>3. Later
    <3>1. ver' = ver \/ ver' = [ver EXCEPT ![c].p = "pinged"]
      BY <1>6 DEF PingAck
    <3> QED BY <1>t, <3>1 DEF Later, VerifyPromise
  <2>4. \/ jobs' = jobs
        \/ Head(p) = "verify" /\ jobs' = Append(jobs, j)
    BY <1>6 DEF PingAck
  <2>5. Head(p) = "verify" => ver[c].p # "none"
    <3>1. Head(p) = p[1] /\ 1 \in DOMAIN p
      BY <2>0
    <3> QED BY <1>t, <3>1 DEF PingsNoted
  <2>6. ReactionsNoted(jobs', ver)
    <3>1. j \in Job /\ (ver[c].p # "none" => ReactsTo(j, ver))
      BY DEF Job, ReactsTo
    <3> QED BY <1>t, <2>4, <2>5, <3>1, NotedParts
  <2> QED BY <1>t, <2>2, <2>3, <2>6, NotedStep
<1> QED BY <1>1, <1>2, <1>3, <1>4, <1>5, <1>6 DEF Session

\* What is noted of verifications stays so in every step.
LEMMA NotedNext == ASSUME Inv, Noted, Next PROVE Noted'
<1>1. TypeOK /\ TypeOK'
  BY TypeStep DEF Inv
<1> QED BY <1>1, UserNoted, RunJobNoted, StreamTimerNoted, SessionNoted DEF Next

-----------------------------------------------------------------------------
(* Timers of the connections that the manager maintains.                      *)

\* A step that leaves a connection watched: it maintained the connection before
\* and stops none of its timers, or the connection needs no PING after it, or
\* one of the timers runs.
Tended(c) ==
  \/ /\ Maintains(c) /\ rs[c].streams > 0
     /\ sess[c].st = "destroyed" => sess'[c].st = "destroyed"
     /\ WatchedStream(c) => WatchedStream(c)'
  \/ ~Maintains(c)' \/ ~NeedsPings(c)' \/ ver'[c].p # "none" \/ WatchedStream(c)'

\* The interval is never shortened again.
NotFaster == doublings' < MaxDoublings => doublings < MaxDoublings

\* If every connection is tended, every open stream stays watched.
LEMMA TendedStep ==
  ASSUME OpenStreamsWatched, Later, NotFaster, \A c \in Conn : Tended(c)
  PROVE  OpenStreamsWatched'
BY DEF OpenStreamsWatched, Tended, NeedsPings, Later, NotFaster

\* A step that keeps the manager's state and the streams and timers of a
\* connection tends it.
LEMMA SameTended ==
  ASSUME NEW c \in Conn, Maintains(c)' => Maintains(c),
         sess[c].st = "destroyed" => sess'[c].st = "destroyed",
         /\ rs'[c].streams = rs[c].streams /\ rs'[c].pingInterval = rs[c].pingInterval
         /\ rs'[c].pingTimeout = rs[c].pingTimeout
  PROVE  Tended(c)
BY DEF Tended, WatchedStream, NeedsPings

\* setState() maintains what it maintained, and what it enters.
LEMMA SetStateWatched ==
  ASSUME Inv, LeavingIsMade, NEW next \in StateObject, NEW R \in [Conn -> ReadyClosure],
         SetState(next, R),
         \A c \in Conn : /\ rs[c].made => R[c].made
                         /\ rs[c].made /\ rs[c].goaway => R[c].goaway
  PROVE  /\ LeavingIsMade'
         /\ \A c \in Conn : Maintains(c)' /\ next # ready(c) =>
              /\ Maintains(c) /\ rs'[c].streams = R[c].streams
              /\ rs'[c].pingInterval = R[c].pingInterval
              /\ rs'[c].pingTimeout = R[c].pingTimeout
<1>t. /\ s \in StateObject /\ rs \in [Conn -> ReadyClosure] /\ TypeOK /\ MadeConsistent
      /\ shuttingDown \subseteq Conn
  BY DEF Inv, TypeOK, ClosuresConsistent
<1>1. s.t = "ready" => s.c \in Conn /\ s = ready(s.c)
  BY <1>t, StateConn DEF ready
<1>2. next.t = "ready" => next.c \in Conn /\ next = ready(next.c)
  BY StateConn DEF ready
<1>3. s' = next /\ \A c \in Conn : rs'[c].made = R[c].made /\ rs'[c].goaway = R[c].goaway
  BY <1>t, SetStateCalms DEF Calmer, SameGoaway
<1>4. shuttingDown' = IF s.t = "ready" /\ R[s.c].goaway THEN shuttingDown \cup {s.c}
                                                        ELSE shuttingDown
  BY DEF SetState, Maintained
<1>5. s.t = "ready" => rs[s.c].made
  BY <1>t, <1>1 DEF MadeConsistent
<1>6. LeavingIsMade'
  BY <1>t, <1>1, <1>3, <1>4, <1>5 DEF LeavingIsMade
<1>7. ASSUME NEW c \in Conn, Maintains(c)', next # ready(c)
      PROVE  /\ Maintains(c) /\ rs'[c].streams = R[c].streams
             /\ rs'[c].pingInterval = R[c].pingInterval
             /\ rs'[c].pingTimeout = R[c].pingTimeout
  <2>1. c \in shuttingDown'
    BY <1>3, <1>7 DEF Maintains
  <2>2. Maintains(c)
    BY <1>1, <1>4, <2>1 DEF Maintains
  <2>3. ASSUME s.t = "ready", s.c = c PROVE R[c].goaway
    BY <1>4, <2>1, <2>3 DEF LeavingIsMade
  <2>4. \/ ExitReady(R)[c] = R[c]
        \/ ExitReady(R)[c] = [R[c] EXCEPT !.hook = "shuttingDown"]
    BY <1>1, <2>3 DEF ExitReady
  <2>5. next.t = "ready" => next.c # c
    BY <1>2, <1>7
  <2>6. rs'[c] = ExitReady(R)[c]
    <3>1. DOMAIN ExitReady(R) = Conn
      BY DEF ExitReady
    <3> QED BY <2>5, <3>1 DEF SetState
  <2> QED BY <2>2, <2>4, <2>6 DEF ReadyClosure
<1> QED BY <1>6, <1>7

\* The hook of a connection that ended, run or not, stops the timers of that
\* connection alone.
LEMMA RunHookWatched ==
  ASSUME Inv, LeavingIsMade, NEW c \in Conn, NEW next \in {closed, error}, RunHook(c, next)
  PROVE  /\ LeavingIsMade' /\ rs'[c].streams = rs[c].streams
         /\ \A d \in Conn : d # c /\ Maintains(d)' =>
              /\ Maintains(d) /\ rs'[d].streams = rs[d].streams
              /\ rs'[d].pingInterval = rs[d].pingInterval
              /\ rs'[d].pingTimeout = rs[d].pingTimeout
<1> DEFINE R == [rs EXCEPT ![c] = Cleanup(@)]
<1>t. rs \in [Conn -> ReadyClosure] /\ TypeOK /\ HookIsCurrent /\ next \in StateObject
  BY StateTypes DEF Inv, TypeOK, StateObject
<1>1. /\ R \in [Conn -> ReadyClosure]
      /\ \A d \in Conn : /\ rs[d].made => R[d].made
                         /\ rs[d].made /\ rs[d].goaway => R[d].goaway
                         /\ d # c => R[d] = rs[d]
  BY <1>t, CleanupCalms, CleanupType
<1>2. rs'[c].streams = rs[c].streams
  BY <1>t, RunHookStep DEF Calmer
<1>3. CASE SetState(next, R)
  <2> HIDE DEF R
  <2>1. next # ready(c) /\ \A d \in Conn : next # ready(d)
    BY DEF closed, error, ready
  <2>2. /\ LeavingIsMade'
        /\ \A d \in Conn : Maintains(d)' /\ next # ready(d) =>
              /\ Maintains(d) /\ rs'[d].streams = R[d].streams
              /\ rs'[d].pingInterval = R[d].pingInterval
              /\ rs'[d].pingTimeout = R[d].pingTimeout
    BY <1>1, <1>3, <1>t, SetStateWatched
  <2> QED BY <1>1, <1>2, <2>1, <2>2
<1>4. CASE rs' = R /\ s' = s /\ shuttingDown' \subseteq shuttingDown
  <2>1. LeavingIsMade'
    BY <1>1, <1>4, <1>t DEF LeavingIsMade, Inv, TypeOK
  <2> QED BY <1>1, <1>2, <1>4, <2>1 DEF Maintains
<1> QED BY <1>3, <1>4 DEF RunHook, Keep, managerVars

\* resetPingInterval() starts the timer of a connection that needs PINGs.
LEMMA ResetTended ==
  ASSUME Inv, LeavingIsMade, NEW d \in Conn,
         UNCHANGED <<s, shuttingDown, doublings>>,
         \A c \in Conn : sess[c].st = "destroyed" => sess'[c].st = "destroyed",
         NEW r \in ReadyClosure, r.made = rs[d].made, r.goaway = rs[d].goaway,
         rs' = [rs EXCEPT ![d] = ResetPingInterval(Alive(r))]
  PROVE  LeavingIsMade' /\ NotFaster /\ \A c \in Conn : Tended(c)
<1>t. rs \in [Conn -> ReadyClosure]
  BY DEF Inv, TypeOK
<1> DEFINE x == ResetPingInterval(Alive(r))
<1>1. /\ x.made = r.made /\ x.goaway = r.goaway
      /\ x.streams > 0 /\ Keepalive /\ doublings < MaxDoublings => x.pingInterval
  BY DEF ResetPingInterval, Alive, ReadyClosure
<1> HIDE DEF x
<1>2. rs'[d] = x /\ \A c \in Conn : c # d => rs'[c] = rs[c]
  BY <1>t DEF x
<1>3. LeavingIsMade' /\ NotFaster
  BY <1>1, <1>2, <1>t DEF LeavingIsMade, NotFaster
<1>4. Tended(d)
  BY <1>1, <1>2 DEF Tended, NeedsPings, WatchedStream
<1>5. \A c \in Conn : c # d => Tended(c)
  BY <1>2, SameTended DEF Maintains
<1> QED BY <1>3, <1>4, <1>5

\* gotoReady(): a new connection has no stream yet, one being verified has been
\* verified before or is no longer maintained as ready.
LEMMA GotoReadyWatched ==
  ASSUME Inv, LeavingIsMade, NEW w \in Caller, NEW op \in Op, NEW J \in Seq(Job),
         GotoReady(w, op, J)
  PROVE  LeavingIsMade' /\ NotFaster /\ \A c \in Conn : Tended(c)
<1> DEFINE C == [call EXCEPT ![w] = Pending(op)]
<1>t. /\ s \in StateObject /\ rs \in [Conn -> ReadyClosure] /\ TypeOK
      /\ dial \in [Conn -> DialClosure] /\ ver \in [Conn -> VerifyPromise]
      /\ sess \in [Conn -> NodeSession] /\ <<w>> \in Seq(Caller)
  BY DEF Inv, TypeOK
<1>0. NotFaster
  BY DEF GotoReady, NotFaster
<1>1. CASE /\ Fresh # {} /\ SetState(connecting(NewConn), rs) /\ sess' = Opening(NewConn)
  <2>1. /\ NewConn \in Conn /\ sess[NewConn].st = "none" /\ connecting(NewConn) \in StateObject
        /\ \A c \in Conn : connecting(NewConn) # ready(c)
    BY <1>1, NewConnType, StateTypes DEF Fresh, connecting, ready
  <2>2. \A c \in Conn : c # NewConn => sess'[c] = sess[c]
    BY <1>1, <1>t, <2>1 DEF Opening
  <2>3. \A c \in Conn : sess[c].st = "destroyed" => sess'[c].st = "destroyed"
    BY <2>1, <2>2
  <2>4. /\ LeavingIsMade'
        /\ \A c \in Conn : Maintains(c)' =>
              /\ Maintains(c) /\ rs'[c].streams = rs[c].streams
              /\ rs'[c].pingInterval = rs[c].pingInterval
              /\ rs'[c].pingTimeout = rs[c].pingTimeout
    BY <1>1, <1>t, <2>1, SetStateWatched
  <2> QED BY <1>0, <2>3, <2>4, SameTended DEF Tended
<1>2. CASE /\ s.t = "ready"
           /\ SetState(verifying(s.c), [rs EXCEPT ![s.c].pingTimeout = TRUE, ![s.c].errOnce = TRUE])
           /\ sess' = [sess EXCEPT ![s.c].pings = Append(@, "verify")]
           /\ Await(verifying(s.c), <<w>>, dial,
                    [ver EXCEPT ![s.c] = [p |-> "pending", q |-> <<>>]], C, J)
  <2> DEFINE R == [rs EXCEPT ![s.c].pingTimeout = TRUE, ![s.c].errOnce = TRUE]
  <2>1. /\ s.c \in Conn /\ verifying(s.c) \in StateObject
        /\ \A c \in Conn : verifying(s.c) # ready(c)
    BY <1>2, <1>t, StateConn, StateTypes DEF verifying, ready
  <2>2. /\ R \in [Conn -> ReadyClosure]
        /\ \A c \in Conn : /\ rs[c].made => R[c].made
                           /\ rs[c].made /\ rs[c].goaway => R[c].goaway
                           /\ R[c].streams = rs[c].streams
                           /\ R[c].pingInterval = rs[c].pingInterval
                           /\ rs[c].pingTimeout => R[c].pingTimeout
    <3>1. [[rs[s.c] EXCEPT !.pingTimeout = TRUE] EXCEPT !.errOnce = TRUE] \in ReadyClosure
      BY <1>t, <2>1, ClosureFields
    <3>2. R = [rs EXCEPT ![s.c] = [[rs[s.c] EXCEPT !.pingTimeout = TRUE] EXCEPT !.errOnce = TRUE]]
      BY <1>t, <2>1
    <3> HIDE DEF R
    <3> QED BY <1>t, <2>1, <3>1, <3>2 DEF ReadyClosure
  <2>3. \A c \in Conn : sess'[c].st = sess[c].st
    BY <1>2, <1>t, <2>1 DEF NodeSession
  <2>4. SetState(verifying(s.c), R)
    BY <1>2
  <2> HIDE DEF R
  <2>5. /\ LeavingIsMade'
        /\ \A c \in Conn : Maintains(c)' =>
              /\ Maintains(c) /\ rs'[c].streams = R[c].streams
              /\ rs'[c].pingInterval = R[c].pingInterval
              /\ rs'[c].pingTimeout = R[c].pingTimeout
    BY <1>t, <2>1, <2>2, <2>4, SetStateWatched
  <2> QED BY <1>0, <2>2, <2>3, <2>5 DEF Tended, WatchedStream, NeedsPings
<1>3. CASE UNCHANGED <<s, shuttingDown, rs, sess>>
  BY <1>0, <1>3, SameTended DEF LeavingIsMade, Maintains
<1> QED BY <1>1, <1>2, <1>3 DEF GotoReady, C

\* Calls of the application.
LEMMA UserWatched ==
  ASSUME Inv, LeavingIsMade, User
  PROVE  LeavingIsMade' /\ NotFaster /\ \A c \in Conn : Tended(c)
<1>t. /\ s \in StateObject /\ rs \in [Conn -> ReadyClosure] /\ TypeOK
      /\ sess \in [Conn -> NodeSession] /\ jobs \in Seq(Job) /\ shuttingDown \subseteq Conn
  BY DEF Inv, TypeOK
<1>1. ASSUME NEW w \in Caller, NotifyResponseByteRead(w)
      PROVE  LeavingIsMade' /\ NotFaster /\ \A c \in Conn : Tended(c)
  <2> DEFINE d == call[w].c
  <2>1. d \in Conn /\ UNCHANGED <<s, shuttingDown, doublings, sess>>
        /\ rs' = [rs EXCEPT ![d] = ResetPingInterval(Alive(@))]
    BY <1>1, <1>t DEF NotifyResponseByteRead, Unusable, Inv, TypeOK, CallState, Idle
  <2> HIDE DEF d
  <2> QED BY <1>t, <2>1, ResetTended
<1>2. ASSUME NEW w \in Caller, NEW op \in Op, Call(w, op)
      PROVE  LeavingIsMade' /\ NotFaster /\ \A c \in Conn : Tended(c)
  BY <1>2, <1>t, GotoReadyWatched DEF Call
<1>3. ASSUME NEW err \in {"cancel", "error"}, Abort(err)
      PROVE  LeavingIsMade' /\ NotFaster /\ \A c \in Conn : Tended(c)
  <2> DEFINE current == IF s.t \in {"ready", "verifying"} THEN {s.c} ELSE {}
             hit == {c \in current \cup shuttingDown : sess[c].st # "destroyed"}
             R == [c \in Conn |-> IF c \in hit
                                  THEN [rs[c] EXCEPT !.errOnce = TRUE, !.pingTimeout = FALSE]
                                  ELSE rs[c]]
             next == closedOrError(err)
  <2>1. /\ SetState(next, R) /\ NotFaster
        /\ sess' = [c \in Conn |->
                IF c \in hit THEN Destroyed(sess[c], err)
                ELSE IF s = connecting(c) THEN Destroyed(sess[c], "close") ELSE sess[c]]
    BY <1>3 DEF Abort, NotFaster
  <2>2. ASSUME NEW c \in Conn, Maintains(c) PROVE sess'[c].st = "destroyed"
    <3>1. c \in current \cup shuttingDown
      BY <2>2 DEF Maintains, ready
    <3>2. c \in hit \/ sess[c].st = "destroyed"
      BY <3>1
    <3> HIDE DEF hit
    <3> QED BY <1>t, <2>1, <3>2, DestroyedStep DEF Destroyed
  <2>3. /\ R \in [Conn -> ReadyClosure]
        /\ \A c \in Conn : /\ rs[c].made => R[c].made
                           /\ rs[c].made /\ rs[c].goaway => R[c].goaway
    <3>1. ASSUME NEW r \in ReadyClosure
          PROVE  LET x == [r EXCEPT !.errOnce = TRUE, !.pingTimeout = FALSE]
                 IN x \in ReadyClosure /\ x.made = r.made /\ x.goaway = r.goaway
      BY DEF ReadyClosure
    <3> HIDE DEF hit
    <3> QED BY <1>t, <3>1
  <2>4. next \in StateObject /\ \A c \in Conn : next # ready(c)
    BY DEF StateObject, closedOrError, closed, error, ready
  <2> HIDE DEF R, hit, next
  <2>5. LeavingIsMade' /\ \A c \in Conn : Maintains(c)' => Maintains(c)
    BY <1>t, <2>1, <2>3, <2>4, SetStateWatched
  <2> QED BY <2>1, <2>2, <2>5 DEF Tended, NeedsPings
<1> QED BY <1>1, <1>2, <1>3 DEF User

\* A step that leaves the manager, the closures and the sessions alone.
LEMMA StillTended ==
  ASSUME Inv, LeavingIsMade, UNCHANGED <<s, shuttingDown, doublings, rs>>,
         \A c \in Conn : sess[c].st = "destroyed" => sess'[c].st = "destroyed"
  PROVE  LeavingIsMade' /\ NotFaster /\ \A c \in Conn : Tended(c)
BY SameTended DEF LeavingIsMade, NotFaster, Maintains

\* registerRequest() starts the timer with the first stream.
LEMMA RegisterTended ==
  ASSUME Inv, LeavingIsMade, NEW d \in Conn,
         UNCHANGED <<s, shuttingDown, doublings, sess>>,
         rs' = [rs EXCEPT ![d] = RegisterRequest(@)]
  PROVE  LeavingIsMade' /\ NotFaster /\ \A c \in Conn : Tended(c)
<1>t. rs \in [Conn -> ReadyClosure] /\ rs[d] \in ReadyClosure /\ shuttingDown \subseteq Conn
  BY DEF Inv, TypeOK
<1> DEFINE x == RegisterRequest(rs[d])
<1>1. /\ x.made = rs[d].made /\ x.goaway = rs[d].goaway
      /\ \/ rs[d].streams = 0
            /\ (Keepalive /\ doublings < MaxDoublings => x.pingInterval)
         \/ /\ rs[d].streams > 0 /\ x.streams > 0
            /\ x.pingInterval = rs[d].pingInterval /\ x.pingTimeout = rs[d].pingTimeout
  <2> DEFINE n == [rs[d] EXCEPT !.streams = @ + 1]
  <2>1. /\ n \in ReadyClosure /\ n.streams = rs[d].streams + 1 /\ rs[d].streams \in Nat
        /\ n.made = rs[d].made /\ n.goaway = rs[d].goaway
        /\ n.pingInterval = rs[d].pingInterval /\ n.pingTimeout = rs[d].pingTimeout
    BY <1>t DEF ReadyClosure
  <2>2. x = IF n.streams = 1 THEN [ResetPingInterval(n) EXCEPT !.idleTimeout = FALSE] ELSE n
    BY DEF RegisterRequest
  <2> HIDE DEF n, x
  <2>3. CASE n.streams = 1
    <3>1. rs[d].streams = 0 /\ n.streams > 0
      BY <2>1, <2>3
    <3>2. /\ x.made = n.made /\ x.goaway = n.goaway
          /\ Keepalive /\ doublings < MaxDoublings => x.pingInterval
      BY <2>1, <2>2, <2>3, <3>1 DEF ResetPingInterval, ReadyClosure
    <3> QED BY <2>1, <3>1, <3>2
  <2>4. CASE n.streams # 1
    BY <2>1, <2>2, <2>4
  <2> QED BY <2>3, <2>4
<1> HIDE DEF x
<1>2. rs'[d] = x /\ \A c \in Conn : c # d => rs'[c] = rs[c]
  BY <1>t DEF x
<1>3. LeavingIsMade' /\ NotFaster
  BY <1>1, <1>2, <1>t DEF LeavingIsMade, NotFaster
<1>4. Tended(d)
  BY <1>1, <1>2 DEF Tended, NeedsPings, WatchedStream, Maintains
<1>5. \A c \in Conn : c # d => Tended(c)
  BY <1>2, SameTended DEF Maintains
<1> QED BY <1>3, <1>4, <1>5

\* Promise reactions.
LEMMA RunJobWatched ==
  ASSUME Inv, LeavingIsMade, Noted, Noted', RunJob
  PROVE  LeavingIsMade' /\ NotFaster /\ \A c \in Conn : Tended(c)
<1>0. jobs # <<>> /\ Head(jobs) \in Job /\ Tail(jobs) \in Seq(Job) /\ TypeOK
  BY JobsHeadTail DEF Inv, RunJob, Dialled, DialFailed, Pinged, Verified, Wake, Resume, NextJob
<1>t. /\ s \in StateObject /\ dial \in [Conn -> DialClosure] /\ ver \in [Conn -> VerifyPromise]
      /\ sess \in [Conn -> NodeSession] /\ jobs \in Seq(Job) /\ rs \in [Conn -> ReadyClosure]
      /\ call \in [Caller -> CallState] /\ ExitDial(dial) \in [Conn -> DialClosure]
      /\ MadeConsistent /\ AllExpected(jobs, rs, sess)
      /\ shuttingDown \subseteq Conn
  BY <1>0, ExitDialType DEF TypeOK, Inv, ClosuresConsistent
<1>n. ReactsTo(Head(jobs), ver)
  BY <1>0, <1>t, NotedParts DEF Noted
<1>1. CASE Dialled
  <2>0. Head(jobs).c \in Conn /\ ~rs[Head(jobs).c].made
    <3>1. Head(jobs) = jobs[1] /\ 1 \in DOMAIN jobs
      BY <1>0, <1>t
    <3> QED BY <1>0, <1>t, <1>1, <3>1 DEF AllExpected, Expected, Dialled, NextJob, Job
  <2>1. PICK c \in Conn : c = Head(jobs).c /\ ~rs[c].made
    BY <2>0
  <2> DEFINE R == [rs EXCEPT ![c] = NewReady]
  <2>2. NotFaster /\ sess' = sess
    BY <1>1 DEF Dialled, NotFaster
  <2>3. CASE SetState(ready(c), R)
    <3>1. /\ R \in [Conn -> ReadyClosure] /\ ready(c) \in StateObject
          /\ R[c].streams = 0
          /\ \A d \in Conn : d # c => R[d] = rs[d]
          /\ \A d \in Conn : /\ rs[d].made => R[d].made
                             /\ rs[d].made /\ rs[d].goaway => R[d].goaway
      BY <1>t, <2>1, NewReadyType, StateTypes DEF NewReady
    <3>2. \A d \in Conn : d # c => ready(c) # ready(d)
      BY DEF ready
    <3> HIDE DEF R
    <3>3. rs'[c].streams = 0
      BY <1>0, <2>3, <3>1, <2>1, SetStateCalms DEF Calmer
    <3>4. /\ LeavingIsMade'
          /\ \A d \in Conn : Maintains(d)' /\ ready(c) # ready(d) =>
               /\ Maintains(d) /\ rs'[d].streams = R[d].streams
               /\ rs'[d].pingInterval = R[d].pingInterval
               /\ rs'[d].pingTimeout = R[d].pingTimeout
      BY <2>3, <3>1, SetStateWatched
    <3>5. Tended(c)
      BY <3>3 DEF Tended, NeedsPings
    <3>6. ASSUME NEW d \in Conn, d # c PROVE Tended(d)
      <4>1. Maintains(d)' =>
               /\ Maintains(d) /\ rs'[d].streams = rs[d].streams
               /\ rs'[d].pingInterval = rs[d].pingInterval
               /\ rs'[d].pingTimeout = rs[d].pingTimeout
        BY <3>1, <3>2, <3>4, <3>6
      <4> QED BY <2>2, <4>1, SameTended DEF Tended
    <3> QED BY <2>2, <3>4, <3>5, <3>6
  <2>4. CASE UNCHANGED <<s, shuttingDown, rs>>
    BY <1>1, <2>2, <2>4, StillTended DEF Dialled
  <2> QED BY <1>1, <2>1, <2>3, <2>4 DEF Dialled
<1>2. CASE DialFailed
  <2> DEFINE next == closedOrError(Head(jobs).err)
  <2>1. SetState(next, rs) /\ sess' = sess /\ NotFaster
    BY <1>2 DEF DialFailed, NotFaster
  <2>2. next \in StateObject /\ \A c \in Conn : next # ready(c)
    BY DEF StateObject, closedOrError, closed, error, ready
  <2> HIDE DEF next
  <2>3. /\ LeavingIsMade'
        /\ \A c \in Conn : Maintains(c)' =>
              /\ Maintains(c) /\ rs'[c].streams = rs[c].streams
              /\ rs'[c].pingInterval = rs[c].pingInterval
              /\ rs'[c].pingTimeout = rs[c].pingTimeout
    BY <1>t, <2>1, <2>2, SetStateWatched
  <2> QED BY <2>1, <2>3, SameTended DEF Tended
<1>3. CASE Pinged
  <2>1. UNCHANGED <<s, shuttingDown, doublings, rs>>
    BY <1>3 DEF Pinged
  <2>2. sess' = sess \/ (Fresh # {} /\ sess' = Opening(NewConn))
    BY <1>3 DEF Pinged
  <2>3. \A c \in Conn : sess[c].st = "destroyed" => sess'[c].st = "destroyed"
    <3>1. CASE Fresh # {} /\ sess' = Opening(NewConn)
      BY <1>t, <3>1, NewConnType DEF Opening, Fresh
    <3> QED BY <2>2, <3>1
  <2> QED BY <2>1, <2>3, StillTended
<1>4. CASE Verified
  <2> DEFINE next == Head(jobs).next
  <2>1. /\ SetState(next, rs) /\ sess' = sess /\ NotFaster /\ next \in StateObject
        /\ next.t = "ready" => ver[next.c].p # "none" /\ next.c \in Conn
    BY <1>0, <1>4, <1>n DEF Verified, NextJob, NotFaster, Job, StateObject, ReactsTo
  <2>2. \A c \in Conn : ver'[c].p = ver[c].p
    <3>1. Await(next, Head(jobs).q, ExitDial(dial), ver, call, Tail(jobs))
      BY <1>4 DEF Verified
    <3>2. Head(jobs).q \in Seq(Caller)
      BY <1>0, <1>4 DEF Verified, NextJob, Job
    <3> HIDE DEF next
    <3> QED BY <1>0, <1>t, <2>1, <3>1, <3>2, AwaitKeeps
  <2> HIDE DEF next
  <2>3. /\ LeavingIsMade'
        /\ \A c \in Conn : Maintains(c)' /\ next # ready(c) =>
              /\ Maintains(c) /\ rs'[c].streams = rs[c].streams
              /\ rs'[c].pingInterval = rs[c].pingInterval
              /\ rs'[c].pingTimeout = rs[c].pingTimeout
    BY <1>t, <2>1, SetStateWatched
  <2>4. ASSUME NEW c \in Conn, next = ready(c) PROVE Tended(c)
    <3>1. ver'[c].p # "none"
      BY <2>1, <2>2, <2>4 DEF ready
    <3> QED BY <3>1 DEF Tended
  <2> QED BY <2>1, <2>3, <2>4, SameTended DEF Tended
<1>5. CASE Wake
  BY <1>5, StillTended DEF Wake
<1>6. CASE Resume
  <2> DEFINE w == Head(jobs).w
             c == Head(jobs).c
  <2>1. w \in Caller /\ c \in Conn /\ "request" \in Op
    BY <1>0, <1>6 DEF Resume, NextJob, Job, Op
  <2>2. CASE UNCHANGED <<s, shuttingDown, doublings, rs, sess>>
    BY <2>2, StillTended
  <2>3. CASE /\ UNCHANGED <<s, shuttingDown, doublings, sess>>
             /\ rs' = [rs EXCEPT ![c] = RegisterRequest(@)]
    BY <1>t, <2>1, <2>3, RegisterTended
  <2>4. CASE GotoReady(w, "request", Tail(jobs))
    BY <1>0, <2>1, <2>4, GotoReadyWatched
  <2> QED BY <1>6, <2>2, <2>3, <2>4 DEF Resume
<1> QED BY <1>1, <1>2, <1>3, <1>4, <1>5, <1>6 DEF RunJob

\* Events of streams: a response restarts the timer, and so does the close of
\* a connection's last stream; the close of another stops nothing.
LEMMA StreamWatched ==
  ASSUME Inv, LeavingIsMade, Stream
  PROVE  LeavingIsMade' /\ NotFaster /\ \A c \in Conn : Tended(c)
<1>t. /\ rs \in [Conn -> ReadyClosure] /\ TypeOK /\ StreamCountExact
      /\ shuttingDown \subseteq Conn
  BY DEF Inv, TypeOK
<1>1. ASSUME NEW w \in Caller, OnResponse(w)
      PROVE  LeavingIsMade' /\ NotFaster /\ \A c \in Conn : Tended(c)
  <2>1. PICK d \in Conn : d = call[w].c
    BY <1>1, <1>t, OpenStreamCounted DEF OnResponse
  <2>2. /\ UNCHANGED <<s, shuttingDown, doublings, sess>>
        /\ rs' = [rs EXCEPT ![d] = ResetPingInterval(Alive(rs[d]))]
    BY <1>1, <2>1 DEF OnResponse
  <2> QED BY <1>t, <2>2, ResetTended
<1>2. ASSUME NEW w \in Caller, OnStreamClose(w)
      PROVE  LeavingIsMade' /\ NotFaster /\ \A c \in Conn : Tended(c)
  <2>1. PICK d \in Conn : d = call[w].c /\ rs[d].streams > 0
    BY <1>2, <1>t, OpenStreamCounted DEF OnStreamClose
  <2>2. /\ UNCHANGED <<s, shuttingDown, doublings, sess>>
        /\ rs' = [rs EXCEPT ![d] = StreamClosed(rs[d])]
    BY <1>2, <2>1 DEF OnStreamClose
  <2> DEFINE x == StreamClosed(rs[d])
             n == [rs[d] EXCEPT !.streams = @ - 1]
  <2>3. /\ x.made = rs[d].made /\ x.goaway = rs[d].goaway
        /\ \/ x.streams = 0
           \/ x.pingInterval = rs[d].pingInterval /\ x.pingTimeout = rs[d].pingTimeout
    <3>1. /\ n.made = rs[d].made /\ n.goaway = rs[d].goaway
          /\ n.pingInterval = rs[d].pingInterval /\ n.pingTimeout = rs[d].pingTimeout
      BY <1>t DEF ReadyClosure
    <3>2. n \in ReadyClosure
      <4>1. rs[d] \in ReadyClosure /\ rs[d].streams \in Nat
        BY <1>t DEF ReadyClosure
      <4>2. rs[d].streams - 1 \in Nat
        BY <2>1, <4>1
      <4> QED BY <4>1, <4>2, ClosureFields
    <3>3. x = IF n.streams = 0 THEN [ResetPingInterval(n) EXCEPT !.idleTimeout = TRUE] ELSE n
      BY DEF StreamClosed
    <3> HIDE DEF n, x
    <3>4. CASE n.streams = 0
      <4>1. x.made = n.made /\ x.goaway = n.goaway /\ x.streams = 0
        BY <3>2, <3>3, <3>4 DEF ResetPingInterval, ReadyClosure
      <4> QED BY <3>1, <4>1
    <3> QED BY <3>1, <3>3, <3>4
  <2> HIDE DEF x, n
  <2>4. rs'[d] = x /\ \A c \in Conn : c # d => rs'[c] = rs[c]
    BY <1>t, <2>2 DEF x
  <2>5. LeavingIsMade' /\ NotFaster
    BY <1>t, <2>2, <2>3, <2>4 DEF LeavingIsMade, NotFaster
  <2>6. Tended(d)
    BY <2>1, <2>2, <2>3, <2>4 DEF Tended, NeedsPings, WatchedStream, Maintains
  <2>7. \A c \in Conn : c # d => Tended(c)
    BY <2>2, <2>4, SameTended DEF Maintains
  <2> QED BY <2>5, <2>6, <2>7
<1> QED BY <1>1, <1>2 DEF Stream

\* The end of a session, and what touches one closure, tend every connection.
LEMMA EndTended ==
  ASSUME Inv, LeavingIsMade, NEW c \in Conn, UNCHANGED <<s, shuttingDown>>, NotFaster,
         \A d \in Conn : d # c => rs'[d] = rs[d] /\ sess'[d] = sess[d],
         rs'[c].made = rs[c].made, rs[c].goaway => rs'[c].goaway,
         Tended(c)
  PROVE  LeavingIsMade' /\ \A d \in Conn : Tended(d)
<1>1. shuttingDown \subseteq Conn
  BY DEF Inv, TypeOK
<1>2. LeavingIsMade'
  BY <1>1 DEF LeavingIsMade
<1>3. \A d \in Conn : d # c => Tended(d)
  BY SameTended DEF Maintains
<1> QED BY <1>2, <1>3

\* Events of Node's session.
LEMMA SessionWatched ==
  ASSUME Inv, LeavingIsMade, NEW c \in Conn, Session(c)
  PROVE  LeavingIsMade' /\ NotFaster /\ \A d \in Conn : Tended(d)
<1>t. /\ rs \in [Conn -> ReadyClosure] /\ sess \in [Conn -> NodeSession] /\ TypeOK
      /\ rs[c] \in ReadyClosure
  BY DEF Inv, TypeOK
<1>d. ASSUME NEW ev, sess' = [sess EXCEPT ![c] = Destroyed(@, ev)]
      PROVE  sess'[c].st = "destroyed" /\ \A d \in Conn : d # c => sess'[d] = sess[d]
  BY <1>t, <1>d, DestroyedStep
<1>p. ASSUME rs' = [rs EXCEPT ![c].pingTimeout = FALSE]
      PROVE  /\ \A d \in Conn : d # c => rs'[d] = rs[d]
             /\ rs'[c].made = rs[c].made /\ rs'[c].goaway = rs[c].goaway
  BY <1>t, <1>p DEF ReadyClosure
<1>e. ASSUME UNCHANGED <<s, shuttingDown, doublings>>,
             rs' = [rs EXCEPT ![c].pingTimeout = FALSE],
             \E ev \in {"close", "error", "cancel"} : sess' = [sess EXCEPT ![c] = Destroyed(@, ev)]
      PROVE  LeavingIsMade' /\ NotFaster /\ \A d \in Conn : Tended(d)
  BY <1>e, <1>d, <1>p, EndTended DEF NotFaster, Tended, NeedsPings
<1>1. CASE OnConnect(c)
  <2>1. \A d \in Conn : sess[d].st = "destroyed" => sess'[d].st = "destroyed"
    BY <1>1, <1>t DEF OnConnect
  <2> QED BY <1>1, <2>1, StillTended DEF OnConnect
<1>2. CASE SessionLost(c)
  BY <1>2, <1>e DEF SessionLost
<1>3. CASE Drained(c)
  BY <1>3, <1>e DEF Drained
<1>4. CASE Silence(c)
  <2>1. \A d \in Conn : sess[d].st = "destroyed" => sess'[d].st = "destroyed"
    BY <1>4, <1>t DEF Silence, NodeSession
  <2> QED BY <1>4, <2>1, StillTended DEF Silence
<1>5. ASSUME NEW evs, Emits(c, evs)
      PROVE  /\ sess'[c].st = "destroyed"
             /\ \A d \in Conn : sess[d].st = "destroyed" => sess'[d].st = "destroyed"
  BY <1>5, <1>t DEF Emits, NodeSession
<1>6. ASSUME NEW evs, Emits(c, evs), UNCHANGED doublings,
             \/ \E next \in {closed, error} : RunHook(c, next)
             \/ Keep(rs)
      PROVE  LeavingIsMade' /\ NotFaster /\ \A d \in Conn : Tended(d)
  <2>1. Tended(c) /\ NotFaster
    BY <1>5, <1>6 DEF Tended, NeedsPings, NotFaster
  <2>2. CASE \E next \in {closed, error} : RunHook(c, next)
    <3>1. /\ LeavingIsMade'
          /\ \A d \in Conn : d # c /\ Maintains(d)' =>
              /\ Maintains(d) /\ rs'[d].streams = rs[d].streams
              /\ rs'[d].pingInterval = rs[d].pingInterval
              /\ rs'[d].pingTimeout = rs[d].pingTimeout
      BY <2>2, RunHookWatched
    <3>2. ASSUME NEW d \in Conn, d # c PROVE Tended(d)
      BY <1>5, <1>6, <3>1, <3>2, SameTended DEF Tended
    <3> QED BY <2>1, <3>1, <3>2
  <2>3. CASE Keep(rs)
    <3>1. UNCHANGED <<s, shuttingDown, doublings, rs>>
      BY <1>6, <2>3 DEF Keep, managerVars
    <3> QED BY <1>5, <1>6, <3>1, StillTended
  <2> QED BY <1>6, <2>2, <2>3
<1>7. CASE EmitClose(c)
  BY <1>6, <1>7 DEF EmitClose
<1>8. CASE EmitError(c)
  <2>1. closedOrError(sess[c].ev) \in {closed, error}
    BY DEF closedOrError
  <2> QED BY <1>6, <1>8, <2>1 DEF EmitError
<1>9. CASE PingAck(c)
  <2> DEFINE pong == [rs EXCEPT ![c].pingTimeout = FALSE]
             verifies == Head(sess[c].pings) = "verify"
  <2>1. UNCHANGED <<s, shuttingDown, doublings>>
    BY <1>9 DEF PingAck
  <2>2. CASE rs' = pong /\ sess' = [sess EXCEPT ![c] = Destroyed(@, "error")]
    BY <1>e, <2>1, <2>2
  <2>3. CASE /\ sess' = [sess EXCEPT ![c].pings = Tail(@)]
             /\ rs' = [pong EXCEPT ![c] = ResetPingInterval(Alive(@))]
    <3>1. \A d \in Conn : sess'[d].st = sess[d].st
      BY <1>t, <2>3 DEF NodeSession
    <3>2. /\ pong[c] \in ReadyClosure /\ pong[c].made = rs[c].made
          /\ pong[c].goaway = rs[c].goaway
      BY <1>t DEF ReadyClosure
    <3>3. rs' = [rs EXCEPT ![c] = ResetPingInterval(Alive(pong[c]))]
      <4>1. rs' = [rs EXCEPT ![c] = ResetPingInterval(Alive(pong[c]))]
        BY <1>t, <2>3
      <4> QED BY <4>1
    <3> HIDE DEF pong
    <3> QED BY <2>1, <3>1, <3>2, <3>3, ResetTended
  <2>4. CASE /\ sess' = [sess EXCEPT ![c].pings = Tail(@)]
             /\ rs' = [pong EXCEPT ![c] = Alive(@)]
             /\ ver' = [ver EXCEPT ![c].p = "pinged"]
    <3>1. ver'[c].p # "none"
      BY <2>4 DEF Inv, TypeOK, VerifyPromise
    <3>2. \A d \in Conn : d # c => rs'[d] = rs[d] /\ sess'[d] = sess[d]
      BY <1>t, <2>4
    <3>3. rs'[c].made = rs[c].made /\ rs'[c].goaway = rs[c].goaway
      BY <1>t, <2>4 DEF Alive, ReadyClosure
    <3> QED BY <2>1, <3>1, <3>2, <3>3, EndTended DEF Tended, NotFaster
  <2>5. \/ rs' = pong /\ sess' = [sess EXCEPT ![c] = Destroyed(@, "error")]
        \/ /\ sess' = [sess EXCEPT ![c].pings = Tail(@)]
           /\ rs' = [pong EXCEPT ![c] = ResetPingInterval(Alive(@))]
        \/ /\ sess' = [sess EXCEPT ![c].pings = Tail(@)]
           /\ rs' = [pong EXCEPT ![c] = Alive(@)]
           /\ ver' = [ver EXCEPT ![c].p = "pinged"]
    BY <1>9 DEF PingAck
  <2> QED BY <2>2, <2>3, <2>4, <2>5
<1>10. ASSUME NEW code, OnGoaway(c, code)
       PROVE  LeavingIsMade' /\ NotFaster /\ \A d \in Conn : Tended(d)
  <2> DEFINE dies == \/ code # "noError"
                     \/ rs[c].on /\ rs[c].streams = 0 /\ NodeMajor >= 18
  <2>1. UNCHANGED <<s, shuttingDown>> /\ NotFaster
    <3>1. doublings' = doublings \/ doublings' = doublings + 1
      BY <1>10 DEF OnGoaway
    <3> QED BY <1>10, <3>1, ConfigAssumption DEF OnGoaway, NotFaster, Inv, TypeOK
  <2>2. /\ rs'[c].made = rs[c].made /\ (rs[c].goaway => rs'[c].goaway)
        /\ rs'[c].streams = rs[c].streams /\ rs'[c].pingInterval = rs[c].pingInterval
        /\ ~dies => rs'[c].pingTimeout = rs[c].pingTimeout
        /\ \A d \in Conn : d # c => rs'[d] = rs[d]
    <3> HIDE DEF dies
    <3>1. rs' = [rs EXCEPT ![c].goaway = @ \/ rs[c].on, ![c].pingTimeout = @ /\ ~dies]
      BY <1>10 DEF OnGoaway, dies
    <3> QED BY <1>t, <3>1 DEF ReadyClosure
  <2>3. CASE dies
    <3>1. \E ev \in {"cancel", "error"} : sess' = [sess EXCEPT ![c] = Destroyed(@, ev)]
      BY <1>10, <2>3 DEF OnGoaway
    <3>2. Tended(c)
      BY <1>d, <3>1 DEF Tended, NeedsPings
    <3> QED BY <1>d, <2>1, <2>2, <3>1, <3>2, EndTended
  <2>4. CASE ~dies
    <3>1. sess' = [sess EXCEPT ![c].st = "closing"] /\ sess[c].st \in {"open", "closing"}
      BY <1>10, <2>4 DEF OnGoaway
    <3>2. Tended(c)
      BY <2>1, <2>2, <2>4, <3>1, SameTended DEF Maintains
    <3>3. \A d \in Conn : d # c => sess'[d] = sess[d]
      BY <1>t, <3>1
    <3> QED BY <2>1, <2>2, <3>2, <3>3, EndTended
  <2> QED BY <2>3, <2>4
<1> QED BY <1>1, <1>2, <1>3, <1>4, <1>7, <1>8, <1>9, <1>10 DEF Session

\* Timers.
LEMMA TimerWatched ==
  ASSUME Inv, LeavingIsMade, NEW c \in Conn, Timer(c)
  PROVE  LeavingIsMade' /\ NotFaster /\ \A d \in Conn : Tended(d)
<1>t. /\ rs \in [Conn -> ReadyClosure] /\ sess \in [Conn -> NodeSession] /\ TypeOK
      /\ rs[c] \in ReadyClosure
  BY DEF Inv, TypeOK
<1>0. NotFaster
  BY DEF Timer, Elapse, OnPingInterval, OnPingTimeout, OnIdleTimeout, NotFaster
<1>1. CASE Elapse(c)
  <2>1. /\ UNCHANGED <<s, shuttingDown, sess>>
        /\ rs' = [rs EXCEPT ![c].stale = TRUE]
    BY <1>1 DEF Elapse
  <2>2. /\ \A d \in Conn : d # c => rs'[d] = rs[d] /\ sess'[d] = sess[d]
        /\ rs'[c].made = rs[c].made /\ rs'[c].goaway = rs[c].goaway
        /\ rs'[c].streams = rs[c].streams /\ rs'[c].pingInterval = rs[c].pingInterval
        /\ rs'[c].pingTimeout = rs[c].pingTimeout
    BY <1>t, <2>1 DEF ReadyClosure
  <2>3. Tended(c)
    BY <2>1, <2>2, SameTended DEF Maintains
  <2> QED BY <1>0, <2>1, <2>2, <2>3, EndTended
<1>2. CASE OnPingInterval(c)
  <2>1. /\ UNCHANGED <<s, shuttingDown>>
        /\ rs' = [rs EXCEPT ![c].pingInterval = FALSE, ![c].pingTimeout = TRUE]
        /\ sess' = sess \/ sess' = [sess EXCEPT ![c].pings = Append(@, "keep")]
    BY <1>2 DEF OnPingInterval
  <2>2. /\ \A d \in Conn : d # c => rs'[d] = rs[d] /\ sess'[d] = sess[d]
        /\ rs'[c].made = rs[c].made /\ rs'[c].goaway = rs[c].goaway
        /\ rs'[c].pingTimeout
    BY <1>t, <2>1 DEF ReadyClosure
  <2>3. Tended(c)
    BY <2>2 DEF Tended, WatchedStream
  <2> QED BY <1>0, <2>1, <2>2, <2>3, EndTended
<1>3. CASE OnPingTimeout(c)
  <2>1. /\ UNCHANGED <<s, shuttingDown>>
        /\ rs' = [rs EXCEPT ![c].pingTimeout = FALSE]
        /\ sess' = [sess EXCEPT ![c] = Destroyed(@, "error")]
    BY <1>3 DEF OnPingTimeout
  <2>2. /\ \A d \in Conn : d # c => rs'[d] = rs[d] /\ sess'[d] = sess[d]
        /\ rs'[c].made = rs[c].made /\ rs'[c].goaway = rs[c].goaway
        /\ sess'[c].st = "destroyed"
    BY <1>t, <2>1, DestroyedStep DEF ReadyClosure
  <2>3. Tended(c)
    BY <2>2 DEF Tended, NeedsPings
  <2> QED BY <1>0, <2>1, <2>2, <2>3, EndTended
<1>4. CASE OnIdleTimeout(c)
  <2>1. /\ RunHook(c, closed) /\ rs[c].idleTimeout
        /\ sess' = sess \/ (sess' = [sess EXCEPT ![c].st = "closing"] /\ ~Unusable(c))
    BY <1>4 DEF OnIdleTimeout
  <2>2. \A d \in Conn : sess[d].st = "destroyed" => sess'[d].st = "destroyed"
    BY <1>t, <2>1 DEF Unusable
  <2>3. rs[c].streams = 0
    BY <2>1 DEF Inv, ClosuresConsistent, IdleTimerStopped
  <2>4. /\ LeavingIsMade' /\ rs'[c].streams = rs[c].streams
        /\ \A d \in Conn : d # c /\ Maintains(d)' =>
              /\ Maintains(d) /\ rs'[d].streams = rs[d].streams
              /\ rs'[d].pingInterval = rs[d].pingInterval
              /\ rs'[d].pingTimeout = rs[d].pingTimeout
    BY <2>1, RunHookWatched
  <2>5. Tended(c)
    BY <2>3, <2>4 DEF Tended, NeedsPings
  <2>6. ASSUME NEW d \in Conn, d # c PROVE Tended(d)
    BY <2>2, <2>4, <2>6, SameTended DEF Tended
  <2> QED BY <1>0, <2>4, <2>5, <2>6
<1> QED BY <1>1, <1>2, <1>3, <1>4 DEF Timer

-----------------------------------------------------------------------------
(* The theorem.                                                               *)

\* Initially nothing is verified, shutting down or ready.
LEMMA InitWatched == Init => WatchInv
BY DEF Init, WatchInv, Noted, PingsNoted, ReactionsNoted, LeavingIsMade, OpenStreamsWatched,
       Maintains, closed, ready

\* The promise of a verification is never taken back, in any step.
LEMMA LaterNext == ASSUME Inv, Next PROVE Later
<1>t. /\ s \in StateObject /\ dial \in [Conn -> DialClosure] /\ ver \in [Conn -> VerifyPromise]
      /\ call \in [Caller -> CallState] /\ jobs \in Seq(Job) /\ TypeOK
      /\ ExitDial(dial) \in [Conn -> DialClosure]
  BY ExitDialType DEF Inv, TypeOK
<1>1. ASSUME NEW w \in Caller, NEW op \in Op, NEW J \in Seq(Job), GotoReady(w, op, J)
      PROVE  Later
  <2> DEFINE C == [call EXCEPT ![w] = Pending(op)]
  <2>1. C \in [Caller -> CallState] /\ <<w>> \in Seq(Caller)
    BY <1>t DEF Pending, CallState
  <2> HIDE DEF C
  <2>2. CASE Fresh # {} /\ Await(connecting(NewConn), <<w>>, Dialling(dial, NewConn), ver, C, J)
    <3>1. /\ connecting(NewConn) \in StateObject
          /\ Dialling(dial, NewConn) \in [Conn -> DialClosure]
      BY <1>t, <2>2, NewConnType, StateTypes, DiallingType
    <3> QED BY <1>t, <2>1, <2>2, <3>1, AwaitKeeps DEF Later
  <2>3. CASE /\ s.t = "ready"
             /\ Await(verifying(s.c), <<w>>, dial,
                      [ver EXCEPT ![s.c] = [p |-> "pending", q |-> <<>>]], C, J)
    <3> DEFINE V == [ver EXCEPT ![s.c] = [p |-> "pending", q |-> <<>>]]
    <3>1. s.c \in Conn /\ verifying(s.c) \in StateObject
      BY <1>t, <2>3, StateConn, StateTypes
    <3>2. V \in [Conn -> VerifyPromise] /\ \A c \in Conn : ver[c].p # "none" => V[c].p # "none"
      BY <1>t, <3>1 DEF VerifyPromise
    <3>3. Await(verifying(s.c), <<w>>, dial, V, C, J)
      BY <2>3
    <3> HIDE DEF V
    <3> QED BY <1>t, <2>1, <3>1, <3>2, <3>3, AwaitKeeps DEF Later
  <2>4. CASE Await(s, <<w>>, dial, ver, C, J)
    BY <1>t, <2>1, <2>4, AwaitKeeps DEF Later
  <2> QED BY <1>1, <2>2, <2>3, <2>4 DEF GotoReady, C
<1>2. CASE User
  BY <1>1, <1>2, <1>t DEF User, NotifyResponseByteRead, Call, Abort, Later
<1>3. CASE RunJob
  <2>0. jobs # <<>> /\ Head(jobs) \in Job /\ Tail(jobs) \in Seq(Job)
    BY <1>3, <1>t, JobsHeadTail
    DEF RunJob, Dialled, DialFailed, Pinged, Verified, Wake, Resume, NextJob
  <2>1. ASSUME NEW now \in StateObject, NEW q \in Seq(Caller),
               NEW D \in [Conn -> DialClosure], Await(now, q, D, ver, call, Tail(jobs))
        PROVE  Later
    BY <1>t, <2>0, <2>1, AwaitKeeps DEF Later
  <2>2. ASSUME ver' = ver PROVE Later
    BY <2>2 DEF Later
  <2>3. CASE Dialled
    <3>1. Head(jobs).c \in Conn /\ Head(jobs).q \in Seq(Caller) /\ ready(Head(jobs).c) \in StateObject
      BY <2>0, <2>3, StateTypes DEF Dialled, NextJob, Job
    <3> QED BY <1>t, <2>1, <2>2, <2>3, <3>1 DEF Dialled
  <2>4. CASE DialFailed
    BY <2>2, <2>4 DEF DialFailed
  <2>5. CASE Pinged
    BY <1>t, <2>5 DEF Pinged, Later, VerifyPromise
  <2>6. CASE Verified
    <3>1. Head(jobs).next \in StateObject /\ Head(jobs).q \in Seq(Caller)
      BY <2>0, <2>6 DEF Verified, NextJob, Job, StateObject
    <3> QED BY <1>t, <2>1, <2>6, <3>1 DEF Verified
  <2>7. CASE Wake
    <3>1. <<Head(jobs).w>> \in Seq(Caller)
      BY <2>0, <2>7 DEF Wake, NextJob, Job
    <3> QED BY <1>t, <2>1, <2>2, <2>7, <3>1 DEF Wake
  <2>8. CASE Resume
    <3>1. Head(jobs).w \in Caller /\ "request" \in Op
      BY <2>0, <2>8 DEF Resume, NextJob, Job, Op
    <3> QED BY <1>1, <2>0, <2>2, <2>8, <3>1 DEF Resume
  <2> QED BY <1>3, <2>3, <2>4, <2>5, <2>6, <2>7, <2>8 DEF RunJob
<1>4. CASE Stream
  BY <1>4 DEF Stream, OnResponse, OnStreamClose, Later
<1>5. ASSUME NEW c \in Conn, Session(c) PROVE Later
  <2>1. ver' = ver \/ ver' = [ver EXCEPT ![c].p = "pinged"]
    BY <1>5 DEF Session, OnConnect, SessionLost, Drained, Silence, EmitClose, EmitError,
                PingAck, OnGoaway
  <2> QED BY <1>t, <2>1 DEF Later, VerifyPromise
<1>6. ASSUME NEW c \in Conn, Timer(c) PROVE Later
  BY <1>6 DEF Timer, Elapse, OnPingInterval, OnPingTimeout, OnIdleTimeout, Later
<1> QED BY <1>2, <1>3, <1>4, <1>5, <1>6 DEF Next

\* The strengthened property is inductive, beside the invariant of the module.
LEMMA NextWatched == Inv /\ WatchInv /\ [Next]_vars => WatchInv'
<1> SUFFICES ASSUME Inv, WatchInv, [Next]_vars PROVE WatchInv'
  OBVIOUS
<1>1. CASE Next
  <2>1. Noted' /\ Later
    BY <1>1, NotedNext, LaterNext DEF WatchInv
  <2>2. LeavingIsMade' /\ NotFaster /\ \A c \in Conn : Tended(c)
    BY <1>1, <2>1, UserWatched, RunJobWatched, StreamWatched, SessionWatched, TimerWatched
    DEF Next, WatchInv
  <2> QED BY <2>1, <2>2, TendedStep DEF WatchInv
<1>2. CASE UNCHANGED vars
  BY <1>2 DEF vars, WatchInv, Noted, PingsNoted, ReactionsNoted, ReactsTo, LeavingIsMade,
              OpenStreamsWatched, Maintains, NeedsPings, WatchedStream
<1> QED BY <1>1, <1>2

\* Until its first verification, a connection that the manager maintains and
\* that has open streams always has a timer running that leads to the next PING
\* or to its end (registerRequest, resetPingInterval, onPingTimeout).
THEOREM StreamsAreWatched == Spec => []OpenStreamsWatched
<1>1. Init => Inv /\ WatchInv
  BY InitInv, InitWatched
<1>2. Inv /\ WatchInv /\ [Next]_vars => Inv' /\ WatchInv'
  BY NextInv, NextWatched
<1>3. WatchInv => OpenStreamsWatched
  BY DEF WatchInv
<1> QED BY <1>1, <1>2, <1>3, PTL DEF Spec

-----------------------------------------------------------------------------
(* Callers that wait: at most one place each, in the queue of a promise of     *)
(* connect() or verify(), or in a microtask.                                   *)

Has(q, w) == \E i \in DOMAIN q : q[i] = w
Once(q)   == \A i, j \in DOMAIN q : q[i] = q[j] => i = j

\* F are the closures of connect() or the promises of verify().
Queued(F, w) == \E c \in Conn : Has(F[c].q, w)
QueuedOnce(F) ==
  /\ \A c \in Conn : Once(F[c].q)
  /\ \A c, d \in Conn, w \in Caller : Has(F[c].q, w) /\ Has(F[d].q, w) => c = d

Carried(J, w) == \E n \in DOMAIN J : Has(Callers(J[n]), w)
CarriedOnce(J) ==
  /\ \A n \in DOMAIN J : Once(Callers(J[n]))
  /\ \A m, n \in DOMAIN J, w \in Caller :
       Has(Callers(J[m]), w) /\ Has(Callers(J[n]), w) => m = n

\* Between two of its lines, a handler also holds the callers q itself.
Held(D, V, J, C, q) ==
  /\ QueuedOnce(D) /\ QueuedOnce(V) /\ CarriedOnce(J) /\ Once(q)
  /\ \A w \in Caller :
       /\ ~(Queued(D, w) /\ Queued(V, w)) /\ ~(Queued(D, w) /\ Carried(J, w))
       /\ ~(Queued(V, w) /\ Carried(J, w))
       /\ Has(q, w) => ~Queued(D, w) /\ ~Queued(V, w) /\ ~Carried(J, w)
       /\ C[w].st = "pending" <=>
            Queued(D, w) \/ Queued(V, w) \/ Carried(J, w) \/ Has(q, w)

\* The callers of a microtask form a queue.
LEMMA CallersType == ASSUME NEW j \in Job PROVE Callers(j) \in Seq(Caller)
<1>1. CASE j.k \in {"dialled", "dialFailed", "verified"}
  BY <1>1 DEF Job, Callers
<1>2. CASE j.k \in {"wake", "resume"}
  <2>1. j.w \in Caller
    BY <1>2 DEF Job
  <2> QED BY <1>2, <2>1 DEF Callers
<1>3. CASE j.k \notin {"dialled", "dialFailed", "verified", "wake", "resume"}
  BY <1>3 DEF Callers
<1> QED BY <1>1, <1>2, <1>3

\* Nobody waits in an empty queue, and one caller in a queue of one.
LEMMA SmallQueues ==
  /\ Once(<<>>) /\ \A w : ~Has(<<>>, w)
  /\ \A w \in Caller : Once(<<w>>) /\ \A v : Has(<<w>>, v) <=> v = w
BY DEF Once, Has

\* Joining two queues with no caller in common.
LEMMA JoinQueues ==
  ASSUME NEW p \in Seq(Caller), NEW q \in Seq(Caller)
  PROVE  /\ \A w : Has(p \o q, w) <=> Has(p, w) \/ Has(q, w)
         /\ Once(p) /\ Once(q) /\ (\A w \in Caller : ~(Has(p, w) /\ Has(q, w))) => Once(p \o q)
<1>1. /\ DOMAIN (p \o q) = 1..(Len(p) + Len(q)) /\ DOMAIN p = 1..Len(p) /\ DOMAIN q = 1..Len(q)
      /\ Len(p) \in Nat /\ Len(q) \in Nat
      /\ \A n \in DOMAIN (p \o q) : (p \o q)[n] = IF n <= Len(p) THEN p[n] ELSE q[n - Len(p)]
  BY ConcatProperties
<1>2. \A n \in DOMAIN p : n \in DOMAIN (p \o q) /\ (p \o q)[n] = p[n] /\ p[n] \in Caller
  BY <1>1
<1>3. \A n \in DOMAIN q : /\ n + Len(p) \in DOMAIN (p \o q) /\ (p \o q)[n + Len(p)] = q[n]
                          /\ q[n] \in Caller
  BY <1>1
<1>4. \A n \in DOMAIN (p \o q) :
        \/ n \in DOMAIN p /\ (p \o q)[n] = p[n]
        \/ n - Len(p) \in DOMAIN q /\ (p \o q)[n] = q[n - Len(p)]
  BY <1>1
<1>5. \A w : Has(p \o q, w) <=> Has(p, w) \/ Has(q, w)
  BY <1>2, <1>3, <1>4 DEF Has
<1>6. ASSUME Once(p), Once(q), \A w \in Caller : ~(Has(p, w) /\ Has(q, w)),
             NEW i \in DOMAIN (p \o q), NEW j \in DOMAIN (p \o q), (p \o q)[i] = (p \o q)[j]
      PROVE  i = j
  <2>1. CASE i \in DOMAIN p /\ j \in DOMAIN p
    BY <1>2, <1>6, <2>1 DEF Once
  <2>2. CASE i - Len(p) \in DOMAIN q /\ (p \o q)[i] = q[i - Len(p)]
             /\ j - Len(p) \in DOMAIN q /\ (p \o q)[j] = q[j - Len(p)]
    <3>1. i - Len(p) = j - Len(p)
      BY <1>6, <2>2 DEF Once
    <3> QED BY <1>1, <3>1
  <2>3. ASSUME NEW m \in DOMAIN p, NEW n \in DOMAIN q, p[m] = q[n] PROVE FALSE
    BY <1>2, <1>6, <2>3 DEF Has
  <2> QED BY <1>4, <1>6, <2>1, <2>2, <2>3, <1>2
<1> QED BY <1>5, <1>6 DEF Once

\* Callers q join the queue of c.
LEMMA JoinOne ==
  ASSUME NEW F, NEW G, NEW c \in Conn, NEW q \in Seq(Caller),
         F[c].q \in Seq(Caller), G[c].q = F[c].q \o q,
         \A d \in Conn : d # c => G[d].q = F[d].q
  PROVE  /\ \A w : Queued(G, w) <=> Queued(F, w) \/ Has(q, w)
         /\ QueuedOnce(F) /\ Once(q) /\ (\A w \in Caller : ~(Queued(F, w) /\ Has(q, w)))
              => QueuedOnce(G)
<1>1. \A w : Has(G[c].q, w) <=> Has(F[c].q, w) \/ Has(q, w)
  BY JoinQueues
<1>2. \A d \in Conn : d # c => \A w : Has(G[d].q, w) <=> Has(F[d].q, w)
  BY DEF Has
<1>3. \A w : Queued(G, w) <=> Queued(F, w) \/ Has(q, w)
  BY <1>1, <1>2 DEF Queued
<1>4. ASSUME QueuedOnce(F), Once(q), \A w \in Caller : ~(Queued(F, w) /\ Has(q, w))
      PROVE  QueuedOnce(G)
  <2>1. \A w \in Caller : ~(Has(F[c].q, w) /\ Has(q, w))
    BY <1>4 DEF Queued
  <2>2. Once(G[c].q)
    BY <1>4, <2>1, JoinQueues DEF QueuedOnce
  <2>3. \A d \in Conn : d # c => Once(G[d].q)
    BY <1>4 DEF QueuedOnce, Once
  <2>4. ASSUME NEW d \in Conn, NEW e \in Conn, NEW w \in Caller,
               Has(G[d].q, w), Has(G[e].q, w)
        PROVE  d = e
    BY <1>1, <1>2, <1>4, <2>4 DEF QueuedOnce, Queued
  <2> QED BY <2>2, <2>3, <2>4 DEF QueuedOnce
<1> QED BY <1>3, <1>4

\* The queue of c is taken.
LEMMA TakeOne ==
  ASSUME NEW F, NEW G, NEW c \in Conn, G[c].q = <<>>,
         \A d \in Conn : d # c => G[d].q = F[d].q, QueuedOnce(F)
  PROVE  /\ QueuedOnce(G) /\ Once(F[c].q)
         /\ \A w : Queued(F, w) <=> Queued(G, w) \/ Has(F[c].q, w)
         /\ \A w \in Caller : ~(Queued(G, w) /\ Has(F[c].q, w))
<1>1. Once(G[c].q) /\ \A w : ~Has(G[c].q, w)
  BY SmallQueues
<1>2. \A d \in Conn : d # c => \A w : Has(G[d].q, w) <=> Has(F[d].q, w)
  BY DEF Has
<1>3. \A d \in Conn : d # c => Once(G[d].q)
  BY DEF QueuedOnce, Once
<1>4. QueuedOnce(G)
  BY <1>1, <1>2, <1>3 DEF QueuedOnce
<1> QED BY <1>1, <1>2, <1>4 DEF QueuedOnce, Queued

\* Only the queues count.
LEMMA SameQueues ==
  ASSUME NEW F, NEW G, \A c \in Conn : G[c].q = F[c].q
  PROVE  (\A w : Queued(G, w) <=> Queued(F, w)) /\ (QueuedOnce(F) => QueuedOnce(G))
<1>1. \A c \in Conn : (\A w : Has(G[c].q, w) <=> Has(F[c].q, w)) /\ (Once(F[c].q) => Once(G[c].q))
  BY DEF Has, Once
<1> QED BY <1>1 DEF Queued, QueuedOnce

\* Microtasks behind others.
LEMMA JoinJobs ==
  ASSUME NEW J \in Seq(Job), NEW K \in Seq(Job)
  PROVE  /\ \A w : Carried(J \o K, w) <=> Carried(J, w) \/ Carried(K, w)
         /\ CarriedOnce(J) /\ CarriedOnce(K) /\ (\A w \in Caller : ~(Carried(J, w) /\ Carried(K, w)))
              => CarriedOnce(J \o K)
<1>1. /\ DOMAIN (J \o K) = 1..(Len(J) + Len(K)) /\ DOMAIN J = 1..Len(J) /\ DOMAIN K = 1..Len(K)
      /\ Len(J) \in Nat /\ Len(K) \in Nat
      /\ \A n \in DOMAIN (J \o K) : (J \o K)[n] = IF n <= Len(J) THEN J[n] ELSE K[n - Len(J)]
  BY ConcatProperties
<1>2. \A n \in DOMAIN J : n \in DOMAIN (J \o K) /\ (J \o K)[n] = J[n]
  BY <1>1
<1>3. \A n \in DOMAIN K : n + Len(J) \in DOMAIN (J \o K) /\ (J \o K)[n + Len(J)] = K[n]
  BY <1>1
<1>4. \A n \in DOMAIN (J \o K) :
        \/ n \in DOMAIN J /\ (J \o K)[n] = J[n]
        \/ n - Len(J) \in DOMAIN K /\ (J \o K)[n] = K[n - Len(J)]
  BY <1>1
<1>5. \A w : Carried(J \o K, w) <=> Carried(J, w) \/ Carried(K, w)
  <2>1. ASSUME NEW w, Carried(J \o K, w) PROVE Carried(J, w) \/ Carried(K, w)
    <3>1. PICK n \in DOMAIN (J \o K) : Has(Callers((J \o K)[n]), w)
      BY <2>1 DEF Carried
    <3> QED BY <3>1, <1>4 DEF Carried
  <2>2. ASSUME NEW w, Carried(J, w) PROVE Carried(J \o K, w)
    <3>1. PICK n \in DOMAIN J : Has(Callers(J[n]), w)
      BY <2>2 DEF Carried
    <3> QED BY <3>1, <1>2 DEF Carried
  <2>3. ASSUME NEW w, Carried(K, w) PROVE Carried(J \o K, w)
    <3>1. PICK n \in DOMAIN K : Has(Callers(K[n]), w)
      BY <2>3 DEF Carried
    <3> QED BY <3>1, <1>3 DEF Carried
  <2> QED BY <2>1, <2>2, <2>3
<1>6. ASSUME CarriedOnce(J), CarriedOnce(K), \A w \in Caller : ~(Carried(J, w) /\ Carried(K, w))
      PROVE  CarriedOnce(J \o K)
  <2>1. ASSUME NEW n \in DOMAIN (J \o K) PROVE Once(Callers((J \o K)[n]))
    BY <1>4, <1>6 DEF CarriedOnce
  <2>2. ASSUME NEW m \in DOMAIN (J \o K), NEW n \in DOMAIN (J \o K), NEW w \in Caller,
               Has(Callers((J \o K)[m]), w), Has(Callers((J \o K)[n]), w)
        PROVE  m = n
    <3>1. CASE m \in DOMAIN J /\ n \in DOMAIN J
      BY <1>2, <1>6, <2>2, <3>1 DEF CarriedOnce
    <3>2. CASE m - Len(J) \in DOMAIN K /\ (J \o K)[m] = K[m - Len(J)]
               /\ n - Len(J) \in DOMAIN K /\ (J \o K)[n] = K[n - Len(J)]
      <4>1. m - Len(J) = n - Len(J)
        BY <1>6, <2>2, <3>2 DEF CarriedOnce
      <4> QED BY <1>1, <4>1
    <3>3. ASSUME NEW i \in DOMAIN J, NEW k \in DOMAIN K, Has(Callers(J[i]), w), Has(Callers(K[k]), w)
          PROVE  FALSE
      BY <1>6, <3>3 DEF Carried
    <3> QED BY <1>4, <2>2, <3>1, <3>2, <3>3
  <2> QED BY <2>1, <2>2 DEF CarriedOnce
<1> QED BY <1>5, <1>6

\* A queue of one microtask, and none.
LEMMA OneJob ==
  ASSUME NEW j \in Job
  PROVE  /\ \A w : Carried(<<j>>, w) <=> Has(Callers(j), w)
         /\ Once(Callers(j)) => CarriedOnce(<<j>>)
<1>1. DOMAIN <<j>> = {1} /\ <<j>>[1] = j
  OBVIOUS
<1> QED BY <1>1 DEF Carried, CarriedOnce

\* The first microtask is taken.
LEMMA TakeJob ==
  ASSUME NEW J \in Seq(Job), J # <<>>, CarriedOnce(J)
  PROVE  /\ CarriedOnce(Tail(J)) /\ Once(Callers(Head(J)))
         /\ \A w : Carried(J, w) <=> Carried(Tail(J), w) \/ Has(Callers(Head(J)), w)
         /\ \A w \in Caller : ~(Carried(Tail(J), w) /\ Has(Callers(Head(J)), w))
<1>0. /\ DOMAIN J = 1..Len(J) /\ Len(J) \in Nat \ {0} /\ Head(J) = J[1]
      /\ DOMAIN Tail(J) = 1..(Len(J) - 1)
      /\ \A n \in 1..(Len(J) - 1) : Tail(J)[n] = J[n + 1]
  <2>1. Tail(J) \in Seq(Job) /\ Len(Tail(J)) = Len(J) - 1 /\ Len(J) \in Nat \ {0}
    OBVIOUS
  <2>2. DOMAIN J = 1..Len(J) /\ DOMAIN Tail(J) = 1..Len(Tail(J)) /\ Head(J) = J[1]
    BY <2>1
  <2>3. ASSUME NEW n \in 1..(Len(J) - 1) PROVE Tail(J)[n] = J[n + 1]
    OBVIOUS
  <2> QED BY <2>1, <2>2, <2>3
<1>1. /\ Head(J) = J[1] /\ 1 \in DOMAIN J /\ DOMAIN Tail(J) \subseteq Nat \ {0}
      /\ \A n \in DOMAIN Tail(J) : n + 1 \in DOMAIN J /\ Tail(J)[n] = J[n + 1] /\ n + 1 # 1
      /\ \A n \in DOMAIN J : n = 1 \/ (n - 1 \in DOMAIN Tail(J) /\ Tail(J)[n - 1] = J[n])
  BY <1>0
<1>2. CarriedOnce(Tail(J))
  <2>1. \A n \in DOMAIN Tail(J) : Once(Callers(Tail(J)[n]))
    BY <1>1 DEF CarriedOnce
  <2>2. ASSUME NEW m \in DOMAIN Tail(J), NEW n \in DOMAIN Tail(J), NEW w \in Caller,
               Has(Callers(Tail(J)[m]), w), Has(Callers(Tail(J)[n]), w)
        PROVE  m = n
    <3>1. m + 1 = n + 1
      BY <1>1, <2>2 DEF CarriedOnce
    <3> QED BY <1>1, <3>1
  <2> QED BY <2>1, <2>2 DEF CarriedOnce
<1>3. Once(Callers(Head(J)))
  BY <1>1 DEF CarriedOnce
<1>4. ASSUME NEW w, Carried(J, w) PROVE Carried(Tail(J), w) \/ Has(Callers(Head(J)), w)
  <2>1. PICK n \in DOMAIN J : Has(Callers(J[n]), w)
    BY <1>4 DEF Carried
  <2> QED BY <2>1, <1>1 DEF Carried
<1>5. ASSUME NEW w, Carried(Tail(J), w) PROVE Carried(J, w)
  <2>1. PICK n \in DOMAIN Tail(J) : Has(Callers(Tail(J)[n]), w)
    BY <1>5 DEF Carried
  <2> QED BY <2>1, <1>1 DEF Carried
<1>6. ASSUME NEW w, Has(Callers(Head(J)), w) PROVE Carried(J, w)
  BY <1>1, <1>6 DEF Carried
<1>7. ASSUME NEW w \in Caller, Carried(Tail(J), w), Has(Callers(Head(J)), w) PROVE FALSE
  <2>1. PICK n \in DOMAIN Tail(J) : Has(Callers(Tail(J)[n]), w)
    BY <1>7 DEF Carried
  <2>2. n + 1 = 1
    BY <1>1, <1>7, <2>1 DEF CarriedOnce
  <2> QED BY <2>2, <1>1
<1> QED BY <1>2, <1>3, <1>4, <1>5, <1>6, <1>7

\* One microtask for each of the callers q.
LEMMA OneEach ==
  ASSUME NEW q \in Seq(Caller), NEW K \in Seq(Job), DOMAIN K = DOMAIN q,
         \A i \in DOMAIN q : Callers(K[i]) = <<q[i]>>
  PROVE  /\ \A w : Carried(K, w) <=> Has(q, w)
         /\ Once(q) => CarriedOnce(K)
<1>1. \A i \in DOMAIN q : q[i] \in Caller
  OBVIOUS
<1>2. \A i \in DOMAIN q : Once(Callers(K[i])) /\ \A w : Has(Callers(K[i]), w) <=> w = q[i]
  BY <1>1, SmallQueues
<1>3. \A w : Carried(K, w) <=> Has(q, w)
  <2>1. ASSUME NEW w, Carried(K, w) PROVE Has(q, w)
    <3>1. PICK i \in DOMAIN K : Has(Callers(K[i]), w)
      BY <2>1 DEF Carried
    <3> QED BY <3>1, <1>2 DEF Has
  <2>2. ASSUME NEW w, Has(q, w) PROVE Carried(K, w)
    <3>1. PICK i \in DOMAIN q : q[i] = w
      BY <2>2 DEF Has
    <3>2. Has(Callers(K[i]), w)
      BY <3>1, <1>2
    <3> QED BY <3>1, <3>2 DEF Carried
  <2> QED BY <2>1, <2>2
<1>4. ASSUME Once(q), NEW m \in DOMAIN K, NEW n \in DOMAIN K, NEW w \in Caller,
             Has(Callers(K[m]), w), Has(Callers(K[n]), w)
      PROVE  m = n
  <2>1. q[m] = w /\ q[n] = w
    BY <1>2, <1>4
  <2> QED BY <1>4, <2>1 DEF Once
<1> QED BY <1>2, <1>3, <1>4 DEF CarriedOnce

\* Only the queues, and who waits, count.
LEMMA HeldSame ==
  ASSUME NEW D, NEW V, NEW J, NEW C, NEW q, NEW E, NEW W, NEW B, Held(D, V, J, C, q),
         \A c \in Conn : E[c].q = D[c].q, \A c \in Conn : W[c].q = V[c].q,
         \A w \in Caller : B[w].st = "pending" <=> C[w].st = "pending"
  PROVE  Held(E, W, J, B, q)
<1>1. (\A w : Queued(E, w) <=> Queued(D, w)) /\ (QueuedOnce(D) => QueuedOnce(E))
  BY SameQueues
<1>2. (\A w : Queued(W, w) <=> Queued(V, w)) /\ (QueuedOnce(V) => QueuedOnce(W))
  BY SameQueues
<1> QED BY <1>1, <1>2 DEF Held

\* A reaction begins: its callers are in hand.
LEMMA HeldPop ==
  ASSUME NEW D, NEW V, NEW J \in Seq(Job), NEW C, J # <<>>, Held(D, V, J, C, <<>>)
  PROVE  Held(D, V, Tail(J), C, Callers(Head(J)))
<1>1. /\ CarriedOnce(Tail(J)) /\ Once(Callers(Head(J)))
      /\ \A w : Carried(J, w) <=> Carried(Tail(J), w) \/ Has(Callers(Head(J)), w)
      /\ \A w \in Caller : ~(Carried(Tail(J), w) /\ Has(Callers(Head(J)), w))
  BY TakeJob DEF Held
<1> QED BY <1>1, SmallQueues DEF Held

\* A reaction is queued with the callers in hand.
LEMMA HeldPush ==
  ASSUME NEW D, NEW V, NEW J \in Seq(Job), NEW C, NEW j \in Job, NEW q,
         q = Callers(j), Held(D, V, J, C, q)
  PROVE  Held(D, V, Append(J, j), C, <<>>)
<1>1. Append(J, j) = J \o <<j>> /\ <<j>> \in Seq(Job)
  BY AppendIsConcat
<1>2. (\A w : Carried(<<j>>, w) <=> Has(q, w)) /\ CarriedOnce(<<j>>)
  BY OneJob DEF Held
<1>3. \A w : Carried(Append(J, j), w) <=> Carried(J, w) \/ Has(q, w)
  <2>1. \A w : Carried(J \o <<j>>, w) <=> Carried(J, w) \/ Carried(<<j>>, w)
    BY <1>1, JoinJobs
  <2> QED BY <1>1, <1>2, <2>1
<1>4. CarriedOnce(Append(J, j))
  <2>1. CarriedOnce(J) /\ \A w \in Caller : ~(Carried(J, w) /\ Carried(<<j>>, w))
    BY <1>2 DEF Held
  <2> QED BY <1>1, <1>2, <2>1, JoinJobs
<1> QED BY <1>3, <1>4, SmallQueues DEF Held

\* A promise of connect() is settled: its callers are in hand.
LEMMA HeldTakeDial ==
  ASSUME NEW D, NEW V, NEW J, NEW C, NEW E, NEW c \in Conn, Held(D, V, J, C, <<>>),
         E[c].q = <<>>, \A d \in Conn : d # c => E[d].q = D[d].q
  PROVE  Held(E, V, J, C, D[c].q)
<1>1. QueuedOnce(D)
  BY DEF Held
<1>2. /\ QueuedOnce(E) /\ Once(D[c].q)
      /\ \A w : Queued(D, w) <=> Queued(E, w) \/ Has(D[c].q, w)
      /\ \A w \in Caller : ~(Queued(E, w) /\ Has(D[c].q, w))
  BY <1>1, TakeOne
<1> QED BY <1>2, SmallQueues DEF Held

\* A promise of verify() is settled: its callers are in hand.
LEMMA HeldTakeVer ==
  ASSUME NEW D, NEW V, NEW J, NEW C, NEW W, NEW c \in Conn, Held(D, V, J, C, <<>>),
         W[c].q = <<>>, \A d \in Conn : d # c => W[d].q = V[d].q
  PROVE  Held(D, W, J, C, V[c].q)
<1>1. QueuedOnce(V)
  BY DEF Held
<1>2. /\ QueuedOnce(W) /\ Once(V[c].q)
      /\ \A w : Queued(V, w) <=> Queued(W, w) \/ Has(V[c].q, w)
      /\ \A w \in Caller : ~(Queued(W, w) /\ Has(V[c].q, w))
  BY <1>1, TakeOne
<1> QED BY <1>2, SmallQueues DEF Held

\* The callers in hand await a promise of connect().
LEMMA HeldJoinDial ==
  ASSUME NEW D, NEW V, NEW J, NEW C, NEW E, NEW c \in Conn, NEW q \in Seq(Caller),
         Held(D, V, J, C, q), D[c].q \in Seq(Caller),
         E[c].q = D[c].q \o q, \A d \in Conn : d # c => E[d].q = D[d].q
  PROVE  Held(E, V, J, C, <<>>)
<1>1. /\ \A w : Queued(E, w) <=> Queued(D, w) \/ Has(q, w)
      /\ QueuedOnce(D) /\ Once(q) /\ (\A w \in Caller : ~(Queued(D, w) /\ Has(q, w)))
           => QueuedOnce(E)
  BY JoinOne
<1> QED BY <1>1, SmallQueues DEF Held

\* The callers in hand await a promise of verify().
LEMMA HeldJoinVer ==
  ASSUME NEW D, NEW V, NEW J, NEW C, NEW W, NEW c \in Conn, NEW q \in Seq(Caller),
         Held(D, V, J, C, q), V[c].q \in Seq(Caller),
         W[c].q = V[c].q \o q, \A d \in Conn : d # c => W[d].q = V[d].q
  PROVE  Held(D, W, J, C, <<>>)
<1>1. /\ \A w : Queued(W, w) <=> Queued(V, w) \/ Has(q, w)
      /\ QueuedOnce(V) /\ Once(q) /\ (\A w \in Caller : ~(Queued(V, w) /\ Has(q, w)))
           => QueuedOnce(W)
  BY JoinOne
<1> QED BY <1>1, SmallQueues DEF Held

\* Each of the callers in hand gets a microtask of its own.
LEMMA HeldWake ==
  ASSUME NEW D, NEW V, NEW J \in Seq(Job), NEW C, NEW q \in Seq(Caller), NEW K \in Seq(Job),
         Held(D, V, J, C, q), DOMAIN K = DOMAIN q, \A i \in DOMAIN q : Callers(K[i]) = <<q[i]>>
  PROVE  Held(D, V, J \o K, C, <<>>)
<1>1. (\A w : Carried(K, w) <=> Has(q, w)) /\ CarriedOnce(K)
  BY OneEach DEF Held
<1>2. \A w : Carried(J \o K, w) <=> Carried(J, w) \/ Has(q, w)
  BY <1>1, JoinJobs
<1>3. CarriedOnce(J \o K)
  <2>1. CarriedOnce(J) /\ \A w \in Caller : ~(Carried(J, w) /\ Carried(K, w))
    BY <1>1 DEF Held
  <2> QED BY <1>1, <2>1, JoinJobs
<1> QED BY <1>2, <1>3, SmallQueues DEF Held

\* A caller enters gotoReady().
LEMMA HeldEnter ==
  ASSUME NEW D, NEW V, NEW J, NEW C \in [Caller -> CallState], NEW w \in Caller, NEW op \in Op,
         Held(D, V, J, C, <<>>), C[w].st # "pending"
  PROVE  Held(D, V, J, [C EXCEPT ![w] = Pending(op)], <<w>>)
<1>1. \A v \in Caller : [C EXCEPT ![w] = Pending(op)][v].st = "pending"
                          <=> C[v].st = "pending" \/ v = w
  BY DEF Pending
<1>2. Once(<<w>>) /\ \A v : Has(<<w>>, v) <=> v = w
  BY SmallQueues
<1> QED BY <1>1, <1>2, SmallQueues DEF Held

\* The callers in hand are told of an error.
LEMMA HeldDrop ==
  ASSUME NEW D, NEW V, NEW J, NEW C, NEW q, Held(D, V, J, C, q)
  PROVE  Held(D, V, J, Rejected(C, q), <<>>)
<1>1. \A w \in Caller : Rejected(C, q)[w].st = "pending" <=> C[w].st = "pending" /\ ~Has(q, w)
  BY DEF Rejected, Has, Idle
<1> QED BY <1>1, SmallQueues DEF Held

\* The caller in hand has its connection.
LEMMA HeldLeave ==
  ASSUME NEW D, NEW V, NEW J, NEW C \in [Caller -> CallState], NEW w \in Caller, NEW x,
         Held(D, V, J, C, <<w>>), x.st # "pending"
  PROVE  Held(D, V, J, [C EXCEPT ![w] = x], <<>>)
<1>1. \A v \in Caller : [C EXCEPT ![w] = x][v].st = "pending" <=> C[v].st = "pending" /\ v # w
  OBVIOUS
<1>2. \A v : Has(<<w>>, v) <=> v = w
  BY SmallQueues
<1> QED BY <1>1, <1>2, SmallQueues DEF Held

\* Callers that go on waiting find a place, unless the process spins.
LEMMA AwaitHolds ==
  ASSUME NEW now \in StateObject, NEW q \in Seq(Caller), NEW D \in [Conn -> DialClosure],
         NEW V \in [Conn -> VerifyPromise], NEW C \in [Caller -> CallState],
         NEW J \in Seq(Job), Await(now, q, D, V, C, J), proc' = "up",
         Held(D, V, J, C, q)
  PROVE  Held(dial', ver', jobs', call', <<>>)
<1>1. now.t \in {"connecting", "verifying", "ready"} => now.c \in Conn
  BY StateConn
<1>2. \A c \in Conn : D[c].q \in Seq(Caller) /\ V[c].q \in Seq(Caller)
  BY DEF DialClosure, VerifyPromise
<1>3. CASE now.t = "ready"
  <2> DEFINE K == [i \in DOMAIN q |-> [k |-> "resume", w |-> q[i], c |-> now.c]]
  <2>1. /\ jobs' = J \o K /\ call' = C /\ dial' = D /\ ver' = V
        /\ DOMAIN K = DOMAIN q /\ \A i \in DOMAIN q : Callers(K[i]) = <<q[i]>>
    BY <1>3 DEF Await, Callers
  <2>2. K \in Seq(Job)
    BY <1>1, <1>3, WakeupTypes
  <2> HIDE DEF K
  <2> QED BY <2>1, <2>2, HeldWake
<1>4. CASE now.t = "connecting" /\ D[now.c].p = "pending"
  <2>1. dial' = [D EXCEPT ![now.c].q = @ \o q] /\ ver' = V /\ call' = C /\ jobs' = J \o <<>>
    BY <1>4 DEF Await
  <2>2. /\ dial'[now.c].q = D[now.c].q \o q /\ jobs' = J
        /\ \A d \in Conn : d # now.c => dial'[d].q = D[d].q
    BY <1>1, <1>4, <2>1 DEF DialClosure
  <2>3. now.c \in Conn /\ D[now.c].q \in Seq(Caller)
    BY <1>1, <1>2, <1>4
  <2>4. Held(dial', V, J, C, <<>>)
    BY <2>2, <2>3, HeldJoinDial
  <2> QED BY <2>1, <2>2, <2>4
<1>5. CASE now.t = "connecting" /\ D[now.c].p # "pending"
  <2> DEFINE ok == D[now.c].p = "resolved"
             K == [i \in DOMAIN q |-> [k |-> "wake", w |-> q[i], ok |-> ok]]
  <2>1. /\ jobs' = J \o K /\ call' = C /\ dial' = D /\ ver' = V
        /\ DOMAIN K = DOMAIN q /\ \A i \in DOMAIN q : Callers(K[i]) = <<q[i]>>
    BY <1>5 DEF Await, Callers
  <2>2. K \in Seq(Job)
    <3>1. ok \in BOOLEAN
      OBVIOUS
    <3> HIDE DEF ok
    <3> QED BY <1>1, <1>5, <3>1, WakeupTypes
  <2> HIDE DEF K
  <2> QED BY <2>1, <2>2, HeldWake
<1>6. CASE now.t = "verifying" /\ V[now.c].p = "settled"
  <2> DEFINE K == [i \in DOMAIN q |-> [k |-> "wake", w |-> q[i], ok |-> TRUE]]
  <2>1. /\ jobs' = J \o K /\ call' = C /\ dial' = D /\ ver' = V
        /\ DOMAIN K = DOMAIN q /\ \A i \in DOMAIN q : Callers(K[i]) = <<q[i]>>
    BY <1>6 DEF Await, Callers
  <2>2. K \in Seq(Job)
    BY <1>1, <1>6, WakeupTypes
  <2> HIDE DEF K
  <2> QED BY <2>1, <2>2, HeldWake
<1>7. CASE now.t = "verifying" /\ V[now.c].p # "settled"
  <2>1. ver' = [V EXCEPT ![now.c].q = @ \o q] /\ dial' = D /\ call' = C /\ jobs' = J \o <<>>
    BY <1>7 DEF Await
  <2>2. /\ ver'[now.c].q = V[now.c].q \o q /\ jobs' = J
        /\ \A d \in Conn : d # now.c => ver'[d].q = V[d].q
    BY <1>1, <1>7, <2>1 DEF VerifyPromise
  <2>3. now.c \in Conn /\ V[now.c].q \in Seq(Caller)
    BY <1>1, <1>2, <1>7
  <2>4. Held(D, ver', J, C, <<>>)
    BY <2>2, <2>3, HeldJoinVer
  <2> QED BY <2>1, <2>2, <2>4
<1>8. CASE now.t = "error"
  <2>1. dial' = D /\ ver' = V /\ jobs' = J \o <<>> /\ call' = Rejected(C, q)
    BY <1>8 DEF Await
  <2>2. jobs' = J
    BY <2>1
  <2> QED BY <2>1, <2>2, HeldDrop
<1>9. CASE now.t = "closed"
  <2>1. dial' = D /\ ver' = V /\ jobs' = J \o <<>> /\ call' = C /\ q = <<>>
    BY <1>9 DEF Await
  <2>2. jobs' = J
    BY <2>1
  <2> QED BY <2>1, <2>2
<1>10. now.t \in {"closed", "error", "connecting", "verifying", "ready"}
  BY DEF StateObject, closed, error
<1> QED BY <1>3, <1>4, <1>5, <1>6, <1>7, <1>8, <1>9, <1>10

-----------------------------------------------------------------------------
(* Promises and the reactions to them.                                          *)

\* A connection is verified once at a time: at most one PING, then one reaction
\* to it, then one to its promise.
PingsOnce(S, V) ==
  \A c \in Conn :
    /\ S[c].st = "destroyed" => S[c].pings = <<>>
    /\ \A i, j \in DOMAIN S[c].pings :
         S[c].pings[i] = "verify" /\ S[c].pings[j] = "verify" => i = j
    /\ \A i \in DOMAIN S[c].pings : S[c].pings[i] = "verify" => V[c].p = "pending"

IsPinged(j, c)   == j.k = "pinged" /\ j.c = c
IsVerified(j, c) == j.k = "verified" /\ j.next = ready(c)

ReactionsOnce(J, V, x) ==
  \A c \in Conn :
    /\ \A m, n \in DOMAIN J : IsPinged(J[m], c) /\ IsPinged(J[n], c) => m = n
    /\ \A m, n \in DOMAIN J : IsVerified(J[m], c) /\ IsVerified(J[n], c) => m = n
    /\ \A n \in DOMAIN J : /\ IsPinged(J[n], c) => V[c].p = "pinged"
                           /\ IsVerified(J[n], c) => V[c].p = "settled" /\ x # ready(c)

\* What the manager's state x says of the promise of verify(), and a promise
\* that is settled of its callers.
PromiseFits(V, x) ==
  \A c \in Conn :
    /\ x = ready(c) => V[c].p \in {"none", "settled"}
    /\ x = verifying(c) => V[c].p # "none"
    /\ V[c].p \in {"none", "settled"} => V[c].q = <<>>

DialFits(S, D) ==
  \A c \in Conn : /\ S[c].st = "none" => D[c].p = "none"
                  /\ D[c].p # "pending" => D[c].q = <<>>

WaitsFit ==
  PingsOnce(sess, ver) /\ ReactionsOnce(jobs, ver, s) /\ PromiseFits(ver, s) /\ DialFits(sess, dial)

\* A step that neither sends a PING of a verification nor reacts to one.
LEMMA CalmFits ==
  ASSUME WaitsFit, \A c \in Conn : ver'[c].p = ver[c].p,
         PromiseFits(ver', s), PingsOnce(sess', ver), ReactionsOnce(jobs', ver, s),
         \A c \in Conn : (s' = ready(c) => s = ready(c)) /\ (s' = verifying(c) => s = verifying(c)),
         DialFits(sess', dial')
  PROVE  WaitsFit'
<1>1. PingsOnce(sess', ver')
  BY DEF PingsOnce
<1>2. ReactionsOnce(jobs', ver', s')
  BY DEF ReactionsOnce
<1>3. PromiseFits(ver', s')
  BY DEF PromiseFits
<1> QED BY <1>1, <1>2, <1>3 DEF WaitsFit

\* The reactions of a shorter and of a longer queue.
LEMMA OnceParts ==
  ASSUME NEW J \in Seq(Job), NEW V, NEW x, ReactionsOnce(J, V, x)
  PROVE  /\ J # <<>> =>
              /\ ReactionsOnce(Tail(J), V, x)
              /\ \A c \in Conn, n \in DOMAIN Tail(J) :
                   /\ ~(IsPinged(Head(J), c) /\ IsPinged(Tail(J)[n], c))
                   /\ ~(IsVerified(Head(J), c) /\ IsVerified(Tail(J)[n], c))
         /\ \A j \in Job :
              (\A c \in Conn :
                 /\ IsPinged(j, c) => /\ V[c].p = "pinged"
                                      /\ \A n \in DOMAIN J : ~IsPinged(J[n], c)
                 /\ IsVerified(j, c) => /\ V[c].p = "settled" /\ x # ready(c)
                                        /\ \A n \in DOMAIN J : ~IsVerified(J[n], c))
              => ReactionsOnce(Append(J, j), V, x)
         /\ \A K \in Seq(Job) :
              (\A n \in DOMAIN K : K[n].k \notin {"pinged", "verified"})
              => ReactionsOnce(J \o K, V, x)
<1>1. ASSUME J # <<>>
      PROVE  /\ ReactionsOnce(Tail(J), V, x)
             /\ \A c \in Conn, n \in DOMAIN Tail(J) :
                  /\ ~(IsPinged(Head(J), c) /\ IsPinged(Tail(J)[n], c))
                  /\ ~(IsVerified(Head(J), c) /\ IsVerified(Tail(J)[n], c))
  <2>1. /\ Head(J) = J[1] /\ 1 \in DOMAIN J
        /\ \A n \in DOMAIN Tail(J) :
             n \in Nat /\ n + 1 # 1 /\ n + 1 \in DOMAIN J /\ Tail(J)[n] = J[n + 1]
    BY <1>1
  <2>2. \A m, n \in DOMAIN Tail(J) : m + 1 = n + 1 => m = n
    BY <2>1
  <2>3. ASSUME NEW c \in Conn, NEW m \in DOMAIN Tail(J), NEW n \in DOMAIN Tail(J),
               \/ IsPinged(Tail(J)[m], c) /\ IsPinged(Tail(J)[n], c)
               \/ IsVerified(Tail(J)[m], c) /\ IsVerified(Tail(J)[n], c)
        PROVE  m = n
    <3>1. m + 1 = n + 1
      BY <2>1, <2>3 DEF ReactionsOnce
    <3> QED BY <2>2, <3>1
  <2>4. ASSUME NEW c \in Conn, NEW n \in DOMAIN Tail(J)
        PROVE  /\ IsPinged(Tail(J)[n], c) => V[c].p = "pinged"
               /\ IsVerified(Tail(J)[n], c) => V[c].p = "settled" /\ x # ready(c)
    BY <2>1 DEF ReactionsOnce
  <2>5. ASSUME NEW c \in Conn, NEW n \in DOMAIN Tail(J),
               \/ IsPinged(Head(J), c) /\ IsPinged(Tail(J)[n], c)
               \/ IsVerified(Head(J), c) /\ IsVerified(Tail(J)[n], c)
        PROVE  FALSE
    <3>1. n + 1 = 1
      BY <2>1, <2>5 DEF ReactionsOnce
    <3> QED BY <2>1, <3>1
  <2>6. ReactionsOnce(Tail(J), V, x)
    BY <2>3, <2>4 DEF ReactionsOnce
  <2> QED BY <2>5, <2>6
<1>2. ASSUME NEW j \in Job,
             \A c \in Conn :
               /\ IsPinged(j, c) => /\ V[c].p = "pinged"
                                    /\ \A n \in DOMAIN J : ~IsPinged(J[n], c)
               /\ IsVerified(j, c) => /\ V[c].p = "settled" /\ x # ready(c)
                                      /\ \A n \in DOMAIN J : ~IsVerified(J[n], c)
      PROVE  ReactionsOnce(Append(J, j), V, x)
  <2>1. /\ DOMAIN Append(J, j) = 1..(Len(J) + 1) /\ DOMAIN J = 1..Len(J) /\ Len(J) \in Nat
        /\ \A n \in DOMAIN J : Append(J, j)[n] = J[n]
        /\ Append(J, j)[Len(J) + 1] = j
    BY AppendProperties
  <2>2. \A n \in DOMAIN Append(J, j) :
          \/ n \in DOMAIN J /\ Append(J, j)[n] = J[n]
          \/ n = Len(J) + 1 /\ Append(J, j)[n] = j
    BY <2>1
  <2>3. ASSUME NEW c \in Conn, NEW m \in DOMAIN Append(J, j), NEW n \in DOMAIN Append(J, j),
               \/ IsPinged(Append(J, j)[m], c) /\ IsPinged(Append(J, j)[n], c)
               \/ IsVerified(Append(J, j)[m], c) /\ IsVerified(Append(J, j)[n], c)
        PROVE  m = n
    <3>1. CASE m \in DOMAIN J /\ n \in DOMAIN J
      BY <2>1, <2>3, <3>1 DEF ReactionsOnce
    <3>2. CASE \/ m = Len(J) + 1 /\ Append(J, j)[m] = j
               \/ n = Len(J) + 1 /\ Append(J, j)[n] = j
      BY <1>2, <2>2, <2>3, <3>2
    <3> QED BY <2>2, <3>1, <3>2
  <2>4. ASSUME NEW c \in Conn, NEW n \in DOMAIN Append(J, j)
        PROVE  /\ IsPinged(Append(J, j)[n], c) => V[c].p = "pinged"
               /\ IsVerified(Append(J, j)[n], c) => V[c].p = "settled" /\ x # ready(c)
    BY <1>2, <2>2 DEF ReactionsOnce
  <2> QED BY <2>3, <2>4 DEF ReactionsOnce
<1>3. ASSUME NEW K \in Seq(Job), \A n \in DOMAIN K : K[n].k \notin {"pinged", "verified"}
      PROVE  ReactionsOnce(J \o K, V, x)
  <2>1. /\ DOMAIN (J \o K) = 1..(Len(J) + Len(K)) /\ DOMAIN J = 1..Len(J) /\ DOMAIN K = 1..Len(K)
        /\ Len(J) \in Nat /\ Len(K) \in Nat
        /\ \A n \in DOMAIN (J \o K) : (J \o K)[n] = IF n <= Len(J) THEN J[n] ELSE K[n - Len(J)]
    BY ConcatProperties
  <2>2. \A n \in DOMAIN (J \o K) :
          \/ n \in DOMAIN J /\ (J \o K)[n] = J[n]
          \/ n - Len(J) \in DOMAIN K /\ (J \o K)[n] = K[n - Len(J)]
    BY <2>1
  <2>3. ASSUME NEW c \in Conn, NEW n \in DOMAIN (J \o K),
               IsPinged((J \o K)[n], c) \/ IsVerified((J \o K)[n], c)
        PROVE  n \in DOMAIN J /\ (J \o K)[n] = J[n]
    BY <1>3, <2>2, <2>3 DEF IsPinged, IsVerified
  <2> QED BY <2>3 DEF ReactionsOnce
<1> QED BY <1>1, <1>2, <1>3

\* Callers that go on waiting leave every verification alone.
LEMMA AwaitOnce ==
  ASSUME NEW now \in StateObject, NEW q \in Seq(Caller), NEW D \in [Conn -> DialClosure],
         NEW V \in [Conn -> VerifyPromise], NEW C \in [Caller -> CallState],
         NEW J \in Seq(Job), Await(now, q, D, V, C, J), NEW W, NEW x,
         ReactionsOnce(J, W, x), PromiseFits(V, x),
         \A c \in Conn : now = verifying(c) => V[c].p # "none"
  PROVE  /\ ReactionsOnce(jobs', W, x) /\ PromiseFits(ver', x)
         /\ \A c \in Conn : ver'[c].p = V[c].p
<1>0. PICK K \in Seq(Job) : jobs' = J \o K /\ Woken(K, now)
  BY AwaitJobs
<1>1. /\ jobs' = J \o K
      /\ \A n \in DOMAIN K : /\ K[n].k \in {"wake", "resume"}
                             /\ K[n].k = "resume" => now = ready(K[n].c)
  BY <1>0 DEF Woken
<1>2. ReactionsOnce(jobs', W, x)
  <2>1. \A n \in DOMAIN K : K[n].k \notin {"pinged", "verified"}
    BY <1>1
  <2> QED BY <1>1, <2>1, OnceParts
<1>3. \/ ver' = V
      \/ /\ now.t = "verifying" /\ now.c \in Conn /\ V[now.c].p \notin {"none", "settled"}
         /\ ver' = [V EXCEPT ![now.c].q = @ \o q]
  <2>1. now.t = "verifying" => now.c \in Conn /\ now = verifying(now.c)
    BY StateConn DEF verifying
  <2> QED BY <2>1 DEF Await
<1>4. \A c \in Conn : /\ ver'[c].p = V[c].p
                      /\ V[c].p \in {"none", "settled"} => ver'[c].q = V[c].q
  BY <1>3 DEF VerifyPromise
<1>5. PromiseFits(ver', x)
  BY <1>4 DEF PromiseFits
<1> QED BY <1>2, <1>4, <1>5

\* What becomes of the dial closures when callers go on waiting.
LEMMA AwaitDial ==
  ASSUME NEW now \in StateObject, NEW q \in Seq(Caller), NEW D \in [Conn -> DialClosure],
         NEW V, NEW C, NEW J, Await(now, q, D, V, C, J), NEW S, DialFits(S, D)
  PROVE  DialFits(S, dial')
<1>1. \/ dial' = D
      \/ /\ now.c \in Conn /\ D[now.c].p = "pending"
         /\ dial' = [D EXCEPT ![now.c].q = @ \o q]
  BY StateConn DEF Await
<1>2. \A c \in Conn : /\ dial'[c].p = D[c].p
                      /\ D[c].p # "pending" => dial'[c].q = D[c].q
  BY <1>1 DEF DialClosure
<1> QED BY <1>2 DEF DialFits

\* Listeners removed from a dial closure change nothing else of it.
LEMMA ExitDialFits ==
  ASSUME TypeOK, NEW D \in [Conn -> DialClosure]
  PROVE  \A c \in Conn : ExitDial(D)[c].p = D[c].p /\ ExitDial(D)[c].q = D[c].q
BY DEF ExitDial, DialClosure

\* A step that only destroys sessions, or forgets their PINGs.
LEMMA PingsLeft ==
  ASSUME NEW S, NEW V, NEW T, PingsOnce(S, V),
         \A c \in Conn : \/ T[c].pings = <<>>
                         \/ T[c].pings = S[c].pings /\ (T[c].st = "destroyed" => S[c].st = "destroyed")
  PROVE  PingsOnce(T, V)
BY DEF PingsOnce

\* One session is destroyed.
LEMMA DestroyedFits ==
  ASSUME NEW x \in NodeSession, NEW ev
  PROVE  LET y == Destroyed(x, ev)
         IN /\ y.pings = <<>> \/ (y.pings = x.pings /\ (y.st = "destroyed" => x.st = "destroyed"))
            /\ y.st = "none" => x.st = "none"
BY DEF Destroyed, NodeSession

\* Only the state of the promises counts.
LEMMA SamePromises ==
  ASSUME NEW S, NEW J, NEW V, NEW W, NEW x, \A c \in Conn : W[c].p = V[c].p
  PROVE  /\ PingsOnce(S, V) => PingsOnce(S, W)
         /\ ReactionsOnce(J, V, x) => ReactionsOnce(J, W, x)
BY DEF PingsOnce, ReactionsOnce

\* The manager enters neither ready nor verifying.
LEMMA CalmState ==
  ASSUME s' = s \/ s' \in {closed, error} \/ \E d \in Conn : s' = connecting(d)
  PROVE  \A c \in Conn : (s' = ready(c) => s = ready(c)) /\ (s' = verifying(c) => s = verifying(c))
BY DEF closed, error, connecting, ready, verifying

\* A caller that enters gotoReady().
LEMMA GotoReadyFits ==
  ASSUME TypeOK, WaitsFit, NEW w \in Caller, NEW op \in Op, NEW J \in Seq(Job),
         GotoReady(w, op, J), ReactionsOnce(J, ver, s)
  PROVE  WaitsFit'
<1> DEFINE C == [call EXCEPT ![w] = Pending(op)]
<1>t. /\ s \in StateObject /\ dial \in [Conn -> DialClosure] /\ ver \in [Conn -> VerifyPromise]
      /\ sess \in [Conn -> NodeSession] /\ <<w>> \in Seq(Caller) /\ rs \in [Conn -> ReadyClosure]
  BY DEF TypeOK
<1>f. PingsOnce(sess, ver) /\ PromiseFits(ver, s) /\ DialFits(sess, dial)
  BY DEF WaitsFit
<1>c. C \in [Caller -> CallState]
  BY DEF TypeOK, Pending, CallState
<1> HIDE DEF C
<1>1. CASE /\ Fresh # {} /\ sess' = Opening(NewConn) /\ SetState(connecting(NewConn), rs)
           /\ Await(connecting(NewConn), <<w>>, Dialling(dial, NewConn), ver, C, J)
  <2>1. connecting(NewConn) \in StateObject /\ NewConn \in Conn
        /\ Dialling(dial, NewConn) \in [Conn -> DialClosure]
    BY <1>1, <1>t, NewConnType, StateTypes, DiallingType
  <2>2. \A c \in Conn : connecting(NewConn) # verifying(c)
    BY DEF connecting, verifying
  <2>3. /\ ReactionsOnce(jobs', ver, s) /\ PromiseFits(ver', s)
        /\ \A c \in Conn : ver'[c].p = ver[c].p
    BY <1>1, <1>t, <1>c, <1>f, <2>1, <2>2, AwaitOnce
  <2>4. \A c \in Conn : /\ sess'[c].pings = sess[c].pings
                        /\ c # NewConn => sess'[c].st = sess[c].st
                        /\ sess'[NewConn].st = "connecting"
    BY <1>1, <1>t, <2>1 DEF Opening, NodeSession
  <2>5. PingsOnce(sess', ver)
    <3>1. \A c \in Conn : sess'[c].st = "destroyed" => sess[c].st = "destroyed"
      BY <2>4
    <3> QED BY <1>f, <2>4, <3>1, PingsLeft
  <2>6. DialFits(sess', Dialling(dial, NewConn))
    BY <1>f, <1>t, <2>1, <2>4 DEF DialFits, Dialling
  <2>7. DialFits(sess', dial')
    BY <1>1, <1>t, <2>1, <2>6, AwaitDial
  <2>8. s' = connecting(NewConn)
    BY <1>1 DEF SetState
  <2>9. \A c \in Conn : (s' = ready(c) => s = ready(c)) /\ (s' = verifying(c) => s = verifying(c))
    BY <2>1, <2>8, CalmState
  <2> QED BY <2>3, <2>5, <2>7, <2>9, CalmFits
<1>2. CASE /\ ~NeedsDial /\ s.t = "ready" /\ s' = verifying(s.c)
           /\ sess' = [sess EXCEPT ![s.c].pings = Append(@, "verify")]
           /\ Await(verifying(s.c), <<w>>, dial,
                    [ver EXCEPT ![s.c] = [p |-> "pending", q |-> <<>>]], C, J)
  <2> DEFINE W == [ver EXCEPT ![s.c] = [p |-> "pending", q |-> <<>>]]
  <2>1. s.c \in Conn /\ verifying(s.c) \in StateObject /\ s = ready(s.c)
    BY <1>2, <1>t, StateConn, StateTypes DEF ready
  <2>2. W \in [Conn -> VerifyPromise] /\ W[s.c].p = "pending"
        /\ \A c \in Conn : c # s.c => W[c] = ver[c]
    BY <1>t, <2>1 DEF VerifyPromise
  <2>3. Await(verifying(s.c), <<w>>, dial, W, C, J)
    BY <1>2
  <2> HIDE DEF W
  <2>4. ver[s.c].p \in {"none", "settled"} /\ sess[s.c].st # "destroyed"
    BY <1>2, <1>f, <2>1 DEF PromiseFits, NeedsDial, Unusable
  <2>5. \A c \in Conn : (verifying(s.c) = verifying(c) => c = s.c) /\ verifying(s.c) # ready(c)
    BY DEF verifying, ready
  <2>6. ReactionsOnce(J, W, verifying(s.c))
    <3>1. \A n \in DOMAIN J : ~IsPinged(J[n], s.c) /\ ~IsVerified(J[n], s.c)
      BY <2>1, <2>4 DEF ReactionsOnce
    <3> QED BY <2>2, <2>5, <3>1 DEF ReactionsOnce
  <2>7. PromiseFits(W, verifying(s.c))
    BY <1>f, <2>2, <2>5 DEF PromiseFits
  <2>8. /\ ReactionsOnce(jobs', W, verifying(s.c)) /\ PromiseFits(ver', verifying(s.c))
        /\ \A c \in Conn : ver'[c].p = W[c].p
    <3>1. \A c \in Conn : verifying(s.c) = verifying(c) => W[c].p # "none"
      BY <2>2, <2>5
    <3> QED BY <1>t, <1>c, <2>1, <2>2, <2>3, <2>6, <2>7, <3>1, AwaitOnce
  <2>9. PingsOnce(sess', W)
    <3> DEFINE p == sess[s.c].pings
    <3>1. /\ \A c \in Conn : c # s.c => sess'[c] = sess[c]
          /\ sess'[s.c].st = sess[s.c].st /\ sess'[s.c].pings = Append(p, "verify")
      BY <1>2, <1>t, <2>1 DEF NodeSession
    <3>2. \A i \in DOMAIN p : p[i] # "verify"
      BY <1>f, <2>1, <2>4 DEF PingsOnce
    <3>3. p \in Seq({"keep", "verify"})
      BY <1>t, <2>1 DEF NodeSession
    <3> HIDE DEF p
    <3>4. \A i \in DOMAIN Append(p, "verify") :
            Append(p, "verify")[i] = "verify" => i = Len(p) + 1
      BY <3>2, <3>3
    <3>5. \A c \in Conn : c # s.c =>
            /\ sess'[c].st = "destroyed" => sess'[c].pings = <<>>
            /\ \A i, j \in DOMAIN sess'[c].pings :
                 sess'[c].pings[i] = "verify" /\ sess'[c].pings[j] = "verify" => i = j
            /\ \A i \in DOMAIN sess'[c].pings : sess'[c].pings[i] = "verify" => W[c].p = "pending"
      <4>1. \A c \in Conn : c # s.c => sess'[c] = sess[c] /\ W[c] = ver[c]
        BY <2>2, <3>1
      <4> QED BY <1>f, <4>1 DEF PingsOnce
    <3>6. /\ sess'[s.c].st # "destroyed" /\ W[s.c].p = "pending"
          /\ \A i \in DOMAIN sess'[s.c].pings :
               sess'[s.c].pings[i] = "verify" => i = Len(p) + 1
      BY <2>2, <2>4, <3>1, <3>4
    <3> QED BY <3>5, <3>6 DEF PingsOnce
  <2>10. PingsOnce(sess', ver') /\ ReactionsOnce(jobs', ver', s')
    BY <1>2, <2>8, <2>9, SamePromises
  <2>11. DialFits(sess', dial)
    <3>1. \A c \in Conn : sess'[c].st = sess[c].st
      BY <1>2, <1>t, <2>1 DEF NodeSession
    <3> QED BY <1>f, <3>1 DEF DialFits
  <2>12. DialFits(sess', dial')
    BY <1>t, <2>1, <2>3, <2>11, AwaitDial
  <2> QED BY <1>2, <2>8, <2>10, <2>12 DEF WaitsFit
<1>3. CASE Await(s, <<w>>, dial, ver, C, J) /\ UNCHANGED <<s, sess>>
  <2>1. \A c \in Conn : s = verifying(c) => ver[c].p # "none"
    BY <1>f DEF PromiseFits
  <2>2. /\ ReactionsOnce(jobs', ver, s) /\ PromiseFits(ver', s)
        /\ \A c \in Conn : ver'[c].p = ver[c].p
    BY <1>3, <1>t, <1>c, <1>f, <2>1, AwaitOnce
  <2>3. DialFits(sess', dial')
    BY <1>3, <1>t, <1>f, AwaitDial
  <2>4. PingsOnce(sess', ver)
    BY <1>3, <1>f
  <2> QED BY <1>3, <2>2, <2>3, <2>4, CalmFits
<1> QED BY <1>1, <1>2, <1>3 DEF GotoReady, C, SetState

\* Calls of the application.
LEMMA UserFits == ASSUME TypeOK, WaitsFit, User PROVE WaitsFit'
<1>t. /\ sess \in [Conn -> NodeSession] /\ jobs \in Seq(Job)
      /\ dial \in [Conn -> DialClosure]
  BY DEF TypeOK
<1>f. /\ PingsOnce(sess, ver) /\ ReactionsOnce(jobs, ver, s) /\ PromiseFits(ver, s)
      /\ DialFits(sess, dial)
  BY DEF WaitsFit
<1>1. ASSUME NEW w \in Caller, NotifyResponseByteRead(w) PROVE WaitsFit'
  BY <1>1 DEF NotifyResponseByteRead, WaitsFit
<1>2. ASSUME NEW w \in Caller, NEW op \in Op, Call(w, op) PROVE WaitsFit'
  BY <1>2, <1>t, <1>f, GotoReadyFits DEF Call
<1>3. ASSUME NEW err \in {"cancel", "error"}, Abort(err) PROVE WaitsFit'
  <2>1. \A c \in Conn : sess'[c] \in {sess[c], Destroyed(sess[c], err), Destroyed(sess[c], "close")}
    BY <1>3, <1>t DEF Abort
  <2>2. \A c \in Conn :
          /\ \/ sess'[c].pings = <<>>
             \/ sess'[c].pings = sess[c].pings
                /\ (sess'[c].st = "destroyed" => sess[c].st = "destroyed")
          /\ sess'[c].st = "none" => sess[c].st = "none"
    BY <1>t, <2>1, DestroyedFits
  <2>3. PingsOnce(sess', ver)
    BY <1>f, <2>2, PingsLeft
  <2>4. ReactionsOnce(jobs', ver, s)
    <3>1. CASE jobs' = jobs
      BY <1>f, <3>1
    <3>2. CASE /\ s.t = "connecting"
               /\ jobs' = Append(jobs, [k |-> "dialFailed", err |-> err, q |-> dial[s.c].q])
      <4> DEFINE j == [k |-> "dialFailed", err |-> err, q |-> dial[s.c].q]
      <4>1. s.c \in Conn
        BY <3>2, StateConn DEF TypeOK
      <4>2. j \in Job /\ \A c \in Conn : ~IsPinged(j, c) /\ ~IsVerified(j, c)
        BY <4>1, <1>t DEF Job, DialClosure, IsPinged, IsVerified
      <4> HIDE DEF j
      <4>3. jobs' = Append(jobs, j)
        BY <3>2 DEF j
      <4> QED BY <1>t, <1>f, <4>2, <4>3, OnceParts
    <3> QED BY <1>3, <3>1, <3>2 DEF Abort
  <2>5. s' \in {closed, error} /\ ver' = ver
    BY <1>3 DEF Abort, SetState, closedOrError
  <2>6. \A c \in Conn : (s' = ready(c) => s = ready(c)) /\ (s' = verifying(c) => s = verifying(c))
    BY <2>5, CalmState
  <2>7. DialFits(sess', dial')
    <3>1. PICK D \in [Conn -> DialClosure] :
            /\ dial' = ExitDial(D)
            /\ \A c \in Conn : \/ D[c].p = dial[c].p /\ D[c].q = dial[c].q
                               \/ dial[c].p = "pending" /\ D[c].p = "rejected" /\ D[c].q = <<>>
      <4>1. s.t = "connecting" => s.c \in Conn
        BY StateConn DEF TypeOK
      <4>2. dial' = ExitDial(dial)
            \/ /\ s.t = "connecting" /\ dial[s.c].p = "pending"
               /\ dial' = ExitDial([dial EXCEPT ![s.c].p = "rejected", ![s.c].q = <<>>])
        BY <1>3 DEF Abort
      <4>3. CASE dial' = ExitDial(dial)
        BY <1>t, <4>3
      <4>4. CASE /\ s.t = "connecting" /\ dial[s.c].p = "pending"
                 /\ dial' = ExitDial([dial EXCEPT ![s.c].p = "rejected", ![s.c].q = <<>>])
        <5> DEFINE D == [dial EXCEPT ![s.c].p = "rejected", ![s.c].q = <<>>]
        <5>1. /\ D \in [Conn -> DialClosure] /\ D[s.c].p = "rejected" /\ D[s.c].q = <<>>
              /\ \A c \in Conn : c # s.c => D[c] = dial[c]
          <6>1. [[dial[s.c] EXCEPT !.p = "rejected"] EXCEPT !.q = <<>>] \in DialClosure
            <7>1. ASSUME NEW d \in DialClosure
                  PROVE  [[d EXCEPT !.p = "rejected"] EXCEPT !.q = <<>>] \in DialClosure
              <8>1. <<>> \in Seq(Caller)
                OBVIOUS
              <8> QED BY <8>1 DEF DialClosure
            <7> QED BY <1>t, <4>1, <4>4, <7>1
          <6>2. D = [dial EXCEPT ![s.c] = [[dial[s.c] EXCEPT !.p = "rejected"] EXCEPT !.q = <<>>]]
            BY <1>t, <4>1, <4>4
          <6>3. /\ [[dial[s.c] EXCEPT !.p = "rejected"] EXCEPT !.q = <<>>].p = "rejected"
                /\ [[dial[s.c] EXCEPT !.p = "rejected"] EXCEPT !.q = <<>>].q = <<>>
            BY <1>t, <4>1, <4>4 DEF DialClosure
          <6> QED BY <1>t, <4>1, <4>4, <6>1, <6>2, <6>3
        <5>2. dial' = ExitDial(D)
          BY <4>4
        <5> HIDE DEF D
        <5> QED BY <4>4, <5>1, <5>2
      <4> QED BY <4>2, <4>3, <4>4
    <3>2. \A c \in Conn : dial'[c].p = D[c].p /\ dial'[c].q = D[c].q
      BY <3>1, ExitDialFits
    <3> QED BY <1>f, <2>2, <3>1, <3>2 DEF DialFits
  <2> QED BY <1>f, <2>3, <2>4, <2>5, <2>6, <2>7, CalmFits
<1> QED BY <1>1, <1>2, <1>3 DEF User

\* Promise reactions.
LEMMA RunJobFits == ASSUME Inv, TypeOK', WaitsFit, RunJob PROVE WaitsFit'
<1>0. jobs # <<>> /\ Head(jobs) \in Job /\ Tail(jobs) \in Seq(Job) /\ TypeOK
  BY JobsHeadTail DEF Inv, RunJob, Dialled, DialFailed, Pinged, Verified, Wake, Resume, NextJob
<1>t. /\ s \in StateObject /\ dial \in [Conn -> DialClosure] /\ ver \in [Conn -> VerifyPromise]
      /\ sess \in [Conn -> NodeSession] /\ jobs \in Seq(Job) /\ jobs' \in Seq(Job)
      /\ call \in [Caller -> CallState]
  BY <1>0 DEF TypeOK
<1>f. /\ PingsOnce(sess, ver) /\ ReactionsOnce(jobs, ver, s) /\ PromiseFits(ver, s)
      /\ DialFits(sess, dial)
  BY DEF WaitsFit
<1>n. /\ ReactionsOnce(Tail(jobs), ver, s)
      /\ \A c \in Conn, n \in DOMAIN Tail(jobs) :
           /\ ~(IsPinged(Head(jobs), c) /\ IsPinged(Tail(jobs)[n], c))
           /\ ~(IsVerified(Head(jobs), c) /\ IsVerified(Tail(jobs)[n], c))
  BY <1>0, <1>t, <1>f, OnceParts
<1>h. Head(jobs) = jobs[1] /\ 1 \in DOMAIN jobs
  BY <1>0, <1>t
<1>e. ExitDial(dial) \in [Conn -> DialClosure] /\ DialFits(sess, ExitDial(dial))
  BY <1>0, <1>t, <1>f, ExitDialType, ExitDialFits DEF DialFits
<1>p. \A c \in Conn : s = verifying(c) => ver[c].p # "none"
  BY <1>f DEF PromiseFits
<1>1. ASSUME NEW now \in StateObject, NEW q \in Seq(Caller), NEW D \in [Conn -> DialClosure],
             NEW x, Await(now, q, D, ver, call, Tail(jobs)), UNCHANGED sess, s' = x,
             ReactionsOnce(Tail(jobs), ver, x), PromiseFits(ver, x), DialFits(sess, D),
             \A c \in Conn : now = verifying(c) => ver[c].p # "none"
      PROVE  WaitsFit'
  <2>1. /\ ReactionsOnce(jobs', ver, x) /\ PromiseFits(ver', x)
        /\ \A c \in Conn : ver'[c].p = ver[c].p
    BY <1>0, <1>t, <1>1, AwaitOnce
  <2>2. PingsOnce(sess', ver') /\ ReactionsOnce(jobs', ver', s')
    BY <1>f, <1>1, <2>1, SamePromises
  <2>3. DialFits(sess', dial')
    BY <1>1, AwaitDial
  <2> QED BY <1>1, <2>1, <2>2, <2>3 DEF WaitsFit
<1>2. ASSUME jobs' = Tail(jobs), UNCHANGED <<ver, sess>>, dial' \in {dial, ExitDial(dial)},
             s' = s \/ s' \in {closed, error}
      PROVE  WaitsFit'
  <2>1. \A c \in Conn : (s' = ready(c) => s = ready(c)) /\ (s' = verifying(c) => s = verifying(c))
    BY <1>2, CalmState
  <2> QED BY <1>2, <1>e, <1>f, <1>n, <2>1, CalmFits
<1>3. CASE Dialled
  <2> DEFINE c == Head(jobs).c
             q == Head(jobs).q
  <2>1. c \in Conn /\ q \in Seq(Caller) /\ Head(jobs).k = "dialled"
    BY <1>0, <1>3 DEF Dialled, NextJob, Job
  <2>2. ready(c) \in StateObject /\ closed \in StateObject
    BY <2>1, StateTypes
  <2>3. ver[c].p = "none"
    BY <1>h, <2>1 DEF Inv, ClosuresConsistent, AllExpected, Expected, MadeConsistent
  <2>4. \A d \in Conn : (ready(c) = ready(d) => c = d) /\ ready(c) # verifying(d)
    BY DEF ready, verifying
  <2> HIDE DEF c, q
  <2>5. CASE /\ s' = ready(c) /\ Await(ready(c), q, ExitDial(dial), ver, call, Tail(jobs))
             /\ UNCHANGED sess
    <3>1. ReactionsOnce(Tail(jobs), ver, ready(c))
      <4>1. \A n \in DOMAIN Tail(jobs) : ~IsPinged(Tail(jobs)[n], c) /\ ~IsVerified(Tail(jobs)[n], c)
        BY <1>n, <2>1, <2>3 DEF ReactionsOnce
      <4> QED BY <1>n, <2>4, <4>1 DEF ReactionsOnce
    <3>2. PromiseFits(ver, ready(c))
      BY <1>f, <2>3, <2>4 DEF PromiseFits
    <3> QED BY <1>1, <1>e, <2>1, <2>2, <2>4, <2>5, <3>1, <3>2
  <2>6. CASE /\ s = closed /\ Await(s, q, dial, ver, call, Tail(jobs)) /\ UNCHANGED <<s, sess>>
    BY <1>1, <1>t, <1>f, <1>n, <1>p, <2>1, <2>6
  <2>7. CASE jobs' = Tail(jobs) /\ UNCHANGED <<s, dial, ver, sess>>
    BY <1>2, <2>7
  <2> QED BY <1>3, <2>5, <2>6, <2>7 DEF Dialled, SetState, c, q
<1>4. CASE DialFailed
  BY <1>2, <1>4 DEF DialFailed, SetState, closedOrError
<1>5. CASE Verified
  <2> DEFINE next == Head(jobs).next
             q == Head(jobs).q
  <2>1. /\ next \in StateObject /\ q \in Seq(Caller) /\ Head(jobs).k = "verified"
        /\ \/ \E c \in Conn : next = ready(c)
           \/ \E c \in Conn : next = connecting(c)
    BY <1>0, <1>5 DEF Verified, NextJob, Job, StateObject, ready, connecting
  <2> HIDE DEF next, q
  <2>2. \A c \in Conn : /\ next # verifying(c)
                        /\ next = ready(c) => /\ ver[c].p = "settled"
                                              /\ \A n \in DOMAIN Tail(jobs) : ~IsVerified(Tail(jobs)[n], c)
    <3>1. ASSUME NEW c \in Conn, next = ready(c)
          PROVE  ver[c].p = "settled" /\ \A n \in DOMAIN Tail(jobs) : ~IsVerified(Tail(jobs)[n], c)
      <4>1. IsVerified(Head(jobs), c)
        BY <2>1, <3>1 DEF IsVerified, next
      <4> QED BY <1>f, <1>h, <1>n, <4>1 DEF ReactionsOnce
    <3>2. \A c \in Conn : next # verifying(c)
      BY <2>1 DEF ready, connecting, verifying
    <3> QED BY <3>1, <3>2
  <2>3. ReactionsOnce(Tail(jobs), ver, next)
    BY <1>n, <2>2 DEF ReactionsOnce
  <2>4. PromiseFits(ver, next)
    BY <1>f, <2>2 DEF PromiseFits
  <2>5. s' = next /\ Await(next, q, ExitDial(dial), ver, call, Tail(jobs)) /\ UNCHANGED sess
    BY <1>5 DEF Verified, SetState, next, q
  <2> QED BY <1>1, <1>e, <2>1, <2>2, <2>3, <2>4, <2>5
<1>6. CASE Wake
  <2>1. <<Head(jobs).w>> \in Seq(Caller)
    BY <1>0, <1>6 DEF Wake, NextJob, Job
  <2>2. CASE Await(s, <<Head(jobs).w>>, dial, ver, call, Tail(jobs)) /\ UNCHANGED <<s, sess>>
    BY <1>1, <1>t, <1>f, <1>n, <1>p, <2>1, <2>2
  <2>3. CASE jobs' = Tail(jobs) /\ UNCHANGED <<s, dial, ver, sess>>
    BY <1>2, <2>3
  <2> QED BY <1>6, <2>2, <2>3 DEF Wake
<1>7. CASE Resume
  <2>1. Head(jobs).w \in Caller /\ "request" \in Op
    BY <1>0, <1>7 DEF Resume, NextJob, Job, Op
  <2>2. CASE jobs' = Tail(jobs) /\ UNCHANGED <<s, dial, ver, sess>>
    BY <1>2, <2>2
  <2>3. CASE GotoReady(Head(jobs).w, "request", Tail(jobs))
    BY <1>0, <1>n, <2>1, <2>3, GotoReadyFits
  <2> QED BY <1>7, <2>2, <2>3 DEF Resume
<1>8. CASE Pinged
  <2> DEFINE c == Head(jobs).c
             j(next) == [k |-> "verified", next |-> next, q |-> ver[c].q]
  <2>1. c \in Conn /\ ver[c].q \in Seq(Caller) /\ IsPinged(Head(jobs), c)
    BY <1>0, <1>8, <1>t DEF Pinged, NextJob, Job, VerifyPromise, IsPinged
  <2>2. ver[c].p = "pinged" /\ \A n \in DOMAIN Tail(jobs) : ~IsPinged(Tail(jobs)[n], c)
    BY <1>f, <1>h, <1>n, <2>1 DEF ReactionsOnce
  <2>3. /\ ver'[c].p = "settled" /\ ver'[c].q = <<>> /\ s' = s
        /\ \A d \in Conn : d # c => ver'[d] = ver[d]
    BY <1>8, <1>t, <2>1 DEF Pinged
  <2>4. s # ready(c) /\ \A n \in DOMAIN Tail(jobs) : ~IsVerified(Tail(jobs)[n], c)
    BY <1>f, <1>n, <2>1, <2>2 DEF PromiseFits, ReactionsOnce
  <2>5. ReactionsOnce(Tail(jobs), ver', s')
    BY <1>n, <2>2, <2>3, <2>4 DEF ReactionsOnce
  <2>6. PromiseFits(ver', s')
    BY <1>f, <2>3 DEF PromiseFits
  <2>7. PingsOnce(sess, ver')
    BY <1>f, <2>1, <2>2, <2>3 DEF PingsOnce
  <2>8. CASE jobs' = Append(Tail(jobs), j(ready(c))) /\ UNCHANGED <<dial, sess>>
    <3>1. j(ready(c)) \in Job /\ j(ready(c)).k = "verified" /\ j(ready(c)).next = ready(c)
      BY <2>1 DEF Job, ready
    <3> HIDE DEF j
    <3>2. \A d \in Conn : ~IsPinged(j(ready(c)), d) /\ (IsVerified(j(ready(c)), d) => d = c)
      BY <3>1 DEF IsPinged, IsVerified, ready
    <3>3. ReactionsOnce(jobs', ver', s')
      BY <1>0, <2>3, <2>4, <2>5, <2>8, <3>1, <3>2, OnceParts
    <3> QED BY <1>f, <2>6, <2>7, <2>8, <3>3 DEF WaitsFit
  <2>9. CASE /\ Fresh # {} /\ sess' = Opening(NewConn) /\ dial' = Dialling(dial, NewConn)
             /\ jobs' = Append(Tail(jobs), j(connecting(NewConn)))
    <3>1. NewConn \in Conn
      BY <2>9, NewConnType
    <3>2. /\ j(connecting(NewConn)) \in Job /\ j(connecting(NewConn)).k = "verified"
          /\ j(connecting(NewConn)).next = connecting(NewConn)
      BY <2>1, <3>1 DEF Job, connecting
    <3> HIDE DEF j
    <3>3. \A d \in Conn : ~IsPinged(j(connecting(NewConn)), d) /\ ~IsVerified(j(connecting(NewConn)), d)
      BY <3>2 DEF IsPinged, IsVerified, ready, connecting
    <3>4. ReactionsOnce(jobs', ver', s')
      BY <1>0, <2>5, <2>9, <3>2, <3>3, OnceParts
    <3>5. \A d \in Conn : /\ sess'[d].pings = sess[d].pings
                          /\ d # NewConn => sess'[d].st = sess[d].st
                          /\ sess'[NewConn].st = "connecting"
      BY <2>9, <1>t, <3>1 DEF Opening, NodeSession
    <3>6. PingsOnce(sess', ver')
      <4>1. \A d \in Conn : sess'[d].st = "destroyed" => sess[d].st = "destroyed"
        BY <3>5
      <4> QED BY <2>7, <3>5, <4>1, PingsLeft
    <3>7. DialFits(sess', dial')
      BY <1>f, <1>t, <2>9, <3>1, <3>5 DEF DialFits, Dialling
    <3> QED BY <2>6, <3>4, <3>6, <3>7 DEF WaitsFit
  <2> QED BY <1>8, <2>8, <2>9 DEF Pinged
<1> QED BY <1>3, <1>4, <1>5, <1>6, <1>7, <1>8 DEF RunJob

\* PINGs of one session come or go, but none of a verification comes.
LEMMA PingsOne ==
  ASSUME NEW S, NEW V, NEW T, PingsOnce(S, V), NEW c \in Conn,
         \A d \in Conn : d # c => T[d] = S[d],
         T[c].st = "destroyed" => T[c].pings = <<>>,
         \A i \in DOMAIN T[c].pings :
           T[c].pings[i] = "verify" => i \in DOMAIN S[c].pings /\ S[c].pings[i] = "verify"
  PROVE  PingsOnce(T, V)
BY DEF PingsOnce

\* A hook leaves the manager closed, or in error, if it changes its state.
LEMMA RunHookState ==
  ASSUME NEW c, NEW next \in {closed, error}, RunHook(c, next)
  PROVE  s' = s \/ s' \in {closed, error}
BY DEF RunHook, SetState, Keep, managerVars

\* Events of streams and timers.
LEMMA StreamTimerFits ==
  ASSUME TypeOK, WaitsFit, Stream \/ (\E c \in Conn : Timer(c))
  PROVE  WaitsFit'
<1>t. sess \in [Conn -> NodeSession]
  BY DEF TypeOK
<1>f. /\ PingsOnce(sess, ver) /\ ReactionsOnce(jobs, ver, s) /\ PromiseFits(ver, s)
      /\ DialFits(sess, dial)
  BY DEF WaitsFit
<1>1. CASE Stream
  BY <1>1, <1>f DEF Stream, OnResponse, OnStreamClose, WaitsFit
<1>2. ASSUME NEW c \in Conn, Timer(c) PROVE WaitsFit'
  <2>1. /\ UNCHANGED <<jobs, ver, dial>>
        /\ s' = s \/ s' \in {closed, error}
    <3>1. CASE OnIdleTimeout(c)
      BY <3>1, RunHookState DEF OnIdleTimeout
    <3> QED BY <1>2, <3>1 DEF Timer, Elapse, OnPingInterval, OnPingTimeout, OnIdleTimeout
  <2>2. \/ sess' = sess
        \/ sess[c].st # "destroyed" /\ sess' = [sess EXCEPT ![c].pings = Append(@, "keep")]
        \/ sess' = [sess EXCEPT ![c] = Destroyed(@, "error")]
        \/ sess' = [sess EXCEPT ![c].st = "closing"] /\ sess[c].st # "destroyed"
    BY <1>2 DEF Timer, Elapse, OnPingInterval, OnPingTimeout, OnIdleTimeout, Unusable
  <2>3. sess[c] \in NodeSession /\ sess[c].pings \in Seq({"keep", "verify"})
    BY <1>t DEF NodeSession
  <2>4. \A d \in Conn : d # c => sess'[d] = sess[d]
    BY <1>t, <2>2
  <2>5. PingsOnce(sess', ver)
    <3>1. CASE sess' = sess
      BY <1>f, <3>1
    <3>2. CASE sess[c].st # "destroyed" /\ sess' = [sess EXCEPT ![c].pings = Append(@, "keep")]
      <4>1. sess'[c].pings = Append(sess[c].pings, "keep") /\ sess'[c].st = sess[c].st
        BY <1>t, <3>2 DEF NodeSession
      <4>2. \A i \in DOMAIN Append(sess[c].pings, "keep") :
              Append(sess[c].pings, "keep")[i] = "verify" =>
                i \in DOMAIN sess[c].pings /\ sess[c].pings[i] = "verify"
        BY <2>3
      <4>3. /\ sess'[c].st = "destroyed" => sess'[c].pings = <<>>
            /\ \A i \in DOMAIN sess'[c].pings : sess'[c].pings[i] = "verify" =>
                 i \in DOMAIN sess[c].pings /\ sess[c].pings[i] = "verify"
        BY <3>2, <4>1, <4>2
      <4> QED BY <1>f, <2>4, <4>3, PingsOne
    <3>3. CASE sess' = [sess EXCEPT ![c] = Destroyed(@, "error")]
      <4>1. sess'[c] = Destroyed(sess[c], "error")
        BY <1>t, <3>3
      <4> QED BY <1>f, <2>3, <2>4, <4>1, DestroyedFits, PingsLeft
    <3>4. CASE sess' = [sess EXCEPT ![c].st = "closing"]
      <4>1. sess'[c].pings = sess[c].pings /\ sess'[c].st = "closing"
        BY <1>t, <3>4 DEF NodeSession
      <4> QED BY <1>f, <2>4, <4>1, PingsOne
    <3> QED BY <2>2, <3>1, <3>2, <3>3, <3>4
  <2>6. DialFits(sess', dial)
    <3>1. sess'[c].st = "none" => sess[c].st = "none"
      BY <1>t, <2>2, <2>3, DestroyedFits DEF NodeSession
    <3> QED BY <1>f, <2>4, <3>1 DEF DialFits
  <2>7. \A d \in Conn : (s' = ready(d) => s = ready(d)) /\ (s' = verifying(d) => s = verifying(d))
    BY <2>1, CalmState
  <2> QED BY <1>f, <2>1, <2>5, <2>6, <2>7, CalmFits
<1> QED BY <1>1, <1>2

\* A step that leaves promises and reactions alone and changes one session.
LEMMA OneSessionFits ==
  ASSUME TypeOK, WaitsFit, NEW c \in Conn, UNCHANGED <<ver, dial>>,
         jobs' = jobs, s' = s \/ s' \in {closed, error},
         \A d \in Conn : d # c => sess'[d] = sess[d],
         \/ sess'[c].pings = <<>>
         \/ sess'[c].pings = sess[c].pings
            /\ (sess'[c].st = "destroyed" => sess[c].st = "destroyed"),
         sess'[c].st = "none" => sess[c].st = "none"
  PROVE  WaitsFit'
<1>f. /\ PingsOnce(sess, ver) /\ ReactionsOnce(jobs, ver, s) /\ PromiseFits(ver, s)
      /\ DialFits(sess, dial)
  BY DEF WaitsFit
<1>1. PingsOnce(sess', ver)
  BY <1>f, PingsLeft
<1>2. DialFits(sess', dial)
  BY <1>f DEF DialFits
<1>3. \A d \in Conn : (s' = ready(d) => s = ready(d)) /\ (s' = verifying(d) => s = verifying(d))
  BY CalmState
<1> QED BY <1>f, <1>1, <1>2, <1>3, CalmFits

\* Events of Node's session.
LEMMA SessionFits ==
  ASSUME TypeOK, WaitsFit, NEW c \in Conn, Session(c)
  PROVE  WaitsFit'
<1>t. /\ sess \in [Conn -> NodeSession] /\ jobs \in Seq(Job) /\ ver \in [Conn -> VerifyPromise]
      /\ dial \in [Conn -> DialClosure] /\ sess[c] \in NodeSession
  BY DEF TypeOK
<1>f. /\ PingsOnce(sess, ver) /\ ReactionsOnce(jobs, ver, s) /\ PromiseFits(ver, s)
      /\ DialFits(sess, dial)
  BY DEF WaitsFit
<1>d. ASSUME NEW ev, sess' = [sess EXCEPT ![c] = Destroyed(@, ev)]
      PROVE  /\ \A d \in Conn : d # c => sess'[d] = sess[d]
             /\ \/ sess'[c].pings = <<>>
                \/ sess'[c].pings = sess[c].pings
                   /\ (sess'[c].st = "destroyed" => sess[c].st = "destroyed")
             /\ sess'[c].st = "none" => sess[c].st = "none"
  <2>1. sess'[c] = Destroyed(sess[c], ev) /\ \A d \in Conn : d # c => sess'[d] = sess[d]
    BY <1>t, <1>d
  <2> QED BY <1>t, <2>1, DestroyedFits
<1>1. CASE SessionLost(c) \/ Drained(c)
  BY <1>1, <1>d, OneSessionFits DEF SessionLost, Drained
<1>2. CASE Silence(c) \/ EmitClose(c)
  <2>1. /\ \/ sess' = [sess EXCEPT ![c].silent = TRUE]
           \/ sess' = [sess EXCEPT ![c].ev = "done"]
        /\ jobs' = jobs /\ UNCHANGED <<ver, dial>>
    BY <1>2 DEF Silence, EmitClose, Emits
  <2>2. s' = s \/ s' \in {closed, error}
    BY <1>2, RunHookState DEF Silence, EmitClose, Keep, managerVars
  <2>3. /\ \A d \in Conn : d # c => sess'[d] = sess[d]
        /\ sess'[c].pings = sess[c].pings /\ sess'[c].st = sess[c].st
    BY <1>t, <2>1 DEF NodeSession
  <2> QED BY <2>1, <2>2, <2>3, OneSessionFits
<1>3. ASSUME NEW code, OnGoaway(c, code) PROVE WaitsFit'
  <2>1. /\ \/ sess' = [sess EXCEPT ![c].st = "closing"]
           \/ sess' = [sess EXCEPT ![c] = Destroyed(@, "cancel")]
           \/ sess' = [sess EXCEPT ![c] = Destroyed(@, "error")]
        /\ jobs' = jobs /\ UNCHANGED <<ver, dial, s>>
    BY <1>3 DEF OnGoaway
  <2>2. CASE sess' = [sess EXCEPT ![c].st = "closing"]
    <3>1. /\ \A d \in Conn : d # c => sess'[d] = sess[d]
          /\ sess'[c].pings = sess[c].pings /\ sess'[c].st = "closing"
      BY <1>t, <2>2 DEF NodeSession
    <3> QED BY <2>1, <3>1, OneSessionFits
  <2> QED BY <1>d, <2>1, <2>2, OneSessionFits
<1>4. CASE OnConnect(c)
  <2> DEFINE j == [k |-> "dialled", c |-> c, q |-> dial[c].q]
  <2>1. /\ \A d \in Conn : d # c => sess'[d] = sess[d]
        /\ sess'[c].pings = sess[c].pings /\ sess'[c].st = "open"
        /\ ver' = ver /\ s' = s /\ (jobs' = jobs \/ jobs' = Append(jobs, j))
    BY <1>4, <1>t DEF OnConnect, NodeSession
  <2>2. j \in Job /\ \A d \in Conn : ~IsPinged(j, d) /\ ~IsVerified(j, d)
    BY <1>t DEF Job, DialClosure, IsPinged, IsVerified
  <2> HIDE DEF j
  <2>3. ReactionsOnce(jobs', ver, s)
    BY <1>t, <1>f, <2>1, <2>2, OnceParts
  <2>4. PingsOnce(sess', ver)
    BY <1>f, <2>1, PingsOne
  <2>5. DialFits(sess', dial')
    <3>1. \/ dial' = dial
          \/ dial' = [dial EXCEPT ![c] = [on |-> FALSE, p |-> "resolved", q |-> <<>>]]
      BY <1>4 DEF OnConnect
    <3> QED BY <1>t, <1>f, <2>1, <3>1 DEF DialFits
  <2> QED BY <1>f, <2>1, <2>3, <2>4, <2>5, CalmFits
<1>5. CASE EmitError(c)
  <2> DEFINE r == [k |-> "dialFailed", err |-> sess[c].ev, q |-> dial[c].q]
             u == [k |-> "pinged", c |-> c, ok |-> FALSE]
  <2>1. /\ \A d \in Conn : sess'[d].pings = sess[d].pings /\ sess'[d].st = sess[d].st
        /\ sess[c].st = "destroyed"
    BY <1>5, <1>t DEF EmitError, Emits, NodeSession
  <2>2. s' = s \/ s' \in {closed, error}
    BY <1>5, RunHookState DEF EmitError, Keep, managerVars, closedOrError
  <2>3. PingsOnce(sess', ver) /\ sess[c].pings = <<>>
    BY <1>f, <2>1 DEF PingsOnce
  <2>4. DialFits(sess', dial')
    <3>1. \/ dial' = dial
          \/ dial' = [dial EXCEPT ![c] = [on |-> FALSE, p |-> "rejected", q |-> <<>>]]
      BY <1>5 DEF EmitError
    <3> QED BY <1>t, <1>f, <2>1, <3>1 DEF DialFits
  <2>5. r \in Job /\ \A d \in Conn : ~IsPinged(r, d) /\ ~IsVerified(r, d)
    BY <1>5, <1>t DEF EmitError, Emits, Job, DialClosure, IsPinged, IsVerified
  <2>6. u \in Job /\ \A d \in Conn : (IsPinged(u, d) => d = c) /\ ~IsVerified(u, d)
    BY DEF Job, IsPinged, IsVerified
  <2>7. \/ jobs' = jobs
        \/ jobs' = Append(jobs, r)
        \/ ver[c].p = "pending" /\ jobs' = Append(jobs, u)
    BY <1>5 DEF EmitError
  <2>8. CASE ver[c].p = "pending"
    <3>1. /\ ver'[c].p = "pinged" /\ \A d \in Conn : d # c => ver'[d] = ver[d]
      BY <1>5, <1>t, <2>8 DEF EmitError, VerifyPromise
    <3> HIDE DEF r, u
    <3>2. \A n \in DOMAIN jobs : ~IsPinged(jobs[n], c) /\ ~IsVerified(jobs[n], c)
      BY <1>f, <2>8 DEF ReactionsOnce
    <3>3. ReactionsOnce(jobs, ver', s)
      BY <1>f, <3>1, <3>2 DEF ReactionsOnce
    <3>4. ReactionsOnce(jobs', ver', s)
      BY <1>t, <2>5, <2>6, <2>7, <3>1, <3>2, <3>3, OnceParts
    <3>5. \A d \in Conn : (s' = ready(d) => s = ready(d)) /\ (s' = verifying(d) => s = verifying(d))
      BY <2>2, CalmState
    <3>6. ReactionsOnce(jobs', ver', s')
      BY <3>4, <3>5 DEF ReactionsOnce
    <3>7. PromiseFits(ver', s')
      <4>1. s # ready(c)
        BY <1>f, <2>8 DEF PromiseFits
      <4> QED BY <1>f, <3>1, <3>5, <4>1 DEF PromiseFits
    <3>8. PingsOnce(sess', ver')
      BY <2>1, <2>3, <3>1 DEF PingsOnce
    <3> QED BY <2>4, <3>6, <3>7, <3>8 DEF WaitsFit
  <2>9. CASE ver[c].p # "pending"
    <3>1. ver' = ver
      BY <1>5, <2>9 DEF EmitError
    <3> HIDE DEF r, u
    <3>2. ReactionsOnce(jobs', ver, s)
      BY <1>t, <1>f, <2>5, <2>7, <2>9, OnceParts
    <3>3. \A d \in Conn : (s' = ready(d) => s = ready(d)) /\ (s' = verifying(d) => s = verifying(d))
      BY <2>2, CalmState
    <3> QED BY <1>f, <2>3, <2>4, <3>1, <3>2, <3>3, CalmFits
  <2> QED BY <2>8, <2>9
<1>6. CASE PingAck(c)
  <2> DEFINE j == [k |-> "pinged", c |-> c, ok |-> TRUE]
             p == sess[c].pings
  <2>0. p \in Seq({"keep", "verify"}) /\ p # <<>>
    BY <1>6, <1>t DEF PingAck, NodeSession
  <2>h. Head(p) = p[1] /\ 1 \in DOMAIN p
    BY <2>0
  <2>i. \A i \in DOMAIN Tail(p) : /\ i \in Nat /\ i + 1 \in DOMAIN p /\ i + 1 # 1
                                  /\ Tail(p)[i] = p[i + 1]
    BY <2>0
  <2>1. CASE sess' = [sess EXCEPT ![c] = Destroyed(@, "error")] /\ UNCHANGED <<s, ver, dial, jobs>>
    BY <1>d, <2>1, OneSessionFits
  <2>2. CASE /\ sess' = [sess EXCEPT ![c].pings = Tail(@)] /\ UNCHANGED <<s, dial>>
             /\ \/ Head(p) = "verify" /\ jobs' = Append(jobs, j) /\ ver' = [ver EXCEPT ![c].p = "pinged"]
                \/ Head(p) # "verify" /\ UNCHANGED <<jobs, ver>>
    <3>1. /\ \A d \in Conn : d # c => sess'[d] = sess[d]
          /\ sess'[c].pings = Tail(p) /\ sess'[c].st = sess[c].st /\ sess[c].st # "destroyed"
      <4>1. sess[c].st # "destroyed"
        BY <1>f, <2>0 DEF PingsOnce
      <4> QED BY <1>t, <2>2, <4>1 DEF NodeSession
    <3>2. DialFits(sess', dial')
      BY <1>f, <2>2, <3>1 DEF DialFits
    <3>p. /\ \A m, n \in DOMAIN p : p[m] = "verify" /\ p[n] = "verify" => m = n
          /\ \A n \in DOMAIN p : p[n] = "verify" => ver[c].p = "pending"
      BY <1>f DEF PingsOnce
    <3>o. \A d \in Conn : d # c =>
            /\ sess'[d].st = "destroyed" => sess'[d].pings = <<>>
            /\ \A m, n \in DOMAIN sess'[d].pings :
                 sess'[d].pings[m] = "verify" /\ sess'[d].pings[n] = "verify" => m = n
            /\ \A n \in DOMAIN sess'[d].pings : sess'[d].pings[n] = "verify" => ver[d].p = "pending"
      BY <1>f, <3>1 DEF PingsOnce
    <3> HIDE DEF p, j
    <3>3. CASE Head(p) # "verify" /\ UNCHANGED <<jobs, ver>>
      <4>1. ASSUME NEW m \in DOMAIN Tail(p), NEW n \in DOMAIN Tail(p),
                   Tail(p)[m] = "verify", Tail(p)[n] = "verify"
            PROVE  m = n
        <5>1. m + 1 = n + 1
          BY <2>i, <3>p, <4>1
        <5> QED BY <2>i, <5>1
      <4>2. \A n \in DOMAIN Tail(p) : Tail(p)[n] = "verify" => ver[c].p = "pending"
        BY <2>i, <3>p
      <4>3. PingsOnce(sess', ver)
        BY <3>1, <3>o, <4>1, <4>2 DEF PingsOnce
      <4> QED BY <1>f, <2>2, <3>2, <3>3, <4>3, CalmFits
    <3>4. CASE Head(p) = "verify" /\ jobs' = Append(jobs, j) /\ ver' = [ver EXCEPT ![c].p = "pinged"]
      <4>1. ver[c].p = "pending" /\ \A n \in DOMAIN Tail(p) : Tail(p)[n] # "verify"
        <5>1. ASSUME NEW n \in DOMAIN Tail(p), Tail(p)[n] = "verify" PROVE FALSE
          <6>1. n + 1 = 1
            BY <2>h, <2>i, <3>p, <3>4, <5>1
          <6> QED BY <2>i, <6>1
        <5> QED BY <2>h, <3>p, <3>4, <5>1
      <4>2. ver'[c].p = "pinged" /\ \A d \in Conn : d # c => ver'[d] = ver[d]
        BY <1>t, <3>4 DEF VerifyPromise
      <4>3. PingsOnce(sess', ver')
        BY <3>1, <3>o, <4>1, <4>2 DEF PingsOnce
      <4>4. \A n \in DOMAIN jobs : ~IsPinged(jobs[n], c) /\ ~IsVerified(jobs[n], c)
        BY <1>f, <4>1 DEF ReactionsOnce
      <4>5. ReactionsOnce(jobs, ver', s)
        BY <1>f, <4>2, <4>4 DEF ReactionsOnce
      <4>6. j \in Job /\ \A d \in Conn : (IsPinged(j, d) => d = c) /\ ~IsVerified(j, d)
        BY DEF Job, IsPinged, IsVerified, j
      <4>7. ReactionsOnce(jobs', ver', s')
        <5>1. ReactionsOnce(Append(jobs, j), ver', s)
          BY <1>t, <4>2, <4>4, <4>5, <4>6, OnceParts
        <5> QED BY <2>2, <3>4, <5>1
      <4>8. PromiseFits(ver', s')
        <5>1. s # ready(c)
          BY <1>f, <4>1 DEF PromiseFits
        <5> QED BY <1>f, <2>2, <4>2, <5>1 DEF PromiseFits
      <4> QED BY <3>2, <4>3, <4>7, <4>8 DEF WaitsFit
    <3> QED BY <2>2, <3>3, <3>4
  <2> QED BY <1>6, <2>1, <2>2 DEF PingAck
<1> QED BY <1>1, <1>2, <1>3, <1>4, <1>5, <1>6 DEF Session

\* Nothing is verified or awaited at first.
LEMMA InitFits == Init => WaitsFit
BY DEF Init, WaitsFit, PingsOnce, ReactionsOnce, PromiseFits, DialFits, closed, ready, verifying

\* What the promises and the reactions say of each other stays so.
LEMMA NextFits == ASSUME Inv, TypeOK', WaitsFit, Next PROVE WaitsFit'
BY UserFits, RunJobFits, StreamTimerFits, SessionFits DEF Next, Inv

-----------------------------------------------------------------------------
(* One lemma for each group of steps: where the callers wait.                   *)

\* A caller that enters gotoReady(), or enters it again, finds a place to wait.
LEMMA GotoReadyHeld ==
  ASSUME TypeOK, WaitsFit, NEW w \in Caller, NEW op \in Op, NEW J \in Seq(Job),
         GotoReady(w, op, J), proc' = "up",
         Held(dial, ver, J, [call EXCEPT ![w] = Pending(op)], <<w>>)
  PROVE  Held(dial', ver', jobs', call', <<>>)
<1> DEFINE C == [call EXCEPT ![w] = Pending(op)]
<1>t. /\ s \in StateObject /\ dial \in [Conn -> DialClosure] /\ ver \in [Conn -> VerifyPromise]
      /\ <<w>> \in Seq(Caller)
  BY DEF TypeOK
<1>f. PromiseFits(ver, s) /\ DialFits(sess, dial)
  BY DEF WaitsFit
<1>c. C \in [Caller -> CallState] /\ Held(dial, ver, J, C, <<w>>)
  BY DEF TypeOK, Pending, CallState
<1> HIDE DEF C
<1>1. CASE /\ Fresh # {}
           /\ Await(connecting(NewConn), <<w>>, Dialling(dial, NewConn), ver, C, J)
  <2>1. connecting(NewConn) \in StateObject /\ NewConn \in Conn
        /\ Dialling(dial, NewConn) \in [Conn -> DialClosure] /\ sess[NewConn].st = "none"
    BY <1>1, <1>t, NewConnType, StateTypes, DiallingType DEF Fresh
  <2>2. \A c \in Conn : Dialling(dial, NewConn)[c].q = dial[c].q
    BY <1>t, <1>f, <2>1 DEF Dialling, DialFits
  <2>3. Held(Dialling(dial, NewConn), ver, J, C, <<w>>)
    BY <1>c, <2>2, HeldSame
  <2> QED BY <1>1, <1>t, <1>c, <2>1, <2>3, AwaitHolds
<1>2. CASE /\ s.t = "ready"
           /\ Await(verifying(s.c), <<w>>, dial,
                    [ver EXCEPT ![s.c] = [p |-> "pending", q |-> <<>>]], C, J)
  <2> DEFINE W == [ver EXCEPT ![s.c] = [p |-> "pending", q |-> <<>>]]
  <2>1. s.c \in Conn /\ verifying(s.c) \in StateObject /\ s = ready(s.c)
    BY <1>2, <1>t, StateConn, StateTypes DEF ready
  <2>2. W \in [Conn -> VerifyPromise] /\ W[s.c].q = <<>>
        /\ \A c \in Conn : c # s.c => W[c] = ver[c]
    BY <1>t, <2>1 DEF VerifyPromise
  <2>3. Await(verifying(s.c), <<w>>, dial, W, C, J)
    BY <1>2
  <2> HIDE DEF W
  <2>4. \A c \in Conn : W[c].q = ver[c].q
    BY <1>f, <2>1, <2>2 DEF PromiseFits
  <2>5. Held(dial, W, J, C, <<w>>)
    BY <1>c, <2>4, HeldSame
  <2> QED BY <1>t, <1>c, <2>1, <2>2, <2>3, <2>5, AwaitHolds
<1>3. CASE Await(s, <<w>>, dial, ver, C, J)
  BY <1>3, <1>t, <1>c, AwaitHolds
<1> QED BY <1>1, <1>2, <1>3 DEF GotoReady, C

\* Calls of the application.
LEMMA UserHeld ==
  ASSUME TypeOK, WaitsFit, User, Held(dial, ver, jobs, call, <<>>), proc' = "up"
  PROVE  Held(dial', ver', jobs', call', <<>>)
<1>t. /\ jobs \in Seq(Job) /\ dial \in [Conn -> DialClosure] /\ call \in [Caller -> CallState]
  BY DEF TypeOK
<1>1. ASSUME NEW w \in Caller, NotifyResponseByteRead(w)
      PROVE  Held(dial', ver', jobs', call', <<>>)
  BY <1>1 DEF NotifyResponseByteRead
<1>2. ASSUME NEW w \in Caller, NEW op \in Op, Call(w, op)
      PROVE  Held(dial', ver', jobs', call', <<>>)
  <2>1. call[w].st # "pending"
    BY <1>2 DEF Call, Idle
  <2>2. Held(dial, ver, jobs, [call EXCEPT ![w] = Pending(op)], <<w>>)
    BY <1>t, <2>1, HeldEnter
  <2> QED BY <1>2, <1>t, <2>2, GotoReadyHeld DEF Call
<1>3. ASSUME NEW err \in {"cancel", "error"}, Abort(err)
      PROVE  Held(dial', ver', jobs', call', <<>>)
  <2>1. s.t = "connecting" => s.c \in Conn
    BY StateConn DEF TypeOK
  <2>2. CASE /\ s.t = "connecting"
             /\ dial' = ExitDial([dial EXCEPT ![s.c].p = "rejected", ![s.c].q = <<>>])
             /\ jobs' = Append(jobs, [k |-> "dialFailed", err |-> err, q |-> dial[s.c].q])
             /\ UNCHANGED <<ver, call>>
    <3> DEFINE D == [dial EXCEPT ![s.c].p = "rejected", ![s.c].q = <<>>]
               j == [k |-> "dialFailed", err |-> err, q |-> dial[s.c].q]
    <3>1. D[s.c].q = <<>> /\ \A d \in Conn : d # s.c => D[d].q = dial[d].q
      BY <1>t, <2>1, <2>2 DEF DialClosure
    <3>2. \A d \in Conn : dial'[d].q = D[d].q
      <4>1. D \in [Conn -> DialClosure]
        <5>1. ASSUME NEW d \in DialClosure
              PROVE  [[d EXCEPT !.p = "rejected"] EXCEPT !.q = <<>>] \in DialClosure
          <6>1. <<>> \in Seq(Caller)
            OBVIOUS
          <6> QED BY <6>1 DEF DialClosure
        <5>2. D = [dial EXCEPT ![s.c] = [[dial[s.c] EXCEPT !.p = "rejected"] EXCEPT !.q = <<>>]]
          BY <1>t, <2>1, <2>2
        <5> QED BY <1>t, <2>1, <2>2, <5>1, <5>2
      <4> QED BY <2>2, <4>1, ExitDialFits
    <3> HIDE DEF D
    <3>3. Held(D, ver, jobs, call, dial[s.c].q)
      BY <2>1, <2>2, <3>1, HeldTakeDial
    <3>4. Held(dial', ver, jobs, call, dial[s.c].q)
      BY <3>2, <3>3, HeldSame
    <3>5. j \in Job /\ dial[s.c].q = Callers(j)
      BY <1>t, <2>1, <2>2 DEF Job, DialClosure, Callers
    <3> HIDE DEF j
    <3>6. Held(dial', ver, Append(jobs, j), call, <<>>)
      BY <1>t, <3>4, <3>5, HeldPush
    <3> QED BY <2>2, <3>6 DEF j
  <2>3. CASE dial' = ExitDial(dial) /\ UNCHANGED <<jobs, ver, call>>
    <3>1. \A d \in Conn : dial'[d].q = dial[d].q
      BY <1>t, <2>3, ExitDialFits
    <3>2. Held(dial', ver, jobs, call, <<>>)
      BY <3>1, HeldSame
    <3> QED BY <2>3, <3>2
  <2> QED BY <1>3, <2>2, <2>3 DEF Abort
<1> QED BY <1>1, <1>2, <1>3 DEF User

\* Promise reactions.
LEMMA RunJobHeld ==
  ASSUME TypeOK, WaitsFit, RunJob, Held(dial, ver, jobs, call, <<>>), proc' = "up"
  PROVE  Held(dial', ver', jobs', call', <<>>)
<1>0. jobs # <<>> /\ Head(jobs) \in Job /\ Tail(jobs) \in Seq(Job)
  BY JobsHeadTail DEF RunJob, Dialled, DialFailed, Pinged, Verified, Wake, Resume, NextJob
<1>t. /\ s \in StateObject /\ dial \in [Conn -> DialClosure] /\ ver \in [Conn -> VerifyPromise]
      /\ jobs \in Seq(Job) /\ call \in [Caller -> CallState]
  BY DEF TypeOK
<1>h. Held(dial, ver, Tail(jobs), call, Callers(Head(jobs)))
  BY <1>0, <1>t, HeldPop
<1>e. /\ ExitDial(dial) \in [Conn -> DialClosure]
      /\ Held(ExitDial(dial), ver, Tail(jobs), call, Callers(Head(jobs)))
  BY <1>t, <1>h, ExitDialType, ExitDialFits, HeldSame
<1>1. ASSUME NEW now \in StateObject, NEW q \in Seq(Caller), q = Callers(Head(jobs)),
             NEW D \in {dial, ExitDial(dial)}, Await(now, q, D, ver, call, Tail(jobs))
      PROVE  Held(dial', ver', jobs', call', <<>>)
  <2>1. D \in [Conn -> DialClosure] /\ Held(D, ver, Tail(jobs), call, q)
    BY <1>1, <1>t, <1>h, <1>e
  <2> QED BY <1>0, <1>1, <1>t, <2>1, AwaitHolds
<1>3. CASE Dialled
  <2>1. /\ Head(jobs).c \in Conn /\ Head(jobs).q \in Seq(Caller)
        /\ Head(jobs).q = Callers(Head(jobs))
    BY <1>0, <1>3 DEF Dialled, NextJob, Job, Callers
  <2>2. ready(Head(jobs).c) \in StateObject
    BY <2>1, StateTypes
  <2> QED BY <1>1, <1>3, <1>t, <2>1, <2>2 DEF Dialled
<1>4. CASE DialFailed
  <2>1. /\ Head(jobs).q = Callers(Head(jobs)) /\ dial' = ExitDial(dial) /\ ver' = ver
        /\ call' = Rejected(call, Head(jobs).q) /\ jobs' = Tail(jobs)
    BY <1>4 DEF DialFailed, NextJob, Callers
  <2>2. Held(ExitDial(dial), ver, Tail(jobs), Rejected(call, Head(jobs).q), <<>>)
    BY <1>e, <2>1, HeldDrop
  <2> QED BY <2>1, <2>2
<1>5. CASE Verified
  <2>1. /\ Head(jobs).next \in StateObject /\ Head(jobs).q \in Seq(Caller)
        /\ Head(jobs).q = Callers(Head(jobs))
    BY <1>0, <1>5 DEF Verified, NextJob, Job, StateObject, Callers
  <2> QED BY <1>1, <1>5, <2>1 DEF Verified
<1>6. CASE Wake
  <2> DEFINE w == Head(jobs).w
  <2>1. w \in Caller /\ <<w>> \in Seq(Caller) /\ <<w>> = Callers(Head(jobs))
    BY <1>0, <1>6 DEF Wake, NextJob, Job, Callers
  <2> HIDE DEF w
  <2>2. CASE Await(s, <<w>>, dial, ver, call, Tail(jobs))
    BY <1>1, <1>t, <2>1, <2>2
  <2>3. CASE call' = Rejected(call, <<w>>) /\ jobs' = Tail(jobs) /\ UNCHANGED <<dial, ver>>
    <3>1. Held(dial, ver, Tail(jobs), Rejected(call, <<w>>), <<>>)
      BY <1>h, <2>1, HeldDrop
    <3> QED BY <2>3, <3>1
  <2> QED BY <1>6, <2>2, <2>3 DEF Wake, w
<1>7. CASE Resume
  <2> DEFINE w == Head(jobs).w
             c == Head(jobs).c
  <2>1. /\ w \in Caller /\ <<w>> \in Seq(Caller) /\ <<w>> = Callers(Head(jobs))
        /\ "request" \in Op
    BY <1>0, <1>7 DEF Resume, NextJob, Job, Callers, Op
  <2>2. \/ /\ call' = [call EXCEPT ![w] = Idle] \/ call' = [call EXCEPT ![w] = Open(c, FALSE)]
           /\ jobs' = Tail(jobs) /\ UNCHANGED <<dial, ver>>
        \/ call[w] = Pending("request") /\ GotoReady(w, "request", Tail(jobs))
    BY <1>7 DEF Resume
  <2> HIDE DEF w, c
  <2>3. ASSUME NEW x \in {Idle, Open(c, FALSE)}, call' = [call EXCEPT ![w] = x],
               jobs' = Tail(jobs), UNCHANGED <<dial, ver>>
        PROVE  Held(dial', ver', jobs', call', <<>>)
    <3>1. x.st # "pending"
      BY <2>3 DEF Idle, Open
    <3>2. Held(dial, ver, Tail(jobs), [call EXCEPT ![w] = x], <<>>)
      BY <1>h, <1>t, <2>1, <3>1, HeldLeave
    <3> QED BY <2>3, <3>2
  <2>4. CASE call[w] = Pending("request") /\ GotoReady(w, "request", Tail(jobs))
    <3>1. [call EXCEPT ![w] = Pending("request")] = call
      BY <1>t, <2>1, <2>4
    <3>2. Held(dial, ver, Tail(jobs), [call EXCEPT ![w] = Pending("request")], <<w>>)
      BY <1>h, <2>1, <3>1
    <3> QED BY <1>0, <2>1, <2>4, <3>2, GotoReadyHeld
  <2> QED BY <2>2, <2>3, <2>4
<1>8. CASE Pinged
  <2> DEFINE c == Head(jobs).c
             j(next) == [k |-> "verified", next |-> next, q |-> ver[c].q]
  <2>1. c \in Conn /\ ver[c].q \in Seq(Caller) /\ Callers(Head(jobs)) = <<>>
    BY <1>0, <1>8, <1>t DEF Pinged, NextJob, Job, VerifyPromise, Callers
  <2>2. /\ ver'[c].q = <<>> /\ call' = call
        /\ \A d \in Conn : d # c => ver'[d].q = ver[d].q
    BY <1>8, <1>t, <2>1 DEF Pinged
  <2>3. Held(dial, ver', Tail(jobs), call, ver[c].q)
    BY <1>h, <2>1, <2>2, HeldTakeVer
  <2>4. CASE jobs' = Append(Tail(jobs), j(ready(c))) /\ UNCHANGED dial
    <3>1. j(ready(c)) \in Job /\ Callers(j(ready(c))) = ver[c].q
      BY <2>1 DEF Job, ready, Callers
    <3> HIDE DEF j
    <3>2. Held(dial, ver', Append(Tail(jobs), j(ready(c))), call, <<>>)
      BY <1>0, <2>3, <3>1, HeldPush
    <3> QED BY <2>2, <2>4, <3>2
  <2>5. CASE /\ Fresh # {} /\ dial' = Dialling(dial, NewConn)
             /\ jobs' = Append(Tail(jobs), j(connecting(NewConn)))
    <3>1. NewConn \in Conn /\ sess[NewConn].st = "none"
      BY <2>5, NewConnType DEF Fresh
    <3>2. j(connecting(NewConn)) \in Job /\ Callers(j(connecting(NewConn))) = ver[c].q
      BY <2>1, <3>1 DEF Job, connecting, Callers
    <3> HIDE DEF j
    <3>3. \A d \in Conn : dial'[d].q = dial[d].q
      BY <1>t, <2>5, <3>1 DEF Dialling, DialFits, WaitsFit
    <3>4. Held(dial', ver', Tail(jobs), call, ver[c].q)
      BY <2>3, <3>3, HeldSame
    <3>5. Held(dial', ver', Append(Tail(jobs), j(connecting(NewConn))), call, <<>>)
      BY <1>0, <3>2, <3>4, HeldPush
    <3> QED BY <2>2, <2>5, <3>5
  <2> QED BY <1>8, <2>4, <2>5 DEF Pinged
<1> QED BY <1>3, <1>4, <1>5, <1>6, <1>7, <1>8 DEF RunJob

\* Events of streams and timers.
LEMMA StreamTimerHeld ==
  ASSUME TypeOK, Stream \/ (\E c \in Conn : Timer(c)), Held(dial, ver, jobs, call, <<>>)
  PROVE  Held(dial', ver', jobs', call', <<>>)
<1>1. UNCHANGED <<dial, ver, jobs>>
  BY DEF Stream, OnResponse, OnStreamClose, Timer, Elapse, OnPingInterval, OnPingTimeout,
         OnIdleTimeout
<1>2. \A w \in Caller : call'[w].st = "pending" <=> call[w].st = "pending"
  <2>1. CASE Stream
    <3>1. PICK w \in Caller : OnResponse(w) \/ OnStreamClose(w)
      BY <2>1 DEF Stream
    <3>2. \A v \in Caller : v # w => call'[v] = call[v]
      BY <3>1 DEF OnResponse, OnStreamClose, TypeOK
    <3>3. call[w].st = "open" /\ call'[w].st \in {"open", "idle"}
      BY <3>1 DEF OnResponse, OnStreamClose, TypeOK, Idle, CallState, Pending
    <3> QED BY <3>2, <3>3
  <2>2. CASE \E c \in Conn : Timer(c)
    BY <2>2 DEF Timer, Elapse, OnPingInterval, OnPingTimeout, OnIdleTimeout
  <2> QED BY <2>1, <2>2
<1>3. Held(dial, ver, jobs, call', <<>>)
  BY <1>2, HeldSame
<1> QED BY <1>1, <1>3

\* Events of Node's session.
LEMMA SessionHeld ==
  ASSUME TypeOK, NEW c \in Conn, Session(c), Held(dial, ver, jobs, call, <<>>)
  PROVE  Held(dial', ver', jobs', call', <<>>)
<1>t. /\ sess \in [Conn -> NodeSession] /\ jobs \in Seq(Job) /\ ver \in [Conn -> VerifyPromise]
      /\ dial \in [Conn -> DialClosure]
  BY DEF TypeOK
<1>1. CASE UNCHANGED <<dial, ver, jobs, call>>
  BY <1>1
<1>2. CASE OnConnect(c)
  <2> DEFINE j == [k |-> "dialled", c |-> c, q |-> dial[c].q]
  <2>1. CASE /\ dial' = [dial EXCEPT ![c] = [on |-> FALSE, p |-> "resolved", q |-> <<>>]]
             /\ jobs' = Append(jobs, j) /\ UNCHANGED <<ver, call>>
    <3>1. dial'[c].q = <<>> /\ \A d \in Conn : d # c => dial'[d].q = dial[d].q
      BY <1>t, <2>1
    <3>2. Held(dial', ver, jobs, call, dial[c].q)
      BY <3>1, HeldTakeDial
    <3>3. j \in Job /\ dial[c].q = Callers(j)
      BY <1>t DEF Job, DialClosure, Callers
    <3> HIDE DEF j
    <3>4. Held(dial', ver, Append(jobs, j), call, <<>>)
      BY <1>t, <3>2, <3>3, HeldPush
    <3> QED BY <2>1, <3>4
  <2> QED BY <1>1, <1>2, <2>1 DEF OnConnect
<1>3. CASE EmitError(c)
  <2> DEFINE r == [k |-> "dialFailed", err |-> sess[c].ev, q |-> dial[c].q]
             u == [k |-> "pinged", c |-> c, ok |-> FALSE]
  <2>1. call' = call /\ \A d \in Conn : ver'[d].q = ver[d].q
    BY <1>3, <1>t DEF EmitError, VerifyPromise
  <2>2. r \in Job /\ Callers(r) = dial[c].q /\ u \in Job /\ Callers(u) = <<>>
    BY <1>3, <1>t DEF EmitError, Emits, Job, DialClosure, Callers
  <2>3. \/ /\ dial' = [dial EXCEPT ![c] = [on |-> FALSE, p |-> "rejected", q |-> <<>>]]
           /\ jobs' = Append(jobs, r)
        \/ dial' = dial /\ jobs' = Append(jobs, u)
        \/ dial' = dial /\ jobs' = jobs
    BY <1>3 DEF EmitError
  <2> HIDE DEF r, u
  <2>4. CASE /\ dial' = [dial EXCEPT ![c] = [on |-> FALSE, p |-> "rejected", q |-> <<>>]]
             /\ jobs' = Append(jobs, r)
    <3>1. dial'[c].q = <<>> /\ \A d \in Conn : d # c => dial'[d].q = dial[d].q
      BY <1>t, <2>4
    <3>2. Held(dial', ver, jobs, call, dial[c].q)
      BY <3>1, HeldTakeDial
    <3>3. Held(dial', ver', jobs, call, dial[c].q)
      BY <2>1, <3>2, HeldSame
    <3>4. Held(dial', ver', Append(jobs, r), call, <<>>)
      BY <1>t, <2>2, <3>3, HeldPush
    <3> QED BY <2>1, <2>4, <3>4
  <2>5. Held(dial, ver', jobs, call, <<>>)
    BY <2>1, HeldSame
  <2>6. CASE dial' = dial /\ jobs' = Append(jobs, u)
    <3>1. Held(dial, ver', Append(jobs, u), call, <<>>)
      BY <1>t, <2>2, <2>5, HeldPush
    <3> QED BY <2>1, <2>6, <3>1
  <2>7. CASE dial' = dial /\ jobs' = jobs
    BY <2>1, <2>5, <2>7
  <2> QED BY <2>3, <2>4, <2>6, <2>7
<1>4. CASE PingAck(c)
  <2> DEFINE j == [k |-> "pinged", c |-> c, ok |-> TRUE]
  <2>1. CASE ver' = [ver EXCEPT ![c].p = "pinged"] /\ jobs' = Append(jobs, j) /\ UNCHANGED <<dial, call>>
    <3>1. \A d \in Conn : ver'[d].q = ver[d].q
      BY <1>t, <2>1 DEF VerifyPromise
    <3>2. j \in Job /\ Callers(j) = <<>>
      BY DEF Job, Callers
    <3> HIDE DEF j
    <3>3. Held(dial, ver', jobs, call, <<>>)
      BY <3>1, HeldSame
    <3>4. Held(dial, ver', Append(jobs, j), call, <<>>)
      BY <1>t, <3>2, <3>3, HeldPush
    <3> QED BY <2>1, <3>4
  <2> QED BY <1>1, <1>4, <2>1 DEF PingAck
<1> QED BY <1>1, <1>2, <1>3, <1>4
    DEF Session, SessionLost, Drained, Silence, EmitClose, OnGoaway

HeldInv == WaitsFit /\ (proc = "up" => Held(dial, ver, jobs, call, <<>>))

\* Nobody waits at first.
LEMMA InitHeld == Init => HeldInv
<1> SUFFICES ASSUME Init PROVE HeldInv
  OBVIOUS
<1>1. /\ \A c \in Conn : dial[c].q = <<>> /\ ver[c].q = <<>>
      /\ jobs = <<>> /\ \A w \in Caller : call[w].st = "idle"
  BY DEF Init, Idle
<1>2. QueuedOnce(dial) /\ QueuedOnce(ver) /\ \A w : ~Queued(dial, w) /\ ~Queued(ver, w)
  BY <1>1, SmallQueues DEF QueuedOnce, Queued
<1>3. CarriedOnce(jobs) /\ \A w : ~Carried(jobs, w)
  BY <1>1 DEF CarriedOnce, Carried
<1> QED BY <1>1, <1>2, <1>3, InitFits, SmallQueues DEF Held, HeldInv

\* The strengthened property is inductive, beside the invariant of the module.
LEMMA NextHeld == Inv /\ HeldInv /\ [Next]_vars => HeldInv'
<1> SUFFICES ASSUME Inv, HeldInv, [Next]_vars PROVE HeldInv'
  OBVIOUS
<1>1. CASE Next
  <2>1. TypeOK /\ TypeOK'
    BY TypeStep DEF Inv
  <2>2. WaitsFit'
    BY <1>1, <2>1, NextFits DEF HeldInv
  <2>3. proc = "up"
    BY <1>1 DEF Next, User, RunJob, Stream, Session, Timer, NotifyResponseByteRead, Call, Abort,
       Dialled, DialFailed, Pinged, Verified, Wake, Resume, NextJob, OnResponse, OnStreamClose,
       OnConnect, SessionLost, Drained, Silence, OnGoaway, Emits, EmitClose, EmitError, PingAck,
       Elapse, OnPingInterval, OnPingTimeout, OnIdleTimeout, May, Quiet, Up
  <2>4. proc' = "up" => Held(dial', ver', jobs', call', <<>>)
    BY <1>1, <2>1, <2>3, UserHeld, RunJobHeld, StreamTimerHeld, SessionHeld DEF Next, HeldInv
  <2> QED BY <2>2, <2>4 DEF HeldInv
<1>2. CASE UNCHANGED vars
  BY <1>2 DEF vars, HeldInv, WaitsFit
<1> QED BY <1>1, <1>2

\* The places of a caller.
LEMMA AwaitsParts ==
  ASSUME NEW w, NEW x
  PROVE  x \in Awaits(w) <=>
           \/ \E c \in Conn : \E i \in DOMAIN dial[c].q : dial[c].q[i] = w /\ x = <<"dial", c, i>>
           \/ \E c \in Conn : \E i \in DOMAIN ver[c].q : ver[c].q[i] = w /\ x = <<"ver", c, i>>
           \/ \E n \in DOMAIN jobs : \E i \in DOMAIN Callers(jobs[n]) :
                Callers(jobs[n])[i] = w /\ x = <<"job", n, i>>
<1> DEFINE A == {{<<"dial", c, i>> : i \in At(dial[c].q, w)} : c \in Conn}
           B == {{<<"ver", c, i>> : i \in At(ver[c].q, w)} : c \in Conn}
           G == {{<<"job", n, i>> : i \in At(Callers(jobs[n]), w)} : n \in DOMAIN jobs}
<1>1. x \in UNION A <=>
        \E c \in Conn : \E i \in DOMAIN dial[c].q : dial[c].q[i] = w /\ x = <<"dial", c, i>>
  BY DEF At
<1>2. x \in UNION B <=>
        \E c \in Conn : \E i \in DOMAIN ver[c].q : ver[c].q[i] = w /\ x = <<"ver", c, i>>
  BY DEF At
<1>3. x \in UNION G <=>
        \E n \in DOMAIN jobs : \E i \in DOMAIN Callers(jobs[n]) :
          Callers(jobs[n])[i] = w /\ x = <<"job", n, i>>
  BY DEF At
<1>4. Awaits(w) = UNION (A \cup B \cup G)
  BY DEF Awaits
<1> HIDE DEF A, B, G
<1>5. x \in UNION (A \cup B \cup G) <=> x \in UNION A \/ x \in UNION B \/ x \in UNION G
  OBVIOUS
<1> QED BY <1>1, <1>2, <1>3, <1>4, <1>5

\* Callers held at most once, and exactly those that wait, have one place each.
LEMMA HeldCounts ==
  ASSUME Held(dial, ver, jobs, call, <<>>), NEW w \in Caller
  PROVE  Cardinality(Awaits(w)) = IF call[w].st = "pending" THEN 1 ELSE 0
<1>1. CASE call[w].st # "pending"
  <2>1. ~Queued(dial, w) /\ ~Queued(ver, w) /\ ~Carried(jobs, w)
    BY <1>1 DEF Held
  <2>2. \A x : x \notin Awaits(w)
    BY <2>1, AwaitsParts DEF Queued, Carried, Has
  <2>3. Awaits(w) = {}
    BY <2>2
  <2> QED BY <1>1, <2>3, FS_EmptySet
<1>2. CASE call[w].st = "pending"
  <2>1. Queued(dial, w) \/ Queued(ver, w) \/ Carried(jobs, w)
    BY <1>2, SmallQueues DEF Held
  <2>2. ASSUME Queued(dial, w) PROVE \E y : Awaits(w) = {y}
    <3>1. ~Queued(ver, w) /\ ~Carried(jobs, w) /\ QueuedOnce(dial)
      BY <2>2 DEF Held
    <3>p. PICK c \in Conn : Has(dial[c].q, w)
      BY <2>2 DEF Queued
    <3>2. PICK i \in DOMAIN dial[c].q : dial[c].q[i] = w
      BY <3>p DEF Has
    <3>3. <<"dial", c, i>> \in Awaits(w)
      BY <3>2, AwaitsParts
    <3>4. ASSUME NEW x \in Awaits(w) PROVE x = <<"dial", c, i>>
      <4>p. PICK d \in Conn : \E k \in DOMAIN dial[d].q : dial[d].q[k] = w /\ x = <<"dial", d, k>>
        BY <3>1, <3>4, AwaitsParts DEF Queued, Carried, Has
      <4>1. PICK k \in DOMAIN dial[d].q : dial[d].q[k] = w /\ x = <<"dial", d, k>>
        BY <4>p
      <4>2. d = c
        BY <3>1, <3>2, <4>1 DEF QueuedOnce, Has
      <4>3. k = i
        BY <3>1, <3>2, <4>1, <4>2 DEF QueuedOnce, Once
      <4> QED BY <4>1, <4>2, <4>3
    <3> QED BY <3>3, <3>4
  <2>3. ASSUME Queued(ver, w) PROVE \E y : Awaits(w) = {y}
    <3>1. ~Queued(dial, w) /\ ~Carried(jobs, w) /\ QueuedOnce(ver)
      BY <2>3 DEF Held
    <3>p. PICK c \in Conn : Has(ver[c].q, w)
      BY <2>3 DEF Queued
    <3>2. PICK i \in DOMAIN ver[c].q : ver[c].q[i] = w
      BY <3>p DEF Has
    <3>3. <<"ver", c, i>> \in Awaits(w)
      BY <3>2, AwaitsParts
    <3>4. ASSUME NEW x \in Awaits(w) PROVE x = <<"ver", c, i>>
      <4>p. PICK d \in Conn : \E k \in DOMAIN ver[d].q : ver[d].q[k] = w /\ x = <<"ver", d, k>>
        BY <3>1, <3>4, AwaitsParts DEF Queued, Carried, Has
      <4>1. PICK k \in DOMAIN ver[d].q : ver[d].q[k] = w /\ x = <<"ver", d, k>>
        BY <4>p
      <4>2. d = c
        BY <3>1, <3>2, <4>1 DEF QueuedOnce, Has
      <4>3. k = i
        BY <3>1, <3>2, <4>1, <4>2 DEF QueuedOnce, Once
      <4> QED BY <4>1, <4>2, <4>3
    <3> QED BY <3>3, <3>4
  <2>4. ASSUME Carried(jobs, w) PROVE \E y : Awaits(w) = {y}
    <3>1. ~Queued(dial, w) /\ ~Queued(ver, w) /\ CarriedOnce(jobs)
      BY <2>4 DEF Held
    <3>p. PICK n \in DOMAIN jobs : Has(Callers(jobs[n]), w)
      BY <2>4 DEF Carried
    <3>2. PICK i \in DOMAIN Callers(jobs[n]) : Callers(jobs[n])[i] = w
      BY <3>p DEF Has
    <3>3. <<"job", n, i>> \in Awaits(w)
      BY <3>2, AwaitsParts
    <3>4. ASSUME NEW x \in Awaits(w) PROVE x = <<"job", n, i>>
      <4>p. PICK m \in DOMAIN jobs : \E k \in DOMAIN Callers(jobs[m]) :
              Callers(jobs[m])[k] = w /\ x = <<"job", m, k>>
        BY <3>1, <3>4, AwaitsParts DEF Queued, Has
      <4>1. PICK k \in DOMAIN Callers(jobs[m]) : Callers(jobs[m])[k] = w /\ x = <<"job", m, k>>
        BY <4>p
      <4>2. m = n
        BY <3>1, <3>2, <4>1 DEF CarriedOnce, Has
      <4>3. k = i
        BY <3>1, <3>2, <4>1, <4>2 DEF CarriedOnce, Once
      <4> QED BY <4>1, <4>2, <4>3
    <3> QED BY <3>3, <3>4
  <2>5. PICK y : Awaits(w) = {y}
    BY <2>1, <2>2, <2>3, <2>4
  <2> QED BY <1>2, <2>5, FS_Singleton
<1> QED BY <1>1, <1>2

\* No wakeup is lost or doubled: as long as the process runs, a caller inside
\* gotoReady() is held by exactly one promise or microtask, and no other is.
THEOREM CallersAreNotLost == Spec => []NoLostCaller
<1>1. Init => Inv /\ HeldInv
  BY InitInv, InitHeld
<1>2. Inv /\ HeldInv /\ [Next]_vars => Inv' /\ HeldInv'
  BY NextInv, NextHeld
<1>3. HeldInv => NoLostCaller
  BY HeldCounts DEF HeldInv, NoLostCaller
<1> QED BY <1>1, <1>2, <1>3, PTL DEF Spec

-----------------------------------------------------------------------------
(* Who listens to a connection that is being dialled, while nobody calls       *)
(* abort().                                                                    *)

\* The manager leaves a connecting or verifying state x by a reaction, which finds
\* it there: the listeners of the connection gone, or the verification over.
Reacts(j)       == IsSettled(j) \/ j.k \in {"pinged", "verified"}
DialsNext(j, c) == j.k = "verified" /\ j.next = connecting(c)
Verifies(v)     == v.p \in {"pending", "pinged"}

Due(j, D, V, x) ==
  /\ IsSettled(j) => \E c \in Conn : x = connecting(c) /\ ~D[c].on
  /\ j.k = "pinged" => x = verifying(j.c)
  /\ j.k = "verified" => x.t = "verifying" /\ \A c \in Conn : ~Verifies(V[c])

\* At most one reaction is due.  A promise of connect() that is pending has its
\* listeners, and what has listeners is, or is next to be, the connection of the
\* connecting state.
Hears(J, D, V, x) ==
  /\ \A c \in Conn : /\ D[c].p = "pending" => D[c].on
                     /\ D[c].on => \/ x = connecting(c)
                                   \/ \E n \in DOMAIN J : DialsNext(J[n], c)
                     /\ Verifies(V[c]) => x = verifying(c)
  /\ \A m, n \in DOMAIN J : Reacts(J[m]) /\ Reacts(J[n]) => m = n
  /\ \A n \in DOMAIN J : Due(J[n], D, V, x)

HearInv == WaitsFit /\ Hears(jobs, dial, ver, s)

\* No connection is dialled or verified, and no reaction is due.
Rested(J, D, V) ==
  /\ \A c \in Conn : ~D[c].on /\ D[c].p # "pending" /\ ~Verifies(V[c])
  /\ \A n \in DOMAIN J : ~Reacts(J[n])

\* That is so in every state but connecting and verifying, and fits every state.
LEMMA RestedStates ==
  ASSUME NEW J, NEW D, NEW V
  PROVE  /\ \A x : Hears(J, D, V, x) /\ x.t \notin {"connecting", "verifying"} => Rested(J, D, V)
         /\ \A x : Rested(J, D, V) => Hears(J, D, V, x)
<1>1. ASSUME NEW x, Hears(J, D, V, x), x.t \notin {"connecting", "verifying"}
      PROVE  Rested(J, D, V)
  <2>1. \A c \in Conn : x # connecting(c) /\ x # verifying(c)
    BY <1>1 DEF connecting, verifying
  <2>2. \A c : x # verifying(c)
    BY <1>1 DEF verifying
  <2>3. \A n \in DOMAIN J : ~Reacts(J[n])
    BY <1>1, <2>1, <2>2 DEF Hears, Due, Reacts
  <2>4. \A c \in Conn : ~D[c].on
    BY <1>1, <2>1, <2>3 DEF Hears, DialsNext, Reacts
  <2> QED BY <1>1, <2>1, <2>3, <2>4 DEF Hears, Rested
<1>2. ASSUME NEW x, Rested(J, D, V) PROVE Hears(J, D, V, x)
  BY <1>2 DEF Rested, Hears, Due, Reacts, IsSettled
<1> QED BY <1>1, <1>2

\* A reaction that is taken leaves none behind.
LEMMA TakeReaction ==
  ASSUME NEW J \in Seq(Job), J # <<>>, NEW D, NEW V, NEW x, Hears(J, D, V, x), Reacts(Head(J))
  PROVE  /\ Due(Head(J), D, V, x)
         /\ \A n \in DOMAIN Tail(J) : ~Reacts(Tail(J)[n])
         /\ \A c \in Conn : D[c].on => x = connecting(c) \/ DialsNext(Head(J), c)
<1>1. /\ Head(J) = J[1] /\ 1 \in DOMAIN J
      /\ \A n \in DOMAIN Tail(J) :
           n \in Nat /\ n + 1 # 1 /\ n + 1 \in DOMAIN J /\ Tail(J)[n] = J[n + 1]
  OBVIOUS
<1>2. \A n \in DOMAIN J : Reacts(J[n]) => n = 1
  BY <1>1 DEF Hears
<1>3. \A n \in DOMAIN J, c \in Conn : DialsNext(J[n], c) => Reacts(J[n])
  BY DEF DialsNext, Reacts
<1>4. \A c \in Conn : D[c].on => x = connecting(c) \/ \E n \in DOMAIN J : DialsNext(J[n], c)
  BY DEF Hears
<1>5. Due(Head(J), D, V, x)
  BY <1>1 DEF Hears
<1> QED BY <1>1, <1>2, <1>3, <1>4, <1>5

\* A wakeup that is taken, and wakeups that are queued.
LEMMA WakeupsHear ==
  ASSUME NEW J \in Seq(Job), NEW D, NEW V, NEW x, Hears(J, D, V, x)
  PROVE  /\ J # <<>> /\ ~Reacts(Head(J)) => Hears(Tail(J), D, V, x)
         /\ \A K \in Seq(Job) :
              (\A n \in DOMAIN K : K[n].k \in {"wake", "resume"}) => Hears(J \o K, D, V, x)
<1>0. /\ \A c \in Conn : /\ D[c].p = "pending" => D[c].on
                         /\ D[c].on => \/ x = connecting(c)
                                       \/ \E n \in DOMAIN J : DialsNext(J[n], c)
                         /\ Verifies(V[c]) => x = verifying(c)
      /\ \A m, n \in DOMAIN J : Reacts(J[m]) /\ Reacts(J[n]) => m = n
      /\ \A n \in DOMAIN J : Due(J[n], D, V, x)
  BY DEF Hears
<1>k. \A j, c : DialsNext(j, c) => Reacts(j)
  BY DEF DialsNext, Reacts
<1>1. ASSUME J # <<>>, ~Reacts(Head(J)) PROVE Hears(Tail(J), D, V, x)
  <2>1. /\ Head(J) = J[1]
        /\ \A n \in DOMAIN Tail(J) : n \in Nat /\ n + 1 \in DOMAIN J /\ Tail(J)[n] = J[n + 1]
        /\ \A n \in DOMAIN J : n # 1 => n - 1 \in DOMAIN Tail(J) /\ Tail(J)[n - 1] = J[n]
    BY <1>1
  <2>2. \A c \in Conn : (\E n \in DOMAIN J : DialsNext(J[n], c)) =>
                          \E n \in DOMAIN Tail(J) : DialsNext(Tail(J)[n], c)
    BY <1>1, <1>k, <2>1
  <2>3. ASSUME NEW m \in DOMAIN Tail(J), NEW n \in DOMAIN Tail(J), Reacts(Tail(J)[m]), Reacts(Tail(J)[n])
        PROVE  m = n
    <3>1. m + 1 = n + 1
      BY <1>0, <2>1, <2>3
    <3> QED BY <2>1, <3>1
  <2>4. \A n \in DOMAIN Tail(J) : Due(Tail(J)[n], D, V, x)
    BY <1>0, <2>1
  <2> QED BY <1>0, <2>2, <2>3, <2>4 DEF Hears
<1>2. ASSUME NEW K \in Seq(Job), \A n \in DOMAIN K : K[n].k \in {"wake", "resume"}
      PROVE  Hears(J \o K, D, V, x)
  <2>1. /\ \A n \in DOMAIN (J \o K) : \/ n \in DOMAIN J /\ (J \o K)[n] = J[n]
                                      \/ n - Len(J) \in DOMAIN K /\ (J \o K)[n] = K[n - Len(J)]
        /\ \A n \in DOMAIN J : n \in DOMAIN (J \o K) /\ (J \o K)[n] = J[n]
    BY ConcatProperties
  <2>2. \A n \in DOMAIN (J \o K) : \/ n \in DOMAIN J /\ (J \o K)[n] = J[n]
                                   \/ (J \o K)[n].k \in {"wake", "resume"}
    BY <1>2, <2>1
  <2>3. \A j : j.k \in {"wake", "resume"} => ~Reacts(j) /\ Due(j, D, V, x)
    BY DEF Reacts, Due, IsSettled
  <2>4. \A c \in Conn : (\E n \in DOMAIN J : DialsNext(J[n], c)) =>
                          \E n \in DOMAIN (J \o K) : DialsNext((J \o K)[n], c)
    BY <2>1
  <2>5. \A m, n \in DOMAIN (J \o K) : Reacts((J \o K)[m]) /\ Reacts((J \o K)[n]) => m = n
    BY <1>0, <2>2, <2>3
  <2>6. \A n \in DOMAIN (J \o K) : Due((J \o K)[n], D, V, x)
    BY <1>0, <2>2, <2>3
  <2> QED BY <1>0, <2>4, <2>5, <2>6 DEF Hears
<1> QED BY <1>1, <1>2

\* Only the state of the promises and the listeners count.
LEMMA SameHears ==
  ASSUME NEW J, NEW D, NEW V, NEW E, NEW W, NEW x, Hears(J, D, V, x),
         \A c \in Conn : E[c].p = D[c].p /\ E[c].on = D[c].on /\ W[c].p = V[c].p
  PROVE  Hears(J, E, W, x)
BY DEF Hears, Due, Verifies

\* Callers that go on waiting.
LEMMA AwaitHears ==
  ASSUME NEW now \in StateObject, NEW q \in Seq(Caller), NEW D \in [Conn -> DialClosure],
         NEW V \in [Conn -> VerifyPromise], NEW C \in [Caller -> CallState],
         NEW J \in Seq(Job), Await(now, q, D, V, C, J), NEW x, Hears(J, D, V, x)
  PROVE  Hears(jobs', dial', ver', x)
<1>0. PICK K \in Seq(Job) : jobs' = J \o K /\ Woken(K, now)
  BY AwaitJobs
<1>1. /\ jobs' = J \o K
      /\ \A n \in DOMAIN K : /\ K[n].k \in {"wake", "resume"}
                             /\ K[n].k = "resume" => now = ready(K[n].c)
  BY <1>0 DEF Woken
<1>2. Hears(jobs', D, V, x)
  BY <1>1, WakeupsHear
<1>3. \A c \in Conn : ver'[c].p = V[c].p
  BY AwaitKeeps
<1>4. \/ dial' = D
      \/ \E d \in Conn : dial' = [D EXCEPT ![d] = [D[d] EXCEPT !.q = D[d].q \o q]]
  BY StateConn DEF Await
<1>5. ASSUME NEW d \in DialClosure, NEW z PROVE [d EXCEPT !.q = z].p = d.p /\ [d EXCEPT !.q = z].on = d.on
  BY DEF DialClosure
<1>6. ASSUME NEW d \in Conn, dial' = [D EXCEPT ![d] = [D[d] EXCEPT !.q = D[d].q \o q]]
      PROVE  \A c \in Conn : dial'[c].p = D[c].p /\ dial'[c].on = D[c].on
  <2> DEFINE y == [D[d] EXCEPT !.q = D[d].q \o q]
  <2>1. dial' = [D EXCEPT ![d] = y]
    BY <1>6
  <2>2. y.p = D[d].p /\ y.on = D[d].on
    BY <1>5
  <2> HIDE DEF y
  <2> QED BY <2>1, <2>2
<1>7. \A c \in Conn : dial'[c].p = D[c].p /\ dial'[c].on = D[c].on
  BY <1>4, <1>6
<1> QED BY <1>2, <1>3, <1>7, SameHears

\* A new connection is dialled where nothing else is.
LEMMA DialHears ==
  ASSUME NEW J, NEW D, NEW V, Rested(J, D, V), NEW c \in Conn, NEW E,
         E[c].on, \A d \in Conn : d # c => E[d] = D[d]
  PROVE  Hears(J, E, V, connecting(c))
BY DEF Rested, Hears, Due, Reacts, IsSettled

\* A caller that enters gotoReady().
LEMMA GotoReadyHears ==
  ASSUME TypeOK, NEW w \in Caller, NEW op \in Op, NEW J \in Seq(Job),
         GotoReady(w, op, J), Hears(J, dial, ver, s)
  PROVE  Hears(jobs', dial', ver', s')
<1> DEFINE C == [call EXCEPT ![w] = Pending(op)]
<1>t. /\ s \in StateObject /\ dial \in [Conn -> DialClosure] /\ ver \in [Conn -> VerifyPromise]
      /\ <<w>> \in Seq(Caller)
  BY DEF TypeOK
<1>c. C \in [Caller -> CallState]
  BY DEF TypeOK, Pending, CallState
<1> HIDE DEF C
<1>1. CASE /\ NeedsDial /\ Fresh # {} /\ s' = connecting(NewConn)
           /\ Await(connecting(NewConn), <<w>>, Dialling(dial, NewConn), ver, C, J)
  <2> DEFINE D == Dialling(dial, NewConn)
             now == connecting(NewConn)
  <2>1. now \in StateObject /\ NewConn \in Conn /\ D \in [Conn -> DialClosure]
    BY <1>1, <1>t, NewConnType, StateTypes, DiallingType
  <2>2. D[NewConn].on /\ \A d \in Conn : d # NewConn => D[d] = dial[d]
    BY <1>t, <2>1 DEF Dialling
  <2>3. s.t \notin {"connecting", "verifying"}
    BY <1>1 DEF NeedsDial, closed, error
  <2>4. Rested(J, dial, ver)
    BY <2>3, RestedStates
  <2>5. Await(now, <<w>>, D, ver, C, J) /\ s' = now
    BY <1>1
  <2> HIDE DEF D
  <2>6. Hears(J, D, ver, now)
    BY <2>1, <2>2, <2>4, DialHears
  <2> HIDE DEF now
  <2>7. Hears(jobs', dial', ver', now)
    BY <1>t, <1>c, <2>1, <2>5, <2>6, AwaitHears
  <2> QED BY <2>5, <2>7
<1>2. CASE /\ s.t = "ready" /\ s' = verifying(s.c)
           /\ Await(verifying(s.c), <<w>>, dial,
                    [ver EXCEPT ![s.c] = [p |-> "pending", q |-> <<>>]], C, J)
  <2> DEFINE W == [ver EXCEPT ![s.c] = [p |-> "pending", q |-> <<>>]]
             now == verifying(s.c)
  <2>1. s.c \in Conn /\ now \in StateObject
    BY <1>2, <1>t, StateConn, StateTypes
  <2>2. W \in [Conn -> VerifyPromise] /\ \A d \in Conn : d # s.c => W[d] = ver[d]
    BY <1>t, <2>1 DEF VerifyPromise
  <2>3. Await(now, <<w>>, dial, W, C, J) /\ s' = now
    BY <1>2
  <2>4. Rested(J, dial, ver)
    BY <1>2, RestedStates
  <2> HIDE DEF W
  <2>5. Hears(J, dial, W, now)
    <3>1. /\ \A c \in Conn : ~dial[c].on /\ dial[c].p # "pending" /\ ~Verifies(ver[c])
          /\ \A n \in DOMAIN J : ~Reacts(J[n]) /\ Due(J[n], dial, W, now)
      BY <2>4 DEF Rested, Reacts, Due, IsSettled
    <3> QED BY <2>2, <3>1 DEF Hears
  <2> HIDE DEF now
  <2>6. Hears(jobs', dial', ver', now)
    BY <1>t, <1>c, <2>1, <2>2, <2>3, <2>5, AwaitHears
  <2> QED BY <2>3, <2>6
<1>3. CASE Await(s, <<w>>, dial, ver, C, J) /\ UNCHANGED s
  <2>1. Hears(jobs', dial', ver', s)
    BY <1>3, <1>t, <1>c, AwaitHears
  <2> QED BY <1>3, <2>1
<1> QED BY <1>1, <1>2, <1>3 DEF GotoReady, C, SetState

\* Calls of an application that never calls abort().
LEMMA UserHears ==
  ASSUME TypeOK, HearInv, "abort" \notin Events, User
  PROVE  Hears(jobs', dial', ver', s')
<1>1. ASSUME NEW w \in Caller, NotifyResponseByteRead(w) PROVE Hears(jobs', dial', ver', s')
  BY <1>1 DEF NotifyResponseByteRead, HearInv
<1>2. ASSUME NEW w \in Caller, NEW op \in Op, Call(w, op) PROVE Hears(jobs', dial', ver', s')
  <2>1. GotoReady(w, op, jobs) /\ jobs \in Seq(Job) /\ Hears(jobs, dial, ver, s)
    BY <1>2 DEF Call, TypeOK, HearInv
  <2> QED BY <2>1, GotoReadyHears
<1>3. ASSUME NEW err, Abort(err) PROVE FALSE
  BY <1>3 DEF Abort
<1> QED BY <1>1, <1>2, <1>3 DEF User

\* Promise reactions.
LEMMA RunJobHears ==
  ASSUME Inv, TypeOK', HearInv, RunJob
  PROVE  Hears(jobs', dial', ver', s')
<1>0. jobs # <<>> /\ Head(jobs) \in Job /\ Tail(jobs) \in Seq(Job) /\ TypeOK /\ jobs \in Seq(Job)
  BY JobsHeadTail DEF Inv, TypeOK, RunJob, Dialled, DialFailed, Pinged, Verified, Wake, Resume, NextJob
<1>t. /\ s \in StateObject /\ dial \in [Conn -> DialClosure] /\ ver \in [Conn -> VerifyPromise]
      /\ call \in [Caller -> CallState]
  BY <1>0 DEF TypeOK
<1>f. Hears(jobs, dial, ver, s)
  BY DEF HearInv
<1>h. Reacts(Head(jobs)) =>
        /\ Due(Head(jobs), dial, ver, s)
        /\ \A n \in DOMAIN Tail(jobs) : ~Reacts(Tail(jobs)[n])
        /\ \A c \in Conn : dial[c].on => s = connecting(c) \/ DialsNext(Head(jobs), c)
  BY <1>0, <1>f, TakeReaction
<1>p. \A c \in Conn : /\ dial[c].p = "pending" => dial[c].on
                      /\ Verifies(ver[c]) => s = verifying(c)
  BY <1>f DEF Hears
<1>w. ~Reacts(Head(jobs)) => Hears(Tail(jobs), dial, ver, s)
  BY <1>0, <1>f, WakeupsHear
<1>s. ASSUME IsSettled(Head(jobs))
      PROVE  s.t = "connecting" /\ Rested(Tail(jobs), dial, ver) /\ Rested(Tail(jobs), ExitDial(dial), ver)
  <2>1. Reacts(Head(jobs)) /\ \A c \in Conn : ~DialsNext(Head(jobs), c)
    BY <1>s DEF Reacts, DialsNext, IsSettled
  <2>2. PICK c \in Conn : s = connecting(c) /\ ~dial[c].on
    BY <1>h, <1>s, <2>1 DEF Due
  <2>3. \A d \in Conn : (s = connecting(d) => d = c) /\ s # verifying(d)
    BY <2>2 DEF connecting, verifying
  <2>4. \A d \in Conn : ~dial[d].on /\ dial[d].p # "pending" /\ ~Verifies(ver[d])
    BY <1>h, <1>p, <2>1, <2>2, <2>3
  <2>5. s.t = "connecting" /\ s.c = c
    BY <2>2 DEF connecting
  <2>6. \A d \in Conn : ~ExitDial(dial)[d].on /\ ExitDial(dial)[d].p = dial[d].p
    <3>1. ExitDial(dial) = [dial EXCEPT ![c].on = FALSE]
      BY <2>5 DEF ExitDial
    <3> QED BY <1>t, <2>4, <3>1 DEF DialClosure
  <2> QED BY <1>h, <2>1, <2>4, <2>5, <2>6 DEF Rested
<1>1. CASE Dialled
  <2> DEFINE c == Head(jobs).c
             q == Head(jobs).q
  <2>1. c \in Conn /\ q \in Seq(Caller) /\ IsSettled(Head(jobs))
    BY <1>0, <1>1 DEF Dialled, NextJob, Job, IsSettled
  <2>2. ready(c) \in StateObject
    BY <2>1, StateTypes
  <2> HIDE DEF c, q
  <2>3. CASE s' = ready(c) /\ Await(ready(c), q, ExitDial(dial), ver, call, Tail(jobs))
    <3>1. ExitDial(dial) \in [Conn -> DialClosure]
      BY <1>0, <1>t, ExitDialType
    <3>2. Hears(Tail(jobs), ExitDial(dial), ver, ready(c))
      BY <1>s, <2>1, RestedStates
    <3>3. Hears(jobs', dial', ver', ready(c))
      BY <1>0, <1>t, <2>1, <2>2, <2>3, <3>1, <3>2, AwaitHears
    <3> QED BY <2>3, <3>3
  <2>4. CASE s = closed
    BY <1>s, <2>1, <2>4 DEF closed
  <2>5. CASE jobs' = Tail(jobs) /\ UNCHANGED <<s, dial, ver>>
    <3>1. Hears(Tail(jobs), dial, ver, s)
      BY <1>s, <2>1, RestedStates
    <3> QED BY <2>5, <3>1
  <2> QED BY <1>1, <2>3, <2>4, <2>5 DEF Dialled, SetState, c, q
<1>2. CASE DialFailed
  <2>1. /\ IsSettled(Head(jobs)) /\ dial' = ExitDial(dial) /\ ver' = ver /\ jobs' = Tail(jobs)
    BY <1>2 DEF DialFailed, NextJob, IsSettled
  <2>2. Rested(jobs', dial', ver')
    BY <1>s, <2>1
  <2> QED BY <2>2, RestedStates
<1>3. CASE Pinged
  <2> DEFINE c == Head(jobs).c
             j(next) == [k |-> "verified", next |-> next, q |-> ver[c].q]
  <2>1. c \in Conn /\ Head(jobs).k = "pinged" /\ Reacts(Head(jobs))
    BY <1>0, <1>3 DEF Pinged, NextJob, Job, Reacts
  <2>2. s = verifying(c)
    BY <1>h, <2>1 DEF Due
  <2>3. /\ s.t = "verifying" /\ \A d \in Conn : s # connecting(d) /\ (s = verifying(d) => d = c)
    BY <2>2 DEF verifying, connecting
  <2>4. \A d \in Conn : ~dial[d].on /\ dial[d].p # "pending"
    BY <1>h, <1>p, <2>1, <2>3 DEF DialsNext
  <2>5. s' = s /\ \A d \in Conn : ~Verifies(ver'[d])
    BY <1>t, <1>3, <1>p, <2>1, <2>3 DEF Pinged, Verifies
  <2>6. \A n \in DOMAIN Tail(jobs) : ~Reacts(Tail(jobs)[n])
    BY <1>h, <2>1
  <2>7. ASSUME NEW D, NEW K, NEW x,
               \A d \in Conn : /\ D[d].p = "pending" => D[d].on
                               /\ D[d].on => x.next = connecting(d),
               x.k = "verified", K = Append(Tail(jobs), x)
        PROVE  Hears(K, D, ver', s)
    <3>1. /\ DOMAIN K = 1..(Len(Tail(jobs)) + 1) /\ DOMAIN Tail(jobs) = 1..Len(Tail(jobs))
          /\ Len(Tail(jobs)) \in Nat
          /\ \A n \in DOMAIN Tail(jobs) : K[n] = Tail(jobs)[n]
          /\ K[Len(Tail(jobs)) + 1] = x
      BY <1>0, <2>7
    <3> DEFINE l == Len(Tail(jobs)) + 1
    <3>2. l \in DOMAIN K /\ K[l] = x /\ \A n \in DOMAIN K : n # l => ~Reacts(K[n])
      BY <2>6, <3>1
    <3> HIDE DEF l
    <3>3. \A d \in Conn : D[d].on => \E n \in DOMAIN K : DialsNext(K[n], d)
      BY <2>7, <3>2 DEF DialsNext
    <3>4. \A m, n \in DOMAIN K : Reacts(K[m]) /\ Reacts(K[n]) => m = n
      BY <3>2
    <3>5. ASSUME NEW n \in DOMAIN K PROVE Due(K[n], D, ver', s)
      <4>1. CASE n = l
        BY <2>3, <2>5, <2>7, <3>2, <4>1 DEF Due, IsSettled
      <4>2. CASE n # l
        BY <3>2, <4>2 DEF Due, Reacts, IsSettled
      <4> QED BY <4>1, <4>2
    <3> QED BY <2>5, <2>7, <3>3, <3>4, <3>5 DEF Hears
  <2>8. CASE jobs' = Append(Tail(jobs), j(ready(c))) /\ UNCHANGED dial
    <3>1. j(ready(c)).k = "verified"
      OBVIOUS
    <3> HIDE DEF j
    <3>2. Hears(jobs', dial, ver', s)
      BY <2>4, <2>7, <2>8, <3>1
    <3> QED BY <2>5, <2>8, <3>2
  <2>9. CASE /\ Fresh # {} /\ dial' = Dialling(dial, NewConn)
             /\ jobs' = Append(Tail(jobs), j(connecting(NewConn)))
    <3>1. j(connecting(NewConn)).k = "verified" /\ j(connecting(NewConn)).next = connecting(NewConn)
      OBVIOUS
    <3>2. \A d \in Conn : /\ dial'[d].p = "pending" => dial'[d].on
                          /\ dial'[d].on => connecting(NewConn) = connecting(d)
      BY <1>t, <2>4, <2>9 DEF Dialling
    <3> HIDE DEF j
    <3>3. Hears(jobs', dial', ver', s)
      BY <2>7, <2>9, <3>1, <3>2
    <3> QED BY <2>5, <3>3
  <2> QED BY <1>3, <2>8, <2>9 DEF Pinged
<1>4. CASE Verified
  <2> DEFINE next == Head(jobs).next
             q == Head(jobs).q
  <2>1. /\ next \in StateObject /\ q \in Seq(Caller) /\ Head(jobs).k = "verified"
        /\ Reacts(Head(jobs))
    BY <1>0, <1>4 DEF Verified, NextJob, Job, StateObject, Reacts
  <2>2. s.t = "verifying" /\ \A d \in Conn : ~Verifies(ver[d])
    BY <1>h, <2>1 DEF Due
  <2>3. \A d \in Conn : dial[d].on => next = connecting(d)
    BY <1>h, <2>1, <2>2 DEF DialsNext, connecting
  <2>4. ExitDial(dial) = dial
    BY <2>2 DEF ExitDial
  <2>5. s' = next /\ Await(next, q, dial, ver, call, Tail(jobs))
    BY <1>4, <2>4 DEF Verified, SetState, next, q
  <2> HIDE DEF next, q
  <2>6. Hears(Tail(jobs), dial, ver, next)
    <3>1. \A n \in DOMAIN Tail(jobs) : ~Reacts(Tail(jobs)[n]) /\ Due(Tail(jobs)[n], dial, ver, next)
      BY <1>h, <2>1 DEF Due, Reacts, IsSettled
    <3> QED BY <1>p, <2>2, <2>3, <3>1 DEF Hears
  <2>7. Hears(jobs', dial', ver', next)
    BY <1>0, <1>t, <2>1, <2>5, <2>6, AwaitHears
  <2> QED BY <2>5, <2>7
<1>5. CASE Wake
  <2>1. <<Head(jobs).w>> \in Seq(Caller) /\ UNCHANGED s /\ ~Reacts(Head(jobs))
    BY <1>0, <1>5 DEF Wake, NextJob, Job, Reacts, IsSettled
  <2>2. CASE Await(s, <<Head(jobs).w>>, dial, ver, call, Tail(jobs))
    <3>1. Hears(jobs', dial', ver', s)
      BY <1>0, <1>t, <1>w, <2>1, <2>2, AwaitHears
    <3> QED BY <2>1, <3>1
  <2>3. CASE jobs' = Tail(jobs) /\ UNCHANGED <<dial, ver>>
    BY <1>w, <2>1, <2>3
  <2> QED BY <1>5, <2>2, <2>3 DEF Wake
<1>6. CASE Resume
  <2>1. Head(jobs).w \in Caller /\ "request" \in Op /\ ~Reacts(Head(jobs))
    BY <1>0, <1>6 DEF Resume, NextJob, Job, Op, Reacts, IsSettled
  <2>2. CASE jobs' = Tail(jobs) /\ UNCHANGED <<s, dial, ver>>
    BY <1>w, <2>1, <2>2
  <2>3. CASE GotoReady(Head(jobs).w, "request", Tail(jobs))
    BY <1>0, <1>w, <2>1, <2>3, GotoReadyHears
  <2> QED BY <1>6, <2>2, <2>3 DEF Resume
<1> QED BY <1>1, <1>2, <1>3, <1>4, <1>5, <1>6 DEF RunJob

\* The end of connection c, with its hook or without: in a ready state nothing is
\* dialled, in another the state stays.
LEMMA HookHears ==
  ASSUME HookIsCurrent, NEW c \in Conn, NEW next \in {closed, error},
         RunHook(c, next) \/ (~rs[c].on /\ Keep(rs))
  PROVE  s' = s \/ (s.t = "ready" /\ s' \in {closed, error})
BY DEF RunHook, SetState, Keep, managerVars, HookIsCurrent, ready

\* A step that changes nothing of the promises, and leaves none but a ready state.
LEMMA QuietHears ==
  ASSUME HearInv, UNCHANGED <<jobs, dial, ver>>, s' = s \/ (s.t = "ready" /\ s' \in {closed, error})
  PROVE  Hears(jobs', dial', ver', s')
<1>1. Hears(jobs, dial, ver, s)
  BY DEF HearInv
<1>2. s.t = "ready" => Rested(jobs, dial, ver)
  BY <1>1, RestedStates
<1>3. Rested(jobs, dial, ver) => \A x : Hears(jobs, dial, ver, x)
  BY RestedStates
<1> QED BY <1>1, <1>2, <1>3

\* Events of streams and timers.
LEMMA StreamTimerHears ==
  ASSUME Inv, HearInv, Stream \/ (\E c \in Conn : Timer(c))
  PROVE  Hears(jobs', dial', ver', s')
<1>1. CASE Stream
  BY <1>1, QuietHears DEF Stream, OnResponse, OnStreamClose
<1>2. ASSUME NEW c \in Conn, Timer(c) PROVE Hears(jobs', dial', ver', s')
  <2>1. CASE OnIdleTimeout(c)
    <3>1. RunHook(c, closed) /\ UNCHANGED <<jobs, dial, ver>>
      BY <2>1 DEF OnIdleTimeout
    <3> QED BY <3>1, HookHears, QuietHears DEF Inv
  <2>2. CASE Elapse(c) \/ OnPingInterval(c) \/ OnPingTimeout(c)
    BY <2>2, QuietHears DEF Elapse, OnPingInterval, OnPingTimeout
  <2> QED BY <1>2, <2>1, <2>2 DEF Timer
<1> QED BY <1>1, <1>2

\* One reaction is queued to a promise of connect() or to a PING.
LEMMA OneReaction ==
  ASSUME NEW J, J = <<>>, NEW j, NEW D, NEW V, NEW x, Due(j, D, V, x), j.k # "verified",
         \A c \in Conn : /\ ~D[c].on \/ x = connecting(c)
                         /\ D[c].p = "pending" => D[c].on
                         /\ Verifies(V[c]) => x = verifying(c)
  PROVE  Hears(Append(J, j), D, V, x)
<1>1. \A n \in DOMAIN Append(J, j) : n = 1 /\ Append(J, j)[n] = j
  OBVIOUS
<1> QED BY <1>1 DEF Hears

\* Events of Node's session.
LEMMA SessionHears ==
  ASSUME Inv, HearInv, NEW c \in Conn, Session(c)
  PROVE  Hears(jobs', dial', ver', s')
<1>t. /\ TypeOK /\ sess \in [Conn -> NodeSession] /\ ver \in [Conn -> VerifyPromise]
      /\ dial \in [Conn -> DialClosure] /\ HookIsCurrent
  BY DEF Inv, TypeOK
<1>f. Hears(jobs, dial, ver, s) /\ PingsOnce(sess, ver)
  BY DEF HearInv, WaitsFit
<1>q. ASSUME jobs = <<>>
      PROVE  \A d \in Conn : /\ dial[d].p = "pending" => dial[d].on
                             /\ dial[d].on => s = connecting(d)
                             /\ Verifies(ver[d]) => s = verifying(d)
  BY <1>f, <1>q DEF Hears
<1>1. CASE SessionLost(c) \/ Drained(c) \/ Silence(c)
  BY <1>1, QuietHears DEF SessionLost, Drained, Silence
<1>2. ASSUME NEW code, OnGoaway(c, code) PROVE Hears(jobs', dial', ver', s')
  BY <1>2, QuietHears DEF OnGoaway
<1>3. CASE EmitClose(c)
  <2>1. /\ RunHook(c, closed) \/ (~rs[c].on /\ Keep(rs))
        /\ UNCHANGED <<jobs, dial, ver>>
    BY <1>3 DEF EmitClose
  <2> QED BY <1>t, <2>1, HookHears, QuietHears
<1>4. CASE OnConnect(c)
  <2>1. CASE UNCHANGED <<dial, jobs>>
    BY <1>4, <2>1, QuietHears DEF OnConnect
  <2>2. CASE /\ dial[c].on
             /\ dial' = [dial EXCEPT ![c] = [on |-> FALSE, p |-> "resolved", q |-> <<>>]]
             /\ jobs' = Append(jobs, [k |-> "dialled", c |-> c, q |-> dial[c].q])
    <3> DEFINE j == [k |-> "dialled", c |-> c, q |-> dial[c].q]
    <3>1. jobs = <<>> /\ ver' = ver /\ s' = s
      BY <1>4 DEF OnConnect, Quiet
    <3>2. ~dial'[c].on /\ dial'[c].p # "pending" /\ \A d \in Conn : d # c => dial'[d] = dial[d]
      BY <1>t, <2>2
    <3>3. j.k = "dialled" /\ jobs' = Append(jobs, j)
      BY <2>2
    <3> HIDE DEF j
    <3>4. Due(j, dial', ver, s)
      BY <1>q, <2>2, <3>1, <3>2, <3>3 DEF Due
    <3>5. \A d \in Conn : /\ ~dial'[d].on \/ s = connecting(d)
                          /\ dial'[d].p = "pending" => dial'[d].on
                          /\ Verifies(ver[d]) => s = verifying(d)
      BY <1>q, <3>1, <3>2
    <3>6. Hears(jobs', dial', ver, s)
      BY <3>1, <3>3, <3>4, <3>5, OneReaction
    <3> QED BY <3>1, <3>6
  <2> QED BY <1>4, <2>1, <2>2 DEF OnConnect
<1>5. CASE EmitError(c)
  <2>1. /\ \E next \in {closed, error} : RunHook(c, next) \/ (~rs[c].on /\ Keep(rs))
        /\ jobs = <<>>
    BY <1>5 DEF EmitError, Emits, Quiet, closedOrError
  <2>2. s' = s \/ (s.t = "ready" /\ s' \in {closed, error})
    BY <1>t, <2>1, HookHears
  <2>3. CASE dial[c].on
    <3> DEFINE j == [k |-> "dialFailed", err |-> sess[c].ev, q |-> dial[c].q]
    <3>1. s = connecting(c) /\ s' = s /\ ver[c].p # "pending"
      BY <1>q, <2>1, <2>2, <2>3 DEF connecting, verifying, Verifies
    <3>2. /\ ver' = ver /\ jobs' = Append(jobs, j) /\ j.k = "dialFailed"
          /\ dial' = [dial EXCEPT ![c] = [on |-> FALSE, p |-> "rejected", q |-> <<>>]]
      BY <1>5, <2>3, <3>1 DEF EmitError
    <3>3. ~dial'[c].on /\ dial'[c].p # "pending" /\ \A d \in Conn : d # c => dial'[d] = dial[d]
      BY <1>t, <3>2
    <3> HIDE DEF j
    <3>4. Due(j, dial', ver, s)
      BY <3>1, <3>2, <3>3 DEF Due
    <3>5. \A d \in Conn : /\ ~dial'[d].on \/ s = connecting(d)
                          /\ dial'[d].p = "pending" => dial'[d].on
                          /\ Verifies(ver[d]) => s = verifying(d)
      BY <1>q, <2>1, <3>3
    <3>6. Hears(jobs', dial', ver, s)
      BY <2>1, <3>2, <3>4, <3>5, OneReaction
    <3> QED BY <3>1, <3>2, <3>6
  <2>4. CASE ~dial[c].on /\ ver[c].p = "pending"
    <3> DEFINE j == [k |-> "pinged", c |-> c, ok |-> FALSE]
    <3>1. s = verifying(c) /\ s' = s
      BY <1>q, <2>1, <2>2, <2>4 DEF verifying, Verifies
    <3>2. /\ dial' = dial /\ jobs' = Append(jobs, j) /\ j.k = "pinged" /\ j.c = c
          /\ \A d \in Conn : d # c => ver'[d] = ver[d]
      BY <1>t, <1>5, <2>4 DEF EmitError
    <3> HIDE DEF j
    <3>3. Due(j, dial, ver', s)
      BY <3>1, <3>2 DEF Due, IsSettled
    <3>4. \A d \in Conn : /\ ~dial[d].on \/ s = connecting(d)
                          /\ dial[d].p = "pending" => dial[d].on
                          /\ Verifies(ver'[d]) => s = verifying(d)
      BY <1>q, <2>1, <3>1, <3>2
    <3>5. Hears(jobs', dial, ver', s)
      BY <2>1, <3>2, <3>3, <3>4, OneReaction
    <3> QED BY <3>1, <3>2, <3>5
  <2>5. CASE ~dial[c].on /\ ver[c].p # "pending"
    <3>1. UNCHANGED <<jobs, dial, ver>>
      BY <1>5, <2>5 DEF EmitError
    <3> QED BY <2>2, <3>1, QuietHears
  <2> QED BY <2>3, <2>4, <2>5
<1>6. CASE PingAck(c)
  <2>1. CASE UNCHANGED <<ver, jobs>>
    BY <1>6, <2>1, QuietHears DEF PingAck
  <2>2. CASE /\ Head(sess[c].pings) = "verify" /\ ver' = [ver EXCEPT ![c].p = "pinged"]
             /\ jobs' = Append(jobs, [k |-> "pinged", c |-> c, ok |-> TRUE])
    <3> DEFINE j == [k |-> "pinged", c |-> c, ok |-> TRUE]
    <3>1. jobs = <<>> /\ dial' = dial /\ s' = s /\ sess[c].pings # <<>>
      BY <1>6 DEF PingAck, Quiet
    <3>2. ver[c].p = "pending"
      <4>1. sess[c].pings \in Seq({"keep", "verify"})
        BY <1>t DEF NodeSession
      <4>2. 1 \in DOMAIN sess[c].pings /\ sess[c].pings[1] = "verify"
        BY <2>2, <3>1, <4>1
      <4> QED BY <1>f, <4>2 DEF PingsOnce
    <3>3. s = verifying(c)
      BY <1>q, <3>1, <3>2 DEF Verifies
    <3>4. /\ jobs' = Append(jobs, j) /\ j.k = "pinged" /\ j.c = c
          /\ \A d \in Conn : d # c => ver'[d] = ver[d]
      BY <1>t, <2>2
    <3> HIDE DEF j
    <3>5. Due(j, dial, ver', s)
      BY <3>3, <3>4 DEF Due, IsSettled
    <3>6. \A d \in Conn : /\ ~dial[d].on \/ s = connecting(d)
                          /\ dial[d].p = "pending" => dial[d].on
                          /\ Verifies(ver'[d]) => s = verifying(d)
      BY <1>q, <3>1, <3>3, <3>4
    <3>7. Hears(jobs', dial, ver', s)
      BY <3>1, <3>4, <3>5, <3>6, OneReaction
    <3> QED BY <3>1, <3>7
  <2> QED BY <1>6, <2>1, <2>2 DEF PingAck
<1> QED BY <1>1, <1>2, <1>3, <1>4, <1>5, <1>6 DEF Session

\* At first nothing is dialled.
LEMMA InitHears == Init => HearInv
<1>1. Init => Hears(jobs, dial, ver, s)
  BY DEF Init, Hears, Verifies
<1> QED BY <1>1, InitFits DEF HearInv

\* Every step leaves somebody listening to every connection that is dialled.
LEMMA NextHears ==
  ASSUME "abort" \notin Events
  PROVE  Inv /\ HearInv /\ [Next]_vars => HearInv'
<1> SUFFICES ASSUME Inv, HearInv, [Next]_vars PROVE HearInv'
  OBVIOUS
<1>1. TypeOK' /\ TypeOK
  BY TypeStep DEF Inv
<1>2. CASE Next
  <2>1. WaitsFit'
    BY <1>1, <1>2, NextFits DEF HearInv
  <2>2. Hears(jobs', dial', ver', s')
    BY <1>1, <1>2, UserHears, RunJobHears, StreamTimerHears, SessionHears DEF Next
  <2> QED BY <2>1, <2>2 DEF HearInv
<1>3. CASE UNCHANGED vars
  BY <1>3 DEF vars, HearInv, WaitsFit
<1> QED BY <1>2, <1>3

\* Until abort() is called, nobody waits for a new connection that the manager
\* does not listen to: neither a GOAWAY nor a failed verification nor a late
\* reaction takes the listeners off a connection that is being dialled (connect,
\* setState, gotoReady, verify).
THEOREM WaitedDialsAreHeard ==
  ASSUME "abort" \notin Events
  PROVE  Spec => []WaitedDialIsHeard
<1>1. Init => Inv /\ HearInv
  BY InitInv, InitHears
<1>2. Inv /\ HearInv /\ [Next]_vars => Inv' /\ HearInv'
  BY NextInv, NextHears
<1>3. HearInv => WaitedDialIsHeard
  BY DEF HearInv, Hears, WaitedDialIsHeard
<1> QED BY <1>1, <1>2, <1>3, PTL DEF Spec
=============================================================================
