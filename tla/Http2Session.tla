---------------------------- MODULE Http2Session ----------------------------
(* Http2SessionManager (packages/connect-node/src/http2-session-manager.ts):  *)
(* one HTTP/2 connection shared by all requests to an authority, kept alive   *)
(* with PING frames, verified after inactivity, replaced after a GOAWAY.      *)
(*                                                                            *)
(* The manager runs on JavaScript's single thread.  Node's events and timers  *)
(* are tasks, taken only when the queue of microtasks is empty; the reactions *)
(* of settled promises are microtasks, run in order.  Application code calls  *)
(* the manager from tasks and from microtasks, so between any two of them.    *)
EXTENDS Naturals, Sequences, FiniteSets

CONSTANTS
  Caller,        \* concurrent users of request() and connect()
  Conn,          \* identities for http2.connect(), each used once
  Keepalive,     \* pingIntervalMs is set (the default is Infinity)
  PingIdle,      \* options.pingIdleConnection
  MaxDoublings,  \* doublings of pingIntervalMs that take it past 0x7fffffff
  MaxPings,      \* bound: unanswered keep-alive PINGs told apart
  NodeMajor,     \* major version of Node.js
  Events         \* the faults and user actions that may happen

AllEvents == {"abort", "goaway", "lost", "refused", "silence", "late",
              "badRequest", "idle"}

ASSUME ConfigAssumption ==
  /\ IsFiniteSet(Caller)
  /\ Keepalive \in BOOLEAN /\ PingIdle \in BOOLEAN
  /\ MaxDoublings \in Nat /\ MaxPings \in Nat \ {0} /\ NodeMajor \in Nat
  /\ Events \subseteq AllEvents

VARIABLES
  s,             \* the manager's state object
  shuttingDown,  \* connections maintained after a GOAWAY
  doublings,     \* how often options.pingIntervalMs was doubled
  dial,          \* per connection: closure of connect()
  ver,           \* per connection: promise of the latest verify()
  rs,            \* per connection: closure of ready()
  sess,          \* per connection: Node's ClientHttp2Session
  call,          \* per caller: progress of its request() or connect()
  jobs,          \* microtasks, oldest first
  proc           \* the process: up, spinning in a loop, or ended by a throw

managerVars == <<s, shuttingDown>>
vars == <<s, shuttingDown, doublings, dial, ver, rs, sess, call, jobs, proc>>

-----------------------------------------------------------------------------
(* State objects. *)

closed        == [t |-> "closed"]
error         == [t |-> "error"]
connecting(c) == [t |-> "connecting", c |-> c]
verifying(c)  == [t |-> "verifying", c |-> c]
ready(c)      == [t |-> "ready", c |-> c]

\* Errors are told apart only by whether they are a ConnectError Canceled.
closedOrError(err) == IF err = "cancel" THEN closed ELSE error

StateObject == {closed, error} \cup [t : {"connecting", "verifying", "ready"}, c : Conn]

Idle           == [st |-> "idle"]
Pending(op)    == [st |-> "pending", op |-> op]
Open(c, heard) == [st |-> "open", c |-> c, heard |-> heard]
Op             == {"request", "connect"}

CallState ==
  {Idle} \cup [st : {"pending"}, op : Op] \cup [st : {"open"}, c : Conn, heard : BOOLEAN]

ReadyClosure ==
  [made : BOOLEAN,                                 \* ready() was called
   on : BOOLEAN,                                   \* error, close, goaway listeners
   errOnce : BOOLEAN,                              \* listeners of once("error")
   hook : {"none", "manager", "shuttingDown"},     \* state.onClose, state.onError
   streams : Nat, goaway : BOOLEAN, stale : BOOLEAN,
   pingInterval : BOOLEAN, pingTimeout : BOOLEAN, idleTimeout : BOOLEAN]

DialClosure ==
  [on : BOOLEAN,                                   \* connect, error listeners
   p : {"none", "pending", "resolved", "rejected"}, q : Seq(Caller)]

VerifyPromise == [p : {"none", "pending", "pinged", "settled"}, q : Seq(Caller)]

NodeSession ==
  [st : {"none", "connecting", "open", "closing", "destroyed"},
   ev : {"none", "close", "error", "cancel", "done"},  \* what it will emit
   pings : Seq({"keep", "verify"}), silent : BOOLEAN]

Job ==
  [k : {"dialled"}, c : Conn, q : Seq(Caller)]
    \cup [k : {"dialFailed"}, err : {"cancel", "error"}, q : Seq(Caller)]
    \cup [k : {"pinged"}, c : Conn, ok : BOOLEAN]
    \cup [k : {"verified"}, next : [t : {"connecting", "ready"}, c : Conn], q : Seq(Caller)]
    \cup [k : {"wake"}, w : Caller, ok : BOOLEAN]
    \cup [k : {"resume"}, w : Caller, c : Conn]

Init ==
  /\ s = closed
  /\ shuttingDown = {}
  /\ doublings = 0
  /\ dial = [c \in Conn |-> [on |-> FALSE, p |-> "none", q |-> <<>>]]
  /\ ver = [c \in Conn |-> [p |-> "none", q |-> <<>>]]
  /\ rs = [c \in Conn |->
             [made |-> FALSE, on |-> FALSE, errOnce |-> FALSE, hook |-> "none",
              streams |-> 0, goaway |-> FALSE, stale |-> FALSE, pingInterval |-> FALSE,
              pingTimeout |-> FALSE, idleTimeout |-> FALSE]]
  /\ sess = [c \in Conn |->
               [st |-> "none", ev |-> "none", pings |-> <<>>, silent |-> FALSE]]
  /\ call = [w \in Caller |-> Idle]
  /\ jobs = <<>>
  /\ proc = "up"

-----------------------------------------------------------------------------
(* Node's session, from how the manager uses it. *)

Fresh     == {c \in Conn : sess[c].st = "none"}
NewConn   == CHOOSE c \in Fresh : TRUE
Unusable(c) == sess[c].st \in {"closing", "destroyed"}   \* conn.closed || conn.destroyed

\* destroy() cancels outstanding PINGs; the event follows in a later task.
Destroyed(x, ev) ==
  IF x.st = "destroyed" THEN x
  ELSE [x EXCEPT !.st = "destroyed", !.ev = ev, !.pings = <<>>]

-----------------------------------------------------------------------------
(* The timers and listeners of a ready() closure r. *)

Cleanup(r) == [r EXCEPT !.on = FALSE, !.pingInterval = FALSE,
                        !.pingTimeout = FALSE, !.idleTimeout = FALSE]

\* Variant: the interval is stopped, never started again.
StopsPingInterval(r) == [r EXCEPT !.pingTimeout = FALSE, !.pingInterval = FALSE]

\* safeSetTimeout() ignores an interval above 0x7fffffff.
ResetPingInterval(r) ==
  [r EXCEPT !.pingTimeout = FALSE,
            !.pingInterval = /\ r.streams > 0 \/ PingIdle
                             /\ Keepalive /\ doublings < MaxDoublings]

Alive(r) == [r EXCEPT !.stale = FALSE]

\* Variants: the stream is not counted; the idle timer keeps running.
RegisterUncounted(r)  == [ResetPingInterval(r) EXCEPT !.idleTimeout = FALSE]
RegisterStillIdle(r)  == ResetPingInterval([r EXCEPT !.streams = @ + 1])

RegisterRequest(r) ==
  LET n == [r EXCEPT !.streams = @ + 1]
  IN IF n.streams = 1 THEN [ResetPingInterval(n) EXCEPT !.idleTimeout = FALSE] ELSE n

\* Variants: the end of a stream is not counted; the idle timer is not restarted.
ClosedUncounted(r) == ResetPingInterval(r)
ClosedNotIdle(r)   == ResetPingInterval([r EXCEPT !.streams = @ - 1])

StreamClosed(r) ==
  LET n == [r EXCEPT !.streams = @ - 1]
  IN IF n.streams = 0 THEN [ResetPingInterval(n) EXCEPT !.idleTimeout = TRUE] ELSE n

NewReady == [made |-> TRUE, on |-> TRUE, errOnce |-> FALSE, hook |-> "none",
             streams |-> 0, goaway |-> FALSE, stale |-> FALSE, pingInterval |-> FALSE,
             pingTimeout |-> FALSE, idleTimeout |-> TRUE]

-----------------------------------------------------------------------------
(* Leaving and entering states. *)

\* onExitState() of the state that is left, on the dial closures.
ExitDial(D) == IF s.t = "connecting" THEN [D EXCEPT ![s.c].on = FALSE] ELSE D

\* Variant: the hooks of a state that is left stay set.
ExitKeepsHooks(R) == IF s.t # "ready" THEN R ELSE [R EXCEPT ![s.c] = Cleanup(@)]

\* onExitState() and setState()'s own treatment of a connection shutting down.
ExitReady(R) ==
  IF s.t # "ready" THEN R
  ELSE IF R[s.c].goaway THEN [R EXCEPT ![s.c].hook = "shuttingDown"]
  ELSE [R EXCEPT ![s.c] = [Cleanup(@) EXCEPT !.hook = "none"]]

\* Variant: a connection that is shutting down is not maintained.
NotMaintained(R) == shuttingDown

Maintained(R) ==
  IF s.t = "ready" /\ R[s.c].goaway THEN shuttingDown \cup {s.c} ELSE shuttingDown

SetState(next, R) ==
  /\ s' = next
  /\ rs' = IF next.t = "ready" THEN [ExitReady(R) EXCEPT ![next.c].hook = "manager"]
                               ELSE ExitReady(R)
  /\ shuttingDown' = Maintained(R)

Keep(R) == rs' = R /\ UNCHANGED managerVars

\* The onClose/onError hook of connection c, after its closure's cleanup().
RunHook(c, next) ==
  LET R == [rs EXCEPT ![c] = Cleanup(@)] IN
  \/ rs[c].hook = "manager" /\ SetState(next, R)
  \/ rs[c].hook = "none" /\ Keep(R)
  \/ /\ rs[c].hook = "shuttingDown"
     /\ shuttingDown' = shuttingDown \ {c}
     /\ rs' = R
     /\ UNCHANGED s

\* Variant: callers are not told that their promise was rejected.
RejectedInSilence(C, q) == C

Rejected(C, q) ==
  [w \in Caller |->
     IF C[w].st = "pending" /\ \E i \in DOMAIN q : q[i] = w THEN Idle ELSE C[w]]

\* The loop of gotoReady() for the callers q, once the manager's state is `now`.
\* A promise still pending keeps the caller; a settled one queues its wakeup.
Await(now, q, D, V, C, J) ==
  LET wakes(ok) == [i \in DOMAIN q |-> [k |-> "wake", w |-> q[i], ok |-> ok]]
  IN
  /\ call' = IF now.t = "error" THEN Rejected(C, q) ELSE C
  /\ proc' = IF now.t = "closed" /\ q # <<>> THEN "spinning" ELSE proc
  /\ dial' = IF now.t = "connecting" /\ D[now.c].p = "pending"
             THEN [D EXCEPT ![now.c].q = @ \o q] ELSE D
  /\ ver' = IF now.t = "verifying" /\ V[now.c].p # "settled"
            THEN [V EXCEPT ![now.c].q = @ \o q] ELSE V
  /\ jobs' = J \o
       CASE now.t = "ready" -> [i \in DOMAIN q |-> [k |-> "resume", w |-> q[i], c |-> now.c]]
         [] now.t = "connecting" /\ D[now.c].p # "pending" -> wakes(D[now.c].p = "resolved")
         [] now.t = "verifying" /\ V[now.c].p = "settled" -> wakes(TRUE)
         [] OTHER -> <<>>

\* Variant: no listeners are attached.
DiallingUnheard(D, c) == [D EXCEPT ![c] = [on |-> FALSE, p |-> "pending", q |-> <<>>]]

\* connect() for connection c: listeners attached, promise pending.
Dialling(D, c) == [D EXCEPT ![c] = [on |-> TRUE, p |-> "pending", q |-> <<>>]]
Opening(c)     == [sess EXCEPT ![c].st = "connecting"]

NeedsDial ==
  \/ s.t \in {"closed", "error"}
  \/ s.t = "ready" /\ (rs[s.c].goaway \/ Unusable(s.c))

\* gotoReady() for caller w; J are the microtasks left.
GotoReady(w, op, J) ==
  LET C == [call EXCEPT ![w] = Pending(op)] IN
  /\ \/ /\ NeedsDial
        /\ Fresh # {}
        /\ SetState(connecting(NewConn), rs)
        /\ sess' = Opening(NewConn)
        /\ Await(connecting(NewConn), <<w>>, Dialling(dial, NewConn), ver, C, J)
     \/ /\ ~NeedsDial
        /\ s.t = "ready" /\ rs[s.c].stale
        /\ SetState(verifying(s.c), [rs EXCEPT ![s.c].pingTimeout = TRUE, ![s.c].errOnce = TRUE])
        /\ sess' = [sess EXCEPT ![s.c].pings = Append(@, "verify")]
        /\ Await(verifying(s.c), <<w>>, dial,
                 [ver EXCEPT ![s.c] = [p |-> "pending", q |-> <<>>]], C, J)
     \/ /\ ~NeedsDial
        /\ s.t = "ready" => ~rs[s.c].stale
        /\ Await(s, <<w>>, dial, ver, C, J)
        /\ UNCHANGED <<s, shuttingDown, rs, sess>>
  /\ UNCHANGED doublings

-----------------------------------------------------------------------------
(* Calls of the application. *)

Up    == proc = "up"
Quiet == Up /\ jobs = <<>>

Call(w, op) == Up /\ call[w] = Idle /\ GotoReady(w, op, jobs)

\* abort() of the current state, of all connections shutting down, then setState.
Abort(err) ==
  LET current == IF s.t \in {"ready", "verifying"} THEN {s.c} ELSE {}
      hit == {c \in current \cup shuttingDown : sess[c].st # "destroyed"}
      rejects == s.t = "connecting" /\ dial[s.c].p = "pending"
      R == [c \in Conn |-> IF c \in hit THEN [rs[c] EXCEPT !.errOnce = TRUE, !.pingTimeout = FALSE]
                                        ELSE rs[c]]
      D == IF rejects THEN [dial EXCEPT ![s.c].p = "rejected", ![s.c].q = <<>>] ELSE dial
  IN
  /\ Up /\ "abort" \in Events /\ Fresh # {}
  /\ sess' = [c \in Conn |->
                IF c \in hit THEN Destroyed(sess[c], err)
                ELSE IF s = connecting(c) THEN Destroyed(sess[c], "close") ELSE sess[c]]
  /\ SetState(closedOrError(err), R)
  /\ dial' = ExitDial(D)
  /\ jobs' = IF rejects
             THEN Append(jobs, [k |-> "dialFailed", err |-> err, q |-> dial[s.c].q])
             ELSE jobs
  /\ UNCHANGED <<doublings, ver, call, proc>>

\* notifyResponseByteRead(): reaches the current connection and those shutting down.
NotifyResponseByteRead(w) ==
  /\ Up /\ call[w].st = "open" /\ call[w].heard
  /\ LET c == call[w].c IN
     /\ ~sess[c].silent
     /\ s = ready(c) \/ c \in shuttingDown
     /\ ~Unusable(c) /\ rs[c].streams > 0
     /\ rs' = [rs EXCEPT ![c] = ResetPingInterval(Alive(@))]
  /\ UNCHANGED <<s, shuttingDown, doublings, dial, ver, sess, call, jobs, proc>>

-----------------------------------------------------------------------------
(* Microtasks. *)

NextJob(k) == Up /\ jobs # <<>> /\ Head(jobs).k = k

\* The reaction to a dialled connection: ready() asserts that it is open,
\* and a throw there is an unhandled rejection.
Dialled ==
  /\ NextJob("dialled")
  /\ LET c == Head(jobs).c
         q == Head(jobs).q IN
     \/ /\ sess[c].st = "open"
        /\ SetState(ready(c), [rs EXCEPT ![c] = NewReady])
        /\ Await(ready(c), q, ExitDial(dial), ver, call, Tail(jobs))
     \/ /\ sess[c].st # "open"
        /\ s = closed /\ q # <<>>
        /\ Await(s, q, dial, ver, call, Tail(jobs))
        /\ UNCHANGED <<s, shuttingDown, rs>>
     \/ /\ sess[c].st # "open"
        /\ ~(s = closed /\ q # <<>>)
        /\ proc' = "threw"
        /\ jobs' = Tail(jobs)
        /\ UNCHANGED <<s, shuttingDown, rs, dial, ver, call>>
  /\ UNCHANGED <<doublings, sess>>

DialFailed ==
  /\ NextJob("dialFailed")
  /\ SetState(closedOrError(Head(jobs).err), rs)
  /\ dial' = ExitDial(dial)
  /\ call' = Rejected(call, Head(jobs).q)
  /\ jobs' = Tail(jobs)
  /\ UNCHANGED <<doublings, ver, sess, proc>>

\* verify()'s continuation of ping(): keep the connection, or dial a new one.
Pinged ==
  /\ NextJob("pinged")
  /\ LET c == Head(jobs).c
         settle(next) == Append(Tail(jobs),
           [k |-> "verified", next |-> next, q |-> ver[c].q])
     IN \/ /\ Head(jobs).ok
           /\ jobs' = settle(ready(c))
           /\ UNCHANGED <<dial, sess>>
        \/ /\ ~Head(jobs).ok
           /\ Fresh # {}
           /\ dial' = Dialling(dial, NewConn)
           /\ sess' = Opening(NewConn)
           /\ jobs' = settle(connecting(NewConn))
  /\ ver' = [ver EXCEPT ![Head(jobs).c] = [p |-> "settled", q |-> <<>>]]
  /\ UNCHANGED <<s, shuttingDown, doublings, rs, call, proc>>

Verified ==
  /\ NextJob("verified")
  /\ SetState(Head(jobs).next, rs)
  /\ Await(Head(jobs).next, Head(jobs).q, ExitDial(dial), ver, call, Tail(jobs))
  /\ UNCHANGED <<doublings, sess>>

\* A caller that began to await a promise after it was settled.
Wake ==
  /\ NextJob("wake")
  /\ LET w == Head(jobs).w IN
     \/ /\ Head(jobs).ok
        /\ Await(s, <<w>>, dial, ver, call, Tail(jobs))
     \/ /\ ~Head(jobs).ok
        /\ call' = Rejected(call, <<w>>)
        /\ jobs' = Tail(jobs)
        /\ UNCHANGED <<dial, ver, proc>>
  /\ UNCHANGED <<s, shuttingDown, doublings, rs, sess>>

\* gotoReady() has returned a connection, one microtask ago: connect() is done,
\* request() opens its stream, or retries if the connection closed meanwhile.
Resume ==
  /\ NextJob("resume")
  /\ LET w == Head(jobs).w
         c == Head(jobs).c IN
     \/ /\ call[w] = Pending("connect")
        /\ call' = [call EXCEPT ![w] = Idle]
        /\ jobs' = Tail(jobs)
        /\ UNCHANGED <<s, shuttingDown, doublings, dial, ver, rs, sess, proc>>
     \/ /\ call[w] = Pending("request") /\ ~Unusable(c)
        /\ \/ /\ call' = [call EXCEPT ![w] = Open(c, FALSE)]
              /\ rs' = [rs EXCEPT ![c] = RegisterRequest(@)]
           \/ /\ "badRequest" \in Events
              /\ call' = [call EXCEPT ![w] = Idle]
              /\ UNCHANGED rs
        /\ jobs' = Tail(jobs)
        /\ UNCHANGED <<s, shuttingDown, doublings, dial, ver, sess, proc>>
     \/ /\ call[w] = Pending("request") /\ Unusable(c)
        /\ GotoReady(w, "request", Tail(jobs))

-----------------------------------------------------------------------------
(* Events of Node's session and streams. *)

\* Faults need a connection left to replace the one they break.
May(event) == Quiet /\ event \in Events /\ Fresh # {}

OnConnect(c) ==
  /\ Quiet /\ sess[c].st = "connecting"
  /\ sess' = [sess EXCEPT ![c].st = "open"]
  /\ \/ /\ dial[c].on
        /\ dial' = [dial EXCEPT ![c] = [on |-> FALSE, p |-> "resolved", q |-> <<>>]]
        /\ jobs' = Append(jobs, [k |-> "dialled", c |-> c, q |-> dial[c].q])
     \/ ~dial[c].on /\ UNCHANGED <<dial, jobs>>
  /\ UNCHANGED <<s, shuttingDown, doublings, ver, rs, call, proc>>

\* The session dies: refused while connecting, lost or closed by the peer after.
SessionLost(c) ==
  /\ \/ /\ May("refused") /\ sess[c].st = "connecting"
        /\ sess' = [sess EXCEPT ![c] = Destroyed(@, "error")]
     \/ /\ May("lost") /\ sess[c].st \in {"open", "closing"}
        /\ \E ev \in {"close", "error"} : sess' = [sess EXCEPT ![c] = Destroyed(@, ev)]
  /\ rs' = [rs EXCEPT ![c].pingTimeout = FALSE]
  /\ UNCHANGED <<s, shuttingDown, doublings, dial, ver, call, jobs, proc>>

\* A closed session without streams is destroyed by Node.
Drained(c) ==
  /\ Quiet /\ sess[c].st = "closing" /\ \A w \in Caller : call[w].st = "open" => call[w].c # c
  /\ sess' = [sess EXCEPT ![c] = Destroyed(@, "close")]
  /\ rs' = [rs EXCEPT ![c].pingTimeout = FALSE]
  /\ UNCHANGED <<s, shuttingDown, doublings, dial, ver, call, jobs, proc>>

\* From here on nothing of the peer arrives.
Silence(c) ==
  /\ May("silence") /\ sess[c].st = "open" /\ ~sess[c].silent
  /\ sess' = [sess EXCEPT ![c].silent = TRUE]
  /\ UNCHANGED <<s, shuttingDown, doublings, dial, ver, rs, call, jobs, proc>>

\* Node closes (NO_ERROR) or destroys the session, then emits "goaway".
OnGoaway(c, code) ==
  LET calm == code = "tooManyPings"
      dies == \/ code # "noError"
              \/ rs[c].on /\ rs[c].streams = 0 /\ NodeMajor >= 18 IN
  /\ May("goaway") /\ sess[c].st \in {"open", "closing"} /\ ~sess[c].silent
  /\ rs' = [rs EXCEPT ![c].goaway = @ \/ rs[c].on, ![c].pingTimeout = @ /\ ~dies]
  /\ doublings' = IF rs[c].on /\ calm /\ doublings < MaxDoublings THEN doublings + 1
                                                                 ELSE doublings
  /\ sess' = [sess EXCEPT ![c] =
       IF ~dies THEN [@ EXCEPT !.st = "closing"]
       ELSE Destroyed(@, IF code = "noError" THEN "cancel" ELSE "error")]
  /\ UNCHANGED <<s, shuttingDown, dial, ver, call, jobs, proc>>

\* A destroyed session reports its end once its streams have closed.
Emits(c, evs) ==
  /\ Quiet /\ sess[c].st = "destroyed" /\ sess[c].ev \in evs
  /\ \A w \in Caller : call[w].st = "open" => call[w].c # c
  /\ sess' = [sess EXCEPT ![c].ev = "done"]

EmitClose(c) ==
  /\ Emits(c, {"close"})
  /\ \/ rs[c].on /\ RunHook(c, closed)
     \/ ~rs[c].on /\ Keep(rs)
  /\ UNCHANGED <<doublings, dial, ver, call, jobs, proc>>

\* An "error" without a listener is thrown.
EmitError(c) ==
  LET next == closedOrError(sess[c].ev)
      heard == dial[c].on \/ rs[c].on \/ rs[c].errOnce
      pinging == ver[c].p = "pending"
      refused == [k |-> "dialFailed", err |-> sess[c].ev, q |-> dial[c].q]
      unverified == [k |-> "pinged", c |-> c, ok |-> FALSE]
  IN
  /\ Emits(c, {"error", "cancel"})
  /\ \/ rs[c].on /\ RunHook(c, next)
     \/ ~rs[c].on /\ Keep(rs)
  /\ dial' = IF dial[c].on THEN [dial EXCEPT ![c] = [on |-> FALSE, p |-> "rejected", q |-> <<>>]]
                           ELSE dial
  /\ ver' = IF pinging THEN [ver EXCEPT ![c].p = "pinged"] ELSE ver
  /\ jobs' = CASE dial[c].on -> Append(jobs, refused)
               [] ~dial[c].on /\ pinging -> Append(jobs, unverified)
               [] OTHER -> jobs
  /\ proc' = IF heard THEN proc ELSE "threw"
  /\ UNCHANGED <<doublings, call>>

\* The peer answers the oldest PING.
PingAck(c) ==
  LET verifies == Head(sess[c].pings) = "verify"
      pong == [rs EXCEPT ![c].pingTimeout = FALSE] IN
  /\ Quiet /\ sess[c].pings # <<>> /\ ~sess[c].silent
  /\ \/ \* in time
        /\ sess' = [sess EXCEPT ![c].pings = Tail(@)]
        /\ rs' = [pong EXCEPT ![c] = IF verifies THEN Alive(@) ELSE ResetPingInterval(Alive(@))]
        /\ IF verifies
           THEN /\ ver' = [ver EXCEPT ![c].p = "pinged"]
                /\ jobs' = Append(jobs, [k |-> "pinged", c |-> c, ok |-> TRUE])
           ELSE UNCHANGED <<ver, jobs>>
     \/ \* later than pingTimeoutMs
        /\ "late" \in Events /\ Fresh # {}
        /\ sess' = [sess EXCEPT ![c] = Destroyed(@, "error")]
        /\ rs' = pong
        /\ UNCHANGED <<ver, jobs>>
  /\ UNCHANGED <<s, shuttingDown, doublings, dial, call, proc>>

OnResponse(w) ==
  /\ Quiet /\ call[w].st = "open" /\ ~call[w].heard
  /\ LET c == call[w].c IN
     /\ sess[c].st \in {"open", "closing"} /\ ~sess[c].silent
     /\ call' = [call EXCEPT ![w].heard = TRUE]
     /\ rs' = [rs EXCEPT ![c] = ResetPingInterval(Alive(@))]
  /\ UNCHANGED <<s, shuttingDown, doublings, dial, ver, sess, jobs, proc>>

OnStreamClose(w) ==
  /\ Quiet /\ call[w].st = "open"
  /\ call' = [call EXCEPT ![w] = Idle]
  /\ rs' = [rs EXCEPT ![call[w].c] = StreamClosed(@)]
  /\ UNCHANGED <<s, shuttingDown, doublings, dial, ver, sess, jobs, proc>>

-----------------------------------------------------------------------------
(* Timers. *)

\* Time since lastAliveAt exceeds pingIntervalMs.
Elapse(c) ==
  /\ Quiet /\ Keepalive /\ sess[c].st = "open" /\ ~rs[c].stale
  /\ rs' = [rs EXCEPT ![c].stale = TRUE]
  /\ UNCHANGED <<s, shuttingDown, doublings, dial, ver, sess, call, jobs, proc>>

\* conn.ping() throws on a destroyed session.  MaxPings caps the PINGs told apart.
OnPingInterval(c) ==
  LET unanswered == Cardinality({i \in DOMAIN sess[c].pings : sess[c].pings[i] = "keep"}) IN
  /\ Quiet /\ rs[c].pingInterval
  /\ rs' = [rs EXCEPT ![c].pingInterval = FALSE, ![c].pingTimeout = TRUE]
  /\ \/ sess[c].st = "destroyed" /\ proc' = "threw" /\ UNCHANGED sess
     \/ /\ sess[c].st # "destroyed"
        /\ sess' = IF unanswered < MaxPings THEN [sess EXCEPT ![c].pings = Append(@, "keep")]
                                            ELSE sess
        /\ UNCHANGED proc
  /\ UNCHANGED <<s, shuttingDown, doublings, dial, ver, call, jobs>>

OnPingTimeout(c) ==
  /\ Quiet /\ Fresh # {} /\ rs[c].pingTimeout
  /\ rs' = [rs EXCEPT ![c].pingTimeout = FALSE]
  /\ sess' = [sess EXCEPT ![c] = Destroyed(@, "error")]
  /\ UNCHANGED <<s, shuttingDown, doublings, dial, ver, call, jobs, proc>>

\* conn.close(), then onClose() right away.
OnIdleTimeout(c) ==
  /\ May("idle") /\ rs[c].idleTimeout
  /\ sess' = IF Unusable(c) THEN sess ELSE [sess EXCEPT ![c].st = "closing"]
  /\ RunHook(c, closed)
  /\ UNCHANGED <<doublings, dial, ver, call, jobs, proc>>

-----------------------------------------------------------------------------
RunJob == Dialled \/ DialFailed \/ Pinged \/ Verified \/ Wake \/ Resume

User ==
  \/ \E w \in Caller : NotifyResponseByteRead(w) \/ \E op \in Op : Call(w, op)
  \/ \E err \in {"cancel", "error"} : Abort(err)

Stream == \E w \in Caller : OnResponse(w) \/ OnStreamClose(w)

Session(c) ==
  \/ OnConnect(c) \/ SessionLost(c) \/ Drained(c) \/ Silence(c)
  \/ EmitClose(c) \/ EmitError(c) \/ PingAck(c)
  \/ \E code \in {"noError", "tooManyPings", "other"} : OnGoaway(c, code)

Timer(c) == Elapse(c) \/ OnPingInterval(c) \/ OnPingTimeout(c) \/ OnIdleTimeout(c)

Next == User \/ RunJob \/ Stream \/ \E c \in Conn : Session(c) \/ Timer(c)

Spec == Init /\ [][Next]_vars

\* Microtasks run to the end, a connection attempt succeeds or fails, and the
\* event loop gets round to every event and timer that stays due or comes due
\* again and again.  The peer owes nothing, the application only that it does not
\* keep the queue of microtasks from ever running empty.
Fairness ==
  /\ WF_vars(RunJob)
  /\ []<>(jobs = <<>> \/ proc # "up")
  /\ \A c \in Conn :
       /\ SF_vars(sess[c].st = "connecting" /\ (OnConnect(c) \/ SessionLost(c)))
       /\ SF_vars(Drained(c) \/ EmitClose(c) \/ EmitError(c))
       /\ SF_vars(OnPingInterval(c))
       /\ SF_vars(OnPingTimeout(c))
       /\ SF_vars(OnIdleTimeout(c))
  /\ \A w \in Caller :
       SF_vars(call[w].st = "open" /\ sess[call[w].c].st = "destroyed" /\ OnStreamClose(w))

FairSpec == Spec /\ Fairness

-----------------------------------------------------------------------------
(* Properties of every configuration. *)

\* Every variable keeps its type.
TypeOK ==
  /\ s \in StateObject
  /\ shuttingDown \subseteq Conn
  /\ doublings \in 0..MaxDoublings
  /\ dial \in [Conn -> DialClosure]
  /\ ver \in [Conn -> VerifyPromise]
  /\ rs \in [Conn -> ReadyClosure]
  /\ sess \in [Conn -> NodeSession]
  /\ call \in [Caller -> CallState]
  /\ jobs \in Seq(Job)
  /\ proc \in {"up", "spinning", "threw"}

\* Only the current connection's closure can change the manager's state: the
\* late end of a connection that was replaced, aborted or is shutting down never
\* takes down its successor (setState, onExitState, onClose, onError).
HookIsCurrent == \A c \in Conn : rs[c].hook = "manager" => s = ready(c)

HasStream(w, c) == call[w].st = "open" /\ call[w].c = c
StreamsOn(c)    == {w \in Caller : HasStream(w, c)}

\* streamCount is the number of streams really open on the connection, through
\* replacement, verification, abort and retry (registerRequest).
StreamCountExact == \A c \in Conn : rs[c].streams = Cardinality(StreamsOn(c))

\* The manager closes a connection of its own accord, by idle timeout or after a
\* GOAWAY, only when no stream is open on it (onIdleTimeout, onGoaway).
ClosesOnItsOwn(c) ==
  /\ sess[c].st = "open"
  /\ \/ sess'[c].st = "closing" /\ rs[c].idleTimeout /\ ~rs'[c].idleTimeout
     \/ /\ ~rs[c].goaway /\ rs'[c].goaway
        /\ sess'[c].st = "destroyed" /\ sess'[c].ev = "cancel"
OnlyIdleConnectionsClose ==
  [][\A c \in Conn : ClosesOnItsOwn(c) => StreamsOn(c) = {}]_vars

Callers(j) == CASE j.k \in {"dialled", "dialFailed", "verified"} -> j.q
                [] j.k \in {"wake", "resume"} -> <<j.w>>
                [] OTHER -> <<>>
At(q, w) == {i \in DOMAIN q : q[i] = w}
Awaits(w) ==
  UNION ({{<<"dial", c, i>> : i \in At(dial[c].q, w)} : c \in Conn}
    \cup {{<<"ver", c, i>> : i \in At(ver[c].q, w)} : c \in Conn}
    \cup {{<<"job", n, i>> : i \in At(Callers(jobs[n]), w)} : n \in DOMAIN jobs})

\* No wakeup is lost or doubled: as long as the process runs, a caller inside
\* gotoReady() is held by exactly one promise or microtask, and no other is.
NoLostCaller ==
  proc = "up" => \A w \in Caller :
    Cardinality(Awaits(w)) = IF call[w].st = "pending" THEN 1 ELSE 0

WatchedStream(c) == rs[c].pingInterval \/ rs[c].pingTimeout
NeedsPings(c) ==
  Keepalive /\ doublings < MaxDoublings /\ rs[c].streams > 0 /\ sess[c].st # "destroyed"

\* Until its first verification, a connection that the manager maintains and
\* that has open streams always has a timer running that leads to the next PING
\* or to its end.  (abort() during a verification can make it drop one.)
Maintains(c) == s = ready(c) \/ c \in shuttingDown
OpenStreamsWatched ==
  \A c \in Conn : Maintains(c) /\ NeedsPings(c) /\ ver[c].p = "none" => WatchedStream(c)

\* A ready() closure is made once, for a session that has connected, and until
\* then nothing refers to it: no stream, timer, PING, verification or state.
MadeConsistent ==
  \A c \in Conn :
    IF rs[c].made THEN sess[c].st \notin {"none", "connecting"}
    ELSE /\ rs[c].streams = 0 /\ ~rs[c].pingInterval /\ sess[c].pings = <<>>
         /\ ver[c].p = "none" /\ s \notin {ready(c), verifying(c)}

\* A microtask refers to closures as the handler that takes it expects them.
Expected(j, R, S) ==
  /\ j.k = "dialled" => ~R[j.c].made /\ S[j.c].st \notin {"none", "connecting"}
  /\ j.k \in {"pinged", "resume"} => R[j.c].made
  /\ j.k = "verified" /\ j.next.t = "ready" => R[j.next.c].made
AllExpected(J, R, S) == \A n \in DOMAIN J : Expected(J[n], R, S)
DialledOnce(J) ==
  \A m, n \in DOMAIN J :
    J[m].k = "dialled" /\ J[n].k = "dialled" /\ J[m].c = J[n].c => m = n

\* The idle timer runs only while no stream is open.
IdleTimerStopped == \A c \in Conn : rs[c].idleTimeout => rs[c].streams = 0

\* The closures of connect(), verify() and ready() fit together: no connection
\* becomes ready twice, which would forget its streams, and no reaction, however
\* late, meets a connection that never became ready (ready, gotoReady, verify).
ClosuresConsistent ==
  MadeConsistent /\ AllExpected(jobs, rs, sess) /\ DialledOnce(jobs) /\ IdleTimerStopped

-----------------------------------------------------------------------------
(* Properties of some configurations. *)

\* A caller waits for a new connection only while the manager listens to it.
WaitedDialIsHeard ==
  \A c \in Conn : dial[c].p = "pending" /\ dial[c].q # <<>> => dial[c].on

\* abort() can reach every open stream: its connection is the current one or
\* one of those shutting down, unless it is already destroyed.
OpenStreamsTracked ==
  \A w \in Caller, c \in Conn : HasStream(w, c) =>
    sess[c].st = "destroyed" \/ s \in {ready(c), verifying(c)} \/ c \in shuttingDown

\* Every request() and connect() comes to an end.
RequestSettles ==
  \A w \in Caller : call[w].st = "pending" ~> call[w].st # "pending" \/ proc # "up"

\* A connection without streams is closed after idleConnectionTimeoutMs.
IdleConnectionCloses ==
  \A c \in Conn : s = ready(c) /\ rs[c].streams = 0 /\ Fresh # {}
    ~> s # ready(c) \/ rs[c].streams > 0 \/ Fresh = {} \/ proc # "up"

\* Streams on a connection whose peer fell silent are not open forever, unless
\* the request of another caller verifies the connection, which stops the timers
\* that would have closed it (onExitState, cleanup).
DeadPeerClosesStreams ==
  \A c \in Conn : sess[c].silent /\ rs[c].streams > 0 /\ ver[c].p = "none" /\ Fresh # {}
    ~> rs[c].streams = 0 \/ ver[c].p # "none" \/ Fresh = {} \/ proc # "up"

\* The same of every connection (http2-session-manager.ts:100-104).
SilenceClosesStreams ==
  \A c \in Conn : sess[c].silent /\ rs[c].streams > 0 /\ Fresh # {}
    ~> rs[c].streams = 0 \/ Fresh = {} \/ proc # "up"

\* A verification ends: with the same connection or with a new one.
VerificationEnds == s.t = "verifying" ~> s.t # "verifying" \/ proc # "up"

\* After abort() only a call opens a connection again.
AbortIsFinal ==
  [][\A c \in Conn : sess[c].st = "none" /\ sess'[c].st # "none" =>
        \/ s.t = "verifying"
        \/ \E w \in Caller : call[w] = Idle /\ call'[w].st = "pending"
        \/ jobs # <<>> /\ Head(jobs).k = "resume"]_vars

\* The error of a session that was destroyed has a listener.
ErrorsAreHeard ==
  \A c \in Conn : sess[c].ev \in {"error", "cancel"} =>
    dial[c].on \/ rs[c].on \/ rs[c].errOnce

\* gotoReady() never spins.
NeverSpins == proc # "spinning"
=============================================================================
