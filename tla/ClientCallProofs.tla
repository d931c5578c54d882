--------------------------- MODULE ClientCallProofs ---------------------------
(* Theorems about ClientCall: what the outcome of a call says, for every set   *)
(* of calls, and every number of messages and chunks.                          *)
EXTENDS ClientCall, TLAPS

Fields == {"req", "user", "deadline", "timer", "foreign", "aborted", "hook", "thrown", "returned",
           "over", "sentinel", "stream", "rst", "ended", "sink", "sent", "head", "chunks",
           "got", "eof", "reader", "broken", "outcome", "heard"}

(* A code that an error may have: DeadlineExceeded only once the deadline      *)
(* passed, or another spoke of one.                                            *)
Fine(y, code) == code # NoCode /\ (code = DeadlineExceeded => y.deadline \/ y.foreign)

Typed(y) ==
  /\ DOMAIN y = Fields /\ DOMAIN y.sentinel = {"st", "code"}
  /\ y.sentinel.st \in {"pending", "resolved", "rejected"}
  /\ y.deadline \in BOOLEAN /\ y.hook \in BOOLEAN /\ y.thrown \in BOOLEAN
  /\ y.foreign \in BOOLEAN

(* The sentinel resolves when the response was read to its end; a call is      *)
(* decoded, or succeeds, only after that.                                      *)
Sound(y) ==
  /\ y.sentinel.st = "rejected" => Fine(y, y.sentinel.code)
  /\ y.eof => y.head
  /\ y.sentinel.st = "resolved" => y.eof /\ y.got = y.chunks
  /\ y.reader = "decoding" => y.sentinel.st = "resolved"
  /\ y.outcome = <<NoCode>> => y.sentinel.st = "resolved"

(* The request iterable has its listener until the signal is aborted, which    *)
(* it is when the call is over.                                                *)
Tells(y) ==
  /\ y.hook => y.aborted = Unaborted
  /\ y.outcome # << >> => y.aborted # Unaborted

(* A reader that waits is woken when the sentinel settles.                     *)
Waits(y) ==
  /\ y.reader \in {"head", "reading"} => y.sentinel.st = "pending"
  /\ y.sentinel.st = "resolved" => y.reader \in {"decoding", "done"}

Shaped(y) == Typed(y) /\ Sound(y) /\ Tells(y)

Good(y) == Shaped(y) /\ Waits(y)

(* The stream failed only if the sentinel was rejected.                        *)
FailsWithStream == x.broken => x.sentinel.st = "rejected"

Inv == Good(x) /\ FailsWithStream

-----------------------------------------------------------------------------
(* What a step from y to z must keep: its outcome reports a deadline if that   *)
(* passed, and only then or if another spoke of one, the request iterable is   *)
(* thrown nothing by a success, and a sentinel that is rejected stays so.      *)
Reports(y, z) ==
  y.outcome = << >> /\ z.outcome # << >> /\ z.outcome # <<NoCode>> =>
    /\ z.deadline => z.outcome = <<DeadlineExceeded>>
    /\ z.outcome = <<DeadlineExceeded>> => z.deadline \/ z.foreign

Throws(y, z) ==
  y.hook /\ z.thrown /\ ~y.thrown /\ z.outcome # << >> => z.outcome # <<NoCode>>

Breaks(y, z) ==
  z.broken = y.broken /\ z.sink = y.sink /\ (y.sentinel.st = "rejected" => z.sentinel.st = "rejected")

Lawful(y, z) == Good(z) /\ Reports(y, z) /\ Throws(y, z) /\ Breaks(y, z)

(* What the parts of the handlers never touch.                                 *)
Same(y, z) ==
  /\ DOMAIN z = Fields /\ z.deadline = y.deadline /\ z.broken = y.broken
  /\ z.foreign = y.foreign
  /\ z.sink = y.sink /\ z.head = y.head /\ z.eof = y.eof /\ z.chunks = y.chunks /\ z.got = y.got

(* Errors that do not come from a call's own signal.                           *)
Plain(y, reason) ==
  \/ reason \in {AbortErr, OtherErr}
  \/ \E chain : reason = NodeErr(chain)
  \/ \E code \in Nat \ {NoCode} :
       reason = ConnectErr(code) /\ (code = DeadlineExceeded => y.foreign)

\* Such an error has a code, and that of a deadline only if another spoke of one.
LEMMA PlainCodes ==
  ASSUME NEW y, NEW reason, Plain(y, reason)
  PROVE  Fine(y, nodeReasonCode(reason)) /\ Fine(y, reasonCode(reason))
<1>1. CASE reason \in {AbortErr, OtherErr}
  BY <1>1 DEF AbortErr, OtherErr, nodeReasonCode, reasonCode, codeFrom, Fine, NoCode,
              DeadlineExceeded, Canceled, Internal, Unknown
<1>2. ASSUME NEW chain, reason = NodeErr(chain)
      PROVE  Fine(y, nodeReasonCode(reason)) /\ Fine(y, reasonCode(reason))
  <2>1. nodeReasonCode(reason) = connectErrorFromNodeReason(chain) /\ reasonCode(reason) = Unknown
    BY <1>2 DEF NodeErr, nodeReasonCode, reasonCode, codeFrom
  <2>2. connectErrorFromNodeReason(chain) \in {Aborted, Unavailable, Internal}
    BY DEF connectErrorFromNodeReason
  <2> QED
    BY <2>1, <2>2 DEF Fine, NoCode, DeadlineExceeded, Aborted, Unavailable, Internal, Unknown
<1>3. ASSUME NEW code \in Nat \ {NoCode}, reason = ConnectErr(code),
             code = DeadlineExceeded => y.foreign
      PROVE  Fine(y, nodeReasonCode(reason)) /\ Fine(y, reasonCode(reason))
  BY <1>3 DEF ConnectErr, nodeReasonCode, reasonCode, codeFrom, Fine
<1> QED
  BY <1>1, <1>2, <1>3 DEF Plain

\* A ConnectError has its code.
LEMMA ConnectCodes ==
  ASSUME NEW code
  PROVE  nodeReasonCode(ConnectErr(code)) = code /\ reasonCode(ConnectErr(code)) = code
BY DEF ConnectErr, nodeReasonCode, reasonCode, codeFrom

-----------------------------------------------------------------------------
(* What each part of a handler does to a call.                                 *)

\* What another says of a deadline is noted, and nothing else changes.
LEMMA ForeignEffect ==
  ASSUME NEW y, Typed(y), NEW reason, NEW z, z = Foreign(y, reason)
  PROVE  /\ DOMAIN z = Fields /\ \A f \in Fields \ {"foreign"} : z[f] = y[f]
         /\ z.foreign \in BOOLEAN /\ (y.foreign => z.foreign)
         /\ reason = ConnectErr(DeadlineExceeded) => z.foreign
         /\ Shaped(y) => Shaped(z)
         /\ Good(y) => Good(z)
<1>1. /\ DOMAIN z = Fields /\ \A f \in Fields \ {"foreign"} : z[f] = y[f]
      /\ z.foreign \in BOOLEAN /\ (y.foreign => z.foreign)
      /\ reason = ConnectErr(DeadlineExceeded) => z.foreign
  BY DEF Foreign, Typed, Fields
<1>2. /\ z.sentinel = y.sentinel /\ z.deadline = y.deadline /\ z.hook = y.hook
      /\ z.thrown = y.thrown /\ z.eof = y.eof /\ z.head = y.head /\ z.got = y.got
      /\ z.chunks = y.chunks /\ z.reader = y.reader /\ z.outcome = y.outcome
      /\ z.aborted = y.aborted
  BY <1>1 DEF Fields
<1> QED
  BY <1>1, <1>2 DEF Shaped, Good, Typed, Sound, Tells, Waits, Fine

\* An error that was noted is one that another may raise.
LEMMA NotedIsPlain ==
  ASSUME NEW y, NEW reason,
         reason \in {AbortErr, OtherErr} \/ \E code \in Nat \ {NoCode} : reason = ConnectErr(code),
         reason = ConnectErr(DeadlineExceeded) => y.foreign
  PROVE  Plain(y, reason)
BY DEF Plain

\* The listener for the request iterable is called once.
LEMMA ToldEffect ==
  ASSUME NEW y, Typed(y), NEW error \in BOOLEAN, NEW z, z = Told(y, error)
  PROVE  /\ Same(y, z) /\ z.sentinel = y.sentinel /\ z.reader = y.reader
         /\ z.outcome = y.outcome /\ z.aborted = y.aborted /\ z.hook = FALSE
         /\ z.thrown \in BOOLEAN /\ (z.thrown <=> y.thrown \/ (y.hook /\ error))
BY DEF Typed, Fields, Same, Told

\* A sentinel that is pending is rejected, and others stay as they are.
LEMMA SentinelEffect ==
  ASSUME NEW y, Typed(y), NEW reason, NEW z, z = SettleSentinel(y, reason)
  PROVE  /\ Same(y, z) /\ z.reader = y.reader /\ z.outcome = y.outcome
         /\ z.aborted = y.aborted /\ z.hook = y.hook /\ z.thrown = y.thrown
         /\ z.sentinel = IF y.sentinel.st = "pending"
                         THEN [st |-> "rejected", code |-> nodeReasonCode(reason)]
                         ELSE y.sentinel
BY DEF Typed, Fields, Same, SettleSentinel, Destroyed

\* The promise of a call settles.
LEMMA SettlesEffect ==
  ASSUME NEW y, DOMAIN y = Fields, NEW code, NEW z, z = Settles(y, code)
  PROVE  /\ Same(y, z) /\ z.reader = "done" /\ z.outcome = <<code>>
         /\ z.sentinel = y.sentinel /\ z.aborted = y.aborted /\ z.hook = y.hook
         /\ z.thrown = y.thrown
BY DEF Fields, Same, Settles

(* The code that abort() reports.                                              *)
Failure(y, reason) == IF y.deadline THEN DeadlineExceeded ELSE reasonCode(reason)

\* A call fails: its sentinel and its request iterable hear of it.
LEMMA AbortEffect ==
  ASSUME NEW y, Typed(y), Tells(y), NEW reason, NEW z, z = Abort(y, reason)
  PROVE  /\ Same(y, z) /\ z.reader = "done" /\ z.outcome = <<Failure(y, reason)>>
         /\ z.aborted # Unaborted /\ z.hook = FALSE /\ z.thrown \in BOOLEAN
         /\ \/ z.sentinel = y.sentinel
            \/ /\ y.sentinel.st = "pending"
               /\ z.sentinel = [st |-> "rejected", code |-> Failure(y, reason)]
<1> DEFINE e == Failure(y, reason)
           a == [y EXCEPT !.aborted = <<ConnectErr(e)>>]
           b == Told(a, TRUE)
           c == SettleSentinel(b, ConnectErr(e))
           d == IF y.aborted # Unaborted THEN y ELSE c
<1>1. z = Settles(d, e)
  BY DEF Abort, Failure
<1> HIDE DEF e
<1>2. /\ Typed(a) /\ Same(y, a) /\ a.sentinel = y.sentinel /\ a.aborted = <<ConnectErr(e)>>
      /\ a.hook = y.hook
  BY DEF Typed, Same, Fields
<1> HIDE DEF a
<1>3. /\ Same(a, b) /\ b.sentinel = a.sentinel /\ b.aborted = a.aborted /\ b.hook = FALSE
      /\ b.thrown \in BOOLEAN
  BY <1>2, ToldEffect
<1>4. Typed(b)
  BY <1>2, <1>3 DEF Typed, Same
<1> HIDE DEF b
<1>5. /\ Same(b, c) /\ c.aborted = b.aborted /\ c.hook = b.hook /\ c.thrown = b.thrown
      /\ c.sentinel = IF b.sentinel.st = "pending"
                      THEN [st |-> "rejected", code |-> e] ELSE b.sentinel
  BY <1>4, SentinelEffect, ConnectCodes
<1> HIDE DEF c
<1>6. <<ConnectErr(e)>> # Unaborted
  BY DEF Unaborted
<1>7. /\ Same(y, d) /\ d.aborted # Unaborted /\ d.hook = FALSE /\ d.thrown \in BOOLEAN
      /\ \/ d.sentinel = y.sentinel
         \/ y.sentinel.st = "pending" /\ d.sentinel = [st |-> "rejected", code |-> e]
  BY <1>2, <1>3, <1>5, <1>6 DEF Same, Tells, Typed
<1> HIDE DEF d
<1>8. DOMAIN d = Fields
  BY <1>7 DEF Same
<1>9. /\ Same(d, z) /\ z.reader = "done" /\ z.outcome = <<e>> /\ z.sentinel = d.sentinel
      /\ z.aborted = d.aborted /\ z.hook = d.hook /\ z.thrown = d.thrown
  BY <1>1, <1>8, SettlesEffect
<1> QED
  BY <1>7, <1>9 DEF Same, e

\* A call that fails fails lawfully, if the reason is fine.
LEMMA AbortLawful ==
  ASSUME NEW y, Shaped(y), NEW reason, Fine(y, reasonCode(reason)),
         NEW z, z = Abort(y, reason)
  PROVE  Lawful(y, z) /\ z.outcome # <<NoCode>>
<1> DEFINE e == Failure(y, reason)
<1>1. /\ e # NoCode /\ (y.deadline => e = DeadlineExceeded)
      /\ e = DeadlineExceeded => y.deadline \/ y.foreign
  BY DEF Failure, Fine, NoCode, DeadlineExceeded, Shaped, Typed
<1>2. /\ Same(y, z) /\ z.reader = "done" /\ z.outcome = <<e>>
      /\ z.aborted # Unaborted /\ z.hook = FALSE /\ z.thrown \in BOOLEAN
      /\ \/ z.sentinel = y.sentinel
         \/ y.sentinel.st = "pending" /\ z.sentinel = [st |-> "rejected", code |-> e]
  BY AbortEffect DEF Shaped
<1> HIDE DEF e
<1>3. <<e>> # <<NoCode>> /\ <<e>> # << >> /\ (<<e>> = <<DeadlineExceeded>> <=> e = DeadlineExceeded)
  BY <1>1
<1>4. Typed(z)
  <2>1. DOMAIN z.sentinel = {"st", "code"} /\ z.sentinel.st \in {"pending", "resolved", "rejected"}
    BY <1>2 DEF Shaped, Typed
  <2> QED
    BY <1>2, <2>1 DEF Shaped, Typed, Same
<1>5. Sound(z)
  BY <1>2, <1>1, <1>3 DEF Shaped, Typed, Sound, Same, Fine
<1>6. Tells(z) /\ Waits(z)
  BY <1>2 DEF Tells, Waits
<1>7. Reports(y, z) /\ Throws(y, z) /\ Breaks(y, z)
  BY <1>2, <1>1, <1>3 DEF Reports, Throws, Breaks, Same
<1> QED
  BY <1>2, <1>3, <1>4, <1>5, <1>6, <1>7 DEF Lawful, Good, Shaped

\* A call that succeeds has read its response, and throws nothing.
LEMMA DoneLawful ==
  ASSUME NEW y, Shaped(y), y.sentinel.st = "resolved", NEW z, z = Done(y)
  PROVE  Lawful(y, z)
<1> DEFINE a == [y EXCEPT !.aborted = <<AbortErr>>]
           b == Told(a, FALSE)
           d == IF y.aborted # Unaborted THEN y ELSE b
<1>1. z = Settles(d, NoCode)
  BY DEF Done
<1>2. /\ Typed(a) /\ Same(y, a) /\ a.sentinel = y.sentinel /\ a.aborted = <<AbortErr>>
      /\ a.hook = y.hook /\ a.thrown = y.thrown
  BY DEF Shaped, Typed, Same, Fields
<1> HIDE DEF a
<1>3. /\ Same(a, b) /\ b.sentinel = a.sentinel /\ b.aborted = a.aborted /\ b.hook = FALSE
      /\ b.thrown \in BOOLEAN /\ (b.thrown <=> a.thrown)
  BY <1>2, ToldEffect
<1> HIDE DEF b
<1>4. <<AbortErr>> # Unaborted
  BY DEF Unaborted
<1>5. /\ Same(y, d) /\ d.aborted # Unaborted /\ d.hook = FALSE /\ d.thrown \in BOOLEAN
      /\ (d.thrown <=> y.thrown) /\ d.sentinel = y.sentinel
  BY <1>2, <1>3, <1>4 DEF Same, Shaped, Tells, Typed
<1> HIDE DEF d
<1>6. DOMAIN d = Fields
  BY <1>5 DEF Same
<1>7. /\ Same(d, z) /\ z.reader = "done" /\ z.outcome = <<NoCode>> /\ z.sentinel = d.sentinel
      /\ z.aborted = d.aborted /\ z.hook = d.hook /\ z.thrown = d.thrown
  BY <1>1, <1>6, SettlesEffect
<1>8. Typed(z)
  BY <1>5, <1>7 DEF Shaped, Typed, Same
<1>9. Sound(z)
  BY <1>5, <1>7 DEF Shaped, Typed, Sound, Same, Fine
<1>10. Tells(z) /\ Waits(z)
  BY <1>5, <1>7 DEF Tells, Waits
<1>11. Reports(y, z) /\ Throws(y, z) /\ Breaks(y, z)
  BY <1>5, <1>7 DEF Reports, Throws, Breaks, Same
<1> QED
  BY <1>8, <1>9, <1>10, <1>11 DEF Lawful, Good, Shaped

\* The sentinel is rejected, and the call fails if its reader waits.
LEMMA RejectLawful ==
  ASSUME NEW y, Good(y), NEW reason, Fine(y, nodeReasonCode(reason)),
         NEW z, z = Reject(y, reason)
  PROVE  /\ Lawful(y, z) /\ (z.outcome = <<NoCode>> => y.outcome = <<NoCode>>)
         /\ y.sentinel.st = "pending" => z.sentinel.st = "rejected"
<1> DEFINE a == SettleSentinel(y, reason)
<1>1. CASE y.sentinel.st # "pending"
  <2>1. z = y
    BY <1>1 DEF Reject, SettleSentinel
  <2> QED
    BY <1>1, <2>1 DEF Lawful, Reports, Throws, Breaks
<1>2. CASE y.sentinel.st = "pending"
  <2>1. /\ Same(y, a) /\ a.reader = y.reader /\ a.outcome = y.outcome
        /\ a.aborted = y.aborted /\ a.hook = y.hook /\ a.thrown = y.thrown
        /\ a.sentinel = [st |-> "rejected", code |-> nodeReasonCode(reason)]
    BY <1>2, SentinelEffect DEF Good, Shaped
  <2>2. z = IF Waiting(y) THEN Abort(a, ConnectErr(a.sentinel.code)) ELSE a
    BY <1>2 DEF Reject
  <2> HIDE DEF a
  <2>3. Typed(a)
    BY <2>1 DEF Good, Shaped, Typed, Same
  <2>4. Sound(a)
    BY <1>2, <2>1 DEF Good, Shaped, Sound, Same, Fine
  <2>5. Tells(a)
    BY <2>1 DEF Good, Shaped, Tells
  <2>6. Breaks(y, a) /\ a.sentinel.st = "rejected"
    BY <2>1 DEF Breaks, Same
  <2>7. CASE ~Waiting(y)
    <3>1. z = a /\ Waits(z)
      BY <2>1, <2>2, <2>7 DEF Waits, Waiting
    <3> QED
      BY <2>1, <2>3, <2>4, <2>5, <2>6, <3>1 DEF Lawful, Good, Shaped, Reports, Throws
  <2>8. CASE Waiting(y)
    <3>1. z = Abort(a, ConnectErr(a.sentinel.code))
      BY <2>2, <2>8
    <3>2. Fine(a, reasonCode(ConnectErr(a.sentinel.code)))
      BY <2>1, ConnectCodes DEF Fine, Same
    <3>3. Lawful(a, z) /\ z.outcome # <<NoCode>>
      BY <2>3, <2>4, <2>5, <3>1, <3>2, AbortLawful DEF Shaped
    <3> QED
      BY <2>1, <2>6, <3>3 DEF Lawful, Reports, Throws, Breaks
  <2> QED
    BY <2>7, <2>8
<1> QED
  BY <1>1, <1>2

\* The signal of a call is aborted: its request iterable and its sentinel hear of it.
LEMMA SignalledLawful ==
  ASSUME NEW y, Good(y), NEW reason, Fine(y, nodeReasonCode(reason)),
         NEW z, z = Signalled(y, reason)
  PROVE  Lawful(y, z)
<1> DEFINE a == [y EXCEPT !.aborted = <<reason>>]
           b == Told(a, TRUE)
<1>1. CASE y.aborted # Unaborted
  BY <1>1 DEF Signalled, Lawful, Reports, Throws, Breaks
<1>2. CASE y.aborted = Unaborted
  <2>1. z = Reject(b, reason)
    BY <1>2 DEF Signalled
  <2>2. /\ Typed(a) /\ Same(y, a) /\ a.sentinel = y.sentinel /\ a.aborted = <<reason>>
        /\ a.hook = y.hook /\ a.reader = y.reader /\ a.outcome = y.outcome
    BY DEF Good, Shaped, Typed, Same, Fields
  <2> HIDE DEF a
  <2>3. /\ Same(a, b) /\ b.sentinel = a.sentinel /\ b.aborted = a.aborted /\ b.hook = FALSE
        /\ b.thrown \in BOOLEAN /\ b.reader = a.reader /\ b.outcome = a.outcome
    BY <2>2, ToldEffect
  <2> HIDE DEF b
  <2>4. y.outcome = << >> /\ <<reason>> # Unaborted
    BY <1>2 DEF Good, Shaped, Tells, Unaborted
  <2>5. Typed(b)
    BY <2>2, <2>3 DEF Typed, Same
  <2>6. Sound(b) /\ Waits(b)
    BY <2>2, <2>3 DEF Good, Shaped, Sound, Same, Fine, Waits
  <2>7. Tells(b)
    BY <2>2, <2>3, <2>4 DEF Tells
  <2>8. Good(b) /\ Fine(b, nodeReasonCode(reason))
    BY <2>2, <2>3, <2>5, <2>6, <2>7 DEF Good, Shaped, Fine, Same
  <2>9. Lawful(b, z) /\ (z.outcome = <<NoCode>> => b.outcome = <<NoCode>>)
    BY <2>1, <2>8, RejectLawful
  <2>10. z.outcome # <<NoCode>>
    BY <2>2, <2>3, <2>4, <2>9
  <2> QED
    BY <2>2, <2>3, <2>9, <2>10 DEF Lawful, Reports, Throws, Breaks, Same
<1> QED
  BY <1>1, <1>2

-----------------------------------------------------------------------------
(* The steps. Most change something first that the invariant does not see, and *)
(* then apply a part of a handler.                                             *)
Step == Inv' /\ Reports(x, x') /\ (x.sink = x'.sink => Throws(x, x'))

Kept(y) ==
  /\ DOMAIN y = Fields /\ y.sentinel = x.sentinel /\ y.aborted = x.aborted
  /\ y.outcome = x.outcome /\ y.hook = x.hook /\ y.thrown = x.thrown
  /\ y.broken = x.broken

\* A lawful step after such a change.
LEMMA AfterChange ==
  ASSUME Inv, NEW y, Kept(y), Lawful(y, x')
  PROVE  Step
<1>1. Reports(x, x') /\ Throws(x, x')
  BY DEF Kept, Lawful, Reports, Throws
<1>2. FailsWithStream'
  BY DEF Inv, FailsWithStream, Kept, Lawful, Breaks
<1> QED
  BY <1>1, <1>2 DEF Step, Inv, Lawful

\* The change alone.
LEMMA ChangeOnly ==
  ASSUME Inv, Kept(x'), Good(x')
  PROVE  Step
<1>1. Lawful(x', x')
  BY DEF Lawful, Reports, Throws, Breaks
<1> QED
  BY <1>1, AfterChange

\* The caller aborts its signal, or the deadline passes.
LEMMA SignalStep ==
  ASSUME Inv, UserAborts \/ DeadlineFires
  PROVE  Step
<1>1. CASE UserAborts
  <2>1. PICK reason \in Aborts(x.req) :
          x' = Signalled(Foreign([x EXCEPT !.user = <<reason>>], reason), reason)
    BY <1>1 DEF UserAborts
  <2> DEFINE w == [x EXCEPT !.user = <<reason>>]
             y == Foreign(w, reason)
  <2>2. Kept(w) /\ Good(w)
    BY DEF Inv, Good, Shaped, Typed, Sound, Tells, Waits, Fine, Kept, Fields
  <2>3. x' = Signalled(y, reason)
    BY <2>1
  <2> HIDE DEF w
  <2>4. /\ Good(y) /\ DOMAIN y = Fields /\ \A f \in Fields \ {"foreign"} : y[f] = w[f]
        /\ reason = ConnectErr(DeadlineExceeded) => y.foreign
    BY <2>2, ForeignEffect DEF Good, Shaped
  <2> HIDE DEF y
  <2>5. Kept(y)
    BY <2>2, <2>4 DEF Kept, Fields
  <2>6. Plain(y, reason)
    <3>1. reason \in {AbortErr, OtherErr} \/ reason = ConnectErr(DeadlineExceeded)
      BY DEF Aborts, OwnErrors
    <3> QED
      BY <3>1, <2>4, NotedIsPlain DEF DeadlineExceeded, NoCode
  <2> QED
    BY <2>3, <2>4, <2>5, <2>6, PlainCodes, SignalledLawful, AfterChange
<1>2. CASE DeadlineFires
  <2> DEFINE y == [x EXCEPT !.timer = FALSE, !.deadline = TRUE]
  <2>1. x' = Signalled(y, ConnectErr(DeadlineExceeded))
    BY <1>2 DEF DeadlineFires
  <2>2. Kept(y) /\ Good(y) /\ y.deadline
    BY DEF Inv, Good, Shaped, Typed, Sound, Tells, Waits, Fine, Kept, Fields
  <2> HIDE DEF y
  <2>3. Fine(y, nodeReasonCode(ConnectErr(DeadlineExceeded)))
    BY <2>2, ConnectCodes DEF Fine, DeadlineExceeded, NoCode
  <2> QED
    BY <2>1, <2>2, <2>3, SignalledLawful, AfterChange
<1> QED
  BY <1>1, <1>2

\* The request is sent, without or with a failure.
LEMMA RequestStep ==
  ASSUME Inv, Opened \/ NextRequest \/ Written \/ EndWritten \/ Closed
  PROVE  Step
<1>1. Kept(x') /\ Good(x')
  <2>1. CASE Opened
    BY <2>1 DEF Opened, Destroyed, Pending, Inv, Good, Shaped, Typed, Sound, Tells, Waits,
                Fine, Kept, Fields
  <2>2. CASE NextRequest
    <3>1. \/ x' = [x EXCEPT !.sink = "write", !.sent = @ + 1]
          \/ x' = [x EXCEPT !.sink = "end", !.ended = TRUE, !.over = TRUE]
      BY <2>2 DEF NextRequest
    <3>2. CASE x' = [x EXCEPT !.sink = "write", !.sent = @ + 1]
      BY <3>2 DEF Inv, Good, Shaped, Typed, Sound, Tells, Waits, Fine, Kept, Fields
    <3>3. CASE x' = [x EXCEPT !.sink = "end", !.ended = TRUE, !.over = TRUE]
      BY <3>3 DEF Inv, Good, Shaped, Typed, Sound, Tells, Waits, Fine, Kept, Fields
    <3> QED
      BY <3>1, <3>2, <3>3
  <2>3. CASE Written
    BY <2>3 DEF Written, Inv, Good, Shaped, Typed, Sound, Tells, Waits, Fine, Kept, Fields
  <2>4. CASE EndWritten \/ Closed
    BY <2>4 DEF EndWritten, Closed, Inv, Good, Shaped, Typed, Sound, Tells, Waits, Fine,
                Kept, Fields
  <2> QED
    BY <2>1, <2>2, <2>3, <2>4
<1> QED
  BY <1>1, ChangeOnly

\* No connection, or no further request: the sentinel is rejected.
LEMMA FailureStep ==
  ASSUME Inv, OpenFails \/ RequestFails
  PROVE  Step
<1>1. CASE OpenFails
  <2> DEFINE y == [x EXCEPT !.stream = "closed"]
  <2>1. PICK chain : x' = Reject(y, NodeErr(chain))
    BY <1>1 DEF OpenFails
  <2>2. Kept(y) /\ Good(y)
    BY DEF Inv, Good, Shaped, Typed, Sound, Tells, Waits, Fine, Kept, Fields
  <2> HIDE DEF y
  <2>3. Plain(y, NodeErr(chain))
    BY DEF Plain
  <2> QED
    BY <2>1, <2>2, <2>3, PlainCodes, RejectLawful, AfterChange
<1>2. CASE RequestFails
  <2> DEFINE w == [x EXCEPT !.sink = "stopped", !.over = TRUE]
  <2>1. PICK reason \in OwnErrors : x' = Reject(Foreign(w, reason), reason)
    BY <1>2 DEF RequestFails
  <2> DEFINE y == Foreign(w, reason)
  <2>2. Kept(w) /\ Good(w)
    BY DEF Inv, Good, Shaped, Typed, Sound, Tells, Waits, Fine, Kept, Fields
  <2>3. x' = Reject(y, reason)
    BY <2>1
  <2> HIDE DEF w
  <2>4. /\ Good(y) /\ DOMAIN y = Fields /\ \A f \in Fields \ {"foreign"} : y[f] = w[f]
        /\ reason = ConnectErr(DeadlineExceeded) => y.foreign
    BY <2>2, ForeignEffect DEF Good, Shaped
  <2> HIDE DEF y
  <2>5. Kept(y)
    BY <2>2, <2>4 DEF Kept, Fields
  <2>6. Plain(y, reason)
    BY <2>4, NotedIsPlain DEF OwnErrors, DeadlineExceeded, NoCode
  <2> QED
    BY <2>3, <2>4, <2>5, <2>6, PlainCodes, RejectLawful, AfterChange
<1> QED
  BY <1>1, <1>2

\* A write fails: the request iterable is thrown an error by sinkRequest().
LEMMA WriteFailsStep ==
  ASSUME Inv, WriteFails
  PROVE  Step
<1> DEFINE y == [x EXCEPT !.sink = "stopped", !.thrown = TRUE]
           e == NodeErr(<<"ERR_STREAM_DESTROYED">>)
<1>1. x.sink = "write" /\ (x' = y \/ x' = Reject(y, e))
  BY DEF WriteFails
<1>2. /\ Good(y) /\ y.sink = "stopped" /\ y.broken = x.broken /\ y.sentinel = x.sentinel
      /\ y.outcome = x.outcome
  BY DEF Inv, Good, Shaped, Typed, Sound, Tells, Waits, Fine, Fields
<1> HIDE DEF y
<1>3. Plain(y, e)
  BY DEF Plain
<1> HIDE DEF e
<1>4. Lawful(y, x')
  <2>1. CASE x' = y
    BY <1>2, <2>1 DEF Lawful, Reports, Throws, Breaks
  <2>2. CASE x' = Reject(y, e)
    BY <1>2, <1>3, <2>2, PlainCodes, RejectLawful
  <2> QED
    BY <1>1, <2>1, <2>2
<1>5. FailsWithStream' /\ Reports(x, x') /\ x.sink # x'.sink
  BY <1>1, <1>2, <1>4 DEF Lawful, Breaks, Reports, FailsWithStream, Inv
<1> QED
  BY <1>4, <1>5 DEF Step, Inv, Lawful

\* The stream is reset, or its connection lost.
LEMMA ResetStep ==
  ASSUME Inv, Reset
  PROVE  Step
<1> DEFINE c == [x EXCEPT !.stream = "closed", !.rst = 0, !.eof = x.head]
           f(code) == [[x EXCEPT !.stream = "closed", !.rst = code] EXCEPT !.broken = Pending]
<1>1. \/ x' = c
      \/ \E code, reason : Plain(f(code), reason) /\ x' = Reject(f(code), reason)
  <2>1. \A y : /\ Plain(y, ConnectErr(connectErrorFromH2ResetCode(H2CANCEL)))
              /\ Plain(y, NodeErr(<<"ERR_HTTP2_STREAM_ERROR">>))
              /\ Plain(y, NodeErr(<<"ECONNRESET">>))
    BY DEF Plain, connectErrorFromH2ResetCode, H2CANCEL, Canceled, NoCode, DeadlineExceeded
  <2>2. \/ x' = [[x EXCEPT !.stream = "closed", !.rst = 0] EXCEPT !.eof = x.head]
        \/ x' = Reject(f(H2CANCEL), ConnectErr(connectErrorFromH2ResetCode(H2CANCEL)))
        \/ x' = Reject(f(2), NodeErr(<<"ERR_HTTP2_STREAM_ERROR">>))
        \/ x' = Reject(f(0), NodeErr(<<"ECONNRESET">>))
    BY DEF Reset
  <2>3. [[x EXCEPT !.stream = "closed", !.rst = 0] EXCEPT !.eof = x.head] = c
    BY DEF Inv, Good, Shaped, Typed, Fields
  <2> HIDE DEF f, c
  <2> QED
    BY <2>1, <2>2, <2>3
<1>2. CASE x' = c
  <2>1. Kept(x') /\ Good(x')
    BY <1>2 DEF Inv, Good, Shaped, Typed, Sound, Tells, Waits, Fine, Kept, Fields
  <2> QED
    BY <2>1, ChangeOnly
<1>3. ASSUME NEW code, NEW reason, Plain(f(code), reason), x' = Reject(f(code), reason)
      PROVE  Step
  <2> DEFINE y == f(code)
  <2>1. /\ Good(y) /\ y.sentinel = x.sentinel /\ y.outcome = x.outcome /\ y.hook = x.hook
        /\ y.thrown = x.thrown /\ y.broken = (x.sentinel.st = "pending")
    BY DEF Inv, Good, Shaped, Typed, Sound, Tells, Waits, Fine, Fields, Pending
  <2>2. x' = Reject(y, reason) /\ Plain(y, reason)
    BY <1>3
  <2> HIDE DEF y
  <2>3. Fine(y, nodeReasonCode(reason))
    BY <2>2, PlainCodes
  <2>4. Lawful(y, x') /\ (y.sentinel.st = "pending" => x'.sentinel.st = "rejected")
    BY <2>1, <2>2, <2>3, RejectLawful
  <2>5. FailsWithStream' /\ Reports(x, x') /\ Throws(x, x')
    BY <2>1, <2>4 DEF Lawful, Breaks, Reports, Throws, FailsWithStream
  <2> QED
    BY <2>4, <2>5 DEF Step, Inv, Lawful
<1> QED
  BY <1>1, <1>2, <1>3

\* The caller of a stream asks for a message.
LEMMA AskStep ==
  ASSUME Inv, AskMessage
  PROVE  Step
<1>1. CASE x.sentinel.st = "rejected"
  <2>1. x' = Abort(x, ConnectErr(x.sentinel.code))
    BY <1>1 DEF AskMessage
  <2>2. Fine(x, reasonCode(ConnectErr(x.sentinel.code))) /\ Shaped(x)
    BY <1>1, ConnectCodes DEF Inv, Good, Shaped, Sound
  <2>3. Lawful(x, x') /\ Kept(x)
    BY <2>1, <2>2, AbortLawful DEF Kept, Inv, Good, Shaped, Typed
  <2> QED
    BY <2>3, AfterChange
<1>2. CASE x.sentinel.st # "rejected"
  <2>1. Kept(x') /\ Good(x')
    BY <1>2 DEF AskMessage, Inv, Good, Shaped, Typed, Sound, Tells, Waits, Fine, Kept, Fields
  <2> QED
    BY <2>1, ChangeOnly
<1> QED
  BY <1>1, <1>2

\* The response arrives.
LEMMA ArriveStep ==
  ASSUME Inv, Chunk \/ End
  PROVE  Step
<1>1. Kept(x') /\ Good(x')
  <2>1. CASE Chunk
    BY <2>1 DEF Chunk, Inv, Good, Shaped, Typed, Sound, Tells, Waits, Fine, Kept, Fields
  <2>2. CASE End
    BY <2>2 DEF End, Inv, Good, Shaped, Typed, Sound, Tells, Waits, Fine, Kept, Fields
  <2> QED
    BY <2>1, <2>2
<1> QED
  BY <1>1, ChangeOnly

\* A call that its server answered with an error fails lawfully.
LEMMA RaiseLawful ==
  ASSUME NEW y, Shaped(y), NEW code \in ErrorCodes, NEW z, z = Raise(y, code)
  PROVE  Lawful(Foreign(y, ConnectErr(code)), z)
<1> DEFINE w == Foreign(y, ConnectErr(code))
<1>1. Shaped(w) /\ (ConnectErr(code) = ConnectErr(DeadlineExceeded) => w.foreign)
  BY ForeignEffect DEF Shaped
<1>2. z = Abort(w, ConnectErr(code))
  BY DEF Raise
<1>3. code \in Nat \ {NoCode}
  BY ErrorCodesAssumption DEF Code, Canceled, Unauthenticated, NoCode
<1> HIDE DEF w
<1>4. Plain(w, ConnectErr(code))
  BY <1>1, <1>3, NotedIsPlain
<1>5. Lawful(w, z)
  BY <1>1, <1>2, <1>4, PlainCodes, AbortLawful
<1> QED
  BY <1>5 DEF w

\* Its head or a message of it is taken, or refused.
LEMMA TakeStep ==
  ASSUME Inv, Response \/ Read
  PROVE  Step
<1>1. ASSUME NEW y, NEW code \in ErrorCodes, Kept(y), Shaped(y), x' = Raise(y, code)
      PROVE  Step
  <2> DEFINE z == Foreign(y, ConnectErr(code))
  <2>1. /\ Shaped(z) /\ DOMAIN z = Fields /\ \A f \in Fields \ {"foreign"} : z[f] = y[f]
    BY <1>1, ForeignEffect DEF Shaped
  <2>2. Kept(z)
    <3> HIDE DEF z
    <3> QED
      BY <1>1, <2>1 DEF Kept, Fields
  <2>3. Lawful(z, x')
    BY <1>1, RaiseLawful
  <2> QED
    BY <2>2, <2>3, AfterChange
<1>3. CASE Response
  <2> DEFINE y == [x EXCEPT !.head = TRUE]
             z == [y EXCEPT !.reader = IF x.req.stream THEN "idle" ELSE "reading"]
  <2>1. x' = z \/ \E code \in ErrorCodes : x' = Raise(y, code)
    BY <1>3 DEF Response
  <2>2. Kept(y) /\ Good(y)
    BY DEF Inv, Good, Shaped, Typed, Sound, Tells, Waits, Fine, Kept, Fields
  <2>3. Kept(z) /\ Good(z)
    BY <1>3 DEF Response, Inv, Good, Shaped, Typed, Sound, Tells, Waits, Fine, Kept, Fields
  <2> HIDE DEF y, z
  <2> QED
    BY <1>1, <2>1, <2>2, <2>3, ChangeOnly DEF Good
<1>4. CASE Read
  <2> DEFINE y == [x EXCEPT !.got = @ + 1]
             z == [y EXCEPT !.reader = IF x.req.stream THEN "idle" ELSE "reading"]
  <2>1. x' = z \/ \E code \in ErrorCodes : x' = Raise(y, code)
    BY <1>4 DEF Read
  <2>2. Kept(y) /\ Good(y)
    BY <1>4 DEF Read, Inv, Good, Shaped, Typed, Sound, Tells, Waits, Fine, Kept, Fields
  <2>3. Kept(z) /\ Good(z)
    BY <1>4 DEF Read, Inv, Good, Shaped, Typed, Sound, Tells, Waits, Fine, Kept, Fields
  <2> HIDE DEF y, z
  <2> QED
    BY <1>1, <2>1, <2>2, <2>3, ChangeOnly DEF Good
<1> QED
  BY <1>3, <1>4

\* The response was read to its end.
LEMMA EndStep ==
  ASSUME Inv, ReadEnd \/ Decode
  PROVE  Step
<1>1. ASSUME NEW y, Shaped(y), y.sentinel.st = "resolved", y.broken = x.broken,
             y.outcome = x.outcome, y.hook = x.hook, y.thrown = x.thrown, ~x.broken,
             x' = Done(y) \/ \E code \in ErrorCodes : x' = Raise(y, code)
      PROVE  Step
  <2>1. \E w : /\ Lawful(w, x') /\ w.broken = x.broken /\ w.outcome = x.outcome
               /\ w.hook = x.hook /\ w.thrown = x.thrown
    <3>1. CASE x' = Done(y)
      BY <1>1, <3>1, DoneLawful
    <3>2. ASSUME NEW code \in ErrorCodes, x' = Raise(y, code)
          PROVE  \E w : /\ Lawful(w, x') /\ w.broken = x.broken /\ w.outcome = x.outcome
                        /\ w.hook = x.hook /\ w.thrown = x.thrown
      <4> DEFINE w == Foreign(y, ConnectErr(code))
      <4>1. \A f \in Fields \ {"foreign"} : w[f] = y[f]
        BY <1>1, ForeignEffect DEF Shaped
      <4>2. Lawful(w, x')
        BY <1>1, <3>2, RaiseLawful
      <4> HIDE DEF w
      <4>3. w.broken = y.broken /\ w.outcome = y.outcome /\ w.hook = y.hook /\ w.thrown = y.thrown
        BY <4>1 DEF Fields
      <4> QED
        BY <1>1, <4>2, <4>3
    <3> QED
      BY <1>1, <3>1, <3>2
  <2>2. FailsWithStream' /\ Reports(x, x') /\ Throws(x, x')
    BY <1>1, <2>1 DEF Lawful, Breaks, Reports, Throws, FailsWithStream
  <2> QED
    BY <2>1, <2>2 DEF Step, Inv, Lawful
<1>3. CASE ReadEnd
  <2> DEFINE y == [x EXCEPT !.sentinel.st = "resolved"]
             z == [y EXCEPT !.reader = "decoding"]
  <2>1. Pending /\ ~x.broken
    BY <1>3 DEF ReadEnd, Pending, Inv, FailsWithStream, Good, Waits
  <2>2. x' = z \/ x' = Done(y) \/ \E code \in ErrorCodes : x' = Raise(y, code)
    BY <1>3, <2>1 DEF ReadEnd
  <2>3. /\ Shaped(y) /\ y.sentinel.st = "resolved" /\ y.broken = x.broken
        /\ y.outcome = x.outcome /\ y.hook = x.hook /\ y.thrown = x.thrown
    BY <1>3 DEF ReadEnd, Inv, Good, Shaped, Typed, Sound, Tells, Waits, Fine, Fields
  <2>4. CASE x' = z
    <3>1. /\ Good(z) /\ z.broken = x.broken /\ z.outcome = x.outcome /\ z.hook = x.hook
          /\ z.thrown = x.thrown
      BY <1>3 DEF ReadEnd, Inv, Good, Shaped, Typed, Sound, Tells, Waits, Fine, Fields
    <3> HIDE DEF z
    <3> QED
      BY <2>1, <2>4, <3>1 DEF Step, Inv, FailsWithStream, Reports, Throws
  <2> HIDE DEF y, z
  <2> QED
    BY <1>1, <2>1, <2>2, <2>3, <2>4
<1>4. CASE Decode
  <2>1. x' = Done(x) \/ \E code \in ErrorCodes : x' = Raise(x, code)
    BY <1>4 DEF Decode
  <2>2. Shaped(x) /\ x.sentinel.st = "resolved" /\ ~x.broken
    BY <1>4 DEF Decode, Inv, Good, Shaped, Sound, FailsWithStream
  <2> QED
    BY <1>1, <2>1, <2>2
<1> QED
  BY <1>3, <1>4

\* Every step.
LEMMA NextStep ==
  ASSUME Inv, [Next]_vars
  PROVE  Step
<1>1. CASE Next
  BY <1>1, SignalStep, RequestStep, FailureStep, WriteFailsStep, ResetStep, AskStep,
     ArriveStep, TakeStep, EndStep DEF Next
<1>2. CASE UNCHANGED vars
  <2>1. x' = x
    BY <1>2 DEF vars
  <2> QED
    BY <2>1 DEF Step, Inv, Good, Shaped, Typed, Sound, Tells, Waits, Fine, FailsWithStream, Reports, Throws
<1> QED
  BY <1>1, <1>2

\* A call whose signal is aborted already fails; others wait for their head.
LEMMA InitInv ==
  ASSUME Init
  PROVE  Inv
<1>a. PICK r \in Requests : \E user \in Users(r) : x = Called(r, user)
  BY DEF Init
<1>1. PICK user \in Users(r) : x = Called(r, user)
  BY <1>a
<1> DEFINE y == Made(r, user)
<1>2. /\ DOMAIN y = Fields /\ y.hook \in BOOLEAN /\ y.deadline \in BOOLEAN /\ ~y.thrown
      /\ ~y.eof /\ ~y.broken /\ y.reader = "head" /\ y.outcome = << >> /\ y.thrown \in BOOLEAN
      /\ y.aborted = LinkedAbort(user, y.deadline) /\ y.sentinel = Sentinel(y.aborted)
      /\ (y.hook => y.aborted = Unaborted) /\ y.foreign \in BOOLEAN
      /\ (user = <<ConnectErr(DeadlineExceeded)>> => y.foreign)
  BY DEF Made, Fields, Hooked
<1> HIDE DEF y
<1>3. user = Unaborted \/ \E reason : Plain(y, reason) /\ user = <<reason>>
  <2>1. ASSUME NEW reason \in Aborts(r), user = <<reason>>
        PROVE  Plain(y, reason)
    <3>1. reason \in {AbortErr, OtherErr} \/ reason = ConnectErr(DeadlineExceeded)
      BY DEF Aborts, OwnErrors
    <3>2. reason = ConnectErr(DeadlineExceeded) => y.foreign
      BY <1>2, <2>1
    <3> QED
      BY <3>1, <3>2, NotedIsPlain DEF DeadlineExceeded, NoCode
  <2> QED
    BY <2>1 DEF Users
<1>4. \/ y.aborted = Unaborted
      \/ \E reason : y.aborted = <<reason>> /\ Fine(y, nodeReasonCode(reason))
  <2>1. CASE user = Unaborted
    BY <1>2, <2>1, ConnectCodes DEF LinkedAbort, Fine, NoCode, DeadlineExceeded
  <2>2. CASE user # Unaborted
    BY <1>2, <1>3, <2>2, PlainCodes DEF LinkedAbort
  <2> QED
    BY <2>1, <2>2
<1>5. CASE y.aborted = Unaborted
  <2>1. y.sentinel = [st |-> "pending", code |-> NoCode]
    BY <1>2, <1>5 DEF Sentinel
  <2>2. x = y
    BY <1>1, <2>1 DEF Called, y
  <2>3. y.sentinel.st = "pending" /\ DOMAIN y.sentinel = {"st", "code"}
    BY <2>1
  <2>4. Typed(y) /\ Sound(y) /\ Tells(y) /\ Waits(y)
    BY <1>2, <2>3 DEF Typed, Sound, Tells, Waits
  <2> QED
    BY <1>2, <2>2, <2>4 DEF Inv, Good, Shaped, FailsWithStream
<1>6. ASSUME NEW reason, y.aborted = <<reason>>, Fine(y, nodeReasonCode(reason))
      PROVE  Inv
  <2>1. y.sentinel = [st |-> "rejected", code |-> nodeReasonCode(reason)]
    BY <1>2, <1>6 DEF Sentinel, Unaborted
  <2> DEFINE z == Destroyed(y)
  <2>2. /\ Same(y, z) /\ z.sentinel = y.sentinel /\ z.hook = y.hook /\ z.thrown = y.thrown
        /\ z.aborted = y.aborted /\ z.outcome = y.outcome /\ z.reader = y.reader
    BY <1>2 DEF Destroyed, Same, Fields
  <2>3. x = Abort(z, ConnectErr(y.sentinel.code))
    BY <1>1, <2>1 DEF Called, y
  <2> HIDE DEF z
  <2>4. Shaped(z)
    BY <1>2, <1>6, <2>1, <2>2 DEF Shaped, Typed, Sound, Tells, Same, Fine, Unaborted
  <2>5. Fine(z, reasonCode(ConnectErr(y.sentinel.code)))
    BY <1>6, <2>1, <2>2, ConnectCodes DEF Fine, Same
  <2>6. Lawful(z, x)
    BY <2>3, <2>4, <2>5, AbortLawful
  <2> QED
    BY <1>2, <2>2, <2>6 DEF Lawful, Breaks, Inv, FailsWithStream, Same
<1> QED
  BY <1>4, <1>5, <1>6

(* The invariant, and that every step is lawful.                               *)
THEOREM CallInvariant == Spec => []Inv /\ [][Step]_vars
<1>1. Init => Inv
  BY InitInv
<1>2. Inv /\ [Next]_vars => Inv' /\ [Step]_vars
  BY NextStep DEF Step
<1> QED
  BY <1>1, <1>2, PTL DEF Spec

(* A call that succeeds has read the whole response, and its stream did not    *)
(* fail before that.                                                           *)
THEOREM SuccessIsRead == Spec => []SuccessReadAll
<1>1. Inv => SuccessReadAll
  BY DEF Inv, Good, Shaped, Sound, FailsWithStream, SuccessReadAll
<1> QED
  BY <1>1, CallInvariant, PTL

(* A call that fails after its deadline passed reports it; one that reports a  *)
(* deadline has passed its own, or its server or its caller said so.           *)
THEOREM DeadlineIsReported == Spec => DeadlineReported
<1>1. [Step]_vars =>
        [~Settled /\ Settled' /\ x'.outcome # <<NoCode>> =>
           /\ x'.deadline => x'.outcome = <<DeadlineExceeded>>
           /\ x'.outcome = <<DeadlineExceeded>> => x'.deadline \/ x'.foreign]_vars
  BY DEF Step, Reports, Settled
<1> QED
  BY <1>1, CallInvariant, PTL DEF DeadlineReported

(* The request iterable is thrown an error by the call only if the call fails. *)
THEOREM ReturnIsClean == Spec => CleanReturn
<1>1. [Step]_vars =>
        [x.hook /\ x'.thrown /\ ~x.thrown /\ x.sink = x'.sink /\ Settled' =>
           x'.outcome # <<NoCode>>]_vars
  BY DEF Step, Throws, Settled
<1> QED
  BY <1>1, CallInvariant, PTL DEF CleanReturn
=============================================================================
