-------------------------- MODULE WritableIterable --------------------------
(* createWritableIterable (packages/connect/src/protocol/async-iterable.ts):  *)
(* an AsyncIterable supplied by write(), whose promise settles once the       *)
(* consumer has asked for the value after the one written.                    *)
(*                                                                            *)
(* Calls of the writers and of the consumer come between any two microtasks;  *)
(* the reactions of settled promises are microtasks, run in order.            *)
EXTENDS Naturals, Sequences

CONSTANTS
  Write,       \* calls of write(), each with a payload of its own
  Done,        \* the result { done: true, value: undefined }
  MaxReads,    \* bound: calls of next()
  Eager        \* whether the consumer calls next() before it has the last answer:
               \* the consumers to check, a set of Booleans

ASSUME WriteAssumption == Done \notin Write /\ Eager \subseteq BOOLEAN /\ MaxReads \in Nat

VARIABLES
  readQueue,   \* reads waiting for a payload: indices into reads, oldest first
  writeQueue,  \* payloads waiting for a read, oldest first
  mode,        \* open | closed (by the writer) | cancelled (err, return)
  next,        \* nextPromise: its state, and the writes awaiting it
  write,       \* per write(): its progress and the turns of its loop left
  reads,       \* per call of next(): the result it was answered with
  sent,        \* history: payloads accepted by write(), in order
  jobs,        \* microtasks, oldest first
  eager        \* the consumer

vars == <<readQueue, writeQueue, mode, next, write, reads, sent, jobs, eager>>

\* A read's value counts only once it is answered, that is, resolved.
NewRead     == [answered |-> FALSE, seen |-> FALSE, value |-> Done]
Answered(v) == [answered |-> TRUE, seen |-> FALSE, value |-> v]
Unresolved  == [st |-> "pending", q |-> <<>>]
Wake(w, ok) == [t |-> "wake", w |-> w, ok |-> ok]
Answer(n)   == [t |-> "answer", n |-> n]
Stopped     == [t |-> "stopped"]       \* the result of throw() or return()

Init ==
  /\ readQueue = <<>> /\ writeQueue = <<>> /\ mode = "open"
  /\ next = Unresolved
  /\ write = [w \in Write |-> [st |-> "new", left |-> 0]]
  /\ reads = <<>> /\ sent = <<>> /\ jobs = <<>>
  /\ eager \in Eager

-----------------------------------------------------------------------------
(* Parts of the handlers. *)

\* The microtasks of the writes that awaited nextPromise.
Woken(ok) == [i \in 1..Len(next.q) |-> Wake(next.q[i], ok)]

\* nextResolve(), nextReject(): they settle the latest promise made with them,
\* which return() replaces with one that is rejected already.
Settling(ok) == IF next.st = "pending" THEN Woken(ok) ELSE <<>>

\* drain(): every waiting read is answered with a done result.
Drained == [n \in DOMAIN reads |-> IF reads[n].answered THEN reads[n] ELSE Answered(Done)]

\* The microtasks of those reads' promises.
DrainJobs == [i \in 1..Len(readQueue) |-> Answer(readQueue[i])]

Drain == readQueue' = <<>> /\ reads' = Drained

\* `await nextPromise` in the loop of write(), with n turns of it left: the
\* next promise, the write and the microtasks after it.
AwaitNext(w, n) ==
  /\ write' = [write EXCEPT ![w] = [st |-> "waiting", left |-> n]]
  /\ next' = IF next.st = "pending" THEN [next EXCEPT !.q = Append(@, w)] ELSE next

\* Variants of Limit: only the next call is awaited; one call too many is.
LimitOne(queue)     == 1
LimitTooLong(queue) == Len(queue) + 2

\* How often a write awaits nextPromise, given the queue it left behind.
Limit(queue) == Len(queue) + 1

-----------------------------------------------------------------------------
(* The writer. *)

\* write() after close(), throw() or return().
Refuse(w) ==
  /\ write[w].st = "new" /\ mode # "open"
  /\ write' = [write EXCEPT ![w].st = "rejected"]
  /\ UNCHANGED <<readQueue, writeQueue, mode, next, reads, sent, jobs>>

\* write() that finds no waiting read.
Enqueue(w) ==
  /\ write[w].st = "new" /\ mode = "open" /\ readQueue = <<>>
  /\ writeQueue' = Append(writeQueue, w)
  /\ sent' = Append(sent, w)
  /\ AwaitNext(w, Limit(writeQueue'))
  /\ UNCHANGED <<readQueue, mode, reads, jobs>>

\* write() that answers the oldest waiting read.
HandOver(w) ==
  /\ write[w].st = "new" /\ mode = "open" /\ readQueue # <<>>
  /\ readQueue' = Tail(readQueue)
  /\ reads' = [reads EXCEPT ![Head(readQueue)] = Answered(w)]
  /\ jobs' = Append(jobs, Answer(Head(readQueue)))
  /\ sent' = Append(sent, w)
  /\ IF readQueue' # <<>>
       THEN write' = [write EXCEPT ![w].st = "resolved"] /\ UNCHANGED next
       ELSE AwaitNext(w, Limit(writeQueue))
  /\ UNCHANGED <<writeQueue, mode>>

WriteCall(w) == Refuse(w) \/ Enqueue(w) \/ HandOver(w)

Close ==
  /\ mode' = IF mode = "open" THEN "closed" ELSE mode
  /\ jobs' = jobs \o DrainJobs
  /\ Drain
  /\ UNCHANGED <<writeQueue, next, write, sent>>

-----------------------------------------------------------------------------
(* The consumer. *)

\* throw() or return() was called and its result is yet to be received.
Stopping == \E i \in DOMAIN jobs : jobs[i] = Stopped

MayAsk ==
  /\ Len(reads) < MaxReads
  /\ eager \/ (~Stopping /\ \A n \in DOMAIN reads : reads[n].seen)

\* Variant of NextTakes: the awaiting writes do not hear of the call.
NextTakesSilently ==
  /\ writeQueue # <<>>
  /\ writeQueue' = Tail(writeQueue)
  /\ reads' = Append(reads, Answered(Head(writeQueue)))
  /\ jobs' = Append(jobs, Answer(Len(reads) + 1))
  /\ UNCHANGED readQueue

\* next() that takes the oldest payload.
NextTakes ==
  /\ writeQueue # <<>>
  /\ writeQueue' = Tail(writeQueue)
  /\ reads' = Append(reads, Answered(Head(writeQueue)))
  /\ jobs' = jobs \o Append(Settling(TRUE), Answer(Len(reads) + 1))
  /\ UNCHANGED readQueue

\* Variant of NextEnds: closed is looked at before the queue.
NextEndsEarly ==
  /\ mode # "open"
  /\ reads' = Append(reads, Answered(Done))
  /\ jobs' = jobs \o Append(Settling(TRUE), Answer(Len(reads) + 1))
  /\ UNCHANGED <<readQueue, writeQueue>>

\* next() with no payload to come.
NextEnds ==
  /\ writeQueue = <<>> /\ mode # "open"
  /\ reads' = Append(reads, Answered(Done))
  /\ jobs' = jobs \o Append(Settling(TRUE), Answer(Len(reads) + 1))
  /\ UNCHANGED <<readQueue, writeQueue>>

\* next() that has to wait for a write.
NextWaits ==
  /\ writeQueue = <<>> /\ mode = "open"
  /\ reads' = Append(reads, NewRead)
  /\ readQueue' = Append(readQueue, Len(reads) + 1)
  /\ jobs' = jobs \o Settling(TRUE)
  /\ UNCHANGED writeQueue

NextCall ==
  /\ MayAsk
  /\ next' = Unresolved
  /\ NextTakes \/ NextEnds \/ NextWaits
  /\ UNCHANGED <<mode, write, sent>>

\* nextPromise once throw() rejected it, or return() replaced it.
Refusing == [st |-> "rejected", q |-> <<>>]

\* What throw() and return() have in common.  Bound: one of them at a time.
Stop(ok) ==
  /\ ~Stopping
  /\ mode' = "cancelled"
  /\ writeQueue' = <<>>
  /\ jobs' = Append(jobs \o Settling(ok) \o DrainJobs, Stopped)
  /\ next' = Refusing
  /\ Drain
  /\ UNCHANGED <<write, sent>>

Throw  == Stop(FALSE)
Return == Stop(TRUE)

-----------------------------------------------------------------------------
(* Microtasks. *)

\* A write is resumed after its await: the next turn of its loop, or its end.
\* Awaiting a promise that is rejected already takes one more microtask.
Resume ==
  LET j == Head(jobs) n == write[j.w].left - 1 IN
  /\ jobs # <<>> /\ j.t = "wake"
  /\ \/ /\ ~j.ok
        /\ write' = [write EXCEPT ![j.w].st = "rejected"]
        /\ jobs' = Tail(jobs) /\ UNCHANGED next
     \/ /\ j.ok /\ n = 0
        /\ write' = [write EXCEPT ![j.w].st = "resolved"]
        /\ jobs' = Tail(jobs) /\ UNCHANGED next
     \/ /\ j.ok /\ n > 0
        /\ AwaitNext(j.w, n)
        /\ jobs' = IF next.st = "rejected" THEN Append(Tail(jobs), Wake(j.w, FALSE))
                   ELSE Tail(jobs)
  /\ UNCHANGED <<readQueue, writeQueue, mode, reads, sent>>

\* The consumer receives the answer of a read, or of throw() or return().
Receive ==
  /\ jobs # <<>> /\ Head(jobs).t # "wake"
  /\ reads' = IF Head(jobs) = Stopped THEN reads
              ELSE [reads EXCEPT ![Head(jobs).n].seen = TRUE]
  /\ jobs' = Tail(jobs)
  /\ UNCHANGED <<readQueue, writeQueue, mode, next, write, sent>>

Next ==
  /\ \/ \E w \in Write : WriteCall(w)
     \/ Close \/ NextCall \/ Throw \/ Return
     \/ Resume \/ Receive
  /\ UNCHANGED eager

Spec == Init /\ [][Next]_vars

\* Promise reactions run, and the consumer keeps iterating.
FairSpec == Spec /\ WF_vars((Resume \/ Receive) /\ UNCHANGED eager)
                 /\ WF_vars(NextCall /\ UNCHANGED eager)

-----------------------------------------------------------------------------
(* Properties. *)

\* What the consumer and the writer see of the queues is a FIFO channel: reads
\* are answered in the order they were made, with the payloads in the order
\* they were written, none lost, withheld or answered twice; done results come
\* only after the payloads, unless the consumer itself stopped (1309-1424).
Channel == INSTANCE FifoChannel WITH
  Payload <- Write, asked <- Len(reads),
  answers <- [n \in 1..Len(reads) - Len(readQueue) |->
               IF reads[n].answered THEN reads[n].value ELSE NewRead]

FifoDelivery == Channel!Spec

\* With a consumer that awaits each result (the others run out of reads here):
\* a write that resolves was delivered: the turns counted by write() (1359-1362)
\* never let it resolve with its payload in the queue, or dropped from it by
\* throw() or return() (1397, 1408).
ResolvedWasDelivered ==
  ~eager => \A w \in Write : write[w].st = "resolved" =>
    \E n \in DOMAIN reads : reads[n].answered /\ reads[n].value = w

\* "if we are the nth write in the queue we have to wait for n writes to complete
\* and one more" (1354-1358): once the microtasks have run, a write still awaiting
\* has not seen next() called again after the call that takes its payload, and
\* awaits nothing once the consumer stopped.
AcknowledgedInTime ==
  ~eager /\ jobs = <<>> =>
    \A k \in DOMAIN sent : write[sent[k]].st = "waiting" =>
      Len(reads) <= k /\ mode # "cancelled"

\* The promise of every write() settles, if the consumer awaits each result and
\* iterates on.
WritesSettle ==
  \A w \in Write : ~eager /\ write[w].st = "waiting" ~> write[w].st \in {"resolved", "rejected"}
=============================================================================
