------------------------ MODULE WritableIterableProofs ------------------------
(* WritableIterable implements FifoChannel, for every set of calls of write(), *)
(* every number of reads, and consumers of both kinds; and with a consumer     *)
(* that awaits each result, its writes resolve when they were delivered.       *)
EXTENDS WritableIterable, Integers, TLAPS, SequenceTheorems

Read == [answered : BOOLEAN, seen : BOOLEAN, value : Write \cup {Done}]

Progress == [st : {"new", "waiting", "resolved", "rejected"}, left : Int]

Typed ==
  /\ readQueue \in Seq(Nat) /\ writeQueue \in Seq(Write) /\ sent \in Seq(Write)
  /\ reads \in Seq(Read)
  /\ mode \in {"open", "closed", "cancelled"}
  /\ write \in [Write -> Progress]

(* How many reads are answered, and how many payloads left the queue.          *)
Given == Len(reads) - Len(readQueue)
Taken == Len(sent) - Len(writeQueue)

(* The reads that wait are the last, in order, and nothing is there for them.  *)
ReadQueueIsRest ==
  /\ Len(readQueue) <= Len(reads)
  /\ \A n \in 1 .. Len(reads) : reads[n].answered <=> n <= Given
  /\ \A i \in 1 .. Len(readQueue) : readQueue[i] = Given + i
  /\ readQueue # << >> => mode = "open" /\ writeQueue = << >>

(* The payloads in the queue are the last that were written, in order, and     *)
(* every payload before them has answered a read.                              *)
WriteQueueIsRest ==
  /\ mode = "cancelled" => writeQueue = << >>
  /\ mode # "cancelled" =>
       /\ Len(writeQueue) <= Len(sent) /\ Taken <= Given
       /\ \A i \in 1 .. Len(writeQueue) : writeQueue[i] = sent[Taken + i]
       /\ mode = "open" \/ writeQueue # << >> => Taken = Given

(* No payload is written twice.                                                *)
SentIsNotNew == \A i \in 1 .. Len(sent) : write[sent[i]].st # "new"

Inv == Typed /\ ReadQueueIsRest /\ WriteQueueIsRest /\ SentIsNotNew

-----------------------------------------------------------------------------
\* A function on 1..n is a sequence of length n.
LEMMA FunctionIsSeq ==
  ASSUME NEW n \in Nat, NEW S, NEW f \in [1 .. n -> S]
  PROVE  f \in Seq(S) /\ Len(f) = n
OBVIOUS

\* The answers that the abstract channel sees, of reads of which some wait.
Seen(r, q) == [n \in 1..Len(r) - Len(q) |-> IF r[n].answered THEN r[n].value ELSE NewRead]

\* Their number, and their values.
LEMMA Answers ==
  ASSUME NEW r \in Seq(Read), NEW q \in Seq(Nat), Len(q) <= Len(r),
         \A n \in 1 .. Len(r) : r[n].answered <=> n <= Len(r) - Len(q)
  PROVE  /\ Len(r) - Len(q) \in Nat /\ Len(Seen(r, q)) = Len(r) - Len(q)
         /\ Seen(r, q) \in Seq(Write \cup {Done})
         /\ \A n \in 1 .. Len(r) - Len(q) : Seen(r, q)[n] = r[n].value
<1>1. Len(r) \in Nat /\ Len(q) \in Nat /\ Len(r) - Len(q) \in Nat
  OBVIOUS
<1>2. ASSUME NEW n \in 1 .. Len(r) - Len(q)
      PROVE  r[n].answered /\ r[n].value \in Write \cup {Done}
  <2>1. n \in 1 .. Len(r) /\ n <= Len(r) - Len(q)
    BY <1>1
  <2>2. r[n] \in Read
    BY <2>1
  <2> QED
    BY <2>1, <2>2 DEF Read
<1>3. \A n \in 1 .. Len(r) - Len(q) : Seen(r, q)[n] = r[n].value
  BY <1>2 DEF Seen
<1>4. Seen(r, q) \in [1 .. Len(r) - Len(q) -> Write \cup {Done}]
  BY <1>2 DEF Seen
<1> QED
  BY <1>1, <1>3, <1>4, FunctionIsSeq

\* A sequence that starts with another has it as a prefix.
LEMMA Prefixes ==
  ASSUME NEW S, NEW a \in Seq(S), NEW b \in Seq(S), Len(a) <= Len(b),
         \A n \in 1 .. Len(a) : a[n] = b[n]
  PROVE  Channel!IsPrefix(a, b)
<1>1. SubSeq(a, 1, Len(a)) = SubSeq(b, 1, Len(a))
  OBVIOUS
<1> QED
  BY <1>1 DEF Channel!IsPrefix

\* A step settles what can be settled, if it adds the answers that are known.
LEMMA Settles ==
  ASSUME Inv, Inv', Given <= Given',
         \A n \in 1 .. Given : reads'[n].value = reads[n].value,
         Given' = IF mode' = "open" /\ Len(sent') < Len(reads') THEN Len(sent')
                  ELSE Len(reads'),
         \A i \in Given + 1 .. Given' :
           reads'[i].value = IF i <= Len(sent') /\ mode' # "cancelled" THEN sent'[i] ELSE Done
  PROVE  Channel!Settled
<1> DEFINE a == Seen(reads, readQueue)
           b == Seen(reads', readQueue')
<1>1. /\ Given \in Nat /\ Len(a) = Given /\ a \in Seq(Write \cup {Done})
      /\ \A n \in 1 .. Given : a[n] = reads[n].value
  BY Answers DEF Inv, Typed, ReadQueueIsRest, Given
<1>2. /\ Given' \in Nat /\ Len(b) = Given' /\ b \in Seq(Write \cup {Done})
      /\ \A n \in 1 .. Given' : b[n] = reads'[n].value
  BY Answers DEF Inv, Typed, ReadQueueIsRest, Given
<1>3. Channel!IsPrefix(a, b)
  <2>1. \A n \in 1 .. Given : a[n] = b[n]
    BY <1>1, <1>2
  <2> HIDE DEF a, b
  <2> QED
    BY <1>1, <1>2, <2>1, Prefixes
<1>4. Len(b) = IF mode' = "open" /\ Len(sent') < Len(reads') THEN Len(sent')
               ELSE Len(reads')
  BY <1>2
<1>5. \A i \in Len(a) + 1 .. Len(b) :
        b[i] = IF i <= Len(sent') /\ mode' # "cancelled" THEN sent'[i] ELSE Done
  BY <1>1, <1>2
<1> QED
  BY <1>3, <1>4, <1>5 DEF Channel!Settled, Seen

-----------------------------------------------------------------------------
\* The state of a write changes, but not to a new one.
LEMMA WriteAdvances ==
  ASSUME Inv, NEW w, NEW st \in {"waiting", "resolved", "rejected"}, NEW n \in Int,
         \/ write' = [write EXCEPT ![w].st = st]
         \/ write' = [write EXCEPT ![w] = [st |-> st, left |-> n]]
  PROVE  /\ write' \in [Write -> Progress]
         /\ \A v \in Write : write[v].st # "new" => write'[v].st # "new"
         /\ w \in Write => write'[w].st # "new"
<1>1. write \in [Write -> Progress]
  BY DEF Inv, Typed
<1>2. CASE w \notin Write
  BY <1>1, <1>2
<1>3. CASE w \in Write
  <2>1. write[w] \in Progress
    BY <1>1, <1>3
  <2>2. [write[w] EXCEPT !.st = st] \in Progress /\ [write[w] EXCEPT !.st = st].st = st
    BY <2>1 DEF Progress
  <2>3. [st |-> st, left |-> n] \in Progress
    BY DEF Progress
  <2>4. PICK p \in Progress : p.st # "new" /\ write' = [write EXCEPT ![w] = p]
    BY <2>2, <2>3
  <2> QED
    BY <1>1, <1>3, <2>4
<1> QED
  BY <1>2, <1>3

\* The queues as they are, and the writes not new.
LEMMA Idle ==
  ASSUME Inv, UNCHANGED <<readQueue, writeQueue, mode, sent, reads>>,
         write' \in [Write -> Progress],
         \A v \in Write : write[v].st # "new" => write'[v].st # "new"
  PROVE  Inv' /\ UNCHANGED Channel!vars
<1>1. Typed' /\ ReadQueueIsRest' /\ WriteQueueIsRest'
  BY DEF Inv, Typed, ReadQueueIsRest, WriteQueueIsRest, Given, Taken
<1>2. \A i \in 1 .. Len(sent) : sent[i] \in Write
  BY DEF Inv, Typed
<1>3. SentIsNotNew'
  BY <1>2 DEF Inv, SentIsNotNew
<1> QED
  BY <1>1, <1>3 DEF Inv, Channel!vars

\* A write that is refused, or resumed, changes nothing of the channel.
LEMMA RefuseIdles ==
  ASSUME Inv, NEW w \in Write, Refuse(w)
  PROVE  Inv' /\ UNCHANGED Channel!vars
<1>1. write' = [write EXCEPT ![w].st = "rejected"]
  BY DEF Refuse
<1>2. /\ write' \in [Write -> Progress]
      /\ \A v \in Write : write[v].st # "new" => write'[v].st # "new"
  <2>1. "rejected" \in {"waiting", "resolved", "rejected"} /\ 0 \in Int
    OBVIOUS
  <2> QED
    BY <1>1, <2>1, WriteAdvances
<1> QED
  BY <1>2, Idle DEF Refuse

\* So does a write that is resumed after its await.
LEMMA ResumeIdles ==
  ASSUME Inv, Resume
  PROVE  Inv' /\ UNCHANGED Channel!vars
<1> DEFINE w == Head(jobs).w
           n == write[w].left - 1
<1>1. UNCHANGED <<readQueue, writeQueue, mode, reads, sent>>
  BY DEF Resume
<1>2. write \in [Write -> Progress] /\ (w \in Write => n \in Int)
  BY DEF Inv, Typed, Progress
<1>3. \/ \E st \in {"resolved", "rejected"} : write' = [write EXCEPT ![w].st = st]
      \/ write' = [write EXCEPT ![w] = [st |-> "waiting", left |-> n]]
  BY DEF Resume, AwaitNext
<1> HIDE DEF w, n
<1>4. /\ write' \in [Write -> Progress]
      /\ \A v \in Write : write[v].st # "new" => write'[v].st # "new"
  <2>1. CASE w \in Write
    BY <1>2, <1>3, <2>1, WriteAdvances
  <2>2. CASE w \notin Write
    BY <1>2, <1>3, <2>2
  <2> QED
    BY <2>1, <2>2
<1> QED
  BY <1>1, <1>4, Idle

\* That an answer is seen is nothing to the channel.
LEMMA ReceiveIdles ==
  ASSUME Inv, Receive
  PROVE  Inv' /\ UNCHANGED Channel!vars
<1>1. UNCHANGED <<readQueue, writeQueue, mode, sent, write>>
  BY DEF Receive
<1>2. reads \in Seq(Read) /\ Len(reads) \in Nat /\ DOMAIN reads = 1 .. Len(reads)
  BY DEF Inv, Typed
<1>3. PICK n : reads' = reads \/ reads' = [reads EXCEPT ![n].seen = TRUE]
  BY DEF Receive
<1>4. /\ reads' \in Seq(Read) /\ Len(reads') = Len(reads)
      /\ \A i \in 1 .. Len(reads) :
           reads'[i].answered = reads[i].answered /\ reads'[i].value = reads[i].value
  <2>1. CASE reads' = reads
    BY <1>2, <2>1
  <2>2. CASE reads' = [reads EXCEPT ![n].seen = TRUE] /\ n \notin DOMAIN reads
    <3>1. reads \in [1 .. Len(reads) -> Read]
      BY <1>2, LenProperties
    <3>2. reads' = reads
      BY <1>2, <2>2, <3>1
    <3> QED
      BY <1>2, <3>2
  <2>3. CASE reads' = [reads EXCEPT ![n].seen = TRUE] /\ n \in DOMAIN reads
    <3> DEFINE r == [reads[n] EXCEPT !.seen = TRUE]
    <3>1. reads[n] \in Read
      BY <1>2, <2>3
    <3>2. r \in Read /\ r.answered = reads[n].answered /\ r.value = reads[n].value
      BY <3>1 DEF Read
    <3>3. reads' = [reads EXCEPT ![n] = r]
      BY <2>3
    <3> HIDE DEF r
    <3> QED
      <4>1. n \in 1 .. Len(reads)
        BY <1>2, <2>3
      <4>2. /\ reads' \in Seq(Read) /\ Len(reads') = Len(reads)
            /\ \A j \in 1 .. Len(reads) : reads'[j] = IF j = n THEN r ELSE reads[j]
        BY <1>2, <3>2, <3>3, <4>1, ExceptSeq
      <4> QED
        BY <3>2, <4>2
  <2> QED
    BY <1>3, <2>1, <2>2, <2>3
<1>5. Given' = Given /\ Taken' = Taken
  BY <1>1, <1>4 DEF Given, Taken
<1>6. Inv'
  BY <1>1, <1>4, <1>5 DEF Inv, Typed, ReadQueueIsRest, WriteQueueIsRest, SentIsNotNew
<1>7. Seen(reads', readQueue') = Seen(reads, readQueue)
  <2>1. \A i \in 1 .. Given : i \in 1 .. Len(reads)
    BY <1>2 DEF Inv, Typed, Given
  <2> QED
    BY <1>1, <1>4, <2>1 DEF Seen, Given
<1> QED
  BY <1>1, <1>4, <1>6, <1>7 DEF Channel!vars, Seen

-----------------------------------------------------------------------------
\* The lengths of the queues are numbers.
LEMMA Lengths ==
  ASSUME Inv
  PROVE  /\ Len(readQueue) \in Nat /\ Len(writeQueue) \in Nat /\ Len(sent) \in Nat
         /\ Len(reads) \in Nat /\ Given \in 0 .. Len(reads) /\ Taken \in Int
         /\ readQueue = << >> => Given = Len(reads)
         /\ writeQueue = << >> => Taken = Len(sent)
         /\ readQueue # << >> => Given < Len(reads)
         /\ writeQueue # << >> => Taken < Len(sent)
<1>1. /\ Len(readQueue) \in Nat /\ Len(writeQueue) \in Nat /\ Len(sent) \in Nat
      /\ Len(reads) \in Nat /\ Len(readQueue) <= Len(reads)
  BY DEF Inv, Typed, ReadQueueIsRest
<1>2. /\ readQueue = << >> <=> Len(readQueue) = 0
      /\ writeQueue = << >> <=> Len(writeQueue) = 0
  BY DEF Inv, Typed
<1> QED
  BY <1>1, <1>2 DEF Given, Taken

\* drain() answers the reads that wait, and only those.
LEMMA Drains ==
  ASSUME Inv, Drain
  PROVE  /\ readQueue' = << >> /\ reads' \in Seq(Read) /\ Len(reads') = Len(reads)
         /\ \A n \in 1 .. Len(reads) : reads'[n].answered
         /\ \A n \in 1 .. Given : reads'[n].value = reads[n].value
         /\ \A n \in Given + 1 .. Len(reads) : reads'[n].value = Done
<1>1. readQueue' = << >> /\ reads' = Drained
  BY DEF Drain
<1>2. reads \in Seq(Read) /\ DOMAIN reads = 1 .. Len(reads) /\ Len(reads) \in Nat
  BY DEF Inv, Typed
<1>3. \A n \in 1 .. Len(reads) :
        reads[n] \in Read /\ (reads[n].answered <=> n <= Given)
  BY <1>2 DEF Inv, ReadQueueIsRest
<1>4. Answered(Done) \in Read /\ Answered(Done).answered /\ Answered(Done).value = Done
  BY DEF Answered, Read
<1>5. \A n \in 1 .. Len(reads) :
        Drained[n] = IF reads[n].answered THEN reads[n] ELSE Answered(Done)
  BY <1>2 DEF Drained
<1>6. Drained \in [1 .. Len(reads) -> Read]
  BY <1>2, <1>3, <1>4 DEF Drained
<1>7. Drained \in Seq(Read) /\ Len(Drained) = Len(reads)
  BY <1>2, <1>6, FunctionIsSeq
<1>8. \A n \in 1 .. Len(reads) :
        Drained[n].answered /\ (n <= Given => Drained[n].value = reads[n].value)
          /\ (~(n <= Given) => Drained[n].value = Done)
  BY <1>3, <1>4, <1>5
<1>9. /\ \A n \in 1 .. Given : n \in 1 .. Len(reads) /\ n <= Given
      /\ \A n \in Given + 1 .. Len(reads) : n \in 1 .. Len(reads) /\ ~(n <= Given)
  BY Lengths
<1> QED
  BY <1>1, <1>7, <1>8, <1>9

\* What becomes of the queues when every read that waits is answered.
LEMMA DrainSettles ==
  ASSUME Inv, Drain, mode' \in {"closed", "cancelled"}, UNCHANGED <<write, sent>>,
         \/ mode' = "closed" /\ mode = "open" /\ writeQueue' = writeQueue
         \/ mode' = mode /\ writeQueue' = writeQueue
         \/ mode' = "cancelled" /\ writeQueue' = << >>
  PROVE  Inv' /\ Channel!Settled
<1>1. /\ readQueue' = << >> /\ reads' \in Seq(Read) /\ Len(reads') = Len(reads)
      /\ \A n \in 1 .. Len(reads) : reads'[n].answered
      /\ \A n \in 1 .. Given : reads'[n].value = reads[n].value
      /\ \A n \in Given + 1 .. Len(reads) : reads'[n].value = Done
  BY Drains
<1>2. /\ Len(readQueue) \in Nat /\ Len(writeQueue) \in Nat /\ Len(sent) \in Nat
      /\ Len(reads) \in Nat /\ Given \in 0 .. Len(reads) /\ Taken \in Int
      /\ readQueue = << >> => Given = Len(reads)
      /\ writeQueue = << >> => Taken = Len(sent)
  BY Lengths
<1>3. Given' = Len(reads)
  BY <1>1, <1>2 DEF Given
<1>4. Typed' /\ SentIsNotNew'
  <2>0. << >> \in Seq(Nat) /\ << >> \in Seq(Write)
    BY EmptySeq
  <2>1. readQueue' \in Seq(Nat) /\ writeQueue' \in Seq(Write)
    BY <1>1, <2>0 DEF Inv, Typed
  <2>2. Typed'
    BY <1>1, <2>1 DEF Inv, Typed
  <2> QED
    BY <2>2 DEF Inv, SentIsNotNew
<1>5. ReadQueueIsRest'
  BY <1>1, <1>2, <1>3 DEF ReadQueueIsRest
<1>6. WriteQueueIsRest'
  <2>1. CASE mode' = "cancelled" /\ writeQueue' = << >>
    BY <2>1 DEF WriteQueueIsRest
  <2>2. CASE writeQueue' = writeQueue /\ mode # "cancelled"
    <3>1. Taken' = Taken /\ Taken <= Given
      BY <2>2 DEF Taken, Inv, WriteQueueIsRest
    <3>2. writeQueue # << >> => Taken = Given /\ Given = Len(reads)
      BY <1>2, <2>2 DEF Inv, WriteQueueIsRest, ReadQueueIsRest
    <3>3. /\ Len(writeQueue) <= Len(sent)
          /\ \A i \in 1 .. Len(writeQueue) : writeQueue[i] = sent[Taken + i]
      BY <2>2 DEF Inv, WriteQueueIsRest
    <3> QED
      BY <1>2, <1>3, <2>2, <3>1, <3>2, <3>3 DEF WriteQueueIsRest
  <2>3. CASE mode' = mode /\ mode = "cancelled" /\ writeQueue' = writeQueue
    BY <2>3 DEF Inv, WriteQueueIsRest
  <2> QED
    BY <2>1, <2>2, <2>3
<1>7. Inv'
  BY <1>4, <1>5, <1>6 DEF Inv
<1>8. \A i \in Given + 1 .. Len(reads) : ~(i <= Len(sent) /\ mode' # "cancelled")
  <2>1. CASE readQueue = << >>
    BY <1>2, <2>1
  <2>2. CASE readQueue # << >>
    <3>1. mode = "open" /\ writeQueue = << >>
      BY <2>2 DEF Inv, ReadQueueIsRest
    <3>2. Len(sent) = Given
      BY <1>2, <3>1 DEF Inv, WriteQueueIsRest
    <3> QED
      BY <1>2, <3>2
  <2> QED
    BY <2>1, <2>2
<1> QED
  BY <1>1, <1>2, <1>3, <1>7, <1>8, Settles

\* close() is the close of the channel.
LEMMA CloseCloses ==
  ASSUME Inv, Close
  PROVE  Inv' /\ Channel!Close
<1>1. mode \in {"open", "closed", "cancelled"}
  BY DEF Inv, Typed
<1>2. Inv' /\ Channel!Settled
  BY <1>1, DrainSettles DEF Close
<1> QED
  BY <1>1, <1>2, Drains DEF Close, Channel!Close

\* throw() and return() cancel the channel.
LEMMA StopCancels ==
  ASSUME Inv, NEW ok, Stop(ok)
  PROVE  Inv' /\ Channel!Cancel
<1>1. Inv' /\ Channel!Settled
  BY DrainSettles DEF Stop
<1> QED
  BY <1>1, Drains DEF Stop, Channel!Cancel

-----------------------------------------------------------------------------
\* A payload that is written was not written before.
LEMMA SentFresh ==
  ASSUME Inv, NEW w \in Write, write[w].st = "new", sent' = Append(sent, w),
         write' \in [Write -> Progress], write'[w].st # "new",
         \A v \in Write : write[v].st # "new" => write'[v].st # "new"
  PROVE  /\ sent' \in Seq(Write) /\ Len(sent') = Len(sent) + 1 /\ sent'[Len(sent) + 1] = w
         /\ \A i \in 1 .. Len(sent) : sent'[i] = sent[i] /\ sent[i] # w
         /\ SentIsNotNew'
<1>1. sent \in Seq(Write) /\ Len(sent) \in Nat
  BY DEF Inv, Typed
<1>2. /\ sent' \in Seq(Write) /\ Len(sent') = Len(sent) + 1 /\ sent'[Len(sent) + 1] = w
      /\ \A i \in 1 .. Len(sent) : sent'[i] = sent[i] /\ sent[i] \in Write
  BY <1>1
<1>3. \A i \in 1 .. Len(sent) : sent[i] # w /\ write'[sent'[i]].st # "new"
  BY <1>2 DEF Inv, SentIsNotNew
<1> QED
  BY <1>1, <1>2, <1>3 DEF SentIsNotNew

\* write() without a read that waits: the payload is queued, and nothing answered.
LEMMA EnqueueSends ==
  ASSUME Inv, NEW w \in Write, Enqueue(w)
  PROVE  Inv' /\ Channel!Send(w)
<1>1. /\ write[w].st = "new" /\ mode = "open" /\ readQueue = << >>
      /\ writeQueue' = Append(writeQueue, w) /\ sent' = Append(sent, w)
      /\ UNCHANGED <<readQueue, mode, reads>>
      /\ write' = [write EXCEPT ![w] = [st |-> "waiting", left |-> Limit(writeQueue')]]
  BY DEF Enqueue, AwaitNext
<1>2. /\ Len(writeQueue) \in Nat /\ Len(sent) \in Nat /\ Len(reads) \in Nat
      /\ Given = Len(reads) /\ Taken \in Int
  BY <1>1, Lengths
<1>3. /\ Taken = Given /\ Len(writeQueue) <= Len(sent)
      /\ \A i \in 1 .. Len(writeQueue) : writeQueue[i] = sent[Taken + i]
  BY <1>1 DEF Inv, WriteQueueIsRest
<1>4. /\ writeQueue' \in Seq(Write) /\ Len(writeQueue') = Len(writeQueue) + 1
      /\ writeQueue'[Len(writeQueue) + 1] = w
      /\ \A i \in 1 .. Len(writeQueue) : writeQueue'[i] = writeQueue[i]
  BY <1>1 DEF Inv, Typed
<1>5. /\ write' \in [Write -> Progress] /\ write'[w].st # "new"
      /\ \A v \in Write : write[v].st # "new" => write'[v].st # "new"
  <2>1. Limit(writeQueue') \in Int /\ "waiting" \in {"waiting", "resolved", "rejected"}
    BY <1>2, <1>4 DEF Limit
  <2> QED
    BY <1>1, <2>1, WriteAdvances
<1>6. /\ sent' \in Seq(Write) /\ Len(sent') = Len(sent) + 1 /\ sent'[Len(sent) + 1] = w
      /\ \A i \in 1 .. Len(sent) : sent'[i] = sent[i] /\ sent[i] # w
      /\ SentIsNotNew'
  BY <1>1, <1>5, SentFresh
<1>7. Given' = Given /\ Taken' = Taken
  BY <1>1, <1>2, <1>4, <1>6 DEF Given, Taken
<1>8. Typed' /\ ReadQueueIsRest'
  BY <1>1, <1>4, <1>5, <1>6, <1>7 DEF Inv, Typed, ReadQueueIsRest
<1>9. WriteQueueIsRest'
  <2>1. ASSUME NEW i \in 1 .. Len(writeQueue')
        PROVE  writeQueue'[i] = sent'[Taken + i]
    <3>1. Taken = Len(sent) - Len(writeQueue)
      BY DEF Taken
    <3>2. CASE i = Len(writeQueue) + 1
      <4>1. Taken + i = Len(sent) + 1
        BY <1>2, <3>1, <3>2
      <4> QED
        BY <1>4, <1>6, <3>2, <4>1
    <3>3. CASE i # Len(writeQueue) + 1
      <4>1. i \in 1 .. Len(writeQueue) /\ Taken + i \in 1 .. Len(sent)
        BY <1>2, <1>3, <1>4, <3>1, <3>3
      <4> QED
        BY <1>3, <1>4, <1>6, <4>1
    <3> QED
      BY <3>2, <3>3
  <2>2. \A i \in 1 .. Len(writeQueue') : writeQueue'[i] = sent'[Taken' + i]
    BY <1>7, <2>1
  <2>3. Len(writeQueue') <= Len(sent') /\ Taken' <= Given' /\ Taken' = Given'
    BY <1>2, <1>3, <1>4, <1>6, <1>7
  <2>4. mode' = "open"
    BY <1>1
  <2> QED
    BY <2>2, <2>3, <2>4 DEF WriteQueueIsRest
<1>10. Inv'
  BY <1>6, <1>8, <1>9 DEF Inv
<1>11. Channel!Settled
  <2>1. Len(sent) >= Given
    BY <1>2, <1>3 DEF Taken
  <2> QED
    BY <1>1, <1>2, <1>6, <1>7, <1>10, <2>1, Settles
<1> QED
  BY <1>1, <1>6, <1>10, <1>11 DEF Channel!Send

\* write() that answers the first read that waits.
LEMMA HandOverSends ==
  ASSUME Inv, NEW w \in Write, HandOver(w)
  PROVE  Inv' /\ Channel!Send(w)
<1>1. /\ write[w].st = "new" /\ mode = "open" /\ readQueue # << >>
      /\ readQueue' = Tail(readQueue) /\ sent' = Append(sent, w)
      /\ reads' = [reads EXCEPT ![Head(readQueue)] = Answered(w)]
      /\ UNCHANGED <<writeQueue, mode>>
  BY DEF HandOver
<1>2. /\ Len(readQueue) \in Nat /\ Len(sent) \in Nat /\ Len(reads) \in Nat
      /\ writeQueue = << >> /\ Given \in Nat /\ Given < Len(reads) /\ Len(sent) = Given
      /\ Given = Len(reads) - Len(readQueue)
  <2>1. writeQueue = << >>
    BY <1>1 DEF Inv, ReadQueueIsRest
  <2> QED
    BY <1>1, <2>1, Lengths DEF Inv, WriteQueueIsRest, Given
<1>3. /\ Len(readQueue) > 0 /\ Head(readQueue) = Given + 1
      /\ readQueue' \in Seq(Nat) /\ Len(readQueue') = Len(readQueue) - 1
      /\ \A i \in 1 .. Len(readQueue') : readQueue'[i] = readQueue[i + 1]
  BY <1>1, <1>2 DEF Inv, Typed, ReadQueueIsRest
<1>4. /\ reads' \in Seq(Read) /\ Len(reads') = Len(reads)
      /\ \A n \in 1 .. Len(reads) :
           reads'[n] = IF n = Given + 1 THEN Answered(w) ELSE reads[n]
      /\ Answered(w).answered /\ Answered(w).value = w
  <2>1. Answered(w) \in Read /\ Answered(w).answered /\ Answered(w).value = w
    BY DEF Answered, Read
  <2>2. reads \in Seq(Read) /\ Given + 1 \in 1 .. Len(reads)
    BY <1>2 DEF Inv, Typed
  <2> QED
    BY <1>1, <1>3, <2>1, <2>2, ExceptSeq
<1>5. /\ write' \in [Write -> Progress] /\ write'[w].st # "new"
      /\ \A v \in Write : write[v].st # "new" => write'[v].st # "new"
  <2>1. \/ write' = [write EXCEPT ![w].st = "resolved"]
        \/ write' = [write EXCEPT ![w] = [st |-> "waiting", left |-> Limit(writeQueue)]]
    BY DEF HandOver, AwaitNext
  <2>2. /\ Limit(writeQueue) \in Int
        /\ {"waiting", "resolved"} \subseteq {"waiting", "resolved", "rejected"}
    BY <1>2 DEF Limit
  <2>3. CASE write' = [write EXCEPT ![w].st = "resolved"]
    <3>1. 0 \in Int /\ "resolved" \in {"waiting", "resolved", "rejected"}
      OBVIOUS
    <3> QED
      BY <2>3, <3>1, WriteAdvances
  <2>4. CASE write' = [write EXCEPT ![w] = [st |-> "waiting", left |-> Limit(writeQueue)]]
    BY <2>2, <2>4, WriteAdvances
  <2> QED
    BY <2>1, <2>3, <2>4
<1>6. /\ sent' \in Seq(Write) /\ Len(sent') = Len(sent) + 1 /\ sent'[Len(sent) + 1] = w
      /\ \A i \in 1 .. Len(sent) : sent'[i] = sent[i] /\ sent[i] # w
      /\ SentIsNotNew'
  BY <1>1, <1>5, SentFresh
<1>7. Given' = Given + 1 /\ Taken' = Taken + 1 /\ Taken = Given
  BY <1>1, <1>2, <1>3, <1>4, <1>6 DEF Given, Taken
<1>8. Typed'
  BY <1>1, <1>3, <1>4, <1>5, <1>6 DEF Inv, Typed
<1>9. ReadQueueIsRest'
  <2>1. ASSUME NEW n \in 1 .. Len(reads')
        PROVE  reads'[n].answered <=> n <= Given + 1
    <3>1. reads[n].answered <=> n <= Given
      BY <1>4 DEF Inv, ReadQueueIsRest
    <3>2. CASE n = Given + 1
      BY <1>2, <1>4, <3>2
    <3>3. CASE n # Given + 1
      <4>1. reads'[n] = reads[n]
        BY <1>4, <3>3
      <4> QED
        BY <1>2, <3>1, <3>3, <4>1
    <3> QED
      BY <3>2, <3>3
  <2>2. \A i \in 1 .. Len(readQueue') : readQueue'[i] = Given + 1 + i
    BY <1>2, <1>3 DEF Inv, ReadQueueIsRest
  <2>3. Len(readQueue') <= Len(reads') /\ mode' = "open" /\ writeQueue' = << >>
    BY <1>1, <1>2, <1>3, <1>4
  <2>4. \A n \in 1 .. Len(reads') : reads'[n].answered <=> n <= Given'
    BY <1>7, <2>1
  <2>5. \A j \in 1 .. Len(readQueue') : readQueue'[j] = Given' + j
    BY <1>7, <2>2
  <2>6. readQueue' # << >> => mode' = "open" /\ writeQueue' = << >>
    BY <2>3
  <2>7. Len(readQueue') <= Len(reads')
    BY <2>3
  <2> QED
    BY <2>4, <2>5, <2>6, <2>7 DEF ReadQueueIsRest
<1>10. WriteQueueIsRest'
  BY <1>1, <1>2, <1>6, <1>7 DEF WriteQueueIsRest
<1>11. Inv'
  BY <1>6, <1>8, <1>9, <1>10 DEF Inv
<1>12. Channel!Settled
  <2>1. /\ Given <= Given' /\ Given' = Len(sent') /\ Given' <= Len(reads')
        /\ mode' = "open"
    <3>1. /\ Given \in Nat /\ Len(reads) \in Nat /\ Given < Len(reads)
          /\ Given' = Given + 1 /\ Len(reads') = Len(reads)
      BY <1>2, <1>4, <1>7
    <3>2. Len(sent') = Given + 1 /\ mode' = "open"
      BY <1>1, <1>2, <1>6
    <3> QED
      BY <3>1, <3>2
  <2>2. ASSUME NEW n \in 1 .. Given
        PROVE  reads'[n].value = reads[n].value
    <3>1. n \in 1 .. Len(reads) /\ n # Given + 1
      BY <1>2
    <3>2. reads'[n] = reads[n]
      BY <1>4, <3>1
    <3> QED
      BY <3>2
  <2>3. ASSUME NEW i \in Given + 1 .. Given'
        PROVE  reads'[i].value = sent'[i] /\ i <= Len(sent')
    <3>1. i = Given + 1 /\ i = Len(sent) + 1 /\ i \in 1 .. Len(reads)
      BY <1>2, <1>7
    <3> QED
      BY <1>4, <1>6, <3>1
  <2>4. Given' = IF mode' = "open" /\ Len(sent') < Len(reads') THEN Len(sent')
                 ELSE Len(reads')
    BY <1>2, <1>4, <1>6, <2>1
  <2>5. \A i \in Given + 1 .. Given' :
          reads'[i].value = IF i <= Len(sent') /\ mode' # "cancelled" THEN sent'[i] ELSE Done
    BY <2>1, <2>3
  <2> QED
    BY <1>11, <2>1, <2>2, <2>4, <2>5, Settles
<1> QED
  BY <1>1, <1>4, <1>6, <1>11, <1>12 DEF Channel!Send

-----------------------------------------------------------------------------
\* What each of the three kinds of next() does to the reads.
LEMMA AskAppends ==
  ASSUME Inv, NEW r \in Read, reads' = Append(reads, r)
  PROVE  /\ reads' \in Seq(Read) /\ Len(reads') = Len(reads) + 1
         /\ reads'[Len(reads) + 1] = r
         /\ \A n \in 1 .. Len(reads) : reads'[n] = reads[n]
         /\ \A n \in 1 .. Given : reads'[n].value = reads[n].value
<1>1. reads \in Seq(Read) /\ Len(reads) \in Nat
  BY DEF Inv, Typed
<1>2. /\ reads' \in Seq(Read) /\ Len(reads') = Len(reads) + 1
      /\ reads'[Len(reads) + 1] = r
      /\ \A n \in 1 .. Len(reads) : reads'[n] = reads[n]
  BY <1>1
<1>3. \A n \in 1 .. Given : n \in 1 .. Len(reads)
  BY Lengths
<1> QED
  BY <1>2, <1>3

\* next() that is answered at once: no read waits, before or after.
LEMMA AnsweredAtOnce ==
  ASSUME Inv, NEW v \in Write \cup {Done}, readQueue = << >>,
         reads' = Append(reads, Answered(v)), UNCHANGED <<readQueue, write, sent>>
  PROVE  /\ Given = Len(reads) /\ Given' = Given + 1 /\ Len(reads') = Given + 1
         /\ reads'[Given + 1].value = v
         /\ \A n \in 1 .. Given : reads'[n].value = reads[n].value
         /\ reads' \in Seq(Read) /\ ReadQueueIsRest'
<1>1. Answered(v) \in Read /\ Answered(v).answered /\ Answered(v).value = v
  BY DEF Answered, Read
<1>2. /\ reads' \in Seq(Read) /\ Len(reads') = Len(reads) + 1
      /\ reads'[Len(reads) + 1] = Answered(v)
      /\ \A n \in 1 .. Len(reads) : reads'[n] = reads[n]
      /\ \A n \in 1 .. Given : reads'[n].value = reads[n].value
  BY <1>1, AskAppends
<1>3. Len(reads) \in Nat /\ Given = Len(reads) /\ Len(readQueue) = 0
  BY Lengths
<1>4. Given' = Given + 1
  BY <1>2, <1>3 DEF Given
<1>5. \A n \in 1 .. Len(reads') : reads'[n].answered
  <2>1. \A n \in 1 .. Len(reads) : reads[n].answered
    BY <1>3 DEF Inv, ReadQueueIsRest
  <2> QED
    BY <1>1, <1>2, <1>3, <2>1
<1>6. ReadQueueIsRest'
  BY <1>2, <1>3, <1>4, <1>5 DEF ReadQueueIsRest
<1> QED
  BY <1>1, <1>2, <1>3, <1>4, <1>6

\* next() with a payload in the queue is answered with the next one written.
LEMMA TakeAsks ==
  ASSUME Inv, NextTakes, UNCHANGED <<mode, write, sent>>
  PROVE  Inv' /\ Channel!Settled /\ Len(reads') = Len(reads) + 1
<1> DEFINE v == Head(writeQueue)
<1>1. /\ writeQueue # << >> /\ writeQueue' = Tail(writeQueue)
      /\ reads' = Append(reads, Answered(v)) /\ UNCHANGED readQueue
  BY DEF NextTakes
<1>2. readQueue = << >> /\ mode # "cancelled"
  BY <1>1 DEF Inv, ReadQueueIsRest, WriteQueueIsRest
<1>3. /\ Len(writeQueue) \in Nat /\ Len(sent) \in Nat /\ Len(reads) \in Nat
      /\ Given = Len(reads) /\ Taken \in Int /\ Taken < Len(sent)
  BY <1>1, <1>2, Lengths
<1>4. /\ Taken = Given /\ Len(writeQueue) <= Len(sent)
      /\ \A i \in 1 .. Len(writeQueue) : writeQueue[i] = sent[Taken + i]
      /\ Taken = Len(sent) - Len(writeQueue)
  BY <1>1, <1>2 DEF Inv, WriteQueueIsRest, Taken
<1>5. /\ Len(writeQueue) > 0 /\ v = writeQueue[1] /\ v \in Write
      /\ writeQueue' \in Seq(Write) /\ Len(writeQueue') = Len(writeQueue) - 1
      /\ \A i \in 1 .. Len(writeQueue') : writeQueue'[i] = writeQueue[i + 1]
  BY <1>1 DEF Inv, Typed
<1>6. v = sent[Given + 1]
  BY <1>3, <1>4, <1>5
<1>7. /\ Given' = Given + 1 /\ Len(reads') = Given + 1
      /\ reads'[Given + 1].value = v
      /\ \A n \in 1 .. Given : reads'[n].value = reads[n].value
      /\ reads' \in Seq(Read) /\ ReadQueueIsRest'
  BY <1>1, <1>2, <1>5, AnsweredAtOnce
<1>8. Taken' = Taken + 1
  BY <1>3, <1>4, <1>5 DEF Taken
<1>9. WriteQueueIsRest'
  <2>1. ASSUME NEW i \in 1 .. Len(writeQueue')
        PROVE  writeQueue'[i] = sent'[Taken' + i]
    <3>1. i + 1 \in 1 .. Len(writeQueue) /\ Taken' + i = Taken + (i + 1)
      BY <1>3, <1>5, <1>8
    <3>2. writeQueue'[i] = writeQueue[i + 1]
      BY <1>5
    <3>3. writeQueue[i + 1] = sent[Taken + (i + 1)]
      BY <1>4, <3>1
    <3> QED
      BY <3>1, <3>2, <3>3
  <2>2. Taken' = Given'
    BY <1>4, <1>7, <1>8
  <2>3. Len(writeQueue') <= Len(sent) /\ Given' \in Nat
    <3>1. Len(writeQueue') = Len(writeQueue) - 1 /\ Len(writeQueue) <= Len(sent)
      BY <1>4, <1>5
    <3> QED
      BY <1>3, <1>7, <3>1
  <2>4. Taken' <= Given'
    BY <2>2, <2>3
  <2> QED
    BY <1>2, <2>1, <2>2, <2>3, <2>4 DEF WriteQueueIsRest
<1>10. Inv'
  BY <1>1, <1>5, <1>7, <1>9 DEF Inv, Typed, SentIsNotNew
<1> HIDE DEF v
<1>11. Channel!Settled
  <2>1. Given + 1 <= Len(sent)
    BY <1>3, <1>4
  <2>2. \A i \in Given + 1 .. Given' : i = Given + 1
    BY <1>3, <1>7
  <2>3. \A i \in Given + 1 .. Given' :
          reads'[i].value = IF i <= Len(sent') /\ mode' # "cancelled" THEN sent'[i] ELSE Done
    BY <1>2, <1>6, <1>7, <2>1, <2>2
  <2>4. Given' = IF mode' = "open" /\ Len(sent') < Len(reads') THEN Len(sent')
                 ELSE Len(reads')
    BY <1>3, <1>7, <2>1
  <2> QED
    BY <1>3, <1>7, <1>10, <2>3, <2>4, Settles
<1> QED
  BY <1>3, <1>7, <1>10, <1>11

\* next() after the end finds every payload answered, and is answered with Done.
LEMMA EndAsks ==
  ASSUME Inv, NextEnds, UNCHANGED <<mode, write, sent>>
  PROVE  Inv' /\ Channel!Settled /\ Len(reads') = Len(reads) + 1
<1>1. /\ writeQueue = << >> /\ mode # "open"
      /\ reads' = Append(reads, Answered(Done)) /\ UNCHANGED <<readQueue, writeQueue>>
  BY DEF NextEnds
<1>2. readQueue = << >>
  BY <1>1 DEF Inv, ReadQueueIsRest
<1>3. /\ Len(writeQueue) \in Nat /\ Len(sent) \in Nat /\ Len(reads) \in Nat
      /\ Given = Len(reads) /\ Taken = Len(sent)
  BY <1>1, <1>2, Lengths
<1>4. mode # "cancelled" => Len(sent) <= Given
  BY <1>3 DEF Inv, WriteQueueIsRest
<1>5. /\ Given' = Given + 1 /\ Len(reads') = Given + 1
      /\ reads'[Given + 1].value = Done
      /\ \A n \in 1 .. Given : reads'[n].value = reads[n].value
      /\ reads' \in Seq(Read) /\ ReadQueueIsRest'
  BY <1>1, <1>2, AnsweredAtOnce
<1>6. WriteQueueIsRest'
  <2>1. Taken' = Taken
    BY <1>1 DEF Taken
  <2> QED
    BY <1>1, <1>3, <1>4, <1>5, <2>1 DEF Inv, WriteQueueIsRest
<1>7. Inv'
  BY <1>1, <1>5, <1>6 DEF Inv, Typed, SentIsNotNew
<1>8. Channel!Settled
  <2>1. \A i \in Given + 1 .. Given' : i = Given + 1
    BY <1>3, <1>5
  <2>2. \A i \in Given + 1 .. Given' :
          reads'[i].value = IF i <= Len(sent') /\ mode' # "cancelled" THEN sent'[i] ELSE Done
    <3>1. ~(Given + 1 <= Len(sent) /\ mode # "cancelled")
      BY <1>3, <1>4
    <3> QED
      BY <1>5, <2>1, <3>1
  <2>3. Given' = IF mode' = "open" /\ Len(sent') < Len(reads') THEN Len(sent')
                 ELSE Len(reads')
    BY <1>1, <1>3, <1>5
  <2>4. Given <= Given'
    BY <1>3, <1>5
  <2>5. \A n \in 1 .. Given : reads'[n].value = reads[n].value
    BY <1>5
  <2> QED
    BY <1>7, <2>2, <2>3, <2>4, <2>5, Settles
<1> QED
  BY <1>3, <1>5, <1>7, <1>8

\* next() with nothing to take waits, as every payload has answered a read.
LEMMA WaitAsks ==
  ASSUME Inv, NextWaits, UNCHANGED <<mode, write, sent>>
  PROVE  Inv' /\ Channel!Settled /\ Len(reads') = Len(reads) + 1
<1>1. /\ writeQueue = << >> /\ mode = "open"
      /\ reads' = Append(reads, NewRead)
      /\ readQueue' = Append(readQueue, Len(reads) + 1) /\ UNCHANGED writeQueue
  BY DEF NextWaits
<1>2. /\ Len(readQueue) \in Nat /\ Len(sent) \in Nat /\ Len(reads) \in Nat
      /\ Taken = Len(sent) /\ Given = Len(reads) - Len(readQueue)
      /\ Given \in 0 .. Len(reads)
  BY <1>1, Lengths DEF Given
<1>3. Len(sent) = Given
  BY <1>1, <1>2 DEF Inv, WriteQueueIsRest
<1>4. NewRead \in Read /\ ~NewRead.answered
  BY DEF NewRead, Read
<1>5. /\ reads' \in Seq(Read) /\ Len(reads') = Len(reads) + 1
      /\ reads'[Len(reads) + 1] = NewRead
      /\ \A n \in 1 .. Len(reads) : reads'[n] = reads[n]
      /\ \A n \in 1 .. Given : reads'[n].value = reads[n].value
  BY <1>1, <1>4, AskAppends
<1>6. /\ readQueue' \in Seq(Nat) /\ Len(readQueue') = Len(readQueue) + 1
      /\ readQueue'[Len(readQueue) + 1] = Len(reads) + 1
      /\ \A i \in 1 .. Len(readQueue) : readQueue'[i] = readQueue[i]
  <2>1. readQueue \in Seq(Nat) /\ Len(reads) + 1 \in Nat
    BY <1>2 DEF Inv, Typed
  <2> QED
    BY <1>1, <2>1
<1>7. Given' = Given /\ Taken' = Taken
  BY <1>1, <1>2, <1>5, <1>6 DEF Given, Taken
<1>8. ReadQueueIsRest'
  <2>1. \A n \in 1 .. Len(reads') : reads'[n].answered <=> n <= Given
    <3>1. \A n \in 1 .. Len(reads) : reads[n].answered <=> n <= Given
      BY DEF Inv, ReadQueueIsRest
    <3> QED
      BY <1>2, <1>4, <1>5, <3>1
  <2>2. ASSUME NEW i \in 1 .. Len(readQueue')
        PROVE  readQueue'[i] = Given + i
    <3>1. \A j \in 1 .. Len(readQueue) : readQueue[j] = Given + j
      BY DEF Inv, ReadQueueIsRest
    <3>2. CASE i = Len(readQueue) + 1
      <4>1. readQueue'[i] = Len(reads) + 1
        BY <1>6, <3>2
      <4> QED
        BY <1>2, <3>2, <4>1
    <3>3. CASE i # Len(readQueue) + 1
      <4>1. i \in 1 .. Len(readQueue)
        BY <1>2, <1>6, <3>3
      <4> QED
        BY <1>6, <3>1, <4>1
    <3> QED
      BY <3>2, <3>3
  <2>3. Len(readQueue') <= Len(reads')
    BY <1>2, <1>5, <1>6
  <2> QED
    BY <1>1, <1>7, <2>1, <2>2, <2>3 DEF ReadQueueIsRest
<1>9. WriteQueueIsRest'
  BY <1>1, <1>7 DEF Inv, WriteQueueIsRest
<1>10. Inv'
  BY <1>1, <1>5, <1>6, <1>8, <1>9 DEF Inv, Typed, SentIsNotNew
<1>11. Channel!Settled
  <2>1. Given' = IF mode' = "open" /\ Len(sent') < Len(reads') THEN Len(sent')
                 ELSE Len(reads')
    BY <1>1, <1>2, <1>3, <1>5, <1>7
  <2>2. Given <= Given' /\ \A i \in Given + 1 .. Given' : FALSE
    BY <1>2, <1>7
  <2> QED
    BY <1>5, <1>10, <2>1, <2>2, Settles
<1> QED
  BY <1>5, <1>10, <1>11

-----------------------------------------------------------------------------
\* A step of WritableIterable keeps the invariant and is a step of the channel, or
\* one that the channel does not see.
LEMMA StepImplements ==
  ASSUME Inv, [Next]_vars
  PROVE  Inv' /\ [Channel!Next]_(Channel!vars)
<1>1. ASSUME NEW w \in Write, WriteCall(w)
      PROVE  Inv' /\ [Channel!Next]_(Channel!vars)
  <2>1. CASE Refuse(w)
    BY <2>1, RefuseIdles
  <2>2. CASE Enqueue(w)
    BY <2>2, EnqueueSends DEF Channel!Next
  <2>3. CASE HandOver(w)
    BY <2>3, HandOverSends DEF Channel!Next
  <2> QED
    BY <1>1, <2>1, <2>2, <2>3 DEF WriteCall
<1>2. CASE Close
  BY <1>2, CloseCloses DEF Channel!Next
<1>3. CASE NextCall
  <2>1. UNCHANGED <<mode, write, sent>>
    BY <1>3 DEF NextCall
  <2>2. Inv' /\ Channel!Settled /\ Len(reads') = Len(reads) + 1
    BY <1>3, <2>1, TakeAsks, EndAsks, WaitAsks DEF NextCall
  <2> QED
    BY <2>1, <2>2 DEF Channel!Next, Channel!Ask
<1>4. CASE Throw \/ Return
  BY <1>4, StopCancels DEF Throw, Return, Channel!Next
<1>5. CASE Resume
  BY <1>5, ResumeIdles
<1>6. CASE Receive
  BY <1>6, ReceiveIdles
<1>7. CASE UNCHANGED vars
  <2>1. write \in [Write -> Progress]
    BY DEF Inv, Typed
  <2> QED
    BY <1>7, <2>1, Idle DEF vars
<1> QED
  BY <1>1, <1>2, <1>3, <1>4, <1>5, <1>6, <1>7 DEF Next

\* The first state: nothing written, nothing read.
LEMMA InitImplements ==
  ASSUME Init
  PROVE  Inv /\ Channel!Init
<1>1. /\ readQueue = << >> /\ writeQueue = << >> /\ sent = << >> /\ reads = << >>
      /\ mode = "open" /\ write = [w \in Write |-> [st |-> "new", left |-> 0]]
  BY DEF Init
<1>2. /\ << >> \in Seq(Nat) /\ << >> \in Seq(Write) /\ << >> \in Seq(Read)
      /\ Len(<< >>) = 0
  BY EmptySeq
<1>3. [st |-> "new", left |-> 0] \in Progress
  BY DEF Progress
<1>4. Typed
  BY <1>1, <1>2, <1>3 DEF Typed
<1>5. Given = 0 /\ Taken = 0
  BY <1>1, <1>2 DEF Given, Taken
<1>6. Inv
  BY <1>1, <1>2, <1>4, <1>5 DEF Inv, ReadQueueIsRest, WriteQueueIsRest, SentIsNotNew
<1>7. Seen(reads, readQueue) = << >>
  <2>1. Len(Seen(reads, readQueue)) = 0 /\ Seen(reads, readQueue) \in Seq(Write \cup {Done})
    BY <1>1, <1>2, <1>5, <1>6, Answers DEF Inv, Typed, ReadQueueIsRest, Given
  <2> QED
    BY <2>1, EmptySeq
<1> QED
  BY <1>1, <1>2, <1>6, <1>7 DEF Channel!Init, Seen

\* The queues of createWritableIterable() always hold exactly what is not answered
\* yet: the reads without a payload, or the payloads without a read, never both.
THEOREM QueuesAreRests == Spec => []Inv
<1>1. Init => Inv
  BY InitImplements
<1>2. Inv /\ [Next]_vars => Inv'
  BY StepImplements
<1> QED
  BY <1>1, <1>2, PTL DEF Spec

\* Its two users see a FIFO channel: whatever the interleaving of write(), close(),
\* next(), throw() and return(), reads are answered in order with the payloads in
\* order, none lost, withheld or answered twice.
THEOREM ChannelImplemented == Spec => FifoDelivery
<1>1. Init => Channel!Init
  BY InitImplements
<1>2. Inv /\ [Next]_vars => [Channel!Next]_(Channel!vars)
  BY StepImplements
<1> QED
  BY <1>1, <1>2, QueuesAreRests, PTL DEF Spec, FifoDelivery, Channel!Spec

-----------------------------------------------------------------------------
(* What a write that resolves knows, with a consumer that awaits each answer.  *)

Job == [t : {"wake"}, w : Write, ok : BOOLEAN] \cup [t : {"answer"}, n : Nat] \cup {Stopped}

IsWake(j)   == j.t = "wake"
IsAnswer(j) == j.t = "answer"

(* A write awaits nextPromise, or has a microtask after it.                    *)
Queued(w) == \E i \in 1 .. Len(next.q) : next.q[i] = w
Due(w)    == \E i \in 1 .. Len(jobs) : IsWake(jobs[i]) /\ jobs[i].w = w

(* A read has its payload.                                                     *)
Delivered(w) == \E n \in 1 .. Len(reads) : reads[n].answered /\ reads[n].value = w

(* nextPromise is rejected only by throw() and return().                       *)
PromiseTyped ==
  /\ next \in [st : {"pending", "rejected"}, q : Seq(Write)]
  /\ jobs \in Seq(Job)
  /\ next.st = "rejected" => mode = "cancelled" /\ next.q = << >>

(* A write that waits awaits nextPromise or has a microtask, and just one of   *)
(* them.                                                                       *)
OnePlace ==
  /\ \A i, j \in 1 .. Len(next.q) : next.q[i] = next.q[j] => i = j
  /\ \A i, j \in 1 .. Len(jobs) :
       IsWake(jobs[i]) /\ IsWake(jobs[j]) /\ jobs[i].w = jobs[j].w => i = j
  /\ \A w \in Write : write[w].st = "waiting" <=> Queued(w) \/ Due(w)
  /\ \A w \in Write : ~(Queued(w) /\ Due(w))

(* What a step makes of the microtasks: the first d are gone, those of e new.  *)
Moved(d, e) ==
  /\ d \in {0, 1} /\ d <= Len(jobs) /\ e \in Seq(Job) /\ jobs' \in Seq(Job)
  /\ Len(jobs') = Len(jobs) - d + Len(e)
  /\ \A i \in 1 .. Len(jobs) - d : jobs'[i] = jobs[i + d]
  /\ \A i \in 1 .. Len(e) : jobs'[Len(jobs) - d + i] = e[i]

\* Every microtask after the step was there before, or is new.
LEMMA MoveCases ==
  ASSUME PromiseTyped, NEW d \in Int, NEW e, Moved(d, e), NEW i \in 1 .. Len(jobs')
  PROVE  \/ i + d \in 1 .. Len(jobs) /\ jobs'[i] = jobs[i + d]
         \/ \E m \in 1 .. Len(e) : i = Len(jobs) - d + m /\ jobs'[i] = e[m]
<1>1. Len(jobs) \in Nat /\ Len(e) \in Nat /\ d \in {0, 1} /\ d <= Len(jobs)
  BY DEF PromiseTyped, Moved
<1>2. CASE i <= Len(jobs) - d
  <2>1. i \in 1 .. Len(jobs) - d /\ i + d \in 1 .. Len(jobs)
    BY <1>1, <1>2
  <2> QED
    BY <2>1 DEF Moved
<1>3. CASE i > Len(jobs) - d
  <2> DEFINE m == i - (Len(jobs) - d)
  <2>1. Len(jobs') = Len(jobs) - d + Len(e)
    BY DEF Moved
  <2>2. m \in 1 .. Len(e) /\ i = Len(jobs) - d + m
    BY <1>1, <1>3, <2>1
  <2> HIDE DEF m
  <2>3. jobs'[i] = e[m]
    BY <2>2 DEF Moved
  <2> QED
    BY <2>2, <2>3
<1> QED
  BY <1>1, <1>2, <1>3

\* A microtask is one of three kinds.
LEMMA JobKinds ==
  ASSUME NEW j \in Job
  PROVE  \/ IsWake(j) /\ ~IsAnswer(j) /\ j # Stopped /\ j.w \in Write /\ j.ok \in BOOLEAN
         \/ IsAnswer(j) /\ ~IsWake(j) /\ j # Stopped /\ j.n \in Nat
         \/ j = Stopped /\ ~IsWake(j) /\ ~IsAnswer(j)
BY DEF Job, IsWake, IsAnswer, Stopped

\* New microtasks are added at the end.
LEMMA Added ==
  ASSUME PromiseTyped, NEW e \in Seq(Job), jobs' = jobs \o e
  PROVE  Moved(0, e)
<1>1. jobs \in Seq(Job) /\ Len(jobs) \in Nat
  BY DEF PromiseTyped
<1>2. /\ jobs' \in Seq(Job) /\ Len(jobs') = Len(jobs) + Len(e) /\ Len(e) \in Nat
      /\ \A i \in 1 .. Len(jobs) : jobs'[i] = jobs[i]
      /\ \A i \in 1 .. Len(e) : jobs'[Len(jobs) + i] = e[i]
  BY <1>1, ConcatProperties
<1> QED
  BY <1>1, <1>2 DEF Moved

\* The first microtask runs.
LEMMA Ran ==
  ASSUME PromiseTyped, jobs # << >>, jobs' = Tail(jobs)
  PROVE  Moved(1, << >>) /\ Len(jobs) > 0 /\ Head(jobs) = jobs[1]
<1>1. jobs \in Seq(Job) /\ Len(jobs) \in Nat /\ Len(jobs) > 0 /\ Head(jobs) = jobs[1]
  BY DEF PromiseTyped
<1>2. /\ jobs' \in Seq(Job) /\ Len(jobs') = Len(jobs) - 1
      /\ \A i \in 1 .. Len(jobs) - 1 : jobs'[i] = jobs[i + 1]
  BY <1>1, HeadTailProperties
<1>3. << >> \in Seq(Job) /\ Len(<< >>) = 0
  BY EmptySeq
<1> QED
  BY <1>1, <1>2, <1>3 DEF Moved

\* The first microtask runs and adds one.
LEMMA RanOn ==
  ASSUME PromiseTyped, jobs # << >>, NEW j \in Job, jobs' = Append(Tail(jobs), j)
  PROVE  Moved(1, << j >>) /\ Len(jobs) > 0 /\ Head(jobs) = jobs[1]
<1>1. jobs \in Seq(Job) /\ Len(jobs) \in Nat /\ Len(jobs) > 0 /\ Head(jobs) = jobs[1]
  BY DEF PromiseTyped
<1>2. /\ Tail(jobs) \in Seq(Job) /\ Len(Tail(jobs)) = Len(jobs) - 1
      /\ \A i \in 1 .. Len(jobs) - 1 : Tail(jobs)[i] = jobs[i + 1]
  BY <1>1, HeadTailProperties
<1>3. /\ jobs' \in Seq(Job) /\ Len(jobs') = Len(jobs)
      /\ \A i \in 1 .. Len(jobs) - 1 : jobs'[i] = jobs[i + 1]
      /\ jobs'[Len(jobs)] = j
  BY <1>1, <1>2, AppendProperties
<1>4. << j >> \in Seq(Job) /\ Len(<< j >>) = 1 /\ << j >>[1] = j
  OBVIOUS
<1> HIDE DEF Job
<1> QED
  BY <1>1, <1>3, <1>4 DEF Moved

\* No write is resumed, and none starts to wait or stops waiting.
LEMMA PlacesStay ==
  ASSUME PromiseTyped, OnePlace, NEW d \in Int, NEW e, Moved(d, e), next' = next,
         d = 1 => ~IsWake(jobs[1]), \A m \in 1 .. Len(e) : ~IsWake(e[m]),
         \A w \in Write : write'[w].st = "waiting" <=> write[w].st = "waiting"
  PROVE  OnePlace'
<1>1. Len(jobs) \in Nat /\ Len(e) \in Nat /\ d \in {0, 1} /\ d <= Len(jobs)
  BY DEF PromiseTyped, Moved
<1>2. ASSUME NEW i \in 1 .. Len(jobs'), IsWake(jobs'[i])
      PROVE  i + d \in 1 .. Len(jobs) /\ jobs'[i] = jobs[i + d]
  BY <1>2, MoveCases
<1>3. ASSUME NEW i \in 1 .. Len(jobs), IsWake(jobs[i])
      PROVE  i - d \in 1 .. Len(jobs') /\ jobs'[i - d] = jobs[i]
  <2>1. i > d
    BY <1>1, <1>3
  <2>2. i - d \in 1 .. Len(jobs) - d /\ (i - d) + d = i
    BY <1>1, <2>1
  <2>3. i - d \in 1 .. Len(jobs')
    BY <1>1, <2>2 DEF Moved
  <2> QED
    BY <2>2, <2>3 DEF Moved
<1>4. ASSUME NEW w \in Write
      PROVE  /\ Queued(w)' <=> Queued(w)
             /\ Due(w)' <=> Due(w)
  <2>1. Queued(w)' <=> Queued(w)
    BY DEF Queued
  <2>2. Due(w) => Due(w)'
    BY <1>3 DEF Due
  <2>3. Due(w)' => Due(w)
    BY <1>2 DEF Due
  <2> QED
    BY <2>1, <2>2, <2>3
<1>5. \A i, j \in 1 .. Len(next'.q) : next'.q[i] = next'.q[j] => i = j
  BY DEF OnePlace
<1>6. ASSUME NEW i \in 1 .. Len(jobs'), NEW j \in 1 .. Len(jobs'),
             IsWake(jobs'[i]), IsWake(jobs'[j]), jobs'[i].w = jobs'[j].w
      PROVE  i = j
  <2>1. i + d = j + d
    BY <1>2, <1>6 DEF OnePlace
  <2> QED
    BY <1>1, <2>1
<1> QED
  BY <1>4, <1>5, <1>6 DEF OnePlace

\* A write that had no place awaits nextPromise, and no write has a microtask more.
LEMMA PlacesQueue ==
  ASSUME PromiseTyped, OnePlace, NEW d \in Int, NEW e, Moved(d, e), NEW w \in Write,
         next'.q = Append(next.q, w), \A m \in 1 .. Len(e) : ~IsWake(e[m]),
         \/ d = 0 /\ write[w].st # "waiting"
         \/ d = 1 /\ IsWake(jobs[1]) /\ jobs[1].w = w,
         write'[w].st = "waiting",
         \A v \in Write \ {w} : write'[v].st = write[v].st
  PROVE  OnePlace'
<1>1. Len(jobs) \in Nat /\ Len(e) \in Nat /\ d \in {0, 1} /\ d <= Len(jobs)
  BY DEF PromiseTyped, Moved
<1>2. ASSUME NEW i \in 1 .. Len(jobs'), IsWake(jobs'[i])
      PROVE  i + d \in 1 .. Len(jobs) /\ jobs'[i] = jobs[i + d] /\ jobs'[i].w \in Write
  <2>1. i + d \in 1 .. Len(jobs) /\ jobs'[i] = jobs[i + d]
    BY <1>2, MoveCases
  <2>2. jobs[i + d] \in Job
    BY <2>1 DEF PromiseTyped
  <2> QED
    BY <1>2, <2>1, <2>2, JobKinds
<1>3. ~Queued(w) /\ \A i \in 1 .. Len(jobs) : i > d /\ IsWake(jobs[i]) => jobs[i].w # w
  <2>1. CASE d = 0 /\ write[w].st # "waiting"
    BY <2>1 DEF OnePlace, Due
  <2>2. CASE d = 1 /\ IsWake(jobs[1]) /\ jobs[1].w = w
    <3>1. 1 \in 1 .. Len(jobs) /\ Due(w)
      BY <1>1, <2>2 DEF Due
    <3>2. \A i \in 1 .. Len(jobs) : i > 1 => i # 1
      BY <1>1
    <3> QED
      BY <2>2, <3>1, <3>2 DEF OnePlace
  <2> QED
    BY <2>1, <2>2
<1>4. ASSUME NEW i \in 1 .. Len(jobs), IsWake(jobs[i]), jobs[i].w # w
      PROVE  i - d \in 1 .. Len(jobs') /\ jobs'[i - d] = jobs[i]
  <2>1. i > d
    BY <1>1, <1>4
  <2>2. i - d \in 1 .. Len(jobs) - d /\ (i - d) + d = i
    BY <1>1, <2>1
  <2>3. i - d \in 1 .. Len(jobs')
    BY <1>1, <2>2 DEF Moved
  <2> QED
    BY <2>2, <2>3 DEF Moved
<1>5. /\ Len(next.q) \in Nat /\ Len(next'.q) = Len(next.q) + 1
      /\ next'.q[Len(next.q) + 1] = w
      /\ \A i \in 1 .. Len(next.q) : next'.q[i] = next.q[i]
  <2>1. next.q \in Seq(Write)
    BY DEF PromiseTyped
  <2> QED
    BY <2>1, AppendProperties
<1>6. ASSUME NEW v \in Write
      PROVE  /\ Queued(v)' <=> Queued(v) \/ v = w
             /\ v # w => (Due(v)' <=> Due(v))
             /\ ~Due(w)'
  <2>1. Queued(v)' <=> Queued(v) \/ v = w
    BY <1>5 DEF Queued
  <2>2. v # w /\ Due(v) => Due(v)'
    BY <1>4 DEF Due
  <2>3. Due(v)' => Due(v)
    BY <1>2 DEF Due
  <2>4. ~Due(w)'
    <3>1. \A i \in 1 .. Len(jobs') : i + d > d
      BY <1>1
    <3> QED
      BY <1>2, <1>3, <3>1 DEF Due
  <2> QED
    BY <2>1, <2>2, <2>3, <2>4
<1>7. \A i, j \in 1 .. Len(next'.q) : next'.q[i] = next'.q[j] => i = j
  <2>1. \A i \in 1 .. Len(next.q) : next.q[i] # w
    BY <1>3 DEF Queued
  <2>2. \A i, j \in 1 .. Len(next.q) : next.q[i] = next.q[j] => i = j
    BY DEF OnePlace
  <2>3. \A i \in 1 .. Len(next'.q) : i \in 1 .. Len(next.q) \/ i = Len(next.q) + 1
    BY <1>5
  <2> QED
    BY <1>5, <2>1, <2>2, <2>3
<1>8. ASSUME NEW i \in 1 .. Len(jobs'), NEW j \in 1 .. Len(jobs'),
             IsWake(jobs'[i]), IsWake(jobs'[j]), jobs'[i].w = jobs'[j].w
      PROVE  i = j
  <2>1. /\ i + d \in 1 .. Len(jobs) /\ j + d \in 1 .. Len(jobs)
        /\ IsWake(jobs[i + d]) /\ IsWake(jobs[j + d]) /\ jobs[i + d].w = jobs[j + d].w
    BY <1>2, <1>8
  <2>2. i + d = j + d
    BY <2>1 DEF OnePlace
  <2> QED
    BY <1>1, <2>2
<1>9. ASSUME NEW v \in Write
      PROVE  /\ write'[v].st = "waiting" <=> Queued(v)' \/ Due(v)'
             /\ ~(Queued(v)' /\ Due(v)')
  <2>1. CASE v = w
    BY <1>6, <2>1
  <2>2. CASE v # w
    BY <1>6, <2>2 DEF OnePlace
  <2> QED
    BY <2>1, <2>2
<1> QED
  BY <1>7, <1>8, <1>9 DEF OnePlace

\* nextPromise settles: the writes that awaited it have a microtask each.
LEMMA PlacesSettle ==
  ASSUME PromiseTyped, OnePlace, NEW e, Moved(0, e), next'.q = << >>,
         Len(next.q) <= Len(e),
         \A m \in 1 .. Len(e) : IF m <= Len(next.q) THEN IsWake(e[m]) /\ e[m].w = next.q[m]
                                ELSE ~IsWake(e[m]),
         write' = write
  PROVE  OnePlace'
<1>1. Len(jobs) \in Nat /\ Len(e) \in Nat /\ Len(next.q) \in Nat
  BY DEF PromiseTyped, Moved
<1>2. /\ \A i \in 1 .. Len(jobs) : jobs'[i] = jobs[i]
      /\ \A m \in 1 .. Len(e) : jobs'[Len(jobs) + m] = e[m]
      /\ Len(jobs') = Len(jobs) + Len(e)
  BY <1>1 DEF Moved
<1>3. ASSUME NEW i \in 1 .. Len(jobs'), IsWake(jobs'[i])
      PROVE  \/ i \in 1 .. Len(jobs) /\ jobs'[i] = jobs[i] /\ ~Queued(jobs'[i].w)
             \/ /\ i - Len(jobs) \in 1 .. Len(next.q) /\ jobs'[i].w = next.q[i - Len(jobs)]
                /\ Queued(jobs'[i].w)
  <2>1. CASE i \in 1 .. Len(jobs)
    <3>1. jobs[i].w \in Write /\ Due(jobs[i].w)
      <4>1. jobs[i] \in Job
        BY <2>1 DEF PromiseTyped
      <4> QED
        BY <1>2, <1>3, <2>1, <4>1, JobKinds DEF Due
    <3> QED
      BY <1>2, <2>1, <3>1 DEF OnePlace
  <2>2. CASE i \notin 1 .. Len(jobs)
    <3> DEFINE m == i - Len(jobs)
    <3>1. m \in 1 .. Len(e) /\ Len(jobs) + m = i
      BY <1>1, <1>2, <2>2
    <3> HIDE DEF m
    <3>2. IsWake(e[m]) /\ jobs'[i] = e[m]
      BY <1>2, <1>3, <3>1
    <3>3. m <= Len(next.q) /\ e[m].w = next.q[m]
      BY <3>1, <3>2
    <3>4. m \in 1 .. Len(next.q)
      BY <1>1, <3>1, <3>3
    <3>5. m = i - Len(jobs)
      BY DEF m
    <3> QED
      BY <3>2, <3>3, <3>4, <3>5 DEF Queued
  <2> QED
    BY <2>1, <2>2
<1>4. \A w : ~Queued(w)'
  BY EmptySeq DEF Queued
<1>5. ASSUME NEW i \in 1 .. Len(jobs'), NEW j \in 1 .. Len(jobs'),
             IsWake(jobs'[i]), IsWake(jobs'[j]), jobs'[i].w = jobs'[j].w
      PROVE  i = j
  <2>1. CASE ~Queued(jobs'[i].w)
    BY <1>3, <1>5, <2>1 DEF OnePlace
  <2>2. CASE Queued(jobs'[i].w)
    <3>1. /\ i - Len(jobs) \in 1 .. Len(next.q) /\ j - Len(jobs) \in 1 .. Len(next.q)
          /\ next.q[i - Len(jobs)] = next.q[j - Len(jobs)]
      BY <1>3, <1>5, <2>2
    <3>2. i - Len(jobs) = j - Len(jobs)
      BY <3>1 DEF OnePlace
    <3> QED
      BY <1>1, <3>2
  <2> QED
    BY <2>1, <2>2
<1>6. ASSUME NEW w \in Write
      PROVE  Due(w)' <=> Queued(w) \/ Due(w)
  <2>1. Due(w) => Due(w)'
    <3>1. \A i \in 1 .. Len(jobs) : i \in 1 .. Len(jobs')
      BY <1>1, <1>2
    <3> QED
      BY <1>2, <3>1 DEF Due
  <2>2. ASSUME Queued(w)
        PROVE  Due(w)'
    <3>1. PICK m \in 1 .. Len(next.q) : next.q[m] = w
      BY <2>2 DEF Queued
    <3>2. m \in 1 .. Len(e) /\ Len(jobs) + m \in 1 .. Len(jobs')
      BY <1>1, <1>2, <3>1
    <3>3. m <= Len(next.q)
      BY <1>1, <3>1
    <3>4. IsWake(e[m]) /\ e[m].w = w
      BY <3>1, <3>2, <3>3
    <3> QED
      BY <1>2, <3>2, <3>4 DEF Due
  <2>3. Due(w)' => Queued(w) \/ Due(w)
    BY <1>3 DEF Due
  <2> QED
    BY <2>1, <2>2, <2>3
<1>7. ASSUME NEW w \in Write
      PROVE  write'[w].st = "waiting" <=> Queued(w)' \/ Due(w)'
  BY <1>4, <1>6 DEF OnePlace
<1>8. \A i, j \in 1 .. Len(next'.q) : next'.q[i] = next'.q[j] => i = j
  BY EmptySeq
<1> QED
  BY <1>4, <1>5, <1>7, <1>8 DEF OnePlace

\* The write resumed is done.
LEMMA PlacesFree ==
  ASSUME PromiseTyped, OnePlace, NEW e, Moved(1, e), NEW w \in Write, next' = next,
         IsWake(jobs[1]), jobs[1].w = w, \A m \in 1 .. Len(e) : ~IsWake(e[m]),
         write'[w].st # "waiting", \A v \in Write \ {w} : write'[v].st = write[v].st
  PROVE  OnePlace'
<1>1. Len(jobs) \in Nat /\ Len(e) \in Nat /\ 1 <= Len(jobs)
  BY DEF PromiseTyped, Moved
<1>2. ASSUME NEW i \in 1 .. Len(jobs'), IsWake(jobs'[i])
      PROVE  i + 1 \in 1 .. Len(jobs) /\ jobs'[i] = jobs[i + 1] /\ jobs'[i].w # w
  <2>1. i + 1 \in 1 .. Len(jobs) /\ jobs'[i] = jobs[i + 1]
    <3>1. \/ i + 1 \in 1 .. Len(jobs) /\ jobs'[i] = jobs[i + 1]
          \/ \E m \in 1 .. Len(e) : i = Len(jobs) - 1 + m /\ jobs'[i] = e[m]
      BY MoveCases
    <3> QED
      BY <1>2, <3>1
  <2>2. i + 1 # 1 /\ 1 \in 1 .. Len(jobs)
    BY <1>1
  <2>3. jobs[i + 1].w # jobs[1].w
    <3>1. IsWake(jobs[i + 1]) /\ IsWake(jobs[1])
      BY <1>2, <2>1
    <3> QED
      BY <2>1, <2>2, <3>1 DEF OnePlace
  <2> QED
    BY <2>1, <2>3
<1>3. ASSUME NEW i \in 1 .. Len(jobs), IsWake(jobs[i]), jobs[i].w # w
      PROVE  i - 1 \in 1 .. Len(jobs') /\ jobs'[i - 1] = jobs[i]
  <2>1. i # 1
    BY <1>3
  <2>2. i - 1 \in 1 .. Len(jobs) - 1 /\ (i - 1) + 1 = i
    BY <1>1, <2>1
  <2>3. i - 1 \in 1 .. Len(jobs')
    BY <1>1, <2>2 DEF Moved
  <2> QED
    BY <2>2, <2>3 DEF Moved
<1>4. ~Queued(w)
  <2>1. Due(w)
    BY <1>1 DEF Due
  <2> QED
    BY <2>1 DEF OnePlace
<1>5. ASSUME NEW v \in Write
      PROVE  /\ Queued(v)' <=> Queued(v)
             /\ Due(v)' <=> Due(v) /\ v # w
  <2>1. Queued(v)' <=> Queued(v)
    BY DEF Queued
  <2>2. v # w /\ Due(v) => Due(v)'
    BY <1>3 DEF Due
  <2>3. Due(v)' => Due(v) /\ v # w
    BY <1>2 DEF Due
  <2> QED
    BY <2>1, <2>2, <2>3
<1>6. \A i, j \in 1 .. Len(next'.q) : next'.q[i] = next'.q[j] => i = j
  BY DEF OnePlace
<1>7. ASSUME NEW i \in 1 .. Len(jobs'), NEW j \in 1 .. Len(jobs'),
             IsWake(jobs'[i]), IsWake(jobs'[j]), jobs'[i].w = jobs'[j].w
      PROVE  i = j
  <2>1. i + 1 = j + 1
    BY <1>2, <1>7 DEF OnePlace
  <2> QED
    BY <1>1, <2>1
<1>8. ASSUME NEW v \in Write
      PROVE  /\ write'[v].st = "waiting" <=> Queued(v)' \/ Due(v)'
             /\ ~(Queued(v)' /\ Due(v)')
  <2>1. CASE v = w
    BY <1>4, <1>5, <2>1
  <2>2. CASE v # w
    BY <1>5, <2>2 DEF OnePlace
  <2> QED
    BY <2>1, <2>2
<1> QED
  BY <1>6, <1>7, <1>8 DEF OnePlace

\* The write resumed has another microtask.
LEMMA PlacesAgain ==
  ASSUME PromiseTyped, OnePlace, NEW j \in Job, Moved(1, << j >>), next' = next,
         IsWake(jobs[1]), IsWake(j), j.w = jobs[1].w,
         \A v \in Write : write'[v].st = write[v].st
  PROVE  OnePlace'
<1>1. Len(jobs) \in Nat /\ 1 <= Len(jobs) /\ Len(<< j >>) = 1 /\ << j >>[1] = j
  BY DEF PromiseTyped, Moved
<1>2. /\ Len(jobs') = Len(jobs) /\ jobs'[Len(jobs)] = j
      /\ \A i \in 1 .. Len(jobs) - 1 : jobs'[i] = jobs[i + 1]
  BY <1>1 DEF Moved
<1>3. ASSUME NEW i \in 1 .. Len(jobs'), i # Len(jobs)
      PROVE  i + 1 \in 1 .. Len(jobs) /\ i + 1 # 1 /\ jobs'[i] = jobs[i + 1]
  BY <1>1, <1>2, <1>3
<1>4. \A i \in 1 .. Len(jobs) : i # 1 /\ IsWake(jobs[i]) => jobs[i].w # j.w
  BY <1>1 DEF OnePlace
<1>5. ASSUME NEW v \in Write
      PROVE  (Queued(v)' <=> Queued(v)) /\ (Due(v)' <=> Due(v))
  <2>1. Queued(v)' <=> Queued(v)
    BY DEF Queued
  <2>2. ASSUME Due(v)
        PROVE  Due(v)'
    <3>1. PICK i \in 1 .. Len(jobs) : IsWake(jobs[i]) /\ jobs[i].w = v
      BY <2>2 DEF Due
    <3>2. CASE i = 1
      BY <1>1, <1>2, <3>1, <3>2 DEF Due
    <3>3. CASE i # 1
      <4>1. i - 1 \in 1 .. Len(jobs) - 1 /\ i - 1 \in 1 .. Len(jobs') /\ (i - 1) + 1 = i
        BY <1>1, <1>2, <3>3
      <4>2. jobs'[i - 1] = jobs[i]
        BY <1>2, <4>1
      <4> QED
        BY <3>1, <4>1, <4>2 DEF Due
    <3> QED
      BY <3>2, <3>3
  <2>3. ASSUME Due(v)'
        PROVE  Due(v)
    <3>1. PICK i \in 1 .. Len(jobs') : IsWake(jobs'[i]) /\ jobs'[i].w = v
      BY <2>3 DEF Due
    <3>2. CASE i = Len(jobs)
      BY <1>1, <1>2, <3>1, <3>2 DEF Due
    <3>3. CASE i # Len(jobs)
      BY <1>3, <3>1, <3>3 DEF Due
    <3> QED
      BY <3>2, <3>3
  <2> QED
    BY <2>1, <2>2, <2>3
<1>6. \A i, k \in 1 .. Len(next'.q) : next'.q[i] = next'.q[k] => i = k
  BY DEF OnePlace
<1>7. ASSUME NEW i \in 1 .. Len(jobs'), NEW k \in 1 .. Len(jobs'),
             IsWake(jobs'[i]), IsWake(jobs'[k]), jobs'[i].w = jobs'[k].w
      PROVE  i = k
  <2>1. CASE i # Len(jobs) /\ k # Len(jobs)
    <3>1. i + 1 = k + 1
      BY <1>3, <1>7, <2>1 DEF OnePlace
    <3> QED
      BY <1>1, <3>1
  <2>2. CASE i = Len(jobs) /\ k # Len(jobs)
    BY <1>2, <1>3, <1>4, <1>7, <2>2
  <2>3. CASE k = Len(jobs) /\ i # Len(jobs)
    BY <1>2, <1>3, <1>4, <1>7, <2>3
  <2> QED
    BY <2>1, <2>2, <2>3
<1> QED
  BY <1>5, <1>6, <1>7 DEF OnePlace

\* The kinds of microtasks, as they are made.
LEMMA MadeJobs ==
  /\ \A w \in Write, ok \in BOOLEAN :
       Wake(w, ok) \in Job /\ IsWake(Wake(w, ok)) /\ ~IsAnswer(Wake(w, ok))
         /\ Wake(w, ok).w = w /\ Wake(w, ok).ok = ok /\ Wake(w, ok) # Stopped
  /\ \A n \in Nat :
       Answer(n) \in Job /\ ~IsWake(Answer(n)) /\ IsAnswer(Answer(n)) /\ Answer(n).n = n
         /\ Answer(n) # Stopped
  /\ Stopped \in Job /\ ~IsWake(Stopped) /\ ~IsAnswer(Stopped)
BY DEF Wake, Answer, Stopped, Job, IsWake, IsAnswer

\* A promise that settles wakes every write that awaits it, in order.
LEMMA SettlingWakes ==
  ASSUME PromiseTyped, NEW ok \in BOOLEAN
  PROVE  /\ Settling(ok) \in Seq(Job) /\ Len(Settling(ok)) = Len(next.q)
         /\ \A m \in 1 .. Len(next.q) : Settling(ok)[m] = Wake(next.q[m], ok)
<1>1. next.q \in Seq(Write) /\ Len(next.q) \in Nat /\ next.st \in {"pending", "rejected"}
  BY DEF PromiseTyped
<1>2. CASE next.st = "pending"
  <2>1. Settling(ok) = Woken(ok)
    BY <1>2 DEF Settling
  <2>2. \A m \in 1 .. Len(next.q) : Wake(next.q[m], ok) \in Job
    BY <1>1, MadeJobs
  <2>3. Woken(ok) = [m \in 1 .. Len(next.q) |-> Wake(next.q[m], ok)]
    BY DEF Woken
  <2>4. Woken(ok) \in [1 .. Len(next.q) -> Job]
    BY <2>2, <2>3
  <2>5. Woken(ok) \in Seq(Job) /\ Len(Woken(ok)) = Len(next.q)
    BY <1>1, <2>4, FunctionIsSeq
  <2> QED
    BY <2>1, <2>3, <2>5
<1>3. CASE next.st = "rejected"
  <2>1. next.q = << >> /\ Settling(ok) = << >>
    BY <1>3 DEF PromiseTyped, Settling
  <2> QED
    BY <2>1, EmptySeq
<1> QED
  BY <1>1, <1>2, <1>3

\* Every read that waits has a microtask once it is drained.
LEMMA DrainAnswers ==
  ASSUME Inv
  PROVE  /\ DrainJobs \in Seq(Job) /\ Len(DrainJobs) = Len(readQueue)
         /\ \A m \in 1 .. Len(readQueue) : DrainJobs[m] = Answer(readQueue[m])
         /\ \A m \in 1 .. Len(readQueue) : readQueue[m] \in Nat
<1>1. readQueue \in Seq(Nat) /\ Len(readQueue) \in Nat
  BY DEF Inv, Typed
<1>2. \A m \in 1 .. Len(readQueue) : readQueue[m] \in Nat /\ Answer(readQueue[m]) \in Job
  BY <1>1, MadeJobs
<1>3. DrainJobs = [m \in 1 .. Len(readQueue) |-> Answer(readQueue[m])]
  BY DEF DrainJobs
<1>4. DrainJobs \in [1 .. Len(readQueue) -> Job]
  BY <1>2, <1>3
<1>5. DrainJobs \in Seq(Job) /\ Len(DrainJobs) = Len(readQueue)
  BY <1>1, <1>4, FunctionIsSeq
<1> QED
  BY <1>2, <1>3, <1>5

\* What next() does: nextPromise settles and is replaced, and the read is answered
\* at once or waits.
LEMMA NextCallMoves ==
  ASSUME Inv, PromiseTyped, NextCall
  PROVE  \E e \in Seq(Job), r \in Read :
           /\ Moved(0, e) /\ next' = Unresolved /\ UNCHANGED <<mode, write, sent>>
           /\ reads' = Append(reads, r) /\ ~r.seen
           /\ Len(next.q) <= Len(e)
           /\ \A m \in 1 .. Len(e) :
                IF m <= Len(next.q) THEN e[m] = Wake(next.q[m], TRUE)
                ELSE e[m] = Answer(Len(reads) + 1) /\ m = Len(next.q) + 1 /\ r.answered
           /\ Len(e) > Len(next.q) \/ (readQueue' # << >> /\ mode = "open")
<1>1. next' = Unresolved /\ UNCHANGED <<mode, write, sent>>
  BY DEF NextCall
<1>2. /\ Settling(TRUE) \in Seq(Job) /\ Len(Settling(TRUE)) = Len(next.q)
      /\ \A m \in 1 .. Len(next.q) : Settling(TRUE)[m] = Wake(next.q[m], TRUE)
  BY SettlingWakes
<1>3. Len(reads) + 1 \in Nat /\ Answer(Len(reads) + 1) \in Job /\ Len(next.q) \in Nat
  BY MadeJobs DEF Inv, Typed, PromiseTyped
<1>4. CASE NextTakes \/ NextEnds
  <2>1. PICK v \in Write \cup {Done} :
          /\ reads' = Append(reads, Answered(v))
          /\ jobs' = jobs \o Append(Settling(TRUE), Answer(Len(reads) + 1))
    <3>1. CASE NextTakes
      <4>1. writeQueue # << >> /\ writeQueue \in Seq(Write)
        BY <3>1 DEF NextTakes, Inv, Typed
      <4>2. Head(writeQueue) \in Write
        BY <4>1, HeadTailProperties
      <4> QED
        BY <3>1, <4>2 DEF NextTakes
    <3>2. CASE NextEnds
      BY <3>2 DEF NextEnds
    <3> QED
      BY <1>4, <3>1, <3>2
  <2>2. Answered(v) \in Read /\ ~Answered(v).seen /\ Answered(v).answered
    BY DEF Answered, Read
  <2>0. PICK s : s = Settling(TRUE)
    OBVIOUS
  <2>7. PICK e \in Seq(Job) : e = Append(s, Answer(Len(reads) + 1)) /\ jobs' = jobs \o e
    BY <1>2, <1>3, <2>0, <2>1, AppendProperties
  <2>3. /\ e \in Seq(Job) /\ Len(e) = Len(next.q) + 1
        /\ \A m \in 1 .. Len(next.q) : e[m] = Wake(next.q[m], TRUE)
        /\ e[Len(next.q) + 1] = Answer(Len(reads) + 1)
    <3>1. s \in Seq(Job) /\ Len(s) = Len(next.q)
      BY <1>2, <2>0
    <3>2. /\ e \in Seq(Job) /\ Len(e) = Len(s) + 1 /\ e[Len(s) + 1] = Answer(Len(reads) + 1)
          /\ \A m \in 1 .. Len(s) : e[m] = s[m]
      BY <1>3, <2>7, <3>1, AppendProperties
    <3> QED
      BY <1>2, <2>0, <3>1, <3>2
  <2>4. Moved(0, e)
    BY <2>3, <2>7, Added
  <2>5. ASSUME NEW m \in 1 .. Len(e)
        PROVE  IF m <= Len(next.q) THEN e[m] = Wake(next.q[m], TRUE)
               ELSE e[m] = Answer(Len(reads) + 1) /\ m = Len(next.q) + 1
    <3>1. CASE m <= Len(next.q)
      <4>1. m \in 1 .. Len(next.q)
        BY <1>3, <2>3, <3>1
      <4> QED
        BY <2>3, <3>1, <4>1
    <3>2. CASE ~(m <= Len(next.q))
      <4>1. m = Len(next.q) + 1
        BY <1>3, <2>3, <3>2
      <4> QED
        BY <2>3, <3>2, <4>1
    <3> QED
      BY <3>1, <3>2
  <2>6. Len(next.q) <= Len(e) /\ Len(e) > Len(next.q)
    BY <1>3, <2>3
  <2>8. PICK r \in Read : r = Answered(v) /\ ~r.seen /\ r.answered
    BY <2>2
  <2> WITNESS e \in Seq(Job), r \in Read
  <2> QED
    BY <1>1, <2>1, <2>4, <2>5, <2>6, <2>8
<1>5. CASE NextWaits
  <2>1. /\ reads' = Append(reads, NewRead) /\ jobs' = jobs \o Settling(TRUE)
        /\ readQueue' = Append(readQueue, Len(reads) + 1) /\ mode = "open"
    BY <1>5 DEF NextWaits
  <2>2. NewRead \in Read /\ ~NewRead.seen
    BY DEF NewRead, Read
  <2>0. PICK e \in Seq(Job) : e = Settling(TRUE)
    BY <1>2
  <2>9. /\ e \in Seq(Job) /\ Len(e) = Len(next.q)
        /\ \A m \in 1 .. Len(next.q) : e[m] = Wake(next.q[m], TRUE)
    BY <1>2, <2>0
  <2>3. Moved(0, e)
    BY <2>0, <2>1, <2>9, Added
  <2>4. readQueue' # << >>
    <3>1. readQueue \in Seq(Nat)
      BY DEF Inv, Typed
    <3>2. Len(readQueue') = Len(readQueue) + 1 /\ Len(readQueue) \in Nat
      BY <1>3, <2>1, <3>1, AppendProperties
    <3> QED
      BY <3>2, EmptySeq
  <2>5. \A m \in 1 .. Len(e) : m <= Len(next.q) /\ m \in 1 .. Len(next.q)
    BY <1>3, <2>9
  <2>6. Len(next.q) <= Len(e)
    BY <1>3, <2>9
  <2>7. \A m \in 1 .. Len(e) : e[m] = Wake(next.q[m], TRUE)
    BY <2>5, <2>9
  <2>8. PICK r \in Read : r = NewRead /\ ~r.seen
    BY <2>2
  <2> WITNESS e \in Seq(Job), r \in Read
  <2> QED
    BY <1>1, <2>1, <2>3, <2>4, <2>5, <2>6, <2>7, <2>8
<1> QED
  BY <1>4, <1>5 DEF NextCall

\* What throw() and return() do: nextPromise settles, the reads that wait are
\* answered, and the result of the call itself follows.
LEMMA StopMoves ==
  ASSUME Inv, PromiseTyped, NEW ok \in BOOLEAN, Stop(ok)
  PROVE  \E e \in Seq(Job) :
           /\ Moved(0, e) /\ Len(e) = Len(next.q) + Len(readQueue) + 1
           /\ \A m \in 1 .. Len(next.q) : e[m] = Wake(next.q[m], ok)
           /\ \A m \in 1 .. Len(readQueue) : e[Len(next.q) + m] = Answer(readQueue[m])
           /\ e[Len(e)] = Stopped
<1>1. jobs' = Append(jobs \o Settling(ok) \o DrainJobs, Stopped)
  BY DEF Stop
<1>2. /\ Settling(ok) \in Seq(Job) /\ Len(Settling(ok)) = Len(next.q)
      /\ \A m \in 1 .. Len(next.q) : Settling(ok)[m] = Wake(next.q[m], ok)
  BY SettlingWakes
<1>3. /\ DrainJobs \in Seq(Job) /\ Len(DrainJobs) = Len(readQueue)
      /\ \A m \in 1 .. Len(readQueue) : DrainJobs[m] = Answer(readQueue[m])
  BY DrainAnswers
<1>4. jobs \in Seq(Job) /\ Stopped \in Job
  BY MadeJobs DEF PromiseTyped
<1>5. Len(next.q) \in Nat /\ Len(readQueue) \in Nat
  BY DEF PromiseTyped, Inv, Typed
<1>0. PICK a, b : a = Settling(ok) /\ b = DrainJobs
  OBVIOUS
<1> DEFINE f == a \o b
           e == Append(f, Stopped)
<1>6. /\ f \in Seq(Job) /\ Len(f) = Len(next.q) + Len(readQueue)
      /\ \A m \in 1 .. Len(next.q) : f[m] = Wake(next.q[m], ok)
      /\ \A m \in 1 .. Len(readQueue) : f[Len(next.q) + m] = Answer(readQueue[m])
  <2>1. a \in Seq(Job) /\ b \in Seq(Job) /\ Len(a) = Len(next.q) /\ Len(b) = Len(readQueue)
    BY <1>0, <1>2, <1>3
  <2>2. /\ f \in Seq(Job) /\ Len(f) = Len(a) + Len(b)
        /\ \A m \in 1 .. Len(a) : f[m] = a[m]
        /\ \A m \in 1 .. Len(b) : f[Len(a) + m] = b[m]
    <3>1. /\ f \in Seq(Job) /\ Len(f) = Len(a) + Len(b)
          /\ \A m \in 1 .. Len(a) + Len(b) :
               f[m] = IF m <= Len(a) THEN a[m] ELSE b[m - Len(a)]
      BY <2>1, ConcatProperties
    <3>2. Len(a) \in Nat /\ Len(b) \in Nat
      BY <2>1
    <3> HIDE DEF f
    <3>3. \A m \in 1 .. Len(a) : f[m] = a[m]
      BY <3>1, <3>2
    <3>4. ASSUME NEW m \in 1 .. Len(b)
          PROVE  f[Len(a) + m] = b[m]
      <4>1. /\ Len(a) + m \in 1 .. Len(a) + Len(b)
            /\ ~(Len(a) + m <= Len(a)) /\ Len(a) + m - Len(a) = m
        BY <3>2
      <4> QED
        BY <3>1, <4>1
    <3> QED
      BY <3>1, <3>3, <3>4
  <2> HIDE DEF f
  <2> QED
    BY <1>0, <1>2, <1>3, <2>1, <2>2
<1>7. jobs' = jobs \o e
  <2>1. jobs \o Settling(ok) \o DrainJobs = jobs \o f
    BY <1>0, <1>2, <1>3, <1>4, ConcatAssociative
  <2>2. Append(jobs \o f, Stopped) = (jobs \o f) \o << Stopped >>
    BY <1>4, <1>6, AppendIsConcat, ConcatProperties
  <2>3. e = f \o << Stopped >>
    BY <1>4, <1>6, AppendIsConcat
  <2>4. << Stopped >> \in Seq(Job)
    BY <1>4
  <2> HIDE DEF f
  <2>5. (jobs \o f) \o << Stopped >> = jobs \o (f \o << Stopped >>)
    BY <1>4, <1>6, <2>4, ConcatAssociative
  <2> QED
    BY <1>1, <2>1, <2>2, <2>3, <2>5
<1> HIDE DEF f
<1>8. /\ e \in Seq(Job) /\ Len(e) = Len(next.q) + Len(readQueue) + 1 /\ e[Len(e)] = Stopped
      /\ \A m \in 1 .. Len(f) : e[m] = f[m]
  BY <1>4, <1>5, <1>6, AppendProperties
<1> HIDE DEF e
<1>9. Moved(0, e)
  BY <1>7, <1>8, Added
<1>10. \A m \in 1 .. Len(next.q) : e[m] = Wake(next.q[m], ok)
  <2>1. \A m \in 1 .. Len(next.q) : m \in 1 .. Len(f)
    BY <1>5, <1>6
  <2> QED
    BY <1>6, <1>8, <2>1
<1>11. \A m \in 1 .. Len(readQueue) : e[Len(next.q) + m] = Answer(readQueue[m])
  <2>1. \A m \in 1 .. Len(readQueue) : Len(next.q) + m \in 1 .. Len(f)
    BY <1>5, <1>6
  <2> QED
    BY <1>6, <1>8, <2>1
<1> QED
  BY <1>8, <1>9, <1>10, <1>11

(* A write that waits has its payload among those accepted.                    *)
WasSent ==
  \A w \in Write : write[w].st = "waiting" => \E k \in 1 .. Len(sent) : sent[k] = w

Places == PromiseTyped /\ OnePlace /\ WasSent

\* The progress of one write changes.
LEMMA OneAdvances ==
  ASSUME Inv, NEW w \in Write, NEW st, NEW n,
         \/ write' = [write EXCEPT ![w].st = st]
         \/ write' = [write EXCEPT ![w] = [st |-> st, left |-> n]]
  PROVE  write'[w].st = st /\ \A v \in Write \ {w} : write'[v] = write[v]
<1>1. write \in [Write -> Progress]
  BY DEF Inv, Typed
<1>2. write[w] \in Progress
  BY <1>1
<1>3. PICK p : p.st = st /\ write' = [write EXCEPT ![w] = p]
  <2>1. [write[w] EXCEPT !.st = st].st = st
    BY <1>2 DEF Progress
  <2>2. [st |-> st, left |-> n].st = st
    OBVIOUS
  <2> QED
    BY <2>1, <2>2
<1> QED
  BY <1>1, <1>3

\* A write starts to wait for a promise that may settle yet.
LEMMA AwaitQueues ==
  ASSUME Inv, PromiseTyped, NEW w \in Write, NEW n, AwaitNext(w, n), next.st = "pending"
  PROVE  /\ next' \in [st : {"pending", "rejected"}, q : Seq(Write)]
         /\ next'.st = "pending" /\ next'.q = Append(next.q, w)
         /\ write'[w] = [st |-> "waiting", left |-> n]
         /\ \A v \in Write \ {w} : write'[v] = write[v]
<1>1. write \in [Write -> Progress] /\ write' = [write EXCEPT ![w] = [st |-> "waiting", left |-> n]]
  BY DEF Inv, Typed, AwaitNext
<1>2. next' = [next EXCEPT !.q = Append(next.q, w)]
  BY DEF AwaitNext
<1>3. next \in [st : {"pending", "rejected"}, q : Seq(Write)]
  BY DEF PromiseTyped
<1>4. Append(next.q, w) \in Seq(Write)
  BY <1>3, AppendProperties
<1> QED
  BY <1>1, <1>2, <1>3, <1>4

\* The payloads accepted stay accepted.
LEMMA SentStays ==
  ASSUME Inv, WasSent, NEW w, sent' = sent \/ (w \in Write /\ sent' = Append(sent, w)),
         \A v \in Write : write'[v].st = "waiting" =>
                            write[v].st = "waiting" \/ (v = w /\ sent' = Append(sent, w))
  PROVE  WasSent'
<1>1. sent \in Seq(Write) /\ Len(sent) \in Nat
  BY DEF Inv, Typed
<1>2. CASE sent' = sent
  <2>1. sent # Append(sent, w) \/ w \notin Write
    BY <1>1, AppendProperties
  <2>2. ASSUME NEW v \in Write, write'[v].st = "waiting"
        PROVE  \E k \in 1 .. Len(sent') : sent'[k] = v
    <3>1. write[v].st = "waiting"
      BY <1>2, <2>1, <2>2
    <3> QED
      BY <1>2, <3>1 DEF WasSent
  <2> QED
    BY <2>2 DEF WasSent
<1>3. CASE w \in Write /\ sent' = Append(sent, w)
  <2>1. /\ Len(sent') = Len(sent) + 1 /\ sent'[Len(sent) + 1] = w
        /\ \A k \in 1 .. Len(sent) : sent'[k] = sent[k] /\ k \in 1 .. Len(sent')
        /\ Len(sent) + 1 \in 1 .. Len(sent')
    BY <1>1, <1>3, AppendProperties
  <2>2. ASSUME NEW v \in Write, write'[v].st = "waiting"
        PROVE  \E k \in 1 .. Len(sent') : sent'[k] = v
    <3>1. CASE v = w
      BY <2>1, <3>1
    <3>2. CASE v # w
      <4>1. PICK k \in 1 .. Len(sent) : sent[k] = v
        BY <2>2, <3>2 DEF WasSent
      <4> QED
        BY <2>1, <4>1
    <3> QED
      BY <3>1, <3>2
  <2> QED
    BY <2>2 DEF WasSent
<1> QED
  BY <1>2, <1>3

\* No microtask is added.
LEMMA NoMove ==
  ASSUME PromiseTyped, jobs' = jobs
  PROVE  Moved(0, << >>)
<1>1. jobs \in Seq(Job) /\ Len(jobs) \in Nat
  BY DEF PromiseTyped
<1>2. << >> \in Seq(Job) /\ Len(<< >>) = 0
  BY EmptySeq
<1> QED
  BY <1>1, <1>2 DEF Moved

\* A microtask is added.
LEMMA OneMove ==
  ASSUME PromiseTyped, NEW j \in Job, jobs' = Append(jobs, j)
  PROVE  Moved(0, << j >>)
<1>1. jobs \in Seq(Job) /\ << j >> \in Seq(Job)
  BY DEF PromiseTyped
<1>2. jobs' = jobs \o << j >>
  BY <1>1, AppendIsConcat
<1> QED
  BY <1>1, <1>2, Added

\* write() that is refused, and close(), change the place of no write.
LEMMA RefusePlaces ==
  ASSUME Inv, Places, NEW w \in Write, Refuse(w)
  PROVE  Places'
<1>1. write[w].st = "new" /\ UNCHANGED <<mode, next, sent, jobs>>
  BY DEF Refuse
<1>2. write'[w].st = "rejected" /\ \A v \in Write \ {w} : write'[v] = write[v]
  BY OneAdvances DEF Refuse
<1>3. \A v \in Write : write'[v].st = "waiting" <=> write[v].st = "waiting"
  BY <1>1, <1>2
<1>4. Moved(0, << >>) /\ Len(<< >>) = 0 /\ 0 \in Int
  BY <1>1, NoMove, EmptySeq DEF Places
<1>5. OnePlace'
  <2>3. PICK e : e = << >> /\ Moved(0, e)
    BY <1>4
  <2>1. PICK d \in Int : d = 0 /\ Moved(d, e)
    BY <2>3
  <2>2. d # 1 /\ \A m \in 1 .. Len(e) : FALSE
    BY <1>4, <2>1, <2>3
  <2> QED
    BY <1>1, <1>3, <2>1, <2>2, PlacesStay DEF Places
<1>6. PromiseTyped'
  BY <1>1 DEF Places, PromiseTyped
<1>7. WasSent'
  BY <1>1, <1>3, SentStays DEF Places
<1> QED
  BY <1>5, <1>6, <1>7 DEF Places

\* write() that waits.
LEMMA WriteWaits ==
  ASSUME Inv, Places, NEW w \in Write, NEW n, AwaitNext(w, n), mode = "open",
         write[w].st = "new", sent' = Append(sent, w), mode' = mode,
         NEW e, Moved(0, e), \A m \in 1 .. Len(e) : ~IsWake(e[m])
  PROVE  Places'
<1>1. next.st = "pending"
  BY DEF Places, PromiseTyped
<1>2. /\ next' \in [st : {"pending", "rejected"}, q : Seq(Write)]
      /\ next'.st = "pending" /\ next'.q = Append(next.q, w)
      /\ write'[w] = [st |-> "waiting", left |-> n]
      /\ \A v \in Write \ {w} : write'[v] = write[v]
  BY <1>1, AwaitQueues DEF Places
<1>3. write[w].st # "waiting" /\ write'[w].st = "waiting"
  BY <1>2
<1>4. OnePlace'
  <2>1. PICK d \in Int : d = 0 /\ Moved(d, e)
    OBVIOUS
  <2> QED
    BY <1>2, <1>3, <2>1, PlacesQueue DEF Places
<1>5. PromiseTyped'
  BY <1>2 DEF Places, PromiseTyped, Moved
<1>6. WasSent'
  BY <1>2, SentStays DEF Places
<1> QED
  BY <1>4, <1>5, <1>6 DEF Places

\* write() that is queued.
LEMMA EnqueuePlaces ==
  ASSUME Inv, Places, NEW w \in Write, Enqueue(w)
  PROVE  Places'
<1>1. /\ AwaitNext(w, Limit(writeQueue')) /\ mode = "open" /\ mode' = mode
      /\ write[w].st = "new" /\ sent' = Append(sent, w) /\ jobs' = jobs
  BY DEF Enqueue
<1>2. Moved(0, << >>) /\ \A m \in 1 .. Len(<< >>) : FALSE
  BY <1>1, NoMove, EmptySeq DEF Places
<1>3. PICK e : e = << >> /\ Moved(0, e) /\ \A m \in 1 .. Len(e) : ~IsWake(e[m])
  BY <1>2
<1> QED
  BY <1>1, <1>3, WriteWaits

\* write() that answers a read.
LEMMA HandOverPlaces ==
  ASSUME Inv, Places, NEW w \in Write, HandOver(w)
  PROVE  Places'
<1>1. /\ mode = "open" /\ mode' = mode /\ write[w].st = "new" /\ sent' = Append(sent, w)
      /\ jobs' = Append(jobs, Answer(Head(readQueue))) /\ readQueue # << >>
  BY DEF HandOver
<1>2. Head(readQueue) \in Nat
  <2>1. readQueue \in Seq(Nat)
    BY DEF Inv, Typed
  <2> QED
    BY <1>1, <2>1, HeadTailProperties
<1>3. PICK j \in Job : jobs' = Append(jobs, j) /\ ~IsWake(j)
  BY <1>1, <1>2, MadeJobs
<1>4. PICK e : Moved(0, e) /\ \A m \in 1 .. Len(e) : ~IsWake(e[m])
  <2>1. Moved(0, << j >>)
    BY <1>3, OneMove DEF Places
  <2>2. Len(<< j >>) = 1 /\ << j >>[1] = j /\ \A m \in 1 .. 1 : m = 1
    OBVIOUS
  <2> QED
    BY <1>3, <2>1, <2>2
<1>5. CASE readQueue' # << >>
  <2>1. write' = [write EXCEPT ![w].st = "resolved"] /\ next' = next
    BY <1>5 DEF HandOver
  <2>2. write'[w].st = "resolved" /\ \A v \in Write \ {w} : write'[v] = write[v]
    BY <2>1, OneAdvances
  <2>3. \A v \in Write : write'[v].st = "waiting" <=> write[v].st = "waiting"
    BY <1>1, <2>2
  <2>4. PICK d \in Int : d # 1 /\ Moved(d, e)
    BY <1>4
  <2>5. OnePlace'
    BY <1>4, <2>1, <2>3, <2>4, PlacesStay DEF Places
  <2>6. PromiseTyped'
    BY <1>1, <1>4, <2>1 DEF Places, PromiseTyped, Moved
  <2>7. WasSent'
    BY <1>1, <2>3, SentStays DEF Places
  <2> QED
    BY <2>5, <2>6, <2>7 DEF Places
<1>6. CASE readQueue' = << >>
  <2>1. AwaitNext(w, Limit(writeQueue))
    BY <1>6 DEF HandOver
  <2> QED
    BY <1>1, <1>4, <2>1, WriteWaits
<1> QED
  BY <1>5, <1>6

\* close() answers reads only.
LEMMA ClosePlaces ==
  ASSUME Inv, Places, Close
  PROVE  Places'
<1>1. UNCHANGED <<next, write, sent>> /\ jobs' = jobs \o DrainJobs
  BY DEF Close
<1>2. /\ DrainJobs \in Seq(Job) /\ Len(DrainJobs) = Len(readQueue)
      /\ \A m \in 1 .. Len(readQueue) : DrainJobs[m] = Answer(readQueue[m])
      /\ \A m \in 1 .. Len(readQueue) : readQueue[m] \in Nat
  BY DrainAnswers
<1>3. PICK e : Moved(0, e) /\ \A m \in 1 .. Len(e) : ~IsWake(e[m])
  <2>1. Moved(0, DrainJobs)
    BY <1>1, <1>2, Added DEF Places
  <2>2. \A m \in 1 .. Len(DrainJobs) : ~IsWake(DrainJobs[m])
    BY <1>2, MadeJobs
  <2> QED
    BY <2>1, <2>2
<1>8. PICK d \in Int : d # 1 /\ Moved(d, e)
  BY <1>3
<1>4. \A v \in Write : write'[v].st = "waiting" <=> write[v].st = "waiting"
  BY <1>1
<1>5. OnePlace'
  BY <1>1, <1>3, <1>4, <1>8, PlacesStay DEF Places
<1>6. PromiseTyped'
  <2>1. next.st = "rejected" => mode' = "cancelled" /\ next.q = << >>
    BY DEF Places, PromiseTyped, Close
  <2> QED
    BY <1>1, <1>3, <2>1 DEF Places, PromiseTyped, Moved
<1>7. WasSent'
  BY <1>1, SentStays DEF Places
<1> QED
  BY <1>5, <1>6, <1>7 DEF Places

\* next() wakes the writes that wait.
LEMMA NextCallPlaces ==
  ASSUME Inv, Places, NextCall
  PROVE  Places'
<1>1. PICK e \in Seq(Job), r \in Read :
        /\ Moved(0, e) /\ next' = Unresolved /\ UNCHANGED <<mode, write, sent>>
        /\ Len(next.q) <= Len(e)
        /\ \A m \in 1 .. Len(e) :
             IF m <= Len(next.q) THEN e[m] = Wake(next.q[m], TRUE)
             ELSE e[m] = Answer(Len(reads) + 1) /\ m = Len(next.q) + 1 /\ r.answered
  BY NextCallMoves DEF Places
<1>2. /\ next' \in [st : {"pending", "rejected"}, q : Seq(Write)]
      /\ next'.st = "pending" /\ next'.q = << >>
  BY <1>1, EmptySeq DEF Unresolved
<1>3. /\ next.q \in Seq(Write) /\ Len(next.q) \in Nat /\ Len(reads) + 1 \in Nat
      /\ Len(e) \in Nat
  BY DEF Places, PromiseTyped, Inv, Typed
<1>4. ASSUME NEW m \in 1 .. Len(e)
      PROVE  IF m <= Len(next.q) THEN IsWake(e[m]) /\ e[m].w = next.q[m] ELSE ~IsWake(e[m])
  <2>1. m <= Len(next.q) => m \in 1 .. Len(next.q)
    BY <1>3
  <2>2. m <= Len(next.q) => next.q[m] \in Write
    BY <1>3, <2>1
  <2>3. CASE m <= Len(next.q)
    BY <1>1, <2>2, <2>3, MadeJobs
  <2>4. CASE ~(m <= Len(next.q))
    BY <1>1, <1>3, <2>4, MadeJobs
  <2> QED
    BY <2>3, <2>4
<1>5. OnePlace'
  BY <1>1, <1>2, <1>4, PlacesSettle DEF Places
<1>6. PromiseTyped'
  BY <1>1, <1>2 DEF PromiseTyped, Moved
<1>7. WasSent'
  BY <1>1, SentStays DEF Places
<1> QED
  BY <1>5, <1>6, <1>7 DEF Places

\* So do throw() and return().
LEMMA StopPlaces ==
  ASSUME Inv, Places, NEW ok \in BOOLEAN, Stop(ok)
  PROVE  Places'
<1>1. PICK e \in Seq(Job) :
        /\ Moved(0, e) /\ Len(e) = Len(next.q) + Len(readQueue) + 1
        /\ \A m \in 1 .. Len(next.q) : e[m] = Wake(next.q[m], ok)
        /\ \A m \in 1 .. Len(readQueue) : e[Len(next.q) + m] = Answer(readQueue[m])
        /\ e[Len(e)] = Stopped
  BY StopMoves DEF Places
<1>2. /\ next' = Refusing /\ mode' = "cancelled" /\ UNCHANGED <<write, sent>>
      /\ next' \in [st : {"pending", "rejected"}, q : Seq(Write)]
      /\ next'.q = << >>
  <2>1. next' = Refusing /\ mode' = "cancelled" /\ UNCHANGED <<write, sent>>
    BY DEF Stop
  <2> QED
    BY <2>1, EmptySeq DEF Refusing
<1>3. /\ next.q \in Seq(Write) /\ Len(next.q) \in Nat /\ Len(readQueue) \in Nat
      /\ readQueue \in Seq(Nat)
  BY DEF Places, PromiseTyped, Inv, Typed
<1>4. ASSUME NEW m \in 1 .. Len(e)
      PROVE  IF m <= Len(next.q) THEN IsWake(e[m]) /\ e[m].w = next.q[m] ELSE ~IsWake(e[m])
  <2>1. CASE m <= Len(next.q)
    <3>1. m \in 1 .. Len(next.q) /\ next.q[m] \in Write
      BY <1>3, <2>1
    <3> QED
      BY <1>1, <2>1, <3>1, MadeJobs
  <2>2. CASE ~(m <= Len(next.q)) /\ m # Len(e)
    <3> DEFINE i == m - Len(next.q)
    <3>1. i \in 1 .. Len(readQueue) /\ Len(next.q) + i = m
      BY <1>1, <1>3, <2>2
    <3> HIDE DEF i
    <3>2. e[m] = Answer(readQueue[i]) /\ readQueue[i] \in Nat
      <4>1. e[Len(next.q) + i] = Answer(readQueue[i])
        BY <1>1, <3>1
      <4>2. readQueue[i] \in Nat
        BY <1>3, <3>1
      <4> QED
        BY <3>1, <4>1, <4>2
    <3> QED
      BY <2>2, <3>2, MadeJobs
  <2>3. CASE ~(m <= Len(next.q)) /\ m = Len(e)
    BY <1>1, <2>3, MadeJobs
  <2> QED
    BY <2>1, <2>2, <2>3
<1>5. OnePlace'
  <2>1. Len(next.q) <= Len(e)
    BY <1>1, <1>3
  <2> QED
    BY <1>1, <1>2, <1>4, <2>1, PlacesSettle DEF Places
<1>6. PromiseTyped'
  BY <1>1, <1>2 DEF PromiseTyped, Moved
<1>7. WasSent'
  BY <1>2, SentStays DEF Places
<1> QED
  BY <1>5, <1>6, <1>7 DEF Places

\* The microtask that runs first, when it is one after an await.
LEMMA Resumed ==
  ASSUME Inv, Places, Resume
  PROVE  \E w \in Write, ok \in BOOLEAN :
           /\ Len(jobs) > 0 /\ jobs[1] = Wake(w, ok) /\ IsWake(jobs[1]) /\ jobs[1].w = w
           /\ jobs[1].ok = ok /\ write[w].st = "waiting"
           /\ UNCHANGED <<readQueue, writeQueue, mode, reads, sent>>
           /\ \/ /\ ok => write[w].left = 1
                 /\ next' = next /\ Moved(1, << >>)
                 /\ write' = [write EXCEPT ![w].st = IF ok THEN "resolved" ELSE "rejected"]
              \/ /\ ok /\ write[w].left > 1
                 /\ AwaitNext(w, write[w].left - 1) /\ next.st = "pending"
                 /\ Moved(1, << >>)
              \/ /\ ok /\ AwaitNext(w, write[w].left - 1) /\ next.st = "rejected"
                 /\ Moved(1, << Wake(w, FALSE) >>)
<1>1. jobs # << >> /\ Head(jobs).t = "wake" /\ jobs \in Seq(Job) /\ Len(jobs) \in Nat
  BY DEF Resume, Places, PromiseTyped
<1>2. Len(jobs) > 0 /\ Head(jobs) = jobs[1] /\ jobs[1] \in Job /\ 1 \in 1 .. Len(jobs)
  BY <1>1
<1>3. PICK w \in Write, ok \in BOOLEAN : jobs[1] = Wake(w, ok)
  <2>1. IsWake(jobs[1])
    BY <1>1, <1>2 DEF IsWake
  <2>2. jobs[1] \in [t : {"wake"}, w : Write, ok : BOOLEAN]
    BY <1>2, <2>1 DEF Job, IsWake, Stopped
  <2> QED
    BY <2>2 DEF Wake
<1>4. IsWake(jobs[1]) /\ jobs[1].w = w /\ jobs[1].ok = ok
  BY <1>3, MadeJobs
<1>5. write[w].st = "waiting"
  <2>1. Due(w)
    BY <1>2, <1>4 DEF Due
  <2> QED
    BY <2>1 DEF Places, OnePlace
<1>6. UNCHANGED <<readQueue, writeQueue, mode, reads, sent>>
  BY DEF Resume
<1>7. next.st \in {"pending", "rejected"}
  BY DEF Places, PromiseTyped
<1>8. write[w].left \in Int
  BY DEF Inv, Typed, Progress
<1>9. Head(jobs).w = w /\ Head(jobs).ok = ok
  BY <1>2, <1>4
<1>10. \/ /\ ok => write[w].left = 1
          /\ write' = [write EXCEPT ![w].st = IF ok THEN "resolved" ELSE "rejected"]
          /\ next' = next /\ jobs' = Tail(jobs)
       \/ /\ ok /\ write[w].left > 1 /\ AwaitNext(w, write[w].left - 1)
          /\ jobs' = IF next.st = "rejected" THEN Append(Tail(jobs), Wake(w, FALSE))
                     ELSE Tail(jobs)
  <2>1. \/ /\ ~Head(jobs).ok /\ write' = [write EXCEPT ![Head(jobs).w].st = "rejected"]
           /\ next' = next /\ jobs' = Tail(jobs)
        \/ /\ Head(jobs).ok /\ write[Head(jobs).w].left - 1 = 0
           /\ write' = [write EXCEPT ![Head(jobs).w].st = "resolved"]
           /\ next' = next /\ jobs' = Tail(jobs)
        \/ /\ Head(jobs).ok /\ write[Head(jobs).w].left - 1 > 0
           /\ AwaitNext(Head(jobs).w, write[Head(jobs).w].left - 1)
           /\ jobs' = IF next.st = "rejected" THEN Append(Tail(jobs), Wake(Head(jobs).w, FALSE))
                      ELSE Tail(jobs)
    BY DEF Resume
  <2>2. /\ write[w].left - 1 = 0 => write[w].left = 1
        /\ write[w].left - 1 > 0 => write[w].left > 1
    BY <1>8
  <2>3. CASE ok
    BY <1>9, <2>1, <2>2, <2>3
  <2>4. CASE ~ok
    BY <1>9, <2>1, <2>4
  <2> QED
    BY <2>3, <2>4
<1>11. Wake(w, FALSE) \in Job
  BY MadeJobs
<1>12. /\ jobs' = Tail(jobs) => Moved(1, << >>)
       /\ jobs' = Append(Tail(jobs), Wake(w, FALSE)) => Moved(1, << Wake(w, FALSE) >>)
  BY <1>1, <1>11, Ran, RanOn DEF Places
<1>13. \/ /\ ok => write[w].left = 1
          /\ next' = next /\ Moved(1, << >>)
          /\ write' = [write EXCEPT ![w].st = IF ok THEN "resolved" ELSE "rejected"]
       \/ /\ ok /\ write[w].left > 1
          /\ AwaitNext(w, write[w].left - 1) /\ next.st = "pending"
          /\ Moved(1, << >>)
       \/ /\ ok /\ AwaitNext(w, write[w].left - 1) /\ next.st = "rejected"
          /\ Moved(1, << Wake(w, FALSE) >>)
  BY <1>7, <1>10, <1>12
<1> QED
  BY <1>2, <1>3, <1>4, <1>5, <1>6, <1>13

\* A write that is resumed settles, awaits again, or has another microtask.
LEMMA ResumePlaces ==
  ASSUME Inv, Places, Resume
  PROVE  Places'
<1>1. PICK w \in Write, ok \in BOOLEAN :
        /\ Len(jobs) > 0 /\ IsWake(jobs[1]) /\ jobs[1].w = w /\ write[w].st = "waiting"
        /\ UNCHANGED <<mode, sent>>
        /\ \/ /\ next' = next /\ Moved(1, << >>)
              /\ write' = [write EXCEPT ![w].st = IF ok THEN "resolved" ELSE "rejected"]
           \/ /\ AwaitNext(w, write[w].left - 1) /\ next.st = "pending"
              /\ Moved(1, << >>)
           \/ /\ AwaitNext(w, write[w].left - 1) /\ next.st = "rejected"
              /\ Moved(1, << Wake(w, FALSE) >>)
  BY Resumed
<1>2. PICK none : none = << >> /\ Len(none) = 0 /\ \A m \in 1 .. Len(none) : ~IsWake(none[m])
  BY EmptySeq
<1>3. CASE /\ next' = next /\ Moved(1, << >>)
           /\ write' = [write EXCEPT ![w].st = IF ok THEN "resolved" ELSE "rejected"]
  <2>1. PICK st : /\ st \in {"resolved", "rejected"}
                  /\ write' = [write EXCEPT ![w].st = st]
    BY <1>3
  <2>2. write'[w].st = st /\ \A v \in Write \ {w} : write'[v] = write[v]
    BY <2>1, OneAdvances
  <2>3. /\ write'[w].st # "waiting"
        /\ \A v \in Write \ {w} : write'[v].st = write[v].st
    BY <2>1, <2>2
  <2>4. Moved(1, none)
    BY <1>2, <1>3
  <2>5. OnePlace'
    BY <1>1, <1>2, <1>3, <2>3, <2>4, PlacesFree DEF Places
  <2>6. PromiseTyped'
    BY <1>1, <1>3, <2>4 DEF Places, PromiseTyped, Moved
  <2>7. \A v \in Write : write'[v].st = "waiting" => write[v].st = "waiting"
    BY <1>1, <2>3
  <2>8. WasSent'
    BY <1>1, <2>7, SentStays DEF Places
  <2> QED
    BY <2>5, <2>6, <2>8 DEF Places
<1>4. CASE AwaitNext(w, write[w].left - 1) /\ next.st = "pending" /\ Moved(1, << >>)
  <2>1. /\ next' \in [st : {"pending", "rejected"}, q : Seq(Write)]
        /\ next'.st = "pending" /\ next'.q = Append(next.q, w)
        /\ write'[w] = [st |-> "waiting", left |-> write[w].left - 1]
        /\ \A v \in Write \ {w} : write'[v] = write[v]
    BY <1>4, AwaitQueues DEF Places
  <2>2. write'[w].st = "waiting" /\ \A v \in Write \ {w} : write'[v].st = write[v].st
    BY <2>1
  <2>3. Moved(1, none)
    BY <1>2, <1>4
  <2>4. PICK d \in Int : d = 1 /\ Moved(d, none)
    BY <2>3
  <2>9. /\ PromiseTyped /\ OnePlace /\ IsWake(jobs[1]) /\ jobs[1].w = w
        /\ next'.q = Append(next.q, w) /\ \A m \in 1 .. Len(none) : ~IsWake(none[m])
    BY <1>1, <1>2, <2>1 DEF Places
  <2>5. OnePlace'
    BY <2>2, <2>4, <2>9, PlacesQueue
  <2>6. PromiseTyped'
    BY <1>1, <2>1, <2>3 DEF Places, PromiseTyped, Moved
  <2>7. \A v \in Write : write'[v].st = "waiting" => write[v].st = "waiting"
    BY <1>1, <2>2
  <2>8. WasSent'
    BY <1>1, <2>7, SentStays DEF Places
  <2> QED
    BY <2>5, <2>6, <2>8 DEF Places
<1>5. CASE /\ AwaitNext(w, write[w].left - 1) /\ next.st = "rejected"
           /\ Moved(1, << Wake(w, FALSE) >>)
  <2>1. PICK j \in Job : Moved(1, << j >>) /\ IsWake(j) /\ j.w = w
    <3>1. Wake(w, FALSE) \in Job /\ IsWake(Wake(w, FALSE)) /\ Wake(w, FALSE).w = w
      BY MadeJobs
    <3> QED
      BY <1>5, <3>1
  <2>2. next' = next /\ write' = [write EXCEPT ![w] = [st |-> "waiting", left |-> write[w].left - 1]]
    BY <1>5 DEF AwaitNext
  <2>3. write'[w].st = "waiting" /\ \A v \in Write \ {w} : write'[v] = write[v]
    BY <2>2, OneAdvances
  <2>4. \A v \in Write : write'[v].st = write[v].st
    BY <1>1, <2>3
  <2>5. OnePlace'
    BY <1>1, <2>1, <2>2, <2>4, PlacesAgain DEF Places
  <2>6. PromiseTyped'
    BY <1>1, <2>1, <2>2 DEF Places, PromiseTyped, Moved
  <2>7. WasSent'
    BY <1>1, <2>4, SentStays DEF Places
  <2> QED
    BY <2>5, <2>6, <2>7 DEF Places
<1> QED
  BY <1>1, <1>3, <1>4, <1>5

\* An answer that is received is of no write.
LEMMA ReceivePlaces ==
  ASSUME Inv, Places, Receive
  PROVE  Places'
<1>1. /\ jobs # << >> /\ Head(jobs).t # "wake" /\ jobs' = Tail(jobs)
      /\ UNCHANGED <<mode, next, write, sent>>
  BY DEF Receive
<1>2. Moved(1, << >>) /\ Len(jobs) > 0 /\ Head(jobs) = jobs[1]
  BY <1>1, Ran DEF Places
<1>3. PICK none : none = << >> /\ Len(none) = 0 /\ \A m \in 1 .. Len(none) : ~IsWake(none[m])
  BY EmptySeq
<1>4. PICK d \in Int : d = 1 /\ Moved(d, none)
  BY <1>2, <1>3
<1>5. ~IsWake(jobs[1]) /\ \A v \in Write : write'[v].st = "waiting" <=> write[v].st = "waiting"
  BY <1>1, <1>2 DEF IsWake
<1>6. OnePlace'
  BY <1>1, <1>3, <1>4, <1>5, PlacesStay DEF Places
<1>7. PromiseTyped'
  BY <1>1, <1>4 DEF Places, PromiseTyped, Moved
<1>8. WasSent'
  BY <1>1, SentStays DEF Places
<1> QED
  BY <1>6, <1>7, <1>8 DEF Places

\* Each step keeps every write that waits in one place.
LEMMA StepPlaces ==
  ASSUME Inv, Places, [Next]_vars
  PROVE  Places'
<1>1. ASSUME NEW w \in Write, WriteCall(w)
      PROVE  Places'
  BY <1>1, RefusePlaces, EnqueuePlaces, HandOverPlaces DEF WriteCall
<1>2. CASE Throw \/ Return
  <2>1. PICK ok \in BOOLEAN : Stop(ok)
    BY <1>2 DEF Throw, Return
  <2> QED
    BY <2>1, StopPlaces
<1>3. CASE UNCHANGED vars
  <2>1. UNCHANGED <<next, jobs, mode, write, sent>>
    BY <1>3 DEF vars
  <2>2. /\ \A w \in Write : Queued(w)' <=> Queued(w)
        /\ \A w \in Write : Due(w)' <=> Due(w)
    BY <2>1 DEF Queued, Due
  <2> QED
    BY <2>1, <2>2 DEF Places, PromiseTyped, OnePlace, WasSent
<1> QED
  BY <1>1, <1>2, <1>3, ClosePlaces, NextCallPlaces, ResumePlaces, ReceivePlaces DEF Next

\* At first no write waits.
LEMMA InitPlaces ==
  ASSUME Init
  PROVE  Places
<1>1. /\ next = Unresolved /\ jobs = << >>
      /\ write = [w \in Write |-> [st |-> "new", left |-> 0]]
  BY DEF Init
<1>2. /\ << >> \in Seq(Job) /\ << >> \in Seq(Write) /\ Len(<< >>) = 0
  BY EmptySeq
<1>3. next \in [st : {"pending", "rejected"}, q : Seq(Write)] /\ next.st = "pending" /\ next.q = << >>
  BY <1>1, <1>2 DEF Unresolved
<1>4. PromiseTyped
  BY <1>1, <1>2, <1>3 DEF PromiseTyped
<1>5. ASSUME NEW w \in Write
      PROVE  ~Queued(w) /\ ~Due(w) /\ write[w].st = "new"
  <2>1. write[w].st = "new"
    BY <1>1
  <2>2. Len(next.q) = 0 /\ Len(jobs) = 0 /\ \A i \in 1 .. 0 : FALSE
    BY <1>1, <1>2, <1>3
  <2> QED
    BY <2>1, <2>2 DEF Queued, Due
<1>6. OnePlace
  BY <1>1, <1>2, <1>3, <1>5 DEF OnePlace
<1> QED
  BY <1>4, <1>5, <1>6 DEF Places, WasSent

(* What a read was answered with is the payload of its number.                 *)
InOrder ==
  mode # "cancelled" => \A n \in 1 .. Given : n <= Len(sent) => reads[n].value = sent[n]

\* The answers given stay, and those added are known from the channel.
LEMMA AnswersGrow ==
  ASSUME Inv, Inv', [Channel!Next]_(Channel!vars)
  PROVE  /\ Given <= Given' /\ Given \in Nat /\ Given' \in Nat
         /\ \A n \in 1 .. Given : reads'[n].value = reads[n].value
         /\ \/ UNCHANGED <<mode, sent>> /\ Given' = Given
            \/ \A i \in Given + 1 .. Given' :
                 reads'[i].value = IF i <= Len(sent') /\ mode' # "cancelled" THEN sent'[i] ELSE Done
<1> DEFINE a == Seen(reads, readQueue)
           b == Seen(reads', readQueue')
<1>1. /\ Given \in Nat /\ Len(a) = Given /\ a \in Seq(Write \cup {Done})
      /\ \A n \in 1 .. Given : a[n] = reads[n].value
  BY Answers DEF Inv, Typed, ReadQueueIsRest, Given
<1>2. /\ Given' \in Nat /\ Len(b) = Given' /\ b \in Seq(Write \cup {Done})
      /\ \A n \in 1 .. Given' : b[n] = reads'[n].value
  BY Answers DEF Inv, Typed, ReadQueueIsRest, Given
<1>3. CASE UNCHANGED Channel!vars
  <2>1. b = a /\ UNCHANGED <<mode, sent>>
    BY <1>3 DEF Channel!vars, Seen
  <2> HIDE DEF a, b
  <2> QED
    BY <1>1, <1>2, <2>1
<1>4. CASE Channel!Settled
  <2>1. /\ Channel!IsPrefix(a, b)
        /\ \A i \in Len(a) + 1 .. Len(b) :
             b[i] = IF i <= Len(sent') /\ mode' # "cancelled" THEN sent'[i] ELSE Done
    BY <1>4 DEF Channel!Settled, Seen
  <2> HIDE DEF a, b
  <2>2. Len(a) <= Len(b) /\ \A n \in 1 .. Len(a) : a[n] = b[n]
    <3>1. Len(a) <= Len(b) /\ SubSeq(a, 1, Len(a)) = SubSeq(b, 1, Len(a))
      BY <1>1, <1>2, <2>1 DEF Channel!IsPrefix
    <3> QED
      BY <1>1, <1>2, <3>1
  <2>3. Given <= Given' /\ \A n \in 1 .. Given : n \in 1 .. Given'
    BY <1>1, <1>2, <2>2
  <2>4. \A n \in 1 .. Given : reads'[n].value = reads[n].value
    BY <1>1, <1>2, <2>2, <2>3
  <2>5. ASSUME NEW i \in Given + 1 .. Given'
        PROVE  reads'[i].value = IF i <= Len(sent') /\ mode' # "cancelled" THEN sent'[i] ELSE Done
    <3>1. i \in 1 .. Given'
      BY <1>1, <1>2
    <3> QED
      BY <1>1, <1>2, <2>1, <3>1
  <2> QED
    BY <1>1, <1>2, <2>3, <2>4, <2>5
<1> QED
  BY <1>3, <1>4 DEF Channel!Next, Channel!Ask, Channel!Close, Channel!Cancel, Channel!Send

\* Reads are answered with the payloads in order, until the consumer cancels.
LEMMA StepInOrder ==
  ASSUME Inv, Inv', InOrder, [Channel!Next]_(Channel!vars)
  PROVE  InOrder'
<1> SUFFICES ASSUME mode' # "cancelled", NEW n \in 1 .. Given', n <= Len(sent')
             PROVE  reads'[n].value = sent'[n]
  BY DEF InOrder
<1>1. /\ Given <= Given' /\ Given \in Nat /\ Given' \in Nat
      /\ \A i \in 1 .. Given : reads'[i].value = reads[i].value
      /\ \/ UNCHANGED <<mode, sent>> /\ Given' = Given
         \/ \A i \in Given + 1 .. Given' :
              reads'[i].value = IF i <= Len(sent') /\ mode' # "cancelled" THEN sent'[i] ELSE Done
  BY AnswersGrow
<1>2. mode # "cancelled" /\ (sent' = sent \/ (mode = "open" /\ \E w \in Write : sent' = Append(sent, w)))
  BY DEF Channel!Next, Channel!Ask, Channel!Close, Channel!Cancel, Channel!Send, Channel!vars
<1>3. CASE n > Given
  BY <1>1, <1>3
<1>4. CASE n <= Given
  <2>1. n \in 1 .. Given
    BY <1>1, <1>4
  <2>2. n <= Len(sent) /\ sent'[n] = sent[n]
    <3>1. CASE sent' = sent
      BY <3>1
    <3>2. CASE mode = "open" /\ \E w \in Write : sent' = Append(sent, w)
      <4>1. Taken = Given /\ Taken <= Len(sent) /\ Len(sent) \in Nat /\ sent \in Seq(Write)
        BY <3>2, Lengths DEF Inv, Typed, WriteQueueIsRest, Taken
      <4>2. n \in 1 .. Len(sent)
        BY <1>1, <2>1, <4>1
      <4> QED
        BY <3>2, <4>1, <4>2, AppendProperties
    <3> QED
      BY <1>2, <3>1, <3>2
  <2> QED
    BY <1>1, <1>2, <2>1, <2>2 DEF InOrder
<1> QED
  BY <1>1, <1>3, <1>4

\* A payload that a read has stays with it.
LEMMA DeliveredStays ==
  ASSUME Inv, Inv', [Channel!Next]_(Channel!vars), NEW w, Delivered(w)
  PROVE  Delivered(w)'
<1>1. /\ Given <= Given' /\ Given \in Nat /\ Given' \in Nat
      /\ \A n \in 1 .. Given : reads'[n].value = reads[n].value
  BY AnswersGrow
<1>2. PICK n \in 1 .. Len(reads) : reads[n].answered /\ reads[n].value = w
  BY DEF Delivered
<1>3. n \in 1 .. Given
  BY <1>1, <1>2 DEF Inv, ReadQueueIsRest
<1>4. Given' <= Len(reads') /\ Len(reads') \in Nat
  BY Lengths DEF Inv, Typed, ReadQueueIsRest, Given
<1>5. n \in 1 .. Len(reads') /\ n <= Given'
  BY <1>1, <1>3, <1>4
<1>6. reads'[n].answered
  BY <1>5 DEF Inv, ReadQueueIsRest
<1> QED
  BY <1>1, <1>2, <1>3, <1>5, <1>6 DEF Delivered

\* A payload has answered its read as soon as that read was made.
LEMMA AskedIsDelivered ==
  ASSUME Inv, InOrder, mode # "cancelled", NEW k \in 1 .. Len(sent), k <= Len(reads)
  PROVE  Delivered(sent[k])
<1>1. /\ Len(readQueue) \in Nat /\ Len(writeQueue) \in Nat /\ Len(sent) \in Nat
      /\ Len(reads) \in Nat /\ Given \in 0 .. Len(reads) /\ Taken \in Int
      /\ readQueue = << >> => Given = Len(reads)
      /\ writeQueue = << >> => Taken = Len(sent)
  BY Lengths
<1>2. k <= Given
  <2>1. CASE readQueue = << >>
    BY <1>1, <2>1
  <2>2. CASE readQueue # << >>
    <3>1. mode = "open" /\ writeQueue = << >>
      BY <2>2 DEF Inv, ReadQueueIsRest
    <3>2. Taken = Given
      BY <3>1 DEF Inv, WriteQueueIsRest
    <3> QED
      BY <1>1, <3>1, <3>2
  <2> QED
    BY <2>1, <2>2
<1>3. k \in 1 .. Given /\ k \in 1 .. Len(reads) /\ k <= Len(sent)
  BY <1>1, <1>2
<1>4. reads[k].value = sent[k] /\ reads[k].answered
  BY <1>2, <1>3 DEF InOrder, Inv, ReadQueueIsRest
<1> QED
  BY <1>3, <1>4 DEF Delivered

-----------------------------------------------------------------------------
(* With a consumer that awaits each answer, all reads but the last are seen,   *)
(* and the microtask of an answer is of the last.                              *)
OneUnseen ==
  /\ \A n \in 1 .. Len(reads) : n < Len(reads) => reads[n].seen
  /\ \A n \in 1 .. Len(reads) : reads[n].seen => reads[n].answered
  /\ \A i \in 1 .. Len(jobs) : IsAnswer(jobs[i]) =>
       /\ Len(reads) > 0 /\ jobs[i].n = Len(reads)
       /\ reads[Len(reads)].answered /\ ~reads[Len(reads)].seen
  /\ \A i, j \in 1 .. Len(jobs) : IsAnswer(jobs[i]) /\ IsAnswer(jobs[j]) => i = j

\* So at most the last read waits.
LEMMA OneWaits ==
  ASSUME Inv, OneUnseen, readQueue # << >>
  PROVE  /\ Len(reads) > 0 /\ Len(readQueue) = 1 /\ readQueue[1] = Len(reads)
         /\ Given = Len(reads) - 1 /\ ~reads[Len(reads)].answered
         /\ \A i \in 1 .. Len(jobs) : ~IsAnswer(jobs[i])
<1>1. /\ Len(readQueue) \in Nat /\ Len(reads) \in Nat /\ Given < Len(reads) /\ Given \in Nat
      /\ Given = Len(reads) - Len(readQueue)
  BY Lengths DEF Given
<1>2. \A n \in 1 .. Len(reads) : reads[n].answered <=> n <= Given
  BY DEF Inv, ReadQueueIsRest
<1>3. Given = Len(reads) - 1
  <2>1. CASE Given + 1 < Len(reads)
    <3>1. Given + 1 \in 1 .. Len(reads) /\ ~(Given + 1 <= Given)
      BY <1>1
    <3>2. reads[Given + 1].answered
      BY <2>1, <3>1 DEF OneUnseen
    <3> QED
      BY <1>2, <3>1, <3>2
  <2> QED
    BY <1>1, <2>1
<1>4. Len(readQueue) = 1 /\ readQueue[1] = Len(reads)
  <2>0. Len(readQueue) = 1
    <3>1. PICK a \in Nat, b \in Nat : a = Len(readQueue) /\ b = Len(reads) /\ b - a = b - 1
      BY <1>1, <1>3
    <3>2. a = 1
      BY <3>1
    <3> QED
      BY <3>1, <3>2
  <2>1. 1 \in 1 .. Len(readQueue) /\ Given + 1 = Len(reads)
    BY <1>1, <1>3, <2>0
  <2>2. readQueue[1] = Given + 1
    BY <2>1 DEF Inv, ReadQueueIsRest
  <2> QED
    BY <2>0, <2>1, <2>2
<1>5. Len(reads) \in 1 .. Len(reads) /\ ~(Len(reads) <= Given)
  BY <1>1
<1>6. ~reads[Len(reads)].answered
  BY <1>2, <1>5
<1> QED
  BY <1>1, <1>3, <1>4, <1>6 DEF OneUnseen

\* The reads stay as they are, and no answer is added.
LEMMA UnseenStays ==
  ASSUME Inv, PromiseTyped, OneUnseen, reads' = reads, NEW d \in Int, NEW e, Moved(d, e),
         \A m \in 1 .. Len(e) : ~IsAnswer(e[m])
  PROVE  OneUnseen'
<1>1. ASSUME NEW i \in 1 .. Len(jobs'), IsAnswer(jobs'[i])
      PROVE  i + d \in 1 .. Len(jobs) /\ jobs'[i] = jobs[i + d]
  BY <1>1, MoveCases
<1>2. ASSUME NEW i \in 1 .. Len(jobs'), NEW j \in 1 .. Len(jobs'),
             IsAnswer(jobs'[i]), IsAnswer(jobs'[j])
      PROVE  i = j
  <2>1. /\ i + d \in 1 .. Len(jobs) /\ j + d \in 1 .. Len(jobs)
        /\ IsAnswer(jobs[i + d]) /\ IsAnswer(jobs[j + d])
    BY <1>1, <1>2
  <2>2. i + d = j + d
    BY <2>1 DEF OneUnseen
  <2> QED
    BY <2>2
<1>3. ASSUME NEW i \in 1 .. Len(jobs'), IsAnswer(jobs'[i])
      PROVE  /\ Len(reads) > 0 /\ jobs'[i].n = Len(reads)
             /\ reads[Len(reads)].answered /\ ~reads[Len(reads)].seen
  <2>1. i + d \in 1 .. Len(jobs) /\ jobs'[i] = jobs[i + d]
    BY <1>1, <1>3
  <2>2. IsAnswer(jobs[i + d])
    BY <1>3, <2>1
  <2>3. /\ Len(reads) > 0 /\ jobs[i + d].n = Len(reads)
        /\ reads[Len(reads)].answered /\ ~reads[Len(reads)].seen
    BY <2>1, <2>2 DEF OneUnseen
  <2> QED
    BY <2>1, <2>3
<1>4. /\ \A n \in 1 .. Len(reads') : n < Len(reads') => reads'[n].seen
      /\ \A n \in 1 .. Len(reads') : reads'[n].seen => reads'[n].answered
  BY DEF OneUnseen
<1>5. \A i \in 1 .. Len(jobs') : IsAnswer(jobs'[i]) =>
        /\ Len(reads') > 0 /\ jobs'[i].n = Len(reads')
        /\ reads'[Len(reads')].answered /\ ~reads'[Len(reads')].seen
  BY <1>3
<1> QED
  BY <1>2, <1>4, <1>5 DEF OneUnseen

\* The last read is answered, or one is added, when no answer was on its way.
LEMMA UnseenAnswers ==
  ASSUME Inv, PromiseTyped, NEW e, Moved(0, e), \A i \in 1 .. Len(jobs) : ~IsAnswer(jobs[i]),
         \A n \in 1 .. Len(reads') : n < Len(reads') => reads'[n].seen,
         \A n \in 1 .. Len(reads') : reads'[n].seen => reads'[n].answered,
         NEW x \in Nat,
         \A m \in 1 .. Len(e) : IsAnswer(e[m]) =>
           /\ m = x /\ Len(reads') > 0 /\ e[m].n = Len(reads')
           /\ reads'[Len(reads')].answered /\ ~reads'[Len(reads')].seen
  PROVE  OneUnseen'
<1>1. Len(jobs) \in Nat
  BY DEF PromiseTyped
<1>2. ASSUME NEW i \in 1 .. Len(jobs'), IsAnswer(jobs'[i])
      PROVE  /\ i = Len(jobs) + x /\ Len(reads') > 0 /\ jobs'[i].n = Len(reads')
             /\ reads'[Len(reads')].answered /\ ~reads'[Len(reads')].seen
  <2>1. PICK d \in Int : d = 0 /\ Moved(d, e)
    OBVIOUS
  <2>2. \/ i + d \in 1 .. Len(jobs) /\ jobs'[i] = jobs[i + d]
        \/ \E m \in 1 .. Len(e) : i = Len(jobs) - d + m /\ jobs'[i] = e[m]
    BY <2>1, MoveCases
  <2>3. ~(i + d \in 1 .. Len(jobs) /\ jobs'[i] = jobs[i + d])
    BY <1>2
  <2>4. PICK m \in 1 .. Len(e) : i = Len(jobs) - d + m /\ jobs'[i] = e[m]
    BY <2>2, <2>3
  <2>5. IsAnswer(e[m])
    BY <1>2, <2>4
  <2>6. /\ m = x /\ Len(reads') > 0 /\ e[m].n = Len(reads')
        /\ reads'[Len(reads')].answered /\ ~reads'[Len(reads')].seen
    BY <2>5
  <2>7. i = Len(jobs) + m
    BY <1>1, <2>1, <2>4
  <2> QED
    BY <2>4, <2>6, <2>7
<1>3. \A i \in 1 .. Len(jobs') : IsAnswer(jobs'[i]) =>
        /\ Len(reads') > 0 /\ jobs'[i].n = Len(reads')
        /\ reads'[Len(reads')].answered /\ ~reads'[Len(reads')].seen
  BY <1>2
<1>4. \A i, j \in 1 .. Len(jobs') : IsAnswer(jobs'[i]) /\ IsAnswer(jobs'[j]) => i = j
  BY <1>2
<1> QED
  BY <1>3, <1>4 DEF OneUnseen

\* write() that answers a read answers the last.
LEMMA HandOverUnseen ==
  ASSUME Inv, PromiseTyped, OneUnseen, NEW w \in Write, HandOver(w)
  PROVE  OneUnseen' /\ readQueue' = << >> /\ Len(reads') = Len(reads)
<1>1. /\ readQueue # << >> /\ readQueue' = Tail(readQueue)
      /\ reads' = [reads EXCEPT ![Head(readQueue)] = Answered(w)]
      /\ jobs' = Append(jobs, Answer(Head(readQueue)))
  BY DEF HandOver
<1>2. /\ Len(reads) > 0 /\ Len(readQueue) = 1 /\ readQueue[1] = Len(reads)
      /\ \A i \in 1 .. Len(jobs) : ~IsAnswer(jobs[i])
  BY <1>1, OneWaits
<1>3. /\ readQueue \in Seq(Nat) /\ reads \in Seq(Read) /\ Len(reads) \in Nat
  BY DEF Inv, Typed
<1>4. Head(readQueue) = Len(reads) /\ readQueue' = << >>
  <2>1. Head(readQueue) = readQueue[1]
    BY <1>2, <1>3
  <2>2. Tail(readQueue) \in Seq(Nat) /\ Len(Tail(readQueue)) = 0
    BY <1>1, <1>2, <1>3, HeadTailProperties
  <2> QED
    BY <1>1, <1>2, <2>1, <2>2
<1>5. Answered(w) \in Read /\ Answered(w).answered /\ ~Answered(w).seen
  BY DEF Answered, Read
<1>6. /\ Len(reads') = Len(reads) /\ reads'[Len(reads)] = Answered(w)
      /\ \A n \in 1 .. Len(reads) : n # Len(reads) => reads'[n] = reads[n]
  <2>1. Len(reads) \in 1 .. Len(reads)
    BY <1>2, <1>3
  <2>2. PICK n \in 1 .. Len(reads) : n = Len(reads) /\ reads' = [reads EXCEPT ![n] = Answered(w)]
    BY <1>1, <1>4, <2>1
  <2>3. /\ Len(reads') = Len(reads)
        /\ \A j \in 1 .. Len(reads) : reads'[j] = IF j = n THEN Answered(w) ELSE reads[j]
    BY <1>3, <1>5, <2>2, ExceptSeq
  <2> QED
    BY <2>2, <2>3
<1>7. PICK e : /\ Moved(0, e)
               /\ \A m \in 1 .. Len(e) : m = 1 /\ e[m].n = Len(reads)
  <2>1. Answer(Len(reads)) \in Job /\ Answer(Len(reads)).n = Len(reads)
    BY <1>3, MadeJobs
  <2>2. Moved(0, << Answer(Len(reads)) >>)
    BY <1>1, <1>4, <2>1, OneMove
  <2>3. /\ Len(<< Answer(Len(reads)) >>) = 1 /\ << Answer(Len(reads)) >>[1] = Answer(Len(reads))
        /\ \A m \in 1 .. 1 : m = 1
    OBVIOUS
  <2> QED
    BY <2>1, <2>2, <2>3
<1>8. /\ \A n \in 1 .. Len(reads') : n < Len(reads') => reads'[n].seen
      /\ \A n \in 1 .. Len(reads') : reads'[n].seen => reads'[n].answered
  <2>1. ASSUME NEW n \in 1 .. Len(reads')
        PROVE  (n < Len(reads') => reads'[n].seen) /\ (reads'[n].seen => reads'[n].answered)
    <3>1. CASE n = Len(reads)
      BY <1>3, <1>5, <1>6, <3>1
    <3>2. CASE n # Len(reads)
      BY <1>6, <3>2 DEF OneUnseen
    <3> QED
      BY <3>1, <3>2
  <2> QED
    BY <2>1
<1>9. /\ Len(reads') > 0
      /\ reads'[Len(reads')].answered /\ ~reads'[Len(reads')].seen
  BY <1>2, <1>5, <1>6
<1>12. PICK x \in Nat : x = 1
  OBVIOUS
<1>10. \A m \in 1 .. Len(e) : IsAnswer(e[m]) =>
         /\ m = x /\ Len(reads') > 0 /\ e[m].n = Len(reads')
         /\ reads'[Len(reads')].answered /\ ~reads'[Len(reads')].seen
  BY <1>6, <1>7, <1>9, <1>12
<1>11. OneUnseen'
  BY <1>2, <1>7, <1>8, <1>10, UnseenAnswers
<1> QED
  BY <1>4, <1>6, <1>11

\* close(), throw() and return() answer the last read if it waits.
LEMMA DrainUnseen ==
  ASSUME Inv, PromiseTyped, OneUnseen, Drain, NEW e, Moved(0, e), NEW x \in Nat,
         \A m \in 1 .. Len(e) : IsAnswer(e[m]) =>
           m = x /\ readQueue # << >> /\ e[m].n = Len(reads)
  PROVE  OneUnseen' /\ Len(reads') = Len(reads)
<1>1. readQueue' = << >> /\ reads' = Drained
  BY DEF Drain
<1>2. reads \in Seq(Read) /\ DOMAIN reads = 1 .. Len(reads) /\ Len(reads) \in Nat
  BY DEF Inv, Typed
<1>3. /\ Len(reads') = Len(reads)
      /\ \A n \in 1 .. Len(reads) : reads'[n].answered
      /\ reads' \in Seq(Read)
  BY Drains
<1>4. \A n \in 1 .. Len(reads) :
        reads'[n] = IF reads[n].answered THEN reads[n] ELSE Answered(Done)
  BY <1>1, <1>2 DEF Drained
<1>5. CASE readQueue = << >>
  <2>1. \A n \in 1 .. Len(reads) : reads[n].answered
    <3>1. Given = Len(reads)
      BY <1>5, Lengths
    <3> QED
      BY <1>2, <3>1 DEF Inv, ReadQueueIsRest
  <2>2. \A n \in 1 .. Len(reads) : reads'[n] = reads[n]
    BY <1>4, <2>1
  <2>3. reads' = reads
    BY <1>2, <1>3, <2>2, SeqEqual
  <2>4. PICK d \in Int : d = 0 /\ Moved(d, e)
    OBVIOUS
  <2>5. OneUnseen'
    BY <1>5, <2>3, <2>4, UnseenStays
  <2> QED
    BY <1>3, <2>5
<1>6. CASE readQueue # << >>
  <2>1. /\ Len(reads) > 0 /\ ~reads[Len(reads)].answered /\ Given = Len(reads) - 1
        /\ \A i \in 1 .. Len(jobs) : ~IsAnswer(jobs[i])
    BY <1>6, OneWaits
  <2>2. Len(reads) \in 1 .. Len(reads)
    BY <1>2, <2>1
  <2>3. reads'[Len(reads)] = Answered(Done)
    BY <1>4, <2>1, <2>2
  <2>4. reads'[Len(reads)].answered /\ ~reads'[Len(reads)].seen
    BY <2>3 DEF Answered
  <2>5. \A n \in 1 .. Len(reads') : n < Len(reads') => reads'[n].seen
    <3>1. ASSUME NEW n \in 1 .. Len(reads), n < Len(reads)
          PROVE  reads'[n].seen
      BY <1>4, <3>1 DEF OneUnseen
    <3> QED
      BY <1>3, <3>1
  <2>6. \A n \in 1 .. Len(reads') : reads'[n].seen => reads'[n].answered
    BY <1>3
  <2>7. \A m \in 1 .. Len(e) : IsAnswer(e[m]) =>
          /\ m = x /\ Len(reads') > 0 /\ e[m].n = Len(reads')
          /\ reads'[Len(reads')].answered /\ ~reads'[Len(reads')].seen
    BY <1>3, <2>1, <2>4
  <2>8. OneUnseen'
    BY <2>1, <2>5, <2>6, <2>7, UnseenAnswers
  <2> QED
    BY <1>3, <2>8
<1> QED
  BY <1>5, <1>6

\* close() answers at most the last read.
LEMMA CloseUnseen ==
  ASSUME Inv, PromiseTyped, OneUnseen, Close
  PROVE  OneUnseen' /\ Len(reads') = Len(reads)
<1>1. Drain /\ jobs' = jobs \o DrainJobs
  BY DEF Close
<1>2. /\ DrainJobs \in Seq(Job) /\ Len(DrainJobs) = Len(readQueue)
      /\ \A m \in 1 .. Len(readQueue) : DrainJobs[m] = Answer(readQueue[m])
      /\ \A m \in 1 .. Len(readQueue) : readQueue[m] \in Nat
  BY DrainAnswers
<1>3. PICK e : e = DrainJobs /\ Moved(0, e)
  BY <1>1, <1>2, Added
<1>4. ASSUME NEW m \in 1 .. Len(e)
      PROVE  m = 1 /\ readQueue # << >> /\ e[m].n = Len(reads)
  <2>1. m \in 1 .. Len(readQueue) /\ Len(e) = Len(readQueue)
    BY <1>2, <1>3
  <2>2. readQueue # << >>
    BY <2>1, EmptySeq
  <2>3. Len(readQueue) = 1 /\ readQueue[1] = Len(reads)
    BY <2>2, OneWaits
  <2>4. m = 1
    BY <2>1, <2>3
  <2>5. e[m].n = readQueue[m]
    BY <1>2, <1>3, <2>1, MadeJobs
  <2> QED
    BY <2>2, <2>3, <2>4, <2>5
<1>5. PICK x \in Nat : x = 1
  OBVIOUS
<1>6. \A m \in 1 .. Len(e) : IsAnswer(e[m]) =>
        m = x /\ readQueue # << >> /\ e[m].n = Len(reads)
  BY <1>4, <1>5
<1> QED
  BY <1>1, <1>3, <1>6, DrainUnseen

\* So do throw() and return().
LEMMA StopUnseen ==
  ASSUME Inv, PromiseTyped, OneUnseen, NEW ok \in BOOLEAN, Stop(ok)
  PROVE  OneUnseen' /\ Len(reads') = Len(reads)
<1>1. Drain
  BY DEF Stop
<1>2. PICK e \in Seq(Job) :
        /\ Moved(0, e) /\ Len(e) = Len(next.q) + Len(readQueue) + 1
        /\ \A m \in 1 .. Len(next.q) : e[m] = Wake(next.q[m], ok)
        /\ \A m \in 1 .. Len(readQueue) : e[Len(next.q) + m] = Answer(readQueue[m])
        /\ e[Len(e)] = Stopped
  BY StopMoves
<1>3. /\ next.q \in Seq(Write) /\ Len(next.q) \in Nat /\ Len(readQueue) \in Nat
      /\ readQueue \in Seq(Nat)
  BY DEF PromiseTyped, Inv, Typed
<1>4. ASSUME NEW m \in 1 .. Len(e), IsAnswer(e[m])
      PROVE  m = Len(next.q) + 1 /\ readQueue # << >> /\ e[m].n = Len(reads)
  <2>1. m # Len(e)
    BY <1>2, <1>4, MadeJobs
  <2>2. ~(m <= Len(next.q))
    <3>1. ASSUME m <= Len(next.q)
          PROVE  FALSE
      <4>1. m \in 1 .. Len(next.q) /\ next.q[m] \in Write
        BY <1>3, <3>1
      <4> QED
        BY <1>2, <1>4, <4>1, MadeJobs
    <3> QED
      BY <3>1
  <2> DEFINE i == m - Len(next.q)
  <2>3. i \in 1 .. Len(readQueue) /\ Len(next.q) + i = m
    BY <1>2, <1>3, <2>1, <2>2
  <2> HIDE DEF i
  <2>4. readQueue # << >>
    BY <2>3, EmptySeq
  <2>5. Len(readQueue) = 1 /\ readQueue[1] = Len(reads)
    BY <2>4, OneWaits
  <2>6. i = 1
    BY <2>3, <2>5
  <2>7. e[m] = Answer(readQueue[1]) /\ readQueue[1] \in Nat
    BY <1>2, <1>3, <2>3, <2>6
  <2>8. e[m].n = Len(reads)
    BY <2>5, <2>7, MadeJobs
  <2> QED
    BY <2>3, <2>4, <2>6, <2>8
<1>5. PICK x \in Nat : x = Len(next.q) + 1
  BY <1>3
<1>6. \A m \in 1 .. Len(e) : IsAnswer(e[m]) =>
        m = x /\ readQueue # << >> /\ e[m].n = Len(reads)
  BY <1>4, <1>5
<1> QED
  BY <1>1, <1>2, <1>6, DrainUnseen

\* next() is called when every read is seen.
LEMMA NextCallUnseen ==
  ASSUME Inv, PromiseTyped, OneUnseen, NextCall, \A n \in DOMAIN reads : reads[n].seen
  PROVE  OneUnseen'
<1>1. PICK e \in Seq(Job), r \in Read :
        /\ Moved(0, e) /\ reads' = Append(reads, r) /\ ~r.seen
        /\ \A m \in 1 .. Len(e) :
             IF m <= Len(next.q) THEN e[m] = Wake(next.q[m], TRUE)
             ELSE e[m] = Answer(Len(reads) + 1) /\ m = Len(next.q) + 1 /\ r.answered
  BY NextCallMoves
<1>2. /\ reads \in Seq(Read) /\ DOMAIN reads = 1 .. Len(reads) /\ Len(reads) \in Nat
      /\ next.q \in Seq(Write) /\ Len(next.q) \in Nat
  BY DEF PromiseTyped, Inv, Typed
<1>3. /\ Len(reads') = Len(reads) + 1 /\ reads'[Len(reads) + 1] = r
      /\ \A n \in 1 .. Len(reads) : reads'[n] = reads[n]
  BY <1>1, <1>2, AppendProperties
<1>4. \A i \in 1 .. Len(jobs) : ~IsAnswer(jobs[i])
  <2>1. Len(reads) > 0 => Len(reads) \in 1 .. Len(reads)
    BY <1>2
  <2> QED
    BY <1>2, <2>1 DEF OneUnseen
<1>5. ASSUME NEW n \in 1 .. Len(reads')
      PROVE  (n < Len(reads') => reads'[n].seen) /\ (reads'[n].seen => reads'[n].answered)
  <2>1. CASE n = Len(reads) + 1
    BY <1>1, <1>2, <1>3, <2>1
  <2>2. CASE n # Len(reads) + 1
    <3>1. n \in 1 .. Len(reads)
      BY <1>2, <1>3, <2>2
    <3> QED
      BY <1>2, <1>3, <3>1 DEF OneUnseen
  <2> QED
    BY <2>1, <2>2
<1>6. PICK x \in Nat : x = Len(next.q) + 1
  BY <1>2
<1>7. ASSUME NEW m \in 1 .. Len(e), IsAnswer(e[m])
      PROVE  /\ m = x /\ Len(reads') > 0 /\ e[m].n = Len(reads')
             /\ reads'[Len(reads')].answered /\ ~reads'[Len(reads')].seen
  <2>1. ~(m <= Len(next.q))
    <3>1. ASSUME m <= Len(next.q)
          PROVE  FALSE
      <4>1. m \in 1 .. Len(next.q) /\ next.q[m] \in Write
        BY <1>2, <3>1
      <4> QED
        BY <1>1, <1>7, <3>1, <4>1, MadeJobs
    <3> QED
      BY <3>1
  <2>2. e[m] = Answer(Len(reads) + 1) /\ m = Len(next.q) + 1 /\ r.answered
    BY <1>1, <2>1
  <2>3. Len(reads) + 1 \in Nat /\ Len(reads) + 1 > 0
    BY <1>2
  <2>4. e[m].n = Len(reads) + 1
    BY <2>2, <2>3, MadeJobs
  <2> QED
    BY <1>1, <1>3, <1>6, <2>2, <2>3, <2>4
<1>8. /\ \A n \in 1 .. Len(reads') : n < Len(reads') => reads'[n].seen
      /\ \A n \in 1 .. Len(reads') : reads'[n].seen => reads'[n].answered
  BY <1>5
<1>9. \A m \in 1 .. Len(e) : IsAnswer(e[m]) =>
        /\ m = x /\ Len(reads') > 0 /\ e[m].n = Len(reads')
        /\ reads'[Len(reads')].answered /\ ~reads'[Len(reads')].seen
  BY <1>7
<1> QED
  BY <1>1, <1>4, <1>8, <1>9, UnseenAnswers

\* The answer of the last read is received.
LEMMA ReceiveUnseen ==
  ASSUME Inv, PromiseTyped, OneUnseen, Receive
  PROVE  OneUnseen' /\ Len(reads') = Len(reads)
<1>1. /\ jobs # << >> /\ Head(jobs).t # "wake" /\ jobs' = Tail(jobs)
  BY DEF Receive
<1>2. /\ Moved(1, << >>) /\ Len(jobs) > 0 /\ Head(jobs) = jobs[1] /\ Len(jobs) \in Nat
      /\ jobs \in Seq(Job) /\ jobs[1] \in Job /\ 1 \in 1 .. Len(jobs)
  <2>1. Moved(1, << >>) /\ Len(jobs) > 0 /\ Head(jobs) = jobs[1]
    BY <1>1, Ran
  <2> QED
    BY <2>1 DEF PromiseTyped
<1>4. PICK no : no = << >> /\ Len(no) = 0 /\ \A m \in 1 .. Len(no) : ~IsAnswer(no[m])
  BY EmptySeq
<1>5. PICK k \in Int : k = 1 /\ Moved(k, no)
  BY <1>2, <1>4
<1>6. reads \in Seq(Read) /\ DOMAIN reads = 1 .. Len(reads) /\ Len(reads) \in Nat
  BY DEF Inv, Typed
<1>7. CASE jobs[1] = Stopped
  <2>1. reads' = reads
    BY <1>2, <1>7 DEF Receive
  <2> QED
    BY <1>4, <1>5, <2>1, UnseenStays
<1>8. CASE IsAnswer(jobs[1]) /\ jobs[1] # Stopped
  <2>1. /\ Len(reads) > 0 /\ jobs[1].n = Len(reads)
        /\ reads[Len(reads)].answered
        /\ \A i \in 1 .. Len(jobs) : IsAnswer(jobs[i]) => i = 1
    BY <1>2, <1>8 DEF OneUnseen
  <2>2. Len(reads) \in 1 .. Len(reads)
    BY <1>6, <2>1
  <2>3. reads' = [reads EXCEPT ![Len(reads)].seen = TRUE]
    BY <1>2, <1>8, <2>1 DEF Receive
  <2>4. PICK r \in Read : r.seen /\ r.answered /\ reads' = [reads EXCEPT ![Len(reads)] = r]
    <3>1. reads[Len(reads)] \in Read
      BY <1>6, <2>2
    <3>2. /\ [reads[Len(reads)] EXCEPT !.seen = TRUE] \in Read
          /\ [reads[Len(reads)] EXCEPT !.seen = TRUE].seen
          /\ [reads[Len(reads)] EXCEPT !.seen = TRUE].answered = reads[Len(reads)].answered
      BY <3>1 DEF Read
    <3> QED
      BY <2>1, <2>3, <3>2
  <2>5. PICK n \in 1 .. Len(reads) : n = Len(reads) /\ reads' = [reads EXCEPT ![n] = r]
    BY <2>2, <2>4
  <2>6. /\ Len(reads') = Len(reads)
        /\ \A j \in 1 .. Len(reads) : reads'[j] = IF j = n THEN r ELSE reads[j]
    BY <1>6, <2>5, ExceptSeq
  <2>7. ASSUME NEW j \in 1 .. Len(reads')
        PROVE  (j < Len(reads') => reads'[j].seen) /\ (reads'[j].seen => reads'[j].answered)
    <3>1. /\ (j < Len(reads) => reads[j].seen) /\ (reads[j].seen => reads[j].answered)
          /\ j \in 1 .. Len(reads) /\ n = Len(reads)
      BY <2>5, <2>6, <2>7 DEF OneUnseen
    <3> QED BY <2>4, <2>6, <2>7, <3>1
  <2>8. ASSUME NEW i \in 1 .. Len(jobs')
        PROVE  ~IsAnswer(jobs'[i])
    <3>1. i + k \in 1 .. Len(jobs) /\ jobs'[i] = jobs[i + k]
      BY <1>4, <1>5, MoveCases
    <3>2. i + k # 1
      BY <1>5
    <3> QED
      BY <2>1, <3>1, <3>2
  <2>9. OneUnseen'
    BY <2>7, <2>8 DEF OneUnseen
  <2> QED
    BY <2>6, <2>9
<1> QED
  BY <1>1, <1>2, <1>7, <1>8, JobKinds DEF IsWake

(* The turns a write has left are the reads that must still be made: the one   *)
(* for its payload, and one more.                                              *)
QueueCounts ==
  /\ mode = "cancelled" => next.q = << >>
  /\ \A k \in 1 .. Len(sent) : Queued(sent[k]) =>
       write[sent[k]].left = k - Len(reads) + 1 /\ Len(reads) <= k

(* A write has a microtask after a promise that was resolved.                  *)
Going(w) == \E i \in 1 .. Len(jobs) : IsWake(jobs[i]) /\ jobs[i].ok /\ jobs[i].w = w

(* It has not counted the read that woke it, and may end if its payload is out. *)
GoingCounts ==
  \A w \in Write : Going(w) =>
    /\ mode = "cancelled" => next.st = "rejected"
    /\ write[w].left = 1 => Delivered(w)
    /\ mode # "cancelled" =>
         \A k \in 1 .. Len(sent) : sent[k] = w => write[w].left = k - Len(reads) + 2

(* The consumer is yet to receive what it asked for when it woke the writes.   *)
Later(i) ==
  \/ \E j \in i + 1 .. Len(jobs) : jobs[j] = Stopped
  \/ mode # "cancelled" /\ (readQueue # << >> \/ \E j \in i + 1 .. Len(jobs) : IsAnswer(jobs[j]))

BeforeNext == \A i \in 1 .. Len(jobs) : IsWake(jobs[i]) /\ jobs[i].ok => Later(i)

(* What resolved was delivered.                                                *)
ResolvedDelivered == \A w \in Write : write[w].st = "resolved" => Delivered(w)

\* Which writes have such a microtask after a step.
LEMMA GoingBefore ==
  ASSUME PromiseTyped, NEW d \in Int, NEW e, Moved(d, e), NEW w, Going(w)'
  PROVE  Going(w) \/ \E m \in 1 .. Len(e) : IsWake(e[m]) /\ e[m].ok /\ e[m].w = w
<1>1. PICK i \in 1 .. Len(jobs') : IsWake(jobs'[i]) /\ jobs'[i].ok /\ jobs'[i].w = w
  BY DEF Going
<1>2. \/ i + d \in 1 .. Len(jobs) /\ jobs'[i] = jobs[i + d]
      \/ \E m \in 1 .. Len(e) : i = Len(jobs) - d + m /\ jobs'[i] = e[m]
  BY MoveCases
<1>3. CASE i + d \in 1 .. Len(jobs) /\ jobs'[i] = jobs[i + d]
  BY <1>1, <1>3 DEF Going
<1>4. CASE \E m \in 1 .. Len(e) : i = Len(jobs) - d + m /\ jobs'[i] = e[m]
  BY <1>1, <1>4
<1> QED
  BY <1>2, <1>3, <1>4

\* A write that has one is due.
LEMMA GoingIsDue ==
  ASSUME Places, NEW w \in Write, Going(w)
  PROVE  Due(w) /\ ~Queued(w) /\ write[w].st = "waiting" /\ \E k \in 1 .. Len(sent) : sent[k] = w
<1>1. Due(w)
  BY DEF Going, Due
<1>2. write[w].st = "waiting"
  BY <1>1 DEF Places, OnePlace
<1> QED
  BY <1>1, <1>2 DEF Places, OnePlace, WasSent

\* Nothing that the counts depend on changes.
LEMMA CountStays ==
  ASSUME Inv, Inv', Places, QueueCounts, GoingCounts, [Channel!Next]_(Channel!vars),
         mode' = "cancelled" <=> mode = "cancelled", next' = next, sent' = sent,
         Len(reads') = Len(reads), \A w \in Write : write'[w].left = write[w].left,
         NEW d \in Int, NEW e, Moved(d, e), \A m \in 1 .. Len(e) : ~IsWake(e[m])
  PROVE  QueueCounts' /\ GoingCounts'
<1>1. \A w : Queued(w)' <=> Queued(w)
  BY DEF Queued
<1>2. \A k \in 1 .. Len(sent) : sent[k] \in Write
  BY DEF Inv, Typed
<1>3. QueueCounts'
  BY <1>1, <1>2 DEF QueueCounts
<1>4. ASSUME NEW w \in Write, Going(w)'
      PROVE  /\ mode' = "cancelled" => next'.st = "rejected"
             /\ write'[w].left = 1 => Delivered(w)'
             /\ mode' # "cancelled" =>
                  \A k \in 1 .. Len(sent') : sent'[k] = w => write'[w].left = k - Len(reads') + 2
  <2>1. Going(w)
    BY <1>4, GoingBefore DEF Places
  <2>2. Delivered(w) => Delivered(w)'
    BY DeliveredStays
  <2>3. write'[w].left = write[w].left
    OBVIOUS
  <2> QED
    BY <2>1, <2>2, <2>3 DEF GoingCounts
<1>5. GoingCounts'
  BY <1>4 DEF GoingCounts
<1> QED
  BY <1>3, <1>5

\* A write that waits from now on.
LEMMA CountWaits ==
  ASSUME Inv, Inv', Places, QueueCounts, GoingCounts, [Channel!Next]_(Channel!vars),
         NEW w \in Write, NEW n \in Int, AwaitNext(w, n), write[w].st = "new",
         mode = "open", mode' = mode, sent' = Append(sent, w), Len(reads') = Len(reads),
         n = Len(sent) + 1 - Len(reads) + 1, Len(reads) <= Len(sent) + 1,
         NEW e, Moved(0, e), \A m \in 1 .. Len(e) : ~IsWake(e[m])
  PROVE  QueueCounts' /\ GoingCounts'
<1>1. /\ next.st = "pending" /\ sent \in Seq(Write) /\ Len(sent) \in Nat /\ Len(reads) \in Nat
      /\ next.q \in Seq(Write) /\ Len(next.q) \in Nat
  BY DEF Places, PromiseTyped, Inv, Typed
<1>2. /\ next'.q = Append(next.q, w) /\ write'[w] = [st |-> "waiting", left |-> n]
      /\ \A v \in Write \ {w} : write'[v] = write[v]
  BY <1>1, AwaitQueues DEF Places
<1>3. /\ Len(sent') = Len(sent) + 1 /\ sent'[Len(sent) + 1] = w
      /\ \A k \in 1 .. Len(sent) : sent'[k] = sent[k] /\ sent[k] # w /\ sent[k] \in Write
  <2>1. \A k \in 1 .. Len(sent) : sent[k] # w
    BY DEF Inv, SentIsNotNew
  <2> QED
    BY <1>1, <2>1, AppendProperties
<1>4. \A v : v # w /\ Queued(v)' => Queued(v)
  <2>1. /\ Len(next'.q) = Len(next.q) + 1 /\ next'.q[Len(next.q) + 1] = w
        /\ \A i \in 1 .. Len(next.q) : next'.q[i] = next.q[i]
    BY <1>1, <1>2, AppendProperties
  <2>2. \A i \in 1 .. Len(next.q) + 1 : i = Len(next.q) + 1 \/ i \in 1 .. Len(next.q)
    BY <1>1
  <2> QED
    BY <2>1, <2>2 DEF Queued
<1>5. ASSUME NEW k \in 1 .. Len(sent'), \E i \in 1 .. Len(next'.q) : next'.q[i] = sent'[k]
      PROVE  write'[sent'[k]].left = k - Len(reads') + 1 /\ Len(reads') <= k
  <2>1. CASE k = Len(sent) + 1
    BY <1>1, <1>2, <1>3, <2>1
  <2>2. CASE k \in 1 .. Len(sent)
    <3>1. sent'[k] = sent[k] /\ sent[k] # w /\ sent[k] \in Write
      BY <1>3, <2>2
    <3>2. Queued(sent[k])
      <4>1. PICK v : v = sent[k]
        OBVIOUS
      <4>2. Queued(v)'
        BY <1>5, <3>1, <4>1 DEF Queued
      <4> QED
        BY <1>4, <3>1, <4>1, <4>2
    <3>3. write[sent[k]].left = k - Len(reads) + 1 /\ Len(reads) <= k
      BY <2>2, <3>2 DEF QueueCounts
    <3> QED
      BY <1>2, <3>1, <3>3
  <2> QED
    BY <1>1, <1>3, <2>1, <2>2
<1>6. QueueCounts'
  BY <1>5 DEF QueueCounts, Queued
<1>7. ASSUME NEW v \in Write, Going(v)'
      PROVE  /\ mode' = "cancelled" => next'.st = "rejected"
             /\ write'[v].left = 1 => Delivered(v)'
             /\ mode' # "cancelled" =>
                  \A k \in 1 .. Len(sent') : sent'[k] = v => write'[v].left = k - Len(reads') + 2
  <2>1. PICK d \in Int : d = 0 /\ Moved(d, e)
    OBVIOUS
  <2>2. Going(v)
    BY <1>7, <2>1, GoingBefore DEF Places
  <2>3. v # w
    BY <2>2, GoingIsDue
  <2>4. write'[v] = write[v]
    BY <1>2, <2>3
  <2>5. Delivered(v) => Delivered(v)'
    BY DeliveredStays
  <2>6. /\ write[v].left = 1 => Delivered(v)
        /\ \A k \in 1 .. Len(sent) : sent[k] = v => write[v].left = k - Len(reads) + 2
    BY <2>2 DEF GoingCounts
  <2>7. ASSUME NEW k \in 1 .. Len(sent'), sent'[k] = v
        PROVE  write'[v].left = k - Len(reads') + 2
    <3>1. k # Len(sent) + 1
      BY <1>3, <2>3, <2>7
    <3>2. k \in 1 .. Len(sent) /\ sent[k] = v
      BY <1>1, <1>3, <2>7, <3>1
    <3> QED
      BY <2>4, <2>6, <3>2
  <2> QED
    BY <2>4, <2>5, <2>6, <2>7
<1>8. GoingCounts'
  BY <1>7 DEF GoingCounts
<1> QED
  BY <1>6, <1>8

\* A write that waits and has one turn left has had its payload asked for.
LEMMA LastTurn ==
  ASSUME Inv, Inv', Places, InOrder, QueueCounts, [Channel!Next]_(Channel!vars),
         NEW w \in Write, Queued(w)
  PROVE  /\ mode # "cancelled" /\ \E k \in 1 .. Len(sent) : sent[k] = w
         /\ \A k \in 1 .. Len(sent) : sent[k] = w => write[w].left = k - Len(reads) + 1
         /\ write[w].left = 1 => Delivered(w)'
<1>1. write[w].st = "waiting"
  BY DEF Places, OnePlace
<1>2. PICK k \in 1 .. Len(sent) : sent[k] = w
  BY <1>1 DEF Places, WasSent
<1>3. mode # "cancelled"
  <2>1. next.q # << >>
    BY EmptySeq DEF Queued
  <2> QED
    BY <2>1 DEF QueueCounts
<1>4. \A i \in 1 .. Len(sent) : sent[i] = w => write[w].left = i - Len(reads) + 1
  BY DEF QueueCounts
<1>5. ASSUME write[w].left = 1
      PROVE  Delivered(w)'
  <2>1. Len(reads) \in Nat /\ k \in Nat
    BY DEF Inv, Typed
  <2>2. k = Len(reads)
    BY <1>2, <1>4, <1>5, <2>1
  <2>3. k <= Len(reads)
    BY <2>1, <2>2
  <2>4. Delivered(w)
    BY <1>2, <1>3, <2>3, AskedIsDelivered
  <2> QED
    BY <2>4, DeliveredStays
<1> QED
  BY <1>2, <1>3, <1>4, <1>5

\* A microtask that stays keeps what comes after it.
LEMMA LaterStays ==
  ASSUME PromiseTyped, BeforeNext, NEW d \in Int, NEW e, Moved(d, e),
         \A m \in 1 .. Len(e) : ~(IsWake(e[m]) /\ e[m].ok),
         mode' = "cancelled" <=> mode = "cancelled",
         readQueue # << >> => readQueue' # << >> \/ \E m \in 1 .. Len(e) : IsAnswer(e[m])
  PROVE  BeforeNext'
<1>1. /\ Len(jobs) \in Nat /\ Len(e) \in Nat /\ d \in {0, 1} /\ d <= Len(jobs)
      /\ Len(jobs') = Len(jobs) - d + Len(e)
      /\ \A i \in 1 .. Len(jobs) - d : jobs'[i] = jobs[i + d]
      /\ \A i \in 1 .. Len(e) : jobs'[Len(jobs) - d + i] = e[i]
  BY DEF PromiseTyped, Moved
<1>2. SUFFICES ASSUME NEW i \in 1 .. Len(jobs'), IsWake(jobs'[i]), jobs'[i].ok
               PROVE  Later(i)'
  BY DEF BeforeNext
<1>3. i + d \in 1 .. Len(jobs) /\ jobs'[i] = jobs[i + d]
  BY <1>2, MoveCases
<1>4. Later(i + d)
  BY <1>2, <1>3 DEF BeforeNext
<1>5. ASSUME NEW j \in i + d + 1 .. Len(jobs)
      PROVE  j - d \in i + 1 .. Len(jobs') /\ jobs'[j - d] = jobs[j]
  <2> DEFINE k == j - d
  <2>1. k \in 1 .. Len(jobs) - d /\ k \in i + 1 .. Len(jobs') /\ k + d = j
    BY <1>1
  <2> HIDE DEF k
  <2>2. jobs'[k] = jobs[j]
    BY <1>1, <2>1
  <2>3. k = j - d
    BY DEF k
  <2> QED
    BY <2>1, <2>2, <2>3
<1>6. CASE \E j \in i + d + 1 .. Len(jobs) : jobs[j] = Stopped
  <2>1. PICK j \in i + d + 1 .. Len(jobs) : jobs[j] = Stopped
    BY <1>6
  <2> QED
    BY <1>5, <2>1 DEF Later
<1>7. CASE mode # "cancelled" /\ \E j \in i + d + 1 .. Len(jobs) : IsAnswer(jobs[j])
  <2>1. PICK j \in i + d + 1 .. Len(jobs) : IsAnswer(jobs[j])
    BY <1>7
  <2>2. \E k \in i + 1 .. Len(jobs') : IsAnswer(jobs'[k])
    BY <1>5, <2>1
  <2> QED
    BY <1>7, <2>2 DEF Later
<1>8. CASE mode # "cancelled" /\ readQueue # << >>
  <2>1. CASE readQueue' # << >>
    BY <1>8, <2>1 DEF Later
  <2>2. CASE \E m \in 1 .. Len(e) : IsAnswer(e[m])
    <3>1. PICK m \in 1 .. Len(e) : IsAnswer(e[m])
      BY <2>2
    <3>2. Len(jobs) - d + m \in i + 1 .. Len(jobs') /\ jobs'[Len(jobs) - d + m] = e[m]
      BY <1>1, <1>3, <3>1
    <3>3. \E k \in i + 1 .. Len(jobs') : IsAnswer(jobs'[k])
      BY <3>1, <3>2
    <3> QED
      BY <1>8, <3>3 DEF Later
  <2> QED
    BY <1>8, <2>1, <2>2
<1> QED
  BY <1>4, <1>6, <1>7, <1>8 DEF Later

(* What the run of the writes keeps with such a consumer.                      *)
Counted == QueueCounts /\ GoingCounts /\ BeforeNext /\ ResolvedDelivered

\* No write resolves.
LEMMA ResolvedStays ==
  ASSUME Inv, Inv', ResolvedDelivered, [Channel!Next]_(Channel!vars),
         \A v \in Write : write'[v].st = "resolved" => write[v].st = "resolved"
  PROVE  ResolvedDelivered'
BY DeliveredStays DEF ResolvedDelivered

\* write() that is refused.
LEMMA RefuseCounted ==
  ASSUME Inv, Inv', Places, Counted, [Channel!Next]_(Channel!vars), NEW w \in Write, Refuse(w)
  PROVE  Counted'
<1>1. UNCHANGED <<mode, next, sent, jobs, reads, readQueue>>
  BY DEF Refuse
<1>2. /\ write'[w].st = "rejected" /\ write'[w].left = write[w].left
      /\ \A v \in Write \ {w} : write'[v] = write[v]
  <2>1. write \in [Write -> Progress] /\ write' = [write EXCEPT ![w].st = "rejected"]
    BY DEF Inv, Typed, Refuse
  <2> QED
    BY <2>1 DEF Progress
<1>3. PICK e : e = << >> /\ Moved(0, e) /\ \A m \in 1 .. Len(e) : FALSE
  <2>1. Moved(0, << >>) /\ Len(<< >>) = 0
    BY <1>1, NoMove, EmptySeq DEF Places
  <2> QED
    BY <2>1
<1>4. PICK d \in Int : d = 0 /\ Moved(d, e)
  BY <1>3
<1>5. /\ \A v \in Write : write'[v].left = write[v].left
      /\ \A v \in Write : write'[v].st = "resolved" => write[v].st = "resolved"
  BY <1>2
<1>6. QueueCounts' /\ GoingCounts'
  <2>1. Len(reads') = Len(reads) /\ (mode' = "cancelled" <=> mode = "cancelled")
    BY <1>1
  <2>2. next' = next /\ sent' = sent /\ \A m \in 1 .. Len(e) : ~IsWake(e[m])
    BY <1>1, <1>3
  <2> QED
    BY <1>4, <1>5, <2>1, <2>2, CountStays DEF Counted
<1>7. BeforeNext'
  <2>1. \A m \in 1 .. Len(e) : ~(IsWake(e[m]) /\ e[m].ok)
    BY <1>3
  <2>2. readQueue # << >> => readQueue' # << >>
    BY <1>1
  <2>3. mode' = "cancelled" <=> mode = "cancelled"
    BY <1>1
  <2> QED
    BY <1>4, <2>1, <2>2, <2>3, LaterStays DEF Places, Counted
<1> QED
  BY <1>5, <1>6, <1>7, ResolvedStays DEF Counted

\* An answer that is received.
LEMMA ReceiveCounted ==
  ASSUME Inv, Inv', Places, Counted, [Channel!Next]_(Channel!vars), Receive,
         Len(reads') = Len(reads)
  PROVE  Counted'
<1>1. /\ UNCHANGED <<mode, next, sent, write, readQueue>>
      /\ jobs # << >> /\ jobs' = Tail(jobs)
  BY DEF Receive
<1>2. PICK e : e = << >> /\ Moved(1, e) /\ \A m \in 1 .. Len(e) : FALSE
  <2>1. Moved(1, << >>) /\ Len(<< >>) = 0
    BY <1>1, Ran, EmptySeq DEF Places
  <2> QED
    BY <2>1
<1>3. PICK d \in Int : d = 1 /\ Moved(d, e)
  BY <1>2
<1>4. QueueCounts' /\ GoingCounts'
  <2>1. /\ mode' = "cancelled" <=> mode = "cancelled"
        /\ next' = next /\ sent' = sent /\ \A m \in 1 .. Len(e) : ~IsWake(e[m])
        /\ \A v \in Write : write'[v].left = write[v].left
    BY <1>1, <1>2
  <2> QED
    BY <1>3, <2>1, CountStays DEF Counted
<1>5. BeforeNext'
  <2>1. /\ \A m \in 1 .. Len(e) : ~(IsWake(e[m]) /\ e[m].ok)
        /\ mode' = "cancelled" <=> mode = "cancelled"
        /\ readQueue # << >> => readQueue' # << >>
    BY <1>1, <1>2
  <2> QED
    BY <1>3, <2>1, LaterStays DEF Places, Counted
<1>6. \A v \in Write : write'[v].st = "resolved" => write[v].st = "resolved"
  BY <1>1
<1> QED
  BY <1>4, <1>5, <1>6, ResolvedStays DEF Counted

\* close() answers the read that waits, if one does.
LEMMA CloseCounted ==
  ASSUME Inv, Inv', Places, Counted, [Channel!Next]_(Channel!vars), Close,
         Len(reads') = Len(reads)
  PROVE  Counted'
<1>1. /\ UNCHANGED <<next, sent, write>> /\ jobs' = jobs \o DrainJobs
      /\ mode' = "cancelled" <=> mode = "cancelled"
  BY DEF Close
<1>2. /\ DrainJobs \in Seq(Job) /\ Len(DrainJobs) = Len(readQueue)
      /\ \A m \in 1 .. Len(readQueue) : DrainJobs[m] = Answer(readQueue[m])
      /\ \A m \in 1 .. Len(readQueue) : readQueue[m] \in Nat
  BY DrainAnswers
<1>3. PICK e : /\ Moved(0, e) /\ Len(e) = Len(readQueue)
               /\ \A m \in 1 .. Len(e) : ~IsWake(e[m]) /\ IsAnswer(e[m])
  <2>1. Moved(0, DrainJobs)
    BY <1>1, <1>2, Added DEF Places
  <2>2. \A m \in 1 .. Len(DrainJobs) : ~IsWake(DrainJobs[m]) /\ IsAnswer(DrainJobs[m])
    BY <1>2, MadeJobs
  <2> QED
    BY <1>2, <2>1, <2>2
<1>4. PICK d \in Int : d = 0 /\ Moved(d, e)
  BY <1>3
<1>5. QueueCounts' /\ GoingCounts'
  <2>1. /\ next' = next /\ sent' = sent /\ \A m \in 1 .. Len(e) : ~IsWake(e[m])
        /\ \A v \in Write : write'[v].left = write[v].left
    BY <1>1, <1>3
  <2> QED
    BY <1>1, <1>4, <2>1, CountStays DEF Counted
<1>6. BeforeNext'
  <2>1. ASSUME readQueue # << >>
        PROVE  \E m \in 1 .. Len(e) : IsAnswer(e[m])
    <3>1. 1 \in 1 .. Len(e)
      <4>1. readQueue \in Seq(Nat)
        BY DEF Inv, Typed
      <4> QED
        BY <1>3, <2>1, <4>1
    <3> QED
      BY <1>3, <3>1
  <2>2. \A m \in 1 .. Len(e) : ~(IsWake(e[m]) /\ e[m].ok)
    BY <1>3
  <2> QED
    BY <1>1, <1>4, <2>1, <2>2, LaterStays DEF Places, Counted
<1>7. \A v \in Write : write'[v].st = "resolved" => write[v].st = "resolved"
  BY <1>1
<1> QED
  BY <1>5, <1>6, <1>7, ResolvedStays DEF Counted

\* write() that is queued: its payload comes after those before it.
LEMMA EnqueueCounted ==
  ASSUME Inv, Inv', Places, Counted, [Channel!Next]_(Channel!vars), NEW w \in Write, Enqueue(w)
  PROVE  Counted'
<1>1. /\ write[w].st = "new" /\ mode = "open" /\ mode' = mode /\ readQueue = << >>
      /\ sent' = Append(sent, w) /\ writeQueue' = Append(writeQueue, w)
      /\ UNCHANGED <<readQueue, reads, jobs>> /\ AwaitNext(w, Limit(writeQueue'))
  BY DEF Enqueue
<1>2. PICK e : e = << >> /\ Moved(0, e) /\ \A m \in 1 .. Len(e) : FALSE
  <2>1. Moved(0, << >>) /\ Len(<< >>) = 0
    BY <1>1, NoMove, EmptySeq DEF Places
  <2> QED
    BY <2>1
<1>3. PICK d \in Int : d = 0 /\ Moved(d, e)
  BY <1>2
<1>4. /\ Len(writeQueue) \in Nat /\ Len(sent) \in Nat /\ Len(reads) \in Nat
      /\ Len(sent) - Len(writeQueue) = Len(reads)
  <2>1. Taken = Given
    BY <1>1 DEF Inv, WriteQueueIsRest
  <2> QED
    BY <1>1, <2>1, Lengths DEF Taken
<1>5. Len(writeQueue') = Len(writeQueue) + 1
  <2>1. writeQueue \in Seq(Write)
    BY DEF Inv, Typed
  <2> QED
    BY <1>1, <2>1, AppendProperties
<1>6. PICK n \in Int : /\ AwaitNext(w, n) /\ n = Len(sent) + 1 - Len(reads) + 1
                       /\ Len(reads) <= Len(sent) + 1
  <2>1. Limit(writeQueue') = Len(writeQueue') + 1
    BY DEF Limit
  <2>2. PICK a \in Nat, b \in Nat, c \in Nat :
          a = Len(writeQueue) /\ b = Len(sent) /\ c = Len(reads) /\ b - a = c
    BY <1>4
  <2>3. a + 1 + 1 = b + 1 - c + 1 /\ c <= b + 1 /\ a + 1 + 1 \in Int
    BY <2>2
  <2>4. AwaitNext(w, a + 1 + 1)
    BY <1>1, <1>5, <2>1, <2>2
  <2> QED
    BY <2>2, <2>3, <2>4
<1>7. QueueCounts' /\ GoingCounts'
  <2>1. Len(reads') = Len(reads) /\ \A m \in 1 .. Len(e) : ~IsWake(e[m])
    BY <1>1, <1>2
  <2> QED
    BY <1>1, <1>2, <1>6, <2>1, CountWaits DEF Counted
<1>8. BeforeNext'
  <2>1. /\ \A m \in 1 .. Len(e) : ~(IsWake(e[m]) /\ e[m].ok)
        /\ mode' = "cancelled" <=> mode = "cancelled"
    BY <1>1, <1>2
  <2> QED
    BY <1>1, <1>3, <2>1, LaterStays DEF Places, Counted
<1>9. \A v \in Write : write'[v].st = "resolved" => write[v].st = "resolved"
  <2>1. write \in [Write -> Progress]
        /\ write' = [write EXCEPT ![w] = [st |-> "waiting", left |-> Limit(writeQueue')]]
    BY <1>1 DEF Inv, Typed, AwaitNext
  <2> QED
    BY <2>1
<1> QED
  BY <1>7, <1>8, <1>9, ResolvedStays DEF Counted

\* write() that answers the one read that waits: one call of next() is left.
LEMMA HandOverCounted ==
  ASSUME Inv, Inv', Places, Counted, OneUnseen, [Channel!Next]_(Channel!vars),
         NEW w \in Write, HandOver(w)
  PROVE  Counted'
<1>1. /\ write[w].st = "new" /\ mode = "open" /\ mode' = mode /\ readQueue # << >>
      /\ sent' = Append(sent, w) /\ jobs' = Append(jobs, Answer(Head(readQueue)))
  BY DEF HandOver
<1>2. /\ readQueue' = << >> /\ Len(reads') = Len(reads)
  BY HandOverUnseen DEF Places
<1>3. AwaitNext(w, Limit(writeQueue))
  BY <1>2 DEF HandOver
<1>4. PICK e : /\ Moved(0, e) /\ Len(e) = 1
               /\ \A m \in 1 .. Len(e) : ~IsWake(e[m]) /\ IsAnswer(e[m])
  <2>1. Head(readQueue) \in Nat
    <3>1. readQueue \in Seq(Nat)
      BY DEF Inv, Typed
    <3> QED
      BY <1>1, <3>1, HeadTailProperties
  <2>2. PICK j \in Job : jobs' = Append(jobs, j) /\ ~IsWake(j) /\ IsAnswer(j)
    BY <1>1, <2>1, MadeJobs
  <2>3. Moved(0, << j >>)
    BY <2>2, OneMove DEF Places
  <2>4. Len(<< j >>) = 1 /\ << j >>[1] = j /\ \A m \in 1 .. 1 : m = 1
    OBVIOUS
  <2> QED
    BY <2>2, <2>3, <2>4
<1>5. PICK d \in Int : d = 0 /\ Moved(d, e)
  BY <1>4
<1>6. /\ Len(sent) \in Nat /\ Len(reads) \in Nat /\ writeQueue = << >>
      /\ Len(sent) = Len(reads) - 1
  <2>1. writeQueue = << >>
    BY <1>1 DEF Inv, ReadQueueIsRest
  <2>2. Taken = Given
    BY <1>1 DEF Inv, WriteQueueIsRest
  <2> QED
    BY <1>1, <2>1, <2>2, Lengths, OneWaits
<1>7. PICK n \in Int : /\ AwaitNext(w, n) /\ n = Len(sent) + 1 - Len(reads) + 1
                       /\ Len(reads) <= Len(sent) + 1
  <2>1. Limit(writeQueue) = 1
    BY <1>6, EmptySeq DEF Limit
  <2>2. PICK b \in Nat, c \in Nat : b = Len(sent) /\ c = Len(reads) /\ b = c - 1
    BY <1>6
  <2>3. 1 = b + 1 - c + 1 /\ c <= b + 1 /\ 1 \in Int
    BY <2>2
  <2>4. AwaitNext(w, 1)
    BY <1>3, <2>1
  <2> QED
    BY <2>2, <2>3, <2>4
<1>8. QueueCounts' /\ GoingCounts'
  <2>1. \A m \in 1 .. Len(e) : ~IsWake(e[m])
    BY <1>4
  <2> QED
    BY <1>1, <1>2, <1>4, <1>7, <2>1, CountWaits DEF Counted
<1>9. BeforeNext'
  <2>1. /\ \A m \in 1 .. Len(e) : ~(IsWake(e[m]) /\ e[m].ok)
        /\ mode' = "cancelled" <=> mode = "cancelled"
    BY <1>1, <1>4
  <2>2. \E m \in 1 .. Len(e) : IsAnswer(e[m])
    <3>1. 1 \in 1 .. Len(e)
      BY <1>4
    <3> QED
      BY <1>4, <3>1
  <2> QED
    BY <1>5, <2>1, <2>2, LaterStays DEF Places, Counted
<1>10. \A v \in Write : write'[v].st = "resolved" => write[v].st = "resolved"
  <2>1. write \in [Write -> Progress]
        /\ write' = [write EXCEPT ![w] = [st |-> "waiting", left |-> Limit(writeQueue)]]
    BY <1>3 DEF Inv, Typed, AwaitNext
  <2> QED
    BY <2>1
<1> QED
  BY <1>8, <1>9, <1>10, ResolvedStays DEF Counted

\* No write is on its way when such a consumer calls next().
LEMMA NoneGoing ==
  ASSUME Inv, Places, Counted, OneUnseen, ~Stopping, \A n \in DOMAIN reads : reads[n].seen
  PROVE  \A i \in 1 .. Len(jobs) : ~(IsWake(jobs[i]) /\ jobs[i].ok)
<1>1. SUFFICES ASSUME NEW i \in 1 .. Len(jobs), Later(i)
               PROVE  FALSE
  BY DEF Counted, BeforeNext
<1>2. /\ jobs \in Seq(Job) /\ Len(jobs) \in Nat /\ DOMAIN jobs = 1 .. Len(jobs)
      /\ reads \in Seq(Read) /\ DOMAIN reads = 1 .. Len(reads) /\ Len(reads) \in Nat
  BY DEF Places, PromiseTyped, Inv, Typed
<1>3. \A j \in i + 1 .. Len(jobs) : j \in 1 .. Len(jobs)
  BY <1>2
<1>4. ~ \E j \in i + 1 .. Len(jobs) : jobs[j] = Stopped
  BY <1>2, <1>3 DEF Stopping
<1>5. Len(reads) > 0 => reads[Len(reads)].seen /\ reads[Len(reads)].answered
  <2>1. Len(reads) > 0 => Len(reads) \in 1 .. Len(reads)
    BY <1>2
  <2> QED
    BY <1>2, <2>1 DEF OneUnseen
<1>6. readQueue = << >>
  BY <1>5, OneWaits
<1>7. ~ \E j \in i + 1 .. Len(jobs) : IsAnswer(jobs[j])
  BY <1>3, <1>5 DEF OneUnseen
<1> QED
  BY <1>1, <1>4, <1>6, <1>7 DEF Later

\* next() counts for every write it wakes.
LEMMA NextCallCounted ==
  ASSUME Inv, Inv', Places, Counted, InOrder, OneUnseen, [Channel!Next]_(Channel!vars),
         NextCall, ~Stopping, \A n \in DOMAIN reads : reads[n].seen
  PROVE  Counted'
<1>1. PICK e \in Seq(Job), r \in Read :
        /\ Moved(0, e) /\ next' = Unresolved /\ UNCHANGED <<mode, write, sent>>
        /\ reads' = Append(reads, r)
        /\ Len(next.q) <= Len(e)
        /\ \A m \in 1 .. Len(e) :
             IF m <= Len(next.q) THEN e[m] = Wake(next.q[m], TRUE)
             ELSE e[m] = Answer(Len(reads) + 1)
        /\ Len(e) > Len(next.q) \/ (readQueue' # << >> /\ mode = "open")
  BY NextCallMoves DEF Places
<1>2. PICK d \in Int : d = 0 /\ Moved(d, e)
  BY <1>1
<1>3. /\ reads \in Seq(Read) /\ Len(reads) \in Nat /\ next.q \in Seq(Write)
      /\ Len(next.q) \in Nat /\ Len(jobs) \in Nat /\ Len(e) \in Nat
  BY DEF Places, PromiseTyped, Inv, Typed
<1>4. Len(reads') = Len(reads) + 1
  BY <1>1, <1>3, AppendProperties
<1>5. next'.q = << >> /\ Len(next'.q) = 0 /\ next'.st = "pending"
  BY <1>1, EmptySeq DEF Unresolved
<1>6. QueueCounts'
  <2>1. \A v : ~Queued(v)'
    BY <1>5 DEF Queued
  <2> QED
    BY <1>5 DEF QueueCounts, Queued
<1>7. \A i \in 1 .. Len(jobs) : ~(IsWake(jobs[i]) /\ jobs[i].ok)
  BY NoneGoing
<1>8. ASSUME NEW m \in 1 .. Len(e), IsWake(e[m])
      PROVE  m \in 1 .. Len(next.q) /\ e[m].w = next.q[m] /\ next.q[m] \in Write
  <2>1. m <= Len(next.q)
    <3>1. Len(reads) + 1 \in Nat
      BY <1>3
    <3> QED
      BY <1>1, <1>8, <3>1, MadeJobs
  <2>2. m \in 1 .. Len(next.q) /\ next.q[m] \in Write
    BY <1>3, <2>1
  <2>3. e[m] = Wake(next.q[m], TRUE)
    BY <1>1, <2>1
  <2> QED
    BY <2>2, <2>3, MadeJobs
<1>9. ASSUME NEW w \in Write, Going(w)'
      PROVE  /\ mode' = "cancelled" => next'.st = "rejected"
             /\ write'[w].left = 1 => Delivered(w)'
             /\ mode' # "cancelled" =>
                  \A k \in 1 .. Len(sent') : sent'[k] = w => write'[w].left = k - Len(reads') + 2
  <2>1. ~Going(w)
    BY <1>7 DEF Going
  <2>2. PICK m \in 1 .. Len(e) : IsWake(e[m]) /\ e[m].w = w
    BY <1>2, <1>9, <2>1, GoingBefore DEF Places
  <2>3. Queued(w)
    BY <1>8, <2>2 DEF Queued
  <2>4. /\ mode # "cancelled"
        /\ \A k \in 1 .. Len(sent) : sent[k] = w => write[w].left = k - Len(reads) + 1
        /\ write[w].left = 1 => Delivered(w)'
    BY <2>3, LastTurn DEF Counted
  <2>5. ASSUME NEW k \in 1 .. Len(sent), sent[k] = w
        PROVE  write[w].left = k - Len(reads') + 2
    <3>1. write[w].left = k - Len(reads) + 1
      BY <2>4, <2>5
    <3> QED
      BY <1>3, <1>4, <3>1
  <2> QED
    BY <1>1, <2>4, <2>5
<1>10. GoingCounts'
  BY <1>9 DEF GoingCounts
<1>11. ASSUME NEW i \in 1 .. Len(jobs'), IsWake(jobs'[i]), jobs'[i].ok
       PROVE  Later(i)'
  <2>1. \/ i + d \in 1 .. Len(jobs) /\ jobs'[i] = jobs[i + d]
        \/ \E m \in 1 .. Len(e) : i = Len(jobs) - d + m /\ jobs'[i] = e[m]
    BY <1>2, MoveCases DEF Places
  <2>2. PICK m \in 1 .. Len(e) : i = Len(jobs) - d + m /\ jobs'[i] = e[m]
    BY <1>7, <1>11, <2>1
  <2>3. m \in 1 .. Len(next.q)
    BY <1>8, <1>11, <2>2
  <2>4. mode' # "cancelled"
    <3>1. next.q # << >>
      BY <2>3, EmptySeq
    <3> QED
      BY <1>1, <3>1 DEF Counted, QueueCounts
  <2>5. CASE readQueue' # << >>
    BY <2>4, <2>5 DEF Later
  <2>6. CASE Len(e) > Len(next.q)
    <3>1. Len(e) \in 1 .. Len(e) /\ ~(Len(e) <= Len(next.q)) /\ Len(reads) + 1 \in Nat
      BY <1>3, <2>6
    <3>2. IsAnswer(e[Len(e)])
      BY <1>1, <3>1, MadeJobs
    <3>3. /\ Len(jobs') = Len(jobs) - d + Len(e)
          /\ jobs'[Len(jobs) - d + Len(e)] = e[Len(e)]
      BY <1>2, <3>1 DEF Moved
    <3>4. Len(jobs') \in i + 1 .. Len(jobs') /\ IsAnswer(jobs'[Len(jobs')])
      BY <1>2, <1>3, <2>2, <2>3, <2>6, <3>2, <3>3
    <3> QED
      BY <2>4, <3>4 DEF Later
  <2> QED
    BY <1>1, <2>5, <2>6
<1>12. BeforeNext'
  BY <1>11 DEF BeforeNext
<1>13. ResolvedDelivered'
  <2>1. \A v \in Write : write'[v].st = "resolved" => write[v].st = "resolved"
    BY <1>1
  <2> QED
    BY <2>1, ResolvedStays DEF Counted
<1> QED
  BY <1>6, <1>10, <1>12, <1>13 DEF Counted

\* throw() and return() leave no write to count.
LEMMA StopCounted ==
  ASSUME Inv, Inv', Places, Counted, InOrder, [Channel!Next]_(Channel!vars),
         NEW ok \in BOOLEAN, Stop(ok)
  PROVE  Counted'
<1>1. PICK e \in Seq(Job) :
        /\ Moved(0, e) /\ Len(e) = Len(next.q) + Len(readQueue) + 1
        /\ \A m \in 1 .. Len(next.q) : e[m] = Wake(next.q[m], ok)
        /\ \A m \in 1 .. Len(readQueue) : e[Len(next.q) + m] = Answer(readQueue[m])
        /\ e[Len(e)] = Stopped
  BY StopMoves DEF Places
<1>2. PICK d \in Int : d = 0 /\ Moved(d, e)
  BY <1>1
<1>3. /\ next' = Refusing /\ mode' = "cancelled" /\ UNCHANGED <<write, sent>>
      /\ next'.q = << >> /\ next'.st = "rejected" /\ Len(next'.q) = 0
  <2>1. next' = Refusing /\ mode' = "cancelled" /\ UNCHANGED <<write, sent>>
    BY DEF Stop
  <2> QED
    BY <2>1, EmptySeq DEF Refusing
<1>4. /\ next.q \in Seq(Write) /\ Len(next.q) \in Nat /\ Len(readQueue) \in Nat
      /\ readQueue \in Seq(Nat) /\ Len(jobs) \in Nat /\ Len(e) \in Nat
  BY DEF Places, PromiseTyped, Inv, Typed
<1>5. QueueCounts'
  BY <1>3 DEF QueueCounts, Queued
<1>6. ASSUME NEW m \in 1 .. Len(e), IsWake(e[m])
      PROVE  m \in 1 .. Len(next.q) /\ e[m].w = next.q[m] /\ m # Len(e)
  <2>1. m # Len(e)
    BY <1>1, <1>6, MadeJobs
  <2>2. m <= Len(next.q)
    <3>1. ASSUME ~(m <= Len(next.q))
          PROVE  FALSE
      <4> DEFINE i == m - Len(next.q)
      <4>1. i \in 1 .. Len(readQueue) /\ Len(next.q) + i = m
        BY <1>1, <1>4, <2>1, <3>1
      <4> HIDE DEF i
      <4>2. e[m] = Answer(readQueue[i]) /\ readQueue[i] \in Nat
        <5>1. e[Len(next.q) + i] = Answer(readQueue[i])
          BY <1>1, <4>1
        <5>2. readQueue[i] \in Nat
          BY <1>4, <4>1
        <5> QED
          BY <4>1, <5>1, <5>2
      <4> QED
        BY <1>6, <4>2, MadeJobs
    <3> QED
      BY <3>1
  <2>3. m \in 1 .. Len(next.q) /\ next.q[m] \in Write
    BY <1>4, <2>2
  <2>4. e[m] = Wake(next.q[m], ok)
    BY <1>1, <2>3
  <2> QED
    BY <2>1, <2>3, <2>4, MadeJobs
<1>7. ASSUME NEW w \in Write, Going(w)'
      PROVE  write'[w].left = 1 => Delivered(w)'
  <2>1. Going(w) \/ \E m \in 1 .. Len(e) : IsWake(e[m]) /\ e[m].ok /\ e[m].w = w
    BY <1>2, <1>7, GoingBefore DEF Places
  <2>2. CASE Going(w)
    <3>1. write[w].left = 1 => Delivered(w)
      BY <2>2 DEF Counted, GoingCounts
    <3> QED
      BY <1>3, <3>1, DeliveredStays
  <2>3. CASE \E m \in 1 .. Len(e) : IsWake(e[m]) /\ e[m].ok /\ e[m].w = w
    <3>1. Queued(w)
      BY <1>6, <2>3 DEF Queued
    <3>2. write[w].left = 1 => Delivered(w)'
      BY <3>1, LastTurn DEF Counted
    <3> QED
      BY <1>3, <3>2
  <2> QED
    BY <2>1, <2>2, <2>3
<1>8. GoingCounts'
  BY <1>3, <1>7 DEF GoingCounts
<1>9. ASSUME NEW i \in 1 .. Len(jobs'), IsWake(jobs'[i])
      PROVE  Later(i)'
  <2>1. Len(e) \in 1 .. Len(e)
    BY <1>1, <1>4
  <2>2. Len(jobs') = Len(jobs) - d + Len(e) /\ jobs'[Len(jobs')] = Stopped
    BY <1>1, <1>2, <2>1 DEF Moved
  <2>3. i # Len(jobs')
    BY <1>9, <2>2, MadeJobs
  <2>4. Len(jobs') \in i + 1 .. Len(jobs')
    BY <1>2, <1>4, <2>2, <2>3
  <2> QED
    BY <2>2, <2>4 DEF Later
<1>10. BeforeNext'
  BY <1>9 DEF BeforeNext
<1>11. ResolvedDelivered'
  <2>1. \A v \in Write : write'[v].st = "resolved" => write[v].st = "resolved"
    BY <1>3
  <2> QED
    BY <2>1, ResolvedStays DEF Counted
<1> QED
  BY <1>5, <1>8, <1>10, <1>11 DEF Counted

\* A write that is resumed counts the read that woke it, or resolves.
LEMMA ResumeCounted ==
  ASSUME Inv, Inv', Places, Places', Counted, [Channel!Next]_(Channel!vars), Resume
  PROVE  Counted'
<1>1. PICK w \in Write, ok \in BOOLEAN :
        /\ Len(jobs) > 0 /\ jobs[1] = Wake(w, ok) /\ IsWake(jobs[1]) /\ jobs[1].w = w
        /\ jobs[1].ok = ok /\ write[w].st = "waiting"
        /\ UNCHANGED <<readQueue, writeQueue, mode, reads, sent>>
        /\ \/ /\ ok => write[w].left = 1
              /\ next' = next /\ Moved(1, << >>)
              /\ write' = [write EXCEPT ![w].st = IF ok THEN "resolved" ELSE "rejected"]
           \/ /\ ok /\ write[w].left > 1
              /\ AwaitNext(w, write[w].left - 1) /\ next.st = "pending"
              /\ Moved(1, << >>)
           \/ /\ ok /\ AwaitNext(w, write[w].left - 1) /\ next.st = "rejected"
              /\ Moved(1, << Wake(w, FALSE) >>)
  BY Resumed
<1>2. /\ write \in [Write -> Progress] /\ write[w].left \in Int /\ Len(reads) \in Nat
      /\ Len(jobs) \in Nat /\ 1 \in 1 .. Len(jobs) /\ sent \in Seq(Write)
      /\ mode' = "cancelled" <=> mode = "cancelled"
      /\ Len(reads') = Len(reads) /\ sent' = sent /\ readQueue' = readQueue
  BY <1>1 DEF Places, PromiseTyped, Inv, Typed, Progress
<1>3. ok => Going(w)
  BY <1>1, <1>2 DEF Going
<1>4. ok => /\ mode = "cancelled" => next.st = "rejected"
            /\ write[w].left = 1 => Delivered(w)
            /\ mode # "cancelled" =>
                 \A k \in 1 .. Len(sent) : sent[k] = w => write[w].left = k - Len(reads) + 2
  BY <1>3 DEF Counted, GoingCounts
<1>5. PICK none : none = << >> /\ \A m \in 1 .. Len(none) : FALSE
  BY EmptySeq
<1>6. CASE /\ ok => write[w].left = 1
           /\ next' = next /\ Moved(1, << >>)
           /\ write' = [write EXCEPT ![w].st = IF ok THEN "resolved" ELSE "rejected"]
  <2>1. PICK d \in Int : d = 1 /\ Moved(d, none)
    BY <1>5, <1>6
  <2>2. /\ write'[w].left = write[w].left /\ write'[w].st = IF ok THEN "resolved" ELSE "rejected"
        /\ \A v \in Write \ {w} : write'[v] = write[v]
    BY <1>2, <1>6 DEF Progress
  <2>3. QueueCounts' /\ GoingCounts'
    <3>1. /\ \A v \in Write : write'[v].left = write[v].left
          /\ \A m \in 1 .. Len(none) : ~IsWake(none[m])
      BY <1>5, <2>2
    <3> QED
      BY <1>2, <1>6, <2>1, <3>1, CountStays DEF Counted
  <2>4. BeforeNext'
    <3>1. /\ \A m \in 1 .. Len(none) : ~(IsWake(none[m]) /\ none[m].ok)
          /\ readQueue # << >> => readQueue' # << >>
      BY <1>2, <1>5
    <3> QED
      BY <1>2, <2>1, <3>1, LaterStays DEF Places, Counted
  <2>5. ASSUME NEW v \in Write, write'[v].st = "resolved"
        PROVE  Delivered(v)'
    <3>1. CASE v = w
      <4>1. Delivered(w)
        BY <1>4, <1>6, <2>2, <2>5, <3>1
      <4> QED
        BY <3>1, <4>1, DeliveredStays
    <3>2. CASE v # w
      <4>1. Delivered(v)
        BY <2>2, <2>5, <3>2 DEF Counted, ResolvedDelivered
      <4> QED
        BY <4>1, DeliveredStays
    <3> QED
      BY <3>1, <3>2
  <2> QED
    BY <2>3, <2>4, <2>5 DEF Counted, ResolvedDelivered
<1>7. ASSUME NEW e, Moved(1, e), \A m \in 1 .. Len(e) : ~(IsWake(e[m]) /\ e[m].ok),
             \A v \in Write \ {w} : write'[v] = write[v], write'[w].st = "waiting"
      PROVE  /\ BeforeNext' /\ ResolvedDelivered'
             /\ \A v \in Write : Going(v)' => Going(v)
  <2>1. PICK d \in Int : d = 1 /\ Moved(d, e)
    BY <1>7
  <2>2. BeforeNext'
    BY <1>2, <1>7, <2>1, LaterStays DEF Places, Counted
  <2>3. ResolvedDelivered'
    <3>1. \A v \in Write : write'[v].st = "resolved" => write[v].st = "resolved"
      BY <1>7
    <3> QED
      BY <3>1, ResolvedStays DEF Counted
  <2>4. \A v \in Write : Going(v)' => Going(v)
    BY <1>7, <2>1, GoingBefore DEF Places
  <2> QED
    BY <2>2, <2>3, <2>4
<1>8. ASSUME \A v \in Write : Going(v)' => Going(v), ~Going(w)',
             \A v \in Write \ {w} : write'[v] = write[v],
             mode # "cancelled" \/ next' = next
      PROVE  GoingCounts'
  <2>1. ASSUME NEW v \in Write, Going(v)'
        PROVE  /\ mode' = "cancelled" => next'.st = "rejected"
               /\ write'[v].left = 1 => Delivered(v)'
               /\ mode' # "cancelled" =>
                    \A k \in 1 .. Len(sent') : sent'[k] = v => write'[v].left = k - Len(reads') + 2
    <3>1. v # w /\ Going(v)
      BY <1>8, <2>1
    <3>2. write'[v] = write[v]
      BY <1>8, <3>1
    <3>3. Delivered(v) => Delivered(v)'
      BY DeliveredStays
    <3> QED
      BY <1>2, <1>8, <3>1, <3>2, <3>3 DEF Counted, GoingCounts
  <2> QED
    BY <2>1 DEF GoingCounts
<1>9. CASE /\ ok /\ write[w].left > 1
           /\ AwaitNext(w, write[w].left - 1) /\ next.st = "pending"
           /\ Moved(1, << >>)
  <2>1. /\ next'.q = Append(next.q, w)
        /\ write'[w] = [st |-> "waiting", left |-> write[w].left - 1]
        /\ \A v \in Write \ {w} : write'[v] = write[v]
    BY <1>9, AwaitQueues DEF Places
  <2>2. mode # "cancelled"
    BY <1>4, <1>9
  <2>3. next.q \in Seq(Write) /\ Len(next.q) \in Nat
    BY DEF Places, PromiseTyped
  <2>4. /\ Len(next'.q) = Len(next.q) + 1 /\ next'.q[Len(next.q) + 1] = w
        /\ \A i \in 1 .. Len(next.q) : next'.q[i] = next.q[i]
    BY <2>1, <2>3, AppendProperties
  <2>5. Queued(w)'
    <3>1. Len(next.q) + 1 \in 1 .. Len(next'.q)
      BY <2>3, <2>4
    <3> QED
      BY <2>4, <3>1 DEF Queued
  <2>6. ~Going(w)'
    <3>1. Going(w)' => Due(w)'
      BY DEF Going, Due
    <3>2. ~(Queued(w)' /\ Due(w)')
      BY DEF Places, OnePlace
    <3> QED
      BY <2>5, <3>1, <3>2
  <2>7. /\ BeforeNext' /\ ResolvedDelivered'
        /\ \A v \in Write : Going(v)' => Going(v)
    <3>1. Moved(1, none) /\ \A m \in 1 .. Len(none) : ~(IsWake(none[m]) /\ none[m].ok)
      BY <1>5, <1>9
    <3>2. write'[w].st = "waiting"
      BY <2>1
    <3> QED
      BY <1>7, <2>1, <3>1, <3>2
  <2>8. GoingCounts'
    BY <1>8, <2>1, <2>2, <2>6, <2>7
  <2>9. ASSUME NEW k \in 1 .. Len(sent), NEW i \in 1 .. Len(next'.q), next'.q[i] = sent[k]
        PROVE  write'[sent[k]].left = k - Len(reads) + 1 /\ Len(reads) <= k
    <3>1. CASE sent[k] = w
      <4>1. write[w].left = k - Len(reads) + 2
        BY <1>4, <1>9, <2>2, <3>1
      <4>2. write'[w].left = write[w].left - 1
        BY <2>1
      <4>0. k \in Nat /\ Len(reads) \in Nat
        BY <1>2
      <4>5. PICK a \in Nat, b \in Nat : a = k /\ b = Len(reads)
        BY <4>0
      <4>3. a = k /\ b = Len(reads) /\ a - b + 2 > 1
        BY <1>9, <4>1, <4>5
      <4>4. a - b + 2 - 1 = a - b + 1 /\ b <= a
        BY <4>3
      <4> QED
        BY <3>1, <4>1, <4>2, <4>3, <4>4
    <3>2. CASE sent[k] # w
      <4>1. i # Len(next.q) + 1
        BY <2>4, <2>9, <3>2
      <4>2. i \in 1 .. Len(next.q) /\ next.q[i] = sent[k]
        BY <2>3, <2>4, <2>9, <4>1
      <4>3. Queued(sent[k])
        BY <4>2 DEF Queued
      <4>4. write[sent[k]].left = k - Len(reads) + 1 /\ Len(reads) <= k
        BY <4>3 DEF Counted, QueueCounts
      <4>5. sent[k] \in Write
        BY <1>2
      <4> QED
        BY <2>1, <3>2, <4>4, <4>5
    <3> QED
      BY <3>1, <3>2
  <2>10. QueueCounts'
    BY <1>2, <2>2, <2>9 DEF QueueCounts, Queued
  <2> QED
    BY <2>7, <2>8, <2>10 DEF Counted
<1>10. CASE /\ ok /\ AwaitNext(w, write[w].left - 1) /\ next.st = "rejected"
            /\ Moved(1, << Wake(w, FALSE) >>)
  <2>1. PICK j, e : /\ j \in Job /\ Moved(1, e) /\ Len(e) = 1 /\ e[1] = j
                  /\ IsWake(j) /\ j.w = w /\ ~j.ok
    <3>1. /\ Wake(w, FALSE) \in Job /\ IsWake(Wake(w, FALSE)) /\ Wake(w, FALSE).w = w
          /\ Wake(w, FALSE).ok = FALSE
      BY MadeJobs
    <3>2. Len(<< Wake(w, FALSE) >>) = 1 /\ << Wake(w, FALSE) >>[1] = Wake(w, FALSE)
      OBVIOUS
    <3> QED
      BY <1>10, <3>1, <3>2
  <2>2. next' = next /\ write' = [write EXCEPT ![w] = [st |-> "waiting", left |-> write[w].left - 1]]
    BY <1>10 DEF AwaitNext
  <2>3. write'[w].st = "waiting" /\ \A v \in Write \ {w} : write'[v] = write[v]
    BY <2>2, OneAdvances
  <2>4. ~Going(w)'
    <3>1. Len(jobs') = Len(jobs) /\ jobs'[Len(jobs)] = j
      BY <1>2, <2>1 DEF Moved
    <3>2. Len(jobs) \in 1 .. Len(jobs')
      BY <1>2, <3>1
    <3>3. ASSUME NEW i \in 1 .. Len(jobs'), IsWake(jobs'[i]), jobs'[i].ok, jobs'[i].w = w
          PROVE  FALSE
      <4>1. i = Len(jobs)
        BY <2>1, <3>1, <3>2, <3>3 DEF Places, OnePlace
      <4> QED
        BY <2>1, <3>1, <3>3, <4>1
    <3> QED
      BY <3>3 DEF Going
  <2>5. /\ BeforeNext' /\ ResolvedDelivered'
        /\ \A v \in Write : Going(v)' => Going(v)
    <3>1. \A m \in 1 .. Len(e) : ~(IsWake(e[m]) /\ e[m].ok)
      BY <2>1
    <3> QED
      BY <1>7, <2>1, <2>3, <3>1
  <2>6. GoingCounts'
    BY <1>8, <2>2, <2>3, <2>4, <2>5
  <2>7. QueueCounts'
    <3>1. next.q = << >>
      BY <1>10 DEF Places, PromiseTyped
    <3> QED
      BY <2>2, <3>1, EmptySeq DEF QueueCounts, Queued
  <2> QED
    BY <2>5, <2>6, <2>7 DEF Counted
<1> QED
  BY <1>1, <1>6, <1>9, <1>10

(* With a consumer that awaits each answer.                                    *)
Calm == OneUnseen /\ Counted

WriteInv == Inv /\ Places /\ InOrder /\ (~eager => Calm)

\* A write that is resumed answers no read.
LEMMA ResumeUnseen ==
  ASSUME Inv, Places, OneUnseen, Resume
  PROVE  OneUnseen'
<1>1. reads' = reads
  BY DEF Resume
<1>2. PICK w \in Write : Moved(1, << >>) \/ Moved(1, << Wake(w, FALSE) >>)
  BY Resumed
<1>3. PICK e : Moved(1, e) /\ \A m \in 1 .. Len(e) : ~IsAnswer(e[m])
  <2>1. CASE Moved(1, << >>)
    BY <2>1, EmptySeq
  <2>2. CASE Moved(1, << Wake(w, FALSE) >>)
    <3>1. /\ Len(<< Wake(w, FALSE) >>) = 1 /\ << Wake(w, FALSE) >>[1] = Wake(w, FALSE)
          /\ \A m \in 1 .. 1 : m = 1
      OBVIOUS
    <3>2. ~IsAnswer(Wake(w, FALSE))
      BY MadeJobs
    <3> QED
      BY <2>2, <3>1, <3>2
  <2> QED
    BY <1>2, <2>1, <2>2
<1>4. PICK d \in Int : d = 1 /\ Moved(d, e)
  BY <1>3
<1> QED
  BY <1>1, <1>3, <1>4, UnseenStays DEF Places

\* Each step keeps the order of the reads of such a consumer.
LEMMA StepUnseen ==
  ASSUME Inv, Places, OneUnseen, [Next]_vars, ~eager
  PROVE  OneUnseen' /\ (Receive \/ Close => Len(reads') = Len(reads))
<1>1. CASE UNCHANGED <<reads, jobs>>
  <2>1. reads' = reads /\ jobs' = jobs
    BY <1>1
  <2>2. OneUnseen'
    BY <2>1 DEF OneUnseen
  <2> QED
    BY <2>1, <2>2
<1>2. CASE Receive
  BY <1>2, ReceiveUnseen DEF Places
<1>3. CASE Close
  BY <1>3, CloseUnseen DEF Places
<1>4. CASE ~Receive /\ ~Close
  <2>1. ASSUME NEW w \in Write, WriteCall(w)
        PROVE  OneUnseen'
    <3>1. CASE HandOver(w)
      BY <3>1, HandOverUnseen DEF Places
    <3>2. CASE Refuse(w)
      BY <1>1, <3>2 DEF Refuse
    <3>3. CASE Enqueue(w)
      BY <1>1, <3>3 DEF Enqueue
    <3> QED
      BY <2>1, <3>1, <3>2, <3>3 DEF WriteCall
  <2>2. CASE NextCall
    BY <1>4, <2>2, NextCallUnseen DEF Places, NextCall, MayAsk
  <2>3. CASE Throw \/ Return
    <3>1. PICK ok \in BOOLEAN : Stop(ok)
      BY <2>3 DEF Throw, Return
    <3> QED
      BY <3>1, StopUnseen DEF Places
  <2>4. CASE Resume
    BY <1>4, <2>4, ResumeUnseen
  <2>5. CASE UNCHANGED vars
    BY <1>1, <2>5 DEF vars
  <2> QED
    BY <1>4, <2>1, <2>2, <2>3, <2>4, <2>5 DEF Next
<1> QED
  BY <1>2, <1>3, <1>4

\* Each step keeps the count.
LEMMA StepCounted ==
  ASSUME Inv, Inv', Places, Places', InOrder, OneUnseen, Counted, [Next]_vars, ~eager,
         [Channel!Next]_(Channel!vars)
  PROVE  Counted'
<1>1. ASSUME NEW w \in Write, WriteCall(w)
      PROVE  Counted'
  BY <1>1, RefuseCounted, EnqueueCounted, HandOverCounted DEF WriteCall
<1>2. CASE NextCall
  BY <1>2, NextCallCounted DEF NextCall, MayAsk
<1>3. CASE Throw \/ Return
  <2>1. PICK ok \in BOOLEAN : Stop(ok)
    BY <1>3 DEF Throw, Return
  <2> QED
    BY <2>1, StopCounted
<1>4. CASE Receive \/ Close
  BY <1>4, StepUnseen, ReceiveCounted, CloseCounted
<1>5. CASE UNCHANGED vars
  <2>1. UNCHANGED <<next, jobs, mode, write, sent, reads, readQueue>>
    BY <1>5 DEF vars
  <2>2. /\ \A w : Queued(w)' <=> Queued(w)
        /\ \A w : Going(w)' <=> Going(w)
        /\ \A w : Delivered(w)' <=> Delivered(w)
        /\ \A i : Later(i)' <=> Later(i)
    BY <2>1 DEF Queued, Going, Delivered, Later
  <2>3. QueueCounts'
    BY <2>1 DEF Counted, QueueCounts, Queued
  <2> QED
    BY <2>1, <2>2, <2>3 DEF Counted, GoingCounts, BeforeNext, ResolvedDelivered
<1> QED
  BY <1>1, <1>2, <1>3, <1>4, <1>5, ResumeCounted DEF Next

\* At first there is nothing to count.
LEMMA InitCalm ==
  ASSUME Init
  PROVE  WriteInv
<1>1. Inv /\ Places
  BY InitImplements, InitPlaces
<1>2. /\ reads = << >> /\ jobs = << >> /\ sent = << >> /\ readQueue = << >>
      /\ next.q = << >> /\ \A w \in Write : write[w].st = "new"
      /\ Len(<< >>) = 0
  BY EmptySeq DEF Init, Unresolved
<1>3. Given = 0 /\ \A i \in 1 .. 0 : FALSE
  BY <1>2 DEF Given
<1>4. InOrder /\ OneUnseen
  BY <1>2, <1>3 DEF InOrder, OneUnseen
<1>5. Counted
  BY <1>2, <1>3 DEF Counted, QueueCounts, GoingCounts, BeforeNext, ResolvedDelivered, Going
<1> QED
  BY <1>1, <1>4, <1>5 DEF WriteInv, Calm

\* What the writes know of the reads, at every moment: each write that waits has one
\* place, and as many turns left as calls of next() are still to come for it.
THEOREM WritesCount == Spec => []WriteInv
<1>1. Init => WriteInv
  BY InitCalm
<1>2. WriteInv /\ [Next]_vars => WriteInv'
  <2> SUFFICES ASSUME WriteInv, [Next]_vars
               PROVE  WriteInv'
    OBVIOUS
  <2>1. Inv /\ Places /\ InOrder
    BY DEF WriteInv
  <2>2. Inv' /\ [Channel!Next]_(Channel!vars)
    BY <2>1, StepImplements
  <2>3. Places' /\ InOrder'
    BY <2>1, <2>2, StepPlaces, StepInOrder
  <2>4. eager' = eager
    BY DEF Next, vars
  <2>5. ASSUME ~eager
        PROVE  Calm'
    BY <2>1, <2>2, <2>3, <2>5, StepUnseen, StepCounted DEF WriteInv, Calm
  <2> QED
    BY <2>2, <2>3, <2>4, <2>5 DEF WriteInv
<1> QED
  BY <1>1, <1>2, PTL DEF Spec

\* With a consumer that awaits each result, a write() that resolves has had its
\* payload delivered, whatever the writers and the consumer do in between.
THEOREM ResolvedIsDelivered == Spec => []ResolvedWasDelivered
<1>1. WriteInv => ResolvedWasDelivered
  <2> SUFFICES ASSUME WriteInv, ~eager, NEW w \in Write, write[w].st = "resolved"
               PROVE  \E n \in DOMAIN reads : reads[n].answered /\ reads[n].value = w
    BY DEF ResolvedWasDelivered
  <2>1. Delivered(w)
    BY DEF WriteInv, Calm, Counted, ResolvedDelivered
  <2>2. DOMAIN reads = 1 .. Len(reads)
    BY DEF WriteInv, Inv, Typed
  <2> QED
    BY <2>1, <2>2 DEF Delivered
<1> QED
  BY <1>1, WritesCount, PTL

\* Once the microtasks have run, a write() that such a consumer keeps waiting has
\* its payload, or the call after the one that takes it, still to come.
THEOREM AcknowledgedOnTime == Spec => []AcknowledgedInTime
<1>1. WriteInv => AcknowledgedInTime
  <2> SUFFICES ASSUME WriteInv, ~eager, jobs = << >>, NEW k \in DOMAIN sent,
                      write[sent[k]].st = "waiting"
               PROVE  Len(reads) <= k /\ mode # "cancelled"
    BY DEF AcknowledgedInTime
  <2>1. k \in 1 .. Len(sent) /\ sent[k] \in Write
    BY DEF WriteInv, Inv, Typed
  <2>2. ~Due(sent[k])
    <3>1. Len(jobs) = 0
      BY EmptySeq
    <3> QED
      BY <3>1 DEF Due
  <2>3. Queued(sent[k])
    BY <2>1, <2>2 DEF WriteInv, Places, OnePlace
  <2>4. next.q # << >>
    BY <2>3, EmptySeq DEF Queued
  <2> QED
    BY <2>1, <2>3, <2>4 DEF WriteInv, Calm, Counted, QueueCounts
<1> QED
  BY <1>1, WritesCount, PTL
=============================================================================
