---------------------------- MODULE BodiesProofs ----------------------------
(* Theorems about Bodies, for every limit, size of chunks, stream and hint.    *)
(* The first part says what a body is: where its envelopes begin, how many are *)
(* complete, and how many are good. BufferInv is the invariant for the size of *)
(* the buffer, ReadInv the one for what is made of a body.                     *)
EXTENDS Bodies, FiniteSetTheorems, WellFoundedInduction, TLAPS

-----------------------------------------------------------------------------
(* What a body is, and where its envelopes begin.                             *)

(* A set of numbers that is not empty has a least one.                        *)
LEMMA LeastNatural ==
  ASSUME NEW T \in SUBSET Nat, T # {}
  PROVE  \E n \in T : \A k \in T : n <= k
<1> PICK m \in T : TRUE
  OBVIOUS
<1> DEFINE S == {k \in T : k <= m}
           I == {0 .. k : k \in S}
<1>1. I \subseteq FiniteSubsetsOf(0 .. m) /\ I # {}
  <2>1. IsFiniteSet(0 .. m)
    BY FS_Interval
  <2>2. FiniteSubsetsOf(0 .. m) = SUBSET (0 .. m)
    BY <2>1, FS_FiniteSubsetsOfFinite
  <2> QED  BY <2>2
<1>2. PICK i \in I : \A j \in I : ~ (<<j, i>> \in StrictSubsetOrdering(0 .. m))
  <2>1. IsWellFoundedOn(StrictSubsetOrdering(0 .. m), FiniteSubsetsOf(0 .. m))
    BY FS_StrictSubsetOrderingWellFounded
  <2> HIDE DEF I
  <2> QED  BY <1>1, <2>1, WFMin
<1>3. PICK n \in S : i = 0 .. n
  OBVIOUS
<1>4. ASSUME NEW k \in S, k < n
      PROVE  FALSE
  <2>1. n \in 0 .. n /\ n \notin 0 .. k
    BY <1>4
  <2>2. <<0 .. k, 0 .. n>> \in StrictSubsetOrdering(0 .. m)
    BY <1>4, <2>1 DEF StrictSubsetOrdering
  <2> QED  BY <1>2, <1>3, <2>2
<1> QED  BY <1>4

(* Where the envelopes begin, from one to the next.                           *)
NextBegin(lens, at, i) == IF i = 1 THEN 0 ELSE at[i - 1] + Header + lens[i - 1]

AreBegins(lens, at, n) == at = [i \in 1 .. (n + 1) |-> NextBegin(lens, at, i)]

(* The first n + 1 places exist.                                              *)
LEMMA BeginsExist ==
  ASSUME NEW lens \in Seq(Nat), NEW n \in 0 .. Len(lens)
  PROVE  \E at : AreBegins(lens, at, n)
<1> DEFINE T == {k \in 0 .. Len(lens) : ~ \E at : AreBegins(lens, at, k)}
<1>1. SUFFICES ASSUME T # {}
               PROVE  FALSE
  OBVIOUS
<1>2. PICK m \in T : \A k \in T : m <= k
  <2>1. T \in SUBSET Nat
    OBVIOUS
  <2> HIDE DEF T
  <2> QED  BY <1>1, <2>1, LeastNatural
<1>3. CASE m = 0
  <2> DEFINE z == [i \in 1 .. (0 + 1) |-> 0]
  <2>1. z = [i \in 1 .. (0 + 1) |-> NextBegin(lens, z, i)]
    BY DEF NextBegin
  <2> HIDE DEF z
  <2>2. AreBegins(lens, z, 0)
    BY <2>1 DEF AreBegins
  <2> QED  BY <1>3, <2>2
<1>4. CASE m # 0
  <2>1. m \in 1 .. Len(lens) /\ m - 1 \in 0 .. Len(lens) /\ m - 1 \notin T
    BY <1>2, <1>4
  <2>2. PICK at : AreBegins(lens, at, m - 1)
    BY <2>1
  <2> DEFINE z == [i \in 1 .. (m + 1) |-> IF i = m + 1 THEN at[m] + Header + lens[m] ELSE at[i]]
  <2>3. \A i \in 1 .. m : at[i] = NextBegin(lens, at, i)
    <3>1. at = [i \in 1 .. ((m - 1) + 1) |-> NextBegin(lens, at, i)] /\ (m - 1) + 1 = m
      BY <2>1, <2>2 DEF AreBegins
    <3> QED  BY <3>1, Zenon
  <2>4. ASSUME NEW i \in 1 .. (m + 1)
        PROVE  z[i] = NextBegin(lens, z, i)
    <3>1. CASE i = m + 1
      <4>1. i # 1 /\ i - 1 = m /\ z[m] = at[m] /\ z[i] = at[m] + Header + lens[m]
        BY <2>1, <3>1
      <4> HIDE DEF z
      <4> QED  BY <4>1 DEF NextBegin
    <3>2. CASE i # m + 1
      <4>1. i \in 1 .. m /\ z[i] = at[i]
        BY <2>1, <3>2
      <4>2. i # 1 => z[i - 1] = at[i - 1]
        BY <2>1, <4>1
      <4> HIDE DEF z
      <4> QED  BY <2>3, <4>1, <4>2 DEF NextBegin
    <3> QED  BY <3>1, <3>2
  <2>5. z = [i \in 1 .. (m + 1) |-> z[i]]
    OBVIOUS
  <2> HIDE DEF z
  <2>6. AreBegins(lens, z, m)
    BY <2>4, <2>5 DEF AreBegins
  <2> QED  BY <2>1, <2>6
<1> QED  BY <1>3, <1>4

(* An envelope begins 5 bytes and its length after the one before it.         *)
LEMMA BeginsAre ==
  ASSUME NEW lens \in Seq(Nat)
  PROVE  /\ Begins(lens)[1] = 0
         /\ \A i \in 1 .. Len(lens) :
              Begins(lens)[i + 1] = Begins(lens)[i] + Header + lens[i]
<1> DEFINE B == Begins(lens)
<1>1. Begins(lens) = CHOOSE at : AreBegins(lens, at, Len(lens))
  BY DEF Begins, AreBegins, NextBegin
<1>2. AreBegins(lens, B, Len(lens))
  <2>1. Len(lens) \in 0 .. Len(lens)
    OBVIOUS
  <2>2. \E at : AreBegins(lens, at, Len(lens))
    BY <2>1, BeginsExist
  <2> QED  BY <1>1, <2>2, Zenon
<1>3. \A i \in 1 .. (Len(lens) + 1) : B[i] = NextBegin(lens, B, i)
  <2> HIDE DEF B
  <2> QED  BY <1>2, Zenon DEF AreBegins
<1> HIDE DEF B
<1>4. B[1] = 0
  BY <1>3 DEF NextBegin
<1>5. ASSUME NEW i \in 1 .. Len(lens)
      PROVE  B[i + 1] = B[i] + Header + lens[i]
  <2>1. i + 1 \in 1 .. (Len(lens) + 1) /\ i + 1 # 1 /\ (i + 1) - 1 = i
    OBVIOUS
  <2> QED  BY <1>3, <2>1 DEF NextBegin
<1> QED  BY <1>4, <1>5 DEF B

(* The places are numbers, and grow.                                          *)
LEMMA BeginsGrow ==
  ASSUME NEW lens \in Seq(Nat)
  PROVE  \A j \in 1 .. (Len(lens) + 1) :
           /\ Begins(lens)[j] \in Nat
           /\ \A i \in 1 .. j : Begins(lens)[i] <= Begins(lens)[j]
<1> DEFINE B    == Begins(lens)
           G(j) == B[j] \in Nat /\ \A i \in 1 .. j : B[i] \in Nat /\ B[i] <= B[j]
           T    == {j \in 1 .. (Len(lens) + 1) : ~G(j)}
<1>1. B[1] = 0 /\ \A i \in 1 .. Len(lens) : B[i + 1] = B[i] + Header + lens[i]
  BY BeginsAre
<1> HIDE DEF B
<1>2. SUFFICES ASSUME T # {}
               PROVE  FALSE
  BY DEF B
<1>3. PICK m \in T : \A k \in T : m <= k
  <2>1. T \in SUBSET Nat
    OBVIOUS
  <2> HIDE DEF T
  <2> QED  BY <1>2, <2>1, LeastNatural
<1>4. m # 1
  BY <1>1
<1>5. m - 1 \in 1 .. Len(lens) /\ G(m - 1)
  BY <1>3, <1>4
<1>6. (m - 1) + 1 = m /\ B[m] = B[m - 1] + Header + lens[m - 1] /\ lens[m - 1] \in Nat
  BY <1>1, <1>5
<1>7. B[m] \in Nat /\ B[m - 1] <= B[m]
  BY <1>5, <1>6 DEF Header
<1>8. ASSUME NEW i \in 1 .. m
      PROVE  B[i] \in Nat /\ B[i] <= B[m]
  <2>1. CASE i = m
    BY <1>7, <2>1
  <2>2. CASE i # m
    <3>1. i \in 1 .. m - 1
      BY <2>2
    <3> QED  BY <1>5, <1>7, <3>1
  <2> QED  BY <2>1, <2>2
<1> QED  BY <1>3, <1>7, <1>8

(* A body of n envelopes: their lengths, and how much of them arrives.        *)
WireOK(w, by) ==
  /\ DOMAIN w.envelopes = 1 .. Len(w.lens)
  /\ w.lens \in Seq(Nat)
  /\ \A i \in 1 .. Len(w.lens) :
       w.lens[i] = w.envelopes[i].len /\ w.envelopes[i].of.size \in Nat
  /\ w.size \in 0 .. Size(w.lens)
  /\ by = "web" => /\ w.end = "parsed"
                   /\ \A i \in 1 .. Len(w.lens) : w.lens[i] = w.envelopes[i].of.size
  /\ by = "all" => Len(w.lens) = 1 /\ w.size = w.lens[1] /\ w.compression = TRUE

(* The last place that so many bytes reach.                                   *)
LEMMA LastBegun ==
  ASSUME NEW lens \in Seq(Nat), NEW size \in Nat
  PROVE  \E n \in 0 .. Len(lens) :
           /\ Begins(lens)[n + 1] <= size
           /\ n < Len(lens) => Begins(lens)[n + 2] > size
<1> DEFINE B == Begins(lens)
           T == {k \in 0 .. Len(lens) : k < Len(lens) => B[k + 2] > size}
<1>1. B[1] = 0 /\ \A j \in 1 .. (Len(lens) + 1) : B[j] \in Nat
  BY BeginsAre, BeginsGrow
<1> HIDE DEF B
<1>2. PICK n \in T : \A k \in T : n <= k
  <2>1. T \in SUBSET Nat /\ Len(lens) \in T
    OBVIOUS
  <2> HIDE DEF T
  <2> QED  BY <2>1, LeastNatural
<1>3. B[n + 1] <= size
  <2>1. CASE n = 0
    BY <1>1, <2>1
  <2>2. CASE n # 0
    <3>1. n \in 0 .. Len(lens) /\ n - 1 \in 0 .. Len(lens)
      BY <2>2
    <3>4. n - 1 \notin T
      <4> HIDE DEF T
      <4> QED  BY <1>2, <3>1
    <3>2. ~(B[(n - 1) + 2] > size) /\ (n - 1) + 2 = n + 1 /\ n + 1 \in 1 .. (Len(lens) + 1)
      BY <3>1, <3>4
    <3>3. ~(B[n + 1] > size) /\ B[n + 1] \in Nat
      BY <1>1, <3>2
    <3> QED  BY <3>3
  <2> QED  BY <2>1, <2>2
<1> QED  BY <1>2, <1>3 DEF B

(* An envelope is complete if the place after it is reached.                  *)
LEMMA CompleteIs ==
  ASSUME NEW w, NEW by, WireOK(w, by)
  PROVE  /\ Complete(w) \in 0 .. Len(w.lens)
         /\ \A i \in 0 .. Len(w.lens) : i <= Complete(w) <=> Begins(w.lens)[i + 1] <= w.size
<1> DEFINE B == Begins(w.lens)
           L == Len(w.lens)
           c == Complete(w)
<1>1. w.lens \in Seq(Nat) /\ L \in Nat
  BY DEF WireOK
<1>2. \A j \in 1 .. (L + 1) : B[j] \in Nat /\ \A i \in 1 .. j : B[i] <= B[j]
  BY <1>1, BeginsGrow
<1>3. w.size \in Nat
  <2>1. Size(w.lens) \in Nat /\ w.size \in 0 .. Size(w.lens)
    BY <1>1, <1>2 DEF Size, WireOK
  <2> QED  BY <2>1
<1>4. c \in 0 .. L /\ B[c + 1] <= w.size /\ (c < L => B[c + 2] > w.size)
  <2>1. \E n \in 0 .. L : B[n + 1] <= w.size /\ (n < L => B[n + 2] > w.size)
    BY <1>1, <1>3, LastBegun
  <2>2. c = CHOOSE n \in 0 .. L : B[n + 1] <= w.size /\ (n < L => B[n + 2] > w.size)
    BY DEF Complete
  <2> HIDE DEF c, B, L
  <2> QED  BY <2>1, <2>2, Zenon
<1> HIDE DEF c, B, L
<1>5. ASSUME NEW i \in 0 .. L
      PROVE  i <= c <=> B[i + 1] <= w.size
  <2>1. CASE i <= c
    <3>1. i + 1 \in 1 .. c + 1 /\ c + 1 \in 1 .. (L + 1)
      BY <1>1, <1>4, <2>1
    <3>3. \A k \in 1 .. c + 1 : B[k] <= B[c + 1]
      BY <1>2, <3>1
    <3>4. i + 1 \in 1 .. (L + 1)
      BY <1>1
    <3>2. B[i + 1] <= B[c + 1] /\ B[i + 1] \in Nat /\ B[c + 1] \in Nat
      BY <1>2, <3>1, <3>3, <3>4
    <3> QED  BY <1>3, <1>4, <2>1, <3>2
  <2>2. CASE ~(i <= c)
    <3>1. c < L /\ c + 2 \in 1 .. i + 1 /\ i + 1 \in 1 .. (L + 1)
      BY <1>1, <1>4, <2>2
    <3>2. B[c + 2] <= B[i + 1] /\ B[i + 1] \in Nat /\ B[c + 2] \in Nat
      BY <1>1, <1>2, <3>1
    <3> QED  BY <1>3, <1>4, <2>2, <3>1, <3>2
  <2> QED  BY <2>1, <2>2
<1> QED  BY <1>4, <1>5 DEF c, B, L

(* The good envelopes are all there are, or those before one that is not.     *)
LEMMA GoodIs ==
  ASSUME NEW w, NEW by, WireOK(w, by)
  PROVE  /\ Good(w, by) \in 0 .. Len(w.lens)
         /\ \A i \in 1 .. Good(w, by) : Judged(w, by, i) = NoCode
         /\ Good(w, by) < Len(w.lens) => Judged(w, by, Good(w, by) + 1) # NoCode
<1> DEFINE J(i) == Judged(w, by, i)
           L    == Len(w.lens)
           T    == {k \in 0 .. L : k < L => J(k + 1) # NoCode}
<1>1. L \in Nat
  BY DEF WireOK
<1> HIDE DEF L, J
<1>2. PICK n \in T : \A k \in T : n <= k
  <2>1. T \in SUBSET Nat /\ L \in T
    BY <1>1
  <2> HIDE DEF T
  <2> QED  BY <2>1, LeastNatural
<1>3. ASSUME NEW i \in 1 .. n
      PROVE  J(i) = NoCode
  <2>1. i - 1 \in 0 .. L /\ i - 1 \notin T /\ (i - 1) + 1 = i
    BY <1>1, <1>2
  <2>2. J((i - 1) + 1) = NoCode
    BY <2>1
  <2> QED  BY <2>1, <2>2
<1>4. \E k \in 0 .. L : (\A i \in 1 .. k : J(i) = NoCode) /\ (k < L => J(k + 1) # NoCode)
  BY <1>2, <1>3
<1>5. Good(w, by) = CHOOSE k \in 0 .. L :
                      (\A i \in 1 .. k : J(i) = NoCode) /\ (k < L => J(k + 1) # NoCode)
  BY DEF Good, J, L
<1> DEFINE g == Good(w, by)
<1>6. /\ g \in 0 .. L /\ \A i \in 1 .. g : J(i) = NoCode
      /\ g < L => J(g + 1) # NoCode
  <2> HIDE DEF T, g
  <2> QED  BY <1>4, <1>5, Zenon DEF g
<1> QED  BY <1>6 DEF J, L

(* A prefix-closed set of places is an interval.                              *)
LEMMA Interval ==
  ASSUME NEW n \in Nat, NEW S \in SUBSET (1 .. n),
         \A i \in S : \A j \in 1 .. i : j \in S
  PROVE  \E k \in 0 .. n : S = 1 .. k
<1> DEFINE T == {k \in 0 .. n : k + 1 \notin S}
<1>1. PICK k \in T : \A j \in T : k <= j
  <2>1. T \in SUBSET Nat /\ n \in T
    OBVIOUS
  <2> HIDE DEF T
  <2> QED  BY <2>1, LeastNatural
<1>2. \A i \in S : i <= k
  <2> SUFFICES ASSUME NEW i \in S, k < i
               PROVE  FALSE
    OBVIOUS
  <2>1. k + 1 \in 1 .. i
    OBVIOUS
  <2> QED  BY <1>1, <2>1
<1>3. \A i \in 1 .. k : i \in S
  <2> SUFFICES ASSUME NEW i \in 1 .. k
               PROVE  i \in S
    OBVIOUS
  <2>1. i - 1 \in 0 .. n /\ i - 1 \notin T /\ (i - 1) + 1 = i
    BY <1>1
  <2> QED  BY <2>1
<1>4. k \in 0 .. n
  OBVIOUS
<1> HIDE DEF T
<1>5. S = 1 .. k
  <2>1. \A i \in S : i \in 1 .. k
    BY <1>2, <1>4
  <2> QED  BY <1>3, <2>1
<1> QED  BY <1>4, <1>5

(* The envelopes that come of a stream are those of its first messages.       *)
LEMMA EnvelopesAre ==
  ASSUME NEW compressions, NEW envelopes \in Written(compressions)
  PROVE  /\ \E n \in Nat : envelopes = [i \in 1 .. n |-> envelopes[i]]
         /\ \A i \in DOMAIN envelopes :
              /\ envelopes[i].len \in Nat /\ envelopes[i].of.size \in Nat
              /\ compressions = {FALSE} => envelopes[i].len = envelopes[i].of.size
<1>1. PICK messages \in Streams, c \in compressions :
        envelopes = transformSerializeEnvelope(messages, c)
  BY DEF Written
<1> DEFINE written == {i \in 1 .. Len(messages) :
                         \A j \in 1 .. i : serialize(messages[j]) = NoCode}
<1>2. envelopes = [i \in written |-> envelopeCompress(messages[i], c)]
  BY <1>1 DEF transformSerializeEnvelope
<1>3. \E n \in 0 .. Len(messages) : written = 1 .. n
  <2>1. Len(messages) \in Nat
    BY StreamsAssumption
  <2>2. written \in SUBSET (1 .. Len(messages))
    OBVIOUS
  <2>3. ASSUME NEW i \in written, NEW j \in 1 .. i
        PROVE  j \in written
    <3>1. j \in 1 .. Len(messages) /\ \A k \in 1 .. j : k \in 1 .. i
      BY <2>1
    <3> QED  BY <3>1
  <2> HIDE DEF written
  <2> QED  BY <2>1, <2>2, <2>3, Interval
<1>4. \E n \in Nat : envelopes = [i \in 1 .. n |-> envelopes[i]]
  <2>1. envelopes = [i \in written |-> envelopes[i]]
    BY <1>2
  <2> HIDE DEF written
  <2>2. PICK n \in 0 .. Len(messages) : written = 1 .. n
    BY <1>3
  <2>3. n \in Nat
    OBVIOUS
  <2> QED  BY <2>1, <2>2, <2>3
<1>5. ASSUME NEW i \in DOMAIN envelopes
      PROVE  /\ envelopes[i].len \in Nat /\ envelopes[i].of.size \in Nat
             /\ compressions = {FALSE} => envelopes[i].len = envelopes[i].of.size
  <2>1. i \in 1 .. Len(messages) /\ envelopes[i] = envelopeCompress(messages[i], c)
    BY <1>2, <1>5
  <2>2. messages[i].size \in Nat /\ messages[i].compressed \in Nat
    BY <2>1, StreamsAssumption
  <2>3. envelopes[i].of = messages[i]
    BY <2>1 DEF envelopeCompress
  <2>4. envelopes[i].len \in Nat
    BY <2>1, <2>2 DEF envelopeCompress
  <2>5. ~c => envelopes[i].len = messages[i].size
    BY <2>1 DEF envelopeCompress
  <2> QED  BY <2>2, <2>3, <2>4, <2>5
<1> QED  BY <1>4, <1>5

(* A body that is cut off somewhere.                                          *)
IsCut(w, es, cs, ends, compressions) ==
  /\ DOMAIN w.envelopes = 1 .. Len(w.lens)
  /\ w.lens \in Seq(Nat) /\ w.envelopes = es /\ w.compression \in cs /\ w.end \in ends
  /\ \A i \in 1 .. Len(w.lens) :
       w.lens[i] = w.envelopes[i].len /\ w.envelopes[i].of.size \in Nat
  /\ w.size \in 0 .. Size(w.lens)
  /\ compressions = {FALSE} =>
       \A i \in 1 .. Len(w.lens) : w.lens[i] = w.envelopes[i].of.size

(* A body that is cut off has the envelopes of the stream.                    *)
LEMMA CutIs ==
  ASSUME NEW compressions, NEW es \in Written(compressions), NEW cs, NEW ends,
         NEW w \in Cut(es, cs, ends)
  PROVE  IsCut(w, es, cs, ends, compressions)
<1>1. PICK n \in Nat : es = [i \in 1 .. n |-> es[i]]
  BY EnvelopesAre
<1>2. PICK size \in 0 .. Size([i \in DOMAIN es |-> es[i].len]), c \in cs,
           end \in ends : w = Wire(es, size, c, end)
  BY DEF Cut
<1>3. /\ w.envelopes = es /\ w.lens = [i \in DOMAIN es |-> es[i].len]
      /\ w.size = size /\ w.compression = c /\ w.end = end
  BY <1>2 DEF Wire
<1>4. DOMAIN es = 1 .. n
  BY <1>1
<1>5. \A i \in DOMAIN es : es[i].len \in Nat /\ es[i].of.size \in Nat
                           /\ (compressions = {FALSE} => es[i].len = es[i].of.size)
  BY EnvelopesAre
<1>6. w.lens = [i \in 1 .. n |-> es[i].len]
  BY <1>3, <1>4
<1>7. w.lens \in [1 .. n -> Nat]
  BY <1>4, <1>5, <1>6
<1>8. w.lens \in Seq(Nat) /\ Len(w.lens) = n
  BY <1>7
<1>9. \A i \in 1 .. n : w.lens[i] = es[i].len
  BY <1>6
<1>10. w.size \in 0 .. Size(w.lens)
  BY <1>2, <1>3
<1> QED  BY <1>3, <1>4, <1>5, <1>8, <1>9, <1>10 DEF IsCut

(* The bodies of a reader are such bodies.                                    *)
LEMMA WiresOK ==
  ASSUME NEW by \in {"split", "web", "all"}, NEW w \in Wires(by)
  PROVE  WireOK(w, by)
<1>1. CASE by = "split"
  <2>1. PICK es \in Written(BOOLEAN) : w \in Cut(es, BOOLEAN, EndIs)
    BY <1>1 DEF Wires
  <2>2. IsCut(w, es, BOOLEAN, EndIs, BOOLEAN)
    BY <2>1, CutIs
  <2> QED  BY <1>1, <2>2 DEF WireOK, IsCut
<1>2. CASE by = "web"
  <2>1. PICK es \in Written({FALSE}) : w \in Cut(es, {FALSE}, {"parsed"})
    BY <1>2 DEF Wires
  <2>2. IsCut(w, es, {FALSE}, {"parsed"}, {FALSE})
    BY <2>1, CutIs
  <2> QED  BY <1>2, <2>2 DEF WireOK, IsCut
<1>3. CASE by = "all"
  <2>1. PICK es \in Single : w \in Cut(es, {TRUE}, {"message"}) /\ w.size = w.lens[1]
    BY <1>3 DEF Wires
  <2>2. es \in Written(BOOLEAN) /\ Len(es) = 1
    BY <2>1 DEF Single
  <2>3. IsCut(w, es, {TRUE}, {"message"}, BOOLEAN)
    BY <2>1, <2>2, CutIs
  <2>4. Len(w.lens) = 1
    <3>1. PICK n \in Nat : es = [i \in 1 .. n |-> es[i]]
      BY <2>2, EnvelopesAre
    <3>2. Len(es) = n /\ DOMAIN es = 1 .. n
      BY <3>1
    <3>3. Len(w.lens) \in Nat /\ DOMAIN es = 1 .. Len(w.lens)
      BY <2>3 DEF IsCut
    <3> QED  BY <2>2, <3>2, <3>3
  <2> QED  BY <1>3, <2>1, <2>3, <2>4 DEF WireOK, IsCut
<1> QED  BY <1>1, <1>2, <1>3

-----------------------------------------------------------------------------
(* How much a reader holds.                                                   *)

(* The inductive invariant: what the reader holds and what the headers say    *)
(* are numbers, and the bound.                                                *)
Lengths == \A i \in DOMAIN wire.lens : wire.lens[i] \in Nat

Reader ==
  /\ {"by", "hint", "buffer"} \subseteq DOMAIN r
  /\ r.hint # << >> => r.hint[1] \in Nat
  /\ r.by # "web" => r.buffer \in Nat

BufferInv == Lengths /\ Reader /\ BufferBounded

\* The next length is a number.
LEMMA NextLenIsNat == ASSUME BufferInv PROVE NextLen \in Nat
BY DEF BufferInv, Lengths, NextLen

\* A step that leaves the buffer as it is keeps the invariant.
LEMMA SameBuffer ==
  ASSUME BufferInv, UNCHANGED wire, DOMAIN r' = DOMAIN r, r'.by = r.by, r'.hint = r.hint,
         r'.buffer = r.buffer
  PROVE  BufferInv'
BY DEF BufferInv, Lengths, Reader, BufferBounded

\* An error leaves the buffer as it is.
LEMMA FailsKeeps ==
  ASSUME BufferInv, UNCHANGED wire, NEW code, Fails(code)
  PROVE  BufferInv'
<1>1. /\ DOMAIN r' = DOMAIN r /\ r'.by = r.by /\ r'.hint = r.hint
      /\ r'.buffer = r.buffer
  BY DEF Fails
<1> QED
  BY <1>1, SameBuffer

\* Neither does taking bytes from the buffer break it.
LEMMA LessKeeps ==
  ASSUME BufferInv, UNCHANGED wire, DOMAIN r' = DOMAIN r, r'.by = r.by, r'.hint = r.hint,
         r.by # "web" => r'.buffer \in Nat /\ r'.buffer <= r.buffer
  PROVE  BufferInv'
BY LimitAssumption, ChunkAssumption DEF BufferInv, Lengths, Reader, BufferBounded, Header

\* A chunk keeps the bound, if what is held before is no more than a message.
LEMMA ChunkKeeps ==
  ASSUME BufferInv, UNCHANGED wire, TakeChunk,
         r.by # "web" => r.buffer <= Header + readMaxBytes
  PROVE  BufferInv'
<1>1. PICK k \in 0 .. MaxChunk : r' = [r EXCEPT !.buffer = @ + k, !.read = @ + k]
  BY DEF TakeChunk
<1>2. /\ DOMAIN r' = DOMAIN r /\ r'.by = r.by /\ r'.hint = r.hint
      /\ r'.buffer = r.buffer + k
  BY <1>1 DEF BufferInv, Reader
<1> QED
  BY <1>2, LimitAssumption, ChunkAssumption DEF BufferInv, Lengths, Reader, BufferBounded, Header

-----------------------------------------------------------------------------
(* A reader with a limit holds no more than a message of the permitted size,   *)
(* and the chunk that exceeds it: it takes a chunk only when it knows of no    *)
(* length over the limit and has less than the message it waits for.           *)
THEOREM BuffersAreBounded == Spec => []BufferBounded
<1>1. Init => BufferInv
  <2> SUFFICES ASSUME Init PROVE BufferInv
    OBVIOUS
  <2>1. PICK b \in Readers :
          /\ wire \in Wires(b.by)
          /\ r = [by |-> b.by, hint |-> b.hint, read |-> 0, buffer |-> 0,
                  out |-> << >>, st |-> "reading", code |-> NoCode]
    BY DEF Init
  <2>2. b.by \in {"split", "web", "all"} /\ (b.hint # << >> => b.hint[1] \in Nat)
    BY <2>1, HintsAssumption DEF Readers
  <2>3. Lengths
    <3>1. WireOK(wire, b.by)
      BY <2>1, <2>2, WiresOK
    <3>2. wire.lens \in Seq(Nat)
      BY <3>1 DEF WireOK
    <3> QED  BY <3>2 DEF Lengths
  <2> QED
    BY <2>1, <2>2, <2>3, LimitAssumption, ChunkAssumption
       DEF BufferInv, Reader, BufferBounded, Header
<1>2. ASSUME BufferInv, [Next]_vars PROVE BufferInv'
  <2>1. CASE SplitLimit
    BY <1>2, <2>1, FailsKeeps DEF SplitLimit, Reading
  <2>2. CASE SplitShift
    <3>1. CASE Decode(NextEnvelope) = NoCode
      <4>1. /\ r' = Yields(Adds(NextEnvelope.of, wire.end), Header + NextLen) /\ UNCHANGED wire
            /\ r.by = "split" /\ r.buffer >= Header + NextLen
        BY <2>2, <3>1 DEF SplitShift, Reading, Fits
      <4>2. /\ DOMAIN r' = DOMAIN r /\ r'.by = r.by /\ r'.hint = r.hint
            /\ r'.buffer = r.buffer - (Header + NextLen)
        BY <1>2, <4>1 DEF Yields, BufferInv, Reader
      <4>3. r.buffer \in Nat /\ NextLen \in Nat
        BY <1>2, <4>1, NextLenIsNat DEF BufferInv, Reader
      <4>4. r'.buffer \in Nat /\ r'.buffer <= r.buffer
        BY <4>1, <4>2, <4>3 DEF Header
      <4> QED
        BY <1>2, <4>1, <4>2, <4>4, LessKeeps
    <3>2. CASE Decode(NextEnvelope) # NoCode
      BY <1>2, <2>2, <3>2, FailsKeeps DEF SplitShift, Reading
    <3> QED
      BY <3>1, <3>2
  <2>3. CASE SplitChunk
    <3>1. TakeChunk /\ UNCHANGED wire /\ r.by = "split" /\ SplitWaits
      BY <2>3 DEF SplitChunk, Reading
    <3>2. r.buffer \in Nat /\ NextLen \in Nat
      BY <1>2, <3>1, NextLenIsNat DEF BufferInv, Reader
    <3>3. r.buffer <= Header + readMaxBytes
      BY <3>1, <3>2, LimitAssumption DEF SplitWaits, HasHeader, TooLong, Fits, Header
    <3> QED
      BY <1>2, <3>1, <3>3, ChunkKeeps
  <2>4. CASE SplitEnd \/ WebEnd
    <3>1. CASE \E code : Fails(code)
      BY <1>2, <2>4, <3>1, FailsKeeps DEF SplitEnd, WebEnd, Reading
    <3>2. CASE r' = [r EXCEPT !.st = "done"]
      BY <1>2, <2>4, <3>2, SameBuffer DEF SplitEnd, WebEnd, Reading
    <3>3. CASE /\ r.by = "web" /\ UNCHANGED wire
               /\ r' = [Yields(r.buffer - Header, r.buffer) EXCEPT !.st = "done"]
      BY <1>2, <3>3, LessKeeps DEF Yields
    <3> QED
      BY <2>4, <3>1, <3>2, <3>3 DEF SplitEnd, WebEnd, Reading
  <2>5. CASE WebEnqueue
    <3>1. r.by = "web" /\ UNCHANGED wire
      BY <2>5 DEF WebEnqueue, Reading
    <3>2. CASE r' = [r EXCEPT !.st = "garbled"]
      BY <1>2, <3>1, <3>2, SameBuffer
    <3>3. CASE \E code : Fails(code)
      BY <1>2, <3>1, <3>3, FailsKeeps
    <3>4. CASE r' = Yields(NextLen, Header + NextLen)
      BY <1>2, <3>1, <3>4, LessKeeps DEF Yields
    <3> QED
      BY <2>5, <3>2, <3>3, <3>4 DEF WebEnqueue
  <2>6. CASE WebChunk
    BY <1>2, <2>6, ChunkKeeps DEF WebChunk, Reading
  <2>7. CASE AllFails
    BY <1>2, <2>7, FailsKeeps DEF AllFails, Reading
  <2>8. CASE AllChunk
    <3>1. /\ TakeChunk /\ UNCHANGED wire /\ r.by = "all" /\ ~AllLimit /\ ~AllTooMany
          /\ r.buffer \in Nat /\ (r.hint # << >> => r.hint[1] \in Nat)
      BY <1>2, <2>8 DEF AllChunk, Reading, BufferInv, Reader
    <3>2. r.buffer <= Header + readMaxBytes
      BY <3>1, LimitAssumption DEF AllLimit, AllTooMany, Header
    <3> QED
      BY <1>2, <3>1, <3>2, ChunkKeeps
  <2>9. CASE AllEnd
    <3>1. r.by = "all" /\ UNCHANGED wire /\ r.buffer \in Nat
      BY <1>2, <2>9 DEF AllEnd, Reading, BufferInv, Reader
    <3>2. CASE \E code : Fails(code)
      BY <1>2, <3>1, <3>2, FailsKeeps
    <3>3. CASE r' = [Yields(Adds(NextEnvelope.of, wire.end), r.buffer) EXCEPT !.st = "done"]
      <4>1. /\ DOMAIN r' = DOMAIN r /\ r'.by = r.by /\ r'.hint = r.hint
            /\ r'.buffer = r.buffer - r.buffer
        BY <1>2, <3>3 DEF Yields, BufferInv, Reader
      <4> QED
        BY <1>2, <3>1, <4>1, LessKeeps
    <3> QED
      BY <2>9, <3>2, <3>3 DEF AllEnd
  <2>10. CASE UNCHANGED vars
    BY <1>2, <2>10, SameBuffer DEF vars
  <2> QED
    BY <1>2, <2>1, <2>2, <2>3, <2>4, <2>5, <2>6, <2>7, <2>8, <2>9, <2>10 DEF Next
<1>3. BufferInv => BufferBounded
  BY DEF BufferInv
<1> QED
  BY <1>1, <1>2, <1>3, PTL DEF Spec

-----------------------------------------------------------------------------
(* What a reader makes of a body.                                             *)

(* The sizes of the first messages, and of one more.                          *)
LEMMA SizesAre ==
  ASSUME NEW w, NEW by, WireOK(w, by), NEW k \in 0 .. Len(w.lens)
  PROVE  Sizes(w, k) \in Seq(Int) /\ Len(Sizes(w, k)) = k
<1>1. Len(w.lens) \in Nat
  BY DEF WireOK
<1>2. Sizes(w, k) \in [1 .. k -> Int]
  <2>1. \A i \in 1 .. k : Adds(w.envelopes[i].of, w.end) \in Int
    BY <1>1 DEF WireOK, Adds, Skipped
  <2> QED  BY <2>1 DEF Sizes
<1> QED  BY <1>1, <1>2

(* The sizes of fewer messages begin those of more.                           *)
LEMMA SizesBegin ==
  ASSUME NEW w, NEW by, WireOK(w, by), NEW m \in 0 .. Len(w.lens), NEW k \in 0 .. m
  PROVE  SubSeq(Sizes(w, m), 1, k) = Sizes(w, k)
<1>1. Len(w.lens) \in Nat
  BY DEF WireOK
<1>2. Sizes(w, m) \in Seq(Int) /\ Len(Sizes(w, m)) = m
  BY SizesAre
<1>3. k \in 0 .. Len(w.lens)
  BY <1>1
<1>4. Sizes(w, k) \in Seq(Int) /\ Len(Sizes(w, k)) = k
  BY <1>3, SizesAre
<1>5. \A i \in 1 .. k : i \in 1 .. m /\ Sizes(w, m)[i] = Sizes(w, k)[i]
  BY <1>1 DEF Sizes
<1> DEFINE s == Sizes(w, m)
           t == Sizes(w, k)
<1> HIDE DEF s, t
<1>6. s \in Seq(Int) /\ Len(s) = m /\ t \in Seq(Int) /\ Len(t) = k
      /\ \A i \in 1 .. k : s[i] = t[i]
  BY <1>2, <1>4, <1>5 DEF s, t
<1>7. SubSeq(s, 1, k) = t
  BY <1>1, <1>6
<1> QED  BY <1>7 DEF s, t

(* One more message.                                                          *)
LEMMA SizesNext ==
  ASSUME NEW w, NEW by, WireOK(w, by), NEW k \in 0 .. Len(w.lens), k < Len(w.lens)
  PROVE  Append(Sizes(w, k), Adds(w.envelopes[k + 1].of, w.end)) = Sizes(w, k + 1)
<1>1. Len(w.lens) \in Nat
  BY DEF WireOK
<1>2. Sizes(w, k) \in Seq(Int) /\ Len(Sizes(w, k)) = k
  BY SizesAre
<1>3. k + 1 \in 0 .. Len(w.lens)
  BY <1>1
<1>4. Sizes(w, k + 1) \in Seq(Int) /\ Len(Sizes(w, k + 1)) = k + 1
  BY <1>3, SizesAre
<1>5. /\ \A i \in 1 .. k : Sizes(w, k + 1)[i] = Sizes(w, k)[i]
      /\ Sizes(w, k + 1)[k + 1] = Adds(w.envelopes[k + 1].of, w.end)
  BY <1>1 DEF Sizes
<1> DEFINE s == Sizes(w, k)
           t == Sizes(w, k + 1)
           e == Adds(w.envelopes[k + 1].of, w.end)
<1> HIDE DEF s, t, e
<1>6. s \in Seq(Int) /\ Len(s) = k /\ t \in Seq(Int) /\ Len(t) = k + 1
      /\ (\A i \in 1 .. k : t[i] = s[i]) /\ t[k + 1] = e
  BY <1>2, <1>4, <1>5 DEF s, t, e
<1>7. e \in Int
  BY <1>6
<1>8. Append(s, e) = t
  BY <1>1, <1>6, <1>7
<1> QED  BY <1>8 DEF s, t, e

(* The first envelope that is not good, if there is one.                      *)
LEMMA StopsAt ==
  ASSUME NEW w, NEW by, WireOK(w, by), NEW k \in 0 .. Len(w.lens), k < Len(w.lens),
         \A i \in 1 .. k : Judged(w, by, i) = NoCode, Judged(w, by, k + 1) # NoCode
  PROVE  Good(w, by) = k
<1> DEFINE g    == Good(w, by)
           L    == Len(w.lens)
           J(i) == Judged(w, by, i)
<1>1. /\ g \in 0 .. L /\ \A i \in 1 .. g : J(i) = NoCode
      /\ g < L => J(g + 1) # NoCode
  BY GoodIs
<1>2. L \in Nat
  BY DEF WireOK
<1>3. k \in 0 .. L /\ k < L /\ (\A i \in 1 .. k : J(i) = NoCode) /\ J(k + 1) # NoCode
  OBVIOUS
<1> HIDE DEF g, L, J
<1>4. ~(k < g)
  <2> SUFFICES ASSUME k < g
               PROVE  FALSE
    OBVIOUS
  <2>1. k + 1 \in 1 .. g
    BY <1>1, <1>2, <1>3
  <2> QED  BY <1>1, <1>3, <2>1
<1>5. ~(g < k)
  <2> SUFFICES ASSUME g < k
               PROVE  FALSE
    OBVIOUS
  <2>1. g + 1 \in 1 .. k /\ g < L
    BY <1>1, <1>2, <1>3
  <2> QED  BY <1>1, <1>3, <2>1
<1>6. g = k
  BY <1>1, <1>2, <1>3, <1>4, <1>5
<1> QED  BY <1>6 DEF g

(* If no envelope is bad, all are good.                                       *)
LEMMA AllGood ==
  ASSUME NEW w, NEW by, WireOK(w, by), \A i \in 1 .. Len(w.lens) : Judged(w, by, i) = NoCode
  PROVE  Good(w, by) = Len(w.lens)
<1> DEFINE g == Good(w, by)
           L == Len(w.lens)
<1>1. g \in 0 .. L /\ (g < L => Judged(w, by, g + 1) # NoCode)
  BY GoodIs
<1>2. L \in Nat /\ \A i \in 1 .. L : Judged(w, by, i) = NoCode
  BY DEF WireOK
<1> HIDE DEF g, L
<1>3. ~(g < L)
  <2> SUFFICES ASSUME g < L
               PROVE  FALSE
    OBVIOUS
  <2>1. g + 1 \in 1 .. L
    BY <1>1, <1>2
  <2> QED  BY <1>1, <1>2, <2>1
<1>4. g = L
  BY <1>1, <1>2, <1>3
<1> QED  BY <1>4 DEF g, L

(* What is complete when the next place is not reached.                       *)
LEMMA CompleteAt ==
  ASSUME NEW w, NEW by, WireOK(w, by), NEW k \in 0 .. Len(w.lens),
         Begins(w.lens)[k + 1] <= w.size,
         k < Len(w.lens) => ~(Begins(w.lens)[k + 2] <= w.size)
  PROVE  Complete(w) = k
<1> DEFINE c == Complete(w)
           L == Len(w.lens)
           B == Begins(w.lens)
<1>1. c \in 0 .. L /\ \A i \in 0 .. L : i <= c <=> B[i + 1] <= w.size
  BY CompleteIs
<1>2. L \in Nat /\ k \in 0 .. L /\ B[k + 1] <= w.size /\ (k < L => ~(B[k + 2] <= w.size))
  BY DEF WireOK
<1> HIDE DEF c, L, B
<1>3. k <= c
  BY <1>1, <1>2
<1>4. ~(k < c)
  <2> SUFFICES ASSUME k < c
               PROVE  FALSE
    OBVIOUS
  <2>1. k + 1 \in 0 .. L /\ (k + 1) + 1 = k + 2 /\ k + 1 <= c /\ k < L
    BY <1>1, <1>2
  <2> QED  BY <1>1, <1>2, <2>1
<1>5. c = k
  BY <1>1, <1>2, <1>3, <1>4
<1> QED  BY <1>5 DEF c

(* When the bytes end within an envelope whose length is permitted, none that *)
(* follows the complete ones can be told to be bad.                           *)
LEMMA EndsWell ==
  ASSUME NEW w, NEW by, WireOK(w, by), NEW k \in 0 .. Len(w.lens), Complete(w) = k,
         \A i \in 1 .. k : Judged(w, by, i) = NoCode,
         by = "split" /\ k < Len(w.lens) /\ Begins(w.lens)[k + 1] + Header <= w.size =>
           ~(w.lens[k + 1] > readMaxBytes)
  PROVE  Good(w, by) = Len(w.lens)
<1> DEFINE L == Len(w.lens)
           B == Begins(w.lens)
<1>1. L \in Nat /\ w.lens \in Seq(Nat)
  BY DEF WireOK
<1>2. \A i \in 0 .. L : i <= k <=> B[i + 1] <= w.size
  BY CompleteIs
<1>3. \A j \in 1 .. (L + 1) : B[j] \in Nat /\ \A i \in 1 .. j : B[i] <= B[j]
  BY <1>1, BeginsGrow
<1>4. w.size \in Nat
  <2>1. Size(w.lens) \in Nat /\ w.size \in 0 .. Size(w.lens)
    BY <1>1, <1>3 DEF Size, WireOK
  <2> QED  BY <2>1
<1>5. ASSUME NEW i \in 1 .. L, k < i
      PROVE  Judged(w, by, i) = NoCode
  <2>1. i > Complete(w)
    BY <1>1, <1>5
  <2>2. w.envelopes[i].len = w.lens[i]
    BY <1>5 DEF WireOK
  <2>3. ~(by = "split" /\ w.lens[i] > readMaxBytes /\ B[i] + Header <= w.size)
    <3> SUFFICES ASSUME by = "split", w.lens[i] > readMaxBytes, B[i] + Header <= w.size
                 PROVE  FALSE
      OBVIOUS
    <3>1. i # k + 1
      BY <1>1, <1>5
    <3>2. i - 1 \in 0 .. L /\ ~(i - 1 <= k) /\ (i - 1) + 1 = i /\ i \in 1 .. (L + 1)
      BY <1>1, <1>5, <3>1
    <3> HIDE DEF B, L
    <3>3. ~(B[i] <= w.size) /\ B[i] \in Nat
      BY <1>2, <1>3, <3>2
    <3> QED  BY <1>4, <3>3 DEF Header
  <2> HIDE DEF B, L
  <2>4. Judged(w, by, i) = IF by = "split" /\ w.lens[i] > readMaxBytes /\ B[i] + Header <= w.size
                           THEN ResourceExhausted
                           ELSE IF i > Complete(w) THEN NoCode
                           ELSE IF by = "web" THEN webParse(w.envelopes[i].of)
                           ELSE transformDecompressEnvelope(w.envelopes[i], w.compression, w.end)
    BY <2>2 DEF Judged, B
  <2> QED  BY <2>1, <2>3, <2>4
<1>6. \A i \in 1 .. Len(w.lens) : Judged(w, by, i) = NoCode
  <2> SUFFICES ASSUME NEW i \in 1 .. Len(w.lens)
               PROVE  Judged(w, by, i) = NoCode
    OBVIOUS
  <2>1. CASE i <= k
    <3>1. i \in 1 .. k
      BY <1>1, <2>1
    <3> QED  BY <3>1
  <2>2. CASE ~(i <= k)
    <3>1. k < i
      BY <1>1, <2>2
    <3> QED  BY <1>5, <3>1
  <2> QED  BY <2>1, <2>2
<1> QED  BY <1>6, AllGood

(* A reader that has come so far may yet arrive at one of the outcomes.       *)
LEMMA OutcomeAhead ==
  ASSUME NEW w, NEW by \in {"split", "web"}, NEW hint, WireOK(w, by),
         NEW k \in 0 .. Len(w.lens), Begins(w.lens)[k + 1] <= w.size,
         \A i \in 1 .. k : Judged(w, by, i) = NoCode
  PROVE  \E o \in Outcomes(w, by, hint) : \E m \in k .. Len(w.lens) : o[1] = Sizes(w, m)
<1> DEFINE g == Good(w, by)
           c == Complete(w)
           L == Len(w.lens)
<1>1. /\ g \in 0 .. L /\ \A i \in 1 .. g : Judged(w, by, i) = NoCode
      /\ g < L => Judged(w, by, g + 1) # NoCode
  BY GoodIs
<1>2. L \in Nat /\ k \in 0 .. L
  BY DEF WireOK
<1>3. CASE g < L
  <2>1. k <= g
    <3> SUFFICES ASSUME g < k
                 PROVE  FALSE
      BY <1>1, <1>2
    <3>1. g + 1 \in 1 .. k
      BY <1>1, <1>2
    <3> QED  BY <1>1, <1>3, <3>1
  <2>2. <<Sizes(w, g), Judged(w, by, g + 1)>> \in Outcomes(w, by, hint)
    BY <1>3 DEF Outcomes
  <2>3. g \in k .. L
    BY <1>1, <1>2, <2>1
  <2>4. <<Sizes(w, g), Judged(w, by, g + 1)>>[1] = Sizes(w, g)
    OBVIOUS
  <2> HIDE DEF g, L
  <2> QED  BY <2>2, <2>3, <2>4 DEF L
<1>4. CASE ~(g < L)
  <2>1. g = L
    BY <1>1, <1>2, <1>4
  <2>2. c \in k .. L
    <3>1. c \in 0 .. L /\ k <= c
      BY CompleteIs
    <3> QED  BY <1>2, <3>1
  <2>3. \E x : <<Sizes(w, c), x>> \in Outcomes(w, by, hint)
    <3>1. CASE by = "split"
      BY <2>1, <3>1, <1>4 DEF Outcomes
    <3>2. CASE by = "web"
      BY <2>1, <3>2, <1>4 DEF Outcomes
    <3> QED  BY <3>1, <3>2
  <2>4. PICK x : <<Sizes(w, c), x>> \in Outcomes(w, by, hint)
    BY <2>3
  <2>5. <<Sizes(w, c), x>>[1] = Sizes(w, c)
    OBVIOUS
  <2> HIDE DEF c, L
  <2> QED  BY <2>2, <2>4, <2>5 DEF L
<1> QED  BY <1>3, <1>4

(* The outcome of a body with an envelope that is not good, and of others.    *)
LEMMA OutcomeStops ==
  ASSUME NEW w, NEW by \in {"split", "web"}, NEW hint, WireOK(w, by),
         NEW k \in 0 .. Len(w.lens), k < Len(w.lens),
         \A i \in 1 .. k : Judged(w, by, i) = NoCode, Judged(w, by, k + 1) # NoCode
  PROVE  <<Sizes(w, k), Judged(w, by, k + 1)>> \in Outcomes(w, by, hint)
<1>1. Good(w, by) = k
  BY StopsAt
<1> QED  BY <1>1 DEF Outcomes

EndsAt(w, by, k, rest) ==
  /\ by \in {"split", "web"} /\ WireOK(w, by) /\ k \in 0 .. Len(w.lens)
  /\ Begins(w.lens)[k + 1] <= w.size
  /\ k < Len(w.lens) => ~(Begins(w.lens)[k + 2] <= w.size)
  /\ \A i \in 1 .. k : Judged(w, by, i) = NoCode
  /\ by = "split" /\ k < Len(w.lens) /\ Begins(w.lens)[k + 1] + Header <= w.size =>
       ~(w.lens[k + 1] > readMaxBytes)
  /\ rest = w.size - Begins(w.lens)[k + 1]

EndOutcomes(by, out, rest) ==
  {<<out, IF rest = 0 THEN NoCode ELSE IF by = "split" THEN InvalidArgument ELSE DataLoss>>}

(* What comes of a body that ends within an envelope, or after one.           *)
LEMMA OutcomeEnds ==
  ASSUME NEW w, NEW by, NEW hint, NEW k, NEW rest, EndsAt(w, by, k, rest)
  PROVE  /\ Outcomes(w, by, hint) = EndOutcomes(by, Sizes(w, k), rest)
         /\ rest >= Header => BreaksOff(w, by)
<1>0. /\ by \in {"split", "web"} /\ WireOK(w, by) /\ k \in 0 .. Len(w.lens)
      /\ Begins(w.lens)[k + 1] <= w.size
      /\ k < Len(w.lens) => ~(Begins(w.lens)[k + 2] <= w.size)
      /\ \A i \in 1 .. k : Judged(w, by, i) = NoCode
      /\ by = "split" /\ k < Len(w.lens) /\ Begins(w.lens)[k + 1] + Header <= w.size =>
           ~(w.lens[k + 1] > readMaxBytes)
      /\ rest = w.size - Begins(w.lens)[k + 1]
  BY DEF EndsAt
<1>1. Complete(w) = k
  BY <1>0, CompleteAt
<1>2. Good(w, by) = Len(w.lens) /\ Len(w.lens) \in Nat
  <2>1. Good(w, by) = Len(w.lens)
    BY <1>0, <1>1, EndsWell
  <2>2. Len(w.lens) \in Nat
    BY <1>0 DEF WireOK
  <2> QED  BY <2>1, <2>2
<1>3. Rest(w) = rest
  BY <1>0, <1>1 DEF Rest
<1>4. ~(Good(w, by) < Len(w.lens))
  BY <1>2
<1>7. rest >= Header => BreaksOff(w, by)
  BY <1>2, <1>3 DEF BreaksOff
<1>5. CASE by = "split"
  <2>1. Outcomes(w, by, hint) =
          {<<Sizes(w, Complete(w)), IF Rest(w) = 0 THEN NoCode ELSE InvalidArgument>>}
    BY <1>2, <1>4, <1>5 DEF Outcomes
  <2>2. EndOutcomes(by, Sizes(w, k), rest) =
          {<<Sizes(w, k), IF rest = 0 THEN NoCode ELSE InvalidArgument>>}
    BY <1>5, Zenon DEF EndOutcomes
  <2> QED  BY <1>1, <1>3, <1>7, <2>1, <2>2
<1>6. CASE by = "web"
  <2>1. Outcomes(w, by, hint) =
          {<<Sizes(w, Complete(w)), IF Rest(w) = 0 THEN NoCode ELSE DataLoss>>}
    BY <1>2, <1>4, <1>6 DEF Outcomes
  <2>2. by # "split"
    BY <1>6
  <2>3. EndOutcomes(by, Sizes(w, k), rest) =
          {<<Sizes(w, k), IF rest = 0 THEN NoCode ELSE DataLoss>>}
    BY <2>2, Zenon DEF EndOutcomes
  <2> QED  BY <1>1, <1>3, <1>7, <2>1, <2>3
<1> QED  BY <1>0, <1>5, <1>6

-----------------------------------------------------------------------------
(* The inductive invariant. What is known of a reader and its body stays.     *)
Shape == r = [f \in {"by", "hint", "read", "buffer", "out", "st", "code"} |-> r[f]]

Known ==
  /\ Shape
  /\ r.by \in {"split", "web", "all"}
  /\ r.hint # << >> => r.hint[1] \in Nat
  /\ WireOK(wire, r.by)

Covered == r.by = "web" => Short(wire)

(* A reader of envelopes has yielded the first messages, all of them good,    *)
(* and holds what it has taken of the bytes after them.                       *)
Advanced ==
  /\ Len(r.out) \in 0 .. Len(wire.lens)
  /\ r.out = Sizes(wire, Len(r.out))
  /\ \A i \in 1 .. Len(r.out) : Judged(wire, r.by, i) = NoCode
  /\ r.read \in 0 .. wire.size
  /\ Begins(wire.lens)[Len(r.out) + 1] <= r.read
  /\ r.buffer = r.read - Begins(wire.lens)[Len(r.out) + 1]

(* A reader of a whole body holds all of what it has taken.                   *)
Gathered == r.out = << >> /\ r.read \in 0 .. wire.size /\ r.buffer = r.read

Underway == r.code = NoCode /\ IF r.by = "all" THEN Gathered ELSE Advanced

Exempt == r.by = "web" /\ BreaksOff(wire, r.by)

Arrived ==
  Exempt \/ (<<r.out, r.code>> \in Outcomes(wire, r.by, r.hint) /\ r.out \in Seq(Int))

ReadInv == Known /\ (Covered => IF r.st = "reading" THEN Underway ELSE Arrived)

(* The fields of a reader after an error, a message or a chunk.               *)
Same == UNCHANGED wire /\ Shape' /\ r'.by = r.by /\ r'.hint = r.hint

(* What is known of a reader stays.                                           *)
LEMMA SameKeeps == ASSUME Known, Same PROVE Known' /\ (Covered' <=> Covered)
<1>1. Known'
  BY DEF Same, Known
<1>2. Covered' <=> Covered
  BY DEF Same, Covered
<1> QED  BY <1>1, <1>2

(* An error leaves what was yielded.                                          *)
LEMMA FailsIs ==
  ASSUME Known, NEW code, Fails(code), UNCHANGED wire
  PROVE  Same /\ r'.out = r.out /\ r'.code = code /\ r'.st = "error"
<1>1. r = [f \in {"by", "hint", "read", "buffer", "out", "st", "code"} |-> r[f]]
      /\ r' = [r EXCEPT !.st = "error", !.code = code]
  BY DEF Known, Shape, Fails
<1>2. /\ r'.by = r.by /\ r'.hint = r.hint
      /\ r'.out = r.out /\ r'.code = code /\ r'.st = "error"
  BY <1>1
<1>3. r' = [f \in {"by", "hint", "read", "buffer", "out", "st", "code"} |-> r'[f]]
  BY <1>1
<1> QED  BY <1>2, <1>3 DEF Same, Shape

YieldsInto(size, bytes, st) ==
  \/ st = r.st /\ r' = Yields(size, bytes)
  \/ r' = [Yields(size, bytes) EXCEPT !.st = st]

(* A message is appended, and its bytes leave the buffer.                     *)
LEMMA YieldsIs ==
  ASSUME Known, NEW size, NEW bytes, NEW st, UNCHANGED wire, YieldsInto(size, bytes, st)
  PROVE  /\ Same /\ r'.out = Append(r.out, size) /\ r'.code = r.code /\ r'.st = st
         /\ r'.read = r.read /\ r'.buffer = r.buffer - bytes
<1>1. r = [f \in {"by", "hint", "read", "buffer", "out", "st", "code"} |-> r[f]]
  BY DEF Known, Shape
<1>2. \/ st = r.st /\ r' = [r EXCEPT !.out = Append(@, size), !.buffer = @ - bytes]
      \/ r' = [[r EXCEPT !.out = Append(@, size), !.buffer = @ - bytes] EXCEPT !.st = st]
  BY DEF Yields, YieldsInto
<1>3. /\ r'.by = r.by /\ r'.hint = r.hint
      /\ r'.out = Append(r.out, size) /\ r'.code = r.code /\ r'.st = st
      /\ r'.read = r.read /\ r'.buffer = r.buffer - bytes
  BY <1>1, <1>2
<1>4. r' = [f \in {"by", "hint", "read", "buffer", "out", "st", "code"} |-> r'[f]]
  BY <1>1, <1>2
<1> QED  BY <1>3, <1>4 DEF Same, Shape

(* An end without a message.                                                  *)
LEMMA StateIs ==
  ASSUME Known, NEW st, UNCHANGED wire, r' = [r EXCEPT !.st = st]
  PROVE  Same /\ r'.out = r.out /\ r'.code = r.code /\ r'.st = st
<1>1. r = [f \in {"by", "hint", "read", "buffer", "out", "st", "code"} |-> r[f]]
  BY DEF Known, Shape
<1>2. r'.by = r.by /\ r'.hint = r.hint /\ r'.out = r.out /\ r'.code = r.code /\ r'.st = st
  BY <1>1
<1>3. r' = [f \in {"by", "hint", "read", "buffer", "out", "st", "code"} |-> r'[f]]
  BY <1>1
<1> QED  BY <1>2, <1>3 DEF Same, Shape

(* An end is kept if it is an outcome.                                        *)
LEMMA Arrives ==
  ASSUME Known, Same, r'.st # "reading",
         Covered => \/ Exempt
                    \/ <<r'.out, r'.code>> \in Outcomes(wire, r.by, r.hint) /\ r'.out \in Seq(Int)
  PROVE  ReadInv'
<1>1. Known' /\ (Covered' <=> Covered)
  BY SameKeeps
<1>2. Covered => Arrived'
  BY DEF Same, Arrived, Exempt
<1> QED  BY <1>1, <1>2 DEF ReadInv

(* A chunk keeps what is held.                                                *)
LEMMA Takes ==
  ASSUME ReadInv, TakeChunk, UNCHANGED wire, r.st = "reading"
  PROVE  ReadInv'
<1>1. PICK k \in 0 .. MaxChunk :
        k <= wire.size - r.read /\ r' = [r EXCEPT !.buffer = @ + k, !.read = @ + k]
  BY DEF TakeChunk
<1>2. r = [f \in {"by", "hint", "read", "buffer", "out", "st", "code"} |-> r[f]]
  BY DEF ReadInv, Known, Shape
<1>3. /\ r'.by = r.by /\ r'.hint = r.hint /\ r'.out = r.out /\ r'.code = r.code
      /\ r'.st = r.st /\ r'.read = r.read + k /\ r'.buffer = r.buffer + k
  BY <1>1, <1>2
<1>4. r' = [f \in {"by", "hint", "read", "buffer", "out", "st", "code"} |-> r'[f]]
  BY <1>1, <1>2
<1>5. Same
  BY <1>3, <1>4 DEF Same, Shape
<1>6. Known /\ Known' /\ (Covered' <=> Covered)
  BY <1>5, SameKeeps DEF ReadInv
<1>7. k \in Nat /\ wire.lens \in Seq(Nat) /\ wire.size \in 0 .. Size(wire.lens)
  BY <1>6, ChunkAssumption DEF Known, WireOK
<1>8. wire.size \in Nat
  <2>1. Size(wire.lens) \in Nat
    BY <1>7, BeginsGrow DEF Size
  <2> QED  BY <1>7, <2>1
<1>9. ASSUME Covered
      PROVE  Underway'
  <2>1. Underway
    BY <1>9 DEF ReadInv
  <2>2. r.read \in 0 .. wire.size
    BY <2>1 DEF Underway, Gathered, Advanced
  <2>3. r'.read \in 0 .. wire.size /\ r.read <= r'.read
    BY <1>1, <1>3, <1>7, <1>8, <2>2
  <2>4. CASE r.by = "all"
    <3>1. r.out = << >> /\ r.buffer = r.read /\ r.code = NoCode
      BY <2>1, <2>4 DEF Underway, Gathered
    <3>2. r'.buffer = r'.read
      BY <1>3, <3>1
    <3> QED  BY <1>3, <1>5, <2>3, <2>4, <3>1, <3>2 DEF Underway, Gathered, Same
  <2>5. CASE r.by # "all"
    <3>1. Advanced /\ r.code = NoCode
      BY <2>1, <2>5 DEF Underway
    <3> DEFINE b == Begins(wire.lens)[Len(r.out) + 1]
    <3>2. b \in Nat /\ b <= r.read /\ r.buffer = r.read - b
      <4>1. Len(r.out) + 1 \in 1 .. (Len(wire.lens) + 1)
        BY <1>7, <3>1 DEF Advanced
      <4>2. b \in Nat
        BY <1>7, <4>1, BeginsGrow
      <4> QED  BY <3>1, <4>2 DEF Advanced
    <3> HIDE DEF b
    <3>3. b <= r'.read /\ r'.buffer = r'.read - b
      <4>1. r.read \in Nat /\ r'.read \in Nat /\ k \in Nat
        BY <1>7, <1>8, <2>2, <2>3
      <4>2. r'.read = r.read + k /\ r'.buffer = r.buffer + k
        BY <1>3
      <4> QED  BY <2>3, <3>2, <4>1, <4>2
    <3>4. Advanced'
      BY <1>3, <1>5, <2>3, <3>1, <3>3 DEF Advanced, Same, b
    <3> QED  BY <1>3, <2>5, <3>1, <3>4 DEF Underway
  <2> QED  BY <2>4, <2>5
<1> QED  BY <1>3, <1>6, <1>9 DEF ReadInv

(* What is known of the next envelope: it is there, unless everything has     *)
(* been taken of the buffer.                                                  *)
At(i) == Begins(wire.lens)[i]

Standing(k, n) ==
  /\ k = Len(r.out) /\ n = Len(wire.lens) /\ n \in Nat /\ k \in 0 .. n
  /\ r.out = Sizes(wire, k) /\ r.out \in Seq(Int)
  /\ \A i \in 1 .. k : Judged(wire, r.by, i) = NoCode
  /\ wire.size \in Nat /\ r.read \in Nat /\ r.read <= wire.size /\ r.code = NoCode
  /\ At(k + 1) \in Nat /\ At(k + 1) <= r.read /\ At(k + 1) <= wire.size
  /\ r.buffer = r.read - At(k + 1) /\ r.buffer \in Nat
  /\ NextLen \in Nat
  /\ k = n => r.buffer = 0 /\ NextLen = 0
  /\ k < n => /\ NextLen = wire.lens[k + 1] /\ NextLen = NextEnvelope.len
              /\ NextEnvelope = wire.envelopes[k + 1]
              /\ At(k + 2) = At(k + 1) + Header + NextLen

(* This is where a reader of envelopes is.                                    *)
LEMMA StandsAt ==
  ASSUME ReadInv, r.st = "reading", Covered, r.by # "all"
  PROVE  \E k, n : Standing(k, n)
<1> DEFINE k == Len(r.out)
           n == Len(wire.lens)
<1>1. /\ WireOK(wire, r.by) /\ Advanced /\ r.code = NoCode
  BY DEF ReadInv, Known, Underway
<1>2. /\ wire.lens \in Seq(Nat) /\ n \in Nat /\ k \in 0 .. n
      /\ wire.size \in 0 .. Size(wire.lens) /\ r.read \in 0 .. wire.size
  BY <1>1 DEF WireOK, Advanced
<1>3. /\ \A j \in 1 .. (n + 1) : At(j) \in Nat
      /\ \A i \in 1 .. n : At(i + 1) = At(i) + Header + wire.lens[i]
  BY <1>2, BeginsGrow, BeginsAre DEF At
<1>4. Size(wire.lens) = At(n + 1)
  BY DEF Size, At
<1>5. r.out = Sizes(wire, k) /\ \A i \in 1 .. k : Judged(wire, r.by, i) = NoCode
  BY <1>1 DEF Advanced
<1>6. r.out \in Seq(Int)
  <2>1. Sizes(wire, k) \in Seq(Int)
    BY <1>1, <1>2, SizesAre
  <2> HIDE DEF k
  <2>2. r.out \in Seq(Int)
    BY <1>5, <2>1
  <2> QED  BY <2>2
<1>7. At(k + 1) <= r.read /\ r.buffer = r.read - At(k + 1)
  BY <1>1 DEF Advanced, At
<1>0. k = Len(r.out) /\ n = Len(wire.lens)
  OBVIOUS
<1> HIDE DEF k, n
<1>8. k + 1 \in 1 .. (n + 1) /\ n + 1 \in 1 .. (n + 1)
  BY <1>2
<1>9. At(k + 1) \in Nat /\ At(n + 1) \in Nat
  BY <1>3, <1>8
<1>10. wire.size \in Nat /\ r.read \in Nat /\ r.read <= wire.size /\ wire.size <= At(n + 1)
  BY <1>2, <1>4, <1>9
<1>11. At(k + 1) <= wire.size /\ r.buffer \in Nat
  BY <1>7, <1>9, <1>10
<1>12. CASE k = n
  <2>1. r.buffer = 0
    BY <1>7, <1>9, <1>10, <1>12
  <2>2. k + 1 \notin DOMAIN wire.lens
    BY <1>2, <1>12 DEF n
  <2>3. NextLen = 0
    BY <2>2 DEF NextLen, k
  <2>4. NextLen \in Nat /\ ~(k < n)
    BY <1>2, <1>12, <2>3
  <2>5. Standing(k, n)
    BY <1>0, <1>1, <1>2, <1>5, <1>6, <1>7, <1>9, <1>10, <1>11, <2>1, <2>3, <2>4, Zenon
       DEF Standing
  <2> QED  BY <2>5
<1>13. CASE k # n
  <2>1. k < n /\ k + 1 \in 1 .. n /\ (k + 1) + 1 = k + 2
    BY <1>2, <1>13
  <2>2. k + 1 \in DOMAIN wire.lens /\ wire.lens[k + 1] \in Nat
    BY <1>2, <2>1 DEF n
  <2>3. NextLen = wire.lens[k + 1]
    BY <2>2 DEF NextLen, k
  <2>4. NextEnvelope = wire.envelopes[k + 1]
    BY DEF NextEnvelope, k
  <2>5. wire.lens[k + 1] = wire.envelopes[k + 1].len
    BY <1>1, <2>1 DEF WireOK, n
  <2>6. At(k + 2) = At(k + 1) + Header + wire.lens[k + 1]
    BY <1>3, <2>1
  <2>7. /\ NextLen \in Nat
        /\ k < n => /\ NextLen = wire.lens[k + 1] /\ NextLen = NextEnvelope.len
                    /\ NextEnvelope = wire.envelopes[k + 1]
                    /\ At(k + 2) = At(k + 1) + Header + NextLen
    BY <2>2, <2>3, <2>4, <2>5, <2>6
  <2>8. Standing(k, n)
    BY <1>0, <1>1, <1>2, <1>5, <1>6, <1>7, <1>9, <1>10, <1>11, <1>13, <2>7, Zenon
       DEF Standing
  <2> QED  BY <2>8
<1> QED  BY <1>12, <1>13

(* How the next envelope is judged when its header, or all of it, is there.   *)
LEMMA JudgedIs ==
  ASSUME ReadInv, NEW k, NEW n, Standing(k, n), k < n
  PROVE  /\ r.by = "split" /\ NextLen > readMaxBytes /\ HasHeader =>
              Judged(wire, r.by, k + 1) = ResourceExhausted
         /\ r.by = "split" /\ ~(NextLen > readMaxBytes) /\ r.buffer >= Header + NextLen =>
              Judged(wire, r.by, k + 1) = Decode(NextEnvelope)
         /\ r.by = "web" /\ r.buffer >= Header + NextLen =>
              Judged(wire, r.by, k + 1) = webParse(NextEnvelope.of)
<1>1. WireOK(wire, r.by)
  BY DEF ReadInv, Known
<1>2. /\ k \in 0 .. n /\ n \in Nat /\ n = Len(wire.lens)
      /\ NextLen \in Nat /\ NextEnvelope = wire.envelopes[k + 1] /\ NextLen = NextEnvelope.len
      /\ At(k + 2) = At(k + 1) + Header + NextLen
      /\ r.buffer = r.read - At(k + 1) /\ r.read \in Nat /\ At(k + 1) \in Nat
      /\ r.read <= wire.size /\ wire.size \in Nat
  BY DEF Standing
<1>3. HasHeader => At(k + 1) + Header <= wire.size
  <2>1. r.buffer = r.read - At(k + 1) /\ r.read \in Nat /\ At(k + 1) \in Nat
        /\ r.read <= wire.size /\ wire.size \in Nat
    BY <1>2
  <2> QED  BY <2>1 DEF HasHeader, Header
<1>4. r.buffer >= Header + NextLen => At(k + 2) <= wire.size
  <2>1. r.buffer = r.read - At(k + 1) /\ r.read \in Nat /\ At(k + 1) \in Nat
        /\ r.read <= wire.size /\ wire.size \in Nat /\ NextLen \in Nat
        /\ At(k + 2) = At(k + 1) + Header + NextLen
    BY <1>2
  <2> QED  BY <2>1 DEF Header
<1>5. r.buffer >= Header + NextLen => ~(k + 1 > Complete(wire))
  <2>1. /\ Complete(wire) \in 0 .. n
        /\ \A i \in 0 .. n : i <= Complete(wire) <=> At(i + 1) <= wire.size
    BY <1>1, <1>2, CompleteIs DEF At
  <2>2. k + 1 \in 0 .. n /\ (k + 1) + 1 = k + 2
    BY <1>2
  <2>3. At(k + 2) <= wire.size => k + 1 <= Complete(wire)
    BY <2>1, <2>2
  <2>4. Complete(wire) \in Int /\ k + 1 \in Int
    BY <1>2, <2>1
  <2> QED  BY <1>4, <2>3, <2>4
<1>6. Judged(wire, r.by, k + 1) =
        IF r.by = "split" /\ NextLen > readMaxBytes /\ At(k + 1) + Header <= wire.size
        THEN ResourceExhausted
        ELSE IF k + 1 > Complete(wire) THEN NoCode
        ELSE IF r.by = "web" THEN webParse(NextEnvelope.of)
        ELSE Decode(NextEnvelope)
  BY <1>2 DEF Judged, At, Decode
<1> QED  BY <1>3, <1>5, <1>6

(* A good envelope is yielded.                                                *)
LEMMA Steps ==
  ASSUME ReadInv, Covered, NEW k, NEW n, Standing(k, n), k < n, r.st = "reading",
         r.by # "all", UNCHANGED wire, NEW size, size = Adds(NextEnvelope.of, wire.end),
         r' = Yields(size, Header + NextLen),
         r.buffer >= Header + NextLen, Judged(wire, r.by, k + 1) = NoCode
  PROVE  ReadInv'
<1>1. /\ Known /\ Same /\ r'.out = Append(r.out, size) /\ r'.code = r.code /\ r'.st = r.st
      /\ r'.read = r.read /\ r'.buffer = r.buffer - (Header + NextLen)
  <2>1. YieldsInto(size, Header + NextLen, r.st) /\ Known
    BY DEF ReadInv, YieldsInto
  <2> QED  BY <2>1, YieldsIs
<1>2. Known' /\ (Covered' <=> Covered) /\ WireOK(wire, r.by)
  BY <1>1, SameKeeps DEF Known
<1>3. /\ k \in 0 .. n /\ n \in Nat /\ n = Len(wire.lens) /\ r.out = Sizes(wire, k)
      /\ NextLen \in Nat /\ NextEnvelope = wire.envelopes[k + 1]
      /\ At(k + 2) = At(k + 1) + Header + NextLen /\ r.code = NoCode
      /\ r.buffer = r.read - At(k + 1) /\ r.read \in Nat /\ At(k + 1) \in Nat
      /\ r.read <= wire.size /\ wire.size \in Nat
      /\ \A i \in 1 .. k : Judged(wire, r.by, i) = NoCode
  BY DEF Standing
<1>4. k + 1 \in 0 .. n
  BY <1>3
<1>5. r'.out = Sizes(wire, k + 1) /\ Len(r'.out) = k + 1
  <2>1. Append(Sizes(wire, k), Adds(wire.envelopes[k + 1].of, wire.end)) = Sizes(wire, k + 1)
    BY <1>2, <1>3, SizesNext
  <2>2. r'.out = Sizes(wire, k + 1)
    BY <1>1, <1>3, <2>1
  <2>3. Len(Sizes(wire, k + 1)) = k + 1
    BY <1>2, <1>3, <1>4, SizesAre
  <2> QED  BY <2>2, <2>3
<1>6. At(k + 2) <= r'.read /\ r'.buffer = r'.read - At(k + 2) /\ r'.read \in 0 .. wire.size
  BY <1>1, <1>3 DEF Header
<1>7. \A i \in 1 .. (k + 1) : Judged(wire, r.by, i) = NoCode
  <2> SUFFICES ASSUME NEW i \in 1 .. (k + 1)
               PROVE  Judged(wire, r.by, i) = NoCode
    OBVIOUS
  <2>1. i \in 1 .. k \/ i = k + 1
    BY <1>3
  <2> QED  BY <1>3, <2>1
<1>8. Advanced'
  <2>1. (k + 1) + 1 = k + 2 /\ wire' = wire /\ r'.by = r.by
    BY <1>1, <1>3 DEF Same
  <2>2. At(k + 2) = Begins(wire.lens)[Len(r'.out) + 1]
    BY <1>5, <2>1 DEF At
  <2>3. Len(r'.out) \in 0 .. Len(wire.lens) /\ r'.out = Sizes(wire, Len(r'.out))
    BY <1>3, <1>4, <1>5
  <2>4. \A i \in 1 .. Len(r'.out) : Judged(wire, r.by, i) = NoCode
    BY <1>5, <1>7
  <2> QED  BY <1>6, <2>1, <2>2, <2>3, <2>4 DEF Advanced
<1>9. Underway'
  BY <1>1, <1>3, <1>8 DEF Underway, Same
<1> QED  BY <1>1, <1>2, <1>9 DEF ReadInv

(* One that is not good is the error of the reader.                           *)
LEMMA Stops ==
  ASSUME ReadInv, NEW code, Fails(code), UNCHANGED wire, r.by # "all",
         Covered => \E k, n : Standing(k, n) /\ k < n /\ Judged(wire, r.by, k + 1) = code
                              /\ code # NoCode
  PROVE  ReadInv'
<1>1. Known /\ Same /\ r'.out = r.out /\ r'.code = code /\ r'.st = "error"
  BY FailsIs DEF ReadInv
<1>2. ASSUME Covered
      PROVE  <<r'.out, r'.code>> \in Outcomes(wire, r.by, r.hint) /\ r'.out \in Seq(Int)
  <2>1. PICK k, n : /\ Standing(k, n) /\ k < n /\ Judged(wire, r.by, k + 1) = code
                    /\ code # NoCode
    BY <1>2
  <2>2. /\ WireOK(wire, r.by) /\ r.by \in {"split", "web"}
        /\ k \in 0 .. Len(wire.lens) /\ k < Len(wire.lens)
        /\ \A i \in 1 .. k : Judged(wire, r.by, i) = NoCode
        /\ r.out = Sizes(wire, k) /\ r.out \in Seq(Int)
    BY <1>1, <2>1 DEF Standing, Known
  <2>3. <<Sizes(wire, k), Judged(wire, r.by, k + 1)>> \in Outcomes(wire, r.by, r.hint)
    BY <2>1, <2>2, OutcomeStops
  <2> QED  BY <1>1, <2>1, <2>2, <2>3
<1>3. r'.st # "reading"
  BY <1>1
<1> QED  BY <1>1, <1>2, <1>3, Arrives

(* The outcome when all bytes are taken, and the next envelope is not there.  *)
LEMMA Ends ==
  ASSUME ReadInv, NEW k, NEW n, Standing(k, n), r.by # "all", AtEnd,
         k < n => ~(r.buffer >= Header + NextLen),
         r.by = "split" /\ HasHeader => ~(NextLen > readMaxBytes)
  PROVE  /\ Outcomes(wire, r.by, r.hint) = EndOutcomes(r.by, r.out, r.buffer)
         /\ r.buffer >= Header => BreaksOff(wire, r.by)
<1>1. WireOK(wire, r.by) /\ r.by \in {"split", "web"}
  BY DEF ReadInv, Known
<1>2. /\ k \in 0 .. n /\ n \in Nat /\ n = Len(wire.lens) /\ r.out = Sizes(wire, k)
      /\ NextLen \in Nat /\ wire.size = r.read
      /\ k < n => /\ At(k + 2) = At(k + 1) + Header + NextLen
                  /\ NextLen = wire.lens[k + 1]
      /\ r.buffer = r.read - At(k + 1) /\ r.read \in Nat /\ At(k + 1) \in Nat
      /\ At(k + 1) <= wire.size
      /\ \A i \in 1 .. k : Judged(wire, r.by, i) = NoCode
  BY DEF Standing, AtEnd
<1>3. k < Len(wire.lens) => ~(Begins(wire.lens)[k + 2] <= wire.size)
  <2> SUFFICES ASSUME k < n
               PROVE  ~(At(k + 2) <= wire.size)
    BY <1>2 DEF At
  <2> QED  BY <1>2 DEF Header
<1>4. r.by = "split" /\ k < Len(wire.lens) /\ Begins(wire.lens)[k + 1] + Header <= wire.size =>
        ~(wire.lens[k + 1] > readMaxBytes)
  <2> SUFFICES ASSUME r.by = "split", k < n, At(k + 1) + Header <= wire.size
               PROVE  ~(NextLen > readMaxBytes)
    BY <1>2 DEF At
  <2>1. HasHeader
    BY <1>2 DEF HasHeader, Header
  <2> QED  BY <2>1
<1>5. /\ r.buffer = wire.size - Begins(wire.lens)[k + 1]
      /\ k \in 0 .. Len(wire.lens) /\ Begins(wire.lens)[k + 1] <= wire.size
  BY <1>2 DEF At
<1>6. \A i \in 1 .. k : Judged(wire, r.by, i) = NoCode
  BY <1>2
<1>7. EndsAt(wire, r.by, k, r.buffer)
  BY <1>1, <1>3, <1>4, <1>5, <1>6 DEF EndsAt
<1>8. /\ Outcomes(wire, r.by, r.hint) = EndOutcomes(r.by, Sizes(wire, k), r.buffer)
      /\ r.buffer >= Header => BreaksOff(wire, r.by)
  BY <1>7, OutcomeEnds
<1> QED  BY <1>2, <1>8

-----------------------------------------------------------------------------
(* The steps of the three readers.                                            *)

(* The length in a header is over the limit.                                  *)
LEMMA SplitLimitKeeps == ASSUME ReadInv, SplitLimit PROVE ReadInv'
<1>1. /\ r.st = "reading" /\ r.by = "split" /\ UNCHANGED wire /\ HasHeader
      /\ NextLen > readMaxBytes /\ Fails(ResourceExhausted)
  BY DEF SplitLimit, Reading, TooLong
<1>2. ASSUME Covered
      PROVE  \E k, n : /\ Standing(k, n) /\ k < n
                       /\ Judged(wire, r.by, k + 1) = ResourceExhausted
                       /\ ResourceExhausted # NoCode
  <2>1. PICK k, n : Standing(k, n)
    BY <1>1, <1>2, StandsAt
  <2>2. k < n
    <3>1. k \in 0 .. n /\ n \in Nat /\ (k = n => r.buffer = 0)
      BY <2>1 DEF Standing
    <3> QED  BY <1>1, <3>1 DEF HasHeader, Header
  <2>3. Judged(wire, r.by, k + 1) = ResourceExhausted
    BY <1>1, <2>1, <2>2, JudgedIs
  <2> QED  BY <2>1, <2>2, <2>3 DEF ResourceExhausted, NoCode
<1> QED  BY <1>1, <1>2, Stops

(* The next envelope passes, or is the error.                                 *)
LEMMA SplitShiftKeeps == ASSUME ReadInv, SplitShift PROVE ReadInv'
<1>1. /\ r.st = "reading" /\ r.by = "split" /\ UNCHANGED wire /\ HasHeader
      /\ ~(NextLen > readMaxBytes) /\ r.buffer >= Header + NextLen /\ Covered
      /\ IF Decode(NextEnvelope) = NoCode
         THEN r' = Yields(Adds(NextEnvelope.of, wire.end), Header + NextLen)
         ELSE Fails(Decode(NextEnvelope))
  BY DEF SplitShift, Reading, TooLong, Fits, Covered
<1>2. PICK k, n : Standing(k, n)
  BY <1>1, StandsAt
<1>3. k < n
  <2>1. k \in 0 .. n /\ n \in Nat /\ (k = n => r.buffer = 0)
    BY <1>2 DEF Standing
  <2> QED  BY <1>1, <2>1 DEF HasHeader, Header
<1>4. Judged(wire, r.by, k + 1) = Decode(NextEnvelope)
  BY <1>1, <1>2, <1>3, JudgedIs
<1>5. CASE Decode(NextEnvelope) = NoCode
  BY <1>1, <1>2, <1>3, <1>4, <1>5, Steps
<1>6. CASE Decode(NextEnvelope) # NoCode
  BY <1>1, <1>2, <1>3, <1>4, <1>6, Stops
<1> QED  BY <1>5, <1>6

(* The bytes end after an envelope, or within one.                            *)
LEMMA SplitEndKeeps == ASSUME ReadInv, SplitEnd PROVE ReadInv'
<1>1. /\ r.st = "reading" /\ r.by = "split" /\ UNCHANGED wire /\ AtEnd /\ Covered /\ Known
      /\ HasHeader => ~(NextLen > readMaxBytes) /\ ~(r.buffer >= Header + NextLen)
      /\ IF r.buffer = 0 THEN r' = [r EXCEPT !.st = "done"] ELSE Fails(InvalidArgument)
  BY DEF SplitEnd, SplitWaits, Reading, TooLong, Fits, Covered, ReadInv
<1>2. PICK k, n : Standing(k, n)
  BY <1>1, StandsAt
<1>3. r.buffer \in Nat /\ NextLen \in Nat /\ r.code = NoCode /\ r.out \in Seq(Int)
  BY <1>2 DEF Standing
<1>4. ~(r.buffer >= Header + NextLen)
  BY <1>1, <1>3 DEF HasHeader, Header
<1>5. Outcomes(wire, r.by, r.hint) =
        {<<r.out, IF r.buffer = 0 THEN NoCode ELSE InvalidArgument>>}
  <2>1. Outcomes(wire, r.by, r.hint) = EndOutcomes(r.by, r.out, r.buffer)
    BY <1>1, <1>2, <1>4, Ends
  <2> QED  BY <1>1, <2>1 DEF EndOutcomes
<1>6. CASE r.buffer = 0
  <2>1. Same /\ r'.out = r.out /\ r'.code = r.code /\ r'.st = "done"
    BY <1>1, <1>6, StateIs
  <2> QED  BY <1>1, <1>3, <1>5, <1>6, <2>1, Arrives
<1>7. CASE r.buffer # 0
  <2>1. Same /\ r'.out = r.out /\ r'.code = InvalidArgument /\ r'.st = "error"
    BY <1>1, <1>7, FailsIs
  <2> QED  BY <1>1, <1>3, <1>5, <1>7, <2>1, Arrives
<1> QED  BY <1>6, <1>7

(* In a browser, lengths are read as they are if they are short.              *)
LEMMA WebHasIs ==
  ASSUME NEW k, NEW n, Standing(k, n), r.by = "web", Covered
  PROVE  /\ WebHas => k < n /\ ~(Signed(NextLen) < 0)
         /\ WebHas <=> k < n /\ r.buffer >= Header + NextLen
<1>1. /\ k \in 0 .. n /\ n \in Nat /\ (k = n => r.buffer = 0) /\ n = Len(wire.lens)
      /\ NextLen \in Nat /\ (k < n => NextLen = wire.lens[k + 1]) /\ r.buffer \in Nat
  BY DEF Standing
<1>2. k < n => NextLen < SignBit
  <2>1. k < n => k + 1 \in 1 .. n
    BY <1>1
  <2> QED  BY <1>1, <2>1 DEF Covered, Short
<1>3. k < n => Signed(NextLen) = NextLen
  BY <1>1, <1>2, SignAssumption DEF Signed
<1>4. WebHas => k < n
  BY <1>1 DEF WebHas, HasHeader, Header
<1>5. k < n => (WebHas <=> r.buffer >= Header + NextLen)
  BY <1>1, <1>3 DEF WebHas, HasHeader, Header
<1> QED  BY <1>1, <1>3, <1>4, <1>5

(* In a browser, the next envelope passes, or is the error.                   *)
LEMMA WebEnqueueKeeps == ASSUME ReadInv, WebEnqueue PROVE ReadInv'
<1>1. /\ r.st = "reading" /\ r.by = "web" /\ UNCHANGED wire /\ WebHas /\ Known
      /\ IF Signed(NextLen) < 0 THEN r' = [r EXCEPT !.st = "garbled"]
         ELSE IF webParse(NextEnvelope.of) # NoCode THEN Fails(webParse(NextEnvelope.of))
         ELSE r' = Yields(NextLen, Header + NextLen)
  BY DEF WebEnqueue, Reading, ReadInv
<1>2. CASE Covered
  <2>1. PICK k, n : Standing(k, n)
    BY <1>1, <1>2, StandsAt
  <2>2. k < n /\ ~(Signed(NextLen) < 0) /\ r.buffer >= Header + NextLen
    BY <1>1, <1>2, <2>1, WebHasIs
  <2>3. Judged(wire, r.by, k + 1) = webParse(NextEnvelope.of)
    BY <1>1, <2>1, <2>2, JudgedIs
  <2>4. CASE webParse(NextEnvelope.of) # NoCode
    BY <1>1, <2>1, <2>2, <2>3, <2>4, Stops
  <2>5. CASE webParse(NextEnvelope.of) = NoCode
    <3>1. NextLen = Adds(NextEnvelope.of, wire.end)
      <4>1. k \in 0 .. n /\ n \in Nat /\ n = Len(wire.lens) /\ NextLen = wire.lens[k + 1]
            /\ NextEnvelope = wire.envelopes[k + 1]
        BY <2>1, <2>2 DEF Standing
      <4>2. k + 1 \in 1 .. Len(wire.lens)
        BY <2>2, <4>1
      <4> QED  BY <1>1, <4>1, <4>2 DEF Known, WireOK, Adds
    <3>2. r' = Yields(NextLen, Header + NextLen)
      BY <1>1, <2>2, <2>5
    <3>3. r.by # "all"
      BY <1>1
    <3> QED  BY <1>1, <1>2, <2>1, <2>2, <2>3, <2>5, <3>1, <3>2, <3>3, Steps
  <2> QED  BY <2>4, <2>5
<1>3. CASE ~Covered
  <2>1. Same
    <3>1. CASE \E code : Fails(code)
      BY <1>1, <3>1, FailsIs
    <3>2. CASE r' = [r EXCEPT !.st = "garbled"]
      BY <1>1, <3>2, StateIs
    <3>3. CASE r' = Yields(NextLen, Header + NextLen)
      <4>1. YieldsInto(NextLen, Header + NextLen, r.st)
        BY <3>3 DEF YieldsInto
      <4> QED  BY <1>1, <4>1, YieldsIs
    <3> QED  BY <1>1, <3>1, <3>2, <3>3
  <2> QED  BY <1>1, <1>3, <2>1, SameKeeps DEF ReadInv
<1> QED  BY <1>2, <1>3

(* The bytes end after an envelope, within one, or within a header.           *)
LEMMA WebEndKeeps == ASSUME ReadInv, WebEnd PROVE ReadInv'
<1> DEFINE O == Outcomes(wire, r.by, r.hint)
<1>1. /\ r.st = "reading" /\ r.by = "web" /\ UNCHANGED wire /\ ~WebHas /\ AtEnd /\ Known
      /\ \/ r.buffer = 0 /\ r' = [r EXCEPT !.st = "done"]
         \/ HasHeader /\ r' = [Yields(r.buffer - Header, r.buffer) EXCEPT !.st = "done"]
         \/ HasHeader /\ Fails(InvalidArgument)
         \/ r.buffer # 0 /\ ~HasHeader /\ Fails(DataLoss)
  BY DEF WebEnd, Reading, ReadInv
<1>2. Covered =>
        /\ r.buffer \in Nat /\ r.code = NoCode /\ r.out \in Seq(Int)
        /\ O = {<<r.out, IF r.buffer = 0 THEN NoCode ELSE DataLoss>>}
        /\ HasHeader => Exempt
  <2> SUFFICES ASSUME Covered
               PROVE  /\ r.buffer \in Nat /\ r.code = NoCode /\ r.out \in Seq(Int)
                      /\ O = {<<r.out, IF r.buffer = 0 THEN NoCode ELSE DataLoss>>}
                      /\ HasHeader => Exempt
    OBVIOUS
  <2>1. PICK k, n : Standing(k, n)
    BY <1>1, StandsAt
  <2>2. k < n => ~(r.buffer >= Header + NextLen)
    BY <1>1, <2>1, WebHasIs
  <2>3. r.by # "all" /\ r.by # "split"
    BY <1>1
  <2>4. O = EndOutcomes(r.by, r.out, r.buffer) /\ (r.buffer >= Header => BreaksOff(wire, r.by))
    BY <1>1, <2>1, <2>2, <2>3, Ends
  <2>5. r.buffer \in Nat /\ r.code = NoCode /\ r.out \in Seq(Int)
    BY <2>1 DEF Standing
  <2> HIDE DEF O
  <2> QED  BY <1>1, <2>3, <2>4, <2>5 DEF EndOutcomes, HasHeader, Exempt
<1> HIDE DEF O
<1>3. CASE r.buffer = 0 /\ r' = [r EXCEPT !.st = "done"]
  <2>1. Same /\ r'.out = r.out /\ r'.code = r.code /\ r'.st = "done"
    BY <1>1, <1>3, StateIs
  <2>2. Covered => <<r'.out, r'.code>> \in O /\ r'.out \in Seq(Int)
    BY <1>2, <1>3, <2>1
  <2> QED  BY <1>1, <2>1, <2>2, Arrives DEF O
<1>4. CASE HasHeader /\ r' = [Yields(r.buffer - Header, r.buffer) EXCEPT !.st = "done"]
  <2>1. /\ Same /\ r'.out = Append(r.out, r.buffer - Header) /\ r'.code = r.code
        /\ r'.st = "done"
    <3> DEFINE size  == r.buffer - Header
               bytes == r.buffer
    <3>1. r' = [Yields(size, bytes) EXCEPT !.st = "done"]
      BY <1>4
    <3> HIDE DEF size, bytes
    <3>2. Same /\ r'.out = Append(r.out, size) /\ r'.code = r.code /\ r'.st = "done"
      <4>1. YieldsInto(size, bytes, "done")
        BY <3>1 DEF YieldsInto
      <4> QED  BY <1>1, <4>1, YieldsIs
    <3> QED  BY <3>2 DEF size
  <2> QED  BY <1>1, <1>2, <1>4, <2>1, Arrives
<1>5. CASE HasHeader /\ Fails(InvalidArgument)
  <2>1. Same /\ r'.out = r.out /\ r'.code = InvalidArgument /\ r'.st = "error"
    BY <1>1, <1>5, FailsIs
  <2> QED  BY <1>1, <1>2, <1>5, <2>1, Arrives
<1>6. CASE r.buffer # 0 /\ ~HasHeader /\ Fails(DataLoss)
  <2>1. Same /\ r'.out = r.out /\ r'.code = DataLoss /\ r'.st = "error"
    BY <1>1, <1>6, FailsIs
  <2>2. ASSUME Covered
        PROVE  <<r'.out, r'.code>> \in O /\ r'.out \in Seq(Int)
    BY <1>2, <1>6, <2>1, <2>2
  <2> QED  BY <1>1, <2>1, <2>2, Arrives DEF O
<1> QED  BY <1>1, <1>3, <1>4, <1>5, <1>6

(* The outcome of a body that is read as a whole.                             *)
AllOutcomes(w, hint) ==
  LET promised == IF hint = << >> THEN w.size ELSE hint[1]
      error    == transformDecompressEnvelope(w.envelopes[1], TRUE, w.end)
  IN  IF promised > readMaxBytes THEN {<< << >>, ResourceExhausted>>}
      ELSE IF w.size # promised THEN {<< << >>, InvalidArgument>>}
      ELSE {<<IF error = NoCode THEN Sizes(w, 1) ELSE << >>, error>>}

(* One outcome, since each condition excludes the others.                     *)
LEMMA AllOutcomesAre ==
  ASSUME NEW w, NEW hint, w.size \in Nat, hint # << >> => hint[1] \in Nat
  PROVE  Outcomes(w, "all", hint) = AllOutcomes(w, hint)
<1> DEFINE promised == IF hint = << >> THEN w.size ELSE hint[1]
           error    == transformDecompressEnvelope(w.envelopes[1], TRUE, w.end)
           yielded  == {<<IF error = NoCode THEN Sizes(w, 1) ELSE << >>, error>>}
<1>1. Outcomes(w, "all", hint) =
        CASE promised > readMaxBytes -> {<< << >>, ResourceExhausted>>}
          [] promised <= readMaxBytes /\ w.size # promised -> {<< << >>, InvalidArgument>>}
          [] OTHER -> yielded
  BY DEF Outcomes
<1>2. AllOutcomes(w, hint) = IF promised > readMaxBytes THEN {<< << >>, ResourceExhausted>>}
                             ELSE IF w.size # promised THEN {<< << >>, InvalidArgument>>}
                             ELSE yielded
  BY DEF AllOutcomes
<1>3. promised \in Nat /\ readMaxBytes \in Nat
  BY LimitAssumption
<1> HIDE DEF promised, yielded
<1>4. CASE promised > readMaxBytes
  BY <1>1, <1>2, <1>3, <1>4
<1>5. CASE promised <= readMaxBytes
  BY <1>1, <1>2, <1>3, <1>5
<1> QED  BY <1>3, <1>4, <1>5

(* This is where a reader of a whole body is.                                 *)
LEMMA AllStands ==
  ASSUME ReadInv, r.by = "all", r.st = "reading"
  PROVE  /\ r.out = << >> /\ r.read \in Nat /\ r.read <= wire.size /\ wire.size \in Nat
         /\ r.buffer = r.read /\ r.code = NoCode /\ WireOK(wire, "all") /\ Known
         /\ r.hint # << >> => r.hint[1] \in Nat
         /\ Outcomes(wire, r.by, r.hint) = AllOutcomes(wire, r.hint)
<1>1. Known /\ Covered /\ WireOK(wire, "all") /\ (r.hint # << >> => r.hint[1] \in Nat)
  BY DEF ReadInv, Covered, Known
<1>2. Gathered /\ r.code = NoCode
  BY <1>1 DEF ReadInv, Underway
<1>3. wire.size \in Nat
  <2>1. wire.lens \in Seq(Nat) /\ wire.size \in 0 .. Size(wire.lens)
    BY <1>1 DEF WireOK
  <2>2. Size(wire.lens) \in Nat
    BY <2>1, BeginsGrow DEF Size
  <2> QED  BY <2>1, <2>2
<1>4. r.out = << >> /\ r.read \in Nat /\ r.read <= wire.size /\ r.buffer = r.read
  BY <1>2, <1>3 DEF Gathered
<1>5. Outcomes(wire, r.by, r.hint) = AllOutcomes(wire, r.hint)
  BY <1>1, <1>3, AllOutcomesAre
<1> QED  BY <1>1, <1>2, <1>3, <1>4, <1>5

(* There is more than is permitted, or than was promised.                     *)
LEMMA AllFailsKeeps == ASSUME ReadInv, AllFails PROVE ReadInv'
<1> DEFINE code == IF AllLimit THEN ResourceExhausted ELSE InvalidArgument
<1>1. /\ r.st = "reading" /\ r.by = "all" /\ UNCHANGED wire /\ (AllLimit \/ AllTooMany)
      /\ Fails(code)
  BY DEF AllFails, Reading
<1>2. /\ r.out = << >> /\ r.read \in Nat /\ r.read <= wire.size /\ wire.size \in Nat
      /\ r.buffer = r.read /\ Known
      /\ r.hint # << >> => r.hint[1] \in Nat
      /\ Outcomes(wire, r.by, r.hint) = AllOutcomes(wire, r.hint)
  BY <1>1, AllStands
<1>3. Same /\ r'.out = r.out /\ r'.code = code /\ r'.st = "error"
  <2> HIDE DEF code
  <2> QED  BY <1>1, <1>2, FailsIs
<1>4. << << >>, code>> \in AllOutcomes(wire, r.hint)
  <2>1. CASE AllLimit
    BY <1>2, <2>1, LimitAssumption DEF AllOutcomes, AllLimit
  <2>2. CASE ~AllLimit
    BY <1>1, <1>2, <2>2, LimitAssumption DEF AllOutcomes, AllLimit, AllTooMany
  <2> QED  BY <2>1, <2>2
<1> HIDE DEF code
<1>5. <<r'.out, r'.code>> \in Outcomes(wire, r.by, r.hint) /\ r'.out \in Seq(Int)
  BY <1>2, <1>3, <1>4
<1> QED  BY <1>2, <1>3, <1>5, Arrives

(* There is less than was promised, or the message passes, or not.            *)
LEMMA AllEndKeeps == ASSUME ReadInv, AllEnd PROVE ReadInv'
<1> DEFINE error == Decode(NextEnvelope)
           e     == NextEnvelope
<1>1. /\ r.st = "reading" /\ r.by = "all" /\ UNCHANGED wire /\ ~AllLimit /\ ~AllTooMany /\ AtEnd
      /\ IF r.hint # << >> /\ r.buffer < r.hint[1] THEN Fails(InvalidArgument)
         ELSE IF error # NoCode THEN Fails(error)
         ELSE r' = [Yields(Adds(e.of, wire.end), r.buffer) EXCEPT !.st = "done"]
  BY DEF AllEnd, Reading
<1>2. /\ r.out = << >> /\ r.read \in Nat /\ r.read <= wire.size /\ wire.size \in Nat
      /\ r.buffer = r.read /\ Known /\ WireOK(wire, "all") /\ r.code = NoCode
      /\ r.hint # << >> => r.hint[1] \in Nat
      /\ Outcomes(wire, r.by, r.hint) = AllOutcomes(wire, r.hint)
  BY <1>1, AllStands
<1>3. wire.size = r.buffer
  BY <1>1, <1>2 DEF AtEnd
<1>4. e = wire.envelopes[1] /\ error = transformDecompressEnvelope(wire.envelopes[1], TRUE, wire.end)
  <2>1. Len(r.out) + 1 = 1 /\ wire.compression = TRUE
    BY <1>2 DEF WireOK
  <2> QED  BY <2>1 DEF NextEnvelope, Decode
<1>5. 1 \in 0 .. Len(wire.lens) /\ 0 \in 0 .. Len(wire.lens) /\ 0 < Len(wire.lens)
  BY <1>2 DEF WireOK
<1>6. Append(<< >>, Adds(e.of, wire.end)) = Sizes(wire, 1) /\ Sizes(wire, 1) \in Seq(Int)
  <2>1. Append(Sizes(wire, 0), Adds(wire.envelopes[0 + 1].of, wire.end)) = Sizes(wire, 0 + 1)
    BY <1>2, <1>5, SizesNext
  <2>2. Sizes(wire, 0) = << >>
    <3>1. Sizes(wire, 0) \in Seq(Int) /\ Len(Sizes(wire, 0)) = 0
      BY <1>2, <1>5, SizesAre
    <3> QED  BY <3>1
  <2>3. Sizes(wire, 1) \in Seq(Int)
    BY <1>2, <1>5, SizesAre
  <2>4. Append(<< >>, Adds(wire.envelopes[1].of, wire.end)) = Sizes(wire, 1)
    <3>1. 0 + 1 = 1
      OBVIOUS
    <3> QED  BY <2>1, <2>2, <3>1
  <2>5. Sizes(wire, 1) \in Seq(Int)
    BY <2>3
  <2> HIDE DEF e
  <2> QED  BY <1>4, <2>4, <2>5
<1>7. CASE r.hint # << >> /\ r.buffer < r.hint[1]
  <2>1. Same /\ r'.out = r.out /\ r'.code = InvalidArgument /\ r'.st = "error"
    BY <1>1, <1>2, <1>7, FailsIs
  <2>2. << << >>, InvalidArgument>> \in AllOutcomes(wire, r.hint)
    BY <1>1, <1>2, <1>3, <1>7, LimitAssumption DEF AllOutcomes, AllLimit
  <2>3. <<r'.out, r'.code>> \in Outcomes(wire, r.by, r.hint) /\ r'.out \in Seq(Int)
    BY <1>2, <2>1, <2>2
  <2> QED  BY <1>2, <2>1, <2>3, Arrives
<1>8. CASE ~(r.hint # << >> /\ r.buffer < r.hint[1])
  <2>1. AllOutcomes(wire, r.hint) =
          {<<IF error = NoCode THEN Sizes(wire, 1) ELSE << >>, error>>}
    <3> DEFINE promised == IF r.hint = << >> THEN wire.size ELSE r.hint[1]
    <3>1. ~(promised > readMaxBytes) /\ wire.size = promised
      BY <1>1, <1>2, <1>3, <1>8, LimitAssumption DEF AllLimit, AllTooMany
    <3> HIDE DEF error
    <3>2. AllOutcomes(wire, r.hint) =
            IF promised > readMaxBytes THEN {<< << >>, ResourceExhausted>>}
            ELSE IF wire.size # promised THEN {<< << >>, InvalidArgument>>}
            ELSE {<<IF error = NoCode THEN Sizes(wire, 1) ELSE << >>, error>>}
      BY <1>4 DEF AllOutcomes
    <3> HIDE DEF promised
    <3> QED  BY <3>1, <3>2
  <2>2. CASE error # NoCode
    <3> HIDE DEF error
    <3>1. Same /\ r'.out = r.out /\ r'.code = error /\ r'.st = "error"
      BY <1>1, <1>2, <1>8, <2>2, FailsIs
    <3>2. <<r'.out, r'.code>> \in Outcomes(wire, r.by, r.hint) /\ r'.out \in Seq(Int)
      BY <1>2, <2>1, <2>2, <3>1
    <3> QED  BY <1>2, <3>1, <3>2, Arrives
  <2>3. CASE error = NoCode
    <3> DEFINE size  == Adds(e.of, wire.end)
               bytes == r.buffer
    <3> HIDE DEF error
    <3>1. r' = [Yields(size, bytes) EXCEPT !.st = "done"]
      BY <1>1, <1>8, <2>3
    <3>2. YieldsInto(size, bytes, "done")
      BY <3>1 DEF YieldsInto
    <3> HIDE DEF size, bytes
    <3>3. Same /\ r'.out = Append(r.out, size) /\ r'.code = r.code /\ r'.st = "done"
      BY <1>1, <1>2, <3>2, YieldsIs
    <3>4. r'.out = Sizes(wire, 1)
      BY <1>2, <1>6, <3>3 DEF size
    <3>5. <<r'.out, r'.code>> \in Outcomes(wire, r.by, r.hint) /\ r'.out \in Seq(Int)
      BY <1>2, <1>6, <2>1, <2>3, <3>3, <3>4
    <3> QED  BY <1>2, <3>3, <3>5, Arrives
  <2> QED  BY <2>2, <2>3
<1> QED  BY <1>7, <1>8

-----------------------------------------------------------------------------
\* A reader begins with nothing.
LEMMA ReadingBegins == ASSUME Init PROVE ReadInv
<1>1. PICK b \in Readers :
        /\ wire \in Wires(b.by)
        /\ r = [by |-> b.by, hint |-> b.hint, read |-> 0, buffer |-> 0,
                out |-> << >>, st |-> "reading", code |-> NoCode]
  BY DEF Init
<1>2. b.by \in {"split", "web", "all"} /\ (b.hint # << >> => b.hint[1] \in Nat)
  BY <1>1, HintsAssumption DEF Readers
<1>3. WireOK(wire, b.by)
  BY <1>1, <1>2, WiresOK
<1>4. /\ r.by = b.by /\ r.hint = b.hint /\ r.read = 0 /\ r.buffer = 0 /\ r.out = << >>
      /\ r.st = "reading" /\ r.code = NoCode
  BY <1>1
<1>5. Known
  <2>1. r = [f \in {"by", "hint", "read", "buffer", "out", "st", "code"} |-> r[f]]
    BY <1>1
  <2> QED  BY <1>2, <1>3, <1>4, <2>1 DEF Known, Shape
<1>6. wire.lens \in Seq(Nat) /\ wire.size \in 0 .. Size(wire.lens)
  BY <1>3 DEF WireOK
<1>7. wire.size \in Nat /\ Begins(wire.lens)[1] = 0
  <2>1. Size(wire.lens) \in Nat
    BY <1>6, BeginsGrow DEF Size
  <2> QED  BY <1>6, <2>1, BeginsAre
<1>8. Gathered
  BY <1>4, <1>7 DEF Gathered
<1>9. Advanced
  <2>1. Len(wire.lens) \in Nat /\ 0 \in 0 .. Len(wire.lens) /\ Len(r.out) = 0 /\ 0 + 1 = 1
    BY <1>4, <1>6
  <2>2. Sizes(wire, 0) = << >>
    <3>1. Sizes(wire, 0) \in Seq(Int) /\ Len(Sizes(wire, 0)) = 0
      BY <1>3, <2>1, SizesAre
    <3> QED  BY <3>1
  <2>3. \A i \in 1 .. 0 : Judged(wire, r.by, i) = NoCode
    OBVIOUS
  <2>4. r.out = Sizes(wire, Len(r.out))
    BY <1>4, <2>1, <2>2
  <2>5. Begins(wire.lens)[Len(r.out) + 1] = 0
    BY <1>7, <2>1
  <2>6. r.read \in 0 .. wire.size /\ 0 <= r.read /\ r.buffer = r.read - 0
    BY <1>4, <1>7
  <2> QED  BY <2>1, <2>3, <2>4, <2>5, <2>6 DEF Advanced
<1> QED  BY <1>4, <1>5, <1>8, <1>9 DEF ReadInv, Underway

\* Every step of a reader keeps the invariant.
LEMMA ReadingKeeps == ASSUME ReadInv, [Next]_vars PROVE ReadInv'
<1>1. CASE SplitLimit
  BY <1>1, SplitLimitKeeps
<1>2. CASE SplitShift
  BY <1>2, SplitShiftKeeps
<1>3. CASE SplitChunk \/ WebChunk \/ AllChunk
  BY <1>3, Takes DEF SplitChunk, WebChunk, AllChunk, Reading
<1>4. CASE SplitEnd
  BY <1>4, SplitEndKeeps
<1>5. CASE WebEnqueue
  BY <1>5, WebEnqueueKeeps
<1>6. CASE WebEnd
  BY <1>6, WebEndKeeps
<1>7. CASE AllFails
  BY <1>7, AllFailsKeeps
<1>8. CASE AllEnd
  BY <1>8, AllEndKeeps
<1>9. CASE UNCHANGED vars
  BY <1>9 DEF vars, ReadInv, Known, Shape, Covered, Underway, Gathered, Advanced,
     Arrived, Exempt
<1> QED  BY <1>1, <1>2, <1>3, <1>4, <1>5, <1>6, <1>7, <1>8, <1>9 DEF Next

\* What is yielded by a reader that has not ended begins one of the outcomes.
LEMMA ReadingIsRight == ASSUME ReadInv PROVE ReadAsWritten
<1> SUFFICES ASSUME Covered
             PROVE  Reads(r.st # "reading") \/ (r.st # "reading" /\ Exempt)
  BY DEF ReadAsWritten, Covered, Exempt
<1>1. CASE r.st # "reading"
  BY <1>1 DEF ReadInv, Arrived, Reads
<1>2. CASE r.st = "reading" /\ r.by = "all"
  <2>1. /\ r.out = << >> /\ WireOK(wire, "all")
        /\ Outcomes(wire, r.by, r.hint) = AllOutcomes(wire, r.hint)
    BY <1>2, AllStands
  <2>2. Sizes(wire, 1) \in Seq(Int)
    <3>1. 1 \in 0 .. Len(wire.lens)
      BY <2>1 DEF WireOK
    <3> QED  BY <2>1, <3>1, SizesAre
  <2>3. \E o \in AllOutcomes(wire, r.hint) : o[1] \in Seq(Int)
    <3>1. \A s, x : <<s, x>>[1] = s
      OBVIOUS
    <3>2. << >> \in Seq(Int)
      OBVIOUS
    <3>3. \E s \in Seq(Int) : \E x : <<s, x>> \in AllOutcomes(wire, r.hint)
      BY <2>2, <3>2 DEF AllOutcomes
    <3> QED  BY <3>1, <3>3
  <2>4. PICK o \in AllOutcomes(wire, r.hint) : o[1] \in Seq(Int)
    BY <2>3
  <2>5. Len(r.out) <= Len(o[1]) /\ r.out = SubSeq(o[1], 1, Len(r.out))
    BY <2>1, <2>4
  <2> QED  BY <1>2, <2>1, <2>4, <2>5 DEF Reads
<1>3. CASE r.st = "reading" /\ r.by # "all"
  <2>1. PICK k, n : Standing(k, n)
    BY <1>3, StandsAt
  <2>2. WireOK(wire, r.by) /\ r.by \in {"split", "web"}
    BY <1>3 DEF ReadInv, Known
  <2>3. /\ k \in 0 .. Len(wire.lens) /\ Len(wire.lens) \in Nat /\ k = Len(r.out)
        /\ Begins(wire.lens)[k + 1] <= wire.size
        /\ \A i \in 1 .. k : Judged(wire, r.by, i) = NoCode
        /\ r.out = Sizes(wire, k)
    BY <2>1 DEF Standing, At
  <2>4. PICK o \in Outcomes(wire, r.by, r.hint), m \in k .. Len(wire.lens) :
               o[1] = Sizes(wire, m)
    BY <2>2, <2>3, OutcomeAhead
  <2>5. m \in 0 .. Len(wire.lens) /\ k \in 0 .. m /\ k <= m
    BY <2>3
  <2>6. Len(Sizes(wire, m)) = m /\ SubSeq(Sizes(wire, m), 1, k) = Sizes(wire, k)
    BY <2>2, <2>5, SizesAre, SizesBegin
  <2>7. Len(r.out) <= Len(o[1]) /\ r.out = SubSeq(o[1], 1, Len(r.out))
    BY <2>3, <2>4, <2>5, <2>6
  <2> QED  BY <1>3, <2>4, <2>7 DEF Reads
<1> QED  BY <1>1, <1>2, <1>3

(* However a body is cut into chunks, and wherever it breaks off, a reader     *)
(* makes the same of it: the messages that are complete, in order, and the     *)
(* error for the first that is not, or that does not pass. What a browser      *)
(* makes of a last message that breaks off is left open.                       *)
THEOREM BodiesAreReadAsWritten == Spec => []ReadAsWritten
<1>1. Init => ReadInv
  BY ReadingBegins
<1>2. ReadInv /\ [Next]_vars => ReadInv'
  BY ReadingKeeps
<1>3. ReadInv => ReadAsWritten
  BY ReadingIsRight
<1> QED  BY <1>1, <1>2, <1>3, PTL DEF Spec
=============================================================================
