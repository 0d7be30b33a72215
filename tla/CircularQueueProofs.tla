------------------------- MODULE CircularQueueProofs -------------------------
(***************************************************************************)
(* Proofs about the two rings of Library, for every capacity and size of   *)
(* blocks. CircularQueue: each of its steps is one of the abstract queue   *)
(* (Fifo) or none. CircularQueueMP: its consumer gets what was pushed.     *)
(*                                                                         *)
(* Seen from outPos, the elements are filled, the slots the producer       *)
(* copies into lie behind them, and the consumer's positions among them.   *)
(***************************************************************************)
EXTENDS Library, FiniteSetTheorems, SequenceTheorems, TLAPS

Used == Ahead(outPos, inPos)
At(d) == buffer[Wrap(outPos + d)]

RingType ==
  /\ buffer \in [Slot -> 0..MaxPushed]
  /\ inPos \in Slot /\ outPos \in Slot
  /\ offered \in 0..MaxPushed /\ given \in Seq(0..MaxPushed)
  /\ producer \in [at : {"idle", "peeked"}] \cup [at : {"copy"}, block : Nat, extra : Nat, done : Nat]
  /\ consumer \in [at : {"idle"}]
                  \cup [at : {"read"}, size : Nat, got : Seq(0..MaxPushed), discard : BOOLEAN]
                  \cup [at : {"flush", "each"}, upTo : Slot]
                  \cup [at : {"sweep"}, pos : Slot, keptFrom : Slot, upTo : Slot]

\* What the producer was to copy fits behind the elements, in one piece or in two.
RoomInv ==
  /\ producer.at = "peeked" => offered + 1 <= MaxPushed
  /\ producer.at = "copy" =>
       /\ producer.block >= 1
       /\ producer.done <= producer.block + producer.extra
       /\ Used + producer.block + producer.extra <= Capacity
       /\ inPos + producer.block <= bufSize
       /\ producer.extra > 0 => inPos + producer.block = bufSize
       /\ offered + producer.block + producer.extra <= MaxPushed

Copied == IF producer.at = "copy" THEN producer.done ELSE IF producer.at = "peeked" THEN 1 ELSE 0

FilledInv == \A d \in 0..(Used + Copied - 1) : At(d) \in 1..MaxPushed

TakerInv ==
  /\ consumer.at = "read" =>
       /\ consumer.size \in 1..Used
       /\ Len(consumer.got) <= consumer.size
       /\ \A i \in 1..Len(consumer.got) : consumer.got[i] = At(i - 1)
       /\ consumer.discard = TRUE => consumer.got = <<>>
  /\ consumer.at = "flush" => Ahead(outPos, consumer.upTo) <= Used
  /\ consumer.at = "each" => Ahead(outPos, consumer.upTo) \in 1..Used
  /\ consumer.at = "sweep" => /\ Ahead(outPos, consumer.pos) <= Ahead(outPos, consumer.keptFrom)
                              /\ Ahead(outPos, consumer.keptFrom) <= Used

RingInv == RingType /\ RoomInv /\ FilledInv /\ TakerInv

Unseen == IF consumer.at = "sweep" THEN Ahead(outPos, consumer.pos) ELSE 0
RestAt == IF consumer.at = "sweep" THEN Ahead(outPos, consumer.keptFrom) ELSE 0

\* What the ring holds: what a sweep has yet to look at, and what it keeps.
Shape ==
  /\ Unseen \in Nat /\ RestAt \in Nat /\ Used \in Nat
  /\ Unseen <= RestAt /\ RestAt <= Used /\ Used <= Capacity
  /\ Contents \in Seq(1..MaxPushed)
  /\ Len(Contents) = Unseen + (Used - RestAt)
  /\ \A i \in 1..Len(Contents) :
       Contents[i] = IF i <= Unseen THEN At(i - 1) ELSE At(RestAt + (i - Unseen) - 1)

LEMMA WrapIs ==
    ASSUME NEW i \in Nat, i < bufSize + bufSize
    PROVE  Wrap(i) = IF i < bufSize THEN i ELSE i - bufSize
<1> DEFINE n == bufSize
<1>1. n \in Nat \ {0}
  BY CapacityAssumption DEF bufSize
<1>2. Wrap(i) = i % n
  BY DEF Wrap
<1> HIDE DEF n
<1>3. i < n => i % n = i
  BY <1>1
<1>4. i >= n /\ i < n + n => i % n = i - n
  BY <1>1
<1> QED
  BY <1>1, <1>2, <1>3, <1>4 DEF n

LEMMA Place ==
    ASSUME NEW a \in Slot, NEW d \in 0..Capacity
    PROVE  Wrap(a + d) \in Slot /\ Ahead(a, Wrap(a + d)) = d
<1>1. Capacity \in Nat /\ a \in Nat /\ d \in Nat /\ a + d \in Nat /\ a + d < bufSize + bufSize
  BY CapacityAssumption DEF Slot, bufSize
<1>2. Wrap(a + d) = IF a + d < bufSize THEN a + d ELSE (a + d) - bufSize
  <2> DEFINE s == a + d
  <2>1. s \in Nat /\ s < bufSize + bufSize
    BY <1>1
  <2> HIDE DEF s
  <2>2. Wrap(s) = IF s < bufSize THEN s ELSE s - bufSize
    BY <2>1, WrapIs
  <2> QED
    BY <2>2 DEF s
<1> QED
  BY <1>1, <1>2 DEF Slot, bufSize, Ahead

LEMMA Position ==
    ASSUME NEW a \in Slot, NEW b \in Slot
    PROVE  Ahead(a, b) \in 0..Capacity /\ Ahead(a, b) \in Nat /\ Wrap(a + Ahead(a, b)) = b
<1>1. Capacity \in Nat /\ a \in Nat /\ b \in Nat
  BY CapacityAssumption DEF Slot
<1>2. Ahead(a, b) \in 0..Capacity
  BY <1>1 DEF Slot, bufSize, Ahead
<1>3. Wrap(a + Ahead(a, b)) = IF a + Ahead(a, b) < bufSize THEN a + Ahead(a, b) ELSE (a + Ahead(a, b)) - bufSize
  BY <1>1, <1>2, WrapIs DEF Slot, bufSize
<1> QED
  BY <1>1, <1>2, <1>3 DEF Slot, bufSize, Ahead

LEMMA Further ==
    ASSUME NEW a \in Slot, NEW d \in Nat, NEW e \in Nat, d + e <= Capacity
    PROVE  Wrap(Wrap(a + d) + e) = Wrap(a + (d + e))
<1>1. Capacity \in Nat /\ a \in Nat /\ a <= Capacity
  BY CapacityAssumption DEF Slot
<1>6. /\ a + d \in Nat /\ a + d < bufSize + bufSize
      /\ a + (d + e) \in Nat /\ a + (d + e) < bufSize + bufSize
  BY <1>1 DEF bufSize
<1>2. Wrap(a + d) = IF a + d < bufSize THEN a + d ELSE (a + d) - bufSize
  <2> DEFINE s == a + d
  <2>1. s \in Nat /\ s < bufSize + bufSize
    BY <1>6
  <2> HIDE DEF s
  <2>2. Wrap(s) = IF s < bufSize THEN s ELSE s - bufSize
    BY <2>1, WrapIs
  <2> QED
    BY <2>2 DEF s
<1>3. Wrap(a + (d + e)) = IF a + (d + e) < bufSize THEN a + (d + e) ELSE (a + (d + e)) - bufSize
  <2> DEFINE s == a + (d + e)
  <2>1. s \in Nat /\ s < bufSize + bufSize
    BY <1>6
  <2> HIDE DEF s
  <2>2. Wrap(s) = IF s < bufSize THEN s ELSE s - bufSize
    BY <2>1, WrapIs
  <2> QED
    BY <2>2 DEF s
<1>4. CASE a + d < bufSize
  BY <1>1, <1>2, <1>3, <1>4
<1>5. CASE a + d >= bufSize
  <2>1. Wrap(a + d) = (a + d) - bufSize /\ ((a + d) - bufSize) + e \in Nat /\ ((a + d) - bufSize) + e < bufSize
    BY <1>1, <1>2, <1>5 DEF bufSize
  <2>2. Wrap(((a + d) - bufSize) + e) = ((a + d) - bufSize) + e
    BY <1>1, <2>1, WrapIs DEF bufSize
  <2> QED
    BY <1>1, <1>3, <1>5, <2>1, <2>2 DEF bufSize
<1> QED
  BY <1>1, <1>4, <1>5 DEF bufSize

LEMMA Between ==
    ASSUME NEW a \in Slot, NEW b \in Slot, NEW c \in Slot, Ahead(a, b) <= Ahead(a, c)
    PROVE  Ahead(b, c) = Ahead(a, c) - Ahead(a, b)
  BY CapacityAssumption DEF Slot, Ahead, bufSize

\* Different places hold different slots.
LEMMA Apart ==
    ASSUME NEW a \in Slot, NEW d \in 0..Capacity, NEW e \in 0..Capacity, d # e
    PROVE  Wrap(a + d) # Wrap(a + e)
  BY Place

LEMMA ElementsAre ==
    ASSUME RingType, FilledInv, NEW a \in Slot, NEW b \in Slot,
           Ahead(outPos, a) <= Ahead(outPos, b), Ahead(outPos, b) <= Used
    PROVE  /\ Elements(a, b) \in Seq(1..MaxPushed)
           /\ Len(Elements(a, b)) = Ahead(outPos, b) - Ahead(outPos, a)
           /\ \A i \in 1..(Ahead(outPos, b) - Ahead(outPos, a)) :
                Elements(a, b)[i] = At(Ahead(outPos, a) + i - 1)
<1> DEFINE n == Ahead(outPos, b) - Ahead(outPos, a)
           m == Ahead(outPos, a)
<1>1. outPos \in Slot /\ m \in Nat /\ n \in Nat /\ Used <= Capacity /\ m + n <= Used /\ Used \in Nat
  <2>1. outPos \in Slot /\ inPos \in Slot /\ Capacity \in Nat
    BY CapacityAssumption DEF RingType
  <2>2. Ahead(outPos, a) \in 0..Capacity /\ Ahead(outPos, b) \in 0..Capacity /\ Used \in 0..Capacity
    BY <2>1, Position DEF Used
  <2> QED
    BY <2>1, <2>2
<1>2. Ahead(a, b) = n
  BY <1>1, Between
<1>3. a = Wrap(outPos + m)
  BY <1>1, Position
<1>4. Copied \in Nat
  BY DEF Copied, RingType
<1> HIDE DEF n, m
<1>5. Elements(a, b) = [i \in 1..n |-> buffer[Wrap(a + i - 1)]]
  BY <1>2 DEF Elements
<1>6. ASSUME NEW i \in 1..n PROVE buffer[Wrap(a + i - 1)] = At(m + i - 1) /\ At(m + i - 1) \in 1..MaxPushed
  <2>1. i - 1 \in Nat /\ m + (i - 1) <= Capacity /\ m + (i - 1) \in 0..(Used + Copied - 1) /\ a \in Nat
    BY <1>1, <1>4, CapacityAssumption DEF Slot
  <2>2. Wrap(a + (i - 1)) = Wrap(outPos + (m + (i - 1)))
    BY <1>1, <1>3, <2>1, Further
  <2>3. a + i - 1 = a + (i - 1) /\ m + i - 1 = m + (i - 1)
    BY <1>1, <2>1
  <2> QED
    BY <2>1, <2>2, <2>3 DEF At, FilledInv
<1>7. \A i \in 1..n : Elements(a, b)[i] = At(m + i - 1) /\ Elements(a, b)[i] \in 1..MaxPushed
  BY <1>5, <1>6
<1>8. Elements(a, b) \in Seq(1..MaxPushed) /\ Len(Elements(a, b)) = n
  BY <1>1, <1>5, <1>7
<1> QED
  BY <1>7, <1>8 DEF n, m

LEMMA RingShape == RingInv => Shape
<1> SUFFICES ASSUME RingInv PROVE Shape
  OBVIOUS
<1>1. RingType /\ FilledInv /\ outPos \in Slot /\ inPos \in Slot /\ Used \in 0..Capacity /\ Capacity \in Nat
  BY CapacityAssumption, Position DEF RingInv, RingType, Used
<1>2. CASE consumer.at = "sweep"
  <2>1. /\ consumer.pos \in Slot /\ consumer.keptFrom \in Slot
        /\ Ahead(outPos, consumer.pos) = Unseen /\ Ahead(outPos, consumer.keptFrom) = RestAt
        /\ Unseen <= RestAt /\ RestAt <= Used
    BY <1>2 DEF RingInv, RingType, TakerInv, Unseen, RestAt
  <2>2. Unseen \in Nat /\ RestAt \in Nat
    BY <1>1, <2>1, Position
  <2>3. Ahead(outPos, outPos) = 0
    BY <1>1 DEF Ahead, Slot
  <2> DEFINE l == Elements(outPos, consumer.pos)
             r == Elements(consumer.keptFrom, inPos)
  <2>4. /\ l \in Seq(1..MaxPushed) /\ Len(l) = Unseen
        /\ \A i \in 1..Unseen : l[i] = At(i - 1)
    <3>1. /\ l \in Seq(1..MaxPushed) /\ Len(l) = Unseen - 0
          /\ \A i \in 1..(Unseen - 0) : l[i] = At(0 + i - 1)
      <4>1. /\ Ahead(outPos, outPos) <= Ahead(outPos, consumer.pos)
            /\ Ahead(outPos, consumer.pos) <= Used
        BY <1>1, <2>1, <2>2, <2>3
      <4>2. /\ l \in Seq(1..MaxPushed) /\ Len(l) = Ahead(outPos, consumer.pos) - Ahead(outPos, outPos)
            /\ \A i \in 1..(Ahead(outPos, consumer.pos) - Ahead(outPos, outPos)) :
                 l[i] = At(Ahead(outPos, outPos) + i - 1)
        BY <1>1, <2>1, <4>1, ElementsAre
      <4> QED
        BY <2>1, <2>3, <4>2
    <3>2. \A i \in 1..Unseen : 0 + i - 1 = i - 1
      OBVIOUS
    <3> QED
      BY <2>2, <3>1, <3>2
  <2>5. /\ r \in Seq(1..MaxPushed) /\ Len(r) = Used - RestAt
        /\ \A i \in 1..(Used - RestAt) : r[i] = At(RestAt + i - 1)
    BY <1>1, <2>1, ElementsAre DEF Used
  <2>6. Contents = l \o r
    BY <1>2 DEF Contents
  <2> HIDE DEF l, r
  <2>7. /\ Contents \in Seq(1..MaxPushed) /\ Len(Contents) = Unseen + (Used - RestAt)
        /\ \A i \in 1..Len(Contents) : Contents[i] = IF i <= Unseen THEN l[i] ELSE r[i - Unseen]
    <3>1. l \o r \in Seq(1..MaxPushed) /\ Len(l \o r) = Len(l) + Len(r)
      BY <2>4, <2>5, ConcatProperties
    <3>2. \A i \in 1..Len(l) + Len(r) : (l \o r)[i] = IF i <= Len(l) THEN l[i] ELSE r[i - Len(l)]
      BY <2>4, <2>5, ConcatProperties
    <3> QED
      BY <2>4, <2>5, <2>6, <3>1, <3>2
  <2>8. ASSUME NEW i \in 1..Len(Contents)
        PROVE  Contents[i] = IF i <= Unseen THEN At(i - 1) ELSE At(RestAt + (i - Unseen) - 1)
    <3>1. CASE i <= Unseen
      BY <2>2, <2>4, <2>7, <3>1
    <3>2. CASE i > Unseen
      <4>1. i - Unseen \in 1..(Used - RestAt) /\ Contents[i] = r[i - Unseen]
        BY <1>1, <2>1, <2>2, <2>7, <3>2
      <4> QED
        BY <2>2, <2>5, <3>2, <4>1
    <3> QED
      BY <2>2, <3>1, <3>2
  <2> QED
    BY <1>1, <2>1, <2>2, <2>7, <2>8 DEF Shape
<1>3. CASE consumer.at # "sweep"
  <2>1. Unseen = 0 /\ RestAt = 0 /\ Contents = Elements(outPos, inPos)
    BY <1>3 DEF Unseen, RestAt, Contents
  <2>2. Ahead(outPos, outPos) = 0
    BY <1>1 DEF Ahead, Slot
  <2>3. /\ Contents \in Seq(1..MaxPushed) /\ Len(Contents) = Used - 0
        /\ \A i \in 1..(Used - 0) : Contents[i] = At(0 + i - 1)
    BY <1>1, <2>1, <2>2, ElementsAre DEF Used
  <2>4. \A i \in 1..Used : 0 + i - 1 = 0 + (i - 0) - 1 /\ ~(i <= 0)
    OBVIOUS
  <2> QED
    BY <1>1, <2>1, <2>3, <2>4 DEF Shape
<1> QED
  BY <1>2, <1>3

LEMMA RingShapeNext == RingInv' => Shape'
  BY RingShape, PTL

LEMMA RingBasics ==
    ASSUME RingInv
    PROVE  /\ Capacity \in Nat \ {0} /\ bufSize = Capacity + 1 /\ MaxPushed \in Nat
           /\ outPos \in Slot /\ inPos \in Slot /\ outPos \in Nat /\ inPos \in Nat
           /\ Used \in 0..Capacity /\ Used \in Nat /\ inPos = Wrap(outPos + Used)
           /\ Copied \in Nat /\ Used + Copied <= Capacity + 1
<1>1. /\ Capacity \in Nat \ {0} /\ bufSize = Capacity + 1 /\ MaxPushed \in Nat
      /\ outPos \in Slot /\ inPos \in Slot /\ outPos \in Nat /\ inPos \in Nat
  BY CapacityAssumption, BoundsAssumption DEF RingInv, RingType, Slot, bufSize
<1>2. Used \in 0..Capacity /\ Used \in Nat /\ inPos = Wrap(outPos + Used)
  BY <1>1, Position DEF Used
<1>3. Copied \in Nat /\ Used + Copied <= Capacity + 1
  <2>1. CASE producer.at = "copy"
    <3>1. /\ producer.done \in Nat /\ producer.block \in Nat /\ producer.extra \in Nat
          /\ producer.done <= producer.block + producer.extra
          /\ Used + producer.block + producer.extra <= Capacity
      BY <2>1 DEF RingInv, RingType, RoomInv
    <3>2. Copied = producer.done
      BY <2>1 DEF Copied
    <3> QED
      BY <1>1, <1>2, <3>1, <3>2
  <2>2. CASE producer.at # "copy"
    <3>1. Copied = 0 \/ Copied = 1
      BY <2>2 DEF Copied
    <3> QED
      BY <1>1, <1>2, <3>1
  <2> QED
    BY <2>1, <2>2
<1> QED
  BY <1>1, <1>2, <1>3

LEMMA RingStarts == ASSUME Init PROVE RingInv /\ Queue!Init
<1>1. /\ buffer = [s \in Slot |-> 0] /\ inPos = 0 /\ outPos = 0
      /\ producer = [at |-> "idle"] /\ consumer = [at |-> "idle"] /\ offered = 0 /\ given = <<>>
  BY DEF Init, Resting
<1>2. Capacity \in Nat \ {0} /\ MaxPushed \in Nat
  BY CapacityAssumption, BoundsAssumption
<1>3. RingType
  <2>1. buffer \in [Slot -> 0..MaxPushed] /\ inPos \in Slot /\ outPos \in Slot /\ offered \in 0..MaxPushed
    BY <1>1, <1>2 DEF Slot
  <2>2. given \in Seq(0..MaxPushed) /\ producer \in [at : {"idle", "peeked"}] /\ consumer \in [at : {"idle"}]
    BY <1>1
  <2> QED
    BY <2>1, <2>2 DEF RingType
<1>4. Used = 0 /\ Copied = 0
  BY <1>1 DEF Used, Ahead, Copied
<1>5. RoomInv /\ FilledInv /\ TakerInv
  BY <1>1, <1>4 DEF RoomInv, FilledInv, TakerInv
<1>6. RingInv
  BY <1>3, <1>5 DEF RingInv
<1>7. Contents \in Seq(1..MaxPushed) /\ Len(Contents) = 0
  <2>1. Shape
    BY <1>6, RingShape
  <2>2. Unseen = 0 /\ RestAt = 0
    BY <1>1 DEF Unseen, RestAt
  <2> QED
    BY <1>4, <2>1, <2>2 DEF Shape
<1>8. Queue!Init
  BY <1>1, <1>7 DEF Queue!Init
<1> QED
  BY <1>6, <1>8

\* A step of the ring takes the queue it is a step, or leaves it.
QueueStep == Queue!Next \/ UNCHANGED <<Contents, given>>

LEMMA ContentsStay ==
    ASSUME RingInv, RingInv', Unseen' = Unseen, RestAt' = RestAt, Used' = Used,
           \A d \in 0..(Used - 1) : At(d)' = At(d)
    PROVE  Contents' = Contents
<1>1. Shape /\ Shape'
  BY RingShape, RingShapeNext
<1>2. /\ Unseen \in Nat /\ RestAt \in Nat /\ Used \in Nat /\ Unseen <= RestAt /\ RestAt <= Used
      /\ Contents \in Seq(1..MaxPushed) /\ Contents' \in Seq(1..MaxPushed)
      /\ Len(Contents) = Unseen + (Used - RestAt) /\ Len(Contents') = Len(Contents)
  BY <1>1 DEF Shape
<1>3. ASSUME NEW i \in 1..Len(Contents) PROVE Contents'[i] = Contents[i]
  <2>1. Contents[i] = IF i <= Unseen THEN At(i - 1) ELSE At(RestAt + (i - Unseen) - 1)
    BY <1>1 DEF Shape
  <2>2. Contents'[i] = IF i <= Unseen THEN At(i - 1)' ELSE At(RestAt + (i - Unseen) - 1)'
    <3>1. Contents'[i] = IF i <= Unseen' THEN At(i - 1)' ELSE At(RestAt + (i - Unseen) - 1)'
      BY <1>1, <1>2 DEF Shape
    <3> QED
      BY <3>1
  <2>3. CASE i <= Unseen
    <3>1. i - 1 \in 0..(Used - 1)
      BY <1>2, <2>3
    <3>2. At(i - 1)' = At(i - 1)
      BY <3>1
    <3> QED
      BY <2>1, <2>2, <2>3, <3>2
  <2>4. CASE ~(i <= Unseen)
    <3> DEFINE d == RestAt + (i - Unseen) - 1
    <3>1. d \in 0..(Used - 1)
      BY <1>2, <2>4
    <3>2. At(d)' = At(d)
      <4>1. \A e \in 0..(Used - 1) : At(e)' = At(e)
        OBVIOUS
      <4>2. d' = d
        OBVIOUS
      <4> HIDE DEF d
      <4> QED
        BY <3>1, <4>1, <4>2
    <3> QED
      BY <2>1, <2>2, <2>4, <3>2
  <2> QED
    BY <2>3, <2>4
<1> QED
  BY ONLY <1>2, <1>3, SeqEqual

\* What is written behind the elements changes none of them.
LEMMA WriteBehind ==
    ASSUME RingInv, NEW n \in Nat, Used + n <= Capacity, NEW x \in 1..MaxPushed,
           buffer' = [buffer EXCEPT ![Wrap(inPos + n)] = x],
           UNCHANGED <<inPos, outPos, consumer>>
    PROVE  /\ buffer' \in [Slot -> 0..MaxPushed]
           /\ \A d \in 0..Capacity : At(d)' = IF d = Used + n THEN x ELSE At(d)
           /\ TakerInv'
           /\ Used' = Used /\ Unseen' = Unseen /\ RestAt' = RestAt
<1>1. /\ outPos \in Slot /\ Capacity \in Nat /\ Used \in Nat /\ inPos = Wrap(outPos + Used)
      /\ buffer \in [Slot -> 0..MaxPushed] /\ MaxPushed \in Nat /\ Used \in 0..Capacity
  BY RingBasics DEF RingInv, RingType
<1>2. Wrap(inPos + n) = Wrap(outPos + (Used + n)) /\ Used + n \in 0..Capacity
  BY <1>1, Further
<1>3. Wrap(outPos + (Used + n)) \in Slot
  BY <1>1, <1>2, Place
<1>4. buffer' \in [Slot -> 0..MaxPushed]
  BY <1>1, <1>2, <1>3
<1>5. ASSUME NEW d \in 0..Capacity PROVE At(d)' = IF d = Used + n THEN x ELSE At(d)
  <2>1. Wrap(outPos + d) \in Slot /\ At(d)' = buffer'[Wrap(outPos + d)]
    BY <1>1, Place DEF At
  <2>2. CASE d = Used + n
    BY <1>1, <1>2, <1>3, <2>1, <2>2
  <2>3. CASE d # Used + n
    <3>1. Wrap(outPos + d) # Wrap(outPos + (Used + n))
      BY <1>1, <1>2, <2>3, Apart
    <3> QED
      BY <1>1, <1>2, <1>3, <2>1, <2>3, <3>1 DEF At
  <2> QED
    BY <2>2, <2>3
<1>6. Used' = Used /\ Unseen' = Unseen /\ RestAt' = RestAt
  BY DEF Used, Unseen, RestAt
<1>7. TakerInv'
  <2>1. ASSUME consumer.at = "read", NEW i \in 1..Len(consumer.got) PROVE At(i - 1)' = At(i - 1)
    <3>1. /\ consumer.size \in 1..Used /\ consumer.got \in Seq(0..MaxPushed)
          /\ Len(consumer.got) <= consumer.size
      BY <2>1 DEF RingInv, RingType, TakerInv
    <3>2. i - 1 \in 0..Capacity /\ i - 1 # Used + n
      BY <1>1, <3>1
    <3> QED
      BY <1>5, <3>2
  <2>2. TakerInv
    BY DEF RingInv
  <2> QED
    BY <1>6, <2>1, <2>2 DEF TakerInv
<1> QED
  BY <1>4, <1>5, <1>6, <1>7

\* A step that writes nothing and moves no position.
LEMMA NothingMoves ==
    ASSUME RingInv, UNCHANGED <<buffer, inPos, outPos>>
    PROVE  /\ \A d : At(d)' = At(d)
           /\ Used' = Used
           /\ UNCHANGED consumer => TakerInv' /\ Unseen' = Unseen /\ RestAt' = RestAt
           /\ UNCHANGED <<producer, offered>> => RoomInv' /\ FilledInv' /\ Copied' = Copied
<1>1. \A d : At(d)' = At(d)
  BY DEF At
<1>2. Used' = Used
  BY DEF Used
<1>3. ASSUME UNCHANGED consumer PROVE TakerInv' /\ Unseen' = Unseen /\ RestAt' = RestAt
  BY <1>1, <1>2, <1>3 DEF RingInv, TakerInv, Unseen, RestAt
<1>4. ASSUME UNCHANGED <<producer, offered>> PROVE RoomInv' /\ FilledInv' /\ Copied' = Copied
  <2>1. Copied' = Copied
    BY <1>4 DEF Copied
  <2> QED
    BY <1>1, <1>2, <1>4, <2>1 DEF RingInv, RoomInv, FilledInv
<1> QED
  BY <1>1, <1>2, <1>3, <1>4

LEMMA HasRoom ==
    ASSUME RingInv, Wrap(inPos + 1) # outPos
    PROVE  Used + 1 <= Capacity /\ inPos + 1 <= bufSize
<1>1. /\ Capacity \in Nat \ {0} /\ bufSize = Capacity + 1 /\ outPos \in Slot /\ inPos \in Slot
      /\ outPos \in Nat /\ inPos \in Nat
  BY RingBasics
<1>2. Wrap(inPos + 1) = IF inPos + 1 < bufSize THEN inPos + 1 ELSE (inPos + 1) - bufSize
  <2> DEFINE i == inPos + 1
  <2>1. i \in Nat /\ i < bufSize + bufSize
    BY <1>1 DEF Slot
  <2> HIDE DEF i
  <2>2. Wrap(i) = IF i < bufSize THEN i ELSE i - bufSize
    BY <2>1, WrapIs
  <2> QED
    BY <2>2 DEF i
<1> QED
  BY <1>1, <1>2 DEF Used, Ahead, Slot

\* push_n stores what fits of what it was given.
LEMMA BlocksFit ==
    ASSUME RingInv, NEW size \in Nat \ {0}
    PROVE  /\ FirstBlock(size) \in Nat /\ SecondBlock(size) \in Nat
           /\ FirstBlock(size) + SecondBlock(size) = Least(size, Capacity - Used)
           /\ inPos + FirstBlock(size) <= bufSize
           /\ SecondBlock(size) > 0 => inPos + FirstBlock(size) = bufSize
<1>1. /\ Capacity \in Nat \ {0} /\ bufSize = Capacity + 1 /\ outPos \in 0..Capacity /\ inPos \in 0..Capacity
  BY RingBasics DEF Slot
<1> DEFINE f == FirstBlock(size)
<1>2. /\ outPos > inPos => f = Least(size, outPos - 1 - inPos)
      /\ outPos = 0 => f = Least(size, bufSize - 1 - inPos)
      /\ ~(outPos > inPos) /\ outPos # 0 => f = Least(size, bufSize - inPos)
  BY <1>1 DEF FirstBlock
<1>3. f \in Nat /\ f <= size /\ inPos + f <= bufSize
  BY <1>1, <1>2 DEF Least
<1>4. Wrap(inPos + f) = IF inPos + f < bufSize THEN inPos + f ELSE 0
  <2> DEFINE i == inPos + f
  <2>1. i \in Nat /\ i < bufSize + bufSize /\ i <= bufSize
    BY <1>1, <1>3
  <2> HIDE DEF i
  <2>2. Wrap(i) = IF i < bufSize THEN i ELSE i - bufSize
    BY <2>1, WrapIs
  <2>3. Wrap(i) = IF i < bufSize THEN i ELSE 0
    BY <1>1, <2>1, <2>2
  <2> QED
    BY <2>3 DEF i
<1> DEFINE room == outPos - Wrap(inPos + f) - 1
<1>5. /\ outPos <= 1 => SecondBlock(size) = 0
      /\ outPos > 1 /\ room < 0 => SecondBlock(size) = size - f
      /\ outPos > 1 /\ ~(room < 0) => SecondBlock(size) = Least(size - f, room)
  BY <1>1 DEF SecondBlock
<1>6. room = IF inPos + f < bufSize THEN outPos - (inPos + f) - 1 ELSE outPos - 1
  BY <1>1, <1>3, <1>4
<1>7. Used = IF inPos >= outPos THEN inPos - outPos ELSE inPos - outPos + bufSize
  BY DEF Used, Ahead
<1> HIDE DEF f, room
<1>8. CASE outPos > inPos
  <2>1. f = Least(size, outPos - 1 - inPos) /\ Capacity - Used = outPos - 1 - inPos
    BY <1>1, <1>2, <1>7, <1>8
  <2>2. inPos + f < bufSize /\ room = outPos - (inPos + f) - 1
    BY <1>1, <1>3, <1>6, <1>8, <2>1 DEF Least
  <2>3. SecondBlock(size) = 0
    BY <1>1, <1>3, <1>5, <2>1, <2>2 DEF Least
  <2> QED
    BY <1>1, <1>3, <2>1, <2>3 DEF f
<1>9. CASE outPos = 0
  <2>1. SecondBlock(size) = 0 /\ f = Least(size, bufSize - 1 - inPos) /\ Capacity - Used = bufSize - 1 - inPos
    BY <1>1, <1>2, <1>5, <1>7, <1>9
  <2> QED
    BY <1>1, <1>3, <2>1 DEF f
<1>10. CASE ~(outPos > inPos) /\ outPos # 0
  <2>1. f = Least(size, bufSize - inPos) /\ Capacity - Used = (bufSize - inPos) + (outPos - 1)
    BY <1>1, <1>2, <1>7, <1>10
  <2>2. CASE inPos + f < bufSize
    <3>1. f = size /\ size <= Capacity - Used /\ room < 0
      BY <1>1, <1>3, <1>6, <1>10, <2>1, <2>2 DEF Least
    <3>2. SecondBlock(size) = 0
      BY <1>1, <1>3, <1>5, <3>1
    <3>3. Least(size, Capacity - Used) = size
      <4>1. Capacity - Used \in Int
        BY RingBasics
      <4> QED
        BY <3>1, <4>1 DEF Least
    <3> QED
      BY <1>1, <1>3, <3>1, <3>2, <3>3 DEF f
  <2>3. CASE inPos + f = bufSize
    <3>1. f = bufSize - inPos /\ room = outPos - 1 /\ size >= f
      BY <1>1, <1>3, <1>6, <2>3
    <3>2. SecondBlock(size) = Least(size - f, outPos - 1)
      BY <1>1, <1>3, <1>5, <1>10, <3>1 DEF Least
    <3>3. f + SecondBlock(size) = Least(size, Capacity - Used) /\ SecondBlock(size) \in Nat
      BY <1>1, <1>3, <1>10, <2>1, <3>1, <3>2 DEF Least
    <3> QED
      BY <1>3, <2>3, <3>3 DEF f
  <2> QED
    BY <1>1, <1>3, <2>2, <2>3
<1> QED
  BY <1>1, <1>8, <1>9, <1>10

LEMMA PushKept ==
    ASSUME RingInv, Push \/ Pushpeek \/ PushPeeked \/ \E size \in 1..MaxBulk : PushN(size)
    PROVE  RingInv' /\ QueueStep
<1>1. UNCHANGED <<outPos, consumer, given, inPos, offered>>
  BY DEF Push, Pushpeek, PushPeeked, PushN, producerRest
<1>2. /\ Capacity \in Nat \ {0} /\ bufSize = Capacity + 1 /\ MaxPushed \in Nat /\ outPos \in Slot /\ inPos \in Slot
      /\ Used \in 0..Capacity /\ Used \in Nat /\ inPos = Wrap(outPos + Used) /\ inPos \in Nat
      /\ RingType /\ RoomInv /\ FilledInv /\ TakerInv /\ Copied \in Nat /\ offered \in Nat /\ MaxBulk \in Nat
  BY RingBasics, BoundsAssumption DEF RingInv, RingType
<1>3. ASSUME RingInv', \A d \in 0..(Used - 1) : At(d)' = At(d) PROVE QueueStep
  <2>1. Unseen' = Unseen /\ RestAt' = RestAt /\ Used' = Used
    BY <1>1 DEF Unseen, RestAt, Used
  <2>2. Contents' = Contents
    BY <1>3, <2>1, ContentsStay
  <2> QED
    BY <1>1, <2>2 DEF QueueStep
<1>4. ASSUME UNCHANGED buffer, Copied' <= Copied, Copied' \in Nat,
             producer' \in [at : {"idle", "peeked"}] \cup [at : {"copy"}, block : Nat, extra : Nat, done : Nat],
             RoomInv'
      PROVE  RingInv' /\ QueueStep
  <2>1. Used' = Used /\ (\A d : At(d)' = At(d)) /\ TakerInv'
    BY <1>1, <1>4, NothingMoves
  <2>2. FilledInv'
    <3>1. PICK c \in Nat : Copied' = c
      BY <1>4
    <3>2. Used' = Used /\ Used \in Nat /\ Copied \in Nat /\ c <= Copied
      BY <1>2, <1>4, <2>1, <3>1
    <3>3. \A d : d \in 0..(Used + c - 1) => d \in 0..(Used + Copied - 1)
      BY ONLY <3>2
    <3>4. \A d \in 0..(Used + c - 1) : At(d)' \in 1..MaxPushed
      BY <1>2, <2>1, <3>3 DEF FilledInv
    <3> QED
      BY <3>1, <3>2, <3>4 DEF FilledInv
  <2>3. RingType'
    BY <1>1, <1>2, <1>4 DEF RingType
  <2> QED
    BY <1>3, <1>4, <2>1, <2>2, <2>3 DEF RingInv
<1>5. CASE Push
  <2>1. /\ offered < MaxPushed /\ Wrap(inPos + 1) # outPos /\ UNCHANGED buffer
        /\ producer' = [at |-> "copy", block |-> 1, extra |-> 0, done |-> 0]
    BY <1>5 DEF Push
  <2>2. Used + 1 <= Capacity /\ inPos + 1 <= bufSize /\ Used' = Used
    BY <1>1, <2>1, HasRoom DEF Used
  <2>3. Copied' = 0
    BY <2>1 DEF Copied
  <2>4. RoomInv'
    BY <1>1, <1>2, <2>1, <2>2 DEF RoomInv
  <2> QED
    BY <1>2, <1>4, <2>1, <2>3, <2>4
<1>6. CASE Pushpeek
  <2>1. /\ offered < MaxPushed /\ producer.at = "idle" /\ producer' = [at |-> "peeked"]
        /\ buffer' = [buffer EXCEPT ![inPos] = offered + 1]
    BY <1>6 DEF Pushpeek
  <2>2. Wrap(inPos + 0) = inPos /\ Used + 0 = Used
    BY <1>2, WrapIs DEF Slot
  <2>3. offered + 1 \in 1..MaxPushed
    BY <1>2, <2>1
  <2>4. /\ buffer' \in [Slot -> 0..MaxPushed] /\ TakerInv' /\ Used' = Used
        /\ \A d \in 0..Capacity : At(d)' = IF d = Used + 0 THEN offered + 1 ELSE At(d)
    <3>1. buffer' = [buffer EXCEPT ![Wrap(inPos + 0)] = offered + 1]
      BY ONLY <2>1, <2>2
    <3>2. Used + 0 <= Capacity
      BY ONLY <1>2
    <3> QED
      BY <1>1, <2>3, <3>1, <3>2, WriteBehind
  <2>5. Copied = 0 /\ Copied' = 1
    BY <2>1 DEF Copied
  <2>6. FilledInv'
    <3>1. ASSUME NEW d \in 0..(Used' + Copied' - 1) PROVE At(d)' \in 1..MaxPushed
      <4>1. d \in 0..Capacity /\ (d = Used \/ d \in 0..(Used + Copied - 1))
        BY <1>2, <2>4, <2>5
      <4> QED
        BY <1>2, <2>2, <2>3, <2>4, <4>1 DEF FilledInv
    <3> QED
      BY <3>1 DEF FilledInv
  <2>7. RoomInv'
    BY <1>1, <1>2, <2>1 DEF RoomInv
  <2>8. RingType'
    BY <1>1, <1>2, <2>1, <2>4 DEF RingType
  <2>9. \A d \in 0..(Used - 1) : At(d)' = At(d)
    BY <1>2, <2>2, <2>4
  <2> QED
    BY <1>3, <2>4, <2>6, <2>7, <2>8, <2>9 DEF RingInv
<1>7. CASE PushPeeked
  <2>1. producer.at = "peeked" /\ UNCHANGED buffer /\ Copied = 1
    BY <1>7 DEF PushPeeked, Copied
  <2>2. CASE Wrap(inPos + 1) = outPos
    <3>1. producer' = [at |-> "idle"]
      BY <1>7, <2>2 DEF PushPeeked, Resting
    <3>2. Copied' = 0 /\ RoomInv'
      BY <3>1 DEF Copied, RoomInv
    <3> QED
      BY <1>4, <2>1, <3>1, <3>2
  <2>3. CASE Wrap(inPos + 1) # outPos
    <3>1. producer' = [at |-> "copy", block |-> 1, extra |-> 0, done |-> 1]
      BY <1>7, <2>3 DEF PushPeeked
    <3>2. Used + 1 <= Capacity /\ inPos + 1 <= bufSize /\ Used' = Used
      BY <1>1, <2>3, HasRoom DEF Used
    <3>3. offered + 1 <= MaxPushed
      BY <1>2, <2>1 DEF RoomInv
    <3>4. Copied' = 1
      BY <3>1 DEF Copied
    <3>5. RoomInv'
      BY <1>1, <1>2, <3>1, <3>2, <3>3 DEF RoomInv
    <3> QED
      BY <1>4, <2>1, <3>1, <3>4, <3>5
  <2> QED
    BY <2>2, <2>3
<1>8. ASSUME NEW size \in 1..MaxBulk, PushN(size) PROVE RingInv' /\ QueueStep
  <2> DEFINE f == FirstBlock(size)
             s == SecondBlock(size)
  <2>1. /\ offered + size <= MaxPushed /\ f > 0 /\ UNCHANGED buffer
        /\ producer' = [at |-> "copy", block |-> f, extra |-> s, done |-> 0]
    BY <1>8 DEF PushN
  <2>2. size \in Nat \ {0}
    BY <1>2
  <2>3. /\ f \in Nat /\ s \in Nat /\ f + s = Least(size, Capacity - Used)
        /\ inPos + f <= bufSize /\ (s > 0 => inPos + f = bufSize)
    BY <2>2, BlocksFit
  <2> HIDE DEF f, s
  <2>4. f + s <= size /\ Used + f + s <= Capacity
    <3>1. f + s <= size /\ f + s <= Capacity - Used
      BY <1>2, <2>2, <2>3 DEF Least
    <3> QED
      BY <1>2, <2>3, <3>1
  <2>5. Copied' = 0 /\ Used' = Used
    BY <1>1, <2>1 DEF Copied, Used
  <2>6. offered + f + s <= MaxPushed
    BY <1>2, <2>1, <2>2, <2>3, <2>4
  <2>7. RoomInv'
    BY <1>1, <1>2, <2>1, <2>3, <2>4, <2>5, <2>6 DEF RoomInv
  <2>8. producer' \in [at : {"copy"}, block : Nat, extra : Nat, done : Nat]
    BY <2>1, <2>3
  <2> QED
    BY <1>2, <1>4, <2>1, <2>5, <2>7, <2>8
<1> QED
  BY <1>5, <1>6, <1>7, <1>8

LEMMA CopyKept == ASSUME RingInv, Copy PROVE RingInv' /\ QueueStep
<1>1. /\ producer.at = "copy" /\ producer.done < producer.block + producer.extra
      /\ producer' = [producer EXCEPT !.done = @ + 1]
      /\ UNCHANGED <<outPos, consumer, given, inPos, offered>>
  BY DEF Copy, producerRest
<1> DEFINE n == producer.done
<1>2. /\ producer \in [at : {"copy"}, block : Nat, extra : Nat, done : Nat]
      /\ n \in Nat /\ producer.block \in Nat /\ producer.extra \in Nat
      /\ Used + producer.block + producer.extra <= Capacity
      /\ inPos + producer.block <= bufSize
      /\ producer.extra > 0 => inPos + producer.block = bufSize
      /\ offered + producer.block + producer.extra <= MaxPushed
      /\ producer.block >= 1
  BY <1>1 DEF RingInv, RingType, RoomInv
<1>3. /\ Capacity \in Nat \ {0} /\ bufSize = Capacity + 1 /\ MaxPushed \in Nat /\ outPos \in Slot /\ inPos \in Slot
      /\ Used \in 0..Capacity /\ Used \in Nat /\ inPos \in 0..Capacity /\ offered \in 0..MaxPushed
      /\ RingType /\ RoomInv /\ FilledInv /\ TakerInv
  BY RingBasics DEF RingInv, RingType, Slot
<1>4. (IF n < producer.block THEN inPos + n ELSE n - producer.block) = Wrap(inPos + n)
  <2>1. n <= Capacity /\ inPos + n \in Nat /\ inPos + n < bufSize + bufSize
    BY <1>1, <1>2, <1>3
  <2>2. Wrap(inPos + n) = IF inPos + n < bufSize THEN inPos + n ELSE (inPos + n) - bufSize
    <3> DEFINE i == inPos + n
    <3>1. i \in Nat /\ i < bufSize + bufSize
      BY <2>1
    <3> HIDE DEF i
    <3>2. Wrap(i) = IF i < bufSize THEN i ELSE i - bufSize
      BY <3>1, WrapIs
    <3> QED
      BY <3>2 DEF i
  <2> QED
    BY <1>1, <1>2, <1>3, <2>1, <2>2
<1>5. buffer' = [buffer EXCEPT ![Wrap(inPos + n)] = offered + n + 1]
  BY <1>4 DEF Copy
<1>6. offered + n + 1 \in 1..MaxPushed /\ Used + n <= Capacity
  BY <1>1, <1>2, <1>3
<1>7. /\ producer'.at = "copy" /\ producer'.done = n + 1 /\ producer'.block = producer.block
      /\ producer'.extra = producer.extra
      /\ producer' \in [at : {"copy"}, block : Nat, extra : Nat, done : Nat]
  BY <1>1, <1>2
<1>12. Copied = n
  BY <1>1 DEF Copied
<1> HIDE DEF n
<1>8. /\ buffer' \in [Slot -> 0..MaxPushed] /\ TakerInv' /\ Used' = Used /\ Unseen' = Unseen /\ RestAt' = RestAt
      /\ \A d \in 0..Capacity : At(d)' = IF d = Used + n THEN offered + n + 1 ELSE At(d)
  BY <1>1, <1>2, <1>5, <1>6, WriteBehind
<1>9. RingType' /\ RoomInv'
  <2>1. RingType'
    BY <1>1, <1>3, <1>7, <1>8 DEF RingType
  <2>2. n + 1 <= producer.block + producer.extra
    BY <1>1, <1>2 DEF n
  <2>3. RoomInv'
    BY <1>1, <1>2, <1>7, <1>8, <2>2 DEF RoomInv
  <2> QED
    BY <2>1, <2>3
<1>10. FilledInv'
  <2>1. Copied' = n + 1
    BY <1>7 DEF Copied
  <2>2. ASSUME NEW d \in 0..(Used' + Copied' - 1) PROVE At(d)' \in 1..MaxPushed
    <3>1. d \in 0..Capacity /\ (d = Used + n \/ d \in 0..(Used + Copied - 1))
      BY <1>2, <1>3, <1>6, <1>8, <1>12, <2>1
    <3> QED
      BY <1>3, <1>6, <1>8, <3>1 DEF FilledInv
  <2> QED
    BY <2>2 DEF FilledInv
<1>11. RingInv'
  BY <1>8, <1>9, <1>10 DEF RingInv
<1>13. \A d \in 0..(Used - 1) : At(d)' = At(d)
  BY <1>2, <1>3, <1>8
<1>14. Contents' = Contents
  BY <1>8, <1>11, <1>13, ContentsStay
<1> QED
  BY <1>1, <1>11, <1>14 DEF QueueStep

LEMMA LongerIs ==
    ASSUME NEW T, NEW s \in Seq(T), NEW t \in Seq(T), Len(s) < Len(t), \A i \in 1..Len(s) : t[i] = s[i]
    PROVE  Queue!IsStrictPrefix(s, t)
<1>1. Len(s) \in Nat /\ Len(t) \in Nat /\ Len(s) <= Len(t) /\ s # t
  OBVIOUS
<1>2. SubSeq(s, 1, Len(s)) = SubSeq(t, 1, Len(s))
  <2>1. SubSeq(t, 1, Len(s)) \in Seq(T) /\ Len(SubSeq(t, 1, Len(s))) = Len(s)
    BY <1>1
  <2>2. SubSeq(s, 1, Len(s)) \in Seq(T) /\ Len(SubSeq(s, 1, Len(s))) = Len(s)
    BY <1>1
  <2>3. \A i \in 1..Len(s) : SubSeq(s, 1, Len(s))[i] = SubSeq(t, 1, Len(s))[i]
    BY <1>1
  <2> QED
    BY <2>1, <2>2, <2>3, SeqEqual
<1> QED
  BY <1>1, <1>2 DEF Queue!IsStrictPrefix, Queue!IsPrefix

\* What was copied becomes the end of the queue.
LEMMA PublishKept == ASSUME RingInv, Publish PROVE RingInv' /\ QueueStep
<1> DEFINE n == producer.done
           m == Used + n
<1>1. /\ producer.at = "copy" /\ n = producer.block + producer.extra
      /\ inPos' = Wrap(inPos + producer.block) + producer.extra
      /\ offered' = offered + n /\ producer' = [at |-> "idle"]
      /\ UNCHANGED <<outPos, consumer, given, buffer>>
  BY DEF Publish, Resting, producerRest
<1>2. /\ n \in Nat /\ producer.block \in Nat /\ producer.extra \in Nat
      /\ m <= Capacity /\ n >= 1
      /\ inPos + producer.block <= bufSize
      /\ producer.extra > 0 => inPos + producer.block = bufSize
      /\ offered + n <= MaxPushed
  <2>1. /\ producer \in [at : {"copy"}, block : Nat, extra : Nat, done : Nat]
        /\ Used + producer.block + producer.extra <= Capacity
        /\ inPos + producer.block <= bufSize
        /\ producer.extra > 0 => inPos + producer.block = bufSize
        /\ offered + producer.block + producer.extra <= MaxPushed
        /\ producer.block >= 1
    BY <1>1 DEF RingInv, RingType, RoomInv
  <2>2. Used \in Nat /\ offered \in Nat /\ Capacity \in Nat /\ MaxPushed \in Nat
    BY RingBasics DEF RingInv, RingType
  <2> QED
    BY <1>1, <2>1, <2>2
<1>3. /\ Capacity \in Nat \ {0} /\ bufSize = Capacity + 1 /\ MaxPushed \in Nat /\ outPos \in Slot /\ inPos \in Slot
      /\ Used \in 0..Capacity /\ Used \in Nat /\ inPos \in 0..Capacity /\ offered \in 0..MaxPushed
      /\ RingType /\ RoomInv /\ FilledInv /\ TakerInv /\ inPos = Wrap(outPos + Used)
  BY RingBasics DEF RingInv, RingType, Slot
<1>4. inPos' = Wrap(inPos + n)
  <2>1. /\ inPos + n \in Nat /\ inPos + n < bufSize + bufSize
        /\ inPos + producer.block \in Nat /\ inPos + producer.block < bufSize + bufSize
    BY <1>1, <1>2, <1>3
  <2>2. \A i \in Nat : i < bufSize + bufSize => Wrap(i) = IF i < bufSize THEN i ELSE i - bufSize
    BY WrapIs
  <2>3. CASE producer.extra > 0
    <3>1. Wrap(inPos + producer.block) = 0
      <4>1. inPos + producer.block = bufSize /\ bufSize \in Nat /\ bufSize < bufSize + bufSize
        BY <1>2, <1>3, <2>3
      <4>2. Wrap(bufSize) = 0
        BY <2>2, <4>1
      <4> QED
        BY <4>1, <4>2
    <3>2. Wrap(inPos + n) = producer.extra
      <4> DEFINE i == inPos + n
      <4>1. i \in Nat /\ i < bufSize + bufSize /\ i = bufSize + producer.extra
        BY <1>1, <1>2, <1>3, <2>1, <2>3
      <4> HIDE DEF i
      <4>2. Wrap(i) = producer.extra
        BY <1>2, <1>3, <2>2, <2>3, <4>1
      <4> QED
        BY <4>2 DEF i
    <3> QED
      BY <1>1, <1>2, <3>1, <3>2
  <2>4. CASE ~(producer.extra > 0)
    <3>1. producer.extra = 0 /\ n = producer.block
      BY <1>1, <1>2, <2>4
    <3>2. Wrap(inPos + producer.block) \in Nat
      <4>1. producer.block \in 0..Capacity
        BY <1>2, <1>3, <3>1
      <4>2. Wrap(inPos + producer.block) \in Slot
        BY <1>3, <4>1, Place
      <4>3. \A i \in Slot : i \in Nat
        BY <1>3 DEF Slot
      <4> QED
        BY <4>2, <4>3
    <3>3. Wrap(inPos + producer.block) + producer.extra = Wrap(inPos + producer.block)
      BY <3>1, <3>2
    <3> QED
      BY <1>1, <3>1, <3>3
  <2> QED
    BY <2>3, <2>4
<1>5. inPos' = Wrap(outPos + m) /\ m \in 0..Capacity
  BY <1>2, <1>3, <1>4, Further
<1>6. inPos' \in Slot /\ Used' = m
  BY <1>1, <1>3, <1>5, Place DEF Used
<1>7. Copied = n /\ Copied' = 0
  BY <1>1 DEF Copied
<1>8. \A d : At(d)' = At(d)
  BY <1>1 DEF At
<1>9. Unseen' = Unseen /\ RestAt' = RestAt
  BY <1>1 DEF Unseen, RestAt
<1> HIDE DEF n
<1>10. RingType'
  <2>1. PICK c \in 0..MaxPushed : c = offered + n
    BY <1>2, <1>3
  <2>2. offered' \in 0..MaxPushed
    BY <1>1, <2>1 DEF n
  <2>3. producer' \in [at : {"idle", "peeked"}]
    BY <1>1
  <2> QED
    BY <1>1, <1>3, <1>6, <2>2, <2>3 DEF RingType
<1>11. RoomInv'
  BY <1>1 DEF RoomInv
<1>12. FilledInv'
  <2>1. \A d \in 0..(m - 1) : At(d) \in 1..MaxPushed
    <3>1. Used + Copied - 1 = m - 1
      BY <1>2, <1>3, <1>7
    <3>2. \A d \in 0..(Used + Copied - 1) : At(d) \in 1..MaxPushed
      BY <1>3 DEF FilledInv
    <3> QED
      BY <3>1, <3>2
  <2>2. m + 0 - 1 = m - 1
    BY <1>2, <1>3
  <2>3. \A d \in 0..(m + 0 - 1) : At(d)' \in 1..MaxPushed
    BY <1>8, <2>1, <2>2
  <2> QED
    BY <1>6, <1>7, <2>3 DEF FilledInv
<1>13. TakerInv'
  <2>1. Used <= m /\ \A i \in 1..Used : i \in 1..m
    BY <1>2, <1>3
  <2>2. CASE consumer.at = "read"
    <3>1. /\ consumer.size \in 1..m /\ Len(consumer.got) <= consumer.size
          /\ \A i \in 1..Len(consumer.got) : consumer.got[i] = At(i - 1)'
          /\ consumer.discard = TRUE => consumer.got = <<>>
      BY <1>3, <1>8, <2>1, <2>2 DEF TakerInv
    <3> QED
      BY <1>1, <1>6, <2>2, <3>1 DEF TakerInv
  <2>3. CASE consumer.at = "flush"
    <3>1. Ahead(outPos, consumer.upTo) \in Nat /\ Ahead(outPos, consumer.upTo) <= m
      <4>1. consumer.upTo \in Slot /\ Ahead(outPos, consumer.upTo) <= Used
        BY <1>3, <2>3 DEF TakerInv, RingType
      <4>2. Ahead(outPos, consumer.upTo) \in Nat
        BY <1>3, <4>1, Position
      <4> QED
        BY <1>2, <1>3, <4>1, <4>2
    <3> QED
      BY <1>1, <1>6, <2>3, <3>1 DEF TakerInv
  <2>4. CASE consumer.at = "each"
    <3>1. Ahead(outPos, consumer.upTo) \in 1..m
      BY <1>3, <2>1, <2>4 DEF TakerInv
    <3> QED
      BY <1>1, <1>6, <2>4, <3>1 DEF TakerInv
  <2>5. CASE consumer.at = "sweep"
    <3>1. /\ consumer.keptFrom \in Slot
          /\ Ahead(outPos, consumer.pos) <= Ahead(outPos, consumer.keptFrom)
          /\ Ahead(outPos, consumer.keptFrom) <= Used
      BY <1>3, <2>5 DEF TakerInv, RingType
    <3>2. Ahead(outPos, consumer.keptFrom) \in Nat
      BY <1>3, <3>1, Position
    <3>3. Ahead(outPos, consumer.keptFrom) <= m
      BY <1>2, <1>3, <3>1, <3>2
    <3> QED
      BY <1>1, <1>6, <2>5, <3>1, <3>3 DEF TakerInv
  <2>6. CASE consumer.at = "idle"
    BY <1>1, <2>6 DEF TakerInv
  <2> QED
    BY <1>3, <2>2, <2>3, <2>4, <2>5, <2>6 DEF RingType
<1>14. RingInv'
  BY <1>10, <1>11, <1>12, <1>13 DEF RingInv
<1>15. Shape /\ Shape'
  BY <1>14, RingShape, RingShapeNext
<1>16. /\ Unseen \in Nat /\ RestAt \in Nat /\ Unseen <= RestAt /\ RestAt <= Used
       /\ Contents \in Seq(1..MaxPushed) /\ Contents' \in Seq(1..MaxPushed)
       /\ Len(Contents) = Unseen + (Used - RestAt) /\ Len(Contents') = Unseen + (m - RestAt)
  BY <1>6, <1>9, <1>15 DEF Shape
<1>17. Len(Contents) < Len(Contents') /\ Len(Contents') <= Capacity
  <2>1. PICK c : Len(Contents') = c /\ c = Unseen + (m - RestAt)
    BY <1>16
  <2>2. /\ Unseen \in Nat /\ RestAt \in Nat /\ Unseen <= RestAt /\ RestAt <= Used
        /\ Len(Contents) = Unseen + (Used - RestAt) /\ c = Unseen + (m - RestAt)
    BY <1>16, <2>1
  <2>3. Used \in Nat /\ Capacity \in Nat /\ n \in Nat /\ n >= 1 /\ m <= Capacity
    BY <1>2, <1>3
  <2>4. Len(Contents) < c /\ c <= Capacity
    BY ONLY <2>2, <2>3
  <2> QED
    BY <2>1, <2>4
<1>18. ASSUME NEW i \in 1..Len(Contents) PROVE Contents'[i] = Contents[i]
  <2>1. i \in 1..Len(Contents')
    BY <1>16, <1>17
  <2>2. Contents[i] = IF i <= Unseen THEN At(i - 1) ELSE At(RestAt + (i - Unseen) - 1)
    BY <1>15 DEF Shape
  <2>3. Contents'[i] = IF i <= Unseen' THEN At(i - 1)' ELSE At(RestAt + (i - Unseen) - 1)'
    BY <1>15, <2>1 DEF Shape
  <2>4. At(i - 1)' = At(i - 1) /\ At(RestAt + (i - Unseen) - 1)' = At(RestAt + (i - Unseen) - 1)
    BY <1>1, <1>9 DEF At
  <2> QED
    BY <1>9, <2>2, <2>3, <2>4
<1>19. Queue!IsStrictPrefix(Contents, Contents')
  BY <1>16, <1>17, <1>18, LongerIs
<1>20. Queue!Put
  BY <1>1, <1>16, <1>17, <1>19 DEF Queue!Put
<1> QED
  BY <1>14, <1>20 DEF QueueStep, Queue!Next

\* The reader's position moves over the first n elements.
LEMMA OutMoves ==
    ASSUME RingInv, NEW n \in Nat, n <= Used, outPos' = Wrap(outPos + n),
           UNCHANGED <<buffer, inPos, producer, offered>>
    PROVE  /\ outPos' \in Slot
           /\ Used' = Used - n
           /\ \A p \in Slot : n <= Ahead(outPos, p) => Ahead(outPos', p) = Ahead(outPos, p) - n
           /\ \A d \in Nat : n + d <= Capacity => At(d)' = At(n + d)
           /\ RoomInv' /\ FilledInv'
<1>1. /\ Capacity \in Nat \ {0} /\ outPos \in Slot /\ inPos \in Slot /\ Used \in Nat /\ Used <= Capacity
      /\ Copied \in Nat /\ Used + Copied <= Capacity + 1 /\ RoomInv /\ FilledInv /\ RingType
      /\ n \in 0..Capacity
  BY RingBasics DEF RingInv
<1>2. PICK q \in Slot : q = Wrap(outPos + n) /\ Ahead(outPos, q) = n
  BY <1>1, Place
<1>3. \A p \in Slot : n <= Ahead(outPos, p) => Ahead(q, p) = Ahead(outPos, p) - n
  BY <1>1, <1>2, Between
<1>4. outPos' = q
  BY <1>2
<1>5. Used' = Used - n
  <2>1. Used' = Ahead(q, inPos)
    BY <1>4 DEF Used
  <2> QED
    BY <1>1, <1>3, <2>1 DEF Used
<1>6. ASSUME NEW d \in Nat, n + d <= Capacity PROVE At(d)' = At(n + d)
  <2>1. Wrap(q + d) = Wrap(outPos + (n + d))
    BY <1>1, <1>2, <1>6, Further
  <2>2. At(d)' = buffer[Wrap(q + d)]
    BY <1>4 DEF At
  <2> QED
    BY <2>1, <2>2 DEF At
<1>7. PICK u \in Nat : Used' = u /\ u = Used - n
  <2>1. Used - n \in Nat
    BY <1>1
  <2> QED
    BY <1>5, <2>1
<1>8. RoomInv'
  <2>1. CASE producer.at = "copy"
    <3>1. /\ producer \in [at : {"copy"}, block : Nat, extra : Nat, done : Nat]
          /\ Used + producer.block + producer.extra <= Capacity
      BY <1>1, <2>1 DEF RingType, RoomInv
    <3>2. u + producer.block + producer.extra <= Capacity
      BY <1>1, <1>7, <3>1
    <3> QED
      BY <1>1, <1>7, <2>1, <3>2 DEF RoomInv
  <2>2. CASE producer.at # "copy"
    BY <1>1, <2>2 DEF RoomInv
  <2> QED
    BY <2>1, <2>2
<1>9. FilledInv'
  <2>1. Copied' = Copied
    BY DEF Copied
  <2>2. ASSUME NEW d \in 0..(u + Copied - 1) PROVE At(d)' \in 1..MaxPushed
    <3>1. d \in Nat /\ n + d <= Capacity /\ n + d \in 0..(Used + Copied - 1)
      BY <1>1, <1>7
    <3> QED
      BY <1>1, <1>6, <3>1 DEF FilledInv
  <2> QED
    BY <1>7, <2>1, <2>2 DEF FilledInv
<1> QED
  BY <1>2, <1>3, <1>4, <1>5, <1>6, <1>8, <1>9

LEMMA TailIs ==
    ASSUME NEW T, NEW s \in Seq(T), NEW t \in Seq(T), NEW k \in Nat, k <= Len(s),
           Len(t) = Len(s) - k, \A i \in 1..Len(t) : t[i] = s[k + i]
    PROVE  t = SubSeq(s, k + 1, Len(s))
<1> DEFINE u == SubSeq(s, k + 1, Len(s))
<1>1. /\ u \in Seq(T) /\ Len(u) = Len(s) - k
      /\ \A i \in 1..(Len(s) - k) : u[i] = s[k + i]
  <2>1. /\ Len(s) \in Nat /\ Len(s) - k \in Nat
        /\ \A i \in 1..(Len(s) - k) : k + i \in 1..Len(s) /\ (k + 1) + i - 1 = k + i
    OBVIOUS
  <2>2. u = [i \in 1..(Len(s) - k) |-> s[(k + 1) + i - 1]]
    BY <2>1 DEF u
  <2>3. \A i \in 1..(Len(s) - k) : u[i] = s[k + i] /\ s[k + i] \in T
    BY <2>1, <2>2
  <2>4. u \in Seq(T) /\ Len(u) = Len(s) - k
    BY <2>1, <2>2, <2>3
  <2> QED
    BY <2>3, <2>4
<1> HIDE DEF u
<1>2. t = u
  BY <1>1, SeqEqual
<1> QED
  BY <1>2 DEF u

\* Outside a sweep, and at its end, that takes the oldest elements off the queue.
LEMMA FrontGoes ==
    ASSUME RingInv, RingInv', NEW n \in Nat, RestAt <= n, n <= Used, Unseen = 0,
           consumer'.at # "sweep", Used' = Used - n,
           \A d \in Nat : n + d <= Capacity => At(d)' = At(n + d)
    PROVE  /\ Len(Contents) = Used - RestAt
           /\ Contents' = SubSeq(Contents, (n - RestAt) + 1, Len(Contents))
<1>1. Shape /\ Shape'
  BY RingShape, RingShapeNext
<1>2. /\ RestAt \in Nat /\ Used \in Nat /\ Used <= Capacity /\ RestAt <= Used /\ Capacity \in Nat
      /\ Contents \in Seq(1..MaxPushed) /\ Len(Contents) = Used - RestAt
      /\ \A i \in 1..Len(Contents) : Contents[i] = At(RestAt + (i - 0) - 1)
  <2>1. \A i \in 1..Len(Contents) : ~(i <= 0)
    OBVIOUS
  <2>2. \A i \in 1..Len(Contents) : Contents[i] = IF i <= 0 THEN At(i - 1) ELSE At(RestAt + (i - 0) - 1)
    BY <1>1 DEF Shape
  <2>3. Len(Contents) = 0 + (Used - RestAt)
    BY <1>1 DEF Shape
  <2> QED
    BY <1>1, <2>1, <2>2, <2>3, CapacityAssumption DEF Shape
<1>3. /\ Contents' \in Seq(1..MaxPushed) /\ Len(Contents') = 0 + (Used' - 0)
      /\ \A i \in 1..Len(Contents') : Contents'[i] = IF i <= 0 THEN At(i - 1)' ELSE At(0 + (i - 0) - 1)'
  <2>1. Unseen' = 0 /\ RestAt' = 0
    BY DEF Unseen, RestAt
  <2>2. \A i \in 1..Len(Contents') :
          Contents'[i] = IF i <= Unseen' THEN At(i - 1)' ELSE At(RestAt + (i - Unseen) - 1)'
    BY <1>1 DEF Shape
  <2>3. \A i : At(RestAt + (i - Unseen) - 1)' = At(0 + (i - 0) - 1)'
    BY <2>1 DEF At
  <2> QED
    BY <1>1, <2>1, <2>2, <2>3 DEF Shape
<1>4. Len(Contents') = Used - n
  BY <1>2, <1>3
<1> DEFINE k == n - RestAt
<1>5. k \in Nat /\ k <= Len(Contents) /\ Used - n = Len(Contents) - k
  BY <1>2
<1>6. ASSUME NEW i \in 1..(Used - n) PROVE Contents'[i] = Contents[k + i]
  <2>1. /\ i \in Nat /\ k + i \in 1..Len(Contents) /\ i - 1 \in Nat /\ n + (i - 1) <= Capacity
        /\ ~(i <= 0) /\ 0 + (i - 0) - 1 = i - 1 /\ RestAt + ((k + i) - 0) - 1 = n + (i - 1)
    BY <1>2, <1>5
  <2>2. Contents'[i] = At(0 + (i - 0) - 1)'
    BY <1>3, <1>4, <2>1
  <2>3. At(0 + (i - 0) - 1)' = At(i - 1)'
    BY <2>1 DEF At
  <2>4. At(i - 1)' = At(n + (i - 1))
    <3> DEFINE e == i - 1
    <3>1. At(e)' = At(n + e)
      BY <2>1
    <3> QED
      BY <3>1
  <2>5. Contents[k + i] = At(RestAt + ((k + i) - 0) - 1)
    BY <1>2, <2>1
  <2> QED
    BY <2>1, <2>2, <2>3, <2>4, <2>5
<1> HIDE DEF k
<1>7. Len(Contents') = Len(Contents) - k
  BY <1>4, <1>5
<1>8. \A i \in 1..Len(Contents') : Contents'[i] = Contents[k + i]
  BY <1>4, <1>6
<1>9. Contents' = SubSeq(Contents, k + 1, Len(Contents))
  BY ONLY <1>2, <1>3, <1>5, <1>7, <1>8, TailIs
<1> QED
  BY <1>2, <1>9 DEF k

\* The consumer looks before it takes.
LEMMA LookKept ==
    ASSUME RingInv,
           (\E size \in 1..MaxBulk, discard \in BOOLEAN : Pop(size, discard)) \/ Flush \/ ForEach \/ ReadSlot
    PROVE  RingInv' /\ QueueStep
<1>1. UNCHANGED <<buffer, inPos, outPos, producer, offered, given>>
  BY DEF Pop, Flush, ForEach, ReadSlot, consumerRest
<1>2. /\ RingType /\ TakerInv /\ outPos \in Slot /\ inPos \in Slot /\ Used \in Nat
      /\ MaxBulk \in Nat /\ MaxPushed \in Nat /\ outPos \in Nat /\ inPos \in Nat /\ bufSize \in Nat
      /\ \A d \in 0..(Used - 1) : At(d) \in 1..MaxPushed
  <2>1. \A d \in 0..(Used - 1) : d \in 0..(Used + Copied - 1)
    BY RingBasics
  <2> QED
    BY <2>1, RingBasics, BoundsAssumption DEF RingInv, FilledInv
<1>3. ASSUME TakerInv', consumer.at # "sweep", consumer'.at # "sweep",
             consumer' \in [at : {"idle"}]
                  \cup [at : {"read"}, size : Nat, got : Seq(0..MaxPushed), discard : BOOLEAN]
                  \cup [at : {"flush", "each"}, upTo : Slot]
      PROVE  RingInv' /\ QueueStep
  <2>1. (\A d : At(d)' = At(d)) /\ Used' = Used /\ RoomInv' /\ FilledInv'
    BY <1>1, NothingMoves
  <2>2. RingType'
    BY <1>1, <1>2, <1>3 DEF RingType
  <2>3. RingInv'
    BY <1>3, <2>1, <2>2 DEF RingInv
  <2>4. Unseen' = Unseen /\ RestAt' = RestAt
    BY <1>3 DEF Unseen, RestAt
  <2>5. Contents' = Contents
    BY <2>1, <2>3, <2>4, ContentsStay
  <2> QED
    BY <1>1, <2>3, <2>5 DEF QueueStep
<1>4. inPos # outPos => Used >= 1
  <2>1. inPos \in 0..Capacity /\ outPos \in 0..Capacity /\ bufSize = Capacity + 1 /\ Capacity \in Nat
    BY <1>2, RingBasics DEF Slot
  <2> QED
    BY ONLY <2>1 DEF Used, Ahead
<1>5. Used' = Used /\ Ahead(outPos, inPos) = Used /\ UNCHANGED outPos
  BY <1>1 DEF Used
<1>6. ASSUME NEW size \in 1..MaxBulk, NEW discard \in BOOLEAN, Pop(size, discard) PROVE RingInv' /\ QueueStep
  <2> DEFINE n == Least(size, Used)
  <2>1. /\ consumer.at = "idle" /\ inPos # outPos
        /\ consumer' = [at |-> "read", size |-> n, got |-> <<>>, discard |-> discard]
    BY <1>5, <1>6 DEF Pop
  <2>2. n \in 1..Used /\ n \in Nat
    BY <1>2, <1>4, <2>1 DEF Least
  <2> HIDE DEF n
  <2>3. TakerInv'
    BY <1>5, <2>1, <2>2 DEF TakerInv
  <2>4. <<>> \in Seq(0..MaxPushed)
    OBVIOUS
  <2> QED
    BY <1>3, <2>1, <2>2, <2>3, <2>4
<1>7. CASE Flush
  <2>1. consumer.at = "idle" /\ consumer' = [at |-> "flush", upTo |-> inPos]
    BY <1>7 DEF Flush
  <2>2. TakerInv'
    BY <1>2, <1>5, <2>1 DEF TakerInv
  <2> QED
    BY <1>2, <1>3, <2>1, <2>2
<1>8. CASE ForEach
  <2>1. consumer.at = "idle" /\ inPos # outPos /\ consumer' = [at |-> "each", upTo |-> inPos]
    BY <1>8 DEF ForEach
  <2>2. TakerInv'
    BY <1>2, <1>4, <1>5, <2>1 DEF TakerInv
  <2> QED
    BY <1>2, <1>3, <2>1, <2>2
<1>9. CASE ReadSlot
  <2> DEFINE g == consumer.got
             x == At(Len(g))
  <2>1. /\ consumer.at = "read" /\ Len(g) < consumer.size /\ consumer.discard # TRUE
        /\ consumer' = [consumer EXCEPT !.got = Append(@, buffer[Wrap(outPos + Len(@))])]
    BY <1>9 DEF ReadSlot
  <2>2. /\ consumer \in [at : {"read"}, size : Nat, got : Seq(0..MaxPushed), discard : BOOLEAN]
        /\ consumer.size \in 1..Used /\ \A i \in 1..Len(g) : g[i] = At(i - 1)
    BY <1>2, <2>1 DEF RingType, TakerInv
  <2>3. Len(g) \in Nat /\ x \in 0..MaxPushed /\ g \in Seq(0..MaxPushed)
    <3>1. Len(g) \in 0..(Used - 1) /\ g \in Seq(0..MaxPushed)
      BY <1>2, <2>1, <2>2
    <3> QED
      BY <1>2, <3>1
  <2>4. /\ Append(g, x) \in Seq(0..MaxPushed) /\ Len(Append(g, x)) = Len(g) + 1
        /\ \A i \in 1..(Len(g) + 1) : Append(g, x)[i] = IF i = Len(g) + 1 THEN x ELSE g[i]
    BY <2>3, AppendProperties
  <2>5. /\ consumer'.at = "read" /\ consumer'.size = consumer.size /\ consumer'.discard = consumer.discard
        /\ consumer'.got = Append(g, x)
        /\ consumer' \in [at : {"read"}, size : Nat, got : Seq(0..MaxPushed), discard : BOOLEAN]
    BY <2>1, <2>2, <2>4 DEF At
  <2>6. \A i \in 1..Len(Append(g, x)) : Append(g, x)[i] = At(i - 1)
    <3>1. \A i \in 1..(Len(g) + 1) : i = Len(g) + 1 \/ i \in 1..Len(g)
      BY <2>3
    <3>2. (Len(g) + 1) - 1 = Len(g)
      BY <2>3
    <3> HIDE DEF g
    <3> QED
      BY <2>2, <2>4, <3>1, <3>2
  <2>7. Len(Append(g, x)) <= consumer.size
    BY <2>1, <2>2, <2>3, <2>4
  <2>8. \A d : At(d)' = At(d)
    BY <1>1 DEF At
  <2>9. TakerInv'
    BY <1>5, <2>1, <2>2, <2>5, <2>6, <2>7, <2>8 DEF TakerInv
  <2> QED
    BY <1>3, <2>1, <2>5, <2>9
<1> QED
  BY <1>6, <1>7, <1>8, <1>9

LEMMA HeadIs ==
    ASSUME NEW T, NEW s \in Seq(T), NEW k \in 0..Len(s)
    PROVE  /\ SubSeq(s, 1, k) \in Seq(T) /\ Len(SubSeq(s, 1, k)) = k
           /\ \A i \in 1..k : SubSeq(s, 1, k)[i] = s[i]
<1>1. SubSeq(s, 1, k) = [i \in 1..k |-> s[1 + i - 1]]
  OBVIOUS
<1>2. \A i \in 1..k : i \in 1..Len(s) /\ 1 + i - 1 = i /\ s[i] \in T
  OBVIOUS
<1>3. \A i \in 1..k : SubSeq(s, 1, k)[i] = s[i]
  BY <1>1, <1>2
<1>4. SubSeq(s, 1, k) \in Seq(T) /\ Len(SubSeq(s, 1, k)) = k
  BY <1>1, <1>2
<1> QED
  BY <1>3, <1>4

LEMMA WidenSeq == ASSUME NEW n \in Nat, NEW s \in Seq(1..n) PROVE s \in Seq(0..n)
<1>1. Len(s) \in Nat /\ s = [i \in 1..Len(s) |-> s[i]] /\ \A i \in 1..Len(s) : s[i] \in 0..n
  OBVIOUS
<1>2. [i \in 1..Len(s) |-> s[i]] \in Seq(0..n)
  BY <1>1
<1> QED
  BY <1>1, <1>2

\* What the consumer took leaves the queue, and reaches it unless it is discarded.
LEMMA ReleaseKept == ASSUME RingInv, Release PROVE RingInv' /\ QueueStep
<1> DEFINE g == consumer.got
           n == consumer.size
<1>1. /\ consumer.at = "read" /\ (consumer.discard = TRUE \/ Len(g) = n)
      /\ outPos' = Wrap(outPos + n) /\ given' = given \o g
      /\ consumer' = [at |-> "idle"] /\ UNCHANGED <<buffer, inPos, producer, offered>>
  BY DEF Release, Resting, consumerRest
<1>2. /\ consumer \in [at : {"read"}, size : Nat, got : Seq(0..MaxPushed), discard : BOOLEAN]
      /\ n \in 1..Used /\ \A i \in 1..Len(g) : g[i] = At(i - 1)
      /\ consumer.discard = TRUE => g = <<>>
  BY <1>1 DEF RingInv, RingType, TakerInv
<1>3. /\ Used \in Nat /\ Used <= Capacity /\ Capacity \in Nat /\ RingType /\ n \in Nat /\ n <= Used /\ n >= 1
      /\ g \in Seq(0..MaxPushed) /\ given \in Seq(0..MaxPushed)
  BY <1>2, RingBasics DEF RingInv, RingType
<1> HIDE DEF g, n
<1>4. /\ outPos' \in Slot /\ Used' = Used - n /\ \A d \in Nat : n + d <= Capacity => At(d)' = At(n + d)
      /\ RoomInv' /\ FilledInv'
  BY <1>1, <1>3, OutMoves
<1>5. TakerInv' /\ consumer' \in [at : {"idle"}]
  BY <1>1 DEF TakerInv
<1>6. RingType'
  <2>1. given \o g \in Seq(0..MaxPushed)
    BY <1>3, ConcatProperties
  <2> QED
    BY <1>1, <1>3, <1>4, <1>5, <2>1 DEF RingType
<1>7. RingInv'
  BY <1>4, <1>5, <1>6 DEF RingInv
<1>8. Unseen = 0 /\ RestAt = 0
  BY <1>1 DEF Unseen, RestAt
<1>9. Len(Contents) = Used /\ Contents' = SubSeq(Contents, n + 1, Len(Contents))
  <2>1. RestAt <= n
    BY <1>3, <1>8
  <2>2. consumer'.at # "sweep"
    BY <1>1
  <2>3. Len(Contents) = Used - RestAt /\ Contents' = SubSeq(Contents, (n - RestAt) + 1, Len(Contents))
    BY <1>3, <1>4, <1>7, <1>8, <2>1, <2>2, FrontGoes
  <2> QED
    BY <1>3, <1>8, <2>3
<1>10. Contents \in Seq(1..MaxPushed) /\ \A i \in 1..Used : Contents[i] = At(i - 1)
  <2>1. Shape
    BY RingShape
  <2>2. \A i \in 1..Used : ~(i <= 0) /\ 0 + (i - 0) - 1 = i - 1
    OBVIOUS
  <2> QED
    BY <1>8, <1>9, <2>1, <2>2 DEF Shape
<1>11. n \in 1..Len(Contents)
  BY <1>3, <1>9
<1>12. CASE g = <<>>
  <2>1. given' = given
    BY <1>1, <1>3, <1>12
  <2> QED
    BY <1>7, <1>9, <1>11, <2>1 DEF QueueStep, Queue!Next, Queue!Drop
<1>13. CASE g # <<>>
  <2>1. Len(g) = n
    BY <1>1, <1>2, <1>13 DEF g
  <2>2. g = SubSeq(Contents, 1, n)
    <3>1. /\ SubSeq(Contents, 1, n) \in Seq(0..MaxPushed) /\ Len(SubSeq(Contents, 1, n)) = n
          /\ \A i \in 1..n : SubSeq(Contents, 1, n)[i] = Contents[i]
      <4>1. n \in 0..Len(Contents)
        BY <1>3, <1>9
      <4>2. Contents \in Seq(0..MaxPushed)
        BY <1>10, RingBasics, WidenSeq
      <4> QED
        BY ONLY <4>1, <4>2, HeadIs
    <3>2. \A i \in 1..n : g[i] = SubSeq(Contents, 1, n)[i]
      <4>1. \A i \in 1..n : i \in 1..Used /\ i \in 1..Len(g)
        BY <1>3, <2>1
      <4>2. \A i \in 1..Len(g) : g[i] = At(i - 1)
        BY <1>2 DEF g
      <4> QED
        BY <1>10, <3>1, <4>1, <4>2
    <3> QED
      BY <1>3, <2>1, <3>1, <3>2, SeqEqual
  <2>3. given' = given \o SubSeq(Contents, 1, n)
    BY <1>1, <2>2
  <2> QED
    BY <1>7, <1>9, <1>11, <2>3 DEF QueueStep, Queue!Next, Queue!Take
<1> QED
  BY <1>12, <1>13

LEMMA FlushStoreKept == ASSUME RingInv, FlushStore PROVE RingInv' /\ QueueStep
<1> DEFINE n == Ahead(outPos, consumer.upTo)
<1>1. /\ consumer.at = "flush" /\ outPos' = consumer.upTo
      /\ consumer' = [at |-> "idle"] /\ UNCHANGED <<buffer, inPos, producer, offered, given>>
  BY DEF FlushStore, Resting, consumerRest
<1>2. /\ Used \in Nat /\ Used <= Capacity /\ Capacity \in Nat /\ RingType
      /\ n \in Nat /\ n <= Used /\ outPos' = Wrap(outPos + n)
  <2>1. consumer.upTo \in Slot /\ outPos \in Slot /\ n <= Used
    BY <1>1 DEF RingInv, RingType, TakerInv
  <2> QED
    BY <1>1, <2>1, RingBasics, Position DEF RingInv
<1> HIDE DEF n
<1>4. /\ outPos' \in Slot /\ Used' = Used - n /\ \A d \in Nat : n + d <= Capacity => At(d)' = At(n + d)
      /\ RoomInv' /\ FilledInv'
  BY <1>1, <1>2, OutMoves
<1>5. TakerInv' /\ consumer' \in [at : {"idle"}]
  BY <1>1 DEF TakerInv
<1>6. RingType'
  BY <1>1, <1>2, <1>4, <1>5 DEF RingType
<1>7. RingInv'
  BY <1>4, <1>5, <1>6 DEF RingInv
<1>8. Unseen = 0 /\ RestAt = 0
  BY <1>1 DEF Unseen, RestAt
<1>9. Len(Contents) = Used /\ Contents' = SubSeq(Contents, n + 1, Len(Contents))
  <2>1. RestAt <= n
    BY <1>2, <1>8
  <2>2. consumer'.at # "sweep"
    BY <1>1
  <2>3. Len(Contents) = Used - RestAt /\ Contents' = SubSeq(Contents, (n - RestAt) + 1, Len(Contents))
    BY <1>2, <1>4, <1>7, <1>8, <2>1, <2>2, FrontGoes
  <2> QED
    BY <1>2, <1>8, <2>3
<1>10. CASE n = 0
  <2>1. Contents \in Seq(1..MaxPushed)
    BY RingShape DEF Shape
  <2>2. Contents' = SubSeq(Contents, 1, Len(Contents))
    BY <1>9, <1>10
  <2>3. SubSeq(Contents, 1, Len(Contents)) = Contents
    BY <2>1
  <2> QED
    BY <1>1, <1>7, <2>2, <2>3 DEF QueueStep
<1>11. CASE n # 0
  <2>1. n \in 1..Len(Contents)
    BY <1>2, <1>9, <1>11
  <2> QED
    BY <1>1, <1>7, <1>9, <2>1 DEF QueueStep, Queue!Next, Queue!Drop
<1> QED
  BY <1>10, <1>11

LEMMA CallBackKept == ASSUME RingInv, CallBack PROVE RingInv' /\ QueueStep
<1> DEFINE x == buffer[outPos]
<1>1. /\ consumer.at = "each" /\ outPos' = Wrap(outPos + 1) /\ given' = Append(given, x)
      /\ consumer' = IF outPos' = consumer.upTo THEN [at |-> "idle"] ELSE consumer
      /\ UNCHANGED <<buffer, inPos, producer, offered>>
  BY DEF CallBack, Resting, consumerRest
<1>2. /\ Used \in Nat /\ Used <= Capacity /\ Capacity \in Nat /\ RingType /\ MaxPushed \in Nat
      /\ given \in Seq(0..MaxPushed) /\ outPos \in Slot /\ inPos \in Slot
      /\ consumer.upTo \in Slot /\ Ahead(outPos, consumer.upTo) \in 1..Used
      /\ x \in 0..MaxPushed
  <2>1. /\ Used \in Nat /\ Used <= Capacity /\ Capacity \in Nat /\ RingType /\ MaxPushed \in Nat
        /\ outPos \in Slot /\ inPos \in Slot
    BY RingBasics DEF RingInv
  <2>2. consumer.upTo \in Slot /\ Ahead(outPos, consumer.upTo) \in 1..Used
    BY <1>1 DEF RingInv, RingType, TakerInv
  <2>3. given \in Seq(0..MaxPushed) /\ buffer \in [Slot -> 0..MaxPushed]
    BY <2>1 DEF RingType
  <2> QED
    BY <2>1, <2>2, <2>3
<1>3. 1 <= Used
  BY <1>2
<1>4. /\ outPos' \in Slot /\ Used' = Used - 1 /\ \A d \in Nat : 1 + d <= Capacity => At(d)' = At(1 + d)
      /\ RoomInv' /\ FilledInv'
      /\ \A p \in Slot : 1 <= Ahead(outPos, p) => Ahead(outPos', p) = Ahead(outPos, p) - 1
  BY <1>1, <1>2, <1>3, OutMoves
<1>5. TakerInv' /\ consumer'.at # "sweep"
  <2>1. CASE outPos' = consumer.upTo
    BY <1>1, <2>1 DEF TakerInv
  <2>2. CASE outPos' # consumer.upTo
    <3>1. consumer' = consumer
      BY <1>1, <2>2
    <3>2. Ahead(outPos', consumer.upTo) = Ahead(outPos, consumer.upTo) - 1
      BY <1>2, <1>4
    <3>3. PICK q \in Slot : outPos' = q
      BY <1>4
    <3>4. Ahead(q, consumer.upTo) # 0
      <4>1. q \in 0..Capacity /\ consumer.upTo \in 0..Capacity /\ q # consumer.upTo /\ bufSize = Capacity + 1
        BY <1>2, <2>2, <3>3 DEF Slot, bufSize
      <4> QED
        BY ONLY <1>2, <4>1 DEF Ahead
    <3>5. Ahead(q, consumer.upTo) \in 1..(Used - 1)
      <4>1. Ahead(q, consumer.upTo) = Ahead(outPos, consumer.upTo) - 1
        BY <3>2, <3>3
      <4> QED
        BY <1>2, <3>4, <4>1
    <3> QED
      BY <1>1, <1>4, <3>1, <3>3, <3>5 DEF TakerInv
  <2> QED
    BY <2>1, <2>2
<1>6. RingType'
  <2>1. Append(given, x) \in Seq(0..MaxPushed)
    BY <1>2, AppendProperties
  <2>2. consumer' = consumer \/ consumer' = [at |-> "idle"]
    BY <1>1
  <2> QED
    BY <1>1, <1>2, <1>4, <2>1, <2>2 DEF RingType
<1>7. RingInv'
  BY <1>4, <1>5, <1>6 DEF RingInv
<1>8. Unseen = 0 /\ RestAt = 0
  BY <1>1 DEF Unseen, RestAt
<1>9. Len(Contents) = Used /\ Contents' = SubSeq(Contents, 1 + 1, Len(Contents))
  <2>1. RestAt <= 1
    BY <1>8
  <2>2. Len(Contents) = Used - RestAt /\ Contents' = SubSeq(Contents, (1 - RestAt) + 1, Len(Contents))
    BY <1>3, <1>4, <1>5, <1>7, <1>8, <2>1, FrontGoes
  <2> QED
    BY <1>2, <1>8, <2>2
<1>10. Contents \in Seq(0..MaxPushed) /\ Contents[1] = x
  <2>1. Shape
    BY RingShape
  <2>2. Contents[1] = At(1 - 1)
    <3>1. 1 \in 1..Len(Contents) /\ ~(1 <= 0) /\ 0 + (1 - 0) - 1 = 1 - 1
      BY <1>2, <1>3, <1>9
    <3> QED
      BY <1>8, <2>1, <3>1 DEF Shape
  <2>3. Wrap(outPos + (1 - 1)) = outPos
    <3>1. outPos + (1 - 1) = outPos /\ outPos \in Nat /\ outPos < bufSize /\ bufSize \in Nat
      BY <1>2 DEF Slot, bufSize
    <3> QED
      BY <3>1, WrapIs
  <2>4. Contents \in Seq(0..MaxPushed)
    BY <1>2, <2>1, WidenSeq DEF Shape
  <2> QED
    BY <2>2, <2>3, <2>4 DEF At
<1> HIDE DEF x
<1>11. SubSeq(Contents, 1, 1) = <<x>>
  <2>1. 1 \in 0..Len(Contents)
    BY <1>2, <1>3, <1>9
  <2>2. /\ SubSeq(Contents, 1, 1) \in Seq(0..MaxPushed) /\ Len(SubSeq(Contents, 1, 1)) = 1
        /\ \A i \in 1..1 : SubSeq(Contents, 1, 1)[i] = Contents[i]
    BY ONLY <1>10, <2>1, HeadIs
  <2>3. <<x>> \in Seq(0..MaxPushed) /\ Len(<<x>>) = 1 /\ <<x>>[1] = x
    BY <1>2
  <2>4. \A i \in 1..1 : i = 1
    OBVIOUS
  <2> QED
    BY <1>10, <2>2, <2>3, <2>4, SeqEqual
<1>12. Append(given, x) = given \o SubSeq(Contents, 1, 1)
  BY <1>2, <1>11, AppendIsConcat
<1>13. 1 \in 1..Len(Contents)
  BY <1>2, <1>3, <1>9
<1> QED
  BY <1>1, <1>7, <1>9, <1>12, <1>13 DEF QueueStep, Queue!Next, Queue!Take

LEMMA SweepBegins == ASSUME RingInv, ForEachRev PROVE RingInv' /\ QueueStep
<1>1. /\ consumer.at = "idle"
      /\ consumer' = [at |-> "sweep", pos |-> inPos, keptFrom |-> inPos, upTo |-> inPos]
      /\ UNCHANGED <<buffer, inPos, outPos, producer, offered, given>>
  BY DEF ForEachRev, consumerRest
<1>2. RingType /\ inPos \in Slot /\ Used \in Nat /\ Ahead(outPos, inPos) = Used
  BY RingBasics DEF RingInv, Used
<1>3. (\A d : At(d)' = At(d)) /\ Used' = Used /\ RoomInv' /\ FilledInv'
  BY <1>1, NothingMoves
<1>4. TakerInv'
  BY <1>1, <1>2, <1>3 DEF TakerInv
<1>5. RingType'
  BY <1>1, <1>2 DEF RingType
<1>6. RingInv'
  BY <1>3, <1>4, <1>5 DEF RingInv
<1>7. Shape /\ Shape'
  BY <1>6, RingShape, RingShapeNext
<1>8. Unseen = 0 /\ RestAt = 0 /\ Unseen' = Used /\ RestAt' = Used
  BY <1>1, <1>2 DEF Unseen, RestAt
<1>9. /\ Contents \in Seq(1..MaxPushed) /\ Len(Contents) = Used
      /\ \A i \in 1..Used : Contents[i] = At(i - 1)
  <2>1. \A i \in 1..Used : ~(i <= 0) /\ 0 + (i - 0) - 1 = i - 1
    OBVIOUS
  <2>2. 0 + (Used - 0) = Used
    BY <1>2
  <2> QED
    BY <1>7, <1>8, <2>1, <2>2 DEF Shape
<1>10. /\ Contents' \in Seq(1..MaxPushed) /\ Len(Contents') = Used
       /\ \A i \in 1..Used : Contents'[i] = At(i - 1)
  <2>1. Used + (Used - Used) = Used /\ \A i \in 1..Used : i <= Used
    BY <1>2
  <2>2. Len(Contents') = Unseen' + (Used' - RestAt') /\ Contents' \in Seq(1..MaxPushed)
    BY <1>7 DEF Shape
  <2>3. Len(Contents') = Used
    BY <1>3, <1>8, <2>1, <2>2
  <2>4. \A i \in 1..Len(Contents') : i <= Unseen' => Contents'[i] = At(i - 1)'
    BY <1>7 DEF Shape
  <2> QED
    BY <1>3, <1>8, <2>1, <2>2, <2>3, <2>4
<1>11. Contents' = Contents
  BY <1>9, <1>10, SeqEqual
<1> QED
  BY <1>1, <1>6, <1>11 DEF QueueStep

LEMMA SweepEnds == ASSUME RingInv, SweepStore PROVE RingInv' /\ QueueStep
<1> DEFINE n == Ahead(outPos, consumer.keptFrom)
<1>1. /\ consumer.at = "sweep" /\ consumer.pos = outPos /\ outPos' = consumer.keptFrom
      /\ consumer' = [at |-> "idle"] /\ UNCHANGED <<buffer, inPos, producer, offered, given>>
  BY DEF SweepStore, Resting, consumerRest
<1>2. /\ Used \in Nat /\ Used <= Capacity /\ Capacity \in Nat /\ RingType
      /\ n \in Nat /\ n <= Used /\ outPos' = Wrap(outPos + n)
  <2>1. consumer.keptFrom \in Slot /\ outPos \in Slot /\ n <= Used
    BY <1>1 DEF RingInv, RingType, TakerInv
  <2> QED
    BY <1>1, <2>1, RingBasics, Position DEF RingInv
<1>3. RestAt = n
  BY <1>1 DEF RestAt
<1> HIDE DEF n
<1>4. /\ outPos' \in Slot /\ Used' = Used - n /\ \A d \in Nat : n + d <= Capacity => At(d)' = At(n + d)
      /\ RoomInv' /\ FilledInv'
  BY <1>1, <1>2, OutMoves
<1>5. TakerInv' /\ consumer' \in [at : {"idle"}]
  BY <1>1 DEF TakerInv
<1>6. RingType'
  BY <1>1, <1>2, <1>4, <1>5 DEF RingType
<1>7. RingInv'
  BY <1>4, <1>5, <1>6 DEF RingInv
<1>8. Unseen = 0
  <2>1. outPos \in Nat
    BY RingBasics
  <2> QED
    BY <1>1, <2>1 DEF Unseen, Ahead
<1>9. Contents' = SubSeq(Contents, 1, Len(Contents))
  <2>1. RestAt <= n /\ (n - RestAt) + 1 = 1
    BY <1>2, <1>3
  <2>2. consumer'.at # "sweep"
    BY <1>1
  <2>3. Contents' = SubSeq(Contents, (n - RestAt) + 1, Len(Contents))
    BY <1>2, <1>4, <1>7, <1>8, <2>1, <2>2, FrontGoes
  <2> QED
    BY <2>1, <2>3
<1>10. Contents' = Contents
  <2>1. Contents \in Seq(1..MaxPushed)
    BY RingShape DEF Shape
  <2>2. SubSeq(Contents, 1, Len(Contents)) = Contents
    BY <2>1
  <2> QED
    BY <1>9, <2>2
<1> QED
  BY <1>1, <1>7, <1>10 DEF QueueStep

\* One position back, the way the sweep computes it.
LEMMA Backward ==
    ASSUME NEW a \in Slot, NEW p \in Slot, Ahead(a, p) # 0
    PROVE  /\ Wrap(p + Capacity) = Wrap(a + (Ahead(a, p) - 1))
           /\ Wrap(p + Capacity) \in Slot /\ Ahead(a, Wrap(p + Capacity)) = Ahead(a, p) - 1
           /\ Ahead(a, p) - 1 \in 0..Capacity
<1> DEFINE i == p + Capacity
           d == Ahead(a, p) - 1
<1>1. Capacity \in Nat \ {0} /\ a \in 0..Capacity /\ p \in 0..Capacity /\ bufSize = Capacity + 1
  BY CapacityAssumption DEF Slot, bufSize
<1>2. i \in Nat /\ i < bufSize + bufSize
  BY <1>1
<1>3. Ahead(a, p) \in 0..Capacity
  BY Position
<1>4. d \in 0..Capacity
  BY <1>1, <1>3
<1>5. i = IF p = 0 THEN bufSize - 1 ELSE (p - 1) + bufSize
  BY <1>1
<1> HIDE DEF i
<1>6. Wrap(i) = IF i < bufSize THEN i ELSE i - bufSize
  BY <1>2, WrapIs
<1>7. Wrap(i) = IF p = 0 THEN Capacity ELSE p - 1
  BY <1>1, <1>2, <1>5, <1>6
<1>8. Wrap(i) \in Slot
  BY <1>1, <1>7 DEF Slot
<1>9. Ahead(a, Wrap(i)) = d
  BY <1>1, <1>7 DEF Ahead
<1>10. Wrap(a + Ahead(a, Wrap(i))) = Wrap(i)
  BY <1>8, Position
<1> QED
  BY <1>4, <1>8, <1>9, <1>10 DEF i

LEMMA RemovedIs ==
    ASSUME NEW T, NEW s \in Seq(T), NEW t \in Seq(T), NEW k \in 1..Len(s),
           Len(t) = Len(s) - 1, \A i \in 1..Len(t) : t[i] = IF i < k THEN s[i] ELSE s[i + 1]
    PROVE  t = Queue!RemoveAt(s, k)
<1> DEFINE l == SubSeq(s, 1, k - 1)
           r == SubSeq(s, k + 1, Len(s))
           n == Len(s)
<1>1. n \in Nat /\ k \in Nat /\ k - 1 \in Nat /\ k - 1 \in 0..n /\ n - k \in Nat
  OBVIOUS
<1>2. l \in Seq(T) /\ Len(l) = k - 1 /\ \A i \in 1..(k - 1) : l[i] = s[i]
  BY <1>1, HeadIs
<1>3. r \in Seq(T) /\ Len(r) = n - k /\ \A i \in 1..(n - k) : r[i] = s[k + i]
  <2>1. r = [i \in 1..(n - k) |-> s[(k + 1) + i - 1]]
    OBVIOUS
  <2>2. \A i \in 1..(n - k) : k + i \in 1..n /\ (k + 1) + i - 1 = k + i
    BY <1>1
  <2>3. \A i \in 1..(n - k) : r[i] = s[k + i] /\ r[i] \in T
    BY <2>1, <2>2
  <2>4. r \in Seq(T) /\ Len(r) = n - k
    BY <1>1, <2>1, <2>3
  <2> QED
    BY <2>3, <2>4
<1> HIDE DEF l, r
<1>4. /\ l \o r \in Seq(T) /\ Len(l \o r) = Len(l) + Len(r)
      /\ \A i \in 1..Len(l) + Len(r) : (l \o r)[i] = IF i <= Len(l) THEN l[i] ELSE r[i - Len(l)]
  BY <1>2, <1>3, ConcatProperties
<1>5. Len(l \o r) = Len(t)
  BY <1>1, <1>2, <1>3, <1>4
<1>6. ASSUME NEW i \in 1..Len(t) PROVE t[i] = (l \o r)[i]
  <2>1. i \in 1..(n - 1) /\ i \in 1..Len(l) + Len(r)
    BY <1>1, <1>2, <1>3
  <2>2. CASE i < k
    BY <1>1, <1>2, <1>4, <2>1, <2>2
  <2>3. CASE ~(i < k)
    <3>1. i - (k - 1) \in 1..(n - k) /\ k + (i - (k - 1)) = i + 1 /\ ~(i <= Len(l))
      BY <1>1, <1>2, <2>1, <2>3
    <3>2. (l \o r)[i] = r[i - (k - 1)]
      BY <1>2, <1>4, <2>1, <3>1
    <3> QED
      BY <1>3, <2>3, <3>1, <3>2
  <2> QED
    BY <2>2, <2>3
<1>7. t = l \o r
  BY <1>4, <1>5, <1>6, SeqEqual
<1> QED
  BY <1>7 DEF l, r, Queue!RemoveAt

\* What a sweep keeps stays in the queue, what it drops leaves it.
LEMMA RequeueKept ==
    ASSUME RingInv, NEW keep \in BOOLEAN, Requeue(keep)
    PROVE  RingInv' /\ QueueStep
<1> DEFINE u == Ahead(outPos, consumer.pos)
           f == Ahead(outPos, consumer.keptFrom)
           pos == Wrap(consumer.pos + Capacity)
           kept == Wrap(consumer.keptFrom + Capacity)
           restAt == IF keep = TRUE THEN f - 1 ELSE f
<1>1. /\ consumer.at = "sweep" /\ consumer.pos # outPos
      /\ keep = TRUE => buffer' = [buffer EXCEPT ![kept] = buffer[pos]]
      /\ keep = FALSE => buffer' = buffer
      /\ keep = TRUE => consumer' = [consumer EXCEPT !.pos = pos, !.keptFrom = kept]
      /\ keep = FALSE => consumer' = [consumer EXCEPT !.pos = pos, !.keptFrom = consumer.keptFrom]
      /\ UNCHANGED <<inPos, outPos, producer, offered, given>>
  BY DEF Requeue, consumerRest
<1>2. /\ Used \in Nat /\ Used <= Capacity /\ Capacity \in Nat \ {0} /\ RingType /\ RoomInv /\ MaxPushed \in Nat
      /\ outPos \in Slot /\ inPos \in Slot /\ Copied \in Nat /\ Used + Copied <= Capacity + 1
      /\ buffer \in [Slot -> 0..MaxPushed] /\ \A d \in 0..(Used + Copied - 1) : At(d) \in 1..MaxPushed
  BY RingBasics DEF RingInv, RingType, FilledInv
<1>3. /\ consumer \in [at : {"sweep"}, pos : Slot, keptFrom : Slot, upTo : Slot]
      /\ u <= f /\ f <= Used
  BY <1>1 DEF RingInv, RingType, TakerInv
<1>4. u \in Nat /\ f \in Nat /\ u \in 0..Capacity /\ f \in 0..Capacity
  BY <1>2, <1>3, Position
<1>5. u # 0
  <2>1. /\ outPos \in 0..Capacity /\ consumer.pos \in 0..Capacity /\ bufSize = Capacity + 1
        /\ Capacity \in Nat /\ consumer.pos # outPos
    BY <1>1, <1>2, <1>3 DEF Slot, bufSize
  <2> QED
    BY ONLY <2>1 DEF Ahead
<1>6. pos = Wrap(outPos + (u - 1)) /\ pos \in Slot /\ Ahead(outPos, pos) = u - 1 /\ u - 1 \in 0..Capacity
  BY <1>2, <1>3, <1>5, Backward
<1>7. kept = Wrap(outPos + (f - 1)) /\ kept \in Slot /\ Ahead(outPos, kept) = f - 1 /\ f - 1 \in 0..Capacity
  <2>1. f # 0
    BY <1>3, <1>4, <1>5
  <2> QED
    BY <1>2, <1>3, <2>1, Backward
<1>8. /\ consumer'.at = "sweep" /\ consumer'.pos = pos
      /\ consumer'.keptFrom = IF keep = TRUE THEN kept ELSE consumer.keptFrom
      /\ consumer' \in [at : {"sweep"}, pos : Slot, keptFrom : Slot, upTo : Slot]
  BY <1>1, <1>3, <1>6, <1>7
<1>9. Unseen = u /\ RestAt = f /\ Unseen' = u - 1 /\ RestAt' = restAt
  <2>1. Unseen = u /\ RestAt = f
    BY <1>1 DEF Unseen, RestAt
  <2>2. Unseen' = Ahead(outPos, pos) /\ RestAt' = Ahead(outPos, consumer'.keptFrom)
    BY <1>1, <1>8 DEF Unseen, RestAt
  <2> QED
    BY <1>6, <1>7, <1>8, <2>1, <2>2
<1>10. restAt \in Nat /\ u - 1 \in Nat /\ u - 1 <= restAt /\ restAt <= Used
  BY <1>2, <1>3, <1>4, <1>5
<1>11. Used' = Used
  BY <1>1 DEF Used
<1>12. TakerInv'
  <2>1. Ahead(outPos, pos)  = u - 1 /\ Ahead(outPos, consumer'.keptFrom) = restAt
    BY <1>6, <1>7, <1>8
  <2> HIDE DEF u, f, pos, kept, restAt
  <2>2. Ahead(outPos, pos) <= Ahead(outPos, consumer'.keptFrom) /\ Ahead(outPos, consumer'.keptFrom) <= Used
    BY <1>10, <2>1
  <2> QED
    BY <1>1, <1>8, <1>11, <2>2 DEF TakerInv
<1>13. ASSUME NEW d \in 0..Capacity
       PROVE  At(d)' = IF keep = TRUE /\ d = f - 1 THEN At(u - 1) ELSE At(d)
  <2>1. At(d)' = buffer'[Wrap(outPos + d)] /\ Wrap(outPos + d) \in Slot
    BY <1>1, <1>2, Place DEF At
  <2>2. CASE keep = FALSE
    BY <1>1, <2>1, <2>2 DEF At
  <2>3. CASE keep = TRUE
    <3> HIDE DEF u, f, pos, kept
    <3>1. buffer' = [buffer EXCEPT ![kept] = buffer[pos]]
      BY <1>1, <2>3
    <3>2. CASE d = f - 1
      <4>1. Wrap(outPos + d) = kept
        BY <1>7, <3>2
      <4> QED
        BY <1>2, <1>6, <1>7, <2>1, <2>3, <3>1, <3>2, <4>1 DEF At
    <3>3. CASE d # f - 1
      <4>1. Wrap(outPos + d) # kept
        BY <1>2, <1>7, <3>3, Apart
      <4> QED
        BY <1>2, <2>1, <2>3, <3>1, <3>3, <4>1 DEF At
    <3> QED
      BY <3>2, <3>3
  <2> QED
    BY <2>2, <2>3
<1>14. FilledInv'
  <2>1. Copied' = Copied
    BY <1>1 DEF Copied
  <2>2. u - 1 \in 0..(Used + Copied - 1)
    BY <1>2, <1>3, <1>4, <1>5
  <2>3. \A d \in 0..(Used + Copied - 1) : d \in 0..Capacity
    BY <1>2
  <2> HIDE DEF u, f
  <2>4. \A d \in 0..(Used + Copied - 1) : At(d)' \in 1..MaxPushed
    BY <1>2, <1>13, <2>2, <2>3
  <2> QED
    BY <1>11, <2>1, <2>4 DEF FilledInv
<1>15. RingType'
  <2> HIDE DEF pos, kept
  <2>1. buffer' \in [Slot -> 0..MaxPushed]
    BY <1>1, <1>2, <1>6, <1>7
  <2> QED
    BY <1>1, <1>2, <1>8, <2>1 DEF RingType
<1>16. RoomInv'
  BY <1>1, <1>2, <1>11 DEF RoomInv
<1>17. RingInv'
  BY <1>12, <1>14, <1>15, <1>16 DEF RingInv
<1>18. Shape /\ Shape'
  BY <1>17, RingShape, RingShapeNext
<1> HIDE DEF u, f, pos, kept, restAt
<1>19. /\ Contents \in Seq(1..MaxPushed) /\ Len(Contents) = u + (Used - f)
       /\ \A i \in 1..Len(Contents) : Contents[i] = IF i <= u THEN At(i - 1) ELSE At(f + (i - u) - 1)
  BY <1>9, <1>18 DEF Shape
<1>20. /\ Contents' \in Seq(1..MaxPushed) /\ Len(Contents') = (u - 1) + (Used - restAt)
       /\ \A i \in 1..Len(Contents') :
            Contents'[i] = IF i <= u - 1 THEN At(i - 1)' ELSE At(RestAt + (i - Unseen) - 1)'
  BY <1>9, <1>11, <1>18 DEF Shape
<1>21. \A i : At(RestAt + (i - Unseen) - 1)' = (buffer'[Wrap(outPos + (restAt + (i - (u - 1)) - 1))])
  BY <1>1, <1>9 DEF At
<1>22. \A d : At(d)' = buffer'[Wrap(outPos + d)]
  BY <1>1 DEF At
<1>23. CASE keep = TRUE
  <2>1. restAt = f - 1 /\ Len(Contents') = Len(Contents)
    BY <1>2, <1>4, <1>19, <1>20, <1>23 DEF restAt
  <2>2. ASSUME NEW i \in 1..Len(Contents) PROVE Contents'[i] = Contents[i]
    <3>1. i \in 1..(u + (Used - f)) /\ i \in 1..Len(Contents')
      BY <1>19, <2>1
    <3>2. CASE i <= u - 1
      <4>1. i - 1 \in 0..Capacity /\ i - 1 # f - 1 /\ i <= u
        BY <1>2, <1>3, <1>4, <3>1, <3>2
      <4>2. At(i - 1)' = At(i - 1)
        <5> DEFINE e == i - 1
        <5>1. e \in 0..Capacity /\ e # f - 1
          BY <4>1
        <5> HIDE DEF e
        <5>2. At(e)' = At(e)
          BY <1>13, <5>1
        <5> QED
          BY <5>2 DEF e
      <4> QED
        BY <1>19, <1>20, <3>1, <3>2, <4>1, <4>2
    <3>3. CASE ~(i <= u - 1)
      <4>1. PICK e \in 0..Capacity : e = restAt + (i - (u - 1)) - 1 /\ e = (f - 1) + (i - u)
        BY <1>2, <1>3, <1>4, <2>1, <3>1, <3>3
      <4>2. Contents'[i] = buffer'[Wrap(outPos + e)]
        BY <1>20, <1>21, <3>1, <3>3, <4>1
      <4>3. At(e)' = IF e = f - 1 THEN At(u - 1) ELSE At(e)
        BY <1>13, <1>23, <4>1
      <4>4. Contents'[i] = IF e = f - 1 THEN At(u - 1) ELSE At(e)
        BY <1>22, <4>2, <4>3
      <4>5. CASE i = u
        BY <1>4, <1>19, <4>1, <4>4, <4>5
      <4>6. CASE i # u
        <5>1. ~(i <= u) /\ e # f - 1 /\ e = f + (i - u) - 1
          BY <1>4, <3>1, <3>3, <4>1, <4>6
        <5> QED
          BY <1>19, <3>1, <4>4, <5>1
      <4> QED
        BY <4>5, <4>6
    <3> QED
      BY <3>2, <3>3
  <2>3. Contents' = Contents
    BY <1>19, <1>20, <2>1, <2>2, SeqEqual
  <2> QED
    BY <1>1, <1>17, <2>3 DEF QueueStep
<1>24. CASE keep = FALSE
  <2>1. restAt = f /\ Len(Contents') = Len(Contents) - 1 /\ u \in 1..Len(Contents)
    BY <1>2, <1>3, <1>4, <1>5, <1>19, <1>20, <1>24 DEF restAt
  <2>2. ASSUME NEW i \in 1..Len(Contents')
        PROVE  Contents'[i] = IF i < u THEN Contents[i] ELSE Contents[i + 1]
    <3>1. i \in 1..((u - 1) + (Used - f)) /\ i \in 1..Len(Contents) /\ i + 1 \in 1..Len(Contents)
      BY <1>2, <1>3, <1>4, <1>19, <1>20, <2>1
    <3>2. \A d \in 0..Capacity : At(d)' = At(d)
      BY <1>13, <1>24
    <3>3. CASE i < u
      <4>1. i - 1 \in 0..Capacity /\ i <= u /\ i <= u - 1
        BY <1>2, <1>3, <1>4, <3>1, <3>3
      <4>2. At(i - 1)' = At(i - 1)
        <5> DEFINE e == i - 1
        <5>1. At(e)' = At(e)
          BY <3>2, <4>1
        <5> QED
          BY <5>1
      <4> QED
        BY <1>19, <1>20, <3>1, <3>3, <4>1, <4>2
    <3>4. CASE ~(i < u)
      <4>1. PICK e \in 0..Capacity : /\ e = restAt + (i - (u - 1)) - 1 /\ e = f + ((i + 1) - u) - 1
                                     /\ ~(i + 1 <= u) /\ ~(i <= u - 1)
        BY <1>2, <1>3, <1>4, <2>1, <3>1, <3>4
      <4>2. Contents'[i] = buffer'[Wrap(outPos + e)]
        BY <1>20, <1>21, <4>1
      <4>3. Contents'[i] = At(e)
        BY <1>22, <3>2, <4>1, <4>2
      <4> QED
        BY <1>19, <3>1, <3>4, <4>1, <4>3
    <3> QED
      BY <3>3, <3>4
  <2>3. Contents' = Queue!RemoveAt(Contents, u)
    BY <1>19, <1>20, <2>1, <2>2, RemovedIs
  <2>4. u \in DOMAIN Contents
    BY <1>19, <2>1
  <2> QED
    BY <1>1, <1>17, <2>3, <2>4 DEF QueueStep, Queue!Next, Queue!Drop
<1> QED
  BY <1>23, <1>24

LEMMA RingKept == ASSUME RingInv, Next PROVE RingInv' /\ QueueStep
  BY PushKept, CopyKept, PublishKept, LookKept, ReleaseKept, FlushStoreKept, CallBackKept,
     SweepBegins, SweepEnds, RequeueKept
     DEF Next, ProducerStep, ConsumerStep

LEMMA RingRests ==
    ASSUME RingInv, UNCHANGED vars
    PROVE  RingInv' /\ UNCHANGED <<Contents, given>>
<1>1. UNCHANGED <<buffer, inPos, outPos, producer, consumer, offered, given>>
  BY DEF vars
<1>2. RingInv'
  BY <1>1 DEF RingInv, RingType, RoomInv, FilledInv, TakerInv, Copied, Used, At
<1>3. Contents' = Contents
  BY <1>1 DEF Contents, Elements
<1> QED
  BY <1>1, <1>2, <1>3

\* push_n takes what fits of what it is given.
LEMMA PushNFills ==
    ASSUME RingInv, NEW size \in 1..MaxBulk, PushN(size)
    PROVE  producer'.block + producer'.extra = Least(size, Capacity - Ahead(outPos, inPos))
<1>1. producer'.block = FirstBlock(size) /\ producer'.extra = SecondBlock(size)
  BY DEF PushN
<1>2. size \in Nat \ {0}
  BY BoundsAssumption
<1>3. FirstBlock(size) + SecondBlock(size) = Least(size, Capacity - Used)
  BY <1>2, BlocksFit
<1> QED
  BY <1>1, <1>3 DEF Used

-----------------------------------------------------------------------------
(* The ring of one producer and one consumer, as a part of Library.        *)

\* The ring of one producer and one consumer is a first-in first-out queue whatever the two
\* sides interleave, and push_n stores all that fits, for every capacity and size of a block
\* (circular_queue.h).
THEOREM QueueIsFifo == LibrarySpec => RingIsFifo
<1>1. LibraryInit => RingInv /\ Queue!Init
  BY RingStarts DEF LibraryInit
<1>2. ASSUME RingInv, [LibraryNext]_libraryVars
      PROVE  /\ RingInv' /\ [Queue!Next]_(Queue!vars)
             /\ [\A size \in 1..MaxBulk :
                    PushN(size) => producer'.block + producer'.extra
                                     = Least(size, Capacity - Ahead(outPos, inPos))]_vars
  <2>1. CASE RingStep
    <3>1. Next
      BY <2>1 DEF RingStep
    <3>2. RingInv' /\ QueueStep
      BY <1>2, <3>1, RingKept
    <3>3. [Queue!Next]_(Queue!vars)
      BY <3>2 DEF QueueStep, Queue!vars
    <3> QED
      BY <1>2, <3>2, <3>3, PushNFills
  <2>2. CASE UNCHANGED ringVars
    <3>1. RingInv' /\ UNCHANGED <<Contents, given>>
      BY <1>2, <2>2, RingRests DEF ringVars, vars
    <3>2. UNCHANGED vars /\ UNCHANGED Queue!vars
      BY <2>2, <3>1 DEF ringVars, vars, Queue!vars
    <3> QED
      BY <3>1, <3>2
  <2> QED
    BY <1>2, <2>1, <2>2
       DEF LibraryNext, libraryVars, SerialStep, MpStep, ListStep, WaitStep, TokenStep, AsyncStep,
           FastStep, DelegatesStep, ValueStep
<1>3. LibrarySpec => []RingInv
  BY <1>1, <1>2, PTL DEF LibrarySpec
<1> QED
  BY <1>1, <1>2, <1>3, PTL DEF LibrarySpec, RingIsFifo, IsFifo, FillsTheRing, Queue!Spec

-----------------------------------------------------------------------------
(* CircularQueueMP: places are compared by how far they lie ahead of       *)
(* m_outPos. While nobody used an old m_outPos, every claim lies between   *)
(* what is published and inPosMp, claims do not overlap, and who publishes *)
(* is the only producer inside, so that what it read is filled.            *)

MpSlot == 0..MpCapacity
Gap(o, s) == IF s >= o THEN s - o ELSE s - o + (MpCapacity + 1)
Off(s) == Gap(mpOut, s)

MpCalls ==
  [at : {"idle"}]
    \cup [at : {"enter", "load"}, size : Nat \ {0}, bulk : BOOLEAN, out : MpSlot]
    \cup [at : {"test"}, size : Nat \ {0}, bulk : BOOLEAN, out : MpSlot, from : MpSlot]
    \cup [at : {"claim"}, size : Nat \ {0}, bulk : BOOLEAN, out : MpSlot, from : MpSlot,
          block : Nat \ {0}]
    \cup [at : {"fill"}, from : MpSlot, block : Nat \ {0}, spill : {0}, done : Nat]
    \cup [at : {"leave"}, got : Nat]
    \cup [at : {"count"}, got : Nat, upTo : MpSlot]
    \cup [at : {"publish", "out"}, got : Nat, upTo : MpSlot, count : Nat]

MpItem == {<<>>} \cup (Producers \X Nat)
Inside == {p \in Producers : call[p].at \notin {"idle", "enter"}}

MpType ==
  /\ mpBuffer \in [MpSlot -> MpItem]
  /\ mpIn \in MpSlot /\ mpOut \in MpSlot /\ inPosMp \in MpSlot
  /\ concurrent = Cardinality(Inside)
  /\ call \in [Producers -> MpCalls]
  /\ pushed \in [Producers -> Nat] /\ mpGiven \in [Producers -> Nat]
  /\ mpConsumer \in [at : {"idle"}] \cup [at : {"read"}, item : MpItem]

Has(p, places) == call[p].at \in places

\* Seen from m_outPos, what is published, what a producer starts from and what it claimed.
ClaimInv ==
  /\ Off(mpIn) <= Off(inPosMp)
  /\ \A p \in Producers :
       /\ Has(p, {"test", "claim", "fill"}) => Off(mpIn) <= Off(call[p].from)
       /\ Has(p, {"claim"}) =>
            /\ call[p].from + call[p].block <= MpCapacity + 1
            /\ call[p].bulk = TRUE => /\ Gap(call[p].out, call[p].from) + call[p].block <= MpCapacity
                                      /\ call[p].block <= call[p].size
            /\ call[p].bulk = FALSE => Off(call[p].from) + call[p].block <= MpCapacity
       /\ Has(p, {"fill"}) =>
            /\ call[p].done <= call[p].block
            /\ call[p].from + call[p].block <= MpCapacity + 1
            /\ Off(call[p].from) + call[p].block <= Off(inPosMp)
            /\ \A q \in Producers \ {p} : Has(q, {"fill"}) =>
                 \/ Off(call[p].from) + call[p].block <= Off(call[q].from)
                 \/ Off(call[q].from) + call[q].block <= Off(call[p].from)

PublishInv ==
  \A p \in Producers :
    /\ Has(p, {"count", "publish"}) =>
         Off(mpIn) <= Off(call[p].upTo) /\ Off(call[p].upTo) <= Off(inPosMp)
    /\ Has(p, {"publish"}) => \A q \in Producers \ {p} :
         /\ ~Has(q, {"publish"})
         /\ Has(q, {"count"}) => Off(call[p].upTo) <= Off(call[q].upTo)
         /\ Has(q, {"test", "claim"}) => Off(call[p].upTo) <= Off(call[q].from)
    /\ Has(p, {"publish"}) => \A q \in Producers :
         Has(q, {"fill"}) => Off(call[p].upTo) <= Off(call[q].from)

Unfilled(s) == \E q \in Producers : /\ Has(q, {"fill"})
                                    /\ call[q].from + call[q].done <= s
                                    /\ s < call[q].from + call[q].block
Held(s) == s \in MpSlot /\ Off(s) < Off(inPosMp) /\ ~Unfilled(s)
Stored(p) == pushed[p] + (IF Has(p, {"fill"}) THEN call[p].done
                          ELSE IF Has(p, {"leave", "count", "publish", "out"}) THEN call[p].got ELSE 0)

HeldInv ==
  /\ \A p \in Producers : mpGiven[p] <= Stored(p)
  /\ \A s \in MpSlot : Held(s) =>
       \E p \in Producers : \E k \in mpGiven[p] + 1..Stored(p) : mpBuffer[s] = <<p, k>>
  /\ \A p \in Producers : \A k \in mpGiven[p] + 1..Stored(p) :
       \E s \in MpSlot : Held(s) /\ mpBuffer[s] = <<p, k>>
InOrderInv ==
  /\ \A s, t \in MpSlot :
       Held(s) /\ Held(t) /\ Off(s) < Off(t) /\ mpBuffer[s][1] = mpBuffer[t][1]
         => mpBuffer[s][2] < mpBuffer[t][2]
  /\ \A p \in Producers : \A s \in MpSlot :
       Has(p, {"fill"}) /\ Held(s) /\ mpBuffer[s][1] = p => Off(s) < Off(call[p].from) + call[p].done
ReadingInv == mpConsumer.at = "read" => mpConsumer.item = mpBuffer[mpOut] /\ mpIn # mpOut

MpSafe == MpType /\ ClaimInv /\ PublishInv /\ HeldInv /\ InOrderInv /\ ReadingInv
MpInv == hurt \in BOOLEAN /\ (hurt = FALSE => MpSafe)

LEMMA MpConstants ==
    /\ MpCapacity \in Nat \ {0} /\ MaxBlock \in Nat /\ IsFiniteSet(Producers)
    /\ Mp!bufSize = MpCapacity + 1
<1>1. Mp!IsFiniteSet(Producers) <=> IsFiniteSet(Producers)
  BY DEF Mp!IsFiniteSet, IsFiniteSet
<1> QED
  BY <1>1, LibraryAssumption DEF Mp!MpAssumption, Mp!bufSize

LEMMA GapIs ==
    ASSUME NEW o \in MpSlot, NEW s \in MpSlot
    PROVE  /\ Gap(o, s) \in 0..MpCapacity
           /\ Gap(o, s) = 0 <=> s = o
           /\ \A t \in MpSlot : Gap(o, t) = Gap(o, s) => t = s
  BY MpConstants DEF Gap, MpSlot

LEMMA MpWrapIs ==
    ASSUME NEW i \in Nat, i <= MpCapacity + 1
    PROVE  Mp!Wrap(i) = IF i = MpCapacity + 1 THEN 0 ELSE i
<1> DEFINE n == MpCapacity + 1
<1>1. n \in Nat \ {0} /\ Mp!Wrap(i) = i % n
  BY MpConstants DEF Mp!Wrap
<1> HIDE DEF n
<1>2. i < n => i % n = i
  BY <1>1
<1>3. i = n => i % n = 0
  BY <1>1
<1> QED
  BY <1>1, <1>2, <1>3 DEF n

LEMMA GapMoves ==
    ASSUME NEW o \in MpSlot
    PROVE  /\ Mp!Wrap(o + 1) \in MpSlot
           /\ Gap(Mp!Wrap(o + 1), o) = MpCapacity
           /\ \A s \in MpSlot \ {o} : Gap(Mp!Wrap(o + 1), s) = Gap(o, s) - 1
<1>1. Mp!Wrap(o + 1) = IF o + 1 = MpCapacity + 1 THEN 0 ELSE o + 1
  BY MpConstants, MpWrapIs DEF MpSlot
<1> QED
  BY <1>1, MpConstants DEF Gap, MpSlot

LEMMA GapForward ==
    ASSUME NEW o \in MpSlot, NEW s \in MpSlot, NEW b \in Nat,
           s + b <= MpCapacity + 1, Gap(o, s) + b <= MpCapacity
    PROVE  /\ \A t \in Int : s <= t /\ t < s + b => t \in MpSlot /\ Gap(o, t) = Gap(o, s) + (t - s)
           /\ \A t \in MpSlot : Gap(o, s) <= Gap(o, t) /\ Gap(o, t) < Gap(o, s) + b
                                  => s <= t /\ t < s + b
           /\ Mp!Wrap(s + b) \in MpSlot /\ Gap(o, Mp!Wrap(s + b)) = Gap(o, s) + b
<1>1. Mp!Wrap(s + b) = IF s + b = MpCapacity + 1 THEN 0 ELSE s + b
  BY MpConstants, MpWrapIs DEF MpSlot
<1>2. \A t \in Int : s <= t /\ t < s + b => t \in MpSlot /\ Gap(o, t) = Gap(o, s) + (t - s)
  BY MpConstants DEF Gap, MpSlot
<1>3. \A t \in MpSlot : Gap(o, s) <= Gap(o, t) /\ Gap(o, t) < Gap(o, s) + b => s <= t /\ t < s + b
  BY MpConstants DEF Gap, MpSlot
<1>4. Mp!Wrap(s + b) \in MpSlot /\ Gap(o, Mp!Wrap(s + b)) = Gap(o, s) + b
  <2>1. CASE s + b = MpCapacity + 1
    <3>1. Mp!Wrap(s + b) = 0
      BY <1>1, <2>1
    <3>2. 0 \in MpSlot /\ Gap(o, 0) = Gap(o, s) + b
      BY <2>1, MpConstants DEF Gap, MpSlot
    <3> QED
      BY <3>1, <3>2
  <2>2. CASE s + b # MpCapacity + 1
    <3>1. Mp!Wrap(s + b) = s + b
      BY <1>1, <2>2
    <3>2. s + b \in MpSlot /\ Gap(o, s + b) = Gap(o, s) + b
      BY <2>2, MpConstants DEF Gap, MpSlot
    <3> QED
      BY <3>1, <3>2
  <2> QED
    BY <2>1, <2>2
<1> QED
  BY <1>2, <1>3, <1>4

\* What a call at each place carries.
LEMMA CallIs ==
    ASSUME NEW c \in MpCalls
    PROVE  /\ c.at \in {"idle", "enter", "load", "test", "claim", "fill", "leave", "count", "publish", "out"}
           /\ c.at \in {"enter", "load"} =>
                c \in [at : {"enter", "load"}, size : Nat \ {0}, bulk : BOOLEAN, out : MpSlot]
           /\ c.at = "test" =>
                c \in [at : {"test"}, size : Nat \ {0}, bulk : BOOLEAN, out : MpSlot, from : MpSlot]
           /\ c.at = "claim" =>
                c \in [at : {"claim"}, size : Nat \ {0}, bulk : BOOLEAN, out : MpSlot, from : MpSlot,
                       block : Nat \ {0}]
           /\ c.at = "fill" =>
                c \in [at : {"fill"}, from : MpSlot, block : Nat \ {0}, spill : {0}, done : Nat]
           /\ c.at = "leave" => c \in [at : {"leave"}, got : Nat]
           /\ c.at = "count" => c \in [at : {"count"}, got : Nat, upTo : MpSlot]
           /\ c.at \in {"publish", "out"} =>
                c \in [at : {"publish", "out"}, got : Nat, upTo : MpSlot, count : Nat]
  BY DEF MpCalls

\* A step of one producer between its claims and its publishing.
LEMMA Undisturbed ==
    ASSUME MpSafe, NEW p \in Producers, NEW c \in MpCalls,
           call' = [call EXCEPT ![p] = c], concurrent' = Cardinality(Inside'),
           UNCHANGED <<mpBuffer, mpIn, mpOut, inPosMp, mpConsumer, mpGiven>>,
           pushed' \in [Producers -> Nat], \A q \in Producers : Stored(q)' = Stored(q),
           Has(p, {"fill"}) => call[p].done = call[p].block, c.at # "fill",
           c.at \in {"test", "claim"} =>
             /\ Off(mpIn) <= Off(c.from)
             /\ \A q \in Producers \ {p} : Has(q, {"publish"}) => Off(call[q].upTo) <= Off(c.from),
           c.at = "claim" =>
             /\ c.from + c.block <= MpCapacity + 1
             /\ c.bulk = TRUE => Gap(c.out, c.from) + c.block <= MpCapacity /\ c.block <= c.size
             /\ c.bulk = FALSE => Off(c.from) + c.block <= MpCapacity,
           c.at \in {"count", "publish"} => Off(mpIn) <= Off(c.upTo) /\ Off(c.upTo) <= Off(inPosMp),
           c.at = "count" => \A q \in Producers \ {p} :
             Has(q, {"publish"}) => Off(call[q].upTo) <= Off(c.upTo),
           c.at = "publish" => \A q \in Producers \ {p} : Has(q, {"idle", "enter"})
    PROVE  MpSafe'
<1>1. /\ call' \in [Producers -> MpCalls] /\ call'[p] = c
      /\ \A q \in Producers \ {p} : call'[q] = call[q]
  BY DEF MpSafe, MpType
<1>2. \A x : Off(x)' = Gap(mpOut, x') /\ Off(x) = Gap(mpOut, x)
  BY DEF Off
<1>3. MpType'
  BY <1>1 DEF MpSafe, MpType
<1>4. ClaimInv'
  <2>1. Off(mpIn)' = Off(mpIn) /\ Off(inPosMp)' = Off(inPosMp)
    BY DEF Off
  <2>2. ASSUME NEW q \in Producers
        PROVE  /\ Has(q, {"test", "claim", "fill"})' => Off(mpIn)' <= Off(call[q].from)'
               /\ Has(q, {"claim"})' =>
                    /\ call'[q].from + call'[q].block <= MpCapacity + 1
                    /\ call'[q].bulk = TRUE =>
                         /\ Gap(call'[q].out, call'[q].from) + call'[q].block <= MpCapacity
                         /\ call'[q].block <= call'[q].size
                    /\ call'[q].bulk = FALSE => Off(call[q].from)' + call'[q].block <= MpCapacity
               /\ Has(q, {"fill"})' =>
                    /\ call'[q].done <= call'[q].block
                    /\ call'[q].from + call'[q].block <= MpCapacity + 1
                    /\ Off(call[q].from)' + call'[q].block <= Off(inPosMp)'
    <3>1. CASE q = p
      BY <1>1, <2>1, <3>1 DEF Has, Off
    <3>2. CASE q # p
      BY <1>1, <2>1, <3>2 DEF Has, Off, MpSafe, ClaimInv
    <3> QED
      BY <3>1, <3>2
  <2>3. ASSUME NEW q \in Producers, NEW r \in Producers \ {q}, Has(q, {"fill"})', Has(r, {"fill"})'
        PROVE  \/ Off(call[q].from)' + call'[q].block <= Off(call[r].from)'
               \/ Off(call[r].from)' + call'[r].block <= Off(call[q].from)'
    <3>1. q # p /\ r # p
      BY <1>1, <2>3 DEF Has
    <3> QED
      BY <1>1, <2>3, <3>1 DEF Has, Off, MpSafe, ClaimInv
  <2> QED
    BY <2>1, <2>2, <2>3 DEF ClaimInv, MpSafe
<1>5. PublishInv'
  <2>1. Off(mpIn)' = Off(mpIn) /\ Off(inPosMp)' = Off(inPosMp)
    BY DEF Off
  <2>2. ASSUME NEW q \in Producers, Has(q, {"count", "publish"})'
        PROVE  Off(mpIn)' <= Off(call[q].upTo)' /\ Off(call[q].upTo)' <= Off(inPosMp)'
    <3>1. CASE q = p
      BY <1>1, <2>1, <2>2, <3>1 DEF Has, Off
    <3>2. CASE q # p
      BY <1>1, <2>1, <2>2, <3>2 DEF Has, Off, MpSafe, PublishInv
    <3> QED
      BY <3>1, <3>2
  <2>3. ASSUME NEW q \in Producers, Has(q, {"publish"})', NEW r \in Producers \ {q}
        PROVE  /\ ~Has(r, {"publish"})'
               /\ Has(r, {"count"})' => Off(call[q].upTo)' <= Off(call[r].upTo)'
               /\ Has(r, {"test", "claim"})' => Off(call[q].upTo)' <= Off(call[r].from)'
               /\ Has(r, {"fill"})' => Off(call[q].upTo)' <= Off(call[r].from)'
    <3>1. CASE q = p
      <4>1. Has(r, {"idle", "enter"}) /\ call'[r] = call[r]
        BY <1>1, <2>3, <3>1 DEF Has
      <4> QED
        BY <4>1 DEF Has
    <3>2. CASE q # p /\ r = p
      BY <1>1, <2>3, <3>2 DEF Has, Off
    <3>3. CASE q # p /\ r # p
      BY <1>1, <2>3, <3>3 DEF Has, Off, MpSafe, PublishInv
    <3> QED
      BY <3>1, <3>2, <3>3
  <2>4. \A q \in Producers : ~(Has(q, {"publish"})' /\ Has(q, {"fill"})')
    BY DEF Has
  <2> QED
    BY <2>2, <2>3, <2>4 DEF PublishInv
<1>6. \A s \in MpSlot : Held(s)' <=> Held(s)
  <2>1. ASSUME NEW s \in MpSlot PROVE Unfilled(s)' <=> Unfilled(s)
    <3>1. ASSUME NEW q \in Producers
          PROVE  (Has(q, {"fill"})' /\ call'[q].from + call'[q].done <= s /\ s < call'[q].from + call'[q].block)
             <=> (Has(q, {"fill"}) /\ call[q].from + call[q].done <= s /\ s < call[q].from + call[q].block)
      <4>1. CASE q = p
        <5>1. ~Has(q, {"fill"})'
          BY <1>1, <4>1 DEF Has
        <5>2. Has(q, {"fill"}) => ~(call[q].from + call[q].done <= s /\ s < call[q].from + call[q].block)
          <6> SUFFICES ASSUME Has(q, {"fill"})
                       PROVE  ~(call[q].from + call[q].done <= s /\ s < call[q].from + call[q].block)
            OBVIOUS
          <6>1. call[p].from \in Int /\ call[p].block \in Int /\ call[p].done = call[p].block /\ s \in Int
            BY <4>1, CallIs, MpConstants DEF Has, MpSafe, MpType, MpSlot
          <6> QED
            BY <4>1, <6>1
        <5> QED
          BY <5>1, <5>2
      <4>2. CASE q # p
        BY <1>1, <4>2 DEF Has
      <4> QED
        BY <4>1, <4>2
    <3> QED
      BY <3>1 DEF Unfilled
  <2> QED
    BY <2>1 DEF Held, Off
<1>7. HeldInv'
  BY <1>6 DEF HeldInv, MpSafe
<1>8. InOrderInv'
  <2>1. \A s \in MpSlot : Off(s)' = Off(s)
    BY DEF Off
  <2>2. \A q \in Producers : Has(q, {"fill"})' => Has(q, {"fill"}) /\ call'[q] = call[q]
    BY <1>1 DEF Has
  <2>3. \A q \in Producers : Has(q, {"fill"})' => Off(call[q].from)' = Off(call[q].from)
    BY <2>2 DEF Off
  <2> QED
    BY <1>6, <2>1, <2>2, <2>3 DEF InOrderInv, MpSafe
<1>9. ReadingInv'
  BY DEF ReadingInv, MpSafe
<1> QED
  BY <1>3, <1>4, <1>5, <1>7, <1>8, <1>9 DEF MpSafe

LEMMA FewInside ==
    ASSUME MpSafe
    PROVE  IsFiniteSet(Inside) /\ concurrent = Cardinality(Inside) /\ concurrent \in Nat
<1>1. Inside \subseteq Producers
  BY DEF Inside
<1> QED
  BY <1>1, MpConstants, FS_Subset, FS_CardinalityType DEF MpSafe, MpType

LEMMA InsideIs ==
    ASSUME MpSafe, NEW p \in Producers, NEW c \in MpCalls, call' = [call EXCEPT ![p] = c]
    PROVE  /\ p \notin Inside /\ c.at \notin {"idle", "enter"}
                => Cardinality(Inside') = concurrent + 1
           /\ p \in Inside /\ c.at \notin {"idle", "enter"} => Cardinality(Inside') = concurrent
           /\ p \notin Inside /\ c.at \in {"idle", "enter"} => Cardinality(Inside') = concurrent
           /\ p \in Inside /\ c.at \in {"idle", "enter"} => Cardinality(Inside') = concurrent - 1
<1>1. call'[p] = c /\ \A q \in Producers \ {p} : call'[q] = call[q]
  BY DEF MpSafe, MpType
<1>2. IsFiniteSet(Inside) /\ concurrent = Cardinality(Inside) /\ concurrent \in Nat
  BY FewInside
<1>3. CASE c.at \notin {"idle", "enter"}
  <2>1. Inside' = Inside \cup {p}
    BY <1>1, <1>3 DEF Inside
  <2> QED
    BY <1>2, <1>3, <2>1, FS_AddElement
<1>4. CASE c.at \in {"idle", "enter"}
  <2>1. Inside' = Inside \ {p}
    BY <1>1, <1>4 DEF Inside
  <2> QED
    BY <1>2, <1>4, <2>1, FS_RemoveElement
<1> QED
  BY <1>2, <1>3, <1>4

LEMMA MpEnters ==
    ASSUME MpSafe, NEW p \in Producers, Mp!Enter(p) \/ (\E size \in 1..MaxBlock : Mp!ReadOut(p, size)) \/ Mp!EnterN(p)
    PROVE  MpSafe'
<1>1. PICK c \in MpCalls :
        /\ call' = [call EXCEPT ![p] = c] /\ c.at \in {"enter", "load"}
        /\ call[p].at \in {"idle", "enter"}
        /\ concurrent' = IF c.at = "load" THEN concurrent + 1 ELSE concurrent
  <2>1. CASE Mp!Enter(p)
    <3>1. [at |-> "load", size |-> 1, bulk |-> FALSE, out |-> mpOut] \in MpCalls
      BY DEF MpCalls, MpSafe, MpType
    <3> QED
      BY <2>1, <3>1 DEF Mp!Enter, Mp!Goto
  <2>2. ASSUME NEW size \in 1..MaxBlock, Mp!ReadOut(p, size)
        PROVE \E c \in MpCalls : /\ call' = [call EXCEPT ![p] = c] /\ c.at = "enter" /\ call[p].at = "idle"
                                 /\ concurrent' = concurrent
    <3>1. size \in Nat \ {0}
      BY MpConstants
    <3>2. [at |-> "enter", size |-> size, bulk |-> TRUE, out |-> mpOut] \in MpCalls
      BY <3>1 DEF MpCalls, MpSafe, MpType
    <3> QED
      BY <2>2, <3>2 DEF Mp!ReadOut, Mp!Goto
  <2>3. CASE Mp!EnterN(p)
    <3>1. call[p] \in [at : {"enter", "load"}, size : Nat \ {0}, bulk : BOOLEAN, out : MpSlot]
      BY <2>3, CallIs DEF Mp!EnterN, MpSafe, MpType
    <3>2. [call[p] EXCEPT !.at = "load"] \in [at : {"enter", "load"}, size : Nat \ {0}, bulk : BOOLEAN, out : MpSlot]
      BY <3>1
    <3>3. [call[p] EXCEPT !.at = "load"].at = "load"
      BY <3>1
    <3> QED
      BY <2>3, <3>2, <3>3 DEF Mp!EnterN, Mp!Goto, MpCalls
  <2> QED
    BY <2>1, <2>2, <2>3
<1>2. /\ UNCHANGED <<mpBuffer, mpIn, mpOut, inPosMp, mpConsumer, mpGiven, pushed>>
  BY DEF Mp!Enter, Mp!ReadOut, Mp!EnterN, Mp!consumerRests
<1>3. concurrent' = Cardinality(Inside')
  BY <1>1, InsideIs DEF Inside
<1>4. /\ call'[p] = c /\ \A q \in Producers \ {p} : call'[q] = call[q]
  BY <1>1 DEF MpSafe, MpType
<1>5. \A q \in Producers : Stored(q)' = Stored(q)
  BY <1>1, <1>2, <1>4 DEF Stored, Has
<1> QED
  BY <1>1, <1>2, <1>3, <1>5, Undisturbed DEF Has, MpSafe, MpType

\* A block claimed behind m_outPos ends before it and before the end of the buffer.
LEMMA BlockFits ==
    ASSUME NEW size \in Nat \ {0}, NEW from \in MpSlot, NEW out \in MpSlot
    PROVE  /\ Mp!Block(from, out, size) \in Nat
           /\ from + Mp!Block(from, out, size) <= MpCapacity + 1
           /\ Gap(out, from) + Mp!Block(from, out, size) <= MpCapacity
           /\ Mp!Block(from, out, size) <= size
<1> DEFINE free == CASE out > from -> out - 1 - from
                     [] out = 0    -> Mp!bufSize - 1 - from
                     [] OTHER      -> Mp!bufSize - from
<1>1. free \in Nat /\ from + free <= MpCapacity + 1 /\ Gap(out, from) + free <= MpCapacity
  <2>1. CASE out > from
    <3>1. free = out - 1 - from
      BY <2>1, MpConstants DEF MpSlot
    <3> QED
      BY <2>1, <3>1, MpConstants DEF Gap, MpSlot
  <2>2. CASE ~(out > from) /\ out = 0
    <3>1. free = MpCapacity - from
      BY <2>2, MpConstants DEF MpSlot
    <3> QED
      BY <2>2, <3>1, MpConstants DEF Gap, MpSlot
  <2>3. CASE ~(out > from) /\ out # 0
    <3>1. free = (MpCapacity + 1) - from
      BY <2>3, MpConstants DEF MpSlot
    <3> QED
      BY <2>3, <3>1, MpConstants DEF Gap, MpSlot
  <2> QED
    BY <2>1, <2>2, <2>3
<1>2. Mp!Block(from, out, size) = IF size < free THEN size ELSE free
  BY DEF Mp!Block, Mp!Least
<1>3. from \in Nat /\ Gap(out, from) \in Nat
  BY GapIs DEF MpSlot
<1> HIDE DEF free
<1> QED
  BY <1>1, <1>2, <1>3, MpConstants

LEMMA MpLoads ==
    ASSUME MpSafe, NEW p \in Producers, Mp!Load(p)
    PROVE  MpSafe'
<1>1. call[p] \in [at : {"enter", "load"}, size : Nat \ {0}, bulk : BOOLEAN, out : MpSlot]
  BY CallIs DEF Mp!Load, MpSafe, MpType
<1> DEFINE c == [at |-> "test", size |-> call[p].size, bulk |-> call[p].bulk,
                 out |-> call[p].out, from |-> inPosMp]
<1>2. c \in MpCalls /\ c.at = "test" /\ c.from = inPosMp
  BY <1>1 DEF MpCalls, MpSafe, MpType
<1>3. /\ call' = [call EXCEPT ![p] = c] /\ call[p].at = "load"
      /\ UNCHANGED <<mpBuffer, mpIn, mpOut, inPosMp, mpConsumer, mpGiven, pushed, concurrent>>
  BY DEF Mp!Load, Mp!Goto, Mp!consumerRests
<1> HIDE DEF c
<1>4. concurrent' = Cardinality(Inside')
  BY <1>2, <1>3, InsideIs DEF Inside
<1>5. call'[p] = c /\ \A q \in Producers \ {p} : call'[q] = call[q]
  BY <1>3 DEF MpSafe, MpType
<1>6. \A q \in Producers : Stored(q)' = Stored(q)
  BY <1>2, <1>3, <1>5 DEF Stored, Has
<1> QED
  BY <1>2, <1>3, <1>4, <1>6, Undisturbed DEF Has, MpSafe, MpType, ClaimInv, PublishInv

LEMMA MpTests ==
    ASSUME MpSafe, NEW p \in Producers, Mp!Test(p)
    PROVE  MpSafe'
<1>1. call[p] \in [at : {"test"}, size : Nat \ {0}, bulk : BOOLEAN, out : MpSlot, from : MpSlot]
  BY CallIs DEF Mp!Test, MpSafe, MpType
<1> DEFINE k     == call[p]
           block == IF k.bulk THEN Mp!Block(k.from, k.out, k.size)
                    ELSE IF Mp!Wrap(k.from + 1) = mpOut THEN 0 ELSE 1
<1>2. /\ k.at = "test" /\ k.size \in Nat \ {0} /\ k.bulk \in BOOLEAN
      /\ k.out \in MpSlot /\ k.from \in MpSlot /\ mpOut \in MpSlot
  BY <1>1 DEF MpSafe, MpType
<1>3. /\ block \in Nat
      /\ block # 0 => /\ k.from + block <= MpCapacity + 1
                      /\ k.bulk = TRUE => Gap(k.out, k.from) + block <= MpCapacity /\ block <= k.size
                      /\ k.bulk = FALSE => Off(k.from) + block <= MpCapacity
  <2>1. CASE k.bulk = TRUE
    BY <1>2, <2>1, BlockFits
  <2>2. CASE k.bulk = FALSE
    <3>1. block \in {0, 1} /\ k.from + 1 <= MpCapacity + 1
      BY <1>2, <2>2, MpConstants DEF MpSlot
    <3>2. block = 1 => Gap(mpOut, k.from) + 1 <= MpCapacity
      <4>1. Mp!Wrap(k.from + 1) = IF k.from + 1 = MpCapacity + 1 THEN 0 ELSE k.from + 1
        BY <1>2, MpConstants, MpWrapIs DEF MpSlot
      <4> QED
        BY <1>2, <2>2, <4>1, MpConstants DEF Gap, MpSlot
    <3> QED
      BY <2>2, <3>1, <3>2 DEF Off
  <2> QED
    BY <1>2, <2>1, <2>2
<1> DEFINE c == IF block = 0 THEN [at |-> "leave", got |-> 0]
                ELSE [at |-> "claim", size |-> k.size, bulk |-> k.bulk,
                      out |-> k.out, from |-> k.from, block |-> block]
<1>4. /\ call' = [call EXCEPT ![p] = c]
      /\ UNCHANGED <<mpBuffer, mpIn, mpOut, inPosMp, mpConsumer, mpGiven, pushed, concurrent>>
  BY DEF Mp!Test, Mp!Goto, Mp!consumerRests
<1> HIDE DEF block, k
<1>5. c \in MpCalls
  BY <1>2, <1>3 DEF MpCalls
<1>6. /\ c.at = "leave" /\ c.got = 0
      \/ /\ c.at = "claim" /\ c.from = k.from /\ c.block = block /\ c.bulk = k.bulk /\ c.out = k.out
         /\ block # 0 /\ c.size = k.size
  OBVIOUS
<1> HIDE DEF c
<1>7. concurrent' = Cardinality(Inside')
  BY <1>2, <1>4, <1>5, <1>6, InsideIs DEF Inside, k
<1>8. call'[p] = c /\ \A q \in Producers \ {p} : call'[q] = call[q]
  BY <1>4 DEF MpSafe, MpType
<1>9. \A q \in Producers : Stored(q)' = Stored(q)
  <2>1. Stored(p)' = Stored(p)
    BY <1>2, <1>4, <1>6, <1>8 DEF Stored, Has, k
  <2> QED
    BY <1>4, <1>8, <2>1 DEF Stored, Has
<1>10. /\ Off(mpIn) <= Off(k.from)
       /\ \A q \in Producers \ {p} : Has(q, {"publish"}) => Off(call[q].upTo) <= Off(k.from)
  BY <1>2 DEF Has, MpSafe, ClaimInv, PublishInv, k
<1> QED
  BY <1>2, <1>3, <1>4, <1>5, <1>6, <1>7, <1>9, <1>10, Undisturbed DEF Has, MpSafe, MpType, k

\* Steps that leave the marks of a call on what is shared as they are.
LEMMA MpRetries ==
    ASSUME MpSafe, NEW p \in Producers, Mp!Claim(p), inPosMp # call[p].from
    PROVE  MpSafe'
<1>1. call[p] \in [at : {"claim"}, size : Nat \ {0}, bulk : BOOLEAN, out : MpSlot, from : MpSlot,
                   block : Nat \ {0}]
  BY CallIs DEF Mp!Claim, MpSafe, MpType
<1> DEFINE c == [at |-> "load", size |-> call[p].size, bulk |-> call[p].bulk, out |-> call[p].out]
<1>2. c \in MpCalls /\ c.at = "load"
  BY <1>1 DEF MpCalls
<1>3. /\ call' = [call EXCEPT ![p] = c] /\ call[p].at = "claim"
      /\ UNCHANGED <<mpBuffer, mpIn, mpOut, inPosMp, mpConsumer, mpGiven, pushed, concurrent>>
  BY DEF Mp!Claim, Mp!Goto, Mp!consumerRests
<1> HIDE DEF c
<1>4. concurrent' = Cardinality(Inside')
  BY <1>2, <1>3, InsideIs DEF Inside
<1>5. call'[p] = c /\ \A q \in Producers \ {p} : call'[q] = call[q]
  BY <1>3 DEF MpSafe, MpType
<1>6. \A q \in Producers : Stored(q)' = Stored(q)
  BY <1>2, <1>3, <1>5 DEF Stored, Has
<1> QED
  BY <1>2, <1>3, <1>4, <1>6, Undisturbed DEF Has, MpSafe, MpType

LEMMA FillingIs ==
    ASSUME MpSafe, NEW p \in Producers, Mp!Fill(p)
    PROVE  /\ call[p] \in [at : {"fill"}, from : MpSlot, block : Nat \ {0}, spill : {0}, done : Nat]
           /\ call[p].block \in Nat /\ call[p].done \in Nat /\ call[p].done <= call[p].block
           /\ call[p].block + call[p].spill = call[p].block /\ Has(p, {"fill"})
<1>1. call[p] \in [at : {"fill"}, from : MpSlot, block : Nat \ {0}, spill : {0}, done : Nat]
  BY CallIs DEF Mp!Fill, MpSafe, MpType
<1>2. call[p].done <= call[p].block
  BY <1>1 DEF MpSafe, ClaimInv, Has
<1> QED
  BY <1>1, <1>2 DEF Has

LEMMA MpFilled ==
    ASSUME MpSafe, NEW p \in Producers, Mp!Fill(p), ~(call[p].done < call[p].block)
    PROVE  MpSafe'
<1>1. /\ call[p].block \in Nat /\ call[p].done \in Nat /\ call[p].done = call[p].block
      /\ call[p].block + call[p].spill = call[p].block /\ call[p].at = "fill"
  BY FillingIs DEF Has
<1> DEFINE c == [at |-> "leave", got |-> call[p].done]
<1>2. c \in MpCalls /\ c.at = "leave" /\ c.got = call[p].done
  BY <1>1 DEF MpCalls
<1>3. /\ call' = [call EXCEPT ![p] = c]
      /\ UNCHANGED <<mpBuffer, mpIn, mpOut, inPosMp, mpConsumer, mpGiven, pushed, concurrent>>
  BY <1>1 DEF Mp!Fill, Mp!Goto, Mp!consumerRests
<1> HIDE DEF c
<1>4. concurrent' = Cardinality(Inside')
  BY <1>1, <1>2, <1>3, InsideIs DEF Inside
<1>5. call'[p] = c /\ \A q \in Producers \ {p} : call'[q] = call[q]
  BY <1>3 DEF MpSafe, MpType
<1>6. \A q \in Producers : Stored(q)' = Stored(q)
  BY <1>1, <1>2, <1>3, <1>5 DEF Stored, Has
<1> QED
  BY <1>1, <1>2, <1>3, <1>4, <1>6, Undisturbed DEF Has, MpSafe, MpType

LEMMA MpReadsClaimed ==
    ASSUME MpSafe, NEW p \in Producers, Mp!LoadClaimed(p)
    PROVE  MpSafe'
<1>1. call[p] \in [at : {"leave"}, got : Nat]
  BY CallIs DEF Mp!LoadClaimed, MpSafe, MpType
<1> DEFINE c == [at |-> "count", got |-> call[p].got, upTo |-> inPosMp]
<1>2. c \in MpCalls /\ c.at = "count" /\ c.got = call[p].got /\ c.upTo = inPosMp
  BY <1>1 DEF MpCalls, MpSafe, MpType
<1>3. /\ call' = [call EXCEPT ![p] = c] /\ call[p].at = "leave"
      /\ UNCHANGED <<mpBuffer, mpIn, mpOut, inPosMp, mpConsumer, mpGiven, pushed, concurrent>>
  BY DEF Mp!LoadClaimed, Mp!Goto, Mp!consumerRests
<1> HIDE DEF c
<1>4. concurrent' = Cardinality(Inside')
  BY <1>2, <1>3, InsideIs DEF Inside
<1>5. call'[p] = c /\ \A q \in Producers \ {p} : call'[q] = call[q]
  BY <1>3 DEF MpSafe, MpType
<1>6. \A q \in Producers : Stored(q)' = Stored(q)
  BY <1>2, <1>3, <1>5 DEF Stored, Has
<1>7. Off(inPosMp) <= Off(inPosMp)
  BY GapIs DEF Off, MpSafe, MpType, MpSlot
<1> QED
  BY <1>2, <1>3, <1>4, <1>6, <1>7, Undisturbed DEF Has, MpSafe, MpType, ClaimInv, PublishInv

\* Who reads that one producer is inside is that producer.
LEMMA MpCounts ==
    ASSUME MpSafe, NEW p \in Producers, Mp!LoadCount(p)
    PROVE  MpSafe'
<1>1. call[p] \in [at : {"count"}, got : Nat, upTo : MpSlot] /\ call[p].at = "count"
  BY CallIs DEF Mp!LoadCount, MpSafe, MpType
<1> DEFINE c == [at |-> IF concurrent = 1 THEN "publish" ELSE "out",
                 got |-> call[p].got, upTo |-> call[p].upTo, count |-> concurrent]
<1>2. concurrent \in Nat /\ IsFiniteSet(Inside)
  BY FewInside
<1>3. /\ c \in MpCalls /\ c.at \in {"publish", "out"}
      /\ c.at = "publish" => concurrent = 1
      /\ c.got = call[p].got /\ c.upTo = call[p].upTo
  BY <1>1, <1>2 DEF MpCalls, MpSafe, MpType
<1>4. /\ call' = [call EXCEPT ![p] = c]
      /\ UNCHANGED <<mpBuffer, mpIn, mpOut, inPosMp, mpConsumer, mpGiven, pushed, concurrent>>
  BY DEF Mp!LoadCount, Mp!Goto, Mp!consumerRests
<1> HIDE DEF c
<1>5. concurrent' = Cardinality(Inside')
  BY <1>1, <1>3, <1>4, InsideIs DEF Inside
<1>6. call'[p] = c /\ \A q \in Producers \ {p} : call'[q] = call[q]
  BY <1>4 DEF MpSafe, MpType
<1>7. \A q \in Producers : Stored(q)' = Stored(q)
  BY <1>1, <1>3, <1>4, <1>6 DEF Stored, Has
<1>8. concurrent = 1 => \A q \in Producers \ {p} : Has(q, {"idle", "enter"})
  <2> SUFFICES ASSUME concurrent = 1, NEW q \in Producers \ {p}, q \in Inside PROVE FALSE
    BY DEF Has, Inside
  <2>1. p \in Inside /\ Cardinality(Inside) = 1
    BY <1>1 DEF Inside, MpSafe, MpType
  <2>2. PICK x : Inside = {x}
    BY <1>2, <2>1, FS_Singleton
  <2> QED
    BY <2>1, <2>2
<1>9. Off(mpIn) <= Off(call[p].upTo) /\ Off(call[p].upTo) <= Off(inPosMp)
  BY <1>1 DEF MpSafe, PublishInv, Has
<1> QED
  BY <1>1, <1>3, <1>4, <1>5, <1>7, <1>8, <1>9, Undisturbed DEF Has, MpSafe, MpType

LEMMA MpLeaves ==
    ASSUME MpSafe, NEW p \in Producers, Mp!Leave(p)
    PROVE  MpSafe'
<1>1. call[p] \in [at : {"publish", "out"}, got : Nat, upTo : MpSlot, count : Nat] /\ call[p].at = "out"
  BY CallIs DEF Mp!Leave, MpSafe, MpType
<1> DEFINE back == concurrent # call[p].count
           c == IF back THEN [at |-> "leave", got |-> call[p].got] ELSE [at |-> "idle"]
<1>2. c \in MpCalls
  BY <1>1 DEF MpCalls
<1>3. /\ call' = [call EXCEPT ![p] = c]
      /\ concurrent' = IF back THEN concurrent ELSE concurrent - 1
      /\ pushed' = IF back THEN pushed ELSE [pushed EXCEPT ![p] = @ + call[p].got]
      /\ UNCHANGED <<mpBuffer, mpIn, mpOut, inPosMp, mpConsumer, mpGiven>>
  BY DEF Mp!Leave, Mp!Goto, Mp!consumerRests, Mp!Resting
<1>4. /\ back => c.at = "leave" /\ c.got = call[p].got
      /\ ~back => c.at = "idle"
  <2>1. back => c = [at |-> "leave", got |-> call[p].got]
    OBVIOUS
  <2>2. ~back => c = [at |-> "idle"]
    OBVIOUS
  <2> QED
    BY <2>1, <2>2
<1> HIDE DEF c, back
<1>5. concurrent' = Cardinality(Inside')
  BY <1>1, <1>2, <1>3, <1>4, InsideIs DEF Inside
<1>6. call'[p] = c /\ \A q \in Producers \ {p} : call'[q] = call[q]
  BY <1>3 DEF MpSafe, MpType
<1>7. /\ pushed' \in [Producers -> Nat] /\ pushed[p] \in Nat
      /\ pushed'[p] = IF back THEN pushed[p] ELSE pushed[p] + call[p].got
      /\ \A q \in Producers \ {p} : pushed'[q] = pushed[q]
  BY <1>1, <1>3 DEF MpSafe, MpType
<1>8. \A q \in Producers : Stored(q)' = Stored(q)
  <2>1. Stored(p)' = Stored(p)
    <3>1. Stored(p) = pushed[p] + call[p].got
      BY <1>1 DEF Stored, Has
    <3>2. CASE back
      BY <1>4, <1>6, <1>7, <3>1, <3>2 DEF Stored, Has
    <3>3. CASE ~back
      BY <1>1, <1>4, <1>6, <1>7, <3>1, <3>3 DEF Stored, Has
    <3> QED
      BY <3>2, <3>3
  <2> QED
    BY <1>6, <1>7, <2>1 DEF Stored, Has
<1> QED
  BY <1>1, <1>2, <1>3, <1>4, <1>5, <1>7, <1>8, Undisturbed DEF Has

LEMMA MpPublishes ==
    ASSUME MpSafe, NEW p \in Producers, Mp!Publish(p)
    PROVE  MpSafe'
<1>1. call[p] \in [at : {"publish", "out"}, got : Nat, upTo : MpSlot, count : Nat] /\ call[p].at = "publish"
  BY CallIs DEF Mp!Publish, MpSafe, MpType
<1> DEFINE c == [call[p] EXCEPT !.at = "out"]
<1>2. c \in MpCalls /\ c.at = "out" /\ c.got = call[p].got
  <2>1. c \in [at : {"publish", "out"}, got : Nat, upTo : MpSlot, count : Nat]
    BY <1>1
  <2>2. c.at = "out" /\ c.got = call[p].got
    BY <1>1
  <2> QED
    BY <2>1, <2>2 DEF MpCalls
<1>3. /\ call' = [call EXCEPT ![p] = c] /\ mpIn' = call[p].upTo
      /\ UNCHANGED <<mpBuffer, mpOut, inPosMp, mpConsumer, mpGiven, pushed, concurrent>>
  BY DEF Mp!Publish, Mp!Goto, Mp!consumerRests
<1> HIDE DEF c
<1>4. concurrent' = Cardinality(Inside')
  BY <1>1, <1>2, <1>3, InsideIs DEF Inside
<1>5. /\ call'[p] = c /\ \A q \in Producers \ {p} : call'[q] = call[q]
      /\ call' \in [Producers -> MpCalls]
  BY <1>2, <1>3 DEF MpSafe, MpType
<1>6. \A q \in Producers : Stored(q)' = Stored(q)
  BY <1>1, <1>2, <1>3, <1>5 DEF Stored, Has
<1>7. /\ Off(mpIn) <= Off(call[p].upTo) /\ Off(call[p].upTo) <= Off(inPosMp)
      /\ \A q \in Producers \ {p} :
           /\ ~Has(q, {"publish"})
           /\ Has(q, {"count"}) => Off(call[p].upTo) <= Off(call[q].upTo)
           /\ Has(q, {"test", "claim", "fill"}) => Off(call[p].upTo) <= Off(call[q].from)
  BY <1>1 DEF Has, MpSafe, PublishInv
<1>8. Off(mpIn)' = Off(call[p].upTo) /\ Off(inPosMp)' = Off(inPosMp)
  BY <1>3 DEF Off
<1>9. \A q \in Producers : Has(q, {"test", "claim", "fill", "count", "publish"})'
        => q # p /\ call'[q] = call[q] /\ Has(q, {"test", "claim", "fill", "count"})
  BY <1>2, <1>5, <1>7 DEF Has
<1>10. MpType'
  BY <1>1, <1>3, <1>4, <1>5 DEF MpSafe, MpType
<1>11. ClaimInv'
  <2>1. ASSUME NEW q \in Producers, Has(q, {"test", "claim", "fill"})'
        PROVE  Off(mpIn)' <= Off(call[q].from)'
    BY <1>3, <1>7, <1>8, <1>9, <2>1 DEF Has, Off
  <2>2. ASSUME NEW q \in Producers, Has(q, {"claim"})'
        PROVE  /\ call'[q].from + call'[q].block <= MpCapacity + 1
               /\ call'[q].bulk = TRUE =>
                    /\ Gap(call'[q].out, call'[q].from) + call'[q].block <= MpCapacity
                    /\ call'[q].block <= call'[q].size
               /\ call'[q].bulk = FALSE => Off(call[q].from)' + call'[q].block <= MpCapacity
    BY <1>3, <1>9, <2>2 DEF Has, Off, MpSafe, ClaimInv
  <2>3. ASSUME NEW q \in Producers, Has(q, {"fill"})'
        PROVE  /\ call'[q].done <= call'[q].block
               /\ call'[q].from + call'[q].block <= MpCapacity + 1
               /\ Off(call[q].from)' + call'[q].block <= Off(inPosMp)'
               /\ \A r \in Producers \ {q} : Has(r, {"fill"})' =>
                    \/ Off(call[q].from)' + call'[q].block <= Off(call[r].from)'
                    \/ Off(call[r].from)' + call'[r].block <= Off(call[q].from)'
    BY <1>3, <1>8, <1>9, <2>3 DEF Has, Off, MpSafe, ClaimInv
  <2> QED
    BY <1>7, <1>8, <2>1, <2>2, <2>3 DEF ClaimInv
<1>12. PublishInv'
  <2>1. \A q \in Producers : ~Has(q, {"publish"})'
    BY <1>9 DEF Has
  <2>2. ASSUME NEW q \in Producers, Has(q, {"count"})'
        PROVE  Off(mpIn)' <= Off(call[q].upTo)' /\ Off(call[q].upTo)' <= Off(inPosMp)'
    BY <1>3, <1>7, <1>8, <1>9, <2>2 DEF Has, Off, MpSafe, PublishInv
  <2> QED
    BY <2>1, <2>2 DEF PublishInv, Has
<1>13. \A q \in Producers : /\ Has(q, {"fill"})' <=> Has(q, {"fill"})
                            /\ Has(q, {"fill"}) => call'[q] = call[q]
  BY <1>1, <1>2, <1>5 DEF Has
<1>14. \A s \in MpSlot : Held(s)' <=> Held(s)
  <2>1. \A s \in MpSlot : Unfilled(s)' <=> Unfilled(s)
    BY <1>13 DEF Unfilled
  <2> QED
    BY <1>3, <2>1 DEF Held, Off
<1>15. HeldInv'
  BY <1>3, <1>6, <1>14 DEF HeldInv, MpSafe
<1>16. InOrderInv'
  BY <1>3, <1>13, <1>14 DEF InOrderInv, MpSafe, Off
<1>17. ReadingInv'
  <2> SUFFICES ASSUME mpConsumer.at = "read" PROVE mpIn' # mpOut
    BY <1>3 DEF ReadingInv, MpSafe
  <2>1. Off(mpIn) # 0 /\ Off(mpIn) \in 0..MpCapacity /\ Off(mpIn') = 0 <=> mpIn' = mpOut
    <3>1. mpIn \in MpSlot /\ mpOut \in MpSlot /\ mpIn' \in MpSlot /\ mpIn # mpOut
      BY <1>1, <1>3 DEF MpSafe, MpType, ReadingInv
    <3> QED
      BY <3>1, GapIs DEF Off
  <2>2. Off(mpIn) <= Off(call[p].upTo)
    BY <1>7
  <2> QED
    BY <1>3, <2>1, <2>2
<1> QED
  BY <1>10, <1>11, <1>12, <1>15, <1>16, <1>17 DEF MpSafe

LEMMA MpPops == ASSUME MpSafe, Mp!Pop PROVE MpSafe'
<1>1. /\ UNCHANGED <<mpBuffer, mpIn, mpOut, inPosMp, concurrent, call, pushed, mpGiven>>
      /\ mpIn # mpOut /\ mpConsumer' = [at |-> "read", item |-> mpBuffer[mpOut]]
  BY DEF Mp!Pop, Mp!producersRest
<1>2. MpType'
  BY <1>1 DEF MpSafe, MpType, Inside
<1>3. ClaimInv' /\ PublishInv'
  BY <1>1 DEF MpSafe, ClaimInv, PublishInv, Has, Off
<1>4. (\A s \in MpSlot : Held(s)' <=> Held(s)) /\ \A p \in Producers : Stored(p)' = Stored(p)
  BY <1>1 DEF Held, Unfilled, Stored, Has, Off
<1>5. HeldInv' /\ InOrderInv'
  BY <1>1, <1>4 DEF MpSafe, HeldInv, InOrderInv, Has, Off
<1>6. ReadingInv'
  BY <1>1 DEF ReadingInv
<1> QED
  BY <1>2, <1>3, <1>5, <1>6 DEF MpSafe

\* The slots a filling call has still to fill lie behind what is published.
LEMMA FilledSlots ==
    ASSUME MpSafe, NEW q \in Producers, Has(q, {"fill"}), NEW s \in MpSlot,
           call[q].from + call[q].done <= s, s < call[q].from + call[q].block
    PROVE  /\ Off(s) = Off(call[q].from) + (s - call[q].from)
           /\ Off(call[q].from) \in Nat /\ call[q].from \in MpSlot
           /\ call[q].done \in Nat /\ call[q].block \in Nat
           /\ Off(mpIn) <= Off(s) /\ Off(s) < Off(inPosMp)
<1>1. /\ call[q].from \in MpSlot /\ call[q].block \in Nat /\ call[q].done \in Nat
  BY CallIs DEF Has, MpSafe, MpType
<1>2. /\ call[q].from + call[q].block <= MpCapacity + 1
      /\ Off(call[q].from) + call[q].block <= Off(inPosMp) /\ Off(mpIn) <= Off(call[q].from)
  BY DEF Has, MpSafe, ClaimInv
<1>3. /\ Off(inPosMp) \in 0..MpCapacity /\ Off(mpIn) \in 0..MpCapacity /\ Off(call[q].from) \in 0..MpCapacity
      /\ mpOut \in MpSlot /\ s \in Int /\ call[q].from \in Int
  <2>1. mpOut \in MpSlot /\ mpIn \in MpSlot /\ inPosMp \in MpSlot
    BY DEF MpSafe, MpType
  <2>2. \A x \in MpSlot : Off(x) \in 0..MpCapacity /\ x \in Int
    BY <2>1, GapIs DEF Off, MpSlot
  <2> QED
    BY <1>1, <2>1, <2>2
<1>4. call[q].from <= s
  BY <1>1, <1>3
<1>5. Gap(mpOut, call[q].from) + call[q].block <= MpCapacity
  BY <1>1, <1>2, <1>3, MpConstants DEF Off
<1>6. Gap(mpOut, s) = Gap(mpOut, call[q].from) + (s - call[q].from)
  BY <1>1, <1>2, <1>3, <1>4, <1>5, GapForward
<1>7. Off(s) = Off(call[q].from) + (s - call[q].from)
  BY <1>6 DEF Off
<1> DEFINE f == Off(call[q].from)
           g == call[q].from
           b == call[q].block
<1>8. /\ f \in Nat /\ g \in Int /\ b \in Nat /\ s \in Int /\ Off(mpIn) \in Int /\ Off(inPosMp) \in Int
      /\ Off(s) = f + (s - g) /\ g <= s /\ s < g + b /\ Off(mpIn) <= f /\ f + b <= Off(inPosMp)
  BY <1>1, <1>2, <1>3, <1>4, <1>7, MpConstants
<1>9. Off(mpIn) <= Off(s) /\ Off(s) < Off(inPosMp)
  <2> HIDE DEF f, g, b
  <2> QED
    BY <1>8
<1> QED
  BY <1>1, <1>7, <1>8, <1>9

\* What the consumer is about to release is an item, its producer's next.
LEMMA ReadIsNext ==
    ASSUME MpSafe, mpConsumer.at = "read"
    PROVE  \E p \in Producers : /\ mpConsumer.item = <<p, mpGiven[p] + 1>>
                                /\ mpBuffer[mpOut] = <<p, mpGiven[p] + 1>>
                                /\ mpGiven[p] + 1 <= Stored(p) /\ mpGiven[p] \in Nat
                                /\ Held(mpOut)
                                /\ \A s \in MpSlot \ {mpOut} : Held(s) /\ mpBuffer[s][1] = p
                                     => mpGiven[p] + 1 < mpBuffer[s][2]
<1>1. mpIn \in MpSlot /\ mpOut \in MpSlot /\ inPosMp \in MpSlot /\ mpIn # mpOut
  BY DEF MpSafe, MpType, ReadingInv
<1>2. /\ Off(mpOut) = 0 /\ Off(mpIn) \in 1..MpCapacity /\ Off(mpIn) <= Off(inPosMp)
      /\ Off(inPosMp) \in 0..MpCapacity
  <2>1. Off(mpOut) = 0 /\ Off(mpIn) \in 0..MpCapacity /\ Off(mpIn) # 0 /\ Off(inPosMp) \in 0..MpCapacity
    BY <1>1, GapIs DEF Off
  <2> QED
    BY <2>1, MpConstants DEF MpSafe, ClaimInv
<1>3. ~Unfilled(mpOut)
  BY <1>1, <1>2, FilledSlots DEF Unfilled
<1>4. Held(mpOut)
  BY <1>1, <1>2, <1>3, MpConstants DEF Held
<1>5. PICK p \in Producers : \E k \in mpGiven[p] + 1..Stored(p) : mpBuffer[mpOut] = <<p, k>>
  BY <1>1, <1>4 DEF HeldInv, MpSafe
<1>6. PICK k \in mpGiven[p] + 1..Stored(p) : mpBuffer[mpOut] = <<p, k>>
  BY <1>5
<1>7. mpGiven[p] \in Nat /\ Stored(p) \in Int
  <2>1. call[p] \in MpCalls /\ pushed[p] \in Nat /\ mpGiven[p] \in Nat
    BY DEF MpSafe, MpType
  <2>2. Has(p, {"fill"}) => call[p].done \in Nat
    BY <2>1, CallIs DEF Has
  <2>3. Has(p, {"leave", "count", "publish", "out"}) => call[p].got \in Nat
    BY <2>1, CallIs DEF Has
  <2> QED
    BY <2>1, <2>2, <2>3 DEF Stored
<1>8. \A s \in MpSlot \ {mpOut} : Held(s) /\ mpBuffer[s][1] = p => k < mpBuffer[s][2]
  <2> SUFFICES ASSUME NEW s \in MpSlot \ {mpOut}, Held(s), mpBuffer[s][1] = p
               PROVE  k < mpBuffer[s][2]
    OBVIOUS
  <2>1. Off(s) \in 0..MpCapacity /\ Off(s) # 0
    BY <1>1, GapIs DEF Off
  <2>2. mpBuffer[mpOut][1] = p /\ mpBuffer[mpOut][2] = k
    BY <1>6
  <2>3. Off(mpOut) < Off(s)
    BY <1>2, <2>1, MpConstants
  <2> QED
    BY <1>1, <1>4, <2>2, <2>3 DEF MpSafe, InOrderInv
<1>9. k = mpGiven[p] + 1
  <2> SUFFICES ASSUME k # mpGiven[p] + 1 PROVE FALSE
    OBVIOUS
  <2>1. mpGiven[p] + 1 \in mpGiven[p] + 1..Stored(p) /\ k \in Int /\ mpGiven[p] + 1 < k
    BY <1>7
  <2>2. PICK s \in MpSlot : Held(s) /\ mpBuffer[s] = <<p, mpGiven[p] + 1>>
    BY <2>1 DEF MpSafe, HeldInv
  <2>3. s # mpOut /\ mpBuffer[s][1] = p /\ mpBuffer[s][2] = mpGiven[p] + 1
    BY <1>6, <2>1, <2>2
  <2> QED
    BY <1>7, <1>8, <2>1, <2>2, <2>3
<1> QED
  BY <1>4, <1>6, <1>7, <1>8, <1>9 DEF MpSafe, ReadingInv

LEMMA MpReleases ==
    ASSUME MpSafe, Mp!Release
    PROVE  MpSafe'
<1>1. PICK p0 \in Producers :
        /\ mpConsumer.item = <<p0, mpGiven[p0] + 1>> /\ mpBuffer[mpOut] = <<p0, mpGiven[p0] + 1>>
        /\ mpGiven[p0] + 1 <= Stored(p0) /\ mpGiven[p0] \in Nat /\ Held(mpOut)
        /\ \A s \in MpSlot \ {mpOut} : Held(s) /\ mpBuffer[s][1] = p0
             => mpGiven[p0] + 1 < mpBuffer[s][2]
  BY ReadIsNext DEF Mp!Release
<1>2. /\ mpOut' = Mp!Wrap(mpOut + 1) /\ mpConsumer' = [at |-> "idle"]
      /\ UNCHANGED <<mpBuffer, mpIn, inPosMp, concurrent, call, pushed, hurt>>
      /\ mpGiven' = [mpGiven EXCEPT ![p0] = mpGiven[p0] + 1]
  BY <1>1 DEF Mp!Release, Mp!Resting, Mp!producersRest
<1>3. mpOut \in MpSlot /\ mpIn \in MpSlot /\ inPosMp \in MpSlot /\ mpIn # mpOut
  BY DEF MpSafe, MpType, ReadingInv, Mp!Release
<1>4. \A s \in MpSlot : Off(s) \in 0..MpCapacity /\ (Off(s) = 0 <=> s = mpOut)
  BY <1>3, GapIs DEF Off
<1>5. mpOut' \in MpSlot
  BY <1>2, <1>3, GapMoves
<1>6. \A s \in MpSlot \ {mpOut} : Gap(mpOut', s) = Off(s) - 1
  BY <1>2, <1>3, GapMoves DEF Off
<1>7. Gap(mpOut', mpOut) = MpCapacity
  BY <1>2, <1>3, GapMoves
<1>8. Off(mpIn) <= Off(inPosMp) /\ inPosMp # mpOut
  <2>1. Off(mpIn) <= Off(inPosMp)
    BY DEF MpSafe, ClaimInv
  <2> QED
    BY <1>3, <1>4, <2>1, MpConstants
<1>9. Off(mpIn)' = Off(mpIn) - 1 /\ Off(inPosMp)' = Off(inPosMp) - 1
  BY <1>2, <1>3, <1>6, <1>8 DEF Off
<1>10. \A x \in MpSlot : Off(mpIn) <= Off(x) => Gap(mpOut', x) = Off(x) - 1
  BY <1>3, <1>4, <1>6, MpConstants
<1>11. ASSUME NEW q \in Producers
       PROVE  /\ Has(q, {"test", "claim", "fill"}) => Off(call[q].from)' = Off(call[q].from) - 1
              /\ Has(q, {"count", "publish"}) => Off(call[q].upTo)' = Off(call[q].upTo) - 1
              /\ Has(q, {"test", "claim", "fill"}) => Off(call[q].from) \in Nat
              /\ Has(q, {"count", "publish"}) => Off(call[q].upTo) \in Nat
              /\ Has(q, {"claim", "fill"}) => call[q].block \in Nat
              /\ Has(q, {"fill"}) => call[q].done \in Nat
  <2>1. call[q] \in MpCalls
    BY DEF MpSafe, MpType
  <2>2. /\ Has(q, {"test", "claim", "fill"}) => call[q].from \in MpSlot
        /\ Has(q, {"count", "publish"}) => call[q].upTo \in MpSlot
        /\ Has(q, {"claim", "fill"}) => call[q].block \in Nat
        /\ Has(q, {"fill"}) => call[q].done \in Nat
    BY <2>1, CallIs DEF Has
  <2>3. /\ Has(q, {"test", "claim", "fill"}) => Off(mpIn) <= Off(call[q].from)
        /\ Has(q, {"count", "publish"}) => Off(mpIn) <= Off(call[q].upTo)
    BY DEF MpSafe, ClaimInv, PublishInv
  <2>4. /\ Has(q, {"test", "claim", "fill"}) => Gap(mpOut', call[q].from) = Off(call[q].from) - 1
        /\ Has(q, {"count", "publish"}) => Gap(mpOut', call[q].upTo) = Off(call[q].upTo) - 1
    BY <1>10, <2>2, <2>3
  <2>5. Off(call[q].from)' = Gap(mpOut', call[q].from) /\ Off(call[q].upTo)' = Gap(mpOut', call[q].upTo)
    BY <1>2 DEF Off
  <2> QED
    BY <1>4, <2>2, <2>4, <2>5, MpConstants
<1>12. MpType'
  <2>1. mpGiven' \in [Producers -> Nat]
    BY <1>1, <1>2 DEF MpSafe, MpType
  <2> QED
    BY <1>2, <1>5, <2>1 DEF MpSafe, MpType, Inside
<1>13. Off(mpIn) \in Nat /\ Off(inPosMp) \in Nat
  BY <1>3, <1>4, MpConstants
<1>14. ClaimInv'
  <2>1. ASSUME NEW q \in Producers, Has(q, {"claim"}), call[q].bulk = FALSE
        PROVE  Off(call[q].from)' + call[q].block <= MpCapacity
    <3>1. Off(call[q].from) + call[q].block <= MpCapacity
      BY <2>1 DEF MpSafe, ClaimInv
    <3>2. /\ Off(call[q].from)' = Off(call[q].from) - 1
          /\ Off(call[q].from) \in Nat /\ call[q].block \in Nat
      BY <1>11, <2>1 DEF Has
    <3> QED
      BY <3>1, <3>2, MpConstants
  <2>2. ASSUME NEW q \in Producers, Has(q, {"test", "claim", "fill"})
        PROVE  Off(mpIn)' <= Off(call[q].from)'
    <3>1. Off(mpIn) <= Off(call[q].from)
      BY <2>2 DEF MpSafe, ClaimInv
    <3>2. Off(call[q].from)' = Off(call[q].from) - 1 /\ Off(call[q].from) \in Nat
      BY <1>11, <2>2
    <3> QED
      BY <1>9, <1>13, <3>1, <3>2
  <2>3. ASSUME NEW q \in Producers, Has(q, {"fill"})
        PROVE  /\ call[q].done <= call[q].block
               /\ call[q].from + call[q].block <= MpCapacity + 1
               /\ Off(call[q].from)' + call[q].block <= Off(inPosMp)'
    <3>1. /\ call[q].done <= call[q].block /\ call[q].from + call[q].block <= MpCapacity + 1
          /\ Off(call[q].from) + call[q].block <= Off(inPosMp)
      BY <2>3 DEF MpSafe, ClaimInv
    <3>2. Off(call[q].from)' = Off(call[q].from) - 1 /\ Off(call[q].from) \in Nat /\ call[q].block \in Nat
      BY <1>11, <2>3 DEF Has
    <3> QED
      BY <1>9, <1>13, <3>1, <3>2
  <2>4. ASSUME NEW q \in Producers, NEW r \in Producers \ {q}, Has(q, {"fill"}), Has(r, {"fill"})
        PROVE  \/ Off(call[q].from)' + call[q].block <= Off(call[r].from)'
               \/ Off(call[r].from)' + call[r].block <= Off(call[q].from)'
    <3>1. \/ Off(call[q].from) + call[q].block <= Off(call[r].from)
          \/ Off(call[r].from) + call[r].block <= Off(call[q].from)
      BY <2>4 DEF MpSafe, ClaimInv
    <3>2. Off(call[q].from)' = Off(call[q].from) - 1 /\ Off(call[q].from) \in Nat /\ call[q].block \in Nat
      BY <1>11, <2>4 DEF Has
    <3>3. Off(call[r].from)' = Off(call[r].from) - 1 /\ Off(call[r].from) \in Nat /\ call[r].block \in Nat
      BY <1>11, <2>4 DEF Has
    <3> QED
      BY <3>1, <3>2, <3>3
  <2>5. /\ call' = call
        /\ \A q \in Producers : Has(q, {"claim"}) =>
             /\ call[q].from + call[q].block <= MpCapacity + 1
             /\ call[q].bulk = TRUE => /\ Gap(call[q].out, call[q].from) + call[q].block <= MpCapacity
                                       /\ call[q].block <= call[q].size
    BY <1>2 DEF MpSafe, ClaimInv
  <2>6. \A q \in Producers : \A x : Has(q, x)' <=> Has(q, x')
    BY <1>2 DEF Has
  <2>7. Off(mpIn)' <= Off(inPosMp)'
    BY <1>8, <1>9, <1>13
  <2> QED
    BY <2>1, <2>2, <2>3, <2>4, <2>5, <2>6, <2>7 DEF ClaimInv
<1>15. PublishInv'
  <2>1. ASSUME NEW q \in Producers, Has(q, {"count", "publish"})
        PROVE  Off(mpIn)' <= Off(call[q].upTo)' /\ Off(call[q].upTo)' <= Off(inPosMp)'
    <3>1. Off(mpIn) <= Off(call[q].upTo) /\ Off(call[q].upTo) <= Off(inPosMp)
      BY <2>1 DEF MpSafe, PublishInv
    <3>2. Off(call[q].upTo)' = Off(call[q].upTo) - 1 /\ Off(call[q].upTo) \in Nat
      BY <1>11, <2>1
    <3> QED
      BY <1>9, <1>13, <3>1, <3>2
  <2>2. ASSUME NEW q \in Producers, Has(q, {"publish"}), NEW r \in Producers, Has(r, {"count"}), r # q
        PROVE  Off(call[q].upTo)' <= Off(call[r].upTo)'
    <3>1. Off(call[q].upTo) <= Off(call[r].upTo)
      BY <2>2 DEF MpSafe, PublishInv
    <3>2. /\ Off(call[q].upTo)' = Off(call[q].upTo) - 1 /\ Off(call[q].upTo) \in Nat
          /\ Off(call[r].upTo)' = Off(call[r].upTo) - 1 /\ Off(call[r].upTo) \in Nat
      BY <1>11, <2>2 DEF Has
    <3> QED
      BY <3>1, <3>2
  <2>3. ASSUME NEW q \in Producers, Has(q, {"publish"}), NEW r \in Producers,
               Has(r, {"test", "claim", "fill"})
        PROVE  Off(call[q].upTo)' <= Off(call[r].from)'
    <3>1. Off(call[q].upTo) <= Off(call[r].from)
      BY <2>3 DEF MpSafe, PublishInv, Has
    <3>2. /\ Off(call[q].upTo)' = Off(call[q].upTo) - 1 /\ Off(call[q].upTo) \in Nat
          /\ Off(call[r].from)' = Off(call[r].from) - 1 /\ Off(call[r].from) \in Nat
      BY <1>11, <2>3 DEF Has
    <3> QED
      BY <3>1, <3>2
  <2>4. \A q \in Producers, r \in Producers : Has(q, {"publish"}) /\ Has(r, {"publish"}) => q = r
    BY DEF MpSafe, PublishInv
  <2>5. /\ \A q \in Producers : \A x : Has(q, x)' <=> Has(q, x')
        /\ \A q \in Producers : /\ Has(q, {"test", "claim"}) => Has(q, {"test", "claim", "fill"})
                                /\ Has(q, {"fill"}) => Has(q, {"test", "claim", "fill"})
    BY <1>2 DEF Has
  <2> QED
    BY <1>2, <2>1, <2>2, <2>3, <2>4, <2>5 DEF PublishInv
<1>16. \A s \in MpSlot : Held(s)' <=> Held(s) /\ s # mpOut
  <2> TAKE s \in MpSlot
  <2>1. Unfilled(s)' <=> Unfilled(s)
    BY <1>2 DEF Unfilled, Has
  <2>2. Off(s)' = Gap(mpOut', s) /\ (Held(s)' <=> Off(s)' < Off(inPosMp)' /\ ~Unfilled(s)')
    BY DEF Off, Held
  <2>3. CASE s = mpOut
    <3>1. Off(s)' = MpCapacity /\ Off(inPosMp) \in 0..MpCapacity
      BY <1>3, <1>4, <1>7, <2>2, <2>3
    <3> QED
      BY <1>9, <2>2, <2>3, <3>1, MpConstants
  <2>4. CASE s # mpOut
    <3>1. Off(s)' = Off(s) - 1 /\ Off(s) \in 0..MpCapacity /\ Off(inPosMp) \in 0..MpCapacity
      BY <1>3, <1>4, <1>6, <2>2, <2>4
    <3>2. Off(s)' < Off(inPosMp)' <=> Off(s) < Off(inPosMp)
      BY <1>9, <3>1, MpConstants
    <3> QED
      BY <2>1, <2>2, <2>4, <3>2 DEF Held
  <2> QED
    BY <2>3, <2>4
<1>17. /\ \A q \in Producers : Stored(q)' = Stored(q) /\ mpGiven[q] \in Nat
       /\ mpGiven'[p0] = mpGiven[p0] + 1 /\ \A q \in Producers \ {p0} : mpGiven'[q] = mpGiven[q]
  BY <1>1, <1>2 DEF Stored, Has, MpSafe, MpType
<1>18. HeldInv'
  <2>1. \A q \in Producers : mpGiven'[q] <= Stored(q)'
    BY <1>1, <1>17 DEF MpSafe, HeldInv
  <2>2. ASSUME NEW s \in MpSlot, Held(s)'
        PROVE  \E q \in Producers : \E k \in mpGiven'[q] + 1..Stored(q)' : mpBuffer'[s] = <<q, k>>
    <3>1. Held(s) /\ s # mpOut
      BY <1>16, <2>2
    <3>2. PICK q \in Producers : \E k \in mpGiven[q] + 1..Stored(q) : mpBuffer[s] = <<q, k>>
      BY <3>1 DEF MpSafe, HeldInv
    <3>3. PICK k \in mpGiven[q] + 1..Stored(q) : mpBuffer[s] = <<q, k>>
      BY <3>2
    <3>4. q = p0 => mpGiven[p0] + 1 < k
      BY <1>1, <3>1, <3>3
    <3>5. k \in mpGiven'[q] + 1..Stored(q)'
      <4>1. CASE q = p0
        BY <1>17, <3>3, <3>4, <4>1
      <4>2. CASE q # p0
        BY <1>17, <3>3, <4>2
      <4> QED
        BY <4>1, <4>2
    <3> QED
      BY <1>2, <3>3, <3>5
  <2>3. ASSUME NEW q \in Producers, NEW k \in mpGiven'[q] + 1..Stored(q)'
        PROVE  \E s \in MpSlot : Held(s)' /\ mpBuffer'[s] = <<q, k>>
    <3>1. k \in mpGiven[q] + 1..Stored(q) /\ (q = p0 => k # mpGiven[p0] + 1)
      <4>1. CASE q = p0
        BY <1>17, <2>3, <4>1
      <4>2. CASE q # p0
        BY <1>17, <2>3, <4>2
      <4> QED
        BY <4>1, <4>2
    <3>2. PICK s \in MpSlot : Held(s) /\ mpBuffer[s] = <<q, k>>
      BY <3>1 DEF MpSafe, HeldInv
    <3>3. s # mpOut
      BY <1>1, <3>1, <3>2
    <3> QED
      BY <1>2, <1>16, <3>2, <3>3
  <2> QED
    BY <2>1, <2>2, <2>3 DEF HeldInv
<1>19. InOrderInv'
  <2>1. ASSUME NEW s \in MpSlot, NEW t \in MpSlot, Held(s)', Held(t)', Off(s)' < Off(t)',
               mpBuffer'[s][1] = mpBuffer'[t][1]
        PROVE  mpBuffer'[s][2] < mpBuffer'[t][2]
    <3>1. Held(s) /\ Held(t) /\ s # mpOut /\ t # mpOut
      BY <1>16, <2>1
    <3>2. Off(s)' = Off(s) - 1 /\ Off(t)' = Off(t) - 1
      BY <1>6, <3>1 DEF Off
    <3>3. Off(s) < Off(t)
      BY <1>4, <2>1, <3>2, MpConstants
    <3> QED
      BY <1>2, <2>1, <3>1, <3>3 DEF MpSafe, InOrderInv
  <2>2. ASSUME NEW q \in Producers, NEW s \in MpSlot, Has(q, {"fill"})', Held(s)', mpBuffer'[s][1] = q
        PROVE  Off(s)' < Off(call[q].from)' + call'[q].done
    <3>1. Held(s) /\ s # mpOut /\ Has(q, {"fill"})
      BY <1>2, <1>16, <2>2 DEF Has
    <3>2. Off(s)' = Off(s) - 1 /\ Off(s) \in 0..MpCapacity
      BY <1>4, <1>6, <3>1 DEF Off
    <3>3. Off(s) < Off(call[q].from) + call[q].done
      BY <1>2, <2>2, <3>1 DEF MpSafe, InOrderInv
    <3>4. Off(call[q].from)' = Off(call[q].from) - 1 /\ Off(call[q].from) \in Nat /\ call[q].done \in Nat
      BY <1>11, <3>1 DEF Has
    <3> QED
      BY <1>2, <3>2, <3>3, <3>4, MpConstants
  <2> QED
    BY <2>1, <2>2 DEF InOrderInv
<1>20. ReadingInv'
  BY <1>2 DEF ReadingInv
<1> QED
  BY <1>12, <1>14, <1>15, <1>18, <1>19, <1>20 DEF MpSafe

LEMMA StoredIs ==
    ASSUME MpSafe, NEW p \in Producers
    PROVE  /\ pushed[p] \in Nat /\ mpGiven[p] \in Nat /\ Stored(p) \in Nat
           /\ Has(p, {"fill"}) => call[p].done \in Nat /\ Stored(p) = pushed[p] + call[p].done
<1>1. call[p] \in MpCalls /\ pushed[p] \in Nat /\ mpGiven[p] \in Nat
  BY DEF MpSafe, MpType
<1>2. Has(p, {"fill"}) => call[p].done \in Nat
  BY <1>1, CallIs DEF Has
<1>3. Has(p, {"leave", "count", "publish", "out"}) => call[p].got \in Nat
  BY <1>1, CallIs DEF Has
<1> QED
  BY <1>1, <1>2, <1>3 DEF Stored

LEMMA MpFills ==
    ASSUME MpSafe, NEW p \in Producers, Mp!Fill(p), call[p].done < call[p].block
    PROVE  MpSafe'
<1> DEFINE item == <<p, pushed[p] + call[p].done + 1>>
<1>1. /\ call[p] \in [at : {"fill"}, from : MpSlot, block : Nat \ {0}, spill : {0}, done : Nat]
      /\ call[p].block \in Nat /\ call[p].done \in Nat /\ Has(p, {"fill"}) /\ call[p].at = "fill"
      /\ call[p].block + call[p].spill = call[p].block /\ call[p].from \in MpSlot
  BY FillingIs DEF Has
<1>2. PICK slot : slot = call[p].from + call[p].done
  OBVIOUS
<1>3. /\ mpBuffer' = [mpBuffer EXCEPT ![slot] = item]
      /\ call' = [call EXCEPT ![p] = [call[p] EXCEPT !.done = @ + 1]]
      /\ UNCHANGED <<mpIn, mpOut, inPosMp, mpConsumer, mpGiven, pushed, concurrent>>
  BY <1>2, <1>1 DEF Mp!Fill, Mp!Goto, Mp!consumerRests
<1>4. /\ call' \in [Producers -> MpCalls] /\ \A q \in Producers \ {p} : call'[q] = call[q]
      /\ call'[p].at = "fill" /\ call'[p].from = call[p].from /\ call'[p].block = call[p].block
      /\ call'[p].done = call[p].done + 1
  <2>1. [call[p] EXCEPT !.done = @ + 1]
          \in [at : {"fill"}, from : MpSlot, block : Nat \ {0}, spill : {0}, done : Nat]
    BY <1>1
  <2>2. [call[p] EXCEPT !.done = @ + 1] \in MpCalls
    BY <2>1 DEF MpCalls
  <2>3. call \in [Producers -> MpCalls]
    BY DEF MpSafe, MpType
  <2>4. call'[p] = [call[p] EXCEPT !.done = @ + 1] /\ \A q \in Producers \ {p} : call'[q] = call[q]
    BY <1>3, <2>3
  <2> QED
    BY <1>1, <1>3, <2>2, <2>3, <2>4
<1>5. slot \in MpSlot /\ mpOut \in MpSlot /\ mpIn \in MpSlot
  <2>1. /\ call[p].from + call[p].block <= MpCapacity + 1 /\ call[p].from \in Nat
    BY <1>1 DEF MpSafe, ClaimInv, MpSlot
  <2>2. mpOut \in MpSlot /\ mpIn \in MpSlot
    BY DEF MpSafe, MpType
  <2> QED
    BY <1>2, <1>1, <2>1, <2>2, MpConstants DEF MpSlot
<1>6. /\ Off(slot) = Off(call[p].from) + call[p].done /\ Off(call[p].from) \in Nat
      /\ Off(mpIn) <= Off(slot) /\ Off(slot) < Off(inPosMp)
  <2>1. call[p].from \in Int
    BY <1>1, MpConstants DEF MpSlot
  <2>2. /\ call[p].from + call[p].done <= slot /\ slot < call[p].from + call[p].block
        /\ slot - call[p].from = call[p].done
    BY <1>2, <1>1, <2>1
  <2>3. /\ Off(slot) = Off(call[p].from) + (slot - call[p].from) /\ Off(call[p].from) \in Nat
        /\ Off(mpIn) <= Off(slot) /\ Off(slot) < Off(inPosMp)
    BY <1>1, <1>5, <2>2, FilledSlots
  <2> QED
    BY <2>2, <2>3
<1>7. \A s \in MpSlot : Off(s) \in Nat /\ (Off(s) = 0 <=> s = mpOut)
  BY <1>5, GapIs, MpConstants DEF Off
<1>8. mpBuffer \in [MpSlot -> MpItem] /\ pushed[p] \in Nat /\ item \in MpItem
  BY <1>1 DEF MpSafe, MpType, MpItem
<1>9. /\ mpBuffer' \in [MpSlot -> MpItem] /\ mpBuffer'[slot] = item
      /\ \A s \in MpSlot \ {slot} : mpBuffer'[s] = mpBuffer[s]
  BY <1>3, <1>5, <1>8
<1>10. \A q \in Producers :
        /\ \A x : Has(q, x)' <=> Has(q, x')
        /\ call'[q].from = call[q].from /\ call'[q].block = call[q].block
        /\ ~Has(q, {"fill"}) => call'[q] = call[q]
        /\ q # p => call'[q] = call[q]
  BY <1>1, <1>4 DEF Has
<1>11. MpType'
  <2>1. Inside' = Inside
    BY <1>1, <1>4 DEF Inside
  <2> QED
    BY <1>3, <1>4, <1>9, <2>1 DEF MpSafe, MpType
<1>12. \A s \in MpSlot : Off(s)' = Off(s)
  BY <1>3 DEF Off
<1>13. \A q \in Producers : Off(call[q].from)' = Off(call[q].from)
  BY <1>3, <1>10 DEF Off
<1>14. Off(mpIn)' = Off(mpIn) /\ Off(inPosMp)' = Off(inPosMp)
  BY <1>3 DEF Off
<1>15. ClaimInv'
  <2>1. ASSUME NEW q \in Producers, Has(q, {"claim"})'
        PROVE  /\ call'[q].from + call'[q].block <= MpCapacity + 1
               /\ call'[q].bulk = TRUE =>
                    /\ Gap(call'[q].out, call'[q].from) + call'[q].block <= MpCapacity
                    /\ call'[q].block <= call'[q].size
               /\ call'[q].bulk = FALSE => Off(call[q].from)' + call'[q].block <= MpCapacity
    <3>1. Has(q, {"claim"}) /\ call'[q] = call[q]
      BY <1>10, <2>1 DEF Has
    <3> QED
      BY <1>13, <3>1 DEF MpSafe, ClaimInv
  <2>2. ASSUME NEW q \in Producers, Has(q, {"fill"})'
        PROVE  call'[q].done <= call'[q].block
    <3>1. Has(q, {"fill"})
      BY <1>10, <2>2
    <3>2. CASE q = p
      BY <1>1, <1>4, <3>2
    <3>3. CASE q # p
      BY <1>10, <3>1, <3>3 DEF MpSafe, ClaimInv
    <3> QED
      BY <3>2, <3>3
  <2> QED
    BY <1>10, <1>13, <1>14, <2>1, <2>2 DEF MpSafe, ClaimInv
<1>16. PublishInv'
  <2>1. \A q \in Producers : Has(q, {"count", "publish"})' =>
          Has(q, {"count", "publish"}) /\ call'[q] = call[q] /\ Off(call[q].upTo)' = Off(call[q].upTo)
    BY <1>10, <1>3 DEF Has, Off
  <2>2. \A q \in Producers : /\ Has(q, {"count"})' => Has(q, {"count", "publish"})'
                             /\ Has(q, {"publish"})' => Has(q, {"count", "publish"})'
    BY DEF Has
  <2> QED
    BY <1>10, <1>13, <1>14, <2>1, <2>2 DEF MpSafe, PublishInv
<1>17. ~Held(slot) /\ Held(slot)'
  <2>1. Unfilled(slot)
    BY <1>2, <1>1, <1>5, MpConstants DEF Unfilled, MpSlot
  <2>2. ~Unfilled(slot)'
    <3> SUFFICES ASSUME NEW q \in Producers, Has(q, {"fill"})',
                        call'[q].from + call'[q].done <= slot, slot < call'[q].from + call'[q].block
                 PROVE  FALSE
      BY DEF Unfilled
    <3>1. CASE q = p
      BY <1>2, <1>1, <1>4, <3>1, MpConstants DEF MpSlot
    <3>2. CASE q # p
      <4>1. /\ Has(q, {"fill"}) /\ call'[q] = call[q]
        BY <1>10, <3>2
      <4>2. /\ Off(slot) = Off(call[q].from) + (slot - call[q].from) /\ Off(call[q].from) \in Nat
            /\ call[q].done \in Nat /\ call[q].block \in Nat /\ call[q].from \in MpSlot
        BY <1>5, <4>1, FilledSlots
      <4>3. \/ Off(call[p].from) + call[p].block <= Off(call[q].from)
            \/ Off(call[q].from) + call[q].block <= Off(call[p].from)
        BY <1>1, <3>2, <4>1 DEF MpSafe, ClaimInv
      <4>4. call[q].from + call[q].done <= slot /\ slot < call[q].from + call[q].block
        BY <4>1
      <4>5. /\ call[q].from \in Int /\ slot \in Int
        BY <1>5, <4>2, MpConstants DEF MpSlot
      <4> QED
        BY <1>1, <1>6, <4>2, <4>3, <4>4, <4>5
    <3> QED
      BY <3>1, <3>2
  <2>3. Off(slot)' = Off(slot)
    BY <1>3 DEF Off
  <2>4. Held(slot)' <=> Off(slot) < Off(inPosMp) /\ ~Unfilled(slot)'
    BY <1>5, <1>14, <2>3 DEF Held
  <2> QED
    BY <1>6, <2>1, <2>2, <2>4 DEF Held
<1>18. \A s \in MpSlot \ {slot} : Held(s)' <=> Held(s)
  <2> TAKE s \in MpSlot \ {slot}
  <2>1. ASSUME NEW q \in Producers
        PROVE  (Has(q, {"fill"})' /\ call'[q].from + call'[q].done <= s /\ s < call'[q].from + call'[q].block)
           <=> (Has(q, {"fill"}) /\ call[q].from + call[q].done <= s /\ s < call[q].from + call[q].block)
    <3>1. CASE q = p
      <4>1. s \in Int /\ s # slot /\ call[p].from \in Int
        BY <1>1, MpConstants DEF MpSlot
      <4> QED
        BY <1>2, <1>1, <1>4, <1>10, <3>1, <4>1
    <3>2. CASE q # p
      BY <1>10, <3>2
    <3> QED
      BY <3>1, <3>2
  <2>2. Unfilled(s)' <=> Unfilled(s)
    BY <2>1 DEF Unfilled
  <2> QED
    BY <1>12, <1>14, <2>2 DEF Held
<1>19. /\ Stored(p) = pushed[p] + call[p].done /\ Stored(p) \in Nat /\ Stored(p)' = Stored(p) + 1
       /\ item = <<p, Stored(p) + 1>>
       /\ \A q \in Producers \ {p} : Stored(q)' = Stored(q)
  <2>1. Stored(p) = pushed[p] + call[p].done /\ Stored(p) \in Nat
    BY <1>1, StoredIs
  <2>2. Stored(p)' = pushed[p] + (call[p].done + 1)
    BY <1>3, <1>4 DEF Stored, Has
  <2>3. \A q \in Producers \ {p} : Stored(q)' = Stored(q)
    BY <1>3, <1>10 DEF Stored
  <2> QED
    BY <1>1, <1>8, <2>1, <2>2, <2>3
<1>20. \A s \in MpSlot : Held(s) => s # slot /\ Held(s)' /\ mpBuffer'[s] = mpBuffer[s]
  BY <1>9, <1>17, <1>18
<1>21. ASSUME NEW s \in MpSlot, Held(s), mpBuffer[s][1] = p
       PROVE  Off(s) < Off(slot) /\ mpBuffer[s][2] \in Int /\ mpBuffer[s][2] <= Stored(p)
  <2>1. Off(s) < Off(slot)
    BY <1>1, <1>6, <1>21 DEF MpSafe, InOrderInv
  <2>2. PICK q \in Producers : \E k \in mpGiven[q] + 1..Stored(q) : mpBuffer[s] = <<q, k>>
    BY <1>21 DEF MpSafe, HeldInv
  <2>3. PICK k \in mpGiven[q] + 1..Stored(q) : mpBuffer[s] = <<q, k>>
    BY <2>2
  <2>4. q = p /\ mpGiven[p] \in Nat /\ Stored(p) \in Nat
    BY <1>21, <2>3, StoredIs
  <2> QED
    BY <2>1, <2>3, <2>4
<1>22. HeldInv'
  <2>1. \A q \in Producers : mpGiven'[q] <= Stored(q)'
    <3>1. \A q \in Producers : mpGiven[q] <= Stored(q) /\ mpGiven[q] \in Nat /\ Stored(q) \in Nat
      BY StoredIs DEF MpSafe, HeldInv
    <3> QED
      BY <1>3, <1>19, <3>1
  <2>2. ASSUME NEW s \in MpSlot, Held(s)'
        PROVE  \E q \in Producers : \E k \in mpGiven'[q] + 1..Stored(q)' : mpBuffer'[s] = <<q, k>>
    <3>1. CASE s = slot
      <4>1. mpGiven[p] \in Nat /\ mpGiven[p] <= Stored(p)
        BY StoredIs DEF MpSafe, HeldInv
      <4>2. Stored(p) + 1 \in mpGiven'[p] + 1..Stored(p)'
        BY <1>3, <1>19, <4>1
      <4> QED
        BY <1>9, <1>19, <3>1, <4>2
    <3>2. CASE s # slot
      <4>1. Held(s)
        BY <1>18, <2>2, <3>2
      <4>2. PICK q \in Producers : \E k \in mpGiven[q] + 1..Stored(q) : mpBuffer[s] = <<q, k>>
        BY <4>1 DEF MpSafe, HeldInv
      <4>3. PICK k \in mpGiven[q] + 1..Stored(q) : mpBuffer[s] = <<q, k>>
        BY <4>2
      <4>4. mpGiven[q] \in Nat /\ Stored(q) \in Nat /\ Stored(q)' \in {Stored(q), Stored(q) + 1}
        BY <1>19, StoredIs
      <4>5. k \in mpGiven'[q] + 1..Stored(q)'
        BY <1>3, <4>3, <4>4
      <4> QED
        BY <1>20, <4>1, <4>3, <4>5
    <3> QED
      BY <3>1, <3>2
  <2>3. ASSUME NEW q \in Producers, NEW k \in mpGiven'[q] + 1..Stored(q)'
        PROVE  \E s \in MpSlot : Held(s)' /\ mpBuffer'[s] = <<q, k>>
    <3>1. CASE q = p /\ k = Stored(p) + 1
      BY <1>5, <1>9, <1>17, <1>19, <3>1
    <3>2. CASE ~(q = p /\ k = Stored(p) + 1)
      <4>1. mpGiven[q] \in Nat /\ Stored(q) \in Nat
        BY StoredIs
      <4>2. k \in mpGiven[q] + 1..Stored(q)
        <5>1. CASE q = p
          BY <1>3, <1>19, <2>3, <3>2, <4>1, <5>1
        <5>2. CASE q # p
          BY <1>3, <1>19, <2>3, <5>2
        <5> QED
          BY <5>1, <5>2
      <4>3. PICK s \in MpSlot : Held(s) /\ mpBuffer[s] = <<q, k>>
        BY <4>2 DEF MpSafe, HeldInv
      <4> QED
        BY <1>20, <4>3
    <3> QED
      BY <3>1, <3>2
  <2> QED
    BY <2>1, <2>2, <2>3 DEF HeldInv
<1>23. InOrderInv'
  <2>1. ASSUME NEW s \in MpSlot, NEW t \in MpSlot, Held(s)', Held(t)', Off(s)' < Off(t)',
               mpBuffer'[s][1] = mpBuffer'[t][1]
        PROVE  mpBuffer'[s][2] < mpBuffer'[t][2]
    <3>1. Off(s) < Off(t) /\ Off(s) \in Nat /\ Off(t) \in Nat
      BY <1>7, <1>12, <2>1
    <3>2. item[1] = p /\ item[2] = Stored(p) + 1
      BY <1>19
    <3>3. CASE s # slot /\ t # slot
      BY <1>9, <1>18, <2>1, <3>1, <3>3 DEF MpSafe, InOrderInv
    <3>4. CASE s = slot
      <4>1. t # slot /\ Held(t) /\ mpBuffer[t][1] = p
        BY <1>9, <1>18, <2>1, <3>1, <3>2, <3>4
      <4> QED
        BY <1>7, <1>21, <3>1, <3>4, <4>1
    <3>5. CASE t = slot /\ s # slot
      <4>1. Held(s) /\ mpBuffer[s][1] = p /\ mpBuffer'[s] = mpBuffer[s] /\ mpBuffer'[t] = item
        BY <1>9, <1>18, <2>1, <3>2, <3>5
      <4> QED
        BY <1>19, <1>21, <3>2, <4>1
    <3> QED
      BY <3>3, <3>4, <3>5
  <2>2. ASSUME NEW q \in Producers, NEW s \in MpSlot, Has(q, {"fill"})', Held(s)', mpBuffer'[s][1] = q
        PROVE  Off(s)' < Off(call[q].from)' + call'[q].done
    <3>1. CASE s = slot
      <4>1. q = p
        BY <1>9, <1>19, <2>2, <3>1
      <4> QED
        BY <1>1, <1>4, <1>6, <1>12, <1>13, <3>1, <4>1
    <3>2. CASE s # slot
      <4>1. Held(s) /\ mpBuffer[s][1] = q /\ Has(q, {"fill"})
        BY <1>9, <1>10, <1>18, <2>2, <3>2
      <4>2. Off(s) < Off(call[q].from) + call[q].done
        BY <4>1 DEF MpSafe, InOrderInv
      <4>3. CASE q = p
        BY <1>1, <1>4, <1>6, <1>7, <1>12, <1>13, <4>2, <4>3
      <4>4. CASE q # p
        BY <1>10, <1>12, <1>13, <4>2, <4>4
      <4> QED
        BY <4>3, <4>4
    <3> QED
      BY <3>1, <3>2
  <2> QED
    BY <2>1, <2>2 DEF InOrderInv
<1>24. ReadingInv'
  <2> SUFFICES ASSUME mpConsumer.at = "read" PROVE mpBuffer'[mpOut] = mpBuffer[mpOut]
    BY <1>3 DEF MpSafe, ReadingInv
  <2>1. mpIn # mpOut
    BY DEF MpSafe, ReadingInv
  <2>2. slot # mpOut
    BY <1>5, <1>6, <1>7, <2>1
  <2> QED
    BY <1>5, <1>9, <2>2
<1> QED
  BY <1>11, <1>15, <1>16, <1>22, <1>23, <1>24 DEF MpSafe

\* A claim that goes through while hurt stays FALSE: m_outPos is the one push_n read.
LEMMA ClaimFits ==
    ASSUME MpSafe, hurt \in BOOLEAN, NEW p \in Producers, Mp!Claim(p), inPosMp = call[p].from,
           hurt' = FALSE
    PROVE  /\ Mp!Spill(call[p]) = 0 /\ hurt = FALSE /\ call[p].at = "claim" /\ Has(p, {"claim"})
           /\ call[p].from \in MpSlot /\ call[p].block \in Nat \ {0}
           /\ call[p].from + call[p].block <= MpCapacity + 1
           /\ Off(call[p].from) + call[p].block <= MpCapacity
<1> DEFINE c == call[p]
<1>1. c \in [at : {"claim"}, size : Nat \ {0}, bulk : BOOLEAN, out : MpSlot, from : MpSlot,
             block : Nat \ {0}] /\ c.at = "claim"
  BY CallIs DEF Mp!Claim, MpSafe, MpType
<1>2. /\ c.size \in Nat /\ c.block \in Nat \ {0} /\ c.from \in MpSlot /\ c.out \in MpSlot
      /\ c.bulk \in BOOLEAN /\ Has(p, {"claim"})
  BY <1>1 DEF Has
<1>3. hurt' = (hurt \/ Mp!Spill(c) > 0 \/ (c.bulk /\ c.out # mpOut))
  BY DEF Mp!Claim
<1>4. hurt = FALSE /\ ~(Mp!Spill(c) > 0) /\ (c.bulk = TRUE => c.out = mpOut)
  BY <1>2, <1>3
<1>5. /\ c.from + c.block <= MpCapacity + 1
      /\ c.bulk = TRUE => Gap(c.out, c.from) + c.block <= MpCapacity /\ c.block <= c.size
      /\ c.bulk = FALSE => Off(c.from) + c.block <= MpCapacity
  BY <1>2 DEF MpSafe, ClaimInv
<1>6. Off(c.from) + c.block <= MpCapacity
  BY <1>2, <1>4, <1>5 DEF Off
<1>7. Mp!Spill(c) \in Nat
  <2> DEFINE rest == c.size - c.block
             room == c.out - Mp!Wrap(c.from + c.block) - 1
  <2>1. CASE c.bulk = FALSE
    <3>1. Mp!Spill(c) = 0
      BY <1>2, <2>1 DEF Mp!Spill
    <3> QED
      BY <3>1
  <2>2. CASE c.bulk = TRUE
    <3>1. rest \in Nat
      BY <1>2, <1>5, <2>2
    <3>2. c.from + c.block \in Nat
      BY <1>2, MpConstants DEF MpSlot
    <3>3. Mp!Wrap(c.from + c.block) \in Int
      BY <1>5, <3>2, MpConstants, MpWrapIs
    <3>4. room \in Int /\ c.out \in Int
      BY <1>2, <3>3, MpConstants DEF MpSlot
    <3>5. Mp!Spill(c) = IF c.out <= 1 THEN 0 ELSE IF room < 0 THEN rest ELSE IF rest < room THEN rest ELSE room
      <4>1. Mp!Spill(c) = CASE ~TRUE \/ c.out <= 1 -> 0
                            [] TRUE /\ c.out > 1 /\ room < 0 -> rest
                            [] OTHER -> Mp!Least(rest, room)
        BY <2>2 DEF Mp!Spill
      <4> HIDE DEF rest, room
      <4> QED
        BY <3>1, <3>4, <4>1 DEF Mp!Least
    <3> HIDE DEF rest, room
    <3> QED
      BY <3>1, <3>4, <3>5
  <2> QED
    BY <1>2, <2>1, <2>2
<1> QED
  BY <1>1, <1>2, <1>4, <1>5, <1>6, <1>7

LEMMA MpClaims ==
    ASSUME MpSafe, hurt \in BOOLEAN, NEW p \in Producers, Mp!Claim(p), inPosMp = call[p].from,
           hurt' = FALSE
    PROVE  MpSafe'
<1>1. PICK from \in MpSlot, block \in Nat \ {0} :
        /\ from = call[p].from /\ block = call[p].block /\ call[p].at = "claim" /\ Has(p, {"claim"})
        /\ Mp!Spill(call[p]) = 0
        /\ from + block <= MpCapacity + 1 /\ Off(from) + block <= MpCapacity
  BY ClaimFits
<1> DEFINE c == [at |-> "fill", from |-> from, block |-> block, spill |-> 0, done |-> 0]
<1>2. /\ call' = [call EXCEPT ![p] = c] /\ inPosMp' = Mp!Wrap(from + block) /\ inPosMp = from
      /\ UNCHANGED <<mpBuffer, mpIn, mpOut, mpConsumer, mpGiven, pushed, concurrent>>
  BY <1>1 DEF Mp!Claim, Mp!Goto, Mp!consumerRests
<1>3. /\ c \in MpCalls /\ c.at = "fill" /\ c.from = from /\ c.block = block /\ c.done = 0
  BY DEF MpCalls
<1> HIDE DEF c
<1>4. /\ call' \in [Producers -> MpCalls] /\ call'[p] = c
      /\ \A q \in Producers \ {p} : call'[q] = call[q]
  BY <1>2, <1>3 DEF MpSafe, MpType
<1>5. mpOut \in MpSlot /\ mpIn \in MpSlot /\ block \in Nat
  BY DEF MpSafe, MpType
<1>6. /\ inPosMp' \in MpSlot /\ Gap(mpOut, inPosMp') = Off(from) + block
      /\ \A s \in Int : from <= s /\ s < from + block => Off(s) = Off(from) + (s - from)
      /\ \A s \in MpSlot : Off(from) <= Off(s) /\ Off(s) < Off(from) + block => from <= s /\ s < from + block
  BY <1>1, <1>2, <1>5, GapForward DEF Off
<1>7. /\ \A s \in MpSlot : Off(s)' = Off(s) /\ Off(s) \in 0..MpCapacity
      /\ Off(inPosMp) = Off(from) /\ Off(inPosMp)' = Off(from) + block /\ Off(mpIn)' = Off(mpIn)
  BY <1>2, <1>5, <1>6, GapIs DEF Off
<1>8. Off(from) \in Nat /\ Off(mpIn) \in Nat /\ Off(inPosMp) < Off(inPosMp)'
  BY <1>1, <1>5, <1>7, MpConstants
<1>9. MpType'
  <2>1. concurrent' = Cardinality(Inside')
    BY <1>1, <1>2, <1>3, InsideIs DEF Inside
  <2> QED
    BY <1>2, <1>4, <1>6, <2>1 DEF MpSafe, MpType
<1>10. \A q \in Producers \ {p} : /\ \A x : Has(q, x)' <=> Has(q, x')
                                  /\ Off(call[q].from)' = Off(call[q].from)
                                  /\ Off(call[q].upTo)' = Off(call[q].upTo)
  BY <1>2, <1>4 DEF Has, Off
<1>11. Has(p, {"fill"})' /\ \A x : Has(p, x)' <=> "fill" \in x'
  BY <1>3, <1>4 DEF Has
<1>12. Off(call[p].from)' = Off(from)
  BY <1>2, <1>3, <1>4 DEF Off
<1>13. ClaimInv'
  <2>1. Off(mpIn) <= Off(from)
    BY <1>7 DEF MpSafe, ClaimInv
  <2>2. Off(mpIn)' <= Off(inPosMp)'
    BY <1>1, <1>7, <1>8, <2>1
  <2>3. ASSUME NEW q \in Producers \ {p}, Has(q, {"fill"})
        PROVE  /\ Off(call[q].from) + call[q].block <= Off(from)
               /\ Off(call[q].from) + call[q].block <= Off(inPosMp)'
    <3>1. Off(call[q].from) + call[q].block <= Off(from)
      BY <1>7, <2>3 DEF MpSafe, ClaimInv
    <3>2. call[q].from \in MpSlot /\ call[q].block \in Nat
      BY <2>3, CallIs DEF Has, MpSafe, MpType
    <3>3. Off(call[q].from) \in Nat
      BY <1>7, <3>2, MpConstants
    <3> QED
      BY <1>1, <1>7, <1>8, <3>1, <3>2, <3>3
  <2>4. ASSUME NEW q \in Producers \ {p}, Has(q, {"claim"})
        PROVE  /\ call'[q].from + call'[q].block <= MpCapacity + 1
               /\ call'[q].bulk = TRUE =>
                    /\ Gap(call'[q].out, call'[q].from) + call'[q].block <= MpCapacity
                    /\ call'[q].block <= call'[q].size
               /\ call'[q].bulk = FALSE => Off(call[q].from)' + call'[q].block <= MpCapacity
    BY <1>4, <1>10, <2>4 DEF MpSafe, ClaimInv
  <2>5. ASSUME NEW q \in Producers
        PROVE  /\ Has(q, {"test", "claim", "fill"})' => Off(mpIn)' <= Off(call[q].from)'
               /\ Has(q, {"claim"})' =>
                    /\ call'[q].from + call'[q].block <= MpCapacity + 1
                    /\ call'[q].bulk = TRUE =>
                         /\ Gap(call'[q].out, call'[q].from) + call'[q].block <= MpCapacity
                         /\ call'[q].block <= call'[q].size
                    /\ call'[q].bulk = FALSE => Off(call[q].from)' + call'[q].block <= MpCapacity
               /\ Has(q, {"fill"})' =>
                    /\ call'[q].done <= call'[q].block
                    /\ call'[q].from + call'[q].block <= MpCapacity + 1
                    /\ Off(call[q].from)' + call'[q].block <= Off(inPosMp)'
    <3>1. CASE q = p
      <4>1. 0 <= block /\ Off(from) + block <= Off(inPosMp)'
        BY <1>5, <1>7, <1>8
      <4> QED
        BY <1>1, <1>3, <1>4, <1>7, <1>11, <1>12, <2>1, <3>1, <4>1
    <3>2. CASE q # p
      <4>1. /\ Has(q, {"test", "claim", "fill"}) => Off(mpIn) <= Off(call[q].from)
            /\ Has(q, {"fill"}) => /\ call[q].done <= call[q].block
                                   /\ call[q].from + call[q].block <= MpCapacity + 1
        BY DEF MpSafe, ClaimInv
      <4> QED
        BY <1>4, <1>7, <1>10, <2>3, <2>4, <3>2, <4>1
    <3> QED
      BY <3>1, <3>2
  <2>6. ASSUME NEW q \in Producers, NEW r \in Producers \ {q}, Has(q, {"fill"})', Has(r, {"fill"})'
        PROVE  \/ Off(call[q].from)' + call'[q].block <= Off(call[r].from)'
               \/ Off(call[r].from)' + call'[r].block <= Off(call[q].from)'
    <3>1. CASE q = p
      BY <1>4, <1>10, <1>12, <2>3, <2>6, <3>1
    <3>2. CASE r = p
      BY <1>4, <1>10, <1>12, <2>3, <2>6, <3>2
    <3>3. CASE q # p /\ r # p
      <4>1. /\ Has(q, {"fill"}) /\ Has(r, {"fill"})
        BY <1>10, <2>6, <3>3
      <4>2. \/ Off(call[q].from) + call[q].block <= Off(call[r].from)
            \/ Off(call[r].from) + call[r].block <= Off(call[q].from)
        BY <2>6, <4>1 DEF MpSafe, ClaimInv
      <4> QED
        BY <1>4, <1>10, <3>3, <4>2
    <3> QED
      BY <3>1, <3>2, <3>3
  <2> QED
    BY <2>2, <2>5, <2>6 DEF ClaimInv
<1>14. PublishInv'
  <2>1. ASSUME NEW q \in Producers, Has(q, {"count", "publish"})'
        PROVE  /\ q # p /\ call'[q] = call[q] /\ Has(q, {"count", "publish"})
               /\ Off(mpIn)' <= Off(call[q].upTo)' /\ Off(call[q].upTo)' <= Off(inPosMp)'
    <3>1. q # p /\ call'[q] = call[q] /\ Has(q, {"count", "publish"})
      BY <1>4, <1>10, <1>11, <2>1
    <3>2. Off(mpIn) <= Off(call[q].upTo) /\ Off(call[q].upTo) <= Off(from)
      BY <1>7, <3>1 DEF MpSafe, PublishInv
    <3>3. Off(call[q].upTo) \in Nat
      <4>1. call[q].upTo \in MpSlot
        BY <3>1, CallIs DEF Has, MpSafe, MpType
      <4> QED
        BY <1>7, <4>1, MpConstants
    <3> QED
      BY <1>5, <1>7, <1>8, <1>10, <3>1, <3>2, <3>3
  <2>2. ASSUME NEW q \in Producers, Has(q, {"publish"})', NEW r \in Producers, r # q
        PROVE  /\ ~Has(r, {"publish"})'
               /\ Has(r, {"count"})' => Off(call[q].upTo)' <= Off(call[r].upTo)'
               /\ Has(r, {"test", "claim"})' => Off(call[q].upTo)' <= Off(call[r].from)'
               /\ Has(r, {"fill"})' => Off(call[q].upTo)' <= Off(call[r].from)'
    <3>1. q # p /\ Has(q, {"publish"})
      BY <1>10, <1>11, <2>2
    <3>2. CASE r = p
      <4>1. Has(p, {"test", "claim"})
        BY <1>1 DEF Has
      <4>2. Off(call[q].upTo) <= Off(from)
        BY <1>1, <3>1, <4>1 DEF MpSafe, PublishInv
      <4> QED
        BY <1>10, <1>11, <1>12, <3>1, <3>2, <4>2
    <3>3. CASE r # p
      <4>1. /\ ~Has(r, {"publish"})
            /\ Has(r, {"count"}) => Off(call[q].upTo) <= Off(call[r].upTo)
            /\ Has(r, {"test", "claim"}) => Off(call[q].upTo) <= Off(call[r].from)
            /\ Has(r, {"fill"}) => Off(call[q].upTo) <= Off(call[r].from)
        BY <2>2, <3>1 DEF MpSafe, PublishInv
      <4> QED
        BY <1>10, <3>1, <3>3, <4>1
    <3> QED
      BY <3>2, <3>3
  <2>3. \A q \in Producers : /\ ~(Has(q, {"publish"})' /\ Has(q, {"fill"})')
                             /\ Has(q, {"publish"})' => Has(q, {"count", "publish"})'
    BY DEF Has
  <2> QED
    BY <2>1, <2>2, <2>3 DEF PublishInv
<1>15. \A s \in MpSlot : Held(s)' <=> Held(s)
  <2> TAKE s \in MpSlot
  <2>1. ASSUME NEW q \in Producers \ {p}
        PROVE  (Has(q, {"fill"})' /\ call'[q].from + call'[q].done <= s /\ s < call'[q].from + call'[q].block)
           <=> (Has(q, {"fill"}) /\ call[q].from + call[q].done <= s /\ s < call[q].from + call[q].block)
    BY <1>4, <1>10
  <2>2. from \in Int /\ s \in Int
    BY MpConstants DEF MpSlot
  <2>3. Unfilled(s)' <=> Unfilled(s) \/ (from <= s /\ s < from + block)
    <3>1. (Has(p, {"fill"})' /\ call'[p].from + call'[p].done <= s /\ s < call'[p].from + call'[p].block)
             <=> (from <= s /\ s < from + block)
      BY <1>3, <1>4, <1>11, <2>2
    <3>2. ~Has(p, {"fill"})
      BY <1>1 DEF Has
    <3> QED
      BY <2>1, <3>1, <3>2 DEF Unfilled
  <2>4. Off(s) \in Int /\ Off(s)' = Off(s)
    BY <1>7, MpConstants
  <2>5. Off(s) < Off(from) + block /\ ~(from <= s /\ s < from + block) <=> Off(s) < Off(from)
    BY <1>5, <1>6, <1>8, <2>2, <2>4
  <2> QED
    BY <1>7, <2>3, <2>4, <2>5 DEF Held
<1>16. \A q \in Producers : Stored(q)' = Stored(q)
  <2>1. Stored(p)' = Stored(p)
    BY <1>1, <1>2, <1>3, <1>4, <1>11 DEF Stored, Has
  <2> QED
    BY <1>2, <1>4, <1>10, <2>1 DEF Stored
<1>17. HeldInv'
  BY <1>2, <1>15, <1>16 DEF MpSafe, HeldInv
<1>18. InOrderInv'
  <2>1. ASSUME NEW q \in Producers, NEW s \in MpSlot, Has(q, {"fill"})', Held(s)', mpBuffer'[s][1] = q
        PROVE  Off(s)' < Off(call[q].from)' + call'[q].done
    <3>1. CASE q = p
      <4>1. Off(s) < Off(from)
        BY <1>7, <1>15, <2>1 DEF Held
      <4> QED
        BY <1>3, <1>4, <1>7, <1>8, <1>12, <3>1, <4>1
    <3>2. CASE q # p
      <4>1. Has(q, {"fill"}) /\ Held(s) /\ mpBuffer[s][1] = q
        BY <1>2, <1>10, <1>15, <2>1, <3>2
      <4>2. Off(s) < Off(call[q].from) + call[q].done
        BY <4>1 DEF MpSafe, InOrderInv
      <4> QED
        BY <1>4, <1>7, <1>10, <3>2, <4>2
    <3> QED
      BY <3>1, <3>2
  <2>2. \A s, t \in MpSlot :
          Held(s)' /\ Held(t)' /\ Off(s)' < Off(t)' /\ mpBuffer'[s][1] = mpBuffer'[t][1]
            => mpBuffer'[s][2] < mpBuffer'[t][2]
    BY <1>2, <1>7, <1>15 DEF MpSafe, InOrderInv
  <2> QED
    BY <2>1, <2>2 DEF InOrderInv
<1>19. ReadingInv'
  BY <1>2 DEF MpSafe, ReadingInv
<1> QED
  BY <1>9, <1>13, <1>14, <1>17, <1>18, <1>19 DEF MpSafe

LEMMA MpStarts == ASSUME Mp!Init PROVE MpInv
<1>1. /\ mpBuffer = [s \in MpSlot |-> <<>>] /\ mpIn = 0 /\ mpOut = 0 /\ inPosMp = 0 /\ concurrent = 0
      /\ call = [p \in Producers |-> [at |-> "idle"]] /\ pushed = [p \in Producers |-> 0]
      /\ mpConsumer = [at |-> "idle"] /\ mpGiven = [p \in Producers |-> 0] /\ hurt = FALSE
  BY DEF Mp!Init, Mp!Resting, MpSlot
<1>2. 0 \in MpSlot /\ Gap(0, 0) = 0 /\ \A s \in MpSlot : Gap(0, s) \in 0..MpCapacity
  <2>1. 0 \in MpSlot
    BY MpConstants DEF MpSlot
  <2> QED
    BY <2>1, GapIs
<1>3. \A p \in Producers : call[p].at = "idle" /\ \A x : Has(p, x) <=> "idle" \in x
  BY <1>1 DEF Has
<1>4. MpType
  <2>1. Inside = {}
    BY <1>3 DEF Inside
  <2>2. [at |-> "idle"] \in MpCalls
    BY DEF MpCalls
  <2> QED
    BY <1>1, <1>2, <2>1, <2>2, FS_EmptySet DEF MpType, MpItem
<1>5. ClaimInv /\ PublishInv
  BY <1>1, <1>2, <1>3 DEF ClaimInv, PublishInv, Off
<1>6. \A s \in MpSlot : ~Held(s)
  BY <1>1, <1>2, MpConstants DEF Held, Off
<1>7. \A p \in Producers : Stored(p) = 0 /\ mpGiven[p] = 0
  BY <1>1, <1>3 DEF Stored
<1>8. HeldInv /\ InOrderInv /\ ReadingInv
  BY <1>1, <1>6, <1>7 DEF HeldInv, InOrderInv, ReadingInv
<1> QED
  BY <1>1, <1>4, <1>5, <1>8 DEF MpInv, MpSafe

LEMMA ProducerKeeps ==
    ASSUME MpSafe, hurt \in BOOLEAN, NEW p \in Producers, Mp!Producer(p), hurt' = FALSE
    PROVE  MpSafe'
<1>1. CASE Mp!Enter(p) \/ (\E size \in 1..MaxBlock : Mp!ReadOut(p, size)) \/ Mp!EnterN(p)
  BY <1>1, MpEnters
<1>2. CASE Mp!Load(p)
  BY <1>2, MpLoads
<1>3. CASE Mp!Test(p)
  BY <1>3, MpTests
<1>4. CASE Mp!Claim(p)
  <2>1. CASE inPosMp = call[p].from
    BY <1>4, <2>1, MpClaims
  <2>2. CASE inPosMp # call[p].from
    BY <1>4, <2>2, MpRetries
  <2> QED
    BY <2>1, <2>2
<1>5. CASE Mp!Fill(p)
  <2>1. CASE call[p].done < call[p].block
    BY <1>5, <2>1, MpFills
  <2>2. CASE ~(call[p].done < call[p].block)
    BY <1>5, <2>2, MpFilled
  <2> QED
    BY <2>1, <2>2
<1>6. CASE Mp!LoadClaimed(p)
  BY <1>6, MpReadsClaimed
<1>7. CASE Mp!LoadCount(p)
  BY <1>7, MpCounts
<1>8. CASE Mp!Publish(p)
  BY <1>8, MpPublishes
<1>9. CASE Mp!Leave(p)
  BY <1>9, MpLeaves
<1> QED
  BY <1>1, <1>2, <1>3, <1>4, <1>5, <1>6, <1>7, <1>8, <1>9 DEF Mp!Producer

LEMMA MpKept == ASSUME MpInv, Mp!Next PROVE MpInv'
<1>1. hurt' \in BOOLEAN /\ (hurt = TRUE => hurt' = TRUE)
  <2>1. \/ hurt' = hurt
        \/ \E p \in Producers : hurt' = (hurt \/ Mp!Spill(call[p]) > 0 \/ (call[p].bulk /\ call[p].out # mpOut))
    BY DEF Mp!Next, Mp!Producer, Mp!Enter, Mp!ReadOut, Mp!EnterN, Mp!Load, Mp!Test, Mp!Claim, Mp!Fill,
           Mp!LoadClaimed, Mp!LoadCount, Mp!Publish, Mp!Leave, Mp!Pop, Mp!Release, Mp!producersRest
  <2> QED
    BY <2>1 DEF MpInv
<1>2. ASSUME hurt' = FALSE PROVE MpSafe'
  <2>1. MpSafe /\ hurt \in BOOLEAN
    BY <1>1, <1>2 DEF MpInv
  <2>2. CASE \E p \in Producers : Mp!Producer(p)
    BY <1>2, <2>1, <2>2, ProducerKeeps
  <2>3. CASE Mp!Pop
    BY <2>1, <2>3, MpPops
  <2>4. CASE Mp!Release
    BY <2>1, <2>4, MpReleases
  <2> QED
    BY <2>2, <2>3, <2>4 DEF Mp!Next
<1> QED
  BY <1>1, <1>2 DEF MpInv

\* How far inPosMp is ahead of m_outPos, as the code computes it.
LEMMA GapIsAhead ==
    ASSUME NEW o \in MpSlot, NEW s \in MpSlot
    PROVE  (s - o) % Mp!bufSize = Gap(o, s) /\ Mp!Wrap(o + Gap(o, s)) = s
<1> DEFINE n == MpCapacity + 1
<1>1. n \in Nat \ {0} /\ o \in Nat /\ s \in Nat /\ o < n /\ s < n /\ Mp!bufSize = n
  BY MpConstants DEF MpSlot
<1>2. Gap(o, s) = IF s >= o THEN s - o ELSE s - o + n
  BY DEF Gap
<1>3. Mp!Wrap(o + Gap(o, s)) = (o + Gap(o, s)) % n
  BY MpConstants DEF Mp!Wrap
<1> HIDE DEF n
<1>4. s >= o => (s - o) % n = s - o
  BY <1>1
<1>5. s < o => (s - o) % n = s - o + n
  BY <1>1
<1>6. s % n = s /\ (s + n) % n = s
  BY <1>1
<1>7. (s - o) % n = Gap(o, s)
  BY <1>1, <1>2, <1>4, <1>5
<1>8. (o + Gap(o, s)) % n = s
  <2>1. CASE s >= o
    <3>1. o + Gap(o, s) = s
      BY <1>1, <1>2, <2>1
    <3> QED
      BY <1>6, <3>1
  <2>2. CASE s < o
    <3>1. o + Gap(o, s) = s + n
      BY <1>1, <1>2, <2>2
    <3> QED
      BY <1>6, <3>1
  <2> QED
    BY <1>1, <2>1, <2>2
<1> QED
  BY <1>1, <1>3, <1>7, <1>8

LEMMA MpInvSuffices == ASSUME MpInv PROVE Mp!OrderPerProducer /\ Mp!NoItemLost
<1>1. ASSUME hurt = FALSE, mpConsumer.at = "read"
      PROVE  mpConsumer.item # <<>> /\ mpConsumer.item[2] = mpGiven[mpConsumer.item[1]] + 1
  <2>1. PICK p \in Producers : mpConsumer.item = <<p, mpGiven[p] + 1>>
    BY <1>1, ReadIsNext DEF MpInv
  <2> QED
    BY <2>1
<1>2. ASSUME hurt = FALSE, NEW p \in Producers, NEW k \in mpGiven[p] + 1..pushed[p]
      PROVE  \E s \in Mp!Claimed : mpBuffer[s] = <<p, k>>
  <2>1. MpSafe
    BY <1>2 DEF MpInv
  <2>2. k \in mpGiven[p] + 1..Stored(p)
    <3>1. call[p] \in MpCalls /\ pushed[p] \in Nat /\ mpGiven[p] \in Nat
      BY <2>1 DEF MpSafe, MpType
    <3>2. /\ Has(p, {"fill"}) => call[p].done \in Nat
          /\ Has(p, {"leave", "count", "publish", "out"}) => call[p].got \in Nat
      BY <3>1, CallIs DEF Has
    <3>3. Stored(p) \in Nat /\ pushed[p] <= Stored(p)
      BY <3>1, <3>2 DEF Stored
    <3> QED
      BY <3>1, <3>3
  <2>3. PICK s \in MpSlot : Held(s) /\ mpBuffer[s] = <<p, k>>
    BY <2>1, <2>2 DEF MpSafe, HeldInv
  <2>4. /\ Off(s) < Off(inPosMp) /\ Off(s) \in Nat /\ Off(inPosMp) \in Nat
        /\ (inPosMp - mpOut) % Mp!bufSize = Off(inPosMp) /\ Mp!Wrap(mpOut + Off(s)) = s
    <3>1. mpOut \in MpSlot /\ inPosMp \in MpSlot
      BY <2>1 DEF MpSafe, MpType
    <3> QED
      BY <2>3, <3>1, GapIs, GapIsAhead, MpConstants DEF Held, Off
  <2>5. Off(s) \in 0..((inPosMp - mpOut) % Mp!bufSize) - 1
    BY <2>4
  <2>6. s \in Mp!Claimed
    BY <2>4, <2>5 DEF Mp!Claimed
  <2> QED
    BY <2>3, <2>6
<1> QED
  BY <1>1, <1>2 DEF MpInv, Mp!OrderPerProducer, Mp!NoItemLost

\* With several producers the consumer gets each one's items in the order they were pushed,
\* none twice and none before it is stored, and none that its producer was told is in is
\* lost, for any producers, capacity and sizes of blocks, as long as no push_n stored past
\* its claim or claimed with an m_outPos that had moved on (circular_queue_mp.h push, push_n).
THEOREM ProducersDeliver == LibrarySpec => []MpDelivers
<1> DEFINE Inv == part = "mp" => MpInv
<1>1. LibraryInit => Inv
  BY MpStarts DEF LibraryInit
<1>2. Inv /\ [LibraryNext]_libraryVars => Inv'
  <2> SUFFICES ASSUME Inv, [LibraryNext]_libraryVars, part' = "mp" PROVE MpInv'
    OBVIOUS
  <2>1. CASE MpStep
    BY <2>1, MpKept DEF MpStep
  <2>2. CASE UNCHANGED mpVars /\ part' = part
    <3>1. /\ UNCHANGED <<mpBuffer, mpIn, mpOut, inPosMp, concurrent, call, pushed, mpConsumer, mpGiven, hurt>>
          /\ MpInv
      BY <2>2 DEF mpVars
    <3>2. /\ \A s : Off(s)' = Off(s')
          /\ \A q, x : Has(q, x)' <=> Has(q', x')
          /\ \A s \in MpSlot : Held(s)' <=> Held(s)
          /\ \A p \in Producers : Stored(p)' = Stored(p)
      BY <3>1 DEF Off, Has, Held, Unfilled, Stored
    <3>3. MpType => MpType'
      BY <3>1 DEF MpType, Inside
    <3>4. ClaimInv /\ PublishInv => ClaimInv' /\ PublishInv'
      BY <3>1 DEF ClaimInv, PublishInv, Off, Has
    <3>5. HeldInv /\ InOrderInv /\ ReadingInv => HeldInv' /\ InOrderInv' /\ ReadingInv'
      BY <3>1, <3>2 DEF HeldInv, InOrderInv, ReadingInv, Off, Has
    <3> QED
      BY <3>1, <3>3, <3>4, <3>5 DEF MpInv, MpSafe
  <2> QED
    BY <2>1, <2>2 DEF LibraryNext, libraryVars, RingStep, SerialStep, ListStep, WaitStep,
                      TokenStep, AsyncStep, FastStep, DelegatesStep, ValueStep
<1>3. Inv => MpDelivers
  BY MpInvSuffices DEF MpDelivers
<1> QED
  BY <1>1, <1>2, <1>3, PTL DEF LibrarySpec
=============================================================================
