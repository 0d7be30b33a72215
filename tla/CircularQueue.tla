--------------------------- MODULE CircularQueue ---------------------------
(***************************************************************************)
(* The lock-free ring between one producer and one consumer                *)
(* (circular_queue.h): the interrupt handler of a serial line fills it,    *)
(* the task that reads the line empties it. Every step is what one side    *)
(* does between two accesses to what the other side can change; one slot   *)
(* stays free, so that equal positions mean an empty ring.                 *)
(***************************************************************************)
EXTENDS Integers, Sequences, SequencesExt

CONSTANTS Capacity,  \* what the ring was constructed for
          MaxPushed, \* bound: elements offered over a behaviour
          MaxBulk    \* bound: elements in one push_n or pop_n

ASSUME CapacityAssumption == Capacity \in Nat \ {0}
ASSUME BoundsAssumption == MaxPushed \in Nat /\ MaxBulk \in Nat \ {0}

VARIABLES buffer,    \* m_buffer: what each slot holds; 0 is a default value
          inPos,     \* m_inPos
          outPos,    \* m_outPos
          producer,  \* the call the producer is in
          consumer,  \* the call the consumer is in
          offered,   \* elements are numbered as they are accepted: the last number
          given      \* the numbers the consumer got, in order

vars == <<buffer, inPos, outPos, producer, consumer, offered, given>>

bufSize == Capacity + 1
Slot == 0..Capacity
Least(a, b) == IF a < b THEN a ELSE b
Wrap(i) == i % bufSize
\* How far position b is ahead of position a.
Ahead(a, b) == IF b >= a THEN b - a ELSE b - a + bufSize

Resting == [at |-> "idle"]

Init ==
  /\ buffer = [s \in Slot |-> 0]
  /\ inPos = 0 /\ outPos = 0
  /\ producer = Resting /\ consumer = Resting
  /\ offered = 0 /\ given = <<>>

-----------------------------------------------------------------------------
(* The producer. It alone moves inPos, so it reads only outPos anew.       *)

producerRest == UNCHANGED <<outPos, consumer, given>>

\* push(val) up to its test: a full ring refuses. pushpeek() and push() come
\* to the same, as the slot at inPos is nobody else's.
Push ==
  /\ producer.at = "idle" /\ offered < MaxPushed
  /\ Wrap(inPos + 1) # outPos
  /\ producer' = [at |-> "copy", block |-> 1, extra |-> 0, done |-> 0]
  /\ producerRest /\ UNCHANGED <<buffer, inPos, offered>>

\* The caller writes through pushpeek() into the slot the next push() releases,
\* whether or not that push() finds room.
Pushpeek ==
  /\ producer.at = "idle" /\ offered < MaxPushed
  /\ buffer' = [buffer EXCEPT ![inPos] = offered + 1]
  /\ producer' = [at |-> "peeked"]
  /\ producerRest /\ UNCHANGED <<inPos, offered>>

PushPeeked ==
  /\ producer.at = "peeked"
  /\ IF Wrap(inPos + 1) = outPos
       THEN producer' = Resting
       ELSE producer' = [at |-> "copy", block |-> 1, extra |-> 0, done |-> 1]
  /\ producerRest /\ UNCHANGED <<buffer, inPos, offered>>

\* push_n: a first block up to the reader or the end of the buffer, a second
\* one from its start.
FirstBlock(size) ==
  Least(size, CASE outPos > inPos -> outPos - 1 - inPos
                [] outPos = 0     -> bufSize - 1 - inPos
                [] OTHER          -> bufSize - inPos)
SecondBlock_NoRoom(size) == size - FirstBlock(size)

SecondBlock(size) ==
  LET rest == size - FirstBlock(size)
      room == outPos - Wrap(inPos + FirstBlock(size)) - 1
  IN  CASE outPos <= 1            -> 0
        [] outPos > 1 /\ room < 0 -> rest  \* as a size_t larger than any size
        [] OTHER                  -> Least(rest, room)

PushN(size) ==
  /\ producer.at = "idle" /\ offered + size <= MaxPushed
  /\ FirstBlock(size) > 0
  /\ producer' = [at |-> "copy", block |-> FirstBlock(size),
                  extra |-> SecondBlock(size), done |-> 0]
  /\ producerRest /\ UNCHANGED <<buffer, inPos, offered>>

\* One element moved into its slot.
Copy ==
  /\ producer.at = "copy" /\ producer.done < producer.block + producer.extra
  /\ LET s == IF producer.done < producer.block
                THEN inPos + producer.done ELSE producer.done - producer.block
     IN  buffer' = [buffer EXCEPT ![s] = offered + producer.done + 1]
  /\ producer' = [producer EXCEPT !.done = @ + 1]
  /\ producerRest /\ UNCHANGED <<inPos, offered>>

\* m_inPos.store: the elements become the consumer's.
Publish ==
  /\ producer.at = "copy" /\ producer.done = producer.block + producer.extra
  /\ inPos' = Wrap(inPos + producer.block) + producer.extra
  /\ offered' = offered + producer.done
  /\ producer' = Resting
  /\ producerRest /\ UNCHANGED buffer

-----------------------------------------------------------------------------
(* The consumer. It alone moves outPos.                                    *)

consumerRest == UNCHANGED <<inPos, producer, offered>>

\* pop() and pop_n(): how many elements there are is read once; an empty ring
\* returns a default value. discard is pop_n into no buffer.
Pop(size, discard) ==
  /\ consumer.at = "idle" /\ inPos # outPos
  /\ consumer' = [at |-> "read", size |-> Least(size, Ahead(outPos, inPos)),
                  got |-> <<>>, discard |-> discard]
  /\ consumerRest /\ UNCHANGED <<buffer, outPos, given>>

ReadSlot ==
  /\ consumer.at = "read" /\ Len(consumer.got) < consumer.size /\ ~consumer.discard
  /\ consumer' = [consumer EXCEPT !.got = Append(@, buffer[Wrap(outPos + Len(@))])]
  /\ consumerRest /\ UNCHANGED <<buffer, outPos, given>>

\* m_outPos.store: the slots become the producer's.
Release ==
  /\ consumer.at = "read" /\ (consumer.discard \/ Len(consumer.got) = consumer.size)
  /\ outPos' = Wrap(outPos + consumer.size)
  /\ given' = given \o consumer.got
  /\ consumer' = Resting
  /\ consumerRest /\ UNCHANGED buffer

\* flush(): m_inPos is loaded, then stored into m_outPos.
Flush ==
  /\ consumer.at = "idle"
  /\ consumer' = [at |-> "flush", upTo |-> inPos]
  /\ consumerRest /\ UNCHANGED <<buffer, outPos, given>>

FlushStore ==
  /\ consumer.at = "flush"
  /\ outPos' = consumer.upTo
  /\ consumer' = Resting
  /\ consumerRest /\ UNCHANGED <<buffer, given>>

\* for_each: up to the inPos read at the start; each slot is released once the
\* callback has had its element.
ForEach ==
  /\ consumer.at = "idle" /\ inPos # outPos
  /\ consumer' = [at |-> "each", upTo |-> inPos]
  /\ consumerRest /\ UNCHANGED <<buffer, outPos, given>>

CallBack ==
  /\ consumer.at = "each"
  /\ given' = Append(given, buffer[outPos])
  /\ outPos' = Wrap(outPos + 1)
  /\ consumer' = IF outPos' = consumer.upTo THEN Resting ELSE consumer
  /\ consumerRest /\ UNCHANGED buffer

\* for_each_rev_requeue: newest first; what the callback keeps moves up against
\* the newest, the rest is dropped.
ForEachRev ==
  /\ consumer.at = "idle" /\ inPos # outPos
  /\ consumer' = [at |-> "sweep", pos |-> inPos, keptFrom |-> inPos, upTo |-> inPos]
  /\ consumerRest /\ UNCHANGED <<buffer, outPos, given>>

Requeue(keep) ==
  /\ consumer.at = "sweep" /\ consumer.pos # outPos
  /\ LET pos == Wrap(consumer.pos + Capacity)
         keptFrom == IF keep THEN Wrap(consumer.keptFrom + Capacity) ELSE consumer.keptFrom
     IN  /\ buffer' = IF keep THEN [buffer EXCEPT ![keptFrom] = buffer[pos]] ELSE buffer
         /\ consumer' = [consumer EXCEPT !.pos = pos, !.keptFrom = keptFrom]
  /\ consumerRest /\ UNCHANGED <<outPos, given>>

SweepStore ==
  /\ consumer.at = "sweep" /\ consumer.pos = outPos
  /\ outPos' = consumer.keptFrom
  /\ consumer' = Resting
  /\ consumerRest /\ UNCHANGED <<buffer, given>>

-----------------------------------------------------------------------------
ProducerStep ==
  \/ Push \/ Pushpeek \/ PushPeeked \/ Copy \/ Publish
  \/ \E size \in 1..MaxBulk : PushN(size)

ConsumerStep ==
  \/ \E size \in 1..MaxBulk, discard \in BOOLEAN : Pop(size, discard)
  \/ ReadSlot \/ Release \/ Flush \/ FlushStore \/ ForEach \/ CallBack
  \/ ForEachRev \/ (\E keep \in BOOLEAN : Requeue(keep)) \/ SweepStore

Next == ProducerStep \/ ConsumerStep

Spec == Init /\ [][Next]_vars

-----------------------------------------------------------------------------
\* The elements from position a up to position b.
Elements(a, b) == [i \in 1..Ahead(a, b) |-> buffer[Wrap(a + i - 1)]]

\* What the consumer may still get: in the middle of a sweep, what it has not
\* looked at and what it has kept.
Contents ==
  IF consumer.at = "sweep"
    THEN Elements(outPos, consumer.pos) \o Elements(consumer.keptFrom, inPos)
    ELSE Elements(outPos, inPos)

Queue == INSTANCE Fifo WITH Bound <- Capacity, Element <- 1..MaxPushed, queue <- Contents

\* The ring is a first-in first-out queue whatever the two sides interleave
\* (circular_queue.h push, push_n, pop, pop_n, flush, for_each,
\* for_each_rev_requeue).
IsFifo == Queue!Spec

\* push_n stores all that fits: it may fall short of its size only when the
\* ring was full at some point of the call (circular_queue.h push_n).
FillsTheRing ==
  [][\A size \in 1..MaxBulk :
        PushN(size) => producer'.block + producer'.extra
                         = Least(size, Capacity - Ahead(outPos, inPos))]_vars
=============================================================================
