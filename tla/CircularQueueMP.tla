-------------------------- MODULE CircularQueueMP --------------------------
(***************************************************************************)
(* The ring with several producers and one consumer (circular_queue_mp.h,  *)
(* the branch the ESP32 compiles). A producer counts itself in, claims     *)
(* slots by moving inPosMp with a compare-exchange, fills them and counts  *)
(* itself out; the one that finds itself alone makes all that is claimed   *)
(* visible to the consumer. Every step is one access to a shared atomic or *)
(* one slot filled.                                                        *)
(***************************************************************************)
EXTENDS Integers, Sequences, FiniteSets

CONSTANTS Producers,
          MpCapacity,  \* what the ring was constructed for
          MaxItems,    \* bound: items each producer pushes
          MaxBlock     \* bound: items in one push_n

MpAssumption ==
  /\ IsFiniteSet(Producers) /\ MpCapacity \in Nat \ {0}
  /\ MaxItems \in Nat /\ MaxBlock \in Nat

VARIABLES buffer,      \* m_buffer: <<producer, number>>, or <<>>
          inPos,       \* m_inPos: what the consumer may read up to
          outPos,      \* m_outPos
          inPosMp,     \* m_inPos_mp: what is claimed
          concurrent,  \* m_concurrent_mp
          call,        \* where each producer is in push or push_n
          pushed,      \* history: items each producer was told are in
          consumer,    \* the consumer's call
          taken,       \* history: items of each producer the consumer got
          hurt         \* history: a push_n spilled past its claim or used an old outPos

vars == <<buffer, inPos, outPos, inPosMp, concurrent, call, pushed, consumer, taken, hurt>>

bufSize == MpCapacity + 1
Wrap(i) == i % bufSize
Least(a, b) == IF a < b THEN a ELSE b
Resting == [at |-> "idle"]

Init ==
  /\ buffer = [s \in 0..MpCapacity |-> <<>>]
  /\ inPos = 0 /\ outPos = 0 /\ inPosMp = 0 /\ concurrent = 0
  /\ call = [p \in Producers |-> Resting]
  /\ pushed = [p \in Producers |-> 0]
  /\ consumer = Resting
  /\ taken = [p \in Producers |-> 0]
  /\ hurt = FALSE

consumerRests == UNCHANGED <<outPos, consumer, taken>>
Goto(p, c) == call' = [call EXCEPT ![p] = c]

-----------------------------------------------------------------------------
\* push(): ++m_concurrent_mp.
Enter(p) ==
  /\ call[p].at = "idle" /\ pushed[p] < MaxItems
  /\ concurrent' = concurrent + 1
  /\ Goto(p, [at |-> "load", size |-> 1, bulk |-> FALSE, out |-> outPos])
  /\ consumerRests /\ UNCHANGED <<buffer, inPos, inPosMp, pushed, hurt>>

\* push_n() reads m_outPos once, before it counts itself in.
ReadOut(p, size) ==
  /\ call[p].at = "idle" /\ pushed[p] + size <= MaxItems
  /\ Goto(p, [at |-> "enter", size |-> size, bulk |-> TRUE, out |-> outPos])
  /\ consumerRests /\ UNCHANGED <<buffer, inPos, inPosMp, concurrent, pushed, hurt>>

EnterN(p) ==
  /\ call[p].at = "enter"
  /\ concurrent' = concurrent + 1
  /\ Goto(p, [call[p] EXCEPT !.at = "load"])
  /\ consumerRests /\ UNCHANGED <<buffer, inPos, inPosMp, pushed, hurt>>

\* The claim starts from m_inPos_mp as it is now.
Load(p) ==
  /\ call[p].at = "load"
  /\ Goto(p, [at |-> "test", size |-> call[p].size, bulk |-> call[p].bulk,
              out |-> call[p].out, from |-> inPosMp])
  /\ consumerRests /\ UNCHANGED <<buffer, inPos, inPosMp, concurrent, pushed, hurt>>

\* The slots in one piece that are free, seen from m_outPos = out.
Block(from, out, size) ==
  Least(size, CASE out > from -> out - 1 - from
                [] out = 0    -> bufSize - 1 - from
                [] OTHER      -> bufSize - from)

\* push() tests against m_outPos of this moment, push_n() against the one it has.
Test(p) ==
  /\ call[p].at = "test"
  /\ LET c     == call[p]
         block == IF c.bulk THEN Block(c.from, c.out, c.size)
                  ELSE IF Wrap(c.from + 1) = outPos THEN 0 ELSE 1
     IN  Goto(p, IF block = 0
                   THEN [at |-> "leave", got |-> 0]
                   ELSE [at |-> "claim", size |-> c.size, bulk |-> c.bulk,
                         out |-> c.out, from |-> c.from, block |-> block])
  /\ consumerRests /\ UNCHANGED <<buffer, inPos, inPosMp, concurrent, pushed, hurt>>

\* What push_n goes on to store at the start of the buffer after its first block.
Spill(c) ==
  LET rest == c.size - c.block
      room == c.out - Wrap(c.from + c.block) - 1
  IN  CASE ~c.bulk \/ c.out <= 1 -> 0
        [] c.bulk /\ c.out > 1 /\ room < 0 -> rest
        [] OTHER -> Least(rest, room)

\* m_inPos_mp.compare_exchange_weak: another claim in between starts it over.
Claim(p) ==
  /\ call[p].at = "claim"
  /\ LET c == call[p]
     IN  IF inPosMp = c.from
           THEN /\ inPosMp' = Wrap(c.from + c.block)
                /\ Goto(p, [at |-> "fill", from |-> c.from, block |-> c.block,
                            spill |-> Spill(c), done |-> 0])
                /\ hurt' = (hurt \/ Spill(c) > 0 \/ (c.bulk /\ c.out # outPos))
           ELSE /\ Goto(p, [at |-> "load", size |-> c.size, bulk |-> c.bulk, out |-> c.out])
                /\ UNCHANGED <<inPosMp, hurt>>
  /\ consumerRests /\ UNCHANGED <<buffer, inPos, concurrent, pushed>>

Fill(p) ==
  /\ call[p].at = "fill"
  /\ LET c    == call[p]
         slot == IF c.done < c.block THEN c.from + c.done ELSE c.done - c.block
     IN  IF c.done < c.block + c.spill
           THEN /\ buffer' = [buffer EXCEPT ![slot] = <<p, pushed[p] + c.done + 1>>]
                /\ Goto(p, [c EXCEPT !.done = @ + 1])
           ELSE /\ Goto(p, [at |-> "leave", got |-> c.done])
                /\ UNCHANGED buffer
  /\ consumerRests /\ UNCHANGED <<inPos, inPosMp, concurrent, pushed, hurt>>

-----------------------------------------------------------------------------
(* Counting itself out.                                                    *)

LoadClaimed(p) ==
  /\ call[p].at = "leave"
  /\ Goto(p, [at |-> "count", got |-> call[p].got, upTo |-> inPosMp])
  /\ consumerRests /\ UNCHANGED <<buffer, inPos, inPosMp, concurrent, pushed, hurt>>

LoadCount(p) ==
  /\ call[p].at = "count"
  /\ Goto(p, [at |-> IF concurrent = 1 THEN "publish" ELSE "out",
              got |-> call[p].got, upTo |-> call[p].upTo, count |-> concurrent])
  /\ consumerRests /\ UNCHANGED <<buffer, inPos, inPosMp, concurrent, pushed, hurt>>

Publish_Anew(p) ==
  /\ call[p].at = "publish"
  /\ inPos' = inPosMp
  /\ Goto(p, [call[p] EXCEPT !.at = "out"])
  /\ consumerRests /\ UNCHANGED <<buffer, inPosMp, concurrent, pushed, hurt>>

\* Alone: everything claimed, as read above, is the consumer's.
Publish(p) ==
  /\ call[p].at = "publish"
  /\ inPos' = call[p].upTo
  /\ Goto(p, [call[p] EXCEPT !.at = "out"])
  /\ consumerRests /\ UNCHANGED <<buffer, inPosMp, concurrent, pushed, hurt>>

\* m_concurrent_mp.compare_exchange_weak, then the call returns.
Leave(p) ==
  /\ call[p].at = "out"
  /\ IF concurrent = call[p].count
       THEN /\ concurrent' = concurrent - 1
            /\ pushed' = [pushed EXCEPT ![p] = @ + call[p].got]
            /\ Goto(p, Resting)
       ELSE /\ Goto(p, [at |-> "leave", got |-> call[p].got])
            /\ UNCHANGED <<concurrent, pushed>>
  /\ consumerRests /\ UNCHANGED <<buffer, inPos, inPosMp, hurt>>

-----------------------------------------------------------------------------
(* The consumer: pop(), as in the ring with one producer.                  *)

producersRest == UNCHANGED <<inPos, inPosMp, concurrent, call, pushed, hurt>>

Pop ==
  /\ consumer.at = "idle" /\ inPos # outPos
  /\ consumer' = [at |-> "read", item |-> buffer[outPos]]
  /\ producersRest /\ UNCHANGED <<buffer, outPos, taken>>

Release ==
  /\ consumer.at = "read"
  /\ outPos' = Wrap(outPos + 1)
  /\ taken' = IF consumer.item = <<>> THEN taken
              ELSE [taken EXCEPT ![consumer.item[1]] = consumer.item[2]]
  /\ consumer' = Resting
  /\ producersRest /\ UNCHANGED buffer

-----------------------------------------------------------------------------
Producer(p) ==
  \/ Enter(p) \/ (\E size \in 1..MaxBlock : ReadOut(p, size)) \/ EnterN(p)
  \/ Load(p) \/ Test(p) \/ Claim(p) \/ Fill(p)
  \/ LoadClaimed(p) \/ LoadCount(p) \/ Publish(p) \/ Leave(p)

Next == (\E p \in Producers : Producer(p)) \/ Pop \/ Release

Spec == Init /\ [][Next]_vars

-----------------------------------------------------------------------------
Claimed == {Wrap(outPos + i) : i \in 0..((inPosMp - outPos) % bufSize) - 1}

\* The consumer gets each producer's items one after the other, none twice, none
\* skipped, none before it is there (mp_queue_test.cpp:61 "item mismatch").
OrderPerProducer ==
  ~hurt /\ consumer.at = "read"
    => /\ consumer.item # <<>>
       /\ consumer.item[2] = taken[consumer.item[1]] + 1

\* An item its producer was told is in stays in the ring until the consumer has it.
NoItemLost ==
  ~hurt => \A p \in Producers : \A k \in taken[p] + 1..pushed[p] :
              \E s \in Claimed : buffer[s] = <<p, k>>

\* When no producer is in a call, the consumer can get at all that was pushed.
NoItemHidden == (\A p \in Producers : call[p].at = "idle") => inPos = inPosMp
=============================================================================
