--------------------------- MODULE SoftwareSerial ---------------------------
(***************************************************************************)
(* The bit-banged UART of the firmware's library (EspSoftwareSerial). An   *)
(* interrupt handler notes when the line changed; the task that reads      *)
(* turns the times between the changes back into bits, words and parity.   *)
(* The peer shifts its words out the way write() does. Levels are those    *)
(* after undoing m_invert, times are ticks, and both rings are first-in    *)
(* first-out queues, which is what CircularQueue shows of them.            *)
(***************************************************************************)
EXTENDS Integers, Sequences, SequencesExt, FiniteSets

CONSTANTS DataBits,      \* m_dataBits
          HasParity,     \* m_parityMode: none, or even
          StopBits,      \* m_stopBits
          BitTicks,      \* m_bitTicks
          Latency,       \* how late, in ticks, the handler may read the clock
          IsrCapacity,   \* of m_isrBuffer
          BufCapacity,   \* of m_buffer
          ParityGroup,   \* parity bits in one element of m_parityBuffer (8 in the code)
          TickRange,     \* what the tick counter counts modulo (2^32 in the code)
          Words,         \* the words the peer may send
          MaxIdle        \* bound: bit times the line rests

\* What the constants must be.
SerialAssumption ==
  /\ {DataBits, StopBits, IsrCapacity, BufCapacity, ParityGroup} \subseteq Nat \ {0}
  /\ HasParity \in BOOLEAN
  /\ Words \subseteq [1..DataBits -> BOOLEAN]
  /\ {BitTicks, Latency, MaxIdle} \subseteq Nat /\ 2 * Latency < BitTicks
  /\ TickRange > (DataBits + StopBits + 2 + MaxIdle) * BitTicks

VARIABLES line,      \* the bits the peer has still to send of a word, the level, the rest
          now,       \* ticks() at the start of the present bit time
          isr,       \* m_isrBuffer and m_isrOverflow
          word,      \* m_rxLastBit, m_rxCurByte, m_rxCurParity, m_isrLastTick and its level
          received,  \* m_buffer: of each word in it, the parity it came with
          parity,    \* m_parityBuffer, its pending element and the two bit positions
          overflow,  \* m_overflow
          reader,    \* where the reading task is
          seen       \* history: words to come, and what went wrong, was lost or reported

vars == <<line, now, isr, word, received, parity, overflow, reader, seen>>

pduBits == DataBits + (IF HasParity THEN 1 ELSE 0) + StopBits

ParityOf(w) == Cardinality({i \in DOMAIN w : w[i]}) % 2 = 1

\* write(): a start bit, the data from the least significant bit, the parity and
\* the stop bits, each for one bit time.
Waveform(w) ==
  <<FALSE>> \o w \o (IF HasParity THEN <<ParityOf(w)>> ELSE <<>>)
            \o [i \in 1..StopBits |-> TRUE]

ParityCapacity == (BufCapacity + ParityGroup - 1) \div ParityGroup

\* begin(), beginRx() and enableRx(): a line at rest, nothing received.
Init ==
  /\ line = [left |-> <<>>, level |-> TRUE, idle |-> 0]
  /\ now = 0
  /\ isr = [queue |-> <<>>, overflow |-> FALSE]
  /\ word = [lastBit |-> pduBits - 1, bits |-> <<>>, parity |-> FALSE,
             lastTick |-> 0, level |-> TRUE]
  /\ received = <<>>
  /\ parity = [queue |-> <<>>, pending |-> [i \in 1..ParityGroup |-> FALSE],
               inPos |-> 1, outPos |-> 1]
  /\ overflow = FALSE
  /\ reader = [at |-> "idle"]
  /\ seen = [due |-> <<>>, wrong |-> FALSE, mixed |-> FALSE, lost |-> FALSE,
             reported |-> FALSE, late |-> FALSE]

-----------------------------------------------------------------------------
(* The line and the interrupt handler.                                     *)

\* Words are followed until something is lost.
Lose(h) == [h EXCEPT !.lost = TRUE, !.due = <<>>]

\* rxBitISR: the new level and the time, or the overflow mark.
Edge(level, tick, h) ==
  IF Len(isr.queue) < IsrCapacity
    THEN /\ isr' = [isr EXCEPT !.queue = Append(@, [tick |-> tick, level |-> level])]
         /\ seen' = [h EXCEPT !.late = @ \/ reader.at = "clock"]
    ELSE /\ isr' = [isr EXCEPT !.overflow = TRUE]
         /\ seen' = Lose(h)

\* The line takes the level of its next bit time. After a loss it stops (a bound of
\* the model).
ShiftTo(level, h) ==
  /\ ~seen.lost /\ ~seen.late
  /\ now' = (now + BitTicks) % TickRange
  /\ IF level = line.level THEN UNCHANGED isr /\ seen' = h
     ELSE \E late \in 0..Latency : Edge(level, (now' + late) % TickRange, h)
  /\ UNCHANGED <<word, received, parity, overflow, reader>>

NextBit ==
  /\ line.left # <<>>
  /\ line' = [line EXCEPT !.left = Tail(@), !.level = Head(line.left), !.idle = 0]
  /\ ShiftTo(Head(line.left), seen)

StartWord(w) ==
  /\ line.left = <<>>
  /\ line' = [left |-> Tail(Waveform(w)), level |-> FALSE, idle |-> 0]
  /\ ShiftTo(FALSE, [seen EXCEPT !.due = Append(@, w)])

IdleBit ==
  /\ line.left = <<>> /\ line.idle < MaxIdle
  /\ line' = [line EXCEPT !.idle = @ + 1]
  /\ ShiftTo(TRUE, seen)

-----------------------------------------------------------------------------
(* rxBits(isrTick): the time since the last change, at the level before    *)
(* it, is a run of bits.                                                   *)

RunLength(ticksDiff) ==
  ticksDiff \div BitTicks + (IF ticksDiff % BitTicks > BitTicks \div 2 THEN 1 ELSE 0)

\* Start bit: a high level leaves the word closed.
TakeStart(st, level) ==
  CASE st.n = 0 \/ st.lastBit < pduBits - 1 -> st
    [] st.lastBit >= pduBits - 1 /\ level    -> [st EXCEPT !.n = 0]
    [] OTHER -> [st EXCEPT !.n = @ - 1, !.lastBit = -1]

TakeData(st, level) ==
  LET rest == DataBits - 1 - st.lastBit
      k == IF st.n < rest THEN st.n ELSE rest
  IN  IF st.n = 0 \/ rest <= 0 THEN st
      ELSE [st EXCEPT !.n = @ - k, !.lastBit = @ + k,
                      !.bits = @ \o [i \in 1..k |-> level]]

TakeParity(st, level) ==
  IF st.n > 0 /\ HasParity /\ st.lastBit = DataBits - 1
    THEN [st EXCEPT !.n = @ - 1, !.lastBit = @ + 1, !.parity = level]
    ELSE st

Run(n, level) ==
  LET st == [n |-> n, lastBit |-> word.lastBit, bits |-> word.bits, parity |-> word.parity]
  IN  TakeParity(TakeData(TakeStart(st, level), level), level)

\* A parity bit goes to its place in the pending element; a full element is pushed,
\* and push() may refuse it.
StoreParity(bit) ==
  LET pending == [parity.pending EXCEPT ![parity.inPos] = bit]
      full    == parity.inPos = ParityGroup
  IN  [parity EXCEPT !.pending = pending,
                     !.inPos = IF full THEN 1 ELSE @ + 1,
                     !.queue = IF full /\ Len(@) < ParityCapacity
                                 THEN Append(@, pending) ELSE @]

\* Stop bits: a word is stored if they are all there and high, and if the buffer
\* has room.
Decode(tick, newLevel) ==
  LET st     == Run(RunLength((tick - word.lastTick) % TickRange), word.level)
      ends   == st.n > 0
      stored == ends /\ word.level /\ st.n >= pduBits - 1 - st.lastBit
      fits   == Len(received) < BufCapacity
  IN  /\ word' = [lastBit  |-> IF ends THEN pduBits - 1 ELSE st.lastBit,
                  bits     |-> IF ends THEN <<>> ELSE st.bits,
                  parity   |-> ~ends /\ st.parity,
                  lastTick |-> tick, level |-> newLevel]
      /\ IF stored /\ fits
           THEN /\ received' = Append(received, st.parity)
                /\ parity' = IF HasParity THEN StoreParity(st.parity) ELSE parity
                /\ seen' = IF seen.lost THEN seen
                           ELSE [seen EXCEPT !.wrong = @ \/ seen.due = <<>>
                                                         \/ Head(seen.due) # st.bits,
                                             !.due = IF @ = <<>> THEN @ ELSE Tail(@)]
                /\ UNCHANGED overflow
           ELSE /\ overflow' = (overflow \/ stored)
                /\ seen' = IF stored THEN Lose(seen) ELSE seen
                /\ UNCHANGED <<received, parity>>

lineRests == UNCHANGED <<line, now>>

\* rxBits() starts: the handler's overflow mark moves to m_overflow, and for_each
\* goes up to the newest change at this moment.
RxBits ==
  /\ reader.at = "idle"
  /\ overflow' = (overflow \/ isr.overflow)
  /\ isr' = [isr EXCEPT !.overflow = FALSE]
  /\ reader' = [at |-> "each", left |-> Len(isr.queue)]
  /\ lineRests /\ UNCHANGED <<word, received, parity, seen>>

DecodeNext ==
  /\ reader.at = "each" /\ reader.left > 0
  /\ Decode(Head(isr.queue).tick, Head(isr.queue).level)
  /\ isr' = [isr EXCEPT !.queue = Tail(@)]
  /\ reader' = [reader EXCEPT !.left = @ - 1]
  /\ lineRests

\* Is a word open, and is there no newer change? Only then is the clock read.
CheckPending ==
  /\ reader.at = "each" /\ reader.left = 0
  /\ reader' = IF word.lastBit < pduBits - 1 /\ isr.queue = <<>>
                 THEN [at |-> "clock"] ELSE [at |-> "decoded"]
  /\ lineRests /\ UNCHANGED <<isr, word, received, parity, overflow, seen>>

\* The word's time is over: a stop bit is made up. The task reads the clock at any
\* moment of the present bit time after the handler has run.
FauxStop ==
  /\ reader.at = "clock"
  /\ \E ticks \in now + Latency..now + BitTicks - 1 :
       LET detectionTicks == (pduBits - 1 - word.lastBit) * BitTicks
       IN  IF (ticks - word.lastTick) % TickRange > detectionTicks
           THEN Decode((word.lastTick + detectionTicks) % TickRange, TRUE)
           ELSE UNCHANGED <<word, received, parity, overflow, seen>>
  /\ reader' = [at |-> "decoded"]
  /\ lineRests /\ UNCHANGED isr

-----------------------------------------------------------------------------
(* The calls: read(), read(buffer, n), overflow() and flush(); available() *)
(* and write() only decode.                                                *)

\* The parity of the oldest word: from the oldest element, which is the pending
\* one when none is full.
NextParity ==
  (IF parity.queue = <<>> THEN parity.pending ELSE Head(parity.queue))[parity.outPos]

\* n parity bits are read off.
ParityAfter(n) ==
  LET past == parity.outPos - 1 + n
  IN  [parity EXCEPT !.outPos = (past % ParityGroup) + 1,
                     !.queue = SubSeq(@, past \div ParityGroup + 1, Len(@))]

Return ==
  /\ reader' = [at |-> "idle"]
  /\ lineRests /\ UNCHANGED <<isr, word>>

\* A read that finds no word decodes first (RxBits to Available) and looks again.
Read ==
  /\ reader.at = "idle" /\ received # <<>>
  /\ received' = Tail(received)
  /\ seen' = [seen EXCEPT !.mixed = @ \/ (HasParity /\ Head(received) # NextParity)]
  /\ parity' = IF HasParity THEN ParityAfter(1) ELSE parity
  /\ Return /\ UNCHANGED overflow

ReadMany(n) ==
  /\ reader.at = "idle" /\ received # <<>>
  /\ LET k == IF n < Len(received) THEN n ELSE Len(received)
     IN  /\ received' = SubSeq(received, k + 1, Len(received))
         /\ parity' = IF HasParity THEN ParityAfter(k) ELSE parity
  /\ Return /\ UNCHANGED <<overflow, seen>>

Available ==
  /\ reader.at = "decoded"
  /\ Return /\ UNCHANGED <<received, parity, overflow, seen>>

Overflow ==
  /\ reader.at = "idle"
  /\ overflow' = FALSE
  /\ seen' = [seen EXCEPT !.reported = @ \/ overflow]
  /\ Return /\ UNCHANGED <<received, parity>>

Flush_KeepsParity ==
  /\ reader.at = "idle"
  /\ received' = <<>>
  /\ Return /\ UNCHANGED <<overflow, parity, seen>>

Flush ==
  /\ reader.at = "idle"
  /\ received' = <<>>
  /\ parity' = [parity EXCEPT !.inPos = 1, !.outPos = 1, !.queue = <<>>]
  /\ Return /\ UNCHANGED <<overflow, seen>>

-----------------------------------------------------------------------------
Line == NextBit \/ (\E w \in Words : StartWord(w)) \/ IdleBit

Reader ==
  \/ RxBits \/ DecodeNext \/ CheckPending \/ FauxStop
  \/ Read \/ (\E n \in 2..BufCapacity : ReadMany(n)) \/ Available \/ Overflow \/ Flush

Next == Line \/ Reader

Spec == Init /\ [][Next]_vars

-----------------------------------------------------------------------------
\* Unless something was dropped for want of room, or the line changed between the
\* check for newer changes and the clock, the words stored are the words sent, in
\* their order, none made up and none cut short (SoftwareSerial.cpp rxBits).
WordsAreThoseSent == ~seen.lost /\ ~seen.late => ~seen.wrong

\* A word that came completely does not stay behind: when its bit times are over and
\* the reader has decoded, it is stored, though no change of the line ended it
\* (SoftwareSerial.cpp:490 "A stop bit can go undetected").
NoWordPends ==
  reader.at # "decoded" /\ reader'.at = "decoded" /\ line.idle > 1
    /\ isr.queue = <<>> /\ ~seen'.lost /\ ~seen.late
  => seen'.due = <<>>

\* What was dropped for want of room the caller can learn from overflow().
LossIsReported == seen.lost => isr.overflow \/ overflow \/ seen.reported

\* read() gives each word the parity it came with, though parity bits are kept
\* apart from the words, several to an element (SoftwareSerial.cpp read, rxBits).
ParityStaysWithItsWord == ~seen.mixed
=============================================================================
