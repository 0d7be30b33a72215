------------------------------- MODULE Reports -------------------------------
(***************************************************************************)
(* What the firmware tells of itself (src/main.cpp): the network task      *)
(* judges the signal by samples in a row, the metering task looks at the   *)
(* fill of the flash queue and at its drop counter.                        *)
(***************************************************************************)
EXTENDS Naturals

CONSTANTS ConsecutiveCount,  \* RSSI_CONSECUTIVE_COUNT, 3
          Capacity,          \* the records the flash holds
          SectorRecords,     \* pending records that an erase may cost
          MaxDropped         \* bound: records dropped

\* What the constants must be.
LimitAssumption ==
    /\ ConsecutiveCount \in Nat \ {0}
    /\ Capacity \in Nat /\ SectorRecords \in Nat /\ MaxDropped \in Nat

VARIABLES count,        \* lowSignalCount, recoveredSignalCount, unknownSignalCount
          lowSignal, signalUnknown,
          streak,       \* history: the kind of the last samples that had one, and their number
          settled,      \* history: was the last long streak of low or recovered samples low?
          depth, dropped,        \* of the flash queue
          stats,        \* what storage_stats told the pass under way, if one is
          queueNearFullReported, lastDroppedNotified,
          untold        \* history: of this boot's drops, "none", "new" ones or some a look has "seen"

signal == <<count, lowSignal, signalUnknown, streak, settled>>
queue  == <<depth, dropped, stats, queueNearFullReported, lastDroppedNotified, untold>>
vars   == <<signal, queue>>

NoStats == [at |-> "none"]
NoCount == [low |-> 0, recovered |-> 0, unknown |-> 0]

Init ==
    /\ count = NoCount /\ lowSignal = FALSE /\ signalUnknown = FALSE
    /\ streak = [kind |-> "none", n |-> 0] /\ settled = FALSE
    /\ stats = NoStats /\ queueNearFullReported = FALSE /\ lastDroppedNotified = 0
    /\ untold = "none" /\ depth = 0 /\ dropped = 0

-----------------------------------------------------------------------------
\* A sample of the given kind; the history follows streaks up to the limit.
Sampled(kind) ==
    LET n == IF streak.kind = kind
             THEN IF streak.n < ConsecutiveCount THEN streak.n + 1 ELSE streak.n
             ELSE 1
    IN  /\ streak' = [kind |-> kind, n |-> n]
        /\ settled' = IF n = ConsecutiveCount /\ kind # "unknown" THEN kind = "low" ELSE settled
        /\ UNCHANGED queue

\* 99 says that the modem does not know.
SampleUnknown ==
    /\ count' = [NoCount EXCEPT !.unknown = count.unknown + (IF signalUnknown THEN 0 ELSE 1)]
    /\ signalUnknown' = (signalUnknown \/ count'.unknown >= ConsecutiveCount)
    /\ Sampled("unknown") /\ UNCHANGED lowSignal

SampleLow ==
    /\ count' = [NoCount EXCEPT !.low = count.low + (IF lowSignal THEN 0 ELSE 1)]
    /\ lowSignal' = (lowSignal \/ count'.low >= ConsecutiveCount)
    /\ signalUnknown' = FALSE
    /\ Sampled("low")

SampleRecovered ==
    /\ count' = [NoCount EXCEPT !.recovered = count.recovered + (IF lowSignal THEN 1 ELSE 0)]
    /\ lowSignal' = (lowSignal /\ count'.recovered < ConsecutiveCount)
    /\ signalUnknown' = FALSE
    /\ Sampled("recovered")

-----------------------------------------------------------------------------
(* reportQueueHealth; the other tasks append and pop in between, and so    *)
(* does emitEvent.                                                         *)

Look ==
    /\ stats.at = "none"
    /\ stats' = [at |-> "fill", depth |-> depth, dropped |-> dropped]
    /\ untold' = IF untold = "new" THEN "seen" ELSE untold
    /\ UNCHANGED <<signal, depth, dropped, queueNearFullReported, lastDroppedNotified>>

JudgeFill ==
    /\ stats.at = "fill"
    /\ queueNearFullReported' = \/ stats.depth * 100 >= Capacity * 80
                                \/ queueNearFullReported /\ stats.depth * 100 >= Capacity * 70
    /\ stats' = [stats EXCEPT !.at = "drops"]
    /\ UNCHANGED <<signal, depth, dropped, lastDroppedNotified, untold>>

JudgeDrops ==
    /\ stats.at = "drops"
    /\ \/ /\ stats.dropped > lastDroppedNotified
          /\ lastDroppedNotified' = stats.dropped
          /\ untold' = IF untold = "seen" THEN "none" ELSE untold
       \/ stats.dropped <= lastDroppedNotified /\ UNCHANGED <<lastDroppedNotified, untold>>
    /\ stats' = NoStats
    /\ UNCHANGED <<signal, depth, dropped, queueNearFullReported>>

\* storage_append and storage_pop; a full flash gives up a sector.
Append ==
    /\ depth < Capacity
    /\ depth' = depth + 1
    /\ UNCHANGED <<signal, dropped, stats, queueNearFullReported, lastDroppedNotified, untold>>

Drop ==
    /\ depth > Capacity - SectorRecords
    /\ \E n \in 1..SectorRecords :
         /\ dropped + n <= MaxDropped
         /\ dropped' = dropped + n /\ depth' = depth - n
    /\ untold' = IF untold = "seen" THEN "seen" ELSE "new"
    /\ UNCHANGED <<signal, stats, queueNearFullReported, lastDroppedNotified>>

Pop ==
    /\ depth > 0
    /\ depth' = depth - 1
    /\ UNCHANGED <<signal, dropped, stats, queueNearFullReported, lastDroppedNotified, untold>>

Forget ==
    /\ count' = NoCount /\ lowSignal' = FALSE /\ signalUnknown' = FALSE
    /\ streak' = [kind |-> "none", n |-> 0] /\ settled' = FALSE
    /\ stats' = NoStats /\ queueNearFullReported' = FALSE /\ untold' = "none"

Restart_KeepsNotified == Forget /\ dropped' \in 0..dropped /\ UNCHANGED <<depth, lastDroppedNotified>>

\* After a reset RAM is as at first, and the drop counter is that of the last checkpoint.
Restart == Forget /\ dropped' \in 0..dropped /\ lastDroppedNotified' = 0 /\ UNCHANGED depth

Next ==
    \/ SampleUnknown \/ SampleLow \/ SampleRecovered
    \/ Look \/ JudgeFill \/ JudgeDrops
    \/ Append \/ Drop \/ Pop \/ Restart

Spec == Init /\ [][Next]_vars

-----------------------------------------------------------------------------
\* A signal is reported low, and reported recovered, after as many samples in a row
\* as the limit and no fewer, and unknown likewise (main.cpp networkTask).
SignalIsLastThree ==
    /\ lowSignal = settled
    /\ signalUnknown = (streak = [kind |-> "unknown", n |-> ConsecutiveCount])

\* A drop of this boot that reportQueueHealth has seen is reported when it returns,
\* though the counter may have gone back with the last reset (main.cpp:170).
DropsAreTold == stats = NoStats => untold # "seen"

\* What the firmware tells of its signal and of its flash is so, and nothing is kept
\* to itself.
ReportsAreRight == SignalIsLastThree /\ DropsAreTold
=============================================================================
