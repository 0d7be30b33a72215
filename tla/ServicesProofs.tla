--------------------------- MODULE ServicesProofs ----------------------------
(***************************************************************************)
(* Theorems about the components around the record path.  They are proved  *)
(* for every value of the constants: any number of channels and phases,    *)
(* any limits and debounce times, any sector size of the journal; and for  *)
(* every day of the calendar.                                              *)
(***************************************************************************)
EXTENDS Services, CalendarWalk, FiniteSetTheorems, WellFoundedInduction, TLAPS

-----------------------------------------------------------------------------
(* Metering.  A phase is at fault when the last readings in a row of one   *)
(* kind, as many as PHASE_FAULT_COUNT, were bad.  What makes it so: of the *)
(* two counters of a channel only the one that can change its state ever   *)
(* counts, and it counts the readings in a row that speak against it.      *)

LEMMA CountOn ==
    ASSUME NEW n \in Nat \ {0}, NEW x \in 0..(n - 1)
    PROVE  (x + 1) % n = IF x + 1 = n THEN 0 ELSE x + 1
  OBVIOUS

\* Type correctness for any number of channels and any count (updatePzemHealth,
\* pzem_read).
THEOREM TypeCorrect == Spec => []TypeOK
<1> USE CountAssumption
<1>1. Init => TypeOK
  BY DEF Init, Boot, TypeOK, Each, Channels
<1>2. TypeOK /\ [Next]_vars => TypeOK'
  <2> SUFFICES ASSUME TypeOK, [Next]_vars PROVE TypeOK'
    OBVIOUS
  <2>1. ASSUME NEW c \in Channels, Read(c) PROVE TypeOK'
    <3>1. PICK first \in Answers, second \in Answers : ReadAs(c, first, second)
      BY <2>1 DEF Read
    <3>2. next' \in 1..PhaseCount + 1
      BY <3>1 DEF ReadAs, TypeOK, Channels
    <3>3. /\ swapProbed' \in [Channels -> BOOLEAN] /\ swapped' \in [Channels -> BOOLEAN]
          /\ valid' \in [Channels -> BOOLEAN] /\ heard' \in [Channels -> BOOLEAN]
          /\ missed' \in [Channels -> BOOLEAN]
      BY <3>1, ZenonT(30) DEF ReadAs, TypeOK
    <3> QED
      BY <3>1, <3>2, <3>3 DEF ReadAs, TypeOK, health
  <2>2. CASE UpdatePzemHealth
    <3>1. \A c \in Channels : NextFailures(c) \in 0..PhaseFaultCount - 1
                           /\ NextSuccesses(c) \in 0..PhaseFaultCount - 1
      BY CountOn DEF TypeOK, NextFailures, NextSuccesses
    <3>2. \A c \in Channels : valid[c] \in BOOLEAN /\ (Faults(c) \/ (faulted[c] /\ ~Recovers(c))) \in BOOLEAN
      BY DEF TypeOK, Faults, Recovers
    <3>3. streak' \in [Channels -> [valid : BOOLEAN, n : 0..PhaseFaultCount]]
      BY <2>2 DEF TypeOK, UpdatePzemHealth, Capped
    <3> QED
      BY <2>2, <3>1, <3>2, <3>3 DEF TypeOK, UpdatePzemHealth, wires
  <2>3. CASE Restart
    BY <2>3 DEF TypeOK, Restart, Each
  <2>4. CASE UNCHANGED vars
    BY <2>4 DEF TypeOK, vars, wires, health
  <2> QED
    BY <2>1, <2>2, <2>3, <2>4 DEF Next
<1> QED
  BY <1>1, <1>2, PTL DEF Spec

-----------------------------------------------------------------------------

\* The counter that can end the present state counts the readings against it,
\* the other one rests at 0.
CountersFollow ==
    \A c \in Channels :
        /\ failureCount[c] = IF ~faulted[c] /\ ~streak[c].valid THEN streak[c].n ELSE 0
        /\ successCount[c] = IF faulted[c] /\ streak[c].valid THEN streak[c].n ELSE 0

FaultInv == TypeOK /\ FaultIsLastThree /\ CountersFollow

LEMMA FaultInvKept == FaultInv /\ TypeOK' /\ [Next]_vars => FaultInv'
<1> SUFFICES ASSUME FaultInv, TypeOK', [Next]_vars PROVE FaultIsLastThree' /\ CountersFollow'
  BY DEF FaultInv
<1> USE CountAssumption DEF FaultInv
<1>1. ASSUME NEW c \in Channels, Read(c) PROVE FaultIsLastThree' /\ CountersFollow'
  BY <1>1 DEF Read, ReadAs, health, FaultIsLastThree, CountersFollow
<1>2. CASE UpdatePzemHealth
  <2> SUFFICES ASSUME NEW c \in Channels
               PROVE  /\ faulted'[c] <=> ~settled'[c]
                      /\ failureCount'[c] = IF ~faulted'[c] /\ ~streak'[c].valid THEN streak'[c].n ELSE 0
                      /\ successCount'[c] = IF faulted'[c] /\ streak'[c].valid THEN streak'[c].n ELSE 0
    BY DEF FaultIsLastThree, CountersFollow
  <2> DEFINE n == IF streak[c].valid <=> valid[c] THEN Capped(streak[c].n + 1) ELSE 1
  <2>1. /\ faulted[c] \in BOOLEAN /\ valid[c] \in BOOLEAN /\ settled[c] \in BOOLEAN
        /\ streak[c].valid \in BOOLEAN /\ streak[c].n \in 0..PhaseFaultCount
        /\ failureCount[c] \in 0..PhaseFaultCount - 1 /\ successCount[c] \in 0..PhaseFaultCount - 1
    BY DEF TypeOK
  <2>2. /\ faulted[c] <=> ~settled[c]
        /\ failureCount[c] = IF ~faulted[c] /\ ~streak[c].valid THEN streak[c].n ELSE 0
        /\ successCount[c] = IF faulted[c] /\ streak[c].valid THEN streak[c].n ELSE 0
    BY DEF FaultIsLastThree, CountersFollow
  <2>3. /\ (streak'[c].valid <=> valid[c]) /\ streak'[c].n = n
        /\ failureCount'[c] = NextFailures(c) /\ successCount'[c] = NextSuccesses(c)
        /\ faulted'[c] <=> (Faults(c) \/ (faulted[c] /\ ~Recovers(c)))
        /\ settled'[c] <=> (IF n = PhaseFaultCount THEN valid[c] ELSE settled[c])
    BY <1>2 DEF UpdatePzemHealth
  <2>4. CASE valid[c] /\ faulted[c]
    <3>1. successCount[c] + 1 = n
      BY <2>1, <2>2, <2>4 DEF Capped
    <3>2. NextSuccesses(c) = IF n = PhaseFaultCount THEN 0 ELSE n
      BY <2>1, <2>4, <3>1, CountOn DEF NextSuccesses
    <3> QED
      BY <2>1, <2>2, <2>3, <2>4, <3>1, <3>2 DEF NextFailures, Faults, Recovers
  <2>5. CASE ~valid[c] /\ ~faulted[c]
    <3>1. failureCount[c] + 1 = n
      BY <2>1, <2>2, <2>5 DEF Capped
    <3>2. NextFailures(c) = IF n = PhaseFaultCount THEN 0 ELSE n
      BY <2>1, <2>5, <3>1, CountOn DEF NextFailures
    <3> QED
      BY <2>1, <2>2, <2>3, <2>5, <3>1, <3>2 DEF NextSuccesses, Faults, Recovers
  <2>6. CASE valid[c] /\ ~faulted[c]
    BY <2>1, <2>2, <2>3, <2>6 DEF NextFailures, NextSuccesses, Faults, Recovers
  <2>7. CASE ~valid[c] /\ faulted[c]
    BY <2>1, <2>2, <2>3, <2>7 DEF NextFailures, NextSuccesses, Faults, Recovers
  <2> QED
    BY <2>1, <2>4, <2>5, <2>6, <2>7
<1>3. CASE Restart
  BY <1>3 DEF Restart, Each, FaultIsLastThree, CountersFollow
<1>4. CASE UNCHANGED vars
  BY <1>4 DEF vars, health, FaultIsLastThree, CountersFollow
<1> QED
  BY <1>1, <1>2, <1>3, <1>4 DEF Next

\* A phase is at fault when the last PHASE_FAULT_COUNT readings in a row of one
\* kind were bad, whatever came between and before (updatePzemHealth).
THEOREM FaultsAreRight == Spec => []FaultIsLastThree
<1>1. Init => FaultIsLastThree /\ CountersFollow
  <2> SUFFICES ASSUME Init, NEW c \in Channels
               PROVE  /\ faulted[c] <=> ~settled[c]
                      /\ failureCount[c] = IF ~faulted[c] /\ ~streak[c].valid THEN streak[c].n ELSE 0
                      /\ successCount[c] = IF faulted[c] /\ streak[c].valid THEN streak[c].n ELSE 0
    BY DEF FaultIsLastThree, CountersFollow
  <2>1. ~faulted[c] /\ settled[c] /\ failureCount[c] = 0 /\ successCount[c] = 0
    BY DEF Init, Boot, Each
  <2>2. streak[c] = [valid |-> TRUE, n |-> 0]
    BY DEF Init, Boot, Each
  <2> QED
    BY <2>1, <2>2
<1>2. FaultInv => FaultIsLastThree /\ CountersFollow /\ TypeOK
  BY DEF FaultInv
<1>3. TypeOK /\ FaultIsLastThree /\ CountersFollow => FaultInv
  BY DEF FaultInv
<1> QED
  BY <1>1, <1>2, <1>3, FaultInvKept, TypeCorrect, PTL DEF Spec

-----------------------------------------------------------------------------

\* A unit on swapped pins is crossed, and a crossed one that was probed and is
\* not on them was silent then.
PinsFollow ==
    \A c \in Channels :
        /\ swapped[c] => wiring[c] = "crossed"
        /\ wiring[c] = "crossed" /\ swapProbed[c] /\ ~swapped[c] => missed[c]

\* A unit that answers is read, whichever way round it is wired, but for a
\* crossed one that was silent when the wires were probed (pzem_read).
THEOREM AnswersAreRead == Spec => []WhatAnswersIsRead
<1> USE CountAssumption
<1>1. Init => WhatAnswersIsRead /\ PinsFollow
  BY DEF Init, Boot, Each, WhatAnswersIsRead, PinsFollow
<1>2. TypeOK /\ WhatAnswersIsRead /\ PinsFollow /\ [Next]_vars => WhatAnswersIsRead' /\ PinsFollow'
  <2> SUFFICES ASSUME TypeOK, WhatAnswersIsRead, PinsFollow, [Next]_vars
               PROVE  WhatAnswersIsRead' /\ PinsFollow'
    OBVIOUS
  <2>1. ASSUME NEW c \in Channels, Read(c) PROVE WhatAnswersIsRead' /\ PinsFollow'
    <3>1. PICK first \in Answers, second \in Answers : ReadAs(c, first, second)
      BY <2>1 DEF Read
    <3> SUFFICES ASSUME NEW d \in Channels
                 PROVE  /\ heard'[d] => valid'[d] \/ (wiring'[d] = "crossed" /\ missed'[d])
                        /\ swapped'[d] => wiring'[d] = "crossed"
                        /\ wiring'[d] = "crossed" /\ swapProbed'[d] /\ ~swapped'[d] => missed'[d]
      BY DEF WhatAnswersIsRead, PinsFollow
    <3>2. CASE d # c
      BY <3>1, <3>2 DEF ReadAs, TypeOK, WhatAnswersIsRead, PinsFollow
    <3>3. CASE d = c
      BY <3>1, <3>3 DEF ReadAs, Received, Answers, TypeOK, WhatAnswersIsRead, PinsFollow
    <3> QED
      BY <3>2, <3>3
  <2>2. CASE UpdatePzemHealth
    BY <2>2 DEF UpdatePzemHealth, wires, WhatAnswersIsRead, PinsFollow
  <2>3. CASE Restart
    BY <2>3 DEF Restart, Each, WhatAnswersIsRead, PinsFollow
  <2>4. CASE UNCHANGED vars
    BY <2>4 DEF vars, wires, WhatAnswersIsRead, PinsFollow
  <2> QED
    BY <2>1, <2>2, <2>3, <2>4 DEF Next
<1> QED
  BY <1>1, <1>2, TypeCorrect, PTL DEF Spec

-----------------------------------------------------------------------------
(* The reports.  Of the three counters of the signal only the one of the   *)
(* last sample's kind is not zero, and it is as long as the streak until   *)
(* it has had its effect; the counter a pass of reportQueueHealth looked   *)
(* at is ahead of what was notified whenever it saw something untold.      *)

SignalType ==
    /\ count \in [low : Nat, recovered : Nat, unknown : Nat]
    /\ lowSignal \in BOOLEAN /\ signalUnknown \in BOOLEAN /\ signalSettled \in BOOLEAN
    /\ signalStreak \in [kind : {"none", "low", "recovered", "unknown"}, n : 0..ConsecutiveCount]

SignalInv ==
    /\ SignalType
    /\ lowSignal = signalSettled
    /\ IF signalStreak.kind = "low"
         THEN ~lowSignal => count.low = signalStreak.n /\ signalStreak.n < ConsecutiveCount
         ELSE count.low = 0
    /\ IF signalStreak.kind = "recovered"
         THEN lowSignal => count.recovered = signalStreak.n /\ signalStreak.n < ConsecutiveCount
         ELSE count.recovered = 0
    /\ IF signalStreak.kind = "unknown"
         THEN IF signalUnknown THEN signalStreak.n = ConsecutiveCount
              ELSE count.unknown = signalStreak.n /\ signalStreak.n < ConsecutiveCount
         ELSE count.unknown = 0 /\ ~signalUnknown

DropsInv ==
    /\ droppedRecords \in Nat /\ depth \in Int /\ lastDroppedNotified \in Nat
    /\ lastDroppedNotified <= droppedRecords
    /\ \/ stats = Report!NoStats
       \/ /\ stats \in [at : {"fill", "drops"}, depth : Int, dropped : Nat]
          /\ stats.dropped <= droppedRecords
    /\ untold = "new" => /\ droppedRecords > lastDroppedNotified
                         /\ stats # Report!NoStats => droppedRecords > stats.dropped
    /\ untold = "seen" => stats # Report!NoStats /\ stats.dropped > lastDroppedNotified

ReportsInv == component = "reports" => SignalInv /\ DropsInv

LEMMA Limits ==
    ConsecutiveCount \in Nat \ {0} /\ Capacity \in Nat /\ SectorRecords \in Nat /\ MaxDropped \in Nat
  BY ServicesAssumption DEF Report!LimitAssumption

\* The history of one more sample.
LEMMA StreakGoesOn ==
    ASSUME SignalType, NEW kind \in {"low", "recovered", "unknown"}, Report!Sampled(kind)
    PROVE  /\ signalStreak' \in [kind : {"none", "low", "recovered", "unknown"}, n : 0..ConsecutiveCount]
           /\ signalStreak'.kind = kind
           /\ signalStreak'.n = IF signalStreak.kind # kind THEN 1
                               ELSE IF signalStreak.n < ConsecutiveCount THEN signalStreak.n + 1
                               ELSE signalStreak.n
           /\ signalSettled' = IF signalStreak'.n = ConsecutiveCount /\ kind # "unknown"
                              THEN kind = "low" ELSE signalSettled
           /\ signalSettled' \in BOOLEAN
<1> USE Limits
<1>1. signalStreak.n \in 0..ConsecutiveCount
  BY DEF SignalType
<1> DEFINE n == IF signalStreak.kind = kind
               THEN IF signalStreak.n < ConsecutiveCount THEN signalStreak.n + 1 ELSE signalStreak.n
               ELSE 1
<1>2. n \in 0..ConsecutiveCount
  BY <1>1
<1>3. signalStreak' = [kind |-> kind, n |-> n]
  BY DEF Report!Sampled
<1>4. signalSettled' = IF n = ConsecutiveCount /\ kind # "unknown" THEN kind = "low" ELSE signalSettled
  BY DEF Report!Sampled
<1> QED
  BY <1>2, <1>3, <1>4 DEF SignalType

\* The counter a sample counts in, the others at 0.
LEMMA OneCounts ==
    ASSUME NEW c \in Nat
    PROVE  /\ [Report!NoCount EXCEPT !.low = c] = [low |-> c, recovered |-> 0, unknown |-> 0]
           /\ [Report!NoCount EXCEPT !.recovered = c] = [low |-> 0, recovered |-> c, unknown |-> 0]
           /\ [Report!NoCount EXCEPT !.unknown = c] = [low |-> 0, recovered |-> 0, unknown |-> c]
  BY DEF Report!NoCount

LEMMA SignalKept == ASSUME SignalInv, Report!Next PROVE SignalInv'
<1> USE Limits
<1>0. SignalType /\ count.low \in Nat /\ count.recovered \in Nat /\ count.unknown \in Nat
  BY DEF SignalInv, SignalType
<1>1. CASE Report!SampleUnknown
  <2> DEFINE c == count.unknown + (IF signalUnknown THEN 0 ELSE 1)
  <2>1. c \in Nat /\ Report!Sampled("unknown") /\ count' = [Report!NoCount EXCEPT !.unknown = c]
    BY <1>0, <1>1 DEF Report!SampleUnknown
  <2>2. count' = [low |-> 0, recovered |-> 0, unknown |-> c]
    BY <2>1, OneCounts
  <2>3. (signalUnknown' <=> (signalUnknown \/ c >= ConsecutiveCount)) /\ lowSignal' = lowSignal
        /\ signalUnknown' \in BOOLEAN
    BY <1>1, <2>2 DEF Report!SampleUnknown
  <2> HIDE DEF c
  <2>4. /\ signalStreak' \in [kind : {"none", "low", "recovered", "unknown"}, n : 0..ConsecutiveCount]
        /\ signalStreak'.kind = "unknown"
        /\ signalStreak'.n = IF signalStreak.kind # "unknown" THEN 1
                            ELSE IF signalStreak.n < ConsecutiveCount THEN signalStreak.n + 1
                            ELSE signalStreak.n
        /\ signalSettled' = signalSettled
        /\ signalSettled' \in BOOLEAN
    BY <1>0, <2>1, StreakGoesOn DEF SignalType
  <2>5. SignalType'
    <3>0. c \in Nat
      BY <2>1
    <3>1. count' \in [low : Nat, recovered : Nat, unknown : Nat]
      BY <3>0, <2>2
    <3>2. lowSignal' \in BOOLEAN /\ signalUnknown' \in BOOLEAN
      BY <1>0, <2>3 DEF SignalType
    <3> QED
      BY <2>4, <3>1, <3>2, Zenon DEF SignalType
  <2>6. /\ signalStreak.n \in 0..ConsecutiveCount /\ lowSignal \in BOOLEAN /\ signalUnknown \in BOOLEAN
        /\ signalSettled \in BOOLEAN
    BY <1>0 DEF SignalType
  <2>7. count'.low = 0 /\ count'.recovered = 0 /\ count'.unknown = c
    BY <2>2
  <2> QED
    BY <1>0, <2>3, <2>4, <2>5, <2>6, <2>7 DEF SignalInv, c
<1>2. CASE Report!SampleLow
  <2> DEFINE c == count.low + (IF lowSignal THEN 0 ELSE 1)
  <2>1. c \in Nat /\ Report!Sampled("low") /\ count' = [Report!NoCount EXCEPT !.low = c]
    BY <1>0, <1>2 DEF Report!SampleLow
  <2>2. count' = [low |-> c, recovered |-> 0, unknown |-> 0]
    BY <2>1, OneCounts
  <2>3. (lowSignal' <=> (lowSignal \/ c >= ConsecutiveCount)) /\ signalUnknown' = FALSE
        /\ lowSignal' \in BOOLEAN
    BY <1>2, <2>2 DEF Report!SampleLow
  <2> HIDE DEF c
  <2>4. /\ signalStreak' \in [kind : {"none", "low", "recovered", "unknown"}, n : 0..ConsecutiveCount]
        /\ signalStreak'.kind = "low"
        /\ signalStreak'.n = IF signalStreak.kind # "low" THEN 1
                            ELSE IF signalStreak.n < ConsecutiveCount THEN signalStreak.n + 1
                            ELSE signalStreak.n
        /\ signalSettled' = (signalStreak'.n = ConsecutiveCount \/ signalSettled)
        /\ signalSettled' \in BOOLEAN
    BY <1>0, <2>1, StreakGoesOn DEF SignalType
  <2>5. SignalType'
    <3>0. c \in Nat
      BY <2>1
    <3>1. count' \in [low : Nat, recovered : Nat, unknown : Nat]
      BY <3>0, <2>2
    <3>2. lowSignal' \in BOOLEAN /\ signalUnknown' \in BOOLEAN
      BY <1>0, <2>3 DEF SignalType
    <3> QED
      BY <2>4, <3>1, <3>2, Zenon DEF SignalType
  <2>6. /\ signalStreak.n \in 0..ConsecutiveCount /\ lowSignal \in BOOLEAN /\ signalUnknown \in BOOLEAN
        /\ signalSettled \in BOOLEAN
    BY <1>0 DEF SignalType
  <2>7. count'.low = c /\ count'.recovered = 0 /\ count'.unknown = 0
    BY <2>2
  <2> QED
    BY <1>0, <2>3, <2>4, <2>5, <2>6, <2>7 DEF SignalInv, c
<1>3. CASE Report!SampleRecovered
  <2> DEFINE c == count.recovered + (IF lowSignal THEN 1 ELSE 0)
  <2>1. c \in Nat /\ Report!Sampled("recovered") /\ count' = [Report!NoCount EXCEPT !.recovered = c]
    BY <1>0, <1>3 DEF Report!SampleRecovered
  <2>2. count' = [low |-> 0, recovered |-> c, unknown |-> 0]
    BY <2>1, OneCounts
  <2>3. (lowSignal' <=> (lowSignal /\ c < ConsecutiveCount)) /\ signalUnknown' = FALSE
        /\ lowSignal' \in BOOLEAN
    BY <1>3, <2>2 DEF Report!SampleRecovered
  <2> HIDE DEF c
  <2>4. /\ signalStreak' \in [kind : {"none", "low", "recovered", "unknown"}, n : 0..ConsecutiveCount]
        /\ signalStreak'.kind = "recovered"
        /\ signalStreak'.n = IF signalStreak.kind # "recovered" THEN 1
                            ELSE IF signalStreak.n < ConsecutiveCount THEN signalStreak.n + 1
                            ELSE signalStreak.n
        /\ signalSettled' = (signalStreak'.n # ConsecutiveCount /\ signalSettled)
        /\ signalSettled' \in BOOLEAN
    BY <1>0, <2>1, StreakGoesOn DEF SignalType
  <2>5. SignalType'
    <3>0. c \in Nat
      BY <2>1
    <3>1. count' \in [low : Nat, recovered : Nat, unknown : Nat]
      BY <3>0, <2>2
    <3>2. lowSignal' \in BOOLEAN /\ signalUnknown' \in BOOLEAN
      BY <1>0, <2>3 DEF SignalType
    <3> QED
      BY <2>4, <3>1, <3>2, Zenon DEF SignalType
  <2>6. /\ signalStreak.n \in 0..ConsecutiveCount /\ lowSignal \in BOOLEAN /\ signalUnknown \in BOOLEAN
        /\ signalSettled \in BOOLEAN
    BY <1>0 DEF SignalType
  <2>7. count'.low = 0 /\ count'.recovered = c /\ count'.unknown = 0
    BY <2>2
  <2> QED
    BY <1>0, <2>3, <2>4, <2>5, <2>6, <2>7 DEF SignalInv, c
<1>4. CASE UNCHANGED Report!signal
  BY <1>4 DEF Report!signal, SignalInv, SignalType
<1>5. CASE Report!Restart
  <2>1. /\ count' = [low |-> 0, recovered |-> 0, unknown |-> 0] /\ lowSignal' = FALSE
        /\ signalUnknown' = FALSE /\ signalSettled' = FALSE
        /\ signalStreak' = [kind |-> "none", n |-> 0]
    BY <1>5 DEF Report!Restart, Report!Forget, Report!NoCount
  <2>2. count' \in [low : Nat, recovered : Nat, unknown : Nat]
    BY <2>1
  <2>3. signalStreak' \in [kind : {"none", "low", "recovered", "unknown"}, n : 0..ConsecutiveCount]
    BY <2>1
  <2>4. lowSignal' \in BOOLEAN /\ signalUnknown' \in BOOLEAN /\ signalSettled' \in BOOLEAN
    BY <2>1
  <2>5. SignalType'
    BY <2>2, <2>3, <2>4, Zenon DEF SignalType
  <2> QED
    BY <2>1, <2>5 DEF SignalInv
<1> QED
  BY <1>1, <1>2, <1>3, <1>4, <1>5
  DEF Report!Next, Report!Look, Report!JudgeFill, Report!JudgeDrops, Report!Append, Report!Drop,
      Report!Pop, Report!signal

LEMMA DropsKept == ASSUME DropsInv, Report!Next PROVE DropsInv'
<1> USE Limits DEF Report!NoStats
<1>1. CASE UNCHANGED Report!queue
  BY <1>1 DEF Report!queue, DropsInv
<1>2. CASE Report!Look
  BY <1>2 DEF Report!Look, DropsInv
<1>3. CASE Report!JudgeFill
  BY <1>3 DEF Report!JudgeFill, DropsInv
<1>4. CASE Report!JudgeDrops
  BY <1>4 DEF Report!JudgeDrops, DropsInv
<1>5. CASE Report!Append \/ Report!Pop
  BY <1>5 DEF Report!Append, Report!Pop, DropsInv
<1>6. CASE Report!Drop
  <2>1. PICK n \in 1..SectorRecords : droppedRecords' = droppedRecords + n /\ depth' = depth - n
    BY <1>6 DEF Report!Drop
  <2> QED
    BY <1>6, <2>1 DEF Report!Drop, DropsInv
<1>7. CASE Report!Restart
  BY <1>7 DEF Report!Restart, Report!Forget, DropsInv
<1> QED
  BY <1>1, <1>2, <1>3, <1>4, <1>5, <1>6, <1>7
  DEF Report!Next, Report!SampleUnknown, Report!SampleLow, Report!SampleRecovered, Report!Sampled

\* A signal is reported low, recovered or unknown after as many samples in a row as the
\* limit and no fewer, whatever kinds came before, and a drop that reportQueueHealth has
\* seen is reported when it returns, though a reset may have put the counter back.
THEOREM ReportsRight == ServicesSpec => []ReportsAreRight
<1> USE Limits
<1>1. ServicesInit => ReportsInv
  <2> SUFFICES ASSUME ServicesInit, component = "reports" PROVE SignalInv /\ DropsInv
    BY DEF ReportsInv
  <2>1. Report!Init
    BY DEF ServicesInit
  <2>2. /\ count = [low |-> 0, recovered |-> 0, unknown |-> 0] /\ lowSignal = FALSE
        /\ signalUnknown = FALSE /\ signalSettled = FALSE
        /\ signalStreak = [kind |-> "none", n |-> 0]
    BY <2>1 DEF Report!Init, Report!NoCount
  <2>3. SignalType
    <3>1. count \in [low : Nat, recovered : Nat, unknown : Nat]
      BY <2>2
    <3>2. signalStreak \in [kind : {"none", "low", "recovered", "unknown"}, n : 0..ConsecutiveCount]
      BY <2>2
    <3>3. lowSignal \in BOOLEAN /\ signalUnknown \in BOOLEAN /\ signalSettled \in BOOLEAN
      BY <2>2
    <3> QED
      BY <3>1, <3>2, <3>3, Zenon DEF SignalType
  <2>4. SignalInv
    BY <2>2, <2>3 DEF SignalInv
  <2>5. DropsInv
    BY <2>1 DEF Report!Init, Report!NoStats, DropsInv
  <2> QED
    BY <2>4, <2>5
<1>2. ReportsInv /\ [ServicesNext]_servicesVars => ReportsInv'
  <2> SUFFICES ASSUME ReportsInv, [ServicesNext]_servicesVars PROVE ReportsInv'
    OBVIOUS
  <2>1. CASE ReportsStep
    BY <2>1, SignalKept, DropsKept DEF ReportsStep, ReportsInv
  <2>2. CASE component # "reports" /\ component' = component
    BY <2>2 DEF ReportsInv
  <2>3. CASE component' = component /\ UNCHANGED reportVars
    BY <2>3 DEF ReportsInv, reportVars, SignalInv, SignalType, DropsInv
  <2> QED
    BY <2>1, <2>2, <2>3
    DEF ServicesNext, MeteringStep, JournalStep, PowerStep, TimeStep, CertsStep, servicesVars
<1>3. ReportsInv => ReportsAreRight
  BY DEF ReportsInv, ReportsAreRight, Report!ReportsAreRight, Report!SignalIsLastThree,
         Report!DropsAreTold, SignalInv, SignalType, DropsInv
<1> QED
  BY <1>1, <1>2, <1>3, PTL DEF ServicesSpec

-----------------------------------------------------------------------------
(* The certificates.  A whole header is that of files that were found      *)
(* usable, and while no edit came in since builds run, each of them reads  *)
(* files that agree with the endpoint about whose CA it is to be.          *)

PemFile == [label : {"none", "CERTIFICATE", "PRIVATE KEY", "PUBLIC KEY"}, der : BOOLEAN,
            pair : Nat, crlf : BOOLEAN]
PemFiles == [Certs!Files -> PemFile]

FilesOk ==
    /\ files \in PemFiles
    /\ \A f \in Certs!Files : files[f] = Certs!Absent \/ files[f].pair # 0
    /\ awsDefault \in BOOLEAN /\ edited \in BOOLEAN

\* The states of a build that has begun to read, those with a CA and those with all three.
Reading == {"ca", "cert", "key", "check", "header", "write"}
HasCa == {"cert", "key", "check", "header", "write"}
HasAll == {"header", "write"}

BuildType ==
    \A b \in Builds :
        \/ build[b].at \in {"idle", "compile"}
        \/ build[b].at = "endpoint" /\ build[b].customCa \in BOOLEAN
        \/ build[b].at \in Reading /\ build[b].customCa \in BOOLEAN /\ build[b].read \in PemFiles

ReadsAreOk ==
    \A b \in Builds :
        /\ build[b].at \in HasCa => IF build[b].customCa THEN build[b].read["ca"].pair # 0
                                                      ELSE build[b].read["ca"] = Certs!AmazonCa
        /\ build[b].at \in HasAll => Certs!Usable(build[b].read)

HeaderOk ==
    /\ header.st = "whole" => header.of = header.bundle /\ Certs!Usable(header.of)
    /\ header = [st |-> header.st, of |-> header.of, bundle |-> header.bundle]

AgreesWithEndpoint ==
    ~edited => \A b \in Builds :
        /\ build[b].at \in Reading => (build[b].customCa <=> ~awsDefault)
        /\ build[b].at = "compile" /\ header.st = "whole"
             => ((header.of["ca"] = Certs!AmazonCa) <=> awsDefault)

ImagesOk ==
    \A b \in Builds : image[b].st = "whole" =>
        /\ image[b].of = image[b].bundle /\ Certs!Usable(image[b].of)
        /\ ~image[b].edited => ((image[b].of["ca"] = Certs!AmazonCa) <=> image[b].awsDefault)
        /\ image[b].awsDefault \in BOOLEAN

CertsInv ==
    /\ build = [b \in Builds |-> build[b]] /\ image = [b \in Builds |-> image[b]]
    /\ FilesOk /\ BuildType /\ ReadsAreOk /\ HeaderOk /\ AgreesWithEndpoint /\ ImagesOk

\* What may be put into a file is a file, and none of Amazon's.
LEMMA ContentsOk ==
    ASSUME NEW f \in Certs!Files, NEW c \in Contents[f]
    PROVE  c \in PemFile /\ (c = Certs!Absent \/ c.pair # 0)
<1>1. Contents[f] \subseteq {Certs!Absent} \cup
         [label : {"none", "CERTIFICATE", "PRIVATE KEY", "PUBLIC KEY"}, der : BOOLEAN,
          pair : Nat \ {0}, crlf : BOOLEAN]
  BY ServicesAssumption DEF Certs!ContentsAssumption
<1>2. Certs!Absent \in PemFile
  BY DEF Certs!Absent, PemFile
<1>3. CASE c = Certs!Absent
  BY <1>2, <1>3
<1>4. CASE c # Certs!Absent
  BY <1>1, <1>4 DEF PemFile
<1> QED
  BY <1>3, <1>4

\* The header of usable files: both of its parts are usable and have the CA's owner.
LEMMA WholeHeader ==
    ASSUME NEW read \in PemFiles, Certs!Usable(read)
    PROVE  /\ Certs!HeaderOf(read).st = "whole"
           /\ Certs!HeaderOf(read).of = Certs!HeaderOf(read).bundle
           /\ Certs!Usable(Certs!HeaderOf(read).of)
           /\ read["ca"] = Certs!AmazonCa => Certs!HeaderOf(read).of["ca"] = Certs!AmazonCa
           /\ read["ca"].pair # 0 => Certs!HeaderOf(read).of["ca"] # Certs!AmazonCa
<1> DEFINE Plain(f) == [read[f] EXCEPT !.crlf = FALSE]
           plain == [f \in Certs!Files |-> Plain(f)]
<1>1. Certs!HeaderOf(read) = [st |-> "whole", of |-> plain, bundle |-> plain]
  BY DEF Certs!HeaderOf, Certs!CStringLiteral, Certs!Normalise
<1>2. \A f \in Certs!Files : /\ plain[f].label = read[f].label /\ plain[f].der = read[f].der
                           /\ plain[f].pair = read[f].pair
  <2> SUFFICES ASSUME NEW f \in Certs!Files
               PROVE  /\ plain[f].label = read[f].label /\ plain[f].der = read[f].der
                      /\ plain[f].pair = read[f].pair
    OBVIOUS
  <2>1. read[f] \in PemFile
    BY DEF PemFiles
  <2>2. plain[f] = Plain(f)
    OBVIOUS
  <2> QED
    BY <2>1, <2>2 DEF PemFile
<1>3. "ca" \in Certs!Files /\ "cert" \in Certs!Files /\ "key" \in Certs!Files
  BY DEF Certs!Files
<1>4. Certs!Usable(plain)
  BY <1>2, <1>3 DEF Certs!Usable, Certs!IsPem, Certs!IsCertificate, Certs!IsPrivateKey, Certs!IsDer
<1>5. read["ca"] = Certs!AmazonCa => plain["ca"] = Certs!AmazonCa
  <2>1. \A r \in PemFile : r.crlf = FALSE => [r EXCEPT !.crlf = FALSE] = r
    BY DEF PemFile
  <2>2. Certs!AmazonCa \in PemFile /\ Certs!AmazonCa.crlf = FALSE
    BY DEF Certs!AmazonCa, PemFile
  <2> QED
    BY <1>3, <2>1, <2>2
<1>6. read["ca"].pair # 0 => plain["ca"] # Certs!AmazonCa
  BY <1>2, <1>3 DEF Certs!AmazonCa
<1> QED
  BY <1>1, <1>4, <1>5, <1>6

\* A build goes on, the others stay where they are.
LEMMA Goes ==
    ASSUME CertsInv, NEW b \in Builds, NEW c, Certs!Goto(b, c)
    PROVE  /\ build' = [x \in Builds |-> build'[x]] /\ build'[b] = c
           /\ \A x \in Builds : x # b => build'[x] = build[x]
  BY DEF Certs!Goto, CertsInv

\* A step of one build that leaves header and images alone keeps the invariant if the
\* place it comes to does.
LEMMA OneBuildGoesOn ==
    ASSUME CertsInv, NEW b \in Builds, NEW c, Certs!Goto(b, c),
           Certs!workstationRests, UNCHANGED <<header, image, edited>>,
           \/ c.at = "idle"
           \/ c.at = "endpoint" /\ c.customCa \in BOOLEAN
           \/ /\ c.at \in Reading /\ c.customCa \in BOOLEAN /\ c.read \in PemFiles
              /\ c.at \in HasCa => IF c.customCa THEN c.read["ca"].pair # 0
                                               ELSE c.read["ca"] = Certs!AmazonCa
              /\ c.at \in HasAll => Certs!Usable(c.read)
              /\ ~edited => (c.customCa <=> ~awsDefault)
    PROVE  CertsInv'
<1>1. /\ build' = [x \in Builds |-> build'[x]] /\ build'[b] = c
      /\ \A x \in Builds : x # b => build'[x] = build[x]
  BY Goes
<1>2. UNCHANGED <<files, awsDefault, edited, header, image>>
  BY DEF Certs!workstationRests
<1>3. FilesOk' /\ HeaderOk' /\ ImagesOk' /\ image' = [x \in Builds |-> image'[x]]
  BY <1>2 DEF CertsInv, FilesOk, HeaderOk, ImagesOk
<1>4. BuildType'
  BY <1>1 DEF CertsInv, BuildType
<1>5. ReadsAreOk'
  BY <1>1 DEF CertsInv, ReadsAreOk, HasCa, HasAll
<1>6. AgreesWithEndpoint'
  BY <1>1, <1>2 DEF CertsInv, AgreesWithEndpoint, Reading
<1> QED
  BY <1>1, <1>3, <1>4, <1>5, <1>6 DEF CertsInv

LEMMA CertsKept == ASSUME CertsInv, Certs!Next PROVE CertsInv'
<1>0. awsDefault \in BOOLEAN /\ edited \in BOOLEAN /\ files \in PemFiles
  BY DEF CertsInv, FilesOk
<1>1. ASSUME NEW b \in Builds, Certs!Begin(b) PROVE CertsInv'
  <2> DEFINE c == [at |-> "endpoint", customCa |-> files["ca"] # Certs!Absent]
  <2>1. /\ build[b].at = "idle" /\ Certs!Goto(b, c) /\ edited' = (edited /\ Certs!Running # {})
        /\ UNCHANGED <<files, awsDefault, edits, header, image>>
    BY <1>1 DEF Certs!Begin, Certs!workstationRests
  <2>2. /\ build' = [x \in Builds |-> build'[x]] /\ build'[b] = c
        /\ \A x \in Builds : x # b => build'[x] = build[x]
    BY <2>1, Goes
  <2>3. c.at = "endpoint" /\ c.customCa \in BOOLEAN
    OBVIOUS
  <2>4. FilesOk' /\ HeaderOk' /\ ImagesOk' /\ image' = [x \in Builds |-> image'[x]]
    BY <1>0, <2>1 DEF CertsInv, FilesOk, HeaderOk, ImagesOk
  <2>5. BuildType' /\ ReadsAreOk'
    BY <2>2, <2>3 DEF CertsInv, BuildType, ReadsAreOk, HasCa, HasAll
  <2>6. AgreesWithEndpoint'
    <3>1. CASE Certs!Running # {}
      BY <2>1, <2>2, <2>3, <3>1 DEF CertsInv, AgreesWithEndpoint, Reading
    <3>2. CASE Certs!Running = {}
      <4>1. \A x \in Builds : build[x].at = "idle"
        BY <3>2 DEF Certs!Running
      <4> QED
        BY <2>2, <2>3, <4>1 DEF AgreesWithEndpoint, Reading
    <3> QED
      BY <3>1, <3>2
  <2> QED
    BY <2>2, <2>4, <2>5, <2>6 DEF CertsInv
<1>2. ASSUME NEW b \in Builds, Certs!CheckEndpoint(b) PROVE CertsInv'
  <2> DEFINE c == [at |-> "ca", customCa |-> build[b].customCa, read |-> Certs!Nothing]
  <2>1. build[b].customCa \in BOOLEAN
    BY <1>2 DEF Certs!CheckEndpoint, CertsInv, BuildType, Reading
  <2>2. CASE build[b].customCa = awsDefault
    <3>1. Certs!Goto(b, Certs!Idle)
      BY <1>2, <2>2 DEF Certs!CheckEndpoint, Certs!Fail
    <3> QED
      BY <1>2, <3>1, OneBuildGoesOn DEF Certs!CheckEndpoint, Certs!Idle
  <2>3. CASE build[b].customCa # awsDefault
    <3>1. Certs!Goto(b, c)
      BY <1>2, <2>3 DEF Certs!CheckEndpoint, Certs!At
    <3>2. Certs!Nothing \in PemFiles
      BY DEF Certs!Nothing, Certs!Absent, PemFiles, PemFile
    <3>3. /\ c.at = "ca" /\ c.customCa = build[b].customCa /\ c.read \in PemFiles
      BY <3>2
    <3>4. c.customCa <=> ~awsDefault
      BY <1>0, <2>1, <2>3, <3>3
    <3> QED
      BY <1>2, <2>1, <3>1, <3>3, <3>4, OneBuildGoesOn DEF Certs!CheckEndpoint, Reading, HasCa, HasAll
  <2> QED
    BY <2>2, <2>3
<1>3. ASSUME NEW b \in Builds, NEW f \in Certs!Files, Certs!ReadText(b, f) PROVE CertsInv'
  <2> DEFINE content == IF f = "ca" /\ ~build[b].customCa THEN Certs!AmazonCa ELSE files[f]
             read == [build[b].read EXCEPT ![f] = content]
             c == [at |-> Certs!After(f), customCa |-> build[b].customCa, read |-> read]
  <2>1. /\ build[b].at = f /\ f \in {"ca", "cert", "key"}
        /\ build[b].customCa \in BOOLEAN /\ build[b].read \in PemFiles
    BY <1>3 DEF Certs!ReadText, Certs!Files, CertsInv, BuildType, Reading
  <2>2. CASE content = Certs!Absent
    <3>1. Certs!Goto(b, Certs!Idle)
      BY <1>3, <2>2 DEF Certs!ReadText, Certs!Fail
    <3> QED
      BY <1>3, <3>1, OneBuildGoesOn DEF Certs!ReadText, Certs!Idle
  <2>3. CASE content # Certs!Absent
    <3>1. Certs!Goto(b, c)
      BY <1>3, <2>3 DEF Certs!ReadText, Certs!At
    <3>2. content \in PemFile /\ (f = "ca" => IF build[b].customCa THEN content.pair # 0
                                                          ELSE content = Certs!AmazonCa)
      BY <2>3 DEF CertsInv, FilesOk, PemFiles, Certs!AmazonCa, PemFile
    <3>3. /\ read \in PemFiles /\ read[f] = content
          /\ \A g \in Certs!Files : g # f => read[g] = build[b].read[g]
      BY <2>1, <3>2 DEF PemFiles
    <3>4. IF build[b].customCa THEN read["ca"].pair # 0 ELSE read["ca"] = Certs!AmazonCa
      <4>1. CASE f = "ca"
        BY <3>2, <3>3, <4>1
      <4>2. CASE f # "ca"
        BY <2>1, <3>3, <4>2 DEF CertsInv, ReadsAreOk, HasCa, Certs!Files
      <4> QED
        BY <4>1, <4>2
    <3>5. Certs!After(f) \in {"cert", "key", "check"}
      BY <2>1 DEF Certs!After
    <3>6. ~edited => (build[b].customCa <=> ~awsDefault)
      BY <2>1 DEF CertsInv, AgreesWithEndpoint, Reading
    <3> HIDE DEF read
    <3>7. c.at = Certs!After(f) /\ c.customCa = build[b].customCa /\ c.read = read
      OBVIOUS
    <3> HIDE DEF c
    <3> QED
      BY <1>3, <2>1, <3>1, <3>3, <3>4, <3>5, <3>6, <3>7, OneBuildGoesOn
      DEF Certs!ReadText, Reading, HasCa, HasAll
  <2> QED
    BY <2>2, <2>3
<1>4. ASSUME NEW b \in Builds, Certs!Check(b) PROVE CertsInv'
  <2> DEFINE c == [at |-> "header", customCa |-> build[b].customCa, read |-> build[b].read]
  <2>1. /\ build[b].at = "check" /\ build[b].customCa \in BOOLEAN /\ build[b].read \in PemFiles
    BY <1>4 DEF Certs!Check, CertsInv, BuildType, Reading
  <2>2. CASE ~Certs!Usable(build[b].read)
    <3>1. Certs!Goto(b, Certs!Idle)
      BY <1>4, <2>2 DEF Certs!Check, Certs!Fail
    <3> QED
      BY <1>4, <3>1, OneBuildGoesOn DEF Certs!Check, Certs!Idle
  <2>3. CASE Certs!Usable(build[b].read)
    <3>1. Certs!Goto(b, c)
      BY <1>4, <2>3 DEF Certs!Check, Certs!At
    <3>2. /\ IF build[b].customCa THEN build[b].read["ca"].pair # 0
                                 ELSE build[b].read["ca"] = Certs!AmazonCa
          /\ ~edited => (build[b].customCa <=> ~awsDefault)
      BY <2>1 DEF CertsInv, ReadsAreOk, AgreesWithEndpoint, Reading, HasCa
    <3> QED
      BY <1>4, <2>1, <2>3, <3>1, <3>2, OneBuildGoesOn DEF Certs!Check, Reading, HasCa, HasAll
  <2> QED
    BY <2>2, <2>3
<1>5. ASSUME NEW b \in Builds, Certs!OpenHeader(b) PROVE CertsInv'
  <2> DEFINE mine == Certs!HeaderOf(build[b].read)
  <2>1. /\ build[b].at = "header" /\ build[b].customCa \in BOOLEAN /\ build[b].read \in PemFiles
        /\ Certs!Usable(build[b].read)
        /\ IF build[b].customCa THEN build[b].read["ca"].pair # 0
                               ELSE build[b].read["ca"] = Certs!AmazonCa
        /\ ~edited => (build[b].customCa <=> ~awsDefault)
    BY <1>5 DEF Certs!OpenHeader, CertsInv, BuildType, ReadsAreOk, AgreesWithEndpoint, Reading,
                HasCa, HasAll
  <2>2. CASE header = mine
    <3> DEFINE c == [at |-> "compile"]
    <3>1. Certs!Goto(b, c) /\ header' = header /\ Certs!workstationRests
          /\ UNCHANGED <<image, edited>>
      BY <1>5, <2>2 DEF Certs!OpenHeader
    <3>2. /\ build' = [x \in Builds |-> build'[x]] /\ build'[b].at = "compile"
          /\ \A x \in Builds : x # b => build'[x] = build[x]
      BY <3>1, Goes
    <3>3. FilesOk' /\ HeaderOk' /\ ImagesOk' /\ image' = [x \in Builds |-> image'[x]]
      BY <3>1 DEF Certs!workstationRests, CertsInv, FilesOk, HeaderOk, ImagesOk
    <3>4. BuildType' /\ ReadsAreOk'
      BY <3>2 DEF CertsInv, BuildType, ReadsAreOk, HasCa, HasAll
    <3>5. ~edited => ((header.of["ca"] = Certs!AmazonCa) <=> awsDefault)
      BY <1>0, <2>1, <2>2, WholeHeader
    <3>6. AgreesWithEndpoint'
      BY <3>1, <3>2, <3>5 DEF Certs!workstationRests, CertsInv, AgreesWithEndpoint, Reading
    <3> QED
      BY <3>2, <3>3, <3>4, <3>6 DEF CertsInv
  <2>3. CASE header # mine
    <3> DEFINE c == Certs!At(b, "write", build[b].read)
    <3>1. /\ Certs!Goto(b, c) /\ header' = [header EXCEPT !.st = "partial"]
          /\ Certs!workstationRests /\ UNCHANGED <<image, edited>>
      BY <1>5, <2>3 DEF Certs!OpenHeader
    <3>2. /\ build' = [x \in Builds |-> build'[x]] /\ build'[b] = c
          /\ \A x \in Builds : x # b => build'[x] = build[x]
      BY <3>1, Goes
    <3>3. c.at = "write" /\ c.customCa = build[b].customCa /\ c.read = build[b].read
      BY DEF Certs!At
    <3>4. HeaderOk' /\ header'.st # "whole"
      BY <3>1 DEF CertsInv, HeaderOk
    <3>5. FilesOk' /\ ImagesOk' /\ image' = [x \in Builds |-> image'[x]]
      BY <3>1 DEF Certs!workstationRests, CertsInv, FilesOk, ImagesOk
    <3>6. BuildType' /\ ReadsAreOk'
      BY <2>1, <3>2, <3>3 DEF CertsInv, BuildType, ReadsAreOk, HasCa, HasAll, Reading
    <3>7. AgreesWithEndpoint'
      BY <2>1, <3>1, <3>2, <3>3, <3>4 DEF Certs!workstationRests, CertsInv, AgreesWithEndpoint, Reading
    <3> QED
      BY <3>2, <3>4, <3>5, <3>6, <3>7 DEF CertsInv
  <2> QED
    BY <2>2, <2>3
<1>6. ASSUME NEW b \in Builds, Certs!Write(b) PROVE CertsInv'
  <2> DEFINE mine == Certs!HeaderOf(build[b].read)
             c == [at |-> "compile"]
  <2>1. /\ build[b].at = "write" /\ build[b].customCa \in BOOLEAN /\ build[b].read \in PemFiles
        /\ Certs!Usable(build[b].read)
        /\ IF build[b].customCa THEN build[b].read["ca"].pair # 0
                               ELSE build[b].read["ca"] = Certs!AmazonCa
        /\ ~edited => (build[b].customCa <=> ~awsDefault)
    BY <1>6 DEF Certs!Write, CertsInv, BuildType, ReadsAreOk, AgreesWithEndpoint, Reading, HasCa, HasAll
  <2>2. /\ Certs!Goto(b, c) /\ Certs!workstationRests /\ UNCHANGED <<image, edited>>
        /\ header' = mine \/ header' = [mine EXCEPT !.st = "partial"]
    BY <1>6 DEF Certs!Write
  <2>3. /\ build' = [x \in Builds |-> build'[x]] /\ build'[b].at = "compile"
        /\ \A x \in Builds : x # b => build'[x] = build[x]
    BY <2>2, Goes
  <2>4. FilesOk' /\ ImagesOk' /\ image' = [x \in Builds |-> image'[x]]
    BY <2>2 DEF Certs!workstationRests, CertsInv, FilesOk, ImagesOk
  <2>5. BuildType' /\ ReadsAreOk'
    BY <2>3 DEF CertsInv, BuildType, ReadsAreOk, HasCa, HasAll
  <2>6. /\ mine = [st |-> "whole", of |-> mine.of, bundle |-> mine.bundle] /\ mine.of = mine.bundle
        /\ Certs!Usable(mine.of)
        /\ ~edited => ((mine.of["ca"] = Certs!AmazonCa) <=> awsDefault)
    <3>1. mine = [st |-> "whole", of |-> mine.of, bundle |-> mine.bundle]
      BY DEF Certs!HeaderOf
    <3> QED
      BY <1>0, <2>1, <3>1, WholeHeader
  <2> HIDE DEF mine
  <2>7. HeaderOk' /\ (header'.st = "whole" => header' = mine)
    <3>1. CASE header' = mine
      BY <2>6, <3>1 DEF HeaderOk
    <3>2. CASE header' = [mine EXCEPT !.st = "partial"]
      BY <2>6, <3>2 DEF HeaderOk
    <3> QED
      BY <2>2, <3>1, <3>2
  <2>8. AgreesWithEndpoint'
    BY <2>2, <2>3, <2>6, <2>7 DEF Certs!workstationRests, CertsInv, AgreesWithEndpoint, Reading
  <2> QED
    BY <2>3, <2>4, <2>5, <2>7, <2>8 DEF CertsInv
<1>7. ASSUME NEW b \in Builds, Certs!Compile(b) PROVE CertsInv'
  <2> DEFINE made == [st |-> "whole", of |-> header.of, bundle |-> header.bundle,
                      awsDefault |-> awsDefault, edited |-> edited]
  <2>1. /\ build[b].at = "compile" /\ Certs!Goto(b, Certs!Idle) /\ Certs!workstationRests
        /\ UNCHANGED <<header, edited>>
        /\ image' = IF header.st = "whole" THEN [image EXCEPT ![b] = made] ELSE image
    BY <1>7 DEF Certs!Compile
  <2>2. /\ build' = [x \in Builds |-> build'[x]] /\ build'[b].at = "idle"
        /\ \A x \in Builds : x # b => build'[x] = build[x]
    BY <2>1, Goes DEF Certs!Idle
  <2>3. FilesOk' /\ HeaderOk'
    BY <2>1 DEF Certs!workstationRests, CertsInv, FilesOk, HeaderOk
  <2>4. BuildType' /\ ReadsAreOk' /\ AgreesWithEndpoint'
    BY <2>1, <2>2 DEF Certs!workstationRests, CertsInv, BuildType, ReadsAreOk, AgreesWithEndpoint,
                      HasCa, HasAll, Reading
  <2>5. ImagesOk' /\ image' = [x \in Builds |-> image'[x]]
    <3>1. CASE header.st = "whole"
      <4>1. /\ header.of = header.bundle /\ Certs!Usable(header.of)
            /\ ~edited => ((header.of["ca"] = Certs!AmazonCa) <=> awsDefault)
        BY <2>1, <3>1 DEF CertsInv, HeaderOk, AgreesWithEndpoint
      <4>2. /\ image'[b] = made /\ \A x \in Builds : x # b => image'[x] = image[x]
            /\ image' = [x \in Builds |-> image'[x]]
        BY <2>1, <3>1 DEF CertsInv
      <4>3. /\ made.of = header.of /\ made.bundle = header.bundle
            /\ made.awsDefault = awsDefault /\ made.edited = edited
        OBVIOUS
      <4> HIDE DEF made
      <4> QED
        BY <1>0, <4>1, <4>2, <4>3 DEF CertsInv, ImagesOk
    <3>2. CASE header.st # "whole"
      BY <2>1, <3>2 DEF CertsInv, ImagesOk
    <3> QED
      BY <3>1, <3>2
  <2> QED
    BY <2>2, <2>3, <2>4, <2>5 DEF CertsInv
<1>8. ASSUME NEW f \in Certs!Files, NEW content \in Contents[f], Certs!EditFile(f, content)
      PROVE  CertsInv'
  <2>1. /\ files' = [files EXCEPT ![f] = content] /\ edited' = (edited \/ Certs!Running # {})
        /\ UNCHANGED <<awsDefault, header, build, image>>
    BY <1>8 DEF Certs!EditFile
  <2>2. content \in PemFile /\ (content = Certs!Absent \/ content.pair # 0)
    BY ContentsOk
  <2>3. FilesOk'
    BY <1>0, <2>1, <2>2 DEF CertsInv, FilesOk, PemFiles
  <2>4. HeaderOk' /\ ImagesOk' /\ BuildType' /\ ReadsAreOk'
    BY <2>1 DEF CertsInv, HeaderOk, ImagesOk, BuildType, ReadsAreOk
  <2>5. AgreesWithEndpoint'
    BY <2>1 DEF CertsInv, AgreesWithEndpoint
  <2> QED
    BY <2>1, <2>3, <2>4, <2>5 DEF CertsInv
<1>9. CASE Certs!EditEndpoint
  <2>1. /\ awsDefault' = ~awsDefault /\ edited' = (edited \/ Certs!Running # {})
        /\ UNCHANGED <<files, header, build, image>>
    BY <1>9 DEF Certs!EditEndpoint
  <2>2. FilesOk' /\ HeaderOk' /\ ImagesOk' /\ BuildType' /\ ReadsAreOk'
    BY <1>0, <2>1 DEF CertsInv, FilesOk, HeaderOk, ImagesOk, BuildType, ReadsAreOk
  <2>3. AgreesWithEndpoint'
    <3>1. CASE Certs!Running # {}
      BY <2>1, <3>1 DEF AgreesWithEndpoint
    <3>2. CASE Certs!Running = {}
      <4>1. \A x \in Builds : build'[x].at = "idle"
        BY <2>1, <3>2 DEF Certs!Running
      <4> QED
        BY <4>1 DEF AgreesWithEndpoint, Reading
    <3> QED
      BY <3>1, <3>2
  <2> QED
    BY <2>1, <2>2, <2>3 DEF CertsInv
<1> QED
  BY <1>1, <1>2, <1>3, <1>4, <1>5, <1>6, <1>7, <1>8, <1>9 DEF Certs!Next

\* Whatever is edited and however builds overlap, an image has the private key of its
\* certificate, two images have one fingerprint exactly if they have the same files, and
\* unless an edit came while builds ran the CA is that of the endpoint.
THEOREM ImagesSound == ServicesSpec => []ImagesAreSound
<1> DEFINE Inv == component = "certificates" => CertsInv
<1>1. ServicesInit => Inv
  <2> SUFFICES ASSUME ServicesInit, component = "certificates" PROVE CertsInv
    OBVIOUS
  <2>1. Certs!Init
    BY DEF ServicesInit
  <2>2. PICK c \in Contents["cert"], k \in Contents["key"] :
             files = [Certs!Nothing EXCEPT !["cert"] = c, !["key"] = k]
    BY <2>1 DEF Certs!Init
  <2>3. c \in PemFile /\ (c = Certs!Absent \/ c.pair # 0) /\ k \in PemFile /\ (k = Certs!Absent \/ k.pair # 0)
    BY ContentsOk DEF Certs!Files
  <2>4. /\ "ca" \in Certs!Files /\ "cert" \in Certs!Files /\ "key" \in Certs!Files
        /\ Certs!Absent \in PemFile
    BY DEF Certs!Files, Certs!Absent, PemFile
  <2>5. FilesOk
    BY <2>1, <2>2, <2>3, <2>4 DEF Certs!Init, Certs!Nothing, FilesOk, PemFiles
  <2>6. \A b \in Builds : build[b].at = "idle" /\ image[b].st = "none"
    BY <2>1 DEF Certs!Init, Certs!Idle
  <2>7. build = [b \in Builds |-> build[b]] /\ image = [b \in Builds |-> image[b]]
    BY <2>1 DEF Certs!Init
  <2>8. HeaderOk
    BY <2>1 DEF Certs!Init, HeaderOk
  <2>9. BuildType /\ ReadsAreOk /\ AgreesWithEndpoint /\ ImagesOk
    BY <2>6 DEF BuildType, ReadsAreOk, AgreesWithEndpoint, ImagesOk, Reading, HasCa, HasAll
  <2> QED
    BY <2>5, <2>7, <2>8, <2>9 DEF CertsInv
<1>2. Inv /\ [ServicesNext]_servicesVars => Inv'
  <2> SUFFICES ASSUME Inv, [ServicesNext]_servicesVars PROVE Inv'
    OBVIOUS
  <2>1. CASE CertsStep
    BY <2>1, CertsKept DEF CertsStep
  <2>2. CASE component # "certificates" /\ component' = component
    BY <2>2
  <2>3. CASE component' = component /\ UNCHANGED certVars
    BY <2>3 DEF certVars, CertsInv, FilesOk, BuildType, ReadsAreOk, HeaderOk, AgreesWithEndpoint, ImagesOk
  <2> QED
    BY <2>1, <2>2, <2>3
    DEF ServicesNext, MeteringStep, JournalStep, PowerStep, TimeStep, ReportsStep, servicesVars
<1>3. Inv => ImagesAreSound
  <2> SUFFICES ASSUME CertsInv PROVE Certs!ImagesAreSound
    BY DEF ImagesAreSound
  <2>1. ASSUME NEW i \in Certs!Images
        PROVE  /\ Certs!IsPrivateKey(i.of["key"]) /\ Certs!IsCertificate(i.of["cert"])
               /\ i.of["key"].pair = i.of["cert"].pair /\ i.of = i.bundle
               /\ ~i.edited => ((i.of["ca"] = Certs!AmazonCa) <=> i.awsDefault)
               /\ i.awsDefault \in BOOLEAN
    <3>1. PICK b \in Builds : image[b].st = "whole" /\ i = image[b]
      BY DEF Certs!Images
    <3> QED
      BY <3>1 DEF CertsInv, ImagesOk, Certs!Usable
  <2> QED
    BY <2>1 DEF Certs!ImagesAreSound
<1> QED
  BY <1>1, <1>2, <1>3, PTL DEF ServicesSpec

-----------------------------------------------------------------------------
(* The time.  Between the synchronisations the difference of millis() and  *)
(* the time of the last one is the age of the clock, for one round of      *)
(* millis().  What is read of a modem whose clock stands for a time before *)
(* 2020 or after 2038 is negative, and refused.                            *)

LEMMA OneLater ==
    ASSUME NEW w \in Nat, NEW t \in 0..w - 1
    PROVE  (t + 1) % w = IF t + 1 = w THEN 0 ELSE t + 1
  OBVIOUS

LEMMA Difference ==
    ASSUME NEW w \in Nat, NEW a \in 0..w - 1, NEW b \in 0..w - 1
    PROVE  (a - b) % w = IF a >= b THEN a - b ELSE a - b + w
<1>1. CASE a >= b
  BY <1>1
<1>2. CASE a < b
  <2>1. a - b = w * (-1) + (a - b + w) /\ a - b + w \in 0..w - 1
    BY <1>2
  <2> QED
    BY <1>2, <2>1
<1> QED
  BY <1>1, <1>2

TimeType ==
    /\ up \in 0..Wrap - 1 /\ lastSync \in 0..Wrap - 1 /\ age \in Nat
    /\ clockSet \in BOOLEAN /\ carried \in BOOLEAN
    /\ rec \in [at : {"idle", "judged", "made"}, quality : {"unknown", "synced", "estimated"},
                stamped : BOOLEAN]

\* The age of the clock as the code sees it.
AgeInv ==
    /\ clockSet => clock # "unset"
    /\ step \in {"set", "marked"} => age = 0 /\ clock # "unset"
    /\ clockSet /\ ~carried /\ step \notin {"set", "marked"} /\ age < Wrap
         => age = IF up >= lastSync THEN up - lastSync ELSE up - lastSync + Wrap

\* A record whose quality was judged by a clock that was set is stamped by one.
StampInv ==
    /\ rec.at = "judged" /\ rec.quality # "unknown" => clock # "unset"
    /\ rec.at = "made" /\ rec.quality # "unknown" => rec.stamped

TimeInv == TimeType /\ AgeInv /\ StampInv

LEMMA WrapIsPositive == Wrap \in Nat /\ Window \in Nat /\ Window < Wrap /\ 0 \in 0..Wrap - 1
<1>1. Wrap \in Nat /\ Window \in Nat /\ Window < Wrap
  BY ServicesAssumption DEF Time!TimeAssumption
<1> QED
  BY <1>1

LEMMA TimeKept == ASSUME TimeInv, Time!Next PROVE TimeInv'
<1> USE WrapIsPositive DEF TimeInv
<1>1. CASE Time!NetworkTime \/ Time!SyncModemClock \/ Time!ConnectFails \/ Time!ConnectOk
           \/ Time!SessionEnds \/ Time!GetTimestamp \/ Time!Refuse
  <2>1. UNCHANGED <<clock, clockSet, lastSync, up, age, carried, rec>>
    BY <1>1 DEF Time!NetworkTime, Time!SyncModemClock, Time!ConnectFails, Time!ConnectOk,
                Time!SessionEnds, Time!GetTimestamp, Time!Refuse
  <2>2. step \notin {"set", "marked"} /\ step' \notin {"set", "marked"}
    BY <1>1 DEF Time!NetworkTime, Time!SyncModemClock, Time!ConnectFails, Time!ConnectOk,
                Time!SessionEnds, Time!GetTimestamp, Time!Refuse
  <2> QED
    BY <2>1, <2>2 DEF TimeType, AgeInv, StampInv
<1>2. CASE Time!SetClock
  <2>1. clock' # "unset" /\ age' = 0 /\ carried' = FALSE /\ step' = "set"
        /\ UNCHANGED <<clockSet, lastSync, up, rec>>
    BY <1>2 DEF Time!SetClock
  <2> QED
    BY <2>1 DEF TimeType, AgeInv, StampInv
<1>3. CASE Time!MarkSet
  BY <1>3 DEF Time!MarkSet, TimeType, AgeInv, StampInv
<1>4. CASE Time!NoteSync
  BY <1>4 DEF Time!NoteSync, TimeType, AgeInv, StampInv
<1>5. CASE Time!JudgeTime
  <2>1. /\ rec' = [at |-> "judged", quality |-> Time!Quality, stamped |-> FALSE]
        /\ UNCHANGED <<step, clock, clockSet, lastSync, up, age, carried>>
    BY <1>5 DEF Time!JudgeTime
  <2>2. /\ Time!Quality \in {"unknown", "synced", "estimated"}
        /\ Time!Quality # "unknown" => clockSet
    BY DEF Time!Quality
  <2> QED
    BY <2>1, <2>2 DEF TimeType, AgeInv, StampInv
<1>6. CASE Time!StampTime
  BY <1>6 DEF Time!StampTime, TimeType, AgeInv, StampInv
<1>7. CASE Time!Tick
  <2>1. /\ step \notin {"set", "marked"} /\ up' = IF up + 1 = Wrap THEN 0 ELSE up + 1
        /\ age' = IF clock = "unset" THEN 0 ELSE age + 1
        /\ UNCHANGED <<step, clock, clockSet, lastSync, carried, rec>>
    BY <1>7, OneLater DEF Time!Tick, Time!Later, TimeType
  <2>2. TimeType'
    BY <2>1 DEF TimeType
  <2>3. AgeInv'
    BY <2>1 DEF TimeType, AgeInv
  <2> QED
    BY <2>1, <2>2, <2>3 DEF StampInv
<1>8. CASE Time!Restart
  <2>1. /\ rec' = Time!NoRecord /\ (clockSet' <=> clock # "unset") /\ up' = 0 /\ lastSync' = 0
        /\ (carried' <=> clock # "unset") /\ UNCHANGED <<clock, age>> /\ step' = "offline"
        /\ clockSet' \in BOOLEAN /\ carried' \in BOOLEAN
    BY <1>8 DEF Time!Restart
  <2> QED
    BY <2>1 DEF TimeType, AgeInv, StampInv, Time!NoRecord
<1>9. CASE Time!PowerLoss
  <2>1. /\ rec' = Time!NoRecord /\ clockSet' = FALSE /\ up' = 0 /\ lastSync' = 0
        /\ carried' = FALSE /\ age' = 0 /\ step' = "offline"
    BY <1>9 DEF Time!PowerLoss
  <2> QED
    BY <2>1 DEF TimeType, AgeInv, StampInv, Time!NoRecord
<1> QED
  BY <1>1, <1>2, <1>3, <1>4, <1>5, <1>6, <1>7, <1>8, <1>9 DEF Time!Next

\* A time called synchronised is at most a window old, but for a clock that outlived a
\* restart and for one older than a round of millis(); and a record that says where its
\* time is from has one, however its making interleaves with a synchronisation.
THEOREM StampsHonest == ServicesSpec => []StampsAreHonest
<1> DEFINE Inv == component = "time" => TimeInv
<1>1. ServicesInit => Inv
  <2> SUFFICES ASSUME ServicesInit, component = "time" PROVE TimeInv
    OBVIOUS
  <2>1. Time!Init
    BY DEF ServicesInit
  <2> QED
    BY <2>1, WrapIsPositive DEF Time!Init, Time!NoRecord, TimeInv, TimeType, AgeInv, StampInv
<1>2. Inv /\ [ServicesNext]_servicesVars => Inv'
  <2> SUFFICES ASSUME Inv, [ServicesNext]_servicesVars PROVE Inv'
    OBVIOUS
  <2>1. CASE TimeStep
    BY <2>1, TimeKept DEF TimeStep
  <2>2. CASE component # "time" /\ component' = component
    BY <2>2
  <2>3. CASE component' = component /\ UNCHANGED timeVars
    BY <2>3 DEF timeVars, TimeInv, TimeType, AgeInv, StampInv
  <2> QED
    BY <2>1, <2>2, <2>3
    DEF ServicesNext, MeteringStep, JournalStep, PowerStep, ReportsStep, CertsStep, servicesVars
<1>3. Inv => StampsAreHonest
  <2> SUFFICES ASSUME TimeInv PROVE Time!SyncedIsFresh /\ Time!QualityHasTime
    BY DEF StampsAreHonest
  <2>1. Time!QualityHasTime
    BY DEF TimeInv, StampInv, Time!QualityHasTime
  <2>2. Time!SyncedIsFresh
    <3> SUFFICES ASSUME Time!Quality = "synced", ~carried, age < Wrap PROVE age <= Window
      BY WrapIsPositive DEF TimeInv, TimeType, Time!SyncedIsFresh
    <3>1. clockSet /\ (up - lastSync) % Wrap <= Window
      BY DEF Time!Quality
    <3>2. (up - lastSync) % Wrap = IF up >= lastSync THEN up - lastSync ELSE up - lastSync + Wrap
      BY Difference, WrapIsPositive DEF TimeInv, TimeType
    <3> QED
      BY <3>1, <3>2, WrapIsPositive DEF TimeInv, TimeType, AgeInv
  <2> QED
    BY <2>1, <2>2
<1> QED
  BY <1>1, <1>2, <1>3, PTL DEF ServicesSpec

OfThisCentury(yr) == yr \in Nat /\ 2000 <= yr /\ yr <= 2099
InThisCentury(dn) == dn \in Int /\ 10000 <= dn /\ dn <= 47600
SinceTheSeventies(dn) == dn > 36000

\* The days of this century.
LEMMA DaysOfThisCentury ==
    ASSUME NEW yr, OfThisCentury(yr), NEW mo \in 1..12, NEW dd \in 1..31
    PROVE  /\ InThisCentury(Time!DaysSinceEpoch(yr, mo, dd))
           /\ yr >= 2070 => SinceTheSeventies(Time!DaysSinceEpoch(yr, mo, dd))
<1> USE DEF OfThisCentury, InThisCentury, SinceTheSeventies
<1> DEFINE y == Time!YearFromMarch(yr, mo)
           k == Time!MonthFromMarch(mo)
           w == Time!YearOfEra(y)
<1>1. y \in Nat /\ 1999 <= y /\ y <= 2099 /\ (yr >= 2070 => y >= 2069)
  BY SMT DEF Time!YearFromMarch
<1>2. k \in 0..11
  BY SMT DEF Time!MonthFromMarch
<1>3. Time!DayOfYear(mo, dd) \in 0..400
  BY SMT, <1>2 DEF Time!DayOfYear
<1>4. Time!Era(y) = IF y = 1999 THEN 4 ELSE 5
  BY SMT, <1>1 DEF Time!Era
<1>5. w = IF y = 1999 THEN 399 ELSE y - 2000
  BY SMT, <1>1, <1>4 DEF Time!YearOfEra
<1>6. Time!DaysSinceEpoch(yr, mo, dd) = 146097 * Time!Era(y) + Time!DayOfEra(y, mo, dd) - 719468
  BY SMT DEF Time!DaysSinceEpoch
<1>7. Time!DayOfEra(y, mo, dd) = 365 * w + (w \div 4) - (w \div 100) + Time!DayOfYear(mo, dd)
  BY SMT DEF Time!DayOfEra
<1> HIDE DEF y, k, w
<1>8. CASE y = 1999
  <2>1. w = 399 /\ w \div 4 = 99 /\ w \div 100 = 3
    BY SMT, <1>5, <1>8
  <2>2. Time!DayOfEra(y, mo, dd) \in Int /\ Time!DayOfEra(y, mo, dd) >= 145731
        /\ Time!DayOfEra(y, mo, dd) <= 146131
    BY SMT, <1>3, <1>7, <2>1
  <2> QED
    BY SMT, <1>1, <1>4, <1>6, <1>8, <2>2
<1>9. CASE y # 1999
  <2>1. w \in 0..99 /\ w = y - 2000
    BY SMT, <1>1, <1>5, <1>9
  <2>2. w \div 4 \in 0..24 /\ w \div 100 = 0
    BY SMT, <2>1
  <2>3. Time!DayOfEra(y, mo, dd) = 365 * w + (w \div 4) + Time!DayOfYear(mo, dd)
    BY SMT, <1>3, <1>7, <2>1, <2>2
  <2> DEFINE f == w \div 4
  <2>4. f \in 0..24 /\ Time!DayOfEra(y, mo, dd) = 365 * w + f + Time!DayOfYear(mo, dd)
    BY <2>2, <2>3, SMT
  <2> HIDE DEF f
  <2> QED
    BY SMT, <1>1, <1>3, <1>4, <1>6, <1>9, <2>1, <2>4
<1> QED
  BY <1>8, <1>9

\* What is accepted of a clock that has a zone is the instant it stands for.
LEMMA AcceptedIsRight ==
    ASSUME NEW r \in Readings, r.zone # NoZone, Time!Instant(r, r.zone) >= Time!Epoch2020
    PROVE  Time!Instant(r, r.zone) = r.utc
<1> DEFINE yr == 2000 + r.yy
           days == Time!DaysSinceEpoch(yr, r.mo, r.dd)
           q == Time!LocalTime(r)
<1>1. /\ r.yy \in 0..99 /\ r.mo \in 1..12 /\ r.dd \in 1..31 /\ r.quarter \in 0..95
      /\ r.zone \in Int /\ -96 <= r.zone /\ r.zone <= 96
  BY ServicesAssumption, SMT DEF Time!ClockAssumption
<1>2. r.yy < 70 => r.utc = q - r.zone
  BY ServicesAssumption DEF Time!ClockAssumption
<1>3. OfThisCentury(yr) /\ (r.yy >= 70 => yr >= 2070)
  BY SMT, <1>1 DEF OfThisCentury
<1>4. Time!Instant(r, r.zone) = Time!Narrow(q) - r.zone
  BY SMT DEF Time!Instant
<1>5. q = 96 * days + r.quarter
  BY SMT DEF Time!LocalTime
<1> HIDE DEF q, yr
<1>6. InThisCentury(days) /\ (yr >= 2070 => SinceTheSeventies(days))
  <2>1. OfThisCentury(yr)
    BY <1>3
  <2>2. r.mo \in 1..12 /\ r.dd \in 1..31
    BY <1>1
  <2> QED
    BY <2>1, <2>2, DaysOfThisCentury
<1> HIDE DEF days
<1>7. q \in Int /\ 960000 <= q /\ q <= 4570000 /\ (r.yy >= 70 => q > 3456000)
  BY SMT, <1>1, <1>3, <1>5, <1>6 DEF InThisCentury, SinceTheSeventies
<1>8. Time!Narrow(q) - r.zone >= 1753152
  BY SMT, <1>4 DEF Time!Epoch2020
<1>9. q <= 2386092
  BY SMT, <1>1, <1>7, <1>8 DEF Time!Narrow
<1>10. r.yy < 70
  BY SMT, <1>1, <1>7, <1>9
<1>11. Time!Narrow(q) = q
  BY SMT, <1>7, <1>9 DEF Time!Narrow
<1> QED
  BY <1>2, <1>4, <1>10, <1>11, Zenon

ClockInv == clock # "wrong" /\ modem \in Readings

LEMMA ClockKept == ASSUME ClockInv, Time!Next PROVE ClockInv' /\ Time!RefusalStep
<1>1. CASE Time!SetClock
  <2>1. PICK z \in Time!Zones :
             /\ Time!Instant(modem, z) >= Time!Epoch2020
             /\ clock' = IF modem.zone = NoZone THEN "stray"
                         ELSE IF Time!Instant(modem, z) = modem.utc THEN "right" ELSE "wrong"
    BY <1>1 DEF Time!SetClock, Time!Accepted
  <2>2. modem' = modem
    BY <1>1 DEF Time!SetClock
  <2>3. CASE modem.zone = NoZone
    <3>1. modem.utc >= Time!Epoch2020
      BY <2>3, ServicesAssumption DEF ClockInv, Time!ClockAssumption
    <3> QED
      BY <2>1, <2>2, <2>3, <3>1 DEF ClockInv, Time!RefusalStep
  <2>4. CASE modem.zone # NoZone
    <3>1. z = modem.zone
      BY <2>1, <2>4 DEF Time!Zones
    <3>2. Time!Instant(modem, z) = modem.utc
      BY <2>1, <2>4, <3>1, AcceptedIsRight DEF ClockInv
    <3> QED
      BY <2>1, <2>2, <2>4, <3>2 DEF ClockInv, Time!RefusalStep
  <2> QED
    BY <2>3, <2>4
<1>2. CASE Time!NetworkTime \/ Time!SyncModemClock \/ Time!ConnectFails \/ Time!ConnectOk
           \/ Time!SessionEnds \/ Time!GetTimestamp \/ Time!Refuse
  <2>1. clock' = clock /\ step' # "set" /\ modem' \in Readings
    BY <1>2 DEF ClockInv, Time!NetworkTime, Time!SyncModemClock, Time!ConnectFails,
       Time!ConnectOk, Time!SessionEnds, Time!GetTimestamp, Time!Refuse
  <2> QED
    BY <2>1 DEF ClockInv, Time!RefusalStep
<1>3. CASE Time!MarkSet \/ Time!NoteSync \/ Time!JudgeTime \/ Time!StampTime \/ Time!Tick
           \/ Time!Restart
  <2>1. clock' = clock /\ (step' # "set" \/ step' = step) /\ modem' = modem
    BY <1>3 DEF Time!MarkSet, Time!NoteSync, Time!JudgeTime, Time!StampTime, Time!Tick, Time!Restart
  <2> QED
    BY <2>1 DEF ClockInv, Time!RefusalStep
<1>4. CASE Time!PowerLoss
  <2>1. clock' = "unset" /\ step' = "offline" /\ modem' \in {modem, Unset} /\ Unset \in Readings
    BY <1>4, ServicesAssumption DEF Time!PowerLoss, Time!ClockAssumption
  <2> QED
    BY <2>1 DEF ClockInv, Time!RefusalStep
<1> QED
  BY <1>1, <1>2, <1>3, <1>4 DEF Time!Next

\* The whole way of a time from the modem to the ESP32 keeps the instant, for every day
\* of the century that the two digits of a year can tell and every zone, and no time
\* before 2020 is taken over, a modem without the time included.
THEOREM ClockRight == ServicesSpec => ClockIsRight
<1> DEFINE Inv == component = "time" => ClockInv
           Step == component = "time" => (Time!ClockIsRight)' /\ Time!RefusalStep
<1>1. ServicesInit => Inv
  <2> SUFFICES ASSUME ServicesInit, component = "time" PROVE ClockInv
    OBVIOUS
  <2>1. Time!Init /\ Unset \in Readings
    BY ServicesAssumption DEF ServicesInit, Time!ClockAssumption
  <2> QED
    BY <2>1 DEF Time!Init, ClockInv
<1>2. Inv /\ [ServicesNext]_servicesVars => Inv' /\ [Step]_servicesVars
  <2> SUFFICES ASSUME Inv, [ServicesNext]_servicesVars PROVE Inv' /\ [Step]_servicesVars
    OBVIOUS
  <2>1. CASE TimeStep
    BY <2>1, ClockKept DEF TimeStep, ClockInv, Time!ClockIsRight
  <2>2. CASE component # "time" /\ component' = component
    BY <2>2
  <2>3. CASE UNCHANGED servicesVars
    BY <2>3 DEF servicesVars, timeVars, ClockInv
  <2> QED
    BY <2>1, <2>2, <2>3
    DEF ServicesNext, MeteringStep, JournalStep, PowerStep, ReportsStep, CertsStep
<1> QED
  BY <1>1, <1>2, PTL DEF ServicesSpec, ClockIsRight

-----------------------------------------------------------------------------
(* Power monitor: with the times between its samples bounded, the debounce *)
(* times are those of the clock although it wraps.                         *)

Moments == 0..PowerWrap - 1

\* The time from b to a on the clock that wraps.
Gap(a, b) == (a - b) % PowerWrap

LEMMA GapIs ==
    ASSUME NEW a \in Moments, NEW b \in Moments
    PROVE  Gap(a, b) = IF a >= b THEN a - b ELSE a - b + PowerWrap
  BY Difference, ServicesAssumption DEF Gap, Moments, Power!TimeAssumption

LEMMA GapNow == ASSUME NEW a \in Moments PROVE Gap(a, a) = 0
  BY GapIs DEF Moments

LEMMA GapIsNatural == ASSUME NEW a \in Moments, NEW b \in Moments PROVE Gap(a, b) \in Nat
  BY GapIs, ServicesAssumption DEF Moments, Power!TimeAssumption

LEMMA GapLater ==
    ASSUME NEW a \in Moments
    PROVE  /\ Power!Later(a) \in Moments
           /\ \A b \in Moments : Gap(a, b) + 1 < PowerWrap => Gap(Power!Later(a), b) = Gap(a, b) + 1
<1>1. Power!Later(a) = IF a + 1 = PowerWrap THEN 0 ELSE a + 1
  BY OneLater, ServicesAssumption DEF Moments, Power!Later, Power!TimeAssumption
<1>2. Power!Later(a) \in Moments
  BY <1>1, ServicesAssumption DEF Moments, Power!TimeAssumption
<1>3. ASSUME NEW b \in Moments, Gap(a, b) + 1 < PowerWrap
      PROVE  Gap(Power!Later(a), b) = Gap(a, b) + 1
  <2>1. Gap(a, b) = IF a >= b THEN a - b ELSE a - b + PowerWrap
    BY GapIs
  <2>2. Gap(Power!Later(a), b)
          = IF Power!Later(a) >= b THEN Power!Later(a) - b ELSE Power!Later(a) - b + PowerWrap
    BY <1>2, GapIs
  <2> QED
    BY <1>1, <1>3, <2>1, <2>2, ServicesAssumption DEF Moments, Power!TimeAssumption
<1> QED
  BY <1>2, <1>3

LEMMA GapInParts ==
    ASSUME NEW m \in Moments, NEW n \in Moments, NEW c \in Moments,
           Gap(n, c) + Gap(m, n) < PowerWrap
    PROVE  Gap(m, c) = Gap(n, c) + Gap(m, n)
<1>1. /\ Gap(n, c) = IF n >= c THEN n - c ELSE n - c + PowerWrap
      /\ Gap(m, n) = IF m >= n THEN m - n ELSE m - n + PowerWrap
      /\ Gap(m, c) = IF m >= c THEN m - c ELSE m - c + PowerWrap
  BY GapIs
<1> QED
  BY <1>1, ServicesAssumption DEF Moments, Power!TimeAssumption

Age(i) == Gap(millis, changedAt[i])
Since == Gap(millis, sample.now)
Debounce(lost) == IF lost THEN FailDebounce ELSE RestoreDebounce

PowerType ==
    /\ pin \in [Power!Inputs -> BOOLEAN] /\ raw \in [Power!Inputs -> BOOLEAN]
    /\ failed \in [Power!Inputs -> BOOLEAN]
    /\ changedAt \in [Power!Inputs -> Moments] /\ millis \in Moments
    /\ sample.mains \in BOOLEAN /\ sample.backup \in BOOLEAN
    /\ sample.now \in Moments /\ sample.quiet \in Nat
    /\ place \in {"top", "note", "clear", "noteBackup", "mains", "emit", "backup", "flush", "sleep"}
    /\ busy \in Nat /\ busy <= MaxBusy /\ powerFailInterrupt \in BOOLEAN
    /\ quiet \in [Power!Inputs -> Nat]

\* How long ago the pass under way has read the inputs.
SinceInv ==
    /\ place \in {"note", "clear", "noteBackup", "mains"} => Since = 0
    /\ place = "emit" => Since = busy
    /\ place = "backup" => Since <= MaxBusy
    /\ place = "flush" => Since <= MaxBusy + busy
    /\ place = "sleep" => Since <= MaxBusy + MaxBusy
    /\ place \notin {"emit", "flush"} => busy = 0

ReadOf(i) == IF i = "mains" THEN sample.mains ELSE sample.backup
Noted(i) == /\ place \notin {"top", "note"}
            /\ i = "mains" \/ place \notin {"clear", "noteBackup"}

\* What a pass has read and noted is as the input is, but for a later edge, and the
\* interrupt flag tells of no edge before the last pass.
ReadInv == place # "top" => \A i \in Power!Inputs : ReadOf(i) # pin[i] => quiet[i] <= Since
NotedInv ==
    \A i \in Power!Inputs :
        /\ Noted(i) => raw[i] = ReadOf(i)
        /\ ~Noted(i) => (raw[i] # pin[i] => quiet[i] <= Power!LongestPass)
FlagInv ==
    powerFailInterrupt
      => IF place \in {"top", "note", "clear"} THEN quiet["mains"] <= Power!LongestPass
                                               ELSE quiet["mains"] <= Since

\* What is noted and not decided on is about as old as the input is quiet, and younger
\* than its debounce time and a pass: too young for the clock to have wrapped.
Undecided == place \in {"top", "note", "clear", "noteBackup", "mains"}
Slack(i) ==
    IF i = "mains" THEN IF Undecided THEN Power!LongestPass ELSE Since
    ELSE IF Undecided THEN MaxBusy + 1
    ELSE IF place = "emit" THEN MaxBusy + 1 + busy
    ELSE IF place = "backup" THEN Power!LongestPass ELSE Since
PendingInv ==
    \A i \in Power!Inputs : raw[i] # failed[i]
      => quiet[i] <= Age(i) + Power!LongestPass /\ Age(i) < Debounce(raw[i]) + Slack(i)
FlushInv ==
    /\ place = "flush" => raw["backup"] = failed["backup"]
    /\ place = "sleep" /\ raw["backup"] # failed["backup"] => Since <= MaxBusy

\* The mains have been quiet for as long as what is noted of them is old.
QuietInv ==
    /\ place = "clear" => changedAt["mains"] = sample.now
    /\ raw["mains"] # failed["mains"] =>
         /\ ~powerFailInterrupt => Age("mains") <= quiet["mains"]
         /\ (place = "note" /\ ~powerFailInterrupt) \/ place \in {"clear", "noteBackup", "mains"}
              => Age("mains") <= sample.quiet

PowerInv ==
    /\ PowerType /\ SinceInv /\ ReadInv /\ NotedInv /\ FlagInv /\ PendingInv /\ FlushInv /\ QuietInv
    /\ Power!TheLastReportHolds

LEMMA PowerConstants ==
    /\ FailDebounce \in Nat \ {0} /\ RestoreDebounce \in Nat \ {0}
    /\ MaxBusy \in Nat /\ PowerWrap \in Nat
    /\ Power!LongestPass = MaxBusy + MaxBusy + 1
    /\ \A lost \in BOOLEAN : /\ Debounce(lost) \in Nat \ {0}
                             /\ Debounce(lost) <= Power!SlowDebounce
    /\ Power!SlowDebounce + Power!LongestPass < PowerWrap
    /\ Power!SlowDebounce \in Nat
  BY ServicesAssumption
  DEF Power!TimeAssumption, Power!LongestPass, Power!SlowDebounce, Power!Larger, Debounce

\* What the steps of a pass find: counts of ticks, and moments of the clock.
LEMMA PowerFacts ==
    ASSUME PowerInv
    PROVE  /\ Since \in Nat /\ \A i \in Power!Inputs : Age(i) \in Nat
           /\ \A i \in Power!Inputs : Slack(i) \in Nat /\ Slack(i) <= Power!LongestPass
           /\ Since <= MaxBusy + MaxBusy \/ place = "top"
<1>1. Since \in Nat /\ \A i \in Power!Inputs : Age(i) \in Nat
  BY GapIsNatural DEF PowerInv, PowerType, Since, Age
<1>2. Since <= MaxBusy + MaxBusy \/ place = "top"
  BY <1>1, PowerConstants DEF PowerInv, PowerType, SinceInv
<1>3. \A i \in Power!Inputs : Slack(i) \in Nat /\ Slack(i) <= Power!LongestPass
  <2>1. /\ MaxBusy \in Nat /\ Power!LongestPass = MaxBusy + MaxBusy + 1
        /\ busy \in Nat /\ busy <= MaxBusy
    BY PowerConstants DEF PowerInv, PowerType
  <2>2. CASE Undecided
    BY <2>1, <2>2 DEF Slack
  <2>3. CASE ~Undecided
    BY <1>1, <1>2, <2>1, <2>3 DEF Slack, Undecided
  <2> QED
    BY <2>2, <2>3
<1> QED
  BY <1>1, <1>2, <1>3

LEMMA MainsInTime == ASSUME PowerInv PROVE Power!InTime
<1> SUFFICES ASSUME NEW i \in Power!Inputs,
                    quiet[i] >= Debounce(pin[i]) + 2 * Power!LongestPass, failed[i] # pin[i]
             PROVE  FALSE
  BY DEF Power!InTime, Debounce
<1>1. Since \in Nat /\ Age(i) \in Nat /\ quiet[i] \in Nat /\ Debounce(pin[i]) \in Nat \ {0}
  BY GapIsNatural, PowerConstants DEF PowerInv, PowerType, Since, Age
<1>2. raw[i] = pin[i]
  <2>1. quiet[i] > Power!LongestPass /\ (Since <= Power!LongestPass \/ place = "top")
    BY <1>1, PowerFacts, PowerConstants
  <2>2. Noted(i) => raw[i] = ReadOf(i) /\ place # "top"
    BY DEF PowerInv, NotedInv, Noted
  <2>3. Noted(i) => (ReadOf(i) # pin[i] => quiet[i] <= Since)
    BY <2>2 DEF PowerInv, ReadInv
  <2>4. ~Noted(i) => (raw[i] # pin[i] => quiet[i] <= Power!LongestPass)
    BY DEF PowerInv, NotedInv
  <2> QED
    BY <1>1, <2>1, <2>2, <2>3, <2>4, PowerConstants
<1>3. quiet[i] <= Age(i) + Power!LongestPass /\ Age(i) < Debounce(raw[i]) + Slack(i)
  BY <1>2 DEF PowerInv, PendingInv
<1>4. Slack(i) <= Power!LongestPass /\ Slack(i) \in Nat
  BY PowerFacts
<1> QED
  BY <1>1, <1>2, <1>3, <1>4, PowerConstants

LEMMA EdgeKept == ASSUME PowerInv, Power!MainsEdge \/ Power!BackupEdge PROVE PowerInv'
<1>1. /\ UNCHANGED <<raw, changedAt, failed, sample, place, busy, told, restarted, millis>>
      /\ pin' \in [Power!Inputs -> BOOLEAN] /\ quiet' \in [Power!Inputs -> Nat]
      /\ \A i \in Power!Inputs : (pin'[i] = pin[i] /\ quiet'[i] = quiet[i]) \/ quiet'[i] = 0
      /\ (powerFailInterrupt' = powerFailInterrupt /\ quiet'["mains"] = quiet["mains"])
         \/ (powerFailInterrupt' /\ quiet'["mains"] = 0)
  <2>1. CASE Power!MainsEdge
    BY <2>1 DEF Power!MainsEdge, Power!task, PowerInv, PowerType, Power!Inputs
  <2>2. CASE Power!BackupEdge
    BY <2>2 DEF Power!BackupEdge, Power!task, PowerInv, PowerType, Power!Inputs
  <2> QED
    BY <2>1, <2>2
<1>2. Since' = Since /\ (\A i \in Power!Inputs : Age(i)' = Age(i) /\ Slack(i)' = Slack(i))
  BY <1>1 DEF Since, Age, Slack, Undecided
<1>3. PowerType' /\ SinceInv' /\ FlushInv' /\ Power!TheLastReportHolds'
  BY <1>1, <1>2 DEF PowerInv, PowerType, SinceInv, FlushInv, Power!TheLastReportHolds
<1>4. ReadInv' /\ NotedInv' /\ FlagInv'
  BY <1>1, <1>2, PowerFacts, PowerConstants
  DEF PowerInv, PowerType, ReadInv, NotedInv, FlagInv, ReadOf, Noted
<1>5. PendingInv'
  BY <1>1, <1>2, PowerFacts, PowerConstants DEF PowerInv, PowerType, PendingInv
<1>6. QuietInv'
  BY <1>1, <1>2, PowerFacts, PowerConstants DEF PowerInv, PowerType, QuietInv, Power!Inputs
<1> QED
  BY <1>3, <1>4, <1>5, <1>6 DEF PowerInv

LEMMA SampleKept == ASSUME PowerInv, Power!Sample PROVE PowerInv'
<1>1. /\ UNCHANGED <<pin, powerFailInterrupt, quiet, raw, changedAt, failed, busy, told, restarted, millis>>
      /\ place = "top" /\ place' = "note"
      /\ sample' = [mains |-> pin["mains"], backup |-> pin["backup"], now |-> millis,
                    quiet |-> quiet["mains"]]
  BY DEF Power!Sample, Power!inputs
<1>2. /\ sample'.mains = pin["mains"] /\ sample'.backup = pin["backup"] /\ sample'.now = millis
      /\ sample'.quiet = quiet["mains"]
  BY <1>1
<1>3. Since' = 0 /\ (\A i \in Power!Inputs : Age(i)' = Age(i) /\ Slack(i)' = Slack(i))
  BY <1>1, <1>2, GapNow DEF Since, Age, Slack, Undecided, PowerInv, PowerType
<1>4. PowerType' /\ SinceInv' /\ FlushInv' /\ Power!TheLastReportHolds'
  BY <1>1, <1>2, <1>3 
  DEF PowerInv, PowerType, SinceInv, FlushInv, Power!TheLastReportHolds, Power!Inputs
<1>5. ReadInv' /\ NotedInv' /\ FlagInv'
  BY <1>1, <1>2, <1>3, PowerConstants
  DEF PowerInv, PowerType, ReadInv, NotedInv, FlagInv, ReadOf, Noted, Power!Inputs
<1>6. PendingInv'
  BY <1>1, <1>3 DEF PowerInv, PendingInv
<1>7. QuietInv'
  BY <1>1, <1>2, <1>3 DEF PowerInv, QuietInv, Power!Inputs
<1> QED
  BY <1>4, <1>5, <1>6, <1>7 DEF PowerInv

LEMMA NoteKept == ASSUME PowerInv, Power!Note PROVE PowerInv'
<1>1. /\ UNCHANGED <<pin, powerFailInterrupt, quiet, failed, sample, busy, told, restarted, millis>>
      /\ place = "note" /\ place' \in {"clear", "noteBackup"}
      /\ raw' \in [Power!Inputs -> BOOLEAN] /\ changedAt' \in [Power!Inputs -> Moments]
      /\ raw'["mains"] = sample.mains
      /\ raw'["backup"] = raw["backup"] /\ changedAt'["backup"] = changedAt["backup"]
      /\ changedAt'["mains"] = IF place' = "clear" THEN sample.now ELSE changedAt["mains"]
      /\ place' = "clear" <=> sample.mains # raw["mains"] \/ powerFailInterrupt
  BY DEF Power!Note, Power!inputs, PowerInv, PowerType, Power!Inputs
<1>2. Since = 0 /\ Since' = 0 /\ Age("backup")' = Age("backup")
      /\ Age("mains")' = (IF place' = "clear" THEN 0 ELSE Age("mains"))
  BY <1>1 DEF PowerInv, SinceInv, Since, Age
<1>3. \A i \in Power!Inputs : Slack(i)' = Slack(i)
  BY <1>1 DEF Slack, Undecided
<1>4. PowerType' /\ SinceInv' /\ FlushInv' /\ Power!TheLastReportHolds'
  BY <1>1, <1>2
  DEF PowerInv, PowerType, SinceInv, FlushInv, Power!TheLastReportHolds, Power!Inputs
<1>5. ReadInv' /\ NotedInv' /\ FlagInv'
  BY <1>1, <1>2, PowerConstants
  DEF PowerInv, PowerType, ReadInv, NotedInv, FlagInv, ReadOf, Noted, Power!Inputs
<1>6. PendingInv'
  <2>1. raw'["backup"] # failed'["backup"]
          => quiet'["backup"] <= Age("backup")' + Power!LongestPass
             /\ Age("backup")' < Debounce(raw'["backup"]) + Slack("backup")'
    BY <1>1, <1>2, <1>3 DEF PowerInv, PendingInv, Power!Inputs
  <2>2. quiet["mains"] <= Power!LongestPass \/ place' # "clear"
    BY <1>1, <1>2, PowerConstants
    DEF PowerInv, PowerType, ReadInv, NotedInv, FlagInv, ReadOf, Noted, Power!Inputs
  <2>3. Slack("mains") = Power!LongestPass
    BY <1>1 DEF Slack, Undecided
  <2>4. raw'["mains"] # failed'["mains"]
          => quiet'["mains"] <= Age("mains")' + Power!LongestPass
             /\ Age("mains")' < Debounce(raw'["mains"]) + Slack("mains")'
    BY <1>1, <1>2, <1>3, <2>2, <2>3, PowerConstants DEF PowerInv, PowerType, PendingInv, Power!Inputs
  <2> QED
    BY <2>1, <2>4 DEF PendingInv, Power!Inputs
<1>7. QuietInv'
  BY <1>1, <1>2 DEF PowerInv, PowerType, QuietInv, Power!Inputs
<1> QED
  BY <1>4, <1>5, <1>6, <1>7 DEF PowerInv

LEMMA ClearKept == ASSUME PowerInv, Power!Clear PROVE PowerInv'
<1>1. /\ UNCHANGED <<pin, quiet, raw, changedAt, failed, sample, busy, told, restarted, millis>>
      /\ powerFailInterrupt' = FALSE /\ place = "clear" /\ place' = "noteBackup"
  BY DEF Power!Clear
<1>2. Since' = Since /\ Since = 0 /\ (\A i \in Power!Inputs : Age(i)' = Age(i) /\ Slack(i)' = Slack(i))
  BY <1>1 DEF Since, Age, Slack, Undecided, PowerInv, SinceInv
<1>3. Age("mains") = 0
  BY <1>1, <1>2 DEF PowerInv, QuietInv, Age, Since
<1>4. PowerType' /\ SinceInv' /\ FlushInv' /\ Power!TheLastReportHolds'
  BY <1>1, <1>2 DEF PowerInv, PowerType, SinceInv, FlushInv, Power!TheLastReportHolds
<1>5. ReadInv' /\ NotedInv' /\ FlagInv'
  BY <1>1, <1>2 DEF PowerInv, PowerType, ReadInv, NotedInv, FlagInv, ReadOf, Noted
<1>6. PendingInv'
  BY <1>1, <1>2 DEF PowerInv, PendingInv
<1>7. QuietInv'
  BY <1>1, <1>2, <1>3 DEF PowerInv, PowerType, QuietInv, Power!Inputs
<1> QED
  BY <1>4, <1>5, <1>6, <1>7 DEF PowerInv

LEMMA NoteBackupKept == ASSUME PowerInv, Power!NoteBackup PROVE PowerInv'
<1>1. /\ UNCHANGED <<pin, powerFailInterrupt, quiet, failed, sample, busy, told, restarted, millis>>
      /\ place = "noteBackup" /\ place' = "mains"
      /\ raw' \in [Power!Inputs -> BOOLEAN] /\ changedAt' \in [Power!Inputs -> Moments]
      /\ raw'["backup"] = sample.backup
      /\ raw'["mains"] = raw["mains"] /\ changedAt'["mains"] = changedAt["mains"]
      /\ changedAt'["backup"]
           = IF sample.backup # raw["backup"] THEN sample.now ELSE changedAt["backup"]
  BY DEF Power!NoteBackup, Power!inputs, PowerInv, PowerType, Power!Inputs
<1>2. Since = 0 /\ Since' = 0 /\ Age("mains")' = Age("mains")
      /\ Age("backup")' = (IF sample.backup # raw["backup"] THEN 0 ELSE Age("backup"))
  BY <1>1 DEF PowerInv, SinceInv, Since, Age
<1>3. \A i \in Power!Inputs : Slack(i)' = Slack(i)
  BY <1>1 DEF Slack, Undecided
<1>4. PowerType' /\ SinceInv' /\ FlushInv' /\ Power!TheLastReportHolds'
  BY <1>1, <1>2
  DEF PowerInv, PowerType, SinceInv, FlushInv, Power!TheLastReportHolds, Power!Inputs
<1>5. ReadInv' /\ NotedInv' /\ FlagInv'
  BY <1>1, <1>2, PowerConstants
  DEF PowerInv, PowerType, ReadInv, NotedInv, FlagInv, ReadOf, Noted, Power!Inputs
<1>6. PendingInv'
  <2>1. raw'["mains"] # failed'["mains"]
          => quiet'["mains"] <= Age("mains")' + Power!LongestPass
             /\ Age("mains")' < Debounce(raw'["mains"]) + Slack("mains")'
    BY <1>1, <1>2, <1>3 DEF PowerInv, PendingInv, Power!Inputs
  <2>2. quiet["backup"] <= Power!LongestPass \/ sample.backup = raw["backup"]
    BY <1>1, <1>2, PowerConstants
    DEF PowerInv, PowerType, ReadInv, NotedInv, ReadOf, Noted, Power!Inputs
  <2>3. Slack("backup") = MaxBusy + 1
    BY <1>1 DEF Slack, Undecided
  <2>4. raw'["backup"] # failed'["backup"]
          => quiet'["backup"] <= Age("backup")' + Power!LongestPass
             /\ Age("backup")' < Debounce(raw'["backup"]) + Slack("backup")'
    BY <1>1, <1>2, <1>3, <2>2, <2>3, PowerConstants DEF PowerInv, PowerType, PendingInv, Power!Inputs
  <2> QED
    BY <2>1, <2>4 DEF PendingInv, Power!Inputs
<1>7. QuietInv'
  BY <1>1, <1>2 DEF PowerInv, PowerType, QuietInv, Power!Inputs
<1> QED
  BY <1>4, <1>5, <1>6, <1>7 DEF PowerInv

LEMMA DecideMainsKept ==
    ASSUME PowerInv, Power!DecideMains PROVE PowerInv' /\ Power!DebouncedStep
<1>1. /\ UNCHANGED <<pin, powerFailInterrupt, quiet, raw, changedAt, sample, busy, told, restarted, millis>>
      /\ place = "mains" /\ place' \in {"emit", "backup"}
      /\ failed' \in [Power!Inputs -> BOOLEAN] /\ failed'["backup"] = failed["backup"]
      /\ failed'["mains"] = IF place' = "emit" THEN raw["mains"] ELSE failed["mains"]
      /\ place' = "emit" <=> Power!Fails("mains") \/ Power!Restores("mains")
  BY DEF Power!DecideMains, Power!inputs, PowerInv, PowerType, Power!Inputs
<1>2. Since = 0 /\ Since' = 0 /\ \A i \in Power!Inputs : Age(i)' = Age(i)
  BY <1>1 DEF PowerInv, SinceInv, Since, Age
<1>3. Power!Elapsed("mains") = Age("mains")
  <2>1. millis \in Moments /\ sample.now \in Moments /\ changedAt["mains"] \in Moments
    BY DEF PowerInv, PowerType, Power!Inputs
  <2>2. Gap(sample.now, changedAt["mains"]) \in Nat /\ Gap(sample.now, changedAt["mains"]) < PowerWrap
    BY <2>1, GapIs, PowerConstants DEF Moments
  <2>3. Gap(millis, changedAt["mains"]) = Gap(sample.now, changedAt["mains"]) + 0
    BY <1>2, <2>1, <2>2, GapInParts DEF Since
  <2> QED
    BY <2>2, <2>3 DEF Power!Elapsed, Age, Gap
<1>4. /\ place' = "emit" => raw["mains"] # failed["mains"]
                            /\ Age("mains") >= Debounce(raw["mains"])
      /\ place' = "backup" /\ raw["mains"] # failed["mains"]
           => Age("mains") < Debounce(raw["mains"])
  BY <1>1, <1>3, PowerFacts, PowerConstants
  DEF Power!Fails, Power!Restores, Debounce, PowerInv, PowerType, Power!Inputs
<1>5. PowerType' /\ SinceInv' /\ FlushInv'
  BY <1>1, <1>2, PowerConstants DEF PowerInv, PowerType, SinceInv, FlushInv, Power!Inputs
<1>6. Power!TheLastReportHolds'
  BY <1>1 DEF PowerInv, Power!TheLastReportHolds
<1>7. ReadInv' /\ NotedInv' /\ FlagInv'
  BY <1>1, <1>2 DEF PowerInv, PowerType, ReadInv, NotedInv, FlagInv, ReadOf, Noted, Power!Inputs
<1>8. PendingInv'
  <2>1. raw'["mains"] # failed'["mains"]
          => quiet'["mains"] <= Age("mains")' + Power!LongestPass
             /\ Age("mains")' < Debounce(raw'["mains"]) + Slack("mains")'
    BY <1>1, <1>2, <1>4, PowerFacts, PowerConstants
    DEF PowerInv, PowerType, PendingInv, Power!Inputs, Slack, Undecided
  <2>2. Slack("backup") = MaxBusy + 1 /\ Slack("backup")' \in Nat /\ Slack("backup")' >= MaxBusy + 1
    <3>1. Slack("backup") = MaxBusy + 1 /\ MaxBusy \in Nat /\ Power!LongestPass = MaxBusy + MaxBusy + 1
      BY <1>1, PowerConstants DEF Slack, Undecided
    <3>2. Slack("backup")' = IF place' = "emit" THEN MaxBusy + 1 + busy' ELSE Power!LongestPass
      BY <1>1 DEF Slack, Undecided
    <3> QED
      BY <1>1, <3>1, <3>2 DEF PowerInv, PowerType
  <2>3. raw'["backup"] # failed'["backup"]
          => quiet'["backup"] <= Age("backup")' + Power!LongestPass
             /\ Age("backup")' < Debounce(raw'["backup"]) + Slack("backup")'
    BY <1>1, <1>2, <2>2, PowerFacts, PowerConstants DEF PowerInv, PowerType, PendingInv, Power!Inputs
  <2> QED
    BY <2>1, <2>3 DEF PendingInv, Power!Inputs
<1>9. QuietInv'
  BY <1>1, <1>2 DEF PowerInv, PowerType, QuietInv, Power!Inputs
<1>10. Power!DebouncedStep
  <2> SUFFICES ASSUME failed'["mains"] # failed["mains"]
               PROVE  /\ sample.mains = failed'["mains"]
                      /\ sample.quiet >= Debounce(sample.mains)
    BY DEF Power!DebouncedStep, Debounce
  <2>1. place' = "emit" /\ failed'["mains"] = raw["mains"] /\ raw["mains"] = sample.mains
    BY <1>1 DEF PowerInv, NotedInv, Noted, ReadOf, Power!Inputs
  <2>2. Age("mains") <= sample.quiet
    BY <1>1, <2>1 DEF PowerInv, QuietInv
  <2> QED
    BY <1>4, <2>1, <2>2, PowerFacts, PowerConstants DEF PowerInv, PowerType, Power!Inputs
<1> QED
  BY <1>5, <1>6, <1>7, <1>8, <1>9, <1>10 DEF PowerInv

LEMMA EmitKept == ASSUME PowerInv, Power!EmitMains PROVE PowerInv'
<1>1. /\ UNCHANGED <<pin, powerFailInterrupt, quiet, raw, changedAt, failed, sample, millis>>
      /\ place = "emit" /\ place' = "backup" /\ told' = failed["mains"] /\ busy' = 0
  BY DEF Power!EmitMains, Power!inputs
<1>2. Since = busy /\ Since' = Since /\ \A i \in Power!Inputs : Age(i)' = Age(i)
  BY <1>1 DEF PowerInv, SinceInv, Since, Age
<1>3. Slack("mains")' = Slack("mains") /\ Slack("backup")' \in Nat /\ Slack("backup") <= Slack("backup")'
  BY <1>1, <1>2, PowerConstants DEF Slack, Undecided, PowerInv, PowerType
<1>4. PowerType' /\ SinceInv' /\ FlushInv' /\ Power!TheLastReportHolds'
  BY <1>1, <1>2, PowerConstants
  DEF PowerInv, PowerType, SinceInv, FlushInv, Power!TheLastReportHolds
<1>5. ReadInv' /\ NotedInv' /\ FlagInv'
  BY <1>1, <1>2 DEF PowerInv, PowerType, ReadInv, NotedInv, FlagInv, ReadOf, Noted, Power!Inputs
<1>6. PendingInv'
  BY <1>1, <1>2, <1>3, PowerFacts, PowerConstants
  DEF PowerInv, PowerType, PendingInv, Power!Inputs
<1>7. QuietInv'
  BY <1>1, <1>2 DEF PowerInv, PowerType, QuietInv, Power!Inputs
<1> QED
  BY <1>4, <1>5, <1>6, <1>7 DEF PowerInv

LEMMA DecideBackupKept == ASSUME PowerInv, Power!DecideBackup PROVE PowerInv'
<1>1. /\ UNCHANGED <<pin, powerFailInterrupt, quiet, raw, changedAt, sample, busy, told, restarted, millis>>
      /\ place = "backup" /\ place' \in {"flush", "sleep"}
      /\ failed' \in [Power!Inputs -> BOOLEAN] /\ failed'["mains"] = failed["mains"]
      /\ failed'["backup"] = IF Power!Fails("backup") \/ Power!Restores("backup")
                             THEN raw["backup"] ELSE failed["backup"]
      /\ place' = "flush" => Power!Fails("backup")
  BY DEF Power!DecideBackup, Power!Fails, Power!Restores, Power!inputs, PowerInv, PowerType, Power!Inputs
<1>2. Since' = Since /\ Since <= MaxBusy /\ \A i \in Power!Inputs : Age(i)' = Age(i)
  BY <1>1 DEF PowerInv, SinceInv, Since, Age
<1>3. raw["backup"] # failed'["backup"] => Age("backup") < Debounce(raw["backup"]) + Since
  <2> SUFFICES ASSUME raw["backup"] # failed'["backup"]
               PROVE  Age("backup") < Debounce(raw["backup"]) + Since
    OBVIOUS
  <2>1. millis \in Moments /\ sample.now \in Moments /\ changedAt["backup"] \in Moments
        /\ Gap(sample.now, changedAt["backup"]) \in Nat
    BY GapIsNatural DEF PowerInv, PowerType, Power!Inputs
  <2>2. Gap(sample.now, changedAt["backup"]) < Debounce(raw["backup"])
    BY <1>1, <2>1, PowerConstants
    DEF Power!Fails, Power!Restores, Power!Elapsed, Gap, Debounce, PowerInv, PowerType, Power!Inputs
  <2>3. Age("backup") = Gap(sample.now, changedAt["backup"]) + Since
    BY <1>2, <2>1, <2>2, GapInParts, PowerFacts, PowerConstants
    DEF Since, Age, PowerInv, PowerType, Power!Inputs
  <2> QED
    BY <2>1, <2>2, <2>3, PowerFacts, PowerConstants DEF PowerInv, PowerType, Power!Inputs
<1>4. /\ Slack("mains")' = Slack("mains") /\ Slack("backup")' = Since
      /\ place' = "flush" => failed'["backup"] = raw["backup"]
  BY <1>1, <1>2 DEF Slack, Undecided
<1>5. PowerType' /\ SinceInv' /\ Power!TheLastReportHolds'
  BY <1>1, <1>2, PowerFacts, PowerConstants
  DEF PowerInv, PowerType, SinceInv, Power!TheLastReportHolds
<1>6. FlushInv'
  BY <1>1, <1>2, <1>4 DEF FlushInv
<1>7. ReadInv' /\ NotedInv' /\ FlagInv'
  BY <1>1, <1>2 DEF PowerInv, PowerType, ReadInv, NotedInv, FlagInv, ReadOf, Noted, Power!Inputs
<1>8. PendingInv'
  <2>1. raw'["mains"] # failed'["mains"]
          => quiet'["mains"] <= Age("mains")' + Power!LongestPass
             /\ Age("mains")' < Debounce(raw'["mains"]) + Slack("mains")'
    BY <1>1, <1>2, <1>4 DEF PowerInv, PendingInv, Power!Inputs
  <2>2. raw'["backup"] # failed'["backup"] => raw["backup"] # failed["backup"]
    BY <1>1
  <2>3. raw'["backup"] # failed'["backup"]
          => quiet'["backup"] <= Age("backup")' + Power!LongestPass
             /\ Age("backup")' < Debounce(raw'["backup"]) + Slack("backup")'
    BY <1>1, <1>2, <1>3, <1>4, <2>2 DEF PowerInv, PendingInv, Power!Inputs
  <2> QED
    BY <2>1, <2>3 DEF PendingInv, Power!Inputs
<1>9. QuietInv'
  BY <1>1, <1>2 DEF PowerInv, PowerType, QuietInv, Power!Inputs
<1> QED
  BY <1>5, <1>6, <1>7, <1>8, <1>9 DEF PowerInv

LEMMA FlushKept == ASSUME PowerInv, Power!Flush PROVE PowerInv'
<1>1. /\ UNCHANGED <<pin, powerFailInterrupt, quiet, raw, changedAt, failed, sample, told, restarted, millis>>
      /\ place = "flush" /\ place' = "sleep" /\ busy' = 0
  BY DEF Power!Flush, Power!inputs
<1>2. /\ Since' = Since
      /\ \A i \in Power!Inputs : Age(i)' = Age(i) /\ Slack(i)' = Slack(i)
  BY <1>1 DEF Since, Age, Slack, Undecided
<1>3. PowerType' /\ SinceInv' /\ FlushInv' /\ Power!TheLastReportHolds'
  BY <1>1, <1>2, PowerFacts, PowerConstants
  DEF PowerInv, PowerType, SinceInv, FlushInv, Power!TheLastReportHolds
<1>4. ReadInv' /\ NotedInv' /\ FlagInv'
  BY <1>1, <1>2 DEF PowerInv, PowerType, ReadInv, NotedInv, FlagInv, ReadOf, Noted, Power!Inputs
<1>5. PendingInv' /\ QuietInv'
  BY <1>1, <1>2 DEF PowerInv, PowerType, PendingInv, QuietInv, Power!Inputs
<1> QED
  BY <1>3, <1>4, <1>5 DEF PowerInv

\* A tick makes what is younger than the wrap one older.
LEMMA OlderByOne ==
    ASSUME PowerInv, Power!TimePasses, changedAt' = changedAt
    PROVE  /\ millis' \in Moments /\ quiet' \in [Power!Inputs -> Nat]
           /\ \A i \in Power!Inputs : quiet'[i] <= quiet[i] + 1
           /\ \A i \in Power!Inputs : raw[i] # failed[i] => Age(i)' = Age(i) + 1
           /\ raw["mains"] # failed["mains"] /\ Age("mains") <= quiet["mains"]
                => Age("mains") + 1 <= quiet'["mains"]
           /\ place # "top" /\ sample' = sample => Since' = Since + 1
<1>1. \A i \in Power!Inputs : quiet'[i] = IF quiet[i] = Power!OldEnough THEN quiet[i] ELSE quiet[i] + 1
  BY DEF Power!TimePasses, Power!Aged
<1>2. quiet' = [i \in Power!Inputs |-> Power!Aged(quiet[i])] /\ millis' = Power!Later(millis)
  BY DEF Power!TimePasses
<1>3. millis' \in Moments
  BY <1>2, GapLater DEF PowerInv, PowerType
<1>4. quiet' \in [Power!Inputs -> Nat]
  BY <1>2 DEF PowerInv, PowerType, Power!Aged
<1>5. \A i \in Power!Inputs : quiet'[i] <= quiet[i] + 1
  BY <1>1 DEF PowerInv, PowerType
<1>6. \A i \in Power!Inputs :
        raw[i] # failed[i] => Age(i) < Power!SlowDebounce + Power!LongestPass
  <2> SUFFICES ASSUME NEW i \in Power!Inputs, raw[i] # failed[i]
               PROVE  Age(i) < Power!SlowDebounce + Power!LongestPass
    OBVIOUS
  <2>1. Age(i) < Debounce(raw[i]) + Slack(i) /\ raw[i] \in BOOLEAN
    BY DEF PowerInv, PowerType, PendingInv
  <2>2. Slack(i) \in Nat /\ Slack(i) <= Power!LongestPass /\ Age(i) \in Nat
    BY PowerFacts
  <2> QED
    BY <2>1, <2>2, PowerConstants
<1>7. \A i \in Power!Inputs : raw[i] # failed[i] => Age(i)' = Age(i) + 1
  <2> SUFFICES ASSUME NEW i \in Power!Inputs, raw[i] # failed[i]
               PROVE  Age(i)' = Age(i) + 1
    OBVIOUS
  <2>1. Age(i) + 1 < PowerWrap /\ millis \in Moments /\ changedAt[i] \in Moments
    BY <1>6, PowerFacts, PowerConstants DEF PowerInv, PowerType
  <2> QED
    BY <1>2, <2>1, GapLater DEF Age
<1>8. raw["mains"] # failed["mains"] /\ Age("mains") <= quiet["mains"]
        => Age("mains") + 1 <= quiet'["mains"]
  BY <1>1, <1>6, PowerFacts, PowerConstants DEF PowerInv, PowerType, Power!OldEnough, Power!Inputs
<1>9. place # "top" /\ sample' = sample => Since' = Since + 1
  <2> SUFFICES ASSUME place # "top", sample' = sample PROVE Since' = Since + 1
    OBVIOUS
  <2>1. Since + 1 < PowerWrap /\ millis \in Moments /\ sample.now \in Moments
    BY PowerFacts, PowerConstants DEF PowerInv, PowerType
  <2> QED
    BY <1>2, <2>1, GapLater DEF Since
<1> QED
  BY <1>3, <1>4, <1>5, <1>7, <1>8, <1>9

LEMMA WaitKept == ASSUME PowerInv, Power!WaitForFlash PROVE PowerInv'
<1>1. /\ UNCHANGED <<pin, powerFailInterrupt, raw, changedAt, failed, sample, place, told, restarted>>
      /\ place \in {"emit", "flush"} /\ busy < MaxBusy /\ busy' = busy + 1
      /\ Power!TimePasses
  BY DEF Power!WaitForFlash
<1>2. /\ millis' \in Moments /\ quiet' \in [Power!Inputs -> Nat] /\ Since' = Since + 1
      /\ \A i \in Power!Inputs : quiet'[i] <= quiet[i] + 1
      /\ \A i \in Power!Inputs : raw[i] # failed[i] => Age(i)' = Age(i) + 1
      /\ raw["mains"] # failed["mains"] /\ Age("mains") <= quiet["mains"]
           => Age("mains") + 1 <= quiet'["mains"]
  BY <1>1, OlderByOne
<1>3. \A i \in Power!Inputs : Slack(i)' = Slack(i) + 1
  <2>1. busy \in Nat /\ MaxBusy \in Nat /\ Since \in Nat
    BY PowerFacts, PowerConstants DEF PowerInv, PowerType
  <2>2. ~Undecided /\ ~Undecided'
    BY <1>1 DEF Undecided
  <2>3. Slack("mains") = Since /\ Slack("mains")' = Since'
    BY <2>2 DEF Slack
  <2>4. CASE place = "emit"
    <3>1. Slack("backup") = MaxBusy + 1 + busy /\ Slack("backup")' = MaxBusy + 1 + busy'
      BY <1>1, <2>2, <2>4 DEF Slack
    <3> QED
      BY <1>1, <1>2, <2>1, <2>3, <3>1 DEF Power!Inputs
  <2>5. CASE place = "flush"
    <3>1. Slack("backup") = Since /\ Slack("backup")' = Since'
      BY <1>1, <2>2, <2>5 DEF Slack
    <3> QED
      BY <1>2, <2>3, <3>1 DEF Power!Inputs
  <2> QED
    BY <1>1, <2>4, <2>5
<1>4. PowerType' /\ SinceInv' /\ FlushInv' /\ Power!TheLastReportHolds'
  BY <1>1, <1>2, PowerFacts, PowerConstants
  DEF PowerInv, PowerType, SinceInv, FlushInv, Power!TheLastReportHolds
<1>5. ReadInv' /\ NotedInv' /\ FlagInv'
  BY <1>1, <1>2, PowerFacts
  DEF PowerInv, PowerType, ReadInv, NotedInv, FlagInv, ReadOf, Noted, Power!Inputs
<1>6. PendingInv'
  BY <1>1, <1>2, <1>3, PowerFacts, PowerConstants DEF PowerInv, PowerType, PendingInv
<1>7. QuietInv'
  BY <1>1, <1>2 DEF PowerInv, QuietInv, Power!Inputs
<1> QED
  BY <1>4, <1>5, <1>6, <1>7 DEF PowerInv

LEMMA SleepKept == ASSUME PowerInv, Power!Sleep PROVE PowerInv'
<1>1. /\ UNCHANGED <<pin, powerFailInterrupt, raw, changedAt, failed, busy, told, restarted>>
      /\ place = "sleep" /\ place' = "top" /\ Power!TimePasses /\ sample' = Power!NoSample
  BY DEF Power!Sleep
<1>2. /\ millis' \in Moments /\ quiet' \in [Power!Inputs -> Nat]
      /\ \A i \in Power!Inputs : quiet'[i] <= quiet[i] + 1
      /\ \A i \in Power!Inputs : raw[i] # failed[i] => Age(i)' = Age(i) + 1
      /\ raw["mains"] # failed["mains"] /\ Age("mains") <= quiet["mains"]
           => Age("mains") + 1 <= quiet'["mains"]
  BY <1>1, OlderByOne
<1>3. /\ sample'.mains = FALSE /\ sample'.backup = FALSE /\ sample'.now = 0 /\ sample'.quiet = 0
      /\ 0 \in Moments
  BY <1>1, PowerConstants DEF Power!NoSample, Moments
<1>4. /\ Since <= MaxBusy + MaxBusy /\ Since \in Nat
      /\ raw["backup"] # failed["backup"] => Since <= MaxBusy
  BY <1>1, PowerFacts DEF PowerInv, SinceInv, FlushInv
<1>5. PowerType' /\ SinceInv' /\ FlushInv' /\ Power!TheLastReportHolds'
  BY <1>1, <1>2, <1>3 DEF PowerInv, PowerType, SinceInv, FlushInv, Power!TheLastReportHolds
<1>6. ReadInv' /\ NotedInv' /\ FlagInv'
  BY <1>1, <1>2, <1>4, PowerConstants
  DEF PowerInv, PowerType, ReadInv, NotedInv, FlagInv, ReadOf, Noted, Power!Inputs
<1>7. PendingInv'
  <2>1. Slack("mains") = Since /\ Slack("backup") = Since
        /\ Slack("mains")' = MaxBusy + MaxBusy + 1 /\ Slack("backup")' = MaxBusy + 1
    BY <1>1, PowerConstants DEF Slack, Undecided
  <2> QED
    BY <1>1, <1>2, <1>4, <2>1, PowerFacts, PowerConstants
    DEF PowerInv, PowerType, PendingInv, Power!Inputs
<1>8. QuietInv'
  BY <1>1, <1>2 DEF PowerInv, QuietInv, Power!Inputs
<1> QED
  BY <1>5, <1>6, <1>7, <1>8 DEF PowerInv

LEMMA RestartKept == ASSUME PowerInv, Power!Restart PROVE PowerInv'
<1>1. /\ powerFailInterrupt' = FALSE /\ millis' = 0 /\ place' = "top" /\ busy' = 0
      /\ restarted' = TRUE /\ pin' = pin /\ sample' = Power!NoSample
      /\ raw' \in [Power!Inputs -> BOOLEAN] /\ failed' \in [Power!Inputs -> BOOLEAN]
      /\ changedAt' \in [Power!Inputs -> Moments] /\ quiet' \in [Power!Inputs -> Nat]
      /\ 0 \in Moments
      /\ \A i \in Power!Inputs : raw'[i] = failed'[i] /\ quiet'[i] = 0
  BY PowerConstants DEF Power!Restart, Moments
<1>2. sample'.mains = FALSE /\ sample'.backup = FALSE /\ sample'.now = 0 /\ sample'.quiet = 0
  BY <1>1 DEF Power!NoSample
<1>3. PowerType' /\ SinceInv' /\ FlushInv' /\ Power!TheLastReportHolds'
  <2>1. PowerType'
    <3>1. /\ sample'.mains \in BOOLEAN /\ sample'.backup \in BOOLEAN
          /\ sample'.now \in Moments /\ sample'.quiet \in Nat
      <4>1. sample'.mains \in BOOLEAN /\ sample'.backup \in BOOLEAN
        BY <1>2, Zenon
      <4>2. sample'.now \in Moments /\ sample'.quiet \in Nat
        BY <1>1, <1>2, SMT
      <4> QED
        BY <4>1, <4>2
    <3>2. busy' \in Nat /\ busy' <= MaxBusy /\ millis' \in Moments
      BY <1>1, PowerConstants
    <3>3. powerFailInterrupt' \in BOOLEAN /\ pin' \in [Power!Inputs -> BOOLEAN]
      BY <1>1 DEF PowerInv, PowerType
    <3> QED
      BY <1>1, <3>1, <3>2, <3>3, Zenon DEF PowerType
  <2>2. SinceInv' /\ FlushInv'
    BY <1>1 DEF SinceInv, FlushInv
  <2>3. Power!TheLastReportHolds'
    BY <1>1 DEF Power!TheLastReportHolds
  <2> QED
    BY <2>1, <2>2, <2>3
<1>4. ReadInv' /\ NotedInv' /\ FlagInv' /\ PendingInv' /\ QuietInv'
  BY <1>1, PowerConstants DEF ReadInv, NotedInv, Noted, FlagInv, PendingInv, QuietInv, Power!Inputs
<1> QED
  BY <1>3, <1>4 DEF PowerInv

LEMMA PowerStarts == ASSUME Power!Init PROVE PowerInv
<1>1. /\ powerFailInterrupt = FALSE /\ millis = 0 /\ place = "top" /\ busy = 0
      /\ told = FALSE /\ sample = Power!NoSample /\ pin \in [Power!Inputs -> BOOLEAN]
      /\ raw \in [Power!Inputs -> BOOLEAN] /\ failed \in [Power!Inputs -> BOOLEAN]
      /\ changedAt \in [Power!Inputs -> Moments] /\ quiet \in [Power!Inputs -> Nat]
      /\ 0 \in Moments /\ failed["mains"] = FALSE
      /\ \A i \in Power!Inputs : raw[i] = pin[i] /\ raw[i] = failed[i] /\ quiet[i] = 0
  BY PowerConstants DEF Power!Init, Moments, Power!Inputs
<1>2. sample.mains = FALSE /\ sample.backup = FALSE /\ sample.now = 0 /\ sample.quiet = 0
  BY <1>1 DEF Power!NoSample
<1>3. PowerType /\ SinceInv /\ FlushInv /\ Power!TheLastReportHolds
  <2>1. PowerType
    <3>1. /\ sample.mains \in BOOLEAN /\ sample.backup \in BOOLEAN
          /\ sample.now \in Moments /\ sample.quiet \in Nat
      <4>1. sample.mains \in BOOLEAN /\ sample.backup \in BOOLEAN
        BY <1>2, Zenon
      <4>2. sample.now \in Moments /\ sample.quiet \in Nat
        BY <1>1, <1>2, SMT
      <4> QED
        BY <4>1, <4>2
    <3>2. busy \in Nat /\ busy <= MaxBusy /\ millis \in Moments
      BY <1>1, PowerConstants
    <3>3. powerFailInterrupt \in BOOLEAN /\ pin \in [Power!Inputs -> BOOLEAN]
      BY <1>1 
    <3> QED
      BY <1>1, <3>1, <3>2, <3>3, Zenon DEF PowerType
  <2>2. SinceInv /\ FlushInv
    BY <1>1 DEF SinceInv, FlushInv
  <2>3. Power!TheLastReportHolds
    BY <1>1 DEF Power!TheLastReportHolds
  <2> QED
    BY <2>1, <2>2, <2>3
<1>4. ReadInv /\ NotedInv /\ FlagInv /\ PendingInv /\ QuietInv
  BY <1>1, PowerConstants DEF ReadInv, NotedInv, Noted, FlagInv, PendingInv, QuietInv, Power!Inputs
<1> QED
  BY <1>3, <1>4 DEF PowerInv

LEMMA PowerKept == ASSUME PowerInv, Power!Next PROVE PowerInv' /\ Power!DebouncedStep
<1>1. CASE Power!DecideMains
  BY <1>1, DecideMainsKept
<1>2. CASE ~Power!DecideMains
  <2>1. PowerInv'
    BY <1>2, EdgeKept, SampleKept, NoteKept, ClearKept, EmitKept, NoteBackupKept,
       DecideBackupKept, FlushKept, SleepKept, WaitKept, RestartKept DEF Power!Next
  <2>2. Power!DebouncedStep
    BY <1>2
    DEF Power!DebouncedStep, Power!Next, Power!MainsEdge, Power!BackupEdge, Power!task,
        Power!Sample, Power!Note, Power!Clear, Power!EmitMains, Power!NoteBackup,
        Power!DecideBackup, Power!Flush, Power!Sleep, Power!WaitForFlash, Power!Restart
  <2> QED
    BY <2>1, <2>2
<1> QED
  BY <1>1, <1>2

LEMMA TracksNow == PowerInv => Power!InTime /\ Power!TheLastReportHolds
  BY MainsInTime DEF PowerInv

\* A change of mains is taken over when, and in two passes only when, the input had no edge
\* for the debounce time, and what was told last of mains is what the device takes for
\* true, but for a reset: whatever the debounce times and the delays of the flash, if
\* millis() takes longer to wrap than they do together (powerTask, powerFailIsr).
THEOREM MainsTracked == ServicesSpec => MainsAreTracked
<1> DEFINE Inv == component = "power" => PowerInv
           Step == component = "power" => /\ Power!DebouncedStep
                                          /\ (Power!InTime /\ Power!TheLastReportHolds)'
<1>1. ServicesInit => Inv
  BY PowerStarts DEF ServicesInit
<1>2. Inv /\ [ServicesNext]_servicesVars => Inv' /\ [Step]_servicesVars
  <2> SUFFICES ASSUME Inv, [ServicesNext]_servicesVars PROVE Inv' /\ [Step]_servicesVars
    OBVIOUS
  <2>1. CASE PowerStep
    <3>1. component = "power" /\ component' = component /\ PowerInv' /\ Power!DebouncedStep
      BY <2>1, PowerKept DEF PowerStep
    <3>2. Power!InTime' /\ Power!TheLastReportHolds'
      BY <3>1, TracksNow, PTL
    <3> QED
      BY <3>1, <3>2
  <2>2. CASE component # "power" /\ component' = component
    BY <2>2
  <2>3. CASE UNCHANGED servicesVars
    <3>1. component' = component /\ UNCHANGED powerVars
      BY <2>3 DEF servicesVars
    <3>2. Inv'
      BY <3>1 DEF powerVars, PowerInv, PowerType, SinceInv, ReadInv, NotedInv, FlagInv,
         PendingInv, FlushInv, QuietInv, Power!TheLastReportHolds, Since, Age, Noted, ReadOf,
         Slack, Undecided
    <3> QED
      BY <2>3, <3>2
  <2> QED
    BY <2>1, <2>2, <2>3
    DEF ServicesNext, MeteringStep, JournalStep, TimeStep, ReportsStep, CertsStep
<1> QED
  BY <1>1, <1>2, PTL DEF ServicesSpec, MainsAreTracked

-----------------------------------------------------------------------------
(* Header journal: the newest entry stays readable while the next one is   *)
(* written, whatever a command that is cut short leaves.  What a boot      *)
(* makes of a journal is stated of any journal first.                      *)

LEMMA SmallestOf ==
    ASSUME NEW S \in SUBSET Nat, S # {}
    PROVE  \E m \in S : \A n \in S : m <= n
<1>1. IsWellFoundedOn(OpToRel(<, Nat), Nat)
  BY NatLessThanWellFounded
<1>2. PICK m \in S : \A n \in S : ~ (<<n, m>> \in OpToRel(<, Nat))
  BY <1>1, WFMin, Zenon
<1>3. \A n \in S : ~(n < m)
  BY <1>2 DEF OpToRel
<1> QED
  BY <1>3, SMT

Page == [st : {"free", "body", "garbage", "valid"}, gen : Nat, dropped : Nat]
Pages == {j \in [Journal!Places -> Page] :
            \A p \in Journal!Places : j[p].st = "free" => j[p] = Journal!Free}

ValidIn(j) == {p \in Journal!Places : j[p].st = "valid"}
NewestIn(j) == CHOOSE p \in ValidIn(j) : \A q \in ValidIn(j) : j[q].gen <= j[p].gen
SavedIn(j) == IF ValidIn(j) = {} THEN 0 ELSE j[NewestIn(j)].dropped
UniqueIn(j) == \A p, q \in ValidIn(j) : j[p].gen = j[q].gen => p = q
UpTo(j, limit) == \A p \in Journal!Places : j[p].gen <= limit

LEMMA NewestFound ==
    ASSUME NEW j \in Pages, NEW limit \in Nat, UpTo(j, limit), ValidIn(j) # {}
    PROVE  NewestIn(j) \in ValidIn(j) /\ \A q \in ValidIn(j) : j[q].gen <= j[NewestIn(j)].gen
<1> DEFINE D == {limit - j[p].gen : p \in ValidIn(j)}
<1>1. \A p \in ValidIn(j) : j[p].gen \in Nat /\ j[p].gen <= limit
  BY DEF Pages, Page, ValidIn, UpTo
<1>2. D \in SUBSET Nat /\ D # {}
  BY <1>1
<1>3. PICK m \in D : \A n \in D : m <= n
  BY <1>2, SmallestOf
<1>4. PICK p \in ValidIn(j) : m = limit - j[p].gen
  BY <1>3
<1>5. \A q \in ValidIn(j) : limit - j[p].gen <= limit - j[q].gen
  BY <1>3, <1>4
<1>6. \A q \in ValidIn(j) : j[q].gen <= j[p].gen
  BY <1>1, <1>5
<1> QED
  BY <1>6 DEF NewestIn

LEMMA NewestIs ==
    ASSUME NEW j \in Pages, NEW limit \in Nat, UpTo(j, limit), UniqueIn(j),
           NEW p \in ValidIn(j), \A q \in ValidIn(j) : j[q].gen <= j[p].gen
    PROVE  NewestIn(j) = p /\ SavedIn(j) = j[p].dropped
<1>1. NewestIn(j) \in ValidIn(j) /\ j[p].gen <= j[NewestIn(j)].gen
  BY NewestFound
<1>2. j[p].gen \in Nat /\ j[NewestIn(j)].gen \in Nat
  BY <1>1 DEF Pages, Page, ValidIn
<1>3. j[NewestIn(j)].gen <= j[p].gen
  BY <1>1
<1>4. NewestIn(j) = p
  BY <1>1, <1>2, <1>3 DEF UniqueIn
<1> QED
  BY <1>4 DEF SavedIn

\* What leaves the newest entry alone and makes none valid does not change what a boot
\* restores.
LEMMA NewestStays ==
    ASSUME NEW j \in Pages, NEW limit \in Nat, UpTo(j, limit), UniqueIn(j),
           NEW k \in Pages, UpTo(k, limit), ValidIn(k) \subseteq ValidIn(j),
           \A p \in ValidIn(k) : k[p] = j[p]
    PROVE  /\ UniqueIn(k)
           /\ ValidIn(j) # {} /\ NewestIn(j) \in ValidIn(k)
                => NewestIn(k) = NewestIn(j) /\ SavedIn(k) = SavedIn(j)
           /\ ValidIn(j) = {} => SavedIn(k) = SavedIn(j)
<1>1. UniqueIn(k)
  BY DEF UniqueIn
<1>2. ASSUME ValidIn(j) # {}, NewestIn(j) \in ValidIn(k)
      PROVE  NewestIn(k) = NewestIn(j) /\ SavedIn(k) = SavedIn(j)
  <2>1. \A q \in ValidIn(j) : j[q].gen <= j[NewestIn(j)].gen
    BY <1>2, NewestFound
  <2>2. \A q \in ValidIn(k) : k[q].gen <= k[NewestIn(j)].gen
    BY <1>2, <2>1
  <2>3. NewestIn(k) = NewestIn(j) /\ SavedIn(k) = k[NewestIn(j)].dropped
    BY <1>1, <1>2, <2>2, NewestIs
  <2> QED
    BY <1>2, <2>3 DEF SavedIn
<1>3. ValidIn(j) = {} => SavedIn(k) = SavedIn(j)
  BY DEF SavedIn
<1> QED
  BY <1>1, <1>2, <1>3

\* An entry newer than all, made valid, is what a boot restores.
LEMMA NewestIsNew ==
    ASSUME NEW j \in Pages, UniqueIn(j), NEW k \in Pages, NEW limit \in Nat, UpTo(k, limit),
           NEW here \in Journal!Places, ValidIn(k) = ValidIn(j) \cup {here},
           \A p \in ValidIn(j) : k[p] = j[p] /\ j[p].gen < k[here].gen
    PROVE  UniqueIn(k) /\ NewestIn(k) = here /\ SavedIn(k) = k[here].dropped
<1>1. \A p \in ValidIn(k) : k[p].gen \in Nat
  BY DEF Pages, Page, ValidIn
<1>2. UniqueIn(k)
  <2> SUFFICES ASSUME NEW p \in ValidIn(k), NEW q \in ValidIn(k), k[p].gen = k[q].gen PROVE p = q
    BY DEF UniqueIn
  <2>1. CASE p # here /\ q # here
    BY <2>1 DEF UniqueIn
  <2>2. CASE p = here \/ q = here
    BY <1>1, <2>2
  <2> QED
    BY <2>1, <2>2
<1>3. here \in ValidIn(k) /\ \A q \in ValidIn(k) : k[q].gen <= k[here].gen
  BY <1>1
<1> QED
  BY <1>2, <1>3, NewestIs

JournalType ==
    /\ journal \in Pages
    /\ ready \in BOOLEAN /\ generation \in Nat /\ dropped \in Nat /\ active \in {0, 1}
    /\ pc \in {"idle", "erase", "body", "commit"} /\ slot \in Journal!Entries
    /\ checkpoints \in Nat /\ timeouts \in Nat /\ timeouts <= MaxTimeouts
    /\ generation <= checkpoints /\ UpTo(journal, checkpoints)

Here == <<active, slot>>

\* The RAM is never behind the flash.  The entry a checkpoint is about to program, and the
\* one it has programmed but for the commit byte, are not valid; every valid one is older.
OrderInv ==
    /\ UniqueIn(journal)
    /\ ready => \A p \in ValidIn(journal) : journal[p].gen <= generation
    /\ pc # "idle" => ready /\ \A p \in ValidIn(journal) : journal[p].gen < generation
    /\ ~ready => dropped = 0
SlotInv ==
    /\ pc = "erase" => Journal!FreeIn(active) = {} /\ slot = 0
    /\ pc = "body" => journal[Here] = Journal!Free
    /\ pc = "commit" => journal[Here] = [st |-> "body", gen |-> generation, dropped |-> dropped]

\* Only a command that timed out can have used an entry of an active sector that does not
\* have the newest one.
UsedIn(j, sector) == {e \in Journal!Entries : j[<<sector, e>>].st # "free"}
Behind == ready /\ ValidIn(journal) # {} /\ NewestIn(journal)[1] # active
UsedInv ==
    Behind => Cardinality(UsedIn(journal, active)) <= timeouts + (IF pc = "commit" THEN 1 ELSE 0)

JournalInv == JournalType /\ OrderInv /\ SlotInv /\ UsedInv

LEMMA JournalConstants ==
    /\ EntryCount \in Nat \ {0} /\ MaxTimeouts \in Nat /\ 0 \in Journal!Entries
    /\ Journal!Entries \subseteq Nat
    /\ \A p \in Journal!Places : p[1] \in {0, 1} /\ p[2] \in Journal!Entries /\ p = <<p[1], p[2]>>
    /\ \A s \in {0, 1}, e \in Journal!Entries : <<s, e>> \in Journal!Places
    /\ IsFiniteSet(Journal!Entries) /\ Cardinality(Journal!Entries) = EntryCount
<1>1. EntryCount \in Nat \ {0} /\ EntryCount - 1 \in Nat /\ MaxTimeouts \in Nat
  BY ServicesAssumption DEF Journal!JournalAssumption
<1>2. IsFiniteSet(0..EntryCount - 1) /\ Cardinality(0..EntryCount - 1) = EntryCount
  BY <1>1, FS_Interval
<1>3. IsFiniteSet(Journal!Entries) /\ Cardinality(Journal!Entries) = EntryCount
  BY <1>2 DEF Journal!Entries
<1>4. 0 \in Journal!Entries /\ Journal!Entries \subseteq Nat
  BY <1>1 DEF Journal!Entries
<1>5. /\ \A p \in Journal!Places : p[1] \in {0, 1} /\ p[2] \in Journal!Entries /\ p = <<p[1], p[2]>>
      /\ \A s \in {0, 1}, e \in Journal!Entries : <<s, e>> \in Journal!Places
  BY DEF Journal!Places
<1> QED
  BY <1>1, <1>3, <1>4, <1>5

\* The names of the module for what is stated of any journal.
LEMMA JournalNames ==
    /\ Journal!ValidEntries = ValidIn(journal) /\ Journal!NewestEntry = NewestIn(journal)
    /\ Journal!Saved = SavedIn(journal)
  BY DEF Journal!ValidEntries, ValidIn, Journal!NewestEntry, NewestIn, Journal!Saved, SavedIn

LEMMA UsedInIsFinite ==
    ASSUME NEW j, NEW sector
    PROVE  IsFiniteSet(UsedIn(j, sector)) /\ Cardinality(UsedIn(j, sector)) \in Nat
<1>1. UsedIn(j, sector) \subseteq Journal!Entries
  BY DEF UsedIn
<1>2. IsFiniteSet(UsedIn(j, sector))
  BY <1>1, JournalConstants, FS_Subset
<1> QED
  BY <1>2, FS_CardinalityType

\* What a command that programs the body may leave: one more entry used, none valid.
LEMMA BodyProgrammed ==
    ASSUME JournalInv, pc = "body", NEW k \in Pages, UpTo(k, checkpoints),
           k[Here].st # "valid", \A p \in Journal!Places : p # Here => k[p] = journal[p]
    PROVE  /\ ValidIn(k) = ValidIn(journal) /\ \A p \in ValidIn(k) : k[p] = journal[p]
           /\ UniqueIn(k) /\ SavedIn(k) = SavedIn(journal)
           /\ ValidIn(k) # {} => NewestIn(k) = NewestIn(journal)
           /\ Cardinality(UsedIn(k, active)) <= Cardinality(UsedIn(journal, active)) + 1
<1>1. Here \in Journal!Places /\ journal[Here].st = "free" /\ journal \in Pages
  BY JournalConstants DEF JournalInv, JournalType, SlotInv, Here, Journal!Free
<1>2. ValidIn(k) = ValidIn(journal) /\ \A p \in ValidIn(k) : k[p] = journal[p]
  BY <1>1 DEF ValidIn
<1>3. checkpoints \in Nat /\ UpTo(journal, checkpoints) /\ UniqueIn(journal)
  BY DEF JournalInv, JournalType, OrderInv
<1>4. ValidIn(journal) # {} => NewestIn(journal) \in ValidIn(k)
  BY <1>1, <1>2, <1>3, NewestFound
<1>5. /\ UniqueIn(k) /\ SavedIn(k) = SavedIn(journal)
      /\ ValidIn(k) # {} => NewestIn(k) = NewestIn(journal)
  BY <1>1, <1>2, <1>3, <1>4, NewestStays
<1>6. Cardinality(UsedIn(k, active)) <= Cardinality(UsedIn(journal, active)) + 1
  <2> DEFINE U == UsedIn(journal, active)
  <2>1. UsedIn(k, active) \subseteq U \cup {slot}
    BY JournalConstants DEF UsedIn, Here, JournalInv, JournalType
  <2>2. IsFiniteSet(U) /\ Cardinality(U) \in Nat
    BY UsedInIsFinite
  <2>3. /\ IsFiniteSet(U \cup {slot})
        /\ Cardinality(U \cup {slot}) = Cardinality(U) \/ Cardinality(U \cup {slot}) = Cardinality(U) + 1
    BY <2>2, FS_AddElement
  <2>4. Cardinality(UsedIn(k, active)) <= Cardinality(U \cup {slot})
    BY <2>1, <2>3, FS_Subset
  <2>5. Cardinality(UsedIn(k, active)) \in Nat
    BY UsedInIsFinite
  <2> QED
    BY <2>2, <2>3, <2>4, <2>5
<1> QED
  BY <1>2, <1>5, <1>6

\* The commit byte makes the entry of this checkpoint the newest.
LEMMA Committed ==
    ASSUME JournalInv, pc = "commit"
    PROVE  LET k == Journal!WithCommit
           IN  /\ k \in Pages /\ UpTo(k, checkpoints)
               /\ ValidIn(k) = ValidIn(journal) \cup {Here} /\ k[Here].gen = generation
               /\ \A p \in ValidIn(journal) : k[p] = journal[p]
               /\ UniqueIn(k) /\ NewestIn(k) = Here /\ SavedIn(k) = dropped
<1> DEFINE k == Journal!WithCommit
<1>1. /\ Here \in Journal!Places /\ journal \in Pages
      /\ journal[Here] = [st |-> "body", gen |-> generation, dropped |-> dropped]
  BY JournalConstants DEF JournalInv, JournalType, SlotInv, Here
<1>2. journal[Here].st = "body" /\ journal[Here].gen = generation /\ journal[Here].dropped = dropped
  BY <1>1
<1>3. k = [journal EXCEPT ![Here] = [st |-> "valid", gen |-> generation, dropped |-> dropped]]
  <2>1. k = [journal EXCEPT ![Here].st = IF @ = "body" THEN "valid" ELSE @]
    BY DEF Journal!WithCommit, Here
  <2>2. k = [journal EXCEPT ![Here] = [journal[Here] EXCEPT !.st = "valid"]]
    BY <1>1, <1>2, <2>1
  <2>3. [journal[Here] EXCEPT !.st = "valid"] = [st |-> "valid", gen |-> generation, dropped |-> dropped]
    BY <1>1
  <2> QED
    BY <2>2, <2>3
<1>4. /\ k[Here] = [st |-> "valid", gen |-> generation, dropped |-> dropped]
      /\ \A p \in Journal!Places : p # Here => k[p] = journal[p]
      /\ k \in [Journal!Places -> Page]
  <2>1. [st |-> "valid", gen |-> generation, dropped |-> dropped] \in Page
    BY DEF Page, JournalInv, JournalType
  <2> QED
    BY <1>1, <1>3, <2>1 DEF Pages
<1> HIDE DEF k
<1>5. k[Here].st = "valid" /\ k[Here].gen = generation /\ k[Here].dropped = dropped /\ k \in Pages
  <2>1. k[Here].st = "valid" /\ k[Here].gen = generation /\ k[Here].dropped = dropped
    BY <1>4
  <2>2. \A p \in Journal!Places : k[p].st = "free" => k[p] = Journal!Free
    BY <1>1, <1>4, <2>1 DEF Pages
  <2> QED
    BY <1>4, <2>1, <2>2 DEF Pages
<1>6. UpTo(k, checkpoints)
  BY <1>4, <1>5 DEF UpTo, JournalInv, JournalType
<1>7. ValidIn(k) = ValidIn(journal) \cup {Here} /\ Here \notin ValidIn(journal)
  BY <1>1, <1>2, <1>4, <1>5 DEF ValidIn
<1>8. \A p \in ValidIn(journal) : k[p] = journal[p]
  BY <1>4, <1>7 DEF ValidIn
<1>9. \A p \in ValidIn(journal) : journal[p].gen < k[Here].gen
  BY <1>5 DEF JournalInv, OrderInv
<1>10. UniqueIn(journal) /\ checkpoints \in Nat
  BY DEF JournalInv, OrderInv, JournalType
<1>11. UniqueIn(k) /\ NewestIn(k) = Here /\ SavedIn(k) = k[Here].dropped
  BY <1>1, <1>5, <1>6, <1>7, <1>8, <1>9, <1>10, NewestIsNew
<1> QED
  BY <1>5, <1>6, <1>7, <1>8, <1>11 DEF k

\* What an erase may leave: the active sector as it is.
LEMMA Erased ==
    ASSUME JournalInv, NEW k \in Pages, UpTo(k, checkpoints),
           \A p \in Journal!Places : p[1] = active => k[p] = journal[p],
           \A p \in Journal!Places : k[p].st = "valid" => k[p] = journal[p]
    PROVE  /\ UniqueIn(k) /\ ValidIn(k) \subseteq ValidIn(journal)
           /\ \A p \in ValidIn(k) : k[p] = journal[p]
           /\ UsedIn(k, active) = UsedIn(journal, active)
           /\ ready /\ ~Behind => SavedIn(k) = SavedIn(journal)
           /\ ready /\ ValidIn(k) # {} /\ NewestIn(k)[1] # active => Behind
<1>1. ValidIn(k) \subseteq ValidIn(journal) /\ \A p \in ValidIn(k) : k[p] = journal[p]
  BY DEF ValidIn
<1>2. /\ checkpoints \in Nat /\ UpTo(journal, checkpoints) /\ UniqueIn(journal)
      /\ journal \in Pages /\ active \in {0, 1}
  BY DEF JournalInv, JournalType, OrderInv
<1>3. /\ UniqueIn(k)
      /\ ValidIn(journal) # {} /\ NewestIn(journal) \in ValidIn(k)
           => NewestIn(k) = NewestIn(journal) /\ SavedIn(k) = SavedIn(journal)
      /\ ValidIn(journal) = {} => SavedIn(k) = SavedIn(journal)
  BY <1>1, <1>2, NewestStays
<1>4. UsedIn(k, active) = UsedIn(journal, active)
  <2>1. \A e \in Journal!Entries : k[<<active, e>>] = journal[<<active, e>>]
    <3> SUFFICES ASSUME NEW e \in Journal!Entries PROVE k[<<active, e>>] = journal[<<active, e>>]
      OBVIOUS
    <3>1. <<active, e>> \in Journal!Places /\ <<active, e>>[1] = active
      BY <1>2, JournalConstants
    <3> QED
      BY <3>1
  <2> QED
    BY <2>1 DEF UsedIn
<1>5. ASSUME ValidIn(journal) # {}, NewestIn(journal)[1] = active
      PROVE  NewestIn(journal) \in ValidIn(k)
  <2>1. NewestIn(journal) \in ValidIn(journal)
    BY <1>2, <1>5, NewestFound
  <2> QED
    BY <1>5, <2>1 DEF ValidIn
<1> QED
  BY <1>1, <1>3, <1>4, <1>5 DEF Behind

\* When the sector that is not in use is erased although it has the newest entry, commands
\* have timed out for every entry of the other.
LEMMA ErasingBehind ==
    ASSUME JournalInv, pc = "erase", Behind
    PROVE  timeouts >= EntryCount
<1>1. UsedIn(journal, active) = Journal!Entries
  BY DEF JournalInv, SlotInv, UsedIn, Journal!FreeIn
<1> QED
  BY <1>1, JournalConstants DEF JournalInv, UsedInv, JournalType

\* Whatever a command that is cut short leaves, a boot restores what it would have restored
\* before the command or after it.
LEMMA CutShortKeeps ==
    ASSUME JournalInv, NEW k \in Journal!CutShort
    PROVE  /\ k \in Pages /\ UpTo(k, checkpoints) /\ UniqueIn(k)
           /\ ready => \A p \in ValidIn(k) : k[p].gen <= generation
           /\ pc \in {"erase", "body"} => \A p \in ValidIn(k) : k[p].gen < generation
           /\ \/ SavedIn(k) = SavedIn(journal)
              \/ ready /\ SavedIn(k) = dropped
              \/ timeouts >= EntryCount
           /\ ready /\ ValidIn(k) # {} /\ NewestIn(k)[1] # active
                => /\ Behind
                   /\ Cardinality(UsedIn(k, active))
                        <= Cardinality(UsedIn(journal, active)) + (IF pc = "body" THEN 1 ELSE 0)
<1> USE DEF JournalInv
<1>1. /\ journal \in Pages /\ UpTo(journal, checkpoints) /\ UniqueIn(journal)
      /\ checkpoints \in Nat /\ generation \in Nat /\ generation <= checkpoints /\ dropped \in Nat
      /\ ready => \A p \in ValidIn(journal) : journal[p].gen <= generation
      /\ pc # "idle" => \A p \in ValidIn(journal) : journal[p].gen < generation
      /\ Cardinality(UsedIn(journal, active)) \in Nat
  BY UsedInIsFinite DEF JournalType, OrderInv
<1>2. CASE k = journal
  BY <1>1, <1>2 DEF Behind
<1>3. CASE pc = "erase"
  <2>1. PICK left \in [Journal!Entries -> {"kept", "free", "garbage"}] :
           k = [p \in Journal!Places |-> IF p[1] = Journal!Other(active)
                                         THEN Journal!LeftOf(journal[p], left[p[2]]) ELSE journal[p]]
    BY <1>3, Zenon DEF Journal!CutShort
  <2>2. ASSUME NEW p \in Journal!Places
        PROVE  /\ k[p] \in {journal[p], Journal!Free, Journal!Garbage}
               /\ p[1] = active => k[p] = journal[p]
    <3>1. k[p] = IF p[1] = Journal!Other(active)
                 THEN Journal!LeftOf(journal[p], left[p[2]]) ELSE journal[p]
      BY <2>1
    <3>2. left[p[2]] \in {"kept", "free", "garbage"}
      BY JournalConstants
    <3>3. Journal!LeftOf(journal[p], left[p[2]]) \in {journal[p], Journal!Free, Journal!Garbage}
      BY <3>2 DEF Journal!LeftOf
    <3>4. active # Journal!Other(active)
      BY SMT DEF Journal!Other, JournalType
    <3> QED
      BY <3>1, <3>3, <3>4
  <2>3. /\ Journal!Free \in Page /\ Journal!Garbage \in Page
        /\ Journal!Free.st = "free" /\ Journal!Garbage.st = "garbage"
        /\ Journal!Free.gen = 0 /\ Journal!Garbage.gen = 0
    BY DEF Journal!Free, Journal!Garbage, Page
  <2>4. k \in Pages
    <3>1. \A p \in Journal!Places : k[p] \in Page
      BY <1>1, <2>2, <2>3 DEF Pages
    <3>2. k = [p \in Journal!Places |-> k[p]]
      BY <2>1
    <3>3. k \in [Journal!Places -> Page]
      BY <3>1, <3>2
    <3>4. \A p \in Journal!Places : k[p].st = "free" => k[p] = Journal!Free
      BY <1>1, <2>2, <2>3 DEF Pages
    <3> QED
      BY <3>3, <3>4 DEF Pages
  <2>5. UpTo(k, checkpoints)
    BY <1>1, <2>2, <2>3 DEF UpTo
  <2>6. \A p \in Journal!Places : k[p].st = "valid" => k[p] = journal[p]
    BY <2>2, <2>3
  <2>7. /\ UniqueIn(k) /\ ValidIn(k) \subseteq ValidIn(journal)
        /\ \A p \in ValidIn(k) : k[p] = journal[p]
        /\ UsedIn(k, active) = UsedIn(journal, active)
        /\ ready /\ ~Behind => SavedIn(k) = SavedIn(journal)
        /\ ready /\ ValidIn(k) # {} /\ NewestIn(k)[1] # active => Behind
    BY <2>2, <2>4, <2>5, <2>6, Erased
  <2>8. ready
    BY <1>3 DEF OrderInv
  <2> QED
    BY <1>1, <1>3, <2>4, <2>5, <2>7, <2>8, ErasingBehind
<1>4. CASE pc = "body" /\ k # journal
  <2>1. PICK x \in Page : /\ x.st \in {"body", "garbage"} /\ x.gen <= checkpoints
                         /\ k = [journal EXCEPT ![Here] = x]
    <3>1. k = [journal EXCEPT ![Here] = Journal!Garbage] \/ k = Journal!WithBody
      BY <1>4 DEF Journal!CutShort, Here
    <3>2. Journal!WithBody
            = [journal EXCEPT ![Here] = [st |-> "body", gen |-> generation, dropped |-> dropped]]
      <4>1. journal[Here] = Journal!Free
        BY <1>4 DEF SlotInv
      <4> QED
        BY <4>1 DEF Journal!WithBody, Here
    <3>3. /\ Journal!Garbage \in Page /\ Journal!Garbage.st = "garbage"
          /\ Journal!Garbage.gen <= checkpoints
      BY <1>1 DEF Journal!Garbage, Page
    <3>4. [st |-> "body", gen |-> generation, dropped |-> dropped] \in Page
      BY <1>1 DEF Page
    <3> QED
      BY <1>1, <3>1, <3>2, <3>3, <3>4
  <2>2. Here \in Journal!Places
    BY JournalConstants DEF JournalType, Here
  <2>3. /\ k \in Pages /\ k[Here] = x
        /\ \A p \in Journal!Places : p # Here => k[p] = journal[p]
    <3>1. /\ k \in [Journal!Places -> Page] /\ k[Here] = x
          /\ \A p \in Journal!Places : p # Here => k[p] = journal[p]
      BY <1>1, <2>1, <2>2 DEF Pages
    <3>2. \A p \in Journal!Places : k[p].st = "free" => k[p] = Journal!Free
      BY <1>1, <2>1, <2>2, <3>1 DEF Pages
    <3> QED
      BY <3>1, <3>2 DEF Pages
  <2>4. UpTo(k, checkpoints) /\ k[Here].st # "valid"
    BY <1>1, <2>1, <2>3 DEF UpTo
  <2>5. /\ ValidIn(k) = ValidIn(journal) /\ \A p \in ValidIn(k) : k[p] = journal[p]
        /\ UniqueIn(k) /\ SavedIn(k) = SavedIn(journal)
        /\ ValidIn(k) # {} => NewestIn(k) = NewestIn(journal)
        /\ Cardinality(UsedIn(k, active)) <= Cardinality(UsedIn(journal, active)) + 1
    BY <1>4, <2>3, <2>4, BodyProgrammed
  <2> QED
    BY <1>1, <1>4, <2>3, <2>4, <2>5 DEF Behind
<1>5. CASE pc = "commit" /\ k # journal
  <2>1. k = Journal!WithCommit /\ ready
    BY <1>5 DEF Journal!CutShort, OrderInv
  <2>2. /\ k \in Pages /\ UpTo(k, checkpoints)
        /\ ValidIn(k) = ValidIn(journal) \cup {Here} /\ k[Here].gen = generation
        /\ \A p \in ValidIn(journal) : k[p] = journal[p]
        /\ UniqueIn(k) /\ NewestIn(k) = Here /\ SavedIn(k) = dropped
    BY <1>5, <2>1, Committed
  <2>3. NewestIn(k)[1] = active
    BY <2>2 DEF Here
  <2>4. \A p \in ValidIn(k) : k[p].gen <= generation
    BY <1>1, <2>1, <2>2
  <2>5. ~(pc \in {"erase", "body"})
    BY <1>5
  <2> QED
    BY <2>1, <2>2, <2>3, <2>4, <2>5
<1>6. pc = "erase" \/ pc = "body" \/ pc = "commit" \/ k = journal
  BY DEF Journal!CutShort, JournalType
<1> QED
  BY <1>2, <1>3, <1>4, <1>5, <1>6

\* What the counter that is kept does in a step of the journal.
KeepsStep ==
    \/ /\ ~ready /\ ready' = TRUE
       /\ dropped' = SavedIn(journal) /\ SavedIn(journal') = SavedIn(journal)
    \/ /\ ready /\ ready' = ready /\ dropped' > dropped /\ SavedIn(journal') = SavedIn(journal)
    \/ /\ ready /\ ready' = ready /\ dropped' = dropped /\ SavedIn(journal') = dropped
    \/ /\ ready' = FALSE /\ dropped' = 0
       /\ SavedIn(journal') = SavedIn(journal) \/ (ready /\ SavedIn(journal') = dropped)
    \/ /\ ready' = ready /\ dropped' = dropped /\ SavedIn(journal') = SavedIn(journal)

LEMMA BootKept == ASSUME JournalInv, Journal!StorageInit PROVE JournalInv' /\ KeepsStep
<1> USE DEF JournalInv
<1>1. /\ ~ready /\ ready' = TRUE /\ UNCHANGED <<journal, pc, slot, checkpoints, crashes, timeouts>>
      /\ IF ValidIn(journal) = {} THEN UNCHANGED <<generation, dropped, active>>
         ELSE /\ generation' = journal[NewestIn(journal)].gen
              /\ dropped' = journal[NewestIn(journal)].dropped
              /\ active' = NewestIn(journal)[1]
  BY JournalNames DEF Journal!StorageInit, Journal!bounds
<1>2. CASE ValidIn(journal) = {}
  <2>1. JournalType' /\ OrderInv' /\ SlotInv' /\ UsedInv'
    BY <1>1, <1>2 DEF JournalType, OrderInv, SlotInv, UsedInv, Behind
  <2>2. KeepsStep
    BY <1>1, <1>2 DEF KeepsStep, SavedIn, OrderInv
  <2> QED
    BY <2>1, <2>2
<1>3. CASE ValidIn(journal) # {}
  <2>1. /\ NewestIn(journal) \in ValidIn(journal)
        /\ \A q \in ValidIn(journal) : journal[q].gen <= journal[NewestIn(journal)].gen
    BY <1>3, NewestFound DEF JournalType
  <2>2. NewestIn(journal) \in Journal!Places /\ journal[NewestIn(journal)] \in Page
    BY <2>1 DEF ValidIn, JournalType, Pages
  <2>3. /\ active' \in {0, 1} /\ generation' \in Nat /\ dropped' \in Nat
        /\ generation' <= checkpoints
    BY <1>1, <1>3, <2>2, JournalConstants DEF Page, JournalType, UpTo
  <2>4. JournalType'
    BY <1>1, <2>3 DEF JournalType
  <2>5. OrderInv' /\ SlotInv' /\ UsedInv'
    BY <1>1, <1>3, <2>1 DEF OrderInv, SlotInv, UsedInv, Behind
  <2>6. KeepsStep
    BY <1>1, <1>3 DEF KeepsStep, SavedIn
  <2> QED
    BY <2>4, <2>5, <2>6
<1> QED
  BY <1>2, <1>3

LEMMA StartKept ==
    ASSUME JournalInv, Journal!Drop \/ Journal!StartCheckpoint PROVE JournalInv' /\ KeepsStep
<1> USE DEF JournalInv
<1>1. CASE Journal!Drop
  <2>1. /\ ready /\ pc = "idle" /\ dropped' = dropped + 1
        /\ UNCHANGED <<journal, ready, generation, active, pc, slot, checkpoints, crashes, timeouts>>
    BY <1>1 DEF Journal!Drop, Journal!bounds
  <2>2. JournalType' /\ KeepsStep
    BY <2>1 DEF JournalType, KeepsStep
  <2>3. OrderInv' /\ SlotInv' /\ UsedInv'
    BY <2>1 DEF OrderInv, SlotInv, UsedInv, Behind
  <2> QED
    BY <2>2, <2>3
<1>2. CASE Journal!StartCheckpoint
  <2>1. /\ ready /\ pc = "idle" /\ checkpoints' = checkpoints + 1 /\ generation' = generation + 1
        /\ UNCHANGED <<journal, ready, dropped, active, crashes, timeouts>>
        /\ \/ Journal!FreeIn(active) = {} /\ slot' = 0 /\ pc' = "erase"
           \/ /\ Journal!FreeIn(active) # {} /\ pc' = "body"
              /\ slot' = CHOOSE e \in Journal!FreeIn(active) : \A o \in Journal!FreeIn(active) : e <= o
    BY <1>2 DEF Journal!StartCheckpoint
  <2>2. Journal!FreeIn(active) # {} => slot' \in Journal!FreeIn(active)
    <3>1. Journal!FreeIn(active) \in SUBSET Nat
      BY JournalConstants DEF Journal!FreeIn
    <3>2. Journal!FreeIn(active) # {}
            => \E e \in Journal!FreeIn(active) : \A o \in Journal!FreeIn(active) : e <= o
      BY <3>1, SmallestOf
    <3> QED
      BY <2>1, <3>2
  <2>3. slot' \in Journal!Entries
    BY <2>1, <2>2, JournalConstants DEF Journal!FreeIn
  <2>4. JournalType'
    <3>1. generation' \in Nat /\ checkpoints' \in Nat /\ generation' <= checkpoints'
      BY <2>1 DEF JournalType
    <3>2. UpTo(journal, checkpoints')
      <4> SUFFICES ASSUME NEW p \in Journal!Places PROVE journal[p].gen <= checkpoints'
        BY DEF UpTo
      <4>1. journal[p].gen \in Nat /\ journal[p].gen <= checkpoints
        BY DEF JournalType, UpTo, Pages, Page
      <4> QED
        BY <2>1, <4>1 DEF JournalType
    <3> QED
      BY <2>1, <2>3, <3>1, <3>2 DEF JournalType
  <2>5. OrderInv'
    <3>1. \A p \in ValidIn(journal) : journal[p].gen \in Nat /\ journal[p].gen <= generation
      BY <2>1 DEF OrderInv, JournalType, Pages, Page, ValidIn
    <3>2. \A p \in ValidIn(journal) : journal[p].gen <= generation' /\ journal[p].gen < generation'
      BY <2>1, <3>1 DEF JournalType
    <3> QED
      BY <2>1, <3>2 DEF OrderInv
  <2>6. SlotInv'
    <3>1. CASE pc' = "erase"
      BY <2>1, <3>1 DEF SlotInv, Journal!FreeIn
    <3>2. CASE pc' = "body"
      <4>1. journal[<<active, slot'>>].st = "free" /\ <<active, slot'>> \in Journal!Places
        BY <2>1, <2>2, <3>2, JournalConstants DEF Journal!FreeIn, JournalType
      <4>2. journal[<<active, slot'>>] = Journal!Free
        BY <4>1 DEF JournalType, Pages
      <4> QED
        BY <2>1, <3>2, <4>2 DEF SlotInv, Here
    <3> QED
      BY <2>1, <3>1, <3>2
  <2>7. UsedInv' /\ KeepsStep
    BY <2>1 DEF UsedInv, Behind, KeepsStep
  <2> QED
    BY <2>4, <2>5, <2>6, <2>7
<1> QED
  BY <1>1, <1>2

LEMMA EraseKept ==
    ASSUME JournalInv, Journal!EraseOther
    PROVE  JournalInv' /\ (timeouts < EntryCount => KeepsStep)
<1> USE DEF JournalInv
<1>1. /\ pc = "erase" /\ pc' = "body" /\ active' = Journal!Other(active)
      /\ journal' = [p \in Journal!Places |-> IF p[1] = Journal!Other(active) THEN Journal!Free
                                              ELSE journal[p]]
      /\ UNCHANGED <<ready, generation, dropped, slot, checkpoints, crashes, timeouts>>
  BY DEF Journal!EraseOther, Journal!bounds
<1>2. journal' \in Journal!CutShort
  <2> DEFINE all == [e \in Journal!Entries |-> "free"]
             k == [p \in Journal!Places |-> IF p[1] = Journal!Other(active)
                     THEN Journal!LeftOf(journal[p], all[p[2]]) ELSE journal[p]]
  <2>1. all \in [Journal!Entries -> {"kept", "free", "garbage"}]
    OBVIOUS
  <2>2. \A p \in Journal!Places : Journal!LeftOf(journal[p], all[p[2]]) = Journal!Free
    BY JournalConstants DEF Journal!LeftOf
  <2>3. journal' = k
    BY <1>1, <2>2
  <2> HIDE DEF all
  <2>4. k \in {[p \in Journal!Places |-> IF p[1] = Journal!Other(active)
                  THEN Journal!LeftOf(journal[p], left[p[2]]) ELSE journal[p]] :
                   left \in [Journal!Entries -> {"kept", "free", "garbage"}]}
    BY <2>1, Zenon
  <2> QED
    BY <1>1, <2>3, <2>4, Zenon DEF Journal!CutShort
<1>3. /\ journal' \in Pages /\ UpTo(journal', checkpoints) /\ UniqueIn(journal')
      /\ \A p \in ValidIn(journal') : journal'[p].gen < generation
      /\ ready => \A p \in ValidIn(journal') : journal'[p].gen <= generation
  BY <1>1, <1>2, CutShortKeeps
<1>4. active' \in {0, 1} /\ \A e \in Journal!Entries : journal'[<<active', e>>] = Journal!Free
  <2>1. active' \in {0, 1}
    BY <1>1 DEF Journal!Other, JournalType
  <2>2. \A e \in Journal!Entries : <<active', e>> \in Journal!Places /\ <<active', e>>[1] = active'
    BY <2>1, JournalConstants
  <2> QED
    BY <1>1, <2>1, <2>2
<1>5. JournalType'
  BY <1>1, <1>3, <1>4 DEF JournalType
<1>6. OrderInv'
  BY <1>1, <1>3 DEF OrderInv
<1>7. SlotInv'
  BY <1>1, <1>4 DEF SlotInv, Here, JournalType
<1>8. UsedInv'
  <2>1. UsedIn(journal', active') = {}
    BY <1>4 DEF UsedIn, Journal!Free
  <2>2. Cardinality(UsedIn(journal', active')) = 0
    BY <2>1, FS_EmptySet
  <2> QED
    BY <1>1, <2>2 DEF UsedInv, JournalType
<1>9. timeouts < EntryCount => KeepsStep
  <2>1. \/ SavedIn(journal') = SavedIn(journal)
        \/ SavedIn(journal') = dropped
        \/ timeouts >= EntryCount
    BY <1>2, CutShortKeeps
  <2>2. ready
    BY <1>1 DEF OrderInv
  <2> QED
    BY <1>1, <2>1, <2>2, JournalConstants DEF KeepsStep, JournalType
<1> QED
  BY <1>5, <1>6, <1>7, <1>8, <1>9

LEMMA ProgramBodyKept ==
    ASSUME JournalInv, Journal!ProgramBody
    PROVE  JournalInv' /\ (timeouts < EntryCount => KeepsStep)
<1> USE DEF JournalInv
<1>1. /\ pc = "body" /\ pc' = "commit" /\ journal' = Journal!WithBody
      /\ UNCHANGED <<ready, generation, dropped, active, slot, checkpoints, crashes, timeouts>>
  BY DEF Journal!ProgramBody, Journal!queueState, Journal!bounds
<1>2. journal' \in Journal!CutShort
  BY <1>1 DEF Journal!CutShort
<1>3. /\ journal' \in Pages /\ UpTo(journal', checkpoints) /\ UniqueIn(journal')
      /\ \A p \in ValidIn(journal') : journal'[p].gen < generation
      /\ ready => \A p \in ValidIn(journal') : journal'[p].gen <= generation
      /\ ready /\ ValidIn(journal') # {} /\ NewestIn(journal')[1] # active
           => /\ Behind
              /\ Cardinality(UsedIn(journal', active)) <= Cardinality(UsedIn(journal, active)) + 1
  BY <1>1, <1>2, CutShortKeeps
<1>4. journal'[Here] = [st |-> "body", gen |-> generation, dropped |-> dropped]
  <2>1. journal[Here] = Journal!Free /\ Here \in Journal!Places /\ journal \in [Journal!Places -> Page]
    BY <1>1, JournalConstants DEF SlotInv, JournalType, Here, Pages
  <2> QED
    BY <1>1, <2>1 DEF Journal!WithBody, Here
<1>5. JournalType'
  BY <1>1, <1>3 DEF JournalType
<1>6. OrderInv' /\ SlotInv'
  BY <1>1, <1>3, <1>4 DEF OrderInv, SlotInv, Here
<1>7. UsedInv'
  <2>1. Cardinality(UsedIn(journal, active)) \in Nat /\ Cardinality(UsedIn(journal', active)) \in Nat
    BY UsedInIsFinite
  <2> QED
    BY <1>1, <1>3, <2>1 DEF UsedInv, Behind, JournalType
<1>8. timeouts < EntryCount => KeepsStep
  <2>1. \/ SavedIn(journal') = SavedIn(journal)
        \/ SavedIn(journal') = dropped
        \/ timeouts >= EntryCount
    BY <1>2, CutShortKeeps
  <2>2. ready
    BY <1>1 DEF OrderInv
  <2> QED
    BY <1>1, <2>1, <2>2, JournalConstants DEF KeepsStep, JournalType
<1> QED
  BY <1>5, <1>6, <1>7, <1>8

LEMMA ProgramCommitKept ==
    ASSUME JournalInv, Journal!ProgramCommit PROVE JournalInv' /\ KeepsStep
<1> USE DEF JournalInv
<1>1. /\ pc = "commit" /\ pc' = "idle" /\ journal' = Journal!WithCommit
      /\ UNCHANGED <<ready, generation, dropped, active, slot, checkpoints, crashes, timeouts>>
  BY DEF Journal!ProgramCommit, Journal!queueState, Journal!bounds
<1>2. journal' \in Journal!CutShort /\ ready
  BY <1>1 DEF Journal!CutShort, OrderInv
<1>3. /\ journal' \in Pages /\ UpTo(journal', checkpoints) /\ UniqueIn(journal')
      /\ ready => \A p \in ValidIn(journal') : journal'[p].gen <= generation
  BY <1>2, CutShortKeeps
<1>4. NewestIn(journal') = Here /\ SavedIn(journal') = dropped
  BY <1>1, Committed
<1>5. JournalType'
  BY <1>1, <1>3 DEF JournalType
<1>6. OrderInv' /\ SlotInv' /\ UsedInv'
  BY <1>1, <1>2, <1>3, <1>4 DEF OrderInv, SlotInv, UsedInv, Behind, Here
<1> QED
  BY <1>1, <1>2, <1>4, <1>5, <1>6 DEF KeepsStep

LEMMA CutShortKept ==
    ASSUME JournalInv, Journal!PowerLoss \/ Journal!TimesOut
    PROVE  JournalInv' /\ (timeouts < EntryCount => KeepsStep)
<1> USE DEF JournalInv
<1>1. /\ journal' \in Journal!CutShort /\ checkpoints' = checkpoints /\ pc' = "idle"
      /\ \/ /\ ready' = FALSE /\ generation' = 0 /\ dropped' = 0 /\ active' = 0 /\ slot' = 0
            /\ timeouts' = timeouts
         \/ /\ pc # "idle" /\ timeouts < MaxTimeouts /\ timeouts' = timeouts + 1
            /\ UNCHANGED <<ready, generation, dropped, active, slot>>
  BY DEF Journal!PowerLoss, Journal!TimesOut, Journal!queueState
<1>2. /\ journal' \in Pages /\ UpTo(journal', checkpoints) /\ UniqueIn(journal')
      /\ ready => \A p \in ValidIn(journal') : journal'[p].gen <= generation
      /\ \/ SavedIn(journal') = SavedIn(journal)
         \/ ready /\ SavedIn(journal') = dropped
         \/ timeouts >= EntryCount
      /\ ready /\ ValidIn(journal') # {} /\ NewestIn(journal')[1] # active
           => /\ Behind
              /\ Cardinality(UsedIn(journal', active))
                   <= Cardinality(UsedIn(journal, active)) + (IF pc = "body" THEN 1 ELSE 0)
  BY <1>1, CutShortKeeps
<1>3. JournalType'
  <2>1. /\ ready' \in BOOLEAN /\ generation' \in Nat /\ dropped' \in Nat /\ active' \in {0, 1}
        /\ slot' \in Journal!Entries /\ generation' <= checkpoints
    <3>1. CASE ready' = FALSE /\ generation' = 0 /\ dropped' = 0 /\ active' = 0 /\ slot' = 0
      <4>1. generation' \in Nat /\ dropped' \in Nat /\ active' \in {0, 1}
            /\ slot' \in Journal!Entries /\ generation' <= checkpoints
        BY <3>1, JournalConstants DEF JournalType
      <4>2. ready' \in BOOLEAN
        BY <3>1
      <4> QED
        BY <4>1, <4>2
    <3>2. CASE UNCHANGED <<ready, generation, dropped, active, slot>>
      BY <3>2 DEF JournalType
    <3> QED
      BY <1>1, <3>1, <3>2
  <2>2. timeouts' \in Nat /\ timeouts' <= MaxTimeouts
    BY <1>1, JournalConstants DEF JournalType
  <2> QED
    BY <1>1, <1>2, <2>1, <2>2 DEF JournalType
<1>4. OrderInv' /\ SlotInv'
  BY <1>1, <1>2 DEF OrderInv, SlotInv
<1>5. UsedInv'
  <2>1. Cardinality(UsedIn(journal, active)) \in Nat /\ Cardinality(UsedIn(journal', active)) \in Nat
    BY UsedInIsFinite
  <2>2. CASE ready' = FALSE
    BY <2>2 DEF UsedInv, Behind
  <2>3. CASE /\ pc # "idle" /\ timeouts' = timeouts + 1
             /\ UNCHANGED <<ready, generation, dropped, active, slot>>
    <3>1. SUFFICES ASSUME Behind' PROVE Cardinality(UsedIn(journal', active)) <= timeouts + 1
      BY <1>1, <2>3 DEF UsedInv, JournalType
    <3>2. /\ Behind
          /\ Cardinality(UsedIn(journal', active))
                   <= Cardinality(UsedIn(journal, active)) + (IF pc = "body" THEN 1 ELSE 0)
      BY <1>2, <2>3, <3>1 DEF Behind
    <3>3. Cardinality(UsedIn(journal, active)) <= timeouts + (IF pc = "commit" THEN 1 ELSE 0)
      BY <3>2 DEF UsedInv
    <3> QED
      BY <2>1, <3>2, <3>3 DEF JournalType
  <2> QED
    BY <1>1, <2>2, <2>3
<1>6. timeouts < EntryCount => KeepsStep
  BY <1>1, <1>2, JournalConstants DEF KeepsStep, JournalType
<1> QED
  BY <1>3, <1>4, <1>5, <1>6

LEMMA JournalKept ==
    ASSUME JournalInv, Journal!Next
    PROVE  JournalInv' /\ (MaxTimeouts < EntryCount => KeepsStep)
<1>1. MaxTimeouts < EntryCount => timeouts < EntryCount
  BY JournalConstants DEF JournalInv, JournalType
<1> QED
  BY <1>1, BootKept, StartKept, EraseKept, ProgramBodyKept, ProgramCommitKept, CutShortKept
  DEF Journal!Next

LEMMA JournalStarts == ASSUME Journal!Init PROVE JournalInv /\ Journal!Saved = 0
<1>1. /\ journal = [p \in Journal!Places |-> Journal!Free] /\ ready = FALSE /\ generation = 0
      /\ dropped = 0 /\ active = 0 /\ pc = "idle" /\ slot = 0 /\ checkpoints = 0 /\ timeouts = 0
  BY DEF Journal!Init
<1>2. /\ Journal!Free \in Page /\ Journal!Free.st = "free" /\ Journal!Free.gen = 0
  BY DEF Journal!Free, Page
<1>3. journal \in Pages /\ UpTo(journal, 0) /\ ValidIn(journal) = {}
  BY <1>1, <1>2 DEF Pages, UpTo, ValidIn
<1>4. JournalType
  <2>1. generation \in Nat /\ dropped \in Nat /\ active \in {0, 1} /\ slot \in Journal!Entries
        /\ checkpoints \in Nat /\ timeouts \in Nat /\ timeouts <= MaxTimeouts
        /\ generation <= checkpoints
    BY <1>1, JournalConstants
  <2>2. ready \in BOOLEAN /\ pc \in {"idle", "erase", "body", "commit"}
    BY <1>1
  <2> QED
    BY <1>1, <1>3, <2>1, <2>2, Zenon DEF JournalType
<1>5. OrderInv /\ SlotInv /\ UsedInv
  BY <1>1, <1>3 DEF OrderInv, UniqueIn, SlotInv, UsedInv, Behind
<1>6. Journal!Saved = 0
  BY <1>3, JournalNames DEF SavedIn
<1> QED
  BY <1>4, <1>5, <1>6 DEF JournalInv

LEMMA JournalInvHolds ==
    /\ ServicesInit => JournalInv
    /\ JournalInv /\ [ServicesNext]_servicesVars => JournalInv'
<1>1. ServicesInit => JournalInv
  BY JournalStarts DEF ServicesInit
<1>2. ASSUME JournalInv, [ServicesNext]_servicesVars PROVE JournalInv'
  <2>1. CASE Journal!Next
    BY <1>2, <2>1, JournalKept
  <2>2. CASE UNCHANGED journalVars
    BY <1>2, <2>2 DEF journalVars, JournalInv, JournalType, OrderInv, SlotInv, UsedInv, Behind, Here,
       Journal!FreeIn
  <2> QED
    BY <1>2, <2>1, <2>2
    DEF ServicesNext, MeteringStep, JournalStep, PowerStep, TimeStep, ReportsStep, CertsStep,
        servicesVars
<1> QED
  BY <1>1, <1>2

\* No two entries share a generation, and the newest is never in a sector that is erased,
\* unless a sector has filled with commands that timed out: for every size of a sector
\* (storage.cpp findHeader, checkpointLocked).
THEOREM JournalSafe == ServicesSpec => [](Journal!GenerationsAreUnique /\ Journal!NewestIsSafe)
<1>1. JournalInv => Journal!GenerationsAreUnique /\ Journal!NewestIsSafe
  <2> SUFFICES ASSUME JournalInv PROVE Journal!GenerationsAreUnique /\ Journal!NewestIsSafe
    OBVIOUS
  <2>1. Journal!GenerationsAreUnique
    BY JournalNames DEF JournalInv, OrderInv, UniqueIn, Journal!GenerationsAreUnique
  <2>2. Journal!NewestIsSafe
    BY JournalNames, ErasingBehind DEF Journal!NewestIsSafe, Behind, JournalInv, OrderInv
  <2> QED
    BY <2>1, <2>2
<1> QED
  BY <1>1, JournalInvHolds, PTL DEF ServicesSpec

LEMMA SavedNext == Journal!Saved' = SavedIn(journal')
  BY DEF Journal!Saved, SavedIn, Journal!ValidEntries, ValidIn, Journal!NewestEntry, NewestIn

\* A checkpoint is atomic: whatever is cut short, a boot restores the drop counter of the
\* last checkpoint, complete or not at all.  As many commands as a sector has entries would
\* have to time out for it to be otherwise.
THEOREM CounterKept ==
    ASSUME MaxTimeouts < EntryCount
    PROVE  ServicesSpec => KeepsCounter
<1>1. ServicesInit => Journal!Counter!Init
  BY JournalStarts DEF ServicesInit, Journal!Init, Journal!Counter!Init
<1>2. JournalInv /\ [ServicesNext]_servicesVars => [Journal!Counter!Next]_(Journal!Counter!vars)
  <2> SUFFICES ASSUME JournalInv, [ServicesNext]_servicesVars
               PROVE  [Journal!Counter!Next]_(Journal!Counter!vars)
    OBVIOUS
  <2>1. CASE Journal!Next
    <3>1. KeepsStep
      BY <2>1, JournalKept
    <3>2. Journal!Saved = SavedIn(journal) /\ Journal!Saved' = SavedIn(journal')
      BY JournalNames, SavedNext
    <3> QED
      BY <3>1, <3>2
      DEF KeepsStep, Journal!Counter!Next, Journal!Counter!Boot, Journal!Counter!Drop,
          Journal!Counter!Save, Journal!Counter!PowerLoss, Journal!Counter!vars
  <2>2. CASE UNCHANGED journalVars
    <3>1. UNCHANGED <<journal, dropped, ready>>
      BY <2>2 DEF journalVars
    <3>2. Journal!Saved' = Journal!Saved
      BY <3>1, JournalNames, SavedNext
    <3> QED
      BY <3>1, <3>2 DEF Journal!Counter!vars
  <2> QED
    BY <2>1, <2>2
    DEF ServicesNext, MeteringStep, JournalStep, PowerStep, TimeStep, ReportsStep, CertsStep,
        servicesVars
<1> QED
  BY <1>1, <1>2, JournalInvHolds, JournalSafe, PTL
  DEF ServicesSpec, KeepsCounter, Journal!KeepsCounter, Journal!Counter!Spec

-----------------------------------------------------------------------------
(* The calendar of the time service: the day number of parseIso8601 is     *)
(* right for every day from 1970 on, the epoch of the code.  The formula   *)
(* and the calendar agree on a step of each kind: to the next day of a     *)
(* month, to the next month, to the next year.                             *)

\* The months in the code's year: what the 153 stands for.
LEMMA MonthStarts ==
    /\ (153 * 0 + 2) \div 5 = 0      /\ (153 * 1 + 2) \div 5 = 31
    /\ (153 * 2 + 2) \div 5 = 61     /\ (153 * 3 + 2) \div 5 = 92
    /\ (153 * 4 + 2) \div 5 = 122    /\ (153 * 5 + 2) \div 5 = 153
    /\ (153 * 6 + 2) \div 5 = 184    /\ (153 * 7 + 2) \div 5 = 214
    /\ (153 * 8 + 2) \div 5 = 245    /\ (153 * 9 + 2) \div 5 = 275
    /\ (153 * 10 + 2) \div 5 = 306   /\ (153 * 11 + 2) \div 5 = 337
  OBVIOUS

\* The number of days before the first of March of year y, but for
\* the constant that puts day 0 in 1970.
DaysBeforeYear(y) == 146097 * Era(y) + 365 * YearOfEra(y)
                     + (YearOfEra(y) \div 4) - (YearOfEra(y) \div 100)

\* It grows by the length of the March year: leap when its February is.
LEMMA YearGrows ==
    ASSUME NEW y \in Nat
    PROVE  DaysBeforeYear(y + 1)
             = DaysBeforeYear(y) + (IF LeapYear(y + 1) THEN 366 ELSE 365)
<1> DEFINE e == y \div 400
           r == y - 400 * e
<1>1. e \in Nat /\ r \in 0..399 /\ y = 400 * e + r
  OBVIOUS
<1>2. LeapYear(y + 1) <=> ((r + 1) % 4 = 0 /\ ((r + 1) % 100 # 0 \/ r = 399))
  BY <1>1 DEF LeapYear
<1>3. CASE r = 399
  BY <1>1, <1>2, <1>3 DEF DaysBeforeYear, Era, YearOfEra
<1>4. CASE r # 399
  <2>1. (y + 1) \div 400 = e
    BY <1>1, <1>4
  <2>2. (r + 1) \div 4 = r \div 4 + (IF (r + 1) % 4 = 0 THEN 1 ELSE 0)
    BY <1>1
  <2>3. (r + 1) \div 100 = r \div 100 + (IF (r + 1) % 100 = 0 THEN 1 ELSE 0)
    BY <1>1
  <2>4. (r + 1) % 100 = 0 => (r + 1) % 4 = 0
    BY <1>1
  <2> QED
    BY <1>1, <1>2, <1>4, <2>1, <2>2, <2>3, <2>4 DEF DaysBeforeYear, Era, YearOfEra
<1> QED
  BY <1>1, <1>3, <1>4

-----------------------------------------------------------------------------

LEMMA WalkStaysInCalendar == Walk => []IsADay
<1>1. FirstDay => IsADay
  BY DEF FirstDay, IsADay, LengthOfMonth
<1>2. IsADay /\ [DayByDay]_date => IsADay'
  <2> SUFFICES ASSUME IsADay, [DayByDay]_date PROVE IsADay'
    OBVIOUS
  <2> USE DEF IsADay, LengthOfMonth, LeapYear
  <2>1. CASE NextDay
    BY <2>1 DEF NextDay
  <2>2. CASE NextMonth
    BY <2>2 DEF NextMonth
  <2>3. CASE NewYear
    BY <2>3 DEF NewYear
  <2>4. CASE UNCHANGED date
    BY <2>4 DEF date
  <2> QED
    BY <2>1, <2>2, <2>3, <2>4 DEF DayByDay
<1> QED
  BY <1>1, <1>2, PTL DEF Walk

LEMMA InParts ==
    ASSUME NEW y \in Nat, NEW m \in 1..12, NEW d \in Nat
    PROVE  DaysSinceEpoch(y, m, d)
             = DaysBeforeYear(YearFromMarch(y, m)) + DayOfYear(m, d) - 719468
  BY DEF DaysSinceEpoch, DayOfEra, DaysBeforeYear, Era, YearOfEra, YearFromMarch, DayOfYear,
         MonthFromMarch

LEMMA FirstDayIsRight == FirstDay => DaysAreRight
  BY DEF FirstDay, DaysAreRight, DaysSinceEpoch, DayOfEra, Era, YearOfEra, YearFromMarch,
         DayOfYear, MonthFromMarch

\* A day further in the month, the first of the next month, of the next year.
LEMMA StepIsRight == IsADay /\ DaysAreRight /\ [DayByDay]_date => DaysAreRight'
<1> SUFFICES ASSUME IsADay, DaysAreRight, [DayByDay]_date PROVE DaysAreRight'
  OBVIOUS
<1>1. year \in Nat /\ year >= 1970 /\ month \in 1..12 /\ day \in Nat /\ number \in Int
  BY DEF IsADay, LengthOfMonth
<1>2. number = DaysBeforeYear(YearFromMarch(year, month)) + DayOfYear(month, day) - 719468
  BY <1>1, InParts DEF DaysAreRight
<1>3. DaysBeforeYear(YearFromMarch(year, month)) \in Int
  BY <1>1 DEF DaysBeforeYear, Era, YearOfEra, YearFromMarch
<1>4. CASE NextDay
  <2>1. DayOfYear(month, day + 1) = DayOfYear(month, day) + 1
    BY <1>1 DEF DayOfYear, MonthFromMarch
  <2>2. year' = year /\ month' = month /\ day' = day + 1 /\ number' = number + 1
    BY <1>4 DEF NextDay
  <2>3. DaysSinceEpoch(year, month, day + 1)
          = DaysBeforeYear(YearFromMarch(year, month)) + DayOfYear(month, day + 1) - 719468
    BY <1>1, InParts
  <2> QED
    BY <1>1, <1>2, <1>3, <2>1, <2>2, <2>3 DEF DaysAreRight, DayOfYear, MonthFromMarch
<1>5. CASE NextMonth
  <2>1. year' = year /\ month' = month + 1 /\ day' = 1 /\ number' = number + 1
        /\ day = LengthOfMonth(year, month) /\ month \in 1..11
    BY <1>1, <1>5 DEF NextMonth
  <2>2. DaysSinceEpoch(year, month + 1, 1)
          = DaysBeforeYear(YearFromMarch(year, month + 1)) + DayOfYear(month + 1, 1) - 719468
    BY <1>1, <2>1, InParts
  <2>3. CASE month # 2
    <3>1. YearFromMarch(year, month + 1) = YearFromMarch(year, month)
      BY <2>1, <2>3 DEF YearFromMarch
    <3>2. DayOfYear(month + 1, 1) = DayOfYear(month, day) + 1
      BY <1>1, <2>1, <2>3, MonthStarts DEF DayOfYear, MonthFromMarch, LengthOfMonth
    <3> QED
      BY <1>1, <1>2, <1>3, <2>1, <2>2, <3>1, <3>2 DEF DaysAreRight, DayOfYear, MonthFromMarch
  <2>4. CASE month = 2
    <3>1. YearFromMarch(year, month) = year - 1 /\ YearFromMarch(year, month + 1) = year
      BY <2>4 DEF YearFromMarch
    <3>2. DayOfYear(2, day) = 336 + day /\ DayOfYear(3, 1) = 0
      BY <1>1, MonthStarts DEF DayOfYear, MonthFromMarch
    <3>3. day = IF LeapYear(year) THEN 29 ELSE 28
      BY <2>1, <2>4 DEF LengthOfMonth
    <3>4. DaysBeforeYear(year)
            = DaysBeforeYear(year - 1) + (IF LeapYear(year) THEN 366 ELSE 365)
      <4>1. year - 1 \in Nat /\ (year - 1) + 1 = year
        BY <1>1
      <4> QED
        BY <4>1, YearGrows
    <3> QED
      BY <1>1, <1>2, <1>3, <2>1, <2>2, <2>4, <3>1, <3>2, <3>3, <3>4 DEF DaysAreRight
  <2> QED
    BY <2>3, <2>4
<1>6. CASE NewYear
  <2>1. year' = year + 1 /\ month = 12 /\ day = 31 /\ month' = 1 /\ day' = 1
        /\ number' = number + 1
    BY <1>1, <1>6 DEF NewYear, LengthOfMonth
  <2>2. YearFromMarch(year, 12) = year /\ YearFromMarch(year + 1, 1) = year
    BY <1>1 DEF YearFromMarch
  <2>3. DayOfYear(12, 31) = 305 /\ DayOfYear(1, 1) = 306
    BY MonthStarts DEF DayOfYear, MonthFromMarch
  <2>4. DaysSinceEpoch(year + 1, 1, 1)
          = DaysBeforeYear(YearFromMarch(year + 1, 1)) + DayOfYear(1, 1) - 719468
    BY <1>1, InParts
  <2> QED
    BY <1>1, <1>2, <1>3, <2>1, <2>2, <2>3, <2>4 DEF DaysAreRight
<1>7. CASE UNCHANGED date
  BY <1>7 DEF date, DaysAreRight
<1> QED
  BY <1>4, <1>5, <1>6, <1>7 DEF DayByDay

\* parseIso8601's day number is the calendar's, from 1970-01-01 on and
\* without a last day (src/time_service.cpp).
THEOREM EveryDayIsRight == Walk => []DaysAreRight
<1>1. IsADay /\ IsADay' /\ DaysAreRight /\ [DayByDay]_date => DaysAreRight'
  BY StepIsRight
<1> QED
  BY <1>1, FirstDayIsRight, WalkStaysInCalendar, PTL DEF Walk
=============================================================================
