------------------------------ MODULE Metering -------------------------------
(***************************************************************************)
(* The reading of the PZEM units: pzem_read (src/pzem.cpp), which looks    *)
(* once per boot whether a unit's wires are crossed, and updatePzemHealth  *)
(* (src/main.cpp), which tells a fault or a recovery after three readings  *)
(* in a row.  A pass of meteringTask reads the channels one after the      *)
(* other over the same UART, then looks at the results.                    *)
(***************************************************************************)
EXTENDS Integers

CONSTANTS
    PhaseCount,      \* PHASE_COUNT, 3
    PhaseFaultCount  \* PHASE_FAULT_COUNT, 3

ASSUME CountAssumption == PhaseCount \in Nat \ {0} /\ PhaseFaultCount \in Nat \ {0}

Channels == 1..PhaseCount

VARIABLES
    wiring,      \* wiring[c]: whether the wires of c's unit are "straight" or "crossed"
    swapProbed, swapped,   \* as in pzem.cpp
    next,        \* the channel to be read next; after the last one the health is updated
    valid,       \* valid[c]: whether the reading of channel c under way is good
    failureCount, successCount, faulted,   \* as in main.cpp
    streak,      \* history: of which kind the last readings of c were, and how many in a row
    settled,     \* history: the kind of the last PhaseFaultCount in a row, good at first
    heard,       \* history: whether c's unit answered all the queries of its last reading
    missed       \* history: whether c's unit was silent when the wires were probed

wires  == <<wiring, swapProbed, swapped, missed>>
health == <<failureCount, successCount, faulted, streak, settled>>
vars   == <<wires, health, next, valid, heard>>

Each(v) == [c \in Channels |-> v]

\* RAM after a boot.
Boot ==
    /\ swapProbed = Each(FALSE) /\ swapped = Each(FALSE)
    /\ next = 1 /\ valid = Each(FALSE)
    /\ failureCount = Each(0) /\ successCount = Each(0) /\ faulted = Each(FALSE)
    /\ streak = Each([valid |-> TRUE, n |-> 0])
    /\ settled = Each(TRUE)
    /\ heard = Each(FALSE) /\ missed = Each(FALSE)

Init == wiring \in [Channels -> {"straight", "crossed"}] /\ Boot

-----------------------------------------------------------------------------
(* pzem_read.  A unit is silent or its answer is spoilt ("no"), it answers *)
(* with a header of another kind ("odd"), or it answers well ("good").     *)

Answers == {"no", "odd", "good"}

\* recv_frame: an answer is heard only on the pins the unit is wired to.
Received(c, answer, crossed) ==
    IF (wiring[c] = "crossed") = crossed THEN answer ELSE "no"

ReadAs_KeepsSwap(c, first, second) ==
    LET plain == Received(c, first, swapped[c])
        other == Received(c, second, TRUE)
        probe == plain = "no" /\ ~swapProbed[c]
        got   == IF probe THEN other ELSE plain
    IN  /\ next = c /\ next' = c + 1
        /\ swapProbed' = [swapProbed EXCEPT ![c] = @ \/ probe]
        /\ swapped' = [swapped EXCEPT ![c] = @ \/ probe]
        /\ valid' = [valid EXCEPT ![c] = got = "good"]
        /\ heard' = [heard EXCEPT ![c] = first = "good" /\ second = "good"]
        /\ missed' = [missed EXCEPT ![c] = @ \/ (probe /\ second = "no")]
        /\ UNCHANGED <<wiring, health>>

\* The unit's answers are given to the query and, if nothing comes and for the
\* first time only, to a second one with the pins the other way round.  They
\* are kept so if anything comes then.
ReadAs(c, first, second) ==
    LET plain == Received(c, first, swapped[c])
        other == Received(c, second, TRUE)
        probe == plain = "no" /\ ~swapProbed[c]
        got   == IF probe THEN other ELSE plain
    IN  /\ next = c /\ next' = c + 1
        /\ swapProbed' = [swapProbed EXCEPT ![c] = @ \/ probe]
        /\ swapped' = [swapped EXCEPT ![c] = IF probe THEN other # "no" ELSE @]
        /\ valid' = [valid EXCEPT ![c] = got = "good"]
        /\ heard' = [heard EXCEPT ![c] = first = "good" /\ second = "good"]
        /\ missed' = [missed EXCEPT ![c] = @ \/ (probe /\ second = "no")]
        /\ UNCHANGED <<wiring, health>>

Read(c) == \E first, second \in Answers : ReadAs(c, first, second)

-----------------------------------------------------------------------------
(* updatePzemHealth: all channels in one go, then the pass is over.        *)

\* Counted only while there is no fault, and from 0 again once there is one.
NextFailures(c) ==
    IF valid[c] THEN 0
    ELSE IF faulted[c] THEN failureCount[c] ELSE (failureCount[c] + 1) % PhaseFaultCount

NextSuccesses_NoReset(c) ==
    IF valid[c] /\ faulted[c] THEN (successCount[c] + 1) % PhaseFaultCount ELSE successCount[c]

NextSuccesses(c) ==
    IF ~valid[c] THEN 0
    ELSE IF faulted[c] THEN (successCount[c] + 1) % PhaseFaultCount ELSE successCount[c]

\* EVENT_PZEM_PHASE_FAULT and EVENT_PZEM_PHASE_RECOVERED.
Faults(c)   == ~valid[c] /\ ~faulted[c] /\ failureCount[c] + 1 >= PhaseFaultCount
Recovers(c) == valid[c] /\ faulted[c] /\ successCount[c] + 1 >= PhaseFaultCount

Capped(n) == IF n > PhaseFaultCount THEN PhaseFaultCount ELSE n

UpdatePzemHealth ==
    /\ next \notin Channels /\ next' = 1
    /\ failureCount' = [c \in Channels |-> NextFailures(c)]
    /\ successCount' = [c \in Channels |-> NextSuccesses(c)]
    /\ faulted' = [c \in Channels |-> Faults(c) \/ (faulted[c] /\ ~Recovers(c))]
    /\ streak' = [c \in Channels |->
                    [valid |-> valid[c],
                     n |-> IF streak[c].valid <=> valid[c] THEN Capped(streak[c].n + 1) ELSE 1]]
    /\ settled' = [c \in Channels |-> IF streak'[c].n = PhaseFaultCount THEN valid[c] ELSE settled[c]]
    /\ UNCHANGED <<wires, valid, heard>>

\* A reset of the ESP32; somebody may have been at the wires.
Restart ==
    /\ wiring' \in [Channels -> {"straight", "crossed"}]
    /\ swapProbed' = Each(FALSE) /\ swapped' = Each(FALSE)
    /\ next' = 1 /\ valid' = Each(FALSE)
    /\ failureCount' = Each(0) /\ successCount' = Each(0) /\ faulted' = Each(FALSE)
    /\ streak' = Each([valid |-> TRUE, n |-> 0])
    /\ settled' = Each(TRUE)
    /\ heard' = Each(FALSE) /\ missed' = Each(FALSE)

Next == (\E c \in Channels : Read(c)) \/ UpdatePzemHealth \/ Restart

Spec == Init /\ [][Next]_vars

-----------------------------------------------------------------------------

\* The type invariant.
TypeOK ==
    /\ wiring \in [Channels -> {"straight", "crossed"}]
    /\ swapProbed \in [Channels -> BOOLEAN] /\ swapped \in [Channels -> BOOLEAN]
    /\ next \in 1..PhaseCount + 1
    /\ valid \in [Channels -> BOOLEAN] /\ faulted \in [Channels -> BOOLEAN]
    /\ failureCount \in [Channels -> 0..PhaseFaultCount - 1]
    /\ successCount \in [Channels -> 0..PhaseFaultCount - 1]
    /\ streak \in [Channels -> [valid : BOOLEAN, n : 0..PhaseFaultCount]]
    /\ settled \in [Channels -> BOOLEAN]
    /\ heard \in [Channels -> BOOLEAN] /\ missed \in [Channels -> BOOLEAN]

\* A phase is at fault when the last three readings in a row of one kind were
\* bad ones, and at no other time: three in a row change it whatever came
\* before, and nothing less does (updatePzemHealth).
FaultIsLastThree == \A c \in Channels : faulted[c] <=> ~settled[c]

\* A unit that answers is read, whichever way round it is wired and whatever
\* came before, but for a crossed one that was silent when the wires were
\* probed: the probe is not repeated before the next boot.
WhatAnswersIsRead ==
    \A c \in Channels :
        heard[c] => valid[c] \/ (wiring[c] = "crossed" /\ missed[c])
=============================================================================
