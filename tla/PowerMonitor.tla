----------------------------- MODULE PowerMonitor ----------------------------
(***************************************************************************)
(* powerTask of src/main.cpp: it samples the power-fail and the backup-low *)
(* input every 20 ms and debounces both with millis().  The power-fail     *)
(* input also has an interrupt on every edge, whose handler sets a flag    *)
(* that the task tests and clears without a lock.                          *)
(*                                                                         *)
(* A tick is one sleep of the task.  No tick passes within a pass but      *)
(* where the task waits for the flash: it has the highest priority of its  *)
(* core, so that only interrupts come in between.                          *)
(***************************************************************************)
EXTENDS Integers

CONSTANTS
    FailDebounce,      \* POWER_FAIL_DEBOUNCE_MS
    RestoreDebounce,   \* POWER_RESTORE_DEBOUNCE_MS
    MaxBusy,           \* bound: ticks that emitEvent and storage_flush take
    Wrap               \* where millis() wraps

\* The longest time between two samples.
LongestPass == 2 * MaxBusy + 1

Larger(a, b) == IF a >= b THEN a ELSE b
SlowDebounce == Larger(FailDebounce, RestoreDebounce)

\* What the constants must be.
TimeAssumption ==
    /\ FailDebounce \in Nat \ {0} /\ RestoreDebounce \in Nat \ {0}
    /\ MaxBusy \in Nat /\ Wrap \in Nat
    /\ Wrap > SlowDebounce + LongestPass

Inputs == {"mains", "backup"}

VARIABLES
    pin,         \* pin[i]: whether input i is high, which tells a failure
    powerFailInterrupt,
    raw,         \* raw[i]: rawMainsState and rawBackupState
    changedAt,   \* changedAt[i]: mainsChangedAt and backupChangedAt
    failed,      \* failed[i]: mainsLost and backupLow
    sample,      \* the pins and the time the pass under way has read
    pc,          \* where the pass is
    millis,
    busy,        \* ticks the task has been waiting for the flash
    quiet,       \* history: quiet[i]: ticks since the last edge of input i or the boot
    told,        \* history: whether the last report on mains said lost
    restarted    \* history: a restart since the last report on mains

inputs == <<pin, powerFailInterrupt, quiet>>
task   == <<raw, changedAt, failed, sample, pc, busy, told, restarted>>
vars   == <<inputs, task, millis>>

\* Ages beyond what InTime tells apart are one.
OldEnough == SlowDebounce + 2 * LongestPass + 1
Aged(n) == IF n = OldEnough THEN n ELSE n + 1

NoSample == [mains |-> FALSE, backup |-> FALSE, now |-> 0, quiet |-> 0]

Init ==
    /\ pin = [i \in Inputs |-> FALSE] /\ powerFailInterrupt = FALSE
    /\ raw = [i \in Inputs |-> FALSE]
    /\ millis = 0 /\ changedAt = [i \in Inputs |-> 0]
    /\ failed = [i \in Inputs |-> FALSE]
    /\ sample = NoSample /\ pc = "top" /\ busy = 0
    /\ quiet = [i \in Inputs |-> 0]
    /\ told = FALSE /\ restarted = FALSE

-----------------------------------------------------------------------------
(* The inputs, at any point of a pass.                                     *)

\* powerFailIsr runs on every edge of the power-fail input.
MainsEdge ==
    /\ pin' = [pin EXCEPT !["mains"] = ~@]
    /\ powerFailInterrupt' = TRUE
    /\ quiet' = [quiet EXCEPT !["mains"] = 0]
    /\ UNCHANGED <<task, millis>>

BackupEdge ==
    /\ pin' = [pin EXCEPT !["backup"] = ~@]
    /\ quiet' = [quiet EXCEPT !["backup"] = 0]
    /\ UNCHANGED <<powerFailInterrupt, task, millis>>

-----------------------------------------------------------------------------
(* A pass of powerTask.                                                    *)

Sample ==
    /\ pc = "top" /\ pc' = "note"
    /\ sample' = [mains |-> pin["mains"], backup |-> pin["backup"], now |-> millis,
                  quiet |-> quiet["mains"]]
    /\ UNCHANGED <<inputs, raw, changedAt, failed, busy, told, restarted, millis>>

Note_IgnoresFlag ==
    /\ pc = "note" /\ pc' = "clear"
    /\ IF sample.mains # raw["mains"]
       THEN raw' = [raw EXCEPT !["mains"] = sample.mains]
            /\ changedAt' = [changedAt EXCEPT !["mains"] = sample.now]
       ELSE UNCHANGED <<raw, changedAt>>
    /\ UNCHANGED <<inputs, failed, sample, busy, told, restarted, millis>>

\* The input has changed, or was restless since the last pass.
Note ==
    /\ pc = "note"
    /\ IF sample.mains # raw["mains"] \/ powerFailInterrupt
       THEN /\ raw' = [raw EXCEPT !["mains"] = sample.mains]
            /\ changedAt' = [changedAt EXCEPT !["mains"] = sample.now]
            /\ pc' = "clear"
       ELSE pc' = "noteBackup" /\ UNCHANGED <<raw, changedAt>>
    /\ UNCHANGED <<inputs, failed, sample, busy, told, restarted, millis>>

\* An edge that came since the test is forgotten with the others.
Clear ==
    /\ pc = "clear" /\ pc' = "noteBackup"
    /\ powerFailInterrupt' = FALSE
    /\ UNCHANGED <<pin, quiet, raw, changedAt, failed, sample, busy, told, restarted, millis>>

\* The backup input has no interrupt.
NoteBackup ==
    /\ pc = "noteBackup" /\ pc' = "mains"
    /\ IF sample.backup # raw["backup"]
       THEN raw' = [raw EXCEPT !["backup"] = sample.backup]
            /\ changedAt' = [changedAt EXCEPT !["backup"] = sample.now]
       ELSE UNCHANGED <<raw, changedAt>>
    /\ UNCHANGED <<inputs, failed, sample, busy, told, restarted, millis>>

\* now - changedAt, modulo 2^32 in the code.
Elapsed(i) == (sample.now - changedAt[i]) % Wrap

Fails(i)    == raw[i] /\ ~failed[i] /\ Elapsed(i) >= FailDebounce
Restores(i) == ~raw[i] /\ failed[i] /\ Elapsed(i) >= RestoreDebounce

\* The new state is set, then the event goes out (emitEvent may have to wait
\* for the flash).
DecideMains ==
    /\ pc = "mains"
    /\ IF Fails("mains") \/ Restores("mains")
       THEN failed' = [failed EXCEPT !["mains"] = raw["mains"]] /\ pc' = "emit"
       ELSE failed' = failed /\ pc' = "backup"
    /\ UNCHANGED <<inputs, raw, changedAt, sample, busy, told, restarted, millis>>

\* EVENT_MAINS_LOST or EVENT_MAINS_RESTORED
EmitMains ==
    /\ pc = "emit" /\ pc' = "backup"
    /\ told' = failed["mains"] /\ restarted' = FALSE
    /\ busy' = 0
    /\ UNCHANGED <<inputs, raw, changedAt, failed, sample, millis>>

\* EVENT_BACKUP_LOW and a flush of the queue state; the end is not reported.
DecideBackup ==
    /\ pc = "backup"
    /\ IF Fails("backup")
       THEN failed' = [failed EXCEPT !["backup"] = TRUE] /\ pc' = "flush"
       ELSE IF Restores("backup")
       THEN failed' = [failed EXCEPT !["backup"] = FALSE] /\ pc' = "sleep"
       ELSE failed' = failed /\ pc' = "sleep"
    /\ UNCHANGED <<inputs, raw, changedAt, sample, busy, told, restarted, millis>>

Flush ==
    /\ pc = "flush" /\ pc' = "sleep"
    /\ busy' = 0
    /\ UNCHANGED <<inputs, raw, changedAt, failed, sample, told, restarted, millis>>

-----------------------------------------------------------------------------
(* Time and restarts.                                                      *)

Later(t) == (t + 1) % Wrap

TimePasses == millis' = Later(millis) /\ quiet' = [i \in Inputs |-> Aged(quiet[i])]

\* vTaskDelay, 20 ms; what the pass has read is of no more use.
Sleep ==
    /\ pc = "sleep" /\ pc' = "top"
    /\ TimePasses
    /\ sample' = NoSample
    /\ UNCHANGED <<pin, powerFailInterrupt, raw, changedAt, failed, busy, told, restarted>>

\* The flash, or the task that holds it, takes its time.
WaitForFlash ==
    /\ pc \in {"emit", "flush"} /\ busy < MaxBusy
    /\ busy' = busy + 1
    /\ TimePasses
    /\ UNCHANGED <<pin, powerFailInterrupt, raw, changedAt, failed, sample, pc, told, restarted>>

\* A reset of the device.  The inputs are what they are; everything the task
\* knows is gone.
Restart ==
    /\ powerFailInterrupt' = FALSE
    /\ raw' = [i \in Inputs |-> FALSE] /\ failed' = [i \in Inputs |-> FALSE]
    /\ millis' = 0 /\ changedAt' = [i \in Inputs |-> 0]
    /\ sample' = NoSample /\ pc' = "top" /\ busy' = 0
    /\ quiet' = [i \in Inputs |-> 0]
    /\ restarted' = TRUE
    /\ UNCHANGED <<pin, told>>

Next ==
    \/ MainsEdge \/ BackupEdge
    \/ Sample \/ Note \/ Clear \/ DecideMains \/ EmitMains
    \/ NoteBackup \/ DecideBackup \/ Flush
    \/ Sleep \/ WaitForFlash \/ Restart

Spec == Init /\ [][Next]_vars

-----------------------------------------------------------------------------

\* The type invariant.
TypeOK ==
    /\ pin \in [Inputs -> BOOLEAN] /\ raw \in [Inputs -> BOOLEAN] /\ failed \in [Inputs -> BOOLEAN]
    /\ powerFailInterrupt \in BOOLEAN /\ told \in BOOLEAN /\ restarted \in BOOLEAN
    /\ changedAt \in [Inputs -> 0..Wrap - 1] /\ millis \in 0..Wrap - 1
    /\ sample \in [mains : BOOLEAN, backup : BOOLEAN, now : 0..Wrap - 1, quiet : 0..OldEnough]
    /\ pc \in {"top", "note", "clear", "mains", "emit", "noteBackup", "backup", "flush", "sleep"}
    /\ busy \in 0..MaxBusy
    /\ quiet \in [Inputs -> 0..OldEnough]

\* A change of mains is taken over only when the input has had no edge for
\* the whole debounce time, not even one between two samples; the interrupt
\* flag, tested and cleared without a lock, loses none that matters.
DebouncedStep ==
    pc = "mains" /\ pc' # "top" /\ failed'["mains"] # failed["mains"]
      => /\ sample.mains = failed'["mains"]
         /\ sample.quiet >= (IF sample.mains THEN FailDebounce ELSE RestoreDebounce)

\* An input that stays as it is is taken over in its debounce time and two
\* passes, across the wrap of millis().
InTime ==
    \A i \in Inputs :
        quiet[i] >= (IF pin[i] THEN FailDebounce ELSE RestoreDebounce) + 2 * LongestPass
          => failed[i] = pin[i]

\* What has been told about mains is what the device takes for true, unless
\* it was reset in between: a reset during an outage may leave the backend
\* with EVENT_MAINS_LOST and no EVENT_MAINS_RESTORED for ever.
TheLastReportHolds == pc # "emit" => told = failed["mains"] \/ restarted
=============================================================================
