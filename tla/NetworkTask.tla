---------------------------- MODULE NetworkTask -----------------------------
(***************************************************************************)
(* The connection supervisor of the network task (src/main.cpp,            *)
(* networkTask) in discrete time: attaching and reconnecting with backoff, *)
(* the hold-up on backup power, and the task watchdog.                     *)
(*                                                                         *)
(* Time passes in Tick only, while the task sleeps or is blocked in the    *)
(* modem driver; a pass of the loop takes none.  clock is millis(), which  *)
(* wraps.  What a connected pass publishes is the subject of Replay and    *)
(* Telemetry; here it either keeps the session or loses it.                *)
(***************************************************************************)
EXTENDS Integers

CONSTANTS
    FirstBackoff,      \* 5 s
    BackoffMax,        \* CONNECT_BACKOFF_MAX_MS, 300 s
    MaxJitter,         \* the random part of a backoff, below 1 s
    WatchdogTimeout,   \* TASK_WATCHDOG_TIMEOUT_S, 240 s
    AttemptMax,        \* the longest attempt, from modem reset to subscription
    PublishMax,        \* the longest publish
    ClockSize          \* millis() counts modulo this

ASSUME TimeAssumption ==
    /\ FirstBackoff \in Nat \ {0} /\ BackoffMax \in Nat \ {0} /\ MaxJitter \in Nat
    /\ AttemptMax \in Nat /\ PublishMax \in Nat
    /\ WatchdogTimeout \in Nat /\ WatchdogTimeout > AttemptMax /\ WatchdogTimeout > PublishMax
    /\ ClockSize \in Nat /\ ClockSize > BackoffMax + MaxJitter

VARIABLES
    at,                                    \* where the network task is
    connected,                             \* _connected of the modem driver
    modemInitialised, wasConnected, modemState,
    reconnectBackoff, nextConnectAt, now,  \* locals of networkTask
    tlsDiagDone,                           \* _tlsDiagDone of the modem driver
    onBackup, mainsLost,                   \* the power-fail pin, and the debounced flag
    clock,
    spent,                                 \* time blocked in the modem driver
    unfed,                                 \* time since the task fed its watchdog
    wasReset,                              \* the last reset was the watchdog's
    idle,                                  \* history: time disconnected without an attempt
    reported,                              \* history: this outage was reported "before" the pass, "just" now or "not"
    lastReport                             \* history: the last session event of this boot

locals == <<modemInitialised, wasConnected, modemState, reconnectBackoff, nextConnectAt, now>>
power  == <<onBackup, mainsLost, reported>>
time   == <<clock, spent, unfed, idle>>
vars   == <<at, connected, locals, tlsDiagDone, power, time, wasReset, lastReport>>

Attaching == at \in {"init", "connect", "subscribe"}

Init ==
    /\ at = "loop" /\ connected = FALSE
    /\ modemInitialised = FALSE /\ wasConnected = FALSE /\ modemState = "BOOTING"
    /\ reconnectBackoff = 0 /\ nextConnectAt = 0 /\ now = 0
    /\ tlsDiagDone = FALSE /\ mainsLost = FALSE
    /\ clock = 0 /\ spent = 0 /\ unfed = 0 /\ idle = 0
    /\ lastReport = "none"
    /\ onBackup = FALSE /\ reported = "not" /\ wasReset = FALSE

-----------------------------------------------------------------------------
(* The disconnected branch of the loop.                                    *)

\* at_mqtt_poll reads that the session is gone.
ConnectionLost ==
    /\ at = "loop" /\ connected
    /\ connected' = FALSE
    /\ UNCHANGED <<at, locals, tlsDiagDone, power, time, wasReset, lastReport>>

HoldUp_Always ==
    /\ at = "loop" /\ ~connected
    /\ at' = "sleep"
    /\ UNCHANGED <<connected, locals, tlsDiagDone, power, time, wasReset, lastReport>>

\* On backup power the task only waits: it feeds no watchdog here.
HoldUp ==
    /\ at = "loop" /\ ~connected /\ mainsLost
    /\ at' = "sleep"
    /\ UNCHANGED <<connected, locals, tlsDiagDone, power, time, wasReset, lastReport>>

NoteDisconnected_Silent ==
    /\ at = "loop" /\ ~connected /\ ~mainsLost
    /\ at' = "due"
    /\ wasConnected' = FALSE
    /\ UNCHANGED <<connected, modemInitialised, modemState, reconnectBackoff, nextConnectAt,
                   now, tlsDiagDone, power, time, wasReset, lastReport>>

NoteDisconnected_Anyway ==
    /\ at = "loop" /\ ~connected
    /\ at' = "due"
    /\ wasConnected' = FALSE
    /\ lastReport' = IF wasConnected THEN "DISCONNECTED" ELSE lastReport
    /\ UNCHANGED <<connected, modemInitialised, modemState, reconnectBackoff, nextConnectAt,
                   now, tlsDiagDone, power, time, wasReset>>

\* Mains are there; a session that was up is reported as lost.
NoteDisconnected ==
    /\ at = "loop" /\ ~connected /\ ~mainsLost
    /\ at' = "due"
    /\ wasConnected' = FALSE
    /\ lastReport' = IF wasConnected THEN "DISCONNECTED" ELSE lastReport
    /\ UNCHANGED <<connected, modemInitialised, modemState, reconnectBackoff, nextConnectAt,
                   now, tlsDiagDone, power, time, wasReset>>

NotDueYet_Feed ==
    /\ at = "due" /\ clock < nextConnectAt
    /\ at' = "sleep"
    /\ unfed' = 0
    /\ UNCHANGED <<connected, locals, tlsDiagDone, power, clock, spent, idle, wasReset, lastReport>>

NotDueYet ==
    /\ at = "due" /\ clock < nextConnectAt
    /\ at' = "sleep"
    /\ UNCHANGED <<connected, locals, tlsDiagDone, power, time, wasReset, lastReport>>

\* An attempt starts with the modem's bring-up, or with the connect if an
\* earlier attempt left the modem up.
StartAttempt ==
    /\ at = "due" /\ clock >= nextConnectAt
    /\ IF modemInitialised THEN at' = "connect" /\ modemState' = "AT_READY"
       ELSE at' = "init" /\ modemState' = "BOOTING"
    /\ now' = clock /\ spent' = 0 /\ idle' = 0
    /\ UNCHANGED <<connected, modemInitialised, wasConnected, reconnectBackoff, nextConnectAt,
                   tlsDiagDone, power, clock, unfed, wasReset, lastReport>>

InitOk ==
    /\ at = "init"
    /\ at' = "connect"
    /\ modemInitialised' = TRUE /\ modemState' = "AT_READY"
    /\ UNCHANGED <<connected, wasConnected, reconnectBackoff, nextConnectAt, now,
                   tlsDiagDone, power, time, wasReset, lastReport>>

ConnectOk ==
    /\ at = "connect"
    /\ at' = "subscribe"
    /\ connected' = TRUE
    /\ UNCHANGED <<locals, tlsDiagDone, power, time, wasReset, lastReport>>

SubscribeOk ==
    /\ at = "subscribe"
    /\ at' = "sleep"
    /\ modemState' = "MQTT_CONNECTED" /\ wasConnected' = TRUE
    /\ reconnectBackoff' = 0 /\ nextConnectAt' = now
    /\ lastReport' = "RECONNECTED"
    /\ UNCHANGED <<connected, modemInitialised, now, tlsDiagDone, power, time, wasReset>>

Doubled == IF reconnectBackoff > BackoffMax \div 2 THEN BackoffMax ELSE reconnectBackoff * 2

\* nextBackoff.
Backoffs ==
    IF reconnectBackoff = 0 THEN {FirstBackoff} ELSE {Doubled + jitter : jitter \in 0..MaxJitter}

\* Unsigned addition of times.
After(t, d) == (t + d) % ClockSize

\* The attempt fails and the next one is put off, counted from its start.
\* A connection that is up stays up, subscribed or not.
Failed ==
    /\ at' = "sleep"
    /\ modemState' = "BACKOFF"
    /\ reconnectBackoff' \in Backoffs
    /\ nextConnectAt' = After(now, reconnectBackoff')
    /\ modemInitialised' = FALSE
    /\ UNCHANGED <<connected, wasConnected, now, power, clock, spent, idle, wasReset, lastReport>>

InitFails      == at = "init" /\ Failed /\ UNCHANGED <<tlsDiagDone, unfed>>
ConnectFails   == at = "connect" /\ Failed /\ UNCHANGED <<tlsDiagDone, unfed>>
SubscribeFails == at = "subscribe" /\ Failed /\ UNCHANGED <<tlsDiagDone, unfed>>

\* The measurements of the one-shot TLS diagnosis, which feed the watchdog.
Diagnose == tlsDiagDone' = TRUE /\ unfed' = 0

\* The first failed TLS handshake of a boot is diagnosed at length.
HandshakeFails ==
    /\ at = "connect" /\ ~tlsDiagDone
    /\ Failed /\ Diagnose

-----------------------------------------------------------------------------
(* The connected branch, sleeping, and the rest of the world.              *)

Work ==
    /\ at = "loop" /\ connected
    /\ at' = "publish" /\ spent' = 0
    /\ UNCHANGED <<connected, locals, tlsDiagDone, power, clock, unfed, idle, wasReset, lastReport>>

\* The pass ends, perhaps with a session found dead, and feeds the watchdog.
WorkDone ==
    /\ at = "publish"
    /\ at' = "sleep"
    /\ connected' \in BOOLEAN
    /\ unfed' = 0
    /\ UNCHANGED <<locals, tlsDiagDone, power, clock, spent, idle, wasReset, lastReport>>

\* The next pass begins.
Begin == at' = "loop" /\ reported' = IF reported = "just" THEN "before" ELSE reported

Wake ==
    /\ at = "sleep" /\ Begin
    /\ UNCHANGED <<connected, locals, tlsDiagDone, onBackup, mainsLost, time, wasReset, lastReport>>

\* Time passes: the task sleeps through a tick at most, and the driver is
\* blocked no longer than its timeouts allow.
Tick ==
    /\ unfed < WatchdogTimeout
    /\ \/ at = "sleep" /\ Begin /\ UNCHANGED spent
       \/ Attaching /\ spent < AttemptMax /\ spent' = spent + 1 /\ UNCHANGED <<at, reported>>
       \/ at = "publish" /\ spent < PublishMax /\ spent' = spent + 1 /\ UNCHANGED <<at, reported>>
    /\ clock' = (clock + 1) % ClockSize
    /\ unfed' = unfed + 1
    /\ idle' = IF at = "sleep" /\ ~connected /\ ~mainsLost THEN idle + 1 ELSE 0
    /\ UNCHANGED <<connected, locals, tlsDiagDone, onBackup, mainsLost, wasReset, lastReport>>

PinChanges ==
    /\ onBackup' = ~onBackup /\ reported' = "not"
    /\ UNCHANGED <<at, connected, locals, tlsDiagDone, mainsLost, time, wasReset, lastReport>>

\* The power task has debounced the pin.
NoteMains ==
    /\ mainsLost # onBackup
    /\ mainsLost' = onBackup
    /\ reported' = IF onBackup THEN "just" ELSE "not"
    /\ UNCHANGED <<at, connected, locals, tlsDiagDone, onBackup, time, wasReset, lastReport>>

\* The task watchdog restarts the device; the reset reason survives.
WatchdogReset ==
    /\ unfed = WatchdogTimeout
    /\ wasReset' = TRUE
    /\ at' = "loop" /\ connected' = FALSE
    /\ modemInitialised' = FALSE /\ wasConnected' = FALSE /\ modemState' = "BOOTING"
    /\ reconnectBackoff' = 0 /\ nextConnectAt' = 0 /\ now' = 0
    /\ tlsDiagDone' = FALSE /\ mainsLost' = FALSE
    /\ clock' = 0 /\ spent' = 0 /\ unfed' = 0 /\ idle' = 0
    /\ lastReport' = "none"
    /\ UNCHANGED <<onBackup, reported>>

LoopStep ==
    \/ HoldUp \/ NoteDisconnected \/ NotDueYet \/ StartAttempt
    \/ Work \/ Wake

Next ==
    \/ ConnectionLost \/ LoopStep
    \/ InitOk \/ InitFails \/ ConnectOk \/ ConnectFails \/ HandshakeFails
    \/ SubscribeOk \/ SubscribeFails
    \/ WorkDone
    \/ Tick \/ PinChanges \/ NoteMains \/ WatchdogReset

Spec == Init /\ [][Next]_vars

\* The scheduler runs the task, the driver returns, time passes and the
\* watchdog fires (WF, SF where the loop interrupts what it waits for); a
\* network that is asked again and again lets an attempt succeed (SF).
Fairness ==
    /\ WF_vars(LoopStep) /\ WF_vars(WorkDone) /\ WF_vars(NoteMains)
    /\ SF_vars(Tick) /\ SF_vars(WatchdogReset)
    /\ SF_vars(InitOk) /\ SF_vars(ConnectOk) /\ SF_vars(SubscribeOk)

FairSpec == Spec /\ Fairness

-----------------------------------------------------------------------------
(* Properties.                                                             *)

\* The type invariant.
TypeOK ==
    /\ at \in {"loop", "due", "init", "connect", "subscribe", "publish", "sleep"}
    /\ {connected, modemInitialised, wasConnected, tlsDiagDone, onBackup, mainsLost,
        wasReset} \subseteq BOOLEAN
    /\ reported \in {"not", "just", "before"}
    /\ modemState \in {"BOOTING", "AT_READY", "MQTT_CONNECTED", "BACKOFF"}
    /\ reconnectBackoff \in 0..(BackoffMax + MaxJitter)
    /\ nextConnectAt \in 0..(ClockSize - 1)
    /\ now \in 0..(ClockSize - 1) /\ clock \in 0..(ClockSize - 1)
    /\ spent \in Nat /\ idle \in Nat /\ unfed \in 0..WatchdogTimeout
    /\ lastReport \in {"none", "RECONNECTED", "DISCONNECTED"}

\* A disconnected device with mains tries again within the longest backoff,
\* also when millis() wraps while it waits: nextConnectAt is then far ahead,
\* and it is the watchdog that gets the device out of the wait.
RetriesInTime == idle <= BackoffMax + MaxJitter

\* A session is reported as lost before another one is reported as up.
SessionsAreReported == [][SubscribeOk => lastReport # "RECONNECTED"]_vars

\* While records go out the health snapshot says MQTT_CONNECTED, except in a
\* session whose subscription failed: that one runs on as if backing off,
\* and its end is never reported.
StateTellsSession ==
    at = "publish" => /\ modemState = "MQTT_CONNECTED" <=> wasConnected
                      /\ ~wasConnected => modemState = "BACKOFF" /\ lastReport # "RECONNECTED"

\* What is told of the session, by health snapshots and by events, is so, but for a
\* session without subscription (networkTask).
SessionsAreTold == []StateTellsSession /\ SessionsAreReported

\* Once the mains stay on the device is connected again and again.
Reconnects == <>[]~onBackup => []<>connected

\* The watchdog does not restart a device whose reconnect attempts all end
\* and whose loop goes on.
HealthyNeverReset == ~wasReset

\* A pass that begins after the loss of mains was reported starts no network
\* attach on backup power, unless the watchdog has reset the device: then
\* mainsLost starts as false again.  (A pass that has read the flag before
\* goes on.)
HoldUpReserved ==
    [][~Attaching /\ Attaching' /\ onBackup /\ reported = "before" => wasReset]_vars
=============================================================================
