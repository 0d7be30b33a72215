----------------------------- MODULE TimeService -----------------------------
(***************************************************************************)
(* The time of the records (src/time_service.cpp): taken from the modem's  *)
(* clock once per session, judged by its age, and stamped on records by    *)
(* the tasks that make them (makeRecord in src/main.cpp).  The modem's     *)
(* clock itself is set over NTP before a session if it looks unset         *)
(* (_sync_modem_clock in src/at_mqtt.cpp).                                 *)
(*                                                                         *)
(* A modem clock is what AT+CCLK? answers, with the instant it stands for, *)
(* which the firmware does not see:                                        *)
(*   [yy, mo, dd, quarter, zone, utc]                                      *)
(* Times of day, zones and instants are in quarter hours, in which SIMCom  *)
(* modems give the zone; NoZone is an answer without one.  The clock of    *)
(* the ESP32 runs on by itself and is modelled by whether it is set, and   *)
(* right.  millis() and ages are in ticks.                                 *)
(***************************************************************************)
EXTENDS Integers, Calendar

CONSTANTS
    Readings,   \* the clocks a modem may have, the unset one among them
    Unset,      \* the clock of a modem without the time
    NoZone,     \* stands for the zone of an answer that has none
    Strays,     \* what an uninitialised zone may turn out to be
    Window,     \* SYNCED_WINDOW_MS, six hours
    Wrap,       \* where millis() wraps, 49.7 days
    MaxAge      \* bound: the age of the ESP32's clock

\* The first of January 2020.
Epoch2020 == 96 * 18262

\* What a clock shows, counted from 1970 (daysSinceEpoch, hour and minute).
LocalTime(r) == 96 * DaysSinceEpoch(2000 + r.yy, r.mo, r.dd) + r.quarter

\* What the constants must be: a clock shows the instant it stands for, in its zone, or
\* the last century, which two digits do not tell; one without zone has been set.
ClockAssumption ==
    /\ Unset \in Readings /\ Strays \subseteq Int
    /\ \A r \in Readings :
         /\ r.yy \in 0..99 /\ r.mo \in 1..12 /\ r.dd \in 1..31 /\ r.quarter \in 0..95
         /\ IF r.zone = NoZone THEN r.utc >= Epoch2020
            ELSE /\ r.zone \in Int /\ -96 <= r.zone /\ r.zone <= 96
                 /\ r.yy < 70 => r.utc = LocalTime(r) - r.zone

TimeAssumption ==
    /\ Window \in Nat /\ Wrap \in Nat /\ MaxAge \in Nat /\ Window < Wrap

VARIABLES
    modem,      \* the modem's clock
    step,       \* where the network task is between sessions and in time_service_sync_from_modem
    clock,      \* the ESP32's clock: "unset", "right", "wrong", or "stray" after an answer without zone
    clockSet, lastSync,   \* as in time_service.cpp
    up,         \* millis()
    age,        \* history: ticks since the ESP32's clock was set
    carried,    \* history: whether a restart has come in between
    rec         \* a record another task is making: its quality, and whether its stamp is a time

vars == <<modem, step, clock, clockSet, lastSync, up, age, carried, rec>>

NoRecord == [at |-> "idle", quality |-> "unknown", stamped |-> FALSE]

Init ==
    /\ modem = Unset /\ step = "offline"
    /\ clock = "unset" /\ clockSet = FALSE /\ lastSync = 0
    /\ up = 0 /\ age = 0 /\ carried = FALSE
    /\ rec = NoRecord

-----------------------------------------------------------------------------
(* Before a session: _sync_modem_clock.                                    *)

YearValid(yy) == yy >= 25 /\ yy < 70

\* The network sets the modem's clock when it likes.
NetworkTime ==
    /\ step = "offline"
    /\ modem' \in Readings
    /\ UNCHANGED <<step, clock, clockSet, lastSync, up, age, carried, rec>>

\* A clock of a valid year is kept.  Otherwise up to three time servers are
\* tried, which set it to UTC; at_mqtt_connect goes on whatever comes of it.
SyncModemClock ==
    /\ step = "offline" /\ step' = "connecting"
    /\ modem' \in {modem} \cup (IF YearValid(modem.yy) THEN {} ELSE {r \in Readings : r.zone = 0})
    /\ UNCHANGED <<clock, clockSet, lastSync, up, age, carried, rec>>

ConnectFails ==
    /\ step = "connecting" /\ step' = "offline"
    /\ UNCHANGED <<modem, clock, clockSet, lastSync, up, age, carried, rec>>

ConnectOk ==
    /\ step = "connecting" /\ step' = "asking"
    /\ UNCHANGED <<modem, clock, clockSet, lastSync, up, age, carried, rec>>

SessionEnds ==
    /\ step = "online" /\ step' = "offline"
    /\ UNCHANGED <<modem, clock, clockSet, lastSync, up, age, carried, rec>>

-----------------------------------------------------------------------------
(* time_service_sync_from_modem.                                           *)

GetTimestamp_MarksFirst ==
    /\ step = "asking" /\ step' = "answered"
    /\ clockSet' = TRUE
    /\ UNCHANGED <<modem, clock, lastSync, up, age, carried, rec>>

\* at_mqtt_get_timestamp reads the modem's clock, or falls back on 1970,
\* which parseIso8601 refuses.
GetTimestamp ==
    /\ step = "asking" /\ step' \in {"answered", "online"}
    /\ UNCHANGED <<modem, clock, clockSet, lastSync, up, age, carried, rec>>

\* 2^31 seconds are 2386092 quarter hours and a bit, 2^32 seconds almost
\* 4772186.
Narrow(q) == IF q > 2386092 THEN q - 4772186 ELSE q

Instant_Added(r, zone) == Narrow(LocalTime(r)) + zone
\* parseIso8601: the local time, and the zone taken off.
Instant(r, zone) == Narrow(LocalTime(r)) - zone

\* An answer without zone leaves tz uninitialised: its value gets into the
\* instant, or spoils the text so that parseIso8601 refuses it.
Zones == IF modem.zone = NoZone THEN Strays ELSE {modem.zone}

\* Not before 1577836800.
Accepted(zone) == Instant(modem, zone) >= Epoch2020

Refuse ==
    /\ step = "answered" /\ step' = "online"
    /\ modem.zone = NoZone \/ \E z \in Zones : ~Accepted(z)
    /\ UNCHANGED <<modem, clock, clockSet, lastSync, up, age, carried, rec>>

\* settimeofday
SetClock ==
    /\ step = "answered" /\ step' = "set"
    /\ \E z \in Zones :
         /\ Accepted(z)
         /\ clock' = IF modem.zone = NoZone THEN "stray"
                     ELSE IF Instant(modem, z) = modem.utc THEN "right" ELSE "wrong"
    /\ age' = 0 /\ carried' = FALSE
    /\ UNCHANGED <<modem, clockSet, lastSync, up, rec>>

MarkSet ==
    /\ step = "set" /\ step' = "marked"
    /\ clockSet' = TRUE
    /\ UNCHANGED <<modem, clock, lastSync, up, age, carried, rec>>

NoteSync ==
    /\ step = "marked" /\ step' = "online"
    /\ lastSync' = up
    /\ UNCHANGED <<modem, clock, clockSet, up, age, carried, rec>>

-----------------------------------------------------------------------------
(* Another task makes a record: makeRecord reads quality and time, in that *)
(* order and with no lock.                                                 *)

\* time_service_quality: the subtraction is modulo 2^32 in the code.
Quality ==
    IF ~clockSet THEN "unknown"
    ELSE IF (up - lastSync) % Wrap <= Window THEN "synced" ELSE "estimated"

JudgeTime ==
    /\ rec.at \in {"idle", "made"}
    /\ rec' = [at |-> "judged", quality |-> Quality, stamped |-> FALSE]
    /\ UNCHANGED <<modem, step, clock, clockSet, lastSync, up, age, carried>>

\* time_service_now_ms: 0 while the clock is not set.
StampTime ==
    /\ rec.at = "judged"
    /\ rec' = [rec EXCEPT !.at = "made", !.stamped = clock # "unset"]
    /\ UNCHANGED <<modem, step, clock, clockSet, lastSync, up, age, carried>>

-----------------------------------------------------------------------------
(* Time and restarts.                                                      *)

Later(t) == (t + 1) % Wrap

\* No tick is as short as the statements between settimeofday and the end.
Tick ==
    /\ step \notin {"set", "marked"}
    /\ age < MaxAge
    /\ up' = Later(up)
    /\ age' = IF clock = "unset" THEN 0 ELSE age + 1
    /\ UNCHANGED <<modem, step, clock, clockSet, lastSync, carried, rec>>

\* A reset by software or by the watchdog: the ESP32's clock goes on, and
\* time_service_init takes it for synchronised now.
Restart ==
    /\ step' = "offline" /\ rec' = NoRecord
    /\ clockSet' = (clock # "unset")
    /\ up' = 0 /\ lastSync' = 0
    /\ carried' = (clock # "unset")
    /\ UNCHANGED <<modem, clock, age>>

\* The modem's clock may have a supply of its own.
PowerLoss ==
    /\ step' = "offline" /\ rec' = NoRecord
    /\ clock' = "unset" /\ clockSet' = FALSE
    /\ up' = 0 /\ lastSync' = 0 /\ age' = 0 /\ carried' = FALSE
    /\ modem' \in {modem, Unset}

Next ==
    \/ NetworkTime \/ SyncModemClock \/ ConnectFails \/ ConnectOk \/ SessionEnds
    \/ GetTimestamp \/ Refuse \/ SetClock \/ MarkSet \/ NoteSync
    \/ JudgeTime \/ StampTime
    \/ Tick \/ Restart \/ PowerLoss

Spec == Init /\ [][Next]_vars

-----------------------------------------------------------------------------

\* The type invariant.
TypeOK ==
    /\ modem \in Readings
    /\ step \in {"offline", "connecting", "asking", "answered", "set", "marked", "online"}
    /\ clock \in {"unset", "right", "wrong", "stray"}
    /\ clockSet \in BOOLEAN /\ carried \in BOOLEAN
    /\ up \in 0..Wrap - 1 /\ lastSync \in 0..Wrap - 1
    /\ age \in 0..MaxAge
    /\ rec \in [at : {"idle", "judged", "made"}, quality : {"unknown", "synced", "estimated"},
                stamped : BOOLEAN]

\* The whole way of a time from the modem to the ESP32 keeps the instant: two
\* digits of a year, a zone in quarter hours on either side of UTC, the
\* calendar.  Only an answer without zone can make the clock wrong
\* (at_mqtt_get_timestamp, parseIso8601).
ClockIsRight == clock # "wrong"

\* No time before 2020 is taken over.  A modem without the time answers with
\* 1970, which the firmware reads as 2070: that is refused, though only because
\* 2070 overflows time_t, for parseIso8601 has no upper bound of its own.
RefusalStep == step = "answered" /\ step' = "set" => modem.utc >= Epoch2020

\* A time called synchronised is at most a window old.  There are two ways
\* out of that: the clock outlived a restart, which makes it look new, and
\* the age is that of a full round of millis().
SyncedIsFresh ==
    Quality = "synced" => age <= Window \/ carried \/ age >= Wrap

\* A record with a quality has a time, however its making interleaves with a
\* synchronisation (makeRecord against time_service_sync_from_modem).
QualityHasTime == rec.at = "made" /\ rec.quality # "unknown" => rec.stamped
=============================================================================
