------------------------------ MODULE Services ------------------------------
(***************************************************************************)
(* The components around the record path that share no state with one      *)
(* another: a behaviour is one of the component named by "component", the  *)
(* others are at rest.  A component's variables and constants have the     *)
(* names they have in its module, but for those that two modules use.      *)
(***************************************************************************)
EXTENDS Metering

CONSTANTS
    EntryCount, MaxCheckpoints, MaxDrops, MaxCrashes, MaxTimeouts,   \* HeaderJournal
    FailDebounce, RestoreDebounce, MaxBusy, PowerWrap,               \* PowerMonitor
    Readings, Unset, NoZone, Strays, Window, Wrap, MaxAge,           \* TimeService
    ConsecutiveCount, Capacity, SectorRecords, MaxDropped,           \* Reports
    Builds, Contents, MaxEdits                                       \* CertBuild

VARIABLES
    component,
    journal, ready, generation, dropped, active, pc, slot, checkpoints, crashes, timeouts,
    pin, powerFailInterrupt, raw, changedAt, failed, sample, place, millis, busy, quiet, told, restarted,
    modem, step, clock, clockSet, lastSync, up, age, carried, rec,
    count, lowSignal, signalUnknown, signalStreak, signalSettled, depth, droppedRecords, stats,
    queueNearFullReported, lastDroppedNotified, untold,
    files, awsDefault, header, build, image, edits, edited

journalVars == <<journal, ready, generation, dropped, active, pc, slot, checkpoints, crashes, timeouts>>
powerVars == <<pin, powerFailInterrupt, raw, changedAt, failed, sample, place, millis, busy, quiet,
               told, restarted>>
timeVars == <<modem, step, clock, clockSet, lastSync, up, age, carried, rec>>
reportVars == <<count, lowSignal, signalUnknown, signalStreak, signalSettled, depth, droppedRecords,
                stats, queueNearFullReported, lastDroppedNotified, untold>>
certVars == <<files, awsDefault, header, build, image, edits, edited>>
servicesVars == <<component, vars, journalVars, powerVars, timeVars, reportVars, certVars>>

Journal == INSTANCE HeaderJournal
Power   == INSTANCE PowerMonitor WITH pc <- place, Wrap <- PowerWrap
Time    == INSTANCE TimeService
Report  == INSTANCE Reports
               WITH streak <- signalStreak, settled <- signalSettled, dropped <- droppedRecords
Certs   == INSTANCE CertBuild

ASSUME ServicesAssumption ==
    /\ Journal!JournalAssumption /\ Power!TimeAssumption
    /\ Time!ClockAssumption /\ Time!TimeAssumption
    /\ Report!LimitAssumption /\ Certs!ContentsAssumption

-----------------------------------------------------------------------------
MeteringRests == Boot /\ wiring = [c \in Channels |-> "straight"]
PowerRests ==
    /\ pin = "none" /\ powerFailInterrupt = "none" /\ raw = "none" /\ changedAt = "none"
    /\ failed = "none" /\ sample = "none" /\ place = "none" /\ millis = "none"
    /\ busy = "none" /\ quiet = "none" /\ told = "none" /\ restarted = "none"
TimeRests ==
    /\ modem = "none" /\ step = "none" /\ clock = "none" /\ clockSet = "none" /\ lastSync = "none"
    /\ up = "none" /\ age = "none" /\ carried = "none" /\ rec = "none"
ReportsRest ==
    /\ count = "none" /\ lowSignal = "none" /\ signalUnknown = "none" /\ signalStreak = "none"
    /\ signalSettled = "none" /\ depth = "none" /\ droppedRecords = "none" /\ stats = "none"
    /\ queueNearFullReported = "none" /\ lastDroppedNotified = "none" /\ untold = "none"
CertsRest ==
    /\ files = "none" /\ awsDefault = "none" /\ header = "none" /\ build = "none"
    /\ image = "none" /\ edits = "none" /\ edited = "none"

ServicesInit ==
    /\ component \in {"metering", "journal", "power", "time", "reports", "certificates"}
    /\ IF component = "metering" THEN Init ELSE MeteringRests
    /\ Journal!Init
    /\ IF component = "power" THEN Power!Init ELSE PowerRests
    /\ IF component = "time" THEN Time!Init ELSE TimeRests
    /\ IF component = "reports" THEN Report!Init ELSE ReportsRest
    /\ IF component = "certificates" THEN Certs!Init ELSE CertsRest

MeteringStep ==
    /\ component = "metering" /\ Next
    /\ UNCHANGED <<component, journalVars, powerVars, timeVars, reportVars, certVars>>
JournalStep ==
    /\ component = "journal" /\ Journal!Next
    /\ UNCHANGED <<component, vars, powerVars, timeVars, reportVars, certVars>>
PowerStep ==
    /\ component = "power" /\ Power!Next
    /\ UNCHANGED <<component, vars, journalVars, timeVars, reportVars, certVars>>
TimeStep ==
    /\ component = "time" /\ Time!Next
    /\ UNCHANGED <<component, vars, journalVars, powerVars, reportVars, certVars>>
ReportsStep ==
    /\ component = "reports" /\ Report!Next
    /\ UNCHANGED <<component, vars, journalVars, powerVars, timeVars, certVars>>
CertsStep ==
    /\ component = "certificates" /\ Certs!Next
    /\ UNCHANGED <<component, vars, journalVars, powerVars, timeVars, reportVars>>

ServicesNext == MeteringStep \/ JournalStep \/ PowerStep \/ TimeStep \/ ReportsStep \/ CertsStep

ServicesSpec == ServicesInit /\ [][ServicesNext]_servicesVars

-----------------------------------------------------------------------------
(* Properties; those of Metering, FaultIsLastThree and WhatAnswersIsRead,   *)
(* hold of wires at rest.                                                   *)

\* A checkpoint is atomic: whatever is cut short, a boot restores the drop counter of the
\* last checkpoint, complete or not at all, as no two entries share a generation and the
\* newest is not in a sector that is erased (storage.cpp checkpointLocked, findHeader).
KeepsCounter == Journal!KeepsCounter /\ [](Journal!GenerationsAreUnique /\ Journal!NewestIsSafe)

\* The whole way of a time from the modem to the ESP32 keeps the instant, and no time
\* before 2020 is taken over (at_mqtt_get_timestamp, time_service.cpp parseIso8601).
ClockIsRight ==
    [][component = "time" => (Time!ClockIsRight)' /\ Time!RefusalStep]_servicesVars

\* A record says "synchronised" of a fresh clock only, and has a time if it has a quality
\* (time_service_quality; makeRecord against time_service_sync_from_modem).
StampsAreHonest == component = "time" => Time!SyncedIsFresh /\ Time!QualityHasTime

\* A change of mains is taken over when, and in two passes only when, the input had no
\* edge for the debounce time, and what was told last of mains is what the device takes
\* for true, but for a reset (powerTask, powerFailIsr).
MainsAreTracked ==
    [][component = "power" => /\ Power!DebouncedStep
                              /\ (Power!InTime /\ Power!TheLastReportHolds)']_servicesVars

\* Signal and flash are reported as they are: after three samples in a row, and no drop is
\* kept back (networkTask, reportQueueHealth).
ReportsAreRight == component = "reports" => Report!ReportsAreRight

\* Images have the key of their certificate, the CA of their endpoint and one fingerprint
\* per bundle (gen_certs.py generate).
ImagesAreSound == component = "certificates" => Certs!ImagesAreSound
=============================================================================
