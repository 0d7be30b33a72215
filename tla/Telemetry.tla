----------------------------- MODULE Telemetry ------------------------------
(***************************************************************************)
(* The way of a record through the firmware (src/main.cpp): the tasks that *)
(* make records (makeRecord, enqueueLive, emitEvent), the two RAM queues   *)
(* between them and the network task, and the network task's connected     *)
(* branch, which publishes from the RAM queues first and replays the flash *)
(* queue when they are empty.                                              *)
(*                                                                         *)
(* The tasks share nothing but the queues and the driver's _connected,     *)
(* which only the network task changes and emitEvent reads twice.  The     *)
(* flash queue is the one StoreForward describes, with an order of its own *)
(* since records are not appended in the order of their numbers.           *)
(***************************************************************************)
EXTENDS Integers, Sequences, FiniteSets, Functions

CONSTANTS
    Tasks,         \* the tasks that run, the network task among them
    LiveDepth,     \* LIVE_QUEUE_DEPTH, 24
    UrgentDepth,   \* URGENT_QUEUE_DEPTH, 8
    Capacity,      \* records the flash queue holds
    ReclaimUnit,   \* records it gives up at most to make space
    MaxRecords,    \* bound: records made
    MaxCrashes     \* bound: power losses

\* What each task makes: telemetry (enqueueLive), events, and events that
\* emitEvent stores first.
Kinds == [meter   |-> {"telemetry", "event"},
          power   |-> {"writeAhead", "event"},
          setup   |-> {"writeAhead"},
          network |-> {"event"}]

ASSUME TaskAssumption == Tasks \subseteq DOMAIN Kinds /\ "network" \in Tasks

ASSUME SizeAssumption ==
    /\ LiveDepth \in Nat \ {0} /\ UrgentDepth \in Nat \ {0}
    /\ ReclaimUnit \in Nat \ {0} /\ Capacity \in Nat /\ Capacity >= ReclaimUnit
    /\ MaxRecords \in Nat /\ MaxCrashes \in Nat

VARIABLES
    connected,   \* _connected of the modem driver
    live,        \* liveQueue, first in first out
    urgent,      \* urgentQueue, the newest event first
    stored,      \* the flash queue, oldest first
    doing,       \* for each task, the record it is making or moving and how far it is
    sending,     \* the record being published, and where it came from
    origin,      \* origin[r]: the task that made record r, and its kind
    forwarded,   \* history: records the broker has accepted
    lost,        \* history: the records lost in each of the ways there are
    crashes

vars == <<connected, live, urgent, stored, doing, sending, origin, forwarded, lost, crashes>>

Ids     == 1..Len(origin)
Idle    == [at |-> "idle", rec |-> 0, stores |-> FALSE]
Nothing == [rec |-> 0, from |-> "none"]

\* A record may leave undelivered because the flash queue reclaims it, an
\* append fails, power fails while it is in RAM or tears its sector, a replay
\* marks it unpublished, or the session ends while emitEvent runs.
Ways == {"reclaimed", "refused", "power", "torn", "skipped", "raced"}

\* Every record of S has been lost in the way w.
Losing(w, S) == lost' = [lost EXCEPT ![w] = @ \cup S]

InRam == {doing[t].rec : t \in Tasks} \cup Range(live) \cup Range(urgent) \cup {sending.rec}
Held  == InRam \cup Range(stored)
Lost  == UNION {lost[w] : w \in Ways}

Init ==
    /\ connected = FALSE
    /\ live = <<>> /\ urgent = <<>> /\ stored = <<>>
    /\ doing = [t \in Tasks |-> Idle] /\ sending = Nothing
    /\ origin = <<>> /\ forwarded = {}
    /\ lost = [w \in Ways |-> {}]
    /\ crashes = 0

-----------------------------------------------------------------------------
(* Making a record: enqueueLive and emitEvent, one shared read at a time.  *)

Kind(t) == origin[doing[t].rec].kind

\* Task t goes on to point a with the record it has.
Proceed(t, a, s) == doing' = [doing EXCEPT ![t].at = a, ![t].stores = s]
Finish(t) == doing' = [doing EXCEPT ![t] = Idle]

\* The network task does one thing at a time.
Free(t) == doing[t] = Idle /\ (t = "network" => sending = Nothing)

\* makeRecord allocates the record's number.
Make(t) ==
    /\ Free(t) /\ Len(origin) < MaxRecords
    /\ \E k \in Kinds[t] : origin' = Append(origin, [task |-> t, kind |-> k])
    /\ doing' = [doing EXCEPT ![t] = [at |-> "look", rec |-> Len(origin'), stores |-> FALSE]]
    /\ UNCHANGED <<connected, live, urgent, stored, sending, forwarded, lost, crashes>>

Look_ConnectedOnly(t) ==
    /\ doing[t].at = "look"
    /\ IF connected THEN Proceed(t, "offer", FALSE)
       ELSE IF Kind(t) = "telemetry" THEN Proceed(t, "fallback", FALSE)
       ELSE Proceed(t, "append", TRUE)
    /\ UNCHANGED <<connected, live, urgent, stored, sending, origin, forwarded, lost, crashes>>

\* The first look at the connection: telemetry goes to the flash while there
\* is none, and so does an event; a write-ahead event goes there in any case.
Look(t) ==
    /\ doing[t].at = "look"
    /\ IF connected /\ Kind(t) # "writeAhead" THEN Proceed(t, "offer", FALSE)
       ELSE IF Kind(t) = "telemetry" THEN Proceed(t, "fallback", FALSE)
       ELSE Proceed(t, "append", TRUE)
    /\ UNCHANGED <<connected, live, urgent, stored, sending, origin, forwarded, lost, crashes>>

\* After its append an event is still offered to the network task.
AfterAppend(t) == IF doing[t].at = "append" THEN Proceed(t, "offer", TRUE) ELSE Finish(t)

Appending(t) == doing[t].at \in {"append", "fallback"}

\* storage_append: the ring may have to give up its oldest records first.
AppendStored(t) ==
    /\ Appending(t)
    /\ \E n \in 0..ReclaimUnit :
          /\ n > 0 => Len(stored) > Capacity - ReclaimUnit /\ n <= Len(stored)
          /\ Len(stored) - n < Capacity
          /\ stored' = Append(SubSeq(stored, n + 1, Len(stored)), doing[t].rec)
          /\ Losing("reclaimed", Range(SubSeq(stored, 1, n)))
    /\ AfterAppend(t)
    /\ UNCHANGED <<connected, live, urgent, sending, origin, forwarded, crashes>>

\* The storage is not ready, or the flash does not answer in time: nobody
\* is told.
AppendRefused(t) ==
    /\ Appending(t)
    /\ Losing("refused", {doing[t].rec})
    /\ AfterAppend(t)
    /\ UNCHANGED <<connected, live, urgent, stored, sending, origin, forwarded, crashes>>

\* Telemetry goes to the live queue, or to the flash when that is full.
OfferLive(t) ==
    /\ doing[t].at = "offer" /\ Kind(t) = "telemetry"
    /\ IF Len(live) < LiveDepth
       THEN live' = Append(live, doing[t].rec) /\ Finish(t)
       ELSE live' = live /\ Proceed(t, "fallback", FALSE)
    /\ UNCHANGED <<connected, urgent, stored, sending, origin, forwarded, lost, crashes>>

\* The second look at the connection: the event goes to the front of the
\* urgent queue, or to the flash when that is full and it is not there yet.
OfferUrgent(t) ==
    /\ doing[t].at = "offer" /\ Kind(t) # "telemetry" /\ connected
    /\ IF Len(urgent) < UrgentDepth
       THEN urgent' = <<doing[t].rec>> \o urgent /\ Finish(t)
       ELSE /\ urgent' = urgent
            /\ IF doing[t].stores THEN Finish(t) ELSE Proceed(t, "fallback", FALSE)
    /\ UNCHANGED <<connected, live, stored, sending, origin, forwarded, lost, crashes>>

\* The second look finds no connection.  An event that the first look left
\* out of the flash is dropped.
OfferNobody(t) ==
    /\ doing[t].at = "offer" /\ Kind(t) # "telemetry" /\ ~connected
    /\ Losing("raced", IF doing[t].stores THEN {} ELSE {doing[t].rec})
    /\ Finish(t)
    /\ UNCHANGED <<connected, live, urgent, stored, sending, origin, forwarded, crashes>>

-----------------------------------------------------------------------------
(* The network task.                                                       *)

Connect ==
    /\ Free("network") /\ ~connected
    /\ connected' = TRUE
    /\ UNCHANGED <<live, urgent, stored, doing, sending, origin, forwarded, lost, crashes>>

\* at_mqtt_poll reads that the session is gone.
Disconnect ==
    /\ Free("network") /\ connected
    /\ connected' = FALSE
    /\ UNCHANGED <<live, urgent, stored, doing, sending, origin, forwarded, lost, crashes>>

TakeUrgent ==
    /\ urgent # <<>>
    /\ sending' = [rec |-> Head(urgent), from |-> "urgent"]
    /\ urgent' = Tail(urgent)
    /\ UNCHANGED live

TakeLive ==
    /\ urgent = <<>> /\ live # <<>>
    /\ sending' = [rec |-> Head(live), from |-> "live"]
    /\ live' = Tail(live)
    /\ UNCHANGED urgent

\* The oldest record of the flash is only copied.
TakeStored ==
    /\ urgent = <<>> /\ live = <<>> /\ stored # <<>>
    /\ sending' = [rec |-> Head(stored), from |-> "flash"]
    /\ UNCHANGED <<live, urgent>>

Take ==
    /\ Free("network") /\ connected
    /\ TakeUrgent \/ TakeLive \/ TakeStored
    /\ UNCHANGED <<connected, stored, doing, origin, forwarded, lost, crashes>>

PublishOk_NoPop ==
    /\ sending # Nothing
    /\ sending' = Nothing
    /\ forwarded' = forwarded \cup {sending.rec}
    /\ UNCHANGED <<connected, live, urgent, stored, doing, origin, lost, crashes>>

\* The broker accepts the record; a replayed one is popped, which marks the
\* oldest record of the flash, whichever that is by now.
PublishOk ==
    /\ sending # Nothing
    /\ sending' = Nothing
    /\ forwarded' = forwarded \cup {sending.rec}
    /\ IF sending.from = "flash" /\ stored # <<>>
       THEN stored' = Tail(stored) /\ Losing("skipped", {Head(stored)} \ forwarded')
       ELSE UNCHANGED <<stored, lost>>
    /\ UNCHANGED <<connected, live, urgent, doing, origin, crashes>>

PublishFails_Forget ==
    /\ sending # Nothing
    /\ sending' = Nothing
    /\ forwarded' \in {forwarded, forwarded \cup {sending.rec}}
    /\ connected' \in {connected, FALSE}
    /\ UNCHANGED <<live, urgent, stored, doing, origin, lost, crashes>>

\* The publish fails, or is not acknowledged in time although the broker has
\* the record, and perhaps the session ends: a record from RAM goes to the
\* flash, one from the flash is still there.
PublishFails ==
    /\ sending # Nothing
    /\ sending' = Nothing
    /\ forwarded' \in {forwarded, forwarded \cup {sending.rec}}
    /\ connected' \in {connected, FALSE}
    /\ doing' = [doing EXCEPT !["network"] =
                    IF sending.from = "flash" THEN Idle
                    ELSE [at |-> "fallback", rec |-> sending.rec, stores |-> FALSE]]
    /\ UNCHANGED <<live, urgent, stored, origin, lost, crashes>>

-----------------------------------------------------------------------------
(* Power loss and restart.                                                 *)

\* RAM is gone.  If power fails during an append, the flash queue may lose a
\* few records too (StoreForward's Lose); the others keep their order.
PowerLoss ==
    /\ crashes < MaxCrashes /\ crashes' = crashes + 1
    /\ \E n \in 0..Len(stored) : \E kept \in [1..n -> DOMAIN stored] :
          /\ n < Len(stored) => n + ReclaimUnit >= Len(stored) /\ \E t \in Tasks : Appending(t)
          /\ \A i, j \in 1..n : i < j => kept[i] < kept[j]
          /\ stored' = [i \in 1..n |-> stored[kept[i]]]
    /\ lost' = [lost EXCEPT
                  !["torn"] = @ \cup (Range(stored) \ Range(stored')),
                  !["power"] = @ \cup (InRam \ (forwarded \cup Range(stored) \cup {0}))]
    /\ connected' = FALSE /\ live' = <<>> /\ urgent' = <<>>
    /\ doing' = [t \in Tasks |-> Idle] /\ sending' = Nothing
    /\ UNCHANGED <<origin, forwarded>>

-----------------------------------------------------------------------------
Deliver(t) ==
    \/ Look(t) \/ AppendStored(t) \/ AppendRefused(t)
    \/ OfferLive(t) \/ OfferUrgent(t) \/ OfferNobody(t)

Next ==
    \/ \E t \in Tasks : Make(t) \/ Deliver(t)
    \/ Connect \/ Disconnect
    \/ Take \/ PublishOk \/ PublishFails
    \/ PowerLoss

Spec == Init /\ [][Next]_vars

\* The scheduler runs every task to the end of what it has begun (WF); a
\* network that is asked again and again gives a session, a session is not
\* always lost before the queues are looked at, and a publish that is tried
\* again and again succeeds (SF).
Fairness ==
    /\ \A t \in Tasks : WF_vars(Deliver(t))
    /\ SF_vars(Connect) /\ SF_vars(Take) /\ SF_vars(PublishOk)
    /\ WF_vars(PublishOk \/ PublishFails)

FairSpec == Spec /\ Fairness

-----------------------------------------------------------------------------
(* Properties.                                                             *)

\* The type invariant.
TypeOK ==
    /\ connected \in BOOLEAN
    /\ live \in Seq(Ids) /\ Len(live) <= LiveDepth
    /\ urgent \in Seq(Ids) /\ Len(urgent) <= UrgentDepth
    /\ stored \in Seq(Ids) /\ Len(stored) <= Capacity
    /\ doing \in [Tasks -> [at : {"idle", "look", "append", "offer", "fallback"},
                            rec : 0..Len(origin), stores : BOOLEAN]]
    /\ sending \in [rec : 0..Len(origin), from : {"none", "urgent", "live", "flash"}]
    /\ forwarded \subseteq Ids
    /\ lost \in [Ways -> SUBSET Ids]

\* No record just disappears: it is somewhere, or the broker has it, or it
\* was lost in one of the known ways.
Accounted == Ids \subseteq Held \cup forwarded \cup Lost

\* The race between emitEvent's two looks at the connection only ever costs
\* plain events of other tasks: telemetry, the events stored first and the
\* network task's own events are safe from it.
OnlyPlainEventsRace ==
    \A r \in lost["raced"] : origin[r].kind = "event" /\ origin[r].task # "network"

\* The ways to lose a record are known, and the race at emitEvent is a narrow one
\* (enqueueLive, emitEvent, networkTask).
NothingDisappears == Accounted /\ OnlyPlainEventsRace

\* Whoever has returned from emitEvent with a write-ahead event need not fear
\* the power loss it announces: power takes such an event out of RAM only
\* while it is being stored, or after the flash refused it or gave it up.
WriteAheadKept ==
    [][\A r \in lost'["power"] \ lost["power"] :
          origin[r].kind = "writeAhead" =>
             \/ \E t \in Tasks : doing[t].rec = r /\ doing[t].at \in {"look", "append"}
             \/ r \in UNION {lost[w] : w \in Ways \ {"power", "raced"}}]_vars

\* Every record that is held anywhere is in the end with the broker or lost
\* in a known way: nothing is stuck behind newer records or behind a replay.
Settles == \A r \in 1..MaxRecords : r \in Held ~> r \in forwarded \cup Lost
=============================================================================
