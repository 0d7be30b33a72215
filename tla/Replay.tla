------------------------------- MODULE Replay -------------------------------
(***************************************************************************)
(* The store-and-forward path: the network task (src/main.cpp, networkTask)*)
(* empties the flash queue over MQTT while the metering and power tasks go *)
(* on appending to it.                                                     *)
(*                                                                         *)
(* The network task looks at the tail (storage_peek), publishes the copy   *)
(* it got, and marks the tail delivered (storage_pop).  flashMutex is      *)
(* released in between, and storage_has_pending and the first test of peek *)
(* and pop read the count without it.                                      *)
(***************************************************************************)
EXTENDS FlashQueue

VARIABLES
    at,            \* where the network task is
    held,          \* the record peek returned (0: none)
    replayActive,  \* REPLAY_STARTED was reported, REPLAY_COMPLETED not yet
    forwarded,     \* history: records the broker has accepted
    reclaimed      \* history: a sector was reclaimed since the peek

task  == <<at, held, replayActive, forwarded, reclaimed>>
rvars == <<vars, task>>

ReplayTypeOK ==
    /\ TypeOK
    /\ at \in {"poll", "peek", "publish", "pop"}
    /\ held \in 0..MaxRecords
    /\ replayActive \in BOOLEAN /\ reclaimed \in BOOLEAN
    /\ forwarded \subseteq 0..MaxRecords

ReplayInit ==
    /\ Init
    /\ at = "poll" /\ held = 0
    /\ replayActive = FALSE /\ forwarded = {} /\ reclaimed = FALSE

\* The network task goes to point a, with record r in hand.
GoTo(a, r) == at' = a /\ held' = r

-----------------------------------------------------------------------------
(* The other tasks: appends, power loss and restart.                       *)

ReplayErase ==
    /\ EraseSector
    /\ reclaimed' = TRUE
    /\ UNCHANGED <<at, held, replayActive, forwarded>>

\* The holder of the mutex goes on with its flash command.
ReplayFlashStep ==
    \/ ReplayErase
    \/ (ProgramBody \/ ProgramCommit \/ Checkpoint) /\ UNCHANGED task

ReplayAppend == (AppendToBlankPage \/ AppendToUsedPage \/ Flush) /\ UNCHANGED task

ReplayBoot == StorageInit /\ UNCHANGED task

ReplayPowerLoss ==
    /\ PowerLoss
    /\ GoTo("poll", 0)
    /\ replayActive' = FALSE
    /\ UNCHANGED <<forwarded, reclaimed>>

-----------------------------------------------------------------------------
(* The network task, with nothing in its live queues.                      *)

HasPending == ready /\ count > 0

\* storage_has_pending says yes; the first time REPLAY_STARTED is reported.
StartReplay ==
    /\ at = "poll" /\ HasPending
    /\ replayActive' = TRUE
    /\ GoTo("peek", 0)
    /\ UNCHANGED <<vars, forwarded, reclaimed>>

FinishReplay ==
    /\ at = "poll" /\ ready /\ ~HasPending /\ replayActive
    /\ replayActive' = FALSE
    /\ UNCHANGED <<vars, at, held, forwarded, reclaimed>>

\* The unlocked test of the count in storage_peek fails.
PeekRefused ==
    /\ at = "peek" /\ count = 0
    /\ GoTo("poll", 0)
    /\ UNCHANGED <<vars, replayActive, forwarded, reclaimed>>

PeekTail ==
    /\ at = "peek" /\ pc = "idle" /\ TailPending
    /\ GoTo("publish", flash[tail].rec)
    /\ reclaimed' = FALSE
    /\ UNCHANGED <<vars, replayActive, forwarded>>

PeekAfterRebuild ==
    /\ at = "peek" /\ PeekRebuilds
    /\ IF count' > 0 THEN GoTo("publish", flash[tail'].rec) ELSE GoTo("poll", 0)
    /\ reclaimed' = FALSE
    /\ UNCHANGED <<replayActive, forwarded>>

PublishOk ==
    /\ at = "publish"
    /\ forwarded' = forwarded \cup {held}
    /\ GoTo("pop", held)
    /\ UNCHANGED <<vars, replayActive, reclaimed>>

\* The publish fails, or its acknowledgement is lost after the broker has
\* accepted the record: the record stays queued either way.
PublishFails ==
    /\ at = "publish"
    /\ forwarded' \in {forwarded, forwarded \cup {held}}
    /\ GoTo("poll", 0)
    /\ UNCHANGED <<vars, replayActive, reclaimed>>

\* The unlocked test of the count in storage_pop fails, or under the mutex
\* the tail holds no pending record.
PopRefused ==
    /\ at = "pop"
    /\ count = 0 \/ (pc = "idle" /\ ~TailPending)
    /\ GoTo("poll", 0)
    /\ UNCHANGED <<vars, replayActive, forwarded, reclaimed>>

PopTail_WithoutPublish ==
    /\ at \in {"publish", "pop"} /\ Pop
    /\ GoTo("poll", 0)
    /\ UNCHANGED <<replayActive, forwarded, reclaimed>>

\* storage_pop marks whatever record the tail is at by now.
PopTail ==
    /\ at = "pop" /\ Pop
    /\ GoTo("poll", 0)
    /\ UNCHANGED <<replayActive, forwarded, reclaimed>>

NetworkStep ==
    \/ StartReplay \/ FinishReplay
    \/ PeekRefused \/ PeekTail \/ PeekAfterRebuild
    \/ PublishOk \/ PublishFails
    \/ PopRefused \/ PopTail

ReplayNext == ReplayAppend \/ ReplayFlashStep \/ ReplayBoot \/ ReplayPowerLoss \/ NetworkStep

ReplaySpec == ReplayInit /\ [][ReplayNext]_rvars

\* The scheduler runs every task and a flash command ends (WF); a broker
\* that can be reached again and again accepts a publish in the end (SF).
\* No append has to happen, and no power loss.
ReplayFairness ==
    /\ WF_rvars(ReplayBoot)
    /\ WF_rvars(ReplayFlashStep)
    /\ WF_rvars(StartReplay \/ FinishReplay)
    /\ SF_rvars(PeekRefused \/ PeekTail \/ PeekAfterRebuild)
    /\ SF_rvars(PopRefused \/ PopTail)
    /\ SF_rvars(PublishOk)
    /\ WF_rvars(PublishOk \/ PublishFails)

FairReplaySpec == ReplaySpec /\ ReplayFairness

-----------------------------------------------------------------------------
(* Properties.                                                             *)

\* Forwarding is first in, first out end to end: a record not yet forwarded
\* is newer than every record the broker has accepted.  The exception is the
\* first record ever stored on a blank flash, behind which the tail starts.
ForwardedInOrder ==
    \A s \in Pending, r \in forwarded :
        flash[s].order > 1 /\ flash[s].rec \notin forwarded => r < flash[s].rec

\* Only records the broker has accepted are marked delivered, but for one
\* case: a sector was reclaimed between the peek and the pop, the tail moved
\* on, and storage_pop marks a record that was never published.
SkipsOnlyAfterReclaim ==
    [][\A s \in Pending \cap ValidIn(flash') :
           flash'[s].st = "delivered" => flash[s].rec \in forwarded \/ reclaimed]_rvars

\* Forwarding is first in, first out, and nothing but a reclaim lets it skip a record
\* (networkTask's replay against storage_append).
ForwardsFaithfully == []ForwardedInOrder /\ SkipsOnlyAfterReclaim

\* Every record waiting on the flash is in the end delivered or reclaimed.
RecordLeaves == \A r \in 1..MaxRecords : r \in WaitingRecords ~> r \notin WaitingRecords
=============================================================================
