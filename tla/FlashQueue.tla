----------------------------- MODULE FlashQueue -----------------------------
(***************************************************************************)
(* The persistent telemetry queue of the meter (src/storage.cpp): a ring   *)
(* of one-page record slots on a SPI NOR flash, its RAM bookkeeping        *)
(* (QueueState), and the operations that run under flashMutex.             *)
(*                                                                         *)
(* A flash page can only be programmed once after its sector was erased;   *)
(* an append programs the body of a record and then its commit byte, a pop *)
(* clears one bit of the commit byte.  Power can fail between any two      *)
(* flash commands, which is why an append is a sequence of steps here      *)
(* (pc) and everything that touches the flash once is a single step.  The  *)
(* mutex is held while pc # "idle", so no other operation starts then.     *)
(***************************************************************************)
EXTENDS Integers, FiniteSets

CONSTANTS
    SlotCount,           \* slots in the ring (32736 on the device)
    SectorSlots,         \* slots in an erase sector (16 on the device)
    CheckpointInterval,  \* appends and pops between checkpoints (64)
    PriorRecords,        \* delivered records an earlier life left on flash
    MaxRecords,          \* bound: appends explored
    MaxCrashes           \* bound: power losses explored

ASSUME GeometryAssumption ==
    /\ SlotCount \in Nat /\ SectorSlots \in Nat \ {0}
    /\ SlotCount % SectorSlots = 0
    /\ SlotCount >= 2 * SectorSlots

ASSUME PriorAssumption == PriorRecords \in 0..SlotCount

ASSUME BoundAssumption ==
    /\ CheckpointInterval \in Nat \ {0}
    /\ MaxRecords \in Nat /\ MaxCrashes \in Nat

Slots == 0..(SlotCount - 1)

VARIABLES
    flash,           \* the pages of the ring: state of the page, order and id of its record
    saved,           \* the dropped counter in the newest header on flash
    ready, head, tail, count, dropped, nextOrder, sinceCheckpoint,  \* QueueState
    pc,              \* the flash command the holder of the mutex issues next
    arrivals,        \* storage_append calls so far; the newest is the record being appended
    erased,          \* history: pending records destroyed by reclaiming a sector
    popped,          \* history: ids of the records marked delivered
    crashes          \* power losses so far

ram  == <<ready, head, tail, count, dropped, nextOrder, sinceCheckpoint>>
vars == <<flash, saved, ram, pc, arrivals, erased, popped, crashes>>

-----------------------------------------------------------------------------
(* The ring.                                                               *)

Succ_NoWrap(s) == s + 1

\* The slot after s.
Succ(s) == IF s + 1 = SlotCount THEN 0 ELSE s + 1

\* How many slots after h the slot s comes, going round the ring.
Offset(h, s) == IF s >= h THEN s - h ELSE s - h + SlotCount

SectorStarts == {s \in Slots : s % SectorSlots = 0}

\* The slots erased together with s: no sector starts between them.
SectorOf(s) == {t \in Slots : \A b \in SectorStarts : b <= t <=> b <= s}

PageStates == {"blank", "body", "garbage", "pending", "delivered"}

Blank == [st |-> "blank", order |-> 0, rec |-> 0]
Garbage == [st |-> "garbage", order |-> 0, rec |-> 0]

\* What recordValid accepts, and the valid records still to be delivered.
ValidIn(f)   == {s \in Slots : f[s].st \in {"pending", "delivered"}}
PendingIn(f) == {s \in Slots : f[s].st = "pending"}

Valid   == ValidIn(flash)
Pending == PendingIn(flash)

Oldest_FirstSlot(f) == CHOOSE s \in PendingIn(f) : \A t \in PendingIn(f) : s <= t

\* The slots the scan of rebuildFromFlash settles on.  Orders are distinct
\* (OrdersDistinct), so how the scan breaks ties makes no difference.
Newest(f) == CHOOSE s \in ValidIn(f) : \A t \in ValidIn(f) : f[t].order <= f[s].order
Oldest(f) == CHOOSE s \in PendingIn(f) : \A t \in PendingIn(f) : f[s].order <= f[t].order

\* The bookkeeping rebuildFromFlash derives from a scan of the pages f.
\* With no valid record maxSlot stays 0, so the tail is 1 and the head 0.
HeadOf(f) == IF ValidIn(f) = {} THEN 0 ELSE Succ(Newest(f))
TailOf(f) == IF PendingIn(f) # {} THEN Oldest(f)
             ELSE IF ValidIn(f) = {} THEN Succ(0) ELSE HeadOf(f)

NextOrderOf_Pending(f) ==
    IF PendingIn(f) = {} THEN 1
    ELSE 1 + f[CHOOSE s \in PendingIn(f) : \A t \in PendingIn(f) : f[t].order <= f[s].order].order

NextOrderOf(f) == IF ValidIn(f) = {} THEN 1 ELSE f[Newest(f)].order + 1

RebuildFrom_KeepCount(f) ==
    /\ count' = count
    /\ head' = HeadOf(f)
    /\ tail' = TailOf(f)
    /\ nextOrder' = NextOrderOf(f)

RebuildFrom(f) ==
    /\ count' = Cardinality(PendingIn(f))
    /\ head' = HeadOf(f)
    /\ tail' = TailOf(f)
    /\ nextOrder' = NextOrderOf(f)

\* Where advanceTailLocked stops: the first pending slot after s.
NextPending(f, s) ==
    CHOOSE t \in PendingIn(f) :
        \A u \in PendingIn(f) : Offset(Succ(s), t) <= Offset(Succ(s), u)

-----------------------------------------------------------------------------
(* A device that delivered PriorRecords records before, powering on.       *)

Init ==
    /\ flash = [s \in Slots |->
                   IF s < PriorRecords
                   THEN [st |-> "delivered", order |-> s + 1, rec |-> 0]
                   ELSE Blank]
    /\ saved = 0
    /\ ready = FALSE
    /\ head = 0 /\ tail = 0 /\ count = 0 /\ dropped = 0
    /\ nextOrder = 1 /\ sinceCheckpoint = 0
    /\ pc = "idle"
    /\ arrivals = 0 /\ erased = 0 /\ popped = {} /\ crashes = 0

\* storage_init: the newest header restores the drop counter, the scan of
\* the slots everything else.
StorageInit ==
    /\ ~ready
    /\ ready' = TRUE
    /\ dropped' = saved
    /\ RebuildFrom(flash)
    /\ UNCHANGED <<flash, saved, sinceCheckpoint, pc, arrivals, erased, popped, crashes>>

-----------------------------------------------------------------------------
(* storage_append.                                                         *)

StartAppend ==
    /\ ready /\ pc = "idle" /\ arrivals < MaxRecords
    /\ arrivals' = arrivals + 1

AppendToBlankPage_Unchecked ==
    /\ StartAppend
    /\ pc' = "body"
    /\ UNCHANGED <<flash, saved, ram, erased, popped, crashes>>

\* ensureWritableSlotLocked finds the head page erased.
AppendToBlankPage ==
    /\ StartAppend
    /\ flash[head].st = "blank"
    /\ pc' = "body"
    /\ UNCHANGED <<flash, saved, ram, erased, popped, crashes>>

AppendToUsedPage_CountsSectors ==
    /\ StartAppend
    /\ flash[head].st # "blank"
    /\ LET lost == Cardinality(Pending \cap SectorOf(head)) IN
        /\ count' = IF count < lost THEN 0 ELSE count - lost
        /\ dropped' = dropped + 1
    /\ pc' = "erase"
    /\ UNCHANGED <<flash, saved, ready, head, tail, nextOrder, sinceCheckpoint, erased, popped, crashes>>

\* ensureWritableSlotLocked finds the head page programmed: it counts the
\* pending records of the whole sector as dropped, then erases the sector.
AppendToUsedPage ==
    /\ StartAppend
    /\ flash[head].st # "blank"
    /\ LET lost == Cardinality(Pending \cap SectorOf(head)) IN
        /\ count' = IF count < lost THEN 0 ELSE count - lost
        /\ dropped' = dropped + lost
    /\ pc' = "erase"
    /\ UNCHANGED <<flash, saved, ready, head, tail, nextOrder, sinceCheckpoint, erased, popped, crashes>>

EraseSector ==
    /\ pc = "erase"
    /\ flash' = [s \in Slots |-> IF s \in SectorOf(head) THEN Blank ELSE flash[s]]
    /\ RebuildFrom(flash')
    /\ erased' = erased + Cardinality(Pending \cap SectorOf(head))
    /\ pc' = "body"
    /\ UNCHANGED <<saved, ready, dropped, sinceCheckpoint, arrivals, popped, crashes>>

\* Programming clears bits only: over anything but an erased page it leaves
\* a page whose checksum is wrong.
ProgramBody ==
    /\ pc = "body"
    /\ nextOrder' = nextOrder + 1
    /\ flash' = [flash EXCEPT ![head] =
                    IF flash[head].st = "blank"
                    THEN [st |-> "body", order |-> nextOrder, rec |-> arrivals]
                    ELSE Garbage]
    /\ pc' = "commit"
    /\ UNCHANGED <<saved, ready, head, tail, count, dropped, sinceCheckpoint,
                   arrivals, erased, popped, crashes>>

\* The commit byte makes the record valid; the caller may ask for a
\* checkpoint (forceCheckpoint), and every CheckpointInterval-th gets one.
ProgramCommit ==
    /\ pc = "commit"
    /\ flash' = [flash EXCEPT ![head].st = IF @ = "body" THEN "pending" ELSE @]
    /\ head' = Succ(head)
    /\ count' = count + 1
    /\ sinceCheckpoint' = sinceCheckpoint + 1
    /\ \E forceCheckpoint \in BOOLEAN :
         pc' = IF forceCheckpoint \/ sinceCheckpoint' >= CheckpointInterval
               THEN "checkpoint" ELSE "idle"
    /\ UNCHANGED <<saved, ready, tail, dropped, nextOrder, arrivals, erased, popped, crashes>>

\* checkpointLocked: a new header entry carries the drop counter to flash.
\* HeaderJournal shows that this is atomic.
Checkpoint ==
    /\ pc = "checkpoint"
    /\ saved' = dropped
    /\ sinceCheckpoint' = 0
    /\ pc' = "idle"
    /\ UNCHANGED <<flash, ready, head, tail, count, dropped, nextOrder,
                   arrivals, erased, popped, crashes>>

-----------------------------------------------------------------------------
(* storage_pop, storage_peek and storage_flush.                            *)

TailPending == flash[tail].st = "pending"

Pop_KeepTail ==
    /\ ready /\ pc = "idle"
    /\ TailPending
    /\ flash' = [flash EXCEPT ![tail].st = "delivered"]
    /\ count' = count - 1
    /\ tail' = IF PendingIn(flash') = {} THEN tail ELSE NextPending(flash', tail)
    /\ sinceCheckpoint' = sinceCheckpoint + 1
    /\ pc' = IF sinceCheckpoint' >= CheckpointInterval THEN "checkpoint" ELSE "idle"
    /\ popped' = popped \cup {flash[tail].rec}
    /\ UNCHANGED <<saved, ready, head, dropped, nextOrder, arrivals, erased, crashes>>

\* storage_pop under the mutex.  The unlocked test of count before it is a
\* step of the caller: see Replay.
Pop ==
    /\ ready /\ pc = "idle"
    /\ TailPending
    /\ flash' = [flash EXCEPT ![tail].st = "delivered"]
    /\ count' = count - 1
    /\ tail' = IF count' = 0 THEN head
               ELSE IF PendingIn(flash') = {} THEN head
               ELSE NextPending(flash', tail)
    /\ sinceCheckpoint' = sinceCheckpoint + 1
    /\ pc' = IF sinceCheckpoint' >= CheckpointInterval THEN "checkpoint" ELSE "idle"
    /\ popped' = popped \cup {flash[tail].rec}
    /\ UNCHANGED <<saved, ready, head, dropped, nextOrder, arrivals, erased, crashes>>

\* storage_peek under the mutex finds no pending record at the tail and scans
\* the flash.  (When it finds one it only reads.)
PeekRebuilds ==
    /\ ready /\ pc = "idle"
    /\ ~TailPending
    /\ RebuildFrom(flash)
    /\ UNCHANGED <<flash, saved, ready, dropped, sinceCheckpoint, pc, arrivals, erased, popped, crashes>>

Flush ==
    /\ ready /\ pc = "idle"
    /\ pc' = "checkpoint"
    /\ UNCHANGED <<flash, saved, ram, arrivals, erased, popped, crashes>>

-----------------------------------------------------------------------------
(* Power loss: the RAM is gone and the flash command under way may have    *)
(* done any part of its work.                                              *)

\* What an interrupted erase may leave of a page.
LeftOf(page, outcome) ==
    CASE outcome = "kept" -> page [] outcome = "blank" -> Blank [] OTHER -> Garbage

\* What an interrupted flash command may leave of the pages.
Interrupted ==
    CASE pc = "erase" ->
            {[s \in Slots |-> IF s \in SectorOf(head) THEN LeftOf(flash[s], left[s]) ELSE flash[s]] :
                 left \in [SectorOf(head) -> {"kept", "blank", "garbage"}]}
      [] pc = "body" -> {flash, [flash EXCEPT ![head] = Garbage]}
      [] OTHER -> {flash}

PowerLoss ==
    /\ crashes < MaxCrashes
    /\ crashes' = crashes + 1
    /\ flash' \in Interrupted
    /\ erased' = erased + Cardinality(Pending \ PendingIn(flash'))
    /\ ready' = FALSE
    /\ head' = 0 /\ tail' = 0 /\ count' = 0 /\ dropped' = 0
    /\ nextOrder' = 1 /\ sinceCheckpoint' = 0
    /\ pc' = "idle"
    /\ UNCHANGED <<saved, arrivals, popped>>

Next ==
    \/ StorageInit
    \/ AppendToBlankPage \/ AppendToUsedPage
    \/ EraseSector \/ ProgramBody \/ ProgramCommit \/ Checkpoint
    \/ Pop \/ PeekRebuilds \/ Flush
    \/ PowerLoss

Spec == Init /\ [][Next]_vars

-----------------------------------------------------------------------------
(* Properties.                                                             *)

Page == [st : PageStates, order : Nat, rec : 0..MaxRecords]

\* The type invariant.
TypeOK ==
    /\ flash \in [Slots -> Page]
    /\ saved \in Nat /\ erased \in Nat
    /\ ready \in BOOLEAN
    /\ head \in Slots /\ tail \in Slots
    /\ count \in Nat /\ dropped \in Nat
    /\ nextOrder \in Nat \ {0} /\ sinceCheckpoint \in Nat
    /\ pc \in {"idle", "erase", "body", "commit", "checkpoint"}
    /\ popped \subseteq 0..MaxRecords
    /\ arrivals \in 0..MaxRecords /\ crashes \in 0..MaxCrashes

\* state.count, kept by increments and decrements across append, pop and
\* reclaim, is the number of pending records a scan of the flash would find.
\* (Only while a sector is being reclaimed does it run ahead.)
CountMatches == ready /\ pc # "erase" => count = Cardinality(Pending)

\* A record body is programmed into an erased page only: after a reclaim
\* the rebuilt head points into the sector just erased, even when power
\* losses left torn pages behind.
HeadIsBlank == pc = "body" => flash[head].st = "blank"

\* Going round the ring from the head, valid records get newer and newer:
\* the physical order of the slots is the order of acceptance.
SortedFrom(f, h) ==
    \A s, t \in ValidIn(f) : Offset(h, s) < Offset(h, t) => f[s].order < f[t].order

RingSorted == ready => SortedFrom(flash, head)

\* The tail bookkeeping is right without any scan: whenever something is
\* pending the tail is the oldest pending record, so peek returns it and
\* pop marks it.  It needs a ring whose first sector was filled before.
TailIsOldest ==
    ready /\ Pending # {} => TailPending /\ \A s \in Pending : flash[tail].order <= flash[s].order

\* What was delivered is older than anything still waiting: the records left
\* the queue in the order they entered it.
DeliveredInOrder ==
    \A s \in Valid \ Pending, t \in Pending : flash[s].order < flash[t].order

\* Without any scan the queue gives its records out oldest first (storage_peek,
\* storage_pop, advanceTailLocked).
OldestFirst == TailIsOldest /\ DeliveredInOrder

\* A reclaim destroys pending records only if every slot outside the sector
\* holds a pending record (the queue is full).  Power losses may leave a page
\* programmed behind the start of the head's sector, and gaps in a sector
\* whose erase they interrupted; but a full sector is never given up while
\* another holds delivered records.
ReclaimJustified ==
    pc = "erase" /\ Pending \cap SectorOf(head) # {} =>
        \/ Slots \ SectorOf(head) \subseteq Pending
        \/ /\ crashes > 0
           /\ head \notin SectorStarts \/ Valid \ SectorOf(head) \subseteq Pending

\* The drop counter never claims more losses than happened, and misses none
\* while power holds: between reclaims it is exactly what was destroyed.
DropsCounted ==
    pc # "erase" => /\ saved <= erased /\ dropped <= erased
                    /\ ready /\ crashes = 0 => dropped = erased

\* Records are given up only where the code must, and each one given up is counted
\* (ensureWritableSlotLocked).
DropsJustified == ReclaimJustified /\ DropsCounted

\* The ids of the records waiting on flash, and the highest id offered that
\* is no longer being stored.
WaitingRecords == {flash[s].rec : s \in Pending}
AppendInProgress == pc \in {"erase", "body", "commit"}
NewestOffered == IF AppendInProgress THEN arrivals - 1 ELSE arrivals

Counter == INSTANCE DropCounter

Promise == INSTANCE StoreForward
    WITH Capacity <- SlotCount, ReclaimUnit <- SectorSlots,
         waiting <- WaitingRecords, delivered <- popped, newest <- NewestOffered

\* Until the first power loss the ring implements the promise of StoreForward:
\* first in, first out, and only a full queue gives up records, its oldest
\* ones.  After one, delivery stays first in, first out, nothing stored comes
\* twice, and at most a sector of records is lost at once.
\* And it takes the drop counter back to the last checkpoint, no further.
KeepsPromise ==
    /\ Promise!Init
    /\ [][Promise!Next \/ (crashes' > 0 /\ Promise!Lose)]_<<WaitingRecords, popped, NewestOffered>>
    /\ Counter!Spec

-----------------------------------------------------------------------------
(* The inductive invariant behind the first properties (FlashQueueProofs). *)

\* The last slot before the sector of the head is valid: a reclaim leaves it
\* the newest record, and the head goes to the start of the erased sector.
SealedBefore(f, h) == \E t \in ValidIn(f) \ SectorOf(h) : Succ(t) \in SectorOf(h)

\* Until the first sector is full there is nothing outside it.
FirstLap(f, h) == 0 \in SectorOf(h) /\ \A s \in ValidIn(f) : s \in SectorOf(h) /\ s < h

RingShape(f) ==
    /\ SortedFrom(f, HeadOf(f))
    /\ SealedBefore(f, HeadOf(f)) \/ FirstLap(f, HeadOf(f))

\* The order the next record will get, or has got already.
FreshOrder == IF pc = "commit" THEN nextOrder - 1 ELSE nextOrder

OrdersBounded ==
    /\ \A s \in Valid : flash[s].order <= PriorRecords + NewestOffered
    /\ ready => /\ \A s \in Valid : flash[s].order < FreshOrder
                /\ FreshOrder <= PriorRecords + NewestOffered + 1

HeadPage ==
    /\ ready => head = HeadOf(flash)
    /\ HeadIsBlank
    /\ pc = "commit" => flash[head].st = "body" /\ flash[head].order = FreshOrder

\* All of it but the page of the head and the count, which a flash command
\* that times out can spoil (FlashFaults).
RingInv ==
    /\ TypeOK
    /\ pc # "idle" => ready
    /\ AppendInProgress => arrivals > 0
    /\ RingShape(flash)
    /\ OrdersBounded

IInv == RingInv /\ HeadPage /\ CountMatches
=============================================================================
