--------------------------- MODULE HeaderJournal ----------------------------
(***************************************************************************)
(* The header journal of src/storage.cpp: two flash sectors of header      *)
(* entries that carry the drop counter across a power loss.                *)
(*                                                                         *)
(* A checkpoint programs the first free entry of the active sector, body   *)
(* first and commit byte last, or, when that sector is full, erases the    *)
(* other one, makes it the active one and programs its first entry.  At    *)
(* boot the valid entry with the highest generation wins.  Power may fail  *)
(* in the middle of every flash command, and a command may time out.       *)
(***************************************************************************)
EXTENDS Integers, FiniteSets

CONSTANTS
    EntryCount,      \* entries of a sector (61 on the device)
    MaxCheckpoints,  \* bound: checkpoints begun
    MaxDrops,        \* bound: records dropped
    MaxCrashes,      \* bound: power losses
    MaxTimeouts      \* bound: flash commands that time out

\* What the constants must be.
JournalAssumption ==
    /\ EntryCount \in Nat \ {0}
    /\ MaxCheckpoints \in Nat /\ MaxDrops \in Nat
    /\ MaxCrashes \in Nat /\ MaxTimeouts \in Nat

Entries == 0..(EntryCount - 1)
Places == {0, 1} \X Entries

VARIABLES
    journal,                             \* the entries, by sector and place
    ready, generation, dropped, active,  \* QueueState (active: activeHeader)
    pc,                                  \* the flash command to issue next
    slot,                                \* the entry being programmed
    checkpoints, crashes, timeouts       \* counted against the bounds

queueState == <<ready, generation, dropped, active>>
bounds     == <<checkpoints, crashes, timeouts>>
vars       == <<journal, queueState, pc, slot, bounds>>

Free    == [st |-> "free", gen |-> 0, dropped |-> 0]
Garbage == [st |-> "garbage", gen |-> 0, dropped |-> 0]

-----------------------------------------------------------------------------

ValidEntries == {p \in Places : journal[p].st = "valid"}

\* findHeader.
NewestEntry == CHOOSE p \in ValidEntries : \A q \in ValidEntries : journal[q].gen <= journal[p].gen

Other_Same(sector) == sector

\* The sector that is not in use.
Other(sector) == 1 - sector

\* The entries of a sector whose marker is still erased.
FreeIn(sector) == {e \in Entries : journal[<<sector, e>>].st = "free"}

Init ==
    /\ journal = [p \in Places |-> Free]
    /\ ready = FALSE /\ generation = 0 /\ dropped = 0 /\ active = 0
    /\ pc = "idle" /\ slot = 0
    /\ checkpoints = 0 /\ crashes = 0 /\ timeouts = 0

\* storage_init takes counter, generation and sector from the newest entry.
StorageInit ==
    /\ ~ready /\ ready' = TRUE
    /\ IF ValidEntries = {} THEN UNCHANGED <<generation, dropped, active>>
       ELSE /\ generation' = journal[NewestEntry].gen
            /\ dropped' = journal[NewestEntry].dropped
            /\ active' = NewestEntry[1]
    /\ UNCHANGED <<journal, pc, slot, bounds>>

\* ensureWritableSlotLocked counts a reclaimed record.
Drop ==
    /\ ready /\ pc = "idle" /\ dropped < MaxDrops
    /\ dropped' = dropped + 1
    /\ UNCHANGED <<journal, ready, generation, active, pc, slot, bounds>>

\* checkpointLocked up to its first flash command: the search for an entry.
StartCheckpoint ==
    /\ ready /\ pc = "idle" /\ checkpoints < MaxCheckpoints
    /\ checkpoints' = checkpoints + 1
    /\ generation' = generation + 1
    /\ IF FreeIn(active) = {} THEN slot' = 0 /\ pc' = "erase"
       ELSE /\ slot' = CHOOSE e \in FreeIn(active) : \A o \in FreeIn(active) : e <= o
            /\ pc' = "body"
    /\ UNCHANGED <<journal, ready, dropped, active, crashes, timeouts>>

EraseOther ==
    /\ pc = "erase"
    /\ journal' = [p \in Places |-> IF p[1] = Other(active) THEN Free ELSE journal[p]]
    /\ active' = Other(active)
    /\ pc' = "body"
    /\ UNCHANGED <<ready, generation, dropped, slot, bounds>>

\* The page with the entry's body: generation and counter, not yet valid.
WithBody == [journal EXCEPT ![<<active, slot>>] =
                 IF @ = Free THEN [st |-> "body", gen |-> generation, dropped |-> dropped]
                 ELSE Garbage]

\* The page once the commit byte is programmed over a body.
WithCommit == [journal EXCEPT ![<<active, slot>>].st = IF @ = "body" THEN "valid" ELSE @]

ProgramBody ==
    /\ pc = "body"
    /\ journal' = WithBody
    /\ pc' = "commit"
    /\ UNCHANGED <<queueState, slot, bounds>>

ProgramCommit ==
    /\ pc = "commit"
    /\ journal' = WithCommit
    /\ pc' = "idle"
    /\ UNCHANGED <<queueState, slot, bounds>>

-----------------------------------------------------------------------------
(* Commands cut short, by a power loss or by waitReady giving up.          *)

\* What an erase that is cut short may leave of an entry.
LeftOf(entry, outcome) ==
    CASE outcome = "kept" -> entry [] outcome = "free" -> Free [] OTHER -> Garbage

\* What a command may have done when it is cut short.
CutShort ==
    CASE pc = "erase" ->
            {[p \in Places |-> IF p[1] = Other(active) THEN LeftOf(journal[p], left[p[2]]) ELSE journal[p]] :
                left \in [Entries -> {"kept", "free", "garbage"}]}
      [] pc = "body" -> {journal, [journal EXCEPT ![<<active, slot>>] = Garbage], WithBody}
      [] pc = "commit" -> {journal, WithCommit}
      [] OTHER -> {journal}

PowerLoss ==
    /\ crashes < MaxCrashes
    /\ crashes' = crashes + 1
    /\ journal' \in CutShort
    /\ ready' = FALSE /\ generation' = 0 /\ dropped' = 0 /\ active' = 0
    /\ pc' = "idle" /\ slot' = 0
    /\ UNCHANGED <<checkpoints, timeouts>>

\* checkpointLocked returns false and leaves QueueState as it is.
TimesOut ==
    /\ pc # "idle" /\ timeouts < MaxTimeouts
    /\ timeouts' = timeouts + 1
    /\ journal' \in CutShort
    /\ pc' = "idle"
    /\ UNCHANGED <<queueState, slot, checkpoints, crashes>>

Next ==
    \/ StorageInit \/ Drop
    \/ StartCheckpoint \/ EraseOther \/ ProgramBody \/ ProgramCommit
    \/ PowerLoss \/ TimesOut

Spec == Init /\ [][Next]_vars

-----------------------------------------------------------------------------
(* Properties.                                                             *)

\* The type invariant.
TypeOK ==
    /\ journal \in [Places -> [st : {"free", "body", "garbage", "valid"},
                               gen : 0..MaxCheckpoints, dropped : 0..MaxDrops]]
    /\ ready \in BOOLEAN /\ generation \in 0..MaxCheckpoints
    /\ dropped \in 0..MaxDrops /\ active \in {0, 1}
    /\ pc \in {"idle", "erase", "body", "commit"} /\ slot \in Entries
    /\ checkpoints \in 0..MaxCheckpoints
    /\ crashes \in 0..MaxCrashes /\ timeouts \in 0..MaxTimeouts

\* The counter a boot would restore now.
Saved == IF ValidEntries = {} THEN 0 ELSE journal[NewestEntry].dropped

Counter == INSTANCE DropCounter WITH saved <- Saved

\* A checkpoint is atomic: whatever is cut short, a boot restores the drop
\* counter of the last checkpoint, complete or not at all.
KeepsCounter == Counter!Spec

\* The header that would be restored is never in the sector being erased,
\* unless commands have timed out once for every entry of a sector: then the
\* active sector may be full of entries that were never committed.
NewestIsSafe ==
    pc = "erase" /\ ValidEntries # {} /\ NewestEntry[1] # active => timeouts >= EntryCount

\* No two valid entries share a generation, so that the choice of findHeader
\* is not a matter of the order it scans in; and the RAM is never behind.
GenerationsAreUnique ==
    /\ \A p, q \in ValidEntries : journal[p].gen = journal[q].gen => p = q
    /\ ready => \A p \in ValidEntries : journal[p].gen <= generation
=============================================================================
