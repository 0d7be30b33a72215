----------------------------- MODULE FlashFaults -----------------------------
(***************************************************************************)
(* The flash queue on a chip that does not always become ready in time.    *)
(* waitReady gives up after 3 s (5 s for an erase) and flashProgram or     *)
(* flashEraseSector returns false, although the chip may finish all, some  *)
(* or nothing of the command.  The operation then returns at once and      *)
(* leaves the RAM bookkeeping where it stood.                              *)
(***************************************************************************)
EXTENDS FlashQueue

CONSTANT MaxTimeouts   \* bound: commands that time out

ASSUME TimeoutAssumption == MaxTimeouts \in Nat

VARIABLES
    timeouts,   \* commands that timed out so far
    eraseLate   \* history: one of them was an erase

fvars == <<vars, timeouts, eraseLate>>

FaultInit == Init /\ timeouts = 0 /\ eraseLate = FALSE

\* A flash command times out and the operation that issued it returns.
TimesOut ==
    /\ timeouts < MaxTimeouts
    /\ timeouts' = timeouts + 1
    /\ eraseLate' = (eraseLate \/ pc = "erase")
    /\ pc' = "idle"
    /\ UNCHANGED <<saved, ready, head, tail, count, dropped, sinceCheckpoint, arrivals, crashes>>

\* ensureWritableSlotLocked returns before rebuildFromFlash.  The records it
\* counted as dropped may still be there, and are counted again next time.
EraseTimesOut ==
    /\ pc = "erase" /\ TimesOut
    /\ flash' \in Interrupted
    /\ erased' = erased + Cardinality(Pending \ PendingIn(flash'))
    /\ UNCHANGED <<nextOrder, popped>>

BodyTimesOut ==
    /\ pc = "body" /\ TimesOut
    /\ nextOrder' = nextOrder + 1
    /\ flash' \in Interrupted \cup
           {[flash EXCEPT ![head] = [st |-> "body", order |-> nextOrder, rec |-> arrivals]]}
    /\ UNCHANGED <<erased, popped>>

\* The commit byte may be written: the record is on flash, uncounted, at the
\* head, and its append has failed.
CommitTimesOut ==
    /\ pc = "commit" /\ TimesOut
    /\ flash' \in {flash, [flash EXCEPT ![head].st = IF @ = "body" THEN "pending" ELSE @]}
    /\ UNCHANGED <<erased, popped, nextOrder>>

PopTimesOut ==
    /\ ready /\ pc = "idle" /\ count > 0 /\ TailPending /\ TimesOut
    /\ \/ UNCHANGED <<flash, popped>>
       \/ /\ flash' = [flash EXCEPT ![tail].st = "delivered"]
          /\ popped' = popped \cup {flash[tail].rec}
    /\ UNCHANGED <<erased, nextOrder>>

\* The entry may be on flash, but the interval is not restarted.
CheckpointTimesOut ==
    /\ pc = "checkpoint"
    /\ timeouts < MaxTimeouts
    /\ timeouts' = timeouts + 1
    /\ pc' = "idle"
    /\ UNCHANGED eraseLate
    /\ saved' \in {saved, dropped}
    /\ UNCHANGED <<flash, ram, arrivals, erased, popped, crashes>>

\* storage_pop tests the count before it takes the mutex; what happens to
\* the count between the two is not looked at here.
TimelyPop == count > 0 /\ Pop

FaultNext ==
    \/ /\ \/ StorageInit
          \/ AppendToBlankPage \/ AppendToUsedPage
          \/ EraseSector \/ ProgramBody \/ ProgramCommit \/ Checkpoint
          \/ TimelyPop \/ PeekRebuilds \/ Flush
          \/ PowerLoss
       /\ UNCHANGED <<timeouts, eraseLate>>
    \/ EraseTimesOut \/ BodyTimesOut \/ CommitTimesOut \/ PopTimesOut \/ CheckpointTimesOut

FaultSpec == FaultInit /\ [][FaultNext]_fvars

-----------------------------------------------------------------------------
(* Properties.                                                             *)

FaultTypeOK == TypeOK /\ timeouts \in 0..MaxTimeouts /\ eraseLate \in BOOLEAN

\* Programs that time out never break the order of delivery: only an erase
\* does, which leaves the tail at a page that is erased after all and gets
\* the newest record next.
OrderUnlessEraseLate ==
    ~eraseLate => \A s \in Valid \ Pending, t \in Pending : flash[s].order < flash[t].order

\* Nor do they hide a record from the network task, except one whose append
\* reported failure and which still lies at the head.
HiddenOnlyAtHead ==
    ready /\ pc # "erase" /\ ~eraseLate => Cardinality(Pending \ {head}) <= count

\* What a flash command that times out can spoil is contained: order and visibility
\* survive all but an erase that ends late (waitReady, storage_append, storage_pop).
FaultsAreContained == OrderUnlessEraseLate /\ HiddenOnlyAtHead
=============================================================================
