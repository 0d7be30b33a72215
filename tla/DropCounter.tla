---------------------------- MODULE DropCounter -----------------------------
(***************************************************************************)
(* What a checkpoint promises: the number of dropped records survives a    *)
(* power loss as it stood at the last checkpoint, which either happened or *)
(* did not.  FlashQueue implements this with an atomic checkpoint, and     *)
(* HeaderJournal with the entries that make it atomic.                     *)
(***************************************************************************)
EXTENDS Integers

VARIABLES
    saved,     \* the counter as the last checkpoint left it
    dropped,   \* the counter in RAM
    ready      \* the storage is up

vars == <<saved, dropped, ready>>

Init == saved = 0 /\ dropped = 0 /\ ready = FALSE

Boot ==
    /\ ~ready /\ ready' = TRUE
    /\ dropped' = saved
    /\ UNCHANGED saved

Drop ==
    /\ ready /\ dropped' > dropped
    /\ UNCHANGED <<saved, ready>>

Save ==
    /\ ready /\ saved' = dropped
    /\ UNCHANGED <<dropped, ready>>

\* Power may fail just after the save took effect.
PowerLoss ==
    /\ ready' = FALSE /\ dropped' = 0
    /\ saved' = saved \/ (ready /\ saved' = dropped)

Next == Boot \/ Drop \/ Save \/ PowerLoss

Spec == Init /\ [][Next]_vars
=============================================================================
