---------------------------- MODULE StoreForward ----------------------------
(***************************************************************************)
(* What the store-and-forward queue promises its callers, whatever lies    *)
(* behind it: records wait in the order they were accepted, the oldest is  *)
(* delivered first, and a record leaves undelivered only when space has to *)
(* be reclaimed.  FlashQueue implements it.                                *)
(***************************************************************************)
EXTENDS Integers, FiniteSets

CONSTANTS
    Capacity,      \* records that fit
    ReclaimUnit,   \* records that may go together when space is reclaimed
    MaxRecords     \* bound: record ids

VARIABLES
    waiting,    \* ids of the accepted records not yet delivered
    delivered,  \* ids of the delivered records
    newest      \* the highest id offered so far

vars == <<waiting, delivered, newest>>

Init == waiting = {} /\ delivered = {} /\ newest = 0

\* A new record is accepted behind all others.
Accept ==
    /\ newest' \in (newest + 1)..MaxRecords
    /\ waiting' = waiting \cup {newest'}
    /\ UNCHANGED delivered

\* A record was offered but not stored.
Refuse ==
    /\ newest' \in (newest + 1)..MaxRecords
    /\ UNCHANGED <<waiting, delivered>>

\* The records of S are older than every other waiting record.
AreOldest(S) == \A r \in S, q \in waiting \ S : r < q

\* The oldest record is delivered.
Deliver ==
    \E r \in waiting :
        /\ AreOldest({r})
        /\ waiting' = waiting \ {r}
        /\ delivered' = delivered \cup {r}
        /\ UNCHANGED newest

\* At most ReclaimUnit records are given up at once.
Discard(S) ==
    /\ S # {} /\ Cardinality(S) <= ReclaimUnit
    /\ waiting' = waiting \ S
    /\ UNCHANGED delivered

\* The queue is full and gives up its oldest records.
Reclaim ==
    /\ Cardinality(waiting) > Capacity - ReclaimUnit
    /\ \E S \in SUBSET waiting : AreOldest(S) /\ Discard(S)
    /\ UNCHANGED newest

\* What a power loss may add: any few records are lost, perhaps with the one
\* being offered.
Lose ==
    /\ \E S \in SUBSET waiting : Discard(S)
    /\ newest' \in newest..MaxRecords

Next == Accept \/ Refuse \/ Deliver \/ Reclaim

\* The promise while power holds.
Spec == Init /\ [][Next]_vars
=============================================================================
