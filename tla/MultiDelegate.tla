---------------------------- MODULE MultiDelegate ----------------------------
(***************************************************************************)
(* A list of delegates that is called as one (ghostl/src/MultiDelegate.h), *)
(* either a queue, whose nodes are recycled, or an event multiplexer.      *)
(* add and erase(it) run under a lock; the iterators do not.  A delegate   *)
(* is the number of its add.                                               *)
(*                                                                         *)
(* The iterator of a call is taken before the fence that keeps a second    *)
(* call out (371-384), and an erase may be anybody's.  Once a node is      *)
(* erased that another's iterator stands on, what follows is undefined     *)
(* ("clash") and no longer modelled.                                       *)
(***************************************************************************)
EXTENDS Integers, FiniteSets, SequencesExt

CONSTANTS Callers, Erasers,   \* threads that call the list, that erase from it
          Capacity,           \* QUEUE_CAPACITY
          MaxAdded            \* bound: delegates added

Null == 0

VARIABLES
    isQueue,              \* ISQUEUE, a template parameter
    node,                 \* the nodes on the heap: their mNext and mDelegate
    first, last, unused,
    fence,
    thread,               \* where each thread is, with its iterator
    added, live,          \* history: the number of adds; the delegates in the list
    clash, cleared

vars == <<isQueue, node, first, last, unused, fence, thread, added, live, clash, cleared>>

Idle == [at |-> "idle", current |-> Null, prev |-> Null, stop |-> Null, seen |-> 0, upto |-> 0, want |-> Null]
Users == Callers \cup Erasers

Init ==
    /\ isQueue \in BOOLEAN
    /\ node = <<>> /\ first = Null /\ last = Null /\ unused = Null
    /\ fence = FALSE
    /\ thread = [t \in Users |-> Idle]
    /\ added = 0 /\ live = <<>> /\ clash = FALSE /\ cleared = FALSE

Step(t, r) == thread' = [thread EXCEPT ![t] = r]
It(t) == thread[t]
Over == clash \/ cleared
At(t, a) == ~Over /\ thread[t].at = a
listRests == UNCHANGED <<node, first, last, unused, added, live>>
fixed == UNCHANGED <<isQueue, cleared>>

-----------------------------------------------------------------------------
\* get_node_unsafe, or new.
Fresh == CHOOSE n \in 1..(MaxAdded + 1) : n \notin DOMAIN node
NodesForAdd ==
    IF ~isQueue THEN {Fresh}
    ELSE IF unused # Null THEN {unused}
    ELSE IF Cardinality(DOMAIN node) < Capacity THEN {Fresh}
    ELSE {}

With(n, rest) == [m \in DOMAIN rest \cup {n} |-> IF m = n THEN [next |-> Null, del |-> added + 1] ELSE rest[m]]

\* A full queue refuses, which changes nothing.
Add ==
    /\ ~Over /\ added < MaxAdded /\ added' = added + 1
    /\ \E n \in NodesForAdd :
         /\ unused' = IF n = unused THEN node[n].next ELSE unused
         /\ node' = With(n, IF last = Null THEN node ELSE [node EXCEPT ![last].next = n])
         /\ first' = IF last = Null THEN n ELSE first
         /\ last' = n
    /\ live' = Append(live, added + 1)
    /\ UNCHANGED <<fence, thread, clash>> /\ fixed

\* recycle_node_unsafe, or delete.
Recycled(n, nodes) == IF isQueue THEN [nodes EXCEPT ![n] = [next |-> unused, del |-> 0]]
                      ELSE [m \in DOMAIN nodes \ {n} |-> nodes[m]]

StandsOn(t, n) == ~At(t, "idle") /\ n \in {It(t).current, It(t).prev, It(t).want}

LastAfter_Kept(n, prev) == last

LastAfter(n, prev) == IF last = n THEN prev ELSE last

\* erase(it), from within the lock.
Erased(t) ==
    LET n == It(t).current  after == node[n].next  prev == It(t).prev
    IN  /\ last' = LastAfter(n, prev)
        /\ first' = IF prev = Null THEN after ELSE first
        /\ node' = Recycled(n, IF prev = Null THEN node ELSE [node EXCEPT ![prev].next = after])
        /\ unused' = IF isQueue THEN n ELSE unused
        /\ live' = Remove(live, node[n].del)
        /\ clash' = \E o \in Users \ {t} : StandsOn(o, n)

-----------------------------------------------------------------------------
\* iterator(md): first, then last; an eraser looks for the delegate it was given.
BeginFirst(t) ==
    /\ At(t, "idle")
    /\ \E n \in IF t \in Erasers THEN {m \in DOMAIN node : node[m].del # 0} ELSE {Null} :
         Step(t, [Idle EXCEPT !.at = "begin", !.current = first, !.want = n])
    /\ listRests /\ UNCHANGED <<fence, clash>> /\ fixed

BeginLast(t) ==
    /\ At(t, "begin")
    /\ IF It(t).current = Null \/ last = Null THEN Step(t, Idle)
       ELSE Step(t, [It(t) EXCEPT !.at = IF t \in Callers THEN "fence" ELSE "seek", !.stop = last,
                                  !.upto = node[last].del])
    /\ listRests /\ UNCHANGED <<fence, clash>> /\ fixed

\* A call while there is one, recursive or not, returns at once.
Fence(t) ==
    /\ At(t, "fence")
    /\ IF fence THEN Step(t, Idle) ELSE Step(t, [It(t) EXCEPT !.at = "call"])
    /\ fence' = TRUE
    /\ listRests /\ UNCHANGED clash /\ fixed

\* execute(*it): a delegate of a queue that returns true has been dealt with.
Call(t) ==
    /\ At(t, "call")
    /\ \E result \in BOOLEAN :
         Step(t, [It(t) EXCEPT !.at = IF result /\ isQueue THEN "erase" ELSE "next",
                               !.seen = node[It(t).current].del])
    /\ listRests /\ UNCHANGED <<fence, clash>> /\ fixed

\* The loop goes on while the iterator holds a node.
Resume(t, prev, current) ==
    IF current # Null
      THEN Step(t, [It(t) EXCEPT !.at = IF t \in Callers THEN "call" ELSE "seek",
                                 !.prev = prev, !.current = current])
      ELSE Step(t, IF t \in Callers THEN [It(t) EXCEPT !.at = "end", !.current = Null, !.prev = Null] ELSE Idle)

EraseCalled(t) ==
    /\ At(t, "erase")
    /\ Erased(t)
    /\ Resume(t, It(t).prev, node[It(t).current].next)
    /\ UNCHANGED <<fence, added>> /\ fixed

\* operator++.
Advance(t) == IF It(t).current # It(t).stop
              THEN Resume(t, It(t).current, node[It(t).current].next) ELSE Resume(t, Null, Null)

GoOn(t) ==
    /\ At(t, "next")
    /\ Advance(t)
    /\ listRests /\ UNCHANGED <<fence, clash>> /\ fixed

Return(t) ==
    /\ At(t, "end")
    /\ fence' = FALSE
    /\ Step(t, Idle)
    /\ listRests /\ UNCHANGED clash /\ fixed

\* erase(del).
Seek(t) ==
    /\ At(t, "seek")
    /\ \/ It(t).current # It(t).want /\ Advance(t) /\ listRests /\ UNCHANGED <<fence, clash>>
       \/ It(t).current = It(t).want /\ Erased(t) /\ Step(t, Idle) /\ UNCHANGED <<fence, added>>
    /\ fixed

\* operator=(nullptr), as the destructor uses it.
Clear ==
    /\ \A t \in Users : At(t, "idle")
    /\ LET Reach[n \in DOMAIN node \cup {Null}] == IF n = Null THEN {} ELSE {n} \cup Reach[node[n].next]
       IN  node' = [m \in DOMAIN node \ (Reach[first] \cup Reach[unused]) |-> node[m]]
    /\ cleared' = TRUE
    /\ UNCHANGED <<isQueue, first, last, unused, fence, thread, added, live, clash>>

Next ==
    \/ Add \/ Clear
    \/ \E t \in Users : BeginFirst(t) \/ BeginLast(t)
    \/ \E t \in Callers : Fence(t) \/ Call(t) \/ EraseCalled(t) \/ GoOn(t) \/ Return(t)
    \/ \E t \in Erasers : Seek(t)

Spec == Init /\ [][Next]_vars

-----------------------------------------------------------------------------
\* The delegates from a node on.
From(n) == LET f[i \in 0..MaxAdded] == IF i = 0 THEN n
                                       ELSE IF f[i - 1] = Null THEN Null ELSE node[f[i - 1]].next
           IN  SelectSeq([i \in 1..(MaxAdded + 1) |-> f[i - 1]], LAMBDA x : x # Null)

\* The list is made of the delegates that were added and not erased, in order, and
\* every node is in it or ready for use.
ListIntact ==
    LET in == From(first)  out == From(unused)
    IN  /\ live = [i \in DOMAIN in |-> node[in[i]].del]
        /\ last = IF in = <<>> THEN Null ELSE in[Len(in)]
        /\ ToSet(in) \cap ToSet(out) = {} /\ ToSet(in) \cup ToSet(out) = DOMAIN node
        /\ isQueue => Cardinality(DOMAIN node) <= Capacity

\* One call goes through the list in order and leaves out none of those that it began
\* with.
NoneIsSkipped ==
    \A t \in Callers : LET it == It(t)  passed == {d \in ToSet(live) : it.seen < d} IN
        /\ At(t, "call") => /\ node[it.current].del > it.seen
                            /\ \A d \in passed : d >= node[it.current].del
        /\ At(t, "end") => \A d \in passed : d > it.upto

\* Unless a node was erased under another's iterator, the list and every call of it are
\* right, and in the end nothing is left on the heap (MultiDelegate.h:549 "Unused items
\* are not returned to the heap, but are managed by the MultiDelegate instance during its
\* own lifetime").
CallsAreComplete == ~clash => IF cleared THEN DOMAIN node = {} ELSE ListIntact /\ NoneIsSkipped
=============================================================================
