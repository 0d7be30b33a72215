---------------------------- MODULE LockFreeList ----------------------------
(***************************************************************************)
(* The doubly linked list of the library under the firmware (ghostl,       *)
(* lfllist.h): nodes enter at first, the oldest hangs before a sentinel.   *)
(* Pushing is one exchange and two stores, removing locks the node and its *)
(* successor. Threads use it the way lfllist_allocator does, taking the    *)
(* oldest node with try_pop and pushing it back, or each removes only its  *)
(* own nodes. Every step is one access to a shared atomic.                 *)
(***************************************************************************)
EXTENDS Naturals, Sequences, SequencesExt

CONSTANTS Threads, Nodes, Nil,
          Sentinel,   \* last_sentinel
          OwnerOf     \* the thread each node belongs to, where nodes have owners

VARIABLES owned,      \* do the threads remove their own nodes, or pop any?
          first,      \* first
          pred, next, \* of every node and the sentinel
          lock,       \* remove_lock
          guard,      \* pop_guard
          op,         \* the call each thread is in, and its locals
          hand,       \* nodes outside the list, by the thread that has them
          order,      \* history: the nodes in the list, oldest first
          late        \* history: a thread touched a node another had taken out

\* Nodes, the sentinel and no node are told apart.
ListAssumption == Sentinel \notin Nodes /\ Nil \notin Nodes \cup {Sentinel}

vars == <<owned, first, pred, next, lock, guard, op, hand, order, late>>

Resting == [at |-> "idle"]
Goto(t, o) == op' = [op EXCEPT ![t] = o]
At(t, l) == op[t].at = l

\* Thread t reads or writes x: too late if another thread has x to itself.
Touch(t, x) == late' = (late \/ \E u \in Threads \ {t} : x \in hand[u])

Init ==
  /\ first = Sentinel
  /\ pred = [x \in Nodes \cup {Sentinel} |-> Nil] /\ next = pred
  /\ lock = [x \in Nodes \cup {Sentinel} |-> FALSE]
  /\ guard = FALSE
  /\ op = [t \in Threads |-> Resting]
  /\ owned \in BOOLEAN
  /\ hand = [t \in Threads |-> {n \in Nodes : OwnerOf[n] = t}]
  /\ order = <<>> /\ late = FALSE

-----------------------------------------------------------------------------
(* push(node): exchange first, then link both ways.                        *)

Exchange(t, n) ==
  /\ At(t, "idle") /\ n \in hand[t]
  /\ first' = n
  /\ hand' = [hand EXCEPT ![t] = @ \ {n}]
  /\ order' = Append(order, n)
  /\ Goto(t, [at |-> "linkNext", node |-> n, nx |-> first])
  /\ UNCHANGED <<pred, next, lock, guard, late>>

LinkNext(t) ==
  /\ At(t, "linkNext")
  /\ next' = [next EXCEPT ![op[t].node] = op[t].nx]
  /\ Goto(t, [op[t] EXCEPT !.at = "linkPred"])
  /\ UNCHANGED <<first, pred, lock, guard, hand, order, late>>

LinkPred(t) ==
  /\ At(t, "linkPred")
  /\ pred' = [pred EXCEPT ![op[t].nx] = op[t].node]
  /\ Touch(t, op[t].nx)
  /\ Goto(t, Resting)
  /\ UNCHANGED <<first, next, lock, guard, hand, order>>

-----------------------------------------------------------------------------
(* try_pop: one thread at a time, the oldest node if there is one.         *)

TakeGuard(t) ==
  /\ ~owned /\ At(t, "idle") /\ ~guard
  /\ guard' = TRUE
  /\ Goto(t, [at |-> "back"])
  /\ UNCHANGED <<first, pred, next, lock, hand, order, late>>

Back(t) ==
  /\ At(t, "back")
  /\ IF pred[Sentinel] = Nil
       THEN Goto(t, Resting) /\ guard' = FALSE
       ELSE Goto(t, [at |-> "lock", node |-> pred[Sentinel]]) /\ UNCHANGED guard
  /\ UNCHANGED <<first, pred, next, lock, hand, order, late>>

\* remove(node) by its owner, once its push has returned.
RemoveOwn(t, n) ==
  /\ owned /\ At(t, "idle") /\ OwnerOf[n] = t /\ n \notin hand[t]
  /\ Goto(t, [at |-> "lock", node |-> n])
  /\ UNCHANGED <<first, pred, next, lock, guard, hand, order, late>>

-----------------------------------------------------------------------------
(* try_remove(node), tried again until it succeeds.                        *)

LockNode(t) ==
  /\ At(t, "lock") /\ ~lock[op[t].node]
  /\ lock' = [lock EXCEPT ![op[t].node] = TRUE]
  /\ Touch(t, op[t].node)
  /\ Goto(t, [op[t] EXCEPT !.at = "readNext"])
  /\ UNCHANGED <<first, pred, next, guard, hand, order>>

ReadNext(t) ==
  /\ At(t, "readNext")
  /\ Goto(t, [at |-> "lockNext", node |-> op[t].node, nx |-> next[op[t].node]])
  /\ UNCHANGED <<first, pred, next, lock, guard, hand, order, late>>

LockNext(t) ==
  /\ At(t, "lockNext")
  /\ IF lock[op[t].nx]
       THEN Goto(t, [op[t] EXCEPT !.at = "readNext"]) /\ UNCHANGED lock
       ELSE /\ lock' = [lock EXCEPT ![op[t].nx] = TRUE]
            /\ Goto(t, [op[t] EXCEPT !.at = "readPred"])
  /\ Touch(t, op[t].nx)
  /\ UNCHANGED <<first, pred, next, guard, hand, order>>

ReadPred(t) ==
  /\ At(t, "readPred")
  /\ Goto(t, [at |-> "sameNext", node |-> op[t].node, nx |-> op[t].nx,
              pd |-> pred[op[t].node]])
  /\ UNCHANGED <<first, pred, next, lock, guard, hand, order, late>>

SameNext_Unchecked(t) ==
  /\ At(t, "sameNext")
  /\ Goto(t, [op[t] EXCEPT !.at = "unlinkPred"])
  /\ UNCHANGED <<first, pred, next, lock, guard, hand, order, late>>

\* The successor may have gone between reading and locking it.
SameNext(t) ==
  /\ At(t, "sameNext")
  /\ IF next[op[t].node] = op[t].nx
       THEN Goto(t, [op[t] EXCEPT !.at = "unlinkPred"]) /\ UNCHANGED <<lock, late>>
       ELSE /\ lock' = [lock EXCEPT ![op[t].nx] = FALSE]
            /\ Touch(t, op[t].nx)
            /\ Goto(t, [op[t] EXCEPT !.at = "readNext"])
  /\ UNCHANGED <<first, pred, next, guard, hand, order>>

UnlinkPred(t) ==
  /\ At(t, "unlinkPred")
  /\ pred' = [pred EXCEPT ![op[t].nx] = op[t].pd]
  /\ Touch(t, op[t].nx)
  /\ Goto(t, [op[t] EXCEPT !.at = "unlinkNext"])
  /\ UNCHANGED <<first, next, lock, guard, hand, order>>

\* With a predecessor it gets the new successor; without one the node must still
\* be first, or a push is about to give it a predecessor.
UnlinkNext(t) ==
  /\ At(t, "unlinkNext")
  /\ LET o == op[t] IN
       \/ /\ o.pd # Nil
          /\ next' = [next EXCEPT ![o.pd] = o.nx]
          /\ Touch(t, o.pd)
          /\ Goto(t, [o EXCEPT !.at = "unlock"])
          /\ UNCHANGED first
       \/ /\ o.pd = Nil /\ first = o.node
          /\ first' = o.nx
          /\ Goto(t, [o EXCEPT !.at = "unlock"])
          /\ UNCHANGED <<next, late>>
       \/ /\ o.pd = Nil /\ first # o.node
          /\ Goto(t, [o EXCEPT !.at = "awaitPred"])
          /\ UNCHANGED <<first, next, late>>
  /\ order' = IF op'[t].at = "unlock" THEN RemoveFirst(order, op[t].node) ELSE order
  /\ UNCHANGED <<pred, lock, guard, hand>>

AwaitPred(t) ==
  /\ At(t, "awaitPred") /\ pred[op[t].node] # Nil
  /\ Goto(t, [op[t] EXCEPT !.at = "unlinkPred", !.pd = pred[op[t].node]])
  /\ UNCHANGED <<first, pred, next, lock, guard, hand, order, late>>

Unlock(t) ==
  /\ At(t, "unlock")
  /\ lock' = [lock EXCEPT ![op[t].nx] = FALSE]
  /\ Touch(t, op[t].nx)
  /\ Goto(t, [at |-> "unlockNode", node |-> op[t].node])
  /\ UNCHANGED <<first, pred, next, guard, hand, order>>

UnlockNode(t) ==
  /\ At(t, "unlockNode")
  /\ lock' = [lock EXCEPT ![op[t].node] = FALSE]
  /\ Goto(t, [op[t] EXCEPT !.at = "clear"])
  /\ UNCHANGED <<first, pred, next, guard, hand, order, late>>

\* The node is the thread's own: after try_pop it may be destroyed or reused.
Clear(t) ==
  /\ At(t, "clear")
  /\ pred' = [pred EXCEPT ![op[t].node] = Nil]
  /\ next' = [next EXCEPT ![op[t].node] = Nil]
  /\ hand' = [hand EXCEPT ![t] = @ \cup {op[t].node}]
  /\ guard' = FALSE
  /\ Goto(t, Resting)
  /\ UNCHANGED <<first, lock, order, late>>

-----------------------------------------------------------------------------
Thread(t) ==
  \/ \E n \in Nodes : Exchange(t, n) \/ RemoveOwn(t, n)
  \/ LinkNext(t) \/ LinkPred(t) \/ TakeGuard(t) \/ Back(t)
  \/ LockNode(t) \/ ReadNext(t) \/ LockNext(t) \/ ReadPred(t) \/ SameNext(t)
  \/ UnlinkPred(t) \/ UnlinkNext(t) \/ AwaitPred(t)
  \/ Unlock(t) \/ UnlockNode(t) \/ Clear(t)

Next == UNCHANGED owned /\ \E t \in Threads : Thread(t)

Spec == Init /\ [][Next]_vars

-----------------------------------------------------------------------------
\* Between calls the links are those of the nodes that went in and did not come
\* out, in the order of their pushes, both ways, and nothing is locked
\* (lfllist.h push, try_remove).
Chain == <<Sentinel>> \o order
ListIntact ==
  (\A t \in Threads : At(t, "idle")) =>
     /\ first = Last(Chain)
     /\ \A i \in DOMAIN Chain :
           /\ pred[Chain[i]] = IF i < Len(Chain) THEN Chain[i + 1] ELSE Nil
           /\ i > 1 => next[Chain[i]] = Chain[i - 1]
           /\ ~lock[Chain[i]]

\* try_pop takes the node that has been in the list longest (mpnc.cpp:75 "item
\* order failure").
PopsTheOldest ==
  \A t \in Threads : ~owned /\ At(t, "lock") => op[t].node = Head(order)

\* Where threads pop, nobody touches a node that try_pop has handed to another thread,
\* which may destroy it. This says nothing of threads that remove their own nodes: there
\* a thread may touch a neighbour after its owner has removed it, although lfllist.h:97,
\* :109, :156 and :168 say "full concurrency safety for unique nodes".
NoLateTouch == ~owned => ~late
=============================================================================
