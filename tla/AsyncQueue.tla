----------------------------- MODULE AsyncQueue -----------------------------
(***************************************************************************)
(* The queue a coroutine awaits (async_queue.h), as the library's example  *)
(* uses it (mp1c.cpp): threads push, one consumer pops. Next to the items  *)
(* it has a list of completion sources; a push sets the one curTcs names   *)
(* and leaves a new one there, the consumer awaits the oldest. Both lists  *)
(* are first-in first-out and their single operations atomic, which is     *)
(* what LockFreeList shows of them.                                        *)
(***************************************************************************)
EXTENDS Naturals, Sequences, SequencesExt

CONSTANTS Writers,      \* the threads that push
          ListCapacity, \* CAPACITY, of either list
          MaxPushes     \* bound: pushes of each thread

\* What the bound must be.
PushesAssumption == MaxPushes \in Nat

VARIABLES items,      \* the items: <<writer, number>>, oldest first
          tcsQueue,   \* the completion sources, oldest first, numbered as they are made
          setTcs,     \* those that are set
          curTcs,     \* cur_tcs
          made,       \* how many were made
          write,      \* where each writer is in push
          tries,      \* pushes each writer has begun
          read,       \* where the consumer is in pop
          accepted,   \* history: what push has said is in, by writer
          taken,      \* history: what the consumer got, by writer
          overlapped  \* history: two writers were in push at once

vars == <<items, tcsQueue, setTcs, curTcs, made, write, tries, read, accepted, taken, overlapped>>

Resting == [at |-> "idle"]

Init ==
  /\ items = <<>> /\ tcsQueue = <<1>> /\ setTcs = {} /\ curTcs = 1 /\ made = 1
  /\ write = [w \in Writers |-> Resting]
  /\ tries = [w \in Writers |-> 0]
  /\ read = Resting
  /\ accepted = [w \in Writers |-> <<>>] /\ taken = [w \in Writers |-> <<>>]
  /\ overlapped = FALSE

Goto(w, c) == write' = [write EXCEPT ![w] = c]
consumerRests == UNCHANGED <<read, taken>>

\* erase() takes out the node of this value.
Without(s, x) ==
  IF \E i \in DOMAIN s : s[i] = x THEN RemoveAt(s, CHOOSE i \in DOMAIN s : s[i] = x) ELSE s

-----------------------------------------------------------------------------
(* push(): the item, a new completion source, its exchange with curTcs and *)
(* set_value of the one that was there.                                    *)

EmplaceItem(w) ==
  /\ write[w].at = "idle" /\ tries[w] < MaxPushes
  /\ tries' = [tries EXCEPT ![w] = @ + 1]
  /\ IF Len(items) < ListCapacity
       THEN /\ items' = Append(items, <<w, tries[w] + 1>>)
            /\ Goto(w, [at |-> "tcs"])
            /\ overlapped' = (overlapped \/ \E v \in Writers : write[v].at # "idle")
       ELSE UNCHANGED <<items, write, overlapped>>
  /\ consumerRests /\ UNCHANGED <<tcsQueue, setTcs, curTcs, made, accepted>>

EmplaceTcs(w) ==
  /\ write[w].at = "tcs"
  /\ IF Len(tcsQueue) < ListCapacity
       THEN /\ tcsQueue' = Append(tcsQueue, made + 1)
            /\ made' = made + 1
            /\ Goto(w, [at |-> "exchange", new |-> made + 1])
       ELSE Goto(w, [at |-> "takeBack"]) /\ UNCHANGED <<tcsQueue, made>>
  /\ consumerRests /\ UNCHANGED <<items, setTcs, curTcs, tries, accepted, overlapped>>

\* No room for a completion source: the item is erased again.
TakeBack(w) ==
  /\ write[w].at = "takeBack"
  /\ items' = Without(items, <<w, tries[w]>>)
  /\ Goto(w, Resting)
  /\ consumerRests /\ UNCHANGED <<tcsQueue, setTcs, curTcs, made, tries, accepted, overlapped>>

ExchangeTcs(w) ==
  /\ write[w].at = "exchange"
  /\ curTcs' = write[w].new
  /\ Goto(w, [at |-> "set", old |-> curTcs])
  /\ consumerRests /\ UNCHANGED <<items, tcsQueue, setTcs, made, tries, accepted, overlapped>>

SetTcs(w) ==
  /\ write[w].at = "set"
  /\ setTcs' = setTcs \cup {write[w].old}
  /\ accepted' = [accepted EXCEPT ![w] = Append(@, tries[w])]
  /\ Goto(w, Resting)
  /\ consumerRests /\ UNCHANGED <<items, tcsQueue, curTcs, made, tries, overlapped>>

-----------------------------------------------------------------------------
(* pop(), by the one consumer.                                             *)

writersRest == UNCHANGED <<curTcs, made, write, tries, accepted, overlapped>>

BackTcs_Newest ==
  /\ read.at = "idle" /\ tcsQueue # <<>>
  /\ read' = [at |-> "await", tcs |-> Last(tcsQueue)]
  /\ writersRest /\ UNCHANGED <<items, tcsQueue, setTcs, taken>>

BackTcs ==
  /\ read.at = "idle" /\ tcsQueue # <<>>
  /\ read' = [at |-> "await", tcs |-> Head(tcsQueue)]
  /\ writersRest /\ UNCHANGED <<items, tcsQueue, setTcs, taken>>

\* co_await comes back once the completion source is set; then it is erased.
EraseTcs ==
  /\ read.at = "await" /\ read.tcs \in setTcs
  /\ tcsQueue' = Without(tcsQueue, read.tcs)
  /\ setTcs' = setTcs \ {read.tcs}
  /\ read' = [at |-> "item"]
  /\ writersRest /\ UNCHANGED <<items, taken>>

\* The oldest item; there is no test that there is one.
TakeItem ==
  /\ read.at = "item" /\ items # <<>>
  /\ items' = Tail(items)
  /\ taken' = [taken EXCEPT ![Head(items)[1]] = Append(@, Head(items)[2])]
  /\ read' = Resting
  /\ writersRest /\ UNCHANGED <<tcsQueue, setTcs>>

\* The consumer flushes when it has got all that the threads push.
Flush ==
  /\ read.at = "idle" /\ \A w \in Writers : Len(taken[w]) = MaxPushes
  /\ items' = <<>> /\ tcsQueue' = <<made + 1>> /\ setTcs' = {}
  /\ curTcs' = made + 1 /\ made' = made + 1
  /\ read' = [at |-> "done"]
  /\ UNCHANGED <<write, tries, accepted, taken, overlapped>>

-----------------------------------------------------------------------------
Next ==
  \/ \E w \in Writers : EmplaceItem(w) \/ EmplaceTcs(w) \/ TakeBack(w) \/ ExchangeTcs(w) \/ SetTcs(w)
  \/ BackTcs \/ EraseTcs \/ TakeItem \/ Flush

Spec == Init /\ [][Next]_vars

-----------------------------------------------------------------------------
\* As long as no two pushes overlapped, the consumer that has been woken finds an
\* item, gets each writer's in order and none twice, and none is left behind: when
\* it waits in vain and nobody pushes, everything that was accepted is with it
\* (mp1c.cpp:129 "item mismatch", mp1c.cpp:179 "total rx count != tx count").
NothingStranded ==
  ~overlapped =>
    /\ read.at = "item" => items # <<>>
    /\ \A w \in Writers :
         /\ IsPrefix(taken[w], accepted[w])
         /\ (read.at = "await" /\ read.tcs \notin setTcs /\ \A v \in Writers : write[v].at = "idle")
              => taken[w] = accepted[w]
=============================================================================
