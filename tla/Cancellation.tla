---------------------------- MODULE Cancellation ----------------------------
(***************************************************************************)
(* Cancellation of waiting coroutines (cancellation_token.h): each waiter  *)
(* puts a completion source into a list of the state that its token shares *)
(* with the sources; cancel() raises a flag and completes all that is in   *)
(* the list, and the destructor of the state completes the rest.           *)
(*                                                                         *)
(* A push into the list (lfllist.h) is two steps: the node becomes the     *)
(* newest, then the one before it is told.  Whoever goes through the list  *)
(* from the oldest on does not get past a node that is not linked yet: at  *)
(* the end of the list it takes the list for empty, behind another node it *)
(* waits.  The operations of a completion source are single steps, which   *)
(* Completion shows of them.                                               *)
(***************************************************************************)
EXTENDS Sequences, FiniteSets

CONSTANTS Waiters,    \* coroutines that await cancellation_request()
          Cancellers  \* threads that call cancel()

VARIABLES cancelled,  \* the flag of cancellation_state_type
          list,       \* its list: the waiters whose completion sources it holds
          linked,     \* those whose node the one before it (or the sentinel) knows of
          waiter,     \* where each is in cancellation_request()
          canceller,  \* where each is in cancel()
          alive,      \* does anything still hold the state?
          outcome,    \* what each waiter's completion source was set to
          early       \* history: the waiters in the list when the flag was raised, if its oldest was linked

vars == <<cancelled, list, linked, waiter, canceller, alive, outcome, early>>

Init ==
  /\ cancelled = FALSE /\ list = <<>> /\ linked = {} /\ alive = TRUE
  /\ waiter = [w \in Waiters |-> "idle"]
  /\ canceller = [c \in Cancellers |-> "idle"]
  /\ outcome = [w \in Waiters |-> "none"]
  /\ early = {}

Goto(w, l) == waiter' = [waiter EXCEPT ![w] = l]
cancellersRest == UNCHANGED <<cancelled, canceller, alive, early>>

-----------------------------------------------------------------------------
(* cancellation_request().                                                 *)

CheckFlag(w) ==
  /\ alive /\ waiter[w] = "idle"
  /\ Goto(w, IF cancelled THEN "released" ELSE "emplace")
  /\ cancellersRest /\ UNCHANGED <<list, linked, outcome>>

\* The node becomes the newest of the list (first.exchange).
EmplaceNode(w) ==
  /\ waiter[w] = "emplace"
  /\ list' = Append(list, w)
  /\ Goto(w, "link")
  /\ cancellersRest /\ UNCHANGED <<linked, outcome>>

\* The one before it is told (next->pred.store).
LinkNode(w) ==
  /\ waiter[w] = "link"
  /\ linked' = linked \cup {w}
  /\ Goto(w, "entered")
  /\ cancellersRest /\ UNCHANGED <<list, outcome>>

\* The second look at the flag: cancel() is called again, and returns at once as the
\* flag is up. Then the completion source is awaited, by way of a node that a sweep
\* may have freed by now: reading it may give anything.
Await(w) ==
  /\ waiter[w] = "entered"
  /\ \/ Goto(w, "waiting")
     \/ outcome[w] # "none" /\ Goto(w, "lost")
  /\ cancellersRest /\ UNCHANGED <<list, linked, outcome>>

Released(w) ==
  /\ waiter[w] = "waiting" /\ outcome[w] # "none"
  /\ Goto(w, "released")
  /\ cancellersRest /\ UNCHANGED <<list, linked, outcome>>

-----------------------------------------------------------------------------
(* cancel(): only the call that raises the flag goes through the list.     *)

\* back(): the oldest node, if the sentinel knows of it.
HasBack == list # <<>> /\ Head(list) \in linked

Reached == IF HasBack THEN {w \in Waiters : \E i \in DOMAIN list : list[i] = w} ELSE {}

RaiseFlag_Late(c) ==
  /\ alive /\ canceller[c] = "idle"
  /\ canceller' = [canceller EXCEPT ![c] = IF cancelled THEN "done" ELSE "sweep"]
  /\ cancelled' = cancelled
  /\ early' = IF cancelled THEN early ELSE Reached
  /\ UNCHANGED <<list, linked, waiter, alive, outcome>>

RaiseFlag(c) ==
  /\ alive /\ canceller[c] = "idle"
  /\ cancelled' = TRUE
  /\ canceller' = [canceller EXCEPT ![c] = IF cancelled THEN "done" ELSE "sweep"]
  /\ early' = IF cancelled THEN early ELSE Reached
  /\ UNCHANGED <<list, linked, waiter, alive, outcome>>

\* for_each: the oldest as long as there is one, those that came in meanwhile too.
\* Its removal waits until the next one, if there is one, is linked.
Sweep(c) ==
  /\ canceller[c] = "sweep"
  /\ \/ /\ HasBack /\ (2 \in DOMAIN list => list[2] \in linked)
        /\ outcome' = [outcome EXCEPT ![Head(list)] = "true"]
        /\ list' = Tail(list)
        /\ UNCHANGED canceller
     \/ /\ ~HasBack
        /\ canceller' = [canceller EXCEPT ![c] = "done"]
        /\ UNCHANGED <<list, outcome>>
  /\ UNCHANGED <<cancelled, linked, waiter, alive, early>>

\* The last holder lets go of the state: nobody is in one of its functions.
Destroy ==
  /\ alive
  /\ \A w \in Waiters : waiter[w] \in {"idle", "waiting", "released", "lost"}
  /\ \A c \in Cancellers : canceller[c] # "sweep"
  /\ alive' = FALSE /\ list' = <<>>
  /\ outcome' = [w \in Waiters |-> IF ~cancelled /\ \E i \in DOMAIN list : list[i] = w
                                     THEN "false" ELSE outcome[w]]
  /\ UNCHANGED <<cancelled, linked, waiter, canceller, early>>

-----------------------------------------------------------------------------
Next ==
  \/ \E w \in Waiters : CheckFlag(w) \/ EmplaceNode(w) \/ LinkNode(w) \/ Await(w) \/ Released(w)
  \/ \E c \in Cancellers : RaiseFlag(c) \/ Sweep(c)
  \/ Destroy

Spec == Init /\ [][Next]_vars

-----------------------------------------------------------------------------
\* Once the cancel() that raised the flag has come back, every waiter that was in the
\* list by then, if the oldest there was linked, is released, with true; nobody is
\* released with false after a cancellation, with true without one, or not at all when
\* the state goes without one (cancellation_token.h:120 "true if cancellation occurred,
\* or false if the cancellation source etc was deleted without cancellation").
\* Two kinds of waiters are left out, for whom the code does not keep what the comment
\* at cancellation_token.h:126 says: those who enter the list after the sweep (to call
\* cancel() again does nothing, as the flag is up), and those in the list while the
\* push of its oldest node is not complete, as the sweep takes it for empty. They wait
\* for ever.
WaitersAreReleased ==
  /\ \A w \in Waiters : outcome[w] = "true" => cancelled
  /\ \A w \in Waiters : outcome[w] = "false" => ~cancelled
  /\ cancelled /\ (\A c \in Cancellers : canceller[c] # "sweep")
       => \A w \in early : outcome[w] = "true"
  /\ ~alive /\ ~cancelled => \A w \in Waiters : waiter[w] = "waiting" => outcome[w] # "none"
=============================================================================
