-------------------------------- MODULE Fifo --------------------------------
(***************************************************************************)
(* What a bounded queue promises to the one thread that puts and to the    *)
(* one that takes: elements leave in the order they came, each at most     *)
(* once, and only what the taker itself drops never reaches it.            *)
(***************************************************************************)
EXTENDS Naturals, Sequences, SequencesExt

CONSTANTS Bound,    \* the most elements the queue holds
          Element   \* what can be put

VARIABLES queue,    \* the elements in the queue, oldest first
          given     \* the elements the taker got, in the order it got them

vars == <<queue, given>>

Init == queue = <<>> /\ given = <<>>

Put == /\ IsStrictPrefix(queue, queue')
       /\ Len(queue') <= Bound /\ queue' \in Seq(Element)
       /\ UNCHANGED given

Take == \E n \in 1..Len(queue) :
          /\ given' = given \o SubSeq(queue, 1, n)
          /\ queue' = SubSeq(queue, n + 1, Len(queue))

\* The taker drops all it sees, or one element it looked at.
Drop == /\ \/ \E n \in 1..Len(queue) : queue' = SubSeq(queue, n + 1, Len(queue))
           \/ \E i \in DOMAIN queue : queue' = RemoveAt(queue, i)
        /\ UNCHANGED given

Next == Put \/ Take \/ Drop

Spec == Init /\ [][Next]_vars
=============================================================================
