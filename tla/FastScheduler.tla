--------------------------- MODULE FastScheduler ---------------------------
(***************************************************************************)
(* The scheduler of the library (FastScheduler.cpp). One task runs the     *)
(* scheduled functions and then sleeps as long as                          *)
(* get_scheduled_recurrent_delay_us says; other threads and the functions  *)
(* themselves schedule more. What says how long is one time shared by all, *)
(* deadlineUs, which each of them may only bring nearer. Times are read    *)
(* from a counter that wraps.                                              *)
(*                                                                         *)
(* The queue is the ring with several producers (CircularQueueMP), here    *)
(* the sequence of what it accepted and how much of that the runner can    *)
(* see.  A push that finds its thread alone lets it see all; one that does *)
(* not may return with its item hidden, until some later push (the         *)
(* property NoItemHidden of CircularQueueMP is violated).  Here a push may *)
(* let it see any amount more, so that all of this is covered.             *)
(***************************************************************************)
EXTENDS Integers, Sequences

CONSTANTS Pushers,    \* threads that schedule functions
          Periods,    \* the periods they ask for
          ClockRange, \* what micros() counts modulo (2^32 in the code)
          MaxScheduled, \* what the queue holds
          MaxLate     \* bound: how long a call takes, and how late a run begins

\* What the constants must be.
ClockAssumption ==
  /\ {"runner", "none"} \cap Pushers = {}
  /\ ClockRange \in Nat \ {0} /\ Periods \subseteq Nat
  /\ MaxScheduled \in Nat /\ MaxLate \in Nat

VARIABLES now,        \* micros()
          deadlineUs, \* deadline_us
          queue,      \* schedule_queue: what was accepted, with period and last call time
          visible,    \* m_inPos: how many of these the runner can see
          pusher,     \* where each thread is in schedule_recurrent_function_us
          runner,     \* where run_scheduled_functions is
          spent       \* time the runner and each thread have spent in their present calls

vars == <<now, deadlineUs, queue, visible, pusher, runner, spent>>

\* The difference of two times, as an unsigned number.
Minus(a, b) == (a - b) % ClockRange
HalfMax == ClockRange \div 2 - 1

RemainingUs(f) ==
  LET elapsed == Minus(now, f.callTime)
  IN  IF elapsed > f.period THEN 0 ELSE f.period - elapsed

Init ==
  /\ now = 0 /\ deadlineUs = 0
  /\ queue = <<>> /\ visible = 0
  /\ pusher = [p \in Pushers |-> [at |-> "idle"]]
  /\ runner = [at |-> "idle"]
  /\ spent = [c \in Pushers \cup {"runner"} |-> 0]

Goto(p, c) == pusher' = [pusher EXCEPT ![p] = c]

\* Time goes by while a call takes, and until the delay is over and a little later.
Overdue == Minus(now, deadlineUs) <= HalfMax
Busy == {p \in Pushers : pusher[p].at # "idle"} \cup (IF runner.at = "idle" THEN {} ELSE {"runner"})
Tick ==
  /\ "runner" \in Busy \/ (Overdue => Minus(now, deadlineUs) < MaxLate)
  /\ \A c \in Busy : spent[c] < MaxLate
  /\ spent' = [c \in DOMAIN spent |-> IF c \in Busy THEN spent[c] + 1 ELSE 0]
  /\ now' = (now + 1) % ClockRange
  /\ UNCHANGED <<deadlineUs, queue, visible, pusher, runner>>

-----------------------------------------------------------------------------
(* schedule_recurrent_function_us: the item goes in, then the deadline     *)
(* comes down to it.                                                       *)

\* The item, with two histories: who pushes it ("none" once its pusher has read the
\* deadline, or a run has seen it), and whether a run has put the deadline off since
\* without seeing it.
Item(p, period) == [period |-> period, callTime |-> now, by |-> p, missed |-> FALSE]

\* push(): if there is room the item gets the next slot.
Push(p, period) ==
  /\ pusher[p].at = "idle"
  /\ \/ /\ Len(queue) < MaxScheduled
        /\ queue' = Append(queue, Item(p, period))
        /\ Goto(p, [at |-> "inside", got |-> TRUE, period |-> period])
     \/ /\ Len(queue) = MaxScheduled
        /\ Goto(p, [at |-> "inside", got |-> FALSE, period |-> period])
        /\ UNCHANGED queue
  /\ UNCHANGED <<now, deadlineUs, visible, runner, spent>>

\* With room or without, it may move m_inPos on, and more than once: each time its
\* compare-exchange of m_concurrent_mp fails it starts over.
Publish(p) ==
  /\ pusher[p].at = "inside"
  /\ visible' \in visible + 1..Len(queue)
  /\ UNCHANGED <<now, deadlineUs, queue, pusher, runner, spent>>

\* The call is over if there was no room, and else goes on with the deadline.
Refused(p) ==
  /\ pusher[p].at = "inside" /\ ~pusher[p].got
  /\ Goto(p, [at |-> "idle"])
  /\ spent' = [spent EXCEPT ![p] = 0]
  /\ UNCHANGED <<now, deadlineUs, queue, visible, runner>>

LoadDeadline(p) ==
  /\ pusher[p].at = "inside" /\ pusher[p].got
  /\ Goto(p, [at |-> "lower", period |-> pusher[p].period, dl |-> deadlineUs])
  /\ queue' = [i \in DOMAIN queue |-> IF queue[i].by = p THEN [queue[i] EXCEPT !.by = "none"]
                                       ELSE queue[i]]
  /\ UNCHANGED <<now, deadlineUs, visible, runner, spent>>

\* Is a deadline past, or no later than what is wanted?
Suffices(dl, wanted) == Minus(dl, now) > HalfMax \/ Minus(dl, now) <= wanted

LowerFrom_Unread(dl, wanted) ==
  IF ~Suffices(dl, wanted) THEN (now + wanted) % ClockRange ELSE deadlineUs

\* A compare-exchange, repeated with what it found if that was another deadline.
\* What the deadline is after it, and what the caller goes on with.
LowerFrom(dl, wanted) ==
  IF ~Suffices(dl, wanted) /\ deadlineUs = dl
    THEN (now + wanted) % ClockRange ELSE deadlineUs
Repeats(dl, wanted) == ~Suffices(dl, wanted) /\ deadlineUs # dl

LowerDeadline(p) ==
  /\ pusher[p].at = "lower"
  /\ LET c == pusher[p]
     IN  /\ deadlineUs' = LowerFrom(c.dl, c.period)
         /\ Goto(p, IF Repeats(c.dl, c.period) THEN [c EXCEPT !.dl = deadlineUs]
                    ELSE [at |-> "idle"])
         /\ spent' = IF Repeats(c.dl, c.period) THEN spent ELSE [spent EXCEPT ![p] = 0]
  /\ UNCHANGED <<now, queue, visible, runner>>

-----------------------------------------------------------------------------
(* run_scheduled_functions; a second caller finds the fence and returns.   *)

StoreDeadline ==
  /\ runner.at = "idle"
  /\ deadlineUs' = (now + HalfMax) % ClockRange
  /\ queue' = [i \in DOMAIN queue |->
                 IF i > visible /\ queue[i].by = "none" THEN [queue[i] EXCEPT !.missed = TRUE]
                 ELSE queue[i]]
  /\ runner' = [at |-> "begin"]
  /\ UNCHANGED <<now, visible, pusher, spent>>

\* for_each_rev_requeue takes in what can be seen at this moment, newest first.
Snapshot ==
  /\ runner.at = "begin"
  /\ runner' = [at |-> "next", left |-> visible, size |-> visible, kept |-> <<>>]
  /\ queue' = [i \in DOMAIN queue |-> IF i <= visible THEN [queue[i] EXCEPT !.missed = FALSE]
                                       ELSE queue[i]]
  /\ UNCHANGED <<now, deadlineUs, visible, pusher, spent>>

Keep(f) ==
  /\ runner' = [runner EXCEPT !.at = "load", !.kept = <<[f EXCEPT !.by = "none"]>> \o @,
                              !.left = @ - 1]
Drop ==
  /\ runner' = [runner EXCEPT !.left = @ - 1]

\* run_function: the alarm or the period wants it called; it may end itself.
RunFunction(alarm, stays) ==
  /\ runner.at = "next" /\ runner.left > 0
  /\ LET f == queue[runner.left]
         callNow == RemainingUs(f) = 0
     IN  IF ~(alarm \/ callNow) \/ stays
           THEN Keep(IF callNow THEN [f EXCEPT !.callTime = now] ELSE f)
           ELSE Drop
  /\ UNCHANGED <<now, deadlineUs, queue, visible, pusher, spent>>

LoadForKept ==
  /\ runner.at = "load"
  /\ runner' = [at |-> "lower", left |-> runner.left, size |-> runner.size,
                kept |-> runner.kept, dl |-> deadlineUs]
  /\ UNCHANGED <<now, deadlineUs, queue, visible, pusher, spent>>

LowerForKept ==
  /\ runner.at = "lower"
  /\ LET wanted == RemainingUs(Head(runner.kept))
     IN  /\ deadlineUs' = LowerFrom(runner.dl, wanted)
         /\ runner' = IF Repeats(runner.dl, wanted) THEN [runner EXCEPT !.dl = deadlineUs]
                      ELSE [at |-> "next", left |-> runner.left, size |-> runner.size,
                            kept |-> runner.kept]
  /\ UNCHANGED <<now, queue, visible, pusher, spent>>

EndRun ==
  /\ runner.at = "next" /\ runner.left = 0
  /\ visible' = visible - (runner.size - Len(runner.kept))
  /\ queue' = runner.kept \o SubSeq(queue, runner.size + 1, Len(queue))
  /\ runner' = [at |-> "idle"]
  /\ spent' = [spent EXCEPT !["runner"] = 0]
  /\ UNCHANGED <<now, deadlineUs, pusher>>

-----------------------------------------------------------------------------
Next ==
  \/ Tick
  \/ \E p \in Pushers : \/ \E t \in Periods : Push(p, t)
                        \/ Publish(p) \/ Refused(p) \/ LoadDeadline(p) \/ LowerDeadline(p)
  \/ StoreDeadline \/ Snapshot \/ LoadForKept \/ LowerForKept \/ EndRun
  \/ \E alarm, stays \in BOOLEAN : RunFunction(alarm, stays)

Spec == Init /\ [][Next]_vars

-----------------------------------------------------------------------------
\* get_scheduled_recurrent_delay_us.
Delay ==
  IF visible = 0 THEN HalfMax
  ELSE LET rem == Minus(deadlineUs, now) IN IF rem <= HalfMax THEN rem ELSE 0

\* When nobody is at it, the delay the task sleeps for is no longer than the wait of
\* any function that can be seen, whoever scheduled it and whenever, but for the time the
\* call that set it took, which is lost (FastScheduler.h:69 "the maximum delay until the
\* nearest scheduled recurrent function is due"). Left out are functions that the queue
\* hides, and those it hid from a run, until a run has seen them: such a run puts the
\* deadline off for them too. (FastScheduler.h:71-73 leaves out more, what was scheduled
\* since a run began; the code lowers the deadline for these as well.)
NeverOversleeps ==
  Busy = {} => \A i \in 1..visible : ~queue[i].missed => Delay <= RemainingUs(queue[i]) + MaxLate
=============================================================================
