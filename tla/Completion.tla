----------------------------- MODULE Completion -----------------------------
(***************************************************************************)
(* One coroutine waits for several tasks that finish on any thread: the    *)
(* task_completion_source of the library and what when_any and when_all    *)
(* make of it. The flag `ready' is both the mark that the value is there   *)
(* and the lock under which the coroutine hands over its handle.           *)
(***************************************************************************)
EXTENDS Naturals, FiniteSets

CONSTANT Tasks

\* One task at least: over none both set the value in their constructors (when_any.h:53,
\* :100, when_all.h:59, :107), and nothing runs concurrently.
TasksAssumption == IsFiniteSet(Tasks) /\ Tasks # {}

VARIABLES kind,       \* "any" or "all"
          runner,     \* where each task is, then where its continuation is
          completed,  \* when_any's flag
          remaining,  \* when_all's counter
          results,    \* when_all's results: the tasks whose result is in
          source,     \* is_set, ready, coroutine and value of the completion source
          awaiter     \* where the waiting coroutine is, and what it got

vars == <<kind, runner, completed, remaining, results, source, awaiter>>

\* The constructor: a runner for every task, all of them counted before any runs.
Init ==
  /\ kind \in {"any", "all"}
  /\ runner = [t \in Tasks |-> "new"]
  /\ completed = FALSE
  /\ remaining = Cardinality(Tasks)
  /\ results = {}
  /\ source = [isSet |-> FALSE, ready |-> FALSE, coroutine |-> FALSE, value |-> {}]
  /\ awaiter = [at |-> "before", got |-> {}, resumed |-> 0]

Goto(t, l) == runner' = [runner EXCEPT ![t] = l]
tasksRest == UNCHANGED <<kind, runner, completed, remaining, results>>

\* resume() starts a task, which finishes now or later, on this thread or another.
Resume(t) ==
  /\ runner[t] = "new"
  /\ Goto(t, "running")
  /\ UNCHANGED <<kind, completed, remaining, results, source, awaiter>>

\* continuation(): any - the first one sets the value; all - the last one does.
FinishAny(t) ==
  /\ kind = "any" /\ runner[t] = "running"
  /\ completed' = TRUE
  /\ Goto(t, IF completed THEN "done" ELSE "set")
  /\ UNCHANGED <<kind, remaining, results, source, awaiter>>

StoreResult(t) ==
  /\ kind = "all" /\ runner[t] = "running"
  /\ results' = results \cup {t}
  /\ Goto(t, "stored")
  /\ UNCHANGED <<kind, completed, remaining, source, awaiter>>

CountDown(t) ==
  /\ runner[t] = "stored"
  /\ remaining' = remaining - 1
  /\ Goto(t, IF remaining = 1 THEN "set" ELSE "done")
  /\ UNCHANGED <<kind, completed, results, source, awaiter>>

\* set_value(): once; the value, then ready, then the handle.
SetOnce(t) ==
  /\ runner[t] = "set"
  /\ source' = [source EXCEPT !.isSet = TRUE]
  /\ Goto(t, IF source.isSet THEN "done" ELSE "value")
  /\ UNCHANGED <<kind, completed, remaining, results, awaiter>>

StoreValue(t) ==
  /\ runner[t] = "value"
  /\ source' = [source EXCEPT !.value = IF kind = "all" THEN results ELSE {t}]
  /\ Goto(t, "ready")
  /\ UNCHANGED <<kind, completed, remaining, results, awaiter>>

MarkReady_NoWait(t) ==
  /\ runner[t] = "ready"
  /\ source' = [source EXCEPT !.ready = TRUE]
  /\ Goto(t, "wake")
  /\ UNCHANGED <<kind, completed, remaining, results, awaiter>>

MarkReady(t) ==
  /\ runner[t] = "ready" /\ ~source.ready
  /\ source' = [source EXCEPT !.ready = TRUE]
  /\ Goto(t, "wake")
  /\ UNCHANGED <<kind, completed, remaining, results, awaiter>>

Continue == [at |-> "after", got |-> source.value, resumed |-> awaiter.resumed + 1]

Wake(t) ==
  /\ runner[t] = "wake"
  /\ awaiter' = IF source.coroutine THEN Continue ELSE awaiter
  /\ Goto(t, "done")
  /\ UNCHANGED <<kind, completed, remaining, results, source>>

\* await_ready(): exchange ready; already true means the value is there.
AwaitReady ==
  /\ awaiter.at = "before"
  /\ source' = [source EXCEPT !.ready = TRUE]
  /\ awaiter' = IF source.ready THEN Continue ELSE [awaiter EXCEPT !.at = "suspending"]
  /\ tasksRest

\* await_suspend(): the handle, then ready is given back.
StoreHandle ==
  /\ awaiter.at = "suspending"
  /\ source' = [source EXCEPT !.coroutine = TRUE]
  /\ awaiter' = [awaiter EXCEPT !.at = "handed"]
  /\ tasksRest

Suspend ==
  /\ awaiter.at = "handed"
  /\ source' = [source EXCEPT !.ready = FALSE]
  /\ awaiter' = [awaiter EXCEPT !.at = "suspended"]
  /\ tasksRest

Next ==
  \/ \E t \in Tasks : \/ Resume(t) \/ FinishAny(t) \/ StoreResult(t) \/ CountDown(t)
                      \/ SetOnce(t) \/ StoreValue(t) \/ MarkReady(t) \/ Wake(t)
  \/ AwaitReady \/ StoreHandle \/ Suspend

Spec == Init /\ [][Next]_vars

-----------------------------------------------------------------------------
\* The coroutine goes on once, with the result of a task (any) or with those of
\* all tasks (all), and it does go on when every task is done (when_any.h,
\* when_all.h, task_completion_source.h).
WaitsForTheRight ==
  /\ awaiter.resumed <= 1
  /\ awaiter.at = "after" => awaiter.got # {} /\ (kind = "all" => awaiter.got = Tasks)
  /\ (\A t \in Tasks : runner[t] = "done") => awaiter.at \in {"before", "after"}
=============================================================================
