---------------------------- MODULE LibraryProofs ----------------------------
(***************************************************************************)
(* Proofs about the parts of Library that run concurrently, but for the    *)
(* rings (CircularQueueProofs). A theorem speaks of every behaviour of     *)
(* LibrarySpec: its invariant is one of the part in question, and says     *)
(* nothing while another part runs.                                        *)
(***************************************************************************)
EXTENDS Library, FiniteSetTheorems, SequenceTheorems, TLAPS

-----------------------------------------------------------------------------
(* Completion: one task alone gets to set the value, and the flag `ready'  *)
(* keeps it and the coroutine from missing each other.                     *)

Stages == {"new", "running", "stored", "set", "value", "ready", "wake", "done"}
AheadOf == {"set", "value", "ready", "wake"}

WaitType ==
  /\ kind \in {"any", "all"}
  /\ runner \in [Tasks -> Stages]
  /\ completed \in BOOLEAN
  /\ remaining \in Nat
  /\ results \subseteq Tasks
  /\ source \in [isSet : BOOLEAN, ready : BOOLEAN, coroutine : BOOLEAN, value : SUBSET Tasks]
  /\ awaiter \in [at : {"before", "suspending", "handed", "suspended", "after"},
                  got : SUBSET Tasks, resumed : Nat]

\* The task whose end completes the whole has been found, ...
Decided == IF kind = "any" THEN completed = TRUE ELSE remaining = 0
Winning(t) == runner[t] \in AheadOf
\* ... and is through with set_value().
Finished == Decided /\ \A t \in Tasks : ~Winning(t)

Uncounted == {t \in Tasks : runner[t] \in {"new", "running", "stored"}}

WinnerInv ==
  /\ \A t, u \in Tasks : Winning(t) /\ Winning(u) => t = u
  /\ ~Decided => \A t \in Tasks : ~Winning(t)

CountInv ==
  /\ kind = "any" => \A t \in Tasks : /\ runner[t] # "stored"
                                      /\ completed = FALSE => runner[t] \in {"new", "running"}
  /\ kind = "all" => /\ results = {t \in Tasks : runner[t] \notin {"new", "running"}}
                     /\ remaining = Cardinality(Uncounted)

Written == Finished \/ \E t \in Tasks : runner[t] \in {"ready", "wake"}
Right(v) == v # {} /\ (kind = "all" => v = Tasks)

ValueInv ==
  /\ Written => Right(source.value)
  /\ source.isSet = TRUE => Decided /\ \A t \in Tasks : runner[t] # "set"

Told == Finished \/ \E t \in Tasks : runner[t] = "wake"

HandshakeInv ==
  /\ awaiter.at \in {"before", "suspended"} => (source.ready = TRUE <=> Told)
  /\ awaiter.at \in {"suspending", "handed"} => source.ready = TRUE /\ ~Told
  /\ awaiter.at = "after" => Told /\ source.ready = TRUE
  /\ awaiter.at = "suspended" => ~Finished
  /\ awaiter.at \in {"before", "suspending"} => source.coroutine = FALSE
  /\ awaiter.at \in {"handed", "suspended"} => source.coroutine = TRUE
  /\ awaiter.at = "after" /\ ~Finished => source.coroutine = FALSE
  /\ awaiter.at = "after" => awaiter.resumed = 1 /\ Right(awaiter.got)
  /\ awaiter.at # "after" => awaiter.resumed = 0

WaitInv == WaitType /\ WinnerInv /\ CountInv /\ ValueInv /\ HandshakeInv

\* Finite sets and their sizes are the same in the modules of the parts.
LEMMA TasksAreFinite == IsFiniteSet(Tasks) /\ Tasks # {}
<1>1. Wait!IsFiniteSet(Tasks) <=> IsFiniteSet(Tasks)
  BY DEF Wait!IsFiniteSet, IsFiniteSet
<1> QED
  BY <1>1, LibraryAssumption DEF Wait!TasksAssumption

LEMMA SameSize == ASSUME NEW S PROVE Wait!Cardinality(S) = Cardinality(S)
  BY Zenon DEF Wait!Cardinality, Cardinality

LEMMA WaitStarts == ASSUME Wait!Init PROVE WaitInv
<1>1. remaining = Cardinality(Tasks) /\ Cardinality(Tasks) \in Nat
  BY TasksAreFinite, FS_CardinalityType, SameSize DEF Wait!Init
<1>2. WaitType
  BY <1>1 DEF Wait!Init, WaitType, Stages
<1>3. \A t \in Tasks : runner[t] = "new"
  BY DEF Wait!Init
<1>4. ~Decided
  <2>1. Cardinality(Tasks) # 0
    BY TasksAreFinite, FS_EmptySet
  <2> QED
    BY <1>1, <2>1 DEF Wait!Init, Decided
<1>5. WinnerInv
  BY <1>3 DEF WinnerInv, Winning, AheadOf
<1>6. CountInv
  <2>1. Uncounted = Tasks
    BY <1>3 DEF Uncounted
  <2> QED
    BY <1>1, <1>3, <2>1 DEF CountInv, Wait!Init
<1>7. ValueInv
  BY <1>3, <1>4 DEF ValueInv, Written, Finished, Wait!Init
<1>8. HandshakeInv
  BY <1>3, <1>4 DEF HandshakeInv, Told, Finished, Wait!Init
<1> QED
  BY <1>2, <1>5, <1>6, <1>7, <1>8 DEF WaitInv

\* While the whole is undecided no task is ahead, and of the uncounted there is one more
\* than after the next is counted.
LEMMA CountingDown ==
    ASSUME WaitType, CountInv, kind = "all", NEW t \in Tasks, t \in Uncounted
    PROVE  /\ remaining # 0
           /\ Cardinality(Uncounted \ {t}) = remaining - 1
<1>1. IsFiniteSet(Uncounted)
  BY TasksAreFinite, FS_Subset DEF Uncounted
<1>2. Cardinality(Uncounted) \in Nat /\ Cardinality(Uncounted) = remaining
  BY <1>1, FS_CardinalityType DEF CountInv
<1>3. Cardinality(Uncounted \ {t}) = Cardinality(Uncounted) - 1
  BY <1>1, FS_RemoveElement
<1>4. Cardinality(Uncounted) # 0
  BY <1>1, FS_EmptySet
<1> QED
  BY <1>2, <1>3, <1>4

LEMMA TypeKept == ASSUME WaitType, CountInv, Wait!Next PROVE WaitType'
<1> USE DEF WaitType, Stages, Wait!Goto
<1>1. ASSUME NEW t \in Tasks, Wait!Resume(t) \/ Wait!StoreResult(t) PROVE WaitType'
  BY <1>1 DEF Wait!Resume, Wait!StoreResult
<1>2. ASSUME NEW t \in Tasks, Wait!FinishAny(t) PROVE WaitType'
  BY <1>2 DEF Wait!FinishAny
<1>3. ASSUME NEW t \in Tasks, Wait!CountDown(t) PROVE WaitType'
  <2>1. t \in Uncounted /\ kind = "all"
    BY <1>3 DEF Wait!CountDown, Uncounted, CountInv
  <2>2. remaining # 0
    BY <2>1, CountingDown
  <2> QED
    BY <1>3, <2>2 DEF Wait!CountDown
<1>4. ASSUME NEW t \in Tasks, Wait!SetOnce(t) PROVE WaitType'
  <2>1. CASE source.isSet = TRUE
    BY <1>4, <2>1 DEF Wait!SetOnce
  <2>2. CASE source.isSet = FALSE
    BY <1>4, <2>2 DEF Wait!SetOnce
  <2> QED
    BY <2>1, <2>2
<1>5. ASSUME NEW t \in Tasks, Wait!StoreValue(t) PROVE WaitType'
  BY <1>5 DEF Wait!StoreValue
<1>6. ASSUME NEW t \in Tasks, Wait!MarkReady(t) PROVE WaitType'
  BY <1>6 DEF Wait!MarkReady
<1>7. ASSUME NEW t \in Tasks, Wait!Wake(t) PROVE WaitType'
  BY <1>7 DEF Wait!Wake, Wait!Continue
<1>8. CASE Wait!AwaitReady
  <2>1. CASE source.ready = TRUE
    <3>1. awaiter' = [at |-> "after", got |-> source.value, resumed |-> awaiter.resumed + 1]
      BY <1>8, <2>1 DEF Wait!AwaitReady, Wait!Continue
    <3>2. awaiter' \in [at : {"before", "suspending", "handed", "suspended", "after"},
                        got : SUBSET Tasks, resumed : Nat]
      BY <3>1
    <3> QED
      BY <1>8, <3>2 DEF Wait!AwaitReady, Wait!tasksRest
  <2>2. CASE source.ready = FALSE
    BY <1>8, <2>2 DEF Wait!AwaitReady, Wait!tasksRest
  <2> QED
    BY <2>1, <2>2
<1>9. CASE Wait!StoreHandle \/ Wait!Suspend
  BY <1>9 DEF Wait!StoreHandle, Wait!Suspend, Wait!tasksRest
<1> QED
  BY <1>1, <1>2, <1>3, <1>4, <1>5, <1>6, <1>7, <1>8, <1>9 DEF Wait!Next

\* What a step by the task t that is not the winning one leaves as it is.
LEMMA OthersStep ==
    ASSUME WaitType, WinnerInv, NEW t \in Tasks, ~Winning(t), ~Winning(t)', Decided' <=> Decided,
           \A u \in Tasks : u # t => runner'[u] = runner[u], UNCHANGED <<kind, source, awaiter>>,
           ValueInv, HandshakeInv
    PROVE  WinnerInv' /\ ValueInv' /\ HandshakeInv'
<1>1. \A u \in Tasks : /\ Winning(u)' <=> Winning(u)
                       /\ Winning(u) => runner'[u] = runner[u]
  BY DEF Winning
<1>2. Finished' <=> Finished
  BY <1>1 DEF Finished
<1>3. \A u \in Tasks : /\ runner'[u] = "set" <=> runner[u] = "set"
                       /\ runner'[u] = "wake" <=> runner[u] = "wake"
                       /\ runner'[u] \in {"ready", "wake"} <=> runner[u] \in {"ready", "wake"}
  BY <1>1 DEF Winning, AheadOf
<1>4. (Told' <=> Told) /\ (Written' <=> Written)
  BY <1>2, <1>3 DEF Told, Written
<1>5. WinnerInv'
  BY <1>1 DEF WinnerInv
<1>6. ValueInv'
  BY <1>3, <1>4 DEF ValueInv, Right
<1>7. HandshakeInv'
  BY <1>2, <1>4 DEF HandshakeInv, Right
<1> QED
  BY <1>5, <1>6, <1>7

\* The step by which the task t turns out to be the one that completes the whole.
LEMMA WinnerFound ==
    ASSUME WaitType, WinnerInv, NEW t \in Tasks, runner'[t] = "set", ~Decided, Decided',
           \A u \in Tasks : u # t => runner'[u] = runner[u], UNCHANGED <<kind, source, awaiter>>,
           ValueInv, HandshakeInv
    PROVE  WinnerInv' /\ ValueInv' /\ HandshakeInv'
<1>1. \A u \in Tasks : ~Winning(u) /\ (Winning(u)' <=> u = t)
  BY DEF Winning, WinnerInv, AheadOf
<1>2. ~Finished /\ ~Finished'
  BY <1>1 DEF Finished
<1>3. \A u \in Tasks : /\ runner[u] \notin {"set", "ready", "wake"}
                       /\ runner'[u] \notin {"ready", "wake"}
  BY <1>1 DEF Winning, AheadOf
<1>4. ~Told /\ ~Told' /\ ~Written'
  BY <1>2, <1>3 DEF Told, Written
<1>5. WinnerInv'
  BY <1>1 DEF WinnerInv
<1>6. ValueInv'
  BY <1>4 DEF ValueInv
<1>7. HandshakeInv'
  BY <1>2, <1>4 DEF HandshakeInv, Right
<1> QED
  BY <1>5, <1>6, <1>7

\* What a step of the winning task t means for the others and for the counts.
LEMMA WinnerMoves ==
    ASSUME WaitType, WinnerInv, CountInv, NEW t \in Tasks, Winning(t),
           runner'[t] \in AheadOf \cup {"done"}, \A u \in Tasks : u # t => runner'[u] = runner[u],
           UNCHANGED <<kind, completed, remaining, results>>
    PROVE  /\ Decided /\ Decided' /\ ~Finished
           /\ \A u \in Tasks : u # t => ~Winning(u) /\ ~Winning(u)'
           /\ WinnerInv' /\ CountInv'
<1>1. Decided /\ Decided' /\ ~Finished
  BY DEF WinnerInv, Decided, Finished
<1>2. \A u \in Tasks : u # t => ~Winning(u) /\ ~Winning(u)'
  BY DEF WinnerInv, Winning
<1>3. WinnerInv'
  BY <1>1, <1>2 DEF WinnerInv
<1>4. Uncounted' = Uncounted
  BY DEF Uncounted, Winning, AheadOf
<1>5. CountInv'
  <2>1. kind = "any" => \A u \in Tasks : /\ runner'[u] # "stored"
                                         /\ completed = FALSE => runner'[u] \in {"new", "running"}
    BY <1>1 DEF CountInv, Winning, AheadOf, Decided
  <2>2. kind = "all" => results' = {u \in Tasks : runner'[u] \notin {"new", "running"}}
    BY DEF CountInv, Winning, AheadOf
  <2> QED
    BY <1>4, <2>1, <2>2 DEF CountInv
<1> QED
  BY <1>1, <1>2, <1>3, <1>5

\* When the whole is decided every task that when_all waits for has left its result.
LEMMA AllAreIn == ASSUME WaitType, CountInv, Decided, kind = "all" PROVE results = Tasks
<1>1. IsFiniteSet(Uncounted) /\ Cardinality(Uncounted) = 0
  BY TasksAreFinite, FS_Subset DEF Uncounted, CountInv, Decided
<1>2. Uncounted = {}
  BY <1>1, FS_EmptySet
<1> QED
  BY <1>2 DEF Uncounted, CountInv

LEMMA WaitKept == ASSUME WaitInv, Wait!Next PROVE WaitInv'
<1> USE DEF WaitInv
<1>1. WaitType'
  BY TypeKept
<1>2. ASSUME NEW t \in Tasks, Wait!Resume(t) PROVE WaitInv'
  <2>1. runner[t] = "new" /\ runner'[t] = "running"
    BY <1>2 DEF Wait!Resume, Wait!Goto, WaitType
  <2>2. \A u \in Tasks : u # t => runner'[u] = runner[u]
    BY <1>2 DEF Wait!Resume, Wait!Goto, WaitType
  <2>3. UNCHANGED <<kind, completed, remaining, results, source, awaiter>>
    BY <1>2 DEF Wait!Resume
  <2>4. Decided' <=> Decided
    BY <2>3 DEF Decided
  <2>5. ~Winning(t) /\ ~Winning(t)'
    BY <2>1 DEF Winning, AheadOf
  <2>6. WinnerInv' /\ ValueInv' /\ HandshakeInv'
    BY <2>2, <2>3, <2>4, <2>5, OthersStep
  <2>7. CountInv'
    <3>1. Uncounted' = Uncounted
      BY <2>1, <2>2 DEF Uncounted
    <3> QED
      BY <2>1, <2>2, <2>3, <3>1 DEF CountInv
  <2> QED
    BY <1>1, <2>6, <2>7
<1>3. ASSUME NEW t \in Tasks, Wait!FinishAny(t) PROVE WaitInv'
  <2>1. kind = "any" /\ runner[t] = "running"
    BY <1>3 DEF Wait!FinishAny
  <2>2. \A u \in Tasks : u # t => runner'[u] = runner[u]
    BY <1>3 DEF Wait!FinishAny, Wait!Goto, WaitType
  <2>3. completed' = TRUE /\ UNCHANGED <<kind, remaining, results, source, awaiter>>
    BY <1>3 DEF Wait!FinishAny
  <2>4. Decided'
    BY <2>1, <2>3 DEF Decided
  <2>5. CASE completed = TRUE
    <3>1. runner'[t] = "done"
      BY <1>3, <2>5 DEF Wait!FinishAny, Wait!Goto, WaitType
    <3>2. ~Winning(t) /\ ~Winning(t)'
      BY <2>1, <3>1 DEF Winning, AheadOf
    <3>3. Decided
      BY <2>1, <2>5 DEF Decided
    <3>4. WinnerInv' /\ ValueInv' /\ HandshakeInv'
      BY <2>2, <2>3, <2>4, <3>2, <3>3, OthersStep
    <3>5. CountInv'
      BY <2>1, <2>2, <2>3, <3>1 DEF CountInv
    <3> QED
      BY <1>1, <3>4, <3>5
  <2>6. CASE completed = FALSE
    <3>1. runner'[t] = "set"
      BY <1>3, <2>6 DEF Wait!FinishAny, Wait!Goto, WaitType
    <3>2. ~Decided
      BY <2>1, <2>6 DEF Decided
    <3>3. WinnerInv' /\ ValueInv' /\ HandshakeInv'
      BY <2>2, <2>3, <2>4, <3>1, <3>2, WinnerFound
    <3>4. CountInv'
      BY <2>1, <2>2, <2>3, <3>1 DEF CountInv
    <3> QED
      BY <1>1, <3>3, <3>4
  <2> QED
    BY <2>5, <2>6 DEF WaitType
<1>4. ASSUME NEW t \in Tasks, Wait!StoreResult(t) PROVE WaitInv'
  <2>1. kind = "all" /\ runner[t] = "running" /\ runner'[t] = "stored"
    BY <1>4 DEF Wait!StoreResult, Wait!Goto, WaitType
  <2>2. \A u \in Tasks : u # t => runner'[u] = runner[u]
    BY <1>4 DEF Wait!StoreResult, Wait!Goto, WaitType
  <2>3. results' = results \cup {t} /\ UNCHANGED <<kind, completed, remaining, source, awaiter>>
    BY <1>4 DEF Wait!StoreResult
  <2>4. Decided' <=> Decided
    BY <2>3 DEF Decided
  <2>5. ~Winning(t) /\ ~Winning(t)'
    BY <2>1 DEF Winning, AheadOf
  <2>6. WinnerInv' /\ ValueInv' /\ HandshakeInv'
    BY <2>2, <2>3, <2>4, <2>5, OthersStep
  <2>7. CountInv'
    <3>1. Uncounted' = Uncounted
      BY <2>1, <2>2 DEF Uncounted
    <3>2. results' = {u \in Tasks : runner'[u] \notin {"new", "running"}}
      BY <2>1, <2>2, <2>3 DEF CountInv
    <3> QED
      BY <2>1, <2>3, <3>1, <3>2 DEF CountInv
  <2> QED
    BY <1>1, <2>6, <2>7
<1>5. ASSUME NEW t \in Tasks, Wait!CountDown(t) PROVE WaitInv'
  <2>1. kind = "all" /\ runner[t] = "stored"
    BY <1>5 DEF Wait!CountDown, CountInv, WaitType
  <2>2. \A u \in Tasks : u # t => runner'[u] = runner[u]
    BY <1>5 DEF Wait!CountDown, Wait!Goto, WaitType
  <2>3. remaining' = remaining - 1 /\ UNCHANGED <<kind, completed, results, source, awaiter>>
    BY <1>5 DEF Wait!CountDown
  <2>4. t \in Uncounted
    BY <2>1 DEF Uncounted
  <2>5. remaining # 0 /\ Cardinality(Uncounted \ {t}) = remaining - 1
    BY <2>1, <2>4, CountingDown
  <2>6. runner'[t] = IF remaining = 1 THEN "set" ELSE "done"
    BY <1>5 DEF Wait!CountDown, Wait!Goto, WaitType
  <2>7. CountInv'
    <3>1. Uncounted' = Uncounted \ {t}
      BY <2>2, <2>6 DEF Uncounted
    <3>2. results' = {u \in Tasks : runner'[u] \notin {"new", "running"}}
      BY <2>1, <2>2, <2>3, <2>6 DEF CountInv
    <3> QED
      BY <2>1, <2>3, <2>5, <3>1, <3>2 DEF CountInv
  <2>8. ~Decided
    BY <2>1, <2>5 DEF Decided
  <2>9. CASE remaining = 1
    <3>1. Decided'
      BY <2>1, <2>3, <2>9 DEF Decided
    <3>2. WinnerInv' /\ ValueInv' /\ HandshakeInv'
      BY <2>2, <2>3, <2>6, <2>8, <2>9, <3>1, WinnerFound
    <3> QED
      BY <1>1, <2>7, <3>2
  <2>10. CASE remaining # 1
    <3>1. ~Decided'
      BY <2>1, <2>3, <2>5, <2>10 DEF Decided, WaitType
    <3>2. ~Winning(t) /\ ~Winning(t)'
      BY <2>1, <2>6, <2>10 DEF Winning, AheadOf
    <3>3. WinnerInv' /\ ValueInv' /\ HandshakeInv'
      BY <2>2, <2>3, <2>8, <3>1, <3>2, OthersStep
    <3> QED
      BY <1>1, <2>7, <3>3
  <2> QED
    BY <2>9, <2>10
<1>6. ASSUME NEW t \in Tasks, Wait!SetOnce(t) PROVE WaitInv'
  <2>1. runner[t] = "set" /\ Winning(t)
    BY <1>6 DEF Wait!SetOnce, Winning, AheadOf
  <2>2. source.isSet = FALSE
    BY <2>1 DEF ValueInv, WaitType
  <2>3. runner'[t] = "value" /\ \A u \in Tasks : u # t => runner'[u] = runner[u]
    BY <1>6, <2>2 DEF Wait!SetOnce, Wait!Goto, WaitType
  <2>4. /\ UNCHANGED <<kind, completed, remaining, results, awaiter>>
        /\ source'.ready = source.ready /\ source'.coroutine = source.coroutine
        /\ source'.value = source.value
    BY <1>6 DEF Wait!SetOnce, WaitType
  <2>5. /\ Decided /\ Decided' /\ ~Finished /\ WinnerInv' /\ CountInv'
        /\ \A u \in Tasks : u # t => ~Winning(u) /\ ~Winning(u)'
    BY <2>1, <2>3, <2>4, WinnerMoves DEF AheadOf
  <2>6. ~Finished'
    BY <2>3 DEF Finished, Winning, AheadOf
  <2>7. ~Told /\ ~Told' /\ ~Written'
    BY <2>1, <2>3, <2>5, <2>6 DEF Told, Written, Winning, AheadOf
  <2>8. ValueInv'
    BY <2>3, <2>5, <2>7 DEF ValueInv, Winning, AheadOf
  <2>9. HandshakeInv'
    BY <2>4, <2>5, <2>6, <2>7 DEF HandshakeInv, Right
  <2> QED
    BY <1>1, <2>5, <2>8, <2>9
<1>7. ASSUME NEW t \in Tasks, Wait!StoreValue(t) PROVE WaitInv'
  <2>1. runner[t] = "value" /\ Winning(t)
    BY <1>7 DEF Wait!StoreValue, Winning, AheadOf
  <2>2. runner'[t] = "ready" /\ \A u \in Tasks : u # t => runner'[u] = runner[u]
    BY <1>7 DEF Wait!StoreValue, Wait!Goto, WaitType
  <2>3. /\ UNCHANGED <<kind, completed, remaining, results, awaiter>>
        /\ source'.ready = source.ready /\ source'.coroutine = source.coroutine
        /\ source'.value = IF kind = "all" THEN results ELSE {t}
    BY <1>7 DEF Wait!StoreValue, WaitType
  <2>4. /\ Decided /\ Decided' /\ ~Finished /\ WinnerInv' /\ CountInv'
        /\ \A u \in Tasks : u # t => ~Winning(u) /\ ~Winning(u)'
    BY <2>1, <2>2, <2>3, WinnerMoves DEF AheadOf
  <2>5. ~Finished' /\ ~Told /\ ~Told'
    BY <2>1, <2>2, <2>4 DEF Finished, Told, Winning, AheadOf
  <2>6. Right(source.value)'
    BY <2>3, <2>4, AllAreIn, TasksAreFinite DEF Right
  <2>7. ValueInv'
    BY <2>2, <2>4, <2>6 DEF ValueInv, Winning, AheadOf
  <2>8. HandshakeInv'
    BY <2>3, <2>4, <2>5 DEF HandshakeInv, Right
  <2> QED
    BY <1>1, <2>4, <2>7, <2>8
<1>8. ASSUME NEW t \in Tasks, Wait!MarkReady(t) PROVE WaitInv'
  <2>1. runner[t] = "ready" /\ Winning(t) /\ source.ready = FALSE
    BY <1>8 DEF Wait!MarkReady, Winning, AheadOf, WaitType
  <2>2. runner'[t] = "wake" /\ \A u \in Tasks : u # t => runner'[u] = runner[u]
    BY <1>8 DEF Wait!MarkReady, Wait!Goto, WaitType
  <2>3. /\ UNCHANGED <<kind, completed, remaining, results, awaiter>>
        /\ source'.ready = TRUE /\ source'.coroutine = source.coroutine
        /\ source'.value = source.value
    BY <1>8 DEF Wait!MarkReady, WaitType
  <2>4. /\ Decided /\ Decided' /\ ~Finished /\ WinnerInv' /\ CountInv'
        /\ \A u \in Tasks : u # t => ~Winning(u) /\ ~Winning(u)'
    BY <2>1, <2>2, <2>3, WinnerMoves DEF AheadOf
  <2>5. ~Finished' /\ Told'
    BY <2>2 DEF Finished, Told, Winning, AheadOf
  <2>6. ValueInv'
    BY <2>1, <2>2, <2>3, <2>4 DEF ValueInv, Winning, AheadOf, Written, Right
  <2>7. HandshakeInv'
    BY <2>1, <2>3, <2>4, <2>5 DEF HandshakeInv, Right
  <2> QED
    BY <1>1, <2>4, <2>6, <2>7
<1>9. ASSUME NEW t \in Tasks, Wait!Wake(t) PROVE WaitInv'
  <2>1. runner[t] = "wake" /\ Winning(t)
    BY <1>9 DEF Wait!Wake, Winning, AheadOf
  <2>2. runner'[t] = "done" /\ \A u \in Tasks : u # t => runner'[u] = runner[u]
    BY <1>9 DEF Wait!Wake, Wait!Goto, WaitType
  <2>3. UNCHANGED <<kind, completed, remaining, results, source>>
    BY <1>9 DEF Wait!Wake
  <2>4. /\ Decided /\ Decided' /\ ~Finished /\ WinnerInv' /\ CountInv'
        /\ \A u \in Tasks : u # t => ~Winning(u) /\ ~Winning(u)'
    BY <2>1, <2>2, <2>3, WinnerMoves DEF AheadOf
  <2>5. Finished' /\ Told' /\ Told
    BY <2>1, <2>2, <2>4 DEF Finished, Told, Winning, AheadOf
  <2>6. Right(source.value)
    BY <2>1 DEF ValueInv, Written
  <2>7. ValueInv'
    BY <2>2, <2>3, <2>4, <2>6 DEF ValueInv, Winning, AheadOf, Right
  <2>8. HandshakeInv'
    <3>1. CASE source.coroutine = TRUE
      <4>1. awaiter.at = "suspended" /\ awaiter.resumed = 0 /\ source.ready = TRUE
        BY <2>4, <2>5, <3>1 DEF HandshakeInv, WaitType
      <4>2. awaiter' = [at |-> "after", got |-> source.value, resumed |-> 1]
        BY <1>9, <3>1, <4>1 DEF Wait!Wake, Wait!Continue
      <4> QED
        BY <2>3, <2>5, <2>6, <4>1, <4>2 DEF HandshakeInv, Right
    <3>2. CASE source.coroutine = FALSE
      <4>1. awaiter' = awaiter
        BY <1>9, <3>2 DEF Wait!Wake
      <4> QED
        BY <2>3, <2>5, <3>2, <4>1 DEF HandshakeInv, Right
    <3> QED
      BY <3>1, <3>2 DEF WaitType
  <2> QED
    BY <1>1, <2>4, <2>7, <2>8
<1>10. ASSUME Wait!AwaitReady \/ Wait!StoreHandle \/ Wait!Suspend PROVE WaitInv'
  <2>1. UNCHANGED <<kind, runner, completed, remaining, results>>
    BY <1>10 DEF Wait!AwaitReady, Wait!StoreHandle, Wait!Suspend, Wait!tasksRest
  <2>2. source'.isSet = source.isSet /\ source'.value = source.value
    BY <1>10 DEF Wait!AwaitReady, Wait!StoreHandle, Wait!Suspend, WaitType
  <2>3. (Decided' <=> Decided) /\ \A u \in Tasks : Winning(u)' <=> Winning(u)
    BY <2>1 DEF Decided, Winning
  <2>4. (Finished' <=> Finished) /\ (Told' <=> Told) /\ (Written' <=> Written)
    BY <2>1, <2>3 DEF Finished, Told, Written
  <2>5. WinnerInv' /\ ValueInv'
    BY <2>1, <2>2, <2>3, <2>4 DEF WinnerInv, ValueInv, Right
  <2>6. CountInv'
    BY <2>1 DEF CountInv, Uncounted
  <2>7. HandshakeInv'
    <3>1. CASE Wait!AwaitReady
      <4>1. awaiter.at = "before" /\ awaiter.resumed = 0 /\ source.coroutine = FALSE
        BY <3>1 DEF Wait!AwaitReady, HandshakeInv
      <4>2. source'.ready = TRUE /\ source'.coroutine = FALSE
        BY <3>1, <4>1 DEF Wait!AwaitReady, WaitType
      <4>3. CASE source.ready = TRUE
        <5>1. awaiter' = [at |-> "after", got |-> source.value, resumed |-> 1]
          BY <3>1, <4>1, <4>3 DEF Wait!AwaitReady, Wait!Continue
        <5>2. Told /\ Right(source.value)
          BY <4>1, <4>3 DEF HandshakeInv, ValueInv, Told, Written
        <5> QED
          BY <2>1, <2>4, <4>2, <5>1, <5>2 DEF HandshakeInv, Right
      <4>4. CASE source.ready = FALSE
        <5>1. awaiter'.at = "suspending" /\ awaiter'.resumed = 0
          BY <3>1, <4>1, <4>4 DEF Wait!AwaitReady, WaitType
        <5>2. ~Told
          BY <4>1, <4>4 DEF HandshakeInv
        <5> QED
          BY <2>4, <4>2, <5>1, <5>2 DEF HandshakeInv
      <4> QED
        BY <4>3, <4>4 DEF WaitType
    <3>2. CASE Wait!StoreHandle
      <4>1. /\ awaiter.at = "suspending" /\ awaiter'.at = "handed" /\ awaiter'.resumed = awaiter.resumed
            /\ source'.ready = source.ready /\ source'.coroutine = TRUE
        BY <3>2 DEF Wait!StoreHandle, WaitType
      <4> QED
        BY <2>4, <4>1 DEF HandshakeInv
    <3>3. CASE Wait!Suspend
      <4>1. /\ awaiter.at = "handed" /\ awaiter'.at = "suspended" /\ awaiter'.resumed = awaiter.resumed
            /\ source'.ready = FALSE /\ source'.coroutine = source.coroutine
        BY <3>3 DEF Wait!Suspend, WaitType
      <4> QED
        BY <2>4, <4>1 DEF HandshakeInv, Told
    <3> QED
      BY <1>10, <3>1, <3>2, <3>3
  <2> QED
    BY <1>1, <2>5, <2>6, <2>7
<1> QED
  BY <1>2, <1>3, <1>4, <1>5, <1>6, <1>7, <1>8, <1>9, <1>10 DEF Wait!Next

LEMMA WaitInvSuffices == ASSUME WaitInv PROVE Wait!WaitsForTheRight
<1> USE DEF WaitInv
<1>1. awaiter.resumed <= 1
  BY DEF WaitType, HandshakeInv
<1>2. awaiter.at = "after" => awaiter.got # {} /\ (kind = "all" => awaiter.got = Tasks)
  BY DEF HandshakeInv, Right
<1>3. ASSUME \A t \in Tasks : runner[t] = "done" PROVE awaiter.at \in {"before", "after"}
  <2>1. Decided
    <3>1. CASE kind = "any"
      <4>1. PICK t \in Tasks : TRUE
        BY TasksAreFinite
      <4>2. completed # FALSE
        BY <1>3, <3>1, <4>1 DEF CountInv
      <4> QED
        BY <3>1, <4>2 DEF Decided, WaitType
    <3>2. CASE kind = "all"
      <4>1. Uncounted = {}
        BY <1>3 DEF Uncounted
      <4>2. remaining = 0
        BY <3>2, <4>1, FS_EmptySet DEF CountInv
      <4> QED
        BY <3>2, <4>2 DEF Decided
    <3> QED
      BY <3>1, <3>2 DEF WaitType
  <2>2. Finished
    BY <1>3, <2>1 DEF Finished, Winning, AheadOf
  <2>3. Told
    BY <2>2 DEF Told
  <2> QED
    BY <2>2, <2>3 DEF HandshakeInv, WaitType
<1> QED
  BY <1>1, <1>2, <1>3 DEF Wait!WaitsForTheRight

\* when_any and when_all resume their coroutine once, with the right results, and when
\* all tasks are done: for any tasks and whatever their ends and the coroutine's
\* suspension interleave (task_completion_source.h, when_any.h, when_all.h).
THEOREM CoroutinesWakeRight == LibrarySpec => []WaitsForTheRight
<1> DEFINE Inv == part = "wait" => WaitInv
<1>1. LibraryInit => Inv
  BY WaitStarts DEF LibraryInit
<1>2. Inv /\ [LibraryNext]_libraryVars => Inv'
  <2> SUFFICES ASSUME Inv, [LibraryNext]_libraryVars, part' = "wait" PROVE WaitInv'
    OBVIOUS
  <2>1. CASE WaitStep
    BY <2>1, WaitKept DEF WaitStep
  <2>2. CASE UNCHANGED waitVars /\ part' = part
    BY <2>2 DEF waitVars, WaitInv, WaitType, WinnerInv, CountInv, ValueInv, HandshakeInv, Told,
                Written, Finished, Decided, Winning, Uncounted, Right
  <2> QED
    BY <2>1, <2>2 DEF LibraryNext, libraryVars, RingStep, SerialStep, MpStep, ListStep, TokenStep,
                      AsyncStep, FastStep, DelegatesStep, ValueStep
<1>3. Inv => WaitsForTheRight
  BY WaitInvSuffices DEF WaitsForTheRight
<1> QED
  BY <1>1, <1>2, <1>3, PTL DEF LibrarySpec

-----------------------------------------------------------------------------
(* Cancellation: who is in the list when the flag goes up and its oldest   *)
(* node is linked is swept, since that stays so until all of them have     *)
(* been; who is in it when the state goes is taken by the destructor.      *)

TokenType ==
  /\ cancelled \in BOOLEAN /\ alive \in BOOLEAN
  /\ list \in Seq(Waiters) /\ linked \subseteq Waiters
  /\ waiter \in [Waiters -> {"idle", "emplace", "link", "entered", "waiting", "released", "lost"}]
  /\ canceller \in [Cancellers -> {"idle", "sweep", "done"}]
  /\ outcome \in [Waiters -> {"none", "true", "false"}]
  /\ early \subseteq Waiters

Listed(w) == \E i \in DOMAIN list : list[i] = w
Sweeping == \E c \in Cancellers : canceller[c] = "sweep"

OutcomeInv ==
  /\ \A w \in Waiters : outcome[w] = "true" => cancelled = TRUE
  /\ \A w \in Waiters : outcome[w] = "false" => alive = FALSE /\ cancelled = FALSE

EarlyInv ==
  /\ cancelled = FALSE => ~Sweeping /\ early = {}
  /\ \A w \in early : outcome[w] = "true" \/ (Listed(w) /\ Sweeping /\ Token!HasBack)

LifeInv ==
  /\ alive = TRUE => \A w \in Waiters : waiter[w] \in {"link", "entered", "waiting"}
                                          => Listed(w) \/ outcome[w] # "none"
  /\ alive = FALSE => ~Sweeping /\ \A w \in Waiters : waiter[w] \notin {"emplace", "link", "entered"}
  /\ alive = FALSE /\ cancelled = FALSE
       => \A w \in Waiters : waiter[w] = "waiting" => outcome[w] # "none"

TokenInv == TokenType /\ OutcomeInv /\ EarlyInv /\ LifeInv

LEMMA TokenStarts == ASSUME Token!Init PROVE TokenInv
<1>1. TokenType
  <2>1. <<>> \in Seq(Waiters)
    OBVIOUS
  <2>2. waiter \in [Waiters -> {"idle", "emplace", "link", "entered", "waiting", "released", "lost"}]
    BY DEF Token!Init
  <2>3. /\ canceller \in [Cancellers -> {"idle", "sweep", "done"}]
        /\ outcome \in [Waiters -> {"none", "true", "false"}]
    BY DEF Token!Init
  <2> QED
    BY <2>1, <2>2, <2>3 DEF Token!Init, TokenType
<1>2. OutcomeInv /\ EarlyInv /\ LifeInv
  BY DEF Token!Init, OutcomeInv, EarlyInv, LifeInv, Sweeping
<1> QED
  BY <1>1, <1>2 DEF TokenInv

LEMMA ListedAppend ==
    ASSUME TokenType, NEW w \in Waiters, list' = Append(list, w)
    PROVE  list' \in Seq(Waiters) /\ \A v \in Waiters : Listed(v)' <=> Listed(v) \/ v = w
<1>1. list' \in Seq(Waiters) /\ Len(list') = Len(list) + 1 /\ list'[Len(list) + 1] = w
  BY DEF TokenType
<1>2. \A i \in 1..Len(list) : list'[i] = list[i]
  BY DEF TokenType
<1>3. DOMAIN list = 1..Len(list) /\ DOMAIN list' = 1..Len(list') /\ Len(list) \in Nat
  BY <1>1 DEF TokenType
<1>4. ASSUME NEW v \in Waiters, Listed(v)' PROVE Listed(v) \/ v = w
  <2>1. PICK i \in 1..Len(list') : list'[i] = v
    BY <1>3, <1>4 DEF Listed
  <2>2. CASE i = Len(list) + 1
    BY <1>1, <2>1, <2>2
  <2>3. CASE i # Len(list) + 1
    <3>1. i \in 1..Len(list)
      BY <1>1, <1>3, <2>1, <2>3
    <3> QED
      BY <1>2, <1>3, <2>1, <3>1 DEF Listed
  <2> QED
    BY <2>2, <2>3
<1>5. ASSUME NEW v \in Waiters, Listed(v) PROVE Listed(v)'
  <2>1. PICK i \in 1..Len(list) : list[i] = v
    BY <1>3, <1>5 DEF Listed
  <2>2. i \in DOMAIN list' /\ list'[i] = v
    BY <1>1, <1>2, <1>3, <2>1
  <2> QED
    BY <2>2 DEF Listed
<1>6. Listed(w)'
  <2>1. Len(list) + 1 \in DOMAIN list'
    BY <1>1, <1>3
  <2> QED
    BY <1>1, <2>1 DEF Listed
<1> QED
  BY <1>1, <1>4, <1>5, <1>6

LEMMA ListedTail ==
    ASSUME TokenType, list # <<>>, list' = Tail(list)
    PROVE  /\ Head(list) \in Waiters /\ list' \in Seq(Waiters)
           /\ \A v \in Waiters : Listed(v) => Listed(v)' \/ v = Head(list)
<1>1. Head(list) \in Waiters /\ list' \in Seq(Waiters) /\ Head(list) = list[1]
  BY DEF TokenType
<1>2. Len(list) \in Nat /\ DOMAIN list = 1..Len(list) /\ DOMAIN list' = 1..(Len(list) - 1)
  BY DEF TokenType
<1>3. \A i \in 1..(Len(list) - 1) : list'[i] = list[i + 1]
  BY DEF TokenType
<1>4. ASSUME NEW v \in Waiters, Listed(v), v # Head(list) PROVE Listed(v)'
  <2>1. PICK i \in 1..Len(list) : list[i] = v
    BY <1>2, <1>4 DEF Listed
  <2>2. i - 1 \in 1..(Len(list) - 1) /\ (i - 1) + 1 = i
    BY <1>1, <1>2, <1>4, <2>1
  <2>3. list'[i - 1] = v
    BY <1>3, <2>1, <2>2
  <2> QED
    BY <1>2, <2>2, <2>3 DEF Listed
<1> QED
  BY <1>1, <1>4

LEMMA TokenKept == ASSUME TokenInv, Token!Next PROVE TokenInv'
<1> USE DEF TokenInv
<1>1. ASSUME NEW w \in Waiters, Token!CheckFlag(w) PROVE TokenInv'
  <2>1. /\ alive = TRUE /\ waiter[w] = "idle"
        /\ waiter' = [waiter EXCEPT ![w] = IF cancelled THEN "released" ELSE "emplace"]
        /\ UNCHANGED <<cancelled, list, linked, canceller, alive, outcome, early>>
    BY <1>1 DEF Token!CheckFlag, Token!Goto, Token!cancellersRest, TokenType
  <2>2. waiter'[w] \in {"released", "emplace"} /\ \A v \in Waiters : v # w => waiter'[v] = waiter[v]
    BY <2>1 DEF TokenType
  <2>3. TokenType'
    BY <2>1 DEF TokenType
  <2>4. /\ (Sweeping' <=> Sweeping) /\ (Token!HasBack' <=> Token!HasBack)
        /\ \A v \in Waiters : Listed(v)' <=> Listed(v)
    BY <2>1 DEF Sweeping, Listed, Token!HasBack
  <2>5. OutcomeInv' /\ EarlyInv'
    BY <2>1, <2>4 DEF OutcomeInv, EarlyInv, TokenType
  <2>6. LifeInv'
    BY <2>1, <2>2, <2>4 DEF LifeInv
  <2> QED
    BY <2>3, <2>5, <2>6
<1>2. ASSUME NEW w \in Waiters, Token!EmplaceNode(w) PROVE TokenInv'
  <2>1. /\ waiter[w] = "emplace" /\ list' = Append(list, w)
        /\ waiter' = [waiter EXCEPT ![w] = "link"]
        /\ UNCHANGED <<cancelled, linked, canceller, alive, outcome, early>>
    BY <1>2 DEF Token!EmplaceNode, Token!Goto, Token!cancellersRest
  <2>2. waiter'[w] = "link" /\ \A v \in Waiters : v # w => waiter'[v] = waiter[v]
    BY <2>1 DEF TokenType
  <2>3. list' \in Seq(Waiters) /\ \A v \in Waiters : Listed(v)' <=> Listed(v) \/ v = w
    BY <2>1, ListedAppend
  <2>4. TokenType'
    BY <2>1, <2>3 DEF TokenType
  <2>5. (Sweeping' <=> Sweeping) /\ (Token!HasBack => Token!HasBack')
    <3>1. list # <<>> => list' # <<>> /\ Head(list') = Head(list)
      BY <2>1 DEF TokenType
    <3> QED
      BY <2>1, <3>1 DEF Sweeping, Token!HasBack
  <2>6. OutcomeInv' /\ EarlyInv'
    BY <2>1, <2>3, <2>5 DEF OutcomeInv, EarlyInv, TokenType
  <2>7. alive = TRUE
    BY <2>1 DEF LifeInv, TokenType
  <2>8. LifeInv'
    BY <2>1, <2>2, <2>3, <2>5, <2>7 DEF LifeInv
  <2> QED
    BY <2>4, <2>6, <2>8
<1>3. ASSUME NEW w \in Waiters, Token!LinkNode(w) PROVE TokenInv'
  <2>1. /\ waiter[w] = "link" /\ linked' = linked \cup {w}
        /\ waiter' = [waiter EXCEPT ![w] = "entered"]
        /\ UNCHANGED <<cancelled, list, canceller, alive, outcome, early>>
    BY <1>3 DEF Token!LinkNode, Token!Goto, Token!cancellersRest
  <2>2. waiter'[w] = "entered" /\ \A v \in Waiters : v # w => waiter'[v] = waiter[v]
    BY <2>1 DEF TokenType
  <2>3. TokenType'
    BY <2>1 DEF TokenType
  <2>4. /\ (Sweeping' <=> Sweeping) /\ (Token!HasBack => Token!HasBack')
        /\ \A v \in Waiters : Listed(v)' <=> Listed(v)
    BY <2>1 DEF Sweeping, Listed, Token!HasBack
  <2>5. OutcomeInv' /\ EarlyInv'
    BY <2>1, <2>4 DEF OutcomeInv, EarlyInv, TokenType
  <2>6. alive = TRUE
    BY <2>1 DEF LifeInv, TokenType
  <2>7. LifeInv'
    BY <2>1, <2>2, <2>4, <2>6 DEF LifeInv
  <2> QED
    BY <2>3, <2>5, <2>7
<1>4. ASSUME NEW w \in Waiters, Token!Await(w) PROVE TokenInv'
  <2>1. /\ waiter[w] = "entered"
        /\ \/ waiter' = [waiter EXCEPT ![w] = "waiting"]
           \/ waiter' = [waiter EXCEPT ![w] = "lost"]
        /\ UNCHANGED <<cancelled, list, linked, canceller, alive, outcome, early>>
    BY <1>4 DEF Token!Await, Token!Goto, Token!cancellersRest
  <2>2. waiter'[w] \in {"waiting", "lost"} /\ \A v \in Waiters : v # w => waiter'[v] = waiter[v]
    BY <2>1 DEF TokenType
  <2>3. TokenType'
    BY <2>1 DEF TokenType
  <2>4. /\ (Sweeping' <=> Sweeping) /\ (Token!HasBack' <=> Token!HasBack)
        /\ \A v \in Waiters : Listed(v)' <=> Listed(v)
    BY <2>1 DEF Sweeping, Listed, Token!HasBack
  <2>5. OutcomeInv' /\ EarlyInv'
    BY <2>1, <2>4 DEF OutcomeInv, EarlyInv, TokenType
  <2>6. alive = TRUE
    BY <2>1 DEF LifeInv, TokenType
  <2>7. LifeInv'
    BY <2>1, <2>2, <2>4, <2>6 DEF LifeInv
  <2> QED
    BY <2>3, <2>5, <2>7
<1>5. ASSUME NEW w \in Waiters, Token!Released(w) PROVE TokenInv'
  <2>1. /\ waiter' = [waiter EXCEPT ![w] = "released"]
        /\ UNCHANGED <<cancelled, list, linked, canceller, alive, outcome, early>>
    BY <1>5 DEF Token!Released, Token!Goto, Token!cancellersRest
  <2>2. waiter'[w] = "released" /\ \A v \in Waiters : v # w => waiter'[v] = waiter[v]
    BY <2>1 DEF TokenType
  <2>3. TokenType'
    BY <2>1 DEF TokenType
  <2>4. /\ (Sweeping' <=> Sweeping) /\ (Token!HasBack' <=> Token!HasBack)
        /\ \A v \in Waiters : Listed(v)' <=> Listed(v)
    BY <2>1 DEF Sweeping, Listed, Token!HasBack
  <2>5. OutcomeInv' /\ EarlyInv'
    BY <2>1, <2>4 DEF OutcomeInv, EarlyInv, TokenType
  <2>6. LifeInv'
    BY <2>1, <2>2, <2>4 DEF LifeInv
  <2> QED
    BY <2>3, <2>5, <2>6
<1>6. ASSUME NEW c \in Cancellers, Token!RaiseFlag(c) PROVE TokenInv'
  <2>1. /\ alive = TRUE /\ cancelled' = TRUE
        /\ canceller' = [canceller EXCEPT ![c] = IF cancelled THEN "done" ELSE "sweep"]
        /\ early' = IF cancelled THEN early ELSE IF Token!HasBack THEN {w \in Waiters : Listed(w)} ELSE {}
        /\ UNCHANGED <<list, linked, waiter, alive, outcome>> /\ canceller[c] = "idle"
    BY <1>6 DEF Token!RaiseFlag, Token!Reached, Listed, TokenType
  <2>2. TokenType'
    <3>1. CASE cancelled = TRUE
      BY <2>1, <3>1 DEF TokenType
    <3>2. CASE cancelled = FALSE
      BY <2>1, <3>2 DEF TokenType
    <3> QED
      BY <3>1, <3>2 DEF TokenType
  <2>3. (Token!HasBack' <=> Token!HasBack) /\ \A w \in Waiters : Listed(w)' <=> Listed(w)
    BY <2>1 DEF Listed, Token!HasBack
  <2>4. OutcomeInv'
    BY <2>1 DEF OutcomeInv, TokenType
  <2>5. EarlyInv'
    <3>1. CASE cancelled = TRUE
      <4>1. Sweeping' <=> Sweeping
        BY <2>1, <3>1 DEF Sweeping, TokenType
      <4> QED
        BY <2>1, <2>3, <3>1, <4>1 DEF EarlyInv, TokenType
    <3>2. CASE cancelled = FALSE
      <4>1. Sweeping'
        BY <2>1, <3>2 DEF Sweeping, TokenType
      <4>2. early' = IF Token!HasBack THEN {w \in Waiters : Listed(w)} ELSE {}
        BY <2>1, <3>2
      <4> QED
        BY <2>1, <2>3, <4>1, <4>2 DEF EarlyInv
    <3> QED
      BY <3>1, <3>2 DEF TokenType
  <2>6. LifeInv'
    BY <2>1, <2>3 DEF LifeInv
  <2> QED
    BY <2>2, <2>4, <2>5, <2>6
<1>7. ASSUME NEW c \in Cancellers, Token!Sweep(c) PROVE TokenInv'
  <2>1. canceller[c] = "sweep" /\ UNCHANGED <<cancelled, linked, waiter, alive, early>>
    BY <1>7 DEF Token!Sweep
  <2>2. Sweeping /\ cancelled = TRUE /\ alive = TRUE
    BY <2>1 DEF Sweeping, EarlyInv, LifeInv, TokenType
  <2>3. CASE ~Token!HasBack
    <3>1. canceller' = [canceller EXCEPT ![c] = "done"] /\ UNCHANGED <<list, outcome>>
      BY <1>7, <2>3 DEF Token!Sweep
    <3>2. TokenType'
      BY <2>1, <3>1 DEF TokenType
    <3>3. \A w \in early : outcome[w] = "true"
      BY <2>3 DEF EarlyInv
    <3>4. EarlyInv'
      BY <2>1, <2>2, <3>1, <3>3 DEF EarlyInv, TokenType
    <3>5. \A w \in Waiters : Listed(w)' <=> Listed(w)
      BY <3>1 DEF Listed
    <3>6. OutcomeInv' /\ LifeInv'
      BY <2>1, <2>2, <3>1, <3>5 DEF OutcomeInv, LifeInv
    <3> QED
      BY <3>2, <3>4, <3>6
  <2>4. CASE Token!HasBack
    <3>0. list # <<>>
      BY <2>4 DEF Token!HasBack
    <3>1. /\ outcome' = [outcome EXCEPT ![Head(list)] = "true"]
          /\ list' = Tail(list) /\ UNCHANGED canceller
          /\ 2 \in DOMAIN list => list[2] \in linked
      BY <1>7, <2>4 DEF Token!Sweep
    <3>2. /\ Head(list) \in Waiters /\ list' \in Seq(Waiters)
          /\ \A v \in Waiters : Listed(v) => Listed(v)' \/ v = Head(list)
      BY <3>0, <3>1, ListedTail
    <3>3. outcome'[Head(list)] = "true" /\ \A v \in Waiters : v # Head(list) => outcome'[v] = outcome[v]
      BY <3>1, <3>2 DEF TokenType
    <3>4. TokenType'
      BY <2>1, <3>1, <3>2 DEF TokenType
    <3>5. Sweeping' <=> Sweeping
      BY <3>1 DEF Sweeping
    <3>6. list' # <<>> => Token!HasBack'
      <4>1. list' # <<>> => 2 \in DOMAIN list /\ Head(list') = list[2]
        BY <3>0, <3>1 DEF TokenType
      <4> QED
        BY <2>1, <3>1, <4>1 DEF Token!HasBack
    <3>7. \A v \in Waiters : Listed(v)' => Token!HasBack'
      BY <3>2, <3>6 DEF Listed
    <3>8. EarlyInv'
      BY <2>1, <2>2, <3>2, <3>3, <3>5, <3>7 DEF EarlyInv, TokenType
    <3>9. OutcomeInv' /\ LifeInv'
      BY <2>1, <2>2, <3>2, <3>3 DEF OutcomeInv, LifeInv
    <3> QED
      BY <3>4, <3>8, <3>9
  <2> QED
    BY <2>3, <2>4
<1>8. CASE Token!Destroy
  <2>1. /\ alive = TRUE /\ alive' = FALSE /\ list' = <<>>
        /\ \A w \in Waiters : waiter[w] \in {"idle", "waiting", "released", "lost"}
        /\ ~Sweeping /\ UNCHANGED <<cancelled, linked, waiter, canceller, early>>
        /\ outcome' = [w \in Waiters |-> IF ~cancelled /\ Listed(w) THEN "false" ELSE outcome[w]]
    BY <1>8 DEF Token!Destroy, Sweeping, Listed, TokenType
  <2>2. TokenType'
    <3>1. outcome' \in [Waiters -> {"none", "true", "false"}]
      BY <2>1 DEF TokenType
    <3>2. list' \in Seq(Waiters)
      BY <2>1
    <3> QED
      BY <2>1, <3>1, <3>2 DEF TokenType
  <2>3. ~Sweeping'
    BY <2>1 DEF Sweeping
  <2>4. CASE cancelled = TRUE
    <3>1. outcome' = outcome
      BY <2>1, <2>4 DEF TokenType
    <3> QED
      BY <2>1, <2>2, <2>3, <2>4, <3>1 DEF OutcomeInv, EarlyInv, LifeInv
  <2>5. CASE cancelled = FALSE
    <3>1. \A w \in Waiters : outcome'[w] = IF Listed(w) THEN "false" ELSE outcome[w]
      BY <2>1, <2>5
    <3> QED
      BY <2>1, <2>2, <2>3, <2>5, <3>1 DEF OutcomeInv, EarlyInv, LifeInv
  <2> QED
    BY <2>4, <2>5 DEF TokenType
<1> QED
  BY <1>1, <1>2, <1>4, <1>5, <1>6, <1>7, <1>8, <1>3 DEF Token!Next

LEMMA TokenInvSuffices == ASSUME TokenInv PROVE Token!WaitersAreReleased
  BY DEF TokenInv, OutcomeInv, EarlyInv, LifeInv, Sweeping, Token!WaitersAreReleased, TokenType

\* Who is in the list when a cancellation comes, and not behind a push that is not complete,
\* is released with true, who awaits one that never comes with false, for any waiters and
\* any threads that cancel (cancellation_token.h).
THEOREM CancellationReleases == LibrarySpec => []WaitersAreReleased
<1> DEFINE Inv == part = "token" => TokenInv
<1>1. LibraryInit => Inv
  BY TokenStarts DEF LibraryInit
<1>2. Inv /\ [LibraryNext]_libraryVars => Inv'
  <2> SUFFICES ASSUME Inv, [LibraryNext]_libraryVars, part' = "token" PROVE TokenInv'
    OBVIOUS
  <2>1. CASE TokenStep
    BY <2>1, TokenKept DEF TokenStep
  <2>2. CASE UNCHANGED tokenVars /\ part' = part
    BY <2>2 DEF tokenVars, TokenInv, TokenType, OutcomeInv, EarlyInv, LifeInv, Listed, Sweeping,
                Token!HasBack
  <2> QED
    BY <2>1, <2>2 DEF LibraryNext, libraryVars, RingStep, SerialStep, MpStep, ListStep, WaitStep,
                      AsyncStep, FastStep, DelegatesStep, ValueStep
<1>3. Inv => WaitersAreReleased
  BY TokenInvSuffices DEF WaitersAreReleased
<1> QED
  BY <1>1, <1>2, <1>3, PTL DEF LibrarySpec

-----------------------------------------------------------------------------
(* AsyncQueue: as long as no two pushes overlap, the completion sources    *)
(* are the unset ones at the end and one set for every item before them.   *)

AsyncType ==
  /\ items \in Seq(Writers \X Nat)
  /\ tcsQueue \in Seq(Nat) /\ setTcs \subseteq 0..made
  /\ curTcs \in Nat /\ made \in Nat
  /\ write \in [Writers -> [at : {"idle", "tcs", "takeBack"}] \cup [at : {"exchange"}, new : Nat]
                             \cup [at : {"set"}, old : Nat]]
  /\ tries \in [Writers -> 0..MaxPushes]
  /\ read \in [at : {"idle", "item", "done"}] \cup [at : {"await"}, tcs : Nat]
  /\ accepted \in [Writers -> Seq(Nat)] /\ taken \in [Writers -> Seq(Nat)]

Pushes(w) == write[w].at # "idle"
\* What push has said of w's items is in, and the one it is about to say it of.
Entry(w, k) == IF k <= Len(accepted[w]) THEN accepted[w][k] ELSE tries[w]
Count(w) == Len(accepted[w]) + (IF Pushes(w) THEN 1 ELSE 0)

PushInv ==
  /\ \A v, w \in Writers : Pushes(v) /\ Pushes(w) => v = w
  /\ \A w \in Writers :
       /\ Count(w) <= tries[w]
       /\ \A k \in 1..Count(w) : Entry(w, k) <= tries[w]
       /\ \A k \in 1..Count(w) : \A j \in 1..Count(w) : j < k => Entry(w, j) < Entry(w, k)

\* The consumer got the first of what is in; the rest is here, in its order.
GotInv ==
  \A w \in Writers : /\ Len(taken[w]) <= Len(accepted[w])
                     /\ \A k \in 1..Len(taken[w]) : taken[w][k] = accepted[w][k]
HereInv ==
  \A w \in Writers : \A k \in Len(taken[w]) + 1..Count(w) :
    \E i \in 1..Len(items) : items[i] = <<w, Entry(w, k)>>
OwnInv ==
  \A i \in 1..Len(items) :
    \E w \in Writers : \E k \in Len(taken[w]) + 1..Count(w) : items[i] = <<w, Entry(w, k)>>
SequenceInv ==
  \A i, j \in 1..Len(items) : j < i /\ items[j][1] = items[i][1] => items[j][2] < items[i][2]
LastInv ==
  \A w \in Writers : Pushes(w) => Len(items) > 0 /\ items[Len(items)] = <<w, tries[w]>>

ItemsInv == GotInv /\ HereInv /\ OwnInv /\ SequenceInv /\ LastInv

Unsourced == IF \E w \in Writers : write[w].at \in {"tcs", "takeBack"} THEN 1 ELSE 0
Unset == IF \E w \in Writers : write[w].at \in {"exchange", "set"} THEN 2 ELSE 1
Woken == IF read.at = "item" THEN 1 ELSE 0

SourcesInv ==
  /\ Len(tcsQueue) >= Unset
  /\ \A i \in 1..Len(tcsQueue) : /\ tcsQueue[i] \in setTcs <=> i <= Len(tcsQueue) - Unset
                                 /\ tcsQueue[i] <= made
                                 /\ \A j \in 1..Len(tcsQueue) : j < i => tcsQueue[j] < tcsQueue[i]
  /\ (\A w \in Writers : write[w].at # "exchange") => tcsQueue[Len(tcsQueue)] = curTcs
  /\ \A w \in Writers : write[w].at = "exchange" => /\ tcsQueue[Len(tcsQueue)] = write[w].new
                                                    /\ tcsQueue[Len(tcsQueue) - 1] = curTcs
  /\ \A w \in Writers : write[w].at = "set" => tcsQueue[Len(tcsQueue) - 1] = write[w].old
  /\ Len(items) = Len(tcsQueue) - 1 + Woken + Unsourced
  /\ read.at = "await" => read.tcs = tcsQueue[1]

AsyncInv ==
  /\ overlapped \in BOOLEAN
  /\ overlapped = FALSE => AsyncType /\ PushInv /\ ItemsInv /\ SourcesInv

LEMMA AsyncStarts == ASSUME Async!Init PROVE AsyncInv
<1>1. AsyncType
  <2>1. items \in Seq(Writers \X Nat) /\ tcsQueue \in Seq(Nat)
    BY DEF Async!Init
  <2>2. /\ write \in [Writers -> [at : {"idle", "tcs", "takeBack"}]]
        /\ read \in [at : {"idle", "item", "done"}]
    BY DEF Async!Init, Async!Resting
  <2>3. tries \in [Writers -> 0..MaxPushes]
    BY LibraryAssumption DEF Async!Init, Async!PushesAssumption
  <2>4. accepted \in [Writers -> Seq(Nat)] /\ taken \in [Writers -> Seq(Nat)]
    BY DEF Async!Init
  <2> QED
    BY <2>1, <2>2, <2>3, <2>4 DEF Async!Init, AsyncType
<1>2. \A w \in Writers : /\ write[w].at = "idle" /\ ~Pushes(w) /\ tries[w] = 0 /\ Count(w) = 0
                         /\ accepted[w] = <<>> /\ taken[w] = <<>>
  BY DEF Async!Init, Async!Resting, Pushes, Count
<1>3. PushInv
  BY <1>2 DEF PushInv
<1>4. Len(items) = 0 /\ Len(tcsQueue) = 1 /\ tcsQueue[1] = 1 /\ setTcs = {} /\ curTcs = 1 /\ made = 1
  BY DEF Async!Init
<1>5. ItemsInv
  BY <1>2, <1>4 DEF ItemsInv, GotInv, HereInv, OwnInv, SequenceInv, LastInv
<1>6. Unsourced = 0 /\ Unset = 1 /\ Woken = 0 /\ read.at = "idle"
  BY <1>2 DEF Unsourced, Unset, Woken, Async!Init, Async!Resting
<1>7. SourcesInv
  BY <1>2, <1>4, <1>6 DEF SourcesInv
<1> QED
  BY <1>1, <1>3, <1>5, <1>7 DEF AsyncInv, Async!Init

LEMMA WithoutIs ==
    ASSUME NEW T, NEW s \in Seq(T), NEW n \in 1..Len(s),
           \A i \in 1..Len(s) : s[i] = s[n] => i = n
    PROVE  /\ Async!Without(s, s[n]) \in Seq(T)
           /\ Len(Async!Without(s, s[n])) = Len(s) - 1
           /\ \A i \in 1..(Len(s) - 1) : Async!Without(s, s[n])[i] = IF i < n THEN s[i] ELSE s[i + 1]
<1> DEFINE head == SubSeq(s, 1, n - 1)
           tail == SubSeq(s, n + 1, Len(s))
<1>1. Async!Without(s, s[n]) = head \o tail
  <2>1. (CHOOSE i \in DOMAIN s : s[i] = s[n]) = n
    OBVIOUS
  <2>2. Async!Without(s, s[n]) = Async!RemoveAt(s, n)
    BY <2>1 DEF Async!Without
  <2> QED
    BY <2>2 DEF Async!RemoveAt
<1>2. /\ Len(s) \in Nat /\ head \in Seq(T) /\ tail \in Seq(T)
      /\ Len(head) = n - 1 /\ Len(tail) = Len(s) - n
      /\ \A i \in 1..(n - 1) : head[i] = s[i]
      /\ \A i \in 1..(Len(s) - n) : tail[i] = s[n + i]
  OBVIOUS
<1> HIDE DEF head, tail
<1>3. head \o tail \in Seq(T) /\ Len(head \o tail) = Len(s) - 1
  <2>1. head \o tail \in Seq(T) /\ Len(head \o tail) = Len(head) + Len(tail)
    BY <1>2, ConcatProperties
  <2> QED
    BY <1>2, <2>1
<1>4. ASSUME NEW i \in 1..(Len(s) - 1) PROVE (head \o tail)[i] = IF i < n THEN s[i] ELSE s[i + 1]
  <2>1. CASE i < n
    BY <1>2, <2>1
  <2>2. CASE i >= n
    <3>1. (head \o tail)[i] = tail[i - (n - 1)]
      BY <1>2, <2>2
    <3>2. i - (n - 1) \in 1..(Len(s) - n)
      BY <1>2, <2>2
    <3>3. tail[i - (n - 1)] = s[n + (i - (n - 1))]
      BY <1>2, <3>2
    <3>4. n + (i - (n - 1)) = i + 1
      BY <1>2
    <3>5. (head \o tail)[i] = s[i + 1]
      BY <3>1, <3>3, <3>4
    <3> QED
      BY <1>2, <2>2, <3>5
  <2> QED
    BY <1>2, <2>1, <2>2
<1> QED
  BY <1>1, <1>3, <1>4

\* A step that leaves the items, and who pushes, as they are.
LEMMA ItemsRest ==
    ASSUME PushInv, ItemsInv, UNCHANGED <<items, tries, accepted, taken>>,
           \A w \in Writers : Pushes(w)' <=> Pushes(w)
    PROVE  PushInv' /\ ItemsInv'
<1>1. \A w \in Writers : Count(w)' = Count(w) /\ \A k : Entry(w, k)' = Entry(w, k)
  BY DEF Count, Entry
<1>2. PushInv'
  BY <1>1 DEF PushInv
<1>3. GotInv' /\ SequenceInv' /\ LastInv'
  BY DEF ItemsInv, GotInv, SequenceInv, LastInv
<1>4. ASSUME NEW w \in Writers, NEW k \in Len(taken'[w]) + 1..Count(w)'
      PROVE  \E i \in 1..Len(items') : items'[i] = <<w, Entry(w, k)'>>
  <2>1. PICK i \in 1..Len(items) : items[i] = <<w, Entry(w, k)>>
    BY <1>1 DEF ItemsInv, HereInv
  <2>2. Entry(w, k)' = Entry(w, k)
    BY <1>1
  <2> QED
    BY <2>1, <2>2
<1>5. ASSUME NEW i \in 1..Len(items')
      PROVE  \E w \in Writers : \E k \in Len(taken'[w]) + 1..Count(w)' : items'[i] = <<w, Entry(w, k)'>>
  <2>1. PICK w \in Writers : \E k \in Len(taken[w]) + 1..Count(w) : items[i] = <<w, Entry(w, k)>>
    BY DEF ItemsInv, OwnInv
  <2>2. Count(w)' = Count(w) /\ \A k : Entry(w, k)' = Entry(w, k)
    BY <1>1
  <2> QED
    BY <2>1, <2>2
<1>6. HereInv' /\ OwnInv'
  BY <1>4, <1>5 DEF HereInv, OwnInv
<1> QED
  BY <1>2, <1>3, <1>6 DEF ItemsInv

\* Where a push is tells how many sources are unset, and whether one is missing.
LEMMA OnePush ==
    ASSUME PushInv, NEW w \in Writers, Pushes(w)
    PROVE  /\ \A v \in Writers : v # w => write[v].at = "idle"
           /\ Unsourced = IF write[w].at \in {"tcs", "takeBack"} THEN 1 ELSE 0
           /\ Unset = IF write[w].at \in {"exchange", "set"} THEN 2 ELSE 1
<1>1. \A v \in Writers : v # w => write[v].at = "idle"
  BY DEF PushInv, Pushes
<1> QED
  BY <1>1 DEF Unsourced, Unset

LEMMA NoPush ==
    ASSUME \A v \in Writers : write[v].at = "idle"
    PROVE  Unsourced = 0 /\ Unset = 1
  BY DEF Unsourced, Unset

LEMMA EmplaceItemKept ==
    ASSUME AsyncType, PushInv, ItemsInv, SourcesInv, NEW w \in Writers, Async!EmplaceItem(w),
           overlapped' = FALSE
    PROVE  AsyncType' /\ PushInv' /\ ItemsInv' /\ SourcesInv'
<1>1. /\ write[w].at = "idle" /\ tries[w] < MaxPushes
      /\ tries' = [tries EXCEPT ![w] = @ + 1]
      /\ UNCHANGED <<read, taken, tcsQueue, setTcs, curTcs, made, accepted>>
  BY DEF Async!EmplaceItem, Async!consumerRests
<1>2. tries'[w] = tries[w] + 1 /\ \A v \in Writers : v # w => tries'[v] = tries[v]
  BY <1>1 DEF AsyncType
<1>3. tries' \in [Writers -> 0..MaxPushes] /\ \A v \in Writers : tries[v] \in Nat
  BY <1>1, LibraryAssumption DEF AsyncType, Async!PushesAssumption
<1>4. Count(w) = Len(accepted[w]) /\ Len(accepted[w]) \in Nat
  BY <1>1 DEF Count, Pushes, AsyncType
<1>5. CASE Len(items) < ListCapacity
  <2>1. /\ items' = Append(items, <<w, tries[w] + 1>>)
        /\ write' = [write EXCEPT ![w] = [at |-> "tcs"]]
        /\ \A v \in Writers : write[v].at = "idle"
    BY <1>5 DEF Async!EmplaceItem, Async!Goto
  <2>2. write'[w].at = "tcs" /\ \A v \in Writers : v # w => write'[v] = write[v]
    BY <2>1 DEF AsyncType
  <2>3. <<w, tries[w] + 1>> \in Writers \X Nat
    BY <1>3
  <2>4. /\ items' \in Seq(Writers \X Nat) /\ Len(items') = Len(items) + 1 /\ Len(items) \in Nat
        /\ \A i \in 1..Len(items) : items'[i] = items[i]
        /\ items'[Len(items) + 1] = <<w, tries'[w]>>
    BY <1>2, <2>1, <2>3, AppendProperties DEF AsyncType
  <2>5. AsyncType'
    <3>1. write' \in [Writers -> [at : {"idle", "tcs", "takeBack"}] \cup [at : {"exchange"}, new : Nat]
                                   \cup [at : {"set"}, old : Nat]]
      BY <2>1 DEF AsyncType
    <3> QED
      BY <1>1, <1>3, <2>4, <3>1 DEF AsyncType
  <2>6. /\ \A v \in Writers : ~Pushes(v) /\ (Pushes(v)' <=> v = w)
        /\ Count(w)' = Count(w) + 1 /\ \A v \in Writers : v # w => Count(v)' = Count(v)
    BY <1>1, <1>4, <2>1, <2>2 DEF Pushes, Count
  <2>7. /\ \A v \in Writers : \A k \in 1..Count(v) : Entry(v, k)' = Entry(v, k)
        /\ \A k : k = Count(w) + 1 => Entry(w, k)' = tries'[w]
    <3>1. ASSUME NEW v \in Writers, NEW k \in 1..Count(v) PROVE Entry(v, k)' = Entry(v, k)
      <4>1. Count(v) = Len(accepted[v]) /\ Len(accepted[v]) \in Nat
        BY <2>6 DEF Count, AsyncType
      <4> QED
        BY <1>1, <4>1 DEF Entry
    <3>2. ASSUME NEW k, k = Count(w) + 1 PROVE Entry(w, k)' = tries'[w]
      BY <1>1, <1>4, <3>2 DEF Entry
    <3> QED
      BY <3>1, <3>2
  <2>8. PushInv'
    <3>1. \A v \in Writers : v # w => /\ Count(v)' <= tries'[v]
                                      /\ \A k \in 1..Count(v)' : Entry(v, k)' <= tries'[v]
                                      /\ \A k \in 1..Count(v)' : \A j \in 1..Count(v)' : j < k => Entry(v, j)' < Entry(v, k)'
      BY <1>2, <2>6, <2>7 DEF PushInv
    <3>2. Count(w)' <= tries'[w]
      BY <1>2, <1>3, <1>4, <2>6 DEF PushInv
    <3>5. ASSUME NEW k \in 1..Count(w)' PROVE Entry(w, k)' <= tries'[w]
      <4>1. CASE k = Count(w) + 1
        BY <1>2, <1>3, <2>7, <4>1
      <4>2. CASE k \in 1..Count(w)
        <5>1. Entry(w, k)' = Entry(w, k) /\ Entry(w, k) <= tries[w] /\ Entry(w, k) \in Nat
          BY <1>3, <1>4, <2>7, <4>2 DEF PushInv, Entry, AsyncType
        <5> QED
          BY <1>2, <1>3, <5>1
      <4> QED
        BY <1>4, <2>6, <4>1, <4>2
    <3>3. ASSUME NEW k \in 1..Count(w)', NEW j \in 1..Count(w)', j < k
          PROVE  Entry(w, j)' < Entry(w, k)'
      <4>1. j \in 1..Count(w) /\ Entry(w, j)' = Entry(w, j) /\ Entry(w, j) <= tries[w] /\ Entry(w, j) \in Nat
        BY <1>4, <2>6, <2>7, <3>3 DEF PushInv, Entry, AsyncType
      <4>2. CASE k = Count(w) + 1
        BY <1>2, <1>3, <2>7, <4>1, <4>2
      <4>3. CASE k # Count(w) + 1
        <5>1. k \in 1..Count(w)
          BY <1>4, <2>6, <4>3
        <5> QED
          BY <2>7, <3>3, <4>1, <5>1 DEF PushInv
      <4> QED
        BY <4>2, <4>3
    <3>4. \A u, v \in Writers : Pushes(u)' /\ Pushes(v)' => u = v
      BY <2>6
    <3> QED
      BY <3>1, <3>2, <3>3, <3>4, <3>5 DEF PushInv
  <2>9. GotInv' /\ LastInv'
    BY <1>1, <2>4, <2>6 DEF ItemsInv, GotInv, LastInv
  <2>10. SequenceInv'
    <3>1. ASSUME NEW i \in 1..Len(items'), NEW j \in 1..Len(items'), j < i, items'[j][1] = items'[i][1]
          PROVE  items'[j][2] < items'[i][2]
      <4>1. j \in 1..Len(items) /\ items'[j] = items[j]
        BY <2>4, <3>1
      <4>2. CASE i \in 1..Len(items)
        BY <2>4, <3>1, <4>1, <4>2 DEF ItemsInv, SequenceInv
      <4>3. CASE i = Len(items) + 1
        <5>1. PICK v \in Writers : \E k \in Len(taken[v]) + 1..Count(v) : items[j] = <<v, Entry(v, k)>>
          BY <4>1 DEF ItemsInv, OwnInv
        <5>2. PICK k \in Len(taken[v]) + 1..Count(v) : items[j] = <<v, Entry(v, k)>>
          BY <5>1
        <5>3. v = w
          BY <2>4, <3>1, <4>1, <4>3, <5>2
        <5>4. Len(taken[w]) \in Nat /\ k \in 1..Count(w)
          BY <1>4, <5>2, <5>3 DEF AsyncType
        <5>5. Entry(w, k) <= tries[w] /\ Entry(w, k) \in Nat
          BY <1>4, <5>4 DEF PushInv, Entry, AsyncType
        <5> QED
          BY <1>2, <1>3, <2>4, <4>1, <4>3, <5>2, <5>3, <5>5
      <4> QED
        BY <2>4, <4>2, <4>3
    <3> QED
      BY <3>1 DEF SequenceInv
  <2>11. HereInv'
    <3>1. ASSUME NEW v \in Writers, NEW k \in Len(taken'[v]) + 1..Count(v)'
          PROVE  \E i \in 1..Len(items') : items'[i] = <<v, Entry(v, k)'>>
      <4>1. Len(taken[v]) \in Nat /\ taken'[v] = taken[v] /\ Count(v) \in Nat
        BY <1>1 DEF AsyncType, Count
      <4>2. CASE v = w /\ k = Count(w) + 1
        <5>1. Entry(v, k)' = tries'[w]
          BY <2>7, <4>2
        <5>2. Len(items) + 1 \in 1..Len(items') /\ items'[Len(items) + 1] = <<v, Entry(v, k)'>>
          BY <2>4, <4>2, <5>1
        <5> QED
          BY <5>2
      <4>3. CASE k \in Len(taken[v]) + 1..Count(v)
        <5>1. PICK i \in 1..Len(items) : items[i] = <<v, Entry(v, k)>>
          BY <4>3 DEF ItemsInv, HereInv
        <5>2. Entry(v, k)' = Entry(v, k)
          BY <2>7, <4>1, <4>3
        <5>3. i \in 1..Len(items') /\ items'[i] = <<v, Entry(v, k)'>>
          BY <2>4, <5>1, <5>2
        <5> QED
          BY <5>3
      <4> QED
        BY <2>6, <4>1, <4>2, <4>3
    <3> QED
      BY <3>1 DEF HereInv
  <2>12. OwnInv'
    <3>1. ASSUME NEW i \in 1..Len(items')
          PROVE  \E v \in Writers : \E k \in Len(taken'[v]) + 1..Count(v)' : items'[i] = <<v, Entry(v, k)'>>
      <4>1. CASE i \in 1..Len(items)
        <5>1. PICK v \in Writers : \E k \in Len(taken[v]) + 1..Count(v) : items[i] = <<v, Entry(v, k)>>
          BY <4>1 DEF ItemsInv, OwnInv
        <5>2. PICK k \in Len(taken[v]) + 1..Count(v) : items[i] = <<v, Entry(v, k)>>
          BY <5>1
        <5>3. Len(taken[v]) \in Nat /\ taken'[v] = taken[v] /\ Count(v) \in Nat
          BY <1>1 DEF AsyncType, Count
        <5>4. Entry(v, k)' = Entry(v, k) /\ k \in Len(taken'[v]) + 1..Count(v)'
          BY <2>6, <2>7, <5>2, <5>3
        <5>5. items'[i] = <<v, Entry(v, k)'>>
          BY <2>4, <4>1, <5>2, <5>4
        <5> QED
          BY <5>4, <5>5
      <4>2. CASE i = Len(items) + 1
        <5>1. PICK k \in Nat : k = Count(w) + 1
          BY <1>4
        <5>2. k \in Len(taken'[w]) + 1..Count(w)'
          BY <1>1, <1>4, <2>6, <5>1 DEF ItemsInv, GotInv, AsyncType
        <5>3. items'[i] = <<w, Entry(w, k)'>>
          BY <2>4, <2>7, <4>2, <5>1
        <5> QED
          BY <5>2, <5>3
      <4> QED
        BY <2>4, <4>1, <4>2
    <3> QED
      BY <3>1 DEF OwnInv
  <2>13. SourcesInv'
    <3>1. Unsourced = 0 /\ Unset = 1
      BY <2>1, NoPush
    <3>2. Unsourced' = 1 /\ Unset' = 1
      BY <2>1, <2>2 DEF Unsourced, Unset
    <3>3. Woken' = Woken /\ Woken \in Nat
      BY <1>1 DEF Woken
    <3>4. \A v \in Writers : write'[v].at \in {"idle", "tcs"}
      BY <2>1, <2>2
    <3>5. Len(items') = Len(tcsQueue') - 1 + Woken' + Unsourced'
      BY <1>1, <2>4, <3>1, <3>2, <3>3 DEF SourcesInv, AsyncType
    <3> QED
      BY <1>1, <2>1, <3>1, <3>2, <3>4, <3>5 DEF SourcesInv
  <2> QED
    BY <2>5, <2>8, <2>9, <2>10, <2>11, <2>12, <2>13 DEF ItemsInv
<1>6. CASE ~(Len(items) < ListCapacity)
  <2>1. UNCHANGED <<items, write>>
    BY <1>6 DEF Async!EmplaceItem
  <2>2. AsyncType'
    BY <1>1, <1>3, <2>1 DEF AsyncType
  <2>3. \A v \in Writers : /\ Count(v)' = Count(v) /\ (Pushes(v)' <=> Pushes(v))
                           /\ (Pushes(v) => v # w)
    BY <1>1, <2>1 DEF Count, Pushes
  <2>4. \A v \in Writers : \A k \in 1..Count(v) : Entry(v, k)' = Entry(v, k)
    <3>1. ASSUME NEW v \in Writers, NEW k \in 1..Count(v) PROVE Entry(v, k)' = Entry(v, k)
      <4>1. CASE v = w
        BY <1>1, <1>4, <4>1 DEF Entry
      <4>2. CASE v # w
        BY <1>1, <1>2, <4>2 DEF Entry
      <4> QED
        BY <4>1, <4>2
    <3> QED
      BY <3>1
  <2>5. PushInv'
    <3>1. \A u, v \in Writers : Pushes(u)' /\ Pushes(v)' => u = v
      BY <2>3 DEF PushInv
    <3>2. ASSUME NEW v \in Writers
          PROVE  /\ Count(v)' <= tries'[v]
                 /\ \A k \in 1..Count(v)' : Entry(v, k)' <= tries'[v]
                 /\ \A k \in 1..Count(v)' : \A j \in 1..Count(v)' : j < k => Entry(v, j)' < Entry(v, k)'
      <4>1. tries'[v] \in Nat /\ tries[v] \in Nat /\ tries[v] <= tries'[v] /\ Count(v) \in Nat
        <5>1. tries[v] \in Nat /\ Len(accepted[v]) \in Nat
          BY <1>3 DEF AsyncType
        <5>2. tries'[v] = tries[v] \/ tries'[v] = tries[v] + 1
          BY <1>2
        <5>3. Count(v) = Len(accepted[v]) \/ Count(v) = Len(accepted[v]) + 1
          <6>1. CASE Pushes(v)
            BY <6>1 DEF Count
          <6>2. CASE ~Pushes(v)
            BY <5>1, <6>2 DEF Count
          <6> QED
            BY <6>1, <6>2
        <5> QED
          BY <5>1, <5>2, <5>3
      <4>2. \A k \in 1..Count(v) : Entry(v, k) \in Nat
        BY <4>1 DEF Entry, AsyncType
      <4> QED
        <5>1. /\ Count(v) <= tries[v]
              /\ \A k \in 1..Count(v) : Entry(v, k) <= tries[v]
              /\ \A k \in 1..Count(v) : \A j \in 1..Count(v) : j < k => Entry(v, j) < Entry(v, k)
          BY DEF PushInv
        <5>2. Count(v)' = Count(v) /\ \A k \in 1..Count(v) : Entry(v, k)' = Entry(v, k)
          BY <2>3, <2>4
        <5>3. \A k \in 1..Count(v) : Entry(v, k)' <= tries'[v]
          BY <4>1, <4>2, <5>1, <5>2
        <5> QED
          BY <4>1, <5>1, <5>2, <5>3
    <3> QED
      BY <3>1, <3>2 DEF PushInv
  <2>6. GotInv' /\ SequenceInv' /\ LastInv'
    BY <1>1, <1>2, <2>1, <2>3 DEF ItemsInv, GotInv, SequenceInv, LastInv
  <2>7. \A v \in Writers : Len(taken[v]) \in Nat
    BY DEF AsyncType
  <2>8. HereInv'
    <3>1. ASSUME NEW v \in Writers, NEW k \in Len(taken'[v]) + 1..Count(v)'
          PROVE  \E i \in 1..Len(items') : items'[i] = <<v, Entry(v, k)'>>
      <4>1. k \in Len(taken[v]) + 1..Count(v) /\ Entry(v, k)' = Entry(v, k)
        BY <1>1, <2>3, <2>4, <2>7
      <4> QED
        BY <2>1, <4>1 DEF ItemsInv, HereInv
    <3> QED
      BY <3>1 DEF HereInv
  <2>9. OwnInv'
    <3>1. ASSUME NEW i \in 1..Len(items')
          PROVE  \E v \in Writers : \E k \in Len(taken'[v]) + 1..Count(v)' : items'[i] = <<v, Entry(v, k)'>>
      <4>1. PICK v \in Writers : \E k \in Len(taken[v]) + 1..Count(v) : items[i] = <<v, Entry(v, k)>>
        BY <2>1 DEF ItemsInv, OwnInv
      <4>2. PICK k \in Len(taken[v]) + 1..Count(v) : items[i] = <<v, Entry(v, k)>>
        BY <4>1
      <4>3. k \in Len(taken'[v]) + 1..Count(v)' /\ Entry(v, k)' = Entry(v, k)
        BY <1>1, <2>3, <2>4, <2>7, <4>2
      <4> QED
        BY <2>1, <4>2, <4>3
    <3> QED
      BY <3>1 DEF OwnInv
  <2>10. SourcesInv'
    BY <1>1, <2>1 DEF SourcesInv, Unset, Unsourced, Woken
  <2> QED
    BY <2>2, <2>5, <2>6, <2>8, <2>9, <2>10 DEF ItemsInv
<1> QED
  BY <1>5, <1>6

LEMMA AsyncBasics ==
    ASSUME AsyncType
    PROVE  /\ Len(items) \in Nat /\ \A i \in 1..Len(items) : items[i] \in Writers \X Nat
           /\ Len(tcsQueue) \in Nat /\ \A i \in 1..Len(tcsQueue) : tcsQueue[i] \in Nat
           /\ MaxPushes \in Nat
           /\ \A w \in Writers : /\ tries[w] \in 0..MaxPushes /\ tries[w] \in Nat
                                 /\ Len(accepted[w]) \in Nat /\ Len(taken[w]) \in Nat
                                 /\ Count(w) \in Nat /\ Len(accepted[w]) <= Count(w)
                                 /\ \A k \in 1..Count(w) : Entry(w, k) \in Nat
<1>1. MaxPushes \in Nat
  BY LibraryAssumption DEF Async!PushesAssumption
<1>2. ASSUME NEW w \in Writers
      PROVE  /\ tries[w] \in 0..MaxPushes /\ tries[w] \in Nat
             /\ Len(accepted[w]) \in Nat /\ Len(taken[w]) \in Nat
             /\ Count(w) \in Nat /\ Len(accepted[w]) <= Count(w)
             /\ \A k \in 1..Count(w) : Entry(w, k) \in Nat
  <2>1. tries[w] \in 0..MaxPushes /\ accepted[w] \in Seq(Nat) /\ taken[w] \in Seq(Nat)
    BY DEF AsyncType
  <2>2. tries[w] \in Nat /\ Len(accepted[w]) \in Nat /\ Len(taken[w]) \in Nat
    BY <1>1, <2>1
  <2>3. Count(w) \in Nat /\ Len(accepted[w]) <= Count(w)
    <3>1. CASE Pushes(w)
      <4>1. Count(w) = Len(accepted[w]) + 1
        BY <3>1 DEF Count
      <4> QED
        BY <2>2, <4>1
    <3>2. CASE ~Pushes(w)
      <4>1. Count(w) = Len(accepted[w]) + 0
        BY <3>2 DEF Count
      <4> QED
        BY <2>2, <4>1
    <3> QED
      BY <3>1, <3>2
  <2>4. \A k \in 1..Count(w) : Entry(w, k) \in Nat
    BY <2>1, <2>2, <2>3 DEF Entry
  <2> QED
    BY <2>1, <2>2, <2>3, <2>4
<1> QED
  BY <1>1, <1>2 DEF AsyncType

LEMMA ItemsDiffer ==
    ASSUME AsyncType, ItemsInv, NEW i \in 1..Len(items), NEW j \in 1..Len(items), items[i] = items[j]
    PROVE  i = j
<1>1. \A a, b \in 1..Len(items) : b < a => items[a] # items[b]
  <2>1. SUFFICES ASSUME NEW a \in 1..Len(items), NEW b \in 1..Len(items), b < a, items[a] = items[b]
                 PROVE  FALSE
    OBVIOUS
  <2>2. items[b][2] < items[a][2] /\ items[a][2] \in Nat
    BY <2>1, AsyncBasics DEF ItemsInv, SequenceInv
  <2> QED
    BY <2>1, <2>2
<1> QED
  BY <1>1, AsyncBasics

LEMMA EmplaceTcsKept ==
    ASSUME AsyncType, PushInv, ItemsInv, SourcesInv, NEW w \in Writers, Async!EmplaceTcs(w)
    PROVE  AsyncType' /\ PushInv' /\ ItemsInv' /\ SourcesInv'
<1>1. /\ write[w].at = "tcs"
      /\ UNCHANGED <<items, setTcs, curTcs, tries, accepted, read, taken>>
  BY DEF Async!EmplaceTcs, Async!consumerRests
<1>2. Unsourced = 1 /\ Unset = 1 /\ \A v \in Writers : v # w => write[v].at = "idle"
  BY <1>1, OnePush DEF Pushes
<1>3. Woken' = Woken /\ Woken \in Nat /\ Len(items) \in Nat /\ Len(tcsQueue) \in Nat
  BY <1>1, AsyncBasics DEF Woken
<1>4. CASE Len(tcsQueue) < ListCapacity
  <2>1. /\ tcsQueue' = Append(tcsQueue, made + 1) /\ made' = made + 1
        /\ write' = [write EXCEPT ![w] = [at |-> "exchange", new |-> made + 1]]
    BY <1>4 DEF Async!EmplaceTcs, Async!Goto
  <2>2. write'[w].at = "exchange" /\ write'[w].new = made + 1 /\ \A v \in Writers : v # w => write'[v] = write[v]
    BY <2>1 DEF AsyncType
  <2>3. AsyncType'
    <3>1. write' \in [Writers -> [at : {"idle", "tcs", "takeBack"}] \cup [at : {"exchange"}, new : Nat]
                                   \cup [at : {"set"}, old : Nat]]
      BY <2>1 DEF AsyncType
    <3>2. setTcs' \subseteq 0..made' /\ made' \in Nat /\ tcsQueue' \in Seq(Nat)
      BY <1>1, <2>1 DEF AsyncType
    <3> QED
      BY <1>1, <3>1, <3>2 DEF AsyncType
  <2>4. PushInv' /\ ItemsInv'
    <3>1. \A v \in Writers : Pushes(v)' <=> Pushes(v)
      BY <1>1, <2>2 DEF Pushes
    <3> QED
      BY <1>1, <3>1, ItemsRest
  <2>5. Unsourced' = 0 /\ Unset' = 2
    BY <1>2, <2>2 DEF Unsourced, Unset
  <2>6. /\ Len(tcsQueue') = Len(tcsQueue) + 1
        /\ \A i \in 1..Len(tcsQueue) : tcsQueue'[i] = tcsQueue[i]
        /\ tcsQueue'[Len(tcsQueue) + 1] = made + 1
    BY <2>1, AppendProperties DEF AsyncType
  <2>7. made + 1 \notin setTcs /\ made \in Nat
    BY DEF AsyncType
  <2>8. ASSUME NEW i \in 1..Len(tcsQueue')
        PROVE  /\ tcsQueue'[i] \in setTcs' <=> i <= Len(tcsQueue') - Unset'
               /\ tcsQueue'[i] <= made'
               /\ \A j \in 1..Len(tcsQueue') : j < i => tcsQueue'[j] < tcsQueue'[i]
    <3>1. CASE i \in 1..Len(tcsQueue)
      <4>1. /\ tcsQueue[i] \in setTcs <=> i <= Len(tcsQueue) - 1
            /\ tcsQueue[i] <= made /\ tcsQueue[i] \in Nat
            /\ \A j \in 1..Len(tcsQueue) : j < i => tcsQueue[j] < tcsQueue[i]
        BY <1>2, <3>1, AsyncBasics DEF SourcesInv
      <4>2. tcsQueue'[i] = tcsQueue[i] /\ \A j \in 1..Len(tcsQueue) : tcsQueue'[j] = tcsQueue[j]
        BY <2>6, <3>1
      <4>3. \A j \in 1..Len(tcsQueue') : j < i => j \in 1..Len(tcsQueue)
        BY <1>3, <2>6, <3>1
      <4> QED
        BY <1>1, <1>3, <2>1, <2>5, <2>6, <2>7, <3>1, <4>1, <4>2, <4>3
    <3>2. CASE i = Len(tcsQueue) + 1
      <4>1. \A j \in 1..Len(tcsQueue) : tcsQueue[j] <= made /\ tcsQueue[j] \in Nat
        BY AsyncBasics DEF SourcesInv
      <4> QED
        BY <1>1, <1>3, <2>1, <2>5, <2>6, <2>7, <3>2, <4>1
    <3> QED
      BY <1>3, <2>6, <3>1, <3>2
  <2>9. tcsQueue[Len(tcsQueue)] = curTcs /\ Len(tcsQueue) >= 1
    BY <1>1, <1>2 DEF SourcesInv
  <2>10. \A v \in Writers : write'[v].at = "exchange" => v = w
    BY <1>2, <2>2
  <2>11. \A v \in Writers : write'[v].at # "set"
    BY <1>2, <2>2
  <2>12. tcsQueue'[Len(tcsQueue')] = made + 1 /\ tcsQueue'[Len(tcsQueue') - 1] = curTcs'
    BY <1>1, <1>3, <2>6, <2>9
  <2>13. Len(items') = Len(tcsQueue') - 1 + Woken' + Unsourced'
    BY <1>1, <1>2, <1>3, <2>5, <2>6 DEF SourcesInv
  <2>14. Len(tcsQueue') >= Unset'
    BY <1>3, <2>5, <2>6, <2>9
  <2>15. read'.at = "await" => read'.tcs = tcsQueue'[1]
    BY <1>1, <1>3, <2>6, <2>9 DEF SourcesInv
  <2>16. SourcesInv'
    BY <2>2, <2>8, <2>10, <2>11, <2>12, <2>13, <2>14, <2>15 DEF SourcesInv
  <2> QED
    BY <2>3, <2>4, <2>16
<1>5. CASE ~(Len(tcsQueue) < ListCapacity)
  <2>1. write' = [write EXCEPT ![w] = [at |-> "takeBack"]] /\ UNCHANGED <<tcsQueue, made>>
    BY <1>5 DEF Async!EmplaceTcs, Async!Goto
  <2>2. write'[w].at = "takeBack" /\ \A v \in Writers : v # w => write'[v] = write[v]
    BY <2>1 DEF AsyncType
  <2>3. AsyncType'
    <3>1. write' \in [Writers -> [at : {"idle", "tcs", "takeBack"}] \cup [at : {"exchange"}, new : Nat]
                                   \cup [at : {"set"}, old : Nat]]
      BY <2>1 DEF AsyncType
    <3> QED
      BY <1>1, <2>1, <3>1 DEF AsyncType
  <2>4. PushInv' /\ ItemsInv'
    <3>1. \A v \in Writers : Pushes(v)' <=> Pushes(v)
      BY <1>1, <2>2 DEF Pushes
    <3> QED
      BY <1>1, <3>1, ItemsRest
  <2>5. Unsourced' = 1 /\ Unset' = 1
    BY <1>2, <2>2 DEF Unsourced, Unset
  <2>6. \A v \in Writers : write'[v].at \notin {"exchange", "set"} /\ write[v].at # "exchange"
    BY <1>1, <1>2, <2>2
  <2> QED
    BY <1>1, <1>2, <1>3, <2>1, <2>3, <2>4, <2>5, <2>6 DEF SourcesInv
<1> QED
  BY <1>4, <1>5

LEMMA ExchangeTcsKept ==
    ASSUME AsyncType, PushInv, ItemsInv, SourcesInv, NEW w \in Writers, Async!ExchangeTcs(w)
    PROVE  AsyncType' /\ PushInv' /\ ItemsInv' /\ SourcesInv'
<1>1. /\ write[w].at = "exchange" /\ curTcs' = write[w].new
      /\ write' = [write EXCEPT ![w] = [at |-> "set", old |-> curTcs]]
      /\ UNCHANGED <<items, tcsQueue, setTcs, made, tries, accepted, read, taken>>
  BY DEF Async!ExchangeTcs, Async!Goto, Async!consumerRests
<1>2. Unsourced = 0 /\ Unset = 2 /\ \A v \in Writers : v # w => write[v].at = "idle"
  BY <1>1, OnePush DEF Pushes
<1>3. write'[w].at = "set" /\ write'[w].old = curTcs /\ \A v \in Writers : v # w => write'[v] = write[v]
  BY <1>1 DEF AsyncType
<1>4. AsyncType'
  <2>1. write[w].new \in Nat /\ curTcs \in Nat
    BY <1>1 DEF AsyncType
  <2>2. write' \in [Writers -> [at : {"idle", "tcs", "takeBack"}] \cup [at : {"exchange"}, new : Nat]
                                 \cup [at : {"set"}, old : Nat]]
    BY <1>1, <2>1 DEF AsyncType
  <2> QED
    BY <1>1, <2>1, <2>2 DEF AsyncType
<1>5. PushInv' /\ ItemsInv'
  <2>1. \A v \in Writers : Pushes(v)' <=> Pushes(v)
    BY <1>1, <1>3 DEF Pushes
  <2> QED
    BY <1>1, <2>1, ItemsRest
<1>6. Unsourced' = 0 /\ Unset' = 2 /\ Woken' = Woken
  BY <1>1, <1>2, <1>3 DEF Unsourced, Unset, Woken
<1>7. tcsQueue[Len(tcsQueue)] = curTcs' /\ tcsQueue[Len(tcsQueue) - 1] = curTcs
  BY <1>1 DEF SourcesInv
<1>8. \A v \in Writers : write'[v].at # "exchange" /\ (write'[v].at = "set" => v = w)
  BY <1>2, <1>3
<1>9. SourcesInv'
  BY <1>1, <1>2, <1>3, <1>6, <1>7, <1>8 DEF SourcesInv
<1> QED
  BY <1>4, <1>5, <1>9

\* The push that is told is no longer pending; its entry stays what it is.
LEMMA SetTcsKept ==
    ASSUME AsyncType, PushInv, ItemsInv, SourcesInv, NEW w \in Writers, Async!SetTcs(w)
    PROVE  AsyncType' /\ PushInv' /\ ItemsInv' /\ SourcesInv'
<1>1. /\ write[w].at = "set" /\ setTcs' = setTcs \cup {write[w].old}
      /\ accepted' = [accepted EXCEPT ![w] = Append(@, tries[w])]
      /\ write' = [write EXCEPT ![w] = [at |-> "idle"]]
      /\ UNCHANGED <<items, tcsQueue, curTcs, made, tries, read, taken>>
  BY DEF Async!SetTcs, Async!Goto, Async!Resting, Async!consumerRests
<1>2. Unsourced = 0 /\ Unset = 2 /\ \A v \in Writers : v # w => write[v].at = "idle"
  BY <1>1, OnePush DEF Pushes
<1>3. \A v \in Writers : write'[v].at = "idle" /\ ~Pushes(v)'
  BY <1>1, <1>2 DEF AsyncType, Pushes
<1>4. /\ Len(accepted'[w]) = Len(accepted[w]) + 1
      /\ \A k \in 1..Len(accepted[w]) : accepted'[w][k] = accepted[w][k]
      /\ accepted'[w][Len(accepted[w]) + 1] = tries[w]
      /\ \A v \in Writers : v # w => accepted'[v] = accepted[v]
  <2>1. accepted[w] \in Seq(Nat) /\ tries[w] \in Nat
    BY AsyncBasics DEF AsyncType
  <2>2. accepted'[w] = Append(accepted[w], tries[w]) /\ \A v \in Writers : v # w => accepted'[v] = accepted[v]
    BY <1>1 DEF AsyncType
  <2> QED
    BY <2>1, <2>2, AppendProperties
<1>5. \A v \in Writers : Count(v)' = Count(v)
  <2>1. Count(w) = Len(accepted[w]) + 1 /\ Count(w)' = Len(accepted'[w]) + 0
    BY <1>1, <1>3 DEF Count, Pushes
  <2>2. \A v \in Writers : v # w => Count(v)' = Count(v)
    BY <1>2, <1>3, <1>4 DEF Count, Pushes
  <2> QED
    BY <1>4, <2>1, <2>2, AsyncBasics
<1>6. \A v \in Writers : \A k \in 1..Count(v) : Entry(v, k)' = Entry(v, k)
  <2>1. ASSUME NEW k \in 1..Count(w) PROVE Entry(w, k)' = Entry(w, k)
    <3>1. Count(w) = Len(accepted[w]) + 1 /\ Len(accepted[w]) \in Nat
      BY <1>1, AsyncBasics DEF Count, Pushes
    <3>2. CASE k <= Len(accepted[w])
      BY <1>4, <3>1, <3>2 DEF Entry
    <3>3. CASE k = Len(accepted[w]) + 1
      BY <1>4, <3>1, <3>3 DEF Entry
    <3> QED
      BY <3>1, <3>2, <3>3
  <2>2. ASSUME NEW v \in Writers, v # w, NEW k \in 1..Count(v) PROVE Entry(v, k)' = Entry(v, k)
    BY <1>1, <1>4, <2>2 DEF Entry
  <2> QED
    BY <2>1, <2>2
<1>7. AsyncType'
  <2>1. accepted' \in [Writers -> Seq(Nat)]
    <3>1. Append(accepted[w], tries[w]) \in Seq(Nat)
      BY AsyncBasics, AppendProperties DEF AsyncType
    <3> QED
      BY <1>1, <3>1 DEF AsyncType
  <2>2. write' \in [Writers -> [at : {"idle", "tcs", "takeBack"}] \cup [at : {"exchange"}, new : Nat]
                                 \cup [at : {"set"}, old : Nat]]
    BY <1>1 DEF AsyncType
  <2>3. write[w].old \in 0..made
    <3>1. write[w].old = tcsQueue[Len(tcsQueue) - 1] /\ Len(tcsQueue) >= 2
      BY <1>1, <1>2 DEF SourcesInv
    <3>2. Len(tcsQueue) - 1 \in 1..Len(tcsQueue)
      BY <3>1, AsyncBasics
    <3>3. tcsQueue[Len(tcsQueue) - 1] <= made /\ tcsQueue[Len(tcsQueue) - 1] \in Nat /\ made \in Nat
      BY <3>2, AsyncBasics DEF SourcesInv, AsyncType
    <3> QED
      BY <3>1, <3>3
  <2> QED
    BY <1>1, <2>1, <2>2, <2>3 DEF AsyncType
<1>8. PushInv'
  <2>1. \A v \in Writers :
          /\ Count(v) <= tries[v]
          /\ \A k \in 1..Count(v) : Entry(v, k)' = Entry(v, k) /\ Entry(v, k) <= tries[v]
          /\ \A k \in 1..Count(v) : \A j \in 1..Count(v) : j < k => Entry(v, j) < Entry(v, k)
    BY <1>6 DEF PushInv
  <2>2. ASSUME NEW v \in Writers
        PROVE  /\ Count(v)' <= tries'[v]
               /\ \A k \in 1..Count(v)' : Entry(v, k)' <= tries'[v]
               /\ \A k \in 1..Count(v)' : \A j \in 1..Count(v)' : j < k => Entry(v, j)' < Entry(v, k)'
    BY <1>1, <1>5, <2>1
  <2> QED
    BY <1>3, <2>2 DEF PushInv
<1>9. GotInv' /\ SequenceInv' /\ LastInv'
  <2>1. GotInv'
    <3>1. ASSUME NEW v \in Writers
          PROVE  /\ Len(taken'[v]) <= Len(accepted'[v])
                 /\ \A k \in 1..Len(taken'[v]) : taken'[v][k] = accepted'[v][k]
      <4>1. /\ Len(taken[v]) <= Len(accepted[v]) /\ taken'[v] = taken[v]
            /\ \A k \in 1..Len(taken[v]) : taken[v][k] = accepted[v][k]
            /\ Len(taken[v]) \in Nat /\ Len(accepted[v]) \in Nat
        BY <1>1, AsyncBasics DEF ItemsInv, GotInv
      <4>2. CASE v = w
        BY <1>4, <4>1, <4>2
      <4>3. CASE v # w
        BY <1>4, <4>1, <4>3
      <4> QED
        BY <4>2, <4>3
    <3> QED
      BY <3>1 DEF GotInv
  <2> QED
    BY <1>1, <1>3, <2>1 DEF ItemsInv, SequenceInv, LastInv
<1>10. HereInv'
  <2>1. ASSUME NEW v \in Writers, NEW k \in Len(taken'[v]) + 1..Count(v)'
        PROVE  \E i \in 1..Len(items') : items'[i] = <<v, Entry(v, k)'>>
    <3>1. k \in Len(taken[v]) + 1..Count(v) /\ k \in 1..Count(v)
      BY <1>1, <1>5, AsyncBasics
    <3>2. PICK i \in 1..Len(items) : items[i] = <<v, Entry(v, k)>>
      BY <3>1 DEF ItemsInv, HereInv
    <3>3. Entry(v, k)' = Entry(v, k)
      BY <1>6, <3>1
    <3> QED
      BY <1>1, <3>2, <3>3
  <2> QED
    BY <2>1 DEF HereInv
<1>11. OwnInv'
  <2>1. ASSUME NEW i \in 1..Len(items')
        PROVE  \E v \in Writers : \E k \in Len(taken'[v]) + 1..Count(v)' : items'[i] = <<v, Entry(v, k)'>>
    <3>1. PICK v \in Writers : \E k \in Len(taken[v]) + 1..Count(v) : items[i] = <<v, Entry(v, k)>>
      BY <1>1 DEF ItemsInv, OwnInv
    <3>2. PICK k \in Len(taken[v]) + 1..Count(v) : items[i] = <<v, Entry(v, k)>>
      BY <3>1
    <3>3. k \in Len(taken'[v]) + 1..Count(v)' /\ Entry(v, k)' = Entry(v, k)
      BY <1>1, <1>5, <1>6, <3>2, AsyncBasics
    <3> QED
      BY <1>1, <3>2, <3>3
  <2> QED
    BY <2>1 DEF OwnInv
<1>12. SourcesInv'
  <2>1. Unsourced' = 0 /\ Unset' = 1 /\ Woken' = Woken
    BY <1>1, <1>3 DEF Unsourced, Unset, Woken
  <2>2. Len(tcsQueue) \in Nat /\ Len(tcsQueue) >= 2 /\ write[w].old = tcsQueue[Len(tcsQueue) - 1]
    BY <1>1, <1>2, AsyncBasics DEF SourcesInv
  <2>3. ASSUME NEW i \in 1..Len(tcsQueue)
        PROVE  tcsQueue[i] \in setTcs' <=> i <= Len(tcsQueue) - 1
    <3>1. tcsQueue[i] \in setTcs <=> i <= Len(tcsQueue) - 2
      BY <1>2 DEF SourcesInv
    <3>2. tcsQueue[i] = write[w].old <=> i = Len(tcsQueue) - 1
      <4>1. Len(tcsQueue) - 1 \in 1..Len(tcsQueue)
        BY <2>2
      <4>2. \A a, b \in 1..Len(tcsQueue) : b < a => tcsQueue[b] < tcsQueue[a]
        BY DEF SourcesInv
      <4>3. \A a \in 1..Len(tcsQueue) : tcsQueue[a] \in Nat
        BY AsyncBasics
      <4> QED
        BY <2>2, <4>1, <4>2, <4>3
    <3> QED
      BY <1>1, <2>2, <3>1, <3>2
  <2>4. tcsQueue[Len(tcsQueue)] = curTcs
    BY <1>1, <1>2 DEF SourcesInv
  <2> QED
    BY <1>1, <1>2, <1>3, <2>1, <2>2, <2>3, <2>4 DEF SourcesInv
<1> QED
  BY <1>7, <1>8, <1>9, <1>10, <1>11, <1>12 DEF ItemsInv

\* The item that is taken back is the newest, and no other is like it.
LEMMA TakeBackKept ==
    ASSUME AsyncType, PushInv, ItemsInv, SourcesInv, NEW w \in Writers, Async!TakeBack(w)
    PROVE  AsyncType' /\ PushInv' /\ ItemsInv' /\ SourcesInv'
<1>1. /\ write[w].at = "takeBack" /\ items' = Async!Without(items, <<w, tries[w]>>)
      /\ write' = [write EXCEPT ![w] = [at |-> "idle"]]
      /\ UNCHANGED <<tcsQueue, setTcs, curTcs, made, tries, accepted, read, taken>>
  BY DEF Async!TakeBack, Async!Goto, Async!Resting, Async!consumerRests
<1>2. Unsourced = 1 /\ Unset = 1 /\ \A v \in Writers : v # w => write[v].at = "idle"
  BY <1>1, OnePush DEF Pushes
<1>3. \A v \in Writers : write'[v].at = "idle" /\ ~Pushes(v)'
  BY <1>1, <1>2 DEF AsyncType, Pushes
<1>4. /\ Len(items) \in Nat /\ Len(items) > 0 /\ items[Len(items)] = <<w, tries[w]>>
      /\ items \in Seq(Writers \X Nat)
  BY <1>1, AsyncBasics DEF ItemsInv, LastInv, Pushes, AsyncType
<1>5. /\ items' \in Seq(Writers \X Nat) /\ Len(items') = Len(items) - 1
      /\ \A i \in 1..(Len(items) - 1) : items'[i] = items[i]
  <2>2. Len(items) \in 1..Len(items)
    BY <1>4
  <2>1. ASSUME NEW i \in 1..Len(items), items[i] = items[Len(items)] PROVE i = Len(items)
    BY <2>1, <2>2, ItemsDiffer
  <2>3. /\ Async!Without(items, items[Len(items)]) \in Seq(Writers \X Nat)
        /\ Len(Async!Without(items, items[Len(items)])) = Len(items) - 1
        /\ \A i \in 1..(Len(items) - 1) :
             Async!Without(items, items[Len(items)])[i] = IF i < Len(items) THEN items[i] ELSE items[i + 1]
    BY ONLY <1>4, <2>1, <2>2, WithoutIs
  <2>4. items' = Async!Without(items, items[Len(items)])
    BY <1>1, <1>4
  <2>5. \A i \in 1..(Len(items) - 1) : i < Len(items)
    BY <1>4
  <2> QED
    BY <2>3, <2>4, <2>5
<1>6. /\ Count(w) = Len(accepted[w]) + 1 /\ Count(w)' = Len(accepted[w])
      /\ \A v \in Writers : v # w => Count(v)' = Count(v) /\ Count(v) = Len(accepted[v])
  <2>1. Pushes(w) /\ \A v \in Writers : ~Pushes(v)' /\ (v # w => ~Pushes(v)) /\ accepted'[v] = accepted[v]
    BY <1>1, <1>2, <1>3 DEF Pushes
  <2>2. \A v \in Writers : Len(accepted[v]) \in Nat
    BY AsyncBasics
  <2>3. Count(w) = Len(accepted[w]) + 1 /\ Count(w)' = Len(accepted[w]) + 0
    BY <2>1 DEF Count
  <2>4. \A v \in Writers : v # w => Count(v)' = Len(accepted[v]) + 0 /\ Count(v) = Len(accepted[v]) + 0
    BY <2>1 DEF Count
  <2> QED
    BY <2>2, <2>3, <2>4
<1>7. \A v \in Writers : Count(v)' \in Nat /\ Count(v)' <= Count(v) /\ Count(v)' = Len(accepted[v])
  BY <1>6, AsyncBasics
<1>8. \A v \in Writers : \A k : Entry(v, k)' = Entry(v, k)
  BY <1>1 DEF Entry
<1>9. AsyncType'
  <2>1. write' \in [Writers -> [at : {"idle", "tcs", "takeBack"}] \cup [at : {"exchange"}, new : Nat]
                                 \cup [at : {"set"}, old : Nat]]
    BY <1>1 DEF AsyncType
  <2> QED
    BY <1>1, <1>5, <2>1 DEF AsyncType
<1>10. PushInv'
  <2>1. ASSUME NEW v \in Writers
        PROVE  /\ Count(v)' <= tries'[v]
               /\ \A k \in 1..Count(v)' : Entry(v, k)' <= tries'[v]
               /\ \A k \in 1..Count(v)' : \A j \in 1..Count(v)' : j < k => Entry(v, j)' < Entry(v, k)'
    <3>1. /\ Count(v) <= tries[v]
          /\ \A k \in 1..Count(v) : Entry(v, k) <= tries[v]
          /\ \A k \in 1..Count(v) : \A j \in 1..Count(v) : j < k => Entry(v, j) < Entry(v, k)
      BY DEF PushInv
    <3>2. tries[v] \in Nat /\ tries'[v] = tries[v] /\ Count(v) \in Nat /\ Count(v)' \in Nat /\ Count(v)' <= Count(v)
      BY <1>1, <1>7, AsyncBasics
    <3>3. \A k \in 1..Count(v)' : k \in 1..Count(v)
      BY <3>2
    <3> QED
      BY <1>8, <3>1, <3>2, <3>3
  <2> QED
    BY <1>3, <2>1 DEF PushInv
<1>11. GotInv' /\ LastInv'
  BY <1>1, <1>3 DEF ItemsInv, GotInv, LastInv
<1>12. SequenceInv'
  <2>1. \A i \in 1..Len(items') : i \in 1..Len(items) /\ items'[i] = items[i]
    BY <1>4, <1>5
  <2> QED
    BY <2>1 DEF ItemsInv, SequenceInv
<1>13. HereInv'
  <2>1. ASSUME NEW v \in Writers, NEW k \in Len(taken'[v]) + 1..Count(v)'
        PROVE  \E i \in 1..Len(items') : items'[i] = <<v, Entry(v, k)'>>
    <3>1. k \in Len(taken[v]) + 1..Count(v) /\ k \in 1..Count(v) /\ k \in Nat
      BY <1>1, <1>7, AsyncBasics
    <3>2. PICK i \in 1..Len(items) : items[i] = <<v, Entry(v, k)>>
      BY <3>1 DEF ItemsInv, HereInv
    <3>3. i # Len(items)
      <4>1. CASE v = w
        <5>1. Count(w) \in 1..Count(w) /\ k < Count(w) /\ k \in 1..Count(w)
          BY <1>6, <1>7, <3>1, <4>1, AsyncBasics
        <5>2. Entry(w, k) < Entry(w, Count(w)) /\ Entry(w, Count(w)) = tries[w]
          BY <1>6, <5>1, AsyncBasics DEF PushInv, Entry
        <5>3. Entry(w, k) \in Nat /\ tries[w] \in Nat
          BY <5>1, AsyncBasics
        <5> QED
          BY <1>4, <3>2, <4>1, <5>2, <5>3
      <4>2. CASE v # w
        BY <1>4, <3>2, <4>2
      <4> QED
        BY <4>1, <4>2
    <3>4. i \in 1..Len(items') /\ items'[i] = <<v, Entry(v, k)'>>
      <4>1. i \in 1..(Len(items) - 1)
        BY <1>4, <3>2, <3>3
      <4>2. items'[i] = items[i] /\ i \in 1..Len(items')
        BY <1>5, <4>1
      <4> QED
        BY <1>8, <3>2, <4>2
    <3> QED
      BY <3>4
  <2> QED
    BY <2>1 DEF HereInv
<1>14. OwnInv'
  <2>1. ASSUME NEW i \in 1..Len(items')
        PROVE  \E v \in Writers : \E k \in Len(taken'[v]) + 1..Count(v)' : items'[i] = <<v, Entry(v, k)'>>
    <3>1. i \in 1..Len(items) /\ i # Len(items) /\ items'[i] = items[i]
      BY <1>4, <1>5
    <3>2. PICK v \in Writers : \E k \in Len(taken[v]) + 1..Count(v) : items[i] = <<v, Entry(v, k)>>
      BY <3>1 DEF ItemsInv, OwnInv
    <3>3. PICK k \in Len(taken[v]) + 1..Count(v) : items[i] = <<v, Entry(v, k)>>
      BY <3>2
    <3>4. ~(v = w /\ k = Count(w))
      <4>1. SUFFICES ASSUME v = w, k = Count(w) PROVE FALSE
        OBVIOUS
      <4>2. Entry(w, Count(w)) = tries[w]
        BY <1>6, AsyncBasics DEF Entry
      <4>3. items[i] = items[Len(items)]
        BY <1>4, <3>3, <4>1, <4>2
      <4> QED
        BY <1>4, <3>1, <4>3, ItemsDiffer
    <3>5. k \in Len(taken'[v]) + 1..Count(v)'
      BY <1>1, <1>6, <3>3, <3>4, AsyncBasics
    <3>6. items'[i] = <<v, Entry(v, k)'>>
      BY <1>8, <3>1, <3>3
    <3> QED
      BY <3>5, <3>6
  <2> QED
    BY <2>1 DEF OwnInv
<1>15. SourcesInv'
  <2>1. Unsourced' = 0 /\ Unset' = 1 /\ Woken' = Woken /\ Woken \in Nat
    BY <1>1, <1>3 DEF Unsourced, Unset, Woken
  <2>2. Len(items') = Len(tcsQueue') - 1 + Woken' + Unsourced'
    BY <1>1, <1>2, <1>5, <2>1, AsyncBasics DEF SourcesInv
  <2>3. tcsQueue[Len(tcsQueue)] = curTcs
    BY <1>1, <1>2 DEF SourcesInv
  <2> QED
    BY <1>1, <1>2, <1>3, <2>1, <2>2, <2>3 DEF SourcesInv
<1> QED
  BY <1>9, <1>10, <1>11, <1>12, <1>13, <1>14, <1>15 DEF ItemsInv

LEMMA BackTcsKept ==
    ASSUME AsyncType, PushInv, ItemsInv, SourcesInv, Async!BackTcs
    PROVE  AsyncType' /\ PushInv' /\ ItemsInv' /\ SourcesInv'
<1>1. /\ read.at = "idle" /\ tcsQueue # <<>> /\ read' = [at |-> "await", tcs |-> Head(tcsQueue)]
      /\ UNCHANGED <<items, tcsQueue, setTcs, taken, curTcs, made, write, tries, accepted>>
  BY DEF Async!BackTcs, Async!writersRest
<1>2. Head(tcsQueue) = tcsQueue[1] /\ tcsQueue[1] \in Nat
  BY <1>1 DEF AsyncType
<1>3. AsyncType'
  BY <1>1, <1>2 DEF AsyncType
<1>4. PushInv' /\ ItemsInv'
  <2>1. \A v \in Writers : Pushes(v)' <=> Pushes(v)
    BY <1>1 DEF Pushes
  <2> QED
    BY <1>1, <2>1, ItemsRest
<1>5. Unsourced' = Unsourced /\ Unset' = Unset /\ Woken' = 0 /\ Woken = 0 /\ read'.tcs = tcsQueue[1]
  BY <1>1, <1>2 DEF Unsourced, Unset, Woken
<1>6. SourcesInv'
  BY <1>1, <1>5 DEF SourcesInv
<1> QED
  BY <1>3, <1>4, <1>6

\* The consumer awaits the oldest source: taking it out moves the others up by one.
LEMMA EraseTcsKept ==
    ASSUME AsyncType, PushInv, ItemsInv, SourcesInv, Async!EraseTcs
    PROVE  AsyncType' /\ PushInv' /\ ItemsInv' /\ SourcesInv'
<1>1. /\ read.at = "await" /\ read.tcs \in setTcs /\ tcsQueue' = Async!Without(tcsQueue, read.tcs)
      /\ setTcs' = setTcs \ {read.tcs} /\ read' = [at |-> "item"]
      /\ UNCHANGED <<items, taken, curTcs, made, write, tries, accepted>>
  BY DEF Async!EraseTcs, Async!writersRest
<1>2. /\ read.tcs = tcsQueue[1] /\ tcsQueue \in Seq(Nat) /\ Len(tcsQueue) \in Nat
      /\ Unset \in {1, 2} /\ Len(tcsQueue) >= Unset
  BY <1>1, AsyncBasics DEF SourcesInv, Unset, AsyncType
<1>3. 1 <= Len(tcsQueue) - Unset /\ 1 \in 1..Len(tcsQueue)
  <2>1. 1 \in 1..Len(tcsQueue)
    BY <1>2
  <2> QED
    BY <1>1, <1>2, <2>1 DEF SourcesInv
<1>4. \A a, b \in 1..Len(tcsQueue) : b < a => tcsQueue[b] < tcsQueue[a]
  BY DEF SourcesInv
<1>5. \A a \in 1..Len(tcsQueue) : tcsQueue[a] \in Nat
  BY AsyncBasics
<1>6. /\ tcsQueue' \in Seq(Nat) /\ Len(tcsQueue') = Len(tcsQueue) - 1
      /\ \A i \in 1..(Len(tcsQueue) - 1) : tcsQueue'[i] = tcsQueue[i + 1]
  <2>1. \A i \in 1..Len(tcsQueue) : tcsQueue[i] = tcsQueue[1] => i = 1
    <3>1. ASSUME NEW i \in 1..Len(tcsQueue), i # 1 PROVE tcsQueue[i] # tcsQueue[1]
      <4>1. 1 < i
        BY <3>1
      <4>2. tcsQueue[1] < tcsQueue[i] /\ tcsQueue[1] \in Nat /\ tcsQueue[i] \in Nat
        BY <1>3, <1>4, <1>5, <4>1
      <4> QED
        BY <4>2
    <3> QED
      BY <3>1
  <2>2. /\ Async!Without(tcsQueue, tcsQueue[1]) \in Seq(Nat)
        /\ Len(Async!Without(tcsQueue, tcsQueue[1])) = Len(tcsQueue) - 1
        /\ \A i \in 1..(Len(tcsQueue) - 1) :
             Async!Without(tcsQueue, tcsQueue[1])[i] = IF i < 1 THEN tcsQueue[i] ELSE tcsQueue[i + 1]
    BY ONLY <1>2, <1>3, <2>1, WithoutIs
  <2>3. tcsQueue' = Async!Without(tcsQueue, tcsQueue[1])
    BY <1>1, <1>2
  <2>4. \A i \in 1..(Len(tcsQueue) - 1) : ~(i < 1)
    BY <1>2
  <2> QED
    BY <2>2, <2>3, <2>4
<1>7. AsyncType'
  BY <1>1, <1>6 DEF AsyncType
<1>8. PushInv' /\ ItemsInv'
  <2>1. \A v \in Writers : Pushes(v)' <=> Pushes(v)
    BY <1>1 DEF Pushes
  <2> QED
    BY <1>1, <2>1, ItemsRest
<1>9. Unsourced' = Unsourced /\ Unset' = Unset /\ Woken' = 1 /\ Woken = 0 /\ Unsourced \in Nat
  BY <1>1 DEF Unsourced, Unset, Woken
<1>10. ASSUME NEW i \in 1..Len(tcsQueue')
       PROVE  /\ tcsQueue'[i] \in setTcs' <=> i <= Len(tcsQueue') - Unset'
              /\ tcsQueue'[i] <= made'
              /\ \A j \in 1..Len(tcsQueue') : j < i => tcsQueue'[j] < tcsQueue'[i]
  <2>1. i + 1 \in 1..Len(tcsQueue) /\ tcsQueue'[i] = tcsQueue[i + 1] /\ i \in Nat
    BY <1>2, <1>6
  <2>2. tcsQueue[i + 1] # tcsQueue[1]
    <3>1. tcsQueue[1] < tcsQueue[i + 1] /\ tcsQueue[1] \in Nat /\ tcsQueue[i + 1] \in Nat
      BY <1>3, <1>4, <1>5, <2>1
    <3> QED
      BY <3>1
  <2>3. tcsQueue[i + 1] \in setTcs <=> i + 1 <= Len(tcsQueue) - Unset
    BY <2>1 DEF SourcesInv
  <2>4. tcsQueue'[i] \in setTcs' <=> i + 1 <= Len(tcsQueue) - Unset
    BY <1>1, <1>2, <2>1, <2>2, <2>3
  <2>5. i + 1 <= Len(tcsQueue) - Unset <=> i <= Len(tcsQueue') - Unset'
    BY <1>2, <1>6, <1>9, <2>1
  <2>6. tcsQueue'[i] <= made'
    BY <1>1, <2>1 DEF SourcesInv
  <2>7. ASSUME NEW j \in 1..Len(tcsQueue'), j < i PROVE tcsQueue'[j] < tcsQueue'[i]
    <3>1. j + 1 \in 1..Len(tcsQueue) /\ tcsQueue'[j] = tcsQueue[j + 1] /\ j + 1 < i + 1
      BY <1>2, <1>6, <2>1, <2>7
    <3> QED
      BY <1>4, <2>1, <3>1
  <2> QED
    BY <2>4, <2>5, <2>6, <2>7
<1>11. Len(tcsQueue') >= Unset'
  BY <1>2, <1>3, <1>6, <1>9
<1>12. tcsQueue'[Len(tcsQueue')] = tcsQueue[Len(tcsQueue)]
  <2>1. Len(tcsQueue') \in 1..(Len(tcsQueue) - 1) /\ Len(tcsQueue') + 1 = Len(tcsQueue)
    BY <1>2, <1>6, <1>9, <1>11
  <2>2. tcsQueue'[Len(tcsQueue')] = tcsQueue[Len(tcsQueue') + 1]
    BY <1>6, <2>1
  <2> QED
    BY <2>1, <2>2
<1>13. Unset = 2 => tcsQueue'[Len(tcsQueue') - 1] = tcsQueue[Len(tcsQueue) - 1]
  <2>1. SUFFICES ASSUME Unset = 2 PROVE tcsQueue'[Len(tcsQueue') - 1] = tcsQueue[Len(tcsQueue) - 1]
    OBVIOUS
  <2>2. Len(tcsQueue') - 1 \in 1..(Len(tcsQueue) - 1) /\ (Len(tcsQueue') - 1) + 1 = Len(tcsQueue) - 1
    BY <1>2, <1>6, <1>9, <1>11, <2>1
  <2>3. tcsQueue'[Len(tcsQueue') - 1] = tcsQueue[(Len(tcsQueue') - 1) + 1]
    BY <1>6, <2>2
  <2> QED
    BY <2>2, <2>3
<1>14. \A v \in Writers : write[v].at \in {"exchange", "set"} => Unset = 2
  BY DEF Unset
<1>15. Len(items') = Len(tcsQueue') - 1 + Woken' + Unsourced'
  BY <1>1, <1>2, <1>6, <1>9 DEF SourcesInv
<1>16. SourcesInv'
  BY <1>1, <1>10, <1>11, <1>12, <1>13, <1>14, <1>15 DEF SourcesInv
<1> QED
  BY <1>7, <1>8, <1>16

\* The first item is the one its writer's next is owed by.
LEMMA FirstIsNext ==
    ASSUME AsyncType, PushInv, ItemsInv, SourcesInv, read.at = "item"
    PROVE  /\ Len(items) \in Nat /\ Len(items) >= 1
           /\ \A v \in Writers : Pushes(v) => Len(items) >= 2
           /\ \E w \in Writers : /\ Len(taken[w]) + 1 <= Len(accepted[w])
                                 /\ items[1] = <<w, accepted[w][Len(taken[w]) + 1]>>
<1>1. Len(items) \in Nat /\ Len(items) >= 1 /\ \A v \in Writers : Pushes(v) => Len(items) >= 2
  <2>1. Woken = 1 /\ Len(tcsQueue) \in Nat /\ Len(items) \in Nat
    BY AsyncBasics DEF Woken
  <2>2. Len(items) = Len(tcsQueue) + Unsourced /\ Len(tcsQueue) >= Unset
    BY <2>1 DEF SourcesInv, Unsourced
  <2>3. Unset \in {1, 2} /\ Unsourced \in {0, 1}
    BY DEF Unset, Unsourced
  <2>4. ASSUME NEW v \in Writers, Pushes(v) PROVE Unset + Unsourced = 2
    <3>1. write[v].at \in {"tcs", "takeBack", "exchange", "set"}
      BY <2>4 DEF Pushes, AsyncType
    <3>2. /\ Unsourced = IF write[v].at \in {"tcs", "takeBack"} THEN 1 ELSE 0
          /\ Unset = IF write[v].at \in {"exchange", "set"} THEN 2 ELSE 1
      BY <2>4, OnePush
    <3> QED
      BY <3>1, <3>2
  <2> QED
    BY <2>1, <2>2, <2>3, <2>4
<1>2. 1 \in 1..Len(items)
  BY <1>1
<1>3. PICK w \in Writers : \E k \in Len(taken[w]) + 1..Count(w) : items[1] = <<w, Entry(w, k)>>
  BY <1>2 DEF ItemsInv, OwnInv
<1>4. PICK k \in Len(taken[w]) + 1..Count(w) : items[1] = <<w, Entry(w, k)>>
  BY <1>3
<1>5. Len(taken[w]) \in Nat /\ Count(w) \in Nat /\ Len(accepted[w]) \in Nat /\ k \in 1..Count(w)
  BY <1>4, AsyncBasics
<1>6. k = Len(taken[w]) + 1
  <2>1. SUFFICES ASSUME k # Len(taken[w]) + 1 PROVE FALSE
    OBVIOUS
  <2> DEFINE j == Len(taken[w]) + 1
  <2>2. j \in Len(taken[w]) + 1..Count(w) /\ j \in 1..Count(w) /\ j < k
    BY <1>4, <1>5, <2>1
  <2> HIDE DEF j
  <2>3. PICK i \in 1..Len(items) : items[i] = <<w, Entry(w, j)>>
    BY <2>2 DEF ItemsInv, HereInv
  <2>4. Entry(w, j) < Entry(w, k) /\ Entry(w, j) \in Nat /\ Entry(w, k) \in Nat
    BY <1>5, <2>2, AsyncBasics DEF PushInv
  <2>5. i # 1
    BY <1>4, <2>3, <2>4
  <2>6. 1 < i /\ items[1][1] = items[i][1]
    BY <1>1, <1>4, <2>3, <2>5
  <2>7. items[1][2] < items[i][2]
    BY <1>2, <2>6 DEF ItemsInv, SequenceInv
  <2> QED
    BY <1>4, <2>3, <2>4, <2>7
<1>7. k <= Len(accepted[w])
  <2>1. SUFFICES ASSUME ~(k <= Len(accepted[w])) PROVE FALSE
    OBVIOUS
  <2>2. Pushes(w)
    <3>1. SUFFICES ASSUME ~Pushes(w) PROVE FALSE
      OBVIOUS
    <3>2. Count(w) = Len(accepted[w]) + 0
      BY <3>1 DEF Count
    <3> QED
      BY <1>5, <2>1, <3>2
  <2>3. Entry(w, k) = tries[w]
    BY <2>1 DEF Entry
  <2>4. Len(items) >= 2 /\ items[Len(items)] = items[1] /\ Len(items) \in 1..Len(items)
    BY <1>1, <1>4, <2>2, <2>3 DEF ItemsInv, LastInv
  <2>5. Len(items) = 1
    BY <1>2, <2>4, ItemsDiffer
  <2> QED
    BY <2>4, <2>5
<1>8. Entry(w, k) = accepted[w][k]
  BY <1>7 DEF Entry
<1> QED
  BY <1>1, <1>4, <1>6, <1>7, <1>8

LEMMA TakeItemKept ==
    ASSUME AsyncType, PushInv, ItemsInv, SourcesInv, Async!TakeItem
    PROVE  AsyncType' /\ PushInv' /\ ItemsInv' /\ SourcesInv'
<1>1. /\ read.at = "item" /\ items' = Tail(items) /\ read' = [at |-> "idle"]
      /\ taken' = [taken EXCEPT ![Head(items)[1]] = Append(@, Head(items)[2])]
      /\ UNCHANGED <<tcsQueue, setTcs, curTcs, made, write, tries, accepted>>
  BY DEF Async!TakeItem, Async!writersRest, Async!Resting
<1>2. Len(items) \in Nat /\ Len(items) >= 1 /\ \A v \in Writers : Pushes(v) => Len(items) >= 2
  BY <1>1, FirstIsNext
<1>3. PICK w \in Writers : /\ Len(taken[w]) + 1 <= Len(accepted[w])
                           /\ items[1] = <<w, accepted[w][Len(taken[w]) + 1]>>
  BY <1>1, FirstIsNext
<1> DEFINE n == Len(taken[w]) + 1
<1>4. /\ Len(taken[w]) \in Nat /\ Len(accepted[w]) \in Nat /\ n \in 1..Count(w) /\ n \in Nat
      /\ Count(w) \in Nat /\ Len(accepted[w]) <= Count(w)
  BY <1>3, AsyncBasics
<1>5. /\ items' \in Seq(Writers \X Nat) /\ Len(items') = Len(items) - 1
      /\ \A i \in 1..(Len(items) - 1) : items'[i] = items[i + 1]
  <2>1. items \in Seq(Writers \X Nat) /\ items # <<>>
    BY <1>2 DEF AsyncType
  <2> QED
    BY <1>1, <2>1, HeadTailProperties
<1>6. /\ taken'[w] = Append(taken[w], accepted[w][n])
      /\ \A v \in Writers : v # w => taken'[v] = taken[v]
      /\ taken' \in [Writers -> Seq(Nat)]
  <2>1. Head(items) = items[1] /\ items[1] = <<w, accepted[w][n]>>
    BY <1>2, <1>3 DEF AsyncType
  <2>2. taken' = [taken EXCEPT ![w] = Append(@, accepted[w][n])]
    <3>1. Head(items)[1] = w /\ Head(items)[2] = accepted[w][n]
      BY <2>1
    <3> QED
      BY <1>1, <3>1
  <2>3. accepted[w][n] \in Nat /\ taken[w] \in Seq(Nat)
    BY <1>3, <1>4 DEF AsyncType
  <2>4. Append(taken[w], accepted[w][n]) \in Seq(Nat)
    BY <2>3, AppendProperties
  <2> QED
    BY <2>2, <2>4 DEF AsyncType
<1>7. /\ Len(taken'[w]) = n /\ taken'[w][n] = accepted[w][n]
      /\ \A k \in 1..Len(taken[w]) : taken'[w][k] = taken[w][k]
  <2>1. accepted[w][n] \in Nat /\ taken[w] \in Seq(Nat)
    BY <1>3, <1>4 DEF AsyncType
  <2> QED
    BY <1>6, <2>1, AppendProperties
<1>8. Entry(w, n) = accepted[w][n]
  BY <1>3 DEF Entry
<1>9. n <= Len(accepted[w]) /\ n > Len(taken[w])
  BY <1>3, <1>4
<1>10. items[1] = <<w, accepted[w][n]>>
  BY <1>3
<1> HIDE DEF n
<1>11. AsyncType'
  <2>1. read' \in [at : {"idle", "item", "done"}]
    BY <1>1
  <2> QED
    BY <1>1, <1>5, <1>6, <2>1 DEF AsyncType
<1>12. \A v \in Writers : Count(v)' = Count(v) /\ (Pushes(v)' <=> Pushes(v)) /\ \A k : Entry(v, k)' = Entry(v, k)
  BY <1>1 DEF Count, Entry, Pushes
<1>13. PushInv'
  BY <1>1, <1>12 DEF PushInv
<1>14. GotInv'
  <2>1. ASSUME NEW v \in Writers
        PROVE  /\ Len(taken'[v]) <= Len(accepted'[v])
               /\ \A k \in 1..Len(taken'[v]) : taken'[v][k] = accepted'[v][k]
    <3>1. /\ Len(taken[v]) <= Len(accepted[v])
          /\ \A k \in 1..Len(taken[v]) : taken[v][k] = accepted[v][k]
      BY DEF ItemsInv, GotInv
    <3>2. CASE v = w
      <4>1. \A k \in 1..n : k = n \/ k \in 1..Len(taken[w])
        BY <1>4 DEF n
      <4> QED
        BY <1>1, <1>7, <1>9, <3>1, <3>2, <4>1
    <3>3. CASE v # w
      BY <1>1, <1>6, <3>1, <3>3
    <3> QED
      BY <3>2, <3>3
  <2> QED
    BY <2>1 DEF GotInv
<1>15. LastInv'
  <2>1. ASSUME NEW v \in Writers, Pushes(v)'
        PROVE  Len(items') > 0 /\ items'[Len(items')] = <<v, tries'[v]>>
    <3>1. Pushes(v) /\ Len(items) >= 2 /\ items[Len(items)] = <<v, tries[v]>>
      BY <1>2, <1>12, <2>1 DEF ItemsInv, LastInv
    <3>2. Len(items') \in 1..(Len(items) - 1) /\ Len(items') + 1 = Len(items)
      BY <1>2, <1>5, <3>1
    <3>3. items'[Len(items')] = items[Len(items') + 1]
      BY <1>5, <3>2
    <3> QED
      BY <1>1, <3>1, <3>2, <3>3
  <2> QED
    BY <2>1 DEF LastInv
<1>16. \A i \in 1..Len(items') : i + 1 \in 1..Len(items) /\ items'[i] = items[i + 1] /\ i + 1 # 1
  BY <1>2, <1>5
<1>17. SequenceInv'
  <2>1. ASSUME NEW i \in 1..Len(items'), NEW j \in 1..Len(items'), j < i, items'[j][1] = items'[i][1]
        PROVE  items'[j][2] < items'[i][2]
    <3>1. /\ i + 1 \in 1..Len(items) /\ items'[i] = items[i + 1]
          /\ j + 1 \in 1..Len(items) /\ items'[j] = items[j + 1] /\ j + 1 < i + 1
      BY <1>16, <2>1
    <3>2. items[j + 1][1] = items[i + 1][1]
      BY <2>1, <3>1
    <3>3. items[j + 1][2] < items[i + 1][2]
      BY <3>1, <3>2 DEF ItemsInv, SequenceInv
    <3> QED
      BY <3>1, <3>3
  <2> QED
    BY <2>1 DEF SequenceInv
<1>18. HereInv'
  <2>1. ASSUME NEW v \in Writers, NEW k \in Len(taken'[v]) + 1..Count(v)'
        PROVE  \E i \in 1..Len(items') : items'[i] = <<v, Entry(v, k)'>>
    <3>1. /\ k \in Len(taken[v]) + 1..Count(v) /\ k \in 1..Count(v) /\ k \in Nat
          /\ v = w => k > n
      <4>1. Count(v)' = Count(v) /\ Len(taken[v]) \in Nat
        BY <1>12, AsyncBasics
      <4>2. CASE v = w
        BY <1>4, <1>7, <1>9, <4>1, <4>2
      <4>3. CASE v # w
        BY <1>6, <4>1, <4>3
      <4> QED
        BY <4>2, <4>3
    <3>2. PICK i \in 1..Len(items) : items[i] = <<v, Entry(v, k)>>
      BY <3>1 DEF ItemsInv, HereInv
    <3>3. i # 1
      <4>1. CASE v = w
        <5>1. Entry(w, n) < Entry(w, k) /\ Entry(w, n) \in Nat /\ Entry(w, k) \in Nat
          BY <1>4, <3>1, <4>1, AsyncBasics DEF PushInv
        <5> QED
          BY <1>8, <1>10, <3>2, <4>1, <5>1
      <4>2. CASE v # w
        BY <1>10, <3>2, <4>2
      <4> QED
        BY <4>1, <4>2
    <3>4. i - 1 \in 1..Len(items') /\ (i - 1) + 1 = i
      BY <1>2, <1>5, <3>3
    <3>5. items'[i - 1] = items[(i - 1) + 1]
      BY <1>16, <3>4
    <3>6. items'[i - 1] = <<v, Entry(v, k)'>>
      BY <1>12, <3>2, <3>4, <3>5
    <3> QED
      BY <3>4, <3>6
  <2> QED
    BY <2>1 DEF HereInv
<1>19. OwnInv'
  <2>1. ASSUME NEW i \in 1..Len(items')
        PROVE  \E v \in Writers : \E k \in Len(taken'[v]) + 1..Count(v)' : items'[i] = <<v, Entry(v, k)'>>
    <3>1. i + 1 \in 1..Len(items) /\ items'[i] = items[i + 1] /\ i + 1 # 1 /\ 1 \in 1..Len(items)
      BY <1>2, <1>16
    <3>2. PICK v \in Writers : \E k \in Len(taken[v]) + 1..Count(v) : items[i + 1] = <<v, Entry(v, k)>>
      BY <3>1 DEF ItemsInv, OwnInv
    <3>3. PICK k \in Len(taken[v]) + 1..Count(v) : items[i + 1] = <<v, Entry(v, k)>>
      BY <3>2
    <3>4. v = w => k # n
      <4>1. SUFFICES ASSUME v = w, k = n PROVE FALSE
        OBVIOUS
      <4>2. items[i + 1] = items[1]
        BY <1>8, <1>10, <3>3, <4>1
      <4> QED
        BY <3>1, <4>2, ItemsDiffer
    <3>5. k \in Len(taken'[v]) + 1..Count(v)'
      <4>1. Count(v)' = Count(v) /\ Len(taken[v]) \in Nat
        BY <1>12, AsyncBasics
      <4>2. CASE v = w
        <5>1. k # Len(taken[w]) + 1
          BY <3>4, <4>2 DEF n
        <5>2. Len(taken'[w]) = Len(taken[w]) + 1
          BY <1>7 DEF n
        <5> QED
          BY <3>3, <4>1, <4>2, <5>1, <5>2
      <4>3. CASE v # w
        BY <1>6, <3>3, <4>1, <4>3
      <4> QED
        BY <4>2, <4>3
    <3>6. items'[i] = <<v, Entry(v, k)'>>
      BY <1>12, <3>1, <3>3
    <3> QED
      BY <3>5, <3>6
  <2> QED
    BY <2>1 DEF OwnInv
<1>20. SourcesInv'
  <2>1. Unsourced' = Unsourced /\ Unset' = Unset /\ Woken' = 0 /\ Woken = 1 /\ Unsourced \in Nat
    BY <1>1 DEF Unsourced, Unset, Woken
  <2>2. Len(items') = Len(tcsQueue') - 1 + Woken' + Unsourced'
    BY <1>1, <1>2, <1>5, <2>1, AsyncBasics DEF SourcesInv
  <2>3. read'.at # "await"
    BY <1>1
  <2> QED
    BY <1>1, <2>1, <2>2, <2>3 DEF SourcesInv
<1> QED
  BY <1>11, <1>13, <1>14, <1>15, <1>17, <1>18, <1>19, <1>20 DEF ItemsInv

\* When the consumer has all that the threads push, nobody pushes and nothing is left.
LEMMA FlushKept ==
    ASSUME AsyncType, PushInv, ItemsInv, SourcesInv, Async!Flush
    PROVE  AsyncType' /\ PushInv' /\ ItemsInv' /\ SourcesInv'
<1>1. /\ \A w \in Writers : Len(taken[w]) = MaxPushes
      /\ items' = <<>> /\ tcsQueue' = <<made + 1>> /\ setTcs' = {}
      /\ curTcs' = made + 1 /\ made' = made + 1 /\ read' = [at |-> "done"]
      /\ UNCHANGED <<write, tries, accepted, taken>>
  BY DEF Async!Flush
<1>2. ASSUME NEW w \in Writers
      PROVE  Count(w) = Len(taken[w]) /\ Len(accepted[w]) = Len(taken[w]) /\ ~Pushes(w)
  <2>1. /\ Count(w) <= tries[w] /\ tries[w] \in 0..MaxPushes /\ MaxPushes \in Nat
        /\ Len(taken[w]) <= Len(accepted[w]) /\ Len(accepted[w]) <= Count(w)
        /\ Len(accepted[w]) \in Nat /\ Count(w) \in Nat /\ Len(taken[w]) = MaxPushes
    BY <1>1, AsyncBasics DEF PushInv, ItemsInv, GotInv
  <2>2. Count(w) = MaxPushes /\ Len(accepted[w]) = MaxPushes
    BY <2>1
  <2>3. ~Pushes(w)
    <3>1. SUFFICES ASSUME Pushes(w) PROVE FALSE
      OBVIOUS
    <3>2. Count(w) = Len(accepted[w]) + 1
      BY <3>1 DEF Count
    <3> QED
      BY <2>1, <2>2, <3>2
  <2> QED
    BY <2>1, <2>2, <2>3
<1>3. \A v \in Writers : Count(v)' = Count(v) /\ (Pushes(v)' <=> Pushes(v)) /\ \A k : Entry(v, k)' = Entry(v, k)
  BY <1>1 DEF Count, Entry, Pushes
<1>4. AsyncType'
  <2>1. /\ items' \in Seq(Writers \X Nat) /\ tcsQueue' \in Seq(Nat) /\ setTcs' \subseteq 0..made'
        /\ curTcs' \in Nat /\ made' \in Nat /\ read' \in [at : {"idle", "item", "done"}]
    BY <1>1 DEF AsyncType
  <2> QED
    BY <1>1, <2>1 DEF AsyncType
<1>5. PushInv'
  BY <1>1, <1>3 DEF PushInv
<1>6. Len(items') = 0 /\ Len(tcsQueue') = 1 /\ tcsQueue'[1] = made + 1 /\ made + 1 \in Nat
  BY <1>1 DEF AsyncType
<1>7. \A w \in Writers : \A k \in Len(taken'[w]) + 1..Count(w)' : FALSE
  BY <1>1, <1>2, <1>3, AsyncBasics
<1>8. ItemsInv'
  BY <1>1, <1>2, <1>3, <1>6, <1>7 DEF ItemsInv, GotInv, HereInv, OwnInv, SequenceInv, LastInv
<1>9. \A w \in Writers : write'[w].at = "idle"
  BY <1>1, <1>2 DEF Pushes
<1>10. Unsourced' = 0 /\ Unset' = 1 /\ Woken' = 0 /\ read'.at = "done"
  BY <1>1, <1>9 DEF Unsourced, Unset, Woken
<1>11. SourcesInv'
  BY <1>1, <1>6, <1>9, <1>10 DEF SourcesInv
<1> QED
  BY <1>4, <1>5, <1>8, <1>11

LEMMA AsyncKept == ASSUME AsyncInv, Async!Next PROVE AsyncInv'
<1>1. /\ overlapped' \in BOOLEAN
      /\ overlapped' = FALSE => overlapped = FALSE
  BY DEF AsyncInv, Async!Next, Async!EmplaceItem, Async!EmplaceTcs, Async!TakeBack, Async!ExchangeTcs,
         Async!SetTcs, Async!BackTcs, Async!EraseTcs, Async!TakeItem, Async!Flush, Async!writersRest
<1>2. SUFFICES ASSUME overlapped' = FALSE PROVE AsyncType' /\ PushInv' /\ ItemsInv' /\ SourcesInv'
  BY <1>1 DEF AsyncInv
<1>3. AsyncType /\ PushInv /\ ItemsInv /\ SourcesInv
  BY <1>1, <1>2 DEF AsyncInv
<1>4. ASSUME NEW w \in Writers, Async!EmplaceItem(w) PROVE AsyncType' /\ PushInv' /\ ItemsInv' /\ SourcesInv'
  BY <1>2, <1>3, <1>4, EmplaceItemKept
<1>5. ASSUME NEW w \in Writers, Async!EmplaceTcs(w) PROVE AsyncType' /\ PushInv' /\ ItemsInv' /\ SourcesInv'
  BY <1>3, <1>5, EmplaceTcsKept
<1>6. ASSUME NEW w \in Writers, Async!TakeBack(w) PROVE AsyncType' /\ PushInv' /\ ItemsInv' /\ SourcesInv'
  BY <1>3, <1>6, TakeBackKept
<1>7. ASSUME NEW w \in Writers, Async!ExchangeTcs(w) PROVE AsyncType' /\ PushInv' /\ ItemsInv' /\ SourcesInv'
  BY <1>3, <1>7, ExchangeTcsKept
<1>8. ASSUME NEW w \in Writers, Async!SetTcs(w) PROVE AsyncType' /\ PushInv' /\ ItemsInv' /\ SourcesInv'
  BY <1>3, <1>8, SetTcsKept
<1>9. CASE Async!BackTcs
  BY <1>3, <1>9, BackTcsKept
<1>10. CASE Async!EraseTcs
  BY <1>3, <1>10, EraseTcsKept
<1>11. CASE Async!TakeItem
  BY <1>3, <1>11, TakeItemKept
<1>12. CASE Async!Flush
  BY <1>3, <1>12, FlushKept
<1> QED
  BY <1>4, <1>5, <1>6, <1>7, <1>8, <1>9, <1>10, <1>11, <1>12 DEF Async!Next

LEMMA AsyncInvSuffices == ASSUME AsyncInv PROVE Async!NothingStranded
<1>1. SUFFICES ASSUME overlapped = FALSE
               PROVE  /\ read.at = "item" => items # <<>>
                      /\ \A w \in Writers :
                           /\ Async!IsPrefix(taken[w], accepted[w])
                           /\ (read.at = "await" /\ read.tcs \notin setTcs /\ \A v \in Writers : write[v].at = "idle")
                                => taken[w] = accepted[w]
  BY DEF AsyncInv, Async!NothingStranded
<1>2. AsyncType /\ PushInv /\ ItemsInv /\ SourcesInv
  BY <1>1 DEF AsyncInv
<1>3. read.at = "item" => items # <<>>
  BY <1>2, FirstIsNext
<1>4. ASSUME NEW w \in Writers PROVE Async!IsPrefix(taken[w], accepted[w])
  <2>1. /\ Len(taken[w]) <= Len(accepted[w]) /\ Len(taken[w]) \in Nat /\ Len(accepted[w]) \in Nat
        /\ \A k \in 1..Len(taken[w]) : taken[w][k] = accepted[w][k]
        /\ taken[w] \in Seq(Nat) /\ accepted[w] \in Seq(Nat)
    BY <1>2, AsyncBasics DEF ItemsInv, GotInv, AsyncType
  <2>2. SubSeq(taken[w], 1, Len(taken[w])) = SubSeq(accepted[w], 1, Len(taken[w]))
    BY <2>1
  <2> QED
    BY <2>1, <2>2 DEF Async!IsPrefix
<1>5. ASSUME NEW w \in Writers, read.at = "await", read.tcs \notin setTcs,
             \A v \in Writers : write[v].at = "idle"
      PROVE  taken[w] = accepted[w]
  <2>1. Unsourced = 0 /\ Unset = 1 /\ Woken = 0
    BY <1>5, NoPush DEF Woken
  <2>2. Len(tcsQueue) \in Nat /\ Len(tcsQueue) >= 1 /\ read.tcs = tcsQueue[1]
    BY <1>2, <1>5, <2>1, AsyncBasics DEF SourcesInv
  <2>3. ~(1 <= Len(tcsQueue) - 1)
    <3>1. 1 \in 1..Len(tcsQueue)
      BY <2>2
    <3> QED
      BY <1>2, <1>5, <2>1, <2>2, <3>1 DEF SourcesInv
  <2>4. Len(items) = 0
    BY <1>2, <2>1, <2>2, <2>3 DEF SourcesInv
  <2>5. \A k \in Len(taken[w]) + 1..Count(w) : FALSE
    BY <1>2, <2>4 DEF ItemsInv, HereInv
  <2>6. /\ Len(taken[w]) \in Nat /\ Len(accepted[w]) \in Nat /\ Count(w) \in Nat
        /\ Len(accepted[w]) <= Count(w) /\ Len(taken[w]) <= Len(accepted[w])
        /\ \A k \in 1..Len(taken[w]) : taken[w][k] = accepted[w][k]
    BY <1>2, AsyncBasics DEF ItemsInv, GotInv
  <2>7. Len(taken[w]) = Len(accepted[w])
    <3>1. SUFFICES ASSUME Len(taken[w]) + 1 <= Count(w) PROVE FALSE
      BY <2>6
    <3>2. Count(w) \in Len(taken[w]) + 1..Count(w)
      BY <2>6, <3>1
    <3> QED
      BY <2>5, <3>2
  <2>8. taken[w] \in Seq(Nat) /\ accepted[w] \in Seq(Nat)
    BY <1>2 DEF AsyncType
  <2> QED
    BY ONLY <2>6, <2>7, <2>8, SeqEqual
<1> QED
  BY <1>3, <1>4, <1>5

\* As long as no two pushes overlap, the consumer gets every item that was pushed, in
\* its writer's order, and is never left waiting beside one, for any writers, any list
\* capacity and any number of pushes (async_queue.h).
THEOREM QueueDelivers == LibrarySpec => []NothingStranded
<1> DEFINE Inv == part = "async" => AsyncInv
<1>1. LibraryInit => Inv
  BY AsyncStarts DEF LibraryInit
<1>2. Inv /\ [LibraryNext]_libraryVars => Inv'
  <2> SUFFICES ASSUME Inv, [LibraryNext]_libraryVars, part' = "async" PROVE AsyncInv'
    OBVIOUS
  <2>1. CASE AsyncStep
    BY <2>1, AsyncKept DEF AsyncStep
  <2>2. CASE UNCHANGED asyncVars /\ part' = part
    <3>1. AsyncInv
      BY <2>2
    <3>2. AsyncType => AsyncType'
      BY <2>2 DEF asyncVars, AsyncType
    <3>3. PushInv /\ ItemsInv => PushInv' /\ ItemsInv'
      <4>1. \A w \in Writers : Pushes(w)' <=> Pushes(w)
        BY <2>2 DEF asyncVars, Pushes
      <4>2. UNCHANGED <<items, tries, accepted, taken>>
        BY <2>2 DEF asyncVars
      <4> QED
        BY <4>1, <4>2, ItemsRest
    <3>4. SourcesInv => SourcesInv'
      BY <2>2 DEF asyncVars, SourcesInv, Unsourced, Unset, Woken
    <3>5. overlapped' = overlapped
      BY <2>2 DEF asyncVars
    <3> QED
      BY <3>1, <3>2, <3>3, <3>4, <3>5 DEF AsyncInv
  <2> QED
    BY <2>1, <2>2 DEF LibraryNext, libraryVars, RingStep, SerialStep, MpStep, ListStep, WaitStep,
                      TokenStep, FastStep, DelegatesStep, ValueStep
<1>3. Inv => NothingStranded
  BY AsyncInvSuffices DEF NothingStranded
<1> QED
  BY <1>1, <1>2, <1>3, PTL DEF LibrarySpec

-----------------------------------------------------------------------------
(* FastScheduler: how long until the next deadline, counted below zero     *)
(* once it is past, and how long ago a function was called add up to no    *)
(* more than its period and the time a call takes.                         *)

Micros == 0..(ClockRange - 1)
Scheduled == [period : Periods, callTime : Micros, by : Pushers \cup {"none"}, missed : BOOLEAN]
RunOf == [at : {"next", "load"}, left : Nat, size : Nat, kept : Seq(Scheduled)]
RunThatLowers == [at : {"lower"}, left : Nat, size : Nat, kept : Seq(Scheduled), dl : Micros]
PushOf == [at : {"inside"}, got : BOOLEAN, period : Periods]
PushThatLowers == [at : {"lower"}, period : Periods, dl : Micros]
Idle == [at |-> "idle"]

InRun == running.at \in {"next", "load", "lower"}
InHand == running.at \in {"load", "lower"}

FastType ==
  /\ micros \in Micros /\ deadlineUs \in Micros
  /\ queue \in Seq(Scheduled) /\ visible \in 0..Len(queue)
  /\ pusher \in [Pushers -> {Idle} \cup PushOf \cup PushThatLowers]
  /\ running \in {Idle, [at |-> "begin"]} \cup RunOf \cup RunThatLowers
  /\ InRun => running.left <= running.size /\ running.size <= visible
  /\ InHand => Len(running.kept) > 0
  /\ spent \in [Pushers \cup {"runner"} -> 0..MaxLate]
  /\ \A p \in Pushers : pusher[p].at = "idle" => spent[p] = 0
  /\ running.at = "idle" => spent["runner"] = 0

\* How long from n to d, whichever comes first.
Lead(n, d) ==
  IF Fast!Minus(d, n) <= Fast!HalfMax THEN Fast!Minus(d, n) ELSE Fast!Minus(d, n) - ClockRange
Until == Lead(micros, deadlineUs)
Age(f) == Fast!Minus(micros, f.callTime)

\* The deadline comes soon enough for f, or a thread that has just scheduled f is about to
\* see to it: a deadline it has read has not been put off since.
Covered(f) == Until + Age(f) <= f.period + MaxLate
NoLater(d) == Until <= Lead(micros, d)
InCharge(p, f) ==
  /\ pusher[p].at # "idle" /\ pusher[p].period = f.period /\ Age(f) <= spent[p]
  /\ pusher[p].at = "inside" => pusher[p].got
  /\ pusher[p].at = "lower" => NoLater(pusher[p].dl)
Cared(f) == Covered(f) \/ \E p \in Pushers : InCharge(p, f)

DeadlineInv == Until >= -(IF running.at = "idle" THEN MaxLate ELSE spent["runner"])

\* What no run has taken in, or is about to, is cared for unless a run has missed it; and
\* while its thread has yet to read the deadline, that thread is in charge.
Untaken(i) ==
  \/ running.at = "idle" \/ (running.at = "begin" /\ i > visible)
  \/ (InRun /\ i > running.size)
QueueInv ==
  \A i \in 1..Len(queue) :
    /\ Untaken(i) /\ ~queue[i].missed => Cared(queue[i])
    /\ queue[i].by # "none" => pusher[queue[i].by].at = "inside" /\ InCharge(queue[i].by, queue[i])

\* What a run has kept is covered, but the one it is about to cover.
KeptInv ==
  InRun =>
    /\ \A i \in 1..Len(running.kept) : (InHand => i > 1) => Covered(running.kept[i])
    /\ \A i \in 1..Len(running.kept) : running.kept[i].by = "none"
    /\ InHand => Age(running.kept[1]) <= running.kept[1].period + spent["runner"]
    /\ running.at = "lower" => NoLater(running.dl)

FastInv == FastType /\ DeadlineInv /\ QueueInv /\ KeptInv

\* Calls take less than half a round of micros(), and no period is so long that the last
\* call of a function that is cared for may come to lie a whole round back, where it looks
\* recent.
InTime ==
  /\ MaxLate <= Fast!HalfMax
  /\ \A t \in Periods : t + 3 * MaxLate < ClockRange

LEMMA FastConstants ==
  /\ ClockRange \in Nat \ {0} /\ Periods \subseteq Nat /\ MaxLate \in Nat /\ MaxScheduled \in Nat
  /\ "runner" \notin Pushers /\ "none" \notin Pushers
  /\ Fast!HalfMax \in Int /\ Fast!HalfMax >= -1 /\ 2 * Fast!HalfMax + 2 <= ClockRange
  /\ InTime => Fast!HalfMax >= 0
<1>1. ClockRange \in Nat \ {0} /\ Periods \subseteq Nat /\ MaxLate \in Nat /\ MaxScheduled \in Nat
      /\ "runner" \notin Pushers /\ "none" \notin Pushers
  BY LibraryAssumption DEF Fast!ClockAssumption
<1>2. ClockRange \div 2 \in Nat /\ 2 * (ClockRange \div 2) <= ClockRange
  BY <1>1
<1> QED
  BY <1>1, <1>2 DEF Fast!HalfMax, InTime

LEMMA MinusIs ==
  ASSUME NEW a \in Micros, NEW b \in Micros
  PROVE  /\ Fast!Minus(a, b) = IF a >= b THEN a - b ELSE a - b + ClockRange
         /\ Fast!Minus(a, b) \in Micros
<1>1. ClockRange \in Nat \ {0}
  BY FastConstants
<1>2. (a - b) % ClockRange = IF a >= b THEN a - b ELSE a - b + ClockRange
  BY <1>1 DEF Micros
<1> QED
  BY <1>1, <1>2 DEF Fast!Minus, Micros

\* A time from now.
LEMMA FromNow ==
  ASSUME NEW n \in Micros, NEW t \in Nat, t < ClockRange
  PROVE  /\ (n + t) % ClockRange \in Micros
         /\ Fast!Minus((n + t) % ClockRange, n) = t
<1>1. ClockRange \in Nat \ {0}
  BY FastConstants
<1>2. (n + t) % ClockRange = IF n + t < ClockRange THEN n + t ELSE n + t - ClockRange
  BY <1>1 DEF Micros
<1> DEFINE d == (n + t) % ClockRange
<1>3. d \in Micros
  BY <1>1, <1>2 DEF Micros
<1>4. Fast!Minus(d, n) = IF d >= n THEN d - n ELSE d - n + ClockRange
  BY <1>3, MinusIs
<1>5. d = (IF n + t < ClockRange THEN n + t ELSE n + t - ClockRange) /\ n \in Nat
  BY <1>2 DEF Micros
<1> HIDE DEF d
<1>6. Fast!Minus(d, n) = t
  BY <1>1, <1>4, <1>5
<1> QED
  BY <1>3, <1>6 DEF d

LEMMA LeadIs ==
  ASSUME NEW n \in Micros, NEW d \in Micros
  PROVE  /\ Lead(n, d) \in Int /\ Lead(n, d) <= Fast!HalfMax /\ Lead(n, d) > Fast!HalfMax - ClockRange
         /\ Fast!Minus(d, n) <= Fast!HalfMax <=> Lead(n, d) >= 0
         /\ Lead(n, d) >= 0 => Fast!Minus(d, n) = Lead(n, d)
         /\ Lead(n, d) > 0 => Fast!Minus(n, d) = ClockRange - Lead(n, d)
         /\ Lead(n, d) <= 0 /\ Fast!HalfMax >= 0 => Fast!Minus(n, d) = -Lead(n, d)
<1>1. /\ Fast!Minus(d, n) = (IF d >= n THEN d - n ELSE d - n + ClockRange)
      /\ Fast!Minus(n, d) = (IF n >= d THEN n - d ELSE n - d + ClockRange)
  BY MinusIs
<1>2. /\ ClockRange \in Nat /\ Fast!HalfMax \in Int /\ Fast!HalfMax >= -1 /\ 2 * Fast!HalfMax + 2 <= ClockRange
      /\ n \in Int /\ d \in Int /\ 0 <= n /\ 0 <= d /\ n < ClockRange /\ d < ClockRange
  BY FastConstants DEF Micros
<1> DEFINE a == Fast!Minus(d, n)
           b == Fast!Minus(n, d)
           h == Fast!HalfMax
           l == Lead(n, d)
<1>3. l = IF a <= h THEN a ELSE a - ClockRange
  BY DEF Lead
<1>4. a \in Int /\ b \in Int /\ 0 <= a /\ a < ClockRange /\ (IF a = 0 THEN b = 0 ELSE b = ClockRange - a)
  BY <1>1, <1>2
<1>5. h \in Int /\ h >= -1 /\ 2 * h + 2 <= ClockRange
  BY <1>2
<1> HIDE DEF a, b, h, l
<1>6. /\ l \in Int /\ l <= h /\ l > h - ClockRange
      /\ a <= h <=> l >= 0
      /\ l >= 0 => a = l
      /\ l > 0 => b = ClockRange - l
      /\ l <= 0 /\ h >= 0 => b = -l
  BY <1>2, <1>3, <1>4, <1>5
<1> QED
  BY <1>6 DEF a, b, h, l

\* A tick.
LEMMA TickMoves ==
  ASSUME NEW n \in Micros, NEW m, m = (n + 1) % ClockRange
  PROVE  /\ m \in Micros
         /\ \A c \in Micros : Fast!Minus(n, c) + 1 < ClockRange => Fast!Minus(m, c) = Fast!Minus(n, c) + 1
         /\ \A d \in Micros : Lead(n, d) - 1 > Fast!HalfMax - ClockRange => Lead(m, d) = Lead(n, d) - 1
<1>1. ClockRange \in Nat \ {0}
  BY FastConstants
<1>2. m = IF n + 1 = ClockRange THEN 0 ELSE n + 1
  BY <1>1 DEF Micros
<1>3. m \in Micros
  BY <1>1, <1>2 DEF Micros
<1>4. ASSUME NEW c \in Micros, Fast!Minus(n, c) + 1 < ClockRange
      PROVE  Fast!Minus(m, c) = Fast!Minus(n, c) + 1
  <2>1. /\ Fast!Minus(n, c) = (IF n >= c THEN n - c ELSE n - c + ClockRange)
        /\ Fast!Minus(m, c) = (IF m >= c THEN m - c ELSE m - c + ClockRange)
    BY <1>3, MinusIs
  <2>2. n \in Int /\ c \in Int /\ 0 <= n /\ 0 <= c /\ n < ClockRange /\ c < ClockRange
    BY <1>1 DEF Micros
  <2> QED
    BY <1>1, <1>2, <1>4, <2>1, <2>2
<1>5. ASSUME NEW d \in Micros, Lead(n, d) - 1 > Fast!HalfMax - ClockRange
      PROVE  Lead(m, d) = Lead(n, d) - 1
  <2>1. Fast!Minus(m, d) \in Micros /\ Fast!Minus(d, m) = (IF Fast!Minus(d, n) = 0 THEN ClockRange - 1
                                                            ELSE Fast!Minus(d, n) - 1)
    <3>1. /\ Fast!Minus(d, n) = (IF d >= n THEN d - n ELSE d - n + ClockRange)
          /\ Fast!Minus(d, m) = (IF d >= m THEN d - m ELSE d - m + ClockRange)
          /\ Fast!Minus(m, d) \in Micros
      BY <1>3, MinusIs
    <3>2. n \in Int /\ d \in Int /\ 0 <= n /\ 0 <= d /\ n < ClockRange /\ d < ClockRange
      BY <1>1 DEF Micros
    <3> QED
      BY <1>1, <1>2, <3>1, <3>2
  <2>2. Fast!Minus(d, n) \in Micros
    BY MinusIs
  <2> DEFINE a == Fast!Minus(d, n)
             b == Fast!Minus(d, m)
             h == Fast!HalfMax
  <2>3. h \in Int /\ h >= -1 /\ 2 * h + 2 <= ClockRange /\ a \in Int /\ 0 <= a /\ a < ClockRange
    BY <1>1, <2>2, FastConstants DEF Micros
  <2>4. /\ Lead(n, d) = (IF a <= h THEN a ELSE a - ClockRange)
        /\ Lead(m, d) = (IF b <= h THEN b ELSE b - ClockRange)
    BY DEF Lead
  <2>5. b = IF a = 0 THEN ClockRange - 1 ELSE a - 1
    BY <2>1
  <2>6. Lead(n, d) - 1 > h - ClockRange
    BY <1>5
  <2> HIDE DEF a, b, h
  <2> QED
    BY <1>1, <2>3, <2>4, <2>5, <2>6
<1> QED
  BY <1>3, <1>4, <1>5

\* What lowering the deadline does to it.
LEMMA Lowers ==
  ASSUME FastType, NEW dl \in Micros, NEW wanted \in Nat, deadlineUs' = Fast!LowerFrom(dl, wanted), micros' = micros
  PROVE  /\ deadlineUs' \in Micros
         /\ Until' \in Int /\ Until' <= Until /\ (Until' = Until \/ Until' >= 0)
         /\ ~Fast!Repeats(dl, wanted) /\ NoLater(dl) => Until' <= wanted
<1>1. micros \in Micros /\ deadlineUs \in Micros
  BY DEF FastType
<1>2. Fast!Suffices(dl, wanted) <=> Lead(micros, dl) <= wanted
  <2>1. /\ Fast!Minus(dl, micros) <= Fast!HalfMax <=> Lead(micros, dl) >= 0
        /\ Lead(micros, dl) >= 0 => Fast!Minus(dl, micros) = Lead(micros, dl)
        /\ Lead(micros, dl) \in Int
    BY <1>1, LeadIs
  <2>2. Fast!Minus(dl, micros) \in Int /\ Fast!HalfMax \in Int
    BY <1>1, MinusIs, FastConstants DEF Micros
  <2> QED
    BY <2>1, <2>2 DEF Fast!Suffices
<1>3. CASE Fast!LowerFrom(dl, wanted) = deadlineUs /\ (Fast!Suffices(dl, wanted) \/ deadlineUs # dl)
  <2>1. Until' = Until /\ Until \in Int
    BY <1>1, <1>3, LeadIs DEF Until
  <2>2. ~Fast!Repeats(dl, wanted) => Lead(micros, dl) <= wanted
    BY <1>2, <1>3 DEF Fast!Repeats
  <2> QED
    BY <1>1, <1>3, <2>1, <2>2, LeadIs DEF NoLater
<1>4. CASE ~Fast!Suffices(dl, wanted) /\ deadlineUs = dl
  <2>1. deadlineUs' = (micros + wanted) % ClockRange /\ Lead(micros, dl) > wanted
    BY <1>2, <1>4, <1>1, LeadIs DEF Fast!LowerFrom
  <2>2. wanted < Fast!HalfMax /\ Fast!HalfMax \in Int /\ 2 * Fast!HalfMax + 2 <= ClockRange /\ ClockRange \in Nat
    BY <2>1, <1>1, LeadIs, FastConstants
  <2>3. deadlineUs' \in Micros /\ Fast!Minus(deadlineUs', micros) = wanted
    BY <1>1, <2>1, <2>2, FromNow
  <2>4. Until' = wanted
    BY <2>2, <2>3 DEF Until, Lead
  <2> QED
    BY <1>4, <2>1, <2>3, <2>4, <1>1, LeadIs DEF Until
<1> QED
  BY <1>3, <1>4 DEF Fast!LowerFrom

LEMMA FastBasics ==
  ASSUME FastType
  PROVE  /\ micros \in Micros /\ deadlineUs \in Micros
         /\ Until \in Int /\ Until <= Fast!HalfMax /\ MaxLate \in Nat /\ Fast!HalfMax \in Int
         /\ \A f \in Scheduled : Age(f) \in Nat /\ f.period \in Periods /\ f.period \in Nat /\ f.callTime \in Micros
         /\ \A d \in Micros : Lead(micros, d) \in Int
         /\ \A p \in Pushers : spent[p] \in Nat /\ spent[p] <= MaxLate
         /\ spent["runner"] \in Nat /\ spent["runner"] <= MaxLate
         /\ \A i \in 1..Len(queue) : queue[i] \in Scheduled
         /\ Len(queue) \in Nat /\ visible \in Nat /\ visible <= Len(queue)
         /\ \A p \in Pushers : pusher[p].at # "idle" => pusher[p].period \in Periods /\ pusher[p].period \in Nat
         /\ \A p \in Pushers : pusher[p].at = "lower" => pusher[p].dl \in Micros
<1>1. micros \in Micros /\ deadlineUs \in Micros
  BY DEF FastType
<1>2. Until \in Int /\ Until <= Fast!HalfMax
  BY <1>1, LeadIs DEF Until
<1>3. ASSUME NEW f \in Scheduled
      PROVE  Age(f) \in Nat /\ f.period \in Periods /\ f.period \in Nat /\ f.callTime \in Micros
  <2>1. f.callTime \in Micros /\ f.period \in Periods
    BY DEF Scheduled
  <2>2. Age(f) \in Micros
    BY <1>1, <2>1, MinusIs DEF Age
  <2>3. Age(f) \in Nat
    BY <2>2 DEF Micros
  <2>4. Periods \subseteq Nat
    BY FastConstants
  <2> QED
    BY <2>1, <2>3, <2>4
<1>4. \A d \in Micros : Lead(micros, d) \in Int
  BY <1>1, LeadIs
<1>5. /\ \A p \in Pushers : spent[p] \in Nat /\ spent[p] <= MaxLate
      /\ spent["runner"] \in Nat /\ spent["runner"] <= MaxLate
  BY FastConstants DEF FastType
<1>6. /\ \A i \in 1..Len(queue) : queue[i] \in Scheduled
      /\ Len(queue) \in Nat /\ visible \in Nat /\ visible <= Len(queue)
  BY DEF FastType
<1>7. ASSUME NEW p \in Pushers
      PROVE  /\ pusher[p].at # "idle" => pusher[p].period \in Periods /\ pusher[p].period \in Nat
             /\ pusher[p].at = "lower" => pusher[p].dl \in Micros
  <2>1. pusher[p] \in {Idle} \cup PushOf \cup PushThatLowers
    BY DEF FastType
  <2>2. Periods \subseteq Nat
    BY FastConstants
  <2>3. pusher[p].at # "idle" => pusher[p] \in PushOf \cup PushThatLowers
    BY <2>1 DEF Idle
  <2>4. pusher[p] \in PushOf => pusher[p].period \in Periods /\ pusher[p].at = "inside"
    BY DEF PushOf
  <2>5. pusher[p] \in PushThatLowers => pusher[p].period \in Periods /\ pusher[p].dl \in Micros
    BY DEF PushThatLowers
  <2> QED
    BY <2>2, <2>3, <2>4, <2>5
<1> QED
  BY <1>1, <1>2, <1>3, <1>4, <1>5, <1>6, <1>7, FastConstants

LEMMA RunBasics ==
  ASSUME FastType, InRun
  PROVE  /\ running.left \in Nat /\ running.size \in Nat /\ running.kept \in Seq(Scheduled)
         /\ running.left <= running.size /\ running.size <= visible /\ running.size <= Len(queue)
         /\ \A i \in 1..Len(running.kept) : running.kept[i] \in Scheduled
         /\ InHand => Len(running.kept) >= 1
         /\ running.at = "lower" => running.dl \in Micros /\ running \in RunThatLowers
         /\ running.at # "lower" => running \in RunOf
<1>1. running \in RunOf \cup RunThatLowers
  BY DEF FastType, InRun, Idle
<1>2. running \in RunOf => running.at # "lower"
  BY DEF RunOf
<1>3. running \in RunThatLowers => running.at = "lower"
  BY DEF RunThatLowers
<1>4. running.left \in Nat /\ running.size \in Nat /\ running.kept \in Seq(Scheduled)
  BY <1>1 DEF RunOf, RunThatLowers
<1>5. \A i \in 1..Len(running.kept) : running.kept[i] \in Scheduled
  BY <1>4
<1>6. running.at = "lower" => running.dl \in Micros
  BY <1>1, <1>2 DEF RunThatLowers
<1>7. Len(running.kept) \in Nat
  BY <1>4
<1>8. running.left <= running.size /\ running.size <= visible /\ running.size <= Len(queue)
  <2>1. running.size \in Nat /\ running.left <= running.size /\ running.size <= visible
    BY <1>4 DEF FastType
  <2> QED
    BY <2>1, FastBasics
<1> QED
  BY <1>1, <1>2, <1>3, <1>4, <1>5, <1>6, <1>7, <1>8 DEF FastType, InRun

LEMMA FastStarts == ASSUME Fast!Init, InTime PROVE FastInv
<1>1. FastType
  BY FastConstants DEF Fast!Init, FastType, Micros, Idle, InRun, InHand
<1>2. Until = 0
  <2>1. 0 \in Micros /\ micros = 0 /\ deadlineUs = 0 /\ ClockRange \in Nat
    BY FastConstants DEF Fast!Init, Micros
  <2>2. Fast!Minus(0, 0) = 0
    BY <2>1, MinusIs
  <2>3. Fast!Minus(0, 0) <= Fast!HalfMax
    BY <2>2, FastConstants
  <2> QED
    BY <2>1, <2>2, <2>3 DEF Until, Lead
<1> QED
  BY <1>1, <1>2, FastConstants DEF Fast!Init, FastInv, DeadlineInv, QueueInv, KeptInv, InRun

\* A deadline that only comes nearer leaves everybody as well off.
LEMMA Nearer ==
  ASSUME FastType, micros' = micros, Until' \in Int, Until' <= Until
  PROVE  /\ \A f \in Scheduled : Age(f)' = Age(f) /\ (Covered(f) => Covered(f)')
         /\ \A d \in Micros : NoLater(d) => NoLater(d)'
<1>1. ASSUME NEW f \in Scheduled PROVE Age(f)' = Age(f) /\ (Covered(f) => Covered(f)')
  <2>1. Age(f)' = Age(f)
    BY DEF Age
  <2> QED
    BY <2>1, FastBasics DEF Covered
<1>2. ASSUME NEW d \in Micros PROVE NoLater(d) => NoLater(d)'
  BY FastBasics DEF NoLater
<1> QED
  BY <1>1, <1>2

\* Who is in charge stays so.
LEMMA StillInCharge ==
  ASSUME FastType, micros' = micros, Until' \in Int, Until' <= Until,
         NEW p \in Pushers, pusher'[p] = pusher[p], spent'[p] = spent[p],
         NEW f \in Scheduled, InCharge(p, f)
  PROVE  InCharge(p, f)'
<1>1. Age(f)' = Age(f)
  BY Nearer
<1>2. ASSUME pusher[p].at = "lower", NEW d, d = pusher[p].dl PROVE NoLater(d)'
  BY <1>2, Nearer, FastBasics DEF InCharge
<1>3. pusher[p].at = "lower" => Until' <= Lead(micros', pusher[p].dl)
  BY <1>2 DEF NoLater
<1> QED
  BY <1>1, <1>3 DEF InCharge, NoLater

LEMMA StillCared ==
  ASSUME FastType, micros' = micros, Until' \in Int, Until' <= Until,
         \A p \in Pushers : pusher'[p] = pusher[p] /\ spent'[p] = spent[p],
         NEW f \in Scheduled, Cared(f)
  PROVE  Cared(f)'
<1>1. CASE Covered(f)
  BY <1>1, Nearer DEF Cared
<1>2. CASE \E p \in Pushers : InCharge(p, f)
  BY <1>2, StillInCharge DEF Cared
<1> QED
  BY <1>1, <1>2 DEF Cared

LEMMA DeadlineNear == ASSUME FastType, DeadlineInv PROVE Until >= -MaxLate
  BY FastBasics DEF DeadlineInv

LEMMA TickKeeps == ASSUME FastInv, InTime, Fast!Tick PROVE FastInv'
<1> USE DEF FastInv
<1>1. /\ ClockRange \in Nat /\ MaxLate \in Nat /\ Fast!HalfMax \in Int /\ MaxLate <= Fast!HalfMax
      /\ 2 * Fast!HalfMax + 2 <= ClockRange
      /\ \A t \in Periods : t + 3 * MaxLate < ClockRange
  BY FastConstants DEF InTime
<1>2. /\ deadlineUs' = deadlineUs /\ queue' = queue /\ visible' = visible /\ pusher' = pusher
      /\ running' = running /\ micros' = (micros + 1) % ClockRange
  BY DEF Fast!Tick
<1>3. /\ \A p \in Pushers : pusher[p].at # "idle" => spent[p] < MaxLate /\ spent'[p] = spent[p] + 1
      /\ running.at # "idle" => spent["runner"] < MaxLate /\ spent'["runner"] = spent["runner"] + 1
      /\ \A c \in Pushers \cup {"runner"} : spent'[c] \in 0..MaxLate
      /\ \A p \in Pushers : pusher[p].at = "idle" => spent'[p] = 0
      /\ running.at = "idle" => spent'["runner"] = 0
      /\ spent' \in [Pushers \cup {"runner"} -> 0..MaxLate]
  <2>1. /\ \A p \in Pushers : p \in Fast!Busy <=> pusher[p].at # "idle"
        /\ "runner" \in Fast!Busy <=> running.at # "idle"
        /\ Fast!Busy \subseteq Pushers \cup {"runner"}
    BY FastConstants DEF Fast!Busy
  <2>2. /\ \A c \in Fast!Busy : spent[c] < MaxLate
        /\ spent' = [c \in Pushers \cup {"runner"} |-> IF c \in Fast!Busy THEN spent[c] + 1 ELSE 0]
    BY DEF Fast!Tick, FastType
  <2>3. \A c \in Pushers \cup {"runner"} : spent[c] \in 0..MaxLate
    BY DEF FastType
  <2>4. \A c \in Pushers \cup {"runner"} :
          spent'[c] = IF c \in Fast!Busy THEN spent[c] + 1 ELSE 0
    BY <2>2
  <2>5. \A c \in Pushers \cup {"runner"} : spent'[c] \in 0..MaxLate
    BY <1>1, <2>2, <2>3, <2>4
  <2>6. spent' \in [Pushers \cup {"runner"} -> 0..MaxLate]
    BY <2>2, <2>5
  <2> QED
    BY <2>1, <2>2, <2>4, <2>5, <2>6
\* The deadline.
<1>4. Until > -MaxLate
  <2>1. CASE running.at # "idle"
    BY <1>1, <1>3, <2>1, FastBasics DEF DeadlineInv
  <2>2. CASE running.at = "idle"
    <3>1. Fast!Overdue => Fast!Minus(micros, deadlineUs) < MaxLate
      BY <2>2, FastConstants DEF Fast!Tick, Fast!Busy
    <3>2. Until <= 0 => Fast!Minus(micros, deadlineUs) = -Until
      BY <1>1, FastBasics, LeadIs DEF Until
    <3>3. Until >= -MaxLate /\ Until \in Int
      BY DeadlineNear, FastBasics
    <3> QED
      BY <1>1, <3>1, <3>2, <3>3 DEF Fast!Overdue
  <2> QED
    BY <2>1, <2>2
<1>5. micros' \in Micros
  BY <1>2, FastBasics, TickMoves
<1>6. ASSUME NEW d \in Micros, Until <= Lead(micros, d)
      PROVE  Lead(micros', d) = Lead(micros, d) - 1
  <2>1. Lead(micros, d) - 1 > Fast!HalfMax - ClockRange
    BY <1>1, <1>4, <1>6, FastBasics
  <2> QED
    BY <1>2, <2>1, FastBasics, TickMoves
<1>7. Until' = Until - 1
  BY <1>2, <1>6, FastBasics DEF Until
<1>8. ASSUME NEW d \in Micros, NoLater(d) PROVE NoLater(d)'
  BY <1>6, <1>7, <1>8, FastBasics DEF NoLater
<1>9. ASSUME NEW f \in Scheduled, Age(f) + 1 < ClockRange PROVE Age(f)' = Age(f) + 1
  BY <1>2, <1>9, FastBasics, TickMoves DEF Age
<1>10. ASSUME NEW f \in Scheduled, Age(f) + 1 <= f.period + 3 * MaxLate \/ Age(f) + 1 <= MaxLate
       PROVE  Age(f)' = Age(f) + 1
  BY <1>1, <1>9, <1>10, FastBasics
\* What is scheduled.
<1>11. ASSUME NEW f \in Scheduled, Covered(f) PROVE Covered(f)'
  <2>1. Age(f) + 1 <= f.period + 2 * MaxLate
    BY <1>1, <1>4, <1>11, FastBasics DEF Covered
  <2>2. Age(f)' = Age(f) + 1
    BY <1>1, <1>10, <2>1, FastBasics
  <2> QED
    BY <1>7, <1>11, <2>2, FastBasics DEF Covered
<1>12. ASSUME NEW f \in Scheduled, NEW p \in Pushers, InCharge(p, f) PROVE InCharge(p, f)'
  <2>1. Age(f)' = Age(f) + 1 /\ Age(f)' <= spent'[p]
    BY <1>1, <1>3, <1>10, <1>12, FastBasics DEF InCharge
  <2>2. pusher[p].at = "lower" => Until' <= Lead(micros', pusher[p].dl)
    BY <1>8, <1>12, FastBasics DEF InCharge, NoLater
  <2> QED
    BY <1>2, <1>12, <2>1, <2>2 DEF InCharge, NoLater
<1>13. ASSUME NEW f \in Scheduled, Cared(f) PROVE Cared(f)'
  BY <1>11, <1>12, <1>13 DEF Cared
<1>14. FastType'
  BY <1>2, <1>3, <1>5 DEF FastType, InRun, InHand
<1>15. DeadlineInv'
  BY <1>1, <1>2, <1>3, <1>4, <1>7, FastBasics DEF DeadlineInv
<1>16. QueueInv'
  <2> SUFFICES ASSUME NEW i \in 1..Len(queue), NEW f, f = queue[i]
               PROVE  /\ Untaken(i)' /\ ~f.missed => Cared(f)'
                      /\ f.by # "none" => pusher[f.by].at = "inside" /\ InCharge(f.by, f)'
    BY <1>2 DEF QueueInv, Cared, Covered, InCharge, Age
  <2>1. f \in Scheduled
    BY FastBasics
  <2>2. Untaken(i)' <=> Untaken(i)
    BY <1>2 DEF Untaken, InRun
  <2>3. Untaken(i)' /\ ~f.missed => Cared(f)'
    BY <1>13, <2>1, <2>2 DEF QueueInv
  <2>4. ASSUME f.by # "none" PROVE pusher[f.by].at = "inside" /\ InCharge(f.by, f)'
    <3>1. f.by \in Pushers /\ pusher[f.by].at = "inside" /\ InCharge(f.by, f)
      BY <2>1, <2>4 DEF QueueInv, Scheduled
    <3> QED
      BY <1>12, <2>1, <3>1
  <2> QED
    BY <2>3, <2>4
<1>17. KeptInv'
  <2> SUFFICES ASSUME InRun
               PROVE  /\ \A i \in 1..Len(running.kept) : (InHand => i > 1) => Covered(running.kept[i])'
                      /\ InHand => Age(running.kept[1])' <= running.kept[1].period + spent'["runner"]
                      /\ running.at = "lower" => NoLater(running.dl)'
    BY <1>2 DEF KeptInv, InRun, InHand
  <2>1. ASSUME NEW i \in 1..Len(running.kept), InHand => i > 1, NEW f, f = running.kept[i]
        PROVE  Covered(f)'
    BY <1>11, <2>1, RunBasics DEF KeptInv
  <2>2. ASSUME InHand, NEW f, f = running.kept[1]
        PROVE  Age(f)' <= f.period + spent'["runner"]
    <3>1. f \in Scheduled /\ Age(f) <= f.period + spent["runner"] /\ running.at # "idle"
      BY <2>2, RunBasics DEF KeptInv, InRun
    <3>2. Age(f)' = Age(f) + 1
      BY <1>1, <1>3, <1>10, <3>1, FastBasics
    <3> QED
      BY <1>3, <3>1, <3>2, FastBasics
  <2>3. ASSUME running.at = "lower", NEW d, d = running.dl
        PROVE  NoLater(d)'
    BY <1>8, <2>3, RunBasics DEF KeptInv
  <2> QED
    BY <1>2, <2>1, <2>2, <2>3 DEF Covered, Age, NoLater
<1> QED
  BY <1>14, <1>15, <1>16, <1>17

LEMMA SameUntil ==
  ASSUME FastType, micros' = micros, deadlineUs' = deadlineUs
  PROVE  Until' = Until /\ Until' \in Int
  BY FastBasics DEF Until

\* The run is where it was, and what it has is covered as before.
LEMMA KeptStays ==
  ASSUME FastType, KeptInv, running' = running, micros' = micros, spent'["runner"] = spent["runner"],
         Until' \in Int, Until' <= Until
  PROVE  KeptInv'
<1> SUFFICES ASSUME InRun
             PROVE  /\ \A i \in 1..Len(running.kept) : (InHand => i > 1) => Covered(running.kept[i])'
                    /\ InHand => Age(running.kept[1])' <= running.kept[1].period + spent["runner"]
                    /\ running.at = "lower" => NoLater(running.dl)'
  BY DEF KeptInv, InRun, InHand
<1>1. ASSUME NEW i \in 1..Len(running.kept), InHand => i > 1, NEW f, f = running.kept[i]
      PROVE  Covered(f)'
  BY <1>1, Nearer, RunBasics DEF KeptInv
<1>2. ASSUME InHand, NEW f, f = running.kept[1]
      PROVE  Age(f)' <= f.period + spent["runner"]
  BY <1>2, Nearer, RunBasics DEF KeptInv
<1>3. ASSUME running.at = "lower", NEW d, d = running.dl
      PROVE  NoLater(d)'
  BY <1>3, Nearer, RunBasics DEF KeptInv
<1> QED
  BY <1>1, <1>2, <1>3 DEF Covered, Age, NoLater

\* Items that differ in their histories only.
Alike(g, f) == g.period = f.period /\ g.callTime = f.callTime /\ g.by \in {f.by, "none"}

LEMMA AlikeAre ==
  ASSUME NEW f, NEW g, Alike(g, f)
  PROVE  /\ Cared(f) => Cared(g)
         /\ Cared(f)' => Cared(g)'
         /\ \A p \in Pushers : InCharge(p, f)' => InCharge(p, g)'
  BY DEF Alike, Cared, Covered, InCharge, Age

LEMMA QueueStays ==
  ASSUME FastType, QueueInv, micros' = micros, Until' \in Int, Until' <= Until,
         Len(queue') = Len(queue),
         \A i \in 1..Len(queue) :
           /\ Alike(queue'[i], queue[i])
           /\ Untaken(i)' /\ ~queue'[i].missed => Untaken(i) /\ ~queue[i].missed,
         \A f \in Scheduled : Cared(f) => Cared(f)',
         \A i \in 1..Len(queue), q \in Pushers :
           queue'[i].by = q => pusher'[q] = pusher[q] /\ spent'[q] = spent[q]
  PROVE  QueueInv'
<1> SUFFICES ASSUME NEW i \in 1..Len(queue), NEW g, g = queue'[i]
             PROVE  /\ Untaken(i)' /\ ~g.missed => Cared(g)'
                    /\ g.by # "none" => pusher'[g.by].at = "inside" /\ InCharge(g.by, g)'
  BY DEF QueueInv, Cared, Covered, InCharge, Age
<1>1. PICK f : f = queue[i] /\ f \in Scheduled /\ Alike(g, f)
  BY FastBasics
<1>2. Untaken(i)' /\ ~g.missed => Cared(g)'
  BY <1>1, AlikeAre DEF QueueInv
<1>3. ASSUME g.by # "none" PROVE pusher'[g.by].at = "inside" /\ InCharge(g.by, g)'
  <2>1. PICK p \in Pushers : p = g.by /\ p = f.by
    BY <1>1, <1>3 DEF Alike, Scheduled
  <2>2. pusher[p].at = "inside" /\ InCharge(p, f)
    BY <1>1, <1>3, <2>1 DEF QueueInv
  <2>3. pusher'[p] = pusher[p] /\ spent'[p] = spent[p]
    BY <2>1
  <2>4. InCharge(p, f)'
    BY <1>1, <2>2, <2>3, StillInCharge
  <2>5. InCharge(p, g)'
    BY <1>1, <2>4, AlikeAre
  <2> QED
    BY <2>1, <2>2, <2>3, <2>5
<1> QED
  BY <1>2, <1>3

LEMMA PushKeeps ==
  ASSUME FastInv, InTime, NEW p \in Pushers, NEW t \in Periods, Fast!Push(p, t)
  PROVE  FastInv'
<1> USE DEF FastInv
<1> DEFINE n == Len(queue) + 1
<1>1. PICK g \in Scheduled :
        g = Fast!Item(p, t) /\ g.period = t /\ t \in Nat /\ g.by = p /\ g.callTime = micros
  <2>1. Fast!Item(p, t) \in Scheduled
    BY FastBasics, FastConstants DEF Scheduled, Fast!Item
  <2> QED
    BY <2>1, FastConstants DEF Fast!Item
<1>2. PICK got \in BOOLEAN :
        /\ queue' = (IF got THEN Append(queue, g) ELSE queue)
        /\ pusher' = [pusher EXCEPT ![p] = [at |-> "inside", got |-> got, period |-> t]]
  BY <1>1 DEF Fast!Push, Fast!Goto
<1>3. /\ micros' = micros /\ deadlineUs' = deadlineUs /\ running' = running /\ spent' = spent
      /\ visible' = visible /\ pusher[p].at = "idle"
  BY DEF Fast!Push
<1>4. /\ queue' \in Seq(Scheduled) /\ Len(queue) \in Nat
      /\ Len(queue') = (IF got THEN n ELSE Len(queue))
      /\ \A i \in 1..Len(queue) : queue'[i] = queue[i]
      /\ got => queue'[n] = g
  BY <1>2, <1>1 DEF FastType
<1>5. /\ pusher' \in [Pushers -> {Idle} \cup PushOf \cup PushThatLowers]
      /\ pusher'[p] = [at |-> "inside", got |-> got, period |-> t]
      /\ \A q \in Pushers \ {p} : pusher'[q] = pusher[q]
  <2>1. [at |-> "inside", got |-> got, period |-> t] \in PushOf
    BY DEF PushOf
  <2> QED
    BY <1>2, <2>1 DEF FastType
<1>6. Age(g)' = 0 /\ spent[p] = 0
  <2>1. Fast!Minus(micros, micros) = 0
    BY FastBasics, MinusIs DEF Micros
  <2> QED
    BY <1>3, <1>1, <2>1 DEF Age, FastType
<1>7. FastType'
  <2>1. \A q \in Pushers : pusher'[q].at = "idle" => spent[q] = 0
    BY <1>5 DEF FastType
  <2>2. visible \in 0..Len(queue')
    BY <1>4, FastBasics
  <2> QED
    BY <1>3, <1>4, <1>5, <2>1, <2>2 DEF FastType, InRun, InHand
<1>8. Until' = Until /\ Until' \in Int
  BY <1>3, SameUntil
<1>9. DeadlineInv'
  BY <1>3, <1>8 DEF DeadlineInv
<1>10. KeptInv'
  BY <1>3, <1>8, KeptStays, FastBasics
<1>11. QueueInv'
  <2> SUFFICES ASSUME NEW i \in 1..Len(queue'), NEW f, f = queue'[i]
               PROVE  /\ Untaken(i)' /\ ~f.missed => Cared(f)'
                      /\ f.by # "none" => pusher'[f.by].at = "inside" /\ InCharge(f.by, f)'
    BY DEF QueueInv, Cared, Covered, InCharge, Age
  <2>1. CASE i \in 1..Len(queue)
    <3>1. f = queue[i] /\ f \in Scheduled /\ (Untaken(i)' <=> Untaken(i))
      BY <1>3, <1>4, <2>1, FastBasics DEF Untaken, InRun
    <3>2. ASSUME NEW q \in Pushers, InCharge(q, f) PROVE q # p /\ InCharge(q, f)'
      <4>1. q # p
        BY <1>3, <3>2 DEF InCharge
      <4> QED
        BY <1>3, <1>5, <1>8, <3>1, <3>2, <4>1, StillInCharge
    <3>3. Covered(f) => Covered(f)'
      BY <1>3, <1>8, <3>1, Nearer
    <3>4. Cared(f) => Cared(f)'
      BY <3>2, <3>3 DEF Cared
    <3>5. ASSUME f.by # "none" PROVE pusher'[f.by].at = "inside" /\ InCharge(f.by, f)'
      <4>1. f.by \in Pushers /\ pusher[f.by].at = "inside" /\ InCharge(f.by, f)
        BY <2>1, <3>1, <3>5 DEF QueueInv, Scheduled
      <4> QED
        BY <1>5, <3>2, <4>1
    <3> QED
      BY <2>1, <3>1, <3>4, <3>5 DEF QueueInv
  <2>2. CASE i \notin 1..Len(queue)
    <3>1. got /\ i = n /\ f = g
      BY <1>4, <2>2
    <3>2. InCharge(p, f)'
      BY <1>3, <1>1, <1>5, <1>6, <3>1 DEF InCharge
    <3> QED
      BY <1>1, <1>5, <3>1, <3>2 DEF Cared
  <2> QED
    BY <2>1, <2>2
<1> QED
  BY <1>7, <1>9, <1>10, <1>11

\* A step of a thread that has scheduled something.
LEMMA PusherKeeps ==
  ASSUME FastInv, NEW p \in Pushers, FastType', micros' = micros, running' = running,
         visible <= visible', spent'["runner"] = spent["runner"],
         \A q \in Pushers \ {p} : pusher'[q] = pusher[q] /\ spent'[q] = spent[q],
         Until' \in Int, Until' <= Until, Until' = Until \/ Until' >= 0,
         \A f \in Scheduled : InCharge(p, f) => Cared(f)',
         Len(queue') = Len(queue),
         \A i \in 1..Len(queue) : Alike(queue'[i], queue[i]) /\ queue'[i].missed = queue[i].missed,
         \/ pusher'[p] = pusher[p] /\ spent'[p] = spent[p]
         \/ \A i \in 1..Len(queue) : queue'[i].by # p
  PROVE  FastInv'
<1> USE DEF FastInv
<1>1. DeadlineInv'
  BY FastBasics DEF DeadlineInv
<1>2. KeptInv'
  BY KeptStays
<1>3. ASSUME NEW f \in Scheduled, Cared(f) PROVE Cared(f)'
  <2>1. ASSUME NEW q \in Pushers, q # p, InCharge(q, f) PROVE InCharge(q, f)'
    BY <2>1, StillInCharge
  <2> QED
    BY <1>3, <2>1, Nearer DEF Cared
<1>4. visible \in Nat /\ visible' \in Nat
  BY FastBasics DEF FastType
<1>5. \A i \in 1..Len(queue) : Untaken(i)' => Untaken(i)
  BY <1>4 DEF Untaken, InRun
<1>6. QueueInv'
  BY <1>3, <1>5, QueueStays
<1> QED
  BY <1>1, <1>2, <1>6

LEMMA PublishKeeps ==
  ASSUME FastInv, NEW p \in Pushers, Fast!Publish(p)
  PROVE  FastInv'
<1>1. /\ visible' \in Nat /\ visible <= visible' /\ visible' <= Len(queue)
      /\ micros' = micros /\ deadlineUs' = deadlineUs /\ queue' = queue /\ pusher' = pusher
      /\ running' = running /\ spent' = spent
  BY FastBasics DEF FastInv, Fast!Publish
<1>2. FastType'
  <2>1. InRun => running.size \in Nat
    BY RunBasics DEF FastInv
  <2>2. visible \in Nat /\ Len(queue) \in Nat
    BY FastBasics DEF FastInv
  <2> QED
    BY <1>1, <2>1, <2>2 DEF FastInv, FastType, InRun, InHand
<1>3. Until' = Until /\ Until' \in Int
  BY <1>1, SameUntil DEF FastInv
<1>4. ASSUME NEW f \in Scheduled, InCharge(p, f) PROVE Cared(f)'
  BY <1>1, <1>3, <1>4, StillInCharge DEF FastInv, Cared
<1> QED
  BY <1>1, <1>2, <1>3, <1>4, PusherKeeps DEF Alike

LEMMA RefusedKeeps ==
  ASSUME FastInv, NEW p \in Pushers, Fast!Refused(p)
  PROVE  FastInv'
<1>1. /\ pusher' = [pusher EXCEPT ![p] = Idle] /\ spent' = [spent EXCEPT ![p] = 0]
      /\ pusher[p].at = "inside" /\ ~pusher[p].got
      /\ micros' = micros /\ deadlineUs' = deadlineUs /\ queue' = queue /\ visible' = visible
      /\ running' = running
  BY DEF Fast!Refused, Fast!Goto, Idle
<1>2. /\ pusher' \in [Pushers -> {Idle} \cup PushOf \cup PushThatLowers] /\ pusher'[p] = Idle
      /\ \A q \in Pushers \ {p} : pusher'[q] = pusher[q]
      /\ spent' \in [Pushers \cup {"runner"} -> 0..MaxLate] /\ spent'["runner"] = spent["runner"]
      /\ spent'[p] = 0 /\ \A q \in Pushers \ {p} : spent'[q] = spent[q]
  BY <1>1, FastConstants DEF FastInv, FastType
<1>3. FastType'
  BY <1>1, <1>2 DEF FastInv, FastType, InRun, InHand
<1>4. Until' = Until /\ Until' \in Int
  BY <1>1, SameUntil DEF FastInv
<1>5. \A f \in Scheduled : ~InCharge(p, f)
  BY <1>1 DEF InCharge
<1>6. \A i \in 1..Len(queue) : queue[i].by # p
  BY <1>1, FastConstants DEF FastInv, QueueInv, InCharge
<1>7. visible <= visible'
  BY <1>1, FastBasics DEF FastInv
<1> QED
  BY <1>1, <1>2, <1>3, <1>4, <1>5, <1>6, <1>7, PusherKeeps DEF Alike

LEMMA LoadDeadlineKeeps ==
  ASSUME FastInv, NEW p \in Pushers, Fast!LoadDeadline(p)
  PROVE  FastInv'
<1> DEFINE c == [at |-> "lower", period |-> pusher[p].period, dl |-> deadlineUs]
           Read(f) == IF f.by = p THEN [f EXCEPT !.by = "none"] ELSE f
<1>1. /\ pusher' = [pusher EXCEPT ![p] = c] /\ pusher[p].at = "inside" /\ pusher[p].got
      /\ queue' = [i \in DOMAIN queue |-> Read(queue[i])]
      /\ micros' = micros /\ deadlineUs' = deadlineUs /\ running' = running /\ spent' = spent
      /\ visible' = visible
  BY DEF Fast!LoadDeadline, Fast!Goto
<1>2. c \in PushThatLowers
  BY <1>1, FastBasics DEF FastInv, PushThatLowers
<1>3. pusher' \in [Pushers -> {Idle} \cup PushOf \cup PushThatLowers] /\ pusher'[p] = c
      /\ \A q \in Pushers \ {p} : pusher'[q] = pusher[q]
  BY <1>1, <1>2 DEF FastInv, FastType
<1>4. ASSUME NEW f \in Scheduled
      PROVE  Read(f) \in Scheduled /\ Alike(Read(f), f) /\ Read(f).missed = f.missed /\ Read(f).by # p
  BY FastConstants DEF Scheduled, Alike
<1> HIDE DEF Read
<1>5. queue \in Seq(Scheduled) /\ DOMAIN queue = 1..Len(queue)
  BY DEF FastInv, FastType
<1>6. /\ queue' \in Seq(Scheduled) /\ Len(queue') = Len(queue)
      /\ \A i \in 1..Len(queue) : queue'[i] = Read(queue[i])
  <2>1. \A i \in 1..Len(queue) : Read(queue[i]) \in Scheduled
    BY <1>4, FastBasics DEF FastInv
  <2> QED
    BY <1>1, <1>5, <2>1
<1>7. \A i \in 1..Len(queue) :
        Alike(queue'[i], queue[i]) /\ queue'[i].missed = queue[i].missed /\ queue'[i].by # p
  BY <1>4, <1>6, FastBasics DEF FastInv
<1>8. FastType'
  BY <1>1, <1>3, <1>6 DEF FastInv, FastType, InRun, InHand
<1>9. Until' = Until /\ Until' \in Int
  BY <1>1, SameUntil DEF FastInv
<1>10. ASSUME NEW f \in Scheduled, InCharge(p, f) PROVE Cared(f)'
  <2>1. Until' <= Lead(micros', deadlineUs)
    BY <1>1, <1>9 DEF Until
  <2> QED
    BY <1>1, <1>3, <1>10, <2>1 DEF InCharge, Cared, NoLater, Age
<1>11. visible <= visible' /\ Until' <= Until
  BY <1>1, <1>9, FastBasics DEF FastInv
<1> HIDE DEF c
<1> QED
  BY <1>1, <1>3, <1>6, <1>7, <1>8, <1>9, <1>10, <1>11, PusherKeeps

LEMMA LowerDeadlineKeeps ==
  ASSUME FastInv, NEW p \in Pushers, Fast!LowerDeadline(p)
  PROVE  FastInv'
<1> DEFINE c == pusher[p]
           rep == Fast!Repeats(c.dl, c.period)
           d == IF rep THEN [c EXCEPT !.dl = deadlineUs] ELSE Idle
<1>1. /\ pusher' = [pusher EXCEPT ![p] = d] /\ c.at = "lower"
      /\ deadlineUs' = Fast!LowerFrom(c.dl, c.period)
      /\ micros' = micros /\ running' = running /\ queue' = queue /\ visible' = visible
      /\ spent' = IF rep THEN spent ELSE [spent EXCEPT ![p] = 0]
  BY DEF Fast!LowerDeadline, Fast!Goto, Idle
<1>2. c \in PushThatLowers /\ c.dl \in Micros /\ c.period \in Nat
  <2>1. c \in {Idle} \cup PushOf \cup PushThatLowers
    BY DEF FastInv, FastType
  <2> QED
    BY <1>1, <2>1, FastBasics DEF FastInv, Idle, PushOf
<1>3. /\ deadlineUs' \in Micros
      /\ Until' \in Int /\ Until' <= Until /\ (Until' = Until \/ Until' >= 0)
      /\ ~rep /\ NoLater(c.dl) => Until' <= c.period
  BY <1>1, <1>2, Lowers DEF FastInv
<1>4. /\ rep => d \in PushThatLowers /\ d.at = "lower" /\ d.period = c.period /\ d.dl = deadlineUs
      /\ d.at = "idle" => d = Idle /\ ~rep
      /\ d \in {Idle} \cup PushOf \cup PushThatLowers
  BY <1>1, <1>2, FastBasics DEF FastInv, PushThatLowers, Idle
<1>5. pusher' \in [Pushers -> {Idle} \cup PushOf \cup PushThatLowers] /\ pusher'[p] = d
      /\ \A q \in Pushers \ {p} : pusher'[q] = pusher[q]
  BY <1>1, <1>4 DEF FastInv, FastType
<1>6. /\ spent' \in [Pushers \cup {"runner"} -> 0..MaxLate]
      /\ spent'["runner"] = spent["runner"] /\ (rep => spent'[p] = spent[p]) /\ (~rep => spent'[p] = 0)
      /\ \A q \in Pushers \ {p} : spent'[q] = spent[q]
  BY <1>1, FastConstants DEF FastInv, FastType
<1> HIDE DEF rep, d
<1>7. FastType'
  BY <1>1, <1>3, <1>4, <1>5, <1>6 DEF FastInv, FastType, InRun, InHand
<1>8. ASSUME NEW f \in Scheduled, InCharge(p, f) PROVE Cared(f)'
  <2>1. Age(f)' = Age(f)
    BY <1>1 DEF Age
  <2>2. CASE rep
    <3>1. deadlineUs' = deadlineUs
      BY <1>1, <2>2 DEF rep, Fast!Repeats, Fast!LowerFrom
    <3>2. Until' <= Lead(micros', deadlineUs)
      BY <1>1, <1>3, <3>1 DEF Until
    <3> QED
      BY <1>4, <1>5, <1>6, <1>8, <2>1, <2>2, <3>2 DEF InCharge, Cared, NoLater
  <2>3. CASE ~rep
    <3>1. Until' <= f.period
      BY <1>1, <1>3, <1>8, <2>3 DEF InCharge
    <3>2. Age(f) <= MaxLate
      BY <1>8, FastBasics DEF FastInv, InCharge
    <3> QED
      BY <1>3, <2>1, <3>1, <3>2, FastBasics DEF FastInv, Cared, Covered
  <2> QED
    BY <2>2, <2>3
<1>9. \A i \in 1..Len(queue) : queue[i].by # p
  BY <1>1, FastConstants DEF FastInv, QueueInv
<1>10. visible <= visible'
  BY <1>1, FastBasics DEF FastInv
<1> QED
  BY <1>1, <1>3, <1>5, <1>6, <1>7, <1>8, <1>9, <1>10, PusherKeeps DEF Alike

LEMMA StoreDeadlineKeeps == ASSUME FastInv, InTime, Fast!StoreDeadline PROVE FastInv'
<1> USE DEF FastInv
<1> DEFINE Miss(i) == IF i > visible /\ queue[i].by = "none" THEN [queue[i] EXCEPT !.missed = TRUE]
                      ELSE queue[i]
<1>1. /\ running.at = "idle" /\ running' = [at |-> "begin"]
      /\ deadlineUs' = (micros + Fast!HalfMax) % ClockRange
      /\ queue' = [i \in DOMAIN queue |-> Miss(i)]
      /\ micros' = micros /\ visible' = visible /\ pusher' = pusher /\ spent' = spent
  BY DEF Fast!StoreDeadline
<1>2. Fast!HalfMax \in Nat /\ Fast!HalfMax < ClockRange
  BY FastConstants DEF InTime
<1>3. deadlineUs' \in Micros /\ Fast!Minus(deadlineUs', micros) = Fast!HalfMax
  BY <1>1, <1>2, FromNow, FastBasics
<1>4. Until' = Fast!HalfMax
  BY <1>1, <1>2, <1>3 DEF Until, Lead
<1>5. ASSUME NEW i \in 1..Len(queue)
      PROVE  /\ Miss(i) \in Scheduled /\ Miss(i).by = queue[i].by
             /\ Miss(i).period = queue[i].period /\ Miss(i).callTime = queue[i].callTime
             /\ i > visible /\ ~Miss(i).missed => queue[i].by # "none"
  <2>1. queue[i] \in Scheduled
    BY FastBasics
  <2> QED
    BY <2>1 DEF Scheduled
<1> HIDE DEF Miss
<1>6. /\ queue' \in Seq(Scheduled) /\ Len(queue') = Len(queue)
      /\ \A i \in 1..Len(queue) : queue'[i] = Miss(i)
  <2>1. queue \in Seq(Scheduled) /\ DOMAIN queue = 1..Len(queue) /\ Len(queue) \in Nat
    BY DEF FastType
  <2> QED
    BY <1>1, <1>5, <2>1
<1>7. FastType'
  BY <1>1, <1>3, <1>6 DEF FastType, InRun, InHand, Idle
<1>8. DeadlineInv'
  BY <1>1, <1>2, <1>4, FastBasics DEF DeadlineInv
<1>9. KeptInv'
  BY <1>1 DEF KeptInv, InRun
<1>10. QueueInv'
  <2> SUFFICES ASSUME NEW i \in 1..Len(queue), NEW f, f = queue'[i]
               PROVE  /\ Untaken(i)' /\ ~f.missed => Cared(f)'
                      /\ f.by # "none" => pusher[f.by].at = "inside" /\ InCharge(f.by, f)'
    BY <1>1, <1>6 DEF QueueInv, Cared, Covered, InCharge, Age
  <2>1. /\ f.by = queue[i].by /\ f.period = queue[i].period /\ f.callTime = queue[i].callTime
        /\ i > visible /\ ~f.missed => f.by # "none"
        /\ f \in Scheduled
    BY <1>5, <1>6
  <2>2. ASSUME f.by # "none"
        PROVE  f.by \in Pushers /\ pusher[f.by].at = "inside" /\ InCharge(f.by, f)'
    <3>1. PICK p \in Pushers : p = f.by
      BY <2>1, <2>2 DEF Scheduled
    <3>2. pusher[p].at = "inside" /\ InCharge(p, queue[i])
      BY <2>1, <2>2, <3>1 DEF QueueInv
    <3>3. InCharge(p, f)'
      BY <1>1, <2>1, <3>2 DEF InCharge, Age
    <3> QED
      BY <3>1, <3>2, <3>3
  <2>3. Untaken(i)' => i > visible
    BY <1>1 DEF Untaken, InRun
  <2> QED
    BY <2>1, <2>2, <2>3 DEF Cared
<1> QED
  BY <1>7, <1>8, <1>9, <1>10

\* A step of the run that leaves alone who schedules.
LEMMA RunnerKeeps ==
  ASSUME FastInv, FastType', micros' = micros, pusher' = pusher, spent' = spent,
         running.at # "idle", running'.at # "idle",
         Until' \in Int, Until' <= Until, Until' = Until \/ Until' >= 0,
         Len(queue') = Len(queue),
         \A i \in 1..Len(queue) :
           /\ Alike(queue'[i], queue[i])
           /\ Untaken(i)' /\ ~queue'[i].missed => Untaken(i) /\ ~queue[i].missed,
         KeptInv'
  PROVE  FastInv'
<1> USE DEF FastInv
<1>1. DeadlineInv'
  BY FastBasics DEF DeadlineInv
<1>2. \A f \in Scheduled : Cared(f) => Cared(f)'
  BY StillCared
<1>3. QueueInv'
  BY <1>2, QueueStays
<1> QED
  BY <1>1, <1>3

LEMMA SnapshotKeeps == ASSUME FastInv, Fast!Snapshot PROVE FastInv'
<1> DEFINE r == [at |-> "next", left |-> visible, size |-> visible, kept |-> <<>>]
           Seen(i) == IF i <= visible THEN [queue[i] EXCEPT !.missed = FALSE] ELSE queue[i]
<1>1. /\ running.at = "begin" /\ running' = r /\ micros' = micros /\ deadlineUs' = deadlineUs
      /\ queue' = [i \in DOMAIN queue |-> Seen(i)]
      /\ visible' = visible /\ pusher' = pusher /\ spent' = spent
  BY DEF Fast!Snapshot
<1>2. Len(queue) \in Nat /\ visible \in Nat /\ visible <= Len(queue)
  BY FastBasics DEF FastInv
<1>3. r \in RunOf
  BY <1>2 DEF RunOf
<1>4. ASSUME NEW i \in 1..Len(queue)
      PROVE  /\ Seen(i) \in Scheduled /\ Alike(Seen(i), queue[i])
             /\ i > visible => Seen(i) = queue[i]
  <2>1. PICK f \in Scheduled : f = queue[i]
    BY FastBasics DEF FastInv
  <2>2. [f EXCEPT !.missed = FALSE] \in Scheduled /\ Alike([f EXCEPT !.missed = FALSE], f) /\ Alike(f, f)
    BY DEF Scheduled, Alike
  <2>3. i > visible => ~(i <= visible)
    BY <1>2
  <2> QED
    BY <2>1, <2>2, <2>3
<1> HIDE DEF Seen
<1>5. /\ queue' \in Seq(Scheduled) /\ Len(queue') = Len(queue)
      /\ \A i \in 1..Len(queue) : queue'[i] = Seen(i)
  <2>1. queue \in Seq(Scheduled) /\ DOMAIN queue = 1..Len(queue)
    BY DEF FastInv, FastType
  <2> QED
    BY <1>1, <1>2, <1>4, <2>1
<1>6. FastType'
  BY <1>1, <1>2, <1>3, <1>5 DEF FastInv, FastType, InRun, InHand
<1>7. Until' = Until /\ Until' \in Int
  BY <1>1, SameUntil DEF FastInv
<1>8. KeptInv'
  BY <1>1 DEF KeptInv, InRun, InHand
<1>9. \A i \in 1..Len(queue) : Untaken(i)' => Untaken(i) /\ i > visible
  BY <1>1, <1>2 DEF Untaken, InRun
<1>10. running'.at # "idle"
  BY <1>1
<1> HIDE DEF r
<1> QED
  BY <1>1, <1>4, <1>5, <1>6, <1>7, <1>8, <1>9, <1>10, RunnerKeeps

LEMMA LoadForKeptKeeps == ASSUME FastInv, Fast!LoadForKept PROVE FastInv'
<1> DEFINE r == [at |-> "lower", left |-> running.left, size |-> running.size,
                 kept |-> running.kept, dl |-> deadlineUs]
<1>1. /\ running.at = "load" /\ running' = r /\ micros' = micros /\ deadlineUs' = deadlineUs
      /\ queue' = queue /\ visible' = visible /\ pusher' = pusher /\ spent' = spent
  BY DEF Fast!LoadForKept
<1>2. InRun /\ InHand /\ InRun' /\ InHand'
  BY <1>1 DEF InRun, InHand
<1>3. r \in RunThatLowers
  BY <1>2, RunBasics, FastBasics DEF FastInv, RunThatLowers
<1>4. FastType'
  BY <1>1, <1>2, <1>3, RunBasics DEF FastInv, FastType, InRun, InHand
<1>5. Until' = Until /\ Until' \in Int
  BY <1>1, SameUntil DEF FastInv
<1>6. KeptInv'
  <2>1. Until' <= Lead(micros', deadlineUs)
    BY <1>1, <1>5 DEF Until
  <2> QED
    BY <1>1, <1>2, <1>5, <2>1 DEF FastInv, KeptInv, Covered, Age, NoLater
<1>7. \A i \in 1..Len(queue) : Untaken(i)' => Untaken(i)
  BY <1>1 DEF Untaken, InRun
<1> QED
  BY <1>1, <1>4, <1>5, <1>6, <1>7, RunnerKeeps DEF Alike

LEMMA RemainingIs ==
  ASSUME FastType, NEW f \in Scheduled
  PROVE  /\ Fast!RemainingUs(f) = IF Age(f) > f.period THEN 0 ELSE f.period - Age(f)
         /\ Fast!RemainingUs(f) \in Nat
  BY FastBasics DEF Fast!RemainingUs, Age

LEMMA LowerForKeptKeeps == ASSUME FastInv, Fast!LowerForKept PROVE FastInv'
<1> DEFINE f == running.kept[1]
           wanted == Fast!RemainingUs(f)
           rep == Fast!Repeats(running.dl, wanted)
           r == IF rep THEN [running EXCEPT !.dl = deadlineUs]
                ELSE [at |-> "next", left |-> running.left, size |-> running.size, kept |-> running.kept]
<1>1. running.at = "lower" /\ InRun /\ InHand
  BY DEF Fast!LowerForKept, InRun, InHand
<1>2. /\ f \in Scheduled /\ Head(running.kept) = f /\ Age(f) <= f.period + spent["runner"]
      /\ running.dl \in Micros /\ NoLater(running.dl) /\ running \in RunThatLowers
  BY <1>1, RunBasics DEF FastInv, KeptInv
<1>3. /\ micros' = micros /\ queue' = queue /\ visible' = visible /\ pusher' = pusher /\ spent' = spent
      /\ deadlineUs' = Fast!LowerFrom(running.dl, wanted) /\ running' = r
  BY <1>2 DEF Fast!LowerForKept
<1>4. wanted \in Nat /\ (wanted + Age(f) = f.period \/ wanted = 0)
  BY <1>2, RemainingIs, FastBasics DEF FastInv
<1>5. /\ deadlineUs' \in Micros
      /\ Until' \in Int /\ Until' <= Until /\ (Until' = Until \/ Until' >= 0)
      /\ ~rep => Until' <= wanted
  BY <1>2, <1>3, <1>4, Lowers DEF FastInv
<1>6. /\ r \in RunOf \cup RunThatLowers /\ r.left = running.left /\ r.size = running.size
      /\ r.kept = running.kept
      /\ rep => r.at = "lower" /\ r.dl = deadlineUs
      /\ ~rep => r.at = "next"
  BY <1>1, <1>2, RunBasics, FastBasics DEF FastInv, RunOf, RunThatLowers
<1>7. rep => deadlineUs' = deadlineUs
  BY <1>3 DEF Fast!Repeats, Fast!LowerFrom
<1> HIDE DEF rep, r, wanted
<1>8. FastType'
  BY <1>1, <1>3, <1>5, <1>6, RunBasics DEF FastInv, FastType, InRun, InHand
<1>9. KeptInv'
  <2>1. \A i \in 1..Len(running.kept) : running.kept[i].by = "none"
    BY <1>1 DEF FastInv, KeptInv
  <2>2. \A g \in Scheduled : Age(g)' = Age(g) /\ (Covered(g) => Covered(g)')
    BY <1>3, <1>5, Nearer DEF FastInv
  <2>3. CASE rep
    <3>1. Until' <= Lead(micros', deadlineUs)
      BY <1>3, <1>5, <1>7, <2>3 DEF Until
    <3>2. ASSUME NEW i \in 1..Len(running.kept), i > 1, NEW g, g = running.kept[i] PROVE Covered(g)'
      BY <1>1, <2>2, <3>2, RunBasics DEF FastInv, KeptInv
    <3> QED
      BY <1>1, <1>2, <1>3, <1>6, <2>2, <2>3, <2>1, <3>1, <3>2 DEF KeptInv, InHand, Covered, Age, NoLater
  <2>4. CASE ~rep
    <3>1. ASSUME NEW g, g = f PROVE Covered(g)'
      <4>1. Until' <= wanted /\ Age(g)' = Age(g) /\ Age(f) = Age(g)
        BY <1>2, <1>5, <2>2, <2>4, <3>1
      <4>2. /\ g \in Scheduled /\ Age(g) <= g.period + spent["runner"]
            /\ wanted \in Nat /\ (wanted + Age(g) = g.period \/ wanted = 0)
        BY <1>2, <1>4, <3>1
      <4>3. Age(g) \in Nat /\ g.period \in Nat /\ spent["runner"] \in Nat /\ spent["runner"] <= MaxLate
            /\ MaxLate \in Nat
        BY <4>2, FastBasics DEF FastInv
      <4>4. Until' + Age(g) <= g.period + MaxLate
        BY <1>5, <4>1, <4>2, <4>3
      <4> QED
        BY <4>1, <4>4 DEF Covered
    <3>2. ASSUME NEW i \in 1..Len(running.kept), NEW g, g = running.kept[i] PROVE Covered(g)'
      <4>1. CASE i = 1
        BY <3>1, <3>2, <4>1
      <4>2. CASE i # 1
        BY <1>1, <2>2, <3>2, <4>2, RunBasics DEF FastInv, KeptInv
      <4> QED
        BY <4>1, <4>2
    <3>3. ~InHand' /\ running'.at = "next"
      BY <1>3, <1>6, <2>4 DEF InHand
    <3> QED
      BY <1>3, <1>6, <2>1, <3>2, <3>3 DEF KeptInv, Covered, Age
  <2> QED
    BY <2>3, <2>4
<1>10. \A i \in 1..Len(queue) : Untaken(i)' => Untaken(i)
  BY <1>1, <1>3, <1>6 DEF Untaken, InRun
<1>11. running.at # "idle" /\ running'.at # "idle"
  BY <1>1, <1>3, <1>6
<1> QED
  BY <1>3, <1>5, <1>8, <1>9, <1>10, <1>11, RunnerKeeps DEF Alike

\* A function that is looked at is called, or kept until it is due, or both.
LEMMA RunFunctionKeeps ==
  ASSUME FastInv, InTime, NEW alarm \in BOOLEAN, NEW stays \in BOOLEAN, Fast!RunFunction(alarm, stays)
  PROVE  FastInv'
<1> DEFINE left == running.left
           f == queue[left]
           callNow == Fast!RemainingUs(f) = 0
           h0 == IF callNow THEN [f EXCEPT !.callTime = micros] ELSE f
           g == [h0 EXCEPT !.by = "none"]
           kept == running.kept
           s == <<g>> \o kept
           k == [running EXCEPT !.at = "load", !.kept = s, !.left = @ - 1]
           d == [running EXCEPT !.left = @ - 1]
<1>1. /\ running.at = "next" /\ left > 0 /\ InRun /\ ~InHand
      /\ micros' = micros /\ deadlineUs' = deadlineUs
      /\ queue' = queue /\ visible' = visible /\ pusher' = pusher /\ spent' = spent
      /\ running' = k \/ running' = d
  BY DEF Fast!RunFunction, Fast!Keep, Fast!Drop, InRun, InHand
<1>2. /\ running \in RunOf /\ left \in Nat /\ running.size \in Nat /\ left <= running.size
      /\ running.size <= Len(queue) /\ kept \in Seq(Scheduled)
  BY <1>1, RunBasics DEF FastInv
<1>3. f \in Scheduled
  BY <1>1, <1>2, FastBasics DEF FastInv, FastType
<1>4. g \in Scheduled /\ Age(g) <= g.period + spent["runner"] /\ g.by = "none"
  <2>1. Fast!Minus(micros, micros) = 0 /\ micros \in Micros
    BY FastBasics, MinusIs DEF FastInv, Micros
  <2>2. CASE callNow
    <3>1. g.callTime = micros /\ g.period = f.period /\ g \in Scheduled /\ g.by = "none"
      BY <1>3, <2>1, <2>2 DEF Scheduled
    <3> HIDE DEF g
    <3> QED
      BY <2>1, <3>1, FastBasics DEF FastInv, Age
  <2>3. CASE ~callNow
    <3>1. g.callTime = f.callTime /\ g.period = f.period /\ g \in Scheduled /\ g.by = "none"
      BY <1>3, <2>3 DEF Scheduled
    <3>2. Age(f) <= f.period
      BY <1>3, <2>3, RemainingIs, FastBasics DEF FastInv
    <3>3. Age(g) = Age(f)
      BY <3>1 DEF Age
    <3> HIDE DEF g
    <3> QED
      BY <1>3, <3>1, <3>2, <3>3, FastBasics DEF FastInv
  <2> QED
    BY <2>2, <2>3
<1> HIDE DEF g
<1>5. /\ s \in Seq(Scheduled) /\ Len(s) = Len(kept) + 1 /\ Len(kept) \in Nat
      /\ s[1] = g
      /\ \A i \in 2..(Len(kept) + 1) : s[i] = kept[i - 1]
  BY <1>2, <1>4
<1> HIDE DEF s
<1>6. Until' = Until /\ Until' \in Int
  BY <1>1, SameUntil DEF FastInv
<1>7. \A h \in Scheduled : Age(h)' = Age(h) /\ (Covered(h) => Covered(h)')
  BY <1>1, <1>6, Nearer DEF FastInv
<1>8. ASSUME NEW i \in 1..Len(kept), NEW h, h = kept[i] PROVE Covered(h)' /\ h.by = "none"
  BY <1>1, <1>7, <1>8, RunBasics DEF FastInv, KeptInv
<1>9. /\ running'.left = left - 1 /\ running'.size = running.size
      /\ \/ running'.at = "load" /\ running'.kept = s
         \/ running'.at = "next" /\ running'.kept = kept
      /\ running' \in RunOf
  <2>1. /\ k.at = "load" /\ k.left = left - 1 /\ k.size = running.size /\ k.kept = s
        /\ k \in RunOf
    <3> DEFINE k1 == [running EXCEPT !.at = "load"]
               k2 == [k1 EXCEPT !.kept = s]
    <3>1. k1 \in RunOf /\ k1.at = "load" /\ k1.size = running.size
      BY <1>2 DEF RunOf
    <3>2. k = [k2 EXCEPT !.left = left - 1]
      OBVIOUS
    <3> HIDE DEF k, k1
    <3>3. k2 \in RunOf /\ k2.at = "load" /\ k2.size = running.size /\ k2.kept = s
      BY <1>5, <3>1 DEF RunOf
    <3>4. left - 1 \in Nat
      BY <1>1, <1>2
    <3> HIDE DEF k2, left
    <3> QED
      BY <3>2, <3>3, <3>4 DEF RunOf
  <2>2. d.at = "next" /\ d.left = left - 1 /\ d.size = running.size /\ d.kept = kept /\ d \in RunOf
    BY <1>1, <1>2 DEF RunOf
  <2> HIDE DEF k, d
  <2> QED
    BY <1>1, <2>1, <2>2
<1>10. InRun' /\ (InHand' <=> running'.at = "load")
  BY <1>9 DEF InRun, InHand
<1>11. FastType'
  BY <1>1, <1>2, <1>5, <1>9, <1>10 DEF FastInv, FastType
<1>12. KeptInv'
  <2>1. CASE running'.at = "load" /\ running'.kept = s
    <3>1. ASSUME NEW i \in 1..(Len(kept) + 1), i > 1, NEW h, h = s[i] PROVE Covered(h)' /\ h.by = "none"
      BY <1>5, <1>8, <3>1
    <3>2. ASSUME NEW h, h = s[1] PROVE Age(h)' <= h.period + spent'["runner"] /\ h.by = "none"
      BY <1>1, <1>4, <1>5, <1>7, <3>2
    <3>3. running'.at # "lower" /\ InHand' /\ Len(running'.kept) = Len(kept) + 1
      BY <1>5, <1>10, <2>1
    <3> QED
      BY <2>1, <3>1, <3>2, <3>3 DEF KeptInv, Covered, Age
  <2>2. CASE running'.at = "next" /\ running'.kept = kept
    BY <1>8, <1>10, <2>2 DEF KeptInv, Covered, Age
  <2> QED
    BY <1>9, <2>1, <2>2
<1>13. \A i \in 1..Len(queue) : Untaken(i)' => Untaken(i)
  BY <1>1, <1>2, <1>9, <1>10 DEF Untaken
<1>14. running'.at # "idle"
  BY <1>9
<1> QED
  BY <1>1, <1>6, <1>11, <1>12, <1>13, <1>14, RunnerKeeps DEF Alike

LEMMA EndRunKeeps == ASSUME FastInv, Fast!EndRun PROVE FastInv'
<1> DEFINE kept == running.kept
           new == SubSeq(queue, running.size + 1, Len(queue))
<1>1. /\ running.at = "next" /\ InRun /\ ~InHand /\ running' = Idle
      /\ queue' = kept \o new /\ spent' = [spent EXCEPT !["runner"] = 0]
      /\ visible' = visible - (running.size - Len(kept))
      /\ micros' = micros /\ deadlineUs' = deadlineUs /\ pusher' = pusher
  BY DEF Fast!EndRun, InRun, InHand, Idle
<1>2. /\ running.size \in Nat /\ Len(queue) \in Nat /\ running.size <= Len(queue)
      /\ kept \in Seq(Scheduled) /\ queue \in Seq(Scheduled) /\ Len(kept) \in Nat
  <2>1. running.size \in Nat /\ running.size <= Len(queue)
    BY <1>1, RunBasics DEF FastInv
  <2>2. kept \in Seq(Scheduled)
    BY <1>1, RunBasics DEF FastInv
  <2>3. queue \in Seq(Scheduled) /\ Len(queue) \in Nat
    BY DEF FastInv, FastType
  <2>4. Len(kept) \in Nat
    BY <2>2, LenProperties
  <2> QED
    BY <2>1, <2>2, <2>3, <2>4
<1>3. visible \in Nat /\ running.size <= visible /\ visible <= Len(queue)
  BY <1>1, RunBasics, FastBasics DEF FastInv
<1>4. /\ new \in Seq(Scheduled) /\ Len(new) = Len(queue) - running.size
      /\ \A i \in 1..Len(new) : new[i] = queue[i + running.size]
  <2>1. PICK n \in Nat : n = running.size /\ n <= Len(queue)
    BY <1>2
  <2>2. queue \in Seq(Scheduled) /\ Len(queue) \in Nat
    BY <1>2
  <2>3. /\ SubSeq(queue, n + 1, Len(queue)) \in Seq(Scheduled)
        /\ Len(SubSeq(queue, n + 1, Len(queue))) = Len(queue) - n
        /\ \A i \in 1..(Len(queue) - n) : SubSeq(queue, n + 1, Len(queue))[i] = queue[i + n]
    BY <2>1, <2>2
  <2>4. new = SubSeq(queue, n + 1, Len(queue))
    BY <2>1
  <2> HIDE DEF new
  <2> QED
    BY <2>1, <2>3, <2>4
<1> HIDE DEF new
<1>5. /\ queue' \in Seq(Scheduled) /\ Len(queue') = Len(kept) + Len(new)
      /\ \A i \in 1..Len(kept) : queue'[i] = kept[i]
      /\ \A i \in (Len(kept) + 1)..(Len(kept) + Len(new)) : queue'[i] = new[i - Len(kept)]
  <2>1. /\ queue' \in Seq(Scheduled) /\ Len(queue') = Len(kept) + Len(new)
        /\ \A i \in 1..(Len(kept) + Len(new)) : queue'[i] = IF i <= Len(kept) THEN kept[i] ELSE new[i - Len(kept)]
    BY <1>1, <1>2, <1>4, ConcatProperties
  <2>2. Len(kept) \in Nat /\ Len(new) \in Nat
    BY <1>2, <1>4
  <2> HIDE DEF kept
  <2> QED
    BY <2>1, <2>2
<1>6. /\ spent' \in [Pushers \cup {"runner"} -> 0..MaxLate] /\ spent'["runner"] = 0
      /\ \A p \in Pushers : spent'[p] = spent[p]
  BY <1>1, FastConstants DEF FastInv, FastType
<1>7. FastType'
  <2> DEFINE k == Len(kept)
             n == running.size
  <2>1. visible' = visible - (n - k) /\ Len(queue') = k + (Len(queue) - n)
    BY <1>1, <1>4, <1>5
  <2>2. n \in Nat /\ k \in Nat /\ n <= visible
    BY <1>2, <1>3
  <2> HIDE DEF k, n
  <2>3. visible' \in 0..Len(queue')
    BY <1>2, <1>3, <2>1, <2>2
  <2> QED
    BY <1>1, <1>5, <1>6, <2>3 DEF FastInv, FastType, InRun, InHand, Idle
<1>8. Until' = Until /\ Until' \in Int
  BY <1>1, SameUntil DEF FastInv
<1>9. ~InRun' /\ running'.at = "idle"
  BY <1>1 DEF InRun, Idle
<1>10. DeadlineInv'
  BY <1>8, <1>9, DeadlineNear, FastBasics DEF FastInv, DeadlineInv
<1>11. KeptInv'
  BY <1>9 DEF KeptInv
<1>12. ASSUME NEW i \in 1..Len(kept), NEW f, f = kept[i] PROVE Covered(f)' /\ f.by = "none"
  BY <1>1, <1>8, <1>12, Nearer, RunBasics DEF FastInv, KeptInv
<1>13. ASSUME NEW i \in 1..Len(new), NEW f, f = new[i]
       PROVE  /\ ~f.missed => Cared(f)'
              /\ f.by # "none" => pusher[f.by].at = "inside" /\ InCharge(f.by, f)'
  <2>1. /\ f \in Scheduled /\ (~f.missed => Cared(f))
        /\ f.by # "none" => f.by \in Pushers /\ pusher[f.by].at = "inside" /\ InCharge(f.by, f)
    <3>1. i + running.size \in 1..Len(queue) /\ i + running.size > running.size /\ f = queue[i + running.size]
      BY <1>2, <1>4, <1>13
    <3>2. f \in Scheduled /\ (f.by # "none" => f.by \in Pushers)
      BY <3>1, FastBasics DEF FastInv, Scheduled
    <3> QED
      BY <1>1, <3>1, <3>2 DEF FastInv, QueueInv, Untaken
  <2>2. ~f.missed => Cared(f)'
    BY <1>1, <1>6, <1>8, <2>1, StillCared DEF FastInv
  <2>3. f.by # "none" => InCharge(f.by, f)'
    BY <1>1, <1>6, <1>8, <2>1, StillInCharge DEF FastInv
  <2> QED
    BY <2>1, <2>2, <2>3
<1>14. QueueInv'
  <2> SUFFICES ASSUME NEW i \in 1..(Len(kept) + Len(new)), NEW f, f = queue'[i]
               PROVE  /\ ~f.missed => Cared(f)'
                      /\ f.by # "none" => pusher[f.by].at = "inside" /\ InCharge(f.by, f)'
    <3>1. Len(queue') = Len(kept) + Len(new) /\ pusher' = pusher
      BY <1>1, <1>5
    <3> HIDE DEF kept
    <3> QED
      BY <3>1 DEF QueueInv, Cared, Covered, InCharge, Age
  <2>1. CASE i \in 1..Len(kept)
    BY <1>5, <1>12, <2>1 DEF Cared
  <2>2. CASE i \notin 1..Len(kept)
    <3>1. i - Len(kept) \in 1..Len(new) /\ i \in (Len(kept) + 1)..(Len(kept) + Len(new))
      BY <1>2, <1>4, <2>2
    <3>2. f = new[i - Len(kept)]
      BY <1>5, <3>1
    <3> QED
      BY <1>13, <3>1, <3>2
  <2> QED
    BY <2>1, <2>2
<1> QED
  BY <1>7, <1>10, <1>11, <1>14 DEF FastInv

LEMMA FastKept == ASSUME FastInv, InTime, Fast!Next PROVE FastInv'
  BY TickKeeps, PushKeeps, PublishKeeps, RefusedKeeps, LoadDeadlineKeeps, LowerDeadlineKeeps, StoreDeadlineKeeps, SnapshotKeeps,
     RunFunctionKeeps, LoadForKeptKeeps, LowerForKeptKeeps, EndRunKeeps
  DEF Fast!Next

LEMMA FastInvSuffices == ASSUME FastInv, InTime PROVE Fast!NeverOversleeps
<1> SUFFICES ASSUME Fast!Busy = {}, NEW i \in 1..visible, ~queue[i].missed
             PROVE  Fast!Delay <= Fast!RemainingUs(queue[i]) + MaxLate
  BY DEF Fast!NeverOversleeps
<1>1. FastType /\ i \in 1..Len(queue) /\ visible # 0
  BY FastBasics DEF FastInv
<1>2. running.at = "idle" /\ \A p \in Pushers : pusher[p].at = "idle"
  BY DEF Fast!Busy
<1>3. queue[i] \in Scheduled /\ Covered(queue[i])
  BY <1>1, <1>2, FastBasics DEF FastInv, QueueInv, Untaken, Cared, InCharge
<1>4. Fast!Delay = IF Until >= 0 THEN Until ELSE 0
  BY <1>1, FastBasics, LeadIs DEF Fast!Delay, Until
<1> QED
  BY <1>1, <1>3, <1>4, RemainingIs, FastBasics DEF Covered

\* A task that sleeps as long as get_scheduled_recurrent_delay_us says is late for no
\* function it can see, but for the time a call takes, and but for those the queue hid from
\* a run that put the deadline off: for any threads, periods and width of micros()
\* (FastScheduler.cpp).
THEOREM NobodyOversleeps == ASSUME InTime PROVE LibrarySpec => []NeverOversleeps
<1> DEFINE Inv == part = "fast" => FastInv
<1>1. LibraryInit => Inv
  BY FastStarts DEF LibraryInit
<1>2. Inv /\ [LibraryNext]_libraryVars => Inv'
  <2> SUFFICES ASSUME Inv, [LibraryNext]_libraryVars, part' = "fast" PROVE FastInv'
    OBVIOUS
  <2>1. CASE FastStep
    BY <2>1, FastKept DEF FastStep
  <2>2. CASE UNCHANGED fastVars /\ part' = part
    BY <2>2 DEF fastVars, FastInv, FastType, DeadlineInv, QueueInv, KeptInv, InRun, InHand, Untaken,
                Cared, Covered, InCharge, NoLater, Until, Age
  <2> QED
    BY <2>1, <2>2 DEF LibraryNext, libraryVars, RingStep, SerialStep, MpStep, ListStep, WaitStep, TokenStep,
                      AsyncStep, DelegatesStep, ValueStep
<1>3. Inv => NeverOversleeps
  BY FastInvSuffices DEF NeverOversleeps
<1> QED
  BY <1>1, <1>2, <1>3, PTL DEF LibrarySpec

-----------------------------------------------------------------------------
(* LockFreeList: the chain is `order', link by link, except where a push   *)
(* or a removal in progress departs from it. Which links those are follows *)
(* from how far each call has come and from the locks it holds.            *)

Links == Nodes \cup {Sentinel}

PushOp == [at : {"linkNext", "linkPred"}, node : Nodes, nx : Links]
LoneOp == [at : {"lock", "readNext", "unlockNode", "clear"}, node : Nodes]
PairOp == [at : {"readNext", "lockNext", "readPred"}, node : Nodes, nx : Links]
UnlinkOp == [at : {"readNext", "sameNext", "unlinkPred", "unlinkNext", "awaitPred", "unlock"},
             node : Nodes, nx : Links, pd : Nodes \cup {Nil}]
Ops == {List!Resting, [at |-> "back"]} \cup PushOp \cup LoneOp \cup PairOp \cup UnlinkOp

Distinct(s) == \A i, j \in 1..Len(s) : s[i] = s[j] => i = j

ListType ==
  /\ owned \in BOOLEAN /\ guard \in BOOLEAN /\ late \in BOOLEAN
  /\ first \in Links
  /\ pred \in [Links -> Nodes \cup {Nil}]
  /\ next \in [Links -> Links \cup {Nil}]
  /\ lock \in [Links -> BOOLEAN]
  /\ op \in [Threads -> Ops]
  /\ hand \in [Threads -> SUBSET Nodes]
  /\ order \in Seq(Nodes) /\ Distinct(order)

\* The chain as it is once all is linked.
NodesOf(s) == {s[i] : i \in 1..Len(s)}
PlaceOf(s, n) == CHOOSE i \in 1..Len(s) : s[i] = n
OlderIn(s) == [n \in NodesOf(s) |-> IF PlaceOf(s, n) = 1 THEN Sentinel ELSE s[PlaceOf(s, n) - 1]]
NewestOf(s) == IF Len(s) = 0 THEN Sentinel ELSE s[Len(s)]
InList == NodesOf(order)
Older == OlderIn(order)
Newest == NewestOf(order)

\* How far the call of a thread has come.
Enters(t) == op[t].at \in {"linkNext", "linkPred"}
Pops(t) == op[t].at \notin {"idle", "linkNext", "linkPred"}
Unlinks(t) == op[t].at \in {"unlinkPred", "unlinkNext", "awaitPred"}
Removes(t) == op[t].at \in {"lock", "readNext", "lockNext", "readPred", "sameNext"} \/ Unlinks(t)
HasOut(t) == op[t].at \in {"unlock", "unlockNode", "clear"}
HasNode(t) == Enters(t) \/ Removes(t) \/ HasOut(t)
HoldsNext(t) == op[t].at \in {"readPred", "sameNext", "unlock"} \/ Unlinks(t)
HoldsNode(t) == HoldsNext(t) \/ op[t].at \in {"readNext", "lockNext", "unlockNode"}
Holds(t, x) == (HoldsNode(t) /\ x = op[t].node) \/ (HoldsNext(t) /\ x = op[t].nx)

\* A node is in the list, with a thread, or on its way out, and no two calls are about one.
PlaceInv ==
  /\ \A t \in Threads : Enters(t) \/ Removes(t) => op[t].node \in InList
  /\ \A t \in Threads : HasOut(t) => op[t].node \notin InList
  /\ \A t \in Threads : \A n \in hand[t] : n \notin InList
  /\ \A t, u \in Threads : HasNode(t) => op[t].node \notin hand[u]
  /\ \A t, u \in Threads : \A n \in hand[t] : n \in hand[u] => t = u
  /\ \A t, u \in Threads : HasNode(t) /\ HasNode(u) /\ op[t].node = op[u].node => t = u
OwnerInv ==
  owned = TRUE => \A t \in Threads :
    /\ op[t].at # "back"
    /\ HasNode(t) => OwnerOf[op[t].node] = t
    /\ \A n \in hand[t] : OwnerOf[n] = t
    /\ \A n \in Nodes : OwnerOf[n] = t /\ n \notin hand[t] =>
         n \in InList \/ (HasOut(t) /\ op[t].node = n)

\* A lock is taken while one thread holds it, none holds one twice.
LockInv ==
  /\ \A x \in Links : lock[x] = TRUE <=> \E t \in Threads : Holds(t, x)
  /\ \A x \in Links : \A t, u \in Threads : Holds(t, x) /\ Holds(u, x) => t = u
  /\ \A t \in Threads : HoldsNext(t) => op[t].node # op[t].nx

\* The links are those of the chain, but where a push or a removal is under way.
Joining(n) == \E t \in Threads : op[t].at = "linkNext" /\ op[t].node = n
Linking(n) == \E t \in Threads : Enters(t) /\ op[t].node = n
Unlinking(n) == \E t \in Threads : Unlinks(t) /\ op[t].node = n
EndsInv ==
  /\ first = Newest /\ pred[Newest] = Nil
  /\ \A t \in Threads : \A n \in hand[t] : pred[n] = Nil
  /\ \A t \in Threads : Enters(t) => op[t].nx = Older[op[t].node]
EdgeInv ==
  \A n \in InList :
    /\ next[n] = Older[n] \/ Joining(n)
    /\ Linking(n) => pred[Older[n]] = Nil
    /\ pred[Older[n]] = n \/ Linking(n) \/ Unlinking(n)
UnlinkOf(t) ==
  /\ Unlinks(t) => op[t].nx = Older[op[t].node]
  /\ (op[t].at = "sameNext" \/ Unlinks(t)) /\ op[t].pd # Nil =>
       op[t].pd \in InList /\ Older[op[t].pd] = op[t].node /\ pred[op[t].node] = op[t].pd
  /\ op[t].at = "unlinkPred" => pred[op[t].nx] \in {op[t].node, Nil}
  /\ op[t].at \in {"unlinkNext", "awaitPred"} => pred[op[t].nx] = op[t].pd
  /\ op[t].at = "awaitPred" => op[t].pd = Nil
UnlinkInv == \A t \in Threads : UnlinkOf(t)

\* Who pops is alone, and its node the oldest.
PopInv ==
  owned = FALSE =>
    /\ late = FALSE
    /\ guard = TRUE <=> \E t \in Threads : Pops(t)
    /\ \A t, u \in Threads : Pops(t) /\ Pops(u) => t = u
    /\ \A t \in Threads : Removes(t) => Older[op[t].node] = Sentinel
    /\ \A t \in Threads : op[t].at = "lockNext" \/ HoldsNext(t) => op[t].nx = Sentinel

ListInv == ListType /\ PlaceInv /\ OwnerInv /\ LockInv /\ EndsInv /\ EdgeInv /\ UnlinkInv /\ PopInv

LEMMA ListConstants ==
  Sentinel \notin Nodes /\ Nil \notin Links
BY LibraryAssumption DEF List!ListAssumption, Links

\* The facts about a chain that the proofs use.
LEMMA OlderIs ==
  ASSUME NEW s \in Seq(Nodes), Distinct(s)
  PROVE  \A i \in 1..Len(s) : /\ s[i] \in NodesOf(s)
                              /\ OlderIn(s)[s[i]] = IF i = 1 THEN Sentinel ELSE s[i - 1]
<1>1. \A i \in 1..Len(s) : PlaceOf(s, s[i]) = i
  BY DEF Distinct, PlaceOf
<1> QED
  BY <1>1 DEF NodesOf, OlderIn

LEMMA ChainIs ==
  ASSUME ListType
  PROVE  /\ InList \subseteq Nodes /\ Older \in [InList -> InList \cup {Sentinel}]
         /\ Newest \in InList \cup {Sentinel}
         /\ \A n, m \in InList : Older[n] = Older[m] => n = m
         /\ \A n \in InList : Older[n] # n /\ Older[n] # Newest
         /\ \A n, m \in InList : Older[n] = m => Older[m] # n
         /\ \A m \in InList \cup {Sentinel} : m = Newest \/ \E n \in InList : Older[n] = m
<1>1. Len(order) \in Nat /\ \A i \in 1..Len(order) : order[i] \in Nodes
  BY DEF ListType, Distinct
<1>2. Sentinel \notin Nodes
  BY ListConstants
<1>3. \A i, j \in 1..Len(order) : order[i] = order[j] => i = j
  BY DEF ListType, Distinct
<1>4. \A n \in InList : \E i \in 1..Len(order) : n = order[i]
  BY DEF InList, NodesOf
<1>5. /\ InList \subseteq Nodes
      /\ Older = [n \in InList |-> Older[n]]
      /\ \A i \in 1..Len(order) : order[i] \in InList /\ Older[order[i]] = IF i = 1 THEN Sentinel ELSE order[i - 1]
  <2>1. order \in Seq(Nodes) /\ Distinct(order)
    BY DEF ListType
  <2>2. InList \subseteq Nodes
    BY <1>1 DEF InList, NodesOf
  <2>3. Older = [n \in InList |-> Older[n]]
    BY DEF Older, OlderIn, InList
  <2> QED
    BY <2>1, <2>2, <2>3, OlderIs DEF InList, Older
<1>6. \A n \in InList : Older[n] \in InList \cup {Sentinel}
  <2> SUFFICES ASSUME NEW n \in InList PROVE Older[n] \in InList \cup {Sentinel}
    OBVIOUS
  <2>1. PICK i \in 1..Len(order) : n = order[i]
    BY <1>4
  <2>2. i = 1 \/ i - 1 \in 1..Len(order)
    BY <1>1
  <2> QED
    BY <1>5, <2>1, <2>2
<1>7. Newest \in InList \cup {Sentinel}
  BY <1>1, <1>5 DEF Newest, NewestOf
<1>8. \A n, m \in InList : Older[n] = Older[m] => n = m
  <2> SUFFICES ASSUME NEW n \in InList, NEW m \in InList, Older[n] = Older[m] PROVE n = m
    OBVIOUS
  <2>1. PICK i \in 1..Len(order) : n = order[i]
    BY <1>4
  <2>2. PICK j \in 1..Len(order) : m = order[j]
    BY <1>4
  <2>3. Older[n] = (IF i = 1 THEN Sentinel ELSE order[i - 1]) /\ Older[m] = (IF j = 1 THEN Sentinel ELSE order[j - 1])
    BY <1>5, <2>1, <2>2
  <2>4. (i # 1 => i - 1 \in 1..Len(order)) /\ (j # 1 => j - 1 \in 1..Len(order))
    BY <1>1
  <2>5. i = j
    <3>1. i = 1 <=> j = 1
      BY <1>1, <1>2, <2>3, <2>4
    <3>2. i # 1 => order[i - 1] = order[j - 1] /\ i - 1 \in 1..Len(order) /\ j - 1 \in 1..Len(order)
      BY <2>3, <2>4, <3>1
    <3>3. i # 1 => i - 1 = j - 1
      BY <1>3, <3>2
    <3> QED
      BY <1>1, <3>1, <3>3
  <2> QED
    BY <2>1, <2>2, <2>5
<1>9. \A n \in InList : Older[n] # n /\ Older[n] # Newest
  <2> SUFFICES ASSUME NEW n \in InList PROVE Older[n] # n /\ Older[n] # Newest
    OBVIOUS
  <2>1. PICK i \in 1..Len(order) : n = order[i]
    BY <1>4
  <2>2. i = 1 \/ i - 1 \in 1..Len(order)
    BY <1>1
  <2>3. Newest = order[Len(order)] /\ Len(order) \in 1..Len(order)
    BY <1>1 DEF Newest, NewestOf
  <2> QED
    BY <1>1, <1>2, <1>3, <1>5, <2>1, <2>2, <2>3
<1>10. \A n, m \in InList : Older[n] = m => Older[m] # n
  <2> SUFFICES ASSUME NEW n \in InList, NEW m \in InList, Older[n] = m, Older[m] = n PROVE FALSE
    OBVIOUS
  <2>1. PICK i \in 1..Len(order) : n = order[i]
    BY <1>4
  <2>2. PICK j \in 1..Len(order) : m = order[j]
    BY <1>4
  <2>3. m = (IF i = 1 THEN Sentinel ELSE order[i - 1]) /\ n = (IF j = 1 THEN Sentinel ELSE order[j - 1])
    BY <1>5, <2>1, <2>2
  <2>4. i # 1 /\ j # 1
    BY <1>2, <1>5, <2>3
  <2>5. i - 1 \in 1..Len(order) /\ j - 1 \in 1..Len(order)
    BY <1>1, <2>4
  <2>6. j = i - 1 /\ i = j - 1
    BY <1>3, <2>1, <2>2, <2>3, <2>4, <2>5
  <2> QED
    BY <1>1, <2>6
<1>11. \A m \in InList \cup {Sentinel} : m = Newest \/ \E n \in InList : Older[n] = m
  <2>1. CASE Len(order) = 0
    BY <1>4, <2>1 DEF Newest, NewestOf
  <2>2. CASE Len(order) # 0
    <3>1. 1 \in 1..Len(order) /\ Newest = order[Len(order)]
      BY <1>1, <2>2 DEF Newest, NewestOf
    <3>2. order[1] \in InList /\ Older[order[1]] = Sentinel
      BY <1>5, <3>1
    <3>3. ASSUME NEW i \in 1..Len(order), order[i] # Newest PROVE order[i + 1] \in InList /\ Older[order[i + 1]] = order[i]
      <4>1. i + 1 \in 1..Len(order) /\ i + 1 # 1 /\ (i + 1) - 1 = i
        BY <1>1, <3>1, <3>3
      <4> QED
        BY <1>5, <4>1
    <3> QED
      BY <1>4, <3>2, <3>3
  <2> QED
    BY <2>1, <2>2
<1> QED
  BY <1>5, <1>6, <1>7, <1>8, <1>9, <1>10, <1>11

LEMMA ChainSame ==
  ASSUME order' = order
  PROVE  InList' = InList /\ Older' = Older /\ Newest' = Newest
BY DEF InList, Older, Newest

\* A push adds a newest node.
With(s, n) == Append(s, n)

LEMMA AppendedIs ==
  ASSUME NEW s \in Seq(Nodes), Distinct(s), NEW n \in Nodes, n \notin NodesOf(s), NEW q, q = With(s, n)
  PROVE  /\ q \in Seq(Nodes) /\ Distinct(q)
         /\ NodesOf(q) = NodesOf(s) \cup {n} /\ NewestOf(q) = n /\ OlderIn(q)[n] = NewestOf(s)
         /\ \A m \in NodesOf(s) : OlderIn(q)[m] = OlderIn(s)[m]
<1>1. Len(s) \in Nat /\ \A i, j \in 1..Len(s) : s[i] = s[j] => i = j
  BY DEF Distinct
<1>2. /\ q \in Seq(Nodes) /\ Len(q) = Len(s) + 1 /\ q[Len(s) + 1] = n
      /\ \A i \in 1..Len(s) : q[i] = s[i]
  BY AppendProperties DEF With
<1>3. \A i \in 1..Len(s) : s[i] # n
  BY DEF NodesOf
<1>4. \A i \in 1..Len(q) : i = Len(s) + 1 \/ i \in 1..Len(s)
  BY <1>1, <1>2
<1>5. Distinct(q)
  BY <1>1, <1>2, <1>3, <1>4 DEF Distinct
<1>6. NodesOf(q) = NodesOf(s) \cup {n}
  <2>1. \A x : x \in NodesOf(q) => x \in NodesOf(s) \cup {n}
    BY <1>2, <1>4 DEF NodesOf
  <2>2. \A x : x \in NodesOf(s) \cup {n} => x \in NodesOf(q)
    BY <1>1, <1>2 DEF NodesOf
  <2> QED
    BY <2>1, <2>2
<1>7. NewestOf(q) = n
  BY <1>1, <1>2 DEF NewestOf
<1>8. \A i \in 1..Len(q) : OlderIn(q)[q[i]] = IF i = 1 THEN Sentinel ELSE q[i - 1]
  BY <1>2, <1>5, OlderIs
<1>9. OlderIn(q)[n] = NewestOf(s)
  <2>1. /\ Len(q) \in 1..Len(q) /\ (Len(q) = 1 <=> Len(s) = 0)
        /\ Len(q) # 1 => Len(s) \in 1..Len(s) /\ Len(q) - 1 = Len(s)
    BY <1>1, <1>2
  <2>2. OlderIn(q)[q[Len(q)]] = IF Len(q) = 1 THEN Sentinel ELSE q[Len(q) - 1]
    BY <1>8, <2>1
  <2> QED
    BY <1>2, <2>1, <2>2 DEF NewestOf
<1>10. ASSUME NEW m \in NodesOf(s) PROVE OlderIn(q)[m] = OlderIn(s)[m]
  <2>1. PICK i \in 1..Len(s) : m = s[i]
    BY DEF NodesOf
  <2>2. i \in 1..Len(q) /\ (i # 1 => i - 1 \in 1..Len(s))
    BY <1>1, <1>2
  <2>3. OlderIn(s)[m] = IF i = 1 THEN Sentinel ELSE s[i - 1]
    BY <2>1, OlderIs
  <2>4. OlderIn(q)[m] = IF i = 1 THEN Sentinel ELSE q[i - 1]
    BY <1>2, <1>8, <2>1, <2>2
  <2> QED
    BY <1>2, <2>2, <2>3, <2>4
<1> QED
  BY <1>2, <1>5, <1>6, <1>7, <1>9, <1>10

LEMMA ChainGrows ==
  ASSUME ListType, NEW n \in Nodes, n \notin InList, order' = Append(order, n)
  PROVE  /\ order' \in Seq(Nodes) /\ Distinct(order')
         /\ InList' = InList \cup {n} /\ Newest' = n /\ Older'[n] = Newest
         /\ \A m \in InList : Older'[m] = Older[m]
<1>1. order \in Seq(Nodes) /\ Distinct(order) /\ n \notin NodesOf(order)
  BY DEF ListType, InList
<1>2. InList' = NodesOf(order') /\ Older' = OlderIn(order') /\ Newest' = NewestOf(order')
  BY DEF InList, Older, Newest
<1>3. InList = NodesOf(order) /\ Older = OlderIn(order) /\ Newest = NewestOf(order)
  BY DEF InList, Older, Newest
<1>4. order' = With(order, n)
  BY DEF With
<1> QED
  BY <1>1, <1>2, <1>3, <1>4, AppendedIs

\* A removal joins the neighbours of the node.
Without(s, k) == SubSeq(s, 1, k - 1) \o SubSeq(s, k + 1, Len(s))

LEMMA SeqWithoutIs ==
  ASSUME NEW S, NEW s \in Seq(S), NEW k \in 1..Len(s)
  PROVE  /\ Without(s, k) \in Seq(S) /\ Len(Without(s, k)) = Len(s) - 1
         /\ \A i \in 1..(Len(s) - 1) : Without(s, k)[i] = IF i < k THEN s[i] ELSE s[i + 1]
<1> DEFINE a == SubSeq(s, 1, k - 1)  b == SubSeq(s, k + 1, Len(s))
<1>1. Len(s) \in Nat /\ \A i \in 1..Len(s) : s[i] \in S
  OBVIOUS
<1>2. a \in Seq(S) /\ Len(a) = k - 1 /\ \A i \in 1..(k - 1) : a[i] = s[i]
  BY <1>1, SubSeqProperties
<1>3. b \in Seq(S) /\ Len(b) = Len(s) - k /\ \A i \in 1..(Len(s) - k) : b[i] = s[k + i]
  BY <1>1, SubSeqProperties
<1>4. Without(s, k) = a \o b
  BY DEF Without
<1> HIDE DEF a, b
<1>5. /\ a \o b \in Seq(S) /\ Len(a \o b) = Len(a) + Len(b)
      /\ \A i \in 1..(Len(a) + Len(b)) : (a \o b)[i] = IF i <= Len(a) THEN a[i] ELSE b[i - Len(a)]
  BY <1>2, <1>3, ConcatProperties
<1>6. Len(a) + Len(b) = Len(s) - 1
  BY <1>1, <1>2, <1>3
<1>7. ASSUME NEW i \in 1..(Len(s) - 1) PROVE (a \o b)[i] = IF i < k THEN s[i] ELSE s[i + 1]
  <2>1. CASE i < k
    BY <1>1, <1>2, <1>5, <1>6, <2>1
  <2>2. CASE i >= k
    <3>1. ~(i <= Len(a)) /\ i - Len(a) \in 1..(Len(s) - k) /\ k + (i - Len(a)) = i + 1
      BY <1>1, <1>2, <2>2
    <3> QED
      BY <1>1, <1>3, <1>5, <1>6, <2>2, <3>1
  <2>3. i < k \/ i >= k
    BY <1>1
  <2> QED
    BY <2>1, <2>2, <2>3
<1> QED
  BY <1>4, <1>5, <1>6, <1>7

LEMMA TakenOutIs ==
  ASSUME NEW s \in Seq(Nodes), Distinct(s), NEW k \in 1..Len(s)
  PROVE  List!RemoveFirst(s, s[k]) = Without(s, k)
<1>1. {i \in 1..Len(s) : s[i] = s[k]} = {k}
  BY DEF Distinct
<1>2. List!SelectInSeq(s, LAMBDA v : v = s[k]) = k
  BY <1>1 DEF List!SelectInSeq, List!Min
<1> QED
  BY <1>2 DEF List!RemoveFirst, List!RemoveAt, Without

LEMMA RemovalIs ==
  ASSUME NEW s \in Seq(Nodes), Distinct(s), NEW n \in NodesOf(s), NEW q, q = List!RemoveFirst(s, n)
  PROVE  /\ q \in Seq(Nodes) /\ Distinct(q)
         /\ NodesOf(q) = NodesOf(s) \ {n}
         /\ NewestOf(q) = IF NewestOf(s) = n THEN OlderIn(s)[n] ELSE NewestOf(s)
         /\ \A m \in NodesOf(q) : OlderIn(q)[m] = IF OlderIn(s)[m] = n THEN OlderIn(s)[n] ELSE OlderIn(s)[m]
<1>1. Len(s) \in Nat /\ \A i, j \in 1..Len(s) : s[i] = s[j] => i = j
  BY DEF Distinct
<1>2. PICK k \in 1..Len(s) : s[k] = n
  BY DEF NodesOf
<1>3. q = Without(s, k)
  BY <1>2, TakenOutIs
<1>4. /\ q \in Seq(Nodes) /\ Len(q) = Len(s) - 1
      /\ \A i \in 1..(Len(s) - 1) : q[i] = IF i < k THEN s[i] ELSE s[i + 1]
  BY <1>3, SeqWithoutIs
\* Where what is left has been before.
<1> DEFINE was(i) == IF i < k THEN i ELSE i + 1
<1>5. \A i \in 1..Len(q) : q[i] = s[was(i)] /\ was(i) \in 1..Len(s) /\ was(i) # k
  BY <1>1, <1>2, <1>4
<1>6. ASSUME NEW j \in 1..Len(s), j # k PROVE \E i \in 1..Len(q) : was(i) = j
  <2>1. CASE j < k
    <3>1. j \in 1..Len(q) /\ was(j) = j
      BY <1>1, <1>4, <2>1
    <3> QED
      BY <3>1
  <2>2. CASE j > k
    <3>1. j - 1 \in 1..Len(q) /\ was(j - 1) = j
      BY <1>1, <1>4, <2>2
    <3> QED
      BY <3>1
  <2>3. j < k \/ j > k
    BY <1>1, <1>6
  <2> HIDE DEF was
  <2> QED
    BY <2>1, <2>2, <2>3
<1>7. \A i, j \in 1..Len(q) : was(i) = was(j) => i = j
  BY <1>1, <1>4
<1>8. Distinct(q)
  <2> HIDE DEF was
  <2> QED
    BY <1>1, <1>5, <1>7 DEF Distinct
<1>9. NodesOf(q) = NodesOf(s) \ {n}
  <2> HIDE DEF was
  <2>1. ASSUME NEW x \in NodesOf(q) PROVE x \in NodesOf(s) /\ x # n
    <3>1. PICK i \in 1..Len(q) : x = q[i]
      BY DEF NodesOf
    <3>2. x = s[was(i)] /\ was(i) \in 1..Len(s) /\ was(i) # k
      BY <1>5, <3>1
    <3> QED
      BY <1>1, <1>2, <3>2 DEF NodesOf
  <2>2. ASSUME NEW x \in NodesOf(s), x # n PROVE x \in NodesOf(q)
    <3>1. PICK j \in 1..Len(s) : x = s[j]
      BY DEF NodesOf
    <3>2. PICK i \in 1..Len(q) : was(i) = j
      BY <1>2, <1>6, <2>2, <3>1
    <3> QED
      BY <1>5, <3>1, <3>2 DEF NodesOf
  <2> QED
    BY <2>1, <2>2
<1>10. \A i \in 1..Len(q) : OlderIn(q)[q[i]] = IF i = 1 THEN Sentinel ELSE q[i - 1]
  BY <1>4, <1>8, OlderIs
<1>11. \A i \in 1..Len(s) : OlderIn(s)[s[i]] = IF i = 1 THEN Sentinel ELSE s[i - 1]
  BY OlderIs
<1>12. ASSUME NEW m \in NodesOf(q)
       PROVE  OlderIn(q)[m] = IF OlderIn(s)[m] = n THEN OlderIn(s)[n] ELSE OlderIn(s)[m]
  <2>1. PICK i \in 1..Len(q) : m = q[i]
    BY DEF NodesOf
  <2>2. m = s[was(i)] /\ was(i) \in 1..Len(s) /\ was(i) # k
    BY <1>5, <2>1
  <2>3. OlderIn(s)[m] = IF was(i) = 1 THEN Sentinel ELSE s[was(i) - 1]
    <3> HIDE DEF was
    <3> QED
      BY <1>11, <2>2
  <2>4. OlderIn(q)[m] = IF i = 1 THEN Sentinel ELSE q[i - 1]
    BY <1>10, <2>1
  <2>5. OlderIn(s)[n] = IF k = 1 THEN Sentinel ELSE s[k - 1]
    BY <1>2, <1>11
  <2>6. Sentinel # n
    BY <1>2, ListConstants
  <2>7. CASE was(i) = 1
    <3>1. i = 1
      BY <1>4, <2>7
    <3> HIDE DEF was
    <3> QED
      BY <2>3, <2>4, <2>6, <2>7, <3>1
  <2>8. CASE was(i) # 1 /\ was(i) - 1 = k
    <3>1. i = k /\ was(i) = k + 1
      BY <1>1, <1>2, <1>4, <2>8
    <3>2. OlderIn(s)[m] = n
      <4> HIDE DEF was
      <4> QED
        BY <1>2, <2>3, <2>8
    <3>3. i # 1 => i - 1 \in 1..(Len(s) - 1) /\ i - 1 < k
      BY <1>1, <1>4, <3>1
    <3>4. i # 1 => q[i - 1] = s[k - 1]
      BY <1>4, <3>1, <3>3
    <3> QED
      BY <2>4, <2>5, <3>1, <3>2, <3>4
  <2>9. CASE was(i) # 1 /\ was(i) - 1 # k
    <3>1. i # 1 /\ i - 1 \in 1..(Len(s) - 1) /\ was(i) - 1 \in 1..Len(s) /\ was(i - 1) = was(i) - 1
      BY <1>1, <1>2, <1>4, <2>2, <2>9
    <3>2. q[i - 1] = s[was(i) - 1]
      <4> HIDE DEF was
      <4> QED
        BY <1>4, <1>5, <3>1
    <3>3. s[was(i) - 1] # n
      <4> HIDE DEF was
      <4> QED
        BY <1>1, <1>2, <2>9, <3>1
    <3> HIDE DEF was
    <3> QED
      BY <2>3, <2>4, <2>9, <3>1, <3>2, <3>3
  <2> QED
    BY <2>7, <2>8, <2>9
<1>13. NewestOf(q) = IF NewestOf(s) = n THEN OlderIn(s)[n] ELSE NewestOf(s)
  <2>1. NewestOf(s) = s[Len(s)] /\ Len(s) \in 1..Len(s)
    BY <1>1, <1>2 DEF NewestOf
  <2>2. OlderIn(s)[n] = IF k = 1 THEN Sentinel ELSE s[k - 1]
    BY <1>2, <1>11
  <2>3. NewestOf(q) = IF Len(q) = 0 THEN Sentinel ELSE q[Len(q)]
    BY DEF NewestOf
  <2>4. CASE k = Len(s)
    <3>1. NewestOf(s) = n
      BY <1>2, <2>1, <2>4
    <3>2. (Len(q) = 0 <=> k = 1) /\ (k # 1 => Len(q) = k - 1 /\ Len(q) \in 1..(Len(s) - 1) /\ Len(q) < k)
      BY <1>1, <1>4, <2>4
    <3>3. k # 1 => q[Len(q)] = s[k - 1]
      BY <1>4, <3>2
    <3> QED
      BY <2>2, <2>3, <3>1, <3>2, <3>3
  <2>5. CASE k # Len(s)
    <3>1. NewestOf(s) # n
      BY <1>1, <1>2, <2>1, <2>5
    <3>2. Len(q) # 0 /\ Len(q) \in 1..(Len(s) - 1) /\ ~(Len(q) < k) /\ Len(q) + 1 = Len(s)
      BY <1>1, <1>4, <2>5
    <3>3. q[Len(q)] = s[Len(s)]
      BY <1>4, <3>2
    <3> QED
      BY <2>1, <2>3, <3>1, <3>2, <3>3
  <2> QED
    BY <2>4, <2>5
<1> QED
  BY <1>4, <1>8, <1>9, <1>12, <1>13

LEMMA ChainShrinks ==
  ASSUME ListType, NEW n \in InList, order' = List!RemoveFirst(order, n)
  PROVE  /\ order' \in Seq(Nodes) /\ Distinct(order')
         /\ InList' = InList \ {n} /\ Newest' = IF Newest = n THEN Older[n] ELSE Newest
         /\ \A m \in InList' : Older'[m] = IF Older[m] = n THEN Older[n] ELSE Older[m]
<1>1. order \in Seq(Nodes) /\ Distinct(order) /\ n \in NodesOf(order)
  BY DEF ListType, InList
<1>2. InList' = NodesOf(order') /\ Older' = OlderIn(order') /\ Newest' = NewestOf(order')
  BY DEF InList, Older, Newest
<1>3. InList = NodesOf(order) /\ Older = OlderIn(order) /\ Newest = NewestOf(order)
  BY DEF InList, Older, Newest
<1> QED
  BY <1>1, <1>2, <1>3, RemovalIs

LEMMA OpIs ==
  ASSUME ListType, NEW t \in Threads
  PROVE  /\ HasNode(t) => op[t].node \in Nodes
         /\ Enters(t) \/ HoldsNext(t) \/ op[t].at = "lockNext" => op[t].nx \in Links
         /\ op[t].at = "sameNext" \/ Unlinks(t) => op[t].pd \in Nodes \cup {Nil}
         /\ Enters(t) => op[t] \in PushOp
         /\ op[t].at \in {"lock", "unlockNode", "clear"} => op[t] \in LoneOp
         /\ op[t].at \in {"lockNext", "readPred"} => op[t] \in PairOp
         /\ op[t].at \in {"sameNext", "unlinkPred", "unlinkNext", "awaitPred", "unlock"} => op[t] \in UnlinkOp
<1>1. op[t] \in Ops
  BY DEF ListType
<1>2. CASE op[t] \in {List!Resting, [at |-> "back"]}
  BY <1>2 DEF List!Resting, HasNode, Enters, HoldsNext, Removes, Unlinks, HasOut
<1>3. CASE op[t] \in PushOp
  BY <1>3 DEF PushOp, HasNode, Enters, HoldsNext, Removes, Unlinks, HasOut, Links
<1>4. CASE op[t] \in LoneOp
  BY <1>4 DEF LoneOp, HasNode, Enters, HoldsNext, Removes, Unlinks, HasOut
<1>5. CASE op[t] \in PairOp
  BY <1>5 DEF PairOp, HasNode, Enters, HoldsNext, Removes, Unlinks, HasOut, Links
<1>6. CASE op[t] \in UnlinkOp
  BY <1>6 DEF UnlinkOp, HasNode, Enters, HoldsNext, Removes, Unlinks, HasOut, Links
<1> QED
  BY <1>1, <1>2, <1>3, <1>4, <1>5, <1>6 DEF Ops

LEMMA OneMoves ==
  ASSUME ListType, NEW t \in Threads, NEW o \in Ops, List!Goto(t, o)
  PROVE  op'[t] = o /\ (\A u \in Threads \ {t} : op'[u] = op[u]) /\ op' \in [Threads -> Ops]
BY DEF ListType, List!Goto

\* Only the call of t moves.
Alone(t) == \A u \in Threads \ {t} : op'[u] = op[u]

\* Where nothing of the list changes, but how far a call is with the same node.
LEMMA ListStays ==
  ASSUME ListInv, NEW t \in Threads, Alone(t), UNCHANGED <<owned, first, pred, next, hand, order>>,
         Enters(t)' <=> Enters(t), Removes(t)' <=> Removes(t), HasOut(t)' <=> HasOut(t),
         Unlinks(t) => Unlinks(t)', HasNode(t) => op'[t].node = op[t].node,
         Enters(t) => op'[t] = op[t], op'[t].at # "back"
  PROVE  PlaceInv' /\ OwnerInv' /\ EndsInv' /\ EdgeInv'
<1>1. InList' = InList /\ Older' = Older /\ Newest' = Newest
  BY ChainSame
<1>2. \A u \in Threads : /\ (Enters(u)' <=> Enters(u)) /\ (Removes(u)' <=> Removes(u))
                         /\ (HasOut(u)' <=> HasOut(u)) /\ (HasNode(u)' <=> HasNode(u))
                         /\ HasNode(u) => op'[u].node = op[u].node
                         /\ Enters(u) => op'[u] = op[u]
                         /\ Unlinks(u) => Unlinks(u)'
  BY DEF Alone, Enters, Removes, HasOut, HasNode, Unlinks
<1>3. PlaceInv'
  BY <1>1, <1>2 DEF ListInv, PlaceInv, HasNode
<1>4. OwnerInv'
  <2>1. \A u \in Threads : op[u].at # "back" => op'[u].at # "back"
    BY DEF Alone
  <2>2. (owned' = owned) /\ (hand' = hand) /\ OwnerInv
    BY DEF ListInv
  <2> QED
    BY <1>1, <1>2, <2>1, <2>2 DEF OwnerInv, HasNode
<1>5. EndsInv'
  BY <1>1, <1>2 DEF ListInv, EndsInv, HasNode
<1>6. \A n : /\ Linking(n)' <=> Linking(n)
             /\ Joining(n) => Joining(n)'
             /\ Unlinking(n) => Unlinking(n)'
  BY <1>2 DEF Linking, Joining, Unlinking, HasNode, Removes, Enters
<1>7. EdgeInv'
  BY <1>1, <1>6 DEF ListInv, EdgeInv
<1> QED
  BY <1>3, <1>4, <1>5, <1>7

\* The locks: none changes hands, t takes one, t gives one back.
LEMMA LocksStay ==
  ASSUME LockInv, NEW t \in Threads, Alone(t), lock' = lock, HoldsNode(t)' <=> HoldsNode(t),
         HoldsNext(t)' <=> HoldsNext(t), HoldsNode(t) => op'[t].node = op[t].node,
         HoldsNext(t) => op'[t].nx = op[t].nx
  PROVE  LockInv'
<1>1. \A u \in Threads : (HoldsNext(u)' <=> HoldsNext(u)) /\ \A x \in Links : Holds(u, x)' <=> Holds(u, x)
  BY DEF Alone, Holds, HoldsNode, HoldsNext, Unlinks
<1> QED
  BY <1>1 DEF LockInv, Alone, HoldsNode

LEMMA LockTaken ==
  ASSUME LockInv, NEW t \in Threads, Alone(t), NEW y \in Links, lock[y] = FALSE,
         lock \in [Links -> BOOLEAN], lock' = [lock EXCEPT ![y] = TRUE],
         \A x \in Links : Holds(t, x)' <=> Holds(t, x) \/ x = y,
         HoldsNext(t)' => op'[t].node # op'[t].nx
  PROVE  LockInv'
<1>1. \A u \in Threads \ {t} : (HoldsNext(u)' <=> HoldsNext(u)) /\ \A x \in Links : Holds(u, x)' <=> Holds(u, x)
  BY DEF Alone, Holds, HoldsNode, HoldsNext, Unlinks
<1>2. \A u \in Threads : ~Holds(u, y)
  BY DEF LockInv
<1> QED
  BY <1>1, <1>2 DEF LockInv, Alone

LEMMA LockFreed ==
  ASSUME LockInv, NEW t \in Threads, Alone(t), NEW y \in Links, Holds(t, y),
         lock \in [Links -> BOOLEAN], lock' = [lock EXCEPT ![y] = FALSE],
         \A x \in Links : Holds(t, x)' <=> Holds(t, x) /\ x # y, ~HoldsNext(t)'
  PROVE  LockInv'
<1>1. \A u \in Threads \ {t} : (HoldsNext(u)' <=> HoldsNext(u)) /\ \A x \in Links : Holds(u, x)' <=> Holds(u, x)
  BY DEF Alone, Holds, HoldsNode, HoldsNext, Unlinks
<1>2. \A u \in Threads \ {t} : ~Holds(u, y)
  BY DEF LockInv
<1> QED
  BY <1>1, <1>2 DEF LockInv, Alone

LEMMA UnlinksStay ==
  ASSUME UnlinkInv, NEW t \in Threads, Alone(t), pred' = pred, order' = order, UnlinkOf(t)'
  PROVE  UnlinkInv'
BY ChainSame DEF UnlinkInv, UnlinkOf, Alone, Unlinks

LEMMA PopStays ==
  ASSUME PopInv, NEW t \in Threads, Alone(t), UNCHANGED <<owned, guard, order>>, Pops(t)' <=> Pops(t),
         owned = FALSE => late' = FALSE, Removes(t)' => Removes(t) /\ op'[t].node = op[t].node,
         owned = FALSE /\ (op'[t].at = "lockNext" \/ HoldsNext(t)') => op'[t].nx = Sentinel
  PROVE  PopInv'
<1>1. Older' = Older
  BY ChainSame
<1>2. \A u \in Threads : (Pops(u)' <=> Pops(u)) /\ (Removes(u)' => Removes(u) /\ op'[u].node = op[u].node)
  BY DEF Alone, Pops, Removes, Unlinks
<1>3. \A u \in Threads \ {t} : (op'[u].at = "lockNext" \/ HoldsNext(u)') => (op[u].at = "lockNext" \/ HoldsNext(u)) /\ op'[u].nx = op[u].nx
  BY DEF Alone, HoldsNext, Unlinks
<1> QED
  BY <1>1, <1>2, <1>3 DEF PopInv

\* What is in the list is in nobody's hand.
LEMMA TouchedInTime ==
  ASSUME ListInv, NEW t, NEW x, x \in InList \cup {Sentinel}, List!Touch(t, x), owned = FALSE
  PROVE  late' = FALSE
BY ListConstants DEF ListInv, ListType, PlaceInv, PopInv, List!Touch

-----------------------------------------------------------------------------
(* One lemma for each step.                                                *)

LEMMA LinkNextKept ==
  ASSUME ListInv, NEW t \in Threads, owned' = owned, List!LinkNext(t)
  PROVE  ListInv'
<1> DEFINE n == op[t].node  o == [op[t] EXCEPT !.at = "linkPred"]
<1>1. op[t].at = "linkNext" /\ Enters(t) /\ op[t] \in PushOp /\ n \in Nodes /\ op[t].nx \in Links
  BY OpIs DEF ListInv, List!LinkNext, List!At, Enters, HasNode
<1>2. o \in PushOp /\ o.at = "linkPred" /\ o.node = n /\ o.nx = op[t].nx
  BY <1>1 DEF PushOp
<1>3. op'[t] = o /\ Alone(t) /\ op' \in [Threads -> Ops]
  BY <1>2, OneMoves DEF List!LinkNext, Ops, Alone, ListInv
<1>4. /\ next' = [next EXCEPT ![n] = op[t].nx]
      /\ UNCHANGED <<owned, first, pred, lock, guard, hand, order, late>>
  BY DEF List!LinkNext
<1>5. ListType'
  BY <1>1, <1>3, <1>4 DEF ListInv, ListType, Links
<1>6. InList' = InList /\ Older' = Older /\ Newest' = Newest
  BY <1>4, ChainSame
<1>7. \A u \in Threads : /\ (Enters(u)' <=> Enters(u)) /\ (Removes(u)' <=> Removes(u))
                         /\ (HasOut(u)' <=> HasOut(u)) /\ (HasNode(u)' <=> HasNode(u))
                         /\ (Unlinks(u)' <=> Unlinks(u)) /\ (Pops(u)' <=> Pops(u))
                         /\ (HoldsNode(u)' <=> HoldsNode(u)) /\ (HoldsNext(u)' <=> HoldsNext(u))
                         /\ HasNode(u) => op'[u].node = op[u].node
                         /\ Enters(u) => op'[u].nx = op[u].nx
                         /\ ~Enters(u) => op'[u] = op[u]
  BY <1>1, <1>2, <1>3 DEF Alone, Enters, Removes, HasOut, HasNode, Unlinks, Pops, HoldsNode, HoldsNext
<1>8. PlaceInv' /\ OwnerInv'
  <2>1. PlaceInv'
    BY <1>4, <1>6, <1>7 DEF ListInv, PlaceInv, HasNode
  <2>2. \A u \in Threads : op[u].at # "back" => op'[u].at # "back"
    BY <1>2, <1>3 DEF Alone
  <2> QED
    BY <1>4, <1>6, <1>7, <2>1, <2>2 DEF ListInv, OwnerInv, HasNode
<1>9. LockInv' /\ UnlinkInv' /\ PopInv'
  <2>1. ~Enters(t)' => FALSE
    BY <1>2, <1>3 DEF Enters
  <2>2. LockInv'
    BY <1>1, <1>3, <1>4, <1>7, LocksStay DEF ListInv, Enters, HoldsNode, HoldsNext, Unlinks
  <2>3. UnlinkOf(t)'
    BY <1>2, <1>3 DEF UnlinkOf, Unlinks
  <2>4. UnlinkInv'
    BY <1>3, <1>4, <2>3, UnlinksStay DEF ListInv
  <2>5. PopInv'
    <3>1. owned = FALSE => late' = FALSE
      BY <1>4 DEF ListInv, PopInv
    <3>2. ~Removes(t)' /\ ~(op'[t].at = "lockNext" \/ HoldsNext(t)')
      BY <1>2, <1>3 DEF Removes, Unlinks, HoldsNext
    <3> QED
      BY <1>3, <1>4, <1>7, <3>1, <3>2, PopStays DEF ListInv
  <2> QED
    BY <2>2, <2>4, <2>5
<1>10. EndsInv'
  BY <1>4, <1>6, <1>7 DEF ListInv, EndsInv, HasNode
<1>11. EdgeInv'
  <2>1. n \in InList /\ op[t].nx = Older[n]
    BY <1>1 DEF ListInv, PlaceInv, EndsInv
  <2>2. \A m : (Linking(m)' <=> Linking(m)) /\ (Unlinking(m)' <=> Unlinking(m))
    BY <1>7 DEF Linking, Unlinking, HasNode, Removes
  <2>3. \A m : m # n /\ Joining(m) => Joining(m)'
    BY <1>3 DEF Joining, Alone
  <2>4. \A m \in InList : next'[m] = IF m = n THEN Older[n] ELSE next[m]
    BY <1>4, <2>1, ChainIs DEF ListInv, ListType, Links
  <2> QED
    BY <1>4, <1>6, <2>2, <2>3, <2>4 DEF ListInv, EdgeInv
<1> QED
  BY <1>5, <1>8, <1>9, <1>10, <1>11 DEF ListInv

LEMMA LinkPredKept ==
  ASSUME ListInv, NEW t \in Threads, owned' = owned, List!LinkPred(t)
  PROVE  ListInv'
<1> DEFINE n == op[t].node  m == op[t].nx
<1>1. op[t].at = "linkPred" /\ Enters(t) /\ n \in Nodes /\ m \in Links
  BY OpIs DEF ListInv, List!LinkPred, List!At, Enters, HasNode
<1>2. op'[t] = [at |-> "idle"] /\ Alone(t) /\ op' \in [Threads -> Ops]
  BY OneMoves DEF List!LinkPred, Ops, Alone, ListInv, List!Resting
<1>3. /\ pred' = [pred EXCEPT ![m] = n] /\ List!Touch(t, m)
      /\ UNCHANGED <<owned, first, next, lock, guard, hand, order>>
  BY DEF List!LinkPred
<1>4. ListType'
  BY <1>1, <1>2, <1>3 DEF ListInv, ListType, List!Touch
<1>5. InList' = InList /\ Older' = Older /\ Newest' = Newest
  BY <1>3, ChainSame
<1>6. /\ n \in InList /\ m = Older[n] /\ m \in InList \cup {Sentinel} /\ m # n /\ m # Newest
      /\ pred[m] = Nil
  <2>1. n \in InList /\ m = Older[n] /\ Linking(n)
    BY <1>1 DEF ListInv, PlaceInv, EndsInv, Linking
  <2> QED
    BY <2>1, ChainIs DEF ListInv, EdgeInv
<1>7. \A x \in InList \cup {Sentinel} : x \in Links /\ pred'[x] = IF x = m THEN n ELSE pred[x]
  BY <1>1, <1>3, ChainIs DEF ListInv, ListType, Links
<1>8. /\ \A u \in Threads \ {t} : op'[u] = op[u]
      /\ ~Enters(t)' /\ ~Removes(t)' /\ ~HasOut(t)' /\ ~HasNode(t)' /\ ~Unlinks(t)'
      /\ ~Pops(t)' /\ ~HoldsNode(t)' /\ ~HoldsNext(t)' /\ ~HasOut(t)
      /\ ~Pops(t) /\ ~HoldsNode(t) /\ ~HoldsNext(t) /\ ~Removes(t) /\ ~Unlinks(t) /\ HasNode(t)
  BY <1>1, <1>2 DEF Alone, Enters, Removes, HasOut, HasNode, Unlinks, Pops, HoldsNode, HoldsNext
<1>9. \A u \in Threads \ {t} : /\ (Enters(u)' <=> Enters(u)) /\ (Removes(u)' <=> Removes(u))
                               /\ (HasOut(u)' <=> HasOut(u)) /\ (HasNode(u)' <=> HasNode(u))
                               /\ (Unlinks(u)' <=> Unlinks(u))
  BY <1>8 DEF Enters, Removes, HasOut, HasNode, Unlinks
<1>10. PlaceInv'
  BY <1>3, <1>5, <1>8, <1>9 DEF ListInv, PlaceInv
<1>11. OwnerInv'
  BY <1>2, <1>3, <1>5, <1>8, <1>9 DEF ListInv, OwnerInv
<1>12. LockInv'
  BY <1>2, <1>3, <1>8, LocksStay DEF ListInv
<1>13. PopInv'
  <2>1. owned = FALSE => late' = FALSE
    BY <1>3, <1>6, TouchedInTime
  <2>2. ~(op'[t].at = "lockNext" \/ HoldsNext(t)')
    BY <1>2, <1>8
  <2> QED
    BY <1>2, <1>3, <1>8, <2>1, <2>2, PopStays DEF ListInv
<1>14. EndsInv'
  <2>1. first' = Newest' /\ pred'[Newest'] = Nil
    BY <1>3, <1>5, <1>6, <1>7, ChainIs DEF ListInv, EndsInv
  <2>2. \A u \in Threads : \A x \in hand[u] : pred'[x] = Nil
    BY <1>1, <1>3, <1>6, ListConstants DEF ListInv, ListType, EndsInv, PlaceInv, Links
  <2>3. \A u \in Threads : Enters(u)' => op'[u].nx = Older[op'[u].node]
    BY <1>8, <1>9 DEF ListInv, EndsInv
  <2> QED
    BY <1>3, <1>5, <2>1, <2>2, <2>3 DEF EndsInv
<1>15. EdgeInv'
  <2>1. ASSUME NEW x \in InList, x # n PROVE Older[x] # m /\ Older[x] \in InList \cup {Sentinel}
    BY <1>6, <2>1, ChainIs DEF ListInv
  <2>2. \A x : /\ Joining(x) => Joining(x)'
               /\ x # n => (Linking(x)' <=> Linking(x))
               /\ Unlinking(x) => Unlinking(x)'
    BY <1>1, <1>8, <1>9 DEF Joining, Linking, Unlinking
  <2>3. \A x : x = n => ~Linking(x)'
    BY <1>8, <1>9 DEF Linking, ListInv, PlaceInv, HasNode
  <2> QED
    BY <1>3, <1>5, <1>6, <1>7, <2>1, <2>2, <2>3 DEF ListInv, EdgeInv
<1>16. UnlinkInv'
  <2>1. UnlinkOf(t)'
    BY <1>2, <1>8 DEF UnlinkOf
  <2>2. ASSUME NEW u \in Threads \ {t} PROVE UnlinkOf(u)'
    <3>1. UnlinkOf(u) /\ (Unlinks(u)' <=> Unlinks(u)) /\ op'[u] = op[u]
      BY <1>8, <1>9 DEF ListInv, UnlinkInv
    <3>2. (op[u].at = "sameNext" \/ Unlinks(u)) => op[u].node \in InList /\ op[u].node # n
      BY <1>8 DEF ListInv, PlaceInv, Removes, HasNode
    <3>3. (op[u].at = "sameNext" \/ Unlinks(u)) /\ op[u].pd # Nil => op[u].node # m
      BY <1>6, <3>1 DEF UnlinkOf
    <3>4. Unlinks(u) => op[u].nx \in InList \cup {Sentinel} /\ op[u].nx # m
      BY <1>6, <3>1, <3>2, ChainIs DEF UnlinkOf, ListInv
    <3>5. op[u].at \in {"unlinkPred", "unlinkNext", "awaitPred"} => Unlinks(u)
      BY DEF Unlinks
    <3>6. /\ (op[u].at = "sameNext" \/ Unlinks(u)) /\ op[u].pd # Nil => pred'[op[u].node] = pred[op[u].node]
          /\ Unlinks(u) => pred'[op[u].nx] = pred[op[u].nx]
      BY <1>7, <3>2, <3>3, <3>4
    <3> QED
      BY <1>5, <3>1, <3>5, <3>6 DEF UnlinkOf
  <2> QED
    BY <2>1, <2>2 DEF UnlinkInv
<1> QED
  BY <1>4, <1>10, <1>11, <1>12, <1>13, <1>14, <1>15, <1>16 DEF ListInv

LEMMA ExchangeKept ==
  ASSUME ListInv, NEW t \in Threads, NEW n \in Nodes, owned' = owned, List!Exchange(t, n)
  PROVE  ListInv'
<1>1. op[t].at = "idle" /\ n \in hand[t] /\ n \notin InList /\ pred[n] = Nil /\ first \in Links
      /\ first = Newest
  BY DEF ListInv, ListType, PlaceInv, EndsInv, List!Exchange, List!At
<1>2. op'[t] = [at |-> "linkNext", node |-> n, nx |-> first] /\ Alone(t) /\ op' \in [Threads -> Ops]
  <2>1. [at |-> "linkNext", node |-> n, nx |-> first] \in Ops
    BY <1>1 DEF Ops, PushOp
  <2> QED
    BY <2>1, OneMoves DEF List!Exchange, Alone, ListInv
<1>3. /\ first' = n /\ hand' = [hand EXCEPT ![t] = @ \ {n}] /\ order' = Append(order, n)
      /\ UNCHANGED <<owned, pred, next, lock, guard, late>>
  BY DEF List!Exchange
<1>4. /\ order' \in Seq(Nodes) /\ Distinct(order')
      /\ InList' = InList \cup {n} /\ Newest' = n /\ Older'[n] = Newest
      /\ \A m \in InList : Older'[m] = Older[m]
  BY <1>1, <1>3, ChainGrows DEF ListInv
<1>5. \A u \in Threads : hand'[u] = IF u = t THEN hand[u] \ {n} ELSE hand[u]
  BY <1>3 DEF ListInv, ListType
<1>6. ListType'
  <2>1. hand' \in [Threads -> SUBSET Nodes]
    BY <1>3 DEF ListInv, ListType
  <2> QED
    BY <1>2, <1>3, <1>4, <2>1 DEF ListInv, ListType, Links
<1>7. /\ \A u \in Threads \ {t} : op'[u] = op[u]
      /\ ~Enters(t) /\ ~Removes(t) /\ ~HasOut(t) /\ ~HasNode(t) /\ ~Unlinks(t)
      /\ ~Pops(t)' /\ ~HoldsNode(t)' /\ ~HoldsNext(t)' /\ ~HasOut(t)' /\ ~Removes(t)' /\ ~Unlinks(t)'
      /\ ~Pops(t) /\ ~HoldsNode(t) /\ ~HoldsNext(t) /\ HasNode(t)' /\ Enters(t)'
      /\ op'[t].node = n /\ op'[t].nx = first /\ op'[t].at = "linkNext"
  BY <1>1, <1>2 DEF Alone, Enters, Removes, HasOut, HasNode, Unlinks, Pops, HoldsNode, HoldsNext
<1>8. \A u \in Threads \ {t} : /\ (Enters(u)' <=> Enters(u)) /\ (Removes(u)' <=> Removes(u))
                               /\ (HasOut(u)' <=> HasOut(u)) /\ (HasNode(u)' <=> HasNode(u))
                               /\ (Unlinks(u)' <=> Unlinks(u)) /\ (Pops(u)' <=> Pops(u))
                               /\ (HoldsNext(u)' <=> HoldsNext(u))
  BY <1>7 DEF Enters, Removes, HasOut, HasNode, Unlinks, Pops, HoldsNext
<1>9. \A u \in Threads : HasNode(u) => op[u].node # n
  BY <1>1 DEF ListInv, PlaceInv
<1>10. \A u \in Threads \ {t} : n \notin hand[u]
  BY <1>1 DEF ListInv, PlaceInv
<1>11. PlaceInv'
  <2>1. \A u \in Threads : Enters(u)' \/ Removes(u)' => op'[u].node \in InList'
    BY <1>4, <1>7, <1>8 DEF ListInv, PlaceInv
  <2>2. \A u \in Threads : HasOut(u)' => op'[u].node \notin InList'
    BY <1>4, <1>7, <1>8, <1>9 DEF ListInv, PlaceInv, HasNode
  <2>3. \A u \in Threads : \A x \in hand'[u] : x \notin InList'
    BY <1>4, <1>5, <1>10 DEF ListInv, PlaceInv
  <2>4. \A u, v \in Threads : HasNode(u)' => op'[u].node \notin hand'[v]
    BY <1>5, <1>7, <1>8, <1>10 DEF ListInv, PlaceInv
  <2>5. \A u, v \in Threads : \A x \in hand'[u] : x \in hand'[v] => u = v
    BY <1>5 DEF ListInv, PlaceInv
  <2>6. \A u, v \in Threads : HasNode(u)' /\ HasNode(v)' /\ op'[u].node = op'[v].node => u = v
    BY <1>7, <1>8, <1>9 DEF ListInv, PlaceInv
  <2> QED
    BY <2>1, <2>2, <2>3, <2>4, <2>5, <2>6 DEF PlaceInv
<1>12. OwnerInv'
  BY <1>1, <1>2, <1>3, <1>4, <1>5, <1>7, <1>8 DEF ListInv, OwnerInv
<1>13. LockInv'
  BY <1>2, <1>3, <1>7, LocksStay DEF ListInv
<1>14. PopInv'
  <2>1. \A u \in Threads : Removes(u)' => Removes(u) /\ op'[u].node = op[u].node /\ op[u].node \in InList
    BY <1>7, <1>8 DEF ListInv, PlaceInv
  <2>2. \A u \in Threads : op'[u].at = "lockNext" \/ HoldsNext(u)' =>
                             (op[u].at = "lockNext" \/ HoldsNext(u)) /\ op'[u].nx = op[u].nx
    BY <1>7, <1>8
  <2>3. \A u \in Threads : Pops(u)' <=> Pops(u)
    BY <1>7, <1>8
  <2> QED
    BY <1>3, <1>4, <2>1, <2>2, <2>3 DEF ListInv, PopInv
<1>15. EndsInv'
  <2>1. \A u \in Threads : Enters(u)' => op'[u].nx = Older'[op'[u].node]
    BY <1>1, <1>4, <1>7, <1>8 DEF ListInv, EndsInv, PlaceInv
  <2>2. \A u \in Threads : \A x \in hand'[u] : pred'[x] = Nil
    BY <1>3, <1>5 DEF ListInv, EndsInv
  <2> QED
    BY <1>1, <1>3, <1>4, <2>1, <2>2 DEF EndsInv
<1>16. EdgeInv'
  <2>1. \A x : x # n => /\ Joining(x)' <=> Joining(x)
                        /\ Linking(x)' <=> Linking(x)
                        /\ Unlinking(x)' <=> Unlinking(x)
    BY <1>1, <1>7, <1>8 DEF Joining, Linking, Unlinking, Enters
  <2>2. Joining(n)' /\ Linking(n)'
    BY <1>7 DEF Joining, Linking
  <2>3. pred[Newest] = Nil
    BY DEF ListInv, EndsInv
  <2> QED
    BY <1>1, <1>3, <1>4, <2>1, <2>2, <2>3 DEF ListInv, EdgeInv
<1>17. UnlinkInv'
  <2>1. UnlinkOf(t)'
    BY <1>2, <1>7 DEF UnlinkOf
  <2>2. ASSUME NEW u \in Threads \ {t} PROVE UnlinkOf(u)'
    <3>1. UnlinkOf(u) /\ (Unlinks(u)' <=> Unlinks(u)) /\ op'[u] = op[u]
      BY <1>7, <1>8 DEF ListInv, UnlinkInv
    <3>2. Unlinks(u) => op[u].node \in InList
      BY DEF ListInv, PlaceInv, Removes
    <3> QED
      BY <1>3, <1>4, <3>1, <3>2 DEF UnlinkOf
  <2> QED
    BY <2>1, <2>2 DEF UnlinkInv
<1> QED
  BY <1>6, <1>11, <1>12, <1>13, <1>14, <1>15, <1>16, <1>17 DEF ListInv

\* A call that begins, or ends, without the list.
LEMMA StepsAside ==
  ASSUME ListInv, NEW t \in Threads, Alone(t), UNCHANGED <<owned, first, pred, next, lock, hand, order, late>>,
         op[t].at \in {"idle", "back"}, op'[t].at \in {"idle", "back"}, op'[t].at = "back" => owned = FALSE
  PROVE  PlaceInv' /\ OwnerInv' /\ LockInv' /\ EndsInv' /\ EdgeInv' /\ UnlinkInv'
<1>1. /\ ~Enters(t) /\ ~Removes(t) /\ ~HasOut(t) /\ ~HasNode(t) /\ ~Unlinks(t)
      /\ ~HoldsNode(t) /\ ~HoldsNext(t)
  BY DEF Enters, Removes, HasOut, HasNode, Unlinks, HoldsNode, HoldsNext
<1>2. /\ ~Enters(t)' /\ ~Removes(t)' /\ ~HasOut(t)' /\ ~HasNode(t)' /\ ~Unlinks(t)'
      /\ ~HoldsNode(t)' /\ ~HoldsNext(t)'
  BY DEF Enters, Removes, HasOut, HasNode, Unlinks, HoldsNode, HoldsNext
<1>3. \A u \in Threads : u = t \/ op'[u] = op[u]
  BY DEF Alone
<1>4. \A u \in Threads : /\ (Enters(u)' <=> Enters(u)) /\ (Removes(u)' <=> Removes(u))
                         /\ (HasOut(u)' <=> HasOut(u)) /\ (HasNode(u)' <=> HasNode(u))
                         /\ (Unlinks(u)' <=> Unlinks(u))
                         /\ HasNode(u) => op'[u] = op[u]
  BY <1>1, <1>2, <1>3 DEF Enters, Removes, HasOut, HasNode, Unlinks
<1>5. InList' = InList /\ Older' = Older /\ Newest' = Newest
  BY ChainSame
<1>6. PlaceInv'
  BY <1>4, <1>5 DEF ListInv, PlaceInv, HasNode
<1>7. OwnerInv'
  <2>1. \A u \in Threads : owned = TRUE /\ op[u].at # "back" => op'[u].at # "back"
    BY <1>3
  <2> QED
    BY <1>4, <1>5, <2>1 DEF ListInv, OwnerInv, HasNode
<1>8. EndsInv'
  BY <1>4, <1>5 DEF ListInv, EndsInv, HasNode
<1>9. EdgeInv'
  <2>1. \A x : /\ Joining(x) => Joining(x)'
               /\ Linking(x)' <=> Linking(x)
               /\ Unlinking(x) => Unlinking(x)'
    BY <1>4 DEF Joining, Linking, Unlinking, HasNode, Removes, Enters
  <2> QED
    BY <1>5, <2>1 DEF ListInv, EdgeInv
<1>10. LockInv'
  BY <1>1, <1>2, LocksStay DEF ListInv
<1>11. UnlinkInv'
  <2>1. UnlinkOf(t)'
    BY <1>2 DEF UnlinkOf
  <2> QED
    BY <2>1, UnlinksStay DEF ListInv
<1> QED
  BY <1>6, <1>7, <1>8, <1>9, <1>10, <1>11

LEMMA TakeGuardKept ==
  ASSUME ListInv, NEW t \in Threads, owned' = owned, List!TakeGuard(t)
  PROVE  ListInv'
<1>1. op[t].at = "idle" /\ owned = FALSE /\ guard = FALSE
  BY DEF List!TakeGuard, List!At, ListInv, ListType
<1>2. op'[t] = [at |-> "back"] /\ Alone(t) /\ op' \in [Threads -> Ops]
  BY OneMoves DEF List!TakeGuard, Ops, Alone, ListInv
<1>3. guard' = TRUE /\ UNCHANGED <<owned, first, pred, next, lock, hand, order, late>>
  BY DEF List!TakeGuard
<1>4. ListType'
  BY <1>2, <1>3 DEF ListInv, ListType
<1>5. PlaceInv' /\ OwnerInv' /\ LockInv' /\ EndsInv' /\ EdgeInv' /\ UnlinkInv'
  <2>1. op[t].at \in {"idle", "back"} /\ op'[t].at \in {"idle", "back"}
    BY <1>1, <1>2
  <2> QED
    BY <1>1, <1>2, <1>3, <2>1, StepsAside
<1>6. PopInv'
  <2>1. PopInv /\ Older' = Older
    BY <1>3, ChainSame DEF ListInv
  <2>2. \A u \in Threads : ~Pops(u)
    BY <1>1, <2>1 DEF PopInv
  <2>3. \A u \in Threads : Pops(u)' <=> u = t
    BY <1>2, <2>2 DEF Pops, Alone
  <2>4. \A u \in Threads : ~Removes(u)' /\ ~(op'[u].at = "lockNext" \/ HoldsNext(u)')
    BY <1>2, <2>2 DEF Pops, Alone, Removes, Unlinks, HoldsNext
  <2> QED
    BY <1>1, <1>3, <2>1, <2>3, <2>4 DEF PopInv
<1> QED
  BY <1>4, <1>5, <1>6 DEF ListInv

\* A thread that sets out to remove a node of the list that no other call is about.
LEMMA RemovalStarts ==
  ASSUME ListInv, NEW t \in Threads, NEW n \in InList, Alone(t), op[t].at \in {"idle", "back"},
         op'[t] = [at |-> "lock", node |-> n], owned = TRUE => OwnerOf[n] = t,
         \A u \in Threads \ {t} : HasNode(u) => op[u].node # n,
         UNCHANGED <<owned, first, pred, next, lock, hand, order, late>>
  PROVE  PlaceInv' /\ OwnerInv' /\ LockInv' /\ EndsInv' /\ EdgeInv' /\ UnlinkInv'
<1>1. /\ ~Enters(t) /\ ~Removes(t) /\ ~HasOut(t) /\ ~HasNode(t) /\ ~Unlinks(t)
      /\ ~HoldsNode(t) /\ ~HoldsNext(t)
  BY DEF Enters, Removes, HasOut, HasNode, Unlinks, HoldsNode, HoldsNext
<1>2. /\ ~Enters(t)' /\ Removes(t)' /\ ~HasOut(t)' /\ HasNode(t)' /\ ~Unlinks(t)'
      /\ ~HoldsNode(t)' /\ ~HoldsNext(t)' /\ op'[t].node = n /\ op'[t].at = "lock"
  BY DEF Enters, Removes, HasOut, HasNode, Unlinks, HoldsNode, HoldsNext
<1>3. \A u \in Threads : u = t \/ op'[u] = op[u]
  BY DEF Alone
<1>4. \A u \in Threads : /\ (Enters(u)' <=> Enters(u)) /\ (HasOut(u)' <=> HasOut(u))
                         /\ (Unlinks(u)' <=> Unlinks(u))
                         /\ u = t \/ ((HasNode(u)' <=> HasNode(u)) /\ (Removes(u)' <=> Removes(u)))
                         /\ HasNode(u) => op'[u] = op[u]
  BY <1>1, <1>2, <1>3 DEF Enters, Removes, HasOut, HasNode, Unlinks
<1>5. InList' = InList /\ Older' = Older /\ Newest' = Newest
  BY ChainSame
<1>6. PlaceInv'
  <2>1. \A u \in Threads : Enters(u)' \/ Removes(u)' => op'[u].node \in InList'
    BY <1>2, <1>3, <1>4, <1>5 DEF ListInv, PlaceInv
  <2>2. \A u \in Threads : HasOut(u)' => op'[u].node \notin InList'
    BY <1>4, <1>5 DEF ListInv, PlaceInv, HasNode
  <2>3. \A u \in Threads : \A x \in hand'[u] : x \notin InList'
    BY <1>5 DEF ListInv, PlaceInv
  <2>4. \A u, v \in Threads : HasNode(u)' => op'[u].node \notin hand'[v]
    BY <1>2, <1>4 DEF ListInv, PlaceInv
  <2>5. \A u, v \in Threads : HasNode(u)' /\ HasNode(v)' /\ op'[u].node = op'[v].node => u = v
    BY <1>2, <1>3, <1>4 DEF ListInv, PlaceInv
  <2> QED
    BY <2>1, <2>2, <2>3, <2>4, <2>5 DEF ListInv, PlaceInv
<1>7. OwnerInv'
  <2>1. \A u \in Threads : owned = TRUE => op'[u].at # "back"
    BY <1>2, <1>3 DEF ListInv, OwnerInv
  <2>2. \A u \in Threads : owned = TRUE /\ HasNode(u)' => OwnerOf[op'[u].node] = u
    BY <1>2, <1>4 DEF ListInv, OwnerInv
  <2> QED
    BY <1>4, <1>5, <2>1, <2>2 DEF ListInv, OwnerInv, HasNode
<1>8. EndsInv'
  BY <1>4, <1>5 DEF ListInv, EndsInv, HasNode
<1>9. EdgeInv'
  <2>1. \A x : /\ Joining(x) => Joining(x)'
               /\ Linking(x)' <=> Linking(x)
               /\ Unlinking(x) => Unlinking(x)'
    BY <1>4 DEF Joining, Linking, Unlinking, HasNode, Removes, Enters
  <2> QED
    BY <1>5, <2>1 DEF ListInv, EdgeInv
<1>10. LockInv'
  BY <1>1, <1>2, LocksStay DEF ListInv
<1>11. UnlinkInv'
  <2>1. UnlinkOf(t)'
    BY <1>2 DEF UnlinkOf
  <2> QED
    BY <2>1, UnlinksStay DEF ListInv
<1> QED
  BY <1>6, <1>7, <1>8, <1>9, <1>10, <1>11

LEMMA BackKept ==
  ASSUME ListInv, NEW t \in Threads, owned' = owned, List!Back(t)
  PROVE  ListInv'
<1>1. op[t].at = "back" /\ owned = FALSE /\ Pops(t)
  BY DEF List!Back, List!At, ListInv, ListType, OwnerInv, Pops
<1>2. UNCHANGED <<owned, first, pred, next, lock, hand, order, late>>
  BY DEF List!Back
<1>3. PopInv /\ Older' = Older
  BY <1>2, ChainSame DEF ListInv
<1>4. \A u \in Threads \ {t} : ~Pops(u)
  BY <1>1, <1>3 DEF PopInv
<1>5. CASE pred[Sentinel] = Nil
  <2>1. guard' = FALSE /\ op'[t] = [at |-> "idle"] /\ Alone(t) /\ op' \in [Threads -> Ops]
    BY <1>5, OneMoves DEF List!Back, Ops, Alone, ListInv, List!Resting
  <2>2. ListType'
    BY <1>2, <2>1 DEF ListInv, ListType
  <2>3. PlaceInv' /\ OwnerInv' /\ LockInv' /\ EndsInv' /\ EdgeInv' /\ UnlinkInv'
    <3>1. op[t].at \in {"idle", "back"} /\ op'[t].at \in {"idle", "back"}
      BY <1>1, <2>1
    <3> QED
      BY <1>1, <1>2, <2>1, <3>1, StepsAside
  <2>4. \A u \in Threads : ~Pops(u)'
    BY <1>4, <2>1 DEF Pops, Alone
  <2>5. \A u \in Threads : ~Removes(u)' /\ ~(op'[u].at = "lockNext" \/ HoldsNext(u)')
    BY <2>4 DEF Pops, Removes, Unlinks, HoldsNext
  <2>6. PopInv'
    BY <1>2, <1>3, <2>1, <2>4, <2>5 DEF PopInv
  <2> QED
    BY <2>2, <2>3, <2>6 DEF ListInv
<1>6. CASE pred[Sentinel] # Nil
  <2> DEFINE n == pred[Sentinel]
  <2>1. n \in Nodes
    BY <1>6 DEF ListInv, ListType, Links
  <2>2. guard' = guard /\ op'[t] = [at |-> "lock", node |-> n] /\ Alone(t) /\ op' \in [Threads -> Ops]
    <3>1. [at |-> "lock", node |-> n] \in Ops
      BY <2>1 DEF Ops, LoneOp
    <3> QED
      BY <1>6, <3>1, OneMoves DEF List!Back, Alone, ListInv
  <2>3. ListType'
    BY <1>2, <2>2 DEF ListInv, ListType
  \* Nobody else removes, so what hangs before the sentinel is the oldest, and linked.
  <2>4. n \in InList /\ Older[n] = Sentinel /\ ~Linking(n)
    <3>1. PICK a \in InList : Older[a] = Sentinel
      BY <1>6, ChainIs DEF ListInv, EndsInv
    <3>2. ~Unlinking(a)
      BY <1>1, <1>4 DEF Unlinking, Unlinks, Pops
    <3>3. ~Linking(a) /\ pred[Sentinel] = a
      BY <1>6, <3>1, <3>2 DEF ListInv, EdgeInv
    <3> QED
      BY <3>1, <3>3
  <2>5. \A u \in Threads \ {t} : HasNode(u) => op[u].node # n
    BY <1>4, <2>4 DEF HasNode, Linking, Pops, Removes, HasOut, Unlinks
  <2>6. PlaceInv' /\ OwnerInv' /\ LockInv' /\ EndsInv' /\ EdgeInv' /\ UnlinkInv'
    BY <1>1, <1>2, <2>2, <2>4, <2>5, RemovalStarts
  <2>7. \A u \in Threads : Pops(u)' <=> Pops(u)
    BY <1>1, <2>2 DEF Pops, Alone
  <2>8. \A u \in Threads : Removes(u)' => u = t /\ op'[u].node = n
    BY <1>4, <2>2 DEF Pops, Alone, Removes, Unlinks
  <2>9. \A u \in Threads : ~(op'[u].at = "lockNext" \/ HoldsNext(u)')
    BY <1>4, <2>2 DEF Pops, Alone, HoldsNext, Unlinks
  <2>10. PopInv'
    BY <1>2, <1>3, <2>2, <2>4, <2>7, <2>8, <2>9 DEF PopInv
  <2> QED
    BY <2>3, <2>6, <2>10 DEF ListInv
<1> QED
  BY <1>5, <1>6

LEMMA RemoveOwnKept ==
  ASSUME ListInv, NEW t \in Threads, NEW n \in Nodes, owned' = owned, List!RemoveOwn(t, n)
  PROVE  ListInv'
<1>1. op[t].at = "idle" /\ owned = TRUE /\ OwnerOf[n] = t /\ n \notin hand[t]
  BY DEF List!RemoveOwn, List!At, ListInv, ListType
<1>2. op'[t] = [at |-> "lock", node |-> n] /\ Alone(t) /\ op' \in [Threads -> Ops]
  <2>1. [at |-> "lock", node |-> n] \in Ops
    BY DEF Ops, LoneOp
  <2> QED
    BY <2>1, OneMoves DEF List!RemoveOwn, Alone, ListInv
<1>3. UNCHANGED <<owned, first, pred, next, lock, guard, hand, order, late>>
  BY DEF List!RemoveOwn
<1>4. ListType'
  BY <1>2, <1>3 DEF ListInv, ListType
<1>5. n \in InList
  BY <1>1 DEF ListInv, OwnerInv, HasOut
<1>6. \A u \in Threads \ {t} : HasNode(u) => op[u].node # n
  BY <1>1 DEF ListInv, OwnerInv
<1>7. PlaceInv' /\ OwnerInv' /\ LockInv' /\ EndsInv' /\ EdgeInv' /\ UnlinkInv'
  BY <1>1, <1>2, <1>3, <1>5, <1>6, RemovalStarts
<1> QED
  BY <1>1, <1>3, <1>4, <1>7 DEF ListInv, PopInv

\* What a thread that removes a node finds there.
LEMMA NextIs ==
  ASSUME ListInv, NEW t \in Threads, Removes(t)
  PROVE  /\ op[t].node \in InList /\ ~Linking(op[t].node)
         /\ next[op[t].node] = Older[op[t].node] /\ next[op[t].node] \in Links
<1>1. op[t].node \in InList /\ ~Enters(t) /\ op[t].at # "linkNext"
  BY DEF ListInv, PlaceInv, Removes, Enters, Unlinks
<1>2. ~Linking(op[t].node) /\ ~Joining(op[t].node)
  BY <1>1 DEF ListInv, PlaceInv, Linking, Joining, HasNode, Enters
<1> QED
  BY <1>1, <1>2, ChainIs DEF ListInv, EdgeInv, Links

LEMMA PredIs ==
  ASSUME ListInv, NEW t \in Threads, Removes(t), HoldsNode(t), pred[op[t].node] # Nil
  PROVE  pred[op[t].node] \in InList /\ Older[pred[op[t].node]] = op[t].node
<1> DEFINE n == op[t].node
<1>1. n \in InList /\ n \in Links /\ n # Newest
  BY NextIs, ChainIs DEF ListInv, EndsInv, Links
<1>2. PICK a \in InList : Older[a] = n
  BY <1>1, ChainIs DEF ListInv
<1>3. ~Unlinking(a)
  <2> SUFFICES ASSUME NEW u \in Threads, Unlinks(u), op[u].node = a PROVE FALSE
    BY DEF Unlinking
  <2>1. HoldsNext(u) /\ op[u].nx = n
    BY <1>2 DEF ListInv, UnlinkInv, UnlinkOf, HoldsNext
  <2>2. Holds(u, n) /\ Holds(t, n)
    BY <2>1 DEF Holds
  <2>3. u = t
    BY <1>1, <2>2 DEF ListInv, LockInv
  <2> QED
    BY <1>2, <2>3, ChainIs DEF ListInv
<1>4. pred[n] = a
  BY <1>2, <1>3 DEF ListInv, EdgeInv
<1> QED
  BY <1>2, <1>4

LEMMA LockNodeKept ==
  ASSUME ListInv, NEW t \in Threads, owned' = owned, List!LockNode(t)
  PROVE  ListInv'
<1> DEFINE o == [op[t] EXCEPT !.at = "readNext"]  n == op[t].node
<1>1. op[t].at = "lock" /\ op[t] \in LoneOp /\ n \in Nodes /\ n \in Links /\ lock[n] = FALSE
  BY OpIs DEF ListInv, ListType, List!LockNode, List!At, LoneOp, Links
<1>2. o \in LoneOp /\ o.at = "readNext" /\ o.node = n
  BY <1>1 DEF LoneOp
<1>3. op'[t] = o /\ Alone(t) /\ op' \in [Threads -> Ops]
  BY <1>2, OneMoves DEF List!LockNode, Ops, Alone, ListInv
<1>4. /\ lock' = [lock EXCEPT ![n] = TRUE] /\ List!Touch(t, n)
      /\ UNCHANGED <<owned, first, pred, next, guard, hand, order>>
  BY DEF List!LockNode
<1>5. ListType'
  BY <1>1, <1>3, <1>4 DEF ListInv, ListType, List!Touch
<1>6. op'[t].at = "readNext" /\ op'[t].node = n
  BY <1>2, <1>3
<1>7. /\ ~Enters(t) /\ Removes(t) /\ ~HasOut(t) /\ ~Unlinks(t) /\ Pops(t) /\ ~HoldsNode(t) /\ ~HoldsNext(t)
      /\ ~Enters(t)' /\ Removes(t)' /\ ~HasOut(t)' /\ ~Unlinks(t)' /\ Pops(t)' /\ HoldsNode(t)' /\ ~HoldsNext(t)'
  BY <1>1, <1>6 DEF Enters, Removes, HasOut, Unlinks, Pops, HoldsNode, HoldsNext
<1>8. PlaceInv' /\ OwnerInv' /\ EndsInv' /\ EdgeInv'
  BY <1>3, <1>4, <1>6, <1>7, ListStays
<1>9. LockInv'
  <2>1. \A x \in Links : Holds(t, x)' <=> Holds(t, x) \/ x = n
    BY <1>6, <1>7 DEF Holds
  <2> QED
    BY <1>1, <1>3, <1>4, <1>7, <2>1, LockTaken DEF ListInv, ListType
<1>10. UnlinkInv'
  <2>1. UnlinkOf(t)'
    BY <1>6, <1>7 DEF UnlinkOf
  <2> QED
    BY <1>3, <1>4, <2>1, UnlinksStay DEF ListInv
<1>11. PopInv'
  <2>1. owned = FALSE => late' = FALSE
    BY <1>4, <1>7, NextIs, TouchedInTime
  <2>2. ~(op'[t].at = "lockNext" \/ HoldsNext(t)')
    BY <1>6, <1>7
  <2> QED
    BY <1>3, <1>4, <1>6, <1>7, <2>1, <2>2, PopStays DEF ListInv
<1> QED
  BY <1>5, <1>8, <1>9, <1>10, <1>11 DEF ListInv

LEMMA ReadNextKept ==
  ASSUME ListInv, NEW t \in Threads, owned' = owned, List!ReadNext(t)
  PROVE  ListInv'
<1> DEFINE n == op[t].node  m == next[op[t].node]
<1>1. op[t].at = "readNext" /\ Removes(t) /\ n \in Nodes
  BY OpIs DEF ListInv, List!ReadNext, List!At, Removes, HasNode
<1>2. n \in InList /\ m = Older[n] /\ m \in Links
  BY <1>1, NextIs
<1>3. op'[t] = [at |-> "lockNext", node |-> n, nx |-> m] /\ Alone(t) /\ op' \in [Threads -> Ops]
  <2>1. [at |-> "lockNext", node |-> n, nx |-> m] \in Ops
    BY <1>1, <1>2 DEF Ops, PairOp
  <2> QED
    BY <2>1, OneMoves DEF List!ReadNext, Alone, ListInv
<1>4. UNCHANGED <<owned, first, pred, next, lock, guard, hand, order, late>>
  BY DEF List!ReadNext
<1>5. ListType'
  BY <1>3, <1>4 DEF ListInv, ListType
<1>6. op'[t].at = "lockNext" /\ op'[t].node = n /\ op'[t].nx = m
  BY <1>3
<1>7. /\ ~Enters(t) /\ ~HasOut(t) /\ ~Unlinks(t) /\ Pops(t) /\ HoldsNode(t) /\ ~HoldsNext(t)
      /\ ~Enters(t)' /\ Removes(t)' /\ ~HasOut(t)' /\ ~Unlinks(t)' /\ Pops(t)' /\ HoldsNode(t)' /\ ~HoldsNext(t)'
  BY <1>1, <1>6 DEF Enters, Removes, HasOut, Unlinks, Pops, HoldsNode, HoldsNext
<1>8. PlaceInv' /\ OwnerInv' /\ EndsInv' /\ EdgeInv'
  BY <1>1, <1>3, <1>4, <1>6, <1>7, ListStays
<1>9. LockInv'
  BY <1>3, <1>4, <1>6, <1>7, LocksStay DEF ListInv
<1>10. UnlinkInv'
  <2>1. UnlinkOf(t)'
    BY <1>6, <1>7 DEF UnlinkOf
  <2> QED
    BY <1>3, <1>4, <2>1, UnlinksStay DEF ListInv
<1>11. PopInv'
  <2>1. owned = FALSE => late' = FALSE /\ op'[t].nx = Sentinel
    BY <1>1, <1>2, <1>4, <1>6 DEF ListInv, PopInv
  <2> QED
    BY <1>1, <1>3, <1>4, <1>6, <1>7, <2>1, PopStays DEF ListInv
<1> QED
  BY <1>5, <1>8, <1>9, <1>10, <1>11 DEF ListInv

LEMMA LockNextKept ==
  ASSUME ListInv, NEW t \in Threads, owned' = owned, List!LockNext(t)
  PROVE  ListInv'
<1> DEFINE n == op[t].node  m == op[t].nx
<1>1. op[t].at = "lockNext" /\ op[t] \in PairOp /\ n \in Nodes /\ m \in Links /\ lock[m] \in BOOLEAN
  BY OpIs DEF ListInv, ListType, List!LockNext, List!At, PairOp, Links
<1>2. /\ List!Touch(t, m)
      /\ UNCHANGED <<owned, first, pred, next, guard, hand, order>>
  BY DEF List!LockNext
<1>3. /\ ~Enters(t) /\ Removes(t) /\ ~HasOut(t) /\ ~Unlinks(t) /\ Pops(t) /\ HoldsNode(t) /\ ~HoldsNext(t)
  BY <1>1 DEF Enters, Removes, HasOut, Unlinks, Pops, HoldsNode, HoldsNext
<1>4. owned = FALSE => late' = FALSE /\ m = Sentinel
  <2>1. owned = FALSE => m = Sentinel
    BY <1>1 DEF ListInv, PopInv
  <2> QED
    BY <1>2, <2>1, TouchedInTime
<1>5. late' \in BOOLEAN
  BY <1>2 DEF ListInv, ListType, List!Touch
<1>6. CASE lock[m] = TRUE
  <2> DEFINE o == [op[t] EXCEPT !.at = "readNext"]
  <2>1. o \in PairOp /\ o.at = "readNext" /\ o.node = n
    BY <1>1 DEF PairOp
  <2>2. op'[t] = o /\ Alone(t) /\ op' \in [Threads -> Ops] /\ lock' = lock
    BY <1>6, <2>1, OneMoves DEF List!LockNext, Ops, Alone, ListInv
  <2>3. op'[t].at = "readNext" /\ op'[t].node = n
    BY <2>1, <2>2
  <2>4. ListType'
    BY <1>2, <1>5, <2>2 DEF ListInv, ListType
  <2>5. /\ ~Enters(t)' /\ Removes(t)' /\ ~HasOut(t)' /\ ~Unlinks(t)' /\ Pops(t)' /\ HoldsNode(t)' /\ ~HoldsNext(t)'
    BY <2>3 DEF Enters, Removes, HasOut, Unlinks, Pops, HoldsNode, HoldsNext
  <2>6. PlaceInv' /\ OwnerInv' /\ EndsInv' /\ EdgeInv'
    BY <1>2, <1>3, <2>2, <2>3, <2>5, ListStays
  <2>7. LockInv'
    BY <1>3, <2>2, <2>3, <2>5, LocksStay DEF ListInv
  <2>8. UnlinkInv'
    <3>1. UnlinkOf(t)'
      BY <2>3, <2>5 DEF UnlinkOf
    <3> QED
      BY <1>2, <2>2, <3>1, UnlinksStay DEF ListInv
  <2>9. PopInv'
    <3>1. ~(op'[t].at = "lockNext" \/ HoldsNext(t)')
      BY <2>3, <2>5
    <3> QED
      BY <1>2, <1>3, <1>4, <2>2, <2>3, <2>5, <3>1, PopStays DEF ListInv
  <2> QED
    BY <2>4, <2>6, <2>7, <2>8, <2>9 DEF ListInv
<1>7. CASE lock[m] = FALSE
  <2> DEFINE o == [op[t] EXCEPT !.at = "readPred"]
  <2>1. o \in PairOp /\ o.at = "readPred" /\ o.node = n /\ o.nx = m
    BY <1>1 DEF PairOp
  <2>2. op'[t] = o /\ Alone(t) /\ op' \in [Threads -> Ops] /\ lock' = [lock EXCEPT ![m] = TRUE]
    BY <1>7, <2>1, OneMoves DEF List!LockNext, Ops, Alone, ListInv
  <2>3. op'[t].at = "readPred" /\ op'[t].node = n /\ op'[t].nx = m
    BY <2>1, <2>2
  <2>4. ListType'
    BY <1>1, <1>2, <1>5, <2>2 DEF ListInv, ListType
  <2>5. /\ ~Enters(t)' /\ Removes(t)' /\ ~HasOut(t)' /\ ~Unlinks(t)' /\ Pops(t)' /\ HoldsNode(t)' /\ HoldsNext(t)'
    BY <2>3 DEF Enters, Removes, HasOut, Unlinks, Pops, HoldsNode, HoldsNext
  <2>6. PlaceInv' /\ OwnerInv' /\ EndsInv' /\ EdgeInv'
    BY <1>2, <1>3, <2>2, <2>3, <2>5, ListStays
  <2>7. LockInv'
    <3>1. \A x \in Links : Holds(t, x)' <=> Holds(t, x) \/ x = m
      BY <1>3, <2>3, <2>5 DEF Holds
    <3>2. lock[n] = TRUE
      BY <1>1, <1>3 DEF ListInv, LockInv, Holds, Links
    <3>3. op'[t].node # op'[t].nx
      BY <1>7, <2>3, <3>2
    <3> QED
      BY <1>1, <1>7, <2>2, <3>1, <3>3, LockTaken DEF ListInv, ListType
  <2>8. UnlinkInv'
    <3>1. UnlinkOf(t)'
      BY <2>3, <2>5 DEF UnlinkOf
    <3> QED
      BY <1>2, <2>2, <3>1, UnlinksStay DEF ListInv
  <2>9. PopInv'
    BY <1>2, <1>3, <1>4, <2>2, <2>3, <2>5, PopStays DEF ListInv
  <2> QED
    BY <2>4, <2>6, <2>7, <2>8, <2>9 DEF ListInv
<1> QED
  BY <1>1, <1>6, <1>7

LEMMA ReadPredKept ==
  ASSUME ListInv, NEW t \in Threads, owned' = owned, List!ReadPred(t)
  PROVE  ListInv'
<1> DEFINE n == op[t].node  m == op[t].nx  p == pred[op[t].node]
           o == [at |-> "sameNext", node |-> n, nx |-> m, pd |-> p]
<1>1. /\ op[t].at = "readPred" /\ n \in Nodes /\ m \in Links /\ p \in Nodes \cup {Nil}
      /\ Removes(t) /\ HoldsNode(t) /\ HoldsNext(t)
  BY OpIs DEF ListInv, ListType, List!ReadPred, List!At, HasNode, Removes, HoldsNode, HoldsNext, Links
<1>2. o \in Ops
  BY <1>1 DEF Ops, UnlinkOp
<1>3. op'[t] = o /\ Alone(t) /\ op' \in [Threads -> Ops]
  BY <1>2, OneMoves DEF List!ReadPred, Alone, ListInv
<1>4. UNCHANGED <<owned, first, pred, next, lock, guard, hand, order, late>>
  BY DEF List!ReadPred
<1>5. ListType'
  BY <1>3, <1>4 DEF ListInv, ListType
<1>6. op'[t].at = "sameNext" /\ op'[t].node = n /\ op'[t].nx = m /\ op'[t].pd = p
  BY <1>3
<1>7. /\ ~Enters(t) /\ ~HasOut(t) /\ ~Unlinks(t) /\ Pops(t)
      /\ ~Enters(t)' /\ Removes(t)' /\ ~HasOut(t)' /\ ~Unlinks(t)' /\ Pops(t)' /\ HoldsNode(t)' /\ HoldsNext(t)'
  BY <1>1, <1>6 DEF Enters, Removes, HasOut, Unlinks, Pops, HoldsNode, HoldsNext
<1>8. PlaceInv' /\ OwnerInv' /\ EndsInv' /\ EdgeInv'
  BY <1>1, <1>3, <1>4, <1>6, <1>7, ListStays
<1>9. LockInv'
  BY <1>1, <1>3, <1>4, <1>6, <1>7, LocksStay DEF ListInv
<1>10. UnlinkInv'
  <2>1. p # Nil => p \in InList /\ Older[p] = n
    BY <1>1, PredIs
  <2>2. UnlinkOf(t)'
    BY <1>4, <1>6, <1>7, <2>1, ChainSame DEF UnlinkOf
  <2> QED
    BY <1>3, <1>4, <2>2, UnlinksStay DEF ListInv
<1>11. PopInv'
  <2>1. owned = FALSE => late' = FALSE /\ op'[t].nx = Sentinel
    BY <1>1, <1>4, <1>6 DEF ListInv, PopInv
  <2> QED
    BY <1>1, <1>3, <1>4, <1>6, <1>7, <2>1, PopStays DEF ListInv
<1> QED
  BY <1>5, <1>8, <1>9, <1>10, <1>11 DEF ListInv

LEMMA SameNextKept ==
  ASSUME ListInv, NEW t \in Threads, owned' = owned, List!SameNext(t)
  PROVE  ListInv'
<1> DEFINE n == op[t].node  m == op[t].nx  p == op[t].pd
<1>1. /\ op[t].at = "sameNext" /\ op[t] \in UnlinkOp /\ n \in Nodes /\ m \in Links
      /\ p \in Nodes \cup {Nil}
  BY OpIs DEF ListInv, List!SameNext, List!At, UnlinkOp, Links
<1>2. UNCHANGED <<owned, first, pred, next, guard, hand, order>>
  BY DEF List!SameNext
<1>3. /\ ~Enters(t) /\ Removes(t) /\ ~HasOut(t) /\ ~Unlinks(t) /\ Pops(t) /\ HoldsNode(t) /\ HoldsNext(t)
  BY <1>1 DEF Enters, Removes, HasOut, Unlinks, Pops, HoldsNode, HoldsNext
<1>4. owned = FALSE => m = Sentinel
  BY <1>3 DEF ListInv, PopInv
<1>5. CASE next[n] = m
  <2> DEFINE o == [op[t] EXCEPT !.at = "unlinkPred"]
  <2>1. o \in UnlinkOp /\ o.at = "unlinkPred" /\ o.node = n /\ o.nx = m /\ o.pd = p
    BY <1>1 DEF UnlinkOp
  <2>2. op'[t] = o /\ Alone(t) /\ op' \in [Threads -> Ops] /\ lock' = lock /\ late' = late
    BY <1>5, <2>1, OneMoves DEF List!SameNext, Ops, Alone, ListInv
  <2>3. op'[t].at = "unlinkPred" /\ op'[t].node = n /\ op'[t].nx = m /\ op'[t].pd = p
    BY <2>1, <2>2
  <2>4. ListType'
    BY <1>2, <2>2 DEF ListInv, ListType
  <2>5. /\ ~Enters(t)' /\ Removes(t)' /\ ~HasOut(t)' /\ Unlinks(t)' /\ Pops(t)' /\ HoldsNode(t)' /\ HoldsNext(t)'
    BY <2>3 DEF Enters, Removes, HasOut, Unlinks, Pops, HoldsNode, HoldsNext
  <2>6. PlaceInv' /\ OwnerInv' /\ EndsInv' /\ EdgeInv'
    BY <1>2, <1>3, <2>2, <2>3, <2>5, ListStays
  <2>7. LockInv'
    BY <1>3, <2>2, <2>3, <2>5, LocksStay DEF ListInv
  <2>8. UnlinkInv'
    <3>1. n \in InList /\ m = Older[n] /\ ~Linking(n)
      BY <1>3, <1>5, NextIs
    <3>2. ~Unlinking(n)
      BY <1>3 DEF ListInv, PlaceInv, Unlinking, HasNode, Removes
    <3>3. pred[m] = n
      BY <3>1, <3>2 DEF ListInv, EdgeInv
    <3>4. p # Nil => p \in InList /\ Older[p] = n /\ pred[n] = p
      BY <1>1 DEF ListInv, UnlinkInv, UnlinkOf
    <3>5. UnlinkOf(t)'
      BY <1>2, <2>3, <3>1, <3>3, <3>4, ChainSame DEF UnlinkOf
    <3> QED
      BY <1>2, <2>2, <3>5, UnlinksStay DEF ListInv
  <2>9. PopInv'
    <3>1. owned = FALSE => late' = FALSE
      BY <2>2 DEF ListInv, PopInv
    <3> QED
      BY <1>2, <1>3, <1>4, <2>2, <2>3, <2>5, <3>1, PopStays DEF ListInv
  <2> QED
    BY <2>4, <2>6, <2>7, <2>8, <2>9 DEF ListInv
<1>6. CASE next[n] # m
  <2> DEFINE o == [op[t] EXCEPT !.at = "readNext"]
  <2>1. o \in UnlinkOp /\ o.at = "readNext" /\ o.node = n
    BY <1>1 DEF UnlinkOp
  <2>2. /\ op'[t] = o /\ Alone(t) /\ op' \in [Threads -> Ops]
        /\ lock' = [lock EXCEPT ![m] = FALSE] /\ List!Touch(t, m)
    BY <1>6, <2>1, OneMoves DEF List!SameNext, Ops, Alone, ListInv
  <2>3. op'[t].at = "readNext" /\ op'[t].node = n
    BY <2>1, <2>2
  <2>4. ListType'
    BY <1>1, <1>2, <2>2 DEF ListInv, ListType, List!Touch
  <2>5. /\ ~Enters(t)' /\ Removes(t)' /\ ~HasOut(t)' /\ ~Unlinks(t)' /\ Pops(t)' /\ HoldsNode(t)' /\ ~HoldsNext(t)'
    BY <2>3 DEF Enters, Removes, HasOut, Unlinks, Pops, HoldsNode, HoldsNext
  <2>6. PlaceInv' /\ OwnerInv' /\ EndsInv' /\ EdgeInv'
    BY <1>2, <1>3, <2>2, <2>3, <2>5, ListStays
  <2>7. LockInv'
    <3>1. n # m /\ Holds(t, m)
      BY <1>3 DEF ListInv, LockInv, Holds
    <3>2. \A x \in Links : Holds(t, x)' <=> Holds(t, x) /\ x # m
      BY <1>3, <2>3, <2>5, <3>1 DEF Holds
    <3> QED
      BY <1>1, <2>2, <2>5, <3>1, <3>2, LockFreed DEF ListInv, ListType
  <2>8. UnlinkInv'
    <3>1. UnlinkOf(t)'
      BY <2>3, <2>5 DEF UnlinkOf
    <3> QED
      BY <1>2, <2>2, <3>1, UnlinksStay DEF ListInv
  <2>9. PopInv'
    <3>1. owned = FALSE => late' = FALSE
      BY <1>4, <2>2, TouchedInTime
    <3>2. ~(op'[t].at = "lockNext" \/ HoldsNext(t)')
      BY <2>3, <2>5
    <3> QED
      BY <1>2, <1>3, <2>2, <2>3, <2>5, <3>1, <3>2, PopStays DEF ListInv
  <2> QED
    BY <2>4, <2>6, <2>7, <2>8, <2>9 DEF ListInv
<1> QED
  BY <1>5, <1>6

LEMMA AwaitPredKept ==
  ASSUME ListInv, NEW t \in Threads, owned' = owned, List!AwaitPred(t)
  PROVE  ListInv'
<1> DEFINE n == op[t].node  m == op[t].nx  p == pred[op[t].node]
           o == [op[t] EXCEPT !.at = "unlinkPred", !.pd = p]
<1>1. /\ op[t].at = "awaitPred" /\ op[t] \in UnlinkOp /\ n \in Nodes /\ m \in Links
      /\ p \in Nodes \cup {Nil} /\ p # Nil
  BY OpIs DEF ListInv, ListType, List!AwaitPred, List!At, UnlinkOp, Links
<1>2. /\ ~Enters(t) /\ Removes(t) /\ ~HasOut(t) /\ Unlinks(t) /\ Pops(t) /\ HoldsNode(t) /\ HoldsNext(t)
  BY <1>1 DEF Enters, Removes, HasOut, Unlinks, Pops, HoldsNode, HoldsNext
<1>3. o \in UnlinkOp /\ o.at = "unlinkPred" /\ o.node = n /\ o.nx = m /\ o.pd = p
  BY <1>1 DEF UnlinkOp
<1>4. op'[t] = o /\ Alone(t) /\ op' \in [Threads -> Ops]
  BY <1>3, OneMoves DEF List!AwaitPred, Ops, Alone, ListInv
<1>5. UNCHANGED <<owned, first, pred, next, lock, guard, hand, order, late>>
  BY DEF List!AwaitPred
<1>6. ListType'
  BY <1>4, <1>5 DEF ListInv, ListType
<1>7. op'[t].at = "unlinkPred" /\ op'[t].node = n /\ op'[t].nx = m /\ op'[t].pd = p
  BY <1>3, <1>4
<1>8. /\ ~Enters(t)' /\ Removes(t)' /\ ~HasOut(t)' /\ Unlinks(t)' /\ Pops(t)' /\ HoldsNode(t)' /\ HoldsNext(t)'
  BY <1>7 DEF Enters, Removes, HasOut, Unlinks, Pops, HoldsNode, HoldsNext
<1>9. PlaceInv' /\ OwnerInv' /\ EndsInv' /\ EdgeInv'
  BY <1>2, <1>4, <1>5, <1>7, <1>8, ListStays
<1>10. LockInv'
  BY <1>2, <1>4, <1>5, <1>7, <1>8, LocksStay DEF ListInv
<1>11. UnlinkInv'
  <2>1. p \in InList /\ Older[p] = n
    BY <1>1, <1>2, PredIs
  <2>2. m = Older[n] /\ pred[m] = Nil
    BY <1>1, <1>2 DEF ListInv, UnlinkInv, UnlinkOf
  <2>3. UnlinkOf(t)'
    BY <1>5, <1>7, <2>1, <2>2, ChainSame DEF UnlinkOf
  <2> QED
    BY <1>4, <1>5, <2>3, UnlinksStay DEF ListInv
<1>12. PopInv'
  <2>1. owned = FALSE => late' = FALSE /\ op'[t].nx = Sentinel
    BY <1>2, <1>5, <1>7 DEF ListInv, PopInv
  <2> QED
    BY <1>2, <1>4, <1>5, <1>7, <1>8, <2>1, PopStays DEF ListInv
<1> QED
  BY <1>6, <1>9, <1>10, <1>11, <1>12 DEF ListInv

LEMMA UnlockKept ==
  ASSUME ListInv, NEW t \in Threads, owned' = owned, List!Unlock(t)
  PROVE  ListInv'
<1> DEFINE n == op[t].node  m == op[t].nx  o == [at |-> "unlockNode", node |-> n]
<1>1. op[t].at = "unlock" /\ op[t] \in UnlinkOp /\ n \in Nodes /\ m \in Links
  BY OpIs DEF ListInv, List!Unlock, List!At, UnlinkOp, Links
<1>2. /\ ~Enters(t) /\ ~Removes(t) /\ HasOut(t) /\ ~Unlinks(t) /\ Pops(t) /\ HoldsNode(t) /\ HoldsNext(t)
  BY <1>1 DEF Enters, Removes, HasOut, Unlinks, Pops, HoldsNode, HoldsNext
<1>3. o \in Ops
  BY <1>1 DEF Ops, LoneOp
<1>4. op'[t] = o /\ Alone(t) /\ op' \in [Threads -> Ops]
  BY <1>3, OneMoves DEF List!Unlock, Alone, ListInv
<1>5. /\ lock' = [lock EXCEPT ![m] = FALSE] /\ List!Touch(t, m)
      /\ UNCHANGED <<owned, first, pred, next, guard, hand, order>>
  BY DEF List!Unlock
<1>6. ListType'
  BY <1>1, <1>4, <1>5 DEF ListInv, ListType, List!Touch
<1>7. op'[t].at = "unlockNode" /\ op'[t].node = n
  BY <1>4
<1>8. /\ ~Enters(t)' /\ ~Removes(t)' /\ HasOut(t)' /\ ~Unlinks(t)' /\ Pops(t)' /\ HoldsNode(t)' /\ ~HoldsNext(t)'
  BY <1>7 DEF Enters, Removes, HasOut, Unlinks, Pops, HoldsNode, HoldsNext
<1>9. PlaceInv' /\ OwnerInv' /\ EndsInv' /\ EdgeInv'
  BY <1>2, <1>4, <1>5, <1>7, <1>8, ListStays
<1>10. LockInv'
  <2>1. n # m /\ Holds(t, m)
    BY <1>2 DEF ListInv, LockInv, Holds
  <2>2. \A x \in Links : Holds(t, x)' <=> Holds(t, x) /\ x # m
    BY <1>2, <1>7, <1>8, <2>1 DEF Holds
  <2> QED
    BY <1>1, <1>4, <1>5, <1>8, <2>1, <2>2, LockFreed DEF ListInv, ListType
<1>11. UnlinkInv'
  <2>1. UnlinkOf(t)'
    BY <1>7, <1>8 DEF UnlinkOf
  <2> QED
    BY <1>4, <1>5, <2>1, UnlinksStay DEF ListInv
<1>12. PopInv'
  <2>1. owned = FALSE => late' = FALSE
    <3>1. owned = FALSE => m = Sentinel
      BY <1>2 DEF ListInv, PopInv
    <3> QED
      BY <1>5, <3>1, TouchedInTime
  <2>2. ~(op'[t].at = "lockNext" \/ HoldsNext(t)')
    BY <1>7, <1>8
  <2> QED
    BY <1>2, <1>4, <1>5, <1>8, <2>1, <2>2, PopStays DEF ListInv
<1> QED
  BY <1>6, <1>9, <1>10, <1>11, <1>12 DEF ListInv

LEMMA UnlockNodeKept ==
  ASSUME ListInv, NEW t \in Threads, owned' = owned, List!UnlockNode(t)
  PROVE  ListInv'
<1> DEFINE n == op[t].node  o == [op[t] EXCEPT !.at = "clear"]
<1>1. op[t].at = "unlockNode" /\ op[t] \in LoneOp /\ n \in Nodes /\ n \in Links
  BY OpIs DEF ListInv, List!UnlockNode, List!At, LoneOp, Links
<1>2. /\ ~Enters(t) /\ ~Removes(t) /\ HasOut(t) /\ ~Unlinks(t) /\ Pops(t) /\ HoldsNode(t) /\ ~HoldsNext(t)
  BY <1>1 DEF Enters, Removes, HasOut, Unlinks, Pops, HoldsNode, HoldsNext
<1>3. o \in LoneOp /\ o.at = "clear" /\ o.node = n
  BY <1>1 DEF LoneOp
<1>4. op'[t] = o /\ Alone(t) /\ op' \in [Threads -> Ops]
  BY <1>3, OneMoves DEF List!UnlockNode, Ops, Alone, ListInv
<1>5. /\ lock' = [lock EXCEPT ![n] = FALSE]
      /\ UNCHANGED <<owned, first, pred, next, guard, hand, order, late>>
  BY DEF List!UnlockNode
<1>6. ListType'
  BY <1>1, <1>4, <1>5 DEF ListInv, ListType
<1>7. op'[t].at = "clear" /\ op'[t].node = n
  BY <1>3, <1>4
<1>8. /\ ~Enters(t)' /\ ~Removes(t)' /\ HasOut(t)' /\ ~Unlinks(t)' /\ Pops(t)' /\ ~HoldsNode(t)' /\ ~HoldsNext(t)'
  BY <1>7 DEF Enters, Removes, HasOut, Unlinks, Pops, HoldsNode, HoldsNext
<1>9. PlaceInv' /\ OwnerInv' /\ EndsInv' /\ EdgeInv'
  BY <1>2, <1>4, <1>5, <1>7, <1>8, ListStays
<1>10. LockInv'
  <2>1. \A x \in Links : (Holds(t, x) <=> x = n) /\ ~Holds(t, x)'
    BY <1>2, <1>8 DEF Holds
  <2> QED
    BY <1>1, <1>4, <1>5, <1>8, <2>1, LockFreed DEF ListInv, ListType
<1>11. UnlinkInv'
  <2>1. UnlinkOf(t)'
    BY <1>7, <1>8 DEF UnlinkOf
  <2> QED
    BY <1>4, <1>5, <2>1, UnlinksStay DEF ListInv
<1>12. PopInv'
  <2>1. owned = FALSE => late' = FALSE
    BY <1>5 DEF ListInv, PopInv
  <2>2. ~(op'[t].at = "lockNext" \/ HoldsNext(t)')
    BY <1>7, <1>8
  <2> QED
    BY <1>2, <1>4, <1>5, <1>8, <2>1, <2>2, PopStays DEF ListInv
<1> QED
  BY <1>6, <1>9, <1>10, <1>11, <1>12 DEF ListInv

LEMMA UnlinkPredKept ==
  ASSUME ListInv, NEW t \in Threads, owned' = owned, List!UnlinkPred(t)
  PROVE  ListInv'
<1> DEFINE n == op[t].node  m == op[t].nx  p == op[t].pd  o == [op[t] EXCEPT !.at = "unlinkNext"]
<1>1. /\ op[t].at = "unlinkPred" /\ op[t] \in UnlinkOp /\ n \in Nodes /\ m \in Links
      /\ p \in Nodes \cup {Nil}
  BY OpIs DEF ListInv, List!UnlinkPred, List!At, UnlinkOp, Links
<1>2. /\ ~Enters(t) /\ Removes(t) /\ ~HasOut(t) /\ Unlinks(t) /\ Pops(t) /\ HoldsNode(t) /\ HoldsNext(t) /\ HasNode(t)
  BY <1>1 DEF Enters, Removes, HasOut, Unlinks, Pops, HoldsNode, HoldsNext, HasNode
<1>3. o \in UnlinkOp /\ o.at = "unlinkNext" /\ o.node = n /\ o.nx = m /\ o.pd = p
  BY <1>1 DEF UnlinkOp
<1>4. op'[t] = o /\ Alone(t) /\ op' \in [Threads -> Ops]
  BY <1>3, OneMoves DEF List!UnlinkPred, Ops, Alone, ListInv
<1>5. /\ pred' = [pred EXCEPT ![m] = p] /\ List!Touch(t, m)
      /\ UNCHANGED <<owned, first, next, lock, guard, hand, order>>
  BY DEF List!UnlinkPred
<1>6. ListType'
  BY <1>1, <1>4, <1>5 DEF ListInv, ListType, List!Touch
<1>7. op'[t].at = "unlinkNext" /\ op'[t].node = n /\ op'[t].nx = m /\ op'[t].pd = p
  BY <1>3, <1>4
<1>8. /\ ~Enters(t)' /\ Removes(t)' /\ ~HasOut(t)' /\ Unlinks(t)' /\ Pops(t)' /\ HoldsNode(t)' /\ HoldsNext(t)' /\ HasNode(t)'
  BY <1>7 DEF Enters, Removes, HasOut, Unlinks, Pops, HoldsNode, HoldsNext, HasNode
<1>9. InList' = InList /\ Older' = Older /\ Newest' = Newest
  BY <1>5, ChainSame
<1>10. /\ n \in InList /\ m = Older[n] /\ m \in InList \cup {Sentinel} /\ m # n /\ m # Newest
       /\ ~Linking(n)
  <2>1. n \in InList /\ m = Older[n] /\ ~Linking(n)
    BY <1>2, NextIs DEF ListInv, UnlinkInv, UnlinkOf
  <2> QED
    BY <2>1, ChainIs DEF ListInv
<1>11. \A x \in InList \cup {Sentinel} : x \in Links /\ pred'[x] = IF x = m THEN p ELSE pred[x]
  BY <1>1, <1>5, ChainIs DEF ListInv, ListType, Links
<1>12. \A u \in Threads : u = t \/ op'[u] = op[u]
  BY <1>4 DEF Alone
<1>13. \A u \in Threads : /\ (Enters(u)' <=> Enters(u)) /\ (Removes(u)' <=> Removes(u))
                          /\ (HasOut(u)' <=> HasOut(u)) /\ (HasNode(u)' <=> HasNode(u))
                          /\ (Unlinks(u)' <=> Unlinks(u)) /\ (Pops(u)' <=> Pops(u))
                          /\ HasNode(u) => op'[u].node = op[u].node
                          /\ Enters(u) => op'[u] = op[u]
  BY <1>2, <1>7, <1>8, <1>12 DEF Enters, Removes, HasOut, HasNode, Unlinks, Pops
<1>14. PlaceInv'
  BY <1>5, <1>9, <1>13 DEF ListInv, PlaceInv, HasNode
<1>15. OwnerInv'
  <2>1. \A u \in Threads : op[u].at # "back" => op'[u].at # "back"
    BY <1>7, <1>12
  <2> QED
    BY <1>5, <1>9, <1>13, <2>1 DEF ListInv, OwnerInv, HasNode
<1>16. LockInv'
  BY <1>2, <1>4, <1>5, <1>7, <1>8, LocksStay DEF ListInv
<1>17. PopInv'
  <2>1. owned = FALSE => late' = FALSE
    BY <1>5, <1>10, TouchedInTime
  <2>2. owned = FALSE => op'[t].nx = Sentinel
    BY <1>2, <1>7 DEF ListInv, PopInv
  <2> QED
    BY <1>2, <1>4, <1>5, <1>7, <1>8, <2>1, <2>2, PopStays DEF ListInv
<1>18. EndsInv'
  <2>1. first' = Newest' /\ pred'[Newest'] = Nil
    BY <1>5, <1>9, <1>10, <1>11, ChainIs DEF ListInv, EndsInv
  <2>2. \A u \in Threads : \A x \in hand[u] : pred'[x] = Nil
    BY <1>1, <1>5, <1>10, ListConstants DEF ListInv, ListType, EndsInv, PlaceInv, Links
  <2>3. \A u \in Threads : Enters(u)' => op'[u].nx = Older[op'[u].node]
    BY <1>13 DEF ListInv, EndsInv
  <2> QED
    BY <1>5, <1>9, <2>1, <2>2, <2>3 DEF EndsInv
<1>19. EdgeInv'
  <2>1. ASSUME NEW x \in InList, x # n PROVE Older[x] # m /\ Older[x] \in InList \cup {Sentinel}
    BY <1>10, <2>1, ChainIs DEF ListInv
  <2>2. \A x : /\ Joining(x) => Joining(x)'
               /\ Linking(x)' <=> Linking(x)
               /\ Unlinking(x)' <=> Unlinking(x)
    BY <1>13 DEF Joining, Linking, Unlinking, Enters, HasNode, Removes
  <2>3. Unlinking(n)
    BY <1>2 DEF Unlinking
  <2> HIDE DEF n
  <2> QED
    BY <1>5, <1>9, <1>10, <1>11, <2>1, <2>2, <2>3 DEF ListInv, EdgeInv
<1>20. UnlinkInv'
  <2>1. UnlinkOf(t)'
    <3>1. p # Nil => p \in InList /\ Older[p] = n /\ pred'[n] = p
      BY <1>1, <1>2, <1>10, <1>11 DEF ListInv, UnlinkInv, UnlinkOf
    <3>2. pred'[m] = p
      BY <1>10, <1>11
    <3> QED
      BY <1>7, <1>9, <1>10, <3>1, <3>2 DEF UnlinkOf
  <2>2. ASSUME NEW u \in Threads \ {t} PROVE UnlinkOf(u)'
    <3>1. UnlinkOf(u) /\ (Unlinks(u)' <=> Unlinks(u)) /\ op'[u] = op[u]
      BY <1>12, <1>13 DEF ListInv, UnlinkInv
    \* Whoever else is as far holds its node and the next, and t holds m.
    <3>2. Holds(t, m) /\ \A x \in Links : Holds(t, x) /\ Holds(u, x) => FALSE
      BY <1>2 DEF ListInv, LockInv, Holds
    <3>3. (op[u].at = "sameNext" \/ Unlinks(u)) => op[u].node \in InList /\ op[u].node # m
      BY <1>1, <3>2 DEF ListInv, PlaceInv, Removes, Holds, HoldsNode, HoldsNext
    <3>4. Unlinks(u) => op[u].nx \in InList \cup {Sentinel} /\ op[u].nx # m
      BY <1>1, <3>1, <3>2, <3>3, ChainIs DEF ListInv, UnlinkOf, Holds, HoldsNext
    <3>5. op[u].at \in {"unlinkPred", "unlinkNext", "awaitPred"} => Unlinks(u)
      BY DEF Unlinks
    <3>6. /\ (op[u].at = "sameNext" \/ Unlinks(u)) => pred'[op[u].node] = pred[op[u].node]
          /\ Unlinks(u) => pred'[op[u].nx] = pred[op[u].nx]
      BY <1>11, <3>3, <3>4
    <3> QED
      BY <1>9, <3>1, <3>5, <3>6 DEF UnlinkOf
  <2> QED
    BY <2>1, <2>2 DEF UnlinkInv
<1> QED
  BY <1>6, <1>14, <1>15, <1>16, <1>17, <1>18, <1>19, <1>20 DEF ListInv

LEMMA ClearKept ==
  ASSUME ListInv, NEW t \in Threads, owned' = owned, List!Clear(t)
  PROVE  ListInv'
<1> DEFINE n == op[t].node
<1>1. op[t].at = "clear" /\ n \in Nodes /\ HasOut(t) /\ HasNode(t) /\ n \notin InList
  BY OpIs DEF ListInv, PlaceInv, List!Clear, List!At, HasOut, HasNode
<1>2. op'[t] = [at |-> "idle"] /\ Alone(t) /\ op' \in [Threads -> Ops]
  BY OneMoves DEF List!Clear, Ops, Alone, ListInv, List!Resting
<1>3. /\ pred' = [pred EXCEPT ![n] = Nil] /\ next' = [next EXCEPT ![n] = Nil]
      /\ hand' = [hand EXCEPT ![t] = @ \cup {n}] /\ guard' = FALSE
      /\ UNCHANGED <<owned, first, lock, order, late>>
  BY DEF List!Clear
<1>4. \A u \in Threads : \A x : x \in hand'[u] <=> x \in hand[u] \/ (u = t /\ x = n)
  <2>1. \A u \in Threads : hand'[u] = IF u = t THEN hand[u] \cup {n} ELSE hand[u]
    BY <1>3 DEF ListInv, ListType
  <2> HIDE DEF n
  <2> QED
    BY <2>1
<1>5. ListType'
  <2>1. hand' \in [Threads -> SUBSET Nodes]
    BY <1>1, <1>3 DEF ListInv, ListType
  <2> QED
    BY <1>1, <1>2, <1>3, <2>1 DEF ListInv, ListType, Links
<1>6. InList' = InList /\ Older' = Older /\ Newest' = Newest
  BY <1>3, ChainSame
<1>7. /\ \A u \in Threads \ {t} : op'[u] = op[u]
      /\ ~Enters(t)' /\ ~Removes(t)' /\ ~HasOut(t)' /\ ~HasNode(t)' /\ ~Unlinks(t)'
      /\ ~Pops(t)' /\ ~HoldsNode(t)' /\ ~HoldsNext(t)'
      /\ Pops(t) /\ ~HoldsNode(t) /\ ~HoldsNext(t) /\ ~Removes(t) /\ ~Unlinks(t) /\ ~Enters(t)
  BY <1>1, <1>2 DEF Alone, Enters, Removes, HasOut, HasNode, Unlinks, Pops, HoldsNode, HoldsNext
<1>8. \A u \in Threads \ {t} : /\ (Enters(u)' <=> Enters(u)) /\ (Removes(u)' <=> Removes(u))
                               /\ (HasOut(u)' <=> HasOut(u)) /\ (HasNode(u)' <=> HasNode(u))
                               /\ (Unlinks(u)' <=> Unlinks(u)) /\ (Pops(u)' <=> Pops(u))
                               /\ (HoldsNext(u)' <=> HoldsNext(u))
  BY <1>7 DEF Enters, Removes, HasOut, HasNode, Unlinks, Pops, HoldsNext
<1>9. /\ n # Sentinel
      /\ \A x \in InList \cup {Sentinel} : pred'[x] = pred[x] /\ next'[x] = next[x]
  BY <1>1, <1>3, ListConstants, ChainIs DEF ListInv, ListType, Links
<1>10. (\A u \in Threads : n \notin hand[u]) /\ \A u \in Threads : HasNode(u) /\ op[u].node = n => u = t
  BY <1>1 DEF ListInv, PlaceInv
<1>11. PlaceInv'
  <2>1. \A u \in Threads : Enters(u)' \/ Removes(u)' => op'[u].node \in InList'
    BY <1>6, <1>7, <1>8 DEF ListInv, PlaceInv
  <2>2. \A u \in Threads : HasOut(u)' => op'[u].node \notin InList'
    BY <1>6, <1>7, <1>8 DEF ListInv, PlaceInv
  <2>3. \A u \in Threads : \A x \in hand'[u] : x \notin InList'
    BY <1>1, <1>4, <1>6 DEF ListInv, PlaceInv
  <2>4. \A u, v \in Threads : HasNode(u)' => op'[u].node \notin hand'[v]
    <3> SUFFICES ASSUME NEW u \in Threads, NEW v \in Threads, HasNode(u)', op'[u].node \in hand'[v]
                 PROVE FALSE
      OBVIOUS
    <3>1. u # t /\ HasNode(u) /\ op'[u] = op[u]
      BY <1>7, <1>8
    <3>2. op[u].node \notin hand[v] /\ op[u].node # n
      BY <1>10, <3>1 DEF ListInv, PlaceInv
    <3> QED
      BY <1>4, <3>1, <3>2
  <2>5. \A u, v \in Threads : \A x \in hand'[u] : x \in hand'[v] => u = v
    <3> HIDE DEF n
    <3> QED
      BY <1>4, <1>10 DEF ListInv, PlaceInv
  <2>6. \A u, v \in Threads : HasNode(u)' /\ HasNode(v)' /\ op'[u].node = op'[v].node => u = v
    BY <1>7, <1>8 DEF ListInv, PlaceInv
  <2> QED
    BY <2>1, <2>2, <2>3, <2>4, <2>5, <2>6 DEF PlaceInv
<1>12. OwnerInv'
  <2>1. \A u \in Threads : owned = TRUE => op'[u].at # "back"
    BY <1>2, <1>7 DEF ListInv, OwnerInv
  <2> QED
    BY <1>1, <1>3, <1>4, <1>6, <1>7, <1>8, <2>1 DEF ListInv, OwnerInv
<1>13. LockInv'
  BY <1>2, <1>3, <1>7, LocksStay DEF ListInv
<1>14. PopInv'
  <2> SUFFICES ASSUME owned = FALSE PROVE PopInv'
    BY <1>3 DEF PopInv
  <2>1. \A u \in Threads : ~Pops(u)'
    BY <1>7, <1>8 DEF ListInv, PopInv
  <2>2. \A u \in Threads : ~Removes(u)' /\ ~(op'[u].at = "lockNext" \/ HoldsNext(u)')
    BY <2>1 DEF Pops, Removes, Unlinks, HoldsNext
  <2> QED
    BY <1>3, <2>1, <2>2 DEF ListInv, PopInv
<1>15. EndsInv'
  <2>1. first' = Newest' /\ pred'[Newest'] = Nil
    BY <1>3, <1>6, <1>9, ChainIs DEF ListInv, EndsInv
  <2>2. \A u \in Threads : \A x \in hand'[u] : pred'[x] = Nil
    <3>1. \A u \in Threads : \A x \in hand[u] : x \in Nodes /\ pred[x] = Nil
      BY DEF ListInv, ListType, EndsInv
    <3>2. \A x \in Nodes : pred'[x] = IF x = n THEN Nil ELSE pred[x]
      BY <1>1, <1>3 DEF ListInv, ListType, Links
    <3> HIDE DEF n
    <3> QED
      BY <1>1, <1>4, <3>1, <3>2
  <2>3. \A u \in Threads : Enters(u)' => op'[u].nx = Older[op'[u].node]
    BY <1>7, <1>8 DEF ListInv, EndsInv
  <2> QED
    BY <1>6, <2>1, <2>2, <2>3 DEF EndsInv
<1>16. EdgeInv'
  <2>1. \A x \in InList : Older[x] \in InList \cup {Sentinel}
    BY ChainIs DEF ListInv
  <2>2. \A x : /\ Joining(x) => Joining(x)'
               /\ Linking(x)' <=> Linking(x)
               /\ Unlinking(x)' <=> Unlinking(x)
    BY <1>1, <1>7, <1>8 DEF Joining, Linking, Unlinking
  <2> QED
    BY <1>6, <1>9, <2>1, <2>2 DEF ListInv, EdgeInv
<1>17. UnlinkInv'
  <2>1. UnlinkOf(t)'
    BY <1>2, <1>7 DEF UnlinkOf
  <2>2. ASSUME NEW u \in Threads \ {t} PROVE UnlinkOf(u)'
    <3>1. UnlinkOf(u) /\ (Unlinks(u)' <=> Unlinks(u)) /\ op'[u] = op[u]
      BY <1>7, <1>8 DEF ListInv, UnlinkInv
    <3>2. (op[u].at = "sameNext" \/ Unlinks(u)) => op[u].node \in InList
      BY DEF ListInv, PlaceInv, Removes
    <3>3. Unlinks(u) => op[u].nx \in InList \cup {Sentinel}
      BY <3>1, <3>2, ChainIs DEF ListInv, UnlinkOf
    <3>4. op[u].at \in {"unlinkPred", "unlinkNext", "awaitPred"} => Unlinks(u)
      BY DEF Unlinks
    <3>5. /\ (op[u].at = "sameNext" \/ Unlinks(u)) => pred'[op[u].node] = pred[op[u].node]
          /\ Unlinks(u) => pred'[op[u].nx] = pred[op[u].nx]
      BY <1>9, <3>2, <3>3
    <3> QED
      BY <1>6, <3>1, <3>4, <3>5 DEF UnlinkOf
  <2> QED
    BY <2>1, <2>2 DEF UnlinkInv
<1> QED
  BY <1>5, <1>11, <1>12, <1>13, <1>14, <1>15, <1>16, <1>17 DEF ListInv

\* The node leaves the list: the newer neighbour is linked to the older one, or there is none.
LEMMA GoesOut ==
  ASSUME ListInv, NEW t \in Threads, op[t].at = "unlinkNext", List!Goto(t, [op[t] EXCEPT !.at = "unlock"]),
         UNCHANGED <<owned, pred, lock, guard, hand>>,
         order' = List!RemoveFirst(order, op[t].node), late' \in BOOLEAN,
         op[t].pd = Nil => first = op[t].node /\ first' = op[t].nx /\ next' = next,
         op[t].pd # Nil => first' = first /\ next' = [next EXCEPT ![op[t].pd] = op[t].nx],
         owned = FALSE => late' = FALSE
  PROVE  ListInv'
<1> DEFINE n == op[t].node  m == op[t].nx  p == op[t].pd  o == [op[t] EXCEPT !.at = "unlock"]
<1>1. /\ op[t] \in UnlinkOp /\ n \in Nodes /\ m \in Links /\ p \in Nodes \cup {Nil}
      /\ ~Enters(t) /\ Removes(t) /\ ~HasOut(t) /\ Unlinks(t) /\ Pops(t) /\ HoldsNode(t) /\ HoldsNext(t) /\ HasNode(t)
  BY OpIs DEF ListInv, UnlinkOp, Links, Enters, Removes, HasOut, Unlinks, Pops, HoldsNode, HoldsNext, HasNode
<1>2. o \in UnlinkOp /\ o.at = "unlock" /\ o.node = n /\ o.nx = m
  BY <1>1 DEF UnlinkOp
<1>3. op'[t] = o /\ Alone(t) /\ op' \in [Threads -> Ops]
  BY <1>2, OneMoves DEF Ops, Alone, ListInv
<1>4. op'[t].at = "unlock" /\ op'[t].node = n /\ op'[t].nx = m
  BY <1>2, <1>3
<1>5. /\ ~Enters(t)' /\ ~Removes(t)' /\ HasOut(t)' /\ ~Unlinks(t)' /\ Pops(t)' /\ HoldsNode(t)' /\ HoldsNext(t)' /\ HasNode(t)'
  BY <1>4 DEF Enters, Removes, HasOut, Unlinks, Pops, HoldsNode, HoldsNext, HasNode
<1>6. \A u \in Threads : u = t \/ op'[u] = op[u]
  BY <1>3 DEF Alone
<1>7. \A u \in Threads : /\ (Enters(u)' <=> Enters(u)) /\ (HasNode(u)' <=> HasNode(u)) /\ (Pops(u)' <=> Pops(u))
                         /\ (Removes(u)' <=> u # t /\ Removes(u)) /\ (HasOut(u)' <=> u = t \/ HasOut(u))
                         /\ (Unlinks(u)' <=> u # t /\ Unlinks(u)) /\ (HoldsNext(u)' <=> HoldsNext(u))
                         /\ HasNode(u) => op'[u].node = op[u].node
                         /\ Enters(u) => op'[u] = op[u]
  BY <1>1, <1>4, <1>5, <1>6 DEF Enters, Removes, HasOut, HasNode, Unlinks, Pops, HoldsNext
<1>8. /\ n \in InList /\ m = Older[n] /\ m \in InList \cup {Sentinel} /\ m # n /\ pred[m] = p
      /\ p # Nil => p \in InList /\ Older[p] = n /\ pred[n] = p
      /\ \A u \in Threads \ {t} : ~Holds(u, n) /\ ~Holds(u, m)
  <2>1. n \in InList /\ m = Older[n]
    BY <1>1, NextIs DEF ListInv, UnlinkInv, UnlinkOf
  <2>2. pred[m] = p /\ (p # Nil => p \in InList /\ Older[p] = n /\ pred[n] = p)
    BY <1>1 DEF ListInv, UnlinkInv, UnlinkOf
  <2>3. Holds(t, n) /\ Holds(t, m) /\ n \in Links
    BY <1>1 DEF Holds, Links
  <2> QED
    BY <1>1, <2>1, <2>2, <2>3, ChainIs DEF ListInv, LockInv
<1>9. /\ order' \in Seq(Nodes) /\ Distinct(order') /\ InList' = InList \ {n}
      /\ Newest' = IF p = Nil THEN m ELSE Newest
      /\ \A x \in InList \ {n} : Older'[x] = IF x = p THEN m ELSE Older[x]
      /\ p # Nil => p \in InList \ {n}
  <2>1. /\ order' \in Seq(Nodes) /\ Distinct(order')
        /\ InList' = InList \ {n} /\ Newest' = IF Newest = n THEN Older[n] ELSE Newest
        /\ \A x \in InList' : Older'[x] = IF Older[x] = n THEN Older[n] ELSE Older[x]
    BY <1>8, ChainShrinks DEF ListInv
  <2>2. CASE p = Nil
    <3>1. n = Newest
      BY <2>2 DEF ListInv, EndsInv
    <3>2. \A x \in InList : Older[x] # n /\ x # p
      BY <2>2, <3>1, ChainIs, ListConstants DEF ListInv, Links
    <3> QED
      BY <1>8, <2>1, <2>2, <3>1, <3>2
  <2>3. CASE p # Nil
    <3>1. n # Newest /\ p # n /\ \A x \in InList : Older[x] = n <=> x = p
      BY <1>8, <2>3, ChainIs DEF ListInv
    <3> QED
      BY <1>8, <2>1, <2>3, <3>1
  <2> QED
    BY <2>2, <2>3
<1>10. ListType'
  <2>1. first' \in Links /\ next' \in [Links -> Links \cup {Nil}]
    BY <1>1 DEF ListInv, ListType
  <2> QED
    BY <1>3, <1>9, <2>1 DEF ListInv, ListType
<1>11. p # Nil => ~Linking(p) /\ ~Unlinking(p)
  <2> SUFFICES ASSUME p # Nil PROVE ~Linking(p) /\ ~Unlinking(p)
    OBVIOUS
  <2>1. ~Linking(p)
    BY <1>8 DEF ListInv, EdgeInv
  <2>2. ASSUME NEW u \in Threads, Unlinks(u), op[u].node = p PROVE FALSE
    <3>1. Holds(u, n)
      BY <1>8, <2>2 DEF ListInv, UnlinkInv, UnlinkOf, Holds, HoldsNext
    <3>2. u = t
      BY <1>8, <3>1
    <3> QED
      BY <1>9, <2>2, <3>2
  <2> QED
    BY <2>1, <2>2 DEF Unlinking
<1>12. \A u \in Threads : HasNode(u) /\ op[u].node = n => u = t
  BY <1>1 DEF ListInv, PlaceInv
<1>13. PlaceInv'
  <2>1. \A u \in Threads : Enters(u)' \/ Removes(u)' => op'[u].node \in InList'
    <3> SUFFICES ASSUME NEW u \in Threads, Enters(u)' \/ Removes(u)' PROVE op'[u].node \in InList'
      OBVIOUS
    <3>1. u # t /\ HasNode(u) /\ op[u].node \in InList /\ op'[u].node = op[u].node
      BY <1>5, <1>7 DEF ListInv, PlaceInv, HasNode
    <3>2. op[u].node # n
      BY <1>12, <3>1
    <3> QED
      BY <1>9, <3>1, <3>2
  <2>2. \A u \in Threads : HasOut(u)' => op'[u].node \notin InList'
    BY <1>4, <1>7, <1>9 DEF ListInv, PlaceInv, HasNode
  <2>3. \A u \in Threads : \A x \in hand'[u] : x \notin InList'
    BY <1>9 DEF ListInv, PlaceInv
  <2>4. \A u, v \in Threads : HasNode(u)' => op'[u].node \notin hand'[v]
    BY <1>7 DEF ListInv, PlaceInv
  <2>5. \A u, v \in Threads : HasNode(u)' /\ HasNode(v)' /\ op'[u].node = op'[v].node => u = v
    BY <1>7 DEF ListInv, PlaceInv
  <2> QED
    BY <2>1, <2>2, <2>3, <2>4, <2>5 DEF ListInv, PlaceInv
<1>14. OwnerInv'
  <2>1. \A u \in Threads : op[u].at # "back" => op'[u].at # "back"
    BY <1>4, <1>6
  <2>2. \A u \in Threads : \A x \in Nodes : x \in InList => x \in InList' \/ x = n
    BY <1>9
  <2>3. owned = TRUE => \A u \in Threads : OwnerOf[n] = u => u = t
    BY <1>1 DEF ListInv, OwnerInv
  <2>4. \A u \in Threads : HasOut(u) => HasOut(u)' /\ op'[u].node = op[u].node
    BY <1>7 DEF HasNode
  <2> HIDE DEF n
  <2>5. HasOut(t)' /\ op'[t].node = n
    BY <1>4, <1>5
  <2> QED
    BY <1>7, <2>1, <2>2, <2>3, <2>4, <2>5 DEF ListInv, OwnerInv
<1>15. LockInv'
  BY <1>1, <1>3, <1>4, <1>5, LocksStay DEF ListInv
<1>16. PopInv'
  <2> SUFFICES ASSUME owned = FALSE PROVE PopInv'
    BY DEF PopInv
  <2>1. \A u \in Threads : ~Removes(u)'
    <3>1. \A u \in Threads : Removes(u) => Pops(u)
      BY DEF Removes, Unlinks, Pops
    <3> QED
      BY <1>1, <1>7, <3>1 DEF ListInv, PopInv
  <2>2. \A u \in Threads : op'[u].at = "lockNext" \/ HoldsNext(u)' =>
          (op[u].at = "lockNext" \/ HoldsNext(u)) /\ op'[u].nx = op[u].nx
    BY <1>1, <1>4, <1>6, <1>7
  <2> QED
    BY <1>7, <2>1, <2>2 DEF ListInv, PopInv
<1>17. EndsInv'
  <2>1. first' = Newest'
    BY <1>9 DEF ListInv, EndsInv
  <2>2. pred'[Newest'] = Nil
    BY <1>8, <1>9 DEF ListInv, EndsInv
  <2>3. ASSUME NEW u \in Threads, Enters(u)' PROVE op'[u].nx = Older'[op'[u].node]
    <3>1. Enters(u) /\ op'[u] = op[u] /\ op[u].node \in InList \ {n} /\ op[u].nx = Older[op[u].node]
      BY <1>1, <1>7, <1>12, <2>3 DEF ListInv, PlaceInv, EndsInv, HasNode
    <3>2. op[u].node # p
      BY <1>11, <3>1, ChainIs, ListConstants DEF Linking, Links, ListInv
    <3> QED
      BY <1>9, <3>1, <3>2
  <2> QED
    BY <2>1, <2>2, <2>3 DEF ListInv, EndsInv
<1>18. EdgeInv'
  <2> SUFFICES ASSUME NEW x \in InList \ {n}
               PROVE  /\ next'[x] = Older'[x] \/ Joining(x)'
                      /\ Linking(x)' => pred'[Older'[x]] = Nil
                      /\ pred'[Older'[x]] = x \/ Linking(x)' \/ Unlinking(x)'
    BY <1>9 DEF EdgeInv
  <2>1. /\ Joining(x) => Joining(x)'
        /\ Linking(x)' <=> Linking(x)
        /\ Unlinking(x) => Unlinking(x)'
    BY <1>1, <1>4, <1>6, <1>7 DEF Joining, Linking, Unlinking, Enters, HasNode, Removes
  <2>2. CASE x = p
    <3>1. p # Nil /\ Older'[x] = m
      BY <1>9, <2>2, ListConstants, ChainIs DEF ListInv, Links
    <3>2. next'[x] = m
      BY <1>1, <2>2, <3>1 DEF ListInv, ListType, Links
    <3> QED
      BY <1>8, <1>11, <2>1, <2>2, <3>1, <3>2
  <2>3. CASE x # p
    <3>1. Older'[x] = Older[x]
      BY <1>9, <2>3
    <3>2. next'[x] = next[x]
      <4>1. x \in Links
        BY ChainIs DEF ListInv, Links
      <4> QED
        BY <2>3, <4>1 DEF ListInv, ListType
    <3> QED
      BY <2>1, <3>1, <3>2 DEF ListInv, EdgeInv
  <2> QED
    BY <2>2, <2>3
<1>19. UnlinkInv'
  <2>1. UnlinkOf(t)'
    BY <1>4, <1>5 DEF UnlinkOf
  <2>2. ASSUME NEW u \in Threads \ {t} PROVE UnlinkOf(u)'
    <3>1. UnlinkOf(u) /\ (Unlinks(u)' <=> Unlinks(u)) /\ op'[u] = op[u]
      BY <1>6, <1>7 DEF ListInv, UnlinkInv
    <3>2. (op[u].at = "sameNext" \/ Unlinks(u)) => /\ op[u].node \in InList \ {n} /\ op[u].node # m
                                                   /\ Holds(u, op[u].node)
      BY <1>8, <1>12 DEF ListInv, PlaceInv, Removes, HasNode, Holds, HoldsNode, HoldsNext
    <3>3. Unlinks(u) => op[u].node # p
      <4>1. op[u].node = p /\ Unlinks(u) => p # Nil
        BY <3>2, ListConstants, ChainIs DEF ListInv, Links
      <4> QED
        BY <1>11, <4>1 DEF Unlinking
    <3>4. Unlinks(u) => Older'[op[u].node] = Older[op[u].node]
      BY <1>9, <3>2, <3>3
    <3>5. (op[u].at = "sameNext" \/ Unlinks(u)) /\ op[u].pd # Nil =>
            op[u].pd \in InList \ {n} /\ op[u].pd # p
      BY <1>8, <3>1, <3>2 DEF UnlinkOf
    <3>6. (op[u].at = "sameNext" \/ Unlinks(u)) /\ op[u].pd # Nil =>
            op[u].pd \in InList' /\ Older'[op[u].pd] = op[u].node
      BY <1>9, <3>1, <3>5 DEF UnlinkOf
    <3> QED
      BY <3>1, <3>4, <3>6 DEF UnlinkOf
  <2> QED
    BY <2>1, <2>2 DEF UnlinkInv
<1> QED
  BY <1>10, <1>13, <1>14, <1>15, <1>16, <1>17, <1>18, <1>19 DEF ListInv

LEMMA UnlinkNextKept ==
  ASSUME ListInv, NEW t \in Threads, owned' = owned, List!UnlinkNext(t)
  PROVE  ListInv'
<1> DEFINE n == op[t].node  m == op[t].nx  p == op[t].pd
           out == [op[t] EXCEPT !.at = "unlock"]  o == [op[t] EXCEPT !.at = "awaitPred"]
<1>1. /\ op[t].at = "unlinkNext" /\ op[t] \in UnlinkOp /\ n \in Nodes /\ m \in Links
      /\ p \in Nodes \cup {Nil} /\ UNCHANGED <<owned, pred, lock, guard, hand>>
  BY OpIs DEF ListInv, List!UnlinkNext, List!At, UnlinkOp, Links
<1>2. order' = IF op'[t].at = "unlock" THEN List!RemoveFirst(order, n) ELSE order
  BY DEF List!UnlinkNext
<1>3. out \in UnlinkOp /\ out.at = "unlock"
  BY <1>1 DEF UnlinkOp
<1>4. /\ o \in UnlinkOp /\ o.at = "awaitPred" /\ o.node = n /\ o.nx = m /\ o.pd = p
  BY <1>1 DEF UnlinkOp
<1>5. CASE p # Nil /\ next' = [next EXCEPT ![p] = m] /\ List!Touch(t, p) /\ List!Goto(t, out) /\ first' = first
  <2>1. order' = List!RemoveFirst(order, n)
    BY <1>2, <1>3, <1>5, OneMoves DEF Ops, ListInv
  <2>2. p \in InList
    BY <1>1, <1>5 DEF ListInv, UnlinkInv, UnlinkOf, Unlinks
  <2>3. owned = FALSE => late' = FALSE
    BY <1>5, <2>2, TouchedInTime
  <2>4. late' \in BOOLEAN
    BY <1>5 DEF ListInv, ListType, List!Touch
  <2> QED
    BY <1>1, <1>5, <2>1, <2>3, <2>4, GoesOut
<1>6. CASE p = Nil /\ first = n /\ first' = m /\ List!Goto(t, out) /\ next' = next /\ late' = late
  <2>1. order' = List!RemoveFirst(order, n)
    BY <1>2, <1>3, <1>6, OneMoves DEF Ops, ListInv
  <2>2. late' \in BOOLEAN /\ (owned = FALSE => late' = FALSE)
    BY <1>6 DEF ListInv, ListType, PopInv
  <2> QED
    BY <1>1, <1>6, <2>1, <2>2, GoesOut
<1>7. CASE p = Nil /\ first # n /\ List!Goto(t, o) /\ first' = first /\ next' = next /\ late' = late
  <2>1. op'[t] = o /\ Alone(t) /\ op' \in [Threads -> Ops]
    BY <1>4, <1>7, OneMoves DEF Ops, Alone, ListInv
  <2>2. op'[t].at = "awaitPred" /\ op'[t].node = n /\ op'[t].nx = m /\ op'[t].pd = p
    BY <1>4, <2>1
  <2>3. order' = order
    BY <1>2, <2>2
  <2>4. ListType'
    BY <1>1, <1>7, <2>1, <2>3 DEF ListInv, ListType
  <2>5. /\ ~Enters(t) /\ Removes(t) /\ ~HasOut(t) /\ Unlinks(t) /\ Pops(t) /\ HoldsNode(t) /\ HoldsNext(t)
    BY <1>1 DEF Enters, Removes, HasOut, Unlinks, Pops, HoldsNode, HoldsNext
  <2>6. /\ ~Enters(t)' /\ Removes(t)' /\ ~HasOut(t)' /\ Unlinks(t)' /\ Pops(t)' /\ HoldsNode(t)' /\ HoldsNext(t)'
    BY <2>2 DEF Enters, Removes, HasOut, Unlinks, Pops, HoldsNode, HoldsNext
  <2>7. PlaceInv' /\ OwnerInv' /\ EndsInv' /\ EdgeInv'
    BY <1>1, <1>7, <2>1, <2>2, <2>3, <2>5, <2>6, ListStays
  <2>8. LockInv'
    BY <1>1, <2>1, <2>2, <2>5, <2>6, LocksStay DEF ListInv
  <2>9. UnlinkInv'
    <3>1. m = Older[n] /\ pred[m] = p
      BY <1>1, <2>5 DEF ListInv, UnlinkInv, UnlinkOf
    <3>2. UnlinkOf(t)'
      BY <1>1, <1>7, <2>2, <2>3, <3>1, ChainSame DEF UnlinkOf
    <3> QED
      BY <1>1, <2>1, <2>3, <3>2, UnlinksStay DEF ListInv
  <2>10. PopInv'
    <3>1. owned = FALSE => late' = FALSE /\ op'[t].nx = Sentinel
      BY <1>7, <2>2, <2>5 DEF ListInv, PopInv
    <3> QED
      BY <1>1, <2>1, <2>2, <2>3, <2>5, <2>6, <3>1, PopStays DEF ListInv
  <2> QED
    BY <2>4, <2>7, <2>8, <2>9, <2>10 DEF ListInv
<1> QED
  BY <1>5, <1>6, <1>7 DEF List!UnlinkNext

LEMMA ListKept ==
  ASSUME ListInv, List!Next
  PROVE  ListInv'
<1>1. PICK t \in Threads : List!Thread(t)
  BY DEF List!Next
<1>2. owned' = owned
  BY DEF List!Next
<1> USE <1>2
<1>3. ASSUME NEW n \in Nodes, List!Exchange(t, n) \/ List!RemoveOwn(t, n) PROVE ListInv'
  BY <1>3, ExchangeKept, RemoveOwnKept
<1>4. CASE List!LinkNext(t) \/ List!LinkPred(t) \/ List!TakeGuard(t) \/ List!Back(t)
  BY <1>4, LinkNextKept, LinkPredKept, TakeGuardKept, BackKept
<1>5. CASE List!LockNode(t) \/ List!ReadNext(t) \/ List!LockNext(t) \/ List!ReadPred(t) \/ List!SameNext(t)
  BY <1>5, LockNodeKept, ReadNextKept, LockNextKept, ReadPredKept, SameNextKept
<1>6. CASE List!UnlinkPred(t) \/ List!UnlinkNext(t) \/ List!AwaitPred(t)
  BY <1>6, UnlinkPredKept, UnlinkNextKept, AwaitPredKept
<1>7. CASE List!Unlock(t) \/ List!UnlockNode(t) \/ List!Clear(t)
  BY <1>7, UnlockKept, UnlockNodeKept, ClearKept
<1> QED
  BY <1>1, <1>3, <1>4, <1>5, <1>6, <1>7 DEF List!Thread

LEMMA ListStarts ==
  ASSUME List!Init
  PROVE  ListInv
<1>1. /\ first = Sentinel /\ owned \in BOOLEAN /\ guard = FALSE /\ late = FALSE /\ order = <<>>
      /\ pred = [x \in Links |-> Nil] /\ next = [x \in Links |-> Nil]
      /\ lock = [x \in Links |-> FALSE] /\ op = [t \in Threads |-> [at |-> "idle"]]
      /\ hand = [t \in Threads |-> {n \in Nodes : OwnerOf[n] = t}]
  BY DEF List!Init, List!Resting, Links
<1>2. Len(order) = 0 /\ order \in Seq(Nodes) /\ InList = {} /\ Newest = Sentinel /\ Distinct(order)
  BY <1>1 DEF InList, NodesOf, Newest, NewestOf, Distinct
<1>3. \A t \in Threads : op[t].at = "idle"
  BY <1>1
<1>4. \A t \in Threads : /\ ~Enters(t) /\ ~Removes(t) /\ ~HasOut(t) /\ ~HasNode(t) /\ ~Unlinks(t)
                         /\ ~Pops(t) /\ ~HoldsNode(t) /\ ~HoldsNext(t) /\ op[t].at # "back"
                         /\ op[t].at # "lockNext"
  BY <1>3 DEF Enters, Removes, HasOut, HasNode, Unlinks, Pops, HoldsNode, HoldsNext
<1>5. ListType
  <2>1. op \in [Threads -> Ops]
    BY <1>1 DEF Ops, List!Resting
  <2> QED
    BY <1>1, <1>2, <2>1 DEF ListType, Links
<1>6. PlaceInv /\ OwnerInv
  BY <1>1, <1>2, <1>4 DEF PlaceInv, OwnerInv
<1>7. LockInv
  BY <1>1, <1>4 DEF LockInv, Holds
<1>8. EndsInv /\ EdgeInv
  BY <1>1, <1>2, <1>4 DEF EndsInv, EdgeInv, Links
<1>9. UnlinkInv
  BY <1>3, <1>4 DEF UnlinkInv, UnlinkOf
<1>10. PopInv
  BY <1>1, <1>4 DEF PopInv
<1> QED
  BY <1>5, <1>6, <1>7, <1>8, <1>9, <1>10 DEF ListInv

LEMMA ListInvSuffices ==
  ASSUME ListInv
  PROVE  List!ListIntact /\ List!PopsTheOldest /\ List!NoLateTouch
<1>1. order \in Seq(Nodes) /\ Distinct(order) /\ Len(order) \in Nat /\ owned \in BOOLEAN
  BY DEF ListInv, ListType
<1>2. \A i \in 1..Len(order) : /\ order[i] \in InList
                               /\ Older[order[i]] = IF i = 1 THEN Sentinel ELSE order[i - 1]
  BY <1>1, OlderIs DEF InList, Older
<1>3. List!ListIntact
  <2> SUFFICES ASSUME \A t \in Threads : op[t].at = "idle"
               PROVE  /\ first = List!Last(List!Chain)
                      /\ \A i \in DOMAIN List!Chain :
                           /\ pred[List!Chain[i]] = IF i < Len(List!Chain) THEN List!Chain[i + 1] ELSE Nil
                           /\ i > 1 => next[List!Chain[i]] = List!Chain[i - 1]
                           /\ ~lock[List!Chain[i]]
    BY DEF List!ListIntact, List!At
  <2> DEFINE c == List!Chain
  <2>1. /\ c \in Seq(Links) /\ Len(c) = Len(order) + 1 /\ DOMAIN c = 1..Len(c)
        /\ \A i \in 1..Len(c) : c[i] = IF i = 1 THEN Sentinel ELSE order[i - 1]
    <3>1. <<Sentinel>> \in Seq(Links) /\ order \in Seq(Links) /\ Len(<<Sentinel>>) = 1 /\ <<Sentinel>>[1] = Sentinel
      BY <1>1 DEF Links
    <3>2. /\ c \in Seq(Links) /\ Len(c) = 1 + Len(order)
          /\ \A i \in 1..(1 + Len(order)) : c[i] = IF i <= 1 THEN <<Sentinel>>[i] ELSE order[i - 1]
      BY <3>1, ConcatProperties DEF List!Chain
    <3> QED
      BY <1>1, <3>1, <3>2
  <2> HIDE DEF c
  <2>2. \A t \in Threads : ~Enters(t) /\ ~HoldsNode(t) /\ ~HoldsNext(t) /\ ~Unlinks(t)
    BY DEF Enters, HoldsNode, HoldsNext, Unlinks
  <2>3. \A n \in InList : next[n] = Older[n] /\ pred[Older[n]] = n
    BY <2>2 DEF ListInv, EdgeInv, Joining, Linking, Unlinking, Enters
  <2>4. \A x \in Links : lock[x] = FALSE
    BY <2>2 DEF ListInv, ListType, LockInv, Holds
  <2>5. c[Len(c)] = Newest /\ first = Newest /\ pred[Newest] = Nil
    BY <1>1, <2>1 DEF ListInv, EndsInv, Newest, NewestOf
  <2>6. ASSUME NEW i \in 1..Len(c)
        PROVE  /\ pred[c[i]] = IF i < Len(c) THEN c[i + 1] ELSE Nil
               /\ i > 1 => next[c[i]] = c[i - 1]
               /\ ~lock[c[i]]
    <3>1. i < Len(c) => pred[c[i]] = c[i + 1]
      <4> SUFFICES ASSUME i < Len(c) PROVE pred[c[i]] = c[i + 1]
        OBVIOUS
      <4>1. i \in 1..Len(order) /\ i + 1 \in 1..Len(c) /\ i + 1 # 1 /\ (i + 1) - 1 = i
        BY <1>1, <2>1
      <4>2. c[i + 1] = order[i] /\ Older[order[i]] = c[i]
        BY <1>2, <2>1, <4>1
      <4> QED
        BY <1>2, <2>3, <4>1, <4>2
    <3>2. ~(i < Len(c)) => pred[c[i]] = Nil
      <4>1. ~(i < Len(c)) => i = Len(c)
        BY <1>1, <2>1
      <4> QED
        BY <2>5, <4>1
    <3>3. i > 1 => next[c[i]] = c[i - 1]
      <4> SUFFICES ASSUME i > 1 PROVE next[c[i]] = c[i - 1]
        OBVIOUS
      <4>1. i - 1 \in 1..Len(order) /\ i - 1 \in 1..Len(c) /\ i # 1
        BY <1>1, <2>1
      <4>2. c[i] = order[i - 1] /\ Older[order[i - 1]] = c[i - 1]
        BY <1>2, <2>1, <4>1
      <4> QED
        BY <1>2, <2>3, <4>1, <4>2
    <3>4. ~lock[c[i]]
      BY <2>1, <2>4
    <3> QED
      BY <3>1, <3>2, <3>3, <3>4
  <2> QED
    BY <2>1, <2>5, <2>6 DEF List!Last, c
<1>4. List!PopsTheOldest
  <2> SUFFICES ASSUME NEW t \in Threads, ~owned, op[t].at = "lock" PROVE op[t].node = Head(order)
    BY DEF List!PopsTheOldest, List!At
  <2>1. op[t].node \in InList /\ Older[op[t].node] = Sentinel
    BY <1>1 DEF ListInv, PlaceInv, PopInv, Removes
  <2>2. PICK i \in 1..Len(order) : order[i] = op[t].node
    BY <2>1 DEF InList, NodesOf
  <2>3. i # 1 => order[i - 1] \in Nodes
    BY <1>1
  <2>4. i = 1
    BY <1>2, <2>1, <2>2, <2>3, ListConstants
  <2>5. order # <<>>
    BY <1>1, <2>2
  <2> QED
    BY <1>1, <2>2, <2>4, <2>5
<1>5. List!NoLateTouch
  BY <1>1 DEF ListInv, PopInv, List!NoLateTouch
<1> QED
  BY <1>3, <1>4, <1>5

\* For any threads and nodes: the list is whole between calls whether the threads remove
\* their own nodes or pop any; where they pop, try_pop takes the node that has been in it
\* longest and nobody touches a node it has handed to another. Of nodes touched after their
\* owner has removed them it says nothing (lfllist.h push, try_remove, try_pop).
THEOREM ListHoldsTogether == LibrarySpec => []ListIsSafe
<1> DEFINE Inv == part = "list" => ListInv
<1>1. LibraryInit => Inv
  BY ListStarts DEF LibraryInit
<1>2. Inv /\ [LibraryNext]_libraryVars => Inv'
  <2> SUFFICES ASSUME Inv, [LibraryNext]_libraryVars, part' = "list" PROVE ListInv'
    OBVIOUS
  <2>1. CASE ListStep
    BY <2>1, ListKept DEF ListStep
  <2>2. CASE UNCHANGED listVars /\ part' = part
    <3>1. UNCHANGED <<owned, first, pred, next, lock, guard, op, hand, order, late>> /\ ListInv
      BY <2>2 DEF listVars
    <3>2. InList' = InList /\ Older' = Older /\ Newest' = Newest
      BY <3>1, ChainSame
    <3>3. \A t \in Threads : /\ (Enters(t)' <=> Enters(t)) /\ (Removes(t)' <=> Removes(t))
                             /\ (HasOut(t)' <=> HasOut(t)) /\ (HasNode(t)' <=> HasNode(t))
                             /\ (Unlinks(t)' <=> Unlinks(t)) /\ (Pops(t)' <=> Pops(t))
                             /\ (HoldsNext(t)' <=> HoldsNext(t))
                             /\ \A x \in Links : Holds(t, x)' <=> Holds(t, x)
      BY <3>1 DEF Enters, Removes, HasOut, HasNode, Unlinks, Pops, HoldsNext, Holds, HoldsNode
    <3>4. \A n : (Joining(n)' <=> Joining(n)) /\ (Linking(n)' <=> Linking(n)) /\ (Unlinking(n)' <=> Unlinking(n))
      BY <3>1, <3>3 DEF Joining, Linking, Unlinking
    <3>5. ListType' /\ PlaceInv' /\ OwnerInv' /\ LockInv'
      BY <3>1, <3>2, <3>3 DEF ListInv, ListType, PlaceInv, OwnerInv, LockInv
    <3>6. EndsInv' /\ EdgeInv' /\ UnlinkInv' /\ PopInv'
      BY <3>1, <3>2, <3>3, <3>4 DEF ListInv, EndsInv, EdgeInv, UnlinkInv, UnlinkOf, PopInv
    <3> QED
      BY <3>5, <3>6 DEF ListInv
  <2> QED
    BY <2>1, <2>2 DEF LibraryNext, libraryVars, RingStep, SerialStep, MpStep, WaitStep,
                      TokenStep, AsyncStep, FastStep, DelegatesStep, ValueStep
<1>3. Inv => ListIsSafe
  BY ListInvSuffices DEF ListIsSafe
<1> QED
  BY <1>1, <1>2, <1>3, PTL DEF LibrarySpec
=============================================================================
