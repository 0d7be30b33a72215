------------------------------- MODULE Library -------------------------------
(***************************************************************************)
(* The parts of the two vendored libraries (EspSoftwareSerial and ghostl)  *)
(* that run concurrently: a behaviour is one of the part named by "part",  *)
(* the others are at rest.  A part's variables and constants have the      *)
(* names they have in its module, but for those that two modules use.      *)
(***************************************************************************)
EXTENDS CircularQueue

CONSTANTS
    DataBits, HasParity, StopBits, BitTicks, Latency, IsrCapacity, BufCapacity,
    ParityGroup, TickRange, Words, MaxIdle,                          \* SoftwareSerial
    Producers, MpCapacity, MaxItems, MaxBlock,                       \* CircularQueueMP
    Threads, Nodes, Nil, Sentinel, OwnerOf,                          \* LockFreeList
    Tasks,                                                           \* Completion
    Waiters, Cancellers,                                             \* Cancellation
    Writers, ListCapacity, MaxPushes,                                \* AsyncQueue
    Pushers, Periods, ClockRange, MaxScheduled, MaxLate,             \* FastScheduler
    Callers, Erasers, NodeCapacity, MaxAdded,                        \* MultiDelegate
    Places, Targets, Objects                                         \* Delegate

VARIABLES
    part,
    line, now, isr, word, received, parity, overflow, reader, seen,
    mpBuffer, mpIn, mpOut, inPosMp, concurrent, call, pushed, mpConsumer, mpGiven, hurt,
    owned, first, pred, next, lock, guard, op, hand, order, late,
    kind, runner, completed, remaining, results, source, awaiter,
    cancelled, list, linked, waiter, canceller, alive, outcome, early,
    items, tcsQueue, setTcs, curTcs, made, write, tries, read, accepted, taken, overlapped,
    micros, deadlineUs, queue, visible, pusher, running, spent,
    isQueue, node, front, last, unused, fence, thread, added, live, clash, cleared,
    place, meant

ringVars   == <<buffer, inPos, outPos, producer, consumer, offered, given>>
serialVars == <<line, now, isr, word, received, parity, overflow, reader, seen>>
mpVars     == <<mpBuffer, mpIn, mpOut, inPosMp, concurrent, call, pushed, mpConsumer, mpGiven, hurt>>
listVars   == <<owned, first, pred, next, lock, guard, op, hand, order, late>>
waitVars   == <<kind, runner, completed, remaining, results, source, awaiter>>
tokenVars  == <<cancelled, list, linked, waiter, canceller, alive, outcome, early>>
asyncVars  == <<items, tcsQueue, setTcs, curTcs, made, write, tries, read, accepted, taken, overlapped>>
fastVars   == <<micros, deadlineUs, queue, visible, pusher, running, spent>>
delegateVars == <<isQueue, node, front, last, unused, fence, thread, added, live, clash, cleared>>
valueVars  == <<place, meant>>
libraryVars == <<part, ringVars, serialVars, mpVars, listVars, waitVars, tokenVars, asyncVars, fastVars,
                 delegateVars, valueVars>>

Serial    == INSTANCE SoftwareSerial
Mp        == INSTANCE CircularQueueMP
                 WITH buffer <- mpBuffer, inPos <- mpIn, outPos <- mpOut, consumer <- mpConsumer,
                      taken <- mpGiven
List      == INSTANCE LockFreeList
Wait      == INSTANCE Completion
Token     == INSTANCE Cancellation
Async     == INSTANCE AsyncQueue
Fast      == INSTANCE FastScheduler WITH now <- micros, runner <- running
Delegates == INSTANCE MultiDelegate WITH Capacity <- NodeCapacity, first <- front
Value     == INSTANCE Delegate

ASSUME LibraryAssumption ==
    /\ Serial!SerialAssumption /\ Mp!MpAssumption /\ Wait!TasksAssumption
    /\ List!ListAssumption /\ Async!PushesAssumption /\ Fast!ClockAssumption

-----------------------------------------------------------------------------
SerialRests ==
    /\ line = "none" /\ now = "none" /\ isr = "none" /\ word = "none" /\ received = "none"
    /\ parity = "none" /\ overflow = "none" /\ reader = "none" /\ seen = "none"
MpRests ==
    /\ mpBuffer = "none" /\ mpIn = "none" /\ mpOut = "none" /\ inPosMp = "none"
    /\ concurrent = "none" /\ call = "none" /\ pushed = "none" /\ mpConsumer = "none"
    /\ mpGiven = "none" /\ hurt = "none"
ListRests ==
    /\ owned = "none" /\ first = "none" /\ pred = "none" /\ next = "none" /\ lock = "none"
    /\ guard = "none" /\ op = "none" /\ hand = "none" /\ order = "none" /\ late = "none"
WaitRests ==
    /\ kind = "none" /\ runner = "none" /\ completed = "none" /\ remaining = "none"
    /\ results = "none" /\ source = "none" /\ awaiter = "none"
TokenRests ==
    /\ cancelled = "none" /\ list = "none" /\ linked = "none" /\ waiter = "none" /\ canceller = "none"
    /\ alive = "none" /\ outcome = "none" /\ early = "none"
AsyncRests ==
    /\ items = "none" /\ tcsQueue = "none" /\ setTcs = "none" /\ curTcs = "none" /\ made = "none"
    /\ write = "none" /\ tries = "none" /\ read = "none" /\ accepted = "none" /\ taken = "none"
    /\ overlapped = "none"
FastRests ==
    /\ micros = "none" /\ deadlineUs = "none" /\ queue = "none" /\ visible = "none"
    /\ pusher = "none" /\ running = "none" /\ spent = "none"
DelegatesRest ==
    /\ isQueue = "none" /\ node = "none" /\ front = "none" /\ last = "none" /\ unused = "none"
    /\ fence = "none" /\ thread = "none" /\ added = "none" /\ live = "none" /\ clash = "none"
    /\ cleared = "none"
ValueRests == place = "none" /\ meant = "none"

LibraryInit ==
    /\ part \in {"ring", "serial", "mp", "list", "wait", "token", "async", "fast", "delegates",
                "value"}
    /\ Init
    /\ IF part = "serial" THEN Serial!Init ELSE SerialRests
    /\ IF part = "mp" THEN Mp!Init ELSE MpRests
    /\ IF part = "list" THEN List!Init ELSE ListRests
    /\ IF part = "wait" THEN Wait!Init ELSE WaitRests
    /\ IF part = "token" THEN Token!Init ELSE TokenRests
    /\ IF part = "async" THEN Async!Init ELSE AsyncRests
    /\ IF part = "fast" THEN Fast!Init ELSE FastRests
    /\ IF part = "delegates" THEN Delegates!Init ELSE DelegatesRest
    /\ IF part = "value" THEN Value!Init ELSE ValueRests

RingStep ==
    /\ part = "ring" /\ Next
    /\ UNCHANGED <<part, serialVars, mpVars, listVars, waitVars, tokenVars, asyncVars, fastVars,
                   delegateVars, valueVars>>
SerialStep ==
    /\ part = "serial" /\ Serial!Next
    /\ UNCHANGED <<part, ringVars, mpVars, listVars, waitVars, tokenVars, asyncVars, fastVars,
                   delegateVars, valueVars>>
MpStep ==
    /\ part = "mp" /\ Mp!Next
    /\ UNCHANGED <<part, ringVars, serialVars, listVars, waitVars, tokenVars, asyncVars, fastVars,
                   delegateVars, valueVars>>
ListStep ==
    /\ part = "list" /\ List!Next
    /\ UNCHANGED <<part, ringVars, serialVars, mpVars, waitVars, tokenVars, asyncVars, fastVars,
                   delegateVars, valueVars>>
WaitStep ==
    /\ part = "wait" /\ Wait!Next
    /\ UNCHANGED <<part, ringVars, serialVars, mpVars, listVars, tokenVars, asyncVars, fastVars,
                   delegateVars, valueVars>>
TokenStep ==
    /\ part = "token" /\ Token!Next
    /\ UNCHANGED <<part, ringVars, serialVars, mpVars, listVars, waitVars, asyncVars, fastVars,
                   delegateVars, valueVars>>
AsyncStep ==
    /\ part = "async" /\ Async!Next
    /\ UNCHANGED <<part, ringVars, serialVars, mpVars, listVars, waitVars, tokenVars, fastVars,
                   delegateVars, valueVars>>
FastStep ==
    /\ part = "fast" /\ Fast!Next
    /\ UNCHANGED <<part, ringVars, serialVars, mpVars, listVars, waitVars, tokenVars, asyncVars,
                   delegateVars, valueVars>>
DelegatesStep ==
    /\ part = "delegates" /\ Delegates!Next
    /\ UNCHANGED <<part, ringVars, serialVars, mpVars, listVars, waitVars, tokenVars, asyncVars,
                   fastVars, valueVars>>
ValueStep ==
    /\ part = "value" /\ Value!Next
    /\ UNCHANGED <<part, ringVars, serialVars, mpVars, listVars, waitVars, tokenVars, asyncVars,
                   fastVars, delegateVars>>

LibraryNext ==
    \/ RingStep \/ SerialStep \/ MpStep \/ ListStep \/ WaitStep
    \/ TokenStep \/ AsyncStep \/ FastStep \/ DelegatesStep \/ ValueStep

LibrarySpec == LibraryInit /\ [][LibraryNext]_libraryVars

-----------------------------------------------------------------------------
(* Properties.                                                             *)

\* The ring is a first-in first-out queue whatever its two sides interleave, and push_n
\* stores all that fits (circular_queue.h).
RingIsFifo == IsFifo /\ FillsTheRing

\* Of what had room, the words come as they were sent, each with its parity, none stays
\* behind, and what had no room is reported (SoftwareSerial.cpp rxBits, read, overflow).
SerialIsFaithful ==
    [][part = "serial" =>
         /\ Serial!NoWordPends
         /\ (Serial!WordsAreThoseSent /\ Serial!LossIsReported /\ Serial!ParityStaysWithItsWord)']_libraryVars

\* With several producers the consumer gets each one's items in order, and none that its
\* producer was told is in gets lost, until a push_n has wrapped or has used an m_outPos
\* that was no longer so (circular_queue_mp.h push, push_n; line 114 calls push_n safe, but
\* after that it is not).
MpDelivers == part = "mp" => Mp!OrderPerProducer /\ Mp!NoItemLost

\* The list is whole between calls whether threads remove their own nodes or pop any, and
\* try_pop takes the oldest (lfllist.h push, try_remove, try_pop). Where they pop, nobody
\* touches a node that another took; where they remove their own, the code does touch
\* nodes that their owners have removed, and this says nothing of it.
ListIsSafe == part = "list" => List!ListIntact /\ List!PopsTheOldest /\ List!NoLateTouch

\* when_any and when_all resume their coroutine once, when one or all tasks are done, with
\* the right results (task_completion_source.h, when_any.h, when_all.h).
WaitsForTheRight == part = "wait" => Wait!WaitsForTheRight

\* Who is in the list when a cancellation comes, and not behind a push that is not
\* complete, is released with true, who awaits one that never comes with false
\* (cancellation_token.h).
WaitersAreReleased == part = "token" => Token!WaitersAreReleased

\* A consumer does not wait for an item that is there, as long as no two pushes overlapped
\* (async_queue.h push, pop).
NothingStranded == part = "async" => Async!NothingStranded

\* The next deadline is never later than the function due next, across the wrap of
\* micros(), but for functions that the queue hides or hid from a run (FastScheduler.cpp).
NeverOversleeps == part = "fast" => Fast!NeverOversleeps

\* The list of delegates and each call of it are right (MultiDelegate.h) until a call and
\* an erase() clash, and each delegate is the value last put there (Delegate.h).
CallsAreComplete ==
    /\ part = "delegates" => Delegates!CallsAreComplete
    /\ part = "value" => Value!DelegatesAreValues
=============================================================================
