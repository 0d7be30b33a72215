# Verification of the energy meter firmware

TLA+ models of the firmware in `src/energy_meter_2_firmware/` (ESP32, FreeRTOS,
a PZEM meter, a 4G modem and a SPI NOR flash) and of the concurrent parts of the
two libraries it is built with, model-checked with TLC and partly proved with
the TLA+ proof system. `PROJECT.json` maps every definition that models code to
its lines, and lists components, runs, mutants, hazards, findings and theorems.

## 1. The system

The meter reads voltage, current and power from a PZEM module, makes records of
them, and sends them to AWS IoT over MQTT by way of AT commands to a modem.
While there is no session the records wait in a ring on flash. Three tasks run:
metering (`meteringTask`), power (`powerTask`) and network (`networkTask`).
They share two FreeRTOS queues, a few mutex-protected or atomic variables, and
the flash queue, which has a mutex of its own. `platformio.ini` adds a software
UART (EspSoftwareSerial) with an interrupt handler, and that brings a small
library of lock-free containers and coroutines (ghostl). Both are vendored under
`.pio/`; the firmware's own sources use two hardware UARTs and call neither.

| Part (source) | State | Operations | Interacts with |
|---|---|---|---|
| Flash queue (`storage.cpp`) | ring of record pages on flash; `QueueState` in RAM: head, tail, count, dropped, nextOrder | `storage_init`, `_append`, `_peek`, `_pop`, `_flush` | called by all three tasks under `flashMutex`; `count` is also read without it |
| Header journal (`storage.cpp`) | two flash sectors of header entries, generation, active sector | `findHeader`, `checkpointLocked` | carries the drop counter across restarts, for the flash queue |
| Record path (`main.cpp`, `telemetry.h`) | `liveQueue`, `urgentQueue`, the records in the tasks' hands | `makeRecord`, `enqueueLive`, `emitEvent`, the connected branch of `networkTask` | fed by metering and power task, drained by the network task; reads `_connected` without a lock |
| Replay (`main.cpp:358-375`) | `replayActive`, the copied record | peek, publish, pop | the flash queue, between two holds of its mutex |
| Connection supervisor (`main.cpp:273-376`) | modem state, backoff, `nextConnectAt`, `wasConnected` | attach, connect, subscribe, back off, hold up | modem driver, task watchdog, `mainsLost` of the power task |
| Modem driver (`at_mqtt.cpp`) | the UART's input; `_connected`, `_tlsDiagDone` | init, diagnosis, connect, subscribe, publish, signal and clock queries, poll | the modem, whose answers and notices arrive in its own time |
| Certificate provisioning (`at_mqtt.cpp:154-304, 907-942`) | files on the modem, fingerprint in NVS, `_tlsFailStreak` in RAM | list, upload, verify, record, drop the record | part of a connect attempt |
| Certificate uploader (`cert_uploader/`) | the same files | deletes, writes and lists them | a stand-alone image; knows nothing of the firmware's record |
| Certificate generator (`scripts/gen_certs.py`) | PEM files, the generated header | read, check, write | builds of firmware and uploader, an engineer who edits the files |
| Power monitor (`main.cpp:202-265`) | debounced inputs, interrupt flag, `mainsLost`, `backupLow` | debounce, report `MAINS_LOST` and the like, flush | emits events; read by the supervisor |
| Metering (`main.cpp:176-217`, `pzem.cpp`) | fault counters, swapped pins | read, report phase health | emits records and events |
| Reports of signal and flash (`main.cpp:159-174, 331-356`) | three sample counters, two flags; near-full flag, drops told of | sample, look at the flash queue, report | parts of the passes of the network and the metering task; emit events |
| Time service (`time_service.cpp`, `at_mqtt.cpp:328-380, 1135-1163`) | the ESP32's clock, `clockSet`, `lastSyncMs`; the modem's clock | set the modem's clock by NTP, take its time over, stamp, judge | the network task sets it, every task stamps records with it, neither with a lock |
| Software UART (`EspSoftwareSerial`) | ring of line changes, ring of words and their parities, overflow flags | `rxBitISR`, `rxBits`, `read`, `readBytes`, `available`, `flush`, `overflow`; `write` | an interrupt handler and the task that reads |
| Circular queues (`ghostl`) | slots and positions | push, push_n, pop, pop_n, flush, for_each, for_each_rev_requeue | one or several producers, one consumer, no lock |
| Lock-free list and coroutines (`ghostl`) | doubly linked nodes with a lock each; completion sources, cancellation state, awaited queue | push, remove, try_pop; when_any, when_all; cancel; push and pop | any thread |
| Function scheduler (`FastScheduler.cpp`) | scheduled functions, `deadline_us` | schedule, run, ask for the delay | one task runs, others and the functions schedule |
| Lists of delegates (`MultiDelegate.h`) | a list of nodes, recycled; a fence | add, erase, call | any thread; iterators are used outside the lock |
| Delegate (`Delegate.h`) | a kind, a function, and a union whose members live and die by hand | construct, copy, move, assign, destroy, call | whoever keeps one: the nodes of the lists, the scheduler's functions |
| Payload, calibration | none | formatting, three gains | - |
| Host tools, protobuf | none shared with the firmware | stand-alone | - |

What is hard to get right in it, and what would make each part correct:

* **Flash queue.** A page is programmed once per sector erase; an append is two
  programs and sometimes an erase; power may fail inside any of them, and a
  command may time out. Head, tail and count live in RAM only and are found
  again by a scan. Correct: the count is exact, a page is never programmed
  twice, records leave in the order they came, only a full queue loses records
  (and counts them), and a restart loses at most a sector.
* **Header journal.** A checkpoint is an optional erase and two programs.
  Correct: it is atomic, and the newest header is never in the sector erased.
* **Replay.** The mutex is free between `storage_peek` and `storage_pop`.
  Correct: records are forwarded in order, only forwarded ones are marked, and
  no record waits for ever.
* **Record path.** Queues have 24 and 8 places and RAM dies with power;
  `emitEvent` reads the connection twice. Correct: every record is somewhere,
  delivered, or lost in a known way, and all of them settle.
* **Supervisor.** Backoffs up to 300 s against a watchdog of 240 s; `millis()`
  wraps; mains may fail during an attach. Correct: retries come in time,
  sessions are reported, the device connects again.
* **Modem driver.** Nothing on the line says which command an answer belongs to;
  before a command the input is thrown away, notices of a lost session with
  it; the diagnosis changes settings of the modem that the session needs.
  Correct: a publish that returns true has reached the broker, the session in
  use is the one that was configured, and a lost one is noticed.
* **Certificates.** The modem lists names, not contents, and does not overwrite; a
  record in NVS stands for the contents; another image rewrites the same files.
  Correct: the record is written over files of the bundle only, files it does
  not stand for are used in known cases only, and every mixture heals. Of the generator: an image has the
  key of its certificate and the CA of its endpoint, though files are edited
  and two builds write one header.
* **Power monitor.** An interrupt handler and a task share a flag without a lock,
  and the task may wait for the flash while the inputs go on. Correct: no change
  is reported that the input did not keep for the debounce time, and a lasting
  one is reported in bounded time.
* **Metering, reports.** Small counters that reset one another, told apart by
  long sequences only; a probe made once per boot; a counter in RAM compared
  with one that a restart takes back. Correct: an event means what it says, and
  no drop stays untold; a unit that answers is read.
* **Time service.** A calendar by formula, a year of two digits, a `time_t` of 32
  bits, a wrapping `millis()`, a clock that outlives a reset. Correct: the
  instant is kept from the modem to the stamp, an unset clock is refused, and a
  quality is never better than the time.
* **Software UART.** Bits are rebuilt from times between interrupts, the last
  ones from the absence of one; both rings may be full; parities are stored
  eight to an element. Correct: words come as they were sent, a loss is told.
* **Containers, coroutines, scheduler, delegates.** Every access to a shared
  atomic may be followed by one of another thread. Correct: what was accepted
  comes out, once and in order; who waits is woken, once; the sleep until the
  next function is never too long; a call reaches every delegate of the list, and
  each does what was last put there.

## 2. Modules

| Module | Models | Extends or instantiates |
|---|---|---|
| `FlashQueue` | `storage.cpp`: the ring, one flash command per step, power loss in any of them | `StoreForward`, `DropCounter` as its promises |
| `StoreForward` | abstract: an ordered queue with reclaim and loss | |
| `DropCounter` | abstract: a counter with atomic saves | |
| `HeaderJournal` | `checkpointLocked`, `findHeader`, restoring in `storage_init` | `DropCounter` as its promise |
| `FlashFaults` | the ring on a chip whose commands time out | extends `FlashQueue` |
| `Replay` | the network task's replay branch against appends | extends `FlashQueue` |
| `Telemetry` | tasks, RAM queues and publishing, on an abstract flash queue | |
| `NetworkTask` | the supervisor in discrete time | |
| `ModemLink` | the AT line: every exchange of the driver, the UART, the modem | |
| `CertStore` | certificate provisioning, and the uploader next to it | |
| `CertBuild` | the generator in several builds at once, an engineer | |
| `PowerMonitor` | `powerTask` and `powerFailIsr` | |
| `Metering` | `pzem_read`, `updatePzemHealth` | |
| `Reports` | signal monitor and `reportQueueHealth` | |
| `Calendar` | the calendar arithmetic of `parseIso8601` | |
| `CalendarWalk` | its reference, a walk through the days | extends `Calendar` |
| `TimeService` | `time_service.cpp`, `_sync_modem_clock`, `at_mqtt_get_timestamp` | extends `Calendar` |
| `Services` | no code: one of six components at a time, for one run | extends `Metering`; instantiates `HeaderJournal`, `PowerMonitor`, `TimeService`, `Reports`, `CertBuild` |
| `MCServices` | no code: its constants for the run | extends `Services` |
| `Fifo` | abstract: a bounded first-in first-out queue | |
| `CircularQueue` | the ring of one producer and one consumer | `Fifo` as its promise |
| `CircularQueueMP` | the ring of several producers | |
| `SoftwareSerial` | the bit-banged UART | |
| `LockFreeList` | `lfllist.h` | |
| `Completion` | `task_completion_source.h`, `when_any.h`, `when_all.h` | |
| `Cancellation` | `cancellation_token.h` | |
| `AsyncQueue` | `async_queue.h` as the example `mp1c.cpp` uses it | |
| `FastScheduler` | `FastScheduler.cpp` | |
| `MultiDelegate` | `MultiDelegate.h` | |
| `Delegate` | one delegate of `Delegate.h` | |
| `Library` | no code: one of ten parts at a time, for one run | extends `CircularQueue`; instantiates the other nine modules from `CircularQueueMP` on |
| `MCLibrary` | no code: its constants for the run | extends `Library` |
| `FlashQueueProofs` | theorems and lemmas about the flash queue, its faults and its replay | extends `FlashFaults` and `Replay` |
| `TelemetryProofs`, `CertStoreProofs`, `NetworkTaskProofs` | theorems and lemmas about the modules they are named after | extend them |
| `ModemLinkProofs` | a theorem about `ModemLink` | extends it |
| `ServicesProofs` | theorems about the parts of `Services` and about `Calendar` | extends `Services` and `CalendarWalk` |
| `CircularQueueProofs` | theorems about both rings | extends `Library` |
| `LibraryProofs` | theorems about the other parts of `Library` | extends `Library` |

**FlashQueue.** `flash` maps a slot to the state of its page, the order and the
id of its record; `valid` of `recordValid` is "pending" or "delivered" (one bit
of the commit byte apart), "body" is a record whose commit byte is still
erased, "garbage" anything with a wrong checksum. `pc` says which flash command
the holder of the mutex issues next: `AppendToBlankPage` or `AppendToUsedPage`
(the test in `ensureWritableSlotLocked`), `EraseSector`, `ProgramBody`,
`ProgramCommit`, `Checkpoint`. A pop is one program and one step. `Interrupted`
is what a power loss may leave: of an erase, every page of the sector kept,
blank or garbage independently; of a body, nothing or garbage (the complete
body is the state of the next step); of a commit byte, either value.
`storage_init` is `StorageInit`, a scan `RebuildFrom`. Ids are history
variables: `arrivals` numbers the calls of `storage_append`, `popped` and
`erased` remember what left and how.

**HeaderJournal** refines the step `Checkpoint` of `FlashQueue`. Its entries
have the same page states; generation and counter are kept, the other header
fields (head, tail, count as of the checkpoint) are written by the code and
never read back, so they are left out.

**FlashFaults** adds for each flash command the outcome that `waitReady` gives
up: the operation returns at once, bookkeeping as it stood, the flash in any
state the chip may have reached.

**Replay** adds the network task at four points: at its test for pending
records, before the peek, publishing, before the pop. The unlocked tests of the
count are steps of their own. All appends of other tasks may happen in between.

**Telemetry** has one action per shared read or write of `enqueueLive`,
`emitEvent` and the connected branch. Its flash queue `stored` is a sequence
that behaves as `StoreForward` allows; what a race between replay and reclaim
may cost appears as `skipped`. `setup()` makes its write-ahead event as a task
of its own kind.

**NetworkTask** counts time in `Tick`, which happens only while the task sleeps
or is blocked in the driver. `clock` is `millis()` modulo `ClockSize`. `unfed`
is the time since `esp_task_wdt_reset`, and the watchdog fires exactly when it
reaches its limit.

**ModemLink.** The driver is a set of programs (attach, diagnosis, connect,
publish and so on), a program a sequence of exchanges: `task` is the program,
its step and what it waits for. `Send` empties `uart` and puts the command into
`inbox`; the modem answers the oldest command of `inbox` when it likes; a wait
takes the lines from `uart` that its loop takes and ends with one of the
outcomes of the code: the answer, a refusal, no handshake, silence. `modem` is
what the modem was told (client, authentication, SNI, files, topic) and whether
it has a session. `connected` is `_connected`, `err` and `history` tell what the
world did. `obliging` is a modem that accepts a topic without a session, which
its manual does not settle.

**CertStore** keeps for each of the three files the build whose bundle it
belongs to, none, or torn. `SendFile` is one `_cert_download`: the file is deleted
or, unnoticed, is not; a file that is still there stays as it is, whether the
modem answers OK or not. A listing that ends in ERROR counts as one without
names (`Listings`). The uploader deletes and writes the same files in the same
steps, without looking at the record. Two variables are history: `replaced`, an
upload has begun over files that a record vouches for and has not been
recorded; `kept`, the files that the modem kept under an OK of the last upload.

**CertBuild** has one step per file read, check, and write of the header; what
an engineer edits between two of them is read as it is then. A PEM file is its
label, whether its DER can be read, its key pair and its line ends.

**PowerMonitor** has one action per statement of a pass that an interrupt may
come before: reading the pins, testing the flag, clearing it, the decision on
each input, the waits for the flash. The task has the highest priority of its
core, so no tick passes between the others.

**Metering** reads one channel per action, with both queries and the probe of
`pzem_read` in it, and looks at all results in one.

**Reports** has one action per signal sample; `reportQueueHealth` is two, as the
flash queue may change between `storage_stats` and what is made of it. `streak`
and `untold` are histories of what should have been told.

**TimeService** gives every modem clock the instant it stands for, in quarter
hours; the firmware's way from the digits to an instant is then compared with
it. The four statements after `parseIso8601` are four steps, as are the two
reads of `makeRecord` in another task.

**The library modules** have one step per access to something shared: an atomic
of a ring or a list, a slot, a flag. `CircularQueue` numbers the elements as
they are accepted, `CircularQueueMP` per producer. `LockFreeList` is used in one
of two ways (`owned`): any thread pops the oldest node, as `lfllist_allocator`
does, or each removes its own. Modules that stand on others take them as single
steps as far as another module shows that they may. The rings of `SoftwareSerial`
are sequences (`CircularQueue`), and so are the completion sources' states
(`Completion`). Of the queue of `FastScheduler` `CircularQueueMP` shows that it is
not a sequence one sees all of (`hidden_item`): how much can be seen is a variable
(`visible`), and a push may raise it by any amount, none included, which covers what
pushes of other threads do to it. `LockFreeList` shows that a push is not one step for
who looks from the other end (`lfllist.h:88-91`): in `Cancellation` it is two, and a
sweep ends where `back()` is null. In `AsyncQueue` a push to its lists is one step,
which holds as long as no two pushes overlap, and its property ends where two do. In
`SoftwareSerial` the peer sends as `write()` does, in ticks, and the handler
notes what the tick counter says modulo its range. `FastScheduler` keeps
`deadlineUs` and a wrapping `micros()`; a function that runs may schedule, set
an alarm, or end. Two histories of an item say whose push it is until that thread has
read the deadline, and that a run has put the deadline off without seeing it. `MultiDelegate` keeps nodes on a heap; iterators are steps
outside the lock, and a node erased under another's iterator ends a behaviour
(`clash`): what follows is undefined.

**Delegate** has one action per constructor, assignment and destructor of the
class that the firmware's compiler sees. `alive` is the set of union members that
have been constructed and not destroyed, `meant` what a call is to do.

**Services and Library** hold no behaviour of their own. A behaviour is one
component, named by `component` or `part`, the others at rest, with "none" in
their variables. Names are those of the modules but where two modules use one
name. They exist because the components share no state, so that their product
would only multiply states.

## 3. What is checked

Every run is a `.cfg` of its module; `tlc -config X.cfg M` repeats it. A run
that expects a violation shows that the code does not do what a comment, a
document or a test says (section 6).

| Run | Configuration | Bounds | Shows |
|---|---|---|---|
| `ring_in_service` | `FlashQueue_in_service` | 9 slots in 3 sectors, checkpoint every 3, first sector delivered before, 12 appends, 2 power losses | count, order, erased head, oldest first, drops justified and counted; implements `StoreForward` and `DropCounter` |
| `first_records` (violation) | `FlashQueue_first_records` | 4 slots, blank flash, 3 appends | on a new device the second record is delivered first |
| `flash_faults` | `FlashFaults` | 6 slots in 2 sectors, first sector delivered before, 7 appends, 2 timeouts, 2 power losses | only a late erase breaks order or hides records |
| `replay` | `Replay` | 4 slots, blank flash, 6 appends, 1 power loss, publishes fail at will | forwarding in order but for the first record ever; marks without a publish only after a reclaim; records leave |
| `record_path` | `Telemetry` | three tasks, one place in each queue, flash of 2, 2 records, 1 power loss | every record accounted for; the cost of races and power losses bounded; every record settles |
| `supervisor` | `NetworkTask` | times 1..3, watchdog 2, clock modulo 5 | retries in time, sessions told, hold-up reserved, reconnects |
| `watchdog` (violation) | `NetworkTask_watchdog` | the device's times in units of 20 s | the watchdog resets a healthy device |
| `modem_link` | `ModemLink` | 2 faults of any kind, one answer owed when a command is sent | true means published, the session is the configured one, a lost one is noticed |
| `cert_store` | `CertStore` | 2 builds and the uploader, 2 restarts or flashings, 1 fault | the record is earned and vouches for own files, with the exceptions named; every mixture heals |
| `services` | `Services` (of `MCServices`) | see below, one component at a time | eight properties of `HeaderJournal`, `TimeService`, `PowerMonitor`, `Metering`, `Reports` and `CertBuild` |
| `library` | `Library` (of `MCLibrary`) | see below, one part at a time | one property, or a few joined, of each of the ten library modules; `CircularQueue` implements `Fifo` |
| `hidden_item` (violation) | `CircularQueueMP_visible` | two producers, ring of 2, 2 pushes each | an accepted item stays out of the consumer's sight |

Why the bounds are enough to meet the interesting cases:

* The ring runs go round the ring: 12 appends behind 3 earlier records on 9
  slots reclaim sectors of every kind (all delivered, part pending, all
  pending), with a power loss in an erase followed by one more in the erase
  that cleans up. Sectors have three slots: a head may be at the start of a
  sector, inside it or at its end, and an erase cut short twice may leave a gap
  between two survivors, which two slots cannot show. Three sectors so that
  the tail's sector, the head's and a third one differ.
* In `Telemetry` one place per queue makes every queue full with the second
  record. The flash holds both, one behind the other, and an append may give up
  what is there: a sector is as large as the flash. The queue depths of the
  device (24 and 8) change only how many records it takes.
* In `NetworkTask` the proportions matter: longest backoff (3) above the
  watchdog (2) above an attempt (1), as 300 s, 240 s and an attempt of about 70 s
  are, and a clock that wraps during a wait. An attempt takes that long when the
  modem answers; with most waits of `gsm_modem_init` (15 tests for the network,
  the bearer), of an upload and of the clock's setting at their timeouts it takes
  more than 240 s and ends by the watchdog, which `TimeAssumption` leaves out.
* In `ModemLink` a fault is a late answer, a refusal, a lost session, a restart
  of the modem or a message; two of them are, for instance, a session lost and
  an answer late while it is noticed. Whatever is sent, an answer still owed may
  come before the one that is waited for; two behind would need a modem that lets
  two whole timeouts pass. `ProductionSession` is proved without either bound.
  `TrueMeansPublished` holds with two answers owed and up to three faults, and with
  one owed and up to six; with two owed and four faults it does not (section 6).
* In `CertStore` three files make "some of them new" differ from "all"; two
  flashings are a change and a return, to the uploader or to another build.
* `services`: the journal has 3 entries a sector, 7 checkpoints, 2 drops, 1
  power loss and 2 timeouts, so that both sectors fill and the first is erased
  again, and fewer timeouts than a sector has entries, where `NewestIsSafe` must
  hold outright. The power monitor's debounces are 1 and 2 ticks, waits 1,
  `millis()` modulo 6: it wraps within a debounce, and ages beyond what
  `InTime` tells apart are one, so that the run has no bound on time. `Metering`
  has two channels, which share nothing but the order in which they are read,
  and three readings in a row. The ten modem clocks of `TimeService` lie around
  the ends of a year, of 2020 and of 32 bits, in zones on both sides; ages go up
  to a full round of `millis()` (5) and beyond. `Reports` judges three samples
  in a row as the device does, on a flash of 5 records in sectors of 2, with 4
  drops, so that two looks may each find new ones. `CertBuild` has two builds
  and two edits: one between two reads, one more to take it back.
* `library`: the ring holds 3 and is passed 7 elements, in blocks up to 3, so it
  wraps twice and a block may wrap. The serial line has two words of two bits
  and parity, room for 3 changes and 2 words, and two parities to an element:
  each buffer fills, and a word ends with and without a change of the line.
  Two producers push 3 items each, in blocks up to 2, on a ring of 2. The list
  has 3 threads and 3 nodes, so that a node, its neighbour and theirs may be in
  three hands. Three tasks: one first, one last, one between. Three waiters
  and two threads that cancel. Two writers push 3 times each on lists of 2. The
  scheduler has `micros()` modulo 8, two functions, one other thread, two periods:
  at once, and the longest wait. A stale deadline matters only to the first. Two
  callers and one eraser share a list of 3 delegates out of 4 added, so that
  nodes are recycled. Single delegates have three places, so that one may be
  copied to two, two functions and two objects.

Symmetry is not used: slots, ids and times are ordered, and the tasks differ;
where it were sound (producers, threads) the runs are small without it.

`CHECK_DEADLOCK FALSE` appears where something comes to an end: the last
checkpoint or build explored (`services`), threads that have pushed all they do,
coroutines that are done, a list that is destroyed (`library`, `hidden_item`),
an uploader that has done its work (`cert_store`). Everywhere else some step is
possible for ever: a flush, a sleep, a session that ends.

Type invariants are stated by the modules of the flash queue, the record path,
the supervisor, the certificates, the power monitor, metering and the time
service. `FlashQueue`'s is checked in `ring_in_service` and proved, those of
`Metering` and `Telemetry` are proved, those of the other modules serve the proofs,
some of them as the first part of an invariant. They are not among the properties of the other runs, which
are spent on what could go wrong.

Some properties join several that belong together: `OldestFirst` is
`TailIsOldest` and `DeliveredInOrder`; `DropsJustified` is `ReclaimJustified` and
`DropsCounted`; `FaultsAreContained` is `OrderUnlessEraseLate` and
`HiddenOnlyAtHead`; `ForwardsFaithfully` is `ForwardedInOrder` and
`SkipsOnlyAfterReclaim`; `NothingDisappears` is `Accounted` and
`OnlyPlainEventsRace`; `SessionsAreTold` is `StateTellsSession` and
`SessionsAreReported`. Those of `services` and `library` are named in `Services`
and `Library`.

Properties of particular interest:

* `KeepsPromise`, `KeepsCounter` and `RingIsFifo` are refinements. Until the
  first power loss every step of the flash ring is a step of `StoreForward!Next`
  or a stutter; after it also `Lose` (at most a sector at once). The mapping is
  `waiting` to the ids of the pending pages, `delivered` to `popped`, `newest`
  to the highest id whose append has ended. `DropCounter` is implemented twice:
  by `FlashQueue`, whose checkpoint is one step, and by `HeaderJournal`, whose
  checkpoint is up to three flash commands cut short anywhere. `CircularQueue`
  implements `Fifo`: in the middle of a sweep (`for_each_rev_requeue`) the queue
  is what was not looked at and what was kept.
* `ReclaimJustified` carries the surprising cases of the ring. After a power
  loss the head may be inside a sector whose page was torn, and the next append
  erases the pending records before it in that sector; and after two, gaps in
  a sector make the ring full with fewer records than it has slots. All that is
  given up is counted.
* `DropsCounted`: the counter is exact while power holds, and after a power loss
  too low at most: a torn erase destroys records that nobody counted.
* `HiddenOnlyAtHead`, `OrderUnlessEraseLate`: timeouts of programs cannot break
  the ring; a timed-out erase can, because bookkeeping is not rebuilt.
* `StateTellsSession`: after a failed subscription the session stays up while
  the state says BACKOFF; its end is not reported.
* `MainsAreTracked`: the flag that `powerFailIsr` sets may be cleared by the task
  with an edge unseen, but only an edge of the same pass, from which the
  debounce counts anyway.
* `StampsAreHonest` states both cases in which a time is called synchronised and
  is not: after a reset, whose boot takes a clock that went on for
  synchronised then, and 49.7 days after the last session began.
* `ClockIsRight` includes that an unset clock is refused (`RefusalStep`), because
  `time_t` has 32 bits. The comment at `at_mqtt.cpp:345` explains why an upper
  bound is needed; `parseIso8601` has none.
* `LossIsNoticed` holds although "+CMQTTCONNLOST" is thrown away whenever it is
  in the UART as a command is sent: the next publish fails. It needs a modem
  that refuses a topic without a session. With one that takes it (`obliging`)
  every publish ends with an error code, `at_mqtt_publish` (`at_mqtt.cpp:1021`)
  leaves `_connected` as it is, and nothing else looks.
* `ProductionSession` leaves out attempts in which a late answer was taken for
  another command's or the modem restarted (`disturbed`): then an unanswered
  `AT+CSSLCFG="authmode"` may pass for answered.
* `SignalIsLastThree` (in `ReportsAreRight`): "three in a row" are three without
  a sample of another kind between them; samples between the thresholds, and
  passes without a sample, change nothing and do not break a row.

## 4. Fairness

Fairness is assumed in `replay`, `record_path`, `supervisor`, `cert_store` and
`modem_link`; the other runs check safety only:

* *Weak fairness on the steps of a task* (`ReplayFlashStep`, `Deliver`,
  `LoopStep`, `UploadFile`, `TaskStep`, `Poll`...): the FreeRTOS scheduler runs
  every ready task, the holder of a mutex is never deleted, every wait in the
  code has a timeout.
* *Strong fairness on taking the flash mutex* (peek, pop): FreeRTOS mutexes wake
  the waiting task of highest priority, and appends come seconds apart.
* *Strong fairness on success of the outside world* (`PublishOk`, `Connect`,
  `InitOk`, `ConnectOk`, deletion and upload of each file in an attempt in which
  the files before it have got through, a write to NVS): a network that is asked
  again and again answers in the end. It is an assumption about
  the environment, not a fact of the code; without it no delivery can be
  promised. A record whose publish fails every time (a payload the modem
  rejects) is excluded by it and listed as a hazard.
* *Strong fairness on beginning a publish* (`ModemLink`): the metering task makes
  a record every few seconds, so a connected network task always has one soon.
  The modem's answers (`ModemStep`, `Result`) are weakly fair: it does one command
  after the other, how late is not bounded, so a timeout may always come first.
* *Time* (`Tick`, `WatchdogReset`, strong): time goes on whenever the task
  sleeps or blocks.

No fairness is given to appends, power losses, pin changes or faults.
`HandshakeFails` gets strong fairness in `CertStore` for the opposite reason: a
handshake with wrong files does fail, and some failures come twice in a row.

## 5. What is proved

**The calendar.** `ServicesProofs` proves `EveryDayIsRight`, `Walk => []DaysAreRight` for a walk
that begins on 1970-01-01 and does not end, so no run of TLC covers it: the
formula of `parseIso8601` agrees with the calendar on every day. The invariant
is inductive together with the range of the date. The steps within a month and
to the next one are settled by the table that `(153 m + 2) / 5` is; the step to
March by `YearGrows`: the days of a year that ends in February, leap or not,
also across an era of 400 years. No assumption on a constant is needed.

**The flash queue.** `FlashQueueProofs` proves about `FlashQueue`, for every
ring, checkpoint interval, number of earlier records and bound allowed by the
assumptions:

| Theorem | Statement |
|---|---|
| `InductiveInvariant` | `Spec => []IInv` |
| `TypeCorrect` | `Spec => []TypeOK` |
| `CountIsExact` | `Spec => []CountMatches` |
| `NoOverwrite` | `Spec => []HeadIsBlank` |
| `RingStaysSorted` | `Spec => []RingSorted` |
| `DropsAreCounted` | `Spec => []DropsCounted` |

and, building on it, for every ring whose first sector was filled before
(`PriorRecords >= SectorSlots`):

| Theorem | Statement |
|---|---|
| `OldestGoesFirst` | `Spec => []OldestFirst` |
| `OnlyFullQueuesDrop` | `Spec => []DropsJustified` |
| `PromiseKept` | `Spec => KeepsPromise` |
| `TimeoutsAreContained` | `FaultSpec => []FaultsAreContained` (`FlashFaults`) |

and again for every ring, a blank one included:

| Theorem | Statement |
|---|---|
| `ForwardingIsFaithful` | `ReplaySpec => ForwardsFaithfully` (`Replay`) |

The assumptions on constants are those the module states: `GeometryAssumption`
(a whole number of sectors, two at least: 32736 slots in sectors of 16 on the
device), `PriorAssumption` (what an earlier life left fits the ring) and
`BoundAssumption`. The theorems of the second table need the filled sector: the
first three are false without it, since on a blank flash the scan puts the tail at slot 1 and the
head at 0 (section 6).

None of the properties is inductive alone. The erased head needs that a
rebuild after an erase puts the head into the sector just erased, that is, that
the newest valid record lies directly before that sector; that needs the ring
to be sorted; and sortedness is kept by the next record only if its order is
above all others. So `IInv` has these parts:

* `RingShape`: seen from the head a scan would find, orders grow
  (`SortedFrom`), and either the slot before the head's sector is valid
  (`SealedBefore`), or the ring is in its first lap and holds nothing but a
  part of the first sector (`FirstLap`). It speaks of the flash only and so
  survives a power loss.
* `OrdersBounded`: every order on flash is below the next one.
* `HeadPage`: the head in RAM is the one a scan would find, the page there is
  blank before a body is programmed and holds that body before its commit.
* `CountMatches`, `TypeOK`, and two facts about `pc`.

An erase, complete or torn, removes records of the head's sector only: what
remains is sorted, the sealing slot lies outside, and a new scan ends either
there or at a survivor inside the sector. The lemmas on `Offset`, `Succ` and
`SectorOf` give the arithmetic of the ring; there is one lemma per action.
`DropsAreCounted` adds what an erase that has been counted is about to take
(`Doomed`) to what it took.

For the order of delivery, `Ordered` adds to `IInv` that the first lap is over
(`SealedBefore`), that delivered pages are older than pending ones (`InOrder`),
and that the tail is the oldest pending page, or the head if nothing is pending
(`TailDue`): what a scan leaves, a pop and an append keep. For the reclaims,
`Tidy` says that while power has held the ring has no gaps (`Gapless`): the pages
of the head's sector before it are valid, and either the head has room in front
of it and all other sectors are full, or not yet written (`Room`), or every
slot is valid and the head at the start of a sector (`Full`). The erase that
takes a pending record then finds a full queue. A power loss may leave gaps;
there the property names the exceptions.

The refinement needs that different pages carry different ids and that the
pending ones, in their order, are the abstract `waiting` (`Numbered`). Each flash
command is then one abstract step or none: a commit is `Accept`, a pop is
`Deliver`, an erase is `Reclaim` if it takes pending records and then the queue
was full, a power loss is `Lose` or nothing, the rest stutters. That the drop
counter follows `DropCounter` is a lemma of its own, `CounterImplemented`.

Where flash commands time out, `IInv` is not invariant. What survives of it is
`RingInv`, all but the page of the head and the count. `TimeoutsAreContained`
rests on `FaultInv`: while every erase ends in time the queue is in one of three
modes. Its bookkeeping is exact (`Exact`, which is `IInv` and `Ordered`); or a pop
was told that it failed though the page was marked, so that the tail rests on a
delivered record and the count is high (`LatePop`); or a commit ended late, and
the RAM describes the ring as it would be without the page at the head
(`LateCommit`, by way of the pages `Undone`). A scan and a reclaim lead back to
`Exact`; from `LateCommit` no append can write over the record at the head, since
its page is not blank. The mode is told by the pages and the RAM, so no history
variable is needed, and there is no bound on the number of timeouts.

`ForwardingIsFaithful` adds two invariants to `IInv` and `Numbered`. `TailFirst` is
what is left of `TailDue` on a ring that started blank: the tail is a pending page
with none older but the one of order 1; or it is the head and nothing else waits;
or no page is valid, the tail is slot 1 and the head slot 0. `Forwarding` says of
the network task that what it has forwarded is older than all it has not, that
the record in its hand is as old as the oldest one waiting, has been accepted by
the time of the pop, and until a reclaim is still the one at the tail.

**Certificates.** `CertStoreProofs` proves `OwnFilesAreTrusted` and `RecordEarned`
for any number of builds, restarts and faults. The invariant, of a modem that
keeps its files, is that during an upload all files before the one under way are
this build's, or `kept`, unless something failed (`SentIsThere`), and that a
record over whose files no upload has begun (`replaced`) stands for complete files
of its build, but for the ones kept then, and no upload is under way
(`RecordVouches`).

**The modem.** `ModemLinkProofs` proves `SessionIsProduction`, `Spec =>
[]ProductionSession`, for any number of faults (`MaxFaults`) and however many
answers the modem owes when a command is written (`MaxBehind`); no assumption on
either is needed. The invariant follows an attempt that nothing has disturbed:

* `AllOld`: once an exchange is over, whatever the modem still owes is of the past.
* `Answered`: the command under way is the last that was written, behind what is
  old (`FreshLast`). A prompt left open by an earlier publish would take a command
  for its text, but it has taken the attempt's first one at the latest, the
  `AT+CMQTTDISC` whose answer does not matter (`PromptsBefore`). So an OK that
  belongs to the command means that it was carried out, and that the modem has
  done with everything older.
* `Configured`: from the step behind the authmode on nothing is owed that could
  undo it (`OnlyHarmless`), and what was answered by then is in force: the
  authmode, the SNI and at last the client. Without the OK the driver gives up, but
  for steps that set nothing.
* `Production` and `Settled`: a session has the three, and until it ends the task
  runs nothing that would change them, nor does the modem owe such a command.

A late `authmode=0` or SNI of the diagnosis before the attempt is thereby done with
before the attempt sets its own.

**The supervisor.** `NetworkTaskProofs` proves `SessionsTold` and `HoldUpKept` for
any times of the device. `SessionInv` relates `wasConnected`, the state and the
step of the pass to the session and to what was last reported of it;
`OutageKnown` says that without a reset the supervisor knows of an outage that
was reported, and that a pass which knows of it has not gone on to an attempt.

It proves `RetriesKept` (`Spec => []RetriesInTime`) from one hypothesis on the
constants, `WatchdogTimeout <= BackoffMax + MaxJitter`: 240 s and 301 s on the
device. The invariant, `WaitInv`, is that what the device waits without an attempt
it waits without feeding its watchdog, so that the watchdog ends every wait in
time, one for a `nextConnectAt` that a wrap of `millis()` has put far ahead
included. (It also ends waits that are in order, the finding `watchdog`.)

**The record path.** `TelemetryProofs` proves `TypeCorrect` (`Spec => []TypeOK`)
and `RecordsAccounted` (`Spec => []NothingDisappears`) for any tasks, depths,
flash sizes, numbers of records and power losses. The invariant `Safe` says that
a task at a step that moves a record has one (`Types`), where each task is with
its record: still its own, or stored before it is offered to a queue that may
drop it (`Placed`), that the network task makes no record while it publishes one
(`Publishing`), and the two halves of the property. What the flash or the broker
has, or what is lost in a known way (`Kept`), no power loss takes; each step
moves a record into that set or keeps it where it was. `WriteAheadSafe` (`Spec =>
[]WriteAheadKept`) follows from the same invariant.

**The services.** The other theorems of `ServicesProofs` speak of the behaviours of
`ServicesSpec`; their invariants are those of one component, and say nothing
while another runs.

| Theorem | Property | The invariant, beyond types |
|---|---|---|
| `TypeCorrect` | `TypeOK` of `Metering` | |
| `FaultsAreRight` | `FaultIsLastThree` | `CountersFollow`: of a channel's two counters the one that can end its present state has the length of the streak against it, the other is 0 |
| `AnswersAreRead` | `WhatAnswersIsRead` | `PinsFollow`: swapped pins mean crossed wires; a crossed unit that was probed and is not on swapped pins was silent then |
| `ReportsRight` | `ReportsAreRight` | `SignalInv`: the counter that matters next has the length of the row, the others are 0; `DropsInv`: a drop not told is above what was notified, and above what was looked at unless it was seen |
| `ImagesSound` | `ImagesAreSound` | `CertsInv`: what each build has read and checked by its step; a whole header or image has files that go together and their fingerprint, and unless edited the CA of the endpoint |
| `StampsHonest` | `StampsAreHonest` | `AgeInv`: for a round of `millis()`, `lastSyncMs` tells the age of the clock; `StampInv`: what was judged by a clock that was set is stamped by one |
| `ClockRight` | `ClockIsRight` | `ClockInv`: the clock is not wrong; the arithmetic is the lemma `DaysOfThisCentury`, for every day that two digits of a year can tell |
| `MainsTracked` | `MainsAreTracked` | `PowerInv`, below |
| `JournalSafe` | `GenerationsAreUnique`, `NewestIsSafe` | `JournalInv`: generations are unique and none is above the one in RAM (`OrderInv`), the step under way finds its page as it needs it (`SlotInv`), and while the newest header is in the other sector, every used entry of the active one is a command that timed out (`UsedInv`) |
| `CounterKept` | `KeepsCounter` | the same |

Every constant is arbitrary within what the modules assume of it: the number of
channels and readings, of samples and records, of builds and edits, the readings
of a modem clock, the size of a sector of the journal. Of the assumptions two say
something of the device. `PowerMonitor` assumes that a round of `millis()` is longer
than the longer debounce and the longest pass together (49 days against
seconds), since the code subtracts two of its values. `TimeService` assumes that its
readings are what a modem can show and that the window is shorter than a round.
`CounterKept` has a hypothesis of its own, `MaxTimeouts < EntryCount` (61 entries a
sector on the device): the case beyond it is the finding at `storage.cpp:239`.

`PowerInv` bounds how long ago the pass has read its inputs (`SinceInv`); says that
what was read or noted is as the input is but for a later edge (`ReadInv`,
`NotedInv`) and that the interrupt flag tells of no edge before the last pass
(`FlagInv`); that what is noted and not decided on is about as old as the input is
quiet, and too young for the clock to have wrapped (`PendingInv`, `FlushInv`); and
that the mains have been quiet for as long as what is noted of them is old, unless
the flag tells of an edge (`QuietInv`). An edge that clearing the flag loses falls
into the pass that clears it, and from that pass the debounce counts anyway.

`CounterKept` is a refinement: a checkpoint of up to three flash commands is a
`Save` of `DropCounter` at the command that completes the entry, and a stutter
before and after; a power loss or a timeout leaves the old newest entry or the new
one. What makes it so is that the entry written has the highest generation and
that an erase never takes the newest one.

**The libraries.** The theorems of `LibraryProofs` speak of the behaviours of
`LibrarySpec` in the same way.

| Theorem | Property | The invariant |
|---|---|---|
| `QueueIsFifo` | `RingIsFifo` | `RingInv`, below |
| `CoroutinesWakeRight` | `WaitsForTheRight` | `WaitInv`: one task at most is the one that completes the whole; `ready` is set by whoever comes first of it and of the coroutine that suspends |
| `CancellationReleases` | `WaitersAreReleased` | `TokenInv`: while the token lives who waits is in the list or has its outcome; who was in the list when the flag went up, its oldest node linked, has its outcome or is in the list with a sweep under way and its oldest node linked; the destructor leaves nobody behind |
| `QueueDelivers` | `NothingStranded` | `AsyncInv`: while no pushes overlap the completion sources are, in order, the set ones, one for each item in the list, and then the unset ones; what was taken, with what is in the list, is what was accepted |
| `ProducersDeliver` | `MpDelivers` | `MpInv`, below |
| `NobodyOversleeps` | `NeverOversleeps` | `FastInv`, below |
| `ListHoldsTogether` | `ListIsSafe` | `ListInv`, below |

`QueueIsFifo` is the refinement of `Fifo` by the ring for every capacity and size of
blocks. The abstract queue is what lies between the two positions, in a sweep
(`for_each_rev_requeue`) what is still to be looked at followed by what was kept.
`RingInv` consists of `RingType`; `RoomInv`, what the producer took for free is
free whatever the consumer has done since, and what it copied lies behind the
elements; `FilledInv`, the slots between the positions hold elements; and
`TakerInv`, what the consumer noted lies inside the ring and is what is there.
`Shape` gives the abstract queue by index: element `i` is in the slot so many
places from the out position. Then each step of the producer leaves all of these
slots alone or adds some at the end (`PushKept`), each step of the consumer takes
the first one (`OutMoves`, `FrontGoes`), gives back an element of the middle
(`RemovedIs`), or moves kept ones (`RequeueKept`), and each is one step of
`Fifo!Next` or none (`RingKept`). That a push of several stores all that fits is
`PushNFills`. The arithmetic of positions modulo the size of the ring is in the
lemmas on `Wrap` and `Ahead`.

`MpInv` holds of the ring of several producers as long as no `push_n` has stored past
its claim or claimed with an `m_outPos` that had moved on (`hurt`). Positions are
compared by their distance from `m_outPos`, which the consumer moves. `ClaimInv`: a
claim under way lies between what is published and `inPosMp`, ends before the end of
the buffer and before `m_outPos`, and no two that are being filled overlap.
`PublishInv`: one producer at most publishes, and what it read of `inPosMp` is
before all that others fill or are about to claim; the counter equals the number of
producers inside, so who reads 1 is alone, and whoever comes later loads an
`inPosMp` no smaller than what was read. `HeldInv`: the slots claimed and filled hold
exactly the items each producer has stored and the consumer has not taken.
`InOrderInv`: each producer's come in order. `ReadingInv`: what the consumer has read
is still there. Most steps of a producer change its own place only, and one lemma
(`Undisturbed`) serves them all.

`FastInv` is the one of the scheduler, for a queue that lets any part of its items be
seen. How long until the deadline, counted below zero
once it is past (`Until`), and how long ago a function was called (`Age`) add up to no
more than its period and the time a call takes: then the function is covered. Time
moves both and leaves the sum, a call that lowers the deadline lowers it. What is not
covered is cared for by a thread that has scheduled it and not lowered the deadline
yet, and the deadline it read has not been put off since (`QueueInv`). A run puts the
deadline off for all: of what it is to look at nothing is known then, and what it has
kept is covered but for the one in hand (`KeptInv`). What it cannot see stays cared for
while its thread has yet to read the deadline, and else is "missed", of which nothing
is claimed until a run sees it. The theorem has a hypothesis, `InTime`, since `micros()`
wraps: calls take less than half a round of it, and no period with three such delays
fills a round (36 and 71 minutes on the device, whose periods are seconds). It
suffices; that it is needed is not claimed.

`ListInv` is the one of the lock-free list. `order` is the chain as it is once every
link is in place, and the links in memory are those of `order` except where a call
in progress has yet to write one: `EndsInv` says so of the first node and of the
newest, `EdgeInv` of each node and the next older one, in both directions. `PlaceInv`:
a node is in the list, in a hand or on its way out, and no two calls are about one
node; `OwnerInv`: where threads remove their own nodes, nobody else does. `LockInv`: a lock that is taken is held by exactly one call. `UnlinkInv`: who
removes a node and holds its lock and that of the next has the two real neighbours;
a `pred` it has read stays its neighbour, because whoever removes that one needs the
lock of this one first. `PopInv`: who pops is alone, and its node is the oldest.
The proof goes through the steps of `push` and of the removal one by one (`*Kept`);
in each, `order` either stays, grows at the end or loses one place. Nothing is
assumed but that nodes, the sentinel and the null pointer are told apart
(`ListAssumption`).

Only model-checked are, of safety: `TrueMeansPublished` (`ModemLink`), which is
false for some values of the constants and so cannot be proved for all of them;
`SerialIsFaithful` and `CallsAreComplete` (`Library`). Liveness (`RecordLeaves`, `Settles`, `Reconnects`, `GetsThrough`,
`LossIsNoticed`) needs fairness and ENABLED, which are outside what the prover
handles.

## 6. Where code and documents disagree

| Run | Finding |
|---|---|
| `first_records` | `storage.cpp:212`: on blank flash the tail is 1 and the head 0; the first record is delivered after the second, as late as the next scan. |
| `watchdog` | `main.cpp:291`: the disconnected branch does not feed the watchdog of 240 s while backoffs go up to 300 s; the comment at `main.cpp:404` promises not to reset a healthy reconnect attempt. |
| `hidden_item` | `circular_queue_mp.h:214`: a producer may publish a position it read before another one's slot, and both leave; the item accepted (`circular_queue_mp.h:95`) is not seen before the next push. |

Met while modelling, without a run that is expected to fail. In the firmware:

* `main.cpp:368`: a record is peeked, published and popped with the mutex free in
  between. If an append reclaims its sector meanwhile, `storage_pop` marks the
  record the tail has moved to, which nobody published. `SkipsOnlyAfterReclaim`
  shows that this is the only way a record is marked unpublished; in
  `Telemetry` it is the way `skipped`.
* `storage.cpp:239`: a checkpoint that times out uses up its entry. After 61 of
  them in one sector the next checkpoint erases the sector that holds the
  newest header. `NewestIsSafe` states the exact condition.
* Two power losses, each in an erase, can leave gaps in a sector; the ring then
  reclaims pending records while it holds fewer than its size
  (`ReclaimJustified`).
* `main.cpp:292`: the mains flag is read once before an attach, and starts as
  false after a watchdog reset, while the comment at `main.cpp:293` promises
  never a fresh attach in the hold-up. `HoldUpReserved` names both cases and
  shows that there is no third.
* `at_mqtt.cpp:258`: the record is not dropped when an upload of other files
  begins. A device that goes back to the earlier build in the middle of one, or
  to the firmware after the uploader of another bundle, finds its old record
  over files it does not stand for and tries them, until two TLS failures drop
  it (the comment at `at_mqtt.cpp:154` promises an upload whenever the files do
  not match).
* `at_mqtt.cpp:195-197`: a listing that ends in ERROR counts as one without files.
  So the firmware uploads over files that are right and whose record is its own;
  if power fails in the middle, the next boot finds that record over a torn file.
* `at_mqtt.cpp:204-207`: the comment says that the modem keeps a file that has not
  been deleted, and the result of `AT+CCERTDELE` is thrown away. If the command is
  not carried out and the modem answers the upload with OK, the record is written
  over an old file, and the listing that is to be trusted instead of the three
  OKs (`at_mqtt.cpp:287`) tells names only. The uploader is the same
  (`main.cpp:127-137` there). `RecordIsEarned` and `TrustsOwnFilesOnly` name these
  three cases and show that there are no others; `GetsThrough`, that all heal.
* `at_mqtt.cpp:429-430`: `AT+NETOPEN` is written without emptying the UART first,
  unlike every other command. A failed subscription leaves `_connected` true.
* `at_mqtt.cpp:976`, `:996`: any '>' is taken for the prompt of the command just
  written, and after the text any first OK for its answer. A modem two whole
  timeouts behind (`MaxBehind = 2`, four faults) may refuse a payload while the
  driver reads the OK of an older command, and then publish the payload it still
  has of an earlier publish; `at_mqtt_publish` returns true and the record is
  marked delivered. With one answer owed no such behaviour was found
  (`TrueMeansPublished`).
* `main.cpp:40`: `mainsLost` starts as false at every boot. A device reset in an
  outage that is over by then never sends EVENT_MAINS_RESTORED
  (`TheLastReportHolds`).
* `main.cpp:43`: `lastDroppedNotified` starts at 0 while the drop counter is
  restored, so every boot tells again of old drops; `DropsAreTold` is about the
  other direction, that no drop stays untold.
* `pzem.cpp:156`: the probe for crossed wires is made once per boot; a crossed unit
  that is silent just then is not read before the next (`WhatAnswersIsRead`).
* `at_mqtt.cpp:1151`: an answer of the modem without zone leaves `tz` uninitialised,
  and whatever it holds goes into the clock (the value "stray" of `TimeService`).
* `main.cpp:152`: an event that finds a session at the first look and none at the
  second is dropped without a trace; `OnlyPlainEventsRace` bounds it.

In the libraries:

* `circular_queue_mp.h:272-280`: the second block of a `push_n` is counted for the
  caller and not claimed, and the free room is that of an `m_outPos` read before;
  both are `hurt` in `CircularQueueMP`.
* `lfllist.h:97`, `:109`, `:156`, `:168` claim "full concurrency safety for unique
  nodes" of removals by their owners. In the model as in the code a thread that removes
  or pushes its node may still touch a neighbour that its owner has just taken out, and
  may have destroyed. `NoLateTouch` is about `try_pop` only, where it holds; of owners
  it is shown that the list stays whole.
* `FastScheduler.cpp:173`: a function that the queue hides (`hidden_item`), because
  pushes overlapped, is passed over by a run which puts the deadline off: the task may
  then sleep past it, against `FastScheduler.h:69`. `NeverOversleeps` leaves such
  functions out until a run has seen them (`missed`). What `FastScheduler.h:71-73` leaves
  out, functions scheduled since the last run, it covers.
* `async_queue.h:46`: when two pushes overlap, completion sources may be left in
  another order than they are set in, and the consumer sleeps beside an item;
  `NothingStranded` holds as long as no pushes overlap.
* `cancellation_token.h:127`: a waiter that enters the list after the sweep calls
  `cancel()` again, which returns at once because the flag is up; and a sweep that
  begins while the oldest node is half pushed (`lfllist.h:88-91`) finds `back()` null
  and ends, with complete nodes behind. Both kinds of waiters wait for ever, though
  the comment at `:126` promises to process them. `WaitersAreReleased` leaves them out.
* `cancellation_token.h:128`: a waiter reads its completion source by way of a node
  that the sweep of a `cancel()` may have freed (the outcome "lost" in
  `Cancellation`).
* `MultiDelegate.h`: an iterator outlives the lock, so that an erase by another
  thread may free the node under it (`clash`); the lock masks interrupts of its
  own core only (`:48`); assigning `nullptr` frees nodes and leaves `first` and
  `last` (`:145`); the fence is one for all lists of a type (`:376`).
* `SoftwareSerial.cpp:481`: a change of the line between the check for newer ones
  and the reading of the clock is missed; `WordsAreThoseSent` excludes it (`late`).

## 7. What is not modelled

* A torn record page whose first four bytes are still erased: the models let a
  program that is cut short leave nothing or garbage in the marker, while a chip
  may have programmed later bytes only.
* Commands sent to a chip that is still busy after a timeout; the models let the
  timed-out command have its whole effect at once.
* How long a scan of the ring holds the mutex, how long a pass of the network
  task takes, output for debugging, LEDs.
* AT lines of more than 255 characters, and the exchanges of provisioning below
  their outcomes: deletion and upload of a file are one step of the firmware
  (`SendFile`), with all the contents that they may leave. Of diagnosis attempts and
  probes that differ only in their address one each stands for all.
* The contents of payloads, measurements and diagnoses; calibration; the text of
  a time, the bytes of a PZEM frame and of a PEM file, ASN.1; `pzem_set_address`,
  which nothing calls.
* `time_t` of 64 bits, as newer toolchains have it: `platformio.ini` does not pin the
  platform, and with the one of Arduino core 2 it has 32.
* Of the software UART: `peek`, the receive callback, one-wire mode, the
  level-triggered handler `rxBitSyncISR` and transmission with masked interrupts.
* Of the library: the specialisations of `Delegate.h` for other compilers, its
  comparisons and conversions, `task.h` and `generator.h` (the plumbing of coroutines), `capacity(cap)` and moves of rings
  (not meant to run concurrently), `ghostl.h`, examples but as clients.
* Weak memory: steps of the library modules are sequentially consistent.
* Host tools and generated code, which share no state with the running firmware.

## 8. Plan

1. A record that the modem rejects every time: what it blocks, as a run that
   shows the replay stuck behind it.
2. `PowerMonitor` composed with `NetworkTask`, which has `mainsLost` as an input
   now, and with `Telemetry` for the write-ahead events.
3. Proofs of the list of delegates and of the software UART.
