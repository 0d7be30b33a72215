\* Each part on a small instance.
CONSTANTS
\* The circular queue on a ring of three, elements in blocks.
    Capacity = 3
    MaxPushed = 7
    MaxBulk = 3
\* The serial line: two words, two bits and a parity bit each; buffers that fill.
    DataBits = 2
    HasParity = TRUE
    StopBits = 1
    BitTicks = 1
    Latency = 0
    IsrCapacity = 3
    BufCapacity = 2
    ParityGroup = 2
    TickRange = 8
    Words <- MCWords
    MaxIdle = 2
\* Two producers in blocks of up to two on a ring of two.
    Producers = {"p1", "p2"}
    MpCapacity = 2
    MaxItems = 3
    MaxBlock = 2
\* The list: three threads, a node each.
    Threads = {"t1", "t2", "t3"}
    Nodes = {"n1", "n2", "n3"}
    Nil = "nil"
    Sentinel = "sentinel"
    OwnerOf <- MCOwnerOf
\* Coroutines: three tasks; three waiters and two that cancel; two writers.
    Tasks = {"a", "b", "c"}
    Waiters = {"w1", "w2", "w3"}
    Cancellers = {"c1", "c2"}
    Writers = {"w1", "w2"}
    ListCapacity = 2
    MaxPushes = 3
\* The scheduler: micros() that wraps after 8.
    Pushers = {"p1"}
    Periods = {0, 3}
    ClockRange = 8
    MaxScheduled = 2
    MaxLate = 1
\* Delegates: two callers, one that erases.
    Callers = {"c1", "c2"}
    Erasers = {"e1"}
    NodeCapacity = 3
    MaxAdded = 4
\* A delegate: three places, two functions, two objects.
    Places = {"p1", "p2", "p3"}
    Targets = {"f", "g"}
    Objects = {"o1", "o2"}
SPECIFICATION LibrarySpec
INVARIANTS MpDelivers ListIsSafe WaitsForTheRight WaitersAreReleased NothingStranded  CallsAreComplete
PROPERTIES RingIsFifo SerialIsFaithful
\* What is bounded comes to an end.
CHECK_DEADLOCK FALSE
