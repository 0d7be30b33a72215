\* Two producers that push one item at a time.
CONSTANTS
    Producers = {p1, p2}
    MpCapacity = 2
    MaxItems = 2
    MaxBlock = 0
SPECIFICATION Spec
INVARIANT NoItemHidden
\* Producers that have pushed all stop.
CHECK_DEADLOCK FALSE
