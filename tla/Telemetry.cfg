\* All tasks, with one place in each RAM queue: the second record finds it full.
\* The flash holds both records, so that one may wait behind the other, and may
\* have to give up either.
CONSTANTS
    Tasks = {"meter", "power", "network"}
    LiveDepth = 1
    UrgentDepth = 1
    Capacity = 2
    ReclaimUnit = 2
    MaxRecords = 2
    MaxCrashes = 1
SPECIFICATION FairSpec
INVARIANT NothingDisappears
PROPERTIES WriteAheadKept Settles
