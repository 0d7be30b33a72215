\* Each component on a small instance.
CONSTANTS
    PhaseCount = 2
    PhaseFaultCount = 3
\* The journal: both sectors filled more than once, with power losses and timeouts, fewer
\* than a sector has entries.
    EntryCount = 3
    MaxCheckpoints = 7
    MaxDrops = 2
    MaxCrashes = 1
    MaxTimeouts = 2
\* The mains, in ticks of 20 ms: the debounces of 5 and 250 ticks shortened, their order kept.
    FailDebounce = 1
    RestoreDebounce = 2
    MaxBusy = 1
    PowerWrap = 6
\* The time, in ticks of three hours: millis() wraps after 5 of them instead of 397.
    Readings <- MCReadings
    Unset <- MCUnset
    NoZone <- MCNoZone
    Strays = {0, 26, 396}
    Window = 2
    Wrap = 5
    MaxAge = 7
\* The reports: a flash of five records in sectors of two.
    ConsecutiveCount = 3
    Capacity = 5
    SectorRecords = 2
    MaxDropped = 4
\* The certificates: the firmware and the uploader, built at once.
    Builds = {"firmware", "uploader"}
    Contents <- MCContents
    MaxEdits = 2
SPECIFICATION ServicesSpec
INVARIANTS StampsAreHonest FaultIsLastThree WhatAnswersIsRead ReportsAreRight ImagesAreSound
PROPERTIES KeepsCounter ClockIsRight MainsAreTracked
\* The last checkpoint or build may be the end.
CHECK_DEADLOCK FALSE
