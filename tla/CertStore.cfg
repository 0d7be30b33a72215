\* Two builds, uploads cut short, a fault of the modem; the uploader stops in the end.
CONSTANTS
    Builds = {1, 2}
    MaxRestarts = 2
    MaxFaults = 1
SPECIFICATION FairSpec
INVARIANT TrustsOwnFilesOnly
PROPERTIES RecordIsEarned GetsThrough
CHECK_DEADLOCK FALSE
