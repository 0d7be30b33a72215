\* Small times in the proportions of the device: the watchdog fires before
\* the longest backoff is over, and millis() wraps.
CONSTANTS
    FirstBackoff = 1
    BackoffMax = 3
    MaxJitter = 0
    WatchdogTimeout = 2
    AttemptMax = 1
    PublishMax = 1
    ClockSize = 5
SPECIFICATION FairSpec
INVARIANT RetriesInTime
PROPERTIES SessionsAreTold HoldUpReserved Reconnects
