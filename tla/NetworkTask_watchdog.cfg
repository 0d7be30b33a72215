\* The times of the device in units of 20 s, rounded up.
CONSTANTS
    FirstBackoff = 1
    BackoffMax = 15
    MaxJitter = 0
    WatchdogTimeout = 12
    AttemptMax = 4
    PublishMax = 2
    ClockSize = 214749
SPECIFICATION Spec
INVARIANT HealthyNeverReset
