SPECIFICATION PacingSpec
CONSTANTS
    Waiters = {d1, d2}
    Acquirers = {d1, d2}
    Closers = {main}
    APIEnabled = TRUE
    MaxGates = 3
    Capacity = 2
    MaxTicks = 2
INVARIANTS NoLostWakeup OneReleasePerPause RateBound
PROPERTIES ResumeReleases CancelledDispatcherReturns
