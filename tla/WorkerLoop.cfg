\* Two retained purge obligations against ordinary work, with one crash and
\* restart, and a shutdown at any await.
CONSTANTS
    PurgeJobs = {p1, p2}
    OtherJobs = {o1}
    MaxPerTick = 2
    MaxAttempts = 2
    MaxCrashes = 1
    MayStop = TRUE
    NoLease = NoLease
CHECK_DEADLOCK FALSE
SPECIFICATION LiveSpec
INVARIANT QuietWhenDown
PROPERTIES NoWorkAfterStop ShutdownEnds OtherServed
