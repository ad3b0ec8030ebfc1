\* Ticks, triggers, pauses, panics, removal and re-adding, stop, interleaved.
SPECIFICATION FairSpec
CONSTANTS
    Jobs <- MCJobs
    Execs <- MCExecs
    MaxArrivals = 4
    HistorySize = 1
INVARIANT StatusIsTruthful
PROPERTIES
    KeepsPromise
    StopDrains
\* A panic nobody recovers ends PID 1.
CHECK_DEADLOCK FALSE
