\* Crashes at every step, the two writes of the state file included, and fair
\* scheduling of the runs.
SPECIFICATION FairSpec
CONSTANTS
    NoState = NoState
    Truncated = Truncated
    Overlap = FALSE
    PipeSize = 2
    MaxRecords = 3
    MaxCrashes = 2
INVARIANTS
    TypeOK
    RestartPointIsSafe
PROPERTIES
    ImplementsAtLeastOnce
    EveryRecordIsLoaded
\* The bounded source ends, and a truncated state file stops every run.
CHECK_DEADLOCK FALSE
