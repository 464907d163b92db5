\* Fair runs of the tap and of the target; one transaction that may touch both
\* streams, one process that dies.
SPECIFICATION FairSpec
CONSTANTS
    Streams = {a, b}
    Txns = {t1, t2}
    Commit = Commit
    UPDATE_BOOKMARK_PERIOD = 1
    BreakAtEndLsn = TRUE
    TornReads = FALSE
    MaxLsn = 3
    MaxCrashes = 1
PROPERTIES
    EveryChangeIsLoaded
\* The bounded log ends: nothing is left to do once everything is loaded.
CHECK_DEADLOCK FALSE
