\* The same instance when a poll may meet the file while it is rewritten.
SPECIFICATION Spec
CONSTANTS
    Streams = {a, b}
    Txns = {t1, t2}
    Commit = Commit
    UPDATE_BOOKMARK_PERIOD = 1
    BreakAtEndLsn = TRUE
    TornReads = TRUE
    MaxLsn = 5
    MaxCrashes = 1
SYMMETRY Symmetric
INVARIANTS
    SlotKeepsUnloaded
\* The bounded log ends: nothing is left to do once everything is loaded.
CHECK_DEADLOCK FALSE
