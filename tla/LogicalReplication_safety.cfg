\* Two interleaved transactions over two streams, the state file always read
\* whole.
SPECIFICATION Spec
CONSTANTS
    Streams = {a, b}
    Txns = {t1, t2}
    Commit = Commit
    UPDATE_BOOKMARK_PERIOD = 1
    BreakAtEndLsn = TRUE
    TornReads = FALSE
    MaxLsn = 5
    MaxCrashes = 1
SYMMETRY Symmetric
INVARIANTS
    SlotKeepsUnloaded
    SavedStateKeepsUnloaded
    NothingSkipped
\* The bounded log ends: nothing is left to do once everything is loaded.
CHECK_DEADLOCK FALSE
