\* target-postgres as it is by default, flushing one stream at a time, with hard
\* deletes, under a tap that sends a STATE before its first RECORD; the other
\* configurations are in MCTargets.
SPECIFICATION SpecAll
CONSTANTS
    Streams = {s1, s2}
    Keys = {k1, k2}
    NoState = NoState
    BatchSize = 2
    FlushAllStreams = FALSE
    HardDelete = TRUE
    StateFirst = TRUE
    MaxRecords = 2
    TransformStreams = {"s1", "s2"}
    TransformColumns = {"a", "b"}
    Values = {"x"}
    Null = "null"
    Configurations <- OneOrTwoItems
    DEFAULT_MAX_BATCH_RECORDS = 2
    ColumnConfigs <- AllColumns
SYMMETRY Symmetric
INVARIANTS
    TypeOK
    EmittedStateIsLoaded
    CleanExitLoadsEverything
    TableIsReplay
    StateFollowsItsRecords
    MasksLikeFastsync
    LoadedValuesAreFound
PROPERTIES
    EmittedNeverGoesBack
\* The processes exit: one that has stopped or failed takes no further step.
CHECK_DEADLOCK FALSE
