\* The default configuration under a tap whose first STATE follows records.
SPECIFICATION Spec
CONSTANTS
    Streams = {s1, s2}
    Keys = {k1, k2}
    NoState = NoState
    BatchSize = 2
    FlushAllStreams = FALSE
    HardDelete = FALSE
    StateFirst = FALSE
    MaxRecords = 2
SYMMETRY Symmetric
INVARIANTS
    EmittedStateIsLoaded
\* The process exits: a stopped or failed target takes no further step.
CHECK_DEADLOCK FALSE
