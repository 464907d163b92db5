\* target-snowflake flushing one stream at a time, by size and by time, under a
\* tap that sends a STATE before its first RECORD; and each tap of a database but
\* the binlog of tap-mysql (MCTaps) on its own instance (MCDatabases); one at a time.
SPECIFICATION SpecAll
CONSTANTS
    Streams = {s1, s2}
    Keys = {k1, k2}
    NoState = NoState
    batch_size_rows = 2
    flush_all_streams = FALSE
    batch_wait_limit = TRUE
    StateFirst = TRUE
    MaxRecords = 2
    MaxKey = 2
    StatePeriod = 1
    MaxChanges = 2
    MaxTime = 2
    MaxSwitches = 2
    MaxDeaths = 1
    FirstXid = 8
    Limit = 0
    FewSwitches = 1
    Collections <- Letters
    DocsOf <- OneDocument
    update_buffer_size = 2
    UPDATE_BOOKMARK_PERIOD = 2
    MaxOplog = 4
    Partitions = {1, 2}
    Older = 1
    SEND_STATE_PERIOD = 2
    MaxMessages = 2
SYMMETRY Symmetric
INVARIANTS
    SnowflakeStateIsLoaded
    ArchiveCoversWhatIsLoaded
    MysqlTablesSkipNothing
    PostgresCopyResumes
    MongodbTablesSkipNothing
    SnowflakeTablesSkipNothing
    OnlyTheClosingBufferIsSkipped
    KafkaBookmarksSkipNothing
\* The bounds on records, changes, time and deaths end the run, and the target exits.
CHECK_DEADLOCK FALSE
