\* tap-mysql reading the binary log, by position and by GTID; and each tap of a
\* service on its own instance (MCTaps); one at a time.
SPECIFICATION SpecAll
CONSTANTS
    Streams = {"a", "b"}
    OtherTable = "x"
    Transactions <- BinlogTransactions
    UPDATE_BOOKMARK_PERIOD = 2
    MaxTxns = 3
    MaxFiles = 2
    MaxCrashes = 1
    Items = {1, 2, 3}
    MaxTime = 6
    MaxUpdates = 3
    MaxDeaths = 1
    FewItems = {1, 2}
    ShortTime = 3
    SlackTime = 5
    BulkTime = 2
    MoreUpdates = 4
    PageSize = 1
    date_window_size = 2
    lookback_window = 1
    ParentOf <- Parity
    date_window_days = 1
    Jobs = {"audits", "comments"}
    batch_size = 5
    DayLength = 2
    days_interval = 1
    attribution_window = 1
    MaxDays = 2
    MAX_RETRIES = 3
    BatchOf <- OneByOne
INVARIANTS
    BinlogSkipsNothing
    GithubSkipsNothing
    SlackSkipsNothingElse
    TwilioSkipsNothing
    ZendeskSkipsNothing
    MixpanelSkipsNothingElse
    SalesforceSkipsNothing
    S3CsvSkipsTiesAlone
\* The bounds on changes, time and deaths end the run.
CHECK_DEADLOCK FALSE
