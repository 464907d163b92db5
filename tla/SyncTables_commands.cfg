\* Commands that select any of two fastsync and one partialsync table, a worker
\* for each, fair scheduling.
SPECIFICATION FairSpec
CONSTANTS
    FullSync = {f1, f2}
    PartialSync = {p1}
    PoolSize = 2
    NoBookmark = NoBookmark
    Truncated = Truncated
    NoTable = NoTable
    MaxPosition = 1
INVARIANTS
    TypeOK
    BookmarkIsLoaded
    FastSyncKeepsBookmarks
PROPERTIES
    SyncEnds
