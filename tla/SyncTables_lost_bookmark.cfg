\* Both processes at work: what becomes of the saved bookmarks.
SPECIFICATION Spec
CONSTANTS
    FullSync = {f1}
    PartialSync = {p1}
    PoolSize = 2
    NoBookmark = NoBookmark
    Truncated = Truncated
    NoTable = NoTable
    MaxPosition = 1
INVARIANTS
    SavedBookmarkIsKept
