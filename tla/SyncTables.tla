----------------------------- MODULE SyncTables -----------------------------
(***************************************************************************)
(* do_sync_tables: the initial load, or a later resync, of tables by the   *)
(* native fastsync and partialsync components.                             *)
(*                                                                         *)
(* Two processes run at the same time, one for the tables that are fully   *)
(* synced and one for those that are synced from a value on.  Each runs a  *)
(* pool of workers, one table per task.  A worker fetches the bookmark of  *)
(* its table, exports the table, loads it, and then adds the bookmark to   *)
(* the state file of the tap by reading, changing and rewriting the file.  *)
(* The fastsync workers take a lock around that, which is private to their *)
(* process; the partialsync workers take none.                             *)
(*                                                                         *)
(* A position is a point in the change log of the source.  The incremental *)
(* run that follows starts each table at its bookmark.  One run of         *)
(* do_sync_tables follows another only when its processes are gone.        *)
(***************************************************************************)
EXTENDS Integers, FiniteSets

CONSTANTS
    FullSync,      \* tables of the tap that are fully synced
    PartialSync,   \* tables that are synced from a value on, `sync_start_from`
    PoolSize,      \* workers of a process
    NoBookmark,    \* a table the state file has no bookmark for
    Truncated,     \* content of the state file between open and write
    NoTable,       \* nobody holds the lock
    MaxPosition    \* bound of the model: length of the change log

Tables    == FullSync \cup PartialSync
Processes == {"full", "partial"}
Bookmark  == Nat \cup {NoBookmark}
Bookmarks == [Tables -> Bookmark]

ASSUME TablesAssumption    == IsFiniteSet(Tables) /\ FullSync \cap PartialSync = {}
ASSUME PoolAssumption      == PoolSize \in Nat \ {0}
ASSUME ValuesAssumption    == /\ NoBookmark \notin Nat
                              /\ Truncated \notin Bookmarks
                              /\ NoTable \notin Tables
ASSUME PositionAssumption  == MaxPosition \in Nat

VARIABLES
    source,      \* the last position of the source's log
    warehouse,   \* per table, the position its rows are up to date with
    state_file,  \* the content of the tap's state file
    main,        \* where do_sync_tables is
    process,     \* per process, where it is
    cleaned,     \* the content _cleanup_tap_state_file has read
    worker,      \* per table, where its worker is; "idle" if not selected
    bookmark,    \* per table, the bookmark its worker fetched, 0 before
    exported,    \* per table, the position of its exported file
    loaded_state,\* per table, the content save_state_file works on
    lock         \* LOCK of the fastsync process: the table that holds it

command == <<main, process, cleaned>>
workers == <<worker, bookmark, exported, loaded_state, lock>>
vars    == <<source, warehouse, state_file, command, workers>>

TablesOf(p) == IF p = "full" THEN FullSync ELSE PartialSync
ProcessOf(t) == IF t \in FullSync THEN "full" ELSE "partial"

AtWork == {"bookmark", "export", "load", "lock", "read", "open", "save", "grant"}
Busy(p) == {t \in TablesOf(p) : worker[t] \in AtWork}

Unsaved == [t \in Tables |-> NoBookmark]

Init ==
    /\ source = 0
    /\ warehouse = [t \in Tables |-> 0]
    /\ state_file = Unsaved
    /\ main = "idle"
    /\ process = [p \in Processes |-> "none"]
    /\ cleaned = Unsaved
    /\ worker = [t \in Tables |-> "idle"]
    /\ bookmark = [t \in Tables |-> 0]
    /\ exported = [t \in Tables |-> 0]
    /\ loaded_state = [t \in Tables |-> Unsaved]
    /\ lock = NoTable

\* Rows change in the source.
Change ==
    /\ source < MaxPosition
    /\ source' = source + 1
    /\ UNCHANGED <<warehouse, state_file, command, workers>>

-----------------------------------------------------------------------------
(* do_sync_tables                                                          *)

\* _reset_state_file_for_partial_sync: forget the tables to sync partially.
WithoutPartial(content, selected) ==
    [t \in Tables |-> IF t \in selected \cap PartialSync THEN NoBookmark ELSE content[t]]

\* Tables are selected, the bookmarks of those to sync partially are reset and
\* the processes with something to do start.
StartSync(selected) ==
    /\ main = "idle"
    /\ main' = "join_partial"
    /\ state_file' = IF state_file = Truncated THEN state_file
                     ELSE WithoutPartial(state_file, selected)
    /\ process' = [full    |-> IF selected \cap FullSync = {} THEN "none" ELSE "cleanup",
                   partial |-> IF selected \cap PartialSync = {} THEN "none" ELSE "pool"]
    /\ worker' = [t \in Tables |-> IF t \in selected THEN "waiting" ELSE "idle"]
    /\ UNCHANGED <<source, warehouse, cleaned, bookmark, exported, loaded_state, lock>>

\* The processes are joined in the order they were started; the first failure
\* ends the command.
Join(p, here, next) ==
    /\ main = here
    /\ process[p] \in {"none", "ok", "failed"}
    /\ main' = IF process[p] = "failed" THEN "failed" ELSE next
    /\ UNCHANGED <<source, warehouse, state_file, process, cleaned, workers>>

JoinPartial == Join("partial", "join_partial", "join_full")
JoinFull    == Join("full", "join_full", "done")

\* The command has returned and its processes are gone; another may come.
EndSync ==
    /\ main \in {"done", "failed"}
    /\ \A p \in Processes : process[p] \in {"none", "ok", "failed"}
    /\ main' = "idle"
    /\ process' = [p \in Processes |-> "none"]
    /\ cleaned' = Unsaved
    /\ worker' = [t \in Tables |-> "idle"]
    /\ bookmark' = [t \in Tables |-> 0]
    /\ exported' = [t \in Tables |-> 0]
    /\ UNCHANGED <<source, warehouse, state_file, loaded_state, lock>>

-----------------------------------------------------------------------------
(* sync_tables_fast_sync: the state file is cleaned before the pool starts *)

\* _clean_tables_from_bookmarks_in_state_file looks for `schema.table`, while
\* the keys of the bookmarks are tap_stream_ids, `schema-table`: it removes
\* nothing and writes back what it has read.
CleanupRead ==
    /\ process["full"] = "cleanup"
    /\ IF state_file = Truncated
       THEN /\ process' = [process EXCEPT !["full"] = "pool"]
            /\ UNCHANGED cleaned
       ELSE /\ process' = [process EXCEPT !["full"] = "cleaning"]
            /\ cleaned' = state_file
    /\ UNCHANGED <<source, warehouse, state_file, main, workers>>

CleanupWrite ==
    /\ process["full"] = "cleaning"
    /\ process' = [process EXCEPT !["full"] = "pool"]
    /\ state_file' = cleaned
    /\ cleaned' = Unsaved
    /\ UNCHANGED <<source, warehouse, main, workers>>

\* pool.map has returned: the process fails if a table did.
EndProcess(p) ==
    /\ process[p] = "pool"
    /\ \A t \in TablesOf(p) : worker[t] \in {"idle", "done", "failed"}
    /\ process' = [process EXCEPT ![p] =
            IF \E t \in TablesOf(p) : worker[t] = "failed" THEN "failed" ELSE "ok"]
    /\ UNCHANGED <<source, warehouse, state_file, main, cleaned, workers>>

\* A check of the tap, or the start of the fastsync command, fails.
FailProcess(p) ==
    /\ process[p] \in {"cleanup", "pool"}
    /\ \A t \in TablesOf(p) : worker[t] \in {"idle", "waiting"}
    /\ process' = [process EXCEPT ![p] = "failed"]
    /\ UNCHANGED <<source, warehouse, state_file, main, cleaned, workers>>

-----------------------------------------------------------------------------
(* sync_table and partial_sync_table: the work on one table                *)

\* The worker of table t moves from one place to another.
Moves(t, from, to) ==
    /\ worker[t] = from
    /\ worker' = [worker EXCEPT ![t] = to]

\* A worker of the pool is free.
PoolIsFree(p) == Cardinality(Busy(p)) < PoolSize

TakeTask(t) ==
    /\ process[ProcessOf(t)] = "pool"
    /\ PoolIsFree(ProcessOf(t))
    /\ Moves(t, "waiting", "bookmark")
    /\ UNCHANGED <<source, warehouse, state_file, command, bookmark, exported,
                   loaded_state, lock>>

\* The present log position, or largest key, of the source.
GetBookmark(t) ==
    /\ Moves(t, "bookmark", "export")
    /\ bookmark' = [bookmark EXCEPT ![t] = source]
    /\ UNCHANGED <<source, warehouse, state_file, command, exported, loaded_state, lock>>

CopyTable(t) ==
    /\ Moves(t, "export", "load")
    /\ exported' = [exported EXCEPT ![t] = source]
    /\ UNCHANGED <<source, warehouse, state_file, command, bookmark, loaded_state, lock>>

\* The export replaces the table by a swap, or the range of a partial sync.
SwapTables(t) ==
    /\ Moves(t, "load", IF t \in FullSync THEN "lock" ELSE "read")
    /\ warehouse' = [warehouse EXCEPT ![t] = exported[t]]
    /\ exported' = [exported EXCEPT ![t] = 0]
    /\ UNCHANGED <<source, state_file, command, bookmark, loaded_state, lock>>

\* Mutant: the lock is taken whoever holds it.
LockIsAny == TRUE

\* LOCK can be acquired.
LockIsFree == lock = NoTable

Acquire(t) ==
    /\ t \in FullSync
    /\ Moves(t, "lock", "read")
    /\ LockIsFree
    /\ lock' = t
    /\ UNCHANGED <<source, warehouse, state_file, command, bookmark, exported, loaded_state>>

\* save_state_file: load the file, which fails if it is truncated, ...
LoadState(t) ==
    /\ Moves(t, "read", "open")
    /\ state_file # Truncated
    /\ loaded_state' = [loaded_state EXCEPT ![t] = state_file]
    /\ UNCHANGED <<source, warehouse, state_file, command, bookmark, exported, lock>>

\* ... truncate it ...
OpenState(t) ==
    /\ Moves(t, "open", "save")
    /\ state_file' = Truncated
    /\ UNCHANGED <<source, warehouse, command, bookmark, exported, loaded_state, lock>>

\* Mutant: the position at the time of the save.
LatestBookmark(t) == source

\* The bookmark that is saved for the table.
SavedBookmark(t) == bookmark[t]

\* Mutant: LOCK is never released.
KeptLock(t) == lock

\* The lock when the worker of t leaves the try block.
ReleasedLock(t) == IF lock = t THEN NoTable ELSE lock

\* ... and write it again; the finally block releases the lock.
SaveState(t) ==
    /\ Moves(t, "save", "grant")
    /\ state_file' = [loaded_state[t] EXCEPT ![t] = SavedBookmark(t)]
    /\ loaded_state' = [loaded_state EXCEPT ![t] = Unsaved]
    /\ lock' = ReleasedLock(t)
    /\ UNCHANGED <<source, warehouse, command, bookmark, exported>>

Grant(t) ==
    /\ Moves(t, "grant", "done")
    /\ UNCHANGED <<source, warehouse, state_file, command, bookmark, exported,
                   loaded_state, lock>>

\* An exception: the worker returns its message instead of TRUE.  The state
\* file is not written in part: a failing worker has not opened it yet.
FailTable(t) ==
    /\ worker[t] \in AtWork \ {"lock", "save"}
    /\ Moves(t, worker[t], "failed")
    /\ bookmark' = [bookmark EXCEPT ![t] = 0]
    /\ exported' = [exported EXCEPT ![t] = 0]
    /\ loaded_state' = [loaded_state EXCEPT ![t] = Unsaved]
    /\ lock' = ReleasedLock(t)
    /\ UNCHANGED <<source, warehouse, state_file, command>>

Work(t) ==
    \/ TakeTask(t) \/ GetBookmark(t) \/ CopyTable(t) \/ SwapTables(t)
    \/ Acquire(t) \/ LoadState(t) \/ OpenState(t) \/ SaveState(t) \/ Grant(t)

Command ==
    \/ \E selected \in SUBSET Tables \ {{}} : StartSync(selected)
    \/ JoinPartial \/ JoinFull \/ EndSync
    \/ CleanupRead \/ CleanupWrite
    \/ \E p \in Processes : EndProcess(p) \/ FailProcess(p)

Next ==
    \/ Change
    \/ Command
    \/ \E t \in Tables : Work(t) \/ FailTable(t)

Spec == Init /\ [][Next]_vars

\* Processes and workers are scheduled; a worker that can neither go on nor is
\* blocked on the lock raises, so its failure is one of its steps.
Fairness ==
    /\ WF_vars(Command)
    /\ \A t \in Tables : WF_vars(Work(t) \/ FailTable(t))

FairSpec == Spec /\ Fairness

-----------------------------------------------------------------------------
(* Properties                                                              *)

\* Workers are at work only in a running pool, no more than PoolSize of them,
\* and LOCK is held by one that uses the state file.
WorkersInv ==
    /\ main = "idle" => \A p \in Processes : process[p] = "none"
    /\ \A p \in Processes : Busy(p) # {} => process[p] = "pool"
    /\ \A p \in Processes : Cardinality(Busy(p)) <= PoolSize
    /\ lock # NoTable => worker[lock] \in {"read", "open", "save"}

\* Type invariant of the command, its processes and their workers.
TypeOK ==
    /\ source \in Nat
    /\ warehouse \in [Tables -> Nat]
    /\ state_file \in Bookmarks \cup {Truncated}
    /\ main \in {"idle", "join_partial", "join_full", "done", "failed"}
    /\ process \in [Processes -> {"none", "cleanup", "cleaning", "pool", "ok", "failed"}]
    /\ cleaned \in Bookmarks
    /\ worker \in [Tables -> AtWork \cup {"idle", "waiting", "done", "failed"}]
    /\ bookmark \in [Tables -> Nat]
    /\ exported \in [Tables -> Nat]
    /\ loaded_state \in [Tables -> Bookmarks]
    /\ lock \in FullSync \cup {NoTable}
    /\ WorkersInv

\* A saved bookmark never covers a change the table in the warehouse has not:
\* the incremental run that starts there misses nothing, whatever failed.
BookmarkIsLoaded ==
    state_file # Truncated =>
        \A t \in Tables : state_file[t] # NoBookmark => state_file[t] <= warehouse[t]

\* The bookmark a worker saved stays in the state file until the command is
\* over: "at the next normal run it will load only the changes since the
\* resync".
SavedBookmarkIsKept ==
    \A t \in Tables :
        (main # "idle" /\ worker[t] \in {"grant", "done"} /\ state_file # Truncated)
            => state_file[t] = bookmark[t]

\* So it does in a command without tables to sync partially: the clean-up comes
\* before all workers, and these exclude each other by LOCK.
FastSyncKeepsBookmarks == process["partial"] = "none" => SavedBookmarkIsKept

\* Checked by no run, and not true: while its table waits to be synced again
\* the old bookmark is gone.  The clean-up looks for names of another form
\* (_clean_tables_from_bookmarks_in_state_file).
CleanedBeforeSync ==
    \A t \in FullSync :
        (process["full"] = "pool" /\ worker[t] = "waiting" /\ state_file # Truncated)
            => state_file[t] = NoBookmark

\* Every command comes to an end: no worker waits for the lock for ever.
SyncEnds == (main # "idle") ~> (main = "idle")

-----------------------------------------------------------------------------
(* The inductive invariants behind BookmarkIsLoaded and                    *)
(* FastSyncKeepsBookmarks                                                  *)

\* No bookmark of a content of the state file is ahead of its table.
Covered(content) ==
    content # Truncated =>
        \A t \in Tables : content[t] # NoBookmark => content[t] <= warehouse[t]

\* A table is copied after its bookmark was fetched and not before the copy it
\* replaces.
CopyInv ==
    \A t \in Tables :
        /\ warehouse[t] <= source
        /\ worker[t] = "export" => bookmark[t] <= source
        /\ worker[t] = "load" => /\ bookmark[t] <= exported[t]
                                 /\ warehouse[t] <= exported[t]
                                 /\ exported[t] <= source
        /\ worker[t] \in {"lock", "read", "open", "save", "grant"}
                => bookmark[t] <= warehouse[t]

\* Every content somebody may still write back is covered.
ContentInv ==
    /\ Covered(state_file)
    /\ Covered(cleaned)
    /\ \A t \in Tables : Covered(loaded_state[t])

\* A truncated file is about to be written.
FileInv == state_file = Truncated => \E t \in Tables : worker[t] = "save"

\* The fastsync workers that use the file hold LOCK, and nobody is at work in a
\* process that was not started or cleans up first.
LockInv ==
    /\ \A t \in FullSync : worker[t] \in {"read", "open", "save"} => lock = t
    /\ process["partial"] = "none" => \A t \in PartialSync : worker[t] = "idle"
    /\ process["full"] \in {"cleanup", "cleaning"} =>
            \A t \in FullSync : worker[t] \in {"idle", "waiting"}

\* Without partialsync, what the holder of LOCK writes back has the bookmarks
\* saved so far.
KeptInv ==
    process["partial"] = "none" =>
        /\ SavedBookmarkIsKept
        /\ \A t \in FullSync, u \in FullSync :
                worker[t] \in {"open", "save"} /\ worker[u] \in {"grant", "done"}
                    => loaded_state[t][u] = bookmark[u]

IInv == CopyInv /\ ContentInv /\ FileInv /\ LockInv /\ KeptInv
=============================================================================
