----------------------------- MODULE TableLoad -----------------------------
(***************************************************************************)
(* One table of a database that fastsync or partialsync copies into the    *)
(* target while it changes, and that a singer tap keeps up to date from    *)
(* the bookmark of the state file on.  Workers of other tables share the   *)
(* state file alone (SyncTables).                                          *)
(*                                                                         *)
(* A row is known by its version, the position in the log of its last      *)
(* change; the replication key of an INCREMENTAL table is the version.     *)
(***************************************************************************)
EXTENDS Integers, Sequences, FiniteSets, FiniteSetsExt

CONSTANTS
    Rows,          \* primary keys
    InitialRange,  \* rows that are in the range of the partial sync at first
    Taps,          \* of "mysql", "postgres", "mongodb"
    Targets,       \* of "snowflake", "postgres"
    None,          \* no bookmark, no slot
    Absent,        \* no row
    MaxChanges,    \* bounds of the model
    MaxLoads,
    MaxDeaths

ASSUME KindsAssumption  == Taps \subseteq {"mysql", "postgres", "mongodb"} /\ Targets \subseteq {"snowflake", "postgres"}
ASSUME NoneAssumption   == None \notin Nat
ASSUME AbsentAssumption == /\ Absent \notin Nat
                           /\ Absent \notin [version : Nat, deleted : BOOLEAN, masked : BOOLEAN]

VARIABLES
    settings,  \* [tap, target, method, hard_delete, replica]
    log,       \* the changes of the source, [row, op]
    applied,   \* how many of them are in the database fastsync reads
    slot,      \* first position the replication slot of Postgres does not deliver
    table,     \* the target, per row [version, deleted, masked]
    temp,      \* the temporary table, as a load or a dead worker left it
    saved,     \* bookmark in the state file
    load,      \* [kind, at, bookmark, lags, rows, end, drop], of the worker
    counts,    \* [loads, deaths]
    lost       \* history: rows that one of the known hazards has met

vars == <<settings, log, applied, slot, table, temp, saved, load, counts, lost>>

-----------------------------------------------------------------------------
(* The source                                                              *)

LogBased == settings.method = "LOG_BASED"

\* Position of the last change of r up to n, and what the row is there.
Version(r, n) == Max({0} \cup {i \in 1..n : log[i].row = r})
Alive(r, n)   == IF Version(r, n) = 0 THEN TRUE ELSE log[Version(r, n)].op # "delete"
Moves(r, n)   == {i \in 1..n : log[i].row = r /\ log[i].op = "move"}
InRange(r, n) == (r \in InitialRange) # (Cardinality(Moves(r, n)) % 2 = 1)

Now == Len(log)

NoTable == [r \in Rows |-> Absent]

NoLoad == [kind |-> "none", at |-> "idle", bookmark |-> None, lags |-> FALSE, end |-> FALSE, drop |-> FALSE,
           rows |-> NoTable]

Loaded(version) == [version |-> version, deleted |-> FALSE, masked |-> TRUE]

InitTable ==
    /\ settings \in {s \in [tap : Taps, target : Targets, method : {"LOG_BASED", "INCREMENTAL"},
                            hard_delete : BOOLEAN, replica : BOOLEAN] :
                        s.tap = "mongodb" => s.method = "LOG_BASED" /\ ~s.replica}
    /\ log = <<>> /\ applied = 0
    /\ slot \in IF settings.tap = "postgres" /\ LogBased THEN {None, 0} ELSE {0}
    /\ saved \in IF slot = None THEN {None} ELSE {None, 0}
    /\ table = [r \in Rows |-> IF saved = None THEN Absent ELSE Loaded(0)]
    /\ temp = NoTable
    /\ load = NoLoad
    /\ counts = [loads |-> 0, deaths |-> 0]
    /\ lost = {}

\* "put" inserts or updates, "move" takes a row over the start of the range of the partial sync.
Change(r, op) ==
    /\ Now < MaxChanges
    /\ op # "put" => Alive(r, Now)
    /\ log' = Append(log, [row |-> r, op |-> op])
    /\ applied' = IF settings.replica THEN applied ELSE Now + 1
    /\ UNCHANGED <<settings, temp, slot, table, saved, load, counts, lost>>

ReplicaApplies ==
    /\ applied < Now
    /\ applied' = applied + 1
    /\ UNCHANGED <<settings, temp, log, slot, table, temp, saved, load, counts, lost>>

-----------------------------------------------------------------------------
(* The singer tap and target, all of a run at once; the run reads the      *)
(* primary.  A slot delivers what was committed after it was created.      *)

Deleted(r) == IF settings.hard_delete THEN Absent
              ELSE [version |-> Version(r, Now), deleted |-> TRUE, masked |-> TRUE]

ReplicateLog ==
    /\ LogBased
    /\ saved' = Now
    /\ table' = [r \in Rows |->
                   IF Version(r, Now) <= Max({saved, slot}) THEN table[r]
                   ELSE IF Alive(r, Now) THEN Loaded(Version(r, Now)) ELSE Deleted(r)]

ReplicateKeys ==
    LET selected == {r \in Rows : Alive(r, Now) /\ Version(r, Now) >= saved}
    IN  /\ ~LogBased
        /\ table' = [r \in Rows |-> IF r \in selected THEN Loaded(Version(r, Now)) ELSE table[r]]
        /\ saved' = Max({saved} \cup {Version(r, Now) : r \in selected})

Replicate ==
    /\ load.kind = "none" /\ saved # None
    /\ ReplicateLog \/ ReplicateKeys
    /\ <<table, saved>>' # <<table, saved>>
    /\ UNCHANGED <<settings, temp, log, applied, slot, load, counts, lost>>

-----------------------------------------------------------------------------
(* What fastsync and partialsync do alike                                  *)

Begins(kind, end, drop) ==
    /\ load.kind = "none" /\ counts.loads < MaxLoads
    /\ load' = [NoLoad EXCEPT !.kind = kind, !.at = "bookmark", !.end = end, !.drop = drop]
    /\ counts' = [counts EXCEPT !.loads = @ + 1]

Exported == {r \in Rows : load.rows[r] # Absent}

\* The order of sync_table of each worker of fastsync, and of
\* partial_sync_table.  An empty table of Postgres leaves no file to load.
mysql_to_snowflake    == <<"bookmark", "copy", "load", "obfuscate", "replace", "swap", "save">>
mysql_to_postgres     == <<"bookmark", "copy", "load", "obfuscate", "drop", "swap", "save">>
postgres_to_snowflake == <<"bookmark", "copy", "load", "obfuscate", "replace", "swap", "save">>
postgres_to_postgres  == <<"bookmark", "copy", "load">>
                         \o (IF Exported = {} THEN << >> ELSE <<"obfuscate">>)
                         \o <<"drop", "swap", "save">>
mongodb_to_snowflake  == <<"bookmark", "dump", "load", "obfuscate", "replace", "swap", "save">>
mongodb_to_postgres   == <<"bookmark", "dump", "load", "obfuscate", "drop", "swap", "save">>
partial_sync_table    == <<"bookmark", "export", "mark", "load", "obfuscate">>
                         \o (IF load.drop THEN <<"swap">>
                             ELSE IF settings.hard_delete THEN <<"merge", "hard_delete">>
                             ELSE <<"merge">>)
                         \o <<"save">>

sync_table ==
    LET to_snowflake == settings.target = "snowflake"
    IN  CASE load.kind = "partial" -> partial_sync_table
          [] load.kind = "fast" /\ settings.tap = "mysql" ->
                IF to_snowflake THEN mysql_to_snowflake ELSE mysql_to_postgres
          [] load.kind = "fast" /\ settings.tap = "postgres" ->
                IF to_snowflake THEN postgres_to_snowflake ELSE postgres_to_postgres
          [] load.kind = "fast" /\ settings.tap = "mongodb" ->
                IF to_snowflake THEN mongodb_to_snowflake ELSE mongodb_to_postgres

At(kind, at) == load.kind = kind /\ load.at = at
After(at)    == sync_table[1 + CHOOSE n \in DOMAIN sync_table : sync_table[n] = at]
StepDone     == load' = [load EXCEPT !.at = After(@)]

\* Position of a replica's binlog coordinates: what it has received from the
\* primary (Read_Master_Log_Pos), which may be more than it has applied.
BinlogPositions == IF settings.replica THEN applied..Now ELSE {Now}

fetch_current_log_pos == IF settings.tap = "mysql" THEN BinlogPositions ELSE {applied}

\* MAX of the replication key of the rows in the database fastsync reads.
fetch_current_incremental_key_pos ==
    LET keys == {Version(r, applied) : r \in {s \in Rows : Alive(s, applied)}}
    IN  {IF keys # {} THEN Max(keys) ELSE IF settings.tap = "postgres" THEN None ELSE 0}

\* A slot is created on the primary, unless there is one, before the position is read.
create_replication_slot == IF settings.tap = "postgres" /\ LogBased /\ slot = None THEN Now ELSE slot

\* get_bookmark_for_table.  Hazard: the position was read on a replica that is
\* behind the binlog it has received, or behind the new slot.
GetBookmark ==
    /\ load.at = "bookmark"
    /\ slot' = create_replication_slot
    /\ \E position \in IF LogBased THEN fetch_current_log_pos ELSE fetch_current_incremental_key_pos :
          load' = [load EXCEPT !.at = After(@), !.bookmark = position,
                      !.lags = LogBased /\ applied < Max({position, slot'})]
    /\ UNCHANGED <<settings, temp, log, applied, table, saved, counts, lost>>

\* Mutant: CREATE TABLE IF NOT EXISTS alone.
LeftTable == temp

\* CREATE OR REPLACE TABLE in Snowflake, DROP and CREATE in Postgres.
NewTable == NoTable

\* create_table and copy_to_table of the temporary table.
CopyToTemp ==
    /\ load.at = "load"
    /\ temp' = [r \in Rows |-> IF r \in Exported THEN [Loaded(load.rows[r]) EXCEPT !.masked = FALSE]
                              ELSE NewTable[r]]
    /\ StepDone
    /\ UNCHANGED <<settings, log, applied, slot, table, saved, counts, lost>>

Masked(rows) == [r \in Rows |-> IF rows[r] = Absent THEN Absent ELSE [rows[r] EXCEPT !.masked = TRUE]]

\* obfuscate_columns, of the temporary table.
Obfuscate ==
    /\ load.at = "obfuscate"
    /\ temp' = Masked(temp)
    /\ StepDone
    /\ UNCHANGED <<settings, log, applied, slot, table, saved, counts, lost>>

\* swap_tables: the temporary table is the target now.
SwapWithTemp ==
    /\ load.at = "swap"
    /\ table' = temp /\ temp' = NoTable
    /\ StepDone

\* The replica is behind the bookmark of the load, or what the singer tap has
\* read from the primary: the rows of the load are older than a bookmark.
BehindBookmark ==
    \/ load.lags
    \/ saved # None /\ (load.bookmark = None \/ saved > load.bookmark)

\* The worker returns the error, or dies: the temporary table stays.
Dies(rows) ==
    /\ counts.deaths < MaxDeaths
    /\ counts' = [counts EXCEPT !.deaths = @ + 1]
    /\ load' = NoLoad
    /\ lost' = lost \cup rows
    /\ UNCHANGED <<settings, temp, log, applied, slot, table, saved>>

-----------------------------------------------------------------------------
(* Properties                                                              *)

Reflects(r) ==
    IF Alive(r, Now) THEN table[r] # Absent /\ ~table[r].deleted /\ table[r].version = Version(r, Now)
    ELSE LogBased => table[r] = Absent \/ table[r].deleted

\* A change that is not behind the bookmark of the state file, where the singer
\* tap goes on, is in the target, whatever happened between the bookmark, the
\* export, the load and a worker that died, unless the table met one of four
\* hazards: a replica that is behind (get_bookmark_for_table); a
\* worker that died between dropping and swapping in the table (sync_table) or
\* between marking rows as deleted and merging them (partial_sync_table); a
\* bookmark that a partial sync has moved over changes outside its range.
LoadedBookmarkIsLoaded ==
    load.kind = "none" /\ saved # None =>
        \A r \in Rows \ lost : Version(r, Now) <= saved => Reflects(r)

\* No value that a transformation has to mask is ever in the target table: the
\* rows are masked before the temporary table is swapped or merged into it
\* (obfuscate_columns), and what a dead worker has left in the temporary table
\* is gone before the next one loads it (create_table, drop_table).
MaskedInTarget == \A r \in Rows : table[r] # Absent => table[r].masked
=============================================================================
