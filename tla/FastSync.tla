------------------------------ MODULE FastSync ------------------------------
(***************************************************************************)
(* sync_table of fastsync: bookmark, export, load into a temporary table,  *)
(* masking, swap with the target table, bookmark into the state file.  The *)
(* bookmark of before stays in the state file (the bookmarks to forget are *)
(* looked for under other names).                                          *)
(***************************************************************************)
EXTENDS TableLoad

Start == Begins("fast", FALSE, FALSE) /\ UNCHANGED <<settings, temp, log, applied, slot, table, saved, lost>>

ExportedAt(r, n) == IF Alive(r, n) THEN Version(r, n) ELSE Absent

\* COPY and SELECT read a snapshot.
Export ==
    /\ At("fast", "copy")
    /\ load' = [load EXCEPT !.at = After(@), !.rows = [r \in Rows |-> ExportedAt(r, applied)]]
    /\ UNCHANGED <<settings, temp, log, applied, slot, table, saved, counts, lost>>

\* mongodump reads the documents one after the other while they change.
Dump ==
    /\ At("fast", "dump")
    /\ \E at \in [Rows -> load.bookmark..applied] :
          load' = [load EXCEPT !.at = After(@), !.rows = [r \in Rows |-> ExportedAt(r, at[r])]]
    /\ UNCHANGED <<settings, temp, log, applied, slot, table, saved, counts, lost>>

\* Snowflake: CREATE OR REPLACE TABLE of the target.  Postgres: DROP TABLE.
ReplaceTarget ==
    /\ At("fast", "replace") \/ At("fast", "drop")
    /\ table' = NoTable
    /\ StepDone
    /\ UNCHANGED <<settings, temp, log, applied, slot, saved, counts, lost>>

swap_tables ==
    /\ load.kind = "fast"
    /\ SwapWithTemp
    /\ lost' = IF load.lags THEN Rows ELSE {}
    /\ UNCHANGED <<settings, log, applied, slot, saved, counts>>

\* Mutant: the position after the load.
LatestPosition == Now

BookmarkToSave == load.bookmark

SaveState ==
    /\ At("fast", "save")
    /\ saved' = BookmarkToSave
    /\ load' = NoLoad
    /\ UNCHANGED <<settings, temp, log, applied, slot, table, counts, lost>>

\* Hazard: the old bookmark stays, and the rows are gone, between replace and
\* swap, or older than it after the swap.
WorkerDies ==
    /\ load.kind = "fast"
    /\ Dies(IF load.at = "swap" \/ (load.at = "save" /\ BehindBookmark) THEN Rows ELSE {})

FastSyncNext ==
    \/ Start \/ Export \/ Dump \/ ReplaceTarget \/ swap_tables \/ SaveState \/ WorkerDies
=============================================================================
