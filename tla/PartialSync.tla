---------------------------- MODULE PartialSync ----------------------------
(***************************************************************************)
(* partial_sync_table: the rows from a start value on, with or without an  *)
(* end value, are exported, marked as deleted in the target, loaded into a *)
(* temporary table, masked, and merged into the target or swapped with it. *)
(* sync_tables and run_tap forget the bookmark before, for tables with     *)
(* sync_start_from; the partial_sync_table command keeps it.               *)
(***************************************************************************)
EXTENDS TableLoad

Supported == settings.tap \in {"mysql", "postgres"} /\ settings.target = "snowflake"

\* _reset_state_file_for_partial_sync, drop_target_table of the selection.
SyncFromStart(drop) ==
    /\ Supported
    /\ Begins("partial", FALSE, drop)
    /\ saved' = None
    /\ UNCHANGED <<settings, temp, log, applied, slot, table, lost>>

\* The command, with or without an end value.
SyncRange(end) ==
    /\ Supported
    /\ Begins("partial", end, FALSE)
    /\ UNCHANGED <<settings, temp, log, applied, slot, table, saved, lost>>

\* export_source_table_data with the WHERE clause.
ExportRange ==
    /\ At("partial", "export")
    /\ load' = [load EXCEPT !.at = After(@), !.rows =
                  [r \in Rows |-> IF Alive(r, applied) /\ InRange(r, applied)
                                  THEN Version(r, applied) ELSE Absent]]
    /\ UNCHANGED <<settings, temp, log, applied, slot, table, saved, counts, lost>>

\* The WHERE clause on the rows as they are in the target.
InTargetRange(r) == table[r] # Absent /\ InRange(r, table[r].version)

MarkDeleted ==
    /\ At("partial", "mark")
    /\ table' = [r \in Rows |-> IF InTargetRange(r) THEN [table[r] EXCEPT !.deleted = TRUE] ELSE table[r]]
    /\ StepDone
    /\ UNCHANGED <<settings, temp, log, applied, slot, saved, counts, lost>>

MergedRows == [r \in Rows |-> IF temp[r] = Absent THEN table[r] ELSE temp[r]]

merge_tables ==
    /\ At("partial", "merge")
    /\ table' = MergedRows /\ temp' = NoTable
    /\ StepDone
    /\ UNCHANGED <<settings, log, applied, slot, saved, counts, lost>>

partial_hard_delete ==
    /\ At("partial", "hard_delete")
    /\ table' = [r \in Rows |-> IF InTargetRange(r) /\ table[r].deleted THEN Absent ELSE table[r]]
    /\ StepDone
    /\ UNCHANGED <<settings, temp, log, applied, slot, saved, counts, lost>>

\* --drop_target_table
SwapTemp ==
    /\ load.kind = "partial"
    /\ SwapWithTemp
    /\ UNCHANGED <<settings, log, applied, slot, saved, counts, lost>>

SavesBookmark == ~load.end /\ Exported # {}

\* update_state_file.  Hazard: rows outside the range whose changes were not
\* read before are behind the bookmark now.
update_state_file ==
    /\ At("partial", "save")
    /\ saved' = IF SavesBookmark THEN load.bookmark ELSE saved
    /\ lost' = lost \cup (IF BehindBookmark THEN Rows ELSE {})
               \cup (IF load.end \/ saved' = None THEN {}
                     ELSE {r \in Rows \ Exported : saved = None \/ Version(r, Now) > saved})
    /\ load' = NoLoad
    /\ UNCHANGED <<settings, temp, log, applied, slot, table, counts>>

\* Hazard: rows are marked as deleted and not merged, or merged and older than the bookmark.
PartialDies ==
    /\ load.kind = "partial"
    /\ Dies(IF \/ load.at \in {"load", "obfuscate", "merge", "swap"}
               \/ load.at \in {"hard_delete", "save"} /\ BehindBookmark
            THEN Rows ELSE {})

PartialSyncNext ==
    \/ \E flag \in BOOLEAN : SyncFromStart(flag) \/ SyncRange(flag)
    \/ ExportRange \/ MarkDeleted \/ merge_tables \/ partial_hard_delete \/ SwapTemp
    \/ update_state_file \/ PartialDies
=============================================================================
