---------------------------- MODULE MCSyncTables ----------------------------
(* Small instances of SyncTables for TLC.                                  *)
EXTENDS SyncTables, TLC

Symmetric == Permutations(FullSync) \cup Permutations(PartialSync)
=============================================================================
