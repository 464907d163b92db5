---------------------------- MODULE TableLoads ----------------------------
(***************************************************************************)
(* A table that fastsync, partialsync and the singer tap load in any       *)
(* order, one after the other, while its source changes.                   *)
(***************************************************************************)
EXTENDS FastSync, PartialSync

NextTable ==
    \/ \E r \in Rows, op \in {"put", "delete", "move"} : Change(r, op)
    \/ ReplicaApplies \/ Replicate \/ GetBookmark \/ CopyToTemp \/ Obfuscate
    \/ FastSyncNext \/ PartialSyncNext

TableSpec == InitTable /\ [][NextTable]_vars
=============================================================================
