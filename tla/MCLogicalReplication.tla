------------------------ MODULE MCLogicalReplication ------------------------
(* Small instances of LogicalReplication for TLC.                          *)
EXTENDS LogicalReplication, TLC

Symmetric == Permutations(Streams) \cup Permutations(Txns)
=============================================================================
