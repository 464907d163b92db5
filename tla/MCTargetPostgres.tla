-------------------------- MODULE MCTargetPostgres --------------------------
(* Small instances of TargetPostgres for TLC.                              *)
EXTENDS TargetPostgres, TLC

Symmetric == Permutations(Streams) \cup Permutations(Keys)

=============================================================================
