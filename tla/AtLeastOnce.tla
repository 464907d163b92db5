----------------------------- MODULE AtLeastOnce -----------------------------
(***************************************************************************)
(* What a pipeline with a saved state promises: a restart point that never *)
(* covers a record the warehouse does not hold, so that every record of    *)
(* the source is loaded at least once.  Positions count records; loading   *)
(* a record again leaves the warehouse as it is.                           *)
(***************************************************************************)
EXTENDS Integers

VARIABLES
    source,       \* records the source holds
    loaded,       \* records in the warehouse
    checkpoint    \* records the next run does not read again

vars == <<source, loaded, checkpoint>>

Init == source = 0 /\ loaded = 0 /\ checkpoint = 0

\* The source gets a record.
Produce == source' = source + 1 /\ UNCHANGED <<loaded, checkpoint>>

\* A run loads what follows; it started at or before the checkpoint.
Load == /\ loaded' \in (loaded + 1)..source
        /\ UNCHANGED <<source, checkpoint>>

\* The restart point moves, also back, but never beyond what is loaded.
Checkpoint == /\ checkpoint' \in 0..loaded
              /\ UNCHANGED <<source, loaded>>

Next == Produce \/ Load \/ Checkpoint

Spec == Init /\ [][Next]_vars
=============================================================================
