----------------------------- MODULE SingerPipe -----------------------------
(***************************************************************************)
(* What a tap sees of the rest of the pipeline.  It writes RECORD and      *)
(* STATE messages to its standard output; the target loads the records in  *)
(* order and PipelineWise saves a STATE once what precedes it is loaded    *)
(* (TargetPostgres, RunTapSinger).  When the pipeline dies, the records    *)
(* written since the saved STATE may be lost, and the next run starts from *)
(* that STATE.  Whether a STATE is ever saved is decided when it is        *)
(* written: the tap cannot tell the difference.                            *)
(***************************************************************************)
VARIABLES
    emitted,   \* records written, except those a crash lost
    loaded,    \* records known to be in the warehouse
    saved      \* the state the next run starts from

pipe == <<emitted, loaded, saved>>

\* singer.write_message(RecordMessage) for the records R.
Records(R) == emitted' = emitted \cup R /\ UNCHANGED <<loaded, saved>>

\* singer.write_message(StateMessage(st)), after the records R.
RecordsAndState(R, st) ==
    /\ emitted' = emitted \cup R
    /\ \/ loaded' = emitted' /\ saved' = st
       \/ UNCHANGED <<loaded, saved>>

\* The last STATE of a run that succeeds is saved; one that does not, dies.
RecordsAndLastState(R, st) ==
    /\ emitted' = emitted \cup R
    /\ loaded' = emitted' /\ saved' = st

\* The pipeline of processes dies with what it had in flight.
Lost == emitted' = loaded /\ UNCHANGED <<loaded, saved>>
=============================================================================
