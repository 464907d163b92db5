-------------------------- MODULE TargetSnowflake --------------------------
(***************************************************************************)
(* target-snowflake: persist_lines buffers records per stream and key like *)
(* target-postgres does (TargetPostgres), but a new SCHEMA flushes its own *)
(* stream only if it differs from the last one, a batch may be flushed by  *)
(* the time it has waited, and a STATE becomes the one to print whenever   *)
(* no row is buffered.  A batch goes to Snowflake as a file: written,      *)
(* staged, merged into the table, copied to an archive with the range of   *)
(* the incremental key it covers, and removed from the stage.              *)
(*                                                                         *)
(* The incremental key of a record is its place in its stream; hard_delete *)
(* is off (TargetPostgres has it) and archive_load_files is on.            *)
(***************************************************************************)
EXTENDS Naturals, Sequences, FiniteSets

CONSTANTS
    Streams, Keys, NoState,
    batch_size_rows,
    flush_all_streams,
    batch_wait_limit,      \* batch_wait_limit_seconds is set
    StateFirst,            \* the tap sends a STATE before its first RECORD
    MaxRecords             \* bound of the model: records per stream

\* NoState is Python's None, no state that a tap sends.
ASSUME NoStateAssumption == NoState \notin [Streams -> Nat]

VARIABLES
    sent,             \* per stream, the keys of the records sent so far
    schemas,          \* per stream, the SCHEMA it last had; 0: none
    records_to_load,  \* per stream and key, the buffered record
    row_count,
    state, flushed_state,
    pc,               \* "read", "flush", the steps of flush_records, "end", "failed"
    flush,            \* the call of flush_streams: [streams, filtered, pending, last]
    archive_data,     \* archive_load_files_data: per stream, [min, max] of the batch; 0: None
    stage,            \* files on the stage: [stream, rows, range]
    table,            \* per stream and key, the record the row holds
    archive,          \* files of the archive
    loaded,           \* history: how many records of the stream are in the table
    emitted

inputVars == <<sent, schemas>>
tableVars == <<table, loaded>>
snowflakeVars == <<inputVars, records_to_load, row_count, state, flushed_state, pc, flush,
                   archive_data, stage, tableVars, archive, emitted>>

Empty   == [k \in Keys |-> 0]
NoRange == [min |-> 0, max |-> 0]
NoFlush == [streams |-> {}, filtered |-> FALSE, pending |-> {}, last |-> FALSE]

Init ==
    /\ sent = [s \in Streams |-> << >>] /\ schemas = [s \in Streams |-> 0]
    /\ records_to_load = [s \in Streams |-> Empty] /\ row_count = [s \in Streams |-> 0]
    /\ state = NoState /\ flushed_state = NoState
    /\ pc = "read" /\ flush = NoFlush
    /\ archive_data = [s \in Streams |-> NoRange]
    /\ stage = {} /\ archive = {}
    /\ table = [s \in Streams |-> Empty] /\ loaded = [s \in Streams |-> 0]
    /\ emitted = NoState

NothingBuffered == \A s \in Streams : row_count[s] = 0
\* The keys of the dictionary: streams that have sent a record.
Buffering == {s \in Streams : sent[s] # << >>}

StartFlush(selected, filtered, last) ==
    /\ pc' = "flush"
    /\ flush' = [streams |-> selected, filtered |-> filtered, pending |-> selected, last |-> last]

\* filter_streams of a flush that stream s causes.
FlushFor(s) == IF flush_all_streams THEN StartFlush(Buffering \cup {s}, FALSE, FALSE)
                                    ELSE StartFlush({s}, TRUE, FALSE)

-----------------------------------------------------------------------------
(* persist_lines                                                           *)

\* A SCHEMA that repeats the last one of its stream does nothing.
Schema(s, schema) ==
    /\ pc = "read" /\ schema # schemas[s]
    /\ schemas' = [schemas EXCEPT ![s] = schema]
    /\ IF row_count[s] > 0
       THEN FlushFor(s) /\ UNCHANGED archive_data
       ELSE archive_data' = [archive_data EXCEPT ![s] = NoRange] /\ UNCHANGED <<pc, flush>>
    /\ UNCHANGED <<sent, records_to_load, row_count, state, flushed_state, stage, tableVars,
                   archive, emitted>>

RecordMsg(s, k) ==
    /\ pc = "read" /\ schemas[s] # 0
    /\ Len(sent[s]) < MaxRecords
    /\ StateFirst => state # NoState
    /\ LET n == Len(sent[s]) + 1
           m == archive_data[s].min
       IN  /\ sent' = [sent EXCEPT ![s] = Append(@, k)]
           /\ row_count' = [row_count EXCEPT ![s] = IF records_to_load[s][k] = 0 THEN @ + 1 ELSE @]
           /\ records_to_load' = [records_to_load EXCEPT ![s][k] = n]
           /\ archive_data' = [archive_data EXCEPT ![s] = [min |-> IF m = 0 THEN n ELSE m, max |-> n]]
    /\ \/ row_count'[s] >= batch_size_rows /\ FlushFor(s)
       \/ row_count'[s] < batch_size_rows /\ batch_wait_limit /\ FlushFor(s)
       \/ row_count'[s] < batch_size_rows /\ UNCHANGED <<pc, flush>>
    /\ UNCHANGED <<schemas, state, flushed_state, stage, tableVars, archive, emitted>>

\* Mutant: every STATE becomes the state to print.
AnyTime == TRUE

MayTakeState == flushed_state = NoState \/ NothingBuffered

StateMsg(st) ==
    /\ pc = "read"
    /\ \A s \in Streams : st[s] <= Len(sent[s]) /\ (state # NoState => state[s] <= st[s])
    /\ state' = st
    /\ flushed_state' = IF MayTakeState THEN st ELSE flushed_state
    /\ UNCHANGED <<inputVars, records_to_load, row_count, pc, flush, archive_data, stage, tableVars,
                   archive, emitted>>

Emit(st) == emitted' = IF st = NoState THEN emitted ELSE st

EndOfInput ==
    /\ pc = "read"
    /\ IF NothingBuffered THEN pc' = "end" /\ Emit(flushed_state) /\ UNCHANGED flush
                          ELSE StartFlush(Buffering, FALSE, TRUE) /\ UNCHANGED emitted
    /\ UNCHANGED <<inputVars, records_to_load, row_count, state, flushed_state, archive_data, stage,
                   tableVars, archive>>

-----------------------------------------------------------------------------
(* flush_streams, load_stream_batch and flush_records                      *)

\* The streams are loaded one after the other, in the order of the dictionary.
Current == CHOOSE s \in flush.pending : TRUE

\* records_to_file and put_to_stage; without rows load_stream_batch does nothing.
PutToStage ==
    /\ pc = "flush" /\ flush.pending # {}
    /\ IF row_count[Current] > 0
       THEN /\ pc' = "staged"
            /\ stage' = stage \cup {[stream |-> Current, rows |-> records_to_load[Current],
                                     range  |-> archive_data[Current]]}
            /\ UNCHANGED flush
       ELSE flush' = [flush EXCEPT !.pending = @ \ {Current}] /\ UNCHANGED <<pc, stage>>
    /\ UNCHANGED <<inputVars, records_to_load, row_count, state, flushed_state, archive_data,
                   tableVars, archive, emitted>>

TheFile == CHOOSE f \in stage : f.stream = Current /\ f.range = archive_data[Current]

\* load_file: one MERGE statement.
LoadFile ==
    /\ pc = "staged" /\ pc' = "merged"
    /\ table' = [table EXCEPT ![Current] =
                    [k \in Keys |-> IF TheFile.rows[k] # 0 THEN TheFile.rows[k] ELSE @[k]]]
    /\ loaded' = [loaded EXCEPT ![Current] = Len(sent[Current])]
    /\ UNCHANGED <<inputVars, records_to_load, row_count, state, flushed_state, flush, archive_data,
                   stage, archive, emitted>>

CopyToArchive ==
    /\ pc = "merged" /\ pc' = "archived"
    /\ archive' = archive \cup {TheFile}
    /\ UNCHANGED <<inputVars, records_to_load, row_count, state, flushed_state, flush, archive_data,
                   stage, tableVars, emitted>>

\* delete_from_stage, and the row count of the stream.
DeleteFromStage ==
    /\ pc = "archived" /\ pc' = "flush"
    /\ stage' = stage \ {TheFile}
    /\ row_count' = [row_count EXCEPT ![Current] = 0]
    /\ flush' = [flush EXCEPT !.pending = @ \ {Current}]
    /\ UNCHANGED <<inputVars, records_to_load, state, flushed_state, archive_data, tableVars,
                   archive, emitted>>

FlushedPositions ==
    IF flush.filtered
    THEN IF state = NoState THEN flushed_state
         ELSE [s \in Streams |-> IF s \in flush.streams /\ state[s] # 0
                                 THEN state[s] ELSE flushed_state[s]]
    ELSE state

\* Mutant: the range of the incremental key is never reset.
KeptRanges == archive_data

ResetRanges == [s \in Streams |-> IF s \in flush.streams THEN NoRange ELSE archive_data[s]]

FinishFlush ==
    /\ pc = "flush" /\ flush.pending = {}
    /\ pc' = IF flush.last THEN "end" ELSE "read"
    /\ flush' = NoFlush
    /\ records_to_load' = [s \in Streams |-> IF s \in flush.streams THEN Empty ELSE records_to_load[s]]
    /\ archive_data' = ResetRanges
    /\ flushed_state' = FlushedPositions
    /\ Emit(FlushedPositions)
    /\ UNCHANGED <<inputVars, row_count, state, stage, tableVars, archive>>

\* Snowflake, the stage or the archive raises, or a signal ends the process.
Fail ==
    /\ pc \notin {"end", "failed"} /\ pc' = "failed"
    /\ UNCHANGED <<inputVars, records_to_load, row_count, state, flushed_state, flush, archive_data,
                   stage, tableVars, archive, emitted>>

Next ==
    \/ \E s \in Streams, schema \in 1..2 : Schema(s, schema)
    \/ \E s \in Streams, k \in Keys : RecordMsg(s, k)
    \/ \E st \in [Streams -> 0..MaxRecords] : StateMsg(st)
    \/ EndOfInput \/ PutToStage \/ LoadFile \/ CopyToArchive \/ DeleteFromStage \/ FinishFlush
    \/ Fail

Spec == Init /\ [][Next]_snowflakeVars

-----------------------------------------------------------------------------
(* Properties                                                              *)

\* No state is printed that covers a record Snowflake does not hold, however
\* flushes by size, time and schema of several streams and STATE messages
\* alternate, and wherever the process fails (persist_lines, flush_streams).
SnowflakeStateIsLoaded ==
    emitted # NoState => \A s \in Streams : emitted[s] <= loaded[s]

\* The archive of a stream covers what is loaded, each record by the range of
\* one file, but for a batch that failed between MERGE and copy; and each row
\* of a file is in its range (flush_records, archive_load_files_data).
ArchiveCoversWhatIsLoaded ==
    \A s \in Streams :
        LET files == {f \in archive : f.stream = s}
            inRange(n, f) == f.range.min <= n /\ n <= f.range.max
        IN  /\ \A f \in files, k \in Keys : f.rows[k] # 0 => inRange(f.rows[k], f)
            /\ \A n \in 1..loaded[s] :
                 \/ Cardinality({f \in files : inRange(n, f)}) = 1
                 \/ pc \in {"merged", "failed"} /\ archive_data[s].min # 0 /\ n >= archive_data[s].min
                        /\ {f \in files : inRange(n, f)} = {}
=============================================================================
