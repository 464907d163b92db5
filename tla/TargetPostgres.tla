--------------------------- MODULE TargetPostgres ---------------------------
(***************************************************************************)
(* target-postgres: the process at the end of the singer pipe.             *)
(*                                                                         *)
(* persist_lines reads one singer message at a time, buffers the records   *)
(* of every stream keyed by primary key, and writes a buffer to the        *)
(* warehouse when it is full, when the stream announces a new SCHEMA or    *)
(* when the input ends.  After every flush it prints a state message:      *)
(* PipelineWise saves it and the next run of the tap starts from it.  The  *)
(* printed positions must therefore never run ahead of what is in the      *)
(* warehouse.                                                              *)
(*                                                                         *)
(* A position of a stream is the number of its records that a bookmark     *)
(* covers, 0 when the state holds no bookmark for the stream.  The tap is  *)
(* the environment: it sends what the singer protocol lets it send.        *)
(***************************************************************************)
EXTENDS Integers, Sequences, FiniteSets

CONSTANTS
    Streams,          \* the tap_stream_ids of the tap
    Keys,             \* primary key values
    NoState,          \* the value of `state` before the first STATE message
    BatchSize,        \* config['batch_size_rows']
    FlushAllStreams,  \* config['flush_all_streams']
    HardDelete,       \* config['hard_delete']
    StateFirst,       \* the tap sends a STATE before its first RECORD
    MaxRecords        \* bound of the model: records per stream and run

ASSUME StreamsAssumption  == IsFiniteSet(Streams) /\ Streams # {}
ASSUME KeysAssumption     == IsFiniteSet(Keys)
ASSUME NoStateAssumption  == NoState \notin [Streams -> Nat]
ASSUME BatchAssumption    == BatchSize \in Nat \ {0}
ASSUME ConfigAssumption   == /\ FlushAllStreams \in BOOLEAN
                             /\ HardDelete \in BOOLEAN
                             /\ StateFirst \in BOOLEAN
ASSUME MaxRecordsAssumption == MaxRecords \in Nat

VARIABLES
    sent,             \* per stream, the records the tap has sent so far
    schemas,          \* streams whose SCHEMA message has arrived
    records_to_load,  \* per stream and key, the index of the buffered record
    row_count,        \* per stream, the number of buffered rows
    state,            \* the last STATE message
    flushed_state,    \* the state that will be printed next
    pc,               \* where persist_lines is
    to_flush,         \* streams_to_flush of the running flush_streams call
    pending,          \* those of them not loaded yet
    filtered,         \* filter_streams was given
    current,          \* the stream load_stream_batch works on
    after,            \* what follows the flush: "read" or "end"
    table,            \* the warehouse: index of the record each row holds
    loaded,           \* history: how many records of a stream are loaded
    emitted           \* the last state printed to stdout

input   == <<sent, schemas>>
buffers == <<records_to_load, row_count>>
control == <<pc, to_flush, pending, filtered, current, after>>
sink    == <<table, loaded>>
vars    == <<input, buffers, state, flushed_state, control, sink, emitted>>

Record   == [key : Keys, deleted : BOOLEAN]
Position == [Streams -> Nat]

\* Mutant: only the streams whose buffer is full count as buffered.
FullStreams == {s \in Streams : row_count[s] >= BatchSize}

\* The streams records_to_load has an entry for: those that sent a record.
BufferedStreams == {s \in Streams : sent[s] # << >>}

\* Mutant: what is left when the input ends is flushed only if it fills a batch.
SomethingFull == \E s \in Streams : row_count[s] >= BatchSize

\* sum(row_count.values()) > 0
SomethingBuffered == \E s \in Streams : row_count[s] > 0

Init ==
    /\ sent = [s \in Streams |-> << >>]
    /\ schemas = {}
    /\ records_to_load = [s \in Streams |-> [k \in Keys |-> 0]]
    /\ row_count = [s \in Streams |-> 0]
    /\ state = NoState
    /\ flushed_state = NoState
    /\ pc = "read"
    /\ to_flush = {}
    /\ pending = {}
    /\ filtered = FALSE
    /\ current \in Streams
    /\ after = "read"
    /\ table = [s \in Streams |-> [k \in Keys |-> 0]]
    /\ loaded = [s \in Streams |-> 0]
    /\ emitted = NoState

-----------------------------------------------------------------------------
(* flush_streams                                                           *)

\* Enter flush_streams with the streams to flush, selected by a filter or not.
StartFlush(selected, byFilter, next) ==
    /\ pc' = "flush"
    /\ filtered' = byFilter
    /\ to_flush' = selected
    /\ pending' = selected
    /\ after' = next
    /\ UNCHANGED current

\* Mutant: rows are inserted when their key is new and never updated.
InsertedRow(s, k) ==
    IF table[s][k] # 0 THEN table[s][k] ELSE records_to_load[s][k]

\* update_from_temp_table and insert_from_temp_table: the row of key k.
MergedRow(s, k) ==
    IF records_to_load[s][k] # 0 THEN records_to_load[s][k] ELSE table[s][k]

\* load_stream_batch up to the commit of load_csv: one transaction that
\* updates the rows whose key is in the batch and inserts the others.
LoadCsv(s) ==
    /\ pc = "flush"
    /\ s \in pending
    /\ IF row_count[s] > 0
       THEN /\ table' = [table EXCEPT ![s] = [k \in Keys |-> MergedRow(s, k)]]
            /\ loaded' = [loaded EXCEPT ![s] = Len(sent[s])]
       ELSE UNCHANGED sink
    /\ pc' = "delete"
    /\ current' = s
    /\ UNCHANGED <<input, buffers, state, flushed_state, to_flush, pending,
                   filtered, after, emitted>>

\* Mutant: the row count is reduced by a full batch instead of being reset.
RowCountLess(s) == row_count[s] - BatchSize

\* row_count[stream] = 0
RowCountAfterLoad(s) == 0

\* The rest of load_stream_batch: with hard_delete a second transaction drops
\* the rows flagged _sdc_deleted_at; then the row count is reset.
DeleteRows ==
    /\ pc = "delete"
    /\ table' = IF HardDelete
                THEN [table EXCEPT ![current] = [k \in Keys |->
                        IF table[current][k] # 0
                             /\ sent[current][table[current][k]].deleted
                        THEN 0 ELSE table[current][k]]]
                ELSE table
    /\ row_count' = [row_count EXCEPT ![current] = RowCountAfterLoad(current)]
    /\ pending' = pending \ {current}
    /\ pc' = "flush"
    /\ UNCHANGED <<input, records_to_load, state, flushed_state, to_flush,
                   filtered, current, after, loaded, emitted>>

\* Mutant: the whole state is taken whether or not every stream was flushed.
FlushedPositionsUnfiltered == IF to_flush = {} THEN flushed_state ELSE state

\* Mutant: the returned state holds the bookmarks of the flushed streams only.
FlushedPositionsPartial ==
    IF ~filtered \/ state = NoState THEN state
    ELSE [s \in Streams |-> IF s \in to_flush THEN state[s] ELSE 0]

\* The positions flush_streams returns: with a filter only the bookmarks of
\* the flushed streams are taken from the last STATE, otherwise all of it.
FlushedPositions ==
    IF to_flush = {} \/ (filtered /\ state = NoState) THEN flushed_state
    ELSE IF ~filtered THEN state
    ELSE [s \in Streams |-> IF s \in to_flush /\ state[s] # 0
                            THEN state[s] ELSE flushed_state[s]]

\* emit_state prints nothing when the state is None.
Emit(st) == emitted' = IF st = NoState THEN emitted ELSE st

\* All streams are loaded: empty their buffers, move flushed_state, print it.
FinishFlush ==
    /\ pc = "flush"
    /\ pending = {}
    /\ records_to_load' = [s \in Streams |-> IF s \in to_flush
                              THEN [k \in Keys |-> 0] ELSE records_to_load[s]]
    /\ flushed_state' = FlushedPositions
    /\ Emit(FlushedPositions)
    /\ pc' = IF after = "end" THEN "stopped" ELSE "read"
    /\ UNCHANGED <<input, row_count, state, to_flush, pending, filtered,
                   current, after, sink>>

-----------------------------------------------------------------------------
(* persist_lines: one action per message type                              *)

\* A SCHEMA message.  Rows of that stream still buffered are flushed first,
\* together with those of every other stream.
Schema(s) ==
    /\ pc = "read"
    /\ schemas' = schemas \cup {s}
    /\ UNCHANGED sent
    /\ IF row_count[s] > 0
       THEN StartFlush(BufferedStreams, FALSE, "read")
       ELSE UNCHANGED control
    /\ UNCHANGED <<buffers, state, flushed_state, sink, emitted>>

\* A RECORD message: the last record of a key wins; a full buffer is flushed.
RecordMsg(s, r) ==
    /\ pc = "read"
    /\ s \in schemas
    /\ Len(sent[s]) < MaxRecords
    /\ StateFirst => state # NoState
    /\ sent' = [sent EXCEPT ![s] = Append(@, r)]
    /\ records_to_load' = [records_to_load EXCEPT ![s][r.key] = Len(sent[s]) + 1]
    /\ row_count' = [row_count EXCEPT ![s] =
                        Cardinality({k \in Keys : records_to_load'[s][k] # 0})]
    /\ IF row_count'[s] >= BatchSize
       THEN StartFlush(IF FlushAllStreams THEN BufferedStreams \cup {s} ELSE {s},
                       ~FlushAllStreams, "read")
       ELSE UNCHANGED control
    /\ UNCHANGED <<schemas, state, flushed_state, sink, emitted>>

\* A STATE message.  Its bookmarks cover only records sent before it and do
\* not move back within a run of the tap.  A STATE that is an empty dict, which
\* the test of flushed_state takes for none, is left out.
StateMsg(st) ==
    /\ pc = "read"
    /\ \A s \in Streams : /\ st[s] <= Len(sent[s])
                          /\ state # NoState => state[s] <= st[s]
    /\ state' = st
    /\ flushed_state' = IF flushed_state = NoState THEN st ELSE flushed_state
    /\ UNCHANGED <<input, buffers, control, sink, emitted>>

\* An ACTIVATE_VERSION message.
ActivateVersion ==
    /\ pc = "read"
    /\ flushed_state' = IF flushed_state = NoState THEN state ELSE flushed_state
    /\ UNCHANGED <<input, buffers, state, control, sink, emitted>>

\* End of the input: flush what is left, print the state and exit.
EndOfInput ==
    /\ pc = "read"
    /\ IF SomethingBuffered
       THEN /\ StartFlush(BufferedStreams, FALSE, "end")
            /\ UNCHANGED emitted
       ELSE /\ pc' = "stopped"
            /\ Emit(flushed_state)
            /\ UNCHANGED <<to_flush, pending, filtered, current, after>>
    /\ UNCHANGED <<input, buffers, state, flushed_state, sink>>

\* A database error, an invalid record or a signal ends the process.
Fail ==
    /\ pc \notin {"stopped", "failed"}
    /\ pc' = "failed"
    /\ UNCHANGED <<input, buffers, state, flushed_state, to_flush, pending,
                   filtered, current, after, sink, emitted>>

Next ==
    \/ \E s \in Streams : Schema(s) \/ LoadCsv(s)
    \/ \E s \in Streams, r \in Record : RecordMsg(s, r)
    \/ \E st \in [Streams -> 0..MaxRecords] : StateMsg(st)
    \/ ActivateVersion
    \/ EndOfInput
    \/ DeleteRows
    \/ FinishFlush
    \/ Fail

Spec == Init /\ [][Next]_vars

-----------------------------------------------------------------------------
(* Properties                                                              *)

\* Type invariant of the process, its flush bookkeeping and the warehouse.
TypeOK ==
    /\ sent \in [Streams -> Seq(Record)]
    /\ schemas \subseteq Streams
    /\ records_to_load \in [Streams -> [Keys -> Nat]]
    /\ row_count \in [Streams -> Nat]
    /\ state \in Position \cup {NoState}
    /\ flushed_state \in Position \cup {NoState}
    /\ state = NoState <=> flushed_state = NoState
    /\ pc \in {"read", "flush", "delete", "stopped", "failed"}
    /\ to_flush \subseteq Streams
    /\ pending \subseteq to_flush
    /\ filtered \in BOOLEAN
    /\ current \in Streams
    /\ after \in {"read", "end"}
    /\ table \in [Streams -> [Keys -> Nat]]
    /\ loaded \in [Streams -> Nat]
    /\ emitted \in Position \cup {NoState}

\* No state is printed that covers a record the warehouse does not hold: a
\* restart from any printed state loses nothing.  This is what the parameter
\* flushed_state of flush_streams promises.
EmittedStateIsLoaded ==
    emitted # NoState => \A s \in Streams : emitted[s] <= loaded[s]

\* The last record with key k among the first n of a stream, 0 if none.
LastOf(s, k, n) ==
    LET idx == {i \in 1..n : sent[s][i].key = k}
    IN  IF idx = {} THEN 0 ELSE CHOOSE i \in idx : \A j \in idx : j <= i

\* What the row of key k must hold after the first n records of the stream.
ReplayOf(s, k, n) ==
    LET i == LastOf(s, k, n)
    IN  IF i # 0 /\ HardDelete /\ sent[s][i].deleted THEN 0 ELSE i

\* Whatever the batches were, the warehouse holds the replay of the loaded
\* records: per key the last one wins and, with hard_delete, a deleted row is
\* gone.  A table between its two load transactions is excepted.
TableIsReplay ==
    \A s \in Streams, k \in Keys :
        ~(pc \in {"delete", "failed"} /\ s = current)
            => table[s][k] = ReplayOf(s, k, loaded[s])

\* A clean exit leaves nothing behind in a buffer.
CleanExitLoadsEverything ==
    pc = "stopped" => \A s \in Streams : loaded[s] = Len(sent[s])

\* The printed positions never move back: a later saved state never makes the
\* next run repeat more than an earlier one would have.
EmittedNeverGoesBack ==
    [][emitted # NoState => \A s \in Streams : emitted[s] <= emitted'[s]]_emitted

-----------------------------------------------------------------------------
(* The inductive invariant behind EmittedStateIsLoaded                     *)

\* The configurations and taps for which no printed state is ahead: every
\* flush loads all streams, or flushed_state is taken before any record.
SafeConfig ==
    \/ FlushAllStreams
    \/ StateFirst
    \/ \E s \in Streams : Streams = {s}

\* Pointwise order on states; NoState covers nothing.
Below(st, pos) == st # NoState => \A s \in Streams : st[s] <= pos[s]

\* A stream without buffered rows is loaded as far as it was sent.
CountsInv ==
    /\ \A s \in Streams : loaded[s] <= Len(sent[s])
    /\ \A s \in Streams : row_count[s] = 0 => loaded[s] = Len(sent[s])
    /\ \A s \in Streams : row_count[s] > 0 => s \in BufferedStreams

\* What the running flush has already loaded.
FlushInv ==
    /\ pc \in {"flush", "delete"} =>
         /\ \A s \in to_flush \ pending : row_count[s] = 0
         /\ ~filtered => to_flush = BufferedStreams
         /\ to_flush # {}
         /\ filtered => ~FlushAllStreams
    /\ pc = "delete" => /\ current \in pending
                        /\ loaded[current] = Len(sent[current])

\* The two states persist_lines keeps, relative to what was sent.
StateInv ==
    /\ state # NoState => \A s \in Streams : state[s] <= Len(sent[s])
    /\ flushed_state # NoState => \A s \in Streams : flushed_state[s] <= state[s]

\* When the tap sends its state first, no record precedes flushed_state.
StateFirstInv ==
    StateFirst => /\ Below(flushed_state, loaded)
                  /\ state = NoState => \A s \in Streams : sent[s] = << >>

IInv == CountsInv /\ FlushInv /\ StateInv /\ StateFirstInv /\ EmittedStateIsLoaded
=============================================================================
