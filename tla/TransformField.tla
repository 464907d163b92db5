--------------------------- MODULE TransformField ---------------------------
(***************************************************************************)
(* transform-field, the process between the tap and the target, next to    *)
(* what fastsync does instead of it.  The process buffers the messages of  *)
(* one stream, masks and writes them when a batch is full, the stream      *)
(* changes or a SCHEMA comes, and only then writes the last STATE it has   *)
(* received.  fastsync masks a whole table with UPDATE statements.         *)
(*                                                                         *)
(* A new version of a stream is a new stream to the buffer.  A condition   *)
(* compares for equality; regex_match and field_path are left out.         *)
(***************************************************************************)
EXTENDS Naturals, Sequences

CONSTANTS
    Streams, Columns, Values,
    Null,                    \* also the empty values, "" and 0, of a condition
    Configurations,          \* transformation.json, sequences of
                             \* [tap_stream_name, field_id, type, when]
    DEFAULT_MAX_BATCH_RECORDS,
    MaxRecords               \* bound of the model

VARIABLES
    transformations,
    input,           \* RECORD messages so far, [stream, row]
    messages,        \* self.messages: numbers of records, in a batch of one stream
    state,           \* self.state: the number of records before the STATE, 0 is None
    output,          \* RECORD messages written, [number, row]
    written,         \* the last STATE written
    pc

transformVars == <<transformations, input, messages, state, output, written, pc>>

RowsOf == [Columns -> Values \cup {Null}]

Init ==
    /\ transformations \in Configurations
    /\ input = << >> /\ messages = << >> /\ state = 0
    /\ output = << >> /\ written = 0
    /\ pc = "consume"

-----------------------------------------------------------------------------
(* transform.py, and its counterpart in SQL                                *)

\* The transformations are kept by stream, each list in the order of the configuration.
OfStream(t, stream) == t.tap_stream_name = stream

\* A hash leaves NULL alone, in Python by the exception it raises.
transform_value(value, type) ==
    CASE type = "SET-NULL"    -> Null
      [] type = "MASK-HIDDEN" -> "hidden"
      [] type = "HASH"        -> IF value = Null THEN Null ELSE "hash"

\* A condition that asks for an empty value is passed over.
is_transform_required(row, when) ==
    when # << >> =>
        /\ \E i \in DOMAIN when : when[i].equals # Null
        /\ \A i \in DOMAIN when : when[i].equals # Null => row[when[i].column] = when[i].equals

WithTransformed(row, t) == [row EXCEPT ![t.field_id] = transform_value(@, t.type)]

\* One transformation after the other, each one that is Asked for.
InOrder(row, trans, Asked(_, _)) ==
    LET after[n \in 0..Len(trans)] ==
            IF n = 0 THEN row
            ELSE IF Asked(after[n - 1], trans[n]) THEN WithTransformed(after[n - 1], trans[n])
            ELSE after[n - 1]
    IN  after[Len(trans)]

\* do_transform for each transformation of the stream.
Transformed(row, trans, stream) ==
    InOrder(row, trans, LAMBDA r, t : OfStream(t, stream) /\ is_transform_required(r, t.when))

\* Mutant: the WHERE clause joins the conditions with OR.
any_condition_in_sql(row, when) == \E i \in DOMAIN when : row[when[i].column] = when[i].equals

\* The WHERE clause: = and IS NULL, joined with AND.
conditions_to_sql(row, when) == \A i \in DOMAIN when : row[when[i].column] = when[i].equals

\* UPDATE statements with a condition, one by one.
UpdatedWhere(row, trans, stream) ==
    InOrder(row, trans, LAMBDA r, t :
        OfStream(t, stream) /\ t.when # << >> /\ conditions_to_sql(r, t.when))

\* One UPDATE for all the others.
UpdatedAll(row, trans, stream) ==
    InOrder(row, trans, LAMBDA r, t : OfStream(t, stream) /\ t.when = << >>)

MaskedByFastsync(row, trans, stream) == UpdatedAll(UpdatedWhere(row, trans, stream), trans, stream)

-----------------------------------------------------------------------------
(* handle_line and flush                                                   *)

StreamOf(batch) == input'[Head(batch)].stream

\* The batch is masked with the transformations of the stream of its first message.
WriteBatch(batch) ==
    output' = output \o [i \in 1..Len(batch) |->
                 [number |-> batch[i],
                  row    |-> Transformed(input'[batch[i]].row, transformations, StreamOf(batch))]]

\* flush of the batch; the rest stays in the buffer.
flush(batch, rest) ==
    /\ WriteBatch(batch)
    /\ messages' = rest
    /\ written' = IF state # 0 THEN state ELSE written
    /\ state' = 0

Keep(batch) == messages' = batch /\ UNCHANGED <<state, output, written>>

\* Mutant: the buffer takes the messages of any stream.
AnyStream(stream) == TRUE

BufferedAlready(stream) == \A i \in DOMAIN messages : input[messages[i]].stream = stream

\* A RECORD of another stream flushes the buffer; it is in the buffer before a
\* full batch or one that waited for too long is flushed.  (An
\* ACTIVATE_VERSION is buffered like it, and not written.)
RecordMessage(stream, row) ==
    /\ pc = "consume" /\ Len(input) < MaxRecords
    /\ input' = Append(input, [stream |-> stream, row |-> row])
    /\ LET number == Len(input) + 1
           full   == Len(messages) + 1 >= DEFAULT_MAX_BATCH_RECORDS
       IN  \/ /\ BufferedAlready(stream)
              /\ \/ flush(Append(messages, number), << >>)
                 \/ ~full /\ Keep(Append(messages, number))
           \/ ~BufferedAlready(stream) /\ flush(messages, <<number>>)
    /\ UNCHANGED <<transformations, pc>>

\* A SCHEMA flushes and is written.
SchemaMessage ==
    /\ pc = "consume"
    /\ messages # << >> \/ state # 0
    /\ UNCHANGED input
    /\ flush(messages, << >>)
    /\ UNCHANGED <<transformations, pc>>

\* Mutant: a STATE is written as it comes.
WriteState == state' = 0 /\ written' = Len(input)

HoldState == state' = Len(input) /\ UNCHANGED written

StateMessage ==
    /\ pc = "consume" /\ input # << >>
    /\ HoldState
    /\ UNCHANGED <<transformations, input, messages, output, pc>>

\* consume: the input has ended.
EndOfInput ==
    /\ pc = "consume"
    /\ UNCHANGED input
    /\ flush(messages, << >>)
    /\ pc' = "end"
    /\ UNCHANGED transformations

\* A record that is not valid, a transformation that does not fit its column,
\* or a signal.
Fails ==
    /\ pc = "consume"
    /\ pc' = "failed"
    /\ UNCHANGED <<transformations, input, messages, state, output, written>>

Next ==
    \/ \E stream \in Streams, row \in RowsOf : RecordMessage(stream, row)
    \/ SchemaMessage \/ StateMessage \/ EndOfInput \/ Fails

Spec == Init /\ [][Next]_transformVars

-----------------------------------------------------------------------------
(* Properties                                                              *)

\* A STATE that is written comes after all records that preceded it in the
\* input, and these are written in their order, whatever was in the buffer
\* (handle_line, flush).
StateFollowsItsRecords ==
    \A n \in 1..written : n <= Len(output) /\ output[n].number = n

Asks(t, column) == \E i \in DOMAIN t.when : t.when[i].column = column

\* The configurations for which the two paths are the same: no condition asks
\* for an empty value, and no transformation without conditions comes before
\* one of its own column, or one with a condition on its column.
SameOnBothPaths(trans, stream) ==
    LET here == {n \in DOMAIN trans : OfStream(trans[n], stream)}
    IN  /\ \A n \in here : \A c \in DOMAIN trans[n].when : trans[n].when[c].equals # Null
        /\ \A i, j \in here :
              i < j /\ trans[i].when = << >> =>
                  trans[j].field_id # trans[i].field_id /\ ~Asks(trans[j], trans[i].field_id)

\* A row that comes by the singer pipe is masked as fastsync masks it, "functionally
\* identical", in all configurations but those (do_transform, get_trans_in_sql_flavor).
MasksLikeFastsync ==
    \A n \in DOMAIN output :
        LET record == input[output[n].number]
        IN  SameOnBothPaths(transformations, record.stream) =>
                output[n].row = MaskedByFastsync(record.row, transformations, record.stream)
=============================================================================
