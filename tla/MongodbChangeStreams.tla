------------------------ MODULE MongodbChangeStreams ------------------------
(***************************************************************************)
(* tap-mongodb, LOG_BASED: sync_log_based_streams and sync_database.       *)
(*                                                                         *)
(* The oplog is a sequence of changes and a resume token its index.  An    *)
(* insert and a delete are written as they are read; an update only puts   *)
(* the _id into update_buffer, and flush_buffer fetches the documents as   *)
(* they are by then.  The $match of the stream leaves out a replace: the   *)
(* document waits for its next change.                                     *)
(***************************************************************************)
EXTENDS Naturals, Sequences, FiniteSets, SingerPipe

CONSTANTS
    Collections,
    DocsOf,                  \* the documents of each collection
    update_buffer_size,
    UPDATE_BOOKMARK_PERIOD,
    MaxOplog, MaxDeaths      \* bounds of the model

VARIABLES
    oplog,           \* sequence of [op, doc], op one of Operations
    pc,              \* "idle", "watching" or "leaving"
    state,           \* resume token of each stream, 0 is none
    cursor,          \* number of changes read
    update_buffer,   \* documents updated and not fetched yet
    rows_saved,
    deaths,
    unflushed        \* history: in the buffer when a closing STATE was written

streamVars == <<oplog, pc, state, cursor, update_buffer, rows_saved, deaths, unflushed, pipe>>

Docs      == UNION {DocsOf[s] : s \in Collections}
Operations == {"insert", "update", "delete", "replace"}
OperationsOf(d) == {i \in 1..Len(oplog) : oplog[i].doc = d}

\* Those of the document that the stream has.
ChangesOf(d) == {i \in OperationsOf(d) : oplog[i].op # "replace"}
Latest(S) == CHOOSE i \in S : \A j \in S : j <= i
Exists(d) == ChangesOf(d) # {} /\ oplog[Latest(ChangesOf(d))].op # "delete"

\* A record has the document, and the operation after which it was read.
Record(d, i) == [doc |-> d, ver |-> i]
Tokens(st) == {st[s] : s \in Collections} \ {0}

Init ==
    /\ oplog = << >>
    /\ pc = "idle"
    /\ state = [s \in Collections |-> 0]
    /\ cursor = 0 /\ update_buffer = {} /\ rows_saved = 0
    /\ deaths = 0 /\ unflushed = {}
    /\ emitted = {} /\ loaded = {} /\ saved = state

\* The database executes an operation.
Write(d, op) ==
    /\ Len(oplog) < MaxOplog
    /\ op = "insert" <=> ~Exists(d)
    /\ oplog' = Append(oplog, [op |-> op, doc |-> d])
    /\ UNCHANGED <<pc, state, cursor, update_buffer, rows_saved, deaths, unflushed, pipe>>

\* Fastsync copies a collection, before its first run and whenever it is synced
\* anew; it replaces the table and leaves the token from before the copy.
InitialCopy(s) ==
    /\ pc = "idle" /\ oplog # << >>
    /\ loaded' = {r \in loaded : r.doc \notin DocsOf[s]}
                 \cup {Record(d, Latest(OperationsOf(d))) : d \in {e \in DocsOf[s] : Exists(e)}}
    /\ emitted' = loaded'
    /\ saved' = [saved EXCEPT ![s] = Len(oplog)]
    /\ state' = saved'
    /\ UNCHANGED <<oplog, pc, cursor, update_buffer, rows_saved, deaths, unflushed>>

\* Mutant: the most advanced token.
LatestToken(st) == Latest(Tokens(st))

get_token_from_state(st) == CHOOSE t \in Tokens(st) : \A u \in Tokens(st) : t <= u

\* The STATEs of sync_log_based_streams have the bookmarks of the last run.
Watch ==
    /\ pc = "idle" /\ \A s \in Collections : saved[s] # 0
    /\ state' = saved
    /\ cursor' = get_token_from_state(saved)
    /\ update_buffer' = {} /\ rows_saved' = 0
    /\ pc' = "watching"
    /\ UNCHANGED <<oplog, deaths, unflushed, pipe>>

update_bookmarks(token) == [s \in Collections |-> token]

\* flush_buffer finds the documents that still exist.
Fetched(buffer) == {Record(d, Latest(OperationsOf(d))) : d \in {e \in buffer : Exists(e)}}

Buffered(c) == CASE c.op = "update" -> update_buffer \cup {c.doc}
                 [] c.op = "delete" -> update_buffer \ {c.doc}
                 [] OTHER -> update_buffer

\* One turn of the loop; a STATE when the number of rows allows it after the
\* flush.
ReadChange ==
    /\ pc = "watching" /\ cursor < Len(oplog) /\ oplog[cursor + 1].op # "replace"
    /\ LET c      == oplog[cursor + 1]
           R      == IF c.op = "update" THEN {} ELSE {Record(c.doc, cursor + 1)}
           rows   == rows_saved + Cardinality(R)
           buffer == Buffered(c)
           flush  == \/ Cardinality(buffer) >= update_buffer_size
                     \/ rows % UPDATE_BOOKMARK_PERIOD = 0
           F      == IF flush THEN Fetched(buffer) ELSE {}
       IN  /\ state' = update_bookmarks(cursor + 1)
           /\ update_buffer' = IF flush THEN {} ELSE buffer
           /\ rows_saved' = rows + Cardinality(F)
           /\ IF flush /\ rows_saved' % UPDATE_BOOKMARK_PERIOD = 0
              THEN RecordsAndState(R \cup F, state')
              ELSE Records(R \cup F)
    /\ cursor' = cursor + 1
    /\ UNCHANGED <<oplog, pc, deaths, unflushed>>

\* The server leaves out what does not match, and moves the resume token.
PassReplace ==
    /\ pc = "watching" /\ cursor < Len(oplog) /\ oplog[cursor + 1].op = "replace"
    /\ cursor' = cursor + 1
    /\ UNCHANGED <<oplog, pc, state, update_buffer, rows_saved, deaths, unflushed, pipe>>

\* No change within await_time_ms: the STATE comes before the last flush.
NoChange ==
    /\ pc = "watching" /\ cursor = Len(oplog)
    /\ state' = update_bookmarks(cursor)
    /\ RecordsAndState({}, state')
    /\ unflushed' = unflushed \cup update_buffer
    /\ pc' = "leaving"
    /\ UNCHANGED <<oplog, cursor, update_buffer, rows_saved, deaths>>

Exit == pc' = "idle" /\ state' = saved' /\ cursor' = 0 /\ update_buffer' = {} /\ rows_saved' = 0

\* The last flush and the STATE of sync_log_based_streams.
Finish ==
    /\ pc = "leaving"
    /\ RecordsAndLastState(Fetched(update_buffer), state)
    /\ Exit
    /\ UNCHANGED <<oplog, deaths, unflushed>>

Die ==
    /\ pc # "idle" /\ deaths < MaxDeaths
    /\ deaths' = deaths + 1
    /\ Lost /\ Exit
    /\ UNCHANGED <<oplog, unflushed>>

Next ==
    \/ \E d \in Docs, op \in Operations : Write(d, op)
    \/ \E s \in Collections : InitialCopy(s)
    \/ Watch \/ ReadChange \/ PassReplace \/ NoChange \/ Finish
    \/ Die

Spec == Init /\ [][Next]_streamVars

-----------------------------------------------------------------------------
(* Properties                                                              *)

Versions(d) == {r.ver : r \in {q \in loaded : q.doc = d}}

\* Documents whose last change in the stream the next run does not read and no record has.
SkippedDocs ==
    {d \in Docs : /\ ChangesOf(d) # {}
                  /\ \E s \in Collections : d \in DocsOf[s] /\ saved[s] # 0
                  /\ Latest(ChangesOf(d)) <= get_token_from_state(saved)
                  /\ Exists(d) \/ Versions(d) # {}
                  /\ \A v \in Versions(d) : v < Latest(ChangesOf(d))}

\* Checked by no run, and not true: no token passes the last change of a
\* document that is not loaded; nor the last operation.
ChangeStreamsSkipNothing == SkippedDocs = {}
ChangeStreamsHaveReplaces ==
    \A d \in Docs, s \in Collections :
        d \in DocsOf[s] /\ Exists(d) /\ Latest(OperationsOf(d)) <= saved[s]
            => Latest(OperationsOf(d)) \in Versions(d)

\* No token passes the last change the stream has of a document that is not
\* loaded, but for the updates a run has in its buffer when it writes its closing
\* STATE, which sync_database does before it flushes the buffer.
OnlyTheClosingBufferIsSkipped ==
    \A d \in SkippedDocs : d \in unflushed /\ oplog[Latest(ChangesOf(d))].op = "update"
=============================================================================
