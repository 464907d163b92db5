---------------------------- MODULE MysqlBinlog ----------------------------
(***************************************************************************)
(* tap-mysql, LOG_BASED: sync_binlog_stream reading the binary log of the  *)
(* server, after the historical syncs of the streams that have no position *)
(* yet.                                                                    *)
(*                                                                         *)
(* The log is a sequence of files, a file a sequence of events.  A         *)
(* position is a file and the number of its events before the position.    *)
(* With use_gtid (the MariaDB engine) a run starts after the transaction a *)
(* bookmark names, else at a position; either way one reader serves all    *)
(* streams and every update moves the bookmarks of all of them.            *)
(***************************************************************************)
EXTENDS Naturals, Sequences, FiniteSets, SingerPipe

CONSTANTS
    Streams,                 \* LOG_BASED streams of the tap
    OtherTable,              \* a table of the server that is not selected
    Transactions,            \* the sequences of tables a transaction changes
    UPDATE_BOOKMARK_PERIOD,
    MaxTxns, MaxFiles, MaxCrashes   \* bounds of the model

ASSUME TransactionsAssumption == Transactions \subseteq Seq(Streams \cup {OtherTable})

VARIABLES
    files,           \* the binary log: a sequence of sequences of events
    oldest,          \* the first file that is not purged
    use_gtid,        \* config['use_gtid']
    pc,              \* where do_sync is
    state,           \* per stream [file, pos, gtid]; file 0 and gtid 0 are absent
    binlog_streams,  \* streams of binlog_streams_map
    reader,          \* position of the BinLogStreamReader
    end,             \* master position when the run started to read
    log_at,          \* log_file and log_pos of _run_binlog_sync, NoPos is None
    gtid_pos,
    processed_rows_events,
    events_skipped,
    binlog_crashes,
    interrupted      \* history: transactions the saved bookmarks named when a run died

server == <<files, oldest, use_gtid>>
loop   == <<reader, end, log_at, gtid_pos, processed_rows_events, events_skipped>>
crashes == <<binlog_crashes, interrupted>>
binlogVars == <<server, pc, state, binlog_streams, loop, crashes, pipe>>

Pos(f, p)  == [file |-> f, pos |-> p]
NoPos      == Pos(0, 0)
NoBookmark == [file |-> 0, pos |-> 0, gtid |-> 0]
Before(a, b)  == a.file < b.file \/ (a.file = b.file /\ a.pos < b.pos)
Earliest(S)   == CHOOSE a \in S : \A b \in S : ~Before(b, a)
SmallestNat(S) == CHOOSE n \in S : \A m \in S : n <= m

-----------------------------------------------------------------------------
(* The server                                                              *)

Event(kind, txn, table) == [kind |-> kind, txn |-> txn, table |-> table]
Places   == UNION {{Pos(f, i) : i \in 1..Len(files[f])} : f \in 1..Len(files)}
At(p)    == files[p.file][p.pos]
Changes  == {p \in Places : At(p).kind = "rows"}
LastTxn  == CHOOSE t \in {0} \cup {At(p).txn : p \in Places} : \A p \in Places : At(p).txn <= t
Master   == Pos(Len(files), Len(files[Len(files)]))

\* A transaction is appended as a whole, a row of a table after the other.
Commit(tables) ==
    /\ LastTxn < MaxTxns
    /\ LET t == LastTxn + 1
           txn == <<Event("gtid", t, OtherTable)>>
                  \o [i \in 1..Len(tables) |-> Event("rows", t, tables[i])]
                  \o <<Event("xid", t, OtherTable)>>
       IN  files' = [files EXCEPT ![Len(files)] = @ \o txn]
    /\ UNCHANGED <<oldest, use_gtid, pc, state, binlog_streams, loop, crashes, pipe>>

\* FLUSH LOGS: the file ends with a rotate event.
RotateLog ==
    /\ Len(files) < MaxFiles
    /\ files[Len(files)] # << >>
    /\ files' = Append([files EXCEPT ![Len(files)] = Append(@, Event("rotate", 0, OtherTable))], << >>)
    /\ UNCHANGED <<oldest, use_gtid, pc, state, binlog_streams, loop, crashes, pipe>>

\* The server expires its oldest file while no reader is connected.
Purge ==
    /\ pc = "idle"
    /\ oldest < Len(files)
    /\ oldest' = oldest + 1
    /\ UNCHANGED <<files, use_gtid, pc, state, binlog_streams, loop, crashes, pipe>>

-----------------------------------------------------------------------------
(* Where a run starts                                                      *)

Marks(st, S) == {Pos(st[s].file, st[s].pos) : s \in S}

\* Mutant: the most advanced stream decides.
LatestBookmark(st, S) == CHOOSE a \in Marks(st, S) : \A b \in Marks(st, S) : ~Before(a, b)

\* The smallest position in the first file a bookmark names.
calculate_bookmark(st, S) == Earliest(Marks(st, S))
Expired(st, S) == \E p \in Marks(st, S) : p.file < oldest

Gtids(st, S) == {st[s].gtid : s \in S} \ {0}

\* BINLOG_GTID_POS: the last transaction that begins before the position.
GtidAt(p) == Cardinality({q \in Places : At(q).kind = "gtid" /\ ~Before(p, q)})

\* The smallest bookmarked GTID, or the one at the bookmarked position.
calculate_gtid_bookmark(st, S) ==
    IF Gtids(st, S) # {} THEN SmallestNat(Gtids(st, S)) ELSE GtidAt(calculate_bookmark(st, S))

\* The server sends what follows the transaction g.
AfterGtid(g) ==
    IF g < LastTxn
    THEN LET p == CHOOSE q \in Places : At(q) = Event("gtid", g + 1, OtherTable)
         IN  Pos(p.file, p.pos - 1)
    ELSE Master

StartOf(st, S) == IF use_gtid THEN AfterGtid(calculate_gtid_bookmark(st, S))
                              ELSE calculate_bookmark(st, S)

\* calculate_bookmark raises for an expired file, create_binlog_stream_reader
\* for a missing GTID, the server for a purged one.
CanStart(st, S) ==
    IF ~use_gtid THEN ~Expired(st, S)
    ELSE /\ Gtids(st, S) = {} => ~Expired(st, S)
         /\ calculate_gtid_bookmark(st, S) # 0
         /\ StartOf(st, S).file >= oldest

-----------------------------------------------------------------------------
(* do_sync                                                                 *)

Init ==
    /\ files = << << >> >>
    /\ oldest = 1
    /\ use_gtid \in BOOLEAN
    /\ pc = "idle"
    /\ state = [s \in Streams |-> NoBookmark]
    /\ binlog_streams = {}
    /\ reader = NoPos /\ end = NoPos /\ log_at = NoPos
    /\ gtid_pos = 0
    /\ processed_rows_events = 0 /\ events_skipped = 0
    /\ binlog_crashes = 0 /\ interrupted = {}
    /\ emitted = {} /\ loaded = {} /\ saved = state

\* The process is gone, and its variables with it.
Exit ==
    /\ pc' = "idle"
    /\ state' = saved'
    /\ binlog_streams' = {}
    /\ reader' = NoPos /\ end' = NoPos /\ log_at' = NoPos
    /\ gtid_pos' = 0
    /\ processed_rows_events' = 0 /\ events_skipped' = 0

HasPosition(st, s) == st[s].file # 0 \/ st[s].gtid # 0

\* do_sync chooses the streams for the binlog before it syncs the others.
StartTap ==
    /\ pc = "idle"
    /\ state' = saved
    /\ binlog_streams' = {s \in Streams : HasPosition(saved, s)}
    /\ pc' = "tables"
    /\ UNCHANGED <<server, loop, crashes, pipe>>

\* A stream without a position: the master position is read, then the table
\* is copied; the STATE that follows holds both.
HistoricalSync(s) ==
    /\ pc = "tables"
    /\ ~HasPosition(state, s)
    /\ use_gtid => LastTxn # 0
    /\ state' = [state EXCEPT ![s] = [file |-> Master.file, pos |-> Master.pos,
                                     gtid |-> IF use_gtid THEN LastTxn ELSE 0]]
    /\ RecordsAndState({c \in Changes : At(c).table = s}, state')
    /\ UNCHANGED <<server, pc, binlog_streams, loop, crashes>>

\* sync_binlog_stream: without binlog streams the run is over.
SyncBinlog ==
    /\ pc = "tables"
    /\ \A s \in Streams : HasPosition(state, s)
    /\ UNCHANGED <<server, crashes>>
    /\ IF binlog_streams = {}
       THEN RecordsAndLastState({}, state) /\ Exit
       ELSE /\ UNCHANGED <<state, binlog_streams, pipe>>
            /\ CanStart(state, binlog_streams)
            /\ pc' = "reading"
            /\ reader' = StartOf(state, binlog_streams)
            /\ gtid_pos' = IF use_gtid THEN calculate_gtid_bookmark(state, binlog_streams) ELSE 0
            /\ end' = Master
            /\ log_at' = NoPos
            /\ processed_rows_events' = 0 /\ events_skipped' = 0

\* ... or it raises, every time until the streams are synced anew.
FailToStart ==
    /\ pc = "tables"
    /\ \/ use_gtid /\ LastTxn = 0
       \/ /\ \A s \in Streams : HasPosition(state, s)
          /\ binlog_streams # {}
          /\ ~CanStart(state, binlog_streams)
    /\ Lost /\ Exit
    /\ UNCHANGED <<server, crashes>>

-----------------------------------------------------------------------------
(* _run_binlog_sync                                                        *)

HasNext == reader.pos < Len(files[reader.file])
Read    == files[reader.file][reader.pos + 1]
ReadAt  == IF Read.kind = "rotate" THEN Pos(reader.file + 1, 0)
                                   ELSE Pos(reader.file, reader.pos + 1)

\* only_events of the reader.
Delivered == Read.kind \in {"rows", IF use_gtid THEN "gtid" ELSE "rotate"}

\* All streams of the map get the position, and the GTID if there is one.
update_bookmarks(st, p, g) ==
    [s \in Streams |-> IF s \notin binlog_streams THEN st[s]
                       ELSE [file |-> p.file, pos |-> p.pos,
                             gtid |-> IF g = 0 THEN st[s].gtid ELSE g]]

\* Due stays true for the events that follow one that made it true.
Due(rows, skipped) ==
    \E n \in {rows, skipped} : n # 0 /\ n % UPDATE_BOOKMARK_PERIOD = 0

Past(p) == ~Before(p, end)

Filtered ==
    /\ pc = "reading" /\ HasNext /\ ~Delivered
    /\ reader' = ReadAt
    /\ UNCHANGED <<server, pc, state, binlog_streams, end, log_at, gtid_pos,
                   processed_rows_events, events_skipped, crashes, pipe>>

\* The end of a turn of the loop: a STATE when it is due.
EndOfTurn(st, R) ==
    IF Due(processed_rows_events', events_skipped')
    THEN /\ state' = update_bookmarks(st, ReadAt, gtid_pos')
         /\ RecordsAndState(R, state')
    ELSE state' = st /\ Records(R)

Turn ==
    /\ pc = "reading" /\ HasNext /\ Delivered /\ ~Past(ReadAt)
    /\ reader' = ReadAt
    /\ log_at' = ReadAt
    /\ UNCHANGED <<server, pc, binlog_streams, end, crashes>>

RotateEvent ==
    /\ Turn /\ Read.kind = "rotate"
    /\ UNCHANGED <<gtid_pos, processed_rows_events, events_skipped>>
    /\ EndOfTurn(update_bookmarks(state, ReadAt, gtid_pos), {})

GtidEvent ==
    /\ Turn /\ Read.kind = "gtid"
    /\ gtid_pos' = Read.txn
    /\ UNCHANGED <<processed_rows_events, events_skipped>>
    /\ EndOfTurn(update_bookmarks(state, ReadAt, gtid_pos'), {})

\* Rows of a table that is not in binlog_streams_map, also of a stream whose
\* historical sync ended in this run.
SkippedRows ==
    /\ Turn /\ Read.kind = "rows" /\ Read.table \notin binlog_streams
    /\ events_skipped' = events_skipped + 1
    /\ UNCHANGED <<gtid_pos, processed_rows_events>>
    /\ EndOfTurn(state, {})

RowsEvent ==
    /\ Turn /\ Read.kind = "rows" /\ Read.table \in binlog_streams
    /\ processed_rows_events' = processed_rows_events + 1
    /\ UNCHANGED <<gtid_pos, events_skipped>>
    /\ EndOfTurn(state, {ReadAt})

\* An event at or past the end position ends the loop unprocessed, and the
\* position goes back to the end position.
ReachEnd ==
    /\ pc = "reading" /\ HasNext /\ Delivered /\ Past(ReadAt)
    /\ reader' = ReadAt
    /\ log_at' = end
    /\ pc' = "closing"
    /\ UNCHANGED <<server, state, binlog_streams, end, gtid_pos,
                   processed_rows_events, events_skipped, crashes, pipe>>

\* The reader runs out of events.
NoMoreEvents ==
    /\ pc = "reading" /\ ~HasNext
    /\ pc' = "closing"
    /\ UNCHANGED <<server, state, binlog_streams, loop, crashes, pipe>>

\* The last update of the bookmarks and the closing STATE.
Finish ==
    /\ pc = "closing"
    /\ RecordsAndLastState({}, IF log_at = NoPos THEN state
                                ELSE update_bookmarks(state, log_at, gtid_pos))
    /\ Exit
    /\ UNCHANGED <<server, crashes>>

\* An exception or a kill: no STATE is written.
Die ==
    /\ pc # "idle"
    /\ binlog_crashes < MaxCrashes
    /\ binlog_crashes' = binlog_crashes + 1
    /\ interrupted' = interrupted \cup Gtids(saved, Streams)
    /\ Lost /\ Exit
    /\ UNCHANGED server

Next ==
    \/ \E tables \in Transactions : Commit(tables)
    \/ RotateLog \/ Purge
    \/ StartTap \/ SyncBinlog \/ FailToStart
    \/ \E s \in Streams : HistoricalSync(s)
    \/ Filtered \/ RotateEvent \/ GtidEvent \/ SkippedRows \/ RowsEvent
    \/ ReachEnd \/ NoMoreEvents \/ Finish
    \/ Die

Spec == Init /\ [][Next]_binlogVars

-----------------------------------------------------------------------------
(* Properties                                                              *)

\* Changes a run that starts from the state st does not read.
SkippedBy(st) ==
    LET S == {s \in Streams : HasPosition(st, s)}
    IN  {c \in Changes : At(c).table \in S /\ ~Before(StartOf(st, S), c)}

\* A run that starts from the saved state skips no change the warehouse does
\* not hold, whatever the streams joined, the files rotated and the process
\* died.  With GTIDs this holds but for rows of a transaction that a bookmark
\* names while a run is at work, or named when a run died
\* (sync_binlog_stream, _run_binlog_sync).
BinlogSkipsNothing ==
    \A c \in SkippedBy(saved) \ loaded :
        /\ use_gtid
        /\ \/ At(c).txn \in interrupted
           \/ pc # "idle" /\ At(c).txn = saved[At(c).table].gtid

\* Checked by no run, and not true: that it holds for these rows as well.
BinlogResumesExactly == SkippedBy(saved) \subseteq loaded
=============================================================================
