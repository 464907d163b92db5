--------------------------- MODULE PostgresTables ---------------------------
(***************************************************************************)
(* tap-postgres, the streams read with SELECT: sync_traditional_stream     *)
(* with full_table.sync_table, incremental.sync_table and the initial copy *)
(* of a LOG_BASED stream.  An interrupted copy goes on from the xmin of    *)
(* the last row, the id of the transaction that wrote it; the rows come in *)
(* the order of the TEXT of that id.                                       *)
(***************************************************************************)
EXTENDS TableTap

CONSTANTS
    FirstXid,      \* id of the transaction before the first change
    Limit          \* conn_info['limit'] of an incremental SELECT, 0 is none

VARIABLE passed    \* history: rows that a resumed copy does not read, though they were to come

postgresTableVars == <<tableTapVars, passed>>

\* 0 and "" are absent keys of the bookmark.
EmptyState == [lsn |-> 0, xmin |-> 0, rk_value |-> 0, last_replication_method |-> ""]

Init == TableInit(EmptyState) /\ method \in Methods /\ passed = {}

xmin(r) == FirstXid + r.ver

\* The place of n among the ids from 1 to 999 in the order of their text: 1, 10,
\* 100, 101, ..., 11, 110, ..., 9, 90, ..., 999.
AsText(n) == IF n < 10 THEN 300 * n ELSE IF n < 100 THEN 30 * n + 1 ELSE 3 * n + 2
ByXminText(r) == AsText(xmin(r))

\* A stream whose method has changed starts anew.
clear_state_on_replication_change(st) ==
    [IF st.last_replication_method \in {"", method} THEN st ELSE EmptyState
        EXCEPT !.last_replication_method = method]

pure_logical(st) == method = "LOG_BASED" /\ st.lsn # 0 /\ st.xmin = 0

\* do_sync reads end_lsn, then chooses the method of the stream; the initial
\* copy of a LOG_BASED stream has the lsn in its bookmark from the start.  The
\* strategies write a STATE before they read.
Start ==
    LET st == clear_state_on_replication_change(saved)
    IN  /\ pc = "idle"
        /\ ~pure_logical(st)
        /\ method = "LOG_BASED" => clock > 0
        /\ state' = [st EXCEPT !.lsn = IF method = "LOG_BASED" /\ @ = 0 THEN clock ELSE @]
        /\ pc' = "query"
        /\ RecordsAndState({}, state')
        /\ UNCHANGED <<table, deaths, result, rows_saved, due, copied>>

\* Mutant: the row of the last xmin is not read again.
AfterXmin(st, r) == st.xmin # 0 => xmin(r) > st.xmin

\* age(xmin) <= age(last xmin)
FromXmin(st, r) == st.xmin # 0 => xmin(r) >= st.xmin

\* Rows of older transactions that come after the last one in the order of the
\* text: a copy that goes on from xmin leaves them out.
LeftBehind(st) ==
    {r \in Rows : /\ method # "INCREMENTAL" /\ st.xmin # 0
                 /\ xmin(r) < st.xmin /\ AsText(st.xmin) <= ByXminText(r)}

QueryTable ==
    /\ method # "INCREMENTAL"
    /\ \E rows \in Ordered({r \in Rows : FromXmin(state, r)}, ByXminText) :
           Execute(state, rows, state.xmin # 0)
    /\ passed' = passed \cup (LeftBehind(state) \ loaded)
    /\ UNCHANGED pipe

FromKeyValue(st, r) == st.rk_value # 0 => r.rk >= st.rk_value

Limited(q) == IF Limit = 0 \/ Len(q) <= Limit THEN q ELSE SubSeq(q, 1, Limit)

QueryIncremental ==
    /\ method = "INCREMENTAL"
    /\ \E rows \in Ordered({r \in Rows : FromKeyValue(state, r)}, ByRk) :
           Execute(state, Limited(rows), FALSE)
    /\ UNCHANGED pipe

AfterRow(st, r) ==
    IF method = "INCREMENTAL" THEN [st EXCEPT !.rk_value = r.rk]
                              ELSE [st EXCEPT !.xmin = xmin(r)]

FetchRow == Fetch(AfterRow)

\* The xmin is dropped; the STATE is that of sync_traditional_stream.
FetchedAll ==
    /\ pc = "fetch" /\ result = << >>
    /\ state' = [state EXCEPT !.xmin = 0]
    /\ pc' = "end"
    /\ UNCHANGED <<table, deaths, result, rows_saved, due, copied, pipe>>

Complete == End(state)

\* sync_logical_streams, see LogicalReplication.
SyncLogical ==
    /\ pure_logical(clear_state_on_replication_change(saved))
    /\ ReadLog({c \in history : c.ver > saved.lsn}, [saved EXCEPT !.lsn = clock])

Next ==
    \/ QueryTable
    \/ /\ \/ \E K \in Batches : Change(K)
          \/ \E m \in Methods : SwitchMethod(m)
          \/ Tick
          \/ Start \/ QueryIncremental \/ FetchRow \/ FetchedAll \/ Complete
          \/ SyncLogical
          \/ Die
       /\ UNCHANGED passed

Spec == Init /\ [][Next]_postgresTableVars

-----------------------------------------------------------------------------
(* Properties                                                              *)

\* What the next run reads with SELECT and from the log.
Selects(st, r) ==
    LET kept == clear_state_on_replication_change(st)
    IN  IF method = "INCREMENTAL" THEN FromKeyValue(kept, r)
        ELSE ~pure_logical(kept) /\ FromXmin(kept, r)
Logged(st, c) == LET kept == clear_state_on_replication_change(st)
                 IN  method = "LOG_BASED" /\ kept.lsn # 0 /\ c.ver > kept.lsn

\* No bookmark passes a change that is not loaded: not the xmin of an
\* interrupted copy, not the lsn taken before it once the copy has begun to
\* save its xmin, not the replication key value, with any change of the method.
\* But for one case: the rows come in the order of the text of their xmin and
\* are left out by its age, so that a copy which goes on from xmin passes the
\* changes to rows that were still to come with an older one, 9 after 10, and
\* no others (sync_method_for_streams, full_table.sync_table,
\* incremental.sync_table).
PostgresCopyResumes ==
    \/ method = "LOG_BASED" /\ saved.xmin = 0 /\ ~copied
    \/ \A c \in SkippedChanges(Selects, Logged) :
           \E r \in passed \cup LeftBehind(clear_state_on_replication_change(saved)) :
               r.key = c.key /\ r.ver >= c.ver

\* Checked by no run, and not true: that an lsn without xmin in a state means
\* that the copy is complete, and that a copy goes on with all that it has not read.
PostgresTablesSkipNothing == SkippedChanges(Selects, Logged) = {}
=============================================================================
