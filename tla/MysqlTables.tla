---------------------------- MODULE MysqlTables ----------------------------
(***************************************************************************)
(* tap-mysql, the streams read with SELECT: sync_non_binlog_streams with   *)
(* the strategies INCREMENTAL, FULL_TABLE and the historical sync of a     *)
(* LOG_BASED stream.  A table with an auto-increment key is copied in the  *)
(* order of the key, and an interrupted copy goes on after the last one.   *)
(***************************************************************************)
EXTENDS TableTap

VARIABLES
    auto_inc,          \* pks_are_auto_incrementing
    current_log_pos,   \* position held until a table without such a key is copied
    passed             \* history: changes behind a position and out of the range with it

mysqlTableVars == <<tableTapVars, auto_inc, current_log_pos, passed>>

\* 0 is an absent key of the bookmark.
EmptyState == [log_pos |-> 0, max_pk |-> 0, last_pk |-> 0, replication_key |-> FALSE, rk_value |-> 0]

Init ==
    /\ TableInit(EmptyState)
    /\ method \in Methods
    /\ auto_inc \in BOOLEAN
    /\ current_log_pos = 0 /\ passed = {}

\* An auto-increment key is larger than all before.
ChangeRows(K) ==
    /\ auto_inc => \A k \in K : VersionsOf(k) = {} => \A c \in history : c.key < k
    /\ Change(K)
    /\ UNCHANGED <<auto_inc, current_log_pos, passed>>

Configure(m) ==
    /\ SwitchMethod(m)
    /\ UNCHANGED <<auto_inc, current_log_pos, passed>>

binlog_stream_requires_historical(st) ==
    ~(st.log_pos # 0 /\ st.max_pk = 0 /\ st.last_pk = 0)

\* The keys a strategy keeps of the bookmark.
whitelist_bookmark_keys(st) ==
    CASE method = "FULL_TABLE"  -> [EmptyState EXCEPT !.max_pk = st.max_pk, !.last_pk = st.last_pk]
      [] method = "LOG_BASED"   -> [st EXCEPT !.replication_key = FALSE, !.rk_value = 0]
      [] method = "INCREMENTAL" -> [EmptyState EXCEPT !.replication_key = st.replication_key,
                                                   !.rk_value = st.rk_value]

-----------------------------------------------------------------------------

\* The stream is chosen by get_non_binlog_streams; the STATE that names it as
\* currently_syncing has its old bookmark.
Start ==
    /\ pc = "idle"
    /\ method = "LOG_BASED" => binlog_stream_requires_historical(saved)
    /\ state' = saved
    /\ pc' = "begin"
    /\ UNCHANGED <<table, deaths, result, rows_saved, due, copied, auto_inc, current_log_pos, passed, pipe>>

\* A range without a position is what a FULL_TABLE copy has left.  A LOG_BASED
\* stream goes on in it, with the position of now: changes out of that range.
LeftBehind(st) ==
    {c \in history : /\ method = "LOG_BASED" /\ st.max_pk # 0 /\ st.log_pos = 0
                    /\ (c.key <= st.last_pk \/ c.key > st.max_pk)}

\* do_sync_historical_binlog reads the master position unless it resumes; a
\* table with an auto-increment key has it in its bookmark from now on.
Begin ==
    /\ pc = "begin"
    /\ pc' = "query"
    /\ passed' = passed \cup {c \in LeftBehind(state) : ~Reached(c)}
    /\ IF method # "LOG_BASED" \/ (state.max_pk # 0 /\ state.log_pos # 0)
       THEN UNCHANGED <<state, current_log_pos>>
       ELSE /\ clock > 0
            /\ state' = [state EXCEPT !.log_pos = IF auto_inc THEN clock ELSE @]
            /\ current_log_pos' = IF auto_inc THEN 0 ELSE clock
    /\ UNCHANGED <<table, deaths, result, rows_saved, due, copied, auto_inc, pipe>>

\* generate_pk_clause
pk_clause(st, r) == r.key > st.last_pk /\ r.key <= st.max_pk

\* full_table.sync_table
QueryTable ==
    /\ method # "INCREMENTAL"
    /\ LET kept == whitelist_bookmark_keys(state)
           st   == IF auto_inc /\ kept.max_pk = 0 THEN [kept EXCEPT !.max_pk = MaxPk] ELSE kept
       IN  \E rows \in IF auto_inc /\ st.max_pk # 0
                       THEN Ordered({r \in Rows : pk_clause(st, r)}, ByKey)
                       ELSE Ordered(Rows, Anyhow) :
               Execute(st, rows, kept.max_pk # 0)
    /\ UNCHANGED <<auto_inc, current_log_pos, passed, pipe>>

\* Mutant: the last value is taken to be complete.
AfterKeyValue(st, r) == r.rk > st.rk_value

FromKeyValue(st, r) == r.rk >= st.rk_value

\* incremental.sync_table: a new replication key starts from the beginning.
QueryIncremental ==
    /\ method = "INCREMENTAL"
    /\ LET st == [whitelist_bookmark_keys(state) EXCEPT !.replication_key = TRUE]
       IN  \E rows \in Ordered({r \in Rows : FromKeyValue(st, r)}, ByRk) : Execute(st, rows, FALSE)
    /\ UNCHANGED <<auto_inc, current_log_pos, passed, pipe>>

AfterRow(st, r) ==
    IF method = "INCREMENTAL" THEN [st EXCEPT !.rk_value = r.rk]
    ELSE IF st.max_pk # 0 THEN [st EXCEPT !.last_pk = r.key]
    ELSE st

FetchRow == Fetch(AfterRow) /\ UNCHANGED <<auto_inc, current_log_pos, passed>>

\* The STATE of sync_query.
FetchedAll ==
    /\ pc = "fetch" /\ result = << >>
    /\ RecordsAndState({}, state)
    /\ pc' = "end"
    /\ UNCHANGED <<table, deaths, state, result, rows_saved, due, copied, auto_inc, current_log_pos, passed>>

\* The range is cleared, a position that was held is written.
Complete ==
    /\ End([state EXCEPT !.max_pk = 0, !.last_pk = 0,
                         !.log_pos = IF current_log_pos # 0 THEN current_log_pos ELSE @])
    /\ current_log_pos' = 0
    /\ UNCHANGED <<auto_inc, passed>>

\* sync_binlog_streams, see MysqlBinlog.
SyncBinlog ==
    /\ ~binlog_stream_requires_historical(saved)
    /\ ReadLog({c \in history : c.ver > saved.log_pos}, [saved EXCEPT !.log_pos = clock])
    /\ UNCHANGED <<auto_inc, current_log_pos, passed>>

Next ==
    \/ \E K \in Batches : ChangeRows(K)
    \/ \E m \in Methods : Configure(m)
    \/ Tick /\ UNCHANGED <<auto_inc, current_log_pos, passed>>
    \/ Start \/ Begin \/ QueryTable \/ QueryIncremental \/ FetchRow \/ FetchedAll \/ Complete
    \/ SyncBinlog
    \/ Die /\ current_log_pos' = 0 /\ UNCHANGED <<auto_inc, passed>>

Spec == Init /\ [][Next]_mysqlTableVars

-----------------------------------------------------------------------------
(* Properties                                                              *)

\* What the next run reads with SELECT and from the log.
Selects(st, r) ==
    LET kept == whitelist_bookmark_keys(st)
    IN  CASE method = "INCREMENTAL" -> kept.replication_key => FromKeyValue(kept, r)
          [] method = "LOG_BASED" /\ ~binlog_stream_requires_historical(st) -> FALSE
          [] OTHER -> auto_inc /\ kept.max_pk # 0 => pk_clause(kept, r)
Logged(st, c) == method = "LOG_BASED" /\ st.log_pos # 0 /\ c.ver > st.log_pos

\* Whatever interrupts the copy of a table, and however the method changes, no
\* bookmark passes a change that is not loaded: not the binlog position taken
\* before the copy, not the key range of an interrupted one, not the
\* replication key value.  But for one case: a LOG_BASED stream that goes on in
\* the range of an interrupted FULL_TABLE copy takes a new position, and passes
\* the changes before it that are not loaded, of the rows out of that range and
\* of no others (do_sync_historical_binlog, full_table, incremental).
MysqlTablesSkipNothing ==
    SkippedChanges(Selects, Logged) \subseteq passed \cup LeftBehind(saved)
=============================================================================
