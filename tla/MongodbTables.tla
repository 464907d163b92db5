--------------------------- MODULE MongodbTables ---------------------------
(***************************************************************************)
(* tap-mongodb, the collections read with find(): sync_traditional_stream  *)
(* with full_table.sync_collection, which an interruption leaves between   *)
(* the last _id fetched and the largest one when it began, and             *)
(* incremental.sync_collection.  New documents may have any _id.           *)
(***************************************************************************)
EXTENDS TableTap

\* 0 and "" are absent keys of the bookmark.
EmptyState == [last_replication_method |-> "", max_id_value |-> 0, last_id_fetched |-> 0,
            replication_key_value |-> 0]

Init == TableInit(EmptyState) /\ method \in {"FULL_TABLE", "INCREMENTAL"}

Configure(m) == m # "LOG_BASED" /\ SwitchMethod(m)

\* A stream whose method has changed is reset.
clear_state_on_replication_change(st) ==
    [IF st.last_replication_method \in {"", method} THEN st ELSE EmptyState
        EXCEPT !.last_replication_method = method]

\* sync_traditional_stream; its STATE, and that of the strategy with the new
\* version, precede all records.
Start ==
    /\ pc = "idle"
    /\ state' = clear_state_on_replication_change(saved)
    /\ pc' = "query"
    /\ RecordsAndState({}, state')
    /\ UNCHANGED <<table, deaths, result, rows_saved, due, copied>>

\* $gte last_id_fetched, $lte max_id_value
find_filter(st, r) ==
    /\ st.last_id_fetched # 0 => r.key >= st.last_id_fetched
    /\ r.key <= st.max_id_value

QueryCollection ==
    /\ method = "FULL_TABLE"
    /\ LET st == [state EXCEPT !.max_id_value = IF @ # 0 THEN @ ELSE MaxPk]
       IN  \E rows \in Ordered({r \in Rows : find_filter(st, r)}, ByKey) :
               Execute(st, rows, state.max_id_value # 0)
    /\ UNCHANGED pipe

FromKeyValue(st, r) == st.replication_key_value # 0 => r.rk >= st.replication_key_value

QueryIncremental ==
    /\ method = "INCREMENTAL"
    /\ \E rows \in Ordered({r \in Rows : FromKeyValue(state, r)}, ByRk) :
           Execute(state, rows, FALSE)
    /\ UNCHANGED pipe

AfterRow(st, r) ==
    IF method = "INCREMENTAL" THEN [st EXCEPT !.replication_key_value = r.rk]
                              ELSE [st EXCEPT !.last_id_fetched = r.key]

FetchRow == Fetch(AfterRow)

\* The range is cleared upon a successful sync.
FetchedAll ==
    /\ pc = "fetch" /\ result = << >>
    /\ state' = [state EXCEPT !.max_id_value = 0, !.last_id_fetched = 0]
    /\ pc' = "end"
    /\ UNCHANGED <<table, deaths, result, rows_saved, due, copied, pipe>>

Complete == End(state)

Next ==
    \/ \E K \in Batches : Change(K)
    \/ \E m \in Methods : Configure(m)
    \/ Tick
    \/ Start \/ QueryCollection \/ QueryIncremental \/ FetchRow \/ FetchedAll \/ Complete
    \/ Die

Spec == Init /\ [][Next]_tableTapVars

-----------------------------------------------------------------------------
(* Properties                                                              *)

Selects(st, r) ==
    LET kept == clear_state_on_replication_change(st)
    IN  IF method = "INCREMENTAL" THEN FromKeyValue(kept, r)
                                  ELSE kept.max_id_value # 0 => find_filter(kept, r)
Logged(st, c) == FALSE

\* An interrupted copy goes on without a gap, an incremental stream owes no
\* document, and a stream whose method changes owes all of them
\* (clear_state_on_replication_change, full_table, incremental).
MongodbTablesSkipNothing == SkippedChanges(Selects, Logged) = {}
=============================================================================
