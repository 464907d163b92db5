-------------------------- MODULE SnowflakeTables --------------------------
(***************************************************************************)
(* tap-snowflake: sync_streams with incremental.sync_table and             *)
(* full_table.sync_table.  The latter never sets max_pk_values, so a full  *)
(* copy that was interrupted begins anew.                                  *)
(***************************************************************************)
EXTENDS TableTap

\* 0 is an absent key of the bookmark.
EmptyState == [replication_key |-> FALSE, rk_value |-> 0]

Init == TableInit(EmptyState) /\ method \in {"FULL_TABLE", "INCREMENTAL"}

Configure(m) == m # "LOG_BASED" /\ SwitchMethod(m)

\* The stream starts with a STATE that has its old bookmark.
Start ==
    /\ pc = "idle"
    /\ state' = saved
    /\ pc' = "query"
    /\ RecordsAndState({}, saved)
    /\ UNCHANGED <<table, deaths, result, rows_saved, due, copied>>

\* The keys a strategy keeps of the bookmark.
whitelist_bookmark_keys(st) == IF method = "INCREMENTAL" THEN st ELSE EmptyState

QueryTable ==
    /\ method = "FULL_TABLE"
    /\ \E rows \in Ordered(Rows, Anyhow) :
           Execute(whitelist_bookmark_keys(state), rows, FALSE)
    /\ UNCHANGED pipe

FromKeyValue(st, r) == r.rk >= st.rk_value

\* A new replication key starts from the beginning.
QueryIncremental ==
    /\ method = "INCREMENTAL"
    /\ LET st == [IF state.replication_key THEN state ELSE EmptyState EXCEPT !.replication_key = TRUE]
       IN  \E rows \in Ordered({r \in Rows : FromKeyValue(st, r)}, ByRk) : Execute(st, rows, FALSE)
    /\ UNCHANGED pipe

\* Mutant: the bookmark is the value the run was asked for.
KeyOfLastRow(st, r) == IF method = "INCREMENTAL" THEN [st EXCEPT !.rk_value = time] ELSE st

AfterRow(st, r) == IF method = "INCREMENTAL" THEN [st EXCEPT !.rk_value = r.rk] ELSE st

FetchRow == Fetch(AfterRow)

\* The STATE of sync_query, then that of do_sync_incremental or
\* do_sync_full_table, which says the same of the bookmark.
FetchedAll ==
    /\ pc = "fetch" /\ result = << >>
    /\ RecordsAndState({}, state)
    /\ pc' = "end"
    /\ UNCHANGED <<table, deaths, state, result, rows_saved, due, copied>>

Complete == End(state)

Next ==
    \/ \E K \in Batches : Change(K)
    \/ \E m \in Methods : Configure(m)
    \/ Tick
    \/ Start \/ QueryTable \/ QueryIncremental \/ FetchRow \/ FetchedAll \/ Complete
    \/ Die

Spec == Init /\ [][Next]_tableTapVars

-----------------------------------------------------------------------------
(* Properties                                                              *)

Selects(st, r) == method = "INCREMENTAL" /\ st.replication_key => FromKeyValue(st, r)
Logged(st, c) == FALSE

\* No bookmark passes a row that is not loaded, also after a FULL_TABLE phase
\* between two INCREMENTAL ones (whitelist_bookmark_keys, incremental).
SnowflakeTablesSkipNothing == SkippedChanges(Selects, Logged) = {}
=============================================================================
