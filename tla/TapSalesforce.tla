--------------------------- MODULE TapSalesforce ---------------------------
(***************************************************************************)
(* tap-salesforce: do_sync queries an object for what is not older than    *)
(* its bookmark, in the order of the replication key, and writes a STATE   *)
(* after each record.  A bulk query that takes too long is repeated in     *)
(* chunks of primary keys: a job of several batches, which are read in no  *)
(* order of the key.  The state then holds the job, the batches left and   *)
(* the latest key seen, and a run that died is resumed with that job.  A   *)
(* REST query that takes too long is repeated for a part of the dates.     *)
(***************************************************************************)
EXTENDS ApiTap

CONSTANTS BatchOf,       \* of each object: its chunk of the primary keys
          MAX_RETRIES

VARIABLES
    api_type,
    start_time,
    pk_chunking,
    chunked_bookmark,
    query,               \* the dates asked for and the retries left
    rows,                \* what the query or the batch has returned and is not read
    job,                 \* the chunked job in the service: the rows of its batches
    resumed              \* history: "yes" if a job was, "expired" if its batches were gone

salesforceVars == <<apiTapVars, api_type, start_time, pk_chunking, chunked_bookmark, query,
                    rows, job, resumed>>
run == <<start_time, pk_chunking, chunked_bookmark, query, rows>>

start_date == 1
NoQuery    == [from |-> 0, until |-> 0, retries |-> 0]
NoState    == [key |-> 0, JobID |-> FALSE, BatchIDs |-> {}, JobHighestBookmarkSeen |-> 0]
Batches    == {BatchOf[i] : i \in Items}
NoJob      == [b \in {} |-> {}]

Stopped == /\ start_time' = 0 /\ pk_chunking' = FALSE /\ chunked_bookmark' = 0
           /\ query' = NoQuery /\ rows' = {}

Init ==
    /\ ApiInit(NoState)
    /\ api_type \in {"BULK", "REST"}
    /\ start_time = 0 /\ pk_chunking = FALSE /\ chunked_bookmark = 0
    /\ query = NoQuery /\ rows = {}
    /\ job = NoJob /\ resumed = "no"

Update(i) == Change(i, {}) /\ UNCHANGED <<api_type, run, job, resumed>>

Row(i)    == [rec |-> Record(i), key |-> item[i].at]
Recs(R)   == {r.rec : r \in R}
Keys(R)   == {r.key : r \in R}

get_start_date(st) == IF st.key = 0 THEN start_date ELSE st.key

\* What _build_query_string selects; until = 0: no end.
Selected(from, until) == {Row(i) : i \in {j \in Items : /\ Exists(j) /\ from <= item[j].at
                                                        /\ until # 0 => item[j].at < until}}

\* Mutant: a key that is later than the start of the run.
AnyKey(key) == TRUE

InRange(key) == key <= start_time

\* The jobs of an earlier stream of the run may have set pk_chunking.
do_sync ==
    /\ pc = "idle"
    /\ start_time' = now
    /\ state' = saved
    /\ IF saved.JobID
       THEN /\ pc' = "resume"
            /\ chunked_bookmark' = IF saved.JobHighestBookmarkSeen # 0
                                   THEN saved.JobHighestBookmarkSeen ELSE get_start_date(saved)
            /\ UNCHANGED <<pk_chunking, query>>
       ELSE /\ pc' = "query"
            /\ chunked_bookmark' = get_start_date(saved)
            /\ pk_chunking' \in IF api_type = "BULK" THEN BOOLEAN ELSE {FALSE}
            /\ query' = [from |-> get_start_date(saved), until |-> 0, retries |-> MAX_RETRIES]
    /\ UNCHANGED <<service, deaths, api_type, rows, job, resumed, pipe>>

QueryCompletes ==
    /\ pc = "query"
    /\ pc' = "records"
    /\ rows' = Selected(query.from, query.until)
    /\ UNCHANGED <<service, state, deaths, api_type, start_time, pk_chunking, chunked_bookmark,
                   query, job, resumed, pipe>>

\* QUERY_TIMEOUT of a REST query, maybe after some of its records: half of the dates.
RestTimeout ==
    /\ api_type = "REST" /\ pc \in {"query", "records"}
    /\ LET end_date == IF query.until = 0 THEN now ELSE query.until
           half     == (end_date - query.from) \div 2
       IN  /\ half > 0 /\ query.retries > 1
           /\ query' = [query EXCEPT !.until = end_date - half, !.retries = @ - 1]
    /\ pc' = "query" /\ rows' = {}
    /\ UNCHANGED <<service, state, deaths, api_type, start_time, pk_chunking, chunked_bookmark,
                   job, resumed, pipe>>

\* QUERY_TIMEOUT of a bulk query: _bulk_query_with_pk_chunking creates a job.
BulkTimeout ==
    /\ api_type = "BULK" /\ pc = "query"
    /\ pc' = "chunks" /\ job' = NoJob
    /\ UNCHANGED <<service, state, deaths, api_type, run, resumed, pipe>>

\* The service runs the batches of a job one by one.
RunBatch(b) ==
    /\ pc = "chunks" /\ b \notin DOMAIN job
    /\ job' = [c \in DOMAIN job \cup {b} |->
                  IF c = b THEN {r \in Selected(query.from, 0) : BatchOf[r.rec[1]] = b} ELSE job[c]]
    /\ UNCHANGED <<service, pc, state, deaths, api_type, run, resumed, pipe>>

BatchesComplete ==
    /\ pc = "chunks" /\ DOMAIN job = Batches
    /\ pc' = "batches"
    /\ pk_chunking' = TRUE
    /\ state' = [state EXCEPT !.JobID = TRUE, !.BatchIDs = Batches]
    /\ rows' = job[Smallest(Batches)]
    /\ UNCHANGED <<service, deaths, api_type, start_time, chunked_bookmark, query, job, resumed, pipe>>

\* sync_records, for one record: the query is in the order of the key, a batch is not.
ReadRecord(r) ==
    /\ pc \in {"records", "batches"} /\ r \in rows
    /\ pc = "records" => \A s \in rows : r.key <= s.key
    /\ rows' = rows \ {r}
    /\ IF ~InRange(r.key) \/ (pk_chunking /\ r.key <= chunked_bookmark)
       THEN Records({r.rec}) /\ UNCHANGED <<state, chunked_bookmark>>
       ELSE /\ chunked_bookmark' = IF pk_chunking THEN r.key ELSE chunked_bookmark
            /\ state' = IF pk_chunking THEN [state EXCEPT !.JobHighestBookmarkSeen = r.key]
                                       ELSE [state EXCEPT !.key = r.key]
            /\ RecordsAndState({r.rec}, state')
    /\ UNCHANGED <<service, pc, deaths, api_type, start_time, pk_chunking, query, job, resumed>>

\* The part of the dates is read: the rest of them.
NextDates ==
    /\ pc = "records" /\ rows = {} /\ query.until # 0
    /\ pc' = "query"
    /\ query' = [query EXCEPT !.from = query.until, !.until = 0]
    /\ UNCHANGED <<service, state, deaths, api_type, start_time, pk_chunking, chunked_bookmark,
                   rows, job, resumed, pipe>>

\* The bookmark of a chunked query.
WithKey(st) == IF pk_chunking THEN [st EXCEPT !.key = chunked_bookmark] ELSE st

EndRecords ==
    /\ pc = "records" /\ rows = {} /\ query.until = 0
    /\ pc' = "end"
    /\ state' = WithKey(state)
    /\ UNCHANGED <<service, deaths, api_type, run, job, resumed, pipe>>

EndBatch ==
    /\ pc = "batches" /\ rows = {}
    /\ LET left == [state EXCEPT !.BatchIDs = @ \ {Smallest(@)}]
       IN  /\ RecordsAndState({}, left)
           /\ IF left.BatchIDs = {}
              THEN pc' = "end" /\ state' = WithKey(left) /\ UNCHANGED rows
              ELSE state' = left /\ rows' = job[Smallest(left.BatchIDs)] /\ UNCHANGED pc
    /\ UNCHANGED <<service, deaths, api_type, start_time, pk_chunking, chunked_bookmark, query,
                   job, resumed>>

\* resume_syncing_bulk_query, for one batch.
ResumeBatch ==
    /\ pc = "resume" /\ job # NoJob /\ state.BatchIDs # {}
    /\ LET batch == job[Smallest(state.BatchIDs)]
           high  == Largest({k \in Keys(batch) : InRange(k)} \cup {chunked_bookmark})
       IN  /\ chunked_bookmark' = high
           /\ state' = [state EXCEPT !.BatchIDs = @ \ {Smallest(@)}, !.JobHighestBookmarkSeen = high]
           /\ RecordsAndState(Recs(batch), state')
    /\ resumed' = IF resumed = "no" THEN "yes" ELSE resumed
    /\ UNCHANGED <<service, pc, deaths, api_type, start_time, pk_chunking, query, rows, job>>

\* All batches are read, or the job is gone: what do_sync makes of the bookmark.
EndResume ==
    /\ pc = "resume" /\ (job = NoJob \/ state.BatchIDs = {})
    /\ pc' = "end"
    /\ state' = [NoState EXCEPT !.key = IF state.JobHighestBookmarkSeen # 0
                                        THEN state.JobHighestBookmarkSeen ELSE state.key]
    /\ resumed' = IF state.BatchIDs # {} THEN "expired" ELSE resumed
    /\ UNCHANGED <<service, deaths, api_type, run, job, pipe>>

Finish ==
    /\ pc = "end"
    /\ RecordsAndLastState({}, state)
    /\ Exit /\ Stopped
    /\ UNCHANGED <<service, deaths, api_type, job, resumed>>

\* The service keeps a job for some days.  (After a chunked query that ended well
\* the state keeps its job too, without batches: the next run reads nothing.)
JobExpires ==
    /\ pc = "idle" /\ saved.JobID /\ job # NoJob
    /\ job' = NoJob
    /\ UNCHANGED <<apiTapVars, api_type, run, resumed>>

Next ==
    \/ \E i \in Items : Update(i)
    \/ Tick /\ UNCHANGED <<api_type, run, job, resumed>>
    \/ do_sync \/ QueryCompletes \/ RestTimeout \/ BulkTimeout \/ NextDates \/ EndRecords
    \/ \E b \in Batches : RunBatch(b)
    \/ \E r \in rows : ReadRecord(r)
    \/ BatchesComplete \/ EndBatch \/ ResumeBatch \/ EndResume \/ Finish \/ JobExpires
    \/ Die /\ Stopped /\ UNCHANGED <<api_type, job, resumed>>

Spec == Init /\ [][Next]_salesforceVars

-----------------------------------------------------------------------------
(* Properties                                                              *)

Reads(i) == item[i].at >= get_start_date(saved)

\* Whatever the order of records and batches, the time-outs and the place where
\* a run dies, the bookmark passes no object that is not loaded.  Where a job
\* was resumed this is so for objects that did not change during a run: the
\* batches are measured with the start of the resuming run; and it is not so
\* when the job was gone (sync_records, resume_syncing_bulk_query, do_sync).
SalesforceSkipsNothing ==
    ~saved.JobID /\ resumed # "expired" =>
        Skipped(Reads) \subseteq (IF resumed = "yes" THEN disturbed ELSE {})
=============================================================================
