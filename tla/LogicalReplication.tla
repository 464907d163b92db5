------------------------- MODULE LogicalReplication -------------------------
(***************************************************************************)
(* tap-postgres, LOG_BASED: sync_tables of logical_replication.py reading  *)
(* the write-ahead log of PostgreSQL through a replication slot.           *)
(*                                                                         *)
(* The log is a sequence of change and commit records; the LSN of a record *)
(* is its index.  Transactions interleave in the log, but PostgreSQL sends *)
(* a transaction only once it is committed, in the order of the commits,   *)
(* each change with its own LSN.  The LSNs the tap sees are therefore not  *)
(* ordered, while a bookmark is a single LSN: the question is whether a    *)
(* restart from a bookmark, or the acknowledgement of one to the slot, can *)
(* skip a change that did not reach the warehouse.                         *)
(*                                                                         *)
(* The rest of the pipeline is the environment.  The target loads each     *)
(* stream in order but at its own pace, and may save the bookmark a STATE  *)
(* holds for a stream once the records of that stream sent before it are   *)
(* loaded: what TargetPostgres promises as EmittedStateIsLoaded.           *)
(***************************************************************************)
EXTENDS Integers, Sequences, FiniteSets

CONSTANTS
    Streams,               \* the LOG_BASED streams of the tap
    Txns,                  \* transactions of the source database
    Commit,                \* marks the commit record of a transaction
    UPDATE_BOOKMARK_PERIOD,
    BreakAtEndLsn,         \* conn_info['break_at_end_lsn']
    TornReads,             \* a poll may meet the state file while it is rewritten
    MaxLsn,                \* bound of the model: length of the log
    MaxCrashes             \* bound of the model: processes killed

ASSUME StreamsAssumption == IsFiniteSet(Streams) /\ Streams # {}
ASSUME CommitAssumption  == Commit \notin Streams
ASSUME PeriodAssumption  == UPDATE_BOOKMARK_PERIOD \in Nat \ {0}
ASSUME SwitchAssumption  == BreakAtEndLsn \in BOOLEAN /\ TornReads \in BOOLEAN
ASSUME BoundsAssumption  == MaxLsn \in Nat /\ MaxCrashes \in Nat

VARIABLES
    wal,                       \* the log of the source
    slot,                      \* confirmed_flush_lsn of the replication slot
    running,                   \* sync_tables is in its loop
    cursor,                    \* <<commit, change>> LSN of the last message
    state,                     \* the tap's bookmarks: lsn per stream
    end_lsn,
    lsn_comitted,              \* smallest lsn of state_comitted
    file_read,                 \* state_comitted was read from the file; before
                               \* that it is the very dictionary `state`
    lsn_to_flush,              \* last lsn sent to the slot, 0 before the first
    lsn_last_processed,        \* 0 is None
    lsn_currently_processing,  \* 0 is None
    lsn_processed_count,
    out,                       \* per stream, messages on their way to the target
    state_file,                \* lsn per stream in the saved state
    loaded,                    \* LSNs of the changes in the warehouse
    crashes

source  == <<wal>>
tap     == <<running, cursor, state, end_lsn, lsn_comitted, file_read,
             lsn_to_flush, lsn_last_processed, lsn_currently_processing,
             lsn_processed_count>>
sink    == <<state_file, loaded>>
vars    == <<source, slot, tap, out, sink, crashes>>

Lsn       == 1..MaxLsn
Bookmarks == [Streams -> Nat]

SmallestOf(S) == CHOOSE n \in S : \A m \in S : n <= m
Larger(m, n)  == IF m >= n THEN m ELSE n

\* min(get_bookmark(state, s, 'lsn') for s in logical_streams)
MinLsn(st) == SmallestOf({st[s] : s \in Streams})

\* What a RECORD and what a STATE is for one stream.
RecordMessage(l)   == [type |-> "RECORD", lsn |-> l]
StateMessage(lsn)  == [type |-> "STATE", lsn |-> lsn]
WithState(q, st)   == [s \in Streams |-> Append(q[s], StateMessage(st[s]))]
WithRecord(q, s, l) == [q EXCEPT ![s] = Append(@, RecordMessage(l))]
Empty == [s \in Streams |-> << >>]

-----------------------------------------------------------------------------
(* The source database                                                     *)

Changes       == {l \in 1..Len(wal) : wal[l].stream # Commit}
CommitsOf(t)  == {c \in 1..Len(wal) : wal[c] = [txn |-> t, stream |-> Commit]}
Committed     == {l \in Changes : CommitsOf(wal[l].txn) # {}}
CommitLsn(l)  == SmallestOf(CommitsOf(wal[l].txn))

\* A transaction changes a row of a replicated table, or commits.
Write(t, x) ==
    /\ Len(wal) < MaxLsn
    /\ CommitsOf(t) = {}
    /\ wal' = Append(wal, [txn |-> t, stream |-> x])
    /\ UNCHANGED <<slot, tap, out, sink, crashes>>

\* Changes the walsender has yet to send, in the order it sends them: whole
\* transactions, from the first commit at or after the starting point.
Before(a, b) == \/ CommitLsn(a) < CommitLsn(b)
                \/ CommitLsn(a) = CommitLsn(b) /\ a < b
ToSend == {l \in Committed : \/ CommitLsn(l) > cursor[1]
                             \/ CommitLsn(l) = cursor[1] /\ l > cursor[2]}
IsNext(l) == l \in ToSend /\ \A m \in ToSend \ {l} : Before(l, m)

-----------------------------------------------------------------------------
(* sync_tables                                                             *)

Init ==
    /\ wal = << >>
    /\ slot = 0
    /\ running = FALSE
    /\ cursor = <<0, 0>>
    /\ state = [s \in Streams |-> 0]
    /\ end_lsn = 0
    /\ lsn_comitted = 0
    /\ file_read = FALSE
    /\ lsn_to_flush = 0
    /\ lsn_last_processed = 0
    /\ lsn_currently_processing = 0
    /\ lsn_processed_count = 0
    /\ out = Empty
    /\ state_file = [s \in Streams |-> 0]
    /\ loaded = {}
    /\ crashes = 0

\* Mutant: replication starts from the most advanced stream.
MaxStartLsn(st) == CHOOSE n \in {st[s] : s \in Streams} : \A s \in Streams : st[s] <= n

\* Mutant: replication starts at the present end of the log.
LatestLsn(st) == Len(wal)

\* Where a run asks the server to start: its least advanced stream.
StartLsn(st) == MinLsn(st)

\* A run starts once the previous pipeline is gone: do_sync reads the end of
\* the log, sync_tables the committed position, and START_REPLICATION begins
\* at the later of that position and the one the slot has confirmed.
Start ==
    /\ ~running
    /\ out = Empty
    /\ running' = TRUE
    /\ state' = state_file
    /\ end_lsn' = Len(wal)
    /\ lsn_comitted' = StartLsn(state_file)
    /\ file_read' = FALSE
    /\ cursor' = <<Larger(StartLsn(state_file), slot), 0>>
    /\ lsn_to_flush' = 0
    /\ lsn_last_processed' = 0
    /\ lsn_currently_processing' = 0
    /\ lsn_processed_count' = 0
    /\ UNCHANGED <<source, slot, out, sink, crashes>>

\* send_feedback(flush_lsn): the slot moves forward only.
Feedback(lsn) ==
    /\ lsn_to_flush' = lsn
    /\ slot' = Larger(slot, lsn)

\* lsn_to_flush at the first message: the committed lsn, or that message's.
FirstFlush(lsn) == IF lsn < lsn_comitted THEN lsn ELSE lsn_comitted

\* Mutant: a full period moves the bookmarks to the server's wal_end.
WalEnd(last) == Len(wal)

\* The lsn all bookmarks get when a period is full: the last lsn whose
\* messages are complete.
PeriodLsn(last) == last

\* Mutant: the period is one message longer than the counter may get.
PeriodOver(n) == n > UPDATE_BOOKMARK_PERIOD

\* The number of processed LSNs calls for a STATE.
PeriodFull(n) == n >= UPDATE_BOOKMARK_PERIOD

\* read_message returns a change.  consume_message writes its RECORD and the
\* bookmark of its stream; then the lsn bookkeeping may write a STATE.
ReadMessage(l) ==
    /\ running
    /\ IsNext(l)
    /\ ~(BreakAtEndLsn /\ l > end_lsn)
    /\ cursor' = <<CommitLsn(l), l>>
    /\ LET moved    == lsn_currently_processing # 0 /\ l > lsn_currently_processing
           full     == moved /\ PeriodFull(lsn_processed_count + 1)
           consumed == [state EXCEPT ![wal[l].stream] = l]
       IN  /\ lsn_currently_processing' =
                IF lsn_currently_processing = 0 \/ moved THEN l
                ELSE lsn_currently_processing
           /\ lsn_last_processed' =
                IF moved THEN lsn_currently_processing ELSE lsn_last_processed
           /\ lsn_processed_count' =
                CASE full -> 0
                  [] moved /\ ~full -> lsn_processed_count + 1
                  [] OTHER -> lsn_processed_count
           /\ state' = IF full
                       THEN [s \in Streams |-> PeriodLsn(lsn_currently_processing)]
                       ELSE consumed
           /\ LET sent == WithRecord(out, wal[l].stream, l)
              IN  out' = IF full THEN WithState(sent, state') ELSE sent
           /\ IF lsn_currently_processing = 0
              THEN Feedback(FirstFlush(l))
              ELSE UNCHANGED <<lsn_to_flush, slot>>
    /\ UNCHANGED <<source, running, end_lsn, lsn_comitted, file_read, sink, crashes>>

\* Mutant: the position of the most advanced stream.
MaxSavedLsn == MaxStartLsn(state_file)

\* The position read from the state file the pipeline saves.
SavedLsn == MinLsn(state_file)

\* PipelineWise truncates the state file before it writes a bookmark it got.
BeingSaved == \E s \in Streams : out[s] # << >> /\ Head(out[s]).type = "STATE"

\* The committed position after a poll.  A truncated file does not parse, and
\* the smallest lsn is taken from state_comitted as it is: the last file read
\* or, when there is none, the dictionary consume_message has been updating.
Committing ==
    \/ /\ lsn_comitted' = SavedLsn
       /\ file_read' = TRUE
    \/ /\ TornReads /\ BeingSaved
       /\ lsn_comitted' = IF file_read THEN lsn_comitted ELSE MinLsn(state)
       /\ UNCHANGED file_read

\* Every poll_interval: read the state file and acknowledge it to the slot.
PollStateFile ==
    /\ running
    /\ lsn_currently_processing # 0
    /\ Committing
    /\ IF lsn_currently_processing > lsn_comitted' /\ lsn_comitted' > lsn_to_flush
       THEN Feedback(lsn_comitted')
       ELSE UNCHANGED <<lsn_to_flush, slot>>
    /\ UNCHANGED <<source, running, cursor, state, end_lsn, lsn_last_processed,
                   lsn_currently_processing, lsn_processed_count, out, sink,
                   crashes>>

\* The process is gone with everything it kept in memory.
Exit ==
    /\ running' = FALSE
    /\ cursor' = <<0, 0>>
    /\ state' = [s \in Streams |-> 0]
    /\ end_lsn' = 0
    /\ lsn_comitted' = 0
    /\ file_read' = FALSE
    /\ lsn_to_flush' = 0
    /\ lsn_last_processed' = 0
    /\ lsn_currently_processing' = 0
    /\ lsn_processed_count' = 0

\* The closing STATE: all bookmarks move to the last complete lsn, or to the
\* committed one when that is larger.
ClosingState ==
    IF lsn_last_processed = 0 THEN state
    ELSE [s \in Streams |-> Larger(lsn_comitted, lsn_last_processed)]

\* The loop ends: no data for too long, max_run_seconds, a message past
\* end_lsn or an exception.  The finally block writes the closing STATE.
Finish ==
    /\ running
    /\ Exit
    /\ out' = WithState(out, ClosingState)
    /\ UNCHANGED <<source, slot, sink, crashes>>

\* The tap is killed: no finally block, what it wrote is still in the pipe.
Kill ==
    /\ running
    /\ crashes < MaxCrashes
    /\ crashes' = crashes + 1
    /\ Exit
    /\ UNCHANGED <<source, slot, out, sink>>

-----------------------------------------------------------------------------
(* The rest of the pipeline                                                *)

\* The next message of a stream is loaded, or its bookmark is saved or not.
Consume(s) ==
    /\ out[s] # << >>
    /\ out' = [out EXCEPT ![s] = Tail(@)]
    /\ LET m == Head(out[s])
       IN  \/ /\ m.type = "RECORD"
              /\ loaded' = loaded \cup {m.lsn}
              /\ UNCHANGED state_file
           \/ /\ m.type = "STATE"
              /\ state_file' \in {state_file, [state_file EXCEPT ![s] = m.lsn]}
              /\ UNCHANGED loaded
    /\ UNCHANGED <<source, slot, tap, crashes>>

\* The pipeline dies: the messages on their way are lost and the tap with it.
PipelineDies ==
    /\ running \/ out # Empty
    /\ crashes < MaxCrashes
    /\ crashes' = crashes + 1
    /\ Exit
    /\ out' = Empty
    /\ UNCHANGED <<source, slot, sink>>

Next ==
    \/ \E t \in Txns, x \in Streams \cup {Commit} : Write(t, x)
    \/ \E l \in Lsn : l <= Len(wal) /\ ReadMessage(l)
    \/ Start
    \/ PollStateFile
    \/ Finish
    \/ Kill
    \/ \E s \in Streams : Consume(s)
    \/ PipelineDies

Spec == Init /\ [][Next]_vars

\* The scheduler starts a run again and again, every run ends (at the latest
\* after max_run_seconds), the target consumes, and the runs are not all cut
\* short before the same message.
Fairness ==
    /\ WF_vars(Start)
    /\ WF_vars(Finish)
    /\ \A s \in Streams : WF_vars(Consume(s))
    /\ \A l \in Lsn : SF_vars(l <= Len(wal) /\ ReadMessage(l))

FairSpec == Spec /\ Fairness

-----------------------------------------------------------------------------
(* Properties                                                              *)

Message == [type : {"RECORD", "STATE"}, lsn : Nat]

\* Type invariant of the source, the tap, the pipe and the sink.
TypeOK ==
    /\ wal \in Seq([txn : Txns, stream : Streams \cup {Commit}])
    /\ running \in BOOLEAN /\ file_read \in BOOLEAN
    /\ cursor \in Nat \X Nat
    /\ state \in Bookmarks /\ state_file \in Bookmarks
    /\ slot \in Nat /\ end_lsn \in Nat /\ lsn_comitted \in Nat /\ lsn_to_flush \in Nat
    /\ lsn_last_processed \in Nat /\ lsn_currently_processing \in Nat
    /\ lsn_processed_count \in Nat /\ lsn_processed_count < UPDATE_BOOKMARK_PERIOD
    /\ crashes \in Nat
    /\ out \in [Streams -> Seq(Message)]
    /\ loaded \subseteq Changes

\* The slot is never acknowledged beyond the commit of a change that is not in
\* the warehouse: PostgreSQL can still send every one of them.
SlotKeepsUnloaded == \A l \in Committed \ loaded : slot <= CommitLsn(l)

\* The saved bookmark of a stream never passes the commit of one of its
\* changes that is not in the warehouse: the next run asks for it again.
SavedStateKeepsUnloaded ==
    \A l \in Committed \ loaded : state_file[wal[l].stream] <= CommitLsn(l)

\* The walsender never passes a change: while a run is going on, what was not
\* loaded is in the pipe or still to be sent.
NothingSkipped ==
    running => \A l \in Committed \ loaded :
        \/ l \in ToSend
        \/ \E s \in Streams : \E i \in 1..Len(out[s]) : out[s][i] = RecordMessage(l)

\* Every committed change reaches the warehouse, however often the processes
\* die (finitely many times) and however runs and transactions interleave.
EveryChangeIsLoaded ==
    \A l \in Lsn : (l <= Len(wal) /\ l \in Committed) ~> (l \in loaded)
=============================================================================
