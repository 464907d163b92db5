# TLA+ models of PipelineWise

PipelineWise replicates databases into warehouses.  It runs pipelines of
processes, `tap | transform-field | target`, that talk in Singer messages
(SCHEMA, RECORD, STATE, ACTIVATE_VERSION), and native `fastsync` and
`partialsync` commands for initial loads.  What holds all of it together is one
JSON file per tap, the state file: per table a *bookmark*, the position in the
source from which the next run goes on.  Nearly every correctness question of
the system is the same question: **can a bookmark, or an acknowledgement to the
source, cover a change that is not in the warehouse?**  If it can, a crash at
the wrong moment loses data silently; if it can not, the worst is repetition,
which the merge by primary key absorbs.

The models are translated from the Python sources under `src/`.  TLC checks
small instances; TLAPS proves the central results for all values of the
constants.  Paths below are relative to `src/`.

## 1. Inventory

| Part | State it keeps | Operations | Hard behaviour | What makes it correct |
|---|---|---|---|---|
| **CLI** `pipelinewise/cli/pipelinewise.py`, `commands.py` | state file, `.bak`, pidfile, log file names | `run_tap`, `sync_tables`, `partial_sync_table`, `reset_state`, `stop_tap`; `run_command` reads the pipeline's output | several commands and their child processes around one file; truncate-then-write; lines unread at exit | one command at a time; a restart point always exists and is safe; a finished sync keeps its bookmark |
| **target-postgres** `singer-connectors/target-postgres` | buffers per stream, row counts, `state`, `flushed_state` | one handler per message, `flush_streams`, load and delete statements | batches of streams flushed one at a time; one state for all streams; failures between transactions | no printed state ahead of the warehouse; tables equal the replay of what was loaded; nothing left behind |
| **target-snowflake** | the same, the last SCHEMA of each stream, the range of keys of a batch, `table_cache` | the same, files on a stage, MERGE, archive | flushes by time and by a changed SCHEMA; a file that is merged, archived and removed step by step | the same; the archive covers what is loaded |
| **columns of the targets** `db_sync.py` of both | the columns of a table | `update_columns`: add, version | statements one by one; a comparison with columns read long before | values are found where a query looks |
| **transform-field** | the messages of one batch, the last STATE | transforms and forwards | order of STATE and RECORD; the same masking twice, in Python and in SQL | order is kept; both mask alike |
| **tap-postgres** | bookmarks, LSN bookkeeping, replication slot; `xmin` | `sync_tables` (log), incremental, full table | transactions out of LSN order; acknowledgements; polling the state file; copies that are interrupted | bookmark and slot stay behind what is not loaded; every change is loaded |
| **tap-mysql** | binlog file and position or GTID per stream; last and largest key | `sync_binlog_stream`, full table with resume by key | rotations, streams at different positions, GTIDs and positions | as above |
| **tap-mongodb** | resume token, buffer of updated ids; last and largest `_id` | change stream loop, `flush_buffer`, full table, incremental | token written while updates are buffered | as above |
| **tap-snowflake** | replication key value | incremental, full table | methods that change | as above |
| **tap-kafka** | offsets per partition, broker commits | `read_kafka_messages` | commits to the broker run ahead of the target | as above |
| **taps of services** github, slack, twilio, zendesk, mixpanel, salesforce, s3-csv | a point in time per stream | requests of pages, windows or batches | objects change between two requests, share a time, come in no order or late; time-outs; jobs that are resumed | as above |
| **fastsync** `pipelinewise/fastsync` | pool of workers, LOCK, state file; a temporary table | `sync_table` of six pairs: bookmark, export, load, mask, swap, save | pools in two processes that share the file; failures anywhere; replicas that are behind | bookmark taken before the export; saved bookmarks survive; nothing unmasked gets out; all ends |
| **partialsync** `pipelinewise/fastsync/partialsync` | as fastsync, no LOCK | mark the range deleted, load, merge or swap, save | statements one by one on the live table | as above |
| configuration import, validation, discovery, alerts, logs, samples | files | sequential, run by an operator | none that is concurrent | section 8 |

How the parts interact: the tap's output is an OS pipe, through
transform-field, into the target; the target prints states to its standard
output, which `run_command` reads line by line (standard error included) and
`update_state_file` writes to the state file; tap-postgres reads that file back
while it runs in order to acknowledge log to the source; the next run of any
command starts from it; fastsync, partialsync, `reset_state` and the clean-ups
rewrite the same file.

`PROJECT.json` lists under "hazards" what is hard to test in this, line by line.

## 2. Modules

```
AtLeastOnce                what a pipeline with a saved state promises
   ^ implemented by
RunTapSinger               run_tap_singer, run_command, state file
   ^ proofs: RunTapSingerProofs
   | assumes of its environment
TargetPostgres             the message loop of the target            (MCTargetPostgres,
   ^ proofs: TargetPostgresProofs                                     MCTargets)
TransformField, ColumnVersions                                       (MCTargets)
   ^ proofs of TransformField: TargetPostgresProofs
TargetSnowflake            the message loop, stage and archive       (MCDatabases)
   ^ proofs: DatabasesProofs
LogicalReplication         tap-postgres reading the log              (MCLogicalReplication)
   ^ proofs: LogicalReplicationProofs
   | assumes the same of target and PipelineWise
SingerPipe                 the same assumption, for the other taps
   ^ MysqlBinlog           tap-mysql reading the log                 (MCTaps)
   |    ^ proofs: MysqlBinlogProofs
   ^ TableTap              tables read with SELECT
   |    ^ MysqlTables, PostgresTables, MongodbTables, SnowflakeTables
   | MongodbChangeStreams, TapKafka                                  (MCDatabases)
   |    ^ proofs: DatabasesProofs
   ^ ApiTap                objects read from a service
        ^ TapGithub, TapSlack, TapTwilio, TapZendesk, TapMixpanel,
          TapSalesforce, TapS3Csv                                    (MCTaps)
             ^ proofs: TapsProofs
TapRun                     the commands on one tap                   (MCTableLoads)
   ^ proofs: TableLoadsProofs
SyncTables                 fastsync / partialsync around the file    (MCSyncTables)
   ^ proofs: SyncTablesProofs
TableLoad                  one table, its source and its bookmark
   ^ FastSync, PartialSync
        ^ TableLoads       loads of both kinds, one after the other  (MCTableLoads)
             ^ proofs: TableLoadsProofs
```

### TargetPostgres

`persist_lines` with one action per message type (`Schema`, `RecordMsg`,
`StateMsg`, `ActivateVersion`, `EndOfInput`), and `flush_streams` as a sequence
of steps, because the process can die between any two: `LoadCsv` is the
transaction of `load_csv`, `DeleteRows` the one of `delete_rows` with the reset
of the row count, `FinishFlush` the reset of the buffers and the new
`flushed_state`.  `Fail` ends the process anywhere.  A record is its key and
whether it is flagged deleted; a buffered or loaded row is the index of its
record in what the stream sent.  A state is a function from streams to the
number of records its bookmark covers, 0 where it has none.  The tap is the
environment: its bookmarks cover only what it sent and do not go back.
Left out: record validation and DDL (they fail or do nothing), columns,
streams without a primary key.

### LogicalReplication

The source's log is a sequence of change and commit records, the LSN is the
index.  `Write` interleaves transactions; the external operators `ToSend` and
`IsNext` say what a PostgreSQL walsender does: whole transactions in commit
order from a starting point, each change with its own LSN.  `Start`,
`ReadMessage`, `PollStateFile`, `Finish` are the parts of `sync_tables`: the
setup, one turn of the loop with `consume_message` and the LSN bookkeeping, the
poll of the state file, the `finally` block.  0 stands for Python's `None` in
LSN variables; no log record has that LSN.  `state_comitted` is not a variable:
it is the last file read, or `state` itself before the first (`file_read`).
The rest of the pipeline is `Consume`: each stream is loaded in order at its own
pace and the bookmark a STATE holds for it may be saved after that.  `Kill`
kills the tap, `PipelineDies` everything with the messages under way.
Left out: the initial full table sync of a stream, several databases of one
tap, payloads that do not parse, removal of bookmarks of deselected streams.

### RunTapSinger and AtLeastOnce

`run_tap` comes to the pipeline in four steps: `ParseState`
(`create_filtered_tap_properties` reads the state file, and fails if it does not
parse), `OpenCopy` and `WriteCopy` (the copy to `.bak`) and `StartRun`, which
only then looks at the pidfile.  `starting` says which of them is next.  With
`Overlap` a second `run_tap` may do them while a run is at work, until the
pidfile refuses it; without, commands come one after the other.  `ReadLine`, `ReadEnd`, `Save` and `Poll` are the
loop of `run_command` with its callback; `OpenLast` and `SaveLast` the last
update.  The throttle of two seconds is a choice between writing and not
writing once a state has been written.  Between open and write the file is
`Truncated`.  The pipeline is the environment, assumed to do what the target
promises; its exit is independent of what is still in the pipe.  `Crash` kills
PipelineWise and the pipeline together: an orphan would be stopped by its
first write to the closed pipe.  The positions of all streams are one number
here: the file is always written as a whole.

`AtLeastOnce` is the abstract promise: the restart point never covers what is
not loaded.  `ImplementsAtLeastOnce` checks that `RunTapSinger` implements it,
with the restart point (the file, or `.bak` when the file is truncated) as the
checkpoint.

### SyncTables

`StartSync`, `JoinPartial`, `JoinFull`, `EndSync` are `do_sync_tables`;
`CleanupRead` and `CleanupWrite` the clean-up of `sync_tables_fast_sync`; per
table `TakeTask`, `GetBookmark`, `CopyTable`, `SwapTables`, `Acquire`,
`LoadState`, `OpenState`, `SaveState`, `Grant` are a worker of
`postgres_to_postgres.sync_table` or `postgres_to_snowflake.partial_sync_table`,
`FailTable` its except clause.  Positions are points in the source's change
log.  The statements of a partial load are one step, `SwapTables`.  A command
selects any tables, resets the bookmarks of those to sync partially and starts
the processes that have something to do; `FailProcess` is a process that fails
before its pool.  A command starts only when the processes of the last one are
gone; that they may not be is `TapRun`.

### The pipe and the taps: SingerPipe, TableTap, ApiTap

`LogicalReplication` carries its own pipeline because the tap reads the state
file back.  The other taps never look, so for them the pipeline is
`SingerPipe`: when a tap writes a STATE, either everything before it is loaded
and it is saved, or it is not, and the choice may be made at once because the
tap cannot tell the difference; `Lost` takes away what was written since the
saved STATE.  This is what `TargetPostgres`, `TransformField` and
`RunTapSinger` are shown to do.  Where the target breaks it (section 5, 1) the
taps lose data too; that is one fault and is stated once.

`TableTap` is a table in a source database, a SELECT that reads a snapshot, the
rows fetched one by one with a STATE every `StatePeriod` rows, deaths, and the
replication method that an operator changes between two runs.  Each tap adds
what it selects, in which order, what a row does to the state, and what a state
means when the next run begins.  `ApiTap` is the same for services: objects
whose time of change has the resolution of the service, and requests between
which they change.

The property is the same for all: **the saved state, read as the next run would
read it, skips nothing that is not in the warehouse**.  `SkippedChanges` and
`Skipped` compute it from the module's own start of a run, so that the meaning of a
bookmark is the one the code gives it, not one the model invents.  Where the
code does skip, the property names exactly when (section 5, 5).

* `MysqlBinlog`: `sync_binlog_stream` with its one reader for all streams,
  rotations, purged files, streams that join with a bookmark of their own,
  bookmarks by position and by GTID, `UPDATE_BOOKMARK_PERIOD`, the end position
  taken when the run starts.  `interrupted` is history: the transactions that
  the saved GTID bookmarks named when a run died.
* `MongodbChangeStreams`: `sync_database` with `update_buffer`, flushed by size,
  by time and at the end.  The database also replaces documents, which the
  `$match` of the stream does not let through (`PassReplace`); records carry the
  operation after which the document was read.
* `TapKafka`: assignment of partitions from bookmarks or `initial_start_time`,
  bookmarks per message, commits at intervals.
* `MysqlTables`, `PostgresTables`, `MongodbTables`, `SnowflakeTables`: full
  copies with their way to resume (largest key when it began and last key;
  `xmin` of the last row; `_id`; none), incremental streams, the copy that
  precedes log-based replication, and the bookmarks that survive a change of the
  method, between any two methods and also in the middle of a copy.  What such a
  copy leaves behind is history (`passed`), computed when it goes on
  (`LeftBehind`): of MySQL the changes of rows out of the range that a FULL_TABLE
  copy left to a LOG_BASED one; of PostgreSQL the rows with an older `xmin` that
  come later in the order of its text (`AsText`).
* `TapGithub`, `TapSlack`, `TapTwilio`, `TapZendesk`, `TapMixpanel`,
  `TapSalesforce`, `TapS3Csv`: pages, windows, children, thread pools, chunked
  jobs and listings; a variable (`sync_func`, `stream`, `endpoint`, `api_type`) picks
  one of the ways the streams of a tap are read and keeps it.  In `TapMixpanel`
  the clock has days: the age of a bookmark is cut to whole days (`FirstWindow`),
  dates are requested, and `cut` is history, the events of a part of a day that
  is never requested.  In `TapZendesk` a ticket may be removed before its jobs
  ask for it, and ratings are selected by a time of the host's zone.

### TargetSnowflake, TransformField, ColumnVersions

`TargetSnowflake` has the handlers of `TargetPostgres` with what differs: a
SCHEMA flushes its own stream and only if it changed, a batch is flushed by age,
a STATE becomes the one to print whenever no row is buffered, and a batch is a
file that is staged, merged, archived and removed in steps of their own
(`PutToStage`, `LoadFile`, `CopyToArchive`, `DeleteFromStage`), between which
the target may fail.

`TransformField` is the filter process with its buffer.  Next to it stands what
fastsync does to the same row in SQL (`MaskedByFastsync`): one UPDATE per
transformation with conditions, in their order (`UpdatedWhere`), then one for all the
others (`UpdatedAll`).

`ColumnVersions` is `sync_table` and `update_columns` of both targets on a
table that exists or not: the comparison with the columns the target believes in, then one
ALTER per step, the minute that becomes the suffix of a renamed column, records
loaded in between, and targets that die and start again.

### TapRun

Processes of the commands on one tap.  `run_tap` chooses its tables from the
bookmarks first; `CheckPidfile` and `WritePidfile` are the two steps of the
pidfile library; `DoSyncTables`, `SyncsTable`, `ChildrenJoined`, `ChildFails`
the fastsync part, whose children may outlive it (`orphan`).  `stop_tap` is a
command, and the handler of SIGTERM and SIGINT, installed in every command before
it does anything else and inherited by the processes it forks: `Signal` may come
to any of them at any place and removes the pidfile, whosever it is; of two
children the first does so while the second still works (`Terminates` is the end
of that one).  `SignalWithoutPidfile` ends the parent and no child.  The command
removes the pidfile of the run it was to stop.  `Killed` is SIGKILL of one
process, whose children work on behind the pid of a dead one; `HostCrash` leaves
nothing but the files.  `reset_state` reads and writes the state file in two steps.
`faults` records which of the races has happened, so that the properties can
say that nothing else leads to the same end.

### TableLoad, FastSync, PartialSync, TableLoads

The life of one table: its source changes, a replica follows it, the singer tap
replicates from the bookmark on, and commands load it anew.  `sync_table` gives
each pair of tap and target its own order of steps, translated from the six
workers and from `partial_sync_table`; each step is an action and a worker may
die before it (`WorkerDies`, `PartialDies`).  The temporary table outlives its
worker.  `lost` collects the rows to which one of the four cases of section 5,
6 has happened.  `TableLoads` puts both kinds of load and the source together,
any number of them one after the other.

## 3. Runs

| Run | Bounds | Shows |
|---|---|---|
| `targets` (2.4 million states, 90 s) | target-postgres: 2 streams, 2 keys, batches of 2, 2 records per stream, hard delete; flushing one stream under a tap that sends a STATE first, and flushing all in any order. transform-field: 2 messages of a batch, pairs of transformations with a condition. Columns: 2 columns, 3 types, 2 or 3 SCHEMAs, 1 death | printed positions are loaded and do not go back, tables are the replay of what was loaded, a clean exit leaves nothing, states keep their place, both maskings agree, values are found |
| `target_default` | as the first of these, no STATE first | **violation**: section 5, 1 |
| `replication_safety` | 2 streams, 2 transactions, log of 5, a STATE after every LSN, 1 crash | slot and saved bookmarks stay behind what is not loaded; nothing is skipped |
| `replication_liveness` | 2 streams, 2 transactions, log of 3, 1 crash, fair | every committed change is loaded |
| `replication_torn_read` | as `replication_safety`, polls may meet a truncated file | **violation**: section 5, 2 |
| `databases` (1 million states, 40 s) | target-snowflake: 2 streams, 2 keys, batches of 2 and of any age, 2 records per stream, a STATE first; tables: 2 keys, 2 changes, 2 times, 2 changes of the method between any two (PostgreSQL: 1), 1 death, transaction ids 9 and 10; change stream: 2 collections, 4 changes, buffer of 2; Kafka: 2 partitions, 2 messages | printed positions are loaded, the archive covers the loads; the saved bookmarks of six ways to read a database skip nothing that is not loaded |
| `taps` (2.9 million states, 100 s) | binlog: 2 streams and another table, 3 transactions, 2 files, a STATE after 2 events, 1 death; services: 2 or 3 objects, 3 or 4 changes, 3 to 6 times (Slack's clock ends at 5, that of a bulk query of Salesforce at 2), pages of 1, windows of 1 or 2, days of 2 times, 1 death | the same for the binlog and for seven services |
| `singer_runs` | 3 records, pipe of 2 lines, 2 crashes, fair | a safe restart point at all times; `AtLeastOnce`; every record is loaded unless a crash truncated the file |
| `sync_commands` | 2 fastsync and 1 partialsync tables, a log of 1, any number of commands, fair | what is saved is loaded although files are torn and overwritten; fastsync alone loses no bookmark; every command ends |
| `sync_lost_bookmark` | 1 and 1 | **violation**: section 5, 3 |
| `table_loads` (3.6 million states, 80 s) | a table of 2 rows, 3 taps (a replica with LOG_BASED only), 2 targets (deletions kept or not with LOG_BASED only), 2 changes, 2 loads, 1 dead worker; 2 processes, 3 commands, 3 tables | bookmarks of loaded tables, masking, and the exclusion of commands, with the races that break it named |
| `stop_tap` | the same | **violation**: section 5, 4 |

Four runs look at several modules, one at a time: the MC module has a variable
`tap` or `part` that never changes and the variables of the other modules are 0.  They share
nothing but the budget.

Why the bounds are enough to be interesting: two streams are the least at which
a flush of one leaves the other buffered and at which bookmarks differ; a batch
of two with two keys gives full batches, partial ones, and two records of one
key in a batch; five log records hold two interleaved transactions of which one
commits first with larger LSNs; one crash cuts a run at any point and the next
one starts from what it left; a pipe of two lines is the least in which a line
is left unread; two fastsync workers make one wait for the lock, and with a
partialsync worker beside them all three writers of the state file meet.  Two
keys are the least at which a copy is interrupted between rows, two changes the
least at which one is behind a bookmark and one ahead; two binlog files are the
least with a rotation, and three transactions the least at which a run dies in
one, the next run reads another and a third is behind a GTID nobody lost rows of; pages of one object put a request between any two.  A
second load of a table is what meets the remains of the first, and three
commands are a run, one that disturbs it, and one that finds what both left.
`FirstXid` is 8 so that the two changes of PostgreSQL have the ids 9 and 10, which
come in another order as text.  A day of two times is the least in which a run
starts earlier in its day than the time of its bookmark, and six times are enough
for that to happen more than an attribution window later.
A third SCHEMA is needed only with the table cache, where the second is compared
with columns that are no longer there.  No
run has more tables than a pool has workers: that a pool is never exceeded is
proved instead (`TypeCorrect`).  `Max...` constants are
bounds of the models; all other constants are parameters of the code.
Permutations of streams, keys, transactions and processes are symmetries where a
run checks safety only; no run that checks liveness uses them.

`CHECK_DEADLOCK FALSE` stands where the system stops: a target exits, a bounded
log or source ends, commands are used up, a truncated state file stops every run.

## 4. Fairness

* `LogicalReplication`: runs are started again (cron or a scheduler), every run
  ends (`max_run_seconds`, no data, a message past `end_lsn`), the target
  consumes what is in the pipe: weak fairness.  Reading a given message needs
  strong fairness: a run may end at any time, but runs do not end before the
  same message for ever.
* `RunTapSinger`: a run is started again and again (cron); the steps of
  `run_tap` before the pipeline, those of `run_tap_singer` and the end of the pipeline are
  weakly fair.  Strong fairness of a load that gets beyond what is loaded says
  that not all runs are cut short before they reach new records.
* `SyncTables`: the command and each worker; failing is one of the steps of a
  worker, so a worker that can not go on fails.  Nobody is fair to the lock.

## 5. What the violations say

1. **A state ahead of the warehouse** (`target_default`).  The first STATE
   becomes `flushed_state` even though the records it covers are only buffered.
   A stream fills its batch and is flushed alone, and the state that is printed
   then holds the other streams' bookmarks too.  If the target dies before they
   are flushed the next run does not send them again.  tap-postgres with log
   based streams only sends records before its first STATE.
2. **The slot is told too much** (`replication_torn_read`).  Before the first
   successful poll `state_comitted` is the dictionary the tap updates with
   every message.  If that poll meets the file between truncate and write, the
   position acknowledged to PostgreSQL is one of messages just written to the
   pipe.
3. **A bookmark is lost** (`sync_lost_bookmark`).  fastsync and partialsync run
   at the same time and rewrite the state file; the lock is private to a
   fastsync process, partialsync has none.  `BookmarkIsLoaded` still holds
   (`sync_commands`): the table is synced again, or an older bookmark is used.
4. **The tap is not stopped** (`stop_tap`).  The command signals the children of
   its own process, removes the pidfile of the run and leaves the run at work,
   next to which another may start.

Other cases in which the code does not do what one would wish are part of the properties
that hold: each names its exceptions.

5. Taps.  *MySQL with GTIDs*: a bookmark written within a transaction names it,
   and the reader starts after it.  If the run dies there the rest of the
   transaction is never read (`BinlogResumesExactly`): later bookmarks name
   later transactions, so the rows stay missing, which is what `interrupted`
   records.  *MySQL copies*: a
   FULL_TABLE copy that is interrupted leaves its range in the bookmark.  If the
   stream becomes LOG_BASED, `do_sync_historical_binlog` finds no position, takes
   the one of now, and `sync_table` goes on in the range: changes before it to
   rows behind `last_pk_fetched`, or above `max_pk_values`, are read by neither
   (`MysqlTablesSkipNothing` names these rows and no others).  *PostgreSQL
   copies*: rows come in the order of the text of `xmin`, 10 before 9, and a copy
   goes on by the age of the last one, so that 9 is left out (`PostgresCopyResumes`
   names these rows); an lsn without `xmin` in the state is taken for a complete
   copy (`PostgresTablesSkipNothing`).  *Change streams*: the closing STATE of a
   run precedes the buffered updates it covers (`ChangeStreamsSkipNothing`), and
   a document that is replaced is not read before its next change
   (`ChangeStreamsHaveReplaces`).
   *Kafka*: a partition without a bookmark that starts at "earliest" or "latest"
   depends on what was committed.  *Github*: objects that change while pages are read;
   in a listing by creation the first old one ends the stream.  *Slack*: pages
   of a window go back in time and the bookmark is the newest
   (`SlackWindowIsResumed`).  *Twilio*: children of several parents share one
   bookmark.  *Zendesk*: west of Greenwich `strftime('%s')` makes a later time of
   the bookmark, and ratings between the two are not listed (`HiddenByZone`).
   *Mixpanel*: the attribution window is read again, but events older than the
   bookmark are dropped from it (`AttributionWindowIsReadAgain`); and `delta_days`
   are whole days: with a bookmark of the 10th at 22:00, a run on the 21st at
   04:00 and an attribution window of five days, dates from the 11th on are
   requested, and the last two hours of the 10th never are
   (`MixpanelSkipsLateEventsAlone`).
   *Salesforce*: a job that is gone when it is to be resumed.  *S3*: files
   modified in the same second.
6. Loads.  A replica that is behind what it has received, or behind the slot
   made on its primary when it has no position yet; a worker that dies after it
   replaced the target table; a partial sync that dies after it marked its rows;
   and a partial sync that moves the bookmark of the whole table
   (`LoadedBookmarkIsLoaded` of `TableLoad`).
7. Commands.  Two that look at the pidfile at the same time; a pidfile removed
   while its run or a child of it is at work, by `stop_tap`, by a signal to any
   other command or to the first of two children, or at the end of a run that had
   lost its own; and children left at work by a parent that failed, was killed,
   or was signalled when there was no pidfile (`RunsAreExclusive`).
   Table names with a dash are looked for under another name
   (`ChosenTablesAreSynced`).  A second `run_tap` copies the state file to
   `.bak` before the pidfile refuses it, and may copy nothing
   (`BackupHoldsAState`; `RestartPointIsSafe` is about runs that do not
   overlap).  The clean-up of `sync_tables` looks for `schema.table` among keys
   `schema-table` (`CleanedBeforeSync`), and the test for a slot to drop
   (`pipelinewise.py`, 1437 and 1470) is never true.
8. Targets.  With a `table_cache` a second change of a type in one process is
   compared with the columns of its start (`ValuesStayInTheirColumn`), and
   target-snowflake keeps a column of any type when the new one is
   `TIMESTAMP_NTZ`, though `docs/user_guide/schema_changes.rst`, 20, says that
   changed types are versioned.  transform-field and fastsync mask alike except
   for conditions on an empty value and for a transformation without conditions before one
   that depends on its column (`SameOnBothPaths`).

The properties named here are in their modules; the ones that do not hold and
are no run of their own say so in their comment.

Two things cost only repetition, so no property
forbids them: the target prints the state of its last flush at the end, not the
last one it received, and `run_command` stops reading when the subprocess has
exited, whatever is left in the pipe.

## 6. Proofs

The theorems hold for every value of the constants that satisfies the `ASSUME`s
of the module: streams, keys, tables, rows, transactions and processes are any
sets (finite where a minimum or a count is taken of them), sizes and bounds any
numbers, and values that stand for "none" are not among what they are
distinguished from.  Hypotheses beyond these are named here.  The run that checks
a property on an instance is in section 3.

Where a run looks at several modules, one at a time, the theorems are about the
specification that TLC checks (`SpecAll`), with its constants free: `MCTargets`,
`MCDatabases` and `MCTaps` declare those of their modules, and a `.cfg` gives them
their small values.  A lemma on the step of the whole (`TransformFrame`,
`DatabasesFrame`) says that the part that runs takes a step of its own module
and stays the one that runs; the rest is about that module.

**`TargetPostgresProofs`**

* `TypeCorrect`: `Spec => []TypeOK`.
* `NoStateAheadOfLoad`: `SafeConfig /\ Spec => []EmittedStateIsLoaded`.
  `SafeConfig` is the disjunction of what makes the code safe: all streams are
  flushed together, or the tap sends a STATE before its first record, or there
  is only one stream.  `target_default` shows that it can not be dropped.
* `CleanExitIsComplete`, `PrintedNeverGoesBack`, `WarehouseIsReplay`, in every
  configuration.

`EmittedStateIsLoaded` is not inductive.  What is missing is why a flush may
copy positions from `state`: a stream without buffered rows is loaded as far as
it was sent (`CountsInv`), the streams a flush is done with have none and an
unfiltered flush takes all that sent a record (`FlushInv`), states cover only
what was sent and `flushed_state` is behind `state` (`StateInv`), and under a
tap that sends its state first `flushed_state` never covers anything that is
not loaded (`StateFirstInv`).  `IInv` is their conjunction; the lemmas
`CountsPreserved`, `FlushPreserved`, `StatePreserved`, `StateFirstPreserved`
and `EmittedPreserved` prove one part each, action by action, from `TypeOK` and
`IInv`.  The first three parts hold in every configuration and carry the other
theorems: the flush at the end takes every buffer (`EndInv`), and what was
printed is behind the state that will be printed next (`PrintedInv`).
`TableIsReplay` needs to know that a buffer holds, for each key, the last record
that was sent and not loaded, except in a stream just loaded whose buffer is
still to be emptied (`BuffersInv`), and that between its two transactions a
table lacks the deletions alone (`TransitInv`).

In the same module transform-field, `TransformInOrder`:
`SpecAll => []StateFollowsItsRecords`, for any transformations and size of a batch.
`TfInv` says that the output has the records of the input up to some number, each in its
place, and that the buffer has the ones after them, in their order, up to the last; a
flush moves all of the buffer, or all but the record that caused it.  The
STATE that waits is of records of the input, so after any flush the one
written is of records that are out.  `MasksAlike`:
`SpecAll => []MasksLikeFastsync`, for any number of transformations, columns and
values.  `TfInv` also says that the records of the buffer are of one stream, so that each is
written as `Transformed` with the transformations of its own (`MaskedSo`).  That
`Transformed` and `MaskedByFastsync` are then equal is `MaskedAlike`, an induction over the
list of transformations by the least place where it would fail (`Least`): `TransformedPath`,
`UpdatedWherePath` and `UpdatedAllPath` give the row after each transformation, and along
the list the row in the pipe is the row of the conditional UPDATEs but for the columns
that a transformation without conditions has masked (`MaskedLike`).  No later one
masks these or asks for them (`PlainStep`, `WhereStep`), which is what
`SameOnBothPaths` requires, and the last UPDATE masks just them.  The theorem uses
`TransformAssumption`: the configurations are lists of transformations of these columns.

And the columns of a table, `LoadedIsFound`: `SpecAll => []LoadedValuesAreFound`, for any set
of configurations of `ColumnVersions` (`ColumnConfigs`, each with its target, names, types,
rows, bounds and whether there is a cache).  `ColumnsAssumption` asks for names in a sequence,
at least one minute, and parts with names of their own.  `CvInv` says that a column that is not there
has no values (`CvTable`), so that a version takes no place of another one's; that
statements which alter a table alter one that exists; and that a statement that renames a
column, where the columns are the ones there are, is for a name of which no value was
loaded since it was asked for (`CvAlters`): the value that leaves its column is one
that `ValuesStayInTheirColumn` no longer speaks of.  What `update_columns` gives is
`UpdateColumns`, which rests on `InTheirOrderIsOfThem`, an induction over the names by the least
place where it would fail.

**`DatabasesProofs`**, target-snowflake

* `PrintedIsLoaded`: `SafeConfig => (Spec => []SnowflakeStateIsLoaded)`, along
  the same argument; `EmptyInv` (nothing is buffered where nothing is counted)
  takes the place of the filter, since a STATE becomes the one to print whenever
  no row is buffered.
* `ArchiveIsComplete`: `Spec => []ArchiveCoversWhatIsLoaded` in every
  configuration.  A buffer holds records after those that are loaded, in the
  range that will be archived (`WaitingInv`); the stage holds the batch under
  way and nothing else (`StageInv`); what is archived is loaded, and a batch that
  is merged begins after it (`FilesInv`, `MergedInv`), so that each loaded record
  is in the range of one file, or in none because its batch failed on the way
  (`CoveredInv`).

**`LogicalReplicationProofs`**

* `TypeCorrect`: `Spec => []TypeOK`, torn reads included.
* `SlotIsSafe`, `SavedStateIsSafe`, `WalsenderSkipsNothing`: `~TornReads`
  implies that `Spec` satisfies `SlotKeepsUnloaded`, `SavedStateKeepsUnloaded`
  and `NothingSkipped`.  `replication_torn_read` shows what happens with torn
  reads.

The notion that makes them inductive is `Covers(L, n, s)`: the set `L` has every
change of stream `s` that was committed before `n`.  Slot, committed position
and saved bookmarks are covered by what is loaded (`FilesInv`); a STATE in the
pipe by that and the records before it (`PipeInv`); the state of a running tap
by that and everything it has written, and every committed change is loaded, in
the pipe or still to be sent (`RunInv`).  Transactions interleave, so this
cannot be said of changes by their own LSN: it is the commit that counts, and
that it is the only one and later than its changes is `WalInv`.

**`MysqlBinlogProofs`**

* `BinlogIsComplete`: `Spec => []BinlogSkipsNothing`, by position and by GTID,
  for any transactions, rotations, streams that join and deaths.

A log is described once (`IsLog`): transactions in order, each opened by its
GTID, files that end with a rotation, none of them open at the end.  That a reader
which crosses from one file to the next meets every place between is a lemma
about that.  `CoverInv` says what saved and current bookmarks cover, up to the
transaction a GTID names while it is being read; `ReadingInv` that everything
the reader has passed is written and that the end of a run divides no
transaction, which is why the closing bookmarks (`ClosingInv`) may name a GTID
without exception.  What this proof found is in the property now: it once
excused rows of the transaction the *saved* GTID names, and three
transactions are enough for a later bookmark to name another while the rows
are still missing (section 5, 5).

**`RunTapSingerProofs`**, for any number of records, lines in the pipe and
crashes

* `TypeCorrect`: `Spec => []TypeOK`, overlapping starts included.
* `RestartPointSafe`: `~Overlap /\ Spec => []RestartPointIsSafe`.
* `Implements`: `~Overlap /\ Spec => ImplementsAtLeastOnce`.  Every step is a
  step of `AtLeastOnce` or leaves its variables alone; the steps that write a
  file need the invariant to show that the new checkpoint is loaded.

The inductive invariant says three things.  `PipelineInv`: what the pipeline
prints, and so the state kept of it, is loaded.  `FilesInv`: each file that can
be read is loaded, at least one can be read, and no copy is being made while
the state file is truncated; this is where `~Overlap` is needed: with
overlapping starts a copy may be made of a truncated file (section 5, 7).  `RunInv`: a run prints and writes nothing
behind the backup made before it.

**`SyncTablesProofs`**, for any split between fastsync and partialsync, any pool
size and any sequence of commands

* `TypeCorrect`: `Spec => []TypeOK`, with `WorkersInv` in it: no pool has more
  workers than its size, workers work only in a running pool, and LOCK is held
  only by one that uses the state file.
* `BookmarkLoaded`: `Spec => []BookmarkIsLoaded`.  The point is that lost
  updates are harmless here: every content anybody may still write back, read
  before or after others saved, is covered by the tables (`ContentInv`), because
  tables never get older and a bookmark is fetched before its export (`CopyInv`).
* `FastSyncKept`: `Spec => []FastSyncKeepsBookmarks`.  Without partialsync only
  the holder of LOCK is between its read and its write (`LockInv`), so what it
  read has all bookmarks saved so far (`KeptInv`); a truncated file always has a
  worker about to write it (`FileInv`).

**`TableLoadsProofs`**, the commands on one tap, for any number of processes,
tables and commands

* `RunsExclude`: `Spec => []RunsAreExclusive`.  `ExclusiveInv`: while none of the
  three faults has happened no child is orphaned, the pidfile is the one of the
  process that works, and at most one process is between its look at the
  pidfile and its write.  Signals and kills at any place are steps of `Spec`:
  they are faults only where they remove the pidfile of another run or of a
  child at work, or leave children, and all others preserve the invariant.
* `SingerSynced`: `Spec => []SingerTablesAreSynced`, with `SingerInv`: what a
  `run_tap` has chosen for the singer tap still has its bookmarks when it gets
  there.

**`TableLoadsProofs`**, the loads of a table, for any rows, any set of the modelled kinds of taps and
targets, any number of loads and deaths

* `OnlyMaskedRowsAreLoaded`: `TableSpec => []MaskedInTarget`.  `StepsInv` is which
  steps each kind of worker goes through; at the steps that come after
  `obfuscate` the temporary table is masked, whatever a dead worker left in it.
* `BookmarkIsLoaded`: `TableSpec => []LoadedBookmarkIsLoaded`.  The rows that did
  not change after the bookmark of the worker are exported as they are
  (`RowsInv`), arrive in the temporary table (`TempInv`) and in the target
  (`FastInv`, `MergedInv`), and a partial sync leaves the others as they were
  (`LeftInv`); when the worker saves its bookmark, or dies before it changed the
  table, this is the property again (`IdleInv`).

**`DatabasesProofs`**, the taps of databases and Kafka, for any number of rows,
changes, switches of the method and deaths, any limit of a SELECT and period of
a STATE, any collections with their documents, partitions and messages

* `KafkaIsComplete`, `SnowflakeTablesAreComplete`, `MongodbTablesAreComplete`,
  `ChangeStreamsAreComplete`, `MysqlTablesAreComplete`, `PostgresIsComplete`:
  `SpecAll` satisfies the property of the tap, with the exceptions it names and
  for any transaction ids.  Of the text of an id the proof uses only that it is
  some number by which the rows are ordered: `AsText` is not expanded, so that its
  range from 1 to 999 matters to TLC alone.

All rest on `DatabasesInvariant`, with an inductive invariant per tap.  The
properties speak of the saved bookmark; what they leave out is the bookmark in
memory and the rows that a SELECT has still to give.  Of a table: a row that a
run from the saved bookmark would not select is loaded (`...Saved`), one that
the bookmark in memory would not select is written (`...Read`), and while a result is
fetched each row is written, among those left, or not before them in the order of the
bookmark, since it changed after the SELECT (`...Fetch`): this is where the order
matters.  A row of PostgreSQL is ahead of the bookmark by its `xmin` or by the text
of it (`PgAhead`); what is ahead by the text alone is what a copy that goes on
passes, and is in `passed` from then on.  A copy in ranges has everything that is
due, that is older than the range, written, loaded or within the range (`...Range`,
`...Copy`), and for tap-mysql also all that the position of the log leaves behind,
unless it is in `passed` because the position was taken for a range that was
already there (`MyTaken`).  A switch of the method leaves the
fields of the old one in the bookmark, so the invariants say which of them go
together (`...Shape`, `MgCleared`).  Of a change stream: when the last change of a document
is passed by the cursor, replaces left out, it is written or waits in the buffer of
updates, when it is passed by a saved token it is loaded, and only documents in
`unflushed`, which were in the buffer at a closing STATE, may be neither
(`CsRead`, `CsSaved`).  Of Kafka: from where a partition began, the messages up to the
position of the consumer are written and those up to the saved bookmark loaded, and the
bookmark in memory is not beyond the position, whatever the broker was told
(`KafkaRead`, `KafkaBegun`).

**`TapsProofs`**, the taps of services, for any objects, clock, size of a page and
window, any assignment of children to parents and of records to batches

* `GithubIsComplete`, `SlackIsComplete`, `TwilioIsComplete`, `ZendeskIsComplete`,
  `MixpanelIsComplete`, `SalesforceIsComplete`, `S3CsvIsComplete`: `SpecAll`
  satisfies the property of the tap, with the exceptions it names.

They rest on `TapsInvariant`.  Each tap's invariant has three parts: no bookmark, window or
start of a run is in the future (`...Past`); what the saved bookmark passes is loaded or
excepted (`...Saved`); and what the run has left behind is written or excepted, which
is where they differ.  Github: an entry of a listing is on a page by the number of
entries before it, and this number does not shrink below the pages read
for an object that has not changed (`GhPages`).  Slack: the windows before
this one are written, and of this one the messages from the newest back to the
cursor (`SlackWindows`).  Twilio: what is not written is ahead of the page, in
the order of the listing, and the bookmark in memory does not pass the window
(`TwRead`, `TwDates`).  Zendesk: behind the bookmark in memory everything is
written or in the buffer, and what belongs to the tickets read may also be left
to the jobs of the threads (`ZenBehind`, `ZenRead`).  Mixpanel: an event
that came in time, is not a year old and was not cut off (`MixTimely`) but is not
written is in the response or not of a day before the window (`MixRead`,
`MixData`); when the window of a run begins after the day of such an event, the
event is in `CutOff` (`MixCutOff`), by the arithmetic of days (`DaysInOrder`,
`FirstWindowBounds`).  Salesforce: what is not written is in a batch that is left,
still to come in the answer, or behind neither the bookmark nor the dates of the
query (`SfRun`).  S3: a file that is not written is left in the
listing, or later than all that are (`S3Listed`).

Only model-checked:

* the liveness properties `EveryChangeIsLoaded`, `EveryRecordIsLoaded` and
  `SyncEnds`: fairness and ENABLED are out of the prover's reach.

## 7. Plan

1. *Done*: the modules of section 2, the runs of section 3, the proofs of
   section 6: every safety property that a run expects to hold is a theorem.
2. A composition: `SingerPipe` as what `RunTapSinger`, `TransformField` and a
   target do together, as a refinement per stream.
3. Liveness of the taps: that a copy which is interrupted again and again gets
   to its end.

## 8. Not modelled, and why

* Configuration import, validation and discovery are sequential commands of an
  operator.
* SQL text, data types of fastsync, CSV and JSON formatting, decoding of payloads, logging,
  alerts and profiling are conversions no property here speaks of; the types of
  the targets' columns are in `ColumnVersions`.
* `split_gzip` is one loop of one process over bytes.
* Of the services: the streams of github that are read below others (reviews,
  project cards and columns, team members) or by other dates (milestones),
  joining and threads of slack, the endpoints of mixpanel without a bookmark,
  sampling of CSV files.  They have the structure of what is modelled, or no
  bookmark.
* Kafka: retention and rebalancing.  tap-postgres: the copy that precedes the
  log within one run of `sync_tables` (the copy itself is `PostgresTables`),
  several databases of one tap.  target-snowflake: hard deletes and the threads
  that load streams in parallel.
* `reset_state` and the size limits of `sync_tables` are in `TapRun` only as far
  as they read and write the state file.
* target-postgres: a STATE that is an empty dict, which the tests of
  `flushed_state` (`target_postgres/__init__.py`, 176 and 227) take for none; the
  states of the model have bookmarks.  tap-zendesk: a host east of Greenwich,
  which asks for more than it needs, and the answer that a ticket is not found
  although it is there.
