----------------------------- MODULE MCDatabases -----------------------------
(* Small instances for TLC, one at a time: target-snowflake, and the taps of *)
(* databases and Kafka but the binlog of tap-mysql (MCTaps).                 *)
EXTENDS TargetSnowflake, TLC

CONSTANTS
    MaxKey, StatePeriod, MaxChanges, MaxTime, MaxSwitches, MaxDeaths,       \* TableTap
    FirstXid, Limit, FewSwitches,                                           \* PostgresTables
    Collections, DocsOf, update_buffer_size, UPDATE_BOOKMARK_PERIOD, MaxOplog,
                                                                            \* MongodbChangeStreams
    Partitions, Older, SEND_STATE_PERIOD, MaxMessages                       \* TapKafka

ASSUME DatabasesAssumption ==
    /\ MaxKey \in Nat /\ MaxChanges \in Nat
    /\ FirstXid \in Nat /\ Limit \in Nat
    /\ Older \in Nat
    /\ Collections # {}

\* One document in each collection.
Letters     == {"s", "t"}
OneDocument == [c \in Letters |-> IF c = "s" THEN {1} ELSE {2}]

VARIABLES
    tap, tap_pc, tap_state, history, clock, time, method, switches, result, rows_saved, due,
    copied, deaths, tap_emitted, tap_loaded, saved,                         \* TableTap
    auto_inc, current_log_pos,                                              \* MysqlTables
    passed,                                                                 \* and PostgresTables
    oplog, cursor, update_buffer, unflushed,                                \* MongodbChangeStreams
    produced, initial_start_time, committed, begun, position, message,
    consumed_messages                                                       \* TapKafka

MysqlTable == INSTANCE MysqlTables WITH
    pc <- tap_pc, state <- tap_state, emitted <- tap_emitted, loaded <- tap_loaded
PostgresTable == INSTANCE PostgresTables WITH
    pc <- tap_pc, state <- tap_state, emitted <- tap_emitted, loaded <- tap_loaded,
    MaxSwitches <- FewSwitches
MongodbTable == INSTANCE MongodbTables WITH
    pc <- tap_pc, state <- tap_state, emitted <- tap_emitted, loaded <- tap_loaded
SnowflakeTable == INSTANCE SnowflakeTables WITH
    pc <- tap_pc, state <- tap_state, emitted <- tap_emitted, loaded <- tap_loaded
ChangeStream == INSTANCE MongodbChangeStreams WITH
    pc <- tap_pc, state <- tap_state, emitted <- tap_emitted, loaded <- tap_loaded
Kafka == INSTANCE TapKafka WITH
    pc <- tap_pc, state <- tap_state, emitted <- tap_emitted, loaded <- tap_loaded

tables_  == <<history, clock, time, method, switches, result, due, copied>>
mysql_   == <<auto_inc, current_log_pos>>
streams_ == <<oplog, cursor, update_buffer, unflushed>>
kafka_   == <<produced, initial_start_time, committed, begun, position, message, consumed_messages>>
pipe_    == <<deaths, tap_pc, tap_state, rows_saved, tap_emitted, tap_loaded, saved>>
tapVars  == <<tap, tables_, mysql_, passed, streams_, kafka_, pipe_>>

\* The variables of the modules that are not looked at.
NoTables  == /\ history = 0 /\ clock = 0 /\ time = 0 /\ method = 0 /\ switches = 0
             /\ result = 0 /\ due = 0 /\ copied = 0
NoMysql   == auto_inc = 0 /\ current_log_pos = 0
NoPassed  == passed = 0
NoStreams == oplog = 0 /\ cursor = 0 /\ update_buffer = 0 /\ unflushed = 0
NoKafka   == /\ produced = 0 /\ initial_start_time = 0 /\ committed = 0 /\ begun = 0
             /\ position = 0 /\ message = 0 /\ consumed_messages = 0
NoPipe    == /\ deaths = 0 /\ tap_pc = 0 /\ tap_state = 0 /\ rows_saved = 0
             /\ tap_emitted = 0 /\ tap_loaded = 0 /\ saved = 0

InitTable(name, TapInit) == tap = name /\ TapInit /\ NoStreams /\ NoKafka

InitTap ==
    \/ InitTable("mysql tables", MysqlTable!Init)
    \/ InitTable("postgres tables", PostgresTable!Init /\ NoMysql)
    \/ InitTable("mongodb tables", MongodbTable!Init /\ NoMysql /\ NoPassed)
    \/ InitTable("snowflake tables", SnowflakeTable!Init /\ NoMysql /\ NoPassed)
    \/ /\ tap = "mongodb streams" /\ ChangeStream!Init
       /\ NoTables /\ NoMysql /\ NoPassed /\ NoKafka
    \/ /\ tap = "kafka" /\ Kafka!Init
       /\ rows_saved = 0 /\ NoTables /\ NoMysql /\ NoPassed /\ NoStreams

NextTable == UNCHANGED <<tap, streams_, kafka_>>

NextTap ==
    \/ tap = "mysql tables" /\ MysqlTable!Next /\ NextTable
    \/ tap = "postgres tables" /\ PostgresTable!Next /\ NextTable /\ UNCHANGED mysql_
    \/ tap = "mongodb tables" /\ MongodbTable!Next /\ NextTable /\ UNCHANGED <<mysql_, passed>>
    \/ tap = "snowflake tables" /\ SnowflakeTable!Next /\ NextTable /\ UNCHANGED <<mysql_, passed>>
    \/ /\ tap = "mongodb streams" /\ ChangeStream!Next
       /\ UNCHANGED <<tap, tables_, mysql_, passed, kafka_>>
    \/ /\ tap = "kafka" /\ Kafka!Next
       /\ UNCHANGED <<tap, tables_, mysql_, passed, streams_, rows_saved>>

\* The target stays as it begins while a tap is looked at.
InitAll ==
    /\ Init
    /\ \/ tap = "none" /\ NoTables /\ NoMysql /\ NoPassed /\ NoStreams /\ NoKafka /\ NoPipe
       \/ InitTap

NextAll == \/ tap = "none" /\ Next /\ UNCHANGED tapVars
           \/ NextTap /\ UNCHANGED snowflakeVars

SpecAll == InitAll /\ [][NextAll]_<<snowflakeVars, tapVars>>

Symmetric == Permutations(Keys)

\* An interrupted copy of a MySQL table and any change of its method leave no
\* gap, but for the position that a LOG_BASED stream takes when it goes on with
\* a FULL_TABLE copy (do_sync_historical_binlog, full_table), see MysqlTables.
MysqlTablesSkipNothing == tap = "mysql tables" => MysqlTable!MysqlTablesSkipNothing

\* An interrupted copy of a PostgreSQL table goes on from its xmin without a
\* gap, but for rows that the order of the text of xmin puts behind it
\* (full_table.sync_table), see PostgresTables.
PostgresCopyResumes == tap = "postgres tables" => PostgresTable!PostgresCopyResumes

\* An interrupted copy of a collection leaves no gap in its range of _id
\* (full_table.sync_collection), see MongodbTables.
MongodbTablesSkipNothing == tap = "mongodb tables" => MongodbTable!MongodbTablesSkipNothing

\* The key value of an incremental table passes no row that is not loaded
\* (tap-snowflake incremental.sync_table), see SnowflakeTables.
SnowflakeTablesSkipNothing == tap = "snowflake tables" => SnowflakeTable!SnowflakeTablesSkipNothing

\* A resume token passes only the updates that the closing STATE of a run has
\* overtaken in its buffer (sync_database), see MongodbChangeStreams.
OnlyTheClosingBufferIsSkipped ==
    tap = "mongodb streams" => ChangeStream!OnlyTheClosingBufferIsSkipped

\* Partitions with a bookmark or a fixed start go on without a gap, whatever
\* is committed to the broker (read_kafka_messages), see TapKafka.
KafkaBookmarksSkipNothing == tap = "kafka" => Kafka!KafkaBookmarksSkipNothing
=============================================================================
