------------------------------ MODULE MCTargets ------------------------------
(* Small instances for TLC of what is downstream of the tap: target-postgres *)
(* with and without flush_all_streams, transform-field and the columns of a  *)
(* table of either target, one of them at a time.  The variables of          *)
(* target-postgres stay as they begin while another one works.               *)
EXTENDS TargetPostgres, TLC

CONSTANTS
    TransformStreams, TransformColumns, Values, Null, Configurations,
    DEFAULT_MAX_BATCH_RECORDS,                                                 \* TransformField
    ColumnConfigs                                                              \* ColumnVersions

\* What transformation.json may hold.
ASSUME TransformAssumption ==
    Configurations \subseteq
        Seq([tap_stream_name : TransformStreams, field_id : TransformColumns,
             type : {"SET-NULL", "MASK-HIDDEN", "HASH"},
             when : Seq([column : TransformColumns, equals : Values \cup {Null}])])

\* A SCHEMA lists its properties; a configuration is known by the name of its part.
ASSUME ColumnsAssumption ==
    \A c \in ColumnConfigs :
        /\ c.names \in Seq({c.names[n] : n \in DOMAIN c.names})
        /\ c.minutes \in Nat /\ 1 <= c.minutes
        /\ c.part \notin {"postgres", "postgres flush all", "transform"}
        /\ \A d \in ColumnConfigs : c.part = d.part => c = d

VARIABLES
    part,
    transformations, tf_input, messages, tf_state, output, written, tf_pc,     \* TransformField
    exists, columns, cells, table_cache, col_schema, alters, col_pc, minute, col_loaded, retyped,
    col_records, schemaCount, deaths                                           \* ColumnVersions

FlushAll == INSTANCE TargetPostgres WITH FlushAllStreams <- TRUE, StateFirst <- FALSE

Conditions == [column : {"a", "b"}, equals : {"x", "null"}]
Items(whens) == [tap_stream_name : {"s1"}, field_id : {"a", "b"}, type : {"HASH", "SET-NULL"},
                 when : whens]
OneCondition  == {<< >>} \cup {<<c>> : c \in Conditions}
TwoConditions == {<<c, d>> : c, d \in Conditions}

OneOrTwoItems == {<<t>> : t \in Items(TwoConditions)} \cup {<<t, u>> : t, u \in Items(OneCondition)}

Transform == INSTANCE TransformField WITH
    Streams <- TransformStreams, Columns <- TransformColumns,
    input <- tf_input, state <- tf_state, pc <- tf_pc

Property(type, format, width) == [type |-> {type}, format |-> format, width |-> width]
Text(format) == Property("string", format, 0)
PostgresColumns ==
    [part |-> "postgres columns", target |-> "postgres", cached |-> FALSE, found |-> {"integer"},
     properties |-> {Property("integer", "none", 15), Property("integer", "none", 31),
                     Text("date-time")},
     names |-> <<"a", "b">>, keys |-> {1}, minutes |-> 2, schemas |-> 2, records |-> 2, deaths |-> 1]

SnowflakeColumns ==
    [part |-> "snowflake columns", target |-> "snowflake", cached |-> FALSE, found |-> {"number"},
     properties |-> {Property("integer", "none", 31), Text("none"), Text("date-time")},
     names |-> <<"a", "b">>, keys |-> {1}, minutes |-> 2, schemas |-> 2, records |-> 2, deaths |-> 1]

CachedColumns ==
    [SnowflakeColumns EXCEPT !.part = "cached columns", !.cached = TRUE,
                             !.schemas = 3, !.records = 1, !.deaths = 0]

AllColumns == {PostgresColumns, SnowflakeColumns, CachedColumns}

\* The columns of a table, of a target with or without its cache.
Table(c) == INSTANCE ColumnVersions WITH
    Target <- c.target, Names <- c.names, Properties <- c.properties, FoundTypes <- c.found,
    Keys <- c.keys, disable_table_cache <- ~c.cached, Absent <- NoState,
    MaxMinutes <- c.minutes, MaxSchemas <- c.schemas, MaxRecords <- c.records, MaxDeaths <- c.deaths,
    schema <- col_schema, pc <- col_pc, loaded <- col_loaded, records <- col_records

columns_ == <<exists, columns, cells, table_cache, col_schema, alters, col_pc, minute, col_loaded,
              retyped, col_records, schemaCount, deaths>>
transform_ == <<transformations, tf_input, messages, tf_state, output, written, tf_pc>>

NoTransform == /\ transformations = 0 /\ tf_input = 0 /\ messages = 0 /\ tf_state = 0
               /\ output = 0 /\ written = 0 /\ tf_pc = 0
NoColumns   == /\ exists = 0 /\ columns = 0 /\ cells = 0 /\ table_cache = 0 /\ col_schema = 0
               /\ alters = 0 /\ col_pc = 0 /\ minute = 0 /\ col_loaded = 0 /\ retyped = 0
               /\ col_records = 0 /\ schemaCount = 0 /\ deaths = 0

InitAll ==
    /\ Init
    /\ \/ /\ part \in {"postgres", "postgres flush all"}
          /\ NoTransform /\ NoColumns
       \/ part = "transform" /\ Transform!Init /\ NoColumns
       \/ \E c \in ColumnConfigs : part = c.part /\ Table(c)!Init /\ NoTransform

NextAll ==
    \/ part = "postgres" /\ Next /\ UNCHANGED <<part, transform_, columns_>>
    \/ part = "postgres flush all" /\ FlushAll!Next /\ UNCHANGED <<part, transform_, columns_>>
    \/ part = "transform" /\ Transform!Next /\ UNCHANGED <<part, vars, columns_>>
    \/ \E c \in ColumnConfigs :
          part = c.part /\ Table(c)!Next /\ UNCHANGED <<part, vars, transform_>>

SpecAll == InitAll /\ [][NextAll]_<<part, vars, transform_, columns_>>

Symmetric == Permutations(Streams) \cup Permutations(Keys)

\* transform-field writes a STATE after the records it covers (flush), see
\* TransformField.
StateFollowsItsRecords == part = "transform" => Transform!StateFollowsItsRecords

\* transform-field and fastsync mask alike (do_transform,
\* get_trans_in_sql_flavor), see TransformField.
MasksLikeFastsync == part = "transform" => Transform!MasksLikeFastsync

\* What a target has loaded stays where a query finds it when the types of
\* columns change (update_columns), see ColumnVersions.
LoadedValuesAreFound ==
    \A c \in ColumnConfigs : part = c.part => Table(c)!LoadedValuesAreFound
=============================================================================
