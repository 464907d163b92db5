--------------------------- MODULE ColumnVersions ---------------------------
(***************************************************************************)
(* What a SCHEMA does to the table of its stream in target-postgres and    *)
(* target-snowflake: the table is created, or the missing columns are      *)
(* added and a column of another type is renamed with the minute as its    *)
(* suffix and added anew, one ALTER at a time.  target-snowflake compares  *)
(* with the columns it read when the process began (table_cache).          *)
(*                                                                         *)
(* A record is loaded as soon as it is read: a SCHEMA flushes what its     *)
(* stream has buffered before it alters the table (TargetPostgres,         *)
(* TargetSnowflake).  The key columns keep their type and are left out.    *)
(***************************************************************************)
EXTENDS Naturals, Sequences

CONSTANTS
    Target,           \* "postgres" or "snowflake"
    Names,            \* the properties of the schema, in their order
    Properties,       \* what the schema may say of one: [type, format, width]
    FoundTypes,       \* the types of columns fastsync may have created
    Keys,
    disable_table_cache,
    Absent,
    MaxMinutes, MaxSchemas, MaxRecords, MaxDeaths      \* bounds of the model

VARIABLES
    exists,           \* the table exists
    columns,          \* per column, its type or Absent
    cells,            \* per row and column, the record its value is of; 0: NULL
    table_cache,      \* [on, exists, columns] as the process read them when it began
    schema,           \* per name, the property in force or Absent
    alters,           \* the statements sync_table still has to run
    pc,               \* "down", "alter", "read"
    minute,
    loaded,           \* history: per row and name, the last record loaded with a value; 0: none
    retyped,          \* history: per name, the last record when its type last changed
    records, schemaCount, deaths

tableVars   == <<exists, columns, cells>>
historyVars == <<loaded, retyped, records>>
columnVars  == <<tableVars, table_cache, schema, alters, pc, minute, historyVars,
                 schemaCount, deaths>>

NameSet == {Names[n] : n \in DOMAIN Names}

\* A column named after a property, or the version of it made in a minute.
Columns == [name : NameSet, at : 0..MaxMinutes]
Column(name)    == [name |-> name, at |-> 0]
NoColumns       == [c \in Columns |-> Absent]

-----------------------------------------------------------------------------
(* The type of a column                                                    *)

\* The branches both targets share; other is the type of the rest.
ByType(property, object, datetime, float, text, other) ==
    IF property.type \cap {"object", "array"} # {} THEN object
    ELSE IF property.format = "date-time" THEN datetime
    ELSE IF "number" \in property.type THEN float
    ELSE IF {"integer", "string"} \subseteq property.type THEN text
    ELSE other

\* width: the bits that hold "maximum", 0 without one.
PostgresType(property) ==
    ByType(property, "jsonb", "timestamp without time zone", "double precision",
           "character varying",
           CASE "integer" \notin property.type -> IF "boolean" \in property.type
                                                  THEN "boolean" ELSE "character varying"
             [] property.width = 0             -> "numeric"
             [] property.width \in 1..15       -> "smallint"
             [] property.width \in 16..31      -> "integer"
             [] property.width \in 32..63      -> "bigint"
             [] OTHER                          -> "character varying")

SnowflakeType(property) ==
    ByType(property, "variant", "timestamp_ntz", "float", "text",
           CASE "integer" \in property.type -> "number"
             [] "boolean" \in property.type -> "boolean"
             [] OTHER                       -> "text")

column_type(property) ==
    IF Target = "postgres" THEN PostgresType(property) ELSE SnowflakeType(property)

InSchema(o) == {name \in NameSet : o[name] # Absent}

-----------------------------------------------------------------------------
(* The comparison of update_columns, on the columns the target believes in *)

\* The names of a set, in the order of the schema.
InTheirOrder(chosen) ==
    LET upto[n \in 0..Len(Names)] ==
            IF n = 0 THEN << >>
            ELSE IF Names[n] \in chosen THEN Append(upto[n - 1], Names[n])
            ELSE upto[n - 1]
    IN  upto[Len(Names)]

columns_to_add(o, known) ==
    InTheirOrder({name \in InSchema(o) : known[Column(name)] = Absent})

PostgresReplaces(type, found) == found # Absent /\ found # type

\* A column whose new type is TIMESTAMP_NTZ stays as it is.
SnowflakeReplaces(type, found) == found # Absent /\ found # type /\ type # "timestamp_ntz"

columns_to_replace(o, known) ==
    InTheirOrder({name \in InSchema(o) :
        LET type == column_type(o[name])  found == known[Column(name)]
        IN  IF Target = "postgres" THEN PostgresReplaces(type, found)
            ELSE SnowflakeReplaces(type, found)})

Statement(op, name, o) == [op |-> op, name |-> name, type |-> column_type(o[name])]

update_columns(o, known) ==
    LET add     == columns_to_add(o, known)
        replace == columns_to_replace(o, known)
        Half(n) == (n + 1) \div 2
    IN  [n \in 1..Len(add) |-> Statement("add", add[n], o)]
        \o [n \in 1..(2 * Len(replace)) |->
              Statement(IF n % 2 = 1 THEN "version" ELSE "add", replace[Half(n)], o)]

\* CREATE TABLE IF NOT EXISTS
create_table_query == <<[op |-> "create", name |-> Absent, type |-> Absent]>>

\* target-postgres reads the table and its columns anew, target-snowflake
\* without a table_cache too.
FoundNow == [on |-> FALSE, exists |-> exists, columns |-> columns]

sync_table(o) ==
    LET found == IF Target = "snowflake" /\ table_cache.on THEN table_cache ELSE FoundNow
    IN  IF found.exists THEN update_columns(o, found.columns) ELSE create_table_query

-----------------------------------------------------------------------------
NoSchema == [name \in NameSet |-> Absent]
NoCache  == [on |-> FALSE, exists |-> FALSE, columns |-> NoColumns]

\* SHOW COLUMNS of the schema.
get_table_columns == [on |-> TRUE, exists |-> exists, columns |-> columns]

\* The stream is new, or fastsync has created and loaded its table.
Init ==
    /\ exists \in BOOLEAN
    /\ \E found \in [NameSet -> FoundTypes \cup {Absent}] :
          columns = [c \in Columns |-> IF exists /\ c.at = 0 THEN found[c.name] ELSE Absent]
    /\ cells = [k \in Keys |-> [c \in Columns |-> 0]]
    /\ table_cache = NoCache /\ schema = NoSchema /\ alters = << >> /\ pc = "down" /\ minute = 1
    /\ loaded = [k \in Keys |-> [name \in NameSet |-> 0]]
    /\ retyped = [name \in NameSet |-> 0]
    /\ records = 0 /\ schemaCount = 0 /\ deaths = 0

\* main: get_snowflake_statics reads the columns of every table of the schema;
\* an empty answer (there may be other tables) is as good as no cache.
Start ==
    /\ pc = "down"
    /\ pc' = "read"
    /\ \E others \in BOOLEAN :
         table_cache' = IF Target = "snowflake" /\ ~disable_table_cache /\ (others \/ exists)
                        THEN get_table_columns ELSE NoCache
    /\ schema' = NoSchema /\ alters' = << >>
    /\ UNCHANGED <<tableVars, minute, historyVars, schemaCount, deaths>>

\* A SCHEMA.  target-snowflake ignores one that says what the last one did.
\* The DbSync it makes is given the table_cache of the start of the process,
\* whatever the DbSync of an earlier SCHEMA has refreshed for itself.
Schema(o) ==
    /\ pc = "read" /\ schemaCount < MaxSchemas
    /\ Target = "snowflake" => o # schema
    /\ schemaCount' = schemaCount + 1
    /\ schema' = o
    /\ retyped' = [name \in NameSet |->
                     IF o[name] # Absent /\ columns[Column(name)] # column_type(o[name])
                     THEN records ELSE retyped[name]]
    /\ alters' = sync_table(o)
    /\ pc' = IF alters' = << >> THEN "read" ELSE "alter"
    /\ UNCHANGED <<tableVars, table_cache, minute, loaded, records, deaths>>

Ran ==
    /\ alters' = Tail(alters)
    /\ pc' = IF alters' = << >> THEN "read" ELSE "alter"
    /\ UNCHANGED <<table_cache, schema, minute, historyVars, schemaCount, deaths>>

\* The database refuses the statement: the target fails.
Refused ==
    /\ pc' = "down" /\ alters' = << >>
    /\ UNCHANGED <<tableVars, table_cache, schema, minute, historyVars, schemaCount, deaths>>

Doing(op) == pc = "alter" /\ alters[1].op = op

create_table ==
    /\ Doing("create")
    /\ exists' = TRUE
    /\ columns' = IF exists THEN columns
                  ELSE [c \in Columns |-> IF c.at = 0 /\ c.name \in InSchema(schema)
                                          THEN column_type(schema[c.name]) ELSE Absent]
    /\ Ran /\ UNCHANGED cells

add_column ==
    /\ Doing("add")
    /\ LET column == Column(alters[1].name)
       IN  IF columns[column] # Absent THEN Refused
           ELSE /\ columns' = [columns EXCEPT ![column] = alters[1].type]
                /\ Ran /\ UNCHANGED <<exists, cells>>

\* The column and its values under their new name.
Renamed(f, old, new, none) == [f EXCEPT ![new] = f[old], ![old] = none]

\* Mutant: the column of another type is dropped.
drop_column ==
    /\ Doing("version")
    /\ columns' = [columns EXCEPT ![Column(alters[1].name)] = Absent]
    /\ cells' = [k \in Keys |-> [cells[k] EXCEPT ![Column(alters[1].name)] = 0]]
    /\ Ran /\ UNCHANGED exists

\* ALTER TABLE ... RENAME COLUMN: a version of this minute is in the way.
version_column ==
    /\ Doing("version")
    /\ LET old == Column(alters[1].name)
           new == [old EXCEPT !.at = minute]
       IN  IF columns[old] = Absent \/ columns[new] # Absent THEN Refused
           ELSE /\ columns' = Renamed(columns, old, new, Absent)
                /\ cells' = [k \in Keys |-> Renamed(cells[k], old, new, 0)]
                /\ Ran /\ UNCHANGED exists

\* A record of the row is merged.  It has a value or null for each name of the
\* schema; a column that is not there, or a value its column can not hold, fails.
LoadRecord(k, values) ==
    /\ pc = "read" /\ schema # NoSchema /\ records < MaxRecords
    /\ values # {} /\ values \subseteq InSchema(schema)
    /\ \A name \in InSchema(schema) : columns[Column(name)] # Absent
    /\ records' = records + 1
    /\ cells' = [cells EXCEPT ![k] = [c \in Columns |->
                    IF c.at # 0 \/ c.name \notin InSchema(schema) THEN cells[k][c]
                    ELSE IF c.name \in values THEN records + 1 ELSE 0]]
    /\ loaded' = [loaded EXCEPT ![k] = [name \in NameSet |->
                    IF name \notin InSchema(schema) THEN loaded[k][name]
                    ELSE IF name \in values THEN records + 1 ELSE 0]]
    /\ UNCHANGED <<exists, columns, table_cache, schema, alters, pc, minute, retyped,
                   schemaCount, deaths>>

\* The process ends, fails to load or dies; a statement that ran is committed.
Die ==
    /\ pc # "down" /\ deaths < MaxDeaths
    /\ deaths' = deaths + 1
    /\ pc' = "down" /\ alters' = << >>
    /\ UNCHANGED <<tableVars, table_cache, schema, minute, historyVars, schemaCount>>

Tick ==
    /\ minute < MaxMinutes
    /\ minute' = minute + 1
    /\ UNCHANGED <<tableVars, table_cache, schema, alters, pc, historyVars, schemaCount, deaths>>

Next ==
    \/ Start
    \/ \E o \in [NameSet -> Properties \cup {Absent}] : o # NoSchema /\ Schema(o)
    \/ create_table \/ add_column \/ version_column
    \/ \E k \in Keys, values \in SUBSET NameSet : LoadRecord(k, values)
    \/ Die \/ Tick

Spec == Init /\ [][Next]_columnVars

-----------------------------------------------------------------------------
(* Properties                                                              *)

\* The last value loaded for a property is in the column of its name or in a
\* version of it, wherever the process died between two statements and
\* however often a type changed within a minute.
ValuesAreKept ==
    \A k \in Keys, name \in NameSet : loaded[k][name] # 0 =>
        \E c \in Columns : c.name = name /\ cells[k][c] = loaded[k][name]

\* It is in the column of its name as long as no SCHEMA has asked for a type
\* the column does not have.  With a table_cache this can not be said: a
\* second SCHEMA is compared with the columns the process began with.
ValuesStayInTheirColumn ==
    \A k \in Keys, name \in NameSet : loaded[k][name] > retyped[name] =>
        cells[k][Column(name)] = loaded[k][name]

\* What a target has loaded stays where a query finds it (update_columns).
LoadedValuesAreFound ==
    ValuesAreKept /\ (Target = "postgres" \/ disable_table_cache => ValuesStayInTheirColumn)
=============================================================================
