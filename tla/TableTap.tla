------------------------------ MODULE TableTap ------------------------------
(***************************************************************************)
(* What the database taps have in common when they read a table with       *)
(* SELECT: the table, the process that copies it row by row and dies, and  *)
(* the replication method that may change between two runs.                *)
(*                                                                         *)
(* The rows a transaction changes get the next position of the log of the  *)
(* database as their version and the present time as their replication     *)
(* key, which other transactions may share.  A SELECT reads a snapshot.    *)
(***************************************************************************)
EXTENDS Naturals, Sequences, FiniteSets, SingerPipe

CONSTANTS
    MaxKey,                \* primary keys are 1..MaxKey
    StatePeriod,           \* rows between two STATEs, 1000 in the code
    MaxChanges, MaxTime, MaxSwitches, MaxDeaths      \* bounds of the model

VARIABLES
    history,      \* all changes: [key, ver, rk]
    clock,        \* number of transactions, the position of the log
    time,         \* value of the replication key of a change made now
    method,       \* replication-method of the stream
    switches, deaths,
    pc,           \* "idle", "begin", "query", "fetch" or "end"
    state,        \* the bookmark of the stream in the memory of the tap
    result,       \* rows of the SELECT yet to be fetched
    rows_saved,
    due,          \* rows a full copy has to deliver, interrupted or not
    copied        \* the bookmark of a complete copy was saved under this method

table == <<history, clock, time, method, switches>>
tableTapVars == <<table, deaths, pc, state, result, rows_saved, due, copied, pipe>>

PrimaryKeys == 1..MaxKey
Batches == SUBSET PrimaryKeys \ {{}}
Methods == {"LOG_BASED", "INCREMENTAL", "FULL_TABLE"}

LargestOf(S)  == CHOOSE n \in S : \A m \in S : m <= n
VersionsOf(k) == {c \in history : c.key = k}
Rows == {c \in history : \A d \in VersionsOf(c.key) : d.ver <= c.ver}
MaxPk == IF history = {} THEN 0 ELSE LargestOf({c.key : c \in history})

TableInit(EmptyState) ==
    /\ history = {} /\ clock = 0 /\ time = 1
    /\ switches = 0 /\ deaths = 0
    /\ pc = "idle"
    /\ state = EmptyState
    /\ result = << >> /\ rows_saved = 0 /\ due = {} /\ copied = FALSE
    /\ emitted = {} /\ loaded = {} /\ saved = EmptyState

-----------------------------------------------------------------------------
(* The source table and the configuration                                  *)

\* A transaction inserts or updates the rows of the keys K.
Change(K) ==
    /\ clock < MaxChanges
    /\ clock' = clock + 1
    /\ history' = history \cup {[key |-> k, ver |-> clock + 1, rk |-> time] : k \in K}
    /\ UNCHANGED <<time, method, switches, deaths, pc, state, result, rows_saved, due, copied, pipe>>

Tick ==
    /\ time < MaxTime
    /\ time' = time + 1
    /\ UNCHANGED <<history, clock, method, switches, deaths, pc, state, result,
                   rows_saved, due, copied, pipe>>

SwitchMethod(m) ==
    /\ pc = "idle" /\ m # method
    /\ switches < MaxSwitches
    /\ method' = m /\ switches' = switches + 1
    /\ copied' = FALSE
    /\ UNCHANGED <<history, clock, time, deaths, pc, state, result, rows_saved, due, pipe>>

-----------------------------------------------------------------------------
(* The copy of a table                                                     *)

\* The rows of R in the order of By.
Ordered(R, By(_)) == {q \in [1..Cardinality(R) -> R] :
                        /\ \A i, j \in DOMAIN q : i # j => q[i] # q[j]
                        /\ \A i, j \in DOMAIN q : i < j => By(q[i]) <= By(q[j])}
Anyhow(c) == 0
ByKey(c)  == c.key
ByRk(c)   == c.rk

\* A SELECT by a tap that goes on with bookmark st.
Execute(st, rows, resumed) ==
    /\ pc = "query"
    /\ state' = st
    /\ result' = rows
    /\ rows_saved' = 0
    /\ due' = IF method = "INCREMENTAL" THEN {} ELSE IF resumed THEN due ELSE Rows
    /\ pc' = "fetch"
    /\ UNCHANGED <<table, deaths, copied>>

\* A row is written, the bookmark follows it, now and then in a STATE.
Fetch(AfterRow(_, _)) ==
    /\ pc = "fetch" /\ result # << >>
    /\ state' = AfterRow(state, Head(result))
    /\ IF (rows_saved + 1) % StatePeriod = 0
       THEN RecordsAndState({Head(result)}, state')
       ELSE Records({Head(result)})
    /\ result' = Tail(result)
    /\ rows_saved' = rows_saved + 1
    /\ UNCHANGED <<table, deaths, pc, due, copied>>

\* The process is gone, and its variables with it.
Exit == pc' = "idle" /\ state' = saved' /\ result' = << >> /\ rows_saved' = 0

\* The stream ends with the bookmark st in a STATE.
End(st) ==
    /\ pc = "end"
    /\ RecordsAndLastState({}, st)
    /\ Exit
    /\ copied' = TRUE
    /\ UNCHANGED <<table, deaths, due>>

\* The changes of the log R are read, up to its end: see the modules of the
\* log based replication.
ReadLog(R, st) ==
    /\ pc = "idle" /\ method = "LOG_BASED"
    /\ R # {}
    /\ RecordsAndLastState(R, st)
    /\ state' = st
    /\ UNCHANGED <<table, deaths, pc, result, rows_saved, due, copied>>

Die ==
    /\ pc # "idle"
    /\ deaths < MaxDeaths
    /\ deaths' = deaths + 1
    /\ Lost /\ Exit
    /\ UNCHANGED <<table, due, copied>>

-----------------------------------------------------------------------------
(* What the taps promise                                                   *)

\* The warehouse holds the change or a later one of the same row.
Reached(c) == \E d \in loaded : d.key = c.key /\ d.ver >= c.ver
Current(c) == CHOOSE r \in Rows : r.key = c.key

\* Changes neither loaded, nor read by the SELECT nor by the log reader of a
\* run that starts from the saved state.  A FULL_TABLE stream owes the rows
\* that were there when its copy began, the others owe every change.
SkippedChanges(Selects(_, _), Logged(_, _)) ==
    {c \in IF method = "FULL_TABLE" THEN due ELSE history :
        /\ ~Reached(c)
        /\ ~Selects(saved, Current(c))
        /\ ~Logged(saved, c)}
=============================================================================
