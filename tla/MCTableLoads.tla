---------------------------- MODULE MCTableLoads ----------------------------
(* Small instances for TLC of the commands that load a tap (TapRun) and of a *)
(* table that fastsync, partialsync and the singer tap load (TableLoads),    *)
(* one of the two at a time; the other stays at one of its initial states.   *)
EXTENDS TapRun, TableLoads, TLC

VARIABLE part

NoCommands == Init /\ bookmarks = {}
NoLoads    == InitTable /\ settings = [tap |-> "mysql", target |-> "snowflake", method |-> "LOG_BASED",
                                       hard_delete |-> TRUE, replica |-> FALSE] /\ saved = None

\* A replica, a target-postgres and an INCREMENTAL table change nothing about how
\* rows are deleted; a replica is ahead of its rows with the position of a log.
SmallSettings == /\ settings.replica => settings.hard_delete /\ settings.method = "LOG_BASED"
                 /\ settings.method = "INCREMENTAL" => settings.hard_delete
                 /\ settings.target = "postgres" => settings.hard_delete /\ ~settings.replica

InitAll == \/ part = "load" /\ InitTable /\ SmallSettings /\ NoCommands
           \/ part = "commands" /\ Init /\ NoLoads

NextAll == \/ part = "load" /\ NextTable /\ UNCHANGED <<part, tapRunVars>>
           \/ part = "commands" /\ Next /\ UNCHANGED <<part, vars>>

SpecAll == InitAll /\ [][NextAll]_<<part, vars, tapRunVars>>

Symmetric == Permutations(Procs)
=============================================================================
