------------------------------- MODULE TapRun -------------------------------
(***************************************************************************)
(* The commands of PipelineWise that work on one tap: run_tap,             *)
(* sync_tables, stop_tap and reset_state, each a process of its own, all   *)
(* on the same pidfile and state file.  run_tap chooses the tables for     *)
(* fastsync and for the singer tap from the bookmarks of the state file,   *)
(* takes the pidfile, syncs the first with do_sync_tables (SyncTables) and *)
(* then runs the singer pipeline (RunTapSinger) for the others.            *)
(*                                                                         *)
(* The pidfile library (external) finds a live process in the file or goes *)
(* on to write its own, and removes the file at the end of the block.      *)
(* stop_tap is the handler of SIGTERM and SIGINT too, in every command and *)
(* in the processes that do_sync_tables forks.                             *)
(***************************************************************************)
EXTENDS Naturals, FiniteSets

CONSTANTS
    Procs,         \* processes of PipelineWise commands
    NoProc,        \* no pidfile
    DeadProc,      \* a pidfile left by a process that is gone
    SelectedTables,\* the tables selected in the properties of the tap
    FullTables,    \* those with replication method FULL_TABLE
    PartialTables, \* those with sync_start_from
    DashedTables,  \* those with a dash in the name of schema or table
    MaxCommands    \* bound of the model

ASSUME PidsAssumption == NoProc \notin Procs /\ DeadProc \notin Procs

VARIABLES
    proc,       \* per process, [cmd, pc, fast, singer]
    orphan,     \* processes whose children work on without them
    pidfile,
    bookmarks,  \* tables with a valid bookmark in the state file
    read,       \* per process, what reset_state has read
    commands,   \* how many were started
    faults      \* history: what may have brought two runs together

tapRunVars == <<proc, orphan, pidfile, bookmarks, read, commands, faults>>

Idle == [cmd |-> "none", pc |-> "idle", fast |-> {}, singer |-> {}]
WithChildren == {"children", "terminating", "singer"}
Loading == WithChildren \cup {"sync"}
Working(p) == proc[p].pc \in Loading \/ p \in orphan

Init ==
    /\ proc = [p \in Procs |-> Idle] /\ orphan = {}
    /\ pidfile = NoProc
    /\ bookmarks \in SUBSET (SelectedTables \ FullTables)
    /\ read = [p \in Procs |-> {}]
    /\ commands = 0 /\ faults = {}

\* _is_initial_sync_required
InitialSyncRequired(t) == t \in FullTables \/ t \notin bookmarks

\* create_filtered_tap_properties: a new table is in both lists.
ChosenForFastsync == {t \in SelectedTables : InitialSyncRequired(t)}
ChosenForSinger   == SelectedTables \ FullTables

Starts(p, cmd, at, fast, singer) ==
    /\ proc[p].pc = "idle" /\ p \notin orphan
    /\ commands < MaxCommands
    /\ commands' = commands + 1
    /\ proc' = [proc EXCEPT ![p] = [cmd |-> cmd, pc |-> at, fast |-> fast, singer |-> singer]]
    /\ UNCHANGED <<orphan, pidfile, bookmarks, faults>>

Goes(p, at) == proc' = [proc EXCEPT ![p].pc = at]
Ends(p)     == proc' = [proc EXCEPT ![p] = Idle]

\* The pidfile of another process is about to be removed.
Removed(p) == IF pidfile \in Procs \ {p} THEN {"removed"} ELSE {}

-----------------------------------------------------------------------------
(* run_tap and sync_tables                                                 *)

run_tap(p) == Starts(p, "run_tap", "check", ChosenForFastsync, ChosenForSinger) /\ UNCHANGED read

sync_tables(p, tables) == Starts(p, "sync_tables", "check", tables, {}) /\ UNCHANGED read

\* Mutant: a pidfile is never taken for a live one.
NobodyRuns == FALSE

AlreadyRunning == pidfile \notin {NoProc, DeadProc}

\* PIDFile.__enter__ : AlreadyRunningError or go on.
CheckPidfile(p) ==
    /\ proc[p].pc = "check"
    /\ IF AlreadyRunning THEN Ends(p) ELSE Goes(p, "write")
    /\ faults' = faults \cup (IF \E q \in Procs : proc[q].pc = "write"
                             THEN {"checked at the same time"} ELSE {})
    /\ UNCHANGED <<orphan, pidfile, bookmarks, read, commands>>

WritePidfile(p) ==
    /\ proc[p].pc = "write"
    /\ pidfile' = p
    /\ Goes(p, IF proc[p].fast # {} THEN "sync" ELSE "singer")
    /\ faults' = faults
          \cup (IF proc[p].cmd = "run_tap" /\ proc[p].fast # ChosenForFastsync
                THEN {"chosen before"} ELSE {})
    /\ UNCHANGED <<orphan, bookmarks, read, commands>>

\* do_sync_tables makes names of the stream ids of run_tap, with all dashes
\* replaced, and finds them in the selection, with the first dash replaced.
FoundInSelection(p) ==
    IF proc[p].cmd = "run_tap" THEN proc[p].fast \ DashedTables ELSE proc[p].fast

\* ... forgets the bookmarks of the tables to sync partially and starts its children.
DoSyncTables(p) ==
    /\ proc[p].pc = "sync"
    /\ Goes(p, "children")
    /\ bookmarks' = bookmarks \ (FoundInSelection(p) \cap PartialTables)
    /\ UNCHANGED <<orphan, pidfile, read, commands, faults>>

\* A worker is through with a table.
SyncsTable(p, t) ==
    /\ proc[p].pc \in {"children", "terminating"} \/ p \in orphan
    /\ t \in FoundInSelection(p) \ bookmarks
    /\ bookmarks' = bookmarks \cup {t}
    /\ UNCHANGED <<proc, orphan, pidfile, read, commands, faults>>

\* Mutant: all tables chosen for singer, synced or not.
AllOfSinger(p) == proc[p].singer

\* Without not_partial_syned_tables.
SingerTables(p) == IF proc[p].fast = {} THEN proc[p].singer ELSE proc[p].singer \cap bookmarks

\* All children are joined: the tables for singer that have a bookmark.
ChildrenJoined(p) ==
    /\ proc[p].pc = "children"
    /\ FoundInSelection(p) \subseteq bookmarks
    /\ proc' = [proc EXCEPT ![p].pc = "singer", ![p].singer = SingerTables(p)]
    /\ UNCHANGED <<orphan, pidfile, bookmarks, read, commands, faults>>

\* PIDFile.__exit__ removes the file, whosever it is.
Leaves(p) == pidfile' = NoProc

\* The partialsync and the fastsync process are both at work.
TwoChildren(p) == FoundInSelection(p) \cap PartialTables # {} /\ ~FoundInSelection(p) \subseteq PartialTables

\* The partialsync process has failed: do_sync_tables raises, and does not join
\* the fastsync process.  If that one fails, all are through.
ChildFails(p) ==
    /\ proc[p].pc \in {"children", "terminating"}
    /\ \/ /\ TwoChildren(p)
          /\ proc' = [proc EXCEPT ![p].pc = "left", ![p].fast = @ \ PartialTables]
          /\ orphan' = orphan \cup {p}
          /\ faults' = faults \cup Removed(p) \cup {"left"}
       \/ Ends(p) /\ faults' = faults \cup Removed(p) /\ UNCHANGED orphan
    /\ Leaves(p)
    /\ UNCHANGED <<bookmarks, read, commands>>

\* The children have ended: a parent that lives joins them before it exits.
OrphanEnds(p) ==
    /\ p \in orphan
    /\ orphan' = orphan \ {p}
    /\ IF proc[p].pc = "exiting" THEN UNCHANGED proc ELSE Ends(p)
    /\ UNCHANGED <<pidfile, bookmarks, read, commands, faults>>

\* The singer pipeline, or the command, has ended, with success or not.
Finish(p) ==
    /\ proc[p].pc = "singer"
    /\ Ends(p) /\ Leaves(p)
    /\ faults' = faults \cup Removed(p)
    /\ UNCHANGED <<orphan, bookmarks, read, commands>>

-----------------------------------------------------------------------------
(* stop_tap, as a signal handler and as a command                          *)

\* SIGTERM or SIGINT, to a command at any place or to a child of it.  With a
\* pidfile, whosever it is, the children are terminated and the file goes: of
\* two children the first removes it, by the same handler, while the other works.
Signal(p) ==
    /\ proc[p].pc # "idle" /\ pidfile # NoProc
    /\ pidfile' = NoProc /\ orphan' = orphan \ {p}
    /\ LET first == proc[p].pc = "children" /\ TwoChildren(p)
       IN  /\ \/ first /\ Goes(p, "terminating")
              \/ ~first /\ proc[p].pc \in Loading \cup {"exiting"} /\ Goes(p, "exiting")
              \/ proc[p].pc \notin Loading \cup {"exiting"} /\ Ends(p)
           /\ faults' = faults \cup Removed(p) \cup (IF first THEN {"removed"} ELSE {})
    /\ read' = [read EXCEPT ![p] = {}]
    /\ UNCHANGED <<bookmarks, commands>>

\* ... and then the other child.
Terminates(p) ==
    /\ proc[p].pc = "terminating"
    /\ Goes(p, "exiting")
    /\ UNCHANGED <<orphan, pidfile, bookmarks, read, commands, faults>>

\* Without a pidfile the handler exits at once, and no child is terminated.
SignalWithoutPidfile(p) ==
    /\ pidfile = NoProc
    /\ proc[p].pc \notin {"idle", "left", "exiting"}
    /\ IF proc[p].pc \in Loading
       THEN proc' = [proc EXCEPT ![p].pc = "exiting", ![p].fast = IF proc[p].pc = "singer" THEN {} ELSE @]
       ELSE Ends(p)
    /\ IF proc[p].pc \in WithChildren
       THEN orphan' = orphan \cup {p} /\ faults' = faults \cup {"left"}
       ELSE UNCHANGED <<orphan, faults>>
    /\ read' = [read EXCEPT ![p] = {}]
    /\ UNCHANGED <<pidfile, bookmarks, commands>>

\* SystemExit leaves the block of the pidfile, before the children that were
\* left are through (do_sync_tables) or after (run_command).
Exits(p) ==
    /\ proc[p].pc = "exiting"
    /\ IF p \in orphan THEN Goes(p, "left") ELSE Ends(p)
    /\ Leaves(p)
    /\ faults' = faults \cup Removed(p)
    /\ UNCHANGED <<orphan, bookmarks, read, commands>>

\* The command looks for children of its own, and removes the pidfile.
stop_tap(p) ==
    /\ pidfile # NoProc
    /\ proc[p].pc = "idle" /\ p \notin orphan /\ commands < MaxCommands
    /\ commands' = commands + 1
    /\ proc' = [proc EXCEPT ![p] = [Idle EXCEPT !.cmd = "stop_tap", !.pc = "stopped"]]
    /\ pidfile' = NoProc
    /\ faults' = faults \cup Removed(p)
    /\ UNCHANGED <<orphan, bookmarks, read>>

StopEnds(p) ==
    /\ proc[p].pc = "stopped"
    /\ Ends(p)
    /\ UNCHANGED <<orphan, pidfile, bookmarks, read, commands, faults>>

-----------------------------------------------------------------------------
(* reset_state: reads the state file and writes it, without the pidfile    *)

reset_state(p) ==
    /\ Starts(p, "reset_state", "reset", {}, {})
    /\ read' = [read EXCEPT ![p] = bookmarks]

WritesState(p) ==
    /\ proc[p].pc = "reset"
    /\ Ends(p)
    /\ bookmarks' = read[p] /\ read' = [read EXCEPT ![p] = {}]
    /\ faults' = IF bookmarks' # bookmarks THEN faults \cup {"written back"} ELSE faults
    /\ UNCHANGED <<orphan, pidfile, commands>>

\* SIGKILL, or the memory of the host at its end: the process is gone, and its
\* children, which nobody tells, work on.
Killed(p) ==
    /\ proc[p].pc \notin {"idle", "left"}
    /\ IF proc[p].pc \in WithChildren \/ p \in orphan
       THEN /\ proc' = [proc EXCEPT ![p].pc = "left", ![p].fast = IF proc[p].pc = "singer" THEN {} ELSE @]
            /\ orphan' = orphan \cup {p} /\ faults' = faults \cup {"left"}
       ELSE Ends(p) /\ UNCHANGED <<orphan, faults>>
    /\ pidfile' = IF pidfile = p THEN DeadProc ELSE pidfile
    /\ read' = [read EXCEPT ![p] = {}]
    /\ UNCHANGED <<bookmarks, commands>>

\* The host goes down: all processes are gone, the files stay.
HostCrash ==
    /\ \E p \in Procs : proc[p] # Idle
    /\ proc' = [p \in Procs |-> Idle] /\ orphan' = {}
    /\ read' = [p \in Procs |-> {}]
    /\ pidfile' = IF pidfile \in Procs THEN DeadProc ELSE pidfile
    /\ UNCHANGED <<bookmarks, commands, faults>>

Next ==
    \/ \E p \in Procs :
          \/ run_tap(p) \/ CheckPidfile(p) \/ WritePidfile(p) \/ DoSyncTables(p)
          \/ ChildrenJoined(p) \/ ChildFails(p) \/ OrphanEnds(p) \/ Finish(p)
          \/ Signal(p) \/ Terminates(p) \/ SignalWithoutPidfile(p) \/ Exits(p) \/ Killed(p)
          \/ stop_tap(p) \/ StopEnds(p) \/ reset_state(p) \/ WritesState(p)
          \/ \E tables \in (SUBSET SelectedTables) \ {{}} : sync_tables(p, tables)
          \/ \E t \in SelectedTables : SyncsTable(p, t)
    \/ HostCrash

Spec == Init /\ [][Next]_tapRunVars

-----------------------------------------------------------------------------
(* Properties                                                              *)

\* Two commands load the tap at the same time in three cases alone: they looked
\* for the pidfile at the same time; it was removed while the process it names,
\* or a child of that one, was at work, by the stop_tap command, by the handler
\* of another command or of a first child, or at the end of a run that had lost
\* its own; or the children of a run were left at work by a parent that failed,
\* was killed or was signalled without a pidfile.  A pidfile of the dead, refused
\* commands, the deaths of a host and signals to a run with a pidfile of its own
\* and one child do not lead there (run_tap, sync_tables, stop_tap).
RunsAreExclusive ==
    faults \cap {"checked at the same time", "removed", "left"} = {} =>
        \A p, q \in Procs : Working(p) /\ Working(q) => p = q

\* The singer tap gets no table that was not loaded before, unless the tables
\* were chosen before another command changed the bookmarks or two commands
\* work at the same time (not_partial_syned_tables of run_tap).
SingerTablesAreSynced ==
    faults = {} =>
        \A p \in Procs : proc[p].pc = "singer" /\ proc[p].cmd = "run_tap" =>
            proc[p].singer \subseteq bookmarks

\* Checked by no run, and not true: when the singer tap is started every table
\* chosen for fastsync has been found by do_sync_tables.  One with a dash in
\* its name is looked for under another name (_get_fixed_name_of_table).
ChosenTablesAreSynced ==
    \A p \in Procs : proc[p].pc = "singer" => proc[p].fast \subseteq FoundInSelection(p)

\* stop_tap "finds the tap specific pidfile that was created by run_tap command
\* and sends a SIGTERM to the process": after it nothing of the tap runs.
StoppedTapIsNotRunning ==
    \A p, q \in Procs : proc[p].pc = "stopped" => ~Working(q)
=============================================================================
