---------------------------- MODULE RunTapSinger ----------------------------
(***************************************************************************)
(* run_tap_singer: PipelineWise runs `tap | transform | target` in a       *)
(* subprocess, reads its output line by line and keeps the last state      *)
(* message in the state file of the tap, from which the next run starts.   *)
(*                                                                         *)
(* The file is truncated and then written, at most every two seconds while *)
(* the pipeline runs and once more when it succeeded.  run_command stops   *)
(* reading as soon as it sees that the subprocess has exited.              *)
(*                                                                         *)
(* A position is the number of records of the source a state covers.  The  *)
(* pipeline is the environment: it loads in order from the position the    *)
(* run started at, and prints positions that are loaded and do not go back *)
(* (TargetPostgres: EmittedStateIsLoaded, EmittedNeverGoesBack).  Its log  *)
(* lines come through the same pipe, standard error included, and may hold *)
(* the position the tap has reached.                                       *)
(***************************************************************************)
EXTENDS Integers, Sequences

CONSTANTS
    NoState,      \* `state` before the first state message
    Truncated,    \* content of the state file between open and write
    Overlap,      \* run_tap is also started while another run is at work
    PipeSize,     \* lines the stdout pipe holds
    MaxRecords,   \* bound of the model: records of the source
    MaxCrashes    \* bound of the model: PipelineWise processes killed

ASSUME NoStateAssumption   == NoState \notin Nat
ASSUME TruncatedAssumption == Truncated \notin Nat
ASSUME OverlapAssumption   == Overlap \in BOOLEAN
ASSUME PipeAssumption      == PipeSize \in Nat \ {0}
ASSUME BoundsAssumption    == MaxRecords \in Nat /\ MaxCrashes \in Nat

VARIABLES
    source,      \* records the source holds
    loaded,      \* records in the warehouse
    state_file,  \* the position in the tap's state file
    backup,      \* the position in its .bak copy
    starting,    \* what a run_tap without the pidfile is about to do
    pc,          \* where the run_tap_singer that has the pidfile is
    state,       \* the last state message it has read
    written,     \* `start` is set: a state was written in this run
    proc,        \* the subprocess: "running" or how it exited
    position,    \* records the pipeline of this run is done with
    emitted,     \* the last position it printed
    stdout,      \* lines it printed that were not read yet
    crashes

run      == <<pc, state, written>>
pipeline == <<proc, position, emitted, stdout>>
files    == <<state_file, backup>>
vars     == <<source, loaded, files, starting, run, pipeline, crashes>>

Larger(m, n) == IF m >= n THEN m ELSE n

StateLine(n) == [bookmarks |-> TRUE, position |-> n]
LogLine(n)   == [bookmarks |-> FALSE, position |-> n]

Init ==
    /\ source = 0
    /\ loaded = 0
    /\ state_file = 0
    /\ backup = 0
    /\ starting = "no"
    /\ pc = "idle"
    /\ state = NoState
    /\ written = FALSE
    /\ proc = "ok"
    /\ position = 0
    /\ emitted = 0
    /\ stdout = << >>
    /\ crashes = 0

-----------------------------------------------------------------------------
(* The source and the pipeline                                             *)

Produce ==
    /\ source < MaxRecords
    /\ source' = source + 1
    /\ UNCHANGED <<loaded, files, starting, run, pipeline, crashes>>

\* The target loads the next records of the tap.
Load ==
    /\ proc = "running"
    /\ position' \in (position + 1)..source
    /\ loaded' = Larger(loaded, position')
    /\ UNCHANGED <<source, files, starting, run, proc, emitted, stdout, crashes>>

\* The target prints a state.
PrintState ==
    /\ proc = "running"
    /\ Len(stdout) < PipeSize
    /\ emitted' \in emitted..position
    /\ stdout' = Append(stdout, StateLine(emitted'))
    /\ UNCHANGED <<source, loaded, files, starting, run, proc, position, crashes>>

\* The tap or the target logs something.
PrintLog ==
    /\ proc = "running"
    /\ Len(stdout) < PipeSize
    /\ \E n \in position..source : stdout' = Append(stdout, LogLine(n))
    /\ UNCHANGED <<source, loaded, files, starting, run, proc, position, emitted, crashes>>

\* The pipeline ends; with pipefail it fails if one of its parts does.
ExitPipeline ==
    /\ proc = "running"
    /\ proc' \in {"ok", "failed"}
    /\ UNCHANGED <<source, loaded, files, starting, run, position, emitted, stdout, crashes>>

-----------------------------------------------------------------------------
(* run_tap: what comes before the pipeline                                 *)

Starts(from, to) == starting = from /\ starting' = to

\* Mutant: a file that does not parse is taken for an empty state.
ParsesAnything == TRUE

\* create_filtered_tap_properties parses the state file to choose the tables;
\* if it does not parse the run fails there.
Parses == state_file # Truncated

ParseState ==
    /\ Overlap \/ pc = "idle"
    /\ Parses
    /\ Starts("no", "open_copy")
    /\ UNCHANGED <<source, loaded, files, run, pipeline, crashes>>

\* create_backup_of_the_file: the copy is truncated, then written.
OpenCopy ==
    /\ Starts("open_copy", "write_copy")
    /\ backup' = Truncated
    /\ UNCHANGED <<source, loaded, state_file, run, pipeline, crashes>>

WriteCopy ==
    /\ Starts("write_copy", "pidfile")
    /\ backup' = state_file
    /\ UNCHANGED <<source, loaded, state_file, run, pipeline, crashes>>

\* Only now the pidfile is looked at: the command ends if another run has it.
\* Otherwise the pipeline starts, and fails if it can not read its state.
StartRun ==
    /\ Starts("pidfile", "no")
    /\ IF pc # "idle" \/ state_file = Truncated
       THEN UNCHANGED <<run, pipeline>>
       ELSE /\ pc' = "read"
            /\ state' = NoState
            /\ written' = FALSE
            /\ proc' = "running"
            /\ position' = state_file
            /\ emitted' = state_file
            /\ stdout' = << >>
    /\ UNCHANGED <<source, loaded, files, crashes>>

-----------------------------------------------------------------------------
(* run_command and its callback update_state_file                          *)

\* Mutant: every line with a position in it is taken for a state message.
IsAnyLine(line) == TRUE

\* is_state_message: the line is JSON with bookmarks.
IsState(line) == line.bookmarks

\* readline and the callback.  The first state is written at once, a later
\* one if two seconds have passed; "save" is the file between open and write.
ReadLine ==
    /\ pc = "read"
    /\ stdout # << >>
    /\ stdout' = Tail(stdout)
    /\ IF ~IsState(Head(stdout))
       THEN /\ pc' = "poll"
            /\ UNCHANGED <<state, written, state_file>>
       ELSE /\ state' = Head(stdout).position
            /\ \/ /\ written
                  /\ pc' = "poll"
                  /\ UNCHANGED <<written, state_file>>
               \/ /\ pc' = "save"
                  /\ written' = TRUE
                  /\ state_file' = Truncated
    /\ UNCHANGED <<source, loaded, backup, starting, proc, position, emitted, crashes>>

\* readline at the end of the output, which the subprocess closes by exiting.
ReadEnd ==
    /\ pc = "read"
    /\ stdout = << >>
    /\ proc # "running"
    /\ pc' = "poll"
    /\ UNCHANGED <<source, loaded, files, starting, state, written, pipeline, crashes>>

Save ==
    /\ pc = "save"
    /\ state_file' = state
    /\ pc' = "poll"
    /\ UNCHANGED <<source, loaded, backup, starting, state, written, pipeline, crashes>>

\* Mutant: the last state is written whether or not there is one.
LastUnchecked == "last"

\* After a success the state file is written again if there was a state.
AfterSuccess == IF state = NoState THEN "done" ELSE "last"

\* After every line: has the subprocess exited?  If so the loop ends, whatever
\* is left in the pipe.
Poll ==
    /\ pc = "poll"
    /\ pc' = CASE proc = "running" -> "read"
               [] proc = "failed" -> "idle"
               [] proc = "ok" -> AfterSuccess
    /\ UNCHANGED <<source, loaded, files, starting, state, written, pipeline, crashes>>

\* "update the state file one last time": open, then write.
OpenLast ==
    /\ pc = "last"
    /\ pc' = "save_last"
    /\ state_file' = Truncated
    /\ UNCHANGED <<source, loaded, backup, starting, state, written, pipeline, crashes>>

SaveLast ==
    /\ pc = "save_last"
    /\ state_file' = state
    /\ pc' = "done"
    /\ UNCHANGED <<source, loaded, backup, starting, state, written, pipeline, crashes>>

\* The successful run is over.
EndRun ==
    /\ pc = "done"
    /\ pc' = "idle"
    /\ UNCHANGED <<source, loaded, files, starting, state, written, pipeline, crashes>>

\* PipelineWise and its subprocess are killed.
Crash ==
    /\ pc # "idle" \/ starting # "no"
    /\ crashes < MaxCrashes
    /\ crashes' = crashes + 1
    /\ starting' = "no"
    /\ pc' = "idle"
    /\ proc' = IF proc = "running" THEN "failed" ELSE proc
    /\ UNCHANGED <<source, loaded, files, state, written, position, emitted, stdout>>

Next ==
    \/ Produce \/ Load \/ PrintState \/ PrintLog \/ ExitPipeline
    \/ ParseState \/ OpenCopy \/ WriteCopy \/ StartRun
    \/ ReadLine \/ ReadEnd \/ Save \/ Poll
    \/ OpenLast \/ SaveLast \/ EndRun
    \/ Crash

Spec == Init /\ [][Next]_vars

\* The scheduler starts a run again and again, PipelineWise does its steps, the
\* pipeline ends, and not every run is cut short before it reaches new records.
Fairness ==
    /\ WF_vars(ParseState)
    /\ WF_vars(OpenCopy \/ WriteCopy \/ StartRun)
    /\ WF_vars(ReadLine \/ ReadEnd \/ Save \/ Poll \/ OpenLast \/ SaveLast \/ EndRun)
    /\ WF_vars(ExitPipeline)
    /\ SF_vars(Load /\ loaded' > loaded)

FairSpec == Spec /\ Fairness

-----------------------------------------------------------------------------
(* Properties                                                              *)

Line == [bookmarks : BOOLEAN, position : Nat]

\* Type invariant of the files, the run and its pipeline: a run that is about
\* to write a state has one.
TypeOK ==
    /\ source \in Nat /\ loaded \in Nat /\ crashes \in Nat
    /\ position \in Nat /\ emitted \in Nat
    /\ state_file \in Nat \cup {Truncated}
    /\ backup \in Nat \cup {Truncated}
    /\ starting \in {"no", "open_copy", "write_copy", "pidfile"}
    /\ pc \in {"idle", "read", "save", "poll", "last", "save_last", "done"}
    /\ state \in Nat \cup {NoState}
    /\ pc \in {"save", "last", "save_last"} => state # NoState
    /\ written \in BOOLEAN
    /\ proc \in {"running", "ok", "failed"}
    /\ stdout \in Seq(Line)
    /\ Len(stdout) <= PipeSize

\* The position a run can start from: the state file or, when a crash left it
\* truncated, the copy in .bak.
RestartPoint == IF state_file = Truncated THEN backup ELSE state_file

\* Whatever was killed and whenever, there is a restart point, it skips no
\* record that is not in the warehouse, and it is not behind the one the last
\* run started from.
RestartPointIsSafe ==
    /\ RestartPoint # Truncated
    /\ RestartPoint <= loaded
    /\ backup # Truncated => backup <= RestartPoint

\* create_backup_of_the_file has made a backup when the run goes on: the copy
\* holds a state.  True of runs that do not overlap, see FilesInv; checked by no
\* run, for it is not true of a second run that the pidfile is going to refuse.
BackupHoldsAState == starting = "pidfile" => backup # Truncated

\* run_tap_singer implements the promise of AtLeastOnce.
Promise == INSTANCE AtLeastOnce WITH checkpoint <- RestartPoint
ImplementsAtLeastOnce == Promise!Spec

\* Every record reaches the warehouse, unless a crash truncates the state file:
\* then no run starts until somebody restores it.
EveryRecordIsLoaded ==
    \A n \in 1..MaxRecords :
        (source >= n) ~> \/ loaded >= n
                         \/ (state_file = Truncated /\ pc = "idle")

-----------------------------------------------------------------------------
(* The inductive invariant behind RestartPointIsSafe, for runs that do not *)
(* overlap                                                                 *)

\* What the pipeline prints is loaded, and so is the state kept of it.
PipelineInv ==
    /\ loaded <= source
    /\ position <= loaded
    /\ emitted <= position
    /\ \A i \in 1..Len(stdout) : stdout[i].bookmarks => stdout[i].position <= emitted
    /\ state # NoState => state <= emitted

\* Each of the two files is loaded, and one of them is readable.
FilesInv ==
    /\ state_file # Truncated => state_file <= loaded
    /\ backup # Truncated => backup <= loaded
    /\ state_file = Truncated => backup # Truncated /\ starting = "no"
    /\ state_file # Truncated /\ backup # Truncated => backup <= state_file
    /\ starting # "no" => pc = "idle"
    /\ starting = "pidfile" => backup # Truncated

\* A run writes nothing that is behind the copy made before it.
RunInv ==
    pc # "idle" =>
        /\ backup # Truncated
        /\ backup <= emitted
        /\ \A i \in 1..Len(stdout) : stdout[i].bookmarks => backup <= stdout[i].position
        /\ state # NoState => backup <= state

IInv == PipelineInv /\ FilesInv /\ RunInv
=============================================================================
