------------------------- MODULE RunTapSingerProofs -------------------------
(***************************************************************************)
(* Proofs about RunTapSinger, for sources, pipes and numbers of crashes of *)
(* any size.                                                               *)
(***************************************************************************)
EXTENDS RunTapSinger, TLAPS

\* The parts of vars a handler leaves alone.
USE DEF run, pipeline, files

\* Every step keeps the types of the files, the run and the pipeline.
LEMMA TypePreserved == TypeOK /\ [Next]_vars => TypeOK'
<1> SUFFICES ASSUME TypeOK, [Next]_vars PROVE TypeOK'
  OBVIOUS
<1> USE NoStateAssumption, TruncatedAssumption, PipeAssumption, BoundsAssumption DEF TypeOK
<1>1. CASE Produce
  BY <1>1 DEF Produce
<1>2. CASE Load
  BY <1>2 DEF Load, Larger
<1>3. CASE PrintState
  <2>1. emitted' \in Nat /\ StateLine(emitted') \in Line
    BY <1>3 DEF PrintState, StateLine, Line
  <2>2. stdout' \in Seq(Line) /\ Len(stdout') <= PipeSize
    BY <1>3, <2>1 DEF PrintState
  <2>3. QED
    BY <1>3, <2>1, <2>2 DEF PrintState
<1>4. CASE PrintLog
  <2>1. PICK n \in position..source : stdout' = Append(stdout, LogLine(n))
    BY <1>4 DEF PrintLog
  <2>2. LogLine(n) \in Line
    BY DEF LogLine, Line
  <2>3. stdout' \in Seq(Line) /\ Len(stdout') <= PipeSize
    BY <1>4, <2>1, <2>2 DEF PrintLog
  <2>4. QED
    BY <1>4, <2>3 DEF PrintLog
<1>5. CASE ExitPipeline
  BY <1>5 DEF ExitPipeline
<1>6. CASE ParseState \/ OpenCopy \/ WriteCopy
  BY <1>6 DEF ParseState, OpenCopy, WriteCopy, Starts
<1>7. CASE StartRun
  <2>1. CASE pc # "idle" \/ state_file = Truncated
    BY <1>7, <2>1 DEF StartRun, Starts
  <2>2. CASE pc = "idle" /\ state_file # Truncated
    <3>1. << >> \in Seq(Line) /\ Len(<< >>) <= PipeSize
      OBVIOUS
    <3>2. state_file \in Nat
      BY <2>2
    <3>3. /\ pc' = "read" /\ state' = NoState /\ written' = FALSE /\ proc' = "running"
          /\ position' = state_file /\ emitted' = state_file /\ stdout' = << >>
          /\ starting' = "no" /\ UNCHANGED <<source, loaded, state_file, backup, crashes>>
      BY <1>7, <2>2 DEF StartRun, Starts
    <3>4. QED
      BY <3>1, <3>2, <3>3
  <2>3. QED
    BY <2>1, <2>2
<1>8. CASE ReadLine
  <2>1. Head(stdout) \in Line /\ Tail(stdout) \in Seq(Line) /\ Len(Tail(stdout)) <= PipeSize
    BY <1>8 DEF ReadLine
  <2>2. Head(stdout).position \in Nat
    BY <2>1 DEF Line
  <2>3. /\ state' \in Nat \cup {NoState} /\ written' \in BOOLEAN
        /\ state_file' \in Nat \cup {Truncated} /\ pc' \in {"poll", "save"}
        /\ pc' = "save" => state' # NoState
    BY <1>8, <2>2 DEF ReadLine
  <2>4. stdout' = Tail(stdout)
        /\ UNCHANGED <<source, loaded, backup, starting, proc, position, emitted, crashes>>
    BY <1>8 DEF ReadLine
  <2>5. QED
    BY <2>1, <2>3, <2>4
<1>9. CASE ReadEnd \/ Poll \/ OpenLast \/ EndRun
  BY <1>9 DEF ReadEnd, Poll, AfterSuccess, OpenLast, EndRun
<1>10. CASE Save \/ SaveLast
  BY <1>10 DEF Save, SaveLast
<1>11. CASE Crash
  BY <1>11 DEF Crash
<1>12. CASE UNCHANGED vars
  BY <1>12 DEF vars
<1>13. QED
  BY <1>1, <1>2, <1>3, <1>4, <1>5, <1>6, <1>7, <1>8, <1>9, <1>10, <1>11, <1>12 DEF Next

\* The type invariant of run_tap, its files and its pipeline.
THEOREM TypeCorrect == Spec => []TypeOK
<1>1. Init => TypeOK
  <2> SUFFICES ASSUME Init PROVE TypeOK
    OBVIOUS
  <2>1. stdout \in Seq(Line) /\ Len(stdout) <= PipeSize
    BY PipeAssumption DEF Init
  <2>2. state \in Nat \cup {NoState} /\ backup \in Nat \cup {Truncated}
        /\ state_file \in Nat \cup {Truncated} /\ written \in BOOLEAN
    BY DEF Init
  <2>3. QED
    BY <2>1, <2>2 DEF Init, TypeOK
<1>2. QED
  BY <1>1, TypePreserved, PTL DEF Spec

-----------------------------------------------------------------------------
(* The three parts of the invariant, one lemma each                        *)

\* What is read, from the pipe or by the callback, was printed before.
LEMMA PipelinePreserved ==
    ASSUME TypeOK, IInv, [Next]_vars
    PROVE  PipelineInv'
<1> USE DEF PipelineInv
<1>0. TypeOK' /\ PipelineInv /\ (state_file # Truncated => state_file <= loaded)
  BY TypePreserved DEF IInv, FilesInv
<1>1. CASE Produce
  BY <1>0, <1>1 DEF Produce, TypeOK
<1>2. CASE Load
  <2>1. position < position' /\ position' <= source
    BY <1>0, <1>2 DEF Load, TypeOK
  <2>2. loaded' <= source /\ position' <= loaded'
    BY <1>0, <1>2, <2>1 DEF Load, Larger, TypeOK
  <2>3. UNCHANGED <<source, stdout, emitted, state>>
    BY <1>2 DEF Load
  <2>4. QED
    BY <1>0, <2>1, <2>2, <2>3 DEF TypeOK
<1>3. CASE PrintState
  <2>1. emitted <= emitted' /\ emitted' <= position /\ stdout' = Append(stdout, StateLine(emitted'))
    BY <1>0, <1>3 DEF PrintState, TypeOK
  <2>2. StateLine(emitted').position = emitted'
    BY DEF StateLine
  <2>3. ASSUME NEW i \in 1..Len(stdout'), stdout'[i].bookmarks
        PROVE  stdout'[i].position <= emitted'
    <3>1. CASE i \in 1..Len(stdout)
      <4>1. stdout'[i] = stdout[i] /\ stdout[i] \in Line
        BY <2>1, <3>1 DEF TypeOK
      <4>2. QED
        BY <1>0, <2>1, <2>3, <3>1, <4>1 DEF TypeOK, Line
    <3>2. CASE i = Len(stdout) + 1
      <4>1. stdout'[i] = StateLine(emitted')
        BY <2>1, <3>2 DEF TypeOK
      <4>2. QED
        BY <1>0, <2>2, <4>1 DEF TypeOK
    <3>3. QED
      BY <2>1, <2>3, <3>1, <3>2 DEF TypeOK
  <2>4. UNCHANGED <<source, loaded, position, state>>
    BY <1>3 DEF PrintState
  <2>5. QED
    BY <1>0, <2>1, <2>3, <2>4 DEF TypeOK
<1>4. CASE PrintLog
  <2>1. PICK n \in position..source : stdout' = Append(stdout, LogLine(n))
    BY <1>4 DEF PrintLog
  <2>2. ASSUME NEW i \in 1..Len(stdout'), stdout'[i].bookmarks
        PROVE  i \in 1..Len(stdout) /\ stdout'[i] = stdout[i]
    BY <2>1, <2>2 DEF TypeOK, LogLine
  <2>3. UNCHANGED <<source, loaded, position, emitted, state>>
    BY <1>4 DEF PrintLog
  <2>4. QED
    BY <1>0, <2>2, <2>3
<1>5. CASE StartRun
  <2>1. CASE pc # "idle" \/ state_file = Truncated
    BY <1>0, <1>5, <2>1 DEF StartRun, Starts
  <2>2. CASE pc = "idle" /\ state_file # Truncated
    <3>1. /\ state' = NoState /\ position' = state_file /\ emitted' = state_file
          /\ stdout' = << >> /\ UNCHANGED <<source, loaded>>
      BY <1>5, <2>2 DEF StartRun
    <3>2. state_file <= loaded /\ state_file <= state_file
      BY <1>0, <2>2 DEF TypeOK
    <3>3. QED
      BY <1>0, <3>1, <3>2
  <2>3. QED
    BY <2>1, <2>2
<1>6. CASE ReadLine
  <2>1. stdout # << >> /\ stdout' = Tail(stdout) /\ UNCHANGED <<source, loaded, position, emitted>>
    BY <1>6 DEF ReadLine
  <2>2. ASSUME NEW i \in 1..Len(stdout')
        PROVE  i + 1 \in 1..Len(stdout) /\ stdout'[i] = stdout[i + 1]
    BY <2>1, <2>2 DEF TypeOK
  <2>3. state' = state \/ (Head(stdout).bookmarks /\ state' = Head(stdout).position)
    BY <1>6 DEF ReadLine, IsState
  <2>4. 1 \in 1..Len(stdout) /\ Head(stdout) = stdout[1]
    BY <2>1 DEF TypeOK
  <2>5. state' # NoState => state' <= emitted
    BY <1>0, <2>3, <2>4
  <2>6. QED
    BY <1>0, <2>1, <2>2, <2>5
<1>7. CASE \/ ExitPipeline \/ ParseState \/ OpenCopy \/ WriteCopy \/ ReadEnd \/ Save
           \/ Poll \/ OpenLast \/ SaveLast \/ EndRun \/ Crash \/ UNCHANGED vars
  <2>1. UNCHANGED <<source, loaded, position, emitted, stdout, state>>
    BY <1>7 DEF ExitPipeline, ParseState, OpenCopy, WriteCopy, ReadEnd, Save, Poll,
                OpenLast, SaveLast, EndRun, Crash, vars
  <2>2. QED
    BY <1>0, <2>1
<1>8. QED
  BY <1>1, <1>2, <1>3, <1>4, <1>5, <1>6, <1>7 DEF Next

\* A file is truncated only while the other one can be read.
LEMMA FilesPreserved ==
    ASSUME ~Overlap, TypeOK, IInv, [Next]_vars
    PROVE  FilesInv'
<1> USE TruncatedAssumption DEF FilesInv
<1>0. TypeOK' /\ FilesInv /\ RunInv /\ PipelineInv /\ PipelineInv'
  BY TypePreserved, PipelinePreserved DEF IInv
<1>1. CASE Load
  <2>1. loaded <= loaded'
    BY <1>0, <1>1 DEF Load, Larger, TypeOK
  <2>2. UNCHANGED <<state_file, backup, starting, pc>>
    BY <1>1 DEF Load
  <2>3. QED
    BY <1>0, <2>1, <2>2 DEF TypeOK
<1>2. CASE ParseState
  BY <1>0, <1>2 DEF ParseState, Parses, Starts
<1>3. CASE OpenCopy \/ WriteCopy
  BY <1>0, <1>3 DEF OpenCopy, WriteCopy, Starts, TypeOK
<1>4. CASE StartRun
  BY <1>0, <1>4 DEF StartRun, Starts
<1>5. CASE ReadLine
  BY <1>0, <1>5 DEF ReadLine, RunInv
<1>6. CASE Save \/ SaveLast
  <2>1. pc # "idle" /\ state # NoState /\ state_file' = state
        /\ UNCHANGED <<loaded, backup, starting>>
    BY <1>6 DEF Save, SaveLast, TypeOK
  <2>2. state \in Nat /\ state <= loaded /\ backup <= state
    BY <1>0, <2>1 DEF PipelineInv, RunInv, TypeOK
  <2>3. QED
    BY <1>0, <2>1, <2>2
<1>7. CASE OpenLast
  BY <1>0, <1>7 DEF OpenLast, RunInv
<1>8. CASE Crash
  BY <1>0, <1>8 DEF Crash
<1>9. CASE \/ Produce \/ PrintState \/ PrintLog \/ ExitPipeline \/ ReadEnd \/ Poll
           \/ EndRun \/ UNCHANGED vars
  <2>1. UNCHANGED <<loaded, state_file, backup, starting>> /\ (pc = "idle" => pc' = "idle")
    BY <1>9 DEF Produce, PrintState, PrintLog, ExitPipeline, ReadEnd, Poll, EndRun, vars
  <2>2. QED
    BY <1>0, <2>1
<1>10. QED
  BY <1>1, <1>2, <1>3, <1>4, <1>5, <1>6, <1>7, <1>8, <1>9 DEF Next

\* Positions of a run start at the copy of the state file and go up.
LEMMA RunPreserved ==
    ASSUME ~Overlap, TypeOK, IInv, [Next]_vars
    PROVE  RunInv'
<1> USE TruncatedAssumption DEF RunInv
<1>0. TypeOK' /\ FilesInv /\ FilesInv' /\ RunInv /\ PipelineInv /\ PipelineInv'
  BY TypePreserved, FilesPreserved, PipelinePreserved DEF IInv
<1>1. CASE PrintState
  <2>1. emitted <= emitted' /\ stdout' = Append(stdout, StateLine(emitted'))
    BY <1>0, <1>1 DEF PrintState, TypeOK
  <2>2. ASSUME NEW i \in 1..Len(stdout')
        PROVE  (i \in 1..Len(stdout) /\ stdout'[i] = stdout[i]) \/ stdout'[i].position = emitted'
    BY <2>1, <2>2 DEF TypeOK, StateLine
  <2>3. UNCHANGED <<backup, pc, state>>
    BY <1>1 DEF PrintState
  <2>4. pc # "idle" => backup \in Nat /\ backup <= emitted'
    BY <1>0, <2>1 DEF TypeOK
  <2>5. QED
    BY <1>0, <2>2, <2>3, <2>4
<1>2. CASE PrintLog
  <2>1. PICK n \in position..source : stdout' = Append(stdout, LogLine(n))
    BY <1>2 DEF PrintLog
  <2>2. ASSUME NEW i \in 1..Len(stdout'), stdout'[i].bookmarks
        PROVE  i \in 1..Len(stdout) /\ stdout'[i] = stdout[i]
    BY <2>1, <2>2 DEF TypeOK, LogLine
  <2>3. UNCHANGED <<backup, pc, state, emitted>>
    BY <1>2 DEF PrintLog
  <2>4. QED
    BY <1>0, <2>2, <2>3
<1>3. CASE StartRun
  <2>1. CASE pc # "idle" \/ state_file = Truncated
    <3>1. UNCHANGED <<backup, pc, state, emitted, stdout>>
      BY <1>3, <2>1 DEF StartRun
    <3>2. QED
      BY <1>0, <3>1
  <2>2. CASE pc = "idle" /\ state_file # Truncated
    <3>1. starting = "pidfile" /\ state' = NoState /\ emitted' = state_file
          /\ stdout' = << >> /\ pc' = "read" /\ backup' = backup
      BY <1>3, <2>2 DEF StartRun, Starts
    <3>2. backup # Truncated /\ backup <= state_file
      BY <1>0, <2>2, <3>1 DEF FilesInv
    <3>3. QED
      BY <3>1, <3>2
  <2>3. QED
    BY <2>1, <2>2
<1>4. CASE ReadLine
  <2>1. stdout # << >> /\ stdout' = Tail(stdout) /\ pc = "read" /\ UNCHANGED <<backup, emitted>>
    BY <1>4 DEF ReadLine
  <2>2. ASSUME NEW i \in 1..Len(stdout')
        PROVE  i + 1 \in 1..Len(stdout) /\ stdout'[i] = stdout[i + 1]
    BY <2>1, <2>2 DEF TypeOK
  <2>3. state' = state \/ (Head(stdout).bookmarks /\ state' = Head(stdout).position)
    BY <1>4 DEF ReadLine, IsState
  <2>4. 1 \in 1..Len(stdout) /\ Head(stdout) = stdout[1]
    BY <2>1 DEF TypeOK
  <2>5. state' # NoState => backup <= state'
    BY <1>0, <2>1, <2>3, <2>4
  <2>6. QED
    BY <1>0, <2>1, <2>2, <2>5
<1>5. CASE OpenCopy \/ WriteCopy
  <2>1. starting # "no" /\ pc' = pc
    BY <1>5 DEF OpenCopy, WriteCopy, Starts
  <2>2. QED
    BY <1>0, <2>1 DEF FilesInv
<1>6. CASE \/ Produce \/ Load \/ ExitPipeline \/ ParseState \/ ReadEnd \/ Save \/ Poll
           \/ OpenLast \/ SaveLast \/ EndRun \/ Crash \/ UNCHANGED vars
  <2>1. UNCHANGED <<backup, emitted, stdout, state>> /\ (pc = "idle" => pc' = "idle")
    BY <1>6 DEF Produce, Load, ExitPipeline, ParseState, ReadEnd, Save, Poll, OpenLast,
                SaveLast, EndRun, Crash, vars
  <2>2. QED
    BY <1>0, <2>1
<1>7. QED
  BY <1>1, <1>2, <1>3, <1>4, <1>5, <1>6 DEF Next

\* The invariant holds initially and is kept.
LEMMA Invariant == ~Overlap /\ Spec => [](TypeOK /\ IInv)
<1> SUFFICES ASSUME ~Overlap PROVE Spec => [](TypeOK /\ IInv)
  OBVIOUS
<1>1. Init => IInv
  BY TruncatedAssumption DEF Init, IInv, PipelineInv, FilesInv, RunInv
<1>2. TypeOK /\ IInv /\ [Next]_vars => IInv'
  BY PipelinePreserved, FilesPreserved, RunPreserved DEF IInv
<1>3. QED
  BY <1>1, <1>2, TypeCorrect, PTL DEF Spec

\* Crashes at any step leave a restart point that skips no unloaded record.
THEOREM RestartPointSafe == ~Overlap /\ Spec => []RestartPointIsSafe
<1>1. TypeOK /\ IInv => RestartPointIsSafe
  BY TruncatedAssumption DEF TypeOK, IInv, FilesInv, RestartPointIsSafe, RestartPoint
<1>2. QED
  BY <1>1, Invariant, PTL

-----------------------------------------------------------------------------
(* The refinement of AtLeastOnce                                           *)

\* A step of run_tap and its pipeline is a step of the promise or none.
LEMMA StepImplements ==
    ASSUME ~Overlap, TypeOK, IInv, [Next]_vars
    PROVE  [Promise!Next]_<<source, loaded, RestartPoint>>
<1>0. /\ TypeOK' /\ IInv'
      /\ RestartPoint \in 0..loaded /\ RestartPoint' \in 0..loaded'
  <2>1. TypeOK' /\ IInv'
    BY TypePreserved, PipelinePreserved, FilesPreserved, RunPreserved DEF IInv
  <2>2. QED
    BY <2>1, TruncatedAssumption DEF TypeOK, IInv, FilesInv, RestartPoint
<1>1. CASE Produce
  <2>1. RestartPoint' = RestartPoint
    BY <1>1 DEF Produce, RestartPoint
  <2>2. QED
    BY <1>1, <2>1 DEF Produce, Promise!Next, Promise!Produce
<1>2. CASE Load
  <2>1. RestartPoint' = RestartPoint /\ source' = source
    BY <1>2 DEF Load, RestartPoint
  <2>2. loaded' = loaded \/ loaded' \in (loaded + 1)..source
    BY <1>2 DEF Load, Larger, TypeOK
  <2>3. QED
    BY <2>1, <2>2 DEF Promise!Next, Promise!Load
<1>3. CASE ~Produce /\ ~Load
  <2>1. UNCHANGED <<source, loaded>>
    BY <1>3 DEF Next, PrintState, PrintLog, ExitPipeline, ParseState, OpenCopy, WriteCopy,
                StartRun, ReadLine, ReadEnd, Save, Poll, OpenLast, SaveLast, EndRun, Crash, vars
  <2>2. QED
    BY <1>0, <2>1 DEF Promise!Next, Promise!Checkpoint
<1>4. QED
  BY <1>1, <1>2, <1>3

\* run_tap keeps the promise of AtLeastOnce, whatever crashes: the restart point
\* is its checkpoint.
THEOREM Implements == ~Overlap /\ Spec => ImplementsAtLeastOnce
<1> SUFFICES ASSUME ~Overlap PROVE Spec => ImplementsAtLeastOnce
  OBVIOUS
<1>1. Init => Promise!Init
  BY TruncatedAssumption DEF Init, Promise!Init, RestartPoint
<1>2. TypeOK /\ IInv /\ [Next]_vars => [Promise!Next]_(Promise!vars)
  BY StepImplements DEF Promise!vars
<1>3. QED
  BY <1>1, <1>2, Invariant, PTL DEF Spec, ImplementsAtLeastOnce, Promise!Spec
=============================================================================
