-------------------------- MODULE SyncTablesProofs --------------------------
(***************************************************************************)
(* Proofs about SyncTables, for any tables, pool sizes and logs, and for   *)
(* any number of commands that follow each other.                          *)
(***************************************************************************)
EXTENDS SyncTables, FiniteSetTheorems, TLAPS

\* A worker that goes from one place to another changes who is busy only in its
\* own process.
LEMMA BusyMoves ==
    ASSUME TypeOK, NEW t \in Tables, NEW p \in Processes, NEW to,
           worker' = [worker EXCEPT ![t] = to]
    PROVE  /\ IsFiniteSet(Busy(p)) /\ Cardinality(Busy(p)) \in Nat
           /\ Busy(p)' \subseteq Busy(p) \cup (IF p = ProcessOf(t) THEN {t} ELSE {})
           /\ to \notin AtWork => Busy(p)' \subseteq Busy(p)
           /\ worker[t] \in AtWork => Busy(p)' \subseteq Busy(p)
           /\ worker[t] \in AtWork => t \in Busy(ProcessOf(t))
<1>1. Busy(p) \subseteq Tables /\ IsFiniteSet(Tables)
  BY TablesAssumption DEF Busy, TablesOf, Tables
<1>2. IsFiniteSet(Busy(p)) /\ Cardinality(Busy(p)) \in Nat
  BY <1>1, FS_Subset, FS_CardinalityType
<1>3. \A u \in Tables : worker'[u] = IF u = t THEN to ELSE worker[u]
  BY DEF TypeOK
<1>4. TablesOf(p) \subseteq Tables /\ t \in TablesOf(ProcessOf(t))
      /\ (t \in TablesOf(p) => p = ProcessOf(t))
  BY TablesAssumption DEF TablesOf, ProcessOf, Tables, Processes
<1>5. QED
  BY <1>2, <1>3, <1>4 DEF Busy

\* What a step of a worker keeps: nobody is busy outside a running pool, the
\* pool is not exceeded, and LOCK is released by those who stop using the file.
LEMMA WorkersKept ==
    ASSUME TypeOK, NEW t \in Tables, NEW to,
           worker' = [worker EXCEPT ![t] = to],
           UNCHANGED <<main, process>>,
           \/ to \notin AtWork
           \/ worker[t] \in AtWork
           \/ process[ProcessOf(t)] = "pool" /\ PoolIsFree(ProcessOf(t)),
           \/ lock' = NoTable
           \/ lock' = t /\ to \in {"read", "open", "save"}
           \/ lock' = lock /\ lock # t
           \/ lock' = lock /\ to \in {"read", "open", "save"}
    PROVE  WorkersInv'
<1>1. ASSUME NEW p \in Processes, Busy(p)' # {}
      PROVE  process'[p] = "pool"
  <2>1. CASE Busy(p)' \subseteq Busy(p)
    BY <1>1, <2>1 DEF TypeOK, WorkersInv
  <2>2. CASE ~(Busy(p)' \subseteq Busy(p))
    BY <1>1, <2>2, BusyMoves
  <2>3. QED
    BY <2>1, <2>2
<1>2. ASSUME NEW p \in Processes
      PROVE  Cardinality(Busy(p)') <= PoolSize
  <2>0. IsFiniteSet(Busy(p)) /\ Cardinality(Busy(p)) \in Nat /\ PoolSize \in Nat
        /\ Cardinality(Busy(p)) <= PoolSize
    BY BusyMoves, PoolAssumption DEF TypeOK, WorkersInv
  <2>1. CASE Busy(p)' \subseteq Busy(p)
    <3>1. Cardinality(Busy(p)') <= Cardinality(Busy(p)) /\ Cardinality(Busy(p)') \in Nat
      BY <2>0, <2>1, FS_Subset, FS_CardinalityType
    <3>2. QED
      BY <2>0, <3>1
  <2>2. CASE ~(Busy(p)' \subseteq Busy(p))
    <3>1. p = ProcessOf(t) /\ PoolIsFree(p) /\ Busy(p)' \subseteq Busy(p) \cup {t}
      BY <2>2, BusyMoves
    <3>2. IsFiniteSet(Busy(p) \cup {t})
          /\ Cardinality(Busy(p) \cup {t}) <= Cardinality(Busy(p)) + 1
          /\ Cardinality(Busy(p) \cup {t}) \in Nat
      <4>1. IsFiniteSet(Busy(p) \cup {t})
            /\ Cardinality(Busy(p) \cup {t}) = IF t \in Busy(p) THEN Cardinality(Busy(p))
                                               ELSE Cardinality(Busy(p)) + 1
        BY <2>0, FS_AddElement, Zenon
      <4>2. QED
        BY <2>0, <4>1
    <3>3. Cardinality(Busy(p)') <= Cardinality(Busy(p) \cup {t}) /\ Cardinality(Busy(p)') \in Nat
      BY <3>1, <3>2, FS_Subset, FS_CardinalityType
    <3>4. QED
      BY <2>0, <3>1, <3>2, <3>3 DEF PoolIsFree
  <2>3. QED
    BY <2>1, <2>2
<1>3. lock' # NoTable => worker'[lock'] \in {"read", "open", "save"}
  BY TablesAssumption DEF TypeOK, WorkersInv, Tables
<1>4. main' = "idle" => \A p \in Processes : process'[p] = "none"
  BY DEF TypeOK, WorkersInv
<1>5. QED
  BY <1>1, <1>2, <1>3, <1>4 DEF WorkersInv

\* What a command without workers at work keeps.
LEMMA NobodyBusy ==
    ASSUME TypeOK,
           \A p \in Processes : Busy(p)' = {},
           UNCHANGED lock,
           main' = "idle" => \A p \in Processes : process'[p] = "none",
           \A p \in Processes : Busy(p) = {}
    PROVE  WorkersInv'
<1>1. lock = NoTable
  <2>1. ASSUME lock # NoTable PROVE FALSE
    <3>1. lock \in FullSync /\ worker[lock] \in AtWork
      BY <2>1 DEF TypeOK, WorkersInv, AtWork
    <3>2. lock \in Busy("full")
      BY <3>1 DEF Busy, TablesOf
    <3>3. QED
      BY <3>2 DEF Processes
  <2>2. QED
    BY <2>1
<1>2. Cardinality({}) = 0
  BY FS_EmptySet
<1>3. \A p \in Processes : Cardinality(Busy(p)') <= PoolSize
  BY <1>2, PoolAssumption
<1>4. QED
  BY <1>1, <1>3 DEF WorkersInv

\* Every step keeps the types and the discipline of the workers.
LEMMA TypePreserved == TypeOK /\ [Next]_vars => TypeOK'
<1> SUFFICES ASSUME TypeOK, [Next]_vars PROVE TypeOK'
  OBVIOUS
<1> USE DEF command, workers
<1>0. FullSync \subseteq Tables /\ PartialSync \subseteq Tables /\ NoTable \notin Tables
      /\ Truncated \notin Bookmarks /\ Processes = {"full", "partial"}
  BY ValuesAssumption DEF Tables, Processes
<1>1. CASE Change \/ UNCHANGED vars
  <2>1. UNCHANGED <<command, workers, warehouse, state_file>> /\ source' \in Nat
    BY <1>1 DEF Change, vars, TypeOK
  <2>2. WorkersInv'
    BY <2>1 DEF TypeOK, WorkersInv, Busy
  <2>3. QED
    BY <2>1, <2>2 DEF TypeOK
<1>2. ASSUME NEW selected \in SUBSET Tables \ {{}}, StartSync(selected) PROVE TypeOK'
  <2>1. \A p \in Processes : Busy(p) = {} /\ Busy(p)' = {}
    <3>1. \A p \in Processes : Busy(p) = {}
      BY <1>2 DEF StartSync, TypeOK, WorkersInv
    <3>2. \A t \in Tables : worker'[t] \in {"waiting", "idle"}
      BY <1>2 DEF StartSync
    <3>3. \A p \in Processes : Busy(p)' = {}
      BY <1>0, <3>2 DEF Busy, TablesOf, AtWork
    <3>4. QED
      BY <3>1, <3>3
  <2>2. WorkersInv'
    BY <1>2, <2>1, NobodyBusy DEF StartSync
  <2>3. state_file' \in Bookmarks \cup {Truncated}
    BY <1>2 DEF StartSync, WithoutPartial, TypeOK, Bookmarks, Bookmark
  <2>4. /\ main' = "join_partial"
        /\ process' \in [Processes -> {"none", "cleanup", "cleaning", "pool", "ok", "failed"}]
        /\ worker' \in [Tables -> AtWork \cup {"idle", "waiting", "done", "failed"}]
        /\ UNCHANGED <<source, warehouse, cleaned, bookmark, exported, loaded_state, lock>>
    BY <1>0, <1>2 DEF StartSync
  <2>5. QED
    BY <2>2, <2>3, <2>4 DEF TypeOK
<1>3. CASE JoinPartial \/ JoinFull
  <2>1. /\ main' \in {"join_full", "done", "failed"}
        /\ UNCHANGED <<source, warehouse, state_file, process, cleaned, workers>>
    BY <1>3 DEF JoinPartial, JoinFull, Join
  <2>2. WorkersInv'
    BY <2>1 DEF TypeOK, WorkersInv, Busy
  <2>3. QED
    BY <2>1, <2>2 DEF TypeOK
<1>4. CASE EndSync
  <2>1. \A p \in Processes : Busy(p) = {} /\ Busy(p)' = {}
    <3>1. \A p \in Processes : Busy(p) = {}
      BY <1>4 DEF EndSync, TypeOK, WorkersInv
    <3>2. \A t \in Tables : worker'[t] = "idle"
      BY <1>4 DEF EndSync
    <3>3. \A p \in Processes : Busy(p)' = {}
      BY <1>0, <3>2 DEF Busy, TablesOf, AtWork
    <3>4. QED
      BY <3>1, <3>3
  <2>2. \A p \in Processes : process'[p] = "none"
    BY <1>4 DEF EndSync
  <2>3. WorkersInv'
    BY <1>4, <2>1, <2>2, NobodyBusy DEF EndSync
  <2>4. Unsaved \in Bookmarks
    BY DEF Unsaved, Bookmarks, Bookmark
  <2>5. QED
    BY <1>4, <2>3, <2>4 DEF EndSync, TypeOK
<1>5. CASE CleanupRead \/ CleanupWrite
  <2>1. /\ process["full"] \in {"cleanup", "cleaning"}
        /\ \E to \in {"cleaning", "pool"} : process' = [process EXCEPT !["full"] = to]
        /\ UNCHANGED <<source, warehouse, main, workers>>
    BY <1>5 DEF CleanupRead, CleanupWrite
  <2>2. state_file' \in Bookmarks \cup {Truncated} /\ cleaned' \in Bookmarks
    <3>1. Unsaved \in Bookmarks
      BY DEF Unsaved, Bookmarks, Bookmark
    <3>2. QED
      BY <1>5, <3>1 DEF CleanupRead, CleanupWrite, TypeOK
  <2>3. Busy("full") = {} /\ main # "idle"
    BY <1>0, <2>1 DEF TypeOK, WorkersInv
  <2>4. WorkersInv'
    BY <1>0, <2>1, <2>3 DEF TypeOK, WorkersInv, Busy
  <2>5. QED
    BY <1>0, <2>1, <2>2, <2>4 DEF TypeOK
<1>6. ASSUME NEW p \in Processes, EndProcess(p) \/ FailProcess(p) PROVE TypeOK'
  <2>1. /\ process[p] \in {"cleanup", "pool"}
        /\ \E to \in {"ok", "failed"} : process' = [process EXCEPT ![p] = to]
        /\ UNCHANGED <<source, warehouse, state_file, main, cleaned, workers>>
    BY <1>6 DEF EndProcess, FailProcess
  <2>2. Busy(p) = {}
    BY <1>6 DEF EndProcess, FailProcess, Busy, AtWork
  <2>3. main # "idle"
    BY <2>1 DEF TypeOK, WorkersInv
  <2>4. WorkersInv'
    BY <2>1, <2>2, <2>3 DEF TypeOK, WorkersInv, Busy
  <2>5. QED
    BY <2>1, <2>4 DEF TypeOK
<1>7. ASSUME NEW t \in Tables, Work(t) \/ FailTable(t) PROVE TypeOK'
  <2>0. /\ warehouse' \in [Tables -> Nat] /\ bookmark' \in [Tables -> Nat]
        /\ exported' \in [Tables -> Nat]
        /\ UNCHANGED <<source, main, process, cleaned>>
    BY <1>7 DEF Work, TakeTask, GetBookmark, CopyTable, SwapTables, Acquire, LoadState,
                OpenState, SaveState, Grant, FailTable, TypeOK
  <2>1. state_file' \in Bookmarks \cup {Truncated} /\ loaded_state' \in [Tables -> Bookmarks]
    <3>1. Unsaved \in Bookmarks
      BY DEF Unsaved, Bookmarks, Bookmark
    <3>2. CASE SaveState(t)
      <4>1. loaded_state[t] \in Bookmarks /\ bookmark[t] \in Bookmark
        BY DEF TypeOK, Bookmark
      <4>2. [loaded_state[t] EXCEPT ![t] = bookmark[t]] \in Bookmarks
        BY <4>1 DEF Bookmarks
      <4>3. QED
        BY <3>1, <3>2, <4>2 DEF SaveState, SavedBookmark, TypeOK
    <3>3. CASE LoadState(t) \/ OpenState(t) \/ FailTable(t)
      BY <3>1, <3>3 DEF LoadState, OpenState, FailTable, TypeOK
    <3>4. CASE TakeTask(t) \/ GetBookmark(t) \/ CopyTable(t) \/ SwapTables(t) \/ Acquire(t) \/ Grant(t)
      BY <3>4 DEF TakeTask, GetBookmark, CopyTable, SwapTables, Acquire, Grant, TypeOK
    <3>5. QED
      BY <1>7, <3>2, <3>3, <3>4 DEF Work
  <2>2. worker' \in [Tables -> AtWork \cup {"idle", "waiting", "done", "failed"}]
        /\ lock' \in FullSync \cup {NoTable}
    BY <1>7 DEF Work, TakeTask, GetBookmark, CopyTable, SwapTables, Acquire, LoadState,
                OpenState, SaveState, Grant, FailTable, ReleasedLock, Moves, TypeOK, AtWork
  <2>3. WorkersInv'
    <3>0. lock = t => worker[t] \in {"read", "open", "save"}
      BY <1>0 DEF TypeOK, WorkersInv
    <3>1. CASE TakeTask(t)
      <4>1. worker' = [worker EXCEPT ![t] = "bookmark"] /\ lock # t /\ UNCHANGED lock
            /\ process[ProcessOf(t)] = "pool" /\ PoolIsFree(ProcessOf(t))
        BY <3>0, <3>1 DEF TakeTask, Moves
      <4>2. QED
        BY <2>0, <4>1, WorkersKept
    <3>2. CASE GetBookmark(t) \/ CopyTable(t) \/ SwapTables(t) \/ Grant(t)
      <4>1. /\ \E to : worker' = [worker EXCEPT ![t] = to]
            /\ worker[t] \in AtWork /\ lock # t /\ UNCHANGED lock
        BY <3>0, <3>2 DEF GetBookmark, CopyTable, SwapTables, Grant, Moves, AtWork
      <4>2. QED
        BY <2>0, <4>1, WorkersKept
    <3>3. CASE Acquire(t) \/ LoadState(t) \/ OpenState(t)
      <4>1. /\ \E to \in {"read", "open", "save"} : worker' = [worker EXCEPT ![t] = to]
            /\ worker[t] \in AtWork /\ lock' \in {lock, t}
        BY <3>3 DEF Acquire, LoadState, OpenState, Moves, AtWork
      <4>2. QED
        BY <2>0, <4>1, WorkersKept
    <3>4. CASE SaveState(t) \/ FailTable(t)
      <4>1. /\ \E to : worker' = [worker EXCEPT ![t] = to]
            /\ worker[t] \in AtWork /\ (lock' = NoTable \/ (lock' = lock /\ lock # t))
        BY <3>4 DEF SaveState, FailTable, ReleasedLock, Moves, AtWork
      <4>2. QED
        BY <2>0, <4>1, WorkersKept
    <3>5. QED
      BY <1>7, <3>1, <3>2, <3>3, <3>4 DEF Work
  <2>4. QED
    BY <2>0, <2>1, <2>2, <2>3 DEF TypeOK
<1>8. QED
  BY <1>1, <1>2, <1>3, <1>4, <1>5, <1>6, <1>7 DEF Next, Command

\* The type invariant holds for any tables and pool sizes.
THEOREM TypeCorrect == Spec => []TypeOK
<1>1. Init => TypeOK
  <2> SUFFICES ASSUME Init PROVE TypeOK
    OBVIOUS
  <2>1. Unsaved \in Bookmarks
    BY DEF Unsaved, Bookmarks, Bookmark
  <2>2. \A p \in Processes : Busy(p) = {}
    BY DEF Init, Busy, TablesOf, Tables, AtWork
  <2>3. WorkersInv
    BY <2>2, FS_EmptySet, PoolAssumption DEF Init, WorkersInv
  <2>4. QED
    BY <2>1, <2>3 DEF Init, TypeOK
<1>2. QED
  BY <1>1, TypePreserved, PTL DEF Spec

-----------------------------------------------------------------------------

\* A worker's step, unfolded into what it does to the worker's place.
LEMMA WorkSteps ==
    ASSUME TypeOK, NEW t \in Tables, Work(t) \/ FailTable(t)
    PROVE  /\ UNCHANGED <<source, main, process, cleaned>>
           /\ \A u \in Tables : u # t => worker'[u] = worker[u]
           /\ worker[t] \in AtWork \/ (worker[t] = "waiting" /\ process[ProcessOf(t)] = "pool")
           /\ worker'[t] \in AtWork \cup {"done", "failed"}
<1> USE DEF command, workers
<1>1. UNCHANGED <<source, main, process, cleaned>>
  BY DEF Work, TakeTask, GetBookmark, CopyTable, SwapTables, Acquire, LoadState,
         OpenState, SaveState, Grant, FailTable
<1>2. \E to \in AtWork \cup {"done", "failed"} :
        /\ worker' = [worker EXCEPT ![t] = to]
        /\ worker[t] \in AtWork \/ (worker[t] = "waiting" /\ process[ProcessOf(t)] = "pool")
  BY DEF Work, TakeTask, GetBookmark, CopyTable, SwapTables, Acquire, LoadState,
         OpenState, SaveState, Grant, FailTable, Moves, AtWork
<1>3. QED
  BY <1>1, <1>2 DEF TypeOK

\* A worker at work belongs to a running pool of a running command.
LEMMA AtWorkInPool ==
    ASSUME TypeOK, NEW t \in Tables, worker[t] \in AtWork
    PROVE  process[ProcessOf(t)] = "pool" /\ main # "idle"
<1>1. t \in Busy(ProcessOf(t)) /\ ProcessOf(t) \in Processes
  BY DEF Busy, TablesOf, ProcessOf, Tables, Processes
<1>2. QED
  BY <1>1 DEF TypeOK, WorkersInv

\* Every copy is as new as its bookmark, and no older than the one it replaces.
LEMMA CopyPreserved == TypeOK /\ CopyInv /\ [Next]_vars => CopyInv'
<1> SUFFICES ASSUME TypeOK, CopyInv, [Next]_vars PROVE CopyInv'
  OBVIOUS
<1> USE DEF command, workers
<1>1. CASE Change
  BY <1>1 DEF Change, CopyInv, TypeOK
<1>2. CASE UNCHANGED vars \/ JoinPartial \/ JoinFull \/ CleanupRead \/ CleanupWrite
           \/ \E p \in Processes : EndProcess(p) \/ FailProcess(p)
  <2>1. UNCHANGED <<source, warehouse, workers>>
    BY <1>2 DEF vars, JoinPartial, JoinFull, Join, CleanupRead, CleanupWrite,
                EndProcess, FailProcess
  <2>2. QED
    BY <2>1 DEF CopyInv
<1>3. CASE EndSync \/ \E selected \in SUBSET Tables \ {{}} : StartSync(selected)
  <2>1. /\ UNCHANGED <<source, warehouse>>
        /\ \A t \in Tables : worker'[t] \in {"waiting", "idle"}
    BY <1>3 DEF EndSync, StartSync
  <2>2. QED
    BY <2>1 DEF CopyInv
<1>4. ASSUME NEW t \in Tables, Work(t) \/ FailTable(t) PROVE CopyInv'
  <2>1. CASE TakeTask(t) \/ Acquire(t) \/ LoadState(t) \/ OpenState(t) \/ SaveState(t)
             \/ Grant(t) \/ FailTable(t)
    BY <2>1 DEF TakeTask, Acquire, LoadState, OpenState, SaveState, Grant, FailTable,
                Moves, CopyInv, TypeOK, AtWork
  <2>2. CASE GetBookmark(t)
    BY <2>2 DEF GetBookmark, Moves, CopyInv, TypeOK
  <2>3. CASE CopyTable(t)
    BY <2>3 DEF CopyTable, Moves, CopyInv, TypeOK
  <2>4. CASE SwapTables(t)
    BY <2>4 DEF SwapTables, Moves, CopyInv, TypeOK
  <2>5. QED
    BY <1>4, <2>1, <2>2, <2>3, <2>4 DEF Work
<1>5. QED
  BY <1>1, <1>2, <1>3, <1>4 DEF Next, Command

\* No table in the warehouse gets older.
LEMMA WarehouseGrows ==
    TypeOK /\ CopyInv /\ [Next]_vars => \A t \in Tables : warehouse[t] <= warehouse'[t]
<1> SUFFICES ASSUME TypeOK, CopyInv, [Next]_vars
             PROVE  \A t \in Tables : warehouse[t] <= warehouse'[t]
  OBVIOUS
<1> USE DEF command, workers
<1>1. CASE UNCHANGED warehouse
  BY <1>1 DEF TypeOK
<1>2. CASE \E t \in Tables : SwapTables(t)
  BY <1>2 DEF SwapTables, Moves, CopyInv, TypeOK
<1>3. QED
  BY <1>1, <1>2 DEF Next, vars, Command, Change, StartSync, JoinPartial, JoinFull, Join,
     EndSync, CleanupRead, CleanupWrite, EndProcess, FailProcess, Work, TakeTask,
     GetBookmark, CopyTable, Acquire, LoadState, OpenState, SaveState, Grant, FailTable

\* What is in the state file, or may be written to it, is covered.
LEMMA ContentPreserved == TypeOK /\ CopyInv /\ ContentInv /\ [Next]_vars => ContentInv'
<1> SUFFICES ASSUME TypeOK, CopyInv, ContentInv, [Next]_vars PROVE ContentInv'
  OBVIOUS
<1> USE DEF command, workers
<1>1. \A t \in Tables : warehouse[t] \in Nat /\ warehouse'[t] \in Nat
                        /\ warehouse[t] <= warehouse'[t]
  BY WarehouseGrows, TypePreserved DEF TypeOK
<1> DEFINE Known(content) == content \in Bookmarks \cup {Truncated} /\ Covered(content)
<1>2. ASSUME NEW content, Known(content)
      PROVE  content # Truncated => \A t \in Tables :
                content[t] # NoBookmark => content[t] <= warehouse'[t]
  BY <1>1, <1>2, ValuesAssumption DEF Covered, Bookmarks, Bookmark
<1>3. Known(Unsaved) /\ Known(state_file) /\ Known(cleaned)
      /\ \A t \in Tables : Known(loaded_state[t])
  BY DEF TypeOK, ContentInv, Covered, Unsaved, Bookmarks, Bookmark
<1>4. ASSUME \/ Known(state_file') \/ state_file' = Truncated,
             Known(cleaned'), \A t \in Tables : Known(loaded_state'[t])
      PROVE  ContentInv'
  <2>1. /\ state_file' # Truncated => \A t \in Tables :
               state_file'[t] # NoBookmark => state_file'[t] <= warehouse'[t]
        /\ cleaned' # Truncated => \A t \in Tables :
               cleaned'[t] # NoBookmark => cleaned'[t] <= warehouse'[t]
    BY <1>2, <1>4
  <2>2. \A u \in Tables : loaded_state'[u] # Truncated => \A t \in Tables :
               loaded_state'[u][t] # NoBookmark => loaded_state'[u][t] <= warehouse'[t]
    BY <1>2, <1>4
  <2>3. QED
    BY <2>1, <2>2 DEF ContentInv, Covered
<1> HIDE DEF Known
<1>5. ASSUME NEW selected \in SUBSET Tables \ {{}}, StartSync(selected) PROVE ContentInv'
  <2>1. UNCHANGED <<cleaned, loaded_state>>
    BY <1>5 DEF StartSync
  <2>2. Known(state_file')
    BY <1>3, <1>5, ValuesAssumption
       DEF StartSync, WithoutPartial, Known, Covered, Bookmarks, Bookmark, TypeOK
  <2>3. QED
    BY <1>3, <1>4, <2>1, <2>2
<1>6. CASE Change \/ UNCHANGED vars \/ JoinPartial \/ JoinFull \/ EndSync
           \/ CleanupRead \/ CleanupWrite
           \/ \E p \in Processes : EndProcess(p) \/ FailProcess(p)
  <2>1. /\ UNCHANGED loaded_state
        /\ state_file' \in {state_file, cleaned}
        /\ cleaned' \in {cleaned, state_file, Unsaved}
    BY <1>6 DEF vars, Change, JoinPartial, JoinFull, Join, EndSync, CleanupRead,
                CleanupWrite, EndProcess, FailProcess
  <2>2. QED
    BY <1>3, <1>4, <2>1
<1>7. ASSUME NEW t \in Tables, Work(t) \/ FailTable(t) PROVE ContentInv'
  <2>1. UNCHANGED cleaned
    BY <1>7, WorkSteps
  <2>2. CASE SaveState(t)
    <3>1. loaded_state' = [loaded_state EXCEPT ![t] = Unsaved]
          /\ state_file' = [loaded_state[t] EXCEPT ![t] = bookmark[t]]
      BY <2>2 DEF SaveState, SavedBookmark
    <3>2. loaded_state[t] \in Bookmarks /\ Covered(loaded_state[t])
          /\ bookmark[t] \in Nat /\ bookmark[t] <= warehouse[t]
      BY <2>2 DEF SaveState, Moves, TypeOK, CopyInv, ContentInv
    <3>3. Known(state_file')
      BY <3>1, <3>2, ValuesAssumption DEF Known, Covered, Bookmarks, Bookmark
    <3>4. \A u \in Tables : Known(loaded_state'[u])
      BY <1>3, <3>1 DEF TypeOK
    <3>5. QED
      BY <1>3, <1>4, <2>1, <3>3, <3>4
  <2>3. CASE ~SaveState(t)
    <3>1. state_file' \in {state_file, Truncated}
          /\ \A u \in Tables : loaded_state'[u] \in {loaded_state[u], state_file, Unsaved}
      BY <1>7, <2>3 DEF Work, TakeTask, GetBookmark, CopyTable, SwapTables, Acquire,
         LoadState, OpenState, Grant, FailTable, TypeOK
    <3>2. QED
      BY <1>3, <1>4, <2>1, <3>1
  <2>4. QED
    BY <2>2, <2>3
<1>8. QED
  BY <1>5, <1>6, <1>7 DEF Next, Command

\* A saved bookmark never covers a change the table has not.
THEOREM BookmarkLoaded == Spec => []BookmarkIsLoaded
<1>1. Init => CopyInv /\ ContentInv
  BY DEF Init, CopyInv, ContentInv, Covered, Unsaved
<1>2. ContentInv => BookmarkIsLoaded
  BY DEF ContentInv, Covered, BookmarkIsLoaded
<1>3. QED
  BY <1>1, <1>2, TypeCorrect, CopyPreserved, ContentPreserved, PTL DEF Spec

-----------------------------------------------------------------------------

\* A table belongs to one of the two processes.
LEMMA TwoProcesses ==
    /\ Processes = {"full", "partial"}
    /\ \A t \in FullSync : t \in Tables /\ ProcessOf(t) = "full"
    /\ \A t \in PartialSync : t \in Tables /\ ProcessOf(t) = "partial"
    /\ \A t \in Tables : t \in FullSync \/ t \in PartialSync
  BY TablesAssumption DEF Processes, Tables, ProcessOf

\* Nobody is at work while no process runs its pool.
LEMMA NoneAtWork ==
    ASSUME TypeOK, NEW t \in Tables, process[ProcessOf(t)] # "pool"
    PROVE  worker[t] \notin AtWork
  BY AtWorkInPool

\* A truncated state file always has a worker that is about to write it.
LEMMA FilePreserved == TypeOK /\ FileInv /\ [Next]_vars => FileInv'
<1> SUFFICES ASSUME TypeOK, FileInv, [Next]_vars, state_file' = Truncated
             PROVE  \E t \in Tables : worker'[t] = "save"
  BY DEF FileInv
<1> USE DEF command, workers
<1>1. CASE UNCHANGED <<state_file, worker>>
  BY <1>1 DEF FileInv
<1>2. CASE EndSync \/ \E selected \in SUBSET Tables \ {{}} : StartSync(selected)
  <2>1. \A p \in Processes : process[p] # "pool"
    BY <1>2 DEF EndSync, StartSync, TypeOK, WorkersInv
  <2>2. \A t \in Tables : worker[t] # "save"
    BY <2>1, NoneAtWork, TwoProcesses DEF AtWork
  <2>3. state_file # Truncated
    BY <2>2 DEF FileInv
  <2>4. state_file \in Bookmarks
    BY <2>3 DEF TypeOK
  <2>5. state_file' \in Bookmarks
    BY <1>2, <2>4 DEF EndSync, StartSync, WithoutPartial, Bookmarks, Bookmark
  <2>6. QED
    BY <2>5, ValuesAssumption
<1>3. CASE CleanupWrite
  BY <1>3, ValuesAssumption DEF CleanupWrite, TypeOK
<1>4. ASSUME NEW t \in Tables, Work(t) \/ FailTable(t)
      PROVE  \E u \in Tables : worker'[u] = "save"
  <2>1. CASE SaveState(t)
    <3>1. state_file' \in Bookmarks
      BY <2>1 DEF SaveState, SavedBookmark, TypeOK, Bookmarks, Bookmark
    <3>2. QED
      BY <3>1, ValuesAssumption
  <2>2. CASE OpenState(t)
    BY <2>2 DEF OpenState, Moves, TypeOK
  <2>3. CASE ~SaveState(t) /\ ~OpenState(t)
    <3>1. state_file' = state_file /\ worker[t] # "save"
      BY <1>4, <2>3 DEF Work, TakeTask, GetBookmark, CopyTable, SwapTables, Acquire,
         LoadState, Grant, FailTable, Moves, AtWork
    <3>2. QED
      BY <1>4, <3>1, WorkSteps DEF FileInv
  <2>4. QED
    BY <2>1, <2>2, <2>3
<1>5. CASE Change \/ UNCHANGED vars \/ JoinPartial \/ JoinFull \/ CleanupRead
           \/ \E p \in Processes : EndProcess(p) \/ FailProcess(p)
  BY <1>1, <1>5 DEF vars, Change, JoinPartial, JoinFull, Join, CleanupRead, EndProcess,
     FailProcess
<1>6. QED
  BY <1>2, <1>3, <1>4, <1>5 DEF Next, Command

\* LOCK keeps the fastsync workers off each other's changes of the state file.
LEMMA LockPreserved == TypeOK /\ LockInv /\ [Next]_vars => LockInv'
<1> SUFFICES ASSUME TypeOK, LockInv, [Next]_vars PROVE LockInv'
  OBVIOUS
<1> USE DEF command, workers
<1>1. CASE Change \/ UNCHANGED vars \/ JoinPartial \/ JoinFull
  <2>1. UNCHANGED <<worker, lock, process>>
    BY <1>1 DEF vars, Change, JoinPartial, JoinFull, Join
  <2>2. QED
    BY <2>1 DEF LockInv
<1>2. ASSUME NEW selected \in SUBSET Tables \ {{}}, StartSync(selected) PROVE LockInv'
  <2>1. /\ \A t \in Tables : worker'[t] = IF t \in selected THEN "waiting" ELSE "idle"
        /\ process'["partial"] = "none" => selected \cap PartialSync = {}
    BY <1>2 DEF StartSync
  <2>2. QED
    BY <2>1, TwoProcesses DEF LockInv
<1>3. CASE EndSync
  BY <1>3, TwoProcesses DEF EndSync, LockInv
<1>4. CASE CleanupRead \/ CleanupWrite
  <2>1. /\ process["full"] \in {"cleanup", "cleaning"}
        /\ process'["partial"] = process["partial"]
        /\ UNCHANGED workers
    BY <1>4, TwoProcesses DEF CleanupRead, CleanupWrite, TypeOK
  <2>2. QED
    BY <2>1 DEF LockInv
<1>5. ASSUME NEW p \in Processes, EndProcess(p) \/ FailProcess(p) PROVE LockInv'
  <2>1. /\ process[p] \in {"cleanup", "pool"}
        /\ \E to \in {"ok", "failed"} : process' = [process EXCEPT ![p] = to]
        /\ UNCHANGED workers
    BY <1>5 DEF EndProcess, FailProcess
  <2>2. QED
    BY <2>1, TwoProcesses DEF LockInv, TypeOK
<1>6. ASSUME NEW t \in Tables, Work(t) \/ FailTable(t) PROVE LockInv'
  <2>0. /\ UNCHANGED process
        /\ \A u \in Tables : u # t => worker'[u] = worker[u]
        /\ worker[t] \in AtWork \/ (worker[t] = "waiting" /\ process[ProcessOf(t)] = "pool")
    BY <1>6, WorkSteps
  <2>1. process[ProcessOf(t)] = "pool"
    BY <2>0, AtWorkInPool
  <2>2. \A u \in FullSync : worker'[u] \in {"read", "open", "save"} => lock' = u
    <3>1. CASE Acquire(t)
      BY <2>0, <3>1, TwoProcesses, ValuesAssumption DEF Acquire, LockIsFree, LockInv
    <3>2. CASE LoadState(t) \/ OpenState(t)
      BY <2>0, <3>2, TwoProcesses DEF LoadState, OpenState, Moves, LockInv
    <3>3. CASE SaveState(t) \/ FailTable(t)
      <4>1. worker'[t] \in {"grant", "failed"} /\ lock' = ReleasedLock(t)
        BY <3>3 DEF SaveState, FailTable, Moves, TypeOK
      <4>2. QED
        BY <2>0, <4>1, TwoProcesses DEF ReleasedLock, LockInv
    <3>4. CASE TakeTask(t) \/ GetBookmark(t) \/ CopyTable(t) \/ Grant(t)
      <4>1. worker'[t] \in {"bookmark", "export", "load", "done"} /\ UNCHANGED lock
        BY <3>4 DEF TakeTask, GetBookmark, CopyTable, Grant, Moves, TypeOK
      <4>2. QED
        BY <2>0, <4>1, TwoProcesses DEF LockInv
    <3>5. CASE SwapTables(t)
      <4>1. (t \in FullSync => worker'[t] = "lock") /\ UNCHANGED lock
        BY <3>5 DEF SwapTables, Moves, TypeOK
      <4>2. QED
        BY <2>0, <4>1, TwoProcesses DEF LockInv
    <3>6. QED
      BY <1>6, <3>1, <3>2, <3>3, <3>4, <3>5 DEF Work
  <2>3. process["partial"] = "none" => \A u \in PartialSync : worker'[u] = "idle"
    BY <2>0, <2>1, TwoProcesses DEF LockInv
  <2>4. process["full"] \in {"cleanup", "cleaning"} =>
            \A u \in FullSync : worker'[u] \in {"idle", "waiting"}
    BY <2>0, <2>1, TwoProcesses DEF LockInv
  <2>5. QED
    BY <2>0, <2>2, <2>3, <2>4 DEF LockInv
<1>7. QED
  BY <1>1, <1>2, <1>3, <1>4, <1>5, <1>6 DEF Next, Command

\* Without partialsync the bookmarks saved so far are in the state file and in
\* what the holder of LOCK is going to write.
LEMMA KeptPreserved == TypeOK /\ FileInv /\ LockInv /\ KeptInv /\ [Next]_vars => KeptInv'
<1> SUFFICES ASSUME TypeOK, FileInv, LockInv, KeptInv, [Next]_vars,
                    process'["partial"] = "none"
             PROVE  /\ SavedBookmarkIsKept'
                    /\ \A t \in FullSync, u \in FullSync :
                         worker'[t] \in {"open", "save"} /\ worker'[u] \in {"grant", "done"}
                            => loaded_state'[t][u] = bookmark'[u]
  BY DEF KeptInv
<1> USE DEF command, workers
<1>1. CASE Change \/ UNCHANGED vars \/ JoinPartial \/ JoinFull
  <2>1. /\ UNCHANGED <<workers, process, state_file>>
        /\ main' # "idle" => main # "idle"
    BY <1>1 DEF vars, Change, JoinPartial, JoinFull, Join
  <2>2. QED
    BY <2>1 DEF KeptInv, SavedBookmarkIsKept
<1>2. CASE EndSync \/ \E selected \in SUBSET Tables \ {{}} : StartSync(selected)
  <2>1. \A t \in Tables : worker'[t] \in {"waiting", "idle"}
    BY <1>2 DEF EndSync, StartSync
  <2>2. QED
    BY <2>1, TwoProcesses DEF SavedBookmarkIsKept
<1>3. CASE CleanupRead \/ CleanupWrite
  <2>1. /\ process["full"] \in {"cleanup", "cleaning"}
        /\ process'["partial"] = process["partial"]
        /\ UNCHANGED worker
    BY <1>3, TwoProcesses DEF CleanupRead, CleanupWrite, TypeOK
  <2>2. \A t \in Tables : worker'[t] \in {"idle", "waiting"}
    BY <2>1, TwoProcesses DEF LockInv
  <2>3. QED
    BY <2>2, TwoProcesses DEF SavedBookmarkIsKept
<1>4. ASSUME NEW p \in Processes, EndProcess(p) \/ FailProcess(p)
      PROVE  /\ SavedBookmarkIsKept'
             /\ \A t \in FullSync, u \in FullSync :
                  worker'[t] \in {"open", "save"} /\ worker'[u] \in {"grant", "done"}
                     => loaded_state'[t][u] = bookmark'[u]
  <2>1. /\ \E to \in {"ok", "failed"} : process' = [process EXCEPT ![p] = to]
        /\ UNCHANGED <<main, state_file, workers>>
    BY <1>4 DEF EndProcess, FailProcess
  <2>2. process["partial"] = "none"
    BY <2>1, TwoProcesses DEF TypeOK
  <2>3. QED
    BY <2>1, <2>2 DEF KeptInv, SavedBookmarkIsKept
<1>5. ASSUME NEW t \in Tables, Work(t) \/ FailTable(t)
      PROVE  /\ SavedBookmarkIsKept'
             /\ \A v \in FullSync, u \in FullSync :
                  worker'[v] \in {"open", "save"} /\ worker'[u] \in {"grant", "done"}
                     => loaded_state'[v][u] = bookmark'[u]
  <2>0. /\ UNCHANGED <<main, process>>
        /\ \A u \in Tables : u # t => worker'[u] = worker[u]
        /\ worker[t] \in AtWork \/ (worker[t] = "waiting" /\ process[ProcessOf(t)] = "pool")
    BY <1>5, WorkSteps
  <2>1. process[ProcessOf(t)] = "pool" /\ main # "idle"
    <3>1. process[ProcessOf(t)] = "pool" /\ ProcessOf(t) \in Processes
      BY <2>0, AtWorkInPool, TwoProcesses
    <3>2. QED
      BY <3>1 DEF TypeOK, WorkersInv
  <2>2. t \in FullSync /\ \A u \in PartialSync : worker'[u] = "idle"
    BY <2>0, <2>1, TwoProcesses DEF LockInv
  <2>3. /\ \A u \in Tables : worker[u] \in {"grant", "done"} /\ state_file # Truncated
                => state_file[u] = bookmark[u]
        /\ \A v \in FullSync, u \in FullSync :
                worker[v] \in {"open", "save"} /\ worker[u] \in {"grant", "done"}
                    => loaded_state[v][u] = bookmark[u]
    BY <2>0, <2>1 DEF KeptInv, SavedBookmarkIsKept
  <2>4. CASE LoadState(t)
    BY <2>0, <2>3, <2>4, TwoProcesses DEF LoadState, Moves, SavedBookmarkIsKept, TypeOK
  <2>5. CASE OpenState(t)
    BY <2>0, <2>3, <2>5, TwoProcesses DEF OpenState, Moves, SavedBookmarkIsKept, TypeOK
  <2>6. CASE SaveState(t)
    <3>1. /\ worker[t] = "save" /\ worker'[t] = "grant" /\ UNCHANGED bookmark
          /\ state_file' = [loaded_state[t] EXCEPT ![t] = bookmark[t]]
          /\ loaded_state[t] \in Bookmarks
      BY <2>6 DEF SaveState, Moves, SavedBookmark, TypeOK
    <3>2. \A u \in FullSync : worker'[u] \notin {"open", "save"}
      BY <2>0, <2>2, <3>1, TwoProcesses DEF LockInv
    <3>3. \A u \in Tables : worker'[u] \in {"grant", "done"} => state_file'[u] = bookmark[u]
      BY <2>0, <2>2, <2>3, <3>1, TwoProcesses DEF Bookmarks
    <3>4. QED
      BY <3>1, <3>2, <3>3 DEF SavedBookmarkIsKept
  <2>7. CASE TakeTask(t) \/ GetBookmark(t) \/ CopyTable(t) \/ SwapTables(t) \/ Acquire(t)
             \/ Grant(t) \/ FailTable(t)
    <3>1. /\ UNCHANGED state_file
          /\ worker'[t] \notin {"open", "save"}
          /\ worker'[t] \in {"grant", "done"} => worker[t] = "grant" /\ bookmark'[t] = bookmark[t]
          /\ \A u \in Tables : u # t =>
                bookmark'[u] = bookmark[u] /\ loaded_state'[u] = loaded_state[u]
      BY <2>7 DEF TakeTask, GetBookmark, CopyTable, SwapTables, Acquire, Grant, FailTable,
                  Moves, TypeOK
    <3>2. QED
      BY <2>0, <2>3, <3>1, TwoProcesses DEF SavedBookmarkIsKept
  <2>8. QED
    BY <1>5, <2>4, <2>5, <2>6, <2>7 DEF Work
<1>6. QED
  BY <1>1, <1>2, <1>3, <1>4, <1>5 DEF Next, Command

\* A command without tables to sync partially keeps every bookmark it saved.
THEOREM FastSyncKept == Spec => []FastSyncKeepsBookmarks
<1>1. Init => FileInv /\ LockInv /\ KeptInv
  <2> SUFFICES ASSUME Init PROVE FileInv /\ LockInv /\ KeptInv
    OBVIOUS
  <2>1. \A t \in Tables : worker[t] = "idle"
    BY DEF Init
  <2>2. state_file # Truncated
    BY ValuesAssumption DEF Init, Unsaved, Bookmarks, Bookmark
  <2>3. QED
    BY <2>1, <2>2, TwoProcesses DEF FileInv, LockInv, KeptInv, SavedBookmarkIsKept
<1>2. KeptInv => FastSyncKeepsBookmarks
  BY DEF KeptInv, FastSyncKeepsBookmarks
<1>3. QED
  BY <1>1, <1>2, TypeCorrect, FilePreserved, LockPreserved, KeptPreserved, PTL DEF Spec
=============================================================================
