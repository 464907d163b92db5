------------------------ MODULE TargetPostgresProofs ------------------------
(***************************************************************************)
(* Proofs about TargetPostgres, for every set of streams and keys, every   *)
(* batch size and every configuration; what is printed is behind what is   *)
(* loaded in every configuration that SafeConfig allows.  And about        *)
(* transform-field before it (MCTargets), for every configuration of the   *)
(* transformations: a STATE follows the records that it covers, and these  *)
(* are masked as fastsync masks them.  And about the columns both targets  *)
(* add and version, for every schema: loaded values are found.             *)
(***************************************************************************)
EXTENDS MCTargets, FiniteSetTheorems, NaturalsInduction, SequenceTheorems, WellFoundedInduction, TLAPS

\* Every step of the process is one of its handlers or the failure.
LEMMA TypePreserved == TypeOK /\ [Next]_vars => TypeOK'
<1> SUFFICES ASSUME TypeOK, [Next]_vars PROVE TypeOK'
  OBVIOUS
<1> USE StreamsAssumption, KeysAssumption, NoStateAssumption, BatchAssumption,
        ConfigAssumption, MaxRecordsAssumption DEF TypeOK, Position
<1>1. ASSUME NEW s \in Streams, Schema(s) PROVE TypeOK'
  <2>1. CASE row_count[s] > 0
    BY <1>1, <2>1 DEF Schema, StartFlush, BufferedStreams, buffers, sink
  <2>2. CASE ~(row_count[s] > 0)
    BY <1>1, <2>2 DEF Schema, control, buffers, sink
  <2>3. QED
    BY <2>1, <2>2
<1>2. ASSUME NEW s \in Streams, LoadCsv(s) PROVE TypeOK'
  <2>1. table' \in [Streams -> [Keys -> Nat]]
    <3> DEFINE merged == [k \in Keys |-> MergedRow(s, k)]
    <3>1. merged \in [Keys -> Nat]
      BY DEF MergedRow
    <3>2. table' = [table EXCEPT ![s] = merged] \/ table' = table
      BY <1>2 DEF LoadCsv, sink
    <3> HIDE DEF merged
    <3>3. QED
      BY <3>1, <3>2
  <2>2. loaded' \in [Streams -> Nat]
    <3>1. Len(sent[s]) \in Nat
      OBVIOUS
    <3>2. loaded' = [loaded EXCEPT ![s] = Len(sent[s])] \/ loaded' = loaded
      BY <1>2 DEF LoadCsv, sink
    <3>3. QED
      BY <3>1, <3>2
  <2>3. QED
    BY <1>2, <2>1, <2>2 DEF LoadCsv, input, buffers
<1>3. ASSUME NEW s \in Streams, NEW r \in Record, RecordMsg(s, r) PROVE TypeOK'
  <2>1. sent' \in [Streams -> Seq(Record)]
    BY <1>3 DEF RecordMsg
  <2>2. records_to_load' \in [Streams -> [Keys -> Nat]]
    <3>1. Len(sent[s]) + 1 \in Nat
      OBVIOUS
    <3>2. r.key \in Keys
      BY DEF Record
    <3>3. QED
      BY <1>3, <3>1, <3>2 DEF RecordMsg
  <2>3. row_count' \in [Streams -> Nat]
    <3> DEFINE full == {k \in Keys : records_to_load'[s][k] # 0}
    <3>1. IsFiniteSet(full)
      BY FS_Subset
    <3>2. Cardinality(full) \in Nat
      BY <3>1, FS_CardinalityType
    <3>3. row_count' = [row_count EXCEPT ![s] = Cardinality(full)]
      BY <1>3 DEF RecordMsg
    <3> HIDE DEF full
    <3>4. QED
      BY <3>2, <3>3
  <2>4. /\ to_flush' \subseteq Streams /\ pending' \subseteq to_flush'
        /\ filtered' \in BOOLEAN /\ after' \in {"read", "end"}
        /\ current' \in Streams /\ pc' \in {"read", "flush"}
    BY <1>3 DEF RecordMsg, StartFlush, BufferedStreams, control
  <2>5. QED
    BY <1>3, <2>1, <2>2, <2>3, <2>4 DEF RecordMsg, sink
<1>4. ASSUME NEW st \in [Streams -> 0..MaxRecords], StateMsg(st) PROVE TypeOK'
  BY <1>4 DEF StateMsg, input, buffers, control, sink
<1>5. CASE ActivateVersion
  BY <1>5 DEF ActivateVersion, input, buffers, control, sink
<1>6. CASE EndOfInput
  BY <1>6 DEF EndOfInput, StartFlush, Emit, BufferedStreams, input, buffers, sink
<1>7. CASE DeleteRows
  <2>1. table' \in [Streams -> [Keys -> Nat]]
    BY <1>7 DEF DeleteRows
  <2>2. row_count' \in [Streams -> Nat]
    BY <1>7 DEF DeleteRows, RowCountAfterLoad
  <2>3. QED
    BY <1>7, <2>1, <2>2 DEF DeleteRows, input
<1>8. CASE FinishFlush
  <2>1. FlushedPositions \in Position \cup {NoState}
    <3>1. CASE to_flush = {} \/ (filtered /\ state = NoState)
      BY <3>1 DEF FlushedPositions
    <3>2. CASE to_flush # {} /\ ~filtered
      BY <3>2 DEF FlushedPositions
    <3>3. CASE to_flush # {} /\ filtered /\ state # NoState
      BY <3>3 DEF FlushedPositions
    <3>4. QED
      BY <3>1, <3>2, <3>3 DEF FlushedPositions
  <2>2. records_to_load' \in [Streams -> [Keys -> Nat]]
    BY <1>8 DEF FinishFlush
  <2>3. emitted' \in Position \cup {NoState} /\ flushed_state' = FlushedPositions
    BY <1>8, <2>1 DEF FinishFlush, Emit
  <2>4. state' = state /\ (state = NoState <=> FlushedPositions = NoState)
    BY <1>8 DEF FinishFlush, FlushedPositions
  <2> HIDE DEF Position
  <2>5. QED
    BY <1>8, <2>1, <2>2, <2>3, <2>4 DEF FinishFlush, input, sink
<1>9. CASE Fail
  BY <1>9 DEF Fail, input, buffers, sink
<1>10. CASE UNCHANGED vars
  BY <1>10 DEF vars, input, buffers, control, sink
<1> HIDE DEF TypeOK
<1>11. QED
  BY <1>1, <1>2, <1>3, <1>4, <1>5, <1>6, <1>7, <1>8, <1>9, <1>10 DEF Next

\* The type invariant holds in every behaviour of the process.
THEOREM TypeCorrect == Spec => []TypeOK
<1>1. Init => TypeOK
  <2> SUFFICES ASSUME Init PROVE TypeOK
    OBVIOUS
  <2>1. sent \in [Streams -> Seq(Record)]
    BY DEF Init
  <2>2. records_to_load \in [Streams -> [Keys -> Nat]] /\ table \in [Streams -> [Keys -> Nat]]
    BY DEF Init
  <2>3. QED
    BY <2>1, <2>2 DEF Init, TypeOK
<1>2. QED
  BY <1>1, TypePreserved, PTL DEF Spec

-----------------------------------------------------------------------------

\* The row count that RECORD leaves for its stream is positive: the record it
\* just buffered is counted.
LEMMA RecordCounted ==
    ASSUME TypeOK, NEW s \in Streams, NEW r \in Record, RecordMsg(s, r)
    PROVE  row_count'[s] > 0
<1> DEFINE full == {k \in Keys : records_to_load'[s][k] # 0}
<1>1. IsFiniteSet(full)
  BY KeysAssumption, FS_Subset
<1>2. r.key \in full
  <2>1. r.key \in Keys /\ Len(sent[s]) + 1 # 0
    BY DEF Record, TypeOK
  <2>2. records_to_load'[s][r.key] = Len(sent[s]) + 1
    BY <2>1 DEF RecordMsg, TypeOK
  <2>3. QED
    BY <2>1, <2>2
<1>3. row_count'[s] = Cardinality(full)
  BY DEF RecordMsg, TypeOK
<1> HIDE DEF full
<1>4. QED
  BY <1>1, <1>2, <1>3, FS_EmptySet, FS_CardinalityType

\* A RECORD extends its own stream by one and no other.
LEMMA RecordSent ==
    ASSUME TypeOK, NEW s \in Streams, NEW r \in Record, RecordMsg(s, r)
    PROVE  /\ Len(sent'[s]) = Len(sent[s]) + 1
           /\ \A t \in Streams : /\ t # s => sent'[t] = sent[t]
                                 /\ Len(sent[t]) <= Len(sent'[t])
<1>1. sent' = [sent EXCEPT ![s] = Append(@, r)] /\ sent[s] \in Seq(Record)
  BY DEF RecordMsg, TypeOK
<1>2. Len(Append(sent[s], r)) = Len(sent[s]) + 1
  BY <1>1
<1>3. \A t \in Streams : Len(sent[t]) \in Nat
  BY DEF TypeOK
<1>4. QED
  BY <1>1, <1>2, <1>3 DEF TypeOK

\* Loading a stream brings its history up to what was sent, provided a stream
\* without buffered rows was already there.
LEMMA CountsPreserved ==
    ASSUME TypeOK, CountsInv, FlushInv, [Next]_vars
    PROVE  CountsInv' /\ \A s \in Streams : loaded[s] <= loaded'[s]
<1> USE DEF CountsInv, BufferedStreams
<1>0. \A s \in Streams : Len(sent[s]) \in Nat /\ loaded[s] \in Nat /\ row_count[s] \in Nat
  BY DEF TypeOK
<1>1. ASSUME NEW s \in Streams, Schema(s)
      PROVE CountsInv' /\ UNCHANGED loaded
  BY <1>1 DEF Schema, buffers, sink
<1>2. ASSUME NEW s \in Streams, LoadCsv(s)
      PROVE CountsInv' /\ \A t \in Streams : loaded[t] <= loaded'[t]
  <2>1. UNCHANGED <<sent, row_count>>
    BY <1>2 DEF LoadCsv, input, buffers
  <2>2. loaded' = [loaded EXCEPT ![s] = Len(sent[s])] \/ loaded' = loaded
    BY <1>2 DEF LoadCsv, sink
  <2>3. ASSUME NEW t \in Streams
        PROVE  loaded'[t] = loaded[t] \/ loaded'[t] = Len(sent[t])
    BY <2>2 DEF TypeOK
  <2>4. QED
    BY <1>0, <2>1, <2>3
<1>3. ASSUME NEW s \in Streams, NEW r \in Record, RecordMsg(s, r)
      PROVE CountsInv' /\ UNCHANGED loaded
  <2>1. UNCHANGED loaded /\ \A t \in Streams : t # s => row_count'[t] = row_count[t]
    <3> DEFINE n == Cardinality({k \in Keys : records_to_load'[s][k] # 0})
    <3>1. row_count' = [row_count EXCEPT ![s] = n]
      BY <1>3 DEF RecordMsg
    <3>2. UNCHANGED loaded
      BY <1>3 DEF RecordMsg, sink
    <3> HIDE DEF n
    <3>3. QED
      BY <3>1, <3>2 DEF TypeOK
  <2>2. row_count'[s] > 0
    BY <1>3, RecordCounted
  <2>3. sent' = [sent EXCEPT ![s] = Append(@, r)] /\ Append(sent[s], r) # << >>
    BY <1>3 DEF RecordMsg, TypeOK
  <2>4. \A t \in Streams : sent[t] # << >> \/ t = s => sent'[t] # << >>
    BY <2>3 DEF TypeOK
  <2>5. QED
    BY <1>0, <1>3, <2>1, <2>2, <2>4, RecordSent
<1>4. ASSUME NEW st \in [Streams -> 0..MaxRecords], StateMsg(st)
      PROVE CountsInv' /\ UNCHANGED loaded
  BY <1>4 DEF StateMsg, input, buffers, sink
<1>5. CASE ActivateVersion
  BY <1>0, <1>5 DEF ActivateVersion, input, buffers, sink
<1>6. CASE EndOfInput
  BY <1>0, <1>6 DEF EndOfInput, input, buffers, sink
<1>7. CASE DeleteRows
  <2>1. UNCHANGED <<sent, loaded>> /\ row_count' = [row_count EXCEPT ![current] = 0]
    BY <1>7 DEF DeleteRows, RowCountAfterLoad, input
  <2>2. loaded[current] = Len(sent[current])
    BY <1>7 DEF DeleteRows, FlushInv
  <2>3. QED
    BY <1>0, <2>1, <2>2 DEF TypeOK
<1>8. CASE FinishFlush
  BY <1>0, <1>8 DEF FinishFlush, input, sink
<1>9. CASE Fail
  BY <1>0, <1>9 DEF Fail, input, buffers, sink
<1>10. CASE UNCHANGED vars
  BY <1>0, <1>10 DEF vars, input, buffers, sink
<1>11. QED
  BY <1>0, <1>1, <1>2, <1>3, <1>4, <1>5, <1>6, <1>7, <1>8, <1>9, <1>10 DEF Next

\* The running flush remembers which streams it has loaded.
LEMMA FlushPreserved ==
    ASSUME TypeOK, CountsInv, FlushInv, [Next]_vars
    PROVE  FlushInv'
<1> USE DEF FlushInv
<1>1. ASSUME NEW s \in Streams, Schema(s) PROVE FlushInv'
  <2>1. CASE row_count[s] > 0
    <3>1. s \in BufferedStreams
      BY <2>1 DEF CountsInv
    <3>2. QED
      BY <1>1, <2>1, <3>1 DEF Schema, StartFlush, BufferedStreams
  <2>2. CASE ~(row_count[s] > 0)
    BY <1>1, <2>2 DEF Schema, control, buffers, sink
  <2>3. QED
    BY <2>1, <2>2
<1>2. ASSUME NEW s \in Streams, LoadCsv(s) PROVE FlushInv'
  <2>1. UNCHANGED <<sent, row_count, to_flush, pending, filtered>>
        /\ pc' = "delete" /\ current' = s /\ s \in pending /\ pc = "flush"
    BY <1>2 DEF LoadCsv, input, buffers
  <2>2. loaded'[s] = Len(sent[s])
    <3>1. CASE row_count[s] > 0
      BY <1>2, <3>1 DEF LoadCsv, TypeOK
    <3>2. CASE ~(row_count[s] > 0)
      BY <1>2, <3>2 DEF LoadCsv, TypeOK, CountsInv, sink
    <3>3. QED
      BY <3>1, <3>2
  <2>3. QED
    BY <2>1, <2>2 DEF BufferedStreams
<1>3. ASSUME NEW s \in Streams, NEW r \in Record, RecordMsg(s, r) PROVE FlushInv'
  <2>1. CASE row_count'[s] >= BatchSize
    <3>1. \A t \in Streams : sent'[t] # << >> <=> (t = s \/ sent[t] # << >>)
      <4>1. sent' = [sent EXCEPT ![s] = Append(@, r)]
        BY <1>3 DEF RecordMsg
      <4>2. Append(sent[s], r) # << >>
        <5>1. sent[s] \in Seq(Record)
          BY DEF TypeOK
        <5>2. QED
          BY <5>1
      <4>3. QED
        BY <4>1, <4>2 DEF TypeOK
    <3>2. BufferedStreams' = BufferedStreams \cup {s}
      BY <3>1 DEF BufferedStreams
    <3>3. /\ pc' = "flush" /\ filtered' = ~FlushAllStreams
          /\ to_flush' = IF FlushAllStreams THEN BufferedStreams \cup {s} ELSE {s}
          /\ pending' = to_flush'
      BY <1>3, <2>1 DEF RecordMsg, StartFlush
    <3>4. QED
      BY <3>2, <3>3, ConfigAssumption
  <2>2. CASE ~(row_count'[s] >= BatchSize)
    <3>1. pc' = "read"
      BY <1>3, <2>2 DEF RecordMsg, control
    <3>2. QED
      BY <3>1
  <2>3. QED
    BY <2>1, <2>2
<1>4. ASSUME NEW st \in [Streams -> 0..MaxRecords], StateMsg(st) PROVE FlushInv'
  BY <1>4 DEF StateMsg, control
<1>5. CASE ActivateVersion
  BY <1>5 DEF ActivateVersion, control
<1>6. CASE EndOfInput
  <2>1. CASE SomethingBuffered
    <3>1. PICK s \in Streams : row_count[s] > 0
      BY <2>1 DEF SomethingBuffered
    <3>2. s \in BufferedStreams
      BY <3>1 DEF CountsInv
    <3>3. QED
      BY <1>6, <2>1, <3>2 DEF EndOfInput, StartFlush, BufferedStreams, input
  <2>2. CASE ~SomethingBuffered
    BY <1>6, <2>2 DEF EndOfInput
  <2>3. QED
    BY <2>1, <2>2
<1>7. CASE DeleteRows
  <2>1. UNCHANGED <<sent, to_flush, filtered>> /\ pc' = "flush"
        /\ pending' = pending \ {current}
        /\ row_count' = [row_count EXCEPT ![current] = 0]
    BY <1>7 DEF DeleteRows, RowCountAfterLoad, input
  <2>2. pc = "delete"
    BY <1>7 DEF DeleteRows
  <2>3. QED
    BY <2>1, <2>2 DEF TypeOK, BufferedStreams
<1>8. CASE FinishFlush
  BY <1>8 DEF FinishFlush
<1>9. CASE Fail
  BY <1>9 DEF Fail
<1>10. CASE UNCHANGED vars
  BY <1>10 DEF vars, input, buffers, control, sink, BufferedStreams
<1>11. QED
  BY <1>1, <1>2, <1>3, <1>4, <1>5, <1>6, <1>7, <1>8, <1>9, <1>10 DEF Next

-----------------------------------------------------------------------------

\* What the counters and the positions of the states range over.
LEMMA Numbers ==
    ASSUME TypeOK
    PROVE  \A s \in Streams : /\ Len(sent[s]) \in Nat
                              /\ loaded[s] \in Nat
                              /\ row_count[s] \in Nat
                              /\ state # NoState => state[s] \in Nat
                              /\ flushed_state # NoState => flushed_state[s] \in Nat
                              /\ emitted # NoState => emitted[s] \in Nat
BY DEF TypeOK, Position

\* The state kept in flushed_state never overtakes the last STATE message, and
\* that never covers a record that was not sent.
LEMMA StatePreserved ==
    ASSUME TypeOK, StateInv, [Next]_vars
    PROVE  StateInv'
<1> USE DEF StateInv
<1>0. \A s \in Streams : /\ Len(sent[s]) \in Nat
                         /\ state # NoState => state[s] \in Nat
                         /\ flushed_state # NoState => flushed_state[s] \in Nat
  BY DEF TypeOK, Position
<1>1. ASSUME NEW s \in Streams, Schema(s) PROVE StateInv'
  BY <1>1 DEF Schema
<1>2. ASSUME NEW s \in Streams, LoadCsv(s) PROVE StateInv'
  BY <1>2 DEF LoadCsv, input
<1>3. ASSUME NEW s \in Streams, NEW r \in Record, RecordMsg(s, r) PROVE StateInv'
  <2>1. UNCHANGED <<state, flushed_state>>
    BY <1>3 DEF RecordMsg
  <2>2. \A t \in Streams : Len(sent'[t]) \in Nat /\ Len(sent[t]) <= Len(sent'[t])
    <3>1. /\ Len(sent'[s]) = Len(sent[s]) + 1
          /\ \A t \in Streams : t # s => sent'[t] = sent[t]
      BY <1>3, RecordSent
    <3>2. QED
      BY <1>0, <3>1
  <2>3. QED
    BY <1>0, <2>1, <2>2
<1>4. ASSUME NEW st \in [Streams -> 0..MaxRecords], StateMsg(st) PROVE StateInv'
  <2>1. UNCHANGED sent /\ state' = st
    BY <1>4 DEF StateMsg, input
  <2>2. \A s \in Streams : st[s] \in Nat /\ st[s] <= Len(sent[s])
                          /\ (state # NoState => state[s] <= st[s])
    BY <1>4, MaxRecordsAssumption DEF StateMsg
  <2>3. flushed_state' = IF flushed_state = NoState THEN st ELSE flushed_state
    BY <1>4 DEF StateMsg
  <2>4. flushed_state = NoState <=> state = NoState
    BY DEF TypeOK
  <2>5. QED
    BY <1>0, <2>1, <2>2, <2>3, <2>4
<1>5. CASE ActivateVersion
  BY <1>0, <1>5 DEF ActivateVersion, input
<1>6. CASE EndOfInput
  BY <1>6 DEF EndOfInput, input
<1>7. CASE DeleteRows
  BY <1>7 DEF DeleteRows, input
<1>8. CASE FinishFlush
  <2>1. UNCHANGED <<sent, state>> /\ flushed_state' = FlushedPositions
    BY <1>8 DEF FinishFlush, input
  <2>2. CASE FlushedPositions = flushed_state
    BY <2>1, <2>2
  <2>3. CASE FlushedPositions = state
    BY <1>0, <2>1, <2>3
  <2>4. CASE /\ FlushedPositions = [s \in Streams |->
                  IF s \in to_flush /\ state[s] # 0 THEN state[s] ELSE flushed_state[s]]
             /\ state # NoState
    BY <1>0, <2>1, <2>4 DEF TypeOK
  <2>5. QED
    BY <2>2, <2>3, <2>4 DEF FlushedPositions
<1>9. CASE Fail
  BY <1>9 DEF Fail, input
<1>10. CASE UNCHANGED vars
  BY <1>10 DEF vars, input
<1>11. QED
  BY <1>1, <1>2, <1>3, <1>4, <1>5, <1>6, <1>7, <1>8, <1>9, <1>10 DEF Next

\* A tap that sends its state first never puts flushed_state ahead of the load.
LEMMA StateFirstPreserved ==
    ASSUME TypeOK, CountsInv, FlushInv, StateInv, StateFirstInv, [Next]_vars
    PROVE  StateFirstInv'
<1> SUFFICES ASSUME StateFirst PROVE StateFirstInv'
  BY DEF StateFirstInv
<1> USE DEF StateFirstInv, Below
<1>0. \A s \in Streams : /\ loaded[s] \in Nat /\ loaded[s] <= loaded'[s]
                         /\ loaded'[s] \in Nat
                         /\ state # NoState => state[s] \in Nat
                         /\ flushed_state # NoState => flushed_state[s] \in Nat
                         /\ Len(sent[s]) \in Nat
  <2>1. \A s \in Streams : loaded'[s] \in Nat
    BY TypePreserved DEF TypeOK
  <2>2. \A s \in Streams : loaded[s] <= loaded'[s]
    BY CountsPreserved
  <2>3. QED
    BY <2>1, <2>2, Numbers
<1>1. CASE UNCHANGED <<flushed_state, state>> /\ (state # NoState \/ UNCHANGED sent)
  BY <1>0, <1>1
<1>2. ASSUME NEW s \in Streams, NEW r \in Record, RecordMsg(s, r)
      PROVE UNCHANGED <<flushed_state, state>> /\ (state # NoState \/ UNCHANGED sent)
  BY <1>2 DEF RecordMsg
<1>3. ASSUME NEW st \in [Streams -> 0..MaxRecords], StateMsg(st) PROVE StateFirstInv'
  <2>1. UNCHANGED sent /\ state' = st /\ st # NoState
    BY <1>3, NoStateAssumption, MaxRecordsAssumption DEF StateMsg, input
  <2>2. CASE flushed_state # NoState
    BY <1>0, <1>3, <2>1, <2>2 DEF StateMsg
  <2>3. CASE flushed_state = NoState
    <3>1. flushed_state' = st /\ \A s \in Streams : st[s] <= Len(sent[s]) /\ st[s] \in Nat
      BY <1>3, <2>3, MaxRecordsAssumption DEF StateMsg
    <3>2. \A s \in Streams : sent[s] = << >>
      BY <2>3 DEF TypeOK
    <3>3. \A s \in Streams : st[s] <= loaded'[s]
      BY <1>0, <3>1, <3>2
    <3>4. QED
      BY <2>1, <3>1, <3>3
  <2>4. QED
    BY <2>2, <2>3
<1>4. CASE ActivateVersion
  BY <1>0, <1>1, <1>4 DEF ActivateVersion, TypeOK, input
<1>5. CASE FinishFlush
  <2>1. UNCHANGED <<sent, state, loaded>> /\ flushed_state' = FlushedPositions
    BY <1>5 DEF FinishFlush, input, sink
  <2>2. CASE FlushedPositions = flushed_state
    BY <1>0, <2>1, <2>2 DEF TypeOK
  <2>3. \A s \in to_flush : s \in Streams /\ loaded[s] = Len(sent[s])
    BY <1>5 DEF FinishFlush, FlushInv, CountsInv, TypeOK
  <2>4. CASE ~filtered /\ FlushedPositions = state
    <3>1. to_flush = BufferedStreams
      BY <1>5, <2>4 DEF FinishFlush, FlushInv
    <3>2. state # NoState => \A s \in Streams : state[s] <= loaded[s]
      BY <1>0, <2>3, <3>1 DEF StateInv, BufferedStreams
    <3>3. QED
      BY <1>0, <2>1, <2>4, <3>2
  <2>5. CASE /\ FlushedPositions = [s \in Streams |->
                  IF s \in to_flush /\ state[s] # 0 THEN state[s] ELSE flushed_state[s]]
             /\ state # NoState
    BY <1>0, <2>1, <2>3, <2>5 DEF StateInv, TypeOK
  <2>6. QED
    BY <2>2, <2>4, <2>5 DEF FlushedPositions
<1>6. ASSUME NEW s \in Streams, Schema(s) \/ LoadCsv(s)
      PROVE UNCHANGED <<flushed_state, state, sent>>
  BY <1>6 DEF Schema, LoadCsv, input
<1>7. ASSUME EndOfInput \/ DeleteRows \/ Fail \/ UNCHANGED vars
      PROVE UNCHANGED <<flushed_state, state, sent>>
  BY <1>7 DEF EndOfInput, DeleteRows, Fail, vars, input
<1>8. QED
  BY <1>1, <1>2, <1>3, <1>4, <1>5, <1>6, <1>7 DEF Next

\* Outside the two places that print a state, emitted is unchanged; at both of
\* them everything the printed state covers has been loaded.
LEMMA EmittedPreserved ==
    ASSUME TypeOK, SafeConfig, IInv, [Next]_vars
    PROVE  EmittedStateIsLoaded'
<1> USE DEF EmittedStateIsLoaded, IInv
<1>0. \A s \in Streams : /\ loaded[s] \in Nat /\ loaded[s] <= loaded'[s]
                         /\ loaded'[s] \in Nat
                         /\ state # NoState => state[s] \in Nat
                         /\ flushed_state # NoState => flushed_state[s] \in Nat
                         /\ emitted # NoState => emitted[s] \in Nat
                         /\ Len(sent[s]) \in Nat
  <2>1. \A s \in Streams : loaded'[s] \in Nat
    BY TypePreserved DEF TypeOK
  <2>2. \A s \in Streams : loaded[s] <= loaded'[s]
    BY CountsPreserved
  <2>3. QED
    BY <2>1, <2>2, Numbers
<1>1. CASE UNCHANGED emitted
  BY <1>0, <1>1
<1>2. CASE EndOfInput
  <2>1. CASE SomethingBuffered
    BY <1>1, <1>2, <2>1 DEF EndOfInput
  <2>2. CASE ~SomethingBuffered
    <3>1. \A s \in Streams : row_count[s] = 0
      BY <2>2 DEF SomethingBuffered, TypeOK
    <3>2. \A s \in Streams : loaded[s] = Len(sent[s])
      BY <3>1 DEF CountsInv
    <3>3. flushed_state # NoState => \A s \in Streams : flushed_state[s] <= loaded[s]
      <4>1. flushed_state # NoState => state # NoState
        BY DEF TypeOK
      <4>2. QED
        BY <1>0, <3>2, <4>1 DEF StateInv
    <3>4. emitted' = IF flushed_state = NoState THEN emitted ELSE flushed_state
      BY <1>2, <2>2 DEF EndOfInput, Emit
    <3>5. QED
      BY <1>0, <3>3, <3>4
  <2>3. QED
    BY <2>1, <2>2
<1>3. CASE FinishFlush
  <2>1. UNCHANGED <<sent, state, loaded>>
        /\ emitted' = (IF FlushedPositions = NoState THEN emitted ELSE FlushedPositions)
        /\ pc = "flush" /\ pending = {}
    BY <1>3 DEF FinishFlush, Emit, input, sink
  <2>2. to_flush # {} /\ \A s \in to_flush : s \in Streams /\ loaded[s] = Len(sent[s])
    BY <2>1 DEF FlushInv, CountsInv, TypeOK
  <2>3. CASE StateFirst
    <3>1. StateFirstInv' /\ flushed_state' = FlushedPositions
      BY <1>3, StateFirstPreserved DEF FinishFlush
    <3>2. FlushedPositions # NoState => \A s \in Streams : FlushedPositions[s] <= loaded'[s]
      BY <2>3, <3>1 DEF StateFirstInv, Below
    <3>3. QED
      BY <1>0, <2>1, <3>2
  <2>4. CASE ~filtered
    <3>1. FlushedPositions = state
      BY <2>2, <2>4 DEF FlushedPositions
    <3>2. state # NoState => \A s \in Streams : state[s] <= loaded[s]
      BY <1>0, <2>1, <2>2, <2>4 DEF StateInv, FlushInv, BufferedStreams
    <3>3. QED
      BY <1>0, <2>1, <3>1, <3>2
  <2>5. CASE filtered /\ ~StateFirst
    <3>1. \E s \in Streams : Streams = {s}
      BY <2>1, <2>5 DEF SafeConfig, FlushInv
    <3>2. to_flush = Streams
      BY <2>2, <3>1 DEF TypeOK
    <3>3. CASE state = NoState
      BY <1>0, <2>1, <2>5, <3>3 DEF FlushedPositions, TypeOK
    <3>4. CASE state # NoState
      <4>1. FlushedPositions = [s \in Streams |->
                  IF s \in to_flush /\ state[s] # 0 THEN state[s] ELSE flushed_state[s]]
        BY <2>2, <2>5, <3>4 DEF FlushedPositions
      <4>2. \A s \in Streams : FlushedPositions[s] <= loaded[s]
        BY <1>0, <2>2, <3>2, <3>4, <4>1 DEF StateInv, TypeOK
      <4>3. QED
        BY <1>0, <2>1, <4>2
    <3>5. QED
      BY <3>3, <3>4
  <2>6. QED
    BY <2>3, <2>4, <2>5 DEF TypeOK
<1>4. ASSUME NEW s \in Streams, Schema(s) \/ LoadCsv(s) PROVE UNCHANGED emitted
  BY <1>4 DEF Schema, LoadCsv
<1>5. ASSUME NEW s \in Streams, NEW r \in Record, RecordMsg(s, r) PROVE UNCHANGED emitted
  BY <1>5 DEF RecordMsg
<1>6. ASSUME NEW st \in [Streams -> 0..MaxRecords], StateMsg(st) PROVE UNCHANGED emitted
  BY <1>6 DEF StateMsg
<1>7. ASSUME ActivateVersion \/ DeleteRows \/ Fail \/ UNCHANGED vars PROVE UNCHANGED emitted
  BY <1>7 DEF ActivateVersion, DeleteRows, Fail, vars
<1>8. QED
  BY <1>1, <1>2, <1>3, <1>4, <1>5, <1>6, <1>7 DEF Next

\* In every safe configuration no printed state covers an unloaded record,
\* whatever the number of streams, the batch size and the order of messages.
THEOREM NoStateAheadOfLoad == SafeConfig /\ Spec => []EmittedStateIsLoaded
<1> SUFFICES ASSUME SafeConfig PROVE Spec => []EmittedStateIsLoaded
  OBVIOUS
<1>1. Init => IInv
  BY StreamsAssumption
     DEF Init, IInv, CountsInv, FlushInv, StateInv, StateFirstInv, Below,
         EmittedStateIsLoaded, BufferedStreams
<1>2. TypeOK /\ IInv /\ [Next]_vars => IInv'
  <2> SUFFICES ASSUME TypeOK, IInv, [Next]_vars PROVE IInv'
    OBVIOUS
  <2>1. EmittedStateIsLoaded'
    BY EmittedPreserved
  <2>2. QED
    BY <2>1, CountsPreserved, FlushPreserved, StatePreserved, StateFirstPreserved
       DEF IInv
<1>3. IInv => EmittedStateIsLoaded
  BY DEF IInv
<1>4. QED
  BY <1>1, <1>2, <1>3, TypeCorrect, PTL DEF Spec

-----------------------------------------------------------------------------
(* The clean exit and the printed positions                                *)

\* The flush that ends the process takes every buffer.
EndInv == pc \in {"flush", "delete"} /\ after = "end" => ~filtered

\* What was printed is behind the state that will be printed next.
PrintedInv ==
    emitted # NoState =>
        flushed_state # NoState /\ \A s \in Streams : emitted[s] <= flushed_state[s]

\* What holds of the flushes in every configuration.
FlowInv == TypeOK /\ CountsInv /\ FlushInv /\ StateInv

LEMMA FlowAlways == Spec => []FlowInv
<1>1. Init => CountsInv /\ FlushInv /\ StateInv
  BY DEF Init, CountsInv, FlushInv, StateInv, BufferedStreams
<1>2. TypeOK /\ CountsInv /\ FlushInv /\ StateInv /\ [Next]_vars
        => CountsInv' /\ FlushInv' /\ StateInv'
  BY CountsPreserved, FlushPreserved, StatePreserved
<1>3. QED
  BY <1>1, <1>2, TypeCorrect, PTL DEF Spec, FlowInv

\* The last flush leaves no buffer behind it.
LEMMA EndPreserved ==
    ASSUME FlowInv, EndInv, CleanExitLoadsEverything, [Next]_vars
    PROVE  EndInv' /\ CleanExitLoadsEverything'
<1> USE DEF FlowInv, EndInv, CleanExitLoadsEverything
<1>1. ASSUME NEW s \in Streams, Schema(s) PROVE EndInv' /\ CleanExitLoadsEverything'
  BY <1>1 DEF Schema, StartFlush, control
<1>2. ASSUME NEW s \in Streams, LoadCsv(s) PROVE EndInv' /\ CleanExitLoadsEverything'
  BY <1>2 DEF LoadCsv
<1>3. ASSUME NEW s \in Streams, NEW r \in Record, RecordMsg(s, r)
      PROVE EndInv' /\ CleanExitLoadsEverything'
  BY <1>3 DEF RecordMsg, StartFlush, control
<1>4. ASSUME NEW st \in [Streams -> 0..MaxRecords], StateMsg(st)
      PROVE EndInv' /\ CleanExitLoadsEverything'
  BY <1>4 DEF StateMsg, control
<1>5. CASE ActivateVersion
  BY <1>5 DEF ActivateVersion, control
<1>6. CASE EndOfInput
  <2>1. CASE SomethingBuffered
    BY <1>6, <2>1 DEF EndOfInput, StartFlush
  <2>2. CASE ~SomethingBuffered
    <3>1. \A s \in Streams : loaded[s] = Len(sent[s])
      BY <2>2 DEF SomethingBuffered, TypeOK, CountsInv
    <3>2. pc' = "stopped" /\ UNCHANGED <<sent, loaded>>
      BY <1>6, <2>2 DEF EndOfInput, input, sink
    <3>3. QED
      BY <3>1, <3>2
  <2>3. QED
    BY <2>1, <2>2
<1>7. CASE DeleteRows
  BY <1>7 DEF DeleteRows
<1>8. CASE FinishFlush
  <2>1. /\ pc' = IF after = "end" THEN "stopped" ELSE "read"
        /\ UNCHANGED <<sent, loaded>> /\ pc = "flush" /\ pending = {}
    BY <1>8 DEF FinishFlush, input, sink
  <2>2. ASSUME after = "end", NEW s \in Streams PROVE loaded[s] = Len(sent[s])
    <3>1. to_flush = BufferedStreams
      BY <2>1, <2>2 DEF FlushInv
    <3>2. row_count[s] = 0
      BY <2>1, <3>1 DEF FlushInv, CountsInv, TypeOK
    <3>3. QED
      BY <3>2 DEF CountsInv
  <2>3. QED
    BY <2>1, <2>2
<1>9. CASE Fail
  BY <1>9 DEF Fail
<1>10. CASE UNCHANGED vars
  BY <1>10 DEF vars, input, control, sink
<1>11. QED
  BY <1>1, <1>2, <1>3, <1>4, <1>5, <1>6, <1>7, <1>8, <1>9, <1>10 DEF Next

\* A target that stops by itself has loaded every record it received, in every
\* configuration.
THEOREM CleanExitIsComplete == Spec => []CleanExitLoadsEverything
<1>1. Init => EndInv /\ CleanExitLoadsEverything
  BY DEF Init, EndInv, CleanExitLoadsEverything
<1>2. FlowInv /\ EndInv /\ CleanExitLoadsEverything /\ [Next]_vars
        => EndInv' /\ CleanExitLoadsEverything'
  BY EndPreserved
<1>3. QED
  BY <1>1, <1>2, FlowAlways, PTL DEF Spec

\* flushed_state moves forward only, and what is printed is the state it moves
\* to.
LEMMA PrintedPreserved ==
    ASSUME FlowInv, PrintedInv, [Next]_vars
    PROVE  /\ PrintedInv'
           /\ emitted # NoState => \A s \in Streams : emitted[s] <= emitted'[s]
<1> USE DEF FlowInv, PrintedInv
<1> DEFINE Goal == /\ PrintedInv'
                   /\ emitted # NoState => \A s \in Streams : emitted[s] <= emitted'[s]
<1>0. \A s \in Streams : /\ state # NoState => state[s] \in Nat
                         /\ flushed_state # NoState => flushed_state[s] \in Nat
                         /\ emitted # NoState => emitted[s] \in Nat
  BY Numbers
<1>1. CASE UNCHANGED <<emitted, flushed_state>>
  BY <1>0, <1>1
<1>2. ASSUME NEW st \in [Streams -> 0..MaxRecords], StateMsg(st) PROVE Goal
  BY <1>0, <1>2 DEF StateMsg
<1>3. CASE ActivateVersion
  BY <1>0, <1>3 DEF ActivateVersion
<1>4. CASE EndOfInput
  <2>1. UNCHANGED flushed_state /\ (emitted' = emitted \/ (flushed_state # NoState /\ emitted' = flushed_state))
    BY <1>4 DEF EndOfInput, Emit
  <2>2. flushed_state # NoState => \A s \in Streams : flushed_state[s] <= flushed_state[s]
    BY <1>0
  <2>3. QED
    BY <1>1, <2>1, <2>2
<1>5. CASE FinishFlush
  <2>1. /\ flushed_state' = FlushedPositions
        /\ emitted' = (IF FlushedPositions = NoState THEN emitted ELSE FlushedPositions)
    BY <1>5 DEF FinishFlush, Emit
  <2>2. ASSUME flushed_state # NoState
        PROVE  FlushedPositions # NoState
               /\ \A s \in Streams : flushed_state[s] <= FlushedPositions[s]
    <3>1. state # NoState /\ \A s \in Streams : flushed_state[s] <= state[s]
      BY <2>2 DEF TypeOK, StateInv
    <3>2. CASE FlushedPositions = flushed_state
      BY <1>0, <2>2, <3>2
    <3>3. CASE FlushedPositions = state
      BY <3>1, <3>3
    <3>4. CASE FlushedPositions = [s \in Streams |->
                  IF s \in to_flush /\ state[s] # 0 THEN state[s] ELSE flushed_state[s]]
      <4>1. FlushedPositions \in Position
        BY <1>0, <2>2, <3>1, <3>4 DEF Position
      <4>2. \A s \in Streams : flushed_state[s] <= FlushedPositions[s]
        BY <1>0, <2>2, <3>1, <3>4
      <4>3. QED
        BY <4>1, <4>2, NoStateAssumption DEF Position
    <3>5. QED
      BY <3>2, <3>3, <3>4 DEF FlushedPositions
  <2>3. emitted # NoState => flushed_state # NoState
    BY DEF PrintedInv
  <2>4. FlushedPositions # NoState => FlushedPositions \in Position
    BY <1>5, TypePreserved, <2>1 DEF TypeOK
  <2>5. CASE emitted = NoState
    BY <2>1, <2>4, <2>5 DEF Position
  <2>6. CASE emitted # NoState
    <3>1. emitted' = FlushedPositions /\ flushed_state' = FlushedPositions /\ FlushedPositions # NoState
      BY <2>1, <2>2, <2>3, <2>6
    <3>2. \A s \in Streams : emitted[s] <= FlushedPositions[s] /\ FlushedPositions[s] \in Nat
      BY <1>0, <2>2, <2>3, <2>4, <2>6, <3>1 DEF Position
    <3>3. QED
      BY <3>1, <3>2
  <2>7. QED
    BY <2>5, <2>6
<1>6. ASSUME NEW s \in Streams, Schema(s) \/ LoadCsv(s) PROVE UNCHANGED <<emitted, flushed_state>>
  BY <1>6 DEF Schema, LoadCsv
<1>7. ASSUME NEW s \in Streams, NEW r \in Record, RecordMsg(s, r)
      PROVE UNCHANGED <<emitted, flushed_state>>
  BY <1>7 DEF RecordMsg
<1>8. ASSUME DeleteRows \/ Fail \/ UNCHANGED vars PROVE UNCHANGED <<emitted, flushed_state>>
  BY <1>8 DEF DeleteRows, Fail, vars
<1>9. QED
  BY <1>1, <1>2, <1>3, <1>4, <1>5, <1>6, <1>7, <1>8 DEF Next

\* The printed positions never move back, in every configuration: a state that
\* is saved later never makes the next run repeat more.
THEOREM PrintedNeverGoesBack == Spec => EmittedNeverGoesBack
<1>1. Init => PrintedInv
  BY DEF Init, PrintedInv
<1>2. FlowInv /\ PrintedInv /\ [Next]_vars => PrintedInv'
  BY PrintedPreserved
<1>3. FlowInv /\ PrintedInv /\ [Next]_vars
        => [emitted # NoState => \A s \in Streams : emitted[s] <= emitted'[s]]_emitted
  BY PrintedPreserved
<1>4. QED
  BY <1>1, <1>2, <1>3, FlowAlways, PTL DEF Spec, EmittedNeverGoesBack

-----------------------------------------------------------------------------
(* The rows of the warehouse                                               *)

\* The row of a key once deleted rows are dropped.
AfterDelete(s, i) == IF i # 0 /\ HardDelete /\ sent[s][i].deleted THEN 0 ELSE i

\* A stream the running flush has loaded, whose buffer is still to be emptied.
Stale(s) == \/ pc = "flush" /\ s \in to_flush \ pending
            \/ pc = "delete" /\ (s = current \/ s \in to_flush \ pending)

\* A buffer holds the last record of every key that was sent and not loaded.
BuffersInv ==
    pc # "failed" =>
        \A s \in Streams : ~Stale(s) =>
            \A k \in Keys : records_to_load[s][k] =
                IF LastOf(s, k, Len(sent[s])) > loaded[s] THEN LastOf(s, k, Len(sent[s])) ELSE 0

\* Between its two transactions a table lacks the deletions alone.
TransitInv ==
    pc = "delete" => \A k \in Keys : AfterDelete(current, table[current][k])
                                       = ReplayOf(current, k, loaded[current])

ReplayInv == TableIsReplay /\ TransitInv /\ BuffersInv

\* LastOf and ReplayOf of what was sent after a step.
LastThen(s, k, n) ==
    LET idx == {i \in 1..n : sent'[s][i].key = k}
    IN  IF idx = {} THEN 0 ELSE CHOOSE i \in idx : \A j \in idx : j <= i
ReplayThen(s, k, n) ==
    LET i == LastThen(s, k, n)
    IN  IF i # 0 /\ HardDelete /\ sent'[s][i].deleted THEN 0 ELSE i

\* A set of indexes has a largest one.
LEMMA LargestIndex ==
    ASSUME NEW n \in Nat, NEW T, T \subseteq 1..n, T # {}
    PROVE  \E i \in T : \A j \in T : j <= i
<1> DEFINE U == {n - i : i \in T}
           R == OpToRel(<, Nat)
<1>0. \A i \in T : n - i \in Nat
  OBVIOUS
<1>1. U \subseteq Nat /\ U # {}
  BY <1>0
<1>2. IsWellFoundedOn(R, Nat)
  BY NatLessThanWellFounded
<1>3. \A x, y \in Nat : y < x => <<y, x>> \in R
  BY DEF OpToRel
<1> HIDE DEF R
<1>4. PICK x \in U : \A y \in U : ~(<<y, x>> \in R)
  BY <1>1, <1>2, WFMin
<1>5. PICK i \in T : x = n - i
  OBVIOUS
<1>6. ASSUME NEW j \in T PROVE j <= i
  <2>1. n - j \in U /\ n - j \in Nat /\ n - i \in Nat
    BY <1>1, <1>4, <1>5
  <2>2. ~(n - j < n - i)
    BY <1>3, <1>4, <1>5, <2>1
  <2>3. QED
    BY <2>2
<1>7. QED
  BY <1>6

\* What the choice of the largest index, or 0, yields.
LastIndex(T) == IF T = {} THEN 0 ELSE CHOOSE i \in T : \A j \in T : j <= i

LEMMA LastIndexIsLargest ==
    ASSUME NEW n \in Nat, NEW T, T \subseteq 1..n
    PROVE  /\ LastIndex(T) \in 0..n
           /\ LastIndex(T) # 0 => LastIndex(T) \in T
           /\ \A j \in T : j <= LastIndex(T)
<1>1. CASE T = {}
  BY <1>1 DEF LastIndex
<1>2. CASE T # {}
  <2>1. \E i \in T : \A j \in T : j <= i
    BY <1>2, LargestIndex
  <2>2. LastIndex(T) \in T /\ \A j \in T : j <= LastIndex(T)
    BY <1>2, <2>1 DEF LastIndex
  <2>3. \A i \in T : i \in 0..n
    OBVIOUS
  <2>4. LastIndex(T) \in 0..n
    BY <2>2, <2>3, Zenon
  <2>5. QED
    BY <2>2, <2>4, Zenon
<1>3. QED
  BY <1>1, <1>2

\* LastOf is the last record of the key, in what was sent before the step ...
LEMMA LastOfIsLast ==
    ASSUME NEW s, NEW k, NEW n \in Nat
    PROVE  /\ LastOf(s, k, n) \in 0..n
           /\ LastOf(s, k, n) # 0 => sent[s][LastOf(s, k, n)].key = k
           /\ \A j \in 1..n : sent[s][j].key = k => j <= LastOf(s, k, n)
<1> DEFINE T == {i \in 1..n : sent[s][i].key = k}
<1>1. LastOf(s, k, n) = LastIndex(T)
  BY DEF LastOf, LastIndex
<1>2. T \subseteq 1..n
  OBVIOUS
<1> HIDE DEF T
<1>3. LastOf(s, k, n) \in 0..n /\ (LastOf(s, k, n) # 0 => LastOf(s, k, n) \in T)
      /\ \A j \in T : j <= LastOf(s, k, n)
  BY <1>1, <1>2, LastIndexIsLargest
<1>4. QED
  BY <1>3 DEF T

\* ... and after it.
LEMMA LastThenIsLast ==
    ASSUME NEW s, NEW k, NEW n \in Nat
    PROVE  /\ LastThen(s, k, n) \in 0..n
           /\ LastThen(s, k, n) # 0 => sent'[s][LastThen(s, k, n)].key = k
           /\ \A j \in 1..n : sent'[s][j].key = k => j <= LastThen(s, k, n)
<1> DEFINE T == {i \in 1..n : sent'[s][i].key = k}
<1>1. LastThen(s, k, n) = LastIndex(T)
  BY DEF LastThen, LastIndex
<1>2. T \subseteq 1..n
  OBVIOUS
<1> HIDE DEF T
<1>3. LastThen(s, k, n) \in 0..n /\ (LastThen(s, k, n) # 0 => LastThen(s, k, n) \in T)
      /\ \A j \in T : j <= LastThen(s, k, n)
  BY <1>1, <1>2, LastIndexIsLargest
<1>4. QED
  BY <1>3 DEF T

\* A shorter prefix that still has the last record of a key has the same one.
LEMMA LastOfPrefix ==
    ASSUME NEW s, NEW k, NEW m \in Nat, NEW n \in Nat, n <= m, LastOf(s, k, m) <= n
    PROVE  LastOf(s, k, n) = LastOf(s, k, m)
<1> DEFINE a == LastOf(s, k, n)
           b == LastOf(s, k, m)
<1>1. /\ a \in 0..n /\ (a # 0 => sent[s][a].key = k)
      /\ \A j \in 1..n : sent[s][j].key = k => j <= a
      /\ b \in 0..m /\ (b # 0 => sent[s][b].key = k)
      /\ \A j \in 1..m : sent[s][j].key = k => j <= b
  BY LastOfIsLast
<1>2. b <= n
  OBVIOUS
<1> HIDE DEF a, b
<1>3. a <= b
  BY <1>1
<1>4. b <= a
  BY <1>1, <1>2
<1>5. a = b
  BY <1>1, <1>3, <1>4
<1>6. QED
  BY <1>5 DEF a, b

\* A step that sends nothing leaves the last records and the replay alone.
LEMMA NothingSent ==
    ASSUME UNCHANGED sent
    PROVE  \A s, k, n : LastThen(s, k, n) = LastOf(s, k, n) /\ ReplayThen(s, k, n) = ReplayOf(s, k, n)
BY DEF LastThen, LastOf, ReplayThen, ReplayOf

\* A record that is sent becomes the last of its key.
LEMMA RecordIsLast ==
    ASSUME TypeOK, NEW s \in Streams, NEW r \in Record, RecordMsg(s, r)
    PROVE  /\ \A u \in Streams, k \in Keys : \A n \in 0..Len(sent[u]) :
                 LastThen(u, k, n) = LastOf(u, k, n) /\ ReplayThen(u, k, n) = ReplayOf(u, k, n)
           /\ \A k \in Keys : LastThen(s, k, Len(sent[s]) + 1) =
                 IF k = r.key THEN Len(sent[s]) + 1 ELSE LastOf(s, k, Len(sent[s]))
<1>1. /\ sent' = [sent EXCEPT ![s] = Append(@, r)]
      /\ \A u \in Streams : sent[u] \in Seq(Record)
  BY DEF RecordMsg, TypeOK
<1>2. \A u \in Streams : Len(sent[u]) \in Nat
  BY <1>1, LenProperties
<1>3. /\ \A u \in Streams \ {s} : sent'[u] = sent[u]
      /\ \A i \in 1..Len(sent[s]) : sent'[s][i] = sent[s][i]
      /\ sent'[s][Len(sent[s]) + 1] = r
  <2>1. sent'[s] = Append(sent[s], r) /\ \A u \in Streams \ {s} : sent'[u] = sent[u]
    BY <1>1 DEF TypeOK
  <2>2. QED
    BY <1>1, <2>1, AppendProperties
<1>4. ASSUME NEW u \in Streams, NEW k \in Keys, NEW n \in 0..Len(sent[u])
      PROVE  LastThen(u, k, n) = LastOf(u, k, n) /\ ReplayThen(u, k, n) = ReplayOf(u, k, n)
  <2>1. \A i \in 1..n : sent'[u][i] = sent[u][i]
    BY <1>2, <1>3
  <2>2. {i \in 1..n : sent'[u][i].key = k} = {i \in 1..n : sent[u][i].key = k}
    BY <2>1
  <2>3. LastThen(u, k, n) = LastOf(u, k, n)
    <3> DEFINE T == {i \in 1..n : sent[u][i].key = k}
               U == {i \in 1..n : sent'[u][i].key = k}
    <3>1. LastOf(u, k, n) = LastIndex(T)
      BY DEF LastOf, LastIndex
    <3>2. LastThen(u, k, n) = LastIndex(U)
      BY DEF LastThen, LastIndex
    <3>3. U = T
      BY <2>2
    <3> HIDE DEF T, U
    <3>4. QED
      BY <3>1, <3>2, <3>3
  <2>4. LastOf(u, k, n) # 0 => sent'[u][LastOf(u, k, n)] = sent[u][LastOf(u, k, n)]
    BY <1>2, <2>1, LastOfIsLast
  <2>5. QED
    BY <2>3, <2>4, Zenon DEF ReplayThen, ReplayOf
<1>5. ASSUME NEW k \in Keys
      PROVE  LastThen(s, k, Len(sent[s]) + 1) =
                 IF k = r.key THEN Len(sent[s]) + 1 ELSE LastOf(s, k, Len(sent[s]))
  <2> DEFINE n == Len(sent[s])
             a == LastThen(s, k, n + 1)
             b == LastOf(s, k, n)
  <2>0. n \in Nat /\ n + 1 \in Nat
    BY <1>2
  <2>1. /\ a \in 0..(n + 1) /\ (a # 0 => sent'[s][a].key = k)
        /\ \A j \in 1..(n + 1) : sent'[s][j].key = k => j <= a
    BY <2>0, LastThenIsLast
  <2>2. /\ b \in 0..n /\ (b # 0 => sent[s][b].key = k)
        /\ \A j \in 1..n : sent[s][j].key = k => j <= b
    BY <2>0, LastOfIsLast
  <2>3. (\A i \in 1..n : sent'[s][i] = sent[s][i]) /\ sent'[s][n + 1] = r
    BY <1>3
  <2> HIDE DEF n, a, b
  <2>4. CASE k = r.key
    <3>1. n + 1 <= a
      BY <2>0, <2>1, <2>3, <2>4
    <3>2. a = n + 1
      BY <2>0, <2>1, <3>1
    <3>3. QED
      BY <2>4, <3>2 DEF n, a
  <2>5. CASE k # r.key
    <3>1. a # n + 1
      BY <2>0, <2>1, <2>3, <2>5
    <3>2. a <= b
      BY <2>0, <2>1, <2>2, <2>3, <3>1
    <3>3. b <= a
      BY <2>0, <2>1, <2>2, <2>3
    <3>4. a = b
      BY <2>0, <2>1, <2>2, <3>2, <3>3
    <3>5. QED
      BY <2>5, <3>4 DEF n, a, b
  <2>6. QED
    BY <2>4, <2>5
<1>6. QED
  BY <1>4, <1>5

\* What an action must establish of the state it leads to, in terms of the
\* primed variables alone.
LEMMA ReplayGoal ==
    ASSUME /\ \A s \in Streams, k \in Keys :
                 ~(pc' \in {"delete", "failed"} /\ s = current')
                     => table'[s][k] = ReplayThen(s, k, loaded'[s]),
           pc' = "delete" => \A k \in Keys :
               (IF table'[current'][k] # 0 /\ HardDelete
                     /\ sent'[current'][table'[current'][k]].deleted
                THEN 0 ELSE table'[current'][k]) = ReplayThen(current', k, loaded'[current']),
           pc' # "failed" => \A s \in Streams :
               ~(\/ pc' = "flush" /\ s \in to_flush' \ pending'
                 \/ pc' = "delete" /\ (s = current' \/ s \in to_flush' \ pending'))
                 => \A k \in Keys : records_to_load'[s][k] =
                       IF LastThen(s, k, Len(sent'[s])) > loaded'[s]
                       THEN LastThen(s, k, Len(sent'[s])) ELSE 0
    PROVE  ReplayInv'
<1>1. TableIsReplay'
  BY DEF TableIsReplay, ReplayOf, ReplayThen, LastOf, LastThen
<1>2. TransitInv'
  BY DEF TransitInv, AfterDelete, ReplayOf, ReplayThen, LastOf, LastThen
<1>3. BuffersInv'
  BY DEF BuffersInv, Stale, LastOf, LastThen
<1>4. QED
  BY <1>1, <1>2, <1>3 DEF ReplayInv

\* A message that touches neither rows nor buffers keeps the replay.
LEMMA NothingLoaded ==
    ASSUME ReplayInv, UNCHANGED <<sent, records_to_load, table, loaded>>, pc = "read",
           pc' \in {"read", "flush", "stopped"},
           pc' = "flush" => pending' = to_flush'
    PROVE  ReplayInv'
<1>0. \A s, k, n : LastThen(s, k, n) = LastOf(s, k, n) /\ ReplayThen(s, k, n) = ReplayOf(s, k, n)
  BY NothingSent
<1>1. \A s \in Streams, k \in Keys : table'[s][k] = ReplayThen(s, k, loaded'[s])
  BY <1>0 DEF ReplayInv, TableIsReplay
<1>2. \A s \in Streams, k \in Keys : records_to_load'[s][k] =
         IF LastThen(s, k, Len(sent'[s])) > loaded'[s] THEN LastThen(s, k, Len(sent'[s])) ELSE 0
  BY <1>0 DEF ReplayInv, BuffersInv, Stale
<1>3. QED
  BY <1>1, <1>2, ReplayGoal

\* LoadCsv merges a buffer that holds the last record of every key.
LEMMA LoadKeepsReplay ==
    ASSUME TypeOK, CountsInv, FlushInv, ReplayInv, NEW s \in Streams, LoadCsv(s)
    PROVE  ReplayInv'
<1>0. \A u, k, n : LastThen(u, k, n) = LastOf(u, k, n) /\ ReplayThen(u, k, n) = ReplayOf(u, k, n)
  BY NothingSent DEF LoadCsv, input
<1>1. /\ pc = "flush" /\ s \in pending /\ pc' = "delete" /\ current' = s
      /\ UNCHANGED <<sent, records_to_load, to_flush, pending>>
  BY DEF LoadCsv, input, buffers
<1>2. /\ \A u \in Streams \ {s} : table'[u] = table[u] /\ loaded'[u] = loaded[u]
      /\ loaded'[s] = Len(sent[s])
      /\ \A k \in Keys : \/ table'[s][k] = table[s][k] /\ loaded'[s] = loaded[s]
                         \/ table'[s][k] = MergedRow(s, k)
  <2>1. CASE row_count[s] > 0
    <3>1. /\ table' = [table EXCEPT ![s] = [k \in Keys |-> MergedRow(s, k)]]
          /\ loaded' = [loaded EXCEPT ![s] = Len(sent[s])]
      BY <2>1 DEF LoadCsv
    <3>2. QED
      BY <3>1 DEF TypeOK
  <2>2. CASE ~(row_count[s] > 0)
    <3>1. UNCHANGED <<table, loaded>> /\ row_count[s] = 0
      BY <2>2 DEF LoadCsv, sink, TypeOK
    <3>2. QED
      BY <3>1 DEF CountsInv
  <2>3. QED
    BY <2>1, <2>2
<1>3. \A u \in Streams, k \in Keys : table[u][k] = ReplayOf(u, k, loaded[u])
  BY <1>1 DEF ReplayInv, TableIsReplay
<1>4. ASSUME NEW u \in Streams, ~(u = s \/ u \in to_flush \ pending), NEW k \in Keys
      PROVE  records_to_load'[u][k] =
               IF LastThen(u, k, Len(sent'[u])) > loaded'[u] THEN LastThen(u, k, Len(sent'[u])) ELSE 0
  <2>1. ~Stale(u)
    BY <1>1, <1>4 DEF Stale
  <2>2. records_to_load[u][k] =
          IF LastOf(u, k, Len(sent[u])) > loaded[u] THEN LastOf(u, k, Len(sent[u])) ELSE 0
    BY <1>1, <2>1 DEF ReplayInv, BuffersInv
  <2>3. QED
    BY <1>0, <1>1, <1>2, <1>4, <2>2
<1>5. ASSUME NEW k \in Keys
      PROVE  (IF table'[s][k] # 0 /\ HardDelete /\ sent'[s][table'[s][k]].deleted
              THEN 0 ELSE table'[s][k]) = ReplayThen(s, k, loaded'[s])
  <2> DEFINE n == Len(sent[s])
             last == LastOf(s, k, n)
  <2>0. n \in Nat /\ loaded[s] \in Nat /\ loaded[s] <= n
    BY Numbers DEF CountsInv
  <2>1. last \in 0..n
    BY <2>0, LastOfIsLast
  <2>2. ~Stale(s)
    BY <1>1 DEF Stale
  <2>3. records_to_load[s][k] = IF last > loaded[s] THEN last ELSE 0
    BY <1>1, <2>2 DEF ReplayInv, BuffersInv
  <2>4. last <= loaded[s] => LastOf(s, k, loaded[s]) = last
    BY <2>0, <2>1, LastOfPrefix
  <2>5. ReplayOf(s, k, n) = IF last # 0 /\ HardDelete /\ sent[s][last].deleted THEN 0 ELSE last
    BY DEF ReplayOf
  <2>6. last <= loaded[s] => ReplayOf(s, k, n) = ReplayOf(s, k, loaded[s])
    BY <2>4 DEF ReplayOf
  <2>7. ReplayThen(s, k, loaded'[s]) = ReplayOf(s, k, n)
    BY <1>0, <1>2
  <2> HIDE DEF last, n
  <2>8. CASE table'[s][k] = MergedRow(s, k) /\ last > loaded[s]
    <3>1. table'[s][k] = last
      BY <2>0, <2>1, <2>3, <2>8 DEF MergedRow
    <3>2. QED
      BY <1>1, <2>5, <2>7, <3>1
  <2>9. CASE table'[s][k] = table[s][k] /\ last <= loaded[s]
    <3>1. table'[s][k] = ReplayOf(s, k, n)
      BY <1>3, <2>6, <2>9
    <3>2. QED
      BY <1>1, <2>5, <2>7, <3>1
  <2>10. table'[s][k] = table[s][k] /\ loaded'[s] = loaded[s] => last <= loaded[s]
    BY <1>2, <2>1 DEF n
  <2>11. table'[s][k] = MergedRow(s, k) /\ last <= loaded[s] => table'[s][k] = table[s][k]
    BY <2>0, <2>1, <2>3 DEF MergedRow
  <2>12. last > loaded[s] \/ last <= loaded[s]
    BY <2>0, <2>1
  <2>13. QED
    BY <1>2, <2>8, <2>9, <2>10, <2>11, <2>12
<1>6. \A u \in Streams, k \in Keys : u # s => table'[u][k] = ReplayThen(u, k, loaded'[u])
  BY <1>0, <1>2, <1>3
<1>7. QED
  BY <1>1, <1>4, <1>5, <1>6, ReplayGoal

\* DeleteRows ends what LoadCsv began.
LEMMA DeleteKeepsReplay ==
    ASSUME TypeOK, FlushInv, ReplayInv, DeleteRows
    PROVE  ReplayInv'
<1>0. \A u, k, n : LastThen(u, k, n) = LastOf(u, k, n) /\ ReplayThen(u, k, n) = ReplayOf(u, k, n)
  BY NothingSent DEF DeleteRows, input
<1>1. /\ pc = "delete" /\ current \in pending /\ pc' = "flush" /\ current \in Streams
      /\ UNCHANGED <<sent, records_to_load, to_flush, current, loaded>>
      /\ pending' = pending \ {current}
  BY DEF DeleteRows, input, FlushInv, TypeOK
<1>2. /\ \A u \in Streams \ {current} : table'[u] = table[u]
      /\ \A k \in Keys : table'[current][k] = AfterDelete(current, table[current][k])
  BY DEF DeleteRows, AfterDelete, TypeOK
<1>3. ASSUME NEW u \in Streams, NEW k \in Keys
      PROVE  table'[u][k] = ReplayThen(u, k, loaded'[u])
  <2>1. CASE u = current
    BY <1>0, <1>1, <1>2, <2>1 DEF ReplayInv, TransitInv
  <2>2. CASE u # current
    BY <1>0, <1>1, <1>2, <2>2 DEF ReplayInv, TableIsReplay
  <2>3. QED
    BY <2>1, <2>2
<1>4. ASSUME NEW u \in Streams, u \notin to_flush' \ pending', NEW k \in Keys
      PROVE  records_to_load'[u][k] =
               IF LastThen(u, k, Len(sent'[u])) > loaded'[u] THEN LastThen(u, k, Len(sent'[u])) ELSE 0
  <2>1. ~Stale(u)
    BY <1>1, <1>4 DEF Stale, TypeOK
  <2>2. QED
    BY <1>0, <1>1, <2>1 DEF ReplayInv, BuffersInv
<1>5. QED
  BY <1>1, <1>3, <1>4, ReplayGoal

\* A flush that ends empties the buffers it loaded.
LEMMA FinishKeepsReplay ==
    ASSUME TypeOK, CountsInv, FlushInv, ReplayInv, FinishFlush
    PROVE  ReplayInv'
<1>0. \A u, k, n : LastThen(u, k, n) = LastOf(u, k, n) /\ ReplayThen(u, k, n) = ReplayOf(u, k, n)
  BY NothingSent DEF FinishFlush, input
<1>1. /\ pc = "flush" /\ pending = {} /\ pc' \in {"stopped", "read"}
      /\ UNCHANGED <<sent, table, loaded>>
      /\ records_to_load' = [s \in Streams |-> IF s \in to_flush
                                THEN [k \in Keys |-> 0] ELSE records_to_load[s]]
  BY DEF FinishFlush, input, sink
<1>2. \A u \in Streams, k \in Keys : table'[u][k] = ReplayThen(u, k, loaded'[u])
  BY <1>0, <1>1 DEF ReplayInv, TableIsReplay
<1>3. ASSUME NEW u \in Streams, NEW k \in Keys
      PROVE  records_to_load'[u][k] =
               IF LastThen(u, k, Len(sent'[u])) > loaded'[u] THEN LastThen(u, k, Len(sent'[u])) ELSE 0
  <2>1. CASE u \in to_flush
    <3>1. loaded[u] = Len(sent[u])
      BY <1>1, <2>1 DEF FlushInv, CountsInv
    <3>2. LastOf(u, k, Len(sent[u])) \in 0..Len(sent[u]) /\ Len(sent[u]) \in Nat
      BY LastOfIsLast, Numbers
    <3>3. ~(LastThen(u, k, Len(sent'[u])) > loaded'[u])
      BY <1>0, <1>1, <3>1, <3>2
    <3>4. QED
      BY <1>1, <2>1, <3>3
  <2>2. CASE u \notin to_flush
    <3>1. ~Stale(u)
      BY <1>1, <2>2 DEF Stale
    <3>2. QED
      BY <1>0, <1>1, <2>2, <3>1 DEF ReplayInv, BuffersInv
  <2>3. QED
    BY <2>1, <2>2
<1>4. QED
  BY <1>1, <1>2, <1>3, ReplayGoal

\* A record replaces what its buffer held for the key.
LEMMA RecordKeepsReplay ==
    ASSUME TypeOK, CountsInv, ReplayInv, NEW s \in Streams, NEW r \in Record, RecordMsg(s, r)
    PROVE  ReplayInv'
<1>0. /\ \A u \in Streams, k \in Keys : \A n \in 0..Len(sent[u]) :
            LastThen(u, k, n) = LastOf(u, k, n) /\ ReplayThen(u, k, n) = ReplayOf(u, k, n)
      /\ \A k \in Keys : LastThen(s, k, Len(sent[s]) + 1) =
            IF k = r.key THEN Len(sent[s]) + 1 ELSE LastOf(s, k, Len(sent[s]))
  BY RecordIsLast
<1>1. /\ pc = "read" /\ pc' \in {"read", "flush"} /\ (pc' = "flush" => pending' = to_flush')
      /\ UNCHANGED <<table, loaded>>
      /\ records_to_load' = [records_to_load EXCEPT ![s][r.key] = Len(sent[s]) + 1]
  BY DEF RecordMsg, StartFlush, control, sink
<1>2. /\ \A u \in Streams : Len(sent[u]) \in Nat /\ loaded[u] \in 0..Len(sent[u])
      /\ Len(sent'[s]) = Len(sent[s]) + 1
      /\ \A u \in Streams \ {s} : sent'[u] = sent[u]
  BY Numbers, RecordSent DEF CountsInv
<1>3. \A u \in Streams, k \in Keys : table'[u][k] = ReplayThen(u, k, loaded'[u])
  BY <1>0, <1>1, <1>2 DEF ReplayInv, TableIsReplay
<1>4. ASSUME NEW u \in Streams, NEW k \in Keys
      PROVE  records_to_load'[u][k] =
               IF LastThen(u, k, Len(sent'[u])) > loaded'[u] THEN LastThen(u, k, Len(sent'[u])) ELSE 0
  <2>1. records_to_load[u][k] =
          IF LastOf(u, k, Len(sent[u])) > loaded[u] THEN LastOf(u, k, Len(sent[u])) ELSE 0
    BY <1>1 DEF ReplayInv, BuffersInv, Stale
  <2>2. CASE u = s /\ k = r.key
    <3>1. records_to_load'[u][k] = Len(sent[s]) + 1
      BY <1>1, <2>2 DEF TypeOK
    <3>2. LastThen(u, k, Len(sent'[u])) = Len(sent[s]) + 1 /\ Len(sent[s]) + 1 > loaded'[s]
      BY <1>0, <1>1, <1>2, <2>2
    <3>3. QED
      BY <2>2, <3>1, <3>2
  <2>3. CASE u = s /\ k # r.key
    <3>1. records_to_load'[u][k] = records_to_load[u][k]
      BY <1>1, <2>3 DEF TypeOK
    <3>2. LastThen(u, k, Len(sent'[u])) = LastOf(u, k, Len(sent[u]))
      BY <1>0, <1>2, <2>3
    <3>3. QED
      BY <1>1, <2>1, <3>1, <3>2
  <2>4. CASE u # s
    <3>1. records_to_load'[u][k] = records_to_load[u][k]
      BY <1>1, <2>4 DEF TypeOK
    <3>2. LastThen(u, k, Len(sent'[u])) = LastOf(u, k, Len(sent[u]))
      BY <1>0, <1>2, <2>4
    <3>3. QED
      BY <1>1, <2>1, <3>1, <3>2
  <2>5. QED
    BY <2>2, <2>3, <2>4
<1>5. QED
  BY <1>1, <1>3, <1>4, ReplayGoal

LEMMA ReplayPreserved ==
    ASSUME FlowInv, ReplayInv, [Next]_vars
    PROVE  ReplayInv'
<1> USE DEF FlowInv
<1>1. ASSUME NEW s \in Streams, Schema(s) PROVE ReplayInv'
  BY <1>1, NothingLoaded DEF Schema, StartFlush, control, buffers, sink
<1>2. ASSUME NEW s \in Streams, LoadCsv(s) PROVE ReplayInv'
  BY <1>2, LoadKeepsReplay
<1>3. ASSUME NEW s \in Streams, NEW r \in Record, RecordMsg(s, r) PROVE ReplayInv'
  BY <1>3, RecordKeepsReplay
<1>4. ASSUME NEW st \in [Streams -> 0..MaxRecords], StateMsg(st) PROVE ReplayInv'
  BY <1>4, NothingLoaded DEF StateMsg, input, buffers, control, sink
<1>5. CASE ActivateVersion
  BY <1>5, NothingLoaded DEF ActivateVersion, input, buffers, control, sink
<1>6. CASE EndOfInput
  BY <1>6, NothingLoaded DEF EndOfInput, StartFlush, input, buffers, sink
<1>7. CASE DeleteRows
  BY <1>7, DeleteKeepsReplay
<1>8. CASE FinishFlush
  BY <1>8, FinishKeepsReplay
<1>9. CASE Fail
  <2>1. /\ pc \in {"read", "flush", "delete"} /\ pc' = "failed"
        /\ UNCHANGED <<sent, table, loaded, current>>
    BY <1>9 DEF Fail, input, sink, TypeOK
  <2>2. \A s, k, n : ReplayThen(s, k, n) = ReplayOf(s, k, n)
    BY <2>1, NothingSent
  <2>3. \A s \in Streams, k \in Keys : s # current' => table'[s][k] = ReplayThen(s, k, loaded'[s])
    BY <2>1, <2>2 DEF ReplayInv, TableIsReplay
  <2>4. QED
    BY <2>1, <2>3, ReplayGoal
<1>10. CASE UNCHANGED vars
  <2>1. UNCHANGED <<sent, records_to_load, table, loaded, pc, current, to_flush, pending>>
    BY <1>10 DEF vars, input, buffers, control, sink
  <2>2. \A s, k, n : LastThen(s, k, n) = LastOf(s, k, n) /\ ReplayThen(s, k, n) = ReplayOf(s, k, n)
    BY <2>1, NothingSent
  <2>3. \A s \in Streams, k \in Keys :
           ~(pc \in {"delete", "failed"} /\ s = current) => table[s][k] = ReplayOf(s, k, loaded[s])
    BY DEF ReplayInv, TableIsReplay
  <2>4. pc = "delete" => \A k \in Keys :
           (IF table[current][k] # 0 /\ HardDelete /\ sent[current][table[current][k]].deleted
            THEN 0 ELSE table[current][k]) = ReplayOf(current, k, loaded[current])
    BY DEF ReplayInv, TransitInv, AfterDelete
  <2>5. pc # "failed" => \A s \in Streams :
           ~(\/ pc = "flush" /\ s \in to_flush \ pending
             \/ pc = "delete" /\ (s = current \/ s \in to_flush \ pending))
             => \A k \in Keys : records_to_load[s][k] =
                   IF LastOf(s, k, Len(sent[s])) > loaded[s] THEN LastOf(s, k, Len(sent[s])) ELSE 0
    BY DEF ReplayInv, BuffersInv, Stale
  <2>6. QED
    BY <2>1, <2>2, <2>3, <2>4, <2>5, ReplayGoal
<1>11. QED
  BY <1>1, <1>2, <1>3, <1>4, <1>5, <1>6, <1>7, <1>8, <1>9, <1>10 DEF Next

\* Whatever the batches, the filters and the order of the streams, the rows of
\* the warehouse are the replay of the records that were loaded.
THEOREM WarehouseIsReplay == Spec => []TableIsReplay
<1>1. Init => ReplayInv
  <2> SUFFICES ASSUME Init PROVE ReplayInv
    OBVIOUS
  <2>1. \A s \in Streams : Len(sent[s]) = 0 /\ loaded[s] = 0
    BY EmptySeq DEF Init
  <2>2. \A s \in Streams, k \in Keys : LastOf(s, k, 0) = 0
    BY LastOfIsLast
  <2>3. \A s \in Streams, k \in Keys : ReplayOf(s, k, 0) = 0
    BY <2>2 DEF ReplayOf
  <2>4. QED
    BY <2>1, <2>2, <2>3 DEF Init, ReplayInv, TableIsReplay, TransitInv, BuffersInv
<1>2. FlowInv /\ ReplayInv /\ [Next]_vars => ReplayInv'
  BY ReplayPreserved
<1>3. ReplayInv => TableIsReplay
  BY DEF ReplayInv
<1>4. QED
  BY <1>1, <1>2, <1>3, FlowAlways, PTL DEF Spec

-----------------------------------------------------------------------------
(* transform-field: a row masked in the pipe and by fastsync                *)

\* An item of transformation.json, and a row of which columns are masked.
MaskItems == [tap_stream_name : TransformStreams, field_id : TransformColumns,
          type : {"SET-NULL", "MASK-HIDDEN", "HASH"},
          when : Seq([column : TransformColumns, equals : Values \cup {Null}])]
MaskedRows == [TransformColumns -> Values \cup {Null, "hidden", "hash"}]

LEMMA Least ==
    ASSUME NEW T, T \subseteq Nat, T # {}
    PROVE  \E x \in T : \A y \in T : x <= y
<1> DEFINE R == OpToRel(<, Nat)
<1>1. IsWellFoundedOn(R, Nat)
  BY NatLessThanWellFounded
<1>2. \A x, y \in Nat : y < x => <<y, x>> \in R
  BY DEF OpToRel
<1> HIDE DEF R
<1>3. PICK x \in T : \A y \in T : ~(<<y, x>> \in R)
  BY <1>1, WFMin
<1>4. ASSUME NEW y \in T PROVE x <= y
  <2>1. x \in Nat /\ y \in Nat /\ ~(y < x)
    BY <1>2, <1>3
  <2>2. QED
    BY <2>1
<1>5. QED
  BY <1>4

\* Steps one after the other have what is after each of them.
LEMMA Iterated ==
    ASSUME NEW n \in Nat, NEW base \in MaskedRows, NEW step \in [1..n -> [MaskedRows -> MaskedRows]]
    PROVE  \E g \in [0..n -> MaskedRows] : \A k \in 0..n : g[k] = IF k = 0 THEN base ELSE step[k][g[k - 1]]
<1> DEFINE Q(m) == \E g \in [0..m -> MaskedRows] : \A k \in 0..m : g[k] = IF k = 0 THEN base ELSE step[k][g[k - 1]]
           T == {m \in 0..n : ~Q(m)}
<1>1. Q(0)
  <2> DEFINE g == [k \in 0..0 |-> base]
  <2>1. g \in [0..0 -> MaskedRows] /\ \A k \in 0..0 : g[k] = base /\ k = 0
    OBVIOUS
  <2>2. QED
    BY <2>1
<1>2. ASSUME NEW m \in 0..n, m + 1 <= n, Q(m) PROVE Q(m + 1)
  <2>1. PICK g \in [0..m -> MaskedRows] : \A k \in 0..m : g[k] = IF k = 0 THEN base ELSE step[k][g[k - 1]]
    BY <1>2
  <2> DEFINE v == step[m + 1][g[m]]
             h == [k \in 0..(m + 1) |-> IF k = m + 1 THEN v ELSE g[k]]
  <2>2. v \in MaskedRows
    <3>1. m + 1 \in 1..n /\ g[m] \in MaskedRows
      BY <1>2
    <3>2. step[m + 1] \in [MaskedRows -> MaskedRows]
      BY <3>1
    <3>3. QED
      BY <3>1, <3>2
  <2>3. \A k \in 0..(m + 1) : h[k] = IF k = m + 1 THEN v ELSE g[k]
    OBVIOUS
  <2>4. h \in [0..(m + 1) -> MaskedRows]
    <3>1. \A k \in 0..(m + 1) : k # m + 1 => k \in 0..m
      BY <1>2
    <3> HIDE DEF v
    <3>2. QED
      BY <2>1, <2>2, <3>1
  <2> HIDE DEF h
  <2>5. ASSUME NEW k \in 0..(m + 1) PROVE h[k] = IF k = 0 THEN base ELSE step[k][h[k - 1]]
    <3>1. CASE k = m + 1
      <4>1. m \in 0..(m + 1) /\ m # m + 1 /\ k # 0 /\ k - 1 = m
        BY <3>1, <1>2
      <4>2. h[m] = g[m] /\ h[k] = v
        BY <2>3, <3>1, <4>1
      <4>3. QED
        BY <3>1, <4>1, <4>2
    <3>2. CASE k # m + 1
      <4>1. k \in 0..m /\ (k # 0 => k - 1 \in 0..(m + 1) /\ k - 1 # m + 1)
        BY <3>2, <1>2
      <4>2. h[k] = g[k] /\ (k # 0 => h[k - 1] = g[k - 1])
        BY <2>3, <3>2, <4>1
      <4>3. QED
        BY <2>1, <4>1, <4>2
    <3>3. QED
      BY <3>1, <3>2
  <2>6. QED
    BY <2>4, <2>5
<1> HIDE DEF Q
<1>3. T = {}
  <2> SUFFICES ASSUME T # {} PROVE FALSE
    OBVIOUS
  <2>1. PICK x \in T : \A y \in T : x <= y
    <3>1. T \subseteq Nat
      OBVIOUS
    <3> HIDE DEF T
    <3>2. QED
      BY <3>1, Least
  <2>2. x # 0 /\ x - 1 \in 0..n /\ x - 1 + 1 = x /\ x - 1 \notin T
    BY <1>1, <2>1
  <2>3. Q(x - 1)
    BY <2>2
  <2>4. Q(x)
    BY <1>2, <2>2, <2>3
  <2>5. QED
    BY <2>1, <2>4
<1>4. Q(n)
  BY <1>3
<1>5. QED
  BY <1>4 DEF Q

\* What an item of the configuration is.
LEMMA ItemOf ==
    ASSUME NEW trans \in Seq(MaskItems), NEW k \in 1..Len(trans)
    PROVE  /\ trans[k] \in MaskItems /\ trans[k].field_id \in TransformColumns
           /\ trans[k].when \in Seq([column : TransformColumns, equals : Values \cup {Null}])
           /\ k \in Nat /\ k - 1 \in Nat /\ Len(trans) \in Nat /\ k <= Len(trans) /\ k \in DOMAIN trans
<1>1. trans[k] \in MaskItems /\ k \in Nat /\ k - 1 \in Nat /\ Len(trans) \in Nat /\ k <= Len(trans) /\ k \in DOMAIN trans
  OBVIOUS
<1>2. QED
  BY <1>1 DEF MaskItems

\* A masked row is one again.
LEMMA MaskedRow ==
    ASSUME NEW row \in MaskedRows, NEW t \in MaskItems
    PROVE  Transform!WithTransformed(row, t) \in MaskedRows
BY DEF Transform!WithTransformed, MaskedRows, MaskItems, Transform!transform_value

\* Rows masked step by step.
MaskPath(path, row, trans) == path \in [0..Len(trans) -> MaskedRows] /\ path[0] = row
MaskStep(r, t, asked) == IF asked THEN Transform!WithTransformed(r, t) ELSE r

\* There is one, whatever is asked for.
LEMMA PathExists ==
    ASSUME NEW row \in MaskedRows, NEW trans \in Seq(MaskItems),
           NEW asks \in [1..Len(trans) -> [MaskedRows -> BOOLEAN]]
    PROVE  \E g : /\ MaskPath(g, row, trans)
                  /\ \A k \in 1..Len(trans) : g[k] = MaskStep(g[k - 1], trans[k], asks[k][g[k - 1]])
<1> DEFINE n == Len(trans)
           step == [k \in 1..n |-> [r \in MaskedRows |-> MaskStep(r, trans[k], asks[k][r])]]
<1>1. n \in Nat /\ \A k \in 1..n : trans[k] \in MaskItems
  OBVIOUS
<1>2. step \in [1..n -> [MaskedRows -> MaskedRows]]
  <2> HIDE DEF n
  <2>1. QED
    BY <1>1, MaskedRow DEF MaskStep
<1>3. \A k \in 1..n : \A r \in MaskedRows : step[k][r] = MaskStep(r, trans[k], asks[k][r])
  OBVIOUS
<1> HIDE DEF n, step
<1>4. PICK g \in [0..n -> MaskedRows] : \A k \in 0..n : g[k] = IF k = 0 THEN row ELSE step[k][g[k - 1]]
  BY <1>1, <1>2, Iterated
<1>5. g[0] = row /\ \A k \in 1..n : g[k] = step[k][g[k - 1]] /\ g[k - 1] \in MaskedRows
  BY <1>1, <1>4
<1>6. \A k \in 1..n : g[k] = MaskStep(g[k - 1], trans[k], asks[k][g[k - 1]])
  BY <1>3, <1>5
<1>7. QED
  BY <1>4, <1>5, <1>6 DEF MaskPath, n

\* Whatever comes from a row by steps is one.
LEMMA PathOf ==
    ASSUME NEW row \in MaskedRows, NEW trans \in Seq(MaskItems), NEW a,
           a = [k \in 0..Len(trans) |-> a[k]], a[0] = row,
           \A k \in 1..Len(trans) : a[k] \in {Transform!WithTransformed(a[k - 1], trans[k]), a[k - 1]}
    PROVE  MaskPath(a, row, trans)
<1> DEFINE n == Len(trans)
<1>1. n \in Nat /\ \A k \in 1..n : trans[k] \in MaskItems
  OBVIOUS
<1>2. a = [k \in 0..n |-> a[k]] /\ a[0] = row
  OBVIOUS
<1>3. \A k \in 1..n : a[k] \in {Transform!WithTransformed(a[k - 1], trans[k]), a[k - 1]}
  OBVIOUS
<1> HIDE DEF n
<1>4. \A k \in 0..n : a[k] \in MaskedRows
  <2> DEFINE T == {k \in 0..n : a[k] \notin MaskedRows}
  <2> SUFFICES ASSUME T # {} PROVE FALSE
    OBVIOUS
  <2>1. PICK x \in T : \A y \in T : x <= y
    <3>1. T \subseteq Nat
      OBVIOUS
    <3> HIDE DEF T
    <3>2. QED
      BY <3>1, Least
  <2>6. x \in 0..n /\ x # 0
    BY <1>2, <2>1
  <2>7. x - 1 \in 0..n /\ x \in 1..n /\ ~(x <= x - 1)
    BY <1>1, <2>6
  <2>2. x \in 1..n /\ x - 1 \in 0..n /\ x - 1 \notin T
    BY <2>1, <2>7
  <2>3. a[x - 1] \in MaskedRows /\ trans[x] \in MaskItems
    BY <1>1, <2>2
  <2>4. a[x] \in MaskedRows
    BY <1>3, <2>2, <2>3, MaskedRow
  <2>5. QED
    BY <2>1, <2>4
<1>5. a \in [0..n -> MaskedRows]
  BY <1>2, <1>4
<1>6. QED
  BY <1>2, <1>5 DEF MaskPath, n

\* What do_transform makes of a row, one transformation after the other.
LEMMA TransformedPath ==
    ASSUME NEW row \in MaskedRows, NEW trans \in Seq(MaskItems), NEW stream
    PROVE  \E a : /\ MaskPath(a, row, trans) /\ Transform!Transformed(row, trans, stream) = a[Len(trans)]
                  /\ \A k \in 1..Len(trans) : a[k] = MaskStep(a[k - 1], trans[k],
                        Transform!OfStream(trans[k], stream) /\ Transform!is_transform_required(a[k - 1], trans[k].when))
<1> DEFINE n == Len(trans)
           Asked(r, t) == Transform!OfStream(t, stream) /\ Transform!is_transform_required(r, t.when)
           asks == [k \in 1..n |-> [r \in MaskedRows |-> Asked(r, trans[k])]]
           F(g) == [k \in 0..n |-> IF k = 0 THEN row
                                   ELSE IF Asked(g[k - 1], trans[k]) THEN Transform!WithTransformed(g[k - 1], trans[k])
                                   ELSE g[k - 1]]
           a == CHOOSE g : g = F(g)
<1>1. Transform!Transformed(row, trans, stream) = a[n]
  BY DEF Transform!Transformed, Transform!InOrder, Asked
<1>2. \A r, t : Asked(r, t) \in BOOLEAN
  BY DEF Transform!OfStream, Transform!is_transform_required, Transform!conditions_to_sql
<1>3. n \in Nat
  OBVIOUS
<1> HIDE DEF Asked
<1>4. asks \in [1..n -> [MaskedRows -> BOOLEAN]]
  BY <1>2
<1>5. \A k \in 1..n : \A r \in MaskedRows : asks[k][r] = Asked(r, trans[k])
  OBVIOUS
<1>6. PICK g : /\ MaskPath(g, row, trans)
               /\ \A k \in 1..n : g[k] = MaskStep(g[k - 1], trans[k], asks[k][g[k - 1]])
  <2> HIDE DEF asks
  <2>1. QED
    BY <1>4, PathExists
<1> HIDE DEF asks
<1>7. g \in [0..n -> MaskedRows] /\ g[0] = row
  BY <1>6 DEF MaskPath
<1>8. \A k \in 1..n : g[k] = MaskStep(g[k - 1], trans[k], Asked(g[k - 1], trans[k]))
  BY <1>3, <1>5, <1>6, <1>7
<1> HIDE DEF n
<1>9. g = F(g)
  BY <1>3, <1>7, <1>8 DEF MaskStep
<1>10. a = F(a)
  <2> HIDE DEF F
  <2>1. QED
    BY <1>9
<1> HIDE DEF a
<1>11. /\ a[0] = row /\ a = [k \in 0..n |-> a[k]]
       /\ \A k \in 1..n : a[k] = MaskStep(a[k - 1], trans[k], Asked(a[k - 1], trans[k]))
  <2>1. 0 \in 0..n /\ \A k \in 1..n : k \in 0..n /\ k # 0
    BY <1>3
  <2>2. a = [k \in 0..n |-> a[k]]
    BY <1>10
  <2>3. \A k \in 0..n : a[k] = IF k = 0 THEN row
                               ELSE IF Asked(a[k - 1], trans[k]) THEN Transform!WithTransformed(a[k - 1], trans[k])
                               ELSE a[k - 1]
    BY <1>10
  <2> HIDE DEF F
  <2>4. QED
    BY <2>1, <2>2, <2>3 DEF MaskStep
<1>12. \A k \in 1..n : a[k] \in {Transform!WithTransformed(a[k - 1], trans[k]), a[k - 1]}
  BY <1>11 DEF MaskStep
<1> HIDE DEF F
<1>13. MaskPath(a, row, trans)
  BY <1>11, <1>12, PathOf DEF n
<1>14. QED
  BY <1>1, <1>11, <1>13 DEF Asked, n

\* What the UPDATE statements with a condition make of it.
LEMMA UpdatedWherePath ==
    ASSUME NEW row \in MaskedRows, NEW trans \in Seq(MaskItems), NEW stream
    PROVE  \E a : /\ MaskPath(a, row, trans) /\ Transform!UpdatedWhere(row, trans, stream) = a[Len(trans)]
                  /\ \A k \in 1..Len(trans) : a[k] = MaskStep(a[k - 1], trans[k],
                        Transform!OfStream(trans[k], stream) /\ trans[k].when # << >> /\ Transform!conditions_to_sql(a[k - 1], trans[k].when))
<1> DEFINE n == Len(trans)
           Asked(r, t) == Transform!OfStream(t, stream) /\ t.when # << >> /\ Transform!conditions_to_sql(r, t.when)
           asks == [k \in 1..n |-> [r \in MaskedRows |-> Asked(r, trans[k])]]
           F(g) == [k \in 0..n |-> IF k = 0 THEN row
                                   ELSE IF Asked(g[k - 1], trans[k]) THEN Transform!WithTransformed(g[k - 1], trans[k])
                                   ELSE g[k - 1]]
           a == CHOOSE g : g = F(g)
<1>1. Transform!UpdatedWhere(row, trans, stream) = a[n]
  BY DEF Transform!UpdatedWhere, Transform!InOrder, Asked
<1>2. \A r, t : Asked(r, t) \in BOOLEAN
  BY DEF Transform!OfStream, Transform!is_transform_required, Transform!conditions_to_sql
<1>3. n \in Nat
  OBVIOUS
<1> HIDE DEF Asked
<1>4. asks \in [1..n -> [MaskedRows -> BOOLEAN]]
  BY <1>2
<1>5. \A k \in 1..n : \A r \in MaskedRows : asks[k][r] = Asked(r, trans[k])
  OBVIOUS
<1>6. PICK g : /\ MaskPath(g, row, trans)
               /\ \A k \in 1..n : g[k] = MaskStep(g[k - 1], trans[k], asks[k][g[k - 1]])
  <2> HIDE DEF asks
  <2>1. QED
    BY <1>4, PathExists
<1> HIDE DEF asks
<1>7. g \in [0..n -> MaskedRows] /\ g[0] = row
  BY <1>6 DEF MaskPath
<1>8. \A k \in 1..n : g[k] = MaskStep(g[k - 1], trans[k], Asked(g[k - 1], trans[k]))
  BY <1>3, <1>5, <1>6, <1>7
<1> HIDE DEF n
<1>9. g = F(g)
  BY <1>3, <1>7, <1>8 DEF MaskStep
<1>10. a = F(a)
  <2> HIDE DEF F
  <2>1. QED
    BY <1>9
<1> HIDE DEF a
<1>11. /\ a[0] = row /\ a = [k \in 0..n |-> a[k]]
       /\ \A k \in 1..n : a[k] = MaskStep(a[k - 1], trans[k], Asked(a[k - 1], trans[k]))
  <2>1. 0 \in 0..n /\ \A k \in 1..n : k \in 0..n /\ k # 0
    BY <1>3
  <2>2. a = [k \in 0..n |-> a[k]]
    BY <1>10
  <2>3. \A k \in 0..n : a[k] = IF k = 0 THEN row
                               ELSE IF Asked(a[k - 1], trans[k]) THEN Transform!WithTransformed(a[k - 1], trans[k])
                               ELSE a[k - 1]
    BY <1>10
  <2> HIDE DEF F
  <2>4. QED
    BY <2>1, <2>2, <2>3 DEF MaskStep
<1>12. \A k \in 1..n : a[k] \in {Transform!WithTransformed(a[k - 1], trans[k]), a[k - 1]}
  BY <1>11 DEF MaskStep
<1> HIDE DEF F
<1>13. MaskPath(a, row, trans)
  BY <1>11, <1>12, PathOf DEF n
<1>14. QED
  BY <1>1, <1>11, <1>13 DEF Asked, n

\* What the last UPDATE makes of it.
LEMMA UpdatedAllPath ==
    ASSUME NEW row \in MaskedRows, NEW trans \in Seq(MaskItems), NEW stream
    PROVE  \E a : /\ MaskPath(a, row, trans) /\ Transform!UpdatedAll(row, trans, stream) = a[Len(trans)]
                  /\ \A k \in 1..Len(trans) : a[k] = MaskStep(a[k - 1], trans[k],
                        Transform!OfStream(trans[k], stream) /\ trans[k].when = << >>)
<1> DEFINE n == Len(trans)
           Asked(r, t) == Transform!OfStream(t, stream) /\ t.when = << >>
           asks == [k \in 1..n |-> [r \in MaskedRows |-> Asked(r, trans[k])]]
           F(g) == [k \in 0..n |-> IF k = 0 THEN row
                                   ELSE IF Asked(g[k - 1], trans[k]) THEN Transform!WithTransformed(g[k - 1], trans[k])
                                   ELSE g[k - 1]]
           a == CHOOSE g : g = F(g)
<1>1. Transform!UpdatedAll(row, trans, stream) = a[n]
  BY DEF Transform!UpdatedAll, Transform!InOrder, Asked
<1>2. \A r, t : Asked(r, t) \in BOOLEAN
  BY DEF Transform!OfStream, Transform!is_transform_required, Transform!conditions_to_sql
<1>3. n \in Nat
  OBVIOUS
<1> HIDE DEF Asked
<1>4. asks \in [1..n -> [MaskedRows -> BOOLEAN]]
  BY <1>2
<1>5. \A k \in 1..n : \A r \in MaskedRows : asks[k][r] = Asked(r, trans[k])
  OBVIOUS
<1>6. PICK g : /\ MaskPath(g, row, trans)
               /\ \A k \in 1..n : g[k] = MaskStep(g[k - 1], trans[k], asks[k][g[k - 1]])
  <2> HIDE DEF asks
  <2>1. QED
    BY <1>4, PathExists
<1> HIDE DEF asks
<1>7. g \in [0..n -> MaskedRows] /\ g[0] = row
  BY <1>6 DEF MaskPath
<1>8. \A k \in 1..n : g[k] = MaskStep(g[k - 1], trans[k], Asked(g[k - 1], trans[k]))
  BY <1>3, <1>5, <1>6, <1>7
<1> HIDE DEF n
<1>9. g = F(g)
  BY <1>3, <1>7, <1>8 DEF MaskStep
<1>10. a = F(a)
  <2> HIDE DEF F
  <2>1. QED
    BY <1>9
<1> HIDE DEF a
<1>11. /\ a[0] = row /\ a = [k \in 0..n |-> a[k]]
       /\ \A k \in 1..n : a[k] = MaskStep(a[k - 1], trans[k], Asked(a[k - 1], trans[k]))
  <2>1. 0 \in 0..n /\ \A k \in 1..n : k \in 0..n /\ k # 0
    BY <1>3
  <2>2. a = [k \in 0..n |-> a[k]]
    BY <1>10
  <2>3. \A k \in 0..n : a[k] = IF k = 0 THEN row
                               ELSE IF Asked(a[k - 1], trans[k]) THEN Transform!WithTransformed(a[k - 1], trans[k])
                               ELSE a[k - 1]
    BY <1>10
  <2> HIDE DEF F
  <2>4. QED
    BY <2>1, <2>2, <2>3 DEF MaskStep
<1>12. \A k \in 1..n : a[k] \in {Transform!WithTransformed(a[k - 1], trans[k]), a[k - 1]}
  BY <1>11 DEF MaskStep
<1> HIDE DEF F
<1>13. MaskPath(a, row, trans)
  BY <1>11, <1>12, PathOf DEF n
<1>14. QED
  BY <1>1, <1>11, <1>13 DEF Asked, n

\* A transformation in its place, with the column it masks.
Plain(trans, stream, k) == Transform!OfStream(trans[k], stream) /\ trans[k].when = << >>

\* The columns that no transformation without a condition has masked so far are
\* those of q, and the others are those of q masked.
MaskedLike(r, q, trans, stream, k) ==
    /\ \A c \in TransformColumns : (\A i \in 1..k : Plain(trans, stream, i) => trans[i].field_id # c) => r[c] = q[c]
    /\ \A i \in 1..k : Plain(trans, stream, i) =>
          r[trans[i].field_id] = Transform!transform_value(q[trans[i].field_id], trans[i].type)

\* A row with the columns of another one, masked in the same places, is masked alike.
LEMMA MaskedOnce ==
    ASSUME NEW trans \in Seq(MaskItems), NEW stream, NEW r \in MaskedRows, NEW s \in MaskedRows, NEW q \in MaskedRows,
           MaskedLike(r, q, trans, stream, Len(trans)), MaskedLike(s, q, trans, stream, Len(trans))
    PROVE  r = s
<1> SUFFICES ASSUME NEW c \in TransformColumns PROVE r[c] = s[c]
  BY DEF MaskedRows
<1>1. CASE \A i \in 1..Len(trans) : Plain(trans, stream, i) => trans[i].field_id # c
  BY <1>1 DEF MaskedLike
<1>2. CASE \E i \in 1..Len(trans) : Plain(trans, stream, i) /\ trans[i].field_id = c
  BY <1>2 DEF MaskedLike
<1>3. QED
  BY <1>1, <1>2

\* Conditions that ask for values are asked alike of rows that are alike where they ask.
LEMMA AskedAlike ==
    ASSUME NEW when \in Seq([column : TransformColumns, equals : Values \cup {Null}]), when # << >>,
           \A i \in DOMAIN when : when[i].equals # Null,
           NEW r, NEW q, \A i \in DOMAIN when : r[when[i].column] = q[when[i].column]
    PROVE  Transform!is_transform_required(r, when) <=> Transform!conditions_to_sql(q, when)
<1>1. 1 \in DOMAIN when
  OBVIOUS
<1>2. QED
  BY <1>1 DEF Transform!is_transform_required, Transform!conditions_to_sql

\* A transformation without a condition masks a column that none has masked.
LEMMA PlainStep ==
    ASSUME NEW trans \in Seq(MaskItems), NEW stream, Transform!SameOnBothPaths(trans, stream), NEW k \in 1..Len(trans),
           NEW r \in MaskedRows, NEW q \in MaskedRows, MaskedLike(r, q, trans, stream, k - 1),
           Plain(trans, stream, k)
    PROVE  MaskedLike(Transform!WithTransformed(r, trans[k]), q, trans, stream, k)
<1> DEFINE t == trans[k]
           w == Transform!WithTransformed(r, t)
<1>1. /\ t \in MaskItems /\ t.field_id \in TransformColumns /\ k \in Nat /\ k - 1 \in Nat /\ Len(trans) \in Nat
      /\ k <= Len(trans)
  BY ItemOf
<1>2. \A i \in 1..(k - 1) : Plain(trans, stream, i) => trans[i].field_id # t.field_id
  <2>1. ASSUME NEW i \in 1..(k - 1), Plain(trans, stream, i) PROVE trans[i].field_id # t.field_id
    <3>1. i < k /\ i \in DOMAIN trans /\ k \in DOMAIN trans
      BY <1>1
    <3>2. QED
      BY <2>1, <3>1 DEF Transform!SameOnBothPaths, Plain
  <2>2. QED
    BY <2>1
<1>3. \A c \in TransformColumns : w[c] = IF c = t.field_id THEN Transform!transform_value(r[c], t.type) ELSE r[c]
  BY <1>1 DEF Transform!WithTransformed, MaskedRows
<1>4. r[t.field_id] = q[t.field_id]
  BY <1>1, <1>2 DEF MaskedLike
<1> HIDE DEF w
<1>5. \A i \in 1..k : i # k => i \in 1..(k - 1)
  BY <1>1
<1>6. ASSUME NEW c \in TransformColumns, \A i \in 1..k : Plain(trans, stream, i) => trans[i].field_id # c
      PROVE  w[c] = q[c]
  <2>1. c # t.field_id
    BY <1>1, <1>6
  <2>2. \A i \in 1..(k - 1) : Plain(trans, stream, i) => trans[i].field_id # c
    BY <1>1, <1>6
  <2>3. r[c] = q[c]
    BY <2>2 DEF MaskedLike
  <2>4. QED
    BY <1>3, <2>1, <2>3
<1>7. ASSUME NEW i \in 1..k, Plain(trans, stream, i)
      PROVE  w[trans[i].field_id] = Transform!transform_value(q[trans[i].field_id], trans[i].type)
  <2>1. CASE i = k
    BY <1>1, <1>3, <1>4, <2>1
  <2>2. CASE i # k
    <3>1. i \in 1..(k - 1) /\ trans[i].field_id # t.field_id /\ trans[i].field_id \in TransformColumns
      <4>1. i \in 1..(k - 1) /\ i \in 1..Len(trans)
        BY <1>1, <1>5, <2>2
      <4>2. QED
        BY <1>2, <1>7, <4>1, ItemOf
    <3>2. r[trans[i].field_id] = Transform!transform_value(q[trans[i].field_id], trans[i].type)
      BY <1>7, <3>1 DEF MaskedLike
    <3>3. QED
      BY <1>3, <3>1, <3>2
  <2>3. QED
    BY <2>1, <2>2
<1>8. QED
  BY <1>6, <1>7 DEF MaskedLike, w

\* Any other leaves the places as they are.
LEMMA OtherStep ==
    ASSUME NEW trans \in Seq(MaskItems), NEW stream, NEW k \in 1..Len(trans), NEW r, NEW q,
           MaskedLike(r, q, trans, stream, k - 1), ~Plain(trans, stream, k)
    PROVE  MaskedLike(r, q, trans, stream, k)
<1>1. \A i \in 1..k : i # k => i \in 1..(k - 1)
  OBVIOUS
<1>2. \A i \in 1..(k - 1) : i \in 1..k
  OBVIOUS
<1>3. \A i \in 1..k : Plain(trans, stream, i) => i \in 1..(k - 1)
  BY <1>1
<1>4. QED
  BY <1>2, <1>3 DEF MaskedLike

\* One with a condition neither asks for what was masked without one nor masks it.
LEMMA WhereStep ==
    ASSUME NEW trans \in Seq(MaskItems), NEW stream, Transform!SameOnBothPaths(trans, stream), NEW k \in 1..Len(trans),
           NEW r \in MaskedRows, NEW q \in MaskedRows, MaskedLike(r, q, trans, stream, k - 1),
           Transform!OfStream(trans[k], stream), trans[k].when # << >>
    PROVE  MaskedLike(MaskStep(r, trans[k], Transform!is_transform_required(r, trans[k].when)),
                      MaskStep(q, trans[k], Transform!conditions_to_sql(q, trans[k].when)), trans, stream, k)
<1> DEFINE t == trans[k]
           v == Transform!WithTransformed(r, t)
           w == Transform!WithTransformed(q, t)
<1>1. /\ t \in MaskItems /\ t.field_id \in TransformColumns /\ k \in Nat /\ k \in DOMAIN trans
      /\ t.when \in Seq([column : TransformColumns, equals : Values \cup {Null}])
      /\ k <= Len(trans) /\ Len(trans) \in Nat
  BY ItemOf
<1>2. \A i \in 1..(k - 1) : Plain(trans, stream, i) => trans[i].field_id # t.field_id /\ ~Transform!Asks(t, trans[i].field_id)
  <2>1. ASSUME NEW i \in 1..(k - 1), Plain(trans, stream, i)
        PROVE  trans[i].field_id # t.field_id /\ ~Transform!Asks(t, trans[i].field_id)
    <3>1. i < k /\ i \in DOMAIN trans
      BY <1>1
    <3>2. QED
      BY <1>1, <2>1, <3>1 DEF Transform!SameOnBothPaths, Plain
  <2>2. QED
    BY <2>1
<1>3. \A i \in DOMAIN t.when : t.when[i].equals # Null
  BY <1>1 DEF Transform!SameOnBothPaths
<1>4. \A i \in DOMAIN t.when : r[t.when[i].column] = q[t.when[i].column]
  <2>1. ASSUME NEW i \in DOMAIN t.when PROVE r[t.when[i].column] = q[t.when[i].column]
    <3> DEFINE C == [column : TransformColumns, equals : Values \cup {Null}]
    <3>1. t.when[i] \in C
      <4>1. t.when \in Seq(C)
        BY <1>1
      <4> HIDE DEF C, t
      <4>2. QED
        BY <4>1
    <3>2. t.when[i].column \in TransformColumns /\ Transform!Asks(t, t.when[i].column)
      BY <3>1 DEF Transform!Asks
    <3>3. \A j \in 1..(k - 1) : Plain(trans, stream, j) => trans[j].field_id # t.when[i].column
      BY <1>2, <3>2
    <3>4. QED
      BY <3>2, <3>3 DEF MaskedLike
  <2>2. QED
    BY <2>1
<1>5. Transform!is_transform_required(r, t.when) <=> Transform!conditions_to_sql(q, t.when)
  BY <1>1, <1>3, <1>4, AskedAlike
<1>6. ~Plain(trans, stream, k)
  BY DEF Plain
<1>7. MaskedLike(v, w, trans, stream, k - 1)
  <2>1. /\ \A c \in TransformColumns : v[c] = IF c = t.field_id THEN Transform!transform_value(r[c], t.type) ELSE r[c]
        /\ \A c \in TransformColumns : w[c] = IF c = t.field_id THEN Transform!transform_value(q[c], t.type) ELSE q[c]
    BY <1>1 DEF Transform!WithTransformed, MaskedRows
  <2> HIDE DEF v, w
  <2>2. ASSUME NEW c \in TransformColumns, \A i \in 1..(k - 1) : Plain(trans, stream, i) => trans[i].field_id # c
        PROVE  v[c] = w[c]
    <3>1. r[c] = q[c]
      BY <2>2 DEF MaskedLike
    <3>2. QED
      BY <2>1, <3>1
  <2>3. ASSUME NEW i \in 1..(k - 1), Plain(trans, stream, i)
        PROVE  v[trans[i].field_id] = Transform!transform_value(w[trans[i].field_id], trans[i].type)
    <3>1. trans[i] \in MaskItems
      BY <1>1
    <3>2. trans[i].field_id \in TransformColumns /\ trans[i].field_id # t.field_id
      BY <1>2, <2>3, <3>1 DEF MaskItems
    <3>3. r[trans[i].field_id] = Transform!transform_value(q[trans[i].field_id], trans[i].type)
      BY <2>3 DEF MaskedLike
    <3>4. QED
      BY <2>1, <3>2, <3>3
  <2>4. QED
    BY <2>2, <2>3 DEF MaskedLike
<1>8. MaskedLike(v, w, trans, stream, k) /\ MaskedLike(r, q, trans, stream, k)
  BY <1>6, <1>7, OtherStep
<1>9. QED
  BY <1>5, <1>8 DEF MaskStep

\* The two paths make the same row of one.
LEMMA MaskedAlike ==
    ASSUME NEW row \in MaskedRows, NEW trans \in Seq(MaskItems), NEW stream, Transform!SameOnBothPaths(trans, stream)
    PROVE  Transform!Transformed(row, trans, stream) = Transform!MaskedByFastsync(row, trans, stream)
<1> DEFINE n == Len(trans)
<1>1. PICK p : /\ MaskPath(p, row, trans) /\ Transform!Transformed(row, trans, stream) = p[n]
               /\ \A k \in 1..n : p[k] = MaskStep(p[k - 1], trans[k],
                     Transform!OfStream(trans[k], stream) /\ Transform!is_transform_required(p[k - 1], trans[k].when))
  BY TransformedPath
<1>2. PICK c : /\ MaskPath(c, row, trans) /\ Transform!UpdatedWhere(row, trans, stream) = c[n]
               /\ \A k \in 1..n : c[k] = MaskStep(c[k - 1], trans[k],
                     Transform!OfStream(trans[k], stream) /\ trans[k].when # << >> /\ Transform!conditions_to_sql(c[k - 1], trans[k].when))
  BY UpdatedWherePath
<1>3. /\ n \in Nat /\ p \in [0..n -> MaskedRows] /\ c \in [0..n -> MaskedRows] /\ p[0] = row /\ c[0] = row
      /\ \A k \in 1..n : p[k - 1] \in MaskedRows /\ c[k - 1] \in MaskedRows
  <2>1. n \in Nat /\ \A k \in 1..n : k - 1 \in 0..n
    OBVIOUS
  <2>2. p \in [0..n -> MaskedRows] /\ c \in [0..n -> MaskedRows] /\ p[0] = row /\ c[0] = row
    BY <1>1, <1>2 DEF MaskPath
  <2> HIDE DEF n
  <2>3. QED
    BY <2>1, <2>2
<1>4. c[n] \in MaskedRows
  BY <1>3
<1>5. PICK u : /\ MaskPath(u, c[n], trans) /\ Transform!UpdatedAll(c[n], trans, stream) = u[n]
               /\ \A k \in 1..n : u[k] = MaskStep(u[k - 1], trans[k], Transform!OfStream(trans[k], stream) /\ trans[k].when = << >>)
  BY <1>4, UpdatedAllPath
<1>6. /\ u \in [0..n -> MaskedRows] /\ u[0] = c[n]
      /\ \A k \in 1..n : u[k - 1] \in MaskedRows
  <2>1. n \in Nat /\ \A k \in 1..n : k - 1 \in 0..n
    OBVIOUS
  <2>2. u \in [0..n -> MaskedRows] /\ u[0] = c[n]
    BY <1>5 DEF MaskPath
  <2> HIDE DEF n
  <2>3. QED
    BY <2>1, <2>2
<1> DEFINE T == {k \in 0..n : ~MaskedLike(p[k], c[k], trans, stream, k) \/ ~MaskedLike(u[k], c[n], trans, stream, k)}
<1>7. T = {}
  <2> SUFFICES ASSUME T # {} PROVE FALSE
    OBVIOUS
  <2>1. PICK x \in T : \A y \in T : x <= y
    <3>1. T \subseteq Nat
      OBVIOUS
    <3> HIDE DEF T
    <3>2. QED
      BY <3>1, Least
  <2>2. x # 0
    <3>1. MaskedLike(p[0], c[0], trans, stream, 0) /\ MaskedLike(u[0], c[n], trans, stream, 0)
      BY <1>3, <1>6 DEF MaskedLike
    <3>2. QED
      BY <2>1, <3>1
  <2>3. x \in 1..Len(trans) /\ x - 1 \in 0..n /\ ~(x <= x - 1)
    BY <1>3, <2>1, <2>2
  <2>4. x - 1 \notin T
    BY <2>1, <2>3
  <2>5. MaskedLike(p[x - 1], c[x - 1], trans, stream, x - 1) /\ MaskedLike(u[x - 1], c[n], trans, stream, x - 1)
    BY <2>3, <2>4
  <2>6. p[x - 1] \in MaskedRows /\ c[x - 1] \in MaskedRows /\ u[x - 1] \in MaskedRows
    BY <1>3, <1>6, <2>3
  <2>7. /\ p[x] = MaskStep(p[x - 1], trans[x], Transform!OfStream(trans[x], stream) /\ Transform!is_transform_required(p[x - 1], trans[x].when))
        /\ c[x] = MaskStep(c[x - 1], trans[x],
                       Transform!OfStream(trans[x], stream) /\ trans[x].when # << >> /\ Transform!conditions_to_sql(c[x - 1], trans[x].when))
        /\ u[x] = MaskStep(u[x - 1], trans[x], Transform!OfStream(trans[x], stream) /\ trans[x].when = << >>)
    BY <1>1, <1>2, <1>5, <2>3
  <2> HIDE DEF n, T
  <2>8. CASE Plain(trans, stream, x)
    <3>1. Transform!is_transform_required(p[x - 1], trans[x].when)
      BY <2>8 DEF Plain, Transform!is_transform_required
    <3>2. p[x] = Transform!WithTransformed(p[x - 1], trans[x]) /\ c[x] = c[x - 1] /\ u[x] = Transform!WithTransformed(u[x - 1], trans[x])
      BY <2>7, <2>8, <3>1 DEF Plain, MaskStep
    <3>3. MaskedLike(p[x], c[x], trans, stream, x)
      BY <2>3, <2>5, <2>6, <2>8, <3>2, PlainStep
    <3>4. MaskedLike(u[x], c[n], trans, stream, x)
      BY <1>4, <2>3, <2>5, <2>6, <2>8, <3>2, PlainStep
    <3>5. QED
      BY <2>1, <3>3, <3>4 DEF T
  <2>9. CASE ~Plain(trans, stream, x)
    <3>1. u[x] = u[x - 1]
      BY <2>7, <2>9 DEF Plain, MaskStep
    <3>2. MaskedLike(u[x], c[n], trans, stream, x)
      BY <2>3, <2>5, <2>9, <3>1, OtherStep
    <3>3. MaskedLike(p[x], c[x], trans, stream, x)
      <4>1. CASE ~Transform!OfStream(trans[x], stream)
        <5>1. p[x] = p[x - 1] /\ c[x] = c[x - 1]
          BY <2>7, <4>1 DEF MaskStep
        <5>2. QED
          BY <2>3, <2>5, <2>9, <5>1, OtherStep
      <4>2. CASE Transform!OfStream(trans[x], stream)
        <5>1. trans[x].when # << >>
          BY <2>9, <4>2 DEF Plain
        <5>2. /\ p[x] = MaskStep(p[x - 1], trans[x], Transform!is_transform_required(p[x - 1], trans[x].when))
              /\ c[x] = MaskStep(c[x - 1], trans[x], Transform!conditions_to_sql(c[x - 1], trans[x].when))
          BY <2>7, <4>2, <5>1 DEF MaskStep
        <5>3. QED
          BY <2>3, <2>5, <2>6, <4>2, <5>1, <5>2, WhereStep
      <4>3. QED
        BY <4>1, <4>2
    <3>4. QED
      BY <2>1, <3>2, <3>3 DEF T
  <2>10. QED
    BY <2>8, <2>9
<1>8. MaskedLike(p[n], c[n], trans, stream, n) /\ MaskedLike(u[n], c[n], trans, stream, n)
  BY <1>3, <1>7
<1>9. p[n] = u[n]
  BY <1>3, <1>4, <1>6, <1>8, MaskedOnce
<1>10. QED
  BY <1>1, <1>2, <1>5, <1>9 DEF Transform!MaskedByFastsync

-----------------------------------------------------------------------------
(* transform-field: the batch in memory and the STATE that waits for it     *)

\* A sequence of something.
IsSequence(q) == \E S : q \in Seq(S)

Records == [stream : TransformStreams, row : Transform!RowsOf]

\* The records of a batch are of the stream of its first one.
OfOneStream(batch, records) == \A i \in 1..Len(batch) : records[batch[i]].stream = records[batch[1]].stream

\* What is written is masked with the transformations of its own stream.
MaskedSo(out, records, trans) ==
    \A i \in 1..Len(out) : out[i].row = Transform!Transformed(records[i].row, trans, records[i].stream)

\* Every record is written in its place or in the buffer, in the order of the input,
\* and no STATE is of records that are still to come; the one written is of records written.
TfInv ==
    /\ transformations \in Configurations
    /\ tf_input \in Seq(Records) /\ IsSequence(output)
    /\ messages \in Seq(Nat)
    /\ Len(output) + Len(messages) = Len(tf_input)
    /\ \A i \in 1..Len(output) : output[i].number = i
    /\ \A i \in 1..Len(messages) : messages[i] = Len(output) + i
    /\ OfOneStream(messages, tf_input)
    /\ MaskedSo(output, tf_input, transformations)
    /\ tf_state \in Nat /\ tf_state <= Len(tf_input)
    /\ written \in Nat /\ written <= Len(output)

\* Nothing is read, and nothing written.
LEMMA TfInit == Transform!Init => TfInv
<1> SUFFICES ASSUME Transform!Init PROVE TfInv
  OBVIOUS
<1>1. /\ tf_input = << >> /\ output = << >> /\ messages = << >> /\ tf_state = 0 /\ written = 0
      /\ transformations \in Configurations
  BY DEF Transform!Init
<1>2. << >> \in Seq({}) /\ << >> \in Seq(Records) /\ << >> \in Seq(Nat) /\ Len(<< >>) = 0
  OBVIOUS
<1>3. OfOneStream(messages, tf_input) /\ MaskedSo(output, tf_input, transformations)
  BY <1>1, <1>2 DEF OfOneStream, MaskedSo
<1>4. QED
  BY <1>1, <1>2, <1>3 DEF TfInv, IsSequence

\* A batch is written behind the output, record by record, whatever its masks are.
LEMMA TfWrite ==
    ASSUME TfInv, NEW batch \in Seq(Nat), Transform!WriteBatch(batch),
           \A i \in 1..Len(batch) : batch[i] = Len(output) + i,
           OfOneStream(batch, tf_input'), UNCHANGED transformations,
           \A i \in 1..Len(tf_input) : tf_input'[i] = tf_input[i]
    PROVE  /\ IsSequence(output')
           /\ Len(output') = Len(output) + Len(batch)
           /\ \A i \in 1..Len(output') : output'[i].number = i
           /\ MaskedSo(output', tf_input', transformations')
<1> DEFINE Mask(i) == Transform!Transformed(tf_input'[batch[i]].row, transformations, Transform!StreamOf(batch))
           q == [i \in 1..Len(batch) |-> [number |-> batch[i], row |-> Mask(i)]]
<1>1. output' = output \o q
  BY DEF Transform!WriteBatch
<1> HIDE DEF Mask
<1>2. PICK S : output \in Seq(S)
  BY DEF TfInv, IsSequence
<1> DEFINE T == S \cup {[number |-> batch[i], row |-> Mask(i)] : i \in 1..Len(batch)}
<1>3. q \in Seq(T) /\ Len(q) = Len(batch) /\ \A i \in 1..Len(batch) : q[i].number = batch[i]
  <2>1. Len(batch) \in Nat
    OBVIOUS
  <2>2. \A i \in 1..Len(batch) : [number |-> batch[i], row |-> Mask(i)] \in T
    OBVIOUS
  <2>3. \A i \in 1..Len(batch) : q[i].number = batch[i]
    OBVIOUS
  <2> DEFINE m(i) == [number |-> batch[i], row |-> Mask(i)]
  <2>4. q = [i \in 1..Len(batch) |-> m(i)] /\ \A i \in 1..Len(batch) : m(i) \in T
    BY <2>2
  <2> HIDE DEF q, m, T
  <2>5. q \in Seq(T) /\ Len(q) = Len(batch)
    BY <2>1, <2>4
  <2>6. QED
    BY <2>3, <2>5
<1>4. output \in Seq(T)
  <2>1. S \subseteq T
    OBVIOUS
  <2> HIDE DEF T
  <2>2. QED
    BY <1>2, <2>1
<1> HIDE DEF q, T
<1>5. /\ IsSequence(output') /\ Len(output') = Len(output) + Len(q) /\ Len(output) \in Nat /\ Len(q) \in Nat
      /\ \A i \in 1..Len(output') : output'[i] = IF i <= Len(output) THEN output[i] ELSE q[i - Len(output)]
  <2>1. /\ output \o q \in Seq(T) /\ Len(output \o q) = Len(output) + Len(q)
        /\ \A i \in 1..(Len(output) + Len(q)) :
               (output \o q)[i] = IF i <= Len(output) THEN output[i] ELSE q[i - Len(output)]
    <3>1. q \in Seq(T)
      BY <1>3
    <3>2. QED
      BY ONLY <1>4, <3>1, ConcatProperties, Zenon
  <2>2. Len(output) \in Nat /\ Len(q) \in Nat
    BY <1>3, <1>4
  <2>3. IsSequence(output')
    BY <1>1, <2>1 DEF IsSequence
  <2>4. QED
    BY <1>1, <2>1, <2>2, <2>3
<1>6. ASSUME NEW i \in 1..Len(output') PROVE output'[i].number = i
  <2>1. CASE i <= Len(output)
    <3>1. output'[i] = output[i] /\ i \in 1..Len(output)
      BY <1>5, <2>1
    <3>2. QED
      BY <3>1 DEF TfInv
  <2>2. CASE ~(i <= Len(output))
    <3>1. i - Len(output) \in 1..Len(batch)
      BY <1>3, <1>5, <2>2
    <3>2. output'[i].number = batch[i - Len(output)]
      BY <1>3, <1>5, <2>2, <3>1
    <3>3. batch[i - Len(output)] = Len(output) + (i - Len(output))
      BY <3>1
    <3>4. QED
      BY <1>5, <3>2, <3>3
  <2>3. QED
    BY <2>1, <2>2
<1>7. ASSUME NEW i \in 1..Len(output')
      PROVE  output'[i].row = Transform!Transformed(tf_input'[i].row, transformations', tf_input'[i].stream)
  <2>1. CASE i <= Len(output)
    <3>1. output'[i] = output[i] /\ i \in 1..Len(output) /\ i \in 1..Len(tf_input)
      <4>1. Len(output) \in Nat /\ Len(messages) \in Nat /\ Len(output) + Len(messages) = Len(tf_input)
        BY DEF TfInv
      <4>2. QED
        BY <1>5, <2>1, <4>1
    <3>2. output[i].row = Transform!Transformed(tf_input[i].row, transformations, tf_input[i].stream)
      BY <3>1 DEF TfInv, MaskedSo
    <3>3. tf_input'[i] = tf_input[i]
      BY <3>1
    <3>4. QED
      BY <3>1, <3>2, <3>3
  <2>2. CASE ~(i <= Len(output))
    <3> DEFINE j == i - Len(output)
    <3>1. j \in 1..Len(batch) /\ j + Len(output) = i /\ output'[i] = q[j]
      BY <1>3, <1>5, <2>2
    <3>2. batch[j] = i
      BY <1>5, <3>1
    <3>3. Transform!StreamOf(batch) = tf_input'[i].stream
      <4>1. Head(batch) = batch[1]
        BY <3>1
      <4>2. QED
        BY <3>1, <3>2, <4>1 DEF Transform!StreamOf, OfOneStream
    <3>4. q[j].row = Mask(j)
      <4> HIDE DEF j
      <4>1. QED
        BY <3>1 DEF q
    <3>5. QED
      BY <3>1, <3>2, <3>3, <3>4 DEF Mask
  <2>3. QED
    BY <2>1, <2>2
<1>8. QED
  BY <1>3, <1>5, <1>6, <1>7 DEF MaskedSo

\* A flush of what is in the buffer, or of it and the record that comes.
LEMMA TfFlush ==
    ASSUME TfInv, NEW batch \in Seq(Nat), NEW rest \in Seq(Nat), Transform!flush(batch, rest),
           tf_input' \in Seq(Records), Len(messages) <= Len(batch),
           OfOneStream(batch, tf_input'), OfOneStream(rest, tf_input'), UNCHANGED transformations,
           \A i \in 1..Len(tf_input) : tf_input'[i] = tf_input[i],
           Len(tf_input) <= Len(tf_input'), Len(output) + Len(batch) + Len(rest) = Len(tf_input'),
           \A i \in 1..Len(batch) : batch[i] = Len(output) + i,
           \A i \in 1..Len(rest) : rest[i] = Len(output) + Len(batch) + i
    PROVE  TfInv'
<1>1. /\ IsSequence(output')
      /\ Len(output') = Len(output) + Len(batch)
      /\ \A i \in 1..Len(output') : output'[i].number = i
      /\ MaskedSo(output', tf_input', transformations')
  BY TfWrite DEF Transform!flush
<1>2. messages' = rest /\ written' \in {tf_state, written} /\ tf_state' = 0
  BY DEF Transform!flush
<1>3. /\ Len(output) \in Nat /\ Len(messages) \in Nat /\ Len(batch) \in Nat /\ Len(tf_input) \in Nat /\ Len(tf_input') \in Nat
      /\ Len(output) + Len(messages) = Len(tf_input)
      /\ tf_state \in Nat /\ tf_state <= Len(tf_input) /\ written \in Nat /\ written <= Len(output)
  BY DEF TfInv
<1>4. written' \in Nat /\ written' <= Len(output')
  BY <1>1, <1>2, <1>3
<1>5. OfOneStream(messages', tf_input')
  BY <1>2
<1>6. transformations' \in Configurations
  BY DEF TfInv
<1>7. QED
  BY <1>1, <1>2, <1>3, <1>4, <1>5, <1>6 DEF TfInv

\* A RECORD goes into the buffer, behind what it holds.
LEMMA TfRecord ==
    ASSUME TfInv, NEW stream \in TransformStreams, NEW row \in Transform!RowsOf, Transform!RecordMessage(stream, row)
    PROVE  TfInv'
<1> DEFINE r == [stream |-> stream, row |-> row]
           number == Len(tf_input) + 1
<1>1. /\ tf_input' = Append(tf_input, r)
      /\ \/ Transform!BufferedAlready(stream) /\ Transform!flush(Append(messages, number), << >>)
         \/ Transform!BufferedAlready(stream) /\ Transform!Keep(Append(messages, number))
         \/ Transform!flush(messages, <<number>>)
      /\ UNCHANGED transformations
  BY DEF Transform!RecordMessage
<1>2. tf_input \in Seq(Records) /\ r \in Records /\ r.stream = stream
  BY DEF TfInv, Records
<1>3. /\ tf_input' \in Seq(Records) /\ Len(tf_input') = Len(tf_input) + 1 /\ Len(tf_input) \in Nat
      /\ \A i \in 1..Len(tf_input) : tf_input'[i] = tf_input[i]
      /\ tf_input'[number] = r
  <2> HIDE DEF r
  <2>1. QED
    BY <1>1, <1>2
<1> HIDE DEF r
<1>4. Len(tf_input') = Len(tf_input) + 1 /\ Len(tf_input) \in Nat
  BY <1>3
<1>5. \A i \in 1..Len(tf_input) : tf_input'[i] = tf_input[i]
  BY <1>3
<1> DEFINE b == Append(messages, number)
<1>6. /\ messages \in Seq(Nat) /\ Len(output) \in Nat /\ Len(messages) \in Nat
      /\ Len(output) + Len(messages) = Len(tf_input)
      /\ \A i \in 1..Len(messages) : messages[i] = Len(output) + i
  BY DEF TfInv
<1>7. /\ b \in Seq(Nat) /\ Len(b) = Len(messages) + 1
      /\ \A i \in 1..Len(b) : b[i] = Len(output) + i
  BY <1>4, <1>6
<1>8. \A i \in 1..Len(messages) : messages[i] \in 1..Len(tf_input) /\ tf_input'[messages[i]] = tf_input[messages[i]]
  <2>1. \A i \in 1..Len(messages) : messages[i] \in 1..Len(tf_input)
    BY <1>4, <1>6
  <2>2. QED
    BY <1>5, <2>1
<1>9. OfOneStream(messages, tf_input')
  <2>1. OfOneStream(messages, tf_input)
    BY DEF TfInv
  <2>2. ASSUME NEW i \in 1..Len(messages) PROVE tf_input'[messages[i]].stream = tf_input'[messages[1]].stream
    <3>1. 1 \in 1..Len(messages)
      BY <1>6
    <3>2. QED
      BY <1>8, <2>1, <3>1 DEF OfOneStream
  <2>3. QED
    BY <2>2 DEF OfOneStream
<1>10. ASSUME Transform!BufferedAlready(stream) PROVE OfOneStream(b, tf_input')
  <2>1. \A i \in 1..Len(messages) : b[i] = messages[i] /\ tf_input'[messages[i]].stream = stream
    <3>1. ASSUME NEW i \in 1..Len(messages) PROVE b[i] = messages[i] /\ tf_input[messages[i]].stream = stream
      BY <1>3, <1>6, <1>10 DEF Transform!BufferedAlready
    <3>2. QED
      BY <1>8, <3>1
  <2>2. b[Len(messages) + 1] = number /\ tf_input'[number].stream = stream
    BY <1>2, <1>3, <1>6
  <2>3. \A i \in 1..Len(b) : tf_input'[b[i]].stream = stream
    <3> HIDE DEF b
    <3>1. \A i \in 1..Len(b) : i \in 1..Len(messages) \/ i = Len(messages) + 1
      <4>1. Len(messages) \in Nat /\ Len(b) = Len(messages) + 1
        BY <1>6, <1>7
      <4>2. QED
        BY <4>1
    <3>2. QED
      BY <2>1, <2>2, <3>1
  <2>4. 1 \in 1..Len(b)
    BY <1>6, <1>7
  <2>5. QED
    BY <2>3, <2>4 DEF OfOneStream
<1>11. << >> \in Seq(Nat) /\ Len(<< >>) = 0
  OBVIOUS
<1>12. <<number>> \in Seq(Nat) /\ Len(<<number>>) = 1 /\ <<number>>[1] = number
  BY <1>3
<1>13. CASE Transform!BufferedAlready(stream) /\ Transform!flush(b, << >>)
  <2> DEFINE none == << >>
  <2>1. none \in Seq(Nat) /\ Len(none) = 0 /\ Transform!flush(b, none)
    BY <1>13
  <2> HIDE DEF b, none, number
  <2>2. /\ Len(messages) <= Len(b) /\ Len(tf_input) <= Len(tf_input')
        /\ Len(output) + Len(b) + Len(none) = Len(tf_input')
        /\ \A i \in 1..Len(none) : none[i] = Len(output) + Len(b) + i
    BY <1>3, <1>6, <1>7, <2>1
  <2>3. OfOneStream(none, tf_input') /\ OfOneStream(b, tf_input')
    BY <1>13, <1>10, <2>1 DEF OfOneStream
  <2>4. QED
    BY <1>1, <1>3, <1>7, <2>1, <2>2, <2>3, TfFlush
<1>14. CASE Transform!BufferedAlready(stream) /\ Transform!Keep(b)
  <2> HIDE DEF b
  <2>1. messages' = b /\ UNCHANGED <<tf_state, output, written>>
    BY <1>14 DEF Transform!Keep
  <2>2. OfOneStream(messages', tf_input')
    BY <1>14, <1>10, <2>1
  <2>3. MaskedSo(output', tf_input', transformations')
    <3>1. ASSUME NEW i \in 1..Len(output)
          PROVE  output[i].row = Transform!Transformed(tf_input'[i].row, transformations, tf_input'[i].stream)
      <4>1. tf_input'[i] = tf_input[i]
        BY <1>3, <1>6
      <4>2. QED
        BY <4>1 DEF TfInv, MaskedSo
    <3>2. QED
      BY <1>1, <2>1, <3>1 DEF MaskedSo
  <2>4. /\ transformations' \in Configurations /\ IsSequence(output') /\ messages' \in Seq(Nat)
        /\ \A i \in 1..Len(output') : output'[i].number = i
    BY <1>1, <1>7, <2>1 DEF TfInv
  <2>5. /\ Len(output') + Len(messages') = Len(tf_input')
        /\ \A i \in 1..Len(messages') : messages'[i] = Len(output') + i
    BY <1>4, <1>6, <1>7, <2>1
  <2>6. tf_state' \in Nat /\ tf_state' <= Len(tf_input') /\ written' \in Nat /\ written' <= Len(output')
    BY <1>3, <1>6, <2>1 DEF TfInv
  <2>7. QED
    BY <1>3, <2>2, <2>3, <2>4, <2>5, <2>6 DEF TfInv
<1>15. CASE Transform!flush(messages, <<number>>)
  <2>1. \A i \in 1..Len(<<number>>) : <<number>>[i] = Len(output) + Len(messages) + i
    BY <1>3, <1>6
  <2> DEFINE rest == <<number>>
  <2>2. rest \in Seq(Nat) /\ Len(rest) = 1
    BY <1>12
  <2> HIDE DEF rest
  <2>3. Len(output) + Len(messages) + Len(rest) = Len(tf_input')
    BY <1>3, <1>6, <2>2
  <2>4. Transform!flush(messages, rest) /\ \A i \in 1..Len(rest) : rest[i] = Len(output) + Len(messages) + i
    BY <1>15, <2>1 DEF rest
  <2>6. OfOneStream(rest, tf_input')
    BY <1>12 DEF OfOneStream, rest
  <2>5. QED
    <3>1. Len(messages) <= Len(messages) /\ Len(tf_input) <= Len(tf_input')
      BY <1>3, <1>6
    <3>2. QED
      BY <1>1, <1>3, <1>6, <1>9, <2>2, <2>3, <2>4, <2>6, <3>1, TfFlush
<1>16. QED
  BY <1>1, <1>13, <1>14, <1>15

\* A SCHEMA and the end of the input flush the buffer, and leave nothing in it.
LEMMA TfFlushAll ==
    ASSUME TfInv, UNCHANGED <<tf_input, transformations>>, Transform!flush(messages, << >>)
    PROVE  TfInv'
<1>1. << >> \in Seq(Nat) /\ Len(<< >>) = 0
  OBVIOUS
<1>2. /\ messages \in Seq(Nat) /\ Len(output) \in Nat /\ Len(messages) \in Nat /\ Len(tf_input) \in Nat
      /\ Len(output) + Len(messages) = Len(tf_input)
      /\ \A i \in 1..Len(messages) : messages[i] = Len(output) + i
      /\ tf_input' \in Seq(Records) /\ OfOneStream(messages, tf_input')
      /\ \A i \in 1..Len(tf_input) : tf_input'[i] = tf_input[i]
  BY DEF TfInv
<1>3. QED
  <2> DEFINE none == << >>
  <2>1. none \in Seq(Nat) /\ Len(none) = 0 /\ Transform!flush(messages, none)
    OBVIOUS
  <2> HIDE DEF none
  <2>2. /\ Len(messages) <= Len(messages) /\ Len(tf_input) <= Len(tf_input')
        /\ Len(output) + Len(messages) + Len(none) = Len(tf_input')
        /\ \A i \in 1..Len(none) : none[i] = Len(output) + Len(messages) + i
        /\ OfOneStream(none, tf_input')
    BY <1>2, <2>1 DEF OfOneStream
  <2>3. QED
    BY <1>2, <2>1, <2>2, TfFlush

\* A message, the end of the input or a failure keeps it.
LEMMA TfStep == TfInv /\ [Transform!Next]_(Transform!transformVars) => TfInv'
<1> SUFFICES ASSUME TfInv, [Transform!Next]_(Transform!transformVars) PROVE TfInv'
  OBVIOUS
<1>1. ASSUME NEW stream \in TransformStreams, NEW row \in Transform!RowsOf, Transform!RecordMessage(stream, row) PROVE TfInv'
  BY <1>1, TfRecord
<1>2. CASE Transform!SchemaMessage
  BY <1>2, TfFlushAll DEF Transform!SchemaMessage
<1>3. CASE Transform!EndOfInput
  BY <1>3, TfFlushAll DEF Transform!EndOfInput
<1>4. CASE Transform!StateMessage
  <2>1. tf_state' = Len(tf_input) /\ UNCHANGED <<transformations, tf_input, messages, output, written>>
    BY <1>4 DEF Transform!StateMessage, Transform!HoldState
  <2>2. QED
    BY <2>1 DEF TfInv
<1>5. CASE Transform!Fails
  BY <1>5 DEF Transform!Fails, TfInv
<1>6. CASE UNCHANGED Transform!transformVars
  BY <1>6 DEF Transform!transformVars, TfInv
<1>7. QED
  BY <1>1, <1>2, <1>3, <1>4, <1>5, <1>6 DEF Transform!Next

\* What a written STATE covers is in the output.
LEMMA TfImplies == TfInv => Transform!StateFollowsItsRecords
BY DEF TfInv, Transform!StateFollowsItsRecords

\* What is written is masked as fastsync masks it.
LEMMA TfMasks ==
    ASSUME TfInv, Configurations \subseteq Seq(MaskItems)
    PROVE  Transform!MasksLikeFastsync
<1> SUFFICES ASSUME NEW n \in DOMAIN output,
                    Transform!SameOnBothPaths(transformations, tf_input[output[n].number].stream)
             PROVE  output[n].row = Transform!MaskedByFastsync(tf_input[output[n].number].row, transformations,
                                                     tf_input[output[n].number].stream)
  BY DEF Transform!MasksLikeFastsync
<1>1. PICK S : output \in Seq(S)
  BY DEF TfInv, IsSequence
<1>2. /\ n \in 1..Len(output) /\ Len(output) \in Nat /\ Len(messages) \in Nat
      /\ Len(output) + Len(messages) = Len(tf_input) /\ tf_input \in Seq(Records)
  BY <1>1 DEF TfInv
<1>3. output[n].number = n /\ n \in 1..Len(tf_input)
  BY <1>2 DEF TfInv
<1>4. tf_input[n].row \in MaskedRows
  <2>1. tf_input[n] \in Records
    BY <1>2, <1>3
  <2>2. QED
    BY <2>1 DEF Records, Transform!RowsOf, MaskedRows
<1>5. transformations \in Seq(MaskItems)
  BY DEF TfInv
<1>6. output[n].row = Transform!Transformed(tf_input[n].row, transformations, tf_input[n].stream)
  BY <1>2 DEF TfInv, MaskedSo
<1>7. QED
  BY <1>3, <1>4, <1>5, <1>6, MaskedAlike

\* What holds of transform-field while it is the part that works.
TransformInv == part = "transform" => TfInv

\* transform-field starts in its initial state.
LEMMA TransformInit == InitAll => TransformInv
<1>1. SUFFICES ASSUME InitAll, part = "transform" PROVE TfInv
  BY DEF TransformInv
<1>2. Transform!Init
  BY <1>1, ColumnsAssumption DEF InitAll
<1>3. QED
  BY <1>2, TfInit

\* A step of the instance is one of the part that runs, and that part stays.
LEMMA TransformFrame ==
    ASSUME [NextAll]_<<part, vars, transform_, columns_>>
    PROVE  /\ part' = part
           /\ part = "transform" => [Transform!Next]_(Transform!transformVars)
<1>1. CASE NextAll
  <2>1. \/ part = "transform" /\ Transform!Next /\ part' = part
        \/ part # "transform" /\ part' = part
    BY <1>1, ColumnsAssumption DEF NextAll
  <2>2. QED
    BY <2>1
<1>2. CASE UNCHANGED <<part, vars, transform_, columns_>>
  <2>1. UNCHANGED <<transformations, tf_input, messages, tf_state, output, written, tf_pc>>
    BY <1>2 DEF transform_
  <2>2. UNCHANGED Transform!transformVars
    BY <2>1 DEF Transform!transformVars
  <2>3. QED
    BY <1>2, <2>2
<1>3. QED
  BY <1>1, <1>2

\* Its invariant is kept.
LEMMA TransformStep ==
    TransformInv /\ [NextAll]_<<part, vars, transform_, columns_>> => TransformInv'
<1>1. SUFFICES ASSUME TransformInv, [NextAll]_<<part, vars, transform_, columns_>>,
                      part' = "transform"
               PROVE  TfInv'
  BY DEF TransformInv
<1>2. part = "transform" /\ [Transform!Next]_(Transform!transformVars)
  BY <1>1, TransformFrame
<1>3. QED
  BY <1>1, <1>2, TfStep DEF TransformInv

\* transform-field writes a STATE after all the records that preceded it, and
\* these in their order, for every configuration of the transformations, every
\* set of streams and every size of a batch (handle_line, flush).
THEOREM TransformInOrder == SpecAll => []StateFollowsItsRecords
<1>1. TransformInv => StateFollowsItsRecords
  BY TfImplies DEF TransformInv, StateFollowsItsRecords
<1>2. QED
  BY <1>1, TransformInit, TransformStep, PTL DEF SpecAll

\* transform-field masks a row as fastsync masks it in the table, for every
\* configuration that does not tell the two apart: no condition asks for an
\* empty value, and no transformation without conditions comes before one of its
\* own column or one with a condition on it (do_transform, __apply_transformations).
THEOREM MasksAlike == SpecAll => []MasksLikeFastsync
<1>1. MaskItems = [tap_stream_name : TransformStreams, field_id : TransformColumns,
                   type : {"SET-NULL", "MASK-HIDDEN", "HASH"},
                   when : Seq([column : TransformColumns, equals : Values \cup {Null}])]
  BY DEF MaskItems
<1>2. Configurations \subseteq Seq(MaskItems)
  BY <1>1, TransformAssumption
<1>3. TransformInv => MasksLikeFastsync
  BY <1>2, TfMasks DEF TransformInv, MasksLikeFastsync
<1>4. QED
  BY <1>3, TransformInit, TransformStep, PTL DEF SpecAll

-----------------------------------------------------------------------------
(* The columns of a table: types that change, and statements that may stop  *)

\* A SCHEMA lists its properties, and there is a minute for the first version.
ColumnsSound(t) == t.names \in Seq(Table(t)!NameSet) /\ t.minutes \in Nat /\ 1 <= t.minutes

\* The names of a set are of that set.
LEMMA InTheirOrderIsOfThem ==
    ASSUME NEW t, ColumnsSound(t), NEW chosen
    PROVE  Table(t)!InTheirOrder(chosen) \in Seq(chosen)
<1> DEFINE n == Len(t.names)
           F(g) == [k \in 0..n |-> IF k = 0 THEN << >>
                                   ELSE IF t.names[k] \in chosen THEN Append(g[k - 1], t.names[k])
                                   ELSE g[k - 1]]
           u == CHOOSE g : g = F(g)
<1>1. Table(t)!InTheirOrder(chosen) = u[n]
  BY DEF Table!InTheirOrder
<1>2. n \in Nat
  BY DEF ColumnsSound
<1> HIDE DEF n
<1> DEFINE Q(m) == \E g \in [0..m -> Seq(chosen)] : \A k \in 0..m :
                      g[k] = IF k = 0 THEN << >>
                             ELSE IF t.names[k] \in chosen THEN Append(g[k - 1], t.names[k]) ELSE g[k - 1]
           T == {m \in 0..n : ~Q(m)}
<1>3. Q(0)
  <2> DEFINE g == [k \in 0..0 |-> << >>]
  <2>1. g \in [0..0 -> Seq(chosen)] /\ \A k \in 0..0 : g[k] = << >> /\ k = 0
    OBVIOUS
  <2>2. QED
    BY <2>1
<1>4. ASSUME NEW m \in 0..n, Q(m) PROVE Q(m + 1)
  <2>1. PICK g \in [0..m -> Seq(chosen)] : \A k \in 0..m :
               g[k] = IF k = 0 THEN << >>
                      ELSE IF t.names[k] \in chosen THEN Append(g[k - 1], t.names[k]) ELSE g[k - 1]
    BY <1>4
  <2> DEFINE v == IF t.names[m + 1] \in chosen THEN Append(g[m], t.names[m + 1]) ELSE g[m]
             h == [k \in 0..(m + 1) |-> IF k = m + 1 THEN v ELSE g[k]]
  <2>2. v \in Seq(chosen)
    <3>1. g[m] \in Seq(chosen)
      BY <1>2
    <3>2. QED
      BY <3>1
  <2>3. \A k \in 0..(m + 1) : h[k] = IF k = m + 1 THEN v ELSE g[k]
    OBVIOUS
  <2>4. h \in [0..(m + 1) -> Seq(chosen)]
    <3>1. \A k \in 0..(m + 1) : k # m + 1 => k \in 0..m
      BY <1>2
    <3> HIDE DEF v
    <3>2. QED
      BY <2>1, <2>2, <3>1
  <2> HIDE DEF h
  <2>5. ASSUME NEW k \in 0..(m + 1)
        PROVE  h[k] = IF k = 0 THEN << >>
                      ELSE IF t.names[k] \in chosen THEN Append(h[k - 1], t.names[k]) ELSE h[k - 1]
    <3>1. CASE k = m + 1
      <4>1. m \in 0..(m + 1) /\ m # m + 1 /\ k # 0 /\ k - 1 = m
        BY <3>1, <1>2
      <4>2. h[m] = g[m] /\ h[k] = v
        BY <2>3, <3>1, <4>1
      <4>3. QED
        BY <3>1, <4>1, <4>2
    <3>2. CASE k # m + 1
      <4>1. k \in 0..m /\ (k # 0 => k - 1 \in 0..(m + 1) /\ k - 1 # m + 1)
        BY <3>2, <1>2
      <4>2. h[k] = g[k] /\ (k # 0 => h[k - 1] = g[k - 1])
        BY <2>3, <3>2, <4>1
      <4>3. QED
        BY <2>1, <4>1, <4>2
    <3>3. QED
      BY <3>1, <3>2
  <2>6. QED
    BY <2>4, <2>5
<1> HIDE DEF Q
<1>5. T = {}
  <2> SUFFICES ASSUME T # {} PROVE FALSE
    OBVIOUS
  <2>1. PICK x \in T : \A y \in T : x <= y
    <3>1. T \subseteq Nat
      BY <1>2
    <3> HIDE DEF T
    <3>2. QED
      BY <3>1, Least
  <2>2. x # 0 /\ x - 1 \in 0..n /\ x - 1 + 1 = x /\ x - 1 \notin T
    BY <1>2, <1>3, <2>1
  <2>3. Q(x - 1)
    BY <2>2
  <2>4. Q(x)
    BY <1>4, <2>2, <2>3
  <2>5. QED
    BY <2>1, <2>4
<1>6. PICK g \in [0..n -> Seq(chosen)] : \A k \in 0..n :
             g[k] = IF k = 0 THEN << >>
                    ELSE IF t.names[k] \in chosen THEN Append(g[k - 1], t.names[k]) ELSE g[k - 1]
  <2>1. Q(n)
    BY <1>2, <1>5
  <2>2. QED
    BY <2>1 DEF Q
<1>7. g = F(g)
  BY <1>6
<1>8. u = F(u)
  <2> HIDE DEF F
  <2>1. QED
    BY <1>7
<1> HIDE DEF u
<1>9. \A k \in 0..n : u[k] = IF k = 0 THEN << >>
                             ELSE IF t.names[k] \in chosen THEN Append(u[k - 1], t.names[k]) ELSE u[k - 1]
  BY <1>8
<1> HIDE DEF F
<1> DEFINE W == {k \in 0..n : u[k] \notin Seq(chosen)}
<1>10. W = {}
  <2> SUFFICES ASSUME W # {} PROVE FALSE
    OBVIOUS
  <2>1. PICK x \in W : \A y \in W : x <= y
    <3>1. W \subseteq Nat
      BY <1>2
    <3> HIDE DEF W
    <3>2. QED
      BY <3>1, Least
  <2>2. x # 0
    <3>1. u[0] = << >> /\ << >> \in Seq(chosen)
      BY <1>2, <1>9
    <3>2. QED
      BY <2>1, <3>1
  <2>3. x - 1 \in 0..n /\ x - 1 \notin W
    BY <1>2, <2>1, <2>2
  <2>4. u[x - 1] \in Seq(chosen)
    BY <2>3
  <2>5. u[x] = IF t.names[x] \in chosen THEN Append(u[x - 1], t.names[x]) ELSE u[x - 1]
    BY <1>9, <2>1, <2>2
  <2>6. u[x] \in Seq(chosen)
    BY <2>4, <2>5
  <2>7. QED
    BY <2>1, <2>6
<1>11. QED
  BY <1>1, <1>2, <1>10

\* Without a cache, and in PostgreSQL, the columns are the ones there are.
Uncached(t) == t.target = "postgres" \/ (~t.cached)

\* A statement that alters a table is on one that is there, and renames, where
\* the columns are the ones there are, what has changed its type.
AlterOk(t, s, there, since, now) ==
    /\ s.op \in {"create", "add", "version"}
    /\ s.op # "create" => s.name \in Table(t)!NameSet /\ there
    /\ s.op = "version" /\ Uncached(t) => since[s.name] = now

\* What has not been created is empty; the values are those of the columns.
CvType(t) ==
    /\ minute \in 1..t.minutes
    /\ exists \in BOOLEAN
    /\ columns = [c \in Table(t)!Columns |-> columns[c]]
    /\ cells \in [t.keys -> [Table(t)!Columns -> Nat]]
    /\ col_loaded \in [t.keys -> [Table(t)!NameSet -> Nat]]
    /\ retyped \in [Table(t)!NameSet -> Nat]
    /\ col_records \in Nat
    /\ IsSequence(alters) /\ (col_pc = "alter" <=> alters # << >>)

CvTable(t) ==
    /\ ~exists => \A c \in Table(t)!Columns : columns[c] = NoState
    /\ \A k \in t.keys, c \in Table(t)!Columns : columns[c] = NoState => cells[k][c] = 0
    /\ \A k \in t.keys, name \in Table(t)!NameSet : col_loaded[k][name] <= col_records
    /\ table_cache.exists => exists
    /\ Uncached(t) => ~(t.target = "snowflake" /\ table_cache.on)

CvAlters(t) == \A i \in 1..Len(alters) : AlterOk(t, alters[i], exists, retyped, col_records)

CvInv(t) == CvType(t) /\ CvTable(t) /\ CvAlters(t) /\ Table(t)!LoadedValuesAreFound

\* The column of a name, and a version of it that is another one.
LEMMA ColumnOf ==
    ASSUME NEW t, ColumnsSound(t), NEW name \in Table(t)!NameSet, NEW m \in 1..t.minutes
    PROVE  /\ Table(t)!Column(name) \in Table(t)!Columns
           /\ Table(t)!Column(name).name = name /\ Table(t)!Column(name).at = 0
           /\ [Table(t)!Column(name) EXCEPT !.at = m] \in Table(t)!Columns
           /\ [Table(t)!Column(name) EXCEPT !.at = m].name = name
           /\ [Table(t)!Column(name) EXCEPT !.at = m].at = m /\ m # 0
BY DEF Table!Column, Table!Columns, ColumnsSound

\* The statements of update_columns, whatever the columns it is given.
LEMMA UpdateColumns ==
    ASSUME NEW t, ColumnsSound(t), NEW o, NEW known, NEW there, there = TRUE, NEW since, NEW now,
           Uncached(t) => \A name \in Table(t)!InSchema(o) :
               known[Table(t)!Column(name)] # Table(t)!column_type(o[name]) => since[name] = now
    PROVE  /\ IsSequence(Table(t)!update_columns(o, known))
           /\ \A i \in 1..Len(Table(t)!update_columns(o, known)) :
                 AlterOk(t, Table(t)!update_columns(o, known)[i], there, since, now)
<1> DEFINE A == {name \in Table(t)!InSchema(o) : known[Table(t)!Column(name)] = NoState}
           R == {name \in Table(t)!InSchema(o) :
                   LET type == Table(t)!column_type(o[name])  found == known[Table(t)!Column(name)]
                   IN  IF t.target = "postgres" THEN Table(t)!PostgresReplaces(type, found)
                       ELSE Table(t)!SnowflakeReplaces(type, found)}
           add == Table(t)!columns_to_add(o, known)
           replace == Table(t)!columns_to_replace(o, known)
           Half(n) == (n + 1) \div 2
           first == [n \in 1..Len(add) |-> Table(t)!Statement("add", add[n], o)]
           Then(n) == Table(t)!Statement(IF n % 2 = 1 THEN "version" ELSE "add", replace[Half(n)], o)
           second == [n \in 1..(2 * Len(replace)) |-> Then(n)]
           St == {Table(t)!Statement("add", name, o) : name \in Table(t)!NameSet}
                 \cup {Table(t)!Statement("version", name, o) : name \in R}
<1>1. add \in Seq(A) /\ replace \in Seq(R)
  BY InTheirOrderIsOfThem DEF Table!columns_to_add, Table!columns_to_replace
<1>2. A \subseteq Table(t)!NameSet /\ R \subseteq Table(t)!NameSet
  BY DEF Table!InSchema
<1>3. \A name \in R : Uncached(t) => since[name] = now
  BY DEF Table!PostgresReplaces, Table!SnowflakeReplaces
<1>4. Table(t)!update_columns(o, known) = first \o second
  BY DEF Table!update_columns
<1> HIDE DEF A, R, add, replace
<1>5. first \in Seq(St)
  <2>1. \A n \in 1..Len(add) : add[n] \in Table(t)!NameSet
    BY <1>1, <1>2
  <2>2. Len(add) \in Nat
    BY <1>1
  <2>3. \A n \in 1..Len(add) : Table(t)!Statement("add", add[n], o) \in St
    BY <2>1
  <2> HIDE DEF St
  <2>4. QED
    BY <2>2, <2>3
<1>6. second \in Seq(St)
  <2>1. Len(replace) \in Nat
    BY <1>1
  <2>2. ASSUME NEW n \in 1..(2 * Len(replace)) PROVE Then(n) \in St
    <3>1. Half(n) \in 1..Len(replace)
      BY <2>1
    <3>2. replace[Half(n)] \in R
      BY <1>1, <3>1
    <3> HIDE DEF Half
    <3>3. QED
      BY <1>2, <3>2
  <2> HIDE DEF St, Then
  <2>3. QED
    BY <2>1, <2>2
<1> HIDE DEF first, second
<1>7. Table(t)!update_columns(o, known) \in Seq(St)
  <2> HIDE DEF St
  <2>1. QED
    BY <1>4, <1>5, <1>6
<1>8. ASSUME NEW s \in St PROVE AlterOk(t, s, there, since, now)
  <2>1. CASE \E name \in Table(t)!NameSet : s = Table(t)!Statement("add", name, o)
    BY <2>1 DEF Table!Statement, AlterOk
  <2>2. CASE \E name \in R : s = Table(t)!Statement("version", name, o)
    BY <1>2, <1>3, <2>2 DEF Table!Statement, AlterOk
  <2>3. QED
    BY <2>1, <2>2
<1> DEFINE q == Table(t)!update_columns(o, known)
<1>9. q \in Seq(St)
  BY <1>7
<1> HIDE DEF St, q
<1>10. IsSequence(q) /\ \A i \in 1..Len(q) : q[i] \in St
  BY <1>9 DEF IsSequence
<1>11. QED
  BY <1>8, <1>10 DEF q

\* The stream is new, or its table is as fastsync has left it.
LEMMA CvInit == ASSUME NEW t, ColumnsSound(t), Table(t)!Init PROVE CvInv(t)
<1>1. /\ exists \in BOOLEAN /\ columns = [c \in Table(t)!Columns |-> columns[c]]
      /\ ~exists => \A c \in Table(t)!Columns : columns[c] = NoState
  BY DEF Table!Init
<1>2. /\ cells = [k \in t.keys |-> [c \in Table(t)!Columns |-> 0]]
      /\ table_cache = Table(t)!NoCache /\ alters = << >> /\ col_pc = "down" /\ minute = 1
      /\ col_loaded = [k \in t.keys |-> [name \in Table(t)!NameSet |-> 0]]
      /\ retyped = [name \in Table(t)!NameSet |-> 0] /\ col_records = 0
  BY DEF Table!Init
<1>3. << >> \in Seq({}) /\ Len(<< >>) = 0
  OBVIOUS
<1>4. CvType(t)
  BY <1>1, <1>2, <1>3 DEF CvType, IsSequence, ColumnsSound
<1>5. CvTable(t)
  BY <1>1, <1>2 DEF CvTable, Table!NoCache
<1>6. CvAlters(t)
  BY <1>2, <1>3 DEF CvAlters
<1>7. Table(t)!LoadedValuesAreFound
  BY <1>2 DEF Table!LoadedValuesAreFound, Table!ValuesAreKept, Table!ValuesStayInTheirColumn
<1>8. QED
  BY <1>4, <1>5, <1>6, <1>7 DEF CvInv

\* The process begins: no statement is left to run.
LEMMA CvStart == ASSUME NEW t, ColumnsSound(t), CvInv(t), Table(t)!Start PROVE CvInv(t)'
<1>1. /\ col_pc' = "read" /\ alters' = << >>
      /\ table_cache' = IF t.target = "snowflake" /\ ~(~t.cached) /\ table_cache'.on
                        THEN Table(t)!get_table_columns ELSE Table(t)!NoCache
      /\ UNCHANGED <<exists, columns, cells, minute, col_loaded, retyped, col_records>>
  BY DEF Table!Start, Table!tableVars, Table!historyVars, Table!NoCache, Table!get_table_columns
<1>2. << >> \in Seq({}) /\ Len(<< >>) = 0
  OBVIOUS
<1>3. CvType(t)'
  BY <1>1, <1>2 DEF CvInv, CvType, IsSequence
<1>4. CvTable(t)'
  BY <1>1 DEF CvInv, CvTable, Table!NoCache, Table!get_table_columns, Uncached
<1>5. CvAlters(t)'
  BY <1>1, <1>2 DEF CvAlters
<1>6. Table(t)!LoadedValuesAreFound'
  BY <1>1 DEF CvInv, Table!LoadedValuesAreFound, Table!ValuesAreKept, Table!ValuesStayInTheirColumn
<1>7. QED
  BY <1>3, <1>4, <1>5, <1>6 DEF CvInv

\* A SCHEMA gives the statements; a type that is not the one of its column is asked for.
LEMMA CvSchema == ASSUME NEW t, ColumnsSound(t), CvInv(t), NEW o, Table(t)!Schema(o) PROVE CvInv(t)'
<1> DEFINE found == IF t.target = "snowflake" /\ table_cache.on THEN table_cache ELSE Table(t)!FoundNow
<1>1. /\ retyped' = [name \in Table(t)!NameSet |->
                       IF o[name] # NoState /\ columns[Table(t)!Column(name)] # Table(t)!column_type(o[name])
                       THEN col_records ELSE retyped[name]]
      /\ alters' = IF found.exists THEN Table(t)!update_columns(o, found.columns)
                   ELSE Table(t)!create_table_query
      /\ col_pc' = IF alters' = << >> THEN "read" ELSE "alter"
      /\ UNCHANGED <<exists, columns, cells, table_cache, minute, col_loaded, col_records>>
  BY DEF Table!Schema, Table!sync_table, Table!tableVars
<1>2. /\ col_records \in Nat /\ retyped \in [Table(t)!NameSet -> Nat]
      /\ table_cache.exists => exists
      /\ exists \in BOOLEAN
      /\ Uncached(t) => found = Table(t)!FoundNow
  BY DEF CvInv, CvType, CvTable
<1>3. IsSequence(alters') /\ CvAlters(t)'
  <2>1. CASE found.exists
    <3>1. exists = TRUE
      BY <1>2, <2>1 DEF Table!FoundNow
    <3>2. ASSUME Uncached(t), NEW name \in Table(t)!InSchema(o),
                 found.columns[Table(t)!Column(name)] # Table(t)!column_type(o[name])
          PROVE  retyped'[name] = col_records
      <4>1. found.columns = columns
        BY <1>2, <3>2 DEF Table!FoundNow
      <4>2. name \in Table(t)!NameSet /\ o[name] # NoState
        BY DEF Table!InSchema
      <4>3. QED
        BY <1>1, <3>2, <4>1, <4>2
    <3> DEFINE known == found.columns
               since == retyped'
    <3>3. alters' = Table(t)!update_columns(o, known)
      BY <1>1, <2>1
    <3>4. Uncached(t) => \A name \in Table(t)!InSchema(o) :
             known[Table(t)!Column(name)] # Table(t)!column_type(o[name]) => since[name] = col_records
      BY <3>2
    <3> HIDE DEF known, since, found
    <3>5. /\ IsSequence(Table(t)!update_columns(o, known))
          /\ \A i \in 1..Len(Table(t)!update_columns(o, known)) :
                AlterOk(t, Table(t)!update_columns(o, known)[i], exists, since, col_records)
      BY <3>1, <3>4, UpdateColumns
    <3>6. QED
      BY <1>1, <3>3, <3>5 DEF CvAlters, since
  <2>2. CASE ~found.exists
    <3> DEFINE create == [op |-> "create", name |-> NoState, type |-> NoState]
    <3>1. alters' = <<create>>
      BY <1>1, <2>2 DEF Table!create_table_query
    <3>2. AlterOk(t, create, exists', retyped', col_records')
      BY DEF AlterOk
    <3> HIDE DEF create
    <3>3. /\ IsSequence(alters') /\ \A i \in 1..Len(alters') : alters'[i] = create
      <4>1. <<create>> \in Seq({create}) /\ \A i \in 1..Len(<<create>>) : <<create>>[i] = create
        OBVIOUS
      <4>2. QED
        BY <3>1, <4>1 DEF IsSequence
    <3>4. QED
      BY <3>2, <3>3 DEF CvAlters
  <2>3. QED
    BY <2>1, <2>2
<1> HIDE DEF found
<1>4. CvType(t)'
  BY <1>1, <1>2, <1>3 DEF CvInv, CvType
<1>5. CvTable(t)'
  BY <1>1 DEF CvInv, CvTable, Uncached
<1>6. Table(t)!ValuesAreKept'
  BY <1>1 DEF CvInv, Table!LoadedValuesAreFound, Table!ValuesAreKept
<1>7. Table(t)!ValuesStayInTheirColumn => Table(t)!ValuesStayInTheirColumn'
  <2> SUFFICES ASSUME Table(t)!ValuesStayInTheirColumn, NEW k \in t.keys, NEW name \in Table(t)!NameSet,
                      col_loaded[k][name] > retyped'[name]
               PROVE  cells[k][Table(t)!Column(name)] = col_loaded[k][name]
    BY <1>1 DEF Table!ValuesStayInTheirColumn
  <2>1. col_loaded[k][name] \in Nat /\ col_loaded[k][name] <= col_records
    BY DEF CvInv, CvType, CvTable
  <2>2. retyped'[name] = retyped[name]
    BY <1>1, <1>2, <2>1
  <2>3. QED
    BY <2>2 DEF Table!ValuesStayInTheirColumn
<1>8. QED
  BY <1>3, <1>4, <1>5, <1>6, <1>7 DEF CvInv, Table!LoadedValuesAreFound

\* The rest of the statements, after one that ran.
LEMMA CvRan ==
    ASSUME NEW t, CvInv(t), col_pc = "alter", Table(t)!Ran, exists' \in BOOLEAN, exists => exists'
    PROVE  IsSequence(alters') /\ (col_pc' = "alter" <=> alters' # << >>) /\ CvAlters(t)'
<1>1. /\ alters' = Tail(alters) /\ col_pc' = IF alters' = << >> THEN "read" ELSE "alter"
      /\ UNCHANGED <<retyped, col_records>> /\ alters # << >> /\ exists \in BOOLEAN
  BY DEF Table!Ran, Table!historyVars, CvInv, CvType
<1>2. PICK S : alters \in Seq(S)
  BY DEF CvInv, CvType, IsSequence
<1>3. /\ alters' \in Seq(S) /\ \A i \in 1..Len(alters') : i + 1 \in 1..Len(alters) /\ alters'[i] = alters[i + 1]
  BY <1>1, <1>2
<1>4. ASSUME NEW i \in 1..Len(alters') PROVE AlterOk(t, alters'[i], exists', retyped', col_records')
  <2>1. AlterOk(t, alters[i + 1], exists, retyped, col_records) /\ alters'[i] = alters[i + 1]
    BY <1>3 DEF CvInv, CvAlters
  <2>2. QED
    BY <1>1, <2>1 DEF AlterOk
<1>5. QED
  BY <1>1, <1>3, <1>4 DEF IsSequence, CvAlters

\* The statement that runs.
LEMMA CvFirst ==
    ASSUME NEW t, CvInv(t), col_pc = "alter"
    PROVE  AlterOk(t, alters[1], exists, retyped, col_records)
<1>1. PICK S : alters \in Seq(S)
  BY DEF CvInv, CvType, IsSequence
<1>2. 1 \in 1..Len(alters)
  BY <1>1 DEF CvInv, CvType
<1>3. QED
  BY <1>2 DEF CvInv, CvAlters

\* CREATE TABLE: the columns are new and the cells are not touched.
LEMMA CvCreate == ASSUME NEW t, ColumnsSound(t), CvInv(t), Table(t)!create_table PROVE CvInv(t)'
<1>1. /\ col_pc = "alter" /\ exists' = TRUE /\ Table(t)!Ran
      /\ columns' = IF exists THEN columns
                    ELSE [c \in Table(t)!Columns |-> IF c.at = 0 /\ c.name \in Table(t)!InSchema(col_schema)
                                            THEN Table(t)!column_type(col_schema[c.name]) ELSE NoState]
      /\ UNCHANGED <<cells, table_cache, minute, col_loaded, retyped, col_records>>
  BY DEF Table!create_table, Table!Doing, Table!Ran, Table!historyVars
<1>2. IsSequence(alters') /\ (col_pc' = "alter" <=> alters' # << >>) /\ CvAlters(t)'
  BY <1>1, CvRan
<1>3. columns' = [c \in Table(t)!Columns |-> columns'[c]]
  <2>1. columns = [c \in Table(t)!Columns |-> columns[c]]
    BY DEF CvInv, CvType
  <2>2. CASE exists
    BY <1>1, <2>1, <2>2
  <2>3. CASE ~exists
    BY <1>1, <2>3
  <2>4. QED
    BY <2>2, <2>3
<1>4. CvType(t)'
  BY <1>1, <1>2, <1>3 DEF CvInv, CvType
<1>5. \A k \in t.keys, c \in Table(t)!Columns : columns'[c] = NoState => cells[k][c] = 0
  <2>1. CASE exists
    BY <1>1, <2>1 DEF CvInv, CvTable
  <2>2. CASE ~exists
    BY <2>2 DEF CvInv, CvTable
  <2>3. QED
    BY <2>1, <2>2
<1>6. CvTable(t)'
  BY <1>1, <1>5 DEF CvInv, CvTable, Uncached
<1>7. Table(t)!LoadedValuesAreFound'
  BY <1>1 DEF CvInv, Table!LoadedValuesAreFound, Table!ValuesAreKept, Table!ValuesStayInTheirColumn
<1>8. QED
  BY <1>2, <1>4, <1>6, <1>7 DEF CvInv

\* A statement that is refused leaves the table as it is.
LEMMA CvRefused == ASSUME NEW t, CvInv(t), Table(t)!Refused PROVE CvInv(t)'
<1>1. /\ col_pc' = "down" /\ alters' = << >>
      /\ UNCHANGED <<exists, columns, cells, table_cache, minute, col_loaded, retyped, col_records>>
  BY DEF Table!Refused, Table!tableVars, Table!historyVars
<1>2. << >> \in Seq({}) /\ Len(<< >>) = 0
  OBVIOUS
<1>3. CvType(t)'
  BY <1>1, <1>2 DEF CvInv, CvType, IsSequence
<1>4. CvTable(t)'
  BY <1>1 DEF CvInv, CvTable, Uncached
<1>5. CvAlters(t)'
  BY <1>1, <1>2 DEF CvAlters
<1>6. Table(t)!LoadedValuesAreFound'
  BY <1>1 DEF CvInv, Table!LoadedValuesAreFound, Table!ValuesAreKept, Table!ValuesStayInTheirColumn
<1>7. QED
  BY <1>3, <1>4, <1>5, <1>6 DEF CvInv

\* ADD COLUMN: the column was not there, and is empty.
LEMMA CvAdd == ASSUME NEW t, ColumnsSound(t), CvInv(t), Table(t)!add_column PROVE CvInv(t)'
<1>1. col_pc = "alter" /\ alters[1].op = "add"
  BY DEF Table!add_column, Table!Doing
<1> DEFINE column == Table(t)!Column(alters[1].name)
<1>2. column \in Table(t)!Columns /\ exists = TRUE
  <2>1. alters[1].name \in Table(t)!NameSet /\ exists
    BY <1>1, CvFirst DEF AlterOk
  <2>2. 1 \in 1..t.minutes /\ exists \in BOOLEAN
    BY DEF ColumnsSound, CvInv, CvType
  <2>3. QED
    BY <2>1, <2>2, ColumnOf
<1>3. CASE Table(t)!Refused
  BY <1>3, CvRefused
<1>4. CASE /\ columns[column] = NoState
           /\ columns' = [columns EXCEPT ![column] = alters[1].type]
           /\ Table(t)!Ran /\ UNCHANGED <<exists, cells>>
  <2>1. UNCHANGED <<exists, cells, table_cache, minute, col_loaded, retyped, col_records>>
    BY <1>4 DEF Table!Ran, Table!historyVars
  <2>2. IsSequence(alters') /\ (col_pc' = "alter" <=> alters' # << >>) /\ CvAlters(t)'
    BY <1>1, <1>2, <1>4, CvRan
  <2>3. columns = [c \in Table(t)!Columns |-> columns[c]]
    BY DEF CvInv, CvType
  <2> HIDE DEF column
  <2>4. /\ columns' = [c \in Table(t)!Columns |-> columns'[c]]
        /\ \A c \in Table(t)!Columns : c # column => columns'[c] = columns[c]
    BY <1>2, <1>4, <2>3
  <2>5. CvType(t)'
    BY <2>1, <2>2, <2>4 DEF CvInv, CvType
  <2>6. \A k \in t.keys, c \in Table(t)!Columns : columns'[c] = NoState => cells[k][c] = 0
    BY <1>4, <2>4 DEF CvInv, CvTable
  <2>7. CvTable(t)'
    BY <1>2, <2>1, <2>6 DEF CvInv, CvTable, Uncached
  <2>8. Table(t)!LoadedValuesAreFound'
    BY <2>1 DEF CvInv, Table!LoadedValuesAreFound, Table!ValuesAreKept, Table!ValuesStayInTheirColumn
  <2>9. QED
    BY <2>2, <2>5, <2>7, <2>8 DEF CvInv
<1>5. QED
  BY <1>3, <1>4 DEF Table!add_column

\* RENAME COLUMN: the values go to a column that was not there, and no value of
\* the name has been loaded since it was asked for.
LEMMA CvVersion == ASSUME NEW t, ColumnsSound(t), CvInv(t), Table(t)!version_column PROVE CvInv(t)'
<1>1. col_pc = "alter" /\ alters[1].op = "version"
  BY DEF Table!version_column, Table!Doing
<1> DEFINE old == Table(t)!Column(alters[1].name)
           new == [old EXCEPT !.at = minute]
<1>2. /\ old \in Table(t)!Columns /\ new \in Table(t)!Columns /\ new # old /\ old.at = 0 /\ new.at # 0
      /\ old.name = alters[1].name /\ new.name = old.name
      /\ exists = TRUE /\ old.name \in Table(t)!NameSet
      /\ Uncached(t) => retyped[old.name] = col_records
  <2>1. /\ alters[1].name \in Table(t)!NameSet /\ exists
        /\ Uncached(t) => retyped[alters[1].name] = col_records
    BY <1>1, CvFirst DEF AlterOk
  <2>2. minute \in 1..t.minutes /\ exists \in BOOLEAN
    BY DEF CvInv, CvType
  <2>3. /\ old \in Table(t)!Columns /\ old.name = alters[1].name /\ old.at = 0
        /\ new \in Table(t)!Columns /\ new.name = old.name
        /\ new.at = minute /\ minute # 0
    BY <2>1, <2>2, ColumnOf
  <2> HIDE DEF old, new
  <2>4. QED
    BY <2>1, <2>2, <2>3
<1>3. CASE Table(t)!Refused
  BY <1>3, CvRefused
<1>4. CASE /\ ~(columns[old] = NoState \/ columns[new] # NoState)
           /\ columns' = Table(t)!Renamed(columns, old, new, NoState)
           /\ cells' = [k \in t.keys |-> Table(t)!Renamed(cells[k], old, new, 0)]
           /\ Table(t)!Ran /\ UNCHANGED exists
  <2>1. UNCHANGED <<exists, table_cache, minute, col_loaded, retyped, col_records>>
    BY <1>4 DEF Table!Ran, Table!historyVars
  <2>2. IsSequence(alters') /\ (col_pc' = "alter" <=> alters' # << >>) /\ CvAlters(t)'
    BY <1>1, <1>2, <1>4, CvRan
  <2>3. columns = [c \in Table(t)!Columns |-> columns[c]] /\ cells \in [t.keys -> [Table(t)!Columns -> Nat]]
    BY DEF CvInv, CvType
  <2> HIDE DEF old, new
  <2>4. /\ columns' = [c \in Table(t)!Columns |-> columns'[c]]
        /\ \A c \in Table(t)!Columns :
              columns'[c] = IF c = old THEN NoState ELSE IF c = new THEN columns[old] ELSE columns[c]
    BY <1>2, <1>4, <2>3 DEF Table!Renamed
  <2>5. /\ cells' \in [t.keys -> [Table(t)!Columns -> Nat]]
        /\ \A k \in t.keys, c \in Table(t)!Columns :
              cells'[k][c] = IF c = old THEN 0 ELSE IF c = new THEN cells[k][old] ELSE cells[k][c]
    <3>1. ASSUME NEW k \in t.keys
          PROVE  /\ cells'[k] \in [Table(t)!Columns -> Nat]
                 /\ \A c \in Table(t)!Columns :
                       cells'[k][c] = IF c = old THEN 0 ELSE IF c = new THEN cells[k][old] ELSE cells[k][c]
      <4>1. /\ cells'[k] = [cells[k] EXCEPT ![new] = cells[k][old], ![old] = 0]
            /\ cells[k] \in [Table(t)!Columns -> Nat]
        BY <1>4, <2>3 DEF Table!Renamed
      <4>2. QED
        BY <1>2, <4>1
    <3>2. cells' = [k \in t.keys |-> cells'[k]]
      BY <1>4
    <3>3. QED
      BY <3>1, <3>2
  <2>6. CvType(t)'
    <3>1. /\ minute' \in 1..t.minutes /\ exists' \in BOOLEAN /\ col_loaded' \in [t.keys -> [Table(t)!NameSet -> Nat]]
          /\ retyped' \in [Table(t)!NameSet -> Nat] /\ col_records' \in Nat
      BY <2>1 DEF CvInv, CvType
    <3>2. cells' \in [t.keys -> [Table(t)!Columns -> Nat]] /\ columns' = [c \in Table(t)!Columns |-> columns'[c]]
      BY <2>4, <2>5
    <3>3. QED
      BY <2>2, <3>1, <3>2 DEF CvType
  <2>7. \A k \in t.keys, c \in Table(t)!Columns : columns'[c] = NoState => cells'[k][c] = 0
    <3>1. columns[old] # NoState
      BY <1>4
    <3>2. ASSUME NEW k \in t.keys, NEW c \in Table(t)!Columns, columns'[c] = NoState, c # old PROVE cells'[k][c] = 0
      <4>1. c # new
        BY <1>2, <2>4, <3>1, <3>2
      <4>2. columns[c] = NoState
        BY <2>4, <3>2, <4>1
      <4>3. cells[k][c] = 0
        BY <4>2 DEF CvInv, CvTable
      <4>4. QED
        BY <2>5, <3>2, <4>1, <4>3
    <3>3. QED
      BY <2>5, <3>2
  <2>8. CvTable(t)'
    BY <1>2, <2>1, <2>7 DEF CvInv, CvTable, Uncached
  <2>9. Table(t)!ValuesAreKept'
    <3> SUFFICES ASSUME NEW k \in t.keys, NEW name \in Table(t)!NameSet, col_loaded[k][name] # 0
                 PROVE  \E c \in Table(t)!Columns : c.name = name /\ cells'[k][c] = col_loaded[k][name]
      BY <2>1 DEF Table!ValuesAreKept
    <3>1. PICK c \in Table(t)!Columns : c.name = name /\ cells[k][c] = col_loaded[k][name]
      BY DEF CvInv, Table!LoadedValuesAreFound, Table!ValuesAreKept
    <3>2. c # new
      BY <1>4, <3>1 DEF CvInv, CvTable
    <3>3. CASE c = old
      BY <1>2, <2>5, <3>1, <3>3
    <3>4. CASE c # old
      BY <2>5, <3>1, <3>2, <3>4
    <3>5. QED
      BY <3>3, <3>4
  <2>10. ASSUME Uncached(t) PROVE Table(t)!ValuesStayInTheirColumn'
    <3> SUFFICES ASSUME NEW k \in t.keys, NEW name \in Table(t)!NameSet, col_loaded[k][name] > retyped[name]
                 PROVE  cells'[k][Table(t)!Column(name)] = col_loaded[k][name]
      BY <2>1 DEF Table!ValuesStayInTheirColumn
    <3>1. col_loaded[k][name] \in Nat /\ col_loaded[k][name] <= col_records /\ col_records \in Nat
      BY DEF CvInv, CvType, CvTable
    <3>2. name # old.name
      BY <1>2, <2>10, <3>1
    <3>3. Table(t)!Column(name) \in Table(t)!Columns /\ Table(t)!Column(name).name = name
      <4>1. 1 \in 1..t.minutes
        BY DEF ColumnsSound
      <4>2. QED
        BY <4>1, ColumnOf
    <3>4. Table(t)!Column(name) # old /\ Table(t)!Column(name) # new
      BY <1>2, <3>2, <3>3
    <3>5. cells[k][Table(t)!Column(name)] = col_loaded[k][name]
      BY <2>10 DEF CvInv, Table!LoadedValuesAreFound, Table!ValuesStayInTheirColumn, Uncached
    <3>6. QED
      BY <2>5, <3>3, <3>4, <3>5
  <2>11. QED
    BY <2>2, <2>6, <2>8, <2>9, <2>10 DEF CvInv, Table!LoadedValuesAreFound, Uncached
<1>5. QED
  BY <1>3, <1>4 DEF Table!version_column

\* A record is loaded into the columns of the schema, all of which are there.
LEMMA CvLoad ==
    ASSUME NEW t, ColumnsSound(t), CvInv(t), NEW k \in t.keys,
           NEW values \in SUBSET Table(t)!NameSet, Table(t)!LoadRecord(k, values)
    PROVE  CvInv(t)'
<1>1. /\ col_pc = "read" /\ values # {} /\ values \subseteq Table(t)!InSchema(col_schema)
      /\ \A name \in Table(t)!InSchema(col_schema) : columns[Table(t)!Column(name)] # NoState
      /\ col_records' = col_records + 1
      /\ UNCHANGED <<exists, columns, table_cache, col_schema, alters, col_pc, minute, retyped>>
  BY DEF Table!LoadRecord
<1> DEFINE row == [c \in Table(t)!Columns |->
                    IF c.at # 0 \/ c.name \notin Table(t)!InSchema(col_schema) THEN cells[k][c]
                    ELSE IF c.name \in values THEN col_records + 1 ELSE 0]
           last == [name \in Table(t)!NameSet |->
                    IF name \notin Table(t)!InSchema(col_schema) THEN col_loaded[k][name]
                    ELSE IF name \in values THEN col_records + 1 ELSE 0]
<1>2. cells' = [cells EXCEPT ![k] = row] /\ col_loaded' = [col_loaded EXCEPT ![k] = last]
  BY DEF Table!LoadRecord
<1>3. /\ col_records \in Nat
      /\ cells \in [t.keys -> [Table(t)!Columns -> Nat]] /\ col_loaded \in [t.keys -> [Table(t)!NameSet -> Nat]]
      /\ retyped \in [Table(t)!NameSet -> Nat] /\ alters = << >>
  BY <1>1 DEF CvInv, CvType
<1>4. \A c \in Table(t)!Columns :
         row[c] = IF c.at # 0 \/ c.name \notin Table(t)!InSchema(col_schema) THEN cells[k][c]
                  ELSE IF c.name \in values THEN col_records + 1 ELSE 0
  OBVIOUS
<1>5. \A name \in Table(t)!NameSet :
         last[name] = IF name \notin Table(t)!InSchema(col_schema) THEN col_loaded[k][name]
                      ELSE IF name \in values THEN col_records + 1 ELSE 0
  OBVIOUS
<1>6. row = [c \in Table(t)!Columns |-> row[c]] /\ last = [name \in Table(t)!NameSet |-> last[name]]
  OBVIOUS
<1> HIDE DEF row, last
<1>7. row \in [Table(t)!Columns -> Nat] /\ last \in [Table(t)!NameSet -> Nat]
  <2>1. \A c \in Table(t)!Columns : row[c] \in Nat
    <3>1. cells[k] \in [Table(t)!Columns -> Nat] /\ col_records + 1 \in Nat
      BY <1>3
    <3>2. QED
      BY <1>4, <3>1
  <2>2. \A name \in Table(t)!NameSet : last[name] \in Nat
    BY <1>3, <1>5
  <2>3. QED
    BY <1>6, <2>1, <2>2
<1>8. /\ cells' \in [t.keys -> [Table(t)!Columns -> Nat]]
      /\ col_loaded' \in [t.keys -> [Table(t)!NameSet -> Nat]]
      /\ cells'[k] = row /\ col_loaded'[k] = last
      /\ \A j \in t.keys : j # k => cells'[j] = cells[j] /\ col_loaded'[j] = col_loaded[j]
  BY <1>2, <1>3, <1>7
<1>9. CvType(t)'
  BY <1>1, <1>3, <1>8 DEF CvInv, CvType
<1>10. \A c \in Table(t)!Columns : c.at = 0 => c = Table(t)!Column(c.name) /\ c.name \in Table(t)!NameSet
  BY DEF Table!Columns, Table!Column
<1>11. \A j \in t.keys, c \in Table(t)!Columns : columns[c] = NoState => cells'[j][c] = 0
  <2> SUFFICES ASSUME NEW c \in Table(t)!Columns, columns[c] = NoState PROVE row[c] = 0
    BY <1>8 DEF CvInv, CvTable
  <2>1. c.at # 0 \/ c.name \notin Table(t)!InSchema(col_schema)
    BY <1>1, <1>10
  <2>2. cells[k][c] = 0
    BY DEF CvInv, CvTable
  <2>3. QED
    BY <1>4, <2>1, <2>2
<1>12. \A j \in t.keys, name \in Table(t)!NameSet : col_loaded'[j][name] <= col_records'
  <2>1. ASSUME NEW j \in t.keys, NEW name \in Table(t)!NameSet PROVE col_loaded'[j][name] <= col_records + 1
    <3>1. col_loaded[j][name] <= col_records /\ col_loaded[j][name] \in Nat
      BY <1>3 DEF CvInv, CvTable
    <3>2. CASE j # k
      BY <1>3, <1>8, <3>1, <3>2
    <3>3. CASE j = k
      <4>1. col_loaded'[j][name] = last[name]
        BY <1>8, <3>3
      <4>2. last[name] \in {col_loaded[k][name], col_records + 1, 0}
        BY <1>5
      <4>3. QED
        BY <1>3, <3>1, <3>3, <4>1, <4>2
    <3>4. QED
      BY <3>2, <3>3
  <2>2. QED
    BY <1>1, <2>1
<1>13. CvTable(t)'
  BY <1>1, <1>11, <1>12 DEF CvInv, CvTable, Uncached
<1>14. CvAlters(t)'
  <2>1. Len(<< >>) = 0
    OBVIOUS
  <2>2. QED
    BY <1>1, <1>3, <2>1 DEF CvAlters
<1>15. \A name \in Table(t)!NameSet :
          Table(t)!Column(name) \in Table(t)!Columns /\ Table(t)!Column(name).name = name /\ Table(t)!Column(name).at = 0
  <2>1. 1 \in 1..t.minutes
    BY DEF ColumnsSound
  <2>2. QED
    BY <2>1, ColumnOf
<1>16. Table(t)!ValuesAreKept'
  <2> SUFFICES ASSUME NEW j \in t.keys, NEW name \in Table(t)!NameSet, col_loaded'[j][name] # 0
               PROVE  \E c \in Table(t)!Columns : c.name = name /\ cells'[j][c] = col_loaded'[j][name]
    BY DEF Table!ValuesAreKept
  <2>1. col_loaded[j][name] # 0 =>
           \E c \in Table(t)!Columns : c.name = name /\ cells[j][c] = col_loaded[j][name]
    BY DEF CvInv, Table!LoadedValuesAreFound, Table!ValuesAreKept
  <2>2. CASE j # k
    BY <1>8, <2>1, <2>2
  <2>3. CASE j = k /\ name \notin Table(t)!InSchema(col_schema)
    <3>1. col_loaded'[j][name] = col_loaded[k][name]
      BY <1>5, <1>8, <2>3
    <3>2. PICK c \in Table(t)!Columns : c.name = name /\ cells[k][c] = col_loaded[k][name]
      BY <2>1, <2>3, <3>1
    <3>3. cells'[j][c] = cells[k][c]
      BY <1>4, <1>8, <2>3, <3>2
    <3>4. QED
      BY <2>3, <3>1, <3>2, <3>3
  <2>4. CASE j = k /\ name \in Table(t)!InSchema(col_schema)
    <3>1. name \in values /\ col_loaded'[j][name] = col_records + 1
      BY <1>5, <1>8, <2>4
    <3>2. cells'[j][Table(t)!Column(name)] = col_records + 1
      BY <1>4, <1>8, <1>15, <2>4, <3>1
    <3>3. QED
      BY <1>15, <3>1, <3>2
  <2>5. QED
    BY <2>2, <2>3, <2>4
<1>17. ASSUME Uncached(t) PROVE Table(t)!ValuesStayInTheirColumn'
  <2> SUFFICES ASSUME NEW j \in t.keys, NEW name \in Table(t)!NameSet, col_loaded'[j][name] > retyped[name]
               PROVE  cells'[j][Table(t)!Column(name)] = col_loaded'[j][name]
    BY <1>1 DEF Table!ValuesStayInTheirColumn
  <2>1. col_loaded[j][name] > retyped[name] => cells[j][Table(t)!Column(name)] = col_loaded[j][name]
    BY <1>17 DEF CvInv, Table!LoadedValuesAreFound, Table!ValuesStayInTheirColumn, Uncached
  <2>2. CASE j # k
    BY <1>8, <2>1, <2>2
  <2>3. CASE j = k /\ name \notin Table(t)!InSchema(col_schema)
    <3>1. /\ col_loaded'[j][name] = col_loaded[k][name]
          /\ cells'[j][Table(t)!Column(name)] = cells[k][Table(t)!Column(name)]
      BY <1>4, <1>5, <1>8, <1>15, <2>3
    <3>2. QED
      BY <2>1, <2>3, <3>1
  <2>4. CASE j = k /\ name \in Table(t)!InSchema(col_schema)
    <3>1. col_loaded'[j][name] # 0
      BY <1>3
    <3>2. name \in values /\ col_loaded'[j][name] = col_records + 1
      BY <1>5, <1>8, <2>4, <3>1
    <3>3. QED
      BY <1>4, <1>8, <1>15, <2>4, <3>2
  <2>5. QED
    BY <2>2, <2>3, <2>4
<1>18. QED
  BY <1>9, <1>13, <1>14, <1>16, <1>17 DEF CvInv, Table!LoadedValuesAreFound, Uncached

\* The process dies, or time goes by.
LEMMA CvOther ==
    ASSUME NEW t, ColumnsSound(t), CvInv(t), Table(t)!Die \/ Table(t)!Tick \/ UNCHANGED Table(t)!columnVars
    PROVE  CvInv(t)'
<1>1. CASE Table(t)!Die
  <2>1. /\ col_pc' = "down" /\ alters' = << >>
        /\ UNCHANGED <<exists, columns, cells, table_cache, minute, col_loaded, retyped, col_records>>
    BY <1>1 DEF Table!Die, Table!tableVars, Table!historyVars
  <2>2. << >> \in Seq({}) /\ Len(<< >>) = 0
    OBVIOUS
  <2>3. CvType(t)'
    BY <2>1, <2>2 DEF CvInv, CvType, IsSequence
  <2>4. CvTable(t)' /\ CvAlters(t)'
    BY <2>1, <2>2 DEF CvInv, CvTable, CvAlters, Uncached
  <2>5. Table(t)!LoadedValuesAreFound'
    BY <2>1 DEF CvInv, Table!LoadedValuesAreFound, Table!ValuesAreKept, Table!ValuesStayInTheirColumn
  <2>6. QED
    BY <2>3, <2>4, <2>5 DEF CvInv
<1>2. CASE Table(t)!Tick \/ UNCHANGED Table(t)!columnVars
  <2>1. /\ UNCHANGED <<exists, columns, cells, table_cache, alters, col_pc, col_loaded, retyped, col_records>>
        /\ minute' \in 1..t.minutes
    <3>1. minute \in 1..t.minutes /\ t.minutes \in Nat
      BY DEF CvInv, CvType, ColumnsSound
    <3>2. CASE Table(t)!Tick
      BY <3>1, <3>2 DEF Table!Tick, Table!tableVars, Table!historyVars
    <3>3. CASE UNCHANGED Table(t)!columnVars
      BY <3>1, <3>3 DEF Table!columnVars, Table!tableVars, Table!historyVars
    <3>4. QED
      BY <1>2, <3>2, <3>3
  <2>2. CvType(t)'
    BY <2>1 DEF CvInv, CvType
  <2>3. CvTable(t)' /\ CvAlters(t)'
    BY <2>1 DEF CvInv, CvTable, CvAlters, Uncached
  <2>4. Table(t)!LoadedValuesAreFound'
    BY <2>1 DEF CvInv, Table!LoadedValuesAreFound, Table!ValuesAreKept, Table!ValuesStayInTheirColumn
  <2>5. QED
    BY <2>2, <2>3, <2>4 DEF CvInv
<1>3. QED
  BY <1>1, <1>2

\* Every step keeps it.
LEMMA CvStep == ASSUME NEW t, ColumnsSound(t), CvInv(t), [Table(t)!Next]_(Table(t)!columnVars) PROVE CvInv(t)'
BY CvStart, CvSchema, CvCreate, CvAdd, CvVersion, CvLoad, CvOther DEF Table!Next

\* What holds of the columns of a table while it is the part that works.
ColumnsInv == \A t \in ColumnConfigs : part = t.part => CvInv(t)

\* The configurations are such tables.
LEMMA ConfigsAreSound == ASSUME NEW t \in ColumnConfigs PROVE ColumnsSound(t)
<1>1. t.names \in Seq({t.names[n] : n \in DOMAIN t.names}) /\ t.minutes \in Nat /\ 1 <= t.minutes
  BY ColumnsAssumption
<1>2. QED
  BY <1>1 DEF ColumnsSound, Table!NameSet

\* A table starts in its initial state.
LEMMA ColumnsInit == InitAll => ColumnsInv
<1> SUFFICES ASSUME InitAll, NEW t \in ColumnConfigs, part = t.part PROVE CvInv(t)
  BY DEF ColumnsInv
<1>1. PICK c \in ColumnConfigs : part = c.part /\ Table(c)!Init
  BY ColumnsAssumption DEF InitAll
<1>2. c = t
  BY <1>1, ColumnsAssumption
<1>3. QED
  BY <1>1, <1>2, CvInit, ConfigsAreSound

\* A step of the instance is one of the table that runs, and that table stays.
LEMMA ColumnsFrame ==
    ASSUME [NextAll]_<<part, vars, transform_, columns_>>, NEW t \in ColumnConfigs, part = t.part
    PROVE  [Table(t)!Next]_(Table(t)!columnVars)
<1>1. CASE NextAll
  <2>1. PICK c \in ColumnConfigs : part = c.part /\ Table(c)!Next
    BY <1>1, ColumnsAssumption DEF NextAll
  <2>2. c = t
    BY <2>1, ColumnsAssumption
  <2>3. QED
    BY <2>1, <2>2
<1>2. CASE UNCHANGED <<part, vars, transform_, columns_>>
  <2>1. UNCHANGED <<exists, columns, cells, table_cache, col_schema, alters, col_pc, minute,
                    col_loaded, retyped, col_records, schemaCount, deaths>>
    BY <1>2 DEF columns_
  <2>2. UNCHANGED Table(t)!columnVars
    BY <2>1 DEF Table!columnVars, Table!tableVars, Table!historyVars
  <2>3. QED
    BY <2>2
<1>3. QED
  BY <1>1, <1>2

\* Its invariant is kept.
LEMMA ColumnsStep ==
    ColumnsInv /\ [NextAll]_<<part, vars, transform_, columns_>> => ColumnsInv'
<1> SUFFICES ASSUME ColumnsInv, [NextAll]_<<part, vars, transform_, columns_>>,
                    NEW t \in ColumnConfigs, part' = t.part
             PROVE  CvInv(t)'
  BY DEF ColumnsInv
<1>1. part = t.part
  BY TransformFrame
<1>2. CvInv(t) /\ [Table(t)!Next]_(Table(t)!columnVars)
  BY <1>1, ColumnsFrame DEF ColumnsInv
<1>3. QED
  BY <1>2, CvStep, ConfigsAreSound

\* What a target has loaded stays where a query finds it, for every schema and
\* every row, any types, and any number of statements, minutes and deaths of the
\* process between them (sync_table, update_columns).
THEOREM LoadedIsFound == SpecAll => []LoadedValuesAreFound
<1>1. ColumnsInv => LoadedValuesAreFound
  BY DEF ColumnsInv, CvInv, LoadedValuesAreFound
<1>2. QED
  BY <1>1, ColumnsInit, ColumnsStep, PTL DEF SpecAll
=============================================================================
