--------------------------- MODULE DatabasesProofs ---------------------------
(***************************************************************************)
(* Proofs about target-snowflake, for every set of streams and keys, every *)
(* batch size and every configuration (what is printed is behind what is   *)
(* loaded in every configuration that SafeConfig allows); and about the    *)
(* taps of databases and Kafka: for every number of keys, changes and      *)
(* deaths, limit of a SELECT and period of a STATE, the bookmark of a tap  *)
(* passes nothing that is not loaded, but for what its property names.     *)
(*                                                                         *)
(* Each tap has its inductive invariant: its types (TypeOK), that nothing  *)
(* is of the future (Past), the fields a bookmark has together (Shape),    *)
(* what the saved bookmark says of the warehouse (Saved, Range), what the  *)
(* bookmark in memory says of the records written (Read), and what the     *)
(* rows of the SELECT that are left say of both (Fetch, Copy).  One of     *)
(* them runs at a time (MCDatabases): DatabasesInv is its invariant.       *)
(***************************************************************************)
EXTENDS MCDatabases, NaturalsInduction, WellFoundedInduction, FiniteSetTheorems,
        SequenceTheorems, TLAPS

-----------------------------------------------------------------------------
(* target-snowflake                                                        *)

Position == [Streams -> Nat]

Bounds   == [min : Nat, max : Nat]
File     == [stream : Streams, rows : [Keys -> Nat], range : Bounds]
Call     == [streams : SUBSET Streams, filtered : BOOLEAN, pending : SUBSET Streams, last : BOOLEAN]

TypeOK ==
    /\ sent \in [Streams -> Seq(Keys)]
    /\ records_to_load \in [Streams -> [Keys -> Nat]]
    /\ row_count \in [Streams -> Nat]
    /\ state \in Position \cup {NoState}
    /\ flushed_state \in Position \cup {NoState}
    /\ emitted \in Position \cup {NoState}
    /\ pc \in {"read", "flush", "staged", "merged", "archived", "end", "failed"}
    /\ flush \in Call
    /\ archive_data \in [Streams -> Bounds]
    /\ loaded \in [Streams -> Nat]

\* A batch that is being loaded.
Loading  == pc \in {"staged", "merged", "archived"}
Flushing == pc = "flush" \/ Loading

\* A stream has something to load exactly if its row count is positive.
CountsInv ==
    \A s \in Streams :
        /\ loaded[s] <= Len(sent[s])
        /\ row_count[s] = 0 => loaded[s] = Len(sent[s])
        /\ row_count[s] > 0 => sent[s] # << >>

\* What a flush has done, and that it is of all streams or does not claim to be.
FlushInv ==
    Flushing =>
        /\ flush.pending \subseteq flush.streams
        /\ flush.streams # {}
        /\ \A s \in flush.streams \ flush.pending : row_count[s] = 0
        /\ ~flush.filtered => Buffering \subseteq flush.streams
        /\ flush.filtered => ~flush_all_streams
        /\ Loading => flush.pending # {} /\ row_count[Current] > 0
        /\ pc \in {"merged", "archived"} => loaded[Current] = Len(sent[Current])

\* Nothing is buffered where nothing is counted, but for streams of a flush.
EmptyInv ==
    pc # "failed" =>
        \A s \in Streams :
            row_count[s] = 0 => \/ Flushing /\ s \in flush.streams
                                \/ \A k \in Keys : records_to_load[s][k] = 0

StateInv ==
    /\ (state = NoState <=> flushed_state = NoState)
    /\ state # NoState =>
         \A s \in Streams : flushed_state[s] <= state[s] /\ state[s] <= Len(sent[s])

BaseInv == TypeOK /\ CountsInv /\ FlushInv /\ EmptyInv /\ StateInv

-----------------------------------------------------------------------------
(* Types                                                                   *)

\* The stream that is loaded is one of those to load.
LEMMA CurrentIsPending ==
    ASSUME flush.pending # {} PROVE Current \in flush.pending
BY DEF Current

\* The fields of a call of flush_streams.
LEMMA CallTypes ==
    ASSUME TypeOK
    PROVE  /\ flush.streams \subseteq Streams /\ flush.pending \subseteq Streams
           /\ flush.filtered \in BOOLEAN /\ flush.last \in BOOLEAN
           /\ flush.pending # {} => Current \in Streams
BY CurrentIsPending DEF TypeOK, Call

\* A stream has sent a number of records.
LEMMA LenIsNat ==
    ASSUME TypeOK, NEW s \in Streams
    PROVE  /\ Len(sent[s]) \in Nat
           /\ sent[s] = << >> <=> Len(sent[s]) = 0
           /\ \A k \in Keys : Append(sent[s], k) \in Seq(Keys) /\ Len(Append(sent[s], k)) = Len(sent[s]) + 1
<1>1. sent[s] \in Seq(Keys)
  BY DEF TypeOK
<1>2. QED
  BY <1>1, LenProperties, EmptySeq, AppendProperties

\* A flush starts with all of its streams to load.
LEMMA StartFlushTypes ==
    ASSUME NEW selected, selected \subseteq Streams, NEW filtered \in BOOLEAN, NEW last \in BOOLEAN,
           StartFlush(selected, filtered, last)
    PROVE  /\ pc' = "flush" /\ flush' \in Call
           /\ flush'.streams = selected /\ flush'.pending = selected
           /\ flush'.filtered = filtered /\ flush'.last = last
<1>1. /\ pc' = "flush"
      /\ flush' = [streams |-> selected, filtered |-> filtered, pending |-> selected, last |-> last]
  BY DEF StartFlush
<1>2. flush' \in Call
  BY <1>1 DEF Call
<1>3. QED
  BY <1>1, <1>2

\* One stream less to load.
LEMMA PendingTypes ==
    ASSUME TypeOK, NEW s, flush' = [flush EXCEPT !.pending = @ \ {s}]
    PROVE  /\ flush' \in Call
           /\ flush'.streams = flush.streams /\ flush'.pending = flush.pending \ {s}
           /\ flush'.filtered = flush.filtered /\ flush'.last = flush.last
<1>1. flush \in Call
  BY DEF TypeOK
<1>2. flush = [streams |-> flush.streams, filtered |-> flush.filtered, pending |-> flush.pending,
               last |-> flush.last]
  BY <1>1 DEF Call
<1>3. flush' = [streams |-> flush.streams, filtered |-> flush.filtered,
                pending |-> flush.pending \ {s}, last |-> flush.last]
  BY <1>2
<1>4. flush.streams \subseteq Streams /\ flush.pending \ {s} \subseteq Streams
      /\ flush.filtered \in BOOLEAN /\ flush.last \in BOOLEAN
  BY <1>1 DEF Call
<1>5. QED
  BY <1>3, <1>4 DEF Call

\* The range of no record.
LEMMA NoRangeType == NoRange \in Bounds /\ NoRange.min = 0
BY DEF NoRange, Bounds

\* flush_streams is called for streams, with the whole dictionary unless it is filtered.
LEMMA FlushForTypes ==
    ASSUME TypeOK, NEW s \in Streams, FlushFor(s)
    PROVE  /\ pc' = "flush" /\ flush' \in Call
           /\ flush'.pending = flush'.streams /\ s \in flush'.streams
           /\ ~flush'.filtered => Buffering \subseteq flush'.streams
           /\ flush'.filtered => ~flush_all_streams
<1>1. CASE flush_all_streams
  <2>1. StartFlush(Buffering \cup {s}, FALSE, FALSE)
    BY <1>1 DEF FlushFor
  <2>2. Buffering \cup {s} \subseteq Streams
    BY DEF Buffering
  <2>3. /\ pc' = "flush" /\ flush' \in Call /\ flush'.streams = Buffering \cup {s}
        /\ flush'.pending = Buffering \cup {s} /\ flush'.filtered = FALSE
    BY <2>1, <2>2, StartFlushTypes
  <2>4. QED
    BY <2>3
<1>2. CASE ~flush_all_streams
  <2>1. StartFlush({s}, TRUE, FALSE)
    BY <1>2 DEF FlushFor
  <2>2. {s} \subseteq Streams
    OBVIOUS
  <2>3. /\ pc' = "flush" /\ flush' \in Call /\ flush'.streams = {s}
        /\ flush'.pending = {s} /\ flush'.filtered = TRUE
    BY <2>1, <2>2, StartFlushTypes
  <2>4. QED
    BY <1>2, <2>3
<1>3. QED
  BY <1>1, <1>2

\* The state that flush_streams returns.
LEMMA FlushedIsPosition ==
    ASSUME BaseInv
    PROVE  /\ FlushedPositions \in Position \cup {NoState}
           /\ FlushedPositions = NoState <=> state = NoState
<1>1. CASE ~flush.filtered \/ state = NoState
  BY <1>1 DEF FlushedPositions, BaseInv, TypeOK, StateInv
<1>2. CASE flush.filtered /\ state # NoState
  <2>1. state \in Position /\ flushed_state \in Position
    BY <1>2 DEF BaseInv, TypeOK, StateInv
  <2>2. FlushedPositions \in Position
    BY <1>2, <2>1 DEF FlushedPositions, Position
  <2>3. QED
    BY <1>2, <2>2, NoStateAssumption DEF Position
<1>3. QED
  BY <1>1, <1>2

\* The types are kept.
LEMMA TypePreserved == BaseInv /\ [Next]_snowflakeVars => TypeOK'
<1> SUFFICES ASSUME BaseInv, [Next]_snowflakeVars PROVE TypeOK'
  OBVIOUS
<1>0. TypeOK
  BY DEF BaseInv
<1>1. ASSUME NEW s \in Streams, NEW schema \in 1..2, Schema(s, schema) PROVE TypeOK'
  <2>1. CASE row_count[s] > 0
    <3>1. flush' \in Call /\ pc' = "flush"
      BY <1>0, <1>1, <2>1, FlushForTypes DEF Schema
    <3>2. QED
      BY <1>0, <1>1, <2>1, <3>1 DEF Schema, TypeOK, tableVars
  <2>2. CASE ~(row_count[s] > 0)
    <3>1. archive_data' \in [Streams -> Bounds]
      BY <1>0, <1>1, <2>2, NoRangeType DEF Schema, TypeOK
    <3>2. QED
      BY <1>0, <1>1, <2>2, <3>1 DEF Schema, TypeOK, tableVars
  <2>3. QED
    BY <2>1, <2>2
<1>2. ASSUME NEW s \in Streams, NEW k \in Keys, RecordMsg(s, k) PROVE TypeOK'
  <2>1. Append(sent[s], k) \in Seq(Keys) /\ Len(sent[s]) + 1 \in Nat
    BY <1>0, LenIsNat
  <2>2. sent' = [sent EXCEPT ![s] = Append(@, k)]
    BY <1>2 DEF RecordMsg
  <2>3. sent' \in [Streams -> Seq(Keys)]
    BY <1>0, <2>1, <2>2 DEF TypeOK
  <2>4. row_count' \in [Streams -> Nat] /\ records_to_load' \in [Streams -> [Keys -> Nat]]
    BY <1>0, <1>2, <2>1 DEF RecordMsg, TypeOK
  <2>5. archive_data' \in [Streams -> Bounds]
    <3>1. archive_data[s].min \in Nat
      BY <1>0 DEF TypeOK, Bounds
    <3> DEFINE r == [min |-> IF archive_data[s].min = 0 THEN Len(sent[s]) + 1
                             ELSE archive_data[s].min,
                     max |-> Len(sent[s]) + 1]
    <3>2. r \in Bounds
      BY <2>1, <3>1 DEF Bounds
    <3>3. archive_data' = [archive_data EXCEPT ![s] = r]
      BY <1>2 DEF RecordMsg
    <3> HIDE DEF r
    <3>4. QED
      BY <1>0, <3>2, <3>3 DEF TypeOK
  <2>6. flush' \in Call /\ pc' \in {"read", "flush"}
    <3>1. FlushFor(s) \/ UNCHANGED <<pc, flush>>
      BY <1>2 DEF RecordMsg
    <3>2. QED
      BY <1>0, <1>2, <3>1, FlushForTypes DEF RecordMsg, TypeOK
  <2>7. QED
    BY <1>0, <1>2, <2>3, <2>4, <2>5, <2>6 DEF RecordMsg, TypeOK, tableVars
<1>3. ASSUME NEW st \in [Streams -> 0..MaxRecords], StateMsg(st) PROVE TypeOK'
  <2>1. st \in Position
    BY DEF Position
  <2>2. QED
    BY <1>0, <1>3, <2>1 DEF StateMsg, TypeOK, inputVars, tableVars
<1>4. CASE EndOfInput
  <2>1. flush' \in Call /\ pc' \in {"end", "flush"}
    <3>1. CASE NothingBuffered
      BY <1>0, <1>4, <3>1 DEF EndOfInput, TypeOK
    <3>2. CASE ~NothingBuffered
      <4>1. Buffering \subseteq Streams
        BY DEF Buffering
      <4>2. StartFlush(Buffering, FALSE, TRUE)
        BY <1>4, <3>2 DEF EndOfInput
      <4>3. QED
        BY <4>1, <4>2, StartFlushTypes
    <3>3. QED
      BY <3>1, <3>2
  <2>2. emitted' \in Position \cup {NoState}
    BY <1>0, <1>4 DEF EndOfInput, Emit, TypeOK
  <2>3. QED
    BY <1>0, <1>4, <2>1, <2>2 DEF EndOfInput, TypeOK, inputVars, tableVars
<1>5. CASE PutToStage
  <2>1. flush' \in Call
    BY <1>0, <1>5, PendingTypes DEF PutToStage, TypeOK
  <2>2. QED
    BY <1>0, <1>5, <2>1 DEF PutToStage, TypeOK, inputVars, tableVars
<1>6. CASE LoadFile
  <2>1. flush.pending # {}
    BY <1>6 DEF BaseInv, FlushInv, Flushing, Loading, LoadFile
  <2>2. Len(sent[Current]) \in Nat
    BY <1>0, <2>1, CallTypes, LenIsNat
  <2>3. loaded' \in [Streams -> Nat]
    BY <1>0, <1>6, <2>2 DEF LoadFile, TypeOK
  <2>4. QED
    BY <1>0, <1>6, <2>3 DEF LoadFile, TypeOK, inputVars
<1>7. CASE CopyToArchive
  BY <1>0, <1>7 DEF CopyToArchive, TypeOK, inputVars, tableVars
<1>8. CASE DeleteFromStage
  <2>1. flush' \in Call
    BY <1>0, <1>8, PendingTypes DEF DeleteFromStage
  <2>2. row_count' \in [Streams -> Nat]
    BY <1>0, <1>8 DEF DeleteFromStage, TypeOK
  <2>3. QED
    BY <1>0, <1>8, <2>1, <2>2 DEF DeleteFromStage, TypeOK, inputVars, tableVars
<1>9. CASE FinishFlush
  <2>1. flushed_state' \in Position \cup {NoState} /\ emitted' \in Position \cup {NoState}
    BY <1>0, <1>9, FlushedIsPosition DEF FinishFlush, Emit, TypeOK
  <2>2. records_to_load' \in [Streams -> [Keys -> Nat]]
    BY <1>0, <1>9 DEF FinishFlush, TypeOK, Empty
  <2>3. archive_data' \in [Streams -> Bounds]
    BY <1>0, <1>9, NoRangeType DEF FinishFlush, ResetRanges, TypeOK
  <2>4. flush' \in Call /\ pc' \in {"end", "read"}
    BY <1>0, <1>9 DEF FinishFlush, NoFlush, Call
  <2>5. QED
    BY <1>0, <1>9, <2>1, <2>2, <2>3, <2>4 DEF FinishFlush, TypeOK, inputVars, tableVars
<1>10. CASE Fail
  BY <1>0, <1>10 DEF Fail, TypeOK, inputVars, tableVars
<1>11. CASE UNCHANGED snowflakeVars
  BY <1>0, <1>11 DEF snowflakeVars, TypeOK, inputVars, tableVars
<1>12. QED
  BY <1>1, <1>2, <1>3, <1>4, <1>5, <1>6, <1>7, <1>8, <1>9, <1>10, <1>11 DEF Next

-----------------------------------------------------------------------------
(* The counts and the flush                                                *)

\* What a RECORD does to its stream.
LEMMA RecordEffect ==
    ASSUME BaseInv, NEW s \in Streams, NEW k \in Keys, RecordMsg(s, k)
    PROVE  /\ Len(sent'[s]) = Len(sent[s]) + 1 /\ sent'[s] # << >>
           /\ \A t \in Streams \ {s} : /\ sent'[t] = sent[t] /\ row_count'[t] = row_count[t]
                                       /\ records_to_load'[t] = records_to_load[t]
                                       /\ archive_data'[t] = archive_data[t]
           /\ row_count'[s] \in Nat /\ row_count'[s] > 0
           /\ records_to_load'[s] = [records_to_load[s] EXCEPT ![k] = Len(sent[s]) + 1]
           /\ loaded' = loaded
           /\ pc = "read" /\ (FlushFor(s) \/ UNCHANGED <<pc, flush>>)
<1>0. TypeOK
  BY DEF BaseInv
<1>1. sent' = [sent EXCEPT ![s] = Append(@, k)]
  BY DEF RecordMsg
<1>2. sent'[s] = Append(sent[s], k) /\ \A t \in Streams \ {s} : sent'[t] = sent[t]
  BY <1>0, <1>1 DEF TypeOK
<1>3. Len(sent'[s]) = Len(sent[s]) + 1 /\ sent'[s] # << >>
  <2>1. Append(sent[s], k) \in Seq(Keys) /\ Len(Append(sent[s], k)) = Len(sent[s]) + 1
        /\ Len(sent[s]) \in Nat
    BY <1>0, LenIsNat
  <2>2. Len(<< >>) = 0
    BY EmptySeq
  <2>3. QED
    BY <1>2, <2>1, <2>2
<1>4. pc = "read" /\ loaded' = loaded /\ (FlushFor(s) \/ UNCHANGED <<pc, flush>>)
  BY DEF RecordMsg, tableVars
<1>5. row_count' = [row_count EXCEPT ![s] = IF records_to_load[s][k] = 0 THEN @ + 1 ELSE @]
  BY DEF RecordMsg
<1>6. row_count'[s] \in Nat /\ row_count'[s] > 0
  <2>1. row_count[s] = 0 => records_to_load[s][k] = 0
    BY <1>4 DEF BaseInv, EmptyInv, Flushing, Loading
  <2>2. row_count[s] \in Nat /\ row_count'[s] = IF records_to_load[s][k] = 0 THEN row_count[s] + 1 ELSE row_count[s]
    BY <1>0, <1>5 DEF TypeOK
  <2>3. QED
    BY <2>1, <2>2
<1>7. /\ records_to_load' = [records_to_load EXCEPT ![s][k] = Len(sent[s]) + 1]
      /\ \E r : archive_data' = [archive_data EXCEPT ![s] = r]
  BY DEF RecordMsg
<1>8. /\ records_to_load'[s] = [records_to_load[s] EXCEPT ![k] = Len(sent[s]) + 1]
      /\ \A t \in Streams \ {s} : records_to_load'[t] = records_to_load[t]
  BY <1>0, <1>7 DEF TypeOK
<1>9. \A t \in Streams \ {s} : archive_data'[t] = archive_data[t] /\ row_count'[t] = row_count[t]
  BY <1>0, <1>5, <1>7 DEF TypeOK
<1>10. QED
  BY <1>2, <1>3, <1>4, <1>6, <1>8, <1>9

\* The counts of rows are kept by records, flushes and failures.
LEMMA CountsPreserved == BaseInv /\ [Next]_snowflakeVars => CountsInv'
<1> SUFFICES ASSUME BaseInv, [Next]_snowflakeVars PROVE CountsInv'
  OBVIOUS
<1>0. TypeOK /\ CountsInv
  BY DEF BaseInv
<1>1. ASSUME UNCHANGED <<sent, loaded, row_count>> PROVE CountsInv'
  BY <1>0, <1>1 DEF CountsInv
<1>2. ASSUME NEW s \in Streams, NEW k \in Keys, RecordMsg(s, k) PROVE CountsInv'
  <2>1. ASSUME NEW t \in Streams
        PROVE  /\ loaded'[t] <= Len(sent'[t])
               /\ row_count'[t] = 0 => loaded'[t] = Len(sent'[t])
               /\ row_count'[t] > 0 => sent'[t] # << >>
    <3>1. CASE t = s
      <4>1. /\ Len(sent'[s]) = Len(sent[s]) + 1 /\ sent'[s] # << >> /\ loaded' = loaded
            /\ row_count'[s] \in Nat /\ row_count'[s] > 0
        BY <1>2, RecordEffect
      <4>2. loaded[s] \in Nat /\ Len(sent[s]) \in Nat /\ loaded[s] <= Len(sent[s])
        BY <1>0, LenIsNat DEF TypeOK, CountsInv
      <4>3. QED
        BY <3>1, <4>1, <4>2
    <3>2. CASE t # s
      BY <1>0, <1>2, <3>2, RecordEffect DEF CountsInv
    <3>3. QED
      BY <3>1, <3>2
  <2>2. QED
    BY <2>1 DEF CountsInv
<1>3. CASE LoadFile
  <2>1. /\ loaded' = [loaded EXCEPT ![Current] = Len(sent[Current])]
        /\ sent' = sent /\ row_count' = row_count
    BY <1>3 DEF LoadFile, inputVars
  <2>2. ASSUME NEW t \in Streams
        PROVE  /\ loaded'[t] <= Len(sent'[t])
               /\ row_count'[t] = 0 => loaded'[t] = Len(sent'[t])
               /\ row_count'[t] > 0 => sent'[t] # << >>
    <3>1. loaded'[t] = loaded[t] \/ loaded'[t] = Len(sent[t])
      BY <1>0, <2>1 DEF TypeOK
    <3>2. Len(sent[t]) \in Nat
      BY <1>0, LenIsNat
    <3>3. QED
      BY <1>0, <2>1, <3>1, <3>2 DEF CountsInv
  <2>3. QED
    BY <2>2 DEF CountsInv
<1>4. CASE DeleteFromStage
  <2>1. /\ row_count' = [row_count EXCEPT ![Current] = 0]
        /\ sent' = sent /\ loaded' = loaded
        /\ loaded[Current] = Len(sent[Current])
    BY <1>4 DEF DeleteFromStage, inputVars, tableVars, BaseInv, FlushInv, Flushing, Loading
  <2>2. ASSUME NEW t \in Streams
        PROVE  /\ loaded'[t] <= Len(sent'[t])
               /\ row_count'[t] = 0 => loaded'[t] = Len(sent'[t])
               /\ row_count'[t] > 0 => sent'[t] # << >>
    <3>1. CASE t = Current
      <4>1. row_count'[t] = 0
        BY <1>0, <2>1, <3>1 DEF TypeOK
      <4>2. Len(sent[t]) \in Nat
        BY <1>0, LenIsNat
      <4>3. QED
        BY <2>1, <3>1, <4>1, <4>2
    <3>2. CASE t # Current
      <4>1. row_count'[t] = row_count[t]
        BY <1>0, <2>1, <3>2 DEF TypeOK
      <4>2. QED
        BY <1>0, <2>1, <4>1 DEF CountsInv
    <3>3. QED
      BY <3>1, <3>2
  <2>3. QED
    BY <2>2 DEF CountsInv
<1>5. CASE UNCHANGED snowflakeVars
  BY <1>1, <1>5 DEF snowflakeVars, inputVars, tableVars
<1>6. QED
  BY <1>1, <1>2, <1>3, <1>4, <1>5
     DEF Next, Schema, StateMsg, EndOfInput, PutToStage, CopyToArchive, FinishFlush, Fail,
         inputVars, tableVars

\* A flush that begins has everything before it.
LEMMA FlushBegins ==
    ASSUME BaseInv, NEW s \in Streams, FlushFor(s), \A t \in Streams \ {s} : sent'[t] = sent[t]
    PROVE  FlushInv'
<1>1. /\ pc' = "flush" /\ flush' \in Call
      /\ flush'.pending = flush'.streams /\ s \in flush'.streams
      /\ ~flush'.filtered => Buffering \subseteq flush'.streams
      /\ flush'.filtered => ~flush_all_streams
  BY FlushForTypes DEF BaseInv
<1>2. Buffering' \subseteq Buffering \cup {s}
  BY DEF Buffering
<1>3. ~flush'.filtered => Buffering' \subseteq flush'.streams
  BY <1>1, <1>2
<1>4. QED
  BY <1>1, <1>3 DEF FlushInv, Flushing, Loading

\* What a flush has done is kept by its steps, and no other stream is touched.
LEMMA FlushPreserved == BaseInv /\ [Next]_snowflakeVars => FlushInv'
<1> SUFFICES ASSUME BaseInv, [Next]_snowflakeVars PROVE FlushInv'
  OBVIOUS
<1>0. TypeOK /\ CountsInv /\ FlushInv
  BY DEF BaseInv
<1>1. ASSUME pc' \in {"read", "end", "failed"} PROVE FlushInv'
  BY <1>1 DEF FlushInv, Flushing, Loading
<1>2. ASSUME NEW s \in Streams, NEW schema \in 1..2, Schema(s, schema) PROVE FlushInv'
  <2>1. sent' = sent /\ pc = "read" /\ (FlushFor(s) \/ pc' = pc)
    BY <1>2 DEF Schema
  <2>2. QED
    BY <1>1, <2>1, FlushBegins
<1>3. ASSUME NEW s \in Streams, NEW k \in Keys, RecordMsg(s, k) PROVE FlushInv'
  <2>1. /\ \A t \in Streams \ {s} : sent'[t] = sent[t]
        /\ pc = "read" /\ (FlushFor(s) \/ pc' = pc)
    BY <1>3, RecordEffect
  <2>2. QED
    BY <1>1, <2>1, FlushBegins
<1>4. CASE EndOfInput
  <2>1. CASE NothingBuffered
    BY <1>1, <1>4, <2>1 DEF EndOfInput
  <2>2. CASE ~NothingBuffered
    <3>1. StartFlush(Buffering, FALSE, TRUE) /\ sent' = sent
      BY <1>4, <2>2 DEF EndOfInput, inputVars
    <3>2. Buffering \subseteq Streams
      BY DEF Buffering
    <3>3. /\ pc' = "flush" /\ flush'.streams = Buffering /\ flush'.pending = Buffering
          /\ flush'.filtered = FALSE
      BY <3>1, <3>2, StartFlushTypes
    <3>4. PICK s \in Streams : row_count[s] # 0
      BY <2>2 DEF NothingBuffered
    <3>5. row_count[s] > 0
      BY <1>0, <3>4 DEF TypeOK
    <3>6. s \in Buffering
      BY <1>0, <3>5 DEF CountsInv, Buffering
    <3>7. Buffering' = Buffering
      BY <3>1 DEF Buffering
    <3>8. QED
      BY <3>3, <3>6, <3>7 DEF FlushInv, Flushing, Loading
  <2>3. QED
    BY <2>1, <2>2
<1>5. CASE PutToStage
  <2>1. /\ pc = "flush" /\ flush.pending # {} /\ sent' = sent /\ row_count' = row_count
        /\ loaded' = loaded
    BY <1>5 DEF PutToStage, inputVars, tableVars
  <2>2. Buffering' = Buffering
    BY <2>1 DEF Buffering
  <2>3. CASE row_count[Current] > 0
    <3>1. pc' = "staged" /\ flush' = flush
      BY <1>5, <2>3 DEF PutToStage
    <3>2. Current' = Current
      BY <3>1 DEF Current
    <3>3. row_count'[Current'] > 0
      BY <2>1, <2>3, <3>2
    <3>4. QED
      BY <1>0, <2>1, <2>2, <3>1, <3>3 DEF FlushInv, Flushing, Loading
  <2>4. CASE ~(row_count[Current] > 0)
    <3>1. pc' = pc /\ flush' = [flush EXCEPT !.pending = @ \ {Current}]
      BY <1>5, <2>4 DEF PutToStage
    <3>2. /\ flush'.streams = flush.streams /\ flush'.pending = flush.pending \ {Current}
          /\ flush'.filtered = flush.filtered
      BY <1>0, <3>1, PendingTypes
    <3>3. row_count[Current] = 0
      BY <1>0, <2>1, <2>4, CallTypes DEF TypeOK
    <3>4. QED
      BY <1>0, <2>1, <2>2, <3>1, <3>2, <3>3 DEF FlushInv, Flushing, Loading
  <2>5. QED
    BY <2>3, <2>4
<1>6. CASE LoadFile \/ CopyToArchive
  <2>1. /\ flush' = flush /\ sent' = sent /\ row_count' = row_count
        /\ Loading /\ pc' \in {"merged", "archived"}
    BY <1>6 DEF LoadFile, CopyToArchive, Loading, inputVars
  <2>2. Current' = Current /\ Buffering' = Buffering /\ Current \in Streams
    BY <1>0, <2>1, CallTypes DEF Current, Buffering, FlushInv, Flushing
  <2>3. loaded'[Current] = Len(sent[Current])
    <3>1. CASE LoadFile
      BY <1>0, <2>2, <3>1 DEF LoadFile, TypeOK
    <3>2. CASE CopyToArchive
      BY <1>0, <3>2 DEF CopyToArchive, FlushInv, Flushing, Loading, tableVars
    <3>3. QED
      BY <1>6, <3>1, <3>2
  <2>4. loaded'[Current'] = Len(sent'[Current'])
    BY <2>1, <2>2, <2>3
  <2>5. row_count'[Current'] > 0
    BY <1>0, <2>1, <2>2 DEF FlushInv, Flushing
  <2>6. QED
    BY <1>0, <2>1, <2>2, <2>4, <2>5 DEF FlushInv, Flushing, Loading
<1>7. CASE DeleteFromStage
  <2>1. /\ pc = "archived" /\ pc' = "flush" /\ sent' = sent
        /\ row_count' = [row_count EXCEPT ![Current] = 0]
        /\ flush' = [flush EXCEPT !.pending = @ \ {Current}]
    BY <1>7 DEF DeleteFromStage, inputVars
  <2>2. /\ flush'.streams = flush.streams /\ flush'.pending = flush.pending \ {Current}
        /\ flush'.filtered = flush.filtered
    BY <1>0, <2>1, PendingTypes
  <2>3. \A s \in Streams : row_count'[s] = IF s = Current THEN 0 ELSE row_count[s]
    BY <1>0, <2>1 DEF TypeOK
  <2>4. Buffering' = Buffering
    BY <2>1 DEF Buffering
  <2>5. \A s \in flush'.streams \ flush'.pending : row_count'[s] = 0
    BY <1>0, <2>1, <2>2, <2>3, CallTypes DEF FlushInv, Flushing, Loading
  <2>6. QED
    BY <1>0, <2>1, <2>2, <2>4, <2>5 DEF FlushInv, Flushing, Loading
<1>8. CASE FinishFlush
  BY <1>1, <1>8 DEF FinishFlush
<1>9. CASE UNCHANGED snowflakeVars
  <2>1. UNCHANGED <<flush, sent, row_count, loaded, pc>>
    BY <1>9 DEF snowflakeVars, inputVars, tableVars
  <2>2. Current' = Current /\ Buffering' = Buffering
    BY <2>1 DEF Current, Buffering
  <2>3. QED
    BY <1>0, <2>1, <2>2 DEF FlushInv, Flushing, Loading
<1>10. QED
  BY <1>1, <1>2, <1>3, <1>4, <1>5, <1>6, <1>7, <1>8, <1>9 DEF Next, StateMsg, Fail

\* A stream without a row to load has no record in its buffer.
LEMMA EmptyPreserved == BaseInv /\ [Next]_snowflakeVars => EmptyInv'
<1> SUFFICES ASSUME BaseInv, [Next]_snowflakeVars PROVE EmptyInv'
  OBVIOUS
<1>0. TypeOK /\ FlushInv /\ EmptyInv
  BY DEF BaseInv
<1>1. ASSUME UNCHANGED <<records_to_load, row_count>>,
             Flushing => Flushing' /\ flush'.streams = flush.streams,
             pc' # "failed" => pc # "failed"
      PROVE  EmptyInv'
  BY <1>0, <1>1 DEF EmptyInv
<1>2. ASSUME NEW s \in Streams, NEW schema \in 1..2, Schema(s, schema) PROVE EmptyInv'
  BY <1>1, <1>2 DEF Schema, Flushing, Loading
<1>3. ASSUME NEW s \in Streams, NEW k \in Keys, RecordMsg(s, k) PROVE EmptyInv'
  <2>1. /\ row_count'[s] > 0 /\ row_count'[s] \in Nat /\ pc = "read"
        /\ \A t \in Streams \ {s} : /\ row_count'[t] = row_count[t]
                                    /\ records_to_load'[t] = records_to_load[t]
    BY <1>3, RecordEffect
  <2>2. row_count'[s] # 0
    BY <2>1
  <2>3. QED
    BY <1>0, <2>1, <2>2 DEF EmptyInv, Flushing, Loading
<1>4. CASE EndOfInput
  BY <1>1, <1>4 DEF EndOfInput, Flushing, Loading
<1>5. CASE PutToStage
  <2>1. flush'.streams = flush.streams
    BY <1>0, <1>5, PendingTypes DEF PutToStage
  <2>2. pc = "flush" /\ Flushing' /\ pc' # "failed"
    BY <1>5 DEF PutToStage, Flushing, Loading
  <2>3. QED
    BY <1>1, <1>5, <2>1, <2>2 DEF PutToStage
<1>6. CASE LoadFile \/ CopyToArchive
  BY <1>1, <1>6 DEF LoadFile, CopyToArchive, Flushing, Loading
<1>7. CASE DeleteFromStage
  <2>1. /\ pc = "archived" /\ pc' = "flush" /\ records_to_load' = records_to_load
        /\ row_count' = [row_count EXCEPT ![Current] = 0]
        /\ flush' = [flush EXCEPT !.pending = @ \ {Current}]
    BY <1>7 DEF DeleteFromStage
  <2>2. flush'.streams = flush.streams
    BY <1>0, <2>1, PendingTypes
  <2>3. Current \in flush.streams
    BY <1>0, <2>1, CurrentIsPending DEF FlushInv, Flushing, Loading
  <2>4. \A t \in Streams : row_count'[t] = IF t = Current THEN 0 ELSE row_count[t]
    BY <1>0, <2>1 DEF TypeOK
  <2>5. QED
    BY <1>0, <2>1, <2>2, <2>3, <2>4 DEF EmptyInv, Flushing, Loading
<1>8. CASE FinishFlush
  <2>1. /\ pc = "flush" /\ row_count' = row_count
        /\ records_to_load' = [s \in Streams |-> IF s \in flush.streams THEN Empty
                                                 ELSE records_to_load[s]]
    BY <1>8 DEF FinishFlush
  <2>2. ASSUME NEW s \in Streams, row_count[s] = 0
        PROVE  \A k \in Keys : records_to_load'[s][k] = 0
    BY <1>0, <2>1, <2>2 DEF EmptyInv, Empty
  <2>3. QED
    BY <2>1, <2>2 DEF EmptyInv
<1>9. CASE Fail
  BY <1>9 DEF Fail, EmptyInv
<1>10. CASE UNCHANGED snowflakeVars
  BY <1>1, <1>10 DEF snowflakeVars, Flushing, Loading
<1>11. ASSUME NEW st \in [Streams -> 0..MaxRecords], StateMsg(st) PROVE EmptyInv'
  BY <1>1, <1>11 DEF StateMsg, Flushing, Loading
<1>12. QED
  BY <1>2, <1>3, <1>4, <1>5, <1>6, <1>7, <1>8, <1>9, <1>10, <1>11 DEF Next

-----------------------------------------------------------------------------
(* What is printed                                                         *)

\* Configurations in which the one state for all streams is right: the tap
\* sends a STATE before its first RECORD, or all streams are flushed together,
\* or there is one stream.
SafeConfig == StateFirst \/ flush_all_streams \/ \E s \in Streams : Streams = {s}

\* Places of records and of the fields of a STATE, in their order.
LEMMA Numbers ==
    ASSUME BaseInv, NEW s \in Streams
    PROVE  /\ Len(sent[s]) \in Nat /\ loaded[s] \in Nat /\ loaded[s] <= Len(sent[s])
           /\ state # NoState => /\ state \in Position /\ flushed_state \in Position
                                 /\ state[s] \in Nat /\ flushed_state[s] \in Nat
                                 /\ flushed_state[s] <= state[s] /\ state[s] <= Len(sent[s])
<1>1. Len(sent[s]) \in Nat /\ loaded[s] \in Nat /\ loaded[s] <= Len(sent[s])
  BY LenIsNat DEF BaseInv, TypeOK, CountsInv
<1>2. ASSUME state # NoState
      PROVE  state \in Position /\ flushed_state \in Position
  BY <1>2 DEF BaseInv, TypeOK, StateInv
<1>3. QED
  BY <1>1, <1>2 DEF BaseInv, StateInv, Position

\* The records of a stream only grow, and so does what is loaded of them.
LEMMA OnlyGrows ==
    ASSUME BaseInv, [Next]_snowflakeVars, NEW s \in Streams
    PROVE  /\ Len(sent'[s]) \in Nat /\ Len(sent'[s]) >= Len(sent[s])
           /\ loaded'[s] \in Nat /\ loaded'[s] >= loaded[s]
<1>0. Len(sent[s]) \in Nat /\ loaded[s] \in Nat /\ loaded[s] <= Len(sent[s])
  BY Numbers
<1>1. CASE UNCHANGED <<sent, loaded>>
  BY <1>0, <1>1
<1>2. ASSUME NEW t \in Streams, NEW k \in Keys, RecordMsg(t, k)
      PROVE  /\ Len(sent'[s]) \in Nat /\ Len(sent'[s]) >= Len(sent[s])
             /\ loaded'[s] \in Nat /\ loaded'[s] >= loaded[s]
  <2>1. /\ Len(sent'[t]) = Len(sent[t]) + 1 /\ loaded' = loaded
        /\ s # t => sent'[s] = sent[s]
    BY <1>2, RecordEffect
  <2>2. QED
    BY <1>0, <2>1
<1>3. CASE LoadFile
  <2>1. sent' = sent /\ loaded' = [loaded EXCEPT ![Current] = Len(sent[Current])]
    BY <1>3 DEF LoadFile, inputVars
  <2>2. loaded'[s] = loaded[s] \/ loaded'[s] = Len(sent[s])
    BY <2>1 DEF BaseInv, TypeOK
  <2>3. QED
    BY <1>0, <2>1, <2>2
<1>4. CASE UNCHANGED snowflakeVars
  BY <1>1, <1>4 DEF snowflakeVars, inputVars, tableVars
<1>5. QED
  BY <1>1, <1>2, <1>3, <1>4
     DEF Next, Schema, StateMsg, EndOfInput, PutToStage, CopyToArchive, DeleteFromStage,
         FinishFlush, Fail, inputVars, tableVars

\* What a flush that is through prints covers what is sent, and in a safe
\* configuration what is loaded.
LEMMA FlushedBounds ==
    ASSUME BaseInv, pc = "flush", flush.pending = {}, state # NoState, NEW s \in Streams
    PROVE  /\ FlushedPositions[s] \in Nat /\ FlushedPositions[s] <= state[s]
           /\ SafeConfig /\ (StateFirst => flushed_state[s] <= loaded[s])
                => FlushedPositions[s] <= loaded[s]
<1>0. /\ Len(sent[s]) \in Nat /\ loaded[s] \in Nat /\ loaded[s] <= Len(sent[s])
      /\ state \in Position /\ flushed_state \in Position
      /\ state[s] \in Nat /\ flushed_state[s] \in Nat
      /\ flushed_state[s] <= state[s] /\ state[s] <= Len(sent[s])
  BY Numbers
<1>1. FlushedPositions[s] = IF ~flush.filtered \/ (s \in flush.streams /\ state[s] # 0)
                           THEN state[s] ELSE flushed_state[s]
  BY <1>0 DEF FlushedPositions
<1>2. \A t \in flush.streams : loaded[t] = Len(sent[t])
  BY CallTypes DEF BaseInv, FlushInv, Flushing, CountsInv
<1>3. ASSUME s \in flush.streams PROVE FlushedPositions[s] <= loaded[s]
  BY <1>0, <1>1, <1>2, <1>3
<1>4. ASSUME ~flush.filtered, s \notin flush.streams PROVE FlushedPositions[s] <= loaded[s]
  <2>1. sent[s] = << >>
    BY <1>4 DEF BaseInv, FlushInv, Flushing, Buffering
  <2>2. Len(sent[s]) = 0
    BY <2>1, EmptySeq
  <2>3. QED
    BY <1>0, <1>1, <1>4, <2>2
<1>5. ASSUME flush.filtered, s \notin flush.streams, ~StateFirst PROVE ~SafeConfig
  <2>1. ~flush_all_streams /\ flush.streams # {} /\ flush.streams \subseteq Streams
    BY <1>5, CallTypes DEF BaseInv, FlushInv, Flushing
  <2>2. QED
    BY <1>5, <2>1 DEF SafeConfig
<1>6. ASSUME flush.filtered, s \notin flush.streams PROVE FlushedPositions[s] = flushed_state[s]
  BY <1>1, <1>6
<1>7. FlushedPositions[s] \in Nat /\ FlushedPositions[s] <= state[s]
  BY <1>0, <1>1
<1>8. CASE flush.filtered /\ s \notin flush.streams
  <2>1. FlushedPositions[s] = flushed_state[s]
    BY <1>6, <1>8
  <2>2. QED
    BY <1>5, <1>7, <1>8, <2>1
<1>9. CASE ~(flush.filtered /\ s \notin flush.streams)
  BY <1>3, <1>4, <1>7, <1>9
<1>10. QED
  BY <1>8, <1>9

\* The STATE to print is behind the last one, and that one behind the records.
LEMMA StatePreserved == BaseInv /\ [Next]_snowflakeVars => StateInv'
<1> SUFFICES ASSUME BaseInv, [Next]_snowflakeVars PROVE StateInv'
  OBVIOUS
<1>1. ASSUME UNCHANGED <<state, flushed_state>> PROVE StateInv'
  <2>1. ASSUME state # NoState, NEW s \in Streams
        PROVE  flushed_state[s] <= state[s] /\ state[s] <= Len(sent'[s])
    <3>1. /\ Len(sent[s]) \in Nat /\ Len(sent'[s]) \in Nat /\ Len(sent'[s]) >= Len(sent[s])
      BY Numbers, OnlyGrows
    <3>2. state[s] \in Nat /\ flushed_state[s] <= state[s] /\ state[s] <= Len(sent[s])
      BY <2>1, Numbers
    <3>3. QED
      BY <3>1, <3>2
  <2>2. QED
    BY <1>1, <2>1 DEF BaseInv, StateInv
<1>2. ASSUME NEW st \in [Streams -> 0..MaxRecords], StateMsg(st) PROVE StateInv'
  <2>1. st \in Position
    BY DEF Position
  <2>2. st # NoState
    BY <2>1, NoStateAssumption DEF Position
  <2>3. /\ sent' = sent /\ state' = st
        /\ flushed_state' = st \/ (flushed_state' = flushed_state /\ flushed_state # NoState)
    BY <1>2 DEF StateMsg, MayTakeState, inputVars
  <2>4. ASSUME NEW s \in Streams
        PROVE  flushed_state'[s] <= st[s] /\ st[s] <= Len(sent'[s])
    <3>1. st[s] \in Nat /\ st[s] <= Len(sent[s]) /\ (state # NoState => state[s] <= st[s])
      BY <1>2, <2>1 DEF StateMsg, Position
    <3>2. CASE flushed_state' = st
      BY <2>3, <3>1, <3>2
    <3>3. CASE flushed_state' = flushed_state /\ flushed_state # NoState
      <4>1. state # NoState
        BY <3>3 DEF BaseInv, StateInv
      <4>2. state[s] \in Nat /\ flushed_state[s] \in Nat /\ flushed_state[s] <= state[s]
        BY <4>1, Numbers
      <4>3. QED
        BY <2>3, <3>1, <3>3, <4>1, <4>2
    <3>4. QED
      BY <2>3, <3>2, <3>3
  <2>5. QED
    BY <2>2, <2>3, <2>4 DEF StateInv
<1>3. CASE FinishFlush
  <2>1. /\ pc = "flush" /\ flush.pending = {} /\ sent' = sent /\ state' = state
        /\ flushed_state' = FlushedPositions
    BY <1>3 DEF FinishFlush, inputVars
  <2>2. FlushedPositions = NoState <=> state = NoState
    BY FlushedIsPosition
  <2>3. ASSUME state # NoState, NEW s \in Streams
        PROVE  FlushedPositions[s] <= state[s] /\ state[s] <= Len(sent[s])
    BY <2>1, <2>3, FlushedBounds, Numbers
  <2>4. QED
    BY <2>1, <2>2, <2>3 DEF StateInv
<1>4. CASE UNCHANGED snowflakeVars
  BY <1>1, <1>4 DEF snowflakeVars
<1>5. QED
  BY <1>1, <1>2, <1>3, <1>4
     DEF Next, Schema, RecordMsg, EndOfInput, PutToStage, LoadFile, CopyToArchive,
         DeleteFromStage, Fail

\* The target starts with nothing.
LEMMA InitBase == Init => BaseInv
<1> SUFFICES ASSUME Init PROVE BaseInv
  OBVIOUS
<1>1. \A s \in Streams : /\ sent[s] = << >> /\ row_count[s] = 0 /\ loaded[s] = 0
                        /\ records_to_load[s] = Empty
  BY DEF Init
<1>2. Len(<< >>) = 0 /\ << >> \in Seq(Keys)
  BY EmptySeq
<1>3. flush \in Call
  BY DEF Init, NoFlush, Call
<1>4. archive_data \in [Streams -> Bounds]
  BY NoRangeType DEF Init
<1>5. sent \in [Streams -> Seq(Keys)] /\ records_to_load \in [Streams -> [Keys -> Nat]]
  BY <1>2 DEF Init, Empty
<1>6. TypeOK
  BY <1>3, <1>4, <1>5 DEF Init, TypeOK
<1>7. CountsInv /\ EmptyInv
  BY <1>1, <1>2 DEF CountsInv, EmptyInv, Empty
<1>8. FlushInv /\ StateInv
  BY DEF Init, FlushInv, StateInv, Flushing, Loading
<1>9. QED
  BY <1>6, <1>7, <1>8 DEF BaseInv

\* Every step keeps the four parts.
LEMMA BasePreserved == BaseInv /\ [Next]_snowflakeVars => BaseInv'
BY TypePreserved, CountsPreserved, FlushPreserved, EmptyPreserved, StatePreserved DEF BaseInv

\* The state to print is behind what is loaded, unless a flush of all streams
\* is to come before it is printed.
PrintedInv ==
    /\ SnowflakeStateIsLoaded
    /\ StateFirst /\ state = NoState => \A s \in Streams : sent[s] = << >>
    /\ StateFirst /\ state # NoState => \A s \in Streams : flushed_state[s] <= loaded[s]

\* What is printed stays behind what is loaded.
LEMMA PrintedPreserved ==
    ASSUME SafeConfig, BaseInv, PrintedInv, [Next]_snowflakeVars
    PROVE  PrintedInv'
<1>1. ASSUME UNCHANGED <<state, flushed_state, emitted>>,
             sent' = sent \/ ~StateFirst \/ state # NoState
      PROVE  PrintedInv'
  <2>1. ASSUME emitted # NoState, NEW s \in Streams PROVE emitted[s] <= loaded'[s]
    <3>1. emitted[s] \in Nat
      BY <2>1 DEF BaseInv, TypeOK, Position
    <3>2. emitted[s] <= loaded[s]
      BY <2>1 DEF PrintedInv, SnowflakeStateIsLoaded
    <3>3. QED
      BY <3>1, <3>2, Numbers, OnlyGrows
  <2>2. ASSUME StateFirst, state # NoState, NEW s \in Streams PROVE flushed_state[s] <= loaded'[s]
    <3>1. flushed_state[s] \in Nat
      BY <2>2, Numbers
    <3>2. flushed_state[s] <= loaded[s]
      BY <2>2 DEF PrintedInv
    <3>3. QED
      BY <3>1, <3>2, Numbers, OnlyGrows
  <2>3. QED
    BY <1>1, <2>1, <2>2 DEF PrintedInv, SnowflakeStateIsLoaded
<1>2. ASSUME NEW st \in [Streams -> 0..MaxRecords], StateMsg(st) PROVE PrintedInv'
  <2>1. st \in Position
    BY DEF Position
  <2>2. st # NoState
    BY <2>1, NoStateAssumption DEF Position
  <2>3. /\ sent' = sent /\ state' = st /\ emitted' = emitted /\ loaded' = loaded
        /\ flushed_state' = IF MayTakeState THEN st ELSE flushed_state
        /\ \A s \in Streams : st[s] <= Len(sent[s])
    BY <1>2 DEF StateMsg, inputVars, tableVars
  <2>4. ASSUME StateFirst, NEW s \in Streams PROVE flushed_state'[s] <= loaded[s]
    <3>1. Len(sent[s]) \in Nat /\ loaded[s] \in Nat /\ st[s] \in Nat
      BY <2>1, Numbers DEF Position
    <3>2. CASE flushed_state = NoState
      <4>1. state = NoState
        BY <3>2 DEF BaseInv, StateInv
      <4>2. Len(sent[s]) = 0
        BY <2>4, <4>1, EmptySeq DEF PrintedInv
      <4>3. QED
        BY <2>3, <3>1, <3>2, <4>2 DEF MayTakeState
    <3>3. CASE NothingBuffered
      <4>1. loaded[s] = Len(sent[s])
        BY <3>3 DEF NothingBuffered, BaseInv, CountsInv
      <4>2. QED
        BY <2>3, <3>1, <3>3, <4>1 DEF MayTakeState
    <3>4. CASE flushed_state # NoState /\ ~NothingBuffered
      BY <2>3, <2>4, <3>4 DEF MayTakeState, PrintedInv, BaseInv, StateInv
    <3>5. QED
      BY <3>2, <3>3, <3>4
  <2>5. QED
    BY <2>2, <2>3, <2>4 DEF PrintedInv, SnowflakeStateIsLoaded
<1>3. CASE EndOfInput
  <2>1. CASE NothingBuffered
    <3>1. /\ UNCHANGED <<sent, state, flushed_state, loaded>>
          /\ emitted' = IF flushed_state = NoState THEN emitted ELSE flushed_state
      BY <1>3, <2>1 DEF EndOfInput, Emit, inputVars, tableVars
    <3>2. ASSUME flushed_state # NoState, NEW s \in Streams PROVE flushed_state[s] <= loaded[s]
      <4>1. loaded[s] = Len(sent[s])
        BY <2>1 DEF NothingBuffered, BaseInv, CountsInv
      <4>2. state # NoState
        BY <3>2 DEF BaseInv, StateInv
      <4>3. QED
        BY <4>1, <4>2, Numbers
    <3>3. QED
      BY <3>1, <3>2 DEF PrintedInv, SnowflakeStateIsLoaded
  <2>2. CASE ~NothingBuffered
    BY <1>1, <1>3, <2>2 DEF EndOfInput, inputVars
  <2>3. QED
    BY <2>1, <2>2
<1>4. CASE FinishFlush
  <2>1. /\ pc = "flush" /\ flush.pending = {} /\ UNCHANGED <<sent, state, loaded>>
        /\ flushed_state' = FlushedPositions
        /\ emitted' = IF FlushedPositions = NoState THEN emitted ELSE FlushedPositions
    BY <1>4 DEF FinishFlush, Emit, inputVars, tableVars
  <2>2. FlushedPositions = NoState <=> state = NoState
    BY FlushedIsPosition
  <2>3. ASSUME state # NoState, NEW s \in Streams PROVE FlushedPositions[s] <= loaded[s]
    BY <2>1, <2>3, FlushedBounds DEF PrintedInv
  <2>4. QED
    BY <2>1, <2>2, <2>3 DEF PrintedInv, SnowflakeStateIsLoaded
<1>5. CASE UNCHANGED snowflakeVars
  BY <1>1, <1>5 DEF snowflakeVars, inputVars
<1>6. ASSUME NEW s \in Streams, NEW k \in Keys, RecordMsg(s, k) PROVE PrintedInv'
  BY <1>1, <1>6 DEF RecordMsg
<1>7. QED
  BY <1>1, <1>2, <1>3, <1>4, <1>5, <1>6
     DEF Next, Schema, PutToStage, LoadFile, CopyToArchive, DeleteFromStage, Fail, inputVars

\* In a safe configuration no state is printed that covers a record Snowflake
\* does not hold.
THEOREM PrintedIsLoaded == SafeConfig => (Spec => []SnowflakeStateIsLoaded)
<1> SUFFICES ASSUME SafeConfig PROVE Spec => []SnowflakeStateIsLoaded
  OBVIOUS
<1>1. Init => BaseInv /\ PrintedInv
  BY InitBase DEF Init, PrintedInv, SnowflakeStateIsLoaded
<1>2. BaseInv /\ PrintedInv /\ [Next]_snowflakeVars => (BaseInv /\ PrintedInv)'
  BY BasePreserved, PrintedPreserved
<1>3. PrintedInv => SnowflakeStateIsLoaded
  BY DEF PrintedInv
<1>4. QED
  BY <1>1, <1>2, <1>3, PTL DEF Spec

-----------------------------------------------------------------------------
(* The buffers and the file of a batch                                     *)

\* Streams whose buffer is already in the table and not yet reset.
Stale(s) == \/ Flushing /\ s \in flush.streams /\ s \notin flush.pending
            \/ pc \in {"merged", "archived"} /\ s = Current

\* The buffer of a stream and the range of its keys are what is sent and not loaded.
Waiting(s) ==
    /\ \A k \in Keys : records_to_load[s][k] # 0 =>
           loaded[s] < records_to_load[s][k] /\ records_to_load[s][k] <= Len(sent[s])
    /\ row_count[s] = 0 => archive_data[s] = NoRange
    /\ row_count[s] > 0 => /\ loaded[s] < Len(sent[s])
                           /\ archive_data[s] = [min |-> loaded[s] + 1, max |-> Len(sent[s])]

WaitingInv == pc # "failed" => \A s \in Streams : Stale(s) \/ Waiting(s)

\* The stage holds the file of the batch that is being loaded, and nothing else.
BatchFile == [stream |-> Current, rows |-> records_to_load[Current], range |-> archive_data[Current]]
StageInv  == pc # "failed" => stage = IF Loading THEN {BatchFile} ELSE {}

\* A buffer that is not stale keeps what is sent and not loaded of its stream.
LEMMA WaitingPreserved == BaseInv /\ WaitingInv /\ [Next]_snowflakeVars => WaitingInv'
<1> SUFFICES ASSUME BaseInv, WaitingInv, [Next]_snowflakeVars PROVE WaitingInv'
  OBVIOUS
<1>0. TypeOK
  BY DEF BaseInv
<1>1. ASSUME UNCHANGED <<records_to_load, row_count, archive_data, loaded, sent>>,
             pc' # "failed" => pc # "failed",
             \A s \in Streams : Stale(s) => Stale(s)'
      PROVE  WaitingInv'
  BY <1>1 DEF WaitingInv, Waiting
<1>2. ASSUME pc = "read" PROVE \A s \in Streams : ~Stale(s) /\ Waiting(s)
  BY <1>2 DEF Stale, Flushing, Loading, WaitingInv
<1>3. ASSUME NEW s \in Streams, NEW schema \in 1..2, Schema(s, schema) PROVE WaitingInv'
  <2>1. CASE row_count[s] > 0
    BY <1>1, <1>2, <1>3, <2>1 DEF Schema, tableVars
  <2>2. CASE ~(row_count[s] > 0)
    <3>1. /\ archive_data' = [archive_data EXCEPT ![s] = NoRange] /\ pc = "read"
          /\ UNCHANGED <<records_to_load, row_count, loaded, sent>>
      BY <1>3, <2>2 DEF Schema, tableVars
    <3>2. \A t \in Streams : archive_data'[t] = IF t = s THEN NoRange ELSE archive_data[t]
      BY <1>0, <3>1 DEF TypeOK
    <3>3. ASSUME NEW t \in Streams PROVE Waiting(t)'
      BY <1>2, <2>2, <3>1, <3>2 DEF Waiting
    <3>4. QED
      BY <3>3 DEF WaitingInv
  <2>3. QED
    BY <2>1, <2>2
<1>4. ASSUME NEW s \in Streams, NEW k \in Keys, RecordMsg(s, k) PROVE WaitingInv'
  <2>1. /\ Len(sent'[s]) = Len(sent[s]) + 1
        /\ \A t \in Streams \ {s} : /\ sent'[t] = sent[t] /\ row_count'[t] = row_count[t]
                                    /\ records_to_load'[t] = records_to_load[t]
                                    /\ archive_data'[t] = archive_data[t]
        /\ row_count'[s] \in Nat /\ row_count'[s] > 0
        /\ records_to_load'[s] = [records_to_load[s] EXCEPT ![k] = Len(sent[s]) + 1]
        /\ loaded' = loaded /\ pc = "read"
    BY <1>4, RecordEffect
  <2>2. Len(sent[s]) \in Nat /\ loaded[s] \in Nat /\ loaded[s] <= Len(sent[s])
        /\ row_count[s] \in Nat /\ (row_count[s] = 0 => loaded[s] = Len(sent[s]))
    BY <1>0, Numbers DEF TypeOK, BaseInv, CountsInv
  <2>3. archive_data'[s] = [min |-> loaded[s] + 1, max |-> Len(sent'[s])]
    <3>1. archive_data'[s] = [min |-> IF archive_data[s].min = 0 THEN Len(sent[s]) + 1
                                      ELSE archive_data[s].min,
                              max |-> Len(sent[s]) + 1]
      BY <1>0, <1>4 DEF RecordMsg, TypeOK
    <3>2. CASE row_count[s] = 0
      <4>1. archive_data[s].min = 0 /\ loaded[s] = Len(sent[s])
        BY <1>2, <2>1, <2>2, <3>2, NoRangeType DEF Waiting
      <4>2. QED
        BY <2>1, <3>1, <4>1
    <3>3. CASE row_count[s] > 0
      <4>1. archive_data[s] = [min |-> loaded[s] + 1, max |-> Len(sent[s])]
        BY <1>2, <2>1, <3>3 DEF Waiting
      <4>2. archive_data[s].min = loaded[s] + 1
        BY <4>1
      <4>3. QED
        BY <2>1, <2>2, <3>1, <4>2
    <3>4. QED
      BY <2>2, <3>2, <3>3
  <2>4. ASSUME NEW j \in Keys, records_to_load'[s][j] # 0
        PROVE  loaded[s] < records_to_load'[s][j] /\ records_to_load'[s][j] <= Len(sent'[s])
    <3>1. records_to_load'[s][j] = IF j = k THEN Len(sent[s]) + 1 ELSE records_to_load[s][j]
      BY <1>0, <2>1 DEF TypeOK
    <3>2. records_to_load[s][j] \in Nat
          /\ (records_to_load[s][j] # 0 =>
                loaded[s] < records_to_load[s][j] /\ records_to_load[s][j] <= Len(sent[s]))
      BY <1>0, <1>2, <2>1 DEF Waiting, TypeOK
    <3>3. QED
      BY <2>1, <2>2, <2>4, <3>1, <3>2
  <2>5. Waiting(s)'
    BY <2>1, <2>2, <2>3, <2>4 DEF Waiting
  <2>6. ASSUME NEW t \in Streams \ {s} PROVE Waiting(t)'
    BY <1>2, <2>1 DEF Waiting
  <2>7. QED
    BY <2>5, <2>6 DEF WaitingInv
<1>5. ASSUME NEW st \in [Streams -> 0..MaxRecords], StateMsg(st) PROVE WaitingInv'
  BY <1>1, <1>2, <1>5 DEF StateMsg, inputVars, tableVars
<1>6. CASE EndOfInput
  BY <1>1, <1>2, <1>6 DEF EndOfInput, inputVars, tableVars
<1>7. CASE PutToStage
  <2>1. flush'.streams = flush.streams /\ flush'.pending \subseteq flush.pending
    BY <1>0, <1>7, PendingTypes DEF PutToStage
  <2>2. pc = "flush" /\ pc' \in {"flush", "staged"}
    BY <1>7 DEF PutToStage
  <2>3. \A s \in Streams : Stale(s) => Stale(s)'
    BY <2>1, <2>2 DEF Stale, Flushing, Loading
  <2>4. QED
    BY <1>1, <1>7, <2>2, <2>3 DEF PutToStage, inputVars, tableVars
<1>8. CASE LoadFile
  <2>1. /\ pc = "staged" /\ pc' = "merged" /\ flush' = flush /\ Current' = Current
        /\ UNCHANGED <<records_to_load, row_count, archive_data, sent>>
        /\ loaded' = [loaded EXCEPT ![Current] = Len(sent[Current])]
    BY <1>8 DEF LoadFile, inputVars, Current
  <2>2. ASSUME NEW s \in Streams PROVE Stale(s)' \/ Waiting(s)'
    <3>1. CASE s = Current \/ Stale(s)
      BY <2>1, <3>1 DEF Stale, Flushing, Loading
    <3>2. CASE s # Current /\ Waiting(s)
      <4>1. loaded'[s] = loaded[s]
        BY <1>0, <2>1, <3>2 DEF TypeOK
      <4>2. QED
        BY <2>1, <3>2, <4>1 DEF Waiting
    <3>3. QED
      BY <2>1, <3>1, <3>2 DEF WaitingInv
  <2>3. QED
    BY <2>2 DEF WaitingInv
<1>9. CASE CopyToArchive
  <2>1. pc = "merged" /\ pc' = "archived" /\ flush' = flush /\ Current' = Current
    BY <1>9 DEF CopyToArchive, Current
  <2>2. \A s \in Streams : Stale(s) => Stale(s)'
    BY <2>1 DEF Stale, Flushing, Loading
  <2>3. QED
    BY <1>1, <1>9, <2>1, <2>2 DEF CopyToArchive, inputVars, tableVars
<1>10. CASE DeleteFromStage
  <2>1. /\ pc = "archived" /\ pc' = "flush"
        /\ UNCHANGED <<records_to_load, archive_data, sent, loaded>>
        /\ row_count' = [row_count EXCEPT ![Current] = 0]
        /\ flush' = [flush EXCEPT !.pending = @ \ {Current}]
    BY <1>10 DEF DeleteFromStage, inputVars, tableVars
  <2>2. flush'.streams = flush.streams /\ flush'.pending = flush.pending \ {Current}
    BY <1>0, <2>1, PendingTypes
  <2>3. Current \in flush.streams
    BY <2>1, CurrentIsPending DEF BaseInv, FlushInv, Flushing, Loading
  <2>4. ASSUME NEW s \in Streams PROVE Stale(s)' \/ Waiting(s)'
    <3>1. CASE s = Current \/ Stale(s)
      BY <2>1, <2>2, <2>3, <3>1 DEF Stale, Flushing, Loading
    <3>2. CASE s # Current /\ Waiting(s)
      <4>1. row_count'[s] = row_count[s]
        BY <1>0, <2>1, <3>2 DEF TypeOK
      <4>2. QED
        BY <2>1, <3>2, <4>1 DEF Waiting
    <3>3. QED
      BY <2>1, <3>1, <3>2 DEF WaitingInv
  <2>5. QED
    BY <2>4 DEF WaitingInv
<1>11. CASE FinishFlush
  <2>1. /\ pc = "flush" /\ flush.pending = {}
        /\ UNCHANGED <<row_count, sent, loaded>>
        /\ records_to_load' = [s \in Streams |-> IF s \in flush.streams THEN Empty
                                                 ELSE records_to_load[s]]
        /\ archive_data' = [s \in Streams |-> IF s \in flush.streams THEN NoRange
                                              ELSE archive_data[s]]
    BY <1>11 DEF FinishFlush, ResetRanges, inputVars, tableVars
  <2>2. ASSUME NEW s \in Streams PROVE Waiting(s)'
    <3>1. CASE s \in flush.streams
      <4>1. row_count[s] = 0
        BY <2>1, <3>1 DEF BaseInv, FlushInv, Flushing
      <4>2. records_to_load'[s] = Empty /\ archive_data'[s] = NoRange
        BY <2>1, <3>1
      <4>3. ~(row_count'[s] > 0)
        BY <2>1, <4>1
      <4>4. QED
        BY <4>2, <4>3 DEF Waiting, Empty
    <3>2. CASE s \notin flush.streams
      <4>1. Waiting(s)
        BY <2>1, <3>2 DEF WaitingInv, Stale
      <4>2. records_to_load'[s] = records_to_load[s] /\ archive_data'[s] = archive_data[s]
        BY <2>1, <3>2
      <4>3. QED
        BY <2>1, <4>1, <4>2 DEF Waiting
    <3>3. QED
      BY <3>1, <3>2
  <2>3. QED
    BY <2>2 DEF WaitingInv
<1>12. CASE Fail
  BY <1>12 DEF Fail, WaitingInv
<1>13. CASE UNCHANGED snowflakeVars
  BY <1>1, <1>13 DEF snowflakeVars, inputVars, tableVars, Stale, Flushing, Loading, Current
<1>14. QED
  BY <1>3, <1>4, <1>5, <1>6, <1>7, <1>8, <1>9, <1>10, <1>11, <1>12, <1>13 DEF Next

\* The file that is merged, archived and removed is the one of the batch.
LEMMA TheFileIsBatch == ASSUME StageInv, Loading PROVE TheFile = BatchFile
<1>1. stage = {BatchFile}
  BY DEF StageInv, Loading
<1>2. BatchFile.stream = Current /\ BatchFile.range = archive_data[Current]
  BY DEF BatchFile
<1> HIDE DEF BatchFile
<1>3. QED
  BY <1>1, <1>2 DEF TheFile

\* The stage holds the file of the batch that is loaded, and nothing else.
LEMMA StagePreserved == StageInv /\ [Next]_snowflakeVars => StageInv'
<1> SUFFICES ASSUME StageInv, [Next]_snowflakeVars PROVE StageInv'
  OBVIOUS
<1>1. ASSUME stage' = stage, pc' # "failed" => pc # "failed", ~Loading, ~Loading' PROVE StageInv'
  BY <1>1 DEF StageInv
<1>2. CASE PutToStage
  <2>1. CASE row_count[Current] > 0
    <3>1. /\ pc = "flush" /\ pc' = "staged" /\ stage' = stage \cup {BatchFile}
          /\ UNCHANGED <<flush, records_to_load, archive_data>>
      BY <1>2, <2>1 DEF PutToStage, BatchFile
    <3>2. BatchFile' = BatchFile
      BY <3>1 DEF BatchFile, Current
    <3>3. stage = {}
      BY <3>1 DEF StageInv, Loading
    <3>4. QED
      BY <3>1, <3>2, <3>3 DEF StageInv, Loading
  <2>2. CASE ~(row_count[Current] > 0)
    BY <1>1, <1>2, <2>2 DEF PutToStage, Loading
  <2>3. QED
    BY <2>1, <2>2
<1>3. CASE LoadFile \/ CopyToArchive
  <2>1. /\ Loading /\ Loading' /\ stage' = stage /\ pc # "failed"
        /\ UNCHANGED <<flush, records_to_load, archive_data>>
    BY <1>3 DEF LoadFile, CopyToArchive, Loading
  <2>2. BatchFile' = BatchFile
    BY <2>1 DEF BatchFile, Current
  <2>3. QED
    BY <2>1, <2>2 DEF StageInv
<1>4. CASE DeleteFromStage
  <2>1. pc = "archived" /\ pc' = "flush" /\ stage' = stage \ {TheFile}
    BY <1>4 DEF DeleteFromStage
  <2>2. stage = {BatchFile} /\ TheFile = BatchFile
    BY <2>1, TheFileIsBatch DEF StageInv, Loading
  <2>3. QED
    BY <2>1, <2>2 DEF StageInv, Loading
<1>5. CASE UNCHANGED snowflakeVars
  <2>1. UNCHANGED <<pc, stage, flush, records_to_load, archive_data>>
    BY <1>5 DEF snowflakeVars
  <2>2. BatchFile' = BatchFile /\ Loading' = Loading
    BY <2>1 DEF BatchFile, Current, Loading
  <2>3. QED
    BY <2>1, <2>2 DEF StageInv
<1>6. ASSUME NEW s \in Streams, NEW k \in Keys, RecordMsg(s, k) PROVE StageInv'
  BY <1>1, <1>6 DEF RecordMsg, FlushFor, StartFlush, Loading
<1>7. ASSUME NEW s \in Streams, NEW schema \in 1..2, Schema(s, schema) PROVE StageInv'
  BY <1>1, <1>7 DEF Schema, FlushFor, StartFlush, Loading
<1>8. CASE EndOfInput \/ FinishFlush
  BY <1>1, <1>8 DEF EndOfInput, StartFlush, FinishFlush, Loading
<1>9. CASE Fail
  BY <1>9 DEF Fail, StageInv
<1>10. ASSUME NEW st \in [Streams -> 0..MaxRecords], StateMsg(st) PROVE StageInv'
  BY <1>1, <1>10 DEF StateMsg, Loading
<1>11. QED
  BY <1>2, <1>3, <1>4, <1>5, <1>6, <1>7, <1>8, <1>9, <1>10 DEF Next

-----------------------------------------------------------------------------
(* The archive                                                             *)

RowsInRange(f) ==
    \A k \in Keys : f.rows[k] # 0 => f.range.min <= f.rows[k] /\ f.rows[k] <= f.range.max

FilesOf(s, n) == {f \in archive : f.stream = s /\ f.range.min <= n /\ n <= f.range.max}
Once(s, n)    == \E f \in archive : FilesOf(s, n) = {f}
Missing(s, n) == archive_data[s].min # 0 /\ n >= archive_data[s].min /\ FilesOf(s, n) = {}

\* What is archived is loaded.
FilesInv ==
    \A f \in archive :
        f.stream \in Streams /\ f.range \in Bounds /\ RowsInRange(f) /\ f.range.max <= loaded[f.stream]

\* A batch that is merged begins after what is archived of its stream.
MergedInv ==
    pc = "merged" =>
        /\ RowsInRange(BatchFile)
        /\ archive_data[Current].min # 0
        /\ archive_data[Current].max = loaded[Current]
        /\ \A f \in archive : f.stream = Current => f.range.max < archive_data[Current].min

\* What is loaded is archived once, but for the batch that is merged.
CoveredInv ==
    \A s \in Streams : \A n \in 1..loaded[s] :
        \/ Once(s, n)
        \/ pc = "merged" /\ s = Current /\ Missing(s, n)
        \/ pc = "failed" /\ Missing(s, n)

ArchiveInv == WaitingInv /\ StageInv /\ FilesInv /\ MergedInv /\ CoveredInv

\* The batch that is merged: the records after what was loaded before.
LEMMA MergedBatch ==
    ASSUME BaseInv, WaitingInv, pc = "staged"
    PROVE  /\ Current \in Streams /\ RowsInRange(BatchFile)
           /\ archive_data[Current].min = loaded[Current] + 1
           /\ archive_data[Current].max = Len(sent[Current])
<1>1. /\ Current \in Streams /\ Current \in flush.pending /\ row_count[Current] > 0
  BY CurrentIsPending, CallTypes DEF BaseInv, FlushInv, Flushing, Loading
<1>2. Waiting(Current)
  BY <1>1 DEF WaitingInv, Stale
<1>3. archive_data[Current] = [min |-> loaded[Current] + 1, max |-> Len(sent[Current])]
  BY <1>1, <1>2 DEF Waiting
<1>4. /\ archive_data[Current].min = loaded[Current] + 1
      /\ archive_data[Current].max = Len(sent[Current])
  BY <1>3
<1>5. ASSUME NEW k \in Keys, records_to_load[Current][k] # 0
      PROVE  /\ archive_data[Current].min <= records_to_load[Current][k]
             /\ records_to_load[Current][k] <= archive_data[Current].max
  <2>1. loaded[Current] < records_to_load[Current][k] /\ records_to_load[Current][k] <= Len(sent[Current])
    BY <1>2, <1>5 DEF Waiting
  <2>2. loaded[Current] \in Nat /\ records_to_load[Current][k] \in Nat
    BY <1>1 DEF BaseInv, TypeOK
  <2>3. QED
    BY <1>4, <2>1, <2>2
<1>6. RowsInRange(BatchFile)
  BY <1>5 DEF RowsInRange, BatchFile
<1>7. QED
  BY <1>1, <1>4, <1>6

\* What is archived stays loaded: a file is archived after its MERGE.
LEMMA FilesPreserved == BaseInv /\ ArchiveInv /\ [Next]_snowflakeVars => FilesInv'
<1> SUFFICES ASSUME BaseInv, ArchiveInv, [Next]_snowflakeVars PROVE FilesInv'
  OBVIOUS
<1>1. ASSUME NEW f \in archive
      PROVE  /\ f.stream \in Streams /\ f.range \in Bounds /\ RowsInRange(f)
             /\ f.range.max <= loaded'[f.stream]
  <2>1. f.stream \in Streams /\ f.range \in Bounds /\ RowsInRange(f) /\ f.range.max <= loaded[f.stream]
    BY DEF ArchiveInv, FilesInv
  <2>2. f.range.max \in Nat
    BY <2>1 DEF Bounds
  <2>3. QED
    BY <2>1, <2>2, Numbers, OnlyGrows
<1>2. CASE archive' = archive
  BY <1>1, <1>2 DEF FilesInv, RowsInRange
<1>3. CASE CopyToArchive
  <2>1. /\ pc = "merged" /\ archive' = archive \cup {BatchFile} /\ loaded' = loaded
    BY <1>3, TheFileIsBatch DEF CopyToArchive, ArchiveInv, Loading, tableVars
  <2>2. Current \in Streams
    BY <2>1, CallTypes DEF BaseInv, FlushInv, Flushing, Loading
  <2>3. archive_data[Current] \in Bounds /\ archive_data[Current].max \in Nat
    BY <2>2 DEF BaseInv, TypeOK, Bounds
  <2>4. RowsInRange(BatchFile) /\ archive_data[Current].max <= loaded[Current]
    BY <2>1, <2>2, <2>3 DEF ArchiveInv, MergedInv
  <2>5. BatchFile.stream = Current /\ BatchFile.range = archive_data[Current]
    BY DEF BatchFile
  <2> DEFINE b == BatchFile
  <2>6. /\ b.stream \in Streams /\ b.range \in Bounds /\ RowsInRange(b)
        /\ b.range.max <= loaded[b.stream]
    BY <2>2, <2>3, <2>4, <2>5
  <2> HIDE DEF b
  <2>7. archive' = archive \cup {b}
    BY <2>1 DEF b
  <2>8. QED
    BY <1>1, <2>1, <2>6, <2>7 DEF FilesInv, RowsInRange
<1>4. QED
  BY <1>2, <1>3
     DEF Next, Schema, RecordMsg, StateMsg, EndOfInput, PutToStage, LoadFile, DeleteFromStage,
         FinishFlush, Fail, snowflakeVars

\* A batch that is merged comes after what is archived of its stream.
LEMMA MergedPreserved == BaseInv /\ ArchiveInv /\ [Next]_snowflakeVars => MergedInv'
<1> SUFFICES ASSUME BaseInv, ArchiveInv, [Next]_snowflakeVars PROVE MergedInv'
  OBVIOUS
<1>1. CASE pc' # "merged"
  BY <1>1 DEF MergedInv
<1>2. CASE UNCHANGED snowflakeVars
  <2>1. UNCHANGED <<pc, flush, records_to_load, archive_data, loaded, archive>>
    BY <1>2 DEF snowflakeVars, tableVars
  <2>2. Current' = Current /\ BatchFile' = BatchFile
    BY <2>1 DEF BatchFile, Current
  <2>3. QED
    BY <2>1, <2>2 DEF MergedInv, ArchiveInv, RowsInRange
<1>3. CASE LoadFile
  <2>1. /\ pc = "staged" /\ UNCHANGED <<flush, records_to_load, archive_data, archive>>
        /\ loaded' = [loaded EXCEPT ![Current] = Len(sent[Current])]
    BY <1>3 DEF LoadFile
  <2>2. Current' = Current /\ BatchFile' = BatchFile
    BY <2>1 DEF BatchFile, Current
  <2>3. /\ Current \in Streams /\ RowsInRange(BatchFile)
        /\ archive_data[Current].min = loaded[Current] + 1
        /\ archive_data[Current].max = Len(sent[Current])
    BY <2>1, MergedBatch DEF ArchiveInv
  <2>4. loaded'[Current] = Len(sent[Current]) /\ loaded[Current] \in Nat
    BY <2>1, <2>3 DEF BaseInv, TypeOK
  <2>5. ASSUME NEW f \in archive, f.stream = Current PROVE f.range.max < archive_data[Current].min
    <3>1. f.range.max \in Nat /\ f.range.max <= loaded[Current]
      BY <2>5 DEF ArchiveInv, FilesInv, Bounds
    <3>2. QED
      BY <2>3, <2>4, <3>1
  <2>6. archive_data[Current].min # 0
    BY <2>3, <2>4
  <2>7. QED
    BY <2>1, <2>2, <2>3, <2>4, <2>5, <2>6 DEF MergedInv, RowsInRange
<1>4. QED
  BY <1>1, <1>2, <1>3
     DEF Next, Schema, RecordMsg, FlushFor, StartFlush, StateMsg, EndOfInput, PutToStage,
         CopyToArchive, DeleteFromStage, FinishFlush, Fail

\* A loaded record stays in one file of the archive, or in the batch that is merged.
LEMMA CoveredPreserved == BaseInv /\ ArchiveInv /\ [Next]_snowflakeVars => CoveredInv'
<1> SUFFICES ASSUME BaseInv, ArchiveInv, [Next]_snowflakeVars PROVE CoveredInv'
  OBVIOUS
<1>1. CASE UNCHANGED <<archive, loaded>> /\ pc \notin {"merged", "failed"}
  BY <1>1 DEF ArchiveInv, CoveredInv, Once, FilesOf
<1>2. CASE LoadFile
  <2>1. /\ pc = "staged" /\ pc' = "merged" /\ UNCHANGED <<flush, archive_data, archive>>
        /\ loaded' = [loaded EXCEPT ![Current] = Len(sent[Current])]
    BY <1>2 DEF LoadFile
  <2>2. Current' = Current
    BY <2>1 DEF Current
  <2>3. /\ Current \in Streams /\ archive_data[Current].min = loaded[Current] + 1
    BY <2>1, MergedBatch DEF ArchiveInv
  <2>4. ASSUME NEW s \in Streams, NEW n \in 1..loaded'[s]
        PROVE  Once(s, n)' \/ (s = Current' /\ Missing(s, n)')
    <3>1. loaded[s] \in Nat /\ loaded'[s] \in Nat /\ n \in Nat /\ n >= 1
      BY Numbers, OnlyGrows
    <3>2. CASE n <= loaded[s]
      <4>1. n \in 1..loaded[s]
        BY <3>1, <3>2
      <4>2. Once(s, n)
        BY <2>1, <4>1 DEF ArchiveInv, CoveredInv
      <4>3. QED
        BY <2>1, <4>2 DEF Once, FilesOf
    <3>3. CASE ~(n <= loaded[s])
      <4>1. s = Current
        BY <2>1, <3>1, <3>3 DEF BaseInv, TypeOK
      <4>2. n >= archive_data[s].min /\ archive_data[s].min # 0
        BY <2>3, <3>1, <3>3, <4>1
      <4>3. FilesOf(s, n) = {}
        <5>1. ASSUME NEW f \in archive, f.stream = s PROVE ~(n <= f.range.max)
          <6>1. f.range.max \in Nat /\ f.range.max <= loaded[s]
            BY <5>1 DEF ArchiveInv, FilesInv, Bounds
          <6>2. QED
            BY <3>1, <3>3, <6>1
        <5>2. QED
          BY <5>1 DEF FilesOf
      <4>4. QED
        BY <2>1, <2>2, <4>1, <4>2, <4>3 DEF Missing, FilesOf
    <3>4. QED
      BY <3>2, <3>3
  <2>5. QED
    BY <2>1, <2>4 DEF CoveredInv
<1>3. CASE CopyToArchive
  <2>1. /\ pc = "merged" /\ archive' = archive \cup {BatchFile} /\ loaded' = loaded
    BY <1>3, TheFileIsBatch DEF CopyToArchive, ArchiveInv, Loading, tableVars
  <2>2. Current \in Streams
    BY <2>1, CallTypes DEF BaseInv, FlushInv, Flushing, Loading
  <2>3. BatchFile.stream = Current /\ BatchFile.range = archive_data[Current]
    BY DEF BatchFile
  <2>4. /\ archive_data[Current].min \in Nat /\ archive_data[Current].max \in Nat
        /\ archive_data[Current].max = loaded[Current]
        /\ \A f \in archive : f.stream = Current => f.range.max < archive_data[Current].min
    BY <2>1, <2>2 DEF ArchiveInv, MergedInv, BaseInv, TypeOK, Bounds
  <2> DEFINE b == BatchFile
  <2>5. archive' = archive \cup {b} /\ b.stream = Current /\ b.range = archive_data[Current]
    BY <2>1, <2>3
  <2> HIDE DEF b
  <2>6. ASSUME NEW s \in Streams, NEW n \in 1..loaded[s] PROVE Once(s, n)'
    <3>1. n \in Nat /\ loaded[s] \in Nat /\ n <= loaded[s]
      BY Numbers
    <3>2. CASE Once(s, n) /\ ~(s = Current /\ n >= archive_data[Current].min)
      <4>1. FilesOf(s, n)' = FilesOf(s, n)
        BY <2>4, <2>5, <3>1, <3>2 DEF FilesOf
      <4>2. QED
        BY <2>5, <3>2, <4>1 DEF Once
    <3>3. CASE s = Current /\ n >= archive_data[Current].min
      <4>1. ASSUME NEW f \in archive, f.stream = s PROVE ~(n <= f.range.max)
        <5>1. f.range.max \in Nat /\ f.range.max < archive_data[Current].min
          BY <2>4, <3>3, <4>1 DEF ArchiveInv, FilesInv, Bounds
        <5>2. QED
          BY <2>4, <3>1, <3>3, <5>1
      <4>2. b.stream = s /\ b.range.min <= n /\ n <= b.range.max
        BY <2>4, <2>5, <3>1, <3>3
      <4>3. FilesOf(s, n)' = {b}
        BY <2>5, <4>1, <4>2 DEF FilesOf
      <4>4. QED
        BY <2>5, <4>3 DEF Once
    <3>4. Once(s, n) \/ (s = Current /\ n >= archive_data[Current].min)
      BY <2>1 DEF ArchiveInv, CoveredInv, Missing
    <3>5. QED
      BY <3>2, <3>3, <3>4
  <2>7. QED
    BY <2>1, <2>6 DEF CoveredInv
<1>4. CASE Fail
  <2>1. pc # "failed" /\ pc' = "failed" /\ UNCHANGED <<archive, loaded, archive_data>>
    BY <1>4 DEF Fail, tableVars
  <2>2. ASSUME NEW s \in Streams, NEW n \in 1..loaded[s] PROVE Once(s, n)' \/ Missing(s, n)'
    <3>1. Once(s, n) \/ Missing(s, n)
      BY <2>1 DEF ArchiveInv, CoveredInv
    <3>2. QED
      BY <2>1, <3>1 DEF Once, Missing, FilesOf
  <2>3. QED
    BY <2>1, <2>2 DEF CoveredInv
<1>5. CASE UNCHANGED snowflakeVars
  <2>1. UNCHANGED <<pc, flush, archive_data, loaded, archive>>
    BY <1>5 DEF snowflakeVars, tableVars
  <2>2. Current' = Current
    BY <2>1 DEF Current
  <2>3. QED
    BY <2>1, <2>2 DEF ArchiveInv, CoveredInv, Once, Missing, FilesOf
<1>6. QED
  BY <1>1, <1>2, <1>3, <1>4, <1>5
     DEF Next, Schema, RecordMsg, StateMsg, EndOfInput, PutToStage, DeleteFromStage, FinishFlush,
         tableVars

\* What the invariant says of the archive is what the property asks of it.
LEMMA ArchiveIsCovered == BaseInv /\ ArchiveInv => ArchiveCoversWhatIsLoaded
<1> SUFFICES ASSUME BaseInv, ArchiveInv PROVE ArchiveCoversWhatIsLoaded
  OBVIOUS
<1>1. ASSUME NEW s \in Streams, NEW f \in archive, f.stream = s, NEW k \in Keys, f.rows[k] # 0
      PROVE  f.range.min <= f.rows[k] /\ f.rows[k] <= f.range.max
  BY <1>1 DEF ArchiveInv, FilesInv, RowsInRange
<1>2. ASSUME NEW s \in Streams, NEW n \in 1..loaded[s]
      PROVE  \/ Cardinality(FilesOf(s, n)) = 1
             \/ /\ pc \in {"merged", "failed"}
                /\ archive_data[s].min # 0 /\ n >= archive_data[s].min /\ FilesOf(s, n) = {}
  <2>1. CASE Once(s, n)
    <3>1. PICK f \in archive : FilesOf(s, n) = {f}
      BY <2>1 DEF Once
    <3>2. QED
      BY <3>1, FS_Singleton
  <2>2. CASE pc \in {"merged", "failed"} /\ Missing(s, n)
    BY <2>2 DEF Missing
  <2>3. QED
    BY <2>1, <2>2 DEF ArchiveInv, CoveredInv
<1>3. ASSUME NEW s \in Streams, NEW n \in 1..loaded[s]
      PROVE  \/ Cardinality({f \in {g \in archive : g.stream = s} :
                               f.range.min <= n /\ n <= f.range.max}) = 1
             \/ /\ pc \in {"merged", "failed"}
                /\ archive_data[s].min # 0 /\ n >= archive_data[s].min
                /\ {f \in {g \in archive : g.stream = s} :
                       f.range.min <= n /\ n <= f.range.max} = {}
  <2> DEFINE files == {f \in {g \in archive : g.stream = s} : f.range.min <= n /\ n <= f.range.max}
  <2>1. files = FilesOf(s, n)
    BY DEF FilesOf
  <2> HIDE DEF files
  <2>2. \/ Cardinality(files) = 1
        \/ /\ pc \in {"merged", "failed"}
           /\ archive_data[s].min # 0 /\ n >= archive_data[s].min /\ files = {}
    BY <1>2, <2>1
  <2>3. QED
    BY <2>2 DEF files
<1>4. QED
  BY <1>1, <1>3, Zenon DEF ArchiveCoversWhatIsLoaded

\* In every configuration the archive covers what is loaded.
THEOREM ArchiveIsComplete == Spec => []ArchiveCoversWhatIsLoaded
<1>1. Init => BaseInv /\ ArchiveInv
  <2> SUFFICES ASSUME Init PROVE BaseInv /\ ArchiveInv
    OBVIOUS
  <2>1. /\ BaseInv /\ pc = "read" /\ stage = {} /\ archive = {}
        /\ \A s \in Streams : /\ row_count[s] = 0 /\ loaded[s] = 0 /\ archive_data[s] = NoRange
                              /\ records_to_load[s] = Empty
    BY InitBase DEF Init
  <2>2. WaitingInv
    BY <2>1 DEF WaitingInv, Waiting, Empty
  <2>3. StageInv /\ FilesInv /\ MergedInv
    BY <2>1 DEF StageInv, FilesInv, MergedInv, Loading
  <2>4. CoveredInv
    BY <2>1 DEF CoveredInv
  <2>5. QED
    BY <2>1, <2>2, <2>3, <2>4 DEF ArchiveInv
<1>2. BaseInv /\ ArchiveInv /\ [Next]_snowflakeVars => (BaseInv /\ ArchiveInv)'
  BY BasePreserved, WaitingPreserved, StagePreserved, FilesPreserved, MergedPreserved,
     CoveredPreserved DEF ArchiveInv
<1>3. QED
  BY <1>1, <1>2, ArchiveIsCovered, PTL DEF Spec

-----------------------------------------------------------------------------
(* Greatest elements, arrangements and the rows of a table                 *)

\* The taps count rows with the same Cardinality.
LEMMA Counts ==
    /\ \A S : SnowflakeTable!Cardinality(S) = Cardinality(S)
    /\ \A S : MongodbTable!Cardinality(S) = Cardinality(S)
    /\ \A S : MysqlTable!Cardinality(S) = Cardinality(S)
    /\ \A S : PostgresTable!Cardinality(S) = Cardinality(S)
<1>1. \A S : SnowflakeTable!Cardinality(S) = Cardinality(S)
  BY DEF SnowflakeTable!Cardinality, Cardinality
<1>2. \A S : MongodbTable!Cardinality(S) = Cardinality(S)
  BY DEF MongodbTable!Cardinality, Cardinality
<1>3. \A S : MysqlTable!Cardinality(S) = Cardinality(S)
  BY DEF MysqlTable!Cardinality, Cardinality
<1>4. \A S : PostgresTable!Cardinality(S) = Cardinality(S)
  BY DEF PostgresTable!Cardinality, Cardinality
<1>5. QED
  BY <1>1, <1>2, <1>3, <1>4

\* A set of naturals that is not empty has a least element.
LEMMA SmallestExists ==
    ASSUME NEW T, T \subseteq Nat, T # {}
    PROVE  \E x \in T : \A y \in T : x <= y
<1> DEFINE R == OpToRel(<, Nat)
<1>1. IsWellFoundedOn(R, Nat)
  BY NatLessThanWellFounded
<1>2. \A x, y \in Nat : y < x => <<y, x>> \in R
  BY DEF OpToRel
<1> HIDE DEF R
<1>3. PICK x \in T : \A y \in T : ~(<<y, x>> \in R)
  BY <1>1, WFMin
<1>4. ASSUME NEW y \in T PROVE x <= y
  <2>1. x \in Nat /\ y \in Nat /\ ~(y < x)
    BY <1>2, <1>3
  <2>2. QED
    BY <2>1
<1>5. QED
  BY <1>4

\* One that is bounded has a greatest element.
LEMMA LargestExists ==
    ASSUME NEW T, T \subseteq Nat, T # {}, NEW n \in Nat, \A x \in T : x <= n
    PROVE  \E x \in T : \A y \in T : y <= x
<1> DEFINE U == {n - x : x \in T}
<1>0. \A x \in T : n - x \in Nat
  OBVIOUS
<1>1. U \subseteq Nat /\ U # {}
  BY <1>0
<1>2. PICK u \in U : \A y \in U : u <= y
  BY <1>1, SmallestExists
<1>3. PICK x \in T : u = n - x
  OBVIOUS
<1>4. ASSUME NEW y \in T PROVE y <= x
  <2>1. n - y \in U /\ x \in Nat /\ y \in Nat
    OBVIOUS
  <2>2. u <= n - y
    BY <1>2, <2>1
  <2>3. QED
    BY <1>3, <2>1, <2>2
<1>5. QED
  BY <1>4

\* A finite set of naturals that is not empty has a greatest element.
LEMMA FiniteLargest ==
    ASSUME NEW S, S \subseteq Nat, IsFiniteSet(S), S # {}
    PROVE  \E x \in S : \A y \in S : y <= x
<1> DEFINE Top(V) == \E x \in V : \A y \in V : y <= x
           Bad == {V \in SUBSET S : V # {} /\ ~Top(V)}
           C == {Cardinality(V) : V \in Bad}
<1>1. SUFFICES ASSUME S \in Bad PROVE FALSE
  OBVIOUS
<1>2. \A V \in SUBSET S : IsFiniteSet(V) /\ Cardinality(V) \in Nat
  BY FS_Subset, FS_CardinalityType
<1>3. C \subseteq Nat /\ C # {}
  BY <1>1, <1>2
<1>4. PICK c \in C : \A d \in C : c <= d
  <2> HIDE DEF C
  <2>1. QED
    BY <1>3, SmallestExists
<1>5. PICK V \in Bad : c = Cardinality(V)
  OBVIOUS
<1>6. V \subseteq S /\ V # {} /\ ~Top(V)
  OBVIOUS
<1>7. PICK z \in V : TRUE
  BY <1>6
<1> DEFINE W == V \ {z}
<1>8. W \subseteq S /\ z \in Nat
  BY <1>6
<1>9. Cardinality(W) = c - 1
  BY <1>2, <1>5, <1>6, <1>7, FS_RemoveElement
<1>10. Cardinality(W) \in Nat /\ ~(c <= Cardinality(W))
  BY <1>2, <1>8, <1>9
<1>11. W \notin Bad
  BY <1>4, <1>10
<1>12. CASE W = {}
  <2>1. V = {z}
    BY <1>7, <1>12
  <2>2. QED
    BY <1>6, <1>8, <2>1
<1>13. CASE W # {}
  <2>1. PICK x \in W : \A y \in W : y <= x
    BY <1>8, <1>11, <1>13
  <2>2. x \in Nat /\ x \in V /\ \A y \in V : y \in Nat /\ (y = z \/ y <= x)
    BY <1>6, <1>8, <2>1
  <2>3. CASE z <= x
    BY <1>6, <2>2, <2>3
  <2>4. CASE ~(z <= x)
    <3>1. \A y \in V : y <= z
      BY <1>8, <2>2, <2>4
    <3>2. QED
      BY <1>6, <1>7, <3>1
  <2>5. QED
    BY <2>3, <2>4
<1>14. QED
  BY <1>12, <1>13

\* An arrangement of a finite set has every element of it.
LEMMA Arranged ==
    ASSUME NEW R, IsFiniteSet(R), NEW q \in [1..Cardinality(R) -> R],
           \A i, j \in DOMAIN q : i # j => q[i] # q[j]
    PROVE  /\ q \in Seq(R) /\ Len(q) = Cardinality(R)
           /\ \A r \in R : \E i \in 1..Len(q) : q[i] = r
<1> DEFINE n == Cardinality(R)
<1>1. n \in Nat
  BY FS_CardinalityType
<1>2. IsFiniteSet(1..n) /\ Cardinality(1..n) = n
  BY <1>1, FS_Interval
<1>3. q \in Injection(1..n, R)
  BY DEF Injection, IsInjective
<1>4. q \in Surjection(1..n, R)
  BY <1>2, <1>3, FS_Injection
<1>5. q \in Seq(R) /\ Len(q) = n
  BY <1>1
<1>6. \A r \in R : \E i \in 1..n : q[i] = r
  BY <1>4 DEF Surjection
<1>7. QED
  BY <1>5, <1>6

\* The changes of a table, and the rows it has after them: the last change of
\* each key.
Versions    == [key : Nat, ver : Nat, rk : Nat]
LastOf(H)   == {c \in H : \A d \in {e \in H : e.key = c.key} : d.ver <= c.ver}

\* Every change has a row that is not older.
LEMMA LastExists ==
    ASSUME NEW H, H \subseteq Versions, NEW n \in Nat, \A c \in H : c.ver <= n, NEW c \in H
    PROVE  \E r \in LastOf(H) : r.key = c.key /\ c.ver <= r.ver
<1> DEFINE C == {d \in H : d.key = c.key}
           V == {d.ver : d \in C}
<1>1. \A d \in H : d.ver \in Nat
  BY DEF Versions
<1>2. V \subseteq Nat /\ V # {} /\ \A x \in V : x <= n
  BY <1>1
<1>3. PICK x \in V : \A y \in V : y <= x
  <2> HIDE DEF V
  <2>1. QED
    BY <1>2, LargestExists
<1>4. PICK r \in C : x = r.ver
  OBVIOUS
<1>5. \A d \in C : d.ver <= r.ver
  BY <1>3, <1>4
<1>6. r \in LastOf(H)
  BY <1>4, <1>5 DEF LastOf
<1>7. QED
  BY <1>4, <1>5, <1>6

\* The changes of one transaction: the version v, at the time t.
Changed(K, v, t) == {[key |-> k, ver |-> v, rk |-> t] : k \in K}

\* After a change the rows are those of the transaction and the others as they
\* were.
LEMMA LastChange ==
    ASSUME NEW H, H \subseteq Versions, NEW n \in Nat, \A c \in H : c.ver <= n,
           NEW t \in Nat, NEW K, K \subseteq Nat
    PROVE  /\ H \cup Changed(K, n + 1, t) \subseteq Versions
           /\ \A r \in LastOf(H \cup Changed(K, n + 1, t)) : r \in Changed(K, n + 1, t) \/ r \in LastOf(H)
           /\ \A c \in Changed(K, n + 1, t) : c.rk = t /\ c.ver = n + 1 /\ c.key \in K
<1> DEFINE N == Changed(K, n + 1, t)
<1>1. N \subseteq Versions /\ \A c \in N : c.rk = t /\ c.ver = n + 1 /\ c.key \in K
  BY DEF Versions, Changed
<1>2. ASSUME NEW r \in LastOf(H \cup N), r \notin N PROVE r \in LastOf(H)
  BY <1>2 DEF LastOf
<1>3. QED
  BY <1>1, <1>2

\* A transaction of a table changes finitely many rows.
LEMMA FiniteChange ==
    ASSUME NEW H, IsFiniteSet(H), NEW m \in Nat, NEW K \in SUBSET (1..m), NEW v, NEW t
    PROVE  IsFiniteSet(H \cup Changed(K, v, t))
<1> DEFINE F(k) == [key |-> k, ver |-> v, rk |-> t]
           f == [k \in K |-> F(k)]
           N == {F(k) : k \in K}
<1>0. N = Changed(K, v, t)
  BY DEF Changed
<1>1. IsFiniteSet(1..m)
  BY FS_Interval
<1>2. IsFiniteSet(K)
  BY <1>1, FS_Subset
<1>3. f \in Surjection(K, N)
  BY DEF Surjection
<1>4. IsFiniteSet(N)
  BY <1>2, <1>3, FS_Surjection
<1>5. QED
  BY <1>0, <1>4, FS_Union

-----------------------------------------------------------------------------
(* tap-kafka: messages of partitions, polled and committed                 *)

KafkaOffsets == Nat \cup {Kafka!None}

\* Types of the state of tap-kafka.
KafkaTypeOK ==
    /\ produced \in [Partitions -> Nat]
    /\ committed \in [Partitions -> Int]
    /\ begun \in [Partitions -> KafkaOffsets]
    /\ tap_state \in [Partitions -> KafkaOffsets]
    /\ saved \in [Partitions -> KafkaOffsets]
    /\ position \in [Partitions -> Nat]
    /\ tap_loaded \subseteq tap_emitted

\* What a partition is read from, from a fixed place or where it began.
KafkaBegun ==
    \A p \in Partitions : begun[p] # Kafka!None =>
        CASE initial_start_time = "beginning" -> begun[p] = 0
          [] initial_start_time = "timestamp" -> begun[p] <= Older
          [] OTHER -> TRUE

\* The messages from there up to the saved bookmark are loaded, and those up
\* to the position of the consumer are written.
KafkaRead ==
    \A p \in Partitions :
        /\ saved[p] # Kafka!None => /\ begun[p] # Kafka!None
                                    /\ \A o \in Nat : begun[p] <= o /\ o < saved[p] => <<p, o>> \in tap_loaded
        /\ tap_pc # "idle" =>
              /\ begun[p] # Kafka!None
              /\ tap_state[p] # Kafka!None => tap_state[p] <= position[p]
              /\ \A o \in Nat : begun[p] <= o /\ o < position[p] => <<p, o>> \in tap_emitted
        /\ tap_pc = "idle" => tap_state = saved

\* The invariant of tap-kafka, besides the choice of initial_start_time.
KafkaState == KafkaTypeOK /\ KafkaBegun /\ KafkaRead

\* Before the first message there is nothing to read.
LEMMA KafkaStateInit == Kafka!Init => KafkaState
BY DEF Kafka!Init, KafkaState, KafkaTypeOK, KafkaBegun, KafkaRead, Kafka!None, KafkaOffsets

\* A partition without a bookmark is read from the offset that initial_start_time says.
LEMMA KafkaOffset ==
    ASSUME KafkaTypeOK, Older \in Nat, NEW p \in Partitions,
           initial_start_time \in {"beginning", "earliest", "latest", "timestamp"}
    PROVE  /\ Kafka!InitialOffset(p) \in Nat
           /\ initial_start_time = "beginning" => Kafka!InitialOffset(p) = 0
           /\ initial_start_time = "timestamp" => Kafka!InitialOffset(p) <= Older
<1>1. produced[p] \in Nat /\ committed[p] \in Int
  BY DEF KafkaTypeOK
<1>2. QED
  BY <1>1 DEF Kafka!InitialOffset, Kafka!OffsetForTime, Kafka!EndIfNone, Kafka!Larger, Kafka!None

\* The choices of initial_start_time.
KafkaStarts == initial_start_time \in {"beginning", "earliest", "latest", "timestamp"}

\* The end of a run.
LEMMA KafkaExit ==
    ASSUME KafkaState, Kafka!Exit, UNCHANGED <<produced, begun, initial_start_time>>,
           committed' \in [Partitions -> Int], saved' \in [Partitions -> KafkaOffsets],
           tap_loaded' \subseteq tap_emitted', tap_loaded \subseteq tap_loaded',
           \/ saved' = saved 
           \/ saved' = tap_state /\ tap_loaded' = tap_emitted' /\ tap_emitted \subseteq tap_emitted' /\ tap_pc # "idle"
    PROVE  KafkaState'
<1>1. KafkaTypeOK'
  BY DEF KafkaState, KafkaTypeOK, Kafka!Exit, KafkaOffsets
<1>2. KafkaBegun'
  BY DEF KafkaState, KafkaBegun
<1>3. CASE saved' = saved
  BY <1>1, <1>2, <1>3 DEF KafkaState, KafkaRead, Kafka!Exit
<1>4. CASE saved' = tap_state /\ tap_loaded' = tap_emitted' /\ tap_emitted \subseteq tap_emitted' /\ tap_pc # "idle"
  <2>1. ASSUME NEW p \in Partitions, tap_state[p] # Kafka!None
        PROVE  begun[p] # Kafka!None /\ \A o \in Nat : begun[p] <= o /\ o < tap_state[p] => <<p, o>> \in tap_emitted
    <3>1. /\ begun[p] # Kafka!None /\ tap_state[p] <= position[p]
          /\ \A o \in Nat : begun[p] <= o /\ o < position[p] => <<p, o>> \in tap_emitted
      BY <1>4, <2>1 DEF KafkaState, KafkaRead
    <3>2. tap_state[p] \in Nat /\ position[p] \in Nat
      BY <2>1 DEF KafkaState, KafkaTypeOK, KafkaOffsets
    <3>3. QED
      BY <3>1, <3>2
  <2>2. KafkaRead'
    BY <1>4, <2>1 DEF KafkaRead, Kafka!Exit
  <2>3. QED
    BY <1>1, <1>2, <2>2 DEF KafkaState
<1>5. QED
  BY <1>3, <1>4

\* Messages, polls, commits, the end of a run and a death keep it.
LEMMA KafkaStateStep ==
    ASSUME Older \in Nat, KafkaStarts, KafkaState, [Kafka!Next]_(Kafka!kafkaVars)
    PROVE  KafkaState'
<1> USE DEF KafkaState
<1>1. ASSUME NEW p \in Partitions, Kafka!Produce(p) PROVE KafkaState'
  <2>1. KafkaTypeOK'
    BY <1>1 DEF Kafka!Produce, KafkaTypeOK, Kafka!pipe
  <2>2. QED
    BY <1>1, <2>1 DEF Kafka!Produce, KafkaBegun, KafkaRead, Kafka!pipe
<1>2. CASE Kafka!Assign
  <2>1. \A p \in Partitions : /\ Kafka!InitialOffset(p) \in Nat
                              /\ initial_start_time = "beginning" => Kafka!InitialOffset(p) = 0
                              /\ initial_start_time = "timestamp" => Kafka!InitialOffset(p) <= Older
    BY KafkaOffset DEF KafkaStarts
  <2>2. /\ position' = [p \in Partitions |-> Kafka!StartOffset(saved, p)]
        /\ begun' = [p \in Partitions |-> IF saved[p] = Kafka!None THEN position'[p] ELSE begun[p]]
        /\ committed' = IF \A p \in Partitions : position'[p] >= 1
                    THEN [p \in Partitions |-> position'[p] - 1] ELSE committed
        /\ tap_state' = saved /\ tap_pc' = "polling" /\ tap_pc = "idle"
        /\ UNCHANGED <<produced, initial_start_time, tap_emitted, tap_loaded, saved>>
    BY <1>2 DEF Kafka!Assign, Kafka!pipe
  <2>3. \A p \in Partitions : /\ Kafka!StartOffset(saved, p) \in Nat
                              /\ saved[p] # Kafka!None => Kafka!StartOffset(saved, p) = saved[p]
                              /\ saved[p] = Kafka!None => Kafka!StartOffset(saved, p) = Kafka!InitialOffset(p)
    BY <2>1 DEF Kafka!StartOffset, KafkaTypeOK, KafkaOffsets
  <2>4. position' \in [Partitions -> Nat] /\ begun' \in [Partitions -> KafkaOffsets]
    BY <2>2, <2>3 DEF KafkaTypeOK, KafkaOffsets
  <2>5. committed' \in [Partitions -> Int]
    BY <2>2, <2>4 DEF KafkaTypeOK
  <2>6. KafkaTypeOK'
    BY <2>2, <2>4, <2>5 DEF KafkaTypeOK
  <2>7. KafkaBegun'
    BY <2>1, <2>2, <2>3 DEF KafkaBegun
  <2>8. ASSUME NEW p \in Partitions
        PROVE  /\ begun'[p] # Kafka!None /\ (saved[p] # Kafka!None => saved[p] <= position'[p])
               /\ saved[p] # Kafka!None => \A o \in Nat : begun'[p] <= o /\ o < saved[p] => <<p, o>> \in tap_loaded
               /\ \A o \in Nat : begun'[p] <= o /\ o < position'[p] => <<p, o>> \in tap_emitted
    <3>1. CASE saved[p] = Kafka!None
      <4>1. begun'[p] = position'[p] /\ position'[p] \in Nat
        BY <2>2, <2>4, <3>1
      <4>2. QED
        BY <3>1, <4>1 DEF Kafka!None
    <3>2. CASE saved[p] # Kafka!None
      <4>1. begun'[p] = begun[p] /\ position'[p] = saved[p] /\ saved[p] \in Nat
        BY <2>2, <2>3, <3>2 DEF KafkaTypeOK, KafkaOffsets
      <4>2. begun[p] # Kafka!None /\ \A o \in Nat : begun[p] <= o /\ o < saved[p] => <<p, o>> \in tap_loaded
        BY <3>2 DEF KafkaRead
      <4>3. QED
        BY <4>1, <4>2 DEF KafkaTypeOK
    <3>3. QED
      BY <3>1, <3>2
  <2>9. KafkaRead'
    BY <2>2, <2>8 DEF KafkaRead
  <2>10. QED
    BY <2>6, <2>7, <2>9
<1>3. ASSUME NEW p \in Partitions, Kafka!Poll(p) PROVE KafkaState'
  <2>1. /\ tap_pc = "polling" /\ tap_pc' \in {"polling", "closing"} /\ message' = <<p, position[p]>>
        /\ position' = [position EXCEPT ![p] = @ + 1]
        /\ tap_state' = [tap_state EXCEPT ![p] = position[p]]
        /\ tap_emitted' = tap_emitted \cup {<<p, position[p]>>}
        /\ UNCHANGED <<produced, initial_start_time, begun>>
    BY <1>3 DEF Kafka!Poll, Kafka!Records, Kafka!RecordsAndState
  <2>2. \/ tap_loaded' = tap_emitted' /\ saved' = tap_state'
        \/ UNCHANGED <<tap_loaded, saved>>
    BY <1>3 DEF Kafka!Poll, Kafka!Records, Kafka!RecordsAndState
  <2>3. committed' \in [Partitions -> Int]
    <3>1. tap_state' \in [Partitions -> Int]
      BY <2>1 DEF KafkaTypeOK, KafkaOffsets, Kafka!None
    <3>2. Kafka!Commit(tap_state') \/ UNCHANGED committed
      BY <1>3 DEF Kafka!Poll
    <3>3. CASE Kafka!Commit(tap_state')
      <4>1. \A q \in Partitions : committed[q] \in Int /\ tap_state'[q] \in Int
        BY <3>1 DEF KafkaTypeOK
      <4>2. QED
        BY <3>3, <4>1 DEF Kafka!Commit
    <3>4. QED
      BY <3>2, <3>3 DEF KafkaTypeOK
  <2>0. /\ tap_state' \in [Partitions -> KafkaOffsets] /\ position' \in [Partitions -> Nat]
        /\ produced' \in [Partitions -> Nat] /\ begun' \in [Partitions -> KafkaOffsets]
    BY <2>1 DEF KafkaTypeOK, KafkaOffsets
  <2>4. KafkaTypeOK'
    BY <2>0, <2>1, <2>2, <2>3 DEF KafkaTypeOK
  <2>5. ASSUME NEW q \in Partitions
        PROVE  /\ begun[q] # Kafka!None
               /\ tap_state'[q] # Kafka!None => tap_state'[q] <= position'[q]
               /\ \A o \in Nat : begun[q] <= o /\ o < position'[q] => <<q, o>> \in tap_emitted'
    <3>1. /\ begun[q] # Kafka!None /\ (tap_state[q] # Kafka!None => tap_state[q] <= position[q])
          /\ \A o \in Nat : begun[q] <= o /\ o < position[q] => <<q, o>> \in tap_emitted
      BY <2>1 DEF KafkaRead
    <3>2. CASE q = p
      <4>1. position[p] \in Nat /\ position'[p] = position[p] + 1 /\ tap_state'[p] = position[p]
        BY <2>1 DEF KafkaTypeOK
      <4>2. \A o \in Nat : o < position'[p] => o < position[p] \/ o = position[p]
        BY <4>1
      <4>3. QED
        BY <2>1, <3>1, <3>2, <4>1, <4>2
    <3>3. CASE q # p
      <4>1. position'[q] = position[q] /\ tap_state'[q] = tap_state[q]
        BY <2>1, <3>3 DEF KafkaTypeOK
      <4>2. QED
        BY <2>1, <3>1, <4>1
    <3>4. QED
      BY <3>2, <3>3
  <2>6. ASSUME NEW q \in Partitions, saved'[q] # Kafka!None
        PROVE  \A o \in Nat : begun[q] <= o /\ o < saved'[q] => <<q, o>> \in tap_loaded'
    <3>1. CASE tap_loaded' = tap_emitted' /\ saved' = tap_state'
      <4>1. tap_state'[q] \in Nat /\ position'[q] \in Nat /\ tap_state'[q] <= position'[q]
        BY <2>4, <2>5, <2>6, <3>1 DEF KafkaTypeOK, KafkaOffsets
      <4>2. QED
        BY <2>5, <3>1, <4>1
    <3>2. CASE UNCHANGED <<tap_loaded, saved>>
      BY <2>6, <3>2 DEF KafkaRead
    <3>3. QED
      BY <2>2, <3>1, <3>2
  <2>7. KafkaRead'
    BY <2>1, <2>5, <2>6 DEF KafkaRead
  <2>8. KafkaBegun'
    BY <2>1 DEF KafkaBegun
  <2>9. QED
    BY <2>4, <2>7, <2>8
<1>4. CASE Kafka!StopPolling
  <2>1. KafkaTypeOK' /\ KafkaBegun'
    BY <1>4 DEF Kafka!StopPolling, KafkaTypeOK, KafkaBegun, Kafka!pipe
  <2>2. QED
    BY <1>4, <2>1 DEF Kafka!StopPolling, KafkaRead, Kafka!pipe
<1>5. CASE Kafka!Close
  <2>1. tap_pc = "closing" /\ Kafka!Exit /\ UNCHANGED <<produced, begun, initial_start_time>>
    BY <1>5 DEF Kafka!Close
  <2>2. committed' \in [Partitions -> Int]
    BY <1>5 DEF Kafka!Close, Kafka!Commit, KafkaTypeOK, KafkaOffsets, Kafka!None
  <2>3. \/ UNCHANGED <<tap_emitted, tap_loaded, saved>>
        \/ saved' = tap_state /\ tap_loaded' = tap_emitted' /\ tap_emitted' = tap_emitted \cup {}
    BY <1>5 DEF Kafka!Close, Kafka!RecordsAndLastState, Kafka!pipe
  <2>4. QED
    BY <2>1, <2>2, <2>3, KafkaExit DEF KafkaTypeOK
<1>6. CASE Kafka!Die
  <2>1. Kafka!Exit /\ UNCHANGED <<produced, begun, initial_start_time, tap_loaded, saved, committed>> /\ tap_emitted' = tap_loaded
    BY <1>6 DEF Kafka!Die, Kafka!Lost
  <2>2. QED
    BY <2>1, KafkaExit DEF KafkaTypeOK
<1>7. CASE UNCHANGED Kafka!kafkaVars
  <2>1. KafkaTypeOK' /\ KafkaBegun'
    BY <1>7 DEF Kafka!kafkaVars, KafkaTypeOK, KafkaBegun, Kafka!pipe
  <2>2. QED
    BY <1>7, <2>1 DEF Kafka!kafkaVars, KafkaRead, Kafka!pipe
<1>8. QED
  BY <1>1, <1>2, <1>3, <1>4, <1>5, <1>6, <1>7 DEF Kafka!Next

\* What is behind the saved bookmark was read from where the partition began.
LEMMA KafkaImplies ==
    ASSUME Older \in Nat, KafkaStarts, KafkaState PROVE Kafka!KafkaBookmarksSkipNothing
<1> SUFFICES ASSUME NEW p \in Partitions,
                    saved[p] # Kafka!None \/ initial_start_time \in {"beginning", "timestamp"},
                    begun[p] # Kafka!None,
                    NEW o \in Kafka!First(p)..(produced[p] - 1),
                    o < Kafka!StartOffset(saved, p)
             PROVE  <<p, o>> \in tap_loaded
  BY DEF Kafka!KafkaBookmarksSkipNothing, Kafka!SkippedMessages
<1>1. /\ begun[p] \in Nat /\ produced[p] \in Nat /\ saved[p] \in KafkaOffsets
  BY DEF KafkaState, KafkaTypeOK, KafkaOffsets
<1>2. Kafka!First(p) \in Nat /\ begun[p] <= Kafka!First(p)
  BY <1>1 DEF KafkaState, KafkaBegun, Kafka!First
<1>3. o \in Nat /\ Kafka!First(p) <= o
  BY <1>1, <1>2
<1>4. CASE saved[p] # Kafka!None
  <2>1. Kafka!StartOffset(saved, p) = saved[p] /\ saved[p] \in Nat
    BY <1>1, <1>4 DEF Kafka!StartOffset, KafkaOffsets
  <2>2. begun[p] <= o
    BY <1>1, <1>2, <1>3
  <2>3. QED
    BY <1>3, <1>4, <2>1, <2>2 DEF KafkaState, KafkaRead
<1>5. CASE saved[p] = Kafka!None
  <2>1. Kafka!StartOffset(saved, p) = Kafka!InitialOffset(p) /\ Kafka!InitialOffset(p) \in Nat
    BY <1>5, KafkaOffset DEF Kafka!StartOffset, KafkaState, KafkaStarts
  <2>2. Kafka!InitialOffset(p) <= Kafka!First(p)
    BY <1>1, <1>5, KafkaOffset DEF KafkaState, KafkaStarts, Kafka!First
  <2>3. QED
    BY <1>2, <1>3, <2>1, <2>2
<1>6. QED
  BY <1>4, <1>5

\* And so do the initial offsets of a tap.
LEMMA KafkaInit == Kafka!Init => KafkaStarts /\ KafkaState
BY KafkaStateInit DEF Kafka!Init, KafkaStarts

\* Every step of the tap keeps both.
LEMMA KafkaStep == Older \in Nat /\ KafkaStarts /\ KafkaState /\ [Kafka!Next]_(Kafka!kafkaVars) => (KafkaStarts /\ KafkaState)'
<1>1. KafkaStarts /\ [Kafka!Next]_(Kafka!kafkaVars) => KafkaStarts'
  BY DEF KafkaStarts, Kafka!Next, Kafka!kafkaVars, Kafka!Produce, Kafka!Poll, Kafka!Assign, Kafka!StopPolling, Kafka!Close, Kafka!Die
<1>2. QED
  BY <1>1, KafkaStateStep

-----------------------------------------------------------------------------
(* tap-snowflake: tables read by key value or in full                      *)

SnBookmarks == [replication_key : BOOLEAN, rk_value : Nat]

\* Types of the state of tap-snowflake.
SnTypeOK ==
    /\ history \subseteq Versions /\ IsFiniteSet(history)
    /\ clock \in Nat /\ time \in Nat
    /\ method \in {"FULL_TABLE", "INCREMENTAL"}
    /\ tap_pc \in {"idle", "query", "fetch", "end"}
    /\ tap_state \in SnBookmarks /\ saved \in SnBookmarks
    /\ result \in Seq(Versions)
    /\ tap_loaded \subseteq tap_emitted

\* No change or key value is in the future.
SnPast ==
    /\ \A c \in history : c.ver <= clock /\ c.rk <= time
    /\ saved.rk_value <= time /\ tap_state.rk_value <= time
    /\ \A i \in 1..Len(result) : result[i].rk <= time

\* A SELECT from the bookmark st returns the row.
SnAhead(st, r) == st.replication_key => SnowflakeTable!FromKeyValue(st, r)

\* What the saved bookmark does not select is loaded.
SnSaved == \A r \in SnowflakeTable!Rows : r \in tap_loaded \/ SnAhead(saved, r)

\* What the bookmark in memory does not select is written.
SnRead == tap_pc # "idle" => \A r \in SnowflakeTable!Rows : r \in tap_emitted \/ SnAhead(tap_state, r)

\* The rows come in the order of their key; one that is not among them changed
\* since.
SnFetch ==
    tap_pc = "fetch" /\ method = "INCREMENTAL" =>
        /\ \A i \in 1..Len(result) : tap_state.rk_value <= result[i].rk
        /\ \A i, j \in 1..Len(result) : i < j => result[i].rk <= result[j].rk
        /\ \A r \in SnowflakeTable!Rows : \/ r \in tap_emitted
                                          \/ \E i \in 1..Len(result) : result[i] = r
                                          \/ \A i \in 1..Len(result) : result[i].rk <= r.rk

\* The invariant of tap-snowflake.
SnInv == SnTypeOK /\ SnPast /\ SnSaved /\ SnRead /\ SnFetch

\* The rows of the table are the last versions of its keys.
LEMMA SnRows == SnowflakeTable!Rows = LastOf(history) /\ SnowflakeTable!Rows \subseteq history
BY DEF SnowflakeTable!Rows, SnowflakeTable!VersionsOf, LastOf

\* An empty table has no row to skip.
LEMMA SnInit == SnowflakeTable!Init => SnInv
<1> SUFFICES ASSUME SnowflakeTable!Init PROVE SnInv
  OBVIOUS
<1>1. /\ history = {} /\ clock = 0 /\ time = 1 /\ tap_pc = "idle" /\ result = << >>
      /\ tap_state = SnowflakeTable!EmptyState /\ saved = SnowflakeTable!EmptyState /\ tap_emitted = {} /\ tap_loaded = {}
      /\ method \in {"FULL_TABLE", "INCREMENTAL"}
  BY DEF SnowflakeTable!Init, SnowflakeTable!TableInit
<1>2. SnowflakeTable!EmptyState \in SnBookmarks /\ SnowflakeTable!EmptyState.rk_value = 0
  BY DEF SnowflakeTable!EmptyState, SnBookmarks
<1>3. IsFiniteSet(history) /\ SnowflakeTable!Rows = {}
  BY <1>1, SnRows, FS_EmptySet
<1>4. result \in Seq(Versions) /\ Len(result) = 0
  BY <1>1
<1>5. QED
  BY <1>1, <1>2, <1>3, <1>4 DEF SnInv, SnTypeOK, SnPast, SnSaved, SnRead, SnFetch

\* A SELECT ... ORDER BY returns every row once, in order.
LEMMA SnSorted ==
    ASSUME NEW R, R \subseteq SnowflakeTable!Rows, SnTypeOK, NEW rows \in SnowflakeTable!Ordered(R, SnowflakeTable!ByRk)
    PROVE  /\ rows \in Seq(Versions)
           /\ \A i \in 1..Len(rows) : rows[i] \in R
           /\ \A i, j \in 1..Len(rows) : i < j => rows[i].rk <= rows[j].rk
           /\ \A r \in R : \E i \in 1..Len(rows) : rows[i] = r
<1>1. R \subseteq Versions /\ IsFiniteSet(R)
  BY SnRows, FS_Subset DEF SnTypeOK
<1>2. /\ rows \in [1..Cardinality(R) -> R]
      /\ \A i, j \in DOMAIN rows : i # j => rows[i] # rows[j]
      /\ \A i, j \in DOMAIN rows : i < j => rows[i].rk <= rows[j].rk
  BY Counts DEF SnowflakeTable!Ordered, SnowflakeTable!ByRk
<1>3. /\ rows \in Seq(R) /\ Len(rows) = Cardinality(R)
      /\ \A r \in R : \E i \in 1..Len(rows) : rows[i] = r
  BY <1>1, <1>2, Arranged
<1>4. QED
  BY <1>1, <1>2, <1>3

\* Changes of the table, the SELECT, its rows, the end of a run and a death keep it.
LEMMA SnStep == SnInv /\ [SnowflakeTable!Next]_(SnowflakeTable!tableTapVars) => SnInv'
<1> SUFFICES ASSUME SnInv, [SnowflakeTable!Next]_(SnowflakeTable!tableTapVars) PROVE SnInv'
  OBVIOUS
<1> USE DEF SnInv
<1>1. ASSUME NEW K \in SnowflakeTable!Batches, SnowflakeTable!Change(K) PROVE SnInv'
  <2> DEFINE N == Changed(K, clock + 1, time)
  <2>1. /\ clock' = clock + 1 /\ history' = history \cup N
        /\ UNCHANGED <<time, method, tap_pc, tap_state, saved, result, tap_loaded, tap_emitted>>
    BY <1>1 DEF SnowflakeTable!Change, SnowflakeTable!pipe, Changed
  <2>2. K \in SUBSET (1..MaxKey)
    BY DEF SnowflakeTable!Batches, SnowflakeTable!PrimaryKeys
  <2>3. IsFiniteSet(history')
    <3>1. IsFiniteSet(history) /\ MaxKey \in Nat
      BY DatabasesAssumption DEF SnTypeOK
    <3>2. QED
      BY <2>1, <2>2, <3>1, FiniteChange
  <2>4. K \subseteq Nat
    BY <2>2
  <2>5. /\ history' \subseteq Versions
        /\ \A r \in SnowflakeTable!Rows' : r \in N \/ r \in SnowflakeTable!Rows
        /\ \A c \in N : c.rk = time /\ c.ver = clock + 1
    <3>1. history \subseteq Versions /\ clock \in Nat /\ time \in Nat /\ \A c \in history : c.ver <= clock
      BY DEF SnTypeOK, SnPast
    <3>2. SnowflakeTable!Rows' = LastOf(history \cup N)
      BY <2>1 DEF SnowflakeTable!Rows, SnowflakeTable!VersionsOf, LastOf
    <3>3. N \subseteq Versions /\ \A c \in N : c.rk = time /\ c.ver = clock + 1
      <4>1. clock + 1 \in Nat
        BY <3>1
      <4>2. \A v \in Nat : Changed(K, v, time) \subseteq Versions
        BY <2>4, <3>1 DEF Versions, Changed
      <4>3. \A v : \A c \in Changed(K, v, time) : c.rk = time /\ c.ver = v
        BY DEF Changed
      <4>4. QED
        BY <4>1, <4>2, <4>3
    <3> HIDE DEF N
    <3>4. \A r \in LastOf(history \cup N) : r \in N \/ r \in LastOf(history)
      BY DEF LastOf
    <3>5. QED
      BY <2>1, <3>1, <3>2, <3>3, <3>4, SnRows
  <2> HIDE DEF N
  <2>6. SnTypeOK'
    BY <2>1, <2>3, <2>5 DEF SnTypeOK
  <2>7. SnPast'
    BY <2>1, <2>5 DEF SnTypeOK, SnPast, Versions
  <2>8. \A r \in N : SnAhead(saved, r) /\ SnAhead(tap_state, r)
    BY <2>5 DEF SnAhead, SnowflakeTable!FromKeyValue, SnPast
  <2>9. SnSaved' /\ SnRead'
    BY <2>1, <2>5, <2>8 DEF SnSaved, SnRead, SnAhead, SnowflakeTable!FromKeyValue
  <2>10. SnFetch'
    BY <2>1, <2>5 DEF SnFetch, SnPast
  <2>11. QED
    BY <2>6, <2>7, <2>9, <2>10
<1>2. ASSUME NEW m \in SnowflakeTable!Methods, SnowflakeTable!Configure(m) PROVE SnInv'
  <2>1. /\ tap_pc = "idle" /\ method' \in {"FULL_TABLE", "INCREMENTAL"}
        /\ UNCHANGED <<history, clock, time, tap_pc, tap_state, saved, result, tap_loaded, tap_emitted>>
    BY <1>2 DEF SnowflakeTable!Configure, SnowflakeTable!SwitchMethod, SnowflakeTable!Methods, SnowflakeTable!pipe
  <2>2. QED
    BY <2>1 DEF SnTypeOK, SnPast, SnSaved, SnRead, SnFetch, SnAhead, SnowflakeTable!FromKeyValue, SnowflakeTable!Rows, SnowflakeTable!VersionsOf
<1>3. CASE SnowflakeTable!Tick
  <2>1. time' = time + 1 /\ UNCHANGED <<history, clock, method, tap_pc, tap_state, saved, result, tap_loaded, tap_emitted>>
    BY <1>3 DEF SnowflakeTable!Tick, SnowflakeTable!pipe
  <2>2. SnowflakeTable!Rows' = SnowflakeTable!Rows
    BY <2>1 DEF SnowflakeTable!Rows, SnowflakeTable!VersionsOf
  <2>3. SnTypeOK' /\ SnSaved' /\ SnRead' /\ SnFetch'
    BY <2>1, <2>2 DEF SnTypeOK, SnSaved, SnRead, SnFetch, SnAhead, SnowflakeTable!FromKeyValue
  <2>4. SnPast'
    <3>1. /\ \A c \in history : c.ver \in Nat /\ c.rk \in Nat
          /\ saved.rk_value \in Nat /\ tap_state.rk_value \in Nat /\ time \in Nat
      BY DEF SnTypeOK, SnBookmarks, Versions
    <3>2. \A i \in 1..Len(result) : result[i].rk \in Nat
      <4>1. \A i \in 1..Len(result) : result[i] \in Versions
        BY DEF SnTypeOK
      <4>2. QED
        BY <4>1 DEF Versions
    <3>3. QED
      BY <2>1, <3>1, <3>2 DEF SnPast
  <2>5. QED
    BY <2>3, <2>4
<1>4. CASE SnowflakeTable!Start
  <2>1. /\ tap_pc = "idle" /\ tap_pc' = "query" /\ tap_state' = saved /\ saved' = saved
        /\ tap_emitted' = tap_emitted /\ tap_loaded' \in {tap_loaded, tap_emitted}
        /\ UNCHANGED <<history, clock, time, method, result>>
    BY <1>4 DEF SnowflakeTable!Start, SnowflakeTable!RecordsAndState, SnowflakeTable!table
  <2>2. SnowflakeTable!Rows' = SnowflakeTable!Rows
    BY <2>1 DEF SnowflakeTable!Rows, SnowflakeTable!VersionsOf
  <2>3. SnTypeOK' /\ SnPast' /\ SnFetch'
    BY <2>1 DEF SnTypeOK, SnPast, SnFetch
  <2>4. SnSaved' /\ SnRead'
    BY <2>1, <2>2 DEF SnTypeOK, SnSaved, SnRead, SnAhead, SnowflakeTable!FromKeyValue
  <2>5. QED
    BY <2>3, <2>4
<1>5. ASSUME NEW st \in SnBookmarks, st.rk_value <= time, NEW rows \in Seq(Versions),
             \A i \in 1..Len(rows) : rows[i] \in SnowflakeTable!Rows,
             SnowflakeTable!Execute(st, rows, FALSE), UNCHANGED SnowflakeTable!pipe,
             \A r \in SnowflakeTable!Rows : r \in tap_emitted \/ SnAhead(st, r),
             method = "INCREMENTAL" =>
                 /\ \A i \in 1..Len(rows) : st.rk_value <= rows[i].rk
                 /\ \A i, j \in 1..Len(rows) : i < j => rows[i].rk <= rows[j].rk
                 /\ \A r \in SnowflakeTable!Rows : r \in tap_emitted \/ \E i \in 1..Len(rows) : rows[i] = r
      PROVE  SnInv'
  <2>1. /\ tap_pc' = "fetch" /\ tap_state' = st /\ result' = rows
        /\ UNCHANGED <<history, clock, time, method, saved, tap_loaded, tap_emitted>>
    BY <1>5 DEF SnowflakeTable!Execute, SnowflakeTable!table, SnowflakeTable!pipe
  <2>2. SnowflakeTable!Rows' = SnowflakeTable!Rows /\ SnowflakeTable!Rows \subseteq history
    BY <2>1, SnRows DEF SnowflakeTable!Rows, SnowflakeTable!VersionsOf
  <2>3. SnTypeOK' /\ SnPast'
    BY <1>5, <2>1, <2>2 DEF SnTypeOK, SnPast
  <2>4. SnSaved' /\ SnRead'
    BY <1>5, <2>1, <2>2 DEF SnSaved, SnRead, SnAhead, SnowflakeTable!FromKeyValue
  <2>5. SnFetch'
    BY <1>5, <2>1, <2>2 DEF SnFetch
  <2>6. QED
    BY <2>3, <2>4, <2>5
<1>6. CASE SnowflakeTable!QueryTable
  <2>1. PICK rows \in SnowflakeTable!Ordered(SnowflakeTable!Rows, SnowflakeTable!Anyhow) :
            SnowflakeTable!Execute(SnowflakeTable!whitelist_bookmark_keys(tap_state), rows, FALSE) /\ method = "FULL_TABLE"
    BY <1>6 DEF SnowflakeTable!QueryTable
  <2>2. SnowflakeTable!whitelist_bookmark_keys(tap_state) = SnowflakeTable!EmptyState
    BY <2>1 DEF SnowflakeTable!whitelist_bookmark_keys
  <2>3. SnowflakeTable!EmptyState \in SnBookmarks /\ SnowflakeTable!EmptyState.rk_value = 0 /\ SnowflakeTable!EmptyState.replication_key = FALSE
    BY DEF SnowflakeTable!EmptyState, SnBookmarks
  <2>4. rows \in [1..Cardinality(SnowflakeTable!Rows) -> SnowflakeTable!Rows] /\ \A i, j \in DOMAIN rows : i # j => rows[i] # rows[j]
    BY Counts DEF SnowflakeTable!Ordered
  <2>5. IsFiniteSet(SnowflakeTable!Rows) /\ SnowflakeTable!Rows \subseteq Versions
    BY SnRows, FS_Subset DEF SnTypeOK
  <2>6. rows \in Seq(SnowflakeTable!Rows)
    BY <2>4, <2>5, Arranged
  <2>7. rows \in Seq(Versions) /\ \A i \in 1..Len(rows) : rows[i] \in SnowflakeTable!Rows
    BY <2>5, <2>6
  <2>8. \A r \in SnowflakeTable!Rows : SnAhead(SnowflakeTable!EmptyState, r)
    BY <2>3 DEF SnAhead
  <2>9. UNCHANGED SnowflakeTable!pipe /\ SnowflakeTable!EmptyState.rk_value <= time
    BY <1>6, <2>3 DEF SnowflakeTable!QueryTable, SnTypeOK
  <2>10. QED
    BY <1>5, <2>1, <2>2, <2>3, <2>7, <2>8, <2>9
<1>7. CASE SnowflakeTable!QueryIncremental
  <2> DEFINE st == [IF tap_state.replication_key THEN tap_state ELSE SnowflakeTable!EmptyState EXCEPT !.replication_key = TRUE]
             R  == {r \in SnowflakeTable!Rows : SnowflakeTable!FromKeyValue(st, r)}
  <2>1. PICK rows \in SnowflakeTable!Ordered(R, SnowflakeTable!ByRk) : SnowflakeTable!Execute(st, rows, FALSE)
    BY <1>7 DEF SnowflakeTable!QueryIncremental
  <2>2. /\ tap_pc = "query" /\ method = "INCREMENTAL" /\ UNCHANGED SnowflakeTable!pipe
    BY <1>7, <2>1 DEF SnowflakeTable!QueryIncremental, SnowflakeTable!Execute
  <2>3. /\ st \in SnBookmarks /\ st.replication_key
        /\ tap_state.replication_key => st.rk_value = tap_state.rk_value
        /\ ~tap_state.replication_key => st.rk_value = 0
        /\ st.rk_value <= time
    <3>1. tap_state \in SnBookmarks /\ tap_state.rk_value <= time /\ time \in Nat
      BY DEF SnTypeOK, SnPast
    <3>2. CASE tap_state.replication_key
      BY <3>1, <3>2 DEF SnBookmarks
    <3>3. CASE ~tap_state.replication_key
      <4>1. SnowflakeTable!EmptyState \in SnBookmarks /\ SnowflakeTable!EmptyState.rk_value = 0
        BY DEF SnowflakeTable!EmptyState, SnBookmarks
      <4>2. st = [SnowflakeTable!EmptyState EXCEPT !.replication_key = TRUE]
        BY <3>3
      <4> HIDE DEF st
      <4>3. /\ st = [replication_key |-> TRUE, rk_value |-> 0]
        BY <4>2 DEF SnowflakeTable!EmptyState
      <4>4. st \in SnBookmarks /\ st.replication_key /\ st.rk_value = 0
        BY <4>3 DEF SnBookmarks
      <4>5. QED
        BY <3>1, <3>3, <4>4
    <3>4. QED
      BY <3>2, <3>3
  <2> HIDE DEF st
  <2>4. \A r \in SnowflakeTable!Rows : r.rk \in Nat
    BY SnRows DEF SnTypeOK, Versions
  <2>5. \A r \in SnowflakeTable!Rows : r \in tap_emitted \/ r \in R
    BY <2>2, <2>3, <2>4 DEF SnRead, SnAhead, SnowflakeTable!FromKeyValue
  <2>6. /\ rows \in Seq(Versions) /\ \A i \in 1..Len(rows) : rows[i] \in R
        /\ \A i, j \in 1..Len(rows) : i < j => rows[i].rk <= rows[j].rk
        /\ \A r \in R : \E i \in 1..Len(rows) : rows[i] = r
    <3>1. R \subseteq SnowflakeTable!Rows
      OBVIOUS
    <3> HIDE DEF R
    <3>2. QED
      BY <2>1, <3>1, SnSorted
  <2>7. \A r \in SnowflakeTable!Rows : r \in tap_emitted \/ SnAhead(st, r)
    BY <2>5 DEF SnAhead
  <2>8. \A i \in 1..Len(rows) : rows[i] \in SnowflakeTable!Rows /\ st.rk_value <= rows[i].rk
    BY <2>6 DEF SnowflakeTable!FromKeyValue
  <2>9. \A r \in SnowflakeTable!Rows : r \in tap_emitted \/ \E i \in 1..Len(rows) : rows[i] = r
    BY <2>5, <2>6
  <2> HIDE DEF R
  <2>10. QED
    BY <1>5, <2>1, <2>2, <2>3, <2>6, <2>7, <2>8, <2>9
<1>8. CASE SnowflakeTable!FetchRow
  <2> DEFINE h == Head(result)
  <2>1. /\ tap_pc = "fetch" /\ tap_pc' = tap_pc /\ result # << >> /\ result' = Tail(result)
        /\ tap_state' = SnowflakeTable!AfterRow(tap_state, h) /\ tap_emitted' = tap_emitted \cup {h}
        /\ \/ tap_loaded' = tap_emitted' /\ saved' = tap_state'
           \/ UNCHANGED <<tap_loaded, saved>>
        /\ UNCHANGED <<history, clock, time, method>>
    BY <1>8 DEF SnowflakeTable!FetchRow, SnowflakeTable!Fetch, SnowflakeTable!Records, SnowflakeTable!RecordsAndState, SnowflakeTable!table
  <2>2. /\ h \in Versions /\ result' \in Seq(Versions) /\ Len(result') = Len(result) - 1
        /\ Len(result) \in Nat /\ Len(result) >= 1 /\ h = result[1]
        /\ \A i \in 1..Len(result') : result'[i] = result[i + 1]
    BY <2>1, HeadTailProperties DEF SnTypeOK
  <2> HIDE DEF h
  <2>3. h.rk \in Nat /\ h.rk <= time
    BY <2>2 DEF SnPast, Versions
  <2>4. /\ tap_state' \in SnBookmarks
        /\ method = "INCREMENTAL" => tap_state'.rk_value = h.rk
        /\ method # "INCREMENTAL" => tap_state' = tap_state
        /\ tap_state'.replication_key = tap_state.replication_key
        /\ tap_state'.rk_value <= time
    BY <2>1, <2>3 DEF SnowflakeTable!AfterRow, SnTypeOK, SnPast, SnBookmarks
  <2>5. SnowflakeTable!Rows' = SnowflakeTable!Rows /\ \A r \in SnowflakeTable!Rows : r.rk \in Nat
    BY <2>1, SnRows DEF SnowflakeTable!Rows, SnowflakeTable!VersionsOf, SnTypeOK, Versions
  <2>6. SnTypeOK'
    BY <2>1, <2>2, <2>4 DEF SnTypeOK
  <2>7. SnPast'
    BY <2>1, <2>2, <2>4 DEF SnPast, SnTypeOK
  <2>8. SnRead'
    <3>1. CASE method = "INCREMENTAL"
      <4>1. SUFFICES ASSUME NEW r \in SnowflakeTable!Rows, r \notin tap_emitted, r # h PROVE h.rk <= r.rk
        BY <2>1, <2>4, <2>5, <3>1 DEF SnRead, SnAhead, SnowflakeTable!FromKeyValue
      <4>2. CASE \A i \in 1..Len(result) : result[i].rk <= r.rk
        BY <2>2, <4>2
      <4>3. CASE \E i \in 1..Len(result) : result[i] = r
        <5>1. PICK i \in 1..Len(result) : result[i] = r
          BY <4>3
        <5>2. 1 < i
          BY <2>2, <4>1, <5>1
        <5>3. QED
          BY <2>1, <2>2, <3>1, <5>1, <5>2 DEF SnFetch
      <4>4. QED
        BY <2>1, <3>1, <4>1, <4>2, <4>3 DEF SnFetch
    <3>2. CASE method # "INCREMENTAL"
      BY <2>1, <2>4, <2>5, <3>2 DEF SnRead, SnAhead, SnowflakeTable!FromKeyValue
    <3>3. QED
      BY <3>1, <3>2
  <2>9. SnSaved'
    BY <2>1, <2>5, <2>8 DEF SnSaved, SnRead, SnAhead, SnowflakeTable!FromKeyValue
  <2>10. SnFetch'
    <3>1. SUFFICES ASSUME method = "INCREMENTAL"
                   PROVE  /\ \A i \in 1..Len(result') : tap_state'.rk_value <= result'[i].rk
                          /\ \A i, j \in 1..Len(result') : i < j => result'[i].rk <= result'[j].rk
                          /\ \A r \in SnowflakeTable!Rows : \/ r \in tap_emitted'
                                                            \/ \E i \in 1..Len(result') : result'[i] = r
                                                            \/ \A i \in 1..Len(result') : result'[i].rk <= r.rk
      BY <2>1, <2>5 DEF SnFetch
    <3>2. \A i \in 1..Len(result') : /\ i + 1 \in 1..Len(result) /\ 1 < i + 1 /\ result'[i] = result[i + 1]
      BY <2>2
    <3>3. \A i \in 1..Len(result') : tap_state'.rk_value <= result'[i].rk
      BY <2>1, <2>2, <2>4, <3>1, <3>2 DEF SnFetch
    <3>4. \A i, j \in 1..Len(result') : i < j => result'[i].rk <= result'[j].rk
      <4>1. \A i, j \in 1..Len(result') : i < j => i + 1 < j + 1
        BY <2>2
      <4>2. QED
        BY <2>1, <3>1, <3>2, <4>1 DEF SnFetch
    <3>5. ASSUME NEW r \in SnowflakeTable!Rows, r \notin tap_emitted', \E i \in 1..Len(result) : result[i] = r
          PROVE  \E i \in 1..Len(result') : result'[i] = r
      <4>1. PICK i \in 1..Len(result) : result[i] = r
        BY <3>5
      <4>2. i # 1
        BY <2>1, <2>2, <3>5, <4>1
      <4>3. i - 1 \in 1..Len(result') /\ (i - 1) + 1 = i
        BY <2>2, <4>2
      <4>4. QED
        BY <2>2, <4>1, <4>3
    <3>6. QED
      BY <2>1, <3>1, <3>2, <3>3, <3>4, <3>5 DEF SnFetch
  <2>11. QED
    BY <2>6, <2>7, <2>8, <2>9, <2>10
<1>9. CASE SnowflakeTable!FetchedAll
  <2>1. /\ tap_pc = "fetch" /\ tap_pc' = "end" /\ tap_emitted' = tap_emitted
        /\ \/ tap_loaded' = tap_emitted' /\ saved' = tap_state
           \/ UNCHANGED <<tap_loaded, saved>>
        /\ UNCHANGED <<history, clock, time, method, tap_state, result>>
    BY <1>9 DEF SnowflakeTable!FetchedAll, SnowflakeTable!RecordsAndState, SnowflakeTable!table
  <2>2. SnowflakeTable!Rows' = SnowflakeTable!Rows
    BY <2>1 DEF SnowflakeTable!Rows, SnowflakeTable!VersionsOf
  <2>3. SnTypeOK' /\ SnPast' /\ SnFetch'
    BY <2>1 DEF SnTypeOK, SnPast, SnFetch
  <2>4. SnSaved' /\ SnRead'
    BY <2>1, <2>2 DEF SnTypeOK, SnSaved, SnRead, SnAhead, SnowflakeTable!FromKeyValue
  <2>5. QED
    BY <2>3, <2>4
<1>10. CASE SnowflakeTable!Complete
  <2>1. /\ tap_pc = "end" /\ tap_pc' = "idle" /\ tap_emitted' = tap_emitted /\ tap_loaded' = tap_emitted /\ saved' = tap_state
        /\ tap_state' = saved' /\ result' = << >>
        /\ UNCHANGED <<history, clock, time, method>>
    BY <1>10 DEF SnowflakeTable!Complete, SnowflakeTable!End, SnowflakeTable!Exit, SnowflakeTable!RecordsAndLastState, SnowflakeTable!table
  <2>2. SnowflakeTable!Rows' = SnowflakeTable!Rows /\ result' \in Seq(Versions) /\ Len(result') = 0
    BY <2>1 DEF SnowflakeTable!Rows, SnowflakeTable!VersionsOf
  <2>3. SnTypeOK' /\ SnPast' /\ SnFetch'
    BY <2>1, <2>2 DEF SnTypeOK, SnPast, SnFetch
  <2>4. SnSaved' /\ SnRead'
    BY <2>1, <2>2 DEF SnSaved, SnRead, SnAhead, SnowflakeTable!FromKeyValue
  <2>5. QED
    BY <2>3, <2>4
<1>11. CASE SnowflakeTable!Die
  <2>1. /\ tap_pc' = "idle" /\ tap_emitted' = tap_loaded /\ UNCHANGED <<tap_loaded, saved>>
        /\ tap_state' = saved' /\ result' = << >>
        /\ UNCHANGED <<history, clock, time, method>>
    BY <1>11 DEF SnowflakeTable!Die, SnowflakeTable!Lost, SnowflakeTable!Exit, SnowflakeTable!table
  <2>2. SnowflakeTable!Rows' = SnowflakeTable!Rows /\ result' \in Seq(Versions) /\ Len(result') = 0
    BY <2>1 DEF SnowflakeTable!Rows, SnowflakeTable!VersionsOf
  <2>3. SnTypeOK' /\ SnPast' /\ SnFetch'
    BY <2>1, <2>2 DEF SnTypeOK, SnPast, SnFetch
  <2>4. SnSaved' /\ SnRead'
    BY <2>1, <2>2 DEF SnSaved, SnRead, SnAhead, SnowflakeTable!FromKeyValue
  <2>5. QED
    BY <2>3, <2>4
<1>12. CASE UNCHANGED SnowflakeTable!tableTapVars
  <2>1. UNCHANGED <<history, clock, time, method, tap_pc, tap_state, saved, result, tap_loaded, tap_emitted>>
    BY <1>12 DEF SnowflakeTable!tableTapVars, SnowflakeTable!table, SnowflakeTable!pipe
  <2>2. SnowflakeTable!Rows' = SnowflakeTable!Rows
    BY <2>1 DEF SnowflakeTable!Rows, SnowflakeTable!VersionsOf
  <2>3. QED
    BY <2>1, <2>2 DEF SnTypeOK, SnPast, SnSaved, SnRead, SnFetch, SnAhead, SnowflakeTable!FromKeyValue
<1>13. QED
  BY <1>1, <1>2, <1>3, <1>4, <1>6, <1>7, <1>8, <1>9, <1>10, <1>11, <1>12 DEF SnowflakeTable!Next

\* A row that a run from the saved bookmark does not select is loaded.
LEMMA SnImplies == SnInv => SnowflakeTable!SnowflakeTablesSkipNothing
<1>1. SUFFICES ASSUME SnInv, NEW c \in history, method = "INCREMENTAL", ~SnowflakeTable!Reached(c), ~SnowflakeTable!Selects(saved, SnowflakeTable!Current(c))
               PROVE  FALSE
  BY DEF SnowflakeTable!SnowflakeTablesSkipNothing, SnowflakeTable!SkippedChanges, SnowflakeTable!Selects, SnInv, SnTypeOK
<1>2. \E r \in SnowflakeTable!Rows : r.key = c.key
  BY <1>1, SnRows, LastExists DEF SnInv, SnTypeOK, SnPast
<1>3. SnowflakeTable!Current(c) \in SnowflakeTable!Rows /\ SnowflakeTable!Current(c).key = c.key
  BY <1>2 DEF SnowflakeTable!Current
<1>4. SnowflakeTable!Current(c) \in tap_loaded
  BY <1>1, <1>3 DEF SnInv, SnSaved, SnAhead, SnowflakeTable!Selects
<1>5. SnowflakeTable!Current(c).ver >= c.ver
  BY <1>1, <1>3 DEF SnowflakeTable!Rows, SnowflakeTable!VersionsOf, SnInv, SnTypeOK, Versions
<1>6. QED
  BY <1>1, <1>3, <1>4, <1>5 DEF SnowflakeTable!Reached

-----------------------------------------------------------------------------
(* tap-mongodb: collections read by key value, or copied by ranges of _id  *)

MgMethods == {"FULL_TABLE", "INCREMENTAL"}
MgBookmarks == [last_replication_method : MgMethods \cup {""}, max_id_value : Nat,
                last_id_fetched : Nat, replication_key_value : Nat]

\* Types of the state of tap-mongodb.
MgTypeOK ==
    /\ history \subseteq Versions /\ IsFiniteSet(history)
    /\ clock \in Nat /\ time \in Nat
    /\ method \in MgMethods
    /\ tap_pc \in {"idle", "query", "fetch", "end"}
    /\ tap_state \in MgBookmarks /\ saved \in MgBookmarks
    /\ result \in Seq(Versions)
    /\ tap_loaded \subseteq tap_emitted
    /\ due \subseteq history

\* No change or key value is in the future.
MgPast ==
    /\ \A c \in history : c.ver <= clock /\ c.rk <= time
    /\ saved.replication_key_value <= time /\ tap_state.replication_key_value <= time
    /\ \A i \in 1..Len(result) : result[i].rk <= time

\* A range that is cleared has no _id, and only a full copy has a range.
MgShape(st) ==
    /\ st.max_id_value = 0 => st.last_id_fetched = 0
    /\ st.last_replication_method # "FULL_TABLE" => st.max_id_value = 0

MgCleared ==
    /\ MgShape(saved) /\ MgShape(tap_state)
    /\ tap_pc # "idle" => tap_state.last_replication_method = method

\* A find() from the key value of the bookmark st returns the document.
MgAhead(st, r) == st.replication_key_value <= r.rk

\* What the saved key value does not select is loaded.
MgSaved == \A r \in MongodbTable!Rows : r \in tap_loaded \/ MgAhead(saved, r)

\* What the key value in memory does not select is written.
MgRead == tap_pc # "idle" => \A r \in MongodbTable!Rows : r \in tap_emitted \/ MgAhead(tap_state, r)

\* What the range of the bookmark st has left behind is among the records R.
MgHas(R, c) == \E d \in R : d.key = c.key /\ d.ver >= c.ver
MgIn(st, c) == st.last_id_fetched <= c.key /\ c.key <= st.max_id_value
MgBehind(st, R) == st.max_id_value # 0 => \A c \in due : MgHas(R, c) \/ MgIn(st, c)

MgRange ==
    /\ MgBehind(saved, tap_loaded)
    /\ tap_pc # "idle" => MgBehind(tap_state, tap_emitted)
    /\ tap_pc = "query" /\ method = "FULL_TABLE" /\ tap_state.max_id_value = 0 => saved.max_id_value = 0

\* The documents come in the order of their key value; one that is not among
\* them changed since.
MgFetch ==
    tap_pc = "fetch" /\ method = "INCREMENTAL" =>
        /\ \A i \in 1..Len(result) : tap_state.replication_key_value <= result[i].rk
        /\ \A i, j \in 1..Len(result) : i < j => result[i].rk <= result[j].rk
        /\ \A r \in MongodbTable!Rows : \/ r \in tap_emitted
                                        \/ \E i \in 1..Len(result) : result[i] = r
                                        \/ \A i \in 1..Len(result) : result[i].rk <= r.rk

\* The documents come in the order of their _id, with all that are due.
MgCopy ==
    tap_pc = "fetch" /\ method = "FULL_TABLE" =>
        /\ \A i \in 1..Len(result) : result[i].key <= tap_state.max_id_value
        /\ \A i, j \in 1..Len(result) : i < j => result[i].key <= result[j].key
        /\ \A c \in due : \/ MgHas(tap_emitted, c)
                          \/ \E i \in 1..Len(result) : result[i].key = c.key /\ result[i].ver >= c.ver

\* The invariant of tap-mongodb.
MgInv == MgTypeOK /\ MgPast /\ MgCleared /\ MgSaved /\ MgRead /\ MgRange /\ MgFetch /\ MgCopy

\* The documents of a collection are the last versions of their ids.
LEMMA MgRows == MongodbTable!Rows = LastOf(history) /\ MongodbTable!Rows \subseteq history
BY DEF MongodbTable!Rows, MongodbTable!VersionsOf, LastOf

\* An empty collection has no document to skip.
LEMMA MgInit == MongodbTable!Init => MgInv
<1> SUFFICES ASSUME MongodbTable!Init PROVE MgInv
  OBVIOUS
<1>1. /\ history = {} /\ clock = 0 /\ time = 1 /\ tap_pc = "idle" /\ result = << >>
      /\ tap_state = MongodbTable!EmptyState /\ saved = MongodbTable!EmptyState /\ tap_emitted = {} /\ tap_loaded = {} /\ due = {}
      /\ method \in MgMethods
  BY DEF MongodbTable!Init, MongodbTable!TableInit, MgMethods
<1>2. /\ MongodbTable!EmptyState \in MgBookmarks /\ MongodbTable!EmptyState.replication_key_value = 0
      /\ MongodbTable!EmptyState.max_id_value = 0 /\ MongodbTable!EmptyState.last_id_fetched = 0
  BY DEF MongodbTable!EmptyState, MgBookmarks, MgMethods
<1>3. IsFiniteSet(history) /\ MongodbTable!Rows = {}
  BY <1>1, MgRows, FS_EmptySet
<1>4. result \in Seq(Versions) /\ Len(result) = 0
  BY <1>1
<1>5. QED
  BY <1>1, <1>2, <1>3, <1>4
     DEF MgInv, MgTypeOK, MgPast, MgCleared, MgSaved, MgRead, MgRange, MgBehind, MgFetch, MgCopy, MgShape

\* A find with a sort returns every document once, in order.
LEMMA MgSorted ==
    ASSUME NEW R, R \subseteq MongodbTable!Rows, MgTypeOK, NEW rows \in MongodbTable!Ordered(R, MongodbTable!ByRk) \cup MongodbTable!Ordered(R, MongodbTable!ByKey)
    PROVE  /\ rows \in Seq(Versions)
           /\ \A i \in 1..Len(rows) : rows[i] \in R
           /\ rows \in MongodbTable!Ordered(R, MongodbTable!ByRk) =>
                  \A i, j \in 1..Len(rows) : i < j => rows[i].rk <= rows[j].rk
           /\ rows \in MongodbTable!Ordered(R, MongodbTable!ByKey) =>
                  \A i, j \in 1..Len(rows) : i < j => rows[i].key <= rows[j].key
           /\ \A r \in R : \E i \in 1..Len(rows) : rows[i] = r
<1>1. R \subseteq Versions /\ IsFiniteSet(R)
  BY MgRows, FS_Subset DEF MgTypeOK
<1>2. /\ rows \in [1..Cardinality(R) -> R]
      /\ \A i, j \in DOMAIN rows : i # j => rows[i] # rows[j]
      /\ rows \in MongodbTable!Ordered(R, MongodbTable!ByRk) =>
             \A i, j \in DOMAIN rows : i < j => rows[i].rk <= rows[j].rk
      /\ rows \in MongodbTable!Ordered(R, MongodbTable!ByKey) =>
             \A i, j \in DOMAIN rows : i < j => rows[i].key <= rows[j].key
  BY Counts DEF MongodbTable!Ordered, MongodbTable!ByRk, MongodbTable!ByKey
<1>3. /\ rows \in Seq(R) /\ Len(rows) = Cardinality(R)
      /\ \A r \in R : \E i \in 1..Len(rows) : rows[i] = r
  BY <1>1, <1>2, Arranged
<1>4. QED
  BY <1>1, <1>2, <1>3

\* Changes of the collection, a change of the method, the find, its documents, the end of
\* a run and a death keep it.
LEMMA MgStep == MgInv /\ [MongodbTable!Next]_(MongodbTable!tableTapVars) => MgInv'
<1> SUFFICES ASSUME MgInv, [MongodbTable!Next]_(MongodbTable!tableTapVars) PROVE MgInv'
  OBVIOUS
<1> USE DEF MgInv
<1>1. ASSUME NEW K \in MongodbTable!Batches, MongodbTable!Change(K) PROVE MgInv'
  <2> DEFINE N == Changed(K, clock + 1, time)
  <2>1. /\ clock' = clock + 1 /\ history' = history \cup N
        /\ UNCHANGED <<time, method, tap_pc, tap_state, saved, result, due, tap_loaded, tap_emitted>>
    BY <1>1 DEF MongodbTable!Change, MongodbTable!pipe, Changed
  <2>2. K \in SUBSET (1..MaxKey)
    BY DEF MongodbTable!Batches, MongodbTable!PrimaryKeys
  <2>3. IsFiniteSet(history')
    <3>1. IsFiniteSet(history) /\ MaxKey \in Nat
      BY DatabasesAssumption DEF MgTypeOK
    <3>2. QED
      BY <2>1, <2>2, <3>1, FiniteChange
  <2>4. K \subseteq Nat
    BY <2>2
  <2>5. /\ history' \subseteq Versions
        /\ \A r \in MongodbTable!Rows' : r \in N \/ r \in MongodbTable!Rows
        /\ \A c \in N : c.rk = time /\ c.ver = clock + 1
    <3>1. history \subseteq Versions /\ clock \in Nat /\ time \in Nat
      BY DEF MgTypeOK
    <3>2. MongodbTable!Rows' = LastOf(history \cup N)
      BY <2>1 DEF MongodbTable!Rows, MongodbTable!VersionsOf, LastOf
    <3>3. N \subseteq Versions /\ \A c \in N : c.rk = time /\ c.ver = clock + 1
      <4>1. clock + 1 \in Nat
        BY <3>1
      <4>2. \A v \in Nat : Changed(K, v, time) \subseteq Versions
        <5>1. \A v \in Nat, k \in K : [key |-> k, ver |-> v, rk |-> time] \in Versions
          BY <2>4, <3>1 DEF Versions
        <5>2. QED
          BY <5>1 DEF Changed
      <4>3. \A v : \A c \in Changed(K, v, time) : c.rk = time /\ c.ver = v
        BY DEF Changed
      <4>4. QED
        BY <4>1, <4>2, <4>3
    <3> HIDE DEF N
    <3>4. \A r \in LastOf(history \cup N) : r \in N \/ r \in LastOf(history)
      BY DEF LastOf
    <3>5. QED
      BY <2>1, <3>1, <3>2, <3>3, <3>4, MgRows
  <2> HIDE DEF N
  <2>6. MgTypeOK'
    BY <2>1, <2>3, <2>5 DEF MgTypeOK
  <2>7. MgPast' /\ MgCleared'
    BY <2>1, <2>5 DEF MgTypeOK, MgPast, MgCleared, MgShape, Versions
  <2>8. \A r \in N : MgAhead(saved, r) /\ MgAhead(tap_state, r)
    BY <2>5 DEF MgAhead, MgPast
  <2>9. MgSaved' /\ MgRead'
    BY <2>1, <2>5, <2>8 DEF MgSaved, MgRead, MgAhead
  <2>10. MgRange' /\ MgCopy'
    BY <2>1 DEF MgRange, MgBehind, MgIn, MgHas, MgCopy
  <2>11. MgFetch'
    BY <2>1, <2>5 DEF MgFetch, MgPast
  <2>12. QED
    BY <2>6, <2>7, <2>9, <2>10, <2>11
<1>2. ASSUME NEW m \in MongodbTable!Methods, MongodbTable!Configure(m) PROVE MgInv'
  <2>1. /\ tap_pc = "idle" /\ method' \in MgMethods
        /\ UNCHANGED <<history, clock, time, tap_pc, tap_state, saved, result, due, tap_loaded, tap_emitted>>
    BY <1>2 DEF MongodbTable!Configure, MongodbTable!SwitchMethod, MongodbTable!Methods, MgMethods, MongodbTable!pipe
  <2>2. QED
    BY <2>1 DEF MgTypeOK, MgPast, MgCleared, MgSaved, MgRead, MgRange, MgBehind, MgHas, MgIn,
                MgFetch, MgCopy, MgAhead, MongodbTable!Rows, MongodbTable!VersionsOf
<1>3. CASE MongodbTable!Tick
  <2>1. time' = time + 1 /\ UNCHANGED <<history, clock, method, tap_pc, tap_state, saved, result, due, tap_loaded, tap_emitted>>
    BY <1>3 DEF MongodbTable!Tick, MongodbTable!pipe
  <2>2. MongodbTable!Rows' = MongodbTable!Rows
    BY <2>1 DEF MongodbTable!Rows, MongodbTable!VersionsOf
  <2>3. MgTypeOK' /\ MgCleared' /\ MgSaved' /\ MgRead' /\ MgFetch'
    BY <2>1, <2>2 DEF MgTypeOK, MgCleared, MgSaved, MgRead, MgFetch, MgAhead
  <2>4. MgRange' /\ MgCopy'
    BY <2>1 DEF MgRange, MgBehind, MgHas, MgIn, MgCopy
  <2>5. MgPast'
    <3>1. /\ \A c \in history : c.ver \in Nat /\ c.rk \in Nat
          /\ saved.replication_key_value \in Nat /\ tap_state.replication_key_value \in Nat /\ time \in Nat
      BY DEF MgTypeOK, MgBookmarks, Versions
    <3>2. \A i \in 1..Len(result) : result[i].rk \in Nat
      <4>1. \A i \in 1..Len(result) : result[i] \in Versions
        BY DEF MgTypeOK
      <4>2. QED
        BY <4>1 DEF Versions
    <3>3. \A c \in history : c.ver <= clock' /\ c.rk <= time'
      <4>1. \A c \in history : c.ver <= clock /\ c.rk <= time
        BY DEF MgPast
      <4>2. QED
        BY <2>1, <3>1, <4>1
    <3>4. \A i \in 1..Len(result) : result[i].rk <= time'
      <4>1. \A i \in 1..Len(result) : result[i].rk <= time
        BY DEF MgPast
      <4>2. QED
        BY <2>1, <3>1, <3>2, <4>1
    <3>5. saved.replication_key_value <= time' /\ tap_state.replication_key_value <= time'
      BY <2>1, <3>1 DEF MgPast
    <3>6. QED
      BY <2>1, <3>3, <3>4, <3>5 DEF MgPast
  <2>6. QED
    BY <2>3, <2>4, <2>5
<1>4. CASE MongodbTable!Start
  <2>1. /\ tap_pc = "idle" /\ tap_pc' = "query" /\ tap_state' = MongodbTable!clear_state_on_replication_change(saved)
        /\ saved' \in {saved, tap_state'}
        /\ tap_emitted' = tap_emitted
        /\ \/ tap_loaded' = tap_loaded /\ saved' = saved
           \/ tap_loaded' = tap_emitted /\ saved' = tap_state'
        /\ UNCHANGED <<history, clock, time, method, result, due>>
    BY <1>4 DEF MongodbTable!Start, MongodbTable!RecordsAndState, MongodbTable!table
  <2>2. MongodbTable!Rows' = MongodbTable!Rows /\ \A r \in MongodbTable!Rows : r.rk \in Nat
    BY <2>1, MgRows DEF MongodbTable!Rows, MongodbTable!VersionsOf, MgTypeOK, Versions
  <2>3. /\ tap_state' \in MgBookmarks
        /\ \/ /\ tap_state'.replication_key_value = saved.replication_key_value
              /\ tap_state'.max_id_value = saved.max_id_value
              /\ tap_state'.last_id_fetched = saved.last_id_fetched
           \/ /\ tap_state'.replication_key_value = 0 /\ tap_state'.max_id_value = 0
              /\ tap_state'.last_id_fetched = 0
        /\ method = "FULL_TABLE" /\ tap_state'.max_id_value = 0 => saved'.max_id_value = 0
        /\ tap_state'.last_replication_method = method /\ MgShape(tap_state')
    <3>1. /\ MongodbTable!EmptyState \in MgBookmarks /\ saved \in MgBookmarks /\ method \in MgMethods
          /\ MongodbTable!EmptyState.replication_key_value = 0 /\ MongodbTable!EmptyState.max_id_value = 0
          /\ MongodbTable!EmptyState.last_id_fetched = 0
      BY DEF MongodbTable!EmptyState, MgBookmarks, MgMethods, MgTypeOK
    <3>2. CASE saved.last_replication_method \in {"", method}
      <4>1. tap_state' = [saved EXCEPT !.last_replication_method = method]
        BY <2>1, <3>2 DEF MongodbTable!clear_state_on_replication_change
      <4>2. /\ tap_state'.replication_key_value = saved.replication_key_value
            /\ tap_state'.max_id_value = saved.max_id_value
            /\ tap_state'.last_id_fetched = saved.last_id_fetched
            /\ tap_state'.last_replication_method = method
        BY <3>1, <4>1 DEF MgBookmarks
      <4>3. tap_state' \in MgBookmarks
        <5>1. ASSUME NEW st \in MgBookmarks, NEW m \in MgMethods
              PROVE  [st EXCEPT !.last_replication_method = m] \in MgBookmarks
          BY DEF MgBookmarks
        <5>2. QED
          BY <3>1, <4>1, <5>1
      <4>4. method # "FULL_TABLE" => saved.max_id_value = 0
        BY <3>2 DEF MgCleared, MgShape
      <4>5. QED
        BY <2>1, <3>1, <4>2, <4>3, <4>4 DEF MgCleared, MgShape
    <3>3. CASE saved.last_replication_method \notin {"", method}
      <4>1. tap_state' = [MongodbTable!EmptyState EXCEPT !.last_replication_method = method]
        BY <2>1, <3>3 DEF MongodbTable!clear_state_on_replication_change
      <4>2. tap_state' = [last_replication_method |-> method, max_id_value |-> 0, last_id_fetched |-> 0,
                      replication_key_value |-> 0]
        BY <4>1 DEF MongodbTable!EmptyState
      <4>3. method = "FULL_TABLE" => saved.max_id_value = 0
        BY <3>1, <3>3 DEF MgBookmarks, MgMethods, MgCleared, MgShape
      <4>4. /\ tap_state'.replication_key_value = 0 /\ tap_state'.max_id_value = 0
            /\ tap_state'.last_id_fetched = 0 /\ tap_state'.last_replication_method = method
        BY <4>2
      <4>5. tap_state' \in MgBookmarks
        BY <3>1, <4>2 DEF MgBookmarks
      <4>6. QED
        BY <2>1, <4>3, <4>4, <4>5 DEF MgShape
    <3>4. QED
      BY <3>2, <3>3
  <2>4. MgTypeOK' /\ MgPast' /\ MgCleared'
    BY <2>1, <2>3 DEF MgTypeOK, MgPast, MgCleared
  <2>5. MgFetch' /\ MgCopy'
    BY <2>1 DEF MgFetch, MgCopy
  <2>6. \A r \in MongodbTable!Rows : MgAhead(saved, r) => MgAhead(tap_state', r)
    BY <2>1, <2>2, <2>3 DEF MgAhead
  <2>7. \A c : MgHas(tap_loaded, c) => MgHas(tap_emitted, c)
    BY DEF MgHas, MgTypeOK
  <2>8. MgSaved' /\ MgRead'
    BY <2>1, <2>2, <2>6 DEF MgTypeOK, MgSaved, MgRead, MgAhead
  <2>9. MgRange'
    BY <2>1, <2>3, <2>7 DEF MgRange, MgBehind, MgIn, MgHas
  <2>10. QED
    BY <2>4, <2>5, <2>8, <2>9
<1>5. CASE MongodbTable!QueryIncremental
  <2> DEFINE R == {r \in MongodbTable!Rows : MongodbTable!FromKeyValue(tap_state, r)}
  <2>1. PICK rows \in MongodbTable!Ordered(R, MongodbTable!ByRk) : MongodbTable!Execute(tap_state, rows, FALSE)
    BY <1>5 DEF MongodbTable!QueryIncremental
  <2>2. /\ tap_pc = "query" /\ tap_pc' = "fetch" /\ method = "INCREMENTAL" /\ result' = rows /\ due' = {}
        /\ UNCHANGED <<history, clock, time, method, tap_state, saved, tap_loaded, tap_emitted>>
    BY <1>5, <2>1 DEF MongodbTable!QueryIncremental, MongodbTable!Execute, MongodbTable!table, MongodbTable!pipe
  <2>3. MongodbTable!Rows' = MongodbTable!Rows /\ \A r \in MongodbTable!Rows : r.rk \in Nat /\ r.rk <= time
    BY <2>2, MgRows DEF MongodbTable!Rows, MongodbTable!VersionsOf, MgTypeOK, Versions, MgPast
  <2>4. tap_state.replication_key_value \in Nat
    BY DEF MgTypeOK, MgBookmarks
  <2>5. /\ \A r \in MongodbTable!Rows : r \in tap_emitted \/ r \in R
        /\ \A r \in R : tap_state.replication_key_value <= r.rk
    BY <2>2, <2>3, <2>4 DEF MgRead, MgAhead, MongodbTable!FromKeyValue
  <2>6. R \subseteq MongodbTable!Rows
    OBVIOUS
  <2> HIDE DEF R
  <2>7. /\ rows \in Seq(Versions) /\ \A i \in 1..Len(rows) : rows[i] \in R
        /\ \A i, j \in 1..Len(rows) : i < j => rows[i].rk <= rows[j].rk
        /\ \A r \in R : \E i \in 1..Len(rows) : rows[i] = r
    BY <2>1, <2>6, MgSorted
  <2>8. MgTypeOK' /\ MgCleared' /\ MgSaved' /\ MgRead'
    BY <2>2, <2>3, <2>7 DEF MgTypeOK, MgCleared, MgSaved, MgRead, MgAhead
  <2>9. MgPast'
    BY <2>2, <2>3, <2>6, <2>7 DEF MgPast
  <2>10. MgRange' /\ MgCopy'
    BY <2>2 DEF MgRange, MgBehind, MgCopy
  <2>11. MgFetch'
    BY <2>2, <2>3, <2>5, <2>7 DEF MgFetch
  <2>12. QED
    BY <2>8, <2>9, <2>10, <2>11
<1>6. CASE MongodbTable!QueryCollection
  <2> DEFINE st == [tap_state EXCEPT !.max_id_value = IF @ # 0 THEN @ ELSE MongodbTable!MaxPk]
             R  == {r \in MongodbTable!Rows : MongodbTable!find_filter(st, r)}
  <2>1. PICK rows \in MongodbTable!Ordered(R, MongodbTable!ByKey) : MongodbTable!Execute(st, rows, tap_state.max_id_value # 0)
    BY <1>6 DEF MongodbTable!QueryCollection
  <2>2. /\ tap_pc = "query" /\ tap_pc' = "fetch" /\ method = "FULL_TABLE" /\ result' = rows /\ tap_state' = st
        /\ due' = IF tap_state.max_id_value # 0 THEN due ELSE MongodbTable!Rows
        /\ UNCHANGED <<history, clock, time, method, saved, tap_loaded, tap_emitted>>
    BY <1>6, <2>1 DEF MongodbTable!QueryCollection, MongodbTable!Execute, MongodbTable!table, MongodbTable!pipe
  <2>3. /\ MongodbTable!Rows' = MongodbTable!Rows /\ MongodbTable!Rows \subseteq history
        /\ \A c \in history : c.rk \in Nat /\ c.rk <= time /\ c.key \in Nat /\ c.ver \in Nat
    BY <2>2, MgRows DEF MongodbTable!Rows, MongodbTable!VersionsOf, MgTypeOK, Versions, MgPast
  <2>4. MongodbTable!MaxPk \in Nat /\ \A c \in history : c.key <= MongodbTable!MaxPk
    <3> DEFINE P == {c.key : c \in history}
    <3>1. CASE history = {}
      BY <3>1 DEF MongodbTable!MaxPk
    <3>2. CASE history # {}
      <4>1. P \subseteq Nat /\ P # {} /\ IsFiniteSet(P)
        <5>1. IsFiniteSet(P)
          <6> DEFINE f == [c \in history |-> c.key]
          <6>1. f \in Surjection(history, P)
            BY DEF Surjection
          <6>2. QED
            BY <6>1, FS_Surjection DEF MgTypeOK
        <5>2. QED
          BY <2>3, <3>2, <5>1
      <4> HIDE DEF P
      <4>2. \E n \in P : \A m \in P : m <= n
        BY <4>1, FiniteLargest
      <4>3. MongodbTable!LargestOf(P) \in P /\ \A m \in P : m <= MongodbTable!LargestOf(P)
        BY <4>2 DEF MongodbTable!LargestOf
      <4>4. MongodbTable!MaxPk = MongodbTable!LargestOf(P)
        BY <3>2 DEF MongodbTable!MaxPk, P
      <4>5. QED
        BY <4>1, <4>3, <4>4 DEF P
    <3>3. QED
      BY <3>1, <3>2
  <2>5. /\ st \in MgBookmarks
        /\ st.max_id_value = IF tap_state.max_id_value # 0 THEN tap_state.max_id_value ELSE MongodbTable!MaxPk
        /\ st.last_id_fetched = tap_state.last_id_fetched
        /\ st.replication_key_value = tap_state.replication_key_value
        /\ st.last_replication_method = tap_state.last_replication_method
    BY <2>4 DEF MgTypeOK, MgBookmarks
  <2> HIDE DEF st
  <2>6. R \subseteq MongodbTable!Rows
    OBVIOUS
  <2>7. /\ st.max_id_value \in Nat /\ st.last_id_fetched \in Nat
        /\ \A r \in R : r.key <= st.max_id_value
        /\ \A r \in MongodbTable!Rows : MgIn(st, r) => r \in R
    BY <2>3, <2>5 DEF MongodbTable!find_filter, MgIn, MgBookmarks
  <2> HIDE DEF R
  <2>8. /\ rows \in Seq(Versions) /\ \A i \in 1..Len(rows) : rows[i] \in R
        /\ \A i, j \in 1..Len(rows) : i < j => rows[i].key <= rows[j].key
        /\ \A r \in R : \E i \in 1..Len(rows) : rows[i] = r
    BY <2>1, <2>6, MgSorted
  <2>9. ASSUME NEW c \in due'
        PROVE  MgHas(tap_emitted, c) \/ \E i \in 1..Len(rows) : rows[i].key = c.key /\ rows[i].ver >= c.ver
    <3>1. c \in history
      BY <2>2, <2>3 DEF MgTypeOK
    <3>2. PICK r \in MongodbTable!Rows : r.key = c.key /\ c.ver <= r.ver
      BY <3>1, MgRows, LastExists DEF MgTypeOK, MgPast
    <3>3. MgHas(tap_emitted, c) \/ MgIn(st, c)
      <4>1. CASE tap_state.max_id_value # 0
        BY <2>2, <2>5, <4>1 DEF MgRange, MgBehind, MgIn
      <4>2. CASE tap_state.max_id_value = 0
        BY <2>3, <2>4, <2>5, <3>1, <4>2 DEF MgIn, MgCleared, MgShape
      <4>3. QED
        BY <4>1, <4>2
    <3>4. MgIn(st, c) => r \in R
      BY <2>7, <3>2 DEF MgIn
    <3>5. QED
      BY <2>3, <2>8, <3>1, <3>2, <3>3, <3>4
  <2>10. MgTypeOK'
    BY <2>2, <2>3, <2>5, <2>8 DEF MgTypeOK
  <2>11. MgSaved' /\ MgRead' /\ MgFetch'
    BY <2>2, <2>3, <2>5 DEF MgSaved, MgRead, MgAhead, MgFetch
  <2>12. MgPast'
    BY <2>2, <2>3, <2>5, <2>6, <2>8 DEF MgPast
  <2>13. MgCleared'
    BY <2>2, <2>4, <2>5 DEF MgCleared, MgShape, MgMethods
  <2>14. MgCopy'
    BY <2>2, <2>7, <2>8, <2>9 DEF MgCopy
  <2>15. MgRange'
    <3>1. MgBehind(saved, tap_loaded)'
      BY <2>2 DEF MgRange, MgBehind, MgHas, MgIn
    <3>2. MgBehind(tap_state, tap_emitted)'
      BY <2>2, <2>3, <2>4, <2>5 DEF MgRange, MgBehind, MgHas, MgIn, MgCleared, MgShape
    <3>3. QED
      BY <2>2, <3>1, <3>2 DEF MgRange
  <2>16. QED
    BY <2>10, <2>11, <2>12, <2>13, <2>14, <2>15
<1>7. CASE MongodbTable!FetchRow
  <2> DEFINE h == Head(result)
  <2>1. /\ tap_pc = "fetch" /\ tap_pc' = tap_pc /\ result # << >> /\ result' = Tail(result)
        /\ tap_state' = MongodbTable!AfterRow(tap_state, h) /\ tap_emitted' = tap_emitted \cup {h}
        /\ \/ tap_loaded' = tap_emitted' /\ saved' = tap_state'
           \/ UNCHANGED <<tap_loaded, saved>>
        /\ UNCHANGED <<history, clock, time, method, due>>
    BY <1>7 DEF MongodbTable!FetchRow, MongodbTable!Fetch, MongodbTable!Records, MongodbTable!RecordsAndState, MongodbTable!table
  <2>2. /\ h \in Versions /\ result' \in Seq(Versions) /\ Len(result') = Len(result) - 1
        /\ Len(result) \in Nat /\ Len(result) >= 1 /\ h = result[1]
        /\ \A i \in 1..Len(result') : result'[i] = result[i + 1]
    BY <2>1, HeadTailProperties DEF MgTypeOK
  <2> HIDE DEF h
  <2>3. h.rk \in Nat /\ h.rk <= time /\ h.key \in Nat /\ h.ver \in Nat
    BY <2>2 DEF MgPast, Versions
  <2>4. /\ tap_state' \in MgBookmarks
        /\ method = "INCREMENTAL" => /\ tap_state'.replication_key_value = h.rk
                                     /\ tap_state'.last_id_fetched = tap_state.last_id_fetched
        /\ method = "FULL_TABLE" => /\ tap_state'.replication_key_value = tap_state.replication_key_value
                                    /\ tap_state'.last_id_fetched = h.key
        /\ tap_state'.max_id_value = tap_state.max_id_value
        /\ tap_state'.last_replication_method = tap_state.last_replication_method
        /\ tap_state'.replication_key_value <= time
    BY <2>1, <2>3 DEF MongodbTable!AfterRow, MgTypeOK, MgPast, MgBookmarks, MgMethods
  <2>5. /\ MongodbTable!Rows' = MongodbTable!Rows
        /\ \A c \in history : c.rk \in Nat /\ c.key \in Nat /\ c.ver \in Nat
        /\ MongodbTable!Rows \subseteq history /\ due \subseteq history
    BY <2>1, MgRows DEF MongodbTable!Rows, MongodbTable!VersionsOf, MgTypeOK, Versions
  <2>6. MgTypeOK'
    BY <2>1, <2>2, <2>4 DEF MgTypeOK
  <2>7. MgPast'
    BY <2>1, <2>2, <2>4 DEF MgPast, MgTypeOK
  <2>8. \A i \in 1..Len(result') : /\ i + 1 \in 1..Len(result) /\ 1 < i + 1 /\ result'[i] = result[i + 1]
    BY <2>2
  <2>9. \A i, j \in 1..Len(result') : i < j => i + 1 < j + 1
    BY <2>2
  <2>10. method \in {"INCREMENTAL", "FULL_TABLE"}
    BY DEF MgTypeOK, MgMethods
  <2>11. MgRead'
    <3>1. CASE method = "INCREMENTAL"
      <4>1. SUFFICES ASSUME NEW r \in MongodbTable!Rows, r \notin tap_emitted, r # h PROVE h.rk <= r.rk
        BY <2>1, <2>4, <2>5, <3>1 DEF MgRead, MgAhead
      <4>2. CASE \A i \in 1..Len(result) : result[i].rk <= r.rk
        BY <2>2, <4>2
      <4>3. CASE \E i \in 1..Len(result) : result[i] = r
        <5>1. PICK i \in 1..Len(result) : result[i] = r
          BY <4>3
        <5>2. 1 < i
          BY <2>2, <4>1, <5>1
        <5>3. QED
          BY <2>1, <2>2, <3>1, <5>1, <5>2 DEF MgFetch
      <4>4. QED
        BY <2>1, <3>1, <4>1, <4>2, <4>3 DEF MgFetch
    <3>2. CASE method = "FULL_TABLE"
      BY <2>1, <2>4, <2>5, <3>2 DEF MgRead, MgAhead
    <3>3. QED
      BY <2>10, <3>1, <3>2
  <2>12. MgSaved'
    BY <2>1, <2>5, <2>11 DEF MgSaved, MgRead, MgAhead
  <2>13. MgFetch'
    <3>1. SUFFICES ASSUME method = "INCREMENTAL"
                   PROVE  /\ \A i \in 1..Len(result') : tap_state'.replication_key_value <= result'[i].rk
                          /\ \A i, j \in 1..Len(result') : i < j => result'[i].rk <= result'[j].rk
                          /\ \A r \in MongodbTable!Rows : \/ r \in tap_emitted'
                                                          \/ \E i \in 1..Len(result') : result'[i] = r
                                                          \/ \A i \in 1..Len(result') : result'[i].rk <= r.rk
      BY <2>1, <2>5 DEF MgFetch
    <3>2. \A i \in 1..Len(result') : tap_state'.replication_key_value <= result'[i].rk
      BY <2>1, <2>2, <2>4, <2>8, <3>1 DEF MgFetch
    <3>3. \A i, j \in 1..Len(result') : i < j => result'[i].rk <= result'[j].rk
      BY <2>1, <2>8, <2>9, <3>1 DEF MgFetch
    <3>4. ASSUME NEW r \in MongodbTable!Rows, r \notin tap_emitted', \E i \in 1..Len(result) : result[i] = r
          PROVE  \E i \in 1..Len(result') : result'[i] = r
      <4>1. PICK i \in 1..Len(result) : result[i] = r
        BY <3>4
      <4>2. i # 1
        BY <2>1, <2>2, <3>4, <4>1
      <4>3. i - 1 \in 1..Len(result') /\ (i - 1) + 1 = i
        BY <2>2, <4>2
      <4>4. QED
        BY <2>2, <4>1, <4>3
    <3>5. QED
      BY <2>1, <2>8, <3>1, <3>2, <3>3, <3>4 DEF MgFetch
  <2>14. ASSUME method = "FULL_TABLE", NEW c \in due, ~MgHas(tap_emitted, c)
         PROVE  \/ h.key = c.key /\ h.ver >= c.ver
                \/ \E i \in 1..Len(result') : result'[i].key = c.key /\ result'[i].ver >= c.ver
    <3>1. PICK i \in 1..Len(result) : result[i].key = c.key /\ result[i].ver >= c.ver
      BY <2>1, <2>14 DEF MgCopy
    <3>2. CASE i = 1
      BY <2>2, <3>1, <3>2
    <3>3. CASE i # 1
      <4>1. i - 1 \in 1..Len(result') /\ (i - 1) + 1 = i
        BY <2>2, <3>3
      <4>2. QED
        BY <2>2, <3>1, <4>1
    <3>4. QED
      BY <3>2, <3>3
  <2>15. MgCopy'
    <3>1. SUFFICES ASSUME method = "FULL_TABLE"
                   PROVE  /\ \A i \in 1..Len(result') : result'[i].key <= tap_state'.max_id_value
                          /\ \A i, j \in 1..Len(result') : i < j => result'[i].key <= result'[j].key
                          /\ \A c \in due :
                                 \/ MgHas(tap_emitted', c)
                                 \/ \E i \in 1..Len(result') : result'[i].key = c.key /\ result'[i].ver >= c.ver
      BY <2>1 DEF MgCopy, MgHas
    <3>2. \A i \in 1..Len(result') : result'[i].key <= tap_state'.max_id_value
      BY <2>1, <2>4, <2>8, <3>1 DEF MgCopy
    <3>3. \A i, j \in 1..Len(result') : i < j => result'[i].key <= result'[j].key
      BY <2>1, <2>8, <2>9, <3>1 DEF MgCopy
    <3>4. ASSUME NEW c \in due
          PROVE  \/ MgHas(tap_emitted', c)
                 \/ \E i \in 1..Len(result') : result'[i].key = c.key /\ result'[i].ver >= c.ver
      BY <2>1, <2>14, <3>1 DEF MgHas
    <3>5. QED
      BY <3>2, <3>3, <3>4
  <2>16. h.key <= tap_state.max_id_value \/ method = "INCREMENTAL"
    BY <2>1, <2>2, <2>10 DEF MgCopy
  <2>17. MgBehind(tap_state, tap_emitted)'
    <3>1. SUFFICES ASSUME tap_state.max_id_value # 0, NEW c \in due, ~MgHas(tap_emitted', c)
                   PROVE  MgIn(tap_state', c)
      BY <2>1, <2>4 DEF MgBehind, MgHas, MgIn
    <3>2. ~MgHas(tap_emitted, c)
      BY <2>1, <3>1 DEF MgHas
    <3>3. CASE method = "INCREMENTAL"
      BY <2>1, <2>4, <3>1, <3>2, <3>3 DEF MgRange, MgBehind, MgIn
    <3>4. CASE method = "FULL_TABLE"
      <4>1. ~(h.key = c.key /\ h.ver >= c.ver)
        BY <2>1, <3>1 DEF MgHas
      <4>2. PICK i \in 1..Len(result') : result'[i].key = c.key /\ result'[i].ver >= c.ver
        BY <2>14, <3>2, <3>4, <4>1
      <4>3. /\ i + 1 \in 1..Len(result) /\ 1 < i + 1 /\ result[i + 1].key = c.key
            /\ 1 \in 1..Len(result)
        BY <2>2, <2>8, <4>2
      <4>4. result[1].key <= result[i + 1].key /\ result[i + 1].key <= tap_state.max_id_value
        BY <2>1, <3>4, <4>3 DEF MgCopy
      <4>5. QED
        BY <2>2, <2>4, <3>4, <4>3, <4>4 DEF MgIn
    <3>5. QED
      BY <2>10, <3>3, <3>4
  <2>18. MgRange'
    <3>1. MgBehind(saved, tap_loaded)'
      BY <2>1, <2>17 DEF MgRange, MgBehind, MgHas, MgIn
    <3>2. QED
      BY <2>1, <2>17, <3>1 DEF MgRange
  <2>19. MgCleared'
    <3>1. MgShape(tap_state')
      BY <2>3, <2>4, <2>10, <2>16 DEF MgCleared, MgShape
    <3>2. QED
      BY <2>1, <2>4, <3>1 DEF MgCleared, MgShape
  <2>20. QED
    BY <2>6, <2>7, <2>11, <2>12, <2>13, <2>15, <2>18, <2>19
<1>8. CASE MongodbTable!FetchedAll
  <2>1. /\ tap_pc = "fetch" /\ tap_pc' = "end"
        /\ tap_state' = [tap_state EXCEPT !.max_id_value = 0, !.last_id_fetched = 0]
        /\ UNCHANGED <<history, clock, time, method, result, due, tap_emitted, tap_loaded, saved>>
    BY <1>8 DEF MongodbTable!FetchedAll, MongodbTable!table, MongodbTable!pipe
  <2>2. /\ tap_state' \in MgBookmarks /\ tap_state'.max_id_value = 0 /\ tap_state'.last_id_fetched = 0
        /\ tap_state'.replication_key_value = tap_state.replication_key_value
        /\ tap_state'.last_replication_method = tap_state.last_replication_method
    BY <2>1 DEF MgTypeOK, MgBookmarks
  <2>3. MongodbTable!Rows' = MongodbTable!Rows
    BY <2>1 DEF MongodbTable!Rows, MongodbTable!VersionsOf
  <2>4. MgTypeOK' /\ MgPast' /\ MgCleared' /\ MgFetch' /\ MgCopy'
    BY <2>1, <2>2 DEF MgTypeOK, MgPast, MgCleared, MgShape, MgFetch, MgCopy
  <2>5. MgSaved' /\ MgRead'
    BY <2>1, <2>2, <2>3 DEF MgSaved, MgRead, MgAhead
  <2>6. MgRange'
    BY <2>1, <2>2 DEF MgRange, MgBehind, MgHas, MgIn
  <2>7. QED
    BY <2>4, <2>5, <2>6
<1>9. CASE MongodbTable!Complete
  <2>1. /\ tap_pc = "end" /\ tap_pc' = "idle" /\ tap_emitted' = tap_emitted /\ tap_loaded' = tap_emitted /\ saved' = tap_state
        /\ tap_state' = saved' /\ result' = << >>
        /\ UNCHANGED <<history, clock, time, method, due>>
    BY <1>9 DEF MongodbTable!Complete, MongodbTable!End, MongodbTable!Exit, MongodbTable!RecordsAndLastState, MongodbTable!table
  <2>2. MongodbTable!Rows' = MongodbTable!Rows /\ result' \in Seq(Versions) /\ Len(result') = 0
    BY <2>1 DEF MongodbTable!Rows, MongodbTable!VersionsOf
  <2>3. MgTypeOK' /\ MgPast' /\ MgCleared' /\ MgFetch' /\ MgCopy'
    BY <2>1, <2>2 DEF MgTypeOK, MgPast, MgCleared, MgShape, MgFetch, MgCopy
  <2>4. MgSaved' /\ MgRead'
    BY <2>1, <2>2 DEF MgSaved, MgRead, MgAhead
  <2>5. MgRange'
    BY <2>1 DEF MgRange, MgBehind, MgHas, MgIn
  <2>6. QED
    BY <2>3, <2>4, <2>5
<1>10. CASE MongodbTable!Die
  <2>1. /\ tap_pc' = "idle" /\ tap_emitted' = tap_loaded /\ UNCHANGED <<tap_loaded, saved>>
        /\ tap_state' = saved' /\ result' = << >>
        /\ UNCHANGED <<history, clock, time, method, due>>
    BY <1>10 DEF MongodbTable!Die, MongodbTable!Lost, MongodbTable!Exit, MongodbTable!table
  <2>2. MongodbTable!Rows' = MongodbTable!Rows /\ result' \in Seq(Versions) /\ Len(result') = 0
    BY <2>1 DEF MongodbTable!Rows, MongodbTable!VersionsOf
  <2>3. MgTypeOK' /\ MgPast' /\ MgCleared' /\ MgFetch' /\ MgCopy'
    BY <2>1, <2>2 DEF MgTypeOK, MgPast, MgCleared, MgShape, MgFetch, MgCopy
  <2>4. MgSaved' /\ MgRead'
    BY <2>1, <2>2 DEF MgSaved, MgRead, MgAhead
  <2>5. MgRange'
    BY <2>1 DEF MgRange, MgBehind, MgHas, MgIn
  <2>6. QED
    BY <2>3, <2>4, <2>5
<1>11. CASE UNCHANGED MongodbTable!tableTapVars
  <2>1. UNCHANGED <<history, clock, time, method, tap_pc, tap_state, saved, result, due, tap_loaded, tap_emitted>>
    BY <1>11 DEF MongodbTable!tableTapVars, MongodbTable!table, MongodbTable!pipe
  <2>2. MongodbTable!Rows' = MongodbTable!Rows
    BY <2>1 DEF MongodbTable!Rows, MongodbTable!VersionsOf
  <2>3. QED
    BY <2>1, <2>2 DEF MgTypeOK, MgPast, MgCleared, MgShape, MgSaved, MgRead, MgRange, MgBehind, MgHas,
                      MgIn, MgFetch, MgCopy, MgAhead
<1>12. QED
  BY <1>1, <1>2, <1>3, <1>4, <1>5, <1>6, <1>7, <1>8, <1>9, <1>10, <1>11 DEF MongodbTable!Next

\* A document that the saved bookmark does not select is loaded, as it was when the copy
\* began or later.
LEMMA MgImplies == MgInv => MongodbTable!MongodbTablesSkipNothing
<1> DEFINE kept == MongodbTable!clear_state_on_replication_change(saved)
<1>1. SUFFICES ASSUME MgInv, NEW c \in history, method = "FULL_TABLE" => c \in due,
                      ~MongodbTable!Reached(c), ~MongodbTable!Selects(saved, MongodbTable!Current(c))
               PROVE  FALSE
  BY DEF MongodbTable!MongodbTablesSkipNothing, MongodbTable!SkippedChanges, MongodbTable!Logged, MgInv, MgTypeOK
<1>2. \E r \in MongodbTable!Rows : r.key = c.key
  BY <1>1, MgRows, LastExists DEF MgInv, MgTypeOK, MgPast
<1>3. MongodbTable!Current(c) \in MongodbTable!Rows /\ MongodbTable!Current(c).key = c.key
  BY <1>2 DEF MongodbTable!Current
<1>4. /\ MongodbTable!Current(c).rk \in Nat /\ MongodbTable!Current(c).ver \in Nat /\ c.ver \in Nat /\ MongodbTable!Current(c).ver >= c.ver
      /\ c.key \in Nat /\ saved \in MgBookmarks
  BY <1>1, <1>3 DEF MongodbTable!Rows, MongodbTable!VersionsOf, MgInv, MgTypeOK, Versions
<1>5. /\ kept.replication_key_value \in {0, saved.replication_key_value}
      /\ \/ kept.max_id_value = 0
         \/ /\ kept.max_id_value = saved.max_id_value
            /\ kept.last_id_fetched = saved.last_id_fetched
  <2>1. CASE saved.last_replication_method \in {"", method}
    <3>1. kept = [saved EXCEPT !.last_replication_method = method]
      BY <2>1 DEF MongodbTable!clear_state_on_replication_change
    <3>2. QED
      BY <1>4, <3>1 DEF MgBookmarks
  <2>2. CASE saved.last_replication_method \notin {"", method}
    <3>1. kept = [last_replication_method |-> method, max_id_value |-> 0, last_id_fetched |-> 0,
                  replication_key_value |-> 0]
      <4>1. kept = [MongodbTable!EmptyState EXCEPT !.last_replication_method = method]
        BY <2>2 DEF MongodbTable!clear_state_on_replication_change
      <4> HIDE DEF kept
      <4>2. QED
        BY <4>1 DEF MongodbTable!EmptyState
    <3>2. QED
      BY <3>1
  <2>3. QED
    BY <2>1, <2>2
<1>6. MongodbTable!Selects(saved, MongodbTable!Current(c)) = IF method = "INCREMENTAL" THEN MongodbTable!FromKeyValue(kept, MongodbTable!Current(c))
                                   ELSE kept.max_id_value # 0 => MongodbTable!find_filter(kept, MongodbTable!Current(c))
  BY DEF MongodbTable!Selects
<1> HIDE DEF kept
<1>7. CASE method = "INCREMENTAL"
  <2>1. kept.replication_key_value # 0 /\ ~(MongodbTable!Current(c).rk >= kept.replication_key_value)
    BY <1>1, <1>6, <1>7 DEF MongodbTable!FromKeyValue
  <2>2. saved.replication_key_value \in Nat /\ ~(saved.replication_key_value <= MongodbTable!Current(c).rk)
    BY <1>4, <1>5, <2>1 DEF MgBookmarks
  <2>3. MongodbTable!Current(c) \in tap_loaded
    BY <1>1, <1>3, <2>2 DEF MgInv, MgSaved, MgAhead
  <2>4. QED
    BY <1>1, <1>3, <1>4, <2>3 DEF MongodbTable!Reached
<1>8. CASE method # "INCREMENTAL"
  <2>1. method = "FULL_TABLE"
    BY <1>1, <1>8 DEF MgInv, MgTypeOK, MgMethods
  <2>2. kept.max_id_value # 0 /\ ~MongodbTable!find_filter(kept, MongodbTable!Current(c))
    BY <1>1, <1>6, <1>8
  <2>3. saved.max_id_value # 0 /\ ~MgIn(saved, c)
    BY <1>3, <1>4, <1>5, <2>2 DEF MongodbTable!find_filter, MgIn, MgBookmarks
  <2>4. MgHas(tap_loaded, c)
    BY <1>1, <2>1, <2>3 DEF MgInv, MgRange, MgBehind
  <2>5. QED
    BY <1>1, <2>4 DEF MongodbTable!Reached, MgHas
<1>9. QED
  BY <1>7, <1>8

-----------------------------------------------------------------------------
(* tap-mysql: tables read by key value, or copied by ranges of the key     *)

MyBookmarks == [log_pos : Nat, max_pk : Nat, last_pk : Nat, replication_key : BOOLEAN, rk_value : Nat]

\* Types of the state of tap-mysql.
MyTypeOK ==
    /\ history \subseteq Versions /\ IsFiniteSet(history)
    /\ clock \in Nat /\ time \in Nat
    /\ method \in MysqlTable!Methods
    /\ tap_pc \in {"idle", "begin", "query", "fetch", "end"}
    /\ tap_state \in MyBookmarks /\ saved \in MyBookmarks
    /\ result \in Seq(Versions)
    /\ tap_loaded \subseteq tap_emitted
    /\ due \subseteq history
    /\ auto_inc \in BOOLEAN /\ current_log_pos \in Nat
    /\ passed \subseteq history

\* No change, key value or position is in the future.
MyPast ==
    /\ \A c \in history : c.ver <= clock /\ c.rk <= time /\ 1 <= c.key
    /\ saved.rk_value <= time /\ tap_state.rk_value <= time
    /\ ~saved.replication_key => saved.rk_value = 0
    /\ ~tap_state.replication_key => tap_state.rk_value = 0
    /\ saved.log_pos <= clock /\ tap_state.log_pos <= clock /\ current_log_pos <= clock
    /\ \A i \in 1..Len(result) : result[i].rk <= time

\* A transaction writes a row once.
MyOnce == \A c, d \in history : c.key = d.key /\ c.ver = d.ver => c = d

\* What the parts of the bookmarks say of each other: only a key that grows has
\* a range, and a LOG_BASED stream that copies one has a position.
MyShape ==
    /\ saved.max_pk = 0 => saved.last_pk = 0
    /\ tap_state.max_pk = 0 => tap_state.last_pk = 0
    /\ ~auto_inc => saved.max_pk = 0 /\ tap_state.max_pk = 0
    /\ tap_pc \in {"idle", "begin"} => tap_state = saved /\ current_log_pos = 0
    /\ tap_pc = "begin" /\ method = "LOG_BASED" => MysqlTable!binlog_stream_requires_historical(saved)
    /\ tap_pc = "query" => tap_state.max_pk = saved.max_pk /\ tap_state.last_pk = saved.last_pk
    /\ current_log_pos # 0 => method = "LOG_BASED" /\ ~auto_inc /\ tap_state.log_pos = 0
    /\ tap_pc \in {"query", "fetch", "end"} /\ method = "LOG_BASED" => (tap_state.log_pos # 0 <=> auto_inc)
    /\ tap_pc \in {"fetch", "end"} /\ method # "LOG_BASED" => tap_state.log_pos = 0
    /\ tap_pc \in {"fetch", "end"} /\ method = "INCREMENTAL" => tap_state.max_pk = 0 /\ tap_state.replication_key
    /\ tap_pc = "fetch" /\ method # "INCREMENTAL" /\ auto_inc /\ tap_state.max_pk = 0 => result = << >>
    /\ tap_pc = "end" => result = << >>

\* A SELECT from the key value of the bookmark st returns the row.
MyAhead(st, r) == st.replication_key => MysqlTable!FromKeyValue(st, r)

\* What the saved key value does not select is loaded.
MySaved == \A r \in MysqlTable!Rows : r \in tap_loaded \/ MyAhead(saved, r)

\* What the key value in memory does not select is written.
MyRead == tap_pc # "idle" => \A r \in MysqlTable!Rows : r \in tap_emitted \/ MyAhead(tap_state, r)

\* What the bookmark st has left behind, by its position or by its range, is
\* among the records R, or was out of a range of a FULL_TABLE copy.
MyHas(R, c) == \E d \in R : d.key = c.key /\ d.ver >= c.ver
MyIn(st, c) == st.max_pk # 0 /\ st.last_pk < c.key /\ c.key <= st.max_pk
MyLog(st, R) ==
    st.log_pos # 0 => \A c \in history : MyHas(R, c) \/ c.ver > st.log_pos \/ MyIn(st, c) \/ c \in passed
MyBehind(st, R) == st.max_pk # 0 => \A c \in due : MyHas(R, c) \/ MyIn(st, c)

MyRange == MyLog(saved, tap_loaded) /\ MyBehind(saved, tap_loaded)

\* What the position taken for a range leaves behind.
MyTaken ==
    tap_pc = "query" /\ method = "LOG_BASED" /\ saved.max_pk # 0 =>
        \A c \in history : MyHas(tap_loaded, c) \/ c.ver > tap_state.log_pos \/ MyIn(saved, c) \/ c \in passed

\* The rows come in the order of their key value; one that is not among them
\* changed since.
MyFetch ==
    tap_pc = "fetch" /\ method = "INCREMENTAL" =>
        /\ \A i \in 1..Len(result) : tap_state.rk_value <= result[i].rk
        /\ \A i, j \in 1..Len(result) : i < j => result[i].rk <= result[j].rk
        /\ \A r \in MysqlTable!Rows : \/ r \in tap_emitted
                                      \/ \E i \in 1..Len(result) : result[i] = r
                                      \/ \A i \in 1..Len(result) : result[i].rk <= r.rk

\* The rows of a range come in the order of their key, with all that the
\* position the copy will have leaves behind and all that are due.
MyPos == IF current_log_pos # 0 THEN current_log_pos ELSE tap_state.log_pos
MyComes(c) == \E i \in 1..Len(result) : result[i].key = c.key /\ result[i].ver >= c.ver
MyCopy ==
    tap_pc \in {"fetch", "end"} /\ method # "INCREMENTAL" =>
        /\ tap_state.max_pk # 0 =>
              /\ \A i \in 1..Len(result) : result[i].key <= tap_state.max_pk
              /\ \A i, j \in 1..Len(result) : i < j => result[i].key < result[j].key
        /\ MyPos # 0 => \A c \in history : c.ver > MyPos \/ MyHas(tap_emitted, c) \/ MyComes(c) \/ c \in passed
        /\ \A c \in due : MyHas(tap_emitted, c) \/ MyComes(c)

\* The invariant of tap-mysql.
MyInv == MyTypeOK /\ MyPast /\ MyOnce /\ MyShape /\ MySaved /\ MyRead /\ MyRange /\ MyTaken /\ MyFetch /\ MyCopy

\* The rows of the table are the last versions of their keys.
LEMMA MyRows == MysqlTable!Rows = LastOf(history) /\ MysqlTable!Rows \subseteq history
BY DEF MysqlTable!Rows, MysqlTable!VersionsOf, LastOf

\* An empty table has no row to skip.
LEMMA MyInit == MysqlTable!Init => MyInv
<1> SUFFICES ASSUME MysqlTable!Init PROVE MyInv
  OBVIOUS
<1>1. /\ history = {} /\ clock = 0 /\ time = 1 /\ tap_pc = "idle" /\ result = << >>
      /\ tap_state = MysqlTable!EmptyState /\ saved = MysqlTable!EmptyState /\ tap_emitted = {} /\ tap_loaded = {} /\ due = {}
      /\ method \in MysqlTable!Methods /\ auto_inc \in BOOLEAN /\ current_log_pos = 0 /\ passed = {}
  BY DEF MysqlTable!Init, MysqlTable!TableInit
<1>2. /\ MysqlTable!EmptyState \in MyBookmarks /\ MysqlTable!EmptyState.rk_value = 0
      /\ MysqlTable!EmptyState.max_pk = 0 /\ MysqlTable!EmptyState.last_pk = 0 /\ MysqlTable!EmptyState.log_pos = 0
  BY DEF MysqlTable!EmptyState, MyBookmarks
<1>3. IsFiniteSet(history) /\ MysqlTable!Rows = {}
  BY <1>1, MyRows, FS_EmptySet
<1>4. result \in Seq(Versions) /\ Len(result) = 0
  BY <1>1
<1>5. MyTypeOK /\ MyPast /\ MyOnce
  BY <1>1, <1>2, <1>3, <1>4 DEF MyTypeOK, MyPast, MyOnce
<1>6. MyShape
  BY <1>1, <1>2 DEF MyShape
<1>7. MySaved /\ MyRead /\ MyRange /\ MyTaken /\ MyFetch /\ MyCopy
  BY <1>1, <1>2, <1>3, <1>4 DEF MySaved, MyRead, MyRange, MyTaken, MyLog, MyBehind, MyFetch, MyCopy
<1>8. QED
  BY <1>5, <1>6, <1>7 DEF MyInv

\* A SELECT returns every row once, in the order it asks for.
LEMMA MySorted ==
    ASSUME NEW R, R \subseteq MysqlTable!Rows, MyTypeOK, NEW rows,
           rows \in MysqlTable!Ordered(R, MysqlTable!ByRk) \/ rows \in MysqlTable!Ordered(R, MysqlTable!ByKey) \/ rows \in MysqlTable!Ordered(R, MysqlTable!Anyhow)
    PROVE  /\ rows \in Seq(Versions)
           /\ \A i \in 1..Len(rows) : rows[i] \in R
           /\ \A i, j \in 1..Len(rows) : i # j => rows[i] # rows[j]
           /\ rows \in MysqlTable!Ordered(R, MysqlTable!ByRk) =>
                  \A i, j \in 1..Len(rows) : i < j => rows[i].rk <= rows[j].rk
           /\ rows \in MysqlTable!Ordered(R, MysqlTable!ByKey) =>
                  \A i, j \in 1..Len(rows) : i < j => rows[i].key <= rows[j].key
           /\ \A r \in R : \E i \in 1..Len(rows) : rows[i] = r
<1>1. R \subseteq Versions /\ IsFiniteSet(R)
  BY MyRows, FS_Subset DEF MyTypeOK
<1>2. /\ rows \in [1..Cardinality(R) -> R]
      /\ \A i, j \in DOMAIN rows : i # j => rows[i] # rows[j]
      /\ rows \in MysqlTable!Ordered(R, MysqlTable!ByRk) =>
             \A i, j \in DOMAIN rows : i < j => rows[i].rk <= rows[j].rk
      /\ rows \in MysqlTable!Ordered(R, MysqlTable!ByKey) =>
             \A i, j \in DOMAIN rows : i < j => rows[i].key <= rows[j].key
  BY Counts DEF MysqlTable!Ordered, MysqlTable!ByRk, MysqlTable!ByKey
<1>3. /\ rows \in Seq(R) /\ Len(rows) = Cardinality(R)
      /\ \A r \in R : \E i \in 1..Len(rows) : rows[i] = r
  BY <1>1, <1>2, Arranged
<1>4. QED
  BY <1>1, <1>2, <1>3

\* Two rows of a table have different keys.
LEMMA MyKeys == MyInv => \A r, s \in MysqlTable!Rows : r.key = s.key => r = s
<1> SUFFICES ASSUME MyInv, NEW r \in MysqlTable!Rows, NEW s \in MysqlTable!Rows, r.key = s.key PROVE r = s
  OBVIOUS
<1>1. r \in history /\ s \in history /\ r.ver <= s.ver /\ s.ver <= r.ver
  BY DEF MysqlTable!Rows, MysqlTable!VersionsOf
<1>2. r.ver \in Nat /\ s.ver \in Nat
  BY <1>1 DEF MyInv, MyTypeOK, Versions
<1>3. r.ver = s.ver
  BY <1>1, <1>2
<1>4. QED
  BY <1>1, <1>3 DEF MyInv, MyOnce

\* The largest key is that of a row.
LEMMA MyMaxPk ==
    MyInv => MysqlTable!MaxPk \in Nat /\ (\A c \in history : c.key <= MysqlTable!MaxPk) /\ (history # {} => MysqlTable!MaxPk # 0)
<1> SUFFICES ASSUME MyInv
             PROVE  MysqlTable!MaxPk \in Nat /\ (\A c \in history : c.key <= MysqlTable!MaxPk) /\ (history # {} => MysqlTable!MaxPk # 0)
  OBVIOUS
<1> DEFINE P == {c.key : c \in history}
<1>1. CASE history = {}
  BY <1>1 DEF MysqlTable!MaxPk
<1>2. CASE history # {}
  <2>1. P \subseteq Nat /\ P # {} /\ \A k \in P : 1 <= k
    BY <1>2 DEF MyInv, MyTypeOK, MyPast, Versions
  <2>2. IsFiniteSet(P)
    <3> DEFINE f == [c \in history |-> c.key]
    <3>1. f \in Surjection(history, P)
      BY DEF Surjection
    <3>2. QED
      BY <3>1, FS_Surjection DEF MyInv, MyTypeOK
  <2>3. MysqlTable!MaxPk = MysqlTable!LargestOf(P)
    BY <1>2 DEF MysqlTable!MaxPk
  <2>4. \A c \in history : c.key \in P
    OBVIOUS
  <2> HIDE DEF P
  <2>5. \E n \in P : \A m \in P : m <= n
    BY <2>1, <2>2, FiniteLargest
  <2>6. MysqlTable!LargestOf(P) \in P /\ \A m \in P : m <= MysqlTable!LargestOf(P)
    BY <2>5 DEF MysqlTable!LargestOf
  <2>7. PICK n : n = MysqlTable!MaxPk
    OBVIOUS
  <2>8. n \in P /\ \A m \in P : m <= n
    BY <2>3, <2>6, <2>7
  <2>9. n \in Nat /\ 1 <= n
    BY <2>1, <2>8
  <2>10. \A c \in history : c.key <= n
    BY <2>4, <2>8
  <2>11. QED
    BY <2>7, <2>9, <2>10
<1>3. QED
  BY <1>1, <1>2

\* A transaction of the table: its rows come after every bookmark of the log.
LEMMA MyChange == MyInv /\ (\E K \in MysqlTable!Batches : MysqlTable!ChangeRows(K)) => MyInv'
<1> SUFFICES ASSUME MyInv, NEW K \in MysqlTable!Batches, MysqlTable!ChangeRows(K) PROVE MyInv'
  OBVIOUS
<1> USE DEF MyInv
<1> DEFINE N == Changed(K, clock + 1, time)
<1>1. /\ clock' = clock + 1 /\ history' = history \cup N
      /\ UNCHANGED <<time, method, tap_pc, tap_state, saved, result, due, tap_loaded, tap_emitted, auto_inc, current_log_pos, passed>>
  BY DEF MysqlTable!ChangeRows, MysqlTable!Change, MysqlTable!pipe, Changed
<1>2. K \in SUBSET (1..MaxKey) /\ K \subseteq Nat /\ \A k \in K : 1 <= k
  BY DEF MysqlTable!Batches, MysqlTable!PrimaryKeys
<1>3. IsFiniteSet(history')
  <2>1. IsFiniteSet(history) /\ MaxKey \in Nat
    BY DatabasesAssumption DEF MyTypeOK
  <2>2. QED
    BY <1>1, <1>2, <2>1, FiniteChange
<1>4. /\ N \subseteq Versions
      /\ \A c \in N : c.rk = time /\ c.ver = clock + 1 /\ c.key \in K
      /\ \A c, d \in N : c.key = d.key => c = d
  <2>1. clock + 1 \in Nat /\ time \in Nat
    BY DEF MyTypeOK
  <2>2. \A v \in Nat : Changed(K, v, time) \subseteq Versions
    BY <1>2, <2>1 DEF Versions, Changed
  <2>3. \A v : \A c \in Changed(K, v, time) : c.rk = time /\ c.ver = v /\ c.key \in K
    BY DEF Changed
  <2>4. \A v : \A c, d \in Changed(K, v, time) : c.key = d.key => c = d
    BY DEF Changed
  <2>5. QED
    BY <2>1, <2>2, <2>3, <2>4
<1> HIDE DEF N
<1>5. \A r \in MysqlTable!Rows' : r \in N \/ r \in MysqlTable!Rows
  <2>1. MysqlTable!Rows' = LastOf(history \cup N)
    BY <1>1 DEF MysqlTable!Rows, MysqlTable!VersionsOf, LastOf
  <2>2. \A r \in LastOf(history \cup N) : r \in N \/ r \in LastOf(history)
    BY DEF LastOf
  <2>3. QED
    BY <2>1, <2>2, MyRows
<1>6. \A c \in history : c.ver \in Nat /\ c.ver < clock + 1
  BY DEF MyTypeOK, MyPast, Versions
<1>7. MyTypeOK'
  BY <1>1, <1>3, <1>4 DEF MyTypeOK
<1>8. MyPast'
  <2>1. \A c \in history' : c.ver <= clock' /\ c.rk <= time' /\ 1 <= c.key
    BY <1>1, <1>2, <1>4 DEF MyTypeOK, MyPast, Versions
  <2>2. saved.log_pos <= clock' /\ tap_state.log_pos <= clock' /\ current_log_pos <= clock'
    BY <1>1 DEF MyTypeOK, MyPast, MyBookmarks
  <2>3. QED
    BY <1>1, <2>1, <2>2 DEF MyPast
<1>9. MyOnce'
  BY <1>1, <1>4, <1>6 DEF MyOnce
<1>10. MyShape'
  BY <1>1 DEF MyShape, MysqlTable!binlog_stream_requires_historical
<1>11. \A r \in N : MyAhead(saved, r) /\ MyAhead(tap_state, r)
  BY <1>4 DEF MyAhead, MysqlTable!FromKeyValue, MyPast
<1>12. MySaved' /\ MyRead'
  BY <1>1, <1>5, <1>11 DEF MySaved, MyRead, MyAhead, MysqlTable!FromKeyValue
<1>13. /\ saved.log_pos \in Nat /\ MyPos \in Nat /\ tap_state.log_pos \in Nat
       /\ saved.log_pos <= clock /\ MyPos <= clock /\ tap_state.log_pos <= clock
  BY DEF MyPos, MyTypeOK, MyBookmarks, MyPast
<1>14. \A c \in N : c.ver > saved.log_pos /\ c.ver > MyPos /\ c.ver > tap_state.log_pos
  BY <1>4, <1>13 DEF MyTypeOK
<1>15. MyRange' /\ MyTaken'
  BY <1>1, <1>14 DEF MyRange, MyTaken, MyLog, MyBehind, MyHas, MyIn
<1>16. MyCopy'
  <2>1. MyPos' = MyPos
    BY <1>1 DEF MyPos
  <2>2. QED
    BY <1>1, <1>14, <2>1 DEF MyCopy, MyHas, MyComes
<1>17. MyFetch'
  BY <1>1, <1>4, <1>5 DEF MyFetch, MyPast
<1>18. QED
  BY <1>7, <1>8, <1>9, <1>10, <1>12, <1>15, <1>16, <1>17

\* A change of the method leaves the bookmark as it is until a run starts.
LEMMA MyConfigure == MyInv /\ (\E m \in MysqlTable!Methods : MysqlTable!Configure(m)) => MyInv'
<1> SUFFICES ASSUME MyInv, NEW m \in MysqlTable!Methods, MysqlTable!Configure(m) PROVE MyInv'
  OBVIOUS
<1> USE DEF MyInv
<1>1. /\ tap_pc = "idle" /\ method' = m
      /\ UNCHANGED <<history, clock, time, tap_pc, tap_state, saved, result, due, tap_loaded, tap_emitted, auto_inc, current_log_pos, passed>>
  BY DEF MysqlTable!Configure, MysqlTable!SwitchMethod, MysqlTable!pipe
<1>2. MyTypeOK' /\ MyPast' /\ MyOnce'
  BY <1>1 DEF MyTypeOK, MyPast, MyOnce
<1>3. MyShape'
  BY <1>1 DEF MyShape
<1>4. MySaved' /\ MyRead' /\ MyFetch' /\ MyCopy'
  BY <1>1 DEF MySaved, MyRead, MyFetch, MyCopy, MyAhead, MysqlTable!FromKeyValue, MysqlTable!Rows, MysqlTable!VersionsOf
<1>5. MyRange' /\ MyTaken'
  BY <1>1 DEF MyRange, MyTaken, MyLog, MyBehind, MyHas, MyIn
<1>6. QED
  BY <1>2, <1>3, <1>4, <1>5

\* Time passes.
LEMMA MyTick == MyInv /\ MysqlTable!Tick /\ UNCHANGED <<auto_inc, current_log_pos, passed>> => MyInv'
<1> SUFFICES ASSUME MyInv, MysqlTable!Tick, UNCHANGED <<auto_inc, current_log_pos, passed>> PROVE MyInv'
  OBVIOUS
<1> USE DEF MyInv
<1>1. /\ time' = time + 1
      /\ UNCHANGED <<history, clock, method, tap_pc, tap_state, saved, result, due, tap_loaded, tap_emitted, auto_inc, current_log_pos, passed>>
  BY DEF MysqlTable!Tick, MysqlTable!pipe
<1>2. MysqlTable!Rows' = MysqlTable!Rows /\ MyPos' = MyPos
  BY <1>1 DEF MysqlTable!Rows, MysqlTable!VersionsOf, MyPos
<1>3. MyTypeOK' /\ MyOnce'
  BY <1>1 DEF MyTypeOK, MyOnce
<1>4. MySaved' /\ MyRead' /\ MyFetch'
  BY <1>1, <1>2 DEF MySaved, MyRead, MyFetch, MyAhead, MysqlTable!FromKeyValue
<1>5. MyRange' /\ MyTaken' /\ MyCopy'
  BY <1>1, <1>2 DEF MyRange, MyTaken, MyLog, MyBehind, MyHas, MyIn, MyCopy, MyComes
<1>6. MyShape'
  BY <1>1 DEF MyShape, MysqlTable!binlog_stream_requires_historical
<1>7. MyPast'
  <2>1. /\ \A c \in history : c.ver \in Nat /\ c.rk \in Nat
        /\ saved.rk_value \in Nat /\ tap_state.rk_value \in Nat /\ time \in Nat
    BY DEF MyTypeOK, MyBookmarks, Versions
  <2>2. \A i \in 1..Len(result) : result[i].rk \in Nat
    <3>1. \A i \in 1..Len(result) : result[i] \in Versions
      BY DEF MyTypeOK
    <3>2. QED
      BY <3>1 DEF Versions
  <2>3. QED
    BY <1>1, <2>1, <2>2 DEF MyPast
<1>8. QED
  BY <1>3, <1>4, <1>5, <1>6, <1>7

\* A run starts from the saved bookmark, cleared if its method has changed.
LEMMA MyStart == MyInv /\ MysqlTable!Start => MyInv'
<1> SUFFICES ASSUME MyInv, MysqlTable!Start PROVE MyInv'
  OBVIOUS
<1> USE DEF MyInv
<1>1. /\ tap_pc = "idle" /\ tap_pc' = "begin" /\ tap_state' = saved
      /\ method = "LOG_BASED" => MysqlTable!binlog_stream_requires_historical(saved)
      /\ UNCHANGED <<history, clock, time, method, saved, result, due, tap_loaded, tap_emitted, auto_inc, current_log_pos, passed>>
  BY DEF MysqlTable!Start, MysqlTable!pipe, MysqlTable!table
<1>2. tap_state = saved /\ tap_state' = tap_state
  BY <1>1 DEF MyShape
<1>3. MysqlTable!Rows' = MysqlTable!Rows
  BY <1>1 DEF MysqlTable!Rows, MysqlTable!VersionsOf
<1>4. MyTypeOK' /\ MyPast' /\ MyOnce' /\ MyFetch' /\ MyCopy'
  BY <1>1 DEF MyTypeOK, MyPast, MyOnce, MyFetch, MyCopy
<1>5. MyShape'
  BY <1>1, <1>2 DEF MyShape, MysqlTable!binlog_stream_requires_historical
<1>6. MySaved' /\ MyRead'
  BY <1>1, <1>3 DEF MyTypeOK, MySaved, MyRead, MyAhead, MysqlTable!FromKeyValue
<1>7. MyRange' /\ MyTaken'
  BY <1>1 DEF MyRange, MyTaken, MyLog, MyBehind, MyHas, MyIn
<1>8. QED
  BY <1>4, <1>5, <1>6, <1>7

\* The position of the log is taken before the copy: what changes later is in the log.
LEMMA MyBegin == MyInv /\ MysqlTable!Begin => MyInv'
<1> SUFFICES ASSUME MyInv, MysqlTable!Begin PROVE MyInv'
  OBVIOUS
<1> USE DEF MyInv
<1>1. /\ tap_pc = "begin" /\ tap_pc' = "query"
      /\ UNCHANGED <<history, clock, time, method, saved, result, due, tap_loaded, tap_emitted, auto_inc>>
      /\ tap_state = saved /\ current_log_pos = 0
  BY DEF MysqlTable!Begin, MysqlTable!pipe, MysqlTable!table, MyShape
<1>2. MysqlTable!Rows' = MysqlTable!Rows
  BY <1>1 DEF MysqlTable!Rows, MysqlTable!VersionsOf
<1>3. /\ tap_state' \in MyBookmarks /\ current_log_pos' \in Nat
      /\ tap_state'.max_pk = saved.max_pk /\ tap_state'.last_pk = saved.last_pk
      /\ tap_state'.replication_key = saved.replication_key /\ tap_state'.rk_value = saved.rk_value
      /\ \/ /\ tap_state'.log_pos = saved.log_pos /\ current_log_pos' = 0
            /\ method # "LOG_BASED" \/ (saved.max_pk # 0 /\ saved.log_pos # 0)
         \/ /\ method = "LOG_BASED" /\ auto_inc /\ (saved.max_pk = 0 \/ saved.log_pos = 0)
            /\ tap_state'.log_pos = clock /\ clock # 0 /\ current_log_pos' = 0
         \/ /\ method = "LOG_BASED" /\ ~auto_inc /\ saved.max_pk = 0
            /\ tap_state'.log_pos = 0 /\ clock # 0 /\ current_log_pos' = clock
  <2>1. saved \in MyBookmarks /\ clock \in Nat /\ auto_inc \in BOOLEAN
    BY DEF MyTypeOK
  <2>2. CASE method # "LOG_BASED" \/ (tap_state.max_pk # 0 /\ tap_state.log_pos # 0)
    <3>1. tap_state' = tap_state /\ current_log_pos' = current_log_pos
      BY <2>2 DEF MysqlTable!Begin
    <3>2. QED
      BY <1>1, <2>1, <2>2, <3>1 DEF MyBookmarks
  <2>3. CASE method = "LOG_BASED" /\ ~(tap_state.max_pk # 0 /\ tap_state.log_pos # 0)
    <3>1. /\ clock > 0
          /\ tap_state' = [tap_state EXCEPT !.log_pos = IF auto_inc THEN clock ELSE @]
          /\ current_log_pos' = IF auto_inc THEN 0 ELSE clock
      BY <2>3 DEF MysqlTable!Begin
    <3>2. (saved.max_pk = 0 \/ saved.log_pos = 0) /\ (~auto_inc => saved.max_pk = 0 /\ saved.last_pk = 0)
      BY <1>1, <2>3 DEF MyShape
    <3>3. ~auto_inc => saved.log_pos = 0
      BY <1>1, <2>3, <3>2 DEF MyShape, MysqlTable!binlog_stream_requires_historical
    <3>4. CASE auto_inc
      <4>1. tap_state' = [saved EXCEPT !.log_pos = clock]
        BY <1>1, <3>1, <3>4
      <4>2. /\ tap_state' \in MyBookmarks /\ tap_state'.log_pos = clock
            /\ tap_state'.max_pk = saved.max_pk /\ tap_state'.last_pk = saved.last_pk
            /\ tap_state'.replication_key = saved.replication_key /\ tap_state'.rk_value = saved.rk_value
        BY <2>1, <4>1 DEF MyBookmarks
      <4>3. QED
        BY <2>1, <2>3, <3>1, <3>2, <3>4, <4>2
    <3>5. CASE ~auto_inc
      <4>1. tap_state' = saved
        BY <1>1, <2>1, <3>1, <3>5 DEF MyBookmarks
      <4>2. current_log_pos' = clock
        BY <3>1, <3>5
      <4>3. clock # 0
        BY <2>1, <3>1
      <4>4. tap_state'.log_pos = 0
        BY <3>3, <3>5, <4>1
      <4>5. QED
        BY <2>1, <2>3, <3>2, <3>5, <4>1, <4>2, <4>3, <4>4
    <3>6. QED
      BY <3>4, <3>5
  <2>4. QED
    BY <2>2, <2>3
<1>4. MyTypeOK' /\ MyPast' /\ MyOnce' /\ MyFetch' /\ MyCopy'
  <2>1. passed' \subseteq history
    BY DEF MysqlTable!Begin, MysqlTable!LeftBehind, MyTypeOK
  <2>2. QED
    BY <1>1, <1>3, <2>1 DEF MyTypeOK, MyPast, MyOnce, MyFetch, MyCopy
<1>5. MyShape'
  BY <1>1, <1>3 DEF MyShape
<1>6. MySaved' /\ MyRead'
  BY <1>1, <1>2, <1>3 DEF MyTypeOK, MySaved, MyRead, MyAhead, MysqlTable!FromKeyValue
<1>7. passed \subseteq passed'
  BY DEF MysqlTable!Begin
<1>8. MyRange'
  BY <1>1, <1>7 DEF MyRange, MyLog, MyBehind, MyHas, MyIn
<1>9. MyTaken'
  <2>1. SUFFICES ASSUME method = "LOG_BASED", saved.max_pk # 0, NEW c \in history
                 PROVE  MyHas(tap_loaded, c) \/ c.ver > tap_state'.log_pos \/ MyIn(saved, c) \/ c \in passed'
    BY <1>1 DEF MyTaken, MyHas, MyIn
  <2>2. CASE saved.log_pos # 0
    <3>1. tap_state'.log_pos = saved.log_pos
      BY <1>3, <2>1, <2>2
    <3>2. QED
      BY <1>7, <2>1, <2>2, <3>1 DEF MyRange, MyLog
  <2>3. CASE saved.log_pos = 0
    <3>1. SUFFICES ASSUME ~MyHas(tap_loaded, c), ~MyIn(saved, c) PROVE c \in passed'
      OBVIOUS
    <3>2. c.key \in Nat /\ saved.last_pk \in Nat /\ saved.max_pk \in Nat
      BY <2>1 DEF MyTypeOK, MyBookmarks, Versions
    <3>3. c \in MysqlTable!LeftBehind(tap_state)
      BY <1>1, <2>1, <2>3, <3>1, <3>2 DEF MysqlTable!LeftBehind, MyIn
    <3>4. ~MysqlTable!Reached(c)
      BY <3>1 DEF MysqlTable!Reached, MyHas
    <3>5. QED
      BY <3>3, <3>4 DEF MysqlTable!Begin
  <2>4. QED
    BY <2>2, <2>3
<1>10. QED
  BY <1>4, <1>5, <1>6, <1>8, <1>9

\* The SELECT of an incremental run.
LEMMA MyQueryIncremental == MyInv /\ MysqlTable!QueryIncremental => MyInv'
<1> SUFFICES ASSUME MyInv, MysqlTable!QueryIncremental PROVE MyInv'
  OBVIOUS
<1> USE DEF MyInv
<1> DEFINE st == [MysqlTable!whitelist_bookmark_keys(tap_state) EXCEPT !.replication_key = TRUE]
           R  == {r \in MysqlTable!Rows : MysqlTable!FromKeyValue(st, r)}
<1>1. PICK rows \in MysqlTable!Ordered(R, MysqlTable!ByRk) : MysqlTable!Execute(st, rows, FALSE)
  BY DEF MysqlTable!QueryIncremental
<1>2. /\ tap_pc = "query" /\ tap_pc' = "fetch" /\ method = "INCREMENTAL" /\ result' = rows /\ tap_state' = st
      /\ due' = {}
      /\ UNCHANGED <<history, clock, time, method, saved, tap_loaded, tap_emitted, auto_inc, current_log_pos, passed>>
  BY <1>1 DEF MysqlTable!QueryIncremental, MysqlTable!Execute, MysqlTable!table, MysqlTable!pipe
<1>3. MysqlTable!Rows' = MysqlTable!Rows /\ \A r \in MysqlTable!Rows : r.rk \in Nat /\ r.rk <= time
  BY <1>2, MyRows DEF MysqlTable!Rows, MysqlTable!VersionsOf, MyTypeOK, Versions, MyPast
<1>4. st = [log_pos |-> 0, max_pk |-> 0, last_pk |-> 0, replication_key |-> TRUE, rk_value |-> tap_state.rk_value]
  <2>1. MysqlTable!whitelist_bookmark_keys(tap_state) =
            [MysqlTable!EmptyState EXCEPT !.replication_key = tap_state.replication_key, !.rk_value = tap_state.rk_value]
    BY <1>2 DEF MysqlTable!whitelist_bookmark_keys
  <2>2. st = [[MysqlTable!EmptyState EXCEPT !.replication_key = tap_state.replication_key, !.rk_value = tap_state.rk_value]
                 EXCEPT !.replication_key = TRUE]
    BY <2>1
  <2> HIDE DEF st
  <2>3. QED
    BY <2>2 DEF MysqlTable!EmptyState
<1> HIDE DEF st
<1>5. /\ st \in MyBookmarks /\ st.log_pos = 0 /\ st.max_pk = 0 /\ st.last_pk = 0
      /\ st.replication_key /\ st.rk_value = tap_state.rk_value
  BY <1>4 DEF MyTypeOK, MyBookmarks
<1>6. /\ ~tap_state.replication_key => tap_state.rk_value = 0
      /\ \A r \in MysqlTable!Rows : r \in tap_emitted \/ MyAhead(tap_state, r)
  BY <1>2 DEF MyPast, MyRead
<1>7. /\ \A r \in MysqlTable!Rows : r \in tap_emitted \/ r \in R
      /\ \A r \in R : st.rk_value <= r.rk /\ r \in MysqlTable!Rows
  BY <1>3, <1>5, <1>6 DEF MyAhead, MysqlTable!FromKeyValue
<1>8. R \subseteq MysqlTable!Rows
  OBVIOUS
<1> HIDE DEF R
<1>9. /\ rows \in Seq(Versions) /\ \A i \in 1..Len(rows) : rows[i] \in R
      /\ \A i, j \in 1..Len(rows) : i < j => rows[i].rk <= rows[j].rk
      /\ \A r \in R : \E i \in 1..Len(rows) : rows[i] = r
  BY <1>1, <1>8, MySorted
<1>10. MyTypeOK' /\ MyOnce'
  BY <1>2, <1>5, <1>9 DEF MyTypeOK, MyOnce
<1>11. MySaved' /\ MyRead'
  BY <1>2, <1>3, <1>5, <1>7 DEF MySaved, MyRead, MyAhead, MysqlTable!FromKeyValue
<1>12. MyPast'
  BY <1>2, <1>3, <1>5, <1>7, <1>9 DEF MyPast, MyTypeOK
<1>13. MyShape'
  BY <1>2, <1>5 DEF MyShape
<1>14. MyRange' /\ MyTaken' /\ MyCopy'
  BY <1>2 DEF MyRange, MyTaken, MyLog, MyBehind, MyHas, MyIn, MyCopy
<1>15. MyFetch'
  BY <1>2, <1>3, <1>7, <1>9 DEF MyFetch
<1>16. QED
  BY <1>10, <1>11, <1>12, <1>13, <1>14, <1>15

\* What the bookmark of a strategy that copies a table keeps.
LEMMA MyKept ==
    ASSUME MyInv, method # "INCREMENTAL", NEW st \in MyBookmarks
    PROVE  LET kept == MysqlTable!whitelist_bookmark_keys(st)
           IN  /\ kept \in MyBookmarks
               /\ kept.max_pk = st.max_pk /\ kept.last_pk = st.last_pk
               /\ ~kept.replication_key /\ kept.rk_value = 0
               /\ kept.log_pos = IF method = "LOG_BASED" THEN st.log_pos ELSE 0
<1>1. method \in {"LOG_BASED", "FULL_TABLE"}
  BY DEF MyInv, MyTypeOK, MysqlTable!Methods
<1>2. CASE method = "FULL_TABLE"
  <2>1. MysqlTable!whitelist_bookmark_keys(st) = [MysqlTable!EmptyState EXCEPT !.max_pk = st.max_pk, !.last_pk = st.last_pk]
    BY <1>2 DEF MysqlTable!whitelist_bookmark_keys
  <2>2. MysqlTable!whitelist_bookmark_keys(st) = [log_pos |-> 0, max_pk |-> st.max_pk, last_pk |-> st.last_pk,
                                       replication_key |-> FALSE, rk_value |-> 0]
    BY <2>1 DEF MysqlTable!EmptyState
  <2>3. QED
    BY <1>2, <2>2 DEF MyBookmarks
<1>3. CASE method = "LOG_BASED"
  <2>1. MysqlTable!whitelist_bookmark_keys(st) = [st EXCEPT !.replication_key = FALSE, !.rk_value = 0]
    BY <1>3 DEF MysqlTable!whitelist_bookmark_keys
  <2>2. MysqlTable!whitelist_bookmark_keys(st) = [log_pos |-> st.log_pos, max_pk |-> st.max_pk, last_pk |-> st.last_pk,
                                       replication_key |-> FALSE, rk_value |-> 0]
    BY <2>1 DEF MyBookmarks
  <2>3. QED
    BY <1>3, <2>2 DEF MyBookmarks
<1>4. QED
  BY <1>1, <1>2, <1>3

\* The SELECT of a copy: from behind the last key written to the largest key when the
\* copy began.
LEMMA MyQueryTable == MyInv /\ MysqlTable!QueryTable => MyInv'
<1> SUFFICES ASSUME MyInv, MysqlTable!QueryTable PROVE MyInv'
  OBVIOUS
<1> USE DEF MyInv
<1> DEFINE kept == MysqlTable!whitelist_bookmark_keys(tap_state)
           st   == IF auto_inc /\ kept.max_pk = 0 THEN [kept EXCEPT !.max_pk = MysqlTable!MaxPk] ELSE kept
           R    == IF auto_inc /\ st.max_pk # 0 THEN {r \in MysqlTable!Rows : MysqlTable!pk_clause(st, r)} ELSE MysqlTable!Rows
<1>1. /\ method # "INCREMENTAL"
      /\ \E rows : /\ IF auto_inc /\ st.max_pk # 0 THEN rows \in MysqlTable!Ordered(R, MysqlTable!ByKey)
                                                    ELSE rows \in MysqlTable!Ordered(R, MysqlTable!Anyhow)
                   /\ MysqlTable!Execute(st, rows, kept.max_pk # 0)
  BY DEF MysqlTable!QueryTable
<1>2. PICK rows : /\ IF auto_inc /\ st.max_pk # 0 THEN rows \in MysqlTable!Ordered(R, MysqlTable!ByKey)
                                                  ELSE rows \in MysqlTable!Ordered(R, MysqlTable!Anyhow)
                  /\ MysqlTable!Execute(st, rows, kept.max_pk # 0)
  BY <1>1
<1>3. /\ tap_pc = "query" /\ tap_pc' = "fetch" /\ result' = rows /\ tap_state' = st
      /\ due' = IF kept.max_pk # 0 THEN due ELSE MysqlTable!Rows
      /\ UNCHANGED <<history, clock, time, method, saved, tap_loaded, tap_emitted, auto_inc, current_log_pos, passed>>
  BY <1>1, <1>2 DEF MysqlTable!QueryTable, MysqlTable!Execute, MysqlTable!table, MysqlTable!pipe
<1>4. /\ MysqlTable!Rows' = MysqlTable!Rows /\ MysqlTable!Rows \subseteq history
      /\ \A c \in history : /\ c.rk \in Nat /\ c.rk <= time /\ c.key \in Nat /\ c.ver \in Nat
                            /\ 1 <= c.key
  BY <1>3, MyRows DEF MysqlTable!Rows, MysqlTable!VersionsOf, MyTypeOK, Versions, MyPast
<1>5. /\ kept \in MyBookmarks /\ kept.max_pk = tap_state.max_pk /\ kept.last_pk = tap_state.last_pk
      /\ ~kept.replication_key /\ kept.rk_value = 0
      /\ kept.log_pos = IF method = "LOG_BASED" THEN tap_state.log_pos ELSE 0
  BY <1>1, MyKept DEF MyTypeOK
<1> HIDE DEF kept
<1>6. /\ st \in MyBookmarks /\ st.last_pk = tap_state.last_pk
      /\ ~st.replication_key /\ st.rk_value = 0
      /\ st.log_pos = IF method = "LOG_BASED" THEN tap_state.log_pos ELSE 0
      /\ st.max_pk = IF auto_inc /\ tap_state.max_pk = 0 THEN MysqlTable!MaxPk ELSE tap_state.max_pk
  <2>1. CASE auto_inc /\ kept.max_pk = 0
    <3>1. st = [kept EXCEPT !.max_pk = MysqlTable!MaxPk] /\ MysqlTable!MaxPk \in Nat
      BY <2>1, MyMaxPk
    <3>2. QED
      BY <1>5, <2>1, <3>1 DEF MyBookmarks
  <2>2. CASE ~(auto_inc /\ kept.max_pk = 0)
    <3>1. st = kept
      BY <2>2
    <3>2. QED
      BY <1>5, <2>2, <3>1
  <2>3. QED
    BY <2>1, <2>2
<1> HIDE DEF st
<1>7. /\ st.max_pk \in Nat /\ st.last_pk \in Nat /\ MysqlTable!MaxPk \in Nat
      /\ \A c \in history : c.key <= MysqlTable!MaxPk
      /\ history # {} => MysqlTable!MaxPk # 0
      /\ st.max_pk # 0 => auto_inc
      /\ st.max_pk = 0 => history = {} \/ ~auto_inc
  BY <1>6, MyMaxPk DEF MyBookmarks, MyShape
<1>8. R \subseteq MysqlTable!Rows
  OBVIOUS
<1>9. /\ st.max_pk # 0 => R = {r \in MysqlTable!Rows : MysqlTable!pk_clause(st, r)}
      /\ st.max_pk = 0 => R = MysqlTable!Rows
  BY <1>7
<1> HIDE DEF R
<1>10. /\ rows \in Seq(Versions) /\ \A i \in 1..Len(rows) : rows[i] \in R
       /\ \A i, j \in 1..Len(rows) : i # j => rows[i] # rows[j]
       /\ rows \in MysqlTable!Ordered(R, MysqlTable!ByKey) =>
              \A i, j \in 1..Len(rows) : i < j => rows[i].key <= rows[j].key
       /\ \A r \in R : \E i \in 1..Len(rows) : rows[i] = r
  BY <1>2, <1>8, MySorted
<1>11. ASSUME st.max_pk # 0
       PROVE  /\ \A i \in 1..Len(rows) : rows[i].key <= st.max_pk
              /\ \A i, j \in 1..Len(rows) : i < j => rows[i].key < rows[j].key
  <2>1. rows \in MysqlTable!Ordered(R, MysqlTable!ByKey)
    BY <1>2, <1>7, <1>11
  <2>2. \A i \in 1..Len(rows) : rows[i] \in MysqlTable!Rows /\ rows[i].key \in Nat /\ rows[i].key <= st.max_pk
    BY <1>4, <1>8, <1>9, <1>10, <1>11 DEF MysqlTable!pk_clause
  <2>3. ASSUME NEW i \in 1..Len(rows), NEW j \in 1..Len(rows), i < j
        PROVE  rows[i].key < rows[j].key
    <3>1. rows[i].key <= rows[j].key /\ rows[i] # rows[j]
      BY <1>10, <2>1, <2>3
    <3>2. rows[i].key # rows[j].key
      BY <2>2, <3>1, MyKeys
    <3>3. QED
      BY <2>2, <3>1, <3>2
  <2>4. QED
    BY <2>2, <2>3
<1>12. ASSUME NEW c \in history, tap_state.max_pk = 0 \/ MyIn(saved, c)
       PROVE  \E i \in 1..Len(rows) : rows[i].key = c.key /\ rows[i].ver >= c.ver
  <2>1. PICK r \in MysqlTable!Rows : r.key = c.key /\ c.ver <= r.ver
    BY MyRows, LastExists DEF MyTypeOK, MyPast
  <2>2. CASE st.max_pk = 0
    BY <1>4, <1>9, <1>10, <2>1, <2>2
  <2>3. CASE st.max_pk # 0
    <3>1. st.last_pk < c.key /\ c.key <= st.max_pk
      <4>1. CASE tap_state.max_pk = 0
        BY <1>4, <1>6, <1>7, <2>3, <4>1 DEF MyShape
      <4>2. CASE tap_state.max_pk # 0
        BY <1>3, <1>6, <1>12, <4>2 DEF MyIn, MyShape
      <4>3. QED
        BY <4>1, <4>2
    <3>2. r \in R
      BY <1>9, <2>1, <2>3, <3>1 DEF MysqlTable!pk_clause
    <3>3. QED
      BY <1>4, <1>10, <2>1, <3>2
  <2>4. QED
    BY <2>2, <2>3
<1>13. \A c : MyHas(tap_loaded, c) => MyHas(tap_emitted, c)
  BY DEF MyHas, MyTypeOK
<1>14. ASSUME NEW c \in due'
       PROVE  MyHas(tap_emitted, c) \/ \E i \in 1..Len(rows) : rows[i].key = c.key /\ rows[i].ver >= c.ver
  <2>1. c \in history
    BY <1>3, <1>4 DEF MyTypeOK
  <2>2. CASE tap_state.max_pk = 0
    BY <1>12, <2>1, <2>2
  <2>3. CASE tap_state.max_pk # 0
    <3>1. saved.max_pk # 0 /\ c \in due
      BY <1>3, <1>5, <2>3 DEF MyShape
    <3>2. MyHas(tap_loaded, c) \/ MyIn(saved, c)
      BY <3>1 DEF MyRange, MyBehind
    <3>3. QED
      BY <1>12, <1>13, <2>1, <3>2
  <2>4. QED
    BY <2>2, <2>3
<1>15. /\ MyPos' = IF current_log_pos # 0 THEN current_log_pos ELSE st.log_pos
       /\ current_log_pos \in Nat /\ st.log_pos \in Nat
  BY <1>3, <1>6 DEF MyPos, MyTypeOK, MyBookmarks
<1>16. ASSUME NEW c \in history, MyPos' # 0
       PROVE  \/ c.ver > MyPos' \/ MyHas(tap_emitted, c) \/ c \in passed
              \/ \E i \in 1..Len(rows) : rows[i].key = c.key /\ rows[i].ver >= c.ver
  <2>1. CASE tap_state.max_pk = 0
    BY <1>12, <2>1
  <2>2. CASE tap_state.max_pk # 0
    <3>1. saved.max_pk # 0 /\ current_log_pos = 0 /\ method = "LOG_BASED"
      BY <1>1, <1>3, <1>6, <1>15, <1>16, <2>2 DEF MyShape
    <3>2. MyPos' = tap_state.log_pos
      BY <1>6, <1>15, <3>1
    <3>3. MyHas(tap_loaded, c) \/ c.ver > tap_state.log_pos \/ MyIn(saved, c) \/ c \in passed
      BY <1>3, <3>1 DEF MyTaken
    <3>4. QED
      BY <1>12, <1>13, <3>2, <3>3
  <2>3. QED
    BY <2>1, <2>2
<1>17. MyTypeOK'
  BY <1>3, <1>4, <1>6, <1>10 DEF MyTypeOK
<1>18. MyOnce' /\ MyFetch'
  BY <1>1, <1>3 DEF MyOnce, MyFetch
<1>19. MySaved' /\ MyRead'
  BY <1>3, <1>4, <1>6 DEF MySaved, MyRead, MyAhead, MysqlTable!FromKeyValue
<1>20. MyPast'
  <2>1. \A i \in 1..Len(result') : result'[i].rk <= time
    BY <1>3, <1>4, <1>8, <1>10
  <2>2. tap_state'.rk_value <= time /\ tap_state'.log_pos <= clock
    BY <1>3, <1>6 DEF MyPast, MyTypeOK
  <2>3. ~tap_state'.replication_key => tap_state'.rk_value = 0
    BY <1>3, <1>6
  <2>4. QED
    BY <1>3, <2>1, <2>2, <2>3 DEF MyPast
<1>21. MyShape'
  <2>1. history = {} => rows = << >>
    <3>1. history = {} => ~\E i \in 1..Len(rows) : TRUE
      BY <1>4, <1>8, <1>10
    <3>2. QED
      BY <1>10, <3>1
  <2>2. QED
    BY <1>1, <1>3, <1>6, <1>7, <2>1 DEF MyShape
<1>22. MyRange'
  <2>1. MyLog(saved, tap_loaded)'
    BY <1>3 DEF MyRange, MyLog, MyHas, MyIn
  <2>2. MyBehind(saved, tap_loaded)'
    <3>1. CASE saved.max_pk = 0
      BY <1>3, <3>1 DEF MyBehind
    <3>2. CASE saved.max_pk # 0
      <4>1. due' = due
        BY <1>3, <1>5, <3>2 DEF MyShape
      <4>2. QED
        BY <1>3, <4>1 DEF MyRange, MyBehind, MyHas, MyIn
    <3>3. QED
      BY <3>1, <3>2
  <2>3. QED
    BY <2>1, <2>2 DEF MyRange
<1>23. MyCopy' /\ MyTaken'
  BY <1>3, <1>11, <1>14, <1>16 DEF MyCopy, MyTaken, MyHas, MyComes
<1>24. QED
  BY <1>17, <1>18, <1>19, <1>20, <1>21, <1>22, <1>23

\* A row is written, and the bookmark in memory moves to its key.
LEMMA MyFetchRow == MyInv /\ MysqlTable!FetchRow => MyInv'
<1> SUFFICES ASSUME MyInv, MysqlTable!FetchRow PROVE MyInv'
  OBVIOUS
<1> USE DEF MyInv
<1> DEFINE h == Head(result)
<1>1. /\ tap_pc = "fetch" /\ tap_pc' = tap_pc /\ result # << >> /\ result' = Tail(result)
      /\ tap_state' = MysqlTable!AfterRow(tap_state, h) /\ tap_emitted' = tap_emitted \cup {h}
      /\ \/ tap_loaded' = tap_emitted' /\ saved' = tap_state'
         \/ UNCHANGED <<tap_loaded, saved>>
      /\ UNCHANGED <<history, clock, time, method, due, auto_inc, current_log_pos, passed>>
  BY DEF MysqlTable!FetchRow, MysqlTable!Fetch, MysqlTable!Records, MysqlTable!RecordsAndState, MysqlTable!table
<1>2. /\ h \in Versions /\ result' \in Seq(Versions) /\ Len(result') = Len(result) - 1
      /\ Len(result) \in Nat /\ Len(result) >= 1 /\ h = result[1]
      /\ \A i \in 1..Len(result') : result'[i] = result[i + 1]
  BY <1>1, HeadTailProperties DEF MyTypeOK
<1> HIDE DEF h
<1>3. h.rk \in Nat /\ h.rk <= time /\ h.key \in Nat /\ h.ver \in Nat
  BY <1>2 DEF MyPast, Versions
<1>4. /\ tap_state' \in MyBookmarks
      /\ tap_state'.max_pk = tap_state.max_pk /\ tap_state'.log_pos = tap_state.log_pos
      /\ tap_state'.replication_key = tap_state.replication_key
      /\ method = "INCREMENTAL" => /\ tap_state'.rk_value = h.rk
                                   /\ tap_state'.last_pk = tap_state.last_pk
      /\ method # "INCREMENTAL" => /\ tap_state'.rk_value = tap_state.rk_value
                                   /\ tap_state'.last_pk = IF tap_state.max_pk # 0 THEN h.key ELSE tap_state.last_pk
  <2>1. tap_state \in MyBookmarks
    BY DEF MyTypeOK
  <2>2. CASE method = "INCREMENTAL"
    <3>1. tap_state' = [tap_state EXCEPT !.rk_value = h.rk]
      BY <1>1, <2>2 DEF MysqlTable!AfterRow
    <3>2. QED
      BY <1>3, <2>1, <2>2, <3>1 DEF MyBookmarks
  <2>3. CASE method # "INCREMENTAL" /\ tap_state.max_pk # 0
    <3>1. tap_state' = [tap_state EXCEPT !.last_pk = h.key]
      BY <1>1, <2>3 DEF MysqlTable!AfterRow
    <3>2. QED
      BY <1>3, <2>1, <2>3, <3>1 DEF MyBookmarks
  <2>4. CASE method # "INCREMENTAL" /\ tap_state.max_pk = 0
    <3>1. tap_state' = tap_state
      BY <1>1, <2>4 DEF MysqlTable!AfterRow
    <3>2. QED
      BY <2>1, <2>4, <3>1
  <2>5. QED
    BY <2>2, <2>3, <2>4
<1>5. /\ MysqlTable!Rows' = MysqlTable!Rows /\ MyPos' = MyPos
      /\ \A c \in history : c.rk \in Nat /\ c.key \in Nat /\ c.ver \in Nat
      /\ MysqlTable!Rows \subseteq history /\ due \subseteq history
  BY <1>1, <1>4, MyRows DEF MysqlTable!Rows, MysqlTable!VersionsOf, MyTypeOK, Versions, MyPos
<1>6. MyTypeOK' /\ MyOnce'
  BY <1>1, <1>2, <1>4 DEF MyTypeOK, MyOnce
<1>7. method = "INCREMENTAL" => tap_state.replication_key
  BY <1>1 DEF MyShape
<1>8. MyPast'
  <2>1. \A i \in 1..Len(result') : result'[i].rk <= time
    BY <1>2 DEF MyPast
  <2>2. /\ tap_state'.rk_value <= time /\ tap_state'.log_pos <= clock
        /\ ~tap_state'.replication_key => tap_state'.rk_value = 0
    BY <1>3, <1>4, <1>7 DEF MyPast
  <2>3. QED
    BY <1>1, <2>1, <2>2 DEF MyPast
<1>9. \A i \in 1..Len(result') : /\ i + 1 \in 1..Len(result) /\ 1 < i + 1 /\ result'[i] = result[i + 1]
  BY <1>2
<1>10. \A i, j \in 1..Len(result') : i < j => i + 1 < j + 1
  BY <1>2
<1>11. MyRead'
  <2>1. CASE method = "INCREMENTAL"
    <3>1. SUFFICES ASSUME NEW r \in MysqlTable!Rows, r \notin tap_emitted, r # h PROVE h.rk <= r.rk
      BY <1>1, <1>4, <1>5, <2>1 DEF MyRead, MyAhead, MysqlTable!FromKeyValue
    <3>2. CASE \A i \in 1..Len(result) : result[i].rk <= r.rk
      BY <1>2, <3>2
    <3>3. CASE \E i \in 1..Len(result) : result[i] = r
      <4>1. PICK i \in 1..Len(result) : result[i] = r
        BY <3>3
      <4>2. 1 < i
        BY <1>2, <3>1, <4>1
      <4>3. QED
        BY <1>1, <1>2, <2>1, <4>1, <4>2 DEF MyFetch
    <3>4. QED
      BY <1>1, <2>1, <3>1, <3>2, <3>3 DEF MyFetch
  <2>2. CASE method # "INCREMENTAL"
    BY <1>1, <1>4, <1>5, <2>2 DEF MyRead, MyAhead, MysqlTable!FromKeyValue
  <2>3. QED
    BY <2>1, <2>2
<1>12. MySaved'
  BY <1>1, <1>5, <1>11 DEF MySaved, MyRead, MyAhead, MysqlTable!FromKeyValue
<1>13. MyFetch'
  <2>1. SUFFICES ASSUME method = "INCREMENTAL"
                 PROVE  /\ \A i \in 1..Len(result') : tap_state'.rk_value <= result'[i].rk
                        /\ \A i, j \in 1..Len(result') : i < j => result'[i].rk <= result'[j].rk
                        /\ \A r \in MysqlTable!Rows : \/ r \in tap_emitted'
                                                      \/ \E i \in 1..Len(result') : result'[i] = r
                                                      \/ \A i \in 1..Len(result') : result'[i].rk <= r.rk
    BY <1>1, <1>5 DEF MyFetch
  <2>2. \A i \in 1..Len(result') : tap_state'.rk_value <= result'[i].rk
    BY <1>1, <1>2, <1>4, <1>9, <2>1 DEF MyFetch
  <2>3. \A i, j \in 1..Len(result') : i < j => result'[i].rk <= result'[j].rk
    BY <1>1, <1>9, <1>10, <2>1 DEF MyFetch
  <2>4. ASSUME NEW r \in MysqlTable!Rows, r \notin tap_emitted', \E i \in 1..Len(result) : result[i] = r
        PROVE  \E i \in 1..Len(result') : result'[i] = r
    <3>1. PICK i \in 1..Len(result) : result[i] = r
      BY <2>4
    <3>2. i # 1
      BY <1>1, <1>2, <2>4, <3>1
    <3>3. i - 1 \in 1..Len(result') /\ (i - 1) + 1 = i
      BY <1>2, <3>2
    <3>4. QED
      BY <1>2, <3>1, <3>3
  <2>5. QED
    BY <1>1, <1>9, <2>1, <2>2, <2>3, <2>4 DEF MyFetch
<1>14. \A c : MyComes(c) => MyHas({h}, c) \/ MyComes(c)'
  <2>1. SUFFICES ASSUME NEW c, NEW i \in 1..Len(result), result[i].key = c.key, result[i].ver >= c.ver
                 PROVE  MyHas({h}, c) \/ MyComes(c)'
    BY DEF MyComes
  <2>2. CASE i = 1
    BY <1>2, <2>1, <2>2 DEF MyHas
  <2>3. CASE i # 1
    <3>1. i - 1 \in 1..Len(result') /\ (i - 1) + 1 = i
      BY <1>2, <2>3
    <3>2. QED
      BY <1>2, <2>1, <3>1 DEF MyComes
  <2>4. QED
    BY <2>2, <2>3
<1>15. \A c : MyHas(tap_emitted, c) \/ MyComes(c) => MyHas(tap_emitted', c) \/ MyComes(c)'
  BY <1>1, <1>14 DEF MyHas
<1>16. MyCopy'
  <2>1. SUFFICES ASSUME method # "INCREMENTAL"
                 PROVE  /\ tap_state.max_pk # 0 =>
                              /\ \A i \in 1..Len(result') : result'[i].key <= tap_state.max_pk
                              /\ \A i, j \in 1..Len(result') : i < j => result'[i].key < result'[j].key
                        /\ MyPos # 0 => \A c \in history : c.ver > MyPos \/ MyHas(tap_emitted', c) \/ MyComes(c)' \/ c \in passed
                        /\ \A c \in due : MyHas(tap_emitted', c) \/ MyComes(c)'
    BY <1>1, <1>4, <1>5 DEF MyCopy, MyHas, MyComes
  <2>2. tap_state.max_pk # 0 => \A i \in 1..Len(result') : result'[i].key <= tap_state.max_pk
    BY <1>1, <1>9, <2>1 DEF MyCopy
  <2>3. tap_state.max_pk # 0 => \A i, j \in 1..Len(result') : i < j => result'[i].key < result'[j].key
    BY <1>1, <1>9, <1>10, <2>1 DEF MyCopy
  <2>4. MyPos # 0 => \A c \in history : c.ver > MyPos \/ MyHas(tap_emitted', c) \/ MyComes(c)' \/ c \in passed
    BY <1>1, <1>15, <2>1 DEF MyCopy
  <2>5. \A c \in due : MyHas(tap_emitted', c) \/ MyComes(c)'
    BY <1>1, <1>15, <2>1 DEF MyCopy
  <2>6. QED
    BY <2>2, <2>3, <2>4, <2>5
<1>17. h.key <= tap_state.max_pk \/ method = "INCREMENTAL" \/ tap_state.max_pk = 0
  BY <1>1, <1>2 DEF MyCopy
<1>18. MyShape'
  <2>1. method \in MysqlTable!Methods
    BY DEF MyTypeOK
  <2>2. /\ tap_state'.max_pk = 0 => tap_state'.last_pk = 0
        /\ ~auto_inc => tap_state'.max_pk = 0
    BY <1>1, <1>3, <1>4, <1>17, <2>1 DEF MyShape, MysqlTable!Methods
  <2>3. QED
    BY <1>1, <1>4, <2>2 DEF MyShape
<1>19. ASSUME saved' = tap_state', tap_loaded' = tap_emitted' PROVE MyRange'
  <2>1. CASE method = "INCREMENTAL"
    <3>1. saved'.log_pos = 0 /\ saved'.max_pk = 0
      BY <1>1, <1>4, <1>19, <2>1 DEF MyShape
    <3>2. QED
      BY <3>1 DEF MyRange, MyLog, MyBehind
  <2>2. CASE method # "INCREMENTAL"
    <3>1. ASSUME NEW c, MyComes(c)', tap_state.max_pk # 0 PROVE MyIn(saved', c)
      <4>1. PICK i \in 1..Len(result') : result'[i].key = c.key
        BY <3>1 DEF MyComes
      <4>2. i + 1 \in 1..Len(result) /\ 1 < i + 1 /\ result[i + 1].key = c.key /\ 1 \in 1..Len(result)
        BY <1>2, <1>9, <4>1
      <4>3. result[1].key < result[i + 1].key /\ result[i + 1].key <= tap_state.max_pk
        BY <1>1, <2>2, <3>1, <4>2 DEF MyCopy
      <4>4. QED
        BY <1>2, <1>4, <1>19, <2>2, <3>1, <4>2, <4>3 DEF MyIn
    <3>2. MyLog(saved, tap_loaded)'
      <4>1. SUFFICES ASSUME saved'.log_pos # 0, NEW c \in history
                     PROVE  MyHas(tap_loaded', c) \/ c.ver > saved'.log_pos \/ MyIn(saved', c) \/ c \in passed
        BY <1>1 DEF MyLog
      <4>2. MyPos' = saved'.log_pos
        BY <1>1, <1>4, <1>19, <4>1 DEF MyPos, MyShape
      <4>3. c.ver > MyPos' \/ MyHas(tap_emitted', c) \/ MyComes(c)' \/ c \in passed
        BY <1>1, <1>16, <2>2, <4>1, <4>2 DEF MyCopy, MyHas, MyComes
      <4>4. tap_state.max_pk # 0
        BY <1>1, <1>4, <1>19, <2>2, <4>1 DEF MyShape
      <4>5. QED
        BY <1>19, <3>1, <4>2, <4>3, <4>4
    <3>3. MyBehind(saved, tap_loaded)'
      BY <1>1, <1>4, <1>16, <1>19, <2>2, <3>1 DEF MyBehind, MyCopy, MyHas, MyComes
    <3>4. QED
      BY <3>2, <3>3 DEF MyRange
  <2>3. QED
    BY <2>1, <2>2
<1>20. ASSUME UNCHANGED <<tap_loaded, saved>> PROVE MyRange'
  BY <1>1, <1>20 DEF MyRange, MyLog, MyBehind, MyHas, MyIn
<1>21. MyTaken'
  BY <1>1 DEF MyTaken
<1>22. QED
  BY <1>1, <1>6, <1>8, <1>11, <1>12, <1>13, <1>16, <1>18, <1>19, <1>20, <1>21

\* A copy that is complete leaves nothing behind its position.
LEMMA MyCopied ==
    ASSUME MyInv, tap_pc \in {"fetch", "end"}, result = << >>
    PROVE  /\ method # "INCREMENTAL" =>
                 /\ MyPos # 0 => \A c \in history : MyHas(tap_emitted, c) \/ c.ver > MyPos \/ c \in passed
                 /\ \A c \in due : MyHas(tap_emitted, c)
           /\ method = "INCREMENTAL" => MyPos = 0 /\ tap_state.max_pk = 0
<1>1. \A c : ~MyComes(c)
  BY DEF MyComes
<1>2. CASE method # "INCREMENTAL"
  BY <1>1, <1>2 DEF MyInv, MyCopy
<1>3. CASE method = "INCREMENTAL"
  BY <1>3 DEF MyInv, MyShape, MyPos
<1>4. QED
  BY <1>2, <1>3

\* All rows of the SELECT are written.
LEMMA MyFetchedAll == MyInv /\ MysqlTable!FetchedAll => MyInv'
<1> SUFFICES ASSUME MyInv, MysqlTable!FetchedAll PROVE MyInv'
  OBVIOUS
<1>1. /\ tap_pc = "fetch" /\ tap_pc' = "end" /\ result = << >> /\ tap_emitted' = tap_emitted
      /\ \/ tap_loaded' = tap_emitted /\ saved' = tap_state
         \/ UNCHANGED <<tap_loaded, saved>>
      /\ UNCHANGED <<history, clock, time, method, tap_state, result, due, auto_inc, current_log_pos, passed>>
      /\ method \in MysqlTable!Methods
  BY DEF MysqlTable!FetchedAll, MysqlTable!RecordsAndState, MysqlTable!table, MyInv, MyTypeOK
<1>2. /\ method # "INCREMENTAL" =>
           /\ MyPos # 0 => \A c \in history : MyHas(tap_emitted, c) \/ c.ver > MyPos \/ c \in passed
           /\ \A c \in due : MyHas(tap_emitted, c)
      /\ method = "INCREMENTAL" => MyPos = 0 /\ tap_state.max_pk = 0
  BY <1>1, MyCopied
<1> USE DEF MyInv
<1>3. MysqlTable!Rows' = MysqlTable!Rows /\ MyPos' = MyPos
  BY <1>1 DEF MysqlTable!Rows, MysqlTable!VersionsOf, MyPos
<1>4. MyTypeOK' /\ MyPast' /\ MyOnce' /\ MyFetch'
  BY <1>1 DEF MyTypeOK, MyPast, MyOnce, MyFetch
<1>5. MyShape'
  BY <1>1 DEF MyShape, MysqlTable!Methods
<1>6. MySaved' /\ MyRead'
  BY <1>1, <1>3 DEF MyTypeOK, MySaved, MyRead, MyAhead, MysqlTable!FromKeyValue
<1>7. MyCopy' /\ MyTaken'
  BY <1>1, <1>3 DEF MyCopy, MyTaken, MyHas, MyComes
<1>8. tap_state.log_pos # 0 => MyPos = tap_state.log_pos
  BY <1>1 DEF MyShape, MyPos
<1>9. MyRange'
  BY <1>1, <1>2, <1>8 DEF MyRange, MyLog, MyBehind, MyHas, MyIn
<1>10. QED
  BY <1>4, <1>5, <1>6, <1>7, <1>9

\* The end of a run saves its bookmark: without the range of the copy, with the position
\* of the log that was taken before it.
LEMMA MyComplete == MyInv /\ MysqlTable!Complete => MyInv'
<1> SUFFICES ASSUME MyInv, MysqlTable!Complete PROVE MyInv'
  OBVIOUS
<1>1. /\ tap_pc = "end" /\ tap_pc' = "idle" /\ tap_emitted' = tap_emitted /\ tap_loaded' = tap_emitted
      /\ saved' = [tap_state EXCEPT !.max_pk = 0, !.last_pk = 0, !.log_pos = MyPos]
      /\ tap_state' = saved' /\ result' = << >> /\ current_log_pos' = 0
      /\ UNCHANGED <<history, clock, time, method, due, auto_inc, passed>>
  BY DEF MysqlTable!Complete, MysqlTable!End, MysqlTable!Exit, MysqlTable!RecordsAndLastState, MysqlTable!table, MyPos, MyInv, MyTypeOK, MyBookmarks
<1>2. result = << >>
  BY <1>1 DEF MyInv, MyShape
<1>3. /\ method # "INCREMENTAL" =>
           (MyPos # 0 => \A c \in history : MyHas(tap_emitted, c) \/ c.ver > MyPos \/ c \in passed)
      /\ method = "INCREMENTAL" => MyPos = 0
  BY <1>1, <1>2, MyCopied
<1> USE DEF MyInv
<1>4. MyPos \in Nat /\ MyPos <= clock
  BY DEF MyPos, MyTypeOK, MyBookmarks, MyPast
<1>5. /\ saved' \in MyBookmarks /\ saved'.max_pk = 0 /\ saved'.last_pk = 0 /\ saved'.log_pos = MyPos
      /\ saved'.replication_key = tap_state.replication_key /\ saved'.rk_value = tap_state.rk_value
  BY <1>1, <1>4 DEF MyTypeOK, MyBookmarks
<1>6. MysqlTable!Rows' = MysqlTable!Rows /\ result' \in Seq(Versions) /\ Len(result') = 0
  BY <1>1 DEF MysqlTable!Rows, MysqlTable!VersionsOf
<1>7. MyTypeOK' /\ MyOnce' /\ MyFetch' /\ MyCopy'
  BY <1>1, <1>5, <1>6 DEF MyTypeOK, MyOnce, MyFetch, MyCopy
<1>8. MyPast'
  BY <1>1, <1>4, <1>5, <1>6 DEF MyPast, MyTypeOK
<1>9. MyShape'
  BY <1>1, <1>5 DEF MyShape
<1>10. MySaved' /\ MyRead'
  BY <1>1, <1>5, <1>6 DEF MySaved, MyRead, MyAhead, MysqlTable!FromKeyValue
<1>11. MyRange' /\ MyTaken'
  BY <1>1, <1>3, <1>5 DEF MyRange, MyTaken, MyLog, MyBehind, MyHas, MyIn
<1>12. QED
  BY <1>7, <1>8, <1>9, <1>10, <1>11

\* A run that reads the log from its bookmark to the end.
LEMMA MySyncBinlog == MyInv /\ MysqlTable!SyncBinlog => MyInv'
<1> SUFFICES ASSUME MyInv, MysqlTable!SyncBinlog PROVE MyInv'
  OBVIOUS
<1> USE DEF MyInv
<1> DEFINE R == {c \in history : c.ver > saved.log_pos}
<1>1. /\ tap_pc = "idle" /\ tap_pc' = tap_pc /\ tap_emitted' = tap_emitted \cup R /\ tap_loaded' = tap_emitted'
      /\ saved' = [saved EXCEPT !.log_pos = clock] /\ tap_state' = saved'
      /\ saved.log_pos # 0 /\ saved.max_pk = 0 /\ saved.last_pk = 0
      /\ UNCHANGED <<history, clock, time, method, result, due, auto_inc, current_log_pos, passed>>
  BY DEF MysqlTable!SyncBinlog, MysqlTable!ReadLog, MysqlTable!RecordsAndLastState, MysqlTable!table, MysqlTable!binlog_stream_requires_historical
<1>2. /\ saved' \in MyBookmarks /\ saved'.max_pk = 0 /\ saved'.last_pk = 0 /\ saved'.log_pos = clock
      /\ saved'.replication_key = saved.replication_key /\ saved'.rk_value = saved.rk_value
  BY <1>1 DEF MyTypeOK, MyBookmarks
<1>3. MysqlTable!Rows' = MysqlTable!Rows /\ \A c \in history : c.ver \in Nat
  BY <1>1 DEF MysqlTable!Rows, MysqlTable!VersionsOf, MyTypeOK, Versions
<1>4. \A c \in history : MyHas(tap_loaded', c) \/ c \in passed
  <2>1. SUFFICES ASSUME NEW c \in history PROVE MyHas(tap_loaded', c) \/ c \in passed
    OBVIOUS
  <2>2. CASE c.ver > saved.log_pos
    BY <1>1, <1>3, <2>2 DEF MyHas
  <2>3. CASE ~(c.ver > saved.log_pos)
    <3>1. MyHas(tap_loaded, c) \/ c \in passed
      BY <1>1, <2>3 DEF MyRange, MyLog, MyIn
    <3>2. QED
      BY <1>1, <3>1 DEF MyHas, MyTypeOK
  <2>4. QED
    BY <2>2, <2>3
<1>5. MyTypeOK' /\ MyOnce' /\ MyFetch' /\ MyCopy'
  BY <1>1, <1>2 DEF MyTypeOK, MyOnce, MyFetch, MyCopy
<1>6. MyPast'
  BY <1>1, <1>2 DEF MyPast, MyTypeOK
<1>7. MyShape'
  BY <1>1, <1>2 DEF MyShape
<1>8. MySaved' /\ MyRead'
  BY <1>1, <1>2, <1>3 DEF MySaved, MyRead, MyAhead, MysqlTable!FromKeyValue, MyTypeOK
<1>9. MyRange' /\ MyTaken'
  BY <1>1, <1>2, <1>4 DEF MyRange, MyTaken, MyLog, MyBehind
<1>10. QED
  BY <1>5, <1>6, <1>7, <1>8, <1>9

\* A run dies: what the target had not loaded is lost, and so is the position in memory.
LEMMA MyDie == MyInv /\ MysqlTable!Die /\ current_log_pos' = 0 /\ UNCHANGED <<auto_inc, passed>> => MyInv'
<1> SUFFICES ASSUME MyInv, MysqlTable!Die, current_log_pos' = 0, UNCHANGED <<auto_inc, passed>> PROVE MyInv'
  OBVIOUS
<1> USE DEF MyInv
<1>1. /\ tap_pc' = "idle" /\ tap_emitted' = tap_loaded /\ UNCHANGED <<tap_loaded, saved>>
      /\ tap_state' = saved' /\ result' = << >>
      /\ UNCHANGED <<history, clock, time, method, due>>
  BY DEF MysqlTable!Die, MysqlTable!Lost, MysqlTable!Exit, MysqlTable!table
<1>2. MysqlTable!Rows' = MysqlTable!Rows /\ result' \in Seq(Versions) /\ Len(result') = 0
  BY <1>1 DEF MysqlTable!Rows, MysqlTable!VersionsOf
<1>3. MyTypeOK' /\ MyPast' /\ MyOnce' /\ MyFetch' /\ MyCopy'
  BY <1>1, <1>2 DEF MyTypeOK, MyPast, MyOnce, MyFetch, MyCopy
<1>4. MyShape'
  BY <1>1 DEF MyShape
<1>5. MySaved' /\ MyRead'
  BY <1>1, <1>2 DEF MySaved, MyRead, MyAhead, MysqlTable!FromKeyValue
<1>6. MyRange' /\ MyTaken'
  BY <1>1 DEF MyRange, MyTaken, MyLog, MyBehind, MyHas, MyIn
<1>7. QED
  BY <1>3, <1>4, <1>5, <1>6

\* Nothing changes.
LEMMA MyStutter == MyInv /\ UNCHANGED MysqlTable!mysqlTableVars => MyInv'
<1> SUFFICES ASSUME MyInv, UNCHANGED MysqlTable!mysqlTableVars PROVE MyInv'
  OBVIOUS
<1> USE DEF MyInv
<1>1. UNCHANGED <<history, clock, time, method, tap_pc, tap_state, saved, result, due, tap_loaded, tap_emitted,
                  auto_inc, current_log_pos, passed>>
  BY DEF MysqlTable!mysqlTableVars, MysqlTable!tableTapVars, MysqlTable!table, MysqlTable!pipe
<1>2. MysqlTable!Rows' = MysqlTable!Rows /\ MyPos' = MyPos
  BY <1>1 DEF MysqlTable!Rows, MysqlTable!VersionsOf, MyPos
<1>3. MyTypeOK' /\ MyPast' /\ MyOnce' /\ MyFetch'
  BY <1>1, <1>2 DEF MyTypeOK, MyPast, MyOnce, MyFetch
<1>4. MyShape'
  BY <1>1 DEF MyShape, MysqlTable!binlog_stream_requires_historical
<1>5. MySaved' /\ MyRead' /\ MyCopy'
  BY <1>1, <1>2 DEF MySaved, MyRead, MyAhead, MysqlTable!FromKeyValue, MyCopy, MyHas, MyComes
<1>6. MyRange' /\ MyTaken'
  BY <1>1 DEF MyRange, MyTaken, MyLog, MyBehind, MyHas, MyIn
<1>7. QED
  BY <1>3, <1>4, <1>5, <1>6

\* Every step keeps the invariant.
LEMMA MyStep == MyInv /\ [MysqlTable!Next]_(MysqlTable!mysqlTableVars) => MyInv'
BY MyChange, MyConfigure, MyTick, MyStart, MyBegin, MyQueryTable, MyQueryIncremental, MyFetchRow,
   MyFetchedAll, MyComplete, MySyncBinlog, MyDie, MyStutter DEF MysqlTable!Next

\* What the saved bookmark does not select, and the log does not bring, is loaded.
LEMMA MyImplies == MyInv => MysqlTable!MysqlTablesSkipNothing
<1>1. SUFFICES ASSUME MyInv, NEW c \in history, method = "FULL_TABLE" => c \in due,
                      ~MysqlTable!Reached(c), ~MysqlTable!Selects(saved, MysqlTable!Current(c)), ~MysqlTable!Logged(saved, c),
                      c \notin passed, c \notin MysqlTable!LeftBehind(saved)
               PROVE  FALSE
  BY DEF MysqlTable!MysqlTablesSkipNothing, MysqlTable!SkippedChanges, MyInv, MyTypeOK
<1> USE DEF MyInv
<1>2. \E r \in MysqlTable!Rows : r.key = c.key
  BY <1>1, MyRows, LastExists DEF MyTypeOK, MyPast
<1>3. MysqlTable!Current(c) \in MysqlTable!Rows /\ MysqlTable!Current(c).key = c.key
  BY <1>2 DEF MysqlTable!Current
<1>4. /\ MysqlTable!Current(c).rk \in Nat /\ MysqlTable!Current(c).ver \in Nat /\ c.ver \in Nat /\ MysqlTable!Current(c).ver >= c.ver
      /\ c.key \in Nat /\ saved \in MyBookmarks
  BY <1>1, <1>3 DEF MysqlTable!Rows, MysqlTable!VersionsOf, MyTypeOK, Versions
<1>5. ~MyHas(tap_loaded, c)
  BY <1>1 DEF MysqlTable!Reached, MyHas
<1>6. CASE method = "INCREMENTAL"
  <2>1. MysqlTable!whitelist_bookmark_keys(saved) =
            [MysqlTable!EmptyState EXCEPT !.replication_key = saved.replication_key, !.rk_value = saved.rk_value]
    BY <1>6 DEF MysqlTable!whitelist_bookmark_keys
  <2>2. MysqlTable!whitelist_bookmark_keys(saved) = [log_pos |-> 0, max_pk |-> 0, last_pk |-> 0,
                 replication_key |-> saved.replication_key, rk_value |-> saved.rk_value]
    BY <2>1 DEF MysqlTable!EmptyState
  <2>3. ~MyAhead(saved, MysqlTable!Current(c))
    BY <1>1, <1>6, <2>2 DEF MysqlTable!Selects, MyAhead, MysqlTable!FromKeyValue
  <2>4. MysqlTable!Current(c) \in tap_loaded
    BY <1>1, <1>3, <2>3 DEF MySaved
  <2>5. QED
    BY <1>3, <1>4, <1>5, <2>4 DEF MyHas
<1>7. CASE method # "INCREMENTAL"
  <2> DEFINE kept == MysqlTable!whitelist_bookmark_keys(saved)
  <2>1. kept.max_pk = saved.max_pk /\ kept.last_pk = saved.last_pk
    BY <1>1, <1>4, <1>7, MyKept
  <2> HIDE DEF kept
  <2>2. MysqlTable!pk_clause(kept, MysqlTable!Current(c)) <=> saved.last_pk < c.key /\ c.key <= saved.max_pk
    BY <1>3, <1>4, <2>1 DEF MysqlTable!pk_clause, MyBookmarks
  <2>3. CASE method = "LOG_BASED"
    <3>1. saved.log_pos # 0 => ~(c.ver > saved.log_pos)
      BY <1>1, <2>3 DEF MysqlTable!Logged
    <3>2. saved.log_pos # 0 => MyIn(saved, c)
      BY <1>1, <1>5, <3>1 DEF MyRange, MyLog
    <3>3. CASE ~MysqlTable!binlog_stream_requires_historical(saved)
      BY <3>2, <3>3 DEF MysqlTable!binlog_stream_requires_historical, MyIn
    <3>4. CASE MysqlTable!binlog_stream_requires_historical(saved)
      <4>1. auto_inc /\ kept.max_pk # 0 /\ ~MysqlTable!pk_clause(kept, MysqlTable!Current(c))
        BY <1>1, <2>3, <3>4 DEF MysqlTable!Selects, kept
      <4>2. saved.log_pos # 0
        <5>1. c.key \in Nat /\ saved.last_pk \in Nat /\ saved.max_pk \in Nat
          BY <1>4 DEF MyBookmarks
        <5>2. c.key <= saved.last_pk \/ c.key > saved.max_pk
          BY <2>2, <4>1, <5>1
        <5>3. QED
          BY <1>1, <2>1, <2>3, <4>1, <5>2 DEF MysqlTable!LeftBehind
      <4>3. QED
        BY <2>2, <3>2, <4>1, <4>2 DEF MyIn
    <3>5. QED
      BY <3>3, <3>4
  <2>4. CASE method # "LOG_BASED"
    <3>1. method = "FULL_TABLE"
      BY <1>1, <1>7, <2>4 DEF MyTypeOK, MysqlTable!Methods
    <3>2. auto_inc /\ kept.max_pk # 0 /\ ~MysqlTable!pk_clause(kept, MysqlTable!Current(c))
      BY <1>1, <3>1 DEF MysqlTable!Selects, kept
    <3>3. MyIn(saved, c)
      BY <1>1, <1>5, <2>1, <3>1, <3>2 DEF MyRange, MyBehind
    <3>4. QED
      BY <2>2, <3>2, <3>3 DEF MyIn
  <2>5. QED
    BY <2>3, <2>4
<1>8. QED
  BY <1>6, <1>7

-----------------------------------------------------------------------------
(* tap-mongodb: change streams                                            *)

\* A record has a document and the place of the change after which it was read.
CsRecords == [doc : ChangeStream!Docs, ver : Nat]

\* Types of the state of the change streams; no token is of the future.
CsTypeOK ==
    /\ oplog \in Seq([op : ChangeStream!Operations, doc : ChangeStream!Docs])
    /\ tap_pc \in {"idle", "watching", "leaving"}
    /\ tap_state \in [Collections -> Nat] /\ saved \in [Collections -> Nat]
    /\ \A s \in Collections : saved[s] <= Len(oplog)
    /\ cursor \in Nat /\ cursor <= Len(oplog)
    /\ tap_emitted \subseteq CsRecords /\ tap_loaded \subseteq CsRecords
    /\ update_buffer \subseteq ChangeStream!Docs

\* Between the runs nothing is on its way, and a run that ends has the token of
\* the last change it read.
CsShape ==
    /\ tap_pc = "idle" => tap_emitted = tap_loaded
    /\ tap_pc = "leaving" => tap_state = ChangeStream!update_bookmarks(cursor)

\* The last change the stream has of a document is one of the first n operations.
CsBy(d, n) == ChangeStream!ChangesOf(d) # {} /\ ChangeStream!Latest(ChangeStream!ChangesOf(d)) <= n

\* The records R have the last change of the document, or it was in the buffer
\* when a closing STATE was written.
CsUpdated(d) == oplog[ChangeStream!Latest(ChangeStream!ChangesOf(d))].op = "update"
CsDone(R, d) ==
    \/ ~ChangeStream!Exists(d) /\ \A r \in R : r.doc # d
    \/ \E r \in R : r.doc = d /\ r.ver >= ChangeStream!Latest(ChangeStream!ChangesOf(d))
    \/ d \in unflushed /\ CsUpdated(d)

\* What the saved tokens pass is loaded.
CsSaved ==
    \A s \in Collections : saved[s] # 0 => \A d \in DocsOf[s] : CsBy(d, saved[s]) => CsDone(tap_loaded, d)

\* What is read is written or waits in the buffer.
CsRead ==
    tap_pc # "idle" =>
        \A d \in ChangeStream!Docs : CsBy(d, cursor) => CsDone(tap_emitted, d) \/ (d \in update_buffer /\ CsUpdated(d))

\* The invariant of the change streams.
CsInv == CsTypeOK /\ CsShape /\ CsSaved /\ CsRead

\* A document that has changed has a last change.
LEMMA CsLast ==
    ASSUME CsTypeOK, NEW d, ChangeStream!ChangesOf(d) # {}
    PROVE  /\ ChangeStream!Latest(ChangeStream!ChangesOf(d)) \in ChangeStream!ChangesOf(d) /\ ChangeStream!Latest(ChangeStream!ChangesOf(d)) \in 1..Len(oplog)
           /\ \A j \in ChangeStream!ChangesOf(d) : j <= ChangeStream!Latest(ChangeStream!ChangesOf(d))
<1>1. ChangeStream!ChangesOf(d) \subseteq 1..Len(oplog) /\ Len(oplog) \in Nat
  BY DEF ChangeStream!ChangesOf, ChangeStream!OperationsOf, CsTypeOK
<1>2. \E i \in ChangeStream!ChangesOf(d) : \A j \in ChangeStream!ChangesOf(d) : j <= i
  <2>1. ChangeStream!ChangesOf(d) \subseteq Nat /\ \A j \in ChangeStream!ChangesOf(d) : j <= Len(oplog)
    BY <1>1
  <2>2. QED
    BY <1>1, <2>1, LargestExists
<1>3. QED
  BY <1>1, <1>2 DEF ChangeStream!Latest

\* The last operation of a document is not before its last change.
LEMMA CsOperations ==
    ASSUME CsTypeOK, NEW d, ChangeStream!ChangesOf(d) # {}
    PROVE  /\ ChangeStream!Latest(ChangeStream!OperationsOf(d)) \in Nat
           /\ ChangeStream!Latest(ChangeStream!OperationsOf(d)) >= ChangeStream!Latest(ChangeStream!ChangesOf(d))
<1> DEFINE S == ChangeStream!OperationsOf(d)
<1>1. S \subseteq 1..Len(oplog) /\ Len(oplog) \in Nat
  BY DEF ChangeStream!OperationsOf, CsTypeOK
<1>2. ChangeStream!Latest(ChangeStream!ChangesOf(d)) \in S /\ ChangeStream!Latest(ChangeStream!ChangesOf(d)) \in Nat
  BY CsLast DEF ChangeStream!ChangesOf
<1> HIDE DEF S
<1>3. \E i \in S : \A j \in S : j <= i
  <2>1. S \subseteq Nat /\ \A j \in S : j <= Len(oplog)
    BY <1>1
  <2>2. QED
    BY <1>1, <1>2, <2>1, LargestExists
<1>4. ChangeStream!Latest(S) \in S /\ \A j \in S : j <= ChangeStream!Latest(S)
  BY <1>3 DEF ChangeStream!Latest
<1>5. QED
  BY <1>1, <1>2, <1>4 DEF S

\* Types hold whatever the log holds more.
LEMMA CsWritten ==
    ASSUME CsTypeOK, NEW d \in ChangeStream!Docs, NEW op \in ChangeStream!Operations,
           oplog' = Append(oplog, [op |-> op, doc |-> d]), unflushed' = unflushed
    PROVE  /\ oplog' \in Seq([op : ChangeStream!Operations, doc : ChangeStream!Docs])
           /\ Len(oplog') = Len(oplog) + 1 /\ Len(oplog) \in Nat
           /\ \A e, n : n \in Nat /\ n <= Len(oplog) /\ CsBy(e, n)' =>
                  /\ CsBy(e, n) /\ CsUpdated(e)' = CsUpdated(e)
                  /\ \A R : CsDone(R, e) => (\/ ~ChangeStream!Exists(e)' /\ \A r \in R : r.doc # e
                                             \/ \E r \in R : r.doc = e /\ r.ver >= ChangeStream!Latest(ChangeStream!ChangesOf(e)')
                                             \/ e \in unflushed' /\ CsUpdated(e)')
<1>1. /\ oplog' \in Seq([op : ChangeStream!Operations, doc : ChangeStream!Docs])
      /\ Len(oplog') = Len(oplog) + 1 /\ Len(oplog) \in Nat
      /\ \A i \in 1..Len(oplog) : oplog'[i] = oplog[i]
      /\ oplog'[Len(oplog) + 1] = [op |-> op, doc |-> d]
  BY DEF CsTypeOK
<1>2. ASSUME NEW e, NEW n \in Nat, n <= Len(oplog), CsBy(e, n)'
      PROVE  ChangeStream!ChangesOf(e)' = ChangeStream!ChangesOf(e)
  <2>1. e # d \/ op = "replace"
    <3>1. SUFFICES ASSUME e = d, op # "replace" PROVE FALSE
      OBVIOUS
    <3>2. Len(oplog) + 1 \in ChangeStream!ChangesOf(e)'
      BY <1>1, <3>1 DEF ChangeStream!ChangesOf, ChangeStream!OperationsOf
    <3>3. /\ \A j \in ChangeStream!ChangesOf(e)' : j \in Nat /\ j <= Len(oplog) + 1
          /\ \A j \in ChangeStream!ChangesOf(e)' : j <= Len(oplog) + 1
      BY <1>1 DEF ChangeStream!ChangesOf, ChangeStream!OperationsOf
    <3>4. \E i \in ChangeStream!ChangesOf(e)' : \A j \in ChangeStream!ChangesOf(e)' : j <= i
      BY <3>2, <3>3
    <3>5. ChangeStream!Latest(ChangeStream!ChangesOf(e)') \in ChangeStream!ChangesOf(e)' /\ \A j \in ChangeStream!ChangesOf(e)' : j <= ChangeStream!Latest(ChangeStream!ChangesOf(e)')
      BY <3>4 DEF ChangeStream!Latest
    <3>6. ChangeStream!Latest(ChangeStream!ChangesOf(e)') >= Len(oplog) + 1
      BY <3>2, <3>5, <1>1 DEF ChangeStream!ChangesOf, ChangeStream!OperationsOf
    <3>7. ChangeStream!Latest(ChangeStream!ChangesOf(e)') <= n /\ ChangeStream!Latest(ChangeStream!ChangesOf(e)') \in Nat
      BY <1>2, <3>3, <3>5 DEF CsBy
    <3>8. QED
      BY <1>1, <1>2, <3>6, <3>7
  <2>2. QED
    BY <1>1, <2>1 DEF ChangeStream!ChangesOf, ChangeStream!OperationsOf
<1>3. ASSUME NEW e, NEW n \in Nat, n <= Len(oplog), CsBy(e, n)'
      PROVE  /\ CsBy(e, n) /\ CsUpdated(e)' = CsUpdated(e)
             /\ ChangeStream!Exists(e)' <=> ChangeStream!Exists(e)
  <2>1. ChangeStream!ChangesOf(e)' = ChangeStream!ChangesOf(e)
    BY <1>2, <1>3
  <2>2. ChangeStream!ChangesOf(e) # {} /\ ChangeStream!Latest(ChangeStream!ChangesOf(e))' = ChangeStream!Latest(ChangeStream!ChangesOf(e)) /\ CsBy(e, n)
    BY <1>3, <2>1 DEF CsBy, ChangeStream!Latest
  <2>3. oplog'[ChangeStream!Latest(ChangeStream!ChangesOf(e))] = oplog[ChangeStream!Latest(ChangeStream!ChangesOf(e))]
    BY <1>1, <2>2, CsLast
  <2>4. QED
    BY <2>1, <2>2, <2>3 DEF CsUpdated, ChangeStream!Exists
<1>4. ASSUME NEW e, NEW n \in Nat, n <= Len(oplog), CsBy(e, n)', NEW R, CsDone(R, e)
      PROVE  \/ ~ChangeStream!Exists(e)' /\ \A r \in R : r.doc # e
             \/ \E r \in R : r.doc = e /\ r.ver >= ChangeStream!Latest(ChangeStream!ChangesOf(e)')
             \/ e \in unflushed' /\ CsUpdated(e)'
  BY <1>2, <1>3, <1>4 DEF CsDone
<1>5. QED
  BY <1>1, <1>3, <1>4

\* Nothing changes for a document while the log does not.
LEMMA CsSame ==
    ASSUME oplog' = oplog
    PROVE  \A d : /\ ChangeStream!ChangesOf(d)' = ChangeStream!ChangesOf(d) /\ (ChangeStream!Exists(d)' <=> ChangeStream!Exists(d))
                  /\ CsUpdated(d)' = CsUpdated(d)
                  /\ \A n : CsBy(d, n)' <=> CsBy(d, n)
                  /\ ChangeStream!Latest(ChangeStream!ChangesOf(d))' = ChangeStream!Latest(ChangeStream!ChangesOf(d))
BY DEF ChangeStream!ChangesOf, ChangeStream!OperationsOf, ChangeStream!Exists, CsUpdated, CsBy, ChangeStream!Latest

\* The token of a run: the least one of the streams.
LEMMA CsToken ==
    ASSUME NEW st \in [Collections -> Nat], NEW c \in Collections, st[c] # 0
    PROVE  /\ ChangeStream!get_token_from_state(st) \in Nat
           /\ \E s \in Collections : ChangeStream!get_token_from_state(st) = st[s]
           /\ \A s \in Collections : st[s] # 0 => ChangeStream!get_token_from_state(st) <= st[s]
<1>1. ChangeStream!Tokens(st) \subseteq Nat /\ st[c] \in ChangeStream!Tokens(st)
  BY DEF ChangeStream!Tokens
<1>2. \E t \in ChangeStream!Tokens(st) : \A u \in ChangeStream!Tokens(st) : t <= u
  BY <1>1, SmallestExists
<1>3. ChangeStream!get_token_from_state(st) \in ChangeStream!Tokens(st) /\ \A u \in ChangeStream!Tokens(st) : ChangeStream!get_token_from_state(st) <= u
  BY <1>2 DEF ChangeStream!get_token_from_state
<1>4. QED
  BY <1>1, <1>3 DEF ChangeStream!Tokens

\* A database without changes has none to skip.
LEMMA CsInit == ChangeStream!Init => CsInv
BY DEF ChangeStream!Init, CsInv, CsTypeOK, CsShape, CsSaved, CsRead

\* An operation of the database comes after every token.
LEMMA CsWrite ==
    ASSUME CsInv, NEW d \in ChangeStream!Docs, NEW op \in ChangeStream!Operations, ChangeStream!Write(d, op)
    PROVE  CsInv'
<1> USE DEF CsInv
<1>1. /\ oplog' = Append(oplog, [op |-> op, doc |-> d])
      /\ UNCHANGED <<tap_pc, tap_state, cursor, update_buffer, unflushed, tap_emitted, tap_loaded, saved>>
  BY DEF ChangeStream!Write, ChangeStream!pipe
<1>2. /\ oplog' \in Seq([op : ChangeStream!Operations, doc : ChangeStream!Docs])
      /\ Len(oplog') = Len(oplog) + 1 /\ Len(oplog) \in Nat
  BY <1>1, CsWritten
<1>3. \A e, n : n \in Nat /\ n <= Len(oplog) /\ CsBy(e, n)' =>
          CsBy(e, n) /\ CsUpdated(e)' = CsUpdated(e)
  BY <1>1, CsWritten
<1>4. \A e, n : n \in Nat /\ n <= Len(oplog) /\ CsBy(e, n)' =>
          /\ CsDone(tap_loaded, e) => CsDone(tap_loaded, e)'
          /\ CsDone(tap_emitted, e) => CsDone(tap_emitted, e)'
  BY <1>1, CsWritten DEF CsDone, ChangeStream!Latest
<1>5. \A s \in Collections : saved[s] \in Nat /\ saved[s] <= Len(oplog)
  BY DEF CsTypeOK
<1>6. CsTypeOK' /\ CsShape'
  BY <1>1, <1>2, <1>5 DEF CsTypeOK, CsShape, ChangeStream!update_bookmarks
<1>7. CsSaved'
  <2>1. ASSUME NEW s \in Collections, saved[s] # 0, NEW e \in DocsOf[s], CsBy(e, saved[s])'
        PROVE  CsDone(tap_loaded, e)'
    <3>1. PICK n \in Nat : n = saved[s]
      BY <1>5
    <3>2. CsBy(e, n)'
      BY <1>1, <2>1, <3>1 DEF CsBy
    <3>3. CsBy(e, saved[s]) /\ (CsDone(tap_loaded, e) => CsDone(tap_loaded, e)')
      BY <1>3, <1>4, <1>5, <3>1, <3>2
    <3>4. QED
      BY <2>1, <3>3 DEF CsSaved
  <2>2. QED
    BY <1>1, <2>1 DEF CsSaved
<1>8. CsRead'
  <2>1. ASSUME tap_pc # "idle", NEW e \in ChangeStream!Docs, CsBy(e, cursor)'
        PROVE  CsDone(tap_emitted, e)' \/ (e \in update_buffer' /\ CsUpdated(e)')
    <3>1. cursor \in Nat /\ cursor <= Len(oplog) /\ cursor' = cursor
      BY <1>1 DEF CsTypeOK
    <3>2. CsBy(e, cursor) /\ CsUpdated(e)' = CsUpdated(e) /\ (CsDone(tap_emitted, e) => CsDone(tap_emitted, e)')
      BY <1>1, <1>3, <1>4, <2>1, <3>1 DEF CsBy
    <3>3. QED
      BY <1>1, <2>1, <3>2 DEF CsRead
  <2>2. QED
    BY <1>1, <2>1 DEF CsRead
<1>9. QED
  BY <1>6, <1>7, <1>8

\* What fastsync copies is there as it is in the database.
LEMMA CsInitialCopy ==
    ASSUME CsInv, NEW s \in Collections, ChangeStream!InitialCopy(s)
    PROVE  CsInv'
<1> USE DEF CsInv
<1> DEFINE N == {ChangeStream!Record(d, ChangeStream!Latest(ChangeStream!OperationsOf(d))) : d \in {e \in DocsOf[s] : ChangeStream!Exists(e)}}
           K == {r \in tap_loaded : r.doc \notin DocsOf[s]}
<1>1. /\ tap_pc = "idle" /\ tap_loaded' = K \cup N /\ tap_emitted' = tap_loaded'
      /\ saved' = [saved EXCEPT ![s] = Len(oplog)] /\ tap_state' = saved'
      /\ UNCHANGED <<oplog, tap_pc, cursor, update_buffer, unflushed>>
  BY DEF ChangeStream!InitialCopy
<1>2. \A d : ChangeStream!Exists(d) => ChangeStream!ChangesOf(d) # {}
  BY DEF ChangeStream!Exists
<1>3. N \subseteq CsRecords /\ K \subseteq CsRecords
  <2>1. \A d \in DocsOf[s] : d \in ChangeStream!Docs
    BY DEF ChangeStream!Docs
  <2>2. \A d : ChangeStream!Exists(d) => ChangeStream!Latest(ChangeStream!OperationsOf(d)) \in Nat
    BY <1>2, CsOperations
  <2>3. QED
    BY <2>1, <2>2 DEF CsRecords, ChangeStream!Record, CsTypeOK
<1>4. CsTypeOK' /\ CsShape'
  <2>1. Len(oplog) \in Nat
    BY DEF CsTypeOK
  <2> HIDE DEF N, K
  <2>2. QED
    BY <1>1, <1>3, <2>1 DEF CsTypeOK, CsShape
<1>5. ASSUME NEW d, CsDone(tap_loaded, d) \/ d \in DocsOf[s], ChangeStream!ChangesOf(d) # {} PROVE CsDone(K \cup N, d)
  <2>1. ChangeStream!Latest(ChangeStream!ChangesOf(d)) \in Nat
    BY <1>5, CsLast
  <2>2. CASE d \in DocsOf[s] /\ ChangeStream!Exists(d)
    <3>1. [doc |-> d, ver |-> ChangeStream!Latest(ChangeStream!OperationsOf(d))] \in N
      BY <2>2 DEF ChangeStream!Record
    <3>2. ChangeStream!Latest(ChangeStream!OperationsOf(d)) >= ChangeStream!Latest(ChangeStream!ChangesOf(d))
      BY <1>5, CsOperations
    <3> HIDE DEF N, K
    <3>3. QED
      BY <2>1, <3>1, <3>2 DEF CsDone
  <2>3. CASE d \in DocsOf[s] /\ ~ChangeStream!Exists(d)
    <3>1. \A r \in N : r.doc # d
      BY <2>3 DEF ChangeStream!Record
    <3>2. QED
      BY <2>3, <3>1 DEF CsDone
  <2>4. CASE d \notin DocsOf[s]
    <3>1. \A r \in N : r.doc # d
      BY <2>4 DEF ChangeStream!Record
    <3>2. \A r \in tap_loaded : r.doc = d => r \in K
      BY <2>4
    <3>3. QED
      BY <1>5, <2>4, <3>1, <3>2 DEF CsDone
  <2>5. QED
    BY <2>2, <2>3, <2>4
<1> HIDE DEF N, K
<1>6. CsSaved'
  <2>1. ASSUME NEW c \in Collections, saved'[c] # 0, NEW d \in DocsOf[c], CsBy(d, saved'[c])
        PROVE  CsDone(tap_loaded', d)
    <3>1. ChangeStream!ChangesOf(d) # {}
      BY <2>1 DEF CsBy
    <3>2. c # s => saved'[c] = saved[c]
      BY <1>1 DEF CsTypeOK
    <3>3. CsDone(tap_loaded, d) \/ d \in DocsOf[s]
      BY <2>1, <3>2 DEF CsSaved
    <3>4. QED
      BY <1>1, <1>5, <3>1, <3>3
  <2>2. \A d : CsDone(tap_loaded, d)' <=> CsDone(tap_loaded', d)
    BY <1>1, CsSame DEF CsDone
  <2>3. QED
    BY <1>1, <2>1, <2>2, CsSame DEF CsSaved
<1>7. QED
  BY <1>1, <1>4, <1>6 DEF CsRead

\* A run starts from the least token.
LEMMA CsWatch == CsInv /\ ChangeStream!Watch => CsInv'
<1> SUFFICES ASSUME CsInv, ChangeStream!Watch PROVE CsInv'
  OBVIOUS
<1> USE DEF CsInv
<1>1. /\ tap_pc = "idle" /\ tap_pc' = "watching" /\ tap_state' = saved /\ cursor' = ChangeStream!get_token_from_state(saved)
      /\ \A s \in Collections : saved[s] # 0
      /\ update_buffer' = {} /\ UNCHANGED <<oplog, unflushed, tap_emitted, tap_loaded, saved>>
  BY DEF ChangeStream!Watch, ChangeStream!pipe
<1>2. PICK c \in Collections : TRUE
  BY DatabasesAssumption
<1>3. /\ cursor' \in Nat /\ cursor' <= Len(oplog)
      /\ \A s \in Collections : cursor' <= saved[s]
  BY <1>1, <1>2, CsToken DEF CsTypeOK
<1>4. CsTypeOK' /\ CsShape'
  BY <1>1, <1>3 DEF CsTypeOK, CsShape
<1>5. \A d : /\ CsDone(tap_loaded, d)' <=> CsDone(tap_loaded, d)
             /\ CsDone(tap_emitted, d)' <=> CsDone(tap_loaded, d)
  BY <1>1, CsSame DEF CsDone, CsShape
<1>6. CsSaved'
  BY <1>1, <1>5, CsSame DEF CsSaved
<1>7. CsRead'
  <2>1. ASSUME NEW d \in ChangeStream!Docs, CsBy(d, cursor') PROVE CsDone(tap_loaded, d)
    <3>1. PICK s \in Collections : d \in DocsOf[s]
      BY DEF ChangeStream!Docs
    <3>2. ChangeStream!Latest(ChangeStream!ChangesOf(d)) \in Nat /\ saved[s] \in Nat
      BY <2>1, CsLast DEF CsBy, CsTypeOK
    <3>3. CsBy(d, saved[s])
      BY <1>3, <2>1, <3>2 DEF CsBy
    <3>4. QED
      BY <1>1, <3>1, <3>3 DEF CsSaved
  <2>2. \A d : CsBy(d, cursor)' => CsBy(d, cursor')
    BY <1>1, CsSame DEF CsBy
  <2>3. QED
    BY <1>5, <2>1, <2>2 DEF CsRead
<1>8. QED
  BY <1>4, <1>6, <1>7

\* Records of a last change, and the fetched documents, only add to what is done.
LEMMA CsMore ==
    ASSUME NEW R, NEW N, NEW d, CsDone(R, d), \A r \in N : r.doc = d => r.ver >= ChangeStream!Latest(ChangeStream!ChangesOf(d))
    PROVE  CsDone(R \cup N, d)
BY DEF CsDone

\* A flush of the buffer writes the last change of the documents that exist.
LEMMA CsFetched ==
    ASSUME CsTypeOK, NEW B \in SUBSET ChangeStream!Docs
    PROVE  /\ ChangeStream!Fetched(B) \subseteq CsRecords
           /\ \A r \in ChangeStream!Fetched(B) : r.ver >= ChangeStream!Latest(ChangeStream!ChangesOf(r.doc))
           /\ \A R, d : d \in B /\ ChangeStream!ChangesOf(d) # {} /\ CsUpdated(d) => CsDone(R \cup ChangeStream!Fetched(B), d)
<1>1. \A d : ChangeStream!Exists(d) =>
          /\ ChangeStream!ChangesOf(d) # {} /\ ChangeStream!Latest(ChangeStream!OperationsOf(d)) \in Nat
          /\ ChangeStream!Latest(ChangeStream!OperationsOf(d)) >= ChangeStream!Latest(ChangeStream!ChangesOf(d))
  BY CsOperations DEF ChangeStream!Exists
<1>2. \A r \in ChangeStream!Fetched(B) : \E d \in B : ChangeStream!Exists(d) /\ r = [doc |-> d, ver |-> ChangeStream!Latest(ChangeStream!OperationsOf(d))]
  BY DEF ChangeStream!Fetched, ChangeStream!Record
<1>3. ChangeStream!Fetched(B) \subseteq CsRecords /\ \A r \in ChangeStream!Fetched(B) : r.ver >= ChangeStream!Latest(ChangeStream!ChangesOf(r.doc))
  BY <1>1, <1>2 DEF CsRecords
<1>4. ASSUME NEW R, NEW d \in B, ChangeStream!ChangesOf(d) # {}, CsUpdated(d) PROVE CsDone(R \cup ChangeStream!Fetched(B), d)
  <2>1. ChangeStream!Exists(d)
    BY <1>4 DEF CsUpdated, ChangeStream!Exists
  <2>2. [doc |-> d, ver |-> ChangeStream!Latest(ChangeStream!OperationsOf(d))] \in ChangeStream!Fetched(B)
    BY <2>1 DEF ChangeStream!Fetched, ChangeStream!Record
  <2>3. QED
    BY <1>1, <2>1, <2>2 DEF CsDone
<1>5. QED
  BY <1>3, <1>4

\* A change is read: a record, or an update that waits; the buffer is flushed
\* before a STATE.
LEMMA CsReadChange == CsInv /\ ChangeStream!ReadChange => CsInv'
<1> SUFFICES ASSUME CsInv, ChangeStream!ReadChange PROVE CsInv'
  OBVIOUS
<1> USE DEF CsInv
<1> DEFINE c == oplog[cursor + 1]
           R == IF c.op = "update" THEN {} ELSE {ChangeStream!Record(c.doc, cursor + 1)}
           B == ChangeStream!Buffered(c)
<1>1. PICK F, flushed :
         /\ flushed \in BOOLEAN
         /\ F = IF flushed THEN ChangeStream!Fetched(B) ELSE {}
         /\ update_buffer' = IF flushed THEN {} ELSE B
         /\ \/ flushed /\ ChangeStream!RecordsAndState(R \cup F, tap_state')
            \/ ChangeStream!Records(R \cup F)
  <2> DEFINE rows == rows_saved + ChangeStream!Cardinality(R)
             full == ChangeStream!Cardinality(B) >= update_buffer_size \/ rows % UPDATE_BOOKMARK_PERIOD = 0
             G == IF full THEN ChangeStream!Fetched(B) ELSE {}
  <2>1. update_buffer' = IF full THEN {} ELSE B
    BY DEF ChangeStream!ReadChange
  <2>2. \/ full /\ ChangeStream!RecordsAndState(R \cup G, tap_state')
        \/ ChangeStream!Records(R \cup G)
    BY DEF ChangeStream!ReadChange
  <2>3. full \in BOOLEAN
    OBVIOUS
  <2> HIDE DEF full, R, B
  <2>4. QED
    BY <2>1, <2>2, <2>3
<1>2. /\ tap_pc = "watching" /\ cursor < Len(oplog) /\ cursor' = cursor + 1 /\ c.op # "replace"
      /\ tap_state' = ChangeStream!update_bookmarks(cursor + 1) /\ UNCHANGED <<oplog, tap_pc, unflushed>>
  BY DEF ChangeStream!ReadChange
<1>3. tap_emitted' = (tap_emitted \cup R) \cup F
  BY <1>1 DEF ChangeStream!Records, ChangeStream!RecordsAndState
<1>4. \/ flushed /\ tap_loaded' = tap_emitted' /\ saved' = tap_state'
      \/ UNCHANGED <<tap_loaded, saved>>
  BY <1>1 DEF ChangeStream!Records, ChangeStream!RecordsAndState
<1>5. /\ Len(oplog) \in Nat /\ cursor \in Nat /\ cursor + 1 \in 1..Len(oplog)
      /\ c \in [op : ChangeStream!Operations, doc : ChangeStream!Docs]
  <2>1. Len(oplog) \in Nat /\ cursor \in Nat /\ cursor + 1 \in 1..Len(oplog)
    BY <1>2 DEF CsTypeOK
  <2>2. \A X : oplog \in Seq(X) => oplog[cursor + 1] \in X
    BY <2>1
  <2>3. QED
    BY <2>1, <2>2 DEF CsTypeOK
<1>6. /\ c.doc \in ChangeStream!Docs
      /\ \A d \in B : d \in ChangeStream!Docs
      /\ \A d : d # c.doc => (d \in update_buffer => d \in B)
      /\ c.op = "update" => c.doc \in B
      /\ c.op # "update" => R = {[doc |-> c.doc, ver |-> cursor + 1]}
      /\ c.op = "update" => R = {}
  <2>1. c.doc \in ChangeStream!Docs
    BY <1>5
  <2> HIDE DEF c
  <2>2. QED
    BY <2>1 DEF ChangeStream!Buffered, CsTypeOK, ChangeStream!Record
<1>7. cursor + 1 \in ChangeStream!ChangesOf(c.doc)
  BY <1>2, <1>5 DEF ChangeStream!ChangesOf, ChangeStream!OperationsOf
<1> HIDE DEF c, R, B
<1>8. ChangeStream!Latest(ChangeStream!ChangesOf(c.doc)) \in Nat /\ cursor + 1 <= ChangeStream!Latest(ChangeStream!ChangesOf(c.doc))
  BY <1>7, CsLast
<1>9. /\ F \subseteq CsRecords /\ \A r \in F : r.ver >= ChangeStream!Latest(ChangeStream!ChangesOf(r.doc))
      /\ flushed => \A S, d : d \in B /\ ChangeStream!ChangesOf(d) # {} /\ CsUpdated(d) => CsDone(S \cup F, d)
  <2>1. B \in SUBSET ChangeStream!Docs
    BY <1>6
  <2>2. QED
    BY <1>1, <2>1, CsFetched
<1>10. CsTypeOK'
  <2>1. R \subseteq CsRecords
    BY <1>5, <1>6 DEF CsRecords
  <2>2. tap_state' \in [Collections -> Nat] /\ \A s \in Collections : tap_state'[s] <= Len(oplog)
    BY <1>2, <1>5 DEF ChangeStream!update_bookmarks
  <2>3. update_buffer' \subseteq ChangeStream!Docs
    BY <1>1, <1>6
  <2>4. tap_emitted' \subseteq CsRecords /\ tap_loaded' \subseteq CsRecords
    BY <1>3, <1>4, <1>9, <2>1 DEF CsTypeOK
  <2>5. saved' \in [Collections -> Nat] /\ \A s \in Collections : saved'[s] <= Len(oplog)
    BY <1>4, <2>2 DEF CsTypeOK
  <2>6. cursor' \in Nat /\ cursor' <= Len(oplog)
    BY <1>2, <1>5
  <2>7. QED
    BY <1>2, <2>2, <2>3, <2>4, <2>5, <2>6 DEF CsTypeOK
<1>11. ASSUME NEW d \in ChangeStream!Docs, CsBy(d, cursor + 1)
       PROVE  CsDone(tap_emitted', d) \/ (~flushed /\ d \in B /\ CsUpdated(d))
  <2>1. ChangeStream!ChangesOf(d) # {} /\ ChangeStream!Latest(ChangeStream!ChangesOf(d)) \in Nat /\ ChangeStream!Latest(ChangeStream!ChangesOf(d)) <= cursor + 1
    BY <1>11, CsLast DEF CsBy
  <2>2. CASE ChangeStream!Latest(ChangeStream!ChangesOf(d)) <= cursor
    <3>1. d # c.doc
      BY <1>5, <1>8, <2>1, <2>2
    <3>2. CsDone(tap_emitted, d) \/ (d \in update_buffer /\ CsUpdated(d))
      BY <1>2, <2>1, <2>2 DEF CsRead, CsBy
    <3>3. CASE CsDone(tap_emitted, d)
      <4>1. \A r \in R \cup F : r.doc = d => r.ver >= ChangeStream!Latest(ChangeStream!ChangesOf(d))
        BY <1>6, <1>9, <3>1
      <4>2. CsDone(tap_emitted \cup (R \cup F), d)
        BY <3>3, <4>1, CsMore
      <4>3. tap_emitted \cup (R \cup F) = tap_emitted'
        BY <1>3
      <4>4. QED
        BY <4>2, <4>3
    <3>4. CASE d \in update_buffer /\ CsUpdated(d)
      <4>1. d \in B
        BY <1>6, <3>1, <3>4
      <4>2. flushed => CsDone((tap_emitted \cup R) \cup F, d)
        BY <1>9, <2>1, <3>4, <4>1
      <4>3. QED
        BY <1>1, <1>3, <3>4, <4>1, <4>2
    <3>5. QED
      BY <3>2, <3>3, <3>4
  <2>3. CASE ~(ChangeStream!Latest(ChangeStream!ChangesOf(d)) <= cursor)
    <3>1. ChangeStream!Latest(ChangeStream!ChangesOf(d)) = cursor + 1
      BY <1>5, <2>1, <2>3
    <3>2. c.doc = d
      <4>1. cursor + 1 \in ChangeStream!ChangesOf(d)
        BY <2>1, <3>1, CsLast
      <4>2. QED
        BY <4>1 DEF ChangeStream!ChangesOf, ChangeStream!OperationsOf, c
    <3>3. CASE c.op = "update"
      <4>1. d \in B /\ CsUpdated(d)
        BY <1>6, <3>1, <3>2, <3>3 DEF CsUpdated, c
      <4>2. flushed => CsDone((tap_emitted \cup R) \cup F, d)
        BY <1>9, <2>1, <4>1
      <4>3. QED
        BY <1>1, <1>3, <4>1, <4>2
    <3>4. CASE c.op # "update"
      <4>1. [doc |-> d, ver |-> cursor + 1] \in tap_emitted'
        BY <1>3, <1>6, <3>2, <3>4
      <4>2. QED
        BY <1>5, <3>1, <4>1 DEF CsDone
    <3>5. QED
      BY <3>3, <3>4
  <2>4. QED
    BY <2>2, <2>3
<1>12. \A d : /\ CsDone(tap_emitted, d)' <=> CsDone(tap_emitted', d)
              /\ CsDone(tap_loaded, d)' <=> CsDone(tap_loaded', d)
              /\ \A n : CsBy(d, n)' <=> CsBy(d, n)
              /\ CsUpdated(d)' = CsUpdated(d)
  BY <1>2, CsSame DEF CsDone
<1>13. CsRead'
  <2>1. \A d \in ChangeStream!Docs : CsBy(d, cursor + 1) => CsDone(tap_emitted', d) \/ (d \in update_buffer' /\ CsUpdated(d))
    BY <1>1, <1>11
  <2>2. \A d : CsBy(d, cursor)' <=> CsBy(d, cursor + 1)
    BY <1>2, CsSame DEF CsBy
  <2>3. QED
    BY <1>12, <2>1, <2>2 DEF CsRead
<1>14. CsSaved'
  <2>1. ASSUME NEW s \in Collections, saved'[s] # 0, NEW d \in DocsOf[s], CsBy(d, saved'[s])
        PROVE  CsDone(tap_loaded', d)
    <3>1. d \in ChangeStream!Docs
      BY DEF ChangeStream!Docs
    <3>2. CASE flushed /\ tap_loaded' = tap_emitted' /\ saved' = tap_state'
      <4>1. saved'[s] = cursor + 1
        BY <1>2, <3>2 DEF ChangeStream!update_bookmarks
      <4>2. QED
        BY <1>11, <2>1, <3>1, <3>2, <4>1
    <3>3. CASE UNCHANGED <<tap_loaded, saved>>
      BY <2>1, <3>3 DEF CsSaved
    <3>4. QED
      BY <1>4, <3>2, <3>3
  <2>2. \A s, d : CsBy(d, saved[s])' <=> CsBy(d, saved'[s])
    BY <1>2, CsSame DEF CsBy
  <2>3. QED
    BY <1>12, <2>1, <2>2 DEF CsSaved
<1>15. CsShape'
  BY <1>2 DEF CsShape
<1>16. QED
  BY <1>10, <1>13, <1>14, <1>15

\* A replace is no change the stream has: the cursor moves on.
LEMMA CsPassReplace == CsInv /\ ChangeStream!PassReplace => CsInv'
<1> SUFFICES ASSUME CsInv, ChangeStream!PassReplace PROVE CsInv'
  OBVIOUS
<1> USE DEF CsInv
<1>1. /\ tap_pc = "watching" /\ cursor < Len(oplog) /\ cursor' = cursor + 1 /\ oplog[cursor + 1].op = "replace"
      /\ UNCHANGED <<oplog, tap_pc, tap_state, update_buffer, unflushed, tap_emitted, tap_loaded, saved>>
  BY DEF ChangeStream!PassReplace, ChangeStream!pipe
<1>2. CsTypeOK' /\ CsShape'
  <2>1. Len(oplog) \in Nat /\ cursor \in Nat
    BY DEF CsTypeOK
  <2>2. QED
    BY <1>1, <2>1 DEF CsTypeOK, CsShape
<1>3. \A d : /\ CsDone(tap_loaded, d)' <=> CsDone(tap_loaded, d)
             /\ CsDone(tap_emitted, d)' <=> CsDone(tap_emitted, d)
             /\ CsUpdated(d)' = CsUpdated(d)
             /\ \A s : CsBy(d, saved[s])' <=> CsBy(d, saved[s])
  BY <1>1, CsSame DEF CsDone, CsBy
<1>4. CsSaved'
  BY <1>1, <1>3 DEF CsSaved
<1>5. CsRead'
  <2>1. ASSUME NEW d, CsBy(d, cursor)' PROVE CsBy(d, cursor)
    <3>1. ChangeStream!ChangesOf(d) # {} /\ ChangeStream!Latest(ChangeStream!ChangesOf(d)) <= cursor + 1
      BY <1>1, <2>1, CsSame DEF CsBy
    <3>2. ChangeStream!Latest(ChangeStream!ChangesOf(d)) \in Nat /\ ChangeStream!Latest(ChangeStream!ChangesOf(d)) \in ChangeStream!ChangesOf(d)
      BY <3>1, CsLast
    <3>3. cursor + 1 \notin ChangeStream!ChangesOf(d)
      BY <1>1 DEF ChangeStream!ChangesOf
    <3>4. cursor \in Nat
      BY DEF CsTypeOK
    <3>5. QED
      BY <3>1, <3>2, <3>3, <3>4 DEF CsBy
  <2>2. QED
    BY <1>1, <1>3, <2>1 DEF CsRead
<1>6. QED
  BY <1>2, <1>4, <1>5

\* The closing STATE passes the updates that are in the buffer.
LEMMA CsNoChange == CsInv /\ ChangeStream!NoChange => CsInv'
<1> SUFFICES ASSUME CsInv, ChangeStream!NoChange PROVE CsInv'
  OBVIOUS
<1> USE DEF CsInv
<1>1. /\ tap_pc = "watching" /\ cursor = Len(oplog) /\ tap_state' = ChangeStream!update_bookmarks(cursor) /\ tap_pc' = "leaving"
      /\ unflushed' = unflushed \cup update_buffer /\ UNCHANGED <<oplog, cursor, update_buffer>>
      /\ tap_emitted' = tap_emitted
      /\ \/ tap_loaded' = tap_emitted' /\ saved' = tap_state'
         \/ UNCHANGED <<tap_loaded, saved>>
  BY DEF ChangeStream!NoChange, ChangeStream!RecordsAndState
<1>2. tap_state' \in [Collections -> Nat] /\ \A s \in Collections : tap_state'[s] = cursor /\ cursor \in Nat
  BY <1>1 DEF ChangeStream!update_bookmarks, CsTypeOK
<1>3. CsTypeOK' /\ CsShape'
  <2>1. CsShape'
    BY <1>1 DEF CsShape, ChangeStream!update_bookmarks
  <2>2. saved' \in [Collections -> Nat] /\ \A s \in Collections : saved'[s] <= Len(oplog)
    BY <1>1, <1>2 DEF CsTypeOK
  <2>3. CsTypeOK'
    BY <1>1, <1>2, <2>2 DEF CsTypeOK
  <2>4. QED
    BY <2>1, <2>3
<1>4. \A d, R : /\ CsDone(R, d) => (\/ ~ChangeStream!Exists(d)' /\ \A r \in R : r.doc # d
                                    \/ \E r \in R : r.doc = d /\ r.ver >= ChangeStream!Latest(ChangeStream!ChangesOf(d))'
                                    \/ d \in unflushed' /\ CsUpdated(d)')
  BY <1>1, CsSame DEF CsDone
<1>5. \A d : /\ CsDone(tap_loaded, d) /\ tap_loaded' = tap_loaded => CsDone(tap_loaded, d)'
             /\ CsDone(tap_emitted, d) => CsDone(tap_emitted, d)'
             /\ CsDone(tap_emitted, d) /\ tap_loaded' = tap_emitted' => CsDone(tap_loaded, d)'
             /\ d \in update_buffer /\ CsUpdated(d) => CsDone(tap_loaded, d)' /\ CsDone(tap_emitted, d)'
             /\ \A n : CsBy(d, n)' <=> CsBy(d, n)
  BY <1>1, <1>4, CsSame DEF CsDone
<1>6. CsRead'
  <2>1. \A d : CsBy(d, cursor)' => CsBy(d, cursor)
    BY <1>1, CsSame DEF CsBy
  <2>2. QED
    BY <1>1, <1>5, <2>1 DEF CsRead
<1>7. CsSaved'
  <2>1. ASSUME NEW s \in Collections, saved'[s] # 0, NEW d \in DocsOf[s], CsBy(d, saved'[s])
        PROVE  CsDone(tap_loaded, d)'
    <3>1. d \in ChangeStream!Docs
      BY DEF ChangeStream!Docs
    <3>2. CASE tap_loaded' = tap_emitted' /\ saved' = tap_state'
      <4>1. CsBy(d, cursor)
        BY <1>2, <2>1, <3>2
      <4>2. CsDone(tap_emitted, d) \/ (d \in update_buffer /\ CsUpdated(d))
        BY <1>1, <3>1, <4>1 DEF CsRead
      <4>3. QED
        BY <1>5, <3>2, <4>2
    <3>3. CASE UNCHANGED <<tap_loaded, saved>>
      BY <1>5, <2>1, <3>3 DEF CsSaved
    <3>4. QED
      BY <1>1, <3>2, <3>3
  <2>2. \A s, d : CsBy(d, saved[s])' <=> CsBy(d, saved'[s])
    BY <1>1, CsSame DEF CsBy
  <2>3. QED
    BY <2>1, <2>2 DEF CsSaved
<1>8. QED
  BY <1>3, <1>6, <1>7

\* The last flush, and the STATE that ends the run.
LEMMA CsFinish == CsInv /\ ChangeStream!Finish => CsInv'
<1> SUFFICES ASSUME CsInv, ChangeStream!Finish PROVE CsInv'
  OBVIOUS
<1> USE DEF CsInv
<1> DEFINE F == ChangeStream!Fetched(update_buffer)
<1>1. /\ tap_pc = "leaving" /\ tap_pc' = "idle" /\ tap_emitted' = tap_emitted \cup F /\ tap_loaded' = tap_emitted'
      /\ saved' = tap_state /\ tap_state' = tap_state /\ cursor' = 0 /\ update_buffer' = {}
      /\ UNCHANGED <<oplog, unflushed>>
  BY DEF ChangeStream!Finish, ChangeStream!RecordsAndLastState, ChangeStream!Exit
<1>2. tap_state = ChangeStream!update_bookmarks(cursor) /\ cursor \in Nat /\ cursor <= Len(oplog) /\ update_buffer \in SUBSET ChangeStream!Docs
  BY <1>1 DEF CsShape, CsTypeOK
<1>3. /\ F \subseteq CsRecords /\ \A r \in F : r.ver >= ChangeStream!Latest(ChangeStream!ChangesOf(r.doc))
      /\ \A S, d : d \in update_buffer /\ ChangeStream!ChangesOf(d) # {} /\ CsUpdated(d) => CsDone(S \cup F, d)
  BY <1>2, CsFetched
<1> HIDE DEF F
<1>4. \A s \in Collections : saved'[s] = cursor
  BY <1>1, <1>2 DEF ChangeStream!update_bookmarks
<1>5. CsTypeOK' /\ CsShape'
  <2>1. tap_emitted' \subseteq CsRecords
    BY <1>1, <1>3 DEF CsTypeOK
  <2>2. saved' \in [Collections -> Nat] /\ Len(oplog) \in Nat
    BY <1>1 DEF CsTypeOK
  <2>3. QED
    BY <1>1, <1>2, <1>4, <2>1, <2>2 DEF CsTypeOK, CsShape
<1>6. CsSaved'
  <2>1. ASSUME NEW d \in ChangeStream!Docs, CsBy(d, cursor) PROVE CsDone(tap_emitted \cup F, d)
    <3>1. CsDone(tap_emitted, d) \/ (d \in update_buffer /\ CsUpdated(d))
      BY <1>1, <2>1 DEF CsRead
    <3>2. CASE CsDone(tap_emitted, d)
      BY <1>3, <3>2, CsMore
    <3>3. CASE d \in update_buffer /\ CsUpdated(d)
      BY <1>3, <2>1, <3>3 DEF CsBy
    <3>4. QED
      BY <3>1, <3>2, <3>3
  <2>2. \A d : CsDone(tap_loaded, d)' <=> CsDone(tap_loaded', d)
    BY <1>1, CsSame DEF CsDone
  <2>3. \A s, d : CsBy(d, saved[s])' <=> CsBy(d, saved'[s])
    BY <1>1, CsSame DEF CsBy
  <2>4. \A s \in Collections : \A d \in DocsOf[s] : d \in ChangeStream!Docs
    BY DEF ChangeStream!Docs
  <2>5. QED
    BY <1>1, <1>4, <2>1, <2>2, <2>3, <2>4 DEF CsSaved
<1>7. QED
  BY <1>1, <1>5, <1>6 DEF CsRead

\* A run dies: what the target had not loaded is lost.
LEMMA CsDie == CsInv /\ ChangeStream!Die => CsInv'
<1> SUFFICES ASSUME CsInv, ChangeStream!Die PROVE CsInv'
  OBVIOUS
<1> USE DEF CsInv
<1>1. /\ tap_pc' = "idle" /\ tap_emitted' = tap_loaded /\ tap_state' = saved /\ cursor' = 0 /\ update_buffer' = {}
      /\ UNCHANGED <<oplog, unflushed, tap_loaded, saved>>
  BY DEF ChangeStream!Die, ChangeStream!Lost, ChangeStream!Exit
<1>2. CsTypeOK' /\ CsShape'
  <2>1. Len(oplog) \in Nat
    BY DEF CsTypeOK
  <2>2. QED
    BY <1>1, <2>1 DEF CsTypeOK, CsShape
<1>3. \A d : /\ CsDone(tap_loaded, d)' <=> CsDone(tap_loaded, d)
             /\ \A s : CsBy(d, saved[s])' <=> CsBy(d, saved[s])
  BY <1>1, CsSame DEF CsDone, CsBy
<1>4. CsSaved'
  BY <1>1, <1>3 DEF CsSaved
<1>5. QED
  BY <1>1, <1>2, <1>4 DEF CsRead

\* Nothing changes.
LEMMA CsStutter == CsInv /\ UNCHANGED ChangeStream!streamVars => CsInv'
<1> SUFFICES ASSUME CsInv, UNCHANGED ChangeStream!streamVars PROVE CsInv'
  OBVIOUS
<1>1. UNCHANGED <<oplog, tap_pc, tap_state, cursor, update_buffer, unflushed, tap_emitted, tap_loaded, saved>>
  BY DEF ChangeStream!streamVars, ChangeStream!pipe
<1>2. CsTypeOK' /\ CsShape'
  BY <1>1 DEF CsInv, CsTypeOK, CsShape, ChangeStream!update_bookmarks
<1>3. \A d : /\ CsDone(tap_loaded, d)' <=> CsDone(tap_loaded, d)
             /\ CsDone(tap_emitted, d)' <=> CsDone(tap_emitted, d)
             /\ CsUpdated(d)' = CsUpdated(d)
             /\ CsBy(d, cursor)' <=> CsBy(d, cursor)
             /\ \A s : CsBy(d, saved[s])' <=> CsBy(d, saved[s])
  BY <1>1, CsSame DEF CsDone, CsBy
<1>4. CsSaved'
  BY <1>1, <1>3 DEF CsInv, CsSaved
<1>5. CsRead'
  BY <1>1, <1>3 DEF CsInv, CsRead
<1>6. QED
  BY <1>2, <1>4, <1>5 DEF CsInv

\* Every step keeps the invariant.
LEMMA CsStep == CsInv /\ [ChangeStream!Next]_(ChangeStream!streamVars) => CsInv'
BY CsWrite, CsInitialCopy, CsWatch, CsReadChange, CsPassReplace, CsNoChange, CsFinish, CsDie, CsStutter DEF ChangeStream!Next

\* What the least of the saved tokens passes is loaded, but for what a closing
\* STATE passed.
LEMMA CsImplies == CsInv => ChangeStream!OnlyTheClosingBufferIsSkipped
<1> SUFFICES ASSUME CsInv, NEW d \in ChangeStream!SkippedDocs
             PROVE  d \in unflushed /\ oplog[ChangeStream!Latest(ChangeStream!ChangesOf(d))].op = "update"
  BY DEF ChangeStream!OnlyTheClosingBufferIsSkipped
<1>1. PICK s \in Collections : d \in DocsOf[s] /\ saved[s] # 0
  BY DEF ChangeStream!SkippedDocs
<1>2. /\ ChangeStream!ChangesOf(d) # {} /\ ChangeStream!Latest(ChangeStream!ChangesOf(d)) <= ChangeStream!get_token_from_state(saved)
      /\ ChangeStream!Exists(d) \/ ChangeStream!Versions(d) # {}
      /\ \A v \in ChangeStream!Versions(d) : v < ChangeStream!Latest(ChangeStream!ChangesOf(d))
  BY DEF ChangeStream!SkippedDocs
<1>3. ChangeStream!Latest(ChangeStream!ChangesOf(d)) \in Nat /\ saved[s] \in Nat /\ ChangeStream!get_token_from_state(saved) \in Nat
      /\ ChangeStream!get_token_from_state(saved) <= saved[s]
  BY <1>1, <1>2, CsLast, CsToken DEF CsInv, CsTypeOK
<1>4. CsBy(d, saved[s])
  BY <1>2, <1>3 DEF CsBy
<1>5. CsDone(tap_loaded, d)
  BY <1>1, <1>4 DEF CsInv, CsSaved
<1>6. \A r \in tap_loaded : r.doc = d => r.ver \in ChangeStream!Versions(d) /\ r.ver \in Nat
  BY DEF ChangeStream!Versions, CsInv, CsTypeOK, CsRecords
<1>7. ~(\E r \in tap_loaded : r.doc = d /\ r.ver >= ChangeStream!Latest(ChangeStream!ChangesOf(d)))
  BY <1>2, <1>3, <1>6
<1>8. ~(~ChangeStream!Exists(d) /\ \A r \in tap_loaded : r.doc # d)
  BY <1>2 DEF ChangeStream!Versions
<1>9. QED
  BY <1>5, <1>7, <1>8 DEF CsDone, CsUpdated

-----------------------------------------------------------------------------
(* tap-postgres: tables read by key value, or copied in the order of xmin  *)

PgMethods   == PostgresTable!Methods \cup {""}
PgBookmarks == [lsn : Nat, xmin : Nat, rk_value : Nat, last_replication_method : PgMethods]

\* Types of the state of tap-postgres.
PgTypeOK ==
    /\ history \subseteq Versions /\ IsFiniteSet(history)
    /\ clock \in 0..MaxChanges /\ time \in Nat
    /\ method \in PostgresTable!Methods
    /\ tap_pc \in {"idle", "query", "fetch", "end"}
    /\ tap_state \in PgBookmarks /\ saved \in PgBookmarks
    /\ result \in Seq(Versions)
    /\ tap_loaded \subseteq tap_emitted
    /\ due \subseteq history
    /\ copied \in BOOLEAN
    /\ passed \subseteq history

\* No change, key value, transaction id or position is in the future.
PgPast ==
    /\ \A c \in history : c.ver <= clock /\ c.rk <= time
    /\ \A i \in 1..Len(result) : result[i].ver <= clock /\ result[i].rk <= time
    /\ saved.rk_value <= time /\ tap_state.rk_value <= time
    /\ saved.xmin <= FirstXid + clock /\ tap_state.xmin <= FirstXid + clock
    /\ saved.lsn <= clock /\ tap_state.lsn <= clock

\* The bookmark of a run belongs to its method; that of a LOG_BASED stream has
\* its lsn from the start.
PgShape ==
    /\ tap_pc # "idle" => tap_state.last_replication_method = method
    /\ tap_pc # "idle" /\ method = "LOG_BASED" => tap_state.lsn # 0
    /\ tap_pc = "end" => result = << >> /\ tap_state.xmin = 0

\* The row is not behind the bookmark st: by its key value, and by its
\* transaction id or by the text of it.
PgAhead(st, r) ==
    /\ st.rk_value <= r.rk
    /\ st.xmin <= PostgresTable!xmin(r) \/ PostgresTable!AsText(st.xmin) <= PostgresTable!ByXminText(r)

\* What is behind the saved bookmark is loaded, or was passed by a copy.
PgSaved == \A r \in PostgresTable!Rows : r \in tap_loaded \/ PgAhead(saved, r) \/ r \in passed

\* What is behind the one in memory is written, or was passed.
PgRead == tap_pc # "idle" => \A r \in PostgresTable!Rows : r \in tap_emitted \/ PgAhead(tap_state, r) \/ r \in passed

\* The rows come in the order of their key value or of the text of their
\* transaction id; one that is not among them changed since, waits for another
\* SELECT or was passed.
PgOrder(q, r) ==
    IF method = "INCREMENTAL" THEN q.rk <= r.rk
    ELSE PostgresTable!ByXminText(q) <= PostgresTable!ByXminText(r)
PgBefore(q, r) == PgOrder(q, r) \/ (method # "INCREMENTAL" /\ PostgresTable!xmin(q) <= PostgresTable!xmin(r))
PgFetch ==
    tap_pc = "fetch" =>
        /\ \A i, j \in 1..Len(result) : i < j => PgOrder(result[i], result[j])
        /\ \A r \in PostgresTable!Rows : \/ r \in tap_emitted \/ r \in passed
                                         \/ \E i \in 1..Len(result) : result[i] = r
                                         \/ \A i \in 1..Len(result) : PgBefore(result[i], r)

\* The copy of a LOG_BASED stream has every change before its lsn, but for the
\* rows that were passed.
PgHas(R, c) == \E d \in R : d.key = c.key /\ d.ver >= c.ver
PgComes(c)  == \E i \in 1..Len(result) : result[i].key = c.key /\ result[i].ver >= c.ver
PgCopy ==
    tap_pc \in {"fetch", "end"} /\ method = "LOG_BASED" =>
        \A c \in history : c.ver > tap_state.lsn \/ PgHas(tap_emitted, c) \/ PgComes(c) \/ PgHas(passed, c)

\* Once it is saved the changes come from the log.
PgCopied ==
    method = "LOG_BASED" /\ copied =>
        /\ tap_pc = "idle"
        /\ saved.last_replication_method = "LOG_BASED" /\ saved.lsn # 0 /\ saved.xmin = 0
        /\ \A c \in history : PgHas(tap_loaded, c) \/ c.ver > saved.lsn \/ PgHas(passed, c)

\* The invariant of tap-postgres.
PgInv == PgTypeOK /\ PgPast /\ PgShape /\ PgSaved /\ PgRead /\ PgFetch /\ PgCopy /\ PgCopied

\* The rows of the table are the last versions of their keys.
LEMMA PgRows == PostgresTable!Rows = LastOf(history) /\ PostgresTable!Rows \subseteq history
BY DEF PostgresTable!Rows, PostgresTable!VersionsOf, LastOf

\* The ids are naturals.
LEMMA PgNumbers ==
    PgTypeOK => /\ clock \in Nat /\ FirstXid \in Nat
                /\ \A c \in history : c.key \in Nat /\ c.ver \in Nat /\ c.rk \in Nat /\ PostgresTable!xmin(c) \in Nat
<1> SUFFICES ASSUME PgTypeOK
             PROVE  /\ clock \in Nat /\ FirstXid \in Nat
                    /\ \A c \in history : c.key \in Nat /\ c.ver \in Nat /\ c.rk \in Nat /\ PostgresTable!xmin(c) \in Nat
  OBVIOUS
<1>1. clock \in Nat /\ FirstXid \in Nat
  <2>1. MaxChanges \in Nat /\ FirstXid \in Nat
    BY DatabasesAssumption
  <2>2. QED
    BY <2>1 DEF PgTypeOK
<1>2. \A c \in history : c.key \in Nat /\ c.ver \in Nat /\ c.rk \in Nat
  BY DEF PgTypeOK, Versions
<1>3. \A c \in history : PostgresTable!xmin(c) \in Nat
  BY <1>1, <1>2 DEF PostgresTable!xmin
<1>4. QED
  BY <1>1, <1>2, <1>3

\* An empty table has no row to skip.
LEMMA PgInit == PostgresTable!Init => PgInv
<1> SUFFICES ASSUME PostgresTable!Init PROVE PgInv
  OBVIOUS
<1>1. /\ history = {} /\ clock = 0 /\ time = 1 /\ tap_pc = "idle" /\ result = << >>
      /\ tap_state = PostgresTable!EmptyState /\ saved = PostgresTable!EmptyState /\ tap_emitted = {} /\ tap_loaded = {} /\ due = {}
      /\ method \in PostgresTable!Methods /\ copied = FALSE /\ passed = {}
  BY DEF PostgresTable!Init, PostgresTable!TableInit
<1>2. PostgresTable!EmptyState \in PgBookmarks /\ PostgresTable!EmptyState.rk_value = 0 /\ PostgresTable!EmptyState.xmin = 0 /\ PostgresTable!EmptyState.lsn = 0
  BY DEF PostgresTable!EmptyState, PgBookmarks, PgMethods
<1>3. IsFiniteSet(history) /\ PostgresTable!Rows = {}
  BY <1>1, PgRows, FS_EmptySet
<1>4. result \in Seq(Versions) /\ Len(result) = 0 /\ MaxChanges \in Nat /\ FirstXid \in Nat
  BY <1>1, DatabasesAssumption
<1>5. PgTypeOK /\ PgPast
  <2>1. clock \in 0..MaxChanges /\ due \subseteq history /\ copied \in BOOLEAN
    <3>1. copied \in BOOLEAN
      BY <1>1
    <3>2. 0 \in 0..MaxChanges
      BY <1>4
    <3>3. QED
      BY <1>1, <3>1, <3>2
  <2>2. PgTypeOK
    BY <1>1, <1>2, <1>3, <1>4, <2>1 DEF PgTypeOK
  <2>3. PgPast
    BY <1>1, <1>2, <1>4 DEF PgPast
  <2>4. QED
    BY <2>2, <2>3
<1>6. PgShape /\ PgSaved /\ PgRead /\ PgFetch /\ PgCopy /\ PgCopied
  BY <1>1, <1>3 DEF PgShape, PgSaved, PgRead, PgFetch, PgCopy, PgCopied
<1>7. QED
  BY <1>5, <1>6 DEF PgInv

\* A transaction of the table: its rows have a later xmin than any bookmark.
LEMMA PgChange == PgInv /\ (\E K \in PostgresTable!Batches : PostgresTable!Change(K)) /\ UNCHANGED passed => PgInv'
<1> SUFFICES ASSUME PgInv, NEW K \in PostgresTable!Batches, PostgresTable!Change(K), UNCHANGED passed PROVE PgInv'
  OBVIOUS
<1> USE DEF PgInv
<1> DEFINE N == Changed(K, clock + 1, time)
<1>1. /\ clock < MaxChanges /\ clock' = clock + 1 /\ history' = history \cup N
      /\ UNCHANGED <<time, method, tap_pc, tap_state, saved, result, due, tap_loaded, tap_emitted, copied, passed>>
  BY DEF PostgresTable!Change, PostgresTable!pipe, Changed
<1>2. K \in SUBSET (1..MaxKey) /\ K \subseteq Nat
  BY DEF PostgresTable!Batches, PostgresTable!PrimaryKeys
<1>3. IsFiniteSet(history')
  <2>1. IsFiniteSet(history) /\ MaxKey \in Nat
    BY DatabasesAssumption DEF PgTypeOK
  <2>2. QED
    BY <1>1, <1>2, <2>1, FiniteChange
<1>4. N \subseteq Versions /\ \A c \in N : c.rk = time /\ c.ver = clock + 1
  <2>1. clock + 1 \in Nat /\ time \in Nat
    BY PgNumbers DEF PgTypeOK
  <2>2. \A v \in Nat : Changed(K, v, time) \subseteq Versions
    BY <1>2, <2>1 DEF Versions, Changed
  <2>3. \A v : \A c \in Changed(K, v, time) : c.rk = time /\ c.ver = v
    BY DEF Changed
  <2>4. QED
    BY <2>1, <2>2, <2>3
<1> HIDE DEF N
<1>5. \A r \in PostgresTable!Rows' : r \in N \/ r \in PostgresTable!Rows
  <2>1. PostgresTable!Rows' = LastOf(history \cup N)
    BY <1>1 DEF PostgresTable!Rows, PostgresTable!VersionsOf, LastOf
  <2>2. \A r \in LastOf(history \cup N) : r \in N \/ r \in LastOf(history)
    BY DEF LastOf
  <2>3. QED
    BY <2>1, <2>2, PgRows
<1>6. clock \in Nat /\ FirstXid \in Nat /\ clock' \in 0..MaxChanges
  <2>1. MaxChanges \in Nat /\ clock \in Nat /\ FirstXid \in Nat
    BY DatabasesAssumption, PgNumbers
  <2>2. QED
    BY <1>1, <2>1
<1>7. PgTypeOK'
  BY <1>1, <1>3, <1>4, <1>6 DEF PgTypeOK
<1>8. /\ saved.xmin \in Nat /\ tap_state.xmin \in Nat /\ saved.lsn \in Nat /\ tap_state.lsn \in Nat
      /\ \A i \in 1..Len(result) : result[i].ver \in Nat
  <2>1. \A i \in 1..Len(result) : result[i] \in Versions
    BY DEF PgTypeOK
  <2>2. QED
    BY <2>1 DEF PgTypeOK, PgBookmarks, Versions
<1>9. PgPast'
  <2>1. \A c \in history' : c.ver <= clock' /\ c.rk <= time'
    BY <1>1, <1>4, <1>6, PgNumbers DEF PgTypeOK, PgPast
  <2>2. /\ \A i \in 1..Len(result) : result[i].ver <= clock'
        /\ saved.xmin <= FirstXid + clock' /\ tap_state.xmin <= FirstXid + clock'
        /\ saved.lsn <= clock' /\ tap_state.lsn <= clock'
    <3>1. clock' = clock + 1 /\ clock \in Nat /\ FirstXid \in Nat
      BY <1>1, <1>6
    <3>2. \A i \in 1..Len(result) : result[i].ver <= clock'
      <4>1. \A i \in 1..Len(result) : result[i].ver <= clock
        BY DEF PgPast
      <4>2. QED
        BY <3>1, <4>1, <1>8
    <3>3. /\ saved.xmin <= FirstXid + clock /\ tap_state.xmin <= FirstXid + clock
          /\ saved.lsn <= clock /\ tap_state.lsn <= clock
      BY DEF PgPast
    <3>4. /\ saved.xmin <= FirstXid + clock' /\ tap_state.xmin <= FirstXid + clock'
          /\ saved.lsn <= clock' /\ tap_state.lsn <= clock'
      BY <1>8, <3>1, <3>3
    <3>5. QED
      BY <3>2, <3>4
  <2>3. QED
    BY <1>1, <2>1, <2>2 DEF PgPast
<1>10. PgShape'
  BY <1>1 DEF PgShape
<1>11. ASSUME NEW r \in N
       PROVE  /\ PgAhead(saved, r) /\ PgAhead(tap_state, r) /\ r.ver > tap_state.lsn
              /\ \A i \in 1..Len(result) : PgBefore(result[i], r)
  <2>1. r.rk = time /\ r.ver = clock + 1 /\ PostgresTable!xmin(r) = FirstXid + clock + 1
    BY <1>4, <1>6 DEF PostgresTable!xmin
  <2>2. PgAhead(saved, r) /\ PgAhead(tap_state, r)
    BY <1>6, <1>8, <2>1 DEF PgAhead, PgPast
  <2>3. r.ver > tap_state.lsn
    BY <1>6, <1>8, <2>1 DEF PgPast
  <2>4. \A i \in 1..Len(result) : PgBefore(result[i], r)
    BY <1>6, <1>8, <2>1 DEF PgBefore, PgOrder, PgPast, PostgresTable!xmin
  <2>5. QED
    BY <2>2, <2>3, <2>4
<1>12. PgSaved' /\ PgRead'
  BY <1>1, <1>5, <1>11 DEF PgSaved, PgRead, PgAhead, PostgresTable!xmin, PostgresTable!ByXminText
<1>13. PgFetch'
  BY <1>1, <1>5, <1>11 DEF PgFetch, PgBefore, PgOrder, PostgresTable!xmin, PostgresTable!ByXminText
<1>14. PgCopy'
  BY <1>1, <1>11 DEF PgCopy, PgHas, PgComes
<1>15. PgCopied'
  <2>1. SUFFICES ASSUME method = "LOG_BASED", copied, NEW c \in N PROVE c.ver > saved.lsn
    BY <1>1 DEF PgCopied, PgHas
  <2>2. tap_pc = "idle" /\ saved.lsn <= clock
    BY <2>1 DEF PgCopied, PgPast
  <2>3. QED
    BY <1>4, <1>6, <2>2 DEF PgTypeOK, PgBookmarks
<1>16. QED
  BY <1>7, <1>9, <1>10, <1>12, <1>13, <1>14, <1>15

\* A change of the method leaves the bookmark as it is until a run starts.
LEMMA PgConfigure == PgInv /\ (\E m \in PostgresTable!Methods : PostgresTable!SwitchMethod(m)) /\ UNCHANGED passed => PgInv'
<1> SUFFICES ASSUME PgInv, NEW m \in PostgresTable!Methods, PostgresTable!SwitchMethod(m), UNCHANGED passed PROVE PgInv'
  OBVIOUS
<1> USE DEF PgInv
<1>1. /\ tap_pc = "idle" /\ method' = m /\ copied' = FALSE
      /\ UNCHANGED <<history, clock, time, tap_pc, tap_state, saved, result, due, tap_loaded, tap_emitted, passed>>
  BY DEF PostgresTable!SwitchMethod, PostgresTable!pipe
<1>2. PgTypeOK' /\ PgPast' /\ PgShape'
  BY <1>1 DEF PgTypeOK, PgPast, PgShape
<1>3. PgSaved' /\ PgRead' /\ PgFetch' /\ PgCopy' /\ PgCopied'
  BY <1>1 DEF PgSaved, PgRead, PgFetch, PgCopy, PgCopied, PgAhead, PostgresTable!xmin, PostgresTable!ByXminText, PostgresTable!Rows, PostgresTable!VersionsOf
<1>4. QED
  BY <1>2, <1>3

\* Time passes.
LEMMA PgTick == PgInv /\ PostgresTable!Tick /\ UNCHANGED passed => PgInv'
<1> SUFFICES ASSUME PgInv, PostgresTable!Tick, UNCHANGED passed PROVE PgInv'
  OBVIOUS
<1> USE DEF PgInv
<1>1. /\ time' = time + 1
      /\ UNCHANGED <<history, clock, method, tap_pc, tap_state, saved, result, due, tap_loaded, tap_emitted, copied, passed>>
  BY DEF PostgresTable!Tick, PostgresTable!pipe
<1>2. PostgresTable!Rows' = PostgresTable!Rows
  BY <1>1 DEF PostgresTable!Rows, PostgresTable!VersionsOf
<1>3. PgTypeOK' /\ PgShape'
  BY <1>1 DEF PgTypeOK, PgShape
<1>4. PgSaved' /\ PgRead' /\ PgFetch'
  BY <1>1, <1>2 DEF PgSaved, PgRead, PgFetch, PgAhead, PgBefore, PgOrder, PostgresTable!xmin, PostgresTable!ByXminText
<1>5. PgCopy' /\ PgCopied'
  BY <1>1 DEF PgCopy, PgCopied, PgHas, PgComes
<1>6. PgPast'
  <2>1. /\ \A c \in history : c.rk \in Nat
        /\ saved.rk_value \in Nat /\ tap_state.rk_value \in Nat /\ time \in Nat
    BY DEF PgTypeOK, PgBookmarks, Versions
  <2>2. \A i \in 1..Len(result) : result[i].rk \in Nat
    <3>1. \A i \in 1..Len(result) : result[i] \in Versions
      BY DEF PgTypeOK
    <3>2. QED
      BY <3>1 DEF Versions
  <2>3. QED
    BY <1>1, <2>1, <2>2 DEF PgPast
<1>7. QED
  BY <1>3, <1>4, <1>5, <1>6

\* What is left of a bookmark whose stream may have another method.
LEMMA PgKept ==
    ASSUME PgTypeOK
    PROVE  LET kept == PostgresTable!clear_state_on_replication_change(saved)
           IN  /\ kept \in PgBookmarks /\ kept.last_replication_method = method
               /\ \/ /\ saved.last_replication_method \in {"", method}
                     /\ kept.lsn = saved.lsn /\ kept.xmin = saved.xmin /\ kept.rk_value = saved.rk_value
                  \/ /\ saved.last_replication_method \notin {"", method}
                     /\ kept.lsn = 0 /\ kept.xmin = 0 /\ kept.rk_value = 0
<1> DEFINE kept == PostgresTable!clear_state_on_replication_change(saved)
<1> SUFFICES /\ kept \in PgBookmarks /\ kept.last_replication_method = method
             /\ \/ /\ saved.last_replication_method \in {"", method}
                   /\ kept.lsn = saved.lsn /\ kept.xmin = saved.xmin /\ kept.rk_value = saved.rk_value
                \/ /\ saved.last_replication_method \notin {"", method}
                   /\ kept.lsn = 0 /\ kept.xmin = 0 /\ kept.rk_value = 0
  OBVIOUS
<1>1. saved \in PgBookmarks /\ method \in PgMethods
  BY DEF PgTypeOK, PgMethods
<1>2. CASE saved.last_replication_method \in {"", method}
  <2>1. kept = [saved EXCEPT !.last_replication_method = method]
    BY <1>2 DEF PostgresTable!clear_state_on_replication_change
  <2>2. kept = [lsn |-> saved.lsn, xmin |-> saved.xmin, rk_value |-> saved.rk_value,
                last_replication_method |-> method]
    BY <1>1, <2>1 DEF PgBookmarks
  <2> HIDE DEF kept
  <2>3. QED
    BY <1>1, <1>2, <2>2 DEF PgBookmarks
<1>3. CASE saved.last_replication_method \notin {"", method}
  <2>1. kept = [PostgresTable!EmptyState EXCEPT !.last_replication_method = method]
    BY <1>3 DEF PostgresTable!clear_state_on_replication_change
  <2> HIDE DEF kept
  <2>2. kept = [lsn |-> 0, xmin |-> 0, rk_value |-> 0, last_replication_method |-> method]
    BY <2>1 DEF PostgresTable!EmptyState
  <2>3. kept \in PgBookmarks /\ kept.last_replication_method = method
    BY <1>1, <2>2 DEF PgBookmarks
  <2>4. kept.lsn = 0 /\ kept.xmin = 0 /\ kept.rk_value = 0
    BY <2>2
  <2>5. QED
    BY <1>3, <2>3, <2>4
<1>4. QED
  BY <1>2, <1>3

\* A run starts from the saved bookmark, cleared if its method has changed; the end of the
\* log is taken before a copy.
LEMMA PgStart == PgInv /\ PostgresTable!Start /\ UNCHANGED passed => PgInv'
<1> SUFFICES ASSUME PgInv, PostgresTable!Start, UNCHANGED passed PROVE PgInv'
  OBVIOUS
<1> USE DEF PgInv
<1> DEFINE kept == PostgresTable!clear_state_on_replication_change(saved)
<1>1. /\ tap_pc = "idle" /\ tap_pc' = "query" /\ ~PostgresTable!pure_logical(kept)
      /\ method = "LOG_BASED" => clock > 0
      /\ tap_state' = [kept EXCEPT !.lsn = IF method = "LOG_BASED" /\ @ = 0 THEN clock ELSE @]
      /\ tap_emitted' = tap_emitted
      /\ \/ tap_loaded' = tap_emitted /\ saved' = tap_state'
         \/ UNCHANGED <<tap_loaded, saved>>
      /\ UNCHANGED <<history, clock, time, method, result, due, copied, passed>>
  BY DEF PostgresTable!Start, PostgresTable!RecordsAndState, PostgresTable!table
<1>2. /\ kept \in PgBookmarks /\ kept.last_replication_method = method
      /\ \/ /\ saved.last_replication_method \in {"", method}
            /\ kept.lsn = saved.lsn /\ kept.xmin = saved.xmin /\ kept.rk_value = saved.rk_value
         \/ /\ saved.last_replication_method \notin {"", method}
            /\ kept.lsn = 0 /\ kept.xmin = 0 /\ kept.rk_value = 0
  BY PgKept
<1> HIDE DEF kept
<1>3. clock \in Nat
  BY PgNumbers
<1>4. /\ tap_state' \in PgBookmarks /\ tap_state'.last_replication_method = method
      /\ tap_state'.lsn = IF method = "LOG_BASED" /\ kept.lsn = 0 THEN clock ELSE kept.lsn
      /\ tap_state'.xmin = kept.xmin /\ tap_state'.rk_value = kept.rk_value
  BY <1>1, <1>2, <1>3 DEF PgBookmarks
<1>5. PostgresTable!Rows' = PostgresTable!Rows /\ \A r \in PostgresTable!Rows : r.rk \in Nat /\ PostgresTable!xmin(r) \in Nat
  <2>1. PostgresTable!Rows' = PostgresTable!Rows /\ PostgresTable!Rows \subseteq history
    BY <1>1, PgRows DEF PostgresTable!Rows, PostgresTable!VersionsOf
  <2>2. QED
    BY <2>1, PgNumbers
<1>6. PgTypeOK'
  <2>1. saved' \in PgBookmarks /\ tap_loaded' \subseteq tap_emitted'
    BY <1>1, <1>4 DEF PgTypeOK
  <2>2. tap_pc' = "query" /\ UNCHANGED <<history, clock, time, method, result, due, copied, passed>>
    BY <1>1
  <2>3. QED
    BY <1>4, <2>1, <2>2 DEF PgTypeOK
<1>7. /\ tap_state'.rk_value <= time /\ tap_state'.xmin <= FirstXid + clock /\ tap_state'.lsn <= clock
  <2>1. /\ saved.rk_value <= time /\ saved.xmin <= FirstXid + clock /\ saved.lsn <= clock
    BY DEF PgPast
  <2>2. time \in Nat /\ FirstXid \in Nat
    BY PgNumbers DEF PgTypeOK
  <2>3. kept.rk_value <= time /\ kept.xmin <= FirstXid + clock /\ kept.lsn <= clock
    <3>1. kept.rk_value = saved.rk_value \/ kept.rk_value = 0
      BY <1>2
    <3>2. kept.xmin = saved.xmin \/ kept.xmin = 0
      BY <1>2
    <3>3. kept.lsn = saved.lsn \/ kept.lsn = 0
      BY <1>2
    <3>4. QED
      BY <1>3, <2>1, <2>2, <3>1, <3>2, <3>3
  <2>4. tap_state'.lsn = clock \/ tap_state'.lsn = kept.lsn
    BY <1>4
  <2>5. QED
    BY <1>3, <1>4, <2>3, <2>4
<1>8. PgPast'
  <2>1. \/ saved' = tap_state'
        \/ saved' = saved
    BY <1>1
  <2>2. UNCHANGED <<history, clock, time, result>>
    BY <1>1
  <2>3. QED
    BY <1>7, <2>1, <2>2 DEF PgPast
<1>9. PgShape'
  <2>1. method = "LOG_BASED" => tap_state'.lsn # 0
    BY <1>1, <1>3, <1>4
  <2>2. tap_pc' = "query" /\ method' = method
    BY <1>1
  <2>3. QED
    BY <1>4, <2>1, <2>2 DEF PgShape
<1>10. \A r \in PostgresTable!Rows : PgAhead(saved, r) => PgAhead(tap_state', r)
  <2>1. \/ tap_state'.xmin = saved.xmin /\ tap_state'.rk_value = saved.rk_value
        \/ tap_state'.xmin = 0 /\ tap_state'.rk_value = 0
    BY <1>2, <1>4
  <2>2. QED
    BY <1>5, <2>1 DEF PgAhead
<1>11. PgSaved' /\ PgRead'
  <2>1. \A r \in PostgresTable!Rows : r \in tap_emitted \/ PgAhead(tap_state', r) \/ r \in passed
    BY <1>10 DEF PgSaved, PgTypeOK
  <2>2. QED
    BY <1>1, <1>5, <2>1 DEF PgSaved, PgRead, PgAhead, PostgresTable!xmin, PostgresTable!ByXminText
<1>12. PgFetch' /\ PgCopy'
  BY <1>1 DEF PgFetch, PgCopy
<1>13. PgCopied'
  <2>1. ~(method = "LOG_BASED" /\ copied)
    BY <1>1, <1>2 DEF PgCopied, PostgresTable!pure_logical
  <2>2. QED
    BY <1>1, <2>1 DEF PgCopied
<1>14. QED
  BY <1>6, <1>8, <1>9, <1>11, <1>12, <1>13

\* A SELECT returns every row once, in the order it asks for.
LEMMA PgSorted ==
    ASSUME NEW R, R \subseteq PostgresTable!Rows, PgInv, NEW rows,
           rows \in PostgresTable!Ordered(R, PostgresTable!ByRk) \/ rows \in PostgresTable!Ordered(R, PostgresTable!ByXminText)
    PROVE  /\ rows \in Seq(Versions)
           /\ \A i \in 1..Len(rows) : rows[i] \in R
           /\ rows \in PostgresTable!Ordered(R, PostgresTable!ByRk) =>
                  \A i, j \in 1..Len(rows) : i < j => rows[i].rk <= rows[j].rk
           /\ rows \in PostgresTable!Ordered(R, PostgresTable!ByXminText) =>
                  \A i, j \in 1..Len(rows) : i < j => PostgresTable!AsText(PostgresTable!xmin(rows[i])) <= PostgresTable!AsText(PostgresTable!xmin(rows[j]))
           /\ \A r \in R : \E i \in 1..Len(rows) : rows[i] = r
<1>1. R \subseteq Versions /\ IsFiniteSet(R)
  BY PgRows, FS_Subset DEF PgInv, PgTypeOK
<1>2. /\ rows \in [1..Cardinality(R) -> R]
      /\ \A i, j \in DOMAIN rows : i # j => rows[i] # rows[j]
      /\ rows \in PostgresTable!Ordered(R, PostgresTable!ByRk) =>
             \A i, j \in DOMAIN rows : i < j => rows[i].rk <= rows[j].rk
      /\ rows \in PostgresTable!Ordered(R, PostgresTable!ByXminText) =>
             \A i, j \in DOMAIN rows : i < j => PostgresTable!AsText(PostgresTable!xmin(rows[i])) <= PostgresTable!AsText(PostgresTable!xmin(rows[j]))
  BY Counts DEF PostgresTable!Ordered, PostgresTable!ByRk, PostgresTable!ByXminText
<1>3. /\ rows \in Seq(R) /\ Len(rows) = Cardinality(R)
      /\ \A r \in R : \E i \in 1..Len(rows) : rows[i] = r
  BY <1>1, <1>2, Arranged
<1>4. \A i \in 1..Len(rows) : rows[i] \in R
  BY <1>3
<1>5. QED
  BY <1>1, <1>2, <1>3, <1>4

\* A SELECT in the order of the bookmark of the run, or the first rows of it.
LEMMA PgExecute ==
    ASSUME PgInv, NEW rows \in Seq(Versions), NEW resumed,
           PostgresTable!Execute(tap_state, rows, resumed), UNCHANGED PostgresTable!pipe,
           passed \subseteq passed', passed' \subseteq history,
           \A i \in 1..Len(rows) : rows[i] \in PostgresTable!Rows,
           \A i, j \in 1..Len(rows) : i < j => PgOrder(rows[i], rows[j]),
           \A r \in PostgresTable!Rows : \/ r \in tap_emitted \/ r \in passed'
                                         \/ \E i \in 1..Len(rows) : rows[i] = r
                                         \/ /\ method = "INCREMENTAL"
                                            /\ \A i \in 1..Len(rows) : PgOrder(rows[i], r)
    PROVE  PgInv'
<1> USE DEF PgInv
<1>1. /\ tap_pc = "query" /\ tap_pc' = "fetch" /\ tap_state' = tap_state /\ result' = rows
      /\ due' \in {{}, due, PostgresTable!Rows}
      /\ UNCHANGED <<history, clock, time, method, saved, tap_loaded, tap_emitted, copied>>
  BY DEF PostgresTable!Execute, PostgresTable!table, PostgresTable!pipe
<1>2. PostgresTable!Rows' = PostgresTable!Rows /\ PostgresTable!Rows \subseteq history
  BY <1>1, PgRows DEF PostgresTable!Rows, PostgresTable!VersionsOf
<1>3. PgTypeOK'
  <2>1. due' \subseteq history
    BY <1>1, <1>2 DEF PgTypeOK
  <2>2. QED
    BY <1>1, <2>1 DEF PgTypeOK
<1>4. PgPast'
  <2>1. \A i \in 1..Len(rows) : rows[i].ver <= clock /\ rows[i].rk <= time
    BY <1>2 DEF PgPast
  <2>2. QED
    BY <1>1, <2>1 DEF PgPast
<1>5. PgShape'
  BY <1>1 DEF PgShape
<1>6. PgSaved' /\ PgRead'
  BY <1>1, <1>2 DEF PgSaved, PgRead, PgAhead, PostgresTable!xmin, PostgresTable!ByXminText
<1>7. PgFetch'
  <2>1. \A q, r : (PgOrder(q, r)' <=> PgOrder(q', r')) /\ (PgBefore(q, r)' <=> PgBefore(q', r'))
    BY <1>1 DEF PgOrder, PgBefore, PostgresTable!xmin, PostgresTable!ByXminText
  <2>2. \A q, r : PgOrder(q, r) => PgBefore(q, r)
    BY DEF PgBefore
  <2>3. QED
    BY <1>1, <1>2, <2>2 DEF PgFetch, PgOrder, PgBefore, PostgresTable!xmin, PostgresTable!ByXminText
<1>8. PgCopy'
  <2>1. SUFFICES ASSUME method = "LOG_BASED", NEW c \in history, ~PgHas(tap_emitted, c), ~PgHas(passed', c)
                 PROVE  \E i \in 1..Len(rows) : rows[i].key = c.key /\ rows[i].ver >= c.ver
    BY <1>1 DEF PgCopy, PgHas, PgComes
  <2>2. PICK r \in PostgresTable!Rows : r.key = c.key /\ c.ver <= r.ver
    <3>1. history \subseteq Versions /\ clock \in Nat /\ \A d \in history : d.ver <= clock
      BY PgNumbers DEF PgTypeOK, PgPast
    <3>2. QED
      BY <3>1, PgRows, LastExists
  <2>3. r.ver \in Nat /\ c.ver \in Nat
    BY <1>2, PgNumbers
  <2>4. r \notin tap_emitted /\ r \notin passed'
    BY <2>1, <2>2, <2>3 DEF PgHas
  <2>5. PICK i \in 1..Len(rows) : rows[i] = r
    BY <2>1, <2>4
  <2>6. QED
    BY <2>2, <2>3, <2>5
<1>9. PgCopied'
  BY <1>1 DEF PgCopied, PgHas
<1>10. QED
  BY <1>3, <1>4, <1>5, <1>6, <1>7, <1>8, <1>9

\* The SELECT of a copy, from the xmin it had reached.
LEMMA PgQueryTable == PgInv /\ PostgresTable!QueryTable => PgInv'
<1> SUFFICES ASSUME PgInv, PostgresTable!QueryTable PROVE PgInv'
  OBVIOUS
<1> DEFINE R == {r \in PostgresTable!Rows : PostgresTable!FromXmin(tap_state, r)}
<1>1. PICK rows \in PostgresTable!Ordered(R, PostgresTable!ByXminText) : PostgresTable!Execute(tap_state, rows, tap_state.xmin # 0)
  BY DEF PostgresTable!QueryTable
<1>2. /\ method # "INCREMENTAL" /\ UNCHANGED PostgresTable!pipe /\ tap_pc = "query"
      /\ passed' = passed \cup (PostgresTable!LeftBehind(tap_state) \ tap_loaded)
  BY <1>1 DEF PostgresTable!QueryTable, PostgresTable!Execute
<1>3. tap_state.xmin \in Nat /\ \A r \in PostgresTable!Rows : PostgresTable!xmin(r) \in Nat
  BY PgRows, PgNumbers DEF PgInv, PgTypeOK, PgBookmarks
<1>4. R \subseteq PostgresTable!Rows
  OBVIOUS
<1>5. ASSUME NEW r \in PostgresTable!Rows, r \notin tap_emitted, r \notin passed'
      PROVE  r \in R
  <2>1. r \notin passed /\ r \notin PostgresTable!LeftBehind(tap_state)
    BY <1>2, <1>5 DEF PgInv, PgTypeOK
  <2>2. tap_state.xmin <= PostgresTable!xmin(r) \/ PostgresTable!AsText(tap_state.xmin) <= PostgresTable!ByXminText(r)
    BY <1>2, <1>5, <2>1 DEF PgInv, PgRead, PgAhead
  <2>3. QED
    BY <1>2, <1>3, <2>1, <2>2 DEF PostgresTable!LeftBehind, PostgresTable!FromXmin
<1> HIDE DEF R
<1>6. /\ rows \in Seq(Versions) /\ \A i \in 1..Len(rows) : rows[i] \in R
      /\ \A i, j \in 1..Len(rows) : i < j => PostgresTable!AsText(PostgresTable!xmin(rows[i])) <= PostgresTable!AsText(PostgresTable!xmin(rows[j]))
      /\ \A r \in R : \E i \in 1..Len(rows) : rows[i] = r
  BY <1>1, <1>4, PgSorted
<1>7. \A i, j \in 1..Len(rows) : i < j => PgOrder(rows[i], rows[j])
  BY <1>2, <1>6 DEF PgOrder, PostgresTable!ByXminText
<1>8. \A i \in 1..Len(rows) : rows[i] \in PostgresTable!Rows
  BY <1>4, <1>6
<1>9. \A r \in PostgresTable!Rows : r \in tap_emitted \/ r \in passed' \/ \E i \in 1..Len(rows) : rows[i] = r
  BY <1>5, <1>6
<1>10. passed \subseteq passed' /\ passed' \subseteq history
  BY <1>2, PgRows DEF PostgresTable!LeftBehind, PgInv, PgTypeOK
<1>11. QED
  BY <1>1, <1>2, <1>6, <1>7, <1>8, <1>9, <1>10, PgExecute

\* The SELECT of an incremental run, cut at the limit.
LEMMA PgQueryIncremental == PgInv /\ PostgresTable!QueryIncremental /\ UNCHANGED passed => PgInv'
<1> SUFFICES ASSUME PgInv, PostgresTable!QueryIncremental, UNCHANGED passed PROVE PgInv'
  OBVIOUS
<1> DEFINE R == {r \in PostgresTable!Rows : PostgresTable!FromKeyValue(tap_state, r)}
<1>1. PICK all \in PostgresTable!Ordered(R, PostgresTable!ByRk) : PostgresTable!Execute(tap_state, PostgresTable!Limited(all), FALSE)
  BY DEF PostgresTable!QueryIncremental
<1>2. method = "INCREMENTAL" /\ UNCHANGED PostgresTable!pipe /\ tap_pc = "query"
  BY <1>1 DEF PostgresTable!QueryIncremental, PostgresTable!Execute
<1>3. /\ \A r \in R : r \in PostgresTable!Rows /\ tap_state.rk_value <= r.rk
      /\ \A r \in PostgresTable!Rows : tap_state.rk_value <= r.rk => r \in R
      /\ R \subseteq PostgresTable!Rows
  <2>1. tap_state.rk_value \in Nat /\ \A r \in PostgresTable!Rows : r.rk \in Nat
    BY PgRows, PgNumbers DEF PgInv, PgTypeOK, PgBookmarks
  <2>2. QED
    BY <2>1 DEF PostgresTable!FromKeyValue
<1> HIDE DEF R
<1>4. /\ all \in Seq(Versions) /\ \A i \in 1..Len(all) : all[i] \in R
      /\ \A i, j \in 1..Len(all) : i < j => all[i].rk <= all[j].rk
      /\ \A r \in R : \E i \in 1..Len(all) : all[i] = r
  BY <1>1, <1>3, PgSorted
<1> DEFINE rows == PostgresTable!Limited(all)
<1>5. /\ rows \in Seq(Versions) /\ Len(rows) \in Nat /\ Len(rows) <= Len(all) /\ Len(all) \in Nat
      /\ \A i \in 1..Len(rows) : rows[i] = all[i]
  <2>1. Limit \in Nat
    BY DatabasesAssumption
  <2>2. CASE Limit = 0 \/ Len(all) <= Limit
    BY <1>4, <2>2 DEF PostgresTable!Limited
  <2>3. CASE ~(Limit = 0 \/ Len(all) <= Limit)
    <3>1. rows = SubSeq(all, 1, Limit)
      BY <2>3 DEF PostgresTable!Limited
    <3>2. Len(all) \in Nat /\ Limit <= Len(all)
      BY <1>4, <2>1, <2>3
    <3>3. rows \in Seq(Versions) /\ Len(rows) = Limit /\ \A i \in 1..Limit : rows[i] = all[i]
      BY <1>4, <2>1, <3>1, <3>2, SubSeqProperties
    <3>4. QED
      BY <2>1, <3>2, <3>3
  <2>4. QED
    BY <2>2, <2>3
<1>6. PostgresTable!Execute(tap_state, rows, FALSE)
  BY <1>1
<1> HIDE DEF rows
<1>7. \A i \in 1..Len(rows) : i \in 1..Len(all)
  BY <1>5
<1>8. \A q, r : PgOrder(q, r) <=> q.rk <= r.rk
  BY <1>2 DEF PgOrder
<1>9. ASSUME NEW r \in PostgresTable!Rows, r \notin tap_emitted, r \notin passed
      PROVE  \/ \E i \in 1..Len(rows) : rows[i] = r
             \/ \A i \in 1..Len(rows) : rows[i].rk <= r.rk
  <2>1. r \in R
    BY <1>2, <1>3, <1>9 DEF PgInv, PgRead, PgAhead
  <2>2. PICK i \in 1..Len(all) : all[i] = r
    BY <1>4, <2>1
  <2>3. CASE i <= Len(rows)
    BY <1>5, <2>2, <2>3
  <2>4. CASE ~(i <= Len(rows))
    <3>1. \A j \in 1..Len(rows) : j \in 1..Len(all) /\ j < i /\ rows[j] = all[j]
      BY <1>5, <1>7, <2>4
    <3>2. QED
      BY <1>4, <2>2, <3>1
  <2>5. QED
    BY <2>3, <2>4
<1>10. /\ \A i \in 1..Len(rows) : rows[i] \in PostgresTable!Rows
       /\ \A i, j \in 1..Len(rows) : i < j => PgOrder(rows[i], rows[j])
  BY <1>3, <1>4, <1>5, <1>7, <1>8
<1>11. \A r \in PostgresTable!Rows : \/ r \in tap_emitted \/ r \in passed'
                                     \/ \E i \in 1..Len(rows) : rows[i] = r
                                     \/ \A i \in 1..Len(rows) : PgOrder(rows[i], r)
  BY <1>8, <1>9
<1>12. passed \subseteq passed' /\ passed' \subseteq history
  BY DEF PgInv, PgTypeOK
<1>13. QED
  BY <1>2, <1>5, <1>6, <1>10, <1>11, <1>12, PgExecute

\* A row is written, and the bookmark in memory moves to it.
LEMMA PgFetchRow == PgInv /\ PostgresTable!FetchRow /\ UNCHANGED passed => PgInv'
<1> SUFFICES ASSUME PgInv, PostgresTable!FetchRow, UNCHANGED passed PROVE PgInv'
  OBVIOUS
<1> USE DEF PgInv
<1> DEFINE h == Head(result)
<1>1. /\ tap_pc = "fetch" /\ tap_pc' = tap_pc /\ result # << >> /\ result' = Tail(result)
      /\ tap_state' = PostgresTable!AfterRow(tap_state, h) /\ tap_emitted' = tap_emitted \cup {h}
      /\ \/ tap_loaded' = tap_emitted' /\ saved' = tap_state'
         \/ UNCHANGED <<tap_loaded, saved>>
      /\ UNCHANGED <<history, clock, time, method, due, copied, passed>>
  BY DEF PostgresTable!FetchRow, PostgresTable!Fetch, PostgresTable!Records, PostgresTable!RecordsAndState, PostgresTable!table
<1>2. /\ h \in Versions /\ result' \in Seq(Versions) /\ Len(result') = Len(result) - 1
      /\ Len(result) \in Nat /\ Len(result) >= 1 /\ h = result[1]
      /\ \A i \in 1..Len(result') : result'[i] = result[i + 1]
  BY <1>1, HeadTailProperties DEF PgTypeOK
<1> HIDE DEF h
<1>3. /\ h.rk \in Nat /\ h.rk <= time /\ h.ver \in Nat /\ h.ver <= clock
      /\ PostgresTable!xmin(h) \in Nat /\ PostgresTable!xmin(h) <= FirstXid + clock
  <2>1. h.rk \in Nat /\ h.rk <= time /\ h.ver \in Nat /\ h.ver <= clock
    BY <1>2 DEF PgPast, Versions
  <2>2. QED
    BY <2>1, PgNumbers DEF PostgresTable!xmin
<1>4. /\ tap_state' \in PgBookmarks /\ tap_state'.lsn = tap_state.lsn
      /\ tap_state'.last_replication_method = tap_state.last_replication_method
      /\ \/ /\ method = "INCREMENTAL" /\ tap_state'.rk_value = h.rk /\ tap_state'.xmin = tap_state.xmin
         \/ /\ method # "INCREMENTAL" /\ tap_state'.rk_value = tap_state.rk_value /\ tap_state'.xmin = PostgresTable!xmin(h)
  <2>1. tap_state \in PgBookmarks
    BY DEF PgTypeOK
  <2>2. CASE method = "INCREMENTAL"
    <3>1. tap_state' = [tap_state EXCEPT !.rk_value = h.rk]
      BY <1>1, <2>2 DEF PostgresTable!AfterRow
    <3>2. QED
      BY <1>3, <2>1, <2>2, <3>1 DEF PgBookmarks
  <2>3. CASE method # "INCREMENTAL"
    <3>1. tap_state' = [tap_state EXCEPT !.xmin = PostgresTable!xmin(h)]
      BY <1>1, <2>3 DEF PostgresTable!AfterRow
    <3>2. QED
      BY <1>3, <2>1, <2>3, <3>1 DEF PgBookmarks
  <2>4. QED
    BY <2>2, <2>3
<1>5. PostgresTable!Rows' = PostgresTable!Rows /\ PostgresTable!Rows \subseteq history
  BY <1>1, PgRows DEF PostgresTable!Rows, PostgresTable!VersionsOf
<1>6. PgTypeOK'
  BY <1>1, <1>2, <1>4 DEF PgTypeOK
<1>7. PgPast'
  <2>1. \A i \in 1..Len(result') : result'[i].ver <= clock /\ result'[i].rk <= time
    BY <1>2 DEF PgPast
  <2>2. tap_state'.rk_value <= time /\ tap_state'.xmin <= FirstXid + clock /\ tap_state'.lsn <= clock
    BY <1>3, <1>4 DEF PgPast
  <2>3. QED
    BY <1>1, <2>1, <2>2 DEF PgPast
<1>8. PgShape'
  BY <1>1, <1>4 DEF PgShape
<1>9. \A i \in 1..Len(result') : /\ i + 1 \in 1..Len(result) /\ 1 < i + 1 /\ result'[i] = result[i + 1]
  BY <1>2
<1>10. \A i, j \in 1..Len(result') : i < j => i + 1 < j + 1
  BY <1>2
<1>11. \A q, r : PgOrder(q, r) => PgBefore(q, r)
  BY DEF PgBefore
<1>12. /\ \A i, j \in 1..Len(result) : i < j => PgOrder(result[i], result[j])
       /\ \A r \in PostgresTable!Rows : \/ r \in tap_emitted \/ r \in passed
                                        \/ \E i \in 1..Len(result) : result[i] = r
                                        \/ \A i \in 1..Len(result) : PgBefore(result[i], r)
  BY <1>1 DEF PgFetch
<1>13. ASSUME NEW r \in PostgresTable!Rows, r \notin tap_emitted', r \notin passed
       PROVE  PgAhead(tap_state', r)
  <2>1. PgBefore(h, r)
    <3>1. CASE \A i \in 1..Len(result) : PgBefore(result[i], r)
      BY <1>2, <3>1
    <3>2. CASE \E i \in 1..Len(result) : result[i] = r
      <4>1. PICK i \in 1..Len(result) : result[i] = r
        BY <3>2
      <4>2. 1 < i
        BY <1>1, <1>2, <1>13, <4>1
      <4>3. QED
        BY <1>2, <1>11, <1>12, <4>1, <4>2
    <3>3. QED
      BY <1>1, <1>12, <1>13, <3>1, <3>2
  <2>2. PgAhead(tap_state, r)
    BY <1>1, <1>13 DEF PgRead
  <2>3. QED
    BY <1>4, <2>1, <2>2 DEF PgAhead, PgBefore, PgOrder, PostgresTable!ByXminText
<1>14. PgRead'
  BY <1>1, <1>5, <1>13 DEF PgRead, PgAhead, PostgresTable!xmin, PostgresTable!ByXminText
<1>15. PgSaved'
  BY <1>1, <1>5, <1>13 DEF PgSaved, PgAhead, PostgresTable!xmin, PostgresTable!ByXminText
<1>16. PgFetch'
  <2>2. \A i, j \in 1..Len(result') : i < j => PgOrder(result'[i], result'[j])
    BY <1>9, <1>10, <1>12
  <2>3. ASSUME NEW r \in PostgresTable!Rows, r \notin tap_emitted', r \notin passed
        PROVE  \/ \E i \in 1..Len(result') : result'[i] = r
               \/ \A i \in 1..Len(result') : PgBefore(result'[i], r)
    <3>1. CASE \A i \in 1..Len(result) : PgBefore(result[i], r)
      BY <1>9, <3>1
    <3>2. CASE \E i \in 1..Len(result) : result[i] = r
      <4>1. PICK i \in 1..Len(result) : result[i] = r
        BY <3>2
      <4>2. i # 1
        BY <1>1, <1>2, <2>3, <4>1
      <4>3. i - 1 \in 1..Len(result') /\ (i - 1) + 1 = i
        BY <1>2, <4>2
      <4>4. QED
        BY <1>2, <4>1, <4>3
    <3>3. QED
      BY <1>1, <1>12, <2>3, <3>1, <3>2
  <2>4. QED
    BY <1>1, <1>5, <2>2, <2>3 DEF PgFetch, PgOrder, PgBefore, PostgresTable!xmin, PostgresTable!ByXminText
<1>17. \A c : PgHas(tap_emitted, c) \/ PgComes(c) => PgHas(tap_emitted', c) \/ PgComes(c)'
  <2>1. SUFFICES ASSUME NEW c, NEW i \in 1..Len(result), result[i].key = c.key, result[i].ver >= c.ver
                 PROVE  PgHas({h}, c) \/ PgComes(c)'
    BY <1>1 DEF PgComes, PgHas
  <2>2. CASE i = 1
    BY <1>2, <2>1, <2>2 DEF PgHas
  <2>3. CASE i # 1
    <3>1. i - 1 \in 1..Len(result') /\ (i - 1) + 1 = i
      BY <1>2, <2>3
    <3>2. QED
      BY <1>2, <2>1, <3>1 DEF PgComes
  <2>4. QED
    BY <2>2, <2>3
<1>18. PgCopy'
  BY <1>1, <1>4, <1>17 DEF PgCopy, PgHas, PgComes
<1>19. PgCopied'
  BY <1>1 DEF PgCopied
<1>20. QED
  BY <1>6, <1>7, <1>8, <1>14, <1>15, <1>16, <1>18, <1>19

\* All rows of the SELECT are written.
LEMMA PgFetchedAll == PgInv /\ PostgresTable!FetchedAll /\ UNCHANGED passed => PgInv'
<1> SUFFICES ASSUME PgInv, PostgresTable!FetchedAll, UNCHANGED passed PROVE PgInv'
  OBVIOUS
<1> USE DEF PgInv
<1>1. /\ tap_pc = "fetch" /\ tap_pc' = "end" /\ result = << >> /\ tap_state' = [tap_state EXCEPT !.xmin = 0]
      /\ UNCHANGED <<history, clock, time, method, result, due, copied, tap_emitted, tap_loaded, saved, passed>>
  BY DEF PostgresTable!FetchedAll, PostgresTable!table, PostgresTable!pipe
<1>2. /\ tap_state' \in PgBookmarks /\ tap_state'.xmin = 0 /\ tap_state'.lsn = tap_state.lsn
      /\ tap_state'.rk_value = tap_state.rk_value
      /\ tap_state'.last_replication_method = tap_state.last_replication_method
  BY <1>1 DEF PgTypeOK, PgBookmarks
<1>3. PostgresTable!Rows' = PostgresTable!Rows /\ \A r \in PostgresTable!Rows : PostgresTable!xmin(r) \in Nat
  BY <1>1, PgRows, PgNumbers DEF PostgresTable!Rows, PostgresTable!VersionsOf
<1>4. PgTypeOK' /\ PgShape' /\ PgFetch'
  BY <1>1, <1>2 DEF PgTypeOK, PgShape, PgFetch
<1>5. PgPast'
  BY <1>1, <1>2, PgNumbers DEF PgPast
<1>6. PgSaved' /\ PgRead'
  BY <1>1, <1>2, <1>3 DEF PgSaved, PgRead, PgAhead, PostgresTable!xmin, PostgresTable!ByXminText
<1>7. PgCopy' /\ PgCopied'
  BY <1>1, <1>2 DEF PgCopy, PgCopied, PgHas, PgComes
<1>8. QED
  BY <1>4, <1>5, <1>6, <1>7

\* The end of a run saves its bookmark, without the xmin of the copy.
LEMMA PgComplete == PgInv /\ PostgresTable!Complete /\ UNCHANGED passed => PgInv'
<1> SUFFICES ASSUME PgInv, PostgresTable!Complete, UNCHANGED passed PROVE PgInv'
  OBVIOUS
<1> USE DEF PgInv
<1>1. /\ tap_pc = "end" /\ tap_pc' = "idle" /\ tap_emitted' = tap_emitted /\ tap_loaded' = tap_emitted /\ saved' = tap_state
      /\ tap_state' = saved' /\ result' = << >> /\ copied' = TRUE
      /\ UNCHANGED <<history, clock, time, method, due, passed>>
  BY DEF PostgresTable!Complete, PostgresTable!End, PostgresTable!Exit, PostgresTable!RecordsAndLastState, PostgresTable!table
<1>2. PostgresTable!Rows' = PostgresTable!Rows /\ result' \in Seq(Versions) /\ Len(result') = 0
  BY <1>1 DEF PostgresTable!Rows, PostgresTable!VersionsOf
<1>3. PgTypeOK'
  BY <1>1, <1>2 DEF PgTypeOK
<1>4. PgPast' /\ PgShape' /\ PgFetch' /\ PgCopy'
  BY <1>1, <1>2 DEF PgPast, PgShape, PgFetch, PgCopy
<1>5. PgSaved' /\ PgRead'
  BY <1>1, <1>2 DEF PgSaved, PgRead, PgAhead, PostgresTable!xmin, PostgresTable!ByXminText
<1>6. PgCopied'
  <2>1. result = << >> /\ tap_state.xmin = 0 /\ tap_state.last_replication_method = method
    BY <1>1 DEF PgShape
  <2>2. \A c : ~PgComes(c)
    BY <2>1 DEF PgComes
  <2>3. QED
    BY <1>1, <2>1, <2>2 DEF PgShape, PgCopy, PgCopied, PgHas
<1>7. QED
  BY <1>3, <1>4, <1>5, <1>6

\* A run that reads the log from its bookmark to the end.
LEMMA PgSyncLogical == PgInv /\ PostgresTable!SyncLogical /\ UNCHANGED passed => PgInv'
<1> SUFFICES ASSUME PgInv, PostgresTable!SyncLogical, UNCHANGED passed PROVE PgInv'
  OBVIOUS
<1> USE DEF PgInv
<1> DEFINE R == {c \in history : c.ver > saved.lsn}
<1>1. /\ tap_pc = "idle" /\ tap_pc' = tap_pc /\ tap_emitted' = tap_emitted \cup R /\ tap_loaded' = tap_emitted'
      /\ saved' = [saved EXCEPT !.lsn = clock] /\ tap_state' = saved' /\ R # {}
      /\ UNCHANGED <<history, clock, time, method, result, due, copied, passed>>
  BY DEF PostgresTable!SyncLogical, PostgresTable!ReadLog, PostgresTable!RecordsAndLastState, PostgresTable!table
<1>2. clock \in Nat
  BY PgNumbers
<1>3. /\ saved' \in PgBookmarks /\ saved'.lsn = clock /\ saved'.xmin = saved.xmin
      /\ saved'.rk_value = saved.rk_value
      /\ saved'.last_replication_method = saved.last_replication_method
  BY <1>1, <1>2 DEF PgTypeOK, PgBookmarks
<1>4. PostgresTable!Rows' = PostgresTable!Rows /\ \A c \in history : c.ver \in Nat /\ c.ver <= clock
  BY <1>1, PgNumbers DEF PostgresTable!Rows, PostgresTable!VersionsOf, PgPast
<1>5. PgTypeOK'
  BY <1>1, <1>3 DEF PgTypeOK
<1>6. PgPast' /\ PgShape' /\ PgFetch' /\ PgCopy'
  BY <1>1, <1>2, <1>3 DEF PgPast, PgShape, PgFetch, PgCopy
<1>7. PgSaved' /\ PgRead'
  BY <1>1, <1>3, <1>4 DEF PgSaved, PgRead, PgAhead, PostgresTable!xmin, PostgresTable!ByXminText, PgTypeOK
<1>8. PgCopied'
  <2>1. SUFFICES ASSUME method = "LOG_BASED", copied
                 PROVE  /\ saved'.lsn # 0
                        /\ \A c \in history : PgHas(tap_loaded', c) \/ PgHas(passed, c)
    BY <1>1, <1>3 DEF PgCopied, PgHas
  <2>2. saved'.lsn # 0
    <3>1. saved.lsn \in Nat /\ saved.lsn <= clock /\ saved.lsn # 0
      BY <2>1 DEF PgTypeOK, PgBookmarks, PgPast, PgCopied
    <3>2. QED
      BY <1>2, <1>3, <3>1
  <2>3. ASSUME NEW c \in history PROVE PgHas(tap_loaded', c) \/ PgHas(passed, c)
    <3>1. CASE c.ver > saved.lsn
      BY <1>1, <1>4, <3>1 DEF PgHas
    <3>2. CASE ~(c.ver > saved.lsn)
      <4>1. PgHas(tap_loaded, c) \/ PgHas(passed, c)
        BY <2>1, <3>2 DEF PgCopied
      <4>2. QED
        BY <1>1, <4>1 DEF PgHas, PgTypeOK
    <3>3. QED
      BY <3>1, <3>2
  <2>4. QED
    BY <2>2, <2>3
<1>9. QED
  BY <1>5, <1>6, <1>7, <1>8

\* A run dies: what the target had not loaded is lost.
LEMMA PgDie == PgInv /\ PostgresTable!Die /\ UNCHANGED passed => PgInv'
<1> SUFFICES ASSUME PgInv, PostgresTable!Die, UNCHANGED passed PROVE PgInv'
  OBVIOUS
<1> USE DEF PgInv
<1>1. /\ tap_pc # "idle" /\ tap_pc' = "idle" /\ tap_emitted' = tap_loaded /\ UNCHANGED <<tap_loaded, saved>>
      /\ tap_state' = saved' /\ result' = << >>
      /\ UNCHANGED <<history, clock, time, method, due, copied, passed>>
  BY DEF PostgresTable!Die, PostgresTable!Lost, PostgresTable!Exit, PostgresTable!table
<1>2. PostgresTable!Rows' = PostgresTable!Rows /\ result' \in Seq(Versions) /\ Len(result') = 0
  BY <1>1 DEF PostgresTable!Rows, PostgresTable!VersionsOf
<1>3. PgTypeOK'
  BY <1>1, <1>2 DEF PgTypeOK
<1>4. PgPast' /\ PgShape' /\ PgFetch' /\ PgCopy'
  BY <1>1, <1>2 DEF PgPast, PgShape, PgFetch, PgCopy
<1>5. PgSaved' /\ PgRead' /\ PgCopied'
  BY <1>1, <1>2 DEF PgSaved, PgRead, PgAhead, PostgresTable!xmin, PostgresTable!ByXminText, PgCopied
<1>6. QED
  BY <1>3, <1>4, <1>5

\* Nothing changes.
LEMMA PgStutter == PgInv /\ UNCHANGED PostgresTable!postgresTableVars => PgInv'
<1> SUFFICES ASSUME PgInv, UNCHANGED PostgresTable!postgresTableVars PROVE PgInv'
  OBVIOUS
<1> USE DEF PgInv
<1>1. UNCHANGED <<history, clock, time, method, tap_pc, tap_state, saved, result, due, tap_loaded, tap_emitted, copied, passed>>
  BY DEF PostgresTable!postgresTableVars, PostgresTable!tableTapVars, PostgresTable!table, PostgresTable!pipe
<1>2. PostgresTable!Rows' = PostgresTable!Rows
  BY <1>1 DEF PostgresTable!Rows, PostgresTable!VersionsOf
<1>3. PgTypeOK' /\ PgPast' /\ PgShape'
  BY <1>1 DEF PgTypeOK, PgPast, PgShape
<1>4. PgSaved' /\ PgRead' /\ PgFetch'
  BY <1>1, <1>2 DEF PgSaved, PgRead, PgFetch, PgAhead, PgBefore, PgOrder, PostgresTable!xmin, PostgresTable!ByXminText
<1>5. PgCopy' /\ PgCopied'
  BY <1>1 DEF PgCopy, PgCopied, PgHas, PgComes
<1>6. QED
  BY <1>3, <1>4, <1>5

\* Every step keeps the invariant.
LEMMA PgStep == PgInv /\ [PostgresTable!Next]_(PostgresTable!postgresTableVars) => PgInv'
BY PgChange, PgConfigure, PgTick, PgStart, PgQueryTable, PgQueryIncremental, PgFetchRow,
   PgFetchedAll, PgComplete, PgSyncLogical, PgDie, PgStutter DEF PostgresTable!Next

\* What the saved bookmark does not select, and the log does not bring, is loaded
\* or of a row that a copy has passed.
LEMMA PgImplies == PgInv => PostgresTable!PostgresCopyResumes
<1> DEFINE kept == PostgresTable!clear_state_on_replication_change(saved)
<1>1. SUFFICES ASSUME PgInv, ~(method = "LOG_BASED" /\ saved.xmin = 0 /\ ~copied),
                      NEW c \in history, ~PostgresTable!Reached(c), ~PostgresTable!Selects(saved, PostgresTable!Current(c)), ~PostgresTable!Logged(saved, c),
                      \A r \in passed \cup PostgresTable!LeftBehind(kept) : ~(r.key = c.key /\ r.ver >= c.ver)
               PROVE  FALSE
  BY DEF PostgresTable!PostgresCopyResumes, PostgresTable!SkippedChanges, PgInv, PgTypeOK
<1> USE DEF PgInv
<1>2. \E r \in PostgresTable!Rows : r.key = c.key
  <2>1. history \subseteq Versions /\ clock \in Nat /\ \A d \in history : d.ver <= clock
    BY <1>1, PgNumbers DEF PgTypeOK, PgPast
  <2>2. QED
    BY <1>1, <2>1, PgRows, LastExists
<1>3. PostgresTable!Current(c) \in PostgresTable!Rows /\ PostgresTable!Current(c).key = c.key
  BY <1>2 DEF PostgresTable!Current
<1>4. /\ PostgresTable!Current(c).rk \in Nat /\ PostgresTable!Current(c).ver \in Nat /\ PostgresTable!xmin(PostgresTable!Current(c)) \in Nat
      /\ PostgresTable!Current(c).ver >= c.ver
  <2>1. PostgresTable!Current(c) \in history /\ c \in PostgresTable!VersionsOf(PostgresTable!Current(c).key)
    BY <1>1, <1>3 DEF PostgresTable!Rows, PostgresTable!VersionsOf
  <2>2. QED
    BY <1>1, <1>3, <2>1, PgNumbers DEF PostgresTable!Rows
<1>5. ~PgHas(tap_loaded, c)
  BY <1>1 DEF PostgresTable!Reached, PgHas
<1>6. /\ PgAhead(saved, PostgresTable!Current(c))
      /\ PostgresTable!Current(c) \notin PostgresTable!LeftBehind(kept) /\ ~PgHas(passed, c)
  <2>1. PostgresTable!Current(c) \notin tap_loaded /\ PostgresTable!Current(c) \notin passed
    BY <1>1, <1>3, <1>4, <1>5 DEF PgHas
  <2>2. PostgresTable!Current(c) \notin PostgresTable!LeftBehind(kept) /\ ~PgHas(passed, c)
    BY <1>1, <1>3, <1>4 DEF PgHas
  <2>3. QED
    BY <1>1, <1>3, <2>1, <2>2 DEF PgSaved
<1>7. /\ kept \in PgBookmarks /\ kept.last_replication_method = method
      /\ \/ /\ saved.last_replication_method \in {"", method}
            /\ kept.lsn = saved.lsn /\ kept.xmin = saved.xmin /\ kept.rk_value = saved.rk_value
         \/ /\ saved.last_replication_method \notin {"", method}
            /\ kept.lsn = 0 /\ kept.xmin = 0 /\ kept.rk_value = 0
  BY <1>1, PgKept
<1>8. PostgresTable!Selects(saved, PostgresTable!Current(c)) = IF method = "INCREMENTAL" THEN PostgresTable!FromKeyValue(kept, PostgresTable!Current(c))
                                   ELSE ~PostgresTable!pure_logical(kept) /\ PostgresTable!FromXmin(kept, PostgresTable!Current(c))
  BY DEF PostgresTable!Selects
<1>9. PostgresTable!Logged(saved, c) = (method = "LOG_BASED" /\ kept.lsn # 0 /\ c.ver > kept.lsn)
  BY DEF PostgresTable!Logged
<1> HIDE DEF kept
<1>10. method # "INCREMENTAL"
  <2>1. PostgresTable!FromKeyValue(kept, PostgresTable!Current(c))
    BY <1>6, <1>7 DEF PostgresTable!FromKeyValue, PgAhead
  <2>2. QED
    BY <1>1, <1>8, <2>1
<1>11. PostgresTable!FromXmin(kept, PostgresTable!Current(c))
  <2>1. SUFFICES ASSUME kept.xmin # 0 PROVE PostgresTable!xmin(PostgresTable!Current(c)) >= kept.xmin
    BY DEF PostgresTable!FromXmin
  <2>2. kept.xmin = saved.xmin /\ kept.xmin \in Nat
    BY <1>7, <2>1 DEF PgBookmarks
  <2>3. ~(PostgresTable!xmin(PostgresTable!Current(c)) < kept.xmin)
    BY <1>3, <1>4, <1>6, <1>10, <2>1, <2>2 DEF PgAhead, PostgresTable!LeftBehind
  <2>4. QED
    BY <1>4, <2>2, <2>3
<1>12. method = "LOG_BASED" /\ kept.lsn # 0 /\ kept.xmin = 0
  BY <1>1, <1>8, <1>10, <1>11 DEF PostgresTable!pure_logical
<1>13. kept.lsn = saved.lsn /\ saved.xmin = 0
  BY <1>7, <1>12
<1>14. PgHas(tap_loaded, c) \/ c.ver > saved.lsn
  BY <1>1, <1>6, <1>12, <1>13 DEF PgCopied
<1>15. QED
  BY <1>1, <1>5, <1>9, <1>12, <1>13, <1>14

-----------------------------------------------------------------------------
(* The taps together                                                       *)

\* The invariant of the tap that runs.
DatabasesInv ==
    /\ tap = "kafka" => KafkaStarts /\ KafkaState
    /\ tap = "snowflake tables" => SnInv
    /\ tap = "mongodb tables" => MgInv
    /\ tap = "mongodb streams" => CsInv
    /\ tap = "mysql tables" => MyInv
    /\ tap = "postgres tables" => PgInv

\* A tap starts in its initial state.
LEMMA DatabasesInit == InitAll => DatabasesInv
<1>1. SUFFICES ASSUME InitAll PROVE DatabasesInv
  OBVIOUS
<1>2. /\ tap = "kafka" => Kafka!Init
      /\ tap = "snowflake tables" => SnowflakeTable!Init
      /\ tap = "mongodb tables" => MongodbTable!Init
      /\ tap = "mongodb streams" => ChangeStream!Init
      /\ tap = "mysql tables" => MysqlTable!Init
      /\ tap = "postgres tables" => PostgresTable!Init
  BY <1>1 DEF InitAll, InitTap, InitTable
<1>3. QED
  BY <1>2, KafkaInit, SnInit, MgInit, CsInit, MyInit, PgInit DEF DatabasesInv

\* A step of the taps together is one of the tap that runs, and that tap stays.
LEMMA DatabasesFrame ==
    ASSUME [NextAll]_<<snowflakeVars, tapVars>>
    PROVE  /\ tap' = tap
           /\ tap = "kafka" => [Kafka!Next]_(Kafka!kafkaVars)
           /\ tap = "snowflake tables" => [SnowflakeTable!Next]_(SnowflakeTable!tableTapVars)
           /\ tap = "mongodb tables" => [MongodbTable!Next]_(MongodbTable!tableTapVars)
           /\ tap = "mongodb streams" => [ChangeStream!Next]_(ChangeStream!streamVars)
           /\ tap = "mysql tables" => [MysqlTable!Next]_(MysqlTable!mysqlTableVars)
           /\ tap = "postgres tables" => [PostgresTable!Next]_(PostgresTable!postgresTableVars)
<1>1. CASE NextTap
  <2>1. \/ tap = "kafka" /\ Kafka!Next /\ tap' = tap
        \/ tap = "snowflake tables" /\ SnowflakeTable!Next /\ tap' = tap
        \/ tap = "mongodb tables" /\ MongodbTable!Next /\ tap' = tap
        \/ tap = "mysql tables" /\ MysqlTable!Next /\ tap' = tap
        \/ tap = "postgres tables" /\ PostgresTable!Next /\ tap' = tap
        \/ tap = "mongodb streams" /\ ChangeStream!Next /\ tap' = tap
    BY <1>1 DEF NextTap, NextTable
  <2>2. QED
    BY <2>1
<1>2. CASE UNCHANGED tapVars
  <2>1. UNCHANGED <<tap, deaths, tap_pc, tap_state, rows_saved, tap_emitted, tap_loaded, saved>>
    BY <1>2 DEF tapVars, pipe_
  <2>2. UNCHANGED <<history, clock, time, method, switches, result, due, copied, auto_inc, current_log_pos, passed>>
    BY <1>2 DEF tapVars, tables_, mysql_
  <2>3. UNCHANGED <<produced, initial_start_time, committed, begun, position, message, consumed_messages>>
    BY <1>2 DEF tapVars, kafka_
  <2>9. UNCHANGED <<oplog, cursor, update_buffer, unflushed>>
    BY <1>2 DEF tapVars, streams_
  <2>4. UNCHANGED Kafka!kafkaVars
    BY <2>1, <2>3 DEF Kafka!kafkaVars, Kafka!pipe
  <2>5. UNCHANGED SnowflakeTable!tableTapVars
    BY <2>1, <2>2 DEF SnowflakeTable!tableTapVars, SnowflakeTable!table, SnowflakeTable!pipe
  <2>6. UNCHANGED MongodbTable!tableTapVars
    BY <2>1, <2>2 DEF MongodbTable!tableTapVars, MongodbTable!table, MongodbTable!pipe
  <2>10. UNCHANGED ChangeStream!streamVars
    BY <2>1, <2>9 DEF ChangeStream!streamVars, ChangeStream!pipe
  <2>7. UNCHANGED MysqlTable!mysqlTableVars
    BY <2>1, <2>2 DEF MysqlTable!mysqlTableVars, MysqlTable!tableTapVars, MysqlTable!table, MysqlTable!pipe
  <2>8. UNCHANGED PostgresTable!postgresTableVars
    BY <2>1, <2>2 DEF PostgresTable!postgresTableVars, PostgresTable!tableTapVars, PostgresTable!table, PostgresTable!pipe
  <2>11. QED
    BY <2>1, <2>4, <2>5, <2>6, <2>7, <2>8, <2>10
<1>3. NextTap \/ UNCHANGED tapVars
  BY DEF NextAll
<1>4. QED
  BY <1>1, <1>2, <1>3

\* The invariant of the tap that runs is kept.
LEMMA DatabasesStep == DatabasesInv /\ [NextAll]_<<snowflakeVars, tapVars>> => DatabasesInv'
<1>1. SUFFICES ASSUME DatabasesInv, [NextAll]_<<snowflakeVars, tapVars>> PROVE DatabasesInv'
  OBVIOUS
<1>2. tap' = tap
  BY <1>1, DatabasesFrame
<1>3. tap = "kafka" => (KafkaStarts /\ KafkaState)'
  BY <1>1, DatabasesFrame, KafkaStep, DatabasesAssumption DEF DatabasesInv
<1>4. tap = "snowflake tables" => SnInv'
  BY <1>1, DatabasesFrame, SnStep DEF DatabasesInv
<1>5. tap = "mongodb tables" => MgInv'
  BY <1>1, DatabasesFrame, MgStep DEF DatabasesInv
<1>10. tap = "mongodb streams" => CsInv'
  BY <1>1, DatabasesFrame, CsStep DEF DatabasesInv
<1>6. tap = "mysql tables" => MyInv'
  BY <1>1, DatabasesFrame, MyStep DEF DatabasesInv
<1>7. tap = "postgres tables" => PgInv'
  BY <1>1, DatabasesFrame, PgStep DEF DatabasesInv
<1>11. QED
  BY <1>2, <1>3, <1>4, <1>5, <1>6, <1>7, <1>10 DEF DatabasesInv

\* Every tap keeps its invariant, from the start, through the changes of the
\* source, its own queries and polls, changes of the method and deaths of the
\* pipeline.
THEOREM DatabasesInvariant == SpecAll => []DatabasesInv
<1>1. QED
  BY DatabasesInit, DatabasesStep, PTL DEF SpecAll

\* Partitions with a bookmark or a fixed start go on without a gap, whatever is
\* committed to the broker (read_kafka_messages, commit_kafka_consumer).
THEOREM KafkaIsComplete == SpecAll => []KafkaBookmarksSkipNothing
<1>1. DatabasesInv => KafkaBookmarksSkipNothing
  BY KafkaImplies, DatabasesAssumption DEF DatabasesInv, KafkaBookmarksSkipNothing
<1>2. QED
  BY <1>1, DatabasesInvariant, PTL

\* The key value of an incremental table of Snowflake passes no row that is not
\* loaded (tap-snowflake incremental.sync_table).
THEOREM SnowflakeTablesAreComplete == SpecAll => []SnowflakeTablesSkipNothing
<1>1. DatabasesInv => SnowflakeTablesSkipNothing
  BY SnImplies DEF DatabasesInv, SnowflakeTablesSkipNothing
<1>2. QED
  BY <1>1, DatabasesInvariant, PTL

\* An interrupted copy of a collection leaves no gap in its range of _id, and an
\* incremental one none behind its key value (full_table.sync_collection,
\* incremental.sync_collection).
THEOREM MongodbTablesAreComplete == SpecAll => []MongodbTablesSkipNothing
<1>1. DatabasesInv => MongodbTablesSkipNothing
  BY MgImplies DEF DatabasesInv, MongodbTablesSkipNothing
<1>2. QED
  BY <1>1, DatabasesInvariant, PTL

\* A resume token passes no change that is not loaded, but for the updates that the
\* closing STATE of a run has overtaken in its buffer (sync_database, flush_buffer),
\* whatever is copied anew and in whatever order the collections are.
THEOREM ChangeStreamsAreComplete == SpecAll => []OnlyTheClosingBufferIsSkipped
<1>1. DatabasesInv => OnlyTheClosingBufferIsSkipped
  BY CsImplies DEF DatabasesInv, OnlyTheClosingBufferIsSkipped
<1>2. QED
  BY <1>1, DatabasesInvariant, PTL

\* No bookmark of a MySQL table passes a change that is not loaded, through
\* deaths and every change of the method, but for the changes out of the range of
\* an interrupted FULL_TABLE copy when LOG_BASED goes on in it
\* (do_sync_historical_binlog, full_table.sync_table).
THEOREM MysqlTablesAreComplete == SpecAll => []MysqlTablesSkipNothing
<1>1. DatabasesInv => MysqlTablesSkipNothing
  BY MyImplies DEF DatabasesInv, MysqlTablesSkipNothing
<1>2. QED
  BY <1>1, DatabasesInvariant, PTL

\* No bookmark of a PostgreSQL table passes a change that is not loaded, but for
\* the rows that a resumed copy leaves out because the text of their transaction id
\* comes later and their age first (full_table.sync_table).  Nothing is assumed of
\* the ids, nor of the order of their text.
THEOREM PostgresIsComplete == SpecAll => []PostgresCopyResumes
<1>1. DatabasesInv => PostgresCopyResumes
  BY PgImplies DEF DatabasesInv, PostgresCopyResumes
<1>2. QED
  BY <1>1, DatabasesInvariant, PTL
=============================================================================
