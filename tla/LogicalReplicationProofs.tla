---------------------- MODULE LogicalReplicationProofs ----------------------
(***************************************************************************)
(* Proofs about LogicalReplication, for any streams, transactions, period  *)
(* and length of the log, and any number of crashes.  What is proved       *)
(* beyond the types assumes that the state file is always read whole: with *)
(* TornReads the slot passes what is not loaded, as a run shows.           *)
(***************************************************************************)
EXTENDS LogicalReplication, SequenceTheorems, WellFoundedInduction, TLAPS

-----------------------------------------------------------------------------
(* The inductive invariant                                                 *)

\* The changes that are still to be loaded from the first i messages of s.
Pending(s, i) == {out[s][j].lsn : j \in {k \in 1..i : out[s][k].type = "RECORD"}}
Sent(s) == Pending(s, Len(out[s]))

\* n is a safe bookmark for s once L is in the warehouse: L has every change
\* of s that was committed before n.
Covers(L, n, s) ==
    /\ n <= Len(wal)
    /\ \A l \in Committed : wal[l].stream = s /\ CommitLsn(l) < n => l \in L

\* A transaction commits once, after its changes.
WalInv ==
    /\ \A t \in Txns : \A c, d \in CommitsOf(t) : c = d
    /\ \A l \in Changes : \A c \in CommitsOf(wal[l].txn) : l < c

\* A RECORD in the pipe is a change of its stream.
RecordsInv ==
    \A s \in Streams : \A i \in 1..Len(out[s]) :
        out[s][i].type = "RECORD" => /\ out[s][i].lsn \in Changes
                                     /\ wal[out[s][i].lsn].stream = s

\* What holds however the state file is read.
BaseInv == TypeOK /\ WalInv /\ RecordsInv

\* What the slot, the committed position and the saved state leave behind them
\* is in the warehouse.
FilesInv ==
    \A s \in Streams :
        /\ Covers(loaded, slot, s)
        /\ Covers(loaded, lsn_comitted, s)
        /\ Covers(loaded, state_file[s], s)

\* What a STATE leaves behind it is in the warehouse or before it in the pipe.
PipeInv ==
    \A s \in Streams : \A i \in 1..Len(out[s]) :
        out[s][i].type = "STATE" => Covers(loaded \cup Pending(s, i), out[s][i].lsn, s)

\* The bookkeeping of a run stays behind the walsender, and what the walsender
\* left behind is in the warehouse or in the pipe.
RunInv ==
    /\ cursor[1] <= Len(wal)
    /\ lsn_currently_processing <= cursor[1]
    /\ lsn_last_processed <= cursor[1]
    /\ running =>
        /\ \A s \in Streams : Covers(loaded \cup Sent(s), state[s], s)
        /\ \A l \in Committed : \/ l \in loaded
                                \/ l \in ToSend
                                \/ l \in Sent(wal[l].stream)

SafeInv == FilesInv /\ PipeInv /\ RunInv

IInv == BaseInv /\ SafeInv

-----------------------------------------------------------------------------
(* Lemmas about the operators of the model                                 *)

\* A set of naturals that is not empty has a least element, and SmallestOf is it.
LEMMA SmallestOfNat ==
    ASSUME NEW T, T \subseteq Nat, T # {}
    PROVE  SmallestOf(T) \in T /\ \A y \in T : SmallestOf(T) <= y
<1> DEFINE R == OpToRel(<, Nat)
<1>1. IsWellFoundedOn(R, Nat)
  BY NatLessThanWellFounded
<1>2. \A x, y \in Nat : y < x => <<y, x>> \in R
  BY DEF OpToRel
<1> HIDE DEF R
<1>3. PICK x \in T : \A y \in T : ~(<<y, x>> \in R)
  BY <1>1, WFMin
<1>4. ASSUME NEW y \in T PROVE x <= y
  <2>1. x \in Nat /\ y \in Nat
    OBVIOUS
  <2>2. ~(y < x)
    BY <1>2, <1>3, <2>1
  <2>3. QED
    BY <2>1, <2>2
<1>5. QED
  BY <1>4 DEF SmallestOf

\* The least advanced bookmark is one of the bookmarks, and behind all others.
LEMMA MinLsnIsLeast ==
    ASSUME NEW st \in Bookmarks
    PROVE  /\ \E s \in Streams : MinLsn(st) = st[s]
           /\ \A s \in Streams : MinLsn(st) <= st[s]
           /\ MinLsn(st) \in Nat
<1> DEFINE T == {st[s] : s \in Streams}
<1>1. T \subseteq Nat /\ T # {}
  BY StreamsAssumption DEF Bookmarks
<1> HIDE DEF T
<1>2. SmallestOf(T) \in T /\ \A y \in T : SmallestOf(T) <= y
  BY <1>1, SmallestOfNat
<1>3. MinLsn(st) = SmallestOf(T)
  BY DEF MinLsn, T
<1>4. QED
  BY <1>1, <1>2, <1>3 DEF T

\* The commit of a committed change is the one commit record of its
\* transaction, later in the log than the change.
LEMMA CommitLsnIsTheCommit ==
    ASSUME TypeOK, WalInv, NEW l \in Committed
    PROVE  /\ CommitsOf(wal[l].txn) = {CommitLsn(l)}
           /\ CommitLsn(l) \in 1..Len(wal) /\ l \in 1..Len(wal)
           /\ l < CommitLsn(l)
           /\ wal[l].txn \in Txns /\ wal[l].stream \in Streams
<1>1. l \in Changes /\ l \in 1..Len(wal) /\ CommitsOf(wal[l].txn) # {}
  BY DEF Committed, Changes
<1>2. wal[l].txn \in Txns /\ wal[l].stream \in Streams
  <2>1. wal \in Seq([txn : Txns, stream : Streams \cup {Commit}])
    BY DEF TypeOK
  <2>2. wal[l] \in [txn : Txns, stream : Streams \cup {Commit}]
    BY <1>1, <2>1, ElementOfSeq
  <2>3. QED
    BY <1>1, <2>2 DEF Changes
<1>3. PICK c : c \in CommitsOf(wal[l].txn)
  BY <1>1
<1>4. CommitsOf(wal[l].txn) = {c}
  BY <1>2, <1>3 DEF WalInv
<1>5. c \in 1..Len(wal) /\ c \in Nat
  BY <1>3 DEF CommitsOf, TypeOK
<1>6. CommitLsn(l) = c
  BY <1>4, <1>5 DEF CommitLsn, SmallestOf
<1>7. QED
  BY <1>1, <1>2, <1>3, <1>4, <1>5, <1>6 DEF WalInv

\* A step that leaves the log alone leaves what is committed alone.
LEMMA SameLog ==
    ASSUME UNCHANGED wal
    PROVE  /\ Changes' = Changes /\ Committed' = Committed
           /\ \A l : CommitLsn(l)' = CommitLsn(l)
           /\ WalInv => WalInv'
BY DEF Changes, Committed, CommitLsn, CommitsOf, WalInv

\* A write changes nothing in the log, and commits only at its new end.
LEMMA WriteAppends ==
    ASSUME TypeOK, WalInv, NEW t \in Txns, NEW x \in Streams \cup {Commit}, Write(t, x)
    PROVE  /\ Len(wal') = Len(wal) + 1
           /\ \A l \in 1..Len(wal) : wal'[l] = wal[l]
           /\ wal'[Len(wal) + 1] = [txn |-> t, stream |-> x]
           /\ wal' \in Seq([txn : Txns, stream : Streams \cup {Commit}])
           /\ Changes \subseteq Changes'
           /\ WalInv'
           /\ \A l \in Committed : l \in Committed' /\ CommitLsn(l)' = CommitLsn(l)
           /\ \A l \in Committed' \ Committed : CommitLsn(l)' = Len(wal) + 1
<1>1. /\ wal' = Append(wal, [txn |-> t, stream |-> x])
      /\ [txn |-> t, stream |-> x] \in [txn : Txns, stream : Streams \cup {Commit}]
      /\ CommitsOf(t) = {}
  BY DEF Write
<1>2. /\ Len(wal') = Len(wal) + 1 /\ Len(wal) \in Nat
      /\ \A l \in 1..Len(wal) : wal'[l] = wal[l]
      /\ wal'[Len(wal) + 1] = [txn |-> t, stream |-> x]
      /\ wal' \in Seq([txn : Txns, stream : Streams \cup {Commit}])
  BY <1>1 DEF TypeOK
<1>3. /\ Changes \subseteq Changes'
      /\ \A l \in Changes' : l \in Changes \/ (l = Len(wal) + 1 /\ x # Commit)
  <2>1. \A l : l \in 1..Len(wal') <=> l \in 1..Len(wal) \/ l = Len(wal) + 1
    BY <1>2
  <2>2. wal'[Len(wal) + 1].stream = x
    BY <1>2
  <2>3. QED
    BY <1>2, <2>1, <2>2, Zenon DEF Changes
<1>4. \A u : CommitsOf(u)' = IF u = t /\ x = Commit THEN {Len(wal) + 1} ELSE CommitsOf(u)
  <2>1. ASSUME NEW u, NEW c
        PROVE  c \in CommitsOf(u)' <=> \/ c \in CommitsOf(u)
                                       \/ c = Len(wal) + 1 /\ u = t /\ x = Commit
    BY <1>2 DEF CommitsOf
  <2>2. QED
    BY <1>1, <2>1
<1>5. WalInv'
  <2>1. ASSUME NEW u \in Txns, NEW c \in CommitsOf(u)', NEW d \in CommitsOf(u)' PROVE c = d
    BY <1>4, <2>1 DEF WalInv
  <2>2. ASSUME NEW l \in Changes', NEW c \in CommitsOf(wal[l].txn)' PROVE l < c
    <3>1. CASE l = Len(wal) + 1 /\ x # Commit
      <4>1. wal'[l].txn = t
        BY <1>2, <3>1
      <4>2. CommitsOf(wal[l].txn)' = CommitsOf(t)'
        BY <4>1 DEF CommitsOf
      <4>3. QED
        BY <1>1, <1>4, <2>2, <3>1, <4>2
    <3>2. CASE l \in Changes
      <4>1. l \in 1..Len(wal) /\ wal'[l].txn = wal[l].txn
        BY <1>2, <3>2 DEF Changes
      <4>2. \A u : u = wal[l].txn => CommitsOf(wal[l].txn)' = CommitsOf(u)'
        BY <4>1 DEF CommitsOf
      <4>3. c \in CommitsOf(wal[l].txn) \/ c = Len(wal) + 1
        BY <1>4, <2>2, <4>2
      <4>4. QED
        BY <1>2, <3>2, <4>1, <4>3 DEF WalInv
    <3>3. QED
      BY <1>3, <3>1, <3>2
  <2>3. QED
    BY <2>1, <2>2 DEF WalInv
<1>6. ASSUME NEW l \in Committed
      PROVE  l \in Committed' /\ CommitLsn(l)' = CommitLsn(l)
  <2>1. l \in Changes /\ l \in 1..Len(wal) /\ CommitsOf(wal[l].txn) # {}
    BY DEF Committed, Changes
  <2>2. wal'[l] = wal[l] /\ wal[l].txn # t
    BY <1>1, <1>2, <2>1
  <2>3. \A u : CommitsOf(u)' = {c \in 1..Len(wal') : wal'[c] = [txn |-> u, stream |-> Commit]}
    BY DEF CommitsOf
  <2>4. CommitsOf(wal[l].txn)' = CommitsOf(wal[l].txn)
    <3>1. CommitsOf(wal[l].txn)' = {c \in 1..Len(wal') : wal'[c] = [txn |-> wal[l].txn, stream |-> Commit]}
      BY <2>2 DEF CommitsOf
    <3>2. QED
      BY <1>4, <2>2, <2>3, <3>1
  <2>5. QED
    BY <1>3, <2>1, <2>4 DEF Committed, CommitLsn
<1>7. ASSUME NEW l \in Committed' \ Committed
      PROVE  CommitLsn(l)' = Len(wal) + 1
  <2>1. l \in Changes' /\ CommitsOf(wal[l].txn)' # {}
    BY DEF Committed
  <2>2. \A u : u = wal'[l].txn => CommitsOf(wal[l].txn)' = CommitsOf(u)'
    BY DEF CommitsOf
  <2>3. CommitsOf(wal[l].txn)' = {Len(wal) + 1}
    <3>1. CASE l = Len(wal) + 1 /\ x # Commit
      BY <1>1, <1>2, <1>4, <2>1, <2>2, <3>1
    <3>2. CASE l \in Changes
      <4>1. wal'[l] = wal[l]
        BY <1>2, <3>2 DEF Changes
      <4>2. CommitsOf(wal[l].txn) = {}
        BY <3>2 DEF Committed
      <4>3. QED
        BY <1>4, <2>1, <2>2, <4>1, <4>2
    <3>3. QED
      BY <1>3, <2>1, <3>1, <3>2
  <2>4. QED
    BY <1>2, <2>3 DEF CommitLsn, SmallestOf
<1>8. QED
  BY <1>2, <1>3, <1>5, <1>6, <1>7

\* What writing one RECORD does to the pipe.
LEMMA WithRecordAppends ==
    ASSUME NEW q \in [Streams -> Seq(Message)], NEW s \in Streams, NEW l \in Nat
    PROVE  /\ WithRecord(q, s, l) \in [Streams -> Seq(Message)]
           /\ \A u \in Streams \ {s} : WithRecord(q, s, l)[u] = q[u]
           /\ Len(WithRecord(q, s, l)[s]) = Len(q[s]) + 1
           /\ \A i \in 1..Len(q[s]) : WithRecord(q, s, l)[s][i] = q[s][i]
           /\ WithRecord(q, s, l)[s][Len(q[s]) + 1] = RecordMessage(l)
<1>1. q[s] \in Seq(Message) /\ RecordMessage(l) \in Message
  BY DEF RecordMessage, Message
<1>2. WithRecord(q, s, l)[s] = Append(q[s], RecordMessage(l))
  BY DEF WithRecord
<1>3. \A u \in Streams \ {s} : WithRecord(q, s, l)[u] = q[u]
  BY DEF WithRecord
<1>4. Append(q[s], RecordMessage(l)) \in Seq(Message)
  BY <1>1, AppendProperties
<1>5. WithRecord(q, s, l) \in [Streams -> Seq(Message)]
  BY <1>4 DEF WithRecord
<1>6. QED
  BY <1>1, <1>2, <1>3, <1>5, AppendProperties

\* What writing a STATE does to the pipe of each stream.
LEMMA WithStateAppends ==
    ASSUME NEW q \in [Streams -> Seq(Message)], NEW st \in Bookmarks
    PROVE  /\ WithState(q, st) \in [Streams -> Seq(Message)]
           /\ \A s \in Streams :
                 /\ Len(WithState(q, st)[s]) = Len(q[s]) + 1
                 /\ \A i \in 1..Len(q[s]) : WithState(q, st)[s][i] = q[s][i]
                 /\ WithState(q, st)[s][Len(q[s]) + 1] = StateMessage(st[s])
<1>1. ASSUME NEW s \in Streams
      PROVE  /\ q[s] \in Seq(Message) /\ StateMessage(st[s]) \in Message
             /\ WithState(q, st)[s] = Append(q[s], StateMessage(st[s]))
  BY DEF StateMessage, Message, Bookmarks, WithState
<1>2. ASSUME NEW s \in Streams
      PROVE  /\ Append(q[s], StateMessage(st[s])) \in Seq(Message)
             /\ Len(WithState(q, st)[s]) = Len(q[s]) + 1
             /\ \A i \in 1..Len(q[s]) : WithState(q, st)[s][i] = q[s][i]
             /\ WithState(q, st)[s][Len(q[s]) + 1] = StateMessage(st[s])
  BY <1>1, AppendProperties
<1>3. WithState(q, st) \in [Streams -> Seq(Message)]
  BY <1>2 DEF WithState
<1>4. QED
  BY <1>2, <1>3

\* What reading one message does to the pipe: the RECORD, then the STATE of a
\* period that is full.
LEMMA ReadAppends ==
    ASSUME TypeOK, WalInv, NEW l \in Lsn, l <= Len(wal), ReadMessage(l)
    PROVE  /\ l \in Committed /\ wal[l].stream \in Streams
           /\ out' \in [Streams -> Seq(Message)]
           /\ state' \in Bookmarks
           /\ \A s \in Streams :
                 /\ Len(out[s]) \in Nat /\ Len(out'[s]) \in Nat
                 /\ Len(out[s]) <= Len(out'[s])
                 /\ \A i \in 1..Len(out[s]) : out'[s][i] = out[s][i]
                 /\ s = wal[l].stream => /\ Len(out[s]) < Len(out'[s])
                                         /\ out'[s][Len(out[s]) + 1] = RecordMessage(l)
                 /\ \A i \in 1..Len(out'[s]) :
                      \/ i <= Len(out[s])
                      \/ s = wal[l].stream /\ i = Len(out[s]) + 1
                      \/ i = Len(out'[s]) /\ out'[s][i] = StateMessage(state'[s])
<1> DEFINE str == wal[l].stream
           sent == WithRecord(out, str, l)
           moved == lsn_currently_processing # 0 /\ l > lsn_currently_processing
           full == moved /\ PeriodFull(lsn_processed_count + 1)
<1>1. l \in Committed /\ l \in Nat
  BY DEF ReadMessage, IsNext, ToSend, Lsn
<1>2. str \in Streams
  BY <1>1, CommitLsnIsTheCommit
<1>3. out \in [Streams -> Seq(Message)] /\ state \in Bookmarks /\ lsn_currently_processing \in Nat
  BY DEF TypeOK
<1>4. state' \in Bookmarks
  <2>1. state' = IF full THEN [s \in Streams |-> PeriodLsn(lsn_currently_processing)]
                 ELSE [state EXCEPT ![str] = l]
    BY DEF ReadMessage
  <2>2. QED
    BY <1>1, <1>3, <2>1 DEF Bookmarks, PeriodLsn
<1>5. out' = IF full THEN WithState(sent, state') ELSE sent
  BY DEF ReadMessage
<1>6. /\ sent \in [Streams -> Seq(Message)]
      /\ \A u \in Streams \ {str} : sent[u] = out[u]
      /\ Len(sent[str]) = Len(out[str]) + 1
      /\ \A i \in 1..Len(out[str]) : sent[str][i] = out[str][i]
      /\ sent[str][Len(out[str]) + 1] = RecordMessage(l)
  BY <1>1, <1>2, <1>3, WithRecordAppends
<1>7. \A s \in Streams : Len(out[s]) \in Nat /\ Len(sent[s]) \in Nat
  BY <1>3, <1>6, LenProperties
<1> HIDE DEF sent, full, str
<1>8. CASE full
  <2>1. out' = WithState(sent, state')
    BY <1>5, <1>8
  <2>2. /\ out' \in [Streams -> Seq(Message)]
        /\ \A s \in Streams :
              /\ Len(out'[s]) = Len(sent[s]) + 1
              /\ \A i \in 1..Len(sent[s]) : out'[s][i] = sent[s][i]
              /\ out'[s][Len(sent[s]) + 1] = StateMessage(state'[s])
    BY <1>4, <1>6, <2>1, WithStateAppends
  <2>3. ASSUME NEW s \in Streams
        PROVE  /\ Len(out[s]) <= Len(sent[s])
               /\ \A i \in 1..Len(out[s]) : sent[s][i] = out[s][i]
               /\ s = str => /\ Len(out[s]) < Len(sent[s])
                             /\ sent[s][Len(out[s]) + 1] = RecordMessage(l)
               /\ \A i \in 1..Len(sent[s]) : i <= Len(out[s]) \/ (s = str /\ i = Len(out[s]) + 1)
    BY <1>6, <1>7, <1>2
  <2>4. ASSUME NEW s \in Streams
        PROVE  /\ Len(out[s]) \in Nat /\ Len(out'[s]) \in Nat
               /\ Len(out[s]) <= Len(out'[s])
               /\ \A i \in 1..Len(out[s]) : out'[s][i] = out[s][i]
               /\ s = str => /\ Len(out[s]) < Len(out'[s])
                             /\ out'[s][Len(out[s]) + 1] = RecordMessage(l)
               /\ \A i \in 1..Len(out'[s]) :
                    \/ i <= Len(out[s])
                    \/ s = str /\ i = Len(out[s]) + 1
                    \/ i = Len(out'[s]) /\ out'[s][i] = StateMessage(state'[s])
    <3>1. Len(out[s]) \in Nat /\ Len(sent[s]) \in Nat
      BY <1>7
    <3>2. /\ Len(out'[s]) = Len(sent[s]) + 1
          /\ \A i \in 1..Len(sent[s]) : out'[s][i] = sent[s][i]
          /\ out'[s][Len(sent[s]) + 1] = StateMessage(state'[s])
      BY <2>2
    <3>3. \A i \in 1..Len(out'[s]) : i \in 1..Len(sent[s]) \/ i = Len(out'[s])
      BY <3>1, <3>2
    <3>4. \A i \in 1..Len(out[s]) : i \in 1..Len(sent[s])
      BY <2>3, <3>1
    <3>5. s = str => Len(out[s]) + 1 \in 1..Len(sent[s])
      BY <2>3, <3>1
    <3>6. QED
      BY <2>3, <3>1, <3>2, <3>3, <3>4, <3>5
  <2>5. QED
    BY <1>1, <1>2, <1>4, <2>2, <2>4 DEF str
<1>9. CASE ~full
  <2>1. out' = sent
    BY <1>5, <1>9
  <2>2. ASSUME NEW s \in Streams
        PROVE  /\ Len(out[s]) \in Nat /\ Len(out'[s]) \in Nat
               /\ Len(out[s]) <= Len(out'[s])
               /\ \A i \in 1..Len(out[s]) : out'[s][i] = out[s][i]
               /\ s = str => /\ Len(out[s]) < Len(out'[s])
                             /\ out'[s][Len(out[s]) + 1] = RecordMessage(l)
               /\ \A i \in 1..Len(out'[s]) : i <= Len(out[s]) \/ (s = str /\ i = Len(out[s]) + 1)
    BY <1>2, <1>6, <1>7, <2>1
  <2>3. out' \in [Streams -> Seq(Message)]
    BY <1>6, <2>1
  <2>4. QED
    BY <1>1, <1>2, <1>4, <2>2, <2>3 DEF str
<1>10. QED
  BY <1>8, <1>9

\* What consuming one message does to the pipe and the sink.
LEMMA ConsumeTakes ==
    ASSUME TypeOK, NEW s \in Streams, Consume(s)
    PROVE  /\ out' \in [Streams -> Seq(Message)]
           /\ \A u \in Streams \ {s} : out'[u] = out[u]
           /\ Len(out[s]) \in Nat /\ Len(out'[s]) \in Nat
           /\ Len(out[s]) = Len(out'[s]) + 1
           /\ \A i \in 1..Len(out'[s]) : out'[s][i] = out[s][i + 1]
           /\ out[s][1] \in Message
           /\ \/ /\ out[s][1].type = "RECORD"
                 /\ loaded' = loaded \cup {out[s][1].lsn}
                 /\ state_file' = state_file
              \/ /\ out[s][1].type = "STATE"
                 /\ loaded' = loaded
                 /\ state_file' \in {state_file, [state_file EXCEPT ![s] = out[s][1].lsn]}
<1>1. out[s] \in Seq(Message) /\ out[s] # << >> /\ out \in [Streams -> Seq(Message)]
  BY DEF TypeOK, Consume
<1>2. out' = [out EXCEPT ![s] = Tail(@)]
  BY DEF Consume
<1>3. /\ Tail(out[s]) \in Seq(Message)
      /\ Len(Tail(out[s])) = Len(out[s]) - 1
      /\ \A i \in 1..Len(Tail(out[s])) : Tail(out[s])[i] = out[s][i + 1]
      /\ Head(out[s]) \in Message /\ Head(out[s]) = out[s][1]
  <2>1. Head(out[s]) = out[s][1]
    BY <1>1
  <2>2. QED
    BY <1>1, <2>1, HeadTailProperties
<1>4. Len(out[s]) \in Nat /\ Len(Tail(out[s])) \in Nat
  BY <1>1, <1>3, LenProperties
<1>5. QED
  BY <1>1, <1>2, <1>3, <1>4 DEF Consume

-----------------------------------------------------------------------------
(* The types                                                               *)

\* The process is gone: its memory has the types it started with.
LEMMA ExitTypes ==
    ASSUME Exit
    PROVE  /\ running' \in BOOLEAN /\ file_read' \in BOOLEAN
           /\ cursor' \in Nat \X Nat /\ state' \in Bookmarks
           /\ end_lsn' \in Nat /\ lsn_comitted' \in Nat /\ lsn_to_flush' \in Nat
           /\ lsn_last_processed' \in Nat /\ lsn_currently_processing' \in Nat
           /\ lsn_processed_count' \in Nat
           /\ lsn_processed_count' < UPDATE_BOOKMARK_PERIOD
<1>1. running' \in BOOLEAN /\ file_read' \in BOOLEAN
  BY DEF Exit
<1>2. cursor' \in Nat \X Nat
  BY DEF Exit
<1>3. state' \in Bookmarks
  BY DEF Exit, Bookmarks
<1>4. /\ end_lsn' \in Nat /\ lsn_comitted' \in Nat /\ lsn_to_flush' \in Nat
      /\ lsn_last_processed' \in Nat /\ lsn_currently_processing' \in Nat
      /\ lsn_processed_count' \in Nat
      /\ lsn_processed_count' < UPDATE_BOOKMARK_PERIOD
  BY PeriodAssumption DEF Exit
<1>5. QED
  BY <1>1, <1>2, <1>3, <1>4

LEMMA BaseInit == Init => BaseInv
<1> SUFFICES ASSUME Init PROVE BaseInv
  OBVIOUS
<1>1. Changes = {} /\ \A t : CommitsOf(t) = {}
  BY DEF Init, Changes, CommitsOf
<1>2. TypeOK
  <2>1. running \in BOOLEAN /\ file_read \in BOOLEAN
    BY DEF Init
  <2>2. out \in [Streams -> Seq(Message)] /\ wal \in Seq([txn : Txns, stream : Streams \cup {Commit}])
    BY EmptySeq DEF Init, Empty
  <2>3. state \in Bookmarks /\ state_file \in Bookmarks /\ cursor \in Nat \X Nat
    BY DEF Init, Bookmarks
  <2>4. QED
    BY <2>1, <2>2, <2>3, PeriodAssumption DEF Init, TypeOK
<1>3. \A s \in Streams : Len(out[s]) = 0
  BY EmptySeq DEF Init, Empty
<1>4. QED
  BY <1>1, <1>2, <1>3 DEF BaseInv, WalInv, RecordsInv

\* Every step keeps the types, the shape of the log and the RECORDs in the pipe.
LEMMA BaseStep == BaseInv /\ [Next]_vars => BaseInv'
<1> SUFFICES ASSUME BaseInv, [Next]_vars PROVE BaseInv'
  OBVIOUS
<1> USE DEF BaseInv
<1>1. ASSUME NEW t \in Txns, NEW x \in Streams \cup {Commit}, Write(t, x) PROVE BaseInv'
  <2>1. TypeOK'
    BY <1>1, WriteAppends DEF TypeOK, Write, tap, sink
  <2>2. WalInv'
    BY <1>1, WriteAppends
  <2>3. RecordsInv'
    BY <1>1, WriteAppends DEF RecordsInv, Write, Changes
  <2>4. QED
    BY <2>1, <2>2, <2>3
<1>2. ASSUME NEW l \in Lsn, l <= Len(wal), ReadMessage(l) PROVE BaseInv'
  <2>0. Changes' = Changes /\ WalInv' /\ wal' = wal
    BY <1>2, SameLog DEF ReadMessage, source
  <2>1. TypeOK'
    <3>1. /\ out' \in [Streams -> Seq(Message)] /\ state' \in Bookmarks
          /\ cursor' = <<CommitLsn(l), l>> /\ CommitLsn(l) \in Nat /\ l \in Nat
      <4>1. /\ out' \in [Streams -> Seq(Message)] /\ state' \in Bookmarks
            /\ l \in Committed
        BY <1>2, ReadAppends
      <4>2. CommitLsn(l) \in 1..Len(wal) /\ l \in Nat
        BY <1>2, <4>1, CommitLsnIsTheCommit DEF Lsn
      <4>3. QED
        BY <1>2, <4>1, <4>2 DEF ReadMessage
    <3>2. /\ lsn_currently_processing' \in Nat /\ lsn_last_processed' \in Nat
          /\ lsn_to_flush' \in Nat /\ slot' \in Nat
      BY <1>2, <3>1 DEF ReadMessage, Feedback, FirstFlush, Larger, TypeOK
    <3>3. lsn_processed_count' \in Nat /\ lsn_processed_count' < UPDATE_BOOKMARK_PERIOD
      BY <1>2, PeriodAssumption DEF ReadMessage, PeriodFull, TypeOK
    <3>4. /\ UNCHANGED <<running, file_read, end_lsn, lsn_comitted, crashes>>
          /\ UNCHANGED sink
      BY <1>2 DEF ReadMessage
    <3>5. running' \in BOOLEAN /\ file_read' \in BOOLEAN
      BY <3>4, Zenon DEF TypeOK
    <3>6. QED
      BY <2>0, <3>1, <3>2, <3>3, <3>4, <3>5 DEF TypeOK, sink
  <2>2. RecordsInv'
    <3>1. ASSUME NEW s \in Streams, NEW i \in 1..Len(out'[s]), out'[s][i].type = "RECORD"
          PROVE  out'[s][i].lsn \in Changes /\ wal[out'[s][i].lsn].stream = s
      <4>1. CASE i <= Len(out[s])
        BY <1>2, <3>1, <4>1, ReadAppends DEF RecordsInv
      <4>2. CASE s = wal[l].stream /\ i = Len(out[s]) + 1
        <5>1. out'[s][i] = RecordMessage(l) /\ l \in Changes
          BY <1>2, <4>2, ReadAppends DEF Committed
        <5>2. QED
          BY <4>2, <5>1 DEF RecordMessage
      <4>3. CASE out'[s][i] = StateMessage(state'[s])
        BY <3>1, <4>3 DEF StateMessage
      <4>4. QED
        BY <1>2, <4>1, <4>2, <4>3, ReadAppends
    <3>2. QED
      BY <2>0, <3>1 DEF RecordsInv
  <2>3. QED
    BY <2>0, <2>1, <2>2
<1>3. CASE Start
  <2>1. MinLsn(state_file) \in Nat
    BY MinLsnIsLeast DEF TypeOK
  <2>2. TypeOK' /\ WalInv' /\ Changes' = Changes
    <3>1. running' \in BOOLEAN /\ file_read' \in BOOLEAN
      BY <1>3 DEF Start
    <3>2. WalInv' /\ Changes' = Changes
      BY <1>3, SameLog DEF Start, source
    <3>3. cursor' \in Nat \X Nat /\ lsn_comitted' \in Nat /\ end_lsn' \in Nat
      BY <1>3, <2>1 DEF Start, StartLsn, Larger, TypeOK
    <3>4. QED
      BY <1>3, <3>1, <3>2, <3>3, PeriodAssumption DEF TypeOK, Start, source, sink
  <2>3. QED
    BY <1>3, <2>2 DEF RecordsInv, Start, source
<1>4. CASE PollStateFile
  <2>1. MinLsn(state_file) \in Nat /\ MinLsn(state) \in Nat
    BY MinLsnIsLeast DEF TypeOK
  <2>2. TypeOK' /\ WalInv' /\ Changes' = Changes
    <3>1. lsn_comitted' \in Nat /\ file_read' \in BOOLEAN
      BY <1>4, <2>1 DEF PollStateFile, Committing, SavedLsn, TypeOK
    <3>2. lsn_to_flush' \in Nat /\ slot' \in Nat
      BY <1>4, <3>1 DEF PollStateFile, Feedback, Larger, TypeOK
    <3>3. WalInv' /\ Changes' = Changes /\ wal' = wal
      BY <1>4, SameLog DEF PollStateFile, source
    <3>4. QED
      BY <1>4, <3>1, <3>2, <3>3 DEF TypeOK, PollStateFile, sink
  <2>3. QED
    BY <1>4, <2>2 DEF RecordsInv, PollStateFile, source
<1>5. CASE Finish
  <2>0. Changes' = Changes /\ WalInv' /\ wal' = wal
    BY <1>5, SameLog DEF Finish, source
  <2>1. ClosingState \in Bookmarks
    BY DEF ClosingState, Bookmarks, Larger, TypeOK
  <2>2. out' = WithState(out, ClosingState) /\ out \in [Streams -> Seq(Message)]
    BY <1>5 DEF Finish, TypeOK
  <2>3. TypeOK'
    <3>1. out' \in [Streams -> Seq(Message)]
      BY <2>1, <2>2, WithStateAppends
    <3>2. QED
      BY <1>5, <2>0, <3>1, ExitTypes DEF Finish, TypeOK, sink
  <2>4. RecordsInv'
    <3>1. ASSUME NEW s \in Streams, NEW i \in 1..Len(out'[s]), out'[s][i].type = "RECORD"
          PROVE  i \in 1..Len(out[s]) /\ out'[s][i] = out[s][i]
      <4>1. Len(out[s]) \in Nat /\ Len(out'[s]) = Len(out[s]) + 1
        BY <2>1, <2>2, WithStateAppends, LenProperties
      <4>2. CASE i = Len(out[s]) + 1
        <5>1. out'[s][i] = StateMessage(ClosingState[s])
          BY <2>1, <2>2, <4>2, WithStateAppends
        <5>2. QED
          BY <3>1, <5>1 DEF StateMessage
      <4>3. QED
        BY <2>1, <2>2, <4>1, <4>2, WithStateAppends
    <3>2. QED
      BY <2>0, <3>1 DEF RecordsInv
  <2>5. QED
    BY <2>0, <2>3, <2>4
<1>6. CASE Kill
  <2>1. Changes' = Changes /\ WalInv' /\ wal' = wal
    BY <1>6, SameLog DEF Kill, source
  <2>2. TypeOK'
    <3>1. UNCHANGED <<slot, out>> /\ UNCHANGED sink /\ crashes' \in Nat /\ Exit
      BY <1>6 DEF Kill, TypeOK
    <3>2. QED
      BY <2>1, <3>1, ExitTypes DEF TypeOK, sink
  <2>3. QED
    BY <1>6, <2>1, <2>2 DEF RecordsInv, Kill
<1>7. ASSUME NEW s \in Streams, Consume(s) PROVE BaseInv'
  <2>0. Changes' = Changes /\ WalInv' /\ wal' = wal
    BY <1>7, SameLog DEF Consume, source
  <2>1. out[s][1].type = "RECORD" => out[s][1].lsn \in Changes
    BY <1>7, ConsumeTakes DEF RecordsInv
  <2>2. TypeOK'
    <3>1. /\ out' \in [Streams -> Seq(Message)]
          /\ loaded' \subseteq Changes
          /\ state_file' \in Bookmarks
      <4>1. out' \in [Streams -> Seq(Message)] /\ out[s][1] \in Message
        BY <1>7, ConsumeTakes
      <4>2. CASE /\ out[s][1].type = "RECORD"
                 /\ loaded' = loaded \cup {out[s][1].lsn}
                 /\ state_file' = state_file
        BY <2>1, <4>1, <4>2 DEF TypeOK
      <4>3. CASE /\ loaded' = loaded
                 /\ state_file' \in {state_file, [state_file EXCEPT ![s] = out[s][1].lsn]}
        BY <4>1, <4>3 DEF TypeOK, Message, Bookmarks
      <4>4. QED
        BY <1>7, <4>1, <4>2, <4>3, ConsumeTakes
    <3>2. QED
      BY <1>7, <2>0, <3>1 DEF Consume, TypeOK, tap
  <2>3. RecordsInv'
    <3>1. ASSUME NEW u \in Streams, NEW i \in 1..Len(out'[u])
          PROVE  \E j \in 1..Len(out[u]) : out'[u][i] = out[u][j]
      BY <1>7, ConsumeTakes
    <3>2. QED
      BY <2>0, <3>1 DEF RecordsInv
  <2>4. QED
    BY <2>0, <2>2, <2>3
<1>8. CASE PipelineDies
  <2>1. Changes' = Changes /\ WalInv' /\ wal' = wal
    BY <1>8, SameLog DEF PipelineDies, source
  <2>2. out' \in [Streams -> Seq(Message)] /\ \A s \in Streams : Len(out'[s]) = 0
    BY <1>8, EmptySeq DEF PipelineDies, Empty
  <2>3. TypeOK'
    <3>1. UNCHANGED slot /\ UNCHANGED sink /\ crashes' \in Nat /\ Exit
      BY <1>8 DEF PipelineDies, TypeOK
    <3>2. QED
      BY <2>1, <2>2, <3>1, ExitTypes DEF TypeOK, sink
  <2>4. QED
    BY <2>1, <2>2, <2>3 DEF RecordsInv
<1>9. CASE UNCHANGED vars
  <2>1. Changes' = Changes /\ WalInv' /\ wal' = wal
    BY <1>9, SameLog DEF vars, source
  <2>2. QED
    BY <1>9, <2>1 DEF vars, TypeOK, RecordsInv, tap, sink
<1>10. QED
  BY <1>1, <1>2, <1>3, <1>4, <1>5, <1>6, <1>7, <1>8, <1>9 DEF Next

\* The source, the tap, the pipe and the sink keep their types, and only
\* changes of the log are ever in the warehouse.
THEOREM TypeCorrect == Spec => []TypeOK
<1>1. BaseInv => TypeOK
  BY DEF BaseInv
<1>2. QED
  BY <1>1, BaseInit, BaseStep, PTL DEF Spec

-----------------------------------------------------------------------------
(* The bookmarks                                                           *)

\* The types of the values the arguments below compute with.
LEMMA Typing ==
    ASSUME TypeOK
    PROVE  /\ \A s \in Streams : /\ state[s] \in Nat /\ state_file[s] \in Nat
                                 /\ out[s] \in Seq(Message) /\ Len(out[s]) \in Nat
           /\ Len(wal) \in Nat
           /\ cursor[1] \in Nat /\ cursor[2] \in Nat
           /\ slot \in Nat /\ lsn_comitted \in Nat
           /\ lsn_currently_processing \in Nat /\ lsn_last_processed \in Nat
<1>1. \A s \in Streams : state[s] \in Nat /\ state_file[s] \in Nat
  BY DEF TypeOK, Bookmarks
<1>2. \A s \in Streams : out[s] \in Seq(Message) /\ Len(out[s]) \in Nat
  BY LenProperties DEF TypeOK
<1>3. Len(wal) \in Nat
  BY LenProperties DEF TypeOK
<1>4. QED
  BY <1>1, <1>2, <1>3 DEF TypeOK

\* Covers after the step, of values that are given after the step.
CoversThen(L, n, s) ==
    /\ n <= Len(wal')
    /\ \A l \in Committed' : wal'[l].stream = s /\ CommitLsn(l)' < n => l \in L

\* A bookmark stays safe when the log grows, the warehouse grows, or the
\* bookmark goes back.
LEMMA CoversKept ==
    ASSUME TypeOK, WalInv,
           \/ UNCHANGED wal
           \/ \E t \in Txns, x \in Streams \cup {Commit} : Write(t, x),
           NEW L, NEW M, L \subseteq M, NEW n \in Nat, NEW m \in Nat, m <= n,
           NEW s \in Streams, Covers(L, n, s)
    PROVE  CoversThen(M, m, s)
<1>1. CASE UNCHANGED wal
  <2>1. Committed' = Committed /\ \A l : CommitLsn(l)' = CommitLsn(l)
    BY <1>1, SameLog
  <2>2. \A l \in Committed : CommitLsn(l) \in Nat
    BY CommitLsnIsTheCommit
  <2>3. Len(wal) \in Nat
    BY DEF TypeOK
  <2>4. QED
    BY <1>1, <2>1, <2>2, <2>3 DEF Covers, CoversThen
<1>2. CASE \E t \in Txns, x \in Streams \cup {Commit} : Write(t, x)
  <2>1. /\ Len(wal') = Len(wal) + 1
        /\ \A l \in 1..Len(wal) : wal'[l] = wal[l]
        /\ \A l \in Committed : l \in Committed' /\ CommitLsn(l)' = CommitLsn(l)
        /\ \A l \in Committed' \ Committed : CommitLsn(l)' = Len(wal) + 1
    BY <1>2, WriteAppends
  <2>2. \A l \in Committed : CommitLsn(l) \in Nat /\ l \in 1..Len(wal)
    BY CommitLsnIsTheCommit
  <2>3. Len(wal) \in Nat
    BY DEF TypeOK
  <2>4. ASSUME NEW l \in Committed', wal'[l].stream = s, CommitLsn(l)' < m
        PROVE  l \in M
    <3>1. l \in Committed /\ CommitLsn(l)' = CommitLsn(l)
      BY <2>1, <2>3, <2>4 DEF Covers
    <3>2. wal[l].stream = s /\ CommitLsn(l) < n
      BY <2>1, <2>2, <2>4, <3>1
    <3>3. QED
      BY <3>1, <3>2 DEF Covers
  <2>5. QED
    BY <2>1, <2>3, <2>4 DEF Covers, CoversThen
<1>3. QED
  BY <1>1, <1>2

\* Messages that are added to the pipe leave what was before them alone.
LEMMA PendingKept ==
    ASSUME NEW s \in Streams, Len(out[s]) \in Nat, Len(out'[s]) \in Nat,
           Len(out[s]) <= Len(out'[s]),
           \A i \in 1..Len(out[s]) : out'[s][i] = out[s][i]
    PROVE  /\ \A i \in 1..Len(out[s]) : Pending(s, i)' = Pending(s, i)
           /\ Sent(s) \subseteq Sent(s)'
<1>1. \A i \in 0..Len(out[s]) :
        {k \in 1..i : out'[s][k].type = "RECORD"} = {k \in 1..i : out[s][k].type = "RECORD"}
  OBVIOUS
<1>2. \A i \in 1..Len(out[s]) : Pending(s, i)' = Pending(s, i)
  BY <1>1 DEF Pending
<1>3. Sent(s) \subseteq Sent(s)'
  BY DEF Sent, Pending
<1>4. QED
  BY <1>2, <1>3

\* A message that is taken from the pipe leaves what is behind it alone.
LEMMA PendingTaken ==
    ASSUME TypeOK, NEW s \in Streams, Consume(s)
    PROVE  /\ \A i \in 1..Len(out'[s]) : loaded \cup Pending(s, i + 1) = loaded' \cup Pending(s, i)'
           /\ loaded \cup Sent(s) = loaded' \cup Sent(s)'
<1>1. /\ Len(out[s]) \in Nat /\ Len(out'[s]) \in Nat
      /\ Len(out[s]) = Len(out'[s]) + 1
      /\ \A i \in 1..Len(out'[s]) : out'[s][i] = out[s][i + 1]
  BY ConsumeTakes
<1>2. loaded' = IF out[s][1].type = "RECORD" THEN loaded \cup {out[s][1].lsn} ELSE loaded
  BY ConsumeTakes
<1>3. ASSUME NEW i \in 0..Len(out'[s]), NEW l
      PROVE  l \in Pending(s, i + 1) <=>
                \/ l \in Pending(s, i)'
                \/ out[s][1].type = "RECORD" /\ l = out[s][1].lsn
  <2>1. ASSUME l \in Pending(s, i)' PROVE l \in Pending(s, i + 1)
    <3>1. PICK k \in 1..i : out'[s][k].type = "RECORD" /\ l = out'[s][k].lsn
      BY <2>1 DEF Pending
    <3>2. k + 1 \in 1..(i + 1) /\ out'[s][k] = out[s][k + 1]
      BY <1>1
    <3>3. QED
      BY <3>1, <3>2 DEF Pending
  <2>2. ASSUME out[s][1].type = "RECORD", l = out[s][1].lsn PROVE l \in Pending(s, i + 1)
    <3>1. 1 \in 1..(i + 1)
      BY <1>1
    <3>2. QED
      BY <2>2, <3>1 DEF Pending
  <2>3. ASSUME l \in Pending(s, i + 1), ~(out[s][1].type = "RECORD" /\ l = out[s][1].lsn)
        PROVE  l \in Pending(s, i)'
    <3>1. PICK k \in 1..(i + 1) : out[s][k].type = "RECORD" /\ l = out[s][k].lsn
      BY <2>3 DEF Pending
    <3>2. k # 1
      BY <2>3, <3>1
    <3>3. PICK h \in 1..i : k = h + 1
      <4>1. k - 1 \in 1..i /\ k = (k - 1) + 1
        BY <1>1, <3>2
      <4>2. QED
        BY <4>1
    <3>4. out'[s][h] = out[s][k]
      BY <1>1, <3>3
    <3>5. out'[s][h].type = "RECORD" /\ l = out'[s][h].lsn
      BY <3>1, <3>4
    <3>6. QED
      BY <3>5 DEF Pending
  <2>4. QED
    BY <2>1, <2>2, <2>3
<1>4. \A i \in 0..Len(out'[s]) : loaded \cup Pending(s, i + 1) = loaded' \cup Pending(s, i)'
  <2>1. ASSUME NEW i \in 0..Len(out'[s]), NEW l
        PROVE  l \in loaded \cup Pending(s, i + 1) <=> l \in loaded' \cup Pending(s, i)'
    <3>1. l \in loaded' <=> \/ l \in loaded
                            \/ out[s][1].type = "RECORD" /\ l = out[s][1].lsn
      BY <1>2
    <3>2. QED
      BY <1>3, <3>1
  <2>2. ASSUME NEW i \in 0..Len(out'[s])
        PROVE  loaded \cup Pending(s, i + 1) = loaded' \cup Pending(s, i)'
    BY <2>1
  <2>3. QED
    BY <2>2
<1>5. Sent(s) = Pending(s, Len(out'[s]) + 1) /\ Len(out'[s]) \in 0..Len(out'[s])
  BY <1>1 DEF Sent
<1>6. \A i : i = Len(out'[s]) => Sent(s)' = Pending(s, i)'
  BY DEF Sent, Pending
<1>7. QED
  BY <1>4, <1>5, <1>6

\* The log stays as it is or grows at its end.
LogGrows == \/ UNCHANGED wal
            \/ \E t \in Txns, x \in Streams \cup {Commit} : Write(t, x)

\* Messages that are added to the pipe keep its invariant when a new STATE
\* covers what is before it.
LEMMA PipeExtends ==
    ASSUME BaseInv, BaseInv', PipeInv, LogGrows, loaded \subseteq loaded',
           \A s \in Streams : /\ Len(out[s]) <= Len(out'[s])
                              /\ \A i \in 1..Len(out[s]) : out'[s][i] = out[s][i],
           \A s \in Streams : \A i \in 1..Len(out'[s]) :
              \/ i <= Len(out[s])
              \/ out'[s][i].type = "RECORD"
              \/ i = Len(out'[s]) /\ CoversThen(loaded' \cup Sent(s)', out'[s][i].lsn, s)
    PROVE  PipeInv'
<1> SUFFICES ASSUME NEW s \in Streams, NEW i \in 1..Len(out'[s]), out'[s][i].type = "STATE"
             PROVE  CoversThen(loaded' \cup Pending(s, i)', out'[s][i].lsn, s)
  BY DEF PipeInv, CoversThen, Covers
<1>0. out[s] \in Seq(Message) /\ Len(out[s]) \in Nat /\ Len(out'[s]) \in Nat
  BY LenProperties DEF BaseInv, TypeOK
<1>1. CASE i <= Len(out[s])
  <2>1. i \in 1..Len(out[s]) /\ out'[s][i] = out[s][i] /\ out[s][i] \in Message
    BY <1>0, <1>1, ElementOfSeq
  <2>2. Pending(s, i)' = Pending(s, i)
    BY <1>0, <2>1, PendingKept
  <2>3. Covers(loaded \cup Pending(s, i), out[s][i].lsn, s)
    BY <2>1 DEF PipeInv
  <2>4. out[s][i].lsn \in Nat /\ out[s][i].lsn <= out[s][i].lsn
    BY <2>1 DEF Message
  <2>5. CoversThen(loaded' \cup Pending(s, i), out[s][i].lsn, s)
    BY <2>3, <2>4, CoversKept DEF BaseInv, LogGrows
  <2>6. QED
    BY <2>1, <2>2, <2>5
<1>2. CASE i = Len(out'[s]) /\ CoversThen(loaded' \cup Sent(s)', out'[s][i].lsn, s)
  <2>1. Sent(s)' = Pending(s, i)'
    BY <1>2 DEF Sent, Pending
  <2>2. QED
    BY <1>2, <2>1
<1>3. QED
  BY <1>1, <1>2

\* Positions that do not move, or move back to a covered one, stay covered.
LEMMA FilesKept ==
    ASSUME BaseInv, BaseInv', FilesInv, LogGrows, loaded \subseteq loaded',
           state_file' = state_file,
           slot' = slot \/ \A s \in Streams : Covers(loaded, slot', s),
           lsn_comitted' \in {lsn_comitted, 0} \/ \A s \in Streams : Covers(loaded, lsn_comitted', s)
    PROVE  FilesInv'
<1> SUFFICES ASSUME NEW s \in Streams
             PROVE  /\ CoversThen(loaded', slot', s)
                    /\ CoversThen(loaded', lsn_comitted', s)
                    /\ CoversThen(loaded', state_file'[s], s)
  BY DEF FilesInv, CoversThen, Covers
<1> USE DEF BaseInv
<1>0. /\ slot \in Nat /\ lsn_comitted \in Nat /\ state_file[s] \in Nat
      /\ slot' \in Nat /\ lsn_comitted' \in Nat
  BY DEF TypeOK, Bookmarks
<1>1. Covers(loaded, slot, s) /\ Covers(loaded, lsn_comitted, s) /\ Covers(loaded, state_file[s], s)
  BY DEF FilesInv
<1>2. CoversThen(loaded', slot', s)
  BY <1>0, <1>1, CoversKept DEF LogGrows
<1>3. CoversThen(loaded', lsn_comitted', s)
  BY <1>0, <1>1, CoversKept DEF LogGrows
<1>4. CoversThen(loaded', state_file'[s], s)
  BY <1>0, <1>1, CoversKept DEF LogGrows
<1>5. QED
  BY <1>2, <1>3, <1>4

LEMMA WriteKeeps ==
    ASSUME IInv, BaseInv', NEW t \in Txns, NEW x \in Streams \cup {Commit}, Write(t, x)
    PROVE  SafeInv'
<1> USE DEF IInv, SafeInv, BaseInv
<1>0. LogGrows /\ UNCHANGED <<slot, tap, out, state_file, loaded>>
  BY DEF LogGrows, Write, sink
<1>1. FilesInv'
  BY <1>0, FilesKept DEF tap
<1>2. PipeInv'
  BY <1>0, Typing, PipeExtends
<1>3. RunInv'
  <2>1. UNCHANGED <<cursor, lsn_currently_processing, lsn_last_processed, running, state>>
    BY <1>0 DEF tap
  <2>2. /\ Len(wal') = Len(wal) + 1 /\ Len(wal) \in Nat
        /\ \A l \in 1..Len(wal) : wal'[l] = wal[l]
        /\ \A l \in Committed : l \in 1..Len(wal) /\ l \in Committed' /\ CommitLsn(l)' = CommitLsn(l)
        /\ \A l \in Committed' \ Committed : CommitLsn(l)' = Len(wal) + 1
    <3>1. \A l \in Committed : l \in 1..Len(wal)
      BY CommitLsnIsTheCommit
    <3>2. QED
      BY <3>1, WriteAppends, Typing
  <2>3. cursor[1] \in Nat /\ cursor[2] \in Nat
    BY Typing
  <2>4. cursor'[1] <= Len(wal')
    BY <2>1, <2>2, <2>3 DEF RunInv
  <2>5. ASSUME running, NEW s \in Streams
        PROVE  CoversThen(loaded' \cup Sent(s)', state'[s], s)
    <3>1. Covers(loaded \cup Sent(s), state[s], s)
      BY <2>5 DEF RunInv
    <3>2. state[s] \in Nat /\ state[s] <= state[s]
      BY Typing
    <3>3. Sent(s)' = Sent(s)
      BY <1>0 DEF Sent, Pending
    <3>4. QED
      BY <1>0, <2>1, <3>1, <3>2, <3>3, CoversKept DEF LogGrows
  <2>6. ASSUME running, NEW l \in Committed'
        PROVE  l \in loaded' \/ l \in ToSend' \/ l \in Sent(wal[l].stream)'
    <3>1. CASE l \in Committed
      <4>1. Sent(wal[l].stream)' = Sent(wal[l].stream)
        BY <1>0, <2>2, <3>1 DEF Sent, Pending
      <4>2. l \in ToSend => l \in ToSend'
        BY <2>1, <2>2, <3>1 DEF ToSend
      <4>3. QED
        BY <1>0, <2>6, <3>1, <4>1, <4>2 DEF RunInv
    <3>2. CASE l \notin Committed
      <4>1. CommitLsn(l)' > cursor'[1]
        BY <2>1, <2>2, <2>3, <3>2 DEF RunInv
      <4>2. QED
        BY <4>1 DEF ToSend
    <3>3. QED
      BY <3>1, <3>2
  <2>7. QED
    BY <2>1, <2>4, <2>5, <2>6 DEF RunInv, CoversThen, Covers
<1>4. QED
  BY <1>1, <1>2, <1>3

\* The walsender sends a change after every change committed before it: what
\* it left behind is in the warehouse or in the pipe.
LEMMA LeftBehind ==
    ASSUME IInv, running, NEW n \in Nat, n <= cursor[1], NEW s \in Streams
    PROVE  Covers(loaded \cup Sent(s), n, s)
<1> USE DEF IInv, SafeInv, BaseInv
<1>1. n <= Len(wal)
  BY Typing DEF RunInv
<1>2. ASSUME NEW l \in Committed, wal[l].stream = s, CommitLsn(l) < n
      PROVE  l \in loaded \cup Sent(s)
  <2>1. CommitLsn(l) \in Nat
    BY CommitLsnIsTheCommit
  <2>2. l \notin ToSend
    BY <1>2, <2>1, Typing DEF ToSend
  <2>3. QED
    BY <1>2, <2>2 DEF RunInv
<1>3. QED
  BY <1>1, <1>2 DEF Covers

LEMMA ReadKeeps ==
    ASSUME IInv, BaseInv', NEW l \in Lsn, l <= Len(wal), ReadMessage(l)
    PROVE  SafeInv'
<1> USE DEF IInv, SafeInv, BaseInv
<1>0. /\ UNCHANGED wal /\ LogGrows /\ loaded' = loaded /\ state_file' = state_file
      /\ running /\ running' = running /\ lsn_comitted' = lsn_comitted
      /\ cursor' = <<CommitLsn(l), l>>
      /\ IsNext(l)
  BY DEF ReadMessage, LogGrows, source, sink
<1>1. /\ Committed' = Committed /\ \A m : CommitLsn(m)' = CommitLsn(m)
      /\ \A m \in Committed : CommitLsn(m) \in Nat /\ m \in Nat
      /\ l \in Committed /\ l < CommitLsn(l) /\ CommitLsn(l) <= Len(wal)
      /\ wal[l].stream \in Streams /\ l \in Nat
      /\ l \in ToSend /\ \A m \in ToSend \ {l} : Before(l, m)
  <2>1. l \in Committed
    BY <1>0 DEF IsNext, ToSend
  <2>2. CommitLsn(l) \in 1..Len(wal) /\ l \in 1..Len(wal) /\ l < CommitLsn(l) /\ wal[l].stream \in Streams
    BY <2>1, CommitLsnIsTheCommit
  <2>3. \A m \in Committed : CommitLsn(m) \in Nat /\ m \in Nat
    BY CommitLsnIsTheCommit
  <2>4. QED
    BY <1>0, <2>1, <2>2, <2>3, SameLog, Typing DEF IsNext
<1>2. /\ \A s \in Streams : /\ Len(out'[s]) \in Nat /\ Len(out[s]) <= Len(out'[s])
                            /\ \A i \in 1..Len(out[s]) : out'[s][i] = out[s][i]
                            /\ Sent(s) \subseteq Sent(s)'
      /\ l \in Sent(wal[l].stream)'
  <2>1. \A s \in Streams : /\ Len(out'[s]) \in Nat /\ Len(out[s]) <= Len(out'[s])
                           /\ \A i \in 1..Len(out[s]) : out'[s][i] = out[s][i]
    BY ReadAppends
  <2>2. \A s \in Streams : Sent(s) \subseteq Sent(s)'
    BY <2>1, Typing, PendingKept
  <2>3. l \in Sent(wal[l].stream)'
    <3>1. PICK str \in Streams : str = wal[l].stream
      BY <1>1
    <3>2. PICK k : k = Len(out[str]) + 1
      OBVIOUS
    <3>3. out'[str][k] = RecordMessage(l) /\ Len(out[str]) < Len(out'[str])
      BY <3>1, <3>2, ReadAppends
    <3>4. k \in 1..Len(out'[str])
      BY <2>1, <3>2, <3>3, Typing
    <3>5. out'[str][k].type = "RECORD" /\ out'[str][k].lsn = l
      BY <3>3 DEF RecordMessage
    <3>6. wal'[l].stream = str
      BY <1>0, <3>1
    <3>7. QED
      BY <3>4, <3>5, <3>6 DEF Sent, Pending
  <2>4. QED
    BY <2>1, <2>2, <2>3
<1>3. /\ cursor[1] \in Nat /\ cursor'[1] \in Nat /\ cursor[1] <= cursor'[1] /\ cursor'[1] <= Len(wal')
      /\ l < cursor'[1]
  BY <1>0, <1>1, Typing DEF ToSend
<1>4. ASSUME NEW n \in Nat, n <= cursor'[1], NEW s \in Streams
      PROVE  CoversThen(loaded' \cup Sent(s)', n, s)
  <2>1. n <= Len(wal')
    BY <1>3, <1>4, Typing
  <2>2. ASSUME NEW m \in Committed', wal'[m].stream = s, CommitLsn(m)' < n
        PROVE  m \in loaded' \cup Sent(s)'
    <3>1. m \in Committed /\ wal[m].stream = s /\ CommitLsn(m) < CommitLsn(l)
      BY <1>0, <1>1, <1>4, <2>2
    <3>2. m \notin ToSend
      BY <1>1, <3>1 DEF Before
    <3>3. m \in loaded \/ m \in Sent(s)
      BY <1>0, <3>1, <3>2 DEF RunInv
    <3>4. QED
      BY <1>0, <1>2, <3>3
  <2>3. QED
    BY <2>1, <2>2 DEF CoversThen
<1>5. ASSUME NEW s \in Streams
      PROVE  CoversThen(loaded' \cup Sent(s)', state'[s], s)
  <2> DEFINE moved == lsn_currently_processing # 0 /\ l > lsn_currently_processing
             full == moved /\ PeriodFull(lsn_processed_count + 1)
  <2>1. state' = IF full THEN [u \in Streams |-> PeriodLsn(lsn_currently_processing)]
                 ELSE [state EXCEPT ![wal[l].stream] = l]
    BY DEF ReadMessage
  <2> HIDE DEF full
  <2>2. CASE state'[s] = lsn_currently_processing
    BY <1>3, <1>4, <2>2, Typing DEF RunInv
  <2>3. CASE state'[s] = l
    BY <1>1, <1>3, <1>4, <2>3
  <2>4. CASE state'[s] = state[s]
    <3>0. state[s] \in Nat /\ state[s] <= state[s]
      BY Typing
    <3>1. Covers(loaded \cup Sent(s), state[s], s)
      BY <1>0 DEF RunInv
    <3>2. loaded \cup Sent(s) \subseteq loaded' \cup Sent(s)'
      BY <1>0, <1>2
    <3>3. CoversThen(loaded' \cup Sent(s)', state[s], s)
      BY <1>0, <3>0, <3>1, <3>2, CoversKept
    <3>4. QED
      BY <2>4, <3>3
  <2>5. QED
    BY <2>1, <2>2, <2>3, <2>4 DEF TypeOK, Bookmarks, PeriodLsn
<1>6. PipeInv'
  <2>1. ASSUME NEW s \in Streams, NEW i \in 1..Len(out'[s])
        PROVE  \/ i <= Len(out[s])
               \/ out'[s][i].type = "RECORD"
               \/ i = Len(out'[s]) /\ CoversThen(loaded' \cup Sent(s)', out'[s][i].lsn, s)
    <3>1. \/ i <= Len(out[s])
          \/ out'[s][i] = RecordMessage(l)
          \/ i = Len(out'[s]) /\ out'[s][i] = StateMessage(state'[s])
      BY ReadAppends
    <3>2. RecordMessage(l).type = "RECORD" /\ StateMessage(state'[s]).lsn = state'[s]
      BY DEF RecordMessage, StateMessage
    <3>3. QED
      BY <1>5, <3>1, <3>2
  <2>2. QED
    BY <1>0, <1>2, <2>1, PipeExtends
<1>7. FilesInv'
  <2>1. slot' = slot \/ \A s \in Streams : Covers(loaded, slot', s)
    <3>1. CASE slot' = Larger(slot, FirstFlush(l))
      <4>1. FirstFlush(l) <= lsn_comitted /\ FirstFlush(l) \in Nat
        BY <1>1, Typing DEF FirstFlush
      <4>2. \A s \in Streams : Covers(loaded, FirstFlush(l), s)
        <5>1. \A s \in Streams : Covers(loaded, lsn_comitted, s)
          BY DEF FilesInv
        <5>2. QED
          BY <1>1, <4>1, <5>1, Typing DEF Covers
      <4>3. QED
        BY <3>1, <4>2 DEF Larger
    <3>2. CASE slot' = slot
      BY <3>2
    <3>3. QED
      BY <3>1, <3>2 DEF ReadMessage, Feedback
  <2>2. QED
    BY <1>0, <2>1, FilesKept
<1>8. RunInv'
  <2>1. /\ lsn_currently_processing' <= cursor'[1]
        /\ lsn_last_processed' <= cursor'[1]
    <3>1. /\ lsn_currently_processing <= cursor'[1] /\ lsn_last_processed <= cursor'[1]
      BY <1>3, Typing DEF RunInv
    <3>2. /\ lsn_currently_processing' \in {l, lsn_currently_processing}
          /\ lsn_last_processed' \in {lsn_currently_processing, lsn_last_processed}
      BY DEF ReadMessage
    <3>3. QED
      BY <1>1, <1>3, <3>1, <3>2
  <2>2. ASSUME NEW m \in Committed'
        PROVE  m \in loaded' \/ m \in ToSend' \/ m \in Sent(wal[m].stream)'
    <3>1. m \in Committed /\ wal[m].stream \in Streams
      BY <1>1, CommitLsnIsTheCommit
    <3>2. CASE m = l
      BY <1>2, <3>2
    <3>3. CASE m \in ToSend /\ m # l
      <4>1. Before(l, m)
        BY <1>1, <3>3
      <4>2. \/ CommitLsn(m)' > cursor'[1]
            \/ CommitLsn(m)' = cursor'[1] /\ m > cursor'[2]
        BY <1>0, <1>1, <3>1, <4>1 DEF Before
      <4>3. QED
        BY <2>2, <4>2 DEF ToSend
    <3>4. CASE m \in loaded
      BY <1>0, <3>4
    <3>5. CASE m \in Sent(wal[m].stream)
      <4>1. \A s : s = wal[m].stream => Sent(wal[m].stream)' = Sent(s)'
        BY <1>0 DEF Sent, Pending
      <4>2. QED
        BY <1>2, <3>1, <3>5, <4>1
    <3>6. QED
      BY <1>0, <3>1, <3>2, <3>3, <3>4, <3>5 DEF RunInv
  <2>3. QED
    BY <1>3, <1>5, <2>1, <2>2 DEF RunInv, CoversThen, Covers
<1>9. QED
  BY <1>6, <1>7, <1>8

\* The least advanced saved bookmark is safe for every stream.
LEMMA LeastIsSafe ==
    ASSUME TypeOK, FilesInv, WalInv, NEW s \in Streams
    PROVE  Covers(loaded, MinLsn(state_file), s) /\ MinLsn(state_file) \in Nat
<1>1. MinLsn(state_file) \in Nat /\ MinLsn(state_file) <= state_file[s]
  BY MinLsnIsLeast DEF TypeOK
<1>2. Covers(loaded, state_file[s], s)
  BY DEF FilesInv
<1>3. \A l \in Committed : CommitLsn(l) \in Nat
  BY CommitLsnIsTheCommit
<1>4. QED
  BY <1>1, <1>2, <1>3, Typing DEF Covers

\* A step that touches neither the log, the pipe nor the sink keeps the
\* invariant of the pipe.
LEMMA PipeAlone ==
    ASSUME IInv, BaseInv', UNCHANGED <<wal, out, loaded>>
    PROVE  PipeInv' /\ \A s \in Streams : Sent(s)' = Sent(s)
<1>1. PipeInv'
  BY Typing, PipeExtends DEF LogGrows, IInv, SafeInv, BaseInv
<1>2. QED
  BY <1>1 DEF Sent, Pending

LEMMA StartKeeps ==
    ASSUME IInv, BaseInv', Start
    PROVE  SafeInv'
<1> USE DEF IInv, SafeInv, BaseInv
<1>0. /\ UNCHANGED <<wal, slot, out, loaded, state_file>> /\ LogGrows
      /\ state' = state_file /\ lsn_comitted' = MinLsn(state_file)
      /\ cursor' = <<Larger(MinLsn(state_file), slot), 0>>
      /\ lsn_currently_processing' = 0 /\ lsn_last_processed' = 0
  BY DEF Start, StartLsn, source, sink, LogGrows
<1>1. Committed' = Committed /\ \A l : CommitLsn(l)' = CommitLsn(l)
  BY <1>0, SameLog
<1>2. FilesInv'
  BY <1>0, LeastIsSafe, FilesKept
<1>3. PipeInv' /\ \A s \in Streams : Sent(s)' = Sent(s)
  BY <1>0, PipeAlone
<1>4. RunInv'
  <2>1. \A s \in Streams : Covers(loaded, cursor'[1], s)
    BY <1>0, LeastIsSafe DEF FilesInv, Larger
  <2>2. cursor'[1] <= Len(wal') /\ cursor'[1] \in Nat
    <3>1. PICK s : s \in Streams
      BY StreamsAssumption
    <3>2. QED
      BY <1>0, <2>1, <3>1, LeastIsSafe, Typing DEF Covers, Larger
  <2>3. ASSUME NEW s \in Streams
        PROVE  CoversThen(loaded' \cup Sent(s)', state'[s], s)
    <3>1. Covers(loaded, state_file[s], s) /\ loaded \subseteq loaded' \cup Sent(s)'
      BY <1>0 DEF FilesInv
    <3>2. state_file[s] \in Nat /\ state_file[s] <= state_file[s]
      BY Typing
    <3>3. QED
      BY <1>0, <3>1, <3>2, CoversKept
  <2>4. ASSUME NEW l \in Committed'
        PROVE  l \in loaded' \/ l \in ToSend'
    <3>1. /\ l \in Committed /\ wal[l].stream \in Streams /\ CommitLsn(l) \in Nat
          /\ l > 0
      <4>1. l \in Committed
        BY <1>1
      <4>2. l \in 1..Len(wal)
        BY <4>1, CommitLsnIsTheCommit
      <4>3. QED
        BY <4>1, <4>2, CommitLsnIsTheCommit
    <3>2. CASE CommitLsn(l) < cursor'[1]
      BY <1>0, <2>1, <3>1, <3>2 DEF Covers
    <3>3. CASE ~(CommitLsn(l) < cursor'[1])
      <4>1. \/ CommitLsn(l)' > cursor'[1]
            \/ CommitLsn(l)' = cursor'[1] /\ l > cursor'[2]
        BY <1>0, <1>1, <2>2, <3>1, <3>3
      <4>2. QED
        BY <2>4, <4>1 DEF ToSend
    <3>4. QED
      BY <3>2, <3>3
  <2>5. QED
    BY <1>0, <2>2, <2>3, <2>4 DEF RunInv, CoversThen, Covers
<1>5. QED
  BY <1>2, <1>3, <1>4

LEMMA PollKeeps ==
    ASSUME IInv, BaseInv', ~TornReads, PollStateFile
    PROVE  SafeInv'
<1> USE DEF IInv, SafeInv, BaseInv
<1>0. /\ UNCHANGED <<wal, running, cursor, state, lsn_last_processed,
                     lsn_currently_processing, out, loaded, state_file>>
      /\ LogGrows
      /\ lsn_comitted' = MinLsn(state_file)
      /\ slot' \in {slot, Larger(slot, lsn_comitted')}
  <2>1. lsn_comitted' = MinLsn(state_file)
    BY DEF PollStateFile, Committing, SavedLsn
  <2>2. slot' \in {slot, Larger(slot, lsn_comitted')}
    BY DEF PollStateFile, Feedback
  <2>3. QED
    BY <2>1, <2>2 DEF PollStateFile, source, sink, LogGrows
<1>1. Committed' = Committed /\ \A l : CommitLsn(l)' = CommitLsn(l)
  BY <1>0, SameLog
<1>2. FilesInv'
  <2>1. slot' = slot \/ \A s \in Streams : Covers(loaded, slot', s)
    BY <1>0, LeastIsSafe DEF Larger
  <2>2. QED
    BY <1>0, <2>1, LeastIsSafe, FilesKept
<1>3. PipeInv' /\ \A s \in Streams : Sent(s)' = Sent(s)
  BY <1>0, PipeAlone
<1>4. RunInv'
  <2>1. ToSend' = ToSend
    BY <1>0, <1>1 DEF ToSend
  <2>2. \A l \in Committed : wal[l].stream \in Streams
    BY CommitLsnIsTheCommit
  <2>3. \A l \in Committed : Sent(wal[l].stream)' = Sent(wal[l].stream)
    BY <1>0 DEF Sent, Pending
  <2>4. QED
    BY <1>0, <1>1, <1>3, <2>1, <2>3 DEF RunInv, Covers
<1>5. QED
  BY <1>2, <1>3, <1>4

\* A process that is gone leaves the files as they are and has no run.
LEMMA ExitKeeps ==
    ASSUME IInv, BaseInv', Exit, UNCHANGED <<wal, slot, loaded, state_file>>
    PROVE  FilesInv' /\ RunInv'
<1>1. FilesInv'
  BY FilesKept DEF LogGrows, Exit, IInv, SafeInv, BaseInv
<1>2. RunInv'
  BY Typing DEF RunInv, Exit, IInv, SafeInv, BaseInv
<1>3. QED
  BY <1>1, <1>2

LEMMA FinishKeeps ==
    ASSUME IInv, BaseInv', Finish
    PROVE  SafeInv'
<1> USE DEF IInv, SafeInv, BaseInv
<1>0. /\ UNCHANGED <<wal, slot, loaded, state_file>> /\ Exit /\ LogGrows /\ running
      /\ out' = WithState(out, ClosingState)
  BY DEF Finish, source, sink, LogGrows
<1>1. FilesInv' /\ RunInv'
  BY <1>0, ExitKeeps
<1>2. ClosingState \in Bookmarks /\ \A s \in Streams : Covers(loaded \cup Sent(s), ClosingState[s], s)
  <2>1. CASE lsn_last_processed = 0
    BY <1>0, <2>1 DEF ClosingState, RunInv, TypeOK
  <2>2. CASE lsn_last_processed # 0
    <3>1. ClosingState = [s \in Streams |-> Larger(lsn_comitted, lsn_last_processed)]
      BY <2>2 DEF ClosingState
    <3>2. ASSUME NEW s \in Streams
          PROVE  Covers(loaded \cup Sent(s), lsn_comitted, s)
      BY DEF FilesInv, Covers
    <3>3. ASSUME NEW s \in Streams
          PROVE  Covers(loaded \cup Sent(s), lsn_last_processed, s)
      BY <1>0, LeftBehind, Typing DEF RunInv
    <3>4. Larger(lsn_comitted, lsn_last_processed) \in {lsn_comitted, lsn_last_processed}
      BY DEF Larger
    <3>5. Larger(lsn_comitted, lsn_last_processed) \in Nat
      BY <3>4, Typing
    <3>6. QED
      BY <3>1, <3>2, <3>3, <3>4, <3>5 DEF Bookmarks
  <2>3. QED
    BY <2>1, <2>2
<1>3. \A s \in Streams :
         /\ Len(out[s]) \in Nat /\ Len(out'[s]) = Len(out[s]) + 1
         /\ \A i \in 1..Len(out[s]) : out'[s][i] = out[s][i]
         /\ out'[s][Len(out[s]) + 1] = StateMessage(ClosingState[s])
  <2>1. out \in [Streams -> Seq(Message)]
    BY DEF TypeOK
  <2>2. \A s \in Streams :
           /\ Len(out'[s]) = Len(out[s]) + 1
           /\ \A i \in 1..Len(out[s]) : out'[s][i] = out[s][i]
           /\ out'[s][Len(out[s]) + 1] = StateMessage(ClosingState[s])
    BY <1>0, <1>2, <2>1, WithStateAppends, Zenon
  <2>3. QED
    BY <2>2, Typing
<1>4. ASSUME NEW s \in Streams
      PROVE  CoversThen(loaded' \cup Sent(s)', ClosingState[s], s)
  <2>1. Sent(s) \subseteq Sent(s)'
    BY <1>3, PendingKept
  <2>2. ClosingState[s] \in Nat /\ ClosingState[s] <= ClosingState[s]
    BY <1>2 DEF Bookmarks
  <2>3. loaded \cup Sent(s) \subseteq loaded' \cup Sent(s)'
    BY <1>0, <2>1
  <2>4. QED
    BY <1>0, <1>2, <2>2, <2>3, CoversKept
<1>5. PipeInv'
  <2>1. ASSUME NEW s \in Streams, NEW i \in 1..Len(out'[s])
        PROVE  \/ i <= Len(out[s])
               \/ i = Len(out'[s]) /\ CoversThen(loaded' \cup Sent(s)', out'[s][i].lsn, s)
    <3>1. i <= Len(out[s]) \/ i = Len(out[s]) + 1
      BY <1>3
    <3>2. StateMessage(ClosingState[s]).lsn = ClosingState[s]
      BY DEF StateMessage
    <3>3. QED
      BY <1>3, <1>4, <3>1, <3>2
  <2>2. \A s \in Streams : Len(out[s]) <= Len(out'[s])
    BY <1>3
  <2>3. QED
    BY <1>0, <1>3, <2>1, <2>2, PipeExtends
<1>6. QED
  BY <1>1, <1>5

LEMMA ConsumeKeeps ==
    ASSUME IInv, BaseInv', NEW s \in Streams, Consume(s)
    PROVE  SafeInv'
<1> USE DEF IInv, SafeInv, BaseInv
<1>0. /\ UNCHANGED <<wal, slot, running, cursor, state, lsn_comitted,
                     lsn_last_processed, lsn_currently_processing>>
      /\ LogGrows
  BY DEF Consume, source, tap, LogGrows
<1>1. Committed' = Committed /\ \A l : CommitLsn(l)' = CommitLsn(l)
  BY <1>0, SameLog
<1>2. /\ loaded \subseteq loaded'
      /\ \A u \in Streams \ {s} : out'[u] = out[u]
      /\ Len(out[s]) \in Nat /\ Len(out'[s]) \in Nat /\ Len(out[s]) = Len(out'[s]) + 1
      /\ \A i \in 1..Len(out'[s]) : out'[s][i] = out[s][i + 1]
  BY ConsumeTakes
<1>3. \A u \in Streams : loaded \cup Sent(u) \subseteq loaded' \cup Sent(u)'
  <2>1. \A u \in Streams \ {s} : Sent(u)' = Sent(u)
    BY <1>2 DEF Sent, Pending
  <2>2. loaded \cup Sent(s) = loaded' \cup Sent(s)'
    BY PendingTaken
  <2>3. QED
    BY <1>2, <2>1, <2>2
<1>4. FilesInv'
  <2> SUFFICES ASSUME NEW u \in Streams
               PROVE  /\ CoversThen(loaded', slot, u)
                      /\ CoversThen(loaded', lsn_comitted, u)
                      /\ CoversThen(loaded', state_file'[u], u)
    BY <1>0 DEF FilesInv, CoversThen, Covers
  <2>1. /\ Covers(loaded, slot, u) /\ Covers(loaded, lsn_comitted, u) /\ Covers(loaded, state_file[u], u)
    BY DEF FilesInv
  <2>2. \A n \in Nat : n <= n
    OBVIOUS
  <2>3. CoversThen(loaded', slot, u) /\ CoversThen(loaded', lsn_comitted, u)
        /\ CoversThen(loaded', state_file[u], u)
    BY <1>0, <1>2, <2>1, <2>2, Typing, CoversKept
  <2>4. CASE state_file'[u] = state_file[u]
    BY <2>3, <2>4
  <2>5. CASE /\ u = s /\ out[s][1].type = "STATE" /\ loaded' = loaded
             /\ state_file'[u] = out[s][1].lsn
    <3>1. 1 \in 1..Len(out[s])
      BY <1>2
    <3>2. Covers(loaded \cup Pending(s, 1), out[s][1].lsn, s)
      BY <2>5, <3>1 DEF PipeInv
    <3>3. Pending(s, 1) = {}
      <4>1. {k \in 1..1 : out[s][k].type = "RECORD"} = {}
        BY <2>5
      <4>2. QED
        BY <4>1 DEF Pending
    <3>4. out[s][1].lsn \in Nat
      BY ConsumeTakes DEF Message
    <3>5. Covers(loaded, out[s][1].lsn, s)
      BY <3>2, <3>3
    <3>6. CoversThen(loaded', out[s][1].lsn, s)
      BY <1>0, <1>2, <2>2, <3>4, <3>5, CoversKept
    <3>7. QED
      BY <2>3, <2>5, <3>6
  <2>6. QED
    <3>1. \/ state_file' = state_file
          \/ /\ out[s][1].type = "STATE" /\ loaded' = loaded
             /\ state_file' = [state_file EXCEPT ![s] = out[s][1].lsn]
      BY ConsumeTakes
    <3>2. state_file \in [Streams -> Nat]
      BY DEF TypeOK, Bookmarks
    <3>3. QED
      BY <2>3, <2>4, <2>5, <3>1, <3>2
<1>5. PipeInv'
  <2> SUFFICES ASSUME NEW u \in Streams, NEW i \in 1..Len(out'[u]), out'[u][i].type = "STATE"
               PROVE  CoversThen(loaded' \cup Pending(u, i)', out'[u][i].lsn, u)
    BY DEF PipeInv, CoversThen, Covers
  <2>0. out'[u][i].lsn \in Nat /\ out'[u][i].lsn <= out'[u][i].lsn
    <3>1. out'[u] \in Seq(Message)
      BY DEF TypeOK
    <3>2. out'[u][i] \in Message
      BY <3>1, ElementOfSeq
    <3>3. QED
      BY <3>2 DEF Message
  <2>1. CASE u = s
    <3>1. i + 1 \in 1..Len(out[s]) /\ out'[s][i] = out[s][i + 1]
      BY <1>2, <2>1
    <3>2. Covers(loaded \cup Pending(s, i + 1), out'[s][i].lsn, s)
      BY <2>1, <3>1 DEF PipeInv
    <3>3. loaded \cup Pending(s, i + 1) = loaded' \cup Pending(s, i)'
      BY <2>1, PendingTaken
    <3>4. QED
      BY <1>0, <2>0, <2>1, <3>2, <3>3, CoversKept
  <2>2. CASE u # s
    <3>1. out'[u] = out[u] /\ Pending(u, i)' = Pending(u, i)
      BY <1>2, <2>2 DEF Pending
    <3>2. Covers(loaded \cup Pending(u, i), out'[u][i].lsn, u)
      BY <3>1 DEF PipeInv
    <3>3. loaded \cup Pending(u, i) \subseteq loaded' \cup Pending(u, i)'
      BY <1>2, <3>1
    <3>4. QED
      BY <1>0, <2>0, <3>2, <3>3, CoversKept
  <2>3. QED
    BY <2>1, <2>2
<1>6. RunInv'
  <2>1. ToSend' = ToSend
    BY <1>0, <1>1 DEF ToSend
  <2>2. ASSUME running, NEW u \in Streams
        PROVE  CoversThen(loaded' \cup Sent(u)', state'[u], u)
    <3>1. Covers(loaded \cup Sent(u), state[u], u)
      BY <2>2 DEF RunInv
    <3>2. state[u] \in Nat /\ state[u] <= state[u]
      BY Typing
    <3>3. QED
      BY <1>0, <1>3, <3>1, <3>2, CoversKept
  <2>3. ASSUME running, NEW l \in Committed
        PROVE  l \in loaded' \/ l \in ToSend' \/ l \in Sent(wal[l].stream)'
    <3>1. wal[l].stream \in Streams
      BY CommitLsnIsTheCommit
    <3>2. \A u : u = wal[l].stream => Sent(wal[l].stream)' = Sent(u)'
      BY <1>0 DEF Sent, Pending
    <3>3. l \in loaded \/ l \in ToSend \/ l \in Sent(wal[l].stream)
      BY <2>3 DEF RunInv
    <3>4. QED
      BY <1>3, <2>1, <3>1, <3>2, <3>3
  <2>4. QED
    BY <1>0, <1>1, <2>2, <2>3 DEF RunInv, CoversThen, Covers
<1>7. QED
  BY <1>4, <1>5, <1>6

\* Every step keeps the invariant, as long as the state file is read whole.
LEMMA SafeStep == ~TornReads /\ IInv /\ [Next]_vars => IInv'
<1> SUFFICES ASSUME ~TornReads, IInv, [Next]_vars PROVE SafeInv'
  BY BaseStep DEF IInv
<1>0. BaseInv'
  BY BaseStep DEF IInv
<1>1. ASSUME NEW t \in Txns, NEW x \in Streams \cup {Commit}, Write(t, x) PROVE SafeInv'
  BY <1>0, <1>1, WriteKeeps
<1>2. ASSUME NEW l \in Lsn, l <= Len(wal), ReadMessage(l) PROVE SafeInv'
  BY <1>0, <1>2, ReadKeeps
<1>3. CASE Start
  BY <1>0, <1>3, StartKeeps
<1>4. CASE PollStateFile
  BY <1>0, <1>4, PollKeeps
<1>5. CASE Finish
  BY <1>0, <1>5, FinishKeeps
<1>6. CASE Kill
  <2>1. UNCHANGED <<wal, slot, out, loaded, state_file>> /\ Exit
    BY <1>6 DEF Kill, source, sink
  <2>2. QED
    BY <1>0, <2>1, ExitKeeps, PipeAlone DEF SafeInv
<1>7. ASSUME NEW s \in Streams, Consume(s) PROVE SafeInv'
  BY <1>0, <1>7, ConsumeKeeps
<1>8. CASE PipelineDies
  <2>1. UNCHANGED <<wal, slot, loaded, state_file>> /\ Exit /\ out' = Empty
    BY <1>8 DEF PipelineDies, source, sink
  <2>2. \A s \in Streams : Len(out'[s]) = 0
    BY <2>1, EmptySeq DEF Empty
  <2>3. PipeInv'
    BY <2>2 DEF PipeInv
  <2>4. QED
    BY <1>0, <2>1, <2>3, ExitKeeps DEF SafeInv
<1>9. CASE UNCHANGED vars
  <2>1. /\ UNCHANGED <<wal, slot, out, loaded, state_file, running, cursor, state, lsn_comitted,
                       lsn_last_processed, lsn_currently_processing>>
    BY <1>9 DEF vars, source, tap, sink
  <2>2. PipeInv' /\ \A s \in Streams : Sent(s)' = Sent(s)
    BY <1>0, <2>1, PipeAlone
  <2>3. FilesInv'
    BY <1>0, <2>1, FilesKept DEF IInv, SafeInv, BaseInv, LogGrows
  <2>4. RunInv'
    <3>1. Committed' = Committed /\ \A l : CommitLsn(l)' = CommitLsn(l)
      BY <2>1, SameLog
    <3>2. ToSend' = ToSend
      BY <2>1, <3>1 DEF ToSend
    <3>3. \A l \in Committed : Sent(wal[l].stream)' = Sent(wal[l].stream)
      BY <2>1 DEF Sent, Pending
    <3>4. QED
      BY <2>1, <2>2, <3>1, <3>2, <3>3 DEF RunInv, Covers, IInv, SafeInv
  <2>5. QED
    BY <2>2, <2>3, <2>4 DEF SafeInv
<1>10. QED
  BY <1>1, <1>2, <1>3, <1>4, <1>5, <1>6, <1>7, <1>8, <1>9 DEF Next

LEMMA SafeInit == Init => IInv
<1> SUFFICES ASSUME Init PROVE SafeInv
  BY BaseInit DEF IInv
<1>1. Committed = {} /\ Len(wal) = 0
  BY DEF Init, Committed, Changes
<1>2. \A s \in Streams : Len(out[s]) = 0 /\ state_file[s] = 0
  BY EmptySeq DEF Init, Empty
<1>3. QED
  BY <1>1, <1>2 DEF Init, SafeInv, FilesInv, PipeInv, RunInv, Covers

LEMMA SafeAlways == ~TornReads => (Spec => []IInv)
<1> SUFFICES ASSUME ~TornReads PROVE Spec => []IInv
  OBVIOUS
<1>1. IInv /\ [Next]_vars => IInv'
  BY SafeStep
<1>2. QED
  BY <1>1, SafeInit, PTL DEF Spec

\* As long as the state file is read whole, the slot is never acknowledged
\* beyond the commit of a change that is not in the warehouse, in whatever
\* order transactions interleave in the log, runs are cut short and the target
\* catches up: PostgreSQL can still send every one of them.
THEOREM SlotIsSafe == ~TornReads => (Spec => []SlotKeepsUnloaded)
<1> SUFFICES ASSUME ~TornReads PROVE Spec => []SlotKeepsUnloaded
  OBVIOUS
<1>1. ASSUME IInv, NEW l \in Committed \ loaded PROVE slot <= CommitLsn(l)
  <2>1. wal[l].stream \in Streams /\ CommitLsn(l) \in Nat /\ slot \in Nat
    BY <1>1, CommitLsnIsTheCommit, Typing DEF IInv, BaseInv
  <2>2. Covers(loaded, slot, wal[l].stream)
    BY <1>1, <2>1 DEF IInv, SafeInv, FilesInv
  <2>3. QED
    BY <2>1, <2>2 DEF Covers
<1>2. IInv => SlotKeepsUnloaded
  BY <1>1 DEF SlotKeepsUnloaded
<1>3. QED
  BY <1>2, SafeAlways, PTL

\* As long as the state file is read whole, the saved bookmark of a stream
\* never passes the commit of one of its changes that is not in the warehouse.
THEOREM SavedStateIsSafe == ~TornReads => (Spec => []SavedStateKeepsUnloaded)
<1> SUFFICES ASSUME ~TornReads PROVE Spec => []SavedStateKeepsUnloaded
  OBVIOUS
<1>1. ASSUME IInv, NEW l \in Committed \ loaded PROVE state_file[wal[l].stream] <= CommitLsn(l)
  <2>1. wal[l].stream \in Streams /\ CommitLsn(l) \in Nat /\ state_file[wal[l].stream] \in Nat
    BY <1>1, CommitLsnIsTheCommit, Typing DEF IInv, BaseInv
  <2>2. Covers(loaded, state_file[wal[l].stream], wal[l].stream)
    BY <1>1, <2>1 DEF IInv, SafeInv, FilesInv
  <2>3. QED
    BY <2>1, <2>2 DEF Covers
<1>2. IInv => SavedStateKeepsUnloaded
  BY <1>1 DEF SavedStateKeepsUnloaded
<1>3. QED
  BY <1>2, SafeAlways, PTL

\* As long as the state file is read whole, the walsender passes no change of
\* a run: what is not in the warehouse is in the pipe or still to be sent.
THEOREM WalsenderSkipsNothing == ~TornReads => (Spec => []NothingSkipped)
<1> SUFFICES ASSUME ~TornReads PROVE Spec => []NothingSkipped
  OBVIOUS
<1>1. ASSUME IInv, running, NEW l \in Committed \ loaded, l \notin ToSend
      PROVE  \E s \in Streams : \E i \in 1..Len(out[s]) : out[s][i] = RecordMessage(l)
  <2>1. PICK s \in Streams : s = wal[l].stream
    BY <1>1, CommitLsnIsTheCommit DEF IInv, BaseInv
  <2>2. l \in Sent(s)
    BY <1>1, <2>1 DEF IInv, SafeInv, RunInv
  <2>3. PICK i \in 1..Len(out[s]) : out[s][i].type = "RECORD" /\ out[s][i].lsn = l
    BY <2>2 DEF Sent, Pending
  <2>4. out[s][i] \in Message
    BY <1>1, ElementOfSeq, Typing DEF IInv, BaseInv
  <2>5. out[s][i] = RecordMessage(l)
    BY <2>3, <2>4 DEF Message, RecordMessage
  <2>6. QED
    BY <2>5
<1>2. IInv => NothingSkipped
  BY <1>1 DEF NothingSkipped
<1>3. QED
  BY <1>2, SafeAlways, PTL
=============================================================================
