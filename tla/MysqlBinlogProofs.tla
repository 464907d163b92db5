------------------------- MODULE MysqlBinlogProofs -------------------------
(***************************************************************************)
(* Proofs about MysqlBinlog: a run of sync_binlog_stream that starts from  *)
(* the saved bookmarks skips no change that is not loaded.                 *)
(***************************************************************************)
EXTENDS MysqlBinlog, SequenceTheorems, WellFoundedInduction, TLAPS

Positions == [file : Nat, pos : Nat]
Bookmarks == [file : Nat, pos : Nat, gtid : Nat]
Kinds     == {"gtid", "rows", "xid", "rotate"}
Events    == [kind : Kinds, txn : Nat, table : Streams \cup {OtherTable}]

\* The places of a log F, the event at one, and the changes.
PlacesIn(F)  == UNION {{Pos(f, i) : i \in 1..Len(F[f])} : f \in 1..Len(F)}
EventAt(F, p) == F[p.file][p.pos]
ChangesIn(F) == {p \in PlacesIn(F) : EventAt(F, p).kind = "rows"}

\* A place at which a reader may stand: never at the end of a file that is
\* followed by another one.
Stands(F, p) == /\ p \in Positions
                /\ p.file \in 1..Len(F) /\ p.pos <= Len(F[p.file])
                /\ p.file < Len(F) => p.pos < Len(F[p.file])

-----------------------------------------------------------------------------
(* The inductive invariant                                                 *)

TypeOK ==
    /\ oldest \in Nat /\ use_gtid \in BOOLEAN
    /\ pc \in {"idle", "tables", "reading", "closing"}
    /\ state \in [Streams -> Bookmarks] /\ saved \in [Streams -> Bookmarks]
    /\ binlog_streams \subseteq Streams
    /\ reader \in Positions /\ end \in Positions /\ log_at \in Positions
    /\ gtid_pos \in Nat /\ processed_rows_events \in Nat /\ events_skipped \in Nat
    /\ binlog_crashes \in Nat
    /\ loaded \subseteq emitted

\* A log whose last transaction is T: events are in the order of their
\* transactions, each begins with its GTID, files end with a rotation, and no
\* transaction is left open.
IsLog(F, T) ==
    /\ F \in Seq(Seq(Events)) /\ Len(F) >= 1 /\ T \in Nat
    /\ \A p \in PlacesIn(F) : EventAt(F, p).txn <= T
    /\ \A p \in PlacesIn(F) : EventAt(F, p).kind = "gtid" => EventAt(F, p).txn # 0
    /\ \A p, q \in PlacesIn(F) :
          EventAt(F, q).kind = "gtid" /\ EventAt(F, p).kind \in {"gtid", "rows"}
              => (~Before(p, q) <=> EventAt(F, q).txn <= EventAt(F, p).txn)
    /\ \A t \in 1..T : \E q \in PlacesIn(F) : EventAt(F, q) = Event("gtid", t, OtherTable)
    /\ \A p \in PlacesIn(F) :
          EventAt(F, p).kind = "rotate" <=> p.file < Len(F) /\ p.pos = Len(F[p.file])
    /\ \A f \in 1..Len(F) : f < Len(F) => Len(F[f]) >= 1
    /\ Len(F[Len(F)]) >= 1 => F[Len(F)][Len(F[Len(F)])].kind # "rows"

LogInv == IsLog(files, LastTxn)

\* A bookmark is a place a reader may stand at, with the GTID of a
\* transaction if and only if the run uses GTIDs.
IsBookmark(b) ==
    b.file # 0 \/ b.gtid # 0 =>
        /\ Stands(files, Pos(b.file, b.pos))
        /\ b.gtid <= LastTxn
        /\ use_gtid <=> b.gtid # 0

BookmarkInv ==
    /\ \A s \in Streams : IsBookmark(state[s]) /\ IsBookmark(saved[s])
    /\ pc \in {"tables", "reading", "closing"} => \A s \in binlog_streams : HasPosition(state, s)

\* The change c is not after the bookmark of its stream.
Behind(st, c) ==
    IF use_gtid THEN At(c).txn <= st[At(c).table].gtid
    ELSE ~Before(Pos(st[At(c).table].file, st[At(c).table].pos), c)

Excused(c) == use_gtid /\ At(c).txn \in interrupted

\* The bookmarks of the streams S cover nothing that is not in X.
Covers(st, X, S) ==
    \A c \in Changes : At(c).table \in S /\ HasPosition(st, At(c).table) /\ Behind(st, c)
                           => c \in X \/ Excused(c)

\* ... but for the transaction a GTID names.
CoversUpTo(st, X) ==
    \A c \in Changes : /\ At(c).table \in Streams /\ HasPosition(st, At(c).table)
                       /\ Behind(st, c)
                       => \/ c \in X \/ Excused(c)
                          \/ use_gtid /\ At(c).txn = st[At(c).table].gtid

CoverInv ==
    /\ CoversUpTo(saved, loaded)
    /\ pc \in {"idle", "tables"} => Covers(saved, loaded, Streams)
    /\ pc = "idle" => state = saved
    /\ pc = "tables" => Covers(state, emitted, Streams)
    /\ pc \in {"reading", "closing"} =>
          CoversUpTo(state, emitted) /\ Covers(state, emitted, Streams \ binlog_streams)

\* What the reader has passed is written, or lost for good.
Passed(p) == \A c \in Changes : At(c).table \in binlog_streams /\ ~Before(p, c)
                                    => c \in emitted \/ Excused(c)

\* A run has the position of its end, which divides no transaction, and the
\* GTID of what it reads.
GtidInv ==
    IF use_gtid
    THEN /\ gtid_pos # 0 /\ gtid_pos <= LastTxn
         /\ \A c \in Changes : At(c).txn < gtid_pos => ~Before(reader, c)
         /\ \A c \in Changes : At(c).txn <= gtid_pos => Before(c, end) \/ ~Before(reader, c)
         /\ \A q \in Places, c \in Changes :
               At(q).kind = "gtid" /\ At(q).txn = At(c).txn /\ Before(q, end) => Before(c, end)
    ELSE gtid_pos = 0

ReadingInv ==
    pc = "reading" =>
        /\ Stands(files, reader) /\ Stands(files, end) /\ end \notin Changes
        /\ Passed(reader)
        /\ GtidInv
        /\ IF log_at = NoPos THEN Covers(state, emitted, Streams)
                             ELSE Stands(files, log_at) /\ ~Before(reader, log_at)

\* What the closing bookmarks will name is written.
ClosingInv ==
    pc = "closing" =>
        IF log_at = NoPos THEN Covers(state, emitted, Streams)
        ELSE /\ Stands(files, log_at)
             /\ IF use_gtid
                THEN /\ gtid_pos # 0 /\ gtid_pos <= LastTxn
                     /\ \A c \in Changes : At(c).table \in binlog_streams /\ At(c).txn <= gtid_pos
                                               => c \in emitted \/ Excused(c)
                ELSE gtid_pos = 0 /\ Passed(log_at)

IInv == TypeOK /\ LogInv /\ BookmarkInv /\ CoverInv /\ ReadingInv /\ ClosingInv

-----------------------------------------------------------------------------
(* Lemmas about places and the log                                         *)

\* A set of naturals that is not empty has a least element.
LEMMA LeastOfNat ==
    ASSUME NEW T, T \subseteq Nat, T # {}
    PROVE  \E x \in T : \A y \in T : x <= y
<1> DEFINE R == OpToRel(<, Nat)
<1>1. IsWellFoundedOn(R, Nat)
  BY NatLessThanWellFounded
<1>2. \A x, y \in Nat : y < x => <<y, x>> \in R
  BY DEF OpToRel
<1> HIDE DEF R
<1>3. PICK x \in T : \A y \in T : ~(<<y, x>> \in R)
  BY <1>1, WFMin
<1>4. ASSUME NEW y \in T PROVE x <= y
  <2>1. x \in Nat /\ y \in Nat
    OBVIOUS
  <2>2. ~(y < x)
    BY <1>2, <1>3, <2>1
  <2>3. QED
    BY <2>1, <2>2
<1>5. QED
  BY <1>4

\* A set of positions that is not empty has an earliest one: among those in
\* the first file the one with the fewest events before it.
LEMMA EarliestPosition ==
    ASSUME NEW T, T \subseteq Positions, T # {}
    PROVE  Earliest(T) \in T /\ \A a \in T : ~Before(a, Earliest(T))
<1> DEFINE fs == {a.file : a \in T}
<1>1. PICK f \in fs : \A g \in fs : f <= g
  <2>1. fs \subseteq Nat /\ fs # {}
    BY DEF Positions
  <2>2. QED
    BY <2>1, LeastOfNat
<1> DEFINE ps == {a.pos : a \in {b \in T : b.file = f}}
<1>2. PICK p \in ps : \A q \in ps : p <= q
  <2>1. ps \subseteq Nat /\ ps # {}
    BY <1>1 DEF Positions
  <2>2. QED
    BY <2>1, LeastOfNat
<1>3. PICK a \in T : a.file = f /\ a.pos = p
  BY <1>2
<1>4. ASSUME NEW b \in T PROVE ~Before(b, a)
  <2>1. a \in Positions /\ b \in Positions
    OBVIOUS
  <2>2. f <= b.file
    BY <1>1
  <2>3. b.file = f => p <= b.pos
    BY <1>2
  <2>4. QED
    BY <1>3, <2>1, <2>2, <2>3 DEF Before, Positions
<1>5. QED
  BY <1>4 DEF Earliest

\* The order of positions.
LEMMA OrderOfPositions ==
    ASSUME NEW a \in Positions, NEW b \in Positions, NEW c \in Positions
    PROVE  /\ ~Before(a, a)
           /\ Before(a, b) \/ Before(b, a) \/ a = b
           /\ Before(a, b) => ~Before(b, a)
           /\ Before(a, b) /\ Before(b, c) => Before(a, c)
           /\ Before(a, b) /\ ~Before(c, b) => Before(a, c)
           /\ ~Before(b, a) /\ Before(b, c) => Before(a, c)
           /\ ~Before(b, a) /\ ~Before(c, b) => ~Before(c, a)
<1>1. a = Pos(a.file, a.pos) /\ b = Pos(b.file, b.pos)
  BY DEF Positions, Pos
<1>2. a.file \in Nat /\ a.pos \in Nat /\ b.file \in Nat /\ b.pos \in Nat /\ c.file \in Nat /\ c.pos \in Nat
  BY DEF Positions
<1>3. Before(a, b) \/ Before(b, a) \/ (a.file = b.file /\ a.pos = b.pos)
  BY <1>2 DEF Before
<1>4. Before(a, b) \/ Before(b, a) \/ a = b
  BY <1>1, <1>3
<1>5. QED
  BY <1>2, <1>4 DEF Before

\* A place is a file and one of its events.
LEMMA PlacesAre ==
    ASSUME NEW F, F \in Seq(Seq(Events))
    PROVE  /\ \A p : p \in PlacesIn(F) <=> /\ p \in Positions /\ p.file \in 1..Len(F)
                                           /\ p.pos \in 1..Len(F[p.file])
           /\ \A p \in PlacesIn(F) : EventAt(F, p) \in Events
<1> DEFINE S == Seq(Events)
<1>1. \A f \in 1..Len(F) : F[f] \in S /\ Len(F[f]) \in Nat
  OBVIOUS
<1>2. ASSUME NEW p, p \in PlacesIn(F)
      PROVE  p \in Positions /\ p.file \in 1..Len(F) /\ p.pos \in 1..Len(F[p.file])
  <2>1. PICK f \in 1..Len(F) : p \in {Pos(f, i) : i \in 1..Len(F[f])}
    BY <1>2 DEF PlacesIn
  <2>2. PICK i \in 1..Len(F[f]) : p = Pos(f, i)
    BY <2>1
  <2>3. f \in Nat /\ i \in Nat /\ p.file = f /\ p.pos = i
    BY <1>1, <2>2 DEF Pos
  <2>4. QED
    BY <2>2, <2>3 DEF Pos, Positions
<1>3. ASSUME NEW p, p \in Positions, p.file \in 1..Len(F), p.pos \in 1..Len(F[p.file])
      PROVE  p \in PlacesIn(F)
  <2>1. p = Pos(p.file, p.pos)
    BY <1>3 DEF Pos, Positions
  <2>2. p \in {Pos(p.file, i) : i \in 1..Len(F[p.file])}
    BY <1>3, <2>1
  <2>3. QED
    BY <1>3, <2>2 DEF PlacesIn
<1>4. ASSUME NEW p \in PlacesIn(F) PROVE EventAt(F, p) \in Events
  <2>1. p.file \in 1..Len(F) /\ p.pos \in 1..Len(F[p.file])
    BY <1>2
  <2>2. F[p.file] \in Seq(Events)
    BY <1>1, <2>1
  <2>3. QED
    BY <2>1, <2>2 DEF EventAt
<1>5. QED
  BY <1>2, <1>3, <1>4

\* LastTxn as a function of the log.
LastOf(F) == CHOOSE t \in {0} \cup {EventAt(F, p).txn : p \in PlacesIn(F)} :
                 \A p \in PlacesIn(F) : EventAt(F, p).txn <= t

LEMMA LastOfLog ==
    ASSUME NEW F, NEW T, IsLog(F, T)
    PROVE  LastOf(F) = T
<1> DEFINE S == {0} \cup {EventAt(F, p).txn : p \in PlacesIn(F)}
<1>1. T \in Nat /\ \A p \in PlacesIn(F) : EventAt(F, p).txn <= T
  BY DEF IsLog
<1>2. S \subseteq Nat
  <2>1. F \in Seq(Seq(Events))
    BY DEF IsLog
  <2>2. \A p \in PlacesIn(F) : EventAt(F, p) \in Events
    BY <2>1, PlacesAre
  <2>3. \A p \in PlacesIn(F) : EventAt(F, p).txn \in Nat
    BY <2>2 DEF Events
  <2>4. QED
    BY <2>3
<1>3. T \in S
  <2>1. CASE T = 0
    BY <2>1
  <2>2. CASE T # 0
    <3>1. T \in 1..T
      BY <1>1, <2>2
    <3>2. PICK q \in PlacesIn(F) : EventAt(F, q) = Event("gtid", T, OtherTable)
      BY <3>1 DEF IsLog
    <3>3. EventAt(F, q).txn = T
      BY <3>2 DEF Event
    <3>4. QED
      BY <3>3
  <2>3. QED
    BY <2>1, <2>2
<1>4. \A t \in S : (\A p \in PlacesIn(F) : EventAt(F, p).txn <= t) => t = T
  <2>1. SUFFICES ASSUME NEW t \in S, \A p \in PlacesIn(F) : EventAt(F, p).txn <= t
                 PROVE  t = T
    OBVIOUS
  <2>2. t <= T
    BY <1>1
  <2>3. T <= t
    BY <1>1, <1>2, <1>3, <2>1
  <2>4. QED
    BY <1>1, <1>2, <2>2, <2>3
<1>5. QED
  BY <1>1, <1>3, <1>4 DEF LastOf

\* The log G continues the log F, whose last transaction is T: places keep
\* their events, new ones are after any place a reader stands at, and new
\* changes are of later transactions.
Grown(F, T, G) ==
    /\ \A p \in PlacesIn(F) : p \in PlacesIn(G) /\ EventAt(G, p) = EventAt(F, p)
    /\ \A p \in PlacesIn(G), v \in Positions : p \notin PlacesIn(F) /\ Stands(F, v) => Before(v, p)
    /\ \A p \in PlacesIn(G) : p \notin PlacesIn(F) /\ EventAt(G, p).kind = "rows"
                                  => T < EventAt(G, p).txn
    /\ \A v \in Positions : Stands(F, v) => Stands(G, v)

\* The events of a transaction (Commit).
Txn(t, tables) == <<Event("gtid", t, OtherTable)>>
                  \o [i \in 1..Len(tables) |-> Event("rows", t, tables[i])]
                  \o <<Event("xid", t, OtherTable)>>

LEMMA TxnEvents ==
    ASSUME NEW t \in Nat, NEW tables \in Seq(Streams \cup {OtherTable})
    PROVE  /\ Txn(t, tables) \in Seq(Events)
           /\ Len(Txn(t, tables)) = Len(tables) + 2
           /\ Txn(t, tables)[1] = Event("gtid", t, OtherTable)
           /\ Txn(t, tables)[Len(tables) + 2].kind = "xid"
           /\ \A i \in 1..Len(tables) + 2 :
                 /\ Txn(t, tables)[i].txn = t
                 /\ Txn(t, tables)[i].kind \in {"gtid", "rows", "xid"}
                 /\ Txn(t, tables)[i].kind = "gtid" <=> i = 1
<1> DEFINE k == Len(tables)
           a == <<Event("gtid", t, OtherTable)>>
           r == [i \in 1..k |-> Event("rows", t, tables[i])]
           z == <<Event("xid", t, OtherTable)>>
<1>1. k \in Nat
  OBVIOUS
<1>2. \A table \in Streams \cup {OtherTable} : \A kind \in Kinds : Event(kind, t, table) \in Events
  BY DEF Event, Events
<1>3. a \in Seq(Events) /\ Len(a) = 1 /\ a[1] = Event("gtid", t, OtherTable)
  <2>1. Event("gtid", t, OtherTable) \in Events
    BY <1>2 DEF Kinds
  <2>2. QED
    BY <2>1
<1>4. z \in Seq(Events) /\ Len(z) = 1 /\ z[1] = Event("xid", t, OtherTable)
  <2>1. Event("xid", t, OtherTable) \in Events
    BY <1>2 DEF Kinds
  <2>2. QED
    BY <2>1
<1>5. r \in Seq(Events) /\ Len(r) = k /\ \A i \in 1..k : r[i] = Event("rows", t, tables[i])
  <2>1. \A i \in 1..k : Event("rows", t, tables[i]) \in Events
    BY <1>2 DEF Kinds
  <2>2. QED
    BY <1>1, <2>1
<1>6. \A table, kind : Event(kind, t, table).kind = kind /\ Event(kind, t, table).txn = t
  BY DEF Event
<1> HIDE DEF a, r, z
<1> DEFINE ar == a \o r
           s  == ar \o z
<1>7. /\ ar \in Seq(Events) /\ Len(ar) = 1 + k
      /\ \A i \in 1..1 + k : ar[i] = IF i <= 1 THEN a[i] ELSE r[i - 1]
  <2>1. /\ ar \in Seq(Events) /\ Len(ar) = Len(a) + Len(r)
        /\ \A i \in 1..Len(a) + Len(r) : ar[i] = IF i <= Len(a) THEN a[i] ELSE r[i - Len(a)]
    <3>1. a \in Seq(Events) /\ r \in Seq(Events)
      BY <1>3, <1>5
    <3>2. QED
      BY <3>1, ConcatProperties
  <2> HIDE DEF ar
  <2>2. QED
    BY <1>3, <1>5, <2>1
<1> HIDE DEF ar
<1>8. /\ s \in Seq(Events) /\ Len(s) = k + 2
      /\ \A i \in 1..k + 2 : s[i] = IF i <= 1 + k THEN ar[i] ELSE z[i - (1 + k)]
  <2>1. /\ s \in Seq(Events) /\ Len(s) = Len(ar) + Len(z)
        /\ \A i \in 1..Len(ar) + Len(z) : s[i] = IF i <= Len(ar) THEN ar[i] ELSE z[i - Len(ar)]
    BY <1>4, <1>7, ConcatProperties
  <2>2. Len(ar) + Len(z) = k + 2
    BY <1>1, <1>4, <1>7
  <2>3. QED
    BY <1>7, <2>1, <2>2
<1> HIDE DEF s
<1>9. s[1] = Event("gtid", t, OtherTable)
  <2>1. 1 \in 1..k + 2 /\ 1 <= 1 + k /\ 1 \in 1..1 + k
    BY <1>1
  <2>2. QED
    BY <1>3, <1>7, <1>8, <2>1
<1>10. s[k + 2] = Event("xid", t, OtherTable)
  <2>1. k + 2 \in 1..k + 2 /\ ~(k + 2 <= 1 + k) /\ k + 2 - (1 + k) = 1
    BY <1>1
  <2>2. QED
    BY <1>4, <1>8, <2>1
<1>11. ASSUME NEW i \in 2..1 + k PROVE s[i] = Event("rows", t, tables[i - 1])
  <2>1. i \in 1..k + 2 /\ i <= 1 + k /\ i \in 1..1 + k /\ ~(i <= 1) /\ i - 1 \in 1..k
    BY <1>1
  <2>2. s[i] = r[i - 1]
    BY <1>7, <1>8, <2>1
  <2>3. QED
    BY <1>5, <2>1, <2>2
<1>12. ASSUME NEW i \in 1..k + 2
       PROVE  s[i].txn = t /\ s[i].kind \in {"gtid", "rows", "xid"} /\ (s[i].kind = "gtid" <=> i = 1)
  <2>1. CASE i = 1
    BY <1>6, <1>9, <2>1
  <2>2. CASE i = k + 2
    BY <1>1, <1>6, <1>10, <2>2
  <2>3. CASE i \in 2..1 + k
    BY <1>6, <1>11, <2>3
  <2>4. QED
    BY <1>1, <2>1, <2>2, <2>3
<1>13. Txn(t, tables) = s
  BY DEF Txn, s, ar, a, r, z
<1>14. s[k + 2].kind = "xid"
  BY <1>6, <1>10
<1>15. QED
  BY <1>8, <1>9, <1>12, <1>13, <1>14

\* A transaction continues the log.
LEMMA CommitGrows ==
    ASSUME NEW F, NEW T, IsLog(F, T), NEW tables \in Seq(Streams \cup {OtherTable})
    PROVE  LET G == [F EXCEPT ![Len(F)] = @ \o Txn(T + 1, tables)]
           IN  IsLog(G, T + 1) /\ Grown(F, T, G)
<1> DEFINE S == Seq(Events)
           L == Len(F)
           n == Len(F[L])
           t == T + 1
           txn == Txn(t, tables)
           k == Len(tables) + 2
           last == F[L] \o txn
           G == [F EXCEPT ![L] = last]
<1>1. F \in Seq(S) /\ L \in Nat /\ L >= 1 /\ T \in Nat /\ t \in Nat
  BY DEF IsLog
<1>2. F[L] \in S /\ n \in Nat /\ L \in 1..L
  BY <1>1
<1>3. /\ txn \in S /\ Len(txn) = k /\ k \in Nat /\ k >= 2
      /\ txn[1] = Event("gtid", t, OtherTable) /\ txn[k].kind = "xid"
      /\ \A i \in 1..k : /\ txn[i].txn = t /\ txn[i].kind \in {"gtid", "rows", "xid"}
                         /\ txn[i].kind = "gtid" <=> i = 1
  <2>1. Len(tables) \in Nat
    OBVIOUS
  <2>2. QED
    BY <1>1, <2>1, TxnEvents
<1> HIDE DEF txn, k, t
<1>4. /\ last \in S /\ Len(last) = n + k
      /\ \A i \in 1..n : last[i] = F[L][i]
      /\ \A i \in 1..k : last[n + i] = txn[i]
  <2>1. /\ last \in S /\ Len(last) = n + k
        /\ \A i \in 1..n + k : last[i] = IF i <= n THEN F[L][i] ELSE txn[i - n]
    <3>1. F[L] \in Seq(Events) /\ txn \in Seq(Events)
      BY <1>2, <1>3
    <3>2. /\ last \in Seq(Events) /\ Len(last) = Len(F[L]) + Len(txn)
          /\ \A i \in 1..Len(F[L]) + Len(txn) :
                last[i] = IF i <= Len(F[L]) THEN F[L][i] ELSE txn[i - Len(F[L])]
      BY <3>1, ConcatProperties
    <3> HIDE DEF last
    <3>3. QED
      BY <1>3, <3>2
  <2> HIDE DEF last
  <2>2. \A i \in 1..n : last[i] = F[L][i]
    <3>1. SUFFICES ASSUME NEW i \in 1..n PROVE last[i] = F[L][i]
      OBVIOUS
    <3>2. i \in 1..n + k /\ i <= n
      BY <1>2, <1>3
    <3>3. QED
      BY <2>1, <3>2
  <2>3. \A i \in 1..k : last[n + i] = txn[i]
    <3>1. SUFFICES ASSUME NEW i \in 1..k PROVE last[n + i] = txn[i]
      OBVIOUS
    <3>2. n + i \in 1..n + k /\ ~(n + i <= n) /\ n + i - n = i
      BY <1>2, <1>3
    <3>3. QED
      BY <2>1, <3>2
  <2>4. QED
    BY <2>1, <2>2, <2>3
<1> HIDE DEF last
<1>5. /\ G \in Seq(S) /\ Len(G) = L /\ G[L] = last
      /\ \A f \in 1..L : f # L => G[f] = F[f]
  BY <1>1, <1>2, <1>4
<1> HIDE DEF G, S
<1>6. /\ F \in Seq(Seq(Events)) /\ G \in Seq(Seq(Events))
  BY <1>1, <1>5 DEF S
<1>7. ASSUME NEW p \in PlacesIn(F)
      PROVE  p \in PlacesIn(G) /\ EventAt(G, p) = EventAt(F, p)
  <2>1. p \in Positions /\ p.file \in 1..L /\ p.pos \in 1..Len(F[p.file])
    BY <1>6, PlacesAre
  <2>2. CASE p.file = L
    <3>1. p.pos \in 1..n
      BY <2>1, <2>2
    <3>2. p.pos \in 1..n + k
      BY <1>2, <1>3, <3>1
    <3>3. p \in PlacesIn(G)
      BY <1>4, <1>5, <1>6, <2>1, <2>2, <3>2, PlacesAre
    <3>4. last[p.pos] = F[L][p.pos]
      BY <1>4, <3>1
    <3>5. QED
      BY <1>5, <2>2, <3>3, <3>4 DEF EventAt
  <2>3. CASE p.file # L
    <3>1. G[p.file] = F[p.file]
      BY <1>5, <2>1, <2>3
    <3>2. p \in PlacesIn(G)
      BY <1>5, <1>6, <2>1, <3>1, PlacesAre
    <3>3. QED
      BY <3>1, <3>2 DEF EventAt
  <2>4. QED
    BY <2>2, <2>3
<1>8. ASSUME NEW p \in PlacesIn(G), p \notin PlacesIn(F)
      PROVE  /\ p \in Positions /\ p.file = L
             /\ p.pos - n \in 1..k /\ EventAt(G, p) = txn[p.pos - n]
  <2>1. p \in Positions /\ p.file \in 1..L /\ p.pos \in 1..Len(G[p.file])
    BY <1>5, <1>6, PlacesAre
  <2>2. p.file = L
    <3>1. SUFFICES ASSUME p.file # L PROVE FALSE
      OBVIOUS
    <3>2. G[p.file] = F[p.file]
      BY <1>5, <2>1, <3>1
    <3>3. QED
      BY <1>6, <1>8, <2>1, <3>2, PlacesAre
  <2>3. ~(p.pos \in 1..n)
    BY <1>2, <1>6, <1>8, <2>1, <2>2, PlacesAre
  <2>4. p.pos \in 1..n + k
    BY <1>4, <1>5, <2>1, <2>2
  <2>5. p.pos - n \in 1..k /\ p.pos = n + (p.pos - n)
    BY <1>2, <1>3, <2>3, <2>4
  <2>6. last[n + (p.pos - n)] = txn[p.pos - n]
    BY <1>4, <2>5
  <2>7. QED
    BY <1>5, <2>1, <2>2, <2>5, <2>6 DEF EventAt
<1>9. ASSUME NEW p \in PlacesIn(G), p \notin PlacesIn(F)
      PROVE  /\ EventAt(G, p).txn = t /\ EventAt(G, p).kind \in {"gtid", "rows", "xid"}
             /\ EventAt(G, p).kind = "gtid" <=> p.pos = n + 1
             /\ p.pos >= n + 1
  <2>1. p.pos \in Nat /\ p.pos - n \in 1..k /\ EventAt(G, p) = txn[p.pos - n]
    BY <1>8, <1>9 DEF Positions
  <2>2. /\ txn[p.pos - n].txn = t /\ txn[p.pos - n].kind \in {"gtid", "rows", "xid"}
        /\ txn[p.pos - n].kind = "gtid" <=> p.pos - n = 1
    BY <1>3, <2>1
  <2>3. (p.pos - n = 1 <=> p.pos = n + 1) /\ p.pos >= n + 1
    BY <1>2, <2>1
  <2>4. QED
    BY <2>1, <2>2, <2>3
<1>10. Pos(L, n + 1) \in PlacesIn(G) /\ EventAt(G, Pos(L, n + 1)) = Event("gtid", t, OtherTable)
  <2>1. Pos(L, n + 1).file = L /\ Pos(L, n + 1).pos = n + 1
    BY DEF Pos
  <2>2. Pos(L, n + 1) \in Positions
    BY <1>1, <1>2 DEF Pos, Positions
  <2>3. n + 1 \in 1..n + k /\ 1 \in 1..k
    BY <1>2, <1>3
  <2>4. last[n + 1] = txn[1]
    BY <1>4, <2>3
  <2>5. Pos(L, n + 1) \in PlacesIn(G)
    BY <1>2, <1>4, <1>5, <1>6, <2>1, <2>2, <2>3, PlacesAre
  <2>6. G[L][n + 1] = Event("gtid", t, OtherTable)
    BY <1>3, <1>5, <2>4
  <2>7. QED
    BY <2>1, <2>5, <2>6 DEF EventAt
<1>11. ASSUME NEW p \in PlacesIn(F) PROVE EventAt(F, p).txn \in Nat /\ EventAt(F, p).txn <= T
  <2>1. EventAt(F, p) \in Events
    BY <1>6, PlacesAre
  <2>2. QED
    BY <2>1 DEF Events, IsLog
<1>12. ASSUME NEW p \in PlacesIn(F), NEW q \in PlacesIn(G), q \notin PlacesIn(F)
       PROVE  Before(p, q)
  <2>1. p \in Positions /\ p.file \in 1..L /\ p.pos \in 1..Len(F[p.file])
    BY <1>6, PlacesAre
  <2>2. q.file = L /\ q.pos \in Nat /\ q.pos >= n + 1
    BY <1>8, <1>9, <1>12 DEF Positions
  <2>3. CASE p.file = L
    <3>1. p.pos \in 1..n
      BY <2>1, <2>3
    <3>2. QED
      BY <1>2, <2>2, <2>3, <3>1 DEF Before
  <2>4. CASE p.file # L
    BY <1>1, <2>1, <2>2, <2>4 DEF Before
  <2>5. QED
    BY <2>3, <2>4
<1>13. /\ \A p \in PlacesIn(G) : EventAt(G, p).txn <= t
       /\ \A p \in PlacesIn(G) : EventAt(G, p).kind = "gtid" => EventAt(G, p).txn # 0
  <2>1. SUFFICES ASSUME NEW p \in PlacesIn(G)
                 PROVE  EventAt(G, p).txn <= t /\ (EventAt(G, p).kind = "gtid" => EventAt(G, p).txn # 0)
    OBVIOUS
  <2>2. CASE p \in PlacesIn(F)
    <3>1. EventAt(F, p).kind = "gtid" => EventAt(F, p).txn # 0
      BY <2>2 DEF IsLog
    <3>2. QED
      BY <1>1, <1>7, <1>11, <2>2, <3>1 DEF t
  <2>3. CASE p \notin PlacesIn(F)
    <3>1. EventAt(G, p).txn = t
      BY <1>9, <2>3
    <3>2. QED
      BY <1>1, <3>1 DEF t
  <2>4. QED
    BY <2>2, <2>3
<1>14. ASSUME NEW p \in PlacesIn(G), NEW q \in PlacesIn(G),
              EventAt(G, q).kind = "gtid", EventAt(G, p).kind \in {"gtid", "rows"}
       PROVE  ~Before(p, q) <=> EventAt(G, q).txn <= EventAt(G, p).txn
  <2>1. p \in Positions /\ q \in Positions
    BY <1>6, PlacesAre
  <2>2. CASE p \in PlacesIn(F) /\ q \in PlacesIn(F)
    BY <1>7, <1>14, <2>2 DEF IsLog
  <2>3. CASE p \in PlacesIn(F) /\ q \notin PlacesIn(F)
    <3>1. Before(p, q)
      BY <1>12, <2>3
    <3>2. EventAt(G, q).txn = t /\ EventAt(G, p).txn <= T /\ EventAt(G, p).txn \in Nat
      BY <1>7, <1>9, <1>11, <2>3
    <3>3. QED
      BY <1>1, <3>1, <3>2 DEF t
  <2>4. CASE p \notin PlacesIn(F) /\ q \in PlacesIn(F)
    <3>1. ~Before(p, q)
      BY <1>12, <2>1, <2>4, OrderOfPositions
    <3>2. EventAt(G, p).txn = t /\ EventAt(G, q).txn <= T /\ EventAt(G, q).txn \in Nat
      BY <1>7, <1>9, <1>11, <2>4
    <3>3. QED
      BY <1>1, <3>1, <3>2 DEF t
  <2>5. CASE p \notin PlacesIn(F) /\ q \notin PlacesIn(F)
    <3>1. p.file = L /\ q.file = L /\ q.pos = n + 1 /\ p.pos >= n + 1
      BY <1>8, <1>9, <1>14, <2>5
    <3>2. ~Before(p, q)
      BY <1>1, <1>2, <2>1, <3>1 DEF Before, Positions
    <3>3. EventAt(G, q).txn = t /\ EventAt(G, p).txn = t
      BY <1>9, <2>5
    <3>4. QED
      BY <1>1, <3>2, <3>3
  <2>6. QED
    BY <2>2, <2>3, <2>4, <2>5
<1>15. ASSUME NEW u \in 1..t PROVE \E q \in PlacesIn(G) : EventAt(G, q) = Event("gtid", u, OtherTable)
  <2>1. CASE u = t
    BY <1>10, <2>1
  <2>2. CASE u # t
    <3>1. u \in 1..T
      BY <1>1, <2>2 DEF t
    <3>2. QED
      BY <1>7, <3>1 DEF IsLog
  <2>3. QED
    BY <2>1, <2>2
<1>16. ASSUME NEW p \in PlacesIn(G)
       PROVE  EventAt(G, p).kind = "rotate" <=> p.file < L /\ p.pos = Len(G[p.file])
  <2>1. p \in Positions /\ p.file \in 1..L
    BY <1>5, <1>6, PlacesAre
  <2>2. CASE p \in PlacesIn(F)
    <3>1. EventAt(F, p).kind = "rotate" <=> p.file < L /\ p.pos = Len(F[p.file])
      BY <2>2 DEF IsLog
    <3>2. p.file < L => G[p.file] = F[p.file]
      BY <1>1, <1>5, <2>1
    <3>3. QED
      BY <1>7, <2>2, <3>1, <3>2
  <2>3. CASE p \notin PlacesIn(F)
    <3>1. p.file = L /\ EventAt(G, p).kind # "rotate"
      BY <1>8, <1>9, <2>3
    <3>2. QED
      BY <1>1, <3>1
  <2>4. QED
    BY <2>2, <2>3
<1>17. \A f \in 1..L : f < L => Len(G[f]) >= 1
  BY <1>1, <1>5 DEF IsLog
<1>18. G[L][Len(G[L])].kind # "rows"
  <2>1. k \in 1..k
    BY <1>3
  <2>2. last[n + k] = txn[k]
    BY <1>4, <2>1
  <2>3. QED
    BY <1>3, <1>4, <1>5, <2>2
<1>19. IsLog(G, t)
  BY <1>1, <1>5, <1>6, <1>13, <1>14, <1>15, <1>16, <1>17, <1>18 DEF IsLog
<1>20. ASSUME NEW p \in PlacesIn(G), NEW v \in Positions, p \notin PlacesIn(F), Stands(F, v)
       PROVE  Before(v, p)
  <2>1. p.file = L /\ p.pos >= n + 1 /\ p \in Positions
    BY <1>8, <1>9, <1>20
  <2>2. v.file \in 1..L /\ v.pos <= Len(F[v.file])
    BY <1>20 DEF Stands
  <2>3. v.file = L => v.pos <= n
    BY <2>2
  <2>4. QED
    BY <1>1, <1>2, <2>1, <2>2, <2>3 DEF Before, Positions
<1>21. ASSUME NEW v \in Positions, Stands(F, v) PROVE Stands(G, v)
  <2>1. v.file \in 1..L /\ v.pos <= Len(F[v.file]) /\ v.pos \in Nat /\ (v.file < L => v.pos < Len(F[v.file]))
    BY <1>21 DEF Stands, Positions
  <2>2. CASE v.file = L
    <3>1. v.pos <= n + k
      BY <1>2, <1>3, <2>1, <2>2
    <3>2. QED
      BY <1>1, <1>4, <1>5, <2>1, <2>2, <3>1 DEF Stands
  <2>3. CASE v.file # L
    <3>1. G[v.file] = F[v.file]
      BY <1>5, <2>1, <2>3
    <3>2. QED
      BY <1>5, <2>1, <3>1 DEF Stands
  <2>4. QED
    BY <2>2, <2>3
<1>22. \A p \in PlacesIn(G) : p \notin PlacesIn(F) /\ EventAt(G, p).kind = "rows" => T < EventAt(G, p).txn
  BY <1>1, <1>9 DEF t
<1>23. Grown(F, T, G)
  BY <1>7, <1>20, <1>21, <1>22 DEF Grown
<1>24. QED
  BY <1>19, <1>23 DEF G, last, txn, t

\* So does a new file.
LEMMA RotationGrows ==
    ASSUME NEW F, NEW T, IsLog(F, T), F[Len(F)] # << >>
    PROVE  LET G == Append([F EXCEPT ![Len(F)] = Append(@, Event("rotate", 0, OtherTable))], << >>)
           IN  IsLog(G, T) /\ Grown(F, T, G)
<1> DEFINE S == Seq(Events)
           L == Len(F)
           n == Len(F[L])
           r == Event("rotate", 0, OtherTable)
           last == Append(F[L], r)
           H == [F EXCEPT ![L] = last]
           G == Append(H, << >>)
<1>1. F \in Seq(S) /\ L \in Nat /\ L >= 1 /\ T \in Nat
  BY DEF IsLog
<1>2. F[L] \in S /\ n \in Nat /\ n >= 1 /\ L \in 1..L
  <2>1. F[L] \in S /\ L \in 1..L
    BY <1>1
  <2>2. F[L] \in Seq(Events)
    BY <2>1
  <2>3. QED
    BY <2>1, <2>2
<1>3. r \in Events /\ r.kind = "rotate" /\ r.txn = 0
  BY DEF Event, Events, Kinds
<1> HIDE DEF r
<1>4. /\ last \in S /\ Len(last) = n + 1 /\ last[n + 1] = r
      /\ \A i \in 1..n : last[i] = F[L][i]
  BY <1>2, <1>3
<1> HIDE DEF last
<1>5. /\ H \in Seq(S) /\ Len(H) = L /\ H[L] = last
      /\ \A f \in 1..L : f # L => H[f] = F[f]
  BY <1>1, <1>2, <1>4
<1>6. << >> \in S
  OBVIOUS
<1> HIDE DEF H, S
<1>7. /\ G \in Seq(S) /\ Len(G) = L + 1 /\ G[L + 1] = << >>
      /\ \A f \in 1..L : G[f] = H[f]
  BY <1>1, <1>5, <1>6
<1> HIDE DEF G
<1>8. /\ G[L] = last /\ Len(G[L + 1]) = 0
      /\ \A f \in 1..L : f # L => G[f] = F[f]
  BY <1>1, <1>2, <1>5, <1>7
<1>9. F \in Seq(Seq(Events)) /\ G \in Seq(Seq(Events))
  BY <1>1, <1>7 DEF S
<1>10. ASSUME NEW p \in PlacesIn(F)
       PROVE  p \in PlacesIn(G) /\ EventAt(G, p) = EventAt(F, p)
  <2>1. p \in Positions /\ p.file \in 1..L /\ p.pos \in 1..Len(F[p.file]) /\ p.file \in 1..L + 1
    <3>1. p \in Positions /\ p.file \in 1..L /\ p.pos \in 1..Len(F[p.file])
      BY <1>9, PlacesAre
    <3>2. QED
      BY <1>1, <3>1
  <2>2. CASE p.file = L
    <3>1. p.pos \in 1..n
      BY <2>1, <2>2
    <3>2. p.pos \in 1..n + 1
      BY <1>2, <3>1
    <3>3. p \in PlacesIn(G)
      BY <1>4, <1>7, <1>8, <1>9, <2>1, <2>2, <3>2, PlacesAre
    <3>4. last[p.pos] = F[L][p.pos]
      BY <1>4, <3>1
    <3>5. QED
      BY <1>8, <2>2, <3>3, <3>4 DEF EventAt
  <2>3. CASE p.file # L
    <3>1. G[p.file] = F[p.file]
      BY <1>8, <2>1, <2>3
    <3>2. p \in PlacesIn(G)
      BY <1>7, <1>9, <2>1, <3>1, PlacesAre
    <3>3. QED
      BY <3>1, <3>2 DEF EventAt
  <2>4. QED
    BY <2>2, <2>3
<1>11. ASSUME NEW p \in PlacesIn(G), p \notin PlacesIn(F)
       PROVE  p \in Positions /\ p.file = L /\ p.pos = n + 1 /\ EventAt(G, p) = r
  <2>1. p \in Positions /\ p.file \in 1..L + 1 /\ p.pos \in 1..Len(G[p.file]) /\ p.file \in Nat /\ p.pos \in Nat
    <3>1. p \in Positions /\ p.file \in 1..L + 1 /\ p.pos \in 1..Len(G[p.file])
      BY <1>7, <1>9, PlacesAre
    <3>2. QED
      BY <3>1 DEF Positions
  <2>2. p.file # L + 1
    BY <1>8, <2>1
  <2>3. p.file \in 1..L
    BY <1>1, <2>1, <2>2
  <2>4. p.file = L
    <3>1. SUFFICES ASSUME p.file # L PROVE FALSE
      OBVIOUS
    <3>2. G[p.file] = F[p.file]
      BY <1>8, <2>3, <3>1
    <3>3. QED
      BY <1>9, <1>11, <2>1, <2>3, <3>2, PlacesAre
  <2>5. ~(p.pos \in 1..n)
    BY <1>2, <1>9, <1>11, <2>1, <2>4, PlacesAre
  <2>6. p.pos \in 1..n + 1
    BY <1>4, <1>8, <2>1, <2>4
  <2>7. p.pos = n + 1
    BY <1>2, <2>5, <2>6
  <2>8. QED
    BY <1>4, <1>8, <2>1, <2>4, <2>7 DEF EventAt
<1>12. ASSUME NEW p \in PlacesIn(G)
       PROVE  EventAt(G, p).txn <= T /\ (EventAt(G, p).kind = "gtid" => EventAt(G, p).txn # 0)
  <2>1. CASE p \in PlacesIn(F)
    BY <1>10, <2>1 DEF IsLog
  <2>2. CASE p \notin PlacesIn(F)
    BY <1>1, <1>3, <1>11, <2>2
  <2>3. QED
    BY <2>1, <2>2
<1>13. ASSUME NEW p \in PlacesIn(G), EventAt(G, p).kind # "rotate"
       PROVE  p \in PlacesIn(F) /\ EventAt(G, p) = EventAt(F, p)
  BY <1>3, <1>10, <1>11, <1>13
<1>14. ASSUME NEW p \in PlacesIn(G), NEW q \in PlacesIn(G),
              EventAt(G, q).kind = "gtid", EventAt(G, p).kind \in {"gtid", "rows"}
       PROVE  ~Before(p, q) <=> EventAt(G, q).txn <= EventAt(G, p).txn
  <2>1. /\ p \in PlacesIn(F) /\ EventAt(G, p) = EventAt(F, p)
        /\ q \in PlacesIn(F) /\ EventAt(G, q) = EventAt(F, q)
    BY <1>13, <1>14
  <2>2. QED
    BY <1>14, <2>1 DEF IsLog
<1>15. ASSUME NEW p \in PlacesIn(G)
       PROVE  EventAt(G, p).kind = "rotate" <=> p.file < L + 1 /\ p.pos = Len(G[p.file])
  <2>1. CASE p \in PlacesIn(F)
    <3>1. p \in Positions /\ p.file \in 1..L /\ p.pos \in 1..Len(F[p.file])
      BY <1>9, <2>1, PlacesAre
    <3>2. EventAt(F, p).kind = "rotate" <=> p.file < L /\ p.pos = Len(F[p.file])
      BY <2>1 DEF IsLog
    <3>3. CASE p.file = L
      <4>1. p.pos \in 1..n
        BY <3>1, <3>3
      <4>2. p.pos # Len(G[p.file])
        BY <1>2, <1>4, <1>8, <3>3, <4>1
      <4>3. QED
        BY <1>1, <1>10, <2>1, <3>2, <3>3, <4>2
    <3>4. CASE p.file # L
      <4>1. G[p.file] = F[p.file] /\ p.file < L /\ p.file < L + 1
        BY <1>1, <1>8, <3>1, <3>4
      <4>2. QED
        BY <1>10, <2>1, <3>2, <4>1
    <3>5. QED
      BY <3>3, <3>4
  <2>2. CASE p \notin PlacesIn(F)
    <3>1. p.file = L /\ p.pos = n + 1 /\ EventAt(G, p).kind = "rotate"
      BY <1>3, <1>11, <2>2
    <3>2. QED
      BY <1>1, <1>4, <1>8, <3>1
  <2>3. QED
    BY <2>1, <2>2
<1>16. ASSUME NEW f \in 1..L + 1, f < L + 1 PROVE Len(G[f]) >= 1
  <2>1. f \in 1..L
    BY <1>1, <1>16
  <2>2. CASE f = L
    BY <1>2, <1>4, <1>8, <2>2
  <2>3. CASE f # L
    <3>1. f < L
      BY <1>1, <2>1, <2>3
    <3>2. QED
      BY <1>8, <2>1, <2>3, <3>1 DEF IsLog
  <2>4. QED
    BY <2>2, <2>3
<1>17. \A u \in 1..T : \E q \in PlacesIn(G) : EventAt(G, q) = Event("gtid", u, OtherTable)
  BY <1>10 DEF IsLog
<1>18. IsLog(G, T)
  <2>1. ~(Len(G[Len(G)]) >= 1) /\ Len(G) >= 1
    BY <1>1, <1>7, <1>8
  <2>2. QED
    BY <1>1, <1>7, <1>9, <1>12, <1>14, <1>15, <1>16, <1>17, <2>1 DEF IsLog
<1>19. ASSUME NEW p \in PlacesIn(G), NEW v \in Positions, p \notin PlacesIn(F), Stands(F, v)
       PROVE  Before(v, p)
  <2>1. p.file = L /\ p.pos = n + 1
    BY <1>11, <1>19
  <2>2. v.file \in 1..L /\ v.pos <= Len(F[v.file])
    BY <1>19 DEF Stands
  <2>3. v.file = L => v.pos <= n
    BY <2>2
  <2>4. QED
    BY <1>1, <1>2, <2>1, <2>2, <2>3 DEF Before, Positions
<1>20. ASSUME NEW v \in Positions, Stands(F, v) PROVE Stands(G, v)
  <2>1. v.file \in 1..L /\ v.pos <= Len(F[v.file]) /\ v.pos \in Nat /\ (v.file < L => v.pos < Len(F[v.file]))
    BY <1>20 DEF Stands, Positions
  <2>2. v.file \in 1..L + 1
    BY <1>1, <2>1
  <2>3. CASE v.file = L
    <3>1. v.pos < n + 1 /\ v.pos <= n + 1
      BY <1>2, <2>1, <2>3
    <3>2. QED
      BY <1>1, <1>4, <1>7, <1>8, <2>2, <2>3, <3>1 DEF Stands
  <2>4. CASE v.file # L
    <3>1. G[v.file] = F[v.file] /\ v.file < L
      BY <1>1, <1>8, <2>1, <2>4
    <3>2. QED
      BY <1>7, <2>1, <2>2, <3>1 DEF Stands
  <2>5. QED
    BY <2>3, <2>4
<1>21. Grown(F, T, G)
  BY <1>3, <1>10, <1>11, <1>19, <1>20 DEF Grown
<1>22. QED
  BY <1>18, <1>21 DEF G, H, last, r

-----------------------------------------------------------------------------
(* The log grows                                                           *)

\* The operators of the model on the log as it is, and as it is after a step.
LEMMA OnTheLog ==
    /\ Places = PlacesIn(files) /\ Changes = ChangesIn(files) /\ LastTxn = LastOf(files)
    /\ \A p : At(p) = EventAt(files, p)
    /\ Places' = PlacesIn(files') /\ Changes' = ChangesIn(files') /\ LastTxn' = LastOf(files')
    /\ \A p : At(p)' = EventAt(files', p)
  BY DEF Places, Changes, LastTxn, At, PlacesIn, ChangesIn, LastOf, EventAt

\* What a step of the server does to the log.
LEMMA LogGrows ==
    ASSUME LogInv, (\E tables \in Transactions : Commit(tables)) \/ RotateLog
    PROVE  /\ LogInv'
           /\ Grown(files, LastTxn, files')
           /\ LastTxn \in Nat /\ LastTxn' \in Nat /\ LastTxn <= LastTxn'
<1>1. IsLog(files, LastTxn) /\ LastTxn \in Nat
  BY DEF LogInv, IsLog
<1>2. ASSUME NEW t, IsLog(files', t) PROVE LastTxn' = t /\ LogInv'
  <2>1. LastOf(files') = t
    BY <1>2, LastOfLog
  <2>2. LastTxn' = t
    BY <2>1, OnTheLog
  <2>3. QED
    BY <1>2, <2>2 DEF LogInv
<1>3. ASSUME NEW tables \in Transactions, Commit(tables)
      PROVE  IsLog(files', LastTxn + 1) /\ Grown(files, LastTxn, files')
  <2>1. tables \in Seq(Streams \cup {OtherTable})
    BY TransactionsAssumption
  <2>2. files' = [files EXCEPT ![Len(files)] = @ \o Txn(LastTxn + 1, tables)]
    BY <1>3 DEF Commit, Txn
  <2>3. QED
    BY <1>1, <2>1, <2>2, CommitGrows
<1>4. CASE RotateLog
  <2>1. files[Len(files)] # << >>
    BY <1>4 DEF RotateLog
  <2>2. files' = Append([files EXCEPT ![Len(files)] = Append(@, Event("rotate", 0, OtherTable))], << >>)
    BY <1>4 DEF RotateLog
  <2>3. IsLog(files', LastTxn) /\ Grown(files, LastTxn, files')
    BY <1>1, <2>1, <2>2, RotationGrows
  <2>4. LastTxn' = LastTxn /\ LogInv'
    BY <1>2, <2>3
  <2>5. QED
    BY <1>1, <2>3, <2>4
<1>5. CASE \E tables \in Transactions : Commit(tables)
  <2>1. IsLog(files', LastTxn + 1) /\ Grown(files, LastTxn, files')
    BY <1>3, <1>5
  <2>2. LastTxn' = LastTxn + 1 /\ LogInv'
    BY <1>2, <2>1
  <2>3. QED
    BY <1>1, <2>1, <2>2
<1>6. QED
  BY <1>4, <1>5

\* Whatever is appended to the log is after all that bookmarks and the reader name.
LEMMA GrowthPreserves ==
    ASSUME IInv, (\E tables \in Transactions : Commit(tables)) \/ RotateLog
    PROVE  IInv'
<1>1. UNCHANGED <<oldest, use_gtid, pc, state, binlog_streams, loop, crashes, pipe>>
  BY DEF Commit, RotateLog
<1>2. UNCHANGED <<oldest, use_gtid, pc, state, binlog_streams, reader, end, log_at, gtid_pos,
                  processed_rows_events, events_skipped, binlog_crashes, interrupted,
                  emitted, loaded, saved>>
  BY <1>1 DEF loop, crashes, pipe
<1>3. TypeOK /\ LogInv /\ BookmarkInv /\ CoverInv /\ ReadingInv /\ ClosingInv
  BY DEF IInv
<1>4. /\ LogInv'
      /\ Grown(files, LastTxn, files')
      /\ LastTxn \in Nat /\ LastTxn' \in Nat /\ LastTxn <= LastTxn'
  BY <1>3, LogGrows
<1>5. TypeOK'
  BY <1>2, <1>3 DEF TypeOK
<1>6. ASSUME NEW p \in Places
      PROVE  p \in Places' /\ At(p)' = At(p)
  BY <1>4, OnTheLog DEF Grown
<1>7. ASSUME NEW p \in Places', p \notin Places
      PROVE  /\ \A v \in Positions : Stands(files, v) => Before(v, p)
             /\ At(p)'.kind = "rows" => LastTxn < At(p)'.txn
  BY <1>4, <1>7, OnTheLog DEF Grown
<1>8. ASSUME NEW c \in Changes', c \notin Changes
      PROVE  /\ \A v \in Positions : Stands(files, v) => Before(v, c)
             /\ LastTxn < At(c)'.txn
             /\ At(c)'.txn \in Nat /\ c \in Positions
  <2>1. c \in Places' /\ At(c)'.kind = "rows"
    BY DEF Changes
  <2>2. c \notin Places
    BY <1>6, <1>8, <2>1 DEF Changes
  <2>3. files' \in Seq(Seq(Events))
    BY <1>4 DEF LogInv, IsLog
  <2>4. c \in Positions /\ At(c)' \in Events
    BY <2>1, <2>3, OnTheLog, PlacesAre
  <2>5. QED
    BY <1>7, <2>1, <2>2, <2>4 DEF Events
<1>9. ASSUME NEW c \in Changes', c \in Changes
      PROVE  At(c)' = At(c)
  BY <1>6, <1>9 DEF Changes
<1>10. ASSUME NEW v \in Positions, Stands(files, v) PROVE Stands(files', v)
  BY <1>4, <1>10 DEF Grown
<1>11. \A s \in Streams : state[s] \in Bookmarks /\ saved[s] \in Bookmarks
  BY <1>3 DEF TypeOK
<1>12. ASSUME NEW b \in Bookmarks, IsBookmark(b)
       PROVE  b.file # 0 \/ b.gtid # 0 =>
                  /\ Pos(b.file, b.pos) \in Positions /\ Stands(files, Pos(b.file, b.pos))
                  /\ b.gtid \in Nat /\ b.gtid <= LastTxn
  BY <1>12 DEF IsBookmark, Bookmarks, Pos, Positions
<1>13. BookmarkInv'
  <2>1. ASSUME NEW b \in Bookmarks, IsBookmark(b)
        PROVE  b.file # 0 \/ b.gtid # 0 =>
                  /\ Stands(files', Pos(b.file, b.pos))
                  /\ b.gtid <= LastTxn'
                  /\ use_gtid <=> b.gtid # 0
    <3>1. SUFFICES ASSUME b.file # 0 \/ b.gtid # 0
                   PROVE  /\ Stands(files', Pos(b.file, b.pos))
                          /\ b.gtid <= LastTxn'
                          /\ use_gtid <=> b.gtid # 0
      OBVIOUS
    <3>2. /\ Pos(b.file, b.pos) \in Positions /\ Stands(files, Pos(b.file, b.pos))
          /\ b.gtid \in Nat /\ b.gtid <= LastTxn
      BY <1>12, <2>1, <3>1
    <3>3. use_gtid <=> b.gtid # 0
      BY <2>1, <3>1 DEF IsBookmark
    <3>4. QED
      BY <1>4, <1>10, <3>2, <3>3
  <2>2. \A s \in Streams : IsBookmark(state[s])' /\ IsBookmark(saved[s])'
    <3>1. SUFFICES ASSUME NEW s \in Streams PROVE IsBookmark(state[s])' /\ IsBookmark(saved[s])'
      OBVIOUS
    <3>2. IsBookmark(state[s]) /\ IsBookmark(saved[s])
      BY <1>3 DEF BookmarkInv
    <3>3. QED
      BY <1>2, <1>11, <2>1, <3>2 DEF IsBookmark
  <2>3. pc' \in {"tables", "reading", "closing"} => \A s \in binlog_streams' : HasPosition(state', s)
    BY <1>2, <1>3 DEF BookmarkInv, HasPosition
  <2>4. QED
    BY <2>2, <2>3 DEF BookmarkInv, HasPosition
\* A new change is behind no bookmark.
<1>14. ASSUME NEW st \in [Streams -> Bookmarks], \A s \in Streams : IsBookmark(st[s]),
              NEW c \in Changes', At(c)'.table \in Streams, HasPosition(st, At(c)'.table),
              IF use_gtid THEN At(c)'.txn <= st[At(c)'.table].gtid
              ELSE ~Before(Pos(st[At(c)'.table].file, st[At(c)'.table].pos), c)
       PROVE  c \in Changes
  <2>1. SUFFICES ASSUME c \notin Changes PROVE FALSE
    OBVIOUS
  <2> DEFINE b == st[At(c)'.table]
  <2>2. b \in Bookmarks /\ IsBookmark(b) /\ (b.file # 0 \/ b.gtid # 0)
    BY <1>14 DEF HasPosition
  <2>3. /\ Pos(b.file, b.pos) \in Positions /\ Stands(files, Pos(b.file, b.pos))
        /\ b.gtid \in Nat /\ b.gtid <= LastTxn
    BY <1>12, <2>2
  <2>4. Before(Pos(b.file, b.pos), c) /\ LastTxn < At(c)'.txn /\ At(c)'.txn \in Nat
    BY <1>8, <2>1, <2>3
  <2>5. ~(At(c)'.txn <= b.gtid)
    BY <1>4, <2>3, <2>4
  <2>6. QED
    BY <1>14, <2>4, <2>5
<1>15. ASSUME NEW c \in Changes', At(c)'.table \in Streams, HasPosition(state, At(c).table)',
              Behind(state, c)'
       PROVE  /\ c \in Changes /\ At(c)' = At(c)
              /\ HasPosition(state, At(c).table) /\ Behind(state, c)
  <2>1. HasPosition(state, At(c)'.table)
    BY <1>2, <1>15 DEF HasPosition
  <2>2. IF use_gtid THEN At(c)'.txn <= state[At(c)'.table].gtid
        ELSE ~Before(Pos(state[At(c)'.table].file, state[At(c)'.table].pos), c)
    BY <1>2, <1>15 DEF Behind
  <2>3. state \in [Streams -> Bookmarks] /\ \A s \in Streams : IsBookmark(state[s])
    BY <1>3 DEF TypeOK, BookmarkInv
  <2>4. c \in Changes
    BY <1>14, <1>15, <2>1, <2>2, <2>3
  <2>5. At(c)' = At(c)
    BY <1>9, <2>4
  <2>6. QED
    BY <2>1, <2>2, <2>4, <2>5 DEF Behind
<1>16. ASSUME NEW c \in Changes', At(c)'.table \in Streams, HasPosition(saved, At(c).table)',
              Behind(saved, c)'
       PROVE  /\ c \in Changes /\ At(c)' = At(c)
              /\ HasPosition(saved, At(c).table) /\ Behind(saved, c)
  <2>1. HasPosition(saved, At(c)'.table)
    BY <1>2, <1>16 DEF HasPosition
  <2>2. IF use_gtid THEN At(c)'.txn <= saved[At(c)'.table].gtid
        ELSE ~Before(Pos(saved[At(c)'.table].file, saved[At(c)'.table].pos), c)
    BY <1>2, <1>16 DEF Behind
  <2>3. saved \in [Streams -> Bookmarks] /\ \A s \in Streams : IsBookmark(saved[s])
    BY <1>3 DEF TypeOK, BookmarkInv
  <2>4. c \in Changes
    BY <1>14, <1>16, <2>1, <2>2, <2>3
  <2>5. At(c)' = At(c)
    BY <1>9, <2>4
  <2>6. QED
    BY <2>1, <2>2, <2>4, <2>5 DEF Behind
<1>17. ASSUME NEW c \in Changes, At(c)' = At(c) PROVE Excused(c)' <=> Excused(c)
  BY <1>2, <1>17 DEF Excused
<1>18. ASSUME NEW c \in Changes', At(c)'.table \in Streams, HasPosition(state, At(c).table)',
              Behind(state, c)', CoversUpTo(state, emitted)
       PROVE  (c \in emitted \/ Excused(c) \/ (use_gtid /\ At(c).txn = state[At(c).table].gtid))'
  BY <1>2, <1>15, <1>17, <1>18 DEF CoversUpTo
<1>19. ASSUME NEW c \in Changes', At(c)'.table \in Streams, HasPosition(saved, At(c).table)',
              Behind(saved, c)', CoversUpTo(saved, loaded)
       PROVE  (c \in loaded \/ Excused(c) \/ (use_gtid /\ At(c).txn = saved[At(c).table].gtid))'
  BY <1>2, <1>16, <1>17, <1>19 DEF CoversUpTo
<1>20. Covers(state, emitted, Streams) => Covers(state, emitted, Streams)'
  BY <1>2, <1>15, <1>17 DEF Covers
<1>21. Covers(state, emitted, Streams \ binlog_streams) => Covers(state, emitted, Streams \ binlog_streams)'
  BY <1>2, <1>15, <1>17 DEF Covers
<1>22. Covers(saved, loaded, Streams) => Covers(saved, loaded, Streams)'
  BY <1>2, <1>16, <1>17 DEF Covers
<1>23. CoversUpTo(state, emitted) => CoversUpTo(state, emitted)'
  BY <1>18 DEF CoversUpTo
<1>24. CoversUpTo(saved, loaded) => CoversUpTo(saved, loaded)'
  BY <1>19 DEF CoversUpTo
<1>25. CoverInv'
  <2>1. /\ CoversUpTo(saved, loaded)'
        /\ pc' \in {"idle", "tables"} => Covers(saved, loaded, Streams)'
        /\ pc' = "idle" => state' = saved'
        /\ pc' = "tables" => Covers(state, emitted, Streams)'
        /\ pc' \in {"reading", "closing"} =>
              CoversUpTo(state, emitted)' /\ Covers(state, emitted, Streams \ binlog_streams)'
    BY <1>2, <1>3, <1>20, <1>21, <1>22, <1>23, <1>24 DEF CoverInv
  <2>2. QED
    BY <2>1 DEF CoverInv
<1>26. ASSUME NEW v \in Positions, Stands(files, v), NEW c \in Changes', ~Before(v, c)
       PROVE  c \in Changes /\ At(c)' = At(c)
  BY <1>8, <1>9, <1>26
<1>27. ASSUME NEW c \in Changes', At(c)'.txn <= LastTxn
       PROVE  c \in Changes /\ At(c)' = At(c)
  <2>1. c \in Changes
    <3>1. SUFFICES ASSUME c \notin Changes PROVE FALSE
      OBVIOUS
    <3>2. LastTxn < At(c)'.txn /\ At(c)'.txn \in Nat
      BY <1>8, <3>1
    <3>3. QED
      BY <1>4, <1>27, <3>2
  <2>2. QED
    BY <1>9, <2>1
<1>28. ReadingInv'
  <2>1. SUFFICES ASSUME pc = "reading" PROVE ReadingInv'
    BY <1>2 DEF ReadingInv
  <2>2. /\ Stands(files, reader) /\ Stands(files, end) /\ end \notin Changes
        /\ Passed(reader)
        /\ GtidInv
        /\ IF log_at = NoPos THEN Covers(state, emitted, Streams)
                             ELSE Stands(files, log_at) /\ ~Before(reader, log_at)
    BY <1>3, <2>1 DEF ReadingInv
  <2>3. reader \in Positions /\ end \in Positions /\ log_at \in Positions /\ gtid_pos \in Nat
    BY <1>3 DEF TypeOK
  <2>4. Stands(files', reader) /\ Stands(files', end)
    BY <1>10, <2>2, <2>3
  <2>5. end \notin Changes'
    <3>1. SUFFICES ASSUME end \in Changes' PROVE FALSE
      OBVIOUS
    <3>2. Before(end, end)
      BY <1>8, <2>2, <2>3, <3>1
    <3>3. QED
      BY <2>3, <3>2, OrderOfPositions
  <2>6. Passed(reader)'
    BY <1>2, <1>17, <1>26, <2>2, <2>3 DEF Passed
  <2>7. GtidInv'
    <3>1. CASE ~use_gtid
      BY <1>2, <2>2, <3>1 DEF GtidInv
    <3>2. CASE use_gtid
      <4>1. /\ gtid_pos # 0 /\ gtid_pos <= LastTxn
            /\ \A c \in Changes : At(c).txn < gtid_pos => ~Before(reader, c)
            /\ \A c \in Changes : At(c).txn <= gtid_pos => Before(c, end) \/ ~Before(reader, c)
            /\ \A q \in Places, c \in Changes :
                  At(q).kind = "gtid" /\ At(q).txn = At(c).txn /\ Before(q, end) => Before(c, end)
        BY <2>2, <3>2 DEF GtidInv
      <4>2. gtid_pos <= LastTxn'
        BY <1>4, <2>3, <4>1
      <4>3. ASSUME NEW c \in Changes', At(c)'.txn <= gtid_pos
            PROVE  c \in Changes /\ At(c)' = At(c)
        <5>1. At(c)'.txn \in Nat
          <6>1. files' \in Seq(Seq(Events)) /\ c \in Places'
            BY <1>4 DEF LogInv, IsLog, Changes
          <6>2. At(c)' \in Events
            BY <6>1, OnTheLog, PlacesAre
          <6>3. QED
            BY <6>2 DEF Events
        <5>2. At(c)'.txn <= LastTxn
          BY <1>4, <2>3, <4>1, <4>3, <5>1
        <5>3. QED
          BY <1>27, <5>2
      <4>4. ASSUME NEW c \in Changes', At(c)'.txn < gtid_pos PROVE ~Before(reader, c)
        <5>1. At(c)'.txn <= gtid_pos
          <6>1. files' \in Seq(Seq(Events)) /\ c \in Places'
            BY <1>4 DEF LogInv, IsLog, Changes
          <6>2. At(c)' \in Events
            BY <6>1, OnTheLog, PlacesAre
          <6>3. At(c)'.txn \in Nat
            BY <6>2 DEF Events
          <6>4. QED
            BY <2>3, <4>4, <6>3
        <5>2. QED
          BY <4>1, <4>3, <4>4, <5>1
      <4>5. ASSUME NEW c \in Changes', At(c)'.txn <= gtid_pos PROVE Before(c, end) \/ ~Before(reader, c)
        BY <4>1, <4>3, <4>5
      <4>6. ASSUME NEW q \in Places', NEW c \in Changes',
                   At(q)'.kind = "gtid", At(q)'.txn = At(c)'.txn, Before(q, end)
            PROVE  Before(c, end)
        <5>1. q \in Positions
          <6>1. files' \in Seq(Seq(Events))
            BY <1>4 DEF LogInv, IsLog
          <6>2. QED
            BY <6>1, OnTheLog, PlacesAre
        <5>2. q \in Places
          <6>1. SUFFICES ASSUME q \notin Places PROVE FALSE
            OBVIOUS
          <6>2. Before(end, q)
            BY <1>7, <2>2, <2>3, <6>1
          <6>3. QED
            BY <2>3, <4>6, <5>1, <6>2, OrderOfPositions
        <5>3. At(q)' = At(q)
          BY <1>6, <5>2
        <5>4. At(c)'.txn <= LastTxn
          BY <1>3, <4>6, <5>2, <5>3, OnTheLog DEF LogInv, IsLog
        <5>5. c \in Changes /\ At(c)' = At(c)
          BY <1>27, <5>4
        <5>6. QED
          BY <4>1, <4>6, <5>2, <5>3, <5>5
      <4>7. QED
        BY <1>2, <3>2, <4>1, <4>2, <4>4, <4>5, <4>6 DEF GtidInv
    <3>3. QED
      BY <3>1, <3>2
  <2>8. IF log_at = NoPos THEN Covers(state, emitted, Streams)'
                          ELSE Stands(files', log_at) /\ ~Before(reader, log_at)
    BY <1>10, <1>20, <2>2, <2>3
  <2>9. QED
    BY <1>2, <2>4, <2>5, <2>6, <2>7, <2>8 DEF ReadingInv
<1>29. ClosingInv'
  <2>1. SUFFICES ASSUME pc = "closing" PROVE ClosingInv'
    BY <1>2 DEF ClosingInv
  <2>2. CASE log_at = NoPos
    <3>1. Covers(state, emitted, Streams)'
      BY <1>3, <1>20, <2>1, <2>2 DEF ClosingInv
    <3>2. QED
      BY <1>2, <2>2, <3>1 DEF ClosingInv
  <2>3. CASE log_at # NoPos
    <3>1. /\ Stands(files, log_at)
          /\ IF use_gtid
             THEN /\ gtid_pos # 0 /\ gtid_pos <= LastTxn
                  /\ \A c \in Changes : At(c).table \in binlog_streams /\ At(c).txn <= gtid_pos
                                            => c \in emitted \/ Excused(c)
             ELSE gtid_pos = 0 /\ Passed(log_at)
      BY <1>3, <2>1, <2>3 DEF ClosingInv
    <3>2. log_at \in Positions /\ gtid_pos \in Nat
      BY <1>3 DEF TypeOK
    <3>3. Stands(files', log_at)
      BY <1>10, <3>1, <3>2
    <3>4. CASE ~use_gtid
      <4>1. Passed(log_at)'
        BY <1>2, <1>17, <1>26, <3>1, <3>2, <3>4 DEF Passed
      <4>2. QED
        BY <1>2, <2>3, <3>1, <3>3, <3>4, <4>1 DEF ClosingInv
    <3>5. CASE use_gtid
      <4>1. gtid_pos <= LastTxn'
        BY <1>4, <3>1, <3>2, <3>5
      <4>2. ASSUME NEW c \in Changes', At(c)'.table \in binlog_streams, At(c)'.txn <= gtid_pos
            PROVE  c \in emitted \/ Excused(c)'
        <5>1. At(c)'.txn \in Nat
          <6>1. files' \in Seq(Seq(Events)) /\ c \in Places'
            BY <1>4 DEF LogInv, IsLog, Changes
          <6>2. At(c)' \in Events
            BY <6>1, OnTheLog, PlacesAre
          <6>3. QED
            BY <6>2 DEF Events
        <5>2. At(c)'.txn <= LastTxn
          BY <1>4, <3>1, <3>2, <3>5, <4>2, <5>1
        <5>3. c \in Changes /\ At(c)' = At(c)
          BY <1>27, <5>2
        <5>4. QED
          BY <1>17, <3>1, <3>5, <4>2, <5>3
      <4>3. QED
        BY <1>2, <2>3, <3>1, <3>3, <3>5, <4>1, <4>2 DEF ClosingInv
    <3>6. QED
      BY <3>4, <3>5
  <2>4. QED
    BY <2>2, <2>3
<1>30. QED
  BY <1>4, <1>5, <1>13, <1>25, <1>28, <1>29 DEF IInv

-----------------------------------------------------------------------------
(* The log stays as it is                                                  *)

LEMMA SameLog ==
    ASSUME UNCHANGED <<files, use_gtid>>
    PROVE  /\ Places' = Places /\ Changes' = Changes /\ LastTxn' = LastTxn
           /\ \A p : At(p)' = At(p)
           /\ LogInv' <=> LogInv
           /\ \A b : IsBookmark(b)' <=> IsBookmark(b)
<1>1. /\ Places' = Places /\ Changes' = Changes /\ LastTxn' = LastTxn
      /\ \A p : At(p)' = At(p)
  BY OnTheLog
<1>2. QED
  BY <1>1 DEF LogInv, IsBookmark

LEMMA InitIInv == Init => IInv
<1> SUFFICES ASSUME Init PROVE IInv
  OBVIOUS
<1>1. files \in Seq(Seq(Events)) /\ Len(files) = 1 /\ files[1] = << >>
  BY DEF Init
<1>2. PlacesIn(files) = {}
  <2>1. SUFFICES ASSUME NEW p \in PlacesIn(files) PROVE FALSE
    OBVIOUS
  <2>2. p.file = 1 /\ p.pos \in 1..Len(files[p.file])
    BY <1>1, PlacesAre
  <2>3. QED
    BY <1>1, <2>2
<1>3. IsLog(files, 0)
  BY <1>1, <1>2 DEF IsLog
<1>4. LogInv /\ LastTxn = 0
  BY <1>3, LastOfLog, OnTheLog DEF LogInv
<1>5. Changes = {}
  BY <1>2, OnTheLog DEF ChangesIn
<1>6. state = [s \in Streams |-> NoBookmark] /\ saved = state /\ pc = "idle"
  BY DEF Init
<1>7. NoBookmark \in Bookmarks /\ IsBookmark(NoBookmark)
  BY DEF NoBookmark, Bookmarks, IsBookmark
<1>8. TypeOK
  BY <1>6, <1>7 DEF Init, TypeOK, NoPos, Pos, Positions
<1>9. BookmarkInv
  BY <1>6, <1>7 DEF BookmarkInv
<1>10. CoverInv
  BY <1>5, <1>6 DEF CoverInv, Covers, CoversUpTo
<1>11. ReadingInv /\ ClosingInv
  BY <1>6 DEF ReadingInv, ClosingInv
<1>12. QED
  BY <1>4, <1>8, <1>9, <1>10, <1>11 DEF IInv

-----------------------------------------------------------------------------
(* The end of a run                                                        *)

\* A run may end wherever what is saved covers only what is loaded.
LEMMA ExitPreserves ==
    ASSUME IInv, UNCHANGED server, Exit,
           saved' \in [Streams -> Bookmarks], \A s \in Streams : IsBookmark(saved[s])',
           Covers(saved, loaded, Streams)', loaded' \subseteq emitted', binlog_crashes' \in Nat
    PROVE  IInv'
<1>1. TypeOK /\ LogInv
  BY DEF IInv
<1>2. files' = files /\ use_gtid' = use_gtid /\ oldest' = oldest
  BY DEF server
<1>3. pc' = "idle" /\ state' = saved' /\ binlog_streams' = {}
  BY DEF Exit
<1>4. TypeOK'
  BY <1>1, <1>2, <1>3 DEF TypeOK, Exit, NoPos, Pos, Positions
<1>5. LogInv'
  BY <1>1, <1>2, SameLog
<1>6. BookmarkInv'
  <2>1. \A s \in Streams : IsBookmark(state[s])' /\ IsBookmark(saved[s])'
    BY <1>3 DEF IsBookmark
  <2>2. QED
    BY <1>3, <2>1 DEF BookmarkInv
<1>7. CoversUpTo(saved, loaded)'
  BY DEF Covers, CoversUpTo
<1>8. CoverInv'
  BY <1>3, <1>7 DEF CoverInv
<1>9. ReadingInv' /\ ClosingInv'
  BY <1>3 DEF ReadingInv, ClosingInv
<1>10. QED
  BY <1>4, <1>5, <1>6, <1>8, <1>9 DEF IInv

LEMMA DiePreserves == ASSUME IInv, Die PROVE IInv'
<1>1. /\ UNCHANGED server /\ Exit /\ saved' = saved /\ loaded' = loaded /\ emitted' = loaded
      /\ binlog_crashes' = binlog_crashes + 1
      /\ interrupted' = interrupted \cup Gtids(saved, Streams)
  BY DEF Die, Lost
<1>2. TypeOK /\ BookmarkInv /\ CoverInv
  BY DEF IInv
<1>3. saved' \in [Streams -> Bookmarks] /\ binlog_crashes' \in Nat
  BY <1>1, <1>2 DEF TypeOK
<1>4. files' = files /\ use_gtid' = use_gtid
  BY <1>1 DEF server
<1>5. \A s \in Streams : IsBookmark(saved[s])'
  <2>1. SUFFICES ASSUME NEW s \in Streams PROVE IsBookmark(saved[s])'
    OBVIOUS
  <2>2. IsBookmark(saved[s])
    BY <1>2 DEF BookmarkInv
  <2>3. QED
    BY <1>1, <1>4, <2>2, SameLog DEF IsBookmark
<1>6. Covers(saved, loaded, Streams)'
  <2>1. SUFFICES ASSUME NEW c \in Changes', At(c)'.table \in Streams,
                        HasPosition(saved, At(c).table)', Behind(saved, c)'
                 PROVE  c \in loaded' \/ Excused(c)'
    BY DEF Covers
  <2>2. c \in Changes /\ At(c)' = At(c)
    BY <1>4, SameLog
  <2>3. HasPosition(saved, At(c).table) /\ Behind(saved, c)
    BY <1>1, <1>4, <2>1, <2>2 DEF HasPosition, Behind
  <2>4. c \in loaded \/ Excused(c) \/ (use_gtid /\ At(c).txn = saved[At(c).table].gtid)
    BY <1>2, <2>1, <2>2, <2>3 DEF CoverInv, CoversUpTo
  <2>5. CASE use_gtid /\ At(c).txn = saved[At(c).table].gtid
    <3>1. IsBookmark(saved[At(c).table])
      BY <1>2, <2>1, <2>2 DEF BookmarkInv
    <3>2. saved[At(c).table].gtid # 0
      BY <2>3, <2>5, <3>1 DEF IsBookmark, HasPosition
    <3>3. At(c).txn \in interrupted'
      BY <1>1, <2>1, <2>2, <2>5, <3>2 DEF Gtids
    <3>4. QED
      BY <1>4, <2>2, <2>5, <3>3 DEF Excused
  <2>6. QED
    BY <1>1, <1>4, <2>2, <2>4, <2>5 DEF Excused
<1>7. loaded' \subseteq emitted'
  BY <1>1
<1>8. QED
  BY <1>1, <1>3, <1>5, <1>6, <1>7, ExitPreserves

LEMMA FailToStartPreserves == ASSUME IInv, FailToStart PROVE IInv'
<1>1. /\ UNCHANGED server /\ UNCHANGED crashes /\ Exit
      /\ saved' = saved /\ loaded' = loaded /\ emitted' = loaded /\ pc = "tables"
  BY DEF FailToStart, Lost
<1>2. TypeOK /\ BookmarkInv /\ CoverInv
  BY DEF IInv
<1>3. saved' \in [Streams -> Bookmarks] /\ binlog_crashes' \in Nat
  BY <1>1, <1>2 DEF TypeOK, crashes
<1>4. files' = files /\ use_gtid' = use_gtid /\ interrupted' = interrupted
  BY <1>1 DEF server, crashes
<1>5. \A s \in Streams : IsBookmark(saved[s])'
  <2>1. SUFFICES ASSUME NEW s \in Streams PROVE IsBookmark(saved[s])'
    OBVIOUS
  <2>2. IsBookmark(saved[s])
    BY <1>2 DEF BookmarkInv
  <2>3. QED
    BY <1>1, <1>4, <2>2, SameLog DEF IsBookmark
<1>6. Covers(saved, loaded, Streams)'
  <2>1. Covers(saved, loaded, Streams)
    BY <1>1, <1>2 DEF CoverInv
  <2>2. QED
    BY <1>1, <1>4, <2>1, SameLog DEF Covers, HasPosition, Behind, Excused
<1>7. loaded' \subseteq emitted'
  BY <1>1
<1>8. QED
  BY <1>1, <1>3, <1>5, <1>6, <1>7, ExitPreserves

\* A run without streams in the log.
LEMMA NothingToReadPreserves ==
    ASSUME IInv, SyncBinlog, binlog_streams = {}
    PROVE  IInv'
<1>1. /\ UNCHANGED server /\ UNCHANGED crashes /\ Exit
      /\ saved' = state /\ loaded' = emitted /\ emitted' = emitted /\ pc = "tables"
  BY DEF SyncBinlog, RecordsAndLastState
<1>2. TypeOK /\ BookmarkInv /\ CoverInv
  BY DEF IInv
<1>3. saved' \in [Streams -> Bookmarks] /\ binlog_crashes' \in Nat
  BY <1>1, <1>2 DEF TypeOK, crashes
<1>4. files' = files /\ use_gtid' = use_gtid /\ interrupted' = interrupted
  BY <1>1 DEF server, crashes
<1>5. \A s \in Streams : IsBookmark(saved[s])'
  <2>1. SUFFICES ASSUME NEW s \in Streams PROVE IsBookmark(saved[s])'
    OBVIOUS
  <2>2. IsBookmark(state[s])
    BY <1>2 DEF BookmarkInv
  <2>3. QED
    BY <1>1, <1>4, <2>2, SameLog DEF IsBookmark
<1>6. Covers(saved, loaded, Streams)'
  <2>1. Covers(state, emitted, Streams)
    BY <1>1, <1>2 DEF CoverInv
  <2>2. QED
    BY <1>1, <1>4, <2>1, SameLog DEF Covers, HasPosition, Behind, Excused
<1>7. loaded' \subseteq emitted'
  BY <1>1
<1>8. QED
  BY <1>1, <1>3, <1>5, <1>6, <1>7, ExitPreserves

\* The closing bookmarks name only what the run has read, and what it has not
\* named is as it was.
LEMMA FinishPreserves == ASSUME IInv, Finish PROVE IInv'
<1> DEFINE g(s) == IF gtid_pos = 0 THEN state[s].gtid ELSE gtid_pos
<1>1. /\ UNCHANGED server /\ UNCHANGED crashes /\ Exit
      /\ loaded' = emitted /\ emitted' = emitted /\ pc = "closing"
      /\ saved' = IF log_at = NoPos THEN state ELSE update_bookmarks(state, log_at, gtid_pos)
  BY DEF Finish, RecordsAndLastState
<1>2. TypeOK /\ BookmarkInv /\ CoverInv /\ ClosingInv /\ LogInv
  BY DEF IInv
<1>3. files' = files /\ use_gtid' = use_gtid /\ interrupted' = interrupted
  BY <1>1 DEF server, crashes
<1>4. /\ state \in [Streams -> Bookmarks] /\ binlog_streams \subseteq Streams
      /\ log_at \in Positions /\ gtid_pos \in Nat /\ use_gtid \in BOOLEAN
  BY <1>2 DEF TypeOK
<1>5. ASSUME NEW s \in Streams
      PROVE  \/ saved'[s] = state[s] /\ (log_at = NoPos \/ s \notin binlog_streams)
             \/ /\ log_at # NoPos /\ s \in binlog_streams
                /\ saved'[s] = [file |-> log_at.file, pos |-> log_at.pos, gtid |-> g(s)]
  BY <1>1, <1>4 DEF update_bookmarks
<1>6. \A s \in Streams : state[s] \in Bookmarks /\ g(s) \in Nat
  BY <1>4 DEF Bookmarks
<1>7. saved' \in [Streams -> Bookmarks]
  <2>1. \A s \in Streams : [file |-> log_at.file, pos |-> log_at.pos, gtid |-> g(s)] \in Bookmarks
    BY <1>4, <1>6 DEF Positions, Bookmarks
  <2>2. update_bookmarks(state, log_at, gtid_pos) \in [Streams -> Bookmarks]
    BY <1>4, <1>6, <2>1 DEF update_bookmarks
  <2>3. QED
    BY <1>1, <1>4, <2>2
<1>8. LastTxn \in Nat
  BY <1>2 DEF LogInv, IsLog
<1>9. ASSUME NEW s \in Streams, s \in binlog_streams, log_at # NoPos
      PROVE  /\ Stands(files, log_at)
             /\ use_gtid => g(s) = gtid_pos /\ gtid_pos # 0 /\ gtid_pos <= LastTxn
             /\ ~use_gtid => gtid_pos = 0 /\ g(s) = 0
  <2>1. /\ Stands(files, log_at)
        /\ use_gtid => gtid_pos # 0 /\ gtid_pos <= LastTxn
        /\ ~use_gtid => gtid_pos = 0
    BY <1>1, <1>2, <1>9 DEF ClosingInv
  <2>2. HasPosition(state, s) /\ IsBookmark(state[s])
    BY <1>1, <1>2, <1>9 DEF BookmarkInv
  <2>3. ~use_gtid => state[s].gtid = 0
    BY <2>2 DEF HasPosition, IsBookmark
  <2>4. QED
    BY <2>1, <2>3
<1>10. \A s \in Streams : IsBookmark(saved[s])'
  <2>1. SUFFICES ASSUME NEW s \in Streams PROVE IsBookmark(saved[s])'
    OBVIOUS
  <2>2. CASE saved'[s] = state[s]
    <3>1. IsBookmark(state[s])
      BY <1>2 DEF BookmarkInv
    <3>2. QED
      BY <1>3, <2>2, <3>1, SameLog DEF IsBookmark
  <2>3. CASE /\ log_at # NoPos /\ s \in binlog_streams
             /\ saved'[s] = [file |-> log_at.file, pos |-> log_at.pos, gtid |-> g(s)]
    <3> DEFINE n == g(s)
    <3>1. saved'[s].file = log_at.file /\ saved'[s].pos = log_at.pos /\ saved'[s].gtid = n
      BY <2>3
    <3>2. Pos(log_at.file, log_at.pos) = log_at
      BY <1>4 DEF Pos, Positions
    <3>3. Stands(files, log_at) /\ (use_gtid <=> n # 0) /\ n <= LastTxn
      BY <1>4, <1>8, <1>9, <2>3
    <3> HIDE DEF n
    <3>4. LastTxn' = LastTxn
      BY <1>3, SameLog
    <3>5. QED
      BY <1>3, <3>1, <3>2, <3>3, <3>4 DEF IsBookmark
  <2>4. QED
    BY <1>5, <2>2, <2>3
<1>11. Covers(saved, loaded, Streams)'
  <2>1. SUFFICES ASSUME NEW c \in Changes', At(c)'.table \in Streams,
                        HasPosition(saved, At(c).table)', Behind(saved, c)'
                 PROVE  c \in loaded' \/ Excused(c)'
    BY DEF Covers
  <2>2. c \in Changes /\ At(c)' = At(c)
    BY <1>3, SameLog
  <2> DEFINE s == At(c).table
  <2>3. s \in Streams
    BY <2>1, <2>2
  <2>4. SUFFICES c \in emitted \/ Excused(c)
    BY <1>1, <1>3, <2>2 DEF Excused
  <2>5. IF use_gtid THEN At(c).txn <= saved'[s].gtid
        ELSE ~Before(Pos(saved'[s].file, saved'[s].pos), c)
    BY <1>3, <2>1, <2>2 DEF Behind
  <2>6. CASE saved'[s] = state[s] /\ (log_at = NoPos \/ s \notin binlog_streams)
    <3>1. HasPosition(state, s) /\ Behind(state, c)
      BY <2>1, <2>2, <2>5, <2>6 DEF HasPosition, Behind
    <3>2. Covers(state, emitted, Streams) \/ (s \notin binlog_streams /\ Covers(state, emitted, Streams \ binlog_streams))
      BY <1>1, <1>2, <2>6 DEF ClosingInv, CoverInv
    <3>3. QED
      BY <2>2, <2>3, <3>1, <3>2 DEF Covers
  <2>7. CASE /\ log_at # NoPos /\ s \in binlog_streams
             /\ saved'[s] = [file |-> log_at.file, pos |-> log_at.pos, gtid |-> g(s)]
    <3> DEFINE n == g(s)
    <3>1. saved'[s].file = log_at.file /\ saved'[s].pos = log_at.pos /\ saved'[s].gtid = n
      BY <2>7
    <3>2. use_gtid => n = gtid_pos
      BY <1>9, <2>3, <2>7
    <3> HIDE DEF n
    <3>3. Pos(log_at.file, log_at.pos) = log_at
      BY <1>4 DEF Pos, Positions
    <3>4. IF use_gtid
          THEN \A d \in Changes : At(d).table \in binlog_streams /\ At(d).txn <= gtid_pos
                                      => d \in emitted \/ Excused(d)
          ELSE Passed(log_at)
      BY <1>1, <1>2, <2>7 DEF ClosingInv
    <3>5. CASE use_gtid
      BY <2>2, <2>5, <2>7, <3>1, <3>2, <3>4, <3>5
    <3>6. CASE ~use_gtid
      BY <2>2, <2>5, <2>7, <3>1, <3>3, <3>4, <3>6 DEF Passed
    <3>7. QED
      BY <3>5, <3>6
  <2>8. QED
    BY <1>5, <2>3, <2>6, <2>7
<1>12. binlog_crashes' \in Nat /\ loaded' \subseteq emitted'
  BY <1>1, <1>2 DEF TypeOK, crashes
<1>13. QED
  BY <1>1, <1>7, <1>10, <1>11, <1>12, ExitPreserves

-----------------------------------------------------------------------------
(* The log as a run sees it                                                *)

LEMMA LogFacts ==
    ASSUME LogInv
    PROVE  /\ files \in Seq(Seq(Events)) /\ Len(files) \in Nat /\ Len(files) >= 1 /\ LastTxn \in Nat
           /\ \A f \in 1..Len(files) : Len(files[f]) \in Nat
           /\ \A p \in Places : /\ p \in Positions /\ p.file \in 1..Len(files)
                                /\ p.pos \in 1..Len(files[p.file])
                                /\ At(p) \in Events /\ At(p).txn \in Nat /\ At(p).txn <= LastTxn
                                /\ At(p).kind = "gtid" => At(p).txn # 0
           /\ \A p \in Positions : p.file \in 1..Len(files) /\ p.pos \in 1..Len(files[p.file])
                                       => p \in Places
           /\ \A c \in Changes : c \in Places /\ At(c).kind = "rows"
           /\ \A q \in Places, c \in Changes :
                 At(q).kind = "gtid" => (Before(c, q) <=> At(c).txn < At(q).txn)
           /\ \A t \in 1..LastTxn : \E q \in Places : At(q) = Event("gtid", t, OtherTable)
<1>1. IsLog(files, LastTxn)
  BY DEF LogInv
<1>2. files \in Seq(Seq(Events)) /\ Len(files) >= 1 /\ LastTxn \in Nat
  BY <1>1 DEF IsLog
<1> DEFINE S == Seq(Events)
<1>3. Len(files) \in Nat /\ \A f \in 1..Len(files) : files[f] \in S /\ Len(files[f]) \in Nat
  BY <1>2
<1>4. \A p : p \in Places <=> /\ p \in Positions /\ p.file \in 1..Len(files)
                              /\ p.pos \in 1..Len(files[p.file])
  BY <1>2, OnTheLog, PlacesAre
<1>5. ASSUME NEW p \in Places
      PROVE  /\ At(p) \in Events /\ At(p).txn \in Nat /\ At(p).txn <= LastTxn
             /\ At(p).kind = "gtid" => At(p).txn # 0
  <2>1. At(p) \in Events
    BY <1>2, <1>5, OnTheLog, PlacesAre
  <2>2. At(p).txn \in Nat
    BY <2>1 DEF Events
  <2>3. At(p).txn <= LastTxn
    BY <1>1, <1>5, OnTheLog DEF IsLog
  <2>4. At(p).kind = "gtid" => At(p).txn # 0
    BY <1>1, <1>5, OnTheLog DEF IsLog
  <2>5. QED
    BY <2>1, <2>2, <2>3, <2>4
<1>6. \A c \in Changes : c \in Places /\ At(c).kind = "rows"
  BY DEF Changes
<1>7. ASSUME NEW q \in Places, NEW c \in Changes, At(q).kind = "gtid"
      PROVE  Before(c, q) <=> At(c).txn < At(q).txn
  <2>1. c \in Places /\ At(c).kind \in {"gtid", "rows"}
    BY <1>6
  <2>2. ~Before(c, q) <=> At(q).txn <= At(c).txn
    BY <1>1, <1>7, <2>1, OnTheLog DEF IsLog
  <2>3. At(c).txn \in Nat /\ At(q).txn \in Nat
    BY <1>5, <2>1
  <2>4. At(q).txn <= At(c).txn <=> ~(At(c).txn < At(q).txn)
    BY <2>3
  <2>5. QED
    BY <2>2, <2>4
<1>8. \A t \in 1..LastTxn : \E q \in Places : At(q) = Event("gtid", t, OtherTable)
  BY <1>1, OnTheLog DEF IsLog
<1>9. QED
  BY <1>2, <1>3, <1>4, <1>5, <1>6, <1>7, <1>8

\* The end of the log: nothing is after it, and it is not after a change that
\* its transaction goes on from.
LEMMA AtMaster ==
    ASSUME LogInv
    PROVE  /\ Master \in Positions /\ Stands(files, Master) /\ Master \notin Changes
           /\ Master.file # 0
           /\ \A p \in Places : ~Before(Master, p)
           /\ \A c \in Changes : Before(c, Master)
<1> DEFINE L == Len(files)
           n == Len(files[L])
<1>1. /\ L \in Nat /\ L >= 1 /\ L \in 1..L /\ n \in Nat
  BY LogFacts
<1>2. Master.file = L /\ Master.pos = n
  BY DEF Master, Pos
<1>3. Master \in Positions
  BY <1>1 DEF Master, Pos, Positions
<1>4. Stands(files, Master)
  BY <1>1, <1>2, <1>3 DEF Stands
<1>5. Master \notin Changes
  <2>1. SUFFICES ASSUME Master \in Changes PROVE FALSE
    OBVIOUS
  <2>2. Master \in Places /\ At(Master).kind = "rows"
    BY <2>1, LogFacts
  <2>3. n \in 1..n
    BY <1>2, <2>2, LogFacts
  <2>4. files[L][n].kind # "rows"
    BY <1>1, <2>3 DEF LogInv, IsLog
  <2>5. At(Master) = files[L][n]
    BY <1>2 DEF At
  <2>6. QED
    BY <2>2, <2>4, <2>5
<1>6. ASSUME NEW p \in Places PROVE ~Before(Master, p)
  <2>1. p \in Positions /\ p.file \in 1..L /\ p.pos \in 1..Len(files[p.file])
    BY LogFacts
  <2>2. p.file = L => p.pos \in 1..n
    BY <2>1
  <2>3. QED
    BY <1>1, <1>2, <2>1, <2>2 DEF Before
<1>7. \A c \in Changes : Before(c, Master)
  <2>1. SUFFICES ASSUME NEW c \in Changes PROVE Before(c, Master)
    OBVIOUS
  <2>2. c \in Places /\ c \in Positions
    BY LogFacts
  <2>3. ~Before(Master, c) /\ c # Master
    BY <1>5, <1>6, <2>2
  <2>4. QED
    BY <1>3, <2>2, <2>3, OrderOfPositions
<1>8. QED
  BY <1>1, <1>2, <1>3, <1>4, <1>5, <1>6, <1>7

\* Where a run starts from the bookmarks of the streams S: what it does not
\* read is not after the bookmark of its stream.
LEMMA StartFacts ==
    ASSUME LogInv, use_gtid \in BOOLEAN, NEW st \in [Streams -> Bookmarks],
           NEW S \in SUBSET Streams, S # {},
           \A s \in S : HasPosition(st, s) /\ IsBookmark(st[s])
    PROVE  /\ StartOf(st, S) \in Positions /\ Stands(files, StartOf(st, S))
           /\ \A c \in Changes : At(c).table \in S /\ ~Before(StartOf(st, S), c) => Behind(st, c)
           /\ use_gtid => /\ calculate_gtid_bookmark(st, S) \in 1..LastTxn
                          /\ \A c \in Changes : At(c).txn <= calculate_gtid_bookmark(st, S)
                                                    => ~Before(StartOf(st, S), c)
<1>1. ASSUME NEW s \in S
      PROVE  /\ st[s].file \in Nat /\ st[s].pos \in Nat /\ st[s].gtid \in Nat
             /\ Pos(st[s].file, st[s].pos) \in Positions /\ Stands(files, Pos(st[s].file, st[s].pos))
             /\ st[s].gtid <= LastTxn /\ (use_gtid <=> st[s].gtid # 0)
  <2>1. st[s] \in Bookmarks
    OBVIOUS
  <2>2. st[s].file \in Nat /\ st[s].pos \in Nat /\ st[s].gtid \in Nat
    BY <2>1 DEF Bookmarks
  <2>3. st[s].file # 0 \/ st[s].gtid # 0
    BY DEF HasPosition
  <2>4. IsBookmark(st[s])
    OBVIOUS
  <2>5. QED
    BY <2>2, <2>3, <2>4 DEF IsBookmark, Pos, Positions
<1>2. CASE ~use_gtid
  <2> DEFINE M == Marks(st, S)
             e == Earliest(M)
  <2>1. M \subseteq Positions /\ M # {}
    BY <1>1 DEF Marks
  <2>2. e \in M /\ \A a \in M : ~Before(a, e)
    BY <2>1, EarliestPosition
  <2>3. StartOf(st, S) = e
    BY <1>2 DEF StartOf, calculate_bookmark
  <2> HIDE DEF e
  <2>4. e \in Positions /\ Stands(files, e)
    BY <1>1, <2>2 DEF Marks
  <2>5. ASSUME NEW c \in Changes, At(c).table \in S, ~Before(e, c) PROVE Behind(st, c)
    <3> DEFINE m == Pos(st[At(c).table].file, st[At(c).table].pos)
    <3>1. m \in M
      BY <2>5 DEF Marks
    <3>2. ~Before(m, e) /\ m \in Positions
      BY <2>1, <2>2, <3>1
    <3>3. c \in Positions
      BY LogFacts
    <3>4. ~Before(m, c)
      BY <2>4, <2>5, <3>2, <3>3, OrderOfPositions
    <3>5. QED
      BY <1>2, <3>4 DEF Behind
  <2>6. QED
    BY <1>2, <2>3, <2>4, <2>5
<1>3. CASE use_gtid
  <2> DEFINE G == Gtids(st, S)
             g == calculate_gtid_bookmark(st, S)
  <2>1. G \subseteq Nat /\ G # {} /\ \A h \in G : h # 0 /\ h <= LastTxn
    <3>1. \A h \in G : \E s \in S : h = st[s].gtid
      BY DEF Gtids
    <3>2. \A s \in S : st[s].gtid \in Nat /\ st[s].gtid # 0 /\ st[s].gtid <= LastTxn
      BY <1>1, <1>3
    <3>3. \A s \in S : st[s].gtid \in G
      BY <3>2 DEF Gtids
    <3>4. QED
      BY <3>1, <3>2, <3>3
  <2>2. g \in G /\ \A h \in G : g <= h
    <3>1. \E x \in G : \A y \in G : x <= y
      BY <2>1, LeastOfNat
    <3>2. g = SmallestNat(G)
      BY <2>1 DEF calculate_gtid_bookmark
    <3>3. QED
      BY <3>1, <3>2 DEF SmallestNat
  <2>3. StartOf(st, S) = AfterGtid(g)
    BY <1>3 DEF StartOf
  <2> HIDE DEF g
  <2>4. g \in Nat /\ g # 0 /\ g <= LastTxn
    BY <2>1, <2>2
  <2>5. LastTxn \in Nat
    BY LogFacts
  <2>6. g \in 1..LastTxn
    BY <2>4, <2>5
  <2> DEFINE a == AfterGtid(g)
  <2>7. /\ a \in Positions /\ Stands(files, a)
        /\ \A c \in Changes : ~Before(a, c) <=> At(c).txn <= g
    <3>1. CASE g < LastTxn
      <4> DEFINE p == CHOOSE q \in Places : At(q) = Event("gtid", g + 1, OtherTable)
      <4>1. p \in Places /\ At(p) = Event("gtid", g + 1, OtherTable)
        <5>1. g + 1 \in 1..LastTxn
          BY <2>4, <2>5, <3>1
        <5>2. \E q \in Places : At(q) = Event("gtid", g + 1, OtherTable)
          BY <5>1, LogFacts
        <5>3. QED
          BY <5>2
      <4>2. a = Pos(p.file, p.pos - 1)
        BY <3>1 DEF AfterGtid
      <4> HIDE DEF p, a
      <4>3. At(p).kind = "gtid" /\ At(p).txn = g + 1
        BY <4>1 DEF Event
      <4>4. /\ p \in Positions /\ p.file \in 1..Len(files) /\ p.pos \in 1..Len(files[p.file])
            /\ Len(files) \in Nat /\ Len(files[p.file]) \in Nat
        BY <4>1, LogFacts
      <4>5. a.file = p.file /\ a.pos = p.pos - 1 /\ a.pos \in Nat /\ a \in Positions
        BY <4>2, <4>4 DEF Pos, Positions
      <4>6. Stands(files, a)
        BY <4>4, <4>5 DEF Stands
      <4>7. ASSUME NEW c \in Changes PROVE ~Before(a, c) <=> At(c).txn <= g
        <5>1. c \in Positions /\ At(c).txn \in Nat
          BY LogFacts
        <5>2. Before(c, p) <=> At(c).txn < g + 1
          BY <4>1, <4>3, LogFacts
        <5>3. ~Before(a, c) <=> Before(c, p)
          BY <4>4, <4>5, <5>1 DEF Before, Positions
        <5>4. QED
          BY <2>4, <5>1, <5>2, <5>3
      <4>8. QED
        BY <4>5, <4>6, <4>7
    <3>2. CASE ~(g < LastTxn)
      <4>1. g = LastTxn
        BY <2>4, <2>5, <3>2
      <4>2. a = Master
        BY <3>2 DEF AfterGtid
      <4>3. \A c \in Changes : ~Before(Master, c) /\ At(c).txn <= LastTxn
        BY LogFacts, AtMaster
      <4>4. QED
        BY <4>1, <4>2, <4>3, AtMaster
    <3>3. QED
      BY <3>1, <3>2
  <2> HIDE DEF a
  <2>8. ASSUME NEW c \in Changes, At(c).table \in S, ~Before(a, c) PROVE Behind(st, c)
    <3>1. At(c).txn <= g /\ At(c).txn \in Nat
      BY <2>7, <2>8, LogFacts
    <3>2. st[At(c).table].gtid \in G /\ st[At(c).table].gtid \in Nat
      BY <1>1, <1>3, <2>8 DEF Gtids
    <3>3. g <= st[At(c).table].gtid
      BY <2>2, <3>2
    <3>4. At(c).txn <= st[At(c).table].gtid
      BY <2>4, <3>1, <3>2, <3>3
    <3>5. QED
      BY <1>3, <3>4 DEF Behind
  <2>9. StartOf(st, S) = a
    BY <2>3 DEF a
  <2>10. QED
    BY <2>6, <2>7, <2>8, <2>9 DEF g
<1>4. QED
  BY <1>2, <1>3

-----------------------------------------------------------------------------
(* Before the log is read                                                  *)

\* While the streams without a position are copied, bookmarks cover exactly
\* what is written.
LEMMA TablesPreserves ==
    ASSUME IInv, UNCHANGED <<server, crashes, loop>>, pc' = "tables",
           state' \in [Streams -> Bookmarks], saved' \in [Streams -> Bookmarks],
           \A s \in Streams : IsBookmark(state'[s]) /\ IsBookmark(saved'[s]),
           binlog_streams' \subseteq Streams, \A s \in binlog_streams' : HasPosition(state', s),
           Covers(state, emitted, Streams)', Covers(saved, loaded, Streams)', loaded' \subseteq emitted'
    PROVE  IInv'
<1>1. TypeOK /\ LogInv
  BY DEF IInv
<1>2. files' = files /\ use_gtid' = use_gtid /\ oldest' = oldest
  BY DEF server
<1>3. TypeOK'
  BY <1>1, <1>2 DEF TypeOK, crashes, loop
<1>4. LogInv'
  BY <1>1, <1>2, SameLog
<1>5. BookmarkInv'
  <2>1. \A s \in Streams : IsBookmark(state[s])' /\ IsBookmark(saved[s])'
    BY <1>2, SameLog DEF IsBookmark
  <2>2. QED
    BY <2>1 DEF BookmarkInv, HasPosition
<1>6. CoversUpTo(saved, loaded)'
  BY DEF Covers, CoversUpTo
<1>7. CoverInv'
  BY <1>6 DEF CoverInv
<1>8. ReadingInv' /\ ClosingInv'
  BY DEF ReadingInv, ClosingInv
<1>9. QED
  BY <1>3, <1>4, <1>5, <1>7, <1>8 DEF IInv

LEMMA PurgePreserves == ASSUME IInv, Purge PROVE IInv'
<1>1. /\ UNCHANGED <<files, use_gtid, pc, state, binlog_streams, reader, end, log_at, gtid_pos,
                     processed_rows_events, events_skipped, binlog_crashes, interrupted,
                     emitted, loaded, saved>>
      /\ pc = "idle" /\ oldest' = oldest + 1
  BY DEF Purge, loop, crashes, pipe
<1>2. TypeOK /\ LogInv /\ BookmarkInv /\ CoverInv
  BY DEF IInv
<1>3. TypeOK'
  BY <1>1, <1>2 DEF TypeOK
<1>4. LogInv' /\ Changes' = Changes /\ \A p : At(p)' = At(p)
  BY <1>1, <1>2, SameLog
<1>5. BookmarkInv'
  <2>1. \A s \in Streams : IsBookmark(state[s])' /\ IsBookmark(saved[s])'
    <3>1. SUFFICES ASSUME NEW s \in Streams PROVE IsBookmark(state[s])' /\ IsBookmark(saved[s])'
      OBVIOUS
    <3>2. IsBookmark(state[s]) /\ IsBookmark(saved[s])
      BY <1>2 DEF BookmarkInv
    <3>3. QED
      BY <1>1, <3>2, SameLog DEF IsBookmark
  <2>2. QED
    BY <1>1, <2>1 DEF BookmarkInv
<1>6. Covers(saved, loaded, Streams)'
  <2>1. Covers(saved, loaded, Streams)
    BY <1>1, <1>2 DEF CoverInv
  <2>2. QED
    BY <1>1, <1>4, <2>1 DEF Covers, HasPosition, Behind, Excused
<1>7. CoversUpTo(saved, loaded)'
  BY <1>6 DEF Covers, CoversUpTo
<1>8. state' = saved'
  BY <1>1, <1>2 DEF CoverInv
<1>9. CoverInv'
  BY <1>1, <1>6, <1>7, <1>8 DEF CoverInv
<1>10. ReadingInv' /\ ClosingInv'
  BY <1>1 DEF ReadingInv, ClosingInv
<1>11. QED
  BY <1>3, <1>4, <1>5, <1>9, <1>10 DEF IInv

LEMMA StartTapPreserves == ASSUME IInv, StartTap PROVE IInv'
<1>1. /\ UNCHANGED <<server, crashes, loop>> /\ pc' = "tables" /\ pc = "idle"
      /\ state' = saved /\ saved' = saved /\ loaded' = loaded /\ emitted' = emitted
      /\ binlog_streams' = {s \in Streams : HasPosition(saved, s)}
  BY DEF StartTap, pipe
<1>2. TypeOK /\ BookmarkInv /\ CoverInv
  BY DEF IInv
<1>3. files' = files /\ use_gtid' = use_gtid /\ interrupted' = interrupted
  BY <1>1 DEF server, crashes
<1>4. saved \in [Streams -> Bookmarks] /\ loaded \subseteq emitted
  BY <1>2 DEF TypeOK
<1>5. \A s \in Streams : IsBookmark(saved[s])
  BY <1>2 DEF BookmarkInv
<1>6. Covers(saved, loaded, Streams)
  BY <1>1, <1>2 DEF CoverInv
<1>7. Covers(saved, loaded, Streams)'
  BY <1>1, <1>3, <1>6, SameLog DEF Covers, HasPosition, Behind, Excused
<1>8. Covers(state, emitted, Streams)'
  BY <1>1, <1>3, <1>4, <1>6, SameLog DEF Covers, HasPosition, Behind, Excused
<1>9. \A s \in binlog_streams' : HasPosition(state', s)
  BY <1>1
<1>10. QED
  BY <1>1, <1>4, <1>5, <1>7, <1>8, <1>9, TablesPreserves

\* A copy of the table holds all its changes up to the end of the log.
LEMMA HistoricalSyncPreserves ==
    ASSUME IInv, NEW s \in Streams, HistoricalSync(s)
    PROVE  IInv'
<1> DEFINE b == [file |-> Master.file, pos |-> Master.pos, gtid |-> IF use_gtid THEN LastTxn ELSE 0]
           R == {c \in Changes : At(c).table = s}
<1>1. /\ UNCHANGED <<server, crashes, loop>> /\ pc' = "tables" /\ pc = "tables"
      /\ binlog_streams' = binlog_streams
      /\ use_gtid => LastTxn # 0
      /\ state' = [state EXCEPT ![s] = b]
      /\ emitted' = emitted \cup R
      /\ \/ loaded' = emitted' /\ saved' = state'
         \/ loaded' = loaded /\ saved' = saved
  BY DEF HistoricalSync, RecordsAndState
<1>2. TypeOK /\ BookmarkInv /\ CoverInv /\ LogInv
  BY DEF IInv
<1>3. files' = files /\ use_gtid' = use_gtid /\ interrupted' = interrupted
  BY <1>1 DEF server, crashes
<1>4. /\ state \in [Streams -> Bookmarks] /\ saved \in [Streams -> Bookmarks]
      /\ loaded \subseteq emitted /\ binlog_streams \subseteq Streams /\ use_gtid \in BOOLEAN
  BY <1>2 DEF TypeOK
<1>5. /\ Master \in Positions /\ Stands(files, Master) /\ Master.file # 0 /\ LastTxn \in Nat
      /\ Master = Pos(Master.file, Master.pos)
  <2>1. Master \in Positions
    BY <1>2, AtMaster
  <2>2. Master = Pos(Master.file, Master.pos)
    BY <2>1 DEF Pos, Positions
  <2>3. QED
    BY <1>2, <2>2, AtMaster, LogFacts
<1>6. b \in Bookmarks /\ IsBookmark(b) /\ b.file # 0
  <2>1. b \in Bookmarks
    BY <1>5 DEF Bookmarks, Positions
  <2>2. b.file = Master.file /\ b.pos = Master.pos /\ b.gtid = IF use_gtid THEN LastTxn ELSE 0
    OBVIOUS
  <2> HIDE DEF b
  <2>3. (use_gtid <=> b.gtid # 0) /\ b.gtid <= LastTxn
    BY <1>1, <1>4, <1>5, <2>2
  <2>4. QED
    BY <1>5, <2>1, <2>2, <2>3 DEF IsBookmark
<1> HIDE DEF b
<1>7. /\ state' \in [Streams -> Bookmarks] /\ state'[s] = b
      /\ \A r \in Streams : r # s => state'[r] = state[r]
  BY <1>1, <1>4, <1>6
<1>8. saved' \in [Streams -> Bookmarks]
  BY <1>1, <1>4, <1>7
<1>9. \A r \in Streams : IsBookmark(state'[r]) /\ IsBookmark(saved'[r])
  <2>1. \A r \in Streams : IsBookmark(state[r]) /\ IsBookmark(saved[r])
    BY <1>2 DEF BookmarkInv
  <2>2. \A r \in Streams : IsBookmark(state'[r])
    BY <1>6, <1>7, <2>1
  <2>3. QED
    BY <1>1, <2>1, <2>2
<1>10. \A r \in binlog_streams' : HasPosition(state', r)
  <2>1. SUFFICES ASSUME NEW r \in binlog_streams PROVE HasPosition(state', r)
    BY <1>1
  <2>2. HasPosition(state, r) /\ r \in Streams
    BY <1>1, <1>2, <1>4 DEF BookmarkInv
  <2>3. CASE r = s
    BY <1>6, <1>7, <2>3 DEF HasPosition
  <2>4. CASE r # s
    BY <1>7, <2>2, <2>4 DEF HasPosition
  <2>5. QED
    BY <2>3, <2>4
<1>11. Covers(state, emitted, Streams)'
  <2>1. SUFFICES ASSUME NEW c \in Changes', At(c)'.table \in Streams,
                        HasPosition(state, At(c).table)', Behind(state, c)'
                 PROVE  c \in emitted' \/ Excused(c)'
    BY DEF Covers
  <2>2. c \in Changes /\ At(c)' = At(c)
    BY <1>3, SameLog
  <2>3. CASE At(c).table = s
    BY <1>1, <2>2, <2>3
  <2>4. CASE At(c).table # s
    <3>1. state'[At(c).table] = state[At(c).table]
      BY <1>7, <2>1, <2>2, <2>4
    <3>2. HasPosition(state, At(c).table) /\ Behind(state, c)
      BY <1>3, <2>1, <2>2, <3>1 DEF HasPosition, Behind
    <3>3. Covers(state, emitted, Streams)
      BY <1>1, <1>2 DEF CoverInv
    <3>4. c \in emitted \/ Excused(c)
      BY <2>1, <2>2, <3>2, <3>3 DEF Covers
    <3>5. QED
      BY <1>1, <1>3, <2>2, <3>4 DEF Excused
  <2>5. QED
    BY <2>3, <2>4
<1>12. Covers(saved, loaded, Streams)'
  <2>1. CASE loaded' = emitted' /\ saved' = state'
    BY <1>11, <2>1 DEF Covers, HasPosition, Behind, Excused
  <2>2. CASE loaded' = loaded /\ saved' = saved
    <3>1. Covers(saved, loaded, Streams)
      BY <1>1, <1>2 DEF CoverInv
    <3>2. QED
      BY <1>3, <2>2, <3>1, SameLog DEF Covers, HasPosition, Behind, Excused
  <2>3. QED
    BY <1>1, <2>1, <2>2
<1>13. loaded' \subseteq emitted'
  BY <1>1, <1>4
<1>14. binlog_streams' \subseteq Streams
  BY <1>1, <1>4
<1>15. QED
  BY <1>1, <1>7, <1>8, <1>9, <1>10, <1>11, <1>12, <1>13, <1>14, TablesPreserves

\* What a run does not read its bookmarks cover.
LEMMA SyncBinlogPreserves ==
    ASSUME IInv, SyncBinlog, binlog_streams # {}
    PROVE  IInv'
<1>1. /\ UNCHANGED <<files, use_gtid, oldest, interrupted, binlog_crashes,
                     state, binlog_streams, emitted, loaded, saved>>
      /\ pc = "tables" /\ pc' = "reading"
      /\ reader' = StartOf(state, binlog_streams)
      /\ gtid_pos' = IF use_gtid THEN calculate_gtid_bookmark(state, binlog_streams) ELSE 0
      /\ end' = Master /\ log_at' = NoPos
      /\ processed_rows_events' = 0 /\ events_skipped' = 0
  BY DEF SyncBinlog, server, crashes, pipe
<1>2. TypeOK /\ BookmarkInv /\ CoverInv /\ LogInv
  BY DEF IInv
<1>3. /\ Places' = Places /\ Changes' = Changes /\ LastTxn' = LastTxn /\ LogInv'
      /\ \A p : At(p)' = At(p)
  BY <1>1, <1>2, SameLog
<1>4. /\ state \in [Streams -> Bookmarks] /\ binlog_streams \in SUBSET Streams /\ use_gtid \in BOOLEAN
      /\ \A s \in binlog_streams : HasPosition(state, s) /\ IsBookmark(state[s])
  BY <1>1, <1>2 DEF TypeOK, BookmarkInv
<1> DEFINE a == StartOf(state, binlog_streams)
           g == calculate_gtid_bookmark(state, binlog_streams)
<1>5. /\ a \in Positions /\ Stands(files, a)
      /\ \A c \in Changes : At(c).table \in binlog_streams /\ ~Before(a, c) => Behind(state, c)
      /\ use_gtid => g \in 1..LastTxn /\ \A c \in Changes : At(c).txn <= g => ~Before(a, c)
  BY <1>2, <1>4, StartFacts
<1> HIDE DEF a, g
<1>6. reader' = a /\ gtid_pos' = IF use_gtid THEN g ELSE 0
  BY <1>1 DEF a, g
<1>7. /\ Master \in Positions /\ Stands(files, Master) /\ Master \notin Changes
      /\ \A c \in Changes : Before(c, Master)
  BY <1>2, AtMaster
<1>8. LastTxn \in Nat
  BY <1>2, LogFacts
<1>9. gtid_pos' \in Nat
  BY <1>5, <1>6, <1>8
<1>10. TypeOK'
  <2>1. NoPos \in Positions
    BY DEF NoPos, Pos, Positions
  <2>2. QED
    BY <1>1, <1>2, <1>5, <1>6, <1>7, <1>9, <2>1 DEF TypeOK
<1>11. Covers(state, emitted, Streams)
  BY <1>1, <1>2 DEF CoverInv
<1>12. /\ Covers(state, emitted, Streams)' /\ Covers(state, emitted, Streams \ binlog_streams)'
       /\ CoversUpTo(state, emitted)'
  BY <1>1, <1>3, <1>11 DEF Covers, CoversUpTo, HasPosition, Behind, Excused
<1>13. CoversUpTo(saved, loaded)'
  <2>1. CoversUpTo(saved, loaded)
    BY <1>2 DEF CoverInv
  <2>2. QED
    BY <1>1, <1>3, <2>1 DEF CoversUpTo, HasPosition, Behind, Excused
<1>14. CoverInv'
  BY <1>1, <1>12, <1>13 DEF CoverInv
<1>15. BookmarkInv'
  <2>1. \A s \in Streams : IsBookmark(state[s])' /\ IsBookmark(saved[s])'
    <3>1. SUFFICES ASSUME NEW s \in Streams PROVE IsBookmark(state[s])' /\ IsBookmark(saved[s])'
      OBVIOUS
    <3>2. IsBookmark(state[s]) /\ IsBookmark(saved[s])
      BY <1>2 DEF BookmarkInv
    <3>3. QED
      BY <1>1, <3>2, SameLog DEF IsBookmark
  <2>2. QED
    BY <1>1, <1>4, <2>1 DEF BookmarkInv, HasPosition
<1>16. Passed(reader)'
  <2>1. SUFFICES ASSUME NEW c \in Changes, At(c).table \in binlog_streams, ~Before(a, c)
                 PROVE  c \in emitted \/ Excused(c)
    BY <1>1, <1>3, <1>6 DEF Passed, Excused
  <2>2. Behind(state, c) /\ HasPosition(state, At(c).table) /\ At(c).table \in Streams
    BY <1>4, <1>5, <2>1
  <2>3. QED
    BY <1>11, <2>2 DEF Covers
<1>17. GtidInv'
  <2>1. CASE ~use_gtid
    BY <1>1, <1>6, <2>1 DEF GtidInv
  <2>2. CASE use_gtid
    <3>1. gtid_pos' = g /\ g \in 1..LastTxn
      BY <1>5, <1>6, <2>2
    <3>2. gtid_pos' # 0 /\ gtid_pos' <= LastTxn
      BY <1>8, <3>1
    <3>3. ASSUME NEW c \in Changes, At(c).txn <= gtid_pos' PROVE ~Before(reader', c)
      BY <1>5, <1>6, <2>2, <3>1, <3>3
    <3>4. ASSUME NEW c \in Changes, At(c).txn < gtid_pos' PROVE ~Before(reader', c)
      <4>1. At(c).txn \in Nat
        BY <1>2, LogFacts
      <4>2. At(c).txn <= gtid_pos'
        BY <1>9, <3>4, <4>1
      <4>3. QED
        BY <3>3, <4>2
    <3>5. \A c \in Changes : Before(c, end')
      BY <1>1, <1>7
    <3>6. QED
      BY <1>1, <1>3, <2>2, <3>2, <3>3, <3>4, <3>5 DEF GtidInv
  <2>3. QED
    BY <1>4, <2>1, <2>2
<1>18. ReadingInv'
  BY <1>1, <1>3, <1>5, <1>6, <1>7, <1>12, <1>16, <1>17 DEF ReadingInv
<1>19. ClosingInv'
  BY <1>1 DEF ClosingInv
<1>20. QED
  BY <1>3, <1>10, <1>14, <1>15, <1>18, <1>19 DEF IInv

-----------------------------------------------------------------------------
(* The log is read                                                         *)

\* The event the reader gets, and where it stands with it.
LEMMA ReadFacts ==
    ASSUME LogInv, reader \in Positions, Stands(files, reader), HasNext
    PROVE  LET here == Pos(reader.file, reader.pos + 1)
           IN  /\ here \in Places /\ At(here) = Read
               /\ Read.kind # "rotate" => ReadAt = here
               /\ ReadAt \in Positions /\ Stands(files, ReadAt) /\ ReadAt # NoPos
               /\ Before(reader, ReadAt)
               /\ \A c \in Changes : ~Before(ReadAt, c) /\ Before(reader, c)
                                         => c = here /\ Read.kind = "rows"
<1> DEFINE here == Pos(reader.file, reader.pos + 1)
           f == reader.file
           n == reader.pos
<1>1. /\ f \in Nat /\ n \in Nat /\ f \in 1..Len(files) /\ Len(files) \in Nat
      /\ Len(files[f]) \in Nat /\ n < Len(files[f])
      /\ \A h \in 1..Len(files) : Len(files[h]) \in Nat
  <2>1. f \in Nat /\ n \in Nat
    BY DEF Positions
  <2>2. f \in 1..Len(files) /\ n < Len(files[f])
    BY DEF Stands, HasNext
  <2>3. QED
    BY <2>1, <2>2, LogFacts
<1>2. here.file = f /\ here.pos = n + 1 /\ here \in Positions
  BY <1>1 DEF Pos, Positions
<1>3. here \in Places /\ At(here) = Read
  <2>1. n + 1 \in 1..Len(files[f])
    BY <1>1
  <2>2. here \in Places
    BY <1>1, <1>2, <2>1, LogFacts
  <2>3. QED
    BY <1>2, <2>2 DEF At, Read
<1> HIDE DEF here
<1>4. Read.kind = "rotate" <=> f < Len(files) /\ n + 1 = Len(files[f])
  <2>1. EventAt(files, here).kind = "rotate" <=> here.file < Len(files) /\ here.pos = Len(files[here.file])
    BY <1>3, OnTheLog DEF LogInv, IsLog
  <2>2. EventAt(files, here) = Read
    BY <1>3, OnTheLog
  <2>3. QED
    BY <1>2, <2>1, <2>2
<1>5. CASE Read.kind = "rotate"
  <2>1. ReadAt = Pos(f + 1, 0)
    BY <1>5 DEF ReadAt
  <2>2. ReadAt.file = f + 1 /\ ReadAt.pos = 0 /\ ReadAt \in Positions
    BY <1>1, <2>1 DEF Pos, Positions
  <2>3. f + 1 \in 1..Len(files)
    BY <1>1, <1>4, <1>5
  <2>4. f + 1 < Len(files) => Len(files[f + 1]) >= 1
    BY <2>3 DEF LogInv, IsLog
  <2>5. Len(files[f + 1]) \in Nat
    BY <1>1, <2>3
  <2>6. Stands(files, ReadAt)
    BY <2>2, <2>3, <2>4, <2>5 DEF Stands
  <2>7. ReadAt # NoPos
    BY <1>1, <2>2 DEF NoPos, Pos
  <2>8. Before(reader, ReadAt)
    BY <1>1, <2>2 DEF Before
  <2>9. ASSUME NEW c \in Changes, ~Before(ReadAt, c), Before(reader, c)
        PROVE  FALSE
    <3>1. /\ c \in Places /\ c.file \in Nat /\ c.pos \in Nat /\ c.pos \in 1..Len(files[c.file])
          /\ c \in Positions
      BY LogFacts DEF Positions
    <3>2. c.file < f + 1
      BY <1>1, <2>2, <2>9, <3>1 DEF Before
    <3>3. c.file = f /\ n < c.pos
      BY <1>1, <2>9, <3>1, <3>2 DEF Before
    <3>4. c.pos = n + 1
      BY <1>1, <1>4, <1>5, <3>1, <3>3
    <3>5. c = here
      BY <1>2, <3>1, <3>3, <3>4 DEF here, Pos, Positions
    <3>6. At(c).kind = "rows"
      BY LogFacts
    <3>7. QED
      BY <1>3, <1>5, <3>5, <3>6
  <2>10. QED
    BY <1>3, <1>5, <2>2, <2>6, <2>7, <2>8, <2>9 DEF here
<1>6. CASE Read.kind # "rotate"
  <2>1. ReadAt = here
    BY <1>6 DEF ReadAt, here
  <2>2. Stands(files, here)
    BY <1>1, <1>2, <1>4, <1>6 DEF Stands
  <2>3. here # NoPos
    BY <1>1, <1>2 DEF NoPos, Pos
  <2>4. Before(reader, here)
    BY <1>1, <1>2 DEF Before
  <2>5. ASSUME NEW c \in Changes, ~Before(here, c), Before(reader, c)
        PROVE  c = here /\ Read.kind = "rows"
    <3>1. c.file \in Nat /\ c.pos \in Nat /\ c \in Positions
      BY LogFacts DEF Positions
    <3>2. c.file = f /\ c.pos = n + 1
      BY <1>1, <1>2, <2>5, <3>1 DEF Before
    <3>3. c = here
      BY <3>1, <3>2 DEF here, Pos, Positions
    <3>4. At(c).kind = "rows"
      BY LogFacts
    <3>5. QED
      BY <1>3, <3>3, <3>4
  <2>6. QED
    BY <1>2, <1>3, <2>1, <2>2, <2>3, <2>4, <2>5 DEF here
<1>7. QED
  BY <1>5, <1>6

\* The reader moves on past an event whose rows are written, if it has any.
LEMMA PassesOn ==
    ASSUME IInv, pc = "reading", HasNext, reader' = ReadAt,
           UNCHANGED <<files, use_gtid, binlog_streams, interrupted>>, emitted \subseteq emitted',
           Read.kind = "rows" /\ Read.table \in binlog_streams => ReadAt \in emitted'
    PROVE  Passed(reader)'
<1>1. TypeOK /\ LogInv /\ ReadingInv
  BY DEF IInv
<1>2. reader \in Positions /\ Stands(files, reader) /\ Passed(reader)
  BY <1>1 DEF TypeOK, ReadingInv
<1> DEFINE here == Pos(reader.file, reader.pos + 1)
<1>3. /\ At(here) = Read
      /\ Read.kind # "rotate" => ReadAt = here
      /\ \A c \in Changes : ~Before(ReadAt, c) /\ Before(reader, c) => c = here /\ Read.kind = "rows"
  BY <1>1, <1>2, ReadFacts
<1> HIDE DEF here
<1>4. SUFFICES ASSUME NEW c \in Changes, At(c).table \in binlog_streams, ~Before(ReadAt, c)
               PROVE  c \in emitted' \/ Excused(c)
  BY SameLog DEF Passed, Excused
<1>5. CASE Before(reader, c)
  <2>1. c = here /\ Read.kind = "rows"
    BY <1>3, <1>4, <1>5
  <2>2. Read.table \in binlog_streams /\ c = ReadAt
    BY <1>3, <1>4, <2>1
  <2>3. QED
    BY <2>1, <2>2
<1>6. CASE ~Before(reader, c)
  BY <1>2, <1>4, <1>6 DEF Passed
<1>7. QED
  BY <1>5, <1>6

\* The GTID of the run still names what the reader is at.
LEMMA GtidStays ==
    ASSUME IInv, pc = "reading", HasNext, reader' = ReadAt,
           UNCHANGED <<files, use_gtid, end, gtid_pos>>
    PROVE  GtidInv'
<1>1. TypeOK /\ LogInv /\ ReadingInv
  BY DEF IInv
<1>2. reader \in Positions /\ Stands(files, reader) /\ GtidInv /\ use_gtid \in BOOLEAN
  BY <1>1 DEF TypeOK, ReadingInv
<1>3. ReadAt \in Positions /\ Before(reader, ReadAt)
  BY <1>1, <1>2, ReadFacts
<1>4. ASSUME NEW c \in Changes, ~Before(reader, c) PROVE ~Before(reader', c)
  <2>1. c \in Positions
    BY <1>1, LogFacts
  <2>2. QED
    BY <1>2, <1>3, <1>4, <2>1, OrderOfPositions
<1>5. CASE ~use_gtid
  BY <1>2, <1>5 DEF GtidInv
<1>6. CASE use_gtid
  <2>1. /\ gtid_pos # 0 /\ gtid_pos <= LastTxn
        /\ \A c \in Changes : At(c).txn < gtid_pos => ~Before(reader, c)
        /\ \A c \in Changes : At(c).txn <= gtid_pos => Before(c, end) \/ ~Before(reader, c)
        /\ \A q \in Places, c \in Changes :
              At(q).kind = "gtid" /\ At(q).txn = At(c).txn /\ Before(q, end) => Before(c, end)
    BY <1>2, <1>6 DEF GtidInv
  <2>2. \A c \in Changes : At(c).txn < gtid_pos => ~Before(reader', c)
    BY <1>4, <2>1
  <2>3. \A c \in Changes : At(c).txn <= gtid_pos => Before(c, end) \/ ~Before(reader', c)
    BY <1>4, <2>1
  <2>4. QED
    BY <1>6, <2>1, <2>2, <2>3, SameLog DEF GtidInv
<1>7. QED
  BY <1>2, <1>5, <1>6

\* What a turn of the loop makes of the state: the streams of the map may get
\* the position of the event, and the GTID g.
IsMovedTo(st, g) ==
    /\ st \in [Streams -> Bookmarks]
    /\ \A s \in Streams :
          \/ st[s] = state[s]
          \/ s \in binlog_streams /\ st[s] = [file |-> ReadAt.file, pos |-> ReadAt.pos,
                                              gtid |-> IF g = 0 THEN state[s].gtid ELSE g]

LEMMA UpdateMoves ==
    ASSUME NEW g \in Nat, NEW st, IsMovedTo(st, g), ReadAt \in Positions
    PROVE  IsMovedTo(update_bookmarks(st, ReadAt, g), g)
<1> DEFINE u == update_bookmarks(st, ReadAt, g)
           b(s) == [file |-> ReadAt.file, pos |-> ReadAt.pos, gtid |-> IF g = 0 THEN st[s].gtid ELSE g]
<1>1. st \in [Streams -> Bookmarks]
  BY DEF IsMovedTo
<1>2. \A s \in Streams : b(s) \in Bookmarks
  BY <1>1 DEF Bookmarks, Positions
<1>3. u = [s \in Streams |-> IF s \notin binlog_streams THEN st[s] ELSE b(s)]
  BY DEF update_bookmarks
<1>4. u \in [Streams -> Bookmarks]
  BY <1>1, <1>2, <1>3
<1>5. ASSUME NEW s \in Streams
      PROVE  \/ u[s] = state[s]
             \/ s \in binlog_streams /\ u[s] = [file |-> ReadAt.file, pos |-> ReadAt.pos,
                                                gtid |-> IF g = 0 THEN state[s].gtid ELSE g]
  <2>1. \/ st[s] = state[s]
        \/ s \in binlog_streams /\ st[s] = [file |-> ReadAt.file, pos |-> ReadAt.pos,
                                            gtid |-> IF g = 0 THEN state[s].gtid ELSE g]
    BY DEF IsMovedTo
  <2>2. CASE s \notin binlog_streams
    BY <1>3, <2>1, <2>2
  <2>3. CASE s \in binlog_streams
    <3>1. u[s] = b(s)
      BY <1>3, <2>3
    <3>2. g = 0 => st[s].gtid = state[s].gtid
      BY <2>1
    <3>3. QED
      BY <2>3, <3>1, <3>2
  <2>4. QED
    BY <2>2, <2>3
<1>6. QED
  BY <1>4, <1>5 DEF IsMovedTo

\* The end of a turn: perhaps another update, and a STATE.
Writes(R) == /\ emitted' = emitted \cup R
             /\ \/ loaded' = emitted' /\ saved' = state'
                \/ loaded' = loaded /\ saved' = saved

LEMMA EndOfTurnMoves ==
    ASSUME NEW st, NEW R, gtid_pos' \in Nat, IsMovedTo(st, gtid_pos'), ReadAt \in Positions,
           EndOfTurn(st, R)
    PROVE  IsMovedTo(state', gtid_pos') /\ Writes(R)
<1>1. IsMovedTo(update_bookmarks(st, ReadAt, gtid_pos'), gtid_pos')
  BY UpdateMoves
<1>2. CASE Due(processed_rows_events', events_skipped')
  <2>1. state' = update_bookmarks(st, ReadAt, gtid_pos') /\ RecordsAndState(R, state')
    BY <1>2 DEF EndOfTurn
  <2>2. QED
    BY <1>1, <2>1 DEF RecordsAndState, Writes
<1>3. CASE ~Due(processed_rows_events', events_skipped')
  <2>1. state' = st /\ Records(R)
    BY <1>3 DEF EndOfTurn
  <2>2. QED
    BY <2>1 DEF Records, Writes
<1>4. QED
  BY <1>2, <1>3

\* A turn that has read up to an event, with the GTID of the last transaction
\* begun, moves bookmarks over nothing that is not written.
LEMMA TurnPreserves ==
    ASSUME IInv, Turn, NEW R, Writes(R), gtid_pos' \in Nat,
           processed_rows_events' \in Nat, events_skipped' \in Nat,
           IsMovedTo(state', gtid_pos'), Passed(reader)', GtidInv'
    PROVE  IInv'
<1> DEFINE g(s) == IF gtid_pos' = 0 THEN state[s].gtid ELSE gtid_pos'
<1>1. /\ UNCHANGED <<files, use_gtid, oldest, pc, binlog_streams, end, interrupted, binlog_crashes>>
      /\ pc = "reading" /\ reader' = ReadAt /\ log_at' = ReadAt /\ HasNext
      /\ emitted' = emitted \cup R
      /\ \/ loaded' = emitted' /\ saved' = state'
         \/ loaded' = loaded /\ saved' = saved
  BY DEF Turn, server, crashes, Writes
<1>2. TypeOK /\ LogInv /\ BookmarkInv /\ CoverInv /\ ReadingInv
  BY DEF IInv
<1>3. /\ Places' = Places /\ Changes' = Changes /\ LastTxn' = LastTxn /\ LogInv'
      /\ \A p : At(p)' = At(p)
  BY <1>1, <1>2, SameLog
<1>4. /\ state \in [Streams -> Bookmarks] /\ saved \in [Streams -> Bookmarks]
      /\ binlog_streams \subseteq Streams /\ use_gtid \in BOOLEAN /\ loaded \subseteq emitted
      /\ reader \in Positions
  BY <1>2 DEF TypeOK
<1>5. Stands(files, reader) /\ Stands(files, end) /\ end \notin Changes
  BY <1>1, <1>2 DEF ReadingInv
<1>6. ReadAt \in Positions /\ Stands(files, ReadAt) /\ ReadAt # NoPos /\ ReadAt.file # 0
  <2>1. ReadAt \in Positions /\ Stands(files, ReadAt) /\ ReadAt # NoPos
    BY <1>1, <1>2, <1>4, <1>5, ReadFacts
  <2>2. QED
    BY <2>1 DEF Stands
<1>7. ReadAt = Pos(ReadAt.file, ReadAt.pos)
  BY <1>6 DEF Pos, Positions
<1>8. /\ use_gtid => gtid_pos' # 0 /\ gtid_pos' <= LastTxn
      /\ ~use_gtid => gtid_pos' = 0
  BY <1>1, <1>3 DEF GtidInv
<1>9. ASSUME NEW s \in Streams
      PROVE  \/ state'[s] = state[s]
             \/ /\ s \in binlog_streams /\ state'[s].file = ReadAt.file /\ state'[s].pos = ReadAt.pos
                /\ state'[s].gtid = g(s)
  BY DEF IsMovedTo
<1>10. ASSUME NEW s \in binlog_streams
       PROVE  (use_gtid => g(s) = gtid_pos') /\ (~use_gtid => g(s) = 0)
  <2>1. HasPosition(state, s) /\ IsBookmark(state[s])
    BY <1>1, <1>2, <1>4 DEF BookmarkInv
  <2>2. ~use_gtid => state[s].gtid = 0
    BY <2>1 DEF HasPosition, IsBookmark
  <2>3. QED
    BY <1>8, <2>2
<1> HIDE DEF g
<1>11. state' \in [Streams -> Bookmarks] /\ saved' \in [Streams -> Bookmarks]
  BY <1>1, <1>4 DEF IsMovedTo
<1>12. loaded' \subseteq emitted'
  BY <1>1, <1>4
<1>13. TypeOK'
  BY <1>1, <1>2, <1>6, <1>11, <1>12 DEF TypeOK
<1>14. LastTxn \in Nat
  BY <1>2, LogFacts
<1>15. \A s \in Streams : IsBookmark(state[s])' /\ IsBookmark(saved[s])'
  <2>1. SUFFICES ASSUME NEW s \in Streams PROVE IsBookmark(state[s])' /\ IsBookmark(saved[s])'
    OBVIOUS
  <2>2. IsBookmark(state[s]) /\ IsBookmark(saved[s])
    BY <1>2 DEF BookmarkInv
  <2>3. IsBookmark(state'[s])
    <3>1. CASE state'[s] = state[s]
      BY <2>2, <3>1
    <3>2. CASE /\ s \in binlog_streams /\ state'[s].file = ReadAt.file /\ state'[s].pos = ReadAt.pos
               /\ state'[s].gtid = g(s)
      <4>1. (use_gtid <=> state'[s].gtid # 0) /\ state'[s].gtid <= LastTxn
        BY <1>4, <1>8, <1>10, <1>14, <3>2
      <4>2. Stands(files, Pos(state'[s].file, state'[s].pos))
        BY <1>6, <1>7, <3>2
      <4>3. QED
        BY <4>1, <4>2 DEF IsBookmark
    <3>3. QED
      BY <1>9, <3>1, <3>2
  <2>4. IsBookmark(saved'[s])
    BY <1>1, <2>2, <2>3
  <2>5. QED
    BY <1>1, <2>3, <2>4, SameLog DEF IsBookmark
<1>16. BookmarkInv'
  <2>1. ASSUME NEW s \in binlog_streams PROVE HasPosition(state', s)
    <3>1. HasPosition(state, s) /\ s \in Streams
      BY <1>1, <1>2, <1>4 DEF BookmarkInv
    <3>2. QED
      BY <1>6, <1>9, <3>1 DEF HasPosition
  <2>2. QED
    BY <1>1, <1>15, <2>1 DEF BookmarkInv, HasPosition
<1>17. CoversUpTo(state, emitted)'
  <2>1. SUFFICES ASSUME NEW c \in Changes', At(c)'.table \in Streams,
                        HasPosition(state, At(c).table)', Behind(state, c)'
                 PROVE  (c \in emitted \/ Excused(c) \/ (use_gtid /\ At(c).txn = state[At(c).table].gtid))'
    BY DEF CoversUpTo
  <2> DEFINE s == At(c).table
  <2>2. c \in Changes /\ At(c)' = At(c) /\ s \in Streams
    BY <1>3, <2>1
  <2>3. SUFFICES c \in emitted' \/ Excused(c) \/ (use_gtid /\ At(c).txn = state'[s].gtid)
    BY <1>1, <2>2 DEF Excused
  <2>4. IF use_gtid THEN At(c).txn <= state'[s].gtid
        ELSE ~Before(Pos(state'[s].file, state'[s].pos), c)
    BY <1>1, <2>1, <2>2 DEF Behind
  <2>5. CASE state'[s] = state[s]
    <3>1. HasPosition(state, s) /\ Behind(state, c)
      BY <2>1, <2>2, <2>4, <2>5 DEF HasPosition, Behind
    <3>2. c \in emitted \/ Excused(c) \/ (use_gtid /\ At(c).txn = state[s].gtid)
      BY <1>1, <1>2, <2>2, <3>1 DEF CoverInv, CoversUpTo
    <3>3. QED
      BY <1>1, <2>5, <3>2
  <2>6. CASE /\ s \in binlog_streams /\ state'[s].file = ReadAt.file /\ state'[s].pos = ReadAt.pos
             /\ state'[s].gtid = g(s)
    <3>1. ~Before(ReadAt, c) => c \in emitted' \/ Excused(c)
      BY <1>1, <1>3, <2>2, <2>6 DEF Passed, Excused
    <3>2. CASE use_gtid
      <4>1. state'[s].gtid = gtid_pos'
        BY <1>10, <2>6, <3>2
      <4>2. At(c).txn <= gtid_pos' /\ At(c).txn \in Nat
        BY <1>2, <2>2, <2>4, <3>2, <4>1, LogFacts
      <4>3. At(c).txn = gtid_pos' \/ At(c).txn < gtid_pos'
        BY <4>2
      <4>4. At(c).txn < gtid_pos' => ~Before(ReadAt, c)
        BY <1>1, <1>3, <2>2, <3>2 DEF GtidInv
      <4>5. QED
        BY <3>1, <3>2, <4>1, <4>3, <4>4
    <3>3. CASE ~use_gtid
      BY <1>7, <2>4, <2>6, <3>1, <3>3
    <3>4. QED
      BY <3>2, <3>3
  <2>7. QED
    BY <1>9, <2>2, <2>5, <2>6
<1>18. Covers(state, emitted, Streams \ binlog_streams)'
  <2>1. SUFFICES ASSUME NEW c \in Changes', At(c)'.table \in Streams \ binlog_streams,
                        HasPosition(state, At(c).table)', Behind(state, c)'
                 PROVE  (c \in emitted \/ Excused(c))'
    BY <1>1 DEF Covers
  <2>2. c \in Changes /\ At(c)' = At(c)
    BY <1>3
  <2>3. state'[At(c).table] = state[At(c).table]
    BY <1>9, <2>1, <2>2
  <2>4. HasPosition(state, At(c).table) /\ Behind(state, c)
    BY <1>1, <2>1, <2>2, <2>3 DEF HasPosition, Behind
  <2>5. c \in emitted \/ Excused(c)
    BY <1>1, <1>2, <2>1, <2>2, <2>4 DEF CoverInv, Covers
  <2>6. QED
    BY <1>1, <2>2, <2>5 DEF Excused
<1>19. CoversUpTo(saved, loaded)'
  <2>1. CASE loaded' = emitted' /\ saved' = state'
    BY <1>17, <2>1 DEF CoversUpTo, HasPosition, Behind
  <2>2. CASE loaded' = loaded /\ saved' = saved
    <3>1. CoversUpTo(saved, loaded)
      BY <1>2 DEF CoverInv
    <3>2. QED
      BY <1>1, <1>3, <2>2, <3>1 DEF CoversUpTo, HasPosition, Behind, Excused
  <2>3. QED
    BY <1>1, <2>1, <2>2
<1>20. CoverInv'
  BY <1>1, <1>17, <1>18, <1>19 DEF CoverInv
<1>21. ReadingInv'
  <2>1. Stands(files', reader') /\ Stands(files', end') /\ end' \notin Changes'
    BY <1>1, <1>3, <1>5, <1>6
  <2>2. log_at' # NoPos /\ Stands(files', log_at') /\ ~Before(reader', log_at')
    BY <1>1, <1>6, OrderOfPositions
  <2>3. QED
    BY <2>1, <2>2 DEF ReadingInv
<1>22. ClosingInv'
  BY <1>1 DEF ClosingInv
<1>23. QED
  BY <1>3, <1>13, <1>16, <1>20, <1>21, <1>22 DEF IInv

\* What a turn starts from.
LEMMA TurnFacts ==
    ASSUME IInv, Turn
    PROVE  /\ UNCHANGED <<files, use_gtid, binlog_streams, interrupted, end>>
           /\ pc = "reading" /\ HasNext /\ reader' = ReadAt /\ ~Past(ReadAt)
           /\ ReadAt \in Positions /\ Pos(reader.file, reader.pos + 1) \in Places
           /\ At(Pos(reader.file, reader.pos + 1)) = Read
           /\ Read.kind # "rotate" => ReadAt = Pos(reader.file, reader.pos + 1)
           /\ gtid_pos \in Nat /\ processed_rows_events \in Nat /\ events_skipped \in Nat
           /\ \A g : IsMovedTo(state, g)
<1>1. /\ UNCHANGED <<files, use_gtid, binlog_streams, interrupted, end>>
      /\ pc = "reading" /\ HasNext /\ reader' = ReadAt /\ ~Past(ReadAt)
  BY DEF Turn, server, crashes
<1>2. TypeOK /\ LogInv /\ ReadingInv
  BY DEF IInv
<1>3. /\ reader \in Positions /\ Stands(files, reader) /\ state \in [Streams -> Bookmarks]
      /\ gtid_pos \in Nat /\ processed_rows_events \in Nat /\ events_skipped \in Nat
  BY <1>1, <1>2 DEF TypeOK, ReadingInv
<1>4. /\ ReadAt \in Positions /\ Pos(reader.file, reader.pos + 1) \in Places
      /\ At(Pos(reader.file, reader.pos + 1)) = Read
      /\ Read.kind # "rotate" => ReadAt = Pos(reader.file, reader.pos + 1)
  BY <1>1, <1>2, <1>3, ReadFacts
<1>5. \A g : IsMovedTo(state, g)
  BY <1>3 DEF IsMovedTo
<1>6. QED
  BY <1>1, <1>3, <1>4, <1>5

LEMMA RotateEventPreserves == ASSUME IInv, RotateEvent PROVE IInv'
<1>1. /\ Turn /\ Read.kind = "rotate" /\ gtid_pos' = gtid_pos
      /\ processed_rows_events' = processed_rows_events /\ events_skipped' = events_skipped
      /\ EndOfTurn(update_bookmarks(state, ReadAt, gtid_pos), {})
  BY DEF RotateEvent
<1>2. /\ ReadAt \in Positions /\ gtid_pos \in Nat
      /\ processed_rows_events' \in Nat /\ events_skipped' \in Nat
  BY <1>1, TurnFacts
<1>3. IsMovedTo(update_bookmarks(state, ReadAt, gtid_pos), gtid_pos)
  BY <1>1, <1>2, TurnFacts, UpdateMoves
<1>4. IsMovedTo(state', gtid_pos') /\ Writes({})
  BY <1>1, <1>2, <1>3, EndOfTurnMoves
<1>5. Passed(reader)'
  BY <1>1, <1>4, TurnFacts, PassesOn DEF Writes
<1>6. GtidInv'
  BY <1>1, TurnFacts, GtidStays
<1>7. QED
  BY <1>1, <1>2, <1>4, <1>5, <1>6, TurnPreserves

\* A transaction begins: those before it are passed, and the end of the run
\* divides it not.
LEMMA GtidEventPreserves == ASSUME IInv, GtidEvent PROVE IInv'
<1>1. /\ Turn /\ Read.kind = "gtid" /\ gtid_pos' = Read.txn
      /\ processed_rows_events' = processed_rows_events /\ events_skipped' = events_skipped
      /\ EndOfTurn(update_bookmarks(state, ReadAt, gtid_pos'), {})
  BY DEF GtidEvent
<1> DEFINE here == Pos(reader.file, reader.pos + 1)
<1>2. /\ ReadAt \in Positions /\ ReadAt = here /\ here \in Places /\ At(here) = Read
      /\ reader' = ReadAt /\ ~Past(ReadAt) /\ UNCHANGED <<files, use_gtid, end>>
      /\ processed_rows_events' \in Nat /\ events_skipped' \in Nat
      /\ pc = "reading"
  BY <1>1, TurnFacts
<1> HIDE DEF here
<1>3. TypeOK /\ LogInv /\ ReadingInv
  BY DEF IInv
<1>4. Read.txn \in Nat /\ Read.txn # 0 /\ Read.txn <= LastTxn
  BY <1>1, <1>2, <1>3, LogFacts
<1>5. gtid_pos' \in Nat
  BY <1>1, <1>4
<1>6. IsMovedTo(update_bookmarks(state, ReadAt, gtid_pos'), gtid_pos')
  BY <1>1, <1>2, <1>5, TurnFacts, UpdateMoves
<1>7. IsMovedTo(state', gtid_pos') /\ Writes({})
  BY <1>1, <1>2, <1>5, <1>6, EndOfTurnMoves
<1>8. Passed(reader)'
  BY <1>1, <1>7, TurnFacts, PassesOn DEF Writes
<1>9. use_gtid
  BY <1>1, <1>3 DEF Turn, Delivered, TypeOK
<1>10. \A q \in Places, c \in Changes :
          At(q).kind = "gtid" /\ At(q).txn = At(c).txn /\ Before(q, end) => Before(c, end)
  BY <1>2, <1>3, <1>9 DEF ReadingInv, GtidInv
<1>11. ASSUME NEW c \in Changes, At(c).txn < Read.txn PROVE ~Before(ReadAt, c)
  <2>1. Before(c, here) /\ c \in Positions
    BY <1>1, <1>2, <1>3, <1>11, LogFacts
  <2>2. QED
    BY <1>2, <2>1, OrderOfPositions
<1>12. ASSUME NEW c \in Changes, At(c).txn <= Read.txn PROVE Before(c, end) \/ ~Before(ReadAt, c)
  <2>1. At(c).txn \in Nat
    BY <1>3, LogFacts
  <2>2. At(c).txn < Read.txn \/ At(c).txn = Read.txn
    BY <1>4, <1>12, <2>1
  <2>3. CASE At(c).txn = Read.txn
    <3>1. Before(here, end)
      BY <1>2 DEF Past
    <3>2. QED
      BY <1>1, <1>2, <1>10, <2>3, <3>1
  <2>4. QED
    BY <1>11, <2>2, <2>3
<1>13. GtidInv'
  <2>1. /\ Places' = Places /\ Changes' = Changes /\ LastTxn' = LastTxn /\ \A p : At(p)' = At(p)
    BY <1>2, SameLog
  <2>2. QED
    BY <1>1, <1>2, <1>4, <1>9, <1>10, <1>11, <1>12, <2>1 DEF GtidInv
<1>14. QED
  BY <1>1, <1>2, <1>5, <1>7, <1>8, <1>13, TurnPreserves

LEMMA SkippedRowsPreserves == ASSUME IInv, SkippedRows PROVE IInv'
<1>1. /\ Turn /\ Read.table \notin binlog_streams /\ gtid_pos' = gtid_pos
      /\ processed_rows_events' = processed_rows_events /\ events_skipped' = events_skipped + 1
      /\ EndOfTurn(state, {})
  BY DEF SkippedRows
<1>2. /\ ReadAt \in Positions /\ gtid_pos' \in Nat
      /\ processed_rows_events' \in Nat /\ events_skipped' \in Nat
      /\ IsMovedTo(state, gtid_pos')
  BY <1>1, TurnFacts
<1>3. IsMovedTo(state', gtid_pos') /\ Writes({})
  BY <1>1, <1>2, EndOfTurnMoves
<1>4. Passed(reader)'
  BY <1>1, <1>3, TurnFacts, PassesOn DEF Writes
<1>5. GtidInv'
  BY <1>1, TurnFacts, GtidStays
<1>6. QED
  BY <1>1, <1>2, <1>3, <1>4, <1>5, TurnPreserves

LEMMA RowsEventPreserves == ASSUME IInv, RowsEvent PROVE IInv'
<1>1. /\ Turn /\ gtid_pos' = gtid_pos
      /\ processed_rows_events' = processed_rows_events + 1 /\ events_skipped' = events_skipped
      /\ EndOfTurn(state, {ReadAt})
  BY DEF RowsEvent
<1>2. /\ ReadAt \in Positions /\ gtid_pos' \in Nat
      /\ processed_rows_events' \in Nat /\ events_skipped' \in Nat
      /\ IsMovedTo(state, gtid_pos')
  BY <1>1, TurnFacts
<1>3. IsMovedTo(state', gtid_pos') /\ Writes({ReadAt})
  BY <1>1, <1>2, EndOfTurnMoves
<1>4. Passed(reader)'
  BY <1>1, <1>3, TurnFacts, PassesOn DEF Writes
<1>5. GtidInv'
  BY <1>1, TurnFacts, GtidStays
<1>6. QED
  BY <1>1, <1>2, <1>3, <1>4, <1>5, TurnPreserves

\* Steps of the reader that write nothing.
LEMMA ReadsPreserves ==
    ASSUME IInv, pc = "reading", pc' \in {"reading", "closing"},
           UNCHANGED <<server, state, binlog_streams, end, gtid_pos,
                       processed_rows_events, events_skipped, crashes, pipe>>,
           reader' \in Positions, log_at' \in Positions, ReadingInv', ClosingInv'
    PROVE  IInv'
<1>1. UNCHANGED <<files, use_gtid, oldest, state, binlog_streams, end, gtid_pos, processed_rows_events,
                  events_skipped, interrupted, binlog_crashes, emitted, loaded, saved>>
  BY DEF server, crashes, pipe
<1>2. TypeOK /\ LogInv /\ BookmarkInv /\ CoverInv
  BY DEF IInv
<1>3. TypeOK'
  BY <1>1, <1>2 DEF TypeOK
<1>4. LogInv' /\ Changes' = Changes /\ \A p : At(p)' = At(p)
  BY <1>1, <1>2, SameLog
<1>5. BookmarkInv'
  <2>1. \A s \in Streams : IsBookmark(state[s])' /\ IsBookmark(saved[s])'
    <3>1. SUFFICES ASSUME NEW s \in Streams PROVE IsBookmark(state[s])' /\ IsBookmark(saved[s])'
      OBVIOUS
    <3>2. IsBookmark(state[s]) /\ IsBookmark(saved[s])
      BY <1>2 DEF BookmarkInv
    <3>3. QED
      BY <1>1, <3>2, SameLog DEF IsBookmark
  <2>2. QED
    BY <1>1, <1>2, <2>1 DEF BookmarkInv, HasPosition
<1>6. CoversUpTo(saved, loaded) /\ CoversUpTo(state, emitted) /\ Covers(state, emitted, Streams \ binlog_streams)
  BY <1>2 DEF CoverInv
<1>7. /\ CoversUpTo(saved, loaded)' /\ CoversUpTo(state, emitted)'
      /\ Covers(state, emitted, Streams \ binlog_streams)'
  BY <1>1, <1>4, <1>6 DEF Covers, CoversUpTo, HasPosition, Behind, Excused
<1>8. CoverInv'
  BY <1>7 DEF CoverInv
<1>9. QED
  BY <1>3, <1>4, <1>5, <1>8 DEF IInv

LEMMA FilteredPreserves == ASSUME IInv, Filtered PROVE IInv'
<1>1. /\ UNCHANGED <<files, use_gtid, binlog_streams, interrupted, end, gtid_pos, state, log_at, emitted>>
      /\ pc = "reading" /\ pc' = "reading" /\ HasNext /\ reader' = ReadAt /\ ~Delivered
  BY DEF Filtered, server, crashes, pipe
<1>2. TypeOK /\ LogInv /\ ReadingInv
  BY DEF IInv
<1>3. /\ reader \in Positions /\ Stands(files, reader) /\ Stands(files, end) /\ end \notin Changes
      /\ log_at \in Positions
      /\ IF log_at = NoPos THEN Covers(state, emitted, Streams)
                           ELSE Stands(files, log_at) /\ ~Before(reader, log_at)
  BY <1>1, <1>2 DEF TypeOK, ReadingInv
<1>4. ReadAt \in Positions /\ Stands(files, ReadAt) /\ Before(reader, ReadAt)
  BY <1>1, <1>2, <1>3, ReadFacts
<1>5. Changes' = Changes /\ \A p : At(p)' = At(p)
  BY <1>1, SameLog
<1>6. Passed(reader)'
  <2>1. Read.kind # "rows"
    BY <1>1 DEF Delivered
  <2>2. QED
    BY <1>1, <2>1, PassesOn
<1>7. GtidInv'
  BY <1>1, GtidStays
<1>8. IF log_at = NoPos THEN Covers(state, emitted, Streams)'
                        ELSE Stands(files', log_at) /\ ~Before(reader', log_at)
  <2>1. CASE log_at = NoPos
    BY <1>1, <1>3, <1>5, <2>1 DEF Covers, HasPosition, Behind, Excused
  <2>2. CASE log_at # NoPos
    BY <1>1, <1>3, <1>4, <2>2, OrderOfPositions
  <2>3. QED
    BY <2>1, <2>2
<1>9. ReadingInv'
  BY <1>1, <1>3, <1>4, <1>5, <1>6, <1>7, <1>8 DEF ReadingInv
<1>10. ClosingInv'
  BY <1>1 DEF ClosingInv
<1>11. QED
  BY <1>1, <1>3, <1>4, <1>9, <1>10, ReadsPreserves DEF Filtered

\* The loop ends at an event past the end: all before the end is passed, and
\* so is the transaction the GTID names.
LEMMA ReachEndPreserves == ASSUME IInv, ReachEnd PROVE IInv'
<1>1. /\ UNCHANGED <<files, use_gtid, binlog_streams, interrupted, end, gtid_pos, state, emitted>>
      /\ pc = "reading" /\ pc' = "closing" /\ HasNext /\ reader' = ReadAt /\ log_at' = end
      /\ ~Before(ReadAt, end)
  BY DEF ReachEnd, server, crashes, pipe, Past
<1>2. TypeOK /\ LogInv /\ ReadingInv
  BY DEF IInv
<1>3. /\ reader \in Positions /\ end \in Positions /\ use_gtid \in BOOLEAN
      /\ Stands(files, reader) /\ Stands(files, end) /\ end \notin Changes
      /\ Passed(reader) /\ GtidInv
  BY <1>1, <1>2 DEF TypeOK, ReadingInv
<1>4. /\ ReadAt \in Positions
      /\ Read.kind # "rotate" => ReadAt = Pos(reader.file, reader.pos + 1)
      /\ \A c \in Changes : ~Before(ReadAt, c) /\ Before(reader, c)
                                => c = Pos(reader.file, reader.pos + 1) /\ Read.kind = "rows"
  BY <1>1, <1>2, <1>3, ReadFacts
<1>5. /\ Places' = Places /\ Changes' = Changes /\ LastTxn' = LastTxn /\ \A p : At(p)' = At(p)
  BY <1>1, SameLog
<1>6. ASSUME NEW c \in Changes, Before(c, end) PROVE ~Before(reader, c)
  <2>1. SUFFICES ASSUME Before(reader, c) PROVE FALSE
    OBVIOUS
  <2>2. c \in Positions
    BY <1>2, LogFacts
  <2>3. Before(c, ReadAt)
    BY <1>1, <1>3, <1>4, <1>6, <2>2, OrderOfPositions
  <2>4. ~Before(ReadAt, c)
    BY <1>4, <2>2, <2>3, OrderOfPositions
  <2>5. c = ReadAt
    BY <1>4, <2>1, <2>4
  <2>6. QED
    BY <1>4, <2>3, <2>5, OrderOfPositions
<1>7. end # NoPos
  <2>1. end.file # 0
    BY <1>3 DEF Stands
  <2>2. NoPos.file = 0
    BY DEF NoPos, Pos
  <2>3. QED
    BY <2>1, <2>2
<1>8. CASE use_gtid
  <2>1. /\ gtid_pos # 0 /\ gtid_pos <= LastTxn
        /\ \A c \in Changes : At(c).txn <= gtid_pos => Before(c, end) \/ ~Before(reader, c)
    BY <1>3, <1>8 DEF GtidInv
  <2>2. \A c \in Changes : At(c).table \in binlog_streams /\ At(c).txn <= gtid_pos
                               => c \in emitted \/ Excused(c)
    BY <1>3, <1>6, <2>1 DEF Passed
  <2>3. ClosingInv'
    BY <1>1, <1>3, <1>5, <1>7, <1>8, <2>1, <2>2 DEF ClosingInv, Excused
  <2>4. QED
    BY <1>1, <1>3, <1>4, <2>3, ReadsPreserves DEF ReachEnd, ReadingInv
<1>9. CASE ~use_gtid
  <2>1. gtid_pos = 0
    BY <1>3, <1>9 DEF GtidInv
  <2>2. \A c \in Changes : At(c).table \in binlog_streams /\ ~Before(end, c)
                               => c \in emitted \/ Excused(c)
    <3>1. SUFFICES ASSUME NEW c \in Changes, At(c).table \in binlog_streams, ~Before(end, c)
                   PROVE  c \in emitted \/ Excused(c)
      OBVIOUS
    <3>2. c \in Positions
      BY <1>2, LogFacts
    <3>3. Before(c, end)
      BY <1>3, <3>1, <3>2, OrderOfPositions
    <3>4. QED
      BY <1>3, <1>6, <3>1, <3>3 DEF Passed
  <2>3. Passed(log_at)'
    BY <1>1, <1>5, <2>2 DEF Passed, Excused
  <2>4. ClosingInv'
    BY <1>1, <1>3, <1>7, <1>9, <2>1, <2>3 DEF ClosingInv
  <2>5. QED
    BY <1>1, <1>3, <1>4, <2>4, ReadsPreserves DEF ReachEnd, ReadingInv
<1>10. QED
  BY <1>3, <1>8, <1>9

\* The reader is at the end of the log.
LEMMA NoMoreEventsPreserves == ASSUME IInv, NoMoreEvents PROVE IInv'
<1>1. /\ UNCHANGED <<files, use_gtid, binlog_streams, interrupted, reader, log_at, gtid_pos, state, emitted>>
      /\ pc = "reading" /\ pc' = "closing" /\ ~HasNext
  BY DEF NoMoreEvents, server, crashes, pipe, loop
<1>2. TypeOK /\ LogInv /\ ReadingInv
  BY DEF IInv
<1>3. /\ reader \in Positions /\ log_at \in Positions /\ use_gtid \in BOOLEAN
      /\ Stands(files, reader) /\ Passed(reader) /\ GtidInv
      /\ IF log_at = NoPos THEN Covers(state, emitted, Streams)
                           ELSE Stands(files, log_at) /\ ~Before(reader, log_at)
  BY <1>1, <1>2 DEF TypeOK, ReadingInv
<1>4. /\ Places' = Places /\ Changes' = Changes /\ LastTxn' = LastTxn /\ \A p : At(p)' = At(p)
  BY <1>1, SameLog
<1>5. reader = Master
  <2>1. /\ reader.file \in 1..Len(files) /\ reader.pos <= Len(files[reader.file])
        /\ reader.file < Len(files) => reader.pos < Len(files[reader.file])
        /\ ~(reader.pos < Len(files[reader.file]))
    BY <1>1, <1>3 DEF Stands, HasNext
  <2>2. reader.file \in Nat /\ reader.pos \in Nat /\ Len(files) \in Nat /\ Len(files[reader.file]) \in Nat
    BY <1>2, <1>3, <2>1, LogFacts DEF Positions
  <2>3. reader.file = Len(files)
    BY <2>1, <2>2
  <2>4. reader.pos = Len(files[Len(files)])
    BY <2>1, <2>2, <2>3
  <2>5. QED
    BY <1>3, <2>3, <2>4 DEF Master, Pos, Positions
<1>6. \A c \in Changes : At(c).table \in binlog_streams => c \in emitted \/ Excused(c)
  <2>1. SUFFICES ASSUME NEW c \in Changes, At(c).table \in binlog_streams
                 PROVE  c \in emitted \/ Excused(c)
    OBVIOUS
  <2>2. ~Before(reader, c)
    BY <1>2, <1>5, AtMaster, LogFacts
  <2>3. QED
    BY <1>3, <2>1, <2>2 DEF Passed
<1>7. ClosingInv'
  <2>1. CASE log_at = NoPos
    <3>1. Covers(state, emitted, Streams)'
      BY <1>1, <1>3, <1>4, <2>1 DEF Covers, HasPosition, Behind, Excused
    <3>2. QED
      BY <1>1, <2>1, <3>1 DEF ClosingInv
  <2>2. CASE log_at # NoPos /\ use_gtid
    <3>1. gtid_pos # 0 /\ gtid_pos <= LastTxn
      BY <1>3, <2>2 DEF GtidInv
    <3>2. QED
      BY <1>1, <1>3, <1>4, <1>6, <2>2, <3>1 DEF ClosingInv, Excused
  <2>3. CASE log_at # NoPos /\ ~use_gtid
    <3>1. gtid_pos = 0
      BY <1>3, <2>3 DEF GtidInv
    <3>2. Passed(log_at)'
      BY <1>1, <1>4, <1>6 DEF Passed, Excused
    <3>3. QED
      BY <1>1, <1>3, <2>3, <3>1, <3>2 DEF ClosingInv
  <2>4. QED
    BY <1>3, <2>1, <2>2, <2>3
<1>8. ReadingInv'
  BY <1>1 DEF ReadingInv
<1>9. QED
  BY <1>1, <1>3, <1>7, <1>8, ReadsPreserves DEF NoMoreEvents, loop

-----------------------------------------------------------------------------
(* The theorem                                                             *)

LEMMA NextIInv == IInv /\ [Next]_binlogVars => IInv'
<1> SUFFICES ASSUME IInv, [Next]_binlogVars PROVE IInv'
  OBVIOUS
<1>1. CASE (\E tables \in Transactions : Commit(tables)) \/ RotateLog
  BY <1>1, GrowthPreserves
<1>2. CASE Purge
  BY <1>2, PurgePreserves
<1>3. CASE StartTap
  BY <1>3, StartTapPreserves
<1>4. CASE SyncBinlog
  BY <1>4, NothingToReadPreserves, SyncBinlogPreserves
<1>5. CASE FailToStart
  BY <1>5, FailToStartPreserves
<1>6. CASE \E s \in Streams : HistoricalSync(s)
  BY <1>6, HistoricalSyncPreserves
<1>7. CASE Filtered
  BY <1>7, FilteredPreserves
<1>8. CASE RotateEvent
  BY <1>8, RotateEventPreserves
<1>9. CASE GtidEvent
  BY <1>9, GtidEventPreserves
<1>10. CASE SkippedRows
  BY <1>10, SkippedRowsPreserves
<1>11. CASE RowsEvent
  BY <1>11, RowsEventPreserves
<1>12. CASE ReachEnd
  BY <1>12, ReachEndPreserves
<1>13. CASE NoMoreEvents
  BY <1>13, NoMoreEventsPreserves
<1>14. CASE Finish
  BY <1>14, FinishPreserves
<1>15. CASE Die
  BY <1>15, DiePreserves
<1>16. CASE UNCHANGED binlogVars
  <2>1. UNCHANGED <<files, oldest, use_gtid, pc, state, binlog_streams, reader, end, log_at, gtid_pos,
                    processed_rows_events, events_skipped, binlog_crashes, interrupted,
                    emitted, loaded, saved>>
    BY <1>16 DEF binlogVars, server, loop, crashes, pipe
  <2>2. TypeOK /\ LogInv /\ BookmarkInv /\ CoverInv /\ ReadingInv /\ ClosingInv
    BY DEF IInv
  <2>3. TypeOK' /\ LogInv' /\ Places' = Places /\ Changes' = Changes /\ LastTxn' = LastTxn
    BY <2>1, <2>2, SameLog DEF TypeOK
  <2>4. /\ \A p : At(p)' = At(p)
        /\ \A b : IsBookmark(b)' <=> IsBookmark(b)
    BY <2>1, SameLog
  <2>5. BookmarkInv'
    <3>1. \A s \in Streams : IsBookmark(state[s])' /\ IsBookmark(saved[s])'
      <4>1. SUFFICES ASSUME NEW s \in Streams PROVE IsBookmark(state[s])' /\ IsBookmark(saved[s])'
        OBVIOUS
      <4>2. IsBookmark(state[s]) /\ IsBookmark(saved[s])
        BY <2>2 DEF BookmarkInv
      <4>3. QED
        BY <2>1, <4>2, SameLog DEF IsBookmark
    <3>2. QED
      BY <2>1, <2>2, <3>1 DEF BookmarkInv, HasPosition
  <2>6. CoverInv'
    BY <2>1, <2>2, <2>3, <2>4 DEF CoverInv, Covers, CoversUpTo, HasPosition, Behind, Excused
  <2>7. ReadingInv'
    BY <2>1, <2>2, <2>3, <2>4 DEF ReadingInv, Passed, GtidInv, Covers, HasPosition, Behind, Excused
  <2>8. ClosingInv'
    BY <2>1, <2>2, <2>3, <2>4 DEF ClosingInv, Passed, Covers, HasPosition, Behind, Excused
  <2>9. QED
    BY <2>3, <2>5, <2>6, <2>7, <2>8 DEF IInv
<1>17. QED
  BY <1>1, <1>2, <1>3, <1>4, <1>5, <1>6, <1>7, <1>8, <1>9, <1>10, <1>11, <1>12, <1>13,
     <1>14, <1>15, <1>16 DEF Next

LEMMA IInvHolds == Spec => []IInv
  BY InitIInv, NextIInv, PTL DEF Spec

\* Whatever the log holds, however its files rotate, streams join and runs
\* die: a run from the saved bookmarks skips only what is loaded, or the rest
\* of a transaction a GTID names (sync_binlog_stream, _run_binlog_sync).
THEOREM BinlogIsComplete == Spec => []BinlogSkipsNothing
<1>1. IInv => BinlogSkipsNothing
  <2>1. SUFFICES ASSUME IInv, NEW c \in SkippedBy(saved) \ loaded
                 PROVE  /\ use_gtid
                        /\ \/ At(c).txn \in interrupted
                           \/ pc # "idle" /\ At(c).txn = saved[At(c).table].gtid
    BY DEF BinlogSkipsNothing
  <2> DEFINE S == {s \in Streams : HasPosition(saved, s)}
  <2>2. TypeOK /\ LogInv /\ BookmarkInv /\ CoverInv
    BY <2>1 DEF IInv
  <2>3. c \in Changes /\ At(c).table \in S /\ ~Before(StartOf(saved, S), c) /\ c \notin loaded
    BY <2>1 DEF SkippedBy
  <2>4. /\ saved \in [Streams -> Bookmarks] /\ use_gtid \in BOOLEAN
        /\ S \in SUBSET Streams /\ S # {}
        /\ \A s \in S : HasPosition(saved, s) /\ IsBookmark(saved[s])
    BY <2>2, <2>3 DEF TypeOK, BookmarkInv
  <2> HIDE DEF S
  <2>5. Behind(saved, c)
    BY <2>2, <2>3, <2>4, StartFacts
  <2>6. HasPosition(saved, At(c).table) /\ At(c).table \in Streams
    BY <2>3, <2>4
  <2>7. Excused(c) \/ (use_gtid /\ At(c).txn = saved[At(c).table].gtid)
    BY <2>2, <2>3, <2>5, <2>6 DEF CoverInv, CoversUpTo
  <2>8. pc = "idle" => Excused(c)
    BY <2>2, <2>3, <2>5, <2>6 DEF CoverInv, Covers
  <2>9. QED
    BY <2>7, <2>8 DEF Excused
<1>2. QED
  BY <1>1, IInvHolds, PTL
=============================================================================
