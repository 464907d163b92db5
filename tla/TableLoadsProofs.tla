------------------------- MODULE TableLoadsProofs -------------------------
(***************************************************************************)
(* TableLoads keeps what a transformation masks out of the target, and     *)
(* what is behind the bookmark of a table in it, for any rows, kinds of    *)
(* databases and bounds.                                                   *)
(*                                                                         *)
(* A worker is known by the step it is at.  The export of a worker has     *)
(* the rows that did not change after its bookmark as the source has them  *)
(* (RowsInv); they go into the temporary table (TempInv) and from there    *)
(* into the target (FastInv, MergedInv), while the rows that a partial     *)
(* sync leaves alone are as they were (LeftInv).  When the worker saves    *)
(* its bookmark, or dies before it has changed the table, this is IdleInv. *)
(*                                                                         *)
(* The commands that start the loads of a tap, TapRun, exclude one another *)
(* for any number of processes, and give its singer synced tables alone.   *)
(***************************************************************************)
EXTENDS TapRun, TableLoads, NaturalsInduction, WellFoundedInduction, SequenceTheorems, TLAPS

-----------------------------------------------------------------------------
(* The inductive invariant                                                 *)

Row      == [version : Nat, deleted : BOOLEAN, masked : BOOLEAN]
Table    == [Rows -> Row \cup {Absent}]
Settings == {s \in [tap : Taps, target : Targets, method : {"LOG_BASED", "INCREMENTAL"},
                    hard_delete : BOOLEAN, replica : BOOLEAN] :
                s.tap = "mongodb" => s.method = "LOG_BASED" /\ ~s.replica}
Steps    == {"idle", "bookmark", "copy", "dump", "export", "mark", "load", "obfuscate", "replace", "drop",
             "swap", "merge", "hard_delete", "save"}
Load     == [kind : {"none", "fast", "partial"}, at : Steps, bookmark : Nat \cup {None}, lags : BOOLEAN,
             end : BOOLEAN, drop : BOOLEAN, rows : [Rows -> Nat \cup {Absent}]]

TypeOK ==
    /\ settings \in Settings
    /\ log \in Seq([row : Rows, op : {"put", "delete", "move"}])
    /\ applied \in Nat
    /\ slot \in Nat \cup {None}
    /\ table \in Table
    /\ temp \in Table
    /\ saved \in Nat \cup {None}
    /\ load \in Load
    /\ lost \subseteq Rows

\* A row as it is in the source now, to which Reflects compares the target.
Last(r) == Version(r, Now)
Live(r) == Alive(r, Now)
In(r)   == InRange(r, Now)

\* The steps of the workers; those after the position was read, those after
\* the export, those that have rows in the temporary table.
ExportStep   == IF settings.tap = "mongodb" THEN "dump" ELSE "copy"
RemoveStep   == IF settings.target = "snowflake" THEN "replace" ELSE "drop"
EmptyExport  == settings.tap = "postgres" /\ settings.target = "postgres" /\ Exported = {}
FastSteps    == {"bookmark", ExportStep, "load", "obfuscate", RemoveStep, "swap", "save"}
PartialSteps == {"bookmark", "export", "mark", "load", "obfuscate", "save"}
                \cup (IF load.drop THEN {"swap"}
                      ELSE IF settings.hard_delete THEN {"merge", "hard_delete"} ELSE {"merge"})
Positioned   == load.at \notin {"idle", "bookmark"}
HasRows      == load.at \notin {"idle", "bookmark", "copy", "dump", "export"}
InTemp       == load.at \in {"obfuscate", "replace", "drop", "swap", "merge"}

\* Which steps a worker of which kind can be at.
StepsInv ==
    /\ load.kind = "none" => load.at = "idle"
    /\ load.kind = "fast" => /\ load.at \in FastSteps /\ ~load.drop /\ ~load.end
                             /\ load.at = "obfuscate" => ~EmptyExport
                             /\ load.at = "dump" => load.bookmark # None
    /\ load.kind = "partial" => load.at \in PartialSteps

\* What replaces the target or is merged into it is masked.
TempMaskedInv ==
    load.at \in {"replace", "drop", "swap", "merge"} => \A r \in Rows : temp[r] # Absent => temp[r].masked

MaskInv == StepsInv /\ TempMaskedInv /\ MaskedInTarget

\* The position was not read on a replica that is behind it or the new slot.
Exact == ~load.lags /\ load.bookmark # None

\* Positions are not ahead of the log, and a bookmark is not saved before there
\* is a slot.
SourceInv ==
    /\ applied <= Now
    /\ ~settings.replica => applied = Now
    /\ slot # None => slot <= Now
    /\ saved # None => slot # None /\ saved <= Now
    /\ ~(LogBased /\ settings.tap = "postgres") => slot = 0

\* What a worker knows of the source once it has read the position; a partial
\* sync that drops the table has no bookmark to go back to.
WorkerInv ==
    /\ load.drop => saved = None
    /\ load.bookmark # None => load.bookmark <= Now
    /\ Positioned => /\ slot # None
                     /\ LogBased => load.bookmark # None
                     /\ ~LogBased => ~load.lags
                     /\ Exact => slot <= load.bookmark /\ load.bookmark <= applied

\* What a worker loads of a row: nothing of rows that are deleted or, in a
\* partial sync, out of the range.
ToLoad(r) == IF Live(r) /\ (load.kind = "partial" => In(r)) THEN Last(r) ELSE Absent

\* The export has the rows that did not change after the bookmark as they are.
RowsInv == HasRows /\ Exact => \A r \in Rows : Last(r) <= load.bookmark => load.rows[r] = ToLoad(r)

\* The temporary table has the export.
TempInv ==
    InTemp => \A r \in Rows : IF load.rows[r] = Absent THEN temp[r] = Absent
                              ELSE temp[r] # Absent /\ temp[r].version = load.rows[r] /\ ~temp[r].deleted

\* The last change of the row is behind the bookmark, or the slot does not deliver it.
Known(r) == Last(r) <= saved \/ Last(r) <= slot

\* The worker has not changed the table yet.
Untouched ==
    \/ load.kind = "none"
    \/ load.kind = "fast" /\ load.at \notin {"swap", "save"}
    \/ load.kind = "partial" /\ load.at \in {"bookmark", "export", "mark"}

\* The target has every change that the singer tap will not read: while no
\* worker has changed the table; between swap and bookmark of fastsync, with
\* the bookmark to come; in a partial sync, for the rows that it leaves alone
\* and for those it has loaded.
IdleInv == Untouched /\ saved # None => \A r \in Rows \ lost : Known(r) => Reflects(r)
FastInv ==
    load.kind = "fast" /\ load.at = "save" =>
        /\ load.lags => lost = Rows
        /\ Exact => \A r \in Rows : Last(r) <= load.bookmark => Reflects(r)
LeftInv ==
    load.kind = "partial" /\ ~Untouched /\ saved # None /\ ~BehindBookmark =>
        \A r \in Rows \ lost : load.rows[r] = Absent /\ Known(r) => Reflects(r)
MergedInv ==
    load.kind = "partial" /\ load.at \in {"hard_delete", "save"} /\ Exact =>
        \A r \in Rows : load.rows[r] # Absent /\ Last(r) <= load.bookmark => Reflects(r)

LoadInv  == SourceInv /\ WorkerInv /\ RowsInv /\ TempInv
TableInv == IdleInv /\ FastInv /\ LeftInv /\ MergedInv

-----------------------------------------------------------------------------
(* Lemmas about the log of the source                                      *)

\* The last change of r among the first n of the log L, what it leaves of the
\* row, and on which side of the start of the range.
VersionIn(L, r, n) == Max({0} \cup {i \in 1..n : L[i].row = r})
AliveIn(L, r, n)   == IF VersionIn(L, r, n) = 0 THEN TRUE ELSE L[VersionIn(L, r, n)].op # "delete"
InRangeIn(L, r, n) == (r \in InitialRange)
                      # (Cardinality({i \in 1..n : L[i].row = r /\ L[i].op = "move"}) % 2 = 1)

\* Max is the greatest element of a bounded set of naturals.
LEMMA MaxOfBounded ==
    ASSUME NEW n \in Nat, NEW T, T \subseteq 0..n, T # {}
    PROVE  Max(T) \in T /\ \A y \in T : y <= Max(T)
<1> DEFINE R == OpToRel(<, Nat)
           D == {n - x : x \in T}
<1>1. IsWellFoundedOn(R, Nat)
  BY NatLessThanWellFounded
<1>2. \A x, y \in Nat : y < x => <<y, x>> \in R
  BY DEF OpToRel
<1>3. D \subseteq Nat
  OBVIOUS
<1>4. \A y \in T : n - y \in D
  OBVIOUS
<1>10. D # {}
  <2>1. PICK t \in T : TRUE
    OBVIOUS
  <2>2. QED
    BY <1>4, <2>1
<1> HIDE DEF R
<1>5. PICK d \in D : \A e \in D : ~(<<e, d>> \in R)
  <2> HIDE DEF D
  <2>1. QED
    BY <1>1, <1>3, <1>10, WFMin
<1>6. PICK x \in T : d = n - x
  OBVIOUS
<1>7. ASSUME NEW y \in T PROVE x >= y
  <2>1. ~(n - y < n - x)
    <3>1. n - y \in Nat /\ n - x \in Nat
      OBVIOUS
    <3>2. ~(<<n - y, n - x>> \in R)
      BY <1>4, <1>5, <1>6
    <3>3. QED
      BY <1>2, <3>1, <3>2
  <2>2. QED
    BY <2>1
<1>8. \E z \in T : \A y \in T : z >= y
  BY <1>7
<1>9. Max(T) \in T /\ \A y \in T : Max(T) >= y
  BY <1>8 DEF Max
<1>11. QED
  BY <1>9

\* It is within the bound.
LEMMA MaxIsBounded ==
    ASSUME NEW n \in Nat, NEW T, T \subseteq 0..n, T # {}
    PROVE  Max(T) \in 0..n /\ Max(T) \in Nat
<1>1. Max(T) \in T
  BY MaxOfBounded
<1> DEFINE m == Max(T)
<1>2. m \in T
  BY <1>1
<1> HIDE DEF m
<1>3. m \in 0..n /\ m \in Nat
  BY <1>2
<1>4. QED
  BY <1>3 DEF m

\* The version of a row is the position of its last change.
LEMMA VersionInLog ==
    ASSUME NEW L, NEW r, NEW n \in Nat
    PROVE  /\ VersionIn(L, r, n) \in 0..n
           /\ VersionIn(L, r, n) = 0 \/ L[VersionIn(L, r, n)].row = r
           /\ \A i \in 1..n : L[i].row = r => i <= VersionIn(L, r, n)
<1> DEFINE T == {0} \cup {i \in 1..n : L[i].row = r}
<1>1. T \subseteq 0..n /\ T # {}
  OBVIOUS
<1>2. VersionIn(L, r, n) = Max(T)
  BY DEF VersionIn
<1>3. \A i \in 1..n : L[i].row = r => i \in T
  OBVIOUS
<1>4. \A i \in T : i = 0 \/ L[i].row = r
  OBVIOUS
<1> HIDE DEF T
<1>5. Max(T) \in T /\ \A y \in T : y <= Max(T)
  BY <1>1, MaxOfBounded
<1>6. QED
  BY <1>1, <1>2, <1>3, <1>4, <1>5

\* The position of a change of r that no change of r follows is its version.
LEMMA VersionIsLast ==
    ASSUME NEW L, NEW r, NEW n \in Nat, NEW v \in 0..n,
           v = 0 \/ L[v].row = r,
           \A i \in 1..n : L[i].row = r => i <= v
    PROVE  VersionIn(L, r, n) = v
<1>1. /\ VersionIn(L, r, n) \in 0..n
      /\ VersionIn(L, r, n) = 0 \/ L[VersionIn(L, r, n)].row = r
      /\ \A i \in 1..n : L[i].row = r => i <= VersionIn(L, r, n)
  BY VersionInLog
<1>2. VersionIn(L, r, n) <= v
  BY <1>1
<1>3. v <= VersionIn(L, r, n)
  BY <1>1
<1>4. QED
  BY <1>1, <1>2, <1>3

\* A row is at n in one log as it is at m in another when they agree up to m
\* and nothing changes it from there to n.
LEMMA SameSince ==
    ASSUME NEW L, NEW M, NEW r, NEW m \in Nat, NEW n \in Nat,
           m <= n, \A i \in 1..m : L[i] = M[i], VersionIn(M, r, n) <= m
    PROVE  /\ VersionIn(L, r, m) = VersionIn(M, r, n)
           /\ AliveIn(L, r, m) = AliveIn(M, r, n)
           /\ InRangeIn(L, r, m) = InRangeIn(M, r, n)
<1> DEFINE v == VersionIn(M, r, n)
           P(K, k) == {i \in 1..k : K[i].row = r /\ K[i].op = "move"}
<1>1. /\ v \in 0..n
      /\ v = 0 \/ M[v].row = r
      /\ \A i \in 1..n : M[i].row = r => i <= v
  BY VersionInLog
<1> HIDE DEF v
<1>2. v <= m
  BY DEF v
<1>3. v \in 0..m
  BY <1>1, <1>2
<1>4. v = 0 \/ L[v].row = r
  BY <1>1, <1>3
<1>5. \A i \in 1..m : L[i].row = r => i <= v
  BY <1>1
<1>6. VersionIn(L, r, m) = v
  BY <1>3, <1>4, <1>5, VersionIsLast
<1>7. AliveIn(L, r, m) = AliveIn(M, r, n)
  <2>1. v # 0 => L[v] = M[v]
    BY <1>3
  <2>2. QED
    BY <1>6, <2>1 DEF AliveIn, v
<1>8. P(L, m) = P(M, n)
  <2>1. ASSUME NEW i \in 1..n, M[i].row = r PROVE i \in 1..m
    BY <1>1, <1>2, <2>1
  <2>2. ASSUME NEW i \in P(M, n) PROVE i \in P(L, m)
    BY <2>1
  <2>3. ASSUME NEW i \in P(L, m) PROVE i \in P(M, n)
    OBVIOUS
  <2>4. QED
    BY <2>2, <2>3
<1>9. InRangeIn(L, r, m) = InRangeIn(M, r, n)
  <2>1. /\ InRangeIn(L, r, m) = ((r \in InitialRange) # (Cardinality(P(L, m)) % 2 = 1))
        /\ InRangeIn(M, r, n) = ((r \in InitialRange) # (Cardinality(P(M, n)) % 2 = 1))
    BY DEF InRangeIn
  <2> HIDE DEF P
  <2>2. QED
    BY <1>8, <2>1
<1>10. QED
  BY <1>6, <1>7, <1>9 DEF v

-----------------------------------------------------------------------------
(* Lemmas about the steps of the workers                                   *)

\* The step after the k-th of a sequence of distinct steps.
LEMMA NextOfSequence ==
    ASSUME NEW s, DOMAIN s \subseteq Int, NEW k \in DOMAIN s, \A n \in DOMAIN s : s[n] = s[k] => n = k
    PROVE  s[1 + CHOOSE n \in DOMAIN s : s[n] = s[k]] = s[k + 1]
<1> DEFINE c == CHOOSE n \in DOMAIN s : s[n] = s[k]
<1>1. c = k
  OBVIOUS
<1> HIDE DEF c
<1>2. s[1 + c] = s[k + 1]
  <2>1. s[1 + c] = s[1 + k]
    BY <1>1
  <2>2. 1 + k = k + 1
    OBVIOUS
  <2>3. QED
    BY <2>1, <2>2
<1>3. QED
  BY <1>2 DEF c

\* Sequences of no more than three steps.
LEMMA OneStep == ASSUME NEW S, NEW a \in S PROVE <<a>> \in Seq(S)
OBVIOUS

LEMMA TwoSteps == ASSUME NEW S, NEW a \in S, NEW b \in S PROVE <<a, b>> \in Seq(S)
OBVIOUS

LEMMA ThreeSteps == ASSUME NEW S, NEW a \in S, NEW b \in S, NEW c \in S PROVE <<a, b, c>> \in Seq(S)
OBVIOUS

LEMMA FiveSteps ==
    ASSUME NEW S, NEW a \in S, NEW b \in S, NEW c \in S, NEW d \in S, NEW e \in S
    PROVE  <<a, b, c, d, e>> \in Seq(S)
OBVIOUS

\* The names that sync_table and partial_sync_table give to their steps.
LEMMA StepsAre ==
    /\ "bookmark" \in Steps /\ "copy" \in Steps /\ "load" \in Steps /\ "obfuscate" \in Steps
    /\ "drop" \in Steps /\ "swap" \in Steps /\ "save" \in Steps
    /\ "export" \in Steps /\ "mark" \in Steps /\ "merge" \in Steps /\ "hard_delete" \in Steps
BY DEF Steps

\* The steps of two and of three sequences after each other.
LEMMA TwoParts ==
    ASSUME NEW S, NEW x \in Seq(S), NEW y \in Seq(S)
    PROVE  /\ x \o y \in Seq(S)
           /\ Len(x \o y) = Len(x) + Len(y)
           /\ \A i \in 1..Len(x) : (x \o y)[i] = x[i]
           /\ \A i \in 1..Len(y) : (x \o y)[Len(x) + i] = y[i]
<1> DEFINE s == x \o y
<1>1. /\ s \in Seq(S)
      /\ Len(s) = Len(x) + Len(y)
      /\ \A i \in 1..Len(x) + Len(y) : s[i] = IF i <= Len(x) THEN x[i] ELSE y[i - Len(x)]
  BY ConcatProperties
<1>2. Len(x) \in Nat /\ Len(y) \in Nat
  OBVIOUS
<1> HIDE DEF s
<1>3. ASSUME NEW i \in 1..Len(x) PROVE s[i] = x[i]
  <2>1. i \in 1..Len(x) + Len(y) /\ i <= Len(x)
    BY <1>2
  <2>2. QED
    BY <1>1, <2>1
<1>4. ASSUME NEW i \in 1..Len(y) PROVE s[Len(x) + i] = y[i]
  <2>1. Len(x) + i \in 1..Len(x) + Len(y) /\ ~(Len(x) + i <= Len(x)) /\ Len(x) + i - Len(x) = i
    BY <1>2
  <2>2. QED
    BY <1>1, <2>1
<1>5. QED
  BY <1>1, <1>3, <1>4 DEF s

LEMMA ThreeParts ==
    ASSUME NEW x \in Seq(Steps), NEW y \in Seq(Steps), NEW z \in Seq(Steps)
    PROVE  /\ Len(x \o y \o z) = Len(x) + Len(y) + Len(z)
           /\ \A i \in 1..Len(x) : (x \o y \o z)[i] = x[i]
           /\ \A i \in 1..Len(y) : (x \o y \o z)[Len(x) + i] = y[i]
           /\ \A i \in 1..Len(z) : (x \o y \o z)[Len(x) + Len(y) + i] = z[i]
           /\ DOMAIN (x \o y \o z) = 1..Len(x) + Len(y) + Len(z)
<1> DEFINE xy == x \o y
<1>1. xy \in Seq(Steps)
  BY TwoParts
<1>2. /\ Len(xy) = Len(x) + Len(y)
      /\ \A i \in 1..Len(x) : xy[i] = x[i]
      /\ \A i \in 1..Len(y) : xy[Len(x) + i] = y[i]
  BY TwoParts
<1> DEFINE s == xy \o z
<1>3. s = x \o y \o z
  OBVIOUS
<1> HIDE DEF xy
<1>4. /\ s \in Seq(Steps)
      /\ Len(s) = Len(xy) + Len(z)
      /\ \A i \in 1..Len(xy) : s[i] = xy[i]
      /\ \A i \in 1..Len(z) : s[Len(xy) + i] = z[i]
  BY <1>1, TwoParts
<1>5. Len(x) \in Nat /\ Len(y) \in Nat /\ Len(z) \in Nat
  OBVIOUS
<1> HIDE DEF s
<1>6. Len(s) = Len(x) + Len(y) + Len(z) /\ DOMAIN s = 1..Len(x) + Len(y) + Len(z)
  BY <1>2, <1>4
<1>7. ASSUME NEW i \in 1..Len(x) PROVE s[i] = x[i]
  <2>1. i \in 1..Len(xy)
    BY <1>2, <1>5
  <2>2. QED
    BY <1>2, <1>4, <2>1
<1>8. ASSUME NEW i \in 1..Len(y) PROVE s[Len(x) + i] = y[i]
  <2>1. Len(x) + i \in 1..Len(xy)
    BY <1>2, <1>5
  <2>2. QED
    BY <1>2, <1>4, <2>1
<1>9. \A i \in 1..Len(z) : s[Len(x) + Len(y) + i] = z[i]
  BY <1>2, <1>4
<1>10. QED
  BY <1>3, <1>6, <1>7, <1>8, <1>9

\* In a sequence of distinct steps that sync_table is, each is followed by the next.
LEMMA AfterIsNext ==
    ASSUME DOMAIN sync_table \subseteq Int,
           \A k, n \in DOMAIN sync_table : sync_table[n] = sync_table[k] => n = k
    PROVE  \A k \in DOMAIN sync_table : After(sync_table[k]) = sync_table[k + 1]
<1> DEFINE s == sync_table
<1>1. \A k \in DOMAIN s : After(s[k]) = s[1 + CHOOSE n \in DOMAIN s : s[n] = s[k]]
  BY DEF After
<1>2. DOMAIN s \subseteq Int /\ \A k, n \in DOMAIN s : s[n] = s[k] => n = k
  OBVIOUS
<1> HIDE DEF s
<1>3. \A k \in DOMAIN s : After(s[k]) = s[k + 1]
  BY <1>1, <1>2, NextOfSequence
<1>4. QED
  BY <1>3 DEF s

\* The order of sync_table of the workers of fastsync.
LEMMA FastOrder ==
    ASSUME TypeOK, load.kind = "fast"
    PROVE  /\ After("bookmark") = ExportStep
           /\ After(ExportStep) = "load"
           /\ EmptyExport => After("load") = "drop" /\ RemoveStep = "drop"
           /\ ~EmptyExport => After("load") = "obfuscate" /\ After("obfuscate") = RemoveStep
           /\ After(RemoveStep) = "swap"
           /\ After("swap") = "save"
<1> DEFINE s == sync_table
<1>1. settings.tap \in {"mysql", "postgres", "mongodb"} /\ settings.target \in {"snowflake", "postgres"}
  BY KindsAssumption DEF TypeOK, Settings
<1>2. CASE ~EmptyExport
  <2> DEFINE e == ExportStep
             d == RemoveStep
  <2>1. /\ DOMAIN s = 1..7
        /\ s[1] = "bookmark" /\ s[2] = e /\ s[3] = "load" /\ s[4] = "obfuscate" /\ s[5] = d
        /\ s[6] = "swap" /\ s[7] = "save"
    <3>1. CASE settings.tap = "postgres" /\ settings.target = "postgres"
      <4> DEFINE x == <<"bookmark", "copy", "load">>
                 y == <<"obfuscate">>
                 z == <<"drop", "swap", "save">>
      <4>1. s = x \o y \o z
        <5>1. Exported # {}
          BY <1>2, <3>1 DEF EmptyExport
        <5>2. s = postgres_to_postgres
          BY <3>1 DEF sync_table
        <5>3. (IF Exported = {} THEN << >> ELSE y) = y
          BY <5>1
        <5>4. QED
          BY <5>2, <5>3 DEF postgres_to_postgres
      <4>2. e = "copy" /\ d = "drop"
        BY <3>1 DEF ExportStep, RemoveStep
      <4>3. x \in Seq(Steps) /\ y \in Seq(Steps) /\ z \in Seq(Steps)
        BY StepsAre, OneStep, ThreeSteps
      <4>4. Len(x) = 3 /\ Len(y) = 1 /\ Len(z) = 3
        OBVIOUS
      <4>5. /\ x[1] = "bookmark" /\ x[2] = "copy" /\ x[3] = "load" /\ y[1] = "obfuscate"
            /\ z[1] = "drop" /\ z[2] = "swap" /\ z[3] = "save"
        OBVIOUS
      <4> HIDE DEF s, x, y, z, e, d
      <4>6. /\ DOMAIN s = 1..Len(x) + Len(y) + Len(z)
            /\ \A i \in 1..Len(x) : s[i] = x[i]
            /\ \A i \in 1..Len(y) : s[Len(x) + i] = y[i]
            /\ \A i \in 1..Len(z) : s[Len(x) + Len(y) + i] = z[i]
        BY <4>1, <4>3, ThreeParts
      <4>9. DOMAIN s = 1..7
        BY <4>4, <4>6
      <4>7. /\ s[1] = x[1] /\ s[2] = x[2] /\ s[3] = x[3] /\ s[4] = y[1]
            /\ s[5] = z[1] /\ s[6] = z[2] /\ s[7] = z[3]
        BY <4>4, <4>6
      <4>8. QED
        BY <4>2, <4>5, <4>7, <4>9
    <3>2. CASE ~(settings.tap = "postgres" /\ settings.target = "postgres")
      <4>1. s = <<"bookmark", e, "load", "obfuscate", d, "swap", "save">>
        BY <1>1, <3>2
           DEF sync_table, ExportStep, RemoveStep, mysql_to_snowflake, mysql_to_postgres, postgres_to_snowflake,
               mongodb_to_snowflake, mongodb_to_postgres
      <4> HIDE DEF s, e, d
      <4>2. QED
        BY <4>1
    <3>3. QED
      BY <3>1, <3>2
  <2>2. e \in {"copy", "dump"} /\ d \in {"replace", "drop"}
    BY DEF ExportStep, RemoveStep
  <2> HIDE DEF s, e, d
  <2>3. \A k, n \in 1..7 : s[n] = s[k] => n = k
    BY <2>1, <2>2
  <2>4. \A k \in 1..7 : After(s[k]) = s[k + 1]
    <3>1. DOMAIN s \subseteq Int
      BY <2>1
    <3>2. QED
      BY <2>1, <2>3, <3>1, AfterIsNext DEF s
  <2>5. QED
    BY <1>2, <2>1, <2>4 DEF e, d
<1>3. CASE EmptyExport
  <2> DEFINE x == <<"bookmark", "copy", "load">>
             y == << >>
             z == <<"drop", "swap", "save">>
  <2>1. s = x \o y \o z
    <3>1. s = postgres_to_postgres
      BY <1>3 DEF sync_table, EmptyExport
    <3>2. (IF Exported = {} THEN y ELSE <<"obfuscate">>) = y
      BY <1>3 DEF EmptyExport
    <3>3. QED
      BY <3>1, <3>2 DEF postgres_to_postgres
  <2>2. ExportStep = "copy" /\ RemoveStep = "drop"
    BY <1>3 DEF ExportStep, RemoveStep, EmptyExport
  <2>3. x \in Seq(Steps) /\ y \in Seq(Steps) /\ z \in Seq(Steps)
    BY StepsAre, ThreeSteps, EmptySeq
  <2>4. Len(x) = 3 /\ Len(y) = 0 /\ Len(z) = 3
    OBVIOUS
  <2>5. /\ x[1] = "bookmark" /\ x[2] = "copy" /\ x[3] = "load"
        /\ z[1] = "drop" /\ z[2] = "swap" /\ z[3] = "save"
    OBVIOUS
  <2> HIDE DEF s, x, y, z
  <2>6. /\ DOMAIN s = 1..Len(x) + Len(y) + Len(z)
        /\ \A i \in 1..Len(x) : s[i] = x[i]
        /\ \A i \in 1..Len(y) : s[Len(x) + i] = y[i]
        /\ \A i \in 1..Len(z) : s[Len(x) + Len(y) + i] = z[i]
    BY <2>1, <2>3, ThreeParts
  <2>7. /\ s[1] = "bookmark" /\ s[2] = "copy" /\ s[3] = "load" /\ s[4] = "drop"
        /\ s[5] = "swap" /\ s[6] = "save"
    <3>1. s[1] = x[1] /\ s[2] = x[2] /\ s[3] = x[3] /\ s[4] = z[1] /\ s[5] = z[2] /\ s[6] = z[3]
      BY <2>4, <2>6
    <3>2. QED
      BY <2>5, <3>1
  <2>8. DOMAIN s = 1..6
    BY <2>4, <2>6
  <2>9. \A k, n \in 1..6 : s[n] = s[k] => n = k
    BY <2>7
  <2>10. \A k \in 1..6 : After(s[k]) = s[k + 1]
    <3>1. DOMAIN s \subseteq Int
      BY <2>8
    <3>2. QED
      BY <2>8, <2>9, <3>1, AfterIsNext DEF s
  <2>11. QED
    BY <1>3, <2>2, <2>7, <2>10
<1>4. QED
  BY <1>2, <1>3
\* The order of partial_sync_table.
LEMMA PartialOrder ==
    ASSUME TypeOK, load.kind = "partial"
    PROVE  /\ After("bookmark") = "export"
           /\ After("export") = "mark"
           /\ After("mark") = "load"
           /\ After("load") = "obfuscate"
           /\ load.drop => After("obfuscate") = "swap" /\ After("swap") = "save"
           /\ ~load.drop => /\ After("obfuscate") = "merge"
                            /\ settings.hard_delete => After("merge") = "hard_delete" /\ After("hard_delete") = "save"
                            /\ ~settings.hard_delete => After("merge") = "save"
<1> DEFINE s == sync_table
           x == <<"bookmark", "export", "mark", "load", "obfuscate">>
           z == <<"save">>
<1>1. s = partial_sync_table
  BY DEF sync_table
<1>2. /\ x \in Seq(Steps) /\ z \in Seq(Steps) /\ Len(x) = 5 /\ Len(z) = 1
      /\ x[1] = "bookmark" /\ x[2] = "export" /\ x[3] = "mark" /\ x[4] = "load" /\ x[5] = "obfuscate"
      /\ z[1] = "save"
  BY StepsAre, OneStep, FiveSteps
<1>3. CASE load.drop
  <2> DEFINE y == <<"swap">>
  <2>1. s = x \o y \o z
    BY <1>1, <1>3 DEF sync_table, partial_sync_table
  <2>2. y \in Seq(Steps) /\ Len(y) = 1 /\ y[1] = "swap"
    BY StepsAre, OneStep
  <2> HIDE DEF s, x, y, z
  <2>3. /\ DOMAIN s = 1..Len(x) + Len(y) + Len(z)
        /\ \A i \in 1..Len(x) : s[i] = x[i]
        /\ \A i \in 1..Len(y) : s[Len(x) + i] = y[i]
        /\ \A i \in 1..Len(z) : s[Len(x) + Len(y) + i] = z[i]
    <3>1. x \in Seq(Steps) /\ y \in Seq(Steps) /\ z \in Seq(Steps)
      BY <1>2, <2>2
    <3>2. QED
      BY <2>1, <3>1, ThreeParts
  <2>4. DOMAIN s = 1..7
    BY <1>2, <2>2, <2>3
  <2>5. /\ s[1] = x[1] /\ s[2] = x[2] /\ s[3] = x[3] /\ s[4] = x[4] /\ s[5] = x[5]
        /\ s[6] = y[1] /\ s[7] = z[1]
    BY <1>2, <2>2, <2>3
  <2>6. /\ s[1] = "bookmark" /\ s[2] = "export" /\ s[3] = "mark" /\ s[4] = "load" /\ s[5] = "obfuscate"
        /\ s[6] = "swap" /\ s[7] = "save"
    BY <1>2, <2>2, <2>5
  <2>7. \A k, n \in 1..7 : s[n] = s[k] => n = k
    BY <2>6
  <2>8. \A k \in 1..7 : After(s[k]) = s[k + 1]
    <3>1. DOMAIN s \subseteq Int
      BY <2>4
    <3>2. QED
      BY <2>4, <2>7, <3>1, AfterIsNext DEF s
  <2>9. QED
    BY <1>3, <2>6, <2>8
<1>4. CASE ~load.drop /\ settings.hard_delete
  <2> DEFINE y == <<"merge", "hard_delete">>
  <2>1. s = x \o y \o z
    BY <1>1, <1>4 DEF sync_table, partial_sync_table
  <2>2. y \in Seq(Steps) /\ Len(y) = 2 /\ y[1] = "merge" /\ y[2] = "hard_delete"
    BY StepsAre, TwoSteps
  <2> HIDE DEF s, x, y, z
  <2>3. /\ DOMAIN s = 1..Len(x) + Len(y) + Len(z)
        /\ \A i \in 1..Len(x) : s[i] = x[i]
        /\ \A i \in 1..Len(y) : s[Len(x) + i] = y[i]
        /\ \A i \in 1..Len(z) : s[Len(x) + Len(y) + i] = z[i]
    <3>1. x \in Seq(Steps) /\ y \in Seq(Steps) /\ z \in Seq(Steps)
      BY <1>2, <2>2
    <3>2. QED
      BY <2>1, <3>1, ThreeParts
  <2>4. DOMAIN s = 1..8
    BY <1>2, <2>2, <2>3
  <2>5. /\ s[1] = x[1] /\ s[2] = x[2] /\ s[3] = x[3] /\ s[4] = x[4] /\ s[5] = x[5]
        /\ s[6] = y[1] /\ s[7] = y[2] /\ s[8] = z[1]
    BY <1>2, <2>2, <2>3
  <2>6. /\ s[1] = "bookmark" /\ s[2] = "export" /\ s[3] = "mark" /\ s[4] = "load" /\ s[5] = "obfuscate"
        /\ s[6] = "merge" /\ s[7] = "hard_delete" /\ s[8] = "save"
    BY <1>2, <2>2, <2>5
  <2>7. \A k, n \in 1..8 : s[n] = s[k] => n = k
    BY <2>6
  <2>8. \A k \in 1..8 : After(s[k]) = s[k + 1]
    <3>1. DOMAIN s \subseteq Int
      BY <2>4
    <3>2. QED
      BY <2>4, <2>7, <3>1, AfterIsNext DEF s
  <2>9. QED
    BY <1>4, <2>6, <2>8
<1>5. CASE ~load.drop /\ ~settings.hard_delete
  <2> DEFINE y == <<"merge">>
  <2>1. s = x \o y \o z
    BY <1>1, <1>5 DEF sync_table, partial_sync_table
  <2>2. y \in Seq(Steps) /\ Len(y) = 1 /\ y[1] = "merge"
    BY StepsAre, OneStep
  <2> HIDE DEF s, x, y, z
  <2>3. /\ DOMAIN s = 1..Len(x) + Len(y) + Len(z)
        /\ \A i \in 1..Len(x) : s[i] = x[i]
        /\ \A i \in 1..Len(y) : s[Len(x) + i] = y[i]
        /\ \A i \in 1..Len(z) : s[Len(x) + Len(y) + i] = z[i]
    <3>1. x \in Seq(Steps) /\ y \in Seq(Steps) /\ z \in Seq(Steps)
      BY <1>2, <2>2
    <3>2. QED
      BY <2>1, <3>1, ThreeParts
  <2>4. DOMAIN s = 1..7
    BY <1>2, <2>2, <2>3
  <2>5. /\ s[1] = x[1] /\ s[2] = x[2] /\ s[3] = x[3] /\ s[4] = x[4] /\ s[5] = x[5]
        /\ s[6] = y[1] /\ s[7] = z[1]
    BY <1>2, <2>2, <2>3
  <2>6. /\ s[1] = "bookmark" /\ s[2] = "export" /\ s[3] = "mark" /\ s[4] = "load" /\ s[5] = "obfuscate"
        /\ s[6] = "merge" /\ s[7] = "save"
    BY <1>2, <2>2, <2>5
  <2>7. \A k, n \in 1..7 : s[n] = s[k] => n = k
    BY <2>6
  <2>8. \A k \in 1..7 : After(s[k]) = s[k + 1]
    <3>1. DOMAIN s \subseteq Int
      BY <2>4
    <3>2. QED
      BY <2>4, <2>7, <3>1, AfterIsNext DEF s
  <2>9. QED
    BY <1>5, <2>6, <2>8
<1>6. QED
  BY <1>3, <1>4, <1>5

\* The step that follows the one a worker is at.
LEMMA NextStep ==
    ASSUME TypeOK, StepsInv
    PROVE  /\ load.at = "bookmark" => /\ load.kind = "fast" => After(load.at) = ExportStep
                                      /\ load.kind = "partial" => After(load.at) = "export"
           /\ load.at \in {"copy", "dump"} => After(load.at) = "load"
           /\ load.at = "export" => After(load.at) = "mark"
           /\ load.at = "mark" => After(load.at) = "load"
           /\ load.at = "load" /\ load.kind = "fast" /\ EmptyExport => After(load.at) = "drop" /\ RemoveStep = "drop"
           /\ load.at = "load" /\ ~(load.kind = "fast" /\ EmptyExport) => After(load.at) = "obfuscate"
           /\ load.at = "obfuscate" /\ load.kind = "fast" => After(load.at) = RemoveStep
           /\ load.at = "obfuscate" /\ load.kind = "partial" /\ load.drop => After(load.at) = "swap"
           /\ load.at = "obfuscate" /\ load.kind = "partial" /\ ~load.drop => After(load.at) = "merge"
           /\ load.at \in {"replace", "drop"} => After(load.at) = "swap"
           /\ load.at = "swap" => After(load.at) = "save"
           /\ load.at = "merge" /\ settings.hard_delete => After(load.at) = "hard_delete"
           /\ load.at = "merge" /\ ~settings.hard_delete => After(load.at) = "save"
           /\ load.at = "hard_delete" => After(load.at) = "save"
<1>1. CASE load.kind = "none"
  BY <1>1 DEF StepsInv
<1>2. CASE load.kind = "fast"
  <2>1. load.at \in FastSteps /\ (load.at = "obfuscate" => ~EmptyExport)
    BY <1>2 DEF StepsInv
  <2>2. ExportStep \in {"copy", "dump"} /\ RemoveStep \in {"replace", "drop"}
    BY DEF ExportStep, RemoveStep
  <2>3. load.at \in {"copy", "dump"} => load.at = ExportStep
    BY <2>1, <2>2 DEF FastSteps
  <2>4. load.at \in {"replace", "drop"} => load.at = RemoveStep
    BY <2>1, <2>2 DEF FastSteps
  <2>5. load.at \notin {"export", "mark", "merge", "hard_delete"}
    BY <2>1, <2>2 DEF FastSteps
  <2>6. QED
    BY <1>2, <2>1, <2>3, <2>4, <2>5, FastOrder
<1>3. CASE load.kind = "partial"
  <2>1. load.at \in PartialSteps
    BY <1>3 DEF StepsInv
  <2>2. load.at \notin {"copy", "dump", "replace", "drop"}
    BY <2>1 DEF PartialSteps
  <2>3. load.at = "swap" => load.drop
    BY <2>1 DEF PartialSteps
  <2>4. load.at \in {"merge", "hard_delete"} => ~load.drop
    BY <2>1 DEF PartialSteps
  <2>5. load.at = "hard_delete" => settings.hard_delete
    BY <2>1, <2>4 DEF PartialSteps
  <2>6. QED
    BY <1>3, <2>2, <2>3, <2>4, <2>5, PartialOrder
<1>4. QED
  BY <1>1, <1>2, <1>3 DEF TypeOK, Load

\* A worker that is not done has a step to go to.
LEMMA AfterIsStep ==
    ASSUME TypeOK, StepsInv, load.at \notin {"idle", "save"}
    PROVE  After(load.at) \in Steps
<1>1. ExportStep \in Steps /\ RemoveStep \in Steps
  BY DEF ExportStep, RemoveStep, Steps
<1>2. load.kind \in {"fast", "partial"} /\ load.at \in Steps
  BY DEF StepsInv, TypeOK, Load
<1>3. CASE load.at \in {"bookmark", "copy", "dump", "export", "mark", "replace", "drop", "swap", "hard_delete"}
  BY <1>1, <1>2, <1>3, StepsAre, NextStep
<1>4. CASE load.at \in {"load", "obfuscate", "merge"}
  BY <1>1, <1>2, <1>4, StepsAre, NextStep
<1>5. QED
  BY <1>2, <1>3, <1>4 DEF Steps

-----------------------------------------------------------------------------
(* Types                                                                   *)

\* Versions are positions of the log.
LEMMA VersionType ==
    ASSUME NEW r, NEW n \in Nat
    PROVE  Version(r, n) \in 0..n
<1>1. Version(r, n) = VersionIn(log, r, n)
  BY DEF Version, VersionIn
<1>2. QED
  BY <1>1, VersionInLog

LEMMA VersionIsNat == ASSUME NEW r, NEW n \in Nat PROVE Version(r, n) \in Nat
<1>1. Version(r, n) \in 0..n
  BY VersionType
<1>2. QED
  BY <1>1

\* A loaded row, masked or not yet, is a row.
LEMMA RowOfLoad == ASSUME NEW v \in Nat PROVE Loaded(v) \in Row /\ [Loaded(v) EXCEPT !.masked = FALSE] \in Row
BY DEF Loaded, Row

\* The record of a worker with another step, or another export.
LEMMA AtField ==
    ASSUME TypeOK, NEW at \in Steps
    PROVE  [load EXCEPT !.at = at] \in Load
BY DEF TypeOK, Load

LEMMA RowsField ==
    ASSUME TypeOK, NEW at \in Steps, NEW rows \in [Rows -> Nat \cup {Absent}]
    PROVE  [load EXCEPT !.at = at, !.rows = rows] \in Load
BY DEF TypeOK, Load

\* The worker that does not run, and the one that begins, are of their type.
LEMMA NoLoadType == NoLoad \in Load
BY StepsAre DEF NoLoad, Load, NoTable, Steps

LEMMA BeginsType ==
    ASSUME NEW kind \in {"fast", "partial"}, NEW end \in BOOLEAN, NEW drop \in BOOLEAN, Begins(kind, end, drop)
    PROVE  load' \in Load
BY NoLoadType, StepsAre DEF Begins, Load, NoLoad

\* So is the table without rows.
LEMMA NoTableType == NoTable \in Table
BY DEF NoTable, Table

\* Every variable has its type at first,
LEMMA TypeInit == InitTable => TypeOK
<1> SUFFICES ASSUME InitTable PROVE TypeOK
  OBVIOUS
<1>1. settings \in Settings
  BY DEF InitTable, Settings
<1>2. log \in Seq([row : Rows, op : {"put", "delete", "move"}])
  BY DEF InitTable
<1>3. applied \in Nat /\ slot \in Nat \cup {None} /\ saved \in Nat \cup {None}
  BY DEF InitTable
<1>4. table \in Table
  BY RowOfLoad DEF InitTable, Table
<1>5. temp \in Table /\ load \in Load /\ lost \subseteq Rows
  BY NoTableType, NoLoadType DEF InitTable
<1>6. QED
  BY <1>1, <1>2, <1>3, <1>4, <1>5 DEF TypeOK

\* and keeps it in every step.
LEMMA TypeStep ==
    ASSUME TypeOK, StepsInv, [NextTable]_vars
    PROVE  TypeOK'
<1>1. ASSUME NEW r \in Rows, NEW op \in {"put", "delete", "move"}, Change(r, op)
      PROVE  TypeOK'
  <2>1. log' \in Seq([row : Rows, op : {"put", "delete", "move"}])
    BY <1>1, AppendProperties DEF Change, TypeOK
  <2>2. applied' \in Nat
    BY <1>1 DEF Change, TypeOK, Now
  <2>3. QED
    BY <1>1, <2>1, <2>2 DEF Change, TypeOK
<1>2. CASE ReplicaApplies
  BY <1>2 DEF ReplicaApplies, TypeOK
<1>3. CASE Replicate
  <2>1. Now \in Nat
    BY DEF TypeOK, Now
  <2>2. ASSUME NEW r \in Rows PROVE Version(r, Now) \in Nat /\ Loaded(Version(r, Now)) \in Row
    <3>1. Version(r, Now) \in 0..Now
      BY <2>1, VersionType
    <3>2. Version(r, Now) \in Nat
      BY <2>1, <3>1
    <3>3. QED
      BY <3>2, RowOfLoad
  <2>3. table' \in Table /\ saved' \in Nat
    <3>1. CASE ReplicateLog
      <4>1. \A r \in Rows : Deleted(r) \in Row \cup {Absent}
        BY <2>2 DEF Deleted, Row
      <4>2. \A r \in Rows : table[r] \in Row \cup {Absent}
        BY DEF TypeOK, Table
      <4>3. QED
        BY <2>1, <2>2, <3>1, <4>1, <4>2 DEF ReplicateLog, Table
    <3>2. CASE ReplicateKeys
      <4>1. \A r \in Rows : table[r] \in Row \cup {Absent}
        BY DEF TypeOK, Table
      <4> DEFINE sel == {r \in Rows : Alive(r, Now) /\ Version(r, Now) >= saved}
                 T   == {saved} \cup {Version(r, Now) : r \in sel}
      <4>2. saved \in Nat
        BY <1>3 DEF Replicate, TypeOK
      <4>3. /\ table' = [r \in Rows |-> IF r \in sel THEN Loaded(Version(r, Now)) ELSE table[r]]
            /\ saved' = Max(T)
        BY <3>2 DEF ReplicateKeys
      <4>4. table' \in Table
        <5> HIDE DEF sel
        <5>1. QED
          BY <2>2, <4>1, <4>3 DEF Table
      <4>5. PICK n \in Nat : T \subseteq 0..n
        <5>1. \A r \in sel : Version(r, Now) \in 0..Now
          BY <2>1, VersionType
        <5> DEFINE n == saved + Now
        <5>2. n \in Nat /\ saved \in 0..n /\ \A r \in sel : Version(r, Now) \in 0..n
          BY <2>1, <4>2, <5>1
        <5> HIDE DEF n, sel
        <5>3. QED
          BY <5>2
      <4>6. T # {}
        OBVIOUS
      <4> HIDE DEF T, sel
      <4>7. saved' \in Nat
        <5>1. Max(T) \in Nat
          BY <4>5, <4>6, MaxIsBounded
        <5>2. QED
          BY <4>3, <5>1
      <4>8. QED
        BY <4>4, <4>7
    <3>3. QED
      BY <1>3, <3>1, <3>2 DEF Replicate
  <2>4. QED
    BY <1>3, <2>3 DEF Replicate, TypeOK
<1>4. CASE GetBookmark
  <2>1. slot' \in Nat \cup {None}
    BY <1>4 DEF GetBookmark, create_replication_slot, TypeOK, Now
  <2>2. PICK b \in IF LogBased THEN fetch_current_log_pos ELSE fetch_current_incremental_key_pos :
          load' = [load EXCEPT !.at = After(@), !.bookmark = b,
                       !.lags = LogBased /\ applied < Max({b, slot'})]
    BY <1>4 DEF GetBookmark
  <2>3. b \in Nat \cup {None}
    <3>1. applied \in Nat /\ Now \in Nat
      BY DEF TypeOK, Now
    <3>2. fetch_current_log_pos \subseteq Nat
      BY <3>1 DEF fetch_current_log_pos, BinlogPositions
    <3>3. fetch_current_incremental_key_pos \subseteq Nat \cup {None}
      <4> DEFINE keys == {Version(r, applied) : r \in {q \in Rows : Alive(q, applied)}}
      <4>1. keys \subseteq 0..applied
        BY <3>1, VersionType
      <4>2. fetch_current_incremental_key_pos
              = {IF keys # {} THEN Max(keys) ELSE IF settings.tap = "postgres" THEN None ELSE 0}
        BY DEF fetch_current_incremental_key_pos
      <4> HIDE DEF keys
      <4>3. ASSUME keys # {} PROVE Max(keys) \in Nat
        <5>1. applied \in Nat
          BY <3>1
        <5>2. QED
          BY <4>1, <4>3, <5>1, MaxIsBounded
      <4>4. QED
        BY <4>2, <4>3
    <3>4. QED
      BY <2>2, <3>2, <3>3
  <2>4. After(load.at) \in Steps
    BY <1>4, AfterIsStep DEF GetBookmark
  <2>5. load' \in Load
    <3> DEFINE l == LogBased /\ applied < Max({b, slot'})
               a == After(load.at)
    <3>1. l \in BOOLEAN
      BY DEF LogBased
    <3>2. load' = [load EXCEPT !.at = a, !.bookmark = b, !.lags = l]
      BY <2>2
    <3>3. a \in Steps
      BY <2>4
    <3> HIDE DEF l, a
    <3>4. [load EXCEPT !.at = a, !.bookmark = b, !.lags = l] \in Load
      BY <2>3, <3>1, <3>3 DEF TypeOK, Load
    <3>5. QED
      BY <3>2, <3>4
  <2>6. QED
    BY <1>4, <2>1, <2>5 DEF GetBookmark, TypeOK
<1>5. CASE CopyToTemp
  <2>1. load' = [load EXCEPT !.at = After(load.at)] /\ After(load.at) \in Steps
    BY <1>5, AfterIsStep DEF CopyToTemp, StepDone
  <2>2. load' \in Load
    BY <2>1, AtField
  <2>3. temp' \in Table
    <3>1. \A r \in Exported : load.rows[r] \in Nat
      BY DEF Exported, TypeOK, Load
    <3>2. \A r \in Exported : [Loaded(load.rows[r]) EXCEPT !.masked = FALSE] \in Row
      BY <3>1, RowOfLoad
    <3>3. \A r \in Rows : NewTable[r] = Absent
      BY DEF NewTable, NoTable
    <3>4. QED
      BY <1>5, <3>2, <3>3 DEF CopyToTemp, Table
  <2>4. QED
    BY <1>5, <2>2, <2>3 DEF CopyToTemp, TypeOK
<1>6. CASE Obfuscate
  <2>1. load' = [load EXCEPT !.at = After(load.at)] /\ After(load.at) \in Steps
    BY <1>6, AfterIsStep DEF Obfuscate, StepDone
  <2>2. load' \in Load
    BY <2>1, AtField
  <2>3. temp' \in Table
    BY <1>6 DEF Obfuscate, Masked, Table, Row, TypeOK
  <2>4. QED
    BY <1>6, <2>2, <2>3 DEF Obfuscate, TypeOK
<1>7. CASE Start
  BY <1>7, NoLoadType, BeginsType DEF Start, TypeOK
<1>8. CASE Export
  <2>1. load' = [load EXCEPT !.at = After(@), !.rows = [r \in Rows |-> ExportedAt(r, applied)]]
    BY <1>8 DEF Export
  <2>2. After(load.at) \in Steps
    BY <1>8, AfterIsStep DEF Export, At
  <2>3. [r \in Rows |-> ExportedAt(r, applied)] \in [Rows -> Nat \cup {Absent}]
    BY VersionIsNat DEF ExportedAt, TypeOK
  <2>4. load' \in Load
    BY <2>1, <2>2, <2>3, RowsField
  <2>5. QED
    BY <1>8, <2>4 DEF Export, TypeOK
<1>9. CASE Dump
  <2>1. PICK at \in [Rows -> load.bookmark..applied] :
          load' = [load EXCEPT !.at = After(@), !.rows = [r \in Rows |-> ExportedAt(r, at[r])]]
    BY <1>9 DEF Dump
  <2>2. After(load.at) \in Steps
    BY <1>9, AfterIsStep DEF Dump, At
  <2>3. load.bookmark \in Nat
    BY <1>9 DEF Dump, At, StepsInv, TypeOK, Load
  <2>4. \A r \in Rows : at[r] \in Nat
    BY <2>3 DEF TypeOK
  <2>5. [r \in Rows |-> ExportedAt(r, at[r])] \in [Rows -> Nat \cup {Absent}]
    BY <2>4, VersionIsNat DEF ExportedAt
  <2>6. load' \in Load
    BY <2>1, <2>2, <2>5, RowsField
  <2>7. QED
    BY <1>9, <2>6 DEF Dump, TypeOK
<1>10. CASE ReplaceTarget
  <2>1. load' = [load EXCEPT !.at = After(load.at)]
    BY <1>10 DEF ReplaceTarget, StepDone
  <2>2. After(load.at) \in Steps
    BY <1>10, AfterIsStep DEF ReplaceTarget, At
  <2>3. load' \in Load
    BY <2>1, <2>2, AtField
  <2>4. QED
    BY <1>10, <2>3, NoTableType DEF ReplaceTarget, TypeOK
<1>11. CASE swap_tables \/ SwapTemp
  <2>1. load' = [load EXCEPT !.at = After(load.at)] /\ table' = temp /\ temp' = NoTable
    BY <1>11 DEF swap_tables, SwapTemp, SwapWithTemp, StepDone
  <2>2. After(load.at) \in Steps
    BY <1>11, AfterIsStep DEF swap_tables, SwapTemp, SwapWithTemp
  <2>3. load' \in Load
    BY <2>1, <2>2, AtField
  <2>4. lost' \subseteq Rows
    BY <1>11 DEF swap_tables, SwapTemp, TypeOK
  <2>5. QED
    BY <1>11, <2>1, <2>3, <2>4, NoTableType DEF swap_tables, SwapTemp, TypeOK
<1>12. CASE SaveState
  <2>1. saved' \in Nat \cup {None}
    BY <1>12 DEF SaveState, BookmarkToSave, TypeOK, Load
  <2>2. QED
    BY <1>12, <2>1, NoLoadType DEF SaveState, TypeOK
<1>13. CASE WorkerDies
  BY <1>13, NoLoadType DEF WorkerDies, Dies, TypeOK
<1>14. ASSUME NEW flag \in BOOLEAN, SyncFromStart(flag) \/ SyncRange(flag)
       PROVE  TypeOK'
  <2>1. load' \in Load
    BY <1>14, BeginsType DEF SyncFromStart, SyncRange
  <2>2. QED
    BY <1>14, <2>1 DEF SyncFromStart, SyncRange, TypeOK
<1>15. CASE ExportRange
  <2> DEFINE rows == [r \in Rows |-> IF Alive(r, applied) /\ InRange(r, applied)
                                     THEN Version(r, applied) ELSE Absent]
  <2>1. load' = [load EXCEPT !.at = After(load.at), !.rows = rows]
    BY <1>15 DEF ExportRange
  <2>2. After(load.at) \in Steps
    BY <1>15, AfterIsStep DEF ExportRange, At
  <2>3. rows \in [Rows -> Nat \cup {Absent}]
    BY VersionIsNat DEF TypeOK
  <2> HIDE DEF rows
  <2>4. load' \in Load
    BY <2>1, <2>2, <2>3, RowsField
  <2>5. QED
    BY <1>15, <2>4 DEF ExportRange, TypeOK
<1>16. CASE MarkDeleted
  <2>1. load' = [load EXCEPT !.at = After(load.at)]
    BY <1>16 DEF MarkDeleted, StepDone
  <2>2. After(load.at) \in Steps
    BY <1>16, AfterIsStep DEF MarkDeleted, At
  <2>3. load' \in Load
    BY <2>1, <2>2, AtField
  <2>4. table' \in Table
    <3>1. ASSUME NEW r \in Rows, InTargetRange(r) PROVE [table[r] EXCEPT !.deleted = TRUE] \in Row
      BY <3>1 DEF InTargetRange, Row, Table, TypeOK
    <3>2. \A r \in Rows : table[r] \in Row \cup {Absent}
      BY DEF TypeOK, Table
    <3>3. QED
      BY <1>16, <3>1, <3>2 DEF MarkDeleted, Table
  <2>5. QED
    BY <1>16, <2>3, <2>4 DEF MarkDeleted, TypeOK
<1>17. CASE merge_tables
  <2>1. load' = [load EXCEPT !.at = After(load.at)]
    BY <1>17 DEF merge_tables, StepDone
  <2>2. After(load.at) \in Steps
    BY <1>17, AfterIsStep DEF merge_tables, At
  <2>3. load' \in Load
    BY <2>1, <2>2, AtField
  <2>4. table' \in Table
    BY <1>17 DEF merge_tables, MergedRows, Table, TypeOK
  <2>5. QED
    BY <1>17, <2>3, <2>4, NoTableType DEF merge_tables, TypeOK
<1>18. CASE partial_hard_delete
  <2>1. load' = [load EXCEPT !.at = After(load.at)]
    BY <1>18 DEF partial_hard_delete, StepDone
  <2>2. After(load.at) \in Steps
    BY <1>18, AfterIsStep DEF partial_hard_delete, At
  <2>3. load' \in Load
    BY <2>1, <2>2, AtField
  <2>4. table' \in Table
    BY <1>18 DEF partial_hard_delete, Table, TypeOK
  <2>5. QED
    BY <1>18, <2>3, <2>4 DEF partial_hard_delete, TypeOK
<1>19. CASE update_state_file
  <2>1. saved' \in Nat \cup {None}
    BY <1>19 DEF update_state_file, TypeOK, Load
  <2>2. lost' \subseteq Rows
    BY <1>19 DEF update_state_file, TypeOK
  <2>3. QED
    BY <1>19, <2>1, <2>2, NoLoadType DEF update_state_file, TypeOK
<1>20. CASE PartialDies
  BY <1>20, NoLoadType DEF PartialDies, Dies, TypeOK
<1>21. CASE UNCHANGED vars
  BY <1>21 DEF vars, TypeOK
<1>22. QED
  BY <1>1, <1>2, <1>3, <1>4, <1>5, <1>6, <1>7, <1>8, <1>9, <1>10, <1>11, <1>12, <1>13, <1>14, <1>15, <1>16,
     <1>17, <1>18, <1>19, <1>20, <1>21
     DEF NextTable, FastSyncNext, PartialSyncNext

-----------------------------------------------------------------------------
(* The steps of the workers                                                *)

\* Nothing changes the settings of a table, and with them the order of the steps.
LEMMA SettingsStay ==
    ASSUME [NextTable]_vars
    PROVE  /\ settings' = settings
           /\ ExportStep' = ExportStep
           /\ RemoveStep' = RemoveStep
<1>1. settings' = settings
  BY DEF NextTable, vars, Change, ReplicaApplies, Replicate, GetBookmark, CopyToTemp, Obfuscate,
         FastSyncNext, Start, Export, Dump, ReplaceTarget, swap_tables, SaveState, WorkerDies, Dies,
         PartialSyncNext, SyncFromStart, SyncRange, ExportRange, MarkDeleted, merge_tables,
         partial_hard_delete, SwapTemp, update_state_file, PartialDies
<1>2. QED
  BY <1>1 DEF ExportStep, RemoveStep

\* A worker that has no more to do than its step.
LEMMA AdvanceKeepsSteps ==
    ASSUME TypeOK, StepsInv, [NextTable]_vars,
           load' = [load EXCEPT !.at = After(load.at)], load.at \notin {"idle", "bookmark", "save"}
    PROVE  StepsInv'
<1>1. /\ load'.at = After(load.at) /\ load'.kind = load.kind /\ load'.rows = load.rows
      /\ load'.drop = load.drop /\ load'.end = load.end /\ load'.bookmark = load.bookmark
  BY DEF TypeOK, Load
<1>2. settings' = settings /\ ExportStep' = ExportStep /\ RemoveStep' = RemoveStep
  BY SettingsStay
<1>3. EmptyExport' = EmptyExport
  BY <1>1, <1>2 DEF EmptyExport, Exported
<1>4. load.kind \in {"fast", "partial"}
  BY DEF StepsInv, TypeOK, Load
<1>5. CASE load.kind = "fast"
  <2>1. load.at \in FastSteps /\ ~load.drop /\ ~load.end /\ (load.at = "obfuscate" => ~EmptyExport)
    BY <1>5 DEF StepsInv
  <2>2. ExportStep \in {"copy", "dump"} /\ RemoveStep \in {"replace", "drop"}
    BY DEF ExportStep, RemoveStep
  <2>3. /\ After(load.at) \in {"load", "obfuscate", RemoveStep, "swap", "save"}
        /\ After(load.at) = "obfuscate" => ~EmptyExport
    BY <1>5, <2>1, <2>2, NextStep DEF FastSteps
  <2>4. /\ load'.at \in FastSteps' /\ ~load'.drop /\ ~load'.end
        /\ load'.at = "obfuscate" => ~EmptyExport'
        /\ load'.at # "dump"
    BY <1>1, <1>2, <1>3, <2>1, <2>2, <2>3 DEF FastSteps
  <2>5. QED
    BY <1>1, <1>5, <2>4 DEF StepsInv
<1>6. CASE load.kind = "partial"
  <2>1. load.at \in PartialSteps
    BY <1>6 DEF StepsInv
  <2>2. After(load.at) \in PartialSteps
    BY <1>6, <2>1, NextStep DEF PartialSteps
  <2>3. PartialSteps' = PartialSteps
    BY <1>1, <1>2 DEF PartialSteps
  <2>4. QED
    BY <1>1, <1>6, <2>2, <2>3 DEF StepsInv
<1>7. QED
  BY <1>4, <1>5, <1>6

\* A worker is never at a step that is not in its sequence.
LEMMA StepsStep ==
    ASSUME TypeOK, StepsInv, [NextTable]_vars
    PROVE  StepsInv'
<1>1. settings' = settings /\ ExportStep' = ExportStep /\ RemoveStep' = RemoveStep
  BY SettingsStay
<1>2. ExportStep \in {"copy", "dump"} /\ RemoveStep \in {"replace", "drop"}
  BY DEF ExportStep, RemoveStep
<1>3. CASE load' = load
  BY <1>1, <1>3 DEF StepsInv, FastSteps, PartialSteps, EmptyExport, Exported
<1>4. CASE load' = NoLoad
  BY <1>4 DEF NoLoad, StepsInv
<1>5. CASE GetBookmark
  <2>1. PICK b \in IF LogBased THEN fetch_current_log_pos ELSE fetch_current_incremental_key_pos :
          load' = [load EXCEPT !.at = After(@), !.bookmark = b,
                       !.lags = LogBased /\ applied < Max({b, slot'})]
    BY <1>5 DEF GetBookmark
  <2>2. /\ load'.at = After(load.at) /\ load'.kind = load.kind /\ load'.rows = load.rows
        /\ load'.drop = load.drop /\ load'.end = load.end /\ load'.bookmark = b
    BY <2>1 DEF TypeOK, Load
  <2>3. load.at = "bookmark"
    BY <1>5 DEF GetBookmark
  <2>4. CASE load.kind = "fast"
    <3>1. load'.at = ExportStep
      BY <2>2, <2>3, <2>4, NextStep
    <3>2. ExportStep = "dump" => b # None
      <4>1. ExportStep = "dump" => LogBased /\ settings.tap = "mongodb"
        BY DEF ExportStep, TypeOK, Settings, LogBased
      <4>2. ExportStep = "dump" => b = applied
        BY <2>1, <4>1 DEF fetch_current_log_pos
      <4>3. QED
        BY <4>2, NoneAssumption DEF TypeOK
    <3>3. ~load.drop /\ ~load.end
      BY <2>4 DEF StepsInv
    <3>4. QED
      BY <1>1, <1>2, <2>2, <2>4, <3>1, <3>2, <3>3 DEF StepsInv, FastSteps
  <2>5. CASE load.kind = "partial"
    <3>1. load'.at = "export"
      BY <2>2, <2>3, <2>5, NextStep
    <3>2. QED
      BY <2>2, <2>5, <3>1 DEF StepsInv, PartialSteps
  <2>6. QED
    BY <2>3, <2>4, <2>5 DEF StepsInv, TypeOK, Load
<1>6. CASE CopyToTemp \/ Obfuscate \/ ReplaceTarget \/ swap_tables \/ SwapTemp \/ MarkDeleted \/ merge_tables
             \/ partial_hard_delete
  <2>1. load' = [load EXCEPT !.at = After(load.at)]
    BY <1>6 DEF CopyToTemp, Obfuscate, ReplaceTarget, swap_tables, SwapTemp, MarkDeleted, merge_tables,
                partial_hard_delete, SwapWithTemp, StepDone
  <2>2. load.at \notin {"idle", "bookmark", "save"}
    BY <1>6 DEF CopyToTemp, Obfuscate, ReplaceTarget, swap_tables, SwapTemp, MarkDeleted, merge_tables,
                partial_hard_delete, SwapWithTemp, At
  <2>3. QED
    BY <2>1, <2>2, AdvanceKeepsSteps
<1>7. CASE Export \/ Dump
  <2>1. PICK rows : load' = [load EXCEPT !.at = After(@), !.rows = rows]
    BY <1>7 DEF Export, Dump
  <2>2. load.kind = "fast" /\ load.at \in {"copy", "dump"}
    BY <1>7 DEF Export, Dump, At
  <2>3. load'.at = "load"
    BY <2>1, <2>2, NextStep DEF TypeOK, Load
  <2>4. load'.kind = "fast" /\ ~load'.drop /\ ~load'.end
    BY <2>1, <2>2 DEF StepsInv, TypeOK, Load
  <2>5. QED
    BY <2>3, <2>4 DEF StepsInv, FastSteps
<1>8. CASE ExportRange
  <2>1. PICK rows : load' = [load EXCEPT !.at = After(@), !.rows = rows]
    BY <1>8 DEF ExportRange
  <2>2. load.kind = "partial" /\ load.at = "export"
    BY <1>8 DEF ExportRange, At
  <2>3. load'.at = "mark" /\ load'.kind = "partial"
    BY <2>1, <2>2, NextStep DEF TypeOK, Load
  <2>4. QED
    BY <2>3 DEF StepsInv, PartialSteps
<1>9. CASE Start \/ \E flag \in BOOLEAN : SyncFromStart(flag) \/ SyncRange(flag)
  <2>1. load'.at = "bookmark"
    BY <1>9 DEF Start, SyncFromStart, SyncRange, Begins, NoLoad
  <2>2. load'.kind = "partial" \/ (load'.kind = "fast" /\ ~load'.drop /\ ~load'.end)
    BY <1>9 DEF Start, SyncFromStart, SyncRange, Begins, NoLoad
  <2>3. QED
    BY <2>1, <2>2 DEF StepsInv, FastSteps, PartialSteps
<1>10. CASE SaveState \/ WorkerDies \/ update_state_file \/ PartialDies
  BY <1>4, <1>10 DEF SaveState, WorkerDies, update_state_file, PartialDies, Dies
<1>11. CASE (\E r \in Rows, op \in {"put", "delete", "move"} : Change(r, op)) \/ ReplicaApplies \/ Replicate
              \/ UNCHANGED vars
  BY <1>3, <1>11 DEF Change, ReplicaApplies, Replicate, vars
<1>12. QED
  BY <1>5, <1>6, <1>7, <1>8, <1>9, <1>10, <1>11 DEF NextTable, FastSyncNext, PartialSyncNext

-----------------------------------------------------------------------------
(* Masking                                                                 *)

\* What is in the target is masked at first,
LEMMA MaskInit == InitTable => MaskInv
<1> SUFFICES ASSUME InitTable PROVE MaskInv
  OBVIOUS
<1>1. load.kind = "none" /\ load.at = "idle"
  BY DEF InitTable, NoLoad
<1>2. MaskedInTarget
  BY DEF InitTable, MaskedInTarget, Loaded
<1>3. QED
  BY <1>1, <1>2 DEF MaskInv, StepsInv, TempMaskedInv

\* and after every step: nothing comes into it but from a temporary table that is masked.
LEMMA MaskStep ==
    ASSUME TypeOK, MaskInv, [NextTable]_vars
    PROVE  MaskInv'
<1>1. StepsInv'
  BY StepsStep DEF MaskInv
<1>2. StepsInv /\ TempMaskedInv /\ MaskedInTarget
  BY DEF MaskInv
<1> DEFINE AllMasked(rows) == \A r \in Rows : rows[r] # Absent => rows[r].masked
<1>3. MaskedInTarget <=> AllMasked(table)
  BY DEF MaskedInTarget
<1>4. MaskedInTarget' <=> AllMasked(table')
  BY DEF MaskedInTarget
<1>5. TempMaskedInv' <=> (load'.at \in {"replace", "drop", "swap", "merge"} => AllMasked(temp'))
  BY DEF TempMaskedInv
<1>6. TempMaskedInv <=> (load.at \in {"replace", "drop", "swap", "merge"} => AllMasked(temp))
  BY DEF TempMaskedInv
<1>7. AllMasked(NoTable)
  BY DEF NoTable
<1>8. \A v : Loaded(v).masked
  BY DEF Loaded
<1> SUFFICES /\ AllMasked(table')
             /\ load'.at \in {"replace", "drop", "swap", "merge"} => AllMasked(temp')
  BY <1>1, <1>4, <1>5 DEF MaskInv
<1>9. CASE (\E r \in Rows, op \in {"put", "delete", "move"} : Change(r, op)) \/ ReplicaApplies
             \/ UNCHANGED vars
  BY <1>9, <1>2, <1>3, <1>6 DEF Change, ReplicaApplies, vars
<1>10. CASE Replicate
  <2>1. load' = load /\ temp' = temp
    BY <1>10 DEF Replicate
  <2>2. CASE ReplicateLog
    <3>1. \A r \in Rows : Deleted(r) = Absent \/ Deleted(r).masked
      BY DEF Deleted
    <3>2. QED
      BY <1>2, <1>3, <1>6, <1>8, <2>1, <2>2, <3>1 DEF ReplicateLog
  <2>3. CASE ReplicateKeys
    BY <1>2, <1>3, <1>6, <1>8, <2>1, <2>3 DEF ReplicateKeys
  <2>4. QED
    BY <1>10, <2>2, <2>3 DEF Replicate
<1>11. CASE GetBookmark \/ Export \/ Dump \/ ExportRange
  <2>1. table' = table
    BY <1>11 DEF GetBookmark, Export, Dump, ExportRange
  <2>2. load'.at = After(load.at)
    BY <1>11 DEF GetBookmark, Export, Dump, ExportRange, TypeOK, Load
  <2>3. load.at \in {"bookmark", "copy", "dump", "export"}
    BY <1>11 DEF GetBookmark, Export, Dump, ExportRange, At
  <2>4. load.kind \in {"fast", "partial"}
    BY <1>2, <2>3 DEF StepsInv, TypeOK, Load
  <2>5. ExportStep \in {"copy", "dump"}
    BY DEF ExportStep
  <2>6. load'.at \in {"copy", "dump", "export", "load", "mark"}
    BY <1>2, <2>2, <2>3, <2>4, <2>5, NextStep
  <2>7. QED
    BY <1>2, <1>3, <2>1, <2>6
<1>12. CASE CopyToTemp
  <2>1. table' = table /\ load'.at = After(load.at) /\ load.at = "load"
    BY <1>12 DEF CopyToTemp, StepDone, TypeOK, Load
  <2>2. CASE load.kind = "fast" /\ EmptyExport
    <3>1. AllMasked(temp')
      BY <1>12, <2>2 DEF CopyToTemp, EmptyExport, NewTable, NoTable
    <3>2. QED
      BY <1>2, <1>3, <2>1, <3>1
  <2>3. CASE ~(load.kind = "fast" /\ EmptyExport)
    <3>1. load'.at = "obfuscate"
      BY <1>2, <2>1, <2>3, NextStep
    <3>2. QED
      BY <1>2, <1>3, <2>1, <3>1
  <2>4. QED
    BY <2>2, <2>3
<1>13. CASE Obfuscate
  <2>1. AllMasked(temp')
    <3>1. \A r \in Rows : temp[r] \in Row \cup {Absent}
      BY DEF TypeOK, Table
    <3>2. \A r \in Rows : temp[r] # Absent => [temp[r] EXCEPT !.masked = TRUE].masked
      BY <3>1 DEF Row
    <3>3. QED
      BY <1>13, <3>2 DEF Obfuscate, Masked
  <2>2. QED
    BY <1>2, <1>3, <1>13, <2>1 DEF Obfuscate
<1>14. CASE ReplaceTarget
  <2>1. load.at \in {"replace", "drop"} /\ temp' = temp /\ table' = NoTable
    BY <1>14 DEF ReplaceTarget, At
  <2>2. QED
    BY <1>2, <1>6, <1>7, <2>1
<1>15. CASE swap_tables \/ SwapTemp
  <2>1. load.at = "swap" /\ table' = temp /\ temp' = NoTable
    BY <1>15 DEF swap_tables, SwapTemp, SwapWithTemp
  <2>2. QED
    BY <1>2, <1>6, <1>7, <2>1
<1>16. CASE merge_tables
  <2>1. load.at = "merge" /\ table' = MergedRows /\ temp' = NoTable
    BY <1>16 DEF merge_tables, At
  <2>2. QED
    BY <1>2, <1>3, <1>6, <1>7, <2>1 DEF MergedRows
<1>17. CASE MarkDeleted
  <2>1. load'.at = "load"
    <3>1. load.at = "mark" /\ load'.at = After(load.at)
      BY <1>17 DEF MarkDeleted, At, StepDone, TypeOK, Load
    <3>2. QED
      BY <1>2, <3>1, NextStep
  <2>2. AllMasked(table')
    <3>1. \A r \in Rows : table[r] \in Row \cup {Absent}
      BY DEF TypeOK, Table
    <3>2. ASSUME NEW r \in Rows, InTargetRange(r) PROVE [table[r] EXCEPT !.deleted = TRUE].masked
      BY <1>2, <1>3, <3>1, <3>2 DEF InTargetRange, Row
    <3>3. QED
      BY <1>2, <1>3, <1>17, <3>2 DEF MarkDeleted
  <2>3. QED
    BY <2>1, <2>2
<1>18. CASE partial_hard_delete
  <2>1. load'.at = "save"
    <3>1. load.at = "hard_delete" /\ load'.at = After(load.at)
      BY <1>18 DEF partial_hard_delete, At, StepDone, TypeOK, Load
    <3>2. QED
      BY <1>2, <3>1, NextStep
  <2>2. QED
    BY <1>2, <1>3, <1>18, <2>1 DEF partial_hard_delete
<1>19. CASE Start \/ (\E flag \in BOOLEAN : SyncFromStart(flag) \/ SyncRange(flag)) \/ SaveState
              \/ WorkerDies \/ update_state_file \/ PartialDies
  <2>1. table' = table
    BY <1>19 DEF Start, SyncFromStart, SyncRange, SaveState, WorkerDies, update_state_file, PartialDies, Dies
  <2>2. load'.at \in {"bookmark", "idle"}
    <3>1. CASE Start \/ \E flag \in BOOLEAN : SyncFromStart(flag) \/ SyncRange(flag)
      BY <3>1 DEF Start, SyncFromStart, SyncRange, Begins, NoLoad
    <3>2. CASE SaveState \/ WorkerDies \/ update_state_file \/ PartialDies
      <4>1. load' = NoLoad
        BY <3>2 DEF SaveState, WorkerDies, update_state_file, PartialDies, Dies
      <4>2. QED
        BY <4>1 DEF NoLoad
    <3>3. QED
      BY <1>19, <3>1, <3>2
  <2>3. QED
    BY <1>2, <1>3, <2>1, <2>2
<1>20. QED
  BY <1>9, <1>10, <1>11, <1>12, <1>13, <1>14, <1>15, <1>16, <1>17, <1>18, <1>19
     DEF NextTable, FastSyncNext, PartialSyncNext

\* No value that a transformation masks is in the target, at any step of
\* fastsync, partialsync and the singer tap, with workers that die
\* (obfuscate_columns before swap_tables and merge_tables, create_table anew).
THEOREM OnlyMaskedRowsAreLoaded == TableSpec => []MaskedInTarget
<1>1. InitTable => TypeOK /\ MaskInv
  BY TypeInit, MaskInit
<1>2. TypeOK /\ MaskInv /\ [NextTable]_vars => (TypeOK /\ MaskInv)'
  BY TypeStep, MaskStep DEF MaskInv
<1>3. MaskInv => MaskedInTarget
  BY DEF MaskInv
<1>4. QED
  BY <1>1, <1>2, <1>3, PTL DEF TableSpec

-----------------------------------------------------------------------------
(* The source                                                              *)

\* The last change of a row is in the log.
LEMMA LastInLog ==
    ASSUME TypeOK, NEW r \in Rows
    PROVE  Now \in Nat /\ Last(r) \in 0..Now /\ Last(r) \in Nat
<1>1. Now \in Nat
  BY DEF TypeOK, Now
<1>2. Version(r, Now) \in 0..Now
  BY <1>1, VersionType
<1>3. QED
  BY <1>1, <1>2 DEF Last

\* A row is now as it was at n when nothing has changed it since.
LEMMA AsItIsNow ==
    ASSUME TypeOK, NEW r \in Rows, NEW n \in Nat, n <= Now, Last(r) <= n
    PROVE  /\ Version(r, n) = Last(r)
           /\ Alive(r, n) = Live(r)
           /\ InRange(r, n) = In(r)
<1>1. Now \in Nat
  BY DEF TypeOK, Now
<1>2. \A m : /\ Version(r, m) = VersionIn(log, r, m)
             /\ Alive(r, m) = AliveIn(log, r, m)
             /\ InRange(r, m) = InRangeIn(log, r, m)
  BY DEF Version, VersionIn, Alive, AliveIn, InRange, InRangeIn, Moves
<1>3. VersionIn(log, r, Now) <= n
  BY <1>2 DEF Last
<1>4. /\ VersionIn(log, r, n) = VersionIn(log, r, Now)
      /\ AliveIn(log, r, n) = AliveIn(log, r, Now)
      /\ InRangeIn(log, r, n) = InRangeIn(log, r, Now)
  BY <1>1, <1>3, SameSince
<1>5. QED
  BY <1>2, <1>4 DEF Last, Live, In

\* While the log is the same, so are the rows.
LEMMA SourceStays ==
    ASSUME log' = log
    PROVE  /\ Now' = Now
           /\ \A r \in Rows : Last(r)' = Last(r) /\ Live(r)' = Live(r) /\ In(r)' = In(r)
<1>1. \A r \in Rows : Version(r, Now)' = Version(r, Now)
  BY DEF Version, Now
<1>2. \A r \in Rows : Alive(r, Now)' = Alive(r, Now)
  BY DEF Alive, Version, Now
<1>3. \A r \in Rows : InRange(r, Now)' = InRange(r, Now)
  BY DEF InRange, Moves, Now
<1>4. QED
  BY <1>1, <1>2, <1>3 DEF Last, Live, In, Now

\* A change is the last one of its row, and leaves the others as they are.
LEMMA SourceChanges ==
    ASSUME TypeOK, NEW q \in Rows, NEW op \in {"put", "delete", "move"}, Change(q, op)
    PROVE  /\ Now' = Now + 1
           /\ Last(q)' = Now + 1
           /\ \A r \in Rows \ {q} : Last(r)' = Last(r) /\ Live(r)' = Live(r) /\ In(r)' = In(r)
<1> DEFINE n == Len(log)
           m == Len(log')
<1>1. /\ n \in Nat /\ m = n + 1
      /\ \A i \in 1..n : log'[i] = log[i]
      /\ log'[m].row = q
  <2> DEFINE e == [row |-> q, op |-> op]
  <2>1. e \in [row : Rows, op : {"put", "delete", "move"}] /\ e.row = q
    OBVIOUS
  <2>2. log' = Append(log, e)
    BY DEF Change
  <2> HIDE DEF e
  <2>3. log \in Seq([row : Rows, op : {"put", "delete", "move"}])
    BY DEF TypeOK
  <2>4. QED
    BY <2>1, <2>2, <2>3, AppendProperties
<1>2. Now' = m /\ Now = n
  BY DEF Now
<1>3. \A r \in Rows : /\ Last(r) = VersionIn(log, r, n) /\ Last(r)' = VersionIn(log', r, m)
                      /\ Live(r) = AliveIn(log, r, n) /\ Live(r)' = AliveIn(log', r, m)
                      /\ In(r) = InRangeIn(log, r, n) /\ In(r)' = InRangeIn(log', r, m)
  BY DEF Last, Version, VersionIn, Live, Alive, AliveIn, In, InRange, InRangeIn, Moves, Now
<1> HIDE DEF n, m
<1>4. VersionIn(log', q, m) = m
  <2>1. m \in Nat /\ m \in 0..m /\ \A i \in 1..m : i <= m
    BY <1>1
  <2>2. QED
    BY <1>1, <2>1, VersionIsLast
<1>5. ASSUME NEW r \in Rows \ {q}
      PROVE  /\ VersionIn(log, r, n) = VersionIn(log', r, m)
             /\ AliveIn(log, r, n) = AliveIn(log', r, m)
             /\ InRangeIn(log, r, n) = InRangeIn(log', r, m)
  <2>1. m \in Nat /\ n <= m
    BY <1>1
  <2>2. /\ VersionIn(log', r, m) \in 0..m
        /\ VersionIn(log', r, m) = 0 \/ log'[VersionIn(log', r, m)].row = r
    BY <2>1, VersionInLog
  <2>3. VersionIn(log', r, m) # m
    BY <1>1, <2>2
  <2>4. VersionIn(log', r, m) <= n
    BY <1>1, <2>2, <2>3
  <2>5. \A i \in 1..n : log[i] = log'[i]
    BY <1>1
  <2>6. QED
    BY <1>1, <2>1, <2>4, <2>5, SameSince
<1>6. QED
  BY <1>1, <1>2, <1>3, <1>4, <1>5

\* What Reflects says of a row, and when it goes on to.
LEMMA ReflectsIs ==
    ASSUME NEW r \in Rows
    PROVE  Reflects(r) <=> IF Live(r) THEN table[r] # Absent /\ ~table[r].deleted /\ table[r].version = Last(r)
                           ELSE LogBased => table[r] = Absent \/ table[r].deleted
BY DEF Reflects, Live, Last

LEMMA ReflectsStays ==
    ASSUME [NextTable]_vars, NEW r \in Rows, table'[r] = table[r], Live(r)' = Live(r), Last(r)' = Last(r), Reflects(r)
    PROVE  Reflects(r)'
<1>1. settings' = settings
  BY SettingsStay
<1>2. Reflects(r)' <=> IF Live(r)' THEN table'[r] # Absent /\ ~table'[r].deleted /\ table'[r].version = Last(r)'
                       ELSE LogBased' => table'[r] = Absent \/ table'[r].deleted
  BY DEF Reflects, Live, Last
<1>3. LogBased' <=> LogBased
  BY <1>1 DEF LogBased
<1>4. QED
  BY <1>2, <1>3, ReflectsIs

-----------------------------------------------------------------------------
(* Positions                                                               *)

\* No step saves a bookmark that is ahead of the log, or without a slot.
LEMMA SourceStep ==
    ASSUME TypeOK, StepsInv, SourceInv, WorkerInv, [NextTable]_vars
    PROVE  SourceInv'
<1>1. Now \in Nat /\ applied \in Nat
  BY DEF TypeOK, Now
<1>2. settings' = settings
  BY SettingsStay
<1>3. ASSUME NEW q \in Rows, NEW op \in {"put", "delete", "move"}, Change(q, op)
      PROVE  SourceInv'
  <2>1. Now' = Now + 1
    BY <1>3, SourceChanges
  <2>2. slot' = slot /\ saved' = saved /\ applied' = IF settings.replica THEN applied ELSE Now + 1
    BY <1>3 DEF Change
  <2>3. slot \in Nat \cup {None} /\ saved \in Nat \cup {None}
    BY DEF TypeOK
  <2>4. applied' <= Now' /\ (~settings.replica => applied' = Now')
    BY <1>1, <2>1, <2>2 DEF SourceInv
  <2>5. (slot' # None => slot' <= Now') /\ (saved' # None => slot' # None /\ saved' <= Now')
    BY <1>1, <2>1, <2>2, <2>3 DEF SourceInv
  <2>6. ~(LogBased /\ settings.tap = "postgres") => slot' = 0
    BY <2>2 DEF SourceInv
  <2>7. QED
    BY <1>2, <2>4, <2>5, <2>6 DEF SourceInv, LogBased
<1>4. CASE log' = log /\ slot' = slot /\ saved' = saved /\ applied' = applied
  BY <1>2, <1>4 DEF SourceInv, LogBased, Now
<1>5. CASE ReplicaApplies
  BY <1>1, <1>2, <1>5 DEF ReplicaApplies, SourceInv, LogBased, Now
<1>6. CASE log' = log /\ slot' = slot /\ applied' = applied /\ (saved' = None \/ (slot # None /\ saved' <= Now))
  BY <1>2, <1>6 DEF SourceInv, LogBased, Now
<1>7. CASE Replicate
  <2>1. log' = log /\ slot' = slot /\ applied' = applied /\ slot # None
    BY <1>7 DEF Replicate, SourceInv
  <2>2. CASE ReplicateLog
    BY <1>1, <1>6, <2>1, <2>2 DEF ReplicateLog
  <2>3. CASE ReplicateKeys
    <3> DEFINE sel == {r \in Rows : Alive(r, Now) /\ Version(r, Now) >= saved}
               T   == {saved} \cup {Version(r, Now) : r \in sel}
    <3>1. saved' = Max(T)
      BY <2>3 DEF ReplicateKeys
    <3>2. saved \in 0..Now
      BY <1>1, <1>7 DEF Replicate, SourceInv, TypeOK
    <3>3. \A r \in sel : Version(r, Now) \in 0..Now
      BY <1>1, VersionType
    <3>4. T \subseteq 0..Now /\ T # {}
      BY <3>2, <3>3
    <3> HIDE DEF T
    <3>5. saved' \in 0..Now
      BY <1>1, <3>1, <3>4, MaxIsBounded
    <3>6. QED
      BY <1>1, <1>6, <2>1, <3>5
  <2>4. QED
    BY <1>7, <2>2, <2>3 DEF Replicate
<1>8. CASE GetBookmark
  <2>1. /\ log' = log /\ saved' = saved /\ applied' = applied
        /\ slot' = IF settings.tap = "postgres" /\ LogBased /\ slot = None THEN Now ELSE slot
    BY <1>8 DEF GetBookmark, create_replication_slot
  <2>2. Now' = Now
    BY <2>1 DEF Now
  <2>3. slot' # None => slot' <= Now'
    BY <1>1, <2>1, <2>2 DEF SourceInv
  <2>4. saved' # None => slot' # None /\ saved' <= Now'
    BY <2>1, <2>2 DEF SourceInv
  <2>5. ~(LogBased /\ settings.tap = "postgres") => slot' = 0
    BY <2>1 DEF SourceInv
  <2>6. QED
    BY <1>2, <2>1, <2>2, <2>3, <2>4, <2>5 DEF SourceInv, LogBased
<1>9. CASE SaveState \/ update_state_file
  <2>1. log' = log /\ slot' = slot /\ applied' = applied /\ load.at = "save"
    BY <1>9 DEF SaveState, update_state_file, At
  <2>2. saved' \in {saved, load.bookmark}
    BY <1>9 DEF SaveState, update_state_file, BookmarkToSave
  <2>3. slot # None /\ (load.bookmark # None => load.bookmark <= Now)
    BY <2>1 DEF WorkerInv, Positioned
  <2>4. QED
    BY <1>6, <2>1, <2>2, <2>3 DEF SourceInv
<1>10. CASE \E flag \in BOOLEAN : SyncFromStart(flag)
  BY <1>6, <1>10 DEF SyncFromStart
<1>11. CASE CopyToTemp \/ Obfuscate \/ Start \/ Export \/ Dump \/ ReplaceTarget \/ swap_tables \/ WorkerDies
              \/ (\E flag \in BOOLEAN : SyncRange(flag)) \/ UNCHANGED vars
  BY <1>4, <1>11 DEF CopyToTemp, Obfuscate, Start, Export, Dump, ReplaceTarget, swap_tables, WorkerDies, Dies,
                     SyncRange, vars
<1>12. CASE ExportRange \/ MarkDeleted \/ merge_tables \/ partial_hard_delete \/ SwapTemp \/ PartialDies
  BY <1>4, <1>12 DEF ExportRange, MarkDeleted, merge_tables, partial_hard_delete, SwapTemp, PartialDies, Dies
<1>13. QED
  BY <1>3, <1>5, <1>7, <1>8, <1>9, <1>10, <1>11, <1>12 DEF NextTable, FastSyncNext, PartialSyncNext

\* The positions that get_bookmark_for_table may find.
LEMMA BookmarkFound ==
    ASSUME TypeOK, SourceInv, NEW s, s = create_replication_slot,
           NEW b \in IF LogBased THEN fetch_current_log_pos ELSE fetch_current_incremental_key_pos
    PROVE  /\ s \in Nat
           /\ b \in Nat \cup {None}
           /\ b # None => b <= Now
           /\ LogBased => b \in Nat
           /\ LogBased /\ ~(applied < Max({b, s})) => s <= b /\ b <= applied
           /\ ~LogBased /\ b # None => s <= b /\ b <= applied
<1>1. Now \in Nat /\ applied \in Nat /\ applied <= Now /\ slot \in Nat \cup {None}
  BY DEF TypeOK, Now, SourceInv
<1>2. s = IF settings.tap = "postgres" /\ LogBased /\ slot = None THEN Now ELSE slot
  BY DEF create_replication_slot
<1>3. s \in Nat
  <2>1. CASE settings.tap = "postgres" /\ LogBased
    BY <1>1, <1>2, <2>1
  <2>2. CASE ~(settings.tap = "postgres" /\ LogBased)
    BY <1>2, <2>2 DEF SourceInv
  <2>3. QED
    BY <2>1, <2>2
<1>4. CASE LogBased
  <2>1. b \in fetch_current_log_pos
    BY <1>4
  <2>2. b \in Nat /\ b <= Now
    BY <1>1, <2>1 DEF fetch_current_log_pos, BinlogPositions
  <2>3. ASSUME ~(applied < Max({b, s})) PROVE s <= b /\ b <= applied
    <3> DEFINE T == {b, s}
    <3>1. T \subseteq 0..b + s /\ T # {} /\ b \in T /\ s \in T /\ b + s \in Nat
      BY <1>3, <2>2
    <3> HIDE DEF T
    <3>2. b <= Max(T) /\ s <= Max(T)
      BY <3>1, MaxOfBounded
    <3>3. Max(T) \in Nat
      BY <3>1, MaxIsBounded
    <3>4. Max(T) <= applied
      BY <1>1, <2>3, <3>3 DEF T
    <3>5. b <= applied /\ s <= applied
      BY <1>1, <1>3, <2>2, <3>2, <3>3, <3>4
    <3>6. CASE settings.tap = "mysql"
      <4>1. s = 0
        BY <1>2, <3>6 DEF SourceInv
      <4>2. QED
        BY <2>2, <3>5, <4>1
    <3>7. CASE settings.tap # "mysql"
      <4>1. b = applied
        BY <2>1, <3>7 DEF fetch_current_log_pos
      <4>2. QED
        BY <1>1, <3>5, <4>1
    <3>8. QED
      BY <3>6, <3>7
  <2>4. QED
    BY <1>3, <1>4, <2>2, <2>3
<1>5. CASE ~LogBased
  <2>1. s = 0
    BY <1>2, <1>5 DEF SourceInv
  <2> DEFINE keys == {Version(r, applied) : r \in {q \in Rows : Alive(q, applied)}}
  <2>2. b = IF keys # {} THEN Max(keys) ELSE IF settings.tap = "postgres" THEN None ELSE 0
    BY <1>5 DEF fetch_current_incremental_key_pos
  <2>3. keys \subseteq 0..applied
    BY <1>1, VersionType
  <2> HIDE DEF keys
  <2>4. b = None \/ b \in 0..applied
    <3>1. CASE keys # {}
      <4>1. Max(keys) \in 0..applied
        BY <1>1, <2>3, <3>1, MaxIsBounded
      <4>2. QED
        BY <2>2, <3>1, <4>1
    <3>2. CASE keys = {}
      BY <1>1, <2>2, <3>2
    <3>3. QED
      BY <3>1, <3>2
  <2>5. QED
    BY <1>1, <1>3, <1>5, <2>1, <2>4, NoneAssumption
<1>6. QED
  BY <1>4, <1>5

\* A bookmark that is exact stays between the slot and what the database has applied.
LEMMA WorkerStep ==
    ASSUME TypeOK, StepsInv, SourceInv, WorkerInv, [NextTable]_vars
    PROVE  WorkerInv'
<1>1. Now \in Nat /\ applied \in Nat
  BY DEF TypeOK, Now
<1>2. settings' = settings /\ (LogBased' <=> LogBased)
  BY SettingsStay DEF LogBased
<1>3. load.bookmark \in Nat \cup {None}
  BY DEF TypeOK, Load
<1>4. CASE /\ load' = load /\ slot' = slot /\ saved' = saved
           /\ Now' \in Nat /\ Now' >= Now /\ applied' \in Nat /\ applied' >= applied
  <2>1. (load.drop => saved' = None) /\ (load.bookmark # None => load.bookmark <= Now')
    BY <1>1, <1>3, <1>4 DEF WorkerInv
  <2>2. Positioned => /\ slot' # None
                      /\ LogBased => load.bookmark # None
                      /\ ~LogBased => ~load.lags
    BY <1>4 DEF WorkerInv
  <2>3. Positioned /\ Exact => slot' <= load.bookmark /\ load.bookmark <= applied'
    BY <1>1, <1>3, <1>4 DEF WorkerInv, Exact
  <2>4. QED
    BY <1>2, <1>4, <2>1, <2>2, <2>3 DEF WorkerInv, Positioned, Exact
<1>5. ASSUME NEW q \in Rows, NEW op \in {"put", "delete", "move"}, Change(q, op)
      PROVE  WorkerInv'
  <2>1. Now' = Now + 1
    BY <1>5, SourceChanges
  <2>2. /\ load' = load /\ slot' = slot /\ saved' = saved
        /\ applied' = IF settings.replica THEN applied ELSE Now + 1
    BY <1>5 DEF Change
  <2>3. applied <= Now
    BY DEF SourceInv
  <2>4. QED
    BY <1>1, <1>4, <2>1, <2>2, <2>3
<1>6. CASE ReplicaApplies
  BY <1>1, <1>4, <1>6 DEF ReplicaApplies, Now
<1>7. CASE Replicate
  <2>1. load' = load /\ log' = log /\ slot' = slot /\ applied' = applied /\ saved # None
    BY <1>7 DEF Replicate
  <2>2. ~load.drop
    BY <2>1 DEF WorkerInv
  <2>3. QED
    BY <1>2, <2>1, <2>2 DEF WorkerInv, Positioned, Exact, Now
<1>8. CASE GetBookmark
  <2>1. PICK b \in IF LogBased THEN fetch_current_log_pos ELSE fetch_current_incremental_key_pos :
          load' = [load EXCEPT !.at = After(@), !.bookmark = b,
                       !.lags = LogBased /\ applied < Max({b, slot'})]
    BY <1>8 DEF GetBookmark
  <2>2. slot' = create_replication_slot /\ saved' = saved /\ applied' = applied /\ Now' = Now
    BY <1>8 DEF GetBookmark, Now
  <2>3. /\ slot' \in Nat
        /\ b \in Nat \cup {None}
        /\ b # None => b <= Now
        /\ LogBased => b \in Nat
        /\ LogBased /\ ~(applied < Max({b, slot'})) => slot' <= b /\ b <= applied
        /\ ~LogBased /\ b # None => slot' <= b /\ b <= applied
    BY <2>1, <2>2, BookmarkFound
  <2>4. /\ load'.drop = load.drop /\ load'.bookmark = b
        /\ load'.lags = (LogBased /\ applied < Max({b, slot'}))
    BY <2>1 DEF TypeOK, Load
  <2>5. load'.drop => saved' = None
    BY <2>2, <2>4 DEF WorkerInv
  <2>6. load'.bookmark # None => load'.bookmark <= Now'
    BY <2>2, <2>3, <2>4
  <2>7. slot' # None /\ (LogBased => load'.bookmark # None) /\ (~LogBased => ~load'.lags)
    BY <2>3, <2>4, NoneAssumption
  <2>8. Exact' => slot' <= load'.bookmark /\ load'.bookmark <= applied'
    BY <2>2, <2>3, <2>4 DEF Exact
  <2>9. QED
    BY <1>2, <2>5, <2>6, <2>7, <2>8 DEF WorkerInv
<1>9. CASE Start \/ \E flag \in BOOLEAN : SyncFromStart(flag) \/ SyncRange(flag)
  <2>1. load'.at = "bookmark" /\ load'.bookmark = None
    BY <1>9 DEF Start, SyncFromStart, SyncRange, Begins, NoLoad
  <2>2. load'.drop => saved' = None
    BY <1>9 DEF Start, SyncFromStart, SyncRange, Begins, NoLoad
  <2>3. QED
    BY <2>1, <2>2 DEF WorkerInv, Positioned
<1>10. CASE SaveState \/ WorkerDies \/ update_state_file \/ PartialDies
  <2>1. load' = NoLoad
    BY <1>10 DEF SaveState, WorkerDies, update_state_file, PartialDies, Dies
  <2>2. QED
    BY <2>1 DEF NoLoad, WorkerInv, Positioned
<1>11. CASE /\ log' = log /\ slot' = slot /\ applied' = applied /\ saved' = saved /\ Positioned
            /\ load'.bookmark = load.bookmark /\ load'.lags = load.lags /\ load'.drop = load.drop
  BY <1>2, <1>11 DEF WorkerInv, Exact, Now
<1>12. CASE CopyToTemp \/ Obfuscate \/ ReplaceTarget \/ swap_tables \/ SwapTemp \/ MarkDeleted \/ merge_tables
              \/ partial_hard_delete
  <2>1. load' = [load EXCEPT !.at = After(load.at)]
    BY <1>12 DEF CopyToTemp, Obfuscate, ReplaceTarget, swap_tables, SwapTemp, MarkDeleted, merge_tables,
                 partial_hard_delete, SwapWithTemp, StepDone
  <2>2. Positioned
    BY <1>12 DEF CopyToTemp, Obfuscate, ReplaceTarget, swap_tables, SwapTemp, MarkDeleted, merge_tables,
                 partial_hard_delete, SwapWithTemp, At, Positioned
  <2>3. log' = log /\ slot' = slot /\ applied' = applied /\ saved' = saved
    BY <1>12 DEF CopyToTemp, Obfuscate, ReplaceTarget, swap_tables, SwapTemp, MarkDeleted, merge_tables,
                 partial_hard_delete
  <2>4. QED
    BY <1>11, <2>1, <2>2, <2>3 DEF TypeOK, Load
<1>13. CASE Export \/ Dump \/ ExportRange
  <2>1. PICK rows : load' = [load EXCEPT !.at = After(@), !.rows = rows]
    BY <1>13 DEF Export, Dump, ExportRange
  <2>2. Positioned
    BY <1>13 DEF Export, Dump, ExportRange, At, Positioned
  <2>3. log' = log /\ slot' = slot /\ applied' = applied /\ saved' = saved
    BY <1>13 DEF Export, Dump, ExportRange
  <2>4. QED
    BY <1>11, <2>1, <2>2, <2>3 DEF TypeOK, Load
<1>14. CASE UNCHANGED vars
  BY <1>1, <1>4, <1>14 DEF vars, Now
<1>15. QED
  BY <1>5, <1>6, <1>7, <1>8, <1>9, <1>10, <1>12, <1>13, <1>14 DEF NextTable, FastSyncNext, PartialSyncNext

-----------------------------------------------------------------------------
(* The rows of a load                                                      *)

\* Changes after the bookmark alone make the export differ from the source.
LEMMA RowsStep ==
    ASSUME TypeOK, StepsInv, SourceInv, WorkerInv, RowsInv, [NextTable]_vars
    PROVE  RowsInv'
<1>1. Now \in Nat /\ applied \in Nat /\ applied <= Now /\ load.bookmark \in Nat \cup {None}
  BY DEF TypeOK, Now, Load, SourceInv
<1>2. CASE /\ log' = log
           /\ load'.kind = load.kind /\ load'.bookmark = load.bookmark /\ load'.lags = load.lags
           /\ load'.rows = load.rows /\ (HasRows' => HasRows)
  <2>1. \A r \in Rows : Last(r)' = Last(r) /\ Live(r)' = Live(r) /\ In(r)' = In(r)
    BY <1>2, SourceStays
  <2>2. \A r \in Rows : ToLoad(r)' = ToLoad(r)
    BY <1>2, <2>1 DEF ToLoad
  <2>3. QED
    BY <1>2, <2>1, <2>2 DEF RowsInv, Exact
<1>3. ASSUME NEW q \in Rows, NEW op \in {"put", "delete", "move"}, Change(q, op)
      PROVE  RowsInv'
  <2>1. load' = load
    BY <1>3 DEF Change
  <2>2. /\ Last(q)' = Now + 1
        /\ \A r \in Rows \ {q} : Last(r)' = Last(r) /\ Live(r)' = Live(r) /\ In(r)' = In(r)
    BY <1>3, SourceChanges
  <2>3. load.bookmark # None => load.bookmark <= Now
    BY DEF WorkerInv
  <2>4. \A r \in Rows \ {q} : ToLoad(r)' = ToLoad(r)
    BY <2>1, <2>2 DEF ToLoad
  <2>5. SUFFICES ASSUME HasRows, Exact, NEW r \in Rows, Last(r)' <= load.bookmark
                 PROVE  load.rows[r] = ToLoad(r)'
    BY <2>1 DEF RowsInv, HasRows, Exact
  <2>6. r # q
    BY <1>1, <2>2, <2>3, <2>5 DEF Exact
  <2>7. QED
    BY <2>2, <2>4, <2>5, <2>6 DEF RowsInv
<1>4. CASE load' = load /\ log' = log
  BY <1>2, <1>4 DEF HasRows
<1>5. CASE ReplicaApplies \/ Replicate \/ UNCHANGED vars
  BY <1>4, <1>5 DEF ReplicaApplies, Replicate, vars
<1>6. CASE GetBookmark
  <2>1. load.kind \in {"fast", "partial"} /\ load.at = "bookmark" /\ load'.at = After(load.at)
    BY <1>6 DEF GetBookmark, StepsInv, TypeOK, Load
  <2>2. ExportStep \in {"copy", "dump"}
    BY DEF ExportStep
  <2>3. ~HasRows'
    BY <2>1, <2>2, NextStep DEF HasRows
  <2>4. QED
    BY <2>3 DEF RowsInv
<1>7. CASE Start \/ (\E flag \in BOOLEAN : SyncFromStart(flag) \/ SyncRange(flag))
  <2>1. load'.at = "bookmark"
    BY <1>7 DEF Start, SyncFromStart, SyncRange, Begins, NoLoad
  <2>2. QED
    BY <2>1 DEF RowsInv, HasRows
<1>8. CASE SaveState \/ WorkerDies \/ update_state_file \/ PartialDies
  <2>1. load' = NoLoad
    BY <1>8 DEF SaveState, WorkerDies, update_state_file, PartialDies, Dies
  <2>2. QED
    BY <2>1 DEF NoLoad, RowsInv, HasRows
<1>9. CASE CopyToTemp \/ Obfuscate \/ ReplaceTarget \/ swap_tables \/ SwapTemp \/ MarkDeleted \/ merge_tables
             \/ partial_hard_delete
  <2>1. load' = [load EXCEPT !.at = After(load.at)]
    BY <1>9 DEF CopyToTemp, Obfuscate, ReplaceTarget, swap_tables, SwapTemp, MarkDeleted, merge_tables,
                partial_hard_delete, SwapWithTemp, StepDone
  <2>2. HasRows
    BY <1>9 DEF CopyToTemp, Obfuscate, ReplaceTarget, swap_tables, SwapTemp, MarkDeleted, merge_tables,
                partial_hard_delete, SwapWithTemp, At, HasRows
  <2>3. log' = log
    BY <1>9 DEF CopyToTemp, Obfuscate, ReplaceTarget, swap_tables, SwapTemp, MarkDeleted, merge_tables,
                partial_hard_delete
  <2>4. QED
    BY <1>2, <2>1, <2>2, <2>3 DEF TypeOK, Load
<1>10. ASSUME NEW rows, load' = [load EXCEPT !.at = After(@), !.rows = rows], log' = log, Positioned,
              \A r \in Rows : Exact /\ Last(r) <= load.bookmark => rows[r] = ToLoad(r)
       PROVE  RowsInv'
  <2>1. /\ load'.kind = load.kind /\ load'.bookmark = load.bookmark /\ load'.lags = load.lags
        /\ load'.rows = rows
    BY <1>10 DEF TypeOK, Load
  <2>2. \A r \in Rows : Last(r)' = Last(r) /\ Live(r)' = Live(r) /\ In(r)' = In(r)
    BY <1>10, SourceStays
  <2>3. \A r \in Rows : ToLoad(r)' = ToLoad(r)
    BY <2>1, <2>2 DEF ToLoad
  <2>4. QED
    BY <1>10, <2>1, <2>2, <2>3 DEF RowsInv, Exact
<1>11. CASE Export
  <2>1. Positioned /\ load.kind = "fast" /\ log' = log
    BY <1>11 DEF Export, At, Positioned
  <2> DEFINE rows == [r \in Rows |-> ExportedAt(r, applied)]
  <2>2. ASSUME NEW r \in Rows, Exact, Last(r) <= load.bookmark
        PROVE  rows[r] = ToLoad(r)
    <3>1. Last(r) \in Nat /\ load.bookmark \in Nat /\ load.bookmark <= applied
      BY <1>1, <2>1, <2>2, LastInLog DEF WorkerInv, Exact
    <3>2. Last(r) <= applied
      BY <1>1, <2>2, <3>1
    <3>3. Version(r, applied) = Last(r) /\ Alive(r, applied) = Live(r)
      BY <1>1, <3>2, AsItIsNow
    <3>4. QED
      BY <2>1, <3>3 DEF ExportedAt, ToLoad
  <2>3. load' = [load EXCEPT !.at = After(@), !.rows = rows]
    BY <1>11 DEF Export
  <2> HIDE DEF rows
  <2>4. QED
    BY <1>10, <2>1, <2>2, <2>3
<1>12. CASE Dump
  <2>1. Positioned /\ load.kind = "fast" /\ log' = log /\ load.at = "dump"
    BY <1>12 DEF Dump, At, Positioned
  <2>2. PICK at \in [Rows -> load.bookmark..applied] :
          load' = [load EXCEPT !.at = After(@), !.rows = [r \in Rows |-> ExportedAt(r, at[r])]]
    BY <1>12 DEF Dump
  <2>3. load.bookmark \in Nat
    BY <1>1, <2>1 DEF StepsInv
  <2> DEFINE rows == [r \in Rows |-> ExportedAt(r, at[r])]
  <2>4. ASSUME NEW r \in Rows, Exact, Last(r) <= load.bookmark
        PROVE  rows[r] = ToLoad(r)
    <3>1. Last(r) \in Nat
      BY LastInLog
    <3>2. at[r] \in load.bookmark..applied
      BY <2>2
    <3>3. at[r] \in Nat /\ at[r] <= Now /\ Last(r) <= at[r]
      BY <1>1, <2>3, <2>4, <3>1, <3>2
    <3>4. Version(r, at[r]) = Last(r) /\ Alive(r, at[r]) = Live(r)
      BY <3>3, AsItIsNow
    <3>5. QED
      BY <2>1, <3>4 DEF ExportedAt, ToLoad
  <2>5. load' = [load EXCEPT !.at = After(@), !.rows = rows]
    BY <2>2
  <2> HIDE DEF rows
  <2>6. QED
    BY <1>10, <2>1, <2>4, <2>5
<1>13. CASE ExportRange
  <2>1. Positioned /\ load.kind = "partial" /\ log' = log
    BY <1>13 DEF ExportRange, At, Positioned
  <2> DEFINE rows == [r \in Rows |-> IF Alive(r, applied) /\ InRange(r, applied)
                                     THEN Version(r, applied) ELSE Absent]
  <2>2. ASSUME NEW r \in Rows, Exact, Last(r) <= load.bookmark
        PROVE  rows[r] = ToLoad(r)
    <3>1. Last(r) \in Nat /\ load.bookmark \in Nat /\ load.bookmark <= applied
      BY <1>1, <2>1, <2>2, LastInLog DEF WorkerInv, Exact
    <3>2. Last(r) <= applied
      BY <1>1, <2>2, <3>1
    <3>3. Version(r, applied) = Last(r) /\ Alive(r, applied) = Live(r) /\ InRange(r, applied) = In(r)
      BY <1>1, <3>2, AsItIsNow
    <3>4. QED
      BY <2>1, <3>3 DEF ToLoad
  <2>3. load' = [load EXCEPT !.at = After(@), !.rows = rows]
    BY <1>13 DEF ExportRange
  <2> HIDE DEF rows
  <2>4. QED
    BY <1>10, <2>1, <2>2, <2>3
<1>14. QED
  BY <1>3, <1>5, <1>6, <1>7, <1>8, <1>9, <1>11, <1>12, <1>13 DEF NextTable, FastSyncNext, PartialSyncNext

\* CopyToTemp fills the temporary table from the export, and masking leaves its rows.
LEMMA TempStep ==
    ASSUME TypeOK, StepsInv, TempInv, [NextTable]_vars
    PROVE  TempInv'
<1> DEFINE Holds(rows, t) ==
             \A r \in Rows : IF rows[r] = Absent THEN t[r] = Absent
                             ELSE t[r] # Absent /\ t[r].version = rows[r] /\ ~t[r].deleted
<1>1. TempInv <=> (InTemp => Holds(load.rows, temp))
  BY DEF TempInv
<1>2. TempInv' <=> (InTemp' => Holds(load'.rows, temp'))
  BY DEF TempInv
<1> HIDE DEF Holds
<1>3. CASE load'.rows = load.rows /\ temp' = temp /\ (InTemp' => InTemp)
  BY <1>1, <1>2, <1>3
<1>4. CASE load'.at \in {"idle", "bookmark", "copy", "dump", "export", "mark", "load", "save", "hard_delete"}
  BY <1>2, <1>4 DEF InTemp
<1>5. CASE load' = load /\ temp' = temp
  BY <1>3, <1>5 DEF InTemp
<1>6. CASE (\E r \in Rows, op \in {"put", "delete", "move"} : Change(r, op)) \/ ReplicaApplies \/ Replicate
             \/ UNCHANGED vars
  BY <1>5, <1>6 DEF Change, ReplicaApplies, Replicate, vars
<1>7. CASE Start \/ (\E flag \in BOOLEAN : SyncFromStart(flag) \/ SyncRange(flag))
  BY <1>4, <1>7 DEF Start, SyncFromStart, SyncRange, Begins, NoLoad
<1>8. CASE SaveState \/ WorkerDies \/ update_state_file \/ PartialDies
  <2>1. load' = NoLoad
    BY <1>8 DEF SaveState, WorkerDies, update_state_file, PartialDies, Dies
  <2>2. QED
    BY <1>4, <2>1 DEF NoLoad
<1>9. CASE GetBookmark \/ Export \/ Dump \/ ExportRange \/ MarkDeleted
  <2>1. load'.at = After(load.at)
    BY <1>9 DEF GetBookmark, Export, Dump, ExportRange, MarkDeleted, StepDone, TypeOK, Load
  <2>2. load.at \in {"bookmark", "copy", "dump", "export", "mark"}
    BY <1>9 DEF GetBookmark, Export, Dump, ExportRange, MarkDeleted, At
  <2>3. ExportStep \in {"copy", "dump"}
    BY DEF ExportStep
  <2>4. load.kind \in {"fast", "partial"}
    BY <2>2 DEF StepsInv, TypeOK, Load
  <2>5. QED
    BY <1>4, <2>1, <2>2, <2>3, <2>4, NextStep
<1>10. CASE swap_tables \/ SwapTemp \/ merge_tables \/ partial_hard_delete
  <2>1. load'.at = After(load.at) /\ load.at \in {"swap", "merge", "hard_delete"}
    BY <1>10 DEF swap_tables, SwapTemp, SwapWithTemp, merge_tables, partial_hard_delete, At, StepDone, TypeOK, Load
  <2>2. After(load.at) \in {"save", "hard_delete"}
    BY <2>1, NextStep DEF TypeOK, Settings
  <2>3. QED
    BY <1>4, <2>1, <2>2
<1>11. CASE ReplaceTarget
  <2>1. temp' = temp /\ load'.rows = load.rows /\ load.at \in {"replace", "drop"}
    BY <1>11 DEF ReplaceTarget, At, StepDone, TypeOK, Load
  <2>2. QED
    BY <1>3, <2>1 DEF InTemp
<1>12. CASE CopyToTemp
  <2>1. load'.rows = load.rows
    BY <1>12 DEF CopyToTemp, StepDone, TypeOK, Load
  <2>2. temp' = [r \in Rows |-> IF r \in Exported THEN [Loaded(load.rows[r]) EXCEPT !.masked = FALSE]
                                ELSE NewTable[r]]
    BY <1>12 DEF CopyToTemp
  <2>3. ASSUME NEW r \in Rows
        PROVE  IF load.rows[r] = Absent THEN temp'[r] = Absent
               ELSE temp'[r] # Absent /\ temp'[r].version = load.rows[r] /\ ~temp'[r].deleted
    <3>1. CASE load.rows[r] = Absent
      <4>1. temp'[r] = NewTable[r]
        BY <2>2, <3>1 DEF Exported
      <4>2. QED
        BY <3>1, <4>1 DEF NewTable, NoTable
    <3>2. CASE load.rows[r] # Absent
      <4> DEFINE row == [Loaded(load.rows[r]) EXCEPT !.masked = FALSE]
      <4>1. temp'[r] = row
        BY <2>2, <3>2 DEF Exported
      <4>2. load.rows[r] \in Nat
        BY <3>2 DEF TypeOK, Load
      <4>3. row \in Row /\ row.version = load.rows[r] /\ row.deleted = FALSE
        BY <4>2, RowOfLoad DEF Loaded
      <4>4. Absent \notin Row
        BY AbsentAssumption DEF Row
      <4> HIDE DEF row
      <4>5. QED
        BY <3>2, <4>1, <4>3, <4>4
    <3>3. QED
      BY <3>1, <3>2
  <2>4. Holds(load'.rows, temp')
    BY <2>1, <2>3 DEF Holds
  <2>5. QED
    BY <1>2, <2>4
<1>13. CASE Obfuscate
  <2>1. load'.rows = load.rows /\ temp' = Masked(temp) /\ InTemp
    BY <1>13 DEF Obfuscate, StepDone, TypeOK, Load, InTemp
  <2>2. ASSUME NEW r \in Rows
        PROVE  IF load.rows[r] = Absent THEN temp'[r] = Absent
               ELSE temp'[r] # Absent /\ temp'[r].version = load.rows[r] /\ ~temp'[r].deleted
    <3>1. IF load.rows[r] = Absent THEN temp[r] = Absent
          ELSE temp[r] # Absent /\ temp[r].version = load.rows[r] /\ ~temp[r].deleted
      BY <1>1, <2>1 DEF Holds
    <3>2. temp'[r] = IF temp[r] = Absent THEN Absent ELSE [temp[r] EXCEPT !.masked = TRUE]
      BY <2>1 DEF Masked
    <3>3. CASE temp[r] = Absent
      BY <3>1, <3>2, <3>3
    <3>4. CASE temp[r] # Absent
      <4> DEFINE row == [temp[r] EXCEPT !.masked = TRUE]
      <4>1. temp[r] \in Row
        BY <3>4 DEF TypeOK, Table
      <4>2. row \in Row /\ row.version = temp[r].version /\ row.deleted = temp[r].deleted
        BY <4>1 DEF Row
      <4>3. Absent \notin Row
        BY AbsentAssumption DEF Row
      <4>4. temp'[r] = row
        BY <3>2, <3>4
      <4> HIDE DEF row
      <4>5. QED
        BY <3>1, <3>4, <4>2, <4>3, <4>4
    <3>5. QED
      BY <3>3, <3>4
  <2>3. Holds(load'.rows, temp')
    BY <2>1, <2>2 DEF Holds
  <2>4. QED
    BY <1>2, <2>3
<1>14. QED
  BY <1>6, <1>7, <1>8, <1>9, <1>10, <1>11, <1>12, <1>13 DEF NextTable, FastSyncNext, PartialSyncNext

-----------------------------------------------------------------------------
(* The rows of the target                                                  *)

\* A worker that is not behind the bookmark of the state file has exported what
\* the singer tap will not read.
LEMMA NotBehind ==
    ASSUME TypeOK, LoadInv, Positioned, saved # None, ~BehindBookmark
    PROVE  /\ Exact
           /\ \A r \in Rows : Known(r) => Last(r) <= load.bookmark
<1>1. /\ saved \in Nat /\ load.bookmark \in Nat \cup {None} /\ slot \in Nat \cup {None}
      /\ \A r \in Rows : Last(r) \in Nat
  BY LastInLog DEF TypeOK, Load
<1>2. ~load.lags /\ load.bookmark # None /\ ~(saved > load.bookmark)
  BY DEF BehindBookmark
<1>3. Exact
  BY <1>2 DEF Exact
<1>4. slot \in Nat /\ slot <= load.bookmark
  BY <1>1, <1>3 DEF LoadInv, WorkerInv
<1>5. \A r \in Rows : Last(r) <= saved \/ Last(r) <= slot => Last(r) <= load.bookmark
  BY <1>1, <1>2, <1>4
<1>6. QED
  BY <1>3, <1>5 DEF Known

\* The rows a partial sync has left alone, and those it has loaded.
LEMMA LoadedByPartial ==
    ASSUME TypeOK, LoadInv, TableInv, load.kind = "partial", load.at \in {"hard_delete", "save"},
           saved # None, ~BehindBookmark, NEW r \in Rows \ lost, Known(r)
    PROVE  Reflects(r)
<1>1. Positioned /\ ~Untouched
  BY DEF Positioned, Untouched
<1>2. Exact /\ Last(r) <= load.bookmark
  BY <1>1, NotBehind
<1>3. CASE load.rows[r] = Absent
  BY <1>1, <1>3 DEF TableInv, LeftInv
<1>4. CASE load.rows[r] # Absent
  BY <1>2, <1>4 DEF TableInv, MergedInv
<1>5. QED
  BY <1>3, <1>4

\* Rows that are as they were, or that changed after every position.
LEMMA QuietStep ==
    ASSUME TypeOK, LoadInv, TableInv, [NextTable]_vars,
           load' = load, table' = table, saved' = saved, slot' = slot, lost' = lost,
           \A r \in Rows : \/ Last(r)' = Last(r) /\ Live(r)' = Live(r)
                           \/ Last(r)' = Now + 1
    PROVE  TableInv'
<1>1. /\ Now \in Nat /\ saved \in Nat \cup {None} /\ slot \in Nat \cup {None}
      /\ load.bookmark \in Nat \cup {None}
      /\ saved # None => slot # None /\ saved <= Now
      /\ slot # None => slot <= Now
      /\ load.bookmark # None => load.bookmark <= Now
  BY DEF TypeOK, Load, Now, LoadInv, SourceInv, WorkerInv
<1>2. ASSUME NEW r \in Rows, Last(r)' = Last(r) /\ Live(r)' = Live(r), Reflects(r) PROVE Reflects(r)'
  BY <1>2, ReflectsStays
<1>3. ASSUME NEW r \in Rows, saved # None, Known(r)'
      PROVE  Last(r)' = Last(r) /\ Live(r)' = Live(r) /\ Known(r)
  <2>1. Last(r)' <= saved \/ Last(r)' <= slot
    BY <1>3 DEF Known
  <2>2. Last(r)' # Now + 1
    BY <1>1, <1>3, <2>1
  <2>3. Last(r)' = Last(r) /\ Live(r)' = Live(r)
    BY <2>2
  <2>4. QED
    BY <2>1, <2>3 DEF Known
<1>4. ASSUME NEW r \in Rows, Exact, Last(r)' <= load.bookmark
      PROVE  Last(r)' = Last(r) /\ Live(r)' = Live(r) /\ Last(r) <= load.bookmark
  <2>1. Last(r)' # Now + 1
    BY <1>1, <1>4 DEF Exact
  <2>2. QED
    BY <1>4, <2>1
<1>5. (Untouched' <=> Untouched) /\ (Exact' <=> Exact) /\ (BehindBookmark' <=> BehindBookmark)
  BY DEF Untouched, Exact, BehindBookmark
<1>6. IdleInv'
  <2>1. SUFFICES ASSUME Untouched, saved # None, NEW r \in Rows \ lost, Known(r)' PROVE Reflects(r)'
    BY <1>5 DEF IdleInv
  <2>2. QED
    BY <1>2, <1>3, <2>1 DEF TableInv, IdleInv
<1>7. FastInv'
  <2>1. SUFFICES ASSUME load.kind = "fast", load.at = "save"
                 PROVE  /\ load.lags => lost = Rows
                        /\ Exact => \A r \in Rows : Last(r)' <= load.bookmark => Reflects(r)'
    BY <1>5 DEF FastInv
  <2>2. load.lags => lost = Rows
    BY <2>1 DEF TableInv, FastInv
  <2>3. ASSUME Exact, NEW r \in Rows, Last(r)' <= load.bookmark PROVE Reflects(r)'
    BY <1>2, <1>4, <2>1, <2>3 DEF TableInv, FastInv
  <2>4. QED
    BY <2>2, <2>3
<1>8. LeftInv'
  <2>1. SUFFICES ASSUME load.kind = "partial", ~Untouched, saved # None, ~BehindBookmark, NEW r \in Rows \ lost,
                        load.rows[r] = Absent, Known(r)'
                 PROVE  Reflects(r)'
    BY <1>5 DEF LeftInv
  <2>2. QED
    BY <1>2, <1>3, <2>1 DEF TableInv, LeftInv
<1>9. MergedInv'
  <2>1. SUFFICES ASSUME load.kind = "partial", load.at \in {"hard_delete", "save"}, Exact, NEW r \in Rows,
                        load.rows[r] # Absent, Last(r)' <= load.bookmark
                 PROVE  Reflects(r)'
    BY <1>5 DEF MergedInv
  <2>2. QED
    BY <1>2, <1>4, <2>1 DEF TableInv, MergedInv
<1>10. QED
  BY <1>6, <1>7, <1>8, <1>9 DEF TableInv

\* The table, and what there is to know of it, while a worker goes on.
LEMMA SameTable ==
    ASSUME [NextTable]_vars, log' = log, table' = table, NEW r \in Rows, Reflects(r)
    PROVE  Reflects(r)'
<1>1. Last(r)' = Last(r) /\ Live(r)' = Live(r)
  BY SourceStays
<1>2. QED
  BY <1>1, ReflectsStays

\* What the singer tap will not read, while source, bookmark and slot stay.
LEMMA KnownStays ==
    ASSUME log' = log, saved' = saved, slot' = slot, NEW r \in Rows
    PROVE  Known(r)' <=> Known(r)
BY SourceStays DEF Known

\* A worker that ends leaves what the singer tap will not read.
LEMMA WorkerEnds ==
    ASSUME load' = NoLoad,
           saved' # None => \A r \in Rows \ lost' : Known(r)' => Reflects(r)'
    PROVE  TableInv'
<1>1. load'.kind = "none" /\ Untouched'
  BY DEF NoLoad, Untouched
<1>2. QED
  BY <1>1 DEF TableInv, IdleInv, FastInv, LeftInv, MergedInv

\* A worker that has not changed the table.
LEMMA BeforeChange ==
    ASSUME TypeOK, LoadInv, TableInv, [NextTable]_vars, Untouched,
           log' = log, table' = table, lost' = lost,
           saved' # None => saved' = saved /\ slot' = slot,
           load'.kind = "partial" => load'.at \in {"bookmark", "export", "mark"},
           load'.kind = "fast" => load'.at \notin {"swap", "save"}
    PROVE  TableInv'
<1>1. IdleInv'
  <2>1. SUFFICES ASSUME saved' # None, NEW r \in Rows \ lost, Known(r)' PROVE Reflects(r)'
    BY DEF IdleInv
  <2>2. Known(r)
    BY <2>1, KnownStays
  <2>3. Reflects(r)
    BY <2>1, <2>2 DEF TableInv, IdleInv
  <2>4. QED
    BY <2>3, SameTable
<1>2. FastInv'
  BY DEF FastInv
<1>3. LeftInv'
  BY DEF LeftInv, Untouched
<1>4. MergedInv'
  BY DEF MergedInv
<1>5. QED
  BY <1>1, <1>2, <1>3, <1>4 DEF TableInv

\* The singer tap brings every row up to date, from the bookmark on.
LEMMA ReplicateStep ==
    ASSUME TypeOK, LoadInv, TableInv, [NextTable]_vars, Replicate
    PROVE  TableInv'
<1>1. /\ Now \in Nat /\ saved \in Nat /\ slot \in Nat
      /\ \A r \in Rows : Last(r) \in Nat
  BY LastInLog DEF TypeOK, LoadInv, SourceInv, Replicate, Now
<1>2. load' = load /\ log' = log /\ slot' = slot /\ lost' = lost /\ load.kind = "none"
  BY DEF Replicate
<1>3. \A r \in Rows : Known(r) => r \in lost \/ Reflects(r)
  BY <1>1, <1>2, NoneAssumption DEF TableInv, IdleInv, Untouched
<1>4. \A r \in Rows : Last(r)' = Last(r) /\ Live(r)' = Live(r)
  BY <1>2, SourceStays
<1>5. ASSUME NEW r \in Rows, Live(r), table'[r] = Loaded(Last(r)) PROVE Reflects(r)'
  <2>1. /\ Loaded(Last(r)).version = Last(r) /\ Loaded(Last(r)).deleted = FALSE
        /\ Loaded(Last(r)) # Absent
    <3>1. Last(r) \in Nat
      BY <1>1
    <3>2. Loaded(Last(r)) \in Row
      BY <3>1, RowOfLoad
    <3>3. Loaded(Last(r)) # Absent
      BY <3>2, AbsentAssumption DEF Row
    <3>4. QED
      BY <3>3 DEF Loaded
  <2>2. Live(r)' /\ table'[r] # Absent /\ ~table'[r].deleted /\ table'[r].version = Last(r)'
    BY <1>4, <1>5, <2>1
  <2>3. QED
    BY <2>2 DEF Reflects, Live, Last
<1>6. CASE ReplicateLog
  <2>1. ASSUME NEW r \in Rows \ lost PROVE Reflects(r)'
    <3>1. table'[r] = IF Last(r) <= Max({saved, slot}) THEN table[r]
                      ELSE IF Live(r) THEN Loaded(Last(r)) ELSE Deleted(r)
      BY <1>6 DEF ReplicateLog, Last, Live
    <3>2. CASE Last(r) <= Max({saved, slot})
      <4>1. Last(r) <= saved \/ Last(r) <= slot
        <5> DEFINE T == {saved, slot}
        <5>1. T \subseteq 0..saved + slot /\ T # {} /\ saved + slot \in Nat
          BY <1>1
        <5> HIDE DEF T
        <5>2. Max(T) \in T
          BY <5>1, MaxOfBounded
        <5>3. QED
          BY <3>2, <5>2 DEF T
      <4>2. Reflects(r)
        BY <1>3, <4>1 DEF Known
      <4>3. table'[r] = table[r]
        BY <3>1, <3>2
      <4>4. QED
        BY <1>4, <4>2, <4>3, ReflectsStays
    <3>3. CASE ~(Last(r) <= Max({saved, slot})) /\ Live(r)
      BY <1>5, <3>1, <3>3
    <3>4. CASE ~(Last(r) <= Max({saved, slot})) /\ ~Live(r)
      <4>1. table'[r] = Deleted(r)
        BY <3>1, <3>4
      <4>2. table'[r] = Absent \/ table'[r].deleted
        BY <4>1 DEF Deleted
      <4>3. ~Live(r)'
        BY <1>4, <3>4
      <4>4. QED
        BY <4>2, <4>3 DEF Reflects, Live
    <3>5. QED
      BY <3>2, <3>3, <3>4
  <2>2. QED
    BY <1>2, <2>1 DEF TableInv, IdleInv, FastInv, LeftInv, MergedInv
<1>7. CASE ReplicateKeys
  <2>1. ASSUME NEW r \in Rows \ lost PROVE Reflects(r)'
    <3>1. ~LogBased /\ table'[r] = IF Live(r) /\ Last(r) >= saved THEN Loaded(Last(r)) ELSE table[r]
      BY <1>7 DEF ReplicateKeys, Last, Live
    <3>2. CASE ~Live(r)
      <4>1. ~Live(r)' /\ ~LogBased'
        BY <1>4, <3>1, <3>2, SettingsStay DEF LogBased
      <4>2. QED
        BY <4>1 DEF Reflects, Live
    <3>3. CASE Live(r) /\ Last(r) >= saved
      BY <1>5, <3>1, <3>3
    <3>4. CASE Live(r) /\ ~(Last(r) >= saved)
      <4>1. Last(r) <= saved
        BY <1>1, <3>4
      <4>2. Reflects(r)
        BY <1>3, <4>1 DEF Known
      <4>3. table'[r] = table[r]
        BY <3>1, <3>4
      <4>4. QED
        BY <1>4, <4>2, <4>3, ReflectsStays
    <3>5. QED
      BY <3>2, <3>3, <3>4
  <2>2. QED
    BY <1>2, <2>1 DEF TableInv, IdleInv, FastInv, LeftInv, MergedInv
<1>8. QED
  BY <1>6, <1>7 DEF Replicate

\* The rows of the temporary table that are in the target now are as in the source.
LEMMA SwappedRow ==
    ASSUME TypeOK, LoadInv, [NextTable]_vars, log' = log, InTemp, HasRows, Exact,
           NEW r \in Rows, table'[r] = temp[r], Last(r) <= load.bookmark,
           load.kind = "fast" \/ load.rows[r] # Absent
    PROVE  Reflects(r)'
<1>1. load.rows[r] = ToLoad(r)
  BY DEF LoadInv, RowsInv
<1>2. IF load.rows[r] = Absent THEN temp[r] = Absent
      ELSE temp[r] # Absent /\ temp[r].version = load.rows[r] /\ ~temp[r].deleted
  BY DEF LoadInv, TempInv
<1>3. Last(r)' = Last(r) /\ Live(r)' = Live(r)
  BY SourceStays
<1>4. Last(r) # Absent
  BY LastInLog, AbsentAssumption
<1>5. CASE Live(r) /\ (load.kind = "partial" => In(r))
  <2>1. load.rows[r] = Last(r)
    BY <1>1, <1>5 DEF ToLoad
  <2>2. Live(r)' /\ table'[r] # Absent /\ ~table'[r].deleted /\ table'[r].version = Last(r)'
    BY <1>2, <1>3, <1>4, <1>5, <2>1
  <2>3. QED
    BY <2>2 DEF Reflects, Live, Last
<1>6. CASE ~(Live(r) /\ (load.kind = "partial" => In(r)))
  <2>1. load.rows[r] = Absent
    BY <1>1, <1>6 DEF ToLoad
  <2>2. table'[r] = Absent /\ ~Live(r)'
    BY <1>2, <1>3, <1>6, <2>1
  <2>3. QED
    BY <2>2 DEF Reflects, Live
<1>7. QED
  BY <1>5, <1>6

\* fastsync keeps it: the rows that it swaps in are as the bookmark it saves says.
LEMMA FastStep ==
    ASSUME TypeOK, StepsInv, LoadInv, TableInv, [NextTable]_vars, FastSyncNext
    PROVE  TableInv'
<1>1. ExportStep \in {"copy", "dump"} /\ RemoveStep \in {"replace", "drop"}
  BY DEF ExportStep, RemoveStep
<1>2. CASE Start
  <2>1. load.kind = "none" /\ load'.at = "bookmark"
    BY <1>2 DEF Start, Begins, NoLoad
  <2>2. Untouched
    BY <2>1 DEF Untouched
  <2>3. log' = log /\ table' = table /\ lost' = lost /\ saved' = saved /\ slot' = slot
    BY <1>2 DEF Start
  <2>4. QED
    BY <2>1, <2>2, <2>3, BeforeChange
<1>3. CASE Export \/ Dump
  <2>1. load.kind = "fast" /\ load.at \in {"copy", "dump"} /\ load'.kind = "fast" /\ load'.at = After(load.at)
    BY <1>3 DEF Export, Dump, At, TypeOK, Load
  <2>2. Untouched
    BY <2>1 DEF Untouched
  <2>3. log' = log /\ table' = table /\ lost' = lost /\ saved' = saved /\ slot' = slot
    BY <1>3 DEF Export, Dump
  <2>4. load'.at = "load"
    BY <2>1, NextStep
  <2>5. QED
    BY <2>1, <2>2, <2>3, <2>4, BeforeChange
<1>4. CASE ReplaceTarget
  <2>1. load'.kind = "fast" /\ load'.at = "swap"
    <3>1. load.kind = "fast" /\ load.at \in {"replace", "drop"} /\ load' = [load EXCEPT !.at = After(load.at)]
      BY <1>4 DEF ReplaceTarget, At, StepDone
    <3>2. QED
      BY <3>1, NextStep DEF TypeOK, Load
  <2>2. QED
    BY <2>1 DEF TableInv, IdleInv, Untouched, FastInv, LeftInv, MergedInv
<1>5. CASE swap_tables
  <2>1. /\ load.kind = "fast" /\ load.at = "swap" /\ log' = log /\ table' = temp
        /\ lost' = IF load.lags THEN Rows ELSE {}
        /\ load' = [load EXCEPT !.at = After(load.at)]
    BY <1>5 DEF swap_tables, SwapWithTemp, StepDone
  <2>2. /\ load'.kind = "fast" /\ load'.at = "save" /\ load'.bookmark = load.bookmark /\ load'.lags = load.lags
    BY <2>1, NextStep DEF TypeOK, Load
  <2>3. load'.lags => lost' = Rows
    BY <2>1, <2>2
  <2>4. ASSUME Exact', NEW r \in Rows, Last(r)' <= load'.bookmark PROVE Reflects(r)'
    <3>1. Exact /\ Last(r) <= load.bookmark
      BY <2>1, <2>2, <2>4, SourceStays DEF Exact
    <3>2. InTemp /\ HasRows
      BY <2>1 DEF InTemp, HasRows
    <3>3. QED
      BY <2>1, <3>1, <3>2, SwappedRow
  <2>5. FastInv'
    BY <2>3, <2>4 DEF FastInv
  <2>6. IdleInv' /\ LeftInv' /\ MergedInv'
    BY <2>2 DEF IdleInv, Untouched, LeftInv, MergedInv
  <2>7. QED
    BY <2>5, <2>6 DEF TableInv
<1>6. CASE SaveState
  <2>1. /\ load.kind = "fast" /\ load.at = "save" /\ load' = NoLoad /\ saved' = load.bookmark
        /\ log' = log /\ slot' = slot /\ table' = table /\ lost' = lost
    BY <1>6 DEF SaveState, At, BookmarkToSave
  <2>2. ASSUME load.bookmark # None, NEW r \in Rows \ lost, Known(r)' PROVE Reflects(r)'
    <3>1. (load.lags => lost = Rows) /\ (Exact => \A q \in Rows : Last(q) <= load.bookmark => Reflects(q))
      BY <2>1 DEF TableInv, FastInv
    <3>2. Exact
      BY <2>2, <3>1 DEF Exact
    <3>3. slot <= load.bookmark /\ slot # None
      BY <2>1, <3>2 DEF LoadInv, WorkerInv, Positioned
    <3>4. slot \in Nat /\ load.bookmark \in Nat /\ Last(r) \in Nat
      BY <2>2, <3>3, LastInLog DEF TypeOK, Load
    <3>5. Last(r) <= load.bookmark \/ Last(r) <= slot
      BY <2>1, <2>2, SourceStays DEF Known
    <3>6. Last(r) <= load.bookmark
      BY <3>3, <3>4, <3>5
    <3>7. Reflects(r)
      BY <3>1, <3>2, <3>6
    <3>8. QED
      BY <2>1, <3>7, SameTable
  <2>3. QED
    BY <2>1, <2>2, WorkerEnds
<1>7. CASE WorkerDies
  <2>1. /\ load.kind = "fast" /\ load' = NoLoad /\ log' = log /\ slot' = slot /\ table' = table /\ saved' = saved
        /\ lost' = lost \cup (IF load.at = "swap" \/ (load.at = "save" /\ BehindBookmark) THEN Rows ELSE {})
    BY <1>7 DEF WorkerDies, Dies
  <2>2. ASSUME saved # None, NEW r \in Rows \ lost', Known(r)' PROVE Reflects(r)'
    <3>1. r \in Rows \ lost /\ load.at # "swap" /\ ~(load.at = "save" /\ BehindBookmark)
      BY <2>1, <2>2
    <3>2. Known(r)
      BY <2>1, <2>2, KnownStays
    <3>3. CASE load.at # "save"
      <4>1. Reflects(r)
        BY <2>1, <2>2, <3>1, <3>2, <3>3 DEF TableInv, IdleInv, Untouched
      <4>2. QED
        BY <2>1, <4>1, SameTable
    <3>4. CASE load.at = "save"
      <4>1. Positioned /\ ~BehindBookmark
        BY <3>1, <3>4 DEF Positioned
      <4>2. Exact /\ Last(r) <= load.bookmark
        BY <2>2, <3>2, <4>1, NotBehind
      <4>3. Reflects(r)
        BY <2>1, <3>4, <4>2 DEF TableInv, FastInv
      <4>4. QED
        BY <2>1, <4>3, SameTable
    <3>5. QED
      BY <3>3, <3>4
  <2>3. QED
    BY <2>1, <2>2, WorkerEnds
<1>8. QED
  BY <1>2, <1>3, <1>4, <1>5, <1>6, <1>7 DEF FastSyncNext

\* partialsync keeps it: it marks and merges the rows of its range alone.
LEMMA PartialStep ==
    ASSUME TypeOK, StepsInv, LoadInv, TableInv, [NextTable]_vars, PartialSyncNext
    PROVE  TableInv'
<1>1. CASE \E flag \in BOOLEAN : SyncFromStart(flag) \/ SyncRange(flag)
  <2>1. load.kind = "none" /\ load'.at = "bookmark"
    BY <1>1 DEF SyncFromStart, SyncRange, Begins, NoLoad
  <2>2. Untouched
    BY <2>1 DEF Untouched
  <2>3. log' = log /\ table' = table /\ lost' = lost /\ slot' = slot /\ saved' \in {saved, None}
    BY <1>1 DEF SyncFromStart, SyncRange
  <2>4. QED
    BY <2>1, <2>2, <2>3, BeforeChange
<1>2. CASE ExportRange
  <2>1. load.kind = "partial" /\ load.at = "export" /\ load'.kind = "partial" /\ load'.at = After(load.at)
    BY <1>2 DEF ExportRange, At, TypeOK, Load
  <2>2. Untouched
    BY <2>1 DEF Untouched
  <2>3. log' = log /\ table' = table /\ lost' = lost /\ saved' = saved /\ slot' = slot
    BY <1>2 DEF ExportRange
  <2>4. load'.at = "mark"
    BY <2>1, NextStep
  <2>5. QED
    BY <2>1, <2>2, <2>3, <2>4, BeforeChange
<1>3. CASE MarkDeleted
  <2>1. /\ load.kind = "partial" /\ load.at = "mark" /\ load' = [load EXCEPT !.at = After(load.at)]
        /\ log' = log /\ lost' = lost /\ saved' = saved /\ slot' = slot
    BY <1>3 DEF MarkDeleted, At, StepDone
  <2>2. /\ load'.kind = "partial" /\ load'.at = "load" /\ load'.rows = load.rows
        /\ load'.bookmark = load.bookmark /\ load'.lags = load.lags
    BY <2>1, NextStep DEF TypeOK, Load
  <2>3. ASSUME saved # None, ~BehindBookmark, NEW r \in Rows \ lost, load.rows[r] = Absent, Known(r)
        PROVE  Reflects(r)'
    <3>1. Untouched /\ Positioned /\ HasRows
      BY <2>1 DEF Untouched, Positioned, HasRows
    <3>2. Reflects(r)
      BY <2>3, <3>1 DEF TableInv, IdleInv
    <3>3. Exact /\ Last(r) <= load.bookmark
      BY <2>3, <3>1, NotBehind
    <3>4. load.rows[r] = ToLoad(r)
      BY <3>1, <3>3 DEF LoadInv, RowsInv
    <3>5. Last(r) # Absent /\ Last(r) \in Nat /\ Last(r) <= Now
      BY LastInLog, AbsentAssumption
    <3>6. ~(Live(r) /\ In(r))
      BY <2>1, <2>3, <3>4, <3>5 DEF ToLoad
    <3>7. Last(r)' = Last(r) /\ Live(r)' = Live(r)
      BY <2>1, SourceStays
    <3>8. table'[r] = IF InTargetRange(r) THEN [table[r] EXCEPT !.deleted = TRUE] ELSE table[r]
      BY <1>3 DEF MarkDeleted
    <3>9. CASE Live(r)
      <4>1. table[r].version = Last(r)
        BY <3>2, <3>9, ReflectsIs
      <4>2. InRange(r, table[r].version) = In(r)
        BY <3>5, <4>1, AsItIsNow
      <4>3. table'[r] = table[r]
        BY <3>6, <3>8, <3>9, <4>2 DEF InTargetRange
      <4>4. QED
        BY <3>2, <3>7, <4>3, ReflectsStays
    <3>10. CASE ~Live(r) /\ LogBased
      <4>1. table[r] = Absent \/ table[r].deleted
        BY <3>2, <3>10, ReflectsIs
      <4>2. table[r] \in Row \cup {Absent}
        BY DEF TypeOK, Table
      <4>3. table'[r] = Absent \/ table'[r].deleted
        BY <3>8, <4>1, <4>2 DEF InTargetRange, Row
      <4>4. ~Live(r)'
        BY <3>7, <3>10
      <4>5. QED
        BY <4>3, <4>4 DEF Reflects, Live
    <3>11. CASE ~Live(r) /\ ~LogBased
      <4>1. ~Live(r)' /\ ~LogBased'
        BY <3>7, <3>11, SettingsStay DEF LogBased
      <4>2. QED
        BY <4>1 DEF Reflects, Live
    <3>12. QED
      BY <3>9, <3>10, <3>11
  <2>4. LeftInv'
    <3>1. BehindBookmark' <=> BehindBookmark
      BY <2>1, <2>2 DEF BehindBookmark
    <3>2. \A r \in Rows : Known(r)' <=> Known(r)
      BY <2>1, KnownStays
    <3>3. QED
      BY <2>1, <2>2, <2>3, <3>1, <3>2 DEF LeftInv
  <2>5. IdleInv' /\ FastInv' /\ MergedInv'
    BY <2>2 DEF IdleInv, Untouched, FastInv, MergedInv
  <2>6. QED
    BY <2>4, <2>5 DEF TableInv
<1>4. CASE merge_tables \/ SwapTemp
  <2>1. /\ load.kind = "partial" /\ load.at \in {"merge", "swap"}
        /\ load' = [load EXCEPT !.at = After(load.at)]
        /\ log' = log /\ lost' = lost /\ saved' = saved /\ slot' = slot
    BY <1>4 DEF merge_tables, SwapTemp, SwapWithTemp, At, StepDone
  <2>2. /\ load'.kind = "partial" /\ load'.rows = load.rows
        /\ load'.bookmark = load.bookmark /\ load'.lags = load.lags
    BY <2>1 DEF TypeOK, Load
  <2>3. load'.at \in {"hard_delete", "save"}
    BY <2>1, NextStep DEF TypeOK, Load, Settings
  <2>4. InTemp /\ HasRows /\ ~Untouched
    BY <2>1 DEF InTemp, HasRows, Untouched
  <2>5. ASSUME NEW r \in Rows
        PROVE  load.rows[r] # Absent => table'[r] = temp[r]
    <3>1. CASE SwapTemp
      BY <3>1 DEF SwapTemp, SwapWithTemp
    <3>2. CASE merge_tables
      <4>1. load.rows[r] # Absent => temp[r] # Absent
        BY <2>4 DEF LoadInv, TempInv
      <4>2. QED
        BY <3>2, <4>1 DEF merge_tables, MergedRows
    <3>3. QED
      BY <1>4, <3>1, <3>2
  <2>6. MergedInv'
    <3>1. SUFFICES ASSUME Exact', NEW r \in Rows, load.rows[r] # Absent, Last(r)' <= load.bookmark
                   PROVE  Reflects(r)'
      BY <2>2 DEF MergedInv
    <3>2. Exact /\ Last(r) <= load.bookmark
      BY <2>1, <2>2, <3>1, SourceStays DEF Exact
    <3>3. table'[r] = temp[r]
      BY <2>5, <3>1
    <3>4. QED
      BY <2>1, <2>4, <3>1, <3>2, <3>3, SwappedRow
  <2>7. ASSUME saved # None, ~BehindBookmark, NEW r \in Rows \ lost, load.rows[r] = Absent, Known(r)
        PROVE  Reflects(r)'
    <3>1. Reflects(r)
      BY <2>1, <2>4, <2>7 DEF TableInv, LeftInv
    <3>2. load.at # "swap"
      <4>1. load.at = "swap" => load.drop
        BY <2>1 DEF StepsInv, PartialSteps
      <4>2. ~load.drop
        BY <2>7 DEF LoadInv, WorkerInv
      <4>3. QED
        BY <4>1, <4>2
    <3>3. merge_tables
      BY <1>4, <3>2 DEF SwapTemp, SwapWithTemp
    <3>4. temp[r] = Absent
      BY <2>4, <2>7 DEF LoadInv, TempInv
    <3>5. table'[r] = table[r]
      BY <3>3, <3>4 DEF merge_tables, MergedRows
    <3>6. Last(r)' = Last(r) /\ Live(r)' = Live(r)
      BY <2>1, SourceStays
    <3>7. QED
      BY <3>1, <3>5, <3>6, ReflectsStays
  <2>8. LeftInv'
    <3>1. BehindBookmark' <=> BehindBookmark
      BY <2>1, <2>2 DEF BehindBookmark
    <3>2. \A r \in Rows : Known(r)' <=> Known(r)
      BY <2>1, KnownStays
    <3>3. QED
      BY <2>1, <2>2, <2>7, <3>1, <3>2 DEF LeftInv
  <2>9. IdleInv' /\ FastInv'
    BY <2>2, <2>3 DEF IdleInv, Untouched, FastInv
  <2>10. QED
    BY <2>6, <2>8, <2>9 DEF TableInv
<1>5. CASE partial_hard_delete
  <2>1. /\ load.kind = "partial" /\ load.at = "hard_delete" /\ load' = [load EXCEPT !.at = After(load.at)]
        /\ log' = log /\ lost' = lost /\ saved' = saved /\ slot' = slot
    BY <1>5 DEF partial_hard_delete, At, StepDone
  <2>2. /\ load'.kind = "partial" /\ load'.at = "save" /\ load'.rows = load.rows
        /\ load'.bookmark = load.bookmark /\ load'.lags = load.lags
    BY <2>1, NextStep DEF TypeOK, Load
  <2>3. \A r \in Rows : Last(r)' = Last(r) /\ Live(r)' = Live(r)
    BY <2>1, SourceStays
  <2>4. ASSUME NEW r \in Rows, Reflects(r) PROVE Reflects(r)'
    <3>1. table'[r] = IF InTargetRange(r) /\ table[r].deleted THEN Absent ELSE table[r]
      BY <1>5 DEF partial_hard_delete
    <3>2. CASE table'[r] = table[r]
      BY <2>3, <2>4, <3>2, ReflectsStays
    <3>3. CASE table[r].deleted /\ table'[r] = Absent
      <4>1. ~Live(r)
        BY <2>4, <3>3, ReflectsIs
      <4>2. ~Live(r)'
        BY <2>3, <4>1
      <4>3. QED
        BY <3>3, <4>2 DEF Reflects, Live
    <3>4. QED
      BY <3>1, <3>2, <3>3
  <2>5. (BehindBookmark' <=> BehindBookmark) /\ (Exact' <=> Exact) /\ ~Untouched
    BY <2>1, <2>2 DEF BehindBookmark, Exact, Untouched
  <2>6. LeftInv'
    <3>1. \A r \in Rows : Known(r)' <=> Known(r)
      BY <2>1, KnownStays
    <3>2. QED
      BY <2>1, <2>2, <2>4, <2>5, <3>1 DEF LeftInv, TableInv
  <2>7. MergedInv'
    BY <2>1, <2>2, <2>3, <2>4, <2>5 DEF MergedInv, TableInv
  <2>8. IdleInv' /\ FastInv'
    BY <2>2 DEF IdleInv, Untouched, FastInv
  <2>9. QED
    BY <2>6, <2>7, <2>8 DEF TableInv
<1>6. CASE update_state_file
  <2>1. /\ load.kind = "partial" /\ load.at = "save" /\ load' = NoLoad
        /\ saved' = (IF SavesBookmark THEN load.bookmark ELSE saved)
        /\ lost' = lost \cup (IF BehindBookmark THEN Rows ELSE {})
                        \cup (IF load.end \/ saved' = None THEN {}
                              ELSE {r \in Rows \ Exported : saved = None \/ Version(r, Now) > saved})
        /\ log' = log /\ slot' = slot /\ table' = table
    BY <1>6 DEF update_state_file, At
  <2>2. ASSUME saved' # None, NEW r \in Rows \ lost', Known(r)' PROVE Reflects(r)'
    <3>1. r \in Rows \ lost /\ ~BehindBookmark
      BY <2>1, <2>2
    <3>2. Last(r)' = Last(r) /\ Last(r) \in Nat /\ saved \in Nat \cup {None}
      BY <2>1, SourceStays, LastInLog DEF TypeOK
    <3>3. CASE SavesBookmark
      <4>1. saved' = load.bookmark /\ ~load.end
        BY <2>1, <3>3 DEF SavesBookmark
      <4>2. Exact
        BY <2>2, <3>1, <4>1 DEF BehindBookmark, Exact
      <4>3. slot <= load.bookmark /\ slot # None
        BY <2>1, <4>2 DEF LoadInv, WorkerInv, Positioned
      <4>4. slot \in Nat /\ load.bookmark \in Nat
        BY <2>2, <4>1, <4>3 DEF TypeOK, Load
      <4>5. Last(r) <= load.bookmark \/ Last(r) <= slot
        BY <2>1, <2>2, <3>2, <4>1 DEF Known
      <4>6. Last(r) <= load.bookmark
        BY <3>2, <4>3, <4>4, <4>5
      <4>7. CASE load.rows[r] # Absent
        <5>1. Reflects(r)
          BY <2>1, <4>2, <4>6, <4>7 DEF TableInv, MergedInv
        <5>2. QED
          BY <2>1, <5>1, SameTable
      <4>8. CASE load.rows[r] = Absent
        <5>1. r \in Rows \ Exported
          BY <4>8 DEF Exported
        <5>2. ~(saved = None \/ Version(r, Now) > saved)
          BY <2>1, <2>2, <4>1, <5>1
        <5>3. saved # None /\ Last(r) <= saved
          BY <3>2, <5>2 DEF Last
        <5>4. Reflects(r)
          BY <2>1, <3>1, <5>3, LoadedByPartial DEF Known
        <5>5. QED
          BY <2>1, <5>4, SameTable
      <4>9. QED
        BY <4>7, <4>8
    <3>4. CASE ~SavesBookmark
      <4>1. saved' = saved
        BY <2>1, <3>4
      <4>2. Known(r)
        BY <2>1, <2>2, <4>1, KnownStays
      <4>3. Reflects(r)
        BY <2>1, <2>2, <3>1, <4>1, <4>2, LoadedByPartial
      <4>4. QED
        BY <2>1, <4>3, SameTable
    <3>5. QED
      BY <3>3, <3>4
  <2>3. QED
    BY <2>1, <2>2, WorkerEnds
<1>7. CASE PartialDies
  <2>1. /\ load.kind = "partial" /\ load' = NoLoad /\ log' = log /\ slot' = slot /\ table' = table /\ saved' = saved
        /\ lost' = lost \cup (IF \/ load.at \in {"load", "obfuscate", "merge", "swap"}
                                 \/ load.at \in {"hard_delete", "save"} /\ BehindBookmark
                              THEN Rows ELSE {})
    BY <1>7 DEF PartialDies, Dies
  <2>2. ASSUME saved # None, NEW r \in Rows \ lost', Known(r)' PROVE Reflects(r)'
    <3>1. /\ r \in Rows \ lost /\ load.at \notin {"load", "obfuscate", "merge", "swap"}
          /\ ~(load.at \in {"hard_delete", "save"} /\ BehindBookmark)
      BY <2>1, <2>2
    <3>2. Known(r)
      BY <2>1, <2>2, KnownStays
    <3>3. CASE load.at \in {"hard_delete", "save"}
      <4>1. Reflects(r)
        BY <2>1, <2>2, <3>1, <3>2, <3>3, LoadedByPartial
      <4>2. QED
        BY <2>1, <4>1, SameTable
    <3>4. CASE load.at \notin {"hard_delete", "save"}
      <4>1. load.at \in PartialSteps
        BY <2>1 DEF StepsInv
      <4>2. load.at \in {"bookmark", "export", "mark"}
        BY <3>1, <3>4, <4>1 DEF PartialSteps
      <4>3. Untouched
        BY <2>1, <4>2 DEF Untouched
      <4>4. Reflects(r)
        BY <2>2, <3>1, <3>2, <4>3 DEF TableInv, IdleInv
      <4>5. QED
        BY <2>1, <4>4, SameTable
    <3>5. QED
      BY <3>3, <3>4
  <2>3. QED
    BY <2>1, <2>2, WorkerEnds
<1>8. QED
  BY <1>1, <1>2, <1>3, <1>4, <1>5, <1>6, <1>7 DEF PartialSyncNext

\* The invariant of loads holds at first,
LEMMA LoadInit == InitTable => LoadInv /\ TableInv
<1> SUFFICES ASSUME InitTable PROVE LoadInv /\ TableInv
  OBVIOUS
<1>1. /\ load.kind = "none" /\ load.at = "idle" /\ load.bookmark = None /\ load.drop = FALSE
      /\ log = <<>> /\ applied = 0 /\ Now = 0 /\ lost = {}
  BY DEF InitTable, NoLoad, Now
<1>2. TypeOK
  BY TypeInit
<1>3. SourceInv
  <2>1. ~(LogBased /\ settings.tap = "postgres") => slot = 0
    BY DEF InitTable
  <2>2. slot \in {None, 0} /\ saved \in {None, 0} /\ (slot = None => saved = None)
    BY DEF InitTable
  <2>3. QED
    BY <1>1, <2>1, <2>2 DEF SourceInv
<1>4. WorkerInv /\ RowsInv /\ TempInv
  BY <1>1 DEF WorkerInv, Positioned, RowsInv, HasRows, TempInv, InTemp
<1>5. IdleInv
  <2>1. SUFFICES ASSUME saved # None, NEW r \in Rows PROVE Reflects(r)
    BY DEF IdleInv
  <2>2. Last(r) = 0 /\ Live(r)
    <3>1. Last(r) \in 0..0
      BY <1>1, <1>2, LastInLog
    <3>2. Last(r) = 0
      BY <3>1
    <3>3. QED
      BY <3>2 DEF Live, Last, Alive
  <2>3. table[r] = Loaded(0)
    BY <2>1 DEF InitTable
  <2>4. Loaded(0) \in Row /\ Absent \notin Row
    BY RowOfLoad, AbsentAssumption DEF Row
  <2>5. table[r] # Absent /\ ~table[r].deleted /\ table[r].version = Last(r)
    <3>1. table[r] # Absent
      BY <2>3, <2>4
    <3>2. Loaded(0).version = 0 /\ Loaded(0).deleted = FALSE
      BY DEF Loaded
    <3>3. QED
      BY <2>2, <2>3, <3>1, <3>2
  <2>6. QED
    BY <2>2, <2>5, ReflectsIs
<1>6. FastInv /\ LeftInv /\ MergedInv
  BY <1>1 DEF FastInv, LeftInv, MergedInv
<1>7. QED
  BY <1>3, <1>4, <1>5, <1>6 DEF LoadInv, TableInv

\* and every step of source, replica, singer tap and workers keeps what it says of the target.
LEMMA TableStep ==
    ASSUME TypeOK, StepsInv, LoadInv, TableInv, [NextTable]_vars
    PROVE  TableInv'
<1>1. ASSUME NEW q \in Rows, NEW op \in {"put", "delete", "move"}, Change(q, op)
      PROVE  TableInv'
  <2>1. /\ Last(q)' = Now + 1
        /\ \A r \in Rows \ {q} : Last(r)' = Last(r) /\ Live(r)' = Live(r) /\ In(r)' = In(r)
    BY <1>1, SourceChanges
  <2>2. load' = load /\ table' = table /\ saved' = saved /\ slot' = slot /\ lost' = lost
    BY <1>1 DEF Change
  <2>3. QED
    BY <2>1, <2>2, QuietStep
<1>2. CASE ReplicaApplies \/ UNCHANGED vars
  <2>1. /\ log' = log /\ load' = load /\ table' = table /\ saved' = saved /\ slot' = slot /\ lost' = lost
    BY <1>2 DEF ReplicaApplies, vars
  <2>2. \A r \in Rows : Last(r)' = Last(r) /\ Live(r)' = Live(r)
    BY <2>1, SourceStays
  <2>3. QED
    BY <2>1, <2>2, QuietStep
<1>3. CASE Replicate
  BY <1>3, ReplicateStep
<1>4. CASE GetBookmark
  <2>1. /\ load.at = "bookmark" /\ load'.at = After(load.at) /\ load'.kind = load.kind
    BY <1>4 DEF GetBookmark, TypeOK, Load
  <2>2. load.kind \in {"fast", "partial"}
    BY <2>1 DEF StepsInv, TypeOK, Load
  <2>3. Untouched
    BY <2>1, <2>2 DEF Untouched
  <2>4. ExportStep \in {"copy", "dump"}
    BY DEF ExportStep
  <2>5. /\ load.kind = "fast" => load'.at \in {"copy", "dump"}
        /\ load.kind = "partial" => load'.at = "export"
    BY <2>1, <2>4, NextStep
  <2>6. log' = log /\ table' = table /\ lost' = lost /\ saved' = saved /\ slot' = create_replication_slot
    BY <1>4 DEF GetBookmark
  <2>7. saved # None => slot' = slot
    BY <2>6 DEF create_replication_slot, LoadInv, SourceInv
  <2>8. QED
    BY <2>1, <2>3, <2>5, <2>6, <2>7, BeforeChange
<1>5. CASE CopyToTemp \/ Obfuscate
  <2>1. /\ load.at \in {"load", "obfuscate"} /\ load' = [load EXCEPT !.at = After(load.at)]
        /\ log' = log /\ table' = table /\ lost' = lost /\ saved' = saved /\ slot' = slot
    BY <1>5 DEF CopyToTemp, Obfuscate, StepDone
  <2>2. /\ load'.kind = load.kind /\ load'.at = After(load.at) /\ load'.rows = load.rows
        /\ load'.bookmark = load.bookmark /\ load'.lags = load.lags
    BY <2>1 DEF TypeOK, Load
  <2>3. load.kind \in {"fast", "partial"}
    BY <2>1 DEF StepsInv, TypeOK, Load
  <2>4. CASE load.kind = "fast"
    <3>1. load'.at \in {"obfuscate", "replace", "drop"}
      <4>1. RemoveStep \in {"replace", "drop"}
        BY DEF RemoveStep
      <4>2. QED
        BY <2>1, <2>2, <2>4, <4>1, NextStep
    <3>2. Untouched
      BY <2>1, <2>4 DEF Untouched
    <3>3. QED
      BY <2>1, <2>2, <2>4, <3>1, <3>2, BeforeChange
  <2>5. CASE load.kind = "partial"
    <3>1. load'.at \in {"obfuscate", "swap", "merge"}
      BY <2>1, <2>2, <2>5, NextStep DEF TypeOK, Load
    <3>2. ~Untouched /\ (BehindBookmark' <=> BehindBookmark)
      BY <2>1, <2>2, <2>5 DEF Untouched, BehindBookmark
    <3>3. \A r \in Rows : Known(r)' <=> Known(r)
      BY <2>1, KnownStays
    <3>4. \A r \in Rows : Reflects(r) => Reflects(r)'
      BY <2>1, SameTable
    <3>5. LeftInv'
      BY <2>1, <2>2, <2>5, <3>2, <3>3, <3>4 DEF LeftInv, TableInv
    <3>6. IdleInv' /\ FastInv' /\ MergedInv'
      BY <2>2, <2>5, <3>1 DEF IdleInv, Untouched, FastInv, MergedInv
    <3>7. QED
      BY <3>5, <3>6 DEF TableInv
  <2>6. QED
    BY <2>3, <2>4, <2>5
<1>6. CASE FastSyncNext
  BY <1>6, FastStep
<1>7. CASE PartialSyncNext
  BY <1>7, PartialStep
<1>8. QED
  BY <1>1, <1>2, <1>3, <1>4, <1>5, <1>6, <1>7 DEF NextTable

\* While no worker runs, the changes behind the bookmark in the state file are
\* in the target, but for the rows that met one of the hazards that lost
\* names: get_bookmark_for_table before the export, the bookmark saved after
\* the swap or the merge.
THEOREM BookmarkIsLoaded == TableSpec => []LoadedBookmarkIsLoaded
<1> DEFINE IInv == TypeOK /\ StepsInv /\ LoadInv /\ TableInv
<1>1. InitTable => IInv
  BY TypeInit, MaskInit, LoadInit DEF MaskInv
<1>2. IInv /\ [NextTable]_vars => IInv'
  <2> SUFFICES ASSUME IInv, [NextTable]_vars PROVE IInv'
    OBVIOUS
  <2>1. TypeOK' /\ StepsInv'
    BY TypeStep, StepsStep
  <2>2. LoadInv'
    BY SourceStep, WorkerStep, RowsStep, TempStep DEF LoadInv
  <2>3. TableInv'
    BY TableStep
  <2>4. QED
    BY <2>1, <2>2, <2>3
<1>3. IInv => LoadedBookmarkIsLoaded
  <2> SUFFICES ASSUME IInv, load.kind = "none", saved # None, NEW r \in Rows \ lost, Version(r, Now) <= saved
               PROVE  Reflects(r)
    BY DEF LoadedBookmarkIsLoaded
  <2>1. Untouched /\ Known(r)
    BY DEF Untouched, Known, Last
  <2>2. QED
    BY <2>1 DEF TableInv, IdleInv
<1>4. QED
  <2> HIDE DEF IInv
  <2>1. QED
    BY <1>1, <1>2, <1>3, PTL DEF TableSpec

-----------------------------------------------------------------------------
(* Commands on one tap (TapRun), for any number of processes and tables      *)

Commands == {"none", "run_tap", "sync_tables", "stop_tap", "reset_state"}
Places   == Loading \cup {"idle", "check", "write", "left", "exiting", "stopped", "reset"}
Process  == [cmd : Commands, pc : Places, fast : SUBSET SelectedTables, singer : SUBSET SelectedTables]

TapRunTypeOK ==
    /\ proc \in [Procs -> Process]
    /\ orphan \subseteq Procs
    /\ pidfile \in Procs \cup {NoProc, DeadProc}
    /\ bookmarks \subseteq SelectedTables
    /\ read \in [Procs -> SUBSET SelectedTables]

-----------------------------------------------------------------------------
(* Steps of one process                                                    *)

LEMMA IdleType == Idle \in Process
BY DEF Idle, Process, Commands, Places

LEMMA GoesEffect ==
    ASSUME TapRunTypeOK, NEW p \in Procs, NEW at \in Places, Goes(p, at)
    PROVE  /\ proc' \in [Procs -> Process]
           /\ proc'[p].pc = at /\ proc'[p].cmd = proc[p].cmd
           /\ proc'[p].fast = proc[p].fast /\ proc'[p].singer = proc[p].singer
           /\ \A q \in Procs \ {p} : proc'[q] = proc[q]
<1>1. proc \in [Procs -> Process] /\ proc[p] \in Process
  BY DEF TapRunTypeOK
<1> DEFINE r == [proc[p] EXCEPT !.pc = at]
<1>2. r \in Process /\ r.pc = at /\ r.cmd = proc[p].cmd /\ r.fast = proc[p].fast /\ r.singer = proc[p].singer
  BY <1>1 DEF Process
<1>3. proc' = [proc EXCEPT ![p] = r]
  BY DEF Goes
<1> HIDE DEF r
<1>4. QED
  BY <1>1, <1>2, <1>3

LEMMA EndsEffect ==
    ASSUME TapRunTypeOK, NEW p \in Procs, Ends(p)
    PROVE  /\ proc' \in [Procs -> Process]
           /\ proc'[p] = Idle /\ proc'[p].pc = "idle"
           /\ \A q \in Procs \ {p} : proc'[q] = proc[q]
<1>1. proc' = [proc EXCEPT ![p] = Idle]
  BY DEF Ends
<1>2. proc'[p] = Idle /\ \A q \in Procs \ {p} : proc'[q] = proc[q]
  BY <1>1 DEF TapRunTypeOK
<1>3. proc' \in [Procs -> Process]
  BY <1>1, IdleType DEF TapRunTypeOK
<1>4. Idle.pc = "idle"
  BY DEF Idle
<1>5. QED
  BY <1>2, <1>3, <1>4

\* A process that leaves children behind, or exits for want of a pidfile.
LEMMA LeftEffect ==
    ASSUME TapRunTypeOK, NEW p \in Procs, NEW at \in Places, NEW fast \in SUBSET SelectedTables,
           proc' = [proc EXCEPT ![p].pc = at, ![p].fast = fast]
    PROVE  /\ proc' \in [Procs -> Process] /\ proc'[p].pc = at
           /\ \A q \in Procs \ {p} : proc'[q] = proc[q]
<1>1. proc \in [Procs -> Process] /\ proc[p] \in Process
  BY DEF TapRunTypeOK
<1> DEFINE r == [[proc[p] EXCEPT !.pc = at] EXCEPT !.fast = fast]
<1>2. r \in Process /\ r.pc = at
  BY <1>1 DEF Process
<1>3. proc' = [proc EXCEPT ![p] = r]
  BY <1>1
<1> HIDE DEF r
<1>4. QED
  BY <1>1, <1>2, <1>3

LEMMA StartsEffect ==
    ASSUME TapRunTypeOK, NEW p \in Procs, NEW cmd \in Commands, NEW at \in Places,
           NEW fast \in SUBSET SelectedTables, NEW singer \in SUBSET SelectedTables,
           Starts(p, cmd, at, fast, singer)
    PROVE  /\ proc' \in [Procs -> Process]
           /\ proc'[p].pc = at /\ proc'[p].cmd = cmd
           /\ proc'[p].fast = fast /\ proc'[p].singer = singer
           /\ \A q \in Procs \ {p} : proc'[q] = proc[q]
           /\ UNCHANGED <<orphan, pidfile, bookmarks, faults>>
<1> DEFINE r == [cmd |-> cmd, pc |-> at, fast |-> fast, singer |-> singer]
<1>1. proc' = [proc EXCEPT ![p] = r] /\ UNCHANGED <<orphan, pidfile, bookmarks, faults>>
  BY DEF Starts
<1>2. r \in Process /\ r.pc = at /\ r.cmd = cmd /\ r.fast = fast /\ r.singer = singer
  BY DEF Process
<1> HIDE DEF r
<1>3. QED
  BY <1>1, <1>2 DEF TapRunTypeOK

LEMMA JoinedEffect ==
    ASSUME TapRunTypeOK, NEW p \in Procs, ChildrenJoined(p)
    PROVE  /\ proc' \in [Procs -> Process]
           /\ proc'[p].pc = "singer" /\ proc'[p].cmd = proc[p].cmd
           /\ proc'[p].fast = proc[p].fast /\ proc'[p].singer = SingerTables(p)
           /\ \A q \in Procs \ {p} : proc'[q] = proc[q]
<1>1. proc[p] \in Process
  BY DEF TapRunTypeOK
<1> DEFINE r == [[proc[p] EXCEPT !.pc = "singer"] EXCEPT !.singer = SingerTables(p)]
<1>2. SingerTables(p) \in SUBSET SelectedTables
  BY <1>1 DEF SingerTables, Process
<1>3. r \in Process /\ r.pc = "singer" /\ r.cmd = proc[p].cmd /\ r.fast = proc[p].fast
      /\ r.singer = SingerTables(p)
  BY <1>1, <1>2 DEF Process, Places, Loading, WithChildren
<1>4. proc' = [proc EXCEPT ![p] = r]
  BY DEF ChildrenJoined, TapRunTypeOK
<1> HIDE DEF r
<1>5. QED
  BY <1>3, <1>4 DEF TapRunTypeOK

LEMMA StopEffect ==
    ASSUME TapRunTypeOK, NEW p \in Procs, stop_tap(p)
    PROVE  /\ proc' \in [Procs -> Process] /\ proc'[p].pc = "stopped" /\ proc'[p].cmd = "stop_tap"
           /\ \A q \in Procs \ {p} : proc'[q] = proc[q]
<1> DEFINE r == [[Idle EXCEPT !.cmd = "stop_tap"] EXCEPT !.pc = "stopped"]
<1>1. r \in Process /\ r.pc = "stopped" /\ r.cmd = "stop_tap"
  BY IdleType DEF Process, Commands, Places
<1>2. [Idle EXCEPT !.cmd = "stop_tap", !.pc = "stopped"] = r
  BY IdleType DEF Process
<1>3. proc' = [proc EXCEPT ![p] = r]
  BY <1>2 DEF stop_tap
<1> HIDE DEF r
<1>4. QED
  BY <1>1, <1>3 DEF TapRunTypeOK

\* Every table that a process is to load is selected.
LEMMA ProcessTypes ==
    ASSUME TapRunTypeOK, NEW p \in Procs
    PROVE  /\ proc[p].pc \in Places /\ proc[p].fast \subseteq SelectedTables
           /\ proc[p].singer \subseteq SelectedTables
           /\ FoundInSelection(p) \subseteq SelectedTables
BY DEF TapRunTypeOK, Process, FoundInSelection

LEMMA TypePreserved == TapRunTypeOK /\ [Next]_tapRunVars => TapRunTypeOK'
<1> SUFFICES ASSUME TapRunTypeOK, [Next]_tapRunVars PROVE TapRunTypeOK'
  OBVIOUS
<1>1. ASSUME NEW p \in Procs PROVE
        /\ run_tap(p) => TapRunTypeOK'
        /\ \A tables \in SUBSET SelectedTables : sync_tables(p, tables) => TapRunTypeOK'
        /\ reset_state(p) => TapRunTypeOK'
  <2>1. ASSUME run_tap(p) PROVE TapRunTypeOK'
    <3>1. ChosenForFastsync \in SUBSET SelectedTables /\ ChosenForSinger \in SUBSET SelectedTables
      BY DEF ChosenForFastsync, ChosenForSinger
    <3>2. Starts(p, "run_tap", "check", ChosenForFastsync, ChosenForSinger) /\ read' = read
      BY <2>1 DEF run_tap
    <3>3. proc' \in [Procs -> Process] /\ UNCHANGED <<orphan, pidfile, bookmarks, faults>>
      BY <3>1, <3>2, StartsEffect DEF Commands, Places
    <3>4. QED
      BY <3>2, <3>3 DEF TapRunTypeOK
  <2>2. ASSUME NEW tables \in SUBSET SelectedTables, sync_tables(p, tables) PROVE TapRunTypeOK'
    <3>1. Starts(p, "sync_tables", "check", tables, {}) /\ {} \in SUBSET SelectedTables /\ read' = read
      BY <2>2 DEF sync_tables
    <3>2. proc' \in [Procs -> Process] /\ UNCHANGED <<orphan, pidfile, bookmarks, faults>>
      BY <3>1, StartsEffect DEF Commands, Places
    <3>3. QED
      BY <3>1, <3>2 DEF TapRunTypeOK
  <2>3. ASSUME reset_state(p) PROVE TapRunTypeOK'
    <3>1. Starts(p, "reset_state", "reset", {}, {}) /\ {} \in SUBSET SelectedTables /\ read' = [read EXCEPT ![p] = bookmarks]
      BY <2>3 DEF reset_state
    <3>2. proc' \in [Procs -> Process] /\ UNCHANGED <<orphan, pidfile, bookmarks, faults>>
      BY <3>1, StartsEffect DEF Commands, Places
    <3>3. QED
      BY <3>1, <3>2 DEF TapRunTypeOK
  <2>4. QED
    BY <2>1, <2>2, <2>3
<1>2. ASSUME NEW p \in Procs, CheckPidfile(p) PROVE TapRunTypeOK'
  <2>1. proc' \in [Procs -> Process]
    BY <1>2, EndsEffect, GoesEffect DEF CheckPidfile, Places
  <2>2. QED
    BY <1>2, <2>1 DEF CheckPidfile, TapRunTypeOK
<1>3. ASSUME NEW p \in Procs, WritePidfile(p) PROVE TapRunTypeOK'
  <2>1. Goes(p, "sync") \/ Goes(p, "singer")
    BY <1>3 DEF WritePidfile
  <2>2. proc' \in [Procs -> Process]
    BY <2>1, GoesEffect DEF Places, Loading, WithChildren
  <2>3. QED
    BY <1>3, <2>2 DEF WritePidfile, TapRunTypeOK
<1>4. ASSUME NEW p \in Procs, DoSyncTables(p) PROVE TapRunTypeOK'
  <2>1. proc' \in [Procs -> Process]
    BY <1>4, GoesEffect DEF DoSyncTables, Places, Loading, WithChildren
  <2>2. QED
    BY <1>4, <2>1 DEF DoSyncTables, TapRunTypeOK
<1>5. ASSUME NEW p \in Procs, NEW t \in SelectedTables, SyncsTable(p, t) PROVE TapRunTypeOK'
  BY <1>5 DEF SyncsTable, TapRunTypeOK
<1>6. ASSUME NEW p \in Procs, ChildrenJoined(p) PROVE TapRunTypeOK'
  <2>1. proc' \in [Procs -> Process]
    BY <1>6, JoinedEffect
  <2>2. QED
    BY <1>6, <2>1 DEF ChildrenJoined, TapRunTypeOK
<1>7. ASSUME NEW p \in Procs, ChildFails(p) PROVE TapRunTypeOK'
  <2>1. \/ Ends(p)
        \/ \E fast \in SUBSET SelectedTables : proc' = [proc EXCEPT ![p].pc = "left", ![p].fast = fast]
    BY <1>7, ProcessTypes DEF ChildFails, TapRunTypeOK
  <2>2. proc' \in [Procs -> Process]
    BY <2>1, LeftEffect, EndsEffect DEF Places
  <2>3. orphan' \subseteq Procs
    BY <1>7 DEF ChildFails, TapRunTypeOK
  <2>4. QED
    BY <1>7, <2>2, <2>3 DEF ChildFails, Leaves, TapRunTypeOK
<1>8. ASSUME NEW p \in Procs, OrphanEnds(p) \/ Finish(p) \/ Exits(p) \/ StopEnds(p) \/ Terminates(p)
      PROVE TapRunTypeOK'
  <2>1. Goes(p, "left") \/ Goes(p, "exiting") \/ Ends(p) \/ proc' = proc
    BY <1>8 DEF OrphanEnds, Finish, Exits, StopEnds, Terminates
  <2>2. proc' \in [Procs -> Process]
    BY <2>1, EndsEffect, GoesEffect DEF Places, TapRunTypeOK
  <2>3. QED
    BY <1>8, <2>2 DEF OrphanEnds, Finish, Exits, StopEnds, Terminates, Leaves, TapRunTypeOK
<1>9. ASSUME NEW p \in Procs, Signal(p) \/ SignalWithoutPidfile(p) \/ Killed(p) PROVE TapRunTypeOK'
  <2>1. \/ Ends(p) \/ Goes(p, "terminating") \/ Goes(p, "exiting")
        \/ \E at \in {"exiting", "left"}, fast \in SUBSET SelectedTables :
              proc' = [proc EXCEPT ![p].pc = at, ![p].fast = fast]
    <3>1. CASE Signal(p)
      BY <3>1 DEF Signal
    <3>2. CASE SignalWithoutPidfile(p)
      BY <3>2, ProcessTypes DEF SignalWithoutPidfile, TapRunTypeOK
    <3>3. CASE Killed(p)
      BY <3>3, ProcessTypes DEF Killed, TapRunTypeOK
    <3>4. QED
      BY <1>9, <3>1, <3>2, <3>3
  <2>2. proc' \in [Procs -> Process]
    BY <2>1, LeftEffect, GoesEffect, EndsEffect DEF Places, Loading, WithChildren
  <2>3. orphan' \subseteq Procs /\ pidfile' \in Procs \cup {NoProc, DeadProc}
    BY <1>9 DEF Signal, SignalWithoutPidfile, Killed, TapRunTypeOK
  <2>4. bookmarks' = bookmarks /\ read' \in [Procs -> SUBSET SelectedTables]
    BY <1>9 DEF Signal, SignalWithoutPidfile, Killed, TapRunTypeOK
  <2>5. QED
    BY <2>2, <2>3, <2>4 DEF TapRunTypeOK
<1>10. ASSUME NEW p \in Procs, stop_tap(p) PROVE TapRunTypeOK'
  <2>1. proc' \in [Procs -> Process]
    BY <1>10, StopEffect
  <2>2. QED
    BY <1>10, <2>1 DEF stop_tap, TapRunTypeOK
<1>11. ASSUME NEW p \in Procs, WritesState(p) PROVE TapRunTypeOK'
  <2>1. proc' \in [Procs -> Process]
    BY <1>11, EndsEffect DEF WritesState
  <2>2. QED
    BY <1>11, <2>1 DEF WritesState, TapRunTypeOK
<1>12. CASE HostCrash
  <2>1. proc' \in [Procs -> Process]
    BY <1>12, IdleType DEF HostCrash
  <2>2. QED
    BY <1>12, <2>1 DEF HostCrash, TapRunTypeOK
<1>13. CASE UNCHANGED tapRunVars
  BY <1>13 DEF tapRunVars, TapRunTypeOK
<1>14. QED
  BY <1>1, <1>2, <1>3, <1>4, <1>5, <1>6, <1>7, <1>8, <1>9, <1>10, <1>11, <1>12, <1>13 DEF Next

-----------------------------------------------------------------------------
(* Exclusion                                                               *)

\* None of the faults that bring two runs together.
Clean == faults \cap {"checked at the same time", "removed", "left"} = {}

\* The pidfile is the one of the process that works, and one process at most
\* is between finding no pidfile and writing its own.
ExclusiveInv ==
    Clean =>
        /\ orphan = {}
        /\ \A p \in Procs : proc[p].pc \in Loading => pidfile = p
        /\ \A p \in Procs : proc[p].pc = "write" => pidfile \notin Procs
        /\ \A p, q \in Procs : proc[p].pc = "write" /\ proc[q].pc = "write" => p = q

\* Faults are not forgotten.
LEMMA FaultsGrow == [Next]_tapRunVars => faults \subseteq faults'
BY DEF Next, tapRunVars, run_tap, sync_tables, reset_state, Starts, CheckPidfile, WritePidfile,
       DoSyncTables, SyncsTable, ChildrenJoined, ChildFails, OrphanEnds, Finish, Signal,
       Terminates, SignalWithoutPidfile, Exits, Killed, stop_tap, StopEnds, WritesState, HostCrash

LEMMA ExclusivePreserved ==
    TapRunTypeOK /\ ExclusiveInv /\ [Next]_tapRunVars => ExclusiveInv'
<1> SUFFICES ASSUME TapRunTypeOK, ExclusiveInv, [Next]_tapRunVars, Clean'
             PROVE  /\ orphan' = {}
                    /\ \A p \in Procs : proc'[p].pc \in Loading => pidfile' = p
                    /\ \A p \in Procs : proc'[p].pc = "write" => pidfile' \notin Procs
                    /\ \A p, q \in Procs : proc'[p].pc = "write" /\ proc'[q].pc = "write" => p = q
  BY DEF ExclusiveInv
<1> DEFINE Goal == /\ orphan' = {}
                   /\ \A p \in Procs : proc'[p].pc \in Loading => pidfile' = p
                   /\ \A p \in Procs : proc'[p].pc = "write" => pidfile' \notin Procs
                   /\ \A p, q \in Procs : proc'[p].pc = "write" /\ proc'[q].pc = "write" => p = q
<1>0. /\ orphan = {}
      /\ \A p \in Procs : proc[p].pc \in Loading => pidfile = p
      /\ \A p \in Procs : proc[p].pc = "write" => pidfile \notin Procs
      /\ \A p, q \in Procs : proc[p].pc = "write" /\ proc[q].pc = "write" => p = q
  BY FaultsGrow DEF ExclusiveInv, Clean
<1>1. ASSUME orphan' = orphan, pidfile' = pidfile \/ (pidfile' \notin Procs /\ pidfile \notin Procs),
             NEW p \in Procs, \A q \in Procs \ {p} : proc'[q] = proc[q],
             proc'[p].pc \in Loading => proc[p].pc \in Loading, proc'[p].pc # "write"
      PROVE  Goal
  BY <1>0, <1>1
<1>2. ASSUME NEW p \in Procs, pidfile \notin Procs \ {p},
             \A q \in Procs \ {p} : proc'[q] = proc[q],
             proc'[p].pc \notin Loading \cup {"write"}, orphan' = orphan, pidfile' \notin Procs
      PROVE  Goal
  BY <1>0, <1>2
<1> HIDE DEF Goal
<1>3. ASSUME NEW p \in Procs, run_tap(p) \/ reset_state(p)
      PROVE  Goal
  <2>1. ChosenForFastsync \in SUBSET SelectedTables /\ ChosenForSinger \in SUBSET SelectedTables
    BY DEF ChosenForFastsync, ChosenForSinger
  <2>2. CASE run_tap(p)
    <3>1. Starts(p, "run_tap", "check", ChosenForFastsync, ChosenForSinger)
      BY <2>2 DEF run_tap
    <3>2. /\ proc'[p].pc = "check" /\ \A q \in Procs \ {p} : proc'[q] = proc[q]
          /\ UNCHANGED <<orphan, pidfile>>
      BY <2>1, <3>1, StartsEffect DEF Commands, Places
    <3>3. QED
      BY <1>1, <3>2 DEF Loading, WithChildren
  <2>3. CASE reset_state(p)
    <3>1. Starts(p, "reset_state", "reset", {}, {}) /\ {} \in SUBSET SelectedTables
      BY <2>3 DEF reset_state
    <3>2. /\ proc'[p].pc = "reset" /\ \A q \in Procs \ {p} : proc'[q] = proc[q]
          /\ UNCHANGED <<orphan, pidfile>>
      BY <3>1, StartsEffect DEF Commands, Places
    <3>3. QED
      BY <1>1, <3>2 DEF Loading, WithChildren
  <2>4. QED
    BY <1>3, <2>2, <2>3
<1>4. ASSUME NEW p \in Procs, NEW tables \in SUBSET SelectedTables, sync_tables(p, tables) PROVE Goal
  <2>1. Starts(p, "sync_tables", "check", tables, {}) /\ {} \in SUBSET SelectedTables
    BY <1>4 DEF sync_tables
  <2>2. /\ proc'[p].pc = "check" /\ \A q \in Procs \ {p} : proc'[q] = proc[q]
        /\ UNCHANGED <<orphan, pidfile>>
    BY <2>1, StartsEffect DEF Commands, Places
  <2>3. QED
    BY <1>1, <2>2 DEF Loading, WithChildren
<1>5. ASSUME NEW p \in Procs, CheckPidfile(p) PROVE Goal
  <2>1. CASE AlreadyRunning
    <3>1. Ends(p) /\ UNCHANGED <<orphan, pidfile>>
      BY <1>5, <2>1 DEF CheckPidfile
    <3>2. proc'[p].pc = "idle" /\ \A q \in Procs \ {p} : proc'[q] = proc[q]
      BY <3>1, EndsEffect
    <3>3. QED
      BY <1>1, <3>1, <3>2 DEF Loading, WithChildren
  <2>2. CASE ~AlreadyRunning
    <3>1. Goes(p, "write") /\ UNCHANGED <<orphan, pidfile>> /\ pidfile \notin Procs
      BY <1>5, <2>2, PidsAssumption DEF CheckPidfile, AlreadyRunning
    <3>2. proc'[p].pc = "write" /\ \A q \in Procs \ {p} : proc'[q] = proc[q]
      BY <3>1, GoesEffect DEF Places
    <3>3. \A q \in Procs : proc[q].pc # "write"
      BY <1>5 DEF CheckPidfile, Clean
    <3>4. QED
      BY <1>0, <3>1, <3>2, <3>3 DEF Goal, Loading, WithChildren
  <2>3. QED
    BY <2>1, <2>2
<1>6. ASSUME NEW p \in Procs, WritePidfile(p) PROVE Goal
  <2>1. /\ Goes(p, "sync") \/ Goes(p, "singer")
        /\ pidfile' = p /\ orphan' = orphan /\ proc[p].pc = "write"
    BY <1>6 DEF WritePidfile
  <2>2. proc'[p].pc \in {"sync", "singer"} /\ \A q \in Procs \ {p} : proc'[q] = proc[q]
    BY <2>1, GoesEffect DEF Places, Loading, WithChildren
  <2>3. \A q \in Procs \ {p} : proc[q].pc \notin Loading \cup {"write"}
    BY <1>0, <2>1
  <2>4. QED
    BY <1>0, <2>1, <2>2, <2>3 DEF Goal, Loading, WithChildren
<1>7. ASSUME NEW p \in Procs, DoSyncTables(p) PROVE Goal
  <2>1. Goes(p, "children") /\ UNCHANGED <<orphan, pidfile>> /\ proc[p].pc = "sync"
    BY <1>7 DEF DoSyncTables
  <2>2. proc'[p].pc = "children" /\ \A q \in Procs \ {p} : proc'[q] = proc[q]
    BY <2>1, GoesEffect DEF Places, Loading, WithChildren
  <2>3. QED
    BY <1>1, <2>1, <2>2 DEF Loading, WithChildren
<1>8. ASSUME NEW p \in Procs, ChildrenJoined(p) PROVE Goal
  <2>1. /\ UNCHANGED <<orphan, pidfile>> /\ proc[p].pc = "children"
        /\ proc'[p].pc = "singer" /\ \A q \in Procs \ {p} : proc'[q] = proc[q]
    BY <1>8, JoinedEffect DEF ChildrenJoined
  <2>2. QED
    BY <1>1, <2>1 DEF Loading, WithChildren
\* The pidfile that goes is not another's, or the step is one of the faults.
<1>9. ASSUME NEW p \in Procs, ChildFails(p) \/ Finish(p) PROVE Goal
  <2>1. Ends(p) /\ orphan' = orphan /\ pidfile' = NoProc /\ pidfile \notin Procs \ {p}
    BY <1>9 DEF ChildFails, Finish, Leaves, Removed, Clean
  <2>2. proc'[p].pc = "idle" /\ \A q \in Procs \ {p} : proc'[q] = proc[q]
    BY <2>1, EndsEffect
  <2>3. QED
    BY <1>2, <2>1, <2>2, PidsAssumption DEF Loading, WithChildren
<1>10. ASSUME NEW p \in Procs, Terminates(p) PROVE Goal
  <2>1. Goes(p, "exiting") /\ orphan' = orphan /\ pidfile' = pidfile
    BY <1>10 DEF Terminates
  <2>2. proc'[p].pc = "exiting" /\ \A q \in Procs \ {p} : proc'[q] = proc[q]
    BY <2>1, GoesEffect DEF Places
  <2>3. QED
    BY <1>1, <2>1, <2>2 DEF Loading, WithChildren
<1>11. ASSUME NEW p \in Procs, Signal(p) PROVE Goal
  <2>1. /\ Ends(p) \/ Goes(p, "exiting")
        /\ orphan' = orphan /\ pidfile' = NoProc /\ pidfile \notin Procs \ {p}
    BY <1>0, <1>11 DEF Signal, Removed, Clean
  <2>2. proc'[p].pc \in {"idle", "exiting"} /\ \A q \in Procs \ {p} : proc'[q] = proc[q]
    BY <2>1, GoesEffect, EndsEffect DEF Places
  <2>3. QED
    BY <1>2, <2>1, <2>2, PidsAssumption DEF Loading, WithChildren
<1>12. ASSUME NEW p \in Procs, SignalWithoutPidfile(p) PROVE Goal
  <2>1. /\ \/ Ends(p)
           \/ \E fast \in SUBSET SelectedTables : proc' = [proc EXCEPT ![p].pc = "exiting", ![p].fast = fast]
        /\ orphan' = orphan /\ pidfile' = pidfile
    BY <1>12, ProcessTypes DEF SignalWithoutPidfile, Clean, TapRunTypeOK
  <2>2. proc'[p].pc \in {"idle", "exiting"} /\ \A q \in Procs \ {p} : proc'[q] = proc[q]
    BY <2>1, LeftEffect, EndsEffect DEF Places
  <2>3. QED
    BY <1>1, <2>1, <2>2 DEF Loading, WithChildren
<1>13. ASSUME NEW p \in Procs, Exits(p) PROVE Goal
  <2>1. Ends(p) /\ orphan' = orphan /\ pidfile' = NoProc /\ pidfile \notin Procs \ {p}
    BY <1>0, <1>13 DEF Exits, Leaves, Removed, Clean
  <2>2. proc'[p].pc = "idle" /\ \A q \in Procs \ {p} : proc'[q] = proc[q]
    BY <2>1, EndsEffect
  <2>3. QED
    BY <1>2, <2>1, <2>2, PidsAssumption DEF Loading, WithChildren
<1>14. ASSUME NEW p \in Procs, Killed(p) PROVE Goal
  <2>1. Ends(p) /\ orphan' = orphan /\ pidfile' = IF pidfile = p THEN DeadProc ELSE pidfile
    BY <1>14 DEF Killed, Clean
  <2>2. proc'[p].pc = "idle" /\ \A q \in Procs \ {p} : proc'[q] = proc[q]
    BY <2>1, EndsEffect
  <2>3. CASE pidfile = p
    BY <1>2, <2>1, <2>2, <2>3, PidsAssumption DEF Loading, WithChildren
  <2>4. CASE pidfile # p
    BY <1>1, <2>1, <2>2, <2>4 DEF Loading, WithChildren
  <2>5. QED
    BY <2>3, <2>4
<1>15. ASSUME NEW p \in Procs, stop_tap(p) PROVE Goal
  <2>1. /\ orphan' = orphan /\ pidfile' = NoProc /\ pidfile \notin Procs \ {p}
    BY <1>15 DEF stop_tap, Removed, Clean
  <2>2. proc'[p].pc = "stopped" /\ \A q \in Procs \ {p} : proc'[q] = proc[q]
    BY <1>15, StopEffect
  <2>3. QED
    BY <1>2, <2>1, <2>2, PidsAssumption DEF Loading, WithChildren
<1>16. ASSUME NEW p \in Procs, StopEnds(p) \/ WritesState(p) PROVE Goal
  <2>1. Ends(p) /\ UNCHANGED <<orphan, pidfile>>
    BY <1>16 DEF StopEnds, WritesState
  <2>2. proc'[p].pc = "idle" /\ \A q \in Procs \ {p} : proc'[q] = proc[q]
    BY <2>1, EndsEffect
  <2>3. QED
    BY <1>1, <2>1, <2>2 DEF Loading, WithChildren
<1>17. ASSUME HostCrash PROVE Goal
  <2>1. orphan' = {} /\ \A p \in Procs : proc'[p].pc = "idle"
    BY <1>17 DEF HostCrash, Idle
  <2>2. QED
    BY <2>1 DEF Goal, Loading, WithChildren
<1>18. ASSUME UNCHANGED <<proc, orphan, pidfile>> PROVE Goal
  BY <1>0, <1>18 DEF Goal
<1>19. ASSUME NEW p \in Procs PROVE ~OrphanEnds(p)
  BY <1>0 DEF OrphanEnds
<1>20. ASSUME NEW p \in Procs, NEW t \in SelectedTables, SyncsTable(p, t) PROVE Goal
  BY <1>18, <1>20 DEF SyncsTable
<1>21. ASSUME UNCHANGED tapRunVars PROVE Goal
  BY <1>18, <1>21 DEF tapRunVars
<1>22. Goal
  BY <1>3, <1>4, <1>5, <1>6, <1>7, <1>8, <1>9, <1>10, <1>11, <1>12, <1>13, <1>14, <1>15, <1>16,
     <1>17, <1>19, <1>20, <1>21 DEF Next
<1>23. QED
  BY <1>22 DEF Goal

\* A process whose fastsync child works on is an orphan, there is none here.
LEMMA ExclusiveImplies == ExclusiveInv => RunsAreExclusive
BY DEF ExclusiveInv, Clean, RunsAreExclusive, Working

LEMMA InitialStates == Init => TapRunTypeOK /\ ExclusiveInv
<1> SUFFICES ASSUME Init PROVE TapRunTypeOK /\ ExclusiveInv
  OBVIOUS
<1>1. proc \in [Procs -> Process] /\ \A p \in Procs : proc[p].pc = "idle"
  BY IdleType DEF Init, Idle
<1>2. TapRunTypeOK
  BY <1>1 DEF Init, TapRunTypeOK
<1>3. ExclusiveInv
  BY <1>1 DEF Init, ExclusiveInv, Loading, WithChildren
<1>4. QED
  BY <1>2, <1>3

\* Commands on one tap exclude one another, whatever deaths of a process or of
\* the host, refused commands and signals there are, but for the three cases that
\* RunsAreExclusive names: each of them is a step that the invariant sees.
THEOREM RunsExclude == Spec => []RunsAreExclusive
<1>1. Init => TapRunTypeOK /\ ExclusiveInv
  BY InitialStates
<1>2. TapRunTypeOK /\ ExclusiveInv /\ [Next]_tapRunVars => TapRunTypeOK' /\ ExclusiveInv'
  BY TypePreserved, ExclusivePreserved
<1>3. TapRunTypeOK /\ ExclusiveInv => RunsAreExclusive
  BY ExclusiveImplies
<1>4. QED
  BY <1>1, <1>2, <1>3, PTL DEF Spec

-----------------------------------------------------------------------------
(* The tables of the singer tap                                            *)

\* What a process of run_tap is to give to the singer tap: all tables with a
\* bookmark method until it has the pidfile, then those with a bookmark.  One
\* that goes through do_sync_tables has tables to sync.
SingerOK(p) ==
    /\ proc[p].cmd = "run_tap" /\ proc[p].pc \in {"check", "write"} => proc[p].singer = ChosenForSinger
    /\ proc[p].pc \in {"sync", "children"} => proc[p].fast # {}
    /\ proc[p].cmd = "run_tap" /\ proc[p].pc = "singer" => proc[p].singer \subseteq bookmarks

SingerInv == faults = {} => \A p \in Procs : SingerOK(p)

LEMMA SingerPreserved ==
    TapRunTypeOK /\ ExclusiveInv /\ SingerInv /\ [Next]_tapRunVars => SingerInv'
<1> DEFINE Later(p) ==
      /\ proc'[p].cmd = "run_tap" /\ proc'[p].pc \in {"check", "write"} => proc'[p].singer = ChosenForSinger
      /\ proc'[p].pc \in {"sync", "children"} => proc'[p].fast # {}
      /\ proc'[p].cmd = "run_tap" /\ proc'[p].pc = "singer" => proc'[p].singer \subseteq bookmarks'
    Goal == \A p \in Procs : Later(p)
<1> SUFFICES ASSUME TapRunTypeOK, ExclusiveInv, SingerInv, [Next]_tapRunVars, faults' = {}
             PROVE  Goal
  BY DEF SingerInv, SingerOK, ChosenForSinger
<1>0. faults = {} /\ (\A p \in Procs : SingerOK(p)) /\ orphan = {}
      /\ \A p \in Procs : proc[p].pc \in Loading => pidfile = p
  BY FaultsGrow DEF SingerInv, ExclusiveInv, Clean
\* A step of one process that forgets no bookmark.
<1>1. ASSUME NEW p \in Procs, \A q \in Procs \ {p} : proc'[q] = proc[q],
             bookmarks \subseteq bookmarks', Later(p)
      PROVE  Goal
  <2>1. ASSUME NEW q \in Procs \ {p} PROVE Later(q)
    BY <1>0, <1>1 DEF SingerOK
  <2>2. QED
    BY <1>1, <2>1
<1>2. ASSUME proc' = proc, bookmarks \subseteq bookmarks' PROVE Goal
  BY <1>0, <1>2 DEF SingerOK
<1> HIDE DEF Goal
<1>3. ASSUME NEW p \in Procs, run_tap(p) PROVE Goal
  <2>1. ChosenForFastsync \in SUBSET SelectedTables /\ ChosenForSinger \in SUBSET SelectedTables
    BY DEF ChosenForFastsync, ChosenForSinger
  <2>2. Starts(p, "run_tap", "check", ChosenForFastsync, ChosenForSinger)
    BY <1>3 DEF run_tap
  <2>3. /\ proc'[p].pc = "check" /\ \A q \in Procs \ {p} : proc'[q] = proc[q]
        /\ bookmarks' = bookmarks
    BY <2>1, <2>2, StartsEffect DEF Commands, Places
  <2>4. proc'[p].singer = ChosenForSinger
    <3>1. proc' = [proc EXCEPT ![p] = [cmd |-> "run_tap", pc |-> "check",
                                       fast |-> ChosenForFastsync, singer |-> ChosenForSinger]]
      BY <2>2 DEF Starts
    <3>2. QED
      BY <3>1 DEF TapRunTypeOK
  <2>5. QED
    BY <1>1, <2>3, <2>4
<1>4. ASSUME NEW p \in Procs, NEW tables \in SUBSET SelectedTables, sync_tables(p, tables) PROVE Goal
  <2>1. Starts(p, "sync_tables", "check", tables, {}) /\ {} \in SUBSET SelectedTables
    BY <1>4 DEF sync_tables
  <2>2. /\ proc'[p].pc = "check" /\ proc'[p].cmd = "sync_tables"
        /\ \A q \in Procs \ {p} : proc'[q] = proc[q]
        /\ bookmarks' = bookmarks
    BY <2>1, StartsEffect DEF Commands, Places
  <2>3. QED
    BY <1>1, <2>2
<1>5. ASSUME NEW p \in Procs, reset_state(p) PROVE Goal
  <2>1. Starts(p, "reset_state", "reset", {}, {}) /\ {} \in SUBSET SelectedTables
    BY <1>5 DEF reset_state
  <2>2. /\ proc'[p].pc = "reset" /\ \A q \in Procs \ {p} : proc'[q] = proc[q]
        /\ bookmarks' = bookmarks
    BY <2>1, StartsEffect DEF Commands, Places
  <2>3. QED
    BY <1>1, <2>2
<1>6. ASSUME NEW p \in Procs, CheckPidfile(p) PROVE Goal
  <2>1. (Ends(p) \/ Goes(p, "write")) /\ bookmarks' = bookmarks /\ proc[p].pc = "check"
    BY <1>6 DEF CheckPidfile
  <2>2. CASE Ends(p)
    <3>1. proc'[p].pc = "idle" /\ \A q \in Procs \ {p} : proc'[q] = proc[q]
      BY <2>2, EndsEffect
    <3>2. QED
      BY <1>1, <2>1, <3>1
  <2>3. CASE Goes(p, "write")
    <3>1. /\ proc'[p].pc = "write" /\ proc'[p].cmd = proc[p].cmd /\ proc'[p].singer = proc[p].singer
          /\ \A q \in Procs \ {p} : proc'[q] = proc[q]
      BY <2>3, GoesEffect DEF Places
    <3>2. QED
      BY <1>0, <1>1, <2>1, <3>1 DEF SingerOK
  <2>4. QED
    BY <2>1, <2>2, <2>3
<1>7. ASSUME NEW p \in Procs, WritePidfile(p) PROVE Goal
  <2>1. proc[p].pc = "write" /\ bookmarks' = bookmarks
    BY <1>7 DEF WritePidfile
  <2>2. proc[p].cmd = "run_tap" => proc[p].fast = ChosenForFastsync
    BY <1>7 DEF WritePidfile
  <2>3. CASE proc[p].fast # {}
    <3>1. Goes(p, "sync")
      BY <1>7, <2>3 DEF WritePidfile
    <3>2. /\ proc'[p].pc = "sync" /\ proc'[p].fast = proc[p].fast
          /\ \A q \in Procs \ {p} : proc'[q] = proc[q]
      BY <3>1, GoesEffect DEF Places, Loading, WithChildren
    <3>3. QED
      BY <1>1, <2>1, <2>3, <3>2
  <2>4. CASE proc[p].fast = {}
    <3>1. Goes(p, "singer")
      BY <1>7, <2>4 DEF WritePidfile
    <3>2. /\ proc'[p].pc = "singer" /\ proc'[p].cmd = proc[p].cmd /\ proc'[p].singer = proc[p].singer
          /\ \A q \in Procs \ {p} : proc'[q] = proc[q]
      BY <3>1, GoesEffect DEF Places, Loading, WithChildren
    <3>3. proc[p].cmd = "run_tap" => ChosenForSinger \subseteq bookmarks
      BY <2>2, <2>4 DEF ChosenForFastsync, ChosenForSinger, InitialSyncRequired
    <3>4. proc[p].cmd = "run_tap" => proc[p].singer = ChosenForSinger
      BY <1>0, <2>1 DEF SingerOK
    <3>5. QED
      BY <1>1, <2>1, <3>2, <3>3, <3>4
  <2>5. QED
    BY <2>3, <2>4
\* Another process cannot be at its singer tap, it would have the pidfile too.
<1>8. ASSUME NEW p \in Procs, DoSyncTables(p) PROVE Goal
  <2>1. Goes(p, "children") /\ proc[p].pc = "sync"
    BY <1>8 DEF DoSyncTables
  <2>2. /\ proc'[p].pc = "children" /\ proc'[p].fast = proc[p].fast
        /\ \A q \in Procs \ {p} : proc'[q] = proc[q]
    BY <2>1, GoesEffect DEF Places, Loading, WithChildren
  <2>3. Later(p)
    BY <1>0, <2>1, <2>2 DEF SingerOK
  <2>4. ASSUME NEW q \in Procs \ {p} PROVE proc[q].pc # "singer"
    BY <1>0, <2>1 DEF Loading, WithChildren
  <2>5. ASSUME NEW q \in Procs \ {p} PROVE Later(q)
    BY <1>0, <2>2, <2>4 DEF SingerOK
  <2>6. QED
    BY <2>3, <2>5 DEF Goal
<1>9. ASSUME NEW p \in Procs, ChildrenJoined(p) PROVE Goal
  <2>1. /\ proc[p].pc = "children" /\ bookmarks' = bookmarks
        /\ proc'[p].pc = "singer" /\ proc'[p].singer = SingerTables(p)
        /\ \A q \in Procs \ {p} : proc'[q] = proc[q]
    BY <1>9, JoinedEffect DEF ChildrenJoined
  <2>2. SingerTables(p) \subseteq bookmarks
    BY <1>0, <2>1 DEF SingerOK, SingerTables
  <2>3. QED
    BY <1>1, <2>1, <2>2
<1>10. ASSUME NEW p \in Procs,
              ChildFails(p) \/ Finish(p) \/ Exits(p) \/ StopEnds(p) \/ Killed(p)
       PROVE Goal
  <2>1. Ends(p) /\ bookmarks' = bookmarks
    BY <1>0, <1>10 DEF ChildFails, Finish, Exits, StopEnds, Killed
  <2>2. proc'[p].pc = "idle" /\ \A q \in Procs \ {p} : proc'[q] = proc[q]
    BY <2>1, EndsEffect
  <2>3. QED
    BY <1>1, <2>1, <2>2
<1>11. ASSUME NEW p \in Procs, Signal(p) \/ Terminates(p) PROVE Goal
  <2>1. (Ends(p) \/ Goes(p, "exiting")) /\ bookmarks' = bookmarks
    BY <1>0, <1>11 DEF Signal, Terminates
  <2>2. proc'[p].pc \in {"idle", "exiting"} /\ \A q \in Procs \ {p} : proc'[q] = proc[q]
    BY <2>1, GoesEffect, EndsEffect DEF Places
  <2>3. QED
    BY <1>1, <2>1, <2>2
<1>12. ASSUME NEW p \in Procs, SignalWithoutPidfile(p) PROVE Goal
  <2>1. /\ \/ Ends(p)
           \/ \E fast \in SUBSET SelectedTables : proc' = [proc EXCEPT ![p].pc = "exiting", ![p].fast = fast]
        /\ bookmarks' = bookmarks
    BY <1>12, ProcessTypes DEF SignalWithoutPidfile, TapRunTypeOK
  <2>2. proc'[p].pc \in {"idle", "exiting"} /\ \A q \in Procs \ {p} : proc'[q] = proc[q]
    BY <2>1, LeftEffect, EndsEffect DEF Places
  <2>3. QED
    BY <1>1, <2>1, <2>2
<1>13. ASSUME NEW p \in Procs, stop_tap(p) PROVE Goal
  <2>1. proc'[p].pc = "stopped" /\ \A q \in Procs \ {p} : proc'[q] = proc[q]
    BY <1>13, StopEffect
  <2>2. bookmarks' = bookmarks
    BY <1>13 DEF stop_tap
  <2>3. QED
    BY <1>1, <2>1, <2>2
<1>14. ASSUME NEW p \in Procs, WritesState(p) PROVE Goal
  <2>1. Ends(p) /\ bookmarks' = bookmarks
    BY <1>14 DEF WritesState
  <2>2. proc'[p].pc = "idle" /\ \A q \in Procs \ {p} : proc'[q] = proc[q]
    BY <2>1, EndsEffect
  <2>3. QED
    BY <1>1, <2>1, <2>2
<1>15. ASSUME HostCrash PROVE Goal
  <2>1. \A p \in Procs : proc'[p].pc = "idle"
    BY <1>15 DEF HostCrash, Idle
  <2>2. QED
    BY <2>1 DEF Goal
<1>16. ASSUME NEW p \in Procs, NEW t \in SelectedTables, SyncsTable(p, t) PROVE Goal
  BY <1>2, <1>16 DEF SyncsTable
<1>17. ASSUME UNCHANGED tapRunVars PROVE Goal
  BY <1>2, <1>17 DEF tapRunVars
<1>18. ASSUME NEW p \in Procs PROVE ~OrphanEnds(p)
  BY <1>0 DEF OrphanEnds
<1>19. QED
  BY <1>3, <1>4, <1>5, <1>6, <1>7, <1>8, <1>9, <1>10, <1>11, <1>12, <1>13, <1>14, <1>15, <1>16,
     <1>17, <1>18 DEF Next

\* The singer tap of run_tap is given tables with a bookmark alone, unless one
\* of the faults has happened.
THEOREM SingerSynced == Spec => []SingerTablesAreSynced
<1>1. Init => SingerInv
  BY DEF Init, Idle, SingerInv, SingerOK
<1>2. Init => TapRunTypeOK /\ ExclusiveInv /\ SingerInv
  BY <1>1, InitialStates
<1>3. TapRunTypeOK /\ ExclusiveInv /\ SingerInv /\ [Next]_tapRunVars =>
          TapRunTypeOK' /\ ExclusiveInv' /\ SingerInv'
  BY TypePreserved, ExclusivePreserved, SingerPreserved
<1>4. SingerInv => SingerTablesAreSynced
  BY DEF SingerInv, SingerOK, SingerTablesAreSynced
<1>5. QED
  BY <1>2, <1>3, <1>4, PTL DEF Spec
=============================================================================
