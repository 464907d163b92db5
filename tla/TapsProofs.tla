----------------------------- MODULE TapsProofs -----------------------------
(***************************************************************************)
(* Proofs for the taps of web services: for every set of objects, page     *)
(* size, window, clock and number of deaths, the bookmark of a tap passes  *)
(* nothing that is not loaded, but for what its property names.            *)
(*                                                                         *)
(* Each tap has its inductive invariant: its types (TypeOK), that no       *)
(* bookmark is in the future (Past), what the saved bookmark says of the   *)
(* warehouse (Saved), and what the bookmark in memory, the window and the  *)
(* page say of the records written so far.  The taps run one at a time     *)
(* (MCTaps), so TapsInv is the invariant of the one that runs.             *)
(***************************************************************************)
EXTENDS MCTaps, NaturalsInduction, WellFoundedInduction, FiniteSetTheorems, TLAPS

-----------------------------------------------------------------------------
(* Pages and greatest elements                                             *)

\* The taps count the objects of a page with the same Cardinality.
LEMMA Counts ==
    /\ \A S : Github!Cardinality(S) = Cardinality(S)
    /\ \A S : Slack!Cardinality(S) = Cardinality(S)
    /\ \A S : Twilio!Cardinality(S) = Cardinality(S)
    /\ \A S : Zendesk!Cardinality(S) = Cardinality(S)
<1>1. \A S : Github!Cardinality(S) = Cardinality(S)
  BY DEF Github!Cardinality, Cardinality
<1>2. \A S : Slack!Cardinality(S) = Cardinality(S)
  BY DEF Slack!Cardinality, Cardinality
<1>3. \A S : Twilio!Cardinality(S) = Cardinality(S)
  BY DEF Twilio!Cardinality, Cardinality
<1>4. \A S : Zendesk!Cardinality(S) = Cardinality(S)
  BY DEF Zendesk!Cardinality, Cardinality
<1>5. QED
  BY <1>1, <1>2, <1>3, <1>4

\* A set of naturals that is not empty has a least element.
LEMMA SmallestExists ==
    ASSUME NEW T, T \subseteq Nat, T # {}
    PROVE  \E x \in T : \A y \in T : x <= y
<1> DEFINE R == OpToRel(<, Nat)
<1>1. IsWellFoundedOn(R, Nat)
  BY NatLessThanWellFounded
<1>2. \A x, y \in Nat : y < x => <<y, x>> \in R
  BY DEF OpToRel
<1> HIDE DEF R
<1>3. PICK x \in T : \A y \in T : ~(<<y, x>> \in R)
  BY <1>1, WFMin
<1>4. ASSUME NEW y \in T PROVE x <= y
  <2>1. x \in Nat /\ y \in Nat /\ ~(y < x)
    BY <1>2, <1>3
  <2>2. QED
    BY <2>1
<1>5. QED
  BY <1>4

\* One that is bounded has a greatest element.
LEMMA LargestExists ==
    ASSUME NEW T, T \subseteq Nat, T # {}, NEW n \in Nat, \A x \in T : x <= n
    PROVE  \E x \in T : \A y \in T : y <= x
<1> DEFINE U == {n - x : x \in T}
<1>0. \A x \in T : n - x \in Nat
  OBVIOUS
<1>1. U \subseteq Nat /\ U # {}
  BY <1>0
<1>2. PICK u \in U : \A y \in U : u <= y
  BY <1>1, SmallestExists
<1>3. PICK x \in T : u = n - x
  OBVIOUS
<1>4. ASSUME NEW y \in T PROVE y <= x
  <2>1. n - y \in U /\ x \in Nat /\ y \in Nat
    OBVIOUS
  <2>2. u <= n - y
    BY <1>2, <2>1
  <2>3. QED
    BY <1>3, <2>1, <2>2
<1>5. QED
  BY <1>4

\* A page: the first n of the set R in the order of f.
PageOf(R, f, n) == {i \in R : Cardinality({j \in R : f[j] < f[i]}) < n}

\* What is not on the page comes after it, and a page of something is not empty.
LEMMA PageIsFirst ==
    ASSUME NEW R, IsFiniteSet(R), NEW f \in [R -> Nat], NEW n \in Nat, n # 0
    PROVE  /\ \A i \in R \ PageOf(R, f, n), j \in PageOf(R, f, n) : f[j] < f[i]
           /\ R # {} => PageOf(R, f, n) # {}
<1> DEFINE Below(i) == {j \in R : f[j] < f[i]}
<1>1. \A i \in R : IsFiniteSet(Below(i)) /\ Cardinality(Below(i)) \in Nat
  <2>1. \A i \in R : Below(i) \subseteq R
    OBVIOUS
  <2>2. QED
    BY <2>1, FS_Subset, FS_CardinalityType
<1>2. ASSUME NEW i \in R, NEW j \in R, f[i] <= f[j], j \in PageOf(R, f, n)
      PROVE  i \in PageOf(R, f, n)
  <2>1. Below(i) \subseteq Below(j)
    BY <1>2
  <2>2. Cardinality(Below(i)) <= Cardinality(Below(j))
    BY <1>1, <2>1, FS_Subset
  <2>3. Cardinality(Below(j)) < n
    BY <1>2 DEF PageOf
  <2>4. Cardinality(Below(i)) < n
    BY <1>1, <2>2, <2>3
  <2>5. QED
    BY <2>4 DEF PageOf
<1>3. ASSUME NEW i \in R \ PageOf(R, f, n), NEW j \in PageOf(R, f, n) PROVE f[j] < f[i]
  <2>1. j \in R /\ f[i] \in Nat /\ f[j] \in Nat
    BY DEF PageOf
  <2>2. ~(f[i] <= f[j])
    BY <1>2, <2>1
  <2>3. QED
    BY <2>1, <2>2
<1>4. ASSUME R # {} PROVE PageOf(R, f, n) # {}
  <2> DEFINE T == {f[i] : i \in R}
  <2>1. T \subseteq Nat /\ T # {}
    BY <1>4
  <2>2. PICK x \in T : \A y \in T : x <= y
    <3> HIDE DEF T
    <3>1. QED
      BY <2>1, SmallestExists
  <2>3. PICK i \in R : x = f[i]
    OBVIOUS
  <2>4. \A j \in R : f[j] \in Nat /\ f[i] <= f[j]
    BY <2>2, <2>3
  <2>5. Below(i) = {}
    BY <2>4
  <2>6. Cardinality(Below(i)) < n
    BY <2>5, FS_EmptySet
  <2>7. QED
    BY <2>6 DEF PageOf
<1>5. QED
  BY <1>3, <1>4

\* A finite set of naturals that is not empty has a greatest element.
LEMMA FiniteLargest ==
    ASSUME NEW S, S \subseteq Nat, IsFiniteSet(S), S # {}
    PROVE  \E x \in S : \A y \in S : y <= x
<1> DEFINE Top(V) == \E x \in V : \A y \in V : y <= x
           Bad == {V \in SUBSET S : V # {} /\ ~Top(V)}
           C == {Cardinality(V) : V \in Bad}
<1>1. SUFFICES ASSUME S \in Bad PROVE FALSE
  OBVIOUS
<1>2. \A V \in SUBSET S : IsFiniteSet(V) /\ Cardinality(V) \in Nat
  BY FS_Subset, FS_CardinalityType
<1>3. C \subseteq Nat /\ C # {}
  BY <1>1, <1>2
<1>4. PICK c \in C : \A d \in C : c <= d
  <2> HIDE DEF C
  <2>1. QED
    BY <1>3, SmallestExists
<1>5. PICK V \in Bad : c = Cardinality(V)
  OBVIOUS
<1>6. V \subseteq S /\ V # {} /\ ~Top(V)
  OBVIOUS
<1>7. PICK z \in V : TRUE
  BY <1>6
<1> DEFINE W == V \ {z}
<1>8. W \subseteq S /\ z \in Nat
  BY <1>6
<1>9. Cardinality(W) = c - 1
  BY <1>2, <1>5, <1>6, <1>7, FS_RemoveElement
<1>10. Cardinality(W) \in Nat /\ ~(c <= Cardinality(W))
  BY <1>2, <1>8, <1>9
<1>11. W \notin Bad
  BY <1>4, <1>10
<1>12. CASE W = {}
  <2>1. V = {z}
    BY <1>7, <1>12
  <2>2. QED
    BY <1>6, <1>8, <2>1
<1>13. CASE W # {}
  <2>1. PICK x \in W : \A y \in W : y <= x
    BY <1>8, <1>11, <1>13
  <2>2. x \in Nat /\ x \in V /\ \A y \in V : y \in Nat /\ (y = z \/ y <= x)
    BY <1>6, <1>8, <2>1
  <2>3. CASE z <= x
    BY <1>6, <2>2, <2>3
  <2>4. CASE ~(z <= x)
    <3>1. \A y \in V : y <= z
      BY <1>8, <2>2, <2>4
    <3>2. QED
      BY <1>6, <1>7, <3>1
  <2>5. QED
    BY <2>3, <2>4
<1>14. QED
  BY <1>12, <1>13

-----------------------------------------------------------------------------
(* tap-s3-csv: the files of a bucket, in the order of their modification   *)

\* Types of the state of tap-s3-csv; a listed file is an object with a time.
S3TypeOK ==
    /\ item \in [Items -> [ver : Nat, at : Nat]]
    /\ now \in Nat /\ now >= 1 /\ updates \in Nat
    /\ state \in Nat /\ saved \in Nat
    /\ s3_files \subseteq [key : Items, last_modified : Nat]
    /\ loaded \subseteq emitted

\* No bookmark, listed file or change is in the future.
S3Past ==
    /\ saved <= now /\ state <= now
    /\ saved # 0 => saved \in bookmarks
    /\ \A f \in s3_files : f.last_modified <= now
    /\ \A i \in Items : item[i].at <= now
    /\ pc = "idle" => s3_files = {} /\ state = saved

\* A content that is not loaded and is no tie is younger than the bookmark.
S3Saved ==
    \A i \in Items : S3Csv!Exists(i) /\ S3Csv!Record(i) \notin loaded /\ item[i].at \notin bookmarks
        => item[i].at > saved

\* One that is not read yet is listed, or no file that is listed is younger.
S3Listed ==
    /\ \A f \in s3_files : state <= f.last_modified
    /\ pc = "files" =>
        \A i \in Items : S3Csv!Exists(i) /\ S3Csv!Record(i) \notin emitted /\ item[i].at \notin bookmarks
            => \/ \E f \in s3_files : f.key = i /\ f.last_modified = item[i].at
               \/ /\ state <= item[i].at
                  /\ \A f \in s3_files : f.last_modified <= item[i].at

\* The invariant of tap-s3-csv.
S3Inv == S3TypeOK /\ S3Past /\ S3Saved /\ S3Listed

\* An empty bucket has nothing to load.
LEMMA S3Init == S3Csv!Init => S3Inv
BY DEF S3Csv!Init, S3Csv!ApiInit, S3Inv, S3TypeOK, S3Past, S3Saved, S3Listed, S3Csv!Exists

\* Uploads, the listing of the bucket, a file read and a death keep it: the files are read
\* from the earliest to the latest, so the bookmark of each leaves the rest in the list.
LEMMA S3Step == S3Inv /\ [S3Csv!Next]_(S3Csv!s3CsvVars) => S3Inv'
<1> SUFFICES ASSUME S3Inv, [S3Csv!Next]_(S3Csv!s3CsvVars) PROVE S3Inv'
  OBVIOUS
<1> USE DEF S3Inv
<1>1. ASSUME NEW i \in Items, S3Csv!Upload(i), bookmarks' = bookmarks \cup {saved'} PROVE S3Inv'
  <2>1. /\ item' = [item EXCEPT ![i] = [ver |-> updates + 1, at |-> now]] /\ updates' = updates + 1
        /\ UNCHANGED <<now, pc, state, saved, loaded, emitted, s3_files>>
    BY <1>1 DEF S3Csv!Upload, S3Csv!Change, S3Csv!pipe
  <2>2. S3TypeOK' /\ S3Past'
    BY <1>1, <2>1 DEF S3TypeOK, S3Past
  <2>3. item'[i].at = now /\ \A j \in Items \ {i} : item'[j] = item[j]
    BY <2>1 DEF S3TypeOK
  <2>4. saved # 0 /\ now <= saved => now \in bookmarks
    BY DEF S3TypeOK, S3Past
  <2>5. ASSUME NEW j \in Items, S3Csv!Exists(j)', S3Csv!Record(j)' \notin loaded, item'[j].at \notin bookmarks'
        PROVE  item'[j].at > saved
    <3>1. CASE j = i
      BY <1>1, <2>1, <2>3, <2>4, <2>5, <3>1 DEF S3TypeOK, S3Past
    <3>2. CASE j # i
      BY <1>1, <2>3, <2>5, <3>2 DEF S3Saved, S3Csv!Exists, S3Csv!Record
    <3>3. QED
      BY <3>1, <3>2
  <2>6. ASSUME NEW j \in Items, S3Csv!Exists(j)', S3Csv!Record(j)' \notin emitted, item'[j].at \notin bookmarks',
               pc = "files"
        PROVE  \/ \E f \in s3_files : f.key = j /\ f.last_modified = item'[j].at
               \/ state <= item'[j].at /\ \A f \in s3_files : f.last_modified <= item'[j].at
    <3>1. CASE j = i
      BY <2>3, <3>1 DEF S3Past
    <3>2. CASE j # i
      BY <1>1, <2>3, <2>6, <3>2 DEF S3Listed, S3Csv!Exists, S3Csv!Record
    <3>3. QED
      BY <3>1, <3>2
  <2>8. S3Saved' /\ S3Listed'
    BY <2>1, <2>5, <2>6 DEF S3Saved, S3Listed, S3Csv!Exists, S3Csv!Record
  <2>7. QED
    BY <2>2, <2>8
<1>2. CASE S3Csv!Tick /\ UNCHANGED s3_files /\ bookmarks' = bookmarks \cup {saved'}
  <2>1. S3TypeOK' /\ S3Past'
    BY <1>2 DEF S3Csv!Tick, S3Csv!pipe, S3TypeOK, S3Past
  <2>2. S3Saved' /\ S3Listed'
    BY <1>2 DEF S3Csv!Tick, S3Csv!pipe, S3Saved, S3Listed, S3Csv!Exists, S3Csv!Record
  <2>3. QED
    BY <2>1, <2>2
<1>3. CASE S3Csv!sync_stream /\ bookmarks' = bookmarks \cup {saved'}
  <2>1. /\ pc = "idle" /\ pc' = "files" /\ state' = saved /\ s3_files' = S3Csv!InputFiles(saved)
        /\ UNCHANGED <<item, now, updates, loaded, emitted, saved>>
    BY <1>3 DEF S3Csv!sync_stream, S3Csv!service, S3Csv!pipe
  <2>2. \A f \in s3_files' : /\ f \in [key : Items, last_modified : Nat]
                             /\ saved < f.last_modified /\ f.last_modified = item[f.key].at
    BY <2>1 DEF S3Csv!InputFiles, S3TypeOK
  <2>3. \A i \in Items : S3Csv!Exists(i) /\ saved < item[i].at
            => [key |-> i, last_modified |-> item[i].at] \in s3_files'
    BY <2>1 DEF S3Csv!InputFiles
  <2>4. S3TypeOK' /\ S3Past' /\ S3Saved'
    BY <1>3, <2>1, <2>2 DEF S3TypeOK, S3Past, S3Saved, S3Csv!Exists, S3Csv!Record
  <2>5. ASSUME NEW i \in Items, S3Csv!Exists(i), S3Csv!Record(i) \notin emitted, item[i].at \notin bookmarks
        PROVE  \E f \in s3_files' : f.key = i /\ f.last_modified = item[i].at
    <3>1. saved < item[i].at
      BY <2>5 DEF S3TypeOK, S3Saved
    <3>2. QED
      BY <2>3, <2>5, <3>1
  <2>6. \A i \in Items : S3Csv!Exists(i)' = S3Csv!Exists(i) /\ S3Csv!Record(i)' = S3Csv!Record(i)
    BY <2>1 DEF S3Csv!Exists, S3Csv!Record
  <2>7. S3Listed'
    BY <1>3, <2>1, <2>2, <2>5, <2>6 DEF S3TypeOK, S3Listed
  <2>8. QED
    BY <2>4, <2>7
<1>4. ASSUME NEW f \in s3_files, S3Csv!ReadFile(f), bookmarks' = bookmarks \cup {saved'} PROVE S3Inv'
  <2>1. /\ pc = "files" /\ pc' = pc /\ state' = f.last_modified /\ s3_files' = s3_files \ {f}
        /\ emitted' = emitted \cup {S3Csv!Record(f.key)}
        /\ (loaded' = emitted' /\ saved' = state') \/ UNCHANGED <<loaded, saved>>
        /\ UNCHANGED <<item, now, updates>>
    BY <1>4 DEF S3Csv!ReadFile, S3Csv!RecordsAndState, S3Csv!service
  <2>2. \A g \in s3_files : state' <= g.last_modified
    BY <1>4, <2>1 DEF S3Csv!ReadFile, S3Csv!NextFiles
  <2>3. S3TypeOK' /\ S3Past'
    BY <1>4, <2>1 DEF S3TypeOK, S3Past
  <2>4. ASSUME NEW i \in Items, S3Csv!Exists(i), S3Csv!Record(i) \notin emitted', item[i].at \notin bookmarks'
        PROVE  /\ state' <= item[i].at
               /\ \/ \E g \in s3_files' : g.key = i /\ g.last_modified = item[i].at
                  \/ \A g \in s3_files' : g.last_modified <= item[i].at
    <3>1. i # f.key /\ S3Csv!Record(i) \notin emitted /\ item[i].at \notin bookmarks
      BY <1>4, <2>1, <2>4
    <3>2. CASE \E g \in s3_files : g.key = i /\ g.last_modified = item[i].at
      BY <2>1, <2>2, <3>1, <3>2
    <3>3. CASE \A g \in s3_files : g.last_modified <= item[i].at
      BY <2>1, <3>3
    <3>4. QED
      BY <2>1, <2>4, <3>1, <3>2, <3>3 DEF S3Listed
  <2>5. S3Listed'
    BY <2>1, <2>2, <2>4 DEF S3Listed, S3Csv!Exists, S3Csv!Record
  <2>6. S3Saved'
    BY <1>4, <2>1, <2>3, <2>4 DEF S3Saved, S3TypeOK, S3Csv!Exists, S3Csv!Record
  <2>7. QED
    BY <2>3, <2>5, <2>6
<1>5. CASE S3Csv!Done /\ bookmarks' = bookmarks \cup {saved'}
  <2>1. /\ pc = "files" /\ s3_files = {} /\ pc' = "idle" /\ state' = saved'
        /\ emitted' = emitted \cup {} /\ loaded' = emitted' /\ saved' = state
        /\ UNCHANGED <<item, now, updates, s3_files>>
    BY <1>5 DEF S3Csv!Done, S3Csv!RecordsAndLastState, S3Csv!Exit, S3Csv!service
  <2>2. QED
    BY <1>5, <2>1 DEF S3TypeOK, S3Past, S3Saved, S3Listed, S3Csv!Exists, S3Csv!Record
<1>6. CASE S3Csv!Die /\ s3_files' = {} /\ bookmarks' = bookmarks \cup {saved'}
  BY <1>6 DEF S3Csv!Die, S3Csv!Lost, S3Csv!Exit, S3Csv!service, S3TypeOK, S3Past, S3Saved, S3Listed, S3Csv!Exists, S3Csv!Record
<1>7. CASE UNCHANGED S3Csv!s3CsvVars
  BY <1>7 DEF S3Csv!s3CsvVars, S3Csv!apiTapVars, S3Csv!service, S3Csv!pipe, S3TypeOK, S3Past, S3Saved, S3Listed, S3Csv!Exists, S3Csv!Record
<1>8. QED
  BY <1>1, <1>2, <1>3, <1>4, <1>5, <1>6, <1>7 DEF S3Csv!Next, S3Csv!Actions

\* What the saved bookmark passes is at a time the bookmark has had.
LEMMA S3Implies == S3Inv => S3Csv!S3CsvSkipsTiesAlone
BY DEF S3Inv, S3TypeOK, S3Saved, S3Csv!S3CsvSkipsTiesAlone, S3Csv!Skipped, S3Csv!Reads

-----------------------------------------------------------------------------
(* tap-mixpanel: events by windows of days                                 *)

\* Types of the state of tap-mixpanel.
MixTypeOK ==
    /\ item \in [Items -> [ver : Nat, at : Nat]]
    /\ now \in Nat /\ now >= 1 /\ updates \in Nat
    /\ state \in Nat /\ saved \in Nat
    /\ now_datetime \in Nat /\ last_datetime \in Nat
    /\ window \in Nat \X Nat
    /\ loaded \subseteq emitted
    /\ pc \in {"idle", "request", "process", "end"}

\* No bookmark, window or event is in the future.
MixPast ==
    /\ saved <= now /\ state <= now
    /\ \A i \in Items : item[i].at <= now
    /\ pc = "idle" => state = saved
    /\ pc # "idle" => state >= 1

\* The bookmark is that of the start of the run, or of an earlier window.
MixWindow ==
    pc \in {"request", "process"} =>
        /\ 1 <= last_datetime /\ last_datetime <= state
        /\ window[1] <= window[2] /\ window[2] <= now_datetime /\ now_datetime <= now

\* An event that came in time, is not a year old and was not cut off.
MixTimely(i) == /\ Mixpanel!Exists(i) /\ i \notin late /\ i \notin cut
                /\ now <= item[i].at + Mixpanel!Days(MaxDays)

\* No timely event that is not loaded is behind the saved bookmark.
MixSaved ==
    \A i \in Items : MixTimely(i) /\ Mixpanel!Record(i) \notin loaded => item[i].at >= Mixpanel!get_bookmark(saved)

\* What is not written yet is not behind the bookmark in memory nor the window.
MixRead ==
    pc # "idle" =>
        \A i \in Items : MixTimely(i) /\ Mixpanel!Record(i) \notin emitted =>
            /\ item[i].at >= state
            /\ pc \in {"request", "process"} => Mixpanel!DayOf(item[i].at) >= Mixpanel!DayOf(window[1])

\* The response has it, or it is of the last day of the window or a later one, and
\* not older than what the response has.
MixData ==
    pc = "process" =>
        /\ \A i \in data : i \in Items /\ Mixpanel!Exists(i)
        /\ \A i \in Items : MixTimely(i) /\ Mixpanel!Record(i) \notin emitted /\ i \notin data =>
              /\ Mixpanel!DayOf(item[i].at) >= Mixpanel!DayOf(window[2])
              /\ \A j \in data : item[j].at <= item[i].at

\* The invariant of tap-mixpanel.
MixInv == MixTypeOK /\ MixPast /\ MixWindow /\ MixSaved /\ MixRead /\ MixData

\* A project without events has none to skip.
LEMMA MixInit == Mixpanel!Init => MixInv
BY DEF Mixpanel!Init, Mixpanel!ApiInit, MixInv, MixTypeOK, MixPast, MixWindow, MixSaved, MixRead, MixData, MixTimely,
       Mixpanel!Exists, Mixpanel!get_bookmark, Mixpanel!start_date

\* A day has DayLength units of the clock.
LEMMA DayBounds ==
    ASSUME NEW t \in Nat
    PROVE  /\ Mixpanel!DayOf(t) \in Nat
           /\ Mixpanel!Days(Mixpanel!DayOf(t)) <= t /\ t < Mixpanel!Days(Mixpanel!DayOf(t)) + DayLength
<1>1. DayLength \in Nat \ {0}
  BY TapsAssumption
<1>2. t \div DayLength \in Nat /\ DayLength * (t \div DayLength) <= t
      /\ t < DayLength * (t \div DayLength) + DayLength
  BY <1>1
<1>3. (t \div DayLength) * DayLength = DayLength * (t \div DayLength)
  BY <1>1, <1>2
<1>4. QED
  BY <1>2, <1>3 DEF Mixpanel!DayOf, Mixpanel!Days

\* Days are in the order of their times.
LEMMA DaysInOrder ==
    ASSUME NEW t \in Nat, NEW u \in Nat
    PROVE  /\ Mixpanel!DayOf(t) < Mixpanel!DayOf(u) => t < u
           /\ u < t + DayLength => Mixpanel!DayOf(u) <= Mixpanel!DayOf(t) + 1
<1> DEFINE p == t \div DayLength
           q == u \div DayLength
<1>1. DayLength \in Nat \ {0}
  BY TapsAssumption
<1>2. /\ p \in Nat /\ DayLength * p <= t /\ t < DayLength * p + DayLength
      /\ q \in Nat /\ DayLength * q <= u /\ u < DayLength * q + DayLength
  BY <1>1
<1> HIDE DEF p, q
<1>3. ASSUME p + 1 <= q PROVE DayLength * p + DayLength <= DayLength * q
  BY <1>1, <1>2, <1>3
<1>4. p < q => t < u
  <2>1. SUFFICES ASSUME p + 1 <= q PROVE t < u
    BY <1>2
  <2>2. DayLength * p \in Nat /\ DayLength * q \in Nat
    BY <1>1, <1>2
  <2>3. QED
    BY <1>1, <1>2, <1>3, <2>1, <2>2
<1>5. ASSUME p + 2 <= q PROVE DayLength * p + DayLength + DayLength <= DayLength * q
  BY <1>1, <1>2, <1>5
<1>6. u < t + DayLength => q <= p + 1
  <2>1. SUFFICES ASSUME p + 2 <= q PROVE ~(u < t + DayLength)
    BY <1>2
  <2>2. DayLength * p \in Nat /\ DayLength * q \in Nat
    BY <1>1, <1>2
  <2>3. QED
    BY <1>1, <1>2, <1>5, <2>1, <2>2
<1>7. QED
  BY <1>4, <1>6 DEF Mixpanel!DayOf, p, q

\* More days are a longer time.
LEMMA DaysLonger ==
    ASSUME NEW m \in Nat, NEW n \in Nat
    PROVE  Mixpanel!Days(m) \in Nat /\ (m <= n => Mixpanel!Days(m) <= Mixpanel!Days(n))
<1>1. DayLength \in Nat
  BY TapsAssumption
<1>2. m * DayLength \in Nat /\ (m <= n => m * DayLength <= n * DayLength)
  BY <1>1
<1>3. QED
  BY <1>2 DEF Mixpanel!Days

\* A run begins not later than now, and less than a day after its bookmark or, at
\* the floor of a year, MaxDays ago.
LEMMA FirstWindowBounds ==
    ASSUME NEW b \in Nat, now \in Nat, b <= now
    PROVE  LET f == Mixpanel!FirstWindow(b)
           IN  /\ f \in Nat /\ f <= now
               /\ \/ f < b + DayLength
                  \/ f = Mixpanel!DaysAgo(MaxDays)
<1> DEFINE d == Mixpanel!DayOf(now - b)
           f == Mixpanel!FirstWindow(b)
<1>1. d \in Nat /\ Mixpanel!Days(d) <= now - b /\ now - b < Mixpanel!Days(d) + DayLength
  <2>1. now - b \in Nat
    OBVIOUS
  <2>2. QED
    BY <2>1, DayBounds
<1>2. attribution_window \in Nat /\ MaxDays \in Nat /\ DayLength \in Nat \ {0}
  BY TapsAssumption
<1>3. f = Mixpanel!DaysAgo(IF d <= attribution_window THEN attribution_window ELSE Mixpanel!Earlier(d, MaxDays))
  BY DEF Mixpanel!FirstWindow
<1> HIDE DEF d, f
<1>4. \A n \in Nat : Mixpanel!DaysAgo(n) \in Nat /\ Mixpanel!DaysAgo(n) <= now
  BY DaysLonger DEF Mixpanel!DaysAgo
<1>5. ASSUME NEW n \in Nat, d <= n PROVE Mixpanel!DaysAgo(n) < b + DayLength
  <2>1. Mixpanel!Days(d) <= Mixpanel!Days(n) /\ Mixpanel!Days(d) \in Nat /\ Mixpanel!Days(n) \in Nat
    BY <1>1, <1>5, DaysLonger
  <2>2. QED
    BY <1>1, <1>2, <2>1 DEF Mixpanel!DaysAgo
<1>6. CASE d <= attribution_window
  <2>1. f = Mixpanel!DaysAgo(attribution_window)
    BY <1>3, <1>6
  <2>2. QED
    BY <1>2, <1>4, <1>5, <1>6, <2>1 DEF f
<1>7. CASE ~(d <= attribution_window) /\ d <= MaxDays
  <2>1. f = Mixpanel!DaysAgo(d)
    BY <1>3, <1>7 DEF Mixpanel!Earlier
  <2>2. QED
    BY <1>1, <1>4, <1>5, <2>1 DEF f
<1>8. CASE ~(d <= attribution_window) /\ ~(d <= MaxDays)
  <2>1. f = Mixpanel!DaysAgo(MaxDays)
    BY <1>3, <1>8 DEF Mixpanel!Earlier
  <2>2. QED
    BY <1>2, <1>4, <2>1 DEF f
<1>9. QED
  BY <1>6, <1>7, <1>8

\* What a run would keep, but is of a day before its first window, and not a year
\* old, is of the day of the bookmark.
LEMMA MixCutOff ==
    ASSUME MixInv, Mixpanel!get_bookmark(saved) <= now, NEW i \in Items, Mixpanel!Exists(i),
           now <= item[i].at + Mixpanel!Days(MaxDays),
           Mixpanel!Kept(i, Mixpanel!get_bookmark(saved)),
           Mixpanel!DayOf(item[i].at) < Mixpanel!DayOf(Mixpanel!FirstWindow(Mixpanel!get_bookmark(saved)))
    PROVE  i \in Mixpanel!CutOff(Mixpanel!get_bookmark(saved))
<1> DEFINE b == Mixpanel!get_bookmark(saved)
           t == item[i].at
           f == Mixpanel!FirstWindow(b)
<1>1. b \in Nat /\ now \in Nat /\ t \in Nat /\ t <= now
  BY DEF MixInv, MixTypeOK, MixPast, Mixpanel!get_bookmark, Mixpanel!start_date
<1>2. b <= t /\ b <= now /\ now <= t + Mixpanel!Days(MaxDays) /\ Mixpanel!DayOf(t) < Mixpanel!DayOf(f)
  BY DEF Mixpanel!Kept
<1> HIDE DEF b, t
<1>3. f \in Nat /\ f <= now /\ (f < b + DayLength \/ f = Mixpanel!DaysAgo(MaxDays))
  BY <1>1, <1>2, FirstWindowBounds
<1> HIDE DEF f
<1>4. t < f
  BY <1>1, <1>2, <1>3, DaysInOrder
<1>5. Mixpanel!DaysAgo(MaxDays) <= t
  <2>1. Mixpanel!Days(MaxDays) \in Nat
    BY TapsAssumption, DaysLonger
  <2>2. QED
    BY <1>1, <1>2, <2>1 DEF Mixpanel!DaysAgo
<1>6. f < b + DayLength
  <2>1. SUFFICES ASSUME f = Mixpanel!DaysAgo(MaxDays) PROVE FALSE
    BY <1>3
  <2>2. QED
    BY <1>1, <1>3, <1>4, <1>5, <2>1
<1>7. Mixpanel!DayOf(f) <= Mixpanel!DayOf(b) + 1
  BY <1>1, <1>3, <1>6, DaysInOrder
<1>8. Mixpanel!DayOf(b) <= Mixpanel!DayOf(t)
  <2>1. ~(Mixpanel!DayOf(t) < Mixpanel!DayOf(b))
    BY <1>1, <1>2, DaysInOrder
  <2>2. Mixpanel!DayOf(t) \in Nat /\ Mixpanel!DayOf(b) \in Nat
    BY <1>1, DayBounds
  <2>3. QED
    BY <2>1, <2>2
<1>9. Mixpanel!DayOf(t) = Mixpanel!DayOf(b)
  <2>1. Mixpanel!DayOf(t) \in Nat /\ Mixpanel!DayOf(b) \in Nat /\ Mixpanel!DayOf(f) \in Nat
    BY <1>1, <1>3, DayBounds
  <2>2. QED
    BY <1>2, <1>7, <1>8, <2>1
<1>10. QED
  BY <1>2, <1>9 DEF Mixpanel!CutOff, b, t, f

\* Events that arrive, windows, responses, the end of a run and a death keep it.
LEMMA MixStep == MixInv /\ [Mixpanel!Next]_(Mixpanel!mixpanelVars) => MixInv'
<1> SUFFICES ASSUME MixInv, [Mixpanel!Next]_(Mixpanel!mixpanelVars) PROVE MixInv'
  OBVIOUS
<1> USE DEF MixInv
<1>1. ASSUME NEW i \in Items, NEW t \in 1..MaxTime, Mixpanel!Arrive(i, t) PROVE MixInv'
  <2>1. /\ item' = [item EXCEPT ![i] = [ver |-> updates + 1, at |-> t]] /\ updates' = updates + 1
        /\ ~Mixpanel!Exists(i) /\ t <= now /\ late' = IF t < now THEN late \cup {i} ELSE late
        /\ UNCHANGED <<now, pc, state, saved, loaded, emitted, now_datetime, last_datetime, window, data, cut>>
    BY <1>1 DEF Mixpanel!Arrive, Mixpanel!pipe, Mixpanel!reading
  <2>2. t \in Nat /\ item'[i] = [ver |-> updates + 1, at |-> t]
        /\ \A j \in Items \ {i} : item'[j] = item[j]
    BY <2>1, TapsAssumption DEF MixTypeOK
  <2>3. MixTypeOK' /\ MixPast' /\ MixWindow'
    BY <2>1, <2>2 DEF MixTypeOK, MixPast, MixWindow
  <2>4. ASSUME NEW j \in Items, MixTimely(j)'
        PROVE  \/ j # i /\ MixTimely(j) /\ item'[j] = item[j] /\ Mixpanel!Record(j)' = Mixpanel!Record(j)
               \/ j = i /\ item'[j].at = now
    <3>1. CASE j = i
      BY <2>1, <2>2, <2>4, <3>1 DEF MixTimely, MixTypeOK
    <3>2. CASE j # i
      BY <2>1, <2>2, <2>4, <3>2 DEF MixTimely, Mixpanel!Exists, Mixpanel!Record
    <3>3. QED
      BY <3>1, <3>2
  <2>5. MixSaved'
    BY <2>1, <2>4 DEF MixSaved, MixTypeOK, MixPast, Mixpanel!get_bookmark, Mixpanel!start_date
  <2>0. /\ now \in Nat /\ window[1] \in Nat /\ window[2] \in Nat
        /\ pc \in {"request", "process"} => /\ Mixpanel!DayOf(now) >= Mixpanel!DayOf(window[1])
                                           /\ Mixpanel!DayOf(now) >= Mixpanel!DayOf(window[2])
    <3>1. now \in Nat /\ window[1] \in Nat /\ window[2] \in Nat
      BY DEF MixTypeOK
    <3>2. pc \in {"request", "process"} => window[1] <= now /\ window[2] <= now
      BY <3>1 DEF MixWindow, MixTypeOK
    <3>3. /\ Mixpanel!DayOf(now) \in Nat /\ Mixpanel!DayOf(window[1]) \in Nat /\ Mixpanel!DayOf(window[2]) \in Nat
          /\ Mixpanel!DayOf(now) < Mixpanel!DayOf(window[1]) => now < window[1]
          /\ Mixpanel!DayOf(now) < Mixpanel!DayOf(window[2]) => now < window[2]
      BY <3>1, DayBounds, DaysInOrder
    <3>4. QED
      BY <3>1, <3>2, <3>3
  <2>6. MixRead'
    <3>1. SUFFICES ASSUME pc # "idle", NEW j \in Items, MixTimely(j)', Mixpanel!Record(j)' \notin emitted
                   PROVE  /\ item'[j].at >= state
                          /\ pc \in {"request", "process"} => Mixpanel!DayOf(item'[j].at) >= Mixpanel!DayOf(window[1])
      BY <2>1 DEF MixRead, Mixpanel!DayOf
    <3>2. CASE j # i /\ MixTimely(j) /\ item'[j] = item[j] /\ Mixpanel!Record(j)' = Mixpanel!Record(j)
      BY <3>1, <3>2 DEF MixRead
    <3>3. CASE item'[j].at = now
      BY <2>0, <3>3 DEF MixPast, MixTypeOK
    <3>4. QED
      BY <2>4, <3>1, <3>2, <3>3
  <2>7. MixData'
    <3>1. SUFFICES ASSUME pc = "process" PROVE MixData'
      BY <2>1 DEF MixData
    <3>2. \A j \in data : j \in Items /\ Mixpanel!Exists(j) /\ j # i /\ item'[j] = item[j] /\ Mixpanel!Exists(j)'
      <4>1. \A j \in data : j \in Items /\ Mixpanel!Exists(j)
        BY <3>1 DEF MixData
      <4>2. \A j \in data : j # i
        BY <2>1, <4>1
      <4>3. \A j \in data : item'[j] = item[j]
        BY <2>2, <4>1, <4>2
      <4>4. QED
        BY <4>1, <4>2, <4>3 DEF Mixpanel!Exists
    <3>3. ASSUME NEW j \in Items, MixTimely(j)', Mixpanel!Record(j)' \notin emitted, j \notin data
          PROVE  /\ Mixpanel!DayOf(item'[j].at) >= Mixpanel!DayOf(window[2])
                 /\ \A k \in data : item'[k].at <= item'[j].at
      <4>1. CASE j # i /\ MixTimely(j) /\ item'[j] = item[j] /\ Mixpanel!Record(j)' = Mixpanel!Record(j)
        <5>1. /\ Mixpanel!DayOf(item[j].at) >= Mixpanel!DayOf(window[2])
              /\ \A k \in data : item[k].at <= item[j].at
          BY <3>1, <3>3, <4>1 DEF MixData
        <5>2. QED
          BY <3>2, <4>1, <5>1
      <4>2. CASE item'[j].at = now
        <5>1. \A k \in data : item[k].at <= now
          BY <3>2 DEF MixPast
        <5>2. QED
          BY <2>0, <3>1, <3>2, <4>2, <5>1
      <4>3. QED
        BY <2>4, <3>3, <4>1, <4>2
    <3>4. QED
      BY <2>1, <3>1, <3>2, <3>3 DEF MixData, Mixpanel!DayOf
  <2>8. QED
    BY <2>3, <2>5, <2>6, <2>7
<1>2. CASE Mixpanel!Tick /\ UNCHANGED <<Mixpanel!reading, late, cut>>
  <2>1. /\ now' = now + 1
        /\ UNCHANGED <<item, updates, pc, state, saved, loaded, emitted, now_datetime, last_datetime,
                       window, data, late, cut>>
    BY <1>2 DEF Mixpanel!Tick, Mixpanel!reading, Mixpanel!pipe
  <2>2. MixTypeOK' /\ MixPast' /\ MixWindow'
    BY <2>1 DEF MixTypeOK, MixPast, MixWindow
  <2>3. \A i \in Items : (MixTimely(i)' => MixTimely(i)) /\ Mixpanel!Record(i)' = Mixpanel!Record(i) /\ Mixpanel!Exists(i)' = Mixpanel!Exists(i)
    <3>1. Mixpanel!Days(MaxDays) \in Nat
      BY TapsAssumption, DaysLonger
    <3>2. QED
      BY <2>1, <3>1 DEF MixTimely, Mixpanel!Exists, Mixpanel!Record, MixTypeOK
  <2>4. MixSaved' /\ MixRead' /\ MixData'
    BY <2>1, <2>3 DEF MixSaved, MixRead, MixData, Mixpanel!get_bookmark, Mixpanel!DayOf
  <2>5. QED
    BY <2>2, <2>4
<1>3. CASE Mixpanel!sync
  <2>1. /\ pc = "idle" /\ pc' \in {"request", "end"}
        /\ last_datetime' = Mixpanel!get_bookmark(saved) /\ state' = last_datetime'
        /\ now_datetime' = now
        /\ window' = <<Mixpanel!FirstWindow(last_datetime'),
                       Mixpanel!Earlier(Mixpanel!FirstWindow(last_datetime') + Mixpanel!Days(days_interval), now)>>
        /\ cut' = cut \cup Mixpanel!CutOff(last_datetime')
        /\ UNCHANGED <<item, now, updates, saved, loaded, emitted, late>>
    BY <1>3 DEF Mixpanel!sync, Mixpanel!service, Mixpanel!pipe
  <2>2. Mixpanel!get_bookmark(saved) \in Nat /\ Mixpanel!get_bookmark(saved) >= 1 /\ Mixpanel!get_bookmark(saved) <= now
    BY DEF Mixpanel!get_bookmark, Mixpanel!start_date, MixTypeOK, MixPast
  <2>3. Mixpanel!FirstWindow(last_datetime') \in Nat /\ Mixpanel!FirstWindow(last_datetime') <= now
    BY <2>1, <2>2, FirstWindowBounds DEF MixTypeOK
  <2>4. Mixpanel!FirstWindow(last_datetime') <= window'[2] /\ window'[2] <= now /\ window' \in Nat \X Nat
        /\ window'[1] = Mixpanel!FirstWindow(last_datetime')
    <3>1. Mixpanel!Days(days_interval) \in Nat
      BY TapsAssumption, DaysLonger
    <3>2. QED
      BY <2>1, <2>3, <3>1 DEF Mixpanel!Earlier, MixTypeOK
  <2>5. MixTypeOK' /\ MixPast' /\ MixWindow'
    BY <2>1, <2>2, <2>4 DEF MixTypeOK, MixPast, MixWindow
  <2>6. \A i \in Items : /\ MixTimely(i)' => MixTimely(i) /\ i \notin Mixpanel!CutOff(Mixpanel!get_bookmark(saved))
                        /\ Mixpanel!Record(i)' = Mixpanel!Record(i)
    BY <2>1 DEF MixTimely, Mixpanel!Exists, Mixpanel!Record
  <2>7. ASSUME NEW i \in Items, MixTimely(i)', Mixpanel!Record(i) \notin emitted
        PROVE  /\ item[i].at >= Mixpanel!get_bookmark(saved)
               /\ Mixpanel!DayOf(item[i].at) >= Mixpanel!DayOf(Mixpanel!FirstWindow(Mixpanel!get_bookmark(saved)))
    <3>1. MixTimely(i) /\ i \notin Mixpanel!CutOff(Mixpanel!get_bookmark(saved))
      BY <2>6, <2>7
    <3>2. item[i].at >= Mixpanel!get_bookmark(saved)
      BY <2>7, <3>1 DEF MixSaved, MixTypeOK
    <3>3. item[i].at \in Nat /\ now <= item[i].at + Mixpanel!Days(MaxDays) /\ Mixpanel!Exists(i)
      BY <3>1 DEF MixTimely, MixTypeOK
    <3>4. ~(Mixpanel!DayOf(item[i].at) < Mixpanel!DayOf(Mixpanel!FirstWindow(Mixpanel!get_bookmark(saved))))
      BY <2>2, <3>1, <3>2, <3>3, MixCutOff DEF Mixpanel!Kept
    <3>5. /\ Mixpanel!DayOf(item[i].at) \in Nat
          /\ Mixpanel!DayOf(Mixpanel!FirstWindow(Mixpanel!get_bookmark(saved))) \in Nat
      BY <2>1, <2>3, <3>3, DayBounds
    <3>6. QED
      BY <3>2, <3>4, <3>5
  <2>8. MixSaved'
    BY <2>1, <2>6 DEF MixSaved, Mixpanel!get_bookmark
  <2>9. MixRead'
    BY <2>1, <2>4, <2>6, <2>7 DEF MixRead, Mixpanel!DayOf
  <2>10. QED
    BY <2>1, <2>5, <2>8, <2>9 DEF MixData
<1>4. CASE Mixpanel!Request
  <2>1. /\ pc = "request" /\ pc' = "process"
        /\ data' = {i \in Items : /\ Mixpanel!Exists(i)
                                  /\ Mixpanel!DayOf(item[i].at) \in Mixpanel!DayOf(window[1])..Mixpanel!DayOf(window[2])}
        /\ UNCHANGED <<item, now, updates, state, saved, loaded, emitted, now_datetime, last_datetime,
                       window, late, cut>>
    BY <1>4 DEF Mixpanel!Request, Mixpanel!service, Mixpanel!pipe
  <2>2. MixTypeOK' /\ MixPast' /\ MixWindow'
    BY <2>1 DEF MixTypeOK, MixPast, MixWindow
  <2>3. \A i \in Items : MixTimely(i)' = MixTimely(i) /\ Mixpanel!Record(i)' = Mixpanel!Record(i) /\ Mixpanel!Exists(i)' = Mixpanel!Exists(i)
    BY <2>1 DEF MixTimely, Mixpanel!Exists, Mixpanel!Record
  <2>4. MixSaved' /\ MixRead'
    BY <2>1, <2>3 DEF MixSaved, MixRead, Mixpanel!get_bookmark, Mixpanel!DayOf
  <2>5. ASSUME NEW i \in Items, MixTimely(i), Mixpanel!Record(i) \notin emitted, i \notin data'
        PROVE  /\ Mixpanel!DayOf(item[i].at) >= Mixpanel!DayOf(window[2])
               /\ \A j \in data' : item[j].at <= item[i].at
    <3>1. /\ item[i].at \in Nat /\ window[1] \in Nat /\ window[2] \in Nat
          /\ Mixpanel!DayOf(item[i].at) \in Nat /\ Mixpanel!DayOf(window[1]) \in Nat /\ Mixpanel!DayOf(window[2]) \in Nat
      BY DayBounds DEF MixTypeOK
    <3>2. Mixpanel!DayOf(item[i].at) >= Mixpanel!DayOf(window[1])
      BY <2>1, <2>5 DEF MixRead
    <3>3. Mixpanel!DayOf(item[i].at) > Mixpanel!DayOf(window[2])
      BY <2>1, <2>5, <3>1, <3>2 DEF MixTimely
    <3>4. ASSUME NEW j \in data' PROVE item[j].at <= item[i].at
      <4>1. j \in Items /\ Mixpanel!DayOf(item[j].at) <= Mixpanel!DayOf(window[2])
        BY <2>1, <3>1, <3>4
      <4>2. item[j].at \in Nat
        BY <4>1 DEF MixTypeOK
      <4>3. Mixpanel!DayOf(item[j].at) \in Nat
        BY <4>2, DayBounds
      <4>4. Mixpanel!DayOf(item[j].at) < Mixpanel!DayOf(item[i].at)
        BY <3>1, <3>3, <4>1, <4>3
      <4>5. QED
        BY <3>1, <4>2, <4>4, DaysInOrder
    <3>5. QED
      BY <3>1, <3>3, <3>4
  <2>6. MixData'
    BY <2>1, <2>3, <2>5 DEF MixData, Mixpanel!DayOf
  <2>7. QED
    BY <2>2, <2>4, <2>6
<1>5. CASE Mixpanel!ProcessWindow
  <2> DEFINE T == {item[i].at : i \in data} \cup {state}
  <2>1. /\ pc = "process" /\ pc' \in {"request", "end"}
        /\ state' = Mixpanel!Largest(T)
        /\ emitted' = emitted \cup {Mixpanel!Record(i) : i \in {j \in data : Mixpanel!Kept(j, last_datetime)}}
        /\ (loaded' = emitted' /\ saved' = state') \/ UNCHANGED <<loaded, saved>>
        /\ window' = <<window[2], Mixpanel!Earlier(window[2] + Mixpanel!Days(days_interval), now_datetime)>>
        /\ UNCHANGED <<item, now, updates, now_datetime, last_datetime, late, cut>>
    BY <1>5 DEF Mixpanel!ProcessWindow, Mixpanel!RecordsAndState, Mixpanel!service
  <2>2. /\ \A i \in data : i \in Items /\ Mixpanel!Exists(i) /\ item[i].at \in Nat
        /\ window[1] \in Nat /\ window[2] \in Nat /\ 1 <= last_datetime /\ last_datetime <= state
        /\ window[1] <= window[2] /\ window[2] <= now_datetime /\ now_datetime <= now
    BY <2>1 DEF MixData, MixWindow, MixTypeOK
  <2>3. T \subseteq Nat /\ T # {} /\ \A x \in T : x <= now
    BY <2>2 DEF MixTypeOK, MixPast
  <2>4. state' \in T /\ \A y \in T : y <= state'
    <3> HIDE DEF T
    <3>0. now \in Nat
      BY DEF MixTypeOK
    <3>1. \E x \in T : \A y \in T : y <= x
      BY <2>3, <3>0, LargestExists
    <3>2. QED
      BY <2>1, <3>1 DEF Mixpanel!Largest
  <2>5. state' \in Nat /\ state <= state' /\ state' <= now
    BY <2>3, <2>4
  <2>6. window'[1] = window[2] /\ window' \in Nat \X Nat /\ window'[1] <= window'[2] /\ window'[2] <= now_datetime
    <3>1. Mixpanel!Days(days_interval) \in Nat
      BY TapsAssumption, DaysLonger
    <3>2. QED
      BY <2>1, <2>2, <3>1 DEF Mixpanel!Earlier, MixTypeOK
  <2>7. MixTypeOK' /\ MixPast' /\ MixWindow'
    BY <2>1, <2>2, <2>5, <2>6 DEF MixTypeOK, MixPast, MixWindow
  <2>8. \A i \in Items : MixTimely(i)' = MixTimely(i) /\ Mixpanel!Record(i)' = Mixpanel!Record(i)
    BY <2>1 DEF MixTimely, Mixpanel!Exists, Mixpanel!Record
  <2>9. ASSUME NEW i \in Items, MixTimely(i), Mixpanel!Record(i) \notin emitted'
        PROVE  item[i].at >= state' /\ Mixpanel!DayOf(item[i].at) >= Mixpanel!DayOf(window[2])
    <3>1. Mixpanel!Record(i) \notin emitted /\ item[i].at >= state
      BY <2>1, <2>9 DEF MixRead
    <3>2. item[i].at \in Nat /\ last_datetime <= item[i].at
      BY <2>2, <3>1 DEF MixTypeOK
    <3>3. i \notin data
      BY <2>1, <2>9, <3>2 DEF Mixpanel!Kept
    <3>4. /\ Mixpanel!DayOf(item[i].at) >= Mixpanel!DayOf(window[2])
          /\ \A j \in data : item[j].at <= item[i].at
      BY <2>1, <2>9, <3>1, <3>3 DEF MixData
    <3>5. \A x \in T : x <= item[i].at
      BY <3>1, <3>4
    <3>6. QED
      BY <2>4, <3>2, <3>4, <3>5
  <2> HIDE DEF T
  <2>10. MixRead' /\ MixData'
    BY <2>1, <2>6, <2>8, <2>9 DEF MixRead, MixData, Mixpanel!DayOf
  <2>11. MixSaved'
    <3>1. CASE loaded' = emitted' /\ saved' = state'
      <4>1. Mixpanel!get_bookmark(saved') = state'
        BY <2>2, <2>5, <3>1 DEF Mixpanel!get_bookmark, MixTypeOK
      <4>2. QED
        BY <2>1, <2>8, <2>9, <3>1, <4>1 DEF MixSaved, Mixpanel!get_bookmark
    <3>2. CASE UNCHANGED <<loaded, saved>>
      BY <2>1, <2>8, <3>2 DEF MixSaved, Mixpanel!get_bookmark
    <3>3. QED
      BY <2>1, <3>1, <3>2
  <2>12. QED
    BY <2>7, <2>10, <2>11
<1>6. CASE Mixpanel!Finish
  <2>1. /\ pc = "end" /\ emitted' = emitted \cup {} /\ loaded' = emitted' /\ saved' = state
        /\ pc' = "idle" /\ state' = saved'
        /\ now_datetime' = 0 /\ last_datetime' = 0 /\ window' = <<0, 0>> /\ UNCHANGED <<item, now, updates, late, cut>>
    BY <1>6 DEF Mixpanel!Finish, Mixpanel!RecordsAndLastState, Mixpanel!Exit, Mixpanel!Stopped, Mixpanel!service
  <2>2. MixTypeOK' /\ MixPast' /\ MixWindow' /\ MixRead' /\ MixData'
    BY <2>1 DEF MixTypeOK, MixPast, MixWindow, MixRead, MixData
  <2>3. Mixpanel!get_bookmark(saved') = state
    BY <2>1 DEF Mixpanel!get_bookmark, MixTypeOK, MixPast
  <2>4. \A i \in Items : MixTimely(i)' = MixTimely(i) /\ Mixpanel!Record(i)' = Mixpanel!Record(i)
    BY <2>1 DEF MixTimely, Mixpanel!Exists, Mixpanel!Record
  <2>5. MixSaved'
    BY <2>1, <2>3, <2>4 DEF MixSaved, MixRead, Mixpanel!get_bookmark
  <2>6. QED
    BY <2>2, <2>5
<1>7. CASE Mixpanel!Die /\ Mixpanel!Stopped /\ UNCHANGED <<late, cut>>
  <2>1. /\ emitted' = loaded /\ pc' = "idle" /\ state' = saved'
        /\ now_datetime' = 0 /\ last_datetime' = 0 /\ window' = <<0, 0>>
        /\ UNCHANGED <<item, now, updates, late, cut, loaded, saved>>
    BY <1>7 DEF Mixpanel!Die, Mixpanel!Lost, Mixpanel!Exit, Mixpanel!Stopped, Mixpanel!service
  <2>2. MixTypeOK' /\ MixPast' /\ MixWindow' /\ MixRead' /\ MixData'
    BY <2>1 DEF MixTypeOK, MixPast, MixWindow, MixRead, MixData
  <2>3. MixSaved'
    BY <2>1 DEF MixSaved, Mixpanel!get_bookmark, MixTimely, Mixpanel!Exists, Mixpanel!Record
  <2>4. QED
    BY <2>2, <2>3
<1>8. CASE UNCHANGED Mixpanel!mixpanelVars
  BY <1>8 DEF Mixpanel!mixpanelVars, Mixpanel!apiTapVars, Mixpanel!service, Mixpanel!pipe, MixTypeOK, MixPast, MixWindow, MixSaved,
              MixRead, MixData, MixTimely, Mixpanel!Exists, Mixpanel!Record, Mixpanel!get_bookmark, Mixpanel!DayOf
<1>9. QED
  BY <1>1, <1>2, <1>3, <1>4, <1>5, <1>6, <1>7, <1>8 DEF Mixpanel!Next

\* A timely event that is not loaded is read by a run that starts now, or is cut off.
LEMMA MixImplies == MixInv => Mixpanel!MixpanelSkipsNothingElse
<1> SUFFICES ASSUME MixInv, NEW i \in Items, Mixpanel!Exists(i), Mixpanel!Record(i) \notin loaded, ~Mixpanel!Reads(i),
                    i \notin late, ~(item[i].at + Mixpanel!Days(MaxDays) < now),
                    i \notin cut, i \notin Mixpanel!CutOff(Mixpanel!get_bookmark(saved))
             PROVE  FALSE
  BY DEF Mixpanel!MixpanelSkipsNothingElse, Mixpanel!Skipped
<1>1. item[i].at \in Nat /\ now \in Nat /\ Mixpanel!Days(MaxDays) \in Nat
  BY TapsAssumption, DaysLonger DEF MixInv, MixTypeOK
<1>2. now <= item[i].at + Mixpanel!Days(MaxDays)
  BY <1>1
<1>3. item[i].at >= Mixpanel!get_bookmark(saved)
  BY <1>1, <1>2 DEF MixInv, MixSaved, MixTimely
<1>4. Mixpanel!get_bookmark(saved) \in Nat /\ Mixpanel!get_bookmark(saved) <= now
  BY DEF Mixpanel!get_bookmark, Mixpanel!start_date, MixInv, MixTypeOK, MixPast
<1>5. Mixpanel!FirstWindow(Mixpanel!get_bookmark(saved)) \in Nat
  BY <1>1, <1>4, FirstWindowBounds
<1>6. ~(Mixpanel!DayOf(item[i].at) >= Mixpanel!DayOf(Mixpanel!FirstWindow(Mixpanel!get_bookmark(saved))))
  BY <1>3 DEF Mixpanel!Reads, Mixpanel!Kept
<1>7. /\ Mixpanel!DayOf(item[i].at) \in Nat
      /\ Mixpanel!DayOf(Mixpanel!FirstWindow(Mixpanel!get_bookmark(saved))) \in Nat
  BY <1>1, <1>5, DayBounds
<1>8. Mixpanel!DayOf(item[i].at) < Mixpanel!DayOf(Mixpanel!FirstWindow(Mixpanel!get_bookmark(saved)))
  BY <1>6, <1>7
<1>9. QED
  BY <1>2, <1>3, <1>4, <1>8, MixCutOff DEF Mixpanel!Kept

-----------------------------------------------------------------------------
(* tap-github: pages of a listing                                          *)

\* Types of the state of tap-github.
GhTypeOK ==
    /\ item \in [Items -> [ver : Nat, at : Nat]]
    /\ now \in Nat /\ now >= 1 /\ updates \in Nat
    /\ state \in Nat /\ saved \in Nat /\ page \in Nat
    /\ loaded \subseteq emitted
    /\ sync_func \in Github!SYNC_FUNCTIONS
    /\ pc \in {"idle", "pages", "end"}

\* No bookmark or change is in the future; a run starts with the saved bookmark.
GhPast ==
    /\ saved <= now /\ state <= now
    /\ \A i \in Items : item[i].at <= now
    /\ pc # "idle" => since = saved
    /\ pc = "pages" => page >= 1

\* The functions whose bookmark leaves something out, but for those that end at
\* an old object in a listing by creation.
GhTracked == sync_func.selects \/ (sync_func.returns /\ sync_func.sort = "updated")

\* What is behind the saved bookmark is loaded.
GhSaved == GhTracked =>
    \A i \in Items : Github!Exists(i) /\ i \notin disturbed /\ Github!Record(i) \notin loaded => item[i].at >= saved

\* What is not written yet is on a page to come; when the pages are read there
\* is none.
GhPages == GhTracked /\ pc # "idle" =>
    \A i \in Items : Github!Exists(i) /\ i \notin disturbed /\ Github!Record(i) \notin emitted =>
        pc = "pages" /\ (page - 1) * PageSize <= Cardinality(Github!Before(i))

\* The invariant of tap-github.
GhInv == GhTypeOK /\ GhPast /\ GhSaved /\ GhPages

\* A sync function has the service select by the bookmark, or stops at an older object,
\* not both.
LEMMA GhFunctions ==
    ASSUME sync_func \in Github!SYNC_FUNCTIONS
    PROVE  /\ sync_func.selects \in BOOLEAN /\ sync_func.returns \in BOOLEAN
           /\ sync_func.sort \in {"updated", "created", "asc"}
           /\ sync_func.selects => ~sync_func.returns
<1>1. \A s \in {"updated", "created", "asc"}, b \in BOOLEAN, r \in BOOLEAN :
         /\ Github!Reader(s, b, r).sort = s /\ Github!Reader(s, b, r).selects = b /\ Github!Reader(s, b, r).returns = r
  BY DEF Github!Reader
<1>2. CASE sync_func = Github!Reader("updated", FALSE, TRUE)
  BY <1>1, <1>2
<1>3. CASE sync_func = Github!Reader("created", FALSE, TRUE)
  BY <1>1, <1>3
<1>4. CASE sync_func = Github!Reader("created", TRUE, FALSE)
  BY <1>1, <1>4
<1>5. CASE sync_func = Github!Reader("asc", TRUE, FALSE)
  BY <1>1, <1>5
<1>6. CASE sync_func = Github!Reader("created", FALSE, FALSE)
  BY <1>1, <1>6
<1>7. QED
  BY <1>2, <1>3, <1>4, <1>5, <1>6
     DEF Github!SYNC_FUNCTIONS, Github!get_all_commits, Github!get_all_comments, Github!get_all_issues, Github!get_all_assignees,
         Github!get_all_collaborators, Github!get_all_pull_requests, Github!get_all_releases, Github!get_all_stargazers,
         Github!get_all_events, Github!get_all_issue_events, Github!get_all_issue_labels, Github!get_all_projects,
         Github!get_all_commit_comments, Github!get_all_teams

\* A listing has one order, and a place for each of its objects.
LEMMA GhOrder ==
    ASSUME GhTypeOK, NEW i \in Items, NEW j \in Items, NEW k \in Items
    PROVE  /\ i = j \/ Github!Precedes(i, j) \/ Github!Precedes(j, i)
           /\ Github!Precedes(i, j) /\ Github!Precedes(j, k) => Github!Precedes(i, k)
           /\ ~Github!Precedes(i, i)
<1>1. /\ i \in Nat /\ j \in Nat /\ k \in Nat
      /\ item[i].at \in Nat /\ item[j].at \in Nat /\ item[k].at \in Nat
  BY TapsAssumption DEF GhTypeOK
<1>2. CASE sync_func.sort = "asc"
  BY <1>1, <1>2 DEF Github!Precedes, Github!Earlier
<1>3. CASE sync_func.sort = "updated"
  BY <1>1, <1>3 DEF Github!Precedes, Github!Earlier
<1>4. CASE sync_func.sort # "asc" /\ sync_func.sort # "updated"
  BY <1>1, <1>4 DEF Github!Precedes
<1>5. QED
  BY <1>2, <1>3, <1>4

\* The places of a listing: each object has one, below the number of objects, and they
\* follow its order.
LEMMA GhPlaces ==
    ASSUME GhTypeOK
    PROVE  /\ Github!Listing \subseteq Items /\ IsFiniteSet(Github!Listing) /\ Cardinality(Github!Listing) \in Nat
           /\ \A i \in Items : IsFiniteSet(Github!Before(i)) /\ Cardinality(Github!Before(i)) \in Nat
           /\ \A i \in Github!Listing : Cardinality(Github!Before(i)) < Cardinality(Github!Listing)
           /\ \A i, j \in Github!Listing : Cardinality(Github!Before(j)) < Cardinality(Github!Before(i)) => Github!Precedes(j, i)
<1>1. Github!Listing \subseteq Items
  BY DEF Github!Listing, Github!Present
<1>2. IsFiniteSet(Github!Listing) /\ Cardinality(Github!Listing) \in Nat
  BY <1>1, FS_Subset, FS_CardinalityType, TapsAssumption
<1>3. \A i \in Items : Github!Before(i) \subseteq Github!Listing /\ IsFiniteSet(Github!Before(i)) /\ Cardinality(Github!Before(i)) \in Nat
  <2>1. \A i \in Items : Github!Before(i) \subseteq Github!Listing
    BY DEF Github!Before
  <2>2. QED
    BY <1>2, <2>1, FS_Subset, FS_CardinalityType
<1>4. ASSUME NEW i \in Github!Listing PROVE Cardinality(Github!Before(i)) < Cardinality(Github!Listing)
  <2>1. Github!Before(i) \subseteq Github!Listing \ {i}
    BY <1>1, GhOrder DEF Github!Before
  <2>2. IsFiniteSet(Github!Listing \ {i}) /\ Cardinality(Github!Listing \ {i}) = Cardinality(Github!Listing) - 1
    BY <1>2, FS_RemoveElement
  <2>3. Cardinality(Github!Before(i)) <= Cardinality(Github!Listing \ {i})
    BY <2>1, <2>2, FS_Subset
  <2>4. QED
    BY <1>1, <1>2, <1>3, <2>2, <2>3
<1>5. ASSUME NEW i \in Github!Listing, NEW j \in Github!Listing, Cardinality(Github!Before(j)) < Cardinality(Github!Before(i))
      PROVE  Github!Precedes(j, i)
  <2>1. i \in Items /\ j \in Items
    BY <1>1
  <2>2. CASE i = j
    BY <1>3, <1>5, <2>1, <2>2
  <2>3. CASE Github!Precedes(i, j)
    <3>1. Github!Before(i) \subseteq Github!Before(j)
      BY <1>1, <2>1, <2>3, GhOrder DEF Github!Before
    <3>2. Cardinality(Github!Before(i)) <= Cardinality(Github!Before(j))
      BY <1>3, <2>1, <3>1, FS_Subset
    <3>3. QED
      BY <1>3, <1>5, <2>1, <3>2
  <2>4. QED
    BY <2>1, <2>2, <2>3, GhOrder
<1>6. QED
  BY <1>1, <1>2, <1>3, <1>4, <1>5

\* An organisation without objects has none to skip.
LEMMA GhInit == Github!Init => GhInv
BY DEF Github!Init, Github!ApiInit, GhInv, GhTypeOK, GhPast, GhSaved, GhPages, Github!Exists

\* Changes, pages, the end of a stream and a death keep it: an object that does not
\* change while a run reads keeps its place or moves to a page to come.
LEMMA GhStep == GhInv /\ [Github!Next]_(Github!githubVars) => GhInv'
<1> SUFFICES ASSUME GhInv, [Github!Next]_(Github!githubVars) PROVE GhInv'
  OBVIOUS
<1> USE DEF GhInv
<1>0. /\ sync_func.selects \in BOOLEAN /\ sync_func.returns \in BOOLEAN
      /\ sync_func.sort \in {"updated", "created", "asc"}
      /\ sync_func.selects => ~sync_func.returns
  BY GhFunctions DEF GhTypeOK
<1>1. ASSUME NEW i \in Items, Github!Update(i) PROVE GhInv'
  <2>1. /\ item' = [item EXCEPT ![i] = [ver |-> updates + 1, at |-> now]] /\ updates' = updates + 1
        /\ UNCHANGED <<now, pc, state, saved, loaded, emitted, sync_func, since, page>>
    BY <1>1 DEF Github!Update, Github!Change, Github!scan, Github!pipe
  <2>2. /\ pc # "idle" => i \in disturbed' /\ disturbed \subseteq disturbed'
                          /\ (sync_func.sort = "asc" => Items \subseteq disturbed')
        /\ disturbed \subseteq disturbed' \cup {i}
    BY <1>1 DEF Github!Update, Github!Change
  <2>3. /\ item'[i] = [ver |-> updates + 1, at |-> now] /\ item'[i].at = now /\ Github!Exists(i)'
        /\ \A j \in Items \ {i} : item'[j] = item[j]
    BY <2>1 DEF GhTypeOK, Github!Exists
  <2>4. GhTypeOK'
    BY <2>1, <2>3 DEF GhTypeOK
  <2>5. GhPast'
    BY <2>1, <2>3 DEF GhTypeOK, GhPast
  <2>6. \A j \in Items \ {i} : Github!Exists(j)' = Github!Exists(j) /\ Github!Record(j)' = Github!Record(j)
    BY <2>3 DEF Github!Exists, Github!Record
  <2>7. GhSaved'
    BY <2>1, <2>2, <2>3, <2>6 DEF GhSaved, GhPast, GhTracked
  <2>8. GhPages'
    <3>1. SUFFICES ASSUME GhTracked, pc # "idle", NEW j \in Items, Github!Exists(j)', j \notin disturbed',
                          Github!Record(j)' \notin emitted
                   PROVE  pc = "pages" /\ (page - 1) * PageSize <= Cardinality(Github!Before(j)')
      BY <2>1 DEF GhPages, GhTracked
    <3>2. j # i /\ j \notin disturbed /\ Github!Exists(j) /\ Github!Record(j) \notin emitted /\ sync_func.sort # "asc"
      BY <2>2, <2>6, <3>1
    <3>3. pc = "pages" /\ (page - 1) * PageSize <= Cardinality(Github!Before(j))
      BY <3>1, <3>2 DEF GhPages
    <3>4. Github!Listing \subseteq Github!Listing'
      <4>1. since \in Nat /\ since <= now /\ \A k \in Items : item[k].at <= now
        BY <3>1 DEF GhPast, GhTypeOK
      <4>2. ASSUME NEW k \in Github!Listing PROVE k \in Github!Listing'
        <5>1. k \in Items /\ Github!Exists(k) /\ (sync_func.selects => ~Github!Older(k, since))
          BY DEF Github!Listing, Github!Present
        <5>2. CASE k = i
          <6>1. ~(now < since)
            BY <4>1 DEF GhTypeOK
          <6>2. QED
            BY <2>1, <2>3, <5>1, <5>2, <6>1 DEF Github!Listing, Github!Present, Github!Older
        <5>3. CASE k # i
          BY <2>1, <2>3, <2>6, <5>1, <5>3 DEF Github!Listing, Github!Present, Github!Older
        <5>4. QED
          BY <5>2, <5>3
      <4>3. QED
        BY <4>2
    <3>5. ASSUME NEW k \in Items, Github!Precedes(k, j) PROVE Github!Precedes(k, j)'
      <4>1. /\ k \in Nat /\ j \in Nat /\ item[k].at \in Nat /\ item[j].at \in Nat
            /\ item[k].at <= now /\ item[j].at <= now /\ now \in Nat
        BY TapsAssumption DEF GhTypeOK, GhPast
      <4>2. item'[j] = item[j] /\ (item'[k] = item[k] \/ item'[k].at = now) /\ sync_func' = sync_func
        BY <2>1, <2>3, <3>2
      <4>3. CASE sync_func.sort = "updated"
        BY <3>5, <4>1, <4>2, <4>3 DEF Github!Precedes, Github!Earlier
      <4>4. CASE sync_func.sort # "updated"
        BY <3>2, <3>5, <4>2, <4>4 DEF Github!Precedes
      <4>5. QED
        BY <4>3, <4>4
    <3>6. Github!Before(j) \subseteq Github!Before(j)'
      BY <3>4, <3>5, GhPlaces DEF Github!Before
    <3>7. IsFiniteSet(Github!Before(j)') /\ Cardinality(Github!Before(j)') \in Nat
      <4>1. Github!Listing' \subseteq Items
        BY DEF Github!Listing, Github!Present
      <4>2. Github!Before(j)' \subseteq Items
        BY <4>1 DEF Github!Before
      <4>3. QED
        BY <4>2, FS_Subset, FS_CardinalityType, TapsAssumption
    <3>8. Cardinality(Github!Before(j)) <= Cardinality(Github!Before(j)') /\ Cardinality(Github!Before(j)) \in Nat
      BY <3>6, <3>7, FS_Subset, FS_CardinalityType
    <3>9. (page - 1) * PageSize \in Int
      BY TapsAssumption DEF GhTypeOK
    <3>10. QED
      BY <3>3, <3>7, <3>8, <3>9
  <2>9. QED
    BY <2>4, <2>5, <2>7, <2>8
<1>2. CASE Github!Tick /\ UNCHANGED <<sync_func, Github!scan>>
  <2>1. /\ now' = now + 1
        /\ UNCHANGED <<item, updates, disturbed, pc, state, saved, loaded, emitted, sync_func, since, page>>
    BY <1>2 DEF Github!Tick, Github!scan, Github!pipe
  <2>2. GhTypeOK' /\ GhPast'
    BY <2>1 DEF GhTypeOK, GhPast
  <2>3. GhSaved'
    BY <2>1 DEF GhSaved, GhTracked, Github!Exists, Github!Record
  <2>4. GhPages'
    BY <2>1 DEF GhPages, GhTracked, Github!Exists, Github!Record, Github!Before, Github!Listing, Github!Present, Github!Older, Github!Precedes, Github!Earlier
  <2>5. QED
    BY <2>2, <2>3, <2>4
<1>3. CASE Github!do_sync
  <2>1. /\ pc = "idle" /\ pc' = "pages" /\ state' = saved /\ since' = saved /\ page' = 1
        /\ emitted' = emitted \cup {} /\ saved' = saved /\ loaded' \in {emitted', loaded}
        /\ UNCHANGED <<item, now, updates, disturbed, sync_func>>
    BY <1>3 DEF Github!do_sync, Github!RecordsAndState, Github!service
  <2>2. GhTypeOK' /\ GhPast'
    BY <2>1 DEF GhTypeOK, GhPast
  <2>3. GhSaved'
    BY <2>1 DEF GhSaved, GhTypeOK, GhTracked, Github!Exists, Github!Record
  <2>4. \A i \in Items : Cardinality(Github!Before(i)') \in Nat
    <3>1. \A i \in Items : Github!Before(i)' \subseteq Items
      BY DEF Github!Before, Github!Listing, Github!Present
    <3>2. QED
      BY <3>1, FS_Subset, FS_CardinalityType, TapsAssumption
  <2>5. (page' - 1) * PageSize = 0
    BY <2>1, TapsAssumption
  <2>6. GhPages'
    BY <2>1, <2>4, <2>5 DEF GhPages
  <2>7. QED
    BY <2>2, <2>3, <2>6
<1>4. CASE Github!ReadPage
  <2> DEFINE from == (page - 1) * PageSize
             here == {i \in Github!Listing : /\ from <= Cardinality(Github!Before(i))
                                      /\ Cardinality(Github!Before(i)) < from + PageSize}
             fresh == {i \in here : sync_func.returns =>
                                       \A j \in here : j = i \/ Github!Precedes(j, i) => ~Github!Older(j, since)}
  <2>1. /\ pc = "pages" /\ emitted' = emitted \cup {Github!Record(i) : i \in fresh}
        /\ state' \in {state, now}
        /\ \/ fresh = here /\ page' = page + 1 /\ pc' = "pages"
           \/ /\ ~(fresh = here /\ from + PageSize < Cardinality(Github!Listing))
              /\ page' = page /\ pc' = "end"
        /\ UNCHANGED <<item, now, updates, disturbed, saved, loaded, sync_func, since>>
    BY <1>4, Counts DEF Github!ReadPage, Github!Records, Github!service
  <2>2. GhTypeOK' /\ GhPast'
    BY <2>1 DEF GhTypeOK, GhPast
  <2>3. GhSaved'
    BY <2>1 DEF GhSaved, GhTracked, Github!Exists, Github!Record
  <2>4. \A i \in Items : Github!Exists(i)' = Github!Exists(i) /\ Github!Record(i)' = Github!Record(i) /\ Github!Before(i)' = Github!Before(i)
    BY <2>1 DEF Github!Exists, Github!Record, Github!Before, Github!Listing, Github!Present, Github!Older, Github!Precedes, Github!Earlier
  <2>5. from \in Nat /\ PageSize \in Nat \ {0} /\ (page + 1 - 1) * PageSize = from + PageSize
    <3>1. page \in Nat /\ page >= 1 /\ PageSize \in Nat \ {0}
      BY <2>1, TapsAssumption DEF GhTypeOK, GhPast
    <3>2. \A p, n \in Nat : p >= 1 => (p - 1) * n \in Nat /\ (p + 1 - 1) * n = (p - 1) * n + n
      OBVIOUS
    <3>3. QED
      BY <3>1, <3>2
  <2> HIDE DEF from
  <2>6. ASSUME GhTracked, NEW i \in Items, Github!Exists(i), i \notin disturbed, Github!Record(i) \notin emitted'
        PROVE  /\ i \in Github!Listing /\ i \notin fresh /\ from <= Cardinality(Github!Before(i))
               /\ Cardinality(Github!Before(i)) \in Nat /\ ~Github!Older(i, since)
    <3>1. Github!Record(i) \notin emitted /\ i \notin fresh
      BY <2>1, <2>6
    <3>2. from <= Cardinality(Github!Before(i))
      BY <2>1, <2>6, <3>1 DEF GhPages, from
    <3>3. item[i].at >= since
      BY <2>1, <2>6, <3>1 DEF GhSaved, GhPast, GhTypeOK
    <3>4. ~Github!Older(i, since)
      BY <2>1, <3>3 DEF Github!Older, GhTypeOK, GhPast
    <3>5. QED
      BY <2>6, <3>1, <3>2, <3>4, GhPlaces DEF Github!Listing, Github!Present
  <2>7. ASSUME GhTracked, fresh # here, NEW i \in Items, Github!Exists(i), i \notin disturbed, Github!Record(i) \notin emitted'
        PROVE  FALSE
    <3>1. PICK k \in here : k \notin fresh
      BY <2>7
    <3>2. PICK j \in here : Github!Older(j, since)
      BY <3>1
    <3>3. sync_func.sort = "updated"
      BY <1>0, <2>7, <3>1 DEF GhTracked
    <3>4. j \in Github!Listing /\ j \in Items /\ i \in Github!Listing /\ ~Github!Older(i, since)
      BY <2>6, <2>7, <3>2, GhPlaces
    <3>5. ASSUME NEW m \in Items, Github!Precedes(m, i) PROVE ~Github!Older(m, since)
      <4>1. item[i].at \in Nat /\ item[m].at \in Nat /\ since \in Nat
        BY <2>1 DEF GhTypeOK, GhPast
      <4>2. QED
        BY <3>3, <3>4, <3>5, <4>1 DEF Github!Precedes, Github!Earlier, Github!Older
    <3>6. i \notin here
      <4>1. SUFFICES ASSUME i \in here PROVE FALSE
        OBVIOUS
      <4>2. PICK m \in here : (m = i \/ Github!Precedes(m, i)) /\ Github!Older(m, since)
        BY <2>6, <2>7, <4>1
      <4>3. m \in Items
        BY GhPlaces
      <4>4. QED
        BY <3>4, <3>5, <4>2, <4>3
    <3>7. ~(Cardinality(Github!Before(i)) < from + PageSize) /\ Cardinality(Github!Before(i)) \in Nat
      BY <2>6, <2>7, <3>4, <3>6
    <3>8. Cardinality(Github!Before(j)) < from + PageSize /\ Cardinality(Github!Before(j)) \in Nat
      BY <3>2, <3>4, GhPlaces
    <3>9. Github!Precedes(j, i)
      BY <2>5, <3>4, <3>7, <3>8, GhPlaces
    <3>10. QED
      BY <3>2, <3>4, <3>5, <3>9
  <2>8. ASSUME GhTracked, fresh = here, NEW i \in Items, Github!Exists(i), i \notin disturbed, Github!Record(i) \notin emitted'
        PROVE  from + PageSize <= Cardinality(Github!Before(i)) /\ Cardinality(Github!Before(i)) < Cardinality(Github!Listing)
    <3>1. i \in Github!Listing /\ i \notin here /\ from <= Cardinality(Github!Before(i)) /\ Cardinality(Github!Before(i)) \in Nat
      BY <2>6, <2>8
    <3>2. ~(Cardinality(Github!Before(i)) < from + PageSize)
      BY <3>1
    <3>3. QED
      BY <2>5, <3>1, <3>2, GhPlaces
  <2> HIDE DEF fresh, here
  <2>9. GhPages'
    <3>1. SUFFICES ASSUME GhTracked, NEW i \in Items, Github!Exists(i), i \notin disturbed, Github!Record(i) \notin emitted'
                   PROVE  pc' = "pages" /\ (page' - 1) * PageSize <= Cardinality(Github!Before(i))
      BY <2>1, <2>4 DEF GhPages, GhTracked
    <3>2. fresh = here
      BY <2>7, <3>1
    <3>3. from + PageSize <= Cardinality(Github!Before(i)) /\ Cardinality(Github!Before(i)) < Cardinality(Github!Listing)
      BY <2>8, <3>1, <3>2
    <3>4. Cardinality(Github!Before(i)) \in Nat /\ Cardinality(Github!Listing) \in Nat
      BY GhPlaces
    <3>5. from + PageSize < Cardinality(Github!Listing)
      BY <2>5, <3>3, <3>4
    <3>6. page' = page + 1 /\ pc' = "pages"
      BY <2>1, <3>2, <3>5
    <3>7. page \in Nat /\ PageSize \in Nat
      BY TapsAssumption DEF GhInv, GhTypeOK
    <3>8. (page' - 1) * PageSize = from + PageSize
      <4>1. page' - 1 = (page - 1) + 1
        BY <3>6, <3>7
      <4>2. page - 1 \in Int
        BY <3>7
      <4>3. \A a \in Int, b \in Nat : (a + 1) * b = a * b + b
        OBVIOUS
      <4>4. QED
        BY <2>5, <3>7, <4>1, <4>2, <4>3
    <3>9. QED
      BY <3>3, <3>6, <3>8
  <2>10. QED
    BY <2>2, <2>3, <2>9
<1>5. CASE Github!EndStream
  <2>1. /\ pc = "end" /\ pc' = "idle" /\ emitted' = emitted \cup {} /\ loaded' = emitted' /\ saved' = state
        /\ state' = saved' /\ since' = 0 /\ page' = 0
        /\ UNCHANGED <<item, now, updates, disturbed, sync_func>>
    BY <1>5 DEF Github!EndStream, Github!RecordsAndLastState, Github!Exit, Github!NoScan, Github!service
  <2>2. GhTypeOK' /\ GhPast'
    BY <2>1 DEF GhTypeOK, GhPast
  <2>3. GhSaved' /\ GhPages'
    BY <2>1 DEF GhSaved, GhPages, GhTracked, Github!Exists, Github!Record
  <2>4. QED
    BY <2>2, <2>3
<1>6. CASE Github!Die /\ Github!NoScan /\ UNCHANGED sync_func
  <2>1. /\ pc' = "idle" /\ emitted' = loaded /\ state' = saved' /\ since' = 0 /\ page' = 0
        /\ UNCHANGED <<item, now, updates, disturbed, saved, loaded, sync_func>>
    BY <1>6 DEF Github!Die, Github!Lost, Github!Exit, Github!NoScan, Github!service
  <2>2. GhTypeOK' /\ GhPast'
    BY <2>1 DEF GhTypeOK, GhPast
  <2>3. GhSaved' /\ GhPages'
    BY <2>1 DEF GhSaved, GhPages, GhTracked, Github!Exists, Github!Record
  <2>4. QED
    BY <2>2, <2>3
<1>7. CASE UNCHANGED Github!githubVars
  <2>1. UNCHANGED <<item, now, updates, disturbed, pc, state, saved, loaded, emitted, sync_func, since, page>>
    BY <1>7 DEF Github!githubVars, Github!apiTapVars, Github!service, Github!pipe
  <2>2. GhTypeOK' /\ GhPast'
    BY <2>1 DEF GhTypeOK, GhPast
  <2>3. GhSaved'
    BY <2>1 DEF GhSaved, GhTracked, Github!Exists, Github!Record
  <2>4. GhPages'
    BY <2>1 DEF GhPages, GhTracked, Github!Exists, Github!Record, Github!Before, Github!Listing, Github!Present, Github!Older, Github!Precedes, Github!Earlier
  <2>5. QED
    BY <2>2, <2>3, <2>4
<1>8. QED
  BY <1>1, <1>2, <1>3, <1>4, <1>5, <1>6, <1>7 DEF Github!Next

\* What the saved bookmark passes changed while a run was reading.
LEMMA GhImplies == GhInv => Github!GithubSkipsNothing
<1>1. SUFFICES ASSUME GhInv, ~(sync_func.returns /\ sync_func.sort = "created"),
                      NEW i \in Items, Github!Exists(i), Github!Record(i) \notin loaded, ~Github!Reads(i), i \notin disturbed
               PROVE  FALSE
  BY DEF Github!GithubSkipsNothing, Github!Skipped
<1>2. /\ sync_func.selects \in BOOLEAN /\ sync_func.returns \in BOOLEAN
      /\ sync_func.sort \in {"updated", "created", "asc"}
  BY <1>1, GhFunctions DEF GhInv, GhTypeOK
<1>3. Github!Older(i, saved) /\ (sync_func.selects \/ sync_func.returns)
  BY <1>1 DEF Github!Reads
<1>4. CASE GhTracked
  BY <1>1, <1>3, <1>4 DEF GhInv, GhSaved, GhTypeOK, Github!Older
<1>5. CASE ~GhTracked
  <2>1. sync_func.returns /\ sync_func.sort = "asc" /\ ~sync_func.selects
    BY <1>1, <1>2, <1>3, <1>5 DEF GhTracked
  <2>2. QED
    BY <1>1, <2>1 DEF GhInv, GhTypeOK, Github!SYNC_FUNCTIONS, Github!Reader, Github!get_all_commits, Github!get_all_comments,
       Github!get_all_issues, Github!get_all_assignees, Github!get_all_collaborators, Github!get_all_pull_requests,
       Github!get_all_releases, Github!get_all_stargazers, Github!get_all_events, Github!get_all_issue_events,
       Github!get_all_issue_labels, Github!get_all_projects, Github!get_all_commit_comments, Github!get_all_teams
<1>6. QED
  BY <1>4, <1>5

-----------------------------------------------------------------------------
(* tap-slack: messages by windows of dates, users by pages                 *)

\* The first entries of a list, and of one read from its end, leave out what
\* comes after them, and are none only where the list is empty.
LEMMA ListPages ==
    ASSUME NEW R, R \subseteq Nat, IsFiniteSet(R), NEW n \in Nat \ {0}
    PROVE  /\ LET up == {i \in R : Cardinality({j \in R : j < i}) < n}
              IN  (R # {} => up # {}) /\ \A i \in R \ up, j \in up : j < i
           /\ LET down == {i \in R : Cardinality({j \in R : j > i}) < n}
              IN  (R # {} => down # {}) /\ \A i \in R \ down, j \in down : i < j
<1> DEFINE f == [i \in R |-> i]
           up == {i \in R : Cardinality({j \in R : j < i}) < n}
           After(i) == {j \in R : j > i}
           down == {i \in R : Cardinality({j \in R : j > i}) < n}
<1>1. /\ f \in [R -> Nat] /\ \A i \in R : f[i] = i
      /\ \A i \in R : {j \in R : f[j] < f[i]} = {j \in R : j < i}
  OBVIOUS
<1>2. up = PageOf(R, f, n)
  BY <1>1 DEF PageOf
<1>3. (R # {} => up # {}) /\ \A i \in R \ up, j \in up : j < i
  <2>1. up \subseteq R
    OBVIOUS
  <2> HIDE DEF f, up
  <2>2. QED
    BY <1>1, <1>2, <2>1, PageIsFirst
<1>4. \A i \in R : After(i) \subseteq R /\ IsFiniteSet(After(i)) /\ Cardinality(After(i)) \in Nat
  <2>1. \A i \in R : After(i) \subseteq R
    OBVIOUS
  <2>2. QED
    BY <2>1, FS_Subset, FS_CardinalityType
<1>5. ASSUME NEW i \in R \ down, NEW j \in down PROVE i < j
  <2>1. i \in Nat /\ j \in Nat /\ i \in R /\ j \in R
    OBVIOUS
  <2>2. CASE j <= i
    <3>1. After(i) \subseteq After(j)
      <4>1. SUFFICES ASSUME NEW k \in R, k > i PROVE k > j
        OBVIOUS
      <4>2. k \in Nat
        OBVIOUS
      <4>3. QED
        BY <2>1, <2>2, <4>1, <4>2
    <3>2. Cardinality(After(i)) <= Cardinality(After(j))
      BY <1>4, <2>1, <3>1, FS_Subset
    <3>3. Cardinality(After(j)) < n
      OBVIOUS
    <3>4. Cardinality(After(i)) < n
      BY <1>4, <2>1, <3>2, <3>3
    <3>5. QED
      BY <2>1, <3>4
  <2>3. QED
    BY <2>1, <2>2
<1>6. ASSUME R # {} PROVE down # {}
  <2>1. PICK x \in R : \A y \in R : y <= x
    BY <1>6, FiniteLargest
  <2>2. After(x) = {}
    <3>1. ASSUME NEW y \in R PROVE ~(y > x)
      <4>1. x \in Nat /\ y \in Nat /\ y <= x
        BY <2>1
      <4>2. QED
        BY <4>1
    <3>2. QED
      BY <3>1
  <2>3. Cardinality(After(x)) < n
    BY <2>2, FS_EmptySet
  <2>4. QED
    BY <2>3
<1>7. QED
  BY <1>3, <1>5, <1>6

\* Types of the state of tap-slack.
SlackTypeOK ==
    /\ item \in [Items -> [ver : Nat, at : Nat]]
    /\ now \in Nat /\ now >= 1 /\ updates \in Nat
    /\ state \in Nat /\ saved \in Nat /\ bookmark \in Nat /\ cursor \in Nat /\ end \in Nat
    /\ window \in Nat \X Nat
    /\ loaded \subseteq emitted
    /\ stream \in Slack!AVAILABLE_STREAMS
    /\ pc \in {"idle", "pages", "end"}

\* No bookmark or change is in the future; a window has its length, and what is
\* read is of the windows up to this one.
SlackPast ==
    /\ saved <= now /\ state <= now /\ bookmark <= now
    /\ \A i \in Items : item[i].at <= now /\ (Slack!Exists(i) => item[i].at >= 1)
    /\ pc # "pages" => cursor = 0
    /\ window[2] <= window[1] + date_window_size
    /\ stream.reads = "windows" /\ pc = "pages" => state <= window[2]
    /\ stream.reads = "users" /\ pc # "idle" => bookmark = saved

\* What is behind the saved bookmark is loaded, or left to the window that a
\* run reads.
SlackSaved ==
    \A i \in Items : Slack!Exists(i) /\ i \notin disturbed /\ Slack!Record(i) \notin loaded =>
        /\ stream.reads = "windows" /\ item[i].at < Slack!BookmarkOf(saved)
               => pc # "idle" /\ saved <= item[i].at + date_window_size
        /\ stream.reads = "users" => item[i].at > saved

\* What a run has left behind is written: the windows before this one, the
\* messages of this one from the newest back to the cursor, and, between two
\* windows, whatever is older than the bookmark.
SlackWindows ==
    stream.reads = "windows" /\ pc # "idle" =>
        \A i \in Items : Slack!Exists(i) /\ i \notin disturbed /\ Slack!Record(i) \notin emitted =>
            /\ item[i].at >= window[1]
            /\ cursor # 0 /\ item[i].at <= window[2] => i < cursor
            /\ cursor = 0 => item[i].at >= Slack!BookmarkOf(bookmark)

\* Users are written in the order of the list.
SlackUsers ==
    stream.reads = "users" /\ pc # "idle" =>
        \A i \in Items : Slack!Exists(i) /\ i \notin disturbed /\ Slack!Record(i) \notin emitted =>
            i > cursor /\ pc = "pages"

\* The invariant of tap-slack.
SlackInv == SlackTypeOK /\ SlackPast /\ SlackSaved /\ SlackWindows /\ SlackUsers

\* How the classes of tap-slack read.
LEMMA SlackStreams ==
    ASSUME stream \in Slack!AVAILABLE_STREAMS
    PROVE  /\ stream.reads \in {"windows", "users", "all"}
           /\ stream.refused => stream.reads = "windows"
BY DEF Slack!AVAILABLE_STREAMS, Slack!Reader, Slack!ConversationHistoryStream, Slack!FilesStream, Slack!RemoteFilesStream,
       Slack!UsersStream, Slack!ConversationsStream, Slack!ConversationMembersStream, Slack!UserGroupsStream, Slack!TeamsStream

\* get_absolute_date_range never starts after the bookmark.
LEMMA SlackStart ==
    ASSUME NEW date \in Nat, now \in Nat, date <= now, lookback_window \in Nat
    PROVE  Slack!StartOf(date) \in Nat /\ Slack!StartOf(date) <= date
BY DEF Slack!StartOf, Slack!Max2

\* A workspace without messages has none to lose.
LEMMA SlackInit == Slack!Init => SlackInv
BY TapsAssumption DEF Slack!Init, Slack!ApiInit, SlackInv, SlackTypeOK, SlackPast, SlackSaved, SlackWindows, SlackUsers,
   Slack!Exists, Slack!NoWindow, Slack!AtStart

\* Messages, windows, pages, refused channels, the end of a run and a death keep it.
LEMMA SlackStep == SlackInv /\ [Slack!Next]_(Slack!slackVars) => SlackInv'
<1> SUFFICES ASSUME SlackInv, [Slack!Next]_(Slack!slackVars) PROVE SlackInv'
  OBVIOUS
<1> USE DEF SlackInv
<1>0. /\ stream.reads \in {"windows", "users", "all"}
      /\ stream.refused => stream.reads = "windows"
      /\ Slack!BookmarkOf(saved) \in Nat /\ 1 <= Slack!BookmarkOf(saved) /\ Slack!BookmarkOf(saved) <= now
  BY SlackStreams DEF Slack!BookmarkOf, Slack!start_date, SlackTypeOK, SlackPast
<1>1. ASSUME NEW i \in Items, Slack!Update(i) PROVE SlackInv'
  <2>1. /\ item' = [item EXCEPT ![i] = [ver |-> updates + 1, at |-> now]] /\ updates' = updates + 1
        /\ stream.reads = "windows" => ~Slack!Exists(i)
        /\ UNCHANGED <<now, pc, state, saved, loaded, emitted, stream, end, bookmark, window, cursor>>
    BY <1>1 DEF Slack!Update, Slack!Change, Slack!reading, Slack!pipe
  <2>2. /\ pc # "idle" => disturbed' = disturbed \cup {i} \cup
                                       IF stream.reads = "users" /\ now = saved THEN {i} ELSE {}
        /\ pc = "idle" => disturbed' = (disturbed \ {i}) \cup
                                       IF stream.reads = "users" /\ now = saved THEN {i} ELSE {}
    BY <1>1 DEF Slack!Update, Slack!Change
  <2>3. /\ item'[i] = [ver |-> updates + 1, at |-> now]
        /\ \A j \in Items \ {i} : item'[j] = item[j]
    BY <2>1 DEF SlackTypeOK
  <2>4. SlackTypeOK' /\ SlackPast'
    BY <2>1, <2>3 DEF SlackTypeOK, SlackPast, Slack!Exists
  <2>5. ASSUME NEW j \in Items, j \notin disturbed', Slack!Exists(j)'
        PROVE  /\ j # i => j \notin disturbed /\ Slack!Exists(j) /\ item'[j] = item[j] /\ Slack!Record(j)' = Slack!Record(j)
               /\ j = i => pc = "idle" /\ item'[j].at = now /\ ~(stream.reads = "users" /\ now = saved)
    BY <2>2, <2>3, <2>5 DEF Slack!Exists, Slack!Record
  <2>6. SlackSaved'
    BY <1>0, <2>1, <2>5 DEF SlackSaved, SlackTypeOK, SlackPast, Slack!BookmarkOf
  <2>7. SlackWindows' /\ SlackUsers'
    BY <2>1, <2>5 DEF SlackWindows, SlackUsers, Slack!BookmarkOf
  <2>8. QED
    BY <2>4, <2>6, <2>7
<1>2. CASE Slack!Tick /\ UNCHANGED <<stream, Slack!reading>>
  <2>1. /\ now' = now + 1
        /\ UNCHANGED <<item, updates, disturbed, pc, state, saved, loaded, emitted, stream, end, bookmark, window, cursor>>
    BY <1>2 DEF Slack!Tick, Slack!reading, Slack!pipe
  <2>2. SlackTypeOK' /\ SlackPast'
    BY <2>1 DEF SlackTypeOK, SlackPast, Slack!Exists
  <2>3. SlackSaved' /\ SlackWindows' /\ SlackUsers'
    BY <2>1 DEF SlackSaved, SlackWindows, SlackUsers, Slack!BookmarkOf, Slack!Exists, Slack!Record
  <2>4. QED
    BY <2>2, <2>3
<1>3. CASE Slack!sync
  <2>1. /\ pc = "idle" /\ pc' = "pages" /\ bookmark' = saved /\ cursor' = 0
        /\ UNCHANGED <<item, now, updates, disturbed, saved, loaded, emitted, stream>>
        /\ stream.reads = "windows" => /\ state' = Slack!StartOf(Slack!BookmarkOf(saved)) /\ end' = now
                                       /\ window' = <<state', state' + date_window_size>>
        /\ stream.reads # "windows" => state' = saved /\ UNCHANGED <<end, window>>
    BY <1>3 DEF Slack!sync, Slack!service, Slack!pipe, Slack!AtStart
  <2>2. Slack!StartOf(Slack!BookmarkOf(saved)) \in Nat /\ Slack!StartOf(Slack!BookmarkOf(saved)) <= Slack!BookmarkOf(saved)
    BY <1>0, SlackStart, TapsAssumption DEF SlackTypeOK
  <2>3. /\ state' \in Nat /\ state' <= now /\ end' \in Nat /\ window' \in Nat \X Nat
        /\ window'[2] <= window'[1] + date_window_size
        /\ stream.reads = "windows" => state' <= window'[2] /\ window'[1] <= Slack!BookmarkOf(saved)
    BY <1>0, <2>1, <2>2, TapsAssumption DEF SlackTypeOK, SlackPast
  <2>4. SlackTypeOK'
    BY <2>1, <2>3 DEF SlackTypeOK
  <2>5. SlackPast'
    BY <2>1, <2>3 DEF SlackTypeOK, SlackPast, Slack!Exists
  <2>6. SlackSaved'
    BY <2>1 DEF SlackSaved, Slack!BookmarkOf, Slack!Exists, Slack!Record
  <2>7. Slack!BookmarkOf(bookmark') = Slack!BookmarkOf(saved)
    BY <2>1 DEF Slack!BookmarkOf
  <2>8. SlackWindows'
    <3>1. SUFFICES ASSUME stream.reads = "windows", NEW i \in Items, Slack!Exists(i), i \notin disturbed,
                          Slack!Record(i) \notin emitted
                   PROVE  item[i].at >= window'[1] /\ item[i].at >= Slack!BookmarkOf(bookmark')
      BY <2>1 DEF SlackWindows, Slack!Exists, Slack!Record, Slack!BookmarkOf
    <3>2. ~(item[i].at < Slack!BookmarkOf(saved)) /\ item[i].at \in Nat
      BY <2>1, <3>1 DEF SlackSaved, SlackTypeOK
    <3>3. window'[1] \in Nat /\ window'[1] <= Slack!BookmarkOf(saved)
      BY <2>3, <3>1
    <3>4. QED
      BY <1>0, <2>7, <3>2, <3>3
  <2>9. SlackUsers'
    BY <2>1, TapsAssumption DEF SlackUsers, Slack!Exists, Slack!Record
  <2>10. QED
    BY <2>4, <2>5, <2>6, <2>8, <2>9
<1>4. CASE Slack!ReadMessages
  <2> DEFINE R == Slack!InWindow
             here == {i \in R : Cardinality({j \in R : j > i}) < PageSize}
             T == {item[i].at : i \in here} \cup {state}
  <2>1. /\ pc = "pages" /\ stream.reads = "windows"
        /\ state' = Slack!Largest(T) /\ bookmark' = state'
        /\ Slack!RecordsAndState({Slack!Record(i) : i \in here}, state')
        /\ cursor' = IF here = R THEN 0 ELSE Slack!Smallest(here)
        /\ window' = IF here = R THEN <<window[2], Slack!Min2(window[2] + date_window_size, end)>> ELSE window
        /\ pc' \in {"pages", "end"}
        /\ pc' = "end" => here = R
        /\ here = R /\ pc' = "pages" => ~(window'[1] >= window'[2])
        /\ UNCHANGED <<item, now, updates, disturbed, stream, end>>
    BY <1>4, Counts DEF Slack!ReadMessages, Slack!service, Slack!AtStart
  <2>2. R \subseteq Items /\ IsFiniteSet(R) /\ R \subseteq Nat /\ here \subseteq R
    <3>1. R \subseteq Items
      BY DEF Slack!InWindow
    <3>2. QED
      BY <3>1, FS_Subset, TapsAssumption
  <2>3. (R # {} => here # {}) /\ \A i \in R \ here, j \in here : i < j
    <3> HIDE DEF R
    <3>1. PageSize \in Nat \ {0}
      BY TapsAssumption
    <3>2. QED
      BY <2>2, <3>1, ListPages
  <2>4. window[1] \in Nat /\ window[2] \in Nat /\ window = <<window[1], window[2]>>
    BY DEF SlackTypeOK
  <2>5. /\ now \in Nat /\ state \in Nat /\ state <= now /\ state <= window[2]
        /\ \A i \in here : item[i].at \in Nat /\ item[i].at <= now /\ item[i].at <= window[2]
    BY <2>1, <2>2 DEF SlackTypeOK, SlackPast, Slack!InWindow
  <2>6. state' \in Nat /\ state' <= now /\ state' <= window[2]
    <3>1. T \subseteq Nat /\ T # {} /\ \A x \in T : x <= now /\ x <= window[2]
      BY <2>5
    <3>2. state' = Slack!Largest(T)
      BY <2>1
    <3> HIDE DEF T
    <3>3. \E x \in T : \A y \in T : y <= x
      BY <2>5, <3>1, LargestExists
    <3>4. Slack!Largest(T) \in T
      BY <3>3 DEF Slack!Largest
    <3>5. QED
      BY <3>1, <3>2, <3>4
  <2>7. here # R => cursor' \in here /\ \A j \in here : cursor' <= j
    <3>1. SUFFICES ASSUME here # R PROVE cursor' \in here /\ \A j \in here : cursor' <= j
      OBVIOUS
    <3>2. here # {} /\ here \subseteq Nat /\ cursor' = Slack!Smallest(here)
      BY <2>1, <2>2, <2>3, <3>1
    <3> HIDE DEF here
    <3>3. \E x \in here : \A y \in here : x <= y
      BY <3>2, SmallestExists
    <3>4. QED
      BY <3>2, <3>3 DEF Slack!Smallest
  <2>8. /\ emitted' = emitted \cup {Slack!Record(i) : i \in here}
        /\ \/ loaded' = emitted' /\ saved' = state'
           \/ UNCHANGED <<loaded, saved>>
    BY <2>1 DEF Slack!RecordsAndState
  <2>9. /\ here = R => window'[1] = window[2] /\ window'[2] \in Nat
                       /\ window'[2] <= window[2] + date_window_size /\ cursor' = 0
        /\ here # R => window' = window /\ cursor' \in Nat \ {0} /\ pc' = "pages"
        /\ window' \in Nat \X Nat
    <3>1. here # R => cursor' \in Nat \ {0}
      BY <2>2, <2>7, TapsAssumption
    <3>2. Slack!Min2(window[2] + date_window_size, end) \in Nat
          /\ Slack!Min2(window[2] + date_window_size, end) <= window[2] + date_window_size
      BY <2>4, TapsAssumption DEF Slack!Min2, SlackTypeOK
    <3> HIDE DEF here, R
    <3>3. CASE here = R
      BY <2>1, <2>4, <3>2, <3>3
    <3>4. CASE here # R
      BY <2>1, <2>4, <3>1, <3>4
    <3>5. QED
      BY <3>3, <3>4
  <2>10. \A i \in Items : Slack!Exists(i)' = Slack!Exists(i) /\ Slack!Record(i)' = Slack!Record(i)
    BY <2>1 DEF Slack!Exists, Slack!Record
  <2>11. ASSUME NEW i \in Items, Slack!Exists(i), i \notin disturbed, Slack!Record(i) \notin emitted'
         PROVE  /\ item[i].at \in Nat /\ item[i].at >= 1 /\ item[i].at >= window[1]
                /\ i \notin here
                /\ item[i].at <= window[2] => i \in R
    <3>1. Slack!Record(i) \notin emitted /\ i \notin here
      BY <2>8, <2>11
    <3>2. item[i].at \in Nat /\ item[i].at >= 1 /\ window[1] <= item[i].at
      BY <2>1, <2>4, <2>11, <3>1 DEF SlackTypeOK, SlackPast, SlackWindows
    <3>3. ASSUME item[i].at <= window[2] PROVE i \in R
      BY <2>1, <2>11, <3>1, <3>2, <3>3 DEF SlackWindows, Slack!InWindow, Slack!AtStart
    <3>4. QED
      BY <3>1, <3>2, <3>3
  <2> HIDE DEF here, R, T
  <2>12. saved' \in Nat /\ saved' <= now /\ loaded' \subseteq emitted'
    BY <2>6, <2>8 DEF SlackTypeOK, SlackPast
  <2>13. SlackTypeOK'
    BY <2>1, <2>6, <2>9, <2>12 DEF SlackTypeOK
  <2>14. window'[2] <= window'[1] + date_window_size
    BY <2>4, <2>9 DEF SlackPast
  <2>15. pc' = "pages" => state' <= window'[2]
    <3>1. CASE here = R
      BY <2>1, <2>4, <2>6, <2>9, <3>1
    <3>2. CASE here # R
      BY <2>6, <2>9, <3>2
    <3>3. QED
      BY <3>1, <3>2
  <2>16. SlackPast'
    BY <2>1, <2>6, <2>9, <2>10, <2>12, <2>14, <2>15 DEF SlackPast
  <2>17. SlackUsers'
    BY <2>1 DEF SlackUsers
  <2>18. SlackSaved'
    <3>1. CASE loaded' = emitted' /\ saved' = state'
      <4>1. SUFFICES ASSUME NEW i \in Items, Slack!Exists(i), i \notin disturbed, Slack!Record(i) \notin emitted'
                     PROVE  saved' <= item[i].at + date_window_size
        BY <2>1, <2>10, <3>1 DEF SlackSaved
      <4>2. item[i].at \in Nat /\ item[i].at >= window[1]
        BY <2>11, <4>1
      <4>3. window[2] <= window[1] + date_window_size
        BY DEF SlackPast
      <4>4. QED
        BY <2>4, <2>6, <3>1, <4>2, <4>3, TapsAssumption
    <3>2. CASE UNCHANGED <<loaded, saved>>
      BY <2>1, <2>10, <3>2 DEF SlackSaved, Slack!BookmarkOf
    <3>3. QED
      BY <2>8, <3>1, <3>2
  <2>19. ASSUME NEW i \in Items, Slack!Exists(i), i \notin disturbed, Slack!Record(i) \notin emitted'
         PROVE  /\ item[i].at >= window'[1]
                /\ cursor' # 0 /\ item[i].at <= window'[2] => i < cursor'
                /\ cursor' = 0 => item[i].at >= Slack!BookmarkOf(bookmark')
    <3>1. CASE here = R
      <4>1. ~(item[i].at <= window[2]) /\ item[i].at \in Nat /\ item[i].at >= 1
        BY <2>11, <2>19, <3>1
      <4>2. window'[1] = window[2] /\ cursor' = 0
        BY <2>9, <3>1
      <4>3. Slack!BookmarkOf(bookmark') = 1 \/ Slack!BookmarkOf(bookmark') = state'
        BY <2>1 DEF Slack!BookmarkOf, Slack!start_date
      <4>4. QED
        BY <2>4, <2>6, <4>1, <4>2, <4>3
    <3>2. CASE here # R
      <4>1. window' = window /\ cursor' \in Nat \ {0} /\ cursor' \in here
        BY <2>7, <2>9, <3>2
      <4>2. ASSUME item[i].at <= window[2] PROVE i < cursor'
        BY <2>3, <2>11, <2>19, <4>1, <4>2
      <4>3. QED
        BY <2>11, <2>19, <4>1, <4>2
    <3>3. QED
      BY <3>1, <3>2
  <2>20. SlackWindows'
    BY <2>1, <2>10, <2>19 DEF SlackWindows
  <2>21. QED
    BY <2>13, <2>16, <2>17, <2>18, <2>20
<1>5. CASE Slack!NotInChannel
  <2>1. /\ pc = "pages" /\ pc' = "end" /\ stream.reads = "windows" /\ cursor = 0
        /\ UNCHANGED <<item, now, updates, disturbed, state, saved, loaded, emitted, stream, end, bookmark, window, cursor>>
    BY <1>0, <1>5 DEF Slack!NotInChannel, Slack!service, Slack!reading, Slack!pipe, Slack!AtStart
  <2>2. SlackTypeOK' /\ SlackPast'
    BY <2>1 DEF SlackTypeOK, SlackPast, Slack!Exists
  <2>3. SlackSaved' /\ SlackWindows' /\ SlackUsers'
    BY <2>1 DEF SlackSaved, SlackWindows, SlackUsers, Slack!BookmarkOf, Slack!Exists, Slack!Record
  <2>4. QED
    BY <2>2, <2>3
<1>6. CASE Slack!ReadList
  <2> DEFINE rest == {i \in Items : Slack!Exists(i) /\ i > cursor}
             here == {i \in rest : Cardinality({j \in rest : j < i}) < PageSize}
             chosen == IF stream.reads = "users" THEN {i \in here : item[i].at > bookmark} ELSE here
             T == {item[i].at : i \in here} \cup {state}
  <2>1. /\ pc = "pages" /\ stream.reads # "windows"
        /\ state' = IF stream.reads = "users" THEN Slack!Largest(T) ELSE state
        /\ emitted' = emitted \cup {Slack!Record(i) : i \in chosen}
        /\ cursor' = IF here = rest THEN 0 ELSE Slack!Largest(here)
        /\ pc' = IF here = rest THEN "end" ELSE pc
        /\ UNCHANGED <<item, now, updates, disturbed, loaded, saved, stream, end, bookmark, window>>
    BY <1>6, Counts DEF Slack!ReadList, Slack!Records, Slack!service, Slack!AtStart
  <2>2. rest \subseteq Items /\ IsFiniteSet(rest) /\ rest \subseteq Nat /\ here \subseteq rest
    <3>1. rest \subseteq Items
      OBVIOUS
    <3>2. QED
      BY <3>1, FS_Subset, TapsAssumption
  <2>3. (rest # {} => here # {}) /\ \A i \in rest \ here, j \in here : j < i
    <3> HIDE DEF rest
    <3>1. PageSize \in Nat \ {0}
      BY TapsAssumption
    <3>2. QED
      BY <2>2, <3>1, ListPages
  <2>4. /\ now \in Nat /\ state \in Nat /\ state <= now
        /\ \A i \in here : item[i].at \in Nat /\ item[i].at <= now
    BY <2>2 DEF SlackTypeOK, SlackPast
  <2>5. state' \in Nat /\ state' <= now
    <3>1. T \subseteq Nat /\ T # {} /\ \A x \in T : x <= now
      BY <2>4
    <3>2. state' = IF stream.reads = "users" THEN Slack!Largest(T) ELSE state
      BY <2>1
    <3> HIDE DEF T
    <3>3. \E x \in T : \A y \in T : y <= x
      BY <2>4, <3>1, LargestExists
    <3>4. Slack!Largest(T) \in T
      BY <3>3 DEF Slack!Largest
    <3>5. QED
      BY <2>4, <3>1, <3>2, <3>4
  <2>6. here # rest => cursor' \in here
    <3>1. SUFFICES ASSUME here # rest PROVE cursor' \in here
      OBVIOUS
    <3>2. here # {} /\ here \subseteq Nat /\ IsFiniteSet(here) /\ cursor' = Slack!Largest(here)
      BY <2>1, <2>2, <2>3, <3>1, FS_Subset
    <3> HIDE DEF here
    <3>3. \E x \in here : \A y \in here : y <= x
      BY <3>2, FiniteLargest
    <3>4. QED
      BY <3>2, <3>3 DEF Slack!Largest
  <2>7. \A i \in Items : Slack!Exists(i)' = Slack!Exists(i) /\ Slack!Record(i)' = Slack!Record(i)
    BY <2>1 DEF Slack!Exists, Slack!Record
  <2>8. ASSUME stream.reads = "users", NEW i \in Items, Slack!Exists(i), i \notin disturbed,
               Slack!Record(i) \notin emitted'
        PROVE  i > cursor' /\ pc' = "pages"
    <3>1. i \in rest
      BY <2>1, <2>8 DEF SlackUsers
    <3>2. item[i].at > bookmark
      BY <2>1, <2>8 DEF SlackSaved, SlackPast, SlackTypeOK
    <3>3. i \notin here
      BY <2>1, <2>8, <3>2
    <3>4. QED
      BY <2>1, <2>3, <2>6, <3>1, <3>3
  <2>9. cursor' \in Nat /\ (pc' # "pages" => cursor' = 0) /\ pc' \in {"pages", "end"}
    BY <2>1, <2>2, <2>6
  <2> HIDE DEF here, rest, T, chosen
  <2>10. SlackTypeOK'
    BY <2>1, <2>5, <2>9 DEF SlackTypeOK
  <2>11. SlackPast'
    BY <2>1, <2>5, <2>7, <2>9 DEF SlackPast
  <2>12. SlackSaved' /\ SlackWindows'
    BY <2>1, <2>7, <2>9 DEF SlackSaved, SlackWindows
  <2>13. SlackUsers'
    BY <2>1, <2>7, <2>8 DEF SlackUsers
  <2>14. QED
    BY <2>10, <2>11, <2>12, <2>13
<1>7. CASE Slack!Close
  <2>1. /\ pc = "end" /\ pc' = "idle" /\ emitted' = emitted \cup {} /\ loaded' = emitted'
        /\ saved' = IF stream.reads = "users" THEN state ELSE bookmark
        /\ state' = saved' /\ end' = 0 /\ bookmark' = 0 /\ window' = <<0, 0>> /\ cursor' = 0
        /\ UNCHANGED <<item, now, updates, disturbed, stream>>
    BY <1>7 DEF Slack!Close, Slack!RecordsAndLastState, Slack!Exit, Slack!Stopped, Slack!service, Slack!NoWindow, Slack!AtStart
  <2>2. \A i \in Items : Slack!Exists(i)' = Slack!Exists(i) /\ Slack!Record(i)' = Slack!Record(i)
    BY <2>1 DEF Slack!Exists, Slack!Record
  <2>3. SlackTypeOK'
    BY <2>1 DEF SlackTypeOK
  <2>4. SlackPast'
    BY <2>1, <2>2, TapsAssumption DEF SlackTypeOK, SlackPast
  <2>5. SlackSaved'
    <3>1. SUFFICES ASSUME NEW i \in Items, Slack!Exists(i), i \notin disturbed, Slack!Record(i) \notin emitted
                   PROVE  /\ stream.reads = "windows" => ~(item[i].at < Slack!BookmarkOf(bookmark))
                          /\ stream.reads # "users"
      BY <2>1, <2>2 DEF SlackSaved, Slack!BookmarkOf
    <3>2. Slack!BookmarkOf(bookmark) \in Nat /\ item[i].at \in Nat
      BY DEF Slack!BookmarkOf, Slack!start_date, SlackTypeOK
    <3>3. QED
      BY <2>1, <3>1, <3>2 DEF SlackWindows, SlackUsers, SlackPast
  <2>6. SlackWindows' /\ SlackUsers'
    BY <2>1 DEF SlackWindows, SlackUsers
  <2>7. QED
    BY <2>3, <2>4, <2>5, <2>6
<1>8. CASE Slack!Interrupted
  <2>1. /\ pc' = "idle" /\ emitted' = loaded /\ state' = saved' /\ end' = 0 /\ bookmark' = 0
        /\ window' = <<0, 0>> /\ cursor' = 0
        /\ UNCHANGED <<item, now, updates, loaded, saved, stream>>
        /\ disturbed' = IF stream.reads # "windows" THEN disturbed
                        ELSE disturbed \cup {i \in Items : /\ Slack!Exists(i) /\ item[i].at <= saved
                                                           /\ saved <= item[i].at + date_window_size}
    BY <1>8 DEF Slack!Interrupted, Slack!Lost, Slack!Exit, Slack!Stopped, Slack!NoWindow, Slack!AtStart
  <2>2. \A i \in Items : Slack!Exists(i)' = Slack!Exists(i) /\ Slack!Record(i)' = Slack!Record(i)
    BY <2>1 DEF Slack!Exists, Slack!Record
  <2>3. SlackTypeOK'
    BY <2>1 DEF SlackTypeOK
  <2>4. SlackPast'
    BY <2>1, <2>2, TapsAssumption DEF SlackTypeOK, SlackPast
  <2>5. SlackSaved'
    <3>1. SUFFICES ASSUME NEW i \in Items, Slack!Exists(i), i \notin disturbed', Slack!Record(i) \notin loaded
                   PROVE  /\ stream.reads = "windows" => ~(item[i].at < Slack!BookmarkOf(saved))
                          /\ stream.reads = "users" => item[i].at > saved
      BY <2>1, <2>2 DEF SlackSaved, Slack!BookmarkOf
    <3>2. i \notin disturbed /\ item[i].at \in Nat /\ item[i].at >= 1 /\ saved \in Nat
      BY <2>1, <3>1 DEF SlackTypeOK, SlackPast
    <3>3. ASSUME stream.reads = "windows", item[i].at < Slack!BookmarkOf(saved) PROVE FALSE
      <4>1. saved <= item[i].at + date_window_size
        BY <3>1, <3>2, <3>3 DEF SlackSaved
      <4>2. item[i].at <= saved
        BY <3>2, <3>3 DEF Slack!BookmarkOf, Slack!start_date
      <4>3. QED
        BY <2>1, <3>1, <3>3, <4>1, <4>2
    <3>4. QED
      BY <3>1, <3>2, <3>3 DEF SlackSaved
  <2>6. SlackWindows' /\ SlackUsers'
    BY <2>1 DEF SlackWindows, SlackUsers
  <2>7. QED
    BY <2>3, <2>4, <2>5, <2>6
<1>9. CASE UNCHANGED Slack!slackVars
  <2>1. UNCHANGED <<item, now, updates, disturbed, pc, state, saved, loaded, emitted, stream, end, bookmark, window, cursor>>
    BY <1>9 DEF Slack!slackVars, Slack!apiTapVars, Slack!service, Slack!pipe
  <2>2. SlackTypeOK' /\ SlackPast'
    BY <2>1 DEF SlackTypeOK, SlackPast, Slack!Exists
  <2>3. SlackSaved' /\ SlackWindows' /\ SlackUsers'
    BY <2>1 DEF SlackSaved, SlackWindows, SlackUsers, Slack!BookmarkOf, Slack!Exists, Slack!Record
  <2>4. QED
    BY <2>2, <2>3
<1>10. QED
  BY <1>1, <1>2, <1>3, <1>4, <1>5, <1>6, <1>7, <1>8, <1>9 DEF Slack!Next

\* A message behind the saved bookmark is left only in the window of a run.
LEMMA SlackImplies == SlackInv => Slack!SlackSkipsNothingElse
<1>1. SUFFICES ASSUME SlackInv, pc = "idle", NEW i \in Items, Slack!Exists(i), Slack!Record(i) \notin loaded, ~Slack!Reads(i),
                      i \notin disturbed
               PROVE  FALSE
  BY DEF Slack!SlackSkipsNothingElse, Slack!Skipped
<1>2. stream.reads \in {"windows", "users", "all"}
  BY <1>1, SlackStreams DEF SlackInv, SlackTypeOK
<1>3. CASE stream.reads = "windows"
  <2>1. Slack!BookmarkOf(saved) \in Nat /\ Slack!BookmarkOf(saved) <= now /\ now \in Nat /\ item[i].at \in Nat
    BY <1>1 DEF SlackInv, SlackTypeOK, SlackPast, Slack!BookmarkOf, Slack!start_date
  <2>2. Slack!StartOf(Slack!BookmarkOf(saved)) \in Nat /\ Slack!StartOf(Slack!BookmarkOf(saved)) <= Slack!BookmarkOf(saved)
    BY <2>1, SlackStart, TapsAssumption
  <2>3. ~(item[i].at >= Slack!StartOf(Slack!BookmarkOf(saved)))
    BY <1>1, <1>3 DEF Slack!Reads
  <2>4. ~(item[i].at < Slack!BookmarkOf(saved))
    BY <1>1, <1>3 DEF SlackInv, SlackSaved
  <2>5. QED
    BY <2>1, <2>2, <2>3, <2>4
<1>4. CASE stream.reads = "users"
  BY <1>1, <1>4 DEF SlackInv, SlackSaved, Slack!Reads
<1>5. CASE stream.reads = "all"
  BY <1>1, <1>5 DEF Slack!Reads
<1>6. QED
  BY <1>2, <1>3, <1>4, <1>5

-----------------------------------------------------------------------------
(* tap-twilio: pages of an endpoint, by windows of dates                   *)

\* Types of the state of tap-twilio.
TwTypeOK ==
    /\ item \in [FewItems -> [ver : Nat, at : Nat]]
    /\ now \in Nat /\ now >= 1 /\ updates \in Nat
    /\ state \in Nat /\ saved \in Nat
    /\ now_datetime \in Nat /\ last_datetime \in Nat
    /\ window \in Nat \X Nat
    /\ next_url \in Nat /\ parent_id \in {0, 1, 2}
    /\ loaded \subseteq emitted
    /\ endpoint \in {"all", "windows", "children"}
    /\ pc \in {"idle", "pages", "end"}

\* No bookmark, window or change is in the future.
TwPast ==
    /\ saved <= now /\ state <= now
    /\ \A i \in FewItems : item[i].at <= now
    /\ pc = "idle" => state = saved
    /\ pc # "idle" => state >= 1

\* The dates of a run: the bookmark in memory does not pass the window.
TwDates ==
    pc = "pages" =>
        /\ 1 <= last_datetime /\ last_datetime <= state
        /\ last_datetime <= now_datetime /\ now_datetime <= now
        /\ parent_id = 1 \/ (parent_id = 2 /\ endpoint = "children")
        /\ parent_id = 1 => last_datetime <= Twilio!get_bookmark(saved)
        /\ endpoint = "windows" => /\ state <= window[2] /\ window[1] <= window[2]
                                   /\ window[2] <= now_datetime
        /\ endpoint # "windows" => window[2] = now_datetime

\* What the bookmark of a child endpoint may pass.
TwExempt(i) == endpoint = "children" /\ (ParentOf[i] = 2 \/ i \in disturbed)

\* No object that is not exempt and not loaded is behind the saved bookmark.
TwSaved ==
    \A i \in FewItems : Twilio!Exists(i) /\ ~TwExempt(i) /\ Twilio!Record(i) \notin loaded
        => item[i].at >= Twilio!get_bookmark(saved)

\* What is not written yet is still to be read, or changed since the run began.
TwAhead(i) ==
    CASE endpoint = "all"      -> item[i].at >= now_datetime \/ i > next_url
      [] endpoint = "windows"  -> \/ item[i].at >= now_datetime
                                  \/ item[i].at > window[2]
                                  \/ item[i].at >= window[1] /\ i > next_url
      [] endpoint = "children" -> parent_id = 1 /\ i > next_url

\* What is not written yet is ahead of the page and, at the end, of the bookmark.
TwRead ==
    \A i \in FewItems : Twilio!Exists(i) /\ ~TwExempt(i) /\ Twilio!Record(i) \notin emitted =>
        /\ pc = "pages" => TwAhead(i)
        /\ pc = "end" => endpoint # "children" /\ item[i].at >= state

\* The invariant of tap-twilio.
TwInv == TwTypeOK /\ TwPast /\ TwDates /\ TwSaved /\ TwRead

\* An account without objects has none to skip.
LEMMA TwInit == Twilio!Init => TwInv
BY DEF Twilio!Init, Twilio!ApiInit, TwInv, TwTypeOK, TwPast, TwDates, TwSaved, TwRead, Twilio!Exists

\* A page that is not the last one ends at its largest key.
LEMMA TwPage ==
    ASSUME NEW here, here = {i \in Twilio!Returned : Cardinality({j \in Twilio!Returned : j < i}) < PageSize},
           here # Twilio!Returned, TwInv
    PROVE  /\ Twilio!Largest(here) \in here
           /\ \A i \in here : i <= Twilio!Largest(here)
           /\ \A i \in Twilio!Returned \ here : Twilio!Largest(here) < i
<1> DEFINE f == [i \in Twilio!Returned |-> i]
<1>1. Twilio!Returned \subseteq FewItems /\ Twilio!Returned \subseteq Nat
  BY TapsAssumption DEF Twilio!Returned
<1>2. IsFiniteSet(Twilio!Returned)
  BY <1>1, FS_Subset, TapsAssumption
<1>3. f \in [Twilio!Returned -> Nat]
  BY <1>1
<1>4. \A i \in Twilio!Returned : {j \in Twilio!Returned : f[j] < f[i]} = {j \in Twilio!Returned : j < i}
  OBVIOUS
<1>5. here = PageOf(Twilio!Returned, f, PageSize)
  BY <1>4 DEF PageOf
<1>6. here \subseteq Twilio!Returned
  OBVIOUS
<1> HIDE DEF f
<1>7. /\ \A i \in Twilio!Returned \ here, j \in here : f[j] < f[i]
      /\ here # {}
  BY <1>2, <1>3, <1>5, <1>6, PageIsFirst, TapsAssumption
<1>8. \A i \in Twilio!Returned \ here, j \in here : j < i
  BY <1>6, <1>7 DEF f
<1>9. PICK n \in Twilio!Returned : n \notin here
  BY <1>6
<1>10. here \subseteq Nat /\ n \in Nat /\ \A i \in here : i <= n
  <2>1. here \subseteq Nat /\ n \in Nat
    BY <1>1, <1>6
  <2>2. \A i \in here : i < n
    BY <1>8, <1>9
  <2>3. QED
    BY <2>1, <2>2
<1>11. \E x \in here : \A y \in here : y <= x
  BY <1>7, <1>10, LargestExists
<1>12. Twilio!Largest(here) \in here /\ \A y \in here : y <= Twilio!Largest(here)
  BY <1>11 DEF Twilio!Largest
<1>13. QED
  BY <1>8, <1>12

\* The maximum of the bookmark and the times of a page is one of them.
LEMMA TwLargest ==
    ASSUME TwInv, NEW R, R \subseteq FewItems
    PROVE  LET seen == Twilio!Largest({item[i].at : i \in R} \cup {state})
           IN  /\ seen \in Nat /\ state <= seen /\ seen <= now
               /\ seen = state \/ \E i \in R : seen = item[i].at
<1> DEFINE T == {item[i].at : i \in R} \cup {state}
<1>1. T \subseteq Nat /\ T # {} /\ now \in Nat /\ \A x \in T : x <= now
  BY DEF TwInv, TwTypeOK, TwPast
<1>2. \E x \in T : \A y \in T : y <= x
  <2> HIDE DEF T
  <2>1. QED
    BY <1>1, LargestExists
<1>3. Twilio!Largest(T) \in T /\ \A y \in T : y <= Twilio!Largest(T)
  <2> HIDE DEF T
  <2>1. QED
    BY <1>2 DEF Twilio!Largest
<1> DEFINE seen == Twilio!Largest(T)
<1>4. seen \in T /\ \A y \in T : y <= seen
  BY <1>3
<1> HIDE DEF seen
<1>5. seen \in Nat /\ seen <= now /\ state <= seen /\ (seen = state \/ \E i \in R : seen = item[i].at)
  BY <1>1, <1>4
<1>6. QED
  BY <1>5 DEF seen

\* Changes, pages, windows, children, the end of a run and a death keep it.
LEMMA TwStep == TwInv /\ [Twilio!Next]_(Twilio!twilioVars) => TwInv'
<1> SUFFICES ASSUME TwInv, [Twilio!Next]_(Twilio!twilioVars) PROVE TwInv'
  OBVIOUS
<1> USE DEF TwInv
<1>0. /\ Twilio!get_bookmark(saved) \in Nat /\ 1 <= Twilio!get_bookmark(saved) /\ Twilio!get_bookmark(saved) <= now
      /\ \A i \in FewItems : i \in Nat /\ i > 0
  BY TapsAssumption DEF Twilio!get_bookmark, Twilio!start_date, TwTypeOK, TwPast
<1>1. ASSUME NEW i \in FewItems, Twilio!Update(i) PROVE TwInv'
  <2>1. /\ item' = [item EXCEPT ![i] = [ver |-> updates + 1, at |-> now]] /\ updates' = updates + 1
        /\ disturbed' = IF pc = "idle" THEN (disturbed \ {i}) \cup {} ELSE disturbed \cup {i} \cup {}
        /\ UNCHANGED <<now, pc, state, saved, loaded, emitted, endpoint, now_datetime, last_datetime,
                       window, next_url, parent_id>>
    BY <1>1 DEF Twilio!Update, Twilio!Change, Twilio!reading, Twilio!pipe
  <2>2. /\ item'[i] = [ver |-> updates + 1, at |-> now]
        /\ \A j \in FewItems \ {i} : item'[j] = item[j]
    BY <2>1 DEF TwTypeOK
  <2>3. TwTypeOK' /\ TwPast'
    BY <2>1, <2>2 DEF TwTypeOK, TwPast
  <2>4. TwDates'
    BY <2>1 DEF TwDates, Twilio!get_bookmark
  <2>5. ASSUME NEW j \in FewItems, Twilio!Exists(j)', ~TwExempt(j)'
        PROVE  \/ /\ Twilio!Exists(j) /\ ~TwExempt(j) /\ item'[j] = item[j] /\ Twilio!Record(j)' = Twilio!Record(j)
                  /\ TwAhead(j)' = TwAhead(j)
               \/ item'[j].at = now /\ (pc = "idle" \/ endpoint # "children")
    <3>1. CASE j = i
      BY <2>1, <2>2, <2>5, <3>1 DEF TwExempt, TwTypeOK
    <3>2. CASE j # i
      BY <2>1, <2>2, <2>5, <3>2 DEF TwExempt, Twilio!Exists, Twilio!Record, TwAhead
    <3>3. QED
      BY <3>1, <3>2
  <2>6. TwSaved'
    BY <1>0, <2>1, <2>5 DEF TwSaved, Twilio!get_bookmark
  <2>7. TwRead'
    <3>1. ASSUME NEW j \in FewItems, item'[j].at = now, endpoint # "children", pc = "pages"
          PROVE  TwAhead(j)'
      BY <2>1, <3>1 DEF TwAhead, TwDates, TwTypeOK
    <3>2. QED
      BY <2>1, <2>5, <3>1 DEF TwRead, TwPast
  <2>8. QED
    BY <2>3, <2>4, <2>6, <2>7
<1>2. CASE Twilio!Tick /\ UNCHANGED <<endpoint, Twilio!reading>>
  <2>1. /\ now' = now + 1
        /\ UNCHANGED <<item, updates, disturbed, pc, state, saved, loaded, emitted, endpoint, now_datetime,
                       last_datetime, window, next_url, parent_id>>
    BY <1>2 DEF Twilio!Tick, Twilio!reading, Twilio!pipe
  <2>2. TwTypeOK' /\ TwPast' /\ TwDates'
    BY <2>1 DEF TwTypeOK, TwPast, TwDates, Twilio!get_bookmark
  <2>3. TwSaved' /\ TwRead'
    BY <2>1 DEF TwSaved, TwRead, TwAhead, TwExempt, Twilio!get_bookmark, Twilio!Exists, Twilio!Record
  <2>4. QED
    BY <2>2, <2>3
<1>3. CASE Twilio!sync
  <2> DEFINE b == Twilio!get_bookmark(saved)
             from == Twilio!Earlier(b, now)
  <2>1. /\ pc = "idle" /\ pc' = "pages" /\ state' = b /\ last_datetime' = b /\ now_datetime' = now
        /\ next_url' = 0 /\ parent_id' = 1
        /\ window' = IF endpoint = "windows" THEN <<from, Twilio!Earlier(from + date_window_days, now)>>
                     ELSE <<b, now>>
        /\ UNCHANGED <<item, now, updates, disturbed, endpoint, loaded, emitted, saved>>
    BY <1>3 DEF Twilio!sync, Twilio!get_dates, Twilio!service, Twilio!pipe
  <2>2. from = b
    BY <1>0 DEF Twilio!Earlier, TwTypeOK
  <2>3. /\ window' \in Nat \X Nat /\ window'[1] = b /\ b <= window'[2] /\ window'[2] <= now
        /\ endpoint # "windows" => window'[2] = now
    <3> DEFINE until == Twilio!Earlier(b + date_window_days, now)
    <3>1. until \in Nat /\ b <= until /\ until <= now
      BY <1>0, TapsAssumption DEF Twilio!Earlier, TwTypeOK
    <3> HIDE DEF until
    <3>2. window' = IF endpoint = "windows" THEN <<b, until>> ELSE <<b, now>>
      BY <2>1, <2>2 DEF until
    <3>3. QED
      BY <1>0, <3>1, <3>2 DEF TwTypeOK
  <2>4. TwTypeOK' /\ TwPast' /\ TwDates'
    BY <1>0, <2>1, <2>3 DEF TwTypeOK, TwPast, TwDates, Twilio!get_bookmark
  <2>5. \A i \in FewItems : Twilio!Exists(i)' = Twilio!Exists(i) /\ TwExempt(i)' = TwExempt(i) /\ Twilio!Record(i)' = Twilio!Record(i)
    BY <2>1 DEF Twilio!Exists, TwExempt, Twilio!Record
  <2>6. TwSaved'
    BY <2>1, <2>5 DEF TwSaved, Twilio!get_bookmark
  <2>8. ASSUME NEW i \in FewItems, Twilio!Exists(i), ~TwExempt(i), Twilio!Record(i) \notin emitted PROVE TwAhead(i)'
    <3>1. item[i].at >= b /\ i > 0
      BY <1>0, <2>8 DEF TwSaved, TwTypeOK
    <3>2. QED
      BY <2>1, <2>3, <3>1 DEF TwAhead, TwTypeOK
  <2>9. TwRead'
    BY <2>1, <2>5, <2>8 DEF TwRead
  <2>10. QED
    BY <2>4, <2>6, <2>9
<1>4. ASSUME NEW i \in FewItems, Twilio!Exists(i), ~TwExempt(i), Twilio!Record(i) \notin emitted, pc = "pages"
      PROVE  /\ i \in Twilio!Returned => item[i].at >= last_datetime
             /\ \/ i \in Twilio!Returned
                \/ endpoint # "children" /\ (item[i].at >= now_datetime \/ item[i].at > window[2])
  <2>1. TwAhead(i) /\ item[i].at >= Twilio!get_bookmark(saved)
    BY <1>4 DEF TwRead, TwSaved, TwTypeOK
  <2>2. CASE endpoint = "all"
    BY <1>0, <1>4, <2>1, <2>2 DEF TwAhead, Twilio!Returned, TwDates, TwTypeOK
  <2>3. CASE endpoint = "windows"
    BY <1>0, <1>4, <2>1, <2>3 DEF TwAhead, Twilio!Returned, TwDates, TwTypeOK
  <2>4. CASE endpoint = "children"
    BY <1>0, <1>4, <2>1, <2>4, TapsAssumption DEF TwAhead, Twilio!Returned, TwDates, TwTypeOK, TwExempt
  <2>5. QED
    BY <2>2, <2>3, <2>4 DEF TwTypeOK
<1>5. CASE Twilio!ReadPage
  <2>1. PICK here : /\ here = {i \in Twilio!Returned : Cardinality({j \in Twilio!Returned : j < i}) < PageSize}
                    /\ here # Twilio!Returned
                    /\ emitted' = emitted \cup {Twilio!Record(i) : i \in {j \in here : item[j].at >= last_datetime}}
                    /\ state' = Twilio!Largest({item[i].at : i \in here} \cup {state})
                    /\ next_url' = Twilio!Largest(here)
                    /\ pc = "pages"
                    /\ UNCHANGED <<item, now, updates, disturbed, pc, loaded, saved, endpoint, now_datetime,
                                   last_datetime, window, parent_id>>
    BY <1>5, Counts DEF Twilio!ReadPage, Twilio!Records, Twilio!service
  <2>2. here \subseteq Twilio!Returned /\ Twilio!Returned \subseteq FewItems
    BY <2>1 DEF Twilio!Returned
  <2>3. /\ next_url' \in here /\ \A i \in Twilio!Returned \ here : next_url' < i
    BY <2>1, TwPage
  <2>4. /\ state' \in Nat /\ state <= state' /\ state' <= now
        /\ state' = state \/ \E i \in here : state' = item[i].at
    BY <2>1, <2>2, TwLargest
  <2>5. endpoint = "windows" => state' <= window[2]
    BY <2>1, <2>2, <2>4 DEF Twilio!Returned, TwDates
  <2>6. TwTypeOK' /\ TwPast'
    BY <1>0, <2>1, <2>2, <2>3, <2>4 DEF TwTypeOK, TwPast
  <2>7. TwDates'
    BY <2>1, <2>4, <2>5 DEF TwDates, Twilio!get_bookmark, TwTypeOK
  <2>8. \A i \in FewItems : Twilio!Exists(i)' = Twilio!Exists(i) /\ TwExempt(i)' = TwExempt(i) /\ Twilio!Record(i)' = Twilio!Record(i)
    BY <2>1 DEF Twilio!Exists, TwExempt, Twilio!Record
  <2>9. TwSaved'
    BY <2>1, <2>8 DEF TwSaved, Twilio!get_bookmark
  <2>10. ASSUME NEW i \in FewItems, Twilio!Exists(i), ~TwExempt(i), Twilio!Record(i) \notin emitted' PROVE TwAhead(i)'
    <3>1. Twilio!Record(i) \notin emitted
      BY <2>1, <2>10
    <3>2. i \notin here
      BY <1>4, <2>1, <2>2, <2>10, <3>1
    <3>3. TwAhead(i)
      BY <2>1, <2>10, <3>1 DEF TwRead
    <3>4. CASE i \in Twilio!Returned
      <4>1. next_url' < i
        BY <2>3, <3>2, <3>4
      <4>2. QED
        BY <2>1, <3>3, <3>4, <4>1 DEF TwAhead, Twilio!Returned, TwTypeOK
    <3>5. CASE endpoint # "children" /\ (item[i].at >= now_datetime \/ item[i].at > window[2])
      <4>1. window[2] = now_datetime \/ endpoint = "windows"
        BY <2>1 DEF TwDates
      <4>2. item[i].at \in Nat /\ now_datetime \in Nat /\ endpoint \in {"all", "windows"}
        BY <3>5 DEF TwTypeOK
      <4>3. item[i].at >= now_datetime \/ (endpoint = "windows" /\ item[i].at > window[2])
        BY <3>5, <4>1, <4>2
      <4>4. QED
        BY <2>1, <4>2, <4>3 DEF TwAhead
    <3>6. QED
      BY <1>4, <2>1, <2>10, <3>1, <3>4, <3>5
  <2>11. TwRead'
    BY <2>1, <2>8, <2>10 DEF TwRead
  <2>12. QED
    BY <2>6, <2>7, <2>9, <2>11
<1>6. CASE Twilio!EndOfWindow
  <2> DEFINE seen     == Twilio!Largest({item[i].at : i \in Twilio!Returned} \cup {state})
             highest == Twilio!sooner_date_time(seen, now_datetime)
             until    == Twilio!Earlier(window[2] + date_window_days, now_datetime)
  <2>1. /\ pc = "pages"
        /\ emitted' = emitted \cup {Twilio!Record(i) : i \in {j \in Twilio!Returned : item[j].at >= last_datetime}}
        /\ (loaded' = emitted' /\ saved' = highest) \/ UNCHANGED <<loaded, saved>>
        /\ UNCHANGED <<item, now, updates, disturbed, endpoint>>
    BY <1>6 DEF Twilio!EndOfWindow, Twilio!RecordsAndState, Twilio!service
  <2>2. \/ /\ window[2] < now_datetime
           /\ state' = seen /\ window' = <<window[2], until>> /\ next_url' = 0
           /\ UNCHANGED <<pc, last_datetime, now_datetime, parent_id>>
        \/ /\ endpoint = "children" /\ parent_id = 1 /\ parent_id' = 2
           /\ state' = highest /\ last_datetime' = highest /\ now_datetime' = now /\ next_url' = 0
           /\ window' = IF endpoint = "windows"
                        THEN LET from == Twilio!Earlier(highest, now)
                             IN <<from, Twilio!Earlier(from + date_window_days, now)>>
                        ELSE <<highest, now>>
           /\ pc' = pc
        \/ /\ window[2] >= now_datetime /\ ~(endpoint = "children" /\ parent_id = 1)
           /\ pc' = "end" /\ state' = highest
           /\ UNCHANGED <<now_datetime, last_datetime, window, next_url, parent_id>>
    BY <1>6 DEF Twilio!EndOfWindow, Twilio!get_dates, Twilio!reading, TwTypeOK
  <2>3. /\ Twilio!Returned \subseteq FewItems
        /\ 1 <= last_datetime /\ last_datetime <= state /\ state <= now
        /\ last_datetime <= now_datetime /\ now_datetime <= now
        /\ parent_id = 1 \/ (parent_id = 2 /\ endpoint = "children")
        /\ parent_id = 1 => last_datetime <= Twilio!get_bookmark(saved)
        /\ endpoint = "windows" => /\ state <= window[2] /\ window[1] <= window[2]
                                   /\ window[2] <= now_datetime
        /\ endpoint # "windows" => window[2] = now_datetime
    BY <2>1 DEF TwDates, TwPast, Twilio!Returned
  <2>4. /\ seen \in Nat /\ state <= seen /\ seen <= now
        /\ seen = state \/ \E i \in Twilio!Returned : seen = item[i].at
    BY <2>3, TwLargest
  <2> HIDE DEF seen
  <2>5. endpoint = "windows" => seen <= window[2]
    BY <2>3, <2>4 DEF Twilio!Returned
  <2>6. highest \in Nat /\ last_datetime <= highest /\ highest <= seen /\ highest <= now_datetime
    BY <2>3, <2>4 DEF Twilio!sooner_date_time, Twilio!Earlier, TwTypeOK
  <2>7. until \in Nat /\ (window[2] <= now_datetime => window[2] <= until) /\ until <= now_datetime
    BY TapsAssumption DEF Twilio!Earlier, TwTypeOK
  <2> HIDE DEF highest, until
  <2>8. \A i \in FewItems : Twilio!Exists(i)' = Twilio!Exists(i) /\ TwExempt(i)' = TwExempt(i) /\ Twilio!Record(i)' = Twilio!Record(i)
    BY <2>1 DEF Twilio!Exists, TwExempt, Twilio!Record
  <2>9. ASSUME NEW i \in FewItems, Twilio!Exists(i), ~TwExempt(i), Twilio!Record(i) \notin emitted'
        PROVE  endpoint # "children" /\ (item[i].at >= now_datetime \/ item[i].at > window[2])
    <3>1. Twilio!Record(i) \notin emitted
      BY <2>1, <2>9
    <3>2. i \notin Twilio!Returned
      BY <1>4, <2>1, <2>9, <3>1
    <3>3. QED
      BY <1>4, <2>1, <2>9, <3>1, <3>2
  <2>10. ASSUME NEW i \in FewItems, Twilio!Exists(i), ~TwExempt(i), Twilio!Record(i) \notin emitted'
         PROVE  item[i].at >= highest
    BY <2>3, <2>5, <2>6, <2>9, <2>10, <2>4 DEF TwTypeOK
  <2>11. TwSaved'
    <3>1. CASE loaded' = emitted' /\ saved' = highest
      <4>1. Twilio!get_bookmark(saved') = highest
        BY <2>3, <2>6, <3>1 DEF Twilio!get_bookmark, TwTypeOK
      <4>2. QED
        BY <2>1, <2>8, <2>10, <3>1, <4>1 DEF TwSaved, Twilio!get_bookmark
    <3>2. CASE UNCHANGED <<loaded, saved>>
      BY <2>1, <2>8, <3>2 DEF TwSaved, Twilio!get_bookmark
    <3>3. QED
      BY <2>1, <3>1, <3>2
  <2>12. saved' \in Nat /\ saved' <= now /\ loaded' \subseteq emitted' /\ last_datetime <= highest
         /\ (parent_id = 1 => last_datetime <= Twilio!get_bookmark(saved'))
    BY <2>1, <2>3, <2>6, <2>4 DEF TwTypeOK, TwPast, Twilio!get_bookmark, Twilio!start_date
  <2>13. CASE /\ window[2] < now_datetime
              /\ state' = seen /\ window' = <<window[2], until>> /\ next_url' = 0
              /\ UNCHANGED <<pc, last_datetime, now_datetime, parent_id>>
    <3>1. endpoint = "windows" /\ window[2] \in Nat
      BY <2>3, <2>13 DEF TwTypeOK
    <3>2. window' \in Nat \X Nat /\ window'[1] = window[2] /\ window'[2] = until
      BY <2>7, <2>13, <3>1
    <3>3. TwTypeOK' /\ TwPast'
      BY <2>1, <2>3, <2>4, <2>12, <2>13, <3>2 DEF TwTypeOK, TwPast
    <3>4. TwDates'
      BY <2>1, <2>3, <2>4, <2>5, <2>7, <2>12, <2>13, <3>1, <3>2 DEF TwDates, TwTypeOK, Twilio!get_bookmark
    <3>5. TwRead'
      BY <1>0, <2>1, <2>8, <2>9, <2>13, <3>1, <3>2 DEF TwRead, TwAhead, TwTypeOK
    <3>6. QED
      BY <2>11, <3>3, <3>4, <3>5
  <2>14. CASE /\ endpoint = "children" /\ parent_id = 1 /\ parent_id' = 2
              /\ state' = highest /\ last_datetime' = highest /\ now_datetime' = now /\ next_url' = 0
              /\ window' = IF endpoint = "windows"
                           THEN LET from == Twilio!Earlier(highest, now)
                                IN <<from, Twilio!Earlier(from + date_window_days, now)>>
                           ELSE <<highest, now>>
              /\ pc' = pc
    <3>1. window' = <<highest, now>> /\ now \in Nat
      BY <2>14 DEF TwTypeOK
    <3>2. TwTypeOK' /\ TwPast' /\ TwDates'
      BY <2>1, <2>3, <2>4, <2>6, <2>12, <2>14, <3>1 DEF TwTypeOK, TwPast, TwDates
    <3>3. TwRead'
      BY <2>1, <2>8, <2>9, <2>14 DEF TwRead
    <3>4. QED
      BY <2>11, <3>2, <3>3
  <2>15. CASE /\ window[2] >= now_datetime /\ ~(endpoint = "children" /\ parent_id = 1)
              /\ pc' = "end" /\ state' = highest
              /\ UNCHANGED <<now_datetime, last_datetime, window, next_url, parent_id>>
    <3>1. TwTypeOK' /\ TwPast' /\ TwDates'
      BY <2>1, <2>3, <2>4, <2>6, <2>12, <2>15 DEF TwTypeOK, TwPast, TwDates
    <3>2. TwRead'
      BY <2>1, <2>8, <2>9, <2>10, <2>15 DEF TwRead
    <3>3. QED
      BY <2>11, <3>1, <3>2
  <2>16. QED
    BY <2>2, <2>13, <2>14, <2>15
<1>7. CASE Twilio!Finish
  <2>1. /\ pc = "end" /\ emitted' = emitted \cup {} /\ loaded' = emitted' /\ saved' = state
        /\ pc' = "idle" /\ state' = saved'
        /\ now_datetime' = 0 /\ last_datetime' = 0 /\ window' = <<0, 0>> /\ next_url' = 0 /\ parent_id' = 0
        /\ UNCHANGED <<item, now, updates, disturbed, endpoint>>
    BY <1>7 DEF Twilio!Finish, Twilio!RecordsAndLastState, Twilio!Exit, Twilio!Stopped, Twilio!service
  <2>2. TwTypeOK' /\ TwPast' /\ TwDates' /\ TwRead'
    BY <2>1 DEF TwTypeOK, TwPast, TwDates, TwRead
  <2>3. Twilio!get_bookmark(saved') = state
    BY <2>1 DEF Twilio!get_bookmark, TwTypeOK, TwPast
  <2>4. TwSaved'
    BY <2>1, <2>3 DEF TwSaved, TwRead, Twilio!get_bookmark, TwExempt, Twilio!Exists, Twilio!Record
  <2>5. QED
    BY <2>2, <2>4
<1>8. CASE Twilio!Die /\ Twilio!Stopped /\ UNCHANGED endpoint
  <2>1. /\ emitted' = loaded /\ pc' = "idle" /\ state' = saved'
        /\ now_datetime' = 0 /\ last_datetime' = 0 /\ window' = <<0, 0>> /\ next_url' = 0 /\ parent_id' = 0
        /\ UNCHANGED <<item, now, updates, disturbed, endpoint, loaded, saved>>
    BY <1>8 DEF Twilio!Die, Twilio!Lost, Twilio!Exit, Twilio!Stopped, Twilio!service
  <2>2. TwTypeOK' /\ TwPast' /\ TwDates' /\ TwRead'
    BY <2>1 DEF TwTypeOK, TwPast, TwDates, TwRead
  <2>3. TwSaved'
    BY <2>1 DEF TwSaved, Twilio!get_bookmark, TwExempt, Twilio!Exists, Twilio!Record
  <2>4. QED
    BY <2>2, <2>3
<1>9. CASE UNCHANGED Twilio!twilioVars
  <2>1. UNCHANGED <<item, now, updates, disturbed, pc, state, loaded, emitted, saved, endpoint, now_datetime,
                    last_datetime, window, next_url, parent_id>>
    BY <1>9 DEF Twilio!twilioVars, Twilio!apiTapVars, Twilio!service, Twilio!pipe
  <2>2. TwTypeOK' /\ TwPast' /\ TwDates'
    BY <2>1 DEF TwTypeOK, TwPast, TwDates, Twilio!get_bookmark
  <2>3. TwSaved' /\ TwRead'
    BY <2>1 DEF TwSaved, TwRead, TwAhead, TwExempt, Twilio!Exists, Twilio!Record, Twilio!get_bookmark
  <2>4. QED
    BY <2>2, <2>3
<1>10. QED
  BY <1>1, <1>2, <1>3, <1>5, <1>6, <1>7, <1>8, <1>9 DEF Twilio!Next

\* What a run that starts from the saved bookmark does not return is loaded.
LEMMA TwImplies == TwInv => Twilio!TwilioSkipsNothing
<1> SUFFICES ASSUME TwInv, NEW i \in FewItems, Twilio!Exists(i), Twilio!Record(i) \notin loaded, ~Twilio!Reads(i), ~TwExempt(i)
             PROVE  FALSE
  BY DEF Twilio!TwilioSkipsNothing, Twilio!Skipped, TwExempt
<1>1. item[i].at >= Twilio!get_bookmark(saved)
  BY DEF TwInv, TwSaved
<1>2. QED
  BY <1>1 DEF Twilio!Reads

-----------------------------------------------------------------------------
(* tap-zendesk: tickets, their jobs and the other streams                  *)

\* Types of the state of tap-zendesk.
ZenTypeOK ==
    /\ item \in [FewItems -> [ver : Nat, at : Nat]]
    /\ now \in Nat /\ now >= 1 /\ updates \in Nat
    /\ state \in Nat /\ saved \in Nat
    /\ last \in Nat
    /\ loaded \subseteq emitted
    /\ tasks_batch \subseteq {<<kind, i, n>> : kind \in Jobs, i \in FewItems, n \in Nat}
    /\ stream \in Zendesk!STREAMS
    /\ pc \in {"idle", "read", "jobs", "yield", "left"}

\* No bookmark or change is in the future; the memory of a run is its own.
ZenPast ==
    /\ saved <= now /\ state <= now
    /\ \A i \in FewItems : item[i].at <= now /\ item[i].ver <= updates
    /\ pc = "idle" => state = saved /\ last = 0
    /\ pc # "idle" /\ stream.incremental => state >= 1
    /\ stream.sorted => last <= updates
    /\ pc \in {"jobs", "yield"} => stream = Zendesk!Tickets
    /\ pc = "idle" \/ stream # Zendesk!Tickets => tasks_batch = {} /\ buf = {}
    /\ pc # "idle" => Zendesk!HiddenByZone \subseteq disturbed

\* Changes have one order, which is that of their times.
ZenOrder ==
    \A i, j \in FewItems : Zendesk!Exists(i) /\ Zendesk!Exists(j) =>
        /\ item[i].ver < item[j].ver => item[i].at <= item[j].at
        /\ item[i].ver = item[j].ver => i = j

\* What the bookmark of an unsorted list may pass.
ZenExcused(i) == ~stream.sorted /\ i \in disturbed

\* What is behind the saved bookmark is loaded, with all that belongs to it.
ZenSaved ==
    stream.incremental =>
        \A i \in FewItems : Zendesk!Exists(i) /\ item[i].at < Zendesk!get_bookmark(saved) => Zendesk!Owed(i) \subseteq loaded \/ ZenExcused(i)

\* Behind the bookmark in memory everything is written or in the buffer.
ZenBehind ==
    stream.incremental /\ stream.sorted /\ pc # "idle" =>
        \A i \in FewItems : Zendesk!Exists(i) /\ item[i].at < state => Zendesk!Owed(i) \subseteq emitted \cup buf

\* What belongs to the objects that are read may be left to the jobs.
ZenRead ==
    stream.incremental /\ stream.sorted /\ pc # "idle" =>
        \A i \in FewItems : Zendesk!Exists(i) /\ item[i].ver <= last => Zendesk!Owed(i) \subseteq emitted \cup buf \cup tasks_batch

\* An unsorted list is read in the order of the keys.
ZenListed ==
    stream.incremental /\ ~stream.sorted /\ pc # "idle" =>
        \A i \in FewItems : Zendesk!Exists(i) /\ i \notin disturbed /\ (i <= last \/ pc = "left") => Zendesk!Owed(i) \subseteq emitted

\* The invariant of tap-zendesk.
ZenInv == ZenTypeOK /\ ZenPast /\ ZenOrder /\ ZenSaved /\ ZenBehind /\ ZenRead /\ ZenListed

\* How the streams are listed: a sorted one is selected by the service and not filtered,
\* and tickets alone have jobs.
LEMMA ZenStreams ==
    ASSUME stream \in Zendesk!STREAMS
    PROVE  /\ stream = Zendesk!Tickets => /\ stream.incremental /\ stream.sorted /\ stream.selects /\ ~stream.filters
                                  /\ stream.jobs = Jobs
           /\ stream # Zendesk!Tickets => stream.jobs = {}
           /\ stream.sorted => stream.selects /\ ~stream.filters
           /\ stream.sorted \in BOOLEAN /\ stream.incremental \in BOOLEAN
           /\ stream.selects \in BOOLEAN /\ stream.filters \in BOOLEAN
           /\ stream.west \in {0, 1} /\ (stream.sorted => stream.west = 0)
           /\ stream.west # 0 => stream.selects
<1>1. \/ stream = Zendesk!Tickets \/ stream \in Zendesk!Ratings
      \/ stream \in {Zendesk!Lister(TRUE, TRUE, FALSE, TRUE),
                    Zendesk!Lister(FALSE, FALSE, TRUE, TRUE), Zendesk!Lister(FALSE, FALSE, FALSE, FALSE)}
  BY DEF Zendesk!STREAMS, Zendesk!Organizations, Zendesk!Users, Zendesk!Groups, Zendesk!Macros, Zendesk!TicketFields,
         Zendesk!TicketForms, Zendesk!GroupMemberships, Zendesk!Tags, Zendesk!SLAPolicies
<1>2. /\ Zendesk!Tickets.incremental = TRUE /\ Zendesk!Tickets.sorted = TRUE /\ Zendesk!Tickets.selects = TRUE
      /\ Zendesk!Tickets.filters = FALSE /\ Zendesk!Tickets.jobs = Jobs /\ Zendesk!Tickets.west = 0
  BY DEF Zendesk!Tickets, Zendesk!Lister
<1>3. \A selects, sorted, filters, incremental \in BOOLEAN :
        LET l == Zendesk!Lister(selects, sorted, filters, incremental)
        IN  /\ l.selects = selects /\ l.sorted = sorted /\ l.filters = filters
            /\ l.incremental = incremental /\ l.jobs = {} /\ l.west = 0
  BY DEF Zendesk!Lister
<1>4. CASE stream = Zendesk!Tickets
  BY <1>2, <1>4
<1>5. CASE stream = Zendesk!Lister(TRUE, TRUE, FALSE, TRUE)
  BY <1>2, <1>3, <1>5
<1>6. CASE stream \in Zendesk!Ratings
  <2>1. PICK west \in {0, 1} : stream = [Zendesk!Lister(TRUE, FALSE, FALSE, TRUE) EXCEPT !.west = west]
    BY <1>6 DEF Zendesk!Ratings, Zendesk!SatisfactionRatings
  <2>2. /\ stream.selects = TRUE /\ stream.sorted = FALSE /\ stream.filters = FALSE
        /\ stream.incremental = TRUE /\ stream.jobs = {} /\ stream.west = west
    BY <2>1 DEF Zendesk!Lister
  <2>3. QED
    BY <1>2, <2>2
<1>7. CASE stream = Zendesk!Lister(FALSE, FALSE, TRUE, TRUE)
  BY <1>2, <1>3, <1>7
<1>8. CASE stream = Zendesk!Lister(FALSE, FALSE, FALSE, FALSE)
  BY <1>2, <1>3, <1>8
<1>9. QED
  BY <1>1, <1>4, <1>5, <1>6, <1>7, <1>8

\* A help desk without tickets has none to skip.
LEMMA ZenInit == Zendesk!Init => ZenInv
BY DEF Zendesk!Init, Zendesk!ApiInit, ZenInv, ZenTypeOK, ZenPast, ZenOrder, ZenSaved, ZenBehind, ZenRead, ZenListed, Zendesk!Exists, Zendesk!HiddenByZone

\* A page takes what comes first in the order of the list.
LEMMA ZenPage ==
    ASSUME ZenInv,
           NEW here, here = {i \in Zendesk!Rest : Cardinality({j \in Zendesk!Rest : Zendesk!Place(j) < Zendesk!Place(i)}) < PageSize}
    PROVE  /\ \A i \in Zendesk!Rest \ here, j \in here : Zendesk!Place(j) < Zendesk!Place(i)
           /\ LET T == {Zendesk!Place(i) : i \in here} \cup {last}
              IN  Zendesk!Largest(T) \in T /\ \A n \in T : n <= Zendesk!Largest(T)
           /\ here \subseteq Zendesk!Rest
<1> DEFINE f == [i \in Zendesk!Rest |-> Zendesk!Place(i)]
<1>1. Zendesk!Rest \subseteq FewItems /\ \A i \in Zendesk!Rest : Zendesk!Place(i) \in Nat
  <2>1. Zendesk!Rest \subseteq FewItems
    BY DEF Zendesk!Rest
  <2>2. \A i \in FewItems : item[i].ver \in Nat /\ i \in Nat
    BY TapsAssumption DEF ZenInv, ZenTypeOK
  <2>3. QED
    BY <2>1, <2>2 DEF Zendesk!Place
<1>2. IsFiniteSet(Zendesk!Rest)
  BY <1>1, FS_Subset, TapsAssumption
<1>3. f \in [Zendesk!Rest -> Nat]
  BY <1>1
<1>4. \A i \in Zendesk!Rest : {j \in Zendesk!Rest : f[j] < f[i]} = {j \in Zendesk!Rest : Zendesk!Place(j) < Zendesk!Place(i)}
  OBVIOUS
<1>5. here = PageOf(Zendesk!Rest, f, PageSize)
  BY <1>4 DEF PageOf
<1>6. here \subseteq Zendesk!Rest
  OBVIOUS
<1> HIDE DEF f
<1>7. \A i \in Zendesk!Rest \ here, j \in here : f[j] < f[i]
  BY <1>2, <1>3, <1>5, <1>6, PageIsFirst, TapsAssumption
<1>8. \A i \in Zendesk!Rest \ here, j \in here : Zendesk!Place(j) < Zendesk!Place(i)
  BY <1>6, <1>7 DEF f
<1> DEFINE T == {Zendesk!Place(i) : i \in here} \cup {last}
<1>9. T \subseteq Nat /\ T # {}
  <2>1. last \in Nat
    BY DEF ZenInv, ZenTypeOK
  <2>2. \A i \in here : Zendesk!Place(i) \in Nat
    BY <1>1, <1>6
  <2>3. QED
    BY <2>1, <2>2
<1>10. \E x \in T : \A y \in T : y <= x
  <2>1. CASE stream.sorted
    <3>1. updates \in Nat /\ \A x \in T : x <= updates
      <4>1. updates \in Nat /\ last <= updates
        BY <2>1 DEF ZenInv, ZenTypeOK, ZenPast
      <4>2. \A i \in here : Zendesk!Place(i) <= updates
        BY <1>1, <1>6, <2>1 DEF ZenInv, ZenPast, Zendesk!Place
      <4>3. QED
        BY <4>1, <4>2
    <3> HIDE DEF T
    <3>2. QED
      BY <1>9, <3>1, LargestExists
  <2>2. CASE ~stream.sorted
    <3>1. T = here \cup {last}
      BY <2>2 DEF Zendesk!Place
    <3>2. IsFiniteSet(T)
      BY <1>2, <1>6, <3>1, FS_Subset, FS_AddElement
    <3> HIDE DEF T
    <3>3. QED
      BY <1>9, <3>2, FiniteLargest
  <2>3. QED
    BY <2>1, <2>2
<1>11. Zendesk!Largest(T) \in T /\ \A n \in T : n <= Zendesk!Largest(T)
  <2> HIDE DEF T
  <2>1. QED
    BY <1>10 DEF Zendesk!Largest
<1>12. QED
  BY <1>6, <1>8, <1>11

\* Changes, pages, jobs, buffers written, the end of a run and a death keep it: the
\* bookmark that is written with a buffer is not past a ticket whose jobs are to be done.
LEMMA ZenStep == ZenInv /\ [Zendesk!Next]_(Zendesk!zendeskVars) => ZenInv'
<1> SUFFICES ASSUME ZenInv, [Zendesk!Next]_(Zendesk!zendeskVars) PROVE ZenInv'
  OBVIOUS
<1> USE DEF ZenInv
<1>0. /\ Zendesk!get_bookmark(saved) \in Nat /\ 1 <= Zendesk!get_bookmark(saved) /\ Zendesk!get_bookmark(saved) <= now
      /\ stream = Zendesk!Tickets => /\ stream.incremental /\ stream.sorted /\ stream.selects /\ ~stream.filters
                             /\ stream.jobs = Jobs
      /\ stream # Zendesk!Tickets => stream.jobs = {}
      /\ stream.sorted => stream.selects /\ ~stream.filters
      /\ stream.sorted \in BOOLEAN /\ stream.incremental \in BOOLEAN
      /\ stream.selects \in BOOLEAN /\ stream.filters \in BOOLEAN
      /\ stream.west \in {0, 1} /\ (stream.sorted => stream.west = 0)
      /\ stream.west # 0 => stream.selects
  BY ZenStreams DEF Zendesk!get_bookmark, Zendesk!start_date, ZenTypeOK, ZenPast
<1>1. ASSUME NEW i \in FewItems, Zendesk!Update(i) PROVE ZenInv'
  <2>1. /\ item' = [item EXCEPT ![i] = [ver |-> updates + 1, at |-> now]] /\ updates' = updates + 1
        /\ disturbed' = IF pc = "idle" THEN (disturbed \ {i}) \cup {} ELSE disturbed \cup {i} \cup {}
        /\ UNCHANGED <<now, pc, state, saved, loaded, emitted, stream, last, tasks_batch, buf>>
    BY <1>1 DEF Zendesk!Update, Zendesk!Change, Zendesk!reading, Zendesk!pipe
  <2>2. /\ item'[i] = [ver |-> updates + 1, at |-> now]
        /\ \A j \in FewItems \ {i} : item'[j] = item[j]
    BY <2>1 DEF ZenTypeOK
  <2>3. ZenTypeOK' /\ ZenPast'
    <3>1. pc # "idle" => Zendesk!HiddenByZone' \subseteq disturbed'
      <4>1. ASSUME pc # "idle", NEW j \in Zendesk!HiddenByZone' PROVE j \in disturbed'
        <5>1. CASE j = i
          BY <2>1, <4>1, <5>1
        <5>2. CASE j # i
          <6>1. j \in Zendesk!HiddenByZone
            BY <2>1, <2>2, <4>1, <5>2 DEF Zendesk!HiddenByZone, Zendesk!Exists, Zendesk!get_bookmark
          <6>2. QED
            BY <2>1, <4>1, <6>1 DEF ZenPast
        <5>3. QED
          BY <5>1, <5>2
      <4>2. QED
        BY <4>1
    <3>2. QED
      BY <2>1, <2>2, <3>1 DEF ZenTypeOK, ZenPast
  <2>4. ZenOrder'
    BY <2>1, <2>2 DEF ZenTypeOK, ZenPast, ZenOrder, Zendesk!Exists
  <2>5. ASSUME NEW j \in FewItems, Zendesk!Exists(j)'
        PROVE  \/ /\ Zendesk!Exists(j) /\ item'[j] = item[j] /\ Zendesk!Owed(j)' = Zendesk!Owed(j)
                  /\ j \in disturbed <=> j \in disturbed'
               \/ /\ j = i /\ item'[j].at = now /\ item'[j].ver = updates + 1
                  /\ pc # "idle" => j \in disturbed'
    <3>1. CASE j = i
      BY <2>1, <2>2, <3>1
    <3>2. CASE j # i
      BY <2>1, <2>2, <2>5, <3>2 DEF Zendesk!Exists, Zendesk!Owed, Zendesk!Part
    <3>3. QED
      BY <3>1, <3>2
  <2>6. ZenSaved'
    BY <1>0, <2>1, <2>5 DEF ZenSaved, Zendesk!get_bookmark, ZenExcused, ZenTypeOK
  <2>7. ZenBehind' /\ ZenRead' /\ ZenListed'
    BY <2>1, <2>5 DEF ZenBehind, ZenRead, ZenListed, ZenPast, ZenTypeOK
  <2>8. QED
    BY <2>3, <2>4, <2>6, <2>7
<1>12. ASSUME NEW i \in FewItems, Zendesk!Remove(i) PROVE ZenInv'
  <2>1. /\ item' = [item EXCEPT ![i] = [ver |-> 0, at |-> 0]] /\ stream = Zendesk!Tickets /\ updates' = updates + 1
        /\ UNCHANGED <<now, disturbed, pc, state, saved, loaded, emitted, stream, last, tasks_batch, buf>>
    BY <1>12 DEF Zendesk!Remove, Zendesk!reading, Zendesk!pipe
  <2>2. /\ item'[i] = [ver |-> 0, at |-> 0]
        /\ \A j \in FewItems \ {i} : item'[j] = item[j]
    BY <2>1 DEF ZenTypeOK
  <2>3. ZenTypeOK' /\ ZenPast'
    <3>1. Zendesk!HiddenByZone' = {}
      BY <1>0, <2>1 DEF Zendesk!HiddenByZone
    <3>2. \A j \in FewItems : item'[j].at <= now /\ item'[j].ver <= updates'
      BY <2>1, <2>2 DEF ZenPast, ZenTypeOK
    <3>3. QED
      BY <2>1, <2>2, <3>1, <3>2 DEF ZenTypeOK, ZenPast
  <2>4. ASSUME NEW j \in FewItems, Zendesk!Exists(j)'
        PROVE  Zendesk!Exists(j) /\ item'[j] = item[j] /\ Zendesk!Owed(j)' = Zendesk!Owed(j)
    <3>1. j # i
      BY <2>2, <2>4 DEF Zendesk!Exists
    <3>2. QED
      BY <2>1, <2>2, <2>4, <3>1 DEF Zendesk!Exists, Zendesk!Owed, Zendesk!Part
  <2>5. ZenOrder' /\ ZenSaved' /\ ZenBehind' /\ ZenRead' /\ ZenListed'
    BY <2>1, <2>4 DEF ZenOrder, ZenSaved, ZenBehind, ZenRead, ZenListed, ZenExcused, Zendesk!get_bookmark
  <2>6. QED
    BY <2>3, <2>5
<1>2. CASE Zendesk!Tick /\ UNCHANGED <<stream, Zendesk!reading>>
  <2>1. /\ now' = now + 1
        /\ UNCHANGED <<item, updates, disturbed, pc, state, saved, loaded, emitted, stream, last, tasks_batch, buf>>
    BY <1>2 DEF Zendesk!Tick, Zendesk!reading, Zendesk!pipe
  <2>2. ZenTypeOK' /\ ZenPast' /\ ZenOrder'
    BY <2>1 DEF ZenTypeOK, ZenPast, ZenOrder, Zendesk!Exists, Zendesk!HiddenByZone, Zendesk!get_bookmark
  <2>3. ZenSaved' /\ ZenBehind' /\ ZenRead' /\ ZenListed'
    BY <2>1 DEF ZenSaved, ZenBehind, ZenRead, ZenListed, ZenExcused, Zendesk!Exists, Zendesk!Owed, Zendesk!Part, Zendesk!get_bookmark
  <2>4. QED
    BY <2>2, <2>3
<1>3. CASE Zendesk!sync_stream
  <2>1. /\ pc = "idle" /\ pc' = "read"
        /\ state' = IF stream.incremental THEN Zendesk!get_bookmark(saved) ELSE saved
        /\ disturbed' = disturbed \cup Zendesk!HiddenByZone
        /\ UNCHANGED <<item, now, updates, saved, loaded, emitted, stream, last, tasks_batch, buf>>
    BY <1>3 DEF Zendesk!sync_stream, Zendesk!reading, Zendesk!pipe
  <2>2. ZenTypeOK' /\ ZenPast' /\ ZenOrder'
    BY <1>0, <2>1 DEF ZenTypeOK, ZenPast, ZenOrder, Zendesk!Exists, Zendesk!HiddenByZone, Zendesk!get_bookmark
  <2>3. \A i \in FewItems : Zendesk!Owed(i)' = Zendesk!Owed(i) /\ Zendesk!Exists(i)' = Zendesk!Exists(i) /\ (ZenExcused(i) => ZenExcused(i)')
    BY <2>1 DEF Zendesk!Owed, Zendesk!Part, Zendesk!Exists, ZenExcused
  <2>4. ZenSaved'
    BY <2>1, <2>3 DEF ZenSaved, Zendesk!get_bookmark
  <2>5. ZenBehind'
    BY <2>1, <2>3 DEF ZenBehind, ZenSaved, ZenExcused, ZenTypeOK
  <2>6. ZenRead' /\ ZenListed'
    <3>1. last' = 0
      BY <2>1 DEF ZenPast
    <3>2. ASSUME NEW i \in FewItems, Zendesk!Exists(i)' PROVE ~(item'[i].ver <= last') /\ ~(i <= last')
      <4>1. item'[i].ver \in Nat \ {0} /\ i \in Nat \ {0}
        BY <2>1, <3>2, TapsAssumption DEF ZenTypeOK, Zendesk!Exists
      <4>2. QED
        BY <3>1, <4>1
    <3>3. QED
      BY <2>1, <3>2 DEF ZenRead, ZenListed
  <2>7. QED
    BY <2>2, <2>4, <2>5, <2>6
<1>4. CASE Zendesk!ReadTicket
  <2>1. PICK t \in Zendesk!Rest : /\ \A j \in Zendesk!Rest : Zendesk!Place(t) <= Zendesk!Place(j)
                          /\ buf' = buf \cup {Zendesk!Part("object", t)}
                          /\ state' = Zendesk!BookmarkOfBatch(t)
                          /\ tasks_batch' = tasks_batch \cup {Zendesk!Part(kind, t) : kind \in Jobs}
                          /\ last' = Zendesk!Place(t)
    <3>1. Zendesk!Rest # {} /\ Zendesk!Rest \subseteq FewItems
      BY <1>4 DEF Zendesk!ReadTicket, Zendesk!Rest
    <3>2. \A i \in Zendesk!Rest : Zendesk!Place(i) = item[i].ver /\ item[i].ver \in Nat
      BY <1>0, <1>4, <3>1 DEF Zendesk!ReadTicket, Zendesk!Place, ZenTypeOK
    <3> DEFINE T == {item[i].ver : i \in Zendesk!Rest}
    <3>3. T \subseteq Nat /\ T # {}
      BY <3>1, <3>2
    <3>4. \E n \in T : \A m \in T : n <= m
      <4> HIDE DEF T
      <4>1. QED
        BY <3>3, SmallestExists
    <3>5. PICK t \in Zendesk!Rest : \A j \in Zendesk!Rest : Zendesk!Place(t) <= Zendesk!Place(j)
      BY <3>2, <3>4
    <3> DEFINE u == CHOOSE i \in Zendesk!Rest : \A j \in Zendesk!Rest : Zendesk!Place(i) <= Zendesk!Place(j)
    <3>6. u \in Zendesk!Rest /\ \A j \in Zendesk!Rest : Zendesk!Place(u) <= Zendesk!Place(j)
      BY <3>5
    <3>7. QED
      BY <1>4, <3>6 DEF Zendesk!ReadTicket
  <2>2. /\ pc = "read" /\ stream = Zendesk!Tickets /\ pc' \in {"jobs", "yield"}
        /\ UNCHANGED <<item, now, updates, disturbed, stream, loaded, emitted, saved>>
    BY <1>4 DEF Zendesk!ReadTicket, Zendesk!service, Zendesk!pipe
  <2>3. /\ stream.incremental /\ stream.sorted /\ stream.selects /\ stream.jobs = Jobs
        /\ \A i \in FewItems : Zendesk!Place(i) = item[i].ver
    BY <1>0, <2>2 DEF Zendesk!Place
  <2>4. /\ t \in FewItems /\ Zendesk!Exists(t) /\ item[t].ver \in Nat /\ item[t].at \in Nat
        /\ \A i \in FewItems : Zendesk!Exists(i) /\ last < item[i].ver /\ item[i].ver < item[t].ver
                                => item[i].at < Zendesk!get_bookmark(saved)
    <3>1. t \in FewItems /\ Zendesk!Exists(t) /\ item[t].ver \in Nat /\ item[t].at \in Nat
      BY <2>1 DEF Zendesk!Rest, ZenTypeOK
    <3>2. SUFFICES ASSUME NEW i \in FewItems, Zendesk!Exists(i), last < item[i].ver, item[i].ver < item[t].ver,
                          ~(item[i].at < Zendesk!get_bookmark(saved))
                   PROVE  FALSE
      BY <3>1
    <3>3. i \in Zendesk!Rest
      <4>1. stream.west = 0 /\ item[i].at >= Zendesk!get_bookmark(saved) + 0
        BY <1>0, <2>3, <3>2 DEF ZenTypeOK
      <4>2. QED
        BY <2>3, <3>2, <4>1 DEF Zendesk!Rest, ZenTypeOK
    <3>4. item[t].ver <= item[i].ver
      BY <2>1, <2>3, <3>1, <3>3
    <3>5. QED
      BY <3>1, <3>2, <3>4 DEF ZenTypeOK
  <2>5. /\ state' \in Nat /\ state <= state' /\ state' <= now
        /\ \/ state' = state
           \/ state' = item[t].at /\ tasks_batch = {}
    BY <2>1, <2>4 DEF Zendesk!BookmarkOfBatch, Zendesk!Later, ZenTypeOK, ZenPast
  <2>6. \A i \in FewItems : Zendesk!Owed(i)' = Zendesk!Owed(i) /\ Zendesk!Exists(i)' = Zendesk!Exists(i) /\ ZenExcused(i)' = ZenExcused(i)
    BY <2>2 DEF Zendesk!Owed, Zendesk!Part, Zendesk!Exists, ZenExcused
  <2>7. tasks_batch' \subseteq {<<kind, i, n>> : kind \in Jobs, i \in FewItems, n \in Nat}
    BY <2>1, <2>4 DEF Zendesk!Part, ZenTypeOK
  <2>8. ZenTypeOK' /\ ZenOrder'
    BY <2>1, <2>2, <2>3, <2>4, <2>5, <2>7 DEF ZenTypeOK, ZenOrder, Zendesk!Exists
  <2>9. ZenPast'
    BY <2>1, <2>2, <2>3, <2>4, <2>5 DEF ZenTypeOK, ZenPast, Zendesk!HiddenByZone, Zendesk!Exists, Zendesk!get_bookmark
  <2>10. ZenSaved'
    BY <2>2, <2>6 DEF ZenSaved, Zendesk!get_bookmark
  <2>11. ASSUME NEW i \in FewItems, Zendesk!Exists(i), item[i].ver <= item[t].ver, i # t
         PROVE  Zendesk!Owed(i) \subseteq emitted \cup buf \cup tasks_batch
    <3>1. item[i].ver \in Nat /\ last \in Nat
      BY DEF ZenTypeOK
    <3>2. CASE item[i].ver <= last
      BY <2>2, <2>3, <2>11, <3>2 DEF ZenRead
    <3>3. CASE ~(item[i].ver <= last)
      <4>1. item[i].ver < item[t].ver
        BY <2>4, <2>11, <3>1 DEF ZenOrder
      <4>2. item[i].at < Zendesk!get_bookmark(saved)
        BY <2>4, <2>11, <3>1, <3>3, <4>1
      <4>3. Zendesk!Owed(i) \subseteq loaded
        BY <2>3, <2>11, <4>2 DEF ZenSaved, ZenExcused
      <4>4. QED
        BY <4>3 DEF ZenTypeOK
    <3>4. QED
      BY <3>2, <3>3
  <2>12. ZenBehind'
    <3>1. SUFFICES ASSUME NEW i \in FewItems, Zendesk!Exists(i), item[i].at < state'
                   PROVE  Zendesk!Owed(i) \subseteq emitted \cup buf
      BY <2>1, <2>2, <2>6 DEF ZenBehind
    <3>2. CASE state' = state
      BY <2>2, <2>3, <3>1, <3>2 DEF ZenBehind
    <3>3. CASE state' = item[t].at /\ tasks_batch = {}
      <4>1. item[i].ver <= item[t].ver /\ i # t
        BY <2>4, <3>1, <3>3 DEF ZenOrder, ZenTypeOK
      <4>2. QED
        BY <2>11, <3>1, <3>3, <4>1
    <3>4. QED
      BY <2>5, <3>2, <3>3
  <2>13. ZenRead'
    <3>1. Zendesk!Owed(t) \subseteq buf' \cup tasks_batch'
      BY <2>1, <2>3 DEF Zendesk!Owed
    <3>2. \A i \in FewItems : Zendesk!Exists(i) /\ item[i].ver <= item[t].ver => Zendesk!Owed(i) \subseteq emitted \cup buf' \cup tasks_batch'
      BY <2>1, <2>11, <3>1
    <3>3. QED
      BY <2>1, <2>2, <2>3, <2>4, <2>6, <3>2 DEF ZenRead
  <2>14. ZenListed'
    BY <2>2, <2>3 DEF ZenListed
  <2>15. QED
    BY <2>8, <2>9, <2>10, <2>12, <2>13, <2>14
<1>5. ASSUME NEW task \in tasks_batch, Zendesk!ProcessTask(task) PROVE ZenInv'
  <2>1. /\ pc \in {"jobs", "left"} /\ tasks_batch' = tasks_batch \ {task}
        /\ buf' = IF Zendesk!Exists(task[2]) THEN buf \cup {Zendesk!Part(task[1], task[2])} ELSE buf
        /\ UNCHANGED <<item, now, updates, disturbed, pc, state, saved, loaded, emitted, stream, last>>
    BY <1>5 DEF Zendesk!ProcessTask, Zendesk!service, Zendesk!pipe
  <2>2. PICK kind \in Jobs, k \in FewItems, n \in Nat : task = <<kind, k, n>>
    BY DEF ZenTypeOK
  <2>3. buf \subseteq buf' /\ (Zendesk!Exists(k) => Zendesk!Part(kind, k) \in buf')
    BY <2>1, <2>2
  <2>4. \A i \in FewItems : Zendesk!Owed(i)' = Zendesk!Owed(i) /\ Zendesk!Exists(i)' = Zendesk!Exists(i) /\ ZenExcused(i)' = ZenExcused(i)
    BY <2>1 DEF Zendesk!Owed, Zendesk!Part, Zendesk!Exists, ZenExcused
  <2>5. ZenTypeOK' /\ ZenPast' /\ ZenOrder'
    <3>1. tasks_batch # {} /\ pc # "idle" /\ stream = Zendesk!Tickets
      BY <2>1 DEF ZenPast
    <3>2. QED
      BY <2>1, <3>1 DEF ZenTypeOK, ZenPast, ZenOrder, Zendesk!Exists, Zendesk!HiddenByZone, Zendesk!get_bookmark
  <2>6. ZenSaved' /\ ZenBehind' /\ ZenListed'
    BY <2>1, <2>3, <2>4 DEF ZenSaved, ZenBehind, ZenListed, Zendesk!get_bookmark
  <2>7. ASSUME NEW i \in FewItems, Zendesk!Exists(i) PROVE \A p \in Zendesk!Owed(i) : p = task => p \in buf'
    BY <2>2, <2>3, <2>7 DEF Zendesk!Owed, Zendesk!Part
  <2>8. ZenRead'
    BY <2>1, <2>3, <2>4, <2>7 DEF ZenRead
  <2>9. QED
    BY <2>5, <2>6, <2>8
<1>6. CASE Zendesk!BatchExecuted \/ Zendesk!NoMoreTickets
  <2>1. /\ pc \in {"jobs", "read"} /\ pc' \in {"yield", "left"} /\ stream = Zendesk!Tickets
        /\ UNCHANGED <<item, now, updates, disturbed, state, saved, loaded, emitted, stream, last, tasks_batch, buf>>
    BY <1>6 DEF Zendesk!BatchExecuted, Zendesk!NoMoreTickets, ZenPast, Zendesk!service, Zendesk!reading, Zendesk!pipe
  <2>2. ZenTypeOK' /\ ZenPast' /\ ZenOrder'
    BY <1>0, <2>1 DEF ZenTypeOK, ZenPast, ZenOrder, Zendesk!Exists, Zendesk!HiddenByZone, Zendesk!get_bookmark
  <2>3. ZenSaved' /\ ZenBehind' /\ ZenRead' /\ ZenListed'
    BY <1>0, <2>1 DEF ZenSaved, ZenBehind, ZenRead, ZenListed, ZenExcused, Zendesk!Exists, Zendesk!Owed, Zendesk!Part, Zendesk!get_bookmark
  <2>4. QED
    BY <2>2, <2>3
<1>7. CASE Zendesk!Yield
  <2>1. /\ pc = "yield" /\ pc' = "read" /\ stream = Zendesk!Tickets
        /\ emitted \cup buf = emitted' \cup buf'
        /\ \/ loaded' = emitted \cup buf /\ saved' = state
           \/ UNCHANGED <<loaded, saved>>
        /\ loaded' \subseteq emitted'
        /\ UNCHANGED <<item, now, updates, disturbed, state, stream, last, tasks_batch>>
    BY <1>7 DEF Zendesk!Yield, Zendesk!RecordsAndState, ZenPast, ZenTypeOK, Zendesk!service, Zendesk!pipe
  <2>2. stream.incremental /\ stream.sorted /\ state \in Nat /\ state >= 1 /\ state <= now /\ stream \in Zendesk!STREAMS
    BY <1>0, <2>1 DEF ZenPast, ZenTypeOK
  <2>3. saved' \in Nat /\ saved' <= now
    BY <2>1, <2>2 DEF ZenTypeOK, ZenPast
  <2>4. ZenTypeOK' /\ ZenOrder'
    BY <2>1, <2>2, <2>3 DEF ZenTypeOK, ZenOrder, Zendesk!Exists
  <2>5. ZenPast'
    <3>1. Zendesk!HiddenByZone' = {}
      BY <1>0, <2>1, <2>2 DEF Zendesk!HiddenByZone
    <3>2. QED
      BY <2>1, <2>2, <2>3, <3>1 DEF ZenTypeOK, ZenPast
  <2>6. \A i \in FewItems : Zendesk!Owed(i)' = Zendesk!Owed(i) /\ Zendesk!Exists(i)' = Zendesk!Exists(i) /\ ZenExcused(i)' = ZenExcused(i)
    BY <2>1 DEF Zendesk!Owed, Zendesk!Part, Zendesk!Exists, ZenExcused
  <2>7. ZenBehind' /\ ZenRead' /\ ZenListed'
    BY <2>1, <2>2, <2>6 DEF ZenBehind, ZenRead, ZenListed
  <2>8. ZenSaved'
    <3>1. CASE loaded' = emitted \cup buf /\ saved' = state
      <4>1. Zendesk!get_bookmark(saved') = state
        BY <2>2, <3>1 DEF Zendesk!get_bookmark
      <4>2. \A i \in FewItems : Zendesk!Exists(i) /\ item[i].at < state => Zendesk!Owed(i) \subseteq loaded'
        BY <2>1, <2>2, <3>1 DEF ZenBehind
      <4>3. QED
        BY <2>1, <2>6, <4>1, <4>2 DEF ZenSaved, Zendesk!get_bookmark
    <3>2. CASE UNCHANGED <<loaded, saved>>
      BY <2>1, <2>6, <3>2 DEF ZenSaved, Zendesk!get_bookmark
    <3>3. QED
      BY <2>1, <3>1, <3>2
  <2>9. QED
    BY <2>4, <2>5, <2>7, <2>8
<1>8. CASE Zendesk!ReadList
  <2>1. PICK here, fresh :
            /\ here = {i \in Zendesk!Rest : Cardinality({j \in Zendesk!Rest : Zendesk!Place(j) < Zendesk!Place(i)}) < PageSize}
            /\ fresh = {i \in here : stream.filters => item[i].at >= Zendesk!get_bookmark(saved)}
            /\ state' = IF stream.incremental THEN Zendesk!Largest({item[i].at : i \in fresh} \cup {state}) ELSE state
            /\ emitted' = emitted \cup {Zendesk!Part("object", i) : i \in fresh}
            /\ last' = Zendesk!Largest({Zendesk!Place(i) : i \in here} \cup {last})
            /\ pc' = IF here = Zendesk!Rest THEN "left" ELSE pc
    BY <1>8, Counts DEF Zendesk!ReadList, Zendesk!Records
  <2>2. /\ pc = "read" /\ stream # Zendesk!Tickets /\ stream.jobs = {}
        /\ tasks_batch = {} /\ buf = {}
        /\ UNCHANGED <<item, now, updates, disturbed, stream, tasks_batch, buf, loaded, saved>>
    BY <1>0, <1>8 DEF Zendesk!ReadList, Zendesk!Records, ZenPast, Zendesk!service
  <2>3. /\ here \subseteq Zendesk!Rest /\ fresh \subseteq here /\ Zendesk!Rest \subseteq FewItems
        /\ \A i \in Zendesk!Rest \ here, j \in here : Zendesk!Place(j) < Zendesk!Place(i)
        /\ last' \in {Zendesk!Place(i) : i \in here} \cup {last}
        /\ \A n \in {Zendesk!Place(i) : i \in here} \cup {last} : n <= last'
    BY <2>1, ZenPage DEF Zendesk!Rest
  <2>4. \A i \in FewItems : Zendesk!Place(i) = (IF stream.sorted THEN item[i].ver ELSE i) /\ Zendesk!Place(i) \in Nat
    <3>1. \A i \in FewItems : item[i].ver \in Nat /\ i \in Nat
      BY TapsAssumption DEF ZenTypeOK
    <3>2. QED
      BY <3>1 DEF Zendesk!Place
  <2>5. /\ last' \in Nat /\ last <= last'
        /\ last' = last \/ \E j \in here : last' = Zendesk!Place(j)
        /\ stream.sorted => last' <= updates
    <3>1. last' = last \/ \E j \in here : last' = Zendesk!Place(j)
      BY <2>3
    <3>2. \A j \in here : Zendesk!Place(j) \in Nat /\ (stream.sorted => Zendesk!Place(j) <= updates)
      BY <2>3, <2>4 DEF ZenPast
    <3>3. QED
      BY <2>3, <3>1, <3>2 DEF ZenPast, ZenTypeOK
  <2>6. /\ state' \in Nat /\ state' <= now /\ state <= state'
        /\ state' = state \/ \E j \in fresh : state' = item[j].at
    <3> DEFINE T == {item[i].at : i \in fresh} \cup {state}
    <3>1. now \in Nat /\ state \in Nat /\ state <= now
      BY DEF ZenTypeOK, ZenPast
    <3>2. T \subseteq Nat /\ T # {} /\ \A x \in T : x <= now
      BY <2>3, <3>1 DEF ZenTypeOK, ZenPast
    <3>3. state \in T /\ \A x \in T : x = state \/ \E j \in fresh : x = item[j].at
      OBVIOUS
    <3>4. state' = IF stream.incremental THEN Zendesk!Largest(T) ELSE state
      BY <2>1
    <3> HIDE DEF T
    <3>5. \E x \in T : \A y \in T : y <= x
      BY <3>1, <3>2, LargestExists
    <3>6. Zendesk!Largest(T) \in T /\ \A y \in T : y <= Zendesk!Largest(T)
      BY <3>5 DEF Zendesk!Largest
    <3>7. /\ Zendesk!Largest(T) \in Nat /\ Zendesk!Largest(T) <= now /\ state <= Zendesk!Largest(T)
          /\ Zendesk!Largest(T) = state \/ \E j \in fresh : Zendesk!Largest(T) = item[j].at
      BY <3>2, <3>3, <3>6
    <3>8. CASE stream.incremental
      BY <3>4, <3>7, <3>8
    <3>9. CASE ~stream.incremental
      BY <3>1, <3>4, <3>9
    <3>10. QED
      BY <3>8, <3>9
  <2>7. \A i \in FewItems : /\ Zendesk!Owed(i) = {Zendesk!Part("object", i)} /\ Zendesk!Owed(i)' = Zendesk!Owed(i)
                         /\ Zendesk!Exists(i)' = Zendesk!Exists(i) /\ ZenExcused(i)' = ZenExcused(i)
    BY <2>2 DEF Zendesk!Owed, Zendesk!Part, Zendesk!Exists, ZenExcused
  <2>8. ZenTypeOK' /\ ZenOrder'
    BY <2>1, <2>2, <2>5, <2>6 DEF ZenTypeOK, ZenOrder, Zendesk!Exists
  <2>9. ZenPast'
    BY <2>1, <2>2, <2>5, <2>6 DEF ZenPast, ZenTypeOK, Zendesk!HiddenByZone, Zendesk!Exists, Zendesk!get_bookmark
  <2>10. ZenSaved'
    BY <2>2, <2>7 DEF ZenSaved, Zendesk!get_bookmark
  <2>11. ASSUME NEW i \in FewItems, Zendesk!Exists(i), ~(Zendesk!Place(i) <= last), here = Zendesk!Rest \/ Zendesk!Place(i) <= last'
         PROVE  \/ i \in here
                \/ stream.selects /\ item[i].at < Zendesk!get_bookmark(saved)
                \/ ~stream.sorted /\ i \in disturbed
    <3>1. CASE i \in Zendesk!Rest
      <4>1. CASE here = Zendesk!Rest
        BY <3>1, <4>1
      <4>2. CASE here # Zendesk!Rest
        <5>1. PICK j \in here : last' = Zendesk!Place(j)
          BY <2>4, <2>5, <2>11, <4>2
        <5>2. ~(Zendesk!Place(j) < Zendesk!Place(i))
          BY <2>3, <2>4, <2>11, <4>2, <5>1
        <5>3. QED
          BY <2>3, <3>1, <5>2
      <4>3. QED
        BY <4>1, <4>2
    <3>2. CASE i \notin Zendesk!Rest
      <4>1. stream.selects /\ ~(item[i].at >= Zendesk!get_bookmark(saved) + stream.west)
        BY <2>4, <2>11, <3>2 DEF Zendesk!Rest, ZenTypeOK
      <4>2. SUFFICES ASSUME item[i].at >= Zendesk!get_bookmark(saved) PROVE ~stream.sorted /\ i \in disturbed
        BY <1>0, <4>1 DEF ZenTypeOK
      <4>3. stream.west > 0 /\ item[i].at < Zendesk!get_bookmark(saved) + stream.west
        BY <1>0, <4>1, <4>2 DEF ZenTypeOK
      <4>4. ~stream.sorted /\ i \in Zendesk!HiddenByZone
        BY <1>0, <2>11, <4>2, <4>3 DEF Zendesk!HiddenByZone
      <4>5. QED
        BY <2>2, <4>4 DEF ZenPast
    <3>3. QED
      BY <3>1, <3>2
  <2>12. ASSUME NEW i \in FewItems, Zendesk!Exists(i), stream.incremental,
                item[i].at < Zendesk!get_bookmark(saved), ~ZenExcused(i)
         PROVE  Zendesk!Owed(i) \subseteq emitted'
    BY <2>1, <2>12 DEF ZenSaved, ZenTypeOK
  <2>13. ASSUME NEW i \in here, stream.incremental, ~ZenExcused(i) PROVE Zendesk!Owed(i) \subseteq emitted'
    <3>1. CASE i \in fresh
      BY <2>1, <2>3, <2>7, <3>1
    <3>2. CASE i \notin fresh
      <4>1. i \in FewItems /\ Zendesk!Exists(i) /\ ~(item[i].at >= Zendesk!get_bookmark(saved))
        BY <2>1, <2>3, <3>2 DEF Zendesk!Rest
      <4>2. item[i].at < Zendesk!get_bookmark(saved)
        BY <1>0, <4>1 DEF ZenTypeOK
      <4>3. QED
        BY <2>12, <2>13, <4>1, <4>2
    <3>3. QED
      BY <3>1, <3>2
  <2>14. ASSUME NEW i \in FewItems, Zendesk!Exists(i), stream.incremental, ~ZenExcused(i), ~(Zendesk!Place(i) <= last),
                here = Zendesk!Rest \/ Zendesk!Place(i) <= last'
         PROVE  Zendesk!Owed(i) \subseteq emitted'
    BY <2>11, <2>12, <2>13, <2>14 DEF ZenExcused
  <2>15. ASSUME stream.incremental, stream.sorted, NEW i \in FewItems, Zendesk!Exists(i), item[i].ver <= last'
         PROVE  Zendesk!Owed(i) \subseteq emitted'
    <3>1. ~ZenExcused(i) /\ Zendesk!Place(i) = item[i].ver
      BY <2>4, <2>15 DEF ZenExcused
    <3>2. CASE item[i].ver <= last
      BY <2>1, <2>2, <2>15, <3>2 DEF ZenRead
    <3>3. QED
      BY <2>14, <2>15, <3>1, <3>2
  <2>16. ASSUME stream.incremental, stream.sorted, NEW i \in FewItems, Zendesk!Exists(i), item[i].at < state'
         PROVE  Zendesk!Owed(i) \subseteq emitted'
    <3>1. CASE state' = state
      BY <2>1, <2>2, <2>16, <3>1 DEF ZenBehind
    <3>2. CASE state' # state
      <4>1. PICK j \in fresh : state' = item[j].at
        BY <2>6, <3>2
      <4>2. j \in FewItems /\ Zendesk!Exists(j) /\ Zendesk!Place(j) = item[j].ver /\ j \in here
        BY <2>3, <2>4, <2>16 DEF Zendesk!Rest
      <4>3. item[i].ver \in Nat /\ item[j].ver \in Nat /\ item[i].at \in Nat /\ item[j].at \in Nat
        BY <4>2 DEF ZenTypeOK
      <4>4. item[i].ver <= item[j].ver
        BY <2>16, <4>1, <4>2, <4>3 DEF ZenOrder
      <4>5. item[j].ver <= last'
        BY <2>3, <4>2
      <4>6. QED
        BY <2>5, <2>15, <2>16, <4>3, <4>4, <4>5
    <3>3. QED
      BY <3>1, <3>2
  <2>17. ASSUME stream.incremental, ~stream.sorted, NEW i \in FewItems, Zendesk!Exists(i), i \notin disturbed,
                i <= last' \/ pc' = "left"
         PROVE  Zendesk!Owed(i) \subseteq emitted'
    <3>1. ~ZenExcused(i) /\ Zendesk!Place(i) = i
      BY <2>4, <2>17 DEF ZenExcused
    <3>2. CASE i <= last
      BY <2>1, <2>2, <2>17, <3>2 DEF ZenListed
    <3>3. QED
      BY <2>1, <2>2, <2>14, <2>17, <3>1, <3>2
  <2>18. ZenBehind'
    <3>1. SUFFICES ASSUME stream.incremental, stream.sorted, NEW i \in FewItems, Zendesk!Exists(i)',
                          (item[i].at < state)'
                   PROVE  Zendesk!Owed(i)' \subseteq emitted'
      BY <2>2 DEF ZenBehind
    <3>2. QED
      BY <2>2, <2>7, <2>16, <3>1
  <2>19. ZenRead'
    <3>1. SUFFICES ASSUME stream.incremental, stream.sorted, NEW i \in FewItems, Zendesk!Exists(i)',
                          (item[i].ver <= last)'
                   PROVE  Zendesk!Owed(i)' \subseteq emitted'
      BY <2>2 DEF ZenRead
    <3>2. QED
      BY <2>2, <2>7, <2>15, <3>1
  <2>20. ZenListed'
    BY <2>1, <2>2, <2>7, <2>17 DEF ZenListed
  <2>21. QED
    BY <2>8, <2>9, <2>10, <2>18, <2>19, <2>20
<1>9. CASE Zendesk!Finish
  <2>1. /\ pc = "left" /\ tasks_batch = {}
        /\ emitted' = emitted \cup buf /\ loaded' = emitted' /\ saved' = state
        /\ pc' = "idle" /\ state' = saved'
        /\ last' = 0 /\ tasks_batch' = {} /\ buf' = {}
        /\ UNCHANGED <<item, now, updates, disturbed, stream>>
    BY <1>9 DEF Zendesk!Finish, Zendesk!RecordsAndLastState, Zendesk!Exit, Zendesk!Stopped, Zendesk!service
  <2>2. ZenTypeOK' /\ ZenPast' /\ ZenOrder' /\ ZenBehind' /\ ZenRead' /\ ZenListed'
    BY <2>1 DEF ZenTypeOK, ZenPast, ZenOrder, ZenBehind, ZenRead, ZenListed, Zendesk!Exists
  <2>3. stream.incremental => Zendesk!get_bookmark(saved') = state
    BY <2>1 DEF Zendesk!get_bookmark, ZenTypeOK, ZenPast
  <2>4. \A i \in FewItems : Zendesk!Owed(i)' = Zendesk!Owed(i) /\ Zendesk!Exists(i)' = Zendesk!Exists(i) /\ ZenExcused(i)' = ZenExcused(i)
    BY <2>1 DEF Zendesk!Owed, Zendesk!Part, Zendesk!Exists, ZenExcused
  <2>5. ASSUME stream.incremental, NEW i \in FewItems, Zendesk!Exists(i), item[i].at < state
        PROVE  Zendesk!Owed(i) \subseteq emitted' \/ ZenExcused(i)
    BY <1>0, <2>1, <2>5 DEF ZenBehind, ZenListed, ZenExcused
  <2>6. ZenSaved'
    BY <2>1, <2>3, <2>4, <2>5 DEF ZenSaved, Zendesk!get_bookmark
  <2>7. QED
    BY <2>2, <2>6
<1>10. CASE Zendesk!Die /\ Zendesk!Stopped /\ UNCHANGED stream
  <2>1. /\ emitted' = loaded /\ pc' = "idle" /\ state' = saved'
        /\ last' = 0 /\ tasks_batch' = {} /\ buf' = {}
        /\ UNCHANGED <<item, now, updates, disturbed, stream, loaded, saved>>
    BY <1>10 DEF Zendesk!Die, Zendesk!Lost, Zendesk!Exit, Zendesk!Stopped, Zendesk!service
  <2>2. ZenTypeOK' /\ ZenPast' /\ ZenOrder' /\ ZenBehind' /\ ZenRead' /\ ZenListed'
    BY <2>1 DEF ZenTypeOK, ZenPast, ZenOrder, ZenBehind, ZenRead, ZenListed, Zendesk!Exists
  <2>3. ZenSaved'
    BY <2>1 DEF ZenSaved, Zendesk!get_bookmark, ZenExcused, Zendesk!Exists, Zendesk!Owed, Zendesk!Part
  <2>4. QED
    BY <2>2, <2>3
<1>11. CASE UNCHANGED Zendesk!zendeskVars
  <2>1. UNCHANGED <<item, now, updates, disturbed, pc, state, loaded, emitted, saved, stream, last, tasks_batch, buf>>
    BY <1>11 DEF Zendesk!zendeskVars, Zendesk!apiTapVars, Zendesk!service, Zendesk!pipe
  <2>2. ZenTypeOK' /\ ZenPast' /\ ZenOrder'
    BY <2>1 DEF ZenTypeOK, ZenPast, ZenOrder, Zendesk!Exists, Zendesk!HiddenByZone, Zendesk!get_bookmark
  <2>3. ZenSaved' /\ ZenBehind' /\ ZenRead' /\ ZenListed'
    BY <2>1 DEF ZenSaved, ZenBehind, ZenRead, ZenListed, ZenExcused, Zendesk!Exists, Zendesk!Owed, Zendesk!Part, Zendesk!get_bookmark
  <2>4. QED
    BY <2>2, <2>3
<1>13. QED
  BY <1>1, <1>2, <1>3, <1>4, <1>5, <1>6, <1>7, <1>8, <1>9, <1>10, <1>11, <1>12 DEF Zendesk!Next

\* What the saved bookmark passes is loaded or excused.
LEMMA ZenImplies == ZenInv => Zendesk!ZendeskSkipsNothing
BY DEF ZenInv, ZenSaved, ZenExcused, Zendesk!ZendeskSkipsNothing

-----------------------------------------------------------------------------
(* tap-salesforce: queries, chunked queries and jobs of batches            *)

\* A row of an answer: a version of an object, and its replication key.
SfRows == [rec : FewItems \X Nat, key : Nat \ {0}]
\* The state of a stream: its key and, for a bulk job, its batches and the highest key seen.
SfStates   == [key : Nat, JobID : BOOLEAN, BatchIDs : SUBSET Salesforce!Batches, JobHighestBookmarkSeen : Nat]

\* A query has its dates and its retries, and nothing else.
SfIsQuery(q) == q = [from |-> q.from, until |-> q.until, retries |-> q.retries]

\* Types of the state of tap-salesforce.
SfTypeOK ==
    /\ item \in [FewItems -> [ver : Nat, at : Nat]]
    /\ now \in Nat /\ now >= 1 /\ updates \in Nat
    /\ state \in SfStates /\ saved \in SfStates
    /\ loaded \subseteq emitted
    /\ pc \in {"idle", "query", "records", "chunks", "batches", "resume", "end"}
    /\ start_time \in Nat /\ chunked_bookmark \in Nat
    /\ SfIsQuery(query) /\ query.from \in Nat /\ query.until \in Nat
    /\ rows \subseteq SfRows
    /\ \A b \in DOMAIN job : job[b] \subseteq SfRows
    /\ resumed \in {"no", "yes", "expired"}

\* No key, bookmark or date is in the future.
SfPast ==
    /\ saved.key <= now /\ saved.JobHighestBookmarkSeen <= now
    /\ state.key <= now /\ state.JobHighestBookmarkSeen <= now
    /\ start_time <= now /\ chunked_bookmark <= now /\ query.from <= now /\ query.until <= now
    /\ \A i \in FewItems : item[i].at <= now /\ (Salesforce!Exists(i) => item[i].at >= 1)
    /\ \A r \in rows : r.key <= now
    /\ \A b \in DOMAIN job : \A r \in job[b] : r.key <= now

\* Where the state holds a job, and what a query has returned.
SfJobs ==
    /\ pc = "idle" => state = saved
    /\ pc \in {"query", "records", "chunks"} => ~saved.JobID /\ ~state.JobID
    /\ pc = "records" /\ query.until # 0 => \A r \in rows : r.key < query.until
    /\ pc = "batches" => state.JobID /\ state.BatchIDs # {} /\ DOMAIN job = Salesforce!Batches /\ pk_chunking
    /\ pc = "resume" => state.JobID /\ saved.JobID
    /\ pc = "end" /\ state.JobID => state.BatchIDs = {} /\ DOMAIN job = Salesforce!Batches
    /\ saved.JobID => job = Salesforce!NoJob \/ DOMAIN job = Salesforce!Batches

\* What the property leaves out.
SfExcused(i) == resumed = "expired" \/ (resumed = "yes" /\ i \in disturbed)

\* The job of a state is gone with batches that are not read.
SfGone(st) == st.JobID /\ st.BatchIDs # {} /\ job = Salesforce!NoJob

\* An object is in a batch that a run from the state st reads, or it is not
\* behind the bookmarks of st, nor of its batches unless it has changed in the
\* run that made them.
SfWaits(st, i) == st.JobID /\ BatchOf[i] \in st.BatchIDs /\ Salesforce!Row(i) \in job[BatchOf[i]]

\* Not behind the bookmarks of the state st, nor the rows of its batches.
SfAhead(st, i) ==
    /\ item[i].at >= Salesforce!get_start_date(st) /\ item[i].at >= st.JobHighestBookmarkSeen
    /\ st.JobID => i \in disturbed \/ \A b \in st.BatchIDs : \A r \in job[b] : r.key <= item[i].at

\* Every object that is not written in R is ahead of the state st or in its batches.
SfCovered(st, R) ==
    ~SfGone(st) => \A i \in FewItems : Salesforce!Exists(i) /\ Salesforce!Record(i) \notin R /\ ~SfExcused(i) =>
                                      SfWaits(st, i) \/ SfAhead(st, i)

\* The saved state covers what the warehouse does not have.
SfSaved == SfCovered(saved, loaded)

\* What a run has not written yet, for an object that is not excused: it is not
\* behind a bookmark or the dates of the query, and still to come in the answer
\* of the query, in a batch of the job, or after the end of the query.
SfBehind(i) ==
    /\ pc \in {"query", "records", "chunks", "end"} =>
           item[i].at >= Salesforce!get_start_date(state) /\ item[i].at >= state.JobHighestBookmarkSeen
    /\ pc \in {"query", "records", "chunks"} =>
           item[i].at >= chunked_bookmark /\ item[i].at >= query.from
    /\ pc = "records" => \/ Salesforce!Row(i) \in rows
                         \/ item[i].at >= IF query.until = 0 THEN start_time ELSE query.until
    /\ pc = "chunks" /\ BatchOf[i] \in DOMAIN job =>
           Salesforce!Row(i) \in job[BatchOf[i]] \/ (i \in disturbed /\ item[i].at >= start_time)
    /\ pc = "batches" =>
           \/ SfWaits(state, i) /\ (BatchOf[i] = Salesforce!Smallest(state.BatchIDs) => Salesforce!Row(i) \in rows)
           \/ /\ item[i].at >= Salesforce!get_start_date(state) /\ item[i].at >= state.JobHighestBookmarkSeen
              /\ item[i].at >= chunked_bookmark /\ item[i].at >= start_time /\ i \in disturbed
    /\ pc = "resume" /\ ~SfGone(state) =>
           SfWaits(state, i) \/ (SfAhead(state, i) /\ item[i].at >= chunked_bookmark)

\* Nothing is behind the run that it has not written.
SfRun == \A i \in FewItems : Salesforce!Exists(i) /\ Salesforce!Record(i) \notin emitted /\ ~SfExcused(i) => SfBehind(i)

\* The invariant of tap-salesforce.
SfInv == SfTypeOK /\ SfPast /\ SfJobs /\ SfSaved /\ SfRun

\* What is said of the objects depends on them and on the job alone.
LEMMA SfFrame ==
    ASSUME UNCHANGED <<item, disturbed, resumed>>
    PROVE  /\ \A i \in FewItems : /\ Salesforce!Exists(i)' = Salesforce!Exists(i) /\ Salesforce!Record(i)' = Salesforce!Record(i)
                               /\ Salesforce!Row(i)' = Salesforce!Row(i) /\ SfExcused(i)' = SfExcused(i)
           /\ SfSaved /\ UNCHANGED <<saved, loaded, job>> => SfSaved'
<1>1. \A i \in FewItems : /\ Salesforce!Exists(i)' = Salesforce!Exists(i) /\ Salesforce!Record(i)' = Salesforce!Record(i)
                       /\ Salesforce!Row(i)' = Salesforce!Row(i) /\ SfExcused(i)' = SfExcused(i)
  BY DEF Salesforce!Exists, Salesforce!Record, Salesforce!Row, SfExcused
<1>2. SfSaved /\ UNCHANGED <<saved, loaded, job>> => SfSaved'
  BY <1>1 DEF SfSaved, SfCovered, SfWaits, SfAhead, SfGone, Salesforce!get_start_date
<1>3. QED
  BY <1>1, <1>2

\* The batches of a state are numbers, and the service has a first one.
LEMMA SfBatches ==
    ASSUME NEW B, B \subseteq Salesforce!Batches, B # {}
    PROVE  Salesforce!Smallest(B) \in B
<1>1. B \subseteq Nat
  BY TapsAssumption DEF Salesforce!Batches
<1>2. \E x \in B : \A y \in B : x <= y
  BY <1>1, SmallestExists
<1>3. QED
  BY <1>2 DEF Salesforce!Smallest

\* The answer of a query has the rows of its dates.
LEMMA SfSelected ==
    ASSUME SfTypeOK, SfPast, NEW from \in Nat, NEW until \in Nat
    PROVE  /\ Salesforce!Selected(from, until) \subseteq SfRows
           /\ \A r \in Salesforce!Selected(from, until) : r.key <= now /\ (until # 0 => r.key < until)
           /\ \A i \in FewItems : Salesforce!Exists(i) /\ from <= item[i].at /\ (until # 0 => item[i].at < until)
                                   => Salesforce!Row(i) \in Salesforce!Selected(from, until)
<1>1. \A i \in FewItems : Salesforce!Exists(i) => Salesforce!Row(i) \in SfRows /\ Salesforce!Row(i).key = item[i].at /\ item[i].at <= now
  BY DEF SfTypeOK, SfPast, Salesforce!Row, Salesforce!Record, SfRows
<1>2. QED
  BY <1>1 DEF Salesforce!Selected

\* No query has no dates.
LEMMA SfNoQuery ==
    /\ SfIsQuery(Salesforce!NoQuery)
    /\ Salesforce!NoQuery.from = 0 /\ Salesforce!NoQuery.until = 0
<1>1. Salesforce!NoQuery.from = 0 /\ Salesforce!NoQuery.until = 0 /\ Salesforce!NoQuery.retries = 0
  BY DEF Salesforce!NoQuery
<1>2. QED
  BY <1>1 DEF Salesforce!NoQuery, SfIsQuery

\* An organisation without objects has none to skip.
LEMMA SfInit == Salesforce!Init => SfInv
<1>1. SUFFICES ASSUME Salesforce!Init PROVE SfInv
  OBVIOUS
<1>2. /\ item = [i \in FewItems |-> [ver |-> 0, at |-> 0]] /\ now = 1 /\ updates = 0 /\ pc = "idle"
      /\ state = Salesforce!NoState /\ saved = Salesforce!NoState /\ emitted = {} /\ loaded = {}
      /\ start_time = 0 /\ pk_chunking = FALSE /\ chunked_bookmark = 0
      /\ query = Salesforce!NoQuery /\ rows = {} /\ job = Salesforce!NoJob /\ resumed = "no"
  BY <1>1 DEF Salesforce!Init, Salesforce!ApiInit
<1>3. Salesforce!NoState \in SfStates /\ Salesforce!NoState.JobID = FALSE /\ Salesforce!NoState.key = 0 /\ Salesforce!NoState.JobHighestBookmarkSeen = 0
  BY DEF Salesforce!NoState, SfStates
<1>4. SfTypeOK /\ SfPast /\ SfJobs
  <2>1. DOMAIN Salesforce!NoJob = {}
    BY DEF Salesforce!NoJob
  <2>2. SfIsQuery(query) /\ query.from = 0 /\ query.until = 0
    BY <1>2, SfNoQuery
  <2>3. SfTypeOK
    BY <1>2, <1>3, <2>1, <2>2 DEF SfTypeOK
  <2>4. SfPast /\ SfJobs
    BY <1>2, <1>3, <2>1, <2>2 DEF SfPast, SfJobs, Salesforce!Exists
  <2>5. QED
    BY <2>3, <2>4
<1>5. SfSaved /\ SfRun
  BY <1>2 DEF SfSaved, SfCovered, SfRun, Salesforce!Exists
<1>6. QED
  BY <1>4, <1>5 DEF SfInv

\* Changes, queries and their time-outs, chunks, batches, resumed and expired jobs, the
\* end of a run and a death keep it.
LEMMA SfStep == SfInv /\ [Salesforce!Next]_(Salesforce!salesforceVars) => SfInv'
<1> SUFFICES ASSUME SfInv, [Salesforce!Next]_(Salesforce!salesforceVars) PROVE SfInv'
  OBVIOUS
<1> USE DEF SfInv
<1>0. /\ Salesforce!get_start_date(saved) \in Nat /\ 1 <= Salesforce!get_start_date(saved) /\ Salesforce!get_start_date(saved) <= now
      /\ Salesforce!get_start_date(state) \in Nat /\ 1 <= Salesforce!get_start_date(state) /\ Salesforce!get_start_date(state) <= now
      /\ state.key \in Nat /\ state.JobID \in BOOLEAN /\ state.BatchIDs \subseteq Salesforce!Batches
      /\ state.JobHighestBookmarkSeen \in Nat
      /\ state = [key |-> state.key, JobID |-> state.JobID, BatchIDs |-> state.BatchIDs,
                  JobHighestBookmarkSeen |-> state.JobHighestBookmarkSeen]
      /\ saved.JobHighestBookmarkSeen \in Nat /\ saved.BatchIDs \subseteq Salesforce!Batches
      /\ Salesforce!Batches # {} /\ \A i \in FewItems : BatchOf[i] \in Salesforce!Batches
      /\ DOMAIN Salesforce!NoJob = {}
  <2>1. /\ \A st \in SfStates : /\ st.key \in Nat /\ st.JobID \in BOOLEAN /\ st.BatchIDs \subseteq Salesforce!Batches
                             /\ st.JobHighestBookmarkSeen \in Nat
                             /\ st = [key |-> st.key, JobID |-> st.JobID, BatchIDs |-> st.BatchIDs,
                                      JobHighestBookmarkSeen |-> st.JobHighestBookmarkSeen]
        /\ state \in SfStates /\ saved \in SfStates /\ now \in Nat /\ now >= 1
    BY DEF SfTypeOK, SfStates
  <2>2. \A st \in SfStates : st.key <= now => Salesforce!get_start_date(st) \in Nat /\ 1 <= Salesforce!get_start_date(st)
                                           /\ Salesforce!get_start_date(st) <= now
    BY <2>1 DEF Salesforce!get_start_date, Salesforce!start_date
  <2>3. Salesforce!Batches # {} /\ \A i \in FewItems : BatchOf[i] \in Salesforce!Batches
    <3>1. FewItems # {}
      BY TapsAssumption
    <3>2. QED
      BY <3>1 DEF Salesforce!Batches
  <2>4. DOMAIN Salesforce!NoJob = {}
    BY DEF Salesforce!NoJob
  <2>5. saved.key <= now /\ state.key <= now
    BY DEF SfPast
  <2>6. QED
    BY <2>1, <2>2, <2>3, <2>4, <2>5
<1>1. ASSUME NEW i \in FewItems, Salesforce!Update(i) PROVE SfInv'
  <2>1. /\ item' = [item EXCEPT ![i] = [ver |-> updates + 1, at |-> now]] /\ updates' = updates + 1
        /\ disturbed' = IF pc = "idle" THEN (disturbed \ {i}) \cup {} ELSE disturbed \cup {i} \cup {}
        /\ UNCHANGED <<now, pc, state, saved, loaded, emitted>>
        /\ UNCHANGED <<start_time, pk_chunking, chunked_bookmark, query, rows, job, resumed>>
    BY <1>1 DEF Salesforce!Update, Salesforce!Change, Salesforce!run, Salesforce!pipe
  <2>2. /\ item'[i] = [ver |-> updates + 1, at |-> now] /\ item'[i].at = now
        /\ \A j \in FewItems \ {i} : item'[j] = item[j]
        /\ pc # "idle" => i \in disturbed'
    BY <2>1 DEF SfTypeOK
  <2>3. \A j \in FewItems \ {i} : /\ Salesforce!Exists(j)' = Salesforce!Exists(j) /\ Salesforce!Record(j)' = Salesforce!Record(j) /\ Salesforce!Row(j)' = Salesforce!Row(j)
                               /\ SfExcused(j)' = SfExcused(j) /\ (j \in disturbed' <=> j \in disturbed)
    BY <2>1, <2>2 DEF Salesforce!Exists, Salesforce!Record, Salesforce!Row, SfExcused
  <2>4. SfTypeOK'
    BY <2>1, <2>2 DEF SfTypeOK
  <2>5. SfPast' /\ SfJobs'
    BY <2>1, <2>2 DEF SfPast, SfJobs, SfTypeOK, Salesforce!Exists
  <2>6. ASSUME NEW st \in SfStates, st.key <= now, st.JobHighestBookmarkSeen <= now, ~SfGone(st),
               st.JobID => job = Salesforce!NoJob \/ DOMAIN job = Salesforce!Batches
        PROVE  SfAhead(st, i)'
    <3>1. Salesforce!get_start_date(st) <= now
      BY <2>6 DEF Salesforce!get_start_date, Salesforce!start_date, SfTypeOK
    <3>2. ASSUME st.JobID PROVE \A b \in st.BatchIDs : \A r \in job[b] : r.key <= now
      BY <2>6, <3>2 DEF SfStates, SfGone, SfPast
    <3>3. QED
      BY <2>1, <2>2, <2>6, <3>1, <3>2 DEF SfAhead, Salesforce!get_start_date
  <2>7. SfSaved'
    <3>1. SUFFICES ASSUME ~SfGone(saved), NEW j \in FewItems, Salesforce!Exists(j)', Salesforce!Record(j)' \notin loaded, ~SfExcused(j)'
                   PROVE  SfWaits(saved, j)' \/ SfAhead(saved, j)'
      BY <2>1 DEF SfSaved, SfCovered, SfGone
    <3>2. CASE j = i
      <4>1. SfAhead(saved, i)' = SfAhead(saved, i)'
        OBVIOUS
      <4>2. saved \in SfStates /\ saved' = saved
        BY <2>1 DEF SfTypeOK
      <4>3. \A st \in SfStates : st = saved => SfAhead(st, i)'
        BY <2>6, <3>1 DEF SfPast, SfJobs
      <4>4. QED
        BY <3>2, <4>2, <4>3 DEF SfAhead
    <3>3. CASE j # i
      BY <2>1, <2>2, <2>3, <3>1, <3>3 DEF SfSaved, SfCovered, SfWaits, SfAhead
    <3>4. QED
      BY <3>2, <3>3
  <2>8. SfRun'
    <3>1. SUFFICES ASSUME NEW j \in FewItems, Salesforce!Exists(j)', Salesforce!Record(j)' \notin emitted, ~SfExcused(j)'
                   PROVE  SfBehind(j)'
      BY <2>1 DEF SfRun
    <3>2. CASE j = i
      <4>1. pc = "resume" /\ ~SfGone(state) => \A st \in SfStates : st = state => SfAhead(st, i)'
        BY <2>6 DEF SfPast, SfJobs
      <4>2. pc = "resume" /\ ~SfGone(state) => SfAhead(state, i)'
        BY <2>1, <4>1 DEF SfTypeOK, SfAhead
      <4>3. SfGone(state)' = SfGone(state)
        BY <2>1 DEF SfGone
      <4>4. /\ Salesforce!get_start_date(state)' <= now /\ state.JobHighestBookmarkSeen <= now
            /\ chunked_bookmark <= now /\ query.from <= now /\ query.until <= now /\ start_time <= now
        BY <1>0, <2>1 DEF SfPast, Salesforce!get_start_date
      <4>5. QED
        BY <2>1, <2>2, <3>2, <4>2, <4>3, <4>4 DEF SfBehind, SfTypeOK
    <3>3. CASE j # i
      <4>1. SfBehind(j)
        BY <2>3, <3>1, <3>3 DEF SfRun
      <4>2. QED
        BY <2>1, <2>2, <2>3, <3>3, <4>1 DEF SfBehind, SfWaits, SfAhead, SfGone, Salesforce!get_start_date
    <3>4. QED
      BY <3>2, <3>3
  <2>9. QED
    BY <2>4, <2>5, <2>7, <2>8
<1>2. CASE Salesforce!Tick /\ UNCHANGED <<api_type, Salesforce!run, job, resumed>>
  <2>1. /\ now' = now + 1
        /\ UNCHANGED <<item, updates, disturbed, pc, state, saved, loaded, emitted>>
        /\ UNCHANGED <<start_time, pk_chunking, chunked_bookmark, query, rows, job, resumed>>
    BY <1>2 DEF Salesforce!Tick, Salesforce!run, Salesforce!pipe
  <2>2. SfTypeOK' /\ SfJobs'
    BY <2>1 DEF SfTypeOK, SfJobs, SfStates
  <2>3. SfPast'
    <3>1. /\ \A r \in rows : r.key \in Nat
          /\ \A b \in DOMAIN job : \A r \in job[b] : r.key \in Nat
          /\ now \in Nat /\ \A n \in Nat : n <= now => n <= now + 1
      BY DEF SfTypeOK, SfRows
    <3>2. QED
      BY <1>0, <2>1, <3>1 DEF SfPast, SfTypeOK, SfStates, Salesforce!Exists
  <2>4. SfSaved' /\ \A i \in FewItems : /\ Salesforce!Exists(i)' = Salesforce!Exists(i) /\ Salesforce!Record(i)' = Salesforce!Record(i)
                                     /\ Salesforce!Row(i)' = Salesforce!Row(i) /\ SfExcused(i)' = SfExcused(i)
    BY <2>1, SfFrame
  <2>5. SfRun'
    BY <2>1, <2>4 DEF SfRun, SfBehind, SfWaits, SfAhead, SfGone, Salesforce!get_start_date
  <2>6. QED
    BY <2>2, <2>3, <2>4, <2>5
<1>3. CASE Salesforce!do_sync
  <2>1. /\ pc = "idle" /\ start_time' = now /\ state' = saved
        /\ UNCHANGED <<item, now, updates, disturbed, saved, loaded, emitted, rows, job, resumed>>
        /\ \/ /\ saved.JobID /\ pc' = "resume"
              /\ chunked_bookmark' = IF saved.JobHighestBookmarkSeen # 0
                                     THEN saved.JobHighestBookmarkSeen ELSE Salesforce!get_start_date(saved)
              /\ UNCHANGED <<pk_chunking, query>>
           \/ /\ ~saved.JobID /\ pc' = "query" /\ chunked_bookmark' = Salesforce!get_start_date(saved)
              /\ pk_chunking' \in BOOLEAN
              /\ query' = [from |-> Salesforce!get_start_date(saved), until |-> 0, retries |-> MAX_RETRIES]
    BY <1>3 DEF Salesforce!do_sync, Salesforce!service, Salesforce!pipe
  <2>2. SfTypeOK'
    BY <1>0, <2>1 DEF SfTypeOK, SfIsQuery
  <2>3. SfPast' /\ SfJobs'
    BY <1>0, <2>1 DEF SfTypeOK, SfPast, SfJobs, Salesforce!Exists
  <2>4. SfSaved' /\ \A i \in FewItems : /\ Salesforce!Exists(i)' = Salesforce!Exists(i) /\ Salesforce!Record(i)' = Salesforce!Record(i)
                                     /\ Salesforce!Row(i)' = Salesforce!Row(i) /\ SfExcused(i)' = SfExcused(i)
    BY <2>1, SfFrame
  <2>5. SfRun'
    <3>1. SUFFICES ASSUME NEW i \in FewItems, Salesforce!Exists(i), Salesforce!Record(i) \notin emitted, ~SfExcused(i) PROVE SfBehind(i)'
      BY <2>1, <2>4 DEF SfRun
    <3>2. SfGone(saved) \/ SfWaits(saved, i) \/ SfAhead(saved, i)
      BY <3>1 DEF SfSaved, SfCovered, SfTypeOK
    <3>3. CASE saved.JobID /\ pc' = "resume"
      BY <2>1, <3>2, <3>3, <2>4 DEF SfBehind, SfGone, SfWaits, SfAhead, Salesforce!get_start_date, Salesforce!start_date
    <3>4. CASE ~saved.JobID /\ pc' = "query"
      BY <2>1, <3>2, <3>4 DEF SfBehind, SfGone, SfWaits, SfAhead, Salesforce!get_start_date, Salesforce!start_date
    <3>5. QED
      BY <2>1, <3>3, <3>4
  <2>6. QED
    BY <2>2, <2>3, <2>4, <2>5
<1>4. CASE Salesforce!QueryCompletes
  <2>1. /\ pc = "query" /\ pc' = "records" /\ rows' = Salesforce!Selected(query.from, query.until)
        /\ UNCHANGED <<item, now, updates, disturbed, state, saved, loaded, emitted>>
        /\ UNCHANGED <<start_time, pk_chunking, chunked_bookmark, query, job, resumed>>
    BY <1>4 DEF Salesforce!QueryCompletes, Salesforce!service, Salesforce!pipe
  <2>2. /\ rows' \subseteq SfRows
        /\ \A r \in rows' : r.key <= now /\ (query.until # 0 => r.key < query.until)
        /\ \A i \in FewItems : Salesforce!Exists(i) /\ query.from <= item[i].at /\ (query.until # 0 => item[i].at < query.until)
                                => Salesforce!Row(i) \in rows'
    <3>1. query.from \in Nat /\ query.until \in Nat
      BY DEF SfTypeOK
    <3>2. QED
      BY <2>1, <3>1, SfSelected
  <2>3. SfTypeOK' /\ SfPast' /\ SfJobs'
    BY <2>1, <2>2 DEF SfTypeOK, SfPast, SfJobs, Salesforce!Exists
  <2>4. SfSaved' /\ \A i \in FewItems : /\ Salesforce!Exists(i)' = Salesforce!Exists(i) /\ Salesforce!Record(i)' = Salesforce!Record(i)
                                     /\ Salesforce!Row(i)' = Salesforce!Row(i) /\ SfExcused(i)' = SfExcused(i)
    BY <2>1, SfFrame
  <2>5. SfRun'
    <3>1. SUFFICES ASSUME NEW i \in FewItems, Salesforce!Exists(i), Salesforce!Record(i) \notin emitted, ~SfExcused(i) PROVE SfBehind(i)'
      BY <2>1, <2>4 DEF SfRun
    <3>2. SfBehind(i)
      BY <3>1 DEF SfRun
    <3>3. item[i].at \in Nat /\ query.until \in Nat /\ query.from \in Nat
      BY DEF SfTypeOK
    <3>4. item[i].at >= Salesforce!get_start_date(state) /\ item[i].at >= state.JobHighestBookmarkSeen
          /\ item[i].at >= chunked_bookmark /\ item[i].at >= query.from
      BY <2>1, <3>2 DEF SfBehind
    <3>5. Salesforce!Row(i) \in rows' \/ (query.until # 0 /\ item[i].at >= query.until)
      BY <2>2, <3>1, <3>3, <3>4
    <3>6. QED
      BY <2>1, <2>4, <3>4, <3>5 DEF SfBehind, Salesforce!get_start_date
  <2>6. QED
    BY <2>3, <2>4, <2>5
<1>5. CASE Salesforce!RestTimeout
  <2> DEFINE end_date == IF query.until = 0 THEN now ELSE query.until
             half == (end_date - query.from) \div 2
  <2>1. /\ pc \in {"query", "records"} /\ pc' = "query" /\ rows' = {} /\ half > 0
        /\ query' = [query EXCEPT !.until = end_date - half, !.retries = @ - 1]
        /\ UNCHANGED <<item, now, updates, disturbed, state, saved, loaded, emitted>>
        /\ UNCHANGED <<start_time, pk_chunking, chunked_bookmark, job, resumed>>
    BY <1>5 DEF Salesforce!RestTimeout, Salesforce!service, Salesforce!pipe
  <2>2. end_date \in Nat /\ end_date <= now /\ query.from \in Nat
    BY DEF SfTypeOK, SfPast
  <2>3. end_date - half \in Nat /\ end_date - half <= now
    <3> HIDE DEF end_date
    <3>1. end_date - query.from \in Int
      BY <2>2
    <3>2. half \in Int /\ 2 * half <= end_date - query.from
      BY <3>1
    <3>3. now \in Nat
      BY DEF SfTypeOK
    <3> HIDE DEF half
    <3>4. QED
      BY <2>1, <2>2, <3>2, <3>3
  <2>4. query'.from = query.from /\ query'.until = end_date - half
        /\ SfIsQuery(query')
    <3> HIDE DEF half, end_date
    <3>1. query = [from |-> query.from, until |-> query.until, retries |-> query.retries]
      BY DEF SfTypeOK, SfIsQuery
    <3>2. query' = [from |-> query.from, until |-> end_date - half, retries |-> query.retries - 1]
      BY <2>1, <3>1
    <3>3. QED
      BY <3>2 DEF SfIsQuery
  <2> HIDE DEF half, end_date
  <2>5. SfTypeOK' /\ SfPast' /\ SfJobs'
    BY <2>1, <2>3, <2>4 DEF SfTypeOK, SfPast, SfJobs, Salesforce!Exists
  <2>6. SfSaved' /\ \A i \in FewItems : /\ Salesforce!Exists(i)' = Salesforce!Exists(i) /\ Salesforce!Record(i)' = Salesforce!Record(i)
                                     /\ Salesforce!Row(i)' = Salesforce!Row(i) /\ SfExcused(i)' = SfExcused(i)
    BY <2>1, SfFrame
  <2>7. SfRun'
    BY <2>1, <2>4, <2>6 DEF SfRun, SfBehind, Salesforce!get_start_date
  <2>8. QED
    BY <2>5, <2>6, <2>7
<1>6. CASE Salesforce!BulkTimeout
  <2>1. /\ pc = "query" /\ pc' = "chunks" /\ job' = Salesforce!NoJob
        /\ UNCHANGED <<item, now, updates, disturbed, state, saved, loaded, emitted>>
        /\ UNCHANGED <<start_time, pk_chunking, chunked_bookmark, query, rows, resumed>>
    BY <1>6 DEF Salesforce!BulkTimeout, Salesforce!service, Salesforce!run, Salesforce!pipe
  <2>2. SfTypeOK' /\ SfPast' /\ SfJobs'
    BY <1>0, <2>1 DEF SfTypeOK, SfPast, SfJobs, Salesforce!Exists
  <2>3. \A i \in FewItems : /\ Salesforce!Exists(i)' = Salesforce!Exists(i) /\ Salesforce!Record(i)' = Salesforce!Record(i)
                         /\ Salesforce!Row(i)' = Salesforce!Row(i) /\ SfExcused(i)' = SfExcused(i)
    BY <2>1, SfFrame
  <2>4. SfSaved'
    BY <2>1, <2>3 DEF SfSaved, SfJobs, SfCovered, SfWaits, SfAhead, SfGone, Salesforce!get_start_date
  <2>5. SfRun'
    BY <1>0, <2>1, <2>3 DEF SfRun, SfBehind, Salesforce!get_start_date
  <2>6. QED
    BY <2>2, <2>4, <2>5
<1>7. ASSUME NEW b \in Salesforce!Batches, Salesforce!RunBatch(b) PROVE SfInv'
  <2>1. /\ pc = "chunks" /\ b \notin DOMAIN job
        /\ job' = [c \in DOMAIN job \cup {b} |->
                      IF c = b THEN {r \in Salesforce!Selected(query.from, 0) : BatchOf[r.rec[1]] = b} ELSE job[c]]
        /\ UNCHANGED <<item, now, updates, disturbed, pc, state, saved, loaded, emitted>>
        /\ UNCHANGED <<start_time, pk_chunking, chunked_bookmark, query, rows, resumed>>
    BY <1>7 DEF Salesforce!RunBatch, Salesforce!service, Salesforce!run, Salesforce!pipe
  <2>2. /\ DOMAIN job' = DOMAIN job \cup {b}
        /\ job'[b] = {r \in Salesforce!Selected(query.from, 0) : BatchOf[r.rec[1]] = b}
        /\ \A c \in DOMAIN job : job'[c] = job[c]
    BY <2>1
  <2>3. query.from \in Nat
    BY DEF SfTypeOK
  <2>4. /\ Salesforce!Selected(query.from, 0) \subseteq SfRows
        /\ \A r \in Salesforce!Selected(query.from, 0) : r.key <= now
        /\ \A i \in FewItems : Salesforce!Exists(i) /\ query.from <= item[i].at => Salesforce!Row(i) \in Salesforce!Selected(query.from, 0)
    BY <2>3, SfSelected
  <2>5. SfTypeOK' /\ SfPast' /\ SfJobs'
    BY <2>1, <2>2, <2>4 DEF SfTypeOK, SfPast, SfJobs, Salesforce!Exists
  <2>6. \A i \in FewItems : /\ Salesforce!Exists(i)' = Salesforce!Exists(i) /\ Salesforce!Record(i)' = Salesforce!Record(i)
                         /\ Salesforce!Row(i)' = Salesforce!Row(i) /\ SfExcused(i)' = SfExcused(i)
    BY <2>1, SfFrame
  <2>7. SfSaved'
    BY <2>1, <2>6 DEF SfSaved, SfJobs, SfCovered, SfWaits, SfAhead, SfGone, Salesforce!get_start_date
  <2>8. SfRun'
    <3>1. SUFFICES ASSUME NEW i \in FewItems, Salesforce!Exists(i), Salesforce!Record(i) \notin emitted, ~SfExcused(i),
                          BatchOf[i] \in DOMAIN job'
                   PROVE  Salesforce!Row(i) \in job'[BatchOf[i]] \/ (i \in disturbed /\ item[i].at >= start_time)
      BY <2>1, <2>6 DEF SfRun, SfBehind, Salesforce!get_start_date
    <3>2. CASE BatchOf[i] = b
      <4>1. item[i].at >= query.from /\ item[i].at \in Nat
        BY <2>1, <3>1 DEF SfRun, SfBehind, SfTypeOK
      <4>2. Salesforce!Row(i) \in Salesforce!Selected(query.from, 0) /\ Salesforce!Row(i).rec[1] = i
        BY <2>3, <2>4, <3>1, <4>1 DEF Salesforce!Row, Salesforce!Record
      <4>3. QED
        BY <2>2, <3>2, <4>2
    <3>3. CASE BatchOf[i] # b
      BY <2>1, <2>2, <3>1, <3>3 DEF SfRun, SfBehind
    <3>4. QED
      BY <3>2, <3>3
  <2>9. QED
    BY <2>5, <2>7, <2>8
<1>8. CASE Salesforce!BatchesComplete
  <2>1. /\ pc = "chunks" /\ DOMAIN job = Salesforce!Batches /\ pc' = "batches" /\ pk_chunking' = TRUE
        /\ state' = [state EXCEPT !.JobID = TRUE, !.BatchIDs = Salesforce!Batches]
        /\ rows' = job[Salesforce!Smallest(Salesforce!Batches)]
        /\ UNCHANGED <<item, now, updates, disturbed, saved, loaded, emitted>>
        /\ UNCHANGED <<start_time, chunked_bookmark, query, job, resumed>>
    BY <1>8 DEF Salesforce!BatchesComplete, Salesforce!service, Salesforce!pipe
  <2>2. Salesforce!Smallest(Salesforce!Batches) \in Salesforce!Batches
    BY <1>0, SfBatches
  <2>3. state' = [key |-> state.key, JobID |-> TRUE, BatchIDs |-> Salesforce!Batches,
                  JobHighestBookmarkSeen |-> state.JobHighestBookmarkSeen]
    BY <1>0, <2>1
  <2>4. /\ state'.key = state.key /\ state'.JobID /\ state'.BatchIDs = Salesforce!Batches
        /\ state'.JobHighestBookmarkSeen = state.JobHighestBookmarkSeen /\ state' \in SfStates
        /\ Salesforce!get_start_date(state') = Salesforce!get_start_date(state)
    BY <1>0, <2>3 DEF SfStates, Salesforce!get_start_date
  <2>5. SfTypeOK' /\ SfPast' /\ SfJobs'
    BY <1>0, <2>1, <2>2, <2>4 DEF SfTypeOK, SfPast, SfJobs, Salesforce!Exists
  <2>6. SfSaved' /\ \A i \in FewItems : /\ Salesforce!Exists(i)' = Salesforce!Exists(i) /\ Salesforce!Record(i)' = Salesforce!Record(i)
                                     /\ Salesforce!Row(i)' = Salesforce!Row(i) /\ SfExcused(i)' = SfExcused(i)
    BY <2>1, SfFrame
  <2>7. SfRun'
    <3>1. SUFFICES ASSUME NEW i \in FewItems, Salesforce!Exists(i), Salesforce!Record(i) \notin emitted, ~SfExcused(i) PROVE SfBehind(i)'
      BY <2>1, <2>6 DEF SfRun
    <3>2. SfBehind(i)
      BY <3>1 DEF SfRun
    <3>3. QED
      BY <1>0, <2>1, <2>4, <2>6, <3>2 DEF SfBehind, SfWaits, Salesforce!get_start_date
  <2>8. QED
    BY <2>5, <2>6, <2>7
<1>9. ASSUME NEW r \in rows, Salesforce!ReadRecord(r) PROVE SfInv'
  <2> DEFINE moves == Salesforce!InRange(r.key) /\ ~(pk_chunking /\ r.key <= chunked_bookmark)
  <2>1. /\ pc \in {"records", "batches"} /\ rows' = rows \ {r}
        /\ pc = "records" => \A s \in rows : r.key <= s.key
        /\ emitted' = emitted \cup {r.rec}
        /\ ~moves => UNCHANGED <<state, chunked_bookmark, loaded, saved>>
        /\ moves => /\ chunked_bookmark' = IF pk_chunking THEN r.key ELSE chunked_bookmark
                    /\ state' = IF pk_chunking THEN [state EXCEPT !.JobHighestBookmarkSeen = r.key]
                                               ELSE [state EXCEPT !.key = r.key]
                    /\ \/ loaded' = emitted' /\ saved' = state'
                       \/ UNCHANGED <<loaded, saved>>
        /\ UNCHANGED <<item, now, updates, disturbed, pc>>
        /\ UNCHANGED <<start_time, pk_chunking, query, job, resumed>>
    BY <1>9 DEF Salesforce!ReadRecord, Salesforce!RecordsAndState, Salesforce!Records, Salesforce!service
  <2>2. r.key \in Nat \ {0} /\ r.key <= now /\ (moves => r.key <= start_time)
    BY DEF SfTypeOK, SfPast, SfRows, Salesforce!InRange
  <2>3. moves => state' = [key |-> IF pk_chunking THEN state.key ELSE r.key, JobID |-> state.JobID,
                           BatchIDs |-> state.BatchIDs,
                           JobHighestBookmarkSeen |-> IF pk_chunking THEN r.key
                                                                     ELSE state.JobHighestBookmarkSeen]
    BY <1>0, <2>1
  <2>4. \A i \in FewItems : Salesforce!Row(i) = r => Salesforce!Record(i) = r.rec /\ item[i].at = r.key
    BY DEF Salesforce!Row
  <2> HIDE DEF moves
  <2>5. moves => /\ state'.JobID = state.JobID /\ state'.BatchIDs = state.BatchIDs
                 /\ state'.key \in {state.key, r.key}
                 /\ state'.JobHighestBookmarkSeen \in {state.JobHighestBookmarkSeen, r.key}
                 /\ chunked_bookmark' \in {chunked_bookmark, r.key}
                 /\ Salesforce!get_start_date(state') \in {Salesforce!get_start_date(state), r.key}
    BY <2>1, <2>2, <2>3 DEF Salesforce!get_start_date
  <2>6. /\ state' \in SfStates /\ saved' \in SfStates /\ loaded' \subseteq emitted'
        /\ chunked_bookmark' \in Nat /\ chunked_bookmark' <= now
        /\ state'.key <= now /\ state'.JobHighestBookmarkSeen <= now
        /\ saved'.key <= now /\ saved'.JobHighestBookmarkSeen <= now
        /\ state'.JobID = state.JobID /\ state'.BatchIDs = state.BatchIDs
    <3>1. CASE moves
      <4>1. state' \in SfStates
        BY <1>0, <2>2, <2>3, <3>1 DEF SfStates
      <4>2. state'.key <= now /\ state'.JobHighestBookmarkSeen <= now
        BY <2>2, <2>5, <3>1 DEF SfPast
      <4>3. QED
        BY <2>1, <2>2, <2>5, <3>1, <4>1, <4>2 DEF SfTypeOK, SfPast
    <3>2. CASE ~moves
      BY <2>1, <3>2 DEF SfTypeOK, SfPast
    <3>3. QED
      BY <3>1, <3>2
  <2>7. SfTypeOK'
    BY <2>1, <2>6 DEF SfTypeOK
  <2>8. SfPast'
    BY <2>1, <2>6 DEF SfPast, Salesforce!Exists
  <2>9. SfJobs'
    <3>1. saved'.JobID => saved.JobID \/ (pc = "batches" /\ DOMAIN job = Salesforce!Batches)
      BY <2>1, <2>6 DEF SfJobs
    <3>2. pc = "records" => ~saved'.JobID
      BY <2>1, <2>6 DEF SfJobs
    <3>3. QED
      BY <2>1, <2>6, <3>1, <3>2 DEF SfJobs
  <2>10. \A i \in FewItems : /\ Salesforce!Exists(i)' = Salesforce!Exists(i) /\ Salesforce!Record(i)' = Salesforce!Record(i)
                          /\ Salesforce!Row(i)' = Salesforce!Row(i) /\ SfExcused(i)' = SfExcused(i)
    BY <2>1, SfFrame
  <2>11. ASSUME NEW i \in FewItems, Salesforce!Exists(i), Salesforce!Record(i) \notin emitted', ~SfExcused(i)
         PROVE  /\ pc = "records" =>
                     /\ item[i].at >= Salesforce!get_start_date(state') /\ item[i].at >= state'.JobHighestBookmarkSeen
                     /\ item[i].at >= chunked_bookmark' /\ item[i].at >= query.from
                     /\ \/ Salesforce!Row(i) \in rows'
                        \/ item[i].at >= IF query.until = 0 THEN start_time ELSE query.until
                /\ pc = "batches" =>
                     \/ SfWaits(state', i) /\ (BatchOf[i] = Salesforce!Smallest(state.BatchIDs) => Salesforce!Row(i) \in rows')
                     \/ /\ item[i].at >= Salesforce!get_start_date(state') /\ item[i].at >= state'.JobHighestBookmarkSeen
                        /\ item[i].at >= chunked_bookmark' /\ item[i].at >= start_time /\ i \in disturbed
    <3>1. SfBehind(i) /\ Salesforce!Row(i) # r
      BY <2>1, <2>4, <2>11 DEF SfRun
    <3>2. item[i].at \in Nat /\ start_time \in Nat /\ query.until \in Nat
      BY DEF SfTypeOK
    <3>3. CASE pc = "records"
      <4>1. Salesforce!Row(i) \in rows' \/ item[i].at >= (IF query.until = 0 THEN start_time ELSE query.until)
        BY <2>1, <3>1, <3>3 DEF SfBehind
      <4>2. moves => item[i].at >= r.key
        <5>1. CASE Salesforce!Row(i) \in rows'
          BY <2>1, <3>3, <5>1 DEF Salesforce!Row
        <5>2. CASE item[i].at >= (IF query.until = 0 THEN start_time ELSE query.until)
          BY <2>2, <3>2, <3>3, <5>2 DEF SfJobs
        <5>3. QED
          BY <4>1, <5>1, <5>2
      <4>3. /\ item[i].at >= Salesforce!get_start_date(state) /\ item[i].at >= state.JobHighestBookmarkSeen
            /\ item[i].at >= chunked_bookmark /\ item[i].at >= query.from
        BY <3>1, <3>3 DEF SfBehind
      <4>4. /\ item[i].at >= Salesforce!get_start_date(state') /\ item[i].at >= state'.JobHighestBookmarkSeen
            /\ item[i].at >= chunked_bookmark'
        BY <2>1, <2>5, <4>2, <4>3
      <4>5. QED
        BY <3>3, <4>1, <4>3, <4>4
    <3>4. CASE pc = "batches"
      <4>1. CASE SfWaits(state, i) /\ (BatchOf[i] = Salesforce!Smallest(state.BatchIDs) => Salesforce!Row(i) \in rows)
        BY <2>1, <2>6, <3>1, <3>4, <4>1 DEF SfWaits
      <4>2. CASE /\ item[i].at >= Salesforce!get_start_date(state) /\ item[i].at >= state.JobHighestBookmarkSeen
                 /\ item[i].at >= chunked_bookmark /\ item[i].at >= start_time /\ i \in disturbed
        <5>1. moves => item[i].at >= r.key
          BY <2>2, <3>2, <4>2
        <5>2. /\ item[i].at >= Salesforce!get_start_date(state') /\ item[i].at >= state'.JobHighestBookmarkSeen
              /\ item[i].at >= chunked_bookmark'
          BY <2>1, <2>5, <4>2, <5>1
        <5>3. QED
          BY <3>4, <4>2, <5>2
      <4>3. QED
        BY <3>1, <3>4, <4>1, <4>2 DEF SfBehind
    <3>5. QED
      BY <2>1, <3>3, <3>4
  <2>12. SfRun'
    <3>1. SUFFICES ASSUME NEW i \in FewItems, Salesforce!Exists(i), Salesforce!Record(i) \notin emitted', ~SfExcused(i) PROVE SfBehind(i)'
      BY <2>10 DEF SfRun
    <3>2. Salesforce!get_start_date(state)' = Salesforce!get_start_date(state')
      OBVIOUS
    <3>3. SfWaits(state', i) => SfWaits(state, i)'
      BY <2>1, <2>10 DEF SfWaits
    <3>4. QED
      BY <2>1, <2>6, <2>10, <2>11, <3>1, <3>3 DEF SfBehind, Salesforce!get_start_date
  <2>13. SfSaved'
    <3>1. CASE loaded' = emitted' /\ saved' = state'
      <4>1. SUFFICES ASSUME NEW i \in FewItems, Salesforce!Exists(i), Salesforce!Record(i) \notin emitted', ~SfExcused(i)
                     PROVE  SfWaits(saved, i)' \/ SfAhead(saved, i)'
        BY <2>10, <3>1 DEF SfSaved, SfCovered
      <4>2. SfWaits(state', i) => SfWaits(saved, i)'
        BY <2>1, <2>10, <3>1 DEF SfWaits
      <4>3. CASE pc = "records"
        BY <2>1, <2>6, <2>11, <3>1, <4>1, <4>3 DEF SfAhead, SfJobs, Salesforce!get_start_date
      <4>4. CASE pc = "batches"
        BY <2>1, <2>6, <2>11, <3>1, <4>1, <4>2, <4>4 DEF SfAhead, Salesforce!get_start_date
      <4>5. QED
        BY <2>1, <4>3, <4>4
    <3>2. CASE UNCHANGED <<loaded, saved>>
      BY <2>1, <3>2, SfFrame
    <3>3. QED
      BY <2>1, <3>1, <3>2
  <2>14. QED
    BY <2>7, <2>8, <2>9, <2>12, <2>13
<1>10. CASE Salesforce!NextDates
  <2>1. /\ pc = "records" /\ rows = {} /\ query.until # 0 /\ pc' = "query"
        /\ query' = [query EXCEPT !.from = query.until, !.until = 0]
        /\ UNCHANGED <<item, now, updates, disturbed, state, saved, loaded, emitted>>
        /\ UNCHANGED <<start_time, pk_chunking, chunked_bookmark, rows, job, resumed>>
    BY <1>10 DEF Salesforce!NextDates, Salesforce!service, Salesforce!pipe
  <2>2. query' = [from |-> query.until, until |-> 0, retries |-> query.retries]
    <3>1. query = [from |-> query.from, until |-> query.until, retries |-> query.retries]
      BY DEF SfTypeOK, SfIsQuery
    <3>2. QED
      BY <2>1, <3>1
  <2>9. /\ query'.from = query.until /\ query'.until = 0
        /\ SfIsQuery(query')
    BY <2>2 DEF SfIsQuery
  <2>3. SfTypeOK' /\ SfPast' /\ SfJobs'
    BY <2>1, <2>9 DEF SfTypeOK, SfPast, SfJobs, Salesforce!Exists
  <2>4. SfSaved' /\ \A i \in FewItems : /\ Salesforce!Exists(i)' = Salesforce!Exists(i) /\ Salesforce!Record(i)' = Salesforce!Record(i)
                                     /\ Salesforce!Row(i)' = Salesforce!Row(i) /\ SfExcused(i)' = SfExcused(i)
    BY <2>1, SfFrame
  <2>5. SfRun'
    BY <2>1, <2>2, <2>4 DEF SfRun, SfBehind, Salesforce!get_start_date
  <2>6. QED
    BY <2>3, <2>4, <2>5
<1>11. CASE Salesforce!EndRecords
  <2>1. /\ pc = "records" /\ rows = {} /\ query.until = 0 /\ pc' = "end" /\ state' = Salesforce!WithKey(state)
        /\ UNCHANGED <<item, now, updates, disturbed, saved, loaded, emitted>>
        /\ UNCHANGED <<start_time, pk_chunking, chunked_bookmark, query, rows, job, resumed>>
    BY <1>11 DEF Salesforce!EndRecords, Salesforce!service, Salesforce!run, Salesforce!pipe
  <2>2. state' = [key |-> IF pk_chunking THEN chunked_bookmark ELSE state.key, JobID |-> state.JobID,
                  BatchIDs |-> state.BatchIDs, JobHighestBookmarkSeen |-> state.JobHighestBookmarkSeen]
    BY <1>0, <2>1 DEF Salesforce!WithKey
  <2>3. /\ state' \in SfStates /\ state'.key <= now /\ state'.JobHighestBookmarkSeen <= now /\ ~state'.JobID
        /\ state'.JobHighestBookmarkSeen = state.JobHighestBookmarkSeen
    BY <1>0, <2>1, <2>2 DEF SfStates, SfTypeOK, SfPast, SfJobs
  <2>4. SfTypeOK' /\ SfPast' /\ SfJobs'
    BY <2>1, <2>3 DEF SfTypeOK, SfPast, SfJobs, Salesforce!Exists
  <2>5. SfSaved' /\ \A i \in FewItems : /\ Salesforce!Exists(i)' = Salesforce!Exists(i) /\ Salesforce!Record(i)' = Salesforce!Record(i)
                                     /\ Salesforce!Row(i)' = Salesforce!Row(i) /\ SfExcused(i)' = SfExcused(i)
    BY <2>1, SfFrame
  <2>6. SfRun'
    <3>1. SUFFICES ASSUME NEW i \in FewItems, Salesforce!Exists(i), Salesforce!Record(i) \notin emitted, ~SfExcused(i) PROVE SfBehind(i)'
      BY <2>1, <2>5 DEF SfRun
    <3>2. /\ item[i].at >= Salesforce!get_start_date(state) /\ item[i].at >= state.JobHighestBookmarkSeen
          /\ item[i].at >= chunked_bookmark
      BY <2>1, <3>1 DEF SfRun, SfBehind
    <3>3. item[i].at \in Nat /\ item[i].at >= 1
      BY <3>1 DEF SfTypeOK, SfPast
    <3>4. item[i].at >= Salesforce!get_start_date(state')
      BY <2>2, <3>2, <3>3 DEF Salesforce!get_start_date, Salesforce!start_date
    <3>5. QED
      BY <2>1, <2>3, <3>2, <3>4 DEF SfBehind, Salesforce!get_start_date
  <2>7. QED
    BY <2>4, <2>5, <2>6
<1>12. CASE Salesforce!EndBatch
  <2> DEFINE left == [state EXCEPT !.BatchIDs = @ \ {Salesforce!Smallest(@)}]
             rest == state.BatchIDs \ {Salesforce!Smallest(state.BatchIDs)}
  <2>1. /\ pc = "batches" /\ rows = {} /\ Salesforce!RecordsAndState({}, left)
        /\ \/ left.BatchIDs = {} /\ pc' = "end" /\ state' = Salesforce!WithKey(left) /\ UNCHANGED rows
           \/ left.BatchIDs # {} /\ state' = left /\ rows' = job[Salesforce!Smallest(left.BatchIDs)] /\ UNCHANGED pc
        /\ UNCHANGED <<item, now, updates, disturbed>>
        /\ UNCHANGED <<start_time, pk_chunking, chunked_bookmark, query, job, resumed>>
    BY <1>12 DEF Salesforce!EndBatch, Salesforce!service
  <2>2. left = [key |-> state.key, JobID |-> state.JobID, BatchIDs |-> rest,
                JobHighestBookmarkSeen |-> state.JobHighestBookmarkSeen]
    <3>1. state \in SfStates
      BY DEF SfTypeOK
    <3>2. QED
      BY <3>1 DEF SfStates
  <2>3. /\ emitted' = emitted /\ loaded' \subseteq emitted'
        /\ \/ loaded' = emitted /\ saved' = left
           \/ UNCHANGED <<loaded, saved>>
    BY <2>1 DEF Salesforce!RecordsAndState, SfTypeOK
  <2>4. /\ state.JobID /\ DOMAIN job = Salesforce!Batches /\ pk_chunking /\ state.BatchIDs # {} /\ job # Salesforce!NoJob
        /\ rest \subseteq Salesforce!Batches
    BY <1>0, <2>1 DEF SfJobs
  <2>5. /\ left \in SfStates /\ left.key = state.key /\ left.JobID /\ left.BatchIDs = rest
        /\ left.JobHighestBookmarkSeen = state.JobHighestBookmarkSeen
        /\ Salesforce!get_start_date(left) = Salesforce!get_start_date(state)
    BY <1>0, <2>2, <2>4 DEF SfStates, Salesforce!get_start_date
  <2> HIDE DEF left
  <2>6. /\ rest = {} => /\ pc' = "end" /\ UNCHANGED rows
                        /\ state' = [key |-> chunked_bookmark, JobID |-> TRUE, BatchIDs |-> {},
                                     JobHighestBookmarkSeen |-> state.JobHighestBookmarkSeen]
        /\ rest # {} => /\ pc' = "batches" /\ state' = left /\ rows' = job[Salesforce!Smallest(rest)]
    BY <2>1, <2>2, <2>4, <2>5 DEF Salesforce!WithKey
  <2>7. rest # {} => Salesforce!Smallest(rest) \in rest
    BY <2>4, SfBatches
  <2>8. /\ state' \in SfStates /\ state'.key <= now /\ state'.JobHighestBookmarkSeen <= now
        /\ state'.JobID /\ state'.BatchIDs = rest
        /\ state'.JobHighestBookmarkSeen = state.JobHighestBookmarkSeen
        /\ rows' \subseteq SfRows /\ \A r \in rows' : r.key <= now
    <3>1. CASE rest = {}
      <4>1. state' = [key |-> chunked_bookmark, JobID |-> TRUE, BatchIDs |-> {},
                      JobHighestBookmarkSeen |-> state.JobHighestBookmarkSeen] /\ rows' = rows
        BY <2>6, <3>1
      <4>2. chunked_bookmark \in Nat /\ chunked_bookmark <= now
        BY DEF SfTypeOK, SfPast
      <4>3. state' \in SfStates
        BY <1>0, <4>1, <4>2 DEF SfStates
      <4>4. QED
        BY <3>1, <4>1, <4>2, <4>3 DEF SfTypeOK, SfPast
    <3>2. CASE rest # {}
      <4>1. Salesforce!Smallest(rest) \in DOMAIN job
        BY <2>4, <2>7, <3>2
      <4>2. QED
        BY <2>5, <2>6, <3>2, <4>1 DEF SfTypeOK, SfPast
    <3>3. QED
      BY <3>1, <3>2
  <2>9. /\ saved' \in SfStates /\ saved'.key <= now /\ saved'.JobHighestBookmarkSeen <= now
        /\ saved'.JobID => saved.JobID \/ saved' = left
    BY <2>3, <2>5 DEF SfTypeOK, SfPast
  <2>10. SfTypeOK'
    BY <2>1, <2>3, <2>6, <2>8, <2>9 DEF SfTypeOK
  <2>11. SfPast'
    BY <2>1, <2>8, <2>9 DEF SfPast, Salesforce!Exists
  <2>12. SfJobs'
    BY <2>1, <2>4, <2>6, <2>8, <2>9 DEF SfJobs
  <2>13. \A i \in FewItems : /\ Salesforce!Exists(i)' = Salesforce!Exists(i) /\ Salesforce!Record(i)' = Salesforce!Record(i)
                          /\ Salesforce!Row(i)' = Salesforce!Row(i) /\ SfExcused(i)' = SfExcused(i)
    BY <2>1, SfFrame
  <2>14. ASSUME NEW i \in FewItems, Salesforce!Exists(i), Salesforce!Record(i) \notin emitted, ~SfExcused(i)
         PROVE  \/ BatchOf[i] \in rest /\ Salesforce!Row(i) \in job[BatchOf[i]]
                \/ /\ item[i].at >= Salesforce!get_start_date(state) /\ item[i].at >= state.JobHighestBookmarkSeen
                   /\ item[i].at >= chunked_bookmark /\ item[i].at >= start_time /\ i \in disturbed
    BY <2>1, <2>14 DEF SfRun, SfBehind, SfWaits
  <2>15. SfRun'
    <3>1. SUFFICES ASSUME NEW i \in FewItems, Salesforce!Exists(i), Salesforce!Record(i) \notin emitted, ~SfExcused(i) PROVE SfBehind(i)'
      BY <2>3, <2>13 DEF SfRun
    <3>2. CASE rest = {}
      <4>1. /\ item[i].at >= state.JobHighestBookmarkSeen /\ item[i].at >= chunked_bookmark
            /\ item[i].at \in Nat /\ item[i].at >= 1
        BY <2>14, <3>1, <3>2 DEF SfTypeOK, SfPast
      <4>2. state'.key = chunked_bookmark
        BY <2>6, <3>2
      <4>3. item[i].at >= Salesforce!get_start_date(state')
        BY <4>1, <4>2 DEF Salesforce!get_start_date, Salesforce!start_date
      <4>4. QED
        BY <2>1, <2>6, <2>8, <3>2, <4>1, <4>3 DEF SfBehind, Salesforce!get_start_date
    <3>3. CASE rest # {}
      <4>1. pc' = "batches" /\ state' = left /\ rows' = job[Salesforce!Smallest(rest)]
        BY <2>6, <3>3
      <4>2. CASE BatchOf[i] \in rest /\ Salesforce!Row(i) \in job[BatchOf[i]]
        <5>1. SfWaits(state, i)' /\ (BatchOf[i] = Salesforce!Smallest(state'.BatchIDs) => Salesforce!Row(i)' \in rows')
          BY <2>1, <2>8, <2>13, <4>1, <4>2 DEF SfWaits
        <5>2. QED
          BY <4>1, <5>1 DEF SfBehind
      <4>3. CASE /\ item[i].at >= Salesforce!get_start_date(state) /\ item[i].at >= state.JobHighestBookmarkSeen
                 /\ item[i].at >= chunked_bookmark /\ item[i].at >= start_time /\ i \in disturbed
        BY <2>1, <2>5, <4>1, <4>3 DEF SfBehind, Salesforce!get_start_date
      <4>4. QED
        BY <2>14, <3>1, <4>2, <4>3
    <3>4. QED
      BY <3>2, <3>3
  <2>16. SfSaved'
    <3>1. CASE loaded' = emitted /\ saved' = left
      <4>1. SUFFICES ASSUME NEW i \in FewItems, Salesforce!Exists(i), Salesforce!Record(i) \notin emitted, ~SfExcused(i)
                     PROVE  SfWaits(saved, i)' \/ SfAhead(saved, i)'
        BY <2>13, <3>1 DEF SfSaved, SfCovered
      <4>2. CASE BatchOf[i] \in rest /\ Salesforce!Row(i) \in job[BatchOf[i]]
        BY <2>1, <2>5, <2>13, <3>1, <4>2 DEF SfWaits
      <4>3. CASE /\ item[i].at >= Salesforce!get_start_date(state) /\ item[i].at >= state.JobHighestBookmarkSeen
                 /\ item[i].at >= chunked_bookmark /\ item[i].at >= start_time /\ i \in disturbed
        BY <2>1, <2>5, <3>1, <4>3 DEF SfAhead, Salesforce!get_start_date
      <4>4. QED
        BY <2>14, <4>1, <4>2, <4>3
    <3>2. CASE UNCHANGED <<loaded, saved>>
      BY <2>1, <3>2, SfFrame
    <3>3. QED
      BY <2>3, <3>1, <3>2
  <2>17. QED
    BY <2>10, <2>11, <2>12, <2>15, <2>16
<1>13. CASE Salesforce!ResumeBatch
  <2> DEFINE first == Salesforce!Smallest(state.BatchIDs)
             batch == job[first]
             rest == state.BatchIDs \ {first}
             T == {k \in Salesforce!Keys(batch) : Salesforce!InRange(k)} \cup {chunked_bookmark}
             high == Salesforce!Largest(T)
  <2>1. /\ pc = "resume" /\ job # Salesforce!NoJob /\ state.BatchIDs # {} /\ chunked_bookmark' = high
        /\ state' = [state EXCEPT !.BatchIDs = @ \ {Salesforce!Smallest(@)}, !.JobHighestBookmarkSeen = high]
        /\ Salesforce!RecordsAndState(Salesforce!Recs(batch), state')
        /\ resumed' = IF resumed = "no" THEN "yes" ELSE resumed
        /\ UNCHANGED <<item, now, updates, disturbed, pc>>
        /\ UNCHANGED <<start_time, pk_chunking, query, rows, job>>
    BY <1>13 DEF Salesforce!ResumeBatch, Salesforce!service
  <2>2. /\ first \in state.BatchIDs /\ DOMAIN job = Salesforce!Batches /\ state.JobID /\ saved.JobID
        /\ first \in DOMAIN job
    BY <1>0, <2>1, SfBatches DEF SfJobs
  <2>3. \A r \in batch : r.key \in Nat /\ r.key <= now
    BY <2>2 DEF SfTypeOK, SfPast, SfRows
  <2>4. high \in T /\ high \in Nat /\ high <= now
    <3>1. T \subseteq Nat /\ T # {} /\ \A x \in T : x <= now
      BY <2>3 DEF Salesforce!Keys, SfTypeOK, SfPast
    <3>2. now \in Nat
      BY DEF SfTypeOK
    <3> HIDE DEF T
    <3>3. \E x \in T : \A y \in T : y <= x
      BY <3>1, <3>2, LargestExists
    <3>4. QED
      BY <3>1, <3>3 DEF Salesforce!Largest
  <2>5. high = chunked_bookmark \/ \E r \in batch : high = r.key
    BY <2>4 DEF Salesforce!Keys
  <2>6. state' = [key |-> state.key, JobID |-> state.JobID, BatchIDs |-> rest,
                  JobHighestBookmarkSeen |-> high]
    BY <1>0, <2>1
  <2>7. /\ state' \in SfStates /\ state'.key = state.key /\ state'.JobID /\ state'.BatchIDs = rest
        /\ state'.JobHighestBookmarkSeen = high /\ rest \subseteq Salesforce!Batches
    BY <1>0, <2>2, <2>4, <2>6 DEF SfStates
  <2>8. /\ emitted' = emitted \cup Salesforce!Recs(batch) /\ loaded' \subseteq emitted'
        /\ \/ loaded' = emitted' /\ saved' = state'
           \/ UNCHANGED <<loaded, saved>>
    BY <2>1 DEF Salesforce!RecordsAndState, SfTypeOK
  <2> HIDE DEF high, T
  <2>9. SfTypeOK' /\ SfPast' /\ SfJobs'
    <3>1. saved' \in SfStates /\ saved'.key <= now /\ saved'.JobHighestBookmarkSeen <= now /\ saved'.JobID
      BY <2>2, <2>4, <2>7, <2>8 DEF SfTypeOK, SfPast
    <3>2. SfTypeOK'
      BY <2>1, <2>4, <2>7, <2>8, <3>1 DEF SfTypeOK
    <3>3. SfPast'
      BY <2>1, <2>4, <2>7, <3>1 DEF SfPast, Salesforce!Exists
    <3>4. SfJobs'
      BY <2>1, <2>2, <2>7, <3>1 DEF SfJobs
    <3>5. QED
      BY <3>2, <3>3, <3>4
  <2>10. \A i \in FewItems : /\ Salesforce!Exists(i)' = Salesforce!Exists(i) /\ Salesforce!Record(i)' = Salesforce!Record(i) /\ Salesforce!Row(i)' = Salesforce!Row(i)
                          /\ (SfExcused(i)' <=> (SfExcused(i) \/ (resumed = "no" /\ i \in disturbed)))
    BY <2>1 DEF Salesforce!Exists, Salesforce!Record, Salesforce!Row, SfExcused
  <2>11. ASSUME NEW i \in FewItems, Salesforce!Exists(i), Salesforce!Record(i) \notin emitted', ~SfExcused(i)'
         PROVE  \/ BatchOf[i] \in rest /\ Salesforce!Row(i) \in job[BatchOf[i]]
                \/ /\ item[i].at >= Salesforce!get_start_date(state) /\ item[i].at >= high
                   /\ \A b \in rest : \A r \in job[b] : r.key <= item[i].at
    <3>1. Salesforce!Record(i) \notin emitted /\ ~SfExcused(i) /\ SfBehind(i) /\ ~SfGone(state)
          /\ (i \in disturbed => resumed # "no")
      BY <2>1, <2>8, <2>10, <2>11 DEF SfRun, SfGone
    <3>2. CASE SfWaits(state, i)
      <4>1. BatchOf[i] # first
        BY <2>8, <2>11, <3>2 DEF SfWaits, Salesforce!Recs, Salesforce!Row
      <4>2. QED
        BY <3>2, <4>1 DEF SfWaits
    <3>3. CASE SfAhead(state, i) /\ item[i].at >= chunked_bookmark
      <4>1. i \notin disturbed
        BY <2>1, <2>11, <3>1 DEF SfExcused, SfTypeOK
      <4>2. \A b \in state.BatchIDs : \A r \in job[b] : r.key <= item[i].at
        BY <2>2, <3>3, <4>1 DEF SfAhead
      <4>3. item[i].at >= high
        BY <2>2, <2>3, <2>5, <3>3, <4>2 DEF SfTypeOK
      <4>4. QED
        BY <3>3, <4>2, <4>3 DEF SfAhead
    <3>4. QED
      BY <2>1, <3>1, <3>2, <3>3 DEF SfBehind
  <2>12. ASSUME NEW i \in FewItems, Salesforce!Exists(i), Salesforce!Record(i) \notin emitted', ~SfExcused(i)'
         PROVE  SfWaits(state, i)' \/ (SfAhead(state, i)' /\ (item[i].at >= chunked_bookmark)')
    <3>1. CASE BatchOf[i] \in rest /\ Salesforce!Row(i) \in job[BatchOf[i]]
      BY <2>1, <2>7, <2>10, <3>1 DEF SfWaits
    <3>2. CASE /\ item[i].at >= Salesforce!get_start_date(state) /\ item[i].at >= high
               /\ \A b \in rest : \A r \in job[b] : r.key <= item[i].at
      BY <2>1, <2>7, <3>2 DEF SfAhead, Salesforce!get_start_date
    <3>3. QED
      BY <2>11, <2>12, <3>1, <3>2
  <2>13. SfRun'
    BY <2>1, <2>10, <2>12 DEF SfRun, SfBehind
  <2>14. SfSaved'
    <3>1. CASE loaded' = emitted' /\ saved' = state'
      BY <2>10, <2>12, <3>1 DEF SfSaved, SfCovered, SfWaits, SfAhead, Salesforce!get_start_date
    <3>2. CASE UNCHANGED <<loaded, saved>>
      BY <2>1, <2>10, <3>2 DEF SfSaved, SfCovered, SfWaits, SfAhead, SfGone, Salesforce!get_start_date
    <3>3. QED
      BY <2>8, <3>1, <3>2
  <2>15. QED
    BY <2>9, <2>13, <2>14
<1>14. CASE Salesforce!EndResume
  <2> DEFINE high == IF state.JobHighestBookmarkSeen # 0 THEN state.JobHighestBookmarkSeen ELSE state.key
  <2>1. /\ pc = "resume" /\ pc' = "end" /\ (job = Salesforce!NoJob \/ state.BatchIDs = {})
        /\ state' = [Salesforce!NoState EXCEPT !.key = high]
        /\ resumed' = IF state.BatchIDs # {} THEN "expired" ELSE resumed
        /\ UNCHANGED <<item, now, updates, disturbed, saved, loaded, emitted>>
        /\ UNCHANGED <<start_time, pk_chunking, chunked_bookmark, query, rows, job>>
    BY <1>14 DEF Salesforce!EndResume, Salesforce!service, Salesforce!run, Salesforce!pipe
  <2>2. /\ state' \in SfStates /\ state'.key = high /\ high <= now /\ ~state'.JobID
        /\ state'.JobHighestBookmarkSeen = 0
    <3>1. state' = [key |-> high, JobID |-> FALSE, BatchIDs |-> {}, JobHighestBookmarkSeen |-> 0]
      BY <2>1 DEF Salesforce!NoState
    <3>2. high \in Nat /\ high <= now
      BY <1>0 DEF SfPast
    <3>3. QED
      BY <3>1, <3>2 DEF SfStates
  <2>3. SfTypeOK' /\ SfPast' /\ SfJobs'
    BY <2>1, <2>2 DEF SfTypeOK, SfPast, SfJobs, Salesforce!Exists
  <2>4. CASE state.BatchIDs # {}
    BY <2>1, <2>3, <2>4 DEF SfSaved, SfRun, SfCovered, SfExcused
  <2>5. CASE state.BatchIDs = {}
    <3>1. SfSaved' /\ \A i \in FewItems : /\ Salesforce!Exists(i)' = Salesforce!Exists(i) /\ Salesforce!Record(i)' = Salesforce!Record(i)
                                       /\ Salesforce!Row(i)' = Salesforce!Row(i) /\ SfExcused(i)' = SfExcused(i)
      BY <2>1, <2>5, SfFrame
    <3>2. SfRun'
      <4>1. SUFFICES ASSUME NEW i \in FewItems, Salesforce!Exists(i), Salesforce!Record(i) \notin emitted, ~SfExcused(i) PROVE SfBehind(i)'
        BY <2>1, <3>1 DEF SfRun
      <4>2. SfAhead(state, i)
        BY <2>1, <2>5, <4>1 DEF SfRun, SfBehind, SfWaits, SfGone
      <4>3. item[i].at >= Salesforce!get_start_date(state') /\ item[i].at \in Nat
        BY <2>2, <4>2 DEF SfAhead, Salesforce!get_start_date, SfTypeOK
      <4>4. QED
        BY <2>1, <2>2, <4>3 DEF SfBehind, Salesforce!get_start_date
    <3>3. QED
      BY <2>3, <3>1, <3>2
  <2>6. QED
    BY <2>4, <2>5
<1>15. CASE Salesforce!Finish
  <2>1. /\ pc = "end" /\ pc' = "idle" /\ emitted' = emitted \cup {} /\ loaded' = emitted'
        /\ saved' = state /\ state' = saved' /\ start_time' = 0 /\ pk_chunking' = FALSE
        /\ chunked_bookmark' = 0 /\ query' = Salesforce!NoQuery /\ rows' = {}
        /\ UNCHANGED <<item, now, updates, disturbed, job, resumed>>
    BY <1>15 DEF Salesforce!Finish, Salesforce!RecordsAndLastState, Salesforce!Exit, Salesforce!Stopped, Salesforce!service
  <2>2. SfIsQuery(query') /\ query'.from = 0 /\ query'.until = 0
    BY <2>1, SfNoQuery
  <2>3. SfTypeOK' /\ SfPast'
    BY <2>1, <2>2 DEF SfTypeOK, SfPast, Salesforce!Exists
  <2>4. SfJobs'
    BY <2>1, <2>2 DEF SfJobs
  <2>5. \A i \in FewItems : /\ Salesforce!Exists(i)' = Salesforce!Exists(i) /\ Salesforce!Record(i)' = Salesforce!Record(i)
                         /\ Salesforce!Row(i)' = Salesforce!Row(i) /\ SfExcused(i)' = SfExcused(i)
    BY <2>1, SfFrame
  <2>6. SfSaved'
    BY <2>1, <2>5 DEF SfSaved, SfCovered, SfRun, SfBehind, SfAhead, SfJobs, Salesforce!get_start_date
  <2>7. SfRun'
    BY <2>1, <2>5, <2>6 DEF SfRun, SfBehind
  <2>8. QED
    BY <2>3, <2>4, <2>6, <2>7
<1>16. CASE Salesforce!JobExpires
  <2>1. /\ pc = "idle" /\ saved.JobID /\ job' = Salesforce!NoJob
        /\ UNCHANGED <<item, now, updates, disturbed, pc, state, saved, loaded, emitted>>
        /\ UNCHANGED <<start_time, pk_chunking, chunked_bookmark, query, rows, resumed>>
    BY <1>16 DEF Salesforce!JobExpires, Salesforce!apiTapVars, Salesforce!service, Salesforce!run, Salesforce!pipe
  <2>2. SfTypeOK' /\ SfPast' /\ SfJobs'
    BY <1>0, <2>1 DEF SfTypeOK, SfPast, SfJobs, Salesforce!Exists
  <2>3. \A i \in FewItems : /\ Salesforce!Exists(i)' = Salesforce!Exists(i) /\ Salesforce!Record(i)' = Salesforce!Record(i)
                         /\ Salesforce!Row(i)' = Salesforce!Row(i) /\ SfExcused(i)' = SfExcused(i)
    BY <2>1, SfFrame
  <2>4. SfSaved'
    BY <2>1, <2>3 DEF SfSaved, SfCovered, SfWaits, SfAhead, SfGone, Salesforce!get_start_date
  <2>5. SfRun'
    BY <2>1, <2>3 DEF SfRun, SfBehind
  <2>6. QED
    BY <2>2, <2>4, <2>5
<1>17. CASE Salesforce!Die /\ Salesforce!Stopped /\ UNCHANGED <<api_type, job, resumed>>
  <2>1. /\ pc' = "idle" /\ emitted' = loaded /\ state' = saved' /\ start_time' = 0 /\ pk_chunking' = FALSE
        /\ chunked_bookmark' = 0 /\ query' = Salesforce!NoQuery /\ rows' = {}
        /\ UNCHANGED <<item, now, updates, disturbed, saved, loaded, job, resumed>>
    BY <1>17 DEF Salesforce!Die, Salesforce!Lost, Salesforce!Exit, Salesforce!Stopped, Salesforce!service
  <2>2. SfIsQuery(query') /\ query'.from = 0 /\ query'.until = 0
    BY <2>1, SfNoQuery
  <2>3. SfTypeOK' /\ SfPast'
    BY <2>1, <2>2 DEF SfTypeOK, SfPast, Salesforce!Exists
  <2>4. SfJobs'
    BY <2>1, <2>2 DEF SfJobs
  <2>5. SfSaved'
    BY <2>1, SfFrame
  <2>6. SfRun'
    BY <2>1 DEF SfRun, SfBehind
  <2>7. QED
    BY <2>3, <2>4, <2>5, <2>6
<1>18. CASE UNCHANGED Salesforce!salesforceVars
  <2>1. /\ UNCHANGED <<item, now, updates, disturbed, pc, state, saved, loaded, emitted>>
        /\ UNCHANGED <<start_time, pk_chunking, chunked_bookmark, query, rows, job, resumed>>
    BY <1>18 DEF Salesforce!salesforceVars, Salesforce!apiTapVars, Salesforce!service, Salesforce!pipe
  <2>2. SfTypeOK' /\ SfPast' /\ SfJobs'
    BY <2>1 DEF SfTypeOK, SfPast, SfJobs, SfStates, Salesforce!Exists
  <2>3. SfSaved' /\ \A i \in FewItems : /\ Salesforce!Exists(i)' = Salesforce!Exists(i) /\ Salesforce!Record(i)' = Salesforce!Record(i)
                                     /\ Salesforce!Row(i)' = Salesforce!Row(i) /\ SfExcused(i)' = SfExcused(i)
    BY <2>1, SfFrame
  <2>4. SfRun'
    BY <2>1, <2>3 DEF SfRun, SfBehind, SfWaits, SfAhead, SfGone, Salesforce!get_start_date
  <2>5. QED
    BY <2>2, <2>3, <2>4
<1>19. QED
  BY <1>1, <1>2, <1>3, <1>4, <1>5, <1>6, <1>7, <1>8, <1>9, <1>10, <1>11, <1>12, <1>13, <1>14, <1>15,
     <1>16, <1>17, <1>18 DEF Salesforce!Next

\* What the saved state passes is loaded, or of a job that expired.
LEMMA SfImplies == SfInv => Salesforce!SalesforceSkipsNothing
<1>1. SUFFICES ASSUME SfInv, ~saved.JobID, resumed # "expired", NEW i \in FewItems, Salesforce!Exists(i),
                      Salesforce!Record(i) \notin loaded, ~Salesforce!Reads(i), ~(resumed = "yes" /\ i \in disturbed)
               PROVE  FALSE
  BY DEF Salesforce!SalesforceSkipsNothing, Salesforce!Skipped
<1>2. SfAhead(saved, i)
  BY <1>1 DEF SfInv, SfSaved, SfCovered, SfGone, SfWaits, SfExcused
<1>3. QED
  BY <1>1, <1>2 DEF SfAhead, Salesforce!Reads

-----------------------------------------------------------------------------
(* The taps together                                                       *)

\* The invariant of the tap that runs.
TapsInv ==
    /\ tap = "github" => GhInv
    /\ tap = "slack" => SlackInv
    /\ tap = "twilio" => TwInv
    /\ tap = "zendesk" => ZenInv
    /\ tap = "mixpanel" => MixInv
    /\ tap = "salesforce" => SfInv
    /\ tap = "s3-csv" => S3Inv

\* A tap starts in its initial state.
LEMMA TapsInit == InitAll => TapsInv
<1>1. SUFFICES ASSUME InitAll PROVE TapsInv
  OBVIOUS
<1>2. /\ tap = "github" => Github!Init
      /\ tap = "slack" => Slack!Init
      /\ tap = "twilio" => Twilio!Init
      /\ tap = "zendesk" => Zendesk!Init
      /\ tap = "mixpanel" => Mixpanel!Init
      /\ tap = "salesforce" => Salesforce!Init
      /\ tap = "s3-csv" => S3Csv!Init
  BY <1>1 DEF InitAll, InitService
<1>3. QED
  BY <1>2, GhInit, SlackInit, TwInit, ZenInit, MixInit, SfInit, S3Init DEF TapsInv

\* A step of the taps together is one of the tap that runs, and that tap stays.
LEMMA TapsFrame ==
    ASSUME [NextAll]_vars
    PROVE  /\ tap' = tap
           /\ tap = "github" => [Github!Next]_(Github!githubVars)
           /\ tap = "slack" => [Slack!Next]_(Slack!slackVars)
           /\ tap = "twilio" => [Twilio!Next]_(Twilio!twilioVars)
           /\ tap = "zendesk" => [Zendesk!Next]_(Zendesk!zendeskVars)
           /\ tap = "mixpanel" => [Mixpanel!Next]_(Mixpanel!mixpanelVars)
           /\ tap = "salesforce" => [Salesforce!Next]_(Salesforce!salesforceVars)
           /\ tap = "s3-csv" => [S3Csv!Next]_(S3Csv!s3CsvVars)
<1>1. CASE NextAll
  <2>1. /\ tap' = tap
        /\ tap = "github" => Github!Next
        /\ tap = "slack" => Slack!Next
        /\ tap = "twilio" => Twilio!Next
        /\ tap = "zendesk" => Zendesk!Next
        /\ tap = "mixpanel" => Mixpanel!Next
        /\ tap = "salesforce" => Salesforce!Next
        /\ tap = "s3-csv" => S3Csv!Next
    BY <1>1, SMT DEF NextAll
  <2>2. QED
    BY <2>1
<1>2. CASE UNCHANGED vars
  <2>1. UNCHANGED <<tap, item, now, updates, disturbed, deaths, emitted, loaded, saved, pc, state, end>>
    BY <1>2 DEF vars, binlogVars, loop, api_, pipe
  <2>2. UNCHANGED <<sync_func, since, page, stream, bookmark, window, cursor, now_datetime, last_datetime,
                    endpoint, next_url, parent_id, last, tasks_batch, buf, should_yield, data, late, cut>>
    BY <1>2 DEF vars, github_, slack_, dates_, twilio_, zendesk_, mixpanel_
  <2>3. UNCHANGED <<api_type, start_time, pk_chunking, chunked_bookmark, query, rows, job, resumed,
                    s3_files, bookmarks>>
    BY <1>2 DEF vars, salesforce_, s3_
  <2>4. UNCHANGED Github!githubVars
    BY <2>1, <2>2 DEF Github!githubVars, Github!apiTapVars, Github!service, Github!pipe
  <2>5. UNCHANGED Slack!slackVars
    BY <2>1, <2>2 DEF Slack!slackVars, Slack!apiTapVars, Slack!service, Slack!pipe
  <2>6. UNCHANGED Twilio!twilioVars
    BY <2>1, <2>2 DEF Twilio!twilioVars, Twilio!apiTapVars, Twilio!service, Twilio!pipe
  <2>7. UNCHANGED Zendesk!zendeskVars
    BY <2>1, <2>2 DEF Zendesk!zendeskVars, Zendesk!apiTapVars, Zendesk!service, Zendesk!pipe
  <2>8. UNCHANGED Mixpanel!mixpanelVars
    BY <2>1, <2>2 DEF Mixpanel!mixpanelVars, Mixpanel!apiTapVars, Mixpanel!service, Mixpanel!pipe
  <2>9. UNCHANGED Salesforce!salesforceVars
    BY <2>1, <2>3 DEF Salesforce!salesforceVars, Salesforce!apiTapVars, Salesforce!service, Salesforce!pipe
  <2>10. UNCHANGED S3Csv!s3CsvVars
    BY <2>1, <2>3 DEF S3Csv!s3CsvVars, S3Csv!apiTapVars, S3Csv!service, S3Csv!pipe
  <2>11. QED
    BY <2>1, <2>4, <2>5, <2>6, <2>7, <2>8, <2>9, <2>10
<1>3. QED
  BY <1>1, <1>2

\* The invariant of the tap that runs is kept.
LEMMA TapsStep == TapsInv /\ [NextAll]_vars => TapsInv'
<1>1. SUFFICES ASSUME TapsInv, [NextAll]_vars PROVE TapsInv'
  OBVIOUS
<1>2. tap' = tap
  BY <1>1, TapsFrame
<1>3. tap = "github" => GhInv'
  BY <1>1, TapsFrame, GhStep DEF TapsInv
<1>4. tap = "slack" => SlackInv'
  BY <1>1, TapsFrame, SlackStep DEF TapsInv
<1>5. tap = "twilio" => TwInv'
  BY <1>1, TapsFrame, TwStep DEF TapsInv
<1>6. tap = "zendesk" => ZenInv'
  BY <1>1, TapsFrame, ZenStep DEF TapsInv
<1>7. tap = "mixpanel" => MixInv'
  BY <1>1, TapsFrame, MixStep DEF TapsInv
<1>8. tap = "salesforce" => SfInv'
  BY <1>1, TapsFrame, SfStep DEF TapsInv
<1>9. tap = "s3-csv" => S3Inv'
  BY <1>1, TapsFrame, S3Step DEF TapsInv
<1>10. QED
  BY <1>2, <1>3, <1>4, <1>5, <1>6, <1>7, <1>8, <1>9 DEF TapsInv

\* Every tap keeps its invariant, from the start, through the changes of the
\* service, its own requests and the deaths of the pipeline.
THEOREM TapsInvariant == SpecAll => []TapsInv
<1>1. QED
  BY TapsInit, TapsStep, PTL DEF SpecAll

\* The bookmark of a GitHub stream passes no object that is not loaded, though it
\* is the time of a page: what it passes changed while a run was reading, or is
\* of a function that returns early in a listing by creation
\* (get_all_issues, get_all_pull_requests, get_all_commits).
THEOREM GithubIsComplete == SpecAll => []GithubSkipsNothing
<1>1. TapsInv => GithubSkipsNothing
  BY GhImplies DEF TapsInv, GithubSkipsNothing
<1>2. QED
  BY <1>1, TapsInvariant, PTL

\* Between two runs no Slack message is lost but in a window during which a run
\* died, and no user but one that changed while a run was reading or in the second
\* of the bookmark (ConversationHistoryStream.sync, UsersStream.sync).
THEOREM SlackIsComplete == SpecAll => []SlackSkipsNothingElse
<1>1. TapsInv => SlackSkipsNothingElse
  BY SlackImplies DEF TapsInv, SlackSkipsNothingElse
<1>2. QED
  BY <1>1, TapsInvariant, PTL

\* The bookmark of a Twilio endpoint passes nothing that is not loaded, but for
\* the children of later parents and those that changed while a run was reading
\* (sync_endpoint: windows of dates, pages, the maximum of the bookmark).
THEOREM TwilioIsComplete == SpecAll => []TwilioSkipsNothing
<1>1. TapsInv => TwilioSkipsNothing
  BY TwImplies DEF TapsInv, TwilioSkipsNothing
<1>2. QED
  BY <1>1, TapsInvariant, PTL

\* The bookmark of the Zendesk tickets passes none whose record, audits, metrics
\* or comments are not loaded (Tickets.sync: jobs, buffers, should_yield); that of
\* a list in no order only objects that changed during a run (Groups.sync).
THEOREM ZendeskIsComplete == SpecAll => []ZendeskSkipsNothing
<1>1. TapsInv => ZendeskSkipsNothing
  BY ZenImplies DEF TapsInv, ZendeskSkipsNothing
<1>2. QED
  BY <1>1, TapsInvariant, PTL

\* The bookmark of a Mixpanel stream passes only events that reached the service
\* after their time or are a year old, and, since the age of the bookmark is taken
\* in whole days, events of the day of the bookmark when the first window begins on
\* the next one (sync_endpoint: delta_days, windows of days; process_records).
THEOREM MixpanelIsComplete == SpecAll => []MixpanelSkipsNothingElse
<1>1. TapsInv => MixpanelSkipsNothingElse
  BY MixImplies DEF TapsInv, MixpanelSkipsNothingElse
<1>2. QED
  BY <1>1, TapsInvariant, PTL

\* Time-outs that halve the dates of a query, chunked queries and resumed jobs
\* leave no gap, but for what changed during a run whose job was resumed and for
\* a job that was gone (sync_records, resume_syncing_bulk_query, do_sync).
THEOREM SalesforceIsComplete == SpecAll => []SalesforceSkipsNothing
<1>1. TapsInv => SalesforceSkipsNothing
  BY SfImplies DEF TapsInv, SalesforceSkipsNothing
<1>2. QED
  BY <1>1, TapsInvariant, PTL

\* A file of the bucket is skipped only at a tie of modification times
\* (sync_stream, get_input_files_for_table).
THEOREM S3CsvIsComplete == SpecAll => []S3CsvSkipsTiesAlone
<1>1. TapsInv => S3CsvSkipsTiesAlone
  BY S3Implies DEF TapsInv, S3CsvSkipsTiesAlone
<1>2. QED
  BY <1>1, TapsInvariant, PTL
=============================================================================
