------------------------------- MODULE ApiTap -------------------------------
(***************************************************************************)
(* What the taps of web services have in common: objects of the service    *)
(* that change in time, and a process that reads them request by request.  *)
(* A bookmark is a point in time.  Time has the resolution of the service: *)
(* several objects, or one object twice, change at the same time.          *)
(***************************************************************************)
EXTENDS Naturals, Sequences, FiniteSets, SingerPipe

CONSTANTS
    Items,         \* objects of the service, in the order of their creation
    MaxTime, MaxUpdates, MaxDeaths      \* bounds of the model

VARIABLES
    item,          \* last change of each object, [ver, at]; ver 0: not created
    now,
    updates,
    disturbed,     \* objects a change under way of a run may have hidden from it
    pc,
    state,         \* the bookmark in the memory of the tap
    deaths

service    == <<item, now, updates, disturbed>>
apiTapVars == <<service, pc, state, deaths, pipe>>

Exists(i)  == item[i].ver # 0
Record(i)  == <<i, item[i].ver>>
Smallest(S) == CHOOSE n \in S : \A m \in S : n <= m
Largest(S)  == CHOOSE n \in S : \A m \in S : m <= n

ApiInit(NoState) ==
    /\ item = [i \in Items |-> [ver |-> 0, at |-> 0]]
    /\ now = 1 /\ updates = 0 /\ disturbed = {}
    /\ pc = "idle" /\ state = NoState /\ deaths = 0
    /\ emitted = {} /\ loaded = {} /\ saved = NoState

\* The object is created or changed; a run may miss what is Hidden by it.
Change(i, Hidden) ==
    /\ updates < MaxUpdates
    /\ \A j \in Items : j < i => Exists(j)
    /\ updates' = updates + 1
    /\ item' = [item EXCEPT ![i] = [ver |-> updates + 1, at |-> now]]
    /\ disturbed' = IF pc = "idle" THEN (disturbed \ {i}) \cup Hidden
                                   ELSE disturbed \cup {i} \cup Hidden
    /\ UNCHANGED <<now, pc, state, deaths, pipe>>

Tick ==
    /\ now < MaxTime
    /\ now' = now + 1
    /\ UNCHANGED <<item, updates, disturbed, pc, state, deaths, pipe>>

\* The process ends, and its memory is gone.
Exit == pc' = "idle" /\ state' = saved'

Die ==
    /\ pc # "idle" /\ deaths < MaxDeaths
    /\ deaths' = deaths + 1
    /\ Lost /\ Exit
    /\ UNCHANGED service

\* Objects whose last change is neither loaded nor read by a run that starts
\* from the saved bookmark.
Skipped(Reads(_)) == {i \in Items : Exists(i) /\ Record(i) \notin loaded /\ ~Reads(i)}
=============================================================================
