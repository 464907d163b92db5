----------------------------- MODULE TapZendesk -----------------------------
(***************************************************************************)
(* tap-zendesk: sync_stream writes what the sync of a stream yields.       *)
(* Tickets come in the order of their generated_timestamp; a batch of jobs *)
(* fetches what belongs to them in a pool of threads, all records go to a  *)
(* buffer, and a buffer that is a minute old is written with a STATE.      *)
(* The other streams are lists that have one STATE, at their end.  Tickets *)
(* may be removed; that one is gone when its jobs ask for it is passed     *)
(* over (RecordNotFoundException).                                         *)
(***************************************************************************)
EXTENDS ApiTap

CONSTANTS
    PageSize,
    Jobs,            \* audits, metrics and comments of a ticket, where selected
    batch_size

VARIABLES
    stream,          \* how the stream reads, one of STREAMS
    last,            \* place of the last object read
    tasks_batch,     \* jobs to do: <<job, object, version>>
    buf,             \* records of the buffer
    should_yield

zendeskVars == <<apiTapVars, stream, last, tasks_batch, buf, should_yield>>
reading     == <<last, tasks_batch, buf, should_yield>>

start_date == 1
Later(a, b) == IF a >= b THEN a ELSE b

Stopped == last' = 0 /\ tasks_batch' = {} /\ buf' = {} /\ should_yield' = FALSE

\* How a list is read: whether the service selects by the bookmark, whether it
\* lists in the order of the changes, whether the stream leaves out what is
\* older than the bookmark, and whether it has one.
Lister(selects, sorted, filters, incremental) ==
    [selects |-> selects, sorted |-> sorted, filters |-> filters, incremental |-> incremental,
     jobs |-> {}, west |-> 0]

Tickets             == [Lister(TRUE, TRUE, FALSE, TRUE) EXCEPT !.jobs = Jobs]
Organizations       == Lister(TRUE, TRUE, FALSE, TRUE)
Users               == Lister(TRUE, TRUE, FALSE, TRUE)

\* strftime('%s') takes the bookmark for a time of the host's zone, which is west
\* of Greenwich by so much.  (A host east of it asks for more than it needs.)
SatisfactionRatings(west) == [Lister(TRUE, FALSE, FALSE, TRUE) EXCEPT !.west = west]
Ratings             == {SatisfactionRatings(west) : west \in {0, 1}}
Groups              == Lister(FALSE, FALSE, TRUE, TRUE)
Macros              == Lister(FALSE, FALSE, TRUE, TRUE)
TicketFields        == Lister(FALSE, FALSE, TRUE, TRUE)
TicketForms         == Lister(FALSE, FALSE, TRUE, TRUE)
GroupMemberships    == Lister(FALSE, FALSE, TRUE, TRUE)
Tags                == Lister(FALSE, FALSE, FALSE, FALSE)
SLAPolicies         == Lister(FALSE, FALSE, FALSE, FALSE)

STREAMS == Ratings \cup {Tickets, Organizations, Users, Groups, Macros, TicketFields, TicketForms,
                       GroupMemberships, Tags, SLAPolicies}

Init ==
    /\ ApiInit(0)
    /\ stream \in STREAMS
    /\ last = 0 /\ tasks_batch = {} /\ buf = {} /\ should_yield = FALSE

get_bookmark(st) == IF st = 0 THEN start_date ELSE st
Part(job, i) == <<job, i, item[i].ver>>

\* A new comment is a change of its ticket, too; ratings do not change.
Update(i) ==
    /\ stream \in Ratings => ~Exists(i)
    /\ Change(i, {}) /\ UNCHANGED <<stream, reading>>

Remove(i) ==
    /\ updates < MaxUpdates
    /\ stream = Tickets /\ Exists(i)
    /\ updates' = updates + 1
    /\ item' = [item EXCEPT ![i] = [ver |-> 0, at |-> 0]]
    /\ UNCHANGED <<now, disturbed, pc, state, deaths, stream, reading, pipe>>

\* What the time asked for leaves out, though it is not older than the bookmark.
HiddenByZone == {i \in Items : /\ Exists(i) /\ stream.west > 0
                               /\ item[i].at >= get_bookmark(saved)
                               /\ item[i].at < get_bookmark(saved) + stream.west}

\* A stream without a bookmark leaves the state as it is.
sync_stream ==
    /\ pc = "idle"
    /\ pc' = "read"
    /\ state' = IF stream.incremental THEN get_bookmark(saved) ELSE saved
    /\ disturbed' = disturbed \cup HiddenByZone
    /\ UNCHANGED <<item, now, updates, deaths, stream, reading, pipe>>

\* What the service has still to list, and the place of an object in the list.
Place(i) == IF stream.sorted THEN item[i].ver ELSE i
Rest == {i \in Items : /\ Exists(i) /\ Place(i) > last
                       /\ stream.selects => item[i].at >= get_bookmark(saved) + stream.west}

-----------------------------------------------------------------------------
(* Tickets.sync                                                            *)

\* Mutant: the bookmark is that of the ticket.
BookmarkOfTicket(t) == Later(state, item[t].at)

\* The bookmark is that of the first ticket of a batch.
BookmarkOfBatch(t) == IF tasks_batch = {} THEN Later(state, item[t].at) ELSE state

ReadTicket ==
    /\ pc = "read" /\ stream = Tickets /\ Rest # {}
    /\ LET t == CHOOSE i \in Rest : \A j \in Rest : Place(i) <= Place(j)
       IN  /\ buf' = buf \cup {Part("object", t)}
           /\ state' = BookmarkOfBatch(t)
           /\ tasks_batch' = tasks_batch \cup {Part(job, t) : job \in Jobs}
           /\ last' = Place(t)
    /\ should_yield' \in BOOLEAN
    /\ pc' = IF Cardinality(tasks_batch') >= batch_size THEN "jobs" ELSE "yield"
    /\ UNCHANGED <<service, deaths, stream, pipe>>

\* A thread of execute_batch: it fetches what the ticket has by now, if it is found.
ProcessTask(task) ==
    /\ pc \in {"jobs", "left"}
    /\ tasks_batch' = tasks_batch \ {task}
    /\ buf' = IF Exists(task[2]) THEN buf \cup {Part(task[1], task[2])} ELSE buf
    /\ UNCHANGED <<service, pc, state, deaths, stream, last, should_yield, pipe>>

BatchExecuted ==
    /\ pc = "jobs" /\ tasks_batch = {}
    /\ pc' = "yield"
    /\ UNCHANGED <<service, state, deaths, stream, reading, pipe>>

\* _empty_buffer and a STATE, when the buffer is old enough.
Yield ==
    /\ pc = "yield"
    /\ IF should_yield THEN RecordsAndState(buf, state) /\ buf' = {}
                       ELSE UNCHANGED <<buf, pipe>>
    /\ pc' = "read" /\ should_yield' = FALSE
    /\ UNCHANGED <<service, state, deaths, stream, last, tasks_batch>>

NoMoreTickets ==
    /\ pc = "read" /\ stream = Tickets /\ Rest = {}
    /\ pc' = "left"
    /\ UNCHANGED <<service, state, deaths, stream, reading, pipe>>

-----------------------------------------------------------------------------
(* The sync of the other streams                                           *)

\* A page of the list: what is kept moves the bookmark, if the stream has one.
ReadList ==
    /\ pc = "read" /\ stream # Tickets
    /\ LET here  == {i \in Rest : Cardinality({j \in Rest : Place(j) < Place(i)}) < PageSize}
           fresh == {i \in here : stream.filters => item[i].at >= get_bookmark(saved)}
       IN  /\ state' = IF stream.incremental THEN Largest({item[i].at : i \in fresh} \cup {state})
                                             ELSE state
           /\ Records({Part("object", i) : i \in fresh})
           /\ last' = Largest({Place(i) : i \in here} \cup {last})
           /\ pc' = IF here = Rest THEN "left" ELSE pc
    /\ UNCHANGED <<service, deaths, stream, tasks_batch, buf, should_yield>>

\* The last jobs are done; the records and the STATE of sync_stream.
Finish ==
    /\ pc = "left" /\ tasks_batch = {}
    /\ RecordsAndLastState(buf, state)
    /\ Exit /\ Stopped
    /\ UNCHANGED <<service, deaths, stream>>

Next ==
    \/ \E i \in Items : Update(i) \/ Remove(i)
    \/ Tick /\ UNCHANGED <<stream, reading>>
    \/ sync_stream \/ ReadTicket \/ BatchExecuted \/ Yield \/ NoMoreTickets
    \/ \E task \in tasks_batch : ProcessTask(task)
    \/ ReadList \/ Finish
    \/ Die /\ Stopped /\ UNCHANGED stream

Spec == Init /\ [][Next]_zendeskVars

-----------------------------------------------------------------------------
(* Properties                                                              *)

\* What belongs to the object as it is.
Owed(i) == {Part(job, i) : job \in {"object"} \cup stream.jobs}

\* The bookmark passes no ticket unless it is loaded with all its audits,
\* metrics and comments, though these are fetched by threads while the
\* buffer is written and tickets are removed; in a list in no order, whose
\* bookmark is the latest of all times, it passes only what changed during a run
\* and ratings of the hours a host west of Greenwich does not ask for
\* (Tickets.sync, Groups.sync and their like, SatisfactionRatings.sync).
ZendeskSkipsNothing ==
    \A i \in Items :
        Exists(i) /\ stream.incremental /\ item[i].at < get_bookmark(saved)
            => Owed(i) \subseteq loaded \/ (~stream.sorted /\ i \in disturbed)
=============================================================================
