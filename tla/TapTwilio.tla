----------------------------- MODULE TapTwilio -----------------------------
(***************************************************************************)
(* tap-twilio: sync_endpoint reads an endpoint page by page, which come in *)
(* no order, and keeps what is not older than the bookmark; the bookmark   *)
(* becomes the latest time seen, but never one after the run began, and is *)
(* written in a STATE after each window of dates.  The endpoint is         *)
(*   "all"       read as a whole (synch_since_bookmark: from the bookmark) *)
(*   "windows"   read by date windows                                      *)
(*   "children"  read as a whole for each record of its parent endpoint    *)
(***************************************************************************)
EXTENDS ApiTap

CONSTANTS PageSize, ParentOf, date_window_days

VARIABLES
    endpoint,
    now_datetime,     \* now when the endpoint was begun
    last_datetime,    \* the bookmark it was begun with
    window,           \* start_window and end_window
    next_url,         \* the pages come in the order of the keys: the last one read
    parent_id

twilioVars == <<apiTapVars, endpoint, now_datetime, last_datetime, window, next_url, parent_id>>
reading    == <<now_datetime, last_datetime, window, next_url, parent_id>>

start_date == 1
Earlier(a, b) == IF a <= b THEN a ELSE b

Stopped == /\ now_datetime' = 0 /\ last_datetime' = 0 /\ window' = <<0, 0>>
           /\ next_url' = 0 /\ parent_id' = 0

Init ==
    /\ ApiInit(0)
    /\ endpoint \in {"all", "windows", "children"}
    /\ now_datetime = 0 /\ last_datetime = 0 /\ window = <<0, 0>>
    /\ next_url = 0 /\ parent_id = 0

Update(i) == Change(i, {}) /\ UNCHANGED <<endpoint, reading>>

get_bookmark(st) == IF st = 0 THEN start_date ELSE st

\* A run begins later than the bookmark it has, if not in the same unit of
\* time: there always is a window.  get_dates, with `last` the bookmark of the stream.
get_dates(last) ==
    /\ state' = last
    /\ last_datetime' = last
    /\ now_datetime' = now
    /\ next_url' = 0
    /\ window' = IF endpoint = "windows"
                 THEN LET from == Earlier(last, now) IN <<from, Earlier(from + date_window_days, now)>>
                 ELSE <<last, now>>

\* update_currently_syncing writes the old bookmarks; then the endpoint.
sync ==
    /\ pc = "idle"
    /\ pc' = "pages"
    /\ get_dates(get_bookmark(saved))
    /\ parent_id' = 1
    /\ UNCHANGED <<service, deaths, endpoint, pipe>>

\* What the service returns for the window and the parent.
Returned == {i \in Items : /\ Exists(i)
                           /\ endpoint = "windows" => window[1] <= item[i].at /\ item[i].at <= window[2]
                           /\ endpoint = "children" => ParentOf[i] = parent_id
                           /\ i > next_url}

\* A page with another one to come.
ReadPage ==
    /\ pc = "pages"
    /\ LET here == {i \in Returned : Cardinality({j \in Returned : j < i}) < PageSize}
       IN  /\ here # Returned
           /\ Records({Record(i) : i \in {j \in here : item[j].at >= last_datetime}})
           /\ state' = Largest({item[i].at : i \in here} \cup {state})
           /\ next_url' = Largest(here)
    /\ UNCHANGED <<service, pc, deaths, endpoint, now_datetime, last_datetime, window, parent_id>>

\* Mutant: the latest time seen.
LatestSeen(seen, started) == seen

sooner_date_time(seen, started) == Earlier(seen, started)

\* The last page of a window, and the bookmark; a child endpoint begins anew
\* with it for the next parent.
EndOfWindow ==
    /\ pc = "pages"
    /\ Cardinality(Returned) <= PageSize
    /\ LET seen     == Largest({item[i].at : i \in Returned} \cup {state})
           bookmark == sooner_date_time(seen, now_datetime)
           next     == <<window[2], Earlier(window[2] + date_window_days, now_datetime)>>
       IN  /\ RecordsAndState({Record(i) : i \in {j \in Returned : item[j].at >= last_datetime}}, bookmark)
           /\ CASE next[1] < now_datetime ->
                     /\ state' = seen /\ window' = next /\ next_url' = 0
                     /\ UNCHANGED <<pc, last_datetime, now_datetime, parent_id>>
                [] next[1] >= now_datetime /\ endpoint = "children" /\ parent_id = 1 ->
                     /\ get_dates(bookmark)
                     /\ parent_id' = 2
                     /\ UNCHANGED pc
                [] OTHER ->
                     /\ pc' = "end" /\ state' = bookmark
                     /\ UNCHANGED reading
    /\ UNCHANGED <<service, deaths, endpoint>>

\* The STATE without currently_syncing.
Finish ==
    /\ pc = "end"
    /\ RecordsAndLastState({}, state)
    /\ Exit /\ Stopped
    /\ UNCHANGED <<service, deaths, endpoint>>

Next ==
    \/ \E i \in Items : Update(i)
    \/ Tick /\ UNCHANGED <<endpoint, reading>>
    \/ sync \/ ReadPage \/ EndOfWindow \/ Finish
    \/ Die /\ Stopped /\ UNCHANGED endpoint

Spec == Init /\ [][Next]_twilioVars

-----------------------------------------------------------------------------
(* Properties                                                              *)

Reads(i) == item[i].at >= get_bookmark(saved)

\* Whatever changes while pages and windows are read, in whatever order they
\* come and wherever the run dies, the bookmark of an endpoint passes nothing
\* that is not loaded.  Child endpoints share one bookmark among the parents:
\* there this is so for the first parent alone, and for what did not change
\* during a run (sync_endpoint, get_dates, sooner_date_time).
TwilioSkipsNothing ==
    \A i \in Skipped(Reads) : endpoint = "children" /\ (ParentOf[i] = 2 \/ i \in disturbed)
=============================================================================
