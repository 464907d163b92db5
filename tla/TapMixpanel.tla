---------------------------- MODULE TapMixpanel ----------------------------
(***************************************************************************)
(* tap-mixpanel: sync_endpoint reads the events of the export endpoint     *)
(* (and funnels and revenue, which have one record a day) by windows of    *)
(* dates.  The first window begins attribution_window days ago, or as many *)
(* whole days ago as the bookmark is old, but no more than a year; a part  *)
(* of a day is cut off.  process_records keeps what is not older than the  *)
(* bookmark, which becomes the latest time seen and is written in a STATE  *)
(* after each window.                                                      *)
(***************************************************************************)
EXTENDS ApiTap

CONSTANTS
    DayLength,            \* units of the clock in a day
    days_interval, attribution_window,
    MaxDays               \* 365 in the code

VARIABLES
    now_datetime, last_datetime,
    window,               \* start_window and end_window
    data,                 \* the response: events of the window, or None
    late,                 \* history: events that arrived after their time
    cut                   \* history: events before the first window of a run

mixpanelVars == <<apiTapVars, now_datetime, last_datetime, window, data, late, cut>>
reading      == <<now_datetime, last_datetime, window, data>>

start_date == 1
Days(n)    == n * DayLength
DayOf(t)   == t \div DayLength
None       == {0}
Earlier(a, b) == IF a <= b THEN a ELSE b

Stopped == now_datetime' = 0 /\ last_datetime' = 0 /\ window' = <<0, 0>> /\ data' = None

Init ==
    /\ ApiInit(0)
    /\ now_datetime = 0 /\ last_datetime = 0 /\ window = <<0, 0>> /\ data = None
    /\ late = {} /\ cut = {}

\* An event of time t reaches the service, which may take attribution_window
\* days from a device that is offline.
Arrive(i, t) ==
    /\ updates < MaxUpdates
    /\ ~Exists(i) /\ \A j \in Items : j < i => Exists(j)
    /\ t <= now /\ now <= t + Days(attribution_window)
    /\ updates' = updates + 1
    /\ item' = [item EXCEPT ![i] = [ver |-> updates + 1, at |-> t]]
    /\ late' = IF t < now THEN late \cup {i} ELSE late
    /\ UNCHANGED <<now, disturbed, pc, state, deaths, reading, cut, pipe>>

get_bookmark(st) == IF st = 0 THEN start_date ELSE st

\* now_datetime less the days, not before time began.
DaysAgo(n) == IF now <= Days(n) THEN 0 ELSE now - Days(n)

\* delta_days are the whole days of a timedelta.
FirstWindow(bookmark) ==
    LET delta_days == DayOf(now - bookmark)
    IN  DaysAgo(IF delta_days <= attribution_window THEN attribution_window
                                                    ELSE Earlier(delta_days, MaxDays))

\* Mutant: the event of the bookmark is loaded.
Younger(i, bookmark) == item[i].at > bookmark

\* process_records
Kept(i, bookmark) == item[i].at >= bookmark

\* The part of a day that is cut off passes midnight: what is left of the day
\* of the bookmark is not requested.
CutOff(bookmark) ==
    {i \in Items : /\ Exists(i) /\ Kept(i, bookmark)
                   /\ DayOf(item[i].at) = DayOf(bookmark)
                   /\ DayOf(item[i].at) < DayOf(FirstWindow(bookmark))}

sync ==
    /\ pc = "idle"
    /\ last_datetime' = get_bookmark(saved) /\ state' = last_datetime'
    /\ now_datetime' = now
    /\ window' = LET from == FirstWindow(last_datetime')
                 IN  <<from, Earlier(from + Days(days_interval), now)>>
    /\ pc' = IF window'[1] < now THEN "request" ELSE "end"
    /\ cut' = cut \cup CutOff(last_datetime')
    /\ UNCHANGED <<service, deaths, data, late, pipe>>

\* request_export: from_date and to_date are days, both included.
Request ==
    /\ pc = "request"
    /\ data' = {i \in Items : Exists(i) /\ DayOf(item[i].at) \in DayOf(window[1])..DayOf(window[2])}
    /\ pc' = "process"
    /\ UNCHANGED <<service, state, deaths, now_datetime, last_datetime, window, late, cut, pipe>>

\* The response is processed in batches, then the STATE follows.
ProcessWindow ==
    /\ pc = "process"
    /\ state' = Largest({item[i].at : i \in data} \cup {state})
    /\ RecordsAndState({Record(i) : i \in {j \in data : Kept(j, last_datetime)}}, state')
    /\ window' = <<window[2], Earlier(window[2] + Days(days_interval), now_datetime)>>
    /\ data' = None
    /\ pc' = IF window'[1] < now_datetime THEN "request" ELSE "end"
    /\ UNCHANGED <<service, deaths, now_datetime, last_datetime, late, cut>>

\* update_currently_syncing
Finish ==
    /\ pc = "end"
    /\ RecordsAndLastState({}, state)
    /\ Exit /\ Stopped
    /\ UNCHANGED <<service, deaths, late, cut>>

Next ==
    \/ \E i \in Items, t \in 1..MaxTime : Arrive(i, t)
    \/ Tick /\ UNCHANGED <<reading, late, cut>>
    \/ sync \/ Request \/ ProcessWindow \/ Finish
    \/ Die /\ Stopped /\ UNCHANGED <<late, cut>>

Spec == Init /\ [][Next]_mixpanelVars

-----------------------------------------------------------------------------
(* Properties                                                              *)

\* A run that starts now requests the event and keeps it.
Reads(i) == LET bookmark == get_bookmark(saved)
            IN  Kept(i, bookmark) /\ DayOf(item[i].at) >= DayOf(FirstWindow(bookmark))

\* An event is skipped only if it reached the service after its time, or is a
\* year old, or if it is of the day of the bookmark a run started from, with
\* midnight in the part of a day that is cut off (sync_endpoint, process_records).
MixpanelSkipsNothingElse ==
    \A i \in Skipped(Reads) : \/ i \in late \/ item[i].at + Days(MaxDays) < now
                              \/ i \in cut \cup CutOff(get_bookmark(saved))

\* Checked by no run, and not true: what reached the service in time, and is less
\* than a year old, is read.
MixpanelSkipsLateEventsAlone ==
    \A i \in Skipped(Reads) : i \in late \/ item[i].at + Days(MaxDays) < now

\* Checked by no run, and not true: an event that came late but is within the
\* attribution window is read by the next run.
AttributionWindowIsReadAgain ==
    \A i \in Skipped(Reads) : item[i].at + Days(attribution_window) < now
=============================================================================
