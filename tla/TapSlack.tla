------------------------------ MODULE TapSlack ------------------------------
(***************************************************************************)
(* tap-slack: sync runs the stream classes one after the other; the model  *)
(* has one, of any of the ways they read.  Messages (of one channel here), *)
(* files and remote files are read in windows of date_window_size days, a  *)
(* window page by page from the newest message back, and the newest one is *)
(* the bookmark written after every page; a run starts lookback_window     *)
(* days back, or at an older bookmark.  Users come in no order, with one   *)
(* STATE at the end.                                                       *)
(*                                                                         *)
(* The hosts keep UTC: the code writes local times and reads them as UTC.  *)
(***************************************************************************)
EXTENDS ApiTap

CONSTANTS PageSize, date_window_size, lookback_window

VARIABLES
    stream,         \* how the class reads, one of AVAILABLE_STREAMS
    end,            \* end_dttm of the run
    bookmark,       \* of the stream in self.state; `state` is the largest one seen
    window,         \* date_window_start and date_window_end
    cursor          \* the oldest message of the window, or last user, read

slackVars == <<apiTapVars, stream, end, bookmark, window, cursor>>
reading   == <<end, bookmark, window, cursor>>

start_date == 1
NoWindow   == <<0, 0>>
AtStart    == 0
Min2(a, b) == IF a <= b THEN a ELSE b
Max2(a, b) == IF a >= b THEN a ELSE b

\* How a class reads: in windows of dates, as a whole with a bookmark, or as a
\* whole every time; and whether the service may refuse its channel.
Reader(reads, refused) == [reads |-> reads, refused |-> refused]

ConversationHistoryStream == Reader("windows", TRUE)
FilesStream               == Reader("windows", FALSE)
RemoteFilesStream         == Reader("windows", FALSE)
UsersStream               == Reader("users", FALSE)
ConversationsStream       == Reader("all", FALSE)
ConversationMembersStream == Reader("all", FALSE)
UserGroupsStream          == Reader("all", FALSE)
TeamsStream               == Reader("all", FALSE)

AVAILABLE_STREAMS ==
    {ConversationHistoryStream, FilesStream, RemoteFilesStream, UsersStream, ConversationsStream,
     ConversationMembersStream, UserGroupsStream, TeamsStream}

Stopped == end' = 0 /\ bookmark' = 0 /\ window' = NoWindow /\ cursor' = AtStart

Init ==
    /\ ApiInit(0)
    /\ stream \in AVAILABLE_STREAMS
    /\ end = 0 /\ bookmark = 0 /\ window = NoWindow /\ cursor = AtStart

\* A message is written once, a user changes; a change in the very second of
\* the bookmark is not seen any more.
Update(i) ==
    /\ stream.reads = "windows" => ~Exists(i)
    /\ Change(i, IF stream.reads = "users" /\ now = saved THEN {i} ELSE {})
    /\ UNCHANGED <<stream, reading>>

\* Mutant: the bookmark itself is covered.
AfterBookmark(date) ==
    IF now < date + lookback_window THEN Max2(now, lookback_window) - lookback_window ELSE date + 1

\* get_absolute_date_range
StartOf(date) ==
    IF now < date + lookback_window THEN Max2(now, lookback_window) - lookback_window ELSE date

BookmarkOf(st) == IF st = 0 THEN start_date ELSE st

sync ==
    /\ pc = "idle"
    /\ pc' = "pages"
    /\ IF stream.reads = "windows"
       THEN /\ state' = StartOf(BookmarkOf(saved))
            /\ window' = <<state', state' + date_window_size>>
            /\ end' = now
       ELSE state' = saved /\ UNCHANGED <<end, window>>
    /\ bookmark' = saved
    /\ cursor' = AtStart
    /\ UNCHANGED <<service, deaths, stream, pipe>>

\* What a window still has: messages older than the last one read.
InWindow == {i \in Items : /\ Exists(i)
                           /\ window[1] <= item[i].at /\ item[i].at <= window[2]
                           /\ cursor = AtStart \/ i < cursor}

\* get_messages, with a STATE after the page.
ReadMessages ==
    /\ pc = "pages" /\ stream.reads = "windows"
    /\ LET here == {i \in InWindow : Cardinality({j \in InWindow : j > i}) < PageSize}
           last == here = InWindow
       IN  /\ state' = Largest({item[i].at : i \in here} \cup {state})
           /\ bookmark' = state'
           /\ RecordsAndState({Record(i) : i \in here}, state')
           /\ cursor' = IF last THEN AtStart ELSE Smallest(here)
           /\ window' = IF last THEN <<window[2], Min2(window[2] + date_window_size, end)>>
                                ELSE window
           /\ pc' = IF last /\ window'[1] >= window'[2] THEN "end" ELSE pc
    /\ UNCHANGED <<service, deaths, stream, end>>

\* The service says not_in_channel: the windows that follow are not read.
NotInChannel ==
    /\ pc = "pages" /\ stream.refused /\ cursor = AtStart
    /\ pc' = "end"
    /\ UNCHANGED <<service, state, deaths, stream, reading, pipe>>

\* A page of the users, of which those that changed after the bookmark are
\* written, or of another list.
ReadList ==
    /\ pc = "pages" /\ stream.reads # "windows"
    /\ LET rest == {i \in Items : Exists(i) /\ i > cursor}
           here == {i \in rest : Cardinality({j \in rest : j < i}) < PageSize}
           new == IF stream.reads = "users" THEN {i \in here : item[i].at > bookmark} ELSE here
       IN  /\ state' = IF stream.reads = "users"
                       THEN Largest({item[i].at : i \in here} \cup {state}) ELSE state
           /\ Records({Record(i) : i \in new})
           /\ cursor' = IF here = rest THEN AtStart ELSE Largest(here)
           /\ pc' = IF here = rest THEN "end" ELSE pc
    /\ UNCHANGED <<service, deaths, stream, end, bookmark, window>>

\* write_bookmark of the users and stream.write_state.
Close ==
    /\ pc = "end"
    /\ RecordsAndLastState({}, IF stream.reads = "users" THEN state ELSE bookmark)
    /\ Exit /\ Stopped
    /\ UNCHANGED <<service, deaths, stream>>

\* A run that dies leaves its window half read.
Interrupted ==
    /\ pc # "idle" /\ deaths < MaxDeaths
    /\ deaths' = deaths + 1
    /\ Lost /\ Exit /\ Stopped
    /\ disturbed' = IF stream.reads # "windows" THEN disturbed
                    ELSE disturbed \cup {i \in Items : /\ Exists(i) /\ item[i].at <= saved
                                                       /\ saved <= item[i].at + date_window_size}
    /\ UNCHANGED <<item, now, updates, stream>>

Next ==
    \/ \E i \in Items : Update(i)
    \/ Tick /\ UNCHANGED <<stream, reading>>
    \/ sync \/ ReadMessages \/ NotInChannel \/ ReadList \/ Close
    \/ Interrupted

Spec == Init /\ [][Next]_slackVars

-----------------------------------------------------------------------------
(* Properties                                                              *)

Reads(i) == CASE stream.reads = "windows" -> item[i].at >= StartOf(BookmarkOf(saved))
              [] stream.reads = "users"   -> item[i].at > saved
              [] stream.reads = "all"     -> TRUE

\* Between two runs nothing is lost but messages of a window during which a
\* run died, and changes of users made while one was reading or in the second
\* of the bookmark (ConversationHistoryStream.sync, UsersStream.sync).
SlackSkipsNothingElse == pc = "idle" => Skipped(Reads) \subseteq disturbed

\* Checked by no run, and not true: a run that dies in a window reads the rest
\* of it the next time.
SlackWindowIsResumed == pc = "idle" /\ stream.reads = "windows" => Skipped(Reads) = {}
=============================================================================
