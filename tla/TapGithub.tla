----------------------------- MODULE TapGithub -----------------------------
(***************************************************************************)
(* tap-github: do_sync runs the function of each stream over the pages of  *)
(* the service.  Every record moves the bookmark to the time its page was  *)
(* extracted; a STATE is written when the stream ends.  The model has one  *)
(* stream, of any of the ways the functions read.                          *)
(***************************************************************************)
EXTENDS ApiTap

CONSTANT PageSize

VARIABLES
    sync_func,
    since,       \* bookmark_time of the sync function
    page         \* the next page, 0 before a request

githubVars == <<apiTapVars, sync_func, since, page>>
scan == <<since, page>>

NoScan == since' = 0 /\ page' = 0

\* How a function reads: the order of the listing ("updated", "created": the
\* latest first; "asc": the earliest change first), whether the service
\* selects by the bookmark, and whether an object older than the bookmark ends
\* the function.
Reader(sort, selects, returns) == [sort |-> sort, selects |-> selects, returns |-> returns]

get_all_pull_requests   == Reader("updated", FALSE, TRUE)
get_all_issue_events    == Reader("created", FALSE, TRUE)
get_all_events          == Reader("created", FALSE, TRUE)
get_all_commit_comments == Reader("created", FALSE, TRUE)
get_all_projects        == Reader("created", FALSE, TRUE)
get_all_commits         == Reader("created", TRUE, FALSE)
get_all_issues          == Reader("asc", TRUE, FALSE)
get_all_comments        == Reader("asc", TRUE, FALSE)
get_all_teams           == Reader("created", FALSE, FALSE)
get_all_releases        == Reader("created", FALSE, FALSE)
get_all_issue_labels    == Reader("created", FALSE, FALSE)
get_all_assignees       == Reader("created", FALSE, FALSE)
get_all_collaborators   == Reader("created", FALSE, FALSE)
get_all_stargazers      == Reader("created", FALSE, FALSE)

SYNC_FUNCTIONS ==
    {get_all_commits, get_all_comments, get_all_issues, get_all_assignees, get_all_collaborators,
     get_all_pull_requests, get_all_releases, get_all_stargazers, get_all_events,
     get_all_issue_events, get_all_issue_labels, get_all_projects, get_all_commit_comments,
     get_all_teams}

Init ==
    /\ ApiInit(0)
    /\ sync_func \in SYNC_FUNCTIONS
    /\ since = 0 /\ page = 0

Update(i) ==
    /\ Change(i, IF pc # "idle" /\ sync_func.sort = "asc" THEN Items ELSE {})
    /\ UNCHANGED <<sync_func, scan>>

\* Mutant: what changed at the time of the bookmark is taken as old.
NotYounger(i, bookmark_time) == bookmark_time # 0 /\ item[i].at <= bookmark_time

Older(i, bookmark_time) == item[i].at < bookmark_time

Present   == {i \in Items : Exists(i)}

\* The listing the service answers the requests of a stream from, as it is now:
\* its objects and their order.
Earlier(i, j)  == item[i].at < item[j].at \/ (item[i].at = item[j].at /\ i < j)
Precedes(i, j) == CASE sync_func.sort = "asc" -> Earlier(i, j)
                    [] sync_func.sort = "updated" -> Earlier(j, i)
                    [] OTHER -> i > j
Listing   == {i \in Present : sync_func.selects => ~Older(i, since)}
Before(i) == {j \in Listing : Precedes(j, i)}

do_sync ==
    /\ pc = "idle"
    /\ pc' = "pages"
    /\ state' = saved
    /\ since' = saved /\ page' = 1
    /\ RecordsAndState({}, saved)
    /\ UNCHANGED <<service, deaths, sync_func>>

\* authed_get_all_pages, extraction_time and the loop over the page.
ReadPage ==
    /\ pc = "pages"
    /\  LET from  == (page - 1) * PageSize
            here  == {i \in Listing : /\ from <= Cardinality(Before(i))
                                      /\ Cardinality(Before(i)) < from + PageSize}
            fresh == {i \in here : sync_func.returns =>
                                      \A j \in here : j = i \/ Precedes(j, i) => ~Older(j, since)}
            more  == fresh = here /\ from + PageSize < Cardinality(Listing)
        IN  /\ Records({Record(i) : i \in fresh})
            /\ state' = IF fresh = {} THEN state ELSE now
            /\ IF more THEN page' = page + 1 /\ UNCHANGED pc
                       ELSE pc' = "end" /\ UNCHANGED page
    /\ UNCHANGED <<service, deaths, sync_func, since>>

EndStream ==
    /\ pc = "end"
    /\ RecordsAndLastState({}, state)
    /\ Exit /\ NoScan
    /\ UNCHANGED <<service, deaths, sync_func>>

Next ==
    \/ \E i \in Items : Update(i)
    \/ Tick /\ UNCHANGED <<sync_func, scan>>
    \/ do_sync \/ ReadPage \/ EndStream
    \/ Die /\ NoScan /\ UNCHANGED sync_func

Spec == Init /\ [][Next]_githubVars

-----------------------------------------------------------------------------
(* Properties                                                              *)

Reads(i) == ~Older(i, saved) \/ (~sync_func.selects /\ ~sync_func.returns)

\* The bookmark of a stream passes no object that is not loaded, though it is
\* the time of the page and not of the object, unless the object changed while
\* a run was reading.  Where a function that returns early lists by creation
\* this can not be said: an object that did not change ends it before an older
\* one that did.
GithubSkipsNothing ==
    ~(sync_func.returns /\ sync_func.sort = "created") => Skipped(Reads) \subseteq disturbed
=============================================================================
