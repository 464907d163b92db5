--------------------------- MODULE MCTaps ------------------------------
(* One tap at a time, on a small instance of its module: tap-mysql reading *)
(* the binary log, or the tap of a web service.                            *)
EXTENDS MysqlBinlog

CONSTANTS
    Items, MaxTime, MaxUpdates, MaxDeaths,         \* ApiTap
    FewItems, ShortTime, SlackTime, BulkTime, MoreUpdates,    \* where a tap has bounds of its own
    PageSize,
    date_window_size, lookback_window,             \* TapSlack
    ParentOf, date_window_days,                    \* TapTwilio
    Jobs, batch_size,                              \* TapZendesk
    DayLength, days_interval, attribution_window, MaxDays,    \* TapMixpanel
    MAX_RETRIES, BatchOf                           \* TapSalesforce

\* Objects are numbered in the order of their creation, and pages have entries;
\* spans of time are whole units of the clock.
ASSUME TapsAssumption ==
    /\ Items \subseteq Nat \ {0} /\ IsFiniteSet(Items)
    /\ FewItems \subseteq Nat \ {0} /\ IsFiniteSet(FewItems) /\ FewItems # {}
    /\ PageSize \in Nat \ {0}
    /\ date_window_size \in Nat \ {0} /\ lookback_window \in Nat
    /\ ParentOf \in [FewItems -> {1, 2}] /\ date_window_days \in Nat
    /\ DayLength \in Nat \ {0}
    /\ days_interval \in Nat /\ attribution_window \in Nat /\ MaxDays \in Nat
    /\ BatchOf \in [FewItems -> Nat]

BinlogTransactions == {<<"x", "b">>, <<"a", "b">>}

\* The odd objects have the second parent; every batch holds one object.
Parity    == [i \in FewItems |-> (i % 2) + 1]
OneByOne  == [i \in FewItems |-> i]

VARIABLES
    tap,
    item, now, updates, disturbed, deaths,                      \* ApiTap
    sync_func, since, page,                                     \* TapGithub
    stream, bookmark, window, cursor,                           \* TapSlack
    endpoint, now_datetime, last_datetime, next_url, parent_id, \* TapTwilio
    last, tasks_batch, buf, should_yield,                       \* TapZendesk
    data, late, cut,                                            \* TapMixpanel
    api_type, start_time, pk_chunking, chunked_bookmark, query, rows, job,
    resumed,                                                    \* TapSalesforce
    s3_files, bookmarks                                         \* TapS3Csv

Github     == INSTANCE TapGithub WITH MaxTime <- ShortTime
Slack      == INSTANCE TapSlack WITH MaxTime <- SlackTime
Twilio     == INSTANCE TapTwilio WITH Items <- FewItems, MaxTime <- ShortTime,
                                      MaxUpdates <- MoreUpdates
Zendesk    == INSTANCE TapZendesk WITH Items <- FewItems, MaxTime <- ShortTime
Mixpanel   == INSTANCE TapMixpanel
Salesforce == INSTANCE TapSalesforce WITH Items <- FewItems, MaxTime <- ShortTime
S3Csv      == INSTANCE TapS3Csv WITH MaxTime <- ShortTime, MaxUpdates <- MoreUpdates

binlog_     == <<server, binlog_streams, reader, log_at, gtid_pos, processed_rows_events,
                 events_skipped, crashes>>
api_        == <<item, now, updates, disturbed, deaths>>
github_     == <<sync_func, since, page>>
slack_      == <<bookmark, cursor>>
dates_      == <<now_datetime, last_datetime>>
twilio_     == <<endpoint, next_url, parent_id>>
zendesk_    == <<last, tasks_batch, buf, should_yield>>
mixpanel_   == <<data, late, cut>>
salesforce_ == <<api_type, start_time, pk_chunking, chunked_bookmark, query, rows, job, resumed>>
s3_         == <<s3_files, bookmarks>>
vars == <<tap, binlogVars, api_, github_, slack_, window, stream, dates_, twilio_, zendesk_,
          mixpanel_, salesforce_, s3_>>

\* The variables of the modules that are not looked at; the log is empty.
NoBinlog    == /\ files = << << >> >> /\ oldest = 1 /\ use_gtid = FALSE /\ binlog_streams = {}
               /\ reader = NoPos /\ log_at = NoPos /\ gtid_pos = 0
               /\ processed_rows_events = 0 /\ events_skipped = 0
               /\ binlog_crashes = 0 /\ interrupted = {}
NoApi       == item = 0 /\ now = 0 /\ updates = 0 /\ disturbed = 0 /\ deaths = 0
NoEnd       == end = 0
NoGithub    == sync_func = 0 /\ since = 0 /\ page = 0
NoSlack     == bookmark = 0 /\ cursor = 0
NoWindow    == window = 0
NoStream    == stream = 0
NoDates     == now_datetime = 0 /\ last_datetime = 0
NoTwilio    == endpoint = 0 /\ next_url = 0 /\ parent_id = 0
NoZendesk   == last = 0 /\ tasks_batch = 0 /\ buf = 0 /\ should_yield = 0
NoMixpanel  == data = 0 /\ late = 0 /\ cut = 0
NoSalesforce == /\ api_type = 0 /\ start_time = 0 /\ pk_chunking = 0 /\ chunked_bookmark = 0
                /\ query = 0 /\ rows = 0 /\ job = 0 /\ resumed = 0
NoS3        == s3_files = 0 /\ bookmarks = 0

InitService(name, TapInit) == tap = name /\ TapInit /\ NoBinlog

InitAll ==
    \/ /\ tap = "binlog" /\ Init /\ NoApi
       /\ NoGithub /\ NoSlack /\ NoWindow /\ NoStream /\ NoDates /\ NoTwilio
       /\ NoZendesk /\ NoMixpanel /\ NoSalesforce /\ NoS3
    \/ /\ InitService("github", Github!Init)
       /\ NoEnd /\ NoSlack /\ NoWindow /\ NoStream /\ NoDates /\ NoTwilio
       /\ NoZendesk /\ NoMixpanel /\ NoSalesforce /\ NoS3
    \/ /\ InitService("slack", Slack!Init)
       /\ NoGithub /\ NoDates /\ NoTwilio /\ NoZendesk /\ NoMixpanel /\ NoSalesforce /\ NoS3
    \/ /\ InitService("twilio", Twilio!Init)
       /\ NoEnd /\ NoGithub /\ NoSlack /\ NoStream /\ NoZendesk /\ NoMixpanel
       /\ NoSalesforce /\ NoS3
    \/ /\ InitService("zendesk", Zendesk!Init)
       /\ NoEnd /\ NoGithub /\ NoSlack /\ NoWindow /\ NoDates /\ NoTwilio
       /\ NoMixpanel /\ NoSalesforce /\ NoS3
    \/ /\ InitService("mixpanel", Mixpanel!Init)
       /\ NoEnd /\ NoGithub /\ NoSlack /\ NoStream /\ NoTwilio /\ NoZendesk
       /\ NoSalesforce /\ NoS3
    \/ /\ InitService("salesforce", Salesforce!Init)
       /\ NoEnd /\ NoGithub /\ NoSlack /\ NoWindow /\ NoStream /\ NoDates /\ NoTwilio
       /\ NoZendesk /\ NoMixpanel /\ NoS3
    \/ /\ InitService("s3-csv", S3Csv!Init)
       /\ NoEnd /\ NoGithub /\ NoSlack /\ NoWindow /\ NoStream /\ NoDates /\ NoTwilio
       /\ NoZendesk /\ NoMixpanel /\ NoSalesforce

NextAll ==
    \/ /\ tap = "binlog" /\ Next
       /\ UNCHANGED <<tap, api_, github_, slack_, window, stream, dates_, twilio_, zendesk_,
                      mixpanel_, salesforce_, s3_>>
    \/ /\ tap = "github" /\ Github!Next
       /\ UNCHANGED <<tap, binlog_, end, slack_, window, stream, dates_, twilio_, zendesk_,
                      mixpanel_, salesforce_, s3_>>
    \/ /\ tap = "slack" /\ Slack!Next
       /\ UNCHANGED <<tap, binlog_, github_, dates_, twilio_, zendesk_, mixpanel_,
                      salesforce_, s3_>>
    \/ /\ tap = "twilio" /\ Twilio!Next
       /\ UNCHANGED <<tap, binlog_, end, github_, slack_, stream, zendesk_, mixpanel_,
                      salesforce_, s3_>>
    \/ /\ tap = "zendesk" /\ Zendesk!Next
       /\ UNCHANGED <<tap, binlog_, end, github_, slack_, window, dates_, twilio_, mixpanel_,
                      salesforce_, s3_>>
    \/ /\ tap = "mixpanel" /\ Mixpanel!Next
       /\ UNCHANGED <<tap, binlog_, end, github_, slack_, stream, twilio_, zendesk_,
                      salesforce_, s3_>>
    \/ /\ tap = "salesforce" /\ Salesforce!Next
       /\ api_type = "BULK" => now' <= BulkTime
       /\ UNCHANGED <<tap, binlog_, end, github_, slack_, window, stream, dates_, twilio_,
                      zendesk_, mixpanel_, s3_>>
    \/ /\ tap = "s3-csv" /\ S3Csv!Next
       /\ UNCHANGED <<tap, binlog_, end, github_, slack_, window, stream, dates_, twilio_,
                      zendesk_, mixpanel_, salesforce_>>

SpecAll == InitAll /\ [][NextAll]_vars

\* The bookmark of a GitHub stream passes only what changed while a run was
\* reading (get_all_issues, get_all_pull_requests), see TapGithub.
GithubSkipsNothing == tap = "github" => Github!GithubSkipsNothing

\* Slack messages are lost only in a window during which a run died
\* (ConversationHistoryStream.sync), see TapSlack.
SlackSkipsNothingElse == tap = "slack" => Slack!SlackSkipsNothingElse

\* The bookmark of a Twilio endpoint passes nothing that is not loaded but for
\* its children (sync_endpoint), see TapTwilio.
TwilioSkipsNothing == tap = "twilio" => Twilio!TwilioSkipsNothing

\* The bookmark of the tickets passes none whose jobs are not loaded
\* (Tickets.sync), see TapZendesk.
ZendeskSkipsNothing == tap = "zendesk" => Zendesk!ZendeskSkipsNothing

\* Events are skipped that came late or are a year old, and those of the day of
\* the bookmark when a part of a day is cut off (sync_endpoint, process_records),
\* see TapMixpanel.
MixpanelSkipsNothingElse == tap = "mixpanel" => Mixpanel!MixpanelSkipsNothingElse

\* Time-outs, chunked jobs and resumed ones leave no gap (sync_records,
\* resume_syncing_bulk_query), see TapSalesforce.
SalesforceSkipsNothing == tap = "salesforce" => Salesforce!SalesforceSkipsNothing

\* Files are skipped at ties of their modification times alone (sync_stream),
\* see TapS3Csv.
S3CsvSkipsTiesAlone == tap = "s3-csv" => S3Csv!S3CsvSkipsTiesAlone
=============================================================================
