------------------------------ MODULE TapS3Csv ------------------------------
(***************************************************************************)
(* tap-s3-csv: sync_stream lists the files of the bucket modified after    *)
(* the bookmark, reads them in the order of their modification and writes  *)
(* a STATE with its modification time after each of them.  An object of    *)
(* the service is a file, with its content as version; 0: an empty file.   *)
(***************************************************************************)
EXTENDS ApiTap

VARIABLES
    s3_files,     \* {[key, last_modified]}: what is listed and not read yet
    bookmarks     \* history: the bookmarks saved so far

s3CsvVars == <<apiTapVars, s3_files, bookmarks>>

Init == ApiInit(0) /\ s3_files = {} /\ bookmarks = {}

\* A file is written or replaced.
Upload(i) == Change(i, {}) /\ UNCHANGED s3_files

\* get_input_files_for_table, from a listing of the bucket; with no file at
\* all it raises.
InputFiles(modified_since) ==
    {[key |-> i, last_modified |-> item[i].at] :
        i \in {j \in Items : Exists(j) /\ modified_since < item[j].at}}

sync_stream ==
    /\ pc = "idle" /\ \E i \in Items : Exists(i)
    /\ pc' = "files"
    /\ state' = saved
    /\ s3_files' = InputFiles(saved)
    /\ UNCHANGED <<service, deaths, pipe>>

\* Mutant: the order of the names.
NextByName(files) == {f \in files : \A g \in files : f.key <= g.key}

\* sorted(s3_files, key=last_modified)
NextFiles(files) == {f \in files : \A g \in files : f.last_modified <= g.last_modified}

\* sync_table_file reads what the file holds by now.
ReadFile(f) ==
    /\ pc = "files" /\ f \in NextFiles(s3_files)
    /\ state' = f.last_modified
    /\ s3_files' = s3_files \ {f}
    /\ RecordsAndState({Record(f.key)}, state')
    /\ UNCHANGED <<service, pc, deaths>>

Done ==
    /\ pc = "files" /\ s3_files = {}
    /\ RecordsAndLastState({}, state)
    /\ Exit
    /\ UNCHANGED <<service, deaths, s3_files>>

Actions ==
    \/ \E i \in Items : Upload(i)
    \/ Tick /\ UNCHANGED s3_files
    \/ sync_stream \/ Done
    \/ \E f \in s3_files : ReadFile(f)
    \/ Die /\ s3_files' = {}

Next == Actions /\ bookmarks' = bookmarks \cup {saved'}

Spec == Init /\ [][Next]_s3CsvVars

-----------------------------------------------------------------------------
(* Properties                                                              *)

Reads(i) == item[i].at > saved

\* A file is skipped for ever in one case alone: it was written in the same
\* unit of time as the last file loaded before the bucket was listed again.
\* Files replaced between the listing and the reading, and runs that
\* die between files, lose nothing else (sync_stream, get_input_files_for_table).
S3CsvSkipsTiesAlone == \A i \in Skipped(Reads) : item[i].at \in bookmarks
=============================================================================
