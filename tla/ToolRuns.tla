------------------------------ MODULE ToolRuns ------------------------------
(* The runs of the three tools on a facility, as client_ops.tool_runs keeps    *)
(* them (src/src/client_ops/tool_runs.rs, src/src/api/tool_runs.rs), and the   *)
(* handlers that write them: the Dedup check, its exports and re-checks        *)
(* (src/src/api/dedup, dedup_rematch.rs), the Template Tagger's check and      *)
(* apply (src/src/api/tagger) and the Group Prep analysis and exports          *)
(* (src/src/api/analyze.rs, export.rs). A report or a file is the number of    *)
(* the result it shows: the mode of a Dedup report, the analysis of a Group    *)
(* Prep one, the substitutions applied by the Tagger. A run's results can be   *)
(* posted to its ClickUp task (src/src/api/clickup_run_update).                *)
EXTENDS Naturals, Sequences, FiniteSets, SequencesExt, FiniteSetsExt

CONSTANTS
    Sessions,          \* session ids; a run has at most one row per session
    Requests,          \* requests in flight
    Versions,          \* the results a report or a file can show
    MaxExports,        \* bound on the export numbers a facility hands out
    MaxMinutes,        \* bound on the minutes that pass
    Steps,             \* the ordinals of a tool's integrations.clickup_task_steps
    CommentOnlyFrom    \* comment_only_from_sequence

VARIABLES
    sessions,    \* session -> the live tool session, or NoSession
    runs,        \* session -> its client_ops.tool_runs row, or NoRun
    created,     \* the sessions that have a row, in the order of created_at
    sequence,    \* clients.facilities.dedup_export_sequence
    minute,      \* the clock, to the minute
    files,       \* Dropbox: the files saved, [path, version, minute]
    updates,     \* ClickUp: what was posted for runs
    requests,    \* request -> the handler it is in
    linking,     \* spawned tasks that make and store a share link
    started,     \* how many requests have begun
    past         \* history, see NoPast

toolVars == <<sessions, runs, created, sequence, minute, files, updates, requests,
              linking, started, past>>
outside == <<sequence, minute, files, updates, linking>>

NoPath == <<"none", 0>>
\* The path the user gives for a Tagger or Group Prep file.
TypedPath == <<"typed", 0>>
NoSession == [tool |-> "none", report |-> 0, facility |-> FALSE]
NoRun == [tool |-> "none", facility |-> FALSE, summary |-> 0, records |-> FALSE,
          output |-> 0, path |-> NoPath, link |-> NoPath]
Idle == [op |-> "none", tool |-> "none", at |-> "none", session |-> 0, facility |-> FALSE,
         version |-> 0, path |-> NoPath, minute |-> 0, regenerate |-> FALSE, position |-> 0]
NoPast ==
    [overwritten |-> FALSE, \* an export replaced the file of another one
     deleted |-> {},        \* sessions whose run was deleted
     disturbed |-> {},      \* sessions with two requests in flight at once, or a
                            \* write of the row that failed
     apart |-> {},          \* runs re-checked from their row, not their session
     saves |-> {}]          \* <<session, path>> of every file saved for a run

ToolRunsInit ==
    /\ sessions = [s \in Sessions |-> NoSession]
    /\ runs = [s \in Sessions |-> NoRun]
    /\ created = <<>> /\ sequence = 0 /\ minute = 0
    /\ files = {} /\ updates = {} /\ linking = {} /\ started = 0
    /\ requests = [q \in Requests |-> Idle]
    /\ past = NoPast

Quiet(s) == \A q \in Requests : requests[q].session # s
Overlap(q, s) == \E p \in Requests \ {q} : requests[p].session = s
NoteOverlap(q, s) ==
    past' = IF Overlap(q, s) THEN [past EXCEPT !.disturbed = @ \cup {s}] ELSE past

Start(q, r) ==
    /\ requests[q] = Idle
    /\ requests' = [requests EXCEPT ![q] = r]
    /\ started' = started + 1
Continue(q, r) == requests' = [requests EXCEPT ![q] = r] /\ UNCHANGED started
Finish(q) == Continue(q, Idle)
Working(q, ops, at) == requests[q].op \in ops /\ requests[q].at = at

\* The writers of the row are infallible to their callers: a failed statement or
\* commit is logged and the handler goes on. An update of no row does nothing.
WriteRow(s, row) ==
    \/ /\ runs' = [runs EXCEPT ![s] = row]
       /\ created' = IF runs[s] = NoRun THEN Append(created, s) ELSE created
       /\ UNCHANGED past
    \/ /\ UNCHANGED <<runs, created>>
       /\ past' = [past EXCEPT !.disturbed = @ \cup {s}]
UpdateRow(s, row) ==
    IF runs[s] = NoRun THEN UNCHANGED <<runs, created, past>> ELSE WriteRow(s, row)

-----------------------------------------------------------------------------
(* Checks                                                                     *)

\* A session id is a fresh UUID.
Unused(s) == sessions[s] = NoSession /\ runs[s] = NoRun /\ s \notin past.deleted /\ Quiet(s)
Checking(tool, s, facility) ==
    [Idle EXCEPT !.op = "check", !.tool = tool, !.at = "record", !.session = s,
                 !.facility = facility, !.version = 1]

\* dedup check: the session is created with the report of the default mode; a
\* file that is not accepted leaves nothing.
DedupCheck(q, s, facility) ==
    /\ Unused(s)
    /\ sessions' = [sessions EXCEPT ![s] = [tool |-> "dedup", report |-> 1, facility |-> facility]]
    /\ Start(q, Checking("dedup", s, facility))
    /\ UNCHANGED <<runs, created, outside, past>>

\* tagger recognize_and_create_session: the candidates of the uploaded template.
TaggerCheck(q, s, facility) ==
    /\ Unused(s)
    /\ sessions' = [sessions EXCEPT ![s] = [tool |-> "tagger", report |-> 1, facility |-> facility]]
    /\ Start(q, Checking("tagger", s, facility))
    /\ UNCHANGED <<runs, created, outside, past>>

\* import_from_dropbox of either tool: the files are downloaded first.
ImportFromDropbox(q, s, tool, facility) ==
    /\ tool \in {"dedup", "tagger"} /\ Unused(s)
    /\ Start(q, [Checking(tool, s, facility) EXCEPT !.at = "fetch"])
    /\ UNCHANGED <<sessions, runs, created, outside, past>>
\* download_as_uploaded_file: a file that cannot be read ends the import.
DownloadAsUploadedFile(q, got) ==
    LET r == requests[q]
    IN /\ Working(q, {"check"}, "fetch")
       /\ sessions' = IF got THEN [sessions EXCEPT ![r.session] =
                                     [tool |-> r.tool, report |-> 1, facility |-> r.facility]]
                      ELSE sessions
       /\ IF got THEN Continue(q, [r EXCEPT !.at = "record"]) ELSE Finish(q)
       /\ UNCHANGED <<runs, created, outside, past>>

\* create_dedup_run: one INSERT, of a facility or of none; sealing the records
\* may fail and leaves a run that cannot be re-checked.
CreateDedupRun(q, sealed) ==
    LET r == requests[q]
    IN /\ Working(q, {"check"}, "record") /\ r.tool = "dedup"
       /\ WriteRow(r.session, [NoRun EXCEPT !.tool = "dedup", !.summary = r.version,
                                            !.records = sealed, !.facility = r.facility])
       /\ Finish(q)
       /\ UNCHANGED <<sessions, outside>>

\* record_run, when the tool was opened from a facility: INSERT .. ON CONFLICT
\* (session_id) replaces the report and leaves the output columns alone.
RecordRun(q) ==
    LET r == requests[q]
    IN /\ Working(q, {"check", "analyze"}, "record") /\ r.tool # "dedup"
       /\ IF r.facility
          THEN WriteRow(r.session, [runs[r.session] EXCEPT !.tool = r.tool, !.facility = TRUE,
                                                           !.summary = r.version])
          ELSE UNCHANGED <<runs, created, past>>
       /\ Finish(q)
       /\ UNCHANGED <<sessions, outside>>

\* A Group Prep upload: a session with nothing analysed yet (module GroupPrep).
UploadGroupPrep(s, facility) ==
    /\ Unused(s)
    /\ sessions' = [sessions EXCEPT ![s] =
                      [tool |-> "unit_group", report |-> 0, facility |-> facility]]
    /\ UNCHANGED <<runs, created, outside, requests, started, past>>

\* analyze: the result is stored on the session, unless its data changed under
\* the analysis, and recorded on the run either way.
Analyze(q, s, version, current) ==
    /\ sessions[s].tool = "unit_group"
    /\ sessions' = IF current THEN [sessions EXCEPT ![s].report = version] ELSE sessions
    /\ Start(q, [Idle EXCEPT !.op = "analyze", !.tool = "unit_group", !.at = "record",
                             !.session = s, !.version = version,
                             !.facility = sessions[s].facility])
    /\ past' = IF Overlap(q, s) \/ ~current THEN [past EXCEPT !.disturbed = @ \cup {s}] ELSE past
    /\ UNCHANGED <<runs, created, outside>>

\* A session expires or is cancelled; its run stays.
SessionEnds(s) ==
    /\ sessions[s] # NoSession
    /\ sessions' = [sessions EXCEPT ![s] = NoSession]
    /\ UNCHANGED <<runs, created, outside, requests, started, past>>

-----------------------------------------------------------------------------
(* Exports: each begins by copying the report out of the live session         *)

BeginExport(q, s, op, at, path, version, facility) ==
    /\ sessions[s].report # 0
    /\ Start(q, [Idle EXCEPT !.op = op, !.tool = sessions[s].tool, !.at = at, !.session = s,
                             !.version = version, !.path = path, !.facility = facility])
    /\ NoteOverlap(q, s)
    /\ UNCHANGED <<sessions, runs, created, outside>>

\* dedup export and export_to_dropbox ask for a file name first.
DedupExport(q, s, facility) ==
    /\ sessions[s].tool = "dedup"
    /\ BeginExport(q, s, "download", "names", NoPath, sessions[s].report, facility)
DedupExportToDropbox(q, s, facility) ==
    /\ sessions[s].tool = "dedup"
    /\ BeginExport(q, s, "save", "names", NoPath, sessions[s].report, facility)

\* tagger apply and apply_to_dropbox: the file shows what was confirmed.
TaggerApply(q, s, version) ==
    /\ sessions[s].tool = "tagger"
    /\ BeginExport(q, s, "download", "applied", TypedPath, version, TRUE)
TaggerApplyToDropbox(q, s, version) ==
    /\ sessions[s].tool = "tagger"
    /\ BeginExport(q, s, "save", "upload", TypedPath, version, TRUE)

\* Group Prep export and export_to_dropbox of the last analysis.
UnitGroupExport(q, s) ==
    /\ sessions[s].tool = "unit_group"
    /\ BeginExport(q, s, "download", "attach", TypedPath, sessions[s].report, TRUE)
UnitGroupExportToDropbox(q, s) ==
    /\ sessions[s].tool = "unit_group"
    /\ BeginExport(q, s, "save", "upload", TypedPath, sessions[s].report, TRUE)

\* increment_export_sequence: one UPDATE .. RETURNING.
IncrementExportSequence == sequence < MaxExports /\ sequence' = sequence + 1
\* standalone_file_name: a save carries the time, to the minute, a download none.
StandaloneFileName(r) == IF r.op = "save" THEN <<"standalone", minute>> ELSE <<"standalone", MaxMinutes + 1>>

\* compute_export_file_names: one number names every file of a facility's export.
ComputeExportFileNames(q) ==
    LET r == requests[q]
        Named(path) == Continue(q, [r EXCEPT !.path = path, !.minute = minute,
                                      !.at = IF r.op = "save" THEN "upload" ELSE "attach"])
    IN /\ r.at = "names"
       /\ \/ r.facility /\ IncrementExportSequence /\ Named(<<"facility", sequence + 1>>)
          \/ ~r.facility /\ Named(StandaloneFileName(r)) /\ UNCHANGED sequence
       /\ UNCHANGED <<sessions, runs, created, minute, files, updates, linking, past>>

\* The folder is made and the file uploaded in overwrite mode; either may fail,
\* which ends the request with an error and no trace on the run.
Upload(q, accepted) ==
    LET r == requests[q]
        old == {f \in files : f.path = r.path}
    IN /\ Working(q, {"save"}, "upload")
       /\ IF accepted
          THEN /\ files' = (files \ old) \cup
                             {[path |-> r.path, version |-> r.version, minute |-> r.minute]}
               /\ past' = [past EXCEPT
                    !.overwritten = @ \/ (r.path # TypedPath /\
                                          \E f \in old : r.facility \/ f.minute # r.minute),
                    !.saves = @ \cup {<<r.session, r.path>>}]
               /\ Continue(q, [r EXCEPT !.at = IF r.tool = "tagger" THEN "applied" ELSE "attach"])
          ELSE Finish(q) /\ UNCHANGED <<files, past>>
       /\ UNCHANGED <<sessions, runs, created, sequence, minute, updates, linking>>

\* record_applied: the Tagger merges what was applied into the report, in a
\* transaction of its own, before the file is attached.
RecordApplied(q) ==
    LET r == requests[q]
    IN /\ r.at = "applied"
       /\ UpdateRow(r.session, [runs[r.session] EXCEPT !.summary = r.version])
       /\ Continue(q, [r EXCEPT !.at = "attach"])
       /\ UNCHANGED <<sessions, outside>>

\* attach_output_bytes: the file of a download; the Dropbox columns stay.
AttachOutputBytes(q) ==
    LET r == requests[q]
    IN /\ Working(q, {"download"}, "attach")
       /\ UpdateRow(r.session, [runs[r.session] EXCEPT !.output = r.version])
       /\ Finish(q)
       /\ UNCHANGED <<sessions, outside>>

\* attach_output_dropbox: the file and its path, with any earlier link dropped;
\* a Dedup save also spawns the task that makes the share link.
AttachOutputDropbox(q) ==
    LET r == requests[q]
    IN /\ Working(q, {"save"}, "attach")
       /\ UpdateRow(r.session, [runs[r.session] EXCEPT !.path = r.path, !.link = NoPath,
                                                       !.output = r.version])
       /\ linking' = IF r.tool = "dedup"
                     THEN linking \cup {[session |-> r.session, path |-> r.path]} ELSE linking
       /\ Finish(q)
       /\ UNCHANGED <<sessions, sequence, minute, files, updates>>

\* store_output_dropbox_link, in a spawned task that first makes the link: it is
\* stored where the row still names the path it was made for. Either may fail.
StoreOutputLink(task, made) ==
    /\ task \in linking
    /\ linking' = linking \ {task}
    /\ runs' = IF made /\ runs[task.session] # NoRun /\ runs[task.session].path = task.path
               THEN [runs EXCEPT ![task.session].link = task.path] ELSE runs
    /\ UNCHANGED <<sessions, created, sequence, minute, files, updates, requests, started, past>>

-----------------------------------------------------------------------------
(* Re-checks and deletion                                                     *)

Recheck(s, mode) ==
    [Idle EXCEPT !.op = "recheck", !.tool = "dedup", !.at = "regenerate", !.session = s,
                 !.version = mode]

\* set_unidentified_mode: the live session's report is recomputed, then persisted.
SetUnidentifiedMode(q, s, mode) ==
    /\ sessions[s].tool = "dedup"
    /\ sessions' = [sessions EXCEPT ![s].report = mode]
    /\ Start(q, Recheck(s, mode))
    /\ NoteOverlap(q, s)
    /\ UNCHANGED <<runs, created, outside>>

\* rematch_tool_run: the report is recomputed from the records the run kept. A
\* session that is still live keeps its own report.
RematchToolRun(q, s, mode) ==
    /\ runs[s] # NoRun /\ runs[s].records
    /\ Start(q, Recheck(s, mode))
    /\ past' = [past EXCEPT
          !.disturbed = IF Overlap(q, s) THEN @ \cup {s} ELSE @,
          !.apart = IF sessions[s] # NoSession THEN @ \cup {s} ELSE @]
    /\ UNCHANGED <<sessions, runs, created, outside>>

\* regenerate_output: reads whether the run has a stored file; if so the file is
\* generated again, unless that fails.
RegenerateOutput(q, works) ==
    LET r == requests[q]
    IN /\ r.at = "regenerate"
       /\ Continue(q, [r EXCEPT !.at = "update",
                                !.regenerate = runs[r.session].output # 0 /\ works])
       /\ past' = IF works THEN past ELSE [past EXCEPT !.disturbed = @ \cup {r.session}]
       /\ UNCHANGED <<sessions, runs, created, outside>>

\* Mutant: the regenerated file is not written with the report.
UpdateReportOnly(q) ==
    LET r == requests[q]
    IN /\ r.at = "update"
       /\ UpdateRow(r.session, [runs[r.session] EXCEPT !.summary = r.version])
       /\ Finish(q)
       /\ UNCHANGED <<sessions, outside>>
\* update_report: the report, and the regenerated file with it.
UpdateReport(q) ==
    LET r == requests[q]
    IN /\ r.at = "update"
       /\ UpdateRow(r.session, [runs[r.session] EXCEPT
                                  !.summary = r.version,
                                  !.output = IF r.regenerate THEN r.version ELSE @])
       /\ Finish(q)
       /\ UNCHANGED <<sessions, outside>>

\* delete_tool_run: one DELETE; requests in flight on the run go on.
DeleteToolRun(s) ==
    /\ runs[s] # NoRun /\ runs[s].facility
    /\ runs' = [runs EXCEPT ![s] = NoRun]
    /\ created' = SelectSeq(created, LAMBDA t : t # s)
    /\ past' = [past EXCEPT !.deleted = @ \cup {s}]
    /\ UNCHANGED <<sessions, outside, requests, started>>

\* The minute passes.
Tick ==
    /\ minute < MaxMinutes
    /\ minute' = minute + 1
    /\ UNCHANGED <<sessions, runs, created, sequence, files, updates, linking, requests, started, past>>

-----------------------------------------------------------------------------
(* Posting a run's results to ClickUp                                         *)

\* ROW_NUMBER() over the facility's runs of the tool, oldest first.
SequenceNumber(s) ==
    Len(SelectSeq(SubSeq(created, 1, CHOOSE i \in DOMAIN created : created[i] = s),
                  LAMBDA t : runs[t].tool = runs[s].tool /\ runs[t].facility))
\* The step with the highest ordinal not above the run's number.
StepOf(n) == Max({o \in Steps : o <= n})

\* prepare: the run, its number and its saved file are read at once. An
\* unlinked facility, an unknown run or a tool without steps is refused.
Prepare(q, s) ==
    /\ runs[s] # NoRun /\ runs[s].facility
    /\ \E o \in Steps : o <= SequenceNumber(s)
    /\ Start(q, [Idle EXCEPT !.op = "post", !.at = "link", !.session = s, !.tool = runs[s].tool,
                             !.path = runs[s].path, !.position = SequenceNumber(s),
                             !.regenerate = runs[s].link = NoPath])
    /\ UNCHANGED <<sessions, runs, created, outside, past>>

\* results_link: a link that was not kept is asked of Dropbox, and a real one is
\* kept for next time by a spawned task; the plain path serves otherwise.
ResultsLink(q, shared) ==
    LET r == requests[q]
    IN /\ Working(q, {"post"}, "link")
       /\ Continue(q, [r EXCEPT !.at = "write"])
       /\ linking' = IF r.path # NoPath /\ r.regenerate /\ shared
                     THEN linking \cup {[session |-> r.session, path |-> r.path]} ELSE linking
       /\ UNCHANGED <<sessions, runs, created, sequence, minute, files, updates, past>>

\* comment_only: from some run on, the task is left as it is.
Completes(r, offered) == r.position < CommentOnlyFrom /\ offered

\* post_run_update: nothing is written to a list without a complete status, when
\* one is needed; otherwise comment, assignee and status, each on its own.
PostRunUpdate(q, offered, commented, completed) ==
    LET r == requests[q]
    IN /\ Working(q, {"post"}, "write")
       /\ completed => Completes(r, offered)
       /\ updates' = IF r.position < CommentOnlyFrom /\ ~offered THEN updates
                     ELSE updates \cup {[session |-> r.session, path |-> r.path,
                                         step |-> StepOf(r.position), commented |-> commented,
                                         completed |-> completed]}
       /\ Finish(q)
       /\ UNCHANGED <<sessions, runs, created, sequence, minute, files, linking, past>>

-----------------------------------------------------------------------------
\* The stored file of a Dedup or Tagger run shows what its report shows once the
\* requests on it are done, unless two requests on it overlapped, a write
\* failed, or the run was re-checked from its row while its session went on with
\* the earlier report.
DownloadFollowsReport ==
    \A s \in Sessions :
        /\ runs[s].tool \in {"dedup", "tagger"} /\ runs[s].output # 0
        /\ s \notin past.disturbed \cup past.apart /\ Quiet(s)
        => runs[s].output = runs[s].summary

=============================================================================
