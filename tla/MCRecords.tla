----------------------------- MODULE MCRecords ------------------------------
(* Small instances of what the handlers record: the settings, the activity  *)
(* trail and the tool runs. A behaviour is played in one part; among the    *)
(* tool runs it has a scenario: the tools of its sessions, whether they are *)
(* opened from a facility, what its requests may ask for and how many there *)
(* are.                                                                     *)
EXTENDS IntegrationSettings, ActivityTrail, ToolRuns, TLC

CONSTANTS u1, u2, s1, s2, q1, q2, MCParts, MCScenarios

MCSessions == {s1, s2}
MCRequests == {q1, q2}
MCSymmetry == Permutations(MCRequests)

MCUpdates == {u1, u2}

\* The clocks go forward, go back, or neither.
MCZones ==
    [z \in {"spring", "fall", "utc"} |->
       CASE z = "spring" -> [before |-> -8, after |-> -7, at |-> 58]
         [] z = "fall" -> [before |-> -7, after |-> -8, at |-> 57]
         [] OTHER -> [before |-> 0, after |-> 0, at |-> 0]]

Daily(t, z) == [mode |-> "daily_time", hours |-> 24, time |-> t, zone |-> z]

\* "mars": a zone the server does not know.
MCSchedules ==
    {Interval(0), Interval(6), Daily(2, "spring"), Daily(1, "fall"), Daily(0, "fall"),
     Daily(23, "spring"), Daily(3, "mars"), Daily(5, "utc")}

MCNameLists == {<<"Doc">>, <<"doc", "Add">>, <<"Add", "blank", "add">>, <<"blank">>}
MCFoldName ==
    [n \in {"Doc", "doc", "Add", "add", "blank"} |->
       IF n \in {"Doc", "doc"} THEN "doc" ELSE IF n = "blank" THEN "" ELSE "add"]

TheRows(events, entities, users) ==
    [events |-> events, entities |-> entities, users |-> users]
MCFilters ==
    {TheRows({}, {}, {}), TheRows({"SYNC_COMPLETED", "LOGIN"}, {}, {}),
     TheRows({}, {"tag"}, {"user"})}

VARIABLES part, scenario

Scenario(name) ==
    CASE name = "recheck" ->
           [name |-> name, tools |-> {"dedup"}, sessions |-> {s1}, facility |-> {TRUE},
            requests |-> 5, ops |-> {"check", "download", "mode", "rematch", "end"}]
      [] name = "save" ->
           [name |-> name, tools |-> {"dedup"}, sessions |-> {s1, s2}, facility |-> {TRUE},
            requests |-> 4, ops |-> {"check", "download", "save"}]
      [] name = "standalone" ->
           [name |-> name, tools |-> {"dedup", "tagger"}, sessions |-> {s1}, facility |-> {FALSE},
            requests |-> 4, ops |-> {"import", "check", "save", "download", "tick"}]
      [] name = "delete" ->
           [name |-> name, tools |-> {"dedup", "tagger"}, sessions |-> {s1}, facility |-> {TRUE},
            requests |-> 4, ops |-> {"check", "download", "save", "mode", "delete"}]
      [] name = "tagger" ->
           [name |-> name, tools |-> {"tagger"}, sessions |-> {s1}, facility |-> {TRUE},
            requests |-> 4, ops |-> {"check", "download", "save", "end"}]
      [] name = "unit_group" ->
           [name |-> name, tools |-> {"unit_group"}, sessions |-> {s1}, facility |-> {TRUE, FALSE},
            requests |-> 4, ops |-> {"download", "save", "analyze", "delete", "end"}]
      [] name = "post" ->
           [name |-> name, tools |-> {"dedup"}, sessions |-> {s1, s2}, facility |-> {TRUE},
            requests |-> 4, ops |-> {"check", "save", "post", "delete"}]
      [] name = "none" ->
           [name |-> name, tools |-> {}, sessions |-> {}, facility |-> {},
            requests |-> 0, ops |-> {}]

MCInit ==
    /\ part \in MCParts
    /\ \E seeded \in {<<"Doc", "Add">>, <<"doc">>} :
         SettingsInit(seeded) /\ (part # "roles" => Len(seeded) = 1)
    /\ part # "config" => environment = [i \in Integrations |-> {"env"}]
    /\ TrailInit
    /\ part # "tag" => tag = {}
    /\ scenario \in {Scenario(n) : n \in MCScenarios}
    /\ part = "tools" <=> scenario.name # "none"
    /\ ToolRunsInit

ConfigNext ==
    \/ \E c \in Configs : update_dropbox(c) \/ update_process_street(Interval(6), c)
    \/ \E e \in [Integrations -> {{}, {"env"}}], k \in {1, 2} : Restart(e, k)

SettingsNext ==
    \/ part = "timer" /\ TimerStep("env")
    \/ part = "timer" /\ timer.at = "running" /\ Restart(environment, masterKey)
    \/ part = "roles" /\ (Restart(environment, masterKey) \/ \E u \in Updates : RoleStep(u))
    \/ part = "config" /\ ConfigNext

TrailNext ==
    \/ \E q \in Acts :
        \/ part = "tag" /\ \E l \in Labels : create_qms_tag(q, l) \/ update_qms_tag(q, l)
        \/ part = "tag" /\ \E b \in BOOLEAN : set_active(q, b)
        \/ part = "company" /\ delete_company(q)
        \/ part = "company" /\ \E b \in BOOLEAN : set_archived(q, b) \/ set_completed(q, b)
        \/ part \in {"walk", "export"} /\ (SyncCompletes(q) \/ SignsIn(q))
        \/ /\ part = "export"
           /\ \E f \in Filters, a, b \in {1, 2} :
                export_activity_logs(q, f, a, b) \/ export_audit_logs(q, f, a, b)
        \/ TrailStep(q)
    \/ part = "walk" /\ (list_activity_logs \/ list_audit_logs)
    \/ part = "walk" /\ \E l \in Logs, f \in Filters : StartWalk(l, f)
    \/ part = "export" /\ \E f \in Filters, a, b \in {1, 2} :
         preview_activity_logs(f, a, b) \/ preview_audit_logs(f, a, b)
    \/ part \in {"company", "export"} /\ NewDay

Has(op) == op \in scenario.ops
More == started < scenario.requests

BeginRun(q, s) ==
    /\ More
    /\ \/ \E facility \in scenario.facility :
            \/ Has("check") /\ "dedup" \in scenario.tools /\ DedupCheck(q, s, facility)
            \/ Has("check") /\ "tagger" \in scenario.tools /\ TaggerCheck(q, s, facility)
            \/ Has("import") /\ \E tool \in scenario.tools : ImportFromDropbox(q, s, tool, facility)
            \/ Has("download") /\ DedupExport(q, s, facility)
            \/ Has("save") /\ DedupExportToDropbox(q, s, facility)
       \/ Has("download") /\ UnitGroupExport(q, s)
       \/ Has("save") /\ UnitGroupExportToDropbox(q, s)
       \/ Has("post") /\ Prepare(q, s)
       \/ \E v \in Versions :
            \/ Has("download") /\ TaggerApply(q, s, v)
            \/ Has("save") /\ TaggerApplyToDropbox(q, s, v)
            \/ Has("analyze") /\ \E current \in BOOLEAN : Analyze(q, s, v, current)
            \/ Has("mode") /\ SetUnidentifiedMode(q, s, v)
            \/ Has("rematch") /\ RematchToolRun(q, s, v)

RunStep(q) ==
    \/ \E ok \in BOOLEAN :
         \/ DownloadAsUploadedFile(q, ok) \/ CreateDedupRun(q, ok) \/ Upload(q, ok)
         \/ RegenerateOutput(q, ok) \/ ResultsLink(q, ok)
    \/ \E offered, commented, completed \in BOOLEAN :
         PostRunUpdate(q, offered, commented, completed)
    \/ RecordRun(q) \/ ComputeExportFileNames(q) \/ RecordApplied(q) \/ AttachOutputBytes(q)
    \/ AttachOutputDropbox(q) \/ UpdateReport(q)

ToolsNext ==
    \/ \E q \in Requests : RunStep(q) \/ \E s \in scenario.sessions : BeginRun(q, s)
    \/ \E task \in linking, made \in BOOLEAN : StoreOutputLink(task, made)
    \/ \E s \in scenario.sessions :
         \/ Has("analyze") /\ \E facility \in scenario.facility : UploadGroupPrep(s, facility)
         \/ Has("end") /\ SessionEnds(s)
         \/ Has("delete") /\ DeleteToolRun(s)
    \/ Has("tick") /\ Tick

MCNext ==
    /\ UNCHANGED <<part, scenario>>
    /\ \/ SettingsNext /\ UNCHANGED <<trailVars, toolVars>>
       \/ part # "tools" /\ TrailNext /\ UNCHANGED <<settingsVars, toolVars>>
       \/ part = "tools" /\ ToolsNext /\ UNCHANGED <<settingsVars, trailVars>>

MCSpec == MCInit /\ [][MCNext]_<<part, scenario, settingsVars, trailVars, toolVars>>
=============================================================================
