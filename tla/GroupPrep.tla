------------------------------ MODULE GroupPrep ------------------------------
(***************************************************************************)
(* One Group Prep session: its workflow stage, the documents uploaded to   *)
(* it, the overlay of manual edits, and the requests that read the         *)
(* session, compute with no lock held, and write their result back.        *)
(*                                                                         *)
(* A handler runs its closure under the session's write lock, so each      *)
(* handler is one atomic action.  /analyze and /export are the exceptions: *)
(* each takes the lock twice, and anything may happen in between.  A       *)
(* request that the code refuses changes nothing and is a stuttering step. *)
(*                                                                         *)
(* A document is a member of Docs: its header shape and its rows are given *)
(* by ShapeOf and RowsOf.  A field mapping is named by the shape it was    *)
(* built for.  File names are numbers, their order the code's sort order.  *)
(***************************************************************************)
EXTENDS Integers, FiniteSets

CONSTANTS
    Files,            \* file names
    Docs,             \* parsed documents an upload can produce
    Shapes,           \* header shapes
    ShapeOf,          \* Docs -> Shapes
    RowsOf,           \* Docs -> sets of rows [line, number, group]
    Transform,        \* Docs -> Docs, the vendor transform (identity if none)
    GroupShapes,      \* shapes with the columns of a master group file
    CanonicalShapes,  \* shapes readable with no field mapping
    Registries,       \* values of the vendor registry: sets of known shapes
    Numbers,          \* unit numbers
    Groups,           \* UnitGroup names
    Requests,         \* concurrent /analyze and /export requests
    Ready(_),         \* whether validation of its argument finds no error
    None,             \* "no value"
    MaxGeneration     \* bound on data_generation

ASSUME FilesAssumption == Files \subseteq Nat /\ IsFiniteSet(Files) /\ None \notin Files
ASSUME DocsAssumption ==
    /\ ShapeOf \in [Docs -> Shapes]
    /\ Transform \in [Docs -> Docs]
    /\ None \notin Docs
    /\ None \notin Shapes
ASSUME RowsAssumption ==
    /\ RowsOf \in [Docs -> SUBSET [line : Nat, number : Numbers, group : Groups]]
    /\ \A d \in Docs : IsFiniteSet(RowsOf[d])
    /\ IsFiniteSet(Groups)
    /\ None \notin Numbers
    /\ None \notin Groups
ASSUME RegistriesAssumption == Registries \subseteq SUBSET Shapes
\* Transforms keep the original columns and are idempotent.
ASSUME TransformAssumption ==
    /\ \A d \in Docs : Transform[Transform[d]] = Transform[d]
    /\ \A v \in Registries, d \in Docs :
         ShapeOf[d] \in v => ShapeOf[Transform[d]] \in v
ASSUME MaxGenerationAssumption == MaxGeneration \in Nat

DiscoveryType ==
    [selected : SUBSET Files, candidates : SUBSET Files, groupFiles : SUBSET Files,
     groupFile : Files \cup {None}, pending : SUBSET Files, ready : BOOLEAN]

ASSUME NoneAssumption == None \notin DiscoveryType

VARIABLES
    workflow,     \* the session's WorkflowStage
    documents,    \* [Files -> Docs or None]
    vendors,      \* the registry stashed by the last discovery
    resolutions,  \* format_resolutions: [Files -> Shapes or None]
    corrections,  \* (file, unit number) -> corrected number and group
    exempt,       \* dimension_exemptions
    excluded,     \* excluded_groups
    acknowledged, \* group_check_acknowledgments
    confirmed,    \* group_file_confirmed
    discovery,    \* the last DiscoveryResult, or None
    validation,   \* what the last ValidationResult was computed from, or None
    analysis,     \* the last AnalysisResults, or None
    generation,   \* data_generation
    requests      \* what each in-flight request has captured

uploads == <<documents, vendors, resolutions>>
overlay == <<corrections, exempt, excluded, acknowledged>>
results == <<validation, analysis>>
vars == <<workflow, uploads, overlay, confirmed, discovery, results,
          generation, requests>>

-----------------------------------------------------------------------------
(* Stages, in the order of the derived Ord of WorkflowStage.               *)
Uploaded   == 0
Discovered == 1
Validated  == 2
Analyzed   == 3
Exported   == 4
WorkflowStage == Uploaded .. Exported

require_stage(required) == workflow >= required

-----------------------------------------------------------------------------
(* The effective view of a document.                                       *)

Units == Files \X Numbers

NoCorrection == [number |-> None, group |-> None]

Present(docs) == {f \in Files : docs[f] # None}

\* The field mapping a document is read through: the stored resolution, or
\* the mapping of the vendor detected on the fly.
MappingOf(f) ==
    IF resolutions[f] # None THEN resolutions[f]
    ELSE IF ShapeOf[documents[f]] \in vendors THEN ShapeOf[documents[f]]
    ELSE None

\* A mapping built for other headers names columns the document lacks.
Readable(f) ==
    /\ documents[f] # None
    /\ \/ MappingOf(f) = ShapeOf[documents[f]]
       \/ MappingOf(f) = None /\ ShapeOf[documents[f]] \in CanonicalShapes

OrElse(value, default) == IF value = None THEN default ELSE value

\* Corrections are looked up by the number the row was uploaded with.
apply_corrections(f, row) ==
    LET c == corrections[<<f, row.number>>] IN
    [line |-> row.line, number |-> OrElse(c.number, row.number),
     group |-> OrElse(c.group, row.group)]

filter_excluded_groups(rows) == {r \in rows : r.group \notin excluded}

effective_document(f) ==
    IF Readable(f)
    THEN filter_excluded_groups({apply_corrections(f, r) : r \in RowsOf[documents[f]]})
    ELSE {}

unit_number_occurrences(f, n) ==
    Cardinality({r \in effective_document(f) : r.number = n})

-----------------------------------------------------------------------------
(* Discovery.                                                              *)

apply_vendor_transforms(docs, v) ==
    [f \in Files |-> IF docs[f] # None /\ ShapeOf[docs[f]] \in v
                     THEN Transform[docs[f]] ELSE docs[f]]

is_group_document(doc) == ShapeOf[doc] \in GroupShapes

Candidates(docs, v) == {f \in Present(docs) : ShapeOf[docs[f]] \in v}

GroupFiles(docs, v) ==
    {f \in Present(docs) \ Candidates(docs, v) : is_group_document(docs[f])}

reconcile_unit_file_selection(docs, prev, v) ==
    LET kept == IF prev = None THEN {} ELSE prev.selected \cap Present(docs) IN
    IF kept # {} THEN kept
    ELSE IF Cardinality(Candidates(docs, v)) = 1 THEN Candidates(docs, v)
    ELSE {}

selected_group_file(docs, prev, v) ==
    IF Cardinality(GroupFiles(docs, v)) = 1
    THEN CHOOSE f \in GroupFiles(docs, v) : TRUE
    ELSE IF prev # None /\ prev.groupFile \in Present(docs) THEN prev.groupFile
    ELSE None

resolve_group_file_readiness(docs, prev, conf, v) ==
    LET sel == selected_group_file(docs, prev, v) IN
    IF sel = None THEN GroupFiles(docs, v) = {}
    ELSE conf /\ is_group_document(docs[sel])

find_header_mismatches(docs, names) ==
    \E f, g \in names : ShapeOf[docs[f]] # ShapeOf[docs[g]]

\* Mutant: files of the candidate list, selected or not, count as pending.
DiscoveryResultPendingCandidates(docs, res, prev, conf, v) ==
    [selected   |-> reconcile_unit_file_selection(docs, prev, v),
     candidates |-> Candidates(docs, v),
     groupFiles |-> GroupFiles(docs, v),
     groupFile  |-> selected_group_file(docs, prev, v),
     pending    |-> {f \in Candidates(docs, v) : res[f] = None},
     ready      |-> FALSE]

DiscoveryResult(docs, res, prev, conf, v) ==
    LET names   == reconcile_unit_file_selection(docs, prev, v)
        pending == {f \in names : res[f] = None}
    IN [selected   |-> names,
        candidates |-> Candidates(docs, v),
        groupFiles |-> GroupFiles(docs, v),
        groupFile  |-> selected_group_file(docs, prev, v),
        pending    |-> pending,
        ready      |-> /\ names # {}
                       /\ pending = {}
                       /\ ~find_header_mismatches(docs, names)
                       /\ resolve_group_file_readiness(docs, prev, conf, v)]

\* Every discovery-affecting handler ends here: docs, res, prev and conf are
\* the values it has already written, touches how often it has already
\* bumped the generation.
compute_discovery(docs, res, prev, conf, v, touches) ==
    LET transformed == apply_vendor_transforms(docs, v) IN
    /\ documents' = transformed
    /\ resolutions' = res
    /\ vendors' = v
    /\ confirmed' = conf
    /\ discovery' = DiscoveryResult(transformed, res, prev, conf, v)
    /\ workflow' = Discovered
    /\ generation' = generation + touches + (IF transformed = docs THEN 0 ELSE 1) + 1
    /\ UNCHANGED <<overlay, results, requests>>

-----------------------------------------------------------------------------
(* What validation, analysis and export read.                              *)

ValidationInputs ==
    [rows |-> [f \in discovery.selected |-> effective_document(f)],
     exempt |-> exempt, acknowledged |-> acknowledged]

\* Only the unit files and the auto-classified group files are handed over,
\* so a selected group file outside both is not found.
select_group_document ==
    IF discovery.groupFile \in discovery.selected \cup discovery.groupFiles
    THEN discovery.groupFile ELSE None

AnalysisResults ==
    [rows |-> [f \in discovery.selected |-> effective_document(f)],
     reference |-> select_group_document,
     referenceDoc |-> IF select_group_document = None THEN None
                      ELSE documents[select_group_document]]

HasExportableContent(results_) == DOMAIN results_.rows # {}

-----------------------------------------------------------------------------
(* Handlers that change what was discovered.                               *)

CanTouch(n) == generation + n <= MaxGeneration

Discover(v) ==
    /\ CanTouch(1)
    /\ compute_discovery(documents, resolutions, discovery, confirmed, v, 0)

\* complete_discovery with the new selection, then compute_discovery.
SelectUnitFile(names, v) ==
    /\ CanTouch(2)
    /\ require_stage(Discovered)
    /\ names # {}
    /\ names \subseteq discovery.candidates
    /\ compute_discovery(documents, resolutions,
                         [discovery EXCEPT !.selected = names], confirmed, v, 1)

SelectGroupFile(f, v) ==
    /\ CanTouch(1)
    /\ require_stage(Discovered)
    /\ f \in discovery.groupFiles
    /\ compute_discovery(documents, resolutions,
                         [discovery EXCEPT !.groupFile = f], FALSE, v, 0)

ConfirmGroupFile(v) ==
    /\ CanTouch(1)
    /\ require_stage(Discovered)
    /\ discovery.groupFile # None
    /\ is_group_document(documents[discovery.groupFile])
    /\ compute_discovery(documents, resolutions, discovery, TRUE, v, 0)

upsert_document(f, doc) == [documents EXCEPT ![f] = doc]

UploadGroupFile(f, doc, v) ==
    /\ CanTouch(2)
    /\ require_stage(Discovered)
    /\ compute_discovery(upsert_document(f, doc), resolutions,
                         [discovery EXCEPT !.groupFile = f], FALSE, v, 1)

\* The stale resolution stored under the same name is dropped.
UploadUnitFile(f, doc, v) ==
    /\ CanTouch(2)
    /\ require_stage(Discovered)
    /\ compute_discovery(upsert_document(f, doc), [resolutions EXCEPT ![f] = None],
                         [discovery EXCEPT !.selected = @ \cup {f}], confirmed, v, 1)

\* current_unit_file_name: the first pending file in sorted order.
IsCurrentUnitFile(f) ==
    /\ f \in discovery.pending
    /\ \A g \in discovery.pending : f <= g

\* One confirmation resolves every selected file that has the same headers.
ResolveConfirm(v) ==
    /\ CanTouch(1)
    /\ require_stage(Discovered)
    /\ \E f \in discovery.pending :
         /\ IsCurrentUnitFile(f)
         /\ ShapeOf[documents[f]] \in v
         /\ ~find_header_mismatches(documents, discovery.selected)
         /\ LET shape == ShapeOf[documents[f]] IN
            compute_discovery(documents,
                [g \in Files |-> IF /\ g \in discovery.selected
                                    /\ resolutions[g] = None
                                    /\ ShapeOf[documents[g]] = shape
                                 THEN shape ELSE resolutions[g]],
                discovery, confirmed, v, 0)

\* A manual mapping is validated against the current file's own headers.
ResolveMap(v) ==
    /\ CanTouch(1)
    /\ require_stage(Discovered)
    /\ \E f \in discovery.pending :
         /\ IsCurrentUnitFile(f)
         /\ compute_discovery(documents,
                [resolutions EXCEPT ![f] = ShapeOf[documents[f]]],
                discovery, confirmed, v, 0)

ResolveReset(v) ==
    /\ CanTouch(1)
    /\ require_stage(Discovered)
    /\ compute_discovery(documents,
           [g \in Files |-> IF g \in discovery.selected THEN None ELSE resolutions[g]],
           discovery, confirmed, v, 0)

-----------------------------------------------------------------------------
(* Edits.  Each one touches the data and re-runs validation; before        *)
(* discovery the validation is refused but the edit has been made.         *)

run_validation ==
    IF require_stage(Discovered)
    THEN validation' = ValidationInputs' /\ workflow' = Validated
    ELSE UNCHANGED <<validation, workflow>>

Edited(touches) ==
    /\ CanTouch(touches)
    /\ generation' = generation + touches
    /\ UNCHANGED <<uploads, confirmed, discovery, analysis, requests>>
    /\ run_validation

\* /correct on the UnitGroup cell, or on the Number cell.
Correct(f, n, correction) ==
    /\ unit_number_occurrences(f, n) = 1
    /\ corrections' = [corrections EXCEPT ![<<f, n>>] =
                         [number |-> OrElse(correction.number, @.number),
                          group  |-> OrElse(correction.group, @.group)]]
    /\ UNCHANGED <<exempt, excluded, acknowledged>>
    /\ Edited(1)

\* The rows of the selected unit files that carry a UnitGroup.
RowsInGroup(g) ==
    UNION {{<<f, r>> : r \in {r \in effective_document(f) : r.group = g}} :
             f \in discovery.selected}

\* A rename is one correction per matching row, keyed by the number the row
\* now shows.  With nothing left to rename, it is accepted without effect if
\* the new name is in use.
CorrectGroup(old, new) ==
    /\ require_stage(Discovered)
    /\ RowsInGroup(old) # {} \/ RowsInGroup(new) # {}
    /\ corrections' = [u \in Units |->
                         IF \E p \in RowsInGroup(old) : u = <<p[1], p[2].number>>
                         THEN [corrections[u] EXCEPT !.group = new]
                         ELSE corrections[u]]
    /\ UNCHANGED <<exempt, excluded, acknowledged>>
    /\ Edited(Cardinality(RowsInGroup(old)))

ExemptDimensions(f, n) ==
    /\ unit_number_occurrences(f, n) # 0
    /\ exempt' = exempt \cup {<<f, n>>}
    /\ UNCHANGED <<corrections, excluded, acknowledged>>
    /\ Edited(1)

ExcludeGroups(names, isExcluded) ==
    /\ excluded' = IF isExcluded THEN excluded \cup names ELSE excluded \ names
    /\ UNCHANGED <<corrections, exempt, acknowledged>>
    /\ Edited(Cardinality(names))

AcknowledgeGroupWarnings(names, isAcknowledged) ==
    /\ acknowledged' = IF isAcknowledged THEN acknowledged \cup names
                                         ELSE acknowledged \ names
    /\ UNCHANGED <<corrections, exempt, excluded>>
    /\ Edited(Cardinality(names))

Validate ==
    /\ require_stage(Discovered)
    /\ UNCHANGED <<uploads, overlay, confirmed, discovery, analysis, generation, requests>>
    /\ run_validation

-----------------------------------------------------------------------------
(* /analyze and /export: read under the lock, compute, write back only if  *)
(* the generation is still the one that was read.                          *)

Idle == [kind |-> "idle", generation |-> 0, results |-> None]

read_inputs(q) ==
    /\ requests[q] = Idle
    /\ require_stage(Validated)
    /\ Cardinality(discovery.groupFiles) <= 1 \/ discovery.groupFile # None
    /\ requests' = [requests EXCEPT ![q] =
                      [kind |-> "analyze", generation |-> generation,
                       results |-> AnalysisResults]]
    /\ UNCHANGED <<workflow, uploads, overlay, confirmed, discovery, results, generation>>

\* Mutant: the write-back does not compare generations.
record_on_session_unchecked(q) ==
    /\ requests[q].kind = "analyze"
    /\ analysis' = requests[q].results
    /\ workflow' = Analyzed
    /\ requests' = [requests EXCEPT ![q] = Idle]
    /\ UNCHANGED <<uploads, overlay, confirmed, discovery, validation, generation>>

record_on_session(q) ==
    /\ requests[q].kind = "analyze"
    /\ IF generation = requests[q].generation
       THEN analysis' = requests[q].results /\ workflow' = Analyzed
       ELSE UNCHANGED <<analysis, workflow>>
    /\ requests' = [requests EXCEPT ![q] = Idle]
    /\ UNCHANGED <<uploads, overlay, confirmed, discovery, validation, generation>>

\* Mutant: the export does not ask whether validation passed.
begin_export_unready(q) ==
    /\ requests[q] = Idle
    /\ require_stage(Analyzed)
    /\ HasExportableContent(analysis)
    /\ requests' = [requests EXCEPT ![q] =
                      [kind |-> "export", generation |-> generation,
                       results |-> analysis]]
    /\ UNCHANGED <<workflow, uploads, overlay, confirmed, discovery, results, generation>>

begin_export(q) ==
    /\ requests[q] = Idle
    /\ require_stage(Analyzed)
    /\ Ready(validation)
    /\ HasExportableContent(analysis)
    /\ requests' = [requests EXCEPT ![q] =
                      [kind |-> "export", generation |-> generation,
                       results |-> analysis]]
    /\ UNCHANGED <<workflow, uploads, overlay, confirmed, discovery, results, generation>>

\* Mutant: the write-back does not compare generations.
finish_export_unchecked(q) ==
    /\ requests[q].kind = "export"
    /\ workflow' = Exported
    /\ requests' = [requests EXCEPT ![q] = Idle]
    /\ UNCHANGED <<uploads, overlay, confirmed, discovery, results, generation>>

finish_export(q) ==
    /\ requests[q].kind = "export"
    /\ workflow' = IF generation = requests[q].generation THEN Exported ELSE workflow
    /\ requests' = [requests EXCEPT ![q] = Idle]
    /\ UNCHANGED <<uploads, overlay, confirmed, discovery, results, generation>>

\* The computation fails, or the client goes away: nothing is written back.
Abandon(q) ==
    /\ requests[q] # Idle
    /\ requests' = [requests EXCEPT ![q] = Idle]
    /\ UNCHANGED <<workflow, uploads, overlay, confirmed, discovery, results, generation>>

-----------------------------------------------------------------------------
\* create_session: whatever was uploaded, nothing discovered yet.
Init ==
    /\ workflow = Uploaded
    /\ documents \in [Files -> Docs \cup {None}]
    /\ vendors = {}
    /\ resolutions = [f \in Files |-> None]
    /\ corrections = [u \in Units |-> NoCorrection]
    /\ exempt = {}
    /\ excluded = {}
    /\ acknowledged = {}
    /\ confirmed = FALSE
    /\ discovery = None
    /\ validation = None
    /\ analysis = None
    /\ generation = 0
    /\ requests = [q \in Requests |-> Idle]

DiscoveryStep ==
    \E v \in Registries :
        \/ Discover(v)
        \/ \E names \in SUBSET Files : SelectUnitFile(names, v)
        \/ \E f \in Files : SelectGroupFile(f, v)
        \/ ConfirmGroupFile(v)
        \/ \E f \in Files, doc \in Docs : UploadGroupFile(f, doc, v)
        \/ \E f \in Files, doc \in Docs : UploadUnitFile(f, doc, v)
        \/ ResolveConfirm(v)
        \/ ResolveMap(v)
        \/ ResolveReset(v)

Corrections ==
    {[NoCorrection EXCEPT !.group = g] : g \in Groups}
        \cup {[NoCorrection EXCEPT !.number = n] : n \in Numbers}

EditStep ==
    \/ \E f \in Files, n \in Numbers, c \in Corrections : Correct(f, n, c)
    \/ \E old, new \in Groups : CorrectGroup(old, new)
    \/ \E f \in Files, n \in Numbers : ExemptDimensions(f, n)
    \/ \E names \in SUBSET Groups, b \in BOOLEAN : ExcludeGroups(names, b)
    \/ \E names \in SUBSET Groups, b \in BOOLEAN : AcknowledgeGroupWarnings(names, b)
    \/ Validate

RequestStep ==
    \E q \in Requests :
        \/ read_inputs(q)
        \/ record_on_session(q)
        \/ begin_export(q)
        \/ finish_export(q)
        \/ Abandon(q)

Next == DiscoveryStep \/ EditStep \/ RequestStep

Spec == Init /\ [][Next]_vars

-----------------------------------------------------------------------------
(* Properties.                                                             *)

\* Type correctness of the session and of the in-flight requests.
TypeOK ==
    /\ workflow \in WorkflowStage
    /\ documents \in [Files -> Docs \cup {None}]
    /\ vendors \in SUBSET Shapes
    /\ resolutions \in [Files -> Shapes \cup {None}]
    /\ corrections \in [Units -> [number : Numbers \cup {None}, group : Groups \cup {None}]]
    /\ exempt \subseteq Units
    /\ excluded \subseteq Groups
    /\ acknowledged \subseteq Groups
    /\ confirmed \in BOOLEAN
    /\ discovery \in DiscoveryType \cup {None}
    /\ generation \in Nat
    /\ requests = [q \in Requests |-> requests[q]]
    /\ \A q \in Requests :
         /\ requests[q].kind \in {"idle", "analyze", "export"}
         /\ requests[q].generation \in Nat

\* The `expect`s on the discovery result hold: the Discovered stage
\* guarantees a result, and a name kept in it still names an uploaded
\* document (confirm_group_file, apply_resolution, run_validation and
\* read_inputs would otherwise panic under the session lock).
ExpectsHold ==
    /\ workflow >= Discovered => discovery # None
    /\ discovery # None =>
         /\ discovery.selected \subseteq Present(documents)
         /\ discovery.pending \subseteq discovery.selected
         /\ discovery.groupFile # None => discovery.groupFile \in Present(documents)

\* A session shown as validated, analyzed or exported carries the validation,
\* and the analysis, of the data it holds now, whatever edits, re-discoveries
\* or other requests ran while /analyze and /export were computing (the
\* data_generation guard).  So the stage also guarantees that they exist.
ResultsAreCurrent ==
    /\ workflow >= Validated => validation = ValidationInputs
    /\ workflow >= Analyzed => analysis = AnalysisResults

\* A session is marked exported only while validation of its present data
\* finds no error: a correction that re-opens an error between the export's
\* two lock scopes is never overwritten by the late write-back.
ExportedIsClean == workflow = Exported => Ready(ValidationInputs)

\* The stored discovery result is what /discover would compute now with the
\* registry it was computed with: no handler leaves a selection, a
\* confirmation, a resolution or an upload behind that the result shown to
\* the user does not reflect, and running /discover again changes nothing.
DiscoveryIsStable ==
    discovery # None =>
        /\ apply_vendor_transforms(documents, vendors) = documents
        /\ DiscoveryResult(documents, resolutions, discovery, confirmed, vendors) = discovery

-----------------------------------------------------------------------------
(* Statements of the code's comments that the code does not keep.          *)

\* An accepted /correct shows in the effective rows: a correction is never
\* stored as a dead entry with no effect and no error (CorrectNotReady).
CorrectionsTakeEffect ==
    [][\A f \in Files, n \in Numbers, g \in Groups :
         Correct(f, n, [NoCorrection EXCEPT !.group = g]) =>
            \A r \in effective_document(f)' : r.number = n => r.group = g]_vars

=============================================================================
