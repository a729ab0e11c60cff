--------------------------- MODULE GroupPrep_proofs ---------------------------
(* Proofs about Group Prep sessions, for every value of the constants.     *)
EXTENDS GroupPrep, FiniteSetTheorems, TLAPS

\* A set of one element, by Cardinality, has an element.
LEMMA SingletonNonempty ==
    ASSUME NEW S, Cardinality(S) = 1
    PROVE  S # {}
BY FS_EmptySet

\* What discovery selects exists among the documents it looked at.
LEMMA SelectionFacts ==
    ASSUME NEW docs \in [Files -> Docs \cup {None}],
           NEW prev, prev # None => prev \in DiscoveryType,
           NEW v
    PROVE  /\ reconcile_unit_file_selection(docs, prev, v) \subseteq Present(docs)
           /\ selected_group_file(docs, prev, v) \in Present(docs) \cup {None}
<1> DEFINE C == Candidates(docs, v)
           G == GroupFiles(docs, v)
<1>1. C \subseteq Present(docs)
  BY DEF Candidates
<1>2. G \subseteq Present(docs)
  BY DEF GroupFiles
<1>3. reconcile_unit_file_selection(docs, prev, v) \subseteq Present(docs)
  BY <1>1 DEF reconcile_unit_file_selection
<1>4. selected_group_file(docs, prev, v) \in Present(docs) \cup {None}
  <2>1. CASE Cardinality(G) = 1
    <3>1. G # {}
      BY <2>1, SingletonNonempty
    <3>2. (CHOOSE f \in G : TRUE) \in G
      BY <3>1
    <3> QED BY <2>1, <3>2, <1>2 DEF selected_group_file
  <2>2. CASE Cardinality(G) # 1
    BY <2>2 DEF selected_group_file
  <2> QED BY <2>1, <2>2
<1> QED BY <1>3, <1>4

\* A discovery result has its type, and names only uploaded documents.
LEMMA DiscoveryResultFacts ==
    ASSUME NEW docs \in [Files -> Docs \cup {None}], NEW res,
           NEW prev, prev # None => prev \in DiscoveryType,
           NEW conf \in BOOLEAN, NEW v
    PROVE  LET d == DiscoveryResult(docs, res, prev, conf, v) IN
           /\ d \in DiscoveryType
           /\ d # None
           /\ d.selected \subseteq Present(docs)
           /\ d.pending \subseteq d.selected
           /\ d.groupFile # None => d.groupFile \in Present(docs)
<1> DEFINE names == reconcile_unit_file_selection(docs, prev, v)
           sel   == selected_group_file(docs, prev, v)
           d     == DiscoveryResult(docs, res, prev, conf, v)
<1>1. names \subseteq Present(docs) /\ sel \in Present(docs) \cup {None}
  BY SelectionFacts
<1>2. Present(docs) \subseteq Files
  BY DEF Present
<1>3. Candidates(docs, v) \subseteq Files /\ GroupFiles(docs, v) \subseteq Files
  BY <1>2 DEF Candidates, GroupFiles
<1>4. d.ready \in BOOLEAN
  BY DEF DiscoveryResult, find_header_mismatches, resolve_group_file_readiness
<1>5. /\ d.selected = names
      /\ d.candidates = Candidates(docs, v)
      /\ d.groupFiles = GroupFiles(docs, v)
      /\ d.groupFile = sel
      /\ d.pending = {f \in names : res[f] = None}
      /\ d = [selected |-> d.selected, candidates |-> d.candidates,
              groupFiles |-> d.groupFiles, groupFile |-> d.groupFile,
              pending |-> d.pending, ready |-> d.ready]
  BY DEF DiscoveryResult
<1>6. d \in DiscoveryType
  <2>1. /\ d.selected \in SUBSET Files /\ d.candidates \in SUBSET Files
        /\ d.groupFiles \in SUBSET Files /\ d.groupFile \in Files \cup {None}
        /\ d.pending \in SUBSET Files
    BY <1>1, <1>2, <1>3, <1>5
  <2> HIDE DEF d
  <2> QED BY <2>1, <1>4, <1>5 DEF DiscoveryType
<1>7. d.selected \subseteq Present(docs) /\ d.pending \subseteq d.selected
  BY <1>1, <1>5
<1>8. d.groupFile # None => d.groupFile \in Present(docs)
  BY <1>1, <1>5
<1>9. d # None
  BY <1>6, NoneAssumption
<1> QED BY <1>6, <1>7, <1>8, <1>9

-----------------------------------------------------------------------------
(* Discovery steps.                                                        *)

\* What the session needs for a discovery to be well-typed.
DiscoveryArgs(docs, res, prev, conf, v, touches) ==
    /\ docs \in [Files -> Docs \cup {None}]
    /\ res \in [Files -> Shapes \cup {None}]
    /\ prev \in DiscoveryType \cup {None}
    /\ conf \in BOOLEAN
    /\ v \in Registries
    /\ touches \in Nat

\* A discovery stores its own well-typed result and moves the generation on.
LEMMA ComputeDiscoveryFacts ==
    ASSUME TypeOK,
           NEW docs, NEW res, NEW prev, NEW conf, NEW v, NEW touches,
           DiscoveryArgs(docs, res, prev, conf, v, touches),
           compute_discovery(docs, res, prev, conf, v, touches)
    PROVE  /\ TypeOK'
           /\ ExpectsHold'
           /\ workflow' = Discovered
           /\ generation' \in Nat
           /\ generation' > generation
           /\ requests' = requests
<1> USE DEF DiscoveryArgs
<1> DEFINE T == apply_vendor_transforms(docs, v)
<1>1. T \in [Files -> Docs \cup {None}]
  BY DocsAssumption DEF apply_vendor_transforms
<1>2. discovery' = DiscoveryResult(T, res, prev, conf, v) /\ documents' = T
  BY DEF compute_discovery
<1>3. /\ discovery' \in DiscoveryType
      /\ discovery' # None
      /\ discovery'.selected \subseteq Present(T)
      /\ discovery'.pending \subseteq discovery'.selected
      /\ discovery'.groupFile # None => discovery'.groupFile \in Present(T)
  <2> HIDE DEF T
  <2> QED BY <1>1, <1>2, DiscoveryResultFacts
<1>4. generation' \in Nat /\ generation' > generation
  BY DEF TypeOK, compute_discovery
<1>5. /\ workflow' = Discovered
      /\ requests' = requests
      /\ overlay' = overlay
      /\ vendors' = v /\ resolutions' = res /\ confirmed' = conf
  BY DEF compute_discovery
<1>6. TypeOK'
  <2>1. vendors' \in SUBSET Shapes
    BY <1>5, RegistriesAssumption
  <2>2. workflow' \in WorkflowStage
    BY <1>5 DEF WorkflowStage, Uploaded, Discovered, Exported
  <2> QED BY <1>1, <1>2, <1>3, <1>4, <1>5, <2>1, <2>2 DEF TypeOK, overlay
<1>7. ExpectsHold'
  BY <1>2, <1>3 DEF ExpectsHold, Present
<1> QED BY <1>4, <1>5, <1>6, <1>7

\* Every discovery-affecting handler is one discovery.
LEMMA DiscoveryStepIsDiscovery ==
    ASSUME TypeOK, ExpectsHold, DiscoveryStep
    PROVE  \E docs, res, prev, conf, v, touches :
             /\ DiscoveryArgs(docs, res, prev, conf, v, touches)
             /\ compute_discovery(docs, res, prev, conf, v, touches)
<1> USE DEF DiscoveryArgs
<1>1. PICK v \in Registries :
        \/ Discover(v)
        \/ \E names \in SUBSET Files : SelectUnitFile(names, v)
        \/ \E f \in Files : SelectGroupFile(f, v)
        \/ ConfirmGroupFile(v)
        \/ \E f \in Files, doc \in Docs : UploadGroupFile(f, doc, v)
        \/ \E f \in Files, doc \in Docs : UploadUnitFile(f, doc, v)
        \/ ResolveConfirm(v)
        \/ ResolveMap(v)
        \/ ResolveReset(v)
  BY DEF DiscoveryStep
<1>2. CASE Discover(v)
  BY <1>2 DEF Discover, TypeOK
<1>3. ASSUME require_stage(Discovered) PROVE discovery \in DiscoveryType
  BY <1>3 DEF ExpectsHold, TypeOK, require_stage
<1>4. CASE \E names \in SUBSET Files : SelectUnitFile(names, v)
  <2> PICK names \in SUBSET Files : SelectUnitFile(names, v)
    BY <1>4
  <2>1. [discovery EXCEPT !.selected = names] \in DiscoveryType
    BY <1>3 DEF SelectUnitFile, DiscoveryType
  <2> QED BY <2>1 DEF SelectUnitFile, TypeOK
<1>5. CASE \E f \in Files : SelectGroupFile(f, v)
  <2> PICK f \in Files : SelectGroupFile(f, v)
    BY <1>5
  <2>1. [discovery EXCEPT !.groupFile = f] \in DiscoveryType
    BY <1>3 DEF SelectGroupFile, DiscoveryType
  <2> QED BY <2>1 DEF SelectGroupFile, TypeOK
<1>6. CASE ConfirmGroupFile(v)
  BY <1>6 DEF ConfirmGroupFile, TypeOK
<1>7. CASE \E f \in Files, doc \in Docs : UploadGroupFile(f, doc, v)
  <2> PICK f \in Files, doc \in Docs : UploadGroupFile(f, doc, v)
    BY <1>7
  <2>1. [discovery EXCEPT !.groupFile = f] \in DiscoveryType
    BY <1>3 DEF UploadGroupFile, DiscoveryType
  <2>2. upsert_document(f, doc) \in [Files -> Docs \cup {None}]
    BY DEF upsert_document, TypeOK
  <2> QED BY <2>1, <2>2 DEF UploadGroupFile, TypeOK
<1>8. CASE \E f \in Files, doc \in Docs : UploadUnitFile(f, doc, v)
  <2> PICK f \in Files, doc \in Docs : UploadUnitFile(f, doc, v)
    BY <1>8
  <2>1. [discovery EXCEPT !.selected = @ \cup {f}] \in DiscoveryType
    BY <1>3 DEF UploadUnitFile, DiscoveryType
  <2>2. upsert_document(f, doc) \in [Files -> Docs \cup {None}]
    BY DEF upsert_document, TypeOK
  <2>3. [resolutions EXCEPT ![f] = None] \in [Files -> Shapes \cup {None}]
    BY DEF TypeOK
  <2> QED BY <2>1, <2>2, <2>3 DEF UploadUnitFile, TypeOK
<1>9. ASSUME NEW f, require_stage(Discovered), f \in discovery.pending
      PROVE  ShapeOf[documents[f]] \in Shapes
  <2>1. f \in Present(documents)
    BY <1>9 DEF ExpectsHold, require_stage
  <2> QED BY <2>1, DocsAssumption DEF Present, TypeOK
<1>10. CASE ResolveConfirm(v)
  <2> DEFINE Res(f) == [g \in Files |-> IF /\ g \in discovery.selected
                                           /\ resolutions[g] = None
                                           /\ ShapeOf[documents[g]] = ShapeOf[documents[f]]
                                        THEN ShapeOf[documents[f]] ELSE resolutions[g]]
  <2>1. PICK f \in discovery.pending :
              compute_discovery(documents, Res(f), discovery, confirmed, v, 0)
    BY <1>10 DEF ResolveConfirm
  <2>2. ShapeOf[documents[f]] \in Shapes
    BY <1>9, <1>10 DEF ResolveConfirm
  <2>3. Res(f) \in [Files -> Shapes \cup {None}]
    BY <2>2 DEF TypeOK
  <2> HIDE DEF Res
  <2> QED BY <2>1, <2>3 DEF TypeOK
<1>11. CASE ResolveMap(v)
  <2>1. PICK f \in discovery.pending :
              compute_discovery(documents,
                  [resolutions EXCEPT ![f] = ShapeOf[documents[f]]],
                  discovery, confirmed, v, 0)
    BY <1>11 DEF ResolveMap
  <2>2. ShapeOf[documents[f]] \in Shapes
    BY <1>9, <1>11 DEF ResolveMap
  <2>3. [resolutions EXCEPT ![f] = ShapeOf[documents[f]]] \in [Files -> Shapes \cup {None}]
    BY <2>2 DEF TypeOK
  <2> QED BY <2>1, <2>3 DEF TypeOK
<1>12. CASE ResolveReset(v)
  <2> DEFINE Res == [g \in Files |-> IF g \in discovery.selected THEN None
                                                             ELSE resolutions[g]]
  <2>1. Res \in [Files -> Shapes \cup {None}]
    BY DEF TypeOK
  <2>2. compute_discovery(documents, Res, discovery, confirmed, v, 0)
    BY <1>12 DEF ResolveReset
  <2> HIDE DEF Res
  <2> QED BY <2>1, <2>2 DEF TypeOK
<1> QED BY <1>1, <1>2, <1>4, <1>5, <1>6, <1>7, <1>8, <1>10, <1>11, <1>12

-----------------------------------------------------------------------------
(* Edit steps.                                                             *)

\* What validation and analysis read.
Data == <<uploads, overlay, discovery>>

\* The image of a finite set under a function is finite.
LEMMA ImageFinite ==
    ASSUME NEW S, IsFiniteSet(S), NEW h, h = [x \in S |-> h[x]]
    PROVE  IsFiniteSet({h[x] : x \in S})
<1> DEFINE T == {h[x] : x \in S}
<1>1. h \in Surjection(S, T)
  BY DEF Surjection
<1> QED BY <1>1, FS_Surjection

LEMMA EffectiveDocumentFinite ==
    ASSUME TypeOK, NEW f \in Files
    PROVE  IsFiniteSet(effective_document(f))
<1>1. CASE Readable(f)
  <2> DEFINE raw == RowsOf[documents[f]]
             h   == [r \in raw |-> apply_corrections(f, r)]
             img == {apply_corrections(f, r) : r \in raw}
  <2>1. documents[f] \in Docs
    BY <1>1 DEF Readable, TypeOK
  <2>2. IsFiniteSet(raw)
    BY <2>1, RowsAssumption
  <2>3. img = {h[r] : r \in raw}
    OBVIOUS
  <2>4. IsFiniteSet({h[r] : r \in raw})
    <3>1. h = [r \in raw |-> h[r]]
      OBVIOUS
    <3> HIDE DEF raw, h
    <3> QED BY <2>2, <3>1, ImageFinite
  <2>5. effective_document(f) \in SUBSET img
    BY <1>1 DEF effective_document, filter_excluded_groups
  <2> HIDE DEF img, h, raw
  <2> QED BY <2>3, <2>4, <2>5, FS_Subset
<1>2. CASE ~Readable(f)
  BY <1>2, FS_EmptySet DEF effective_document
<1> QED BY <1>1, <1>2

LEMMA RowsInGroupFinite ==
    ASSUME TypeOK, discovery \in DiscoveryType, NEW g
    PROVE  IsFiniteSet(RowsInGroup(g))
<1> DEFINE rows(f)  == {r \in effective_document(f) : r.group = g}
           pairs(f) == {<<f, r>> : r \in rows(f)}
           h        == [f \in discovery.selected |-> pairs(f)]
<1>1. discovery.selected \subseteq Files
  BY DEF DiscoveryType
<1>2. ASSUME NEW f \in discovery.selected PROVE IsFiniteSet(pairs(f))
  <2> DEFINE k == [r \in rows(f) |-> <<f, r>>]
  <2>1. IsFiniteSet(rows(f))
    BY <1>1, EffectiveDocumentFinite, FS_Subset
  <2>2. k = [r \in rows(f) |-> k[r]]
    OBVIOUS
  <2>3. IsFiniteSet({k[r] : r \in rows(f)})
    <3> HIDE DEF k, rows
    <3> QED BY <2>1, <2>2, ImageFinite
  <2> QED BY <2>3
<1>3. IsFiniteSet(discovery.selected)
  BY <1>1, FilesAssumption, FS_Subset
<1>4. h = [f \in discovery.selected |-> h[f]]
  OBVIOUS
<1>5. IsFiniteSet({h[f] : f \in discovery.selected})
  <2> HIDE DEF h
  <2> QED BY <1>3, <1>4, ImageFinite
<1>6. \A P \in {h[f] : f \in discovery.selected} : IsFiniteSet(P)
  BY <1>2
<1>7. IsFiniteSet(UNION {h[f] : f \in discovery.selected})
  <2> HIDE DEF h
  <2> QED BY <1>5, <1>6, FS_UNION
<1>8. {h[f] : f \in discovery.selected} = {pairs(f) : f \in discovery.selected}
  <2> HIDE DEF pairs
  <2> QED OBVIOUS
<1>9. RowsInGroup(g) = UNION {pairs(f) : f \in discovery.selected}
  BY DEF RowsInGroup
<1> QED BY <1>7, <1>8, <1>9

\* What an edit does: validation is re-run on the edited data if discovery
\* has run, and the generation moves unless the data stays the same.
EditEffect ==
    /\ requests' = requests
    /\ uploads' = uploads /\ discovery' = discovery /\ confirmed' = confirmed
    /\ analysis' = analysis
    /\ IF workflow >= Discovered
       THEN workflow' = Validated /\ validation' = ValidationInputs'
       ELSE workflow' = workflow /\ validation' = validation
    /\ generation' \in Nat
    /\ generation' >= generation
    /\ generation' = generation => overlay' = overlay

\* An Edited step that changes the overlay only when it touches the data.
LEMMA EditedFacts ==
    ASSUME TypeOK, NEW touches, Edited(touches), touches \in Nat,
           touches = 0 => overlay' = overlay
    PROVE  EditEffect
BY DEF EditEffect, Edited, run_validation, require_stage, TypeOK

\* Every edit, and /validate, has that effect and keeps the overlay typed.
LEMMA EditStepFacts ==
    ASSUME TypeOK, ExpectsHold, EditStep
    PROVE  EditEffect /\ TypeOK'
<1>1. CASE \E f \in Files, n \in Numbers, c \in Corrections : Correct(f, n, c)
  <2> PICK f \in Files, n \in Numbers, c \in Corrections : Correct(f, n, c)
    BY <1>1
  <2>1. EditEffect
    BY EditedFacts DEF Correct
  <2>2. corrections' \in [Units -> [number : Numbers \cup {None}, group : Groups \cup {None}]]
    BY DEF Correct, Corrections, NoCorrection, OrElse, TypeOK, Units
  <2> QED BY <2>1, <2>2 DEF EditEffect, Correct, TypeOK, uploads, WorkflowStage,
              Uploaded, Validated, Exported
<1>2. CASE \E old, new \in Groups : CorrectGroup(old, new)
  <2> PICK old \in Groups, new \in Groups : CorrectGroup(old, new)
    BY <1>2
  <2> DEFINE rows == RowsInGroup(old)
  <2>1. IsFiniteSet(rows)
    BY RowsInGroupFinite DEF CorrectGroup, ExpectsHold, TypeOK, require_stage
  <2>2. Cardinality(rows) \in Nat /\ (Cardinality(rows) = 0 => rows = {})
    BY <2>1, FS_EmptySet, FS_CardinalityType
  <2>3. rows = {} => overlay' = overlay
    BY DEF CorrectGroup, overlay, TypeOK
  <2>4. EditEffect
    BY <2>2, <2>3, EditedFacts DEF CorrectGroup
  <2>5. corrections' \in [Units -> [number : Numbers \cup {None}, group : Groups \cup {None}]]
    BY DEF CorrectGroup, TypeOK
  <2> QED BY <2>4, <2>5 DEF EditEffect, CorrectGroup, TypeOK, uploads, WorkflowStage,
              Uploaded, Validated, Exported
<1>3. CASE \E f \in Files, n \in Numbers : ExemptDimensions(f, n)
  <2> PICK f \in Files, n \in Numbers : ExemptDimensions(f, n)
    BY <1>3
  <2>1. EditEffect
    BY EditedFacts DEF ExemptDimensions
  <2> QED BY <2>1 DEF EditEffect, ExemptDimensions, TypeOK, uploads, Units, WorkflowStage,
              Uploaded, Validated, Exported
<1>4. ASSUME NEW names \in SUBSET Groups
      PROVE  Cardinality(names) \in Nat /\ (Cardinality(names) = 0 => names = {})
  BY RowsAssumption, FS_Subset, FS_EmptySet, FS_CardinalityType
<1>5. CASE \E names \in SUBSET Groups, b \in BOOLEAN : ExcludeGroups(names, b)
  <2> PICK names \in SUBSET Groups, b \in BOOLEAN : ExcludeGroups(names, b)
    BY <1>5
  <2>1. names = {} => overlay' = overlay
    BY DEF ExcludeGroups, overlay
  <2>2. EditEffect
    BY <1>4, <2>1, EditedFacts DEF ExcludeGroups
  <2> QED BY <2>2 DEF EditEffect, ExcludeGroups, TypeOK, uploads, WorkflowStage,
              Uploaded, Validated, Exported
<1>6. CASE \E names \in SUBSET Groups, b \in BOOLEAN : AcknowledgeGroupWarnings(names, b)
  <2> PICK names \in SUBSET Groups, b \in BOOLEAN : AcknowledgeGroupWarnings(names, b)
    BY <1>6
  <2>1. names = {} => overlay' = overlay
    BY DEF AcknowledgeGroupWarnings, overlay
  <2>2. EditEffect
    BY <1>4, <2>1, EditedFacts DEF AcknowledgeGroupWarnings
  <2> QED BY <2>2 DEF EditEffect, AcknowledgeGroupWarnings, TypeOK, uploads, WorkflowStage,
              Uploaded, Validated, Exported
<1>7. CASE Validate
  <2>1. EditEffect
    BY <1>7 DEF Validate, EditEffect, run_validation, require_stage, overlay, TypeOK
  <2> QED BY <1>7, <2>1 DEF EditEffect, Validate, TypeOK, uploads, overlay, WorkflowStage,
              Uploaded, Validated, Exported
<1> QED BY <1>1, <1>2, <1>3, <1>5, <1>6, <1>7 DEF EditStep

-----------------------------------------------------------------------------
(* The inductive invariant.                                                *)

\* A request whose generation is still the session's holds results, or was
\* admitted by results, that are those of the session's present data.
InFlightCurrent ==
    \A q \in Requests :
        requests[q].kind # "idle" =>
            /\ requests[q].generation <= generation
            /\ requests[q].generation = generation =>
                 /\ workflow >= Validated
                 /\ requests[q].kind = "analyze" => requests[q].results = AnalysisResults
                 /\ requests[q].kind = "export" =>
                      /\ analysis = AnalysisResults
                      /\ Ready(ValidationInputs)

IInv == TypeOK /\ ExpectsHold /\ ResultsAreCurrent /\ ExportedIsClean /\ InFlightCurrent

LEMMA InitIInv == Init => IInv
<1> SUFFICES ASSUME Init PROVE IInv
  OBVIOUS
<1>1. TypeOK
  <2>1. workflow \in WorkflowStage
    BY DEF Init, WorkflowStage, Uploaded, Exported
  <2>2. /\ resolutions \in [Files -> Shapes \cup {None}]
        /\ corrections \in [Units -> [number : Numbers \cup {None}, group : Groups \cup {None}]]
    BY DEF Init, NoCorrection
  <2>3. /\ vendors \in SUBSET Shapes /\ exempt \subseteq Units
        /\ excluded \subseteq Groups /\ acknowledged \subseteq Groups
    BY DEF Init
  <2>4. requests = [q \in Requests |-> requests[q]]
    BY DEF Init
  <2>5. \A q \in Requests : /\ requests[q].kind \in {"idle", "analyze", "export"}
                            /\ requests[q].generation \in Nat
    BY DEF Init, Idle
  <2> QED BY <2>1, <2>2, <2>3, <2>4, <2>5 DEF Init, TypeOK
<1>2. ExpectsHold /\ ResultsAreCurrent /\ ExportedIsClean
  BY DEF Init, ExpectsHold, ResultsAreCurrent, ExportedIsClean, Uploaded, Discovered,
         Validated, Analyzed, Exported
<1>3. InFlightCurrent
  BY DEF Init, InFlightCurrent, Idle
<1> QED BY <1>1, <1>2, <1>3 DEF IInv

\* Validation and analysis read nothing but the uploads, the overlay and the
\* discovery result.
LEMMA SameData ==
    ASSUME uploads' = uploads, overlay' = overlay, discovery' = discovery
    PROVE  AnalysisResults' = AnalysisResults /\ ValidationInputs' = ValidationInputs
<1> USE DEF uploads, overlay
<1>1. \A f : Readable(f)' = Readable(f)
  BY DEF Readable, MappingOf
<1>2. \A f : effective_document(f)' = effective_document(f)
  BY <1>1 DEF effective_document, filter_excluded_groups, apply_corrections
<1> QED BY <1>2 DEF AnalysisResults, ValidationInputs, select_group_document

LEMMA DiscoveryStepIInv == IInv /\ DiscoveryStep => IInv'
<1> SUFFICES ASSUME IInv, DiscoveryStep PROVE IInv'
  OBVIOUS
<1>1. PICK docs, res, prev, conf, v, touches :
        /\ DiscoveryArgs(docs, res, prev, conf, v, touches)
        /\ compute_discovery(docs, res, prev, conf, v, touches)
  BY DiscoveryStepIsDiscovery DEF IInv
<1>2. /\ TypeOK' /\ ExpectsHold'
      /\ workflow' = Discovered
      /\ generation' \in Nat /\ generation' > generation
      /\ requests' = requests
  BY <1>1, ComputeDiscoveryFacts DEF IInv
<1>3. ResultsAreCurrent' /\ ExportedIsClean'
  BY <1>2 DEF ResultsAreCurrent, ExportedIsClean, Discovered, Validated, Analyzed, Exported
<1>4. InFlightCurrent'
  BY <1>2 DEF IInv, InFlightCurrent, TypeOK
<1> QED BY <1>2, <1>3, <1>4 DEF IInv

LEMMA EditStepIInv == IInv /\ EditStep => IInv'
<1> SUFFICES ASSUME IInv, EditStep PROVE IInv'
  OBVIOUS
<1> USE DEF Uploaded, Discovered, Validated, Analyzed, Exported
<1>1. EditEffect /\ TypeOK'
  BY EditStepFacts DEF IInv
<1>2. workflow \in Nat
  BY DEF IInv, TypeOK, WorkflowStage
<1>3. ExpectsHold'
  BY <1>1, <1>2 DEF EditEffect, IInv, ExpectsHold, Present, uploads
<1>4. ResultsAreCurrent' /\ ExportedIsClean'
  BY <1>1, <1>2 DEF EditEffect, ResultsAreCurrent, ExportedIsClean
<1>5. InFlightCurrent'
  <2>1. CASE generation' = generation
    <3>1. AnalysisResults' = AnalysisResults /\ ValidationInputs' = ValidationInputs
      BY <1>1, <2>1, SameData DEF EditEffect
    <3> QED BY <1>1, <1>2, <2>1, <3>1 DEF EditEffect, IInv, InFlightCurrent
  <2>2. CASE generation' # generation
    <3>1. generation \in Nat /\ generation' \in Nat /\ generation' > generation
      <4>1. generation \in Nat
        BY DEF IInv, TypeOK
      <4>2. generation' \in Nat /\ generation' >= generation
        BY <1>1 DEF EditEffect
      <4> QED BY <2>2, <4>1, <4>2
    <3>2. \A q \in Requests : requests[q].generation \in Nat
      BY DEF IInv, TypeOK
    <3>3. requests' = requests
      BY <1>1 DEF EditEffect
    <3> QED BY <3>1, <3>2, <3>3 DEF IInv, InFlightCurrent
  <2> QED BY <2>1, <2>2
<1> QED BY <1>1, <1>3, <1>4, <1>5 DEF IInv

LEMMA RequestStepIInv == IInv /\ RequestStep => IInv'
<1> SUFFICES ASSUME IInv, NEW q \in Requests,
                    \/ read_inputs(q) \/ record_on_session(q)
                    \/ begin_export(q) \/ finish_export(q) \/ Abandon(q)
             PROVE  IInv'
  BY DEF RequestStep
<1> USE DEF Uploaded, Discovered, Validated, Analyzed, Exported, IInv
<1>1. /\ uploads' = uploads /\ overlay' = overlay /\ discovery' = discovery
      /\ confirmed' = confirmed /\ generation' = generation
  BY DEF read_inputs, record_on_session, begin_export, finish_export, Abandon
<1>2. AnalysisResults' = AnalysisResults /\ ValidationInputs' = ValidationInputs
  BY <1>1, SameData
<1>3. /\ workflow' \in WorkflowStage
      /\ workflow' < Discovered => workflow < Discovered
      /\ workflow < Discovered => workflow' < Discovered
      /\ requests' = [r \in Requests |-> requests'[r]]
      /\ \A r \in Requests \ {q} : requests'[r] = requests[r]
      /\ requests'[q].kind \in {"idle", "analyze", "export"}
      /\ requests'[q].generation \in Nat
  <2> USE DEF TypeOK, WorkflowStage
  <2>1. CASE read_inputs(q)
    BY <2>1 DEF read_inputs
  <2>2. CASE record_on_session(q)
    BY <2>2 DEF record_on_session, InFlightCurrent, Idle
  <2>3. CASE begin_export(q)
    BY <2>3 DEF begin_export
  <2>4. CASE finish_export(q)
    BY <2>4 DEF finish_export, InFlightCurrent, Idle
  <2>5. CASE Abandon(q)
    BY <2>5 DEF Abandon, Idle
  <2> QED BY <2>1, <2>2, <2>3, <2>4, <2>5
<1>4. TypeOK' /\ ExpectsHold'
  <2>1. TypeOK'
    BY <1>1, <1>3 DEF TypeOK, uploads, overlay
  <2>2. ExpectsHold'
    BY <1>1, <1>3 DEF ExpectsHold, Present, uploads, TypeOK, WorkflowStage
  <2> QED BY <2>1, <2>2
<1>5. ResultsAreCurrent' /\ ExportedIsClean'
  <2> USE <1>1, <1>2 DEF ResultsAreCurrent, ExportedIsClean, InFlightCurrent, TypeOK, WorkflowStage
  <2>1. CASE read_inputs(q)
    BY <2>1 DEF read_inputs, results
  <2>2. CASE record_on_session(q)
    BY <2>2 DEF record_on_session
  <2>3. CASE begin_export(q)
    BY <2>3 DEF begin_export, results
  <2>4. CASE finish_export(q)
    BY <2>4 DEF finish_export, results
  <2>5. CASE Abandon(q)
    BY <2>5 DEF Abandon, results
  <2> QED BY <2>1, <2>2, <2>3, <2>4, <2>5
<1>6. InFlightCurrent'
  <2> USE <1>1, <1>2 DEF InFlightCurrent, TypeOK, WorkflowStage
  <2>1. CASE read_inputs(q)
    BY <2>1 DEF read_inputs, require_stage, results
  <2>2. CASE record_on_session(q)
    BY <2>2 DEF record_on_session, Idle
  <2>3. CASE begin_export(q)
    BY <2>3, SMTT(40) DEF begin_export, require_stage, results, ResultsAreCurrent
  <2>4. CASE finish_export(q)
    BY <2>4, SMTT(40) DEF finish_export, results, Idle
  <2>5. CASE Abandon(q)
    BY <2>5 DEF Abandon, results, Idle
  <2> QED BY <2>1, <2>2, <2>3, <2>4, <2>5
<1> QED BY <1>4, <1>5, <1>6

LEMMA StutterIInv == IInv /\ UNCHANGED vars => IInv'
<1> SUFFICES ASSUME IInv, UNCHANGED vars PROVE IInv'
  OBVIOUS
<1>1. /\ uploads' = uploads /\ overlay' = overlay /\ results' = results
      /\ discovery' = discovery /\ workflow' = workflow /\ confirmed' = confirmed
      /\ generation' = generation /\ requests' = requests
  BY DEF vars
<1>2. AnalysisResults' = AnalysisResults /\ ValidationInputs' = ValidationInputs
  BY <1>1, SameData
<1> QED BY <1>1, <1>2 DEF IInv, TypeOK, ExpectsHold, Present, ResultsAreCurrent,
       ExportedIsClean, InFlightCurrent, uploads, overlay, results

THEOREM IInvInductive == Spec => []IInv
<1>1. IInv /\ [Next]_vars => IInv'
  BY DiscoveryStepIInv, EditStepIInv, RequestStepIInv, StutterIInv DEF Next
<1> QED BY <1>1, InitIInv, PTL DEF Spec

-----------------------------------------------------------------------------
(* The theorems.                                                           *)

\* The session and its in-flight requests are well-typed, for any number of
\* files, groups, registries and concurrent requests.
THEOREM TypeCorrect == Spec => []TypeOK
<1>1. IInv => TypeOK
  BY DEF IInv
<1> QED BY <1>1, IInvInductive, PTL

\* No `expect` on the discovery result panics under the session lock.
THEOREM NoExpectPanics == Spec => []ExpectsHold
<1>1. IInv => ExpectsHold
  BY DEF IInv
<1> QED BY <1>1, IInvInductive, PTL

\* The data_generation guard is enough: the stored validation and analysis of
\* a validated, analyzed or exported session are those of its present data.
THEOREM GenerationGuardKeepsResultsCurrent == Spec => []ResultsAreCurrent
<1>1. IInv => ResultsAreCurrent
  BY DEF IInv
<1> QED BY <1>1, IInvInductive, PTL

\* A session is marked exported only while its present data validates clean.
THEOREM ExportIsOfCleanData == Spec => []ExportedIsClean
<1>1. IInv => ExportedIsClean
  BY DEF IInv
<1> QED BY <1>1, IInvInductive, PTL

-----------------------------------------------------------------------------
(* Discovery is stable.                                                    *)

\* Documents that have been transformed are not changed by another transform.
LEMMA TransformStable ==
    ASSUME NEW docs \in [Files -> Docs \cup {None}], NEW v \in Registries
    PROVE  LET T == apply_vendor_transforms(docs, v)
           IN  apply_vendor_transforms(T, v) = T
<1> DEFINE T == apply_vendor_transforms(docs, v)
           U == apply_vendor_transforms(T, v)
<1>1. ASSUME NEW f \in Files PROVE U[f] = T[f]
  <2>1. CASE docs[f] # None /\ ShapeOf[docs[f]] \in v
    <3>1. docs[f] \in Docs /\ T[f] = Transform[docs[f]]
      BY <2>1 DEF apply_vendor_transforms
    <3>2. T[f] \in Docs /\ ShapeOf[T[f]] \in v /\ Transform[T[f]] = T[f]
      BY <2>1, <3>1, DocsAssumption, TransformAssumption
    <3> QED BY <3>2, DocsAssumption DEF apply_vendor_transforms
  <2>2. CASE ~(docs[f] # None /\ ShapeOf[docs[f]] \in v)
    BY <2>2 DEF apply_vendor_transforms
  <2> QED BY <2>1, <2>2
<1> QED BY <1>1 DEF apply_vendor_transforms

\* What discovery keeps of its previous result, it keeps again.
LEMMA DiscoveryFixpoint ==
    ASSUME NEW docs \in [Files -> Docs \cup {None}], NEW res,
           NEW prev, prev # None => prev \in DiscoveryType,
           NEW conf \in BOOLEAN, NEW v
    PROVE  LET d == DiscoveryResult(docs, res, prev, conf, v)
           IN  DiscoveryResult(docs, res, d, conf, v) = d
<1> DEFINE d == DiscoveryResult(docs, res, prev, conf, v)
<1>1. /\ d # None
      /\ d.selected \subseteq Present(docs)
      /\ d.groupFile # None => d.groupFile \in Present(docs)
  BY DiscoveryResultFacts
<1>2. /\ d.selected = reconcile_unit_file_selection(docs, prev, v)
      /\ d.groupFile = selected_group_file(docs, prev, v)
  BY DEF DiscoveryResult
<1>3. None \notin Present(docs)
  BY FilesAssumption DEF Present
<1> HIDE DEF d
<1>4. reconcile_unit_file_selection(docs, d, v) = d.selected
  <2>1. CASE d.selected # {}
    BY <1>1, <2>1 DEF reconcile_unit_file_selection
  <2>2. CASE d.selected = {}
    <3>1. Cardinality(Candidates(docs, v)) = 1 => Candidates(docs, v) # {}
      BY SingletonNonempty
    <3>2. Cardinality(Candidates(docs, v)) # 1
      BY <1>2, <2>2, <3>1 DEF reconcile_unit_file_selection
    <3> QED BY <2>2, <3>2 DEF reconcile_unit_file_selection
  <2> QED BY <2>1, <2>2
<1>5. selected_group_file(docs, d, v) = d.groupFile
  BY <1>1, <1>2, <1>3 DEF selected_group_file
<1>6. resolve_group_file_readiness(docs, d, conf, v)
        = resolve_group_file_readiness(docs, prev, conf, v)
  BY <1>2, <1>5 DEF resolve_group_file_readiness
<1> QED BY <1>2, <1>4, <1>5, <1>6 DEF DiscoveryResult, d

LEMMA DiscoveryStepStable ==
    ASSUME IInv, DiscoveryStep
    PROVE  DiscoveryIsStable'
<1>1. PICK docs, res, prev, conf, v, touches :
        /\ DiscoveryArgs(docs, res, prev, conf, v, touches)
        /\ compute_discovery(docs, res, prev, conf, v, touches)
  BY DiscoveryStepIsDiscovery DEF IInv
<1> DEFINE T == apply_vendor_transforms(docs, v)
<1>2. /\ documents' = T /\ resolutions' = res /\ vendors' = v /\ confirmed' = conf
      /\ discovery' = DiscoveryResult(T, res, prev, conf, v)
  BY <1>1 DEF compute_discovery
<1>3. T \in [Files -> Docs \cup {None}]
  BY <1>1, DocsAssumption DEF apply_vendor_transforms, DiscoveryArgs
<1>4. apply_vendor_transforms(T, v) = T
  BY <1>1, TransformStable DEF DiscoveryArgs
<1>5. prev # None => prev \in DiscoveryType
  BY <1>1 DEF DiscoveryArgs
<1>6. conf \in BOOLEAN
  BY <1>1 DEF DiscoveryArgs
<1> HIDE DEF T
<1>7. DiscoveryResult(T, res, discovery', conf, v) = discovery'
  BY <1>2, <1>3, <1>5, <1>6, DiscoveryFixpoint
<1> QED BY <1>2, <1>4, <1>7 DEF DiscoveryIsStable

\* Running /discover again with the same registry changes nothing, after any
\* sequence of uploads, selections, confirmations and resolutions.
THEOREM DiscoveryStable == Spec => []DiscoveryIsStable
<1>1. Init => DiscoveryIsStable
  BY DEF Init, DiscoveryIsStable
<1>2. IInv /\ DiscoveryIsStable /\ [Next]_vars => DiscoveryIsStable'
  <2> SUFFICES ASSUME IInv, DiscoveryIsStable, [Next]_vars PROVE DiscoveryIsStable'
    OBVIOUS
  <2>1. ASSUME uploads' = uploads, discovery' = discovery, confirmed' = confirmed
        PROVE  DiscoveryIsStable'
    BY <2>1 DEF DiscoveryIsStable, uploads
  <2>2. CASE DiscoveryStep
    BY <2>2, DiscoveryStepStable
  <2>3. CASE EditStep
    BY <2>1, <2>3, EditStepFacts DEF IInv, EditEffect
  <2>4. CASE RequestStep
    BY <2>1, <2>4 DEF RequestStep, read_inputs, record_on_session, begin_export,
                      finish_export, Abandon
  <2>5. CASE UNCHANGED vars
    BY <2>1, <2>5 DEF vars
  <2> QED BY <2>2, <2>3, <2>4, <2>5 DEF Next
<1> QED BY <1>1, <1>2, IInvInductive, PTL DEF Spec

=============================================================================
