----------------------------- MODULE UnitChecks -----------------------------
(***************************************************************************)
(* What Group Prep says of a unit file: the checks of unit-group's         *)
(* validation, the edits that answer them, the analysis against the master *)
(* group list and the files exported from it.  One session past discovery; *)
(* its uploads and concurrent requests are GroupPrep's.                    *)
(*                                                                         *)
(* A UnitGroup name is taken apart the way the regexes see it: form says   *)
(* how it writes a dimension ("dims" 10x20, "DIMS" 10X20, "cut" 10x,       *)
(* "number" 10, "letters" aXb, "none"), w and l are the two numbers, area  *)
(* its area code, comma whether it has one, words the rest.  A row has a   *)
(* number, such a name as unitgroup, and the four optional cells.          *)
(***************************************************************************)
EXTENDS Integers, FiniteSets, Sequences, SequencesExt

CONSTANTS
    NumberOf,       \* the cell texts that parse as a number, and their value
    Lower,          \* unit number -> its lowercase form
    Score(_, _),    \* normalized_levenshtein of two remainders, in percent
    RARE_GROUP_MAX_OCCURRENCES,
    CellTexts,      \* texts a correction may give a width or a length
    NewDimensions,  \* widths and lengths a rename may give, <<>> for none
    NewWords,       \* properties a rename may append
    MaxEdits        \* bound on the edits of a behaviour

VARIABLES
    files,        \* file -> [cols, rows], the unit files as uploaded
    reference,    \* <<>> or <<names>>, the master group list
    corrections,  \* <<file, number, field>> -> value
    exempt,       \* dimension_exemptions: <<file, number>>
    excluded,     \* excluded_groups
    acknowledged, \* check -> names accepted as they are
    stage,        \* WorkflowStage
    issues,       \* file -> check -> what is flagged, as of the last validation
    results,      \* the last AnalysisResults, in a tuple
    exported,     \* the files of the last export, in a tuple
    edits         \* edits made

overlayVars == <<corrections, exempt, excluded, acknowledged>>
unitVars == <<files, reference, overlayVars, stage, issues, results, exported, edits>>
-----------------------------------------------------------------------------
(* analysis/fingerprint: what a name declares.                             *)

LocationAliases == <<[alias |-> <<"outside">>, variant |-> "Outside"],
                     [alias |-> <<"exterior">>, variant |-> "Outside"],
                     [alias |-> <<"inside">>, variant |-> "Inside"],
                     [alias |-> <<"interior">>, variant |-> "Inside"]>>

\* "non-climate" and "non climate" are one alias here.
ClimateAliases == <<[alias |-> <<"non", "climate">>, variant |-> "NonClimate"],
                    [alias |-> <<"climate">>, variant |-> "Climate"]>>

FloorAccessAliases == <<[alias |-> <<"first floor", "access">>, variant |-> "FirstFloorAccess"],
                        [alias |-> <<"ground floor">>, variant |-> "GroundFloor"],
                        [alias |-> <<"first floor">>, variant |-> "FirstFloor"],
                        [alias |-> <<"second floor">>, variant |-> "SecondFloor"],
                        [alias |-> <<"upper level">>, variant |-> "UpperLevel"],
                        [alias |-> <<"lower level">>, variant |-> "LowerLevel"]>>

Occurrences(alias, words) ==
  {i \in 1 .. Len(words) - Len(alias) + 1 : SubSeq(words, i, i + Len(alias) - 1) = alias}

\* The variant of the first alias in the table that the name contains.
detect(aliases, words) ==
  LET hits == SelectSeq(aliases, LAMBDA a : Occurrences(a.alias, words) # {})
  IN  IF hits = <<>> THEN "" ELSE hits[1].variant

Span(a, i) == i .. i + Len(a.alias) - 1

\* The aliases are removed in the order of the tables, so one that overlaps an
\* earlier alias is no longer there when its turn comes.
strip_known_attribute_aliases(words) ==
  LET table == LocationAliases \o ClimateAliases \o FloorAccessAliases
      found == {<<k, i>> \in (DOMAIN table) \X (DOMAIN words) : i \in Occurrences(table[k].alias, words)}
      taken == {p \in found : \A q \in found :
                  q[1] < p[1] => Span(table[q[1]], q[2]) \cap Span(table[p[1]], p[2]) = {}}
      gone  == UNION {Span(table[p[1]], p[2]) : p \in taken}
  IN  LET rest == SelectSeq([i \in DOMAIN words |-> i], LAMBDA i : i \notin gone)
      IN  [n \in DOMAIN rest |-> words[rest[n]]]

HasDimension(name) == name.form \in {"dims", "DIMS"}

parse_fingerprint(name) ==
  [width        |-> IF HasDimension(name) THEN name.w ELSE "",
   length       |-> IF HasDimension(name) THEN name.l ELSE "",
   location     |-> detect(LocationAliases, name.words),
   climate      |-> detect(ClimateAliases, name.words),
   area_code    |-> name.area,
   floor_access |-> detect(FloorAccessAliases, name.words),
   remainder    |-> (IF name.comma THEN <<",">> ELSE <<>>)
                      \o strip_known_attribute_aliases(name.words)]

fingerprints_match(a, b) ==
  \A f \in {"width", "length", "location", "climate", "area_code", "floor_access"} : a[f] = b[f]

\* heuristics.rs: the whole name is the attempt, and the x of a clean
\* dimension is a small one.
has_malformed_dimension_attempt(name) ==
  /\ name.form \in {"number", "cut", "letters", "DIMS"}
  /\ name.area = "" /\ name.words = <<>> /\ ~name.comma

IsZero(text) == text \in DOMAIN NumberOf /\ NumberOf[text] = 0

is_uncommon_group_name(name) ==
  ~HasDimension(name) \/ IsZero(name.w) \/ IsZero(name.l)

is_odd_group_name(name) ==
  /\ name.comma \/ is_uncommon_group_name(name)
  /\ ~has_malformed_dimension_attempt(name)
-----------------------------------------------------------------------------
(* The effective rows: corrections looked up by unit number, then the      *)
(* excluded groups dropped.                                                *)

NoGroup == [form |-> "none", w |-> "", l |-> "", area |-> "", comma |-> FALSE, words |-> <<>>]

Fields == {"unitgroup", "width", "length", "climatecontrolled", "locality"}

apply_corrections(f, row, corr) ==
  [c \in DOMAIN row |-> IF <<f, row.number, c>> \in DOMAIN corr /\ c \in files[f].cols \cup {"unitgroup"}
                        THEN corr[<<f, row.number, c>>] ELSE row[c]]

effective_document(f, corr, excl) ==
  LET corrected == [i \in DOMAIN files[f].rows |-> apply_corrections(f, files[f].rows[i], corr)]
  IN  SelectSeq(corrected, LAMBDA r : r.unitgroup \notin excl)

Rows(f) == effective_document(f, corrections, excluded)

unit_number_occurrences(f, n) == Cardinality({i \in DOMAIN Rows(f) : Rows(f)[i].number = n})

GroupsIn(rows) == {rows[i].unitgroup : i \in DOMAIN rows} \ {NoGroup}

CountOf(rows, g) == Cardinality({i \in DOMAIN rows : rows[i].unitgroup = g})
-----------------------------------------------------------------------------
(* validation: row_checks.rs, group_checks.rs and the single pass of       *)
(* mod.rs over the rows.                                                   *)

parses_as_positive(text) == text \in DOMAIN NumberOf /\ NumberOf[text] > 0

has_bad_dimensions(cols, row) ==
  \E c \in {"width", "length"} \cap cols : ~parses_as_positive(row[c])

dimension_values_differ(a, b) ==
  IF {a, b} \subseteq DOMAIN NumberOf THEN NumberOf[a] # NumberOf[b] ELSE a # b

dimensions_mismatch_group(cols, row) ==
  /\ {"width", "length"} \subseteq cols
  /\ HasDimension(row.unitgroup)
  /\ \/ dimension_values_differ(row.unitgroup.w, row.width)
     \/ dimension_values_differ(row.unitgroup.l, row.length)

climate_mismatches_group(cols, row) ==
  /\ "climatecontrolled" \in cols
  /\ <<parse_fingerprint(row.unitgroup).climate, row.climatecontrolled>>
       \in {<<"Climate", "no">>, <<"NonClimate", "yes">>}

locality_mismatches_group(cols, row) ==
  /\ "locality" \in cols
  /\ <<parse_fingerprint(row.unitgroup).location, row.locality>>
       \in {<<"Inside", "outside">>, <<"Outside", "inside">>}

InvalidDimensions(cols, row, isExempt) ==
  /\ ~isExempt
  /\ \/ has_malformed_dimension_attempt(row.unitgroup)
     \/ ~is_odd_group_name(row.unitgroup) /\ has_bad_dimensions(cols, row)

UnitChecks == {"Blank", "Duplicate", "InvalidDimensions", "Climate", "Locality", "DimensionMismatch", "Casing"}
GroupChecks == {"Odd", "Rare"}
Errors == {"Blank", "Duplicate"}

record_row(f, check, row, isExempt) ==
  LET cols == files[f].cols
  IN  CASE check = "Blank"             -> row.unitgroup = NoGroup
        [] check = "InvalidDimensions" -> InvalidDimensions(cols, row, isExempt)
        [] check = "Climate"           -> climate_mismatches_group(cols, row)
        [] check = "Locality"          -> locality_mismatches_group(cols, row)
        [] check = "DimensionMismatch" -> dimensions_mismatch_group(cols, row)

duplicate_units(rows) ==
  {n \in {rows[i].number : i \in DOMAIN rows} \ {""} :
     Cardinality({i \in DOMAIN rows : rows[i].number = n}) > 1}

casing_inconsistencies(rows) ==
  LET seen == {rows[i].number : i \in DOMAIN rows} \ {""}
  IN  {n \in seen : \E m \in seen : m # n /\ Lower[m] = Lower[n]}

rare_groups(rows) == {g \in GroupsIn(rows) : CountOf(rows, g) <= RARE_GROUP_MAX_OCCURRENCES}

\* What each check flags in a file: unit numbers, or names for the two group checks.
validate_document(f, rows, ex, ack) ==
  [c \in UnitChecks \cup GroupChecks |->
     CASE c = "Odd"       -> {g \in GroupsIn(rows) : is_odd_group_name(g)} \ ack[c]
       [] c = "Rare"      -> rare_groups(rows) \ ack[c]
       [] c = "Duplicate" -> duplicate_units(rows)
       [] c = "Casing"    -> casing_inconsistencies(rows)
       [] OTHER           -> {rows[i].number : i \in {j \in DOMAIN rows :
                                record_row(f, c, rows[j], <<f, rows[j].number>> \in ex)}}]

\* Mutant: the fields of the locality check are offered for the climate one.
correctable_fields_mixed(check) ==
  CASE check \in {"InvalidDimensions", "DimensionMismatch"} -> {"width", "length"}
    [] check \in {"Climate", "Locality"}                    -> {"locality"}
    [] check = "Blank"                                      -> {"unitgroup"}
    [] OTHER                                                -> {}

correctable_fields_for(check) ==
  CASE check \in {"InvalidDimensions", "DimensionMismatch"} -> {"width", "length"}
    [] check = "Climate"                                    -> {"climatecontrolled"}
    [] check = "Locality"                                   -> {"locality"}
    [] check = "Blank"                                      -> {"unitgroup"}
    [] OTHER                                                -> {}

ready(found) == \A f \in DOMAIN found : \A c \in Errors : found[f][c] = {}

\* validate/summary.rs: a number two rows have stands for the last of them.
build_unit_to_group_map(f) ==
  [n \in {Rows(f)[i].number : i \in DOMAIN Rows(f)} \ {""} |->
     Rows(f)[SelectLastInSeq(Rows(f), LAMBDA r : r.number = n)].unitgroup]

affected_group_names(f, check) ==
  IF check \in GroupChecks THEN issues[f][check]
  ELSE {build_unit_to_group_map(f)[n] : n \in issues[f][check] \cap DOMAIN build_unit_to_group_map(f)}
       \ {NoGroup}
-----------------------------------------------------------------------------
(* Edits: each changes the overlay and validates again.                    *)

run_validation(corr, ex, excl, ack) ==
  /\ issues' = [f \in DOMAIN files |-> validate_document(f, effective_document(f, corr, excl), ex, ack)]
  /\ stage' = "Validated"
  /\ corrections' = corr /\ exempt' = ex /\ excluded' = excl /\ acknowledged' = ack
  /\ UNCHANGED <<files, reference, results, exported>>

Edit(corr, ex, excl, ack) ==
  /\ edits < MaxEdits
  /\ edits' = edits + 1
  /\ run_validation(corr, ex, excl, ack)

correct(f, n, field, value) ==
  /\ unit_number_occurrences(f, n) = 1
  /\ Edit((<<f, n, field>> :> value) @@ corrections, exempt, excluded, acknowledged)

build_new_group_name(g, dims, extra) ==
  IF dims # <<>> THEN [NoGroup EXCEPT !.form = "dims", !.w = dims[1], !.l = dims[2], !.words = extra]
  ELSE [g EXCEPT !.words = @ \o extra]

InGroup(f, g) == {Rows(f)[i].number : i \in {j \in DOMAIN Rows(f) : Rows(f)[j].unitgroup = g}}
Renamed(g) == UNION {{<<f, n, "unitgroup">> : n \in InGroup(f, g)} : f \in DOMAIN files}

\* Units carry the old name, or the rename has been made already.
KnownGroup(g, new) == Renamed(g) # {} \/ Renamed(new) # {}

correct_group(g, dims, extra) ==
  LET new == build_new_group_name(g, dims, extra)
  IN  /\ KnownGroup(g, new)
      /\ Edit([k \in Renamed(g) |-> new] @@ corrections, exempt, excluded, acknowledged)

exempt_dimensions(f, n) ==
  /\ unit_number_occurrences(f, n) > 0
  /\ Edit(corrections, exempt \cup {<<f, n>>}, excluded, acknowledged)

exclude_groups(names, yes) ==
  Edit(corrections, exempt, IF yes THEN excluded \cup names ELSE excluded \ names, acknowledged)

acknowledge_group_warnings(check, names, yes) ==
  Edit(corrections, exempt, excluded,
       [acknowledged EXCEPT ![check] = IF yes THEN @ \cup names ELSE @ \ names])

Validate == run_validation(corrections, exempt, excluded, acknowledged) /\ UNCHANGED edits
-----------------------------------------------------------------------------
(* Analysis and export.                                                    *)

\* The first of the closest reference names with the same fingerprint.
best_match(g) ==
  LET fp == parse_fingerprint(g)
      scored(r) == Score(fp.remainder, parse_fingerprint(r).remainder)
  IN  FoldLeft(LAMBDA best, r : IF /\ fingerprints_match(fp, parse_fingerprint(r))
                                   /\ scored(r) > best.score
                                THEN [name |-> <<r>>, score |-> scored(r)] ELSE best,
               [name |-> <<>>, score |-> 0], reference[1])

build_batch == [f \in DOMAIN files |-> [g \in GroupsIn(Rows(f)) |-> CountOf(Rows(f), g)]]

analyze_batch(batch) ==
  LET all == UNION {DOMAIN batch[f] : f \in DOMAIN batch}
      new == IF reference = <<>> THEN all ELSE all \ Range(reference[1])
      alike == IF reference = <<>> THEN {} ELSE {g \in new : best_match(g).score >= 80}
  IN  [facilities |-> batch,
       net_new    |-> new,
       similar    |-> {[group |-> g, reference |-> best_match(g).name[1]] : g \in alike},
       advisory   |-> UNION {{<<f, g>> : g \in alike \cap DOMAIN batch[f]} : f \in DOMAIN batch}]

Analyze ==
  /\ stage # "Discovered"
  /\ results' = <<analyze_batch(build_batch)>>
  /\ stage' = "Analyzed"
  /\ UNCHANGED <<files, reference, overlayVars, issues, exported, edits>>

generate_facility_assignments(r) ==
  UNION {{[facility |-> f, group |-> g, count |-> r.facilities[f][g],
           exists |-> IF reference = <<>> THEN "" ELSE IF g \in Range(reference[1]) THEN "true" ELSE "false"] :
            g \in DOMAIN r.facilities[f]} : f \in DOMAIN r.facilities}

\* Mutant: with no master list nothing is new.
lookup_needs_reference(r) ==
  UNION {{<<f, g>> : g \in {h \in DOMAIN r.facilities[f] : reference # <<>> /\ h \notin Range(reference[1])}} :
           f \in DOMAIN r.facilities}

generate_facility_group_lookup(r) ==
  UNION {{<<f, g>> : g \in {h \in DOMAIN r.facilities[f] : reference = <<>> \/ h \notin Range(reference[1])}} :
           f \in DOMAIN r.facilities}

generate_outputs(r) ==
  [net_new     |-> r.net_new,
   assignments |-> generate_facility_assignments(r),
   lookup      |-> generate_facility_group_lookup(r),
   advisory    |-> r.advisory]

\* New and similar names are names of a facility: without one there is nothing
\* to export.
export ==
  /\ stage \in {"Analyzed", "Exported"}
  /\ ready(issues)
  /\ DOMAIN results[1].facilities # {}
  /\ exported' = <<generate_outputs(results[1])>>
  /\ stage' = "Exported"
  /\ UNCHANGED <<files, reference, overlayVars, issues, results, edits>>
-----------------------------------------------------------------------------
UnitInit(uploads) ==
  /\ \E u \in uploads : files = u.files /\ reference = u.reference
  /\ corrections = <<>> /\ exempt = {} /\ excluded = {}
  /\ acknowledged = [c \in GroupChecks |-> {}]
  /\ stage = "Discovered" /\ issues = <<>> /\ results = <<>> /\ exported = <<>>
  /\ edits = 0

\* What the page lets a user type into a field.
ValuesFor(field) ==
  CASE field \in {"width", "length"}   -> CellTexts
    [] field = "climatecontrolled"     -> {"yes", "no"}
    [] field = "locality"              -> {"inside", "outside"}
    [] field = "unitgroup"             -> UNION {GroupsIn(files[f].rows) : f \in DOMAIN files}

\* The edits start from an issue on the page.
Flagged(f, c) == stage # "Discovered" /\ issues[f][c] # {}

Answer ==
  \/ \E f \in DOMAIN files, c \in UnitChecks : Flagged(f, c) /\
       \E n \in issues[f][c], field \in correctable_fields_for(c) :
         \E v \in ValuesFor(field) : correct(f, n, field, v)
  \/ \E f \in DOMAIN files : Flagged(f, "InvalidDimensions") /\
       \E n \in issues[f]["InvalidDimensions"] : exempt_dimensions(f, n)
  \/ \E f \in DOMAIN files, c \in GroupChecks : Flagged(f, c) /\
       \E g \in issues[f][c], yes \in BOOLEAN :
         acknowledge_group_warnings(c, {g}, yes) \/ exclude_groups({g}, yes)
  \/ \E f \in DOMAIN files, c \in GroupChecks : Flagged(f, c) /\
       \E g \in issues[f][c], d \in NewDimensions, w \in NewWords : correct_group(g, d, w)

UnitStep == Validate \/ Answer \/ Analyze \/ export
-----------------------------------------------------------------------------
Validated == stage # "Discovered"
Single(f, n) == n # "" /\ unit_number_occurrences(f, n) = 1
AllNames == UNION {GroupsIn(Rows(f)) : f \in DOMAIN files}

\* An issue leads to its fix: it names the group its unit is in now, renames
\* included (build_unit_to_group_map), and some values in the fields offered for
\* it take the unit off that check (correctable_fields_for).  Where a number is on
\* one row only; a malformed name is not settled by a width or a length.
IssueLeadsToItsFix ==
  Validated =>
    \A f \in DOMAIN files : \A c \in UnitChecks : \A i \in DOMAIN Rows(f) :
      LET r      == Rows(f)[i]
          fields == correctable_fields_for(c)
      IN  (r.number \in issues[f][c] /\ Single(f, r.number)) =>
            /\ r.unitgroup # NoGroup => r.unitgroup \in affected_group_names(f, c)
            /\ (fields # {} /\ ~has_malformed_dimension_attempt(r.unitgroup)) =>
                 \E v \in [fields -> UNION {ValuesFor(x) : x \in fields}] :
                   LET corr == [k \in {<<f, r.number, x>> : x \in fields} |-> v[k[3]]] @@ corrections
                       rows == effective_document(f, corr, excluded)
                   IN  r.number \notin validate_document(f, rows, exempt, acknowledged)[c]

\* The three exported files tell one story: every unit's group is in the master
\* list or in the net-new file and not in both, the lookup has exactly the
\* net-new groups of each facility, its counts are its units, and the advisory
\* file warns of groups the lookup has.
ExportedFilesAgree ==
  stage = "Exported" =>
    LET e == exported[1]
        known == IF reference = <<>> THEN {} ELSE Range(reference[1])
    IN  /\ AllNames \ known = e.net_new
        /\ {p[2] : p \in e.lookup} = e.net_new /\ e.advisory \subseteq e.lookup
        /\ \A f \in DOMAIN files : \A g \in GroupsIn(Rows(f)) :
             /\ \E a \in e.assignments : a.facility = f /\ a.group = g /\ a.count = CountOf(Rows(f), g)
             /\ <<f, g>> \in e.lookup <=> g \in e.net_new
        /\ \A a \in e.assignments : a.exists = "true" => a.group \notin e.net_new

=============================================================================
