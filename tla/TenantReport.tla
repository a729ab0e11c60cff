---------------------------- MODULE TenantReport ----------------------------
(***************************************************************************)
(* The duplicate tenant check: the dedup crate's report over the rows of   *)
(* one export (grouping.rs, comparison.rs, similarity.rs, duplicate_       *)
(* records.rs, relatedness, unidentified.rs, report.rs), the choice what   *)
(* to do with tenants that have no customer id (dedup_session_service.rs), *)
(* and what the page and the exported file make of the report              *)
(* (src/api/dedup_view.rs, src/infrastructure/dedup_export_plan).          *)
(*                                                                         *)
(* A row is a function from fields to raw values, "" for a blank cell; a   *)
(* row is known by its place in the file, so a group is a key and a        *)
(* sequence of places.  Spelling is abstracted to what is told apart:      *)
(* Canonical folds a raw value, Placeholders are the stand-ins of          *)
(* normalization.rs, Alike the pairs of display names at the threshold of  *)
(* similarity.rs (NameMatching models the ratio itself).                   *)
(***************************************************************************)
EXTENDS Naturals, FiniteSets, Sequences, SequencesExt

CONSTANTS Canonical,          \* raw value -> its normalised form
          Placeholders,       \* raw values such as "N/A"
          ShortNumbers,       \* normalised phones below MIN_PHONE_DIGITS
          Alike,              \* sets of two display names that reach the threshold
          MAX_CLUSTER_SIZE, MAX_HOUSEHOLD_SIZE

ASSUME LimitsAssumption == MAX_CLUSTER_SIZE \in Nat /\ MAX_HOUSEHOLD_SIZE \in Nat

VARIABLES rows,       \* the session's records
          report,     \* the session's report
          plan        \* the rows of the last export

reportVars == <<rows, report, plan>>

(***************************************************************************)
(* normalization.rs, types/fields.rs                                       *)
(***************************************************************************)
FIELD_SPECS ==
  [phone     |-> [category |-> "Phone",      kind |-> "Phone"],
   email     |-> [category |-> "Email",      kind |-> "Plain"],
   street    |-> [category |-> "Address",    kind |-> "Address"],
   city      |-> [category |-> "Address",    kind |-> "Address"],
   altName   |-> [category |-> "AltContact", kind |-> "Plain"],
   altPhone  |-> [category |-> "AltContact", kind |-> "Phone"],
   altStreet |-> [category |-> "AltContact", kind |-> "Address"],
   altCity   |-> [category |-> "AltContact", kind |-> "Address"],
   company   |-> [category |-> "Company",    kind |-> "Plain"],
   fullName  |-> [category |-> "Name",       kind |-> "Plain"]]

CATEGORY_PRIORITY == <<"Phone", "Email", "Address", "AltContact", "Company", "Name">>

is_placeholder(raw) == raw \in Placeholders

\* A placeholder has no digit: as a phone it is reduced to nothing.
normalize_value(kind, raw) ==
  IF raw = "" \/ (kind = "Phone" /\ is_placeholder(raw)) THEN "" ELSE Canonical[raw]

(***************************************************************************)
(* grouping.rs.  A key is a triple of the kind, the text and, for a blank  *)
(* name, its number.                                                       *)
(***************************************************************************)
group_key(row) == IF row.first_last = "" THEN <<"blank", "", 0>>
                  ELSE <<"name", Canonical[row.first_last], 0>>

tenant_key(row) == IF row.tenant_id = "" THEN group_key(row)
                   ELSE <<"tenant", row.tenant_id, 0>>

display_name(row) == IF row.fullName # "" THEN Canonical[row.fullName]
                     ELSE IF row.first_last # "" THEN Canonical[row.first_last] ELSE ""

\* A blank name is a tenant of its own, numbered.
place(groups, i, key) ==
  LET at     == {g \in DOMAIN groups : groups[g].key = key}
      blanks == Cardinality({g \in DOMAIN groups : groups[g].key[1] = "blank"})
  IN  IF key[1] = "blank" THEN Append(groups, [key |-> <<"blank", "", blanks + 1>>, members |-> <<i>>])
      ELSE IF at # {} THEN [groups EXCEPT ![CHOOSE g \in at : TRUE].members = Append(@, i)]
      ELSE Append(groups, [key |-> key, members |-> <<i>>])

group_with(places, Key(_)) == FoldLeft(LAMBDA groups, i : place(groups, i, Key(rows[i])), <<>>, places)

group_records(places) == group_with(places, group_key)

group_records_by_tenant(places) == group_with(places, tenant_key)

\* The members of the group a key names, none when no group has it.
MembersOf(groups, key) ==
  LET at == {g \in DOMAIN groups : groups[g].key = key}
  IN  IF at = {} THEN <<>> ELSE groups[CHOOSE g \in at : TRUE].members

(***************************************************************************)
(* comparison.rs                                                           *)
(***************************************************************************)
is_blank_for_comparison(kind, raw) == raw = "" \/ (kind = "Plain" /\ is_placeholder(raw))

comparison_key(kind, raw) ==
  IF is_blank_for_comparison(kind, raw) THEN <<TRUE, "">>
  ELSE <<FALSE, normalize_value(kind, raw)>>

field_matches_across(members, field) ==
  Cardinality({comparison_key(FIELD_SPECS[field].kind, rows[i][field]) : i \in Range(members)}) <= 1

DifferingFields(members) == {f \in DOMAIN FIELD_SPECS : ~field_matches_across(members, f)}

find_differing_categories(members) ==
  SelectSeq(CATEGORY_PRIORITY,
            LAMBDA c : \E f \in DifferingFields(members) : FIELD_SPECS[f].category = c)

contact_info_matches(members) ==
  \A f \in DifferingFields(members) : FIELD_SPECS[f].category = "Name"

(***************************************************************************)
(* relatedness/mod.rs.  A shared value is a tuple, of the two parts of an  *)
(* address or of one value.                                                *)
(***************************************************************************)
full_address(street, city) ==
  IF street = "" \/ is_placeholder(street) THEN {}
  ELSE {<<normalize_value("Address", street), normalize_value("Address", city)>>}

Shareable(kind, raws) ==
  {<<normalize_value(kind, v)>> : v \in {r \in raws : r # "" /\ ~is_placeholder(r)}}

phone_values(row) ==
  {v \in Shareable("Phone", {row.phone, row.altPhone}) : v[1] \notin ShortNumbers}

address_values(row) == full_address(row.street, row.city) \cup full_address(row.altStreet, row.altCity)

values_for_signal(members, signal) ==
  UNION {CASE signal = "SharedPhone"            -> phone_values(rows[i])
           [] signal = "SharedEmail"            -> Shareable("Plain", {rows[i].email})
           [] signal = "SharedAlternateContact" -> Shareable("Plain", {rows[i].altName})
           [] signal = "SharedHomeAddress"      -> address_values(rows[i]) : i \in Range(members)}

Signals == {"SharedPhone", "SharedEmail", "SharedAlternateContact", "SharedHomeAddress"}

\* A piece of evidence: a value that two groups hold, and not too many.
find_clusters(groups, signal) ==
  LET held(g)  == values_for_signal(groups[g].members, signal)
      keys(v)  == {groups[g].key : g \in {h \in DOMAIN groups : v \in held(h)}}
  IN  {e \in {[signal |-> signal, value |-> v, keys |-> keys(v)] :
                v \in UNION {held(g) : g \in DOMAIN groups}} :
         Cardinality(e.keys) \in 2 .. MAX_CLUSTER_SIZE}

RawEvidence(groups) == UNION {find_clusters(groups, s) : s \in Signals}

(***************************************************************************)
(* relatedness/household.rs: union-find over the group keys.               *)
(***************************************************************************)
RECURSIVE PathToRoot(_, _)
PathToRoot(parent, key) ==
  IF key \notin DOMAIN parent \/ parent[key] = key THEN <<key>>
  ELSE <<key>> \o PathToRoot(parent, parent[key])

\* find enters an unknown key as its own root and points the whole path at the root.
find(parent, key) ==
  LET path == PathToRoot(parent, key)
      root == Last(path)
  IN  [root   |-> root,
       parent |-> [k \in DOMAIN parent \cup {key} |-> IF k \in Range(path) THEN root ELSE parent[k]]]

union(parent, a, b) ==
  LET fa == find(parent, a)
      fb == find(fa.parent, b)
  IN  IF fa.root = fb.root THEN fb.parent ELSE [fb.parent EXCEPT ![fa.root] = fb.root]

UnionAll(parent, keys) ==
  FoldLeft(LAMBDA p, k : union(p, keys[k], keys[k + 1]), parent, [k \in 1 .. Len(keys) - 1 |-> k])

\* Mutant: evidence is put under its own first key.
first_key(parent, e) == SetToSeq(e.keys)[1]

RootOf(parent, e) == Last(PathToRoot(parent, SetToSeq(e.keys)[1]))

\* The raw evidence arrives in the order a hash map gives; the households are
\* those of the roots its first keys end at.
group_into_households(raw) ==
  LET parent    == FoldLeft(LAMBDA p, e : UnionAll(p, SetToSeq(e.keys)), <<>>, raw)
      bucket(r) == {e \in Range(raw) : RootOf(parent, e) = r}
      house(r)  == [keys |-> UNION {e.keys : e \in bucket(r)}, evidence |-> bucket(r)]
  IN  {h \in {house(RootOf(parent, e)) : e \in Range(raw)} : Cardinality(h.keys) <= MAX_HOUSEHOLD_SIZE}

(***************************************************************************)
(* similarity.rs, duplicate_records.rs                                     *)
(***************************************************************************)
SimilarNames(a, b) == a # "" /\ b # "" /\ (a = b \/ {a, b} \in Alike)

find_typo_variant_candidates(groups) ==
  {[a |-> groups[p[1]].key, b |-> groups[p[2]].key,
    matches |-> contact_info_matches(groups[p[1]].members \o groups[p[2]].members)] :
     p \in {q \in (DOMAIN groups) \X (DOMAIN groups) :
              /\ q[1] < q[2]
              /\ SimilarNames(display_name(rows[groups[q[1]].members[1]]),
                              display_name(rows[groups[q[2]].members[1]]))}}

\* One name held by two customer ids or more.
build_finding(groups, name, named) ==
  LET order    == SetToSortSeq(named, <)
      combined == FlattenSeq([n \in DOMAIN order |-> groups[order[n]].members])
  IN  IF Cardinality(named) < 2 THEN {}
      ELSE {[name |-> name, members |-> combined, mismatches |-> find_differing_categories(combined)]}

find_duplicate_customer_records(groups) ==
  LET first(g) == rows[groups[g].members[1]]
      eligible == {g \in DOMAIN groups : first(g).tenant_id # "" /\ first(g).first_last # ""}
  IN  UNION {build_finding(groups, k, {g \in eligible : group_key(first(g)) = k}) :
               k \in {group_key(first(g)) : g \in eligible}}

(***************************************************************************)
(* report.rs, unidentified.rs                                              *)
(***************************************************************************)
flag_groups(groups) ==
  SelectSeq([g \in DOMAIN groups |->
               [key |-> groups[g].key, members |-> groups[g].members,
                mismatches |-> find_differing_categories(groups[g].members)]],
            LAMBDA f : f.mismatches # <<>>)

multi_unit_groups(groups) == SelectSeq(groups, LAMBDA g : Len(g.members) >= 2)

HasId(i) == rows[i].tenant_id # ""
Places == [i \in DOMAIN rows |-> i]

\* Nothing is held out when no row, or every row, has an id.
split_by_identification(places) ==
  LET identified   == SelectSeq(places, HasId)
      unidentified == SelectSeq(places, LAMBDA i : ~HasId(i))
  IN  IF identified = <<>> \/ unidentified = <<>>
      THEN [identified |-> places, unidentified |-> <<>>]
      ELSE [identified |-> identified, unidentified |-> unidentified]

NoFindings == [flagged |-> <<>>, variants |-> {}, related |-> {}]

\* The customer ids that hold someone of the group's name.
SameNameAs(identified, key) ==
  {rows[i].tenant_id : i \in {j \in Range(identified) : group_key(rows[j]) = key}}

involves_unidentified(unid, key) == \E g \in DOMAIN unid : unid[g].key = key

analyze(split, mode, order) ==
  LET unid == group_records(split.unidentified)
      all  == group_records(split.identified \o split.unidentified)
      involved(k) == involves_unidentified(unid, k)
      matched == mode = "MatchedByName"
  IN  [mode    |-> mode,
       tenants |-> [g \in DOMAIN unid |->
                      [key |-> unid[g].key, members |-> unid[g].members,
                       same_name_as |-> IF matched THEN SameNameAs(split.identified, unid[g].key) ELSE {}]],
       found   |-> IF ~matched THEN NoFindings
                   ELSE [flagged  |-> SelectSeq(flag_groups(multi_unit_groups(all)),
                                                LAMBDA f : involved(f.key)),
                         variants |-> {c \in find_typo_variant_candidates(all) :
                                         involved(c.a) \/ involved(c.b)},
                         related  |-> {h \in group_into_households(order) :
                                         \E k \in h.keys : involved(k)}]]

\* Rows without an id are held out whatever the mode.
CheckedNames(split, mode) == group_records(split.identified)

\* order and allOrder are the orders in which the evidence among the checked
\* rows and among all rows is met.
run_with_options(mode, order, allOrder) ==
  LET split  == split_by_identification(Places)
      names  == CheckedNames(split, mode)
      tenant == group_records_by_tenant(split.identified)
  IN  [total      |-> Len(rows),
       unique     |-> Len(tenant),
       multi      |-> Len(multi_unit_groups(tenant)),
       flagged    |-> flag_groups(multi_unit_groups(tenant)),
       duplicates |-> find_duplicate_customer_records(tenant),
       variants   |-> find_typo_variant_candidates(names),
       related    |-> group_into_households(order),
       heldOut    |-> IF split.unidentified = <<>> THEN <<>>
                      ELSE <<analyze(split, mode, allOrder)>>]

-----------------------------------------------------------------------------
(***************************************************************************)
(* The page (dedup_view.rs) and the file (dedup_export_plan.rs) know a     *)
(* candidate by its group keys, and look the groups up again among all the *)
(* session's rows.                                                         *)
(***************************************************************************)
AllGroups == group_records(Places)

typo_variant_views(c) == MembersOf(AllGroups, c.a) \o MembersOf(AllGroups, c.b)

related_tenant_views(h) ==
  LET keys == SetToSeq(h.keys)
  IN  FlattenSeq([k \in DOMAIN keys |-> MembersOf(AllGroups, keys[k])])

EmptyPlan == [lines |-> <<>>, row_num |-> 2, cluster |-> 0, cited |-> {}]

PushLine(p, line) == [p EXCEPT !.lines = Append(@, line), !.row_num = @ + 1]

BlankLine == [row |-> 0, cluster |-> 0]
PushMarker(p) == PushLine(PushLine(p, BlankLine), BlankLine)

push_group_rows(p, members) ==
  [p EXCEPT !.lines = @ \o [n \in DOMAIN members |-> [row |-> members[n], cluster |-> p.cluster]],
            !.row_num = @ + Len(members)]

\* One cluster; cite says whether its note carries cell references.
PushCluster(p, members, cite) ==
  [push_group_rows(p, members) EXCEPT
     !.cluster = @ + 1,
     !.cited   = IF cite THEN @ \cup {[cluster |-> p.cluster, first |-> p.row_num, members |-> members]}
                 ELSE @]

\* Clusters with a blank line between two of them.
PushAll(p, clusters, cite) ==
  FoldLeft(LAMBDA q, n : PushCluster(IF n = 1 THEN q ELSE PushLine(q, BlankLine), clusters[n], cite),
           p, [n \in DOMAIN clusters |-> n])

PushMarked(p, clusters, cite) ==
  IF clusters = <<>> THEN p ELSE PushAll(PushMarker(p), clusters, cite)

\* Each tenant without an id: its own id-less rows, looked up by key.
\* Nothing found, nothing written.
push_unidentified_tenants(p, tenants) ==
  FoldLeft(LAMBDA q, n :
             LET found == SelectSeq(MembersOf(AllGroups, tenants[n].key), LAMBDA i : ~HasId(i))
                 sep   == IF n = 1 THEN q ELSE PushLine(q, BlankLine)
             IN  IF found = <<>> THEN sep ELSE PushCluster(sep, found, FALSE),
           PushMarker(p), [n \in DOMAIN tenants |-> n])

Variants(S) == LET s == SetToSeq(S) IN [n \in DOMAIN s |-> typo_variant_views(s[n])]
Related(S)  == LET s == SetToSeq(S) IN [n \in DOMAIN s |-> related_tenant_views(s[n])]
Members(S)  == [n \in DOMAIN S |-> S[n].members]

push_section(p, section) ==
  LET listed  == push_unidentified_tenants(p, section.tenants)
      flagged == PushMarked(listed, Members(section.found.flagged), FALSE)
      variant == PushMarked(flagged, Variants(section.found.variants), FALSE)
  IN  PushMarked(variant, Related(section.found.related), FALSE)

build_export_plan(r) ==
  LET flagged    == PushAll(EmptyPlan, Members(r.flagged), TRUE)
      duplicates == PushMarked(flagged, Members(SetToSeq(r.duplicates)), FALSE)
      variants   == PushMarked(duplicates, Variants(r.variants), TRUE)
      related    == PushMarked(variants, Related(r.related), FALSE)
  IN  IF r.heldOut = <<>> THEN related ELSE push_section(related, r.heldOut[1])

\* The page finds a flagged group's cells by walking the plan.
cluster_first_row_and_count(p, c) ==
  LET at == {n \in DOMAIN p.lines : p.lines[n].row # 0 /\ p.lines[n].cluster = c}
  IN  [first |-> (CHOOSE n \in at : \A m \in at : n <= m) + 1, count |-> Cardinality(at)]
-----------------------------------------------------------------------------
NoReport == <<>>
NoPlan   == <<>>

\* The rows of the upload have been read; nothing is checked yet.
ReportInit(files) == rows \in files /\ report = NoReport /\ plan = NoPlan

\* Evidence of the checked rows and of all of them, in the orders met.
EvidenceOrders(places) == SetToSeqs(RawEvidence(group_records(places)))

Rerun(mode) ==
  LET split == split_by_identification(Places)
  IN  \E order \in EvidenceOrders(split.identified),
        allOrder \in EvidenceOrders(split.identified \o split.unidentified) :
          report' = <<run_with_options(mode, order, allOrder)>>

\* The check runs at once, with the choice still open.
ReportSession ==
  /\ report = NoReport
  /\ Rerun("Pending")
  /\ UNCHANGED <<rows, plan>>

set_unidentified_mode(mode) ==
  /\ report # NoReport
  /\ Rerun(mode)
  /\ UNCHANGED <<rows, plan>>

generate_export ==
  /\ report # NoReport
  /\ plan' = <<build_export_plan(report[1])>>
  /\ UNCHANGED <<rows, report>>

ReportStep ==
  \/ ReportSession
  \/ \E mode \in {"Pending", "Ignored", "MatchedByName"} : set_unidentified_mode(mode)
  \/ generate_export

-----------------------------------------------------------------------------
Reported == report # NoReport
Checked == split_by_identification(Places).identified

\* The set of keys closed under the evidence: what touches it stays in it.
ClosedSets(raw, keys) ==
  {S \in SUBSET keys : \A e \in raw : e.keys \cap S # {} => e.keys \subseteq S}

\* The household a key belongs to, without union-find: the smallest set of
\* tenants closed under sharing a value.
HouseholdOf(raw, keys, k) ==
  {x \in keys : \A S \in ClosedSets(raw, keys) : k \in S => x \in S}

\* The related tenants reported are exactly the connected groups of tenants,
\* each with all of its evidence, whatever order the hash map gave; only a
\* household over the limit is left out (group_into_households, union, find).
HouseholdsAreComponents ==
  Reported =>
    LET raw  == RawEvidence(group_records(Checked))
        keys == UNION {e.keys : e \in raw}
        all  == {[keys |-> HouseholdOf(raw, keys, k),
                  evidence |-> {e \in raw : k \in HouseholdOf(raw, keys, k)
                                             /\ e.keys \subseteq HouseholdOf(raw, keys, k)}] : k \in keys}
    IN  report[1].related = {h \in all : Cardinality(h.keys) <= MAX_HOUSEHOLD_SIZE}

=============================================================================
