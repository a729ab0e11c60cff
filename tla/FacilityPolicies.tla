-------------------------- MODULE FacilityPolicies --------------------------
(* The Fees, Taxes, Delinquency, Coverage and Specials tabs of a facility:     *)
(* the saves of src/src/api/clients_facility_policies_edit, the exemption of   *)
(* src/src/clients/policy_exemption.rs and the page of                         *)
(* src/src/api/clients_detail/policies.rs. A save is one READ COMMITTED        *)
(* transaction of several statements; an action is one statement. A DELETE     *)
(* sees the rows committed when it starts and waits for those another open     *)
(* transaction deletes; an INSERT waits for an open one of the same unique     *)
(* key. A request refused before its first statement is a stutter.             *)
EXTENDS Naturals, Sequences, FiniteSets, SequencesExt

CONSTANTS
    Saves,         \* the save requests; each is made at most once
    Forms,         \* category -> the bodies a save of it may have
    MaxRows        \* bound on the rows ever inserted

VARIABLES
    qsx,           \* is_qsx_legacy of the facility's previous_pms
    policyRow,     \* the facility_policies row exists
    exempt,        \* its categories with <category>_manually_exempt set
    legacy,        \* policy_taxes and policy_delinquency_steps, written at ingest only
    tables,        \* table -> its committed rows
    rowId,         \* BIGSERIAL
    saves,         \* save -> its open transaction
    filed          \* history, see PoliciesInit

policyVars == <<qsx, policyRow, exempt, legacy, tables, rowId, saves, filed>>

Categories == {"fees", "taxes", "delinquency", "coverage", "specials"}
\* The tables a save of a category replaces, in order.
Replaced(c) ==
    CASE c = "fees" -> <<"policy_fees">>
      [] c = "taxes" -> <<"policy_tax_entries">>
      [] c = "delinquency" -> <<"policy_delinquency_entries">>
      [] c = "coverage" -> <<"policy_coverage_tiers", "policy_commission">>
      [] c = "specials" -> <<"policy_specials">>
Tables == UNION {Range(Replaced(c)) : c \in Categories}

NoSave == [category |-> "none", at |-> "none", body |-> <<>>, tables |-> <<>>, left |-> <<>>,
           seen |-> {}, empty |-> TRUE, gone |-> {}, put |-> {}, made |-> FALSE, mark |-> FALSE]
Open(q) == saves[q].at \notin {"none", "done"}
Others(q) == {p \in Saves \ {q} : Open(p)}

\* A row: its id, the table, its content and its sort_order (tier_number).
\* The unique keys: (facility, tier_number), and one commission and specials row.
SameKey(r, s) ==
    /\ r.table = s.table
    /\ \/ r.table \in {"policy_commission", "policy_specials"}
       \/ r.table = "policy_coverage_tiers" /\ r.order = s.order

Rows(t) == tables[t]
Held(q) == saves[q].gone
Visible(q, t) == (Rows(t) \ Held(q)) \cup {r \in saves[q].put : r.table = t}

-----------------------------------------------------------------------------
(* What a body may hold                                                       *)

FEE_TYPES == {"security_deposit", "nsf_chargeback", "move_in_admin", "transfer", "cleaning",
              "other"}
TAX_TYPES == {"fixed", "marginal", "percentage"}
TAX_NAMES == {"sales", "rental"}
STEP_TYPES == {"late_fee", "pre_lien", "lien", "cut_lock", "auction", "notice", "other"}

valid_fee(e) == e.fee_type \in FEE_TYPES
valid_tax(e) == e.tax_type \in TAX_TYPES /\ e.tax_name \in TAX_NAMES
\* trigger is the trigger_category, "none" when there is none.
valid_entry(e) ==
    /\ e.category \in STEP_TYPES
    /\ \/ e.trigger_type = "paid_through_date" /\ e.trigger = "none"
       \/ e.trigger_type = "step_category" /\ e.trigger \in STEP_TYPES /\ e.trigger # e.category

-----------------------------------------------------------------------------
(* Saves                                                                      *)

Overlapping(q, c) == \E p \in Others(q) : saves[p].category = c

\* ensure_facility_and_policies_row: an insert of the same row by an open
\* transaction makes this one wait.
EnsurePoliciesRow(q, c, body) ==
    /\ saves[q] = NoSave
    /\ policyRow \/ \A p \in Others(q) : ~saves[p].made
    /\ saves' = [saves EXCEPT ![q] =
                   [NoSave EXCEPT !.category = c, !.at = "count", !.body = body,
                                  !.tables = Replaced(c), !.made = ~policyRow]]
    /\ filed' = IF Overlapping(q, c) THEN [filed EXCEPT !.contended = @ \cup {c}] ELSE filed
    /\ UNCHANGED <<qsx, policyRow, exempt, legacy, tables, rowId>>

\* The handlers: a body with an entry that is not recognized is refused whole.
update_fees(q, body) ==
    (\A i \in DOMAIN body : valid_fee(body[i])) /\ EnsurePoliciesRow(q, "fees", body)
update_taxes(q, body) ==
    (\A i \in DOMAIN body : valid_tax(body[i])) /\ EnsurePoliciesRow(q, "taxes", body)
update_delinquency(q, body) ==
    (\A i \in DOMAIN body : valid_entry(body[i])) /\ EnsurePoliciesRow(q, "delinquency", body)
update_coverage(q, body) == EnsurePoliciesRow(q, "coverage", body)
update_specials(q, body) == EnsurePoliciesRow(q, "specials", body)

Step(q, r) == saves' = [saves EXCEPT ![q] = r]
Table(q) == Head(saves[q].tables)
\* Mutant: the tiers are stored by their cost.
GivenByCost(q) ==
    LET b == saves[q].body
        byCost == SortSeq(b.tiers, LAMBDA r, s : r.cost < s.cost)
    IN CASE Table(q) = "policy_coverage_tiers" ->
              [i \in DOMAIN byCost |->
                 [table |-> Table(q), content |-> byCost[i].cost, order |-> byCost[i].number]]
         [] Table(q) = "policy_commission" ->
              [i \in DOMAIN b.commission |->
                 [table |-> Table(q), content |-> b.commission[i], order |-> 1]]
         [] OTHER -> [i \in DOMAIN b |-> [table |-> Table(q), content |-> b[i], order |-> i]]
\* The rows a table is given: a list as it is, the tiers and the commission of a
\* coverage, the one text.
Given(q) ==
    LET b == saves[q].body
        row(i) == [table |-> Table(q), content |-> b[i], order |-> i]
    IN CASE Table(q) = "policy_coverage_tiers" ->
              [i \in DOMAIN b.tiers |->
                 [table |-> Table(q), content |-> b.tiers[i].cost, order |-> b.tiers[i].number]]
         [] Table(q) = "policy_commission" ->
              [i \in DOMAIN b.commission |->
                 [table |-> Table(q), content |-> b.commission[i], order |-> 1]]
         [] OTHER -> [i \in DOMAIN b |-> row(i)]

\* count_and_delete_existing, its SELECT count(*). For the specials it is the
\* existence check, and the row is not deleted but replaced.
CountExisting(q) ==
    /\ saves[q].at = "count"
    /\ Step(q, [saves[q] EXCEPT !.empty = @ /\ Visible(q, Table(q)) = {},
                                !.at = IF Table(q) = "policy_specials" THEN "upsert" ELSE "delete"])
    /\ UNCHANGED <<qsx, policyRow, exempt, legacy, tables, rowId, filed>>

\* Its DELETE: the statement's snapshot, then the rows once no open transaction
\* is deleting them; those it deleted and committed are skipped.
StartDelete(q) ==
    /\ saves[q].at = "delete"
    /\ Step(q, [saves[q] EXCEPT !.seen = Visible(q, Table(q)), !.at = "wait"])
    /\ UNCHANGED <<qsx, policyRow, exempt, legacy, tables, rowId, filed>>
WaitsForDelete(q, p) == saves[q].at = "wait" /\ saves[q].seen \cap Held(p) # {}

DeleteExisting(q) ==
    /\ saves[q].at = "wait" /\ \A p \in Others(q) : ~WaitsForDelete(q, p)
    /\ Step(q, [saves[q] EXCEPT !.gone = @ \cup (saves[q].seen \cap Rows(Table(q))), !.seen = {},
                                !.left = Given(q), !.at = "insert"])
    /\ UNCHANGED <<qsx, policyRow, exempt, legacy, tables, rowId, filed>>

\* Of the insert loop, one row; one that takes a unique key waits for an open
\* transaction that has inserted or is deleting a row of that key.
NewRow(q) == Head(saves[q].left) @@ [id |-> rowId]
KeyTaken(q) == \E r \in Visible(q, Table(q)) : SameKey(r, NewRow(q))
WaitsForKey(q, p) ==
    /\ saves[q].at = "insert" /\ saves[q].left # <<>>
    /\ \E r \in saves[p].put \cup saves[p].gone : SameKey(r, NewRow(q))

InsertRow(q) ==
    /\ saves[q].at = "insert" /\ saves[q].left # <<>> /\ rowId < MaxRows
    /\ \A p \in Others(q) : ~WaitsForKey(q, p)
    /\ ~KeyTaken(q)
    /\ Step(q, [saves[q] EXCEPT !.put = @ \cup {NewRow(q)}, !.left = Tail(@)])
    /\ rowId' = rowId + 1
    /\ UNCHANGED <<qsx, policyRow, exempt, legacy, tables, filed>>

\* The next table of the category, or the exemption.
NextTable(q) ==
    /\ saves[q].at = "insert" /\ saves[q].left = <<>>
    /\ Step(q, [saves[q] EXCEPT !.tables = Tail(@),
                                !.at = IF Len(saves[q].tables) > 1 THEN "count" ELSE "exempt"])
    /\ UNCHANGED <<qsx, policyRow, exempt, legacy, tables, rowId, filed>>

\* INSERT ... ON CONFLICT DO UPDATE of the specials: the row of the key, whoever
\* committed it, is replaced.
WaitsForSpecials(q, p) ==
    saves[q].at = "upsert" /\ \E r \in saves[p].put : r.table = "policy_specials"
UpsertSpecials(q) ==
    /\ saves[q].at = "upsert" /\ rowId < MaxRows
    /\ \A p \in Others(q) : ~WaitsForSpecials(q, p)
    /\ Step(q, [saves[q] EXCEPT !.gone = Rows("policy_specials"),
                                !.put = {Given(q)[1] @@ [id |-> rowId]}, !.at = "exempt"])
    /\ rowId' = rowId + 1
    /\ UNCHANGED <<qsx, policyRow, exempt, legacy, tables, filed>>

\* mark_exempt_if_qsx_and_was_empty: the UPDATE locks the facility_policies row.
WaitsForMark(q, p) == saves[q].at = "exempt" /\ saves[q].empty /\ qsx /\ saves[p].mark
mark_exempt_if_qsx_and_was_empty(q) ==
    /\ saves[q].at = "exempt"
    /\ \A p \in Others(q) : ~WaitsForMark(q, p)
    /\ Step(q, [saves[q] EXCEPT !.mark = saves[q].empty /\ qsx, !.at = "commit"])
    /\ UNCHANGED <<qsx, policyRow, exempt, legacy, tables, rowId, filed>>

Commit(q) ==
    LET r == saves[q]
    IN /\ r.at = "commit"
       /\ tables' = [t \in Tables |-> (Rows(t) \ r.gone) \cup {s \in r.put : s.table = t}]
       /\ exempt' = IF r.mark THEN exempt \cup {r.category} ELSE exempt
       /\ policyRow' = TRUE
       /\ Step(q, [NoSave EXCEPT !.at = "done"])
       /\ filed' = [filed EXCEPT !.saved[r.category] = r.body]
       /\ UNCHANGED <<qsx, legacy, rowId>>

\* A statement or the commit fails, a unique key among the reasons: rolled back.
SaveFails(q) ==
    /\ Open(q)
    /\ Step(q, [NoSave EXCEPT !.at = "done"])
    /\ UNCHANGED <<qsx, policyRow, exempt, legacy, tables, rowId, filed>>

\* previous_pms is edited or re-synced.
ChangePreviousPms ==
    /\ qsx' = ~qsx
    /\ UNCHANGED <<policyRow, exempt, legacy, tables, rowId, saves, filed>>

-----------------------------------------------------------------------------
(* The page: the sections in the order the tab shows them.                    *)

ByOrder(r, s) == r.order < s.order
ById(r, s) == r.id < s.id
Contents(rows) == [i \in DOMAIN rows |-> rows[i].content]
fetch_policy_fees == Contents(SetToSortSeq(Rows("policy_fees"), ById))
fetch_tax_entries == Contents(SetToSortSeq(Rows("policy_tax_entries"), ByOrder))
fetch_delinquency_entries == Contents(SetToSortSeq(Rows("policy_delinquency_entries"), ByOrder))
fetch_coverage_tiers ==
    LET s == SetToSortSeq(Rows("policy_coverage_tiers"), ByOrder)
    IN [i \in DOMAIN s |-> [number |-> s[i].order, cost |-> s[i].content]]
fetch_commission == Contents(SetToSeq(Rows("policy_commission")))
fetch_specials_raw_text == Contents(SetToSeq(Rows("policy_specials")))
fetch_policy_flags == IF policyRow THEN exempt ELSE {}
get_facility_policies ==
    [fees |-> fetch_policy_fees, taxes |-> fetch_tax_entries,
     delinquency |-> fetch_delinquency_entries,
     coverage |-> [tiers |-> fetch_coverage_tiers, commission |-> fetch_commission],
     specials |-> fetch_specials_raw_text]

-----------------------------------------------------------------------------
Blank(c) == IF c = "coverage" THEN [tiers |-> <<>>, commission |-> <<>>] ELSE <<>>

\* insert_facility_policies_and_people: what a facility has from its Intake run.
\* Taxes and delinquency steps go to the tables of raw text.
Ingested(answered) ==
    [t \in Tables |->
       IF t \notin answered THEN {}
       ELSE {[table |-> t, id |-> 0, order |-> 1,
              content |-> IF t = "policy_fees" THEN [fee_type |-> "security_deposit"] ELSE 0]}]
FromProcessStreet ==
    {A \in SUBSET {"policy_fees", "policy_coverage_tiers", "policy_commission", "policy_specials"} :
       Cardinality(A) <= 1}

\* filed: the body of each category's last save, as it was read from the page
\* first, and the categories two saves of which were open at once.
PoliciesInit ==
    /\ qsx \in BOOLEAN
    /\ exempt = {} /\ rowId = 1
    /\ saves = [q \in Saves |-> NoSave]
    /\ \/ /\ policyRow = FALSE /\ legacy = {} /\ tables = Ingested({})
       \/ /\ policyRow = TRUE
          /\ legacy \in SUBSET {"taxes", "delinquency"}
          /\ \E A \in FromProcessStreet : tables = Ingested(A)
    /\ filed = [saved |-> [c \in Categories |-> get_facility_policies[c]], contended |-> {}]

PoliciesStep(q) ==
    \/ CountExisting(q) \/ StartDelete(q) \/ DeleteExisting(q) \/ InsertRow(q) \/ NextTable(q)
    \/ UpsertSpecials(q) \/ mark_exempt_if_qsx_and_was_empty(q) \/ Commit(q) \/ SaveFails(q)

-----------------------------------------------------------------------------
(* Properties                                                                 *)

\* Two open saves wait for each other only over the tiers of coverages that list
\* two tiers in opposite orders, which update_coverage inserts as they are given
\* (Postgres then aborts one of them); rows, the other keys and the exemption
\* are taken in the same order by every save.
NoMutualWait ==
    LET waits(q, p) == \/ WaitsForDelete(q, p) \/ WaitsForKey(q, p)
                       \/ WaitsForSpecials(q, p) \/ WaitsForMark(q, p)
        tier(q, i) == saves[q].body.tiers[i].number
        opposite(q, p) ==
            /\ saves[q].category = "coverage" /\ saves[p].category = "coverage"
            /\ \E i, j \in DOMAIN saves[q].body.tiers, k, l \in DOMAIN saves[p].body.tiers :
                 i < j /\ k < l /\ tier(q, i) = tier(p, l) /\ tier(q, j) = tier(p, k)
    IN \A q \in Saves : \A p \in Others(q) :
         Open(q) /\ waits(q, p) /\ waits(p, q) => opposite(q, p)

=============================================================================
