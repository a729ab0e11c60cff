--------------------------- MODULE ClientRecords ---------------------------
(***************************************************************************)
(* Companies, facilities and their merchant accounts, as the handlers of   *)
(* the client pages read and write them around calls to Process Street.    *)
(*                                                                         *)
(* A handler reads in one short transaction, fetches from Process Street   *)
(* with none open and writes in another; one action is one of those parts. *)
(* Transactions are READ COMMITTED: a write is absolute values computed    *)
(* from what was read before, and a row updated by an open transaction     *)
(* (pending, of the sync) is locked until that one ends.                   *)
(*                                                                         *)
(* A run of a workflow is its version; a field of a row is blank, set by   *)
(* hand, or a run's answer at a version.  Of a merchant application only   *)
(* whose it is matters.  A request that is refused is a stutter, and one   *)
(* that fails on the way is Abandon.                                       *)
(***************************************************************************)
EXTENDS Integers, FiniteSets, Sequences

CONSTANTS
    Companies, Facilities,     \* row ids; an id is never used twice
    Fields,
    FolderField,               \* dropbox_folder_url
    IntakeRuns, MerchantRuns, NoRun,
    Requests,
    MaxVersion,                \* bound on the changes made in Process Street
    Answered,                  \* the fields an intake run answers, by version
    Scenarios                  \* which operations run together, and on what

ASSUME RecordsAssumption ==
    /\ FolderField \in Fields
    /\ MaxVersion \in Nat \ {0}
    /\ Answered \in [1 .. MaxVersion -> SUBSET Fields]
    /\ NoRun \notin IntakeRuns \cup MerchantRuns
    /\ IntakeRuns \cap MerchantRuns = {} /\ Companies \cap Facilities = {}

Ids == Companies \cup Facilities
Runs == IntakeRuns \cup MerchantRuns

VARIABLES
    scenario,
    ps,        \* Process Street: the version of each run
    rows,      \* the rows of companies and facilities, by id
    used,      \* ids given out
    merchant,  \* a facility's account, its parties and its task statuses
    cache,     \* ResyncPreviewCache
    req,       \* requests in flight
    pending    \* row updates of the sync's open transaction

recordVars == <<scenario, ps, rows, used, merchant, cache, req, pending>>

Blank == [run |-> NoRun, ver |-> 0]
Hand == [run |-> NoRun, ver |-> 1]
NoRequest == [op |-> "none"]
NoComparison == [company |-> NoRun]
NoMerchant == [run |-> NoRun, data |-> NoRun, parties |-> NoRun, tasks |-> {}]

Use(op) == op \in scenario.ops
Present(S) == S \cap DOMAIN rows
Unlocked(S) == S \cap DOMAIN pending = {}
FacilitiesOf(c) == {f \in Present(Facilities) : rows[f].company = c}
Without(fn, S) == [x \in DOMAIN fn \ S |-> fn[x]]
Updated(fn, new) == [x \in DOMAIN fn |-> IF x \in DOMAIN new THEN new[x] ELSE fn[x]]

Begin(q, r) == q \in scenario.requests /\ req[q] = NoRequest /\ req' = [req EXCEPT ![q] = r]
Become(q, r) == req' = [req EXCEPT ![q] = r]
End(q) == req' = [req EXCEPT ![q] = NoRequest]

-----------------------------------------------------------------------------
(* Field values.                                                           *)

map_intake_fields(r, v) ==
    [f \in Fields |-> IF f \in Answered[v] THEN [run |-> r, ver |-> v] ELSE Blank]

\* Mutant: a fresh answer wins over a field edited by hand.
refreshed_field_unprotected(current, fresh, is_protected) ==
    IF fresh = Blank THEN current ELSE fresh

refreshed_field(current, fresh, is_protected) ==
    IF is_protected \/ fresh = Blank THEN current ELSE fresh

apply_refresh(current, fresh, protected) ==
    [f \in Fields |-> refreshed_field(current[f], fresh[f], f \in protected)]

fields_that_differ(a, b) == {f \in Fields : a[f] # b[f]}

-----------------------------------------------------------------------------
(* Importing runs: create_client and add_facility.  The body of a create   *)
(* names the run of the company and of one facility, a merchant run if one *)
(* was resolved, and the values reviewed on screen: those of a preview at  *)
(* version ver, with some set by hand.                                     *)

Bodies ==
    [company_run: IntakeRuns, facility_run: IntakeRuns, mrun: MerchantRuns \cup {NoRun},
     hand: {H \in SUBSET Fields : Cardinality(H) <= 1}, ver: 1 .. MaxVersion]

reviewed(b, r) ==
    [f \in Fields |-> IF f \in b.hand THEN Hand ELSE map_intake_fields(r, b.ver)[f]]

check_not_already_imported(R) == \A id \in DOMAIN rows : rows[id].run \notin R

fetch_create_data(R) == [r \in R |-> ps[r]]

\* The first check and the fetch.
CreateFetch(q, b) ==
    LET R == {b.company_run, b.facility_run}
    IN  /\ Use("create")
        /\ R \subseteq scenario.runs /\ b.mrun \in scenario.runs \cup {NoRun}
        /\ \A r \in R : b.ver <= ps[r]
        /\ check_not_already_imported(R)
        /\ Begin(q, [op |-> "create", pc |-> "fetched", body |-> b, runs |-> R,
                     got |-> fetch_create_data(R)])
        /\ UNCHANGED <<scenario, ps, rows, used, merchant, cache, pending>>

AddFetch(q, c, r, m) ==
    /\ Use("add")
    /\ r \in scenario.runs /\ m \in scenario.runs \cup {NoRun}
    /\ c \in DOMAIN rows
    /\ check_not_already_imported({r})
    /\ Begin(q, [op |-> "add", pc |-> "fetched", company |-> c, runs |-> {r}, mrun |-> m,
                 got |-> [s \in {r} |-> ps[s]]])
    /\ UNCHANGED <<scenario, ps, rows, used, merchant, cache, pending>>

\* The writing transaction repeats the check; its inserts are not visible to
\* another one before it commits.
ImportRecheck(q) ==
    /\ req[q].op \in {"create", "add"} /\ req[q].pc = "fetched"
    /\ check_not_already_imported(req[q].runs)
    /\ Become(q, [req[q] EXCEPT !.pc = "checked"])
    /\ UNCHANGED <<scenario, ps, rows, used, merchant, cache, pending>>

Fresh(S) == CHOOSE id \in S \ used : TRUE

\* A row holds the values it is given; those that differ from what was fetched
\* count as edited by hand.
NewRow(c, r, got, values) ==
    [company |-> c, run |-> r, val |-> values,
     edited |-> fields_that_differ(map_intake_fields(r, got), values)]

Inserted(new) ==
    /\ rows' = [id \in DOMAIN rows \cup DOMAIN new |->
                   IF id \in DOMAIN new THEN new[id] ELSE rows[id]]
    /\ used' = used \cup DOMAIN new

\* The account's key and the parties' slots are unique per facility.
Insertable(f) == merchant[f].run = NoRun /\ merchant[f].parties = NoRun

ingest_merchant_account_run(f, m) ==
    [merchant[f] EXCEPT !.run = m, !.data = m, !.parties = m]

IngestIfResolved(f, m) ==
    merchant' = IF m = NoRun THEN merchant
                ELSE [merchant EXCEPT ![f] = ingest_merchant_account_run(f, m)]

write_create_data(q) ==
    LET b == req[q].body
        c == Fresh(Companies)
        f == Fresh(Facilities)
        run(id) == IF id = c THEN b.company_run ELSE b.facility_run
    IN  /\ req[q].op = "create" /\ req[q].pc = "checked"
        /\ ~(Companies \subseteq used) /\ ~(Facilities \subseteq used)
        /\ Inserted([id \in {c, f} |-> NewRow(c, run(id), req[q].got[run(id)], reviewed(b, run(id)))])
        /\ IngestIfResolved(f, b.mrun)
        /\ End(q)
        /\ UNCHANGED <<scenario, ps, cache, pending>>

\* The values are those just fetched; the company's row must still be there.
write_added_facility(q) ==
    /\ req[q].op = "add" /\ req[q].pc = "checked"
    /\ req[q].company \in DOMAIN rows
    /\ ~(Facilities \subseteq used)
    /\ \E r \in req[q].runs :
          Inserted([f \in {Fresh(Facilities)} |->
              NewRow(req[q].company, r, req[q].got[r], map_intake_fields(r, req[q].got[r]))])
    /\ IngestIfResolved(Fresh(Facilities), req[q].mrun)
    /\ End(q)
    /\ UNCHANGED <<scenario, ps, cache, pending>>

-----------------------------------------------------------------------------
(* Edits by hand.                                                          *)

\* The client page loads the company's fields into a form ...
EditForm(q, c) ==
    /\ Use("edit") /\ c \in DOMAIN rows
    /\ Begin(q, [op |-> "edit", id |-> c, form |-> rows[c].val])
    /\ UNCHANGED <<scenario, ps, rows, used, merchant, cache, pending>>

\* Mutant: the changed fields are not marked.
changed_fields_unmarked(old, edited, new) == edited

\* manually_edited_fields after a form was saved.
changed_fields(old, edited, new) == edited \cup fields_that_differ(old, new)

\* ... and saves all of them, one changed by hand.
update_company_info(q, f) ==
    LET c == req[q].id
        requested == [req[q].form EXCEPT ![f] = Hand]
    IN  /\ req[q].op = "edit"
        /\ c \in DOMAIN rows /\ Unlocked({c})
        /\ rows' = [rows EXCEPT ![c].val = requested,
                                ![c].edited = changed_fields(rows[c].val, @, requested)]
        /\ End(q)
        /\ UNCHANGED <<scenario, ps, used, merchant, cache, pending>>

update_facility_dropbox_folder(f) ==
    /\ Use("edit") /\ f \in DOMAIN rows /\ Unlocked({f})
    /\ rows' = [rows EXCEPT ![f].val[FolderField] = Hand, ![f].edited = @ \cup {FolderField}]
    /\ UNCHANGED <<scenario, ps, used, merchant, cache, req, pending>>

\* The rows that hang on the company go with it.
delete_company(c) ==
    LET gone == {c} \cup FacilitiesOf(c)
    IN  /\ Use("delete") /\ c \in DOMAIN rows /\ Unlocked(gone)
        /\ rows' = Without(rows, gone)
        /\ merchant' = [f \in Facilities |-> IF f \in gone THEN NoMerchant ELSE merchant[f]]
        /\ UNCHANGED <<scenario, ps, used, cache, req, pending>>

-----------------------------------------------------------------------------
(* A facility's links: manual_link, and link, unlink and resync of the     *)
(* Elavon tab.                                                             *)

manual_link_intake_fetch(q, f, r) ==
    /\ Use("relink") /\ r \in scenario.runs /\ f \in DOMAIN rows
    /\ Begin(q, [op |-> "relink_intake", id |-> f, run |-> r, got |-> ps[r]])
    /\ UNCHANGED <<scenario, ps, rows, used, merchant, cache, pending>>

\* A full overwrite that also drops the marks; nothing if the row has gone.
manual_link_intake(q) ==
    LET f == req[q].id
    IN  /\ req[q].op = "relink_intake" /\ Unlocked({f})
        /\ rows' = Updated(rows, [id \in {f} \cap DOMAIN rows |->
              [rows[f] EXCEPT !.run = req[q].run, !.edited = {},
                              !.val = map_intake_fields(req[q].run, req[q].got)]])
        /\ End(q)
        /\ UNCHANGED <<scenario, ps, used, merchant, cache, pending>>

manual_link_merchant_fetch(q, f, m) ==
    /\ Use("relink_merchant") /\ m \in scenario.runs /\ f \in DOMAIN rows
    /\ Begin(q, [op |-> "relink_merchant", id |-> f, run |-> m])
    /\ UNCHANGED <<scenario, ps, rows, used, merchant, cache, pending>>

with_tasks(account, m) == [account EXCEPT !.tasks = @ \cup {m}]

clear_link(account) == IF account.run = NoRun THEN account ELSE NoMerchant

manual_link_merchant_account(q) ==
    LET f == req[q].id
        m == req[q].run
        cleared == clear_link(merchant[f])
    IN  /\ req[q].op = "relink_merchant" /\ f \in DOMAIN rows
        /\ cleared.run = NoRun /\ cleared.parties = NoRun
        /\ merchant' = [merchant EXCEPT ![f] =
              with_tasks([cleared EXCEPT !.run = m, !.data = m, !.parties = m], m)]
        /\ End(q)
        /\ UNCHANGED <<scenario, ps, rows, used, cache, pending>>

link_fetch(q, f, m) ==
    /\ Use("link") /\ m \in scenario.runs /\ f \in DOMAIN rows
    /\ merchant[f].run = NoRun
    /\ Begin(q, [op |-> "link", id |-> f, run |-> m])
    /\ UNCHANGED <<scenario, ps, rows, used, merchant, cache, pending>>

link_facility_elavon(q) ==
    LET f == req[q].id
    IN  /\ req[q].op = "link" /\ f \in DOMAIN rows
        /\ Insertable(f)
        /\ merchant' = [merchant EXCEPT ![f] =
              with_tasks(ingest_merchant_account_run(f, req[q].run), req[q].run)]
        /\ End(q)
        /\ UNCHANGED <<scenario, ps, rows, used, cache, pending>>

unlink_facility_elavon(f) ==
    /\ Use("link") /\ f \in DOMAIN rows /\ merchant[f].run # NoRun
    /\ merchant' = [merchant EXCEPT ![f] = NoMerchant]
    /\ UNCHANGED <<scenario, ps, rows, used, cache, req, pending>>

resync_elavon_fetch(q, f) ==
    /\ Use("resync_elavon") /\ f \in DOMAIN rows /\ merchant[f].run # NoRun
    /\ Begin(q, [op |-> "resync_elavon", id |-> f, run |-> merchant[f].run])
    /\ UNCHANGED <<scenario, ps, rows, used, merchant, cache, pending>>

\* The account is updated where there is one; the parties are replaced in any
\* case.
resync_merchant_account_run(account, m) ==
    [account EXCEPT !.data = IF account.run = NoRun THEN @ ELSE m, !.parties = m]

resync_elavon_data(q) ==
    LET f == req[q].id
        m == req[q].run
    IN  /\ req[q].op = "resync_elavon" /\ f \in DOMAIN rows
        /\ merchant' = [merchant EXCEPT ![f] = with_tasks(resync_merchant_account_run(@, m), m)]
        /\ End(q)
        /\ UNCHANGED <<scenario, ps, rows, used, cache, pending>>

-----------------------------------------------------------------------------
(* Re-sync of one company.  A comparison is the rows and links as read and *)
(* what Process Street then answered; a run that fails to fetch is left    *)
(* out.  A preview keeps its comparison for the apply that follows.        *)

read_comparison_inputs(c) ==
    LET ids == {c} \cup FacilitiesOf(c)
    IN  [company |-> c,
         row |-> [id \in ids |-> rows[id]],
         fresh |-> [id \in {} |-> Blank],
         links |-> [f \in {g \in FacilitiesOf(c) : merchant[g].run # NoRun} |-> merchant[f].run]]

\* What a comparison becomes when the runs in failed cannot be fetched.
assemble_comparisons(cmp, failed) ==
    [cmp EXCEPT
        !.fresh = [id \in {i \in DOMAIN cmp.row : cmp.row[i].run \notin failed} |->
                      map_intake_fields(cmp.row[id].run, ps[cmp.row[id].run])],
        !.links = Without(@, {f \in DOMAIN @ : @[f] \in failed})]

preview_read(q, c) ==
    /\ Use("preview") /\ c \in DOMAIN rows
    /\ Begin(q, [op |-> "preview", cmp |-> read_comparison_inputs(c)])
    /\ UNCHANGED <<scenario, ps, rows, used, merchant, cache, pending>>

preview_resync(q, failed) ==
    /\ req[q].op = "preview"
    /\ cache' = [cache EXCEPT ![req[q].cmp.company] = assemble_comparisons(req[q].cmp, failed)]
    /\ End(q)
    /\ UNCHANGED <<scenario, ps, rows, used, merchant, pending>>

Conflicts(cmp) == UNION {{id} \X cmp.row[id].edited : id \in DOMAIN cmp.row}

\* A kept comparison is taken out, and used unless it is too old (usable).
\* use_fresh are the conflicts resolved in favour of Process Street.
apply_cached(q, c, use_fresh) ==
    /\ Use("apply") /\ cache[c] # NoComparison /\ use_fresh \subseteq Conflicts(cache[c])
    /\ Begin(q, [op |-> "apply", pc |-> "compared", cmp |-> cache[c], use_fresh |-> use_fresh])
    /\ cache' = [cache EXCEPT ![c] = NoComparison]
    /\ UNCHANGED <<scenario, ps, rows, used, merchant, pending>>

apply_read(q, c, use_fresh) ==
    /\ Use("apply") /\ c \in DOMAIN rows
    /\ use_fresh \subseteq Conflicts(read_comparison_inputs(c))
    /\ Begin(q, [op |-> "apply", pc |-> "read", cmp |-> read_comparison_inputs(c),
                 use_fresh |-> use_fresh])
    /\ cache' = [cache EXCEPT ![c] = NoComparison]
    /\ UNCHANGED <<scenario, ps, rows, used, merchant, pending>>

apply_fetch(q, failed) ==
    /\ req[q].op = "apply" /\ req[q].pc = "read"
    /\ Become(q, [req[q] EXCEPT !.pc = "compared", !.cmp = assemble_comparisons(@, failed)])
    /\ UNCHANGED <<scenario, ps, rows, used, merchant, cache, pending>>

effective_protected_fields(stored, use_fresh, id) == {f \in stored : <<id, f>> \notin use_fresh}

\* The row written for id: from the values and marks of the comparison, not
\* of the row as it is now.
resynced(id, cmp, use_fresh) ==
    LET was == cmp.row[id]
        protected == effective_protected_fields(was.edited, use_fresh, id)
        refreshed == apply_refresh(was.val, cmp.fresh[id], protected)
    IN  IF refreshed = was.val /\ protected = was.edited
        THEN rows[id]
        ELSE [rows[id] EXCEPT !.val = refreshed, !.edited = protected]

\* One transaction.  A party needs its facility's row.
write_all(q) ==
    LET cmp == req[q].cmp
    IN  /\ req[q].op = "apply" /\ req[q].pc = "compared"
        /\ Unlocked(DOMAIN cmp.fresh)
        /\ DOMAIN cmp.links \subseteq DOMAIN rows
        /\ rows' = Updated(rows, [id \in Present(DOMAIN cmp.fresh) |->
                                     resynced(id, cmp, req[q].use_fresh)])
        /\ merchant' = Updated(merchant, [f \in DOMAIN cmp.links |->
              with_tasks(resync_merchant_account_run(merchant[f], cmp.links[f]), cmp.links[f])])
        /\ End(q)
        /\ UNCHANGED <<scenario, ps, used, cache, pending>>

-----------------------------------------------------------------------------

\* A request fails, or is refused at its second look.
Abandon(q) ==
    /\ req[q] # NoRequest
    /\ End(q)
    /\ UNCHANGED <<scenario, ps, rows, used, merchant, cache, pending>>

\* External: someone changes a run in Process Street.
PsEdit(r) ==
    /\ Use("ps") /\ r \in scenario.runs /\ ps[r] < MaxVersion
    /\ ps' = [ps EXCEPT ![r] = @ + 1]
    /\ UNCHANGED <<scenario, rows, used, merchant, cache, req, pending>>

\* A client imported from company run r, with its facility linked to m.
Seed(c, f, r, m) ==
    /\ rows = [id \in {c, f} |-> NewRow(c, r, 1, map_intake_fields(r, 1))]
    /\ used = {c, f}
    /\ merchant = [g \in Facilities |->
                      IF g = f THEN [NoMerchant EXCEPT !.run = m, !.data = m, !.parties = m]
                      ELSE NoMerchant]

RecordsInit ==
    /\ scenario \in Scenarios
    /\ ps = [r \in Runs |-> 1]
    /\ \/ /\ ~scenario.seeded
          /\ rows = [id \in {} |-> NoRun] /\ used = {}
          /\ merchant = [f \in Facilities |-> NoMerchant]
       \/ /\ scenario.seeded
          /\ Seed(CHOOSE c \in Companies : TRUE, CHOOSE f \in Facilities : TRUE,
                  CHOOSE r \in IntakeRuns \cap scenario.runs : TRUE,
                  IF scenario.runs \cap MerchantRuns = {} THEN NoRun
                  ELSE CHOOSE m \in MerchantRuns \cap scenario.runs : TRUE)
    /\ cache = [c \in Companies |-> NoComparison]
    /\ req = [q \in Requests |-> NoRequest]
    /\ pending = [id \in {} |-> NoRun]

\* At most one conflict resolved, at most one run that cannot be fetched.
Resolutions == {{}} \cup {{x} : x \in Ids \X Fields}
Failures == {{}} \cup {{r} : r \in scenario.runs}

RequestNext(q) ==
    \/ \E b \in Bodies : CreateFetch(q, b)
    \/ \E c \in Companies, r \in IntakeRuns, m \in MerchantRuns \cup {NoRun} : AddFetch(q, c, r, m)
    \/ ImportRecheck(q) \/ write_create_data(q) \/ write_added_facility(q)
    \/ \E c \in Companies : EditForm(q, c) \/ preview_read(q, c)
    \/ \E f \in Fields : update_company_info(q, f)
    \/ \E f \in Facilities, r \in IntakeRuns : manual_link_intake_fetch(q, f, r)
    \/ manual_link_intake(q)
    \/ \E f \in Facilities, m \in MerchantRuns : manual_link_merchant_fetch(q, f, m) \/ link_fetch(q, f, m)
    \/ manual_link_merchant_account(q) \/ link_facility_elavon(q)
    \/ \E f \in Facilities : resync_elavon_fetch(q, f)
    \/ resync_elavon_data(q)
    \/ \E failed \in Failures : preview_resync(q, failed) \/ apply_fetch(q, failed)
    \/ \E c \in Companies, use_fresh \in Resolutions :
          apply_cached(q, c, use_fresh) \/ apply_read(q, c, use_fresh)
    \/ write_all(q)
    \/ Abandon(q)

RecordsNext ==
    \/ \E q \in Requests : RequestNext(q)
    \/ \E f \in Facilities : update_facility_dropbox_folder(f) \/ unlink_facility_elavon(f)
    \/ \E c \in Companies : delete_company(c)
    \/ \E r \in Runs : PsEdit(r)

-----------------------------------------------------------------------------

Values == {Blank, Hand} \cup [run: IntakeRuns, ver: 1 .. MaxVersion]
RowType == [company: Companies, run: IntakeRuns, val: [Fields -> Values], edited: SUBSET Fields]
MaybeRun == MerchantRuns \cup {NoRun}

\* The rows, links and requests have the shapes the tables and handlers give
\* them, and a facility's row never outlives its company's.
RecordsTypeOK ==
    /\ scenario \in Scenarios
    /\ ps \in [Runs -> 1 .. MaxVersion]
    /\ DOMAIN rows \subseteq used /\ used \subseteq Ids
    /\ \A id \in DOMAIN rows : rows[id] \in RowType /\ rows[id].company \in DOMAIN rows
    /\ merchant \in [Facilities -> [run: MaybeRun, data: MaybeRun, parties: MaybeRun,
                                    tasks: SUBSET MerchantRuns]]
    /\ \A f \in Facilities \ DOMAIN rows : merchant[f] = NoMerchant
    /\ DOMAIN req = Requests
    /\ \A c \in Companies : cache[c] # NoComparison => cache[c].company = c
    /\ DOMAIN pending \subseteq DOMAIN rows

\* q ends in this step having been asked to give up the edit of f in row id.
Asked(q, id, f) ==
    \/ req[q].op = "relink_intake" /\ req[q].id = id
    \/ req[q].op = "apply" /\ <<id, f>> \in req[q].use_fresh

\* q works from a state of row id that is no longer the present one.
Outdated(q, id) ==
    \/ req[q].op = "apply" /\ id \in DOMAIN req[q].cmp.row /\ req[q].cmp.row[id] # rows[id]
    \/ req[q].op = "edit" /\ req[q].id = id /\ req[q].form # rows[id].val

\* A value set by hand and marked as such is replaced only by a request that
\* was told to, or by a writer that had read the row before the row was last
\* changed: the marks protect it in every refresh (apply_company_refresh,
\* apply_facility_refresh and their callers).
EditsSurvive ==
    [][\A id \in DOMAIN rows : \A f \in rows[id].edited :
         id \in DOMAIN rows' /\ rows[id].val[f] = Hand /\ rows'[id].val[f] # Hand =>
            \/ \E q \in Requests : req'[q] = NoRequest /\ (Asked(q, id, f) \/ Outdated(q, id))
            \/ id \in DOMAIN pending /\ pending[id].was # rows[id]]_recordVars

=============================================================================
