---------------------------- MODULE TenantFiles ----------------------------
(***************************************************************************)
(* Which files a duplicate tenant check runs on, and the records it reads  *)
(* from them: the two registry snapshots and the tasks that retry their    *)
(* startup load (src/client_ops/vendor_format.rs, vendor_file_meta.rs),    *)
(* recognition by headers (core vendor_format.rs), the suggestion and the  *)
(* plan (dedup file_selection.rs, src/api/dedup_files.rs), and the join of *)
(* the reports of one system (dedup ingest.rs, join.rs, unit_link.rs).     *)
(*                                                                         *)
(* File names, format names and systems are numbers, in the order of their *)
(* spelling.  A file is [name, headers, rows]; its headers are a set of    *)
(* column names and its rows functions of them; a blank cell is "".        *)
(* An option is a sequence of at most one element.                         *)
(***************************************************************************)
EXTENDS Naturals, FiniteSets, Sequences, SequencesExt

CONSTANTS Formats,      \* the rows of client_ops.vendor_format, in id order
          Fold,         \* name -> its group key
          RETRY_FIRST_DELAY, RETRY_MAX_DELAY

ASSUME DelayAssumption == /\ {RETRY_FIRST_DELAY, RETRY_MAX_DELAY} \subseteq Nat \ {0}
                          /\ RETRY_FIRST_DELAY <= RETRY_MAX_DELAY

VARIABLES snapshot,    \* the two snapshots: rows of Formats, or none yet
          retry,       \* the delay of each snapshot's retry task, 0 when there is none
          folder,      \* the folder the user works in
          request,     \* the request in the middle of reading the snapshots
          offer,       \* the last classification
          session      \* the last outcome of create_session

filesVars == <<snapshot, retry, folder, request, offer, session>>

TENANT_ID == "TenantId"
UNIT == "UnitNumber"
NAME == "FirtLast"

Some(x) == <<x>>
None    == <<>>

(***************************************************************************)
(* vendor_format.rs, file_selection.rs                                     *)
(***************************************************************************)
detect_vendor(headers, vendors) ==
  LET fits == SelectSeq(vendors, LAMBDA v : v.signature \subseteq headers)
  IN  IF fits = <<>> THEN None ELSE Some(fits[1])

fallback(name) == [name |-> name, pms |-> name, role |-> "primary", priority |-> 0]

meta_for(name, metas) ==
  LET of == SelectSeq(metas, LAMBDA m : m.name = name)
  IN  IF of = <<>> THEN fallback(name)
      ELSE [name |-> name, pms |-> of[1].pms, role |-> of[1].role, priority |-> of[1].priority]

\* The format most of whose headers are there, when at least two and half of
\* them are; the earlier row of two as good.
closest_vendor(headers, vendors) ==
  LET matched(i) == Cardinality(vendors[i].signature \cap headers)
      total(i)   == Cardinality(vendors[i].signature)
      near       == {i \in DOMAIN vendors : /\ matched(i) >= 2 /\ matched(i) * 2 >= total(i)
                                            /\ matched(i) < total(i)}
      better(i, j) == \/ matched(i) > matched(j)
                      \/ matched(i) = matched(j) /\ total(i) < total(j)
                      \/ matched(i) = matched(j) /\ total(i) = total(j) /\ i <= j
      best == {i \in near : \A j \in near : better(i, j)}
  IN  {[vendor |-> vendors[i].name, missing |-> vendors[i].signature \ headers] : i \in best}

\* One file: unreadable, recognised with its metadata, or at best a near miss.
ClassifyFile(file, vendors, metas) ==
  LET vendor == detect_vendor(file.headers, vendors)
  IN  CASE file.unreadable -> [name |-> file.name, status |-> "unreadable", format |-> None, near_miss |-> {}]
        [] ~file.unreadable /\ vendor # None ->
             [name |-> file.name, status |-> "recognized",
              format |-> Some(meta_for(vendor[1].name, metas)), near_miss |-> {}]
        [] OTHER -> [name |-> file.name, status |-> "unrecognized", format |-> None,
                     near_miss |-> closest_vendor(file.headers, vendors)]

NoSuggestion == [pms |-> None, selected |-> <<>>, alternatives |-> {}]

PreferredFirst(a, b) ==
  \/ a.format[1].priority > b.format[1].priority
  \/ a.format[1].priority = b.format[1].priority /\ a.name < b.name

\* The join files, one of each kind.
one_per_kind(sorted) ==
  LET first(i) == \A j \in 1 .. i - 1 : sorted[j].format[1].name # sorted[i].format[1].name
      kept     == SelectSeq([i \in DOMAIN sorted |-> i], first)
  IN  [n \in DOMAIN kept |-> sorted[kept[n]]]

\* The best priority, then the most primaries, then the name.
best_pms(primaries) ==
  LET systems == {f.format[1].pms : f \in Range(primaries)}
      of(p)   == {i \in DOMAIN primaries : primaries[i].format[1].pms = p}
      top(p)  == CHOOSE n \in {primaries[i].format[1].priority : i \in of(p)} :
                   \A i \in of(p) : primaries[i].format[1].priority <= n
      beats(p, q) == \/ top(p) > top(q)
                     \/ top(p) = top(q) /\ Cardinality(of(p)) > Cardinality(of(q))
                     \/ top(p) = top(q) /\ Cardinality(of(p)) = Cardinality(of(q)) /\ p <= q
  IN  CHOOSE p \in systems : \A q \in systems : beats(p, q)

suggest(classified) ==
  LET recognized == SelectSeq(classified, LAMBDA f : f.format # None)
      primaries  == SelectSeq(recognized, LAMBDA f : f.format[1].role = "primary")
      pms        == best_pms(primaries)
      in_pms     == SetToSortSeq({f \in Range(primaries) : f.format[1].pms = pms}, PreferredFirst)
      joins      == one_per_kind(SetToSortSeq({f \in Range(recognized) :
                       f.format[1].role = "join" /\ f.format[1].pms = pms}, PreferredFirst))
  IN  IF primaries = <<>>
      THEN [NoSuggestion EXCEPT !.pms = IF recognized = <<>> THEN None ELSE Some(recognized[1].format[1].pms)]
      ELSE [pms          |-> Some(pms),
            selected     |-> <<in_pms[1].name>> \o [n \in DOMAIN joins |-> joins[n].name],
            alternatives |-> {in_pms[n].name : n \in 2 .. Len(in_pms)}]

classify(files, vendors, metas) ==
  suggest([i \in DOMAIN files |-> ClassifyFile(files[i], vendors, metas)])

Refuse(why) == [ok |-> FALSE, why |-> why]

\* The first join file that cannot come along decides.
joins_allowed(metas, primary, joins) ==
  LET foreign(j)   == metas[j].pms # metas[primary].pms
      repeated(j)  == \E i \in joins : i < j /\ metas[i].name = metas[j].name
      bad          == {j \in joins : foreign(j) \/ repeated(j)}
      first        == CHOOSE j \in bad : \A k \in bad : j <= k
  IN  IF bad = {} THEN "" ELSE IF foreign(first) THEN "MixedSystems" ELSE "DuplicateFormat"

\* formats[i] is what the registry made of the i-th file.
plan_ingest(formats) ==
  LET metas     == [i \in DOMAIN formats |-> formats[i][1]]
      unusable(i) == formats[i] = None \/ metas[i].role = "supporting"
      bad       == {i \in DOMAIN formats : unusable(i)}
      firstBad  == CHOOSE i \in bad : \A j \in bad : i <= j
      primaries == SelectSeq([i \in DOMAIN formats |-> i], LAMBDA i : metas[i].role = "primary")
      joins     == {i \in DOMAIN formats : metas[i].role = "join"}
      p         == metas[primaries[1]]
      q         == metas[primaries[2]]
  IN  IF formats = <<>> THEN Refuse("NoFiles")
      ELSE IF bad # {} THEN Refuse(IF formats[firstBad] = None THEN "Unrecognized" ELSE "Supporting")
      ELSE IF primaries = <<>> THEN Refuse("JoinWithoutPrimary")
      ELSE IF Len(primaries) > 1
           THEN Refuse(IF q.pms # p.pms THEN "MixedSystems"
                       ELSE IF q.name = p.name THEN "DuplicateFormat" ELSE "Alternatives")
      ELSE IF joins_allowed(metas, primaries[1], joins) # ""
           THEN Refuse(joins_allowed(metas, primaries[1], joins))
      ELSE [ok |-> TRUE, primary |-> primaries[1], joins |-> SetToSortSeq(joins, <)]

(***************************************************************************)
(* unit_link.rs, join.rs, ingest.rs.  A document is [headers, rows] in     *)
(* canonical names; every row has a cell for every header.  None stands    *)
(* for a refusal.                                                          *)
(***************************************************************************)
\* A target whose source column is missing is dropped.
apply_field_mapping(file, vendor) ==
  LET targets == {t \in DOMAIN vendor.mapping : vendor.mapping[t] \in file.headers}
  IN  [headers |-> targets,
       rows    |-> [i \in DOMAIN file.rows |-> [t \in targets |-> file.rows[i][vendor.mapping[t]]]]]

is_unit_link(doc) == {TENANT_ID, UNIT} \subseteq doc.headers /\ NAME \notin doc.headers

AppendNew(s, x) == IF x \in Range(s) THEN s ELSE Append(s, x)

\* Mutant: a renewed lease is a second unit.
units_with_renewals(link, tenant) ==
  LET leases == SelectSeq(link.rows, LAMBDA r : r[TENANT_ID] = tenant /\ r[UNIT] # "")
  IN  [n \in DOMAIN leases |-> leases[n][UNIT]]

\* The units of a tenant in file order, a renewed lease being one unit.
units_of(link, tenant) ==
  FoldLeft(LAMBDA held, r : IF r[TENANT_ID] = tenant /\ r[UNIT] # "" THEN AppendNew(held, r[UNIT]) ELSE held,
           <<>>, link.rows)

\* A tenant's rows, identical repeats collapsed.
rows_of(rows, tenant) ==
  FoldLeft(LAMBDA kept, r : IF r[TENANT_ID] = tenant THEN AppendNew(kept, r) ELSE kept, <<>>, rows)

WithUnit(row, unit) == [row EXCEPT ![UNIT] = unit]

\* One row on every unit, or as many rows as units, in their orders.
Spread(rows, held) ==
  IF Len(rows) = 1 THEN [n \in DOMAIN held |-> WithUnit(rows[1], held[n])]
  ELSE [n \in DOMAIN held |-> WithUnit(rows[n], held[n])]

HasLease(link, row) == row[TENANT_ID] # "" /\ units_of(link, row[TENANT_ID]) # <<>>

attach_units(primary, link) ==
  LET untouched == SelectSeq(primary.rows, LAMBDA r : ~HasLease(link, r))
      leased    == SelectSeq(primary.rows, LAMBDA r : HasLease(link, r))
      order     == FoldLeft(LAMBDA seen, r : AppendNew(seen, r[TENANT_ID]), <<>>, leased)
      fits(t)   == Len(rows_of(leased, t)) \in {1, Len(units_of(link, t))}
  IN  IF ~({TENANT_ID, UNIT} \subseteq primary.headers) \/ \E n \in DOMAIN order : ~fits(order[n])
      THEN None
      ELSE Some([primary EXCEPT !.rows = untouched \o
             FlattenSeq([n \in DOMAIN order |-> Spread(rows_of(leased, order[n]), units_of(link, order[n]))])])

row_key(row) == <<row[UNIT], Fold[row[NAME]]>>

\* The join row fills what the main row leaves blank.
Fill(row, source, cols) ==
  [h \in DOMAIN row \cup cols |-> IF h \in DOMAIN row /\ row[h] # "" THEN row[h]
                                  ELSE IF h \in cols THEN source[h] ELSE ""]

\* The first join row of a key counts.
AddJoin(primary, join) ==
  LET cols      == join.headers \ {UNIT, NAME}
      blank     == [h \in cols |-> ""]
      same(row) == SelectSeq(join.rows, LAMBDA r : row_key(r) = row_key(row))
      source(row) == IF same(row) = <<>> THEN blank ELSE same(row)[1]
  IN  [headers |-> primary.headers \cup cols,
       rows    |-> [i \in DOMAIN primary.rows |-> Fill(primary.rows[i], source(primary.rows[i]), cols)]]

Matchable(doc) == {UNIT, NAME} \subseteq doc.headers

\* The unit links first, so that every other join sees the units.
merge_joined(primary, joins) ==
  LET links  == SelectSeq(joins, is_unit_link)
      others == SelectSeq(joins, LAMBDA d : ~is_unit_link(d))
      linked == FoldLeft(LAMBDA doc, l : IF doc = None THEN None ELSE attach_units(doc[1], l),
                         Some(primary), links)
  IN  IF linked = None THEN None
      ELSE IF ~Matchable(linked[1]) \/ \E n \in DOMAIN others : ~Matchable(others[n]) THEN None
      ELSE Some(FoldLeft(AddJoin, linked[1], others))

normalize(file, vendors) == apply_field_mapping(file, detect_vendor(file.headers, vendors)[1])

records_from_documents(primary, joins, vendors) ==
  LET main   == normalize(primary, vendors)
      joined == merge_joined(main, [n \in DOMAIN joins |-> normalize(joins[n], vendors)])
      doc    == IF joins = <<>> THEN Some(main) ELSE joined
  IN  IF doc = None THEN None ELSE IF NAME \notin doc[1].headers THEN None ELSE Some(doc[1].rows)
-----------------------------------------------------------------------------
(***************************************************************************)
(* The snapshots and the requests                                          *)
(***************************************************************************)
Snapshots == {"vendors", "metas"}
NoRequest  == [kind |-> "none", files |-> <<>>, vendors |-> <<>>]
NoOffer    == [made |-> FALSE, files |-> <<>>, vendors |-> <<>>, metas |-> <<>>, suggested |-> NoSuggestion]
NoTenants == [made |-> FALSE, why |-> "", files |-> <<>>, vendors |-> <<>>, metas |-> <<>>,
               plan |-> <<>>, records |-> <<>>]

\* Each startup load fails or not on its own; the retry task of a snapshot is
\* started when it is still empty.
initial_cache(loaded) ==
  /\ snapshot = [c \in Snapshots |-> IF loaded[c] THEN Formats ELSE <<>>]
  /\ retry = [c \in Snapshots |-> IF loaded[c] THEN 0 ELSE RETRY_FIRST_DELAY]

FilesInit(folders) ==
  /\ \E loaded \in [Snapshots -> BOOLEAN] : initial_cache(loaded)
  /\ folder \in folders
  /\ request = NoRequest /\ offer = NoOffer /\ session = NoTenants

refresh(c) ==
  /\ retry[c] # 0
  /\ snapshot' = [snapshot EXCEPT ![c] = Formats]
  /\ retry' = [retry EXCEPT ![c] = 0]
  /\ UNCHANGED <<folder, request, offer, session>>

\* The load failed again: wait twice as long, up to the longest delay.
RefreshFails(c) ==
  /\ retry[c] # 0
  /\ retry' = [retry EXCEPT ![c] = IF 2 * @ < RETRY_MAX_DELAY THEN 2 * @ ELSE RETRY_MAX_DELAY]
  /\ UNCHANGED <<snapshot, folder, request, offer, session>>

\* A request reads the formats first and the metadata after them.
Begin(kind, files) ==
  /\ request = NoRequest
  /\ request' = [kind |-> kind, files |-> files, vendors |-> snapshot["vendors"]]
  /\ UNCHANGED <<snapshot, retry, folder, offer, session>>

Permuted == {[i \in DOMAIN folder |-> folder[p[i]]] : p \in {q \in [DOMAIN folder -> DOMAIN folder] :
                                                              Range(q) = DOMAIN folder}}

\* The page sends the headers of a local folder's files.
classify_files == \E files \in Permuted : Begin("classify", files)

\* A Dropbox folder is scanned in its order; a file that cannot be fetched or
\* parsed is unreadable.
classify_dropbox_folder ==
  \E bad \in SUBSET (DOMAIN folder) :
    Begin("classify", [i \in DOMAIN folder |-> IF i \in bad THEN [folder[i] EXCEPT !.unreadable = TRUE]
                                               ELSE folder[i]])

Selections == {<<>>} \cup UNION {{s \in [1 .. n -> DOMAIN folder] : \A i, j \in 1 .. n : i # j => s[i] # s[j]} :
                                   n \in 1 .. Len(folder)}

upload == \E s \in Selections : Begin("create", [n \in DOMAIN s |-> folder[s[n]]])

classify_to_response ==
  /\ request.kind = "classify"
  /\ offer' = [made |-> TRUE, files |-> request.files, vendors |-> request.vendors, metas |-> snapshot["metas"],
               suggested |-> classify(request.files, request.vendors, snapshot["metas"])]
  /\ request' = NoRequest
  /\ UNCHANGED <<snapshot, retry, folder, session>>

\* The outcome of create_session for files that all parse.
Outcome(files, vendors, metas) ==
  LET formats == [i \in DOMAIN files |->
                    LET vendor == detect_vendor(files[i].headers, vendors)
                    IN  IF vendor = None THEN None ELSE Some(meta_for(vendor[1].name, metas))]
      plan    == plan_ingest(formats)
      joins   == [n \in DOMAIN plan.joins |-> files[plan.joins[n]]]
      records == records_from_documents(files[plan.primary], joins, vendors)
  IN  [made |-> TRUE, files |-> files, vendors |-> vendors, metas |-> metas,
       why     |-> IF ~plan.ok THEN plan.why ELSE IF records = None THEN "NotJoined" ELSE "",
       plan    |-> IF plan.ok THEN Some(plan) ELSE None,
       records |-> IF plan.ok THEN records ELSE None]

create_session ==
  /\ request.kind = "create"
  /\ session' = IF \E n \in DOMAIN request.files : request.files[n].unreadable
                THEN [NoTenants EXCEPT !.made = TRUE, !.why = "NotParsed", !.files = request.files]
                ELSE Outcome(request.files, request.vendors, snapshot["metas"])
  /\ request' = NoRequest
  /\ UNCHANGED <<snapshot, retry, folder, offer>>

FilesStep ==
  \/ \E c \in Snapshots : refresh(c) \/ RefreshFails(c)
  \/ classify_files \/ classify_dropbox_folder \/ upload
  \/ classify_to_response \/ create_session

\* The database answers some attempt of a task that keeps trying.
FilesFairness == \A c \in Snapshots : SF_filesVars(refresh(c))
-----------------------------------------------------------------------------
Ran       == session.made /\ session.why = ""
Plan      == session.plan[1]
Doc(n)    == normalize(session.files[n], session.vendors)
MainRows  == Doc(Plan.primary).rows
JoinDocs  == [n \in DOMAIN Plan.joins |-> Doc(Plan.joins[n])]
LinkDocs  == {d \in Range(JoinDocs) : is_unit_link(d)}
Records   == session.records[1]
\* Each unit a lease gives to a tenant of the main file is one record, also
\* when the lease was renewed or the file repeats the tenant (attach_units).
EveryLeaseOnce ==
  Ran => \A d \in LinkDocs : \A lease \in Range(d.rows) :
    (lease[UNIT] # "" /\ lease[TENANT_ID] # "" /\ \E p \in Range(MainRows) : p[TENANT_ID] = lease[TENANT_ID]) =>
      Cardinality({n \in DOMAIN Records : /\ Records[n][TENANT_ID] = lease[TENANT_ID]
                                          /\ Records[n][UNIT] = lease[UNIT]}) = 1

=============================================================================
