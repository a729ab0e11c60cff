--------------------------- MODULE FacilityPeople ---------------------------
(* The Users tab of a facility: src/src/api/clients_facility_people (the tab   *)
(* with its self-heal, add, edit, unlink), src/src/clients/repository/         *)
(* people.rs and src/src/clients/legal_owner.rs. clients.people is shared by   *)
(* all facilities and roles. A handler is one READ COMMITTED transaction: an   *)
(* action for what it reads, one for what it then writes and commits. A blank  *)
(* name, an unknown source or facility is refused with nothing read: a         *)
(* stutter, as is a request that fails (a failed heal aborts its transaction,  *)
(* and the owner lookup after it fails). Emails are compared without case, so  *)
(* are given without it; the people a run lists differ.                        *)
EXTENDS Naturals, FiniteSets, TLC

CONSTANTS
    Facilities,    \* the facilities of one company
    Fold,          \* name -> what is left of it without case and extra spaces
    MaxRequests,   \* bound on the requests made; they are numbered as they arrive
    Bodies,        \* the [name, email, phone] a form may hold
    Indexes,       \* what the intake run of a facility may say of its people
    OwnerLists,    \* the owners a Merchant Account form may list
    MaxPeople      \* bound on the people ever inserted

VARIABLES
    people,        \* clients.people: id -> [name, email, phone]
    links,         \* clients.facility_people
    index,         \* clients.ps_person_index: facility -> its intake run's people
    owners,        \* facility -> the owner parties of its Merchant Account form
    asked          \* request -> where it is

Requests == 1 .. MaxRequests
peopleVars == <<people, links, index, owners, asked>>

None == "none"
QmsRoles == {"owner", "manager"}
Sources == {"process_street", "manual"}
Link(f, p, r, s) == [facility |-> f, person |-> p, role |-> r, source |-> s]
LinkKey(l) == <<l.facility, l.person, l.role>>

\* overlapped: another request wrote while this one was open.
NotAsked == [op |-> None, at |-> None, overlapped |-> FALSE]
OpenRequest(q) == asked[q].at = "open"
Arrives(q) == asked[q] = NotAsked /\ \A p \in 1 .. (q - 1) : asked[p] # NotAsked
Opens(q, r) == Arrives(q) /\ asked' = [asked EXCEPT ![q] = r]
Closes(q, r) ==
    asked' = [p \in Requests |->
                IF p = q THEN r
                ELSE IF OpenRequest(p) THEN [asked[p] EXCEPT !.overlapped = TRUE] ELSE asked[p]]
Done == [op |-> None, at |-> "done", overlapped |-> FALSE]

-----------------------------------------------------------------------------
(* clients::legal_owner                                                       *)

\* Rows are records with a name and an email; a match is a set of rows.
\* Mutant: everyone with the inbox of an owner is that owner.
owner_match_by_inbox(rows, owner) ==
    LET same_email == IF owner.email = None THEN {} ELSE {r \in rows : r.email = owner.email}
        same_name == {r \in rows : owner.name # None /\ Fold[r.name] = Fold[owner.name]}
    IN IF same_email # {} THEN same_email
       ELSE IF Cardinality(same_name) = 1 THEN same_name ELSE {}
owner_match_indices(rows, owner) ==
    LET same_email == IF owner.email = None THEN {} ELSE {r \in rows : r.email = owner.email}
        same_name == {r \in rows : owner.name # None /\ Fold[r.name] = Fold[owner.name]}
    IN CASE Cardinality(same_email) = 1 -> same_email
         [] Cardinality(same_email) > 1 -> same_email \cap same_name
         [] OTHER -> IF Cardinality(same_name) = 1 THEN same_name ELSE {}

legal_owner_flags(rows, listed) == UNION {owner_match_indices(rows, o) : o \in listed}
unmatched_owners(known, listed) ==
    {o \in listed : o.name # None /\ owner_match_indices(known, o) = {}}

\* Own owners when one of them is named, else those of the sister facility with
\* the most named ones.
named_owners(f) == {o \in owners[f] : o.name # None}
sister_facility_owners(f) ==
    LET named(g) == Cardinality(named_owners(g))
        sisters == {g \in Facilities \ {f} : named(g) > 0}
    IN IF sisters = {} THEN owners[f]
       ELSE owners[CHOOSE g \in sisters : \A h \in sisters : named(h) <= named(g)]
LegalOwners(f) == IF named_owners(f) # {} THEN owners[f] ELSE sister_facility_owners(f)

-----------------------------------------------------------------------------
(* GET .../people                                                             *)

RosterOf(f) == {people[l.person] @@ l : l \in {k \in links : k.facility = f}}

OpenTab(q, f) ==
    /\ Opens(q, [op |-> "tab", at |-> "open", overlapped |-> FALSE, facility |-> f,
                 roster |-> RosterOf(f), candidates |-> index[f]])
    /\ UNCHANGED <<people, links, index, owners>>

\* The candidates a row may be corrected from: of its email and role, one of its
\* name, or the only one.
CandidatesFor(row, candidates) ==
    LET same == {c \in candidates : c.role = row.role /\ c.email = row.email /\ c.email # None}
        named == {c \in same : Fold[c.name] = Fold[row.name]}
    IN IF row.source # "process_street" THEN {}
       ELSE IF named # {} THEN named ELSE IF Cardinality(same) = 1 THEN same ELSE {}

\* The row after the pass.
Healed(row, candidates) ==
    IF CandidatesFor(row, candidates) = {} THEN row
    ELSE LET c == CHOOSE d \in CandidatesFor(row, candidates) : TRUE
         IN [row EXCEPT !.name = c.name, !.phone = c.phone]

\* heal_person_in_place for every row that differs; of two rows of a person the
\* later one stays.
HealedPeople(q) ==
    LET stale == {r \in asked[q].roster :
                    CandidatesFor(r, asked[q].candidates) # {} /\ Healed(r, asked[q].candidates) # r}
        last == {w \in [{r.person : r \in stale} -> stale] : \A p \in DOMAIN w : w[p].person = p}
        write(w, p) == LET c == CHOOSE d \in CandidatesFor(w[p], asked[q].candidates) : TRUE
                       IN [people[p] EXCEPT !.name = c.name, !.phone = c.phone]
    IN {[p \in DOMAIN people |-> IF p \in DOMAIN w THEN write(w, p) ELSE people[p]] : w \in last}

\* The response: the roster with its flags, and the owners nobody is known for.
TabPage(q) ==
    LET roster == {Healed(r, asked[q].candidates) : r \in asked[q].roster}
        listed == LegalOwners(asked[q].facility)
    IN [roster |-> roster, listed |-> listed,
        legal |-> legal_owner_flags(roster, listed),
        missing |-> unmatched_owners(roster \cup asked[q].candidates, listed)]

get_facility_people(q) ==
    /\ OpenRequest(q) /\ asked[q].op = "tab"
    /\ people' \in HealedPeople(q)
    /\ Closes(q, [asked[q] EXCEPT !.at = "done"] @@ [page |-> TabPage(q)])
    /\ UNCHANGED <<links, index, owners>>

-----------------------------------------------------------------------------
(* Add, ingest, edit, unlink                                                  *)

Existing(b) ==
    {p \in DOMAIN people :
       b.email # None /\ people[p].email = b.email /\ Fold[people[p].name] = Fold[b.name]}

\* The SELECT of upsert_person_and_link_to_facility (op "add") and of
\* link_person_to_facility (op "ingest"); of several rows, any.
FindPerson(q, op, f, b, role, source) ==
    /\ \E p \in IF Existing(b) = {} THEN {0} ELSE Existing(b) :
         Opens(q, [op |-> op, at |-> "open", overlapped |-> FALSE, facility |-> f, person |-> p,
                   body |-> b, role |-> role, source |-> source])
    /\ UNCHANGED <<people, links, index, owners>>
add_facility_person(q, f, b, role, source) == FindPerson(q, "add", f, b, role, source)
IngestPerson(q, f, b, role) == FindPerson(q, "ingest", f, b, role, "process_street")

NewId == Cardinality(DOMAIN people) + 1
Target(q) == IF asked[q].person = 0 THEN NewId ELSE asked[q].person
InsertedOr(q, kept) ==
    IF asked[q].person = 0 THEN people @@ (NewId :> asked[q].body) ELSE kept
Wanted(q) == Link(asked[q].facility, Target(q), asked[q].role, asked[q].source)
Linked(l) == \E k \in links : LinkKey(k) = LinkKey(l)

\* ON CONFLICT DO NOTHING: a link that exists keeps its source.
upsert_person_and_link_to_facility(q) ==
    /\ OpenRequest(q) /\ asked[q].op = "add"
    /\ asked[q].person # 0 \/ NewId <= MaxPeople
    /\ people' = InsertedOr(q, [p \in DOMAIN people |->
                   IF p = asked[q].person THEN [people[p] EXCEPT !.phone = asked[q].body.phone]
                   ELSE people[p]])
    /\ links' = IF Linked(Wanted(q)) THEN links ELSE links \cup {Wanted(q)}
    /\ Closes(q, Done)
    /\ UNCHANGED <<index, owners>>

\* At ingest a person who is there is linked as they are.
link_person_to_facility(q) ==
    /\ OpenRequest(q) /\ asked[q].op = "ingest"
    /\ asked[q].person # 0 \/ NewId <= MaxPeople
    /\ people' = InsertedOr(q, people)
    /\ links' = IF Linked(Wanted(q)) THEN links ELSE links \cup {Wanted(q)}
    /\ Closes(q, Done)
    /\ UNCHANGED <<index, owners>>

\* The source of the link is read; no such link is not_found, a stutter.
edit_facility_person(q, l, b, role, protect) ==
    /\ l \in links
    /\ Opens(q, [op |-> "edit", at |-> "open", overlapped |-> FALSE, link |-> l, body |-> b,
                 role |-> role,
                 source |-> IF l.source = "manual" \/ protect THEN "manual" ELSE "process_street"])
    /\ UNCHANGED <<people, links, index, owners>>

\* The person, then the link: UPDATE under the same role, else DELETE and an
\* INSERT that sets the source of a link already there.
edit_person_and_facility_link(q) ==
    LET l == asked[q].link
        moved == [l EXCEPT !.role = asked[q].role, !.source = asked[q].source]
    IN /\ OpenRequest(q) /\ asked[q].op = "edit"
       /\ people' = [people EXCEPT ![l.person] = asked[q].body]
       /\ links' = IF asked[q].role = l.role
                   THEN {IF LinkKey(k) = LinkKey(l) THEN moved ELSE k : k \in links}
                   ELSE {k \in links : LinkKey(k) \notin {LinkKey(l), LinkKey(moved)}} \cup {moved}
       /\ Closes(q, Done)
       /\ UNCHANGED <<index, owners>>

unlink_person_from_facility(q, f, p, role) ==
    /\ Arrives(q)
    /\ links' = {k \in links : LinkKey(k) # <<f, p, role>>}
    /\ Closes(q, Done)
    /\ UNCHANGED <<people, index, owners>>

\* The nightly sync writes what the intake run of a facility says now.
IndexSynced(f) ==
    /\ \E x \in Indexes : index' = [index EXCEPT ![f] = x]
    /\ UNCHANGED <<people, links, owners, asked>>

-----------------------------------------------------------------------------
\* What the tables hold when the requests start to arrive.
PeopleInit(stored, linked, run, parties) ==
    /\ people = stored /\ links = linked /\ index = run /\ owners = parties
    /\ asked = [q \in Requests |-> NotAsked]

PeopleStep(q) ==
    \/ get_facility_people(q) \/ upsert_person_and_link_to_facility(q)
    \/ link_person_to_facility(q) \/ edit_person_and_facility_link(q)

-----------------------------------------------------------------------------
(* Properties                                                                 *)

Pages == {asked[q].page : q \in {r \in Requests : asked[r].op = "tab" /\ asked[r].at = "done"}}
Identity(r) == <<Fold[r.name], r.email>>

\* No owner of the Merchant Account form is credited with two people: the tab
\* marks at most as many people as legal owners as the form lists, whatever
\* inboxes and names they share.
NoMoreLegalOwnersThanListed ==
    \A g \in Pages : Cardinality({Identity(r) : r \in g.legal}) <= Cardinality(g.listed)

=============================================================================
