---------------------------- MODULE ClientSearch ----------------------------
(***************************************************************************)
(* Finding a client that is not imported yet, and the account offered for  *)
(* it: the search box (api/clients_search), the preview of the picked rows *)
(* (api/clients_preview.rs) and the Elavon tab of an imported facility     *)
(* (api/clients_elavon/get.rs).  All three pair an Intake run with a       *)
(* Merchant Account run through clients/merchant_account_correlation.rs,   *)
(* which looks for an account's nickname or DBA inside the run's title.    *)
(* The search sees the live titles of Process Street; the keyword's reach  *)
(* is judged on the local index, which trails them by one sync.            *)
(*                                                                         *)
(* A title, a name, a query and an address are sequences of lower-case     *)
(* words; "contains" is a contiguous run of words where the code compares  *)
(* characters.                                                             *)
(***************************************************************************)
EXTENDS Naturals, FiniteSets, Sequences

CONSTANTS Runs,         \* Intake runs
          MaRuns,       \* Merchant Account runs
          Titles,       \* titles an Intake run may have
          FirstTitles,  \* the titles the runs may start with: functions on Runs
          FirstSynced,  \* the sets of runs that may be in the index at first
          LongWords,    \* words of six characters or more
          Queries,      \* what a user may type
          AccountInfos, \* possible contents of the Merchant Account index
          PersonSets,   \* possible contents of ps_person_index (intake)
          PersonLimit,  \* LIMIT of the person query (50 in the code)
          MaxRenames,   \* bound on title changes in Process Street
          MaxFailures,  \* bound on failed form reads of one request
          NoValue       \* an absent value (None / NULL)

ASSUME SearchConstants ==
    /\ PersonLimit \in Nat \ {0}
    /\ MaxRenames \in Nat
    /\ MaxFailures \in Nat
    /\ NoValue \notin MaRuns

VARIABLES live,      \* [Runs -> Titles], Process Street's own titles
          indexed,   \* [Runs -> Titles \cup {NoValue}], clients.ps_sync_state
          renames,   \* title changes so far
          accounts,  \* [MaRuns -> info], the synced Merchant Account runs
          persons,   \* clients.ps_person_index, workflow 'intake'
          search,    \* the search page
          preview,   \* the confirmation screen
          tab        \* the Elavon tab
searchVars == <<live, indexed, renames, accounts, persons, search, preview, tab>>

IsWithin(text, words) ==
    \E i \in 0 .. Len(text) - Len(words) :
        SubSeq(text, i + 1, i + Len(words)) = words

-----------------------------------------------------------------------------
(* merchant_account_correlation.rs                                         *)

STREET_TYPE_ALIASES == [ave |-> {"av", "aven", "avenue", "avenu"},
                        st  |-> {"str", "street"},
                        hwy |-> {"highway"}]

normalize_address(address) ==
    [i \in 1 .. Len(address) |->
        IF \E c \in DOMAIN STREET_TYPE_ALIASES : address[i] \in STREET_TYPE_ALIASES[c]
        THEN CHOOSE c \in DOMAIN STREET_TYPE_ALIASES :
                 address[i] \in STREET_TYPE_ALIASES[c]
        ELSE address[i]]

addresses_fuzzy_match(a, b) == normalize_address(a) = normalize_address(b)

is_specific_enough(keyword) ==
    Len(keyword) >= 2 \/ \E i \in 1 .. Len(keyword) : keyword[i] \in LongWords

\* The nickname in the title's parentheses and the Business_DBA answer.
candidate_keywords(info) ==
    {k \in {info.nickname, info.dba} \ {NoValue} : is_specific_enough(k)}

merchant_account_run_titles == {m \in MaRuns : accounts[m] # NoValue}

all_intake_run_titles ==
    {[run |-> r, title |-> indexed[r]] : r \in {x \in Runs : indexed[x] # NoValue}}

correlate_by_title(intake_runs, known, universe) ==
    LET sisters == IF universe = {} THEN intake_runs ELSE universe
        Named(k) == Cardinality({i \in sisters : IsWithin(i.title, k)})
        Paired(i) == {m \in known : \E k \in candidate_keywords(accounts[m]) :
                         Named(k) <= 1 /\ IsWithin(i.title, k)}
    IN  [r \in {i.run : i \in {x \in intake_runs : Paired(x) # {}}} |->
            UNION {Paired(i) : i \in {x \in intake_runs : x.run = r}}]

Correlated(correlations, r) ==
    IF r \in DOMAIN correlations THEN correlations[r] ELSE {}

-----------------------------------------------------------------------------
(* company_naming.rs: the legal name an account suggests.  A name is a     *)
(* tuple of the kind of name and what it is built from.                    *)

primary_owner_name(info) == info.owner

resolve_company_name(info) ==
    LET owner == primary_owner_name(info) IN
    IF info.sole /\ owner # NoValue /\ info.dba # NoValue
    THEN <<"dba of", owner, info.dba>>
    ELSE IF info.same_as_dba /\ info.dba # NoValue THEN <<"dba", info.dba>>
    ELSE IF info.legal # NoValue THEN <<"legal", info.legal>> ELSE NoValue

-----------------------------------------------------------------------------
(* clients_search                                                          *)

\* The people whose name holds the query: the first PersonLimit of them by
\* name.  Equal names come in any order, so the cut is any set of that size
\* that leaves out nobody smaller.
PeopleFound(q) ==
    LET hits == {p \in persons : IsWithin(p.name, q)}
    IN  {cut \in SUBSET hits :
            /\ Cardinality(cut) = IF Cardinality(hits) < PersonLimit
                                  THEN Cardinality(hits) ELSE PersonLimit
            /\ \A p \in cut, o \in hits \ cut : p.rank <= o.rank}

derive_facilities_from_person_matches(people, found) ==
    {p.run : p \in people} \ {f.run : f \in found}

\* The runs pulled in through a person are shown under their indexed title.
FromPeople(derived) == {[run |-> r, title |-> indexed[r]] : r \in derived}

\* Everyone indexed under a facility that was found, next to the direct hits.
facility_person_matches(people, runs) ==
    people \cup {p \in persons : p.run \in runs}

\* What the live read of an account's form shows; nothing if it failed.
display_correlated(m, failed) ==
    IF m \in failed THEN [name |-> NoValue, address |-> NoValue]
    ELSE [name |-> resolve_company_name(accounts[m]), address |-> accounts[m].address]

\* known: the pairs <<account, address>> of the candidates that have one.
\* Comparing neighbours compares all of them: the match is an equality.
addresses_agree(known) ==
    IF Cardinality(known) < 2 THEN "unknown"
    ELSE IF \A a, b \in known : addresses_fuzzy_match(a[2], b[2]) THEN "yes" ELSE "no"

facility_matches_for(hit, via, mas, failed) ==
    LET row(m, dup, agree) ==
            [run |-> hit.run, title |-> hit.title, via |-> via, account |-> m,
             duplicate |-> dup, agree |-> agree,
             company |-> IF m = NoValue THEN NoValue ELSE display_correlated(m, failed).name]
        known == {<<m, display_correlated(m, failed).address>> :
                     m \in {x \in mas : display_correlated(x, failed).address # NoValue}}
    IN  IF Cardinality(mas) <= 1
        THEN {row(IF mas = {} THEN NoValue ELSE CHOOSE m \in mas : TRUE, FALSE, "unknown")}
        ELSE {row(m, TRUE, addresses_agree(known)) : m \in mas}

\* The two live searches, which run before the database is read.
search_clients(q) ==
    /\ search.state = "idle"
    /\ search' = [search EXCEPT !.state = "found", !.q = q,
                     !.found = {[run |-> r, title |-> live[r]] :
                                   r \in {x \in Runs : IsWithin(live[x], q)}}]
    /\ UNCHANGED <<live, indexed, renames, accounts, persons, preview, tab>>

\* The local lookups in one transaction, then the display reads (any of
\* which may fail) and the answer.
load(people, failed) ==
    LET derived == derive_facilities_from_person_matches(people, search.found)
        titles == search.found \cup FromPeople(derived)
        correlations == correlate_by_title(titles, merchant_account_run_titles,
                                           all_intake_run_titles)
        rows(hits, via) == UNION {facility_matches_for(h, via,
                                      Correlated(correlations, h.run), failed) : h \in hits}
    IN  /\ search.state = "found"
        /\ people \in PeopleFound(search.q)
        /\ search' = [search EXCEPT !.state = "answered", !.index = indexed, !.truth = live,
                         !.rows = rows(search.found, "name")
                                  \cup rows(FromPeople(derived), "person"),
                         !.people = facility_person_matches(people, {t.run : t \in titles})]
        /\ UNCHANGED <<live, indexed, renames, accounts, persons, preview, tab>>

-----------------------------------------------------------------------------
(* clients_preview                                                         *)

\* The last choice sent for a run wins over whatever was inferred for it.
apply_explicit_merchant_account_choices(auto, runs) ==
    LET chosen == {i \in DOMAIN runs : runs[i].choice # NoValue}
        Last(r) == CHOOSE i \in chosen : runs[i].run = r
                       /\ \A j \in chosen : runs[j].run = r => j <= i
    IN  [r \in DOMAIN auto \cup {runs[i].run : i \in chosen} |->
            IF \E i \in chosen : runs[i].run = r THEN runs[Last(r)].choice ELSE auto[r]]

apply_suggested_legal_name(intake, r, mas, names) ==
    IF r \in DOMAIN mas /\ names[mas[r]] # NoValue THEN names[mas[r]] ELSE intake

\* A picked row is sent with the title it was shown under and, when it is one
\* of several candidates, with the candidate it stands for.
PreviewRun(row) == [run |-> row.run, title |-> row.title,
                    choice |-> IF row.duplicate THEN row.account ELSE NoValue]

\* The Intake form's own legal name: every other run leaves it blank.
IntakeName(r) == <<"intake", r>>

\* A failed Intake read refuses the whole preview and is left out; a failed
\* account read costs its suggestion.  A run sent twice has nothing left to
\* map the second time.
preview_clients(picked, failed) ==
    LET runs == [i \in DOMAIN picked |-> PreviewRun(picked[i])]
        titles == {[run |-> runs[i].run, title |-> runs[i].title] : i \in DOMAIN runs}
        correlations == correlate_by_title(titles, merchant_account_run_titles,
                                           all_intake_run_titles)
        sure == {r \in DOMAIN correlations : Cardinality(correlations[r]) = 1}
        auto == [r \in sure |-> CHOOSE m \in correlations[r] : TRUE]
        mas == apply_explicit_merchant_account_choices(auto, runs)
        names == [m \in MaRuns |-> display_correlated(m, failed).name]
        shown(i) == [run |-> runs[i].run,
                     account |-> IF runs[i].run \in DOMAIN mas
                                 THEN mas[runs[i].run] ELSE NoValue,
                     name |-> apply_suggested_legal_name(IntakeName(runs[i].run),
                                                         runs[i].run, mas, names)]
        twice == \E i, j \in DOMAIN runs : i # j /\ runs[i].run = runs[j].run
    IN  /\ search.state = "answered"
        /\ preview.state = "none"
        /\ preview' = [state |-> IF twice THEN "panicked" ELSE "shown",
                       picked |-> picked, index |-> indexed,
                       rows |-> IF twice THEN <<>> ELSE [i \in DOMAIN runs |-> shown(i)]]
        /\ UNCHANGED <<live, indexed, renames, accounts, persons, search, tab>>

-----------------------------------------------------------------------------
(* clients_elavon/get.rs, for an imported facility with no account linked  *)

\* Mutant: the tab looks at its own run only.
tab_without_sisters(r) ==
    /\ tab' = [run |-> r, index |-> indexed,
               offered |-> IF indexed[r] = NoValue THEN {}
                           ELSE Correlated(correlate_by_title(
                                    {[run |-> r, title |-> indexed[r]]},
                                    merchant_account_run_titles, {}), r)]
    /\ UNCHANGED <<live, indexed, renames, accounts, persons, search, preview>>

get_facility_elavon(r) ==
    /\ tab' = [run |-> r, index |-> indexed,
               offered |-> IF indexed[r] = NoValue THEN {}
                           ELSE Correlated(correlate_by_title(
                                    {[run |-> r, title |-> indexed[r]]},
                                    merchant_account_run_titles,
                                    all_intake_run_titles), r)]
    /\ UNCHANGED <<live, indexed, renames, accounts, persons, search, preview>>

-----------------------------------------------------------------------------
(* Process Street and the background sync                                  *)

\* Somebody renames a run in Process Street.
Rename(r, t) ==
    /\ renames < MaxRenames
    /\ t # live[r]
    /\ live' = [live EXCEPT ![r] = t]
    /\ renames' = renames + 1
    /\ UNCHANGED <<indexed, accounts, persons, search, preview, tab>>

\* The sync writes the run's current title into the index (module ClientSync).
Sync(r) ==
    /\ indexed[r] # live[r]
    /\ indexed' = [indexed EXCEPT ![r] = live[r]]
    /\ UNCHANGED <<live, renames, accounts, persons, search, preview, tab>>

\* A person is indexed with the run's title, so an indexed person's run is in
\* the index.
SearchInit ==
    /\ live \in FirstTitles
    /\ \E synced \in FirstSynced :
          indexed = [r \in Runs |-> IF r \in synced THEN live[r] ELSE NoValue]
    /\ accounts \in AccountInfos
    /\ persons \in PersonSets
    /\ \A p \in persons : indexed[p.run] # NoValue
    /\ renames = 0
    /\ search = [state |-> "idle", q |-> <<>>, found |-> {}, rows |-> {},
                 people |-> {}, index |-> indexed, truth |-> live]
    /\ preview = [state |-> "none", picked |-> <<>>, index |-> indexed, rows |-> <<>>]
    /\ tab = [run |-> NoValue, index |-> indexed, offered |-> {}]

Failures == {f \in SUBSET MaRuns : Cardinality(f) <= MaxFailures}

Picks == {<<a>> : a \in search.rows} \cup {<<a, b>> : a, b \in search.rows}

PreviewStep ==
    \E picked \in Picks, failed \in Failures :
        /\ Len(picked) = 2 => picked[1] # picked[2]
        /\ preview_clients(picked, failed)

TabStep == \E r \in Runs : tab.run = NoValue /\ get_facility_elavon(r)

SearchStep ==
    \/ \E q \in Queries : search_clients(q)
    \/ \E people \in SUBSET persons, failed \in Failures : load(people, failed)
    \/ \E r \in Runs, t \in Titles : Rename(r, t)
    \/ \E r \in Runs : Sync(r)

-----------------------------------------------------------------------------
(* Properties                                                              *)

OffersOf(rows, r) == {row.account : row \in {x \in rows : x.run = r}} \ {NoValue}

\* The Elavon tab offers a facility exactly the accounts the search offered
\* it, when both read the same index and the index has the title the search
\* showed.
TabAgreesWithSearch ==
    LET rows == {row \in search.rows : row.run = tab.run}
    IN  /\ search.state = "answered" /\ tab.run # NoValue /\ tab.index = search.index
        /\ \A row \in rows : row.title = tab.index[tab.run]
        /\ rows # {}
        => tab.offered = OffersOf(search.rows, tab.run)

=============================================================================
