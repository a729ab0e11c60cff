--------------------------- MODULE MCClientPages ----------------------------
(* Small instances of the client pages: a facility's policies and people,    *)
(* the company list with its filters, the search that finds a client to add, *)
(* and the matching of facilities and tasks with ClickUp's.  A behaviour is  *)
(* played in one part; the other pages stay as they were opened.             *)
EXTENDS FacilityPolicies, FacilityPeople, ClientDirectory, ClientSearch, ClickUpMatching

CONSTANTS s1, s2, f1, f2, MCParts

VARIABLE part

-----------------------------------------------------------------------------
(* Policies: two saves of the same or of different categories.               *)

MCSaves == {s1, s2}
Fee(t) == [fee_type |-> t]
Tax(t, n) == [tax_type |-> t, tax_name |-> n]
Entry(c, t, g) == [category |-> c, trigger_type |-> t, trigger |-> g]
Tier(n, c) == [number |-> n, cost |-> c]
MCForms ==
  [fees |-> {<<>>, <<Fee("cleaning"), Fee("other")>>, <<Fee("parking")>>},
   taxes |-> {<<Tax("fixed", "sales"), Tax("percentage", "rental")>>, <<Tax("fixed", "city")>>},
   delinquency |->
     {<<Entry("lien", "step_category", "pre_lien"), Entry("pre_lien", "paid_through_date", "none")>>,
      <<Entry("lien", "step_category", "lien")>>},
   coverage |-> {[tiers |-> <<Tier(1, 10), Tier(2, 20)>>, commission |-> <<5>>],
                 [tiers |-> <<Tier(1, 25), Tier(2, 15)>>, commission |-> <<6>>],
                 [tiers |-> <<Tier(2, 15), Tier(1, 25)>>, commission |-> <<>>]},
   specials |-> {<<1>>, <<2>>}]

PolicyParts == {"fees", "taxes", "coverage", "specials"}

PoliciesNext ==
  \/ \E q \in Saves :
       \/ \E b \in Forms["fees"] : part = "fees" /\ update_fees(q, b)
       \/ \E b \in Forms["taxes"] : part = "taxes" /\ update_taxes(q, b)
       \/ \E b \in Forms["delinquency"] : part = "taxes" /\ update_delinquency(q, b)
       \/ \E b \in Forms["coverage"] : part = "coverage" /\ update_coverage(q, b)
       \/ \E b \in Forms["specials"] : part = "specials" /\ update_specials(q, b)
       \/ PoliciesStep(q)
  \/ part = "specials" /\ ChangePreviousPms

-----------------------------------------------------------------------------
(* People: "edit" has three requests on one facility's roster, "tab" two     *)
(* openings of the tab over what the run says, "sister" a second facility    *)
(* that shares a person.                                                     *)

MCFold == [n \in {"Barb", "barb", "Chad"} |-> IF n = "Chad" THEN "chad" ELSE "barb"]
MCFacilities == {f1, f2}
Person(n, e, t) == [name |-> n, email |-> e, phone |-> t]
Barb == Person("Barb", "family", 1)
Chad == Person("Chad", "family", 2)
MCBodies == {Barb, Chad, Person("barb", None, 1)}
InRun(n, t, r) == [name |-> n, email |-> "family", phone |-> t, role |-> r]
MCIndexes ==
  {{}, {InRun("Chad", 1, "owner")}, {InRun("barb", 2, "owner"), InRun("Chad", 1, "manager")}}
MCOwnerLists ==
  {{}, {Barb}, {Barb, Person("Chad", None, 1)},
   {Person("Chad", "family", 3), Person(None, "family", 2)}}

Synced(f, p, r) == Link(f, p, r, "process_street")
Manual(f, p, r) == Link(f, p, r, "manual")
OnlyAt(f, v) == [g \in Facilities |-> IF g = f THEN v ELSE {}]

PeopleParts == {"edit", "tab", "sister"}

MCPeopleInit ==
  \/ /\ part = "tab"
     /\ \E i \in Indexes, w \in OwnerLists,
           ls \in SUBSET {Synced(f1, 1, "owner"), Synced(f1, 1, "manager"), Synced(f1, 2, "owner")} :
          PeopleInit(<<Barb, Chad>>, ls, OnlyAt(f1, i), OnlyAt(f1, w))
  \/ /\ part = "sister"
     /\ \E i \in Indexes, w \in OwnerLists,
           ls \in SUBSET {Synced(f2, 1, "owner"), Manual(f1, 1, "owner")} :
          PeopleInit(<<Barb>>, ls, OnlyAt(f2, i), OnlyAt(f1, w))
  \/ /\ part = "edit"
     /\ \E ls \in SUBSET {Synced(f1, 1, "owner"), Manual(f1, 1, "manager")} :
          PeopleInit(<<Barb>>, ls, OnlyAt(f1, {}), OnlyAt(f1, {}))
  \/ /\ part \notin PeopleParts
     /\ PeopleInit(<<Barb>>, {}, OnlyAt(f1, {}), OnlyAt(f1, {}))

PeopleNext ==
  \/ \E q \in (IF part = "edit" THEN Requests ELSE {1, 2}) :
       \/ \E f \in Facilities : part # "edit" /\ OpenTab(q, f)
       \/ \E b \in Bodies, s \in Sources : part = "edit" /\ add_facility_person(q, f1, b, "owner", s)
       \/ \E b \in Bodies, r \in QmsRoles : part = "sister" /\ IngestPerson(q, f2, b, r)
       \/ \E l \in links, b \in {Barb, Chad}, r \in QmsRoles, t \in BOOLEAN :
            part = "edit" /\ edit_facility_person(q, l, b, r, t)
       \/ \E p \in DOMAIN people, r \in QmsRoles :
            part = "edit" /\ unlink_person_from_facility(q, f1, p, r)
       \/ \E b \in Bodies : part = "tab" /\ add_facility_person(q, f1, b, "owner", "manual")
       \/ \E b \in Bodies, l \in links : part # "edit" /\ edit_facility_person(q, l, b, l.role, TRUE)
       \/ PeopleStep(q)
  \/ part = "tab" /\ IndexSynced(f1)

-----------------------------------------------------------------------------
(* The list: two companies, one of them archived, and three facilities.      *)

MCOwner == [f \in {"f1", "f2", "f3"} |-> IF f = "f3" THEN "c2" ELSE "c1"]
MCRaw == [state : {"ca"}, form : {"name", "abbr", "other"}] \cup {[state |-> "bc", form |-> "name"]}
\* The archived company's facility starts in California; it may be edited.
InCalifornia == [f \in Sites |-> [state |-> [state |-> "ca", form |-> "name"], pms |-> "p"]]
MCSites ==
  {[InCalifornia EXCEPT !["f1"] = a, !["f2"] = b] : a, b \in [state : RawStates, pms : Systems]}

DirectoryNext == listing.current \cup listing.archived = {} /\ DirectoryStep

-----------------------------------------------------------------------------
(* The search: three Intake runs and three Merchant Account runs.            *)

T1 == <<"affordable", "katy", "beau", "ryan">>
T2 == <<"affordable", "copperfield", "beau", "ryan">>
T3 == <<"main", "street">>
MCTitles == {T1, T2, T3}
MCFirst == {[r \in {"r1", "r2", "r3"} |-> CASE r = "r1" -> T1 [] r = "r2" -> T2 [] r = "r3" -> T3]}
MCSynced == {{"r1", "r2", "r3"}, {"r2", "r3"}, {}}
MCLong == {"affordable", "copperfield", "street"}
MCQueries == {<<"affordable">>, <<"katy">>}
Acc(nick, dba, addr, sole, same, legal, owner) ==
  [nickname |-> nick, dba |-> dba, address |-> addr, sole |-> sole,
   same_as_dba |-> same, legal |-> legal, owner |-> owner]
Ave == <<"9", "main", "avenue">>
Av == <<"9", "main", "av">>
St == <<"9", "main", "st">>
MCAccounts ==
  {[m1 |-> Acc(<<"beau", "ryan">>, <<"main", "street">>, Av, TRUE, FALSE, NoValue, "beau"),
    m2 |-> Acc(<<"copperfield">>, NoValue, Ave, FALSE, FALSE, "co", NoValue),
    m3 |-> Acc(<<"main">>, <<"affordable">>, St, FALSE, TRUE, NoValue, NoValue)],
   [m1 |-> Acc(<<"main">>, <<"main", "street">>, Ave, FALSE, TRUE, NoValue, NoValue),
    m2 |-> Acc(<<"katy", "beau">>, <<"copperfield">>, Ave, TRUE, FALSE, NoValue, NoValue),
    m3 |-> NoValue]}
Contact(r, n, k) == [run |-> r, name |-> n, rank |-> k]
MCPersons ==
  {{}, {Contact("r1", <<"katy", "lindley">>, 1), Contact("r1", <<"amy">>, 2),
        Contact("r2", <<"katy", "reed">>, 1)}}

SearchParts == {"search", "preview"}

SearchNext ==
  /\ preview.state = "none"
  /\ \/ search.state # "answered" /\ SearchStep
     \/ search.state = "answered" /\ part = "preview" /\ \E r \in Runs : Sync(r)
     \/ part = "search" /\ TabStep
     \/ part = "preview" /\ PreviewStep
  /\ part = "preview" => \A r \in Runs \ {"r1"} : live'[r] = live[r]

-----------------------------------------------------------------------------
(* ClickUp: three facilities and three lists, two tasks to pair with three,  *)
(* and the task names a duplicate check may have.                            *)

Task(name, parent, phase, scope, order) ==
  [name |-> name, parent |-> parent, phase |-> phase, scope |-> scope, order |-> order]
Pool ==
  {Task({"add", "fees"}, {"set", "up"}, "setup", "facility", 1),
   Task({"add", "fee", "2"}, {"other"}, "setup", "facility", 2),
   Task({"add", "users"}, Nothing, "setup", "corporate", 3),
   Task({"add", "fee", "users"}, {"set"}, "setup", "facility", 4),
   Task({"add", "fees"}, {"set", "up"}, "migration", "facility", 1),
   Task({"add", "fees"}, {"set"}, Nothing, "facility", 1)}
MCSources == {<<a, b>> : a, b \in Pool}
MCTargets == {<<a, b>> : a, b \in Pool}
  \cup {<<a, b, c>> : a \in {p \in Pool : p.phase = "setup" /\ p.scope = "facility"}, b, c \in Pool}
MCSteps ==
  {[ordinal |-> 1, phrases |-> {{"complete", "duplicate", "tenant", "corrections"},
                                {"perform", "duplicate", "check"},
                                {"perform", "1st", "duplicate", "check"}}],
   [ordinal |-> 2, phrases |-> {{"perform", "2nd", "duplicate", "check"},
                                {"tenant", "list", "duplicates"}}]}
TaskWords ==
  {"perform", "1st", "second", "third", "duplicate", "duplicates", "check", "tenant", "list",
   "corrections"}
MCChecks ==
  {{[name |-> n]} : n \in {s \in SUBSET TaskWords :
     Cardinality(s) \in 1 .. 5 /\ Cardinality(s \cap {"1st", "second", "third"}) <= 1}}

\* Lists are numbered by how well they match the first facility.
ListsInOrder ==
  scores[1][1] >= scores[1][2] /\ scores[1][2] >= scores[1][3]

NothingToMatch ==
  /\ scores = [f \in Places |-> [l \in Lists |-> 0]]
  /\ served = Places /\ picked = [f \in Places |-> Nothing]
  /\ copying = NoCopying /\ wanted = NoAsk

-----------------------------------------------------------------------------
MCInit ==
  /\ part \in MCParts
  /\ PoliciesInit
  /\ part \in PolicyParts \/ (~qsx /\ ~policyRow)
  /\ MCPeopleInit
  /\ DirectoryInit(IF part = "listing" THEN MCSites ELSE {InCalifornia})
  /\ retired = {"c2"}
  /\ SearchInit
  /\ part # "search" => persons = {}
  /\ part \in SearchParts \/ (accounts["m3"] = NoValue /\ indexed["r1"] # NoValue)
  /\ IF part = "matching" THEN MatchingInit /\ ListsInOrder ELSE NothingToMatch

MCNext ==
  /\ UNCHANGED part
  /\ \/ part \in PolicyParts /\ PoliciesNext
        /\ UNCHANGED <<peopleVars, directoryVars, searchVars, matchingVars>>
     \/ part \in PeopleParts /\ PeopleNext
        /\ UNCHANGED <<policyVars, directoryVars, searchVars, matchingVars>>
     \/ part = "listing" /\ DirectoryNext
        /\ UNCHANGED <<policyVars, peopleVars, searchVars, matchingVars>>
     \/ part \in SearchParts /\ SearchNext
        /\ UNCHANGED <<policyVars, peopleVars, directoryVars, matchingVars>>
     \/ part = "matching" /\ MatchingStep
        /\ UNCHANGED <<policyVars, peopleVars, directoryVars, searchVars>>

MCSpec ==
  MCInit /\ [][MCNext]_<<part, policyVars, peopleVars, directoryVars, searchVars, matchingVars>>
=============================================================================
