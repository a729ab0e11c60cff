----------------------------- MODULE MCGroupPrep -----------------------------
(* Group Prep instances for TLC.                                           *)
EXTENDS GroupPrep, TLC

\* u0, u1, u2: unit exports of one vendor.  site: a vendor export whose transform
\* adds a derived column (siteX).  grp: a master group file.
\* list: a group list whose headers discovery does not recognise.
MCShape(d) ==
    CASE d \in {"u0", "u1", "u2"} -> "unit"
      [] d = "site" -> "site"
      [] d = "siteX" -> "siteX"
      [] d = "g1" -> "group"
      [] d = "list" -> "list"

MCShapes == {"unit", "site", "siteX", "group", "list"}
MCShapeOf == [d \in Docs |-> MCShape(d)]

Row(line, number, group) == [line |-> line, number |-> number, group |-> group]

\* u0 has one unit, u1 two units in two groups, u2 the same number on two rows.
MCRows(d) ==
    CASE d = "u1" -> {Row(1, "A", "x"), Row(2, "B", "y")}
      [] d = "u2" -> {Row(1, "A", "x"), Row(2, "A", "y")}
      [] d \in {"u0", "site", "siteX"} -> {Row(1, "A", "x")}
      [] OTHER -> {}
MCRowsOf ==
    [d \in Docs |-> {r \in MCRows(d) : r.number \in Numbers /\ r.group \in Groups}]
MCTransform == [d \in Docs |-> IF d = "site" THEN "siteX" ELSE d]

Vendors == {"unit", "site", "siteX"}
\* The registry is edited while the session is open.
MCRegistries == {Vendors, {"site", "siteX"}}

\* Validation objects to units of group y, unless the group is acknowledged.
MCReady(inputs) ==
    \A f \in DOMAIN inputs.rows : \A r \in inputs.rows[f] :
        r.group = "y" => "y" \in inputs.acknowledged

RequestSymmetry == Permutations(Requests)

-----------------------------------------------------------------------------
\* A behaviour is played in one scenario.  "edits": one file of units, edits
\* racing two requests.  "files": two files of every kind, the registry
\* edited meanwhile, one unit and one request.
CONSTANT Scenarios

VARIABLE scenario

InScenario ==
    \/ /\ scenario = "edits"
       /\ documents[2] = None /\ documents[1] \in {"u1", "u2", None}
       /\ vendors \in {{}, Vendors}
    \/ /\ scenario = "files"
       /\ \A f \in Files : documents[f] \notin {"u1", "u2"}
       /\ \A u \in Units : corrections[u].group # "y" /\ corrections[u].number # "B"
       /\ "y" \notin excluded \cup acknowledged
       /\ \A q, r \in Requests : requests[q] # Idle /\ requests[r] # Idle => q = r

MCInit == Init /\ scenario \in Scenarios /\ InScenario
MCNext == UNCHANGED scenario /\ Next /\ InScenario'
MCSpec == MCInit /\ [][MCNext]_<<vars, scenario>>
=============================================================================
