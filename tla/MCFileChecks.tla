--------------------------- MODULE MCFileChecks -------------------------------
(* Small instances of what the two tools say of uploaded files: the dedup     *)
(* tool choosing and joining them, its report and its export, the comparison  *)
(* of two names, and Group Prep's checks of a unit file.                      *)
(* A behaviour is played in one part.                                        *)
EXTENDS TenantReport, TenantFiles, NameMatching, UnitChecks, TLC

CONSTANTS MCParts, MaxLetters

-----------------------------------------------------------------------------
(* Report: records of up to four tenants.                                    *)

Row(name, id, values) ==
  values @@ [first_last |-> name, tenant_id |-> id, fullName |-> "", phone |-> "", email |-> "",
             street |-> "", city |-> "", altName |-> "", altPhone |-> "", altStreet |-> "",
             altCity |-> "", company |-> ""]

MCCanonical ==
  [v \in {"Ann", "ann", "anne", "bob", "cy", "dee", "555 1", "5551", "5552", "911", "n/a",
           "a@x", "b@x", "Elm St", "elm"} |->
     CASE v = "Ann" -> "ann" [] v = "555 1" -> "5551" [] v = "Elm St" -> "elm" [] OTHER -> v]

RowOrder ==
  <<Row("Ann", "1", [phone |-> "555 1"]),
   Row("ann", "2", [phone |-> "5551", email |-> "n/a"]),
   Row("ann", "6", [phone |-> "5552"]),
   Row("ann", "", [phone |-> "5552", email |-> "a@x"]),
   Row("anne", "3", [email |-> "a@x", street |-> "elm"]),
   Row("bob", "3", [phone |-> "5552", altPhone |-> "5551", street |-> "n/a"]),
   Row("bob", "", [phone |-> "n/a", street |-> "Elm St"]),
   Row("", "", [phone |-> "5552", email |-> "b@x"]),
   Row("", "4", [fullName |-> "ann", email |-> "b@x"]),
   Row("", "", [phone |-> "911"]),
   Row("cy", "", [phone |-> "911", email |-> "b@x", altName |-> "dee"]),
   Row("dee", "5", [altName |-> "dee", email |-> "a@x"])>>

MCRows == Range(RowOrder)
Ascending(n) == {s \in [1 .. n -> DOMAIN RowOrder] : \A i \in 2 .. n : s[i - 1] < s[i]}

MCReportFiles == {s \in [1 .. 3 -> MCRows] : \A i, j \in 1 .. 3 : i # j => s[i] # s[j]}
           \cup {[i \in 1 .. 4 |-> RowOrder[s[i]]] : s \in Ascending(4)}
           \cup [1 .. 2 -> MCRows]

-----------------------------------------------------------------------------
(* Files: two systems, a link by tenant id and a join by unit and name, and  *)
(* folders that mix them.                                                    *)

Format(name, pms, role, priority, signature, mapping) ==
  [name |-> name, pms |-> pms, role |-> role, priority |-> priority, signature |-> signature,
   mapping |-> mapping]

MCFormats ==
  <<Format(11, 1, "join", 0, {"tid", "unit"}, [TenantId |-> "tid", UnitNumber |-> "unit"]),
    Format(12, 1, "primary", 2, {"tid", "nm"},
           [TenantId |-> "tid", UnitNumber |-> "tid", FirtLast |-> "nm", Email |-> "em"]),
    Format(13, 1, "supporting", 0, {"contact"}, [FirtLast |-> "contact"]),
    Format(14, 2, "join", 0, {"wu", "wn", "we"},
           [UnitNumber |-> "wu", FirtLast |-> "wn", Email |-> "we"]),
    Format(15, 2, "primary", 2, {"wu", "wn", "wp"},
           [UnitNumber |-> "wu", FirtLast |-> "wn", Email |-> "wm"]),
    Format(16, 2, "primary", 1, {"wu", "wn"}, [UnitNumber |-> "wu", FirtLast |-> "wn"])>>

File(name, headers, cells) ==
  [name |-> name, headers |-> headers, unreadable |-> FALSE, rows |-> cells]

Tenant(t, n, e) == [tid |-> t, nm |-> n, em |-> e]
Lease(t, u) == [tid |-> t, unit |-> u]
Mail(u, n, e) == [wu |-> u, wn |-> n, we |-> e]
Lodger(u, n, e) == [wu |-> u, wn |-> n, wp |-> "", wm |-> e]

TenantRowSets ==
  {Tenant("1", "ann", ""), Tenant("1", "ann", "a@x"), Tenant("2", "bob", ""), Tenant("", "cy", "")}
LeaseRowSets == {Lease("1", "A"), Lease("1", "B"), Lease("3", "A"), Lease("1", "")}
MailRows ==
  {Mail("A", "ann", "a@x"), Mail("A", "Ann", "b@x"), Mail("B", "ann", "b@x"), Mail("A", "ann", "")}
MainRowsSet == {Lodger("A", "ann", ""), Lodger("A", "Ann", "c@x"), Lodger("B", "bob", "")}

LinkFolders ==
  {<<File(1, {"tid", "nm", "em"}, t), File(2, {"tid", "unit"}, l)>> :
     t \in UNION {[1 .. n -> TenantRowSets] : n \in 1 .. 3}, l \in [1 .. 2 -> LeaseRowSets]}
MailFolders ==
  {<<File(1, {"wu", "wn", "wp", "wm"}, t), File(2, {"wu", "wn", "we"}, l)>> :
     t \in [1 .. 2 -> MainRowsSet], l \in [1 .. 2 -> MailRows]}

Mixes ==
  {<<"tenants", "mail", "main">>, <<"mail2", "main", "mail">>, <<"alt", "main", "mail">>,
   <<"leases", "tenants", "tenants">>, <<"contact", "tenants", "leases">>,
   <<"other", "leases", "tenants">>, <<"alt", "tenants", "leases">>,
   <<"mail", "contact", "leases">>}
Shape ==
  [leases |-> {"tid", "unit"}, tenants |-> {"tid", "nm", "em"}, contact |-> {"contact"},
   mail |-> {"wu", "wn", "we"}, mail2 |-> {"wu", "wn", "we"},
   main |-> {"wu", "wn", "wp", "wm"}, alt |-> {"wu", "wn"}, other |-> {"tid"}]
ShapeFolders == {[i \in 1 .. 3 |-> File(i, Shape[m[i]], <<>>)] : m \in Mixes}

TheFirstMix == [i \in 1 .. 3 |-> File(i, Shape[<<"tenants", "mail", "main">>[i]], <<>>)]
MCFolders == LinkFolders \cup MailFolders \cup ShapeFolders
MCFold == [n \in {"ann", "Ann", "bob", "cy", ""} |-> IF n = "Ann" THEN "ann" ELSE n]

Joining == folder \in LinkFolders \cup MailFolders

TheWholeFolder ==
  \E s \in {t \in Selections : Len(t) = 2} :
    Begin("create", [n \in DOMAIN s |-> folder[s[n]]])

FilesNext ==
  \/ \E c \in Snapshots : refresh(c) \/ RefreshFails(c)
  \/ /\ ~session.made
     /\ \/ Joining /\ TheWholeFolder
        \/ ~Joining /\ ~offer.made /\ (classify_files \/ classify_dropbox_folder)
        \/ ~Joining /\ offer.made /\ upload
        \/ classify_to_response
        \/ create_session

-----------------------------------------------------------------------------
(* Names of up to MaxLetters letters; 0 is the space.                        *)

MCNames == UNION {[1 .. n -> {0, 1, 2}] : n \in 0 .. MaxLetters}
MCPairs == {<<a, b>> \in MCNames \X MCNames : Len(a) <= Len(b) \/ Len(a) = MaxLetters}

-----------------------------------------------------------------------------
(* Unit files: names that parse, that tried and failed and that never tried; *)
(* cells that agree with them and that do not.                               *)

Sized(how, w, l, words) == [NoGroup EXCEPT !.form = how, !.w = w, !.l = l, !.words = words]
Boat == <<"boat", "drive">>
ClimateBoat    == Sized("dims", "10", "20", <<"climate">> \o Boat)
NonClimateBoat == Sized("dims", "10", "20", <<"non", "climate">> \o Boat)
AccessBoat     == Sized("dims", "10", "20", <<"first floor", "access">> \o Boat)
FirstFloorBoat == Sized("dims", "10", "20", <<"first floor">> \o Boat)
OutsideBoat    == Sized("DIMS", "10", "20", <<"outside">> \o Boat)
Cut            == Sized("cut", "10", "", <<>>)
Office         == Sized("none", "", "", <<"office">>)
Merged         == [Sized("dims", "10", "20", <<>>) EXCEPT !.comma = TRUE, !.area = "P1"]

Unit(n, g, w, l, c, p) ==
  [number |-> n, unitgroup |-> g, width |-> w, length |-> l, climatecontrolled |-> c, locality |-> p]

AllColumns == {"width", "length", "climatecontrolled", "locality"}
OneFile(cols, units, ref) == [files |-> 1 :> [cols |-> cols, rows |-> units], reference |-> ref]
TwoFiles(a, b, ref) ==
  [files |-> 1 :> [cols |-> AllColumns, rows |-> a] @@ 2 :> [cols |-> {"width"}, rows |-> b],
   reference |-> ref]

MCUploads ==
  {OneFile(AllColumns, <<Unit("a", NonClimateBoat, "10", "20.0", "yes", ""),
                         Unit("A", ClimateBoat, "10", "5", "no", "inside")>>, << <<ClimateBoat>> >>),
   OneFile(AllColumns, <<Unit("a", OutsideBoat, "", "20", "", "inside"),
                         Unit("b", NoGroup, "", "", "", "")>>, <<>>),
   OneFile({"width", "length"}, <<Unit("a", AccessBoat, "10", "20", "", ""),
                                  Unit("a", FirstFloorBoat, "10", "0", "", "")>>,
           << <<FirstFloorBoat, AccessBoat>> >>),
   OneFile({"width"}, <<Unit("a", Cut, "10", "", "", ""), Unit("", Office, "", "", "", ""),
                        Unit("", AccessBoat, "0", "", "", "")>>, << <<FirstFloorBoat>> >>),
   OneFile({}, <<Unit("a", Merged, "", "", "", ""), Unit("b", Merged, "", "", "", "")>>, << <<>> >>),
   TwoFiles(<<Unit("a", Office, "", "", "", ""), Unit("b", NonClimateBoat, "10", "20", "no", "")>>,
            <<Unit("a", Office, "10", "", "", ""), Unit("b", Cut, "10", "", "", "")>>,
            << <<Office, ClimateBoat>> >>)}

TheOneUnit == OneFile({}, <<Unit("a", Office, "", "", "", "")>>, <<>>)

MCNumberOf == ("10" :> 10) @@ ("20" :> 20) @@ ("20.0" :> 20) @@ ("5" :> 5) @@ ("0" :> 0)
MCLower == [n \in {"a", "A", "b", ""} |-> IF n = "A" THEN "a" ELSE n]

\* One word more or less among several keeps two remainders alike.
MCScore(r, s) ==
  IF r = s THEN 100
  ELSE IF \E i \in DOMAIN r : RemoveAt(r, i) = s \/ \E j \in DOMAIN s : RemoveAt(s, j) = r
  THEN 85 ELSE IF Range(r) \cap Range(s) # {} THEN 40 ELSE 0

MCNewDimensions == {<<>>, <<"10", "20">>}
MCNewWords == {<<>>, Boat, <<"non", "climate">>}

-----------------------------------------------------------------------------
VARIABLE part

MCInit ==
  /\ part \in MCParts
  /\ ReportInit(IF part = "report" THEN MCReportFiles ELSE {<<RowOrder[1], RowOrder[2]>>})
  /\ FilesInit(IF part = "files" THEN MCFolders ELSE {TheFirstMix})
  /\ NameInit(IF part = "names" THEN MCPairs ELSE {<< <<1>>, <<1>> >>})
  /\ UnitInit(IF part = "units" THEN MCUploads ELSE {TheOneUnit})
  /\ part # "files" \/ Joining => \A c \in Snapshots : retry[c] = 0

MCNext ==
  /\ UNCHANGED part
  /\ \/ part = "report" /\ ReportStep /\ UNCHANGED <<filesVars, nameVars, unitVars>>
     \/ part = "files" /\ FilesNext /\ UNCHANGED <<reportVars, nameVars, unitVars>>
     \/ part = "names" /\ NameStep /\ UNCHANGED <<reportVars, filesVars, unitVars>>
     \/ part = "units" /\ UnitStep /\ UNCHANGED <<reportVars, filesVars, nameVars>>

MCSpec ==
  /\ MCInit /\ [][MCNext]_<<part, reportVars, filesVars, nameVars, unitVars>>
  /\ FilesFairness
=============================================================================
