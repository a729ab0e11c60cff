-------------------------- MODULE ClientDirectory --------------------------
(***************************************************************************)
(* The Clients page: the list of companies with its filters                *)
(* (api/clients_companies.rs), the options its filter boxes offer          *)
(* (api/clients_filter_options.rs) and the two directions of the state     *)
(* names between them (clients/us_states.rs).  A facility's state is the   *)
(* free text of the Intake form, so one state is stored in several forms;  *)
(* the page shows one option for it and the filter has to find them all.   *)
(***************************************************************************)
EXTENDS Naturals, FiniteSets

CONSTANTS Companies, Sites, \* companies and their facilities
          OwnerOf,         \* [Sites -> Companies]
          RawStates,       \* states as typed: [state |-> s, form |-> f]
          UsStates,        \* the states of the table STATES
          Systems,         \* previous property-management systems
          MaxEdits         \* bound on edits

ASSUME DirectoryConstants ==
    /\ OwnerOf \in [Sites -> Companies]
    /\ MaxEdits \in Nat

VARIABLES sites,      \* [Sites -> [state, pms]], clients.facilities
          retired,    \* archived companies
          offer,      \* the options last shown
          listing,    \* the list last shown
          siteEdits
directoryVars == <<sites, retired, offer, listing, siteEdits>>

-----------------------------------------------------------------------------
(* us_states.rs.  A form is "name" (California), "abbr" (CA) or "other":   *)
(* lower case or padded.                                                   *)

\* A recognised state answers its full name whatever its form; any other
\* text answers nothing and is shown as it is.
canonical_name(raw) ==
    IF raw.state \in UsStates THEN [raw EXCEPT !.form = "name"] ELSE raw

abbreviation_for(name) ==
    IF name.state \in UsStates /\ name.form \in {"name", "other"}
    THEN {[name EXCEPT !.form = "abbr"]} ELSE {}

\* Mutant: the option is looked for as it is written.
raw_variant_itself(value) == {value}

raw_variants(value) == {value} \cup abbreviation_for(value)

-----------------------------------------------------------------------------
get_filter_options ==
    /\ offer' = [states |-> {canonical_name(sites[f].state) : f \in Sites},
                 pms |-> {sites[f].pms : f \in Sites},
                 seen |-> sites]
    /\ UNCHANGED <<sites, retired, listing, siteEdits>>

\* A filter that is empty asks for nothing.
push_facility_exists_filter(c, column, values) ==
    values = {} \/ \E f \in Sites : OwnerOf[f] = c /\ sites[f][column] \in values

\* array_agg over the company's own join, which no filter touches.
facility_names(c, states, pms) == {f \in Sites : OwnerOf[f] = c}

\* The archived companies come last.
list_companies(chosenStates, chosenPms) ==
    LET states == UNION {raw_variants(v) : v \in chosenStates}
        found == {c \in Companies :
                     /\ push_facility_exists_filter(c, "state", states)
                     /\ push_facility_exists_filter(c, "pms", chosenPms)}
    IN  /\ listing' = [states |-> chosenStates, pms |-> chosenPms, seen |-> sites,
                       current |-> found \ retired, archived |-> found \cap retired,
                       names |-> [c \in found |-> facility_names(c, states, chosenPms)]]
        /\ UNCHANGED <<sites, retired, offer, siteEdits>>

\* A resync or an edit stores another state or system for a facility.
EditSite(f, raw, p) ==
    /\ siteEdits < MaxEdits
    /\ sites' = [sites EXCEPT ![f] = [state |-> raw, pms |-> p]]
    /\ siteEdits' = siteEdits + 1
    /\ UNCHANGED <<retired, offer, listing>>

DirectoryInit(rows) ==
    /\ sites \in rows
    /\ retired \in SUBSET Companies
    /\ offer = [states |-> {}, pms |-> {}, seen |-> sites]
    /\ listing = [states |-> {}, pms |-> {}, seen |-> sites, current |-> {},
                  archived |-> {}, names |-> [c \in {} |-> {}]]
    /\ siteEdits = 0

DirectoryStep ==
    \/ get_filter_options
    \/ \E s \in SUBSET offer.states, p \in SUBSET offer.pms :
          Cardinality(s) <= 2 /\ Cardinality(p) <= 1 /\ list_companies(s, p)
    \/ \E f \in Sites, raw \in RawStates, p \in Systems : EditSite(f, raw, p)

-----------------------------------------------------------------------------
Listed == listing.current \cup listing.archived

\* A company is found by the option its facility's state is offered under,
\* in each form push_facility_exists_filter can match: the full name and the
\* postal abbreviation.
StateOptionFindsBothForms ==
    listing.states # {} /\ listing.pms = {} =>
        \A f \in Sites :
            /\ listing.seen[f].state.form \in {"name", "abbr"}
            /\ canonical_name(listing.seen[f].state) \in listing.states
            => OwnerOf[f] \in Listed

=============================================================================
