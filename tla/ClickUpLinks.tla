---------------------------- MODULE ClickUpLinks ----------------------------
(* A company's ClickUp links: which list each facility is linked to            *)
(* (src/src/api/clients_clickup_links.rs), which facility is the parent and    *)
(* whether the project is waived (src/src/api/clients_clickup_parent.rs), with *)
(* the row locks of their transactions. Reads see committed rows; an UPDATE    *)
(* waits for the transaction that holds its row.                               *)
EXTENDS Naturals, Sequences, FiniteSets, SequencesExt, TLC

CONSTANTS
    Facilities, NoFacility, \* the facilities of one company
    Company,                \* the company's own row, as a lock
    LinkLists, NoList,      \* ClickUp lists
    Users, NoUser,
    Editors, NoEditor,      \* requests that change links
    MaxLog                  \* bound on the changes recorded for one row

VARIABLES
    link,       \* facility -> clickup_list_id
    parent,     \* clickup_parent_facility_id
    waiver,     \* clickup_waived_by
    holder,     \* row -> the transaction that holds it
    editors,    \* editor -> the request it is in
    edits,      \* how many requests have begun
    linkLog,    \* facility -> its FACILITY_CLICKUP_(UN)LINKED audit rows
    parentLog,  \* company_clickup_parent_history
    overlapped  \* history: facilities two requests worked on at once

linkVars == <<link, parent, waiver, holder, editors, edits, linkLog, parentLog, overlapped>>

Rows == Facilities \cup {Company}
NoChange == [f \in {} |-> NoList]
Away == [op |-> "none", at |-> "none", todo |-> <<>>, before |-> NoChange, after |-> NoChange,
         target |-> NoFacility, previous |-> NoFacility]

LinksInit ==
    /\ link = [f \in Facilities |-> NoList]
    /\ parent = NoFacility
    /\ waiver = NoUser
    /\ holder = [row \in Rows |-> NoEditor]
    /\ editors = [e \in Editors |-> Away]
    /\ edits = 0
    /\ linkLog = [f \in Facilities |-> <<>>]
    /\ parentLog = <<>>
    /\ overlapped = {}

\* The facilities a link request has read or is about to write.
WorksOn(r) == DOMAIN r.before \cup {r.todo[i][1] : i \in DOMAIN r.todo}
NoteOverlaps(e, fs) ==
    overlapped' = overlapped \cup
        {f \in fs : \E other \in Editors \ {e} : f \in WorksOn(editors[other])}

Enter(e, r) ==
    /\ editors[e] = Away
    /\ editors' = [editors EXCEPT ![e] = r]
    /\ edits' = edits + 1
Proceed(e, r) == editors' = [editors EXCEPT ![e] = r]
Released(e) == [row \in Rows |-> IF holder[row] = e THEN NoEditor ELSE holder[row]]
\* Rolling back, or a transaction that wrote nothing ending.
Leave(e) ==
    /\ editors' = [editors EXCEPT ![e] = Away]
    /\ holder' = Released(e)
    /\ UNCHANGED <<link, parent, waiver, edits, linkLog, parentLog, overlapped>>

-----------------------------------------------------------------------------
(* Linking                                                                    *)

\* save_clickup_links: a batch of distinct facilities whose lists ClickUp has
\* verified; what fails before that leaves nothing behind.
SaveClickUpLinks(e, todo) ==
    /\ todo # <<>>
    /\ \A i, j \in DOMAIN todo : todo[i][1] = todo[j][1] => i = j
    /\ Enter(e, [Away EXCEPT !.op = "save", !.at = "read", !.todo = todo])
    /\ NoteOverlaps(e, {todo[i][1] : i \in DOMAIN todo})
    /\ UNCHANGED <<link, parent, waiver, holder, linkLog, parentLog>>

\* Mutant: the audit row says the facility was not linked before.
ReadPreviousNone(e) ==
    LET r == editors[e]
    IN /\ r.op = "save" /\ r.at = "read"
       /\ Proceed(e, [r EXCEPT !.at = "update", !.before = (Head(r.todo)[1] :> NoList) @@ @])
       /\ UNCHANGED <<link, parent, waiver, holder, edits, linkLog, parentLog, overlapped>>
\* The link there was, read without a lock.
ReadPrevious(e) ==
    LET r == editors[e]
        f == Head(r.todo)[1]
    IN /\ r.op = "save" /\ r.at = "read"
       /\ Proceed(e, [r EXCEPT !.at = "update", !.before = (f :> link[f]) @@ @])
       /\ UNCHANGED <<link, parent, waiver, holder, edits, linkLog, parentLog, overlapped>>

\* The UPDATE of one facility, which holds its row until the end.
UpdateLink(e) ==
    LET r == editors[e]
        f == Head(r.todo)[1]
    IN /\ r.op = "save" /\ r.at = "update" /\ holder[f] = NoEditor
       /\ holder' = [holder EXCEPT ![f] = e]
       /\ Proceed(e, [r EXCEPT !.todo = Tail(@), !.after = (f :> Head(r.todo)[2]) @@ @,
                               !.at = IF Len(r.todo) = 1 THEN "commit" ELSE "read"])
       /\ UNCHANGED <<link, parent, waiver, edits, linkLog, parentLog, overlapped>>

\* A role that may not write facilities updates no row: the batch is rolled back.
InsufficientRole(e) ==
    /\ editors[e].op = "save" /\ editors[e].at = "update"
    /\ DOMAIN editors[e].after = {}
    /\ Leave(e)

\* Two batches that name the same facilities in different orders wait for each
\* other; Postgres ends one of them.
Blocks(e) ==
    IF editors[e].op = "save" /\ editors[e].at = "update"
    THEN holder[Head(editors[e].todo)[1]] ELSE NoEditor
DeadlockDetected(e) ==
    /\ Blocks(e) \notin {NoEditor, e}
    /\ Blocks(Blocks(e)) = e
    /\ Leave(e)

\* The commit, and after it the audit row of each facility that was read, which
\* for an unlink need not be the facilities it cleared.
CommitLinks(e) ==
    LET r == editors[e]
    IN /\ r.op \in {"save", "unlink"} /\ r.at = "commit"
       /\ \A f \in DOMAIN r.before : Len(linkLog[f]) < MaxLog
       /\ link' = r.after @@ link
       /\ linkLog' = [f \in Facilities |->
                        IF f \in DOMAIN r.before
                        THEN Append(linkLog[f],
                               [from |-> r.before[f],
                                to |-> IF f \in DOMAIN r.after THEN r.after[f] ELSE NoList])
                        ELSE linkLog[f]]
       /\ holder' = Released(e)
       /\ Proceed(e, Away)
       /\ UNCHANGED <<parent, waiver, edits, parentLog, overlapped>>

\* unlink, for one facility or the whole company: what is linked is read first.
Unlink(e, fs) ==
    LET linked == {f \in fs : link[f] # NoList}
    IN /\ linked # {}
       /\ Enter(e, [Away EXCEPT !.op = "unlink", !.at = "clear", !.target = fs,
                                !.before = [f \in linked |-> link[f]]])
       /\ NoteOverlaps(e, fs)
       /\ UNCHANGED <<link, parent, waiver, holder, linkLog, parentLog>>

\* The UPDATE clears what is linked by now; another number of rows than was read
\* is taken for a role that may not write, and rolled back.
ClearLinks(e) ==
    LET r == editors[e]
        rows == {f \in r.target : link[f] # NoList}
    IN /\ r.op = "unlink" /\ r.at = "clear"
       /\ \A f \in rows : holder[f] = NoEditor
       /\ IF Cardinality(rows) # Cardinality(DOMAIN r.before)
          THEN Leave(e)
          ELSE /\ holder' = [row \in Rows |-> IF row \in rows THEN e ELSE holder[row]]
               /\ Proceed(e, [r EXCEPT !.at = "commit", !.after = [f \in rows |-> NoList]])
               /\ UNCHANGED <<link, parent, waiver, edits, linkLog, parentLog, overlapped>>

-----------------------------------------------------------------------------
(* The parent facility and the waiver                                         *)

SetClickUpParent(e, f) ==
    /\ Enter(e, [Away EXCEPT !.op = "parent", !.at = "lock", !.target = f])
    /\ UNCHANGED <<link, parent, waiver, holder, linkLog, parentLog, overlapped>>

\* SELECT .. FOR UPDATE on the company; a parent that is already set ends there.
LockCompany(e) ==
    LET r == editors[e]
    IN /\ r.op = "parent" /\ r.at = "lock" /\ holder[Company] = NoEditor
       /\ IF parent = r.target
          THEN Leave(e)
          ELSE /\ holder' = [holder EXCEPT ![Company] = e]
               /\ Proceed(e, [r EXCEPT !.at = "commit", !.previous = parent])
               /\ UNCHANGED <<link, parent, waiver, edits, linkLog, parentLog, overlapped>>

\* The new parent must have a list by now; the update and its history row are
\* committed together.
CommitParent(e) ==
    LET r == editors[e]
    IN /\ r.op = "parent" /\ r.at = "commit"
       /\ IF r.target # NoFacility /\ link[r.target] = NoList
          THEN Leave(e)
          ELSE /\ Len(parentLog) < MaxLog
               /\ parent' = r.target
               /\ parentLog' = Append(parentLog, [from |-> r.previous, to |-> r.target])
               /\ holder' = Released(e)
               /\ Proceed(e, Away)
               /\ UNCHANGED <<link, waiver, edits, linkLog, overlapped>>

\* set_waiver: one UPDATE; waiving again keeps who waived first.
SetWaiver(user, waived) ==
    /\ holder[Company] = NoEditor
    /\ waiver' = IF ~waived THEN NoUser ELSE IF waiver = NoUser THEN user ELSE waiver
    /\ UNCHANGED <<link, parent, holder, editors, edits, linkLog, parentLog, overlapped>>

LinksStep(e) ==
    \/ ReadPrevious(e) \/ UpdateLink(e) \/ CommitLinks(e) \/ ClearLinks(e)
    \/ LockCompany(e) \/ CommitParent(e)

-----------------------------------------------------------------------------
\* Playing a facility's audit rows back, each from what the one before it left,
\* ends with the link it has, unless two requests worked on it at once.
LinkLogReplays ==
    \A f \in Facilities \ overlapped :
        LET log == linkLog[f]
        IN /\ \A i \in DOMAIN log : log[i].from = IF i = 1 THEN NoList ELSE log[i - 1].to
           /\ link[f] = IF log = <<>> THEN NoList ELSE Last(log).to

=============================================================================
