--------------------------- MODULE ActivityTrail ----------------------------
(* What is changed and what the trail says of it: the QMS tags of              *)
(* src/src/api/client_ops_qms_tags.rs, the archive, the completed mark and the *)
(* removal of a company (clients_companies.rs, clients_implementation_status), *)
(* the record each leaves (src/src/client_ops/audit_log.rs) and the activity   *)
(* and security logs read page by page or exported. A record is inserted after *)
(* the change committed, on a connection of its own: it may be lost, and its   *)
(* id is drawn before it can be seen. A refused request is a stutter.          *)
EXTENDS Integers, Sequences, FiniteSets, SequencesExt, FiniteSetsExt

CONSTANTS
    MaxActs,       \* bound on the requests, numbered in the order they arrive
    Labels,        \* the labels a tag may be given
    Filters,       \* the filters a page, a preview or an export may have
    PageLimit,     \* the limit of a page
    RowCap,        \* EXPORT_ROW_CAP, or PREVIEW_ROW_CAP
    Nobody         \* the nil UUID of the scheduled sync

VARIABLES
    tag,           \* the qms_tag row, as a set of at most one
    company,       \* the company's row, as a set of at most one
    day,           \* the date, for the times that are stored
    trail,         \* log -> its committed records
    logId,         \* log -> its next id
    acts,          \* request -> how far it has come
    walk,          \* a reader of a log, page by page
    exported,      \* the last export or preview
    deeds          \* history, see TrailInit

trailVars == <<tag, company, day, trail, logId, acts, walk, exported, deeds>>

Null == "null"
Logs == {"activity", "security"}
NoAct == [at |-> "none", event |-> Null, actor |-> Null, entity |-> Null, before |-> {},
          after |-> {}, log |-> "activity", id |-> 0, deed |-> 0]
Acts == 1 .. MaxActs
Arrives(q) == acts[q].at = "none" /\ \A p \in 1 .. q - 1 : acts[p].at # "none"
Busy(q) == acts[q].at \notin {"none", "done"}
Only(S) == CHOOSE x \in S : TRUE
Act(q, r) == acts' = [acts EXCEPT ![q] = r]
Done(q) == Act(q, [NoAct EXCEPT !.at = "done"])

\* A committed change, and the request's record still to be written.
Deed(q, r) ==
    /\ Act(q, [r EXCEPT !.at = "record", !.deed = Len(deeds.changes) + 1])
    /\ deeds' = [deeds EXCEPT !.changes =
                   Append(@, [event |-> r.event, entity |-> r.entity, after |-> r.after]),
                              !.open = @ \cup {Len(deeds.changes) + 1}]

\* A request for the tag begins while another is not over.
Crowded(q) == \E p \in Acts \ {q} : Busy(p) /\ acts[p].entity = "tag"

-----------------------------------------------------------------------------
(* The tags                                                                   *)

create_qms_tag(q, label) ==
    /\ Arrives(q) /\ tag = {}
    /\ tag' = {[label |-> label, active |-> TRUE]}
    /\ Deed(q, [NoAct EXCEPT !.event = "QMS_TAG_CREATED", !.actor = "user", !.entity = "tag",
                             !.after = {[label |-> label, active |-> TRUE]}])
    /\ UNCHANGED <<company, day, trail, logId, walk, exported>>

\* fetch_current, in the request's transaction; the row is not locked.
fetch_current(q, event, new) ==
    /\ Arrives(q) /\ tag # {}
    /\ Act(q, [NoAct EXCEPT !.at = "write", !.event = event, !.actor = "user", !.entity = "tag",
                            !.before = tag, !.after = {new}])
    /\ deeds' = [deeds EXCEPT !.crowded = @ \/ Crowded(q)]
    /\ UNCHANGED <<tag, company, day, trail, logId, walk, exported>>
update_qms_tag(q, label) ==
    fetch_current(q, "QMS_TAG_UPDATED", [Only(tag) EXCEPT !.label = label])
set_active(q, active) ==
    /\ tag # {} /\ Only(tag).active # active
    /\ fetch_current(q, IF active THEN "QMS_TAG_REACTIVATED" ELSE "QMS_TAG_DEACTIVATED",
                     [Only(tag) EXCEPT !.active = active])

\* Mutant: the record is of the row as it is once written.
WriteTagThenRead(q) ==
    LET r == acts[q]
        new == {IF r.event = "QMS_TAG_UPDATED" THEN [t EXCEPT !.label = Only(r.after).label]
                ELSE [t EXCEPT !.active = Only(r.after).active] : t \in tag}
    IN /\ r.at = "write"
       /\ tag' = new
       /\ Deed(q, [r EXCEPT !.before = r.after])
       /\ UNCHANGED <<company, day, trail, logId, walk, exported>>
\* The UPDATE of its column and the commit.
WriteTag(q) ==
    LET r == acts[q]
        new == {IF r.event = "QMS_TAG_UPDATED" THEN [t EXCEPT !.label = Only(r.after).label]
                ELSE [t EXCEPT !.active = Only(r.after).active] : t \in tag}
    IN /\ r.at = "write"
       /\ tag' = new
       /\ Deed(q, r)
       /\ UNCHANGED <<company, day, trail, logId, walk, exported>>

\* The UPDATE or the commit fails.
WriteFails(q) ==
    /\ acts[q].at = "write"
    /\ Done(q)
    /\ UNCHANGED <<tag, company, day, trail, logId, walk, exported, deeds>>

-----------------------------------------------------------------------------
(* A company: one conditional statement each, which waits for the row's lock   *)
(* and then looks at it again                                                 *)

set_archived(q, archive) ==
    /\ Arrives(q) /\ company # {} /\ Only(company).archived # archive
    /\ company' = {[Only(company) EXCEPT !.archived = archive]}
    /\ Deed(q, [NoAct EXCEPT !.event = IF archive THEN "CLIENT_ARCHIVED" ELSE "CLIENT_UNARCHIVED",
                             !.actor = "user", !.entity = "company"])
    /\ UNCHANGED <<tag, day, trail, logId, walk, exported>>

\* implementation_completed_at is the day, 0 when NULL; COALESCE keeps the first.
set_completed(q, completed) ==
    /\ Arrives(q) /\ company # {}
    /\ company' = {[Only(company) EXCEPT !.completed =
                      IF ~completed THEN 0 ELSE IF @ = 0 THEN day ELSE @]}
    /\ Deed(q, [NoAct EXCEPT !.event = "CLIENT_IMPLEMENTATION", !.actor = "user",
                             !.entity = "company"])
    /\ UNCHANGED <<tag, day, trail, logId, walk, exported>>

delete_company(q) ==
    /\ Arrives(q) /\ company # {}
    /\ company' = {}
    /\ Deed(q, [NoAct EXCEPT !.event = "CLIENT_DELETED", !.actor = "user", !.entity = "company"])
    /\ UNCHANGED <<tag, day, trail, logId, walk, exported>>

\* What else is on the record: a scheduled sync, a sign-in.
SyncCompletes(q) ==
    /\ Arrives(q)
    /\ Deed(q, [NoAct EXCEPT !.event = "SYNC_COMPLETED", !.actor = Nobody, !.entity = "sync"])
    /\ UNCHANGED <<tag, company, day, trail, logId, walk, exported>>
SignsIn(q) ==
    /\ Arrives(q)
    /\ Deed(q, [NoAct EXCEPT !.event = "LOGIN", !.actor = "user", !.entity = "account",
                             !.log = "security"])
    /\ UNCHANGED <<tag, company, day, trail, logId, walk, exported>>

-----------------------------------------------------------------------------
(* The record: its INSERT draws the id, and is seen once committed            *)

\* record: the nil UUID is no actor.
record(q) ==
    /\ acts[q].at = "record"
    /\ Act(q, [acts[q] EXCEPT !.at = "recording", !.id = logId[acts[q].log],
                              !.actor = IF @ = Nobody THEN Null ELSE @])
    /\ logId' = [logId EXCEPT ![acts[q].log] = @ + 1]
    /\ UNCHANGED <<tag, company, day, trail, walk, exported, deeds>>
RecordCommitted(q) ==
    LET r == acts[q]
    IN /\ r.at = "recording"
       /\ trail' = [trail EXCEPT ![r.log] = @ \cup
                      {[id |-> r.id, event |-> r.event, actor |-> r.actor, entity |-> r.entity,
                        before |-> r.before, after |-> r.after, day |-> day, deed |-> r.deed]}]
       /\ Done(q)
       /\ deeds' = [deeds EXCEPT !.open = @ \ {r.deed}]
       /\ UNCHANGED <<tag, company, day, logId, walk, exported>>
RecordLost(q) ==
    /\ acts[q].at = "record"
    /\ Done(q)
    /\ deeds' = [deeds EXCEPT !.open = @ \ {acts[q].deed}, !.lost = @ \cup {acts[q].deed}]
    /\ UNCHANGED <<tag, company, day, trail, logId, walk, exported>>

NewDay ==
    /\ day = 1 /\ day' = 2
    /\ UNCHANGED <<tag, company, trail, logId, acts, walk, exported, deeds>>

-----------------------------------------------------------------------------
(* Reading a log                                                              *)

\* push_in_filter, push_actor_filter, push_user_id_filter: an empty set filters
\* nothing; in the security log a user is the actor or the target.
In(x, S) == S = {} \/ x \in S
Matches(log, r, f) ==
    /\ In(r.event, f.events)
    /\ IF log = "activity" THEN In(r.entity, f.entities) /\ In(r.actor, f.users)
       ELSE In(r.actor, f.users) \/ In(r.entity, f.users)

\* ORDER BY id DESC LIMIT n.
Newest(rows, n) ==
    LET s == SetToSortSeq(rows, LAMBDA r, t : r.id > t.id)
    IN SubSeq(s, 1, IF Len(s) < n THEN Len(s) ELSE n)

NoWalk == [at |-> "none", log |-> "activity", filter |-> Null, cursor |-> 0, seen |-> <<>>,
           due |-> {}]
clamp_limit(n, max) == IF n < 1 THEN 1 ELSE IF n > max THEN max ELSE n

\* A reader's first request: `due` keeps what the log holds then.
StartWalk(log, f) ==
    /\ walk.at = "none"
    /\ walk' = [NoWalk EXCEPT !.at = "reading", !.log = log, !.filter = f,
                              !.due = {r \in trail[log] : Matches(log, r, f)}]
    /\ UNCHANGED <<tag, company, day, trail, logId, acts, exported, deeds>>

\* The page before before_id, or the first.
page_before(log, f, cursor, limit) ==
    Newest({r \in trail[log] : Matches(log, r, f) /\ (cursor = 0 \/ r.id < cursor)}, limit)

\* The reader takes before_id from the last row it has; a short page is the last.
ReadPage(log) ==
    LET w == walk
        limit == clamp_limit(PageLimit, 200)
        page == page_before(log, w.filter, w.cursor, limit)
    IN /\ w.at = "reading" /\ w.log = log
       /\ walk' = [w EXCEPT !.seen = @ \o page,
                            !.cursor = IF page = <<>> THEN @ ELSE Last(page).id,
                            !.at = IF Len(page) < limit THEN "end" ELSE "reading"]
       /\ UNCHANGED <<tag, company, day, trail, logId, acts, exported, deeds>>
list_activity_logs == ReadPage("activity")
list_audit_logs == ReadPage("security")

\* One row more than the cap is asked for, and cut off again.
capped(rows) ==
    LET asked == Newest(rows, RowCap + 1)
    IN [rows |-> SubSeq(asked, 1, IF Len(asked) > RowCap THEN RowCap ELSE Len(asked)),
        truncated |-> Len(asked) > RowCap, of |-> rows]
fetch_filtered_activity_logs(f, from, to) ==
    capped({r \in trail["activity"] : r.day \in from .. to /\ Matches("activity", r, f)})
fetch_filtered_audit_logs(f, from, to) ==
    capped({r \in trail["security"] : r.day \in from .. to /\ Matches("security", r, f)})

\* validate_filters, the rows, and for an export its own record.
Export(q, log, result) ==
    /\ Arrives(q)
    /\ exported' = result
    /\ Deed(q, [NoAct EXCEPT !.event = "LOG_EXPORTED", !.actor = "user", !.entity = "log",
                             !.log = log])
    /\ UNCHANGED <<tag, company, day, trail, logId, walk>>
Preview(result) ==
    /\ exported' = result
    /\ UNCHANGED <<tag, company, day, trail, logId, acts, walk, deeds>>
export_activity_logs(q, f, from, to) ==
    from <= to /\ Export(q, "activity", fetch_filtered_activity_logs(f, from, to))
export_audit_logs(q, f, from, to) ==
    from <= to /\ Export(q, "security", fetch_filtered_audit_logs(f, from, to))
preview_activity_logs(f, from, to) ==
    from <= to /\ Preview(fetch_filtered_activity_logs(f, from, to))
preview_audit_logs(f, from, to) ==
    from <= to /\ Preview(fetch_filtered_audit_logs(f, from, to))

\* actor_label of an exported row.
actor_label(r) ==
    IF r.actor = Null THEN "dash" ELSE IF r.actor = Nobody THEN "System" ELSE r.actor

-----------------------------------------------------------------------------
\* deeds: the committed changes in order, those whose record is not written yet,
\* those whose record was lost, and whether two requests for the tag overlapped.
TrailInit ==
    /\ tag \in {{}, {[label |-> CHOOSE l \in Labels : TRUE, active |-> TRUE]}}
    /\ company = {[archived |-> FALSE, completed |-> 0]} /\ day = 1
    /\ trail = [l \in Logs |-> {}] /\ logId = [l \in Logs |-> 1]
    /\ acts = [q \in Acts |-> NoAct]
    /\ walk = NoWalk /\ exported = [rows |-> <<>>, truncated |-> FALSE, of |-> {}]
    /\ deeds = [changes |-> <<>>, open |-> {}, lost |-> {}, crowded |-> FALSE]

TrailStep(q) ==
    WriteTag(q) \/ WriteFails(q) \/ record(q) \/ RecordCommitted(q) \/ RecordLost(q)

-----------------------------------------------------------------------------
(* Properties                                                                 *)

\* The records of a tag replay it: each begins where the one before it ended and
\* the last ends where the tag is, when no two requests for it overlapped and
\* none of its records was lost ("a genuine before/after diff").
TrailReplays ==
    LET ofTag(d) == d \in DOMAIN deeds.changes /\ deeds.changes[d].entity = "tag"
        s == SetToSortSeq({r \in trail["activity"] : r.entity = "tag"}, LAMBDA r, t : r.id < t.id)
    IN ~deeds.crowded /\ ~(\E d \in deeds.open \cup deeds.lost : ofTag(d)) =>
         /\ \A i \in 2 .. Len(s) : s[i].before = s[i - 1].after
         /\ s # <<>> => tag = Last(s).after

=============================================================================
