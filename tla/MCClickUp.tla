----------------------------- MODULE MCClickUp ------------------------------
(* Instances of ClickUpAccount, ClickUpLinks and ClickUpCopy for TLC. The      *)
(* three share no state of this program, so a behaviour is played in one of    *)
(* them; the scenario says which, what its requests may ask for and how many.  *)
EXTENDS ClickUpAccount, ClickUpLinks, ClickUpCopy, TLC

CONSTANTS q1, q2, none, workspace, l1, f1, f2, company, a, b, u1, u2, k1, k2, t1, t2, MCScenarios

MCTokens == {1, 2}
MCLists == {l1}
MCRequests == {q1, q2}
MCFacilities == {f1, f2}
MCLinkLists == {a, b}
MCUsers == {u1, u2}
MCCopies == {k1, k2}
MCTasks == {t1, t2}

VARIABLE scenario

Row(t, p, c) == [task |-> t, pointer |-> p, complete |-> c]
Scenario(name) ==
    CASE name = "token" ->
           [name |-> name, part |-> "account", requests |-> 4, tokens |-> {1, 2},
            ops |-> {"save", "remove", "test", "revoke", "lists", "prefetch"}]
      [] name = "tasks" ->
           [name |-> name, part |-> "account", requests |-> 4, tokens |-> {1},
            ops |-> {"save", "revoke", "expire", "tasks", "tasks_lenient", "run_update", "copy"}]
      [] name = "batches" ->
           [name |-> name, part |-> "links", requests |-> 3,
            ops |-> {"save", "unlink"}]
      [] name = "parent" ->
           [name |-> name, part |-> "links", requests |-> 4,
            ops |-> {"save_one", "unlink_one", "parent", "waiver"}]
      [] name = "bulk" ->
           [name |-> name, part |-> "copy", requests |-> 1, ops |-> {"job", "inline"},
            rows |-> {<<Row(t1, FALSE, TRUE), Row(t2, FALSE, TRUE), Row(t1, FALSE, TRUE)>>,
                      <<Row(t1, TRUE, FALSE), Row(t1, TRUE, FALSE)>>}]
      [] name = "two_copies" ->
           [name |-> name, part |-> "copy", requests |-> 2, ops |-> {"dialog"},
            rows |-> {<<Row(t1, TRUE, FALSE), Row(t2, TRUE, FALSE)>>,
                      <<Row(t1, TRUE, FALSE)>>}]

Init ==
    /\ scenario \in {Scenario(n) : n \in MCScenarios}
    /\ AccountInit /\ LinksInit /\ CopyInit

Has(op) == op \in scenario.ops

AccountNext ==
    \/ \E q \in Requests :
         \/ started < scenario.requests /\
              \/ \E t \in scenario.tokens : Has("save") /\ SaveToken(q, t)
              \/ Has("test") /\ TestConnection(q)
              \/ Has("remove") /\ RemoveToken(q)
              \/ \E op \in scenario.ops \cap (Reads \cup Glances \cup Writes), k \in Keys :
                   LoadUserCredentials(q, op, k)
         \/ AccountStep(q)
    \/ \E t \in Tokens : Has("revoke") /\ Revoke(t)
    \/ \E k \in Keys : Has("expire") /\ Expire(k)

Batches ==
    {<< <<f1, a>>, <<f2, b>> >>, << <<f2, a>>, <<f1, a>> >>, << <<f1, b>> >>}
LinksNext ==
    \/ \E e \in Editors :
         \/ edits < scenario.requests /\
              \/ \E todo \in Batches : Has("save") /\ SaveClickUpLinks(e, todo)
              \/ Has("save_one") /\ SaveClickUpLinks(e, << <<f1, a>> >>)
              \/ \E fs \in {{f1}, Facilities} : Has("unlink") /\ Unlink(e, fs)
              \/ Has("unlink_one") /\ Unlink(e, {f1})
              \/ \E f \in {f1, NoFacility} : Has("parent") /\ SetClickUpParent(e, f)
         \/ LinksStep(e) \/ InsufficientRole(e) \/ DeadlockDetected(e)
    \/ \E user \in Users, waived \in BOOLEAN : Has("waiver") /\ SetWaiver(user, waived)

Begun == {k \in Copies : copies[k] # NoCopy}
CopyNext ==
    \/ \E k \in Copies :
         \/ Cardinality(Begun) < scenario.requests /\
              \E rows \in scenario.rows : \/ Has("dialog") /\ CopyCommentsToTasks(k, rows)
                                          \/ Has("inline") /\ BulkCopyInline(k, rows)
                                          \/ Has("job") /\ StartJob(k, rows)
         \/ CopyStep(k) \/ GoesQuiet(k)
    \/ Restart

Next ==
    /\ \/ /\ scenario.part = "account"
          /\ AccountNext /\ UNCHANGED <<linkVars, copyVars>>
       \/ /\ scenario.part = "links"
          /\ LinksNext /\ UNCHANGED <<accountVars, copyVars>>
       \/ /\ scenario.part = "copy"
          /\ CopyNext /\ UNCHANGED <<accountVars, linkVars>>
    /\ UNCHANGED scenario

allVars == <<accountVars, linkVars, copyVars, scenario>>

\* Requests run on while the server is up, ClickUp's answers and the database's
\* locks come, a deadlock is detected, and time passes.
Fairness ==
    /\ \A q \in Requests : WF_allVars(AccountStep(q) /\ UNCHANGED <<linkVars, copyVars, scenario>>)
    /\ \A e \in Editors :
         WF_allVars((LinksStep(e) \/ DeadlockDetected(e)) /\ UNCHANGED <<accountVars, copyVars, scenario>>)
    /\ \A k \in Copies :
         /\ WF_allVars(CopyStep(k) /\ UNCHANGED <<accountVars, linkVars, scenario>>)
         /\ WF_allVars(GoesQuiet(k) /\ UNCHANGED <<accountVars, linkVars, scenario>>)

Spec == Init /\ [][Next]_allVars /\ Fairness
=============================================================================
