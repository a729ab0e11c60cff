---------------------------- MODULE MCClientSync ----------------------------
(***************************************************************************)
(* Instances of ClientSync.  A scenario is a mix of operations, the runs   *)
(* that exist, and whether a client has been imported already; the state   *)
(* space is the sum over the scenarios.                                    *)
(***************************************************************************)
EXTENDS ClientSync

CONSTANTS r1, r2, m1, m2, q1, q2

\* The second version leaves one field unanswered.
MCAnswered == <<{"contact", "folder"}, {"contact"}>>

Mix(ops, runs, seeded, requests, n) ==
    [ops |-> ops, runs |-> runs, seeded |-> seeded, requests |-> requests, passes |-> n]

MCScenarios == {
    Mix({"sync", "ps", "restart"}, {r1, m1}, TRUE, {}, 2),
    Mix({"sync"}, {r1, r2, m1}, TRUE, {}, 1),
    Mix({"sync", "ps", "edit", "delete"}, {r1}, TRUE, {q1}, 2),
    Mix({"sync", "ps", "create"}, {r1}, FALSE, {q1}, 1),
    Mix({"sync", "ps", "preview", "apply"}, {r1}, TRUE, {q1}, 1),
    Mix({"ps", "edit", "preview", "apply"}, {r1}, TRUE, {q1}, 0),
    Mix({"sync", "edit", "relink"}, {r1, r2}, TRUE, {q1}, 1),
    Mix({"relink", "preview", "apply"}, {r1, r2}, TRUE, {q1, q2}, 0),
    Mix({"ps", "edit", "relink"}, {r1, r2}, TRUE, {q1, q2}, 0),
    Mix({"link", "relink_merchant", "resync_elavon", "apply", "delete"}, {r1, m1, m2}, TRUE, {q1, q2}, 0),
    Mix({"add", "link", "delete"}, {r1, r2, m1}, TRUE, {q1, q2}, 0)}

MCImports == {Mix({"create"}, {r1}, FALSE, {q1, q2}, 0)}

=============================================================================
