----------------------------- MODULE ClientSync -----------------------------
(***************************************************************************)
(* The Process Street sync: the claim that keeps it to one pass at a time, *)
(* the pass over the three workflows, and the refresh of imported rows     *)
(* inside its batch transactions, next to everything in ClientRecords.     *)
(*                                                                         *)
(* A pass lists all runs, then per workflow reads what is already recorded *)
(* (ps_sync_state), and per batch fetches, opens a transaction, refreshes  *)
(* the company and the facility of each run, and commits.  The SELECT and  *)
(* the UPDATE of a refresh are two steps; from the UPDATE on the row is    *)
(* locked.  The people index that is written along is left out.            *)
(***************************************************************************)
EXTENDS ClientRecords, SequencesExt, TLC

CONSTANTS
    BatchSize,   \* RUN_BATCH_SIZE
    MaxListing,  \* bound on the entries of a listing
    MaxRestarts

ASSUME SyncAssumption ==
    BatchSize \in Nat \ {0} /\ {MaxListing, MaxRestarts} \subseteq Nat

VARIABLES
    progress,       \* SyncProgress
    pass,           \* the timer's loop and the task of a manual start
    ps_sync_state,  \* the recorded version of each run, 0 if none
    passes,
    restarts

syncVars == <<progress, pass, ps_sync_state, passes, restarts>>
vars == <<recordVars, syncVars>>

Passes == {"timer", "manual"}

\* The pass treats contract order runs as it does merchant runs.
WORKFLOWS == <<IntakeRuns, MerchantRuns>>

NoProgress == [state |-> "idle", total_runs |-> 0, processed_runs |-> 0]
NoPass == [pc |-> "idle", force |-> FALSE, list |-> <<>>, workflow |-> 1,
           todo |-> <<>>, batch |-> <<>>, queue |-> <<>>, snap |-> NoRun]
NoUpdates == [id \in {} |-> NoRun]

Active(p) == pass[p].pc # "idle"

-----------------------------------------------------------------------------
(* Starting a pass.                                                        *)

\* Mutant: the check and the claim do not exclude a running pass.
try_claim_running_unchecked == progress' = [NoProgress EXCEPT !.state = "running"]

try_claim_running ==
    /\ progress.state # "running"
    /\ progress' = [NoProgress EXCEPT !.state = "running"]

\* The timer's tick never forces; start_sync may.
Start(p, force) ==
    /\ Use("sync") /\ passes < scenario.passes
    /\ ~Active(p) /\ (p = "timer" => ~force)
    /\ try_claim_running
    /\ pass' = [pass EXCEPT ![p] = [NoPass EXCEPT !.pc = "listing", !.force = force]]
    /\ passes' = passes + 1
    /\ UNCHANGED <<recordVars, ps_sync_state, restarts>>

-----------------------------------------------------------------------------
(* The pass.                                                               *)

Unlisted(p) == {r \in scenario.runs : \A e \in ToSet(pass[p].list) : e.run # r}

\* Pages come one by one, so a run that moves meanwhile can be listed twice.
list_workflow_runs(p, r) ==
    /\ pass[p].pc = "listing" /\ r \in scenario.runs
    /\ Len(pass[p].list) + Cardinality(Unlisted(p) \ {r}) < MaxListing
    /\ pass' = [pass EXCEPT ![p].list = Append(@, [run |-> r, ver |-> ps[r]])]
    /\ UNCHANGED <<recordVars, progress, ps_sync_state, passes, restarts>>

ListDone(p) ==
    /\ pass[p].pc = "listing"
    /\ Unlisted(p) = {}
    /\ progress' = [progress EXCEPT !.total_runs = Len(pass[p].list)]
    /\ pass' = [pass EXCEPT ![p].pc = "delta"]
    /\ UNCHANGED <<recordVars, ps_sync_state, passes, restarts>>

needs_refresh(previous, current) == previous < current

\* The first entry of a run that needs it.
runs_needing_refresh(runs, force) ==
    LET needing == SelectSeq(runs, LAMBDA e : force \/ needs_refresh(ps_sync_state[e.run], e.ver))
        first(i) == \A j \in 1 .. i - 1 : needing[j].run # needing[i].run
        kept == {i \in DOMAIN needing : first(i)}
    IN  [i \in 1 .. Cardinality(kept) |->
            needing[CHOOSE j \in kept : Cardinality({k \in kept : k <= j}) = i]]

\* Mutant: the last workflow is left out.
AfterShort(left, w) ==
    IF left # <<>> THEN "fetch" ELSE IF w < Len(WORKFLOWS) - 1 THEN "delta" ELSE "done"

\* The next thing to do after the runs of this workflow, or of a batch.
After(left, w) ==
    IF left # <<>> THEN "fetch" ELSE IF w < Len(WORKFLOWS) THEN "delta" ELSE "done"

\* Reads ps_sync_state; the runs it passes over count as processed at once.
DeltaCheck(p) ==
    LET w == pass[p].workflow
        runs == SelectSeq(pass[p].list, LAMBDA e : e.run \in WORKFLOWS[w])
        todo == runs_needing_refresh(runs, pass[p].force)
    IN  /\ pass[p].pc = "delta"
        /\ progress' = [progress EXCEPT !.processed_runs = @ + Len(runs) - Len(todo)]
        /\ pass' = [pass EXCEPT ![p].todo = todo, ![p].pc = After(todo, w),
                                ![p].workflow = IF todo = <<>> THEN @ + 1 ELSE @]
        /\ UNCHANGED <<recordVars, ps_sync_state, passes, restarts>>

\* The fetches of a batch are taken together.
FetchBatch(p) ==
    LET n == IF Len(pass[p].todo) < BatchSize THEN Len(pass[p].todo) ELSE BatchSize
        chunk == SubSeq(pass[p].todo, 1, n)
    IN  /\ pass[p].pc = "fetch"
        /\ pass' = [pass EXCEPT
              ![p].todo = SubSeq(@, n + 1, Len(@)),
              ![p].batch = [i \in 1 .. n |-> chunk[i] @@ [got |-> ps[chunk[i].run]]],
              ![p].queue = IF pass[p].workflow = 1
                           THEN FlattenSeq([i \in 1 .. n |-> <<<<i, Companies>>, <<i, Facilities>>>>])
                           ELSE <<>>,
              ![p].pc = "apply"]
        /\ UNCHANGED <<recordVars, progress, ps_sync_state, passes, restarts>>

-----------------------------------------------------------------------------
(* The transaction of a batch (apply_fetched_runs).                        *)

Matching(p) ==
    LET next == Head(pass[p].queue)
    IN  {id \in Present(next[2]) : rows[id].run = pass[p].batch[next[1]].run}

Refreshed(p, id) ==
    LET fetched == pass[p].batch[Head(pass[p].queue)[1]]
    IN  apply_refresh(rows[id].val, map_intake_fields(fetched.run, fetched.got), rows[id].edited)

\* Mutant: a run that was never imported is waited for.
RefreshReadMatched(p) ==
    /\ pass[p].pc = "apply" /\ pass[p].queue # <<>>
    /\ \E id \in Matching(p) :
          pass' = [pass EXCEPT ![p].pc = "update",
                      ![p].snap = [id |-> id, was |-> rows[id], val |-> Refreshed(p, id)]]
    /\ UNCHANGED <<recordVars, progress, ps_sync_state, passes, restarts>>

\* refresh_matching_company and refresh_matching_facility: the SELECT of one
\* row with the run's id ...
RefreshRead(p) ==
    /\ pass[p].pc = "apply" /\ pass[p].queue # <<>>
    /\ \/ /\ Matching(p) = {}
          /\ pass' = [pass EXCEPT ![p].queue = Tail(@)]
       \/ \E id \in Matching(p) :
             pass' = IF Refreshed(p, id) = rows[id].val
                     THEN [pass EXCEPT ![p].queue = Tail(@)]
                     ELSE [pass EXCEPT ![p].pc = "update",
                              ![p].snap = [id |-> id, was |-> rows[id], val |-> Refreshed(p, id)]]
    /\ UNCHANGED <<recordVars, progress, ps_sync_state, passes, restarts>>

\* ... and the UPDATE of all its value columns, if the row is still there.
RefreshUpdate(p) ==
    LET snap == pass[p].snap
        new == [id \in {snap.id} \cap DOMAIN rows |-> [was |-> snap.was, val |-> snap.val]]
    IN  /\ pass[p].pc = "update"
        /\ pending' = new @@ pending
        /\ pass' = [pass EXCEPT ![p].pc = "apply", ![p].queue = Tail(@), ![p].snap = NoRun]
        /\ UNCHANGED <<scenario, ps, rows, used, merchant, cache, req>>
        /\ UNCHANGED <<progress, ps_sync_state, passes, restarts>>

\* Mutant: the state is recorded without the rows' updates.
CommittedRowsDropped == UNCHANGED rows

\* The rows as the transaction leaves them.
CommittedRows ==
    rows' = Updated(rows, [id \in DOMAIN pending |-> [rows[id] EXCEPT !.val = pending[id].val]])

CommitBatch(p) ==
    LET batch == pass[p].batch
        recorded(r) == {e \in ToSet(batch) : e.run = r}
    IN  /\ pass[p].pc = "apply" /\ pass[p].queue = <<>>
        /\ CommittedRows
        /\ pending' = NoUpdates
        /\ ps_sync_state' = [r \in Runs |-> IF recorded(r) = {} THEN ps_sync_state[r]
                                            ELSE (CHOOSE e \in recorded(r) : TRUE).ver]
        /\ progress' = [progress EXCEPT !.processed_runs = @ + Len(batch)]
        /\ pass' = [pass EXCEPT ![p].batch = <<>>,
                       ![p].pc = After(pass[p].todo, pass[p].workflow),
                       ![p].workflow = IF pass[p].todo = <<>> THEN @ + 1 ELSE @]
        /\ UNCHANGED <<scenario, ps, used, merchant, cache, req, passes, restarts>>

-----------------------------------------------------------------------------
(* How a pass ends.                                                        *)

Complete(p) ==
    /\ pass[p].pc = "done"
    /\ progress' = [progress EXCEPT !.state = "completed"]
    /\ pass' = [pass EXCEPT ![p] = NoPass]
    /\ UNCHANGED <<recordVars, ps_sync_state, passes, restarts>>

\* Mutant: the handle is left as it is.
fail_silently == UNCHANGED progress

fail == progress' = [progress EXCEPT !.state = "failed"]

\* Process Street or Postgres refuses: an open transaction is rolled back.
FailPass(p) ==
    /\ Active(p) /\ pass[p].pc # "done"
    /\ fail
    /\ pass' = [pass EXCEPT ![p] = NoPass]
    /\ pending' = NoUpdates
    /\ UNCHANGED <<scenario, ps, rows, used, merchant, cache, req>>
    /\ UNCHANGED <<ps_sync_state, passes, restarts>>

\* The process dies and comes back: the tables stay, memory does not.
Restart ==
    /\ Use("restart") /\ restarts < MaxRestarts
    /\ restarts' = restarts + 1
    /\ progress' = NoProgress
    /\ pass' = [p \in Passes |-> NoPass]
    /\ pending' = NoUpdates
    /\ cache' = [c \in Companies |-> NoComparison]
    /\ req' = [q \in Requests |-> NoRequest]
    /\ UNCHANGED <<scenario, ps, rows, used, merchant, ps_sync_state, passes>>

SyncInit ==
    /\ progress = NoProgress
    /\ pass = [p \in Passes |-> NoPass]
    /\ ps_sync_state = [r \in Runs |-> 0]
    /\ passes = 0 /\ restarts = 0

PassStep(p) ==
    \/ \E r \in Runs : list_workflow_runs(p, r)
    \/ ListDone(p) \/ DeltaCheck(p) \/ FetchBatch(p)
    \/ RefreshRead(p) \/ RefreshUpdate(p) \/ CommitBatch(p)
    \/ Complete(p)

SyncStep == \E p \in Passes : PassStep(p)

Init == RecordsInit /\ SyncInit

Next ==
    \/ RecordsNext /\ UNCHANGED syncVars
    \/ \E p \in Passes, force \in BOOLEAN : Start(p, force)
    \/ SyncStep
    \/ \E p \in Passes : FailPass(p)
    \/ Restart

Spec == Init /\ [][Next]_vars

\* A pass goes on: its task is always scheduled again, and every call it waits
\* for returns.  Nothing is assumed about failures.
FairSpec == Spec /\ WF_vars(SyncStep)

-----------------------------------------------------------------------------

\* The shapes of ClientRecords and of a pass.
TypeOK ==
    /\ RecordsTypeOK
    /\ progress.state \in {"idle", "running", "completed", "failed"}
    /\ progress.total_runs \in 0 .. MaxListing /\ progress.processed_runs \in 0 .. MaxListing
    /\ DOMAIN pass = Passes
    /\ \A p \in Passes :
          /\ pass[p].pc \in {"idle", "listing", "delta", "fetch", "apply", "update", "done"}
          /\ pass[p].workflow \in 1 .. Len(WORKFLOWS) + 1
    /\ \A r \in Runs : ps_sync_state[r] \in 0 .. ps[r]

\* The handle says running exactly while one pass is: the timer's tick and a
\* manual start never overlap, and a pass that ended, failed or died with the
\* process never leaves the claim behind (try_claim_running, fail).
OneRunner ==
    Cardinality({p \in Passes : Active(p)}) = IF progress.state = "running" THEN 1 ELSE 0

\* A pass that reports completion has made up its mind about every listed run,
\* and recorded for each a version that it listed or a later one: progress is
\* never short of, nor past, its total (sync_workflow_runs, on_processed).
CompletionIsHonest ==
    \A p \in Passes : pass[p].pc = "done" =>
       /\ progress.processed_runs = progress.total_runs
       /\ \A r \in scenario.runs :
             \E e \in ToSet(pass[p].list) : e.run = r /\ ps_sync_state[r] >= e.ver

\* A pass has no run twice among those it is to refresh, however often the
\* listing repeats it: "two rows with the same key in one batched upsert would
\* otherwise be an error" (runs_needing_refresh).
RefreshedOnce ==
    \A p \in Passes : \A i, j \in DOMAIN pass[p].todo :
       pass[p].todo[i].run = pass[p].todo[j].run => i = j

\* What ps_sync_state records of a run has reached the rows imported from it:
\* a field not edited by hand holds the run's answer of that version or a later
\* one, across failures and restarts.  Imports, relinks and re-syncs in flight
\* can put older answers back and are left out here.
RecordedIsApplied ==
    scenario.ops \cap {"create", "add", "relink", "apply"} = {} =>
       \A id \in DOMAIN rows : LET r == rows[id].run IN
          ps_sync_state[r] > 0 =>
             \A f \in Answered[ps_sync_state[r]] \ rows[id].edited :
                rows[id].val[f].run = r /\ rows[id].val[f].ver >= ps_sync_state[r]

\* A claimed pass ends: the handle does not stay at running for ever, which
\* would keep every later sync from starting (try_claim_running).
SyncEnds == progress.state = "running" ~> progress.state # "running"

=============================================================================
