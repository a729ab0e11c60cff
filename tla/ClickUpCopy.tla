----------------------------- MODULE ClickUpCopy -----------------------------
(* Copying a comment onto ClickUp tasks (src/src/api/clickup_copy): the rows   *)
(* of a copy and the calls each one makes (exec.rs), the facility dialog's and *)
(* the bulk copy (copy.rs, bulk/copy.rs), and the background job with the row  *)
(* its page polls (bulk/runner.rs, jobs.rs). A server restart ends every copy  *)
(* where it is. ClickUp is a count of the comments each task carries.          *)
EXTENDS Naturals, Sequences, FiniteSets, SequencesExt

CONSTANTS
    Copies,      \* the copies made during a behaviour
    Tasks,       \* ClickUp tasks
    Chunk,       \* CHUNK_SIZE: rows written at once
    MaxItems,    \* MAX_ITEMS: the rows of a dialog's copy
    Budget       \* INLINE_CALL_BUDGET: the calls an inline copy may cost
ASSUME ChunkAssumption == Chunk \in Nat \ {0}

VARIABLES
    copies,      \* copy -> the request or job working through its rows
    jobs,        \* copy -> its client_ops.clickup_copy_jobs row, or NoJob
    pointers,    \* ClickUp: task -> how many main-list pointers it carries
    completed,   \* ClickUp: the rows whose task was set to complete
    posted,      \* ClickUp: row -> how often its comment was posted
    together,    \* history: tasks two rows were about to point at at once
    unsaved      \* history: copies whose last save of progress failed

copyVars == <<copies, jobs, pointers, completed, posted, together, unsaved>>

\* A row is [task, pointer, complete]; its step names the call it makes next,
\* "ok" and "failed" the outcome of its comment.
NoCopy == [at |-> "idle", mode |-> "none", rows |-> <<>>, steps |-> <<>>, chunk |-> 1]
NoJob == [status |-> "none", copied |-> 0, failed |-> 0, total |-> 0, fresh |-> FALSE]
RowIds == Copies \X (1..4)

CopyInit ==
    /\ copies = [k \in Copies |-> NoCopy]
    /\ jobs = [k \in Copies |-> NoJob]
    /\ pointers = [t \in Tasks |-> 0]
    /\ completed = {}
    /\ posted = [row \in RowIds |-> 0]
    /\ together = {} /\ unsaved = {}

RowsOf(k) == DOMAIN copies[k].rows
Outcome(step) == step \in {"ok", "failed"}

\* calls_per_row
CallsOf(row) == 1 + (IF row.pointer THEN 2 ELSE 0) + (IF row.complete THEN 2 ELSE 0)
\* estimated_calls: the worst case, every row costing what the first one may.
EstimatedCalls(rows) == Len(rows) * CallsOf(rows[1])

Begin(k, mode, rows) ==
    /\ copies[k] = NoCopy
    /\ copies' = [copies EXCEPT ![k] =
                    [NoCopy EXCEPT !.at = "rows", !.mode = mode, !.rows = rows,
                                   !.steps = [i \in DOMAIN rows |-> "comment"]]]
    /\ UNCHANGED <<pointers, completed, posted, together, unsaved>>

\* copy_comments_to_tasks, a facility's dialog: some rows inside the request.
CopyCommentsToTasks(k, rows) ==
    /\ Len(rows) \in 1..MaxItems
    /\ Begin(k, "dialog", rows)
    /\ UNCHANGED jobs
\* bulk_copy, when it is cheap enough to run inside its request.
BulkCopyInline(k, rows) ==
    /\ EstimatedCalls(rows) <= Budget
    /\ Begin(k, "inline", rows)
    /\ UNCHANGED jobs

\* A bulk copy that costs more, or was asked to run in the background:
\* jobs::create, then the spawned run_job; a job that cannot be recorded is not run.
StartJob(k, rows) ==
    /\ Begin(k, "job", rows)
    /\ jobs' = [jobs EXCEPT ![k] = [NoJob EXCEPT !.status = "running", !.fresh = TRUE,
                                                 !.total = Len(rows)]]

-----------------------------------------------------------------------------
(* copy_one                                                                   *)

InChunk(k, i) == i \in RowsOf(k) /\ i \in copies[k].chunk..(copies[k].chunk + Chunk - 1)
At(k, i, step) == copies[k].at = "rows" /\ InChunk(k, i) /\ copies[k].steps[i] = step
StepTo(k, i, step) == copies' = [copies EXCEPT ![k].steps[i] = step]

\* No comment, no pointer and no completion: the row failed and can be retried whole.
AfterComment(row, ok) ==
    CASE ~ok -> "failed"
      [] row.pointer -> "look"
      [] row.complete -> "statuses"
      [] OTHER -> "ok"
AfterPointer(row) == IF row.complete THEN "statuses" ELSE "ok"

\* The comment, sent once. A call whose answer is lost counts as failed though
\* the comment may be there.
PostComment(k, i, answer) ==
    /\ At(k, i, "comment")
    /\ StepTo(k, i, AfterComment(copies[k].rows[i], answer = "ok"))
    /\ posted' = IF answer = "refused" THEN posted ELSE [posted EXCEPT ![<<k, i>>] = @ + 1]
    /\ UNCHANGED <<jobs, pointers, completed, together, unsaved>>

\* The task's comments are read; one that has the pointer, or cannot be read,
\* gets none.
LookForPointer(k, i, answer) ==
    LET row == copies[k].rows[i]
    IN /\ At(k, i, "look")
       /\ StepTo(k, i, IF answer = "ok" /\ pointers[row.task] = 0 THEN "pointer"
                       ELSE AfterPointer(row))
       /\ UNCHANGED <<jobs, pointers, completed, posted, together, unsaved>>

PostPointer(k, i, answer) ==
    LET row == copies[k].rows[i]
        others == {other \in RowIds \ {<<k, i>>} :
                     /\ At(other[1], other[2], "pointer")
                     /\ copies[other[1]].rows[other[2]].task = row.task}
    IN /\ At(k, i, "pointer")
       /\ StepTo(k, i, AfterPointer(row))
       /\ pointers' = IF answer = "refused" THEN pointers ELSE [pointers EXCEPT ![row.task] = @ + 1]
       /\ together' = IF others # {} THEN together \cup {row.task} ELSE together
       /\ UNCHANGED <<jobs, completed, posted, unsaved>>

\* complete_task: the list's statuses are read; without a complete one, or on a
\* failure, the row stays as its comment left it.
ReadStatuses(k, i, answer) ==
    /\ At(k, i, "statuses")
    /\ \E offered \in BOOLEAN :
         StepTo(k, i, IF answer = "ok" /\ offered THEN "complete" ELSE "ok")
    /\ UNCHANGED <<jobs, pointers, completed, posted, together, unsaved>>
SetStatus(k, i, answer) ==
    /\ At(k, i, "complete")
    /\ StepTo(k, i, "ok")
    /\ completed' = IF answer = "refused" THEN completed ELSE completed \cup {<<k, i>>}
    /\ UNCHANGED <<jobs, pointers, posted, together, unsaved>>

CopyOne(k, i, answer) ==
    \/ PostComment(k, i, answer) \/ LookForPointer(k, i, answer) \/ PostPointer(k, i, answer)
    \/ ReadStatuses(k, i, answer) \/ SetStatus(k, i, answer)

-----------------------------------------------------------------------------
(* Working through the rows, and the job's row                                *)

ChunkDone(k) ==
    copies[k].at = "rows" /\ \A i \in RowsOf(k) : InChunk(k, i) => Outcome(copies[k].steps[i])
\* The results so far, over all the batches.
Counted(k, step) ==
    Cardinality({i \in RowsOf(k) : i < copies[k].chunk + Chunk /\ copies[k].steps[i] = step})

\* Mutant: the next batch begins with the last row of this one.
NextChunkOverlapping(k) ==
    LET next == copies[k].chunk + Chunk
    IN IF next > Len(copies[k].rows) THEN [copies[k] EXCEPT !.at = "finish"]
       ELSE [copies[k] EXCEPT !.at = "rows", !.chunk = next - 1, !.steps[next - 1] = "comment"]
\* items.chunks(CHUNK_SIZE): the next batch, or the end of the copy.
NextChunk(k) ==
    LET next == copies[k].chunk + Chunk
    IN IF next > Len(copies[k].rows) THEN [copies[k] EXCEPT !.at = "finish"]
       ELSE [copies[k] EXCEPT !.at = "rows", !.chunk = next]

\* record_progress: everything finished so far; a save that fails is only logged.
RecordProgress(k, saved) ==
    /\ ChunkDone(k) /\ copies[k].mode = "job"
    /\ copies' = [copies EXCEPT ![k] = NextChunk(k)]
    /\ jobs' = IF saved THEN [jobs EXCEPT ![k].copied = Counted(k, "ok"),
                                          ![k].failed = Counted(k, "failed"),
                                          ![k].fresh = TRUE] ELSE jobs
    /\ unsaved' = IF saved THEN unsaved \ {k} ELSE unsaved \cup {k}
    /\ UNCHANGED <<pointers, completed, posted, together>>

\* Inside a request there is no progress to save.
NextChunkInRequest(k) ==
    /\ ChunkDone(k) /\ copies[k].mode # "job"
    /\ copies' = [copies EXCEPT ![k] = NextChunk(k)]
    /\ UNCHANGED <<jobs, pointers, completed, posted, together, unsaved>>

\* finish_copy (the cached lists and the activity log are ClickUpAccount's), then
\* jobs::finish, whose own failure is only logged.
FinishCopy(k, saved) ==
    /\ copies[k].at = "finish"
    /\ copies' = [copies EXCEPT ![k].at = "ended"]
    /\ jobs' = IF copies[k].mode = "job" /\ saved
               THEN [jobs EXCEPT ![k].status = "done", ![k].fresh = TRUE] ELSE jobs
    /\ UNCHANGED <<pointers, completed, posted, together, unsaved>>

\* The server stops: requests and spawned jobs are gone, the rows of jobs stay.
Restart ==
    /\ \E k \in Copies : copies[k].at \in {"rows", "finish"}
    /\ copies' = [k \in Copies |->
                    IF copies[k].at \in {"rows", "finish"} THEN [copies[k] EXCEPT !.at = "cut"]
                    ELSE copies[k]]
    /\ UNCHANGED <<jobs, pointers, completed, posted, together, unsaved>>

\* STALE_AFTER passes without an update of the row.
GoesQuiet(k) ==
    /\ jobs[k].status = "running" /\ jobs[k].fresh
    /\ jobs' = [jobs EXCEPT ![k].fresh = FALSE]
    /\ UNCHANGED <<copies, pointers, completed, posted, together, unsaved>>

\* Mutant: the page is shown the stored status.
ShownStatusStored(k) == jobs[k].status
\* select_jobs: a job that says it is running and has gone quiet was cut off.
ShownStatus(k) ==
    IF jobs[k].status = "running" /\ ~jobs[k].fresh THEN "interrupted" ELSE jobs[k].status

CopyStep(k) ==
    \/ \E i \in RowsOf(k), answer \in {"ok", "refused", "lost"} : CopyOne(k, i, answer)
    \/ \E saved \in BOOLEAN : RecordProgress(k, saved) \/ FinishCopy(k, saved)
    \/ NextChunkInRequest(k)

-----------------------------------------------------------------------------
\* Every variable stays in its range.
CopyTypeOK ==
    /\ \A k \in Copies :
         /\ copies[k].at \in {"idle", "rows", "finish", "ended", "cut"}
         /\ Len(copies[k].steps) = Len(copies[k].rows)
         /\ jobs[k].status \in {"none", "running", "done"}
         /\ jobs[k].copied + jobs[k].failed <= jobs[k].total
         /\ copies[k].at # "idle" /\ copies[k].mode = "inline" =>
              EstimatedCalls(copies[k].rows) <= Budget
    /\ \A t \in Tasks : pointers[t] \in Nat

\* However the rows of a copy interleave, are cut off or lose their answers, no
\* row's comment is posted twice.
RowsArePostedOnce == \A row \in RowIds : posted[row] <= 1

\* exec.rs: completing a task is only attempted once its comment is posted.
CompletedHasComment ==
    \A row \in completed : posted[row] = 1 /\ copies[row[1]].steps[row[2]] = "ok"

\* A task gets the pointer once, over all the copies made to it, unless two rows
\* were about to post it at the same time.
OnePointerPerTask == \A t \in Tasks \ together : pointers[t] <= 1

\* The numbers a job's page shows when it is done are the numbers of rows copied
\* and failed, unless saving the last batch failed.
DoneJobAddsUp ==
    \A k \in Copies \ unsaved : jobs[k].status = "done" =>
        /\ jobs[k].copied = Cardinality({i \in RowsOf(k) : copies[k].steps[i] = "ok"})
        /\ jobs[k].copied + jobs[k].failed = jobs[k].total

\* The page that polls a job learns how it ended, or that it was cut off: no
\* restart and no failed save leaves it saying "running" forever.
JobsAreSettled ==
    \A k \in Copies : ShownStatus(k) = "running" ~> ShownStatus(k) \in {"done", "interrupted"}
=============================================================================
