------------------------- MODULE DurableSessionStore -------------------------
(***************************************************************************)
(* The write-through wrapper around InMemorySessionStore: rows of          *)
(* auth.durable_sessions for one kind, the spawned tasks that write and    *)
(* delete them in no particular order, cold-start rehydration, the sweep   *)
(* of expired rows, and process restarts.                                  *)
(*                                                                         *)
(* A row is the serialized session: the payload and last_accessed as they  *)
(* were when save was called.                                              *)
(***************************************************************************)
EXTENDS InMemorySessionStore

CONSTANTS
    MaxTasks,     \* bound on the number of tasks spawned
    MaxRestarts,  \* bound on the number of restarts
    MayFail       \* whether Postgres may refuse a statement

ASSUME BoundsAssumption == MaxTasks \in Nat /\ MaxRestarts \in Nat /\ MayFail \in BOOLEAN

VARIABLES
    rows,      \* [Ids -> a session or None]
    tasks,     \* spawned upserts and deletes that have not run
    spawned,   \* how many were spawned
    restarts,
    fetched,   \* the row a rehydrating request has loaded
    lapsed     \* history: ids whose session expired and was not saved again

durable == <<rows, tasks, spawned, restarts, fetched, lapsed>>
vars == <<storeVars, durable>>

-----------------------------------------------------------------------------
(* Rows.                                                                   *)

Spawn(kind, id, session) ==
    /\ spawned < MaxTasks
    /\ spawned' = spawned + 1
    /\ tasks' = tasks \cup {[n |-> spawned, kind |-> kind, id |-> id, row |-> session]}

\* persist: the row carries last_accessed from before inner.save moves it.
persist(session) ==
    /\ Spawn("upsert", session.id, session)
    /\ lapsed' = lapsed \ {session.id}

upsert_row(task) == rows' = [rows EXCEPT ![task.id] = task.row]

delete_row(id) == rows' = [rows EXCEPT ![id] = None]

\* A spawned task runs whenever the runtime picks it.
RunTask ==
    \E task \in tasks :
        /\ tasks' = tasks \ {task}
        /\ IF task.kind = "upsert" THEN upsert_row(task) ELSE delete_row(task.id)
        /\ UNCHANGED <<storeVars, spawned, restarts, fetched, lapsed>>

\* Its error is only logged.
TaskFails ==
    /\ MayFail
    /\ \E task \in tasks : tasks' = tasks \ {task}
    /\ UNCHANGED <<storeVars, rows, spawned, restarts, fetched, lapsed>>

\* A row is stale by the rule that makes a session expired.
is_stale(row) == is_expired(row, clock)

delete_expired_rows ==
    LET expired == {id \in Ids : rows[id] # None /\ is_stale(rows[id])} IN
    /\ expired # {}
    /\ rows' = [id \in Ids |-> IF id \in expired THEN None ELSE rows[id]]
    /\ UNCHANGED <<storeVars, tasks, spawned, restarts, fetched, lapsed>>

-----------------------------------------------------------------------------
(* The store's operations.                                                 *)

DCreate(id, owner) ==
    /\ Create(id, owner)
    /\ persist(NewSession(id, owner))
    /\ UNCHANGED <<rows, restarts, fetched>>

\* save: the write-through comes first, the map second.
Persist(t) ==
    /\ threads[t].pc = "save"
    /\ persist(Snapshot(t))
    /\ threads' = [threads EXCEPT ![t].pc = "saving"]
    /\ UNCHANGED <<objects, clock, stamp, sweep, metrics, history,
                   rows, restarts, fetched>>

DSave(t) ==
    /\ threads[t].pc = "saving"
    /\ inner_save(Snapshot(t))
    /\ threads' = [threads EXCEPT ![t] = Idle]
    /\ UNCHANGED <<clock, stamp, sweep, history, durable>>

DDelete(t) ==
    /\ Delete(t)
    /\ Spawn("delete", threads[t].id, None)
    /\ UNCHANGED <<rows, restarts, fetched, lapsed>>

Miss(t, id, op, caller) ==
    /\ threads[t].pc = "idle"
    /\ map[id] = None
    /\ rows[id] # None
    /\ threads' = [threads EXCEPT ![t] = [Begin(id, op, caller) EXCEPT !.pc = "fetch"]]
    /\ UNCHANGED <<objects, clock, stamp, sweep, metrics, history, durable>>

\* Mutant: the row is taken however old it is.
FetchStale(t) ==
    LET id == threads[t].id IN
    /\ threads[t].pc = "fetch"
    /\ rows[id] # None
    /\ fetched' = [fetched EXCEPT ![t] = rows[id]]
    /\ threads' = [threads EXCEPT ![t].pc = "insert"]
    /\ UNCHANGED <<objects, clock, stamp, sweep, metrics, history,
                   rows, tasks, spawned, restarts, lapsed>>

\* rehydrate's SELECT: the row is there and fresh enough.
Fetch(t) ==
    LET id == threads[t].id IN
    /\ threads[t].pc = "fetch"
    /\ rows[id] # None
    /\ ~is_stale(rows[id])
    /\ fetched' = [fetched EXCEPT ![t] = rows[id]]
    /\ threads' = [threads EXCEPT ![t].pc = "insert"]
    /\ UNCHANGED <<objects, clock, stamp, sweep, metrics, history,
                   rows, tasks, spawned, restarts, lapsed>>

\* A stale row is a miss, and is deleted on the way out.
FetchDropsStale(t) ==
    LET id == threads[t].id IN
    /\ threads[t].pc = "fetch"
    /\ rows[id] # None
    /\ is_stale(rows[id])
    /\ Spawn("delete", id, None)
    /\ threads' = [threads EXCEPT ![t] = Idle]
    /\ UNCHANGED <<objects, clock, stamp, sweep, metrics, history,
                   rows, restarts, fetched, lapsed>>

\* No row, a query error, or a payload that does not deserialize.
FetchFails(t) ==
    /\ threads[t].pc = "fetch"
    /\ threads' = [threads EXCEPT ![t] = Idle]
    /\ UNCHANGED <<objects, clock, stamp, sweep, metrics, history, durable>>

\* inner.save of what was loaded, whatever the map holds by now.
Insert(t) ==
    /\ threads[t].pc = "insert"
    /\ inner_save(fetched[t])
    /\ fetched' = [fetched EXCEPT ![t] = None]
    /\ threads' = [threads EXCEPT ![t].pc = "reget"]
    /\ UNCHANGED <<clock, stamp, sweep, history, rows, tasks, spawned, restarts, lapsed>>

\* inner.get_handle again: the map's object, which need not be the one just
\* inserted, or none.
Reget(t) ==
    /\ threads[t].pc = "reget"
    /\ \/ CloneHandle(t, threads[t])
       \/ /\ map[threads[t].id] = None
          /\ threads' = [threads EXCEPT ![t] = Idle]
          /\ UNCHANGED <<objects, clock, stamp, sweep, metrics, history>>
    /\ UNCHANGED durable

\* The process dies and starts again: memory and unwritten tasks are lost.
Restart ==
    /\ restarts < MaxRestarts
    /\ restarts' = restarts + 1
    /\ map' = [id \in Ids |-> None]
    /\ threads' = [t \in Threads |-> Idle]
    /\ sweep' = NoSweep
    /\ metrics' = [created |-> 0, deleted |-> 0, expired |-> 0]
    /\ tasks' = {}
    /\ fetched' = [t \in Threads |-> None]
    /\ UNCHANGED <<heap, allocated, clock, stamp, history, rows, spawned, lapsed>>

DSweepStep ==
    /\ SweepStep
    /\ lapsed' = lapsed \cup {id \in Ids : map[id] # None /\ map'[id] = None}
    /\ UNCHANGED <<rows, tasks, spawned, restarts, fetched>>

-----------------------------------------------------------------------------
Init ==
    /\ StoreInit
    /\ rows = [id \in Ids |-> None]
    /\ tasks = {}
    /\ spawned = 0
    /\ restarts = 0
    /\ fetched = [t \in Threads |-> None]
    /\ lapsed = {}

\* What the wrapper hands to the in-process store unchanged.
InnerStep(t) ==
    /\ \/ \E id \in Ids, op \in Ops, caller \in Users : GetHandle(t, id, op, caller)
       \/ Touch(t) \/ Refuse(t) \/ Mutate(t) \/ Cancel(t) \/ Consume(t) \/ Update(t)
    /\ UNCHANGED durable

Next ==
    \/ \E id \in Ids, owner \in Users : DCreate(id, owner)
    \/ \E t \in Threads :
        \/ InnerStep(t)
        \/ Persist(t)
        \/ DSave(t)
        \/ DDelete(t)
        \/ \E id \in Ids, op \in Ops, caller \in Users : Miss(t, id, op, caller)
        \/ Fetch(t)
        \/ FetchDropsStale(t)
        \/ FetchFails(t)
        \/ Insert(t)
        \/ Reget(t)
    \/ RunTask
    \/ TaskFails
    \/ delete_expired_rows
    \/ DSweepStep
    \/ Restart
    \/ Tick /\ UNCHANGED durable

Spec == Init /\ [][Next]_vars

-----------------------------------------------------------------------------
(* Properties.                                                             *)

\* Types; a row, a task and a loaded row carry the id they are filed under.
DurableTypeOK ==
    /\ TypeOK
    /\ \A id \in Ids : rows[id] # None => rows[id] \in ObjType /\ rows[id].id = id
    /\ \A task \in tasks : task.kind = "upsert" => task.row.id = task.id
    /\ \A t \in Threads :
         /\ threads[t].pc = "insert" => fetched[t] # None
         /\ fetched[t] # None => fetched[t].id = threads[t].id

\* A session that expired out of the map is not brought back from its row:
\* the row's last_accessed never runs ahead of the object's, so rehydration
\* finds the row stale too.  It needs requests to end within the timeout.
ExpiredStaysGone ==
    \A t \in Threads : threads[t].pc = "insert" => threads[t].id \notin lapsed

=============================================================================
