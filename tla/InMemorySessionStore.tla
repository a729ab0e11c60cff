------------------------ MODULE InMemorySessionStore ------------------------
(***************************************************************************)
(* The in-process session store: a locked map from session ids to shared   *)
(* session objects (Arc<RwLock<S>>), the requests that go through          *)
(* SessionStoreExt, and the sweep that expires idle sessions.              *)
(*                                                                         *)
(* One action is what one lock scope does.  A request takes the map lock   *)
(* to clone the Arc, the session lock to touch it, the session lock again  *)
(* to run its operation, and the map lock to delete or save; it holds      *)
(* nothing in between, so an Arc can outlive its place in the map.         *)
(*                                                                         *)
(* The payload of a session is the stamp of the last mutation made to it.  *)
(* A refused request (unknown id) changes nothing and is a stutter here.   *)
(***************************************************************************)
EXTENDS Integers, FiniteSets

CONSTANTS
    Ids,          \* session ids
    Users,        \* owners and callers
    Threads,      \* concurrent requests
    Ops,          \* the operations this store's callers use
    None,         \* "no value"
    Timeout,      \* idle timeout
    Granularity,  \* TOUCH_GRANULARITY
    MaxRequest,   \* no request stays in flight longer than this
    MaxTime,      \* bound on the clock
    MaxObjs,      \* bound on the number of session objects
    MaxStamp      \* bound on the number of mutations

ASSUME TimingAssumption ==
    /\ Timeout \in Nat /\ Granularity \in Nat \ {0} /\ MaxRequest \in Nat \ {0}
    /\ MaxTime \in Nat /\ MaxObjs \in Nat /\ MaxStamp \in Nat
ASSUME IdsAssumption == IsFiniteSet(Ids)
ASSUME OpsAssumption == Ops \subseteq {"mutate", "cancel", "consume", "update"}
ASSUME NoneAssumption == None \notin Nat

Objs == 1 .. MaxObjs

VARIABLES
    map,        \* [Ids -> Objs or None]
    heap,       \* the session objects, in the map or detached from it
    allocated,  \* how many of them exist
    clock,
    stamp,      \* how many mutations have been made
    threads,    \* what each request is doing
    sweep,      \* the cleanup task
    metrics,
    created,    \* history: ids that have been handed out
    gone        \* history: ids that were cancelled

objects == <<map, heap, allocated>>
history == <<created, gone>>
storeVars == <<objects, clock, stamp, threads, sweep, metrics, history>>

-----------------------------------------------------------------------------
(* Requests.                                                               *)

NoSession == [id |-> None, owner |-> None, last |-> 0, cancelled |-> FALSE, data |-> 0]

\* since: last_accessed as the request found it; kept for the properties.
Idle == [pc |-> "idle", id |-> None, op |-> None, caller |-> None, obj |-> 0,
         started |-> 0, since |-> 0, data |-> 0, last |-> 0]

\* Mutant: a session is expired at the timeout.
is_expired_at_timeout(session, now) == now - session.last >= Timeout

is_expired(session, now) == now - session.last > Timeout

\* A new Arc replaces whatever the map held under the id.
inner_save(session) ==
    /\ allocated < MaxObjs
    /\ allocated' = allocated + 1
    /\ heap' = [heap EXCEPT ![allocated + 1] = [session EXCEPT !.last = clock]]
    /\ map' = [map EXCEPT ![session.id] = allocated + 1]
    /\ metrics' = IF map[session.id] = None
                  THEN [metrics EXCEPT !.created = @ + 1] ELSE metrics

inner_delete(id) ==
    /\ map' = [map EXCEPT ![id] = None]
    /\ metrics' = IF map[id] # None
                  THEN [metrics EXCEPT !.deleted = @ + 1] ELSE metrics

NewSession(id, owner) ==
    [id |-> id, owner |-> owner, last |-> clock, cancelled |-> FALSE, data |-> 0]

\* The id is a fresh uuid.
Create(id, owner) ==
    /\ id \notin created
    /\ created' = created \cup {id}
    /\ inner_save(NewSession(id, owner))
    /\ UNCHANGED <<clock, stamp, threads, sweep, gone>>

Begin(id, op, caller) ==
    [Idle EXCEPT !.pc = "lookup", !.id = id, !.op = op, !.caller = caller,
                 !.started = clock]

\* The first half of get_handle: clone the Arc, release the map.
CloneHandle(t, request) ==
    /\ map[request.id] # None
    /\ threads' = [threads EXCEPT ![t] =
                     [request EXCEPT !.pc = "touch", !.obj = map[request.id],
                                     !.since = heap[map[request.id]].last]]
    /\ UNCHANGED <<objects, clock, stamp, sweep, metrics, history>>

GetHandle(t, id, op, caller) ==
    /\ threads[t].pc = "idle"
    /\ CloneHandle(t, Begin(id, op, caller))

\* The second half: refresh last_accessed if it is stale enough to matter.
Touch(t) ==
    LET o == threads[t].obj IN
    /\ threads[t].pc = "touch"
    /\ heap' = IF clock - heap[o].last >= Granularity
               THEN [heap EXCEPT ![o].last = clock] ELSE heap
    /\ threads' = [threads EXCEPT ![t].pc = "operate"]
    /\ UNCHANGED <<map, allocated, clock, stamp, sweep, metrics, history>>

\* The gate of the SessionStoreExt methods; ceremonies use with_session,
\* which has no owner check.
Admits(t) ==
    LET session == heap[threads[t].obj] IN
    /\ ~session.cancelled
    /\ threads[t].op # "consume" => session.owner = threads[t].caller

Refuse(t) ==
    /\ threads[t].pc = "operate"
    /\ ~Admits(t)
    /\ threads' = [threads EXCEPT ![t] = Idle]
    /\ UNCHANGED <<objects, clock, stamp, sweep, metrics, history>>

\* Mutant: the operation runs on a clone of the session.
MutateClone(t) ==
    /\ threads[t].pc = "operate" /\ threads[t].op = "mutate"
    /\ Admits(t)
    /\ stamp < MaxStamp
    /\ stamp' = stamp + 1
    /\ threads' = [threads EXCEPT ![t] = Idle]
    /\ UNCHANGED <<objects, clock, sweep, metrics, history>>

\* with_owned_session_mut with an operation that changes the session.
Mutate(t) ==
    /\ threads[t].pc = "operate" /\ threads[t].op = "mutate"
    /\ Admits(t)
    /\ stamp < MaxStamp
    /\ stamp' = stamp + 1
    /\ heap' = [heap EXCEPT ![threads[t].obj].data = stamp + 1]
    /\ threads' = [threads EXCEPT ![t] = Idle]
    /\ UNCHANGED <<map, allocated, clock, sweep, metrics, history>>

\* Mutant: the session is not marked before its map entry is removed.
CancelUnmarked(t) ==
    /\ threads[t].pc = "operate" /\ threads[t].op = "cancel"
    /\ Admits(t)
    /\ gone' = gone \cup {threads[t].id}
    /\ threads' = [threads EXCEPT ![t].pc = "delete"]
    /\ UNCHANGED <<objects, clock, stamp, sweep, metrics, created>>

\* cancel_session: mark under the session's lock, then delete.
Cancel(t) ==
    /\ threads[t].pc = "operate" /\ threads[t].op = "cancel"
    /\ Admits(t)
    /\ heap' = [heap EXCEPT ![threads[t].obj].cancelled = TRUE]
    /\ gone' = gone \cup {threads[t].id}
    /\ threads' = [threads EXCEPT ![t].pc = "delete"]
    /\ UNCHANGED <<map, allocated, clock, stamp, sweep, metrics, created>>

\* A ceremony is read out, then deleted, then verified.
Consume(t) ==
    /\ threads[t].pc = "operate" /\ threads[t].op = "consume"
    /\ Admits(t)
    /\ threads' = [threads EXCEPT ![t].pc = "delete"]
    /\ UNCHANGED <<objects, clock, stamp, sweep, metrics, history>>

Delete(t) ==
    /\ threads[t].pc = "delete"
    /\ inner_delete(threads[t].id)
    /\ threads' = [threads EXCEPT ![t] = Idle]
    /\ UNCHANGED <<heap, allocated, clock, stamp, sweep, history>>

\* set_unidentified_mode: mutate and clone under the lock, then save the
\* clone, which carries the metadata of the moment it was taken.
Update(t) ==
    LET o == threads[t].obj IN
    /\ threads[t].pc = "operate" /\ threads[t].op = "update"
    /\ Admits(t)
    /\ stamp < MaxStamp
    /\ stamp' = stamp + 1
    /\ heap' = [heap EXCEPT ![o].data = stamp + 1]
    /\ threads' = [threads EXCEPT ![t].pc = "save", ![t].data = stamp + 1,
                                  ![t].last = heap[o].last]
    /\ UNCHANGED <<map, allocated, clock, sweep, metrics, history>>

\* The clone that is saved.
Snapshot(t) ==
    [id |-> threads[t].id, owner |-> heap[threads[t].obj].owner,
     last |-> threads[t].last, cancelled |-> FALSE, data |-> threads[t].data]

Save(t) ==
    /\ threads[t].pc = "save"
    /\ inner_save(Snapshot(t))
    /\ threads' = [threads EXCEPT ![t] = Idle]
    /\ UNCHANGED <<clock, stamp, sweep, history>>

-----------------------------------------------------------------------------
(* The cleanup task.                                                       *)

NoSweep == [pc |-> "idle", now |-> 0, candidates |-> {}, removed |-> 0]

scan_expired_candidates ==
    LET expired == {o \in Objs : \E id \in Ids : map[id] = o /\ is_expired(heap[o], clock)} IN
    /\ sweep.pc = "idle"
    /\ expired # {}
    /\ sweep' = [pc |-> "remove", now |-> clock, candidates |-> expired, removed |-> 0]
    /\ UNCHANGED <<objects, clock, stamp, threads, metrics, history>>

RemoveFromMap(os) ==
    LET ids == {id \in Ids : map[id] # None /\ \E o \in os : heap[o].id = id} IN
    /\ sweep.pc = "remove"
    /\ map' = [id \in Ids |-> IF id \in ids THEN None ELSE map[id]]
    /\ sweep' = [NoSweep EXCEPT !.pc = "count", !.removed = Cardinality(ids)]
    /\ UNCHANGED <<heap, allocated, clock, stamp, threads, metrics, history>>

\* Mutant: the pass does not end if every candidate has been touched.
remove_stuck ==
    LET still == {o \in sweep.candidates : is_expired(heap[o], sweep.now)} IN
    still # {} /\ RemoveFromMap(still)

\* Each candidate's own Arc is looked at again, the map entry removed by id.
remove_still_expired ==
    RemoveFromMap({o \in sweep.candidates : is_expired(heap[o], sweep.now)})

CountExpired ==
    /\ sweep.pc = "count"
    /\ metrics' = [metrics EXCEPT !.expired = @ + sweep.removed]
    /\ sweep' = NoSweep
    /\ UNCHANGED <<objects, clock, stamp, threads, history>>

\* Time passes; no request outlives MaxRequest.
Tick ==
    /\ clock < MaxTime
    /\ \A t \in Threads : threads[t].pc # "idle" => clock - threads[t].started < MaxRequest
    /\ clock' = clock + 1
    /\ UNCHANGED <<objects, stamp, threads, sweep, metrics, history>>

-----------------------------------------------------------------------------
StoreInit ==
    /\ map = [id \in Ids |-> None]
    /\ heap = [o \in Objs |-> NoSession]
    /\ allocated = 0
    /\ clock = 0
    /\ stamp = 0
    /\ threads = [t \in Threads |-> Idle]
    /\ sweep = NoSweep
    /\ metrics = [created |-> 0, deleted |-> 0, expired |-> 0]
    /\ created = {}
    /\ gone = {}

SweepStep == scan_expired_candidates \/ remove_still_expired \/ CountExpired

RequestStep(t) ==
    \/ \E id \in Ids, op \in Ops, caller \in Users : GetHandle(t, id, op, caller)
    \/ Touch(t)
    \/ Refuse(t)
    \/ Mutate(t)
    \/ Cancel(t)
    \/ Consume(t)
    \/ Delete(t)
    \/ Update(t)
    \/ Save(t)

StoreNext ==
    \/ \E id \in Ids, owner \in Users : Create(id, owner)
    \/ \E t \in Threads : RequestStep(t)
    \/ SweepStep
    \/ Tick

StoreSpec == StoreInit /\ [][StoreNext]_storeVars

\* The cleanup loop ticks for ever and survives a panicking tick.
FairStoreSpec == StoreSpec /\ WF_storeVars(SweepStep)

-----------------------------------------------------------------------------
(* Properties.                                                             *)

ObjType == [id : Ids \cup {None}, owner : Users \cup {None}, last : Nat,
            cancelled : BOOLEAN, data : Nat]

\* Types, and the map holds each session under its own id.
TypeOK ==
    /\ map \in [Ids -> Objs \cup {None}]
    /\ heap \in [Objs -> ObjType]
    /\ allocated \in 0 .. MaxObjs
    /\ clock \in Nat /\ stamp \in Nat
    /\ \A id \in Ids : map[id] # None => map[id] <= allocated /\ heap[map[id]].id = id
    /\ \A o \in Objs : o <= allocated => heap[o].id \in Ids
    /\ threads = [t \in Threads |-> threads[t]]
    /\ \A t \in Threads : threads[t].pc # "idle" => threads[t].id \in Ids
    /\ \A t \in Threads : threads[t].pc \in {"touch", "operate", "save", "delete"} =>
         threads[t].obj \in Objs /\ heap[threads[t].obj].id = threads[t].id
    /\ metrics \in [created : Nat, deleted : Nat, expired : Nat]
    /\ sweep.candidates \subseteq Objs

\* The counters add up: every session counted as created is in the map or was
\* counted once, as deleted or as expired, whatever the sweep, a cancel and a
\* re-save of the same id do in between.
MetricsBalance ==
    metrics.created = Cardinality({id \in Ids : map[id] # None})
                        + metrics.deleted + metrics.expired + sweep.removed

\* A request about to be let in by the gate never holds a session that has
\* been cancelled, even if it took its handle before the cancel: from the
\* moment the flag is set every access path treats the session as gone.
CancelledIsGone ==
    \A t \in Threads :
        threads[t].pc = "operate" /\ Admits(t) => threads[t].id \notin gone

\* A request that will be let in to write holds the object the map holds, so
\* that its write is not lost, unless the session had been idle for more than the
\* timeout before the request (concurrent cancel and sweep included).
WriteLostOnlyIfIdle ==
    \A t \in Threads :
        /\ threads[t].pc = "operate" /\ threads[t].op # "consume"
        /\ Admits(t)
        /\ map[threads[t].id] # threads[t].obj
        => clock - threads[t].since > Timeout

\* The object the sweep takes out of the map is itself expired: never one
\* that was touched, or a fresh one saved under the same id, after the scan.
\* It needs requests to end within Timeout less the touch granularity.
SweptOnlyWhenIdle ==
    [][sweep.pc = "remove" /\ sweep'.pc = "count" =>
         \A id \in Ids : map[id] # None /\ map'[id] = None =>
            is_expired(heap[map[id]], clock)]_storeVars

\* A session left idle past the timeout leaves the map, or is accessed again:
\* the sweep never gets stuck between its two passes.
IdleSessionsExpire ==
    \A id \in Ids :
        (map[id] # None /\ is_expired(heap[map[id]], clock))
            ~> (map[id] = None \/ ~is_expired(heap[map[id]], clock))

-----------------------------------------------------------------------------
(* The store as its callers see it: a session is live while its object is  *)
(* in the map and it has not been cancelled.                               *)

Status ==
    [id \in Ids |-> IF id \notin created THEN "unused"
                    ELSE IF id \in gone THEN "cancelled"
                    ELSE IF map[id] = None THEN "expired"
                    ELSE "live"]

Data ==
    [id \in Ids |-> IF Status[id] = "live" THEN heap[map[id]].data ELSE 0]

Promise == INSTANCE SessionStore WITH status <- Status, data <- Data, stamp <- stamp

\* With the operations "mutate" and "cancel" the locked map, its detached
\* objects and the two-pass sweep implement the atomic store: each lock scope
\* is one of its calls or changes nothing a caller can see.
KeepsPromise == Promise!Spec

=============================================================================
