--------------------- MODULE InMemorySessionStore_proofs ---------------------
(***************************************************************************)
(* Proofs about the in-process session store, for any number of sessions,  *)
(* users and concurrent requests and any timing.                           *)
(***************************************************************************)
EXTENDS InMemorySessionStore, FiniteSetTheorems, TLAPS

ThreadType ==
    [pc : {"idle", "touch", "operate", "save", "delete"},
     id : Ids \cup {None}, op : Ops \cup {None}, caller : Users \cup {None},
     obj : Nat, started : Nat, since : Nat, data : Nat, last : Nat]

SweepType ==
    [pc : {"idle", "remove", "count"}, now : Nat, candidates : SUBSET Objs, removed : Nat]

MetricsType == [created : Nat, deleted : Nat, expired : Nat]

Typed ==
    /\ map \in [Ids -> Objs \cup {None}]
    /\ heap \in [Objs -> ObjType]
    /\ allocated \in 0 .. MaxObjs
    /\ clock \in Nat
    /\ stamp \in Nat
    /\ threads \in [Threads -> ThreadType]
    /\ sweep \in SweepType
    /\ metrics \in MetricsType
    /\ created \subseteq Ids
    /\ gone \subseteq Ids

\* The map, the objects and the requests agree on which session is which.
Filed ==
    /\ \A id \in Ids : map[id] # None => map[id] <= allocated /\ heap[map[id]].id = id
    /\ \A o \in Objs : o <= allocated => heap[o].id \in Ids
    /\ \A t \in Threads : threads[t].pc # "idle" =>
         /\ threads[t].id \in Ids
         /\ threads[t].op \in Ops
         /\ threads[t].obj \in Objs
         /\ threads[t].obj <= allocated
         /\ heap[threads[t].obj].id = threads[t].id

IInv == Typed /\ Filed

-----------------------------------------------------------------------------
(* The type invariant.                                                     *)

\* An idle request, an empty slot and a sweep at rest have their types.
LEMMA Constants ==
    /\ Idle \in ThreadType
    /\ NoSession \in ObjType
    /\ NoSweep \in SweepType
    /\ Idle.pc = "idle"
BY DEF Idle, ThreadType, NoSession, ObjType, NoSweep, SweepType

\* The initial state satisfies the invariant.
LEMMA InitIInv == StoreInit => IInv
<1> SUFFICES ASSUME StoreInit PROVE IInv
  OBVIOUS
<1>1. Typed
  BY Constants, TimingAssumption DEF StoreInit, Typed, MetricsType, Objs
<1>2. Filed
  BY Constants, TimingAssumption DEF StoreInit, Filed, Objs
<1> QED BY <1>1, <1>2 DEF IInv

\* inner_save files the session it is given under its id and leaves the other
\* objects alone.
LEMMA SaveKeeps ==
    ASSUME IInv, NEW session \in ObjType, session.id \in Ids, inner_save(session)
    PROVE  /\ map' \in [Ids -> Objs \cup {None}]
           /\ heap' \in [Objs -> ObjType]
           /\ allocated' \in 0 .. MaxObjs
           /\ allocated' = allocated + 1
           /\ metrics' \in MetricsType
           /\ \A o \in Objs : o <= allocated => heap'[o] = heap[o]
           /\ heap'[allocated + 1].id = session.id
           /\ \A id \in Ids : map'[id] # None => map'[id] <= allocated' /\ heap'[map'[id]].id = id
           /\ \A o \in Objs : o <= allocated' => heap'[o].id \in Ids
<1> USE TimingAssumption, NoneAssumption DEF IInv, Typed, Objs
<1>1. allocated + 1 \in Objs /\ allocated' = allocated + 1 /\ allocated' \in 0 .. MaxObjs
  BY DEF inner_save
<1>2. map' \in [Ids -> Objs \cup {None}]
  BY <1>1 DEF inner_save
<1>3. [session EXCEPT !.last = clock] \in ObjType /\ [session EXCEPT !.last = clock].id = session.id
  BY DEF ObjType
<1>4. heap' \in [Objs -> ObjType] /\ heap'[allocated + 1].id = session.id
  BY <1>1, <1>3 DEF inner_save
<1>5. \A o \in Objs : o <= allocated => heap'[o] = heap[o]
  BY <1>1 DEF inner_save
<1>6. metrics' \in MetricsType
  <2>1. metrics' \in {metrics, [metrics EXCEPT !.created = metrics.created + 1]}
    BY DEF inner_save
  <2>2. metrics \in MetricsType
    OBVIOUS
  <2> HIDE DEF IInv, Typed
  <2>3. [metrics EXCEPT !.created = metrics.created + 1] \in MetricsType
    BY <2>2 DEF MetricsType
  <2> QED BY <2>1, <2>2, <2>3
<1>7. \A id \in Ids : map'[id] # None => map'[id] <= allocated' /\ heap'[map'[id]].id = id
  <2> SUFFICES ASSUME NEW id \in Ids, map'[id] # None
               PROVE  map'[id] <= allocated' /\ heap'[map'[id]].id = id
    OBVIOUS
  <2>1. CASE id = session.id
    BY <2>1, <1>1, <1>4 DEF inner_save
  <2>2. CASE id # session.id
    <3>1. map'[id] = map[id]
      BY <2>2 DEF inner_save
    <3>2. map[id] <= allocated /\ heap[map[id]].id = id /\ map[id] \in Objs
      BY <3>1 DEF Filed
    <3> QED BY <3>1, <3>2, <1>1, <1>5
  <2> QED BY <2>1, <2>2
<1>8. \A o \in Objs : o <= allocated' => heap'[o].id \in Ids
  <2> SUFFICES ASSUME NEW o \in Objs, o <= allocated' PROVE heap'[o].id \in Ids
    OBVIOUS
  <2>1. CASE o = allocated + 1
    BY <2>1, <1>4
  <2>2. CASE o <= allocated
    BY <2>2, <1>5 DEF Filed
  <2> QED BY <2>1, <2>2, <1>1
<1> QED BY <1>1, <1>2, <1>4, <1>5, <1>6, <1>7, <1>8

\* A step that changes only fields of objects other than the id, and hands
\* one request on, keeps Filed.
LEMMA SameIds ==
    ASSUME IInv, NEW t \in Threads, NEW new \in ThreadType,
           new.pc # "idle" => /\ threads[t].pc # "idle"
                              /\ new.id = threads[t].id
                              /\ new.op = threads[t].op
                              /\ new.obj = threads[t].obj,
           threads' = [threads EXCEPT ![t] = new],
           allocated' = allocated, heap' \in [Objs -> ObjType],
           \A o \in Objs : heap'[o].id = heap[o].id,
           map' \in [Ids -> Objs \cup {None}],
           \A id \in Ids : map'[id] # None => map'[id] = map[id]
    PROVE  Filed' /\ threads' \in [Threads -> ThreadType]
<1>1. threads' \in [Threads -> ThreadType]
  BY DEF IInv, Typed
<1>2. ASSUME NEW id \in Ids, map'[id] # None
      PROVE  map'[id] <= allocated' /\ heap'[map'[id]].id = id
  BY <1>2 DEF IInv, Typed, Filed
<1>3. ASSUME NEW o \in Objs, o <= allocated' PROVE heap'[o].id \in Ids
  BY <1>3 DEF IInv, Filed
<1>4. ASSUME NEW u \in Threads, threads'[u].pc # "idle"
      PROVE  /\ threads'[u].id \in Ids
             /\ threads'[u].op \in Ops
             /\ threads'[u].obj \in Objs
             /\ threads'[u].obj <= allocated'
             /\ heap'[threads'[u].obj].id = threads'[u].id
  <2>1. CASE u = t
    <3>1. threads'[u] = new
      BY <2>1 DEF IInv, Typed
    <3> QED BY <3>1, <2>1, <1>4 DEF IInv, Filed
  <2>2. CASE u # t
    <3>1. threads'[u] = threads[u]
      BY <2>2 DEF IInv, Typed
    <3> QED BY <3>1, <1>4 DEF IInv, Filed
  <2> QED BY <2>1, <2>2
<1> QED BY <1>1, <1>2, <1>3, <1>4 DEF Filed

\* Every step of a request keeps the invariant.
LEMMA RequestIInv ==
    ASSUME IInv, NEW t \in Threads, RequestStep(t)
    PROVE  IInv'
<1> USE TimingAssumption, NoneAssumption
<1>0. threads[t] \in ThreadType
  BY DEF IInv, Typed
<1>h. threads[t].pc # "idle" =>
        threads[t].obj \in Objs /\ heap[threads[t].obj] \in ObjType /\ threads[t].id \in Ids
  BY DEF IInv, Typed, Filed
<1>1. ASSUME NEW id \in Ids, NEW op \in Ops, NEW caller \in Users, GetHandle(t, id, op, caller)
      PROVE  IInv'
  <2> DEFINE o == map[id]
             new == [Begin(id, op, caller) EXCEPT !.pc = "touch", !.obj = o, !.since = heap[o].last]
  <2>1. o \in Objs /\ o <= allocated /\ heap[o].id = id /\ heap[o] \in ObjType
    BY <1>1 DEF GetHandle, CloneHandle, Begin, Idle, IInv, Typed, Filed
  <2>n. o \in Nat /\ heap[o].last \in Nat /\ clock \in Nat
    BY <2>1 DEF ObjType, IInv, Typed, Objs
  <2>2. new \in ThreadType /\ new.id = id /\ new.op = op /\ new.obj = o
    <3>1. /\ Begin(id, op, caller) \in
               [pc : {"lookup"}, id : Ids, op : Ops, caller : Users, obj : Nat,
                started : Nat, since : Nat, data : Nat, last : Nat]
          /\ Begin(id, op, caller).id = id /\ Begin(id, op, caller).op = op
      BY <2>n DEF Begin, Idle
    <3> HIDE DEF o
    <3> QED BY <2>n, <3>1 DEF ThreadType
  <2>3. threads' = [threads EXCEPT ![t] = new]
    BY <1>1 DEF GetHandle, CloneHandle, Begin, Idle
  <2>4. UNCHANGED <<map, heap, allocated, clock, stamp, sweep, metrics, created, gone>>
    BY <1>1 DEF GetHandle, CloneHandle, objects, history
  <2> HIDE DEF o, new
  <2>5. threads' \in [Threads -> ThreadType] /\ threads'[t] = new
        /\ \A u \in Threads : u # t => threads'[u] = threads[u]
    BY <2>2, <2>3 DEF IInv, Typed
  <2>6. Typed'
    BY <2>4, <2>5 DEF IInv, Typed
  <2>7. Filed'
    BY <2>1, <2>2, <2>4, <2>5 DEF IInv, Filed
  <2> QED BY <2>6, <2>7 DEF IInv
<1>2. CASE Touch(t)
  <2> DEFINE new == [threads[t] EXCEPT !.pc = "operate"]
  <2>1. new \in ThreadType /\ threads' = [threads EXCEPT ![t] = new]
    BY <1>2, <1>0 DEF Touch, ThreadType
  <2>2. heap' \in [Objs -> ObjType] /\ \A o \in Objs : heap'[o].id = heap[o].id
    BY <1>2, <1>h DEF Touch, IInv, Typed, ObjType
  <2>3. UNCHANGED <<map, allocated, clock, stamp, sweep, metrics, created, gone>>
    BY <1>2 DEF Touch, history
  <2>f. new.id = threads[t].id /\ new.op = threads[t].op /\ new.obj = threads[t].obj
        /\ threads[t].pc # "idle"
    BY <1>2, <1>0 DEF Touch, ThreadType
  <2>4. Filed' /\ threads' \in [Threads -> ThreadType]
    <3> HIDE DEF new
    <3> QED BY <2>f, <2>1, <2>2, <2>3, SameIds DEF IInv, Typed
  <2> QED BY <2>2, <2>3, <2>4 DEF IInv, Typed
<1>3. CASE Refuse(t)
  <2>1. threads' = [threads EXCEPT ![t] = Idle]
        /\ UNCHANGED <<map, heap, allocated, clock, stamp, sweep, metrics, created, gone>>
    BY <1>3 DEF Refuse, objects, history
  <2>2. Filed' /\ threads' \in [Threads -> ThreadType]
    BY <2>1, Constants, SameIds DEF IInv, Typed
  <2> QED BY <2>1, <2>2 DEF IInv, Typed
<1>4. CASE Mutate(t)
  <2>1. threads' = [threads EXCEPT ![t] = Idle]
        /\ UNCHANGED <<map, allocated, clock, sweep, metrics, created, gone>>
        /\ stamp' = stamp + 1
    BY <1>4 DEF Mutate, history
  <2>2. heap' \in [Objs -> ObjType] /\ \A o \in Objs : heap'[o].id = heap[o].id
    BY <1>4, <1>h DEF Mutate, IInv, Typed, ObjType
  <2>3. Filed' /\ threads' \in [Threads -> ThreadType]
    BY <2>1, <2>2, Constants, SameIds DEF IInv, Typed
  <2> QED BY <2>1, <2>2, <2>3 DEF IInv, Typed
<1>5. CASE Cancel(t)
  <2> DEFINE new == [threads[t] EXCEPT !.pc = "delete"]
  <2>1. new \in ThreadType /\ threads' = [threads EXCEPT ![t] = new]
    BY <1>5, <1>0 DEF Cancel, ThreadType
  <2>2. heap' \in [Objs -> ObjType] /\ \A o \in Objs : heap'[o].id = heap[o].id
    BY <1>5, <1>h DEF Cancel, IInv, Typed, ObjType
  <2>3. UNCHANGED <<map, allocated, clock, stamp, sweep, metrics, created>>
        /\ gone' = gone \cup {threads[t].id}
    BY <1>5 DEF Cancel
  <2>f. new.id = threads[t].id /\ new.op = threads[t].op /\ new.obj = threads[t].obj
        /\ threads[t].pc # "idle"
    BY <1>5, <1>0 DEF Cancel, ThreadType
  <2>4. Filed' /\ threads' \in [Threads -> ThreadType]
    <3> HIDE DEF new
    <3> QED BY <2>f, <2>1, <2>2, <2>3, SameIds DEF IInv, Typed
  <2> QED BY <1>5, <1>h, <2>2, <2>3, <2>4 DEF IInv, Typed, Cancel
<1>6. CASE Consume(t)
  <2> DEFINE new == [threads[t] EXCEPT !.pc = "delete"]
  <2>1. new \in ThreadType /\ threads' = [threads EXCEPT ![t] = new]
    BY <1>6, <1>0 DEF Consume, ThreadType
  <2>2. UNCHANGED <<map, heap, allocated, clock, stamp, sweep, metrics, created, gone>>
    BY <1>6 DEF Consume, objects, history
  <2>f. new.id = threads[t].id /\ new.op = threads[t].op /\ new.obj = threads[t].obj
        /\ threads[t].pc # "idle"
    BY <1>6, <1>0 DEF Consume, ThreadType
  <2>3. Filed' /\ threads' \in [Threads -> ThreadType]
    <3> HIDE DEF new
    <3> QED BY <2>f, <2>1, <2>2, SameIds DEF IInv, Typed
  <2> QED BY <2>2, <2>3 DEF IInv, Typed
<1>7. CASE Delete(t)
  <2>1. threads' = [threads EXCEPT ![t] = Idle]
        /\ UNCHANGED <<heap, allocated, clock, stamp, sweep, created, gone>>
    BY <1>7 DEF Delete, history
  <2>2. map' \in [Ids -> Objs \cup {None}] /\ \A id \in Ids : map'[id] # None => map'[id] = map[id]
    BY <1>7 DEF Delete, inner_delete, IInv, Typed
  <2>3. metrics' \in MetricsType
    BY <1>7 DEF Delete, inner_delete, IInv, Typed, MetricsType
  <2>4. Filed' /\ threads' \in [Threads -> ThreadType]
    BY <2>1, <2>2, Constants, SameIds DEF IInv, Typed
  <2> QED BY <2>1, <2>2, <2>3, <2>4 DEF IInv, Typed
<1>8. CASE Update(t)
  <2> DEFINE new == [threads[t] EXCEPT !.pc = "save", !.data = stamp + 1,
                                       !.last = heap[threads[t].obj].last]
  <2>1. heap[threads[t].obj] \in ObjType
    BY <1>8, <1>h DEF Update
  <2>n. heap[threads[t].obj].last \in Nat /\ stamp + 1 \in Nat
    BY <2>1 DEF ObjType, IInv, Typed
  <2>r. new \in ThreadType
    BY <1>0, <2>n DEF ThreadType
  <2>2. new \in ThreadType /\ threads' = [threads EXCEPT ![t] = new]
    BY <1>8, <2>r DEF Update, IInv, Typed
  <2>3. heap' \in [Objs -> ObjType] /\ \A o \in Objs : heap'[o].id = heap[o].id
    BY <1>8, <1>h DEF Update, IInv, Typed, ObjType
  <2>4. UNCHANGED <<map, allocated, clock, sweep, metrics, created, gone>> /\ stamp' = stamp + 1
    BY <1>8 DEF Update, history
  <2>5. new.id = threads[t].id /\ new.op = threads[t].op /\ new.obj = threads[t].obj
        /\ threads[t].pc # "idle"
    BY <1>8, <1>0 DEF Update, ThreadType
  <2> HIDE DEF new
  <2>6. Filed' /\ threads' \in [Threads -> ThreadType]
    BY <2>2, <2>3, <2>4, <2>5, SameIds DEF IInv, Typed
  <2> QED BY <2>3, <2>4, <2>6 DEF IInv, Typed
<1>9. CASE Save(t)
  <2>1. Snapshot(t) \in ObjType /\ Snapshot(t).id \in Ids
    BY <1>9, <1>0, <1>h DEF Save, Snapshot, ObjType, ThreadType
  <2>2. inner_save(Snapshot(t))
    BY <1>9 DEF Save
  <2>3. threads' = [threads EXCEPT ![t] = Idle] /\ UNCHANGED <<clock, stamp, sweep, created, gone>>
    BY <1>9 DEF Save, history
  <2>4. /\ map' \in [Ids -> Objs \cup {None}]
        /\ heap' \in [Objs -> ObjType]
        /\ allocated' \in 0 .. MaxObjs
        /\ allocated' = allocated + 1
        /\ metrics' \in MetricsType
        /\ \A o \in Objs : o <= allocated => heap'[o] = heap[o]
        /\ \A id \in Ids : map'[id] # None => map'[id] <= allocated' /\ heap'[map'[id]].id = id
        /\ \A o \in Objs : o <= allocated' => heap'[o].id \in Ids
    BY <2>1, <2>2, SaveKeeps
  <2>5. threads' \in [Threads -> ThreadType] /\ threads'[t].pc = "idle"
        /\ \A u \in Threads : u # t => threads'[u] = threads[u]
    BY <2>3, Constants DEF IInv, Typed
  <2>6. Typed'
    BY <2>3, <2>4, <2>5 DEF IInv, Typed
  <2>7. \A u \in Threads : threads'[u].pc # "idle" =>
          /\ threads'[u].id \in Ids
          /\ threads'[u].op \in Ops
          /\ threads'[u].obj \in Objs
          /\ threads'[u].obj <= allocated'
          /\ heap'[threads'[u].obj].id = threads'[u].id
    BY <2>4, <2>5 DEF IInv, Typed, Filed, Objs
  <2> QED BY <2>4, <2>6, <2>7 DEF IInv, Filed
<1> QED BY <1>1, <1>2, <1>3, <1>4, <1>5, <1>6, <1>7, <1>8, <1>9 DEF RequestStep

\* A new session has its type, under its own id.
LEMMA NewSessionType ==
    ASSUME IInv, NEW id \in Ids, NEW owner \in Users
    PROVE  NewSession(id, owner) \in ObjType /\ NewSession(id, owner).id = id
BY DEF NewSession, ObjType, IInv, Typed

\* Every step of the cleanup task keeps the invariant.
LEMMA SweepIInv ==
    ASSUME IInv, SweepStep
    PROVE  IInv'
<1> USE TimingAssumption, NoneAssumption
<1>1. CASE scan_expired_candidates
  <2>1. UNCHANGED <<map, heap, allocated, clock, stamp, threads, metrics, created, gone>>
    BY <1>1 DEF scan_expired_candidates, objects, history
  <2>2. sweep' \in SweepType
    BY <1>1 DEF scan_expired_candidates, SweepType, IInv, Typed
  <2> QED BY <2>1, <2>2 DEF IInv, Typed, Filed
<1>2. CASE remove_still_expired
  <2> DEFINE os  == {o \in sweep.candidates : is_expired(heap[o], sweep.now)}
             ids == {id \in Ids : map[id] # None /\ \E o \in os : heap[o].id = id}
  <2>0. RemoveFromMap(os)
    BY <1>2 DEF remove_still_expired
  <2> HIDE DEF os
  <2>1. /\ UNCHANGED <<heap, allocated, clock, stamp, threads, metrics, created, gone>>
        /\ map' = [id \in Ids |-> IF id \in ids THEN None ELSE map[id]]
        /\ sweep' = [NoSweep EXCEPT !.pc = "count", !.removed = Cardinality(ids)]
    BY <2>0 DEF RemoveFromMap, history
  <2>2. Cardinality(ids) \in Nat
    <3>1. ids \in SUBSET Ids
      OBVIOUS
    <3> HIDE DEF ids
    <3>2. IsFiniteSet(ids)
      BY <3>1, IdsAssumption, FS_Subset
    <3> QED BY <3>2, FS_CardinalityType
  <2> HIDE DEF ids
  <2>3. sweep' \in SweepType
    BY <2>1, <2>2, Constants DEF SweepType
  <2>4. map' \in [Ids -> Objs \cup {None}] /\ \A id \in Ids : map'[id] # None => map'[id] = map[id]
    BY <2>1 DEF IInv, Typed
  <2>5. Typed'
    BY <2>1, <2>3, <2>4 DEF IInv, Typed
  <2>6. Filed'
    BY <2>1, <2>4 DEF IInv, Filed
  <2> QED BY <2>5, <2>6 DEF IInv
<1>3. CASE CountExpired
  <2>1. UNCHANGED <<map, heap, allocated, clock, stamp, threads, created, gone>>
    BY <1>3 DEF CountExpired, objects, history
  <2>2. sweep' \in SweepType /\ metrics' \in MetricsType
    BY <1>3, Constants DEF CountExpired, IInv, Typed, SweepType, MetricsType
  <2> QED BY <2>1, <2>2 DEF IInv, Typed, Filed
<1> QED BY <1>1, <1>2, <1>3 DEF SweepStep

\* Every step of the store keeps the invariant.
LEMMA NextIInv == IInv /\ [StoreNext]_storeVars => IInv'
<1> SUFFICES ASSUME IInv, [StoreNext]_storeVars PROVE IInv'
  OBVIOUS
<1> USE TimingAssumption, NoneAssumption
<1>1. ASSUME NEW id \in Ids, NEW owner \in Users, Create(id, owner)
      PROVE  IInv'
  <2>1. inner_save(NewSession(id, owner)) /\ created' = created \cup {id}
        /\ UNCHANGED <<clock, stamp, threads, sweep, gone>>
    BY <1>1 DEF Create
  <2>2. /\ map' \in [Ids -> Objs \cup {None}]
        /\ heap' \in [Objs -> ObjType]
        /\ allocated' \in 0 .. MaxObjs
        /\ allocated' = allocated + 1
        /\ metrics' \in MetricsType
        /\ \A o \in Objs : o <= allocated => heap'[o] = heap[o]
        /\ \A i \in Ids : map'[i] # None => map'[i] <= allocated' /\ heap'[map'[i]].id = i
        /\ \A o \in Objs : o <= allocated' => heap'[o].id \in Ids
    BY <2>1, NewSessionType, SaveKeeps
  <2>3. Typed'
    BY <2>1, <2>2 DEF IInv, Typed
  <2>4. \A u \in Threads : threads'[u].pc # "idle" =>
          /\ threads'[u].id \in Ids
          /\ threads'[u].op \in Ops
          /\ threads'[u].obj \in Objs
          /\ threads'[u].obj <= allocated'
          /\ heap'[threads'[u].obj].id = threads'[u].id
    BY <2>1, <2>2 DEF IInv, Typed, Filed, Objs
  <2> QED BY <2>2, <2>3, <2>4 DEF IInv, Filed
<1>2. ASSUME NEW t \in Threads, RequestStep(t) PROVE IInv'
  BY <1>2, RequestIInv
<1>3. CASE SweepStep
  BY <1>3, SweepIInv
<1>4. CASE Tick
  BY <1>4 DEF Tick, objects, history, IInv, Typed, Filed
<1>5. CASE UNCHANGED storeVars
  BY <1>5 DEF storeVars, objects, history, IInv, Typed, Filed
<1> QED BY <1>1, <1>2, <1>3, <1>4, <1>5 DEF StoreNext

\* The invariant holds in every reachable state.
LEMMA Invariant == StoreSpec => []IInv
BY InitIInv, NextIInv, PTL DEF StoreSpec

\* Types are kept, and the map files each session under its own id, whatever
\* the requests, the re-saves and the sweep do.
THEOREM TypeCorrect == StoreSpec => []TypeOK
<1>1. IInv => TypeOK
  <2> SUFFICES ASSUME IInv PROVE TypeOK
    OBVIOUS
  <2>1. \A t \in Threads : threads[t].pc # "idle" => threads[t].id \in Ids
    BY DEF IInv, Filed
  <2>2. \A t \in Threads : threads[t].pc \in {"touch", "operate", "save", "delete"} =>
          threads[t].obj \in Objs /\ heap[threads[t].obj].id = threads[t].id
    BY DEF IInv, Filed
  <2> QED BY <2>1, <2>2 DEF IInv, Typed, Filed, TypeOK, SweepType, MetricsType
<1> QED BY <1>1, Invariant, PTL

-----------------------------------------------------------------------------
(* The counters.                                                           *)

Present == {id \in Ids : map[id] # None}

\* What the sweep has removed and not yet counted is zero outside "count".
Balanced == MetricsBalance /\ (sweep.pc # "count" => sweep.removed = 0)

\* The ids in the map form a finite set.
LEMMA PresentFinite == IsFiniteSet(Present) /\ Cardinality(Present) \in Nat
<1>1. Present \in SUBSET Ids
  BY DEF Present
<1>2. IsFiniteSet(Present)
  BY <1>1, IdsAssumption, FS_Subset
<1> QED BY <1>2, FS_CardinalityType

\* inner_save moves the number of sessions and the created counter together.
LEMMA SaveBalances ==
    ASSUME IInv, Balanced, NEW session, session.id \in Ids, inner_save(session),
           UNCHANGED sweep
    PROVE  Balanced'
<1> USE TimingAssumption, NoneAssumption
<1>1. Present' = Present \cup {session.id}
  BY DEF inner_save, Present, IInv, Typed, Objs
<1>2. Cardinality(Present') =
        IF session.id \in Present THEN Cardinality(Present) ELSE Cardinality(Present) + 1
  BY <1>1, PresentFinite, FS_AddElement
<1>3. session.id \in Present <=> map[session.id] # None
  BY DEF Present
<1>4. metrics'.created = (IF session.id \in Present THEN metrics.created ELSE metrics.created + 1)
      /\ metrics'.deleted = metrics.deleted /\ metrics'.expired = metrics.expired
  BY <1>3 DEF inner_save, IInv, Typed, MetricsType
<1>5. /\ metrics.created \in Nat /\ metrics.deleted \in Nat /\ metrics.expired \in Nat
      /\ sweep.removed \in Nat
  BY DEF IInv, Typed, MetricsType, SweepType
<1>6. metrics.created = Cardinality(Present) + metrics.deleted + metrics.expired + sweep.removed
  BY DEF Balanced, MetricsBalance, Present
<1>7. metrics'.created
        = Cardinality(Present') + metrics'.deleted + metrics'.expired + sweep'.removed
  BY <1>2, <1>4, <1>5, <1>6, PresentFinite
<1>8. MetricsBalance'
  BY <1>7 DEF MetricsBalance, Present
<1> QED BY <1>8 DEF Balanced

\* inner_delete moves the number of sessions and the deleted counter together.
LEMMA DeleteBalances ==
    ASSUME IInv, Balanced, NEW id \in Ids, inner_delete(id), UNCHANGED sweep
    PROVE  Balanced'
<1>1. Present' = Present \ {id}
  BY DEF inner_delete, Present, IInv, Typed
<1>2. Cardinality(Present') =
        IF id \in Present THEN Cardinality(Present) - 1 ELSE Cardinality(Present)
  BY <1>1, PresentFinite, FS_RemoveElement
<1>3. id \in Present <=> map[id] # None
  BY DEF Present
<1>4. metrics'.deleted = (IF id \in Present THEN metrics.deleted + 1 ELSE metrics.deleted)
      /\ metrics'.created = metrics.created /\ metrics'.expired = metrics.expired
  BY <1>3 DEF inner_delete, IInv, Typed, MetricsType
<1>5. /\ metrics.created \in Nat /\ metrics.deleted \in Nat /\ metrics.expired \in Nat
      /\ sweep.removed \in Nat
  BY DEF IInv, Typed, MetricsType, SweepType
<1>6. metrics.created = Cardinality(Present) + metrics.deleted + metrics.expired + sweep.removed
  BY DEF Balanced, MetricsBalance, Present
<1>7. metrics'.created
        = Cardinality(Present') + metrics'.deleted + metrics'.expired + sweep'.removed
  BY <1>2, <1>4, <1>5, <1>6, PresentFinite
<1>8. MetricsBalance'
  BY <1>7 DEF MetricsBalance, Present
<1> QED BY <1>8 DEF Balanced

\* The sweep takes out as many sessions as it will count.
LEMMA SweepBalances ==
    ASSUME IInv, Balanced, SweepStep
    PROVE  Balanced'
<1>n. /\ metrics.created \in Nat /\ metrics.deleted \in Nat /\ metrics.expired \in Nat
      /\ sweep.removed \in Nat
  BY DEF IInv, Typed, MetricsType, SweepType
<1>b. metrics.created = Cardinality(Present) + metrics.deleted + metrics.expired + sweep.removed
  BY DEF Balanced, MetricsBalance, Present
<1>1. CASE scan_expired_candidates
  <2>1. sweep'.removed = 0 /\ sweep.removed = 0 /\ UNCHANGED <<map, metrics>>
    BY <1>1 DEF scan_expired_candidates, objects, Balanced
  <2> QED BY <2>1 DEF Balanced, MetricsBalance
<1>2. CASE remove_still_expired
  <2> DEFINE os  == {o \in sweep.candidates : is_expired(heap[o], sweep.now)}
             ids == {id \in Ids : map[id] # None /\ \E o \in os : heap[o].id = id}
  <2>0. RemoveFromMap(os)
    BY <1>2 DEF remove_still_expired
  <2> HIDE DEF os
  <2>1. /\ UNCHANGED metrics
        /\ map' = [id \in Ids |-> IF id \in ids THEN None ELSE map[id]]
        /\ sweep' = [NoSweep EXCEPT !.pc = "count", !.removed = Cardinality(ids)]
        /\ sweep.pc = "remove"
    BY <2>0 DEF RemoveFromMap
  <2>2. ids \in SUBSET Present
    BY DEF Present
  <2> HIDE DEF ids
  <2>3. Present' = Present \ ids
    BY <2>1, <2>2 DEF Present
  <2>4. IsFiniteSet(ids) /\ IsFiniteSet(Present')
    <3>1. Present' \in SUBSET Present
      BY <2>3
    <3> QED BY <2>2, <3>1, PresentFinite, FS_Subset
  <2>5. Cardinality(Present' \cup ids)
          = Cardinality(Present') + Cardinality(ids) - Cardinality(Present' \cap ids)
    BY <2>4, FS_Union
  <2>6. Present' \cup ids = Present /\ Present' \cap ids = {}
    BY <2>2, <2>3
  <2>7. /\ Cardinality(Present') \in Nat /\ Cardinality(ids) \in Nat
        /\ Cardinality(Present) = Cardinality(Present') + Cardinality(ids)
    <3>1. Cardinality(Present') \in Nat
      BY <2>4, FS_CardinalityType
    <3>2. Cardinality(ids) \in Nat
      BY <2>4, FS_CardinalityType
    <3>3. Cardinality(Present' \cap ids) = 0
      BY <2>6, FS_EmptySet
    <3> QED BY <2>5, <2>6, <3>1, <3>2, <3>3
  <2>8. sweep'.removed = Cardinality(ids) /\ sweep'.pc = "count" /\ sweep.removed = 0
    BY <2>1 DEF NoSweep, Balanced
  <2>9. metrics'.created
          = Cardinality(Present') + metrics'.deleted + metrics'.expired + sweep'.removed
    BY <1>n, <1>b, <2>1, <2>7, <2>8
  <2>10. MetricsBalance'
    BY <2>9 DEF MetricsBalance, Present
  <2> QED BY <2>8, <2>10 DEF Balanced
<1>3. CASE CountExpired
  <2>1. UNCHANGED map /\ sweep'.removed = 0
    BY <1>3 DEF CountExpired, objects, NoSweep
  <2>2. metrics'.expired = metrics.expired + sweep.removed
        /\ metrics'.created = metrics.created /\ metrics'.deleted = metrics.deleted
    BY <1>3 DEF CountExpired, IInv, Typed, MetricsType
  <2>3. Present' = Present
    BY <2>1 DEF Present
  <2>4. metrics'.created
          = Cardinality(Present') + metrics'.deleted + metrics'.expired + sweep'.removed
    BY <1>n, <1>b, <2>1, <2>2, <2>3, PresentFinite
  <2>5. MetricsBalance'
    BY <2>4 DEF MetricsBalance, Present
  <2> QED BY <2>1, <2>5 DEF Balanced
<1> QED BY <1>1, <1>2, <1>3 DEF SweepStep

\* The counters balance: every session counted as created is in the map or
\* was counted once as deleted or expired, for any operations and any number
\* of concurrent requests.
THEOREM CountersBalance == StoreSpec => []MetricsBalance
<1>1. StoreInit => Balanced
  <2> SUFFICES ASSUME StoreInit PROVE Balanced
    OBVIOUS
  <2>1. {id \in Ids : map[id] # None} = {}
    BY DEF StoreInit
  <2> QED BY <2>1, FS_EmptySet, SMTT(40) DEF StoreInit, NoSweep, Balanced, MetricsBalance
<1>2. IInv /\ Balanced /\ [StoreNext]_storeVars => Balanced'
  <2> SUFFICES ASSUME IInv, Balanced, [StoreNext]_storeVars PROVE Balanced'
    OBVIOUS
  <2>0. UNCHANGED <<map, metrics, sweep>> => Balanced'
    BY DEF Balanced, MetricsBalance
  <2>1. ASSUME NEW id \in Ids, NEW owner \in Users, Create(id, owner) PROVE Balanced'
    BY <2>1, NewSessionType, SaveBalances DEF Create
  <2>2. ASSUME NEW t \in Threads, RequestStep(t) PROVE Balanced'
    <3>1. CASE \/ \E id \in Ids, op \in Ops, caller \in Users : GetHandle(t, id, op, caller)
               \/ Touch(t) \/ Refuse(t) \/ Mutate(t) \/ Cancel(t) \/ Consume(t) \/ Update(t)
      BY <3>1, <2>0 DEF GetHandle, CloneHandle, Touch, Refuse, Mutate, Cancel, Consume,
                        Update, objects
    <3>2. CASE Delete(t)
      BY <3>2, DeleteBalances DEF Delete, IInv, Filed
    <3>3. CASE Save(t)
      <4>1. Snapshot(t).id \in Ids
        BY <3>3 DEF Save, Snapshot, IInv, Filed
      <4> QED BY <3>3, <4>1, SaveBalances DEF Save
    <3> QED BY <2>2, <3>1, <3>2, <3>3 DEF RequestStep
  <2>3. CASE SweepStep
    BY <2>3, SweepBalances
  <2>4. CASE Tick
    BY <2>4, <2>0 DEF Tick, objects
  <2>5. CASE UNCHANGED storeVars
    BY <2>5, <2>0 DEF storeVars, objects
  <2> QED BY <2>1, <2>2, <2>3, <2>4, <2>5 DEF StoreNext
<1>3. Balanced => MetricsBalance
  BY DEF Balanced
<1> QED BY <1>1, <1>2, <1>3, Invariant, PTL DEF StoreSpec

-----------------------------------------------------------------------------
(* The operations of a Group Prep session: mutate and cancel.              *)

SimpleOps == Ops \subseteq {"mutate", "cancel"}

\* A session has one object, which is flagged exactly if it was cancelled and
\* whose timestamp is never in the future.
OneObject ==
    /\ \A o, p \in Objs :
         o <= allocated /\ p <= allocated /\ heap[o].id = heap[p].id => o = p
    /\ \A o \in Objs : o <= allocated =>
         /\ heap[o].id \in created
         /\ heap[o].cancelled <=> heap[o].id \in gone
         /\ heap[o].last <= clock
    /\ gone \subseteq created

\* A request's handle is the map's object, or that object was cancelled, or
\* it had been idle past the timeout when the request took it.
Held(t) ==
    /\ threads[t].pc # "save"
    /\ threads[t].pc = "delete" => threads[t].id \in gone
    /\ threads[t].pc \in {"touch", "operate"} =>
         /\ threads[t].since <= heap[threads[t].obj].last
         /\ \/ map[threads[t].id] = threads[t].obj
            \/ heap[threads[t].obj].cancelled
            \/ clock - threads[t].since > Timeout

SInv ==
    /\ IInv
    /\ OneObject
    /\ \A t \in Threads : Held(t)
    /\ sweep.now <= clock
    /\ \A o \in sweep.candidates : o <= allocated

\* The initial state satisfies it.
LEMMA InitSInv == StoreInit => SInv
<1> SUFFICES ASSUME StoreInit PROVE SInv
  OBVIOUS
<1>1. IInv
  BY InitIInv
<1>2. OneObject
  BY DEF StoreInit, OneObject, Objs
<1>3. \A t \in Threads : Held(t)
  BY DEF StoreInit, Held, Idle
<1>4. sweep.now <= clock /\ \A o \in sweep.candidates : o <= allocated
  BY DEF StoreInit, NoSweep
<1> QED BY <1>1, <1>2, <1>3, <1>4 DEF SInv

\* The types of what a working request refers to.
LEMMA WorkingFacts ==
    ASSUME SInv, NEW t \in Threads, threads[t].pc # "idle"
    PROVE  /\ threads[t].obj \in Objs
           /\ threads[t].obj <= allocated
           /\ threads[t].id \in Ids
           /\ threads[t].id = heap[threads[t].obj].id
           /\ threads[t].id \in created
           /\ threads[t].since \in Nat
           /\ heap[threads[t].obj] \in ObjType
           /\ heap[threads[t].obj].last \in Nat
<1>1. threads[t] \in ThreadType
  BY DEF SInv, IInv, Typed
<1>2. threads[t].obj \in Objs /\ threads[t].obj <= allocated /\ threads[t].id \in Ids
      /\ threads[t].id = heap[threads[t].obj].id
  BY DEF SInv, IInv, Filed
<1>3. heap[threads[t].obj] \in ObjType
  BY <1>2 DEF SInv, IInv, Typed
<1>4. threads[t].id \in created
  BY <1>2 DEF SInv, OneObject
<1> QED BY <1>1, <1>2, <1>3, <1>4 DEF ThreadType, ObjType

\* A new session does not disturb the others.
LEMMA CreateSInv ==
    ASSUME SInv, NEW id \in Ids, NEW owner \in Users, Create(id, owner), IInv'
    PROVE  SInv'
<1> USE TimingAssumption, NoneAssumption
<1> DEFINE n == allocated + 1
           session == NewSession(id, owner)
<1>1. inner_save(session) /\ created' = created \cup {id} /\ id \notin created
      /\ UNCHANGED <<clock, stamp, threads, sweep, gone>>
  BY DEF Create
<1>2. session \in ObjType /\ session.id = id /\ session.cancelled = FALSE
  BY NewSessionType DEF NewSession, SInv
<1>3. allocated' = n /\ n \in Objs /\ allocated \in Nat
  BY <1>1 DEF inner_save, SInv, IInv, Typed, Objs
<1>4. \A o \in Objs : o <= allocated => heap'[o] = heap[o]
  BY <1>1, <1>2, SaveKeeps DEF SInv
<1>5. heap'[n].id = id /\ heap'[n].cancelled = FALSE /\ heap'[n].last = clock
  <2>1. heap'[n] = [session EXCEPT !.last = clock]
    BY <1>1, <1>3 DEF inner_save, SInv, IInv, Typed
  <2> HIDE DEF session
  <2> QED BY <1>2, <2>1 DEF ObjType
<1>6. \A i \in Ids : i # id => map'[i] = map[i]
  BY <1>1, <1>2 DEF inner_save, SInv, IInv, Typed
<1> HIDE DEF session, n
<1>7. \A o \in Objs : o <= allocated' => o <= allocated \/ o = n
  BY <1>3 DEF Objs, n
<1>8. clock \in Nat
  BY DEF SInv, IInv, Typed
<1>9. OneObject'
  <2>1. ASSUME NEW o \in Objs, NEW p \in Objs, o <= allocated', p <= allocated',
               heap'[o].id = heap'[p].id
        PROVE  o = p
    BY <2>1, <1>1, <1>4, <1>5, <1>7 DEF SInv, OneObject
  <2>2. ASSUME NEW o \in Objs, o <= allocated'
        PROVE  /\ heap'[o].id \in created'
               /\ heap'[o].cancelled <=> heap'[o].id \in gone'
               /\ heap'[o].last <= clock'
    <3>1. CASE o = n
      <4>1. heap'[o].id = id /\ heap'[o].cancelled = FALSE /\ heap'[o].last = clock
        BY <3>1, <1>5
      <4>2. id \in created' /\ id \notin gone' /\ clock <= clock'
        BY <1>1, <1>8 DEF SInv, OneObject
      <4> QED BY <4>1, <4>2
    <3>2. CASE o <= allocated
      BY <3>2, <1>1, <1>4 DEF SInv, OneObject
    <3> QED BY <2>2, <3>1, <3>2, <1>7
  <2>3. gone' \subseteq created'
    BY <1>1 DEF SInv, OneObject
  <2> QED BY <2>1, <2>2, <2>3 DEF OneObject
<1>10. ASSUME NEW t \in Threads PROVE Held(t)'
  <2>0. threads' = threads /\ clock' = clock /\ gone' = gone
    BY <1>1
  <2>1. CASE threads[t].pc = "idle"
    BY <2>0, <2>1 DEF Held
  <2>2. CASE threads[t].pc # "idle"
    <3>1. threads[t].id # id /\ threads[t].id \in Ids /\ threads[t].obj \in Objs
          /\ threads[t].obj <= allocated
      BY <2>2, <1>1, WorkingFacts
    <3>2. map'[threads[t].id] = map[threads[t].id] /\ heap'[threads[t].obj] = heap[threads[t].obj]
      BY <3>1, <1>4, <1>6
    <3> QED BY <2>0, <3>2 DEF SInv, Held
  <2> QED BY <2>1, <2>2
<1>11. sweep'.now <= clock' /\ \A o \in sweep'.candidates : o <= allocated'
  BY <1>1, <1>3 DEF SInv, IInv, Typed, SweepType, Objs, n
<1> QED BY <1>9, <1>10, <1>11 DEF SInv

\* A step that leaves the map, the clock and the cancelled sessions alone and
\* changes at most one object, moving its timestamp towards the present, keeps
\* the invariant if the request that takes it still holds what it should.
LEMMA QuietStep ==
    ASSUME SInv, IInv', NEW t \in Threads, Held(t)',
           UNCHANGED <<map, allocated, clock, sweep, created, gone>>,
           \A u \in Threads : u # t => threads'[u] = threads[u],
           \A o \in Objs : /\ heap'[o].id = heap[o].id
                           /\ heap'[o].cancelled = heap[o].cancelled
                           /\ heap'[o].last \in {heap[o].last, clock}
    PROVE  SInv'
<1>0. clock \in Nat
  BY DEF SInv, IInv, Typed
<1>1. OneObject'
  BY <1>0, SMTT(40) DEF SInv, OneObject
<1>2. ASSUME NEW u \in Threads PROVE Held(u)'
  <2>1. CASE u = t
    BY <2>1
  <2>2. CASE u # t /\ threads[u].pc = "idle"
    BY <2>2 DEF Held
  <2>3. CASE u # t /\ threads[u].pc # "idle"
    <3>1. threads'[u] = threads[u]
      BY <2>3
    <3>2. threads[u].obj \in Objs /\ threads[u].obj <= allocated /\ threads[u].since \in Nat
          /\ heap[threads[u].obj].last \in Nat
      BY <2>3, WorkingFacts
    <3>3. heap[threads[u].obj].last <= clock
      BY <3>2 DEF SInv, OneObject
    <3>4. heap'[threads[u].obj].last \in {heap[threads[u].obj].last, clock}
          /\ heap'[threads[u].obj].cancelled = heap[threads[u].obj].cancelled
      BY <3>2
    <3>5. Held(u)
      BY DEF SInv
    <3>6. threads[u].since <= heap[threads[u].obj].last
            => threads[u].since <= heap'[threads[u].obj].last
      BY <1>0, <3>2, <3>3, <3>4, SMTT(40)
    <3> QED BY <3>1, <3>4, <3>5, <3>6 DEF Held
  <2> QED BY <2>1, <2>2, <2>3
<1>3. sweep'.now <= clock' /\ \A o \in sweep'.candidates : o <= allocated'
  BY DEF SInv
<1> QED BY <1>1, <1>2, <1>3 DEF SInv

\* Cancelling flags the session's only object.
LEMMA CancelSInv ==
    ASSUME SInv, IInv', NEW t \in Threads, Cancel(t)
    PROVE  SInv'
<1> DEFINE x == threads[t].obj
           i == threads[t].id
<1>1. /\ UNCHANGED <<map, allocated, clock, sweep, created>>
      /\ gone' = gone \cup {i}
      /\ heap' = [heap EXCEPT ![x].cancelled = TRUE]
      /\ threads' = [threads EXCEPT ![t].pc = "delete"]
      /\ threads[t].pc = "operate"
  BY DEF Cancel
<1>2. x \in Objs /\ x <= allocated /\ i = heap[x].id /\ i \in created
  BY <1>1, WorkingFacts
<1>3. \A o \in Objs : /\ heap'[o].id = heap[o].id
                      /\ heap'[o].last = heap[o].last
                      /\ o # x => heap'[o].cancelled = heap[o].cancelled
  BY <1>1, <1>2 DEF SInv, IInv, Typed, ObjType
<1>4. heap'[x].cancelled = TRUE
  BY <1>1, <1>2 DEF SInv, IInv, Typed, ObjType
<1>5. \A u \in Threads : u # t => threads'[u] = threads[u]
  BY <1>1 DEF SInv, IInv, Typed
<1>6. threads'[t].pc = "delete" /\ threads'[t].id = i
  BY <1>1 DEF SInv, IInv, Typed, ThreadType
<1> HIDE DEF x, i
<1>7. OneObject'
  <2>1. ASSUME NEW o \in Objs, NEW p \in Objs, o <= allocated', p <= allocated',
               heap'[o].id = heap'[p].id
        PROVE  o = p
    BY <2>1, <1>1, <1>3 DEF SInv, OneObject
  <2>2. ASSUME NEW o \in Objs, o <= allocated'
        PROVE  /\ heap'[o].id \in created'
               /\ heap'[o].cancelled <=> heap'[o].id \in gone'
               /\ heap'[o].last <= clock'
    <3>1. CASE o = x
      BY <3>1, <2>2, <1>1, <1>2, <1>3, <1>4 DEF SInv, OneObject
    <3>2. CASE o # x
      <4>1. heap[o].id # i
        BY <3>2, <2>2, <1>1, <1>2 DEF SInv, OneObject
      <4> QED BY <3>2, <4>1, <2>2, <1>1, <1>3 DEF SInv, OneObject
    <3> QED BY <3>1, <3>2
  <2>3. gone' \subseteq created'
    BY <1>1, <1>2 DEF SInv, OneObject
  <2> QED BY <2>1, <2>2, <2>3 DEF OneObject
<1>8. ASSUME NEW u \in Threads PROVE Held(u)'
  <2>1. CASE u = t
    BY <2>1, <1>1, <1>6 DEF Held
  <2>2. CASE u # t /\ threads[u].pc = "idle"
    BY <2>2, <1>5 DEF Held
  <2>3. CASE u # t /\ threads[u].pc # "idle"
    <3>1. threads'[u] = threads[u] /\ threads[u].obj \in Objs
      BY <2>3, <1>5, WorkingFacts
    <3>2. heap'[threads[u].obj].last = heap[threads[u].obj].last
          /\ (heap[threads[u].obj].cancelled => heap'[threads[u].obj].cancelled)
      BY <3>1, <1>3, <1>4
    <3>3. Held(u)
      BY DEF SInv
    <3> QED BY <3>1, <3>2, <3>3, <1>1 DEF Held
  <2> QED BY <2>1, <2>2, <2>3
<1>9. sweep'.now <= clock' /\ \A o \in sweep'.candidates : o <= allocated'
  BY <1>1 DEF SInv
<1> QED BY <1>7, <1>8, <1>9 DEF SInv

\* Only cancelled sessions are deleted.
LEMMA DeleteSInv ==
    ASSUME SInv, IInv', NEW t \in Threads, Delete(t)
    PROVE  SInv'
<1> DEFINE i == threads[t].id
<1>1. /\ UNCHANGED <<heap, allocated, clock, sweep, created, gone>>
      /\ map' = [map EXCEPT ![i] = None]
      /\ threads' = [threads EXCEPT ![t] = Idle]
      /\ threads[t].pc = "delete"
  BY DEF Delete, inner_delete, history
<1>2. i \in gone
  BY <1>1 DEF SInv, Held
<1>3. \A u \in Threads : u # t => threads'[u] = threads[u]
  BY <1>1 DEF SInv, IInv, Typed
<1>4. threads'[t].pc = "idle"
  BY <1>1 DEF SInv, IInv, Typed, Idle
<1>5. \A j \in Ids : j # i => map'[j] = map[j]
  BY <1>1 DEF SInv, IInv, Typed
<1> HIDE DEF i
<1>6. OneObject'
  BY <1>1 DEF SInv, OneObject
<1>7. ASSUME NEW u \in Threads PROVE Held(u)'
  <2>1. CASE u = t
    BY <2>1, <1>4 DEF Held
  <2>2. CASE u # t /\ threads[u].pc = "idle"
    BY <2>2, <1>3 DEF Held
  <2>3. CASE u # t /\ threads[u].pc # "idle"
    <3>1. threads'[u] = threads[u] /\ threads[u].obj \in Objs /\ threads[u].obj <= allocated
          /\ threads[u].id \in Ids /\ threads[u].id = heap[threads[u].obj].id
      BY <2>3, <1>3, WorkingFacts
    <3>2. Held(u)
      BY DEF SInv
    <3>3. CASE threads[u].id = i
      <4>1. heap[threads[u].obj].cancelled
        BY <3>1, <3>3, <1>2 DEF SInv, OneObject
      <4>2. heap' = heap /\ gone' = gone
        BY <1>1
      <4> QED BY <4>1, <4>2, <3>1, <3>2, Zenon DEF Held
    <3>4. CASE threads[u].id # i
      <4>1. heap' = heap /\ gone' = gone /\ clock' = clock
        BY <1>1
      <4>2. map'[threads[u].id] = map[threads[u].id]
        BY <3>1, <3>4, <1>5
      <4> QED BY <4>1, <4>2, <3>1, <3>2, Zenon DEF Held
    <3> QED BY <3>3, <3>4
  <2> QED BY <2>1, <2>2, <2>3
<1>8. sweep'.now <= clock' /\ \A o \in sweep'.candidates : o <= allocated'
  BY <1>1 DEF SInv
<1> QED BY <1>6, <1>7, <1>8 DEF SInv

\* Every step of a request keeps it.
LEMMA RequestSInv ==
    ASSUME SimpleOps, SInv, IInv', NEW t \in Threads, RequestStep(t)
    PROVE  SInv'
<1>0. threads[t] \in ThreadType /\ threads \in [Threads -> ThreadType] /\ clock \in Nat
      /\ heap \in [Objs -> ObjType]
  BY DEF SInv, IInv, Typed
<1>o. threads[t].pc # "idle" => threads[t].op \in {"mutate", "cancel"}
  BY DEF SInv, IInv, Filed, SimpleOps
<1>h. Held(t)
  BY DEF SInv
<1>1. ASSUME NEW id \in Ids, NEW op \in Ops, NEW caller \in Users, GetHandle(t, id, op, caller)
      PROVE  SInv'
  <2>1. UNCHANGED <<map, heap, allocated, clock, sweep, created, gone>>
        /\ \A u \in Threads : u # t => threads'[u] = threads[u]
    BY <1>1, <1>0 DEF GetHandle, CloneHandle, objects, history
  <2>2. /\ threads'[t].pc = "touch"
        /\ threads'[t].id = id
        /\ threads'[t].obj = map[id]
        /\ threads'[t].since = heap[map[id]].last
    BY <1>1, <1>0 DEF GetHandle, CloneHandle, Begin, Idle
  <2>3. map[id] \in Objs
    BY <1>1 DEF GetHandle, CloneHandle, Begin, Idle, SInv, IInv, Typed
  <2>4. heap[map[id]].last \in Nat
    BY <2>3, <1>0 DEF ObjType
  <2>5. Held(t)'
    BY <2>1, <2>2, <2>4 DEF Held
  <2> QED BY <2>1, <2>5, QuietStep
<1>2. CASE Touch(t)
  <2> DEFINE x == threads[t].obj
  <2>0. threads[t].pc = "touch" /\ x \in Objs /\ x <= allocated /\ heap[x].last \in Nat
        /\ threads[t].since \in Nat
    BY <1>2, WorkingFacts DEF Touch
  <2>1. UNCHANGED <<map, allocated, clock, sweep, created, gone>>
        /\ \A u \in Threads : u # t => threads'[u] = threads[u]
    BY <1>2, <1>0 DEF Touch, history
  <2>2. \A o \in Objs : /\ heap'[o].id = heap[o].id
                        /\ heap'[o].cancelled = heap[o].cancelled
                        /\ heap'[o].last \in {heap[o].last, clock}
    BY <1>2, <1>0, <2>0 DEF Touch, ObjType
  <2>3. threads'[t].pc = "operate" /\ threads'[t].id = threads[t].id
        /\ threads'[t].obj = x /\ threads'[t].since = threads[t].since
    BY <1>2, <1>0 DEF Touch, ThreadType
  <2> HIDE DEF x
  <2>4. heap[x].last <= clock
    BY <2>0 DEF SInv, OneObject
  <2>5. threads[t].since <= heap[x].last
        /\ (map[threads[t].id] = x \/ heap[x].cancelled \/ clock - threads[t].since > Timeout)
    BY <1>h, <2>0 DEF Held, x
  <2>6. threads[t].since <= heap'[x].last
    BY <1>0, <2>0, <2>2, <2>4, <2>5
  <2>7. Held(t)'
    BY <2>0, <2>1, <2>2, <2>3, <2>5, <2>6 DEF Held
  <2> QED BY <2>1, <2>2, <2>7, QuietStep
<1>3. CASE Refuse(t)
  <2>1. UNCHANGED <<map, heap, allocated, clock, sweep, created, gone>>
        /\ (\A u \in Threads : u # t => threads'[u] = threads[u])
        /\ threads'[t].pc = "idle"
    BY <1>3, <1>0 DEF Refuse, objects, history, Idle
  <2>2. Held(t)'
    BY <2>1 DEF Held
  <2> QED BY <2>1, <2>2, QuietStep
<1>4. CASE Mutate(t)
  <2>0. threads[t].obj \in Objs
    BY <1>4, WorkingFacts DEF Mutate
  <2>1. UNCHANGED <<map, allocated, clock, sweep, created, gone>>
        /\ (\A u \in Threads : u # t => threads'[u] = threads[u])
        /\ threads'[t].pc = "idle"
    BY <1>4, <1>0 DEF Mutate, history, Idle
  <2>2. \A o \in Objs : /\ heap'[o].id = heap[o].id
                        /\ heap'[o].cancelled = heap[o].cancelled
                        /\ heap'[o].last \in {heap[o].last, clock}
    BY <1>4, <1>0, <2>0 DEF Mutate, ObjType
  <2>3. Held(t)'
    BY <2>1 DEF Held
  <2> QED BY <2>1, <2>2, <2>3, QuietStep
<1>5. CASE Cancel(t)
  BY <1>5, CancelSInv
<1>6. CASE Delete(t)
  BY <1>6, DeleteSInv
<1>7. ~Consume(t) /\ ~Update(t) /\ ~Save(t)
  BY <1>o, <1>h DEF Consume, Update, Save, Held
<1> QED BY <1>1, <1>2, <1>3, <1>4, <1>5, <1>6, <1>7 DEF RequestStep

\* The sweep takes out only objects idle past the timeout, and a handle to one
\* was taken when it already was.
LEMMA SweepSInv ==
    ASSUME SInv, IInv', SweepStep
    PROVE  SInv'
<1> USE TimingAssumption, NoneAssumption
<1>0. clock \in Nat /\ sweep \in SweepType /\ heap \in [Objs -> ObjType]
  BY DEF SInv, IInv, Typed
<1>1. CASE scan_expired_candidates
  <2>1. UNCHANGED <<map, heap, allocated, clock, threads, created, gone>> /\ sweep'.now = clock
    BY <1>1 DEF scan_expired_candidates, objects, history
  <2>2. \A o \in sweep'.candidates : o <= allocated'
    <3>1. \A o \in sweep'.candidates : o \in Objs /\ \E id \in Ids : map[id] = o
      BY <1>1 DEF scan_expired_candidates
    <3>2. \A o \in Objs : o # None
      BY DEF Objs
    <3> QED BY <2>1, <3>1, <3>2 DEF SInv, IInv, Filed
  <2>3. OneObject' /\ \A t \in Threads : Held(t)'
    BY <2>1 DEF SInv, OneObject, Held
  <2> QED BY <1>0, <2>1, <2>2, <2>3 DEF SInv
<1>2. CASE remove_still_expired
  <2> DEFINE os  == {o \in sweep.candidates : is_expired(heap[o], sweep.now)}
             ids == {id \in Ids : map[id] # None /\ \E o \in os : heap[o].id = id}
  <2>0. RemoveFromMap(os)
    BY <1>2 DEF remove_still_expired
  <2>o. \A o \in os : o \in Objs /\ o <= allocated /\ sweep.now - heap[o].last > Timeout
    BY <1>0 DEF SweepType, SInv, is_expired
  <2> HIDE DEF os
  <2>1. /\ UNCHANGED <<heap, allocated, clock, threads, created, gone>>
        /\ map' = [id \in Ids |-> IF id \in ids THEN None ELSE map[id]]
        /\ sweep' = [NoSweep EXCEPT !.pc = "count", !.removed = Cardinality(ids)]
    BY <2>0 DEF RemoveFromMap, history
  <2>2. sweep'.now = 0 /\ sweep'.candidates = {}
    BY <2>1 DEF NoSweep
  <2>3. OneObject'
    BY <2>1 DEF SInv, OneObject
  <2>4. ASSUME NEW t \in Threads PROVE Held(t)'
    <3>1. Held(t)
      BY DEF SInv
    <3>2. CASE threads[t].pc = "idle"
      BY <3>2, <2>1 DEF Held
    <3>3. CASE threads[t].pc # "idle"
      <4> DEFINE x == threads[t].obj
                 i == threads[t].id
      <4>1. x \in Objs /\ x <= allocated /\ i \in Ids /\ i = heap[x].id
            /\ threads[t].since \in Nat /\ heap[x].last \in Nat
        BY <3>3, WorkingFacts
      <4>2. CASE i \notin ids
        <5>1. map'[i] = map[i]
          BY <4>1, <4>2, <2>1
        <5> QED BY <5>1, <3>1, <2>1 DEF Held
      <4>3. CASE i \in ids
        <5>1. PICK o \in os : heap[o].id = i
          BY <4>3
        <5>2. o = x
          BY <5>1, <2>o, <4>1 DEF SInv, OneObject
        <5>3. sweep.now - heap[x].last > Timeout /\ sweep.now <= clock /\ sweep.now \in Nat
          BY <5>1, <5>2, <2>o, <1>0 DEF SInv, SweepType
        <5>4. threads[t].since <= heap[x].last => clock - threads[t].since > Timeout
          BY <5>3, <4>1, <1>0
        <5> QED BY <5>4, <3>1, <2>1 DEF Held
      <4> QED BY <4>2, <4>3
    <3> QED BY <3>2, <3>3
  <2> QED BY <1>0, <2>1, <2>2, <2>3, <2>4 DEF SInv
<1>3. CASE CountExpired
  <2>1. UNCHANGED <<map, heap, allocated, clock, threads, created, gone>>
        /\ sweep'.now = 0 /\ sweep'.candidates = {}
    BY <1>3 DEF CountExpired, objects, history, NoSweep
  <2>2. OneObject' /\ \A t \in Threads : Held(t)'
    BY <2>1 DEF SInv, OneObject, Held
  <2> QED BY <1>0, <2>1, <2>2, SMTT(40) DEF SInv
<1> QED BY <1>1, <1>2, <1>3 DEF SweepStep

\* Every step of the store keeps it.
LEMMA NextSInv ==
    ASSUME SimpleOps, SInv, [StoreNext]_storeVars
    PROVE  SInv'
<1>0. IInv'
  BY NextIInv DEF SInv
<1>1. ASSUME NEW id \in Ids, NEW owner \in Users, Create(id, owner) PROVE SInv'
  BY <1>0, <1>1, CreateSInv
<1>2. ASSUME NEW t \in Threads, RequestStep(t) PROVE SInv'
  BY <1>0, <1>2, RequestSInv
<1>3. CASE SweepStep
  BY <1>0, <1>3, SweepSInv
<1>4. CASE Tick
  <2>1. clock' = clock + 1 /\ clock \in Nat /\ sweep.now \in Nat
        /\ UNCHANGED <<map, heap, allocated, threads, sweep, created, gone>>
    BY <1>4 DEF Tick, objects, history, SInv, IInv, Typed, SweepType
  <2>2. \A o \in Objs : heap[o].last \in Nat
    BY DEF SInv, IInv, Typed, ObjType
  <2>3. OneObject'
    BY <2>1, <2>2 DEF SInv, OneObject
  <2>4. ASSUME NEW t \in Threads PROVE Held(t)'
    <3>1. Held(t) /\ threads[t].since \in Nat
      BY DEF SInv, IInv, Typed, ThreadType
    <3>2. clock - threads[t].since > Timeout => clock' - threads[t].since > Timeout
      BY <2>1, <3>1, TimingAssumption, SMTT(40)
    <3> QED BY <2>1, <3>1, <3>2 DEF Held
  <2>5. sweep'.now <= clock' /\ \A o \in sweep'.candidates : o <= allocated'
    <3>1. sweep.now <= clock /\ \A o \in sweep.candidates : o <= allocated
      BY DEF SInv
    <3>2. sweep.now <= clock'
      BY <2>1, <3>1
    <3> QED BY <2>1, <3>1, <3>2
  <2> QED BY <1>0, <2>3, <2>4, <2>5 DEF SInv
<1>5. CASE UNCHANGED storeVars
  BY <1>0, <1>5 DEF storeVars, objects, history, SInv, OneObject, Held
<1> QED BY <1>1, <1>2, <1>3, <1>4, <1>5 DEF StoreNext

\* From the moment a session is cancelled no request is let in, even one that
\* took its handle before, for any number of concurrent requests.
THEOREM CancelTakesEffect ==
    ASSUME SimpleOps
    PROVE  StoreSpec => []CancelledIsGone
<1>1. SInv => CancelledIsGone
  <2> SUFFICES ASSUME SInv, NEW t \in Threads, threads[t].pc = "operate", Admits(t)
               PROVE  threads[t].id \notin gone
    BY DEF CancelledIsGone
  <2>1. threads[t].obj \in Objs /\ threads[t].obj <= allocated
        /\ threads[t].id = heap[threads[t].obj].id
    BY WorkingFacts
  <2>2. ~heap[threads[t].obj].cancelled
    BY DEF Admits
  <2> QED BY <2>1, <2>2 DEF SInv, OneObject
<1>2. SInv /\ [StoreNext]_storeVars => SInv'
  BY NextSInv
<1> QED BY <1>1, <1>2, InitSInv, PTL DEF StoreSpec

\* A write that is let in reaches the session in the map, unless the session
\* had already been idle past the timeout when the request took its handle:
\* the sweep's second look is enough, for any timing and any number of
\* requests.
THEOREM SweepLosesOnlyIdleWrites ==
    ASSUME SimpleOps
    PROVE  StoreSpec => []WriteLostOnlyIfIdle
<1>1. SInv => WriteLostOnlyIfIdle
  BY DEF SInv, Held, WriteLostOnlyIfIdle, Admits
<1>2. SInv /\ [StoreNext]_storeVars => SInv'
  BY NextSInv
<1> QED BY <1>1, <1>2, InitSInv, PTL DEF StoreSpec

-----------------------------------------------------------------------------
(* The store implements the atomic store.                                  *)

\* A step that changes neither the map, nor the history, nor the payload of an
\* object in the map, cannot be seen.
LEMMA Invisible ==
    ASSUME UNCHANGED <<map, stamp, created, gone>>,
           \A id \in Ids : map[id] # None => heap'[map[id]].data = heap[map[id]].data
    PROVE  UNCHANGED Promise!vars
<1>1. Status' = Status
  BY DEF Status
<1>2. ASSUME NEW id \in Ids, Status[id] = "live" PROVE map[id] # None
  BY <1>2 DEF Status
<1>3. Data' = Data
  BY <1>1, <1>2 DEF Data
<1> QED BY <1>1, <1>3 DEF Promise!vars

\* Creating a session is the atomic save.
LEMMA CreateIsSave ==
    ASSUME SInv, NEW id \in Ids, NEW owner \in Users, Create(id, owner)
    PROVE  Promise!save(id)
<1> USE TimingAssumption, NoneAssumption
<1> DEFINE n == allocated + 1
           session == NewSession(id, owner)
<1>1. inner_save(session) /\ created' = created \cup {id} /\ id \notin created
      /\ UNCHANGED <<stamp, gone>>
  BY DEF Create
<1>2. session \in ObjType /\ session.id = id /\ session.data = 0
  BY NewSessionType DEF NewSession, SInv
<1>3. n \in Objs /\ n # None
  BY <1>1 DEF inner_save, SInv, IInv, Typed, Objs
<1>4. heap'[n].data = 0
  <2>1. heap'[n] = [session EXCEPT !.last = clock]
    BY <1>1, <1>3 DEF inner_save, SInv, IInv, Typed
  <2> HIDE DEF session
  <2> QED BY <1>2, <2>1 DEF ObjType
<1>5. map'[id] = n /\ \A i \in Ids : i # id => map'[i] = map[i]
  BY <1>1, <1>2 DEF inner_save, SInv, IInv, Typed
<1>6. \A i \in Ids : map[i] # None => map[i] \in Objs /\ map[i] <= allocated
  BY SMTT(40) DEF SInv, IInv, Typed, Filed
<1>7. \A o \in Objs : o <= allocated => heap'[o] = heap[o]
  BY <1>1, <1>2, SaveKeeps DEF SInv
<1>8. id \notin gone
  BY <1>1 DEF SInv, OneObject
<1> HIDE DEF n, session
<1>9. Status[id] = "unused" /\ Status' = [Status EXCEPT ![id] = "live"]
  BY <1>1, <1>3, <1>5, <1>8 DEF Status
<1>10. Data' = Data
  <2> SUFFICES ASSUME NEW i \in Ids PROVE Data'[i] = Data[i]
    BY DEF Data
  <2>1. CASE i = id
    BY <2>1, <1>4, <1>5, <1>9 DEF Data
  <2>2. CASE i # id
    <3>1. Status'[i] = Status[i] /\ (Status[i] = "live" => map[i] # None)
      BY <2>2, <1>9 DEF Status
    <3>2. map[i] # None => heap'[map'[i]] = heap[map[i]]
      BY <2>2, <1>5, <1>6, <1>7
    <3> QED BY <3>1, <3>2 DEF Data
  <2> QED BY <2>1, <2>2
<1> QED BY <1>1, <1>9, <1>10 DEF Promise!save

\* A mutation is a write to a live session, or to one that has expired.
LEMMA MutateIsWrite ==
    ASSUME SInv, NEW t \in Threads, Mutate(t)
    PROVE  \E id \in Ids : Promise!with_session_mut(id) \/ Promise!LateWrite(id)
<1> DEFINE x == threads[t].obj
           i == threads[t].id
<1>1. /\ UNCHANGED <<map, created, gone>> /\ stamp' = stamp + 1
      /\ heap' = [heap EXCEPT ![x].data = stamp + 1]
      /\ threads[t].pc = "operate" /\ ~heap[x].cancelled
  BY DEF Mutate, Admits, history
<1>2. x \in Objs /\ x <= allocated /\ i \in Ids /\ i = heap[x].id /\ i \in created
  BY <1>1, WorkingFacts
<1>3. i \notin gone
  BY <1>1, <1>2 DEF SInv, OneObject
<1>4. \A j \in Ids : map[j] # None => map[j] \in Objs /\ map[j] <= allocated /\ heap[map[j]].id = j
  BY DEF SInv, IInv, Typed, Filed
<1>5. heap'[x].data = stamp + 1 /\ \A o \in Objs : o # x => heap'[o] = heap[o]
  BY <1>1, <1>2 DEF SInv, IInv, Typed, ObjType
<1> HIDE DEF x, i
<1>6. Status' = Status
  BY <1>1 DEF Status
<1>7. ASSUME NEW j \in Ids, j # i PROVE Data'[j] = Data[j]
  <2>1. Status[j] = "live" => map[j] # None
    BY DEF Status
  <2>2. map[j] # None => map[j] # x /\ map[j] \in Objs
    BY <1>2, <1>4, <1>7
  <2> QED BY <2>1, <2>2, <1>1, <1>5, <1>6 DEF Data
<1>8. CASE map[i] = None
  <2>1. Status[i] = "expired"
    BY <1>2, <1>3, <1>8 DEF Status
  <2>2. Data'[i] = Data[i]
    BY <2>1, <1>2, <1>6 DEF Data
  <2>3. Data' = Data
    BY <2>2, <1>7 DEF Data
  <2> QED BY <2>1, <2>3, <1>1, <1>2, <1>6 DEF Promise!LateWrite
<1>9. CASE map[i] # None
  <2>1. Status[i] = "live"
    BY <1>2, <1>3, <1>9 DEF Status
  <2>2. map[i] = x
    BY <1>2, <1>4, <1>9 DEF SInv, OneObject
  <2>3. Data'[i] = stamp + 1
    BY <2>1, <2>2, <1>1, <1>2, <1>5, <1>6 DEF Data
  <2>4. Data' = [Data EXCEPT ![i] = stamp + 1]
    BY <2>3, <1>2, <1>7 DEF Data
  <2> QED BY <2>1, <2>4, <1>1, <1>2, <1>6 DEF Promise!with_session_mut
<1> QED BY <1>8, <1>9

\* Setting the flag is the atomic cancel; the removal from the map is not seen.
LEMMA CancelIsCancel ==
    ASSUME SInv, NEW t \in Threads, Cancel(t)
    PROVE  \E id \in Ids : Promise!Cancel(id)
<1> DEFINE x == threads[t].obj
           i == threads[t].id
<1>1. /\ UNCHANGED <<map, stamp, created>>
      /\ gone' = gone \cup {i}
      /\ heap' = [heap EXCEPT ![x].cancelled = TRUE]
      /\ threads[t].pc = "operate" /\ ~heap[x].cancelled
  BY DEF Cancel, Admits
<1>2. x \in Objs /\ x <= allocated /\ i \in Ids /\ i = heap[x].id /\ i \in created
  BY <1>1, WorkingFacts
<1>3. i \notin gone
  BY <1>1, <1>2 DEF SInv, OneObject
<1>4. \A o \in Objs : heap'[o].data = heap[o].data
  BY <1>1, <1>2 DEF SInv, IInv, Typed, ObjType
<1>5. \A j \in Ids : map[j] # None => map[j] \in Objs
  BY DEF SInv, IInv, Typed
<1> HIDE DEF x, i
<1>6. Status[i] \in {"live", "expired"} /\ Status' = [Status EXCEPT ![i] = "cancelled"]
  BY <1>1, <1>2, <1>3 DEF Status
<1>7. ASSUME NEW j \in Ids, j # i PROVE Data'[j] = Data[j]
  <2>1. Status'[j] = Status[j] /\ (Status[j] = "live" => map[j] \in Objs)
    BY <1>5, <1>6, <1>7 DEF Status
  <2> QED BY <2>1, <1>1, <1>4 DEF Data
<1>8. Data'[i] = 0
  BY <1>2, <1>6 DEF Data, Status
<1>9. Data' = [Data EXCEPT ![i] = 0]
  BY <1>2, <1>7, <1>8 DEF Data
<1> QED BY <1>1, <1>2, <1>6, <1>9 DEF Promise!Cancel

\* Removing what is still expired is the atomic expiry of the sessions removed
\* that had not been cancelled.
LEMMA RemoveIsExpire ==
    ASSUME SInv, remove_still_expired
    PROVE  \E ids \in SUBSET Ids : Promise!Expire(ids)
<1> DEFINE os  == {o \in sweep.candidates : is_expired(heap[o], sweep.now)}
           ids == {id \in Ids : map[id] # None /\ \E o \in os : heap[o].id = id}
           seen == ids \ gone
<1>0. RemoveFromMap(os)
  BY DEF remove_still_expired
<1> HIDE DEF os
<1>1. /\ UNCHANGED <<heap, stamp, created, gone>>
      /\ map' = [id \in Ids |-> IF id \in ids THEN None ELSE map[id]]
  BY <1>0 DEF RemoveFromMap, history
<1>2. \A id \in ids : id \in Ids /\ map[id] # None /\ id \in created
  <2>1. \A id \in Ids : map[id] # None => map[id] \in Objs /\ map[id] <= allocated
                                            /\ heap[map[id]].id = id
    BY DEF SInv, IInv, Typed, Filed
  <2> QED BY <2>1 DEF SInv, OneObject
<1> HIDE DEF ids
<1>3. \A id \in seen : Status[id] = "live"
  BY <1>2 DEF Status
<1>4. Status' = [id \in Ids |-> IF id \in seen THEN "expired" ELSE Status[id]]
  BY <1>1, <1>2 DEF Status
<1>5. ASSUME NEW j \in Ids PROVE Data'[j] = IF j \in seen THEN 0 ELSE Data[j]
  <2>1. CASE j \in seen
    BY <2>1, <1>4 DEF Data
  <2>2. CASE j \notin seen
    <3>1. Status'[j] = Status[j]
      BY <2>2, <1>4
    <3>2. Status[j] = "live" => j \notin ids
      BY <2>2 DEF Status
    <3> QED BY <2>2, <3>1, <3>2, <1>1 DEF Data
  <2> QED BY <2>1, <2>2
<1>6. Data' = [id \in Ids |-> IF id \in seen THEN 0 ELSE Data[id]]
  BY <1>5 DEF Data
<1>7. seen \in SUBSET Ids
  BY <1>2
<1> QED BY <1>1, <1>3, <1>4, <1>6, <1>7 DEF Promise!Expire

\* The store of locks, shared objects and a two-pass sweep implements the
\* atomic store, for any number of sessions, users and concurrent requests
\* that mutate and cancel.
THEOREM ImplementsPromise ==
    ASSUME SimpleOps
    PROVE  StoreSpec => KeepsPromise
<1>1. StoreInit => Promise!Init
  <2> SUFFICES ASSUME StoreInit PROVE Promise!Init
    OBVIOUS
  <2>1. Status = [id \in Ids |-> "unused"]
    BY DEF StoreInit, Status
  <2>2. Data = [id \in Ids |-> 0]
    BY <2>1 DEF Data
  <2> QED BY <2>1, <2>2 DEF StoreInit, Promise!Init
<1>2. SInv /\ [StoreNext]_storeVars => [Promise!Next]_(Promise!vars)
  <2> SUFFICES ASSUME SInv, [StoreNext]_storeVars PROVE [Promise!Next]_(Promise!vars)
    OBVIOUS
  <2>m. \A id \in Ids : map[id] # None => map[id] \in Objs
    BY DEF SInv, IInv, Typed
  <2>1. ASSUME NEW id \in Ids, NEW owner \in Users, Create(id, owner) PROVE Promise!Next
    BY <2>1, CreateIsSave DEF Promise!Next
  <2>2. ASSUME NEW t \in Threads, RequestStep(t) PROVE [Promise!Next]_(Promise!vars)
    <3>o. threads[t].pc # "idle" => threads[t].op \in {"mutate", "cancel"}
      BY DEF SInv, IInv, Filed, SimpleOps
    <3>h. Held(t)
      BY DEF SInv
    <3>1. CASE \E id \in Ids, op \in Ops, caller \in Users : GetHandle(t, id, op, caller)
      BY <3>1, Invisible DEF GetHandle, CloneHandle, objects, history
    <3>2. CASE Touch(t)
      <4>1. threads[t].obj \in Objs
        BY <3>2, WorkingFacts DEF Touch
      <4>2. \A o \in Objs : heap'[o].data = heap[o].data
        BY <3>2, <4>1 DEF Touch, SInv, IInv, Typed, ObjType
      <4> QED BY <3>2, <4>2, <2>m, Invisible DEF Touch, history
    <3>3. CASE Refuse(t)
      BY <3>3, Invisible DEF Refuse, objects, history
    <3>4. CASE Mutate(t)
      BY <3>4, MutateIsWrite DEF Promise!Next
    <3>5. CASE Cancel(t)
      BY <3>5, CancelIsCancel DEF Promise!Next
    <3>6. CASE Delete(t)
      <4>1. threads[t].id \in gone /\ threads[t].id \in created
        BY <3>6, <3>h, WorkingFacts DEF Delete, Held
      <4>2. UNCHANGED <<heap, stamp, created, gone>> /\ map' = [map EXCEPT ![threads[t].id] = None]
        BY <3>6 DEF Delete, inner_delete, history
      <4>3. \A id \in Ids : id # threads[t].id => map'[id] = map[id]
        BY <4>2 DEF SInv, IInv, Typed
      <4>4. Status' = Status
        BY <4>1, <4>2, <4>3 DEF Status
      <4>5. \A id \in Ids : Status[id] = "live" => map'[id] = map[id]
        BY <4>1, <4>3 DEF Status
      <4>6. Data' = Data
        BY <4>2, <4>4, <4>5 DEF Data
      <4> QED BY <4>2, <4>4, <4>6 DEF Promise!vars
    <3>7. ~Consume(t) /\ ~Update(t) /\ ~Save(t)
      BY <3>o, <3>h DEF Consume, Update, Save, Held
    <3> QED BY <2>2, <3>1, <3>2, <3>3, <3>4, <3>5, <3>6, <3>7 DEF RequestStep
  <2>3. CASE SweepStep
    <3>1. CASE scan_expired_candidates
      BY <3>1, Invisible DEF scan_expired_candidates, objects, history
    <3>2. CASE remove_still_expired
      BY <3>2, RemoveIsExpire DEF Promise!Next
    <3>3. CASE CountExpired
      BY <3>3, Invisible DEF CountExpired, objects, history
    <3> QED BY <2>3, <3>1, <3>2, <3>3 DEF SweepStep
  <2>4. CASE Tick
    BY <2>4, Invisible DEF Tick, objects, history
  <2>5. CASE UNCHANGED storeVars
    BY <2>5, Invisible DEF storeVars, objects, history
  <2> QED BY <2>1, <2>2, <2>3, <2>4, <2>5 DEF StoreNext
<1>3. SInv /\ [StoreNext]_storeVars => SInv'
  BY NextSInv
<1> QED BY <1>1, <1>2, <1>3, InitSInv, PTL DEF StoreSpec, KeepsPromise, Promise!Spec

=============================================================================
