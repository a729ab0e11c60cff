---------------------------- MODULE SessionLocks ----------------------------
(***************************************************************************)
(* The locks of the in-process session store: one RwLock over the map, one *)
(* per session, and who waits for whom.  A lock scope that waits for       *)
(* nothing while it is held is one step; the sweep's two passes and the    *)
(* operation a request runs on its session are held across steps.          *)
(*                                                                         *)
(* parking_lot's RwLock is external: a writer first announces itself,      *)
(* which keeps new readers out, then waits for the readers to leave; an    *)
(* upgradable reader excludes writers and other upgradable readers.        *)
(***************************************************************************)
EXTENDS Integers, FiniteSets

CONSTANTS
    Sessions,   \* the sessions in the map
    Map,        \* the map's lock; a session's lock is named by the session
    Requests,   \* concurrent requests
    Sweep,      \* the cleanup task
    Nobody,
    Rounds      \* how many times each of them runs

ASSUME LocksAssumption ==
    /\ Sweep \notin Requests /\ Map \notin Sessions
    /\ Nobody \notin Requests \cup {Sweep} \cup Sessions
    /\ Rounds \in Nat

Locks == Sessions \cup {Map}
Processes == Requests \cup {Sweep}

VARIABLES
    locks,   \* each lock's readers, upgradable reader, announced writer, writer
    pc,      \* what each process does
    target,  \* the session a request works on
    todo,    \* the sessions the sweep still has to visit in this pass
    found,   \* the candidates of its scan
    rounds   \* rounds left

lockVars == <<locks, pc, target, todo, found, rounds>>

-----------------------------------------------------------------------------
(* The RwLock.                                                             *)

Free == [readers |-> {}, upgradable |-> Nobody, announced |-> Nobody, writer |-> Nobody]

CanRead(l) == locks[l].writer = Nobody /\ locks[l].announced = Nobody
CanAnnounce(l) == CanRead(l) /\ locks[l].upgradable = Nobody
CanUpgradable(l) == CanAnnounce(l)
CanWrite(l, p) == locks[l].announced = p /\ locks[l].readers = {}

Read(l, p)     == locks' = [locks EXCEPT ![l].readers = @ \cup {p}]
Unread(l, p)   == locks' = [locks EXCEPT ![l].readers = @ \ {p}]
Announce(l, p) == locks' = [locks EXCEPT ![l].announced = p]
Write(l, p)    == locks' = [locks EXCEPT ![l].announced = Nobody, ![l].writer = p]
Unwrite(l)     == locks' = [locks EXCEPT ![l].writer = Nobody]

Go(p, from, to) == pc[p] = from /\ pc' = [pc EXCEPT ![p] = to]

-----------------------------------------------------------------------------
(* A request: get_handle, then the operation under the session's lock,     *)
(* then possibly a delete or a save.                                       *)

Start(p, s) ==
    /\ rounds[p] > 0
    /\ rounds' = [rounds EXCEPT ![p] = @ - 1]
    /\ Go(p, "idle", "clone")
    /\ target' = [target EXCEPT ![p] = s]
    /\ UNCHANGED <<locks, todo, found>>

\* The map is read and released; no other lock is held or waited for.
CloneHandle(p) ==
    /\ Go(p, "clone", "touch")
    /\ CanRead(Map)
    /\ UNCHANGED <<locks, target, todo, found, rounds>>

\* A fresh timestamp is only looked at.
TouchFresh(p) ==
    /\ Go(p, "touch", "lock")
    /\ CanUpgradable(target[p])
    /\ UNCHANGED <<locks, target, todo, found, rounds>>

\* A stale one takes the write lock by upgrading.
TouchUpgrade(p) ==
    /\ Go(p, "touch", "upgrade")
    /\ CanUpgradable(target[p])
    /\ Announce(target[p], p)
    /\ UNCHANGED <<target, todo, found, rounds>>

TouchWrite(p) ==
    /\ Go(p, "upgrade", "lock")
    /\ CanWrite(target[p], p)
    /\ locks' = [locks EXCEPT ![target[p]].announced = Nobody]
    /\ UNCHANGED <<target, todo, found, rounds>>

\* with_owned_session: the operation runs under the read lock.
LockShared(p) ==
    /\ Go(p, "lock", "reading")
    /\ CanRead(target[p])
    /\ Read(target[p], p)
    /\ UNCHANGED <<target, todo, found, rounds>>

FinishShared(p) ==
    /\ Go(p, "reading", "idle")
    /\ Unread(target[p], p)
    /\ UNCHANGED <<target, todo, found, rounds>>

\* with_owned_session_mut.
LockExclusive(p) ==
    /\ Go(p, "lock", "announced")
    /\ CanAnnounce(target[p])
    /\ Announce(target[p], p)
    /\ UNCHANGED <<target, todo, found, rounds>>

Operate(p) ==
    /\ Go(p, "announced", "writing")
    /\ CanWrite(target[p], p)
    /\ Write(target[p], p)
    /\ UNCHANGED <<target, todo, found, rounds>>

Finish(p) ==
    /\ Go(p, "writing", "idle")
    /\ Unwrite(target[p])
    /\ UNCHANGED <<target, todo, found, rounds>>

\* Mutant: the map lock is asked for with the session still locked.
FinishThenDeleteHolding(p) ==
    /\ Go(p, "writing", "removing")
    /\ CanAnnounce(Map)
    /\ Announce(Map, p)
    /\ UNCHANGED <<target, todo, found, rounds>>

\* cancel_session, set_unidentified_mode: the session is unlocked first.
FinishThenDelete(p) ==
    /\ Go(p, "writing", "delete")
    /\ Unwrite(target[p])
    /\ UNCHANGED <<target, todo, found, rounds>>

AskMap(p) ==
    /\ Go(p, "delete", "removing")
    /\ CanAnnounce(Map)
    /\ Announce(Map, p)
    /\ UNCHANGED <<target, todo, found, rounds>>

\* The map entry is removed, or inserted, and the map released.
WriteMap(p) ==
    /\ Go(p, "removing", "idle")
    /\ CanWrite(Map, p)
    /\ locks' = [l \in Locks |->
                   IF l = Map THEN [locks[l] EXCEPT !.announced = Nobody]
                   ELSE IF locks[l].writer = p THEN [locks[l] EXCEPT !.writer = Nobody]
                   ELSE locks[l]]
    /\ UNCHANGED <<target, todo, found, rounds>>

-----------------------------------------------------------------------------
(* cleanup_expired.                                                        *)

ScanStart ==
    /\ rounds[Sweep] > 0
    /\ rounds' = [rounds EXCEPT ![Sweep] = @ - 1]
    /\ Go(Sweep, "idle", "scanning")
    /\ CanRead(Map)
    /\ Read(Map, Sweep)
    /\ todo' = Sessions
    /\ found' = {}
    /\ UNCHANGED target

\* One session is read under the map's read lock; it may have expired.
ScanOne(s) ==
    /\ pc[Sweep] = "scanning" /\ s \in todo
    /\ CanRead(s)
    /\ todo' = todo \ {s}
    /\ found' \in {found, found \cup {s}}
    /\ UNCHANGED <<locks, pc, target, rounds>>

\* Mutant: the map's read lock is kept for the second pass.
ScanEndHolding ==
    /\ Go(Sweep, "scanning", IF found = {} THEN "idle" ELSE "remove")
    /\ todo = {}
    /\ locks' = IF found = {} THEN [locks EXCEPT ![Map].readers = @ \ {Sweep}] ELSE locks
    /\ UNCHANGED <<target, todo, found, rounds>>

ScanEnd ==
    /\ Go(Sweep, "scanning", IF found = {} THEN "idle" ELSE "remove")
    /\ todo = {}
    /\ Unread(Map, Sweep)
    /\ UNCHANGED <<target, todo, found, rounds>>

RemoveAsk ==
    /\ Go(Sweep, "remove", "asked")
    /\ CanAnnounce(Map)
    /\ Announce(Map, Sweep)
    /\ UNCHANGED <<target, todo, found, rounds>>

RemoveStart ==
    /\ Go(Sweep, "asked", "removing")
    /\ CanWrite(Map, Sweep)
    /\ Write(Map, Sweep)
    /\ todo' = found
    /\ UNCHANGED <<target, found, rounds>>

\* Each candidate is looked at under its own write lock, the map's held.
RecheckAsk(s) ==
    /\ pc[Sweep] = "removing" /\ s \in todo
    /\ \A r \in todo : locks[r].announced # Sweep
    /\ CanAnnounce(s)
    /\ Announce(s, Sweep)
    /\ UNCHANGED <<pc, target, todo, found, rounds>>

RecheckOne(s) ==
    /\ pc[Sweep] = "removing" /\ s \in todo
    /\ CanWrite(s, Sweep)
    /\ locks' = [locks EXCEPT ![s].announced = Nobody]
    /\ todo' = todo \ {s}
    /\ UNCHANGED <<pc, target, found, rounds>>

RemoveEnd ==
    /\ Go(Sweep, "removing", "idle")
    /\ todo = {}
    /\ Unwrite(Map)
    /\ UNCHANGED <<target, todo, found, rounds>>

-----------------------------------------------------------------------------
LocksInit ==
    /\ locks = [l \in Locks |-> Free]
    /\ pc = [p \in Processes |-> "idle"]
    /\ target = [p \in Requests |-> Nobody]
    /\ todo = {}
    /\ found = {}
    /\ rounds = [p \in Processes |-> Rounds]

RequestStep(p) ==
    \/ \E s \in Sessions : Start(p, s)
    \/ CloneHandle(p) \/ TouchFresh(p) \/ TouchUpgrade(p) \/ TouchWrite(p)
    \/ LockShared(p) \/ FinishShared(p)
    \/ LockExclusive(p) \/ Operate(p) \/ Finish(p)
    \/ FinishThenDelete(p) \/ AskMap(p) \/ WriteMap(p)

CleanupStep ==
    \/ ScanStart \/ ScanEnd \/ RemoveAsk \/ RemoveStart \/ RemoveEnd
    \/ \E s \in Sessions : ScanOne(s) \/ RecheckAsk(s) \/ RecheckOne(s)

LocksNext == (\E p \in Requests : RequestStep(p)) \/ CleanupStep

LocksSpec == LocksInit /\ [][LocksNext]_lockVars

\* Whoever can take a step eventually does: a lock that is free is handed out
\* and an operation under a lock ends.
FairLocksSpec == LocksSpec /\ WF_lockVars(LocksNext)

-----------------------------------------------------------------------------
(* Properties.                                                             *)

\* The locks exclude what they should, and the lock order is kept: no request
\* waits for the map while it holds a session.
LockOrder ==
    /\ \A l \in Locks : locks[l].writer # Nobody => locks[l].readers = {}
    /\ \A p \in Requests : pc[p] \in {"clone", "delete", "removing"} =>
         \A s \in Sessions : locks[s].writer # p /\ p \notin locks[s].readers

\* What a process needs in order to go on.
CanGo(p) ==
    LET t == IF p = Sweep THEN Map ELSE target[p] IN
    /\ pc[p] = "clone" => CanRead(Map)
    /\ pc[p] = "touch" => CanUpgradable(t)
    /\ pc[p] \in {"upgrade", "announced", "asked"} => CanWrite(t, p)
    /\ pc[p] = "lock" => CanAnnounce(t)
    /\ pc[p] \in {"delete", "remove"} => CanAnnounce(Map)
    /\ pc[p] = "removing" /\ p # Sweep => CanWrite(Map, p)
    /\ pc[p] = "scanning" => \A s \in todo : CanRead(s)
    /\ pc[p] = "removing" /\ p = Sweep =>
         \A s \in todo : CanAnnounce(s) \/ CanWrite(s, Sweep)

\* The processes never all wait for each other: as long as one of them has
\* begun, one that has begun can go on.
NotAllWait ==
    (\E p \in Processes : pc[p] # "idle") => \E p \in Processes : pc[p] # "idle" /\ CanGo(p)

\* Every request and every sweep that has begun ends: no cycle of lock holders
\* waits on itself, whatever the interleaving of touches, operations, deletes
\* and the sweep's two passes.
EveryoneIsServed == []<>(\A p \in Processes : pc[p] = "idle")

=============================================================================
