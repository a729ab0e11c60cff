------------------------ MODULE SessionLocks_proofs ------------------------
(***************************************************************************)
(* Proofs about the locks of the session store, for any number of          *)
(* sessions, requests and rounds.                                          *)
(***************************************************************************)
EXTENDS SessionLocks, TLAPS

RequestPoints ==
    {"idle", "clone", "touch", "upgrade", "lock", "reading", "announced", "writing",
     "delete", "removing"}

SweepPoints == {"idle", "scanning", "remove", "asked", "removing"}

LockType ==
    [readers : SUBSET Processes, upgradable : {Nobody},
     announced : Processes \cup {Nobody}, writer : Processes \cup {Nobody}]

Typed ==
    /\ locks \in [Locks -> LockType]
    /\ pc \in [Processes -> RequestPoints \cup SweepPoints]
    /\ \A p \in Requests : pc[p] \in RequestPoints
    /\ pc[Sweep] \in SweepPoints
    /\ target \in [Requests -> Sessions \cup {Nobody}]
    /\ todo \subseteq Sessions /\ found \subseteq Sessions
    /\ rounds \in [Processes -> Nat]
    /\ \A p \in Requests : pc[p] # "idle" => target[p] \in Sessions

\* Where a process is when it reads under lock l,
ReadsUnder(l, p) ==
    \/ p \in Requests /\ pc[p] = "reading" /\ target[p] = l
    \/ p = Sweep /\ pc[Sweep] = "scanning" /\ l = Map

\* when it has announced itself as a writer,
Announces(l, p) ==
    \/ p \in Requests /\ pc[p] \in {"upgrade", "announced"} /\ target[p] = l
    \/ p \in Requests /\ pc[p] = "removing" /\ l = Map
    \/ p = Sweep /\ pc[Sweep] = "asked" /\ l = Map
    \/ p = Sweep /\ pc[Sweep] = "removing" /\ l \in todo

\* and when it writes.
WritesUnder(l, p) ==
    \/ p \in Requests /\ pc[p] = "writing" /\ target[p] = l
    \/ p = Sweep /\ pc[Sweep] = "removing" /\ l = Map

\* A lock is held and asked for only by those whose code is at such a point,
\* and a writer is alone.
HeldAt(l) ==
    /\ \A p \in locks[l].readers : ReadsUnder(l, p)
    /\ locks[l].announced # Nobody => Announces(l, locks[l].announced)
    /\ locks[l].writer # Nobody => WritesUnder(l, locks[l].writer)
    /\ locks[l].writer # Nobody => locks[l].readers = {} /\ locks[l].announced = Nobody

Held == \A l \in Locks : HeldAt(l)

\* Who waits as a writer has announced itself.
Asked ==
    /\ \A p \in Requests : pc[p] \in {"upgrade", "announced"} => locks[target[p]].announced = p
    /\ \A p \in Requests : pc[p] = "removing" => locks[Map].announced = p
    /\ pc[Sweep] = "asked" => locks[Map].announced = Sweep

IInv == Typed /\ Held /\ Asked

-----------------------------------------------------------------------------
(* The operations of the lock.                                             *)


\* Taking the read lock.
LEMMA ReadEffect ==
    ASSUME Typed, NEW l \in Locks, NEW p \in Processes, Read(l, p)
    PROVE  /\ locks' \in [Locks -> LockType]
           /\ locks'[l].readers = locks[l].readers \cup {p}
           /\ locks'[l].announced = locks[l].announced /\ locks'[l].writer = locks[l].writer
           /\ \A k \in Locks : k # l => locks'[k] = locks[k]
BY DEF Typed, Read, LockType

\* Releasing it.
LEMMA UnreadEffect ==
    ASSUME Typed, NEW l \in Locks, NEW p \in Processes, Unread(l, p)
    PROVE  /\ locks' \in [Locks -> LockType]
           /\ locks'[l].readers = locks[l].readers \ {p}
           /\ locks'[l].announced = locks[l].announced /\ locks'[l].writer = locks[l].writer
           /\ \A k \in Locks : k # l => locks'[k] = locks[k]
BY DEF Typed, Unread, LockType

\* Announcing a writer.
LEMMA AnnounceEffect ==
    ASSUME Typed, NEW l \in Locks, NEW p \in Processes, Announce(l, p)
    PROVE  /\ locks' \in [Locks -> LockType]
           /\ locks'[l].announced = p
           /\ locks'[l].readers = locks[l].readers /\ locks'[l].writer = locks[l].writer
           /\ \A k \in Locks : k # l => locks'[k] = locks[k]
BY DEF Typed, Announce, LockType

\* A writer that is done, or gave up its announcement.
LEMMA UnannounceEffect ==
    ASSUME Typed, NEW l \in Locks, locks' = [locks EXCEPT ![l].announced = Nobody]
    PROVE  /\ locks' \in [Locks -> LockType]
           /\ locks'[l].announced = Nobody
           /\ locks'[l].readers = locks[l].readers /\ locks'[l].writer = locks[l].writer
           /\ \A k \in Locks : k # l => locks'[k] = locks[k]
BY DEF Typed, LockType

\* The announced writer gets the lock.
LEMMA WriteEffect ==
    ASSUME Typed, NEW l \in Locks, NEW p \in Processes, Write(l, p)
    PROVE  /\ locks' \in [Locks -> LockType]
           /\ locks'[l].announced = Nobody /\ locks'[l].writer = p
           /\ locks'[l].readers = locks[l].readers
           /\ \A k \in Locks : k # l => locks'[k] = locks[k]
BY DEF Typed, Write, LockType

\* The writer releases it.
LEMMA UnwriteEffect ==
    ASSUME Typed, NEW l \in Locks, Unwrite(l)
    PROVE  /\ locks' \in [Locks -> LockType]
           /\ locks'[l].writer = Nobody
           /\ locks'[l].readers = locks[l].readers /\ locks'[l].announced = locks[l].announced
           /\ \A k \in Locks : k # l => locks'[k] = locks[k]
BY DEF Typed, Unwrite, LockType

-----------------------------------------------------------------------------
(* The requests.                                                           *)

\* A request that moves leaves the others, and the sweep, where they are.
LEMMA RequestMoves ==
    ASSUME Typed, NEW p \in Requests, NEW from, NEW to \in RequestPoints, Go(p, from, to),
           target' = target, todo' = todo, found' = found, rounds' = rounds,
           locks' \in [Locks -> LockType], target[p] \in Sessions
    PROVE  /\ Typed'
           /\ pc[p] = from /\ pc'[p] = to
           /\ \A q \in Processes : q # p => pc'[q] = pc[q]
           /\ \A q \in Processes, l \in Locks : q # p =>
                /\ ReadsUnder(l, q)' <=> ReadsUnder(l, q)
                /\ Announces(l, q)' <=> Announces(l, q)
                /\ WritesUnder(l, q)' <=> WritesUnder(l, q)
<1> USE LocksAssumption
<1>1. p \in Processes /\ p # Sweep /\ Sweep \in Processes /\ Requests \subseteq Processes
  BY DEF Processes
<1>2. pc[p] = from /\ pc'[p] = to /\ \A q \in Processes : q # p => pc'[q] = pc[q]
  BY <1>1 DEF Go, Typed
<1>3. pc' \in [Processes -> RequestPoints \cup SweepPoints]
  BY <1>1 DEF Go, Typed
<1>4. Typed'
  <2>1. \A q \in Requests : pc'[q] \in RequestPoints
    BY <1>1, <1>2 DEF Typed
  <2>2. pc'[Sweep] \in SweepPoints
    BY <1>1, <1>2 DEF Typed
  <2>3. \A q \in Requests : pc'[q] # "idle" => target'[q] \in Sessions
    BY <1>1, <1>2 DEF Typed
  <2> QED BY <1>3, <2>1, <2>2, <2>3 DEF Typed
<1>5. \A q \in Processes, l \in Locks : q # p =>
        /\ ReadsUnder(l, q)' <=> ReadsUnder(l, q)
        /\ Announces(l, q)' <=> Announces(l, q)
        /\ WritesUnder(l, q)' <=> WritesUnder(l, q)
  BY <1>1, <1>2 DEF ReadsUnder, Announces, WritesUnder
<1> QED BY <1>2, <1>4, <1>5

\* If a request held, and asked for, no lock but l, the other locks are held
\* as they were.
LEMMA OtherLocks ==
    ASSUME IInv, NEW p \in Processes, NEW l \in Locks,
           \A k \in Locks : k # l => locks'[k] = locks[k],
           \A k \in Locks : k # l => ~ReadsUnder(k, p) /\ ~Announces(k, p) /\ ~WritesUnder(k, p),
           \A q \in Processes, k \in Locks : q # p =>
             /\ ReadsUnder(k, q)' <=> ReadsUnder(k, q)
             /\ Announces(k, q)' <=> Announces(k, q)
             /\ WritesUnder(k, q)' <=> WritesUnder(k, q),
           HeldAt(l)'
    PROVE  Held'
<1> SUFFICES ASSUME NEW k \in Locks, k # l PROVE HeldAt(k)'
  BY DEF Held
<1>1. locks[k] \in LockType /\ HeldAt(k) /\ locks'[k] = locks[k]
  BY DEF IInv, Typed, Held
<1> QED BY <1>1 DEF HeldAt, LockType

\* If a request's step touches no lock but l, and leaves there the announcement
\* of any other, those who wait as writers are still announced.
LEMMA OthersAsked ==
    ASSUME IInv, NEW p \in Requests, NEW l \in Locks, target' = target,
           \A q \in Processes : q # p => pc'[q] = pc[q],
           \A k \in Locks : k # l => locks'[k] = locks[k],
           \A q \in Processes : q # p /\ locks[l].announced = q => locks'[l].announced = q,
           pc'[p] \in {"upgrade", "announced"} => locks'[target[p]].announced = p,
           pc'[p] = "removing" => locks'[Map].announced = p
    PROVE  Asked'
<1> USE LocksAssumption
<1>1. /\ p # Sweep /\ Sweep \in Processes /\ Requests \subseteq Processes
      /\ Map \in Locks /\ Sessions \subseteq Locks
  BY DEF Processes, Locks
<1>2. \A q \in Processes, k \in Locks : q # p /\ locks[k].announced = q => locks'[k].announced = q
  OBVIOUS
<1>3. \A q \in Requests : pc'[q] \in {"upgrade", "announced"} => locks'[target'[q]].announced = q
  <2> SUFFICES ASSUME NEW q \in Requests, q # p, pc'[q] \in {"upgrade", "announced"}
               PROVE  locks'[target[q]].announced = q
    OBVIOUS
  <2>1. pc[q] \in {"upgrade", "announced"} /\ q \in Processes
    BY <1>1
  <2>2. target[q] \in Locks /\ locks[target[q]].announced = q
    BY <2>1, <1>1 DEF IInv, Typed, Asked
  <2> QED BY <2>1, <2>2, <1>2
<1>4. \A q \in Requests : pc'[q] = "removing" => locks'[Map].announced = q
  BY <1>1, <1>2 DEF IInv, Asked
<1>5. pc'[Sweep] = "asked" => locks'[Map].announced = Sweep
  BY <1>1, <1>2 DEF IInv, Asked
<1> QED BY <1>3, <1>4, <1>5 DEF Asked

\* A request takes a session from the map.
LEMMA StartKeeps ==
    ASSUME IInv, NEW p \in Requests, NEW s \in Sessions, Start(p, s)
    PROVE  IInv'
<1> USE LocksAssumption
<1>1. p \in Processes /\ p # Sweep /\ Sweep \in Processes /\ Requests \subseteq Processes
  BY DEF Processes
<1>2. /\ locks' = locks /\ todo' = todo /\ found' = found
      /\ pc[p] = "idle" /\ pc' = [pc EXCEPT ![p] = "clone"]
      /\ target' = [target EXCEPT ![p] = s]
      /\ rounds' = [rounds EXCEPT ![p] = rounds[p] - 1] /\ rounds[p] > 0
  BY DEF Start, Go
<1>3. /\ pc'[p] = "clone" /\ target'[p] = s
      /\ \A q \in Processes : q # p => pc'[q] = pc[q]
      /\ \A q \in Requests : q # p => target'[q] = target[q]
  BY <1>1, <1>2 DEF IInv, Typed
<1>4. Typed'
  <2>1. rounds' \in [Processes -> Nat]
    BY <1>1, <1>2 DEF IInv, Typed
  <2>2. target' \in [Requests -> Sessions \cup {Nobody}]
    BY <1>2 DEF IInv, Typed
  <2>3. pc' \in [Processes -> RequestPoints \cup SweepPoints]
    BY <1>1, <1>2 DEF IInv, Typed, RequestPoints
  <2>4. \A q \in Requests : pc'[q] \in RequestPoints /\ (pc'[q] # "idle" => target'[q] \in Sessions)
    BY <1>1, <1>3 DEF IInv, Typed, RequestPoints
  <2>5. pc'[Sweep] \in SweepPoints
    BY <1>1, <1>3 DEF IInv, Typed
  <2> QED BY <2>1, <2>2, <2>3, <2>4, <2>5, <1>2 DEF IInv, Typed
<1>5. \A l \in Locks, q \in Processes :
        /\ ReadsUnder(l, q) => ReadsUnder(l, q)'
        /\ Announces(l, q) => Announces(l, q)'
        /\ WritesUnder(l, q) => WritesUnder(l, q)'
  BY <1>1, <1>2, <1>3 DEF ReadsUnder, Announces, WritesUnder
<1>6. Held'
  BY <1>2, <1>5 DEF IInv, Typed, Held, HeldAt, LockType
<1>7. Asked'
  BY <1>1, <1>2, <1>3 DEF IInv, Asked
<1> QED BY <1>4, <1>6, <1>7 DEF IInv

\* Steps that look at a lock without keeping it.
LEMMA LooksKeep ==
    ASSUME IInv, NEW p \in Requests, CloneHandle(p) \/ TouchFresh(p)
    PROVE  IInv'
<1> USE LocksAssumption
<1>1. p \in Processes /\ p # Sweep /\ Sweep \in Processes /\ Requests \subseteq Processes
  BY DEF Processes
<1>2. PICK from, to : /\ <<from, to>> \in {<<"clone", "touch">>, <<"touch", "lock">>}
                      /\ Go(p, from, to) /\ locks' = locks /\ target' = target
                      /\ todo' = todo /\ found' = found /\ rounds' = rounds
  BY DEF CloneHandle, TouchFresh
<1>3. to \in RequestPoints /\ target[p] \in Sessions /\ locks \in [Locks -> LockType] /\ Typed
  BY <1>2 DEF IInv, Typed, Go, RequestPoints
<1>4. /\ Typed'
      /\ pc[p] = from /\ pc'[p] = to
      /\ \A q \in Processes : q # p => pc'[q] = pc[q]
      /\ \A q \in Processes, l \in Locks : q # p =>
           /\ ReadsUnder(l, q)' <=> ReadsUnder(l, q)
           /\ Announces(l, q)' <=> Announces(l, q)
           /\ WritesUnder(l, q)' <=> WritesUnder(l, q)
  BY <1>2, <1>3, RequestMoves
<1>5. \A l \in Locks : ~ReadsUnder(l, p) /\ ~Announces(l, p) /\ ~WritesUnder(l, p)
  BY <1>1, <1>2, <1>4 DEF ReadsUnder, Announces, WritesUnder
<1>6. Held'
  BY <1>2, <1>3, <1>4, <1>5 DEF IInv, Held, HeldAt, LockType
<1>7. Asked'
  BY <1>1, <1>2, <1>4 DEF IInv, Asked
<1> QED BY <1>4, <1>6, <1>7 DEF IInv

\* A request announces itself as a writer of its session, or of the map.
LEMMA AnnounceKeeps ==
    ASSUME IInv, NEW p \in Requests, TouchUpgrade(p) \/ LockExclusive(p) \/ AskMap(p)
    PROVE  IInv'
<1> USE LocksAssumption
<1>1. /\ p \in Processes /\ p # Sweep /\ Sweep \in Processes /\ Requests \subseteq Processes
      /\ Map \in Locks /\ Sessions \subseteq Locks /\ Map \notin Sessions /\ p # Nobody
  BY DEF Processes, Locks
<1>2. PICK from, to, l :
        /\ \/ from = "touch" /\ to = "upgrade" /\ l = target[p]
           \/ from = "lock" /\ to = "announced" /\ l = target[p]
           \/ from = "delete" /\ to = "removing" /\ l = Map
        /\ CanAnnounce(l) /\ Announce(l, p)
        /\ target[p] \in Sessions /\ l \in Locks /\ Typed
        /\ Go(p, from, to) /\ target' = target
        /\ todo' = todo /\ found' = found /\ rounds' = rounds
  BY <1>1 DEF TouchUpgrade, LockExclusive, AskMap, CanUpgradable, Go, IInv, Typed
<1>3. /\ to \in RequestPoints /\ locks' \in [Locks -> LockType]
      /\ locks'[l].announced = p
      /\ locks'[l].readers = locks[l].readers /\ locks'[l].writer = locks[l].writer
      /\ \A k \in Locks : k # l => locks'[k] = locks[k]
  BY <1>1, <1>2, AnnounceEffect DEF RequestPoints
<1>4. /\ Typed'
      /\ pc[p] = from /\ pc'[p] = to
      /\ \A q \in Processes : q # p => pc'[q] = pc[q]
      /\ \A q \in Processes, k \in Locks : q # p =>
           /\ ReadsUnder(k, q)' <=> ReadsUnder(k, q)
           /\ Announces(k, q)' <=> Announces(k, q)
           /\ WritesUnder(k, q)' <=> WritesUnder(k, q)
  BY <1>1, <1>2, <1>3, RequestMoves
<1>5. \A k \in Locks : k # l => ~ReadsUnder(k, p) /\ ~Announces(k, p) /\ ~WritesUnder(k, p)
  BY <1>1, <1>2, <1>4 DEF ReadsUnder, Announces, WritesUnder
<1>6. ~ReadsUnder(l, p) /\ ~WritesUnder(l, p) /\ Announces(l, p)'
  BY <1>1, <1>2, <1>4 DEF ReadsUnder, Announces, WritesUnder
<1>7. HeldAt(l)'
  <2>1. locks[l] \in LockType /\ HeldAt(l)
    BY <1>2 DEF IInv, Held, Typed
  <2> QED BY <2>1, <1>1, <1>2, <1>3, <1>4, <1>6 DEF HeldAt, LockType, CanAnnounce, CanRead
<1>8. Held'
  BY <1>1, <1>2, <1>3, <1>4, <1>5, <1>7, OtherLocks
<1>9. Asked'
  <2>1. locks[l].announced = Nobody /\ Nobody \notin Processes
    BY <1>2 DEF CanAnnounce, CanRead, Processes
  <2>2. /\ pc'[p] \in {"upgrade", "announced"} => locks'[target[p]].announced = p
        /\ pc'[p] = "removing" => locks'[Map].announced = p
    BY <1>2, <1>3, <1>4
  <2> QED BY <2>1, <2>2, <1>1, <1>2, <1>3, <1>4, OthersAsked
<1> QED BY <1>4, <1>8, <1>9 DEF IInv

\* The upgraded touch writes the time and releases its session.
LEMMA TouchWriteKeeps ==
    ASSUME IInv, NEW p \in Requests, TouchWrite(p)
    PROVE  IInv'
<1> USE LocksAssumption
<1>1. /\ p \in Processes /\ p # Sweep /\ Sweep \in Processes /\ Requests \subseteq Processes
      /\ Map \in Locks /\ Sessions \subseteq Locks /\ Map \notin Sessions /\ p # Nobody
  BY DEF Processes, Locks
<1>2. PICK from, to, l :
        /\ from = "upgrade" /\ to = "lock" /\ l = target[p]
        /\ CanWrite(l, p) /\ locks' = [locks EXCEPT ![l].announced = Nobody]
        /\ target[p] \in Sessions /\ l \in Locks /\ Typed
        /\ Go(p, from, to) /\ target' = target
        /\ todo' = todo /\ found' = found /\ rounds' = rounds
  BY <1>1 DEF TouchWrite, Go, IInv, Typed
<1>3. /\ to \in RequestPoints /\ locks' \in [Locks -> LockType]
      /\ locks'[l].announced = Nobody
      /\ locks'[l].readers = locks[l].readers /\ locks'[l].writer = locks[l].writer
      /\ \A k \in Locks : k # l => locks'[k] = locks[k]
  BY <1>1, <1>2, UnannounceEffect DEF RequestPoints
<1>4. /\ Typed'
      /\ pc[p] = from /\ pc'[p] = to
      /\ \A q \in Processes : q # p => pc'[q] = pc[q]
      /\ \A q \in Processes, k \in Locks : q # p =>
           /\ ReadsUnder(k, q)' <=> ReadsUnder(k, q)
           /\ Announces(k, q)' <=> Announces(k, q)
           /\ WritesUnder(k, q)' <=> WritesUnder(k, q)
  BY <1>1, <1>2, <1>3, RequestMoves
<1>5. \A k \in Locks : k # l => ~ReadsUnder(k, p) /\ ~Announces(k, p) /\ ~WritesUnder(k, p)
  BY <1>1, <1>2, <1>4 DEF ReadsUnder, Announces, WritesUnder
<1>6. ~ReadsUnder(l, p) /\ ~WritesUnder(l, p)
  BY <1>1, <1>2, <1>4 DEF ReadsUnder, Announces, WritesUnder
<1>7. HeldAt(l)'
  <2>1. locks[l] \in LockType /\ HeldAt(l)
    BY <1>2 DEF IInv, Held, Typed
  <2> QED BY <2>1, <1>1, <1>2, <1>3, <1>4, <1>6 DEF HeldAt, LockType, CanWrite
<1>8. Held'
  BY <1>1, <1>2, <1>3, <1>4, <1>5, <1>7, OtherLocks
<1>9. Asked'
  BY <1>1, <1>2, <1>3, <1>4 DEF IInv, Asked, Typed, CanWrite
<1> QED BY <1>4, <1>8, <1>9 DEF IInv

\* The readers have left: the request writes under its session's lock.
LEMMA OperateKeeps ==
    ASSUME IInv, NEW p \in Requests, Operate(p)
    PROVE  IInv'
<1> USE LocksAssumption
<1>1. /\ p \in Processes /\ p # Sweep /\ Sweep \in Processes /\ Requests \subseteq Processes
      /\ Map \in Locks /\ Sessions \subseteq Locks /\ Map \notin Sessions /\ p # Nobody
  BY DEF Processes, Locks
<1>2. PICK from, to, l :
        /\ from = "announced" /\ to = "writing" /\ l = target[p]
        /\ CanWrite(l, p) /\ Write(l, p)
        /\ target[p] \in Sessions /\ l \in Locks /\ Typed
        /\ Go(p, from, to) /\ target' = target
        /\ todo' = todo /\ found' = found /\ rounds' = rounds
  BY <1>1 DEF Operate, Go, IInv, Typed
<1>3. /\ to \in RequestPoints /\ locks' \in [Locks -> LockType]
      /\ locks'[l].announced = Nobody /\ locks'[l].writer = p
      /\ locks'[l].readers = locks[l].readers
      /\ \A k \in Locks : k # l => locks'[k] = locks[k]
  BY <1>1, <1>2, WriteEffect DEF RequestPoints
<1>4. /\ Typed'
      /\ pc[p] = from /\ pc'[p] = to
      /\ \A q \in Processes : q # p => pc'[q] = pc[q]
      /\ \A q \in Processes, k \in Locks : q # p =>
           /\ ReadsUnder(k, q)' <=> ReadsUnder(k, q)
           /\ Announces(k, q)' <=> Announces(k, q)
           /\ WritesUnder(k, q)' <=> WritesUnder(k, q)
  BY <1>1, <1>2, <1>3, RequestMoves
<1>5. \A k \in Locks : k # l => ~ReadsUnder(k, p) /\ ~Announces(k, p) /\ ~WritesUnder(k, p)
  BY <1>1, <1>2, <1>4 DEF ReadsUnder, Announces, WritesUnder
<1>6. ~ReadsUnder(l, p) /\ ~WritesUnder(l, p) /\ WritesUnder(l, p)'
  BY <1>1, <1>2, <1>4 DEF ReadsUnder, Announces, WritesUnder
<1>7. HeldAt(l)'
  <2>1. locks[l] \in LockType /\ HeldAt(l)
    BY <1>2 DEF IInv, Held, Typed
  <2> QED BY <2>1, <1>1, <1>2, <1>3, <1>4, <1>6 DEF HeldAt, LockType, CanWrite
<1>8. Held'
  BY <1>1, <1>2, <1>3, <1>4, <1>5, <1>7, OtherLocks
<1>9. Asked'
  BY <1>1, <1>2, <1>3, <1>4 DEF IInv, Asked, Typed, CanWrite
<1> QED BY <1>4, <1>8, <1>9 DEF IInv

\* The request reads under its session's lock.
LEMMA LockSharedKeeps ==
    ASSUME IInv, NEW p \in Requests, LockShared(p)
    PROVE  IInv'
<1> USE LocksAssumption
<1>1. /\ p \in Processes /\ p # Sweep /\ Sweep \in Processes /\ Requests \subseteq Processes
      /\ Map \in Locks /\ Sessions \subseteq Locks /\ Map \notin Sessions /\ p # Nobody
  BY DEF Processes, Locks
<1>2. PICK from, to, l :
        /\ from = "lock" /\ to = "reading" /\ l = target[p]
        /\ CanRead(l) /\ Read(l, p)
        /\ target[p] \in Sessions /\ l \in Locks /\ Typed
        /\ Go(p, from, to) /\ target' = target
        /\ todo' = todo /\ found' = found /\ rounds' = rounds
  BY <1>1 DEF LockShared, Go, IInv, Typed
<1>3. /\ to \in RequestPoints /\ locks' \in [Locks -> LockType]
      /\ locks'[l].readers = locks[l].readers \cup {p}
      /\ locks'[l].announced = locks[l].announced /\ locks'[l].writer = locks[l].writer
      /\ \A k \in Locks : k # l => locks'[k] = locks[k]
  BY <1>1, <1>2, ReadEffect DEF RequestPoints
<1>4. /\ Typed'
      /\ pc[p] = from /\ pc'[p] = to
      /\ \A q \in Processes : q # p => pc'[q] = pc[q]
      /\ \A q \in Processes, k \in Locks : q # p =>
           /\ ReadsUnder(k, q)' <=> ReadsUnder(k, q)
           /\ Announces(k, q)' <=> Announces(k, q)
           /\ WritesUnder(k, q)' <=> WritesUnder(k, q)
  BY <1>1, <1>2, <1>3, RequestMoves
<1>5. \A k \in Locks : k # l => ~ReadsUnder(k, p) /\ ~Announces(k, p) /\ ~WritesUnder(k, p)
  BY <1>1, <1>2, <1>4 DEF ReadsUnder, Announces, WritesUnder
<1>6. ReadsUnder(l, p)'
  BY <1>1, <1>2, <1>4 DEF ReadsUnder, Announces, WritesUnder
<1>7. HeldAt(l)'
  <2>1. locks[l] \in LockType /\ HeldAt(l)
    BY <1>2 DEF IInv, Held, Typed
  <2> QED BY <2>1, <1>1, <1>2, <1>3, <1>4, <1>6 DEF HeldAt, LockType, CanRead
<1>8. Held'
  BY <1>1, <1>2, <1>3, <1>4, <1>5, <1>7, OtherLocks
<1>9. Asked'
  BY <1>1, <1>2, <1>3, <1>4 DEF IInv, Asked, Typed, CanRead
<1> QED BY <1>4, <1>8, <1>9 DEF IInv

\* It releases the read lock.
LEMMA FinishSharedKeeps ==
    ASSUME IInv, NEW p \in Requests, FinishShared(p)
    PROVE  IInv'
<1> USE LocksAssumption
<1>1. /\ p \in Processes /\ p # Sweep /\ Sweep \in Processes /\ Requests \subseteq Processes
      /\ Map \in Locks /\ Sessions \subseteq Locks /\ Map \notin Sessions /\ p # Nobody
  BY DEF Processes, Locks
<1>2. PICK from, to, l :
        /\ from = "reading" /\ to = "idle" /\ l = target[p] /\ Unread(l, p)
        /\ target[p] \in Sessions /\ l \in Locks /\ Typed
        /\ Go(p, from, to) /\ target' = target
        /\ todo' = todo /\ found' = found /\ rounds' = rounds
  BY <1>1 DEF FinishShared, Go, IInv, Typed
<1>3. /\ to \in RequestPoints /\ locks' \in [Locks -> LockType]
      /\ locks'[l].readers = locks[l].readers \ {p}
      /\ locks'[l].announced = locks[l].announced /\ locks'[l].writer = locks[l].writer
      /\ \A k \in Locks : k # l => locks'[k] = locks[k]
  BY <1>1, <1>2, UnreadEffect DEF RequestPoints
<1>4. /\ Typed'
      /\ pc[p] = from /\ pc'[p] = to
      /\ \A q \in Processes : q # p => pc'[q] = pc[q]
      /\ \A q \in Processes, k \in Locks : q # p =>
           /\ ReadsUnder(k, q)' <=> ReadsUnder(k, q)
           /\ Announces(k, q)' <=> Announces(k, q)
           /\ WritesUnder(k, q)' <=> WritesUnder(k, q)
  BY <1>1, <1>2, <1>3, RequestMoves
<1>5. \A k \in Locks : k # l => ~ReadsUnder(k, p) /\ ~Announces(k, p) /\ ~WritesUnder(k, p)
  BY <1>1, <1>2, <1>4 DEF ReadsUnder, Announces, WritesUnder
<1>6. ~WritesUnder(l, p) /\ ~Announces(l, p)
  BY <1>1, <1>2, <1>4 DEF ReadsUnder, Announces, WritesUnder
<1>7. HeldAt(l)'
  <2>1. locks[l] \in LockType /\ HeldAt(l)
    BY <1>2 DEF IInv, Held, Typed
  <2> QED BY <2>1, <1>1, <1>2, <1>3, <1>4, <1>6 DEF HeldAt, LockType, Unread
<1>8. Held'
  BY <1>1, <1>2, <1>3, <1>4, <1>5, <1>7, OtherLocks
<1>9. Asked'
  BY <1>1, <1>2, <1>3, <1>4 DEF IInv, Asked, Typed, Unread
<1> QED BY <1>4, <1>8, <1>9 DEF IInv

\* It releases the write lock, to end or to go on to the map.
LEMMA FinishKeeps ==
    ASSUME IInv, NEW p \in Requests, Finish(p) \/ FinishThenDelete(p)
    PROVE  IInv'
<1> USE LocksAssumption
<1>1. /\ p \in Processes /\ p # Sweep /\ Sweep \in Processes /\ Requests \subseteq Processes
      /\ Map \in Locks /\ Sessions \subseteq Locks /\ Map \notin Sessions /\ p # Nobody
  BY DEF Processes, Locks
<1>2. PICK from, to, l :
        /\ from = "writing" /\ to \in {"idle", "delete"} /\ l = target[p] /\ Unwrite(l)
        /\ target[p] \in Sessions /\ l \in Locks /\ Typed
        /\ Go(p, from, to) /\ target' = target
        /\ todo' = todo /\ found' = found /\ rounds' = rounds
  BY <1>1 DEF Finish, FinishThenDelete, Go, IInv, Typed
<1>3. /\ to \in RequestPoints /\ locks' \in [Locks -> LockType]
      /\ locks'[l].writer = Nobody
      /\ locks'[l].readers = locks[l].readers /\ locks'[l].announced = locks[l].announced
      /\ \A k \in Locks : k # l => locks'[k] = locks[k]
  BY <1>1, <1>2, UnwriteEffect DEF RequestPoints
<1>4. /\ Typed'
      /\ pc[p] = from /\ pc'[p] = to
      /\ \A q \in Processes : q # p => pc'[q] = pc[q]
      /\ \A q \in Processes, k \in Locks : q # p =>
           /\ ReadsUnder(k, q)' <=> ReadsUnder(k, q)
           /\ Announces(k, q)' <=> Announces(k, q)
           /\ WritesUnder(k, q)' <=> WritesUnder(k, q)
  BY <1>1, <1>2, <1>3, RequestMoves
<1>5. \A k \in Locks : k # l => ~ReadsUnder(k, p) /\ ~Announces(k, p) /\ ~WritesUnder(k, p)
  BY <1>1, <1>2, <1>4 DEF ReadsUnder, Announces, WritesUnder
<1>6. ~ReadsUnder(l, p) /\ ~Announces(l, p)
  BY <1>1, <1>2, <1>4 DEF ReadsUnder, Announces, WritesUnder
<1>7. HeldAt(l)'
  <2>1. locks[l] \in LockType /\ HeldAt(l)
    BY <1>2 DEF IInv, Held, Typed
  <2> QED BY <2>1, <1>1, <1>2, <1>3, <1>4, <1>6 DEF HeldAt, LockType, Unwrite
<1>8. Held'
  BY <1>1, <1>2, <1>3, <1>4, <1>5, <1>7, OtherLocks
<1>9. Asked'
  BY <1>1, <1>2, <1>3, <1>4 DEF IInv, Asked, Typed, Unwrite
<1> QED BY <1>4, <1>8, <1>9 DEF IInv

\* The map is written and released.
LEMMA WriteMapKeeps ==
    ASSUME IInv, NEW p \in Requests, WriteMap(p)
    PROVE  IInv'
<1> USE LocksAssumption
<1>1. /\ p \in Processes /\ p # Sweep /\ Sweep \in Processes /\ Requests \subseteq Processes
      /\ Map \in Locks /\ Sessions \subseteq Locks /\ Map \notin Sessions /\ p # Nobody
  BY DEF Processes, Locks
<1>2. /\ Go(p, "removing", "idle") /\ target' = target /\ target[p] \in Sessions
      /\ todo' = todo /\ found' = found /\ rounds' = rounds /\ CanWrite(Map, p) /\ Typed
  BY <1>1 DEF WriteMap, Go, IInv, Typed
<1>3. \A k \in Locks : ~ReadsUnder(k, p) /\ ~WritesUnder(k, p) /\ (k # Map => ~Announces(k, p))
  BY <1>1, <1>2 DEF Go, ReadsUnder, WritesUnder, Announces
<1>4. \A k \in Locks : locks[k].writer # p
  BY <1>1, <1>3 DEF IInv, Held, HeldAt
<1>5. /\ locks' \in [Locks -> LockType]
      /\ locks'[Map].announced = Nobody
      /\ locks'[Map].readers = locks[Map].readers /\ locks'[Map].writer = locks[Map].writer
      /\ \A k \in Locks : k # Map => locks'[k] = locks[k]
  <2>1. locks' = [k \in Locks |-> IF k = Map THEN [locks[k] EXCEPT !.announced = Nobody] ELSE locks[k]]
    BY <1>4 DEF WriteMap
  <2>2. locks' = [locks EXCEPT ![Map].announced = Nobody]
    BY <2>1, <1>1 DEF IInv, Typed
  <2> QED BY <2>2, <1>1, <1>2, UnannounceEffect
<1>6. /\ Typed'
      /\ pc[p] = "removing" /\ pc'[p] = "idle"
      /\ \A q \in Processes : q # p => pc'[q] = pc[q]
      /\ \A q \in Processes, k \in Locks : q # p =>
           /\ ReadsUnder(k, q)' <=> ReadsUnder(k, q)
           /\ Announces(k, q)' <=> Announces(k, q)
           /\ WritesUnder(k, q)' <=> WritesUnder(k, q)
  <2>1. "idle" \in RequestPoints
    BY DEF RequestPoints
  <2> QED BY <2>1, <1>1, <1>2, <1>5, RequestMoves
<1>7. HeldAt(Map)'
  <2>1. locks[Map] \in LockType /\ HeldAt(Map)
    BY <1>1 DEF IInv, Held, Typed
  <2>2. \A q \in locks'[Map].readers : ReadsUnder(Map, q)'
    BY <2>1, <1>1, <1>3, <1>5, <1>6 DEF HeldAt, LockType
  <2>3. \A w \in Processes : w = locks[Map].writer => WritesUnder(Map, w)'
    BY <2>1, <1>1, <1>3, <1>6 DEF HeldAt, Processes
  <2> QED BY <2>1, <2>2, <2>3, <1>5 DEF HeldAt, LockType
<1>8. Held'
  BY <1>1, <1>3, <1>5, <1>6, <1>7, OtherLocks
<1>9. Asked'
  <2>1. locks[Map].announced = p
    BY <1>2 DEF CanWrite
  <2> QED BY <2>1, <1>1, <1>2, <1>5, <1>6, OthersAsked
<1> QED BY <1>6, <1>8, <1>9 DEF IInv

-----------------------------------------------------------------------------
(* The sweep.                                                              *)

\* The sweep moves; the requests stay where they are.
LEMMA SweepMoves ==
    ASSUME Typed, pc' = [pc EXCEPT ![Sweep] = pc'[Sweep]], pc'[Sweep] \in SweepPoints,
           target' = target, todo' \subseteq Sessions, found' \subseteq Sessions,
           rounds' \in [Processes -> Nat], locks' \in [Locks -> LockType]
    PROVE  /\ Typed'
           /\ \A q \in Requests : pc'[q] = pc[q]
           /\ \A q \in Processes, l \in Locks : q # Sweep =>
                /\ ReadsUnder(l, q)' <=> ReadsUnder(l, q)
                /\ Announces(l, q)' <=> Announces(l, q)
                /\ WritesUnder(l, q)' <=> WritesUnder(l, q)
<1> USE LocksAssumption
<1>1. Sweep \notin Requests /\ Sweep \in Processes /\ Requests \subseteq Processes
  BY DEF Processes
<1>2. \A q \in Processes : q # Sweep => pc'[q] = pc[q]
  BY <1>1 DEF Typed
<1>3. pc' \in [Processes -> RequestPoints \cup SweepPoints]
  BY <1>1 DEF Typed
<1>4. Typed'
  BY <1>1, <1>2, <1>3 DEF Typed
<1>5. \A q \in Processes, l \in Locks : q # Sweep =>
        /\ ReadsUnder(l, q)' <=> ReadsUnder(l, q)
        /\ Announces(l, q)' <=> Announces(l, q)
        /\ WritesUnder(l, q)' <=> WritesUnder(l, q)
  BY <1>1, <1>2 DEF ReadsUnder, Announces, WritesUnder, Processes
<1> QED BY <1>1, <1>2, <1>4, <1>5

\* The sweep takes, and leaves, the map's lock.
LEMMA SweepMapKeeps ==
    ASSUME IInv, ScanStart \/ ScanEnd \/ RemoveAsk \/ RemoveStart \/ RemoveEnd
    PROVE  IInv'
<1> USE LocksAssumption
<1>1. /\ Sweep \notin Requests /\ Sweep \in Processes /\ Requests \subseteq Processes
      /\ Map \in Locks /\ Sessions \subseteq Locks /\ Map \notin Sessions /\ Sweep # Nobody
  BY DEF Processes, Locks
<1>2. /\ Typed /\ target' = target /\ todo' \subseteq Sessions /\ found' \subseteq Sessions
      /\ rounds' \in [Processes -> Nat]
      /\ pc' = [pc EXCEPT ![Sweep] = pc'[Sweep]] /\ pc'[Sweep] \in SweepPoints
      /\ locks[Map] \in LockType /\ HeldAt(Map)
  <2>1. Typed /\ HeldAt(Map) /\ locks[Map] \in LockType
    BY <1>1 DEF IInv, Held, Typed
  <2>2. target' = target /\ todo' \subseteq Sessions /\ found' \subseteq Sessions
    BY DEF IInv, Typed, ScanStart, ScanEnd, RemoveAsk, RemoveStart, RemoveEnd
  <2>3. rounds' \in [Processes -> Nat]
    BY <1>1 DEF IInv, Typed, ScanStart, ScanEnd, RemoveAsk, RemoveStart, RemoveEnd
  <2>4. \E to \in SweepPoints : pc' = [pc EXCEPT ![Sweep] = to]
    BY DEF Go, SweepPoints, ScanStart, ScanEnd, RemoveAsk, RemoveStart, RemoveEnd
  <2>5. pc' = [pc EXCEPT ![Sweep] = pc'[Sweep]] /\ pc'[Sweep] \in SweepPoints
    BY <2>4, <1>1 DEF IInv, Typed
  <2> QED BY <2>1, <2>2, <2>3, <2>5
<1>3. /\ locks' \in [Locks -> LockType]
      /\ \A k \in Locks : k # Map => locks'[k] = locks[k]
  BY <1>1, <1>2, ReadEffect, UnreadEffect, AnnounceEffect, WriteEffect, UnwriteEffect
     DEF ScanStart, ScanEnd, RemoveAsk, RemoveStart, RemoveEnd
<1>4. /\ Typed'
      /\ \A q \in Requests : pc'[q] = pc[q]
      /\ \A q \in Processes, k \in Locks : q # Sweep =>
           /\ ReadsUnder(k, q)' <=> ReadsUnder(k, q)
           /\ Announces(k, q)' <=> Announces(k, q)
           /\ WritesUnder(k, q)' <=> WritesUnder(k, q)
  BY <1>2, <1>3, SweepMoves DEF SweepPoints
<1>5. \A k \in Locks : k # Map => ~ReadsUnder(k, Sweep) /\ ~Announces(k, Sweep) /\ ~WritesUnder(k, Sweep)
  BY <1>1 DEF ReadsUnder, Announces, WritesUnder, Go, ScanStart, ScanEnd, RemoveAsk, RemoveStart, RemoveEnd
<1>6. HeldAt(Map)' /\ (pc'[Sweep] = "asked" => locks'[Map].announced = Sweep)
  <2>1. CASE ScanStart
    <3>1. /\ pc'[Sweep] = "scanning" /\ ReadsUnder(Map, Sweep)' /\ CanRead(Map)
          /\ ~Announces(Map, Sweep) /\ ~WritesUnder(Map, Sweep)
      BY <2>1, <1>1, <1>2 DEF ScanStart, Go, Typed, ReadsUnder, Announces, WritesUnder
    <3>2. /\ locks'[Map].readers = locks[Map].readers \cup {Sweep}
          /\ locks'[Map].announced = locks[Map].announced /\ locks'[Map].writer = locks[Map].writer
      BY <2>1, <1>1, <1>2, ReadEffect DEF ScanStart
    <3> QED BY <3>1, <3>2, <1>1, <1>2, <1>4 DEF HeldAt, LockType, CanRead
  <2>2. CASE ScanEnd
    <3>1. /\ pc'[Sweep] # "asked" /\ ~Announces(Map, Sweep) /\ ~WritesUnder(Map, Sweep)
      BY <2>2, <1>1, <1>2 DEF ScanEnd, Go, Typed, Announces, WritesUnder
    <3>2. /\ locks'[Map].readers = locks[Map].readers \ {Sweep}
          /\ locks'[Map].announced = locks[Map].announced /\ locks'[Map].writer = locks[Map].writer
      BY <2>2, <1>1, <1>2, UnreadEffect DEF ScanEnd
    <3> QED BY <3>1, <3>2, <1>1, <1>2, <1>4 DEF HeldAt, LockType
  <2>3. CASE RemoveAsk
    <3>1. /\ pc'[Sweep] = "asked" /\ Announces(Map, Sweep)' /\ CanAnnounce(Map)
          /\ ~ReadsUnder(Map, Sweep) /\ ~WritesUnder(Map, Sweep)
      BY <2>3, <1>1, <1>2 DEF RemoveAsk, Go, Typed, ReadsUnder, Announces, WritesUnder
    <3>2. /\ locks'[Map].announced = Sweep
          /\ locks'[Map].readers = locks[Map].readers /\ locks'[Map].writer = locks[Map].writer
      BY <2>3, <1>1, <1>2, AnnounceEffect DEF RemoveAsk
    <3> QED BY <3>1, <3>2, <1>1, <1>2, <1>4 DEF HeldAt, LockType, CanAnnounce, CanRead
  <2>4. CASE RemoveStart
    <3>1. /\ pc'[Sweep] = "removing" /\ WritesUnder(Map, Sweep)' /\ CanWrite(Map, Sweep)
          /\ ~ReadsUnder(Map, Sweep) /\ ~WritesUnder(Map, Sweep)
      BY <2>4, <1>1, <1>2 DEF RemoveStart, Go, Typed, ReadsUnder, Announces, WritesUnder
    <3>2. /\ locks'[Map].announced = Nobody /\ locks'[Map].writer = Sweep
          /\ locks'[Map].readers = locks[Map].readers
      BY <2>4, <1>1, <1>2, WriteEffect DEF RemoveStart
    <3> QED BY <3>1, <3>2, <1>1, <1>2, <1>4 DEF HeldAt, LockType, CanWrite
  <2>5. CASE RemoveEnd
    <3>1. /\ pc'[Sweep] = "idle" /\ ~ReadsUnder(Map, Sweep) /\ ~Announces(Map, Sweep)
      BY <2>5, <1>1, <1>2 DEF RemoveEnd, Go, Typed, ReadsUnder, Announces, WritesUnder
    <3>2. /\ locks'[Map].writer = Nobody
          /\ locks'[Map].readers = locks[Map].readers /\ locks'[Map].announced = locks[Map].announced
      BY <2>5, <1>1, <1>2, UnwriteEffect DEF RemoveEnd
    <3> QED BY <3>1, <3>2, <1>1, <1>2, <1>4 DEF HeldAt, LockType
  <2> QED BY <2>1, <2>2, <2>3, <2>4, <2>5
<1>7. Held'
  BY <1>1, <1>3, <1>4, <1>5, <1>6, OtherLocks
<1>8. Asked'
  <2>1. \A q \in Requests : pc[q] = "removing" => locks'[Map].announced = q
    <3>1. \A q \in Requests : pc[q] = "removing" => locks[Map].announced = q
      BY DEF IInv, Asked
    <3>2. CASE ScanStart
      <4>1. locks'[Map].announced = locks[Map].announced
        BY <3>2, <1>1, <1>2, ReadEffect DEF ScanStart
      <4> QED BY <3>1, <4>1
    <3>3. CASE ScanEnd
      <4>1. locks'[Map].announced = locks[Map].announced
        BY <3>3, <1>1, <1>2, UnreadEffect DEF ScanEnd
      <4> QED BY <3>1, <4>1
    <3>4. CASE RemoveAsk
      <4>1. locks[Map].announced = Nobody
        BY <3>4 DEF RemoveAsk, CanAnnounce, CanRead
      <4> QED BY <3>1, <4>1, <1>1
    <3>5. CASE RemoveStart
      <4>1. locks[Map].announced = Sweep
        BY <3>5 DEF RemoveStart, CanWrite
      <4> QED BY <3>1, <4>1, <1>1
    <3>6. CASE RemoveEnd
      <4>1. locks'[Map].announced = locks[Map].announced
        BY <3>6, <1>1, <1>2, UnwriteEffect DEF RemoveEnd
      <4> QED BY <3>1, <4>1
    <3> QED BY <3>2, <3>3, <3>4, <3>5, <3>6
  <2>2. \A q \in Requests : pc[q] \in {"upgrade", "announced"} => locks'[target[q]].announced = q
    BY <1>1, <1>2, <1>3 DEF IInv, Asked, Typed
  <2> QED BY <2>1, <2>2, <1>2, <1>4, <1>6 DEF Asked
<1> QED BY <1>4, <1>7, <1>8 DEF IInv

\* Under the map's lock the sweep visits a session.
LEMMA SweepVisitKeeps ==
    ASSUME IInv, NEW s \in Sessions, ScanOne(s) \/ RecheckAsk(s) \/ RecheckOne(s)
    PROVE  IInv'
<1> USE LocksAssumption
<1>1. /\ Sweep \notin Requests /\ Sweep \in Processes /\ Requests \subseteq Processes
      /\ Map \in Locks /\ Sessions \subseteq Locks /\ Map \notin Sessions /\ Sweep # Nobody
  BY DEF Processes, Locks
<1>2. /\ Typed /\ target' = target /\ todo' \subseteq Sessions /\ found' \subseteq Sessions
      /\ rounds' \in [Processes -> Nat] /\ pc' = pc
      /\ pc' = [pc EXCEPT ![Sweep] = pc'[Sweep]] /\ pc'[Sweep] \in SweepPoints
      /\ locks[s] \in LockType /\ HeldAt(s)
  BY <1>1 DEF IInv, Held, Typed, ScanOne, RecheckAsk, RecheckOne
<1>3. /\ locks' \in [Locks -> LockType]
      /\ \A k \in Locks : k # s => locks'[k] = locks[k]
  BY <1>1, <1>2, AnnounceEffect, UnannounceEffect DEF ScanOne, RecheckAsk, RecheckOne, IInv, Typed
<1>4. /\ Typed'
      /\ \A q \in Requests : pc'[q] = pc[q]
      /\ \A q \in Processes, k \in Locks : q # Sweep =>
           /\ ReadsUnder(k, q)' <=> ReadsUnder(k, q)
           /\ Announces(k, q)' <=> Announces(k, q)
           /\ WritesUnder(k, q)' <=> WritesUnder(k, q)
  BY <1>2, <1>3, SweepMoves DEF SweepPoints
<1>5. \A k \in Locks :
        /\ ReadsUnder(k, Sweep)' <=> ReadsUnder(k, Sweep)
        /\ WritesUnder(k, Sweep)' <=> WritesUnder(k, Sweep)
        /\ k # s => (Announces(k, Sweep)' <=> Announces(k, Sweep))
  BY <1>1, <1>2 DEF ReadsUnder, WritesUnder, Announces, ScanOne, RecheckAsk, RecheckOne
<1>6. HeldAt(s)'
  <2>1. CASE ScanOne(s)
    <3>1. locks' = locks /\ ~Announces(s, Sweep)
      BY <2>1, <1>1 DEF ScanOne, Announces
    <3> QED BY <3>1, <1>1, <1>2, <1>4, <1>5 DEF HeldAt, LockType
  <2>2. CASE RecheckAsk(s)
    <3>1. CanAnnounce(s) /\ Announces(s, Sweep)'
      BY <2>2, <1>1, <1>2 DEF RecheckAsk, Announces
    <3>2. /\ locks'[s].announced = Sweep
          /\ locks'[s].readers = locks[s].readers /\ locks'[s].writer = locks[s].writer
      BY <2>2, <1>1, <1>2, AnnounceEffect DEF RecheckAsk
    <3> QED BY <3>1, <3>2, <1>1, <1>2, <1>4, <1>5 DEF HeldAt, LockType, CanAnnounce, CanRead
  <2>3. CASE RecheckOne(s)
    <3>1. /\ locks'[s].announced = Nobody
          /\ locks'[s].readers = locks[s].readers /\ locks'[s].writer = locks[s].writer
      BY <2>3, <1>1, <1>2, UnannounceEffect DEF RecheckOne
    <3> QED BY <3>1, <1>1, <1>2, <1>4, <1>5 DEF HeldAt, LockType
  <2> QED BY <2>1, <2>2, <2>3
<1>7. Held'
  <2> SUFFICES ASSUME NEW k \in Locks, k # s PROVE HeldAt(k)'
    BY <1>6 DEF Held
  <2>1. locks[k] \in LockType /\ HeldAt(k) /\ locks'[k] = locks[k]
    BY <1>3 DEF IInv, Typed, Held
  <2> QED BY <2>1, <1>4, <1>5 DEF HeldAt, LockType
<1>8. Asked'
  <2>1. ASSUME NEW q \in Requests, pc[q] \in {"upgrade", "announced"}
        PROVE  locks'[target[q]].announced = q
    <3>1. locks[target[q]].announced = q /\ target[q] \in Sessions /\ q # Nobody /\ q # Sweep
      BY <2>1, <1>1 DEF IInv, Asked, Typed
    <3>2. CASE target[q] = s
      <4>1. ScanOne(s)
        BY <3>1, <3>2, <1>1 DEF RecheckAsk, RecheckOne, CanAnnounce, CanRead, CanWrite
      <4> QED BY <3>1, <4>1 DEF ScanOne
    <3>3. CASE target[q] # s
      BY <3>1, <3>3, <1>1, <1>3
    <3> QED BY <3>2, <3>3
  <2> QED BY <2>1, <1>1, <1>2, <1>3 DEF IInv, Asked
<1> QED BY <1>4, <1>7, <1>8 DEF IInv

-----------------------------------------------------------------------------
(* The theorems.                                                           *)

\* Nobody holds a lock at first.
LEMMA InitIInv == LocksInit => IInv
<1> SUFFICES ASSUME LocksInit PROVE IInv
  OBVIOUS
<1> USE LocksAssumption DEF LocksInit
<1>1. Free \in LockType /\ Free.readers = {} /\ Free.announced = Nobody /\ Free.writer = Nobody
  BY DEF Free, LockType
<1>2. Sweep \in Processes /\ Requests \subseteq Processes
  BY DEF Processes
<1>3. Typed
  BY <1>1, <1>2 DEF Typed, RequestPoints, SweepPoints
<1>4. Held /\ Asked
  BY <1>1, <1>2 DEF Held, HeldAt, Asked
<1> QED BY <1>3, <1>4 DEF IInv

\* Every step of a request and of the sweep keeps the books of the locks.
LEMMA NextIInv == IInv /\ [LocksNext]_lockVars => IInv'
<1> SUFFICES ASSUME IInv, [LocksNext]_lockVars PROVE IInv'
  OBVIOUS
<1>1. CASE \E p \in Requests : RequestStep(p)
  BY <1>1, StartKeeps, LooksKeep, AnnounceKeeps, TouchWriteKeeps, OperateKeeps, LockSharedKeeps,
     FinishSharedKeeps, FinishKeeps, WriteMapKeeps DEF RequestStep
<1>2. CASE CleanupStep
  BY <1>2, SweepMapKeeps, SweepVisitKeeps DEF CleanupStep
<1>3. CASE UNCHANGED lockVars
  BY <1>3 DEF lockVars, IInv, Typed, Held, HeldAt, Asked, ReadsUnder, Announces, WritesUnder
<1> QED BY <1>1, <1>2, <1>3 DEF LocksNext

\* The invariant holds in every reachable state.
THEOREM LocksInvariant == LocksSpec => []IInv
BY InitIInv, NextIInv, PTL DEF LocksSpec

\* A writer is alone under its lock, and no request asks for the map with a
\* session locked.
THEOREM LocksAreOrdered == LocksSpec => []LockOrder
<1>1. IInv => LockOrder
  <2> SUFFICES ASSUME IInv PROVE LockOrder
    OBVIOUS
  <2>1. \A l \in Locks : locks[l].writer # Nobody => locks[l].readers = {}
    BY DEF IInv, Held, HeldAt
  <2>2. ASSUME NEW p \in Requests, pc[p] \in {"clone", "delete", "removing"}, NEW s \in Sessions
        PROVE  locks[s].writer # p /\ p \notin locks[s].readers
    <3>1. p # Sweep /\ p # Nobody /\ s \in Locks /\ HeldAt(s)
      BY LocksAssumption DEF IInv, Held, Locks
    <3>2. ~ReadsUnder(s, p) /\ ~WritesUnder(s, p)
      BY <2>2, <3>1 DEF ReadsUnder, WritesUnder
    <3> QED BY <3>1, <3>2 DEF HeldAt
  <2> QED BY <2>1, <2>2 DEF LockOrder
<1> QED BY LocksInvariant, <1>1, PTL

\* The locks never deadlock. If nobody who has begun could go on, nobody would
\* be reading or writing under a session's lock, so no session would be
\* locked; then nobody waits for a session, so the sweep is not in either of
\* its passes, nobody holds the map, and nobody waits for it.
THEOREM LocksNeverDeadlock == LocksSpec => []NotAllWait
<1>1. IInv => NotAllWait
  <2> SUFFICES ASSUME IInv, \A p \in Processes : pc[p] # "idle" => ~CanGo(p),
                      NEW x \in Processes, pc[x] # "idle"
               PROVE  FALSE
    BY DEF NotAllWait
  <2> USE LocksAssumption
  <2>1. /\ Sweep \in Processes /\ Requests \subseteq Processes /\ Sweep \notin Requests
        /\ Map \in Locks /\ Sessions \subseteq Locks /\ Map \notin Sessions /\ Nobody \notin Processes
        /\ \A p \in Processes : p # Sweep => p \in Requests
    BY DEF Processes, Locks
  <2>2. /\ \A p \in Requests : pc[p] \in RequestPoints /\ (pc[p] # "idle" => target[p] \in Sessions)
        /\ pc[Sweep] \in SweepPoints /\ todo \subseteq Sessions
        /\ \A l \in Locks : locks[l] \in LockType /\ HeldAt(l) /\ locks[l].upgradable = Nobody
    BY DEF IInv, Typed, Held, LockType
  <2>3. \A p \in Requests : pc[p] \notin {"reading", "writing"}
    BY <2>1 DEF CanGo
  <2>4. \A s \in Sessions : locks[s].readers = {} /\ locks[s].writer = Nobody
    BY <2>1, <2>2, <2>3 DEF HeldAt, LockType, ReadsUnder, WritesUnder
  <2>5. \A p \in Requests : pc[p] \notin {"upgrade", "announced"}
    <3> SUFFICES ASSUME NEW p \in Requests, pc[p] \in {"upgrade", "announced"} PROVE FALSE
      OBVIOUS
    <3>1. CanWrite(target[p], p)
      BY <2>1, <2>2, <2>4 DEF CanWrite, IInv, Asked
    <3> QED BY <3>1, <2>1 DEF CanGo
  <2>6. \A s \in Sessions : locks[s].announced \in {Nobody, Sweep}
    BY <2>1, <2>2, <2>5 DEF HeldAt, Announces
  <2>7. pc[Sweep] # "removing"
    <3> SUFFICES ASSUME pc[Sweep] = "removing" PROVE FALSE
      OBVIOUS
    <3>1. \A s \in todo : CanAnnounce(s) \/ CanWrite(s, Sweep)
      BY <2>1, <2>2, <2>4, <2>6 DEF CanAnnounce, CanRead, CanWrite
    <3> QED BY <3>1, <2>1 DEF CanGo
  <2>8. \A s \in Sessions : CanAnnounce(s) /\ CanRead(s)
    <3> SUFFICES ASSUME NEW s \in Sessions PROVE CanAnnounce(s) /\ CanRead(s)
      OBVIOUS
    <3>1. locks[s].announced = Nobody
      <4>1. locks[s].announced # Nobody => Announces(s, locks[s].announced)
        BY <2>1, <2>2 DEF HeldAt
      <4>2. ~Announces(s, Sweep)
        BY <2>1, <2>7 DEF Announces
      <4> QED BY <4>1, <4>2, <2>6
    <3> QED BY <3>1, <2>1, <2>2, <2>4 DEF CanAnnounce, CanRead
  <2>9. pc[Sweep] # "scanning" /\ \A p \in Requests : pc[p] \notin {"touch", "lock"}
    BY <2>1, <2>2, <2>8 DEF CanGo, CanUpgradable
  <2>10. locks[Map].readers = {} /\ locks[Map].writer = Nobody
    BY <2>1, <2>2, <2>7, <2>9 DEF HeldAt, LockType, ReadsUnder, WritesUnder
  <2>11. pc[Sweep] # "asked" /\ \A p \in Requests : pc[p] # "removing"
    BY <2>1, <2>10 DEF CanGo, CanWrite, IInv, Asked
  <2>12. CanAnnounce(Map) /\ CanRead(Map)
    BY <2>1, <2>2, <2>5, <2>7, <2>10, <2>11 DEF CanAnnounce, CanRead, HeldAt, Announces, LockType
  <2>13. pc[Sweep] # "remove" /\ \A p \in Requests : pc[p] \notin {"clone", "delete"}
    BY <2>1, <2>12 DEF CanGo
  <2> QED BY <2>1, <2>2, <2>3, <2>5, <2>7, <2>9, <2>11, <2>13 DEF RequestPoints, SweepPoints
<1> QED BY LocksInvariant, <1>1, PTL

=============================================================================
