---------------------------- MODULE StepUp_proofs ----------------------------
(* Proofs about the accounts and their step-up, for any sets of users and of    *)
(* concurrent requests and any limits: an administrator remains, credentials    *)
(* end with a deactivation, wrong codes are counted, an authenticator is        *)
(* replaced from a re-verified session, and the audit log accounts for grants.  *)
EXTENDS StepUpAdmin_proofs

-----------------------------------------------------------------------------
(* TOTP rows: the wrong codes judged, and what replaces an authenticator.       *)

\* A step of the accounts leaves the TOTP requests alone; a row is as it was, or
\* gone with a deactivation.
TotpAside ==
    /\ \A p \in Requests : requests[p].op \in TotpOps \/ requests'[p].op \in TotpOps =>
                            requests'[p] = requests[p]
    /\ \A u \in Users : \/ totp'[u] = totp[u] /\ era'[u] = era[u]
                        \/ totp'[u] = NoTotp /\ era'[u] # 0

LEMMA ServedAside ==
    ASSUME Typed, NEW q \in Requests, NEW new, Serve(q, new),
           requests[q].op \notin TotpOps, new.op \notin TotpOps
    PROVE  \A p \in Requests : requests[p].op \in TotpOps \/ requests'[p].op \in TotpOps =>
                                requests'[p] = requests[p]
BY Served

LEMMA FinishedAside ==
    ASSUME Typed, NEW q \in Requests, Finish(q), requests[q].op \notin TotpOps
    PROVE  \A p \in Requests : requests[p].op \in TotpOps \/ requests'[p].op \in TotpOps =>
                                requests'[p] = requests[p]
BY Served DEF Finish, Idle, TotpOps

LEMMA AccountsStepAside ==
    ASSUME Typed,
           \/ \E q \in Requests : Ask(q) \/ AdminWork(q) \/ PermissionWork(q) \/ CeremonyWork(q)
           \/ SingleStep
    PROVE  TotpAside
<1> USE DEF policy, identity
<1>1. \A x : x \in AdminOps \cup CeremonyOps \cup {"permit", "forbid", "none"} => x \notin TotpOps
  BY DEF CeremonyOps, TotpOps, AdminOps, IssuingOps
<1>2. ASSUME NEW q \in Requests, Ask(q)
      PROVE  TotpAside
  <2>1. PICK new \in ReqType : /\ Serve(q, new) /\ requests[q] = Idle
                               /\ new.op \in AdminOps \cup CeremonyOps \cup {"permit", "forbid"}
                               /\ UNCHANGED <<totp, era>>
    BY <1>2, AskEffect
  <2>2. requests[q].op \notin TotpOps /\ new.op \notin TotpOps
    BY <1>1, <2>1 DEF Idle
  <2> QED
    BY <2>1, <2>2, ServedAside DEF TotpAside
<1>3. ASSUME NEW q \in Requests, PermissionWork(q)
      PROVE  TotpAside
  <2>1. requests[q].op \in {"permit", "forbid"} /\ UNCHANGED <<totp, era>>
    BY <1>3 DEF PermissionWork, ChangePermission, AuditPermission
  <2>2. requests[q] \in PermitReq
    BY <2>1, ReqCases DEF Typed
  <2>3. [requests[q] EXCEPT !.at = "audit"].op = requests[q].op
    BY <2>2 DEF PermitReq
  <2>4. Finish(q) \/ Serve(q, [requests[q] EXCEPT !.at = "audit"])
    BY <1>3 DEF PermissionWork, ChangePermission, AuditPermission
  <2> QED
    BY <1>1, <2>1, <2>3, <2>4, ServedAside, FinishedAside, Zenon DEF TotpAside
<1>4. ASSUME NEW q \in Requests, CeremonyWork(q)
      PROVE  TotpAside
  <2>1. GoesOn(q, CeremonyOps) /\ UNCHANGED <<totp, era>>
    BY <1>4, CeremonyEffect
  <2> QED
    BY <1>1, <2>1, ServedAside DEF GoesOn, TotpAside
<1>5. CASE SingleStep
  BY <1>5, SingleEffect DEF SingleGoes, Quiet, TotpAside
<1>6. ASSUME NEW q \in Requests, Commits(q)
      PROVE  TotpAside
  <2>1. /\ requests[q] \in AdminReq /\ Commit(q)
        /\ UNCHANGED <<totp, era>> \/ DeactivationTrigger(requests[q].target)
    BY <1>6, CommitEffect
  <2>2. requests[q].op \in AdminOps /\ requests[q].target \in Users
    BY <2>1 DEF AdminReq
  <2>3. \A u \in Users : \/ totp'[u] = totp[u] /\ era'[u] = era[u]
                         \/ totp'[u] = NoTotp /\ era'[u] # 0
    <3>1. CASE UNCHANGED <<totp, era>>
      BY <3>1
    <3>2. CASE DeactivationTrigger(requests[q].target)
      <4>1. totp \in [Users -> TotpType] /\ era \in [Users -> Nat]
        BY DEF Typed
      <4>2. /\ totp' = [totp EXCEPT ![requests[q].target] = NoTotp]
            /\ era' = [era EXCEPT ![requests[q].target] = @ + 1]
        BY <3>2 DEF DeactivationTrigger
      <4> QED
        BY <2>2, <4>1, <4>2
    <3> QED
      BY <2>1, <3>1, <3>2
  <2> QED
    BY <1>1, <2>1, <2>2, <2>3, FinishedAside DEF TotpAside, Commit
<1>7. ASSUME NEW q \in Requests, ReadTarget(q) \/ GuardLastAdmin(q) \/ RetireInvites(q)
      PROVE  TotpAside
  <2>1. UNCHANGED <<totp, era>> /\ AdminWork(q)
    BY <1>7, Zenon DEF ReadTarget, GuardLastAdmin, RetireInvites, AdminWork
  <2> QED
    BY <1>1, <2>1, AdminStays, ServedAside DEF TotpAside
<1> QED
  BY <1>2, <1>3, <1>4, <1>5, <1>6, <1>7 DEF AdminWork, Commits

\* Few enough requests to count.
LEMMA FailingIsFinite ==
    ASSUME NEW u
    PROVE  /\ IsFiniteSet(Failing(u)) /\ Cardinality(Failing(u)) \in Nat
           /\ Cardinality(Requests) \in Nat /\ Cardinality(Failing(u)) <= Cardinality(Requests)
<1>1. Failing(u) \subseteq Requests /\ IsFiniteSet(Requests)
  BY AccountsAssumption DEF Failing
<1> QED
  BY <1>1, FS_Subset, FS_CardinalityType

LEMMA CountedAside ==
    ASSUME Typed, AllCounted, TotpAside, UNCHANGED guesses
    PROVE  AllCounted'
<1> SUFFICES ASSUME NEW u \in Users, era'[u] = 0
             PROVE  Counted(u)'
  BY DEF AllCounted
<1>1. totp'[u] = totp[u] /\ era[u] = 0
  BY DEF TotpAside
<1>2. Failing(u)' = Failing(u)
  BY DEF TotpAside, Failing
<1>3. Counted(u)
  BY <1>1 DEF AllCounted
<1> QED
  BY <1>1, <1>2, <1>3 DEF Counted

LEMMA ReplacementAside ==
    ASSUME Typed, Replacement, TotpAside, UNCHANGED <<disturbed, replacing>>
    PROVE  Replacement'
<1>1. \A p, q \in Requests :
         /\ p # q /\ requests'[p].op \in TotpOps /\ requests'[q].op \in TotpOps
         /\ requests'[p].user = requests'[q].user
         => requests'[p].user \in disturbed'
  BY DEF Replacement, TotpAside
<1>2. \A u \in Users : totp'[u].confirmed /\ totp'[u].pending # 0 =>
         totp'[u].pending \in replacing' \/ u \in disturbed'
  BY NoTotpType DEF Replacement, TotpAside
<1>3. \A q \in Requests : requests'[q].op \in {"enroll_begin", "enroll_confirm"} =>
        /\ requests'[q] = requests[q] /\ requests[q].user \in Users
  BY ReqCases DEF TotpAside, TotpOps, Typed, TotpReq
<1>4. \A q \in Requests :
         /\ requests'[q].op = "enroll_begin" /\ requests'[q].at = "store" /\ ~requests'[q].reverified
         => ~totp'[requests'[q].user].confirmed \/ requests'[q].user \in disturbed'
  BY <1>3, NoTotpType DEF Replacement, TotpAside
<1>5. \A q \in Requests :
         /\ requests'[q].op = "enroll_confirm" /\ requests'[q].at = "succeed"
         => \/ totp'[requests'[q].user] = NoTotp \/ totp'[requests'[q].user].pending # 0
            \/ requests'[q].user \in disturbed'
  BY <1>3 DEF Replacement, TotpAside
<1> QED
  BY <1>1, <1>2, <1>4, <1>5 DEF Replacement

\* What a TOTP request's step does to the requests about to record a wrong code.
LEMMA FailingChanges ==
    ASSUME Typed, NEW q \in Requests, NEW new \in ReqType, Serve(q, new),
           NEW u, u = requests[q].user, requests[q].op \in TotpOps,
           new.op \in TotpOps => new.user = u
    PROVE  /\ \A v : v # u => Failing(v)' = Failing(v)
           /\ new.op \in TotpOps /\ new.at = "fail" => Failing(u)' = Failing(u) \cup {q}
           /\ ~(new.op \in TotpOps /\ new.at = "fail") => Failing(u)' = Failing(u) \ {q}
<1>1. requests'[q] = new /\ \A p \in Requests : p # q => requests'[p] = requests[p]
  BY Served
<1>2. ASSUME NEW v, v # u
      PROVE  Failing(v)' = Failing(v)
  BY <1>1, <1>2 DEF Failing
<1>3. Failing(u)' \subseteq Requests /\ Failing(u) \subseteq Requests
  BY DEF Failing
<1>4. ASSUME new.op \in TotpOps, new.at = "fail"
      PROVE  Failing(u)' = Failing(u) \cup {q}
  <2>1. \A p \in Requests : p \in Failing(u)' <=> p \in Failing(u) \/ p = q
    BY <1>1, <1>4 DEF Failing
  <2> QED
    BY <2>1, <1>3
<1>5. ASSUME ~(new.op \in TotpOps /\ new.at = "fail")
      PROVE  Failing(u)' = Failing(u) \ {q}
  <2>1. \A p \in Requests : p \in Failing(u)' <=> p \in Failing(u) /\ p # q
    BY <1>1, <1>5 DEF Failing
  <2> QED
    BY <2>1, <1>3
<1> QED
  BY <1>2, <1>4, <1>5

\* A step that is not of the count, and one that starts it anew.
LEMMA CountedSame ==
    ASSUME NEW u \in Users, Counted(u), guesses'[u] = guesses[u],
           totp'[u].locked = totp[u].locked, totp'[u].failed = totp[u].failed,
           totp[u].pending # 0 \/ totp[u].confirmed => totp'[u].pending # 0 \/ totp'[u].confirmed,
           Failing(u)' = Failing(u)
    PROVE  Counted(u)'
BY DEF Counted

LEMMA CountedReset ==
    ASSUME NEW u \in Users, guesses'[u] = 0, ~totp'[u].locked, totp'[u].failed \in Nat,
           Failing(u)' # {} => totp'[u].pending # 0 \/ totp'[u].confirmed
    PROVE  Counted(u)'
<1>1. Cardinality(Failing(u)') \in Nat
  <2>1. Failing(u)' \subseteq Requests
    BY DEF Failing
  <2> QED
    BY <2>1, FS_Subset, FS_CardinalityType, AccountsAssumption
<1>2. totp'[u].failed < MaxFailures => guesses'[u] <= totp'[u].failed + Cardinality(Failing(u)')
  BY <1>1
<1>3. guesses'[u] <= Cardinality(Failing(u)')
  BY <1>1
<1> QED
  BY <1>2, <1>3 DEF Counted

\* A step of a request counts for its user alone.
LEMMA CountedForOne ==
    ASSUME Typed, AllCounted, NEW q \in Requests, NEW new \in ReqType, Serve(q, new),
           NEW u, u = requests[q].user, requests[q] \in TotpReq,
           new.op \in TotpOps => new.user = u,
           UNCHANGED era,
           \A v \in Users : v # u => totp'[v] = totp[v] /\ guesses'[v] = guesses[v],
           Counted(u) => Counted(u)'
    PROVE  AllCounted'
<1> SUFFICES ASSUME NEW w \in Users, era'[w] = 0
             PROVE  Counted(w)'
  BY DEF AllCounted
<1>1. Counted(w)
  BY DEF AllCounted
<1>2. CASE w = u
  BY <1>1, <1>2
<1>3. CASE w # u
  <2>1. requests[q].op \in TotpOps
    BY DEF TotpReq
  <2>2. Failing(w)' = Failing(w)
    BY <1>3, <2>1, FailingChanges
  <2> QED
    BY <1>1, <1>3, <2>2, CountedSame
<1> QED
  BY <1>2, <1>3

LEMMA CountedTotp ==
    ASSUME Typed, AllCounted, NEW q \in Requests, TotpWork(q)
    PROVE  AllCounted'
<1> PICK r : r = requests[q]
  OBVIOUS
<1> PICK u : u = r.user
  OBVIOUS
<1>1. r \in TotpReq /\ r.op \in TotpOps /\ u \in Users /\ UNCHANGED era
  BY TotpEffect DEF TotpGoes, TotpReq
<1>2. totp \in [Users -> TotpType] /\ guesses \in [Users -> Nat] /\ totp[u] \in TotpType
  BY <1>1 DEF Typed
<1>3. totp[u].failed \in Nat /\ guesses[u] \in Nat /\ MaxFailures \in Nat /\ MaxFailures > 0
  BY <1>1, <1>2, StepUpAssumption DEF TotpType
<1>4. /\ IsFiniteSet(Failing(u)) /\ Cardinality(Failing(u)) \in Nat
      /\ Cardinality(Requests) \in Nat /\ Cardinality(Failing(u)) <= Cardinality(Requests)
  BY FailingIsFinite
\* The request's next record, when it is not one about to fail.
<1>5. ASSUME NEW at \in {"store", "succeed", "elevate"},
             Finish(q) \/ Serve(q, [r EXCEPT !.at = at]),
             r.at # "fail",
             \A v \in Users : v # u => totp'[v] = totp[v] /\ guesses'[v] = guesses[v],
             Counted(u) /\ Failing(u)' = Failing(u) => Counted(u)'
      PROVE  AllCounted'
  <2>1. PICK new \in ReqType : Serve(q, new) /\ (new.op \in TotpOps => new.user = u /\ new.at # "fail")
    <3>1. CASE Finish(q)
      BY <3>1, IdleType DEF Finish, Idle, TotpOps
    <3>2. CASE Serve(q, [r EXCEPT !.at = at])
      <4>1. [r EXCEPT !.at = at] \in ReqType
        BY <1>1, <1>5, TotpReqGoes, Zenon
      <4>2. [r EXCEPT !.at = at].user = u /\ [r EXCEPT !.at = at].at = at /\ at # "fail"
        BY <1>1, <1>5 DEF TotpReq
      <4> QED
        BY <3>2, <4>1, <4>2, Zenon
    <3> QED
      BY <1>5, <3>1, <3>2
  <2>2. Failing(u)' = Failing(u) \ {q}
    BY <1>1, <2>1, FailingChanges
  <2>3. q \notin Failing(u)
    BY <1>5 DEF Failing
  <2>4. Failing(u)' = Failing(u)
    BY <2>2, <2>3
  <2> QED
    BY <1>1, <1>5, <2>1, <2>4, CountedForOne
<1>6. CASE CheckReplacement(q) \/ RecordStepUp(q)
  <2>1. /\ Finish(q) \/ Serve(q, [r EXCEPT !.at = "store"])
        /\ r.at # "fail" /\ totp' = totp /\ guesses' = guesses
    BY <1>6 DEF CheckReplacement, RecordStepUp, identity, totpVars
  <2>2. Counted(u) /\ Failing(u)' = Failing(u) => Counted(u)'
    BY <1>1, <2>1, CountedSame
  <2> QED
    BY <1>5, <2>1, <2>2
<1>7. CASE StoreUnconfirmed(q)
  <2>1. /\ Finish(q) /\ r.at # "fail" /\ guesses' = guesses
        /\ totp' = [totp EXCEPT ![u] = [totp[u] EXCEPT !.pending = secretsMade + 1]]
    BY <1>7 DEF StoreUnconfirmed
  <2>2. totp'[u] = [totp[u] EXCEPT !.pending = secretsMade + 1]
        /\ \A v \in Users : v # u => totp'[v] = totp[v]
    BY <1>1, <1>2, <2>1
  <2>3. totp'[u].locked = totp[u].locked /\ totp'[u].failed = totp[u].failed
        /\ totp'[u].pending = secretsMade + 1
    BY <1>2, <2>2 DEF TotpType
  <2>4. secretsMade + 1 # 0
    BY DEF Typed
  <2>5. Counted(u) /\ Failing(u)' = Failing(u) => Counted(u)'
    BY <1>1, <2>1, <2>3, <2>4, CountedSame
  <2> QED
    BY <1>5, <2>1, <2>2, <2>5
<1>8. CASE ConfirmSecret(q)
  <2>1. /\ Finish(q) /\ r.at # "fail" /\ guesses' = [guesses EXCEPT ![u] = 0]
        /\ \/ totp' = totp /\ totp[u] = NoTotp
           \/ totp' = [totp EXCEPT ![u] =
                         [secret |-> totp[u].pending, pending |-> 0, confirmed |-> TRUE,
                          failed |-> 0, locked |-> FALSE, lastStep |-> r.code.step]]
    BY <1>8 DEF ConfirmSecret
  <2>2. /\ guesses'[u] = 0 /\ ~totp'[u].locked /\ totp'[u].failed = 0
        /\ totp[u].pending # 0 \/ totp[u].confirmed => totp'[u].confirmed
        /\ \A v \in Users : v # u => totp'[v] = totp[v] /\ guesses'[v] = guesses[v]
    BY <1>1, <1>2, <2>1, NoTotpType
  <2>3. ASSUME Counted(u), Failing(u)' = Failing(u)
        PROVE  Counted(u)'
    <3>1. Failing(u)' # {} => totp'[u].pending # 0 \/ totp'[u].confirmed
      BY <2>2, <2>3, Zenon DEF Counted
    <3>2. totp'[u].failed \in Nat
      BY <2>2
    <3> QED
      BY <1>1, <2>2, <3>1, <3>2, CountedReset, Zenon
  <2> QED
    BY <1>5, <2>1, <2>2, <2>3
<1>9. ASSUME NEW stored \in BOOLEAN, RecordSuccess(q, stored)
      PROVE  AllCounted'
  <2>1. Serve(q, [r EXCEPT !.at = "elevate"]) /\ r.at # "fail"
    BY <1>9 DEF RecordSuccess
  <2>2. CASE ~stored
    <3>1. totp' = totp /\ guesses' = guesses
      BY <1>9, <2>2 DEF RecordSuccess
    <3>2. Counted(u) /\ Failing(u)' = Failing(u) => Counted(u)'
      BY <1>1, <3>1, CountedSame
    <3> QED
      BY <1>5, <2>1, <3>1, <3>2
  <2>3. CASE stored
    <3> PICK row : row = [totp[u] EXCEPT !.failed = 0, !.locked = FALSE, !.lastStep = r.code.step]
      OBVIOUS
    <3>1. row.failed = 0 /\ ~row.locked /\ row.pending = totp[u].pending
          /\ row.confirmed = totp[u].confirmed
      BY <1>2 DEF TotpType
    <3>2. /\ guesses' = [guesses EXCEPT ![u] = 0]
          /\ (totp' = totp /\ totp[u] = NoTotp) \/ totp' = [totp EXCEPT ![u] = row]
      BY <1>9, <2>3, Zenon DEF RecordSuccess
    <3>3. /\ guesses'[u] = 0 /\ ~totp'[u].locked /\ totp'[u].failed = 0
          /\ totp'[u].pending = totp[u].pending /\ totp'[u].confirmed = totp[u].confirmed
          /\ \A v \in Users : v # u => totp'[v] = totp[v] /\ guesses'[v] = guesses[v]
      BY <1>1, <1>2, <3>1, <3>2, NoTotpType, Zenon
    <3>4. ASSUME Counted(u), Failing(u)' = Failing(u)
          PROVE  Counted(u)'
      <4>1. Failing(u)' # {} => totp'[u].pending # 0 \/ totp'[u].confirmed
        BY <3>3, <3>4, Zenon DEF Counted
      <4>2. totp'[u].failed \in Nat
        BY <3>3
      <4> QED
        BY <1>1, <3>3, <4>1, <4>2, CountedReset, Zenon
    <3> QED
      BY <1>5, <2>1, <3>3, <3>4
  <2> QED
    BY <2>2, <2>3
<1>10. CASE LoadAndVerify(q)
  <2>1. r.at = "load" /\ totp' = totp
    BY <1>10 DEF LoadAndVerify, identity
  <2>2. CASE guesses' = guesses
    <3>1. Finish(q) \/ Serve(q, [r EXCEPT !.at = "succeed"]) \/ Serve(q, [r EXCEPT !.at = "fail"])
      BY <1>10 DEF LoadAndVerify
    <3>2. ~Serve(q, [r EXCEPT !.at = "fail"])
      <4> SUFFICES ASSUME Serve(q, [r EXCEPT !.at = "fail"])
                   PROVE  guesses' # guesses
        BY <2>2
      <4>1. requests'[q] = [r EXCEPT !.at = "fail"]
        BY Served
      <4>2. requests'[q].at = "fail"
        BY <1>1, <4>1 DEF TotpReq
      <4>3. guesses' = [guesses EXCEPT ![u] = @ + 1]
        <5>1. ~Finish(q) /\ ~Serve(q, [r EXCEPT !.at = "succeed"])
          BY <1>1, <4>2, Served DEF Finish, Idle, TotpReq
        <5> QED
          BY <1>10, <5>1 DEF LoadAndVerify
      <4> QED
        BY <1>1, <1>2, <1>3, <4>3
    <3>3. Counted(u) /\ Failing(u)' = Failing(u) => Counted(u)'
      BY <1>1, <2>1, <2>2, CountedSame
    <3> QED
      BY <1>5, <2>1, <2>2, <3>1, <3>2, <3>3
  <2>3. CASE guesses' # guesses
    <3>1. /\ Serve(q, [r EXCEPT !.at = "fail"]) /\ guesses' = [guesses EXCEPT ![u] = @ + 1]
          /\ ~totp[u].locked /\ (totp[u].pending # 0 \/ totp[u].confirmed)
      BY <1>10, <2>3 DEF LoadAndVerify
    <3> PICK new : new = [r EXCEPT !.at = "fail"]
      BY Zenon
    <3>2. new \in ReqType /\ new.op \in TotpOps /\ new.user = u /\ new.at = "fail"
      <4>1. new \in TotpReq
        BY <1>1, TotpReqGoes, Zenon
      <4>2. new.user = u /\ new.at = "fail"
        BY <1>1 DEF TotpReq
      <4> QED
        BY <4>1, <4>2, TotpReqGoes, Zenon
    <3>3. Failing(u)' = Failing(u) \cup {q}
      BY <1>1, <3>1, <3>2, FailingChanges, Zenon
    <3>4. q \notin Failing(u)
      BY <2>1 DEF Failing
    <3>5. Cardinality(Failing(u)') = Cardinality(Failing(u)) + 1
      BY <1>4, <3>3, <3>4, FS_AddElement, SMTT(30)
    <3>6. guesses'[u] = guesses[u] + 1 /\ \A v \in Users : v # u => guesses'[v] = guesses[v]
      BY <1>1, <1>2, <3>1
    <3>7. ASSUME Counted(u)
          PROVE  Counted(u)'
      <4>1. totp[u].failed < MaxFailures => guesses'[u] <= totp[u].failed + Cardinality(Failing(u)')
        BY <1>3, <1>4, <3>1, <3>5, <3>6, <3>7, SMTT(30) DEF Counted
      <4>2. totp[u].failed >= MaxFailures => guesses'[u] <= Cardinality(Failing(u)')
        BY <1>3, <1>4, <3>1, <3>5, <3>6, <3>7, SMTT(30) DEF Counted
      <4> QED
        BY <2>1, <3>1, <4>1, <4>2 DEF Counted
    <3>8. \A v \in Users : v # u => totp'[v] = totp[v] /\ guesses'[v] = guesses[v]
      BY <2>1, <3>6
    <3>9. Serve(q, new) /\ (new.op \in TotpOps => new.user = u)
      BY <3>1, <3>2
    <3>10. Counted(u) => Counted(u)'
      BY <3>7
    <3> HIDE <3>7
    <3> QED
      BY <1>1, <3>2, <3>8, <3>9, <3>10, CountedForOne, ZenonT(30)
  <2> QED
    BY <2>2, <2>3
<1>11. CASE RecordFailure(q)
  <2>1. Finish(q) /\ r.at = "fail" /\ guesses' = guesses
    BY <1>11 DEF RecordFailure, totpVars
  <2>2. q \in Failing(u)
    BY <1>1, <2>1 DEF Failing
  <2>3. Serve(q, Idle) /\ Idle \in ReqType /\ Idle.op \notin TotpOps
    BY <2>1, IdleType DEF Finish, Idle, TotpOps
  <2>4. Failing(u)' = Failing(u) \ {q}
    BY <1>1, <2>3, FailingChanges
  <2>5. Cardinality(Failing(u)') = Cardinality(Failing(u)) - 1
    BY <1>4, <2>2, <2>4, FS_RemoveElement, Zenon
  <2>6. ASSUME Counted(u)
        PROVE  Counted(u)' /\ \A v \in Users : v # u => totp'[v] = totp[v]
    <3>1. totp[u].pending # 0 \/ totp[u].confirmed
      BY <2>2, <2>6 DEF Counted
    <3>2. totp[u] # NoTotp
      BY <3>1, NoTotpType
    <3> PICK lock : lock = (totp[u].locked \/ totp[u].failed + 1 >= MaxFailures)
      OBVIOUS
    <3>3. totp' = [totp EXCEPT ![u] = [totp[u] EXCEPT !.failed = totp[u].failed + 1, !.locked = lock]]
      BY <1>11, <3>2, Zenon DEF RecordFailure
    <3>4. totp'[u] = [totp[u] EXCEPT !.failed = totp[u].failed + 1, !.locked = lock]
          /\ \A v \in Users : v # u => totp'[v] = totp[v]
      BY <1>1, <1>2, <3>3, Zenon
    <3>5. /\ totp'[u].failed = totp[u].failed + 1 /\ totp'[u].locked = lock
          /\ totp'[u].pending = totp[u].pending /\ totp'[u].confirmed = totp[u].confirmed
      BY <1>2, <3>4 DEF TotpType
    <3>6. lock => guesses[u] <= MaxFailures + Cardinality(Requests) - 1
      <4>1. CASE totp[u].locked
        BY <2>6, <4>1 DEF Counted
      <4>2. CASE ~totp[u].locked /\ totp[u].failed < MaxFailures
        <5>1. guesses[u] <= totp[u].failed + Cardinality(Failing(u))
          BY <2>6, <4>2 DEF Counted
        <5> QED
          BY <1>3, <1>4, <4>2, <5>1
      <4>3. CASE ~totp[u].locked /\ totp[u].failed >= MaxFailures
        <5>1. guesses[u] <= Cardinality(Failing(u))
          BY <2>6, <4>3 DEF Counted
        <5> QED
          BY <1>3, <1>4, <5>1
      <4> QED
        BY <1>3, <4>1, <4>2, <4>3
    <3>7. ~lock => /\ totp[u].failed + 1 < MaxFailures
                   /\ guesses[u] <= totp[u].failed + 1 + Cardinality(Failing(u)')
      <4> SUFFICES ASSUME ~lock
                   PROVE  /\ totp[u].failed + 1 < MaxFailures
                          /\ guesses[u] <= totp[u].failed + 1 + Cardinality(Failing(u)')
        OBVIOUS
      <4>1. ~totp[u].locked /\ totp[u].failed + 1 < MaxFailures
        <5>1. ~totp[u].locked /\ ~(totp[u].failed + 1 >= MaxFailures)
          BY Zenon
        <5> QED
          BY <1>3, <5>1
      <4>2. guesses[u] <= totp[u].failed + Cardinality(Failing(u))
        BY <1>3, <2>6, <4>1, SMTT(30) DEF Counted
      <4> QED
        BY <1>3, <1>4, <2>5, <4>1, <4>2
    <3>8. totp'[u].failed >= MaxFailures => lock
      BY <1>3, <3>5, Zenon
    <3> QED
      BY <2>1, <3>1, <3>4, <3>5, <3>6, <3>7, <3>8 DEF Counted
  <2>7. \A v \in Users : v # u => totp'[v] = totp[v]
    BY <1>11, <1>2 DEF RecordFailure
  <2> QED
    BY <1>1, <2>1, <2>3, <2>6, <2>7, CountedForOne
<1> QED
  BY <1>6, <1>7, <1>8, <1>9, <1>10, <1>11 DEF TotpWork

\* A request that begins has nothing to record yet.
LEMMA CountedAsk ==
    ASSUME Typed, AllCounted, NEW q \in Requests, AskTotp(q)
    PROVE  AllCounted'
<1>1. PICK new : Serve(q, new) /\ new.at = "load" /\ requests[q] = Idle
                 /\ UNCHANGED <<totp, guesses, era>>
  BY DEF AskTotp, BeginTotp, CanStart, Start, identity
<1>2. requests'[q].at = "load" /\ requests[q].op \notin TotpOps
      /\ \A p \in Requests : p # q => requests'[p] = requests[p]
  BY <1>1, Served DEF Idle, TotpOps
<1> SUFFICES ASSUME NEW u \in Users, era'[u] = 0
             PROVE  Counted(u)'
  BY DEF AllCounted
<1>3. Failing(u)' = Failing(u)
  <2>1. \A p \in Requests : p \in Failing(u)' <=> p \in Failing(u)
    BY <1>2 DEF Failing
  <2> QED
    BY <2>1 DEF Failing
<1>4. Counted(u)
  BY <1>1 DEF AllCounted
<1> QED
  BY <1>1, <1>3, <1>4, CountedSame

LEMMA CountedOpens ==
    ASSUME Typed, AllCounted, NEW u \in Users, LockOpens(u)
    PROVE  AllCounted'
<1>1. /\ totp' = [totp EXCEPT ![u] = [totp[u] EXCEPT !.locked = FALSE]]
      /\ guesses' = [guesses EXCEPT ![u] = 0]
      /\ requests' = requests /\ era' = era
      /\ totp \in [Users -> TotpType] /\ guesses \in [Users -> Nat] /\ totp[u] \in TotpType
  BY DEF LockOpens, otherTables, Typed
<1>2. /\ totp'[u] = [totp[u] EXCEPT !.locked = FALSE] /\ guesses'[u] = 0
      /\ \A v \in Users : v # u => totp'[v] = totp[v] /\ guesses'[v] = guesses[v]
  BY <1>1
<1>3. ~totp'[u].locked /\ totp'[u].failed \in Nat
      /\ totp'[u].pending = totp[u].pending /\ totp'[u].confirmed = totp[u].confirmed
  BY <1>1, <1>2 DEF TotpType
<1> SUFFICES ASSUME NEW w \in Users, era'[w] = 0
             PROVE  Counted(w)'
  BY DEF AllCounted
<1>4. Failing(w)' = Failing(w)
  BY <1>1 DEF Failing
<1>5. Counted(w)
  BY <1>1 DEF AllCounted
<1>6. CASE w = u
  BY <1>2, <1>3, <1>4, <1>5, <1>6, CountedReset, Zenon DEF Counted
<1>7. CASE w # u
  BY <1>2, <1>4, <1>5, <1>7, CountedSame
<1> QED
  BY <1>6, <1>7

LEMMA CountedNext ==
    ASSUME Typed, AllCounted, [AccountsNext]_allVars
    PROVE  AllCounted'
<1>1. CASE /\ \/ \E q \in Requests : Ask(q) \/ AdminWork(q) \/ PermissionWork(q) \/ CeremonyWork(q)
              \/ SingleStep
           /\ UNCHANGED totpVars
  BY <1>1, AccountsStepAside, CountedAside DEF totpVars
<1>2. ASSUME UNCHANGED <<requests, totp, era, guesses>>
      PROVE  AllCounted'
  BY <1>2 DEF AllCounted, Counted, Failing
<1>3. CASE Tick \/ UNCHANGED allVars
  BY <1>2, <1>3 DEF Tick, allVars, vars, totpVars
<1> QED
  BY <1>1, <1>3, CountedAsk, CountedTotp, CountedOpens DEF AccountsNext

-----------------------------------------------------------------------------
(* What replaces an authenticator.                                              *)

\* A step of a TOTP request concerns its own user; unless that user's requests
\* overlap it is the only one of them.
LEMMA ReplacementForOne ==
    ASSUME Typed, Replacement, NEW q \in Requests, NEW new \in ReqType, Serve(q, new),
           NEW u, u = requests[q].user, requests[q] \in TotpReq,
           new.op \in TotpOps => new.user = u,
           disturbed \subseteq disturbed', replacing \subseteq replacing',
           \A v \in Users : v # u => totp'[v] = totp[v],
           u \notin disturbed' =>
             /\ totp'[u].confirmed /\ totp'[u].pending # 0 => totp'[u].pending \in replacing'
             /\ new.op = "enroll_begin" /\ new.at = "store" /\ ~new.reverified => ~totp'[u].confirmed
             /\ new.op = "enroll_confirm" /\ new.at = "succeed" =>
                  totp'[u] = NoTotp \/ totp'[u].pending # 0
    PROVE  Replacement'
<1>1. requests'[q] = new /\ \A p \in Requests : p # q => requests'[p] = requests[p]
  BY Served
<1>2. requests[q].op \in TotpOps
  BY DEF TotpReq
<1>3. \A p, o \in Requests :
         /\ p # o /\ requests'[p].op \in TotpOps /\ requests'[o].op \in TotpOps
         /\ requests'[p].user = requests'[o].user
         => requests'[p].user \in disturbed'
  <2> SUFFICES ASSUME NEW p \in Requests, NEW o \in Requests, p # o,
                      requests'[p].op \in TotpOps, requests'[o].op \in TotpOps,
                      requests'[p].user = requests'[o].user
               PROVE  requests'[p].user \in disturbed'
    OBVIOUS
  <2>1. \A x \in {p, o} : requests[x].op \in TotpOps /\ requests'[x].user = requests[x].user
    BY <1>1, <1>2
  <2>2. requests[p].user \in disturbed
    BY <2>1 DEF Replacement
  <2> QED
    BY <2>1, <2>2
<1>4. \A w \in Users : totp'[w].confirmed /\ totp'[w].pending # 0 =>
         totp'[w].pending \in replacing' \/ w \in disturbed'
  BY DEF Replacement
\* Another request is of another user, or the user's requests overlap.
<1>5. ASSUME NEW p \in Requests, p # q, requests'[p].op \in TotpOps
      PROVE  /\ requests'[p] = requests[p] /\ requests[p].user \in Users
             /\ requests[p].user \in disturbed' \/ totp'[requests[p].user] = totp[requests[p].user]
  <2>1. requests'[p] = requests[p]
    BY <1>1, <1>5
  <2>2. requests[p].user \in Users
    BY <1>5, <2>1, ReqCases DEF Typed, TotpReq
  <2>3. requests[p].user = u => u \in disturbed
    BY <1>2, <1>5, <2>1, Zenon DEF Replacement
  <2> QED
    BY <2>1, <2>2, <2>3
<1>6. \A p \in Requests :
         /\ requests'[p].op = "enroll_begin" /\ requests'[p].at = "store" /\ ~requests'[p].reverified
         => ~totp'[requests'[p].user].confirmed \/ requests'[p].user \in disturbed'
  <2> SUFFICES ASSUME NEW p \in Requests, requests'[p].op = "enroll_begin",
                      requests'[p].at = "store", ~requests'[p].reverified
               PROVE  ~totp'[requests'[p].user].confirmed \/ requests'[p].user \in disturbed'
    OBVIOUS
  <2>1. requests'[p].op \in TotpOps
    BY DEF TotpOps
  <2>2. CASE p = q
    BY <1>1, <2>1, <2>2
  <2>3. CASE p # q
    <3> PICK v : v = requests[p].user
      OBVIOUS
    <3>1. requests'[p] = requests[p] /\ (v \in disturbed' \/ totp'[v] = totp[v])
      BY <1>5, <2>1, <2>3
    <3>2. ~totp[v].confirmed \/ v \in disturbed
      BY <3>1, Zenon DEF Replacement
    <3> QED
      BY <3>1, <3>2, Zenon
  <2> QED
    BY <2>2, <2>3
<1>7. \A p \in Requests :
         /\ requests'[p].op = "enroll_confirm" /\ requests'[p].at = "succeed"
         => \/ totp'[requests'[p].user] = NoTotp \/ totp'[requests'[p].user].pending # 0
            \/ requests'[p].user \in disturbed'
  <2> SUFFICES ASSUME NEW p \in Requests, requests'[p].op = "enroll_confirm",
                      requests'[p].at = "succeed"
               PROVE  \/ totp'[requests'[p].user] = NoTotp \/ totp'[requests'[p].user].pending # 0
                      \/ requests'[p].user \in disturbed'
    OBVIOUS
  <2>1. requests'[p].op \in TotpOps
    BY DEF TotpOps
  <2>2. CASE p = q
    BY <1>1, <2>1, <2>2
  <2>3. CASE p # q
    <3> PICK v : v = requests[p].user
      OBVIOUS
    <3>1. requests'[p] = requests[p] /\ (v \in disturbed' \/ totp'[v] = totp[v])
      BY <1>5, <2>1, <2>3
    <3>2. totp[v] = NoTotp \/ totp[v].pending # 0 \/ v \in disturbed
      BY <3>1, Zenon DEF Replacement
    <3> QED
      BY <3>1, <3>2, Zenon
  <2> QED
    BY <2>2, <2>3
<1> QED
  BY <1>3, <1>4, <1>6, <1>7 DEF Replacement

\* What a TOTP request's step does to its user's row.
LEMMA ReplacementTotp ==
    ASSUME Typed, Replacement, NEW q \in Requests, TotpWork(q)
    PROVE  Replacement'
<1> PICK r : r = requests[q]
  OBVIOUS
<1> PICK u : u = r.user
  OBVIOUS
<1>1. r \in TotpReq /\ r.op \in TotpOps /\ u \in Users
  BY TotpEffect DEF TotpReq
<1>2. totp \in [Users -> TotpType] /\ totp[u] \in TotpType
  BY <1>1 DEF Typed
<1>3. \A at \in {"store", "fail", "succeed", "elevate"} :
        /\ [r EXCEPT !.at = at] \in ReqType
        /\ [r EXCEPT !.at = at].user = u /\ [r EXCEPT !.at = at].at = at
        /\ [r EXCEPT !.at = at].op = r.op /\ [r EXCEPT !.at = at].reverified = r.reverified
  <2>1. \A at \in {"store", "fail", "succeed", "elevate"} : [r EXCEPT !.at = at] \in ReqType
    BY <1>1, TotpReqGoes, Zenon
  <2>2. \A at \in {"store", "fail", "succeed", "elevate"} :
          /\ [r EXCEPT !.at = at].user = u /\ [r EXCEPT !.at = at].at = at
          /\ [r EXCEPT !.at = at].op = r.op /\ [r EXCEPT !.at = at].reverified = r.reverified
    BY <1>1 DEF TotpReq
  <2> QED
    BY <2>1, <2>2
<1>4. Idle \in ReqType /\ Idle.op = "none" /\ "none" \notin TotpOps
  BY IdleType DEF Idle, TotpOps
<1>5. u \notin disturbed /\ totp[u].confirmed /\ totp[u].pending # 0 => totp[u].pending \in replacing
  BY <1>1 DEF Replacement
\* A request that ends, with its user's row as confirmed and pending as it was.
<1>6. ASSUME Finish(q), disturbed \subseteq disturbed', replacing \subseteq replacing',
             \A v \in Users : v # u => totp'[v] = totp[v],
             u \notin disturbed' /\ totp'[u].confirmed /\ totp'[u].pending # 0 =>
               totp'[u].pending \in replacing'
      PROVE  Replacement'
  <2>1. Serve(q, Idle)
    BY <1>6 DEF Finish
  <2>2. Idle.op \notin TotpOps /\ Idle.op # "enroll_begin" /\ Idle.op # "enroll_confirm"
    BY <1>4
  <2>3. u = requests[q].user /\ requests[q] \in TotpReq
    BY <1>1
  <2> QED
    BY <1>4, <1>6, <2>1, <2>2, <2>3, ReplacementForOne, Zenon
<1>7. CASE CheckReplacement(q)
  <2>1. totp' = totp /\ disturbed' = disturbed /\ replacing' = replacing
    BY <1>7 DEF CheckReplacement, identity, totpVars
  <2>2. CASE Finish(q)
    BY <1>5, <1>6, <2>1, <2>2
  <2>3. CASE ~Finish(q)
    <3> PICK new : new = [r EXCEPT !.at = "store"]
      BY Zenon
    <3>1. Serve(q, new) /\ (totp[u].confirmed => r.reverified)
      BY <1>7, <2>3 DEF CheckReplacement
    <3>2. new \in ReqType /\ new.user = u /\ new.at = "store" /\ new.reverified = r.reverified
      BY <1>3
    <3> QED
      BY <1>1, <1>5, <2>1, <3>1, <3>2, ReplacementForOne, Zenon
  <2> QED
    BY <2>2, <2>3
<1>8. CASE StoreUnconfirmed(q)
  <2>1. /\ Finish(q) /\ r.op = "enroll_begin" /\ r.at = "store" /\ disturbed' = disturbed
        /\ totp' = [totp EXCEPT ![u] = [totp[u] EXCEPT !.pending = secretsMade + 1]]
        /\ replacing' = IF r.reverified THEN replacing \cup {secretsMade + 1} ELSE replacing
    BY <1>8 DEF StoreUnconfirmed
  <2>2. totp'[u] = [totp[u] EXCEPT !.pending = secretsMade + 1]
        /\ \A v \in Users : v # u => totp'[v] = totp[v]
    BY <1>1, <1>2, <2>1
  <2>3. totp'[u].pending = secretsMade + 1 /\ totp'[u].confirmed = totp[u].confirmed
    BY <1>2, <2>2 DEF TotpType
  <2>4. ~r.reverified => ~totp[u].confirmed \/ u \in disturbed
    BY <2>1 DEF Replacement
  <2>5. u \notin disturbed' /\ totp'[u].confirmed => totp'[u].pending \in replacing'
    BY <2>1, <2>3, <2>4
  <2>6. replacing \subseteq replacing'
    BY <2>1
  <2> QED
    BY <1>6, <2>1, <2>2, <2>5, <2>6
<1>9. CASE LoadAndVerify(q)
  <2>1. totp' = totp /\ disturbed' = disturbed /\ replacing' = replacing
    BY <1>9 DEF LoadAndVerify, identity
  <2>2. CASE Finish(q)
    BY <1>5, <1>6, <2>1, <2>2
  <2>3. CASE ~Finish(q)
    <3>1. PICK at \in {"fail", "succeed"} : Serve(q, [r EXCEPT !.at = at])
      BY <1>9, <2>3 DEF LoadAndVerify
    <3>2. r.op # "step_up" => totp[u].pending # 0
      BY <1>9, <2>3 DEF LoadAndVerify
    <3> PICK new : new = [r EXCEPT !.at = at]
      BY Zenon
    <3>3. new \in ReqType /\ new.user = u /\ new.at = at /\ new.op = r.op
      BY <1>3
    <3> QED
      BY <1>1, <1>5, <2>1, <3>1, <3>2, <3>3, ReplacementForOne, Zenon
  <2> QED
    BY <2>2, <2>3
<1>10. CASE RecordFailure(q)
  <2>1. Finish(q) /\ disturbed' = disturbed /\ replacing' = replacing
    BY <1>10 DEF RecordFailure, totpVars
  <2> PICK lock : lock = (totp[u].locked \/ totp[u].failed + 1 >= MaxFailures)
    OBVIOUS
  <2>2. totp' = totp \/ totp' = [totp EXCEPT ![u] = [totp[u] EXCEPT !.failed = totp[u].failed + 1, !.locked = lock]]
    BY <1>10, Zenon DEF RecordFailure
  <2>3. \A v \in Users : v # u => totp'[v] = totp[v]
    BY <1>2, <2>2
  <2>4. totp'[u] = totp[u] \/ totp'[u] = [totp[u] EXCEPT !.failed = totp[u].failed + 1, !.locked = lock]
    BY <1>1, <1>2, <2>2
  <2>5. totp'[u].pending = totp[u].pending /\ totp'[u].confirmed = totp[u].confirmed
    BY <1>2, <2>4, Zenon DEF TotpType
  <2> QED
    BY <1>5, <1>6, <2>1, <2>3, <2>5
<1>11. CASE ConfirmSecret(q)
  <2>1. /\ Finish(q) /\ disturbed' = disturbed /\ replacing' = replacing
        /\ \/ totp' = totp
           \/ totp' = [totp EXCEPT ![u] =
                         [secret |-> totp[u].pending, pending |-> 0, confirmed |-> TRUE,
                          failed |-> 0, locked |-> FALSE, lastStep |-> r.code.step]]
    BY <1>11 DEF ConfirmSecret
  <2>2. \A v \in Users : v # u => totp'[v] = totp[v]
    BY <1>2, <2>1
  <2>3. totp'[u] = totp[u] \/ totp'[u].pending = 0
    BY <1>1, <1>2, <2>1
  <2> QED
    BY <1>5, <1>6, <2>1, <2>2, <2>3
<1>12. ASSUME NEW new \in ReqType, Serve(q, new), new.user = u, new.op = "step_up",
              disturbed \subseteq disturbed', replacing \subseteq replacing',
              \A v \in Users : v # u => totp'[v] = totp[v],
              u \notin disturbed' /\ totp'[u].confirmed /\ totp'[u].pending # 0 =>
                totp'[u].pending \in replacing'
       PROVE  Replacement'
  BY <1>1, <1>12, ReplacementForOne
<1>13. ASSUME NEW stored \in BOOLEAN, RecordSuccess(q, stored)
       PROVE  Replacement'
  <2> PICK new : new = [r EXCEPT !.at = "elevate"]
    BY Zenon
  <2>1. Serve(q, new) /\ r.op = "step_up" /\ disturbed \subseteq disturbed' /\ replacing' = replacing
    BY <1>13 DEF RecordSuccess
  <2>2. new \in ReqType /\ new.user = u /\ new.at = "elevate" /\ new.op = r.op
    BY <1>3
  <2> PICK row : row = [totp[u] EXCEPT !.failed = 0, !.locked = FALSE, !.lastStep = r.code.step]
    OBVIOUS
  <2>3. totp' = totp \/ totp' = [totp EXCEPT ![u] = row]
    BY <1>13, Zenon DEF RecordSuccess
  <2>4. \A v \in Users : v # u => totp'[v] = totp[v]
    BY <1>2, <2>3
  <2>5. totp'[u] = totp[u] \/ totp'[u] = row
    BY <1>1, <1>2, <2>3
  <2>6. totp'[u].pending = totp[u].pending /\ totp'[u].confirmed = totp[u].confirmed
    BY <1>2, <2>5, Zenon DEF TotpType
  <2>7. u \notin disturbed' /\ totp'[u].confirmed /\ totp'[u].pending # 0 =>
          totp'[u].pending \in replacing'
    BY <1>5, <2>1, <2>6
  <2>8. new.op = "step_up" /\ replacing \subseteq replacing'
    BY <2>1, <2>2
  <2> QED
    BY <1>12, <2>1, <2>2, <2>4, <2>7, <2>8, Zenon
<1>14. CASE RecordStepUp(q)
  <2>1. Finish(q) /\ totp' = totp /\ disturbed' = disturbed /\ replacing' = replacing
    BY <1>14 DEF RecordStepUp, identity, totpVars
  <2> QED
    BY <1>5, <1>6, <2>1
<1> QED
  BY <1>7, <1>8, <1>9, <1>10, <1>11, <1>13, <1>14 DEF TotpWork

\* A request that begins while another of the user is served is noted.
LEMMA ReplacementAsk ==
    ASSUME Typed, Replacement, NEW q \in Requests, AskTotp(q)
    PROVE  Replacement'
<1>1. PICK op \in TotpOps, s \in DOMAIN sessions, code \in Codes : BeginTotp(q, op, s, code)
  BY DEF AskTotp
<1> PICK u : u = sessions[s].user
  OBVIOUS
<1> PICK new : new = [op |-> op, at |-> "load", user |-> u, session |-> s, code |-> code,
                      reverified |-> sessions[s].reverified]
  BY Zenon
<1>2. /\ Serve(q, new) /\ new.user = u /\ new.at = "load"
      /\ NoteOverlap(q, u) /\ totp' = totp /\ replacing' = replacing
  BY <1>1 DEF BeginTotp, Start, identity
<1>3. requests'[q] = new /\ \A p \in Requests : p # q => requests'[p] = requests[p]
  BY <1>2, Served, Zenon
<1>4. disturbed \subseteq disturbed'
      /\ \A p \in Requests : p # q /\ requests[p].op \in TotpOps /\ requests[p].user = u => u \in disturbed'
  BY <1>2 DEF NoteOverlap, BusyWith
<1>5. \A p, o \in Requests :
         /\ p # o /\ requests'[p].op \in TotpOps /\ requests'[o].op \in TotpOps
         /\ requests'[p].user = requests'[o].user
         => requests'[p].user \in disturbed'
  <2> SUFFICES ASSUME NEW p \in Requests, NEW o \in Requests, p # o,
                      requests'[p].op \in TotpOps, requests'[o].op \in TotpOps,
                      requests'[p].user = requests'[o].user
               PROVE  requests'[p].user \in disturbed'
    OBVIOUS
  <2>1. CASE p = q \/ o = q
    BY <1>2, <1>3, <1>4, <2>1
  <2>2. CASE p # q /\ o # q
    BY <1>3, <1>4, <2>2, Zenon DEF Replacement
  <2> QED
    BY <2>1, <2>2
<1>6. \A p \in Requests : requests'[p].at # "load" => p # q /\ requests'[p] = requests[p]
  BY <1>2, <1>3, Zenon
<1>7. \A p \in Requests :
         /\ requests'[p].op = "enroll_begin" /\ requests'[p].at = "store" /\ ~requests'[p].reverified
         => ~totp'[requests'[p].user].confirmed \/ requests'[p].user \in disturbed'
  BY <1>2, <1>4, <1>6, Zenon DEF Replacement
<1>8. \A p \in Requests :
         /\ requests'[p].op = "enroll_confirm" /\ requests'[p].at = "succeed"
         => \/ totp'[requests'[p].user] = NoTotp \/ totp'[requests'[p].user].pending # 0
            \/ requests'[p].user \in disturbed'
  BY <1>2, <1>4, <1>6 DEF Replacement
<1>9. \A w \in Users : totp'[w].confirmed /\ totp'[w].pending # 0 =>
         totp'[w].pending \in replacing' \/ w \in disturbed'
  BY <1>2, <1>4, Zenon DEF Replacement
<1> QED
  BY <1>5, <1>7, <1>8, <1>9 DEF Replacement

LEMMA ReplacementOpens ==
    ASSUME Typed, Replacement, NEW u \in Users, LockOpens(u)
    PROVE  Replacement'
<1>1. /\ totp' = [totp EXCEPT ![u] = [totp[u] EXCEPT !.locked = FALSE]] /\ totp[u].locked
      /\ requests' = requests /\ disturbed' = disturbed /\ replacing' = replacing
      /\ totp \in [Users -> TotpType] /\ totp[u] \in TotpType
  BY DEF LockOpens, otherTables, Typed
<1>2. totp'[u] = [totp[u] EXCEPT !.locked = FALSE] /\ \A v \in Users : v # u => totp'[v] = totp[v]
  BY <1>1
<1>3. totp'[u].pending = totp[u].pending /\ totp'[u].confirmed = totp[u].confirmed
      /\ totp[u] # NoTotp
  BY <1>1, <1>2, NoTotpType DEF TotpType, NoTotp
<1>4. \A v \in Users : /\ totp'[v].pending = totp[v].pending /\ totp'[v].confirmed = totp[v].confirmed
                       /\ totp[v] = NoTotp => totp'[v] = NoTotp
  BY <1>2, <1>3, Zenon
<1>5. \A p \in Requests : requests[p].op \in TotpOps => requests[p].user \in Users
  BY ReqCases DEF Typed, TotpReq
<1>6. \A p \in Requests :
         /\ requests'[p].op = "enroll_begin" /\ requests'[p].at = "store" /\ ~requests'[p].reverified
         => ~totp'[requests'[p].user].confirmed \/ requests'[p].user \in disturbed'
  BY <1>1, <1>4, <1>5 DEF Replacement, TotpOps
<1>7. \A p \in Requests :
         /\ requests'[p].op = "enroll_confirm" /\ requests'[p].at = "succeed"
         => \/ totp'[requests'[p].user] = NoTotp \/ totp'[requests'[p].user].pending # 0
            \/ requests'[p].user \in disturbed'
  BY <1>1, <1>4, <1>5 DEF Replacement, TotpOps
<1>8. \A w \in Users : totp'[w].confirmed /\ totp'[w].pending # 0 =>
         totp'[w].pending \in replacing' \/ w \in disturbed'
  BY <1>1, <1>4 DEF Replacement
<1> QED
  BY <1>1, <1>6, <1>7, <1>8 DEF Replacement

LEMMA ReplacementNext ==
    ASSUME Typed, Replacement, [AccountsNext]_allVars
    PROVE  Replacement'
<1>1. CASE /\ \/ \E q \in Requests : Ask(q) \/ AdminWork(q) \/ PermissionWork(q) \/ CeremonyWork(q)
              \/ SingleStep
           /\ UNCHANGED totpVars
  BY <1>1, AccountsStepAside, ReplacementAside DEF totpVars
<1>2. ASSUME UNCHANGED <<requests, totp, disturbed, replacing>>
      PROVE  Replacement'
  BY <1>2 DEF Replacement
<1>3. CASE Tick \/ UNCHANGED allVars
  BY <1>2, <1>3 DEF Tick, allVars, vars, totpVars
<1> QED
  BY <1>1, <1>3, ReplacementAsk, ReplacementTotp, ReplacementOpens DEF AccountsNext

\* An authenticator in use is exchanged by no step but the one that confirms a
\* pending secret, for the secret that was pending.
LEMMA ExchangedByConfirm ==
    ASSUME Typed, [AccountsNext]_allVars, NEW u \in Users,
           totp'[u].confirmed, totp'[u].secret # totp[u].secret
    PROVE  \E q \in Requests : /\ ConfirmSecret(q) /\ requests[q].user = u
                               /\ totp'[u].secret = totp[u].pending
<1>1. totp \in [Users -> TotpType] /\ totp[u] \in TotpType
  BY DEF Typed
<1>2. totp' # totp
  OBVIOUS
<1>3. CASE \/ \E q \in Requests : Ask(q) \/ AdminWork(q) \/ PermissionWork(q) \/ CeremonyWork(q)
           \/ SingleStep
  <2>1. totp'[u] = totp[u] \/ totp'[u] = NoTotp
    BY <1>3, AccountsStepAside DEF TotpAside
  <2> QED
    BY <2>1, NoTotpType
<1>4. CASE Tick \/ UNCHANGED allVars
  BY <1>2, <1>4 DEF Tick, allVars, vars
<1>5. ASSUME NEW v \in Users, LockOpens(v)
      PROVE  FALSE
  <2>1. totp' = [totp EXCEPT ![v] = [totp[v] EXCEPT !.locked = FALSE]]
    BY <1>5 DEF LockOpens
  <2>2. totp'[u] = totp[u] \/ totp'[u] = [totp[u] EXCEPT !.locked = FALSE]
    BY <1>1, <2>1
  <2> QED
    BY <1>1, <2>2 DEF TotpType
<1>6. ASSUME NEW q \in Requests, AskTotp(q)
      PROVE  FALSE
  BY <1>2, <1>6 DEF AskTotp, BeginTotp, identity
<1>7. ASSUME NEW q \in Requests, TotpWork(q)
      PROVE  /\ ConfirmSecret(q) /\ requests[q].user = u
             /\ totp'[u].secret = totp[u].pending
  <2> PICK r : r = requests[q]
    OBVIOUS
  <2> PICK v : v = r.user
    OBVIOUS
  <2>1. v \in Users /\ totp[v] \in TotpType
    BY <1>7, TotpEffect, Zenon DEF TotpReq, Typed
  <2>2. CheckReplacement(q) \/ LoadAndVerify(q) \/ RecordStepUp(q) => totp' = totp
    BY Zenon DEF CheckReplacement, LoadAndVerify, RecordStepUp, identity
  <2>3. ASSUME NEW row, totp' = [totp EXCEPT ![v] = row], row.secret = totp[v].secret
        PROVE  FALSE
    BY <1>1, <2>1, <2>3
  <2>4. CASE StoreUnconfirmed(q)
    <3>1. totp' = [totp EXCEPT ![v] = [totp[v] EXCEPT !.pending = secretsMade + 1]]
      BY <2>4 DEF StoreUnconfirmed
    <3>2. [totp[v] EXCEPT !.pending = secretsMade + 1].secret = totp[v].secret
      BY <2>1 DEF TotpType
    <3> QED
      BY <2>3, <3>1, <3>2
  <2>5. CASE RecordFailure(q)
    <3> PICK lock : lock = (totp[v].locked \/ totp[v].failed + 1 >= MaxFailures)
      OBVIOUS
    <3>1. totp' = [totp EXCEPT ![v] = [totp[v] EXCEPT !.failed = totp[v].failed + 1, !.locked = lock]]
      BY <1>2, <2>5, Zenon DEF RecordFailure
    <3>2. [totp[v] EXCEPT !.failed = totp[v].failed + 1, !.locked = lock].secret = totp[v].secret
      BY <2>1 DEF TotpType
    <3> QED
      BY <2>3, <3>1, <3>2
  <2>6. ASSUME NEW stored \in BOOLEAN, RecordSuccess(q, stored)
        PROVE  FALSE
    <3> PICK row : row = [totp[v] EXCEPT !.failed = 0, !.locked = FALSE, !.lastStep = r.code.step]
      OBVIOUS
    <3>1. totp' = [totp EXCEPT ![v] = row]
      BY <1>2, <2>6, Zenon DEF RecordSuccess
    <3>2. row.secret = totp[v].secret
      BY <2>1 DEF TotpType
    <3> QED
      BY <2>3, <3>1, <3>2
  <2>7. CASE ConfirmSecret(q)
    <3>1. totp' = [totp EXCEPT ![v] =
                     [secret |-> totp[v].pending, pending |-> 0, confirmed |-> TRUE,
                      failed |-> 0, locked |-> FALSE, lastStep |-> r.code.step]]
      BY <1>2, <2>7 DEF ConfirmSecret
    <3>2. u = v /\ totp'[u].secret = totp[u].pending
      BY <1>1, <2>1, <3>1
    <3> QED
      BY <2>7, <3>2
  <2> QED
    BY <1>2, <1>7, <2>2, <2>4, <2>5, <2>6, <2>7, Zenon DEF TotpWork
<1> QED
  BY <1>3, <1>4, <1>5, <1>6, <1>7, ZenonT(30) DEF AccountsNext

-----------------------------------------------------------------------------
(* The invariant holds, and what follows from it.                               *)

\* A service as an earlier process left it satisfies the invariant: everybody who
\* is active has the passkey of the first era and live sessions are of active
\* users, and nobody has a TOTP row or a request in flight.
LEMMA InitIInv == AccountsInit => IInv
<1> SUFFICES ASSUME AccountsInit
             PROVE  IInv
  OBVIOUS
<1> USE DEF Beginning
<1>1. /\ users \in [Users -> UserType]
      /\ (\A u \in Users : users[u].status = "absent") \/ ActiveAdmins # {}
      /\ \A q \in Requests : requests[q] = Idle
  BY DEF AccountsInit, UserType
<1>2. sessions \in Seq(SessionType)
      /\ \A s \in DOMAIN sessions : sessions[s].era = 0 /\ sessions[s].user \in Users
  <2> PICK S : S = {SessionOf(u) : u \in {v \in Users : users[v].status = "active"}}
    BY Zenon
  <2>1. sessions \in Seq(S)
    BY DEF AccountsInit
  <2>2. ASSUME NEW e \in S
        PROVE  e \in SessionType /\ e.era = 0 /\ e.user \in Users
    <3>1. PICK u \in Users : e = SessionOf(u)
      BY Zenon
    <3> QED
      BY <3>1 DEF SessionOf, SessionType
  <2>3. \A s \in DOMAIN sessions : sessions[s] \in S
    BY <2>1
  <2>4. sessions = [s \in DOMAIN sessions |-> sessions[s]]
    BY <2>1
  <2> QED
    BY <2>1, <2>2, <2>3, <2>4
<1>3. Typed
  <2>1. passkeys \in [Users -> SUBSET PasskeyType]
    BY DEF AccountsInit, InitialPasskey, PasskeyType
  <2>2. totp \in [Users -> TotpType]
    BY NoTotpType DEF AccountsInit
  <2>3. requests \in [Requests -> ReqType] /\ Idle \notin CeremonyReq
    BY IdleType DEF AccountsInit
  <2>4. permits \in PermitsType
    BY DEF AccountsInit, PermitsType
  <2>5. era \in [Users -> Nat] /\ guesses \in [Users -> Nat] /\ secretsMade \in Nat
        /\ unguardedLoss \in BOOLEAN /\ roleLock \in Requests \cup {NoRequest}
    BY Zenon DEF AccountsInit
  <2>6. invites \in Seq(InviteType) /\ ceremonies \in Seq(CeremonyType)
    <3>1. invites = << >> /\ ceremonies = << >>
      BY DEF AccountsInit
    <3> QED
      BY <3>1
  <2> QED
    BY <1>1, <1>2, <2>1, <2>2, <2>3, <2>4, <2>5, <2>6 DEF Typed
<1>4. \A q \in Requests : requests[q].op = "none"
  BY <1>1 DEF Idle
<1>5. AdminSafe
  BY <1>1, <1>4 DEF AdminSafe, Protected, Bootstrapping, AdminOps, IssuingOps
<1>6. CurrentEra
  <2>1. /\ era = [u \in Users |-> 0]
        /\ passkeys = [u \in Users |-> IF users[u].status = "active" THEN {InitialPasskey} ELSE {}]
    BY DEF AccountsInit
  <2>2. \A u \in Users : \A p \in passkeys[u] : p.era = era[u]
    BY <2>1 DEF InitialPasskey
  <2>3. ActiveHasPasskey
    BY <2>1 DEF ActiveHasPasskey
  <2>4. \A s \in DOMAIN sessions : sessions[s].era = era[sessions[s].user]
    BY <1>2, <2>1
  <2> QED
    BY <2>2, <2>3, <2>4 DEF CurrentEra
<1>7. AllCounted
  <2>1. \A u \in Users : totp[u] = NoTotp /\ guesses[u] = 0 /\ Failing(u) = {}
    BY <1>4 DEF AccountsInit, Failing, TotpOps
  <2>2. ASSUME NEW u \in Users
        PROVE  Counted(u)
    <3>1. Cardinality(Failing(u)) = 0
      BY <2>1, FS_EmptySet
    <3>2. ~totp[u].locked /\ totp[u].failed = 0
      BY <2>1, NoTotpType
    <3>3. guesses[u] <= totp[u].failed + Cardinality(Failing(u))
      BY <2>1, <3>1, <3>2
    <3>4. guesses[u] <= Cardinality(Failing(u)) /\ Failing(u) = {}
      BY <2>1, <3>1
    <3> QED
      BY <3>2, <3>3, <3>4, Zenon DEF Counted
  <2> QED
    BY <2>2 DEF AllCounted
<1>8. Replacement
  BY <1>4 DEF Replacement, AccountsInit, NoTotp, TotpOps
<1>9. AuditAccountsForGrants
  <2> SUFFICES ASSUME NEW u \in Users
               PROVE  AuditFor(u)
    BY AuditIsForEach
  <2>1. DueSet(u, "permit") = {} /\ DueSet(u, "forbid") = {}
    BY <1>4 DEF DueSet
  <2>2. Cardinality(DueSet(u, "permit")) = 0 /\ Cardinality(DueSet(u, "forbid")) = 0
    BY <2>1, FS_EmptySet
  <2>3. permits.net[u] = 0 /\ u \notin permits.held
    BY DEF AccountsInit
  <2> QED
    BY <2>2, <2>3 DEF AuditFor
<1> QED
  BY <1>3, <1>5, <1>6, <1>7, <1>8, <1>9 DEF IInv

LEMMA NextIInv ==
    ASSUME IInv, [AccountsNext]_allVars
    PROVE  IInv'
BY TypedNext, AdminRemainsNext, CurrentEraNext, CountedNext, ReplacementNext, AuditNext DEF IInv

\* The tables and requests keep their types, and the parts of the invariant below
\* hold in every reachable state, for any users, requests and limits.
THEOREM AccountsInvariant == AccountsSpec => []IInv
<1>1. AccountsInit => IInv
  BY InitIInv
<1>2. IInv /\ [AccountsNext]_allVars => IInv'
  BY NextIInv
<1> QED
  BY <1>1, <1>2, PTL DEF AccountsSpec

\* While anybody is active an administrator is, unless the last one was removed
\* by a commit that remaining_active_admins_excluding did not guard
\* (src/src/api/auth_admin): the guard's lock makes concurrent removals see each
\* other, for any number of administrators and requests.
THEOREM AdminRemains == AccountsSpec => []AnAdminRemains
<1>1. IInv => AnAdminRemains
  <2> SUFFICES ASSUME IInv, NEW u \in Users, users[u].status = "active"
               PROVE  ActiveAdmins # {} \/ unguardedLoss
    BY DEF AnAdminRemains
  <2>1. ~Bootstrapping
    <3>1. users[u].status \notin {"absent", "invited"}
      OBVIOUS
    <3> QED
      BY <3>1 DEF Bootstrapping
  <2> QED
    BY <2>1 DEF IInv, AdminSafe
<1> QED
  BY <1>1, AccountsInvariant, PTL

\* No passkey and no session that resolves outlives a deactivation of its account,
\* however requests interleave with it (the deactivation trigger).
THEOREM CredentialsEnd == AccountsSpec => []CredentialsEndWithDeactivation
<1>1. IInv => CredentialsEndWithDeactivation
  BY DEF IInv, CurrentEra, CredentialsEndWithDeactivation, Resolves
<1> QED
  BY <1>1, AccountsInvariant, PTL

\* An active account has a passkey to sign in with (enrol_credential, and the
\* trigger that deletes passkeys only with the activity).
THEOREM ActiveCanSignIn == AccountsSpec => []ActiveHasPasskey
<1>1. IInv => ActiveHasPasskey
  BY DEF IInv, CurrentEra
<1> QED
  BY <1>1, AccountsInvariant, PTL

\* However many requests judge codes at once, no more wrong codes are judged
\* between two openings of the lock than the limit and one for each request that
\* had loaded the row (auth.record_totp_failure).
THEOREM GuessesBounded == AccountsSpec => []GuessesAreBounded
<1>1. IInv => GuessesAreBounded
  <2> SUFFICES ASSUME IInv, NEW u \in Users, era[u] = 0
               PROVE  guesses[u] <= MaxFailures + Cardinality(Requests) - 1
    BY DEF GuessesAreBounded
  <2>1. Counted(u)
    BY DEF IInv, AllCounted
  <2>2. /\ Cardinality(Failing(u)) \in Nat /\ Cardinality(Requests) \in Nat
        /\ Cardinality(Failing(u)) <= Cardinality(Requests)
    BY FailingIsFinite
  <2>3. totp[u].failed \in Nat /\ guesses[u] \in Nat /\ MaxFailures \in Nat /\ MaxFailures > 0
    BY StepUpAssumption DEF IInv, Typed, TotpType
  <2>4. CASE totp[u].locked
    BY <2>1, <2>4 DEF Counted
  <2>5. CASE ~totp[u].locked /\ totp[u].failed < MaxFailures
    <3>1. guesses[u] <= totp[u].failed + Cardinality(Failing(u))
      BY <2>1, <2>5 DEF Counted
    <3> QED
      BY <2>2, <2>3, <2>5, <3>1
  <2>6. CASE ~totp[u].locked /\ totp[u].failed >= MaxFailures
    <3>1. guesses[u] <= Cardinality(Failing(u))
      BY <2>1, <2>6 DEF Counted
    <3> QED
      BY <2>2, <2>3, <3>1
  <2> QED
    BY <2>3, <2>4, <2>5, <2>6
<1> QED
  BY <1>1, AccountsInvariant, PTL

\* An authenticator in use is exchanged only for a secret begun from a session that
\* had verified its passkey again, unless requests of the user overlapped
\* (enroll_begin and confirm_own_secret of auth_totp.rs).
THEOREM ExchangeNeedsReverify == AccountsSpec => ReplacedAfterReverify
<1> DEFINE Exchange == \A u \in Users :
                         /\ totp[u].confirmed /\ totp'[u].confirmed
                         /\ totp'[u].secret # totp[u].secret
                         => totp'[u].secret \in replacing \/ u \in disturbed'
<1>1. IInv /\ [AccountsNext]_allVars => Exchange
  <2> SUFFICES ASSUME IInv, [AccountsNext]_allVars, NEW u \in Users,
                      totp[u].confirmed, totp'[u].confirmed, totp'[u].secret # totp[u].secret
               PROVE  totp'[u].secret \in replacing \/ u \in disturbed'
    OBVIOUS
  <2>1. PICK q \in Requests : /\ ConfirmSecret(q) /\ requests[q].user = u
                              /\ totp'[u].secret = totp[u].pending
    BY ExchangedByConfirm DEF IInv
  <2>2. requests[q].op = "enroll_confirm" /\ requests[q].at = "succeed" /\ disturbed' = disturbed
    BY <2>1 DEF ConfirmSecret
  <2>3. totp[u] # NoTotp
    BY NoTotpType
  <2>4. totp[u].pending # 0 \/ u \in disturbed
    BY <2>1, <2>2, <2>3 DEF IInv, Replacement
  <2> QED
    BY <2>1, <2>2, <2>4, Zenon DEF IInv, Replacement
<1> HIDE DEF Exchange
<1>2. AccountsSpec => [][Exchange]_allVars
  BY <1>1, AccountsInvariant, PTL DEF AccountsSpec
<1> QED
  BY <1>2 DEF ReplacedAfterReverify, Exchange

\* The audit log's grants less its revocations, and the rows about to be written,
\* are what a user holds, unless an audit write failed (change_permission).
THEOREM AuditAccounts == AccountsSpec => []AuditAccountsForGrants
<1>1. IInv => AuditAccountsForGrants
  BY DEF IInv
<1> QED
  BY <1>1, AccountsInvariant, PTL

=============================================================================
