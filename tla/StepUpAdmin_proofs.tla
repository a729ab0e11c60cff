------------------------- MODULE StepUpAdmin_proofs -------------------------
(* Proofs about the accounts and their step-up, for any sets of users and of    *)
(* concurrent requests and any limits: an inductive invariant, and that a step  *)
(* keeps its parts about administrators, credentials and grants. Module         *)
(* StepUp_proofs adds the TOTP rows and draws the conclusions.                  *)
EXTENDS StepUpTypes_proofs, FiniteSetTheorems

-----------------------------------------------------------------------------
(* The inductive invariant, in the parts that depend on different tables.       *)

\* A request past remaining_active_admins_excluding that holds the lock.
Protected(q) ==
    requests[q].op \in AdminOps /\ requests[q].at # "begun" /\ requests[q].guarded

\* Nobody has been active yet: at most the bootstrap administrator is invited.
Bootstrapping ==
    /\ \A u \in Users : users[u].status \in {"absent", "invited"}
    /\ \A u \in Users : users[u].status = "invited" => "admin" \in users[u].roles
    /\ \A q \in Requests : requests[q].op \notin AdminOps

\* A guarded request has the lock, and an admin besides its target is active
\* until it commits.
AdminSafe ==
    /\ \A q \in Requests : Protected(q) =>
         roleLock = q /\ (ActiveAdmins \ {requests[q].target} # {} \/ unguardedLoss)
    /\ ActiveAdmins # {} \/ unguardedLoss \/ Bootstrapping

\* Passkeys and live sessions are of the account's current era; a deactivated
\* user's session may be live, but then it was inserted since.
CurrentEra ==
    /\ \A u \in Users : \A p \in passkeys[u] : p.era = era[u]
    /\ \A s \in DOMAIN sessions : sessions[s].live => sessions[s].era = era[sessions[s].user]
    /\ ActiveHasPasskey

\* The requests about to record a wrong code.
Failing(u) ==
    {q \in Requests : requests[q].op \in TotpOps /\ requests[q].at = "fail" /\ requests[q].user = u}

\* Every wrong code judged since the lock last opened is counted, or about to
\* be; once the count is at its limit any further one locks the row.
Counted(u) ==
    /\ totp[u].locked => guesses[u] <= MaxFailures + Cardinality(Requests) - 1
    /\ ~totp[u].locked /\ totp[u].failed < MaxFailures =>
         guesses[u] <= totp[u].failed + Cardinality(Failing(u))
    /\ ~totp[u].locked /\ totp[u].failed >= MaxFailures => guesses[u] <= Cardinality(Failing(u))
    /\ Failing(u) # {} => totp[u].pending # 0 \/ totp[u].confirmed

AllCounted == \A u \in Users : era[u] = 0 => Counted(u)

\* While the requests of a user do not overlap, a secret waiting to replace one
\* in use was begun from a re-verified session, and is there to be confirmed.
Replacement ==
    /\ \A p, q \in Requests :
         /\ p # q /\ requests[p].op \in TotpOps /\ requests[q].op \in TotpOps
         /\ requests[p].user = requests[q].user
         => requests[p].user \in disturbed
    /\ \A u \in Users : totp[u].confirmed /\ totp[u].pending # 0 =>
         totp[u].pending \in replacing \/ u \in disturbed
    /\ \A q \in Requests :
         /\ requests[q].op = "enroll_begin" /\ requests[q].at = "store" /\ ~requests[q].reverified
         => ~totp[requests[q].user].confirmed \/ requests[q].user \in disturbed
    /\ \A q \in Requests :
         /\ requests[q].op = "enroll_confirm" /\ requests[q].at = "succeed"
         => \/ totp[requests[q].user] = NoTotp \/ totp[requests[q].user].pending # 0
            \/ requests[q].user \in disturbed

IInv == Typed /\ AdminSafe /\ CurrentEra /\ AllCounted /\ Replacement /\ AuditAccountsForGrants

-----------------------------------------------------------------------------
(* An administrator remains.                                                    *)

\* A step that removes no active admin, touches neither the lock nor a guarded
\* request's record, and gives no administrative request while nobody is active.
LEMMA AdminFrame ==
    ASSUME AdminSafe, ActiveAdmins \subseteq ActiveAdmins', UNCHANGED <<roleLock, unguardedLoss>>,
           \A p \in Requests : Protected(p)' => Protected(p) /\ requests'[p].target = requests[p].target,
           Bootstrapping => Bootstrapping' \/ ActiveAdmins' # {}
    PROVE  AdminSafe'
<1>1. \A p \in Requests : Protected(p)' =>
        roleLock' = p /\ (ActiveAdmins' \ {requests'[p].target} # {} \/ unguardedLoss')
  BY DEF AdminSafe
<1>2. ActiveAdmins' # {} \/ unguardedLoss' \/ Bootstrapping'
  BY DEF AdminSafe
<1> QED
  BY <1>1, <1>2 DEF AdminSafe

\* A request of another kind stays of another kind.
LEMMA OtherRequests ==
    ASSUME Typed, NEW q \in Requests, NEW new \in ReqType, Serve(q, new),
           requests[q].op \notin AdminOps, new.op \notin AdminOps
    PROVE  /\ \A p \in Requests : Protected(p)' =>
                 Protected(p) /\ requests'[p].target = requests[p].target
           /\ (\A p \in Requests : requests[p].op \notin AdminOps) =>
                 \A p \in Requests : requests'[p].op \notin AdminOps
BY Served DEF Protected

LEMMA AskEffect ==
    ASSUME Typed, NEW q \in Requests, Ask(q)
    PROVE  \E new \in ReqType :
             /\ Serve(q, new) /\ requests[q] = Idle
             /\ new.op \in AdminOps \cup CeremonyOps \cup {"permit", "forbid"}
             /\ new.op \in AdminOps => new.at = "begun" /\ ~Bootstrapping
             /\ new.op \in {"permit", "forbid"} => new.at = "change"
             /\ UNCHANGED <<identity, ceremonies, sessions, policy>>
<1>1. ASSUME NEW op \in AdminOps, NEW s \in DOMAIN sessions, NEW t \in Users, NEW r \in Roles,
             BeginAdmin(q, op, s, t, r)
      PROVE  \E new \in ReqType :
               /\ Serve(q, new) /\ requests[q] = Idle
               /\ new.op \in AdminOps /\ new.at = "begun" /\ ~Bootstrapping
               /\ UNCHANGED <<identity, ceremonies, sessions, policy>>
  <2>1. [op |-> op, at |-> "begun", target |-> t, role |-> r] \in ReqType
    BY DEF AskedReq, ReqType
  <2>2. sessions[s] \in SessionType
    BY DEF Typed
  <2>3. sessions[s].user \in Users /\ users[sessions[s].user].status = "active"
    BY <1>1, <2>2 DEF BeginAdmin, Authenticates, Resolves, SessionType
  <2>4. ~Bootstrapping
    <3>1. users[sessions[s].user].status \notin {"absent", "invited"}
      BY <2>3
    <3>2. Bootstrapping => \A u \in Users : users[u].status \in {"absent", "invited"}
      BY DEF Bootstrapping
    <3> QED
      BY <2>3, <3>1, <3>2
  <2> QED
    BY <1>1, <2>1, <2>4 DEF BeginAdmin, CanStart, Start
<1>2. ASSUME NEW op \in {"permit", "forbid"}, NEW s \in DOMAIN sessions, NEW t \in Users,
             BeginPermission(q, op, s, t)
      PROVE  \E new \in ReqType :
               /\ Serve(q, new) /\ requests[q] = Idle
               /\ new.op \in {"permit", "forbid"} /\ new.at = "change"
               /\ UNCHANGED <<identity, ceremonies, sessions, policy>>
  <2>1. [op |-> op, at |-> "change", target |-> t] \in ReqType
    BY DEF PermitReq, ReqType
  <2> QED
    BY <1>2, <2>1 DEF BeginPermission, CanStart, Start
<1>3. ASSUME NEW op \in CeremonyOps, NEW c \in DOMAIN ceremonies, NEW n \in Nat,
             BeginFinish(q, op, c, n)
      PROVE  \E new \in ReqType :
               /\ Serve(q, new) /\ requests[q] = Idle
               /\ new.op \in CeremonyOps
               /\ UNCHANGED <<identity, ceremonies, sessions, policy>>
  <2>1. ceremonies[c] \in CeremonyType /\ c \in Nat \ {0}
    BY DEF Typed
  <2>2. [op |-> op, at |-> "taken", ceremony |-> c, session |-> n,
         user |-> ceremonies[c].user] \in ReqType
    BY <2>1 DEF CeremonyReq, CeremonyType, ReqType, CeremonyOps
  <2> QED
    BY <1>3, <2>2 DEF BeginFinish, CanStart, Start
<1>4. DOMAIN sessions \subseteq Nat
  BY DEF Typed
<1>5. \A x : x \in CeremonyOps => x \notin AdminOps /\ x \notin {"permit", "forbid"}
  BY DEF CeremonyOps, AdminOps, IssuingOps
<1>6. \A x \in AdminOps : x \notin {"permit", "forbid"}
  BY DEF AdminOps, IssuingOps
<1>7. CASE \E op \in AdminOps, s \in DOMAIN sessions, t \in Users, r \in Roles :
             BeginAdmin(q, op, s, t, r)
  BY <1>1, <1>6, <1>7
<1>8. CASE \E op \in {"permit", "forbid"}, s \in DOMAIN sessions, t \in Users :
             BeginPermission(q, op, s, t)
  BY <1>2, <1>6, <1>8
<1>9. CASE \E op \in CeremonyOps, c \in DOMAIN ceremonies, n \in Nat : BeginFinish(q, op, c, n)
  BY <1>3, <1>5, <1>9
<1> QED
  BY <1>4, <1>7, <1>8, <1>9 DEF Ask, RegisterFinish, LoginFinish, ReverifyFinish, CeremonyOps

LEMMA CommitKeepsAdmin ==
    ASSUME Typed, AdminSafe, NEW q \in Requests, Commits(q)
    PROVE  AdminSafe'
<1> PICK r : r = requests[q]
  OBVIOUS
<1>1. /\ r \in AdminReq
      /\ \A v \in Users : v # r.target => users'[v] = users[v]
      /\ Commit(q)
      /\ RecordLoss(q) \/ (ActiveAdmins' = ActiveAdmins /\ UNCHANGED unguardedLoss)
  BY CommitEffect
<1>2. r.op \in AdminOps /\ r.at # "begun" /\ r.guarded \in BOOLEAN
  BY <1>1 DEF AdminReq
<1>3. ActiveAdmins # {} \/ unguardedLoss
  BY <1>2 DEF AdminSafe, Bootstrapping
<1>4. requests'[q].op \notin AdminOps /\ \A p \in Requests : p # q => requests'[p] = requests[p]
  BY <1>1, Served DEF Commit, Finish, Idle, AdminOps, IssuingOps
<1>5. ~r.guarded => ActiveAdmins \subseteq ActiveAdmins' \/ unguardedLoss'
  BY <1>1, Zenon DEF RecordLoss
<1>6. unguardedLoss => unguardedLoss'
  BY <1>1, Zenon DEF RecordLoss
<1>7. r.guarded => (\E v \in ActiveAdmins : v # r.target) \/ unguardedLoss
  BY <1>2 DEF AdminSafe, Protected
<1>8. \A v \in ActiveAdmins : v # r.target => v \in ActiveAdmins'
  BY <1>1 DEF ActiveAdmins
<1>9. ActiveAdmins' # {} \/ unguardedLoss'
  BY <1>2, <1>3, <1>5, <1>6, <1>7, <1>8
<1>10. ASSUME NEW p \in Requests, Protected(p)'
       PROVE  roleLock' = p /\ (ActiveAdmins' \ {requests'[p].target} # {} \/ unguardedLoss')
  <2>1. p # q /\ requests'[p] = requests[p] /\ Protected(p)
    BY <1>4, <1>10 DEF Protected
  <2>2. roleLock = p /\ (ActiveAdmins \ {requests[p].target} # {} \/ unguardedLoss)
    BY <2>1 DEF AdminSafe
  <2>3. ~r.guarded
    BY <1>2, <2>1, <2>2 DEF AdminSafe, Protected
  <2>4. roleLock' = p
    BY <1>1, <2>1, <2>2 DEF Commit
  <2> QED
    BY <2>1, <2>2, <2>3, <2>4, <1>5, <1>6
<1> QED
  BY <1>9, <1>10 DEF AdminSafe

LEMMA AdminWorkKeepsAdmin ==
    ASSUME Typed, AdminSafe, NEW q \in Requests, AdminWork(q)
    PROVE  AdminSafe'
<1> PICK r : r = requests[q]
  OBVIOUS
<1>1. CASE ReadTarget(q)
  <2>1. r.op \in AdminOps /\ UNCHANGED <<users, roleLock, unguardedLoss>>
    BY <1>1 DEF ReadTarget
  <2>2. ~Bootstrapping
    BY <2>1 DEF Bootstrapping
  <2>3. ~Protected(q)'
    <3>1. CASE Finish(q)
      BY <3>1, Served DEF Finish, Idle, Protected, AdminOps, IssuingOps
    <3>2. CASE ~Finish(q)
      <4>1. requests'[q].guarded = FALSE
        BY <1>1, <3>2, Served DEF ReadTarget
      <4> QED
        BY <4>1 DEF Protected
    <3> QED
      BY <3>1, <3>2
  <2>4. \A p \in Requests : p # q => requests'[p] = requests[p]
    BY <1>1, Served DEF ReadTarget, Finish
  <2>5. ActiveAdmins' = ActiveAdmins
    BY <2>1 DEF ActiveAdmins
  <2>6. \A p \in Requests : Protected(p)' => Protected(p) /\ requests'[p].target = requests[p].target
    BY <2>3, <2>4 DEF Protected
  <2> QED
    BY <2>1, <2>2, <2>5, <2>6, AdminFrame
<1>2. CASE GuardLastAdmin(q)
  <2>1. r.op \in AdminOps /\ r.at # "begun" /\ roleLock = NoRequest /\ UNCHANGED <<users, unguardedLoss>>
    BY <1>2 DEF GuardLastAdmin
  <2>2. ActiveAdmins # {} \/ unguardedLoss
    BY <2>1 DEF AdminSafe, Bootstrapping
  <2>3. \A p \in Requests : ~Protected(p)
    BY <2>1, AccountsAssumption DEF AdminSafe
  <2>4. ActiveAdmins' = ActiveAdmins
    BY <2>1 DEF ActiveAdmins
  <2>5. \A p \in Requests : p # q => requests'[p] = requests[p]
    BY <1>2, Served DEF GuardLastAdmin, Finish
  <2>6. \A p \in Requests : p # q => ~Protected(p)'
    BY <2>3, <2>5 DEF Protected
  <2>7. CASE Finish(q)
    <3>1. ~Protected(q)'
      BY <2>7, Served DEF Finish, Idle, Protected, AdminOps, IssuingOps
    <3> QED
      BY <3>1, <2>1, <2>2, <2>4, <2>6 DEF AdminSafe
  <2>8. CASE ~Finish(q)
    <3>1. /\ ActiveAdmins \ {r.target} # {} /\ roleLock' = q
          /\ requests'[q] = [r EXCEPT !.at = "write", !.guarded = TRUE]
      BY <1>2, <2>8, Served DEF GuardLastAdmin
    <3>2. r \in AdminReq
      BY <2>1, ReqCases DEF Typed
    <3>3. requests'[q].target = r.target
      BY <3>1, <3>2 DEF AdminReq
    <3> QED
      BY <3>1, <3>3, <2>1, <2>2, <2>4, <2>6, Zenon DEF AdminSafe
  <2> QED
    BY <2>7, <2>8
<1>3. CASE RetireInvites(q)
  <2>1. r.op \in AdminOps /\ r.at # "begun" /\ UNCHANGED <<users, roleLock, unguardedLoss>>
    BY <1>3 DEF RetireInvites, AdminOps, IssuingOps, identity
  <2>2. r \in AdminReq
    BY <2>1, ReqCases DEF Typed
  <2>3. requests'[q] = [r EXCEPT !.at = "retired", !.retire = UnusedInvites(r.target)]
        /\ \A p \in Requests : p # q => requests'[p] = requests[p]
    BY <1>3, Served DEF RetireInvites
  <2>4. requests'[q].target = r.target /\ requests'[q].guarded = r.guarded
    BY <2>2, <2>3 DEF AdminReq
  <2>5. ActiveAdmins' = ActiveAdmins
    BY <2>1 DEF ActiveAdmins
  <2>6. \A p \in Requests : Protected(p)' => Protected(p) /\ requests'[p].target = requests[p].target
    BY <2>1, <2>3, <2>4, Zenon DEF Protected
  <2>7. ~Bootstrapping
    BY <2>1 DEF Bootstrapping
  <2> QED
    BY <2>1, <2>5, <2>6, <2>7, AdminFrame
<1> QED
  BY <1>1, <1>2, <1>3, CommitKeepsAdmin DEF AdminWork, Commits

LEMMA AdminRemainsNext ==
    ASSUME Typed, AdminSafe, [AccountsNext]_allVars
    PROVE  AdminSafe'
<1> USE DEF policy, identity
<1>1. ASSUME UNCHANGED <<users, roleLock, unguardedLoss, requests>>
      PROVE  AdminSafe'
  BY <1>1 DEF AdminSafe, Protected, ActiveAdmins, Bootstrapping
<1>2. \A x : x \in CeremonyOps \cup TotpOps \cup {"permit", "forbid", "none"} => x \notin AdminOps
  BY DEF CeremonyOps, TotpOps, AdminOps, IssuingOps
<1>3. ASSUME NEW q \in Requests, NEW new \in ReqType, Serve(q, new),
             requests[q].op \notin AdminOps, new.op \notin AdminOps,
             UNCHANGED <<users, roleLock, unguardedLoss>>
      PROVE  AdminSafe'
  <2>1. ActiveAdmins' = ActiveAdmins
    BY <1>3 DEF ActiveAdmins
  <2>2. /\ \A p \in Requests : Protected(p)' => Protected(p) /\ requests'[p].target = requests[p].target
        /\ (\A p \in Requests : requests[p].op \notin AdminOps) =>
              \A p \in Requests : requests'[p].op \notin AdminOps
    BY <1>3, OtherRequests
  <2>3. Bootstrapping => Bootstrapping'
    BY <1>3, <2>2 DEF Bootstrapping
  <2> QED
    BY <1>3, <2>1, <2>2, <2>3, AdminFrame
<1>4. ASSUME NEW q \in Requests, Ask(q)
      PROVE  AdminSafe'
  <2>1. PICK new \in ReqType :
             /\ Serve(q, new) /\ requests[q] = Idle
             /\ new.op \in AdminOps => new.at = "begun" /\ ~Bootstrapping
             /\ UNCHANGED <<users, roleLock, unguardedLoss>>
    BY <1>4, AskEffect
  <2>2. requests[q].op \notin AdminOps
    BY <2>1, <1>2 DEF Idle
  <2>3. CASE new.op \notin AdminOps
    BY <2>1, <2>2, <2>3, <1>3
  <2>4. CASE new.op \in AdminOps
    <3>1. \A p \in Requests : Protected(p)' => Protected(p) /\ requests'[p].target = requests[p].target
      BY <2>1, <2>4, Served DEF Protected
    <3>2. ActiveAdmins' = ActiveAdmins
      BY <2>1 DEF ActiveAdmins
    <3> QED
      BY <2>1, <2>4, <3>1, <3>2, AdminFrame
  <2> QED
    BY <2>3, <2>4
<1>5. ASSUME NEW q \in Requests, PermissionWork(q)
      PROVE  AdminSafe'
  <2>1. requests[q].op \in {"permit", "forbid"} /\ UNCHANGED <<users, roleLock, unguardedLoss>>
    BY <1>5 DEF PermissionWork, ChangePermission, AuditPermission
  <2>2. requests[q] \in PermitReq
    BY <2>1, ReqCases DEF Typed
  <2>3. PICK new \in ReqType : Serve(q, new) /\ new.op \notin AdminOps
    <3>1. CASE Finish(q)
      BY <3>1, <1>2, IdleType DEF Finish, Idle
    <3>2. CASE ~Finish(q)
      <4>1. Serve(q, [requests[q] EXCEPT !.at = "audit"])
        BY <1>5, <3>2 DEF PermissionWork, ChangePermission, AuditPermission
      <4>2. [requests[q] EXCEPT !.at = "audit"] \in PermitReq
        BY <2>2 DEF PermitReq
      <4>3. \A a \in PermitReq : a \in ReqType /\ a.op \in {"permit", "forbid"}
        BY DEF ReqType, PermitReq
      <4> QED
        BY <4>1, <4>2, <4>3, <1>2
    <3> QED
      BY <3>1, <3>2
  <2> QED
    BY <1>2, <1>3, <2>1, <2>3
<1>6. ASSUME NEW q \in Requests, CeremonyWork(q)
      PROVE  AdminSafe'
  <2>1. GoesOn(q, CeremonyOps) /\ AccountsGo /\ UNCHANGED <<roleLock, unguardedLoss>>
    BY <1>6, CeremonyEffect
  <2>2. PICK new \in ReqType : Serve(q, new) /\ new.op \notin AdminOps /\ requests[q].op \notin AdminOps
    BY <2>1, <1>2 DEF GoesOn
  <2>3. /\ \A p \in Requests : Protected(p)' => Protected(p) /\ requests'[p].target = requests[p].target
        /\ (\A p \in Requests : requests[p].op \notin AdminOps) =>
              \A p \in Requests : requests'[p].op \notin AdminOps
    BY <2>2, OtherRequests
  <2>4. ActiveAdmins \subseteq ActiveAdmins'
    BY <2>1 DEF AccountsGo, ActiveAdmins
  <2>5. ASSUME Bootstrapping, ActiveAdmins' = {}
        PROVE  Bootstrapping'
    <3>1. \A u \in Users : users'[u].status = users[u].status /\ users'[u].roles = users[u].roles
      <4> SUFFICES ASSUME NEW u \in Users, users'[u].status # users[u].status
                   PROVE  FALSE
        BY <2>1 DEF AccountsGo
      <4>1. users[u].status = "invited" /\ users'[u].status = "active" /\ users'[u].roles = users[u].roles
        BY <2>1 DEF AccountsGo
      <4>2. u \in ActiveAdmins'
        BY <2>5, <4>1 DEF Bootstrapping, ActiveAdmins
      <4> QED
        BY <2>5, <4>2
    <3> QED
      BY <2>3, <2>5, <3>1 DEF Bootstrapping
  <2> QED
    BY <2>1, <2>3, <2>4, <2>5, AdminFrame
<1>7. CASE SingleStep
  <2>1. Quiet /\ (UNCHANGED users \/ \E u \in Users : FirstAdmin(u))
    BY <1>7, SingleEffect DEF SingleGoes
  <2>2. CASE UNCHANGED users
    BY <2>1, <2>2, <1>1 DEF Quiet
  <2>3. ASSUME NEW u \in Users, FirstAdmin(u)
        PROVE  AdminSafe'
    <3>1. ActiveAdmins = {}
      BY <2>3 DEF FirstAdmin, ActiveAdmins
    <3>2. users \in [Users -> UserType]
      BY DEF Typed
    <3>3. users'[u] = [status |-> "invited", roles |-> {"admin"}]
          /\ \A v \in Users : v # u => users'[v] = users[v]
      BY <2>3, <3>2 DEF FirstAdmin
    <3>4. Bootstrapping => Bootstrapping'
      BY <2>1, <2>3, <3>3 DEF Bootstrapping, Quiet, FirstAdmin
    <3>5. \A p \in Requests : Protected(p)' => Protected(p) /\ requests'[p].target = requests[p].target
      BY <2>1 DEF Protected, Quiet
    <3> QED
      BY <2>1, <3>1, <3>4, <3>5, AdminFrame DEF Quiet
  <2> QED
    BY <2>1, <2>2, <2>3
<1>8. ASSUME NEW q \in Requests, AskTotp(q) \/ TotpWork(q)
      PROVE  AdminSafe'
  <2>1. TotpGoes(q)
    BY <1>8, AskTotpEffect, TotpEffect DEF AskTotp
  <2> QED
    BY <2>1, <1>2, <1>3 DEF TotpGoes, GoesOn
<1>9. CASE UNCHANGED allVars
  BY <1>1, <1>9 DEF allVars, vars
<1>10. CASE Tick
  BY <1>1, <1>10 DEF Tick, vars
<1>11. ASSUME NEW u \in Users, LockOpens(u)
       PROVE  AdminSafe'
  BY <1>1, <1>11 DEF LockOpens, otherTables
<1> QED
  BY <1>4, <1>5, <1>6, <1>7, <1>8, <1>9, <1>10, <1>11, AdminWorkKeepsAdmin DEF AccountsNext

-----------------------------------------------------------------------------
(* Credentials end with a deactivation.                                         *)

\* Outside the trigger.
LEMMA EraFrame ==
    ASSUME Typed, CurrentEra, AccountsGo, SessionsGo, UNCHANGED era
    PROVE  CurrentEra'
<1>1. \A u \in Users : \A p \in passkeys'[u] : p.era = era'[u]
  BY DEF CurrentEra, AccountsGo
<1>2. \A s \in DOMAIN sessions' : sessions'[s].live => sessions'[s].era = era'[sessions'[s].user]
  <2>1. CASE KeepsSessions(sessions, sessions')
    BY <2>1 DEF CurrentEra, KeepsSessions
  <2>2. ASSUME NEW e \in SessionType, e.era = era[e.user], sessions' = Append(sessions, e)
        PROVE  \A s \in DOMAIN sessions' :
                 sessions'[s].live => sessions'[s].era = era'[sessions'[s].user]
    <3>1. /\ DOMAIN sessions' = 1 .. Len(sessions) + 1
          /\ \A i \in DOMAIN sessions : sessions'[i] = sessions[i]
          /\ sessions'[Len(sessions) + 1] = e
      BY <2>2, Appended DEF Typed
    <3>2. DOMAIN sessions = 1 .. Len(sessions) /\ Len(sessions) \in Nat
      BY DEF Typed
    <3>3. \A i \in DOMAIN sessions' : i \in DOMAIN sessions \/ i = Len(sessions) + 1
      BY <3>1, <3>2
    <3> QED
      BY <3>1, <3>3, <2>2 DEF CurrentEra
  <2> QED
    BY <2>1, <2>2 DEF SessionsGo
<1>3. ActiveHasPasskey'
  <2> SUFFICES ASSUME NEW u \in Users, users'[u].status = "active"
               PROVE  passkeys'[u] # {}
    BY DEF ActiveHasPasskey
  <2>1. passkeys[u] \subseteq passkeys'[u]
        /\ (users[u].status = "active" \/ passkeys'[u] # {})
    BY DEF AccountsGo
  <2>2. users[u].status = "active" => passkeys[u] # {}
    BY DEF CurrentEra, ActiveHasPasskey
  <2> QED
    BY <2>1, <2>2
<1> QED
  BY <1>1, <1>2, <1>3 DEF CurrentEra

LEMMA CommitKeepsEra ==
    ASSUME Typed, CurrentEra, NEW q \in Requests, Commits(q)
    PROVE  CurrentEra'
<1> PICK u : u = requests[q].target
  OBVIOUS
<1>1. /\ requests[q] \in AdminReq
      /\ \A v \in Users : users'[v].status = "active" => users[v].status = "active"
      /\ \/ UNCHANGED <<passkeys, sessions, era>>
         \/ DeactivationTrigger(u) /\ users'[u].status # "active"
  BY CommitEffect
<1>2. CASE UNCHANGED <<passkeys, sessions, era>>
  BY <1>1, <1>2 DEF CurrentEra, ActiveHasPasskey
<1>3. CASE DeactivationTrigger(u) /\ users'[u].status # "active"
  <2>1. u \in Users
    BY <1>1 DEF AdminReq
  <2>2. /\ passkeys'[u] = {} /\ \A v \in Users : v # u => passkeys'[v] = passkeys[v] /\ era'[v] = era[v]
        /\ sessions' = RevokeOn(u, sessions)
    BY <1>3, <2>1 DEF DeactivationTrigger, Typed
  <2>3. \A v \in Users : \A p \in passkeys'[v] : p.era = era'[v]
    BY <2>2 DEF CurrentEra
  <2>4. sessions \in Seq(SessionType)
    BY DEF Typed
  <2>5. /\ DOMAIN sessions' = DOMAIN sessions
        /\ \A i \in DOMAIN sessions :
             /\ sessions'[i].user = sessions[i].user /\ sessions'[i].era = sessions[i].era
             /\ sessions'[i].live <=> sessions[i].live /\ sessions[i].user # u
    BY <2>2, <2>4, RevokeType
  <2>6. \A i \in DOMAIN sessions : sessions[i].user \in Users
    <3>1. \A i \in DOMAIN sessions : sessions[i] \in SessionType
      BY <2>4
    <3> QED
      BY <3>1 DEF SessionType
  <2>7. \A s \in DOMAIN sessions' : sessions'[s].live => sessions'[s].era = era'[sessions'[s].user]
    BY <2>2, <2>5, <2>6 DEF CurrentEra
  <2>8. ActiveHasPasskey'
    BY <1>1, <1>3, <2>2 DEF CurrentEra, ActiveHasPasskey
  <2> QED
    BY <2>3, <2>7, <2>8 DEF CurrentEra
<1> QED
  BY <1>1, <1>2, <1>3

LEMMA CurrentEraNext ==
    ASSUME Typed, CurrentEra, [AccountsNext]_allVars
    PROVE  CurrentEra'
<1> USE DEF policy, identity
<1>1. ASSUME UNCHANGED <<users, passkeys, era>>, SessionsGo
      PROVE  CurrentEra'
  BY <1>1, SameAccountsGo, EraFrame
<1>2. ASSUME UNCHANGED <<users, passkeys, era, sessions>>
      PROVE  CurrentEra'
  BY <1>1, <1>2, SameSessionsGo
<1>3. ASSUME NEW q \in Requests, Ask(q)
      PROVE  CurrentEra'
  BY <1>2, <1>3, AskEffect
<1>4. ASSUME NEW q \in Requests, AdminWork(q)
      PROVE  CurrentEra'
  <2>1. ReadTarget(q) \/ GuardLastAdmin(q) \/ RetireInvites(q) =>
          UNCHANGED <<users, passkeys, era, sessions>>
    BY DEF ReadTarget, GuardLastAdmin, RetireInvites
  <2> QED
    BY <1>2, <1>4, <2>1, CommitKeepsEra DEF AdminWork, Commits
<1>5. ASSUME NEW q \in Requests, PermissionWork(q)
      PROVE  CurrentEra'
  BY <1>2, <1>5 DEF PermissionWork, ChangePermission, AuditPermission
<1>6. ASSUME NEW q \in Requests, CeremonyWork(q)
      PROVE  CurrentEra'
  BY <1>6, CeremonyEffect, EraFrame
<1>7. CASE SingleStep
  <2>1. Quiet /\ users' \in [Users -> UserType] /\ KeepsSessions(sessions, sessions')
        /\ (UNCHANGED users \/ \E u \in Users : FirstAdmin(u))
    BY <1>7, SingleEffect DEF SingleGoes
  <2>2. CASE UNCHANGED users
    BY <2>1, <2>2, <1>1 DEF Quiet, SessionsGo
  <2>3. ASSUME NEW u \in Users, FirstAdmin(u)
        PROVE  CurrentEra'
    <3>1. \A v \in Users : users'[v].status # "active"
      BY <2>3 DEF FirstAdmin, Typed
    <3> QED
      BY <2>1, <3>1 DEF Quiet, CurrentEra, KeepsSessions, ActiveHasPasskey
  <2> QED
    BY <2>1, <2>2, <2>3
<1>8. ASSUME NEW q \in Requests, AskTotp(q) \/ TotpWork(q)
      PROVE  CurrentEra'
  <2>1. TotpGoes(q)
    BY <1>8, AskTotpEffect, TotpEffect DEF AskTotp
  <2> QED
    BY <2>1, <1>1 DEF TotpGoes, SessionsGo
<1>9. CASE UNCHANGED allVars
  BY <1>2, <1>9 DEF allVars, vars
<1>10. CASE Tick
  BY <1>2, <1>10 DEF Tick, vars
<1>11. ASSUME NEW u \in Users, LockOpens(u)
       PROVE  CurrentEra'
  BY <1>2, <1>11 DEF LockOpens, otherTables
<1> QED
  BY <1>3, <1>4, <1>5, <1>6, <1>7, <1>8, <1>9, <1>10, <1>11 DEF AccountsNext

\* An administrative request stays one until it ends, and changes no permission.
LEMMA AdminStays ==
    ASSUME Typed, NEW q \in Requests, AdminWork(q)
    PROVE  /\ requests[q].op \in AdminOps /\ UNCHANGED permits
           /\ \E new : Serve(q, new) /\ new.op \in AdminOps \cup {"none"}
<1>1. requests[q].op \in AdminOps
  BY Zenon DEF AdminWork, ReadTarget, GuardLastAdmin, RetireInvites, CommitDeactivate, CommitReactivate,
         CommitRecover, CommitInviteNew, CommitReissue, CommitRole, AdminOps, IssuingOps
<1>2. UNCHANGED permits
  BY Zenon DEF AdminWork, ReadTarget, GuardLastAdmin, RetireInvites, CommitDeactivate, CommitReactivate,
         CommitRecover, CommitInviteNew, CommitReissue, CommitRole, Commit, policy
<1>3. CASE Finish(q)
  BY <1>1, <1>2, <1>3 DEF Finish, Idle
<1>4. CASE ~Finish(q)
  <2>1. PICK new : Serve(q, new) /\ new.op = requests[q].op
    <3>1. CASE ReadTarget(q)
      <4> PICK new : new = [op |-> requests[q].op, target |-> requests[q].target,
                            role |-> requests[q].role,
                            at |-> IF NeedsGuard(requests[q], users[requests[q].target])
                                   THEN "guard" ELSE "write",
                            status |-> users[requests[q].target].status, retire |-> {},
                            guarded |-> FALSE]
        BY Zenon
      <4>1. Serve(q, new)
        BY <3>1, <1>4, Zenon DEF ReadTarget
      <4>2. new.op = requests[q].op
        OBVIOUS
      <4> QED
        BY <4>1, <4>2, Zenon
    <3>2. CASE GuardLastAdmin(q)
      <4>1. requests[q] \in AdminReq
        BY <3>2, ReqCases DEF GuardLastAdmin, Typed
      <4>2. [requests[q] EXCEPT !.at = "write", !.guarded = TRUE].op = requests[q].op
        BY <4>1 DEF AdminReq
      <4>3. Serve(q, [requests[q] EXCEPT !.at = "write", !.guarded = TRUE])
        BY <3>2, <1>4 DEF GuardLastAdmin
      <4> QED
        BY <4>2, <4>3, Zenon
    <3>3. CASE RetireInvites(q)
      <4>1. requests[q] \in AdminReq
        BY <3>3, <1>1, ReqCases DEF RetireInvites, Typed
      <4>2. [requests[q] EXCEPT !.at = "retired", !.retire = UnusedInvites(requests[q].target)].op
              = requests[q].op
        BY <4>1 DEF AdminReq
      <4> QED
        BY <3>3, <4>2, Zenon DEF RetireInvites
    <3>4. Commits(q) => Finish(q)
      BY Zenon DEF Commits, CommitDeactivate, CommitReactivate, CommitRecover, CommitInviteNew,
             CommitReissue, CommitRole, Commit
    <3> QED
      BY <1>4, <3>1, <3>2, <3>3, <3>4 DEF AdminWork, Commits
  <2> QED
    BY <1>1, <1>2, <2>1
<1> QED
  BY <1>3, <1>4

-----------------------------------------------------------------------------
(* The audit log accounts for grants.                                           *)

\* The requests whose audit row is still to be written.
DueSet(u, op) ==
    {q \in Requests : requests[q].op = op /\ requests[q].at = "audit" /\ requests[q].target = u}

AuditFor(u) ==
    \/ permits.lost
    \/ permits.net[u] + Cardinality(DueSet(u, "permit")) - Cardinality(DueSet(u, "forbid"))
          = IF u \in permits.held THEN 1 ELSE 0

LEMMA AuditIsForEach ==
    /\ AuditAccountsForGrants <=> \A u \in Users : AuditFor(u)
    /\ AuditAccountsForGrants' <=> \A u \in Users : AuditFor(u)'
BY DEF AuditAccountsForGrants, AuditFor, DueSet

LEMMA DueIsFinite ==
    ASSUME NEW u, NEW op
    PROVE  IsFiniteSet(DueSet(u, op)) /\ Cardinality(DueSet(u, op)) \in Nat
<1>1. DueSet(u, op) \subseteq Requests /\ IsFiniteSet(Requests)
  BY AccountsAssumption DEF DueSet
<1> QED
  BY <1>1, FS_Subset, FS_CardinalityType

\* A step that neither changes a permission nor touches a request that does.
LEMMA AuditFrame ==
    ASSUME AuditAccountsForGrants, UNCHANGED permits,
           \A p \in Requests :
             \/ requests'[p] = requests[p]
             \/ /\ requests[p].op \in {"permit", "forbid"} => requests[p].at # "audit"
                /\ requests'[p].op \in {"permit", "forbid"} => requests'[p].at # "audit"
    PROVE  AuditAccountsForGrants'
<1> SUFFICES ASSUME NEW u \in Users
             PROVE  AuditFor(u)'
  BY AuditIsForEach
<1>1. ASSUME NEW op \in {"permit", "forbid"}
      PROVE  DueSet(u, op)' = DueSet(u, op)
  <2>1. \A p \in Requests : p \in DueSet(u, op)' <=> p \in DueSet(u, op)
    BY DEF DueSet
  <2> QED
    BY <2>1 DEF DueSet
<1>2. AuditFor(u)
  BY AuditIsForEach
<1> QED
  BY <1>1, <1>2 DEF AuditFor

\* A request of a kind that has nothing to do with permissions.
LEMMA AuditGoesOn ==
    ASSUME Typed, AuditAccountsForGrants, UNCHANGED permits, NEW q \in Requests,
           NEW ops, GoesOn(q, ops), "permit" \notin ops, "forbid" \notin ops
    PROVE  AuditAccountsForGrants'
<1>1. PICK new : Serve(q, new) /\ new.op \in ops \cup {"none"} /\ requests[q].op \in ops
  BY DEF GoesOn
<1>2. requests'[q] = new /\ \A p \in Requests : p # q => requests'[p] = requests[p]
  BY <1>1, Served
<1>3. requests[q].op \notin {"permit", "forbid"} /\ requests'[q].op \notin {"permit", "forbid"}
  BY <1>1, <1>2
<1> QED
  BY <1>2, <1>3, AuditFrame

\* A permission changes together with what is due to the log.
LEMMA AuditChange ==
    ASSUME Typed, AuditAccountsForGrants, NEW q \in Requests, ChangePermission(q)
    PROVE  AuditAccountsForGrants'
<1> PICK r : r = requests[q]
  OBVIOUS
<1>1. r \in PermitReq /\ r.op \in {"permit", "forbid"} /\ r.at = "change" /\ r.target \in Users
  <2>1. r \in PermitReq
    BY ReqCases DEF ChangePermission, Typed
  <2> QED
    BY <2>1 DEF ChangePermission, PermitReq
<1>2. permits \in PermitsType
  BY DEF Typed
<1>3. /\ permits' = [permits EXCEPT !.held = IF r.op = "permit" THEN permits.held \cup {r.target}
                                                               ELSE permits.held \ {r.target}]
      /\ IF ChangesARow(r.op, r.target) THEN Serve(q, [r EXCEPT !.at = "audit"])
                                        ELSE Serve(q, Idle)
  BY DEF ChangePermission, Finish
<1>4. /\ permits'.lost = permits.lost /\ permits'.net = permits.net
      /\ permits'.held = IF r.op = "permit" THEN permits.held \cup {r.target}
                                            ELSE permits.held \ {r.target}
  BY <1>2, <1>3 DEF PermitsType
<1> SUFFICES ASSUME NEW u \in Users
             PROVE  AuditFor(u)'
  BY AuditIsForEach
<1>5. AuditFor(u) /\ permits.net[u] \in Int
  BY <1>2, AuditIsForEach DEF PermitsType
<1>6. /\ IsFiniteSet(DueSet(u, "permit")) /\ Cardinality(DueSet(u, "permit")) \in Nat
      /\ IsFiniteSet(DueSet(u, "forbid")) /\ Cardinality(DueSet(u, "forbid")) \in Nat
  BY DueIsFinite
<1>7. CASE ~ChangesARow(r.op, r.target)
  <2>1. Serve(q, Idle) /\ permits'.held = permits.held
    BY <1>1, <1>2, <1>3, <1>4, <1>7 DEF ChangesARow, PermitsType
  <2>2. requests'[q] = Idle /\ \A p \in Requests : p # q => requests'[p] = requests[p]
    BY <2>1, Served
  <2>3. ASSUME NEW op \in {"permit", "forbid"}
        PROVE  DueSet(u, op)' = DueSet(u, op)
    <3>1. \A p \in Requests : p \in DueSet(u, op)' <=> p \in DueSet(u, op)
      BY <1>1, <2>2 DEF DueSet, Idle
    <3> QED
      BY <3>1 DEF DueSet
  <2> QED
    BY <1>4, <1>5, <2>1, <2>3 DEF AuditFor
<1>8. CASE ChangesARow(r.op, r.target)
  <2> PICK new : new = [r EXCEPT !.at = "audit"]
    BY Zenon
  <2>1. Serve(q, new) /\ new.op = r.op /\ new.at = "audit" /\ new.target = r.target
    BY <1>1, <1>3, <1>8 DEF PermitReq
  <2>2. requests'[q] = new /\ \A p \in Requests : p # q => requests'[p] = requests[p]
    BY <2>1, Served
  <2>3. ASSUME NEW op \in {"permit", "forbid"}
        PROVE  DueSet(u, op)' = IF op = r.op /\ u = r.target THEN DueSet(u, op) \cup {q} ELSE DueSet(u, op)
    <3>1. \A p \in Requests : p \in DueSet(u, op)' <=> p \in DueSet(u, op) \/ (p = q /\ op = r.op /\ u = r.target)
      <4>1. \A p \in Requests : p # q => (p \in DueSet(u, op)' <=> p \in DueSet(u, op))
        BY <2>2 DEF DueSet
      <4>2. q \in DueSet(u, op)' <=> op = r.op /\ u = r.target
        BY <2>1, <2>2, Zenon DEF DueSet
      <4>3. q \notin DueSet(u, op)
        BY <1>1 DEF DueSet
      <4> QED
        BY <4>1, <4>2, <4>3
    <3> QED
      BY <3>1 DEF DueSet
  <2>4. \A op \in {"permit", "forbid"} : q \notin DueSet(u, op)
    BY <1>1 DEF DueSet
  <2>5. CASE u # r.target
    <3>1. \A op \in {"permit", "forbid"} : DueSet(u, op)' = DueSet(u, op)
      BY <2>3, <2>5
    <3>2. u \in permits'.held <=> u \in permits.held
      BY <1>4, <2>5
    <3> QED
      BY <1>4, <1>5, <3>1, <3>2 DEF AuditFor
  <2>6. CASE u = r.target /\ r.op = "permit"
    <3>1. DueSet(u, "permit")' = DueSet(u, "permit") \cup {q} /\ DueSet(u, "forbid")' = DueSet(u, "forbid")
      BY <2>3, <2>6
    <3>2. Cardinality(DueSet(u, "permit")') = Cardinality(DueSet(u, "permit")) + 1
      BY <1>6, <2>4, <3>1, FS_AddElement
    <3>3. u \notin permits.held /\ u \in permits'.held
      BY <1>4, <1>8, <2>6 DEF ChangesARow
    <3> QED
      BY <1>4, <1>5, <1>6, <3>1, <3>2, <3>3 DEF AuditFor
  <2>7. CASE u = r.target /\ r.op = "forbid"
    <3>1. DueSet(u, "forbid")' = DueSet(u, "forbid") \cup {q} /\ DueSet(u, "permit")' = DueSet(u, "permit")
      BY <2>3, <2>7
    <3>2. Cardinality(DueSet(u, "forbid")') = Cardinality(DueSet(u, "forbid")) + 1
      BY <1>6, <2>4, <3>1, FS_AddElement
    <3>3. u \in permits.held /\ u \notin permits'.held
      BY <1>4, <1>8, <2>7 DEF ChangesARow
    <3> QED
      BY <1>4, <1>5, <1>6, <3>1, <3>2, <3>3 DEF AuditFor
  <2> QED
    BY <1>1, <2>5, <2>6, <2>7
<1> QED
  BY <1>7, <1>8

\* A row is written for a change that was due, or noted as lost.
LEMMA AuditWrite ==
    ASSUME Typed, AuditAccountsForGrants, NEW q \in Requests, NEW written \in BOOLEAN,
           AuditPermission(q, written)
    PROVE  AuditAccountsForGrants'
<1> PICK r : r = requests[q]
  OBVIOUS
<1>1. r \in PermitReq /\ r.op \in {"permit", "forbid"} /\ r.at = "audit" /\ r.target \in Users
  <2>1. r \in PermitReq
    BY ReqCases DEF AuditPermission, Typed
  <2> QED
    BY <2>1 DEF AuditPermission, PermitReq
<1>2. permits \in PermitsType /\ permits.net \in [Users -> Int]
  BY DEF Typed, PermitsType
<1> SUFFICES ASSUME NEW u \in Users
             PROVE  AuditFor(u)'
  BY AuditIsForEach
<1>3. CASE ~written
  <2>1. permits' = [permits EXCEPT !.lost = TRUE]
    BY <1>3 DEF AuditPermission
  <2>2. permits'.lost
    BY <1>2, <2>1 DEF PermitsType
  <2> QED
    BY <2>2 DEF AuditFor
<1>4. CASE written
  <2> PICK net : net = [permits.net EXCEPT ![r.target] = IF r.op = "permit" THEN permits.net[r.target] + 1
                                                                           ELSE permits.net[r.target] - 1]
    BY Zenon
  <2>1. permits' = [permits EXCEPT !.net = net] /\ Serve(q, Idle)
    BY <1>4 DEF AuditPermission, Finish
  <2>2. permits'.lost = permits.lost /\ permits'.net = net /\ permits'.held = permits.held
    BY <1>2, <2>1 DEF PermitsType
  <2>3. requests'[q] = Idle /\ \A p \in Requests : p # q => requests'[p] = requests[p]
    BY <2>1, Served
  <2>4. ASSUME NEW op \in {"permit", "forbid"}
        PROVE  DueSet(u, op)' = IF op = r.op /\ u = r.target THEN DueSet(u, op) \ {q} ELSE DueSet(u, op)
    <3>1. \A p \in Requests : p \in DueSet(u, op)' <=> p \in DueSet(u, op) /\ ~(p = q /\ op = r.op /\ u = r.target)
      <4>1. \A p \in Requests : p # q => (p \in DueSet(u, op)' <=> p \in DueSet(u, op))
        BY <2>3 DEF DueSet
      <4>2. q \notin DueSet(u, op)'
        BY <2>3 DEF DueSet, Idle
      <4>3. q \in DueSet(u, op) => op = r.op /\ u = r.target
        BY DEF DueSet
      <4> QED
        BY <4>1, <4>2, <4>3
    <3> QED
      BY <3>1 DEF DueSet
  <2>5. AuditFor(u) /\ permits.net[u] \in Int
    BY <1>2, AuditIsForEach
  <2>6. /\ IsFiniteSet(DueSet(u, "permit")) /\ Cardinality(DueSet(u, "permit")) \in Nat
        /\ IsFiniteSet(DueSet(u, "forbid")) /\ Cardinality(DueSet(u, "forbid")) \in Nat
    BY DueIsFinite
  <2>7. CASE u # r.target
    <3>1. \A op \in {"permit", "forbid"} : DueSet(u, op)' = DueSet(u, op)
      BY <2>4, <2>7
    <3>2. net[u] = permits.net[u]
      BY <1>1, <1>2, <2>7
    <3> QED
      BY <2>2, <2>5, <3>1, <3>2 DEF AuditFor
  <2>8. CASE u = r.target /\ r.op = "permit"
    <3>1. DueSet(u, "permit")' = DueSet(u, "permit") \ {q} /\ DueSet(u, "forbid")' = DueSet(u, "forbid")
          /\ q \in DueSet(u, "permit")
      BY <1>1, <2>4, <2>8 DEF DueSet
    <3>2. Cardinality(DueSet(u, "permit")') = Cardinality(DueSet(u, "permit")) - 1
      BY <2>6, <3>1, FS_RemoveElement
    <3>3. net[u] = permits.net[u] + 1
      BY <1>1, <1>2, <2>8
    <3>4. permits.lost \/ permits.net[u] + Cardinality(DueSet(u, "permit")) - Cardinality(DueSet(u, "forbid"))
                              = IF u \in permits.held THEN 1 ELSE 0
      BY <2>5 DEF AuditFor
    <3>5. permits.net[u] + Cardinality(DueSet(u, "permit")) - Cardinality(DueSet(u, "forbid"))
            = net[u] + Cardinality(DueSet(u, "permit")') - Cardinality(DueSet(u, "forbid")')
      BY <2>5, <2>6, <3>1, <3>2, <3>3
    <3> QED
      BY <2>2, <3>4, <3>5, Zenon DEF AuditFor
  <2>9. CASE u = r.target /\ r.op = "forbid"
    <3>1. DueSet(u, "forbid")' = DueSet(u, "forbid") \ {q} /\ DueSet(u, "permit")' = DueSet(u, "permit")
          /\ q \in DueSet(u, "forbid")
      BY <1>1, <2>4, <2>9 DEF DueSet
    <3>2. Cardinality(DueSet(u, "forbid")') = Cardinality(DueSet(u, "forbid")) - 1
      BY <2>6, <3>1, FS_RemoveElement
    <3>3. net[u] = permits.net[u] - 1
      BY <1>1, <1>2, <2>9
    <3>4. permits.lost \/ permits.net[u] + Cardinality(DueSet(u, "permit")) - Cardinality(DueSet(u, "forbid"))
                              = IF u \in permits.held THEN 1 ELSE 0
      BY <2>5 DEF AuditFor
    <3>5. permits.net[u] + Cardinality(DueSet(u, "permit")) - Cardinality(DueSet(u, "forbid"))
            = net[u] + Cardinality(DueSet(u, "permit")') - Cardinality(DueSet(u, "forbid")')
      BY <2>5, <2>6, <3>1, <3>2, <3>3
    <3> QED
      BY <2>2, <3>4, <3>5, Zenon DEF AuditFor
  <2> QED
    BY <1>1, <2>7, <2>8, <2>9
<1> QED
  BY <1>3, <1>4

LEMMA AuditNext ==
    ASSUME Typed, AuditAccountsForGrants, [AccountsNext]_allVars
    PROVE  AuditAccountsForGrants'
<1> USE DEF policy
<1>1. "permit" \notin AdminOps \cup CeremonyOps \cup TotpOps \cup {"none"}
      /\ "forbid" \notin AdminOps \cup CeremonyOps \cup TotpOps \cup {"none"}
  BY DEF AdminOps, IssuingOps, CeremonyOps, TotpOps
<1>2. ASSUME NEW q \in Requests, Ask(q)
      PROVE  AuditAccountsForGrants'
  <2>1. PICK new \in ReqType : /\ Serve(q, new) /\ requests[q] = Idle
                               /\ new.op \in {"permit", "forbid"} => new.at = "change"
                               /\ UNCHANGED permits
    BY <1>2, AskEffect
  <2>2. requests'[q] = new /\ \A p \in Requests : p # q => requests'[p] = requests[p]
    BY <2>1, Served
  <2> QED
    BY <2>1, <2>2, AuditFrame DEF Idle
<1>3. ASSUME NEW q \in Requests, AdminWork(q)
      PROVE  AuditAccountsForGrants'
  <2>1. PICK new : /\ Serve(q, new) /\ new.op \in AdminOps \cup {"none"}
                   /\ requests[q].op \in AdminOps /\ UNCHANGED permits
    BY <1>3, AdminStays
  <2>2. requests'[q] = new /\ \A p \in Requests : p # q => requests'[p] = requests[p]
    BY <2>1, Served
  <2>3. requests[q].op \notin {"permit", "forbid"} /\ requests'[q].op \notin {"permit", "forbid"}
    BY <1>1, <2>1, <2>2
  <2> QED
    BY <2>1, <2>2, <2>3, AuditFrame
<1>4. ASSUME NEW q \in Requests, PermissionWork(q)
      PROVE  AuditAccountsForGrants'
  BY <1>4, AuditChange, AuditWrite DEF PermissionWork
<1>5. ASSUME NEW q \in Requests, CeremonyWork(q)
      PROVE  AuditAccountsForGrants'
  <2>1. GoesOn(q, CeremonyOps) /\ UNCHANGED permits
    BY <1>5, CeremonyEffect
  <2> QED
    BY <1>1, <2>1, AuditGoesOn
<1>6. CASE SingleStep
  BY <1>6, SingleEffect, AuditFrame DEF SingleGoes, Quiet
<1>7. ASSUME NEW q \in Requests, AskTotp(q) \/ TotpWork(q)
      PROVE  AuditAccountsForGrants'
  <2>1. TotpGoes(q)
    BY <1>7, AskTotpEffect, TotpEffect DEF AskTotp
  <2>2. GoesOn(q, TotpOps \cup {"none"}) /\ UNCHANGED permits
    BY <2>1 DEF TotpGoes
  <2> QED
    BY <1>1, <2>2, AuditGoesOn
<1>8. CASE Tick \/ UNCHANGED allVars
  BY <1>8, AuditFrame DEF Tick, allVars, vars
<1>9. ASSUME NEW u \in Users, LockOpens(u)
      PROVE  AuditAccountsForGrants'
  BY <1>9, AuditFrame DEF LockOpens, otherTables
<1> QED
  BY <1>2, <1>3, <1>4, <1>5, <1>6, <1>7, <1>8, <1>9 DEF AccountsNext

=============================================================================
