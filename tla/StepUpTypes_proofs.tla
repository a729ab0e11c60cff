------------------------- MODULE StepUpTypes_proofs -------------------------
(* Proofs about the accounts and their step-up, for any sets of users and of    *)
(* concurrent requests and any limits: what each step does to the tables, and   *)
(* that it keeps their types. Module StepUp_proofs builds on it.                *)
EXTENDS StepUp, TLAPS

-----------------------------------------------------------------------------
(* What a request is at each point of its handler.                              *)

AskedReq == [op : AdminOps, at : {"begun"}, target : Users, role : Roles]
AdminReq ==
    [op : AdminOps, at : {"guard", "write", "retired"}, target : Users, role : Roles,
     status : Statuses, retire : SUBSET Nat, guarded : BOOLEAN]
PermitReq == [op : {"permit", "forbid"}, at : {"change", "audit"}, target : Users]
CeremonyReq ==
    [op : {"register", "login", "reverify"}, at : {"taken", "verify", "session"},
     ceremony : Nat \ {0}, session : Nat, user : Users]
SignInReq ==
    [op : {"login", "register"}, at : {"session", "insert"}, user : Users, gated : BOOLEAN]
TotpReq ==
    [op : TotpOps, at : {"load", "store", "fail", "succeed", "elevate"}, user : Users,
     session : Nat, code : Codes, reverified : BOOLEAN]
ReqType == {Idle} \cup AskedReq \cup AdminReq \cup PermitReq \cup CeremonyReq \cup SignInReq \cup TotpReq

UserType == [status : Statuses, roles : SUBSET Roles]
PasskeyType == [id : Nat, era : Nat]
InviteType == [user : Users, used : BOOLEAN, expired : BOOLEAN]
CeremonyType ==
    [kind : {"add", "enrol", "login", "reverify"}, user : Users, invite : Nat,
     live : BOOLEAN, era : Nat]
SessionType ==
    [user : Users, live : BOOLEAN, gated : BOOLEAN, elevated : BOOLEAN,
     reverified : BOOLEAN, era : Nat]
TotpType ==
    [secret : Nat, pending : Nat, confirmed : BOOLEAN, failed : Nat, locked : BOOLEAN,
     lastStep : Nat]
PermitsType == [held : SUBSET Users, net : [Users -> Int], lost : BOOLEAN]

Typed ==
    /\ users \in [Users -> UserType]
    /\ passkeys \in [Users -> SUBSET PasskeyType]
    /\ totp \in [Users -> TotpType]
    /\ invites \in Seq(InviteType)
    /\ ceremonies \in Seq(CeremonyType)
    /\ sessions \in Seq(SessionType)
    /\ requests \in [Requests -> ReqType]
    /\ \A q \in Requests : requests[q] \in CeremonyReq => requests[q].ceremony <= Len(ceremonies)
    /\ roleLock \in Requests \cup {NoRequest}
    /\ permits \in PermitsType
    /\ era \in [Users -> Nat]
    /\ unguardedLoss \in BOOLEAN
    /\ secretsMade \in Nat
    /\ guesses \in [Users -> Nat]

-----------------------------------------------------------------------------
(* Types.                                                                       *)

\* A request's point in its handler says what it carries.
LEMMA ReqCases ==
    ASSUME NEW r \in ReqType
    PROVE  /\ r.op \in AdminOps /\ r.at = "begun" => r \in AskedReq
           /\ r.op \in AdminOps /\ r.at # "begun" => r \in AdminReq
           /\ r.op \in {"permit", "forbid"} => r \in PermitReq
           /\ r.op \in {"register", "login", "reverify"} => r \in CeremonyReq \cup SignInReq
           /\ r.op \in {"register", "login", "reverify"} /\ r.at \in {"taken", "verify"} => r \in CeremonyReq
           /\ r.op \in {"login", "register"} /\ r.at = "insert" => r \in SignInReq
           /\ r.op \in {"register", "login", "reverify"} => r.user \in Users
           /\ r.op \in TotpOps => r \in TotpReq
           /\ r.op \in {"none", "permit", "forbid", "register", "login", "reverify"}
                         \cup AdminOps \cup TotpOps
           /\ r.op = "none" => r = Idle
BY DEF ReqType, Idle, AskedReq, AdminReq, PermitReq, CeremonyReq, SignInReq, TotpReq,
       AdminOps, IssuingOps, TotpOps

\* A sequence changed in place keeps its length and, if its new elements are of
\* the type, its type.
LEMMA InPlace ==
    ASSUME NEW T, NEW s \in Seq(T), NEW t, t = [i \in DOMAIN s |-> t[i]],
           \A i \in DOMAIN s : t[i] \in T
    PROVE  t \in Seq(T) /\ Len(t) = Len(s) /\ DOMAIN t = DOMAIN s
OBVIOUS

LEMMA Appended ==
    ASSUME NEW T, NEW s \in Seq(T), NEW e \in T
    PROVE  /\ Append(s, e) \in Seq(T) /\ Len(Append(s, e)) = Len(s) + 1
           /\ DOMAIN Append(s, e) = 1 .. Len(s) + 1
           /\ \A i \in DOMAIN s : Append(s, e)[i] = s[i]
           /\ Append(s, e)[Len(s) + 1] = e
OBVIOUS

LEMMA UseType ==
    ASSUME NEW s \in Seq(InviteType), NEW ids
    PROVE  Use(s, ids) \in Seq(InviteType)
<1>1. \A i \in DOMAIN s : s[i] \in InviteType
  OBVIOUS
<1>2. \A i \in DOMAIN s : [s[i] EXCEPT !.used = @ \/ i \in ids] \in InviteType
  BY <1>1, Zenon DEF InviteType
<1> QED
  BY <1>2, InPlace DEF Use

LEMMA NewInviteType ==
    ASSUME NEW u \in Users
    PROVE  NewInvite(u) \in InviteType
BY DEF NewInvite, InviteType

\* What revoking a user's sessions does.
LEMMA RevokeType ==
    ASSUME NEW s \in Seq(SessionType), NEW u
    PROVE  /\ RevokeOn(u, s) \in Seq(SessionType)
           /\ DOMAIN RevokeOn(u, s) = DOMAIN s
           /\ \A i \in DOMAIN s :
                /\ RevokeOn(u, s)[i].user = s[i].user /\ RevokeOn(u, s)[i].era = s[i].era
                /\ RevokeOn(u, s)[i].live <=> s[i].live /\ s[i].user # u
<1>1. \A i \in DOMAIN s : s[i] \in SessionType
  OBVIOUS
<1>2. \A i \in DOMAIN s :
        LET e == [s[i] EXCEPT !.live = @ /\ s[i].user # u]
        IN e \in SessionType /\ e.user = s[i].user /\ e.era = s[i].era
           /\ (e.live <=> s[i].live /\ s[i].user # u)
  BY <1>1, Zenon DEF SessionType
<1>3. \A i \in DOMAIN s : RevokeOn(u, s)[i] = [s[i] EXCEPT !.live = @ /\ s[i].user # u]
  BY DEF RevokeOn
<1>4. RevokeOn(u, s) = [i \in DOMAIN s |-> RevokeOn(u, s)[i]]
  BY DEF RevokeOn
<1>5. \A i \in DOMAIN s : RevokeOn(u, s)[i] \in SessionType
  BY <1>2, <1>3, Zenon
<1>6. RevokeOn(u, s) \in Seq(SessionType) /\ DOMAIN RevokeOn(u, s) = DOMAIN s
  BY <1>4, <1>5, InPlace
<1> QED
  BY <1>2, <1>3, <1>6, Zenon

\* A request's next record, in place of the one it had.
LEMMA Served ==
    ASSUME Typed, NEW q \in Requests, NEW r, Serve(q, r)
    PROVE  /\ requests'[q] = r
           /\ \A p \in Requests : p # q => requests'[p] = requests[p]
           /\ r \in ReqType => requests' \in [Requests -> ReqType]
BY DEF Typed, Serve

\* The tables whose types do not depend on one another.
TablesTyped ==
    /\ users \in [Users -> UserType]
    /\ passkeys \in [Users -> SUBSET PasskeyType]
    /\ totp \in [Users -> TotpType]
    /\ invites \in Seq(InviteType)
    /\ sessions \in Seq(SessionType)
    /\ roleLock \in Requests \cup {NoRequest}
    /\ permits \in PermitsType
    /\ era \in [Users -> Nat]
    /\ unguardedLoss \in BOOLEAN
    /\ secretsMade \in Nat
    /\ guesses \in [Users -> Nat]

LEMMA TypedIsTables == Typed => TablesTyped
BY DEF Typed, TablesTyped

\* A step that serves one request, keeps the ceremonies and types the tables.
LEMMA ServeTyped ==
    ASSUME Typed, NEW q \in Requests, NEW r \in ReqType, Serve(q, r), TablesTyped',
           ceremonies' \in Seq(CeremonyType), Len(ceremonies') >= Len(ceremonies),
           r \in CeremonyReq => r.ceremony <= Len(ceremonies)
    PROVE  Typed'
<1>1. requests' \in [Requests -> ReqType]
  BY Served
<1>2. \A p \in Requests : requests'[p] \in CeremonyReq => requests'[p].ceremony <= Len(ceremonies')
  <2> SUFFICES ASSUME NEW p \in Requests, requests'[p] \in CeremonyReq
               PROVE  requests'[p].ceremony <= Len(ceremonies')
    OBVIOUS
  <2>1. Len(ceremonies) \in Nat /\ Len(ceremonies') \in Nat
    BY DEF Typed
  <2>2. requests'[p].ceremony \in Nat
    BY DEF CeremonyReq
  <2>3. requests'[p].ceremony <= Len(ceremonies)
    BY Served, Zenon DEF Typed
  <2> QED
    BY <2>1, <2>2, <2>3
<1> QED
  BY <1>1, <1>2 DEF Typed, TablesTyped

\* The same, for a step that leaves the tables alone.
LEMMA OnlyServed ==
    ASSUME Typed, NEW q \in Requests, NEW r \in ReqType, Serve(q, r),
           UNCHANGED <<identity, ceremonies, sessions, permits, secretsMade, guesses>>,
           r \in CeremonyReq => r.ceremony <= Len(ceremonies)
    PROVE  Typed'
<1>1. TablesTyped'
  BY TypedIsTables DEF TablesTyped, identity
<1>2. ceremonies' \in Seq(CeremonyType) /\ Len(ceremonies') >= Len(ceremonies)
  BY DEF Typed
<1> QED
  BY <1>1, <1>2, ServeTyped

LEMMA IdleType == Idle \in ReqType /\ Idle \notin CeremonyReq
BY DEF Idle, ReqType, CeremonyReq

LEMMA AskTyped ==
    ASSUME Typed, NEW q \in Requests, Ask(q), UNCHANGED totpVars
    PROVE  Typed'
<1> USE DEF policy, totpVars, Start
<1>1. ASSUME NEW op \in AdminOps, NEW s \in DOMAIN sessions, NEW t \in Users, NEW r \in Roles,
             BeginAdmin(q, op, s, t, r)
      PROVE  Typed'
  <2> DEFINE new == [op |-> op, at |-> "begun", target |-> t, role |-> r]
  <2>1. new \in AskedReq
    BY DEF AskedReq
  <2>2. new \in ReqType /\ new \notin CeremonyReq
    BY <2>1 DEF ReqType, CeremonyReq
  <2>3. Serve(q, new) /\ UNCHANGED <<identity, ceremonies, sessions, permits>>
    BY <1>1 DEF BeginAdmin
  <2> HIDE DEF new
  <2> QED
    BY <2>2, <2>3, OnlyServed
<1>2. ASSUME NEW op \in {"permit", "forbid"}, NEW s \in DOMAIN sessions, NEW t \in Users,
             BeginPermission(q, op, s, t)
      PROVE  Typed'
  <2> DEFINE new == [op |-> op, at |-> "change", target |-> t]
  <2>1. new \in PermitReq
    BY DEF PermitReq
  <2>2. new \in ReqType /\ new \notin CeremonyReq
    BY <2>1 DEF ReqType, CeremonyReq
  <2>3. Serve(q, new) /\ UNCHANGED <<identity, ceremonies, sessions, permits>>
    BY <1>2 DEF BeginPermission
  <2> HIDE DEF new
  <2> QED
    BY <2>2, <2>3, OnlyServed
<1>3. ASSUME NEW op \in {"register", "login", "reverify"}, NEW c \in DOMAIN ceremonies,
             NEW n \in Nat, BeginFinish(q, op, c, n)
      PROVE  Typed'
  <2> DEFINE new == [op |-> op, at |-> "taken", ceremony |-> c, session |-> n,
                     user |-> ceremonies[c].user]
  <2>1. ceremonies[c] \in CeremonyType /\ c \in Nat \ {0} /\ c <= Len(ceremonies)
    BY DEF Typed
  <2>2. new \in CeremonyReq /\ new.ceremony = c
    BY <2>1 DEF CeremonyReq, CeremonyType
  <2>3. new \in ReqType
    BY <2>2 DEF ReqType
  <2>4. Serve(q, new) /\ UNCHANGED <<identity, ceremonies, sessions, permits>>
    BY <1>3 DEF BeginFinish
  <2> HIDE DEF new
  <2> QED
    BY <2>1, <2>2, <2>3, <2>4, OnlyServed
<1>4. DOMAIN sessions \subseteq Nat
  BY DEF Typed
<1> QED
  BY <1>1, <1>2, <1>3, <1>4 DEF Ask, RegisterFinish, LoginFinish, ReverifyFinish

\* The statements that end an administrative request's transaction.
Commits(q) ==
    \/ CommitDeactivate(q) \/ CommitReactivate(q) \/ CommitRecover(q)
    \/ CommitInviteNew(q) \/ CommitReissue(q) \/ CommitRole(q)

\* Whatever it is, it changes one account, activates nobody, and ends what can be
\* signed in with exactly where it runs the trigger.
LEMMA CommitEffect ==
    ASSUME Typed, NEW q \in Requests, Commits(q)
    PROVE  /\ requests[q] \in AdminReq
           /\ users' \in [Users -> UserType]
           /\ \A v \in Users : v # requests[q].target => users'[v] = users[v]
           /\ \A v \in Users : users'[v].status = "active" => users[v].status = "active"
           /\ invites' \in Seq(InviteType)
           /\ \/ UNCHANGED <<passkeys, totp, sessions, era>>
              \/ DeactivationTrigger(requests[q].target)
                 /\ users'[requests[q].target].status # "active"
           /\ Commit(q)
           /\ RecordLoss(q) \/ (ActiveAdmins' = ActiveAdmins /\ UNCHANGED unguardedLoss)
<1> PICK r : r = requests[q]
  OBVIOUS
<1>1. r \in ReqType
  BY DEF Typed
<1>2. r.op \in AdminOps /\ r.at # "begun"
  BY Zenon DEF Commits, CommitDeactivate, CommitReactivate, CommitRecover, CommitInviteNew,
         CommitReissue, CommitRole, AdminOps, IssuingOps
<1>3. r \in AdminReq
  BY <1>1, <1>2, ReqCases
<1>4. r.target \in Users /\ r.role \in Roles
  BY <1>3 DEF AdminReq
<1>5. users \in [Users -> UserType] /\ invites \in Seq(InviteType)
  BY DEF Typed
<1>6. \A ids : Use(invites, ids) \in Seq(InviteType)
  BY <1>5, UseType
<1>7. /\ Append(invites, NewInvite(r.target)) \in Seq(InviteType)
      /\ \A ids : Append(Use(invites, ids), NewInvite(r.target)) \in Seq(InviteType)
  BY <1>4, <1>5, <1>6, NewInviteType, Appended
<1>8. users[r.target] \in UserType
  BY <1>4, <1>5
<1>9. ASSUME NEW st \in Statuses, users' = [users EXCEPT ![r.target].status = st]
      PROVE  users' \in [Users -> UserType] /\ users'[r.target].status = st
             /\ \A v \in Users : v # r.target => users'[v] = users[v]
  <2>1. [users[r.target] EXCEPT !.status = st] \in UserType
        /\ [users[r.target] EXCEPT !.status = st].status = st
    BY <1>8 DEF UserType
  <2> QED
    BY <2>1, <1>4, <1>5, <1>9
<1>10. ASSUME NEW rs \in SUBSET Roles, users' = [users EXCEPT ![r.target].roles = rs]
       PROVE  users' \in [Users -> UserType] /\ users'[r.target].status = users[r.target].status
              /\ \A v \in Users : v # r.target => users'[v] = users[v]
  <2>1. [users[r.target] EXCEPT !.roles = rs] \in UserType
        /\ [users[r.target] EXCEPT !.roles = rs].status = users[r.target].status
    BY <1>8 DEF UserType
  <2> QED
    BY <2>1, <1>4, <1>5, <1>10
<1>11. {"active", "invited", "deactivated"} \subseteq Statuses
  BY DEF Statuses
<1>12. CASE CommitDeactivate(q)
  <2>1. users'[r.target].status = "deactivated" /\ users' \in [Users -> UserType]
        /\ \A v \in Users : v # r.target => users'[v] = users[v]
    BY <1>12, <1>9, <1>11, Zenon DEF CommitDeactivate
  <2>2. invites' \in Seq(InviteType)
    BY <1>12, <1>5, <1>6 DEF CommitDeactivate
  <2>3. /\ UNCHANGED <<passkeys, totp, sessions, era>> \/ DeactivationTrigger(r.target)
        /\ Commit(q) /\ RecordLoss(q)
    BY <1>12 DEF CommitDeactivate
  <2> QED
    BY <1>3, <2>1, <2>2, <2>3
<1>13. CASE CommitReactivate(q)
  <2>1. users'[r.target].status = "invited" /\ users' \in [Users -> UserType]
        /\ \A v \in Users : v # r.target => users'[v] = users[v]
    BY <1>13, <1>9, <1>11, Zenon DEF CommitReactivate
  <2>2. invites' \in Seq(InviteType)
    BY <1>13, <1>7 DEF CommitReactivate
  <2>3. UNCHANGED <<passkeys, totp, sessions, era>> /\ Commit(q) /\ RecordLoss(q)
    BY <1>13 DEF CommitReactivate
  <2> QED
    BY <1>3, <2>1, <2>2, <2>3
<1>14. CASE CommitRecover(q)
  <2>1. users'[r.target].status = "invited" /\ users' \in [Users -> UserType]
        /\ \A v \in Users : v # r.target => users'[v] = users[v]
    BY <1>14, <1>9, <1>11, Zenon DEF CommitRecover
  <2>2. invites' \in Seq(InviteType)
    BY <1>14, <1>7 DEF CommitRecover
  <2>3. /\ UNCHANGED <<passkeys, totp, sessions, era>> \/ DeactivationTrigger(r.target)
        /\ Commit(q) /\ RecordLoss(q)
    BY <1>14 DEF CommitRecover
  <2> QED
    BY <1>3, <2>1, <2>2, <2>3
<1>15. CASE CommitInviteNew(q)
  <2>1. UNCHANGED <<passkeys, totp, sessions, era, unguardedLoss>> /\ Commit(q)
    BY <1>15 DEF CommitInviteNew
  <2>2. CASE UNCHANGED <<users, invites>>
    BY <2>1, <2>2, <1>3, <1>5 DEF ActiveAdmins
  <2>3. CASE ~UNCHANGED <<users, invites>>
    <3>1. /\ users[r.target].status = "absent"
          /\ users' = [users EXCEPT ![r.target] = [status |-> "invited", roles |-> {r.role}]]
          /\ invites' = Append(invites, NewInvite(r.target))
      BY <1>15, <2>3 DEF CommitInviteNew
    <3>2. [status |-> "invited", roles |-> {r.role}] \in UserType
      BY <1>4, <1>11 DEF UserType
    <3>3. users' \in [Users -> UserType] /\ users'[r.target].status = "invited"
          /\ \A v \in Users : v # r.target => users'[v] = users[v]
      BY <3>1, <3>2, <1>4, <1>5
    <3>4. ActiveAdmins' = ActiveAdmins
      BY <3>1, <3>3 DEF ActiveAdmins
    <3> QED
      BY <3>1, <3>3, <3>4, <2>1, <1>3, <1>7
  <2> QED
    BY <2>2, <2>3
<1>16. CASE CommitReissue(q)
  <2>1. users'[r.target].status = users[r.target].status /\ users' \in [Users -> UserType]
        /\ \A v \in Users : v # r.target => users'[v] = users[v]
    <3>1. {r.role} \in SUBSET Roles /\ users' = [users EXCEPT ![r.target].roles = {r.role}]
      BY <1>16, <1>4 DEF CommitReissue
    <3> QED
      BY <3>1, <1>10, Zenon
  <2>2. invites' \in Seq(InviteType)
    BY <1>16, <1>7 DEF CommitReissue
  <2>3. UNCHANGED <<passkeys, totp, sessions, era>> /\ Commit(q) /\ RecordLoss(q)
    BY <1>16 DEF CommitReissue
  <2> QED
    BY <1>3, <2>1, <2>2, <2>3
<1>17. CASE CommitRole(q)
  <2>1. users[r.target].roles \in SUBSET Roles
    BY <1>8 DEF UserType
  <2> PICK rs : rs = IF r.op = "grant" THEN users[r.target].roles \cup {r.role}
                                       ELSE users[r.target].roles \ {r.role}
    BY Zenon
  <2>2. rs \in SUBSET Roles /\ users' = [users EXCEPT ![r.target].roles = rs]
    BY <2>1, <1>4, <1>17 DEF CommitRole
  <2>3. users'[r.target].status = users[r.target].status /\ users' \in [Users -> UserType]
        /\ \A v \in Users : v # r.target => users'[v] = users[v]
    BY <2>2, <1>10, Zenon
  <2>4. UNCHANGED <<passkeys, totp, sessions, era, invites>> /\ Commit(q) /\ RecordLoss(q)
    BY <1>17 DEF CommitRole
  <2> QED
    BY <1>3, <1>5, <2>3, <2>4
<1> QED
  BY <1>12, <1>13, <1>14, <1>15, <1>16, <1>17 DEF Commits

LEMMA NoTotpType ==
    /\ NoTotp \in TotpType /\ ~NoTotp.confirmed /\ ~NoTotp.locked
    /\ NoTotp.failed = 0 /\ NoTotp.pending = 0
BY DEF NoTotp, TotpType

LEMMA TriggerTyped ==
    ASSUME TablesTyped, NEW u \in Users, DeactivationTrigger(u)
    PROVE  /\ passkeys' \in [Users -> SUBSET PasskeyType]
           /\ totp' \in [Users -> TotpType]
           /\ sessions' \in Seq(SessionType)
           /\ era' \in [Users -> Nat]
BY NoTotpType, RevokeType DEF TablesTyped, DeactivationTrigger

LEMMA AdminTyped ==
    ASSUME Typed, NEW q \in Requests, AdminWork(q), UNCHANGED totpVars
    PROVE  Typed'
<1> USE DEF policy, totpVars
<1> PICK r : r = requests[q]
  OBVIOUS
<1>1. r \in ReqType
  BY DEF Typed
<1>2. CASE ReadTarget(q)
  <2>1. r \in AskedReq
    BY <1>1, <1>2, ReqCases DEF ReadTarget
  <2>2. users[r.target] \in UserType /\ UNCHANGED <<users, passkeys, totp, invites, era,
          unguardedLoss, roleLock, ceremonies, sessions, permits>>
    BY <2>1, <1>2 DEF AskedReq, Typed, ReadTarget
  <2>3. PICK new \in ReqType : Serve(q, new) /\ new \notin CeremonyReq
    <3>1. CASE Finish(q)
      BY <3>1, IdleType DEF Finish
    <3>2. CASE ~Finish(q)
      <4> DEFINE new == [op |-> r.op, target |-> r.target, role |-> r.role,
                         at |-> IF NeedsGuard(r, users[r.target]) THEN "guard" ELSE "write",
                         status |-> users[r.target].status, retire |-> {}, guarded |-> FALSE]
      <4>1. Serve(q, new)
        BY <1>2, <3>2 DEF ReadTarget
      <4>2. new \in AdminReq
        BY <2>1, <2>2 DEF AskedReq, AdminReq, UserType
      <4>3. new \in ReqType /\ new \notin CeremonyReq
        BY <4>2 DEF ReqType, AdminReq, CeremonyReq
      <4> QED
        BY <4>1, <4>3
    <3> QED
      BY <3>1, <3>2
  <2>4. TablesTyped'
    BY <2>2, TypedIsTables DEF TablesTyped
  <2>5. ceremonies' \in Seq(CeremonyType) /\ Len(ceremonies') >= Len(ceremonies)
    BY <2>2 DEF Typed
  <2> QED
    BY <2>3, <2>4, <2>5, ServeTyped
<1>3. CASE GuardLastAdmin(q)
  <2>1. r \in AdminReq
    BY <1>1, <1>3, ReqCases DEF GuardLastAdmin
  <2>2. PICK new \in ReqType : Serve(q, new) /\ new \notin CeremonyReq
    <3>1. CASE Finish(q)
      BY <3>1, IdleType DEF Finish
    <3>2. CASE ~Finish(q)
      <4>1. Serve(q, [r EXCEPT !.at = "write", !.guarded = TRUE])
        BY <1>3, <3>2 DEF GuardLastAdmin
      <4>2. [r EXCEPT !.at = "write", !.guarded = TRUE] \in AdminReq
        BY <2>1, Zenon DEF AdminReq
      <4>3. \A a \in AdminReq : a \in ReqType /\ a \notin CeremonyReq
        BY DEF ReqType, AdminReq, CeremonyReq
      <4> QED
        BY <4>1, <4>2, <4>3
    <3> QED
      BY <3>1, <3>2
  <2>3. /\ roleLock' \in {roleLock, q}
        /\ UNCHANGED <<users, passkeys, totp, invites, era, unguardedLoss, ceremonies,
                       sessions, permits>>
    BY <1>3 DEF GuardLastAdmin
  <2>4. TablesTyped'
    BY <2>3, TypedIsTables DEF TablesTyped
  <2>5. ceremonies' \in Seq(CeremonyType) /\ Len(ceremonies') >= Len(ceremonies)
    BY <2>3 DEF Typed
  <2> QED
    BY <2>2, <2>4, <2>5, ServeTyped
<1>4. CASE RetireInvites(q)
  <2>1. r \in AdminReq
    <3>1. r.op \in AdminOps /\ r.at # "begun"
      BY <1>4 DEF RetireInvites, AdminOps, IssuingOps
    <3> QED
      BY <1>1, <3>1, ReqCases
  <2>2. UnusedInvites(r.target) \in SUBSET Nat
    BY DEF UnusedInvites, Typed
  <2>3. [r EXCEPT !.at = "retired", !.retire = UnusedInvites(r.target)] \in AdminReq
    BY <2>1, <2>2, Zenon DEF AdminReq
  <2>4. \A a \in AdminReq : a \in ReqType /\ a \notin CeremonyReq
    BY DEF ReqType, AdminReq, CeremonyReq
  <2>5. Serve(q, [r EXCEPT !.at = "retired", !.retire = UnusedInvites(r.target)])
        /\ UNCHANGED <<identity, ceremonies, sessions, permits>>
    BY <1>4 DEF RetireInvites
  <2> QED
    BY <2>3, <2>4, <2>5, OnlyServed
<1>5. CASE Commits(q)
  <2>1. r \in AdminReq /\ users' \in [Users -> UserType] /\ invites' \in Seq(InviteType)
        /\ (UNCHANGED <<passkeys, totp, sessions, era>> \/ DeactivationTrigger(r.target))
        /\ Commit(q) /\ unguardedLoss' \in BOOLEAN
    BY <1>5, CommitEffect, Zenon DEF RecordLoss, Typed
  <2>2. r.target \in Users
    BY <2>1 DEF AdminReq
  <2>3. TablesTyped
    BY TypedIsTables
  <2>4. /\ passkeys' \in [Users -> SUBSET PasskeyType]
        /\ totp' \in [Users -> TotpType]
        /\ sessions' \in Seq(SessionType)
        /\ era' \in [Users -> Nat]
    BY <2>1, <2>2, <2>3, TriggerTyped, Zenon DEF TablesTyped
  <2>5. TablesTyped'
    BY <2>1, <2>3, <2>4 DEF TablesTyped, Commit
  <2>6. ceremonies' \in Seq(CeremonyType) /\ Len(ceremonies') >= Len(ceremonies)
        /\ Serve(q, Idle)
    BY <2>1 DEF Typed, Commit, Finish
  <2> QED
    BY <2>5, <2>6, IdleType, ServeTyped
<1> QED
  BY <1>2, <1>3, <1>4, <1>5 DEF AdminWork, Commits

LEMMA PermissionTyped ==
    ASSUME Typed, NEW q \in Requests, PermissionWork(q), UNCHANGED totpVars
    PROVE  Typed'
<1> USE DEF totpVars
<1> PICK r : r = requests[q]
  OBVIOUS
<1>1. r \in PermitReq
  BY ReqCases DEF Typed, PermissionWork, ChangePermission, AuditPermission
<1>2. PICK new \in ReqType : Serve(q, new) /\ new \notin CeremonyReq
  <2>1. CASE Finish(q)
    BY <2>1, IdleType DEF Finish
  <2>2. CASE ~Finish(q)
    <3>1. Serve(q, [r EXCEPT !.at = "audit"])
      BY <2>2 DEF PermissionWork, ChangePermission, AuditPermission
    <3>2. [r EXCEPT !.at = "audit"] \in PermitReq
      BY <1>1 DEF PermitReq
    <3>3. \A a \in PermitReq : a \in ReqType /\ a \notin CeremonyReq
      BY DEF ReqType, PermitReq, CeremonyReq
    <3> QED
      BY <3>1, <3>2, <3>3
  <2> QED
    BY <2>1, <2>2
<1>3. permits' \in PermitsType
  <2>1. permits \in PermitsType /\ r.target \in Users
    BY <1>1 DEF Typed, PermitReq
  <2>2. CASE ChangePermission(q)
    BY <2>1, <2>2 DEF ChangePermission, PermitsType
  <2>3. ASSUME NEW written \in BOOLEAN, AuditPermission(q, written)
        PROVE  permits' \in PermitsType
    <3>1. permits.net \in [Users -> Int]
      BY <2>1 DEF PermitsType
    <3>2. [permits.net EXCEPT ![r.target] = IF r.op = "permit" THEN @ + 1 ELSE @ - 1] \in [Users -> Int]
      BY <3>1, <2>1
    <3> QED
      BY <2>1, <2>3, <3>2, Zenon DEF AuditPermission, PermitsType
  <2> QED
    BY <2>2, <2>3 DEF PermissionWork
<1>4. UNCHANGED <<identity, ceremonies, sessions>>
  BY DEF PermissionWork, ChangePermission, AuditPermission
<1>5. TablesTyped'
  BY <1>3, <1>4, TypedIsTables DEF TablesTyped, identity
<1>6. ceremonies' \in Seq(CeremonyType) /\ Len(ceremonies') >= Len(ceremonies)
  BY <1>4 DEF Typed
<1> QED
  BY <1>2, <1>5, <1>6, ServeTyped

\* What leaves every session its user and its era, and revives none.
KeepsSessions(s, t) ==
    /\ t \in Seq(SessionType) /\ DOMAIN t = DOMAIN s
    /\ \A i \in DOMAIN s :
         t[i].user = s[i].user /\ t[i].era = s[i].era /\ (t[i].live => s[i].live)

LEMMA SessionSet ==
    ASSUME NEW s \in Seq(SessionType), NEW n, NEW e,
           n \in DOMAIN s => e \in SessionType /\ e.user = s[n].user /\ e.era = s[n].era
                             /\ (e.live => s[n].live)
    PROVE  KeepsSessions(s, [s EXCEPT ![n] = e])
<1> PICK t : t = [s EXCEPT ![n] = e]
  BY Zenon
<1>1. t = [i \in DOMAIN s |-> t[i]]
  BY Zenon
<1>2. \A i \in DOMAIN s : t[i] \in SessionType /\ t[i].user = s[i].user /\ t[i].era = s[i].era
                         /\ (t[i].live => s[i].live)
  OBVIOUS
<1>3. t \in Seq(SessionType) /\ DOMAIN t = DOMAIN s
  BY <1>1, <1>2, InPlace, ZenonT(30)
<1> QED
  BY <1>2, <1>3 DEF KeepsSessions

\* The ways a session's row is updated.
LEMMA SessionUpdates ==
    ASSUME NEW s \in Seq(SessionType), NEW n
    PROVE  /\ KeepsSessions(s, s)
           /\ KeepsSessions(s, [s EXCEPT ![n].live = FALSE])
           /\ KeepsSessions(s, [s EXCEPT ![n].elevated = FALSE])
           /\ \A b \in BOOLEAN : KeepsSessions(s, [s EXCEPT ![n].reverified = b])
           /\ KeepsSessions(s, [s EXCEPT ![n].elevated = TRUE, ![n].gated = FALSE])
           /\ \A u : KeepsSessions(s, RevokeOn(u, s))
<1>1. \A e \in SessionType, b \in BOOLEAN :
        /\ [e EXCEPT !.live = FALSE] \in SessionType
        /\ [e EXCEPT !.elevated = FALSE] \in SessionType
        /\ [e EXCEPT !.reverified = b] \in SessionType
        /\ [e EXCEPT !.elevated = TRUE, !.gated = FALSE] \in SessionType
  BY Zenon DEF SessionType
<1>2. n \in DOMAIN s => s[n] \in SessionType
  OBVIOUS
<1>3. KeepsSessions(s, s)
  BY DEF KeepsSessions
<1>4. KeepsSessions(s, [s EXCEPT ![n].live = FALSE])
  <2>1. KeepsSessions(s, [s EXCEPT ![n] = [s[n] EXCEPT !.live = FALSE]])
    BY <1>1, <1>2, SessionSet, Zenon DEF SessionType
  <2> QED
    BY <2>1
<1>5. KeepsSessions(s, [s EXCEPT ![n].elevated = FALSE])
  <2>1. KeepsSessions(s, [s EXCEPT ![n] = [s[n] EXCEPT !.elevated = FALSE]])
    BY <1>1, <1>2, SessionSet, ZenonT(30) DEF SessionType
  <2> QED
    BY <2>1
<1>6. ASSUME NEW b \in BOOLEAN
      PROVE  KeepsSessions(s, [s EXCEPT ![n].reverified = b])
  <2>1. KeepsSessions(s, [s EXCEPT ![n] = [s[n] EXCEPT !.reverified = b]])
    BY <1>1, <1>2, SessionSet, Zenon DEF SessionType
  <2> QED
    BY <2>1
<1>7. KeepsSessions(s, [s EXCEPT ![n].elevated = TRUE, ![n].gated = FALSE])
  <2>1. KeepsSessions(s, [s EXCEPT ![n] = [s[n] EXCEPT !.elevated = TRUE, !.gated = FALSE]])
    BY <1>1, <1>2, SessionSet, ZenonT(30) DEF SessionType
  <2>2. [s EXCEPT ![n].elevated = TRUE, ![n].gated = FALSE]
          = [s EXCEPT ![n] = [s[n] EXCEPT !.elevated = TRUE, !.gated = FALSE]]
    BY Zenon
  <2> QED
    BY <2>1, <2>2
<1>8. \A u : KeepsSessions(s, RevokeOn(u, s))
  BY RevokeType DEF KeepsSessions
<1> QED
  BY <1>3, <1>4, <1>5, <1>6, <1>7, <1>8

CeremonyOps == {"register", "login", "reverify"}

\* What happens to the sessions outside the trigger: rows are updated, or one is
\* inserted for a user as the user now is.
SessionsGo ==
    \/ KeepsSessions(sessions, sessions')
    \/ \E e \in SessionType : e.era = era[e.user] /\ sessions' = Append(sessions, e)

\* What happens to accounts and passkeys outside administration: a passkey of the
\* user as the user now is may be added, and with it an invited user activated.
AccountsGo ==
    /\ users' \in [Users -> UserType] /\ passkeys' \in [Users -> SUBSET PasskeyType]
    /\ \A v \in Users :
         /\ users'[v].roles = users[v].roles
         /\ \/ users'[v].status = users[v].status
            \/ users[v].status = "invited" /\ users'[v].status = "active" /\ passkeys'[v] # {}
         /\ passkeys[v] \subseteq passkeys'[v]
         /\ \A p \in passkeys'[v] : p \in passkeys[v] \/ p.era = era[v]

\* How a request goes on in its own handler, with the ceremonies there are.
GoesOn(q, ops) ==
    /\ requests[q].op \in ops
    /\ \E new \in ReqType : /\ Serve(q, new) /\ new.op \in ops \cup {"none"}
                            /\ new \in CeremonyReq => new.ceremony <= Len(ceremonies)

LEMMA FinishGoesOn ==
    ASSUME NEW q \in Requests, NEW ops, requests[q].op \in ops, Finish(q)
    PROVE  GoesOn(q, ops)
BY IdleType DEF Finish, GoesOn, Idle

LEMMA SameAccountsGo ==
    ASSUME Typed, UNCHANGED <<users, passkeys>>
    PROVE  AccountsGo
BY DEF Typed, AccountsGo

LEMMA SameSessionsGo ==
    ASSUME Typed, UNCHANGED sessions
    PROVE  SessionsGo
BY SessionUpdates, Zenon DEF Typed, SessionsGo

LEMMA EnrolEffect ==
    ASSUME Typed, NEW q \in Requests, EnrolCredential(q)
    PROVE  GoesOn(q, CeremonyOps) /\ AccountsGo /\ invites' \in Seq(InviteType)
<1> PICK r : r = requests[q]
  OBVIOUS
<1>1. r \in CeremonyReq /\ r.op = "register"
  BY ReqCases DEF Typed, EnrolCredential
<1>2. r.ceremony \in DOMAIN ceremonies /\ r.ceremony \in Nat
  BY <1>1 DEF Typed, CeremonyReq
<1> PICK c : c = ceremonies[r.ceremony]
  OBVIOUS
<1>3. c.user \in Users
  <2>1. c \in CeremonyType
    BY <1>2 DEF Typed
  <2> QED
    BY <2>1 DEF CeremonyType
<1>4. CASE Finish(q) /\ UNCHANGED <<passkeys, invites, users>>
  BY <1>1, <1>4, FinishGoesOn, SameAccountsGo DEF CeremonyOps, Typed
<1>5. CASE ~(Finish(q) /\ UNCHANGED <<passkeys, invites, users>>)
  <2> PICK pk : pk = [id |-> r.ceremony, era |-> era[c.user]]
    BY Zenon
  <2>1. pk \in PasskeyType /\ pk.era = era[c.user]
    BY <1>2, <1>3 DEF PasskeyType, Typed
  <2>2. passkeys' = [passkeys EXCEPT ![c.user] = @ \cup {pk}]
    BY <1>5 DEF EnrolCredential
  <2>3. /\ passkeys' \in [Users -> SUBSET PasskeyType] /\ passkeys'[c.user] # {}
        /\ \A v \in Users : /\ passkeys[v] \subseteq passkeys'[v]
                            /\ \A p \in passkeys'[v] : p \in passkeys[v] \/ p.era = era[v]
    <3>1. passkeys \in [Users -> SUBSET PasskeyType]
      BY DEF Typed
    <3>2. passkeys'[c.user] = passkeys[c.user] \cup {pk}
          /\ \A v \in Users : v # c.user => passkeys'[v] = passkeys[v]
      BY <2>2, <3>1, <1>3
    <3>3. passkeys' \in [Users -> SUBSET PasskeyType]
      BY <2>1, <2>2, <3>1, <1>3, Zenon
    <3> QED
      BY <2>1, <3>2, <3>3, Zenon
  <2>4. CASE c.kind = "enrol"
    <3>1. ConsumeInvite(c.invite, c.user) /\ Serve(q, [r EXCEPT !.at = "session"])
      BY <1>5, <2>4 DEF EnrolCredential
    <3>2. invites' \in Seq(InviteType)
      BY <3>1, UseType DEF ConsumeInvite, Typed
    <3>3. [r EXCEPT !.at = "session"] \in CeremonyReq /\ [r EXCEPT !.at = "session"].op = r.op
          /\ [r EXCEPT !.at = "session"].ceremony = r.ceremony
      BY <1>1 DEF CeremonyReq
    <3>4. r.ceremony <= Len(ceremonies)
      BY <1>1 DEF Typed
    <3>5. GoesOn(q, CeremonyOps)
      BY <3>1, <3>3, <3>4, <1>1, Zenon DEF GoesOn, CeremonyOps, ReqType
    <3>6. users' = [users EXCEPT ![c.user].status = IF @ = "invited" THEN "active" ELSE @]
      BY <3>1, Zenon DEF ConsumeInvite
    <3> PICK new : new = [users[c.user] EXCEPT !.status =
                             IF users[c.user].status = "invited" THEN "active" ELSE users[c.user].status]
      BY Zenon
    <3>7. users[c.user] \in UserType
      BY <1>3 DEF Typed
    <3>8. /\ new \in UserType /\ new.roles = users[c.user].roles
          /\ new.status = IF users[c.user].status = "invited" THEN "active" ELSE users[c.user].status
      BY <3>7, Zenon DEF UserType, Statuses
    <3>9. users' = [users EXCEPT ![c.user] = new]
      BY <3>6, Zenon
    <3>10. users' \in [Users -> UserType] /\ users'[c.user] = new
           /\ \A v \in Users : v # c.user => users'[v] = users[v]
      BY <3>8, <3>9, <1>3, Zenon DEF Typed
    <3>11. AccountsGo
      <4>1. \A v \in Users :
              /\ users'[v].roles = users[v].roles
              /\ \/ users'[v].status = users[v].status
                 \/ users[v].status = "invited" /\ users'[v].status = "active" /\ v = c.user
        BY <3>8, <3>10, ZenonT(30)
      <4> QED
        BY <4>1, <2>3, <3>10, Zenon DEF AccountsGo
    <3> QED
      BY <3>2, <3>5, <3>11
  <2>5. CASE c.kind # "enrol"
    <3>1. Finish(q) /\ UNCHANGED <<users, invites>>
      BY <1>5, <2>5 DEF EnrolCredential
    <3>2. GoesOn(q, CeremonyOps)
      BY <1>1, <3>1, FinishGoesOn DEF CeremonyOps
    <3> QED
      BY <2>3, <3>1, <3>2 DEF AccountsGo, Typed
  <2> QED
    BY <2>4, <2>5
<1> QED
  BY <1>4, <1>5

LEMMA CeremonyEnds ==
    ASSUME NEW s \in Seq(CeremonyType), NEW n
    PROVE  LET t == [s EXCEPT ![n].live = FALSE] IN t \in Seq(CeremonyType) /\ Len(t) = Len(s)
<1>1. \A e \in CeremonyType : [e EXCEPT !.live = FALSE] \in CeremonyType
  BY Zenon DEF CeremonyType
<1>2. n \in DOMAIN s => s[n] \in CeremonyType
  OBVIOUS
<1> PICK e : e = [s[n] EXCEPT !.live = FALSE]
  BY Zenon
<1>3. n \in DOMAIN s => e \in CeremonyType
  BY <1>1, <1>2
<1>4. [s EXCEPT ![n] = e] \in Seq(CeremonyType) /\ Len([s EXCEPT ![n] = e]) = Len(s)
  <2>1. CASE n \in DOMAIN s
    BY <1>3, <2>1
  <2>2. CASE n \notin DOMAIN s
    <3>1. [s EXCEPT ![n] = e] = s
      BY <2>2
    <3> QED
      BY <3>1, Zenon
  <2> QED
    BY <2>1, <2>2
<1> QED
  BY <1>4

LEMMA CeremonyEffect ==
    ASSUME Typed, NEW q \in Requests, CeremonyWork(q)
    PROVE  /\ GoesOn(q, CeremonyOps) /\ AccountsGo /\ SessionsGo
           /\ invites' \in Seq(InviteType)
           /\ ceremonies' \in Seq(CeremonyType) /\ Len(ceremonies') = Len(ceremonies)
           /\ UNCHANGED <<totp, roleLock, policy, era, contended, unguardedLoss>>
<1> USE DEF CeremonyOps
<1> PICK r : r = requests[q]
  OBVIOUS
<1>1. r \in ReqType /\ invites \in Seq(InviteType) /\ ceremonies \in Seq(CeremonyType)
      /\ sessions \in Seq(SessionType)
  BY DEF Typed
<1>2. CASE DeleteCeremony(q)
  <2>1. r \in CeremonyReq /\ r.op \in CeremonyOps
    BY <1>1, <1>2, ReqCases DEF DeleteCeremony
  <2>2. r.ceremony <= Len(ceremonies)
    BY <2>1 DEF Typed
  <2>3. [r EXCEPT !.at = "verify"] \in CeremonyReq /\ [r EXCEPT !.at = "verify"].op = r.op
        /\ [r EXCEPT !.at = "verify"].ceremony = r.ceremony
    BY <2>1 DEF CeremonyReq
  <2>4. GoesOn(q, CeremonyOps)
    BY <1>2, <2>1, <2>2, <2>3, Zenon DEF GoesOn, DeleteCeremony, ReqType
  <2>5. ceremonies' \in Seq(CeremonyType) /\ Len(ceremonies') = Len(ceremonies)
    BY <1>1, <1>2, CeremonyEnds, Zenon DEF DeleteCeremony
  <2> QED
    BY <1>1, <1>2, <2>4, <2>5, SameAccountsGo, SameSessionsGo DEF DeleteCeremony, identity
<1>3. CASE RejectAnswer(q)
  BY <1>1, <1>3, FinishGoesOn, SameAccountsGo, SameSessionsGo DEF RejectAnswer, identity
<1>4. CASE EnrolCredential(q)
  BY <1>1, <1>4, EnrolEffect, SameSessionsGo, Zenon DEF EnrolCredential
<1>5. ASSUME NEW new \in SignInReq
      PROVE  new \in ReqType /\ new.op \in CeremonyOps /\ new \notin CeremonyReq
  BY DEF SignInReq, ReqType, CeremonyReq
<1>6. ASSUME NEW anomalous \in BOOLEAN, VerifyLogin(q, anomalous)
      PROVE  GoesOn(q, CeremonyOps)
  <2>1. CASE Finish(q)
    BY <1>6, <2>1, FinishGoesOn DEF VerifyLogin
  <2>2. CASE ~Finish(q)
    <3> PICK new : new = [op |-> "login", at |-> "session", user |-> r.user,
                          gated |-> anomalous /\ totp[r.user].confirmed]
      BY Zenon
    <3>1. r.op = "login" /\ r.user \in Users
      BY <1>1, <1>6, ReqCases DEF VerifyLogin
    <3>2. new \in SignInReq
      BY <3>1 DEF SignInReq
    <3>3. Serve(q, new)
      BY <1>6, <2>2, Zenon DEF VerifyLogin
    <3> QED
      BY <3>1, <3>2, <3>3, <1>5 DEF GoesOn
  <2> QED
    BY <2>1, <2>2
<1>7. CASE CheckActive(q)
  <2>1. GoesOn(q, CeremonyOps)
    <3>1. CASE Finish(q)
      BY <1>7, <3>1, FinishGoesOn DEF CheckActive
    <3>2. CASE ~Finish(q)
      <4> PICK new : new = [op |-> r.op, at |-> "insert", user |-> r.user,
                            gated |-> r.op = "login" /\ r.gated]
        BY Zenon
      <4>1. r.op \in {"login", "register"} /\ r.user \in Users
        BY <1>1, <1>7, ReqCases DEF CheckActive
      <4>2. new \in SignInReq
        BY <4>1 DEF SignInReq
      <4>3. Serve(q, new)
        BY <1>7, <3>2, Zenon DEF CheckActive
      <4> QED
        BY <4>1, <4>2, <4>3, <1>5 DEF GoesOn
    <3> QED
      BY <3>1, <3>2
  <2> QED
    BY <1>1, <1>7, <2>1, SameAccountsGo, SameSessionsGo, Zenon DEF CheckActive, identity
<1>8. CASE InsertSession(q)
  <2>1. r \in SignInReq /\ r.op \in CeremonyOps
    BY <1>1, <1>8, ReqCases DEF InsertSession
  <2> PICK e : e = [user |-> r.user, live |-> TRUE, gated |-> r.gated, elevated |-> FALSE,
                    reverified |-> FALSE, era |-> era[r.user]]
    BY Zenon
  <2>2. e \in SessionType /\ e.era = era[e.user]
    BY <2>1, Zenon DEF SessionType, SignInReq, Typed
  <2>3. sessions' = Append(sessions, e)
    BY <1>8 DEF InsertSession
  <2>4. SessionsGo
    BY <2>2, <2>3 DEF SessionsGo
  <2>5. GoesOn(q, CeremonyOps)
    BY <1>8, <2>1, FinishGoesOn DEF InsertSession
  <2> QED
    BY <1>1, <1>8, <2>4, <2>5, SameAccountsGo, Zenon DEF InsertSession, identity
<1>9. CASE RecordReverify(q)
  <2>1. SessionsGo
    BY <1>1, <1>9, SessionUpdates, Zenon DEF RecordReverify, SessionsGo
  <2>2. GoesOn(q, CeremonyOps)
    BY <1>9, FinishGoesOn DEF RecordReverify
  <2> QED
    BY <1>1, <1>9, <2>1, <2>2, SameAccountsGo DEF RecordReverify, identity
<1>10. ASSUME NEW anomalous \in BOOLEAN, VerifyLogin(q, anomalous)
       PROVE  UNCHANGED <<identity, ceremonies, sessions, policy>>
  BY <1>10, Zenon DEF VerifyLogin
<1>11. CASE \E anomalous \in BOOLEAN : VerifyLogin(q, anomalous)
  BY <1>1, <1>6, <1>10, <1>11, SameAccountsGo, SameSessionsGo DEF identity
<1> QED
  BY <1>2, <1>3, <1>4, <1>7, <1>8, <1>9, <1>11 DEF CeremonyWork

LEMMA SessionsGoTyped ==
    ASSUME sessions \in Seq(SessionType), SessionsGo
    PROVE  sessions' \in Seq(SessionType)
BY Appended, SMTT(30) DEF SessionsGo, KeepsSessions

LEMMA CeremonyTyped ==
    ASSUME Typed, NEW q \in Requests, CeremonyWork(q), UNCHANGED totpVars
    PROVE  Typed'
<1>1. TablesTyped'
  BY CeremonyEffect, SessionsGoTyped, TypedIsTables DEF TablesTyped, AccountsGo, totpVars, policy
<1>2. ceremonies' \in Seq(CeremonyType) /\ Len(ceremonies') >= Len(ceremonies)
  BY CeremonyEffect
<1> QED
  BY <1>1, <1>2, CeremonyEffect, ServeTyped DEF GoesOn

\* The steps that are a single statement and serve no request.
Quiet == UNCHANGED <<requests, passkeys, totp, roleLock, permits, era, unguardedLoss>>
FirstAdmin(u) ==
    /\ \A v \in Users : users[v].status = "absent"
    /\ users' = [users EXCEPT ![u] = [status |-> "invited", roles |-> {"admin"}]]
SingleGoes ==
    /\ Quiet
    /\ users' \in [Users -> UserType]
    /\ UNCHANGED users \/ \E u \in Users : FirstAdmin(u)
    /\ KeepsSessions(sessions, sessions')
    /\ invites' \in Seq(InviteType)
    /\ ceremonies' \in Seq(CeremonyType) /\ Len(ceremonies') >= Len(ceremonies)

LEMMA SingleEffect ==
    ASSUME Typed, SingleStep
    PROVE  SingleGoes
<1> USE DEF policy, identity, Quiet
<1>0. KeepsSessions(sessions, sessions)
  BY SessionUpdates, Zenon DEF Typed
<1>1. /\ users \in [Users -> UserType] /\ invites \in Seq(InviteType)
      /\ ceremonies \in Seq(CeremonyType) /\ Len(ceremonies) \in Nat
      /\ sessions \in Seq(SessionType)
      /\ era \in [Users -> Nat]
  BY DEF Typed
<1>2. ASSUME NEW kind \in {"add", "enrol", "login", "reverify"}, NEW u \in Users, NEW i \in Nat,
             OpenCeremony(kind, u, i)
      PROVE  ceremonies' \in Seq(CeremonyType) /\ Len(ceremonies') >= Len(ceremonies)
  <2> PICK e : e = [kind |-> kind, user |-> u, invite |-> i, live |-> TRUE, era |-> era[u]]
    BY Zenon
  <2>1. e \in CeremonyType
    BY <1>1 DEF CeremonyType
  <2>2. ceremonies' = Append(ceremonies, e)
    BY <1>2 DEF OpenCeremony
  <2>3. ceremonies' \in Seq(CeremonyType) /\ Len(ceremonies') = Len(ceremonies) + 1
    BY <1>1, <2>1, <2>2, Appended
  <2> QED
    BY <1>1, <2>3
<1>3. ASSUME NEW s \in DOMAIN sessions, RegisterBeginSignedIn(s) \/ ReverifyBegin(s)
      PROVE  Quiet /\ UNCHANGED <<users, sessions, invites>>
             /\ ceremonies' \in Seq(CeremonyType) /\ Len(ceremonies') >= Len(ceremonies)
  <2>1. sessions[s] \in SessionType
    BY <1>1
  <2>2. sessions[s].user \in Users
    BY <2>1 DEF SessionType
  <2> QED
    BY <1>2, <1>3, <2>2 DEF RegisterBeginSignedIn, ReverifyBegin
<1>4. ASSUME NEW s \in DOMAIN sessions, Logout(s) \/ LogoutEverywhere(s) \/ SessionLapses(s)
      PROVE  Quiet /\ UNCHANGED <<users, ceremonies, invites>> /\ KeepsSessions(sessions, sessions')
  BY <1>1, <1>4, SessionUpdates, Zenon DEF Logout, LogoutEverywhere, SessionLapses
<1>5. ASSUME NEW s \in DOMAIN sessions, NEW actions, UpdateConfiguration(s, actions)
      PROVE  Quiet /\ UNCHANGED <<users, ceremonies, invites, sessions>>
  BY <1>5 DEF UpdateConfiguration
<1>6. ASSUME NEW i \in DOMAIN invites, RegisterBeginInvited(i)
      PROVE  Quiet /\ UNCHANGED <<users, sessions, invites>>
             /\ ceremonies' \in Seq(CeremonyType) /\ Len(ceremonies') >= Len(ceremonies)
  <2>1. invites[i] \in InviteType /\ i \in Nat
    BY <1>1
  <2>2. invites[i].user \in Users
    BY <2>1 DEF InviteType
  <2> QED
    BY <1>2, <1>6, <2>1, <2>2 DEF RegisterBeginInvited
<1>7. ASSUME NEW i \in DOMAIN invites, InviteExpires(i)
      PROVE  Quiet /\ UNCHANGED <<users, ceremonies, sessions>> /\ invites' \in Seq(InviteType)
  <2>1. invites' = [invites EXCEPT ![i] = [invites[i] EXCEPT !.expired = TRUE]]
    BY <1>7 DEF InviteExpires
  <2>2. invites[i] \in InviteType
    BY <1>1
  <2>3. [invites[i] EXCEPT !.expired = TRUE] \in InviteType
    BY <2>2, Zenon DEF InviteType
  <2> QED
    BY <1>1, <1>7, <2>1, <2>3 DEF InviteExpires
<1>8. ASSUME NEW c \in DOMAIN ceremonies, CeremonyExpires(c)
      PROVE  Quiet /\ UNCHANGED <<users, sessions, invites>>
             /\ ceremonies' \in Seq(CeremonyType) /\ Len(ceremonies') >= Len(ceremonies)
  BY <1>1, <1>8, CeremonyEnds DEF CeremonyExpires
<1>9. ASSUME NEW u \in Users, LoginBegin(u)
      PROVE  Quiet /\ UNCHANGED <<users, sessions, invites>>
             /\ ceremonies' \in Seq(CeremonyType) /\ Len(ceremonies') >= Len(ceremonies)
  BY <1>2, <1>9 DEF LoginBegin
<1>10. ASSUME NEW u \in Users, BootstrapCreate(u)
       PROVE  /\ Quiet /\ UNCHANGED <<sessions, ceremonies>> /\ invites' \in Seq(InviteType)
              /\ users' \in [Users -> UserType]
              /\ FirstAdmin(u)
  <2>1. [status |-> "invited", roles |-> {"admin"}] \in UserType
    BY DEF UserType, Statuses, Roles
  <2>2. invites' \in Seq(InviteType)
    BY <1>1, <1>10, NewInviteType, Appended DEF BootstrapCreate
  <2> QED
    BY <1>1, <1>10, <2>1, <2>2 DEF BootstrapCreate, FirstAdmin
<1>11. ASSUME NEW u \in Users, BootstrapReissue(u)
       PROVE  Quiet /\ UNCHANGED <<users, sessions, ceremonies>> /\ invites' \in Seq(InviteType)
  <2>1. Use(invites, UnusedInvites(u)) \in Seq(InviteType)
    BY <1>1, UseType
  <2>2. invites' \in Seq(InviteType)
    BY <1>11, <2>1, NewInviteType, Appended DEF BootstrapReissue
  <2> QED
    BY <1>11, <2>2 DEF BootstrapReissue
<1> HIDE DEF policy, identity, Quiet
<1>12. ASSUME Quiet, UNCHANGED <<users, invites>>, KeepsSessions(sessions, sessions'),
              ceremonies' \in Seq(CeremonyType), Len(ceremonies') >= Len(ceremonies)
       PROVE  SingleGoes
  BY <1>1, <1>12 DEF SingleGoes
<1>13. UNCHANGED ceremonies => ceremonies' \in Seq(CeremonyType) /\ Len(ceremonies') >= Len(ceremonies)
  BY <1>1
<1>14. UNCHANGED sessions => KeepsSessions(sessions, sessions')
  BY <1>0
<1>15. ASSUME NEW s \in DOMAIN sessions,
              \/ RegisterBeginSignedIn(s) \/ ReverifyBegin(s)
              \/ Logout(s) \/ LogoutEverywhere(s) \/ SessionLapses(s)
              \/ \E actions \in SUBSET {AddPasskey, "unknown"} : UpdateConfiguration(s, actions)
       PROVE  SingleGoes
  BY <1>3, <1>4, <1>5, <1>12, <1>13, <1>14, <1>15
<1>16. ASSUME NEW i \in DOMAIN invites, RegisterBeginInvited(i) \/ InviteExpires(i)
       PROVE  SingleGoes
  BY <1>1, <1>6, <1>7, <1>12, <1>13, <1>14, <1>16 DEF SingleGoes
<1>17. ASSUME NEW c \in DOMAIN ceremonies, CeremonyExpires(c)
       PROVE  SingleGoes
  BY <1>8, <1>12, <1>14, <1>17
<1>18. ASSUME NEW u \in Users, LoginBegin(u) \/ BootstrapCreate(u) \/ BootstrapReissue(u)
       PROVE  SingleGoes
  BY <1>1, <1>9, <1>10, <1>11, <1>12, <1>13, <1>14, <1>18 DEF SingleGoes
<1> QED
  BY <1>15, <1>16, <1>17, <1>18 DEF SingleStep

LEMMA SingleTyped ==
    ASSUME Typed, SingleStep, UNCHANGED totpVars
    PROVE  Typed'
<1>1. SingleGoes
  BY SingleEffect
<1>2. TablesTyped'
  BY <1>1, TypedIsTables, Zenon DEF TablesTyped, SingleGoes, Quiet, KeepsSessions, totpVars
<1>3. \A q \in Requests : requests'[q] \in CeremonyReq => requests'[q].ceremony <= Len(ceremonies')
  <2> SUFFICES ASSUME NEW q \in Requests, requests'[q] \in CeremonyReq
               PROVE  requests'[q].ceremony <= Len(ceremonies')
    OBVIOUS
  <2>1. requests' = requests /\ Len(ceremonies') >= Len(ceremonies)
        /\ Len(ceremonies') \in Nat /\ Len(ceremonies) \in Nat
    BY <1>1 DEF SingleGoes, Quiet, Typed
  <2>2. requests[q].ceremony <= Len(ceremonies) /\ requests[q].ceremony \in Nat
    BY <2>1 DEF Typed, CeremonyReq
  <2> QED
    BY <2>1, <2>2
<1> QED
  BY <1>1, <1>2, <1>3 DEF Typed, TablesTyped, SingleGoes, Quiet

\* A TOTP request's own step: what it may change, apart from the TOTP rows.
TotpGoes(q) ==
    /\ GoesOn(q, TotpOps \cup {"none"})
    /\ KeepsSessions(sessions, sessions')
    /\ UNCHANGED <<users, passkeys, invites, ceremonies, roleLock, permits, era, unguardedLoss>>

LEMMA TotpReqGoes ==
    ASSUME NEW new \in TotpReq
    PROVE  new \in ReqType /\ new.op \in TotpOps /\ new \notin CeremonyReq
           /\ \A at \in {"store", "fail", "succeed", "elevate"} : [new EXCEPT !.at = at] \in TotpReq
BY DEF TotpReq, ReqType, CeremonyReq, TotpOps

LEMMA AskTotpEffect ==
    ASSUME Typed, NEW q \in Requests, NEW op \in TotpOps, NEW s \in DOMAIN sessions,
           NEW code \in Codes, BeginTotp(q, op, s, code)
    PROVE  TotpGoes(q)
<1> PICK new : new = [op |-> op, at |-> "load", user |-> sessions[s].user, session |-> s,
                      code |-> code, reverified |-> sessions[s].reverified]
  BY Zenon
<1>1. sessions[s] \in SessionType /\ s \in Nat
  BY DEF Typed
<1>2. new \in TotpReq
  BY <1>1, Zenon DEF TotpReq, SessionType
<1>3. Serve(q, new) /\ requests[q].op = "none"
  <2>1. requests[q] = Idle /\ Serve(q, new)
    BY DEF BeginTotp, Start, CanStart
  <2> QED
    BY <2>1, SMTT(30) DEF Idle
<1>4. GoesOn(q, TotpOps \cup {"none"})
  BY <1>2, <1>3, TotpReqGoes, Zenon DEF GoesOn
<1>5. KeepsSessions(sessions, sessions)
  BY SessionUpdates, Zenon DEF Typed
<1> QED
  BY <1>4, <1>5 DEF TotpGoes, BeginTotp, identity, policy

LEMMA TotpEffect ==
    ASSUME Typed, NEW q \in Requests, TotpWork(q)
    PROVE  TotpGoes(q) /\ requests[q] \in TotpReq
<1> PICK r : r = requests[q]
  OBVIOUS
<1>1. r.op \in TotpOps
  BY Zenon DEF TotpWork, CheckReplacement, StoreUnconfirmed, LoadAndVerify, RecordFailure,
         ConfirmSecret, RecordSuccess, RecordStepUp, TotpOps
<1>2. r \in TotpReq
  BY <1>1, ReqCases DEF Typed
<1>3. GoesOn(q, TotpOps \cup {"none"})
  <2>1. CASE Finish(q)
    BY <1>1, <2>1, FinishGoesOn
  <2>2. CASE ~Finish(q)
    <3>1. PICK at \in {"store", "fail", "succeed", "elevate"} : Serve(q, [r EXCEPT !.at = at])
      BY <2>2, Zenon DEF TotpWork, CheckReplacement, StoreUnconfirmed, LoadAndVerify, RecordFailure,
                  ConfirmSecret, RecordSuccess, RecordStepUp
    <3>2. [r EXCEPT !.at = at] \in TotpReq
      BY <1>2, TotpReqGoes, Zenon
    <3> QED
      BY <1>1, <3>1, <3>2, TotpReqGoes, Zenon DEF GoesOn
  <2> QED
    BY <2>1, <2>2
<1>4. sessions \in Seq(SessionType)
  BY DEF Typed
<1>5. KeepsSessions(sessions, sessions')
  <2>1. sessions' = sessions \/ RecordStepUp(q)
    BY Zenon DEF TotpWork, CheckReplacement, StoreUnconfirmed, LoadAndVerify, RecordFailure,
           ConfirmSecret, RecordSuccess, otherTables
  <2>2. KeepsSessions(sessions, sessions)
        /\ KeepsSessions(sessions, [sessions EXCEPT ![r.session].elevated = TRUE,
                                                    ![r.session].gated = FALSE])
    BY <1>4, SessionUpdates, Zenon
  <2>3. CASE sessions' = sessions
    BY <2>2, <2>3
  <2>4. CASE RecordStepUp(q) /\ sessions' # sessions
    <3>1. sessions' = [sessions EXCEPT ![r.session].elevated = TRUE, ![r.session].gated = FALSE]
      BY <2>4 DEF RecordStepUp
    <3> QED
      BY <2>2, <3>1
  <2> QED
    BY <2>1, <2>3, <2>4
<1>6. UNCHANGED <<users, passkeys, invites, ceremonies, roleLock, permits, era, unguardedLoss>>
  BY Zenon DEF TotpWork, CheckReplacement, StoreUnconfirmed, LoadAndVerify, RecordFailure,
         ConfirmSecret, RecordSuccess, RecordStepUp, otherTables, identity, policy
<1> QED
  BY <1>2, <1>3, <1>5, <1>6 DEF TotpGoes

\* The TOTP rows keep their type.
LEMMA TotpRowsTyped ==
    ASSUME Typed, NEW q \in Requests,
           TotpWork(q) \/ \E op \in TotpOps, s \in DOMAIN sessions, code \in Codes :
                              BeginTotp(q, op, s, code)
    PROVE  totp' \in [Users -> TotpType] /\ guesses' \in [Users -> Nat] /\ secretsMade' \in Nat
<1>1. totp \in [Users -> TotpType] /\ guesses \in [Users -> Nat] /\ secretsMade \in Nat
  BY DEF Typed
<1>2. ASSUME UNCHANGED totp, guesses' = guesses, secretsMade' = secretsMade
      PROVE  totp' \in [Users -> TotpType] /\ guesses' \in [Users -> Nat] /\ secretsMade' \in Nat
  BY <1>1, <1>2
<1>3. CASE ~TotpWork(q)
  BY <1>2, <1>3, Zenon DEF BeginTotp, identity
<1>4. CASE TotpWork(q)
  <2> PICK r : r = requests[q]
    OBVIOUS
  <2>1. r \in TotpReq
    BY <1>4, TotpEffect
  <2>2. r.user \in Users /\ r.code.step \in Nat
    <3>1. r.user \in Users /\ r.code \in Codes
      BY <2>1 DEF TotpReq
    <3>2. \A c \in Codes : c.step \in Nat
      BY StepUpAssumption DEF Codes, WrongCode
    <3> QED
      BY <3>1, <3>2, Zenon
  <2>3. totp[r.user] \in TotpType
    BY <1>1, <2>2
  <2>4. guesses' \in [Users -> Nat]
    <3>1. \/ UNCHANGED guesses \/ guesses' = [guesses EXCEPT ![r.user] = 0]
          \/ guesses' = [guesses EXCEPT ![r.user] = @ + 1]
      BY <1>4, Zenon DEF TotpWork, CheckReplacement, StoreUnconfirmed, LoadAndVerify, RecordFailure,
                  ConfirmSecret, RecordSuccess, RecordStepUp, totpVars
    <3> QED
      BY <1>1, <2>2, <3>1
  <2>5. secretsMade' \in Nat
    <3>1. secretsMade' \in {secretsMade, secretsMade + 1}
      BY <1>4, Zenon DEF TotpWork, CheckReplacement, StoreUnconfirmed, LoadAndVerify, RecordFailure,
                  ConfirmSecret, RecordSuccess, RecordStepUp, totpVars
    <3> QED
      BY <1>1, <3>1
  <2>6. ASSUME NEW row \in TotpType, totp' = [totp EXCEPT ![r.user] = row]
        PROVE  totp' \in [Users -> TotpType]
    BY <1>1, <2>2, <2>6
  <2>7. totp' \in [Users -> TotpType]
    <3>1. CASE UNCHANGED totp
      BY <1>1, <3>1
    <3>2. CASE StoreUnconfirmed(q)
      <4>1. totp' = [totp EXCEPT ![r.user] = [totp[r.user] EXCEPT !.pending = secretsMade + 1]]
        BY <3>2 DEF StoreUnconfirmed
      <4>2. [totp[r.user] EXCEPT !.pending = secretsMade + 1] \in TotpType
        BY <1>1, <2>3 DEF TotpType
      <4> QED
        BY <4>1, <4>2, <2>6, Zenon
    <3>3. CASE RecordFailure(q) /\ ~UNCHANGED totp
      <4> PICK lock : lock = (totp[r.user].locked \/ totp[r.user].failed + 1 >= MaxFailures)
        OBVIOUS
      <4> PICK row : row = [totp[r.user] EXCEPT !.failed = totp[r.user].failed + 1, !.locked = lock]
        OBVIOUS
      <4>1. totp' = [totp EXCEPT ![r.user] = row]
        BY <3>3, Zenon DEF RecordFailure
      <4>2. row \in TotpType
        <5>1. lock \in BOOLEAN
          OBVIOUS
        <5>2. totp[r.user].failed + 1 \in Nat
          BY <2>3 DEF TotpType
        <5>3. \A t \in TotpType, n \in Nat, b \in BOOLEAN :
                [t EXCEPT !.failed = n, !.locked = b] \in TotpType
          BY Zenon DEF TotpType
        <5> QED
          BY <5>1, <5>2, <5>3, <2>3, Zenon
      <4> QED
        BY <4>1, <4>2, <2>6, Zenon
    <3>4. CASE ConfirmSecret(q) /\ ~UNCHANGED totp
      <4> PICK row : row = [secret |-> totp[r.user].pending, pending |-> 0, confirmed |-> TRUE,
                            failed |-> 0, locked |-> FALSE, lastStep |-> r.code.step]
        BY Zenon
      <4>1. totp' = [totp EXCEPT ![r.user] = row]
        BY <3>4 DEF ConfirmSecret
      <4>2. row \in TotpType
        BY <2>2, <2>3, Zenon DEF TotpType
      <4> QED
        BY <4>1, <4>2, <2>6, Zenon
    <3>5. ASSUME NEW stored \in BOOLEAN, RecordSuccess(q, stored), ~UNCHANGED totp
          PROVE  totp' \in [Users -> TotpType]
      <4> PICK row : row = [totp[r.user] EXCEPT !.failed = 0, !.locked = FALSE,
                                                !.lastStep = r.code.step]
        OBVIOUS
      <4>1. totp' = [totp EXCEPT ![r.user] = row]
        BY <3>5, Zenon DEF RecordSuccess
      <4>2. row \in TotpType
        BY <2>2, <2>3, Zenon DEF TotpType
      <4> QED
        BY <4>1, <4>2, <2>6, Zenon
    <3>6. CheckReplacement(q) \/ LoadAndVerify(q) \/ RecordStepUp(q) => UNCHANGED totp
      BY Zenon DEF CheckReplacement, LoadAndVerify, RecordStepUp, identity
    <3> QED
      BY <1>4, <3>1, <3>2, <3>3, <3>4, <3>5, <3>6 DEF TotpWork
  <2> QED
    BY <2>4, <2>5, <2>7
<1> QED
  BY <1>3, <1>4

LEMMA TypedNext ==
    ASSUME Typed, [AccountsNext]_allVars
    PROVE  Typed'
<1>1. CASE UNCHANGED allVars
  BY <1>1 DEF Typed, allVars, vars, policy, totpVars, CeremonyReq
<1>2. ASSUME NEW q \in Requests, AskTotp(q) \/ TotpWork(q)
      PROVE  Typed'
  <2>1. TotpGoes(q)
    BY <1>2, AskTotpEffect, TotpEffect DEF AskTotp
  <2>2. totp' \in [Users -> TotpType] /\ guesses' \in [Users -> Nat] /\ secretsMade' \in Nat
    BY <1>2, TotpRowsTyped DEF AskTotp
  <2>3. TablesTyped'
    BY <2>1, <2>2, TypedIsTables, Zenon DEF TablesTyped, TotpGoes, KeepsSessions
  <2>4. ceremonies' \in Seq(CeremonyType) /\ Len(ceremonies') >= Len(ceremonies)
    BY <2>1 DEF TotpGoes, Typed
  <2> QED
    BY <2>1, <2>3, <2>4, ServeTyped, Zenon DEF TotpGoes, GoesOn
<1>3. CASE Tick
  BY <1>3 DEF Tick, Typed, vars, policy, CeremonyReq
<1>4. ASSUME NEW u \in Users, LockOpens(u)
      PROVE  Typed'
  <2>1. totp[u] \in TotpType /\ totp' = [totp EXCEPT ![u] = [totp[u] EXCEPT !.locked = FALSE]]
    BY <1>4 DEF LockOpens, Typed
  <2>2. [totp[u] EXCEPT !.locked = FALSE] \in TotpType
    BY <2>1, Zenon DEF TotpType
  <2>3. totp' \in [Users -> TotpType] /\ guesses' \in [Users -> Nat]
    BY <1>4, <2>1, <2>2 DEF LockOpens, Typed
  <2> QED
    BY <1>4, <2>3 DEF LockOpens, Typed, otherTables, policy
<1> QED
  BY <1>1, <1>2, <1>3, <1>4, AskTyped, AdminTyped, PermissionTyped, CeremonyTyped, SingleTyped
     DEF AccountsNext

=============================================================================
