------------------------------ MODULE Accounts ------------------------------
(* The accounts of the service: users and their roles, invitations, passkey     *)
(* ceremonies, passkeys and sessions, and the requests that work on them        *)
(* (src/src/api/auth_*, src/src/auth, the auth.* functions of src/migrations).  *)
(*                                                                              *)
(* A request is a record that moves through the statements of its handler: each *)
(* action below is one database transaction, or one statement where a handler   *)
(* reads and writes in separate statements and another request may run between. *)
(* Expiry (an invitation, a session, an elevation) is an action of its own that *)
(* may happen at any time. A passkey is named by the ceremony it was made in.   *)
EXTENDS Integers, Sequences, FiniteSets

CONSTANTS Users, Requests, NoRequest,
          MaxInvites, MaxCeremonies, MaxSessions, MaxRequests  \* bounds

ASSUME AccountsAssumption ==
    /\ NoRequest \notin Requests /\ IsFiniteSet(Requests)
    /\ {MaxInvites, MaxCeremonies, MaxSessions, MaxRequests} \subseteq Nat

VARIABLES
    users,        \* auth.users and auth.user_roles: [status, roles] per user
    passkeys,     \* auth.webauthn_credentials: a set of [id, era] per user
    totp,         \* auth.totp_credentials: a row or NoTotp per user
    invites,      \* auth.user_invites, in order of creation
    ceremonies,   \* the ceremony stores, in order of creation
    sessions,     \* auth.sessions, in order of creation
    requests,     \* the request each worker is serving
    roleLock,     \* the request that holds the row lock on the admin role
    config,       \* auth.step_up_actions: the actions that need an elevation
    permits,      \* auth.user_permissions: who holds the grantable permission, what
                  \* the audit log says of it, and whether an audit write failed
    started,      \* how many requests have been started
    era,          \* history: how often each user has been deactivated
    contended,    \* history: users two administrative requests overlapped on
    unguardedLoss \* history: an active admin was removed without a guard

identity == <<users, passkeys, totp, invites, era, contended, unguardedLoss, roleLock>>
policy == <<config, permits>>
vars == <<users, passkeys, totp, invites, ceremonies, sessions, requests, roleLock,
          policy, started, era, contended, unguardedLoss>>

Statuses == {"absent", "invited", "active", "deactivated"}
Roles == {"admin", "onboarding"}
IssuingOps == {"invite", "reactivate", "recover"}
AdminOps == IssuingOps \cup {"deactivate", "grant", "revoke"}
AddPasskey == "add_passkey"

NoTotp == [secret |-> 0, pending |-> 0, confirmed |-> FALSE, failed |-> 0,
           locked |-> FALSE, lastStep |-> 0]
Idle == [op |-> "none"]

ActiveAdmins == {u \in Users : users[u].status = "active" /\ "admin" \in users[u].roles}

\* auth.resolve_session: the session is unrevoked, unexpired, not idle, and its
\* user is active.
Resolves(s) == sessions[s].live /\ users[sessions[s].user].status = "active"

\* The AuthenticatedUser extractor: a session gated at login reaches only the
\* step-up route.
Authenticates(s, op) == Resolves(s) /\ (sessions[s].gated => op = "step_up")

CanStart(q) == requests[q] = Idle /\ started < MaxRequests
Serve(q, r) == requests' = [requests EXCEPT ![q] = r]
Start(q, r) == Serve(q, r) /\ started' = started + 1
Finish(q) == Serve(q, Idle)
-----------------------------------------------------------------------------
(* Administration: inviting, deactivating, reactivating and recovering an       *)
(* account, granting and revoking a role.                                       *)

\* The extractor and require_permission; users.manage and users.manage_roles
\* belong to the admin role alone. Nobody deactivates or re-roles themselves.
BeginAdmin(q, op, s, target, role) ==
    /\ CanStart(q)
    /\ Authenticates(s, op)
    /\ "admin" \in users[sessions[s].user].roles
    /\ op \in {"deactivate", "grant", "revoke"} => target # sessions[s].user
    /\ Start(q, [op |-> op, at |-> "begun", target |-> target, role |-> role])
    /\ UNCHANGED <<identity, ceremonies, sessions, policy>>

\* What the handler's first SELECT on the target must find for it to go on.
Acceptable(r, t) ==
    CASE r.op = "deactivate" -> t.status \in {"invited", "active"}
      [] r.op = "reactivate" -> t.status = "deactivated"
      [] r.op = "recover"    -> t.status = "active"
      [] r.op = "invite"     -> \/ t.status = "absent"
                                \/ t.status = "invited" /\ passkeys[r.target] = {}
      [] r.op = "grant"      -> t.status # "absent" /\ r.role \notin t.roles
      [] r.op = "revoke"     -> t.status # "absent" /\ r.role \in t.roles

\* When remaining_active_admins_excluding is asked.
NeedsGuard(r, t) ==
    \/ r.op = "deactivate" /\ t.status = "active" /\ "admin" \in t.roles
    \/ r.op = "revoke" /\ r.role = "admin"

InFlightOn(u, q) ==
    {p \in Requests \ {q} : /\ requests[p].op \in AdminOps
                            /\ requests[p].at # "begun"
                            /\ requests[p].target = u}

ReadTarget(q) ==
    LET r == requests[q]
        t == users[r.target]
    IN /\ r.op \in AdminOps /\ r.at = "begun"
       /\ IF Acceptable(r, t)
          THEN /\ Serve(q, [op |-> r.op, target |-> r.target, role |-> r.role,
                            at |-> IF NeedsGuard(r, t) THEN "guard" ELSE "write",
                            status |-> t.status, retire |-> {}, guarded |-> FALSE])
               /\ contended' = IF InFlightOn(r.target, q) # {}
                               THEN contended \cup {r.target} ELSE contended
          ELSE Finish(q) /\ UNCHANGED contended
       /\ UNCHANGED <<users, passkeys, totp, invites, ceremonies, sessions, roleLock,
                      policy, started, era, unguardedLoss>>

\* Mutant: counts without taking the lock.
GuardLastAdminUnlocked(q) ==
    LET r == requests[q]
    IN /\ r.op \in AdminOps /\ r.at = "guard"
       /\ IF ActiveAdmins \ {r.target} = {}
          THEN Finish(q) /\ UNCHANGED roleLock
          ELSE /\ Serve(q, [r EXCEPT !.at = "write", !.guarded = TRUE])
               /\ roleLock' = q
       /\ UNCHANGED <<users, passkeys, totp, invites, ceremonies, sessions, policy,
                      started, era, contended, unguardedLoss>>

\* remaining_active_admins_excluding: waits for the admin role's row lock, held
\* to the end of the transaction, and only then counts.
GuardLastAdmin(q) ==
    LET r == requests[q]
    IN /\ r.op \in AdminOps /\ r.at = "guard"
       /\ roleLock = NoRequest
       /\ IF ActiveAdmins \ {r.target} = {}
          THEN Finish(q) /\ UNCHANGED roleLock
          ELSE /\ Serve(q, [r EXCEPT !.at = "write", !.guarded = TRUE])
               /\ roleLock' = q
       /\ UNCHANGED <<users, passkeys, totp, invites, ceremonies, sessions, policy,
                      started, era, contended, unguardedLoss>>

UnusedInvites(u) == {i \in DOMAIN invites : invites[i].user = u /\ ~invites[i].used}

\* invite.rs reissues in two statements: the outstanding invitations are chosen
\* here, before the lock on them is won.
RetireInvites(q) ==
    LET r == requests[q]
    IN /\ r.op = "invite" /\ r.at = "write" /\ r.status = "invited"
       /\ Serve(q, [r EXCEPT !.at = "retired", !.retire = UnusedInvites(r.target)])
       /\ UNCHANGED <<identity, ceremonies, sessions, policy, started>>

Use(seq, ids) == [i \in DOMAIN seq |-> [seq[i] EXCEPT !.used = @ \/ i \in ids]]
NewInvite(u) == [user |-> u, used |-> FALSE, expired |-> FALSE]

Commit(q) ==
    /\ Finish(q)
    /\ roleLock' = IF roleLock = q THEN NoRequest ELSE roleLock
    /\ UNCHANGED <<ceremonies, policy, started, contended>>

RecordLoss(q) ==
    unguardedLoss' =
        (unguardedLoss \/ (~requests[q].guarded /\ ActiveAdmins \ ActiveAdmins' # {}))

\* The trigger on the transition into deactivated: passkeys and TOTP rows are
\* deleted, invitations used up, sessions revoked.
RevokeOn(u, seq) == [i \in DOMAIN seq |->
                        [seq[i] EXCEPT !.live = @ /\ seq[i].user # u]]
\* Mutant: the sessions are left to expire.
DeactivationTriggerKeepsSessions(u) ==
    /\ passkeys' = [passkeys EXCEPT ![u] = {}]
    /\ totp' = [totp EXCEPT ![u] = NoTotp]
    /\ era' = [era EXCEPT ![u] = @ + 1]
    /\ UNCHANGED sessions
DeactivationTrigger(u) ==
    /\ passkeys' = [passkeys EXCEPT ![u] = {}]
    /\ totp' = [totp EXCEPT ![u] = NoTotp]
    /\ sessions' = RevokeOn(u, sessions)
    /\ era' = [era EXCEPT ![u] = @ + 1]

\* auth.set_user_status puts no condition on the old status; a second
\* deactivation is no transition, so it does not fire the trigger.
CommitDeactivate(q) ==
    LET r == requests[q]
    IN /\ r.op = "deactivate" /\ r.at = "write"
       /\ users' = [users EXCEPT ![r.target].status = "deactivated"]
       /\ IF users[r.target].status # "deactivated"
          THEN /\ DeactivationTrigger(r.target)
               /\ invites' = Use(invites, UnusedInvites(r.target))
          ELSE UNCHANGED <<passkeys, totp, sessions, era, invites>>
       /\ RecordLoss(q)
       /\ Commit(q)

CommitReactivate(q) ==
    LET r == requests[q]
    IN /\ r.op = "reactivate" /\ r.at = "write"
       /\ Len(invites) < MaxInvites
       /\ users' = [users EXCEPT ![r.target].status = "invited"]
       /\ invites' = Append(invites, NewInvite(r.target))
       /\ RecordLoss(q)
       /\ Commit(q)
       /\ UNCHANGED <<passkeys, totp, sessions, era>>

\* recover_account_tx: deactivated, so that the trigger fires, then invited, in
\* one transaction; no count of the remaining admins.
CommitRecover(q) ==
    LET r == requests[q]
        deactivates == users[r.target].status # "deactivated"
    IN /\ r.op = "recover" /\ r.at = "write"
       /\ Len(invites) < MaxInvites
       /\ users' = [users EXCEPT ![r.target].status = "invited"]
       /\ IF deactivates THEN DeactivationTrigger(r.target)
                         ELSE UNCHANGED <<passkeys, totp, sessions, era>>
       /\ invites' = Append(Use(invites, IF deactivates THEN UnusedInvites(r.target) ELSE {}),
                            NewInvite(r.target))
       /\ RecordLoss(q)
       /\ Commit(q)

\* A new account; a second insert of the same address violates its unique index.
CommitInviteNew(q) ==
    LET r == requests[q]
    IN /\ r.op = "invite" /\ r.at = "write" /\ r.status = "absent"
       /\ Len(invites) < MaxInvites
       /\ IF users[r.target].status = "absent"
          THEN /\ users' = [users EXCEPT ![r.target] = [status |-> "invited", roles |-> {r.role}]]
               /\ invites' = Append(invites, NewInvite(r.target))
          ELSE UNCHANGED <<users, invites>>
       /\ Commit(q)
       /\ UNCHANGED <<passkeys, totp, sessions, era, unguardedLoss>>

\* A reissue: the invitations chosen are used up, the roles replaced by the one
\* the request names, a fresh invitation added.
CommitReissue(q) ==
    LET r == requests[q]
    IN /\ r.op = "invite" /\ r.at = "retired"
       /\ Len(invites) < MaxInvites
       /\ users' = [users EXCEPT ![r.target].roles = {r.role}]
       /\ invites' = Append(Use(invites, r.retire), NewInvite(r.target))
       /\ RecordLoss(q)
       /\ Commit(q)
       /\ UNCHANGED <<passkeys, totp, sessions, era>>

\* grant_role inserts and revoke_role deletes one row; the insert of a row that
\* is already there violates the primary key and changes nothing.
CommitRole(q) ==
    LET r == requests[q]
    IN /\ r.op \in {"grant", "revoke"} /\ r.at = "write"
       /\ users' = [users EXCEPT ![r.target].roles =
                        IF r.op = "grant" THEN @ \cup {r.role} ELSE @ \ {r.role}]
       /\ RecordLoss(q)
       /\ Commit(q)
       /\ UNCHANGED <<passkeys, totp, invites, sessions, era>>

\* grant_user_permission and revoke_user_permission: nobody's own.
BeginPermission(q, op, s, target) ==
    /\ CanStart(q)
    /\ Authenticates(s, op)
    /\ "admin" \in users[sessions[s].user].roles
    /\ target # sessions[s].user
    /\ users[target].status # "absent"
    /\ Start(q, [op |-> op, at |-> "change", target |-> target])
    /\ UNCHANGED <<identity, ceremonies, sessions, policy>>

ChangesARow(op, target) == IF op = "permit" THEN target \notin permits.held
                                            ELSE target \in permits.held
\* change_permission: an insert that does nothing on conflict, or a delete; the
\* audit row follows the commit, and only if a row changed.
ChangePermission(q) ==
    LET r == requests[q]
    IN /\ r.op \in {"permit", "forbid"} /\ r.at = "change"
       /\ permits' = [permits EXCEPT !.held = IF r.op = "permit" THEN @ \cup {r.target}
                                                                ELSE @ \ {r.target}]
       /\ IF ChangesARow(r.op, r.target) THEN Serve(q, [r EXCEPT !.at = "audit"])
                                         ELSE Finish(q)
       /\ UNCHANGED <<identity, ceremonies, sessions, config, started>>

\* audit_log::record, which swallows a failed insert.
AuditPermission(q, written) ==
    LET r == requests[q]
    IN /\ r.op \in {"permit", "forbid"} /\ r.at = "audit"
       /\ permits' = IF written
                     THEN [permits EXCEPT !.net[r.target] = IF r.op = "permit" THEN @ + 1 ELSE @ - 1]
                     ELSE [permits EXCEPT !.lost = TRUE]
       /\ Finish(q)
       /\ UNCHANGED <<identity, ceremonies, sessions, config, started>>
-----------------------------------------------------------------------------
(* Enrolment: register_begin and register_finish, for a signed-in user adding a  *)
(* passkey and for the holder of an invitation.                                  *)

LiveInvite(i) == ~invites[i].used /\ ~invites[i].expired

OpenCeremony(kind, u, i) ==
    /\ Len(ceremonies) < MaxCeremonies
    /\ ceremonies' = Append(ceremonies, [kind |-> kind, user |-> u, invite |-> i,
                                        live |-> TRUE, era |-> era[u]])

\* The signed-in path: refused when policy asks for an elevation the session
\* does not have.
RegisterBeginSignedIn(s) ==
    /\ Authenticates(s, "register")
    /\ AddPasskey \in config => sessions[s].elevated
    /\ OpenCeremony("add", sessions[s].user, 0)
    /\ UNCHANGED <<identity, sessions, requests, policy, started>>

\* auth.resolve_invite_registration: a live invitation of an invited user who
\* has no passkey yet.
RegisterBeginInvited(i) ==
    LET u == invites[i].user
    IN /\ LiveInvite(i)
       /\ users[u].status = "invited" /\ passkeys[u] = {}
       /\ OpenCeremony("enrol", u, i)
       /\ UNCHANGED <<identity, sessions, requests, policy, started>>

\* Every *_finish reads the ceremony and deletes it in two calls on the store:
\* a second request may read it in between.
BeginFinish(q, op, c, s) ==
    /\ CanStart(q)
    /\ ceremonies[c].live
    /\ Start(q, [op |-> op, at |-> "taken", ceremony |-> c, session |-> s,
                 user |-> ceremonies[c].user])
    /\ UNCHANGED <<identity, ceremonies, sessions, policy>>

RegisterFinish(q, c) == /\ ceremonies[c].kind \in {"add", "enrol"}
                        /\ BeginFinish(q, "register", c, 0)
LoginFinish(q, c) == ceremonies[c].kind = "login" /\ BeginFinish(q, "login", c, 0)
ReverifyFinish(q, c, s) ==
    /\ ceremonies[c].kind = "reverify"
    /\ Authenticates(s, "reverify") /\ sessions[s].user = ceremonies[c].user
    /\ BeginFinish(q, "reverify", c, s)

DeleteCeremony(q) ==
    LET r == requests[q]
    IN /\ r.op \in {"register", "login", "reverify"} /\ r.at = "taken"
       /\ ceremonies' = [ceremonies EXCEPT ![r.ceremony].live = FALSE]
       /\ Serve(q, [r EXCEPT !.at = "verify"])
       /\ UNCHANGED <<identity, sessions, policy, started>>

\* The browser's answer does not verify, or a ceremony outlives its five minutes.
RejectAnswer(q) ==
    /\ requests[q].op \in {"register", "login", "reverify"} /\ requests[q].at = "verify"
    /\ Finish(q)
    /\ UNCHANGED <<identity, ceremonies, sessions, policy, started>>
CeremonyExpires(c) ==
    /\ ceremonies[c].live
    /\ ceremonies' = [ceremonies EXCEPT ![c].live = FALSE]
    /\ UNCHANGED <<identity, sessions, requests, policy, started>>

Enrolled(c) == \E u \in Users : \E p \in passkeys[u] : p.id = c

\* auth.consume_invite: the invitation is used up if still live, and its user
\* made active if still invited.
ConsumeInvite(i, u) ==
    /\ invites' = Use(invites, {i})
    /\ users' = [users EXCEPT ![u].status = IF @ = "invited" THEN "active" ELSE @]

\* enrol_credential, one transaction: the passkey row (its credential id is
\* unique) and, for an invitation, consume_invite; a dead invitation undoes both.
EnrolCredential(q) ==
    LET r == requests[q]
        c == ceremonies[r.ceremony]
        invited == c.kind = "enrol"
        refused == Enrolled(r.ceremony) \/ (invited /\ ~LiveInvite(c.invite))
    IN /\ r.op = "register" /\ r.at = "verify"
       /\ IF refused
          THEN Finish(q) /\ UNCHANGED <<passkeys, invites, users>>
          ELSE /\ passkeys' = [passkeys EXCEPT ![c.user] =
                                 @ \cup {[id |-> r.ceremony, era |-> era[c.user]]}]
               /\ IF invited
                  THEN /\ ConsumeInvite(c.invite, c.user)
                       /\ Serve(q, [r EXCEPT !.at = "session"])
                  ELSE Finish(q) /\ UNCHANGED <<users, invites>>
       /\ UNCHANGED <<totp, ceremonies, sessions, roleLock, policy, started, era,
                      contended, unguardedLoss>>

InviteExpires(i) ==
    /\ LiveInvite(i)
    /\ invites' = [invites EXCEPT ![i].expired = TRUE]
    /\ UNCHANGED <<users, passkeys, totp, ceremonies, sessions, requests, roleLock,
                   policy, started, era, contended, unguardedLoss>>

\* bootstrap.rs: the first administrator, only into an empty users table; run
\* again, a new invitation in place of the old ones, for one who has not enrolled.
BootstrapCreate(u) ==
    /\ \A v \in Users : users[v].status = "absent"
    /\ Len(invites) < MaxInvites
    /\ users' = [users EXCEPT ![u] = [status |-> "invited", roles |-> {"admin"}]]
    /\ invites' = Append(invites, NewInvite(u))
    /\ UNCHANGED <<passkeys, totp, ceremonies, sessions, requests, roleLock, policy,
                   started, era, contended, unguardedLoss>>
BootstrapReissue(u) ==
    /\ users[u].status = "invited" /\ passkeys[u] = {}
    /\ Len(invites) < MaxInvites
    /\ invites' = Append(Use(invites, UnusedInvites(u)), NewInvite(u))
    /\ UNCHANGED <<users, passkeys, totp, ceremonies, sessions, requests, roleLock,
                   policy, started, era, contended, unguardedLoss>>
-----------------------------------------------------------------------------
(* Signing in and out.                                                           *)

\* login_begin: only an active user with a passkey is given a ceremony.
LoginBegin(u) ==
    /\ users[u].status = "active" /\ passkeys[u] # {}
    /\ OpenCeremony("login", u, 0)
    /\ UNCHANGED <<identity, sessions, requests, policy, started>>

ReverifyBegin(s) ==
    /\ Authenticates(s, "reverify")
    /\ passkeys[sessions[s].user] # {}
    /\ OpenCeremony("reverify", sessions[s].user, 0)
    /\ UNCHANGED <<identity, sessions, requests, policy, started>>

\* The passkeys are loaded again; none left, no sign-in. An unfamiliar address
\* and browser gate the session, but only for a user with a confirmed TOTP.
VerifyLogin(q, anomalous) ==
    LET r == requests[q]
    IN /\ r.op = "login" /\ r.at = "verify"
       /\ IF passkeys[r.user] = {}
          THEN Finish(q)
          ELSE Serve(q, [op |-> "login", at |-> "session", user |-> r.user,
                         gated |-> anomalous /\ totp[r.user].confirmed])
       /\ UNCHANGED <<identity, ceremonies, sessions, policy, started>>

\* auth.create_session looks at the user's status and inserts in two statements.
CheckActive(q) ==
    LET r == requests[q]
    IN /\ r.op \in {"login", "register"} /\ r.at = "session"
       /\ IF users[r.user].status = "active"
          THEN Serve(q, [op |-> r.op, at |-> "insert", user |-> r.user,
                         gated |-> r.op = "login" /\ r.gated])
          ELSE Finish(q)
       /\ UNCHANGED <<identity, ceremonies, sessions, policy, started>>

InsertSession(q) ==
    LET r == requests[q]
    IN /\ r.op \in {"login", "register"} /\ r.at = "insert"
       /\ Len(sessions) < MaxSessions
       /\ sessions' = Append(sessions, [user |-> r.user, live |-> TRUE, gated |-> r.gated,
                                       elevated |-> FALSE, reverified |-> FALSE,
                                       era |-> era[r.user]])
       /\ Finish(q)
       /\ UNCHANGED <<identity, ceremonies, policy, started>>

\* auth.record_passkey_reverify, for a session that is still there.
RecordReverify(q) ==
    LET r == requests[q]
    IN /\ r.op = "reverify" /\ r.at = "verify"
       /\ sessions' = IF passkeys[r.user] # {} /\ sessions[r.session].live
                      THEN [sessions EXCEPT ![r.session].reverified = TRUE]
                      ELSE sessions
       /\ Finish(q)
       /\ UNCHANGED <<identity, ceremonies, policy, started>>

\* auth.revoke_session.
Logout(s) ==
    /\ sessions[s].live
    /\ sessions' = [sessions EXCEPT ![s].live = FALSE]
    /\ UNCHANGED <<identity, ceremonies, requests, policy, started>>

\* auth.revoke_all_sessions_for_token, from a session that is itself valid.
LogoutEverywhere(s) ==
    /\ sessions[s].live
    /\ sessions' = RevokeOn(sessions[s].user, sessions)
    /\ UNCHANGED <<identity, ceremonies, requests, policy, started>>

\* Time passes: a session reaches its age or idle limit, an elevation or a
\* passkey re-verification its five minutes.
SessionLapses(s) ==
    /\ sessions[s].live
    /\ \/ sessions' = [sessions EXCEPT ![s].live = FALSE]
       \/ sessions[s].elevated /\ sessions' = [sessions EXCEPT ![s].elevated = FALSE]
       \/ sessions[s].reverified /\ sessions' = [sessions EXCEPT ![s].reverified = FALSE]
    /\ UNCHANGED <<identity, ceremonies, requests, policy, started>>

\* update_configuration: an admin chooses the actions that need a step-up, among
\* those the service knows.
KnownActions == {AddPasskey}
UpdateConfiguration(s, actions) ==
    /\ actions \subseteq KnownActions
    /\ Authenticates(s, "configure") /\ "admin" \in users[sessions[s].user].roles
    /\ config' = actions
    /\ UNCHANGED <<identity, ceremonies, sessions, requests, permits, started>>
=============================================================================
