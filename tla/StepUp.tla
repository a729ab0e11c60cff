------------------------------- MODULE StepUp -------------------------------
(* TOTP enrolment and step-up (src/src/api/auth_totp.rs, src/src/auth/totp.rs,  *)
(* the auth.record_totp_* and auth.record_step_up functions), over the accounts *)
(* of module Accounts. A secret is a number; the code of a secret at a step is  *)
(* the pair of them, a wrong code the pair with secret 0.                        *)
EXTENDS Accounts

CONSTANTS MaxSecrets, MaxStep, MaxFailures  \* two bounds, and the lockout's limit

ASSUME StepUpAssumption ==
    {MaxSecrets, MaxStep, MaxFailures} \subseteq Nat /\ MaxFailures > 0

VARIABLES
    step,         \* the 30-second step the clock is in
    secretsMade,  \* how many secrets generate_secret has returned
    accepted,     \* history: the codes a step-up has accepted
    replayed,     \* history: the codes accepted more than once
    disturbed,    \* history: users with two TOTP requests in flight at once, or
                  \* a success that was not recorded
    proven,       \* history: the secrets a code was verified against
    replacing,    \* history: the secrets begun from a re-verified session
    guesses       \* history: wrong codes judged since the lock last opened

totpVars == <<step, secretsMade, accepted, replayed, disturbed, proven, replacing, guesses>>
otherTables == <<users, passkeys, invites, ceremonies, sessions, roleLock, policy,
                 started, era, contended, unguardedLoss>>  \* all but totp and requests
allVars == <<vars, totpVars>>

TotpOps == {"enroll_begin", "enroll_confirm", "step_up"}
WrongCode == [secret |-> 0, step |-> 0]
Codes == {WrongCode} \cup [secret : 1..MaxSecrets, step : 0..MaxStep]

BusyWith(u, ops, q) == {p \in Requests \ {q} : requests[p].op \in ops /\ requests[p].user = u}
NoteOverlap(q, u) ==
    disturbed' = IF BusyWith(u, TotpOps, q) # {} THEN disturbed \cup {u} ELSE disturbed

\* A TOTP request of a session; the code is what the user typed.
BeginTotp(q, op, s, code) ==
    /\ CanStart(q)
    /\ Authenticates(s, op)
    /\ Start(q, [op |-> op, at |-> "load", user |-> sessions[s].user, session |-> s,
                 code |-> code, reverified |-> sessions[s].reverified])
    /\ NoteOverlap(q, sessions[s].user)
    /\ UNCHANGED <<identity, ceremonies, sessions, policy, step, secretsMade, accepted,
                   replayed, proven, replacing, guesses>>

\* Mutant: any session may replace the authenticator.
CheckReplacementOpen(q) ==
    LET r == requests[q]
    IN /\ r.op = "enroll_begin" /\ r.at = "load"
       /\ Serve(q, [r EXCEPT !.at = "store"])
       /\ UNCHANGED <<identity, ceremonies, sessions, policy, started, totpVars>>
\* enroll_begin: an authenticator in use is replaced only from a session that
\* has just verified its passkey again.
CheckReplacement(q) ==
    LET r == requests[q]
    IN /\ r.op = "enroll_begin" /\ r.at = "load"
       /\ IF totp[r.user].confirmed /\ ~r.reverified
          THEN Finish(q)
          ELSE Serve(q, [r EXCEPT !.at = "store"])
       /\ UNCHANGED <<identity, ceremonies, sessions, policy, started, totpVars>>

\* store_unconfirmed_secret: the new secret waits beside the one in use.
StoreUnconfirmed(q) ==
    LET r == requests[q]
    IN /\ r.op = "enroll_begin" /\ r.at = "store"
       /\ secretsMade < MaxSecrets
       /\ secretsMade' = secretsMade + 1
       /\ totp' = [totp EXCEPT ![r.user].pending = secretsMade + 1]
       /\ replacing' = IF r.reverified THEN replacing \cup {secretsMade + 1} ELSE replacing
       /\ Finish(q)
       /\ UNCHANGED <<otherTables, step, accepted, replayed, disturbed, proven, guesses>>

\* verify_code: the first step of the window whose code is the one typed, unless
\* it is not newer than the last step used; 0 is a rejection.
Window == {n \in (step - 1)..(step + 1) : n > 0}
VerifyCode(secret, code, last) ==
    IF code.secret = secret /\ code.step \in Window /\ code.step > last
    THEN code.step ELSE 0

\* load_own_secret and load_own_confirmed_secret: the row is read, and the code
\* judged against what was read.
LoadAndVerify(q) ==
    LET r == requests[q]
        row == totp[r.user]
        secret == IF r.op = "step_up" THEN row.secret ELSE row.pending
        last == IF r.op = "step_up" THEN row.lastStep ELSE 0
        loaded == IF r.op = "step_up" THEN row.confirmed /\ row.secret # 0 ELSE row.pending # 0
        matched == VerifyCode(secret, r.code, last)
    IN /\ r.op \in {"enroll_confirm", "step_up"} /\ r.at = "load"
       /\ IF ~loaded \/ row.locked
          THEN Finish(q) /\ UNCHANGED <<guesses, proven>>
          ELSE IF matched = 0
          THEN /\ Serve(q, [r EXCEPT !.at = "fail"])
               /\ guesses' = [guesses EXCEPT ![r.user] = @ + 1]
               /\ UNCHANGED proven
          ELSE /\ Serve(q, [r EXCEPT !.at = "succeed"])
               /\ proven' = proven \cup {secret}
               /\ UNCHANGED guesses
       /\ UNCHANGED <<identity, ceremonies, sessions, policy, started, step, secretsMade,
                      accepted, replayed, disturbed, replacing>>

\* Mutant: failures are counted, nothing is locked.
RecordFailureOnly(q) ==
    LET r == requests[q]
    IN /\ r.op \in {"enroll_confirm", "step_up"} /\ r.at = "fail"
       /\ totp' = IF totp[r.user] = NoTotp THEN totp
                  ELSE [totp EXCEPT ![r.user].failed = @ + 1]
       /\ Finish(q)
       /\ UNCHANGED <<otherTables, totpVars>>
\* auth.record_totp_failure, a single UPDATE; the lock is set when the count
\* reaches its limit. The row may be gone by now.
RecordFailure(q) ==
    LET r == requests[q]
    IN /\ r.op \in {"enroll_confirm", "step_up"} /\ r.at = "fail"
       /\ totp' = IF totp[r.user] = NoTotp THEN totp
                  ELSE [totp EXCEPT ![r.user].failed = @ + 1,
                                    ![r.user].locked = @ \/ totp[r.user].failed + 1 >= MaxFailures]
       /\ Finish(q)
       /\ UNCHANGED <<otherTables, totpVars>>

\* confirm_own_secret: whatever secret is pending now becomes the one in use.
ConfirmSecret(q) ==
    LET r == requests[q]
    IN /\ r.op = "enroll_confirm" /\ r.at = "succeed"
       /\ totp' = IF totp[r.user] = NoTotp THEN totp
                  ELSE [totp EXCEPT ![r.user] =
                          [secret |-> @.pending, pending |-> 0, confirmed |-> TRUE,
                           failed |-> 0, locked |-> FALSE, lastStep |-> r.code.step]]
       /\ guesses' = [guesses EXCEPT ![r.user] = 0]
       /\ Finish(q)
       /\ UNCHANGED <<otherTables, step, secretsMade, accepted, replayed, disturbed,
                      proven, replacing>>

\* auth.record_totp_success clears the failures and stores the step as it is; a
\* failed call is only logged.
RecordSuccess(q, stored) ==
    LET r == requests[q]
    IN /\ r.op = "step_up" /\ r.at = "succeed"
       /\ totp' = IF stored /\ totp[r.user] # NoTotp
                  THEN [totp EXCEPT ![r.user].failed = 0, ![r.user].locked = FALSE,
                                    ![r.user].lastStep = r.code.step]
                  ELSE totp
       /\ guesses' = IF stored THEN [guesses EXCEPT ![r.user] = 0] ELSE guesses
       /\ accepted' = accepted \cup {r.code}
       /\ replayed' = replayed \cup (accepted \cap {r.code})
       /\ disturbed' = IF stored THEN disturbed ELSE disturbed \cup {r.user}
       /\ Serve(q, [r EXCEPT !.at = "elevate"])
       /\ UNCHANGED <<otherTables, step, secretsMade, proven, replacing>>

\* auth.record_step_up: elevates the session and lifts its gate, if it is there.
RecordStepUp(q) ==
    LET r == requests[q]
    IN /\ r.op = "step_up" /\ r.at = "elevate"
       /\ sessions' = IF sessions[r.session].live
                      THEN [sessions EXCEPT ![r.session].elevated = TRUE,
                                            ![r.session].gated = FALSE]
                      ELSE sessions
       /\ Finish(q)
       /\ UNCHANGED <<identity, ceremonies, policy, started, totpVars>>

\* Fifteen minutes pass: locked_until is in the past. The count is not cleared.
LockOpens(u) ==
    /\ totp[u].locked
    /\ totp' = [totp EXCEPT ![u].locked = FALSE]
    /\ guesses' = [guesses EXCEPT ![u] = 0]
    /\ UNCHANGED <<otherTables, requests, step, secretsMade, accepted, replayed,
                   disturbed, proven, replacing>>

Tick ==
    /\ step < MaxStep
    /\ step' = step + 1
    /\ UNCHANGED <<vars, secretsMade, accepted, replayed, disturbed, proven, replacing,
                   guesses>>
-----------------------------------------------------------------------------
(* The accounts service: accounts as an earlier process left them, at least one *)
(* administrator among them unless there are none, and whatever may be asked.   *)

SessionOf(u) == [user |-> u, live |-> TRUE, gated |-> FALSE, elevated |-> FALSE,
                 reverified |-> FALSE, era |-> 0]
InitialPasskey == [id |-> 0, era |-> 0]

Beginning ==
    /\ passkeys = [u \in Users |-> IF users[u].status = "active" THEN {InitialPasskey} ELSE {}]
    /\ totp = [u \in Users |-> NoTotp]
    /\ invites = <<>> /\ ceremonies = <<>>
    /\ requests = [q \in Requests |-> Idle]
    /\ roleLock = NoRequest
    /\ config = {AddPasskey} /\ started = 0
    /\ permits = [held |-> {}, net |-> [u \in Users |-> 0], lost |-> FALSE]
    /\ era = [u \in Users |-> 0]
    /\ contended = {} /\ unguardedLoss = FALSE
    /\ step = 1 /\ secretsMade = 0
    /\ accepted = {} /\ replayed = {} /\ disturbed = {} /\ proven = {} /\ replacing = {}
    /\ guesses = [u \in Users |-> 0]

AccountsInit ==
    /\ users \in [Users -> [status : Statuses, roles : SUBSET Roles]]
    /\ (\A u \in Users : users[u].status = "absent") \/ ActiveAdmins # {}
    /\ sessions \in Seq({SessionOf(u) : u \in {v \in Users : users[v].status = "active"}})
    /\ Beginning

AdminWork(q) ==
    \/ ReadTarget(q) \/ GuardLastAdmin(q) \/ RetireInvites(q)
    \/ CommitDeactivate(q) \/ CommitReactivate(q) \/ CommitRecover(q)
    \/ CommitInviteNew(q) \/ CommitReissue(q) \/ CommitRole(q)

PermissionWork(q) ==
    ChangePermission(q) \/ \E written \in BOOLEAN : AuditPermission(q, written)

CeremonyWork(q) ==
    \/ DeleteCeremony(q) \/ RejectAnswer(q) \/ EnrolCredential(q)
    \/ (\E anomalous \in BOOLEAN : VerifyLogin(q, anomalous))
    \/ CheckActive(q) \/ InsertSession(q) \/ RecordReverify(q)

TotpWork(q) ==
    \/ CheckReplacement(q) \/ StoreUnconfirmed(q) \/ LoadAndVerify(q) \/ RecordFailure(q)
    \/ ConfirmSecret(q) \/ (\E stored \in BOOLEAN : RecordSuccess(q, stored)) \/ RecordStepUp(q)

Ask(q) ==
    \/ \E op \in AdminOps, s \in DOMAIN sessions, t \in Users, r \in Roles :
          BeginAdmin(q, op, s, t, r)
    \/ \E op \in {"permit", "forbid"}, s \in DOMAIN sessions, t \in Users :
          BeginPermission(q, op, s, t)
    \/ \E c \in DOMAIN ceremonies : RegisterFinish(q, c) \/ LoginFinish(q, c)
    \/ \E c \in DOMAIN ceremonies, s \in DOMAIN sessions : ReverifyFinish(q, c, s)

AskTotp(q) ==
    \E op \in TotpOps, s \in DOMAIN sessions, code \in Codes : BeginTotp(q, op, s, code)

SingleStep ==
    \/ \E s \in DOMAIN sessions : \/ RegisterBeginSignedIn(s) \/ ReverifyBegin(s)
                                  \/ Logout(s) \/ LogoutEverywhere(s) \/ SessionLapses(s)
                                  \/ \E actions \in SUBSET {AddPasskey, "unknown"} :
                                        UpdateConfiguration(s, actions)
    \/ \E i \in DOMAIN invites : RegisterBeginInvited(i) \/ InviteExpires(i)
    \/ \E c \in DOMAIN ceremonies : CeremonyExpires(c)
    \/ \E u \in Users : LoginBegin(u) \/ BootstrapCreate(u) \/ BootstrapReissue(u)

AccountsNext ==
    \/ /\ \/ \E q \in Requests : \/ Ask(q) \/ AdminWork(q)
                                 \/ PermissionWork(q) \/ CeremonyWork(q)
          \/ SingleStep
       /\ UNCHANGED totpVars
    \/ \E q \in Requests : AskTotp(q) \/ TotpWork(q)
    \/ Tick
    \/ \E u \in Users : LockOpens(u)

AccountsSpec == AccountsInit /\ [][AccountsNext]_allVars
-----------------------------------------------------------------------------
(* Properties.                                                                   *)

\* Every table, ceremony and request has the shape its type gives it, and only
\* actions the service knows are ever stored as a policy (auth_configuration.rs).
AccountsTypeOK ==
    /\ users \in [Users -> [status : Statuses, roles : SUBSET Roles]]
    /\ \A u \in Users : \A p \in passkeys[u] : p.id \in 0..Len(ceremonies)
    /\ \A i \in DOMAIN invites : invites[i].user \in Users
    /\ \A c \in DOMAIN ceremonies : ceremonies[c].kind \in {"add", "enrol", "login", "reverify"}
    /\ \A s \in DOMAIN sessions : sessions[s].user \in Users
    /\ \A q \in Requests : requests[q].op \in
          {"none", "register", "login", "reverify", "permit", "forbid"} \cup AdminOps \cup TotpOps
    /\ roleLock \in Requests \cup {NoRequest}
    /\ config \subseteq KnownActions
    /\ \A u \in Users : totp[u].secret \in 0..secretsMade /\ totp[u].pending \in 0..secretsMade

\* An active account can always be signed in to: activation and the first passkey
\* are one transaction (enrol_credential), and passkeys are only deleted by the
\* trigger that ends the activity.
ActiveHasPasskey ==
    \A u \in Users : users[u].status = "active" => passkeys[u] # {}

\* What a user could sign in with ends with a deactivation: no passkey and no
\* session that still resolves was stored before the last one, even after the
\* account is active again (the deactivation trigger, which a recovery must fire).
CredentialsEndWithDeactivation ==
    /\ \A u \in Users : \A p \in passkeys[u] : p.era = era[u]
    /\ \A s \in DOMAIN sessions : Resolves(s) => sessions[s].era = era[sessions[s].user]

\* While anybody is active somebody can administer the service: the lock that
\* remaining_active_admins_excluding takes before it counts makes concurrent
\* deactivations and revocations see each other, so the last active admin is lost
\* only to a commit that was not guarded (a recovery, or a target that became an
\* active admin after the handler had read it).
AnAdminRemains ==
    (\E u \in Users : users[u].status = "active") => ActiveAdmins # {} \/ unguardedLoss

\* At most one invitation of an account is unused, whatever sequence of invites,
\* reissues, deactivations, reactivations and recoveries it went through, unless
\* two administrators worked on the account at once (invite.rs: "at most one live
\* link per account").
OneLiveInvite ==
    \A u \in Users : u \in contended \/ Cardinality(UnusedInvites(u)) <= 1

\* An invited user can enrol: register_begin wants an account without passkeys,
\* and an invited account has none, unless a passkey was added late by a ceremony
\* begun before the account was deactivated, or two administrators worked on it.
InvitedCanEnrol ==
    \A u \in Users : \A p \in passkeys[u] :
        users[u].status = "invited" =>
            \/ u \in contended
            \/ p.id # 0 /\ ceremonies[p.id].era < era[u]

\* The audit log accounts for every change of a direct permission and for nothing
\* else: its grants less its revocations, and those about to be written, are what
\* the user holds, unless an audit write failed (change_permission audits only a
\* statement that changed a row, however many requests ask for the same change).
AuditAccountsForGrants ==
    LET Due(u, op) == Cardinality({q \in Requests : /\ requests[q].op = op
                                                    /\ requests[q].at = "audit"
                                                    /\ requests[q].target = u})
    IN \A u \in Users :
         \/ permits.lost
         \/ permits.net[u] + Due(u, "permit") - Due(u, "forbid")
               = IF u \in permits.held THEN 1 ELSE 0

\* A code steps up once: last_used_step makes a second use of the same code fail,
\* unless two requests of the user were in flight at once or the first success
\* could not be stored.
CodesAreSpent ==
    \A c \in replayed : \A u \in Users : u \notin disturbed => totp[u].secret # c.secret

\* A wrong code is judged at most MaxFailures times before the lock holds, and
\* once more for each further request that had loaded the row before the lock.
GuessesAreBounded ==
    \A u \in Users : era[u] = 0 => guesses[u] <= MaxFailures + Cardinality(Requests) - 1

\* The authenticator in use is one the user has shown a code of: enroll_confirm
\* promotes the pending secret it verified, unless requests of the user overlapped.
ConfirmedWasProven ==
    \A u \in Users : totp[u].confirmed => totp[u].secret \in proven \/ u \in disturbed

\* An authenticator in use is replaced only by one begun from a session that had
\* verified its passkey again, unless requests of the user overlapped.
ReplacedAfterReverify ==
    [][\A u \in Users :
         /\ totp[u].confirmed /\ totp'[u].confirmed
         /\ totp'[u].secret # totp[u].secret
         => totp'[u].secret \in replacing \/ u \in disturbed']_allVars

=============================================================================
