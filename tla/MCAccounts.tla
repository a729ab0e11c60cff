----------------------------- MODULE MCAccounts -----------------------------
(* Instances of StepUp for TLC. A behaviour is one of AccountsSpec, played in   *)
(* one scenario: the accounts it starts from, the operations its requests may   *)
(* ask for and how many requests there are.                                     *)
EXTENDS StepUp, SequencesExt, TLC

CONSTANTS u1, u2, u3, q1, q2, none, MCScenarios

MCUsers == {u1, u2, u3}
MCRequests == {q1, q2}

MCSymmetry == Permutations(MCRequests)

VARIABLE scenario

Scenario(name) ==
    CASE name = "admins" ->
           [name |-> name, admins |-> {u1, u2}, target |-> "active", roles |-> {"admin"},
            targets |-> {u1, u2, u3}, requests |-> 4,
            ops |-> {"deactivate", "revoke", "grant", "recover", "logout"}]
      [] name = "invites" ->
           [name |-> name, admins |-> {u1}, target |-> "absent", roles |-> {"onboarding"},
            targets |-> {u3}, requests |-> 5,
            ops |-> {"invite", "deactivate", "reactivate", "recover", "enrol", "expire"}]
      [] name = "sessions" ->
           [name |-> name, admins |-> {u1}, target |-> "active", roles |-> {"onboarding"},
            targets |-> {u3}, requests |-> 4,
            ops |-> {"recover", "deactivate", "enrol", "add", "login", "logout", "configure"}]
      [] name = "totp" ->
           [name |-> name, admins |-> {u1}, target |-> "active", roles |-> {},
            targets |-> {u3}, requests |-> 5,
            ops |-> {"totp", "reverify", "lapse"}]
      [] name = "gate" ->
           [name |-> name, admins |-> {u1}, target |-> "active", roles |-> {},
            targets |-> {u3}, requests |-> 4,
            ops |-> {"totp", "login", "recover", "add"}]
      [] name = "permissions" ->
           [name |-> name, admins |-> {u1, u2}, target |-> "active", roles |-> {},
            targets |-> {u2, u3}, requests |-> 5, ops |-> {"permit", "forbid"}]
      [] name = "bootstrap" ->
           [name |-> name, admins |-> {}, target |-> "absent", roles |-> {"admin"},
            targets |-> {u3}, requests |-> 4,
            ops |-> {"invite", "bootstrap", "enrol", "expire"}]

Init ==
    /\ scenario \in {Scenario(n) : n \in MCScenarios}
    /\ users = [u \in Users |->
                  IF u \in scenario.admins THEN [status |-> "active", roles |-> {"admin"}]
                  ELSE IF u = u3 THEN [status |-> scenario.target,
                          roles |-> IF scenario.target = "absent" THEN {} ELSE {"onboarding"}]
                  ELSE [status |-> "absent", roles |-> {}]]
    /\ sessions = SetToSeq({SessionOf(u) : u \in {v \in Users : users[v].status = "active"}})
    /\ Beginning

Has(op) == op \in scenario.ops
More == started < scenario.requests

AdminNext(q) ==
    \/ \E op \in AdminOps \cap scenario.ops, s \in DOMAIN sessions,
          t \in scenario.targets, r \in scenario.roles :
          More /\ BeginAdmin(q, op, s, t, r)
    \/ AdminWork(q)

PermissionNext(q) ==
    \/ \E op \in {"permit", "forbid"} \cap scenario.ops, s \in DOMAIN sessions :
          \E t \in scenario.targets : More /\ BeginPermission(q, op, s, t)
    \/ PermissionWork(q)

CeremonyNext(q) ==
    \/ \E k \in DOMAIN ceremonies :
          More /\ (\/ RegisterFinish(q, k) \/ LoginFinish(q, k)
                   \/ \E s \in DOMAIN sessions : ReverifyFinish(q, k, s))
    \/ CeremonyWork(q)

Mine == {s \in DOMAIN sessions : sessions[s].user \in scenario.targets}

OpenNext ==
    \/ Has("add") /\ \E s \in Mine : RegisterBeginSignedIn(s)
    \/ Has("enrol") /\ \E i \in DOMAIN invites : RegisterBeginInvited(i)
    \/ Has("login") /\ \E u \in scenario.targets : LoginBegin(u)
    \/ Has("reverify") /\ \E s \in Mine : ReverifyBegin(s)
    \/ Has("bootstrap") /\ \E u \in scenario.targets : BootstrapCreate(u) \/ BootstrapReissue(u)
    \/ Has("logout") /\ \E s \in Mine : Logout(s) \/ LogoutEverywhere(s)
    \/ Has("expire") /\ \/ \E i \in DOMAIN invites : InviteExpires(i)
                        \/ \E k \in DOMAIN ceremonies : CeremonyExpires(k)
    \/ Has("lapse") /\ \E s \in Mine : SessionLapses(s)
    \/ Has("configure") /\ \E s \in DOMAIN sessions, actions \in SUBSET {AddPasskey, "unknown"} :
          UpdateConfiguration(s, actions)

\* Codes a user could have read off an authenticator by now.
KnownCodes == {WrongCode} \cup [secret : 1..secretsMade, step : 1..step]

TotpNext(q) ==
    \/ Has("totp") /\ More /\ \E op \in TotpOps, s \in Mine, code \in Codes :
          /\ op = "enroll_begin" => code = WrongCode
          /\ code \in KnownCodes
          /\ BeginTotp(q, op, s, code)
    \/ TotpWork(q)

Next ==
    /\ \/ /\ \/ \E q \in Requests : AdminNext(q) \/ PermissionNext(q) \/ CeremonyNext(q)
             \/ OpenNext
          /\ UNCHANGED totpVars
       \/ \E q \in Requests : TotpNext(q)
       \/ Has("totp") /\ (Tick \/ \E u \in Users : LockOpens(u))
    /\ UNCHANGED scenario

Spec == Init /\ [][Next]_<<allVars, scenario>>
=============================================================================
