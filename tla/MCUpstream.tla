----------------------------- MODULE MCUpstream -----------------------------
(* Instances of what waits: the calls to the vendors' services and the locks   *)
(* of the session store. A behaviour is played in one scenario: how many calls *)
(* of which kinds are made and whether Dropbox may stop accepting its tokens,  *)
(* or the locks.                                                               *)
EXTENDS Upstream, SessionLocks

CONSTANTS c1, c2, c3, none, MCScenarios

MCCalls == {c1, c2, c3}

VARIABLE scenario

Scenario(name) ==
    CASE name = "paced" ->
           [name |-> name, kinds |-> {"process_street"}, calls |-> {c1, c2}, deaths |-> 0]
      [] name = "writers" ->
           [name |-> name, kinds |-> {"clickup_write"}, calls |-> {c1, c2, c3}, deaths |-> 0]
      [] name = "dropbox" ->
           [name |-> name, kinds |-> {"dropbox_rpc", "dropbox_upload"},
            calls |-> {c1, c2}, deaths |-> 2]
      [] name = "mixed" ->
           [name |-> name, kinds |-> {"clickup_get", "clickup_write"},
            calls |-> {c1, c2}, deaths |-> 0]
      [] name = "locks" -> [name |-> name, kinds |-> {}, calls |-> {}, deaths |-> 0]

MCInit == Init /\ LocksInit /\ scenario \in {Scenario(n) : n \in MCScenarios}

CallsNext ==
    \/ \E c \in scenario.calls : \/ \E kind \in scenario.kinds : Begin(c, kind)
                                 \/ Step(c)
    \/ /\ scenario.deaths > issued - Cardinality(live)
       /\ \E id \in live : TokenDies(id)
    \/ scenario.deaths > 0 /\ TokenExpires
    \/ Tick

MCNext ==
    /\ \/ scenario.name # "locks" /\ CallsNext /\ UNCHANGED lockVars
       \/ scenario.name = "locks" /\ LocksNext /\ UNCHANGED vars
    /\ UNCHANGED scenario

\* tokio runs every task that can make progress and timers fire; calls need not
\* be made, and Dropbox need not drop a token. Whoever can take a step towards
\* a lock, or under one, eventually does.
Fairness ==
    /\ WF_vars(Tick /\ UNCHANGED lockVars)
    /\ \A c \in Calls : WF_vars(Step(c) /\ UNCHANGED lockVars)
    /\ WF_lockVars(scenario.name = "locks" /\ LocksNext /\ UNCHANGED vars)

Spec == MCInit /\ [][MCNext]_<<vars, lockVars, scenario>> /\ Fairness
=============================================================================
