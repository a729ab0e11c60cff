----------------------- MODULE MCInMemorySessionStore -----------------------
(* A small instance of the in-process session store.  Its requests either   *)
(* work on sessions (mutate, cancel) or use up ceremonies (consume).        *)
EXTENDS InMemorySessionStore

CONSTANT Mixes

VARIABLE mix

MCInit == StoreInit /\ mix \in Mixes

MCNext ==
    /\ StoreNext
    /\ \A t \in Threads : threads'[t].pc # "idle" => threads'[t].op \in mix
    /\ UNCHANGED mix

MCSpec == MCInit /\ [][MCNext]_<<storeVars, mix>> /\ WF_storeVars(SweepStep)
=============================================================================
