------------------------ MODULE MCDurableSessionStore ------------------------
(* Small instances of the durable session store, of the plain in-process    *)
(* store under the operations that save and consume, and of the schedule    *)
(* of the durable store's sweep.                                            *)
EXTENDS DurableSessionStore, SweepSchedule, TLC

\* "plain": the store without the wrapper (ceremonies); "durable": with it;
\* "schedule": when the wrapper sweeps its table.
CONSTANT Parts

VARIABLE part

MCInit ==
    /\ part \in Parts
    /\ Init
    /\ ScheduleInit
    /\ part # "schedule" => sessionRows = [id \in RowIds |-> NoTime]

MCNext ==
    /\ UNCHANGED part
    /\ \/ part = "plain" /\ StoreNext /\ UNCHANGED <<durable, scheduleVars>>
       \/ part = "durable" /\ Next /\ UNCHANGED scheduleVars
       \/ part = "schedule" /\ ScheduleNext /\ UNCHANGED vars

MCSpec == MCInit /\ [][MCNext]_<<vars, scheduleVars, part>>

\* Requests are interchangeable.
Symmetry == Permutations(Threads)
=============================================================================
