---------------------------- MODULE SessionStore ----------------------------
(***************************************************************************)
(* What the session store promises its callers (the SessionStore trait and *)
(* the SessionStoreExt methods), as if every call were atomic: a session   *)
(* is created once, changed while it lives, and once it was cancelled or   *)
(* expired it never comes back.  A request that was let in before the      *)
(* session expired may still write to it; that write is lost.  A cancelled *)
(* session takes no write at all.                                          *)
(***************************************************************************)
EXTENDS Integers

CONSTANT Ids

VARIABLES
    status,  \* [Ids -> "unused", "live", "expired" or "cancelled"]
    data,    \* the stamp of the last write to each live session
    stamp    \* how many writes were accepted

vars == <<status, data, stamp>>

Init ==
    /\ status = [id \in Ids |-> "unused"]
    /\ data = [id \in Ids |-> 0]
    /\ stamp = 0

save(id) ==
    /\ status[id] = "unused"
    /\ status' = [status EXCEPT ![id] = "live"]
    /\ UNCHANGED <<data, stamp>>

with_session_mut(id) ==
    /\ status[id] = "live"
    /\ stamp' = stamp + 1
    /\ data' = [data EXCEPT ![id] = stamp + 1]
    /\ UNCHANGED status

LateWrite(id) ==
    /\ status[id] = "expired"
    /\ stamp' = stamp + 1
    /\ UNCHANGED <<status, data>>

Cancel(id) ==
    /\ status[id] \in {"live", "expired"}
    /\ status' = [status EXCEPT ![id] = "cancelled"]
    /\ data' = [data EXCEPT ![id] = 0]
    /\ UNCHANGED stamp

Expire(ids) ==
    /\ \A id \in ids : status[id] = "live"
    /\ status' = [id \in Ids |-> IF id \in ids THEN "expired" ELSE status[id]]
    /\ data' = [id \in Ids |-> IF id \in ids THEN 0 ELSE data[id]]
    /\ UNCHANGED stamp

Next ==
    \/ \E id \in Ids : save(id) \/ with_session_mut(id) \/ LateWrite(id) \/ Cancel(id)
    \/ \E ids \in SUBSET Ids : Expire(ids)

Spec == Init /\ [][Next]_vars

=============================================================================
