--------------------------- MODULE ClickUpAccount ---------------------------
(* One user's ClickUp connection and what is cached under it: the saved token  *)
(* and its status (src/src/api/clickup_connection), the cached workspace       *)
(* hierarchy (src/src/clickup/hierarchy.rs), the cached task lists             *)
(* (src/src/clickup/task_cache.rs) and the handlers that read and write them.  *)
(* Everything here is kept per user, so one user is modelled. A token stands   *)
(* for the ClickUp account it belongs to, a hierarchy for the token it was     *)
(* read with, a list of tasks for the number of writes it shows.               *)
EXTENDS Naturals, FiniteSets

CONSTANTS
    Tokens,             \* the personal tokens of ClickUp accounts, positive numbers
    Lists, Workspace,   \* ClickUp lists, and the key of the hierarchy cache
    Requests, NoRequest,
    MaxWrites           \* bound on the writes to one list

VARIABLES
    conn,       \* the integrations.user_clickup_credentials row, or NoConn
    accepted,   \* ClickUp: the tokens it accepts
    board,      \* ClickUp: list -> how many writes its tasks have seen
    cache,      \* Workspace or list -> what is cached and fresh, or Nothing
    loading,    \* Workspace or list -> the request holding its load lock
    requests,   \* request -> the handler it is in
    started,    \* how many requests have begun
    rejected,   \* history: the tokens ClickUp has rejected
    crossed,    \* history: a token was stored or removed while another request
                \* held a different one
    straddled   \* history: lists written to while a load of them was in flight

accountVars == <<conn, accepted, board, cache, loading, requests, started,
                 rejected, crossed, straddled>>
history == <<rejected, crossed, straddled>>

Keys == Lists \cup {Workspace}
Nothing == MaxWrites + 10
NoConn == [token |-> 0, status |-> "none", account |-> 0]
Idle == [op |-> "none", at |-> "none", token |-> 0, key |-> Workspace, seen |-> 0]

\* The readers, and whether a token rejected on the way marks the connection.
Reads == {"lists", "tasks"}
Glances == {"prefetch", "tasks_lenient"}
Writes == {"run_update", "copy"}

AccountInit ==
    /\ conn = NoConn
    /\ accepted = Tokens
    /\ board = [l \in Lists |-> 0]
    /\ cache = [k \in Keys |-> Nothing]
    /\ loading = [k \in Keys |-> NoRequest]
    /\ requests = [q \in Requests |-> Idle]
    /\ started = 0
    /\ rejected = {} /\ crossed = FALSE /\ straddled = {}

Start(q, r) ==
    /\ requests[q] = Idle
    /\ requests' = [requests EXCEPT ![q] = r]
    /\ started' = started + 1
Continue(q, r) == requests' = [requests EXCEPT ![q] = r] /\ UNCHANGED started
Go(q, at) == Continue(q, [requests[q] EXCEPT !.at = at])
Finish(q) == requests' = [requests EXCEPT ![q] = Idle] /\ UNCHANGED started

\* What ClickUp may answer to a call made with a token: whether it accepts the
\* token is its own state; any call may also fail for another reason.
MayAnswer(token, answer) ==
    \/ answer = "unavailable"
    \/ answer = IF token \in accepted THEN "ok" ELSE "unauthorized"
NoteRejected(token, answer) ==
    rejected' = IF answer = "unauthorized" THEN rejected \cup {token} ELSE rejected
\* Whether another request still works with a token other than this one.
Others(q, token) == \E p \in Requests \ {q} : requests[p].token \notin {0, token}

\* Mutant: a call that only went unanswered marks the row too.
RejectsAnyFailure(answer) == answer \in {"unauthorized", "unavailable"}
\* clickup_failure_response: only a rejected token marks the row.
Rejects(answer) == answer = "unauthorized"

-----------------------------------------------------------------------------
(* Saving, testing and removing the token                                     *)

SaveToken(q, token) ==
    /\ Start(q, [Idle EXCEPT !.op = "save", !.at = "identify", !.token = token])
    /\ UNCHANGED <<conn, accepted, board, cache, loading, history>>

\* test_connection reads the stored token, whatever its status, and lets the
\* transaction go before ClickUp is asked.
TestConnection(q) ==
    /\ conn # NoConn
    /\ Start(q, [Idle EXCEPT !.op = "test", !.at = "identify", !.token = conn.token])
    /\ UNCHANGED <<conn, accepted, board, cache, loading, history>>

\* ClickUp is asked who the token belongs to: a save refused or unanswered ends
\* with nothing stored; a test refused marks the row, unanswered leaves it.
Identify(q, answer) ==
    LET r == requests[q]
    IN /\ r.at = "identify"
       /\ MayAnswer(r.token, answer)
       /\ NoteRejected(r.token, answer)
       /\ CASE answer = "ok" -> Go(q, IF r.op = "save" THEN "store" ELSE "stamp")
            [] Rejects(answer) /\ r.op = "test" -> Go(q, "reject")
            [] OTHER -> Finish(q)
       /\ UNCHANGED <<conn, accepted, board, cache, loading, crossed, straddled>>

\* Mutant: a saved token ends the request without dropping the hierarchy.
StoreTokenCached(q) ==
    LET r == requests[q]
    IN /\ r.at = "store"
       /\ conn' = [token |-> r.token, status |-> "valid", account |-> r.token]
       /\ crossed' = (crossed \/ Others(q, r.token))
       /\ Finish(q)
       /\ UNCHANGED <<accepted, board, cache, loading, rejected, straddled>>
\* save_token: INSERT .. ON CONFLICT (user_id) DO UPDATE, committed; the cached
\* hierarchy is dropped afterwards.
StoreToken(q) ==
    LET r == requests[q]
    IN /\ r.at = "store"
       /\ conn' = [token |-> r.token, status |-> "valid", account |-> r.token]
       /\ crossed' = (crossed \/ Others(q, r.token))
       /\ Go(q, "invalidate")
       /\ UNCHANGED <<accepted, board, cache, loading, rejected, straddled>>

RemoveToken(q) ==
    /\ Start(q, [Idle EXCEPT !.op = "remove", !.at = "invalidate"])
    /\ conn' = NoConn
    /\ crossed' = (crossed \/ Others(q, 0))
    /\ UNCHANGED <<accepted, board, cache, loading, rejected, straddled>>

\* hierarchy::invalidate
Invalidate(q) ==
    /\ requests[q].at = "invalidate"
    /\ cache' = [cache EXCEPT ![Workspace] = Nothing]
    /\ Finish(q)
    /\ UNCHANGED <<conn, accepted, board, loading, history>>

\* A test that went well writes the account it found onto the user's row,
\* whichever token that row holds by now; no row ends the test with an error.
Stamp(q) ==
    /\ requests[q].at = "stamp"
    /\ conn' = IF conn = NoConn THEN NoConn
               ELSE [conn EXCEPT !.status = "valid", !.account = requests[q].token]
    /\ Finish(q)
    /\ UNCHANGED <<accepted, board, cache, loading, history>>

\* UPDATE .. SET status = 'invalid' WHERE user_id, whichever token it holds by now.
MarkInvalid(q) ==
    /\ requests[q].at = "reject"
    /\ conn' = IF conn = NoConn THEN NoConn ELSE [conn EXCEPT !.status = "invalid"]
    /\ Finish(q)
    /\ UNCHANGED <<accepted, board, cache, loading, history>>

-----------------------------------------------------------------------------
(* Reading through the caches                                                 *)

\* load_user_credentials: no row, or one that is not valid, ends the request.
LoadUserCredentials(q, op, key) ==
    /\ conn.status = "valid"
    /\ op \in {"lists", "prefetch"} <=> key = Workspace
    /\ Start(q, [Idle EXCEPT !.op = op, !.token = conn.token, !.key = key,
                             !.at = IF op = "run_update" THEN "check" ELSE "get"])
    /\ UNCHANGED <<conn, accepted, board, cache, loading, history>>

\* What follows once the cache has answered.
AfterRead(r) == IF r.op \in Writes THEN [r EXCEPT !.at = "post"] ELSE Idle

\* cached_or_load, get_or_load: a fresh entry is returned at once, otherwise the
\* load lock of the key is waited for.
Get(q) ==
    LET r == requests[q]
    IN /\ r.at = "get"
       /\ Continue(q, IF cache[r.key] # Nothing THEN AfterRead(r)
                      ELSE [r EXCEPT !.at = "lock"])
       /\ UNCHANGED <<conn, accepted, board, cache, loading, history>>

\* Under the lock the cache is looked at again: whoever held the lock before may
\* have just loaded the key.
Lock(q) ==
    LET r == requests[q]
    IN /\ r.at = "lock" /\ loading[r.key] = NoRequest
       /\ IF cache[r.key] # Nothing
          THEN Continue(q, AfterRead(r)) /\ UNCHANGED loading
          ELSE Go(q, "load") /\ loading' = [loading EXCEPT ![r.key] = q]
       /\ UNCHANGED <<conn, accepted, board, cache, history>>

\* ClickUp answers the load. A failure returns, which releases the lock.
Load(q, answer) ==
    LET r == requests[q]
    IN /\ r.at = "load"
       /\ MayAnswer(r.token, answer)
       /\ NoteRejected(r.token, answer)
       /\ IF answer = "ok"
          THEN /\ Continue(q, [r EXCEPT !.at = "put",
                                        !.seen = IF r.key = Workspace THEN r.token
                                                 ELSE board[r.key]])
               /\ UNCHANGED loading
          ELSE /\ IF Rejects(answer) /\ r.op \notin Glances THEN Go(q, "reject") ELSE Finish(q)
               /\ loading' = [loading EXCEPT ![r.key] = NoRequest]
       /\ UNCHANGED <<conn, accepted, board, cache, crossed, straddled>>

\* The answer is cached, whatever happened to the key since it was asked for.
Put(q) ==
    LET r == requests[q]
    IN /\ r.at = "put"
       /\ cache' = [cache EXCEPT ![r.key] = r.seen]
       /\ loading' = [loading EXCEPT ![r.key] = NoRequest]
       /\ Continue(q, AfterRead(r))
       /\ UNCHANGED <<conn, accepted, board, history>>

\* An entry grows older than its time to live.
Expire(key) ==
    /\ cache[key] # Nothing
    /\ cache' = [cache EXCEPT ![key] = Nothing]
    /\ UNCHANGED <<conn, accepted, board, loading, requests, started, history>>

\* A token is revoked or regenerated in ClickUp.
Revoke(token) ==
    /\ token \in accepted
    /\ accepted' = accepted \ {token}
    /\ UNCHANGED <<conn, board, cache, loading, requests, started, history>>

-----------------------------------------------------------------------------
(* Writing                                                                    *)

LoadOf(l) == \E p \in Requests : requests[p].at \in {"load", "put"} /\ requests[p].key = l

\* post_run_update reads the task and the list's statuses before it writes.
CheckTask(q, answer) ==
    LET r == requests[q]
    IN /\ r.at = "check"
       /\ MayAnswer(r.token, answer)
       /\ NoteRejected(r.token, answer)
       /\ CASE answer = "ok" -> Go(q, "post")
            [] Rejects(answer) -> Go(q, "reject")
            [] OTHER -> Finish(q)
       /\ UNCHANGED <<conn, accepted, board, cache, loading, crossed, straddled>>

\* The writes to the list's tasks. One that goes unanswered may have been made;
\* the list is dropped from the cache whatever the answers were.
Post(q, answer) ==
    LET r == requests[q]
    IN /\ r.at = "post" /\ board[r.key] < MaxWrites
       /\ MayAnswer(r.token, answer)
       /\ NoteRejected(r.token, answer)
       /\ \E acts \in {a \in 0..1 : answer = "unavailable" \/ a = IF answer = "ok" THEN 1 ELSE 0} :
            /\ board' = [board EXCEPT ![r.key] = @ + acts]
            /\ straddled' = IF acts = 1 /\ LoadOf(r.key) THEN straddled \cup {r.key} ELSE straddled
       /\ Continue(q, [r EXCEPT !.at = IF Rejects(answer) THEN "drop_reject" ELSE "drop"])
       /\ UNCHANGED <<conn, accepted, cache, loading, crossed>>

\* task_cache::invalidate_list. A run update whose comment was refused then
\* marks the connection; a copy reports its rows as failed.
InvalidateList(q) ==
    LET r == requests[q]
    IN /\ r.at \in {"drop", "drop_reject"}
       /\ cache' = [cache EXCEPT ![r.key] = Nothing]
       /\ IF r.at = "drop_reject" /\ r.op = "run_update" THEN Go(q, "reject") ELSE Finish(q)
       /\ UNCHANGED <<conn, accepted, board, loading, history>>

AccountStep(q) ==
    \/ StoreToken(q) \/ Invalidate(q) \/ Stamp(q) \/ MarkInvalid(q)
    \/ Get(q) \/ Lock(q) \/ Put(q) \/ InvalidateList(q)
    \/ \E answer \in {"ok", "unauthorized", "unavailable"} :
         Identify(q, answer) \/ Load(q, answer) \/ CheckTask(q, answer) \/ Post(q, answer)

-----------------------------------------------------------------------------
\* hierarchy.rs: what an earlier token could see is not shown under the next
\* one, once the request that replaced it is done, unless a load with the old
\* token was still under way when the new one was stored.
HierarchyIsOfTheToken ==
    /\ cache[Workspace] # Nothing /\ ~crossed
    /\ \A q \in Requests : requests[q].at # "invalidate"
    => cache[Workspace] = conn.token

=============================================================================
