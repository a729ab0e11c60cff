------------------------------ MODULE Upstream ------------------------------
(* Calls to the services the program depends on: the sliding-window limiter    *)
(* (src/src/rate_limit.rs), the shared retry loop (src/src/integrations/http.rs), *)
(* the Dropbox access token (src/src/dropbox/client/mod.rs) and the Process     *)
(* Street and ClickUp clients' own rules about when a request is sent again.    *)
(* Time is a tick; a sleep is a number of ticks left, an admission its age, so  *)
(* no clock has to be bounded.                                                  *)
EXTENDS Naturals, Sequences, SequencesExt, FiniteSets

CONSTANTS
    Calls, NoCall, \* the calls made during a behaviour, and none
    Limit, Window, \* a limiter's calls per window, and the window in ticks
    MaxTokens,     \* bound on the access tokens Dropbox issues
    Prompt         \* whether time waits for every task that can run
ASSUME LimitAssumption == Limit \in Nat \ {0}
ASSUME WindowAssumption == Window \in Nat \ {0}

VARIABLES
    calls,     \* call -> the state of its task
    admitted,  \* limiter -> the ages in its VecDeque, oldest first
    recent,    \* history: limiter -> the ages below Window of every admission
    token,     \* the cached Dropbox access token, NoToken when there is none
    lock,      \* the call holding the token mutex, or NoCall
    live,      \* Dropbox: the access tokens it accepts
    issued,    \* Dropbox: how many access tokens it has issued
    rejected,  \* history: call -> the token its first attempt was refused with
    effects    \* history: call -> how often the service carried its request out

vars == <<calls, admitted, recent, token, lock, live, issued, rejected, effects>>

\* A ClickUp read, a copy's ClickUp write, a Process Street page, a Dropbox RPC
\* and a Dropbox upload.
Kinds == {"clickup_get", "clickup_write", "process_street", "dropbox_rpc", "dropbox_upload"}
Writes == {"clickup_write", "dropbox_upload"}
Dropbox == {"dropbox_rpc", "dropbox_upload"}
Limiters == {"clickup", "process_street"}
LimiterOf(kind) == IF kind = "process_street" THEN "process_street" ELSE "clickup"

NoToken == [id |-> 0, expiring |-> FALSE]

\* 429 with and without a wait the client accepts; 500, 502, 503 or 504; 401;
\* another refusal; a timeout or failed connection; another transport error.
Answers == {"ok", "busy", "busy_long", "server_error", "unauthorized", "refused",
            "lost", "broken"}
\* is_retryable_status and is_retryable_error, with the Retry-After cut-off.
Transient(answer) == answer \in {"busy", "server_error", "lost"}

\* Mutant: writes are sent with the policy of the reads.
MaxAttemptsStandard(kind) == IF kind = "process_street" THEN 4 ELSE 3
\* RetryPolicy::STANDARD, Process Street's own MAX_ATTEMPTS, and one attempt for
\* what must not be repeated.
MaxAttempts(kind) ==
    CASE kind = "process_street" -> 4
      [] kind \in Writes -> 1
      [] OTHER -> 3
RefreshAttempts == 2

\* base * 2^attempt; three attempts stay below max_delay, jitter is left out.
Backoff(attempt) == 2 ^ (attempt - 1)

FirstStep(kind) ==
    CASE kind \in {"clickup_write", "process_street"} -> "limit"
      [] kind \in Dropbox -> "token"
      [] OTHER -> "send"

Idle == [at |-> "idle", kind |-> "clickup_get", tries |-> 0, sleep |-> 0, waited |-> 0,
         held |-> 0, second |-> FALSE]
Done(r) == [Idle EXCEPT !.at = "done", !.kind = r.kind]

Init ==
    /\ calls = [c \in Calls |-> Idle]
    /\ admitted = [l \in Limiters |-> <<>>]
    /\ recent = [l \in Limiters |-> <<>>]
    /\ token = NoToken
    /\ lock = NoCall
    /\ live = {} /\ issued = 0
    /\ rejected = [c \in Calls |-> 0]
    /\ effects = [c \in Calls |-> 0]

Awake(c, at) == calls[c].at = at /\ calls[c].sleep = 0
Become(c, r) == calls' = [calls EXCEPT ![c] = r]
limiterVars == <<admitted, recent>>
dropboxVars == <<token, lock, live, issued, rejected>>

Begin(c, kind) ==
    /\ calls[c].at = "idle"
    /\ Become(c, [Idle EXCEPT !.at = FirstStep(kind), !.kind = kind])
    /\ UNCHANGED <<limiterVars, dropboxVars, effects>>

-----------------------------------------------------------------------------
(* RateLimiter::acquire                                                       *)

\* Mutant: an admission leaves the window one tick early.
InWindowShort(ages) == SelectSeq(ages, LAMBDA age : age + 1 < Window)
\* The admissions the loop does not pop.
InWindow(ages) == SelectSeq(ages, LAMBDA age : age < Window)

\* One turn of the loop, under the limiter's mutex: count the call, or sleep
\* until the oldest admission leaves the window.
Acquire(c) ==
    LET l == LimiterOf(calls[c].kind)
        kept == InWindow(admitted[l])
    IN /\ Awake(c, "limit")
       /\ IF Len(kept) < Limit
          THEN /\ admitted' = [admitted EXCEPT ![l] = Append(kept, 0)]
               /\ recent' = [recent EXCEPT ![l] = Append(@, 0)]
               /\ Become(c, [calls[c] EXCEPT !.at = "send", !.waited = 0])
          ELSE /\ admitted' = [admitted EXCEPT ![l] = kept]
               /\ UNCHANGED recent
               /\ Become(c, [calls[c] EXCEPT !.sleep = Window - Head(kept)])
       /\ UNCHANGED <<dropboxVars, effects>>

-----------------------------------------------------------------------------
(* The Dropbox access token                                                   *)

\* access_token under the mutex: a cached token that is not about to expire is
\* used, otherwise the refresh begins with the mutex held.
TakeToken(c) ==
    /\ Awake(c, "token") /\ lock = NoCall
    /\ IF token # NoToken /\ ~token.expiring
       THEN /\ Become(c, [calls[c] EXCEPT !.at = "send", !.held = token.id])
            /\ UNCHANGED lock
       ELSE /\ Become(c, [calls[c] EXCEPT !.at = "refresh", !.tries = 0])
            /\ lock' = c
    /\ UNCHANGED <<limiterVars, token, live, issued, rejected, effects>>

\* One attempt of the refresh (RetryPolicy::QUICK). Whatever ends it releases
\* the mutex; a new token replaces the cached one.
Refresh(c, answer) ==
    LET tries == calls[c].tries + 1
    IN /\ Awake(c, "refresh")
       /\ answer \in Answers \ {"unauthorized"}
       /\ CASE answer = "ok" ->
                 /\ issued < MaxTokens
                 /\ issued' = issued + 1
                 /\ live' = live \cup {issued + 1}
                 /\ token' = [id |-> issued + 1, expiring |-> FALSE]
                 /\ lock' = NoCall
                 /\ Become(c, [calls[c] EXCEPT !.at = "send", !.tries = 0, !.held = issued + 1])
            [] Transient(answer) /\ tries < RefreshAttempts ->
                 /\ Become(c, [calls[c] EXCEPT !.tries = tries, !.sleep = Backoff(tries)])
                 /\ UNCHANGED <<token, lock, live, issued>>
            [] OTHER ->
                 /\ Become(c, Done(calls[c]))
                 /\ lock' = NoCall
                 /\ UNCHANGED <<token, live, issued>>
       /\ UNCHANGED <<limiterVars, rejected, effects>>

\* After a 401 the cached token is dropped, whichever token it is by now.
InvalidateToken(c) ==
    /\ Awake(c, "invalidate") /\ lock = NoCall
    /\ token' = NoToken
    /\ Become(c, [calls[c] EXCEPT !.at = "token", !.second = TRUE, !.tries = 0])
    /\ UNCHANGED <<limiterVars, lock, live, issued, rejected, effects>>

\* Dropbox stops accepting a token: it ran out or was revoked.
TokenDies(id) ==
    /\ live' = live \ {id}
    /\ id \in live
    /\ UNCHANGED <<calls, limiterVars, token, lock, issued, rejected, effects>>

\* The cached token comes within REFRESH_SAFETY_MARGIN of its expiry.
TokenExpires ==
    /\ token # NoToken /\ ~token.expiring
    /\ token' = [token EXCEPT !.expiring = TRUE]
    /\ UNCHANGED <<calls, limiterVars, lock, live, issued, rejected, effects>>

-----------------------------------------------------------------------------
(* Sending, and sending again                                                 *)

\* What the service may answer: Dropbox refuses exactly the tokens it no longer
\* accepts, the other two may refuse theirs at any time.
MayAnswer(c, answer) ==
    calls[c].kind \in Dropbox => (answer = "unauthorized" <=> calls[c].held \notin live)

\* A request that was answered, or whose answer was lost, may have been carried out.
CarriedOut(answer) ==
    CASE answer = "ok" -> {1}
      [] answer \in {"lost", "server_error"} -> {0, 1}
      [] OTHER -> {0}

\* send_with_retry's decision on an answer, Process Street's get_page loop
\* (each try is paced again; only 429 with an acceptable reset and 5xx are
\* tried again), and send_authed's single second round after a 401.
AfterSend(r, answer, tries) ==
    CASE r.kind = "dropbox_rpc" /\ answer = "unauthorized" /\ ~r.second ->
           [r EXCEPT !.at = "invalidate"]
      [] r.kind = "process_street" /\ tries < MaxAttempts(r.kind) /\ answer \in {"busy", "server_error"} ->
           [r EXCEPT !.at = "limit", !.tries = tries,
                     !.sleep = IF answer = "busy" THEN 1 ELSE tries]
      [] r.kind # "process_street" /\ tries < MaxAttempts(r.kind) /\ Transient(answer) ->
           [r EXCEPT !.tries = tries, !.sleep = Backoff(tries)]
      [] OTHER -> Done(r)

Send(c, answer) ==
    LET r == calls[c]
    IN /\ Awake(c, "send")
       /\ MayAnswer(c, answer)
       /\ Become(c, AfterSend(r, answer, r.tries + 1))
       /\ \E done \in CarriedOut(answer) : effects' = [effects EXCEPT ![c] = @ + done]
       /\ rejected' = IF r.kind \in Dropbox /\ answer = "unauthorized" /\ ~r.second
                      THEN [rejected EXCEPT ![c] = r.held] ELSE rejected
       /\ UNCHANGED <<limiterVars, token, lock, live, issued>>

-----------------------------------------------------------------------------
CallSteps == {"limit", "token", "refresh", "invalidate", "send"}
\* A task that could run now; waiting for the mutex is not running.
Runnable(c) ==
    /\ calls[c].at \in CallSteps /\ calls[c].sleep = 0
    /\ calls[c].at \in {"token", "invalidate"} => lock = NoCall

Older(ages, cap) == [i \in DOMAIN ages |-> IF ages[i] < cap THEN ages[i] + 1 ELSE cap]

\* One tick: sleeps shorten, admissions age. It is only of interest while a call
\* sleeps or an admission is still inside its window. How long a call has waited
\* to be admitted is counted where delays of the scheduler are excluded.
Tick ==
    /\ Prompt => \A c \in Calls : ~Runnable(c)
    /\ \/ \E c \in Calls : calls[c].sleep > 0
       \/ \E l \in Limiters : recent[l] # <<>>
    /\ calls' = [c \in Calls |->
                   [calls[c] EXCEPT
                      !.sleep = IF @ > 0 THEN @ - 1 ELSE 0,
                      !.waited = IF Prompt /\ calls[c].at = "limit" /\ calls[c].tries = 0
                                 THEN @ + 1 ELSE @]]
    /\ admitted' = [l \in Limiters |-> Older(admitted[l], Window)]
    /\ recent' = [l \in Limiters |->
                    SelectSeq(Older(recent[l], Window), LAMBDA age : age < Window)]
    /\ UNCHANGED <<dropboxVars, effects>>

Step(c) ==
    \/ Acquire(c) \/ TakeToken(c) \/ InvalidateToken(c)
    \/ \E answer \in Answers : Refresh(c, answer) \/ Send(c, answer)

-----------------------------------------------------------------------------
\* Every variable stays in its range.
UpstreamTypeOK ==
    /\ \A c \in Calls :
         /\ calls[c].at \in CallSteps \cup {"idle", "done"}
         /\ calls[c].kind \in Kinds
         /\ calls[c].tries \in 0..3 /\ calls[c].sleep \in 0..(Window + 4)
    /\ \A l \in Limiters : \A i \in DOMAIN admitted[l] : admitted[l][i] \in 0..Window
    /\ token.id \in 0..MaxTokens
    /\ lock \in Calls \cup {NoCall}

\* Whatever order callers arrive, wait and wake in, and however often a call is
\* tried again, no span of Window ticks holds more than Limit admissions of a
\* limiter: what keeps the program under the services' own limits.
WindowIsRespected == \A l \in Limiters : Len(recent[l]) <= Limit

\* A comment, a status change or an upload is never carried out twice by one
\* call: when the answer is lost nobody knows whether the service acted, so a
\* write is sent exactly once.
WritesHappenOnce == \A c \in Calls : calls[c].kind \in Writes => effects[c] <= 1

\* The second round after a 401 never presents the token Dropbox just refused,
\* even when other calls refresh or drop the shared token in between.
SecondRoundHasFreshToken ==
    \A c \in Calls :
        calls[c].at = "send" /\ calls[c].second => calls[c].held # rejected[c]

\* The token mutex is held exactly while its holder refreshes, so no finished
\* call leaves every other Dropbox call waiting.
LockIsForRefresh ==
    /\ lock # NoCall => calls[lock].at = "refresh"
    /\ \A c \in Calls : calls[c].at = "refresh" => lock = c

=============================================================================
