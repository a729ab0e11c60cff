------------------------ MODULE IntegrationSettings -------------------------
(* The integration settings pages and what runs on them: the rows of           *)
(* src/src/api/process_street_settings.rs and dropbox_settings.rs, the clients *)
(* src/src/startup/state.rs builds from them, the timer of                     *)
(* src/src/clients/sync/orchestrator/schedule.rs and the task names of         *)
(* src/src/api/process_street_task_roles.rs. An hour is the unit of time; a    *)
(* zone has one change of its offset. A task role's save is one READ COMMITTED *)
(* transaction, an action of it one statement. A refused request is a stutter. *)
EXTENDS Integers, Sequences, FiniteSets, SequencesExt

CONSTANTS
    Zones,         \* zone name -> [before, after, at]: its offset, and when it changes
    Schedules,     \* the schedules a save may hold
    Configs,       \* the credentials a save or the environment may hold
    Updates,       \* the saves of the task role; each is made at most once
    NameLists,     \* the name lists a save may hold
    FoldName,      \* name -> lower(btrim(name)), "" for a blank one
    StartHour,     \* when the process starts
    MaxHour,       \* bound on the time
    RunHours,      \* how long a sync may take
    MaxSaves       \* bound on the saves of the schedule and the credentials

VARIABLES
    schedule,      \* the schedule columns of process_street_settings
    clock,         \* the hour, UTC
    timer,         \* the background task, and history: its last two ticks
    stored,        \* integration -> its saved credentials, as a set of at most one
    environment,   \* integration -> its variables, as a set of at most one
    masterKey,     \* INTEGRATION_SECRETS_ENCRYPTION_KEY of this process
    client,        \* integration -> the credentials the process runs on
    savedSince,    \* the integrations saved since the process started
    savesMade,     \* counts the saves, against MaxSaves
    taskNames,     \* the committed rows of ps_task_role_name
    nextNameId,
    roleUpdates,       \* update -> its open transaction
    roleLog        \* history: [saved, contended]

timerVars == <<schedule, clock, timer>>
configVars == <<stored, environment, masterKey, client, savedSince>>
roleVars == <<taskNames, nextNameId, roleUpdates, roleLog>>
settingsVars == <<timerVars, configVars, savesMade, roleVars>>

None == "none"
Integrations == {"dropbox", "process_street"}

-----------------------------------------------------------------------------
(* The settings pages, the schedule and the timer                            *)

\* sync_timezone is None and sync_time -1 when NULL.
Interval(h) == [mode |-> "interval", hours |-> h, time |-> -1, zone |-> None]
default_schedule_config == Interval(24)

\* secrets::encrypt and decrypt: a blob opens under the key it was sealed with.
encrypt(c) == [sealed |-> c, under |-> masterKey]
decrypts(row) == row.under = masterKey

SaveCredentials(i, c) ==
    /\ savesMade < MaxSaves /\ savesMade' = savesMade + 1
    /\ stored' = [stored EXCEPT ![i] = {encrypt(c)}]
    /\ savedSince' = savedSince \cup {i}
    /\ UNCHANGED <<environment, masterKey, client>>

\* update_settings of the Process Street page: the request's fields in the order
\* they are checked, the clock time and the zone only for daily_time.
update_process_street(r, c) ==
    /\ r.mode \in {"interval", "daily_time"}
    /\ r.hours \in 1 .. 168
    /\ r.mode = "daily_time" => r.time \in 0 .. 23 /\ r.zone \in DOMAIN Zones
    /\ schedule' = IF r.mode = "daily_time" THEN r ELSE Interval(r.hours)
    /\ SaveCredentials("process_street", c)
    /\ UNCHANGED <<clock, timer, roleVars>>
\* update_settings of the Dropbox page.
update_dropbox(c) == SaveCredentials("dropbox", c) /\ UNCHANGED <<timerVars, roleVars>>

Local(z, t) == t + (IF t < Zones[z].at THEN Zones[z].before ELSE Zones[z].after)
Date(z, t) == Local(z, t) \div 24
\* from_local_datetime: none, one or two instants.
InstantsOf(z, naive) ==
    {t \in {naive - Zones[z].before, naive - Zones[z].after} : Local(z, t) = naive}
Earliest(S) == CHOOSE t \in S : \A u \in S : t <= u

resolve(z, naive, fallback) ==
    IF InstantsOf(z, naive) # {} THEN Earliest(InstantsOf(z, naive))
    ELSE IF Cardinality(InstantsOf(z, naive + 1)) = 1 THEN Earliest(InstantsOf(z, naive + 1))
    ELSE fallback

\* Mutant: of a clock time the date has twice, the second counts too.
next_daily_occurrence_twice(now, time, z) ==
    LET today == 24 * Date(z, now) + time
        at == resolve(z, today, now)
        later == {t \in InstantsOf(z, today) : t > now}
    IN IF later # {} THEN Earliest(later)
       ELSE IF at > now THEN at ELSE resolve(z, today + 24, now)
next_daily_occurrence(now, time, z) ==
    LET today == 24 * Date(z, now) + time
        at == resolve(z, today, now)
    IN IF at > now THEN at ELSE resolve(z, today + 24, now)

\* The length of the sleep a schedule asks for.
sleep_duration(s) ==
    IF s.mode # "daily_time" THEN IF s.hours < 1 THEN 1 ELSE s.hours
    ELSE IF s.time \in 0 .. 23 /\ s.zone \in DOMAIN Zones
         THEN next_daily_occurrence(clock, s.time, s.zone) - clock
         ELSE default_schedule_config.hours

\* sleep_until_next_scheduled_sync: fetch_schedule_config, or its default when
\* the read fails, and the sleep.
sleep_until_next_scheduled_sync(read) ==
    LET s == IF read THEN schedule ELSE default_schedule_config
    IN /\ timer.at = "loop"
       /\ timer' = [timer EXCEPT !.at = "asleep", !.wake = clock + sleep_duration(s),
                                 !.slept = clock, !.plan = s]
       /\ UNCHANGED <<schedule, clock, configVars, savesMade, roleVars>>

\* The loop after the sleep: the run, or the tick skipped because one is running.
Wake(claimed) ==
    /\ timer.at = "asleep" /\ clock = timer.wake
    /\ timer' = [timer EXCEPT !.at = IF claimed THEN "running" ELSE "loop",
                              !.before = timer.last,
                              !.last = [hour |-> clock, plan |-> timer.plan, slept |-> timer.slept]]
    /\ UNCHANGED <<schedule, clock, configVars, savesMade, roleVars>>
RunEnds(hours) ==
    /\ timer.at = "running"
    /\ clock' = clock + hours
    /\ timer' = [timer EXCEPT !.at = "loop"]
    /\ UNCHANGED <<schedule, configVars, savesMade, roleVars>>

\* Time passes to the end of the sleep.
SleepEnds ==
    /\ timer.at = "asleep" /\ clock < timer.wake /\ timer.wake <= MaxHour
    /\ clock' = timer.wake
    /\ UNCHANGED <<schedule, timer, configVars, savesMade, roleVars>>

-----------------------------------------------------------------------------
(* Credentials                                                                *)

\* What a SELECT returns of a settings table: its policy shows the row to a
\* transaction that has set the user, and the pool has set none.
RowsSeen(i, hasUser) == IF hasUser THEN stored[i] ELSE {}

\* resolve and get_settings: the saved credentials or the environment's, "failed"
\* when they do not decrypt.
get_settings(i) ==
    IF RowsSeen(i, TRUE) = {} THEN environment[i]
    ELSE LET row == CHOOSE r \in RowsSeen(i, TRUE) : TRUE
         IN IF decrypts(row) THEN {row.sealed} ELSE {"failed"}

\* from_db on the pool; a read that fails and a row that does not decrypt are
\* both Err, for which the caller falls back as for no row.
from_db(i, key) ==
    {r.sealed : r \in {s \in RowsSeen(i, FALSE) : s.under = key}}

-----------------------------------------------------------------------------
(* The names of a task role                                                   *)

NoUpdate == [at |-> "none", names |-> <<>>, left |-> <<>>, seen |-> {}, gone |-> {}, put |-> {}]
OpenUpdate(u) == roleUpdates[u].at \notin {"none", "done"}
OtherUpdates(u) == {v \in Updates \ {u} : OpenUpdate(v)}
Keys(rows) == {FoldName[r.name] : r \in rows}
UpdateStep(u, r) ==
    /\ roleUpdates' = [roleUpdates EXCEPT ![u] = r]
    /\ UNCHANGED <<timerVars, configVars, savesMade>>

\* normalize_names: blanks dropped, and the later spellings of a name.
normalize_names(raw) ==
    LET keep(i) == /\ FoldName[raw[i]] # ""
                   /\ \A j \in 1 .. i - 1 : FoldName[raw[j]] # FoldName[raw[i]]
        kept == SetToSortSeq({i \in DOMAIN raw : keep(i)}, <)
    IN [k \in DOMAIN kept |-> raw[kept[k]]]

update_task_role(u, raw) ==
    /\ roleUpdates[u] = NoUpdate /\ normalize_names(raw) # <<>>
    /\ UpdateStep(u, [NoUpdate EXCEPT !.at = "delete", !.names = normalize_names(raw),
                                      !.left = normalize_names(raw)])
    /\ roleLog' = [roleLog EXCEPT !.contended = @ \/ OtherUpdates(u) # {}]
    /\ UNCHANGED <<taskNames, nextNameId>>

\* The DELETE of the names that went: its snapshot, then the rows once nobody
\* else is deleting them.
Named(u, r) == \E n \in Range(roleUpdates[u].names) : FoldName[n] = FoldName[r.name]
StartDeleteNames(u) ==
    /\ roleUpdates[u].at = "delete"
    /\ UpdateStep(u, [roleUpdates[u] EXCEPT !.at = "deleting",
                        !.seen = {r \in taskNames \cup roleUpdates[u].put : ~Named(u, r)}])
    /\ UNCHANGED <<taskNames, nextNameId, roleLog>>
DeleteNames(u) ==
    /\ roleUpdates[u].at = "deleting"
    /\ \A v \in OtherUpdates(u) : roleUpdates[u].seen \cap roleUpdates[v].gone = {}
    /\ UpdateStep(u, [roleUpdates[u] EXCEPT !.at = "insert", !.gone = roleUpdates[u].seen \cap taskNames])
    /\ UNCHANGED <<taskNames, nextNameId, roleLog>>

\* One INSERT ... ON CONFLICT DO NOTHING: it waits for an open transaction that
\* has inserted or is deleting a row of the key.
InsertName(u) ==
    LET n == Head(roleUpdates[u].left)
    IN /\ roleUpdates[u].at = "insert" /\ roleUpdates[u].left # <<>>
       /\ \A v \in OtherUpdates(u) : FoldName[n] \notin Keys(roleUpdates[v].put \cup roleUpdates[v].gone)
       /\ IF FoldName[n] \in Keys((taskNames \ roleUpdates[u].gone) \cup roleUpdates[u].put)
          THEN /\ UpdateStep(u, [roleUpdates[u] EXCEPT !.left = Tail(@)])
               /\ UNCHANGED nextNameId
          ELSE /\ UpdateStep(u, [roleUpdates[u] EXCEPT !.left = Tail(@),
                                   !.put = @ \cup {[id |-> nextNameId, name |-> n]}])
               /\ nextNameId' = nextNameId + 1
       /\ UNCHANGED <<taskNames, roleLog>>

CommitNames(u) ==
    /\ roleUpdates[u].at = "insert" /\ roleUpdates[u].left = <<>>
    /\ taskNames' = (taskNames \ roleUpdates[u].gone) \cup roleUpdates[u].put
    /\ roleLog' = [roleLog EXCEPT !.saved = {FoldName[n] : n \in Range(roleUpdates[u].names)}]
    /\ UpdateStep(u, [NoUpdate EXCEPT !.at = "done"])
    /\ UNCHANGED nextNameId

\* A statement or the commit fails, an aborted deadlock among the reasons.
UpdateFails(u) ==
    /\ OpenUpdate(u)
    /\ UpdateStep(u, [NoUpdate EXCEPT !.at = "done"])
    /\ UNCHANGED <<taskNames, nextNameId, roleLog>>

\* build: a start with this environment and key. The process does not start
\* without a Dropbox configuration, and does without one of Process Street. The
\* timer starts over and the transactions that were open are rolled back.
Restart(env, key) ==
    LET config(i) == IF from_db(i, key) # {} THEN from_db(i, key) ELSE env[i]
    IN /\ config("dropbox") # {}
       /\ environment' = env /\ masterKey' = key
       /\ client' = [i \in Integrations |-> config(i)]
       /\ savedSince' = {}
       /\ timer' = [timer EXCEPT !.at = "loop"]
       /\ roleUpdates' = [u \in Updates |-> IF OpenUpdate(u) THEN [NoUpdate EXCEPT !.at = "done"]
                                          ELSE roleUpdates[u]]
       /\ UNCHANGED <<schedule, clock, stored, savesMade, taskNames, nextNameId, roleLog>>

-----------------------------------------------------------------------------
NoTick == [hour |-> -1, plan |-> default_schedule_config, slept |-> -1]
\* The migrations seed a 24 hour interval and the names of the old and the new step.
SettingsInit(seeded) ==
    /\ schedule = default_schedule_config /\ clock = StartHour
    /\ timer = [at |-> "loop", wake |-> StartHour, slept |-> StartHour,
                plan |-> default_schedule_config, last |-> NoTick, before |-> NoTick]
    /\ stored = [i \in Integrations |-> {}]
    /\ environment \in [Integrations -> {{}} \cup {{c} : c \in Configs}]
    /\ environment["dropbox"] # {}
    /\ masterKey = 1 /\ client = environment /\ savedSince = {} /\ savesMade = 0
    /\ taskNames = {[id |-> i, name |-> seeded[i]] : i \in DOMAIN seeded}
    /\ nextNameId = Len(seeded) + 1
    /\ roleUpdates = [u \in Updates |-> NoUpdate]
    /\ roleLog = [saved |-> {FoldName[n] : n \in Range(seeded)}, contended |-> FALSE]

TimerStep(c) ==
    \/ \E r \in Schedules : update_process_street(r, c)
    \/ \E read \in BOOLEAN : sleep_until_next_scheduled_sync(read)
    \/ \E claimed \in BOOLEAN : Wake(claimed)
    \/ \E h \in RunHours : RunEnds(h)
    \/ SleepEnds
RoleStep(u) ==
    \/ \E raw \in NameLists : update_task_role(u, raw)
    \/ StartDeleteNames(u) \/ DeleteNames(u) \/ InsertName(u) \/ CommitNames(u) \/ UpdateFails(u)

-----------------------------------------------------------------------------
(* Properties                                                                 *)

\* Two daily ticks in a row of the same plan are never of the same local date,
\* also when the date has the hour twice, and no date between them is skipped
\* unless the run lasted past its occurrence.
OneDailyTickPerDate ==
    LET a == timer.before b == timer.last z == b.plan.zone
    IN a.hour >= 0 /\ a.plan = b.plan /\ b.plan.mode = "daily_time" =>
         /\ Date(z, a.hour) < Date(z, b.hour)
         /\ b.slept < a.hour + 22 => Date(z, b.hour) = Date(z, a.hour) + 1

\* "A saved change here takes effect on the next server start": until the next
\* save, the page shows the credentials the process runs on.
StartRunsOnThePage ==
    \A i \in Integrations \ savedSince :
      get_settings(i) = {"failed"} \/ get_settings(i) = client[i]

=============================================================================
