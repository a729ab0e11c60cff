---------------------------- MODULE SweepSchedule ----------------------------
(***************************************************************************)
(* When a DurableSessionStore looks at its table: the SweepSchedule, the   *)
(* writes that move it, the task that waits on it and sweep_once.          *)
(*                                                                         *)
(* A row is known by its last_accessed.  A write notes the schedule at     *)
(* once and its upsert lands later, up to WriteLag; the sweep starts, and  *)
(* takes, up to SweepLag.  The clock starts at IdleTimeout, so that rows   *)
(* left by an earlier process can have any age.                            *)
(***************************************************************************)
EXTENDS Integers, FiniteSetsExt

CONSTANTS
    RowIds, NoTime,
    IdleTimeout,       \* idle timeout of the sessions
    Grace,         \* SweepTiming::grace
    StartupDelay,  \* SweepTiming::startup_delay
    MinSpacing,    \* MIN_SWEEP_SPACING
    RetryDelay,    \* SWEEP_RETRY_DELAY
    WriteLag,      \* longest time between note_write and the upsert
    SweepLag,      \* longest time from due to the start, and from start to end
    MayRefuse,       \* whether Postgres may refuse a statement
    Horizon, MaxReboots

ASSUME ScheduleAssumption ==
    /\ {IdleTimeout, Grace, StartupDelay, MinSpacing, RetryDelay, WriteLag, SweepLag,
        Horizon, MaxReboots} \subseteq Nat
    /\ MayRefuse \in BOOLEAN
    /\ IdleTimeout + Grace >= MinSpacing /\ RetryDelay >= MinSpacing
    /\ MinSpacing > 0 /\ Grace > 0
    /\ WriteLag <= IdleTimeout
    /\ NoTime \notin Nat

VARIABLES
    elapsed,
    due,       \* State::due
    gap,       \* State::write_in_gap
    sessionRows, \* [Ids -> last_accessed or NoTime]
    writes,    \* upserts spawned and not yet run
    pass,     \* the sweep in progress
    reboots,
    planned,   \* history: when the last sweep armed the schedule, or NoTime
    disturbed, \* history: whether a sweep failed or missed a row, or the process restarted
    overtaken  \* history: whether the last look missed a write that counted on it

dueAndGap == <<due, gap>>
scheduleVars ==
    <<elapsed, dueAndGap, sessionRows, writes, pass, reboots, planned, disturbed, overtaken>>

NoPass == [pc |-> "waiting", gap |-> FALSE, oldest |-> NoTime, fell |-> 0, began |-> 0]

-----------------------------------------------------------------------------
(* SweepSchedule.                                                          *)

\* The schedule after each of the given instants was passed to lower_to.
lower_to(d, instants) == Min(instants \cup (IF d = NoTime THEN {} ELSE {d}))

\* Mutant: a write after the sweep fell due is taken to be covered by it.
note_write_no_gap(expires_at) ==
    IF due = NoTime \/ (due > elapsed /\ expires_at < due)
    THEN due' = expires_at /\ UNCHANGED gap
    ELSE UNCHANGED dueAndGap

note_write(expires_at) ==
    IF due = NoTime THEN due' = expires_at /\ UNCHANGED gap
    ELSE IF due <= elapsed THEN gap' = TRUE /\ UNCHANGED due
    ELSE IF expires_at < due THEN due' = expires_at /\ UNCHANGED gap
    ELSE UNCHANGED dueAndGap

begin_sweep == due' = NoTime /\ gap' = FALSE

-----------------------------------------------------------------------------
(* Writers.                                                                *)

SpawnWrite(id) ==
    /\ note_write(elapsed + IdleTimeout + Grace)
    /\ writes' = writes \cup {[id |-> id, last |-> elapsed]}
    /\ UNCHANGED <<elapsed, sessionRows, pass, reboots, planned, disturbed, overtaken>>

UpsertRow(w) ==
    /\ writes' = writes \ {w}
    /\ sessionRows' = [sessionRows EXCEPT ![w.id] = w.last]
    /\ UNCHANGED <<elapsed, dueAndGap, pass, reboots, planned, disturbed, overtaken>>

UpsertFails(w) ==
    /\ MayRefuse
    /\ writes' = writes \ {w}
    /\ UNCHANGED <<elapsed, dueAndGap, sessionRows, pass, reboots, planned, disturbed, overtaken>>

\* delete, or a stale row found at rehydration.
DeleteRow(id) ==
    /\ sessionRows[id] # NoTime
    /\ sessionRows' = [sessionRows EXCEPT ![id] = NoTime]
    /\ UNCHANGED <<elapsed, dueAndGap, writes, pass, reboots, planned, disturbed, overtaken>>

-----------------------------------------------------------------------------
(* The task: wait for the instant, then sweep_once.                        *)

StartSweep ==
    /\ pass.pc = "waiting"
    /\ due # NoTime /\ due <= elapsed
    /\ begin_sweep
    /\ pass' = [NoPass EXCEPT !.pc = "delete", !.gap = gap,
                            !.fell = due, !.began = elapsed]
    /\ UNCHANGED <<elapsed, sessionRows, writes, reboots, planned, disturbed, overtaken>>

\* Mutant: the timeout is compared in the wrong unit.
ExpiredInMillis(id) ==
    sessionRows[id] # NoTime /\ sessionRows[id] < elapsed - 1000 * IdleTimeout

Expired(id) == sessionRows[id] # NoTime /\ sessionRows[id] < elapsed - IdleTimeout

delete_expired ==
    /\ pass.pc = "delete"
    /\ sessionRows' = [id \in RowIds |-> IF Expired(id) THEN NoTime ELSE sessionRows[id]]
    /\ pass' = [pass EXCEPT !.pc = "look"]
    /\ UNCHANGED <<elapsed, dueAndGap, writes, reboots, planned, disturbed, overtaken>>

oldest_row_epoch ==
    LET present == {sessionRows[id] : id \in RowIds} \ {NoTime} IN
    /\ pass.pc = "look"
    /\ pass' = [pass EXCEPT !.pc = "arm",
                              !.oldest = IF present = {} THEN NoTime ELSE Min(present)]
    /\ overtaken' = (\E w \in writes : w.last < pass.fell)
    /\ disturbed' = (disturbed \/ overtaken')
    /\ UNCHANGED <<elapsed, dueAndGap, sessionRows, writes, reboots, planned>>

\* The next sweep: for the oldest row left, and for a write in the gap.
Rearm ==
    LET next == (IF pass.oldest = NoTime THEN {}
                 ELSE {Max({pass.oldest + IdleTimeout + Grace, elapsed + MinSpacing})})
                  \cup (IF pass.gap THEN {elapsed + IdleTimeout + Grace} ELSE {})
    IN
    /\ pass.pc = "arm"
    /\ due' = IF next = {} THEN due ELSE lower_to(due, next)
    /\ pass' = NoPass
    /\ planned' = elapsed
    /\ UNCHANGED <<elapsed, gap, sessionRows, writes, reboots, disturbed, overtaken>>

\* Either statement fails: retry later.
SweepFails ==
    /\ MayRefuse
    /\ pass.pc \in {"delete", "look"}
    /\ due' = lower_to(due, {elapsed + RetryDelay})
    /\ pass' = NoPass
    /\ planned' = elapsed
    /\ disturbed' = TRUE
    /\ UNCHANGED <<elapsed, gap, sessionRows, writes, reboots, overtaken>>

\* The process starts again: start_cleanup_task with an empty schedule.
ProcessRestart ==
    /\ reboots < MaxReboots
    /\ reboots' = reboots + 1
    /\ due' = elapsed + StartupDelay
    /\ gap' = FALSE
    /\ writes' = {}
    /\ pass' = NoPass
    /\ planned' = NoTime
    /\ disturbed' = TRUE
    /\ overtaken' = FALSE
    /\ UNCHANGED <<elapsed, sessionRows>>

ClockTick ==
    /\ elapsed < Horizon
    /\ \A w \in writes : elapsed - w.last < WriteLag
    /\ pass.pc = "waiting" /\ due # NoTime => elapsed < due + SweepLag
    /\ pass.pc # "waiting" => elapsed < pass.began + SweepLag
    /\ elapsed' = elapsed + 1
    /\ UNCHANGED <<dueAndGap, sessionRows, writes, pass, reboots, planned, disturbed, overtaken>>

-----------------------------------------------------------------------------
ScheduleInit ==
    /\ elapsed = IdleTimeout
    /\ due = IdleTimeout + StartupDelay
    /\ gap = FALSE
    /\ sessionRows \in [RowIds -> (0 .. IdleTimeout) \cup {NoTime}]
    /\ writes = {}
    /\ pass = NoPass
    /\ reboots = 0
    /\ planned = NoTime
    /\ disturbed = FALSE
    /\ overtaken = FALSE

PassStep ==
    StartSweep \/ delete_expired \/ oldest_row_epoch \/ Rearm \/ SweepFails

ScheduleNext ==
    \/ \E id \in RowIds : SpawnWrite(id) \/ DeleteRow(id)
    \/ \E w \in writes : UpsertRow(w) \/ UpsertFails(w)
    \/ PassStep
    \/ ProcessRestart
    \/ ClockTick

ScheduleSpec == ScheduleInit /\ [][ScheduleNext]_scheduleVars

-----------------------------------------------------------------------------
(* Properties.                                                             *)

\* Types of the schedule and of the table.
ScheduleTypeOK ==
    /\ elapsed \in Nat
    /\ due \in Nat \cup {NoTime}
    /\ gap \in BOOLEAN
    /\ sessionRows \in [RowIds -> Nat \cup {NoTime}]
    /\ writes \subseteq [id : RowIds, last : Nat]
    /\ pass.gap \in BOOLEAN

\* As long as the table has a row, or will have one once a spawned upsert
\* lands, a sweep is scheduled or under way: no row is left behind for ever.
\* The one exception is a write noted before the last sweep fell due, which
\* note_write leaves to that sweep, and whose upsert was still on its way when
\* the sweep looked for the oldest row.
RowsAreScheduled ==
    pass.pc = "waiting" /\ due = NoTime /\ ~overtaken
        => writes = {} /\ \A id \in RowIds : sessionRows[id] = NoTime

\* A row is gone soon after its expiry: within the grace period, or the
\* spacing of the sweeps if that is longer, and the time the sweeps take, as
\* long as no sweep has failed or was overtaken and the process has not
\* restarted.
RowsDoNotLinger ==
    \A id \in RowIds : sessionRows[id] # NoTime /\ ~disturbed =>
        elapsed <= sessionRows[id] + IdleTimeout + Max({Grace, MinSpacing, StartupDelay}) + 4 * SweepLag

=============================================================================
