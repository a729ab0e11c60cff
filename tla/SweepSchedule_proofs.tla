------------------------ MODULE SweepSchedule_proofs ------------------------
(***************************************************************************)
(* Proofs about the sweep schedule, for any set of sessions and any timing *)
(* that satisfies ScheduleAssumption.                                      *)
(***************************************************************************)
EXTENDS SweepSchedule, WellFoundedInduction, TLAPS

PassType ==
    [pc : {"waiting", "delete", "look", "arm"}, gap : BOOLEAN,
     oldest : Nat \cup {NoTime}, fell : Nat, began : Nat]

Typed ==
    /\ elapsed \in Nat
    /\ due \in Nat \cup {NoTime}
    /\ gap \in BOOLEAN
    /\ sessionRows \in [RowIds -> Nat \cup {NoTime}]
    /\ writes \subseteq [id : RowIds, last : Nat]
    /\ pass \in PassType
    /\ disturbed \in BOOLEAN /\ overtaken \in BOOLEAN

\* A sweep starts, and ends, within SweepLag; a write lands within WriteLag.
Timely ==
    /\ pass.pc = "waiting" /\ due # NoTime => elapsed <= due + SweepLag
    /\ pass.pc # "waiting" =>
         /\ pass.fell <= pass.began /\ pass.began <= pass.fell + SweepLag
         /\ pass.began <= elapsed /\ elapsed <= pass.began + SweepLag
         /\ due # NoTime => pass.began <= due
    /\ \A w \in writes : w.last <= elapsed /\ elapsed <= w.last + WriteLag

\* A write on its way was noted before the sweep it counts on fell due, or in
\* the gap.
Noted ==
    /\ due # NoTime /\ ~gap => \A w \in writes : w.last < due
    /\ pass.pc \in {"delete", "look"} /\ due = NoTime /\ ~pass.gap =>
         \A w \in writes : w.last < pass.fell

\* A schedule about to be, or left, empty has nothing to sweep.
NothingLeft ==
    /\ pass.pc = "arm" /\ due = NoTime /\ pass.oldest = NoTime /\ ~pass.gap /\ ~overtaken =>
         writes = {} /\ \A id \in RowIds : sessionRows[id] = NoTime
    /\ RowsAreScheduled

\* The longest time after its expiry that a row is due for a sweep.
Slack == Max({Grace, MinSpacing, StartupDelay})

\* A sweep is scheduled in time for a session last accessed at v.
ByDue(v) == due # NoTime /\ due <= v + IdleTimeout + Slack + 2 * SweepLag

\* A session last accessed at v was written in the gap of the sweep to come,
ByGap(v) == due # NoTime /\ gap /\ due <= v

\* or of the sweep in progress.
ByPassGap(v) == pass.pc # "waiting" /\ pass.gap /\ pass.fell <= v

\* The sweep in progress deletes the row, unless it is too young,
ByPass(v) ==
    pass.pc = "delete" /\ pass.fell <= v + IdleTimeout + Slack + 2 * SweepLag

\* and then the next sweep is planned for it.
Young(v) ==
    /\ pass.pc \in {"delete", "look", "arm"}
    /\ pass.began <= v + IdleTimeout
    /\ pass.pc = "arm" => pass.oldest # NoTime /\ pass.oldest <= v

RowCovered(v) == ByDue(v) \/ ByGap(v) \/ ByPassGap(v) \/ ByPass(v) \/ Young(v)

WriteCovered(v) ==
    ByDue(v) \/ ByGap(v) \/ ByPassGap(v) \/ (pass.pc \in {"delete", "look"} /\ v < pass.fell)

\* Undisturbed, some sweep takes care of every row and of every row to come.
Covered ==
    ~disturbed =>
        /\ \A id \in RowIds : sessionRows[id] # NoTime => RowCovered(sessionRows[id])
        /\ \A w \in writes : WriteCovered(w.last)

IInv == Typed /\ Timely /\ Noted /\ NothingLeft /\ Covered

-----------------------------------------------------------------------------
(* The smallest element of a set of times.                                 *)

\* Min of FiniteSetsExt is the least element of a nonempty set of times.
LEMMA LeastTime ==
    ASSUME NEW S \in SUBSET Nat, S # {}
    PROVE  Min(S) \in S /\ \A t \in S : Min(S) <= t
<1> DEFINE R == {p \in Nat \X Nat : p[1] < p[2]}
<1>1. IsWellFoundedOn(R, Nat)
  BY NatLessThanWellFounded DEF OpToRel
<1>2. \E t \in S : \A u \in S : ~(<<u, t>> \in R)
  <2> HIDE DEF R
  <2> QED BY <1>1, WFMin
<1>3. \E t \in S : \A u \in S : t <= u
  <2>1. PICK t \in S : \A u \in S : ~(<<u, t>> \in R)
    BY <1>2
  <2>2. \A u \in S : ~(u < t)
    BY <2>1
  <2>3. \A u \in S : t <= u
    BY <2>2
  <2> QED BY <2>3
<1> QED BY <1>3 DEF Min

\* Max of FiniteSetsExt, on the two times Rearm compares.
LEMMA LatestOfTwo ==
    ASSUME NEW a \in Nat, NEW b \in Nat
    PROVE  Max({a, b}) \in {a, b} /\ Max({a, b}) >= a /\ Max({a, b}) >= b
<1>1. \E t \in {a, b} : \A u \in {a, b} : t >= u
  <2>1. CASE a >= b
    BY <2>1
  <2>2. CASE b >= a
    BY <2>2
  <2> QED BY <2>1, <2>2
<1> QED BY <1>1 DEF Max

\* The constants, one by one.
LEMMA Times ==
    /\ IdleTimeout \in Nat /\ Grace \in Nat /\ StartupDelay \in Nat /\ MinSpacing \in Nat
    /\ RetryDelay \in Nat /\ WriteLag \in Nat /\ SweepLag \in Nat
    /\ RetryDelay >= MinSpacing /\ MinSpacing > 0 /\ Grace > 0
    /\ WriteLag <= IdleTimeout /\ NoTime \notin Nat
BY ScheduleAssumption

\* Slack bounds the three delays.
LEMMA SlackBounds ==
    Slack \in Nat /\ Slack >= Grace /\ Slack >= MinSpacing /\ Slack >= StartupDelay
<1> USE Times
<1>1. \E t \in {Grace, MinSpacing, StartupDelay} : \A u \in {Grace, MinSpacing, StartupDelay} : t >= u
  <2>1. CASE Grace >= MinSpacing /\ Grace >= StartupDelay
    BY <2>1
  <2>2. CASE MinSpacing >= Grace /\ MinSpacing >= StartupDelay
    BY <2>2
  <2>3. CASE StartupDelay >= Grace /\ StartupDelay >= MinSpacing
    BY <2>3
  <2> QED BY <2>1, <2>2, <2>3
<1>2. Slack \in {Grace, MinSpacing, StartupDelay} /\ \A u \in {Grace, MinSpacing, StartupDelay} : Slack >= u
  BY <1>1 DEF Slack, Max
<1> QED BY <1>2

\* lower_to moves the schedule to the earliest of the instants, or leaves it
\* where it is if it was earlier.
LEMMA LowerTo ==
    ASSUME NEW d \in Nat \cup {NoTime}, NEW instants \in SUBSET Nat, instants # {}
    PROVE  /\ lower_to(d, instants) \in Nat
           /\ lower_to(d, instants) \in instants \/ lower_to(d, instants) = d
           /\ \A t \in instants : lower_to(d, instants) <= t
           /\ d # NoTime => lower_to(d, instants) <= d
<1> DEFINE S == instants \cup (IF d = NoTime THEN {} ELSE {d})
<1>1. S \in SUBSET Nat /\ S # {}
  OBVIOUS
<1>2. Min(S) \in S /\ \A t \in S : Min(S) <= t
  BY <1>1, LeastTime
<1> QED BY <1>1, <1>2 DEF lower_to

-----------------------------------------------------------------------------
(* The inductive invariant.                                                *)

\* The task at rest.
LEMMA NoPassType == NoPass \in PassType /\ NoPass.pc = "waiting"
BY DEF NoPass, PassType

\* The initial state: the sweep after the start-up delay covers every row an
\* earlier process left.
LEMMA InitIInv == ScheduleInit => IInv
<1> SUFFICES ASSUME ScheduleInit PROVE IInv
  OBVIOUS
<1> USE Times DEF ScheduleInit
<1>1. Typed
  <2>1. sessionRows \in [RowIds -> Nat \cup {NoTime}]
    <3>1. (0 .. IdleTimeout) \cup {NoTime} \subseteq Nat \cup {NoTime}
      OBVIOUS
    <3>2. sessionRows \in [RowIds -> (0 .. IdleTimeout) \cup {NoTime}]
      OBVIOUS
    <3> HIDE DEF ScheduleInit
    <3> QED BY <3>1, <3>2
  <2>2. elapsed \in Nat /\ due \in Nat /\ pass \in PassType /\ writes = {}
    BY NoPassType
  <2>3. gap \in BOOLEAN /\ disturbed \in BOOLEAN /\ overtaken \in BOOLEAN
    OBVIOUS
  <2> HIDE DEF ScheduleInit
  <2> QED BY <2>1, <2>2, <2>3 DEF Typed
<1>2. Timely
  BY NoPassType DEF Timely
<1>3. Noted /\ NothingLeft
  BY NoPassType DEF Noted, NothingLeft, RowsAreScheduled
<1>4. Covered
  <2> SUFFICES ASSUME NEW id \in RowIds, sessionRows[id] # NoTime PROVE ByDue(sessionRows[id])
    BY DEF Covered, RowCovered
  <2>1. sessionRows[id] \in 0 .. IdleTimeout
    OBVIOUS
  <2> QED BY <2>1, SlackBounds DEF ByDue
<1> QED BY <1>1, <1>2, <1>3, <1>4 DEF IInv

\* note_write: the schedule after it covers the write, and whatever the
\* schedule covered before.
LEMMA NoteWrite ==
    ASSUME IInv, note_write(elapsed + IdleTimeout + Grace)
    PROVE  /\ due' \in Nat /\ gap' \in BOOLEAN
           /\ due # NoTime => due' <= due /\ (due <= elapsed => due' = due)
           /\ gap => gap'
           /\ due' = due \/ (due' = elapsed + IdleTimeout + Grace)
           /\ ~gap' => elapsed < due'
           /\ due' <= elapsed + IdleTimeout + Grace \/ (gap' /\ due' <= elapsed)
<1> USE Times DEF note_write, dueAndGap
<1>1. elapsed \in Nat /\ due \in Nat \cup {NoTime} /\ gap \in BOOLEAN
  BY DEF IInv, Typed
<1>2. CASE due = NoTime
  BY <1>1, <1>2
<1>3. CASE due # NoTime /\ due <= elapsed
  BY <1>1, <1>3
<1>4. CASE due # NoTime /\ ~(due <= elapsed) /\ elapsed + IdleTimeout + Grace < due
  BY <1>1, <1>4
<1>5. CASE due # NoTime /\ ~(due <= elapsed) /\ ~(elapsed + IdleTimeout + Grace < due)
  BY <1>1, <1>5
<1> QED BY <1>2, <1>3, <1>4, <1>5

\* A write is noted: its row will be covered.
LEMMA SpawnWriteKeeps ==
    ASSUME IInv, NEW id \in RowIds, SpawnWrite(id)
    PROVE  IInv'
<1> USE Times, SlackBounds
<1> PICK w : w = [id |-> id, last |-> elapsed]
  OBVIOUS
<1>0. note_write(elapsed + IdleTimeout + Grace)
  BY DEF SpawnWrite
<1>1. /\ due' \in Nat /\ gap' \in BOOLEAN
      /\ due # NoTime => due' <= due /\ (due <= elapsed => due' = due)
      /\ gap => gap'
      /\ due' = due \/ (due' = elapsed + IdleTimeout + Grace)
      /\ ~gap' => elapsed < due'
      /\ due' <= elapsed + IdleTimeout + Grace \/ (gap' /\ due' <= elapsed)
  BY <1>0, NoteWrite
<1>2. /\ writes' = writes \cup {w} /\ elapsed' = elapsed /\ sessionRows' = sessionRows
      /\ pass' = pass /\ disturbed' = disturbed /\ overtaken' = overtaken
  BY DEF SpawnWrite
<1>3. w \in [id : RowIds, last : Nat] /\ w.last = elapsed
  BY DEF IInv, Typed
<1>4. Typed'
  BY <1>1, <1>2, <1>3 DEF IInv, Typed
<1>5. Timely'
  <2>1. \A x \in writes' : x.last <= elapsed /\ elapsed <= x.last + WriteLag
    BY <1>2, <1>3 DEF IInv, Typed, Timely
  <2>2. elapsed \in Nat /\ pass.began \in Nat /\ due \in Nat \cup {NoTime}
    BY DEF IInv, Typed, PassType
  <2>3. pass.pc = "waiting" => elapsed <= due' + SweepLag
    <3>1. CASE due' = due
      BY <3>1, <1>1 DEF IInv, Timely
    <3>2. CASE due' = elapsed + IdleTimeout + Grace
      BY <3>2, <2>2
    <3> QED BY <3>1, <3>2, <1>1
  <2>4. pass.pc # "waiting" => pass.began <= due'
    BY <1>1, <2>2 DEF IInv, Timely
  <2> QED BY <2>1, <2>3, <2>4, <1>2 DEF IInv, Timely
<1>6. Noted'
  <2>1. ~gap' => \A x \in writes : x.last < due'
    <3> SUFFICES ASSUME ~gap', NEW x \in writes PROVE x.last < due'
      OBVIOUS
    <3>1. x.last <= elapsed /\ x.last \in Nat
      BY DEF IInv, Typed, Timely
    <3> QED BY <3>1, <1>1 DEF IInv, Typed
  <2> QED BY <2>1, <1>1, <1>2, <1>3 DEF IInv, Typed, Noted
<1>7. NothingLeft'
  BY <1>1, <1>2 DEF NothingLeft, RowsAreScheduled
<1>8. ASSUME NEW v \in Nat
      PROVE  /\ ByDue(v) => ByDue(v)'
             /\ ByGap(v) => ByGap(v)'
             /\ ByPassGap(v) => ByPassGap(v)'
             /\ ByPass(v) => ByPass(v)'
             /\ Young(v) => Young(v)'
  BY <1>1, <1>2 DEF ByDue, ByGap, ByPassGap, ByPass, Young, IInv, Typed
<1>9. ByDue(w.last)' \/ ByGap(w.last)'
  BY <1>1, <1>2, <1>3 DEF ByDue, ByGap, IInv, Typed
<1>10. Covered'
  <2> SUFFICES ASSUME ~disturbed
               PROVE  /\ \A r \in RowIds : sessionRows[r] # NoTime => RowCovered(sessionRows[r])'
                      /\ \A x \in writes \cup {w} : WriteCovered(x.last)'
    BY <1>2 DEF Covered
  <2>1. ASSUME NEW r \in RowIds, sessionRows[r] # NoTime PROVE RowCovered(sessionRows[r])'
    <3>1. sessionRows[r] \in Nat /\ RowCovered(sessionRows[r])
      BY <2>1 DEF IInv, Typed, Covered
    <3> QED BY <3>1, <1>2, <1>8 DEF RowCovered
  <2>2. ASSUME NEW x \in writes PROVE WriteCovered(x.last)'
    <3>1. x.last \in Nat /\ WriteCovered(x.last)
      BY DEF IInv, Typed, Covered
    <3> QED BY <3>1, <1>2, <1>8 DEF WriteCovered
  <2>3. WriteCovered(w.last)'
    BY <1>3, <1>9, <1>2 DEF WriteCovered
  <2> QED BY <2>1, <2>2, <2>3
<1> QED BY <1>4, <1>5, <1>6, <1>7, <1>10 DEF IInv

\* A row or a write moves from one set to another, or goes away; the schedule
\* and the pass stay as they are.
LEMMA StillCovered ==
    ASSUME IInv, due' = due, gap' = gap, pass' = pass, NEW v \in Nat
    PROVE  /\ RowCovered(v)' = RowCovered(v)
           /\ WriteCovered(v)' = WriteCovered(v)
BY DEF RowCovered, WriteCovered, ByDue, ByGap, ByPassGap, ByPass, Young

\* The upsert lands: its row is covered by what covered the write.
LEMMA UpsertRowKeeps ==
    ASSUME IInv, NEW w \in writes, UpsertRow(w)
    PROVE  IInv'
<1> USE Times
<1>1. /\ writes' = writes \ {w} /\ sessionRows' = [sessionRows EXCEPT ![w.id] = w.last]
      /\ elapsed' = elapsed /\ due' = due /\ gap' = gap
      /\ pass' = pass /\ disturbed' = disturbed /\ overtaken' = overtaken
  BY DEF UpsertRow, dueAndGap
<1>2. w.id \in RowIds /\ w.last \in Nat
  BY DEF IInv, Typed
<1>3. Typed'
  BY <1>1, <1>2 DEF IInv, Typed
<1>4. Timely' /\ Noted'
  BY <1>1 DEF IInv, Timely, Noted
<1>5. NothingLeft'
  BY <1>1 DEF IInv, NothingLeft, RowsAreScheduled
<1>6. Covered'
  <2> SUFFICES ASSUME ~disturbed
               PROVE  /\ \A r \in RowIds : sessionRows'[r] # NoTime => RowCovered(sessionRows[r])'
                      /\ \A x \in writes' : WriteCovered(x.last)'
    BY <1>1 DEF Covered
  <2>1. ASSUME NEW r \in RowIds, sessionRows'[r] # NoTime PROVE RowCovered(sessionRows[r])'
    <3>1. PICK v : v = sessionRows'[r]
      OBVIOUS
    <3>2. v \in Nat
      BY <2>1, <3>1, <1>3 DEF Typed
    <3>3. RowCovered(v)
      <4>1. CASE r = w.id
        <5>1. v = w.last /\ WriteCovered(w.last)
          BY <4>1, <3>1, <1>1, <1>2 DEF IInv, Typed, Covered
        <5>2. pass.pc \in {"delete", "look"} /\ v < pass.fell => Young(v)
          <6>1. elapsed <= v + WriteLag
            BY <5>1 DEF IInv, Timely
          <6>2. pass.pc # "waiting" => pass.began <= elapsed
            BY DEF IInv, Timely
          <6>3. elapsed \in Nat /\ pass.began \in Nat
            BY DEF IInv, Typed, PassType
          <6>4. pass.pc \in {"delete", "look"} => pass.began <= v + IdleTimeout
            BY <6>1, <6>2, <6>3, <3>2
          <6> QED BY <6>4 DEF Young
        <5> QED BY <5>1, <5>2 DEF RowCovered, WriteCovered
      <4>2. CASE r # w.id
        <5>1. v = sessionRows[r] /\ sessionRows[r] # NoTime
          BY <4>2, <3>1, <2>1, <1>1 DEF IInv, Typed
        <5> QED BY <5>1 DEF IInv, Covered
      <4> QED BY <4>1, <4>2
    <3>4. RowCovered(v)'
      BY <3>2, <3>3, <1>1, StillCovered
    <3> QED BY <3>1, <3>4
  <2>2. ASSUME NEW x \in writes' PROVE WriteCovered(x.last)'
    <3>1. x \in writes /\ x.last \in Nat /\ WriteCovered(x.last)
      BY <1>1 DEF IInv, Typed, Covered
    <3> QED BY <3>1, <1>1, StillCovered
  <2> QED BY <2>1, <2>2
<1> QED BY <1>3, <1>4, <1>5, <1>6 DEF IInv

\* A refused upsert leaves the table as it was.
LEMMA UpsertFailsKeeps ==
    ASSUME IInv, NEW w \in writes, UpsertFails(w)
    PROVE  IInv'
<1> USE Times
<1>1. /\ writes' = writes \ {w} /\ sessionRows' = sessionRows
      /\ elapsed' = elapsed /\ due' = due /\ gap' = gap
      /\ pass' = pass /\ disturbed' = disturbed /\ overtaken' = overtaken
  BY DEF UpsertFails, dueAndGap
<1>2. Typed' /\ Timely' /\ Noted' /\ NothingLeft'
  BY <1>1 DEF IInv, Typed, Timely, Noted, NothingLeft, RowsAreScheduled
<1>3. Covered'
  BY <1>1 DEF IInv, Typed, Covered, RowCovered, WriteCovered, ByDue, ByGap, ByPassGap, ByPass, Young
<1> QED BY <1>2, <1>3 DEF IInv

\* A deleted row needs no sweep.
LEMMA DeleteRowKeeps ==
    ASSUME IInv, NEW id \in RowIds, DeleteRow(id)
    PROVE  IInv'
<1> USE Times
<1>1. /\ writes' = writes /\ sessionRows' = [sessionRows EXCEPT ![id] = NoTime]
      /\ elapsed' = elapsed /\ due' = due /\ gap' = gap
      /\ pass' = pass /\ disturbed' = disturbed /\ overtaken' = overtaken
  BY DEF DeleteRow, dueAndGap
<1>2. Typed' /\ Timely' /\ Noted' /\ NothingLeft'
  BY <1>1 DEF IInv, Typed, Timely, Noted, NothingLeft, RowsAreScheduled
<1>3. \A r \in RowIds : sessionRows'[r] # NoTime => sessionRows'[r] = sessionRows[r]
  BY <1>1 DEF IInv, Typed
<1>4. Covered'
  BY <1>1, <1>3 DEF IInv, Typed, Covered, RowCovered, WriteCovered, ByDue, ByGap, ByPassGap, ByPass, Young
<1> QED BY <1>2, <1>4 DEF IInv

\* The sweep falls due and begins: it takes over what the schedule covered.
LEMMA StartSweepKeeps ==
    ASSUME IInv, StartSweep
    PROVE  IInv'
<1> USE Times
<1>1. /\ writes' = writes /\ sessionRows' = sessionRows /\ elapsed' = elapsed
      /\ due' = NoTime /\ gap' = FALSE /\ disturbed' = disturbed /\ overtaken' = overtaken
      /\ pass.pc = "waiting" /\ due # NoTime /\ due <= elapsed
  BY DEF StartSweep, begin_sweep
<1>2. /\ due \in Nat /\ elapsed \in Nat /\ gap \in BOOLEAN
  BY <1>1 DEF IInv, Typed
<1>3. /\ pass' \in PassType /\ pass'.pc = "delete" /\ pass'.gap = gap
      /\ pass'.fell = due /\ pass'.began = elapsed
  BY <1>2 DEF StartSweep, NoPass, PassType
<1>4. Typed'
  BY <1>1, <1>3 DEF IInv, Typed
<1>5. Timely'
  BY <1>1, <1>2, <1>3 DEF IInv, Timely
<1>6. Noted' /\ NothingLeft'
  BY <1>1, <1>3 DEF IInv, Noted, NothingLeft, RowsAreScheduled
<1>7. ASSUME NEW v \in Nat PROVE RowCovered(v) => RowCovered(v)'
  BY <1>1, <1>2, <1>3 DEF RowCovered, ByDue, ByGap, ByPassGap, ByPass, Young
<1>8. ASSUME NEW x \in writes PROVE WriteCovered(x.last)'
  <2>1. x.last \in Nat
    BY DEF IInv, Typed
  <2>2. ~gap => x.last < due
    BY <1>1 DEF IInv, Noted
  <2>3. CASE x.last < due
    BY <2>3, <1>1, <1>3 DEF WriteCovered
  <2>4. CASE gap /\ due <= x.last
    BY <2>4, <1>1, <1>3 DEF WriteCovered, ByPassGap
  <2> QED BY <2>1, <2>2, <2>3, <2>4, <1>2
<1>9. Covered'
  <2>1. ASSUME ~disturbed, NEW r \in RowIds, sessionRows[r] # NoTime PROVE RowCovered(sessionRows[r])'
    <3>1. PICK v : v = sessionRows[r]
      OBVIOUS
    <3>2. v \in Nat /\ RowCovered(v)
      BY <2>1, <3>1 DEF IInv, Typed, Covered
    <3> QED BY <3>1, <3>2, <1>7, <1>1
  <2> QED BY <2>1, <1>8, <1>1 DEF Covered
<1> QED BY <1>4, <1>5, <1>6, <1>9 DEF IInv

\* Deleting: whatever row is left has not expired when the sweep began.
LEMMA DeleteExpiredKeeps ==
    ASSUME IInv, delete_expired
    PROVE  IInv'
<1> USE Times
<1>1. /\ writes' = writes /\ elapsed' = elapsed /\ due' = due /\ gap' = gap
      /\ disturbed' = disturbed /\ overtaken' = overtaken /\ pass.pc = "delete"
      /\ sessionRows' = [id \in RowIds |-> IF Expired(id) THEN NoTime ELSE sessionRows[id]]
  BY DEF delete_expired, dueAndGap
<1>2. /\ pass' \in PassType /\ pass'.pc = "look" /\ pass'.gap = pass.gap
      /\ pass'.fell = pass.fell /\ pass'.began = pass.began
  BY DEF delete_expired, PassType, IInv, Typed
<1>3. elapsed \in Nat /\ pass.began \in Nat /\ pass.began <= elapsed
  BY <1>1 DEF IInv, Typed, PassType, Timely
<1>4. Typed'
  BY <1>1, <1>2 DEF IInv, Typed
<1>5. Timely' /\ Noted' /\ NothingLeft'
  BY <1>1, <1>2 DEF IInv, Timely, Noted, NothingLeft, RowsAreScheduled
<1>6. ASSUME NEW r \in RowIds, sessionRows'[r] # NoTime PROVE RowCovered(sessionRows[r])'
  <2>1. PICK v : v = sessionRows'[r]
    OBVIOUS
  <2>2. v \in Nat
    BY <1>4, <1>6, <2>1 DEF Typed
  <2>3. v = sessionRows[r] /\ ~Expired(r)
    BY <1>1, <1>6, <2>1
  <2>4. elapsed <= v + IdleTimeout
    BY <2>2, <2>3, <1>3, <1>6, <2>1 DEF Expired
  <2>5. Young(v)'
    BY <2>2, <2>4, <1>2, <1>3 DEF Young
  <2> QED BY <2>1, <2>5 DEF RowCovered
<1>7. ASSUME ~disturbed, NEW x \in writes PROVE WriteCovered(x.last)'
  <2>1. WriteCovered(x.last)
    BY <1>7 DEF IInv, Covered
  <2> QED BY <2>1, <1>1, <1>2 DEF WriteCovered, ByDue, ByGap, ByPassGap
<1>8. Covered'
  BY <1>1, <1>6, <1>7 DEF Covered
<1> QED BY <1>4, <1>5, <1>8 DEF IInv

\* Looking for the oldest row: if there is none, and no write was overtaken,
\* nothing is left.
LEMMA LookKeeps ==
    ASSUME IInv, oldest_row_epoch
    PROVE  IInv'
<1> DEFINE present == {sessionRows[id] : id \in RowIds} \ {NoTime}
<1> USE Times
<1>1. /\ writes' = writes /\ elapsed' = elapsed /\ due' = due /\ gap' = gap
      /\ sessionRows' = sessionRows /\ pass.pc = "look"
      /\ overtaken' = (\E w \in writes : w.last < pass.fell)
      /\ disturbed' = (disturbed \/ overtaken')
      /\ pass' = [pass EXCEPT !.pc = "arm",
                              !.oldest = IF present = {} THEN NoTime ELSE Min(present)]
  BY DEF oldest_row_epoch, dueAndGap
<1>2. present \in SUBSET Nat
  BY DEF IInv, Typed
<1>3. present # {} => Min(present) \in Nat /\ \A t \in present : Min(present) <= t
  BY <1>2, LeastTime
<1>4. /\ pass' \in PassType /\ pass'.pc = "arm" /\ pass'.gap = pass.gap
      /\ pass'.fell = pass.fell /\ pass'.began = pass.began
      /\ pass'.oldest = IF present = {} THEN NoTime ELSE Min(present)
  <2> HIDE DEF present
  <2> QED BY <1>1, <1>3 DEF PassType, IInv, Typed
<1>5. \A r \in RowIds : sessionRows[r] # NoTime => pass'.oldest # NoTime /\ pass'.oldest <= sessionRows[r]
  BY <1>3, <1>4
<1> HIDE DEF present
<1>6. Typed'
  BY <1>1, <1>4 DEF IInv, Typed
<1>7. Timely' /\ Noted'
  BY <1>1, <1>4 DEF IInv, Timely, Noted
<1>8. NothingLeft'
  <2> SUFFICES ASSUME due = NoTime, pass'.oldest = NoTime, ~pass.gap, ~overtaken'
               PROVE  writes = {} /\ \A id \in RowIds : sessionRows[id] = NoTime
    BY <1>1, <1>4 DEF NothingLeft, RowsAreScheduled
  <2>1. \A w \in writes : w.last < pass.fell
    BY <1>1 DEF IInv, Noted
  <2> QED BY <2>1, <1>1, <1>5
<1>9. ASSUME ~disturbed', NEW r \in RowIds, sessionRows[r] # NoTime PROVE RowCovered(sessionRows[r])'
  <2>1. PICK v : v = sessionRows[r]
    OBVIOUS
  <2>2. v \in Nat /\ RowCovered(v)
    BY <1>1, <1>9, <2>1 DEF IInv, Typed, Covered
  <2>3. RowCovered(v)'
    BY <2>2, <2>1, <1>1, <1>4, <1>5, <1>9 DEF RowCovered, ByDue, ByGap, ByPassGap, ByPass, Young
  <2> QED BY <2>1, <2>3, <1>1
<1>10. ASSUME ~disturbed', NEW x \in writes PROVE WriteCovered(x.last)'
  <2>1. WriteCovered(x.last) /\ ~(x.last < pass.fell)
    BY <1>1, <1>10 DEF IInv, Typed, Covered
  <2> QED BY <2>1, <1>1, <1>4 DEF WriteCovered, ByDue, ByGap, ByPassGap
<1>11. Covered'
  BY <1>1, <1>9, <1>10 DEF Covered
<1> QED BY <1>6, <1>7, <1>8, <1>11 DEF IInv

\* Planning the next sweep: it is in time for the oldest row, hence for every
\* row left, and for a write in the gap.
LEMMA RearmKeeps ==
    ASSUME IInv, Rearm
    PROVE  IInv'
<1> DEFINE forOldest == Max({pass.oldest + IdleTimeout + Grace, elapsed + MinSpacing})
           next == (IF pass.oldest = NoTime THEN {} ELSE {forOldest})
                    \cup (IF pass.gap THEN {elapsed + IdleTimeout + Grace} ELSE {})
<1> USE Times, SlackBounds
<1>1. /\ writes' = writes /\ sessionRows' = sessionRows /\ elapsed' = elapsed /\ gap' = gap
      /\ disturbed' = disturbed /\ overtaken' = overtaken /\ pass.pc = "arm" /\ pass' = NoPass
      /\ due' = IF next = {} THEN due ELSE lower_to(due, next)
  BY DEF Rearm
<1>2. /\ elapsed \in Nat /\ due \in Nat \cup {NoTime} /\ pass.oldest \in Nat \cup {NoTime}
      /\ pass.began \in Nat /\ pass.fell \in Nat /\ pass.gap \in BOOLEAN
      /\ pass.fell <= pass.began /\ pass.began <= pass.fell + SweepLag
      /\ pass.began <= elapsed /\ elapsed <= pass.began + SweepLag
      /\ due # NoTime => pass.began <= due
  BY <1>1 DEF IInv, Typed, PassType, Timely
<1>3. pass.oldest # NoTime =>
        /\ forOldest \in Nat /\ forOldest > elapsed
        /\ forOldest = pass.oldest + IdleTimeout + Grace \/ forOldest = elapsed + MinSpacing
  <2> SUFFICES ASSUME pass.oldest # NoTime
               PROVE  /\ forOldest \in Nat /\ forOldest > elapsed
                      /\ forOldest = pass.oldest + IdleTimeout + Grace
                           \/ forOldest = elapsed + MinSpacing
    OBVIOUS
  <2>1. pass.oldest + IdleTimeout + Grace \in Nat /\ elapsed + MinSpacing \in Nat
    BY <1>2
  <2>2. /\ forOldest \in {pass.oldest + IdleTimeout + Grace, elapsed + MinSpacing}
        /\ forOldest >= elapsed + MinSpacing
    BY <2>1, LatestOfTwo
  <2> QED BY <2>1, <2>2, <1>2
<1> HIDE DEF forOldest
<1>4. next \in SUBSET Nat /\ \A t \in next : t > elapsed
  BY <1>2, <1>3
<1>5. pass.oldest # NoTime \/ pass.gap => next # {}
  OBVIOUS
<1>6. pass.oldest # NoTime => forOldest \in next
  OBVIOUS
<1>7. pass.gap => elapsed + IdleTimeout + Grace \in next
  OBVIOUS
<1> HIDE DEF next
<1>8. next # {} =>
        /\ due' \in Nat /\ (due' = due \/ due' > elapsed)
        /\ \A t \in next : due' <= t
        /\ due # NoTime => due' <= due
  <2> SUFFICES ASSUME next # {}
               PROVE  /\ due' \in Nat /\ (due' = due \/ due' > elapsed)
                      /\ \A t \in next : due' <= t
                      /\ due # NoTime => due' <= due
    OBVIOUS
  <2>1. due' = lower_to(due, next)
    BY <1>1
  <2>2. /\ lower_to(due, next) \in Nat
        /\ lower_to(due, next) \in next \/ lower_to(due, next) = due
        /\ \A t \in next : lower_to(due, next) <= t
        /\ due # NoTime => lower_to(due, next) <= due
    BY <1>2, <1>4, LowerTo
  <2> QED BY <2>1, <2>2, <1>4
<1>9. next = {} => due' = due
  BY <1>1
<1>10. due' \in Nat \cup {NoTime} /\ (due # NoTime => due' # NoTime /\ due' <= due)
  BY <1>2, <1>8, <1>9
<1>11. due' # NoTime => due' = due \/ due' > elapsed
  BY <1>8, <1>9
<1>12. pass' \in PassType /\ pass'.pc = "waiting"
  BY <1>1, NoPassType
<1>13. Typed'
  BY <1>1, <1>10, <1>12 DEF IInv, Typed
<1>14. Timely'
  <2>1. due' # NoTime => elapsed <= due' + SweepLag
    <3>1. CASE due' = due
      BY <3>1, <1>2
    <3>2. CASE due' \in Nat /\ due' > elapsed
      <4>1. elapsed \in Nat /\ due' \in Nat /\ SweepLag \in Nat /\ due' > elapsed
        BY <3>2, <1>2
      <4>2. \A a, b, c \in Nat : a > b => b <= a + c
        OBVIOUS
      <4>3. elapsed <= due' + SweepLag
        BY <4>1, <4>2
      <4> QED BY <4>3
    <3> QED BY <3>1, <3>2, <1>10, <1>11
  <2> QED BY <2>1, <1>1, <1>12 DEF IInv, Timely
<1>15. Noted'
  <2> SUFFICES ASSUME due' # NoTime, ~gap, NEW w \in writes PROVE w.last < due'
    BY <1>1, <1>12 DEF Noted
  <2>1. w.last \in Nat /\ w.last <= elapsed
    BY DEF IInv, Typed, Timely
  <2>2. CASE due' = due
    BY <2>2 DEF IInv, Noted
  <2>3. CASE due' \in Nat /\ due' > elapsed
    BY <2>1, <2>3, <1>2
  <2> QED BY <2>2, <2>3, <1>10, <1>11
<1>16. NothingLeft'
  <2> SUFFICES ASSUME due' = NoTime, ~overtaken
               PROVE  writes = {} /\ \A id \in RowIds : sessionRows[id] = NoTime
    BY <1>1, <1>12 DEF NothingLeft, RowsAreScheduled
  <2>1. next = {} /\ due = NoTime
    BY <1>8, <1>9
  <2>2. pass.oldest = NoTime /\ ~pass.gap
    BY <2>1, <1>5
  <2> QED BY <2>1, <2>2, <1>1 DEF IInv, NothingLeft
<1>17. ASSUME NEW v \in Nat
       PROVE  /\ ByDue(v) => ByDue(v)'
              /\ ByGap(v) => ByGap(v)'
              /\ ByPassGap(v) => ByDue(v)'
              /\ Young(v) => ByDue(v)'
  <2>1. ByDue(v) => ByDue(v)'
    BY <1>2, <1>10 DEF ByDue
  <2>2. ByGap(v) => ByGap(v)'
    BY <1>1, <1>2, <1>10 DEF ByGap
  <2>3. ASSUME ByPassGap(v) PROVE ByDue(v)'
    <3>1. due' \in Nat /\ due' <= elapsed + IdleTimeout + Grace
      BY <2>3, <1>5, <1>7, <1>8 DEF ByPassGap
    <3>2. elapsed <= v + 2 * SweepLag
      BY <2>3, <1>2 DEF ByPassGap
    <3> QED BY <3>1, <3>2, <1>2 DEF ByDue
  <2>4. ASSUME Young(v) PROVE ByDue(v)'
    <3>1. due' \in Nat /\ due' <= forOldest
      BY <2>4, <1>1, <1>5, <1>6, <1>8 DEF Young
    <3>2. pass.oldest \in Nat /\ pass.oldest <= v /\ elapsed <= v + IdleTimeout + SweepLag
      BY <2>4, <1>1, <1>2 DEF Young
    <3>3. forOldest \in Nat /\ forOldest <= v + IdleTimeout + Slack + 2 * SweepLag
      <4>1. forOldest = pass.oldest + IdleTimeout + Grace \/ forOldest = elapsed + MinSpacing
        BY <3>2, <1>3
      <4>2. CASE forOldest = pass.oldest + IdleTimeout + Grace
        BY <4>2, <3>2
      <4>3. CASE forOldest = elapsed + MinSpacing
        BY <4>3, <3>2, <1>2
      <4> QED BY <4>1, <4>2, <4>3
    <3> QED BY <3>1, <3>3 DEF ByDue
  <2> QED BY <2>1, <2>2, <2>3, <2>4
<1>18. ASSUME ~disturbed, NEW r \in RowIds, sessionRows[r] # NoTime PROVE RowCovered(sessionRows[r])'
  <2>1. PICK v : v = sessionRows[r]
    OBVIOUS
  <2>2. v \in Nat /\ RowCovered(v) /\ ~ByPass(v)
    BY <1>1, <1>18, <2>1 DEF IInv, Typed, Covered, ByPass
  <2>3. RowCovered(v)'
    BY <2>2, <1>17 DEF RowCovered
  <2> QED BY <2>1, <2>3, <1>1
<1>19. ASSUME ~disturbed, NEW x \in writes PROVE WriteCovered(x.last)'
  <2>1. x.last \in Nat /\ WriteCovered(x.last)
    BY <1>19 DEF IInv, Typed, Covered
  <2> QED BY <2>1, <1>1, <1>17 DEF WriteCovered
<1>20. Covered'
  BY <1>1, <1>18, <1>19 DEF Covered
<1> QED BY <1>13, <1>14, <1>15, <1>16, <1>20 DEF IInv

\* A failed sweep plans its retry; the table is disturbed from here on.
LEMMA SweepFailsKeeps ==
    ASSUME IInv, SweepFails
    PROVE  IInv'
<1> USE Times
<1>1. /\ writes' = writes /\ sessionRows' = sessionRows /\ elapsed' = elapsed /\ gap' = gap
      /\ disturbed' = TRUE /\ overtaken' = overtaken /\ pass.pc # "waiting" /\ pass' = NoPass
      /\ due' = lower_to(due, {elapsed + RetryDelay})
  BY DEF SweepFails
<1>2. /\ elapsed \in Nat /\ due \in Nat \cup {NoTime} /\ pass.began \in Nat
      /\ elapsed <= pass.began + SweepLag
      /\ due # NoTime => pass.began <= due
  BY <1>1 DEF IInv, Typed, PassType, Timely
<1>3. {elapsed + RetryDelay} \in SUBSET Nat /\ {elapsed + RetryDelay} # {}
  BY <1>2
<1>4. due' \in Nat /\ (due' = elapsed + RetryDelay \/ due' = due)
  BY <1>1, <1>2, <1>3, LowerTo
<1>5. pass' \in PassType /\ pass'.pc = "waiting"
  BY <1>1, NoPassType
<1>6. Typed'
  BY <1>1, <1>4, <1>5 DEF IInv, Typed
<1>7. Timely'
  <2>1. elapsed <= due' + SweepLag
    <3>1. CASE due' = due
      BY <3>1, <1>2, <1>4
    <3>2. CASE due' = elapsed + RetryDelay
      BY <3>2, <1>2
    <3> QED BY <3>1, <3>2, <1>4
  <2> QED BY <2>1, <1>1, <1>5 DEF IInv, Timely
<1>8. Noted'
  <2> SUFFICES ASSUME ~gap, NEW w \in writes PROVE w.last < due'
    BY <1>1, <1>5 DEF Noted
  <2>1. w.last \in Nat /\ w.last <= elapsed
    BY DEF IInv, Typed, Timely
  <2>2. CASE due' = due
    BY <2>2, <1>4 DEF IInv, Noted
  <2>3. CASE due' = elapsed + RetryDelay
    BY <2>1, <2>3, <1>2
  <2> QED BY <2>2, <2>3, <1>4
<1>9. NothingLeft' /\ Covered'
  BY <1>1, <1>4, <1>5 DEF NothingLeft, RowsAreScheduled, Covered
<1> QED BY <1>6, <1>7, <1>8, <1>9 DEF IInv

\* The process starts again with the start-up sweep scheduled and no write on
\* its way.
LEMMA RestartKeeps ==
    ASSUME IInv, ProcessRestart
    PROVE  IInv'
<1> USE Times
<1>1. /\ writes' = {} /\ sessionRows' = sessionRows /\ elapsed' = elapsed /\ gap' = FALSE
      /\ disturbed' = TRUE /\ overtaken' = FALSE /\ pass' = NoPass
      /\ due' = elapsed + StartupDelay
  BY DEF ProcessRestart
<1>2. due' \in Nat /\ elapsed <= due' + SweepLag
  BY <1>1 DEF IInv, Typed
<1>3. pass' \in PassType /\ pass'.pc = "waiting"
  BY <1>1, NoPassType
<1>4. Typed'
  BY <1>1, <1>2, <1>3 DEF IInv, Typed
<1>5. Timely' /\ Noted' /\ NothingLeft' /\ Covered'
  BY <1>1, <1>2, <1>3 DEF Timely, Noted, NothingLeft, RowsAreScheduled, Covered
<1> QED BY <1>4, <1>5 DEF IInv

\* Time passes, but not beyond what a write or a sweep may take.
LEMMA ClockTickKeeps ==
    ASSUME IInv, ClockTick
    PROVE  IInv'
<1> USE Times
<1>1. /\ writes' = writes /\ sessionRows' = sessionRows /\ gap' = gap /\ due' = due
      /\ disturbed' = disturbed /\ overtaken' = overtaken /\ pass' = pass
      /\ elapsed' = elapsed + 1
      /\ \A w \in writes : elapsed - w.last < WriteLag
      /\ pass.pc = "waiting" /\ due # NoTime => elapsed < due + SweepLag
      /\ pass.pc # "waiting" => elapsed < pass.began + SweepLag
  BY DEF ClockTick, dueAndGap
<1>2. Typed'
  BY <1>1 DEF IInv, Typed
<1>3. elapsed \in Nat /\ due \in Nat \cup {NoTime} /\ pass.began \in Nat
  BY DEF IInv, Typed, PassType
<1>4. Timely'
  <2>1. \A w \in writes : w.last <= elapsed + 1 /\ elapsed + 1 <= w.last + WriteLag
    BY <1>1, <1>3 DEF IInv, Typed, Timely
  <2>2. pass.pc = "waiting" /\ due # NoTime => elapsed + 1 <= due + SweepLag
    BY <1>1, <1>3
  <2>3. pass.pc # "waiting" => pass.began <= elapsed + 1 /\ elapsed + 1 <= pass.began + SweepLag
    BY <1>1, <1>3 DEF IInv, Timely
  <2> QED BY <2>1, <2>2, <2>3, <1>1 DEF IInv, Timely
<1>5. Noted' /\ NothingLeft'
  BY <1>1 DEF IInv, Noted, NothingLeft, RowsAreScheduled
<1>6. Covered'
  BY <1>1 DEF IInv, Covered, RowCovered, WriteCovered, ByDue, ByGap, ByPassGap, ByPass, Young
<1> QED BY <1>2, <1>4, <1>5, <1>6 DEF IInv

\* Every step of the store, the task and the clock preserves the invariant.
LEMMA NextIInv == IInv /\ [ScheduleNext]_scheduleVars => IInv'
<1> SUFFICES ASSUME IInv, [ScheduleNext]_scheduleVars PROVE IInv'
  OBVIOUS
<1>1. CASE \E id \in RowIds : SpawnWrite(id) \/ DeleteRow(id)
  BY <1>1, SpawnWriteKeeps, DeleteRowKeeps
<1>2. CASE \E w \in writes : UpsertRow(w) \/ UpsertFails(w)
  BY <1>2, UpsertRowKeeps, UpsertFailsKeeps
<1>3. CASE PassStep
  BY <1>3, StartSweepKeeps, DeleteExpiredKeeps, LookKeeps, RearmKeeps, SweepFailsKeeps DEF PassStep
<1>4. CASE ProcessRestart
  BY <1>4, RestartKeeps
<1>5. CASE ClockTick
  BY <1>5, ClockTickKeeps
<1>6. CASE UNCHANGED scheduleVars
  BY <1>6 DEF scheduleVars, dueAndGap, IInv, Typed, Timely, Noted, NothingLeft, RowsAreScheduled,
              Covered, RowCovered, WriteCovered, ByDue, ByGap, ByPassGap, ByPass, Young
<1> QED BY <1>1, <1>2, <1>3, <1>4, <1>5, <1>6 DEF ScheduleNext

-----------------------------------------------------------------------------
(* The theorems.                                                           *)

\* The invariant holds in every reachable state.
THEOREM ScheduleInvariant == ScheduleSpec => []IInv
BY InitIInv, NextIInv, PTL DEF ScheduleSpec

\* The schedule, the table, the writes on their way and the sweep in progress
\* have their types.
THEOREM ScheduleTypeCorrect == ScheduleSpec => []ScheduleTypeOK
<1>1. IInv => ScheduleTypeOK
  BY DEF IInv, Typed, PassType, ScheduleTypeOK
<1> QED BY ScheduleInvariant, <1>1, PTL

\* note_write and sweep_once leave the schedule empty only when the table is
\* empty and no upsert is on its way, unless the last sweep was overtaken by
\* a write it was counted on for.
THEOREM EveryRowIsScheduled == ScheduleSpec => []RowsAreScheduled
<1>1. IInv => RowsAreScheduled
  BY DEF IInv, NothingLeft
<1> QED BY ScheduleInvariant, <1>1, PTL

\* However the writes and the sweeps interleave, an undisturbed store deletes
\* a row within the longest of the three delays after its expiry and the time
\* of four sweeps.
THEOREM RowsAreGoneInTime == ScheduleSpec => []RowsDoNotLinger
<1>1. IInv => RowsDoNotLinger
  <2> SUFFICES ASSUME IInv, NEW id \in RowIds, sessionRows[id] # NoTime, ~disturbed
               PROVE  elapsed <= sessionRows[id] + IdleTimeout + Slack + 4 * SweepLag
    BY DEF RowsDoNotLinger, Slack
  <2> USE Times, SlackBounds
  <2>1. PICK v : v = sessionRows[id]
    OBVIOUS
  <2>2. v \in Nat /\ RowCovered(v)
    BY <2>1 DEF IInv, Typed, Covered
  <2>3. /\ elapsed \in Nat /\ due \in Nat \cup {NoTime} /\ pass.began \in Nat /\ pass.fell \in Nat
        /\ pass.pc = "waiting" /\ due # NoTime => elapsed <= due + SweepLag
        /\ pass.pc # "waiting" =>
             /\ pass.began <= pass.fell + SweepLag /\ elapsed <= pass.began + SweepLag
             /\ due # NoTime => pass.began <= due
    BY DEF IInv, Typed, PassType, Timely
  <2>4. due # NoTime => elapsed <= due + SweepLag
    BY <2>3
  <2>5. CASE ByDue(v)
    BY <2>1, <2>2, <2>3, <2>4, <2>5 DEF ByDue
  <2>6. CASE ByGap(v)
    BY <2>1, <2>2, <2>3, <2>4, <2>6 DEF ByGap
  <2>7. CASE ByPassGap(v)
    BY <2>1, <2>2, <2>3, <2>7 DEF ByPassGap
  <2>8. CASE ByPass(v)
    BY <2>1, <2>2, <2>3, <2>8 DEF ByPass
  <2>9. CASE Young(v)
    BY <2>1, <2>2, <2>3, <2>9 DEF Young
  <2> QED BY <2>2, <2>5, <2>6, <2>7, <2>8, <2>9 DEF RowCovered
<1> QED BY ScheduleInvariant, <1>1, PTL

=============================================================================
