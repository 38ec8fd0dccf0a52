-------------------------- MODULE SchedulerProofs --------------------------
(***************************************************************************)
(* Proofs about the scheduler engine, for any number of keepers, sessions, *)
(* schedules and catch-up jobs and any cron expressions and intervals.     *)
(*                                                                         *)
(* MinIntervalKept rests on the advisory lock: a tick that is under way    *)
(* belongs to the keeper that holds the lock of its schedule (LockOwned),  *)
(* so between its read and its stamp nobody else stamps (CheckedApart).    *)
(* ExecutedOncePerKeeper rests on the claim: a job a keeper has executed,  *)
(* or is about to execute, is no longer queued (Claims).                   *)
(***************************************************************************)
EXTENDS Scheduler, TLAPS

-----------------------------------------------------------------------------
(* The greater and the smaller of two integers.                            *)
LEMMA MaxOfTwo ==
    ASSUME NEW m \in Int, NEW n \in Int
    PROVE  Max({m, n}) = IF m >= n THEN m ELSE n
  BY DEF Max

LEMMA MinOfTwo ==
    ASSUME NEW m \in Int, NEW n \in Int
    PROVE  Min({m, n}) = IF m <= n THEN m ELSE n
  BY DEF Min

(* An interval between its bounds. *)
LEMMA InRange ==
    ASSUME NEW lo \in Int, NEW hi \in Int, NEW x \in Int, lo <= x, x <= hi
    PROVE  x \in lo..hi
  OBVIOUS

(* No more jobs are published for a schedule than the batch limit.         *)
LEMMA CatchupBounded ==
    ASSUME NEW r \in ScheduleRow, NEW now \in Int
    PROVE  CatchupCount(r, now) \in 0..BatchLimit
  <1>1. CronInterval(r.cron) \in Nat
    BY SchedulerAssumption DEF CronInterval
  <1>2. MissedWindows(r.cron, r.lastCompleted, now) \in Nat
    <2>1. r.lastCompleted \in Int
      BY DEF ScheduleRow
    <2>2. CASE r.lastCompleted = Never \/ now <= r.lastCompleted
      BY <2>2 DEF MissedWindows
    <2>3. CASE CronInterval(r.cron) = 0
      BY <2>3 DEF MissedWindows
    <2>4. CASE CronInterval(r.cron) # 0 /\ ~(r.lastCompleted = Never \/ now <= r.lastCompleted)
      <3> DEFINE windows == (now - r.lastCompleted) \div CronInterval(r.cron) - 1
      <3>1. windows \in Int
        BY <1>1, <2>1, <2>4
      <3>2. MissedWindows(r.cron, r.lastCompleted, now) = Max({0, windows})
        BY <2>4 DEF MissedWindows
      <3> HIDE DEF windows
      <3>3. Max({0, windows}) = IF 0 >= windows THEN 0 ELSE windows
        BY <3>1, MaxOfTwo
      <3> QED BY <3>1, <3>2, <3>3
    <2> QED BY <2>2, <2>3, <2>4
  <1> DEFINE missed == MissedWindows(r.cron, r.lastCompleted, now)
  <1>3. CatchupCount(r, now) \in {0, Min({missed, BatchLimit})}
    BY DEF CatchupCount
  <1>4. missed \in Nat
    BY <1>2
  <1> HIDE DEF missed
  <1>5. BatchLimit \in Nat
    BY SchedulerAssumption
  <1>6. Min({missed, BatchLimit}) = IF missed <= BatchLimit THEN missed ELSE BatchLimit
    BY <1>4, <1>5, MinOfTwo
  <1> QED BY <1>3, <1>4, <1>5, <1>6

-----------------------------------------------------------------------------
(* The inductive invariant.                                                *)

(* Stamps lie in the past, and a tick has the time it started. *)
Times ==
    /\ \A s \in Schedule : sched[s].lastRun <= clock
    /\ \A k \in Keeper, s \in Schedule : tick[k][s].now <= clock

(* A tick under way belongs to the keeper that holds the lock. *)
LockOwned ==
    \A k \in Keeper, s \in Schedule : tick[k][s].at # "idle" => lock[s].by = k

(* What a tick has checked still holds until it stamps. *)
CheckedApart ==
    \A k \in Keeper, s \in Schedule :
        tick[k][s].at = "checked" /\ sched[s].lastRun # Never =>
            tick[k][s].now - sched[s].lastRun >= tick[k][s].min

(* A consumer at work has a job that was published; once it has claimed    *)
(* it, the job is not queued; a job a keeper has executed is not queued    *)
(* and not on its way to be executed again.                                *)
Claims ==
    /\ \A k \in Keeper : consumer[k].at # "idle" =>
          /\ consumer[k].job \in Job
          /\ job[consumer[k].job].status # "none"
          /\ consumer[k].at # "selected" => job[consumer[k].job].status # "queued"
    /\ \A j \in Job, k \in Keeper :
          /\ executed[j][k] <= 1
          /\ executed[j][k] = 1 =>
               /\ job[j].status \notin {"none", "queued"}
               /\ ~(consumer[k].at \in {"selected", "claimed"} /\ consumer[k].job = j)

SchedulerInv == TypeOK /\ Times /\ LockOwned /\ CheckedApart /\ Claims

(* The parts of TypeOK, for the lemmas about each of them. *)
SchedTypes ==
    /\ sched \in [Schedule -> ScheduleRow]
    /\ \A s \in Schedule : /\ sched[s].lastRun \in Never..MaxTime
                           /\ sched[s].lastCompleted \in Never..MaxTime

KeeperTypes ==
    keeper \in [Keeper -> [phase : {"down", "loading", "up"},
                           tasks : SUBSET Schedule,
                           owed : [Schedule -> 0..BatchLimit]]]

TickTypes ==
    /\ lock \in [Schedule -> [by : Keeper \cup {NoKeeper},
                              session : Session \cup {NoSession},
                              leaked : BOOLEAN]]
    /\ tick \in [Keeper -> [Schedule -> Tick]]

JobTypes ==
    /\ job \in [Job -> JobRow]
    /\ consumer \in [Keeper -> Consumer]
    /\ executed \in [Job -> [Keeper -> Nat]]

OtherTypes ==
    /\ clock \in 0..MaxTime
    /\ request \in [Request -> [Schedule -> [at : {"idle", "validated"},
                                             to : ScheduleStatus]]]
    /\ spent \in [ticks : 0..MaxTicks, events : 0..MaxEvents]

-----------------------------------------------------------------------------
(* Who changes what.                                                       *)

(* The row of a schedule is written by a tick that stamps, by the consumer *)
(* that advances last_completed_at, and by the routes.                     *)
RowWritten(s) ==
    \/ \E k \in Keeper :
          /\ tick[k][s].at = "checked"
          /\ sched' = [sched EXCEPT ![s].lastRun = Max({@, tick[k][s].now})]
          /\ tick' = [tick EXCEPT ![k][s] = [IdleTick EXCEPT !.at = "leaving",
                                                           !.session = tick[k][s].session]]
          /\ UNCHANGED <<lock, clock>>
    \/ /\ UNCHANGED tick
       /\ \E new \in ScheduleRow :
             /\ sched' = [sched EXCEPT ![s] = new]
             /\ new.lastRun = sched[s].lastRun
             /\ new.lastCompleted \in {sched[s].lastCompleted, clock}

(* The lock of a schedule and the ticks on it. *)
LockStep(k, s, n) == TickLock(k, s, n) \/ TickUnlock(k, s, n)

(* A row of which one setting is written stays a row and keeps its stamps. *)
OnlySettings(new, row) ==
    /\ new \in ScheduleRow
    /\ new.lastRun = row.lastRun /\ new.lastCompleted = row.lastCompleted

LEMMA SettingsWritten ==
  ASSUME NEW r \in ScheduleRow
  PROVE  /\ \A x \in CronExpr : OnlySettings([r EXCEPT !.cron = x], r)
         /\ \A x \in ScheduleStatus : OnlySettings([r EXCEPT !.status = x], r)
         /\ \A x \in MinIntervals : OnlySettings([r EXCEPT !.minInterval = x], r)
         /\ \A x \in BOOLEAN : OnlySettings([r EXCEPT !.enabled = x], r)
         /\ OnlySettings([r EXCEPT !.type = "user"], r)
PROOF
  BY DEF ScheduleRow, OnlySettings

-----------------------------------------------------------------------------
(* Every step writes at most one schedule's row, in one of those two ways. *)
LEMMA SchedSteps ==
    TypeOK /\ Times /\ Claims /\ [Next]_vars =>
        UNCHANGED sched \/ \E s \in Schedule : RowWritten(s)
  <1> SUFFICES ASSUME TypeOK, Times, Claims, [Next]_vars
               PROVE  UNCHANGED sched \/ \E s \in Schedule : RowWritten(s)
    OBVIOUS
  <1>a. /\ sched \in [Schedule -> ScheduleRow]
        /\ clock \in Int
        /\ job \in [Job -> JobRow]
        /\ request \in [Request -> [Schedule -> [at : {"idle", "validated"},
                                                 to : ScheduleStatus]]]
    BY DEF TypeOK
  <1>1. ASSUME NEW k \in Keeper, NEW s \in Schedule, TickStamp(k, s) PROVE RowWritten(s)
    BY <1>1 DEF TickStamp, RowWritten, TickUnchanged
  <1>2. ASSUME NEW k \in Keeper, AdvanceLastCompleted(k)
        PROVE  \E s \in Schedule : RowWritten(s)
    <2>1. consumer[k].job \in Job
      BY <1>2 DEF AdvanceLastCompleted, Claims
    <2> DEFINE s == job[consumer[k].job].schedule
    <2>2. s \in Schedule
      BY <1>a, <2>1 DEF JobRow
    <2>3. sched' = [sched EXCEPT ![s] = [sched[s] EXCEPT !.lastCompleted = clock]]
      BY <1>2 DEF AdvanceLastCompleted
    <2> HIDE DEF s
    <2>4. [sched[s] EXCEPT !.lastCompleted = clock] \in ScheduleRow
      BY <1>a, <2>2 DEF ScheduleRow
    <2>5. /\ [sched[s] EXCEPT !.lastCompleted = clock].lastRun = sched[s].lastRun
          /\ [sched[s] EXCEPT !.lastCompleted = clock].lastCompleted = clock
      BY <1>a, <2>2 DEF ScheduleRow
    <2>6. UNCHANGED tick
      BY <1>2 DEF AdvanceLastCompleted, ConsumerUnchanged
    <2> QED BY <2>2, <2>3, <2>4, <2>5, <2>6 DEF RowWritten
  <1>3. ASSUME NEW s \in Schedule, CreateSchedule(s) PROVE RowWritten(s)
    <2>1. PICK cron \in CronExpr, m \in MinIntervals :
            sched' = [sched EXCEPT ![s].status = "active", ![s].type = "user",
                                   ![s].cron = cron, ![s].minInterval = m]
      BY <1>3 DEF CreateSchedule
    <2> DEFINE new == [sched[s] EXCEPT !.status = "active", !.type = "user",
                                       !.cron = cron, !.minInterval = m]
    <2>2. new \in ScheduleRow /\ new.lastRun = sched[s].lastRun
          /\ new.lastCompleted = sched[s].lastCompleted
      <3> DEFINE one == [sched[s] EXCEPT !.status = "active"]
                 two == [one EXCEPT !.type = "user"]
                 three == [two EXCEPT !.cron = cron]
                 four == [three EXCEPT !.minInterval = m]
      <3>1. OnlySettings(one, sched[s])
        BY <1>a, SettingsWritten DEF ScheduleStatus
      <3> HIDE DEF one
      <3>2. OnlySettings(two, one)
        BY <3>1, SettingsWritten DEF OnlySettings
      <3> HIDE DEF two
      <3>3. OnlySettings(three, two)
        BY <3>2, SettingsWritten DEF OnlySettings
      <3> HIDE DEF three
      <3>4. OnlySettings(four, three)
        BY <3>3, SettingsWritten DEF OnlySettings
      <3>5. new = four
        BY DEF one, two, three
      <3> HIDE DEF four, new
      <3> QED BY <3>1, <3>2, <3>3, <3>4, <3>5 DEF OnlySettings
    <2>3. sched' = [sched EXCEPT ![s] = new]
      BY <2>1, <1>a
    <2>4. UNCHANGED tick
      BY <1>3 DEF CreateSchedule, ApiUnchanged
    <2> QED BY <2>2, <2>3, <2>4 DEF RowWritten
  <1>4. ASSUME NEW s \in Schedule, PatchSchedule(s) PROVE RowWritten(s)
    <2>1. PICK cron \in CronExpr, m \in MinIntervals, e \in BOOLEAN :
            sched' = [sched EXCEPT ![s].cron = cron, ![s].minInterval = m, ![s].enabled = e]
      BY <1>4 DEF PatchSchedule
    <2> DEFINE new == [sched[s] EXCEPT !.cron = cron, !.minInterval = m, !.enabled = e]
    <2>2. new \in ScheduleRow /\ new.lastRun = sched[s].lastRun
          /\ new.lastCompleted = sched[s].lastCompleted
      <3> DEFINE one == [sched[s] EXCEPT !.cron = cron]
                 two == [one EXCEPT !.minInterval = m]
                 three == [two EXCEPT !.enabled = e]
      <3>1. OnlySettings(one, sched[s])
        BY <1>a, SettingsWritten
      <3> HIDE DEF one
      <3>2. OnlySettings(two, one)
        BY <3>1, SettingsWritten DEF OnlySettings
      <3> HIDE DEF two
      <3>3. OnlySettings(three, two)
        BY <3>2, SettingsWritten DEF OnlySettings
      <3>4. new = three
        BY DEF one, two
      <3> HIDE DEF three, new
      <3> QED BY <3>1, <3>2, <3>3, <3>4 DEF OnlySettings
    <2>3. sched' = [sched EXCEPT ![s] = new]
      BY <2>1, <1>a
    <2>4. UNCHANGED tick
      BY <1>4 DEF PatchSchedule, ApiUnchanged
    <2> QED BY <2>2, <2>3, <2>4 DEF RowWritten
  <1>5. ASSUME NEW s \in Schedule, NEW q \in Request, MoveWrite(q, s) PROVE RowWritten(s)
    <2> DEFINE enabled == IF request[q][s].to = "deleted" THEN FALSE ELSE sched[s].enabled
               new == [sched[s] EXCEPT !.status = request[q][s].to, !.enabled = enabled]
    <2>1. request[q][s].to \in ScheduleStatus /\ sched[s] \in ScheduleRow
      BY <1>a
    <2>2. enabled \in BOOLEAN
      BY <2>1 DEF ScheduleRow
    <2>3. sched' = [sched EXCEPT ![s] = new]
      BY <1>5, <1>a, <2>1 DEF MoveWrite, ScheduleRow
    <2> HIDE DEF enabled
    <2>4. new \in ScheduleRow /\ new.lastRun = sched[s].lastRun
          /\ new.lastCompleted = sched[s].lastCompleted
      BY <2>1, <2>2 DEF ScheduleRow
    <2>5. UNCHANGED tick
      BY <1>5 DEF MoveWrite, ApiUnchanged
    <2> QED BY <2>3, <2>4, <2>5 DEF RowWritten
  <1>6. ASSUME NEW k \in Keeper, KeeperStep(k) \/ KeeperStops(k) \/ ConsumerError(k)
        PROVE  UNCHANGED sched
    BY <1>6 DEF KeeperStep, LoadAndStart, StartCatchupConsumer, PublishCatchup, KeeperStops,
                ConsumerError
  <1>7. ASSUME NEW k \in Keeper,
               \/ \E j \in Job : ConsumerSelect(k, j)
               \/ ConsumerClaim(k) \/ ConsumerExecute(k) \/ CompleteJob(k) \/ FailJob(k)
        PROVE  UNCHANGED sched
    BY <1>7 DEF ConsumerSelect, ConsumerClaim, ConsumerExecute, CompleteJob, FailJob
  <1>8. ASSUME NEW k \in Keeper, NEW n \in Session,
               SessionCloses(k, n) \/ \E s \in Schedule : LockStep(k, s, n)
        PROVE  UNCHANGED sched
    BY <1>8 DEF LockStep, TickLock, TickUnlock, SessionCloses
  <1>9. ASSUME \/ TimePasses \/ UNCHANGED vars
               \/ \E s \in Schedule, q \in Request, to \in ScheduleStatus : MoveRead(q, s, to)
        PROVE  UNCHANGED sched
    BY <1>9 DEF TimePasses, MoveRead, vars
  <1> QED
    BY <1>1, <1>2, <1>3, <1>4, <1>5, <1>6, <1>7, <1>8, <1>9
       DEF Next, ConsumerStep, TickStep, LockStep

(* The rows stay typed and their stamps in the past. *)
LEMMA SchedTypesKept == SchedulerInv /\ [Next]_vars => SchedTypes'
  <1> SUFFICES ASSUME SchedulerInv, [Next]_vars PROVE SchedTypes'
    OBVIOUS
  <1>a. /\ SchedTypes
        /\ tick \in [Keeper -> [Schedule -> Tick]]
        /\ clock \in 0..MaxTime /\ MaxTime \in Nat
        /\ \A k \in Keeper, s \in Schedule : tick[k][s].now <= clock
    BY SchedulerAssumption DEF SchedulerInv, TypeOK, SchedTypes, Times
  <1>1. CASE UNCHANGED sched
    BY <1>1, <1>a DEF SchedTypes
  <1>2. ASSUME NEW s \in Schedule, NEW new \in ScheduleRow,
               sched' = [sched EXCEPT ![s] = new],
               new.lastRun \in Never..MaxTime, new.lastCompleted \in Never..MaxTime
        PROVE  SchedTypes'
    <2>1. sched' \in [Schedule -> ScheduleRow]
      BY <1>2, <1>a DEF SchedTypes
    <2>2. ASSUME NEW t \in Schedule
          PROVE  sched'[t].lastRun \in Never..MaxTime /\ sched'[t].lastCompleted \in Never..MaxTime
      <3>1. CASE t = s
        <4>1. sched'[t] = new
          BY <3>1, <1>2, <1>a DEF SchedTypes
        <4> QED BY <4>1, <1>2
      <3>2. CASE t # s
        <4>1. sched'[t] = sched[t]
          BY <3>2, <1>2, <1>a DEF SchedTypes
        <4> QED BY <4>1, <1>a DEF SchedTypes
      <3> QED BY <3>1, <3>2
    <2> QED BY <2>1, <2>2 DEF SchedTypes
  <1>3. ASSUME NEW s \in Schedule, RowWritten(s) PROVE SchedTypes'
    <2>1. sched[s] \in ScheduleRow /\ sched[s].lastRun \in Never..MaxTime
          /\ sched[s].lastCompleted \in Never..MaxTime
      BY <1>a DEF SchedTypes
    <2>2. CASE \E new \in ScheduleRow :
                 /\ sched' = [sched EXCEPT ![s] = new]
                 /\ new.lastRun = sched[s].lastRun
                 /\ new.lastCompleted \in {sched[s].lastCompleted, clock}
      <3>1. PICK new \in ScheduleRow :
                 /\ sched' = [sched EXCEPT ![s] = new]
                 /\ new.lastRun = sched[s].lastRun
                 /\ new.lastCompleted \in {sched[s].lastCompleted, clock}
        BY <2>2
      <3>2. clock \in Never..MaxTime
        BY <1>a DEF Never
      <3>3. new.lastRun \in Never..MaxTime /\ new.lastCompleted \in Never..MaxTime
        BY <3>1, <3>2, <2>1
      <3> QED BY <3>1, <3>3, <1>2
    <2>3. ASSUME NEW k \in Keeper,
                 sched' = [sched EXCEPT ![s].lastRun = Max({@, tick[k][s].now})]
          PROVE  SchedTypes'
      <3> DEFINE stamp == Max({sched[s].lastRun, tick[k][s].now})
                 new == [sched[s] EXCEPT !.lastRun = stamp]
      <3>1. tick[k][s] \in Tick
        BY <1>a
      <3>2. tick[k][s].now \in Nat /\ tick[k][s].now <= MaxTime
        BY <3>1, <1>a DEF Tick
      <3>3. sched[s].lastRun \in Int /\ -1 <= sched[s].lastRun /\ sched[s].lastRun <= MaxTime
        BY <2>1, <1>a DEF Never
      <3>4. stamp = IF sched[s].lastRun >= tick[k][s].now THEN sched[s].lastRun
                    ELSE tick[k][s].now
        BY <3>2, <3>3, MaxOfTwo
      <3>5. stamp \in Never..MaxTime
        BY <3>2, <3>3, <3>4, <1>a DEF Never
      <3>6. sched' = [sched EXCEPT ![s] = new]
        BY <2>3
      <3> HIDE DEF stamp
      <3>7. /\ new \in ScheduleRow /\ new.lastRun = stamp
            /\ new.lastCompleted = sched[s].lastCompleted
        <4>1. stamp \in Int
          BY <3>5, <1>a DEF Never
        <4> QED BY <2>1, <4>1 DEF ScheduleRow
      <3> QED BY <2>1, <3>5, <3>6, <3>7, <1>2
    <2> QED BY <1>3, <2>2, <2>3 DEF RowWritten
  <1> QED BY <1>1, <1>3, SchedSteps DEF SchedulerInv

-----------------------------------------------------------------------------
(* Keepers start typed and stay so.                                        *)
LEMMA KeeperTypesKept == SchedulerInv /\ [Next]_vars => KeeperTypes'
  <1> SUFFICES ASSUME SchedulerInv, [Next]_vars PROVE KeeperTypes'
    OBVIOUS
  <1> DEFINE K == [phase : {"down", "loading", "up"}, tasks : SUBSET Schedule,
                   owed : [Schedule -> 0..BatchLimit]]
  <1>a. /\ keeper \in [Keeper -> K] /\ sched \in [Schedule -> ScheduleRow]
        /\ clock \in Int /\ BatchLimit \in Nat
    BY SchedulerAssumption DEF SchedulerInv, TypeOK
  <1>b. ASSUME UNCHANGED keeper PROVE KeeperTypes'
    BY <1>a, <1>b DEF KeeperTypes
  <1>c. ASSUME NEW k \in Keeper, NEW new \in K, keeper' = [keeper EXCEPT ![k] = new]
        PROVE  KeeperTypes'
    BY <1>a, <1>c DEF KeeperTypes
  <1>1. ASSUME NEW k \in Keeper, LoadAndStart(k) PROVE KeeperTypes'
    <2> DEFINE loaded == {s \in Schedule : Loadable(sched[s])}
               owed == [s \in Schedule |-> IF s \in loaded THEN CatchupCount(sched[s], clock)
                                           ELSE 0]
    <2>1. keeper' = [keeper EXCEPT ![k] = [phase |-> "loading", tasks |-> loaded,
                                           owed |-> owed]]
      BY <1>1 DEF LoadAndStart
    <2>2. owed \in [Schedule -> 0..BatchLimit]
      <3>1. ASSUME NEW s \in Schedule PROVE CatchupCount(sched[s], clock) \in 0..BatchLimit
        BY <1>a, CatchupBounded
      <3> QED BY <3>1, <1>a
    <2>3. loaded \in SUBSET Schedule
      OBVIOUS
    <2> HIDE DEF loaded, owed
    <2> QED BY <2>1, <2>2, <2>3, <1>c
  <1>2. ASSUME NEW k \in Keeper, NEW s \in Schedule, PublishCatchup(k, s) PROVE KeeperTypes'
    <2>1. keeper[k] \in K /\ keeper[k].owed[s] \in 0..BatchLimit /\ keeper[k].owed[s] > 0
      BY <1>2, <1>a DEF PublishCatchup
    <2> DEFINE owed == [keeper[k].owed EXCEPT ![s] = keeper[k].owed[s] - 1]
               new == [keeper[k] EXCEPT !.owed = owed]
    <2>2. keeper' = [keeper EXCEPT ![k] = new]
      BY <1>2, <1>a, <2>1 DEF PublishCatchup
    <2>3. keeper[k].owed[s] - 1 \in 0..BatchLimit
      BY <2>1, <1>a
    <2>4. owed \in [Schedule -> 0..BatchLimit]
      BY <2>1, <2>3
    <2> HIDE DEF owed
    <2>5. new \in K
      BY <2>1, <2>4
    <2> QED BY <2>2, <2>5, <1>c
  <1>3. ASSUME NEW k \in Keeper, StartCatchupConsumer(k) PROVE KeeperTypes'
    <2>1. keeper' = [keeper EXCEPT ![k] = [keeper[k] EXCEPT !.phase = "up"]]
      BY <1>3 DEF StartCatchupConsumer
    <2>2. [keeper[k] EXCEPT !.phase = "up"] \in K
      BY <1>a
    <2> QED BY <2>1, <2>2, <1>c
  <1>4. ASSUME NEW k \in Keeper, KeeperStops(k) PROVE KeeperTypes'
    <2>1. 0 \in 0..BatchLimit
      BY <1>a
    <2>2. Down \in K
      BY <2>1 DEF Down
    <2> QED BY <1>4, <2>2, <1>c DEF KeeperStops
  <1>5. ASSUME NEW k \in Keeper, ConsumerStep(k) \/ ConsumerError(k) PROVE KeeperTypes'
    BY <1>5, <1>b DEF ConsumerStep, ConsumerSelect, ConsumerClaim, ConsumerExecute,
                      CompleteJob, FailJob, AdvanceLastCompleted, ConsumerError,
                      ConsumerUnchanged
  <1>6. ASSUME NEW k \in Keeper, NEW n \in Session,
               SessionCloses(k, n) \/ \E s \in Schedule : TickStep(k, s)
        PROVE  KeeperTypes'
    BY <1>6, <1>b DEF TickStep, TickStamp, TickLock, TickUnlock, SessionCloses, TickUnchanged
  <1>7. ASSUME NEW k \in Keeper, NEW s \in Schedule, TickStep(k, s) PROVE KeeperTypes'
    BY <1>7, <1>b DEF TickStep, TickStamp, TickLock, TickUnlock, TickUnchanged
  <1>8. ASSUME NEW s \in Schedule,
               \/ CreateSchedule(s) \/ PatchSchedule(s)
               \/ \E q \in Request : \/ MoveWrite(q, s)
                                    \/ \E to \in ScheduleStatus : MoveRead(q, s, to)
        PROVE  KeeperTypes'
    BY <1>8, <1>b DEF CreateSchedule, PatchSchedule, MoveWrite, MoveRead, ApiUnchanged
  <1>9. ASSUME TimePasses \/ UNCHANGED vars PROVE KeeperTypes'
    BY <1>9, <1>b DEF TimePasses, vars
  <1> QED
    BY <1>1, <1>2, <1>3, <1>4, <1>5, <1>6, <1>7, <1>8, <1>9 DEF Next, KeeperStep

-----------------------------------------------------------------------------
(* The clock goes forward; requests and bounds stay typed.                 *)
LEMMA OtherTypesKept == SchedulerInv /\ [Next]_vars => OtherTypes' /\ clock <= clock'
  <1> SUFFICES ASSUME SchedulerInv, [Next]_vars PROVE OtherTypes' /\ clock <= clock'
    OBVIOUS
  <1> DEFINE R == [at : {"idle", "validated"}, to : ScheduleStatus]
             S == [ticks : 0..MaxTicks, events : 0..MaxEvents]
  <1>a. /\ clock \in 0..MaxTime /\ request \in [Request -> [Schedule -> R]] /\ spent \in S
        /\ MaxTime \in Nat /\ MaxTicks \in Nat /\ MaxEvents \in Nat
    BY SchedulerAssumption DEF SchedulerInv, TypeOK
  <1>b. clock \in Int
    BY <1>a
  <1>c. ASSUME UNCHANGED clock, request' \in [Request -> [Schedule -> R]], spent' \in S
        PROVE  OtherTypes' /\ clock <= clock'
    BY <1>a, <1>b, <1>c DEF OtherTypes
  <1>d. ASSUME spent.events < MaxEvents PROVE [spent EXCEPT !.events = @ + 1] \in S
    <2>1. spent.events + 1 \in 0..MaxEvents
      BY <1>a, <1>d
    <2> QED BY <2>1, <1>a
  <1>1. ASSUME TimePasses PROVE OtherTypes' /\ clock <= clock'
    <2>1. clock' = clock + 1 /\ clock < MaxTime /\ UNCHANGED <<request, spent>>
      BY <1>1 DEF TimePasses
    <2>2. clock' \in 0..MaxTime /\ clock <= clock'
      BY <2>1, <1>a
    <2> QED BY <2>1, <2>2, <1>a DEF OtherTypes
  <1>2. ASSUME NEW k \in Keeper, KeeperStep(k) PROVE UNCHANGED <<clock, request, spent>>
    BY <1>2 DEF KeeperStep, LoadAndStart, StartCatchupConsumer, PublishCatchup
  <1>3. ASSUME NEW k \in Keeper, ConsumerStep(k) PROVE UNCHANGED <<clock, request, spent>>
    BY <1>3 DEF ConsumerStep, ConsumerSelect, ConsumerClaim, ConsumerExecute,
                CompleteJob, FailJob, AdvanceLastCompleted, ConsumerUnchanged
  <1>4. ASSUME NEW k \in Keeper, KeeperStops(k) \/ ConsumerError(k)
        PROVE  UNCHANGED <<clock, request>> /\ spent' \in S
    BY <1>4, <1>d DEF KeeperStops, ConsumerError, ConsumerUnchanged
  <1>5. ASSUME NEW k \in Keeper, NEW s \in Schedule, TickStep(k, s)
        PROVE  UNCHANGED <<clock, request>> /\ spent' \in S
    <2>1. CASE \E n \in Session : TickLock(k, s, n)
      <3>1. UNCHANGED <<clock, request>> /\ spent.ticks < MaxTicks
            /\ spent' = [spent EXCEPT !.ticks = @ + 1]
        BY <2>1 DEF TickLock, TickUnchanged
      <3>2. spent.ticks + 1 \in 0..MaxTicks
        BY <3>1, <1>a
      <3> QED BY <3>1, <3>2, <1>a
    <2>2. CASE TickStamp(k, s) \/ \E n \in Session : TickUnlock(k, s, n)
      BY <2>2, <1>a DEF TickStamp, TickUnlock, TickUnchanged
    <2> QED BY <1>5, <2>1, <2>2 DEF TickStep
  <1>6. ASSUME NEW k \in Keeper, NEW n \in Session, SessionCloses(k, n)
        PROVE  UNCHANGED <<clock, request, spent>>
    BY <1>6 DEF SessionCloses, TickUnchanged
  <1>7. ASSUME NEW s \in Schedule, CreateSchedule(s) \/ PatchSchedule(s)
        PROVE  UNCHANGED <<clock, request>> /\ spent' \in S
    BY <1>7, <1>a, <1>d DEF CreateSchedule, PatchSchedule, ApiUnchanged
  <1>8. ASSUME NEW s \in Schedule, NEW q \in Request, NEW to \in ScheduleStatus,
               MoveWrite(q, s) \/ MoveRead(q, s, to)
        PROVE  /\ UNCHANGED clock /\ spent' \in S
               /\ request' \in [Request -> [Schedule -> R]]
    <2>1. PICK new \in R : request' = [request EXCEPT ![q][s] = new]
      <3>1. IdleRequest \in R /\ [at |-> "validated", to |-> to] \in R
        BY DEF IdleRequest, ScheduleStatus
      <3> QED BY <1>8, <3>1 DEF MoveWrite, MoveRead
    <2>2. UNCHANGED clock /\ spent' \in S
      BY <1>8, <1>a, <1>d DEF MoveWrite, MoveRead, ApiUnchanged
    <2> QED BY <2>1, <2>2, <1>a
  <1>9. ASSUME UNCHANGED vars PROVE UNCHANGED <<clock, request, spent>>
    BY <1>9 DEF vars
  <1> HIDE DEF R, S
  <1>e. ASSUME UNCHANGED <<clock, request>>, spent' \in S PROVE OtherTypes' /\ clock <= clock'
    BY <1>a, <1>c, <1>e
  <1>10. ASSUME UNCHANGED <<clock, request, spent>> PROVE OtherTypes' /\ clock <= clock'
    BY <1>a, <1>e, <1>10
  <1>11. ASSUME NEW k \in Keeper,
                \/ KeeperStep(k) \/ ConsumerStep(k) \/ KeeperStops(k) \/ ConsumerError(k)
                \/ \E s \in Schedule : TickStep(k, s)
                \/ \E n \in Session : SessionCloses(k, n)
         PROVE  OtherTypes' /\ clock <= clock'
    <2>1. CASE KeeperStep(k) \/ ConsumerStep(k) \/ \E n \in Session : SessionCloses(k, n)
      BY <2>1, <1>2, <1>3, <1>6, <1>10
    <2>2. CASE \/ KeeperStops(k) \/ ConsumerError(k) \/ \E s \in Schedule : TickStep(k, s)
      BY <2>2, <1>4, <1>5, <1>e
    <2> QED BY <1>11, <2>1, <2>2
  <1>12. ASSUME NEW s \in Schedule,
                \/ CreateSchedule(s) \/ PatchSchedule(s)
                \/ \E q \in Request : \/ MoveWrite(q, s)
                                     \/ \E to \in ScheduleStatus : MoveRead(q, s, to)
         PROVE  OtherTypes' /\ clock <= clock'
    <2>1. CASE CreateSchedule(s) \/ PatchSchedule(s)
      BY <2>1, <1>7, <1>e
    <2>2. CASE \E q \in Request : \/ MoveWrite(q, s)
                                  \/ \E to \in ScheduleStatus : MoveRead(q, s, to)
      <3>0. "active" \in ScheduleStatus
        BY DEF ScheduleStatus
      <3> QED BY <2>2, <3>0, <1>8, <1>c
    <2> QED BY <1>12, <2>1, <2>2
  <1> QED
    BY <1>1, <1>9, <1>10, <1>11, <1>12 DEF Next

-----------------------------------------------------------------------------
(* Ticks and locks: a tick under way keeps the lock.                       *)
LEMMA TicksKept ==
    SchedulerInv /\ [Next]_vars =>
        /\ TickTypes' /\ LockOwned'
        /\ \A k \in Keeper, s \in Schedule : tick'[k][s].now <= clock'
  <1> DEFINE Past == \A k \in Keeper, s \in Schedule : tick[k][s].now <= clock
             L == [by : Keeper \cup {NoKeeper}, session : Session \cup {NoSession},
                   leaked : BOOLEAN]
  <1> SUFFICES ASSUME SchedulerInv, [Next]_vars PROVE TickTypes' /\ LockOwned' /\ Past'
    OBVIOUS
  <1>a. /\ lock \in [Schedule -> L] /\ tick \in [Keeper -> [Schedule -> Tick]]
        /\ sched \in [Schedule -> ScheduleRow]
        /\ LockOwned /\ Past /\ clock \in Nat /\ MaxTime \in Nat /\ MinIntervals \subseteq Nat
    BY SchedulerAssumption DEF SchedulerInv, TypeOK, Times
  <1>b. clock' \in Int /\ clock <= clock'
    <2>1. clock' \in 0..MaxTime /\ clock <= clock'
      BY OtherTypesKept DEF OtherTypes
    <2> QED BY <2>1
  <1>c. ASSUME UNCHANGED tick PROVE Past'
    <2>1. ASSUME NEW k \in Keeper, NEW s \in Schedule PROVE tick[k][s].now <= clock'
      <3>1. tick[k][s] \in Tick
        BY <1>a
      <3>2. tick[k][s].now \in Nat /\ tick[k][s].now <= clock
        BY <3>1, <1>a DEF Tick
      <3> QED BY <3>2, <1>a, <1>b
    <2> QED BY <2>1, <1>c
  <1>d. ASSUME UNCHANGED <<lock, tick>> PROVE TickTypes' /\ LockOwned' /\ Past'
    BY <1>a, <1>c, <1>d DEF TickTypes, LockOwned
  <1>e. ASSUME NEW k \in Keeper, NEW s \in Schedule, NEW new \in Tick, NEW own \in L,
               tick' = [tick EXCEPT ![k][s] = new], lock' = [lock EXCEPT ![s] = own],
               UNCHANGED clock, new.now <= clock, new.at # "idle" => own.by = k,
               lock[s].by \in {NoKeeper, k}
        PROVE  TickTypes' /\ LockOwned' /\ Past'
    <2>1. TickTypes'
      BY <1>a, <1>e DEF TickTypes
    <2>2. ASSUME NEW i \in Keeper, NEW t \in Schedule
          PROVE  /\ tick'[i][t].at # "idle" => lock'[t].by = i
                 /\ tick'[i][t].now <= clock'
      <3>1. CASE i = k /\ t = s
        <4>1. tick'[i][t] = new /\ lock'[t] = own
          BY <3>1, <1>a, <1>e
        <4> QED BY <4>1, <3>1, <1>e
      <3>2. CASE t # s
        <4>1. tick'[i][t] = tick[i][t] /\ lock'[t] = lock[t]
          BY <3>2, <1>a, <1>e
        <4> QED BY <4>1, <1>a, <1>e DEF LockOwned
      <3>3. CASE t = s /\ i # k
        <4>1. tick'[i][t] = tick[i][t] /\ lock'[t] = own
          BY <3>3, <1>a, <1>e
        <4>2. tick[i][t].now <= clock
          BY <1>a
        <4>3. tick[i][t].at = "idle"
          BY <3>3, <1>a, <1>e, SchedulerAssumption DEF LockOwned
        <4> QED BY <4>1, <4>2, <4>3, <1>e
      <3> QED BY <3>1, <3>2, <3>3
    <2> QED BY <2>1, <2>2 DEF LockOwned
  <1>1. ASSUME NEW k \in Keeper, NEW s \in Schedule, NEW n \in Session, TickLock(k, s, n)
        PROVE  TickTypes' /\ LockOwned' /\ Past'
    <2> DEFINE own == [by |-> k, session |-> n, leaked |-> lock[s].by = k]
               early == sched[s].lastRun # Never /\ sched[s].minInterval > 0
                        /\ clock - sched[s].lastRun < sched[s].minInterval
               new == IF early THEN [IdleTick EXCEPT !.at = "leaving", !.session = n]
                      ELSE [at |-> "checked", now |-> clock, session |-> n,
                            min |-> sched[s].minInterval]
    <2>1. lock' = [lock EXCEPT ![s] = own] /\ tick' = [tick EXCEPT ![k][s] = new]
          /\ UNCHANGED clock
      BY <1>1 DEF TickLock, TickUnchanged
    <2>2. own \in L /\ own.by = k
      OBVIOUS
    <2>3. sched[s].minInterval \in Nat
      <3>1. sched[s].minInterval \in MinIntervals \cup {0}
        BY <1>a DEF ScheduleRow
      <3>2. MinIntervals \cup {0} \subseteq Nat
        BY <1>a
      <3> QED BY <3>1, <3>2, Zenon
    <2>4. [IdleTick EXCEPT !.at = "leaving", !.session = n] \in Tick
          /\ [IdleTick EXCEPT !.at = "leaving", !.session = n].now = 0
      BY DEF IdleTick, Tick
    <2> HIDE DEF early
    <2>5. new \in Tick /\ new.now <= clock
      BY <2>3, <2>4, <1>a DEF Tick
    <2>6. lock[s].by \in {NoKeeper, k}
      BY <1>1 DEF TickLock, Granted
    <2> HIDE DEF own, new
    <2> QED BY <2>1, <2>2, <2>5, <2>6, <1>e
  <1>2. ASSUME NEW k \in Keeper, NEW s \in Schedule, TickStamp(k, s)
        PROVE  TickTypes' /\ LockOwned' /\ Past'
    <2> DEFINE new == [IdleTick EXCEPT !.at = "leaving", !.session = tick[k][s].session]
    <2>1. /\ lock' = [lock EXCEPT ![s] = lock[s]] /\ tick' = [tick EXCEPT ![k][s] = new]
          /\ UNCHANGED clock
      BY <1>2, <1>a DEF TickStamp, TickUnchanged
    <2>2. tick[k][s].session \in Session \cup {NoSession}
      BY <1>a DEF Tick
    <2>3. new \in Tick /\ new.now = 0
      BY <2>2 DEF IdleTick, Tick
    <2>4. new.now <= clock
      BY <2>3, <1>a
    <2>5. lock[s].by = k /\ lock[s] \in L
      BY <1>2, <1>a DEF TickStamp, LockOwned
    <2> HIDE DEF new
    <2> QED BY <2>1, <2>3, <2>4, <2>5, <1>e
  <1>3. ASSUME NEW k \in Keeper, NEW s \in Schedule, NEW n \in Session, TickUnlock(k, s, n)
        PROVE  TickTypes' /\ LockOwned' /\ Past'
    <2> DEFINE own == IF n = tick[k][s].session /\ ~lock[s].leaked THEN FreeLock
                      ELSE [lock[s] EXCEPT !.leaked = TRUE]
    <2>1. /\ lock' = [lock EXCEPT ![s] = own] /\ tick' = [tick EXCEPT ![k][s] = IdleTick]
          /\ UNCHANGED clock
      BY <1>3, <1>a DEF TickUnlock, TickUnchanged
    <2>2. own \in L
      <3>1. FreeLock \in L
        BY DEF FreeLock
      <3>2. [lock[s] EXCEPT !.leaked = TRUE] \in L
        BY <1>a
      <3> QED BY <3>1, <3>2
    <2>3. IdleTick \in Tick /\ IdleTick.now = 0 /\ IdleTick.at = "idle"
      BY DEF IdleTick, Tick
    <2>4. lock[s].by = k
      BY <1>3, <1>a DEF TickUnlock, LockOwned
    <2>5. IdleTick.now <= clock
      BY <2>3, <1>a
    <2> HIDE DEF own
    <2> QED BY <2>1, <2>2, <2>3, <2>4, <2>5, <1>e
  <1>4. ASSUME NEW k \in Keeper, KeeperStops(k) PROVE TickTypes' /\ LockOwned' /\ Past'
    <2>1. /\ lock' = [s \in Schedule |-> IF lock[s].by = k THEN FreeLock ELSE lock[s]]
          /\ tick' = [tick EXCEPT ![k] = [s \in Schedule |-> IdleTick]]
          /\ UNCHANGED clock
      BY <1>4 DEF KeeperStops
    <2>2. FreeLock \in L
      BY DEF FreeLock
    <2>3. IdleTick \in Tick /\ IdleTick.now = 0 /\ IdleTick.at = "idle"
      BY DEF IdleTick, Tick
    <2>4. lock' \in [Schedule -> L]
      BY <2>1, <2>2, <1>a
    <2>5. tick' \in [Keeper -> [Schedule -> Tick]]
      BY <2>1, <2>3, <1>a
    <2>6. ASSUME NEW i \in Keeper, NEW t \in Schedule
          PROVE  /\ tick'[i][t].at # "idle" => lock'[t].by = i
                 /\ tick'[i][t].now <= clock'
      <3>1. CASE i = k
        <4>1. tick'[i][t] = IdleTick
          BY <3>1, <2>1, <1>a
        <4> QED BY <4>1, <2>1, <2>3, <1>a
      <3>2. CASE i # k
        <4>1. tick'[i][t] = tick[i][t]
          BY <3>2, <2>1, <1>a
        <4>2. tick[i][t].at # "idle" => lock[t].by = i
          BY <1>a DEF LockOwned
        <4>3. lock[t].by = i => lock'[t] = lock[t]
          BY <3>2, <2>1
        <4> QED BY <4>1, <4>2, <4>3, <2>1, <1>a
      <3> QED BY <3>1, <3>2
    <2> QED BY <2>4, <2>5, <2>6 DEF TickTypes, LockOwned
  <1>5. ASSUME NEW k \in Keeper, NEW n \in Session, SessionCloses(k, n)
        PROVE  TickTypes' /\ LockOwned' /\ Past'
    <2>1. /\ \A s \in Schedule : tick[k][s].at = "idle"
          /\ lock' = [s \in Schedule |-> IF lock[s].by = k /\ lock[s].session = n
                                         THEN FreeLock ELSE lock[s]]
          /\ UNCHANGED <<tick, clock>>
      BY <1>5 DEF SessionCloses, TickUnchanged
    <2>2. FreeLock \in L
      BY DEF FreeLock
    <2>3. lock' \in [Schedule -> L]
      BY <2>1, <2>2, <1>a
    <2>4. ASSUME NEW i \in Keeper, NEW t \in Schedule, tick[i][t].at # "idle"
          PROVE  lock'[t].by = i
      <3>1. lock[t].by = i /\ i # k
        BY <2>1, <2>4, <1>a DEF LockOwned
      <3>2. lock'[t] = lock[t]
        BY <3>1, <2>1
      <3> QED BY <3>1, <3>2
    <2> QED BY <2>1, <2>3, <2>4, <1>a, <1>c DEF TickTypes, LockOwned
  <1>6. ASSUME NEW k \in Keeper, KeeperStep(k) \/ ConsumerStep(k) \/ ConsumerError(k)
        PROVE  TickTypes' /\ LockOwned' /\ Past'
    BY <1>6, <1>d DEF KeeperStep, LoadAndStart, StartCatchupConsumer, PublishCatchup,
                      ConsumerStep, ConsumerSelect, ConsumerClaim, ConsumerExecute,
                      CompleteJob, FailJob, AdvanceLastCompleted, ConsumerError,
                      ConsumerUnchanged
  <1>7. ASSUME NEW s \in Schedule,
               \/ CreateSchedule(s) \/ PatchSchedule(s)
               \/ \E q \in Request : \/ MoveWrite(q, s)
                                    \/ \E to \in ScheduleStatus : MoveRead(q, s, to)
        PROVE  TickTypes' /\ LockOwned' /\ Past'
    BY <1>7, <1>d DEF CreateSchedule, PatchSchedule, MoveWrite, MoveRead, ApiUnchanged
  <1>8. ASSUME TimePasses \/ UNCHANGED vars PROVE TickTypes' /\ LockOwned' /\ Past'
    BY <1>8, <1>d DEF TimePasses, vars
  <1> QED
    BY <1>1, <1>2, <1>3, <1>4, <1>5, <1>6, <1>7, <1>8 DEF Next, TickStep

(* A tick is new, as it was, or past its check. *)
LEMMA TickSteps ==
    SchedulerInv /\ [Next]_vars =>
        \A k \in Keeper, s \in Schedule :
            \/ tick'[k][s] = tick[k][s]
            \/ tick'[k][s].at # "checked"
            \/ \E n \in Session : TickLock(k, s, n)
  <1> DEFINE Steps(k, s) == \/ tick'[k][s] = tick[k][s]
                            \/ tick'[k][s].at # "checked"
                            \/ \E n \in Session : TickLock(k, s, n)
  <1> SUFFICES ASSUME SchedulerInv, [Next]_vars, NEW i \in Keeper, NEW t \in Schedule
               PROVE  Steps(i, t)
    OBVIOUS
  <1>a. tick \in [Keeper -> [Schedule -> Tick]]
    BY DEF SchedulerInv, TypeOK
  <1>b. IdleTick.at = "idle" /\ \A n : [IdleTick EXCEPT !.at = "leaving", !.session = n].at = "leaving"
    BY DEF IdleTick
  <1>1. ASSUME NEW k \in Keeper, NEW s \in Schedule, NEW new,
               tick' = [tick EXCEPT ![k][s] = new],
               new.at # "checked" \/ \E n \in Session : TickLock(k, s, n)
        PROVE  Steps(i, t)
    <2>1. CASE k = i /\ s = t
      <3>1. tick'[i][t] = new
        BY <2>1, <1>1, <1>a
      <3> QED BY <2>1, <3>1, <1>1
    <2>2. CASE ~(k = i /\ s = t)
      BY <2>2, <1>1, <1>a
    <2> QED BY <2>1, <2>2
  <1>2. ASSUME NEW k \in Keeper, NEW s \in Schedule, TickStep(k, s) PROVE Steps(i, t)
    <2>1. PICK new : /\ tick' = [tick EXCEPT ![k][s] = new]
                     /\ new.at # "checked" \/ \E n \in Session : TickLock(k, s, n)
      <3>1. CASE \E n \in Session : TickLock(k, s, n)
        <4>1. \E new : tick' = [tick EXCEPT ![k][s] = new]
          BY <3>1 DEF TickLock
        <4> QED BY <3>1, <4>1
      <3>2. CASE TickStamp(k, s)
        <4>1. tick' = [tick EXCEPT ![k][s] = [IdleTick EXCEPT !.at = "leaving",
                                                !.session = tick[k][s].session]]
          BY <3>2 DEF TickStamp
        <4> QED BY <4>1, <1>b
      <3>3. CASE \E n \in Session : TickUnlock(k, s, n)
        <4>1. tick' = [tick EXCEPT ![k][s] = IdleTick]
          BY <3>3 DEF TickUnlock
        <4> QED BY <4>1, <1>b
      <3> QED BY <1>2, <3>1, <3>2, <3>3 DEF TickStep
    <2> QED BY <2>1, <1>1
  <1>3. ASSUME NEW k \in Keeper, KeeperStops(k) PROVE Steps(i, t)
    <2>1. tick' = [tick EXCEPT ![k] = [s \in Schedule |-> IdleTick]]
      BY <1>3 DEF KeeperStops
    <2>2. CASE k = i
      <3>1. tick'[i][t] = IdleTick
        BY <2>1, <2>2, <1>a
      <3> QED BY <3>1, <1>b
    <2>3. CASE k # i
      BY <2>1, <2>3, <1>a
    <2> QED BY <2>2, <2>3
  <1>4. ASSUME UNCHANGED tick PROVE Steps(i, t)
    BY <1>4
  <1> HIDE DEF Steps
  <1>5. ASSUME NEW k \in Keeper, KeeperStep(k) \/ ConsumerStep(k) \/ ConsumerError(k)
        PROVE  UNCHANGED tick
    BY <1>5 DEF KeeperStep, LoadAndStart, StartCatchupConsumer, PublishCatchup,
                ConsumerStep, ConsumerSelect, ConsumerClaim, ConsumerExecute, CompleteJob,
                FailJob, AdvanceLastCompleted, ConsumerError, ConsumerUnchanged
  <1>6. ASSUME NEW s \in Schedule,
               \/ CreateSchedule(s) \/ PatchSchedule(s)
               \/ \E q \in Request : \/ MoveWrite(q, s)
                                    \/ \E to \in ScheduleStatus : MoveRead(q, s, to)
        PROVE  UNCHANGED tick
    BY <1>6 DEF CreateSchedule, PatchSchedule, MoveWrite, MoveRead, ApiUnchanged
  <1>7. ASSUME \/ TimePasses \/ UNCHANGED vars
               \/ \E k \in Keeper, n \in Session : SessionCloses(k, n)
        PROVE  UNCHANGED tick
    BY <1>7 DEF TimePasses, vars, SessionCloses
  <1> QED
    BY <1>2, <1>3, <1>4, <1>5, <1>6, <1>7 DEF Next

(* The last run a tick has checked against stays until it stamps.          *)
LEMMA CheckedApartKept == SchedulerInv /\ [Next]_vars => CheckedApart'
  <1> SUFFICES ASSUME SchedulerInv, [Next]_vars, NEW k \in Keeper, NEW s \in Schedule,
                      tick'[k][s].at = "checked", sched'[s].lastRun # Never
               PROVE  tick'[k][s].now - sched'[s].lastRun >= tick'[k][s].min
    BY DEF CheckedApart
  <1>a. /\ sched \in [Schedule -> ScheduleRow] /\ tick \in [Keeper -> [Schedule -> Tick]]
        /\ Times /\ LockOwned /\ CheckedApart /\ clock \in Int
    BY DEF SchedulerInv, TypeOK
  <1>1. CASE \E n \in Session : TickLock(k, s, n)
    <2>1. UNCHANGED sched
      BY <1>1 DEF TickLock
    <2> DEFINE early == sched[s].lastRun # Never /\ sched[s].minInterval > 0
                        /\ clock - sched[s].lastRun < sched[s].minInterval
    <2>2. PICK n \in Session : TickLock(k, s, n)
      BY <1>1
    <2>3. tick'[k][s] = IF early THEN [IdleTick EXCEPT !.at = "leaving", !.session = n]
                        ELSE [at |-> "checked", now |-> clock, session |-> n,
                              min |-> sched[s].minInterval]
      BY <2>2, <1>a DEF TickLock
    <2>4. [IdleTick EXCEPT !.at = "leaving", !.session = n].at = "leaving"
      BY DEF IdleTick
    <2>5. ~early
      BY <2>3, <2>4
    <2>6. tick'[k][s].now = clock /\ tick'[k][s].min = sched[s].minInterval
      BY <2>3, <2>5
    <2>7. sched[s].lastRun \in Int /\ sched[s].minInterval \in Nat
          /\ sched[s].lastRun <= clock
      <3>1. sched[s].minInterval \in MinIntervals \cup {0} /\ sched[s].lastRun \in Int
        BY <1>a DEF ScheduleRow
      <3>2. MinIntervals \cup {0} \subseteq Nat
        BY SchedulerAssumption
      <3>3. sched[s].minInterval \in Nat
        BY <3>1, <3>2, Zenon
      <3> QED BY <3>1, <3>3, <1>a DEF Times
    <2>8. sched[s].lastRun # Never
      BY <2>1
    <2> QED BY <2>1, <2>5, <2>6, <2>7, <2>8, <1>a
  <1>2. CASE tick'[k][s] = tick[k][s]
    <2>1. CASE UNCHANGED sched
      BY <1>2, <2>1, <1>a DEF CheckedApart
    <2>2. ASSUME NEW t \in Schedule, RowWritten(t)
          PROVE  sched'[s].lastRun = sched[s].lastRun
      <3>1. CASE t # s
        BY <2>2, <3>1, <1>a DEF RowWritten
      <3>2. CASE t = s
        <4>1. CASE \E new \in ScheduleRow :
                     /\ sched' = [sched EXCEPT ![s] = new]
                     /\ new.lastRun = sched[s].lastRun
          BY <4>1, <1>a
        <4>2. ASSUME NEW i \in Keeper, tick[i][s].at = "checked",
                     tick' = [tick EXCEPT ![i][s] = [IdleTick EXCEPT !.at = "leaving",
                                                      !.session = tick[i][s].session]]
              PROVE  FALSE
          <5>1. tick[k][s].at = "checked"
            BY <1>2
          <5>2. lock[s].by = i /\ lock[s].by = k
            BY <4>2, <5>1, <1>a DEF LockOwned
          <5>3. tick'[k][s] = [IdleTick EXCEPT !.at = "leaving",
                                               !.session = tick[i][s].session]
            BY <4>2, <5>2, <1>a
          <5>4. tick'[k][s].at = "leaving"
            BY <5>3 DEF IdleTick
          <5> QED BY <5>4
        <4> QED BY <2>2, <3>2, <4>1, <4>2 DEF RowWritten
      <3> QED BY <3>1, <3>2
    <2>3. sched'[s].lastRun = sched[s].lastRun
      BY <2>1, <2>2, SchedSteps DEF SchedulerInv
    <2> QED BY <1>2, <2>3, <1>a DEF CheckedApart
  <1> QED BY <1>1, <1>2, TickSteps

-----------------------------------------------------------------------------
(* Catch-up jobs: the types of the queue and of its consumers, and the     *)
(* claims, which no crash, error or second keeper undoes.                  *)
LEMMA ClaimsKept == SchedulerInv /\ [Next]_vars => JobTypes' /\ Claims'
  <1> SUFFICES ASSUME SchedulerInv, [Next]_vars PROVE JobTypes' /\ Claims'
    OBVIOUS
  <1>a. /\ job \in [Job -> JobRow] /\ consumer \in [Keeper -> Consumer]
        /\ executed \in [Job -> [Keeper -> Nat]] /\ clock \in Nat
        /\ Claims /\ NoJob \notin Job
    <2>1. clock \in 0..MaxTime /\ MaxTime \in Nat
      BY SchedulerAssumption DEF SchedulerInv, TypeOK
    <2> QED BY <2>1, SchedulerAssumption DEF SchedulerInv, TypeOK
  <1>b. ASSUME UNCHANGED <<job, consumer, executed>> PROVE JobTypes' /\ Claims'
    BY <1>a, <1>b DEF JobTypes, Claims
  <1>c. IdleConsumer \in Consumer /\ IdleConsumer.at = "idle"
    BY DEF IdleConsumer, Consumer
  <1>d. ASSUME NEW k \in Keeper, NEW new \in Consumer,
               consumer' = [consumer EXCEPT ![k] = new], UNCHANGED <<job, executed>>,
               new.at # "idle" =>
                 /\ new.job \in Job /\ job[new.job].status # "none"
                 /\ new.at # "selected" => job[new.job].status # "queued",
               new.at \in {"selected", "claimed"} => executed[new.job][k] # 1
        PROVE  JobTypes' /\ Claims'
    <2>1. consumer'[k] = new /\ \A i \in Keeper \ {k} : consumer'[i] = consumer[i]
      BY <1>a, <1>d
    <2>2. JobTypes'
      BY <1>a, <1>d DEF JobTypes
    <2>3. ASSUME NEW i \in Keeper
          PROVE  /\ consumer'[i].at # "idle" =>
                      /\ consumer'[i].job \in Job
                      /\ job[consumer'[i].job].status # "none"
                      /\ consumer'[i].at # "selected" => job[consumer'[i].job].status # "queued"
                 /\ \A j \in Job : executed[j][i] = 1 =>
                      ~(consumer'[i].at \in {"selected", "claimed"} /\ consumer'[i].job = j)
      <3>1. CASE i = k
        BY <3>1, <2>1, <1>d
      <3>2. CASE i # k
        BY <3>2, <2>1, <1>a DEF Claims
      <3> QED BY <3>1, <3>2
    <2> QED BY <2>2, <2>3, <1>a, <1>d DEF Claims
  <1>e. ASSUME NEW k \in Keeper, NEW j \in Job,
               NEW status \in {"queued", "processing", "completed", "failed"}, NEW new \in Consumer, UNCHANGED executed,
               job' = [job EXCEPT ![j].status = status],
               consumer' = [consumer EXCEPT ![k] = new],
               status # "queued", consumer[k].at # "idle", consumer[k].job = j,
               new.at # "idle" => new.job = j /\ new.at # "selected",
               new.at = "claimed" => consumer[k].at = "selected"
        PROVE  JobTypes' /\ Claims'
    <2>1. consumer'[k] = new /\ \A i \in Keeper \ {k} : consumer'[i] = consumer[i]
      BY <1>a, <1>e
    <2>2. job[j] \in JobRow /\ [job[j] EXCEPT !.status = status] \in JobRow
      BY <1>a DEF JobRow
    <2>3. /\ job' = [job EXCEPT ![j] = [job[j] EXCEPT !.status = status]]
          /\ [job[j] EXCEPT !.status = status].status = status
      BY <1>a, <1>e, <2>2 DEF JobRow
    <2>4. JobTypes'
      BY <1>a, <1>e, <2>2, <2>3 DEF JobTypes
    <2>5. job'[j].status = status /\ \A i \in Job \ {j} : job'[i] = job[i]
      BY <1>a, <2>3
    <2>6. ASSUME NEW i \in Keeper, consumer'[i].at # "idle"
          PROVE  /\ consumer'[i].job \in Job
                 /\ job'[consumer'[i].job].status # "none"
                 /\ consumer'[i].at # "selected" => job'[consumer'[i].job].status # "queued"
      <3>1. CASE i = k
        BY <3>1, <2>1, <2>5, <2>6, <1>e
      <3>2. CASE i # k
        <4>1. consumer'[i] = consumer[i]
          BY <3>2, <2>1
        <4>2. CASE consumer[i].job = j
          BY <4>1, <4>2, <2>5, <1>e
        <4>3. CASE consumer[i].job # j
          BY <4>1, <4>3, <2>5, <2>6, <1>a DEF Claims
        <4> QED BY <4>2, <4>3
      <3> QED BY <3>1, <3>2
    <2>7. ASSUME NEW m \in Job, NEW i \in Keeper, executed[m][i] = 1
          PROVE  /\ job'[m].status \notin {"none", "queued"}
                 /\ ~(consumer'[i].at \in {"selected", "claimed"} /\ consumer'[i].job = m)
      <3>1. job'[m].status \notin {"none", "queued"}
        <4>1. CASE m = j
          BY <4>1, <2>5, <1>e
        <4>2. CASE m # j
          BY <4>2, <2>5, <2>7, <1>a DEF Claims
        <4> QED BY <4>1, <4>2
      <3>2. ~(consumer'[i].at \in {"selected", "claimed"} /\ consumer'[i].job = m)
        <4>1. ~(consumer[i].at \in {"selected", "claimed"} /\ consumer[i].job = m)
          BY <2>7, <1>a DEF Claims
        <4>2. CASE i # k
          BY <4>1, <4>2, <2>1
        <4>3. CASE i = k
          BY <4>1, <4>3, <2>1, <1>e
        <4> QED BY <4>2, <4>3
      <3> QED BY <3>1, <3>2
    <2> QED BY <2>4, <2>6, <2>7, <1>a, <1>e DEF Claims
  <1>1. ASSUME NEW k \in Keeper, NEW s \in Schedule, PublishCatchup(k, s)
        PROVE  JobTypes' /\ Claims'
    <2> DEFINE j == CHOOSE i \in Job : job[i].status = "none"
               new == [status |-> "queued", schedule |-> s, scheduledFor |-> clock]
    <2>1. j \in Job /\ job[j].status = "none"
      BY <1>1 DEF PublishCatchup
    <2>2. job' = [job EXCEPT ![j] = new] /\ UNCHANGED <<consumer, executed>>
      BY <1>1 DEF PublishCatchup
    <2> HIDE DEF j
    <2>3. JobTypes'
      BY <2>1, <2>2, <1>a DEF JobTypes, JobRow
    <2>4. job'[j].status = "queued" /\ \A i \in Job \ {j} : job'[i] = job[i]
      BY <2>1, <2>2, <1>a
    <2>5. Claims'
      BY <2>1, <2>2, <2>4, <1>a DEF Claims
    <2> QED BY <2>3, <2>5
  <1>2. ASSUME NEW k \in Keeper, NEW j \in Job, ConsumerSelect(k, j)
        PROVE  JobTypes' /\ Claims'
    <2> DEFINE new == [at |-> "selected", job |-> j]
    <2>1. /\ consumer' = [consumer EXCEPT ![k] = new] /\ UNCHANGED <<job, executed>>
          /\ job[j].status = "queued"
      BY <1>2 DEF ConsumerSelect, Queued
    <2>2. new \in Consumer
      BY DEF Consumer
    <2>3. executed[j][k] # 1
      BY <2>1, <1>a DEF Claims
    <2> QED BY <2>1, <2>2, <2>3, <1>d
  <1>3. ASSUME NEW k \in Keeper, ConsumerClaim(k) PROVE JobTypes' /\ Claims'
    <2> DEFINE j == consumer[k].job
               new == [consumer[k] EXCEPT !.at = "claimed"]
    <2>1. consumer[k].at = "selected" /\ consumer[k] \in Consumer
      BY <1>3, <1>a DEF ConsumerClaim
    <2>2. j \in Job /\ job[j].status # "none"
      BY <2>1, <1>a DEF Claims
    <2>3. new \in Consumer /\ new.at = "claimed" /\ new.job = j
      BY <2>1 DEF Consumer
    <2>4. /\ consumer' = [consumer EXCEPT ![k] = new] /\ UNCHANGED executed
          /\ job' = [job EXCEPT ![j].status = IF @ = "queued" THEN "processing" ELSE @]
      BY <1>3 DEF ConsumerClaim
    <2> DEFINE status == IF job[j].status = "queued" THEN "processing" ELSE job[j].status
    <2>5. job' = [job EXCEPT ![j].status = status]
      BY <2>4
    <2>6. status \in {"queued", "processing", "completed", "failed"} /\ status # "queued"
      BY <2>2, <1>a DEF JobRow
    <2> HIDE DEF j, new, status
    <2> QED BY <2>1, <2>2, <2>3, <2>4, <2>5, <2>6, <1>e DEF j
  <1>4. ASSUME NEW k \in Keeper, ConsumerExecute(k) PROVE JobTypes' /\ Claims'
    <2> DEFINE j == consumer[k].job
    <2>1. consumer[k].at = "claimed" /\ consumer[k] \in Consumer
      BY <1>4, <1>a DEF ConsumerExecute
    <2>2. j \in Job /\ job[j].status \notin {"none", "queued"}
      BY <2>1, <1>a DEF Claims
    <2>3. PICK at \in {"succeeded", "failing"} :
            consumer' = [consumer EXCEPT ![k] = [consumer[k] EXCEPT !.at = at]]
      BY <1>4 DEF ConsumerExecute
    <2> DEFINE new == [consumer[k] EXCEPT !.at = at]
    <2>4. new \in Consumer /\ new.at = at /\ new.job = j
      BY <2>1 DEF Consumer
    <2>5. executed' = [executed EXCEPT ![j][k] = executed[j][k] + 1] /\ UNCHANGED job
      BY <1>4 DEF ConsumerExecute
    <2>6. executed[j][k] = 0
      <3>1. executed[j][k] # 1 /\ executed[j][k] <= 1 /\ executed[j][k] \in Nat
        BY <2>1, <2>2, <1>a DEF Claims
      <3> QED BY <3>1
    <2> HIDE DEF j, new
    <2>7. executed' = [executed EXCEPT ![j][k] = 1]
      BY <2>5, <2>6
    <2>8. JobTypes'
      BY <2>2, <2>3, <2>4, <2>5, <2>7, <1>a DEF JobTypes, new
    <2>9. consumer'[k] = new /\ \A i \in Keeper \ {k} : consumer'[i] = consumer[i]
      BY <2>3, <1>a DEF new
    <2>10. ASSUME NEW i \in Keeper, consumer'[i].at # "idle"
           PROVE  /\ consumer'[i].job \in Job
                  /\ job'[consumer'[i].job].status # "none"
                  /\ consumer'[i].at # "selected" => job'[consumer'[i].job].status # "queued"
      <3>1. CASE i = k
        BY <3>1, <2>2, <2>4, <2>5, <2>9
      <3>2. CASE i # k
        BY <3>2, <2>5, <2>9, <2>10, <1>a DEF Claims
      <3> QED BY <3>1, <3>2
    <2>11. ASSUME NEW m \in Job, NEW i \in Keeper
           PROVE  /\ executed'[m][i] <= 1
                  /\ executed'[m][i] = 1 =>
                       /\ job'[m].status \notin {"none", "queued"}
                       /\ ~(consumer'[i].at \in {"selected", "claimed"} /\ consumer'[i].job = m)
      <3>1. CASE m = j /\ i = k
        <4>1. executed'[m][i] = 1
          BY <3>1, <2>2, <2>7, <1>a
        <4> QED BY <3>1, <4>1, <2>2, <2>4, <2>5, <2>9
      <3>2. CASE m # j /\ i = k
        <4>1. executed'[m][i] = executed[m][i]
          BY <3>2, <2>2, <2>7, <1>a
        <4> QED BY <3>2, <4>1, <2>4, <2>5, <2>9, <1>a DEF Claims
      <3>3. CASE i # k
        <4>1. executed'[m][i] = executed[m][i]
          BY <3>3, <2>2, <2>7, <1>a
        <4> QED BY <3>3, <4>1, <2>5, <2>9, <1>a DEF Claims
      <3> QED BY <3>1, <3>2, <3>3
    <2> QED BY <2>8, <2>10, <2>11 DEF Claims
  <1>5. ASSUME NEW k \in Keeper, CompleteJob(k) \/ FailJob(k) PROVE JobTypes' /\ Claims'
    <2> DEFINE j == consumer[k].job
    <2>1. consumer[k].at # "idle" /\ consumer[k] \in Consumer
      BY <1>5, <1>a DEF CompleteJob, FailJob
    <2>2. j \in Job
      BY <2>1, <1>a DEF Claims
    <2>3. PICK status \in {"completed", "failed"}, new \in Consumer :
            /\ job' = [job EXCEPT ![j].status = status]
            /\ consumer' = [consumer EXCEPT ![k] = new]
            /\ new.at # "idle" => new.job = j /\ new.at \notin {"selected", "claimed"}
      <3>1. [consumer[k] EXCEPT !.at = "advancing"] \in Consumer
            /\ [consumer[k] EXCEPT !.at = "advancing"].at = "advancing"
            /\ [consumer[k] EXCEPT !.at = "advancing"].job = j
        BY <2>1 DEF Consumer
      <3>2. CASE CompleteJob(k)
        BY <3>1, <3>2 DEF CompleteJob
      <3>3. CASE FailJob(k)
        BY <3>3, <1>c DEF FailJob
      <3> QED BY <1>5, <3>2, <3>3
    <2>4. UNCHANGED executed
      BY <1>5 DEF CompleteJob, FailJob
    <2> HIDE DEF j
    <2> QED BY <2>1, <2>2, <2>3, <2>4, <1>e DEF j
  <1>6. ASSUME NEW k \in Keeper, AdvanceLastCompleted(k) \/ KeeperStops(k)
        PROVE  JobTypes' /\ Claims'
    <2>1. consumer' = [consumer EXCEPT ![k] = IdleConsumer] /\ UNCHANGED <<job, executed>>
      BY <1>6 DEF AdvanceLastCompleted, KeeperStops
    <2> QED BY <2>1, <1>c, <1>d
  <1>7. ASSUME NEW k \in Keeper, ConsumerError(k) PROVE JobTypes' /\ Claims'
    <2>1. consumer[k] \in Consumer /\ UNCHANGED <<job, executed>>
      BY <1>7, <1>a DEF ConsumerError
    <2>2. CASE consumer[k].at \in {"succeeded", "advancing"}
      <3> DEFINE new == [consumer[k] EXCEPT !.at = "failing"]
      <3>1. new \in Consumer /\ new.at = "failing" /\ new.job = consumer[k].job
        BY <2>1 DEF Consumer
      <3>2. consumer' = [consumer EXCEPT ![k] = new]
        BY <1>7, <2>2 DEF ConsumerError
      <3>3. /\ consumer[k].job \in Job
            /\ job[consumer[k].job].status \notin {"none", "queued"}
        BY <2>2, <1>a DEF Claims
      <3> HIDE DEF new
      <3> QED BY <2>1, <3>1, <3>2, <3>3, <1>d
    <2>3. CASE consumer[k].at \notin {"succeeded", "advancing"}
      <3>1. consumer' = [consumer EXCEPT ![k] = IdleConsumer]
        BY <1>7, <2>3 DEF ConsumerError
      <3> QED BY <2>1, <3>1, <1>c, <1>d
    <2> QED BY <2>2, <2>3
  <1>8. ASSUME NEW k \in Keeper, LoadAndStart(k) \/ StartCatchupConsumer(k)
        PROVE  UNCHANGED <<job, consumer, executed>>
    BY <1>8 DEF LoadAndStart, StartCatchupConsumer
  <1>9. ASSUME NEW k \in Keeper,
               \/ \E s \in Schedule : TickStep(k, s)
               \/ \E n \in Session : SessionCloses(k, n)
        PROVE  UNCHANGED <<job, consumer, executed>>
    BY <1>9 DEF TickStep, TickStamp, TickLock, TickUnlock, SessionCloses, TickUnchanged
  <1>10. ASSUME NEW s \in Schedule,
                \/ CreateSchedule(s) \/ PatchSchedule(s)
                \/ \E q \in Request : \/ MoveWrite(q, s)
                                     \/ \E to \in ScheduleStatus : MoveRead(q, s, to)
         PROVE  UNCHANGED <<job, consumer, executed>>
    BY <1>10 DEF CreateSchedule, PatchSchedule, MoveWrite, MoveRead, ApiUnchanged
  <1>11. ASSUME TimePasses \/ UNCHANGED vars PROVE UNCHANGED <<job, consumer, executed>>
    BY <1>11 DEF TimePasses, vars
  <1> QED
    BY <1>b, <1>1, <1>2, <1>3, <1>4, <1>5, <1>6, <1>7, <1>8, <1>9, <1>10, <1>11
       DEF Next, KeeperStep, ConsumerStep

-----------------------------------------------------------------------------
LEMMA InitScheduler == Init => SchedulerInv
  <1> SUFFICES ASSUME Init PROVE SchedulerInv
    OBVIOUS
  <1>a. /\ MaxTime \in Nat /\ BatchLimit \in Nat /\ MaxTicks \in Nat /\ MaxEvents \in Nat
        /\ Schedule # {}
    BY SchedulerAssumption
  <1>b. 0 \in 0..MaxTime /\ 0 \in 0..BatchLimit /\ 0 \in 0..MaxTicks /\ 0 \in 0..MaxEvents
    BY <1>a
  <1>1. SchedTypes /\ \A s \in Schedule : sched[s].lastRun = Never
    <2>1. PICK completed \in [Schedule -> {Never, 0}], cron \in [Schedule -> CronExpr],
               user \in SUBSET Schedule :
            sched = [s \in Schedule |->
                      [cron |-> cron[s],
                       type |-> IF s \in user THEN "user" ELSE "system",
                       status |-> IF s \in user THEN "none" ELSE "active",
                       enabled |-> TRUE, minInterval |-> 0, lastRun |-> Never,
                       lastCompleted |-> IF s \in user THEN Never ELSE completed[s]]]
      BY DEF Init
    <2>2. Never \in Never..MaxTime /\ 0 \in Never..MaxTime /\ Never \in Int
      BY <1>a DEF Never
    <2>3. ASSUME NEW s \in Schedule
          PROVE  /\ sched[s] \in ScheduleRow /\ sched[s].lastRun = Never
                 /\ sched[s].lastCompleted \in Never..MaxTime
      <3> DEFINE type == IF s \in user THEN "user" ELSE "system"
                 status == IF s \in user THEN "none" ELSE "active"
                 lastCompleted == IF s \in user THEN Never ELSE completed[s]
      <3>1. type \in {"system", "user"} /\ status \in ScheduleStatus \cup {"none"}
        BY DEF ScheduleStatus
      <3>2. lastCompleted \in Never..MaxTime
        <4>1. completed[s] \in {Never, 0}
          OBVIOUS
        <4> HIDE DEF type, status
        <4> QED BY <4>1, <2>2
      <3>3. lastCompleted \in Int
        BY <3>2, <1>a DEF Never
      <3>4. sched[s] = [cron |-> cron[s], type |-> type, status |-> status, enabled |-> TRUE,
                        minInterval |-> 0, lastRun |-> Never,
                        lastCompleted |-> lastCompleted]
        BY <2>1
      <3> HIDE DEF type, status, lastCompleted
      <3> QED BY <2>2, <3>1, <3>2, <3>3, <3>4 DEF ScheduleRow
    <2>4. sched \in [Schedule -> ScheduleRow]
      BY <2>1, <2>3
    <2> QED BY <2>2, <2>3, <2>4 DEF SchedTypes
  <1>2. KeeperTypes
    BY <1>b DEF Init, KeeperTypes, Down
  <1>3. TickTypes
    BY DEF Init, TickTypes, Tick, IdleTick, FreeLock
  <1>4. JobTypes
    <2>1. (CHOOSE s \in Schedule : TRUE) \in Schedule
      BY <1>a
    <2> QED BY <2>1 DEF Init, JobTypes, JobRow, Consumer, IdleConsumer
  <1>5. OtherTypes
    BY <1>b DEF Init, OtherTypes, IdleRequest, ScheduleStatus
  <1>6. TypeOK
    BY <1>1, <1>2, <1>3, <1>4, <1>5
       DEF TypeOK, SchedTypes, KeeperTypes, TickTypes, JobTypes, OtherTypes
  <1>7. \A k \in Keeper, s \in Schedule : tick[k][s] = IdleTick
    BY DEF Init
  <1>8. IdleTick.at = "idle" /\ IdleTick.now = 0
    BY DEF IdleTick
  <1>9. Times /\ LockOwned /\ CheckedApart
    <2>1. clock = 0
      BY DEF Init
    <2> QED BY <2>1, <1>1, <1>7, <1>8 DEF Times, LockOwned, CheckedApart, Never
  <1>10. Claims
    <2>1. \A k \in Keeper : consumer[k].at = "idle"
      BY DEF Init, IdleConsumer
    <2>2. \A j \in Job, k \in Keeper : executed[j][k] = 0
      BY DEF Init
    <2> QED BY <2>1, <2>2 DEF Claims
  <1> QED BY <1>6, <1>9, <1>10 DEF SchedulerInv

LEMMA StepScheduler == SchedulerInv /\ [Next]_vars => SchedulerInv'
  <1> SUFFICES ASSUME SchedulerInv, [Next]_vars PROVE SchedulerInv'
    OBVIOUS
  <1>1. /\ SchedTypes' /\ KeeperTypes' /\ TickTypes' /\ JobTypes' /\ OtherTypes'
        /\ LockOwned' /\ Claims' /\ CheckedApart' /\ clock <= clock'
        /\ \A k \in Keeper, s \in Schedule : tick'[k][s].now <= clock'
    BY SchedTypesKept, KeeperTypesKept, TicksKept, ClaimsKept, OtherTypesKept,
       CheckedApartKept
  <1>2. TypeOK'
    BY <1>1 DEF TypeOK, SchedTypes, KeeperTypes, TickTypes, JobTypes, OtherTypes
  <1>3. ASSUME NEW s \in Schedule PROVE sched'[s].lastRun <= clock'
    <2>1. sched[s].lastRun <= clock /\ sched[s].lastRun \in Int /\ clock \in Int /\ clock' \in Int
      <3>1. sched[s] \in ScheduleRow /\ clock \in 0..MaxTime /\ clock' \in 0..MaxTime
            /\ sched[s].lastRun <= clock
        BY <1>1 DEF SchedulerInv, TypeOK, OtherTypes, Times
      <3> QED BY <3>1 DEF ScheduleRow
    <2>2. CASE sched'[s].lastRun = sched[s].lastRun
      BY <2>1, <2>2, <1>1
    <2>3. ASSUME NEW t \in Schedule, RowWritten(t),
                 sched'[s].lastRun # sched[s].lastRun
          PROVE  sched'[s].lastRun <= clock'
      <3>1. sched \in [Schedule -> ScheduleRow]
        BY DEF SchedulerInv, TypeOK
      <3>2. PICK k \in Keeper :
              /\ sched' = [sched EXCEPT ![t].lastRun = Max({@, tick[k][t].now})]
              /\ t = s
        BY <2>3, <3>1 DEF RowWritten
      <3>3. sched'[s].lastRun = Max({sched[s].lastRun, tick[k][s].now})
        BY <3>1, <3>2 DEF ScheduleRow
      <3>4. tick[k][s].now \in Int /\ tick[k][s].now <= clock
        BY DEF SchedulerInv, TypeOK, Tick, Times
      <3>5. Max({sched[s].lastRun, tick[k][s].now}) =
              IF sched[s].lastRun >= tick[k][s].now THEN sched[s].lastRun ELSE tick[k][s].now
        BY <2>1, <3>4, MaxOfTwo
      <3> QED BY <3>3, <3>4, <3>5, <2>1, <1>1
    <2> QED BY <2>2, <2>3, SchedSteps DEF SchedulerInv
  <1> QED BY <1>1, <1>2, <1>3 DEF SchedulerInv, Times

(* A keeper runs the handler of a catch-up job at most once                *)
(* (keeper/src/scheduler.ts, startCatchupConsumer).                        *)
THEOREM CatchupOncePerKeeper == Spec => []ExecutedOncePerKeeper
  <1>1. Init => SchedulerInv
    BY InitScheduler
  <1>2. SchedulerInv /\ [Next]_vars => SchedulerInv'
    BY StepScheduler
  <1>3. SchedulerInv => ExecutedOncePerKeeper
    BY DEF SchedulerInv, Claims, ExecutedOncePerKeeper
  <1> QED BY <1>1, <1>2, <1>3, PTL DEF Spec

(* Whenever a tick moves last_run_at forward, the minimum interval it read *)
(* has passed since the value it replaces (executeSchedule), however many  *)
(* keepers tick and however many unlocks are lost.                         *)
THEOREM RunsKeepApart == Spec => MinIntervalKept
  <1> DEFINE Apart(s) ==
        sched[s].lastRun # Never /\ sched'[s].lastRun # sched[s].lastRun =>
            \E k \in Keeper : /\ tick[k][s].at = "checked"
                              /\ sched'[s].lastRun - sched[s].lastRun >= tick[k][s].min
  <1>1. ASSUME SchedulerInv, [Next]_vars PROVE [\A s \in Schedule : Apart(s)]_vars
    <2> SUFFICES ASSUME NEW s \in Schedule, sched[s].lastRun # Never,
                        sched'[s].lastRun # sched[s].lastRun
                 PROVE  \E k \in Keeper :
                          /\ tick[k][s].at = "checked"
                          /\ sched'[s].lastRun - sched[s].lastRun >= tick[k][s].min
      OBVIOUS
    <2>1. sched \in [Schedule -> ScheduleRow] /\ sched[s].lastRun \in Int
      BY <1>1 DEF SchedulerInv, TypeOK, ScheduleRow
    <2>2. PICK t \in Schedule : RowWritten(t)
      BY <1>1, SchedSteps DEF SchedulerInv
    <2>3. PICK k \in Keeper :
            /\ t = s /\ tick[k][s].at = "checked"
            /\ sched' = [sched EXCEPT ![s].lastRun = Max({@, tick[k][s].now})]
      BY <2>1, <2>2 DEF RowWritten
    <2>4. sched'[s].lastRun = Max({sched[s].lastRun, tick[k][s].now})
      BY <2>1, <2>3 DEF ScheduleRow
    <2>5. tick[k][s].now \in Int /\ tick[k][s].min \in Int
      BY <1>1 DEF SchedulerInv, TypeOK, Tick
    <2>6. tick[k][s].now - sched[s].lastRun >= tick[k][s].min
      BY <1>1, <2>3 DEF SchedulerInv, CheckedApart
    <2>7. Max({sched[s].lastRun, tick[k][s].now}) =
            IF sched[s].lastRun >= tick[k][s].now THEN sched[s].lastRun ELSE tick[k][s].now
      BY <2>1, <2>5, MaxOfTwo
    <2>8. sched'[s].lastRun - sched[s].lastRun >= tick[k][s].min
      BY <2>1, <2>4, <2>5, <2>6, <2>7
    <2> QED BY <2>3, <2>8
  <1>2. Init => SchedulerInv
    BY InitScheduler
  <1>3. SchedulerInv /\ [Next]_vars => SchedulerInv'
    BY StepScheduler
  <1> QED BY <1>1, <1>2, <1>3, PTL DEF Spec, MinIntervalKept
=============================================================================
