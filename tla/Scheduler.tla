----------------------------- MODULE Scheduler -----------------------------
(***************************************************************************)
(* The scheduler engine of every keeper (keeper/src/scheduler.ts), the     *)
(* generic job queue it hands missed runs to (api/src/lib/queue.ts) and    *)
(* the schedule routes of the API (api/src/routes/schedules.ts).           *)
(*                                                                         *)
(* At start a keeper loads the enabled schedules, publishes one catch-up   *)
(* job per missed window and then polls the queue.  A cron tick takes an   *)
(* advisory lock, reads the row, stamps last_run_at and gives the lock     *)
(* back.  Lock and unlock may travel on different sessions of the pool.    *)
(*                                                                         *)
(* The stamp is `const [updatedResult] = await db`UPDATE ...``: without    *)
(* RETURNING the result has no first element, so the next line throws and  *)
(* the tick ends in its catch.  No tick records a run or calls a handler;  *)
(* only catch-up jobs reach handlers.                                      *)
(***************************************************************************)
EXTENDS Integers, FiniteSets, FiniteSetsExt

CONSTANTS
    Schedule, Keeper, Session, Job, Request,
    NoKeeper, NoSession, NoJob,
    MinuteFields, HourFields, PlainDays, \* the cron expressions of the instance
    StepInterval,             \* N of a minute field */N
    ListGap,                  \* average gap of a minute list
    Hour, Day,                \* their lengths, scaled down
    MinIntervals,             \* values of min_interval_ms
    Staleness,                \* max_staleness_ms
    BatchLimit,               \* MISSED_WINDOW_CATCHUP_BATCH_LIMIT
    MaxTime,
    MaxTicks,                 \* bound: cron ticks that get the lock
    MaxEvents                 \* bound: crashes, failing statements and API calls

ASSUME SchedulerAssumption ==
    /\ Schedule # {}
    /\ {StepInterval, ListGap, Hour, Day} \subseteq Nat \ {0}
    /\ MinIntervals \subseteq Nat
    /\ {Staleness, BatchLimit, MaxTime, MaxTicks, MaxEvents} \subseteq Nat
    /\ NoKeeper \notin Keeper /\ NoSession \notin Session /\ NoJob \notin Job

VARIABLES
    sched,      \* the schedules table
    job,        \* the job_queue table, type schedule_catchup
    clock,
    keeper,     \* per keeper: phase, loaded tasks, windows still to publish
    lock,       \* external: the advisory lock of every schedule
    tick,       \* per keeper and schedule: the cron tick under way
    consumer,   \* per keeper: the catch-up consumer
    request,    \* pause, activate and delete between their read and write
    executed,   \* history: how often a keeper ran the handler of a job
    spent

vars == <<sched, job, clock, keeper, lock, tick, consumer, request, executed, spent>>

-----------------------------------------------------------------------------
(* The schedule machine of api/src/lib/state-machine.ts.                   *)

ScheduleStatus == {"active", "paused", "deleted"}

ScheduleTransition ==
    {<<"active", "paused">>, <<"paused", "active">>,
     <<"active", "deleted">>, <<"paused", "deleted">>}

Never == -1   \* a null timestamp

CronExpr == [minute : MinuteFields, hour : HourFields, plainDays : PlainDays]

ScheduleRow == [cron : CronExpr, type : {"system", "user"},
                status : ScheduleStatus \cup {"none"}, enabled : BOOLEAN,
                minInterval : MinIntervals \cup {0},    \* 0: null
                lastRun : Int, lastCompleted : Int]

JobRow == [status : {"none", "queued", "processing", "completed", "failed"},
           schedule : Schedule, scheduledFor : Nat]

Tick == [at : {"idle", "checked", "leaving"}, now : Nat,
         session : Session \cup {NoSession}, min : Nat]

Consumer == [at : {"idle", "selected", "claimed", "succeeded", "failing", "advancing"},
             job : Job \cup {NoJob}]

IdleTick == [at |-> "idle", now |-> 0, session |-> NoSession, min |-> 0]
IdleConsumer == [at |-> "idle", job |-> NoJob]
IdleRequest == [at |-> "idle", to |-> "active"]
Down == [phase |-> "down", tasks |-> {}, owed |-> [s \in Schedule |-> 0]]
FreeLock == [by |-> NoKeeper, session |-> NoSession, leaked |-> FALSE]

(* Types of the two tables, the locks and what every keeper is doing.      *)
TypeOK ==
    /\ sched \in [Schedule -> ScheduleRow]
    /\ \A s \in Schedule : /\ sched[s].lastRun \in Never..MaxTime
                           /\ sched[s].lastCompleted \in Never..MaxTime
    /\ job \in [Job -> JobRow]
    /\ clock \in 0..MaxTime
    /\ keeper \in [Keeper -> [phase : {"down", "loading", "up"},
                              tasks : SUBSET Schedule,
                              owed : [Schedule -> 0..BatchLimit]]]
    /\ lock \in [Schedule -> [by : Keeper \cup {NoKeeper},
                              session : Session \cup {NoSession},
                              leaked : BOOLEAN]]
    /\ tick \in [Keeper -> [Schedule -> Tick]]
    /\ consumer \in [Keeper -> Consumer]
    /\ request \in [Request -> [Schedule -> [at : {"idle", "validated"},
                                             to : ScheduleStatus]]]
    /\ executed \in [Job -> [Keeper -> Nat]]
    /\ spent \in [ticks : 0..MaxTicks, events : 0..MaxEvents]

(* Organizations are created with system schedules; user schedules come    *)
(* later.  last_completed_at is null, or was set by a release whose ticks  *)
(* still completed.                                                        *)
Init ==
    /\ \E completed \in [Schedule -> {Never, 0}], cron \in [Schedule -> CronExpr],
          user \in SUBSET Schedule :
          sched = [s \in Schedule |->
                      [cron |-> cron[s],
                       type |-> IF s \in user THEN "user" ELSE "system",
                       status |-> IF s \in user THEN "none" ELSE "active",
                       enabled |-> TRUE, minInterval |-> 0, lastRun |-> Never,
                       lastCompleted |-> IF s \in user THEN Never ELSE completed[s]]]
    /\ job = [j \in Job |-> [status |-> "none", schedule |-> CHOOSE s \in Schedule : TRUE,
                             scheduledFor |-> 0]]
    /\ clock = 0
    /\ keeper = [k \in Keeper |-> Down]
    /\ lock = [s \in Schedule |-> FreeLock]
    /\ tick = [k \in Keeper |-> [s \in Schedule |-> IdleTick]]
    /\ consumer = [k \in Keeper |-> IdleConsumer]
    /\ request = [q \in Request |-> [s \in Schedule |-> IdleRequest]]
    /\ executed = [j \in Job |-> [k \in Keeper |-> 0]]
    /\ spent = [ticks |-> 0, events |-> 0]

-----------------------------------------------------------------------------
(* parseCronInterval: zero for a pattern it does not know.                 *)
CronInterval(e) ==
    IF e.minute = "*/N" THEN StepInterval
    ELSE IF e.hour = "*/N" /\ e.minute = "0" THEN 2 * Hour
    ELSE IF e.minute = "list" THEN ListGap
    ELSE IF e.minute = "*" /\ e.hour = "*" /\ e.plainDays THEN 1
    ELSE IF e.minute = "0" /\ e.hour = "*" THEN Hour
    ELSE IF e.minute = "0" /\ e.hour = "fixed" THEN Day
    ELSE 0

(* computeMissedWindows: the window that is running now does not count.    *)
MissedWindows(e, last, now) ==
    LET interval == CronInterval(e)
    IN  IF last = Never \/ now <= last THEN 0
        ELSE IF interval = 0 THEN 1
        ELSE Max({0, (now - last) \div interval - 1})

(* handleMissedRuns: the jobs it publishes for one loaded schedule.        *)
CatchupCount(r, now) ==
    LET missed == MissedWindows(r.cron, r.lastCompleted, now)
    IN  IF r.lastCompleted = Never \/ (missed = 0 /\ now - r.lastCompleted < Staleness)
        THEN 0 ELSE Min({missed, BatchLimit})

-----------------------------------------------------------------------------
(* Starting and stopping.                                                  *)

(* loadAndStart selects the rows once: paused schedules are among them.    *)
Loadable(r) == r.enabled /\ r.status \notin {"deleted", "none"}

LoadAndStart(k) ==
    LET loaded == {s \in Schedule : Loadable(sched[s])}
    IN  /\ keeper[k].phase = "down"
        /\ keeper' = [keeper EXCEPT ![k] =
                         [phase |-> "loading", tasks |-> loaded,
                          owed |-> [s \in Schedule |-> IF s \in loaded
                                       THEN CatchupCount(sched[s], clock) ELSE 0]]]
        /\ UNCHANGED <<sched, job, clock, lock, tick, consumer, request, executed, spent>>

PublishCatchup(k, s) ==
    /\ keeper[k].phase = "loading" /\ keeper[k].owed[s] > 0
    /\ \E j \in Job : job[j].status = "none"
    /\ job' = [job EXCEPT ![CHOOSE j \in Job : job[j].status = "none"] =
                  [status |-> "queued", schedule |-> s, scheduledFor |-> clock]]
    /\ keeper' = [keeper EXCEPT ![k].owed[s] = @ - 1]
    /\ UNCHANGED <<sched, clock, lock, tick, consumer, request, executed, spent>>

StartCatchupConsumer(k) ==
    /\ keeper[k].phase = "loading"
    /\ \A s \in Schedule : keeper[k].owed[s] = 0
    /\ keeper' = [keeper EXCEPT ![k].phase = "up"]
    /\ UNCHANGED <<sched, job, clock, lock, tick, consumer, request, executed, spent>>

(* The keeper dies, exits because loading threw, or is told to stop: its   *)
(* sessions end and with them its locks.                                   *)
KeeperStops(k) ==
    /\ keeper[k].phase # "down"
    /\ spent.events < MaxEvents
    /\ keeper' = [keeper EXCEPT ![k] = Down]
    /\ lock' = [s \in Schedule |-> IF lock[s].by = k THEN FreeLock ELSE lock[s]]
    /\ tick' = [tick EXCEPT ![k] = [s \in Schedule |-> IdleTick]]
    /\ consumer' = [consumer EXCEPT ![k] = IdleConsumer]
    /\ spent' = [spent EXCEPT !.events = @ + 1]
    /\ UNCHANGED <<sched, job, clock, request, executed>>

-----------------------------------------------------------------------------
(* executeSchedule.                                                        *)

TickUnchanged == UNCHANGED <<job, clock, keeper, consumer, request, executed>>

(* Mutant: pg_try_advisory_lock always answers true.                       *)
AlwaysGranted(k, s, n) == TRUE

(* External: pg_try_advisory_lock, which a session may take again.         *)
Granted(k, s, n) ==
    \/ lock[s].by = NoKeeper
    \/ lock[s].by = k /\ lock[s].session = n

(* A tick that is refused the lock returns at once.  With the lock it      *)
(* reads the row, whose enabled and status it does not look at, and checks *)
(* the minimum interval.  Lock and read are one step: under the lock only  *)
(* a PATCH can come between them, and it might as well come first.         *)
TickLock(k, s, n) ==
    LET r == sched[s]
        early == r.lastRun # Never /\ r.minInterval > 0
                 /\ clock - r.lastRun < r.minInterval
    IN  /\ s \in keeper[k].tasks /\ tick[k][s].at = "idle"
        /\ Granted(k, s, n)
        /\ lock' = [lock EXCEPT ![s] = [by |-> k, session |-> n,
                                        leaked |-> lock[s].by = k]]
        /\ tick' = [tick EXCEPT ![k][s] =
                       IF early THEN [IdleTick EXCEPT !.at = "leaving", !.session = n]
                       ELSE [at |-> "checked", now |-> clock, session |-> n,
                             min |-> r.minInterval]]
        /\ spent.ticks < MaxTicks
        /\ spent' = [spent EXCEPT !.ticks = @ + 1]
        /\ UNCHANGED sched /\ TickUnchanged

(* last_run_at is stamped if it is older; then updatedResult.count throws. *)
TickStamp(k, s) ==
    /\ tick[k][s].at = "checked"
    /\ sched' = [sched EXCEPT ![s].lastRun = Max({@, tick[k][s].now})]
    /\ tick' = [tick EXCEPT ![k][s] = [IdleTick EXCEPT !.at = "leaving",
                                                     !.session = tick[k][s].session]]
    /\ UNCHANGED <<lock, spent>> /\ TickUnchanged

(* The unlock travels on any session; on another one than the lock's it    *)
(* releases nothing.                                                       *)
TickUnlock(k, s, n) ==
    /\ tick[k][s].at = "leaving"
    /\ lock' = [lock EXCEPT ![s] =
                   IF n = tick[k][s].session /\ ~@.leaked THEN FreeLock
                   ELSE [@ EXCEPT !.leaked = TRUE]]
    /\ tick' = [tick EXCEPT ![k][s] = IdleTick]
    /\ UNCHANGED <<sched, spent>> /\ TickUnchanged

(* idle_timeout closes a session, and its locks are released.  A tick's    *)
(* statements follow each other faster than that.                          *)
SessionCloses(k, n) ==
    /\ \E s \in Schedule : lock[s].by = k /\ lock[s].session = n
    /\ \A s \in Schedule : tick[k][s].at = "idle"
    /\ lock' = [s \in Schedule |-> IF lock[s].by = k /\ lock[s].session = n
                                   THEN FreeLock ELSE lock[s]]
    /\ UNCHANGED <<sched, tick, spent>> /\ TickUnchanged

-----------------------------------------------------------------------------
(* The catch-up consumer.                                                  *)

ConsumerUnchanged == UNCHANGED <<clock, keeper, lock, tick, request>>

Queued == {j \in Job : job[j].status = "queued"}

(* Mutant: jobs of schedules that are not active are passed over.          *)
SelectActive(k, j) ==
    /\ keeper[k].phase = "up" /\ consumer[k].at = "idle"
    /\ j \in Queued
    /\ sched[job[j].schedule].status = "active"
    /\ consumer' = [consumer EXCEPT ![k] = [at |-> "selected", job |-> j]]
    /\ UNCHANGED <<sched, job, executed, spent>> /\ ConsumerUnchanged

ConsumerSelect(k, j) ==
    /\ keeper[k].phase = "up" /\ consumer[k].at = "idle"
    /\ j \in Queued
    /\ \A i \in Queued : job[j].scheduledFor <= job[i].scheduledFor
    /\ consumer' = [consumer EXCEPT ![k] = [at |-> "selected", job |-> j]]
    /\ UNCHANGED <<sched, job, executed, spent>> /\ ConsumerUnchanged

(* Mutant: nothing marks the job before its handler runs.                  *)
ClaimNothing(k) ==
    /\ consumer[k].at = "selected"
    /\ consumer' = [consumer EXCEPT ![k].at = "claimed"]
    /\ UNCHANGED <<sched, job, executed, spent>> /\ ConsumerUnchanged

(* UPDATE ... WHERE id = j AND status = 'queued'; whether it matched is    *)
(* not looked at, so a second keeper goes on as well.                      *)
ConsumerClaim(k) ==
    /\ consumer[k].at = "selected"
    /\ job' = [job EXCEPT ![consumer[k].job].status =
                  IF @ = "queued" THEN "processing" ELSE @]
    /\ consumer' = [consumer EXCEPT ![k].at = "claimed"]
    /\ UNCHANGED <<sched, executed, spent>> /\ ConsumerUnchanged

(* The handler returns true, or it returns false, throws or is missing.    *)
ConsumerExecute(k) ==
    /\ consumer[k].at = "claimed"
    /\ executed' = [executed EXCEPT ![consumer[k].job][k] = @ + 1]
    /\ \E at \in {"succeeded", "failing"} :
           consumer' = [consumer EXCEPT ![k].at = at]
    /\ UNCHANGED <<sched, job, spent>> /\ ConsumerUnchanged

CompleteJob(k) ==
    /\ consumer[k].at = "succeeded"
    /\ job' = [job EXCEPT ![consumer[k].job].status = "completed"]
    /\ consumer' = [consumer EXCEPT ![k].at = "advancing"]
    /\ UNCHANGED <<sched, executed, spent>> /\ ConsumerUnchanged

FailJob(k) ==
    /\ consumer[k].at = "failing"
    /\ job' = [job EXCEPT ![consumer[k].job].status = "failed"]
    /\ consumer' = [consumer EXCEPT ![k] = IdleConsumer]
    /\ UNCHANGED <<sched, executed, spent>> /\ ConsumerUnchanged

AdvanceLastCompleted(k) ==
    /\ consumer[k].at = "advancing"
    /\ sched' = [sched EXCEPT ![job[consumer[k].job].schedule].lastCompleted = clock]
    /\ consumer' = [consumer EXCEPT ![k] = IdleConsumer]
    /\ UNCHANGED <<job, executed, spent>> /\ ConsumerUnchanged

(* A statement throws.  Before the handler, and in failJob, the poll loop  *)
(* catches it and leaves the job as it is; after a successful handler the  *)
(* inner catch fails the job, even if it has just been completed.          *)
ConsumerError(k) ==
    /\ consumer[k].at # "idle" /\ spent.events < MaxEvents
    /\ spent' = [spent EXCEPT !.events = @ + 1]
    /\ consumer' = [consumer EXCEPT ![k] =
                       IF @.at \in {"succeeded", "advancing"}
                       THEN [@ EXCEPT !.at = "failing"] ELSE IdleConsumer]
    /\ UNCHANGED <<sched, job, executed>> /\ ConsumerUnchanged

-----------------------------------------------------------------------------
(* The routes.  System schedules can be neither patched nor deleted, but   *)
(* they can be paused and activated.                                       *)

ApiUnchanged == UNCHANGED <<job, clock, keeper, lock, tick, consumer, executed>>

CreateSchedule(s) ==
    /\ sched[s].status = "none"
    /\ \E cron \in CronExpr, m \in MinIntervals :
           sched' = [sched EXCEPT ![s].status = "active", ![s].type = "user",
                                  ![s].cron = cron, ![s].minInterval = m]
    /\ UNCHANGED <<request, spent>> /\ ApiUnchanged

(* PATCH does not look at the status: a deleted schedule can be enabled.   *)
PatchSchedule(s) ==
    /\ sched[s].status # "none" /\ sched[s].type = "user"
    /\ spent.events < MaxEvents
    /\ spent' = [spent EXCEPT !.events = @ + 1]
    /\ \E cron \in CronExpr, m \in MinIntervals, e \in BOOLEAN :
           sched' = [sched EXCEPT ![s].cron = cron, ![s].minInterval = m,
                                  ![s].enabled = e]
    /\ UNCHANGED request /\ ApiUnchanged

(* Pause, activate and delete validate what they read and update by id.    *)
MoveRead(q, s, to) ==
    /\ request[q][s].at = "idle"
    /\ <<sched[s].status, to>> \in ScheduleTransition
    /\ to = "deleted" => sched[s].type = "user"
    /\ spent.events < MaxEvents
    /\ spent' = [spent EXCEPT !.events = @ + 1]
    /\ request' = [request EXCEPT ![q][s] = [at |-> "validated", to |-> to]]
    /\ UNCHANGED sched /\ ApiUnchanged

MoveWrite(q, s) ==
    /\ request[q][s].at = "validated"
    /\ sched' = [sched EXCEPT ![s].status = request[q][s].to,
                   ![s].enabled = IF request[q][s].to = "deleted" THEN FALSE ELSE @]
    /\ request' = [request EXCEPT ![q][s] = IdleRequest]
    /\ UNCHANGED spent /\ ApiUnchanged

TimePasses ==
    /\ clock < MaxTime
    /\ clock' = clock + 1
    /\ UNCHANGED <<sched, job, keeper, lock, tick, consumer, request, executed, spent>>

-----------------------------------------------------------------------------
KeeperStep(k) ==
    \/ LoadAndStart(k) \/ StartCatchupConsumer(k)
    \/ \E s \in Schedule : PublishCatchup(k, s)

ConsumerStep(k) ==
    \/ \E j \in Job : ConsumerSelect(k, j)
    \/ ConsumerClaim(k) \/ ConsumerExecute(k) \/ CompleteJob(k) \/ FailJob(k)
    \/ AdvanceLastCompleted(k)

TickStep(k, s) ==
    \/ TickStamp(k, s)
    \/ \E n \in Session : TickLock(k, s, n) \/ TickUnlock(k, s, n)

Next ==
    \/ TimePasses
    \/ \E k \in Keeper :
          \/ KeeperStep(k) \/ ConsumerStep(k) \/ KeeperStops(k) \/ ConsumerError(k)
          \/ \E s \in Schedule : TickStep(k, s)
          \/ \E n \in Session : SessionCloses(k, n)
    \/ \E s \in Schedule :
          \/ CreateSchedule(s) \/ PatchSchedule(s)
          \/ \E q \in Request : \/ MoveWrite(q, s)
                               \/ \E to \in ScheduleStatus : MoveRead(q, s, to)

Spec == Init /\ [][Next]_vars

(* A keeper is restarted by its supervisor and its poll loop never ends.   *)
FairSpec ==
    Spec /\ \A k \in Keeper : WF_vars(KeeperStep(k)) /\ WF_vars(ConsumerStep(k))

-----------------------------------------------------------------------------
(* The min-interval guard holds across keepers: whenever a tick moves      *)
(* last_run_at forward, at least the interval it read has passed since the *)
(* value it replaces, although lock, read and stamp are separate           *)
(* statements, ticks of several keepers overlap and unlocks get lost       *)
(* (executeSchedule).                                                      *)
MinIntervalKept ==
    [][\A s \in Schedule :
          sched[s].lastRun # Never /\ sched'[s].lastRun # sched[s].lastRun =>
              \E k \in Keeper : /\ tick[k][s].at = "checked"
                                /\ sched'[s].lastRun - sched[s].lastRun >= tick[k][s].min
      ]_vars

(* A keeper runs the handler of a catch-up job at most once, through       *)
(* crashes, restarts and failing statements: the mark written before the   *)
(* handler is never taken back (startCatchupConsumer).  Two keepers may    *)
(* each run it.  (With the types of the rows and of the ticks.)            *)
ExecutedOncePerKeeper ==
    TypeOK /\ \A j \in Job, k \in Keeper : executed[j][k] <= 1

(* Every published catch-up job leaves the queue, whatever its handler     *)
(* does: failures are not put back (startCatchupConsumer, failJob).        *)
CatchupDrains ==
    \A j \in Job : (job[j].status = "queued") ~> (job[j].status # "queued")

(* A tick that stamps last_run_at goes on to record the run: schema.ts     *)
(* says of schedule_runs that it "tracks every scheduler execution".       *)
(* Recording happens between the stamp and the unlock, so the step that    *)
(* stamps may not already be leaving.                                      *)
ExecutionRecorded ==
    [][\A s \in Schedule, k \in Keeper :
          tick[k][s].at = "checked" /\ sched'[s].lastRun # sched[s].lastRun
              => tick'[k][s].at # "leaving"]_vars

=============================================================================
