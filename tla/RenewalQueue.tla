---------------------------- MODULE RenewalQueue ----------------------------
(***************************************************************************)
(* The keeper's scan cycle and its renewal queue (keeper/src/index.ts),    *)
(* the job writer it uses (keeper/src/db-writer.ts) and the API routes     *)
(* that put jobs into the same table (api/src/routes/renewal-jobs.ts,      *)
(* api/src/lib/admin-actions.ts).                                          *)
(*                                                                         *)
(* node-cron starts a cycle every two minutes whether or not the last one  *)
(* has ended, and several keepers may run: a Pass is one such cycle, and   *)
(* passes interleave at every await.  Each SQL statement that changes a    *)
(* row, or whose answer a later statement relies on, is one step.          *)
(***************************************************************************)
EXTENDS Integers, FiniteSets

CONSTANTS
    Blob,             \* registered blobs, each with its vault on chain
    NoBlob,
    Pass,             \* scan cycles that may be under way at the same time
    MaxJobs,          \* bound: rows of renewal_jobs; beyond it inserts fail
    BatchLimit,       \* LIMIT of the queue's SELECT
    MaxAttempts,      \* max_attempts of every job
    MaxAttemptCount,  \* bound: attempt counts no further than this
    MaxDue,           \* bound: times a vault becomes due
    MaxCrashes,       \* bound: crashes
    MaxScanFailures,  \* bound: scans that throw
    MaxErrors,        \* bound: statements around an execution that throw
    MaxRequests,      \* bound: API requests that create jobs
    MaxCancels,       \* bound: API cancel requests
    SlowPasses,       \* may a running job outlive the stale-job threshold?
    BudgetAnswers,    \* answers checkBudgetBeforeExecution may give
    PolicyAnswers,    \* values autoRenewalEnabled may have
    PublisherAnswers, \* may the vault or a publisher be missing?
    Outcomes          \* what an attempt to execute on chain may come to

JobId == 1..MaxJobs

ASSUME QueueAssumption ==
    /\ MaxJobs \in Nat /\ MaxAttempts \in Nat /\ BatchLimit \in Nat
    /\ MaxAttemptCount \in Nat /\ MaxAttempts <= MaxAttemptCount
    /\ MaxDue \in Nat /\ MaxCrashes \in Nat
    /\ MaxScanFailures \in Nat /\ MaxErrors \in Nat
    /\ MaxRequests \in Nat /\ MaxCancels \in Nat /\ SlowPasses \in BOOLEAN
    /\ NoBlob \notin Blob
    /\ BudgetAnswers \subseteq BOOLEAN /\ PolicyAnswers \subseteq BOOLEAN
    /\ PublisherAnswers \subseteq BOOLEAN
    /\ Outcomes \subseteq {"commit", "exhaust", "previous", "lost", "error", "fatal"}

VARIABLES
    jobs,      \* renewal_jobs, a row per id in creation order
    blobs,     \* blob_registrations.status
    chain,     \* the vault on chain: due, fresh, or its policy exhausted
    renewed,   \* history: committed renewals of each blob
    dueCount,  \* history: times each blob became due
    pass,      \* what every pass is doing
    cancels,   \* cancel requests between their read and their write
    spent      \* how much of the bounds above has been used up

vars == <<jobs, blobs, chain, renewed, dueCount, pass, cancels, spent>>

-----------------------------------------------------------------------------
(* Rows, statuses and the state machine.                                   *)

Open == {"estimated", "pending", "retrying"}
Terminal == {"succeeded", "failed_final", "blocked_by_budget"}
Status == Open \cup Terminal \cup {"in_progress"}
BlobStatus == {"tracked", "protected", "expiring", "renewing", "renewed"}

RenewalTransitions ==
    {<<"estimated", "pending">>, <<"pending", "in_progress">>,
     <<"pending", "blocked_by_budget">>, <<"in_progress", "succeeded">>,
     <<"in_progress", "retrying">>, <<"in_progress", "failed_final">>,
     <<"retrying", "in_progress">>}

(* validateTransition throws exactly when this is false. *)
Allowed(from, to) == <<from, to>> \in RenewalTransitions

Row ==
    [status : Status \cup {"none"}, blob : Blob \cup {NoBlob}, attempt : Nat,
     priority : {10, 50, 200}, overridden : BOOLEAN,
     scheduled : {"never", "backoff", "ripe"},
     started : {"never", "fresh", "old"}, heartbeat : {"never", "fresh", "old"}]

NoRow ==
    [status |-> "none", blob |-> NoBlob, attempt |-> 0, priority |-> 50,
     overridden |-> FALSE, scheduled |-> "never", started |-> "never",
     heartbeat |-> "never"]

NewRow(b, status, attempt, priority) ==
    [NoRow EXCEPT !.status = status, !.blob = b, !.attempt = attempt,
                  !.priority = priority]

(* The queue works on the rows its SELECT returned. *)
Snapshot == [id : JobId, status : Status, attempt : Nat,
             scheduled : {"never", "backoff", "ripe"}]

NoSnapshot == [id |-> 0, status |-> "none", attempt |-> 0, scheduled |-> "never"]

RunningSteps ==
    {"heartbeat", "mark", "checks", "execute", "succeed", "retry", "rollback",
     "giveup", "renewed", "final"}

Steps ==
    RunningSteps \cup
    {"idle", "enqueue_check", "enqueue_write", "direct", "record_check",
     "record_write", "recover", "recover_blobs", "select", "next", "budget",
     "idempotency", "settle", "deduplicate", "attach", "lock"}

PassState ==
    [pc : Steps,
     vaults : SUBSET Blob,            \* vaults read from the chain as due
     left : SUBSET (Blob \cup {NoBlob}), \* what the current loop has still to do
     blob : Blob \cup {NoBlob},       \* the one createRenewalJob is called for
     found : JobId \cup {0},          \* the row its SELECT returned
     todo : SUBSET Snapshot,          \* the rest of the batch
     job : Snapshot \cup {NoSnapshot},\* the job being processed
     goal : Terminal \cup {"none"},   \* the status it is to be given
     counted : BOOLEAN]               \* does the failure count as an attempt?

IdlePass ==
    [pc |-> "idle", vaults |-> {}, left |-> {}, blob |-> NoBlob, found |-> 0,
     todo |-> {}, job |-> NoSnapshot, goal |-> "none", counted |-> FALSE]

Init ==
    /\ jobs = [j \in JobId |-> NoRow]
    /\ blobs \in [Blob -> {"tracked", "protected"}]
    /\ chain = [b \in Blob |-> "fresh"]
    /\ renewed = [b \in Blob |-> 0]
    /\ dueCount = [b \in Blob |-> 0]
    /\ pass = [w \in Pass |-> IdlePass]
    /\ cancels = {}
    /\ spent = [crashes |-> 0, failures |-> 0, errors |-> 0, requests |-> 0, cancels |-> 0]

(* Pass w moves on; row j is written. *)
Moves(w, to) == pass' = [pass EXCEPT ![w] = to]
Goto(w, step) == Moves(w, [pass[w] EXCEPT !.pc = step])
Writes(j, row) == jobs' = [jobs EXCEPT ![j] = row]

RowsOf(b, statuses) ==
    {j \in JobId : jobs[j].blob = b /\ jobs[j].status \in statuses}

(* The partial unique index of migration 0022: at most one in_progress row *)
(* per blob.  A statement that would break it throws.                      *)
NoUniqueIndex(j) == TRUE  \* mutant: the index is missing

UniqueActive(j) == RowsOf(jobs[j].blob, {"in_progress"}) \ {j} = {}

(* attempt + 1.  Counting stops above max_attempts, where it makes no      *)
(* difference any more.                                                    *)
CountDown(n) == n - 1  \* mutant: attempts are counted down

NextAttempt(n) == IF n < MaxAttemptCount THEN n + 1 ELSE n

(* INSERT: ids are handed out in creation order. *)
NextId(j) ==
    jobs[j].status = "none" /\ \A k \in JobId : k < j => jobs[k].status # "none"

Inserted(row) == \E j \in JobId : NextId(j) /\ Writes(j, row)

(* Both callers of createRenewalJob log a failed insert and carry on; the  *)
(* bound on the table makes an insert fail.                                *)
InsertedOrLogged(row) ==
    \/ Inserted(row)
    \/ (\A j \in JobId : jobs[j].status # "none") /\ UNCHANGED jobs

-----------------------------------------------------------------------------
(* The scan cycle: enqueue every due vault, then execute every due vault.  *)

DueVaultsWithoutJob ==  \* mutant: vaults with an open job are left to the queue
    {b \in Blob : chain[b] = "due" /\ RowsOf(b, Open) = {}}

DueVaults == {b \in Blob : chain[b] = "due"}

(* With no due vault the cycle returns at once, before the queue is looked *)
(* at: there is no step for it.                                            *)
Scan(w) ==
    /\ pass[w].pc = "idle"
    /\ DueVaults # {}
    /\ Moves(w, [pass[w] EXCEPT !.pc = "enqueue_check", !.vaults = DueVaults,
                                !.left = DueVaults])
    /\ UNCHANGED <<jobs, blobs, chain, renewed, dueCount, cancels, spent>>

(* The scan throws (RPC failure, open breaker): straight to the queue. *)
ScanFails(w) ==
    /\ pass[w].pc = "idle"
    /\ spent.failures < MaxScanFailures
    /\ spent' = [spent EXCEPT !.failures = @ + 1]
    /\ Goto(w, "recover")
    /\ UNCHANGED <<jobs, blobs, chain, renewed, dueCount, cancels>>

(* createRenewalJob, status estimated: look for an open row, newest first. *)
EnqueueCheck(w, b) ==
    /\ pass[w].pc = "enqueue_check"
    /\ b \in pass[w].left
    /\ \E f \in JobId \cup {0} :
         /\ IF RowsOf(b, Open) = {} THEN f = 0
            ELSE f \in RowsOf(b, Open) /\ \A k \in RowsOf(b, Open) : k <= f
         /\ Moves(w, [pass[w] EXCEPT !.pc = "enqueue_write", !.blob = b, !.found = f])
    /\ UNCHANGED <<jobs, blobs, chain, renewed, dueCount, cancels, spent>>

(* It updates the row it found, whatever has become of it, or inserts one. *)
EnqueueWrite(w) ==
    LET rest == pass[w].left \ {pass[w].blob}
    IN  /\ pass[w].pc = "enqueue_write"
        /\ IF pass[w].found # 0
           THEN Writes(pass[w].found, [jobs[pass[w].found] EXCEPT !.attempt = 0])
           ELSE InsertedOrLogged(NewRow(pass[w].blob, "estimated", 0, 10))
        /\ Moves(w, [pass[w] EXCEPT
               !.pc = IF rest = {} THEN "direct" ELSE "enqueue_check",
               !.left = IF rest = {} THEN pass[w].vaults ELSE rest,
               !.blob = NoBlob, !.found = 0])
        /\ UNCHANGED <<blobs, chain, renewed, dueCount, cancels, spent>>

(* executeRenewal on chain.  The contract renews only a vault that is due  *)
(* (ENotDue).  "exhaust" is the transaction that only deactivates the      *)
(* policy; "previous" is the executor finding on the aggregator that the   *)
(* vault it read as due is extended already; "lost" is a commit whose      *)
(* answer never arrives.                                                   *)
RenewsAnything(b) == TRUE  \* mutant: the contract does not assert is_due

RenewsIfDue(b) == chain[b] = "due"

Transact(w, b, o) ==
    \/ /\ o \in {"commit", "lost"}
       /\ RenewsIfDue(b)
       /\ chain' = [chain EXCEPT ![b] = "fresh"]
       /\ renewed' = [renewed EXCEPT ![b] = @ + 1]
    \/ /\ o = "exhaust"
       /\ chain[b] = "due"
       /\ chain' = [chain EXCEPT ![b] = "exhausted"]
       /\ UNCHANGED renewed
    \/ /\ o = "previous"
       /\ b \in pass[w].vaults /\ chain[b] = "fresh"
       /\ UNCHANGED <<chain, renewed>>
    \/ /\ o \in {"error", "fatal"}
       /\ UNCHANGED <<chain, renewed>>

Reported(o) == o \in {"commit", "exhaust", "previous"}

(* The pass moves on to its next due vault, then to the queue. *)
VaultDone(w, b) ==
    LET rest == pass[w].left \ {b}
    IN  IF rest = {} THEN [IdlePass EXCEPT !.pc = "recover"]
        ELSE [IdlePass EXCEPT !.pc = "direct", !.vaults = pass[w].vaults, !.left = rest]

(* Renewal disabled, over budget, no publisher or leadership lost. *)
DirectSkip(w, b) ==
    /\ pass[w].pc = "direct"
    /\ b \in pass[w].left
    /\ FALSE \in PolicyAnswers \cup BudgetAnswers \cup PublisherAnswers
    /\ Moves(w, VaultDone(w, b))
    /\ UNCHANGED <<jobs, blobs, chain, renewed, dueCount, cancels, spent>>

DirectExecute(w, b, o) ==
    /\ pass[w].pc = "direct"
    /\ b \in pass[w].left
    /\ TRUE \in PolicyAnswers /\ TRUE \in BudgetAnswers /\ TRUE \in PublisherAnswers
    /\ Transact(w, b, o)
    /\ Moves(w, [pass[w] EXCEPT
           !.pc = IF Reported(o) THEN "record_check" ELSE "record_write",
           !.blob = b,
           !.goal = IF Reported(o) THEN "succeeded" ELSE "failed_final"])
    /\ UNCHANGED <<jobs, blobs, dueCount, cancels, spent>>

(* createRenewalJob, status succeeded: no second such row for a blob. *)
RecordCheck(w) ==
    /\ pass[w].pc = "record_check"
    /\ IF RowsOf(pass[w].blob, {"succeeded"}) # {}
       THEN Moves(w, VaultDone(w, pass[w].blob))
       ELSE Goto(w, "record_write")
    /\ UNCHANGED <<jobs, blobs, chain, renewed, dueCount, cancels, spent>>

RecordWrite(w) ==
    /\ pass[w].pc = "record_write"
    /\ InsertedOrLogged(NewRow(pass[w].blob, pass[w].goal, 1, 200))
    /\ Moves(w, VaultDone(w, pass[w].blob))
    /\ UNCHANGED <<blobs, chain, renewed, dueCount, cancels, spent>>

-----------------------------------------------------------------------------
(* recoverStaleInProgressJobs.                                             *)

Stale(j) ==
    /\ jobs[j].status = "in_progress"
    /\ \/ jobs[j].heartbeat = "old"
       \/ jobs[j].heartbeat = "never" /\ jobs[j].started = "old"

RecoverStale(w) ==
    /\ pass[w].pc = "recover"
    /\ jobs' = [j \in JobId |->
           IF Stale(j) THEN [jobs[j] EXCEPT !.status = "pending",
                                            !.attempt = NextAttempt(@)]
           ELSE jobs[j]]
    /\ LET stale == {jobs[j].blob : j \in {k \in JobId : Stale(k)}}
       IN  Moves(w, [pass[w] EXCEPT
               !.pc = IF stale = {} THEN "select" ELSE "recover_blobs", !.left = stale])
    /\ UNCHANGED <<blobs, chain, renewed, dueCount, cancels, spent>>

(* UPDATE blob_registrations ... WHERE status = from *)
BlobMoves(b, from, to) ==
    blobs' = IF blobs[b] = from THEN [blobs EXCEPT ![b] = to] ELSE blobs

RecoverBlob(w, b) ==
    /\ pass[w].pc = "recover_blobs"
    /\ b \in pass[w].left
    /\ BlobMoves(b, "renewing", "expiring")
    /\ Moves(w, [pass[w] EXCEPT
           !.pc = IF pass[w].left = {b} THEN "select" ELSE "recover_blobs",
           !.left = @ \ {b}])
    /\ UNCHANGED <<jobs, chain, renewed, dueCount, cancels, spent>>

-----------------------------------------------------------------------------
(* processRenewalQueue: the batch and the checks before execution.         *)

SelectsBlocked == Open \cup {"blocked_by_budget"}  \* mutant: too wide a SELECT

Selectable == Open

Queued == {j \in JobId : jobs[j].status \in Selectable /\ jobs[j].scheduled # "backoff"}

(* ORDER BY priority, scheduled_for NULLS FIRST, created_at.  Two rows     *)
(* that were both scheduled may come in either order.                      *)
Before(i, iSched, j, jSched) ==
    \/ jobs[i].priority < jobs[j].priority
    \/ /\ jobs[i].priority = jobs[j].priority
       /\ \/ iSched = "never" /\ jSched # "never"
          \/ iSched = "never" /\ jSched = "never" /\ i < j

Batches ==
    {S \in SUBSET Queued :
        /\ Cardinality(S) = (IF Cardinality(Queued) < BatchLimit
                             THEN Cardinality(Queued) ELSE BatchLimit)
        /\ \A i \in S, j \in Queued \ S :
             ~Before(j, jobs[j].scheduled, i, jobs[i].scheduled)}

SelectJobs(w) ==
    /\ pass[w].pc = "select"
    /\ \E S \in Batches :
         Moves(w, [pass[w] EXCEPT !.pc = "next",
             !.todo = {[id |-> j, status |-> jobs[j].status, attempt |-> jobs[j].attempt,
                        scheduled |-> jobs[j].scheduled] : j \in S}])
    /\ UNCHANGED <<jobs, blobs, chain, renewed, dueCount, cancels, spent>>

TakeNext(w, s) ==
    /\ pass[w].pc = "next"
    /\ s \in pass[w].todo
    /\ \A t \in pass[w].todo : ~Before(t.id, t.scheduled, s.id, s.scheduled)
    /\ Moves(w, [pass[w] EXCEPT
           !.pc = IF s.status \in {"estimated", "pending"} THEN "budget" ELSE "idempotency",
           !.todo = @ \ {s}, !.job = s])
    /\ UNCHANGED <<jobs, blobs, chain, renewed, dueCount, cancels, spent>>

EndPass(w) ==
    /\ pass[w].pc = "next"
    /\ pass[w].todo = {}
    /\ Moves(w, IdlePass)
    /\ UNCHANGED <<jobs, blobs, chain, renewed, dueCount, cancels, spent>>

(* continue: on to the next job of the batch *)
Continue(w) == Moves(w, [IdlePass EXCEPT !.pc = "next", !.todo = pass[w].todo])

SetStatus(j, status) == Writes(j, [jobs[j] EXCEPT !.status = status])

Me(w) == pass[w].job.id

(* estimated becomes pending by id alone, whatever the row is by now. *)
BudgetAllowed(w) ==
    /\ pass[w].pc = "budget"
    /\ jobs[Me(w)].overridden \/ TRUE \in BudgetAnswers
    /\ IF pass[w].job.status = "estimated" THEN SetStatus(Me(w), "pending")
       ELSE UNCHANGED jobs
    /\ Goto(w, "idempotency")
    /\ UNCHANGED <<blobs, chain, renewed, dueCount, cancels, spent>>

(* The transition is validated first, and for an estimated job the table   *)
(* forbids it: the throw ends the pass and drops the rest of the batch.    *)
BudgetDenied(w) ==
    /\ pass[w].pc = "budget"
    /\ ~jobs[Me(w)].overridden /\ FALSE \in BudgetAnswers
    /\ IF Allowed(pass[w].job.status, "blocked_by_budget")
       THEN /\ SetStatus(Me(w), "blocked_by_budget")
            /\ Continue(w)
       ELSE /\ UNCHANGED jobs
            /\ Moves(w, IdlePass)
    /\ UNCHANGED <<blobs, chain, renewed, dueCount, cancels, spent>>

(* Has the blob any other succeeded job, ever? *)
Idempotency(w) ==
    /\ pass[w].pc = "idempotency"
    /\ Goto(w,
           IF RowsOf(jobs[Me(w)].blob, {"succeeded"}) \ {Me(w)} # {}
           THEN "settle" ELSE "deduplicate")
    /\ UNCHANGED <<jobs, blobs, chain, renewed, dueCount, cancels, spent>>

Settle(w) ==
    /\ pass[w].pc = "settle"
    /\ SetStatus(Me(w), "succeeded")
    /\ Continue(w)
    /\ UNCHANGED <<blobs, chain, renewed, dueCount, cancels, spent>>

Deduplicate(w) ==
    /\ pass[w].pc = "deduplicate"
    /\ Goto(w,
           IF RowsOf(jobs[Me(w)].blob, {"in_progress"}) \ {Me(w)} = {}
           THEN "lock" ELSE "attach")
    /\ UNCHANGED <<jobs, blobs, chain, renewed, dueCount, cancels, spent>>

Activated(j) == Writes(j, [jobs[j] EXCEPT !.status = "in_progress", !.started = "fresh"])

(* "Attaching" to the active job: the row becomes in_progress although     *)
(* nobody executes it, or the unique index refuses.                        *)
Attach(w) ==
    /\ pass[w].pc = "attach"
    /\ UniqueActive(Me(w))
    /\ Activated(Me(w))
    /\ Continue(w)
    /\ UNCHANGED <<blobs, chain, renewed, dueCount, cancels, spent>>

(* The optimistic lock: UPDATE ... WHERE status = 'pending'. *)
StillPending(j) == jobs[j].status = "pending"

Lock(w) ==
    /\ pass[w].pc = "lock"
    /\ StillPending(Me(w))
    /\ UniqueActive(Me(w))
    /\ Activated(Me(w))
    /\ Goto(w, "heartbeat")
    /\ UNCHANGED <<blobs, chain, renewed, dueCount, cancels, spent>>

LockMissedRunsOn(w) ==  \* mutant: the empty answer is not looked at
    /\ pass[w].pc = "lock"
    /\ ~StillPending(Me(w))
    /\ Goto(w, "heartbeat")
    /\ UNCHANGED <<jobs, blobs, chain, renewed, dueCount, cancels, spent>>

LockMissed(w) ==
    /\ pass[w].pc = "lock"
    /\ ~StillPending(Me(w))
    /\ Continue(w)
    /\ UNCHANGED <<jobs, blobs, chain, renewed, dueCount, cancels, spent>>

(* A unique violation is caught around the whole loop: the pass ends. *)
IndexRefuses(w) ==
    /\ pass[w].pc = "attach" \/ (pass[w].pc = "lock" /\ StillPending(Me(w)))
    /\ ~UniqueActive(Me(w))
    /\ Moves(w, IdlePass)
    /\ UNCHANGED <<jobs, blobs, chain, renewed, dueCount, cancels, spent>>

-----------------------------------------------------------------------------
(* processRenewalQueue: execution.                                         *)

FirstHeartbeat(w) ==
    /\ pass[w].pc = "heartbeat"
    /\ Writes(Me(w), [jobs[Me(w)] EXCEPT !.heartbeat = "fresh"])
    /\ Goto(w, "mark")
    /\ UNCHANGED <<blobs, chain, renewed, dueCount, cancels, spent>>

MarkRenewing(w) ==
    /\ pass[w].pc = "mark"
    /\ BlobMoves(jobs[Me(w)].blob, "expiring", "renewing")
    /\ Goto(w, "checks")
    /\ UNCHANGED <<jobs, chain, renewed, dueCount, cancels, spent>>

(* Renewal disabled by policy; vault or publisher missing. *)
ChecksFail(w, goal) ==
    /\ pass[w].pc = "checks"
    /\ \/ FALSE \in PolicyAnswers /\ goal = "blocked_by_budget"
       \/ FALSE \in PublisherAnswers /\ goal = "failed_final"
    /\ Moves(w, [pass[w] EXCEPT !.pc = "rollback", !.goal = goal])
    /\ UNCHANGED <<jobs, blobs, chain, renewed, dueCount, cancels, spent>>

FindVault(w) ==
    /\ pass[w].pc = "checks"
    /\ TRUE \in PolicyAnswers /\ TRUE \in PublisherAnswers
    /\ Moves(w, [pass[w] EXCEPT !.pc = "execute",
                                !.vaults = DueVaults \cap {jobs[Me(w)].blob}])
    /\ UNCHANGED <<jobs, blobs, chain, renewed, dueCount, cancels, spent>>

(* Attempts are counted from the snapshot. *)
AttemptsLeft(w) == pass[w].job.attempt + 1 < MaxAttempts

(* The catch around the execution, for an error worth retrying. *)
Caught(w) ==
    [pass[w] EXCEPT !.pc = IF AttemptsLeft(w) THEN "retry" ELSE "rollback",
                    !.goal = "failed_final", !.counted = TRUE, !.vaults = {}]

Execute(w, o) ==
    /\ pass[w].pc = "execute"
    /\ Transact(w, jobs[Me(w)].blob, o)
    /\ Moves(w, IF Reported(o) THEN [pass[w] EXCEPT !.pc = "succeed", !.vaults = {}]
           ELSE IF o = "fatal" THEN [Caught(w) EXCEPT !.pc = "rollback"]
           ELSE Caught(w))
    /\ UNCHANGED <<jobs, blobs, dueCount, cancels, spent>>

(* A statement of the try block other than the execution throws, before it *)
(* or after it: the same catch, although the job may have succeeded.       *)
StatementThrows(w) ==
    /\ pass[w].pc \in {"checks", "succeed", "renewed", "final"}
    /\ spent.errors < MaxErrors
    /\ spent' = [spent EXCEPT !.errors = @ + 1]
    /\ Moves(w, Caught(w))
    /\ UNCHANGED <<jobs, blobs, chain, renewed, dueCount, cancels>>

(* A last heartbeat, then succeeded, by id alone. *)
Succeed(w) ==
    /\ pass[w].pc = "succeed"
    /\ Writes(Me(w), [jobs[Me(w)] EXCEPT !.heartbeat = "fresh", !.status = "succeeded"])
    /\ Goto(w, "renewed")
    /\ UNCHANGED <<blobs, chain, renewed, dueCount, cancels, spent>>

BlobRenewed(w) ==
    /\ pass[w].pc = "renewed"
    /\ BlobMoves(jobs[Me(w)].blob, "renewing", "renewed")
    /\ Goto(w, "final")
    /\ UNCHANGED <<jobs, chain, renewed, dueCount, cancels, spent>>

(* transitionRenewedBlob *)
BlobFinal(w, to) ==
    /\ pass[w].pc = "final"
    /\ to = "tracked" \/ (to = "protected" /\ TRUE \in PolicyAnswers)
    /\ BlobMoves(jobs[Me(w)].blob, "renewed", to)
    /\ Continue(w)
    /\ UNCHANGED <<jobs, chain, renewed, dueCount, cancels, spent>>

ScheduleRetry(w) ==
    /\ pass[w].pc = "retry"
    /\ Writes(Me(w), [jobs[Me(w)] EXCEPT !.status = "retrying",
           !.attempt = NextAttempt(pass[w].job.attempt), !.scheduled = "backoff"])
    /\ Continue(w)
    /\ UNCHANGED <<blobs, chain, renewed, dueCount, cancels, spent>>

(* rollbackBlobToExpiring, then the job's terminal status. *)
RollbackBlob(w) ==
    /\ pass[w].pc = "rollback"
    /\ BlobMoves(jobs[Me(w)].blob, "renewing", "expiring")
    /\ Goto(w, "giveup")
    /\ UNCHANGED <<jobs, chain, renewed, dueCount, cancels, spent>>

GiveUp(w) ==
    /\ pass[w].pc = "giveup"
    /\ Writes(Me(w), [jobs[Me(w)] EXCEPT !.status = pass[w].goal,
           !.attempt = IF pass[w].counted THEN NextAttempt(pass[w].job.attempt) ELSE @])
    /\ Continue(w)
    /\ UNCHANGED <<blobs, chain, renewed, dueCount, cancels, spent>>

-----------------------------------------------------------------------------
(* The API.  Checks and the insert that follows are one step: the insert   *)
(* touches no row the checks read.                                         *)

Requested == spent.requests < MaxRequests /\ spent' = [spent EXCEPT !.requests = @ + 1]

Superseded(k) == jobs[k].status \in {"failed_final", "blocked_by_budget"}

ApiCreate(b, allowed) ==
    /\ Requested
    /\ RowsOf(b, {"in_progress"}) = {}
    /\ Inserted(NewRow(b, IF allowed THEN "estimated" ELSE "blocked_by_budget", 0, 50))
    /\ UNCHANGED <<blobs, chain, renewed, dueCount, pass, cancels>>

ApiRetry(k) ==
    /\ Requested
    /\ Superseded(k)
    /\ RowsOf(jobs[k].blob, {"in_progress"}) = {}
    /\ Inserted(NewRow(jobs[k].blob, "estimated", 0, 50))
    /\ UNCHANGED <<blobs, chain, renewed, dueCount, pass, cancels>>

(* adminRetryRenewalJob: the public retry with a budget check. *)
AdminRetry(k, allowed) ==
    /\ Requested
    /\ Superseded(k)
    /\ RowsOf(jobs[k].blob, {"in_progress"}) = {}
    /\ Inserted(NewRow(jobs[k].blob, IF allowed THEN "estimated" ELSE "blocked_by_budget", 0, 50))
    /\ UNCHANGED <<blobs, chain, renewed, dueCount, pass, cancels>>

ApiOverride(k) ==
    /\ Requested
    /\ jobs[k].status # "none"
    /\ Inserted([NewRow(jobs[k].blob, "estimated", 0, 50) EXCEPT !.overridden = TRUE])
    /\ UNCHANGED <<blobs, chain, renewed, dueCount, pass, cancels>>

(* The cancel route reads and validates, then updates by id alone. *)
CancelRead(k) ==
    /\ spent.cancels < MaxCancels
    /\ Allowed(jobs[k].status, "blocked_by_budget")
    /\ cancels' = cancels \cup {k}
    /\ spent' = [spent EXCEPT !.cancels = @ + 1]
    /\ UNCHANGED <<jobs, blobs, chain, renewed, dueCount, pass>>

CancelWrite(k) ==
    /\ k \in cancels
    /\ SetStatus(k, "blocked_by_budget")
    /\ cancels' = cancels \ {k}
    /\ UNCHANGED <<blobs, chain, renewed, dueCount, pass, spent>>

-----------------------------------------------------------------------------
(* Time, failures and the rest of the system.                              *)

(* External: epochs pass and the vault's policy makes it due (again). *)
BecomeDue(b) ==
    /\ chain[b] # "due"
    /\ dueCount[b] < MaxDue
    /\ chain' = [chain EXCEPT ![b] = "due"]
    /\ dueCount' = [dueCount EXCEPT ![b] = @ + 1]
    /\ UNCHANGED <<jobs, blobs, renewed, pass, cancels, spent>>

(* The scheduler's expiry_check; its threshold is the database policy's,   *)
(* not the vault's, so it is independent of the vault being due.           *)
ExpiryCheck(b) ==
    /\ blobs[b] \in {"tracked", "protected"}
    /\ blobs' = [blobs EXCEPT ![b] = "expiring"]
    /\ UNCHANGED <<jobs, chain, renewed, dueCount, pass, cancels, spent>>

(* scheduled_for passes. *)
BackoffElapses(j) ==
    /\ jobs[j].scheduled = "backoff"
    /\ Writes(j, [jobs[j] EXCEPT !.scheduled = "ripe"])
    /\ UNCHANGED <<blobs, chain, renewed, dueCount, pass, cancels, spent>>

Running(w, j) == pass[w].pc \in RunningSteps /\ pass[w].job.id = j

(* STALE_JOB_THRESHOLD_MS passes without a heartbeat. *)
HeartbeatAges(j) ==
    /\ jobs[j].status = "in_progress"
    /\ ~Stale(j)
    /\ SlowPasses \/ \A w \in Pass : ~Running(w, j)
    /\ Writes(j, [jobs[j] EXCEPT !.started = "old",
           !.heartbeat = IF @ = "never" THEN "never" ELSE "old"])
    /\ UNCHANGED <<blobs, chain, renewed, dueCount, pass, cancels, spent>>

(* The keeper process dies between two statements and is started again; or *)
(* a statement outside the try blocks throws, which ends the pass too.     *)
Crash(w) ==
    /\ pass[w].pc # "idle"
    /\ spent.crashes < MaxCrashes
    /\ spent' = [spent EXCEPT !.crashes = @ + 1]
    /\ Moves(w, IdlePass)
    /\ UNCHANGED <<jobs, blobs, chain, renewed, dueCount, cancels>>

-----------------------------------------------------------------------------
CycleStep(w) ==
    \/ Scan(w)
    \/ \E b \in Blob : EnqueueCheck(w, b) \/ DirectSkip(w, b)
    \/ EnqueueWrite(w) \/ RecordCheck(w) \/ RecordWrite(w)
    \/ \E b \in Blob, o \in Outcomes : DirectExecute(w, b, o)

QueueStep(w) ==
    \/ RecoverStale(w) \/ SelectJobs(w) \/ EndPass(w)
    \/ \E b \in Blob : RecoverBlob(w, b)
    \/ \E s \in pass[w].todo : TakeNext(w, s)
    \/ BudgetAllowed(w) \/ BudgetDenied(w) \/ Idempotency(w) \/ Settle(w)
    \/ Deduplicate(w) \/ Attach(w) \/ Lock(w) \/ LockMissed(w) \/ IndexRefuses(w)

RunStep(w) ==
    \/ FirstHeartbeat(w) \/ MarkRenewing(w) \/ FindVault(w)
    \/ \E goal \in Terminal : ChecksFail(w, goal)
    \/ \E o \in Outcomes : Execute(w, o)
    \/ Succeed(w) \/ BlobRenewed(w) \/ ScheduleRetry(w) \/ RollbackBlob(w) \/ GiveUp(w)
    \/ \E to \in BlobStatus : BlobFinal(w, to)

PassStep(w) == CycleStep(w) \/ QueueStep(w) \/ RunStep(w)

Api ==
    \/ \E b \in Blob, allowed \in BudgetAnswers : ApiCreate(b, allowed)
    \/ \E k \in JobId :
          \/ ApiRetry(k) \/ ApiOverride(k) \/ CancelRead(k) \/ CancelWrite(k)
          \/ \E allowed \in BudgetAnswers : AdminRetry(k, allowed)

Environment ==
    \/ \E b \in Blob : BecomeDue(b) \/ ExpiryCheck(b)
    \/ \E j \in JobId : BackoffElapses(j) \/ HeartbeatAges(j)
    \/ \E w \in Pass : ScanFails(w) \/ StatementThrows(w) \/ Crash(w)

Next == (\E w \in Pass : PassStep(w)) \/ Api \/ Environment

Spec == Init /\ [][Next]_vars

(* cron keeps starting cycles, a started cycle keeps going, backoffs and   *)
(* heartbeats age, a cancel's second statement is reached.                 *)
Fairness ==
    /\ \A w \in Pass : WF_vars(PassStep(w))
    /\ \A j \in JobId : WF_vars(BackoffElapses(j)) /\ WF_vars(HeartbeatAges(j))
                          /\ WF_vars(CancelWrite(j))

FairSpec == Spec /\ Fairness

(* ... and neither the RPC endpoint nor the checks before it refuse every  *)
(* single direct attempt.                                                  *)
RpcFairSpec ==
    /\ FairSpec
    /\ \A w \in Pass, b \in Blob : SF_vars(DirectExecute(w, b, "commit"))

-----------------------------------------------------------------------------
(* Properties.                                                             *)

(* Rows, blobs and passes stay within their types, attempt counters        *)
(* included, whatever row an update by id lands on.                        *)
TypeOK ==
    /\ jobs \in [JobId -> Row]
    /\ blobs \in [Blob -> BlobStatus]
    /\ chain \in [Blob -> {"due", "fresh", "exhausted"}]
    /\ renewed \in [Blob -> Nat]
    /\ dueCount \in [Blob -> Nat]
    /\ pass \in [Pass -> PassState]
    /\ cancels \subseteq JobId
    /\ spent \in [crashes : Nat, failures : Nat, errors : Nat, requests : Nat, cancels : Nat]

(* Invariant 4 of invariant-check.ts: at most one in_progress renewal per  *)
(* blob, whatever passes, recoveries, attachments and crashes interleave.  *)
OneActivePerBlob ==
    \A i, j \in JobId :
        /\ jobs[i].status = "in_progress" /\ jobs[j].status = "in_progress"
        /\ jobs[i].blob = jobs[j].blob
        => i = j

(* However many passes execute the same vault, directly and through the    *)
(* queue, and however many answers are lost and retried, a vault is        *)
(* charged at most once each time it becomes due.                          *)
RenewedOncePerDue ==
    \A b \in Blob : renewed[b] + (IF chain[b] = "due" THEN 1 ELSE 0) <= dueCount[b]

(* With one pass at a time a pass that is processing a job up to its       *)
(* verdict holds the job's row, so that its updates by id alone do no      *)
(* harm: the row is lost only to a cancel that had validated the job       *)
(* before the lock, or to the job's own success when a later statement of  *)
(* the same try block throws.                                              *)
LockHolds ==
    \A w \in Pass :
        pass[w].pc \in RunningSteps \ {"renewed", "final"} =>
            \/ jobs[pass[w].job.id].status = "in_progress"
            \/ jobs[pass[w].job.id].status = "blocked_by_budget" /\ spent.cancels > 0
            \/ /\ jobs[pass[w].job.id].status = "succeeded" /\ spent.errors > 0
               /\ pass[w].pc \in {"retry", "rollback", "giveup"}

(* With one pass at a time a job that has reached succeeded, failed_final  *)
(* or blocked_by_budget stays there, but for the two writers that update   *)
(* by id on what they read before: a cancel, and a pass that went on       *)
(* processing the job after a cancel or after a thrown statement.          *)
TerminalIsFinal ==
    [][\A j \in JobId :
         jobs[j].status \in Terminal /\ jobs'[j].status # jobs[j].status =>
             \/ j \in cancels \ cancels'
             \/ /\ spent.cancels + spent.errors > 0
                /\ \E w \in Pass : pass[w].job.id = j]_vars

(* A due vault is renewed (or found exhausted) in the end, whatever state  *)
(* the queue and the blob's row are in: the cycle executes due vaults      *)
(* directly, so stuck, blocked or failed jobs do not keep it from renewal. *)
DueIsRenewed == \A b \in Blob : chain[b] = "due" ~> chain[b] # "due"
=============================================================================
