------------------------- MODULE RenewalQueueProofs -------------------------
(***************************************************************************)
(* The renewal queue for any number of blobs, rows and overlapping passes. *)
(* TypeOK is inductive.  OneActivePerBlob is inductive with it: a step is  *)
(* either "quiet" (it makes no row in_progress) or one of the two updates  *)
(* the unique index guards.  RenewedOncePerDue is inductive with TypeOK    *)
(* because only a transaction and the passing of epochs touch the chain.   *)
(* LockHolds and TerminalIsFinal need, besides, that cycles do not overlap:  *)
(* PassesFit says what the one pass takes the rows for.                    *)
(***************************************************************************)
EXTENDS RenewalQueue, TLAPS

-----------------------------------------------------------------------------
(* Type correctness.                                                       *)

(* A well-formed record stays so when one of its fields is set; an update of  *)
(* several fields sets them one after the other.                              *)
LEMMA PassFields ==
  ASSUME NEW p \in PassState
  PROVE  /\ \A x \in Steps : [p EXCEPT !.pc = x] \in PassState
         /\ \A x \in SUBSET Blob : [p EXCEPT !.vaults = x] \in PassState
         /\ \A x \in SUBSET (Blob \cup {NoBlob}) : [p EXCEPT !.left = x] \in PassState
         /\ \A x \in Blob \cup {NoBlob} : [p EXCEPT !.blob = x] \in PassState
         /\ \A x \in JobId \cup {0} : [p EXCEPT !.found = x] \in PassState
         /\ \A x \in SUBSET Snapshot : [p EXCEPT !.todo = x] \in PassState
         /\ \A x \in Snapshot \cup {NoSnapshot} : [p EXCEPT !.job = x] \in PassState
         /\ \A x \in Terminal \cup {"none"} : [p EXCEPT !.goal = x] \in PassState
  BY DEF PassState

LEMMA RowFields ==
  ASSUME NEW r \in Row
  PROVE  /\ \A x \in Status : [r EXCEPT !.status = x] \in Row
         /\ \A x \in Nat : [r EXCEPT !.attempt = x] \in Row
         /\ [r EXCEPT !.scheduled = "backoff"] \in Row
         /\ [r EXCEPT !.started = "old"] \in Row
         /\ \A x \in {"never", "old"} : [r EXCEPT !.heartbeat = x] \in Row
  BY DEF Row

(* What a pass moves to is typed when the new record is. *)
LEMMA MovesType ==
  ASSUME TypeOK, NEW w \in Pass, NEW p \in PassState, Moves(w, p)
  PROVE  pass' \in [Pass -> PassState]
  BY DEF TypeOK, Moves

(* A jump changes the program counter only. *)
LEMMA GotoType ==
  ASSUME TypeOK, NEW w \in Pass, NEW step \in Steps, Goto(w, step)
  PROVE  pass' \in [Pass -> PassState]
<1>1. [pass[w] EXCEPT !.pc = step] \in PassState
  BY DEF TypeOK, PassState
<1> QED BY <1>1, MovesType DEF Goto

(* A pass between two cycles is well formed. *)
LEMMA IdleType == IdlePass \in PassState
  BY DEF IdlePass, PassState, Steps, RunningSteps, NoSnapshot

(* continue keeps the rest of the batch and forgets the job. *)
LEMMA ContinueType ==
  ASSUME TypeOK, NEW w \in Pass, Continue(w)
  PROVE  pass' \in [Pass -> PassState]
<1>1. [IdlePass EXCEPT !.pc = "next", !.todo = pass[w].todo] \in PassState
  BY IdleType DEF TypeOK, PassState, Steps
<1> QED BY <1>1, MovesType DEF Continue

(* The record of a pass that is done with a due vault. *)
LEMMA VaultDoneType ==
  ASSUME TypeOK, NEW w \in Pass, NEW b
  PROVE  VaultDone(w, b) \in PassState
  BY IdleType DEF TypeOK, PassState, Steps, VaultDone

(* A row is written, or nothing is when the id is not one. *)
LEMMA WritesType ==
  ASSUME TypeOK, NEW j, NEW row, j \in JobId => row \in Row, Writes(j, row)
  PROVE  jobs' \in [JobId -> Row]
  BY DEF TypeOK, Writes

(* A status update leaves a well-formed row. *)
LEMMA SetStatusType ==
  ASSUME TypeOK, NEW j, NEW s \in Status, SetStatus(j, s)
  PROVE  jobs' \in [JobId -> Row]
<1>1. j \in JobId => [jobs[j] EXCEPT !.status = s] \in Row
  BY DEF TypeOK, Row
<1> QED BY <1>1, WritesType DEF SetStatus

(* So does making a row in_progress. *)
LEMMA ActivatedType ==
  ASSUME TypeOK, NEW j, Activated(j)
  PROVE  jobs' \in [JobId -> Row]
<1>1. ASSUME NEW r \in Row
      PROVE  [r EXCEPT !.status = "in_progress", !.started = "fresh"] \in Row
  BY DEF Row, Status
<1> QED BY <1>1, WritesType DEF Activated, TypeOK

(* An insert puts a row in the table or leaves it alone. *)
LEMMA InsertedType ==
  ASSUME TypeOK, NEW row \in Row, InsertedOrLogged(row) \/ Inserted(row)
  PROVE  jobs' \in [JobId -> Row]
<1>1. CASE Inserted(row)
  BY <1>1, WritesType DEF Inserted
<1>2. CASE UNCHANGED jobs
  BY <1>2 DEF TypeOK
<1> QED BY <1>1, <1>2 DEF InsertedOrLogged

(* The rows that are inserted are well formed. *)
LEMMA NewRowType ==
  ASSUME NEW b \in Blob \cup {NoBlob}, NEW s \in Status \cup {"none"}, NEW n \in Nat,
         NEW p \in {10, 50, 200}
  PROVE  NewRow(b, s, n, p) \in Row
  BY DEF NewRow, NoRow, Row

(* Counting an attempt gives a number. *)
LEMMA NextAttemptType == ASSUME NEW n \in Nat PROVE NextAttempt(n) \in Nat
  BY QueueAssumption DEF NextAttempt

(* The table starts empty and every pass idle. *)
LEMMA InitType == Init => TypeOK
<1> SUFFICES ASSUME Init PROVE TypeOK
  OBVIOUS
<1>1. NoRow \in Row
  BY DEF NoRow, Row
<1>2. jobs \in [JobId -> Row]
  BY <1>1 DEF Init
<1>3. pass \in [Pass -> PassState]
  BY IdleType DEF Init
<1>4. blobs \in [Blob -> BlobStatus]
  BY DEF Init, BlobStatus
<1> QED BY <1>2, <1>3, <1>4 DEF Init, TypeOK

(* A transaction leaves the chain's variables typed, whichever blob it is  *)
(* for and whatever comes of it.                                           *)
LEMMA TransactType ==
  ASSUME TypeOK, NEW w, NEW b, NEW o, Transact(w, b, o)
  PROVE  /\ chain' \in [Blob -> {"due", "fresh", "exhausted"}]
         /\ renewed' \in [Blob -> Nat]
  BY DEF TypeOK, Transact, RenewsIfDue

(* An update of a blob's status sets it to a status. *)
LEMMA BlobMovesType ==
  ASSUME TypeOK, NEW b, NEW from, NEW to \in BlobStatus, BlobMoves(b, from, to)
  PROVE  blobs' \in [Blob -> BlobStatus]
  BY DEF TypeOK, BlobMoves

(* Each step of the scan cycle keeps the types. *)
LEMMA CycleType ==
  ASSUME TypeOK, NEW w \in Pass, CycleStep(w)
  PROVE  TypeOK'
<1>p. pass[w] \in PassState
  BY DEF TypeOK
<1>b. pass[w].blob \in Blob \cup {NoBlob} /\ pass[w].goal \in Status \cup {"none"}
  BY <1>p DEF PassState, Status
<1>1. CASE Scan(w)
  <2>1. [pass[w] EXCEPT !.pc = "enqueue_check", !.vaults = DueVaults, !.left = DueVaults]
          \in PassState
    BY <1>p DEF PassState, Steps, DueVaults
  <2> QED BY <1>1, <2>1, MovesType DEF Scan, TypeOK
<1>2. ASSUME NEW b \in Blob, EnqueueCheck(w, b) PROVE TypeOK'
  <2>1. PICK f \in JobId \cup {0} :
            Moves(w, [pass[w] EXCEPT !.pc = "enqueue_write", !.blob = b, !.found = f])
    BY <1>2 DEF EnqueueCheck
  <2>2. [pass[w] EXCEPT !.pc = "enqueue_write", !.blob = b, !.found = f] \in PassState
    BY <1>p, PassFields DEF Steps
  <2> QED BY <1>2, <2>1, <2>2, MovesType DEF EnqueueCheck, TypeOK
<1>3. CASE EnqueueWrite(w)
  <2> DEFINE rest == pass[w].left \ {pass[w].blob}
             to == [pass[w] EXCEPT
                      !.pc = IF rest = {} THEN "direct" ELSE "enqueue_check",
                      !.left = IF rest = {} THEN pass[w].vaults ELSE rest,
                      !.blob = NoBlob, !.found = 0]
             pc == IF rest = {} THEN "direct" ELSE "enqueue_check"
             left == IF rest = {} THEN pass[w].vaults ELSE rest
  <2>1. to \in PassState
    <3>1. left \in SUBSET (Blob \cup {NoBlob})
      BY <1>p DEF PassState
    <3>2. [pass[w] EXCEPT !.pc = pc] \in PassState
      BY <1>p, PassFields DEF Steps
    <3> HIDE DEF pc, left
    <3>3. [[pass[w] EXCEPT !.pc = pc] EXCEPT !.left = left] \in PassState
      BY <3>1, <3>2, PassFields
    <3>4. [[[pass[w] EXCEPT !.pc = pc] EXCEPT !.left = left] EXCEPT !.blob = NoBlob]
            \in PassState
      BY <3>3, PassFields
    <3> QED BY <3>4, PassFields DEF pc, left
  <2>2. pass' \in [Pass -> PassState]
    BY <1>3, <2>1, MovesType DEF EnqueueWrite
  <2>3. jobs' \in [JobId -> Row]
    <3>1. CASE pass[w].found # 0
      <4>1. pass[w].found \in JobId => [jobs[pass[w].found] EXCEPT !.attempt = 0] \in Row
        BY DEF TypeOK, Row
      <4> QED BY <1>3, <3>1, <4>1, WritesType DEF EnqueueWrite
    <3>2. CASE pass[w].found = 0
      <4>1. NewRow(pass[w].blob, "estimated", 0, 10) \in Row
        BY <1>b, NewRowType DEF Status, Open
      <4> QED BY <1>3, <3>2, <4>1, InsertedType DEF EnqueueWrite
    <3> QED BY <3>1, <3>2
  <2> QED BY <1>3, <2>2, <2>3 DEF EnqueueWrite, TypeOK
<1>4. ASSUME NEW b \in Blob, DirectSkip(w, b) PROVE TypeOK'
  BY <1>4, VaultDoneType, MovesType DEF DirectSkip, TypeOK
<1>5. ASSUME NEW b \in Blob, NEW o \in Outcomes, DirectExecute(w, b, o) PROVE TypeOK'
  <2>1. [pass[w] EXCEPT
           !.pc = IF Reported(o) THEN "record_check" ELSE "record_write",
           !.blob = b,
           !.goal = IF Reported(o) THEN "succeeded" ELSE "failed_final"] \in PassState
    <3>1. [pass[w] EXCEPT !.pc = IF Reported(o) THEN "record_check" ELSE "record_write"]
            \in PassState
      BY <1>p, PassFields DEF Steps
    <3>2. [[pass[w] EXCEPT !.pc = IF Reported(o) THEN "record_check" ELSE "record_write"]
             EXCEPT !.blob = b] \in PassState
      BY <3>1, PassFields
    <3> QED BY <3>2, PassFields DEF Terminal
  <2>2. pass' \in [Pass -> PassState]
    BY <1>5, <2>1, MovesType DEF DirectExecute
  <2> QED BY <1>5, <2>2, TransactType DEF DirectExecute, TypeOK
<1>6. CASE RecordCheck(w)
  <2>1. pass' \in [Pass -> PassState]
    BY <1>6, VaultDoneType, MovesType, GotoType DEF RecordCheck, Steps
  <2> QED BY <1>6, <2>1 DEF RecordCheck, TypeOK
<1>7. CASE RecordWrite(w)
  <2>1. NewRow(pass[w].blob, pass[w].goal, 1, 200) \in Row
    BY <1>b, NewRowType
  <2>2. jobs' \in [JobId -> Row]
    BY <1>7, <2>1, InsertedType DEF RecordWrite
  <2>3. pass' \in [Pass -> PassState]
    BY <1>7, VaultDoneType, MovesType DEF RecordWrite
  <2> QED BY <1>7, <2>2, <2>3 DEF RecordWrite, TypeOK
<1> QED BY <1>1, <1>2, <1>3, <1>4, <1>5, <1>6, <1>7 DEF CycleStep

(* Each step of the queue up to the lock keeps the types. *)
LEMMA QueueType ==
  ASSUME TypeOK, NEW w \in Pass, QueueStep(w)
  PROVE  TypeOK'
<1>p. pass[w] \in PassState
  BY DEF TypeOK
<1>1. CASE RecoverStale(w)
  <2> DEFINE stale == {jobs[j].blob : j \in {k \in JobId : Stale(k)}}
  <2>1. stale \subseteq Blob \cup {NoBlob}
    BY DEF TypeOK, Row
  <2>2. [pass[w] EXCEPT !.pc = IF stale = {} THEN "select" ELSE "recover_blobs",
                        !.left = stale] \in PassState
    BY <1>p, <2>1, PassFields DEF Steps
  <2>3. pass' \in [Pass -> PassState]
    BY <1>1, <2>2, MovesType DEF RecoverStale
  <2>4. ASSUME NEW r \in Row
        PROVE  [r EXCEPT !.status = "pending", !.attempt = NextAttempt(@)] \in Row
    <3>1. [r EXCEPT !.status = "pending"] \in Row
      BY RowFields DEF Status, Open
    <3>2. NextAttempt(r.attempt) \in Nat
      BY NextAttemptType DEF Row
    <3> QED BY <3>1, <3>2, RowFields
  <2>5. jobs' \in [JobId -> Row]
    BY <1>1, <2>4 DEF RecoverStale, TypeOK
  <2> QED BY <1>1, <2>3, <2>5 DEF RecoverStale, TypeOK
<1>2. ASSUME NEW b \in Blob, RecoverBlob(w, b) PROVE TypeOK'
  <2>1. [pass[w] EXCEPT
           !.pc = IF pass[w].left = {b} THEN "select" ELSE "recover_blobs",
           !.left = @ \ {b}] \in PassState
    <3>1. pass[w].left \ {b} \subseteq Blob \cup {NoBlob}
      BY <1>p DEF PassState
    <3> QED BY <1>p, <3>1, PassFields DEF Steps
  <2>2. pass' \in [Pass -> PassState]
    BY <1>2, <2>1, MovesType DEF RecoverBlob
  <2>3. blobs' \in [Blob -> BlobStatus]
    BY <1>2, BlobMovesType DEF RecoverBlob, BlobStatus
  <2> QED BY <1>2, <2>2, <2>3 DEF RecoverBlob, TypeOK
<1>3. CASE SelectJobs(w)
  <2> DEFINE rows(S) == {[id |-> j, status |-> jobs[j].status, attempt |-> jobs[j].attempt,
                          scheduled |-> jobs[j].scheduled] : j \in S}
  <2>1. PICK S \in Batches : Moves(w, [pass[w] EXCEPT !.pc = "next", !.todo = rows(S)])
    BY <1>3 DEF SelectJobs
  <2>2. S \subseteq Queued
    BY DEF Batches
  <2>3. rows(S) \subseteq Snapshot
    BY <2>2 DEF Queued, Selectable, Snapshot, TypeOK, Row, Status
  <2> HIDE DEF rows
  <2>4. [pass[w] EXCEPT !.pc = "next", !.todo = rows(S)] \in PassState
    BY <1>p, <2>3 DEF PassState, Steps
  <2> QED BY <1>3, <2>1, <2>4, MovesType DEF SelectJobs, TypeOK
<1>4. ASSUME NEW s \in pass[w].todo, TakeNext(w, s) PROVE TypeOK'
  <2>1. s \in Snapshot
    BY <1>p DEF PassState
  <2>2. [pass[w] EXCEPT
           !.pc = IF s.status \in {"estimated", "pending"} THEN "budget" ELSE "idempotency",
           !.todo = @ \ {s}, !.job = s] \in PassState
    <3>1. pass[w].todo \ {s} \subseteq Snapshot
      BY <1>p DEF PassState
    <3> QED BY <1>p, <2>1, <3>1, PassFields DEF Steps
  <2> QED BY <1>4, <2>2, MovesType DEF TakeNext, TypeOK
<1>5. CASE EndPass(w)
  BY <1>5, IdleType, MovesType DEF EndPass, TypeOK
<1>6. CASE BudgetAllowed(w)
  <2>1. jobs' \in [JobId -> Row]
    BY <1>6, SetStatusType DEF BudgetAllowed, Status, Open, TypeOK
  <2>2. pass' \in [Pass -> PassState]
    BY <1>6, GotoType DEF BudgetAllowed, Steps
  <2> QED BY <1>6, <2>1, <2>2 DEF BudgetAllowed, TypeOK
<1>7. CASE BudgetDenied(w)
  <2>1. jobs' \in [JobId -> Row]
    BY <1>7, SetStatusType DEF BudgetDenied, Status, Terminal, TypeOK
  <2>2. pass' \in [Pass -> PassState]
    BY <1>7, IdleType, MovesType, ContinueType DEF BudgetDenied
  <2> QED BY <1>7, <2>1, <2>2 DEF BudgetDenied, TypeOK
<1>8. CASE Idempotency(w)
  BY <1>8, GotoType DEF Idempotency, Steps, TypeOK
<1>9. CASE Settle(w)
  <2>1. jobs' \in [JobId -> Row]
    BY <1>9, SetStatusType DEF Settle, Status, Terminal
  <2> QED BY <1>9, <2>1, ContinueType DEF Settle, TypeOK
<1>10. CASE Deduplicate(w)
  BY <1>10, GotoType DEF Deduplicate, Steps, TypeOK
<1>11. CASE Attach(w)
  BY <1>11, ActivatedType, ContinueType DEF Attach, TypeOK
<1>12. CASE Lock(w)
  <2>1. pass' \in [Pass -> PassState]
    BY <1>12, GotoType DEF Lock, Steps, RunningSteps
  <2> QED BY <1>12, <2>1, ActivatedType DEF Lock, TypeOK
<1>13. CASE LockMissed(w)
  BY <1>13, ContinueType DEF LockMissed, TypeOK
<1>14. CASE IndexRefuses(w)
  BY <1>14, IdleType, MovesType DEF IndexRefuses, TypeOK
<1> QED BY <1>1, <1>2, <1>3, <1>4, <1>5, <1>6, <1>7, <1>8, <1>9, <1>10, <1>11, <1>12,
           <1>13, <1>14 DEF QueueStep

(* The record of a pass whose execution threw. *)
LEMMA CaughtType ==
  ASSUME TypeOK, NEW w \in Pass
  PROVE  Caught(w) \in PassState /\ [Caught(w) EXCEPT !.pc = "rollback"] \in PassState
<1>1. ASSUME NEW p \in PassState, NEW step \in {"retry", "rollback"}
      PROVE  [p EXCEPT !.pc = step, !.goal = "failed_final", !.counted = TRUE,
                       !.vaults = {}] \in PassState
  BY DEF PassState, Steps, RunningSteps, Terminal
<1>2. Caught(w) \in PassState
  BY <1>1 DEF Caught, TypeOK
<1>3. ASSUME NEW p \in PassState PROVE [p EXCEPT !.pc = "rollback"] \in PassState
  BY DEF PassState, Steps, RunningSteps
<1> QED BY <1>2, <1>3

(* Each step of a job's execution keeps the types. *)
LEMMA RunType ==
  ASSUME TypeOK, NEW w \in Pass, RunStep(w)
  PROVE  TypeOK'
<1>p. pass[w] \in PassState /\ pass[w].job.attempt \in Nat /\ pass[w].goal \in Status \cup {"none"}
  BY DEF TypeOK, PassState, Snapshot, NoSnapshot, Status
<1>1. CASE FirstHeartbeat(w)
  <2>1. ASSUME NEW r \in Row PROVE [r EXCEPT !.heartbeat = "fresh"] \in Row
    BY DEF Row
  <2>2. jobs' \in [JobId -> Row]
    BY <1>1, <2>1, WritesType DEF FirstHeartbeat, TypeOK
  <2>3. pass' \in [Pass -> PassState]
    BY <1>1, GotoType DEF FirstHeartbeat, Steps, RunningSteps
  <2> QED BY <1>1, <2>2, <2>3 DEF FirstHeartbeat, TypeOK
<1>2. CASE MarkRenewing(w)
  <2>1. pass' \in [Pass -> PassState]
    BY <1>2, GotoType DEF MarkRenewing, Steps, RunningSteps
  <2>2. blobs' \in [Blob -> BlobStatus]
    BY <1>2, BlobMovesType DEF MarkRenewing, BlobStatus
  <2> QED BY <1>2, <2>1, <2>2 DEF MarkRenewing, TypeOK
<1>3. ASSUME NEW goal \in Terminal, ChecksFail(w, goal) PROVE TypeOK'
  <2>1. [pass[w] EXCEPT !.pc = "rollback", !.goal = goal] \in PassState
    BY <1>p DEF PassState, Steps, RunningSteps
  <2> QED BY <1>3, <2>1, MovesType DEF ChecksFail, TypeOK
<1>4. CASE FindVault(w)
  <2>1. [pass[w] EXCEPT !.pc = "execute",
                        !.vaults = DueVaults \cap {jobs[Me(w)].blob}] \in PassState
    BY <1>p DEF PassState, Steps, RunningSteps, DueVaults
  <2> QED BY <1>4, <2>1, MovesType DEF FindVault, TypeOK
<1>5. ASSUME NEW o \in Outcomes, Execute(w, o) PROVE TypeOK'
  <2>1. [pass[w] EXCEPT !.pc = "succeed", !.vaults = {}] \in PassState
    BY <1>p DEF PassState, Steps, RunningSteps
  <2>2. pass' \in [Pass -> PassState]
    BY <1>5, <2>1, CaughtType, MovesType DEF Execute
  <2> QED BY <1>5, <2>2, TransactType DEF Execute, TypeOK
<1>6. CASE Succeed(w)
  <2>1. ASSUME NEW r \in Row
        PROVE  [r EXCEPT !.heartbeat = "fresh", !.status = "succeeded"] \in Row
    BY DEF Row, Status, Terminal
  <2>2. jobs' \in [JobId -> Row]
    BY <1>6, <2>1, WritesType DEF Succeed, TypeOK
  <2>3. pass' \in [Pass -> PassState]
    BY <1>6, GotoType DEF Succeed, Steps, RunningSteps
  <2> QED BY <1>6, <2>2, <2>3 DEF Succeed, TypeOK
<1>7. CASE BlobRenewed(w)
  <2>1. pass' \in [Pass -> PassState]
    BY <1>7, GotoType DEF BlobRenewed, Steps, RunningSteps
  <2>2. blobs' \in [Blob -> BlobStatus]
    BY <1>7, BlobMovesType DEF BlobRenewed, BlobStatus
  <2> QED BY <1>7, <2>1, <2>2 DEF BlobRenewed, TypeOK
<1>8. ASSUME NEW to \in BlobStatus, BlobFinal(w, to) PROVE TypeOK'
  <2>1. blobs' \in [Blob -> BlobStatus]
    BY <1>8, BlobMovesType DEF BlobFinal
  <2> QED BY <1>8, <2>1, ContinueType DEF BlobFinal, TypeOK
<1>9. CASE ScheduleRetry(w)
  <2>1. ASSUME NEW r \in Row, NEW n \in Nat
        PROVE  [r EXCEPT !.status = "retrying", !.attempt = n, !.scheduled = "backoff"] \in Row
    BY RowFields DEF Status, Open
  <2>2. jobs' \in [JobId -> Row]
    BY <1>9, <1>p, <2>1, NextAttemptType, WritesType DEF ScheduleRetry, TypeOK
  <2> QED BY <1>9, <2>2, ContinueType DEF ScheduleRetry, TypeOK
<1>10. CASE RollbackBlob(w)
  <2>1. pass' \in [Pass -> PassState]
    BY <1>10, GotoType DEF RollbackBlob, Steps, RunningSteps
  <2>2. blobs' \in [Blob -> BlobStatus]
    BY <1>10, BlobMovesType DEF RollbackBlob, BlobStatus
  <2> QED BY <1>10, <2>1, <2>2 DEF RollbackBlob, TypeOK
<1>11. CASE GiveUp(w)
  <2>1. ASSUME NEW r \in Row, NEW n \in Nat
        PROVE  [r EXCEPT !.status = pass[w].goal,
                         !.attempt = IF pass[w].counted THEN n ELSE @] \in Row
    <3>1. pass[w].goal \in Status \cup {"none"} /\ r.attempt \in Nat
      BY <1>p DEF Row
    <3>2. [r EXCEPT !.status = pass[w].goal] \in Row
      BY <3>1 DEF Row
    <3> QED BY <3>1, <3>2, RowFields
  <2>2. jobs' \in [JobId -> Row]
    BY <1>11, <1>p, <2>1, NextAttemptType, WritesType DEF GiveUp, TypeOK
  <2> QED BY <1>11, <2>2, ContinueType DEF GiveUp, TypeOK
<1> QED BY <1>1, <1>2, <1>3, <1>4, <1>5, <1>6, <1>7, <1>8, <1>9, <1>10, <1>11 DEF RunStep

(* The counters of the bounds only grow. *)
LEMMA SpentType ==
  ASSUME TypeOK, UNCHANGED spent \/ Requested
                 \/ spent' = [spent EXCEPT !.cancels = @ + 1]
                 \/ spent' = [spent EXCEPT !.crashes = @ + 1]
                 \/ spent' = [spent EXCEPT !.errors = @ + 1]
                 \/ spent' = [spent EXCEPT !.failures = @ + 1]
  PROVE  spent' \in [crashes : Nat, failures : Nat, errors : Nat, requests : Nat,
                     cancels : Nat]
  BY DEF TypeOK, Requested

(* Each request to the API keeps the types. *)
LEMMA ApiType ==
  ASSUME TypeOK, Api
  PROVE  TypeOK'
<1>1. ASSUME NEW b \in Blob, NEW allowed \in BudgetAnswers, ApiCreate(b, allowed)
      PROVE  TypeOK'
  <2>1. NewRow(b, IF allowed THEN "estimated" ELSE "blocked_by_budget", 0, 50) \in Row
    BY NewRowType DEF Status, Open, Terminal
  <2>2. jobs' \in [JobId -> Row]
    BY <1>1, <2>1, InsertedType DEF ApiCreate
  <2> QED BY <1>1, <2>2, SpentType DEF ApiCreate, TypeOK
<1> SUFFICES ASSUME NEW k \in JobId,
                    \/ ApiRetry(k) \/ ApiOverride(k) \/ CancelRead(k) \/ CancelWrite(k)
                    \/ \E allowed \in BudgetAnswers : AdminRetry(k, allowed)
             PROVE  TypeOK'
  BY <1>1 DEF Api
<1>k. jobs[k].blob \in Blob \cup {NoBlob}
  BY DEF TypeOK, Row
<1>e. NewRow(jobs[k].blob, "estimated", 0, 50) \in Row
  BY <1>k, NewRowType DEF Status, Open
<1>2. CASE ApiRetry(k)
  <2>1. jobs' \in [JobId -> Row]
    BY <1>2, <1>e, InsertedType DEF ApiRetry
  <2> QED BY <1>2, <2>1, SpentType DEF ApiRetry, TypeOK
<1>3. CASE ApiOverride(k)
  <2>1. ASSUME NEW r \in Row PROVE [r EXCEPT !.overridden = TRUE] \in Row
    BY DEF Row
  <2>2. jobs' \in [JobId -> Row]
    BY <1>3, <1>e, <2>1, InsertedType DEF ApiOverride
  <2> QED BY <1>3, <2>2, SpentType DEF ApiOverride, TypeOK
<1>4. CASE CancelRead(k)
  BY <1>4, SpentType DEF CancelRead, TypeOK
<1>5. CASE CancelWrite(k)
  <2>1. jobs' \in [JobId -> Row]
    BY <1>5, SetStatusType DEF CancelWrite, Status, Terminal
  <2> QED BY <1>5, <2>1 DEF CancelWrite, TypeOK
<1>6. ASSUME NEW allowed \in BudgetAnswers, AdminRetry(k, allowed) PROVE TypeOK'
  <2>1. NewRow(jobs[k].blob, IF allowed THEN "estimated" ELSE "blocked_by_budget", 0, 50) \in Row
    <3> DEFINE status == IF allowed THEN "estimated" ELSE "blocked_by_budget"
    <3>1. status \in Status \cup {"none"}
      BY DEF Status, Open, Terminal
    <3> HIDE DEF status
    <3>2. NewRow(jobs[k].blob, status, 0, 50) \in Row
      BY <1>k, <3>1, NewRowType
    <3> QED BY <3>2 DEF status
  <2>2. jobs' \in [JobId -> Row]
    BY <1>6, <2>1, InsertedType DEF AdminRetry
  <2> QED BY <1>6, <2>2, SpentType DEF AdminRetry, TypeOK
<1> QED BY <1>2, <1>3, <1>4, <1>5, <1>6

(* Time, failures and the rest of the system keep the types. *)
LEMMA EnvironmentType ==
  ASSUME TypeOK, Environment
  PROVE  TypeOK'
<1>1. ASSUME NEW b \in Blob, BecomeDue(b) PROVE TypeOK'
  BY <1>1 DEF BecomeDue, TypeOK
<1>2. ASSUME NEW b \in Blob, ExpiryCheck(b) PROVE TypeOK'
  BY <1>2 DEF ExpiryCheck, TypeOK, BlobStatus
<1>3. ASSUME NEW j \in JobId, BackoffElapses(j) PROVE TypeOK'
  <2>1. ASSUME NEW r \in Row PROVE [r EXCEPT !.scheduled = "ripe"] \in Row
    BY DEF Row
  <2>2. jobs' \in [JobId -> Row]
    BY <1>3, <2>1, WritesType DEF BackoffElapses, TypeOK
  <2> QED BY <1>3, <2>2 DEF BackoffElapses, TypeOK
<1>4. ASSUME NEW j \in JobId, HeartbeatAges(j) PROVE TypeOK'
  <2>1. ASSUME NEW r \in Row, NEW h \in {"never", "old"}
        PROVE  [r EXCEPT !.started = "old", !.heartbeat = h] \in Row
    <3>1. [r EXCEPT !.started = "old"] \in Row
      BY RowFields
    <3> QED BY <3>1, RowFields
  <2>2. jobs' \in [JobId -> Row]
    BY <1>4, <2>1, WritesType DEF HeartbeatAges, TypeOK
  <2> QED BY <1>4, <2>2 DEF HeartbeatAges, TypeOK
<1>5. ASSUME NEW w \in Pass, ScanFails(w) PROVE TypeOK'
  <2>1. pass' \in [Pass -> PassState]
    BY <1>5, GotoType DEF ScanFails, Steps
  <2> QED BY <1>5, <2>1, SpentType DEF ScanFails, TypeOK
<1>6. ASSUME NEW w \in Pass, StatementThrows(w) PROVE TypeOK'
  <2>1. pass' \in [Pass -> PassState]
    BY <1>6, CaughtType, MovesType DEF StatementThrows
  <2> QED BY <1>6, <2>1, SpentType DEF StatementThrows, TypeOK
<1>7. ASSUME NEW w \in Pass, Crash(w) PROVE TypeOK'
  <2>1. pass' \in [Pass -> PassState]
    BY <1>7, IdleType, MovesType DEF Crash
  <2> QED BY <1>7, <2>1, SpentType DEF Crash, TypeOK
<1> QED BY <1>1, <1>2, <1>3, <1>4, <1>5, <1>6, <1>7 DEF Environment

(* Every step keeps the types. *)
LEMMA StepType == TypeOK /\ [Next]_vars => TypeOK'
<1> SUFFICES ASSUME TypeOK, [Next]_vars PROVE TypeOK'
  OBVIOUS
<1>1. CASE UNCHANGED vars
  BY <1>1 DEF TypeOK, vars
<1> QED BY <1>1, CycleType, QueueType, RunType, ApiType, EnvironmentType DEF Next, PassStep

(* Rows, blobs and passes stay within their types: an update by id alone   *)
(* lands on a row or on nothing, and leaves a well-formed row.             *)
THEOREM QueueTypeCorrect == Spec => []TypeOK
  BY InitType, StepType, PTL DEF Spec

-----------------------------------------------------------------------------
(* One in_progress row per blob.                                           *)

(* A step that makes no row in_progress and renames no in_progress row.    *)
Quiet ==
    \A j \in JobId :
        jobs'[j].status = "in_progress" =>
            jobs[j].status = "in_progress" /\ jobs'[j].blob = jobs[j].blob

(* Such a step cannot make two rows of a blob in_progress. *)
LEMMA QuietKeeps ==
  ASSUME OneActivePerBlob, Quiet
  PROVE  OneActivePerBlob'
  BY DEF OneActivePerBlob, Quiet

(* A write is quiet when it leaves the row as active as it was. *)
LEMMA WritesQuiet ==
  ASSUME TypeOK, NEW j, NEW row, Writes(j, row),
         j \in JobId /\ row.status = "in_progress" =>
             jobs[j].status = "in_progress" /\ row.blob = jobs[j].blob
  PROVE  Quiet
  BY DEF TypeOK, Writes, Quiet

(* Setting any other status is quiet. *)
LEMMA SetStatusQuiet ==
  ASSUME TypeOK, NEW j, NEW s, s # "in_progress", SetStatus(j, s)
  PROVE  Quiet
<1>1. j \in JobId => [jobs[j] EXCEPT !.status = s].status = s
  BY DEF TypeOK, Row
<1> QED BY <1>1, WritesQuiet DEF SetStatus

(* Inserting a row that is not in_progress is quiet. *)
LEMMA InsertedQuiet ==
  ASSUME TypeOK, NEW row, row.status # "in_progress", InsertedOrLogged(row) \/ Inserted(row)
  PROVE  Quiet
<1>1. CASE Inserted(row)
  BY <1>1, WritesQuiet DEF Inserted
<1>2. CASE UNCHANGED jobs
  BY <1>2 DEF Quiet
<1> QED BY <1>1, <1>2 DEF InsertedOrLogged

(* A new row has the status it was made with. *)
LEMMA NewRowStatus ==
  ASSUME NEW b, NEW s, NEW n, NEW p PROVE NewRow(b, s, n, p).status = s
  BY DEF NewRow, NoRow

(* The two statements that activate a row are refused by the unique index  *)
(* when another row of the blob is in_progress.                            *)
LEMMA ActivatedKeeps ==
  ASSUME TypeOK, OneActivePerBlob, NEW j, UniqueActive(j), Activated(j)
  PROVE  OneActivePerBlob'
<1>1. CASE j \in JobId
  <2>1. /\ jobs'[j].blob = jobs[j].blob
        /\ \A i \in JobId : i # j => jobs'[i] = jobs[i]
    BY <1>1 DEF TypeOK, Row, Activated, Writes
  <2>2. \A i \in JobId : i # j /\ jobs[i].blob = jobs[j].blob => jobs[i].status # "in_progress"
    BY <1>1 DEF UniqueActive, RowsOf
  <2> QED BY <2>1, <2>2 DEF OneActivePerBlob
<1>2. CASE j \notin JobId
  BY <1>2 DEF TypeOK, Activated, Writes, OneActivePerBlob
<1> QED BY <1>1, <1>2

(* No step of the scan cycle makes a row in_progress. *)
LEMMA CycleQuiet ==
  ASSUME TypeOK, NEW w \in Pass, CycleStep(w)
  PROVE  Quiet
<1>1. CASE EnqueueWrite(w)
  <2>1. CASE pass[w].found # 0
    <3>1. pass[w].found \in JobId =>
            LET row == [jobs[pass[w].found] EXCEPT !.attempt = 0]
            IN  row.status = jobs[pass[w].found].status /\ row.blob = jobs[pass[w].found].blob
      BY DEF TypeOK, Row
    <3> QED BY <1>1, <2>1, <3>1, WritesQuiet DEF EnqueueWrite
  <2>2. CASE pass[w].found = 0
    BY <1>1, <2>2, NewRowStatus, InsertedQuiet DEF EnqueueWrite
  <2> QED BY <2>1, <2>2
<1>2. CASE RecordWrite(w)
  <2>1. pass[w].goal # "in_progress"
    BY DEF TypeOK, PassState, Terminal
  <2> QED BY <1>2, <2>1, NewRowStatus, InsertedQuiet DEF RecordWrite
<1>3. CASE UNCHANGED jobs
  BY <1>3 DEF Quiet
<1> QED BY <1>1, <1>2, <1>3 DEF CycleStep, Scan, EnqueueCheck, DirectSkip, DirectExecute, RecordCheck

(* In the queue only the attachment and the lock do, and the index guards  *)
(* both.                                                                   *)
LEMMA QueueKeeps ==
  ASSUME TypeOK, OneActivePerBlob, NEW w \in Pass, QueueStep(w)
  PROVE  OneActivePerBlob'
<1>1. CASE RecoverStale(w)
  <2>1. ASSUME NEW r \in Row, NEW n
        PROVE  [r EXCEPT !.status = "pending", !.attempt = n].status = "pending"
    BY DEF Row
  <2>2. Quiet
    BY <1>1, <2>1 DEF RecoverStale, Quiet, TypeOK
  <2> QED BY <2>2, QuietKeeps
<1>2. CASE Attach(w) \/ Lock(w)
  BY <1>2, ActivatedKeeps DEF Attach, Lock
<1>3. CASE BudgetAllowed(w) \/ BudgetDenied(w) \/ Settle(w)
  <2>1. CASE UNCHANGED jobs
    BY <2>1, QuietKeeps DEF Quiet
  <2>2. ASSUME NEW s \in {"pending", "blocked_by_budget", "succeeded"}, SetStatus(Me(w), s)
        PROVE  OneActivePerBlob'
    BY <2>2, SetStatusQuiet, QuietKeeps
  <2> QED BY <1>3, <2>1, <2>2 DEF BudgetAllowed, BudgetDenied, Settle
<1>4. CASE UNCHANGED jobs
  BY <1>4, QuietKeeps DEF Quiet
<1> QED BY <1>1, <1>2, <1>3, <1>4 DEF QueueStep, SelectJobs, EndPass, RecoverBlob, TakeNext,
           Idempotency, Deduplicate, LockMissed, IndexRefuses

(* No step of an execution makes a row in_progress, although every update  *)
(* is by id alone.                                                         *)
LEMMA RunQuiet ==
  ASSUME TypeOK, NEW w \in Pass, RunStep(w)
  PROVE  Quiet
<1>1. CASE FirstHeartbeat(w)
  <2>1. ASSUME NEW r \in Row
        PROVE  LET row == [r EXCEPT !.heartbeat = "fresh"]
               IN  row.status = r.status /\ row.blob = r.blob
    BY DEF Row
  <2> QED BY <1>1, <2>1, WritesQuiet DEF FirstHeartbeat, TypeOK
<1>2. CASE Succeed(w)
  <2>1. ASSUME NEW r \in Row
        PROVE  [r EXCEPT !.heartbeat = "fresh", !.status = "succeeded"].status = "succeeded"
    BY DEF Row
  <2> QED BY <1>2, <2>1, WritesQuiet DEF Succeed, TypeOK
<1>3. CASE ScheduleRetry(w)
  <2>1. ASSUME NEW r \in Row, NEW n
        PROVE  [r EXCEPT !.status = "retrying", !.attempt = n, !.scheduled = "backoff"].status
                 = "retrying"
    BY DEF Row
  <2> QED BY <1>3, <2>1, WritesQuiet DEF ScheduleRetry, TypeOK
<1>4. CASE GiveUp(w)
  <2>1. ASSUME NEW r \in Row, NEW g, NEW n
        PROVE  [r EXCEPT !.status = g, !.attempt = n].status = g
    BY DEF Row
  <2>2. pass[w].goal # "in_progress"
    BY DEF TypeOK, PassState, Terminal
  <2> DEFINE n == IF pass[w].counted THEN NextAttempt(pass[w].job.attempt)
                  ELSE jobs[Me(w)].attempt
  <2>3. Writes(Me(w), [jobs[Me(w)] EXCEPT !.status = pass[w].goal, !.attempt = n])
    BY <1>4 DEF GiveUp
  <2> HIDE DEF n
  <2>4. Me(w) \in JobId =>
          [jobs[Me(w)] EXCEPT !.status = pass[w].goal, !.attempt = n].status # "in_progress"
    BY <2>1, <2>2 DEF TypeOK
  <2> QED BY <2>3, <2>4, WritesQuiet
<1>5. CASE UNCHANGED jobs
  BY <1>5 DEF Quiet
<1> QED BY <1>1, <1>2, <1>3, <1>4, <1>5 DEF RunStep, MarkRenewing, FindVault, ChecksFail, Execute,
           BlobRenewed, RollbackBlob, BlobFinal

(* The API inserts and cancels; it activates nothing. *)
LEMMA ApiQuiet ==
  ASSUME TypeOK, Api
  PROVE  Quiet
<1>1. ASSUME NEW b \in Blob, NEW allowed \in BudgetAnswers, ApiCreate(b, allowed) PROVE Quiet
  BY <1>1, NewRowStatus, InsertedQuiet DEF ApiCreate
<1>2. ASSUME NEW k \in JobId, ApiRetry(k) PROVE Quiet
  BY <1>2, NewRowStatus, InsertedQuiet DEF ApiRetry
<1>3. ASSUME NEW k \in JobId, ApiOverride(k) PROVE Quiet
  <2>1. [NewRow(jobs[k].blob, "estimated", 0, 50) EXCEPT !.overridden = TRUE].status = "estimated"
    BY DEF NewRow, NoRow
  <2> QED BY <1>3, <2>1, InsertedQuiet DEF ApiOverride
<1>4. ASSUME NEW k \in JobId, NEW allowed \in BudgetAnswers, AdminRetry(k, allowed) PROVE Quiet
  BY <1>4, NewRowStatus, InsertedQuiet DEF AdminRetry
<1>5. ASSUME NEW k \in JobId, CancelWrite(k) PROVE Quiet
  BY <1>5, SetStatusQuiet DEF CancelWrite
<1>6. ASSUME NEW k \in JobId, CancelRead(k) PROVE Quiet
  BY <1>6 DEF CancelRead, Quiet
<1> QED BY <1>1, <1>2, <1>3, <1>4, <1>5, <1>6 DEF Api

(* Time and failures make no row in_progress. *)
LEMMA EnvironmentQuiet ==
  ASSUME TypeOK, Environment
  PROVE  Quiet
<1>1. ASSUME NEW j \in JobId, BackoffElapses(j) PROVE Quiet
  <2>1. ASSUME NEW r \in Row
        PROVE  LET row == [r EXCEPT !.scheduled = "ripe"]
               IN  row.status = r.status /\ row.blob = r.blob
    BY DEF Row
  <2> QED BY <1>1, <2>1, WritesQuiet DEF BackoffElapses, TypeOK
<1>2. ASSUME NEW j \in JobId, HeartbeatAges(j) PROVE Quiet
  <2>1. ASSUME NEW r \in Row, NEW h
        PROVE  LET row == [r EXCEPT !.started = "old", !.heartbeat = h]
               IN  row.status = r.status /\ row.blob = r.blob
    BY DEF Row
  <2> QED BY <1>2, <2>1, WritesQuiet DEF HeartbeatAges, TypeOK
<1>3. CASE UNCHANGED jobs
  BY <1>3 DEF Quiet
<1> QED BY <1>1, <1>2, <1>3 DEF Environment, BecomeDue, ExpiryCheck, ScanFails, StatementThrows, Crash

(* The unique index of migration 0022, the attachment of duplicate jobs    *)
(* and the updates by id alone together never leave two in_progress rows   *)
(* for a blob, whatever passes overlap, crash and recover.                 *)
THEOREM OneActive == Spec => []OneActivePerBlob
<1>1. Init => OneActivePerBlob
  BY DEF Init, OneActivePerBlob, NoRow
<1>2. TypeOK /\ OneActivePerBlob /\ [Next]_vars => OneActivePerBlob'
  <2> SUFFICES ASSUME TypeOK, OneActivePerBlob, [Next]_vars PROVE OneActivePerBlob'
    OBVIOUS
  <2>1. CASE UNCHANGED vars
    BY <2>1 DEF OneActivePerBlob, vars
  <2> QED BY <2>1, CycleQuiet, QueueKeeps, RunQuiet, ApiQuiet, EnvironmentQuiet, QuietKeeps
          DEF Next, PassStep
<1> QED BY <1>1, <1>2, QueueTypeCorrect, PTL DEF Spec

-----------------------------------------------------------------------------
(* One renewal each time a vault becomes due.                              *)

(* A transaction renews at most once for a due vault, and clears it. *)
LEMMA TransactKeeps ==
  ASSUME TypeOK, RenewedOncePerDue, NEW w, NEW b, NEW o, Transact(w, b, o), UNCHANGED dueCount
  PROVE  RenewedOncePerDue'
  BY DEF TypeOK, RenewedOncePerDue, Transact, RenewsIfDue

(* The contract's due check makes the queue's and the cycle's executions   *)
(* of the same vault harmless: for every number of passes, jobs and lost   *)
(* answers a vault is charged at most once each time it becomes due.       *)
THEOREM RenewedOnce == Spec => []RenewedOncePerDue
<1>1. Init => RenewedOncePerDue
  BY DEF Init, RenewedOncePerDue
<1>2. TypeOK /\ RenewedOncePerDue /\ [Next]_vars => RenewedOncePerDue'
  <2> SUFFICES ASSUME TypeOK, RenewedOncePerDue, [Next]_vars PROVE RenewedOncePerDue'
    OBVIOUS
  <2>1. CASE UNCHANGED <<chain, renewed, dueCount>>
    BY <2>1 DEF RenewedOncePerDue
  <2>2. ASSUME NEW b \in Blob, BecomeDue(b) PROVE RenewedOncePerDue'
    BY <2>2 DEF TypeOK, RenewedOncePerDue, BecomeDue
  <2>3. ASSUME NEW w \in Pass, CycleStep(w) PROVE RenewedOncePerDue'
    BY <2>1, <2>3, TransactKeeps DEF CycleStep, Scan, EnqueueCheck, EnqueueWrite, DirectSkip,
       DirectExecute, RecordCheck, RecordWrite
  <2>4. ASSUME NEW w \in Pass, QueueStep(w) PROVE RenewedOncePerDue'
    BY <2>1, <2>4 DEF QueueStep, RecoverStale, RecoverBlob, SelectJobs, TakeNext, EndPass,
       BudgetAllowed, BudgetDenied, Idempotency, Settle, Deduplicate, Attach, Lock, LockMissed,
       IndexRefuses
  <2>5. ASSUME NEW w \in Pass, RunStep(w) PROVE RenewedOncePerDue'
    BY <2>1, <2>5, TransactKeeps DEF RunStep, FirstHeartbeat, MarkRenewing, FindVault, ChecksFail,
       Execute, Succeed, BlobRenewed, BlobFinal, ScheduleRetry, RollbackBlob, GiveUp
  <2>6. CASE Api
    BY <2>1, <2>6 DEF Api, ApiCreate, ApiRetry, AdminRetry, ApiOverride, CancelRead, CancelWrite
  <2>7. CASE Environment
    BY <2>1, <2>2, <2>7 DEF Environment, ExpiryCheck, BackoffElapses, HeartbeatAges, ScanFails,
       StatementThrows, Crash
  <2>8. CASE UNCHANGED vars
    BY <2>1, <2>8 DEF vars
  <2> QED BY <2>3, <2>4, <2>5, <2>6, <2>7, <2>8 DEF Next, PassStep
<1> QED BY <1>1, <1>2, QueueTypeCorrect, PTL DEF Spec

-----------------------------------------------------------------------------
(* One pass at a time: cycles do not overlap.  The pass is then the only   *)
(* writer of the rows it has read, but for cancel requests, so the updates *)
(* by id alone land on rows that are still what the pass takes them for.   *)

OnePass == \A v, w \in Pass : v = w

(* What a pass does with a job before it has locked its row. *)
JobSteps == {"budget", "idempotency", "settle", "deduplicate", "attach", "lock"}

Cancelled == spent.cancels > 0
Thrown == spent.errors > 0

(* The status of a job's row at a step of its execution. *)
Held(step, status, cancelled, thrown) ==
    \/ status = "in_progress" /\ step \notin {"renewed", "final"}
    \/ status = "blocked_by_budget" /\ cancelled
    \/ status = "succeeded" /\ step \in {"renewed", "final"}
    \/ status = "succeeded" /\ thrown /\ step \in {"retry", "rollback", "giveup"}

(* What a pass p takes the rows for, and what they are: the rest of the    *)
(* batch and the job before its lock are open, the job after it is held.   *)
Fits(p, rows, cancelled, thrown) ==
    /\ p.pc \in JobSteps \cup RunningSteps =>
          p.job.id \in JobId /\ \A t \in p.todo : t.id # p.job.id
    /\ p.pc \in JobSteps => rows[p.job.id].status \in Open \/ cancelled
    /\ p.pc \in RunningSteps => Held(p.pc, rows[p.job.id].status, cancelled, thrown)
    /\ \A s, t \in p.todo : s.id = t.id => s = t
    /\ \A t \in p.todo : t.id \in JobId /\ (rows[t.id].status \in Open \/ cancelled)

PassesFit ==
    /\ \A w \in Pass : Fits(pass[w], jobs, Cancelled, Thrown)
    /\ cancels # {} => Cancelled

(* A pass between two jobs needs its batch only. *)
LEMMA RestingFits ==
  ASSUME NEW p, NEW q, NEW rows, NEW new, NEW c, NEW e, NEW cNew, NEW eNew,
         Fits(p, rows, c, e), q.pc \notin JobSteps \cup RunningSteps, q.todo \subseteq p.todo,
         c => cNew,
         \A t \in p.todo : rows[t.id].status \in Open => new[t.id].status \in Open
  PROVE  Fits(q, new, cNew, eNew)
  BY DEF Fits

(* A pass that stays with its job needs its row, too. *)
LEMMA WorkingFits ==
  ASSUME NEW p, NEW q, NEW rows, NEW new, NEW c, NEW e, NEW cNew, NEW eNew,
         Fits(p, rows, c, e), p.pc \in JobSteps \cup RunningSteps,
         q.todo = p.todo, q.job = p.job, c => cNew,
         \A t \in p.todo : rows[t.id].status \in Open => new[t.id].status \in Open,
         q.pc \in JobSteps => new[p.job.id].status \in Open \/ cNew,
         q.pc \in RunningSteps => Held(q.pc, new[p.job.id].status, cNew, eNew)
  PROVE  Fits(q, new, cNew, eNew)
  BY DEF Fits

(* What the rest of the system does to the rows that are there: nothing to *)
(* their status, but for the cancel requests.                              *)
Spares ==
    \A j \in JobId : jobs[j].status # "none" =>
        \/ jobs'[j].status = jobs[j].status
        \/ j \in cancels \ cancels' /\ jobs'[j].status = "blocked_by_budget"

(* So a pass still fits the rows. *)
LEMMA SparedFits ==
  ASSUME NEW p, Fits(p, jobs, Cancelled, Thrown), Spares, cancels # {} => Cancelled,
         Cancelled => Cancelled', Thrown => Thrown'
  PROVE  Fits(p, jobs', Cancelled', Thrown')
<1>1. ASSUME NEW j \in JobId, jobs[j].status \in Open \/ Cancelled
      PROVE  jobs'[j].status \in Open \/ Cancelled'
  BY <1>1 DEF Spares, Open
<1>2. ASSUME NEW j \in JobId, NEW step, Held(step, jobs[j].status, Cancelled, Thrown)
      PROVE  Held(step, jobs'[j].status, Cancelled', Thrown')
  BY <1>2 DEF Spares, Held
<1> QED BY <1>1, <1>2 DEF Fits

LEMMA WritesOne ==
  ASSUME TypeOK, NEW j, NEW row, Writes(j, row)
  PROVE  /\ \A i \in JobId : i # j => jobs'[i] = jobs[i]
         /\ j \in JobId => jobs'[j] = row
  BY DEF TypeOK, Writes

LEMMA WritesSpares ==
  ASSUME TypeOK, NEW j, NEW row, Writes(j, row),
         j \in JobId => jobs[j].status = "none" \/ row.status = jobs[j].status
  PROVE  Spares
  BY WritesOne DEF Spares

LEMMA InsertedSpares ==
  ASSUME TypeOK, NEW row, InsertedOrLogged(row) \/ Inserted(row)
  PROVE  Spares
<1>1. CASE Inserted(row)
  BY <1>1, WritesSpares DEF Inserted, NextId
<1>2. CASE UNCHANGED jobs
  BY <1>2 DEF Spares
<1> QED BY <1>1, <1>2 DEF InsertedOrLogged

(* The scan cycle inserts rows and resets attempts. *)
LEMMA CycleSpares ==
  ASSUME TypeOK, NEW w \in Pass, CycleStep(w)
  PROVE  Spares /\ UNCHANGED <<cancels, spent>>
<1>1. CASE EnqueueWrite(w)
  <2>1. CASE pass[w].found # 0
    <3>1. pass[w].found \in JobId =>
            [jobs[pass[w].found] EXCEPT !.attempt = 0].status = jobs[pass[w].found].status
      BY DEF TypeOK, Row
    <3> QED BY <1>1, <2>1, <3>1, WritesSpares DEF EnqueueWrite
  <2>2. CASE pass[w].found = 0
    BY <1>1, <2>2, InsertedSpares DEF EnqueueWrite
  <2> QED BY <2>1, <2>2
<1>2. CASE RecordWrite(w)
  BY <1>2, InsertedSpares DEF RecordWrite
<1>3. CASE UNCHANGED <<jobs, cancels, spent>>
  BY <1>3 DEF Spares
<1> QED BY <1>1, <1>2, <1>3 DEF CycleStep, Scan, EnqueueCheck, DirectSkip, DirectExecute, RecordCheck

(* The API inserts rows and cancels. *)
LEMMA ApiSpares ==
  ASSUME TypeOK, Api
  PROVE  /\ Spares /\ UNCHANGED pass
         /\ cancels' # {} => cancels # {} \/ Cancelled'
         /\ Cancelled => Cancelled'
         /\ Thrown => Thrown'
<1>r. ASSUME Requested PROVE (Cancelled => Cancelled') /\ (Thrown => Thrown')
  BY <1>r DEF Requested, TypeOK, Cancelled, Thrown
<1>1. ASSUME NEW b \in Blob, NEW allowed \in BudgetAnswers, ApiCreate(b, allowed)
      PROVE  Spares /\ UNCHANGED <<pass, cancels>> /\ Requested
  BY <1>1, InsertedSpares DEF ApiCreate
<1>2. ASSUME NEW k \in JobId, ApiRetry(k) \/ ApiOverride(k)
      PROVE  Spares /\ UNCHANGED <<pass, cancels>> /\ Requested
  BY <1>2, InsertedSpares DEF ApiRetry, ApiOverride
<1>3. ASSUME NEW k \in JobId, NEW allowed \in BudgetAnswers, AdminRetry(k, allowed)
      PROVE  Spares /\ UNCHANGED <<pass, cancels>> /\ Requested
  BY <1>3, InsertedSpares DEF AdminRetry
<1>4. ASSUME NEW k \in JobId, CancelRead(k)
      PROVE  Spares /\ UNCHANGED pass /\ Cancelled' /\ (Thrown => Thrown')
  BY <1>4 DEF CancelRead, Spares, TypeOK, Cancelled, Thrown
<1>5. ASSUME NEW k \in JobId, CancelWrite(k)
      PROVE  Spares /\ UNCHANGED <<pass, spent>> /\ cancels # {}
  <2>1. [jobs[k] EXCEPT !.status = "blocked_by_budget"].status = "blocked_by_budget"
    BY DEF TypeOK, Row
  <2>2. /\ \A i \in JobId : i # k => jobs'[i] = jobs[i]
        /\ jobs'[k].status = "blocked_by_budget"
    BY <1>5, <2>1, WritesOne DEF CancelWrite, SetStatus
  <2> QED BY <1>5, <2>2 DEF CancelWrite, Spares
<1> QED BY <1>r, <1>1, <1>2, <1>3, <1>4, <1>5 DEF Api, Cancelled, Thrown

(* A pass of which only the program counter, or more, has changed. *)
LEMMA Lands ==
  ASSUME TypeOK, NEW w \in Pass, NEW p, Moves(w, p)
  PROVE  pass'[w] = p
  BY DEF TypeOK, Moves

LEMMA LandsAt ==
  ASSUME TypeOK, NEW w \in Pass, NEW step, Goto(w, step)
  PROVE  /\ pass'[w].pc = step
         /\ pass'[w].todo = pass[w].todo
         /\ pass'[w].job = pass[w].job
  BY Lands DEF Goto, TypeOK, PassState

LEMMA LandsNext ==
  ASSUME TypeOK, NEW w \in Pass, Continue(w)
  PROVE  pass'[w].pc = "next" /\ pass'[w].todo = pass[w].todo
<1> DEFINE next == [IdlePass EXCEPT !.pc = "next", !.todo = pass[w].todo]
<1>1. next.pc = "next" /\ next.todo = pass[w].todo
  BY DEF IdlePass
<1>2. Moves(w, next)
  BY DEF Continue
<1> HIDE DEF next
<1> QED BY <1>1, <1>2, Lands

LEMMA IdleFits ==
  ASSUME NEW rows, NEW c, NEW e
  PROVE  Fits(IdlePass, rows, c, e)
  BY DEF Fits, IdlePass, JobSteps, RunningSteps

(* The scan cycle works on no job of the batch. *)
LEMMA CycleFits ==
  ASSUME TypeOK, NEW w \in Pass, CycleStep(w), Fits(pass[w], jobs, Cancelled, Thrown),
         cancels # {} => Cancelled
  PROVE  Fits(pass'[w], jobs', Cancelled', Thrown')
<1>s. Spares /\ UNCHANGED <<Cancelled, Thrown>>
  BY CycleSpares DEF Cancelled, Thrown
<1>f. Fits(pass[w], jobs', Cancelled', Thrown')
  BY <1>s, SparedFits
<1>p. pass[w] \in PassState
  BY DEF TypeOK
<1>d. ASSUME NEW b, Moves(w, VaultDone(w, b))
      PROVE  pass'[w].pc \in {"direct", "recover"} /\ pass'[w].todo = {}
  <2>1. ASSUME NEW vaults, NEW left
        PROVE  LET p == [IdlePass EXCEPT !.pc = "direct", !.vaults = vaults, !.left = left]
               IN  p.pc = "direct" /\ p.todo = {}
    BY DEF IdlePass
  <2>2. /\ [IdlePass EXCEPT !.pc = "recover"].pc = "recover"
        /\ [IdlePass EXCEPT !.pc = "recover"].todo = {}
    BY DEF IdlePass
  <2>3. VaultDone(w, b).pc \in {"direct", "recover"} /\ VaultDone(w, b).todo = {}
    BY <2>1, <2>2 DEF VaultDone
  <2>4. pass'[w] = VaultDone(w, b)
    BY <1>d, Lands
  <2> QED BY <2>3, <2>4
<1>1. /\ pass'[w].pc \notin JobSteps \cup RunningSteps
      /\ pass'[w].todo \subseteq pass[w].todo
  <2>1. CASE Scan(w)
    <3> DEFINE p == [pass[w] EXCEPT !.pc = "enqueue_check", !.vaults = DueVaults,
                                    !.left = DueVaults]
    <3>1. p.pc = "enqueue_check" /\ p.todo = pass[w].todo
      BY <1>p DEF PassState
    <3>2. Moves(w, p)
      BY <2>1 DEF Scan
    <3> HIDE DEF p
    <3> QED BY <3>1, <3>2, Lands DEF JobSteps, RunningSteps
  <2>2. ASSUME NEW b \in Blob, EnqueueCheck(w, b)
        PROVE  /\ pass'[w].pc \notin JobSteps \cup RunningSteps
               /\ pass'[w].todo \subseteq pass[w].todo
    <3> DEFINE p(f) == [pass[w] EXCEPT !.pc = "enqueue_write", !.blob = b, !.found = f]
    <3>1. PICK f : Moves(w, p(f))
      BY <2>2 DEF EnqueueCheck
    <3>2. p(f).pc = "enqueue_write" /\ p(f).todo = pass[w].todo
      BY <1>p DEF PassState
    <3> HIDE DEF p
    <3> QED BY <3>1, <3>2, Lands DEF JobSteps, RunningSteps
  <2>3. CASE EnqueueWrite(w)
    <3> DEFINE rest == pass[w].left \ {pass[w].blob}
               p == [pass[w] EXCEPT
                       !.pc = IF rest = {} THEN "direct" ELSE "enqueue_check",
                       !.left = IF rest = {} THEN pass[w].vaults ELSE rest,
                       !.blob = NoBlob, !.found = 0]
    <3>1. p.pc \in {"direct", "enqueue_check"} /\ p.todo = pass[w].todo
      BY <1>p DEF PassState
    <3>2. Moves(w, p)
      BY <2>3 DEF EnqueueWrite
    <3> HIDE DEF p
    <3> QED BY <3>1, <3>2, Lands DEF JobSteps, RunningSteps
  <2>4. ASSUME NEW b \in Blob, DirectSkip(w, b)
        PROVE  /\ pass'[w].pc \notin JobSteps \cup RunningSteps
               /\ pass'[w].todo \subseteq pass[w].todo
    BY <2>4, <1>d DEF DirectSkip, JobSteps, RunningSteps
  <2>5. ASSUME NEW b \in Blob, NEW o \in Outcomes, DirectExecute(w, b, o)
        PROVE  /\ pass'[w].pc \notin JobSteps \cup RunningSteps
               /\ pass'[w].todo \subseteq pass[w].todo
    <3> DEFINE p == [pass[w] EXCEPT
                       !.pc = IF Reported(o) THEN "record_check" ELSE "record_write",
                       !.blob = b,
                       !.goal = IF Reported(o) THEN "succeeded" ELSE "failed_final"]
    <3>1. p.pc \in {"record_check", "record_write"} /\ p.todo = pass[w].todo
      BY <1>p DEF PassState
    <3>2. Moves(w, p)
      BY <2>5 DEF DirectExecute
    <3> HIDE DEF p
    <3> QED BY <3>1, <3>2, Lands DEF JobSteps, RunningSteps
  <2>6. CASE RecordCheck(w)
    <3>1. CASE Goto(w, "record_write")
      BY <3>1, LandsAt DEF JobSteps, RunningSteps
    <3> QED BY <2>6, <1>d, <3>1 DEF RecordCheck, JobSteps, RunningSteps
  <2>7. CASE RecordWrite(w)
    BY <2>7, <1>d DEF RecordWrite, JobSteps, RunningSteps
  <2> QED BY <2>1, <2>2, <2>3, <2>4, <2>5, <2>6, <2>7 DEF CycleStep
<1> QED BY <1>f, <1>1, RestingFits

(* What TerminalIsFinal asks of a step of pass w. *)
Spared(w) ==
    \A j \in JobId :
        jobs[j].status \in Terminal /\ jobs'[j].status # jobs[j].status =>
            (Cancelled \/ Thrown) /\ Me(w) = j

(* Writing the job's row leaves the rest of the batch alone. *)
LEMMA WritesMine ==
  ASSUME TypeOK, NEW w \in Pass, Fits(pass[w], jobs, Cancelled, Thrown),
         pass[w].pc \in JobSteps \cup RunningSteps, NEW row, Writes(Me(w), row)
  PROVE  /\ jobs'[Me(w)] = row
         /\ \A t \in pass[w].todo : jobs'[t.id] = jobs[t.id]
         /\ jobs[Me(w)].status \in Terminal => Cancelled \/ Thrown \/
                                                pass[w].pc \in {"renewed", "final"}
         /\ pass[w].pc \notin {"renewed", "final"} => Spared(w)
<1>1. Me(w) \in JobId /\ \A t \in pass[w].todo : t.id # Me(w) /\ t.id \in JobId
  BY DEF Fits, Me
<1>2. jobs'[Me(w)] = row /\ \A i \in JobId : i # Me(w) => jobs'[i] = jobs[i]
  BY <1>1, WritesOne
<1>3. pass[w].pc \in JobSteps => jobs[Me(w)].status \in Open \/ Cancelled
  BY DEF Fits, Me
<1>4. pass[w].pc \in RunningSteps =>
          Held(pass[w].pc, jobs[Me(w)].status, Cancelled, Thrown)
  BY DEF Fits, Me
<1>5. jobs[Me(w)].status \in Terminal => Cancelled \/ Thrown \/
                                          pass[w].pc \in {"renewed", "final"}
  BY <1>3, <1>4 DEF Held, Open, Terminal
<1> QED BY <1>1, <1>2, <1>5 DEF Spared

LEMMA SetsMine ==
  ASSUME TypeOK, NEW w \in Pass, Fits(pass[w], jobs, Cancelled, Thrown),
         pass[w].pc \in JobSteps, NEW s, SetStatus(Me(w), s)
  PROVE  /\ jobs'[Me(w)].status = s
         /\ \A t \in pass[w].todo : jobs'[t.id] = jobs[t.id]
         /\ Spared(w)
<1>1. Me(w) \in JobId
  BY DEF Fits, Me
<1>2. jobs[Me(w)] \in Row
  BY <1>1 DEF TypeOK
<1>3. [jobs[Me(w)] EXCEPT !.status = s].status = s
  BY <1>2 DEF Row
<1>4. pass[w].pc \notin {"renewed", "final"}
  BY DEF JobSteps
<1> QED BY <1>3, <1>4, WritesMine DEF SetStatus

(* Each step of the queue up to the lock keeps the pass fitting the rows,  *)
(* and changes a terminal row only if it is its job's and was cancelled.   *)
LEMMA QueueFits ==
  ASSUME TypeOK, NEW w \in Pass, QueueStep(w), Fits(pass[w], jobs, Cancelled, Thrown)
  PROVE  Fits(pass'[w], jobs', Cancelled', Thrown') /\ Spared(w)
<1>p. pass[w] \in PassState
  BY DEF TypeOK
<1>u. UNCHANGED <<Cancelled, Thrown>>
  BY DEF QueueStep, RecoverStale, SelectJobs, EndPass, RecoverBlob, TakeNext, BudgetAllowed,
         BudgetDenied, Idempotency, Settle, Deduplicate, Attach, Lock, LockMissed,
         IndexRefuses, Cancelled, Thrown
<1>j. UNCHANGED jobs => Spared(w)
  BY DEF Spared
<1>m. pass[w].pc \in JobSteps =>
          Me(w) \in JobId /\ (jobs[Me(w)].status \in Open \/ Cancelled)
  BY DEF Fits, Me
<1>1. CASE RecoverStale(w)
  <2>1. ASSUME NEW j \in JobId
        PROVE  jobs'[j].status = jobs[j].status \/ jobs[j].status = "in_progress"
    BY <1>1 DEF RecoverStale, Stale
  <2>2. Spared(w)
    BY <2>1 DEF Spared, Terminal
  <2>3. \A t \in pass[w].todo : jobs[t.id].status \in Open => jobs'[t.id].status \in Open
    BY <2>1 DEF Fits, Open
  <2> DEFINE stale == {jobs[j].blob : j \in {k \in JobId : Stale(k)}}
             p == [pass[w] EXCEPT !.pc = IF stale = {} THEN "select" ELSE "recover_blobs",
                                  !.left = stale]
  <2>4. p.pc \in {"select", "recover_blobs"} /\ p.todo = pass[w].todo
    BY <1>p DEF PassState
  <2>5. Moves(w, p)
    BY <1>1 DEF RecoverStale
  <2> HIDE DEF p
  <2>6. pass'[w].pc \notin JobSteps \cup RunningSteps /\ pass'[w].todo = pass[w].todo
    BY <2>4, <2>5, Lands DEF JobSteps, RunningSteps
  <2> QED BY <1>u, <2>2, <2>3, <2>6, RestingFits
<1>2. ASSUME NEW b \in Blob, RecoverBlob(w, b)
      PROVE  Fits(pass'[w], jobs', Cancelled', Thrown') /\ Spared(w)
  <2> DEFINE p == [pass[w] EXCEPT
                     !.pc = IF pass[w].left = {b} THEN "select" ELSE "recover_blobs",
                     !.left = @ \ {b}]
  <2>1. p.pc \in {"select", "recover_blobs"} /\ p.todo = pass[w].todo
    BY <1>p DEF PassState
  <2>2. Moves(w, p) /\ UNCHANGED jobs
    BY <1>2 DEF RecoverBlob
  <2> HIDE DEF p
  <2>3. pass'[w].pc \notin JobSteps \cup RunningSteps /\ pass'[w].todo = pass[w].todo
    BY <2>1, <2>2, Lands DEF JobSteps, RunningSteps
  <2> QED BY <1>u, <1>j, <2>2, <2>3, RestingFits
<1>3. CASE SelectJobs(w)
  <2> DEFINE taken(j) == [id |-> j, status |-> jobs[j].status, attempt |-> jobs[j].attempt,
                          scheduled |-> jobs[j].scheduled]
  <2>1. PICK S \in Batches :
            Moves(w, [pass[w] EXCEPT !.pc = "next", !.todo = {taken(j) : j \in S}])
    BY <1>3 DEF SelectJobs
  <2>2. \A j \in S : j \in JobId /\ jobs[j].status \in Open
    BY DEF Batches, Queued, Selectable
  <2> DEFINE p == [pass[w] EXCEPT !.pc = "next", !.todo = {taken(j) : j \in S}]
  <2>a. p.pc = "next" /\ p.todo = {taken(j) : j \in S}
    BY <1>p DEF PassState
  <2>b. Moves(w, p)
    BY <2>1
  <2> HIDE DEF p
  <2>3. pass'[w].pc = "next" /\ pass'[w].todo = {taken(j) : j \in S}
    BY <2>a, <2>b, Lands
  <2>4. \A t \in pass'[w].todo : t.id \in S /\ t = taken(t.id)
    BY <2>3
  <2> HIDE DEF taken
  <2>5. UNCHANGED jobs
    BY <1>3 DEF SelectJobs
  <2> QED BY <1>j, <2>2, <2>3, <2>4, <2>5 DEF Fits, JobSteps, RunningSteps
<1>4. ASSUME NEW s \in pass[w].todo, TakeNext(w, s)
      PROVE  Fits(pass'[w], jobs', Cancelled', Thrown') /\ Spared(w)
  <2> DEFINE p == [pass[w] EXCEPT
                     !.pc = IF s.status \in {"estimated", "pending"} THEN "budget"
                            ELSE "idempotency",
                     !.todo = @ \ {s}, !.job = s]
  <2>1. /\ p.pc \in {"budget", "idempotency"}
        /\ p.todo = pass[w].todo \ {s} /\ p.job = s
    BY <1>p DEF PassState
  <2>2. Moves(w, p) /\ UNCHANGED jobs
    BY <1>4 DEF TakeNext
  <2> HIDE DEF p
  <2>3. pass'[w].pc \notin RunningSteps
    BY <2>1, <2>2, Lands DEF RunningSteps
  <2>4. pass'[w].todo = pass[w].todo \ {s} /\ pass'[w].job = s
    BY <2>1, <2>2, Lands
  <2> QED BY <1>u, <1>j, <2>2, <2>3, <2>4 DEF Fits
<1>5. CASE EndPass(w) \/ IndexRefuses(w)
  <2>1. Moves(w, IdlePass) /\ UNCHANGED jobs
    BY <1>5 DEF EndPass, IndexRefuses
  <2>2. pass'[w] = IdlePass
    BY <2>1, Lands
  <2> QED BY <1>j, <2>1, <2>2, IdleFits
<1>6. CASE BudgetAllowed(w)
  <2>1. pass[w].pc = "budget" /\ pass[w].pc \in JobSteps
    BY <1>6 DEF BudgetAllowed, JobSteps
  <2>2. /\ pass'[w].pc = "idempotency"
        /\ pass'[w].todo = pass[w].todo /\ pass'[w].job = pass[w].job
    BY <1>6, LandsAt DEF BudgetAllowed
  <2>3. /\ jobs'[Me(w)].status = "pending" \/ UNCHANGED jobs
        /\ \A t \in pass[w].todo : jobs'[t.id] = jobs[t.id]
        /\ Spared(w)
    BY <1>6, <1>j, <2>1, SetsMine DEF BudgetAllowed
  <2>4. jobs'[Me(w)].status \in Open \/ Cancelled
    BY <1>m, <2>1, <2>3 DEF Open
  <2>5. "idempotency" \notin RunningSteps
    BY DEF RunningSteps
  <2> QED BY <1>u, <2>1, <2>2, <2>3, <2>4, <2>5, WorkingFits DEF Me
<1>7. CASE BudgetDenied(w)
  <2>1. pass[w].pc \in JobSteps
    BY <1>7 DEF BudgetDenied, JobSteps
  <2>2. CASE SetStatus(Me(w), "blocked_by_budget") /\ Continue(w)
    <3>1. \A t \in pass[w].todo : jobs'[t.id] = jobs[t.id]
      BY <2>1, <2>2, SetsMine
    <3>2. Spared(w)
      BY <2>1, <2>2, SetsMine
    <3> QED BY <1>u, <2>2, <3>1, <3>2, LandsNext, RestingFits DEF JobSteps, RunningSteps
  <2>3. CASE UNCHANGED jobs /\ Moves(w, IdlePass)
    BY <1>j, <2>3, Lands, IdleFits
  <2> QED BY <1>7, <2>2, <2>3 DEF BudgetDenied
<1>8. CASE Idempotency(w) \/ Deduplicate(w)
  <2>1. pass[w].pc \in JobSteps /\ UNCHANGED jobs
    BY <1>8 DEF Idempotency, Deduplicate, JobSteps
  <2>2. PICK step \in {"settle", "deduplicate", "lock", "attach"} : Goto(w, step)
    BY <1>8 DEF Idempotency, Deduplicate
  <2>3. /\ pass'[w].pc = step
        /\ pass'[w].todo = pass[w].todo /\ pass'[w].job = pass[w].job
    BY <2>2, LandsAt
  <2>4. step \notin RunningSteps
    BY DEF RunningSteps
  <2> QED BY <1>u, <1>j, <1>m, <2>1, <2>3, <2>4, WorkingFits DEF Me
<1>9. CASE Settle(w)
  <2>1. pass[w].pc \in JobSteps
    BY <1>9 DEF Settle, JobSteps
  <2>2. (\A t \in pass[w].todo : jobs'[t.id] = jobs[t.id]) /\ Spared(w)
    BY <1>9, <2>1, SetsMine DEF Settle
  <2>3. pass'[w].pc = "next" /\ pass'[w].todo = pass[w].todo
    BY <1>9, LandsNext DEF Settle
  <2> QED BY <1>u, <2>2, <2>3, RestingFits DEF JobSteps, RunningSteps
<1>10. CASE Attach(w) \/ Lock(w)
  <2>1. pass[w].pc \in JobSteps /\ Activated(Me(w))
    BY <1>10 DEF Attach, Lock, JobSteps
  <2>2. [jobs[Me(w)] EXCEPT !.status = "in_progress", !.started = "fresh"].status
           = "in_progress"
    <3>1. jobs[Me(w)] \in Row
      BY <1>m, <2>1 DEF TypeOK
    <3> QED BY <3>1 DEF Row
  <2>3. pass[w].pc \notin {"renewed", "final"}
    BY <2>1 DEF JobSteps
  <2>4. /\ jobs'[Me(w)].status = "in_progress"
        /\ \A t \in pass[w].todo : jobs'[t.id] = jobs[t.id]
        /\ Spared(w)
    BY <2>1, <2>2, <2>3, WritesMine DEF Activated
  <2>5. CASE Attach(w)
    <3>1. pass'[w].pc = "next" /\ pass'[w].todo = pass[w].todo
      BY <2>5, LandsNext DEF Attach
    <3> QED BY <1>u, <2>4, <3>1, RestingFits DEF JobSteps, RunningSteps
  <2>6. CASE Lock(w)
    <3>1. /\ pass'[w].pc = "heartbeat"
          /\ pass'[w].todo = pass[w].todo /\ pass'[w].job = pass[w].job
      BY <2>6, LandsAt DEF Lock
    <3>2. Held("heartbeat", "in_progress", Cancelled', Thrown')
      BY DEF Held
    <3>3. "heartbeat" \notin JobSteps
      BY DEF JobSteps
    <3> QED BY <1>u, <2>1, <2>4, <3>1, <3>2, <3>3, WorkingFits DEF Me
  <2> QED BY <1>10, <2>5, <2>6
<1>11. CASE LockMissed(w)
  <2>1. pass'[w].pc = "next" /\ pass'[w].todo = pass[w].todo /\ UNCHANGED jobs
    BY <1>11, LandsNext DEF LockMissed
  <2> QED BY <1>u, <1>j, <2>1, RestingFits DEF JobSteps, RunningSteps
<1> QED BY <1>1, <1>2, <1>3, <1>4, <1>5, <1>6, <1>7, <1>8, <1>9, <1>10, <1>11 DEF QueueStep

(* The record of a pass in the catch around the execution. *)
LEMMA CaughtAt ==
  ASSUME TypeOK, NEW w \in Pass
  PROVE  /\ Caught(w).pc \in {"retry", "rollback"}
         /\ Caught(w).todo = pass[w].todo /\ Caught(w).job = pass[w].job
         /\ [Caught(w) EXCEPT !.pc = "rollback"].pc = "rollback"
         /\ [Caught(w) EXCEPT !.pc = "rollback"].todo = pass[w].todo
         /\ [Caught(w) EXCEPT !.pc = "rollback"].job = pass[w].job
<1>p. pass[w] \in PassState
  BY DEF TypeOK
<1>1. /\ Caught(w).pc \in {"retry", "rollback"}
      /\ Caught(w).todo = pass[w].todo /\ Caught(w).job = pass[w].job
  BY <1>p DEF Caught, PassState
<1>2. Caught(w) \in PassState
  BY CaughtType
<1>3. /\ [Caught(w) EXCEPT !.pc = "rollback"].pc = "rollback"
      /\ [Caught(w) EXCEPT !.pc = "rollback"].todo = Caught(w).todo
      /\ [Caught(w) EXCEPT !.pc = "rollback"].job = Caught(w).job
  BY <1>2 DEF PassState
<1> QED BY <1>1, <1>3

(* Each step of a job's execution keeps the row held, or leaves it, and    *)
(* changes a terminal row only if it is its job's.                         *)
LEMMA RunFits ==
  ASSUME TypeOK, NEW w \in Pass, RunStep(w), Fits(pass[w], jobs, Cancelled, Thrown)
  PROVE  Fits(pass'[w], jobs', Cancelled', Thrown') /\ Spared(w)
<1>p. pass[w] \in PassState
  BY DEF TypeOK
<1>u. UNCHANGED <<Cancelled, Thrown>>
  BY DEF RunStep, FirstHeartbeat, MarkRenewing, FindVault, ChecksFail, Execute, Succeed,
         BlobRenewed, ScheduleRetry, RollbackBlob, GiveUp, BlobFinal, Cancelled, Thrown
<1>j. UNCHANGED jobs => Spared(w)
  BY DEF Spared
<1>r. pass[w].pc \in RunningSteps
  BY DEF RunStep, FirstHeartbeat, MarkRenewing, FindVault, ChecksFail, Execute, Succeed,
         BlobRenewed, ScheduleRetry, RollbackBlob, GiveUp, BlobFinal, RunningSteps
<1>h. Me(w) \in JobId /\ Held(pass[w].pc, jobs[Me(w)].status, Cancelled, Thrown)
  BY <1>r DEF Fits, Me
<1>m. jobs[Me(w)] \in Row
  BY <1>h DEF TypeOK
<1>d. RunningSteps \cap JobSteps = {}
  BY DEF RunningSteps, JobSteps
(* A step on to another one of the execution that writes no job. *)
<1>a. ASSUME UNCHANGED jobs, pass'[w].todo = pass[w].todo, pass'[w].job = pass[w].job,
             pass'[w].pc \in RunningSteps,
             Held(pass[w].pc, jobs[Me(w)].status, Cancelled, Thrown) =>
                 Held(pass'[w].pc, jobs[Me(w)].status, Cancelled, Thrown)
      PROVE  Fits(pass'[w], jobs', Cancelled', Thrown') /\ Spared(w)
  BY <1>a, <1>u, <1>j, <1>r, <1>h, <1>d, WorkingFits DEF Me
(* The last step on a job, which writes its row. *)
<1>n. ASSUME NEW row, Writes(Me(w), row), Continue(w), pass[w].pc \notin {"renewed", "final"}
      PROVE  Fits(pass'[w], jobs', Cancelled', Thrown') /\ Spared(w)
  <2>1. (\A t \in pass[w].todo : jobs'[t.id] = jobs[t.id]) /\ Spared(w)
    BY <1>n, <1>r, WritesMine
  <2>2. pass'[w].pc \notin JobSteps \cup RunningSteps /\ pass'[w].todo = pass[w].todo
    BY <1>n, LandsNext DEF JobSteps, RunningSteps
  <2> QED BY <1>u, <2>1, <2>2, RestingFits
<1>1. CASE FirstHeartbeat(w)
  <2>1. [jobs[Me(w)] EXCEPT !.heartbeat = "fresh"].status = jobs[Me(w)].status
    BY <1>m DEF Row
  <2>2. pass[w].pc = "heartbeat"
    BY <1>1 DEF FirstHeartbeat
  <2>3. /\ jobs'[Me(w)].status = jobs[Me(w)].status
        /\ \A t \in pass[w].todo : jobs'[t.id] = jobs[t.id]
        /\ Spared(w)
    BY <1>1, <1>r, <2>1, <2>2, WritesMine DEF FirstHeartbeat
  <2>4. /\ pass'[w].pc = "mark"
        /\ pass'[w].todo = pass[w].todo /\ pass'[w].job = pass[w].job
    BY <1>1, LandsAt DEF FirstHeartbeat
  <2>5. Held("mark", jobs[Me(w)].status, Cancelled, Thrown) /\ "mark" \notin JobSteps
    BY <1>h, <2>2 DEF Held, JobSteps
  <2> QED BY <1>u, <1>r, <2>3, <2>4, <2>5, WorkingFits DEF Me
<1>2. CASE MarkRenewing(w)
  <2>1. /\ pass[w].pc = "mark" /\ pass'[w].pc = "checks" /\ UNCHANGED jobs
        /\ pass'[w].todo = pass[w].todo /\ pass'[w].job = pass[w].job
    BY <1>2, LandsAt DEF MarkRenewing
  <2> QED BY <1>a, <2>1 DEF Held, RunningSteps
<1>3. ASSUME NEW goal \in Terminal, ChecksFail(w, goal)
      PROVE  Fits(pass'[w], jobs', Cancelled', Thrown') /\ Spared(w)
  <2> DEFINE p == [pass[w] EXCEPT !.pc = "rollback", !.goal = goal]
  <2>1. p.pc = "rollback" /\ p.todo = pass[w].todo /\ p.job = pass[w].job
    BY <1>p DEF PassState
  <2>2. Moves(w, p) /\ pass[w].pc = "checks" /\ UNCHANGED jobs
    BY <1>3 DEF ChecksFail
  <2> HIDE DEF p
  <2>3. pass'[w] = p
    BY <2>2, Lands
  <2> QED BY <1>a, <2>1, <2>2, <2>3 DEF Held, RunningSteps
<1>4. CASE FindVault(w)
  <2> DEFINE p == [pass[w] EXCEPT !.pc = "execute",
                                  !.vaults = DueVaults \cap {jobs[Me(w)].blob}]
  <2>1. p.pc = "execute" /\ p.todo = pass[w].todo /\ p.job = pass[w].job
    BY <1>p DEF PassState
  <2>2. Moves(w, p) /\ pass[w].pc = "checks" /\ UNCHANGED jobs
    BY <1>4 DEF FindVault
  <2> HIDE DEF p
  <2>3. pass'[w] = p
    BY <2>2, Lands
  <2> QED BY <1>a, <2>1, <2>2, <2>3 DEF Held, RunningSteps
<1>5. ASSUME NEW o \in Outcomes, Execute(w, o)
      PROVE  Fits(pass'[w], jobs', Cancelled', Thrown') /\ Spared(w)
  <2> DEFINE p == [pass[w] EXCEPT !.pc = "succeed", !.vaults = {}]
  <2>1. p.pc = "succeed" /\ p.todo = pass[w].todo /\ p.job = pass[w].job
    BY <1>p DEF PassState
  <2>2. /\ pass[w].pc = "execute" /\ UNCHANGED jobs
        /\ \/ Moves(w, p)
           \/ Moves(w, Caught(w))
           \/ Moves(w, [Caught(w) EXCEPT !.pc = "rollback"])
    BY <1>5 DEF Execute
  <2> HIDE DEF p
  <2>3. /\ pass'[w].pc \in {"succeed", "retry", "rollback"}
        /\ pass'[w].todo = pass[w].todo /\ pass'[w].job = pass[w].job
    BY <2>1, <2>2, CaughtAt, Lands
  <2> QED BY <1>a, <2>2, <2>3 DEF Held, RunningSteps
<1>6. CASE Succeed(w)
  <2>1. [jobs[Me(w)] EXCEPT !.heartbeat = "fresh", !.status = "succeeded"].status
           = "succeeded"
    BY <1>m DEF Row
  <2>2. pass[w].pc = "succeed"
    BY <1>6 DEF Succeed
  <2>3. /\ jobs'[Me(w)].status = "succeeded"
        /\ \A t \in pass[w].todo : jobs'[t.id] = jobs[t.id]
        /\ Spared(w)
    BY <1>6, <1>r, <2>1, <2>2, WritesMine DEF Succeed
  <2>4. /\ pass'[w].pc = "renewed"
        /\ pass'[w].todo = pass[w].todo /\ pass'[w].job = pass[w].job
    BY <1>6, LandsAt DEF Succeed
  <2>5. Held("renewed", "succeeded", Cancelled, Thrown) /\ "renewed" \notin JobSteps
    BY DEF Held, JobSteps
  <2> QED BY <1>u, <1>r, <2>3, <2>4, <2>5, WorkingFits DEF Me
<1>7. CASE BlobRenewed(w)
  <2>1. /\ pass[w].pc = "renewed" /\ pass'[w].pc = "final" /\ UNCHANGED jobs
        /\ pass'[w].todo = pass[w].todo /\ pass'[w].job = pass[w].job
    BY <1>7, LandsAt DEF BlobRenewed
  <2> QED BY <1>a, <2>1 DEF Held, RunningSteps
<1>8. CASE RollbackBlob(w)
  <2>1. /\ pass[w].pc = "rollback" /\ pass'[w].pc = "giveup" /\ UNCHANGED jobs
        /\ pass'[w].todo = pass[w].todo /\ pass'[w].job = pass[w].job
    BY <1>8, LandsAt DEF RollbackBlob
  <2> QED BY <1>a, <2>1 DEF Held, RunningSteps
<1>9. ASSUME NEW to \in BlobStatus, BlobFinal(w, to)
      PROVE  Fits(pass'[w], jobs', Cancelled', Thrown') /\ Spared(w)
  <2>1. pass'[w].pc = "next" /\ pass'[w].todo = pass[w].todo /\ UNCHANGED jobs
    BY <1>9, LandsNext DEF BlobFinal
  <2> QED BY <1>u, <1>j, <2>1, RestingFits DEF JobSteps, RunningSteps
<1>10. CASE ScheduleRetry(w) \/ GiveUp(w)
  BY <1>10, <1>n DEF ScheduleRetry, GiveUp
<1> QED BY <1>1, <1>2, <1>3, <1>4, <1>5, <1>6, <1>7, <1>8, <1>9, <1>10 DEF RunStep

(* A failed scan, a thrown statement and a crash write no row.             *)
LEMMA FailureFits ==
  ASSUME TypeOK, NEW w \in Pass, ScanFails(w) \/ StatementThrows(w) \/ Crash(w),
         Fits(pass[w], jobs, Cancelled, Thrown)
  PROVE  /\ Fits(pass'[w], jobs', Cancelled', Thrown')
         /\ Cancelled => Cancelled'
<1>u. Cancelled' = Cancelled /\ (Thrown => Thrown')
  BY DEF ScanFails, StatementThrows, Crash, TypeOK, Cancelled, Thrown
<1>1. CASE ScanFails(w)
  <2>1. pass'[w].pc = "recover" /\ pass'[w].todo = pass[w].todo /\ UNCHANGED jobs
    BY <1>1, LandsAt DEF ScanFails
  <2> QED BY <1>u, <2>1, RestingFits DEF JobSteps, RunningSteps
<1>2. CASE StatementThrows(w)
  <2>1. /\ pass'[w].pc \in {"retry", "rollback"}
        /\ pass'[w].todo = pass[w].todo /\ pass'[w].job = pass[w].job
    BY <1>2, CaughtAt, Lands DEF StatementThrows
  <2>2. pass[w].pc \in {"checks", "succeed", "renewed", "final"} /\ UNCHANGED jobs
    BY <1>2 DEF StatementThrows
  <2>3. Thrown'
    BY <1>2 DEF StatementThrows, TypeOK, Thrown
  <2>4. pass[w].pc \in RunningSteps
    BY <2>2 DEF RunningSteps
  <2>5. Held(pass[w].pc, jobs[pass[w].job.id].status, Cancelled, Thrown)
    BY <2>4 DEF Fits
  <2>6. Held(pass'[w].pc, jobs[pass[w].job.id].status, Cancelled', Thrown')
    BY <1>u, <2>1, <2>2, <2>3, <2>5 DEF Held
  <2>7. pass'[w].pc \notin JobSteps
    BY <2>1 DEF JobSteps
  <2> QED BY <1>u, <2>1, <2>2, <2>4, <2>6, <2>7, WorkingFits
<1>3. CASE Crash(w)
  BY <1>u, <1>3, Lands, IdleFits DEF Crash
<1> QED BY <1>1, <1>2, <1>3

(* What the remaining steps leave: every pass, and every status.           *)
LEMMA TimeSpares ==
  ASSUME TypeOK, Environment, ~\E w \in Pass : ScanFails(w) \/ StatementThrows(w) \/ Crash(w)
  PROVE  Spares /\ UNCHANGED <<pass, cancels, spent>>
<1>1. ASSUME NEW b \in Blob, BecomeDue(b) \/ ExpiryCheck(b)
      PROVE  Spares /\ UNCHANGED <<pass, cancels, spent>>
  BY <1>1 DEF BecomeDue, ExpiryCheck, Spares
<1>2. ASSUME NEW j \in JobId, BackoffElapses(j)
      PROVE  Spares /\ UNCHANGED <<pass, cancels, spent>>
  <2>1. [jobs[j] EXCEPT !.scheduled = "ripe"].status = jobs[j].status
    BY DEF TypeOK, Row
  <2> QED BY <1>2, <2>1, WritesSpares DEF BackoffElapses
<1>3. ASSUME NEW j \in JobId, HeartbeatAges(j)
      PROVE  Spares /\ UNCHANGED <<pass, cancels, spent>>
  <2>1. ASSUME NEW r \in Row, NEW h
        PROVE  [r EXCEPT !.started = "old", !.heartbeat = h].status = r.status
    BY DEF Row
  <2>2. jobs[j] \in Row
    BY DEF TypeOK
  <2> QED BY <1>3, <2>1, <2>2, WritesSpares DEF HeartbeatAges
<1> QED BY <1>1, <1>2, <1>3 DEF Environment

(* The step of the only pass, or of anybody else.                          *)
LEMMA StepFits ==
  ASSUME OnePass, TypeOK, PassesFit, [Next]_vars
  PROVE  /\ PassesFit'
         /\ Spares \/ \E w \in Pass : Spared(w)
<1>c. cancels # {} => Cancelled
  BY DEF PassesFit
<1>1. ASSUME NEW w \in Pass, Fits(pass'[w], jobs', Cancelled', Thrown'),
             cancels' # {} => Cancelled'
      PROVE  PassesFit'
  BY <1>1 DEF OnePass, PassesFit
<1>2. ASSUME Spares, UNCHANGED pass, cancels' # {} => cancels # {} \/ Cancelled',
             Cancelled => Cancelled', Thrown => Thrown'
      PROVE  PassesFit'
  BY <1>2, <1>c, SparedFits DEF PassesFit
<1>3. ASSUME NEW w \in Pass, CycleStep(w)
      PROVE  PassesFit' /\ Spares
  <2>1. Fits(pass'[w], jobs', Cancelled', Thrown') /\ Spares /\ UNCHANGED <<cancels, spent>>
    BY <1>3, <1>c, CycleFits, CycleSpares DEF PassesFit
  <2> QED BY <1>1, <1>c, <2>1 DEF Cancelled
<1>4. ASSUME NEW w \in Pass, QueueStep(w) \/ RunStep(w)
      PROVE  PassesFit' /\ Spared(w)
  <2>1. Fits(pass'[w], jobs', Cancelled', Thrown') /\ Spared(w)
    BY <1>4, QueueFits, RunFits DEF PassesFit
  <2>2. UNCHANGED <<cancels, spent>>
    BY <1>4 DEF QueueStep, RecoverStale, SelectJobs, EndPass, RecoverBlob, TakeNext,
       BudgetAllowed, BudgetDenied, Idempotency, Settle, Deduplicate, Attach, Lock,
       LockMissed, IndexRefuses, RunStep, FirstHeartbeat, MarkRenewing, FindVault,
       ChecksFail, Execute, Succeed, BlobRenewed, ScheduleRetry, RollbackBlob, GiveUp,
       BlobFinal
  <2> QED BY <1>1, <1>c, <2>1, <2>2 DEF Cancelled
<1>5. CASE Api
  BY <1>2, <1>5, ApiSpares
<1>6. ASSUME NEW w \in Pass, ScanFails(w) \/ StatementThrows(w) \/ Crash(w)
      PROVE  PassesFit' /\ Spares
  <2>1. Fits(pass'[w], jobs', Cancelled', Thrown') /\ (Cancelled => Cancelled')
    BY <1>6, FailureFits DEF PassesFit
  <2>2. UNCHANGED <<jobs, cancels>>
    BY <1>6 DEF ScanFails, StatementThrows, Crash
  <2> QED BY <1>1, <1>c, <2>1, <2>2 DEF Spares
<1>7. CASE Environment /\ ~\E w \in Pass : ScanFails(w) \/ StatementThrows(w) \/ Crash(w)
  BY <1>2, <1>7, TimeSpares DEF Cancelled, Thrown
<1>8. CASE UNCHANGED vars
  BY <1>2, <1>8 DEF vars, Spares, Cancelled, Thrown
<1> QED BY <1>3, <1>4, <1>5, <1>6, <1>7, <1>8 DEF Next, PassStep

LEMMA InitFits == Init => PassesFit
  BY IdleFits DEF Init, PassesFit

LEMMA PassesAlwaysFit == ASSUME OnePass PROVE Spec => [](TypeOK /\ PassesFit)
<1>1. TypeOK /\ PassesFit /\ [Next]_vars => (TypeOK /\ PassesFit)'
  BY StepType, StepFits
<1>2. Init => TypeOK /\ PassesFit
  BY InitType, InitFits
<1> QED BY <1>1, <1>2, PTL DEF Spec

(* With one pass at a time the optimistic lock is enough, and the updates  *)
(* by id alone that follow it hit the row the pass has locked: recovery,   *)
(* the scan's own writes, retries and API requests never take it away.     *)
(* Only cancelling and a statement that throws after the success can.      *)
THEOREM LockKept == ASSUME OnePass PROVE Spec => []LockHolds
<1>1. PassesFit => LockHolds
  <2> SUFFICES ASSUME PassesFit, NEW w \in Pass,
                      pass[w].pc \in RunningSteps \ {"renewed", "final"}
               PROVE  \/ jobs[pass[w].job.id].status = "in_progress"
                      \/ jobs[pass[w].job.id].status = "blocked_by_budget" /\ spent.cancels > 0
                      \/ /\ jobs[pass[w].job.id].status = "succeeded" /\ spent.errors > 0
                         /\ pass[w].pc \in {"retry", "rollback", "giveup"}
    BY DEF LockHolds
  <2>1. Held(pass[w].pc, jobs[pass[w].job.id].status, Cancelled, Thrown)
    BY DEF PassesFit, Fits
  <2> QED BY <2>1 DEF Held, Cancelled, Thrown
<1> QED BY <1>1, PassesAlwaysFit, PTL

(* With one pass at a time a terminal job stays as it is, but for a cancel *)
(* and for the pass that is still working on the job after a cancel or a   *)
(* thrown statement.                                                       *)
THEOREM TerminalStays == ASSUME OnePass PROVE Spec => TerminalIsFinal
<1> DEFINE Stays ==
      \A j \in JobId :
         jobs[j].status \in Terminal /\ jobs'[j].status # jobs[j].status =>
             \/ j \in cancels \ cancels'
             \/ /\ spent.cancels + spent.errors > 0
                /\ \E w \in Pass : pass[w].job.id = j
<1>1. TypeOK /\ PassesFit /\ [Next]_vars => Stays
  <2> SUFFICES ASSUME TypeOK, PassesFit, [Next]_vars PROVE Stays
    OBVIOUS
  <2>1. CASE Spares
    BY <2>1 DEF Spares, Terminal
  <2>2. ASSUME NEW w \in Pass, Spared(w) PROVE Stays
    <3>1. Cancelled \/ Thrown => spent.cancels + spent.errors > 0
      BY DEF Cancelled, Thrown, TypeOK
    <3> QED BY <2>2, <3>1 DEF Spared, Me
  <2> QED BY <2>1, <2>2, StepFits
<1>2. TypeOK /\ PassesFit /\ [Next]_vars => [Stays]_vars
  BY <1>1
<1>3. Spec => [][Stays]_vars
  BY <1>2, PassesAlwaysFit, PTL DEF Spec
<1> QED BY <1>3 DEF TerminalIsFinal
=============================================================================
