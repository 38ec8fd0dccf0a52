--------------------------- MODULE BlobLifecycle ---------------------------
(***************************************************************************)
(* The ten-state life of a row of blob_registrations.  Three kinds of      *)
(* actors write its status: the scheduler's handlers                       *)
(* (keeper/src/scheduler.ts, policy-reconciler.ts, cleanup-jobs.ts), the   *)
(* renewal queue (keeper/src/index.ts) and the API                         *)
(* (api/src/routes/blobs.ts).                                              *)
(*                                                                         *)
(* A handler selects rows in one statement and updates them in later ones, *)
(* each guarded by the status it expects.  An API request reads the row,   *)
(* validates the transition and then updates by id alone.  Every statement *)
(* is a step.                                                              *)
(***************************************************************************)
EXTENDS Integers, FiniteSets

CONSTANTS
    Blob,             \* registrations
    Runner,           \* handler executions that may be under way together
    Request,          \* API requests that may be under way together
    MaxEpoch,         \* bound: network epochs
    Expiries,         \* values of expiry_epoch at registration
    PolicyThreshold,  \* renew_threshold of the policies of the instance
    DefaultThreshold, \* SYSTEM_DEFAULT_POLICY.renewThreshold
    MaxPolicyEdits,   \* bound: edits that make a policy match or not
    MaxCrashes        \* bound: keeper crashes

ASSUME LifecycleAssumption ==
    /\ MaxEpoch \in Nat /\ Expiries \subseteq Nat
    /\ PolicyThreshold \in Nat /\ DefaultThreshold \in Nat
    /\ MaxPolicyEdits \in Nat /\ MaxCrashes \in Nat

VARIABLES
    row,       \* blob_registrations
    epoch,     \* external: the network's epoch
    covered,   \* blobs whose effective policy has auto-renewal enabled
    run,       \* what every handler execution is doing
    renewal,   \* what the renewal queue is doing with each blob
    request,   \* API requests between their read and their last write
    spent      \* how much of the bounds has been used up

vars == <<row, epoch, covered, run, renewal, request, spent>>

-----------------------------------------------------------------------------
(* The blob machine of api/src/lib/state-machine.ts.                       *)

Status == {"discovered", "verified", "tracked", "protected", "expiring",
           "renewing", "renewed", "expired", "archived", "deleted"}

Automatic ==
    {<<"discovered", "verified">>, <<"verified", "tracked">>,
     <<"tracked", "protected">>, <<"protected", "tracked">>,
     <<"protected", "expiring">>, <<"expiring", "renewing">>,
     <<"renewing", "renewed">>, <<"renewing", "expiring">>,
     <<"renewed", "tracked">>, <<"renewed", "protected">>,
     <<"expiring", "expired">>}

Manual ==
    {<<"expiring", "renewing">>}
    \cup ({"discovered", "verified", "tracked", "protected", "expiring",
           "renewing", "renewed", "expired"} \X {"archived"})
    \cup ({"tracked", "protected", "archived", "expired"} \X {"deleted"})

Terminal == {"deleted"}

(* validateTransition: a known state that is not terminal, and an entry of *)
(* the table.  find() returns the first entry of a pair, and the automatic *)
(* one comes first where there are two.                                    *)
ValidTransition(from, to) ==
    /\ from \in Status \ Terminal
    /\ <<from, to>> \in Automatic \cup Manual

TransitionType(from, to) ==
    IF <<from, to>> \in Automatic THEN "automatic" ELSE "manual"

-----------------------------------------------------------------------------
NoRow == "none"
NoExpiry == -1

Row == [status : Status \cup {NoRow},
        deletedAt : {"null", "recent", "old"},  \* old: past the grace period
        expiry : {NoExpiry} \cup Expiries,
        revived : BOOLEAN]  \* history: a write has undone a deletion

Task == {"idle", "verify", "expiry", "protect", "unprotect", "expire",
         "orphan"}

Run == [task : Task, todo : SUBSET Blob, marked : SUBSET Blob,
        left : [Blob -> Int]]

ApiRequest == [kind : {"idle", "patch", "delete", "bulk"},
               todo : SUBSET Blob, seen : [Blob -> Status \cup {NoRow}],
               target : Status]

IdleRun == [task |-> "idle", todo |-> {}, marked |-> {},
            left |-> [b \in Blob |-> 0]]

IdleRequest == [kind |-> "idle", todo |-> {},
                seen |-> [b \in Blob |-> NoRow], target |-> "archived"]

Absent == [status |-> NoRow, deletedAt |-> "null", expiry |-> NoExpiry,
           revived |-> FALSE]

(* Types of rows, handler executions and requests.                         *)
TypeOK ==
    /\ row \in [Blob -> Row]
    /\ epoch \in 0..MaxEpoch
    /\ covered \subseteq Blob
    /\ run \in [Runner -> Run]
    /\ renewal \in [Blob -> {"idle", "running", "done", "marked"}]
    /\ request \in [Request -> ApiRequest]
    /\ spent \in [edits : 0..MaxPolicyEdits, crashes : 0..MaxCrashes]

Init ==
    /\ row = [b \in Blob |-> Absent]
    /\ epoch = 0
    /\ covered = {}
    /\ run = [r \in Runner |-> IdleRun]
    /\ renewal = [b \in Blob |-> "idle"]
    /\ request = [q \in Request |-> IdleRequest]
    /\ spent = [edits |-> 0, crashes |-> 0]

StatusOf(b) == row[b].status
Having(S) == {b \in Blob : StatusOf(b) \in S}

(* UPDATE ... SET status = to WHERE id = b AND status = from.              *)
Moved(b, from, to) ==
    [row EXCEPT ![b].status = IF @ = from THEN to ELSE @]

(* UPDATE ... SET status = to WHERE id = b.                                *)
Set(b, to) ==
    [row EXCEPT ![b].status = to,
                ![b].revived = @ \/ (StatusOf(b) = "deleted" /\ to # "deleted")]

(* A handler execution with this much left to do; nothing left ends it.    *)
Continue(r, todo, marked) ==
    run' = [run EXCEPT ![r] = IF todo = {} /\ marked = {} THEN IdleRun
                              ELSE [@ EXCEPT !.todo = todo, !.marked = marked]]

Begin(r, task, todo) ==
    /\ run[r].task = "idle"
    /\ todo # {}
    /\ run' = [run EXCEPT ![r] = [IdleRun EXCEPT !.task = task, !.todo = todo]]

HandlerUnchanged == UNCHANGED <<epoch, covered, renewal, request, spent>>

-----------------------------------------------------------------------------
(* blob_verification.  blob_id is never empty, since createBlobSchema      *)
(* demands a character, so the branch that archives is never taken.        *)

VerifySelect(r) ==
    /\ Begin(r, "verify", Having({"discovered"}))
    /\ UNCHANGED row /\ HandlerUnchanged

VerifyBlob(r, b) ==
    /\ run[r].task = "verify" /\ run[r].marked = {} /\ b \in run[r].todo
    /\ row' = Moved(b, "discovered", "verified")
    /\ Continue(r, run[r].todo \ {b}, {b})
    /\ HandlerUnchanged

TrackBlob(r, b) ==
    /\ run[r].task = "verify" /\ b \in run[r].marked
    /\ row' = Moved(b, "verified", "tracked")
    /\ Continue(r, run[r].todo, {})
    /\ HandlerUnchanged

-----------------------------------------------------------------------------
(* expiry_check: the epoch and the candidates are read first, then the     *)
(* policy of each, then one UPDATE.  A policy that cannot be resolved      *)
(* leaves its blob out.                                                    *)

ExpirySelect(r) ==
    LET candidates == {b \in Having({"tracked", "protected"}) :
                           row[b].expiry # NoExpiry}
    IN  /\ run[r].task = "idle"
        /\ candidates # {}
        /\ run' = [run EXCEPT ![r] =
                      [IdleRun EXCEPT !.task = "expiry", !.todo = candidates,
                       !.left = [b \in Blob |-> IF b \in candidates
                                                THEN row[b].expiry - epoch
                                                ELSE 0]]]
        /\ UNCHANGED row /\ HandlerUnchanged

ThresholdInEpochs(b) ==
    LET t == IF b \in covered THEN PolicyThreshold ELSE DefaultThreshold
    IN  IF t < 1 THEN 1 ELSE t

ResolveExpiry(r, b) ==
    /\ run[r].task = "expiry" /\ b \in run[r].todo
    /\ \E resolved \in BOOLEAN :
           run' = [run EXCEPT ![r].todo = @ \ {b},
                       ![r].marked = IF /\ resolved
                                        /\ run[r].left[b] < ThresholdInEpochs(b)
                                     THEN @ \cup {b} ELSE @]
    /\ UNCHANGED row /\ HandlerUnchanged

MarkExpiring(r) ==
    /\ run[r].task = "expiry" /\ run[r].todo = {}
    /\ row' = [b \in Blob |->
                  IF b \in run[r].marked /\ StatusOf(b) \in {"tracked", "protected"}
                  THEN [row[b] EXCEPT !.status = "expiring"] ELSE row[b]]
    /\ Continue(r, {}, {})
    /\ HandlerUnchanged

-----------------------------------------------------------------------------
(* policy_reconciliation: tracked blobs with a policy become protected,    *)
(* then protected blobs without one become tracked.                        *)

ReconcileTracked(r) ==
    /\ run[r].task = "idle"
    /\ run' = [run EXCEPT ![r] = [IdleRun EXCEPT !.task = "protect",
                                                 !.todo = Having({"tracked"})]]
    /\ UNCHANGED row /\ HandlerUnchanged

ProtectBlob(r, b) ==
    /\ run[r].task = "protect" /\ b \in run[r].todo
    /\ row' = IF b \in covered THEN Moved(b, "tracked", "protected") ELSE row
    /\ run' = [run EXCEPT ![r].todo = @ \ {b}]
    /\ HandlerUnchanged

ReconcileProtected(r) ==
    LET protected == Having({"protected"})
    IN  /\ run[r].task = "protect" /\ run[r].todo = {}
        /\ run' = [run EXCEPT ![r] =
                      IF protected = {} THEN IdleRun
                      ELSE [@ EXCEPT !.task = "unprotect", !.todo = protected]]
        /\ UNCHANGED row /\ HandlerUnchanged

UnprotectBlob(r, b) ==
    /\ run[r].task = "unprotect" /\ b \in run[r].todo
    /\ row' = IF b \notin covered THEN Moved(b, "protected", "tracked") ELSE row
    /\ Continue(r, run[r].todo \ {b}, {})
    /\ HandlerUnchanged

-----------------------------------------------------------------------------
(* expire_blobs, orphan_check and the row of cleanup that is this table.   *)

ExpireSelect(r) ==
    /\ Begin(r, "expire", {b \in Having({"expiring"}) :
                              row[b].expiry # NoExpiry /\ row[b].expiry < epoch})
    /\ UNCHANGED row /\ HandlerUnchanged

(* Mutant: the UPDATE is by id alone.                                      *)
ExpireUnguarded(r, b) ==
    /\ run[r].task = "expire" /\ b \in run[r].todo
    /\ row' = Set(b, "expired")
    /\ Continue(r, run[r].todo \ {b}, {})
    /\ HandlerUnchanged

ExpireBlob(r, b) ==
    /\ run[r].task = "expire" /\ b \in run[r].todo
    /\ row' = Moved(b, "expiring", "expired")
    /\ Continue(r, run[r].todo \ {b}, {})
    /\ HandlerUnchanged

(* No statement of the repository sets wallet_id, so the LEFT JOIN finds   *)
(* no wallet for any row.                                                  *)
OrphanSelect(r) ==
    /\ Begin(r, "orphan", {b \in Having(Status \ {"archived"}) :
                              row[b].deletedAt = "null"})
    /\ UNCHANGED row /\ HandlerUnchanged

OrphanArchive(r, b) ==
    /\ run[r].task = "orphan" /\ b \in run[r].todo
    /\ row' = IF StatusOf(b) \in {"archived", NoRow} THEN row ELSE Set(b, "archived")
    /\ Continue(r, run[r].todo \ {b}, {})
    /\ HandlerUnchanged

RunCleanup ==
    /\ \E b \in Blob : row[b].deletedAt = "old"
    /\ row' = [b \in Blob |-> IF row[b].deletedAt = "old" THEN Absent ELSE row[b]]
    /\ UNCHANGED run /\ HandlerUnchanged

(* The handler throws or its process dies: the rest of its list is left.   *)
HandlerDies(r) ==
    /\ run[r].task # "idle"
    /\ spent.crashes < MaxCrashes
    /\ run' = [run EXCEPT ![r] = IdleRun]
    /\ spent' = [spent EXCEPT !.crashes = @ + 1]
    /\ UNCHANGED <<row, epoch, covered, renewal, request>>

-----------------------------------------------------------------------------
(* The renewal queue.  A job is made for a vault due on chain whatever the *)
(* row's status, so long as the row is neither archived nor deleted.  The  *)
(* renewal extends the blob on chain; expiry_epoch is left as it is.       *)

QueueUnchanged == UNCHANGED <<epoch, covered, run, request>>

(* Mutant: a job is refused unless its blob is expiring.                   *)
RenewOnlyExpiring(b) ==
    /\ renewal[b] = "idle"
    /\ StatusOf(b) = "expiring"
    /\ row' = Moved(b, "expiring", "renewing")
    /\ renewal' = [renewal EXCEPT ![b] = "running"]
    /\ UNCHANGED spent /\ QueueUnchanged

RenewStart(b) ==
    /\ renewal[b] = "idle"
    /\ StatusOf(b) \notin {NoRow, "archived", "deleted"}
    /\ row' = Moved(b, "expiring", "renewing")
    /\ renewal' = [renewal EXCEPT ![b] = "running"]
    /\ UNCHANGED spent /\ QueueUnchanged

RenewFail(b) ==
    /\ renewal[b] = "running"
    /\ row' = Moved(b, "renewing", "expiring")
    /\ renewal' = [renewal EXCEPT ![b] = "idle"]
    /\ UNCHANGED spent /\ QueueUnchanged

RenewCommit(b) ==
    /\ renewal[b] = "running"
    /\ renewal' = [renewal EXCEPT ![b] = "done"]
    /\ UNCHANGED <<row, spent>> /\ QueueUnchanged

RenewMark(b) ==
    /\ renewal[b] = "done"
    /\ row' = Moved(b, "renewing", "renewed")
    /\ renewal' = [renewal EXCEPT ![b] = "marked"]
    /\ UNCHANGED spent /\ QueueUnchanged

TransitionRenewedBlob(b) ==
    /\ renewal[b] = "marked"
    /\ row' = Moved(b, "renewed", IF b \in covered THEN "protected" ELSE "tracked")
    /\ renewal' = [renewal EXCEPT ![b] = "idle"]
    /\ UNCHANGED spent /\ QueueUnchanged

(* The keeper dies, or the statement throws, after the transaction has     *)
(* committed: the job is terminal and nobody takes the row further.        *)
RenewCrash(b) ==
    /\ renewal[b] \in {"done", "marked"}
    /\ spent.crashes < MaxCrashes
    /\ renewal' = [renewal EXCEPT ![b] = "idle"]
    /\ spent' = [spent EXCEPT !.crashes = @ + 1]
    /\ UNCHANGED row /\ QueueUnchanged

-----------------------------------------------------------------------------
(* The API: POST, PATCH, DELETE and bulk of routes/blobs.ts.               *)

ApiUnchanged == UNCHANGED <<epoch, covered, run, renewal, spent>>

CreateBlob(b) ==
    /\ StatusOf(b) = NoRow
    /\ \E e \in Expiries \cup {NoExpiry} :
           row' = [row EXCEPT ![b] = [Absent EXCEPT !.status = "discovered",
                                                    !.expiry = e]]
    /\ UNCHANGED request /\ ApiUnchanged

(* PATCH with a status: the transition from the status read must be in the *)
(* table and manual.  PATCH without one changes other columns.             *)
PatchRead(q, b, to) ==
    /\ request[q].kind = "idle"
    /\ ValidTransition(StatusOf(b), to)
    /\ TransitionType(StatusOf(b), to) = "manual"
    /\ request' = [request EXCEPT ![q] =
                      [kind |-> "patch", todo |-> {b}, target |-> to,
                       seen |-> [IdleRequest.seen EXCEPT ![b] = StatusOf(b)]]]
    /\ UNCHANGED row /\ ApiUnchanged

DeleteRead(q, b) ==
    /\ request[q].kind = "idle"
    /\ ValidTransition(StatusOf(b), "deleted")
    /\ request' = [request EXCEPT ![q] =
                      [kind |-> "delete", todo |-> {b}, target |-> "deleted",
                       seen |-> [IdleRequest.seen EXCEPT ![b] = StatusOf(b)]]]
    /\ UNCHANGED row /\ ApiUnchanged

(* Mutant: the timestamp of the target status is not written.              *)
WrittenUnstamped(b, to) ==
    IF StatusOf(b) = NoRow THEN row ELSE Set(b, to)

(* The timestamp of the target status is written along with it.            *)
Written(b, to) ==
    IF StatusOf(b) = NoRow THEN row
    ELSE [Set(b, to) EXCEPT ![b].deletedAt = IF to = "deleted" THEN "recent" ELSE @]

PatchWrite(q, b) ==
    /\ request[q].kind = "patch" /\ b \in request[q].todo
    /\ row' = Written(b, request[q].target)
    /\ request' = [request EXCEPT ![q] = IdleRequest]
    /\ ApiUnchanged

DeleteWrite(q, b) ==
    /\ request[q].kind = "delete" /\ b \in request[q].todo
    /\ row' = Written(b, "deleted")
    /\ request' = [request EXCEPT ![q] = IdleRequest]
    /\ ApiUnchanged

PatchExpiry(b) ==
    /\ StatusOf(b) # NoRow
    /\ \E e \in Expiries : row' = [row EXCEPT ![b].expiry = e]
    /\ UNCHANGED request /\ ApiUnchanged

(* Bulk archive, activate and delete: one SELECT, then row by row the      *)
(* validation of what was selected and an UPDATE by id.                    *)
BulkActionToTransition == {"archived", "tracked", "deleted"}

BulkRead(q, to) ==
    /\ request[q].kind = "idle"
    /\ Having(Status) # {}
    /\ \E ids \in SUBSET Having(Status) :
           /\ ids # {}
           /\ request' = [request EXCEPT ![q] =
                             [kind |-> "bulk", todo |-> ids, target |-> to,
                              seen |-> [b \in Blob |-> IF b \in ids THEN StatusOf(b)
                                                       ELSE NoRow]]]
    /\ UNCHANGED row /\ ApiUnchanged

BulkItem(q, b) ==
    /\ request[q].kind = "bulk" /\ b \in request[q].todo
    /\ row' = IF ValidTransition(request[q].seen[b], request[q].target)
              THEN Written(b, request[q].target) ELSE row
    /\ request' = [request EXCEPT ![q] =
                      IF request[q].todo = {b} THEN IdleRequest
                      ELSE [request[q] EXCEPT !.todo = @ \ {b}]]
    /\ ApiUnchanged

-----------------------------------------------------------------------------
(* The environment: epochs pass, policies are edited, deletions age.       *)

AdvanceEpoch ==
    /\ epoch < MaxEpoch
    /\ epoch' = epoch + 1
    /\ UNCHANGED <<row, covered, run, renewal, request, spent>>

EditPolicy(b) ==
    /\ spent.edits < MaxPolicyEdits
    /\ covered' = IF b \in covered THEN covered \ {b} ELSE covered \cup {b}
    /\ spent' = [spent EXCEPT !.edits = @ + 1]
    /\ UNCHANGED <<row, epoch, run, renewal, request>>

AgeDeletion(b) ==
    /\ row[b].deletedAt = "recent"
    /\ row' = [row EXCEPT ![b].deletedAt = "old"]
    /\ UNCHANGED request /\ ApiUnchanged

-----------------------------------------------------------------------------
HandlerStep(r) ==
    \/ VerifySelect(r) \/ ExpirySelect(r) \/ MarkExpiring(r)
    \/ ReconcileTracked(r) \/ ReconcileProtected(r)
    \/ ExpireSelect(r) \/ OrphanSelect(r) \/ HandlerDies(r)
    \/ \E b \in Blob :
           \/ VerifyBlob(r, b) \/ TrackBlob(r, b) \/ ResolveExpiry(r, b)
           \/ ProtectBlob(r, b) \/ UnprotectBlob(r, b)
           \/ ExpireBlob(r, b) \/ OrphanArchive(r, b)

QueueStep(b) ==
    \/ RenewStart(b) \/ RenewFail(b) \/ RenewCommit(b)
    \/ RenewMark(b) \/ TransitionRenewedBlob(b)

ApiStep(q) ==
    \/ \E b \in Blob :
           \/ \E to \in Status : PatchRead(q, b, to)
           \/ PatchWrite(q, b) \/ DeleteRead(q, b) \/ DeleteWrite(q, b)
           \/ BulkItem(q, b)
    \/ \E to \in BulkActionToTransition : BulkRead(q, to)

Next ==
    \/ \E r \in Runner : HandlerStep(r)
    \/ \E b \in Blob : \/ QueueStep(b) \/ RenewCrash(b) \/ CreateBlob(b)
                       \/ PatchExpiry(b) \/ EditPolicy(b) \/ AgeDeletion(b)
    \/ \E q \in Request : ApiStep(q)
    \/ RunCleanup \/ AdvanceEpoch

Spec == Init /\ [][Next]_vars

(* Fairness: the queue goes on with a job it has started, and a funded     *)
(* vault becomes due again and gets a new job.  An attempt on chain may    *)
(* fail any number of times, not every time for ever.                      *)
FairSpec ==
    /\ Spec
    /\ \A b \in Blob : WF_vars(QueueStep(b)) /\ SF_vars(RenewCommit(b))

-----------------------------------------------------------------------------
(* A status changes along the table of the blob machine, or from tracked   *)
(* to expiring as expiry_check does, unless the writer acts on a stale     *)
(* read: an API request whose row has changed since it was validated, or   *)
(* an orphan check whose row was deleted after its SELECT.  The guards of  *)
(* the handlers and of the queue (AND status = ...) keep every other step  *)
(* on the table, whatever interleaves with it.                             *)
IllegalMovesAreStale ==
    [][\A b \in Blob :
          LET old == row[b].status
              new == row'[b].status
          IN  (/\ old # new /\ NoRow \notin {old, new}
               /\ <<old, new>> \notin Automatic \cup Manual
               /\ <<old, new>> # <<"tracked", "expiring">>)
              => \/ \E q \in Request : /\ b \in request[q].todo \ request'[q].todo
                                       /\ request[q].seen[b] # old
                 \/ \E r \in Runner : /\ run[r].task = "orphan"
                                      /\ b \in run[r].todo \ run'[r].todo
                                      /\ old = "deleted"]_vars

(* Cleanup looks at deleted_at alone: a deleted row carries it, so that it *)
(* goes in the end, and a row that carries it is deleted still, unless a   *)
(* later write has put another status over the deletion; that row is       *)
(* removed while it is in use.  (With the types of the rows and of the     *)
(* requests under way.)                                                    *)
StampedWasDeleted ==
    /\ TypeOK
    /\ \A b \in Blob :
         /\ row[b].status = "deleted" => row[b].deletedAt # "null"
         /\ row[b].deletedAt # "null" => row[b].status = "deleted" \/ row[b].revived

(* A row does not stay renewing or renewed: a crash after the transaction  *)
(* has committed leaves it there, and the next renewal of the vault takes  *)
(* it on (keeper/src/index.ts:571 and 476 are guarded by the status only). *)
RenewalSettles ==
    \A b \in Blob :
        row[b].status \in {"renewing", "renewed"} ~>
            row[b].status \notin {"renewing", "renewed"}
=============================================================================
