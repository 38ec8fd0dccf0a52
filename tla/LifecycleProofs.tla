-------------------------- MODULE LifecycleProofs --------------------------
(***************************************************************************)
(* Proofs about the life of a blob's row, for any number of blobs, handler *)
(* executions and API requests and any expiries and thresholds.            *)
(*                                                                         *)
(* Everything about a row follows from one lemma, RowStep: whatever step   *)
(* is taken, a row is left alone, moved along the table by a guarded       *)
(* UPDATE, written by a request, archived as an orphan, created, removed,  *)
(* or changed in a column that is not its status.                          *)
(***************************************************************************)
EXTENDS BlobLifecycle, TLAPS

USE LifecycleAssumption

-----------------------------------------------------------------------------
(* What can become of a row in one step.                                   *)

(* The moves of the UPDATEs that name the status they expect. *)
GuardedMoves ==
    {<<"discovered", "verified">>, <<"verified", "tracked">>,
     <<"tracked", "protected">>, <<"protected", "tracked">>,
     <<"tracked", "expiring">>, <<"protected", "expiring">>,
     <<"expiring", "expired">>, <<"expiring", "renewing">>,
     <<"renewing", "expiring">>, <<"renewing", "renewed">>,
     <<"renewed", "protected">>, <<"renewed", "tracked">>}

MovesGuarded(b) ==
    \E m \in GuardedMoves :
        /\ row[b].status = m[1]
        /\ row'[b] = [row[b] EXCEPT !.status = m[2]]

(* An UPDATE by id alone: the deletion it may undo is remembered. *)
Overwritten(r, to) ==
    [status |-> to, deletedAt |-> r.deletedAt, expiry |-> r.expiry,
     revived |-> r.revived \/ (r.status = "deleted" /\ to # "deleted")]

Stamped(r, to) ==
    [Overwritten(r, to) EXCEPT !.deletedAt = IF to = "deleted" THEN "recent" ELSE @]

(* A request writes what it validated against the status it had read. *)
WrittenByRequest(b) ==
    \E q \in Request, to \in Status :
        /\ b \in request[q].todo \ request'[q].todo
        /\ row[b].status # NoRow
        /\ row'[b] = Stamped(row[b], to)
        /\ request[q].seen[b] = row[b].status => ValidTransition(row[b].status, to)

ArchivedAsOrphan(b) ==
    \E r \in Runner :
        /\ run[r].task = "orphan" /\ b \in run[r].todo \ run'[r].todo
        /\ row[b].status \notin {"archived", NoRow}
        /\ row'[b] = Overwritten(row[b], "archived")

Registered(b) ==
    /\ row[b].status = NoRow
    /\ \E e \in Expiries \cup {NoExpiry} :
           row'[b] = [Absent EXCEPT !.status = "discovered", !.expiry = e]

Removed(b) == row[b].deletedAt = "old" /\ row'[b] = Absent

OtherColumn(b) ==
    \/ \E e \in Expiries : row'[b] = [row[b] EXCEPT !.expiry = e]
    \/ row[b].deletedAt = "recent" /\ row'[b] = [row[b] EXCEPT !.deletedAt = "old"]

RowStep(b) ==
    \/ row'[b] = row[b] \/ MovesGuarded(b) \/ WrittenByRequest(b)
    \/ ArchivedAsOrphan(b) \/ Registered(b) \/ Removed(b) \/ OtherColumn(b)

(* A request that will write its target has validated it against what it   *)
(* read; a bulk request validates when it gets to the row.                 *)
Validated ==
    \A q \in Request : request[q].kind \in {"patch", "delete"} =>
        /\ \A b \in request[q].todo :
               ValidTransition(request[q].seen[b], request[q].target)
        /\ request[q].kind = "delete" => request[q].target = "deleted"

-----------------------------------------------------------------------------
(* Types of what is not a row.                                             *)

OtherTypes ==
    /\ epoch \in 0..MaxEpoch
    /\ covered \subseteq Blob
    /\ run \in [Runner -> Run]
    /\ renewal \in [Blob -> {"idle", "running", "done", "marked"}]
    /\ request \in [Request -> ApiRequest]
    /\ spent \in [edits : 0..MaxPolicyEdits, crashes : 0..MaxCrashes]

(* An execution and a request that do nothing are typed. *)
LEMMA IdleTypes == IdleRun \in Run /\ IdleRequest \in ApiRequest
  BY DEF IdleRun, IdleRequest, Run, ApiRequest, Task, Status, NoRow

(* Continue and Begin keep the executions typed. *)
LEMMA RunTypes ==
    ASSUME run \in [Runner -> Run], NEW r \in Runner,
           NEW todo \in SUBSET Blob, NEW marked \in SUBSET Blob, NEW task \in Task,
           Continue(r, todo, marked) \/ Begin(r, task, todo)
    PROVE  run' \in [Runner -> Run]
  <1>1. CASE Continue(r, todo, marked)
    <2>1. [run[r] EXCEPT !.todo = todo, !.marked = marked] \in Run
      BY DEF Run
    <2> QED BY <1>1, <2>1, IdleTypes DEF Continue
  <1>2. CASE Begin(r, task, todo)
    <2>1. [IdleRun EXCEPT !.task = task, !.todo = todo] \in Run
      BY IdleTypes DEF Run
    <2> QED BY <1>2, <2>1 DEF Begin
  <1> QED BY <1>1, <1>2

(* A request under way with one blob. *)
LEMMA RequestTypes ==
    ASSUME TypeOK, NEW b \in Blob, NEW kind \in {"patch", "delete"}, NEW to \in Status
    PROVE  [kind |-> kind, todo |-> {b}, target |-> to,
            seen |-> [IdleRequest.seen EXCEPT ![b] = StatusOf(b)]] \in ApiRequest
  <1>1. StatusOf(b) \in Status \cup {NoRow}
    BY DEF StatusOf, TypeOK, Row
  <1>2. IdleRequest.seen \in [Blob -> Status \cup {NoRow}]
    BY DEF IdleRequest
  <1> QED BY <1>1, <1>2 DEF ApiRequest

(* Handler executions, the queue, requests and the clock stay typed.       *)
LEMMA NextOtherTypes == TypeOK /\ [Next]_vars => OtherTypes'
  <1> SUFFICES ASSUME TypeOK, [Next]_vars PROVE OtherTypes'
    OBVIOUS
  <1>a. /\ row \in [Blob -> Row] /\ epoch \in 0..MaxEpoch /\ covered \subseteq Blob
        /\ run \in [Runner -> Run]
        /\ renewal \in [Blob -> {"idle", "running", "done", "marked"}]
        /\ request \in [Request -> ApiRequest]
        /\ spent \in [edits : 0..MaxPolicyEdits, crashes : 0..MaxCrashes]
    BY DEF TypeOK
  <1>b. ASSUME run' \in [Runner -> Run], HandlerUnchanged PROVE OtherTypes'
    BY <1>a, <1>b DEF OtherTypes, HandlerUnchanged
  <1>c. ASSUME request' \in [Request -> ApiRequest], ApiUnchanged PROVE OtherTypes'
    BY <1>a, <1>c DEF OtherTypes, ApiUnchanged
  <1>1. ASSUME NEW r \in Runner,
               VerifySelect(r) \/ ExpireSelect(r) \/ OrphanSelect(r)
        PROVE  OtherTypes'
    <2>1. PICK task \in Task, todo \in SUBSET Blob : Begin(r, task, todo)
      <3>1. \A S : Having(S) \in SUBSET Blob
        BY DEF Having
      <3> QED BY <1>1, <3>1 DEF VerifySelect, ExpireSelect, OrphanSelect, Task
    <2>2. run' \in [Runner -> Run]
      BY <2>1, <1>a, RunTypes
    <2> QED BY <1>1, <1>b, <2>2 DEF VerifySelect, ExpireSelect, OrphanSelect
  <1>2. ASSUME NEW r \in Runner, NEW b \in Blob,
               VerifyBlob(r, b) \/ TrackBlob(r, b) \/ UnprotectBlob(r, b)
               \/ ExpireBlob(r, b) \/ OrphanArchive(r, b)
        PROVE  OtherTypes'
    <2>1. run[r].todo \in SUBSET Blob
      BY <1>a DEF Run
    <2>2. PICK todo \in SUBSET Blob, marked \in SUBSET Blob : Continue(r, todo, marked)
      BY <1>2, <2>1 DEF VerifyBlob, TrackBlob, UnprotectBlob, ExpireBlob, OrphanArchive
    <2>3. run' \in [Runner -> Run]
      BY <2>2, <1>a, RunTypes DEF Task
    <2> QED BY <1>2, <1>b, <2>3 DEF VerifyBlob, TrackBlob, UnprotectBlob, ExpireBlob,
                                    OrphanArchive
  <1>3. ASSUME NEW r \in Runner, ExpirySelect(r) PROVE OtherTypes'
    <2> DEFINE candidates == {b \in Having({"tracked", "protected"}) :
                                  row[b].expiry # NoExpiry}
               left == [b \in Blob |-> IF b \in candidates THEN row[b].expiry - epoch ELSE 0]
    <2>1. candidates \in SUBSET Blob
      BY DEF Having
    <2>2. left \in [Blob -> Int]
      <3>1. ASSUME NEW b \in Blob PROVE row[b].expiry \in Int /\ epoch \in Int
        <4>1. row[b] \in Row
          BY <1>a
        <4>2. row[b].expiry \in {-1} \cup Expiries
          BY <4>1 DEF Row, NoExpiry
        <4>3. row[b].expiry \in Int
          <5>1. CASE row[b].expiry = -1
            BY <5>1
          <5>2. CASE row[b].expiry \in Expiries
            <6>1. ASSUME NEW e \in Expiries PROVE e \in Int
              <7>1. e \in Nat
                BY Zenon
              <7> QED BY <7>1
            <6> QED BY <5>2, <6>1
          <5> QED BY <4>2, <5>1, <5>2
        <4>4. epoch \in Int
          BY <1>a
        <4> QED BY <4>3, <4>4
      <3> QED BY <3>1
    <2>3. run' = [run EXCEPT ![r] = [IdleRun EXCEPT !.task = "expiry", !.todo = candidates,
                                                    !.left = left]]
      BY <1>3 DEF ExpirySelect
    <2> HIDE DEF candidates, left
    <2>4. [IdleRun EXCEPT !.task = "expiry", !.todo = candidates, !.left = left] \in Run
      BY <2>1, <2>2, IdleTypes DEF Run, Task
    <2> QED BY <1>a, <1>b, <1>3, <2>3, <2>4 DEF ExpirySelect
  <1>4. ASSUME NEW r \in Runner, NEW b \in Blob, ResolveExpiry(r, b) PROVE OtherTypes'
    <2>1. run[r] \in Run
      BY <1>a
    <2>2. PICK todo \in SUBSET Blob, marked \in SUBSET Blob :
            run' = [run EXCEPT ![r] = [@ EXCEPT !.todo = todo, !.marked = marked]]
      <3>1. PICK resolved \in BOOLEAN :
              run' = [run EXCEPT ![r].todo = @ \ {b},
                         ![r].marked = IF /\ resolved
                                          /\ run[r].left[b] < ThresholdInEpochs(b)
                                       THEN @ \cup {b} ELSE @]
        BY <1>4 DEF ResolveExpiry
      <3> DEFINE marked == IF resolved /\ run[r].left[b] < ThresholdInEpochs(b)
                           THEN run[r].marked \cup {b} ELSE run[r].marked
      <3>2. run[r].todo \ {b} \in SUBSET Blob /\ marked \in SUBSET Blob
        BY <2>1 DEF Run
      <3>3. run' = [run EXCEPT ![r] = [@ EXCEPT !.todo = run[r].todo \ {b},
                                                !.marked = marked]]
        BY <3>1, <1>a, <2>1 DEF Run
      <3> QED BY <3>2, <3>3
    <2>3. [run[r] EXCEPT !.todo = todo, !.marked = marked] \in Run
      BY <2>1, <2>2 DEF Run
    <2>4. run' \in [Runner -> Run]
      BY <2>2, <2>3, <1>a
    <2> QED BY <1>4, <1>b, <2>4 DEF ResolveExpiry
  <1>5. ASSUME NEW r \in Runner, MarkExpiring(r) PROVE OtherTypes'
    <2>1. run' \in [Runner -> Run]
      BY <1>5, <1>a, RunTypes DEF MarkExpiring, Task
    <2> QED BY <1>5, <1>b, <2>1 DEF MarkExpiring
  <1>6. ASSUME NEW r \in Runner,
               ReconcileTracked(r) \/ ReconcileProtected(r)
               \/ \E b \in Blob : ProtectBlob(r, b)
        PROVE  OtherTypes'
    <2>1. \A S : Having(S) \in SUBSET Blob
      BY DEF Having
    <2>2. run[r] \in Run
      BY <1>a
    <2>3. PICK new \in Run : run' = [run EXCEPT ![r] = new]
      <3>1. CASE ReconcileTracked(r)
        <4>1. [IdleRun EXCEPT !.task = "protect", !.todo = Having({"tracked"})] \in Run
          BY <2>1, IdleTypes DEF Run, Task
        <4> QED BY <3>1, <4>1 DEF ReconcileTracked
      <3>2. CASE ReconcileProtected(r)
        <4>1. [run[r] EXCEPT !.task = "unprotect", !.todo = Having({"protected"})] \in Run
          BY <2>1, <2>2 DEF Run, Task
        <4>2. run' = [run EXCEPT ![r] = IF Having({"protected"}) = {} THEN IdleRun
                         ELSE [run[r] EXCEPT !.task = "unprotect",
                                             !.todo = Having({"protected"})]]
          BY <3>2, <1>a DEF ReconcileProtected
        <4> QED BY <4>1, <4>2, IdleTypes
      <3>3. CASE \E b \in Blob : ProtectBlob(r, b)
        <4>1. PICK b \in Blob : run' = [run EXCEPT ![r].todo = @ \ {b}]
          BY <3>3 DEF ProtectBlob
        <4>2. [run[r] EXCEPT !.todo = run[r].todo \ {b}] \in Run
          BY <2>2 DEF Run
        <4>3. run' = [run EXCEPT ![r] = [run[r] EXCEPT !.todo = run[r].todo \ {b}]]
          BY <4>1, <1>a, <2>2 DEF Run
        <4> QED BY <4>2, <4>3
      <3> QED BY <1>6, <3>1, <3>2, <3>3
    <2>4. run' \in [Runner -> Run]
      BY <2>3, <1>a
    <2> QED BY <1>6, <1>b, <2>4 DEF ReconcileTracked, ReconcileProtected, ProtectBlob
  <1>7. ASSUME NEW r \in Runner, HandlerDies(r) PROVE OtherTypes'
    BY <1>7, <1>a, IdleTypes DEF HandlerDies, OtherTypes
  <1>8. ASSUME NEW b \in Blob, QueueStep(b) \/ RenewCrash(b) PROVE OtherTypes'
    BY <1>8, <1>a DEF QueueStep, RenewStart, RenewFail, RenewCommit, RenewMark,
                      TransitionRenewedBlob, RenewCrash, QueueUnchanged, OtherTypes
  <1>9. ASSUME NEW q \in Request, NEW b \in Blob,
               (\E to \in Status : PatchRead(q, b, to)) \/ DeleteRead(q, b)
        PROVE  OtherTypes'
    <2>1. request' \in [Request -> ApiRequest]
      <3>1. "deleted" \in Status
        BY DEF Status
      <3>2. PICK kind \in {"patch", "delete"}, to \in Status :
              request' = [request EXCEPT ![q] =
                            [kind |-> kind, todo |-> {b}, target |-> to,
                             seen |-> [IdleRequest.seen EXCEPT ![b] = StatusOf(b)]]]
        BY <1>9, <3>1 DEF PatchRead, DeleteRead
      <3> QED BY <3>2, <1>a, RequestTypes
    <2> QED BY <1>9, <1>c, <2>1 DEF PatchRead, DeleteRead
  <1>10. ASSUME NEW q \in Request, NEW b \in Blob,
                PatchWrite(q, b) \/ DeleteWrite(q, b) \/ BulkItem(q, b)
         PROVE  OtherTypes'
    <2>1. request[q] \in ApiRequest
      BY <1>a
    <2>2. [request[q] EXCEPT !.todo = request[q].todo \ {b}] \in ApiRequest
      BY <2>1 DEF ApiRequest
    <2>3. \/ request' = [request EXCEPT ![q] = IdleRequest]
          \/ request' = [request EXCEPT ![q] =
                            [request[q] EXCEPT !.todo = request[q].todo \ {b}]]
      BY <1>10, <1>a DEF PatchWrite, DeleteWrite, BulkItem
    <2>4. request' \in [Request -> ApiRequest]
      BY <2>2, <2>3, <1>a, IdleTypes
    <2> QED BY <1>10, <1>c, <2>4 DEF PatchWrite, DeleteWrite, BulkItem
  <1>11. ASSUME NEW q \in Request, NEW to \in BulkActionToTransition, BulkRead(q, to)
         PROVE  OtherTypes'
    <2>1. PICK ids \in SUBSET Having(Status) :
            request' = [request EXCEPT ![q] =
                          [kind |-> "bulk", todo |-> ids, target |-> to,
                           seen |-> [b \in Blob |-> IF b \in ids THEN StatusOf(b)
                                                    ELSE NoRow]]]
      BY <1>11 DEF BulkRead
    <2> DEFINE seen == [b \in Blob |-> IF b \in ids THEN StatusOf(b) ELSE NoRow]
    <2>2. seen \in [Blob -> Status \cup {NoRow}]
      BY <1>a DEF StatusOf, Row
    <2>3. ids \in SUBSET Blob /\ to \in Status
      BY <2>1 DEF Having, BulkActionToTransition, Status
    <2> HIDE DEF seen
    <2>4. [kind |-> "bulk", todo |-> ids, target |-> to, seen |-> seen] \in ApiRequest
      BY <2>2, <2>3 DEF ApiRequest
    <2>5. request' \in [Request -> ApiRequest]
      BY <2>1, <2>4, <1>a DEF seen
    <2> QED BY <1>11, <1>c, <2>5 DEF BulkRead
  <1>12. ASSUME NEW b \in Blob, CreateBlob(b) \/ PatchExpiry(b) \/ AgeDeletion(b)
         PROVE  OtherTypes'
    BY <1>12, <1>a, <1>c DEF CreateBlob, PatchExpiry, AgeDeletion
  <1>13. ASSUME NEW b \in Blob, EditPolicy(b) PROVE OtherTypes'
    BY <1>13, <1>a DEF EditPolicy, OtherTypes
  <1>14. ASSUME RunCleanup PROVE OtherTypes'
    BY <1>14, <1>a DEF RunCleanup, HandlerUnchanged, OtherTypes
  <1>15. ASSUME AdvanceEpoch PROVE OtherTypes'
    BY <1>15, <1>a DEF AdvanceEpoch, OtherTypes
  <1>16. CASE UNCHANGED vars
    BY <1>16, <1>a DEF vars, OtherTypes
  <1> QED
    BY <1>1, <1>2, <1>3, <1>4, <1>5, <1>6, <1>7, <1>8, <1>9, <1>10, <1>11, <1>12, <1>13,
       <1>14, <1>15, <1>16
       DEF Next, HandlerStep, ApiStep

-----------------------------------------------------------------------------
(* The rows: the statements one by one, and then RowStep.                  *)

(* What happened to the rows in a step, all of them. *)
RowsStep ==
    /\ row' = [c \in Blob |-> row'[c]]
    /\ \A c \in Blob : RowStep(c)

(* A guarded UPDATE moves its row or leaves it. *)
LEMMA MovedStep ==
    ASSUME row \in [Blob -> Row], NEW b \in Blob, NEW from, NEW to,
           <<from, to>> \in GuardedMoves, row' = Moved(b, from, to)
    PROVE  RowsStep
  <1>1. row' = [c \in Blob |-> row'[c]]
    BY DEF Moved
  <1>2. ASSUME NEW c \in Blob PROVE RowStep(c)
    <2>1. CASE c # b
      BY <2>1 DEF Moved, RowStep
    <2>2. CASE c = b /\ row[b].status = from
      <3>1. row'[b] = [row[b] EXCEPT !.status = to]
        BY <2>2 DEF Moved
      <3>2. <<from, to>>[1] = from /\ <<from, to>>[2] = to
        OBVIOUS
      <3>3. MovesGuarded(b)
        BY <2>2, <3>1, <3>2, Zenon DEF MovesGuarded
      <3> QED BY <2>2, <3>3 DEF RowStep
    <2>3. CASE c = b /\ row[b].status # from
      <3>1. row[b] \in Row
        OBVIOUS
      <3>2. row'[b] = [row[b] EXCEPT !.status = row[b].status]
        BY <2>3 DEF Moved
      <3>3. row'[b] = row[b]
        BY <3>1, <3>2 DEF Row
      <3> QED BY <2>3, <3>3 DEF RowStep
    <2> QED BY <2>1, <2>2, <2>3
  <1> QED BY <1>1, <1>2 DEF RowsStep

(* An UPDATE by id alone overwrites its row; with the timestamp of its     *)
(* status it also stamps a deletion.                                       *)
LEMMA SetStep ==
    ASSUME row \in [Blob -> Row], NEW b \in Blob, NEW to
    PROVE  /\ Set(b, to) = [row EXCEPT ![b] = Overwritten(row[b], to)]
           /\ row[b].status # NoRow =>
                Written(b, to) = [row EXCEPT ![b] = Stamped(row[b], to)]
  <1>1. row[b] \in Row
    OBVIOUS
  <1>2. Set(b, to) = [row EXCEPT ![b] = Overwritten(row[b], to)]
    <2>1. Set(b, to)[b] =
            [[row[b] EXCEPT !.status = to] EXCEPT
                !.revived = row[b].revived \/ (row[b].status = "deleted" /\ to # "deleted")]
      BY <1>1 DEF Set, StatusOf, Row
    <2>2. Set(b, to)[b] = Overwritten(row[b], to)
      BY <1>1, <2>1 DEF Overwritten, Row
    <2> QED BY <2>2 DEF Set
  <1>3. ASSUME row[b].status # NoRow
        PROVE  Written(b, to) = [row EXCEPT ![b] = Stamped(row[b], to)]
    <2>1. Written(b, to) =
            [Set(b, to) EXCEPT ![b].deletedAt = IF to = "deleted" THEN "recent" ELSE @]
      BY <1>3 DEF Written, StatusOf
    <2> QED BY <1>2, <2>1 DEF Stamped
  <1> QED BY <1>2, <1>3

(* Whatever step is taken, every row does one of the things of RowStep.    *)
LEMMA NextRows == TypeOK /\ Validated /\ [Next]_vars => RowsStep
  <1> SUFFICES ASSUME TypeOK, Validated, [Next]_vars PROVE RowsStep
    OBVIOUS
  <1>a. /\ row \in [Blob -> Row] /\ run \in [Runner -> Run]
        /\ request \in [Request -> ApiRequest]
    BY DEF TypeOK
  <1>b. ASSUME UNCHANGED row PROVE RowsStep
    BY <1>a, <1>b DEF RowsStep, RowStep
  <1>c. ASSUME NEW b \in Blob, NEW new, row' = [row EXCEPT ![b] = new], RowStep(b)
        PROVE  RowsStep
    <2>1. ASSUME NEW c \in Blob PROVE RowStep(c)
      <3>1. CASE c = b
        BY <3>1, <1>c
      <3>2. CASE c # b
        BY <3>2, <1>c, <1>a DEF RowStep
      <3> QED BY <3>1, <3>2
    <2> QED BY <1>c, <1>a, <2>1 DEF RowsStep
  <1>d. ASSUME NEW b \in Blob, NEW q \in Request, NEW to \in Status,
               row' = Written(b, to), b \in request[q].todo, b \notin request'[q].todo,
               request[q].seen[b] = row[b].status => ValidTransition(row[b].status, to)
        PROVE  RowsStep
    <2>1. CASE row[b].status = NoRow
      BY <2>1, <1>b, <1>d DEF Written, StatusOf
    <2>2. CASE row[b].status # NoRow
      <3>1. row' = [row EXCEPT ![b] = Stamped(row[b], to)]
        BY <2>2, <1>a, <1>d, SetStep
      <3>2. row'[b] = Stamped(row[b], to)
        BY <3>1, <1>a
      <3>3. WrittenByRequest(b)
        BY <2>2, <3>2, <1>d, Zenon DEF WrittenByRequest
      <3> QED BY <3>1, <3>3, <1>c DEF RowStep
    <2> QED BY <2>1, <2>2
  <1>1. ASSUME NEW r \in Runner,
               \/ VerifySelect(r) \/ ExpirySelect(r) \/ ReconcileTracked(r)
               \/ ReconcileProtected(r) \/ ExpireSelect(r) \/ OrphanSelect(r)
               \/ HandlerDies(r) \/ \E b \in Blob : ResolveExpiry(r, b)
        PROVE  RowsStep
    BY <1>1, <1>b DEF VerifySelect, ExpirySelect, ReconcileTracked, ReconcileProtected,
                      ExpireSelect, OrphanSelect, HandlerDies, ResolveExpiry
  <1>2. ASSUME NEW r \in Runner, MarkExpiring(r) PROVE RowsStep
    <2>1. row' = [b \in Blob |->
                    IF b \in run[r].marked /\ StatusOf(b) \in {"tracked", "protected"}
                    THEN [row[b] EXCEPT !.status = "expiring"] ELSE row[b]]
      BY <1>2 DEF MarkExpiring
    <2>2. ASSUME NEW c \in Blob PROVE RowStep(c)
      <3>1. CASE ~(c \in run[r].marked /\ StatusOf(c) \in {"tracked", "protected"})
        BY <3>1, <2>1 DEF RowStep
      <3>2. CASE c \in run[r].marked /\ StatusOf(c) \in {"tracked", "protected"}
        <4>1. row'[c] = [row[c] EXCEPT !.status = "expiring"]
          BY <3>2, <2>1
        <4>2. MovesGuarded(c)
          <5>1. PICK m \in GuardedMoves : m[1] = row[c].status /\ m[2] = "expiring"
            BY <3>2 DEF GuardedMoves, StatusOf
          <5> QED BY <5>1, <4>1 DEF MovesGuarded
        <4> QED BY <4>2 DEF RowStep
      <3> QED BY <3>1, <3>2
    <2> QED BY <2>1, <2>2 DEF RowsStep
  <1>3. ASSUME NEW r \in Runner, NEW b \in Blob,
               \/ VerifyBlob(r, b) \/ TrackBlob(r, b) \/ ProtectBlob(r, b)
               \/ UnprotectBlob(r, b) \/ ExpireBlob(r, b)
        PROVE  RowsStep
    <2>1. \/ UNCHANGED row
          \/ row' = Moved(b, "discovered", "verified")
          \/ row' = Moved(b, "verified", "tracked")
          \/ row' = Moved(b, "tracked", "protected")
          \/ row' = Moved(b, "protected", "tracked")
          \/ row' = Moved(b, "expiring", "expired")
      BY <1>3 DEF VerifyBlob, TrackBlob, ProtectBlob, UnprotectBlob, ExpireBlob
    <2>2. \A m \in {<<"discovered", "verified">>, <<"verified", "tracked">>,
                    <<"tracked", "protected">>, <<"protected", "tracked">>,
                    <<"expiring", "expired">>} : m \in GuardedMoves
      BY DEF GuardedMoves
    <2> QED BY <2>1, <2>2, <1>a, <1>b, MovedStep
  <1>4. ASSUME NEW r \in Runner, NEW b \in Blob, OrphanArchive(r, b) PROVE RowsStep
    <2>1. CASE StatusOf(b) \in {"archived", NoRow}
      BY <2>1, <1>4, <1>b DEF OrphanArchive
    <2>2. CASE StatusOf(b) \notin {"archived", NoRow}
      <3>1. row' = [row EXCEPT ![b] = Overwritten(row[b], "archived")]
        BY <2>2, <1>4, <1>a, SetStep DEF OrphanArchive
      <3>2. row'[b] = Overwritten(row[b], "archived")
        BY <3>1, <1>a
      <3>3. b \in run[r].todo \ run'[r].todo /\ run[r].task = "orphan"
        <4>1. run'[r] = IF run[r].todo \ {b} = {} THEN IdleRun
                        ELSE [run[r] EXCEPT !.todo = run[r].todo \ {b}, !.marked = {}]
          BY <1>4, <1>a DEF OrphanArchive, Continue
        <4>2. b \notin run'[r].todo
          BY <4>1, <1>a DEF IdleRun, Run
        <4> QED BY <4>2, <1>4 DEF OrphanArchive
      <3>4. ArchivedAsOrphan(b)
        BY <2>2, <3>2, <3>3 DEF ArchivedAsOrphan, StatusOf
      <3> QED BY <3>1, <3>4, <1>c DEF RowStep
    <2> QED BY <2>1, <2>2
  <1>5. ASSUME NEW b \in Blob, QueueStep(b) \/ RenewCrash(b) PROVE RowsStep
    <2>1. \/ UNCHANGED row
          \/ row' = Moved(b, "expiring", "renewing")
          \/ row' = Moved(b, "renewing", "expiring")
          \/ row' = Moved(b, "renewing", "renewed")
          \/ row' = Moved(b, "renewed", "protected")
          \/ row' = Moved(b, "renewed", "tracked")
      BY <1>5 DEF QueueStep, RenewStart, RenewFail, RenewCommit, RenewMark,
                  TransitionRenewedBlob, RenewCrash
    <2>2. \A m \in {<<"expiring", "renewing">>, <<"renewing", "expiring">>,
                    <<"renewing", "renewed">>, <<"renewed", "protected">>,
                    <<"renewed", "tracked">>} : m \in GuardedMoves
      BY DEF GuardedMoves
    <2> QED BY <2>1, <2>2, <1>a, <1>b, MovedStep
  <1>6. ASSUME NEW q \in Request, NEW b \in Blob, PatchWrite(q, b) \/ DeleteWrite(q, b)
        PROVE  RowsStep
    <2>1. request[q] \in ApiRequest
      BY <1>a
    <2>2. PICK to \in Status : /\ row' = Written(b, to)
                               /\ ValidTransition(request[q].seen[b], to)
      <3>1. CASE PatchWrite(q, b)
        BY <3>1, <2>1 DEF PatchWrite, Validated, ApiRequest
      <3>2. CASE DeleteWrite(q, b)
        <4>1. /\ request[q].target = "deleted"
              /\ ValidTransition(request[q].seen[b], request[q].target)
          BY <3>2 DEF DeleteWrite, Validated
        <4> QED BY <3>2, <4>1 DEF DeleteWrite, Status
      <3> QED BY <1>6, <3>1, <3>2
    <2>3. b \in request[q].todo /\ request'[q] = IdleRequest
      BY <1>6, <1>a DEF PatchWrite, DeleteWrite
    <2>4. b \notin request'[q].todo
      BY <2>3 DEF IdleRequest
    <2>5. request[q].seen[b] = row[b].status => ValidTransition(row[b].status, to)
      BY <2>2
    <2> QED BY <2>2, <2>3, <2>4, <2>5, <1>d
  <1>7. ASSUME NEW q \in Request, NEW b \in Blob, BulkItem(q, b) PROVE RowsStep
    <2>1. request[q] \in ApiRequest
      BY <1>a
    <2>2. CASE ~ValidTransition(request[q].seen[b], request[q].target)
      BY <2>2, <1>7, <1>b DEF BulkItem
    <2>3. CASE ValidTransition(request[q].seen[b], request[q].target)
      <3>1. row' = Written(b, request[q].target)
        BY <2>3, <1>7 DEF BulkItem
      <3>2. request[q].target \in Status
        BY <2>1 DEF ApiRequest
      <3>3. b \in request[q].todo
        BY <1>7 DEF BulkItem
      <3>4. request'[q] = IF request[q].todo = {b} THEN IdleRequest
                          ELSE [request[q] EXCEPT !.todo = request[q].todo \ {b}]
        BY <1>7, <1>a DEF BulkItem
      <3>5. b \notin request'[q].todo
        BY <3>4, <2>1 DEF IdleRequest, ApiRequest
      <3>6. request[q].seen[b] = row[b].status =>
              ValidTransition(row[b].status, request[q].target)
        BY <2>3
      <3> QED BY <3>1, <3>2, <3>3, <3>5, <3>6, <1>d
    <2> QED BY <2>2, <2>3
  <1>8. ASSUME NEW q \in Request,
               \/ \E b \in Blob : DeleteRead(q, b) \/ \E to \in Status : PatchRead(q, b, to)
               \/ \E to \in BulkActionToTransition : BulkRead(q, to)
        PROVE  RowsStep
    BY <1>8, <1>b DEF DeleteRead, PatchRead, BulkRead
  <1>9. ASSUME NEW b \in Blob, CreateBlob(b) PROVE RowsStep
    <2>1. PICK e \in Expiries \cup {NoExpiry} :
            row' = [row EXCEPT ![b] = [Absent EXCEPT !.status = "discovered", !.expiry = e]]
      BY <1>9 DEF CreateBlob
    <2>2. row'[b] = [Absent EXCEPT !.status = "discovered", !.expiry = e]
      BY <2>1, <1>a
    <2>3. Registered(b)
      BY <1>9, <2>2 DEF CreateBlob, Registered, StatusOf
    <2> QED BY <2>1, <2>3, <1>c DEF RowStep
  <1>10. ASSUME NEW b \in Blob, PatchExpiry(b) \/ AgeDeletion(b) PROVE RowsStep
    <2>1. CASE PatchExpiry(b)
      <3>1. PICK e \in Expiries : row' = [row EXCEPT ![b].expiry = e]
        BY <2>1 DEF PatchExpiry
      <3>2. row' = [row EXCEPT ![b] = [row[b] EXCEPT !.expiry = e]]
        BY <3>1
      <3>3. row'[b] = [row[b] EXCEPT !.expiry = e]
        BY <3>1, <1>a
      <3>4. OtherColumn(b)
        BY <3>3, Zenon DEF OtherColumn
      <3> QED BY <3>2, <3>4, <1>c DEF RowStep
    <2>2. CASE AgeDeletion(b)
      <3>1. row' = [row EXCEPT ![b] = [row[b] EXCEPT !.deletedAt = "old"]]
        BY <2>2 DEF AgeDeletion
      <3>2. row'[b] = [row[b] EXCEPT !.deletedAt = "old"]
        BY <3>1, <1>a
      <3>3. OtherColumn(b)
        BY <3>2, <2>2 DEF OtherColumn, AgeDeletion
      <3> QED BY <3>1, <3>3, <1>c DEF RowStep
    <2> QED BY <1>10, <2>1, <2>2
  <1>11. ASSUME RunCleanup PROVE RowsStep
    <2>1. row' = [b \in Blob |-> IF row[b].deletedAt = "old" THEN Absent ELSE row[b]]
      BY <1>11 DEF RunCleanup
    <2> QED BY <2>1 DEF RowsStep, RowStep, Removed
  <1>12. ASSUME AdvanceEpoch \/ \E b \in Blob : EditPolicy(b) PROVE RowsStep
    BY <1>12, <1>b DEF AdvanceEpoch, EditPolicy
  <1>13. CASE UNCHANGED vars
    BY <1>13, <1>b DEF vars
  <1> QED
    BY <1>1, <1>2, <1>3, <1>4, <1>5, <1>6, <1>7, <1>8, <1>9, <1>10, <1>11, <1>12, <1>13
       DEF Next, HandlerStep, ApiStep

(* A request about to write has validated its target: the reads establish  *)
(* it and the writes end the request.                                      *)
LEMMA ValidatedStep == TypeOK /\ Validated /\ [Next]_vars => Validated'
  <1> SUFFICES ASSUME TypeOK, Validated, [Next]_vars PROVE Validated'
    OBVIOUS
  <1>a. request \in [Request -> ApiRequest]
    BY DEF TypeOK
  <1>b. ASSUME UNCHANGED request PROVE Validated'
    BY <1>b DEF Validated
  <1>c. ASSUME NEW q \in Request, NEW new, request' = [request EXCEPT ![q] = new],
               new.kind \in {"patch", "delete"} =>
                 /\ \A b \in new.todo : ValidTransition(new.seen[b], new.target)
                 /\ new.kind = "delete" => new.target = "deleted"
        PROVE  Validated'
    <2>1. ASSUME NEW p \in Request, request'[p].kind \in {"patch", "delete"}
          PROVE  /\ \A b \in request'[p].todo :
                        ValidTransition(request'[p].seen[b], request'[p].target)
                 /\ request'[p].kind = "delete" => request'[p].target = "deleted"
      <3>1. CASE p = q
        <4>1. request'[p] = new
          BY <3>1, <1>a, <1>c
        <4> QED BY <4>1, <2>1, <1>c
      <3>2. CASE p # q
        <4>1. request'[p] = request[p]
          BY <3>2, <1>a, <1>c
        <4> QED BY <4>1, <2>1 DEF Validated
      <3> QED BY <3>1, <3>2
    <2> QED BY <2>1 DEF Validated
  <1>1. ASSUME NEW q \in Request, NEW b \in Blob,
               DeleteRead(q, b) \/ \E to \in Status : PatchRead(q, b, to)
        PROVE  Validated'
    <2>1. PICK kind \in {"patch", "delete"}, to \in Status :
            /\ request' = [request EXCEPT ![q] =
                            [kind |-> kind, todo |-> {b}, target |-> to,
                             seen |-> [IdleRequest.seen EXCEPT ![b] = StatusOf(b)]]]
            /\ ValidTransition(StatusOf(b), to)
            /\ kind = "delete" => to = "deleted"
      <3>1. "deleted" \in Status
        BY DEF Status
      <3> QED BY <1>1, <3>1 DEF DeleteRead, PatchRead
    <2>2. [IdleRequest.seen EXCEPT ![b] = StatusOf(b)][b] = StatusOf(b)
      BY DEF IdleRequest
    <2> QED BY <2>1, <2>2, <1>c
  <1>2. ASSUME NEW q \in Request, NEW b \in Blob,
               PatchWrite(q, b) \/ DeleteWrite(q, b) \/ BulkItem(q, b)
        PROVE  Validated'
    <2>1. PICK new : /\ request' = [request EXCEPT ![q] = new]
                     /\ new.kind \notin {"patch", "delete"}
      <3>1. CASE PatchWrite(q, b) \/ DeleteWrite(q, b)
        <4>1. request' = [request EXCEPT ![q] = IdleRequest]
          BY <3>1 DEF PatchWrite, DeleteWrite
        <4>2. IdleRequest.kind = "idle"
          BY DEF IdleRequest
        <4> QED BY <4>1, <4>2
      <3>2. CASE BulkItem(q, b)
        <4>1. request[q] \in ApiRequest
          BY <1>a
        <4>2. request' = [request EXCEPT ![q] =
                            IF request[q].todo = {b} THEN IdleRequest
                            ELSE [request[q] EXCEPT !.todo = request[q].todo \ {b}]]
          BY <3>2 DEF BulkItem
        <4>3. request[q].kind = "bulk"
          BY <3>2 DEF BulkItem
        <4>4. [request[q] EXCEPT !.todo = request[q].todo \ {b}].kind = "bulk"
          BY <4>1, <4>3 DEF ApiRequest
        <4>5. IdleRequest.kind = "idle"
          BY DEF IdleRequest
        <4> QED BY <4>2, <4>4, <4>5
      <3> QED BY <1>2, <3>1, <3>2
    <2> QED BY <2>1, <1>c
  <1>3. ASSUME NEW q \in Request, NEW to \in BulkActionToTransition, BulkRead(q, to)
        PROVE  Validated'
    BY <1>3, <1>c DEF BulkRead
  <1>4. CASE \/ \E r \in Runner : HandlerStep(r)
             \/ \E b \in Blob : \/ QueueStep(b) \/ RenewCrash(b) \/ CreateBlob(b)
                                \/ PatchExpiry(b) \/ EditPolicy(b) \/ AgeDeletion(b)
             \/ RunCleanup \/ AdvanceEpoch
    <2>1. ASSUME NEW r \in Runner, HandlerStep(r)
          PROVE  UNCHANGED request
      <3>1. ASSUME \/ VerifySelect(r) \/ ExpirySelect(r) \/ MarkExpiring(r)
                   \/ ReconcileTracked(r) \/ ReconcileProtected(r)
            PROVE  UNCHANGED request
        BY <3>1 DEF VerifySelect, ExpirySelect, MarkExpiring, ReconcileTracked,
             ReconcileProtected, HandlerUnchanged
      <3>2. ASSUME ExpireSelect(r) \/ OrphanSelect(r) \/ HandlerDies(r)
            PROVE  UNCHANGED request
        BY <3>2 DEF ExpireSelect, OrphanSelect, HandlerDies, HandlerUnchanged
      <3>3. ASSUME NEW b \in Blob, VerifyBlob(r, b) \/ TrackBlob(r, b) \/ ResolveExpiry(r, b)
            PROVE  UNCHANGED request
        BY <3>3 DEF VerifyBlob, TrackBlob, ResolveExpiry, HandlerUnchanged
      <3>4. ASSUME NEW b \in Blob, \/ ProtectBlob(r, b) \/ UnprotectBlob(r, b)
                                   \/ ExpireBlob(r, b) \/ OrphanArchive(r, b)
            PROVE  UNCHANGED request
        BY <3>4 DEF ProtectBlob, UnprotectBlob, ExpireBlob, OrphanArchive, HandlerUnchanged
      <3> QED BY <2>1, <3>1, <3>2, <3>3, <3>4 DEF HandlerStep
    <2>2. ASSUME NEW b \in Blob, QueueStep(b) \/ RenewCrash(b)
          PROVE  UNCHANGED request
      BY <2>2 DEF QueueStep, RenewStart, RenewFail, RenewCommit, RenewMark,
           TransitionRenewedBlob, RenewCrash, QueueUnchanged
    <2>3. ASSUME NEW b \in Blob,
                 CreateBlob(b) \/ PatchExpiry(b) \/ EditPolicy(b) \/ AgeDeletion(b)
          PROVE  UNCHANGED request
      BY <2>3 DEF CreateBlob, PatchExpiry, EditPolicy, AgeDeletion
    <2>4. RunCleanup \/ AdvanceEpoch => UNCHANGED request
      BY DEF RunCleanup, AdvanceEpoch, HandlerUnchanged
    <2>5. UNCHANGED request
      <3>1. CASE \E r \in Runner : HandlerStep(r)
        BY <2>1, <3>1
      <3>2. CASE \E b \in Blob : \/ QueueStep(b) \/ RenewCrash(b) \/ CreateBlob(b)
                                \/ PatchExpiry(b) \/ EditPolicy(b) \/ AgeDeletion(b)
        BY <2>2, <2>3, <3>2
      <3> QED BY <1>4, <2>4, <3>1, <3>2
    <2> QED BY <1>b, <2>5
  <1>5. CASE UNCHANGED vars
    BY <1>5, <1>b DEF vars
  <1> QED
    BY <1>1, <1>2, <1>3, <1>4, <1>5 DEF Next, ApiStep

-----------------------------------------------------------------------------
(* The deletions, row by row.                                              *)
DeletionStamped(r) ==
    /\ r.status = "deleted" => r.deletedAt # "null"
    /\ r.deletedAt # "null" => r.status = "deleted" \/ r.revived

(* Each thing that can become of a row keeps its type and its deletion.    *)
LEMMA RowStepKeeps ==
    ASSUME NEW b \in Blob, row[b] \in Row, DeletionStamped(row[b]), RowStep(b)
    PROVE  row'[b] \in Row /\ DeletionStamped(row'[b])
  <1>1. CASE row'[b] = row[b]
    BY <1>1
  <1>2. CASE MovesGuarded(b)
    <2>1. PICK m \in GuardedMoves : /\ row[b].status = m[1]
                                    /\ row'[b] = [row[b] EXCEPT !.status = m[2]]
      BY <1>2 DEF MovesGuarded
    <2>2. m[1] # "deleted" /\ m[2] # "deleted" /\ m[2] \in Status
      BY DEF GuardedMoves, Status
    <2>3. row'[b] \in Row
      BY <2>1, <2>2 DEF Row
    <2>4. /\ row'[b].status = m[2] /\ row'[b].deletedAt = row[b].deletedAt
          /\ row'[b].revived = row[b].revived
      BY <2>1 DEF Row
    <2> QED BY <2>1, <2>2, <2>3, <2>4 DEF DeletionStamped
  <1>3. ASSUME NEW to \in Status, row'[b] = Overwritten(row[b], to), to # "deleted"
        PROVE  row'[b] \in Row /\ DeletionStamped(row'[b])
    <2>1. row'[b] \in Row
      BY <1>3 DEF Overwritten, Row
    <2>2. /\ row'[b].status = to /\ row'[b].deletedAt = row[b].deletedAt
          /\ row'[b].revived = (row[b].revived \/ (row[b].status = "deleted" /\ to # "deleted"))
      BY <1>3 DEF Overwritten
    <2> QED BY <1>3, <2>1, <2>2 DEF DeletionStamped
  <1>4. CASE WrittenByRequest(b)
    <2>1. PICK to \in Status : row'[b] = Stamped(row[b], to)
      BY <1>4 DEF WrittenByRequest
    <2>2. CASE to = "deleted"
      <3>1. Overwritten(row[b], to) \in Row
        BY DEF Overwritten, Row
      <3>2. row'[b] = [Overwritten(row[b], to) EXCEPT !.deletedAt = "recent"]
        BY <2>1, <2>2 DEF Stamped
      <3>3. row'[b] \in Row
        BY <3>1, <3>2 DEF Row
      <3>4. row'[b].status = "deleted" /\ row'[b].deletedAt = "recent"
        BY <3>1, <3>2, <2>2 DEF Row, Overwritten
      <3> QED BY <3>3, <3>4 DEF DeletionStamped
    <2>3. CASE to # "deleted"
      <3>1. Overwritten(row[b], to) \in Row
        BY DEF Overwritten, Row
      <3>2. row'[b] = [Overwritten(row[b], to) EXCEPT !.deletedAt = Overwritten(row[b], to).deletedAt]
        BY <2>1, <2>3 DEF Stamped
      <3>3. row'[b] = Overwritten(row[b], to)
        BY <3>1, <3>2 DEF Row
      <3> QED BY <3>3, <2>3, <1>3
    <2> QED BY <2>2, <2>3
  <1>5. CASE ArchivedAsOrphan(b)
    <2>1. row'[b] = Overwritten(row[b], "archived")
      BY <1>5 DEF ArchivedAsOrphan
    <2> QED BY <2>1, <1>3 DEF Status
  <1>6. CASE Registered(b)
    <2>1. PICK e \in Expiries \cup {NoExpiry} :
            row'[b] = [Absent EXCEPT !.status = "discovered", !.expiry = e]
      BY <1>6 DEF Registered
    <2>2. row'[b] = [status |-> "discovered", deletedAt |-> "null", expiry |-> e,
                     revived |-> FALSE]
      BY <2>1 DEF Absent
    <2> QED BY <2>2 DEF Row, Status, DeletionStamped
  <1>7. CASE Removed(b)
    BY <1>7 DEF Removed, Absent, Row, NoRow, DeletionStamped
  <1>8. CASE OtherColumn(b)
    <2>1. CASE \E e \in Expiries : row'[b] = [row[b] EXCEPT !.expiry = e]
      <3>1. PICK e \in Expiries : row'[b] = [row[b] EXCEPT !.expiry = e]
        BY <2>1
      <3>2. row'[b] \in Row
        BY <3>1 DEF Row
      <3>3. /\ row'[b].status = row[b].status /\ row'[b].deletedAt = row[b].deletedAt
            /\ row'[b].revived = row[b].revived
        BY <3>1 DEF Row
      <3> QED BY <3>2, <3>3 DEF DeletionStamped
    <2>2. CASE row[b].deletedAt = "recent" /\ row'[b] = [row[b] EXCEPT !.deletedAt = "old"]
      <3>1. row'[b] \in Row
        BY <2>2 DEF Row
      <3>2. /\ row'[b].status = row[b].status /\ row'[b].deletedAt = "old"
            /\ row'[b].revived = row[b].revived
        BY <2>2 DEF Row
      <3> QED BY <2>2, <3>1, <3>2 DEF DeletionStamped
    <2> QED BY <1>8, <2>1, <2>2 DEF OtherColumn
  <1> QED BY <1>1, <1>2, <1>4, <1>5, <1>6, <1>7, <1>8 DEF RowStep

(* The inductive invariant.                                                *)
LifecycleInv == StampedWasDeleted /\ Validated

LEMMA InitLifecycle == Init => LifecycleInv
  <1> SUFFICES ASSUME Init PROVE LifecycleInv
    OBVIOUS
  <1>1. Absent \in Row /\ Absent.status = NoRow /\ Absent.deletedAt = "null"
    BY DEF Absent, Row, NoRow
  <1>2. TypeOK
    BY <1>1, IdleTypes DEF Init, TypeOK
  <1>3. Validated
    BY DEF Init, Validated, IdleRequest
  <1>4. \A b \in Blob : row[b] = Absent
    BY DEF Init
  <1>5. NoRow # "deleted"
    BY DEF NoRow
  <1> QED BY <1>1, <1>2, <1>3, <1>4, <1>5 DEF LifecycleInv, StampedWasDeleted

LEMMA StepLifecycle == LifecycleInv /\ [Next]_vars => LifecycleInv'
  <1> SUFFICES ASSUME LifecycleInv, [Next]_vars PROVE LifecycleInv'
    OBVIOUS
  <1>1. TypeOK /\ Validated
    BY DEF LifecycleInv, StampedWasDeleted
  <1>2. RowsStep /\ Validated' /\ OtherTypes'
    BY <1>1, NextRows, ValidatedStep, NextOtherTypes
  <1>3. ASSUME NEW b \in Blob PROVE row'[b] \in Row /\ DeletionStamped(row'[b])
    <2>1. row[b] \in Row /\ DeletionStamped(row[b])
      BY DEF LifecycleInv, StampedWasDeleted, TypeOK, DeletionStamped
    <2> QED BY <2>1, <1>2, RowStepKeeps DEF RowsStep
  <1>4. row' \in [Blob -> Row]
    BY <1>2, <1>3 DEF RowsStep
  <1>5. TypeOK'
    BY <1>2, <1>4 DEF TypeOK, OtherTypes
  <1> QED BY <1>2, <1>3, <1>5 DEF LifecycleInv, StampedWasDeleted, DeletionStamped

(* A deleted row carries deleted_at, and a row that carries it is deleted  *)
(* unless a later write has undone the deletion (api/src/routes/blobs.ts). *)
THEOREM DeletionsStamped == Spec => []StampedWasDeleted
  <1>1. Init => LifecycleInv
    BY InitLifecycle
  <1>2. LifecycleInv /\ [Next]_vars => LifecycleInv'
    BY StepLifecycle
  <1>3. LifecycleInv => StampedWasDeleted
    BY DEF LifecycleInv
  <1> QED BY <1>1, <1>2, <1>3, PTL DEF Spec

(* A move that is not in the table of the blob machine comes from a row    *)
(* that changed between a request's read and its write, or from the orphan *)
(* check of a row deleted after its SELECT; every other step, of every     *)
(* interleaving, keeps to the table or marks a tracked row expiring.       *)
THEOREM OnlyStaleMovesAreIllegal == Spec => IllegalMovesAreStale
  <1> DEFINE Stale(b) ==
        LET old == row[b].status
            new == row'[b].status
        IN  (/\ old # new /\ NoRow \notin {old, new}
             /\ <<old, new>> \notin Automatic \cup Manual
             /\ <<old, new>> # <<"tracked", "expiring">>)
            => \/ \E q \in Request : /\ b \in request[q].todo \ request'[q].todo
                                     /\ request[q].seen[b] # old
               \/ \E r \in Runner : /\ run[r].task = "orphan"
                                    /\ b \in run[r].todo \ run'[r].todo
                                    /\ old = "deleted"
  <1>1. ASSUME LifecycleInv, [Next]_vars PROVE [\A b \in Blob : Stale(b)]_vars
    <2> SUFFICES ASSUME NEW b \in Blob PROVE Stale(b)
      OBVIOUS
    <2>1. row[b] \in Row /\ row'[b] \in Row
      BY <1>1, StepLifecycle DEF LifecycleInv, StampedWasDeleted, TypeOK
    <2>2. RowStep(b)
      BY <1>1, NextRows DEF LifecycleInv, StampedWasDeleted, RowsStep
    <2>3. CASE row'[b] = row[b] \/ OtherColumn(b)
      <3>1. row'[b].status = row[b].status
        BY <2>1, <2>3 DEF OtherColumn, Row
      <3> QED BY <3>1
    <2>4. CASE MovesGuarded(b)
      <3>1. PICK m \in GuardedMoves : /\ row[b].status = m[1]
                                      /\ row'[b] = [row[b] EXCEPT !.status = m[2]]
        BY <2>4 DEF MovesGuarded
      <3>2. row'[b].status = m[2] /\ m = <<m[1], m[2]>>
        BY <2>1, <3>1 DEF Row, GuardedMoves
      <3>3. m \in Automatic \cup Manual \/ m = <<"tracked", "expiring">>
        BY DEF GuardedMoves, Automatic, Manual
      <3> QED BY <3>1, <3>2, <3>3
    <2>5. CASE WrittenByRequest(b)
      <3>1. PICK q \in Request, to \in Status :
              /\ b \in request[q].todo \ request'[q].todo
              /\ row[b].status # NoRow
              /\ row'[b] = Stamped(row[b], to)
              /\ request[q].seen[b] = row[b].status => ValidTransition(row[b].status, to)
        BY <2>5 DEF WrittenByRequest
      <3>2. row'[b].status = to
        BY <3>1 DEF Stamped, Overwritten
      <3> QED BY <3>1, <3>2 DEF ValidTransition
    <2>6. CASE ArchivedAsOrphan(b)
      <3>1. PICK r \in Runner :
              /\ run[r].task = "orphan" /\ b \in run[r].todo \ run'[r].todo
              /\ row[b].status \notin {"archived", NoRow}
              /\ row'[b] = Overwritten(row[b], "archived")
        BY <2>6 DEF ArchivedAsOrphan
      <3>2. row'[b].status = "archived"
        BY <3>1 DEF Overwritten
      <3>3. row[b].status = "deleted" \/ <<row[b].status, "archived">> \in Manual
        BY <2>1, <3>1 DEF Row, Status, Manual
      <3> QED BY <3>1, <3>2, <3>3
    <2>7. CASE Registered(b) \/ Removed(b)
      <3>1. Absent.status = NoRow
        BY DEF Absent
      <3>2. row[b].status = NoRow \/ row'[b].status = NoRow
        BY <2>7, <3>1 DEF Registered, Removed
      <3> QED BY <3>2
    <2> QED BY <2>2, <2>3, <2>4, <2>5, <2>6, <2>7 DEF RowStep
  <1>2. Init => LifecycleInv
    BY InitLifecycle
  <1>3. LifecycleInv /\ [Next]_vars => LifecycleInv'
    BY StepLifecycle
  <1>4. (\A b \in Blob : Stale(b)) <=>
        (\A b \in Blob :
          LET old == row[b].status
              new == row'[b].status
          IN  (/\ old # new /\ NoRow \notin {old, new}
               /\ <<old, new>> \notin Automatic \cup Manual
               /\ <<old, new>> # <<"tracked", "expiring">>)
              => \/ \E q \in Request : /\ b \in request[q].todo \ request'[q].todo
                                       /\ request[q].seen[b] # old
                 \/ \E r \in Runner : /\ run[r].task = "orphan"
                                      /\ b \in run[r].todo \ run'[r].todo
                                      /\ old = "deleted")
    OBVIOUS
  <1> QED BY <1>1, <1>2, <1>3, PTL DEF Spec, IllegalMovesAreStale
=============================================================================
