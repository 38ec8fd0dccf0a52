------------------------------ MODULE Tenancy ------------------------------
(***************************************************************************)
(* An organization, its members, one of its projects and its invitations,  *)
(* under the requests of routes/orgs.ts, projects.ts and invitations.ts.   *)
(* A request is a row of awaits: requireOrg's two reads (requireProjectOrg *)
(* reads another column), the handler's reads, and a write by id that no   *)
(* longer looks at what was read.  Requests interleave at every await, the *)
(* API process may crash, and cleanup-jobs.ts removes rows by their        *)
(* deleted_at alone.                                                       *)
(*                                                                         *)
(* Abstractions: a name, slug or description is not kept, so PATCH on an   *)
(* organization or a project is not here; viewer stands for no role of its *)
(* own (every guard here treats it as member); the SELECT that looks for   *)
(* an existing member before the INSERT is left to the primary key it      *)
(* anticipates.  DELETE /invitations/:id and the api-key routes with an    *)
(* :id never get past requireOrg (see Gateway), so an invitation is never  *)
(* cancelled.  A new organization, or the project that is followed here,   *)
(* is created when no request for the one before it is left.               *)
(***************************************************************************)
EXTENDS Integers, Sequences, FiniteSets

CONSTANTS Users, Slots,
          Invitations,  \* the tokens an organization may give out
          Workloads     \* the sets of operations that clients use together

VARIABLES org,        \* the organizations row; "none" when there is no row
          member,     \* org_members: each user's role
          project,    \* the projects row
          invitation, \* the rows; joins: the members it made, up to two;
                      \* split: an accept was overlapped or torn by a crash
          request,    \* what each slot of the API works on
          workload,   \* the operations in use
          stale,      \* rows written by a request that had read another status
          overtaken   \* a request admitted before the suspension wrote org

vars == <<org, member, project, invitation, request, workload, stale,
          overtaken>>

Roles == {"owner", "admin", "member"}
Managers == {"owner", "admin"}
Owners == {u \in Users : member[u] = "owner"}

OrgTransition == {<<"active", "suspended">>, <<"suspended", "active">>,
                  <<"active", "deleted">>, <<"suspended", "deleted">>}
ProjectTransition == {<<"active", "archived">>, <<"archived", "active">>,
                      <<"active", "deleted">>, <<"archived", "deleted">>}

NoOrg == [status |-> "none", suspendedAt |-> FALSE, deletedAt |-> "no"]
NoProject == [status |-> "none", deletedAt |-> "no"]
NoInvitation == [status |-> "none", role |-> "member", expired |-> FALSE,
                 joins |-> 0, split |-> FALSE]
NoInvitations == [i \in Invitations |-> NoInvitation]
NoMembers == [u \in Users |-> "none"]

-----------------------------------------------------------------------------
(* What each operation asks of the caller, awaits and makes of the status. *)

OrgMoves == [delete |-> "deleted", restore |-> "active",
             suspend |-> "suspended", unsuspend |-> "active"]
ProjectMoves == [archiveProject |-> "archived", unarchiveProject |-> "active",
                 deleteProject |-> "deleted", restoreProject |-> "active"]

(* The awaits after the read with which a request begins.                  *)
Awaits(op) ==
    CASE op = "delete"             -> <<"member", "row", "owners", "write">>
      [] op \in (DOMAIN OrgMoves \ {"delete"}) \cup DOMAIN ProjectMoves
                                   -> <<"member", "row", "write">>
      [] op \in {"role", "remove"} -> <<"member", "owners", "write">>
      [] op = "accept"             -> <<"insert", "write">>
      [] OTHER                     -> <<"member", "write">>

Demanded(op) == IF op \in DOMAIN OrgMoves THEN {"owner"} ELSE Managers

(* The bodies the schemas let through.                                     *)
RowInputs ==
    {[op |-> op, by |-> u, on |-> u, to |-> "none"] : u \in Users,
        op \in DOMAIN OrgMoves \cup DOMAIN ProjectMoves \cup {"createProject"}}
MemberInputs ==
    [op : {"add"}, by : Users, on : Users, to : Roles \ {"owner"}]
    \cup [op : {"role"}, by : Users, on : Users, to : Roles]
    \cup [op : {"remove"}, by : Users, on : Users, to : {"none"}]
InvitationInputs ==
    {[op |-> "invite", by |-> u, on |-> u, to |-> role] :
        u \in Users, role \in Roles}
    \cup [op : {"accept"}, by : Users, on : Invitations, to : {"none"}]
Inputs == RowInputs \cup MemberInputs \cup InvitationInputs

Free == [op |-> "free"]
Busy == {s \in Slots : request[s] # Free}
At(s, stage) == request[s] # Free /\ Head(request[s].left) = stage

Begin(s, input) ==
    /\ request[s] = Free /\ input.op \in workload
    /\ request' = [request EXCEPT ![s] =
                     [op |-> input.op, by |-> input.by, on |-> input.on,
                      to |-> input.to, left |-> Awaits(input.op),
                      saw |-> "none", counted |-> {}, late |-> FALSE]]
    /\ UNCHANGED <<org, member, project, workload, stale, overtaken>>

(* The next await of the request in slot s, with what this one read; or    *)
(* the answer, whatever it is.                                             *)
Onward(read) == [read EXCEPT !.left = Tail(read.left)]
Step(s, ok, read) ==
    /\ request' = [request EXCEPT ![s] = IF ok THEN Onward(read) ELSE Free]
    /\ UNCHANGED <<org, member, project, invitation, workload, stale, overtaken>>

(* requireOrg's first read; only a suspended organization is refused.      *)
(* Variant for SuspensionEndsEarlierRequest: unsuspend is exempt.          *)
AdmitUnsuspend(s, input) ==
    /\ input.op \notin DOMAIN ProjectMoves \cup {"accept"}
    /\ org.status # "none"
    /\ org.status = "suspended" => input.op = "unsuspend"
    /\ Begin(s, input) /\ UNCHANGED invitation
AdmitOrg(s, input) ==
    /\ input.op \notin DOMAIN ProjectMoves \cup {"accept"}
    /\ org.status \notin {"none", "suspended"}
    /\ Begin(s, input) /\ UNCHANGED invitation

(* requireProjectOrg's first read is of suspended_at.                      *)
AdmitByMark(s, input) ==
    /\ input.op \in DOMAIN ProjectMoves
    /\ org.status # "none" /\ ~org.suspendedAt
    /\ Begin(s, input) /\ UNCHANGED invitation

(* The membership and requireRole; an owner is made by owners only.        *)
AdmitMember(s) ==
    /\ At(s, "member")
    /\ LET r == request[s]
       IN Step(s, /\ member[r.by] \in Demanded(r.op)
                  /\ r.op = "role" /\ r.to = "owner" => r.by \in Owners, r)

(* The row and validateTransition; restoring a project compares itself.    *)
MayMove(op, status) ==
    CASE op = "restoreProject"      -> status = "deleted"
      [] op \in DOMAIN ProjectMoves \ {"restoreProject"} ->
            <<status, ProjectMoves[op]>> \in ProjectTransition
      [] OTHER -> <<status, OrgMoves[op]>> \in OrgTransition
ReadRow(s) ==
    /\ At(s, "row")
    /\ LET r == request[s]
           row == IF r.op \in DOMAIN OrgMoves THEN org ELSE project
       IN Step(s, MayMove(r.op, row.status), [r EXCEPT !.saw = row.status])

(* The owners: a deletion needs two, the last one is neither demoted nor   *)
(* removed, and without any the handler throws.                            *)
(* Variant for LastOwnerGoesByStaleCount: any owner who stays will do.     *)
MayLoseAny(r) == Owners # {} /\ (r.op = "delete" => Cardinality(Owners) > 1)
MayLose(r) ==
    IF r.op = "delete" THEN Cardinality(Owners) > 1
    ELSE r.to = "owner" \/ (Owners # {} /\ Owners # {r.on})
CountOwners(s) ==
    /\ At(s, "owners")
    /\ Step(s, MayLose(request[s]), [request[s] EXCEPT !.counted = Owners])

-----------------------------------------------------------------------------
(* The writes, by id.  `late' marks what a suspension finds admitted.      *)

Answered(s) == [request EXCEPT ![s] = Free]
Overtake(s) ==
    [t \in Slots |->
       IF t = s THEN Free
       ELSE IF request[t] # Free THEN [request[t] EXCEPT !.late = TRUE]
       ELSE Free]

(* Variant for OrgGatesAgree: a suspension leaves suspended_at alone.      *)
MovedUnmarked(op) ==
    [status |-> OrgMoves[op],
     suspendedAt |-> IF op = "unsuspend" THEN FALSE ELSE org.suspendedAt,
     deletedAt |-> CASE op = "delete" -> "recent" [] op = "restore" -> "no"
                     [] OTHER -> org.deletedAt]
Moved(op) ==
    [status |-> OrgMoves[op],
     suspendedAt |-> CASE op = "suspend" -> TRUE [] op = "unsuspend" -> FALSE
                       [] OTHER -> org.suspendedAt,
     deletedAt |-> CASE op = "delete" -> "recent" [] op = "restore" -> "no"
                     [] OTHER -> org.deletedAt]
WriteOrg(s) ==
    /\ At(s, "write") /\ request[s].op \in DOMAIN OrgMoves
    /\ LET r == request[s]
       IN IF org.status = "none"
          THEN request' = Answered(s) /\ UNCHANGED <<org, stale, overtaken>>
          ELSE /\ org' = Moved(r.op)
               /\ stale' = IF org.status # r.saw THEN stale \cup {"org"}
                           ELSE stale
               /\ overtaken' = (overtaken \/ r.late)
               /\ request' = IF r.op = "suspend" THEN Overtake(s)
                             ELSE Answered(s)
    /\ UNCHANGED <<workload, member, project, invitation>>

(* Variant for CleanupSparesTheLiving: restoring keeps deleted_at.         *)
MovedStamped(op) ==
    [status |-> ProjectMoves[op],
     deletedAt |-> IF op = "deleteProject" THEN "recent" ELSE project.deletedAt]
MovedProject(op) ==
    [status |-> ProjectMoves[op],
     deletedAt |-> CASE op = "deleteProject" -> "recent"
                     [] op = "restoreProject" -> "no"
                     [] OTHER -> project.deletedAt]
WriteProject(s) ==
    /\ At(s, "write") /\ request[s].op \in DOMAIN ProjectMoves
    /\ IF project.status = "none" THEN UNCHANGED <<project, stale>>
       ELSE /\ project' = MovedProject(request[s].op)
            /\ stale' = IF project.status # request[s].saw
                        THEN stale \cup {"project"} ELSE stale
    /\ request' = Answered(s)
    /\ UNCHANGED <<workload, org, member, invitation, overtaken>>

CreateProject(s) ==
    /\ At(s, "write") /\ request[s].op = "createProject"
    /\ project' = IF /\ project.status = "none" /\ org.status # "none"
                     /\ \A t \in Busy : request[t].op \notin DOMAIN ProjectMoves
                  THEN [status |-> "active", deletedAt |-> "no"] ELSE project
    /\ request' = Answered(s)
    /\ UNCHANGED <<workload, org, member, invitation, stale, overtaken>>

WriteMember(s) ==
    /\ At(s, "write") /\ request[s].op \in {"add", "role", "remove"}
    /\ LET r == request[s]
           present == member[r.on] # "none"
       IN member' = IF /\ org.status # "none"
                       /\ IF r.op = "add" THEN ~present ELSE present
                    THEN [member EXCEPT ![r.on] = r.to] ELSE member
    /\ request' = Answered(s)
    /\ UNCHANGED <<workload, org, project, invitation, stale, overtaken>>

(* The token is a new one, while there is one to give.                     *)
Invite(s) ==
    /\ At(s, "write") /\ request[s].op = "invite"
    /\ \/ /\ org.status # "none"
          /\ \E i \in Invitations :
                /\ invitation[i].status = "none"
                /\ invitation' =
                      [invitation EXCEPT ![i] =
                         [NoInvitation EXCEPT !.status = "pending",
                                              !.role = request[s].to]]
       \/ /\ \/ org.status = "none"
             \/ \A i \in Invitations : invitation[i].status # "none"
          /\ UNCHANGED invitation
    /\ request' = Answered(s)
    /\ UNCHANGED <<workload, org, member, project, stale, overtaken>>

(* POST /invitations/accept, which asks for no organization: read, join    *)
(* unless already a member, and mark the invitation, in three statements.  *)
Accepting(i) == {s \in Busy : request[s].op = "accept" /\ request[s].on = i}
(* Variant for InvitationUsedOnce: the status is not compared.             *)
ReadAnyInvitation(s, input) ==
    /\ input.op = "accept"
    /\ invitation[input.on].status # "none" /\ ~invitation[input.on].expired
    /\ Begin(s, input) /\ UNCHANGED invitation
ReadInvitation(s, input) ==
    /\ input.op = "accept"
    /\ LET invite == invitation[input.on]
       IN /\ invite.status = "pending" /\ ~invite.expired
          /\ invitation' = [invitation EXCEPT ![input.on] =
                [invite EXCEPT !.split = \/ invite.split
                                          \/ Accepting(input.on) # {}]]
    /\ Begin(s, input)
Join(s) ==
    /\ At(s, "insert")
    /\ LET r == request[s]
           invite == invitation[r.on]
           joining == org.status # "none" /\ member[r.by] = "none"
       IN /\ member' = IF joining THEN [member EXCEPT ![r.by] = invite.role]
                       ELSE member
          /\ invitation' = IF joining /\ invite.joins < 2
                           THEN [invitation EXCEPT ![r.on] =
                                   [invite EXCEPT !.joins = invite.joins + 1]]
                           ELSE invitation
          /\ request' = [request EXCEPT ![s] =
                            IF org.status = "none" THEN Free ELSE Onward(r)]
    /\ UNCHANGED <<workload, org, project, stale, overtaken>>
MarkAccepted(s) ==
    /\ At(s, "write") /\ request[s].op = "accept"
    /\ LET r == request[s]
           invite == invitation[r.on]
       IN invitation' = IF invite.status = "none" THEN invitation
                        ELSE [invitation EXCEPT ![r.on] =
                                [invite EXCEPT !.status = "accepted"]]
    /\ request' = Answered(s)
    /\ UNCHANGED <<workload, org, member, project, stale, overtaken>>

-----------------------------------------------------------------------------
CreateOrg(u) ==
    /\ org.status = "none" /\ Busy = {}
    /\ org' = [status |-> "active", suspendedAt |-> FALSE, deletedAt |-> "no"]
    /\ member' = [NoMembers EXCEPT ![u] = "owner"]
    /\ UNCHANGED <<workload, project, invitation, request, stale, overtaken>>

ExpireInvitation(i) ==
    /\ invitation[i].status = "pending" /\ ~invitation[i].expired
    /\ invitation' = [invitation EXCEPT ![i] =
                         [invitation[i] EXCEPT !.expired = TRUE]]
    /\ UNCHANGED <<workload, org, member, project, request, stale, overtaken>>

Crash ==
    /\ Busy # {}
    /\ request' = [s \in Slots |-> Free]
    /\ invitation' =
         [i \in Invitations |->
            [invitation[i] EXCEPT
               !.split = @ \/ /\ invitation[i].status # "none"
                              /\ \E s \in Accepting(i) : At(s, "write")]]
    /\ UNCHANGED <<workload, org, member, project, stale, overtaken>>

(* GRACE_PERIOD_DAYS pass, which no request outlives.                      *)
Old(stamp) == IF stamp = "recent" THEN "old" ELSE stamp
GracePeriod ==
    /\ Busy = {} /\ "recent" \in {org.deletedAt, project.deletedAt}
    /\ org' = [org EXCEPT !.deletedAt = Old(@)]
    /\ project' = [project EXCEPT !.deletedAt = Old(@)]
    /\ UNCHANGED <<workload, member, invitation, request, stale, overtaken>>

(* runCleanup; removing the organization cascades.                         *)
CleanupProject ==
    /\ project.deletedAt = "old"
    /\ project' = NoProject /\ stale' = stale \ {"project"}
    /\ UNCHANGED <<workload, org, member, invitation, request, overtaken>>

CleanupOrg ==
    /\ org.deletedAt = "old"
    /\ org' = NoOrg /\ member' = NoMembers /\ project' = NoProject
    /\ invitation' = NoInvitations /\ stale' = {} /\ overtaken' = FALSE
    /\ UNCHANGED <<request, workload>>

-----------------------------------------------------------------------------
Init ==
    /\ org = NoOrg /\ member = NoMembers /\ project = NoProject
    /\ invitation = NoInvitations /\ request = [s \in Slots |-> Free]
    /\ workload \in Workloads /\ stale = {} /\ overtaken = FALSE

Next ==
    \/ \E u \in Users : CreateOrg(u)
    \/ \E s \in Slots, input \in Inputs :
          AdmitOrg(s, input) \/ AdmitByMark(s, input) \/ ReadInvitation(s, input)
    \/ \E s \in Slots :
          \/ AdmitMember(s)
          \/ ReadRow(s) \/ CountOwners(s)
          \/ WriteOrg(s) \/ WriteProject(s) \/ CreateProject(s) \/ WriteMember(s)
          \/ Invite(s) \/ Join(s) \/ MarkAccepted(s)
    \/ \E i \in Invitations : ExpireInvitation(i)
    \/ Crash \/ GracePeriod \/ CleanupProject \/ CleanupOrg

Spec == Init /\ [][Next]_vars

-----------------------------------------------------------------------------
TypeOK ==
    /\ org \in [status : {"none", "active", "suspended", "deleted"},
                suspendedAt : BOOLEAN, deletedAt : {"no", "recent", "old"}]
    /\ project \in [status : {"none", "active", "archived", "deleted"},
                    deletedAt : {"no", "recent", "old"}]
    /\ member \in [Users -> Roles \cup {"none"}]
    /\ invitation \in [Invitations ->
                         [status : {"none", "pending", "accepted"},
                          role : Roles, expired : BOOLEAN, joins : 0 .. 2,
                          split : BOOLEAN]]
    /\ \A s \in Busy : request[s].left # <<>> /\ request[s].by \in Users
    /\ org.status = "none" =>
          /\ member = NoMembers /\ project = NoProject
          /\ invitation = NoInvitations

(* orgs.ts keeps a last owner ("Cannot demote the last owner"): the last    *)
(* one goes only by a request that counted owners who have since changed.  *)
LastOwnerGoesByStaleCount ==
    [][Owners # {} /\ Owners' = {} /\ org'.status # "none" =>
          \E s \in Slots : /\ At(s, "write") /\ request'[s] = Free
                           /\ request[s].counted # Owners]_vars

(* A suspended organization is left by a request that requireOrg let in     *)
(* before the suspension and by no other, unsuspend included.              *)
SuspensionEndsEarlierRequest ==
    [][org.status = "suspended" /\ org'.status \notin {"suspended", "none"} =>
          \E s \in Slots : /\ At(s, "write") /\ request'[s] = Free
                           /\ request[s].late]_vars

(* The two gates, status (requireOrg) and suspended_at (requireProjectOrg),  *)
(* agree unless such a request wrote the row.  (With the types.)           *)
OrgGatesAgree ==
    TypeOK /\ (overtaken \/ (org.suspendedAt <=> org.status = "suspended"))

(* cleanup-jobs.ts looks at deleted_at only: what it removes is deleted,    *)
(* unless a request wrote over a status it had not read.                   *)
CleanupSparesTheLiving ==
    /\ org.deletedAt = "old" => org.status = "deleted" \/ "org" \in stale
    /\ project.deletedAt = "old" =>
          project.status = "deleted" \/ "project" \in stale

(* invitations.ts: an invitation makes one member, unless two accepts       *)
(* overlapped or a crash came between joining and marking.                 *)
InvitationUsedOnce ==
    \A i \in Invitations : invitation[i].joins > 1 => invitation[i].split
=============================================================================
