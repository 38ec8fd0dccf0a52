--------------------------- MODULE TenancyProofs ---------------------------
(***************************************************************************)
(* What holds of Tenancy for any users, slots, invitations and workloads.  *)
(* The heart is Request: what a request that has come so far has read and  *)
(* checked.  Every other invariant relates a row to the requests still on  *)
(* their way to it.                                                        *)
(***************************************************************************)
EXTENDS Tenancy, TLAPS

OrgOp == {"delete", "restore", "suspend", "unsuspend"}
ProjectOp == {"archiveProject", "unarchiveProject", "deleteProject",
              "restoreProject"}
Operation == OrgOp \cup ProjectOp
                 \cup {"accept", "createProject", "add", "role", "remove", "invite"}
Status == {"none", "active", "suspended", "deleted", "archived"}

(* The awaits a request may have ahead of it, and those of each operation. *)
MemberRowOwners == <<"member", "row", "owners", "write">>
RowOwners == <<"row", "owners", "write">>
Owned == <<"owners", "write">>
MemberRow == <<"member", "row", "write">>
Row == <<"row", "write">>
MemberOwners == <<"member", "owners", "write">>
Member == <<"member", "write">>
Insert == <<"insert", "write">>
Write == <<"write">>
Ahead(op) ==
    CASE op = "delete" -> {MemberRowOwners, RowOwners, Owned, Write}
      [] op \in (OrgOp \cup ProjectOp) \ {"delete"} -> {MemberRow, Row, Write}
      [] op \in {"role", "remove"} -> {MemberOwners, Owned, Write}
      [] op = "accept" -> {Insert, Write}
      [] OTHER -> {Member, Write}

(* A request: past its row it has found the move allowed, and past the     *)
(* owners it has counted some that it leaves.                              *)
Request ==
    {r \in [op : Operation, by : Users, on : Users \cup Invitations,
            to : Roles \cup {"none"}, left : UNION {Ahead(op) : op \in Operation},
            saw : Status, counted : SUBSET Users, late : BOOLEAN] :
        /\ r.left \in Ahead(r.op)
        /\ r.op = "accept" => r.on \in Invitations
        /\ r.op = "invite" => r.to \in Roles
        /\ r.op \in OrgOp \cup ProjectOp /\ r.left \in {Owned, Write} =>
              MayMove(r.op, r.saw)
        /\ r.op \in {"role", "remove"} /\ r.left = Write /\ r.to # "owner" =>
              r.counted # {} /\ r.counted # {r.on}}

Requests == request \in [Slots -> {Free} \cup Request]

-----------------------------------------------------------------------------
(* The two tables of moves are defined for the operations they name.       *)
LEMMA Tables ==
    /\ DOMAIN OrgMoves = OrgOp /\ DOMAIN ProjectMoves = ProjectOp
    /\ \A op \in OrgOp : OrgMoves[op] \in {"deleted", "active", "suspended"}
    /\ \A op \in ProjectOp :
          ProjectMoves[op] \in {"archived", "active", "deleted"}
BY DEF OrgMoves, ProjectMoves, OrgOp, ProjectOp

(* What a client may ask for is an operation on a user or an invitation.   *)
LEMMA InputTyped ==
    ASSUME NEW input \in Inputs
    PROVE  /\ input.op \in Operation /\ input.by \in Users
           /\ input.on \in Users \cup Invitations
           /\ input.to \in Roles \cup {"none"}
           /\ input.op = "accept" => input.on \in Invitations
           /\ input.op = "invite" => input.to \in Roles
<1>1. CASE input \in RowInputs
  <2>1. DOMAIN OrgMoves = OrgOp /\ DOMAIN ProjectMoves = ProjectOp
    BY Tables
  <2>2. PICK u \in Users,
             op \in DOMAIN OrgMoves \cup DOMAIN ProjectMoves \cup {"createProject"} :
                input = [op |-> op, by |-> u, on |-> u, to |-> "none"]
    BY <1>1 DEF RowInputs
  <2>3. op \in OrgOp \cup ProjectOp \cup {"createProject"}
    BY <2>1
  <2> QED BY <2>2, <2>3 DEF Operation, OrgOp, ProjectOp
<1>2. CASE input \in MemberInputs
  BY <1>2 DEF MemberInputs, Operation
<1>3. CASE input \in InvitationInputs
  BY <1>3 DEF InvitationInputs, Operation
<1> QED BY <1>1, <1>2, <1>3 DEF Inputs

(* The sequences of awaits, by their first and their rest.                 *)
LEMMA Rests ==
    /\ Head(MemberRowOwners) = "member" /\ Tail(MemberRowOwners) = RowOwners
    /\ Head(RowOwners) = "row" /\ Tail(RowOwners) = Owned
    /\ Head(Owned) = "owners" /\ Tail(Owned) = Write
    /\ Head(MemberRow) = "member" /\ Tail(MemberRow) = Row
    /\ Head(Row) = "row" /\ Tail(Row) = Write
    /\ Head(MemberOwners) = "member" /\ Tail(MemberOwners) = Owned
    /\ Head(Member) = "member" /\ Tail(Member) = Write
    /\ Head(Insert) = "insert" /\ Tail(Insert) = Write
    /\ Head(Write) = "write"
<1>1. Head(MemberRowOwners) = "member" /\ Tail(MemberRowOwners) = RowOwners
  BY DEF MemberRowOwners, RowOwners
<1>2. Head(RowOwners) = "row" /\ Tail(RowOwners) = Owned
  BY DEF RowOwners, Owned
<1>3. Head(Owned) = "owners" /\ Tail(Owned) = Write
  BY DEF Owned, Write
<1>4. Head(MemberRow) = "member" /\ Tail(MemberRow) = Row
  BY DEF MemberRow, Row
<1>5. Head(Row) = "row" /\ Tail(Row) = Write
  BY DEF Row, Write
<1>6. Head(MemberOwners) = "member" /\ Tail(MemberOwners) = Owned
  BY DEF MemberOwners, Owned
<1>7. Head(Member) = "member" /\ Tail(Member) = Write
  BY DEF Member, Write
<1>8. Head(Insert) = "insert" /\ Tail(Insert) = Write
  BY DEF Insert, Write
<1>9. Head(Write) = "write"
  BY DEF Write
<1> QED BY <1>1, <1>2, <1>3, <1>4, <1>5, <1>6, <1>7, <1>8, <1>9

LEMMA NotEmpty ==
    <<>> \notin {MemberRowOwners, RowOwners, Owned, MemberRow, Row, MemberOwners,
                Member, Insert, Write}
BY DEF MemberRowOwners, RowOwners, Owned, MemberRow, Row, MemberOwners, Member,
       Insert, Write

(* What Ahead is for each operation, and that Awaits is its longest path.  *)
LEMMA AheadOf ==
    ASSUME NEW op \in Operation
    PROVE  /\ op = "delete" => Ahead(op) = {MemberRowOwners, RowOwners, Owned, Write}
           /\ op \in (OrgOp \cup ProjectOp) \ {"delete"} =>
                 Ahead(op) = {MemberRow, Row, Write}
           /\ op \in {"role", "remove"} => Ahead(op) = {MemberOwners, Owned, Write}
           /\ op = "accept" => Ahead(op) = {Insert, Write}
           /\ op \in {"createProject", "add", "invite"} => Ahead(op) = {Member, Write}
BY DEF Ahead, OrgOp, ProjectOp

LEMMA AwaitsOf ==
    ASSUME NEW op \in Operation
    PROVE  /\ op = "delete" => Awaits(op) = MemberRowOwners
           /\ op \in (OrgOp \cup ProjectOp) \ {"delete"} => Awaits(op) = MemberRow
           /\ op \in {"role", "remove"} => Awaits(op) = MemberOwners
           /\ op = "accept" => Awaits(op) = Insert
           /\ op \in {"createProject", "add", "invite"} => Awaits(op) = Member
<1>1. Awaits(op) =
        CASE op = "delete" -> MemberRowOwners
          [] op \in (OrgOp \ {"delete"}) \cup ProjectOp -> MemberRow
          [] op \in {"role", "remove"} -> MemberOwners
          [] op = "accept" -> Insert
          [] OTHER -> Member
  <2>1. DOMAIN OrgMoves = OrgOp /\ DOMAIN ProjectMoves = ProjectOp
    BY Tables
  <2> QED BY <2>1, Zenon DEF Awaits, MemberRowOwners, MemberRow, MemberOwners,
                             Member, Insert
<1>2. op = "delete" => Awaits(op) = MemberRowOwners
  BY <1>1 DEF ProjectOp
<1>3. op \in (OrgOp \cup ProjectOp) \ {"delete"} => Awaits(op) = MemberRow
  BY <1>1 DEF OrgOp, ProjectOp
<1>4. op \in {"role", "remove"} => Awaits(op) = MemberOwners
  BY <1>1 DEF OrgOp, ProjectOp
<1>5. op = "accept" => Awaits(op) = Insert
  BY <1>1 DEF OrgOp, ProjectOp
<1>6. op \in {"createProject", "add", "invite"} => Awaits(op) = Member
  BY <1>1 DEF OrgOp, ProjectOp
<1> QED BY <1>2, <1>3, <1>4, <1>5, <1>6

LEMMA Kinds ==
    ASSUME NEW op \in Operation
    PROVE  \/ op = "delete" \/ op \in (OrgOp \cup ProjectOp) \ {"delete"}
           \/ op \in {"role", "remove"} \/ op = "accept"
           \/ op \in {"createProject", "add", "invite"}
BY DEF Operation

(* The first and the further awaits of each operation.                     *)
LEMMA AwaitsAhead ==
    ASSUME NEW op \in Operation
    PROVE  /\ Awaits(op) \in Ahead(op)
           /\ Awaits(op) \notin {Owned, Write}
BY Kinds, AheadOf, AwaitsOf, Rests

LEMMA NextAhead ==
    ASSUME NEW op \in Operation, NEW left \in Ahead(op)
    PROVE  /\ left # <<>>
           /\ Head(left) = "member" =>
                 /\ Tail(left) \in Ahead(op) /\ op # "accept"
                 /\ op \in OrgOp \cup ProjectOp => Tail(left) \notin {Owned, Write}
                 /\ op \in {"role", "remove"} => Tail(left) # Write
           /\ Head(left) = "row" =>
                 Tail(left) \in Ahead(op) /\ op \in OrgOp \cup ProjectOp
           /\ Head(left) = "owners" =>
                 /\ Tail(left) = Write /\ Write \in Ahead(op) /\ left = Owned
                 /\ op \in {"delete", "role", "remove"}
           /\ Head(left) = "insert" =>
                 Tail(left) = Write /\ Write \in Ahead(op) /\ op = "accept"
           /\ Head(left) = "write" => left = Write
<1> DEFINE Facts(l, ahead) ==
             /\ l # <<>>
             /\ Head(l) = "member" =>
                   /\ Tail(l) \in ahead /\ op # "accept"
                   /\ op \in OrgOp \cup ProjectOp => Tail(l) \notin {Owned, Write}
                   /\ op \in {"role", "remove"} => Tail(l) # Write
             /\ Head(l) = "row" => Tail(l) \in ahead /\ op \in OrgOp \cup ProjectOp
             /\ Head(l) = "owners" =>
                   /\ Tail(l) = Write /\ Write \in ahead /\ l = Owned
                   /\ op \in {"delete", "role", "remove"}
             /\ Head(l) = "insert" =>
                   Tail(l) = Write /\ Write \in ahead /\ op = "accept"
             /\ Head(l) = "write" => l = Write
<1>1. CASE op = "delete"
  <2>1. op \in OrgOp /\ op \notin {"role", "remove", "accept"}
    BY <1>1 DEF OrgOp
  <2>2. Ahead(op) = {MemberRowOwners, RowOwners, Owned, Write}
    BY <1>1, AheadOf
  <2>3. \A l \in {MemberRowOwners, RowOwners, Owned, Write} :
           Facts(l, {MemberRowOwners, RowOwners, Owned, Write})
    BY <1>1, <2>1, Rests, NotEmpty
  <2> QED BY <2>2, <2>3
<1>2. CASE op \in (OrgOp \cup ProjectOp) \ {"delete"}
  <2>1. op \notin {"role", "remove", "accept"}
    BY <1>2 DEF OrgOp, ProjectOp
  <2>2. Ahead(op) = {MemberRow, Row, Write}
    BY <1>2, AheadOf
  <2>3. \A l \in {MemberRow, Row, Write} : Facts(l, {MemberRow, Row, Write})
    BY <1>2, <2>1, Rests, NotEmpty
  <2> QED BY <2>2, <2>3
<1>3. CASE op \in {"role", "remove"}
  <2>1. op \notin OrgOp \cup ProjectOp
    BY <1>3 DEF OrgOp, ProjectOp
  <2>2. Ahead(op) = {MemberOwners, Owned, Write}
    BY <1>3, AheadOf
  <2>3. \A l \in {MemberOwners, Owned, Write} :
           Facts(l, {MemberOwners, Owned, Write})
    BY <1>3, <2>1, Rests, NotEmpty
  <2> QED BY <2>2, <2>3
<1>4. CASE op = "accept"
  <2>1. Ahead(op) = {Insert, Write}
    BY <1>4, AheadOf
  <2>2. \A l \in {Insert, Write} : Facts(l, {Insert, Write})
    BY <1>4, Rests, NotEmpty
  <2> QED BY <2>1, <2>2
<1>5. CASE op \in {"createProject", "add", "invite"}
  <2>1. op \notin OrgOp \cup ProjectOp /\ op \notin {"role", "remove", "accept"}
    BY <1>5 DEF OrgOp, ProjectOp
  <2>2. Ahead(op) = {Member, Write}
    BY <1>5, AheadOf
  <2>3. \A l \in {Member, Write} : Facts(l, {Member, Write})
    BY <1>5, <2>1, Rests, NotEmpty
  <2> QED BY <2>2, <2>3
<1> QED BY <1>1, <1>2, <1>3, <1>4, <1>5, Kinds

-----------------------------------------------------------------------------
(* The requests.                                                           *)

(* A request in progress is typed and is not a free slot.                  *)
LEMMA BusyIsRequest ==
    ASSUME Requests, NEW s \in Slots
    PROVE  /\ request[s] = Free \/ request[s] \in Request
           /\ request[s] \in Request => request[s] # Free
           /\ request[s] \in Request => /\ request[s].op \in Operation
                                        /\ request[s].left \in Ahead(request[s].op)
<1>1. request[s] = Free \/ request[s] \in Request
  BY DEF Requests
<1>2. Free.op \notin Operation
  BY DEF Free, Operation, OrgOp, ProjectOp
<1>3. \A r \in Request : r.op \in Operation /\ r.left \in Ahead(r.op)
  BY DEF Request
<1> QED BY <1>1, <1>2, <1>3

(* What the request at a stage is and has ahead of it.                     *)
LEMMA Staged ==
    ASSUME Requests, NEW s \in Slots, NEW stage, At(s, stage)
    PROVE  /\ request[s] \in Request
           /\ Head(request[s].left) = stage
BY BusyIsRequest DEF At

LEMMA AdmittedTyped ==
    ASSUME NEW input \in Inputs
    PROVE  [op |-> input.op, by |-> input.by, on |-> input.on, to |-> input.to,
            left |-> Awaits(input.op), saw |-> "none", counted |-> {},
            late |-> FALSE] \in Request
<1> DEFINE r == [op |-> input.op, by |-> input.by, on |-> input.on,
                 to |-> input.to, left |-> Awaits(input.op), saw |-> "none",
                 counted |-> {}, late |-> FALSE]
<1>1. /\ input.op \in Operation /\ input.by \in Users
      /\ input.on \in Users \cup Invitations
      /\ input.to \in Roles \cup {"none"}
      /\ input.op = "accept" => input.on \in Invitations
      /\ input.op = "invite" => input.to \in Roles
  BY InputTyped
<1>2. Awaits(input.op) \in Ahead(input.op) /\ Awaits(input.op) \notin {Owned, Write}
  BY <1>1, AwaitsAhead
<1>3. r \in [op : Operation, by : Users, on : Users \cup Invitations,
            to : Roles \cup {"none"}, left : UNION {Ahead(op) : op \in Operation},
            saw : Status, counted : SUBSET Users, late : BOOLEAN]
  BY <1>1, <1>2 DEF Status
<1> HIDE DEF r
<1>4. /\ r.op = input.op /\ r.on = input.on /\ r.to = input.to
      /\ r.left = Awaits(input.op)
  BY DEF r
<1>5. r \in Request
  BY <1>1, <1>2, <1>3, <1>4 DEF Request
<1> QED BY <1>5 DEF r

(* A request that goes on: what it must have found to be in Request.       *)
LEMMA Progress ==
    ASSUME NEW r \in Request, NEW saw \in Status, NEW counted \in SUBSET Users,
           NEW late \in BOOLEAN, NEW left \in Ahead(r.op),
           r.op \in OrgOp \cup ProjectOp /\ left \in {Owned, Write} =>
               MayMove(r.op, saw),
           r.op \in {"role", "remove"} /\ left = Write /\ r.to # "owner" =>
               counted # {} /\ counted # {r.on}
    PROVE  [[[[r EXCEPT !.saw = saw] EXCEPT !.counted = counted]
               EXCEPT !.late = late] EXCEPT !.left = left] \in Request
<1> DEFINE q == [[[[r EXCEPT !.saw = saw] EXCEPT !.counted = counted]
               EXCEPT !.late = late] EXCEPT !.left = left]
<1>1. r \in [op : Operation, by : Users, on : Users \cup Invitations,
            to : Roles \cup {"none"}, left : UNION {Ahead(op) : op \in Operation},
            saw : Status, counted : SUBSET Users, late : BOOLEAN]
  BY DEF Request
<1>2. left \in UNION {Ahead(op) : op \in Operation}
  BY <1>1
<1>3. q \in [op : Operation, by : Users, on : Users \cup Invitations,
            to : Roles \cup {"none"}, left : UNION {Ahead(op) : op \in Operation},
            saw : Status, counted : SUBSET Users, late : BOOLEAN]
  BY <1>1, <1>2
<1>4. /\ q.op = r.op /\ q.on = r.on /\ q.to = r.to /\ q.left = left
      /\ q.saw = saw /\ q.counted = counted
  BY <1>1
<1>5. /\ r.op = "accept" => r.on \in Invitations
      /\ r.op = "invite" => r.to \in Roles
  BY DEF Request
<1> HIDE DEF q
<1>6. q \in Request
  BY <1>3, <1>4, <1>5 DEF Request
<1> QED BY <1>6 DEF q

LEMMA AnswerKeeps ==
    ASSUME Requests, NEW s \in Slots, request' = Answered(s)
    PROVE  Requests'
BY DEF Requests, Answered

LEMMA BeginKeeps ==
    ASSUME Requests, NEW s \in Slots, NEW input \in Inputs, Begin(s, input)
    PROVE  Requests'
<1> DEFINE r == [op |-> input.op, by |-> input.by, on |-> input.on,
                 to |-> input.to, left |-> Awaits(input.op), saw |-> "none",
                 counted |-> {}, late |-> FALSE]
<1>1. r \in Request
  BY AdmittedTyped
<1>2. request' = [request EXCEPT ![s] = r]
  BY Zenon DEF Begin
<1> HIDE DEF r
<1> QED BY <1>1, <1>2 DEF Requests

LEMMA StepKeeps ==
    ASSUME Requests, NEW s \in Slots, NEW ok, NEW read, Step(s, ok, read),
           ok => Onward(read) \in Request
    PROVE  Requests'
<1>1. request' = [request EXCEPT ![s] = IF ok THEN Onward(read) ELSE Free]
  BY Zenon DEF Step
<1> QED BY <1>1 DEF Requests

LEMMA AdmitMemberKeeps ==
    ASSUME Requests, NEW s \in Slots, AdmitMember(s)
    PROVE  Requests'
<1> DEFINE r == request[s]
           ok == /\ member[r.by] \in Demanded(r.op)
                 /\ r.op = "role" /\ r.to = "owner" => r.by \in Owners
<1>1. Step(s, ok, r) /\ At(s, "member")
  BY DEF AdmitMember
<1>2. r \in Request /\ Head(r.left) = "member"
  BY <1>1, Staged
<1>3. r.op \in Operation /\ r.left \in Ahead(r.op)
  BY <1>2 DEF Request
<1>4. /\ Tail(r.left) \in Ahead(r.op)
      /\ r.op \in OrgOp \cup ProjectOp => Tail(r.left) \notin {Owned, Write}
      /\ r.op \in {"role", "remove"} => Tail(r.left) # Write
  BY <1>2, <1>3, NextAhead
<1>5. Onward(r) \in Request
  <2>1. /\ r.saw \in Status /\ r.counted \in SUBSET Users /\ r.late \in BOOLEAN
        /\ r = [[[r EXCEPT !.saw = r.saw] EXCEPT !.counted = r.counted]
                EXCEPT !.late = r.late]
    BY <1>2 DEF Request
  <2> HIDE DEF r
  <2>2. [[[[r EXCEPT !.saw = r.saw] EXCEPT !.counted = r.counted]
           EXCEPT !.late = r.late] EXCEPT !.left = Tail(r.left)] \in Request
    BY <2>1, <1>2, <1>4, Progress
  <2> QED BY <2>1, <2>2 DEF Onward
<1> HIDE DEF r, ok
<1> QED BY <1>1, <1>5, StepKeeps

LEMMA ReadRowKeeps ==
    ASSUME Requests, NEW s \in Slots, ReadRow(s),
           org.status \in Status, project.status \in Status
    PROVE  Requests'
<1> DEFINE r == request[s]
           row == IF r.op \in DOMAIN OrgMoves THEN org ELSE project
           read == [r EXCEPT !.saw = row.status]
<1>1. Step(s, MayMove(r.op, row.status), read) /\ At(s, "row")
  BY DEF ReadRow
<1>2. r \in Request /\ Head(r.left) = "row"
  BY <1>1, Staged
<1>3. r.op \in Operation /\ r.left \in Ahead(r.op)
  BY <1>2 DEF Request
<1>4. Tail(r.left) \in Ahead(r.op) /\ r.op \in OrgOp \cup ProjectOp
  BY <1>2, <1>3, NextAhead
<1>5. row.status \in Status
  OBVIOUS
<1>6. ASSUME MayMove(r.op, row.status)
      PROVE  Onward(read) \in Request
  <2>1. /\ r.counted \in SUBSET Users /\ r.late \in BOOLEAN
        /\ read = [[read EXCEPT !.counted = r.counted] EXCEPT !.late = r.late]
        /\ read.left = r.left
    BY <1>2 DEF Request
  <2>2. r.op \notin {"role", "remove"}
    BY <1>4 DEF OrgOp, ProjectOp
  <2> DEFINE st == row.status
  <2> HIDE DEF r, st
  <2>3. st \in Status /\ MayMove(r.op, st)
    BY <1>5, <1>6 DEF st
  <2>4. [[[[r EXCEPT !.saw = st] EXCEPT !.counted = r.counted]
           EXCEPT !.late = r.late] EXCEPT !.left = Tail(r.left)] \in Request
    BY <2>1, <2>2, <2>3, <1>2, <1>4, Progress
  <2> QED BY <2>1, <2>4 DEF Onward, st
<1> HIDE DEF r, row, read
<1> QED BY <1>1, <1>6, StepKeeps

LEMMA CountOwnersKeeps ==
    ASSUME Requests, NEW s \in Slots, CountOwners(s)
    PROVE  Requests'
<1> DEFINE r == request[s]
           read == [r EXCEPT !.counted = Owners]
<1>1. Step(s, MayLose(r), read) /\ At(s, "owners")
  BY DEF CountOwners
<1>2. r \in Request /\ Head(r.left) = "owners"
  BY <1>1, Staged
<1>3. r.op \in Operation /\ r.left \in Ahead(r.op)
  BY <1>2 DEF Request
<1>4. /\ Tail(r.left) = Write /\ Write \in Ahead(r.op) /\ r.left = Owned
      /\ r.op \in {"delete", "role", "remove"}
  BY <1>2, <1>3, NextAhead
<1>5. ASSUME MayLose(r)
      PROVE  Onward(read) \in Request
  <2>1. /\ r.saw \in Status /\ r.late \in BOOLEAN
        /\ [[r EXCEPT !.saw = r.saw] EXCEPT !.counted = Owners] = read
        /\ read = [read EXCEPT !.late = r.late]
        /\ read.left = r.left
    BY <1>2 DEF Request
  <2>2. Owners \in SUBSET Users
    BY DEF Owners
  <2>3. r.op \in OrgOp \cup ProjectOp => MayMove(r.op, r.saw)
    BY <1>2, <1>4 DEF Request
  <2>4. r.op \in {"role", "remove"} /\ r.to # "owner" =>
           Owners # {} /\ Owners # {r.on}
    BY <1>5 DEF MayLose
  <2> HIDE DEF r
  <2>5. [[[[r EXCEPT !.saw = r.saw] EXCEPT !.counted = Owners]
           EXCEPT !.late = r.late] EXCEPT !.left = Write] \in Request
    BY <2>1, <2>2, <2>3, <2>4, <1>2, <1>4, Progress
  <2> QED BY <2>1, <2>5, <1>4 DEF Onward
<1> HIDE DEF r, read
<1> QED BY <1>1, <1>5, StepKeeps

LEMMA JoinKeeps ==
    ASSUME Requests, NEW s \in Slots, Join(s)
    PROVE  Requests' /\ request[s].op = "accept" /\ request[s] \in Request
<1> DEFINE r == request[s]
<1>1. /\ request' = [request EXCEPT ![s] = IF org.status = "none" THEN Free
                                            ELSE Onward(r)]
      /\ At(s, "insert")
  BY DEF Join
<1>2. r \in Request /\ Head(r.left) = "insert"
  BY <1>1, Staged
<1>3. r.op \in Operation /\ r.left \in Ahead(r.op)
  BY <1>2 DEF Request
<1>4. Tail(r.left) = Write /\ Write \in Ahead(r.op) /\ r.op = "accept"
  BY <1>2, <1>3, NextAhead
<1>5. Onward(r) \in Request
  <2>1. /\ r.saw \in Status /\ r.counted \in SUBSET Users /\ r.late \in BOOLEAN
        /\ r = [[[r EXCEPT !.saw = r.saw] EXCEPT !.counted = r.counted]
                EXCEPT !.late = r.late]
    BY <1>2 DEF Request
  <2>2. r.op \notin OrgOp \cup ProjectOp
    BY <1>4 DEF OrgOp, ProjectOp
  <2> HIDE DEF r
  <2>3. [[[[r EXCEPT !.saw = r.saw] EXCEPT !.counted = r.counted]
           EXCEPT !.late = r.late] EXCEPT !.left = Tail(r.left)] \in Request
    BY <2>1, <2>2, <1>2, <1>4, Progress
  <2> QED BY <2>1, <2>3 DEF Onward
<1> HIDE DEF r
<1>6. Requests'
  BY <1>1, <1>5 DEF Requests
<1> QED BY <1>2, <1>4, <1>6 DEF r

(* A suspension marks whoever is under way.                                *)
LEMMA OvertakeKeeps ==
    ASSUME Requests, NEW s \in Slots, request' = Overtake(s)
    PROVE  /\ Requests'
           /\ request'[s] = Free
           /\ \A t \in Slots \ {s} :
                 \/ request[t] = Free /\ request'[t] = Free
                 \/ /\ request[t] \in Request
                    /\ request'[t] = [request[t] EXCEPT !.late = TRUE]
<1>1. request' = [t \in Slots |->
                    IF t = s THEN Free
                    ELSE IF request[t] # Free THEN [request[t] EXCEPT !.late = TRUE]
                    ELSE Free]
  BY DEF Overtake
<1>2. ASSUME NEW r \in Request
      PROVE  [r EXCEPT !.late = TRUE] \in Request
  <2>1. /\ r.saw \in Status /\ r.counted \in SUBSET Users
        /\ r.left \in Ahead(r.op)
        /\ r = [[r EXCEPT !.saw = r.saw] EXCEPT !.counted = r.counted]
        /\ [r EXCEPT !.late = TRUE] =
              [[r EXCEPT !.late = TRUE] EXCEPT !.left = r.left]
        /\ r.op \in OrgOp \cup ProjectOp /\ r.left \in {Owned, Write} =>
              MayMove(r.op, r.saw)
        /\ r.op \in {"role", "remove"} /\ r.left = Write /\ r.to # "owner" =>
              r.counted # {} /\ r.counted # {r.on}
    BY DEF Request
  <2>2. [[[[r EXCEPT !.saw = r.saw] EXCEPT !.counted = r.counted]
           EXCEPT !.late = TRUE] EXCEPT !.left = r.left] \in Request
    BY <2>1, Progress
  <2> QED BY <2>1, <2>2
<1>3. \A t \in Slots : request[t] = Free \/ (request[t] # Free /\ request[t] \in Request)
  BY DEF Requests
<1> QED BY <1>1, <1>2, <1>3 DEF Requests

LEMMA RequestsKept ==
    ASSUME Requests, org.status \in Status, project.status \in Status, [Next]_vars
    PROVE  Requests'
<1>1. CASE \E s \in Slots, input \in Inputs :
              AdmitOrg(s, input) \/ AdmitByMark(s, input) \/ ReadInvitation(s, input)
  BY <1>1, BeginKeeps DEF AdmitOrg, AdmitByMark, ReadInvitation
<1>2. CASE \E s \in Slots : AdmitMember(s) \/ ReadRow(s) \/ CountOwners(s) \/ Join(s)
  BY <1>2, AdmitMemberKeeps, ReadRowKeeps, CountOwnersKeeps, JoinKeeps
<1>3. CASE \E s \in Slots : WriteOrg(s)
  <2>1. PICK s \in Slots : request' = Answered(s) \/ request' = Overtake(s)
    BY <1>3 DEF WriteOrg
  <2> QED BY <2>1, AnswerKeeps, OvertakeKeeps
<1>4. CASE \E s \in Slots : \/ WriteProject(s) \/ CreateProject(s)
                            \/ WriteMember(s) \/ Invite(s) \/ MarkAccepted(s)
  <2>1. PICK s \in Slots : request' = Answered(s)
    BY <1>4 DEF WriteProject, CreateProject, WriteMember, Invite, MarkAccepted
  <2> QED BY <2>1, AnswerKeeps
<1>5. CASE \/ \E u \in Users : CreateOrg(u)
           \/ \E i \in Invitations : ExpireInvitation(i)
           \/ GracePeriod \/ CleanupProject \/ CleanupOrg \/ UNCHANGED vars
  <2>1. request' = request
    BY <1>5 DEF CreateOrg, ExpireInvitation, GracePeriod, CleanupProject,
                CleanupOrg, vars
  <2> QED BY <2>1 DEF Requests
<1>6. CASE Crash
  BY <1>6 DEF Crash, Requests
<1> QED BY <1>1, <1>2, <1>3, <1>4, <1>5, <1>6 DEF Next

-----------------------------------------------------------------------------
(* The rows.                                                               *)

OrgRow == [status : {"none", "active", "suspended", "deleted"},
           suspendedAt : BOOLEAN, deletedAt : {"no", "recent", "old"}]
ProjectRow == [status : {"none", "active", "archived", "deleted"},
               deletedAt : {"no", "recent", "old"}]
InvitationRow == [status : {"none", "pending", "accepted"}, role : Roles,
                  expired : BOOLEAN, joins : 0 .. 2, split : BOOLEAN]
Rows ==
    /\ org \in OrgRow /\ project \in ProjectRow
    /\ member \in [Users -> Roles \cup {"none"}]
    /\ invitation \in [Invitations -> InvitationRow]
    /\ org.status = "none" =>
          /\ member = NoMembers /\ project = NoProject
          /\ invitation = NoInvitations

LEMMA TypeOKIsRows == ASSUME Requests PROVE TypeOK <=> Rows
<1>1. \A s \in Busy : request[s].left # <<>> /\ request[s].by \in Users
  <2>1. SUFFICES ASSUME NEW s \in Slots, request[s] # Free
                 PROVE  request[s].left # <<>> /\ request[s].by \in Users
    BY DEF Busy
  <2>2. /\ request[s] \in Request /\ request[s].op \in Operation
        /\ request[s].left \in Ahead(request[s].op)
    BY <2>1, BusyIsRequest
  <2>3. request[s].by \in Users
    BY <2>2 DEF Request
  <2> QED BY <2>2, <2>3, NextAhead
<1> QED BY <1>1, Zenon DEF TypeOK, Rows, OrgRow, ProjectRow, InvitationRow

LEMMA EmptyRows ==
    /\ NoOrg \in OrgRow /\ NoOrg.status = "none" /\ NoProject \in ProjectRow
    /\ NoMembers \in [Users -> Roles \cup {"none"}]
    /\ NoInvitation \in InvitationRow
    /\ NoInvitations \in [Invitations -> InvitationRow]
BY DEF NoOrg, NoProject, NoMembers, NoInvitation, NoInvitations, OrgRow, ProjectRow,
       InvitationRow, Roles

LEMMA MovedTyped ==
    /\ org \in OrgRow => \A op \in OrgOp : /\ Moved(op) \in OrgRow
                                          /\ Moved(op).status = OrgMoves[op]
                                          /\ Moved(op).status # "none"
    /\ project \in ProjectRow => \A op \in ProjectOp : MovedProject(op) \in ProjectRow
BY Tables DEF Moved, MovedProject, OrgRow, ProjectRow

LEMMA RowsKept ==
    ASSUME Requests, Rows, [Next]_vars
    PROVE  Rows'
<1> USE DEF Rows
<1>1. CASE UNCHANGED <<org, member, project, invitation>>
  BY <1>1
<1>2. ASSUME NEW u \in Users, CreateOrg(u)
      PROVE  Rows'
  <2>1. org' \in OrgRow /\ org'.status = "active"
    BY <1>2 DEF CreateOrg, OrgRow
  <2>2. member' \in [Users -> Roles \cup {"none"}]
    BY <1>2, EmptyRows DEF CreateOrg, Roles
  <2> QED BY <1>2, <2>1, <2>2 DEF CreateOrg
<1>3. ASSUME NEW s \in Slots, WriteOrg(s)
      PROVE  Rows'
  <2>1. request[s].op \in OrgOp
    BY <1>3, Tables DEF WriteOrg
  <2>2. \/ UNCHANGED org
        \/ org' = Moved(request[s].op)
    BY <1>3 DEF WriteOrg
  <2>3. UNCHANGED <<member, project, invitation>>
    BY <1>3 DEF WriteOrg
  <2> QED BY <2>1, <2>2, <2>3, MovedTyped
<1>4. ASSUME NEW s \in Slots, WriteProject(s)
      PROVE  Rows'
  <2>1. request[s].op \in ProjectOp
    BY <1>4, Tables DEF WriteProject
  <2>2. \/ UNCHANGED project
        \/ project.status # "none" /\ project' = MovedProject(request[s].op)
    BY <1>4 DEF WriteProject
  <2>3. UNCHANGED <<member, org, invitation>> /\ NoProject.status = "none"
    BY <1>4 DEF WriteProject, NoProject
  <2> QED BY <2>1, <2>2, <2>3, MovedTyped
<1>5. ASSUME NEW s \in Slots, CreateProject(s)
      PROVE  Rows'
  <2>1. \/ UNCHANGED project
        \/ org.status # "none" /\ project' = [status |-> "active", deletedAt |-> "no"]
    BY <1>5 DEF CreateProject
  <2>2. UNCHANGED <<member, org, invitation>>
    BY <1>5 DEF CreateProject
  <2>3. [status |-> "active", deletedAt |-> "no"] \in ProjectRow
    BY DEF ProjectRow
  <2> QED BY <2>1, <2>2, <2>3
<1>6. ASSUME NEW s \in Slots, WriteMember(s)
      PROVE  Rows'
  <2>1. At(s, "write") /\ request[s] \in Request
    BY <1>6, Staged DEF WriteMember
  <2>2. request[s].to \in Roles \cup {"none"}
    BY <2>1 DEF Request
  <2>3. \/ UNCHANGED member
        \/ org.status # "none" /\ member' = [member EXCEPT ![request[s].on] = request[s].to]
    BY <1>6 DEF WriteMember
  <2>4. UNCHANGED <<project, org, invitation>>
    BY <1>6 DEF WriteMember
  <2> QED BY <2>2, <2>3, <2>4
<1>7. ASSUME NEW s \in Slots, Invite(s)
      PROVE  Rows'
  <2>1. At(s, "write") /\ request[s] \in Request /\ request[s].op = "invite"
    BY <1>7, Staged DEF Invite
  <2>2. request[s].to \in Roles
    BY <2>1 DEF Request
  <2>3. [NoInvitation EXCEPT !.status = "pending", !.role = request[s].to]
           \in InvitationRow
    BY <2>2, EmptyRows DEF InvitationRow
  <2> DEFINE new == [NoInvitation EXCEPT !.status = "pending", !.role = request[s].to]
  <2>4. \/ UNCHANGED invitation
        \/ /\ org.status # "none"
           /\ \E i \in Invitations : invitation' = [invitation EXCEPT ![i] = new]
    BY <1>7 DEF Invite
  <2>5. UNCHANGED <<project, org, member>>
    BY <1>7 DEF Invite
  <2> HIDE DEF new
  <2> QED BY <2>3, <2>4, <2>5 DEF new
<1>8. ASSUME NEW s \in Slots, NEW input \in Inputs, ReadInvitation(s, input)
      PROVE  Rows'
  <2>1. input.on \in Invitations
    BY <1>8, InputTyped DEF ReadInvitation
  <2>2. invitation[input.on].status = "pending" /\ UNCHANGED <<org, member, project>>
    BY <1>8 DEF ReadInvitation, Begin
  <2>3. org.status # "none"
    BY <2>1, <2>2 DEF NoInvitations, NoInvitation
  <2> DEFINE hit == invitation[input.on].split \/ Accepting(input.on) # {}
  <2>4. invitation' = [invitation EXCEPT ![input.on] =
                         [invitation[input.on] EXCEPT !.split = hit]]
    BY <1>8 DEF ReadInvitation
  <2>5. hit \in BOOLEAN
    BY <2>1 DEF InvitationRow
  <2> HIDE DEF hit
  <2>6. [invitation[input.on] EXCEPT !.split = hit] \in InvitationRow
    BY <2>1, <2>5 DEF InvitationRow
  <2> QED BY <2>1, <2>2, <2>3, <2>4, <2>6
<1>9. ASSUME NEW s \in Slots, Join(s)
      PROVE  Rows'
  <2> DEFINE r == request[s]
             invite == invitation[r.on]
  <2>1. r \in Request /\ r.op = "accept"
    BY <1>9, JoinKeeps
  <2>2. r.on \in Invitations
    BY <2>1 DEF Request
  <2>3. invite \in InvitationRow
    BY <2>2
  <2> HIDE DEF invite
  <2>4. invite.role \in Roles
    BY <2>3 DEF InvitationRow
  <2>5. \/ UNCHANGED member
        \/ org.status # "none" /\ member' = [member EXCEPT ![r.by] = invite.role]
    BY <1>9 DEF Join, invite
  <2>6. \/ UNCHANGED invitation
        \/ /\ org.status # "none" /\ invite.joins < 2
           /\ invitation' = [invitation EXCEPT ![r.on] =
                               [invite EXCEPT !.joins = invite.joins + 1]]
    BY <1>9 DEF Join, invite
  <2>7. invite.joins < 2 => [invite EXCEPT !.joins = invite.joins + 1] \in InvitationRow
    BY <2>3 DEF InvitationRow
  <2>8. UNCHANGED <<org, project>>
    BY <1>9 DEF Join
  <2> HIDE DEF r
  <2> QED BY <2>2, <2>4, <2>5, <2>6, <2>7, <2>8
<1>10. ASSUME NEW s \in Slots, MarkAccepted(s)
       PROVE  Rows'
  <2> DEFINE r == request[s]
             invite == invitation[r.on]
  <2>1. r \in Request /\ r.op = "accept"
    BY <1>10, Staged DEF MarkAccepted
  <2>2. r.on \in Invitations
    BY <2>1 DEF Request
  <2>3. \/ UNCHANGED invitation
        \/ /\ invite.status # "none"
           /\ invitation' = [invitation EXCEPT ![r.on] =
                               [invite EXCEPT !.status = "accepted"]]
    BY <1>10 DEF MarkAccepted
  <2>4. invite.status # "none" => org.status # "none"
    BY <2>2 DEF NoInvitations, NoInvitation
  <2>5. [invite EXCEPT !.status = "accepted"] \in InvitationRow
    BY <2>2 DEF InvitationRow
  <2>6. UNCHANGED <<org, project, member>>
    BY <1>10 DEF MarkAccepted
  <2> HIDE DEF r, invite
  <2> QED BY <2>2, <2>3, <2>4, <2>5, <2>6
<1>11. ASSUME NEW i \in Invitations, ExpireInvitation(i)
       PROVE  Rows'
  <2>1. /\ invitation[i].status = "pending" /\ UNCHANGED <<org, project, member>>
        /\ invitation' = [invitation EXCEPT ![i] =
                             [invitation[i] EXCEPT !.expired = TRUE]]
    BY <1>11 DEF ExpireInvitation
  <2>2. org.status # "none"
    BY <2>1 DEF NoInvitations, NoInvitation
  <2>3. [invitation[i] EXCEPT !.expired = TRUE] \in InvitationRow
    BY DEF InvitationRow
  <2> QED BY <2>1, <2>2, <2>3
<1>12. CASE Crash
  <2> DEFINE torn(i) == /\ invitation[i].status # "none"
                        /\ \E s \in Accepting(i) : At(s, "write")
             row(i) == [invitation[i] EXCEPT !.split = invitation[i].split \/ torn(i)]
  <2>1. /\ invitation' = [i \in Invitations |-> row(i)]
        /\ UNCHANGED <<org, project, member>>
    BY <1>12 DEF Crash
  <2>2. \A i \in Invitations : row(i) \in InvitationRow
    <3>1. TAKE i \in Invitations
    <3>2. invitation[i].split \/ torn(i) \in BOOLEAN
      BY DEF InvitationRow
    <3> HIDE DEF torn
    <3> QED BY <3>2 DEF InvitationRow
  <2>3. ASSUME org.status = "none" PROVE invitation' = NoInvitations
    <3>1. \A i \in Invitations : invitation[i] = NoInvitation /\ ~torn(i)
      BY <2>3 DEF NoInvitations, NoInvitation
    <3> HIDE DEF torn
    <3>2. \A i \in Invitations : row(i) = NoInvitation
      <4>1. TAKE i \in Invitations
      <4>2. (invitation[i].split \/ torn(i)) = FALSE
        BY <3>1 DEF NoInvitation
      <4>3. [NoInvitation EXCEPT !.split = FALSE] = NoInvitation
        <5>1. NoInvitation \in InvitationRow /\ NoInvitation.split = FALSE
          BY EmptyRows DEF NoInvitation
        <5> QED BY <5>1 DEF InvitationRow
      <4> QED BY <3>1, <4>2, <4>3
    <3> HIDE DEF row
    <3> QED BY <2>1, <3>2 DEF NoInvitations
  <2> HIDE DEF row
  <2> QED BY <2>1, <2>2, <2>3
<1>13. CASE GracePeriod
  <2>1. /\ org' = [org EXCEPT !.deletedAt = Old(org.deletedAt)]
        /\ project' = [project EXCEPT !.deletedAt = Old(project.deletedAt)]
        /\ UNCHANGED <<member, invitation>>
    BY <1>13 DEF GracePeriod
  <2>2. org' \in OrgRow /\ org'.status = org.status /\ project' \in ProjectRow
    BY <2>1 DEF OrgRow, ProjectRow, Old
  <2>3. org.status = "none" => project' = NoProject
    BY <2>1 DEF NoProject, Old
  <2> QED BY <2>1, <2>2, <2>3
<1>14. CASE CleanupProject
  BY <1>14, EmptyRows DEF CleanupProject
<1>15. CASE CleanupOrg
  BY <1>15, EmptyRows DEF CleanupOrg
<1> HIDE DEF Rows
<1>16. ASSUME NEW s \in Slots, NEW input \in Inputs,
              AdmitOrg(s, input) \/ AdmitByMark(s, input)
       PROVE  Rows'
  BY <1>1, <1>16 DEF AdmitOrg, AdmitByMark, Begin
<1>17. ASSUME NEW s \in Slots, AdmitMember(s) \/ ReadRow(s) \/ CountOwners(s)
       PROVE  Rows'
  BY <1>1, <1>17 DEF AdmitMember, ReadRow, CountOwners, Step
<1>18. CASE UNCHANGED vars
  BY <1>1, <1>18 DEF vars
<1> QED BY <1>2, <1>3, <1>4, <1>5, <1>6, <1>7, <1>8, <1>9, <1>10, <1>11, <1>12,
           <1>13, <1>14, <1>15, <1>16, <1>17, <1>18 DEF Next

-----------------------------------------------------------------------------
(* Suspension and deletion.                                                *)

(* While the organization is suspended whoever may still write its row     *)
(* was under way before; and the two marks of a suspension go together.    *)
Suspension ==
    /\ org.status = "suspended" =>
          \A s \in Slots : request[s].op \in OrgOp => request[s].late
    /\ overtaken \/ (org.suspendedAt <=> org.status = "suspended")

(* A row that carries deleted_at is deleted, or was written on a stale read. *)
Deletion ==
    /\ org.deletedAt # "no" => org.status = "deleted" \/ "org" \in stale
    /\ project.deletedAt # "no" =>
          project.status = "deleted" \/ "project" \in stale

(* At its write a move has been found allowed from the status it read.     *)
LEMMA WriteOfMove ==
    ASSUME Requests, NEW s \in Slots, At(s, "write"),
           request[s].op \in OrgOp \cup ProjectOp
    PROVE  request[s] \in Request /\ MayMove(request[s].op, request[s].saw)
<1>1. request[s] \in Request /\ Head(request[s].left) = "write"
  BY Staged
<1>2. request[s].op \in Operation /\ request[s].left \in Ahead(request[s].op)
  BY <1>1 DEF Request
<1>3. request[s].left = Write
  BY <1>1, <1>2, NextAhead
<1> QED BY <1>1, <1>3 DEF Request

(* What a step that is neither a read of an organization nor a suspension  *)
(* leaves of the requests that move the organization: some, and as late.   *)
LEMMA MarksKept ==
    ASSUME Requests, NEW s \in Slots, NEW r, r = Free \/ r.op \notin OrgOp \/
               (r.op = request[s].op /\ r.late = request[s].late),
           request' = [request EXCEPT ![s] = r],
           \A t \in Slots : request[t].op \in OrgOp => request[t].late
    PROVE  \A t \in Slots : request'[t].op \in OrgOp => request'[t].late
<1>1. Free.op \notin OrgOp
  BY DEF Free, OrgOp
<1>2. DOMAIN request = Slots
  BY DEF Requests
<1> QED BY <1>1, <1>2

LEMMA AnswerMarks ==
    ASSUME Requests, NEW s \in Slots, request' = Answered(s),
           \A t \in Slots : request[t].op \in OrgOp => request[t].late
    PROVE  \A t \in Slots : request'[t].op \in OrgOp => request'[t].late
BY MarksKept DEF Answered

(* The fields of a request that goes on are those it had.                  *)
LEMMA OnwardFields ==
    ASSUME NEW r \in Request, NEW saw, NEW counted
    PROVE  /\ Onward(r).op = r.op /\ Onward(r).late = r.late /\ Onward(r).on = r.on
           /\ Onward([r EXCEPT !.saw = saw]).op = r.op
           /\ Onward([r EXCEPT !.saw = saw]).late = r.late
           /\ Onward([r EXCEPT !.counted = counted]).op = r.op
           /\ Onward([r EXCEPT !.counted = counted]).late = r.late
           /\ Onward(r).left = Tail(r.left)
BY DEF Request, Onward

(* A step that reads leaves its request what it was, or ends it.           *)
LEMMA ReadShape ==
    ASSUME Requests, NEW s \in Slots, AdmitMember(s) \/ ReadRow(s) \/ CountOwners(s)
    PROVE  /\ request[s] \in Request /\ request[s].op # "accept"
           /\ \E r : /\ request' = [request EXCEPT ![s] = r]
                     /\ r = Free \/ (r.op = request[s].op /\ r.late = request[s].late)
<1>1. request[s] \in Request /\ Head(request[s].left) \in {"member", "row", "owners"}
  BY Staged DEF AdmitMember, ReadRow, CountOwners
<1>2. request[s].op \in Operation /\ request[s].left \in Ahead(request[s].op)
  BY <1>1 DEF Request
<1>3. request[s].op # "accept"
  BY <1>1, <1>2, NextAhead DEF OrgOp, ProjectOp
<1>4. PICK ok, read :
         /\ Step(s, ok, read)
         /\ \/ read = request[s]
            \/ \E saw : read = [request[s] EXCEPT !.saw = saw]
            \/ read = [request[s] EXCEPT !.counted = Owners]
  <2>1. CASE AdmitMember(s)
    BY <2>1 DEF AdmitMember
  <2>2. CASE ReadRow(s)
    BY <2>2 DEF ReadRow
  <2>3. CASE CountOwners(s)
    BY <2>3 DEF CountOwners
  <2> QED BY <2>1, <2>2, <2>3
<1>5. Onward(read).op = request[s].op /\ Onward(read).late = request[s].late
  <2>1. CASE read = request[s]
    BY <1>1, <2>1, OnwardFields
  <2>2. ASSUME NEW saw, read = [request[s] EXCEPT !.saw = saw]
        PROVE  Onward(read).op = request[s].op /\ Onward(read).late = request[s].late
    BY <1>1, <2>2, OnwardFields
  <2>3. CASE read = [request[s] EXCEPT !.counted = Owners]
    BY <1>1, <2>3, OnwardFields
  <2> QED BY <1>4, <2>1, <2>2, <2>3
<1> DEFINE r == IF ok THEN Onward(read) ELSE Free
<1>6. request' = [request EXCEPT ![s] = r]
  BY <1>4, Zenon DEF Step
<1>7. r = Free \/ (r.op = request[s].op /\ r.late = request[s].late)
  BY <1>5
<1> HIDE DEF r
<1> QED BY <1>1, <1>3, <1>6, <1>7

LEMMA SuspensionKept ==
    ASSUME Requests, Rows, Suspension, [Next]_vars
    PROVE  Suspension'
<1>1. ASSUME UNCHANGED <<org, overtaken>>,
             org.status = "suspended" =>
                \A s \in Slots : request'[s].op \in OrgOp => request'[s].late
      PROVE  Suspension'
  BY <1>1 DEF Suspension
<1>2. CASE \E s \in Slots, input \in Inputs : AdmitOrg(s, input)
  BY <1>2, <1>1 DEF AdmitOrg, Begin
<1>3. ASSUME NEW s \in Slots, NEW input \in Inputs,
             AdmitByMark(s, input) \/ ReadInvitation(s, input)
      PROVE  Suspension'
  <2> DEFINE r == [op |-> input.op, by |-> input.by, on |-> input.on,
                   to |-> input.to, left |-> Awaits(input.op), saw |-> "none",
                   counted |-> {}, late |-> FALSE]
  <2>1. Begin(s, input) /\ UNCHANGED <<org, overtaken>>
    BY <1>3 DEF AdmitByMark, ReadInvitation, Begin
  <2>2. request' = [request EXCEPT ![s] = r]
    BY <2>1, Zenon DEF Begin
  <2>3. r.op \notin OrgOp
    BY <1>3, Tables DEF AdmitByMark, ReadInvitation, OrgOp, ProjectOp
  <2> HIDE DEF r
  <2>4. org.status = "suspended" =>
            \A t \in Slots : request'[t].op \in OrgOp => request'[t].late
    BY <2>2, <2>3, MarksKept DEF Suspension
  <2> QED BY <2>1, <2>4, <1>1
<1>4. ASSUME NEW s \in Slots, AdmitMember(s) \/ ReadRow(s) \/ CountOwners(s) \/ Join(s)
      PROVE  Suspension'
  <2>1. PICK r : /\ request' = [request EXCEPT ![s] = r]
                 /\ r = Free \/ (r.op = request[s].op /\ r.late = request[s].late)
    <3>1. CASE Join(s)
      <4>1. request[s] \in Request
        BY <3>1, JoinKeeps
      <4> QED BY <3>1, <4>1, OnwardFields DEF Join
    <3> QED BY <1>4, <3>1, ReadShape
  <2>2. UNCHANGED <<org, overtaken>>
    BY <1>4 DEF AdmitMember, ReadRow, CountOwners, Step, Join
  <2>3. org.status = "suspended" =>
            \A t \in Slots : request'[t].op \in OrgOp => request'[t].late
    BY <2>1, MarksKept DEF Suspension
  <2> QED BY <2>2, <2>3, <1>1
<1>5. ASSUME NEW s \in Slots, WriteOrg(s)
      PROVE  Suspension'
  <2> DEFINE r == request[s]
  <2>1. r.op \in OrgOp /\ At(s, "write")
    BY <1>5, Tables DEF WriteOrg
  <2>2. CASE org.status = "none"
    <3>1. request' = Answered(s) /\ UNCHANGED <<org, overtaken>>
      BY <1>5, <2>2 DEF WriteOrg
    <3> QED BY <3>1, <2>2, <1>1
  <2>3. CASE org.status # "none"
    <3>1. /\ org' = Moved(r.op) /\ overtaken' = (overtaken \/ r.late)
          /\ request' = IF r.op = "suspend" THEN Overtake(s) ELSE Answered(s)
      BY <1>5, <2>3 DEF WriteOrg
    <3>2. ASSUME org'.status = "suspended"
          PROVE  \A t \in Slots : request'[t].op \in OrgOp => request'[t].late
      <4>1. r.op = "suspend"
        BY <3>1, <3>2, <2>1 DEF Moved, OrgMoves, OrgOp
      <4>2. request' = Overtake(s)
        BY <3>1, <4>1
      <4>3. Free.op \notin OrgOp
        BY DEF Free, OrgOp
      <4>4. \A q \in Request : [q EXCEPT !.late = TRUE].late
        BY DEF Request
      <4>5. TAKE t \in Slots
      <4>6. CASE t = s
        BY <4>6, <4>2, <4>3, OvertakeKeeps
      <4>7. CASE t # s
        <5>1. \/ request'[t] = Free
              \/ /\ request[t] \in Request
                 /\ request'[t] = [request[t] EXCEPT !.late = TRUE]
          BY <4>7, <4>2, OvertakeKeeps
        <5> QED BY <5>1, <4>3, <4>4
      <4> QED BY <4>6, <4>7
    <3>3. overtaken' \/ (org'.suspendedAt <=> org'.status = "suspended")
      <4>1. SUFFICES ASSUME ~overtaken, ~r.late
                     PROVE  org'.suspendedAt <=> org'.status = "suspended"
        BY <3>1
      <4>2. org.status # "suspended" /\ ~org.suspendedAt
        BY <4>1, <2>1 DEF Suspension
      <4>3. org.suspendedAt = FALSE
        BY <4>2 DEF Rows, OrgRow
      <4> QED BY <4>3, <3>1, <2>1 DEF Moved, OrgMoves, OrgOp
    <3> QED BY <3>2, <3>3 DEF Suspension
  <2> QED BY <2>2, <2>3
<1>6. ASSUME NEW s \in Slots, \/ WriteProject(s) \/ CreateProject(s)
                              \/ WriteMember(s) \/ Invite(s) \/ MarkAccepted(s)
      PROVE  Suspension'
  <2>1. request' = Answered(s) /\ UNCHANGED <<org, overtaken>>
    BY <1>6 DEF WriteProject, CreateProject, WriteMember, Invite, MarkAccepted
  <2>2. org.status = "suspended" =>
            \A t \in Slots : request'[t].op \in OrgOp => request'[t].late
    BY <2>1, AnswerMarks DEF Suspension
  <2> QED BY <2>1, <2>2, <1>1
<1>7. CASE Crash
  BY <1>7, <1>1 DEF Crash, Free, OrgOp
<1>8. CASE \E u \in Users : CreateOrg(u)
  BY <1>8 DEF CreateOrg, Suspension
<1>9. CASE GracePeriod
  <2>1. org' = [org EXCEPT !.deletedAt = Old(org.deletedAt)] /\ org \in OrgRow
    BY <1>9 DEF GracePeriod, Rows
  <2>2. org'.status = org.status /\ org'.suspendedAt = org.suspendedAt
    BY <2>1 DEF OrgRow
  <2> QED BY <1>9, <2>2 DEF GracePeriod, Suspension
<1>10. CASE CleanupOrg
  BY <1>10 DEF CleanupOrg, NoOrg, Suspension
<1>11. CASE \/ \E i \in Invitations : ExpireInvitation(i)
            \/ CleanupProject \/ UNCHANGED vars
  BY <1>11 DEF ExpireInvitation, CleanupProject, vars, Suspension
<1> QED BY <1>2, <1>3, <1>4, <1>5, <1>6, <1>7, <1>8, <1>9, <1>10, <1>11 DEF Next

LEMMA DeletionKept ==
    ASSUME Requests, Rows, Deletion, [Next]_vars
    PROVE  Deletion'
<1>1. CASE UNCHANGED <<org, project, stale>>
  BY <1>1 DEF Deletion
<1>2. CASE \E s \in Slots, input \in Inputs :
              AdmitOrg(s, input) \/ AdmitByMark(s, input) \/ ReadInvitation(s, input)
  BY <1>1, <1>2 DEF AdmitOrg, AdmitByMark, ReadInvitation, Begin
<1>3. CASE \E s \in Slots : \/ AdmitMember(s) \/ ReadRow(s) \/ CountOwners(s)
                            \/ Join(s) \/ WriteMember(s) \/ Invite(s) \/ MarkAccepted(s)
  BY <1>1, <1>3 DEF AdmitMember, ReadRow, CountOwners, Step, Join, WriteMember,
                    Invite, MarkAccepted
<1>4. ASSUME NEW s \in Slots, WriteOrg(s)
      PROVE  Deletion'
  <2> DEFINE r == request[s]
  <2>1. r.op \in OrgOp /\ At(s, "write") /\ UNCHANGED project
    BY <1>4, Tables DEF WriteOrg
  <2>2. MayMove(r.op, r.saw)
    BY <2>1, WriteOfMove
  <2>3. CASE org.status = "none"
    BY <1>1, <1>4, <2>3 DEF WriteOrg
  <2>4. CASE org.status # "none"
    <3>1. /\ org' = Moved(r.op)
          /\ stale' = IF org.status # r.saw THEN stale \cup {"org"} ELSE stale
      BY <1>4, <2>4 DEF WriteOrg
    <3>2. CASE org.status # r.saw
      BY <3>1, <3>2, <2>1 DEF Deletion
    <3>3. CASE org.status = r.saw
      <4>1. <<org.status, OrgMoves[r.op]>> \in OrgTransition
        BY <2>1, <2>2, <3>3, Tables DEF MayMove, OrgOp, ProjectOp
      <4>2. r.op \in {"suspend", "unsuspend"} => org.status # "deleted"
        BY <4>1 DEF OrgTransition
      <4>3. org'.deletedAt # "no" => org'.status = "deleted" \/ "org" \in stale
        BY <3>1, <2>1, <4>2 DEF Moved, OrgMoves, OrgOp, Deletion
      <4> QED BY <4>3, <3>1, <3>3, <2>1 DEF Deletion
    <3> QED BY <3>2, <3>3
  <2> QED BY <2>3, <2>4
<1>5. ASSUME NEW s \in Slots, WriteProject(s)
      PROVE  Deletion'
  <2> DEFINE r == request[s]
  <2>1. r.op \in ProjectOp /\ At(s, "write") /\ UNCHANGED org
    BY <1>5, Tables DEF WriteProject
  <2>2. MayMove(r.op, r.saw)
    BY <2>1, WriteOfMove
  <2>3. CASE project.status = "none"
    BY <1>1, <1>5, <2>3 DEF WriteProject
  <2>4. CASE project.status # "none"
    <3>1. /\ project' = MovedProject(r.op)
          /\ stale' = IF project.status # r.saw THEN stale \cup {"project"} ELSE stale
      BY <1>5, <2>4 DEF WriteProject
    <3>2. CASE project.status # r.saw
      BY <3>1, <3>2, <2>1 DEF Deletion
    <3>3. CASE project.status = r.saw
      <4>1. r.op # "restoreProject" =>
               <<project.status, ProjectMoves[r.op]>> \in ProjectTransition
        BY <2>1, <2>2, <3>3, Tables DEF MayMove, ProjectOp
      <4>2. r.op \in {"archiveProject", "unarchiveProject"} => project.status # "deleted"
        BY <4>1 DEF ProjectTransition
      <4>3. project'.deletedAt # "no" =>
               project'.status = "deleted" \/ "project" \in stale
        BY <3>1, <2>1, <4>2 DEF MovedProject, ProjectMoves, ProjectOp, Deletion
      <4> QED BY <4>3, <3>1, <3>3, <2>1 DEF Deletion
    <3> QED BY <3>2, <3>3
  <2> QED BY <2>3, <2>4
<1>6. CASE \E s \in Slots : CreateProject(s)
  BY <1>6 DEF CreateProject, Deletion
<1>7. CASE \E u \in Users : CreateOrg(u)
  BY <1>7 DEF CreateOrg, Deletion
<1>8. CASE GracePeriod
  <2>1. /\ org' = [org EXCEPT !.deletedAt = Old(org.deletedAt)] /\ org \in OrgRow
        /\ project' = [project EXCEPT !.deletedAt = Old(project.deletedAt)]
        /\ project \in ProjectRow /\ UNCHANGED stale
    BY <1>8 DEF GracePeriod, Rows
  <2> QED BY <2>1 DEF OrgRow, ProjectRow, Old, Deletion
<1>9. CASE CleanupProject
  BY <1>9 DEF CleanupProject, NoProject, Deletion
<1>10. CASE CleanupOrg
  BY <1>10 DEF CleanupOrg, NoOrg, NoProject, Deletion
<1>11. CASE \/ \E i \in Invitations : ExpireInvitation(i)
            \/ Crash \/ UNCHANGED vars
  BY <1>1, <1>11 DEF ExpireInvitation, Crash, vars
<1> QED BY <1>2, <1>3, <1>4, <1>5, <1>6, <1>7, <1>8, <1>9, <1>10, <1>11 DEF Next

-----------------------------------------------------------------------------
(* Invitations.                                                            *)

(* Until it is split an invitation has one accept under way, or none, and  *)
(* once it has made a member that accept is at the mark, or the mark is    *)
(* made.  An accept of a row that is gone outlived the organization.       *)
Takes(s, i) == request[s].op = "accept" /\ request[s].on = i
UsedOnce(i) ==
    /\ \A s, t \in Slots : Takes(s, i) /\ Takes(t, i) => s = t
    /\ invitation[i].joins # 0 =>
          /\ invitation[i].joins = 1
          /\ \A s \in Slots : Takes(s, i) => request[s].left = Write
          /\ invitation[i].status = "accepted" \/ \E s \in Slots : Takes(s, i)
Uses(i) ==
    /\ invitation[i].status # "none" /\ ~invitation[i].split => UsedOnce(i)
    /\ invitation[i].status = "none" =>
          /\ invitation[i].joins = 0
          /\ \A s \in Slots : Takes(s, i) => org.status = "none"

LEMMA AcceptingTakes ==
    ASSUME Requests, NEW i
    PROVE  Accepting(i) = {s \in Slots : Takes(s, i)}
BY DEF Accepting, Busy, Takes, Free

(* What the steps keep that are no part of an accept.                      *)
LEMMA TakesKept ==
    ASSUME Requests, NEW s \in Slots, NEW r, request' = [request EXCEPT ![s] = r],
           request[s].op # "accept", r.op # "accept", NEW i
    PROVE  \A t \in Slots : /\ Takes(t, i)' <=> Takes(t, i)
                            /\ Takes(t, i) => request'[t] = request[t]
BY DEF Requests, Takes

LEMMA FreeTakes == Free.op # "accept"
BY DEF Free

LEMMA UsesKeptIf ==
    ASSUME NEW i \in Invitations, Uses(i), invitation'[i] = invitation[i],
           org.status = "none" => org'.status = "none",
           \A t \in Slots : /\ Takes(t, i)' <=> Takes(t, i)
                            /\ Takes(t, i) => request'[t].left = request[t].left
    PROVE  Uses(i)'
<1>1. UsedOnce(i) => UsedOnce(i)'
  BY DEF UsedOnce
<1> QED BY <1>1 DEF Uses

(* The accept in its three steps, for each invitation.                     *)
LEMMA ReadUses ==
    ASSUME Requests, Rows, NEW s \in Slots, NEW input \in Inputs,
           ReadInvitation(s, input), NEW i \in Invitations, Uses(i)
    PROVE  Uses(i)'
<1> DEFINE r == [op |-> input.op, by |-> input.by, on |-> input.on,
                 to |-> input.to, left |-> Awaits(input.op), saw |-> "none",
                 counted |-> {}, late |-> FALSE]
<1>1. /\ request[s] = Free /\ request' = [request EXCEPT ![s] = r]
      /\ UNCHANGED org /\ input.op = "accept"
  BY Zenon DEF ReadInvitation, Begin
<1>2. r.op = "accept" /\ r.on = input.on
  BY <1>1
<1> HIDE DEF r
<1>3. ~Takes(s, i)
  BY <1>1 DEF Takes, Free
<1>4. DOMAIN request = Slots /\ DOMAIN invitation = Invitations
  BY DEF Requests, Rows
<1>5. input.on \in Invitations
  BY <1>1, InputTyped
<1>6. \A t \in Slots \ {s} : (Takes(t, i)' <=> Takes(t, i)) /\ request'[t] = request[t]
  BY <1>1, <1>4 DEF Takes
<1>7. Takes(s, i)' <=> i = input.on
  BY <1>1, <1>2, <1>4 DEF Takes
<1>8. CASE i # input.on
  <2>1. invitation'[i] = invitation[i]
    BY <1>8, <1>4 DEF ReadInvitation
  <2> QED BY <2>1, <1>1, <1>3, <1>6, <1>7, <1>8, UsesKeptIf
<1>9. CASE i = input.on
  <2> DEFINE row == invitation[i]
             hit == row.split \/ Accepting(i) # {}
  <2>1. row.status = "pending" /\ invitation' = [invitation EXCEPT ![i] =
                                                   [row EXCEPT !.split = hit]]
    BY <1>9 DEF ReadInvitation
  <2>2. row \in InvitationRow
    BY DEF Rows
  <2> HIDE DEF hit
  <2>3. /\ invitation'[i].status = "pending" /\ invitation'[i].joins = row.joins
        /\ invitation'[i].split = hit
    BY <2>1, <2>2, <1>4 DEF InvitationRow
  <2>4. ASSUME ~hit
        PROVE  UsedOnce(i)'
    <3>1. ~row.split /\ \A t \in Slots : ~Takes(t, i)
      BY <2>4, AcceptingTakes DEF hit
    <3>2. UsedOnce(i) /\ row.joins = 0
      BY <3>1, <2>1 DEF Uses, UsedOnce
    <3>3. \A t \in Slots : Takes(t, i)' => t = s
      BY <3>1, <1>6
    <3> QED BY <2>3, <3>2, <3>3 DEF UsedOnce
  <2> QED BY <2>3, <2>4 DEF Uses
<1> QED BY <1>8, <1>9

LEMMA JoinUses ==
    ASSUME Requests, Rows, NEW s \in Slots, Join(s), NEW i \in Invitations, Uses(i)
    PROVE  Uses(i)'
<1> DEFINE q == request[s]
           r == IF org.status = "none" THEN Free ELSE Onward(q)
<1>1. q.op = "accept" /\ q \in Request /\ Head(q.left) = "insert"
  BY JoinKeeps, Staged DEF Join
<1>2. q.on \in Invitations /\ Tail(q.left) = Write /\ q.left # Write
  <2>1. q.op \in Operation /\ q.left \in Ahead(q.op) /\ q.on \in Invitations
    BY <1>1 DEF Request
  <2> QED BY <1>1, <2>1, NextAhead, Rests
<1>3. request' = [request EXCEPT ![s] = r] /\ UNCHANGED org
  BY DEF Join
<1>4. DOMAIN request = Slots /\ DOMAIN invitation = Invitations
  BY DEF Requests, Rows
<1>5. /\ org.status = "none" => r = Free /\ r.op # "accept"
      /\ org.status # "none" => /\ r.op = "accept" /\ r.on = q.on
                                /\ r.left = Write
  BY <1>1, <1>2, OnwardFields DEF Free
<1>6. \A t \in Slots \ {s} : (Takes(t, i)' <=> Takes(t, i)) /\ request'[t] = request[t]
  BY <1>3, <1>4 DEF Takes
<1>7. request'[s] = r /\ (Takes(s, i) <=> i = q.on)
  BY <1>1, <1>3, <1>4 DEF Takes
<1>8. Takes(s, i)' <=> i = q.on /\ org.status # "none"
  BY <1>5, <1>7 DEF Takes
<1> DEFINE row == invitation[i]
<1>9. CASE i # q.on
  <2>1. invitation'[i] = invitation[i]
    BY <1>9, <1>4 DEF Join
  <2> QED BY <2>1, <1>3, <1>6, <1>7, <1>8, <1>9, UsesKeptIf
<1>10. CASE i = q.on /\ org.status = "none"
  <2>1. UNCHANGED invitation
    BY <1>10 DEF Join
  <2>2. row.joins = 0 /\ row.status = "none"
    BY <1>10 DEF Rows, NoInvitations, NoInvitation
  <2> QED BY <2>1, <2>2, <1>3, <1>10 DEF Uses
<1>11. CASE i = q.on /\ org.status # "none"
  <2>1. row \in InvitationRow /\ row.status # "none"
    BY <1>7, <1>11 DEF Rows, Uses
  <2> DEFINE joining == member[q.by] = "none"
  <2>2. invitation' = IF joining /\ row.joins < 2
                      THEN [invitation EXCEPT ![i] = [row EXCEPT !.joins = row.joins + 1]]
                      ELSE invitation
    BY <1>11 DEF Join
  <2>3. /\ invitation'[i].status = row.status /\ invitation'[i].split = row.split
        /\ invitation'[i].joins \in {row.joins, row.joins + 1}
    BY <2>1, <2>2, <1>4 DEF InvitationRow
  <2>4. ASSUME ~row.split
        PROVE  UsedOnce(i)'
    <3>1. row.joins = 0
      BY <2>1, <2>4, <1>2, <1>7, <1>11 DEF Uses, UsedOnce
    <3>2. \A t \in Slots : Takes(t, i) => t = s
      BY <2>1, <2>4, <1>7, <1>11 DEF Uses, UsedOnce
    <3>3. \A t \in Slots : Takes(t, i)' => t = s
      BY <3>2, <1>6
    <3>4. invitation'[i].joins \in {0, 1}
      BY <2>3, <3>1
    <3>5. Takes(s, i)' /\ request'[s].left = Write
      BY <1>5, <1>7, <1>8, <1>11
    <3> QED BY <3>3, <3>4, <3>5 DEF UsedOnce
  <2> QED BY <2>1, <2>3, <2>4 DEF Uses
<1> QED BY <1>9, <1>10, <1>11

LEMMA MarkUses ==
    ASSUME Requests, Rows, NEW s \in Slots, MarkAccepted(s), NEW i \in Invitations,
           Uses(i)
    PROVE  Uses(i)'
<1> DEFINE q == request[s]
<1>1. /\ q.op = "accept" /\ request' = [request EXCEPT ![s] = Free] /\ UNCHANGED org
      /\ invitation' = IF invitation[q.on].status = "none" THEN invitation
                       ELSE [invitation EXCEPT ![q.on] =
                               [invitation[q.on] EXCEPT !.status = "accepted"]]
  BY DEF MarkAccepted, Answered
<1>2. DOMAIN request = Slots /\ DOMAIN invitation = Invitations
  BY DEF Requests, Rows
<1>3. \A t \in Slots \ {s} : (Takes(t, i)' <=> Takes(t, i)) /\ request'[t] = request[t]
  BY <1>1, <1>2 DEF Takes
<1>4. (Takes(s, i) <=> i = q.on) /\ ~Takes(s, i)'
  BY <1>1, <1>2 DEF Takes, Free
<1>5. CASE i # q.on
  <2>1. invitation'[i] = invitation[i]
    BY <1>1, <1>2, <1>5
  <2> QED BY <2>1, <1>1, <1>3, <1>4, <1>5, UsesKeptIf
<1>6. CASE i = q.on
  <2> DEFINE row == invitation[i]
  <2>1. row \in InvitationRow
    BY DEF Rows
  <2>2. /\ invitation'[i].joins = row.joins /\ invitation'[i].split = row.split
        /\ \/ row.status = "none" /\ invitation'[i].status = "none"
           \/ row.status # "none" /\ invitation'[i].status = "accepted"
    BY <2>1, <1>1, <1>2, <1>6 DEF InvitationRow
  <2>3. \A t \in Slots : Takes(t, i)' => Takes(t, i) /\ request'[t] = request[t]
    BY <1>3, <1>4
  <2>4. row.joins # 0 => invitation'[i].status = "accepted"
    BY <2>2 DEF Uses
  <2>5. UsedOnce(i) => UsedOnce(i)'
    BY <2>2, <2>3, <2>4 DEF UsedOnce
  <2> QED BY <2>2, <2>3, <2>5, <1>1 DEF Uses
<1> QED BY <1>5, <1>6

LEMMA InviteUses ==
    ASSUME Requests, Rows, NEW s \in Slots, Invite(s), NEW i \in Invitations, Uses(i)
    PROVE  Uses(i)'
<1>1. /\ request[s].op = "invite" /\ request' = [request EXCEPT ![s] = Free]
      /\ UNCHANGED org
  BY DEF Invite, Answered
<1>2. \A t \in Slots : /\ Takes(t, i)' <=> Takes(t, i)
                       /\ Takes(t, i) => request'[t] = request[t]
  BY <1>1, FreeTakes, TakesKept
<1>3. CASE invitation'[i] = invitation[i]
  BY <1>1, <1>2, <1>3, UsesKeptIf
<1>4. CASE invitation'[i] # invitation[i]
  <2> DEFINE new == [NoInvitation EXCEPT !.status = "pending", !.role = request[s].to]
  <2>1. org.status # "none" /\ \E k \in Invitations :
           invitation[k].status = "none" /\ invitation' = [invitation EXCEPT ![k] = new]
    BY <1>4 DEF Invite
  <2>2. /\ org.status # "none" /\ invitation[i].status = "none"
        /\ invitation'[i] = new
    BY <2>1, <1>4 DEF Rows
  <2>3. new.joins = 0 /\ new.status = "pending"
    BY EmptyRows DEF NoInvitation
  <2> HIDE DEF new
  <2>4. \A t \in Slots : ~Takes(t, i)
    BY <2>2 DEF Uses
  <2>5. UsedOnce(i)'
    BY <2>2, <2>3, <2>4, <1>2 DEF UsedOnce
  <2> QED BY <2>2, <2>3, <2>5 DEF Uses
<1> QED BY <1>3, <1>4

LEMMA ExpireUses ==
    ASSUME Rows, NEW k \in Invitations, ExpireInvitation(k), NEW i \in Invitations,
           Uses(i)
    PROVE  Uses(i)'
<1>1. /\ UNCHANGED <<org, request>>
      /\ invitation' = [invitation EXCEPT ![k] = [invitation[k] EXCEPT !.expired = TRUE]]
  BY DEF ExpireInvitation
<1>2. invitation[i] \in InvitationRow /\ DOMAIN invitation = Invitations
  BY DEF Rows
<1>3. /\ invitation'[i].status = invitation[i].status
      /\ invitation'[i].joins = invitation[i].joins
      /\ invitation'[i].split = invitation[i].split
  BY <1>1, <1>2 DEF InvitationRow
<1>4. \A t \in Slots : Takes(t, i)' <=> Takes(t, i)
  BY <1>1 DEF Takes
<1>5. UsedOnce(i) => UsedOnce(i)'
  BY <1>1, <1>3, <1>4 DEF UsedOnce
<1> QED BY <1>1, <1>3, <1>4, <1>5 DEF Uses

LEMMA CrashUses ==
    ASSUME Requests, Rows, Crash, NEW i \in Invitations, Uses(i)
    PROVE  Uses(i)'
<1> DEFINE row == invitation[i]
           torn == row.status # "none" /\ \E s \in Accepting(i) : At(s, "write")
           hit == row.split \/ torn
<1>1. /\ invitation'[i] = [row EXCEPT !.split = hit]
      /\ request' = [s \in Slots |-> Free]
  BY DEF Crash
<1>2. row \in InvitationRow
  BY DEF Rows
<1> HIDE DEF torn, hit
<1>3. /\ invitation'[i].status = row.status /\ invitation'[i].joins = row.joins
      /\ invitation'[i].split = hit
  BY <1>1, <1>2 DEF InvitationRow
<1>4. \A t \in Slots : ~Takes(t, i)'
  BY <1>1 DEF Takes, Free
<1>5. ASSUME ~hit, row.status # "none"
      PROVE  UsedOnce(i)'
  <2>1. ~row.split /\ ~torn
    BY <1>5 DEF hit
  <2>2. UsedOnce(i)
    BY <2>1, <1>5 DEF Uses
  <2>3. ASSUME row.joins # 0
        PROVE  row.joins = 1 /\ row.status = "accepted"
    <3>1. row.joins = 1 /\ row.status # "none"
      BY <2>2, <2>3 DEF UsedOnce, Uses
    <3>2. ASSUME NEW s \in Slots, Takes(s, i)
          PROVE  FALSE
      <4>1. request[s].left = Write /\ s \in Accepting(i)
        BY <2>2, <2>3, <3>2, AcceptingTakes DEF UsedOnce
      <4>2. At(s, "write")
        BY <4>1, Rests DEF Accepting, Busy, At
      <4> QED BY <4>1, <4>2, <3>1, <2>1 DEF torn
    <3> QED BY <2>2, <2>3, <3>1, <3>2 DEF UsedOnce
  <2> QED BY <2>3, <1>3, <1>4 DEF UsedOnce
<1> QED BY <1>3, <1>4, <1>5 DEF Uses

LEMMA UsesKept ==
    ASSUME Requests, Rows, \A i \in Invitations : Uses(i), [Next]_vars
    PROVE  \A i \in Invitations : Uses(i)'
<1> TAKE i \in Invitations
<1>0. Uses(i)
  OBVIOUS
<1>1. ASSUME UNCHANGED invitation, org.status = "none" => org'.status = "none",
             \A t \in Slots : /\ Takes(t, i)' <=> Takes(t, i)
                              /\ Takes(t, i) => request'[t].left = request[t].left
      PROVE  Uses(i)'
  BY <1>0, <1>1, UsesKeptIf
<1>2. ASSUME NEW s \in Slots, NEW input \in Inputs,
             AdmitOrg(s, input) \/ AdmitByMark(s, input)
      PROVE  Uses(i)'
  <2> DEFINE r == [op |-> input.op, by |-> input.by, on |-> input.on,
                   to |-> input.to, left |-> Awaits(input.op), saw |-> "none",
                   counted |-> {}, late |-> FALSE]
  <2>1. Begin(s, input) /\ UNCHANGED <<org, invitation>>
    BY <1>2 DEF AdmitOrg, AdmitByMark, Begin
  <2>2. request[s] = Free /\ request' = [request EXCEPT ![s] = r]
    BY <2>1, Zenon DEF Begin
  <2>3. r.op # "accept" /\ Free.op # "accept"
    BY <1>2, Tables DEF AdmitOrg, AdmitByMark, ProjectOp, Free
  <2> HIDE DEF r
  <2> QED BY <1>1, <2>1, <2>2, <2>3, TakesKept
<1>3. ASSUME NEW s \in Slots, AdmitMember(s) \/ ReadRow(s) \/ CountOwners(s)
      PROVE  Uses(i)'
  <2>1. UNCHANGED <<org, invitation>>
    BY <1>3 DEF AdmitMember, ReadRow, CountOwners, Step
  <2>2. PICK r : /\ request' = [request EXCEPT ![s] = r]
                 /\ r = Free \/ r.op = request[s].op
    BY <1>3, ReadShape
  <2>3. request[s].op # "accept" /\ r.op # "accept"
    BY <1>3, <2>2, ReadShape DEF Free
  <2> QED BY <1>1, <2>1, <2>2, <2>3, TakesKept
<1>4. ASSUME NEW s \in Slots, WriteOrg(s)
      PROVE  Uses(i)'
  <2>1. request[s].op # "accept"
    BY <1>4, Tables DEF WriteOrg, OrgOp
  <2>2. /\ UNCHANGED invitation
        /\ org.status = "none" => org' = org
        /\ request' = Overtake(s) \/ request' = Answered(s)
    BY <1>4 DEF WriteOrg
  <2>3. CASE request' = Answered(s)
    <3>1. request' = [request EXCEPT ![s] = Free]
      BY <2>3 DEF Answered
    <3> QED BY <1>1, <2>1, <2>2, <3>1, FreeTakes, TakesKept
  <2>4. CASE request' = Overtake(s)
    <3>1. \A q \in Request : LET o == [q EXCEPT !.late = TRUE]
                             IN o.op = q.op /\ o.on = q.on /\ o.left = q.left
      BY DEF Request
    <3>2. ASSUME NEW t \in Slots
          PROVE  /\ Takes(t, i)' <=> Takes(t, i)
                 /\ Takes(t, i) => request'[t].left = request[t].left
      <4>1. CASE t = s
        BY <4>1, <2>1, <2>4, FreeTakes, OvertakeKeeps DEF Takes
      <4>2. CASE t # s
        <5>1. \/ request[t] = Free /\ request'[t] = Free
              \/ /\ request[t] \in Request
                 /\ request'[t] = [request[t] EXCEPT !.late = TRUE]
          BY <4>2, <2>4, OvertakeKeeps
        <5> QED BY <5>1, <3>1 DEF Takes
      <4> QED BY <4>1, <4>2
    <3> QED BY <1>1, <2>2, <3>2
  <2> QED BY <2>2, <2>3, <2>4
<1>5. ASSUME NEW s \in Slots, WriteProject(s) \/ CreateProject(s) \/ WriteMember(s)
      PROVE  Uses(i)'
  <2>1. request[s].op # "accept"
    BY <1>5, Tables DEF WriteProject, CreateProject, WriteMember, ProjectOp
  <2>2. UNCHANGED <<org, invitation>> /\ request' = [request EXCEPT ![s] = Free]
    BY <1>5 DEF WriteProject, CreateProject, WriteMember, Answered
  <2> QED BY <1>1, <2>1, <2>2, FreeTakes, TakesKept
<1>6. CASE \E u \in Users : CreateOrg(u)
  <2>1. Busy = {} /\ UNCHANGED <<invitation, request>>
    BY <1>6 DEF CreateOrg
  <2>2. \A t \in Slots : request[t] = Free
    BY <2>1 DEF Busy
  <2>3. \A t \in Slots : ~Takes(t, i) /\ ~Takes(t, i)'
    BY <2>1, <2>2 DEF Takes, Free
  <2>4. UsedOnce(i) => UsedOnce(i)'
    BY <2>1, <2>3 DEF UsedOnce
  <2> QED BY <1>0, <2>1, <2>3, <2>4 DEF Uses
<1>7. CASE GracePeriod
  <2>1. org' = [org EXCEPT !.deletedAt = Old(org.deletedAt)] /\ org \in OrgRow
    BY <1>7 DEF GracePeriod, Rows
  <2>2. org'.status = org.status
    BY <2>1 DEF OrgRow
  <2> QED BY <1>1, <1>7, <2>2 DEF GracePeriod, Takes
<1>8. CASE CleanupOrg
  <2>1. /\ invitation'[i] = NoInvitation /\ org' = NoOrg
    BY <1>8 DEF CleanupOrg, NoInvitations
  <2>2. /\ NoInvitation.joins = 0 /\ NoInvitation.status = "none"
        /\ UNCHANGED request
    BY <1>8 DEF NoInvitation, CleanupOrg
  <2>3. NoOrg.status = "none"
    BY EmptyRows
  <2> QED BY <2>1, <2>2, <2>3 DEF Uses
<1>9. CASE CleanupProject \/ UNCHANGED vars
  BY <1>1, <1>9 DEF CleanupProject, vars, Takes
<1>10. CASE \E k \in Invitations : ExpireInvitation(k)
  BY <1>0, <1>10, ExpireUses
<1>11. CASE Crash
  BY <1>0, <1>11, CrashUses
<1>12. CASE \E s \in Slots, input \in Inputs : ReadInvitation(s, input)
  BY <1>0, <1>12, ReadUses
<1>13. CASE \E s \in Slots : Join(s)
  BY <1>0, <1>13, JoinUses
<1>14. CASE \E s \in Slots : MarkAccepted(s)
  BY <1>0, <1>14, MarkUses
<1>15. CASE \E s \in Slots : Invite(s)
  BY <1>0, <1>15, InviteUses
<1> QED BY <1>2, <1>3, <1>4, <1>5, <1>6, <1>7, <1>8, <1>9, <1>10, <1>11, <1>12,
           <1>13, <1>14, <1>15 DEF Next

-----------------------------------------------------------------------------
(* The inductive invariant and what follows.                               *)

TenancyInv == /\ Requests /\ Rows /\ Suspension /\ Deletion
              /\ \A i \in Invitations : Uses(i)

LEMMA TenancyInductive == Spec => []TenancyInv
<1>1. Init => TenancyInv
  <2> SUFFICES ASSUME Init PROVE TenancyInv
    OBVIOUS
  <2>1. Requests /\ \A s \in Slots : request[s] = Free
    BY DEF Init, Requests
  <2>2. Rows
    BY EmptyRows DEF Init, Rows
  <2>3. Suspension
    BY DEF Init, Suspension, NoOrg
  <2>4. Deletion
    BY DEF Init, Deletion, NoOrg, NoProject
  <2>5. \A i \in Invitations : Uses(i)
    BY <2>1 DEF Init, Uses, NoInvitations, NoInvitation, NoOrg
  <2> QED BY <2>1, <2>2, <2>3, <2>4, <2>5 DEF TenancyInv
<1>2. TenancyInv /\ [Next]_vars => TenancyInv'
  <2> SUFFICES ASSUME Requests, Rows, Suspension, Deletion,
                      \A i \in Invitations : Uses(i), [Next]_vars
               PROVE  TenancyInv'
    BY DEF TenancyInv
  <2>1. org.status \in Status /\ project.status \in Status
    BY DEF Rows, OrgRow, ProjectRow, Status
  <2>2. Requests'
    BY <2>1, RequestsKept
  <2>3. (\A i \in Invitations : Uses(i))'
    BY UsesKept
  <2> QED BY <2>2, <2>3, RowsKept, SuspensionKept, DeletionKept DEF TenancyInv
<1> QED BY <1>1, <1>2, PTL DEF Spec

(* In every organization the two gates agree unless a request that came    *)
(* before the suspension wrote the row after it.  (With the types.)        *)
THEOREM GatesAgree == Spec => []OrgGatesAgree
<1>1. TenancyInv => OrgGatesAgree
  BY TypeOKIsRows DEF TenancyInv, Suspension, OrgGatesAgree
<1> QED BY <1>1, TenancyInductive, PTL

(* The cleanup removes what is deleted, or was written on a stale read.    *)
THEOREM CleanupIsSafe == Spec => []CleanupSparesTheLiving
<1>1. TenancyInv => CleanupSparesTheLiving
  BY DEF TenancyInv, Deletion, CleanupSparesTheLiving
<1> QED BY <1>1, TenancyInductive, PTL

(* However many invitations, users and requests there are, an invitation   *)
(* makes two members only after two accepts overlapped or a crash tore one. *)
THEOREM InvitationsUsedOnce == Spec => []InvitationUsedOnce
<1>1. TenancyInv => InvitationUsedOnce
  <2> SUFFICES ASSUME TenancyInv, NEW i \in Invitations, invitation[i].joins > 1
               PROVE  invitation[i].split
    BY DEF InvitationUsedOnce
  <2>1. Uses(i) /\ invitation[i].joins \in {0, 1, 2}
    BY DEF TenancyInv, Rows, InvitationRow
  <2> QED BY <2>1 DEF Uses, UsedOnce
<1> QED BY <1>1, TenancyInductive, PTL

(* A suspended organization is left only by a request admitted before the  *)
(* suspension.                                                             *)
THEOREM SuspensionIsLeftByEarlier == Spec => SuspensionEndsEarlierRequest
<1>1. TenancyInv /\ [Next]_vars =>
        [org.status = "suspended" /\ org'.status \notin {"suspended", "none"} =>
            \E s \in Slots : /\ At(s, "write") /\ request'[s] = Free
                             /\ request[s].late]_vars
  <2> SUFFICES ASSUME Requests, Rows, Suspension, Next,
                      org.status = "suspended", org'.status \notin {"suspended", "none"}
               PROVE  \E s \in Slots : /\ At(s, "write") /\ request'[s] = Free
                                      /\ request[s].late
    BY DEF TenancyInv
  <2>1. PICK s \in Slots : WriteOrg(s)
    <3>1. org' # org
      OBVIOUS
    <3>2. CASE GracePeriod
      <4>1. org' = [org EXCEPT !.deletedAt = Old(org.deletedAt)] /\ org \in OrgRow
        BY <3>2 DEF GracePeriod, Rows
      <4> QED BY <4>1 DEF OrgRow
    <3> QED BY <3>1, <3>2, EmptyRows DEF Next, CreateOrg, AdmitOrg, AdmitByMark,
               ReadInvitation, Begin, AdmitMember, ReadRow, CountOwners, Step,
               WriteProject, CreateProject, WriteMember, Invite, Join, MarkAccepted,
               ExpireInvitation, Crash, CleanupProject, CleanupOrg
  <2>2. At(s, "write") /\ request[s].op \in OrgOp
    BY <2>1, Tables DEF WriteOrg
  <2>3. request[s].late
    BY <2>2 DEF Suspension
  <2>4. request' = Overtake(s) \/ request' = [request EXCEPT ![s] = Free]
    BY <2>1 DEF WriteOrg, Answered
  <2>5. request'[s] = Free
    BY <2>4, OvertakeKeeps DEF Requests
  <2> QED BY <2>2, <2>3, <2>5
<1> QED BY <1>1, TenancyInductive, PTL DEF Spec, SuspensionEndsEarlierRequest

(* The last owner goes only by a request whose count of the owners is no   *)
(* longer true when it writes.                                             *)
THEOREM LastOwnerStays == Spec => LastOwnerGoesByStaleCount
<1>1. TenancyInv /\ [Next]_vars =>
        [Owners # {} /\ Owners' = {} /\ org'.status # "none" =>
            \E s \in Slots : /\ At(s, "write") /\ request'[s] = Free
                             /\ request[s].counted # Owners]_vars
  <2> SUFFICES ASSUME Requests, Rows, Next,
                      Owners # {}, Owners' = {}, org'.status # "none"
               PROVE  \E s \in Slots : /\ At(s, "write") /\ request'[s] = Free
                                      /\ request[s].counted # Owners
    BY DEF TenancyInv
  <2>1. PICK u \in Users : member[u] = "owner"
    BY DEF Owners
  <2>2. \A v \in Users : member'[v] # "owner"
    BY DEF Owners
  <2>3. PICK s \in Slots : WriteMember(s)
    <3>1. member' # member
      BY <2>1, <2>2
    <3>2. ASSUME NEW v \in Users, CreateOrg(v)
          PROVE  FALSE
      BY <3>2, <2>2, EmptyRows DEF CreateOrg
    <3>3. ASSUME NEW s \in Slots, Join(s)
          PROVE  FALSE
      <4>1. PICK role : \/ member' = member
                        \/ /\ member[request[s].by] = "none"
                           /\ member' = [member EXCEPT ![request[s].by] = role]
        BY <3>3 DEF Join
      <4> QED BY <4>1, <2>1, <2>2 DEF Rows
    <3>4. CASE CleanupOrg
      BY <3>4, EmptyRows DEF CleanupOrg
    <3> QED BY <3>1, <3>2, <3>3, <3>4 DEF Next, AdmitOrg, AdmitByMark,
               ReadInvitation, Begin, AdmitMember, ReadRow, CountOwners, Step,
               WriteOrg, WriteProject, CreateProject, Invite, MarkAccepted,
               ExpireInvitation, Crash, GracePeriod, CleanupProject
  <2> DEFINE r == request[s]
  <2>4. /\ At(s, "write") /\ r \in Request /\ Head(r.left) = "write"
        /\ request' = [request EXCEPT ![s] = Free]
    BY <2>3, Staged DEF WriteMember, Answered
  <2>5. r.left = Write
    <3>1. r.op \in Operation /\ r.left \in Ahead(r.op)
      BY <2>4 DEF Request
    <3> QED BY <2>4, <3>1, NextAhead
  <2>6. /\ member' = [member EXCEPT ![r.on] = r.to]
        /\ r.op = "add" => member[r.on] = "none"
        /\ r.op \in {"add", "role", "remove"}
    BY <2>1, <2>2, <2>3 DEF WriteMember
  <2> HIDE DEF r
  <2>7. member[r.on] = "owner" /\ u = r.on /\ r.to # "owner"
    BY <2>1, <2>2, <2>6 DEF Rows
  <2>8. Owners = {r.on}
    BY <2>2, <2>6, <2>7 DEF Rows, Owners
  <2>9. r.counted # {r.on}
    BY <2>4, <2>5, <2>6, <2>7 DEF Request
  <2>10. request'[s] = Free
    BY <2>4 DEF Requests
  <2> QED BY <2>4, <2>8, <2>9, <2>10 DEF r
<1> QED BY <1>1, TenancyInductive, PTL DEF Spec, LastOwnerGoesByStaleCount

=============================================================================
