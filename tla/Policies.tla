------------------------------ MODULE Policies ------------------------------
(***************************************************************************)
(* Policies and the resolution of the one that governs a blob              *)
(* (api/src/lib/policy-engine.ts), while the policy routes                 *)
(* (api/src/routes/policies.ts) edit the same rows. A resolution is a      *)
(* sequence of SELECTs, one for each level of the inheritance chain, so    *)
(* edits fall between them. All blobs live in one organization, project    *)
(* and wallet ("here"); ids are numbers, compared as the code compares     *)
(* UUIDs.                                                                  *)
(***************************************************************************)
EXTENDS Integers, Sequences, FiniteSets

CONSTANTS PolicyId,       \* ids of policies rows
          Blob,           \* blob registrations
          Walletless,     \* blobs without wallet_id
          Untagged,       \* blobs without tags
          MaxTags,        \* tags of a blob
          PolicyTables,   \* contents of the policies table to start from
          NewPolicies,    \* rows a POST or a PATCH may ask for
          Resolver,       \* resolutions under way
          PolicyRequest,  \* API requests under way
          MaxEdits        \* bound: writes of the API

ASSUME PolicyIdAssumption == PolicyId \subseteq Nat \ {0} /\ IsFiniteSet(PolicyId)
ASSUME BlobAssumption ==
  IsFiniteSet(Blob) /\ Walletless \subseteq Blob /\ Untagged \subseteq Blob
ASSUME BoundAssumption == MaxTags \in Nat /\ MaxEdits \in Nat

Nobody == 0   \* policyId null: the system default

PolicyStatus == {"draft", "active", "paused", "archived"}

PolicyTransition ==
  {<<"draft", "active">>, <<"active", "paused">>, <<"paused", "active">>,
   <<"active", "archived">>, <<"paused", "archived">>}

BlobSecond == <<"explicit", "tag", "blob", "wallet", "project", "organization">>

\* The levels in the order the engine asks for them, the most specific first.
Levels == <<"explicit", "blob", "tag", "wallet", "project", "organization">>

Targets == Blob \cup {"here", "elsewhere", "null"}

PolicyRow == [status : PolicyStatus \cup {"absent"},
              scope : {"blob", "tag", "wallet", "project", "organization", "null"},
              target : Targets, tags : 0..MaxTags, assigned : SUBSET Blob,
              created : Nat, auto : BOOLEAN]

ASSUME TableAssumption ==
  PolicyTables \subseteq [PolicyId -> PolicyRow] /\ NewPolicies \subseteq PolicyRow

VARIABLES policy,     \* the policies rows, with their policy_assignments
          resolution, \* the resolutions under way
          policyReq,  \* policy requests between their read and their write
          edits       \* writes of the API so far, of at most MaxEdits

policyVars == <<policy, resolution, policyReq, edits>>

Default == [policy |-> Nobody, auto |-> FALSE]

NoResolution == [level |-> 0, blob |-> "null", result |-> Default, seen |-> {}, edits |-> 0]

Done == Len(Levels) + 1

PolicyInit ==
  /\ policy \in PolicyTables
  /\ resolution = [j \in Resolver |-> NoResolution]
  /\ policyReq = [q \in PolicyRequest |-> [to |-> "none"]]

-----------------------------------------------------------------------------
(* The engine.                                                             *)

\* Whether a row is found on a level when the blob's policies are asked for.
Found(row, b, level) ==
  \/ level = "explicit" /\ b \in row.assigned
  \/ /\ level = row.scope
     /\ \/ level = "blob" /\ row.target = b
        \/ level = "tag" /\ row.tags > 0 /\ b \notin Untagged
        \/ level = "wallet" /\ row.target = "here" /\ b \notin Walletless
        \/ level \in {"project", "organization"} /\ row.target = "here"

\* The query of a level.
Candidates(b, level) ==
  {p \in PolicyId : policy[p].status = "active" /\ Found(policy[p], b, level)}

LaterOnly(level, p, q) == policy[p].created >= policy[q].created

\* The comparators: on the tag level the number of matching tags, then the
\* creation time, then the id.
Before(level, p, q) ==
  LET s == policy[p]
      t == policy[q]
      latest == s.created > t.created \/ (s.created = t.created /\ p > q)
  IN IF level = "tag" /\ s.tags # t.tags THEN s.tags > t.tags ELSE latest

Resolved(table, p) == [policy |-> p, auto |-> table[p].auto]

\* resolveEffectivePolicy: one level.
ResolveLevel(j) ==
  LET r == resolution[j]
      level == Levels[r.level]
      found == Candidates(r.blob, level) IN
  /\ r.level \in DOMAIN Levels
  /\ resolution' = [resolution EXCEPT ![j] =
       IF found = {} THEN [r EXCEPT !.level = @ + 1]
       ELSE [r EXCEPT !.level = Done,
               !.result = Resolved(policy, CHOOSE p \in found :
                                     \A q \in found \ {p} : Before(level, p, q))]]
  /\ UNCHANGED <<policy, policyReq, edits>>

-----------------------------------------------------------------------------
(* What a resolution promises: the documented order, on one table.         *)

Chain == <<"explicit", "blob", "tag", "wallet", "project", "organization">>

\* <<place in the chain, matching tags, creation time, id>>, larger is stronger.
Strength(row, b, p) ==
  LET n == CHOOSE n \in DOMAIN Chain :
             Found(row, b, Chain[n]) /\ \A m \in 1..(n - 1) : ~Found(row, b, Chain[m])
  IN <<-n, IF Chain[n] = "tag" THEN row.tags ELSE 0, row.created, p>>

Weaker(s, t) == \E n \in 1..4 : s[n] < t[n] /\ \A m \in 1..(n - 1) : s[m] = t[m]

\* The policy that governs b when the table is read at one instant.
Effective(table, b) ==
  LET governing == {p \in PolicyId : /\ table[p].status = "active"
                                     /\ \E n \in DOMAIN Chain : Found(table[p], b, Chain[n])}
      strength(p) == Strength(table[p], b, p)
  IN IF governing = {} THEN Default
     ELSE Resolved(table, CHOOSE p \in governing :
                            \A q \in governing \ {p} : Weaker(strength(q), strength(p)))

BeginResolution(j, b) ==
  /\ resolution[j].level = 0
  /\ resolution' = [resolution EXCEPT ![j] =
       [NoResolution EXCEPT !.level = 1, !.blob = b, !.seen = {Effective(policy, b)}]]

-----------------------------------------------------------------------------
(* The routes.                                                             *)

Edit == edits < MaxEdits /\ edits' = edits + 1

\* A write of the policies table. The history of each resolution under way gets
\* what the table says now, until a second edit, or one that moves a row from one
\* level to another, tells nothing about it any more.
Put(p, row) ==
  LET moved == row.scope # policy[p].scope /\ policy[p].status # "absent"
      table == [policy EXCEPT ![p] = row]
      after(r) == IF r.level \notin DOMAIN Levels THEN r
                  ELSE IF moved \/ r.edits >= 1 THEN [r EXCEPT !.edits = 2, !.seen = {}]
                  ELSE [r EXCEPT !.edits = 1, !.seen = @ \cup {Effective(table, r.blob)}]
  IN /\ policy' = table
     /\ resolution' = [j \in Resolver |-> after(resolution[j])]

\* POST /policies: a draft; the target may be missing for an organization policy.
CreatePolicy(p, row) ==
  /\ policy[p].status = "absent" /\ Edit
  /\ row.scope \in {"organization", "null"} \/ row.target # "null"
  /\ LET times == {policy[q].created : q \in PolicyId}
         latest == CHOOSE t \in times : \A u \in times : u <= t
     IN \E t \in {latest, latest + 1} :
          Put(p, [row EXCEPT !.status = "draft", !.created = t, !.assigned = {}])
  /\ UNCHANGED policyReq

\* PATCH /policies/:id: no look at the status.
PatchPolicy(p, row) ==
  /\ policy[p].status # "absent" /\ Edit
  /\ row.scope = "organization" \/ (row.scope # "null" /\ row.target # "null")
  /\ Put(p, [policy[p] EXCEPT !.scope = row.scope, !.target = row.target,
                              !.tags = row.tags, !.auto = row.auto])
  /\ UNCHANGED policyReq

\* POST /policies/:id/assign and /unassign.
AssignPolicy(p, b) ==
  /\ policy[p].status # "absent" /\ Edit
  /\ Put(p, [policy[p] EXCEPT !.assigned = @ \cup {b}])
  /\ UNCHANGED policyReq

UnassignPolicy(p, b) ==
  /\ b \in policy[p].assigned /\ Edit
  /\ Put(p, [policy[p] EXCEPT !.assigned = @ \ {b}])
  /\ UNCHANGED policyReq

MovedAnywhere(from, to) == from # "absent"

MayMove(from, to) == <<from, to>> \in PolicyTransition

\* POST /policies/:id/activate, /pause, /archive and DELETE: read and check ...
PolicyMoveRead(q, p, to) ==
  /\ policyReq[q].to = "none" /\ Edit
  /\ MayMove(policy[p].status, to)
  /\ policyReq' = [policyReq EXCEPT ![q] = [to |-> to, row |-> p, saw |-> policy[p].status]]
  /\ UNCHANGED <<policy, resolution>>

\* ... then update by id.
PolicyMoveWrite(q) ==
  /\ policyReq[q].to # "none"
  /\ Put(policyReq[q].row, [policy[policyReq[q].row] EXCEPT !.status = policyReq[q].to])
  /\ policyReq' = [policyReq EXCEPT ![q] = [to |-> "none"]]
  /\ UNCHANGED edits

PolicyRoutes ==
  \/ \E p \in PolicyId :
       \/ \E row \in NewPolicies : CreatePolicy(p, row) \/ PatchPolicy(p, row)
       \/ \E b \in Blob : AssignPolicy(p, b) \/ UnassignPolicy(p, b)
       \/ \E q \in PolicyRequest, to \in PolicyStatus : PolicyMoveRead(q, p, to)
  \/ \E q \in PolicyRequest : PolicyMoveWrite(q)

-----------------------------------------------------------------------------
PolicyTypeOK ==
  /\ policy \in [PolicyId -> PolicyRow]
  /\ \A j \in Resolver : /\ resolution[j].level \in 0..Done
                         /\ resolution[j].result.policy \in PolicyId \cup {Nobody}
  /\ edits \in 0..MaxEdits

\* A resolution that at most one edit overtook returns what the documented order
\* gives at some instant between its first and its last query, although it reads
\* the table level by level (resolveEffectivePolicy).
AdmissibleResolution ==
  \A j \in Resolver :
    LET r == resolution[j] IN
    r.level = Done /\ r.edits <= 1 => r.result \in r.seen
=============================================================================
