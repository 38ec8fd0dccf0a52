------------------------------ MODULE Spending ------------------------------
(***************************************************************************)
(* What a renewal may cost: the keeper resolves the blob's policy, asks    *)
(* the cost engine (api/src/lib/cost-engine.ts) whether the spending       *)
(* limits allow the estimate, executes, and the cost is recorded after     *)
(* the fact; meanwhile the routes edit policies, limits and budgets and    *)
(* the scheduler rolls budget windows over.                                *)
(*                                                                         *)
(* Two facts about the repository are parameters (Facts), so that the      *)
(* engine can also be checked as it is meant:                              *)
(*   sums      - whether getSpendingLimitSpent's query runs (its SUM names *)
(*               an alias, cr, the query does not have: {FALSE});          *)
(*   records   - whether an executed renewal calls recordActualCost        *)
(*               (nothing calls it: {FALSE}).                              *)
(* Renewals are of different blobs that share organization, project and    *)
(* wallet; a renewal's estimate is what a job row happens to hold.         *)
(***************************************************************************)
EXTENDS Policies, Functions

CONSTANTS LimitId, LimitTables,  \* spending_limits rows, contents to start from
          NewLimits,             \* rows a POST or a PATCH may ask for
          BudgetRows,            \* budgets row to start from
          BudgetAlert,           \* spending at which alert_threshold is reached
          Facts,                 \* values of <<sums, records>>
          Spare,                 \* pairs <<edits, renewals>> a behaviour may have
          Estimates, MaxCost,    \* estimated_cost and actual_cost of a renewal
          InitialCosts,          \* cost_records to start from
          MaxRenewals            \* bound: renewals started

ASSUME ResolverAssumption == Resolver = Blob   \* a renewal resolves its own policy

LimitStatus == {"absent", "defined", "active", "paused", "archived"}

LimitTransition ==
  {<<"defined", "active">>, <<"active", "paused">>, <<"paused", "active">>,
   <<"active", "archived">>, <<"paused", "archived">>, <<"defined", "archived">>}

BudgetStatus == {"absent", "defined", "active", "window_closed", "archived"}

BudgetTransition ==
  {<<"defined", "active">>, <<"active", "window_closed">>, <<"window_closed", "active">>,
   <<"active", "archived">>, <<"window_closed", "archived">>, <<"defined", "archived">>}

LimitRow == [status : LimitStatus, scope : {"wallet", "project", "organization", "policy"},
             target : PolicyId \cup {Nobody}, amount : Nat]

BudgetRow == [status : BudgetStatus, project : BOOLEAN, windowed : BOOLEAN]

ASSUME SpendingAssumption ==
  /\ LimitTables \subseteq [LimitId -> LimitRow] /\ NewLimits \subseteq LimitRow
  /\ BudgetRows \subseteq BudgetRow /\ InitialCosts \subseteq [Blob -> Nat]
  /\ Estimates \subseteq Nat /\ MaxCost \in Nat /\ MaxRenewals \in Nat
  /\ Spare \subseteq (0..MaxEdits) \X (0..MaxRenewals)

VARIABLES limit,     \* the spending_limits rows
          budget,    \* the budgets row
          cost,      \* cost_records of a blob within the limits' period
          renewal,   \* the renewal of each blob
          limitReq,  \* a limit or budget request between its read and its write
          rollover,  \* status of the budget when budget_rollover selected it
          excused,   \* history: what was spent under a limit when it was last written
                     \* or when an overridden renewal was recorded
          sums, records, started

spendVars == <<limit, budget, cost, renewal, limitReq, rollover, excused, sums, records,
               started>>
allVars == <<policyVars, spendVars>>

NoRenewal == [stage |-> "none", policy |-> Nobody, estimate |-> 0, limits |-> {},
              overridden |-> FALSE, soft |-> FALSE]

NoLimitRequest == [kind |-> "none"]

-----------------------------------------------------------------------------
(* The cost engine.                                                        *)

\* Blobs whose records getSpendingLimitSpent joins for a limit's scope.
Charged(row) ==
  CASE row.scope = "wallet" -> Blob \ Walletless
    [] row.scope = "policy" -> {b \in Blob : b \in policy[row.target].assigned}
    [] OTHER -> Blob

\* getSpendingLimitSpent.
Spent(row, costs) == FoldFunctionOnSet(+, 0, costs, Charged(row))

SpendingInit ==
  /\ PolicyInit
  /\ limit \in LimitTables /\ budget \in BudgetRows
  /\ cost \in InitialCosts
  /\ renewal = [b \in Blob |-> NoRenewal]
  /\ limitReq = NoLimitRequest /\ rollover = "none"
  /\ excused = [l \in LimitId |-> Spent(limit[l], cost)]
  /\ \E f \in Facts : sums = f[1] /\ records = f[2]
  /\ \E n \in Spare : edits = MaxEdits - n[1] /\ started = MaxRenewals - n[2]

\* getEffectiveSpendingLimits.
EffectiveLimits(b, p) ==
  {l \in LimitId :
    /\ limit[l].status = "active"
    /\ \/ limit[l].scope \in {"project", "organization"}
       \/ limit[l].scope = "wallet" /\ b \notin Walletless
       \/ limit[l].scope = "policy" /\ p # Nobody /\ limit[l].target = p}

NeverExceeds(spent, estimate, amount) == FALSE

WouldExceed(spent, estimate, amount) == spent + estimate > amount

\* The soft check: the records of an organization budget are those without a
\* project, and these blobs have one.
SoftThresholdCrossed(estimate) ==
  /\ budget.status = "active"
  /\ LET spent == IF budget.project THEN FoldFunctionOnSet(+, 0, cost, Blob) ELSE 0
     IN spent + estimate >= BudgetAlert

-----------------------------------------------------------------------------
(* A renewal.                                                              *)

Now(b, r) == renewal' = [renewal EXCEPT ![b] = r]

StartRenewal(b) ==
  /\ renewal[b].stage = "none" /\ started < MaxRenewals
  /\ started' = started + 1

renewalRest == <<policy, policyReq, edits, limit, budget, limitReq, rollover, sums, records>>

\* The scan cycle: the policy first.
StartCycleRenewal(b) ==
  /\ StartRenewal(b)
  /\ BeginResolution(b, b)
  /\ Now(b, [NoRenewal EXCEPT !.stage = "resolving"])
  /\ UNCHANGED <<renewalRest, cost, excused>>

\* The queue: no policy, the job's estimate and its override flag.
StartQueuedRenewal(b, estimate, overridden) ==
  /\ StartRenewal(b)
  /\ Now(b, [NoRenewal EXCEPT !.stage = IF overridden THEN "execute" ELSE "select",
                              !.estimate = estimate, !.overridden = overridden])
  /\ UNCHANGED <<renewalRest, resolution, cost, excused>>

\* The policy is known; the estimate is that of the blob's latest job, if any.
PolicyResolved(b, estimate) ==
  LET result == resolution[b].result IN
  /\ resolution[b].level = Done
  /\ resolution' = [resolution EXCEPT ![b] = NoResolution]
  /\ Now(b, IF ~result.auto THEN NoRenewal
            ELSE [NoRenewal EXCEPT !.stage = "select", !.policy = result.policy,
                                   !.estimate = estimate])
  /\ UNCHANGED <<renewalRest, cost, excused, started>>

\* checkBudgetBeforeExecution: the limits, as they are now.
SelectLimits(b) ==
  /\ renewal[b].stage = "select"
  /\ Now(b, [renewal[b] EXCEPT !.stage = "limits",
               !.limits = {<<l, limit[l]>> : l \in EffectiveLimits(b, renewal[b].policy)}])
  /\ UNCHANGED <<renewalRest, resolution, cost, excused, started>>

\* One limit: the query throws, the renewal is blocked, or the next one is looked at.
CheckLimit(b, l) ==
  LET r == renewal[b] IN
  /\ r.stage = "limits"
  /\ \E x \in r.limits :
       /\ x[1] = l
       /\ Now(b, IF ~sums \/ WouldExceed(Spent(x[2], cost), r.estimate, x[2].amount)
                 THEN NoRenewal ELSE [r EXCEPT !.limits = @ \ {x}])
  /\ UNCHANGED <<renewalRest, resolution, cost, excused, started>>

CheckBudgets(b) ==
  LET r == renewal[b] IN
  /\ r.stage = "limits" /\ r.limits = {}
  /\ Now(b, [r EXCEPT !.stage = "execute", !.soft = SoftThresholdCrossed(r.estimate)])
  /\ UNCHANGED <<renewalRest, resolution, cost, excused, started>>

\* The transaction on chain.
Execute(b, ok) ==
  /\ renewal[b].stage = "execute"
  /\ Now(b, IF ok /\ records THEN [renewal[b] EXCEPT !.stage = "record"] ELSE NoRenewal)
  /\ UNCHANGED <<renewalRest, resolution, cost, excused, started>>

\* recordActualCost of a job that has none yet; the actual cost is the chain's.
RecordActualCost(b, actual) ==
  LET costs == [cost EXCEPT ![b] = @ + actual] IN
  /\ renewal[b].stage = "record"
  /\ cost' = costs
  /\ excused' = IF renewal[b].overridden
                THEN [l \in LimitId |-> Spent(limit[l], costs)] ELSE excused
  /\ Now(b, NoRenewal)
  /\ UNCHANGED <<renewalRest, resolution, started>>

\* The limits' period passes over a blob's records.
PeriodLapses(b) ==
  /\ cost[b] > 0 /\ Edit
  /\ cost' = [cost EXCEPT ![b] = 0]
  /\ UNCHANGED <<policy, resolution, policyReq, limit, budget, renewal, limitReq, rollover,
                 excused, sums, records, started>>

-----------------------------------------------------------------------------
(* The routes and the rollover. A request reads, then updates by id.       *)

apiRest == <<policy, resolution, policyReq, cost, renewal, sums, records, started>>

PutLimit(l, row) ==
  /\ limit' = [limit EXCEPT ![l] = row]
  /\ excused' = [excused EXCEPT ![l] = Spent(row, cost)]

\* POST /spending-limits: the target exists in the organization.
CreateLimit(l, row) ==
  /\ limit[l].status = "absent" /\ Edit
  /\ row.scope = "policy" => policy[row.target].status # "absent"
  /\ PutLimit(l, [row EXCEPT !.status = "defined"])
  /\ UNCHANGED <<budget, limitReq, rollover, apiRest>>

\* PATCH /spending-limits/:id: neither the status nor the target is looked at.
PatchLimit(l, row) ==
  /\ limit[l].status # "absent" /\ Edit
  /\ PutLimit(l, [row EXCEPT !.status = limit[l].status])
  /\ UNCHANGED <<budget, limitReq, rollover, apiRest>>

\* POST /spending-limits/:id/activate, /pause and DELETE.
LimitMoveRead(l, to) ==
  /\ limitReq = NoLimitRequest /\ <<limit[l].status, to>> \in LimitTransition /\ Edit
  /\ limitReq' = [kind |-> "limit", row |-> l, to |-> to, saw |-> limit[l].status]
  /\ UNCHANGED <<limit, excused, budget, rollover, apiRest>>

LimitMoveWrite ==
  /\ limitReq.kind = "limit"
  /\ PutLimit(limitReq.row, [limit[limitReq.row] EXCEPT !.status = limitReq.to])
  /\ limitReq' = NoLimitRequest
  /\ UNCHANGED <<edits, budget, rollover, apiRest>>

\* POST /budgets.
CreateBudget(project) ==
  /\ budget.status = "absent" /\ Edit
  /\ budget' = [status |-> "defined", project |-> project, windowed |-> FALSE]
  /\ UNCHANGED <<limit, excused, limitReq, rollover, apiRest>>

\* POST /budgets/:id/activate, /close-window, /archive and DELETE.
BudgetMoveRead(to) ==
  /\ limitReq = NoLimitRequest /\ <<budget.status, to>> \in BudgetTransition /\ Edit
  /\ limitReq' = [kind |-> "budget", to |-> to, saw |-> budget.status]
  /\ UNCHANGED <<limit, excused, budget, rollover, apiRest>>

BudgetMoveWrite ==
  /\ limitReq.kind = "budget"
  /\ budget' = [budget EXCEPT !.status = limitReq.to]
  /\ limitReq' = NoLimitRequest
  /\ UNCHANGED <<edits, limit, excused, rollover, apiRest>>

\* budget_rollover: the active budgets whose window ended ...
RolloverSelect ==
  /\ rollover = "none" /\ budget.status = "active" /\ budget.windowed /\ Edit
  /\ rollover' = budget.status
  /\ UNCHANGED <<limit, excused, budget, limitReq, apiRest>>

Reopened == "active"

\* ... are closed and reopened by id in one transaction.
RolloverWrite ==
  /\ rollover # "none"
  /\ budget' = [budget EXCEPT !.status = Reopened]
  /\ rollover' = "none"
  /\ UNCHANGED <<edits, limit, excused, limitReq, apiRest>>

LimitRoutes ==
  \/ \E l \in LimitId :
       \/ \E row \in NewLimits : CreateLimit(l, row) \/ PatchLimit(l, row)
       \/ \E to \in LimitStatus : LimitMoveRead(l, to)
  \/ LimitMoveWrite
  \/ \E project \in BOOLEAN : CreateBudget(project)
  \/ \E to \in BudgetStatus : BudgetMoveRead(to)
  \/ BudgetMoveWrite \/ RolloverSelect \/ RolloverWrite

SpendingNext ==
  \/ \E b \in Blob :
       \/ StartCycleRenewal(b)
       \/ ResolveLevel(b) /\ UNCHANGED spendVars
       \/ \E estimate \in Estimates :
            \/ PolicyResolved(b, estimate)
            \/ StartQueuedRenewal(b, estimate, FALSE)
       \/ StartQueuedRenewal(b, 0, TRUE)   \* the estimate is not looked at
       \/ SelectLimits(b)
       \/ \E l \in LimitId : CheckLimit(b, l)
       \/ CheckBudgets(b)
       \/ \E ok \in BOOLEAN : Execute(b, ok)
       \/ \E actual \in 1..MaxCost : RecordActualCost(b, actual)
       \/ PeriodLapses(b)
  \/ PolicyRoutes /\ UNCHANGED spendVars
  \/ LimitRoutes

SpendingSpec == SpendingInit /\ [][SpendingNext]_allVars

-----------------------------------------------------------------------------
Stages == {"none", "resolving", "select", "limits", "execute", "record"}

\* The rows have the shape the schema gives them, and a renewal that awaits its
\* policy is the only one with a resolution under way.
SpendingTypeOK ==
  /\ PolicyTypeOK
  /\ limit \in [LimitId -> LimitRow]
  /\ budget \in BudgetRow
  /\ cost \in [Blob -> Nat]
  /\ \A b \in Blob : /\ renewal[b].stage \in Stages
                     /\ renewal[b].estimate \in Estimates \cup {0}
                     /\ renewal[b].stage = "resolving" <=> resolution[b].level # 0

Larger(m, n) == IF m > n THEN m ELSE n

\* checkBudgetBeforeExecution reads what is recorded, the cost is recorded after the
\* execution: under a wallet, project or organization limit the recorded costs
\* exceed the amount (or what was excused: spent before the limit was last written,
\* or overridden) by no more than one renewal of each blob, however the checks,
\* the edits and the executions interleave.  (With the types.)
OvershootBounded ==
  /\ SpendingTypeOK
  /\ \A l \in LimitId :
       limit[l].status = "active" /\ limit[l].scope # "policy" =>
         Spent(limit[l], cost) <=
           Larger(limit[l].amount, excused[l]) + Cardinality(Charged(limit[l])) * MaxCost

\* An archived policy, limit or budget comes back only by a write whose read saw it
\* before it was archived: a route that validated the earlier status, or a rollover
\* that selected the budget while it was active.
RevivedByStaleWrite ==
  [][/\ \A p \in PolicyId :
          policy[p].status = "archived" /\ policy'[p].status # "archived" =>
            \E q \in PolicyRequest : /\ policyReq[q].to = policy'[p].status
                                     /\ policyReq[q].saw # "archived"
                                     /\ policyReq'[q] # policyReq[q]
     /\ \A l \in LimitId :
          limit[l].status = "archived" /\ limit'[l].status # "archived" =>
            limitReq.kind = "limit" /\ limitReq.saw # "archived" /\ limitReq' # limitReq
     /\ budget.status = "archived" /\ budget'.status # "archived" =>
          \/ limitReq.kind = "budget" /\ limitReq.saw # "archived" /\ limitReq' # limitReq
          \/ rollover = "active" /\ rollover' = "none"]_allVars
=============================================================================
