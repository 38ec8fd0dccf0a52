----------------------------- MODULE MCSpending -----------------------------
(* Two blobs under one limit; tables that make the levels compete.         *)
EXTENDS Spending

Row(status, scope, target, created) ==
  [status |-> status, scope |-> scope, target |-> target,
   tags |-> IF scope = "tag" THEN 1 ELSE 0, assigned |-> {}, created |-> created, auto |-> TRUE]

Absent == Row("absent", "null", "null", 0)

MCPolicyTables ==
  {<<Row("active", "blob", "b1", 1), Row("active", "blob", "b1", 1)>>,
   <<Row("active", "tag", "here", 1), Row("active", "blob", "b1", 2)>>,
   <<[Row("paused", "wallet", "here", 1) EXCEPT !.assigned = {"b1"}],
     Row("active", "organization", "here", 1)>>,
   <<Row("active", "project", "here", 1), Absent>>}

MCNewPolicies == {Row("draft", "organization", "null", 0), Row("draft", "wallet", "here", 0)}

Limit(status, scope, amount) ==
  [status |-> status, scope |-> scope, target |-> IF scope = "policy" THEN 1 ELSE 0,
   amount |-> amount]

MCLimitTables ==
  {<<Limit("active", "organization", 1)>>, <<Limit("active", "policy", 1)>>,
   <<Limit("absent", "wallet", 0)>>}

MCNewLimits == {Limit("defined", "wallet", 1)}

MCBudgetRows ==
  {[status |-> "active", project |-> TRUE, windowed |-> TRUE],
   [status |-> "absent", project |-> FALSE, windowed |-> FALSE]}

\* The engine as it is meant, and as the repository has it.
MCFacts == {<<TRUE, TRUE>>, <<FALSE, FALSE>>}

\* Many renewals with few edits, and the other way round.
MCSpare == {<<0, 3>>, <<1, 2>>, <<2, 1>>}

MCInitialCosts == {[b \in Blob |-> IF b = "b1" THEN 1 ELSE 0]}
=============================================================================
