SPECIFICATION SpendingSpec
CONSTANTS
  PolicyId = {1, 2}
  Blob = {"b1", "b2"}
  Resolver = {"b1", "b2"}
  Walletless = {"b2"}
  Untagged = {"b2"}
  MaxTags = 1
  PolicyTables <- MCPolicyTables
  NewPolicies <- MCNewPolicies
  PolicyRequest = {"q1"}
  MaxEdits = 2
  LimitId = {1}
  LimitTables <- MCLimitTables
  NewLimits <- MCNewLimits
  BudgetRows <- MCBudgetRows
  BudgetAlert = 2
  Facts <- MCFacts
  Spare <- MCSpare
  Estimates = {0, 1}
  MaxCost = 1
  InitialCosts <- MCInitialCosts
  MaxRenewals = 3
INVARIANTS AdmissibleResolution 
PROPERTIES RevivedByStaleWrite
CHECK_DEADLOCK FALSE
