SPECIFICATION RpcFairSpec
CONSTANTS
    b1 = b1
    b2 = b2
    p1 = p1
    p2 = p2
    none = none
    Blob = {b1}
    NoBlob = none
    Pass = {p1}
    MaxJobs = 2
    BatchLimit = 2
    MaxAttempts = 2
    MaxAttemptCount = 2
    MaxDue = 2
    MaxCrashes = 1
    MaxScanFailures = 0
    MaxErrors = 1
    MaxRequests = 1
    MaxCancels = 1
    SlowPasses = FALSE
    BudgetAnswers = {TRUE, FALSE}
    PolicyAnswers = {TRUE}
    PublisherAnswers = {TRUE, FALSE}
    Outcomes = {"commit", "lost", "error"}
INVARIANT LockHolds
PROPERTY TerminalIsFinal
PROPERTY DueIsRenewed
CHECK_DEADLOCK FALSE
