SPECIFICATION Spec
CONSTANTS
    b1 = b1
    b2 = b2
    p1 = p1
    p2 = p2
    none = none
    Blob = {b1}
    NoBlob = none
    Pass = {p1, p2}
    MaxJobs = 2
    BatchLimit = 2
    MaxAttempts = 1
    MaxAttemptCount = 1
    MaxDue = 1
    MaxCrashes = 1
    MaxScanFailures = 1
    MaxErrors = 0
    MaxRequests = 1
    MaxCancels = 1
    SlowPasses = TRUE
    BudgetAnswers = {TRUE}
    PolicyAnswers = {TRUE}
    PublisherAnswers = {TRUE}
    Outcomes = {"commit", "previous", "lost"}
SYMMETRY Interchangeable
INVARIANT TypeOK
INVARIANT OneActivePerBlob
 
CHECK_DEADLOCK FALSE
