SPECIFICATION FairSpec
CONSTANTS
    Schedule = {s1}
    Keeper = {k1, k2}
    Session = {n1, n2}
    Job = {j1, j2}
    Request = {q1}
    NoKeeper = NoKeeper
    NoSession = NoSession
    NoJob = NoJob
    MinuteFields = {"*/N"}
    HourFields = {"*"}
    PlainDays = {TRUE}
    StepInterval = 1
    ListGap = 1
    Hour = 2
    Day = 3
    MinIntervals = {2}
    Staleness = 1
    BatchLimit = 1
    MaxTime = 2
    MaxTicks = 2
    MaxEvents = 1
INVARIANTS ExecutedOncePerKeeper
PROPERTIES  CatchupDrains
CHECK_DEADLOCK FALSE
