\* /api/v1: two limiters, and one retry.
SPECIFICATION FairSpec
CONSTANTS
    Limit = 3
    Passes = 2
    MaxRetries = 1
    Standings <- MCStandings
    KeyedPaths <- MCKeyedPaths
INVARIANT ReportsTruthfully
INVARIANT KeyedOnce
 
PROPERTY JobEnds
CHECK_DEADLOCK FALSE
