SPECIFICATION Spec
CONSTANTS
    x1 = x1
    x2 = x2
    x3 = x3
    main = main
    nowhere = nowhere
    Breaker = {main}
    NoBreaker = nowhere
    Caller = {x1, x2}
    Threshold = 2
    Size = 3
    EndpointThreshold = 2
SYMMETRY Interchangeable
INVARIANT ProbeHasCaller
INVARIANT ClosedBelowThreshold
 
 
