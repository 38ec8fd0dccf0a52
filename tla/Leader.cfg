\* Two keepers, two pooled connections each: split brain and its healing.
SPECIFICATION LeaderFairSpec
CONSTANTS
    k1 = k1
    k2 = k2
    c1 = c1
    c2 = c2
    free = free
    Instance = {k1, k2}
    Conn = {c1, c2}
    NoLock = free
    MaxDrops = 3
    MaxStops = 3
INVARIANT LeadsByLock
 
PROPERTY LeadershipReturns
