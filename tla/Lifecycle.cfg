SPECIFICATION FairSpec
CONSTANTS
    Blob = {b1}
    Runner = {r1}
    Request = {q1}
    MaxEpoch = 2
    Expiries = {1, 2}
    PolicyThreshold = 2
    DefaultThreshold = 1
    MaxPolicyEdits = 2
    MaxCrashes = 1
INVARIANTS StampedWasDeleted
PROPERTIES IllegalMovesAreStale RenewalSettles
