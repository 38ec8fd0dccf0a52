\* Two vaults that one blob may move between; both thresholds, a capped and an
\* uncapped policy, prices that Walrus undercuts, exceeds or that overflow u64.
CONSTANTS
    a1 = a1
    a2 = a2
    v1 = v1
    v2 = v2
    Addr = {a1}
    Zero = Zero
    VaultId = {v1, v2}
    BlobId = {b1}
    NoBlob = NoBlob
    NoCap = NoCap
    U64Max = 300000
    U32Max = 2
    MaxEpoch = 2
    MaxInflow = 60
    Amounts = {30}
    Thresholds = {0, 2}
    RenewBys = {2}
    Caps = {3, NoCap}
    FeeBps = {1000}
    KeeperFees = {5}
    Prices = {10, 200}
    BlobEnds = {2}
    WalrusPrices = {8, 12}
    WalrusAhead = 4
SYMMETRY Interchangeable
SPECIFICATION Spec
INVARIANT TypeOK
INVARIANT WalConserved
PROPERTY RenewalWithinPolicy
PROPERTY ZeroThresholdNeverRenews
PROPERTY ImplementsEscrow
CHECK_DEADLOCK FALSE
