\* Storage errors and a crash: the marker stays the pivot of replay and
\* nothing is broadcast that is not committed, and no coin is spent twice.
CONSTANTS
    G = G
    A1 = A1
    A2 = A2
    B1 = B1
    B2 = B2
    Blocks <- MCBlocks
    Genesis <- G
    Parent <- MCParent
    PaysWallet <- MCPaysWallet
    Maturity = 2
    MaxKeys = 2
    MaxTx = 2
    MaxUnwinds = 3
    MaxRedeliveries = 1
    MaxStoreFailures = 1
    MaxCrashes = 1
SPECIFICATION Spec
INVARIANT MarkerFollowsSync
INVARIANT BroadcastOnlyDurable
INVARIANT NoDoubleSpend
