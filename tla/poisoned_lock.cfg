\* One storage error in store_txout panics inside fund or withdraw while the
\* DB mutex is held; no block_connected ever succeeds again.
CONSTANTS
    G = G
    A1 = A1
    A2 = A2
    B1 = B1
    B2 = B2
    Blocks <- MCBlocks
    Genesis <- G
    Parent <- MCParent
    PaysWallet <- MCPaysWallet
    Maturity = 1
    MaxKeys = 2
    MaxTx = 2
    MaxUnwinds = 2
    MaxRedeliveries = 0
    MaxStoreFailures = 1
    MaxCrashes = 0
SPECIFICATION FairSpec
PROPERTY EventuallyCaughtUp
