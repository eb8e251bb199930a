\* A failed store_coins, the redelivered block, then a restart, without reorgs.
CONSTANTS
    G = G
    A1 = A1
    A2 = A2
    B1 = B1
    B2 = B2
    Blocks <- MCBlocks
    Genesis <- G
    Parent <- MCParent
    PaysWallet <- MCPaysWallet
    Maturity = 1
    MaxKeys = 2
    MaxTx = 2
    MaxUnwinds = 0
    MaxRedeliveries = 0
    MaxStoreFailures = 1
    MaxCrashes = 1
SPECIFICATION Spec
INVARIANT WalletReflectsTrunk
