\* A failed block_connected leaves its coin in the wallet; a reorg then orphans the block.
CONSTANTS
    G = G
    A1 = A1
    A2 = A2
    B1 = B1
    B2 = B2
    Blocks <- MCBlocks
    Genesis <- G
    Parent <- MCParent
    PaysWallet <- MCPaysWallet
    Maturity = 1
    MaxKeys = 2
    MaxTx = 2
    MaxUnwinds = 2
    MaxRedeliveries = 0
    MaxStoreFailures = 1
    MaxCrashes = 0
SPECIFICATION Spec
INVARIANT WalletReflectsTrunk
