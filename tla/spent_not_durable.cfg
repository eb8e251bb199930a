\* store_account fails after the wallet built the transaction.
CONSTANTS
    G = G
    A1 = A1
    A2 = A2
    B1 = B1
    B2 = B2
    Blocks <- MCBlocks
    Genesis <- G
    Parent <- MCParent
    PaysWallet <- MCPaysWallet
    Maturity = 1
    MaxKeys = 2
    MaxTx = 2
    MaxUnwinds = 2
    MaxRedeliveries = 0
    MaxStoreFailures = 1
    MaxCrashes = 0
SPECIFICATION Spec
INVARIANT SpentOnlyByDurableTx
