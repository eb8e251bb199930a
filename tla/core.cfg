\* Chain events, fund, withdraw and deposit_address without storage errors
\* or crashes: the wallet follows the chain the sync layer delivers.
CONSTANTS
    G = G
    A1 = A1
    A2 = A2
    B1 = B1
    B2 = B2
    Blocks <- MCBlocks
    Genesis <- G
    Parent <- MCParent
    PaysWallet <- MCPaysWallet
    Maturity = 2
    MaxKeys = 2
    MaxTx = 2
    MaxUnwinds = 3
    MaxRedeliveries = 1
    MaxStoreFailures = 0
    MaxCrashes = 0
SPECIFICATION Spec
 
PROPERTY LedgerRefinement
