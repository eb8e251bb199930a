\* fund allocates a change key but stores only account 1/0; then a crash.
CONSTANTS
    G = G
    A1 = A1
    A2 = A2
    B1 = B1
    B2 = B2
    Blocks <- MCBlocks
    Genesis <- G
    Parent <- MCParent
    PaysWallet <- MCPaysWallet
    Maturity = 1
    MaxKeys = 2
    MaxTx = 2
    MaxUnwinds = 2
    MaxRedeliveries = 0
    MaxStoreFailures = 0
    MaxCrashes = 1
SPECIFICATION Spec
INVARIANT ChangeKeyNeverReused
