\* The native methods called with the arguments a well-behaved Java caller
\* passes: every Config Java receives round-trips.
CONSTANTS
    P1 = P1
    P2 = P2
    Dir = Dir
    NullRef = NullRef
    Garbage = Garbage
    Null <- NullRef
    Addrs <- MCAddrs
    ApiConfigs <- MCApiConfigs
    JavaOrdinals <- ValidOrdinals
    JavaCounts <- ValidCounts
    PeerArgs <- ValidPeers
    JavaStrings <- ValidStrings
    MaxPeers = 2
    Amounts <- MCAmounts
    W1 = W1
    NoAddrType = NoAddrType
    BtcAddrs <- MCBtcAddrs
    AddrTypes <- MCAddrTypes
    NoType = NoAddrType
SPECIFICATION Spec
INVARIANT ConfigRoundTrip
