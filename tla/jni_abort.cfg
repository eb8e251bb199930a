\* Any argument Java can pass; a panic ends the process, so the model stops.
CONSTANTS
    P1 = P1
    P2 = P2
    Dir = Dir
    NullRef = NullRef
    Garbage = Garbage
    Null <- NullRef
    Addrs <- MCAddrs
    ApiConfigs <- MCApiConfigs
    JavaOrdinals <- AnyOrdinals
    JavaCounts <- AnyCounts
    PeerArgs <- AnyPeers
    JavaStrings <- AnyStrings
    MaxPeers = 2
    Amounts <- MCAmounts
    W1 = W1
    NoAddrType = NoAddrType
    BtcAddrs <- MCBtcAddrs
    AddrTypes <- MCAddrTypes
    NoType = NoAddrType
SPECIFICATION Spec
INVARIANT NoAbort
CHECK_DEADLOCK FALSE
