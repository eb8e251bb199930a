---------------------------- MODULE MC_BtcDkJni ----------------------------
(***************************************************************************)
(* BtcDkJni for TLC: two socket addresses, Configs of every network with   *)
(* zero, one and two peers (in both orders), and, for the runs that ask    *)
(* what Java may pass, out-of-range ordinals, a negative count, a string   *)
(* that is no socket address and null references.  A deposit address    *)
(* may have a type or none.                                                *)
(***************************************************************************)
EXTENDS BtcDkJni

CONSTANTS P1, P2, Dir, NullRef, Garbage, W1, NoAddrType

MCAddrs == {P1, P2}
MCApiConfigs ==
    [network : Networks,
     bitcoin_peers : {<<>>, <<P1>>, <<P2>>, <<P1, P2>>, <<P2, P1>>},
     bitcoin_connections : {0, 1, 8},
     bitcoin_discovery : BOOLEAN]
\* What the Java side passes when it is well behaved.
ValidOrdinals == {0, 1, 2}
ValidCounts == {0, 8}
ValidPeers == {AddrString(P1), AddrString(P2)}
ValidStrings == {Dir}
\* Anything Java can pass.
AnyOrdinals == {-1, 0, 1, 2, 3}
AnyCounts == {-1, 0, 8}
AnyPeers == {AddrString(P1), Garbage, NullRef}
AnyStrings == {Dir, NullRef}
MCAmounts == {0, 50}
MCBtcAddrs == {W1}
MCAddrTypes == {"p2wpkh", "p2wsh"}

=============================================================================
