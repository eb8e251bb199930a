------------------------------ MODULE BtcDkJni ------------------------------
(***************************************************************************)
(* The JNI bridge (src/src/jni.rs): the native methods of                  *)
(* org.btcdk.jni.BtcDkLib.  Each converts its Java arguments, calls the    *)
(* api function of the same name (crate::api, not under src/, whose        *)
(* outcome is left open: any Ok value of a small set, or Err) and converts *)
(* the result into the Java object it returns.  An expect/unwrap that      *)
(* fails panics inside an extern fn, which aborts the JVM process.         *)
(*                                                                         *)
(* Strings are abstract: a Java string argument is Null or a value; a      *)
(* socket address string is <<"addr", a>> for the address a it prints,    *)
(* anything else does not parse.                                           *)
(***************************************************************************)
EXTENDS Integers, Sequences, SequencesExt

CONSTANTS
    Addrs,         \* socket addresses
    JavaOrdinals,  \* jint values Java passes as a network ordinal
    JavaCounts,    \* jint values Java passes as a connection count
    PeerArgs,      \* strings Java passes as bitcoin peers
    JavaStrings,   \* work dirs and passphrases Java passes
    Null,          \* the null reference
    MaxPeers,      \* bound on the length of the peers array
    ApiConfigs,    \* Configs the api may return
    Amounts,       \* balances (u64 satoshis) the api may return
    BtcAddrs,      \* bitcoin addresses deposit_addr may return
    AddrTypes,     \* names Address::address_type may report
    NoType         \* address_type is None (an unknown witness program)

Networks == {"bitcoin", "testnet", "regtest"}

\* SocketAddr::to_string and SocketAddr::from_str.
AddrString(a) == <<"addr", a>>
ParsesAsAddr(s) == \E a \in Addrs : s = AddrString(a)
ParseAddr(s) == CHOOSE a \in Addrs : s = AddrString(a)

VARIABLES
    ret,      \* the value the last native call returned to Java
    api,      \* the Rust value the api returned to that call
    aborted   \* a panic crossed the FFI boundary: the process is gone

vars == <<ret, api, aborted>>

Empty == [kind |-> "empty"]
Void == [kind |-> "void"]

-----------------------------------------------------------------------------
(* Conversions                                                             *)

\* string_from_jstring: get_string and to_str, each expect.
string_ok(j) == j # Null

\* network_from_jint: the ordinal 0, 1, 2, else expect panics.
network_ok(j) == j \in 0 .. 2
network_from_jint(j) == CASE j = 0 -> "bitcoin" [] j = 1 -> "testnet" [] j = 2 -> "regtest"

\* jint_from_network
jint_from_network(n) == CASE n = "bitcoin" -> 0 [] n = "testnet" -> 1 [] n = "regtest" -> 2

\* Mutation: Testnet and Regtest swapped on the way out.
j_optional_config_swapped(c) ==
    [kind |-> "config",
     network |-> CASE c.network = "bitcoin" -> 0 [] c.network = "testnet" -> 2
                   [] c.network = "regtest" -> 1,
     peers |-> [i \in 1 .. Len(c.bitcoin_peers) |-> AddrString(c.bitcoin_peers[i])],
     connections |-> c.bitcoin_connections,
     discovery |-> IF c.bitcoin_discovery THEN 1 ELSE 0]

\* j_optional_config: Optional.of(new Config(ordinal, peers as strings,
\* connections as jint, discovery as jboolean)).  The expect on
\* jint::try_from(connections) cannot fail for a Config whose connections
\* came in through updateConfig as a non-negative jint.
j_optional_config(c) ==
    [kind |-> "config",
     network |-> jint_from_network(c.network),
     peers |-> [i \in 1 .. Len(c.bitcoin_peers) |-> AddrString(c.bitcoin_peers[i])],
     connections |-> c.bitcoin_connections,
     discovery |-> IF c.bitcoin_discovery THEN 1 ELSE 0]

\* j_optional_init_result: Optional.of(new InitResult(mnemonic words,
\* deposit address)).
j_optional_init_result == [kind |-> "init"]

\* j_optional_string: Optional.of(new String).
j_optional_string(s) == [kind |-> "some", value |-> s]

\* Address::to_string
BtcAddrString(a) == <<"address", a>>

\* j_address: new Address(address.to_string(), ordinal of address.network,
\* Optional of address_type's name, or Optional.empty when it is None).
j_address(a, n, t) ==
    [kind |-> "address", address |-> BtcAddrString(a),
     network |-> jint_from_network(n),
     type |-> IF t = NoType THEN Empty ELSE j_optional_string(t)]

\* What an api function may return.
Err == [res |-> "err"]
ApiOk(x) == [res |-> "ok", value |-> x]
ConfigResults == {Err} \cup {ApiOk(c) : c \in ApiConfigs}

\* The api's Result<Config, _> as the Optional<Config> Java receives.
ConfigResult(r) == IF r.res = "err" THEN Empty ELSE j_optional_config(r.value)

-----------------------------------------------------------------------------
(* Native methods.  A call whose conversions all succeed returns the      *)
(* converted api result; one whose conversion panics aborts the process.   *)

Returns(r, v) ==
    /\ api' = r
    /\ ret' = v
    /\ UNCHANGED aborted

Aborts ==
    /\ aborted' = TRUE
    /\ UNCHANGED <<ret, api>>

\* loadConfig and removeConfig(String workDir, int network)
Java_loadConfig_removeConfig ==
    \E wd \in JavaStrings, n \in JavaOrdinals :
        IF string_ok(wd) /\ network_ok(n)
        THEN \E r \in ConfigResults : Returns(r, ConfigResult(r))
        ELSE Aborts

\* updateConfig(String workDir, int network, String[] bitcoinPeers,
\* int bitcoinConnections, boolean bitcoinDiscovery): every peer is
\* read and parsed with expect, the connections go through usize::try_from.
Java_updateConfig ==
    \E wd \in JavaStrings, n \in JavaOrdinals, peers \in BoundedSeq(PeerArgs, MaxPeers),
       conns \in JavaCounts :
        IF /\ string_ok(wd) /\ network_ok(n)
           /\ \A i \in 1 .. Len(peers) : peers[i] # Null /\ ParsesAsAddr(peers[i])
           /\ conns >= 0
        THEN \E r \in ConfigResults : Returns(r, ConfigResult(r))
        ELSE Aborts

\* initConfig(String workDir, int network, String passphrase,
\* String pdPassphrase): a null pdPassphrase is None; Ok(None), when a
\* config exists, and Err both return Optional.empty.
Java_initConfig ==
    \E wd \in JavaStrings, n \in JavaOrdinals, pass \in JavaStrings :
        IF string_ok(wd) /\ network_ok(n) /\ string_ok(pass)
        THEN \/ Returns(ApiOk("none"), Empty)
             \/ Returns(Err, Empty)
             \/ Returns(ApiOk("init"), j_optional_init_result)
        ELSE Aborts

\* start(String workDir, int network, boolean rescan): an Err is logged.
Java_start ==
    \E wd \in JavaStrings, n \in JavaOrdinals :
        IF string_ok(wd) /\ network_ok(n)
        THEN \E r \in {ApiOk("started"), Err} : Returns(r, Void)
        ELSE Aborts

\* stop()
Java_stop == Returns(ApiOk("stopped"), Void)

\* balance(): new BalanceAmt(long, long), each u64 through jlong::try_from
\* and unwrap, which cannot fail below the 21e14 satoshis there are.
Java_balance ==
    \E bal, conf \in Amounts :
        Returns(ApiOk(<<bal, conf>>), [kind |-> "balance", bal |-> bal, conf |-> conf])

\* depositAddress()
Java_depositAddress ==
    \E a \in BtcAddrs, n \in Networks, t \in AddrTypes \cup {NoType} :
        Returns(ApiOk([address |-> a, network |-> n, type |-> t]), j_address(a, n, t))

Next ==
    /\ ~aborted
    /\ \/ Java_loadConfig_removeConfig
       \/ Java_updateConfig
       \/ Java_initConfig
       \/ Java_start
       \/ Java_stop
       \/ Java_balance
       \/ Java_depositAddress

Init ==
    /\ ret = Void
    /\ api = ApiOk("loaded")
    /\ aborted = FALSE

Spec == Init /\ [][Next]_vars

-----------------------------------------------------------------------------

\* A Config Java receives means what the Rust Config meant: its ordinal,
\* read back by network_from_jint as the next call does, is the same
\* network, its peer strings parse back to the same addresses in order,
\* and the connections and discovery flag are unchanged.
ConfigRoundTrip ==
    ret.kind = "config" =>
        /\ network_ok(ret.network)
        /\ network_from_jint(ret.network) = api.value.network
        /\ Len(ret.peers) = Len(api.value.bitcoin_peers)
        /\ \A i \in 1 .. Len(ret.peers) : ParseAddr(ret.peers[i]) = api.value.bitcoin_peers[i]
        /\ ret.connections = api.value.bitcoin_connections
        /\ (ret.discovery = 1) = api.value.bitcoin_discovery

\* The TODOs of initConfig and start: a failure reaches Java as an empty
\* Optional or an exception; no argument Java can pass takes the process
\* down.
NoAbort == ~aborted

=============================================================================
