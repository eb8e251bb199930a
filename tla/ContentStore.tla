---------------------------- MODULE ContentStore ----------------------------
(***************************************************************************)
(* ContentStore (src/src/store.rs): the wallet, its durable store and the  *)
(* chain events that drive them.  Every public method that changes state   *)
(* is one action; the methods run under the write half of the             *)
(* SharedContentStore RwLock and hold the DB mutex for their storage       *)
(* transaction, so each is atomic with respect to the others and the only  *)
(* thing that can come between its steps is a crash, which loses          *)
(* whatever was not committed.                                             *)
(*                                                                         *)
(* The Wallet (bitcoin_wallet, not under src/) is modelled from its        *)
(* contract in spec.md 4 and 6: a coin is the wallet output created by     *)
(* the coinbase of a block in PaysWallet (every coin is NEW_COINS, so a    *)
(* coin is identified by its block); spent holds the coins consumed by     *)
(* transactions the wallet built; keyIdx is the next key index of each     *)
(* account.                                                                *)
(***************************************************************************)
EXTENDS ChainSync, FiniteSets

CONSTANTS
    PaysWallet,        \* blocks whose coinbase pays a wallet address
    Maturity,          \* confirmations before a coin is available
    MaxKeys,           \* bound on the key index of an account
    MaxTx,             \* bound on the transactions the wallet builds
    MaxStoreFailures,  \* bound on storage operations that return an error
    MaxCrashes         \* bound on process crashes

ASSUME PaysWallet \subseteq Blocks \ {Genesis}

\* The accounts the store addresses by (purpose, index).
Receive == <<0, 0>>
Change  == <<0, 1>>
Funding == <<1, 0>>
Accounts == {Receive, Change, Funding}

VARIABLES
    coins,      \* Wallet: coins it holds, in memory
    spent,      \* Wallet: coins consumed by transactions it built, in memory
    keyIdx,     \* Wallet: next key index per account, in memory
    stopped,    \* ContentStore.stopped
    txSender,   \* ContentStore.txout is Some
    db,         \* the committed content of the durable store
    sent,       \* transactions pushed onto the outbound channel
    nTx,        \* transactions built so far (their ids)
    failures,   \* storage operations that returned an error so far
    crashes,    \* crashes so far
    handedOut,  \* history: highest key index ever handed out per account
    poisoned    \* the DB mutex is poisoned: a thread panicked while holding it

storeVars == <<coins, spent, keyIdx, stopped, txSender, db, sent, nTx,
               failures, crashes, handedOut, poisoned>>
vars == <<storeVars, syncVars>>

Tx == [id : 1 .. MaxTx, inputs : SUBSET PaysWallet]

-----------------------------------------------------------------------------
(* The Wallet's contract (spec.md 4.2, 6), not under src/.                 *)

\* Wallet::process: absorbs the block's outputs to the wallet; TRUE iff the
\* wallet changed, so a block it already absorbed reports no change.
process(b) == b \in PaysWallet /\ b \notin coins
AfterProcess(b) == coins \cup ({b} \cap PaysWallet)

\* Wallet::unwind_tip: drops what the block with this hash added.
AfterUnwind(h) == coins \ {h}

\* Wallet::available_balance(trunk.len(), trunk.get_height): coins confirmed
\* on the current trunk by at least Maturity blocks, counted from the value
\* the store passes as the tip height, trunk.len().
AvailableCoins ==
    {c \in coins \ spent : is_on_trunk(c) /\ trunk_len - get_height(c) >= Maturity}

\* Wallet::balance
TotalCoins == coins \ spent

\* next_key on each account in As.
NextKeys(As) == [a \in Accounts |-> IF a \in As THEN keyIdx[a] + 1 ELSE keyIdx[a]]

HandOut(k) ==
    handedOut' = [a \in Accounts |-> IF k[a] > handedOut[a] THEN k[a] ELSE handedOut[a]]

-----------------------------------------------------------------------------
(* Storage: a `?` on a store_* call returns the error, dropping the       *)
(* transaction uncommitted.                                                *)

StoreFails ==
    /\ failures < MaxStoreFailures
    /\ failures' = failures + 1

StoreOk == failures' = failures

-----------------------------------------------------------------------------
(* ContentStore                                                            *)

\* ContentStore::new, with a freshly created wallet and store.
Init ==
    /\ SyncInit
    /\ coins = {} /\ spent = {}
    /\ keyIdx = [a \in Accounts |-> 0]
    /\ handedOut = keyIdx
    /\ stopped = FALSE /\ txSender = FALSE
    /\ db = [coins |-> {}, processed |-> Genesis,
             keyIdx |-> [a \in Accounts |-> 0], txouts |-> {}]
    /\ sent = {} /\ nTx = 0 /\ failures = 0 /\ crashes = 0
    /\ poisoned = FALSE

\* set_stopped(stopped)
set_stopped ==
    \E v \in BOOLEAN :
        /\ stopped' = v
        /\ UNCHANGED <<coins, spent, keyIdx, txSender, db, sent, nTx, failures,
                       crashes, handedOut, poisoned, syncVars>>

\* set_tx_sender: binds the outbound channel, replacing any earlier one.
set_tx_sender ==
    /\ txSender' = TRUE
    /\ UNCHANGED <<coins, spent, keyIdx, stopped, db, sent, nTx, failures,
                   crashes, handedOut, poisoned, syncVars>>

get_stopped == stopped

\* get_tip: the hash of the Trunk's tip.
get_tip == trunk_tip

\* balance(): <<total, available>>
balance == <<Cardinality(TotalCoins), Cardinality(AvailableCoins)>>

\* deposit_address: next_key on account 0/0, persisted nowhere.
deposit_address ==
    /\ keyIdx[Receive] < MaxKeys
    /\ keyIdx' = NextKeys({Receive})
    /\ HandOut(keyIdx')
    /\ UNCHANGED <<coins, spent, stopped, txSender, db, sent, nTx, failures,
                   crashes, poisoned, syncVars>>

\* Mutation: the transaction is sent before store_account's result is
\* checked.
StoreOutgoing_send_first(t, account, k) ==
    /\ ~poisoned
    /\ sent' = IF txSender THEN sent \cup {t} ELSE sent
    /\ UNCHANGED poisoned
    /\ \/ /\ StoreFails
          /\ UNCHANGED db
       \/ /\ StoreOk
          /\ db' = [db EXCEPT !.keyIdx[account] = k[account],
                              !.txouts = @ \cup {t}]

\* Mutation: the outgoing transaction is not written, only the account.
StoreOutgoing_no_txout(t, account, k) ==
    /\ ~poisoned
    /\ StoreOk
    /\ db' = [db EXCEPT !.keyIdx[account] = k[account]]
    /\ sent' = IF txSender THEN sent \cup {t} ELSE sent
    /\ UNCHANGED poisoned

\* The common tail of fund and withdraw, after the wallet has built the
\* transaction: db.lock().unwrap(), which panics on a poisoned mutex; one
\* storage transaction storing the account, whose error returns before
\* anything is committed or sent, and the outgoing transaction, whose
\* error panics in expect while the mutex is held, poisoning it and
\* dropping the transaction; commit; the broadcast if a sender is bound.
StoreOutgoing(t, account, k) ==
    \/ /\ poisoned
       /\ UNCHANGED <<db, sent, failures, poisoned>>
    \/ /\ ~poisoned
       /\ StoreFails
       /\ UNCHANGED <<db, sent, poisoned>>
    \/ /\ ~poisoned
       /\ StoreFails
       /\ poisoned' = TRUE
       /\ UNCHANGED <<db, sent>>
    \/ /\ ~poisoned
       /\ StoreOk
       /\ db' = [db EXCEPT !.keyIdx[account] = k[account],
                           !.txouts = @ \cup {t}]
       /\ sent' = IF txSender THEN sent \cup {t} ELSE sent
       /\ UNCHANGED poisoned

\* Wallet::fund/withdraw builds a transaction spending available coins,
\* with a change output (a new key of account 0/1) when the inputs exceed
\* amount plus fee; insufficient funds returns before any change.
Spend(ins, k) ==
    /\ ins # {}
    /\ ins \subseteq AvailableCoins
    /\ nTx < MaxTx
    /\ k \in [Accounts -> 0 .. MaxKeys]
    /\ spent' = spent \cup ins
    /\ keyIdx' = k
    /\ HandOut(k)
    /\ nTx' = nTx + 1

\* fund: the funding key comes from account 1/0; only 1/0 is stored.
fund ==
    \E ins \in SUBSET AvailableCoins, change \in BOOLEAN :
        LET k == NextKeys(IF change THEN {Funding, Change} ELSE {Funding})
        IN /\ Spend(ins, k)
           /\ StoreOutgoing([id |-> nTx + 1, inputs |-> ins], Funding, k)
           /\ UNCHANGED <<coins, stopped, txSender, crashes, syncVars>>

\* withdraw: amount None sweeps every available coin and has no change;
\* account 0/1 is stored.
withdraw ==
    \E ins \in SUBSET AvailableCoins, change \in BOOLEAN :
        LET k == NextKeys(IF change THEN {Change} ELSE {})
        IN /\ Spend(ins, k)
           /\ StoreOutgoing([id |-> nTx + 1, inputs |-> ins], Change, k)
           /\ UNCHANGED <<coins, stopped, txSender, crashes, syncVars>>

\* block_connected: wallet.process mutates the wallet first; then, in one
\* storage transaction, store_coins (only if process reported a change)
\* and store_processed, then commit.  An error of either store call
\* returns before the commit; the sync layer then redelivers the block.
block_connected ==
    \E b \in NextToConnect \cup Redelivery :
        /\ ~poisoned
        /\ coins' = AfterProcess(b)
        /\ \/ /\ StoreFails
              /\ UNCHANGED <<db, synced, redeliveries>>
           \/ /\ StoreOk
              /\ db' = [db EXCEPT !.coins = IF process(b) THEN coins' ELSE @,
                                  !.processed = b]
              /\ Acknowledge(b)
        /\ UNCHANGED <<spent, keyIdx, stopped, txSender, sent, nTx, crashes,
                       handedOut, poisoned, trunk, unwinds>>

unwind_tip_wallet_prev ==
    \E h \in TipToUnwind :
        /\ ~poisoned
        /\ \/ /\ StoreFails
              /\ UNCHANGED <<coins, db, synced>>
           \/ /\ StoreOk
              /\ db' = [db EXCEPT !.processed = Parent[h]]
              /\ coins' = AfterUnwind(Parent[h])
              /\ synced' = Front(synced)
        /\ UNCHANGED <<spent, keyIdx, stopped, txSender, sent, nTx, crashes,
                       handedOut, poisoned, trunk, unwinds,
                       redeliveries>>

\* Mutation: the marker is set to the unwound header's own hash.
unwind_tip_marker_self ==
    \E h \in TipToUnwind :
        /\ ~poisoned
        /\ \/ /\ StoreFails
              /\ UNCHANGED <<coins, db, synced>>
           \/ /\ StoreOk
              /\ db' = [db EXCEPT !.processed = h]
              /\ coins' = AfterUnwind(h)
              /\ synced' = Front(synced)
        /\ UNCHANGED <<spent, keyIdx, stopped, txSender, sent, nTx, crashes,
                       handedOut, poisoned, trunk, unwinds,
                       redeliveries>>

\* unwind_tip: store_processed(prev_blockhash) and commit, then
\* wallet.unwind_tip; the coins are not stored.
unwind_tip ==
    \E h \in TipToUnwind :
        /\ ~poisoned
        /\ \/ /\ StoreFails
              /\ UNCHANGED <<coins, db, synced>>
           \/ /\ StoreOk
              /\ db' = [db EXCEPT !.processed = Parent[h]]
              /\ coins' = AfterUnwind(h)
              /\ synced' = Front(synced)
        /\ UNCHANGED <<spent, keyIdx, stopped, txSender, sent, nTx, crashes,
                       handedOut, poisoned, trunk, unwinds,
                       redeliveries>>

\* A crash loses everything in memory.  The restarted process loads the
\* wallet from the store (its outgoing transactions mark their inputs
\* spent), creates a new ContentStore, and the sync layer resumes from
\* the processed-block marker.
Restart ==
    /\ crashes < MaxCrashes
    /\ crashes' = crashes + 1
    /\ coins' = db.coins
    /\ spent' = UNION {t.inputs : t \in db.txouts}
    /\ keyIdx' = db.keyIdx
    /\ stopped' = FALSE /\ txSender' = FALSE
    /\ synced' = ResumeFrom(db.processed)
    /\ poisoned' = FALSE
    /\ UNCHANGED <<db, sent, nTx, failures, handedOut, trunk, unwinds,
                   redeliveries>>

Environment ==
    /\ \/ TrunkExtend \/ TrunkUnwind
    /\ UNCHANGED storeVars

Next ==
    \/ set_stopped \/ set_tx_sender \/ deposit_address
    \/ fund \/ withdraw
    \/ block_connected \/ unwind_tip
    \/ Restart \/ Environment

Spec == Init /\ [][Next]_vars

\* The chain-sync thread keeps delivering the next event, and redelivers
\* a block whose block_connected returned an error (spec.md 7).
FairSpec == Spec /\ WF_vars(block_connected) /\ WF_vars(unwind_tip)

-----------------------------------------------------------------------------
(* Properties                                                              *)

\* Once the sync layer has delivered every trunk block (after any number of
\* reorgs, failed storage calls and restarts), the wallet that
\* block_connected and unwind_tip maintain holds exactly the coins created
\* by the trunk's blocks: no coin of an orphaned block, none missing.
WalletReflectsTrunk ==
    synced = trunk => coins = PaysWallet \cap ToSet(trunk)

\* spec.md 7: a storage failure is fatal only to the event or call it
\* happens in; the sync layer redelivers and the store catches up.  Once
\* the Trunk stops changing, block_connected and unwind_tip eventually
\* bring the processed chain to the trunk for good, whatever failed in
\* an earlier fund or withdraw.
EventuallyCaughtUp == <>[](synced = trunk)

\* spec.md 1 and 4.5: the persisted state reflects a prefix of the chain:
\* the coins the store holds are those of the chain ending at the stored
\* processed-block marker, whatever block_connected and unwind_tip wrote.
DurableReflectsMarker ==
    db.coins = PaysWallet \cap ToSet(ChainTo(db.processed))

\* The processed-block marker is the pivot of replay: the block the store
\* records as processed is always the last block the sync layer considers
\* delivered, across failed block_connected/unwind_tip calls and restarts.
MarkerFollowsSync == db.processed = Last(synced)

\* fund and withdraw push a transaction onto the outbound channel only once
\* its outgoing record is committed (spec.md 4.3 step 4).
BroadcastOnlyDurable == sent \subseteq db.txouts

\* No coin is spent twice: two distinct transactions that fund or withdraw
\* committed or broadcast never share an input, across failed storage
\* calls, a poisoned store, reorgs that unwind and reconnect a spent coin,
\* and a crash after which the wallet reloads its spends from the store.
NoDoubleSpend ==
    \A t1, t2 \in db.txouts \cup sent :
        t1.id # t2.id => t1.inputs \cap t2.inputs = {}

\* spec.md 4.3: the wallet's coins are not marked spent until the storage
\* transaction of fund/withdraw commits; every coin the wallet holds as
\* spent is an input of a committed outgoing transaction.
SpentOnlyByDurableTx == spent \subseteq UNION {t.inputs : t \in db.txouts}

\* After any crash and restart the change account of the wallet never
\* hands out a key index it already handed out (a change output of fund or
\* withdraw is never paid to a reused address).
ChangeKeyNeverReused == keyIdx[Change] >= handedOut[Change]

\* spec.md 4.1: chain-sync events are no-ops while the store is stopped:
\* no step taken while stopped moves the processed-block marker or changes
\* the wallet's coins.
StoppedIsNoop ==
    [][stopped => UNCHANGED <<db.processed, coins>>]_vars

\* The wallet refines the abstract ledger of spec.md 4.5: its coins move
\* only together with the chain the sync layer delivered, one block forward
\* or one block back.
Ledger == INSTANCE WalletLedger WITH applied <- synced, utxos <- coins
LedgerRefinement == Ledger!Spec

=============================================================================
