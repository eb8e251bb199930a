# TLA+ models of the bdk ContentStore and its JNI bridge

This directory models the two source files of the repository, described by `spec.md`:

- `src/src/store.rs`, the `ContentStore`. It keeps an in-memory wallet consistent with a durable store and with the chain the sync layer delivers, and it builds funding scripts.
- `src/src/jni.rs`, the JNI bridge. It exposes the api to Java as `org.btcdk.jni.BtcDkLib`.

## The system

| Part | Where | Role |
|---|---|---|
| ContentStore | store.rs | Owns the wallet, the Trunk view, the DB handle, the `stopped` flag and the outbound sender. Every mutating method takes `&mut self` behind the `SharedContentStore` `RwLock`, so each method is atomic with respect to the others. |
| Wallet | bitcoin_wallet (external) | Holds coins and accounts. `process` and `unwind_tip` follow chain events; `fund` and `withdraw` spend coins; `next_key` hands out keys. |
| Trunk | external; `TestTrunk` in store.rs | The read-only best-chain view, with `get_height`, `is_on_trunk` and `get_tip`. |
| Chain-sync layer | murmel (external) | Calls `block_connected` for each new trunk block and `unwind_tip` for each orphaned tip. It redelivers after an `Err` and resumes from the durable processed-block marker after a restart (spec.md 4.5 and 7). |
| DB | crate::db (external) | A transaction holds `store_coins`, `store_processed`, `store_account` and `store_txout`, then `commit`. Any `?` drops it uncommitted. |
| Outbound channel | `txout` | `fund` and `withdraw` send their transaction if a sender is bound. |
| JNI bridge | jni.rs | Native methods convert Java arguments, call the api, and convert the results back. A panic inside an `extern fn` aborts the JVM. |

These parts interact in three ways:

- The sync layer drives the ContentStore.
- The ContentStore first updates the wallet in memory, then writes the DB.
- A crash leaves only the DB, and the sync layer resumes from its marker.

## Modules

Listed in build order:

1. **ChainSync** models the environment: the trunk as a sequence over a fixed block tree (`Parent` is `prev_blockhash`), and the sequence `synced` of blocks delivered without error.
   - `TrunkExtend` and `TrunkUnwind` are the trunk's moves. A reorg is an unwind followed by extends.
   - `NextToConnect` and `TipToUnwind` say what the sync layer delivers next. `NextToConnect` is the trunk's header at the next height.
   - `Redelivery` is a fault of the sync layer: the already processed block is delivered again, bounded by `MaxRedeliveries`. `Acknowledge` records what the sync layer considers delivered after an `Ok`.
   - `get_height`, `is_on_trunk`, `trunk_tip`, `trunk_len` and `get_header_for_height` translate the `TestTrunk` of store.rs. `TrunkExtend` extends the trunk with a block from the test helpers `mine`/`new_block`.
2. **WalletLedger** is the abstract specification of what the store promises: it applies connect and unwind events to the chain it has seen, and its UTXOs are the wallet coins of that chain.
3. **ContentStore** extends ChainSync and composes the store, the wallet contract, the DB and the channel.
   - Actions: `set_stopped`, `set_tx_sender`, `deposit_address`, `fund`, `withdraw`, `block_connected`, `unwind_tip`, `Restart` (a crash and restart from the DB) and `Environment` (the trunk's moves).
   - Each action translates the whole method, in the order the code runs its steps. For example, `block_connected` does `wallet.process`, then `store_coins` only if `process` reported a change, then `store_processed`, then `commit`.
   - Every `store_*` call either fails, which returns early with the transaction dropped, or succeeds. Failures are capped by `MaxStoreFailures`.
   - The exception is `store_txout`, whose error panics in `expect` while the DB mutex is held. This poisons the mutex (`poisoned`). From then on:
     - `block_connected` and `unwind_tip` panic at `db.lock().unwrap()` before doing anything, so they are disabled.
     - `fund` and `withdraw` still run `wallet.fund`/`wallet.withdraw`, then panic at the lock.
     - Only a restart clears the poisoned mutex.
     - The `SharedContentStore` `RwLock` is poisoned as well, but the callers that unwrap it are outside src/, so the model does not use it.
   - The wallet is modelled at the level of coins, spent coins and account key indices, from its contract in spec.md (the `spec_modelled` entries of the map). Every coin is a coinbase paying the wallet (`PaysWallet`), as in the tests' `new_block`/`coin_base`.
   - `add_header` only logs, so it is not an action. `balance`, `get_stopped` and `get_tip` are read-only operators.
   - `Ledger == INSTANCE WalletLedger WITH applied <- synced, utxos <- coins` is the refinement mapping.
4. **FundingScript** covers `funding_script`, byte for byte as rust-bitcoin's `Builder` emits it (`push_int`, `build_scriptint`, `push_slice`). It is checked against a reference reading: an instruction parser, the decoder of `CScriptNum`, and the minimal-push and minimal-number rules.
5. **BtcDkJni** covers the eight native methods (loadConfig and removeConfig share one action). Their argument conversions have their panic paths: a null jstring, a network ordinal outside 0..2, an unparseable peer, or a negative connection count. Their result conversions are `j_optional_config`, `j_optional_init_result`, `j_address` (with `j_optional_string` for the address type) and `BalanceAmt`. What `crate::api` returns is an open choice.
6. **MC_ContentStore**, **MC_FundingScript** and **MC_BtcDkJni** give the constants concrete values.

## Runs

`MC_ContentStore` uses the block tree `G <- A1 <- A2` and `G <- B1 <- B2`. Every non-genesis block pays the wallet, with MaxKeys 2 and MaxTx 2.
- **core and failures** use Maturity 2 and MaxUnwinds 3:
  - A branch's first coin becomes available only once the second block is mined on it. So the gap between total and available balance occurs, and a tip coin cannot be spent.
  - Three unwinds allow a full reorg from A2 to B, with a spent mature coin orphaned, and a partial reorg back.
  - One duplicate delivery of the processed block is allowed.
- **The violation runs** use Maturity 1 and no duplicates, which keeps their counterexamples short.

| run | expect | bounds | what it shows |
|---|---|---|---|
| core | pass | no failures, no crash, 3 unwinds, 1 duplicate delivery | Once caught up, the wallet's coins are the wallet coins of the trunk (`WalletReflectsTrunk`). The store refines `WalletLedger` (`LedgerRefinement`). A duplicate delivery of the processed block must be a stutter of the ledger, which is the idempotence of spec.md 8. |
| failures | pass | 1 store failure (an `Err` or a `store_txout` panic), 1 crash, 1 duplicate delivery, 3 unwinds | The durable marker is always the last block delivered, through failures and restarts (`MarkerFollowsSync`). Every transaction sent is committed (`BroadcastOnlyDurable`). No two committed or sent transactions share an input (`NoDoubleSpend`), even when a failed or panicking `fund` is followed by a restart and by reorgs of a spent coin. |
| poisoned_lock | violation | 1 store failure, no crash, fairness | `EventuallyCaughtUp`: after a `store_txout` panic, no block is ever processed again. |
| durable_unwind | violation | no failures | `DurableReflectsMarker`: after `unwind_tip` the DB keeps the coin of the unwound block. |
| phantom_coin | violation | 1 failure | A failed `block_connected` has already added the coin; after a reorg it is never removed. |
| lost_coin | violation | 1 failure, 1 crash, no reorg | A redelivered block skips `store_coins`; after a restart its coin is lost. |
| stopped_ignored | violation | — | `StoppedIsNoop`: chain events change state while the store is stopped. |
| change_key_reuse | violation | 1 crash | `fund` does not persist the change account, so a restarted wallet reuses the change key. |
| spent_not_durable | violation | 1 failure | `fund` leaves coins spent after `store_account` fails. |
| funding_script | pass | terms 0..300, 32767..32769 and 65535; two 33-byte keys | The script parses back to its template with the same term, and the term push is minimal. These terms cover every encoding boundary of u16: 0, 1..16, 17, 127/128, 255/256, 32767/32768 and 65535. |
| jni | pass | the inputs Java is meant to pass; an address with and without a type | A Config returned to Java reads back as the same Config (`ConfigRoundTrip`). `depositAddress` and its `j_address` conversion are exercised, but no property is stated for them: the optional type is a single `match` and the network goes through the same `jint_from_network` that `ConfigRoundTrip` checks. |
| jni_abort | violation | any jint and any string, including null | `NoAbort`: some arguments panic in an `extern fn`. |

Every property of a passing run has a mutant in `PROJECT.json`: a plausible bug in the definition it checks, which TLC finds.

No type invariant is checked. The only bounds on `ContentStore`'s counters and key indices are the model's own guards (`MaxKeys`, `MaxTx`, `MaxStoreFailures`, `MaxCrashes`), so a type invariant would only restate those guards. `next_key` itself has no bound.

## Fairness

`FairSpec` is used only by `poisoned_lock`. It assumes weak fairness of `block_connected` and `unwind_tip` only. The passing runs check safety and refinement only. Without failures, catching up would follow from this fairness alone, so a liveness check there would say nothing about the code. Both are disabled while the DB mutex is poisoned, because the call panics, so fairness cannot force them then. The sync layer keeps delivering while there is something to deliver (spec.md 4.5), and with the failure bound at 0 no delivery can keep failing. User calls (`fund`, `withdraw`, `deposit_address`) and trunk moves have no fairness, because nothing obliges them to happen.

## What the model shows

The findings in `PROJECT.json` are:

- The DB does not record what the wallet holds after `unwind_tip`.
- A storage error in `block_connected` leaves the wallet ahead of the DB. This causes phantom coins after a reorg, and lost coins after a restart.
- `stopped` is never read.
- A `store_txout` error panics while the DB mutex is held, and the store never processes another block.
- `fund` persists the wrong account for its change key.
- Coins are marked spent before the storage write that may fail.
- Several JNI arguments abort the JVM instead of raising an exception.

## Not modelled

These parts and hazards are left out, each for the reason given:

- **`funding_address`**: it is a SHA256 over the script. The script itself is modelled byte for byte, and the address is injective in it.
- **`Txn::commit` failing**: the code ignores commit's result, and its signature is in `crate::db`, outside src/. The model treats commit as infallible.
- **The wallet's signing, fees, values and coin selection**: these are inside `bitcoin_wallet`. Its effect on the store is modelled as a choice of available coins and of a change output.
- **`crate::api` and `crate::config`**: they are outside src/ and not described by spec.md. The JNI model leaves their results as an open choice.
- **Whether `available_balance` expects a tip height or the trunk length**: `balance` passes `trunk.len()`, which in `TestTrunk` is the tip height plus one. The wallet's rule is outside src/, so this is listed as a hazard without a property.
- **The mining of the wallet's own transactions, and the stale coin a deep reorg orphans after `fund` spent it**: in the model a spent mature coin can be orphaned (Maturity 2, three unwinds). Whether the outgoing transaction still confirms depends on the wallet's handling of mined spends, which is outside src/. A reorg deeper than the maturity depth is a risk of the chain, not of this code.
- **The receiving key not being persisted by `deposit_address`**: spec.md 9 records this as a known gap. The model's `handedOut` history would show it the way `change_key_reuse` shows the change key.
- **Rebroadcasting transactions stored before `set_tx_sender`**: spec.md 4.1 states that an absent sender only suppresses propagation, so there is no stated behaviour to check.
- **Out-of-order delivery by the sync layer**: spec.md 4.5 makes in-order delivery the sync layer's contract. The model delivers in order and adds duplicates of the processed block.
- **`TestTrunk::get_header`**: the store never calls it.

The hazards list in `PROJECT.json` names each of these.
