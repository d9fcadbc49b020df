# Formal models of simpleblockchain

TLA+ models of the node of `src/`. The node has these parts:

- the transaction pool;
- the block engine on the authenticated database;
- the message processor with its applier thread;
- the sync engine that fetches missing blocks from a peer;
- the legacy RocksDB wrapper of `db/src/database.rs`, which nothing in `src/` calls.

This directory holds the modules, the TLC configurations that check them on
small instances, and TLAPS proofs, for every instance, of the invariants of the pool, the sync engine,
the genesis path and the legacy database wrapper, and of the sync engine's
refinement of its one-step contract.
`PROJECT.json` lists the components, the runs, the mutants, the map from
definitions to source lines, the findings, the hazards and the theorems.

## The system and how its parts interact

| Part | Source | Shared state | Operations |
|---|---|---|---|
| Transaction pool (C3) | `schema/src/transaction_pool.rs` | `POOL`: `hash_pool` (hash → txn) and `order_pool` (u128 timestamp → txn) under one mutex | `insert_op`, `get`, `sync_pool`, `delete_*`; `sync_order_pool` (no caller) |
| Block engine (C2, C4) | `db_service/src/db_fork_ref.rs` | the block list, the state trie and the transactions trie in a fork | `initialize_db`, `execute_transactions`, `create_block`, `update_block` |
| Database (C1) | `db_service/src/db_layer.rs` | `DB_INSTANCE` (RocksDB) | `fork_db`, `patch_db` (a merge whose error is only logged) |
| Message processor (C6) | `node/src/nodemsgprocessor.rs` | `pending_blocks` (a VecDeque under a mutex) | message loop: push a gossiped block, or `insert_op` a gossiped transaction; applier thread, every 2 s: `update_block` on the head, then `sync_pool`, pop, or `sync_state`, then `patch_db` |
| Sync engine (C5) | `client/src/client.rs` | none | `fetch_sync_state`: peer length, blocks up to the first gap, then their transactions up to the first failure |
| Peer registry | `p2plib/src/p2pbehaviour.rs`, `client/src/client.rs` | `GLOBALDATA.peers` under a lock | mdns `Discovered`/`Expired`; `get_peer_url`, `get_peer_url_using_pk` |
| Wallet state | `user/wallet_app/src/state.rs` | account balances (u64) | `deduct_balance`, `add_balance` |
| Legacy RocksDB wrapper | `db/src/database.rs` | one RocksDB at `rockdb/db` | `Con::new`, `connect`, `put_in_db`, `getu8`, `get_from_db` (no caller in `src/`) |

How they interact:

- Blocks and transactions arrive by floodsub gossip (`p2plib`). Gossip may lose, repeat or reorder them.
- The message loop and the applier thread share two things: `POOL` and `pending_blocks`.
- The applier holds the `pending_blocks` mutex for a whole pass, including `sync_state` and its HTTP requests.
- `update_block` reads the pool to find each transaction a block names. Its writes to the fork are merged by `patch_db` whenever the applier's `flag` is set.

Two pieces of code that the processor calls are not under `src/`:

- `SchemaFork::sync_state`, which applies a fetched `SyncState`;
- the one-argument `update_block(block)`, which uses the process-wide `POOL`.

They are modelled from spec 4.5 and 4.4.3 and are marked `spec_modelled` in the map. The same holds for the wallet's `execute`, including its balance check, and for the proposer's main loop. In `src/`, `create_block` is only called from a test.

## Modules

- **TxPool.tla** models one `TransactionPool` value.
  - A transaction is identified with its content hash, as a model value.
  - `Stamp[t]` is what its `"timestamp"` header parses to; `-1` means the header does not parse.
  - `pool.hash` is the key set of `hash_pool`, and `pool.order` is `order_pool` as a function.
  - `InsertOp`, `SyncPool`, `Get`, `DeleteTxnHash` and `DeleteTxnOrder` translate the methods.
  - `SyncPool` removes all eligible hashes at once. Each loop iteration removes one key of each map, and no iteration enables a later one.
  - The specification drives `POOL` with the two calls made on it: the transaction arm (`Receive`) and the applier's `sync_pool` after a successful block (`Commit`).
- **TxPool_proofs.tla** holds the TLAPS proofs for TxPool.
- **TxPool** also has `SyncOrderPool`, the loop of `sync_order_pool`. `RevertSpec` adds the `Pool::sync_order_pool` call (`Revert`) to the two calls above. Nothing in `src/` calls it.
  - The loop is written in closed form as `InsertInOrder`: under each timestamp, the insert of the last accepted index (`LastInsert`) is the one that stays, and no other key is touched.
  - An earlier version wrote the loop as a recursive function. TLC compared the two on every pool over three transactions with shared timestamps and every list of length at most 3, and they agree.
- **Node.tla** models one proposer P and one validating node N. It uses TxPool's operators through `INSTANCE`.
  - P's state: `pchain`, `ppool`.
  - The network: `netBlocks`, `netTxns`.
  - N's state:
    - `db`: the committed chain, the state trie and the transactions trie;
    - `pool`: N's `POOL`;
    - `pending`: `pending_blocks`;
    - `sync`: a sync in progress, with the fork it works on, the blocks still to apply and the fetched transactions;
    - `held`: the block the message loop is blocked pushing while the applier holds the queue lock.
  - Abstractions:
    - A block's hash is the block record itself; a Merkle root is the content of its trie.
    - Balances are naturals.
    - A fork is a copy of `db`, and a merge replaces `db` with it.
  - Actions:

    | Action | Code |
    |---|---|
    | `Submit` | a client hands a transaction to P, and it is published |
    | `Propose` | P's `create_block` on its own chain and pool, then removing the block's transactions from P's pool, then publishing |
    | `DeliverBlock` | the block arm of the message loop |
    | `DeliverTxn` | the transaction arm of the message loop |
    | `ApplyHead`, `DropStale`, `ResyncHead` | the three outcomes of the applier's `update_block` on the queue head (`nodemsgprocessor.rs:102-117`) |
    | `SyncApply` | one block of `sync_state`: pre-populate the pool, `update_block`, `sync_pool` |
    | `SyncDone` | `patch_db` of the flagged fork, then the pop (`:120-124`) |

    `Propose` abstracts spec 4.4.2 together with P importing its own block.
  - The `update_block` translation keeps the order of the code. A transaction is put into the fork's trie, and then executed. A missing or failing transaction returns early, and the earlier writes stay in the fork.
  - The genesis branch of `update_block` is in Genesis.tla, because Node's databases start with the genesis block. The signature check is not modelled, because a single honest proposer always signs correctly.
- **Genesis.tla** models `initialize_db` on P, and on a node N whose database is still empty the applier's handling of the genesis block: the `id == 0` branch of `update_block`, and after a failure the `sync_state` on the same fork and the `patch_db` that merges it (`nodemsgprocessor.rs:95-124`).
  - `ExecuteGenesis` is `execute_genesis_transactions`: `add_balance` on a fresh `State::new()`, then `state_trie.put`. It replaces the address's state rather than adding to it.
  - `InitializeDb` is the key loop (`db_fork_ref.rs:67-83`). `UpdateGenesis` is the block's loop, then the check of the state and transactions roots (`:224-256`). On a missing transaction it returns "missing" with the writes of the transactions before it (`Written`) left in the fork.
  - Both loops are written in closed form (`GenesisRun`), not as recursion over the list. Each `put` replaces the wallet under its address, so the final tries do not depend on the order of the transactions, and running the loop twice over parts of the list writes what one run over their union writes. The closed forms are what makes the Genesis theorems provable.
  - Actions: `Initialize` (P starts and publishes), `DeliverTxn` (N's transaction arm), `ApplyGenesis` (the applier's update_block on the genesis block; on success sync_pool and the merge, on failure the stale test `0 > 0` is false, so it starts `sync_state` on the same fork), `SyncGenesis` (the sync applies the fetched genesis block with its fetched transactions added to POOL), `SyncGenesisDone` (`patch_db` merges whatever the fork holds). The sync's requests may fail (`FetchMayFail`), as in Node.
- **PeerSync.tla** models the sync engine's two HTTP loops step by step, and the peer registry they read.
  - `reg` is `GLOBALDATA.peers`, changed by `Discovered` and `Expired` (`p2pbehaviour.rs:40-63`) at any time between two requests.
  - `GetPeerUrl` takes the first registered peer, in a fixed iteration order (`Rank`), whose address resolves.
  - The requests (`FetchBlockchainLength`, `FetchBlock`, `FetchConfirmTransaction`, `FetchTransaction`) return an answer of the chosen peer, `Ok(None)`/`Ok(0)` when there is no peer, or a network error when `NetMayFail`.
  - `fetch_sync_state` is `SyncStart`, `FetchLength`, `FetchBlockStep` (one block per step; a missing block or an error sets `own_chain_length` to the target and ends the loop), `BlocksDone`, `TxnBlockStart` and `TxnStep` (an `Ok(None)` goes on with the block; an error breaks out of everything).
  - `sync_txn_pool` is `TxnPoolStart`, `TxnPoolStep` and `TxnPoolEnd`: the key's peer is looked up once, and each hash is fetched and inserted into POOL.
- **SyncCall.tla** is the abstract specification of one `fetch_sync_state(current_length)` call, with the whole call as one step.
  - `Call(c)` starts a call when none is running. `Return` ends it with a `block_pool` in `Segments(from)` (nothing, or one peer's blocks at heights `from..e-1`) and a `txn_map` whose hashes are transactions of those blocks that some peer confirms (`TxnsOf`).
  - PeerSync refines it through `SC == INSTANCE SyncCall WITH ...`. The mapping: `phase` is `idle` or `done` when the fetcher is, and `busy` during the call; `from` is `current_length`. The returned `block_pool` and `txn_map` are visible only once the call is done, and are empty before. `PeerConfirmed[p]` is `Confirmed(p)`.
  - Each request step of PeerSync is a stutter of SyncCall, and the step that ends the call is its `Return`. That step is a `FetchLength` that fails or reads 0, a `TxnBlockStart` with no block left, or a `TxnStep` that breaks out or finishes the last block.
- **LegacyDb.tla** models `rdb_connection::Con`.
  - `con[h]` is a Con's `con_obj`: not created, `Nil`, `Db`, or gone. `getu8` and `get_from_db` take `self` by value, so a read ends the Con and closes its handle. `Drop` is a Con leaving scope.
  - `store` is the content of `rockdb/db`. Every Con opens the same path, so it outlives the handles.
  - `Connect` panics when RocksDB's lock is held. The lock is held when any Con is open, the same Con included, because `open_default` runs before the old `con_obj` is dropped.
  - `PutInDb` returns the key whether or not the write succeeded. `Getu8` panics on an absent key. `GetFromDb` returns None on an `Err`, and panics on an absent key and on bytes that do not read as `()`.
- **\*_proofs.tla** hold the TLAPS proofs of TxPool, PeerSync, Genesis and LegacyDb. **PeerSync_refinement.tla** proves that PeerSync implements SyncCall. **MC_\*.tla** give the constants of each run.

- **Node_proofs.tla** holds the TLAPS proofs for Node. It also restates the three loops of Node (`ExecuteTransactions`, `RunTxns`, `InsertFetched`) as one step operator each (`ExecStep`, `RunStep`, `InsStep`) and the function they iterate (`ExecFcn`, `RunFcn`, `InsFcn`). Lemmas prove each restatement equal to the definition in Node.

## Runs

| Run | Config | Expect | Shows |
|---|---|---|---|
| txpool_distinct | MC_TxPool.cfg | pass | 7 transactions with distinct timestamps and 1 malformed one, block lists of length ≤ 2, under `RevertSpec`: `TypeOK`, `IndexesAgree` (128 states, the whole pool lattice) |
| txpool_shared_stamp | MC_TxPool_shared.cfg | violation | Two transactions with one timestamp: `IndexesAgree` fails after two inserts |
| node_safety | MC_Node.cfg | pass | 3 transfers, 2 accounts, chain ≤ 3 blocks, 1 transaction per block, queue ≤ 2, fetches and merges that may fail: `TypeOK`, `CommittedMatchesProposer` |
| node_catchup | MC_Node_live.cfg | violation | Fetches and merges that succeed, weak fairness of the applier, two transactions per block: a block that arrives before its second transaction is replayed on its own half-written fork by the re-sync, fails and is popped, so N never reaches its height (`PendingBlockCommitted`, finding 7) |
| node_partial_fork_merge | MC_Node_partial.cfg | violation | With two transactions per block, a half-applied fork is merged |
| node_ahead_block_dropped | MC_Node_dropped.cfg | violation | A fetch that stops early ends with the ahead block popped, so N never catches up |
| node_redelivered_txn | MC_Node_redeliver.cfg | violation | A transaction delivered again after its block was committed is pending in POOL again (`CommittedNotPending`) |
| genesis_replay | MC_Genesis.cfg | pass | Every key list of length ≤ 3 over 2 addresses, including repeated keys, failed genesis updates followed by a sync whose requests may fail and a merge: `TypeOK`, `ReplayNeverMismatches` (4115 states) |
| genesis_duplicate_key | MC_Genesis_dup.cfg | violation | A key list naming a1 twice leaves a1 with one credit (`GenesisCreditsEachKey`) |
| peersync_agree | MC_PeerSync.cfg | pass | 2 peers whose chains agree (lengths 2 and 3), 3 transactions, 2 hash lists, requests that may fail, any registry changes, under `FairSpec`: `TypeOK`, `SyncSegment`, `SyncedWhenPeerFound`, `FetchTerminates`, `SyncCallRefined` (33264 states) |
| peersync_fork_mixed | MC_PeerSync_fork.cfg | violation | With rival blocks at height 2, a registry change between two requests makes one sync take block 1 of p2's chain after block 0 of p1's (`SyncSegment`) |
| legacydb_calls | MC_LegacyDb.cfg | pass | 2 Cons, 2 objects, 3 keys, I/O errors possible: `TypeOK` (801 states) |

Bounds:

- Node: three transfers are enough to set up the interesting cases.
  - t1 and t2 are both paid by a1, whose funds cover only one of them, so a block of either makes the other fail.
  - t3 moves the money back.
  - A chain of 3 blocks lets a block be ahead of N by one, and lets a sync fetch two.
  - A queue of 2 lets a duplicate or a stale block sit behind a good one.
  - With one transaction per block, the partial-write defect cannot happen, because a block's only transaction either fails before anything else was written or succeeds. So `node_safety` asks whether anything else can break the chain invariant, and `node_partial_fork_merge` and `node_catchup` show what two transactions per block do. With one transaction per block `PendingBlockCommitted` holds under reliable fetches and merges, but the cap of 1 hides the failure, so no passing run claims it.
- PeerSync: two peers are the fewest for which the registry's choice can change between requests. Chains of different lengths make the target depend on the peer asked. `MaxLen = 3` lets the block loop take two steps and stop at a gap. The transaction t3 is confirmed by no peer's block in the fork configuration and is missing from p1's pool, so every outcome of each request happens.
- Genesis: key lists up to length 3 over two addresses include every pattern of a repeated key. N may receive any subset of the transactions before the block, so a failed update can leave any prefix of the block written in the fork, and the sync may fetch the block or not and any subset of its transactions.
- LegacyDb: two Cons are needed for a connect while another Con is open. o2 reads as `()` and o1 does not, so both outcomes of `get_from_db`'s deserialization happen. k3 is a key nothing is put under.

Fairness:

- The applier thread loops forever (`loop { sleep(2000); ... }`) and is the only consumer of `pending_blocks`. So Node's `FairSpec` assumes weak fairness of `Applier`.
- `fetch_sync_state` runs to its end on its caller's thread, with no lock to wait for. So PeerSync's `FairSpec` assumes weak fairness of `Fetcher`.
- Gossip, clients, the proposer and mdns get no fairness: a message or an event may never come.

Deadlock:

- It is checked in the Node, TxPool and PeerSync runs. Something can always happen there: a client, gossip or mdns can act, and `TxnPoolStart` can always begin another call.
- It is not checked in the Genesis and LegacyDb runs:
  - Once N has merged the genesis block, or the fork a sync left, nothing more happens.
  - A panic in `Con` ends the process.

## Properties

- `IndexesAgree` (TxPool): the two maps hold the same transactions, each under its own timestamp. This is the spec's "both must be updated atomically" and "appears exactly once in both".
- `CommittedMatchesProposer` (Node): N's committed chain is a prefix of P's, and N's state and transactions tries are those named by the last committed header (spec §3 invariants 1–4). Breaking it takes several actors in a particular order: a block arrives, some of its transactions are missing, the fork is written, and a merge happens.
- `PendingBlockCommitted` (Node): a block on `pending_blocks` at height h is eventually behind N's chain (N holds more than h blocks). Spec 4.6 promises it; both runs that check it find it violated (findings 3 and 7).
- `CommittedNotPending` (Node): no transaction of a committed block is in POOL (spec 3: removed on block inclusion).
- `ReplayNeverMismatches` (Genesis): N never fails the genesis header check, in the applier or in the `sync_state` that replays the block over what the failed call wrote. It holds only if `initialize_db` and the genesis branch execute alike (spec 7, determinism), and only because a replay over partial genesis writes lands on the same tries: each put replaces the wallet, so a second put of the same transaction changes nothing. Node's `node_catchup` shows that the same replay of an ordinary block does not.
- `GenesisCreditsEachKey` (Genesis): after `initialize_db`, an address holds the genesis amount once for each time it is listed (spec 4.4.1).
- `SyncSegment` (PeerSync): `block_pool` of `fetch_sync_state` is always a run of consecutive heights from `current_length`, and all its blocks are one peer's chain.
- `SyncedWhenPeerFound` (PeerSync): when `sync_txn_pool` found the key's peer and returns true, every hash of its list is in POOL.
- `FetchTerminates` (PeerSync): a started `fetch_sync_state` returns, whatever the registry does and whichever requests fail.
- `SyncCallRefined` (PeerSync): `fetch_sync_state`, run request by request with mdns events and failures in between, implements the SyncCall contract. Each call returns nothing, or one peer's blocks at consecutive heights from `current_length`, together with confirmed transactions of those blocks only.
- `TypeOK` in each module.
  - For Node it includes that balances stay naturals, which is the u64 underflow of `deduct_balance`.
  - For LegacyDb it includes that `get_from_db` only ever returns None or panics.

Every property of a passing run has a mutant in `PROJECT.json` that TLC catches:

- `ReceiveUnparsed`: the header parse is dropped.
- `SyncPoolKeepsOrder`: `delete_txn_order` is forgotten.
- `ExecuteTransactionsIgnoresResult`: the transfer is applied whatever execute returns, as `PoolTrait::update_transactions` does.
- `ExecuteTransactionsKeepsFailed`: a transaction that did not execute is pushed anyway, as `PoolTrait::execute_transactions` does.
- `ApplyGenesisNoHeightCheck`: update_block's height check is dropped.
- `ExecuteGenesisAccumulates`: a genesis transaction credits the address's wallet instead of putting a fresh one, as spec 4.4.1 reads. A replay over partial writes then credits twice and fails the header check.
- `FetchBlockStepSkipsGap`: the block loop skips a missing block.
- `FetchBlockStepRetries`: the block loop retries a missing block.
- `FetchBlockStepSkipsGap` is also the mutant of `SyncCallRefined`: its `block_pool` leaves a gap, which no `Segments` value has.
- `TxnPoolStepSkipsMissing`: `sync_txn_pool` goes on past a hash it could not fetch.
- `TxnPoolStepUnparsed`: `sync_txn_pool` inserts without parsing the timestamp.
- `GetFromDbReturnsObject`: `get_from_db` returns the object, as its commented-out match would.

## Findings

1. **order_pool is keyed by timestamp only** (`transaction_pool.rs:81`). A second transaction with the same timestamp replaces the first in `order_pool` but not in `hash_pool`. The first can then be found by `get` but is never executed by a proposer. The spec keys `by_order` by timestamp and hash.
2. **A failed update_block's fork is merged** (`nodemsgprocessor.rs:115-121` with `db_fork_ref.rs:269-282`). The sequence:
   1. A block arrives before its second transaction.
   2. `update_block` writes the first transaction to the fork and returns false.
   3. The applier sets `flag`, and `sync_state` works on the same fork.
   4. The block re-runs on top of its own partial writes and fails.
   5. `patch_db` merges state and trie changes that no header names.

   The spec says failed updates discard the fork.
3. **The ahead block is popped after any sync** (`nodemsgprocessor.rs:122`). When `fetch_sync_state` stops at a missing block, the block that triggered the sync is dropped, and N falls behind until another block arrives. Spec 4.6 says to leave it in place.
4. **A committed transaction comes back into POOL** (`nodemsgprocessor.rs:70`). The transaction arm inserts every gossiped transaction whose timestamp parses. A repeat delivery after the block was committed makes it pending again, and nothing removes it.
5. **A duplicated genesis key is credited once** (`db_fork_ref.rs:103`). `execute_genesis_transactions` puts a fresh wallet under the address instead of crediting the existing one. With a key listed twice, the block and the transactions trie hold two transactions to it, but its balance is one amount.
6. **One sync can mix two peers' chains** (`client.rs:346`). Every block request asks `get_peer_url` again. An mdns event between two requests changes the peer, so `block_pool` can hold blocks of rival chains. Spec 4.5 says the sync pulls the blocks from the peer whose chain length exceeds ours.
7. **A block that arrives before its transactions can stop N for good** (`nodemsgprocessor.rs:116`), with every fetch and merge succeeding. `update_block` writes the block's first transaction into the fork and stops at the missing second one; `sync_state` replays the block on that same fork, so the first transfer runs twice and the header check fails; `patch_db` merges the fork and the block is popped. N's tries no longer match its last header, so every later block fails the same way. Spec 4.4.3 says failures discard the fork.

## Proofs

`TxPool_proofs.tla` proves, for every set of transactions, every timestamp assignment and every block-list bound:

- `TypeCorrect`: `Spec => []TypeOK`.
  - The inductive argument is one step per action.
  - The lemmas `InsertOpType` and `SyncPoolType` say that `insert_op` and `sync_pool` preserve the map shapes.
- `IndexesAgreeInvariant`: `ASSUME StampInjective PROVE Spec => []IndexesAgree`.
  - `StampInjective` says that distinct parseable transactions carry distinct timestamps, the assumption that the shared-stamp run shows to be necessary.
  - The inductive invariant is `TypeOK /\ IndexesAgree`. Agreement alone is not inductive: the proof that an insert keeps agreement needs `order_pool`'s domain to be timestamps, which `TypeOK` gives.
  - `InsertOpAgrees`: an insert never replaces another transaction's entry, because only t has timestamp `Stamp[t]`.
  - `SyncPoolAgrees`: a removed timestamp only ever belonged to a removed transaction, because every entry sits under its own timestamp.

`PeerSync_proofs.tla` proves, for every set of peers, ranks, chains, hash lists and length bound:

- `TypeCorrect`: `Spec => []TypeOK`. It is split into `TypeData` and `TypeFlags`:
  - `TypeData` holds the data, plus two facts the steps need: `blk` is a fetched height while transactions are fetched, and `qi` stays within the hash list. SMT proves it.
  - `TypeFlags` holds the Boolean fields. Zenon proves it, because the SMT backend does not prove membership in `BOOLEAN`.
- `SyncSegmentInvariant`: `ASSUME NoFork PROVE Spec => []SyncSegment`.
  - `NoFork` says the peers' chains are prefixes of one another. The fork run shows it is needed.
  - The inductive invariant `SegInv` says:
    - `own_chain_length` and the target stay in range;
    - `block_pool` covers `current_length..e-1` for some e, with e equal to `own_chain_length` while blocks are being fetched;
    - each fetched block is some peer's block at its height.
  - The invariant is needed because `SyncSegment` alone says nothing about the next request's height.
  - `NoFork` then makes every fetched block the block of the peer holding the highest height.
- `SyncedWhenPeerFoundInvariant`: `Spec => []SyncedWhenPeerFound`. The inductive invariant `PoolInv` adds that, while the loop runs, a peer was found and every hash before `qi` is in POOL. `InsertOpGet` says an insert keeps earlier hashes.
- `IterationOrder` (an ASSUME of PeerSync, checked by TLC on every run) states that every non-empty set of peers has a first one in the registry's order. It stands for the well-ordering of a finite iteration order, which the library proves only with an operator parameter that the provers cannot instantiate.

`LegacyDb_proofs.tla` proves, for every set of Cons, objects and keys:

- `TypeCorrect`: `Spec => []TypeOK`, with the same data and flags split.
- `Getu8ReadsOwnKey`: whatever `getu8` returns under a key is an object whose hash is that key, whichever Con wrote it. The inductive invariant adds that the store is content-addressed.

`Genesis_proofs.tla` proves, for every set of addresses, every genesis amount and every key list:

- `TypeCorrect`: `Spec => []TypeOK`.
- `ReplayDeterministic`: `Spec => []ReplayNeverMismatches`.
- `GenesisCreditsOnce`: once P has initialized, every address of the key list holds exactly the genesis amount. This includes a repeated address, which is finding 5 stated as what the code does.
- All three rest on the inductive invariant `GInv`, which TLC checks on the `genesis_replay` configuration first. `GInv` says:
  - before `Initialize`, nothing is published, N is empty and no sync runs;
  - after it, P's chain is `<<GBlock(pkeys)>>`, P's database is `InitializeDb(pkeys)`, the network holds that block and its transactions, and N's database is in `Partial(pkeys)`: the tries a genesis loop over some of the block's transactions writes on empty tries;
  - once N holds the block, its database is `InitializeDb(pkeys)`;
  - a running sync has N's chain empty, its fork in `Partial(pkeys)`, nothing or the genesis block left to apply, and once the fork holds the block its tries are `InitializeDb(pkeys)`.
- `ReplayNeverMismatches` alone is not inductive: it says nothing about what N's database and the fork already hold when the block is replayed. The argument:
  - `RunUnion`: a loop over S1 followed by a loop over S2 writes what one loop over S1 ∪ S2 writes, because each put replaces the wallet under its address.
  - `PartialRun`: so a loop over more genesis transactions keeps tries in `Partial`, and a loop over all of them from any partial tries gives `InitializeDb`.
  - `ReplayGenesis`: on partial tries the genesis branch returns "ok" with `InitializeDb` when POOL holds every transaction, and "missing" with partial tries otherwise, never "header".
  - `FetchedGenesis`: what the sync fetches is nothing or the genesis block.
- `StepGInv` has one step per action, and for `ApplyGenesis` and `SyncGenesis` one per outcome of the update.

`PeerSync_refinement.tla` proves:

- `SyncCallRefinement`: `ASSUME NoFork PROVE Spec => SyncCallRefined`. PeerSync implements SyncCall under the mapping above.
- The argument goes step by step:
  - `SyncStart` maps to `Call`.
  - Every other step of the fetcher, and every registry or `sync_txn_pool` step, leaves the mapped variables unchanged. Those are stutters.
  - The step that ends the call maps to `Return` (lemma `ReturnStep`).
- The `Return` step uses two invariants:
  - `SyncSegment`, from `SyncSegmentInvariant`, gives the block part. `SegmentOf` turns a consecutive run of one peer's blocks into a member of `Segments`.
  - `TxnInv` gives the transaction part: the fetched `txn_map` only holds transactions of the fetched blocks that some peer confirmed, and it is empty before the transaction loop.
- `TxnInv` is checked by TLC on the `peersync_agree` run before it is proved.

`Node_proofs.tla` proves, for every set of transactions, accounts, balances, every block cap (15 in the code) and every bound, whether or not fetches and merges may fail:

- `CommittedPrefixInvariant`: `Spec => []CommittedIsPrefix`. N's committed chain is always the proposer's chain up to some height.
  - The inductive invariant is `ChainInv`. It says:
    - every queue, held block and fetched list is a sequence of the proposer's blocks;
    - the proposer's i-th block has id i - 1;
    - `db` and the sync fork are database records whose chains are prefixes of `pchain`.
  - Prefix alone is not inductive: applying a block needs the block to be the proposer's block at the fork's height. The id check of `update_block` then pins it (`PrefixAppend`).
  - `UpdateBlockChain` says that `update_block` either appends its block or leaves the chain alone, whatever the transaction loop wrote. The proof therefore never looks inside the loops.
  - TLC checked `ChainInv` on the safety, partial and BlockCap 2 configurations before it was proved.
- `TypeCorrect`: `Spec => []TypeOK`. It includes that no balance of N's database, of a sync fork or of a proposer's block is ever negative. In the code this means that `deduct_balance` on u64 never underflows.
  - The inductive invariant is `TypeInv`. It adds to `ChainInv`:
    - every block of the proposer is well formed;
    - both pools are pools;
    - the stores' balances are naturals and their tries hold transactions;
    - the lock bookkeeping: a sync runs only while a block is at the head of the queue, its fork holds the genesis block, the message loop holds a block only during a sync, and `Len(pending) + Len(held) <= MaxPending`.
  - The lock bookkeeping is what makes `SyncDone`'s `Tail(pending) \o held` respect the queue bound.
  - TLC checked `TypeInv` on the same three configurations first.
  - The loops are handled without induction over data. For a loop written as a recursive function, for example f over 0..N:
    - `ExecFcnFixed`, `RunFcnFixed` and `InsFcnFixed` show that the function exists, so that it satisfies its defining equation. The argument takes the least n with no function on 0..n and extends the one on 0..n-1.
    - `ExecuteTransactionsType`, `RunTxnsType` and `InsertFetchedType` take the least k at which f[k] would be ill-typed and derive a contradiction from the step lemma (`ExecStepType`, `RunStepType`, `InsertOpIsPool`).
    - Least elements come from `LeastNat`, which is `WFMin` applied to `NatLessThanWellFounded`.
  - `TransferType` is where the underflow check lives: a transfer that `Executes` leaves the sender with a natural balance.

Only model-checked, and why:

- `FetchTerminates` is liveness under fairness, which is out of the prover's reach. `PendingBlockCommitted` is liveness too, and false (findings 3 and 7).
- Node's `CommittedMatchesProposer` is false for a block cap of 2 or more (finding 2), so it has no theorem for every constant.
  - For cap 1 it would need that replaying a block with `update_block` reproduces the state `create_block` computed.
  - That relates the results of two different loops for every input: an induction over the loop index that compares two recursive functions. The fixed-point technique above gives each function's type, but the comparison is not proved here.
## Not modelled

- mdns and floodsub themselves (`p2plib/src/simpleswarm.rs`, the floodsub arm of `p2pbehaviour.rs`) are I/O. Node abstracts them as gossip that may lose, repeat and reorder messages. The message types they carry are in `messages.rs`, which is not in the repository.
- The HTTP requests without a caller (`submit_transaction`, `fetch_pending_transaction`, `fetch_state`, `fetch_latest_block`) change no state. The wallet client (`user/wallet_app_client`) builds and posts transactions; its effect is Node's `Submit`.
- Configuration loading (`utils/src/configreader.rs`) is start-up only.
- The legacy `node/src/block.rs` declares `mod transaction` and uses `messages` and `utils::global_peer_data`. None of these exist in the repository, so the file does not build, and the transactions it executes have no definition to model.
- `PoolTrait` (`transaction_pool.rs:190-240`) runs the APPDATA executors, which are not under `src/`. It appears only as the Node mutants that copy its behaviour.
- The u64 width of balances is not modelled. Reaching 2^64 needs funds that `initialize_db` never creates.

## Plan for the next steps

1. A second proposer, so that two blocks can compete at one height (spec S6), and so that a committed transaction back in POOL (finding 4) can be proposed again.
2. An abstract chain specification (a growing sequence of valid blocks) that Node refines, with N's committed chain as the refinement mapping. `ChainInv` and `UpdateBlockChain` are the facts such a proof would rest on.
3. `CommittedMatchesProposer` for a block cap of 1, by comparing `RunFcn` with `ExecFcn` index by index with the least-counterexample argument used for the types.
