-------------------------------- MODULE Node --------------------------------
(***************************************************************************)
(* A validating node following the chain of a proposer.                    *)
(*                                                                         *)
(* The proposer P builds blocks with SchemaFork::create_block              *)
(* (db_service/src/db_fork_ref.rs) from its own TransactionPool and        *)
(* gossips them; clients' transactions are gossiped too.  The node N runs  *)
(* the two tasks of NodeMsgProcessor (node/src/nodemsgprocessor.rs): the   *)
(* message loop, which puts gossiped blocks on the pending_blocks queue    *)
(* and gossiped transactions into POOL, and the applier thread, which      *)
(* tries SchemaFork::update_block on the head of the queue inside a fork   *)
(* of the database, falls back to sync_state when the block does not fit, *)
(* and merges the fork with patch_db.                                      *)
(*                                                                         *)
(* Hashes are collision free: a block's hash is the block record itself    *)
(* and a Merkle root is the content of its trie.  The storage trie is      *)
(* never written by any path and is left out.                              *)
(***************************************************************************)
EXTENDS Integers, Sequences, FiniteSets, Functions

CONSTANTS
    Txn,          \* signed transactions (their content hashes)
    Stamp,        \* parsed "timestamp" header of each transaction (-1: malformed)
    MaxStamp,     \* largest timestamp
    Account,      \* wallet addresses
    From, To, Amount,  \* the transfer each transaction asks for
    Valid,        \* the transactions whose signature verifies
    Fund,         \* balances credited by the genesis block
    BlockCap,     \* the cap of execute_transactions (15 in the code)
    MaxHeight,    \* bound: the proposer's chain has at most this many blocks
    MaxPending,   \* bound: pending_blocks holds at most this many blocks
    MergeMayFail, \* whether DB_INSTANCE.merge may return an error
    FetchMayFail  \* whether a peer request of sync_state may fail

ASSUME StampAssumption == Stamp \in [Txn -> (0..MaxStamp) \cup {-1}]
ASSUME AccountAssumption ==
    /\ From \in [Txn -> Account] /\ To \in [Txn -> Account]
    /\ Amount \in [Txn -> Nat] /\ Valid \subseteq Txn
    /\ Fund \in [Account -> Nat]
ASSUME BoundsAssumption ==
    /\ MaxStamp \in Nat /\ BlockCap \in Nat \ {0}
    /\ MaxHeight \in Nat \ {0} /\ MaxPending \in Nat
    /\ MergeMayFail \in BOOLEAN /\ FetchMayFail \in BOOLEAN

VARIABLES
    pchain,     \* the proposer's blocks list
    ppool,      \* the proposer's TransactionPool
    netBlocks,  \* blocks published on the gossip topic
    netTxns,    \* transactions published on the gossip topic
    db,         \* N's database: [chain, state, ttrie]
    pool,       \* N's POOL
    pending,    \* N's pending_blocks queue
    sync,       \* the applier's sync_state in progress, or NoSync
    held        \* <<b>> while the message loop waits to push b, else <<>>

vars == <<pchain, ppool, netBlocks, netTxns, db, pool, pending, sync, held>>

TP == INSTANCE TxPool WITH MaxBlockTxns <- BlockCap

NoSync == [idle |-> TRUE, todo |-> <<>>,
           fork |-> [chain |-> <<>>, state |-> Fund, ttrie |-> {}], txns |-> {}]

-----------------------------------------------------------------------------
(* The wallet application (spec_modelled: its executor is not under src). *)

\* SignedTransaction::validate and execute: a signed transfer succeeds when
\* the sender can pay; a failed execution leaves the state alone.
Executes(st, t) == t \in Valid /\ st[From[t]] >= Amount[t]

Transfer(st, t) ==
    [st EXCEPT ![From[t]] = @ - Amount[t], ![To[t]] = @ + Amount[t]]

-----------------------------------------------------------------------------
(* Blocks and the schema.                                                  *)

\* Block::genesis_block with the funded accounts of initialize_db.
Genesis == [id |-> 0, prev |-> <<>>, txns |-> <<>>,
            hdr |-> [state |-> Fund, txns |-> {}]]

\* A variant of execute_transactions that ignores what execute returns and
\* applies the transfer anyway, as PoolTrait::update_transactions does.
ExecuteTransactionsIgnoresResult(st, p) ==
    LET f[k \in 0..MaxStamp + 1] ==
          IF k = 0 THEN [txns |-> <<>>, state |-> st]
          ELSE LET acc == f[k - 1]
                   t   == p.order[k - 1]
               IN  IF /\ k - 1 \in DOMAIN p.order
                      /\ Len(acc.txns) < BlockCap
                      /\ t \in Valid
                   THEN [txns |-> Append(acc.txns, t), state |-> Transfer(acc.state, t)]
                   ELSE acc
    IN  f[MaxStamp + 1]

\* A variant of execute_transactions that pushes every transaction that
\* validates, whether or not it executed.
ExecuteTransactionsKeepsFailed(st, p) ==
    LET f[k \in 0..MaxStamp + 1] ==
          IF k = 0 THEN [txns |-> <<>>, state |-> st]
          ELSE LET acc == f[k - 1]
                   t   == p.order[k - 1]
               IN  IF /\ k - 1 \in DOMAIN p.order
                      /\ Len(acc.txns) < BlockCap
                      /\ t \in Valid
                   THEN [txns  |-> Append(acc.txns, t),
                         state |-> IF Executes(acc.state, t)
                                   THEN Transfer(acc.state, t) ELSE acc.state]
                   ELSE acc
    IN  f[MaxStamp + 1]

\* SchemaFork::execute_transactions: iterate order_pool in key order, and
\* while fewer than BlockCap were taken, take each one that validates and
\* executes against the state as it stands.
ExecuteTransactions(st, p) ==
    LET f[k \in 0..MaxStamp + 1] ==
          IF k = 0 THEN [txns |-> <<>>, state |-> st]
          ELSE LET acc == f[k - 1]
                   t   == p.order[k - 1]
               IN  IF /\ k - 1 \in DOMAIN p.order
                      /\ Len(acc.txns) < BlockCap
                      /\ Executes(acc.state, t)
                   THEN [txns |-> Append(acc.txns, t), state |-> Transfer(acc.state, t)]
                   ELSE acc
    IN  f[MaxStamp + 1]

\* SchemaFork::create_block on a fork of the proposer's database, whose
\* state and transactions trie are the header of its last block.
CreateBlock(chain, p) ==
    LET last == chain[Len(chain)]
        ex   == ExecuteTransactions(last.hdr.state, p)
    IN  [id   |-> Len(chain),
         prev |-> last,
         txns |-> ex.txns,
         hdr  |-> [state |-> ex.state, txns |-> last.hdr.txns \cup Range(ex.txns)]]

\* The loop of update_block over the block's hashes: a hash the pool does
\* not hold stops it; otherwise the transaction is put into the
\* transactions trie and then executed, and a failed execution stops it.
RunTxns(fk, s, pl) ==
    LET f[i \in 0..Len(s)] ==
          IF i = 0 THEN [ok |-> TRUE, state |-> fk.state, ttrie |-> fk.ttrie]
          ELSE LET acc == f[i - 1]
                   t   == s[i]
               IN  IF ~acc.ok THEN acc
                   ELSE IF ~TP!Get(pl, t) THEN [acc EXCEPT !.ok = FALSE]
                   ELSE IF Executes(acc.state, t)
                        THEN [ok |-> TRUE, state |-> Transfer(acc.state, t),
                              ttrie |-> acc.ttrie \cup {t}]
                        ELSE [acc EXCEPT !.ok = FALSE, !.ttrie = @ \cup {t}]
    IN  f[Len(s)]

\* SchemaFork::update_block on fork fk (non-genesis path: every database
\* holds the genesis block).  An early return leaves in the fork whatever
\* the loop had written to the tries; only a full success pushes the block.
UpdateBlock(fk, b, pl) ==
    IF b.id # Len(fk.chain) \/ b.prev # fk.chain[Len(fk.chain)]
    THEN [ok |-> FALSE, fork |-> fk]
    ELSE LET r  == RunTxns(fk, b.txns, pl)
             wr == [fk EXCEPT !.state = r.state, !.ttrie = r.ttrie]
         IN  IF r.ok /\ b.hdr = [state |-> r.state, txns |-> r.ttrie]
             THEN [ok |-> TRUE, fork |-> [wr EXCEPT !.chain = Append(@, b)]]
             ELSE [ok |-> FALSE, fork |-> wr]

\* patch_db: DB_INSTANCE.merge either applies the fork or fails, in which
\* case the error is logged and the fork is dropped.
Merged(fk) == IF MergeMayFail THEN {fk, db} ELSE {fk}

-----------------------------------------------------------------------------
(* sync_state (spec_modelled: fetch_sync_state of client/src/client.rs and *)
(* the applier of spec 4.5).                                               *)

\* fetch_sync_state(n): the proposer's blocks n.. up to the first that
\* could not be fetched, and the transactions of those blocks up to the
\* first that could not.
FetchedBlocks(n) ==
    {SubSeq(pchain, n + 1, m) :
        m \in IF FetchMayFail THEN n..Len(pchain) ELSE {Len(pchain)}}

FetchedTxns(bs) ==
    LET all == UNION {Range(bs[i].txns) : i \in DOMAIN bs}
    IN  IF FetchMayFail THEN SUBSET all ELSE {all}

\* Pre-populate the pool with the fetched transactions of a block, in the
\* block's order, through insert_op.
InsertFetched(pl, s, fetched) ==
    LET f[i \in 0..Len(s)] ==
          IF i = 0 THEN pl
          ELSE IF s[i] \in fetched /\ TP!ParseOk(s[i])
               THEN TP!InsertOp(f[i - 1], Stamp[s[i]], s[i])
               ELSE f[i - 1]
    IN  f[Len(s)]

-----------------------------------------------------------------------------
Init ==
    /\ pchain = <<Genesis>>
    /\ ppool = TP!EmptyPool
    /\ netBlocks = {}
    /\ netTxns = {}
    /\ db = [chain |-> <<Genesis>>, state |-> Fund, ttrie |-> {}]
    /\ pool = TP!EmptyPool
    /\ pending = <<>>
    /\ sync = NoSync
    /\ held = <<>>

(* The environment: clients and the proposer. *)

\* A client submits t to the proposer (its pool takes it if the header
\* parses) and t is published on the gossip topic.
Submit(t) ==
    /\ t \notin netTxns
    /\ netTxns' = netTxns \cup {t}
    /\ ppool' = IF TP!ParseOk(t) THEN TP!InsertOp(ppool, Stamp[t], t) ELSE ppool
    /\ UNCHANGED <<pchain, netBlocks, db, pool, pending, sync, held>>

\* The proposer runs create_block, merges it, removes the block's
\* transactions from its pool with sync_pool and publishes the block.
Propose ==
    /\ Len(pchain) < MaxHeight
    /\ LET b == CreateBlock(pchain, ppool)
       IN  /\ pchain' = Append(pchain, b)
           /\ ppool' = TP!SyncPool(ppool, b.txns)
           /\ netBlocks' = netBlocks \cup {b}
    /\ UNCHANGED <<netTxns, db, pool, pending, sync, held>>

(* N's message loop.  Gossip may lose, repeat and reorder messages: any    *)
(* published message may be delivered at any time, any number of times.   *)

\* SignedBlockEnum arm: push_back under the pending_blocks mutex.  The
\* applier holds that mutex through a whole sync: the loop then blocks with
\* b in hand, and receives nothing more until the sync ends.
DeliverBlock(b) ==
    /\ b \in netBlocks
    /\ held = <<>>
    /\ Len(pending) < MaxPending
    /\ \/ sync.idle /\ pending' = Append(pending, b) /\ UNCHANGED held
       \/ ~sync.idle /\ held' = <<b>> /\ UNCHANGED pending
    /\ UNCHANGED <<pchain, ppool, netBlocks, netTxns, db, pool, sync>>

\* SignedTransactionEnum arm: insert_op when the timestamp parses.
DeliverTxn(t) ==
    /\ held = <<>>
    /\ t \in netTxns
    /\ TP!ParseOk(t)
    /\ pool' = TP!InsertOp(pool, Stamp[t], t)
    /\ UNCHANGED <<pchain, ppool, netBlocks, netTxns, db, pending, sync, held>>

(* N's applier thread, one pass of its loop over a fresh fork of db.       *)

Head1 == Head(pending)
Tried == UpdateBlock(db, Head1, pool)

\* update_block succeeded: POOL.sync_pool, then patch_db, then pop.
ApplyHead ==
    /\ sync.idle /\ pending # <<>>
    /\ Tried.ok
    /\ pool' = TP!SyncPool(pool, Head1.txns)
    /\ db' \in Merged(Tried.fork)
    /\ pending' = Tail(pending)
    /\ UNCHANGED <<pchain, ppool, netBlocks, netTxns, sync, held>>

\* update_block failed and the chain is longer than the block's id: pop it
\* and drop the fork.
DropStale ==
    /\ sync.idle /\ pending # <<>>
    /\ ~Tried.ok
    /\ Len(Tried.fork.chain) > Head1.id
    /\ pending' = Tail(pending)
    /\ UNCHANGED <<pchain, ppool, netBlocks, netTxns, db, pool, sync, held>>

\* update_block failed otherwise: flag is set and sync_state runs on the
\* same fork, which still holds what the failed call wrote.
ResyncHead ==
    /\ sync.idle /\ pending # <<>>
    /\ ~Tried.ok
    /\ Len(Tried.fork.chain) <= Head1.id
    /\ \E bs \in FetchedBlocks(Len(Tried.fork.chain)) :
         \E tx \in FetchedTxns(bs) :
            sync' = [idle |-> FALSE, todo |-> bs, fork |-> Tried.fork, txns |-> tx]
    /\ UNCHANGED <<pchain, ppool, netBlocks, netTxns, db, pool, pending, held>>

\* sync_state applies the next fetched block: pre-populate POOL, then
\* update_block on the fork and sync_pool on success; the first failure
\* ends the sync.
SyncApply ==
    /\ ~sync.idle /\ sync.todo # <<>>
    /\ LET b  == Head(sync.todo)
           pl == InsertFetched(pool, b.txns, sync.txns)
           r  == UpdateBlock(sync.fork, b, pl)
       IN  /\ pool' = IF r.ok THEN TP!SyncPool(pl, b.txns) ELSE pl
           /\ sync' = [sync EXCEPT !.fork = r.fork,
                                   !.todo = IF r.ok THEN Tail(@) ELSE <<>>]
    /\ UNCHANGED <<pchain, ppool, netBlocks, netTxns, db, pending, held>>

\* flag was set: patch_db(fork) and pop the head of the queue.  The lock
\* is then released and the waiting message loop pushes its block before
\* the applier, asleep for two seconds, takes it again.
SyncDone ==
    /\ ~sync.idle /\ sync.todo = <<>>
    /\ db' \in Merged(sync.fork)
    /\ pending' = Tail(pending) \o held
    /\ sync' = NoSync
    /\ held' = <<>>
    /\ UNCHANGED <<pchain, ppool, netBlocks, netTxns, pool>>

Applier == ApplyHead \/ DropStale \/ ResyncHead \/ SyncApply \/ SyncDone

Next ==
    \/ \E t \in Txn : Submit(t)
    \/ Propose
    \/ \E b \in netBlocks : DeliverBlock(b)
    \/ \E t \in Txn : DeliverTxn(t)
    \/ Applier

Spec == Init /\ [][Next]_vars

\* The applier thread loops forever, waking every two seconds.
FairSpec == Spec /\ WF_vars(Applier)

-----------------------------------------------------------------------------
(* Properties.                                                             *)

IsBlock(b) ==
    /\ b = [id |-> b.id, prev |-> b.prev, txns |-> b.txns, hdr |-> b.hdr]
    /\ b.id \in Nat
    /\ b.txns \in Seq(Txn)
    /\ b.hdr \in [state : [Account -> Nat], txns : SUBSET Txn]

IsChain(c) ==
    /\ DOMAIN c = 1..Len(c)
    /\ \A i \in DOMAIN c : IsBlock(c[i])

IsDB(d) ==
    /\ d = [chain |-> d.chain, state |-> d.state, ttrie |-> d.ttrie]
    /\ IsChain(d.chain)
    /\ d.state \in [Account -> Nat]
    /\ d.ttrie \subseteq Txn

(* Every chain, block, pool, queue and fork the processes hold is well      *)
(* formed, and no balance is negative (u64 balances never underflow).       *)
TypeOK ==
    /\ IsChain(pchain) /\ Len(pchain) \in 1..MaxHeight
    /\ TP!IsPool(ppool)
    /\ \A b \in netBlocks : IsBlock(b)
    /\ netTxns \subseteq Txn
    /\ IsDB(db) /\ Len(db.chain) >= 1
    /\ TP!IsPool(pool)
    /\ IsChain(pending) /\ Len(pending) <= MaxPending
    /\ sync = [idle |-> sync.idle, todo |-> sync.todo, fork |-> sync.fork, txns |-> sync.txns]
    /\ sync.idle \in BOOLEAN
    /\ IsChain(sync.todo)
    /\ IsDB(sync.fork)
    /\ sync.txns \subseteq Txn
    /\ IsChain(held) /\ Len(held) <= 1

Last(s) == s[Len(s)]

(* What N has committed is the proposer's chain up to some height, and the *)
(* state and transactions tries N has merged are exactly those the last    *)
(* committed block's header names (spec invariants 1-3).  update_block     *)
(* checks the header before it pushes, so this fails only if a fork that   *)
(* update_block left half-written reaches patch_db, or if blocks, pool    *)
(* lookups and merges go wrong in some other order.                       *)
CommittedMatchesProposer ==
    /\ Len(db.chain) <= Len(pchain)
    /\ db.chain = SubSeq(pchain, 1, Len(db.chain))
    /\ db.state = Last(db.chain).hdr.state
    /\ db.ttrie = Last(db.chain).hdr.txns

(* Once a block of height h is in pending_blocks, N eventually holds a     *)
(* chain longer than h: the applier either appends it, or finds it already *)
(* committed, or syncs past it.                                            *)
PendingBlockCommitted ==
    \A h \in 1..MaxHeight :
        (\E i \in DOMAIN pending : pending[i].id = h) ~> Len(db.chain) > h


\* The transactions of the blocks N has committed.
CommittedTxns == UNION {Range(db.chain[i].txns) : i \in DOMAIN db.chain}

(* A transaction leaves POOL for good when a block that holds it is        *)
(* committed (spec 3: inserted into TxPool, removed on block inclusion):   *)
(* nothing N has committed is pending in POOL, where a proposer would      *)
(* execute it again.  The message loop's transaction arm inserts whatever  *)
(* gossip hands it, committed or not.                                      *)
CommittedNotPending == \A t \in CommittedTxns : ~TP!Get(pool, t)
=============================================================================
