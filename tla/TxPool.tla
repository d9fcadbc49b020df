------------------------------- MODULE TxPool -------------------------------
(***************************************************************************)
(* The transaction pool of a node (schema/src/transaction_pool.rs).        *)
(*                                                                         *)
(* A TransactionPool keeps every pending signed transaction twice: in      *)
(* hash_pool, keyed by its content hash, and in order_pool, keyed by the   *)
(* u128 parsed from its "timestamp" header, which is the order in which a  *)
(* proposer executes pending transactions.  A transaction is identified    *)
(* with its content hash (the hash is collision free in the model), so     *)
(* hash_pool is a set of transactions and order_pool a function from the   *)
(* timestamps it holds to transactions.                                    *)
(*                                                                         *)
(* The operators on a pool value are used by the node model (Node.tla);    *)
(* the specification at the end drives one pool with the calls the rest   *)
(* of the code makes on the process-wide POOL.                             *)
(***************************************************************************)
EXTENDS Integers, Sequences, FiniteSets

CONSTANTS
    Txn,           \* the signed transactions (model values: content hashes)
    Stamp,         \* Stamp[t]: what the "timestamp" header of t parses to
    MaxBlockTxns   \* longest hash list a committed block hands to sync_pool

\* A timestamp header parses as a u128 exactly when Stamp[t] is a natural;
\* -1 stands for a missing or malformed header.
ASSUME StampAssumption == Stamp \in [Txn -> Nat \cup {-1}]
ASSUME MaxBlockTxnsAssumption == MaxBlockTxns \in Nat

VARIABLE pool

ParseOk(t) == Stamp[t] \in Nat

\* The values of a TransactionPool: both BTreeMaps.
IsPool(p) ==
    /\ p = [hash |-> p.hash, order |-> p.order]
    /\ p.hash \subseteq Txn
    /\ DOMAIN p.order \subseteq Nat
    /\ p.order \in [DOMAIN p.order -> Txn]

\* TransactionPool::new
EmptyPool == [hash |-> {}, order |-> [k \in {} |-> CHOOSE t \in Txn : TRUE]]

\* TransactionPool::get: Some(txn) iff the hash is a key of hash_pool.
Get(p, h) == h \in p.hash

\* TransactionPool::delete_txn_hash
DeleteTxnHash(p, h) == [p EXCEPT !.hash = @ \ {h}]

\* TransactionPool::delete_txn_order: BTreeMap::remove of the key.
DeleteTxnOrder(p, k) ==
    [p EXCEPT !.order = [j \in DOMAIN @ \ {k} |-> @[j]]]

\* TransactionPool::insert_op: BTreeMap::insert in both maps; an insert
\* under a timestamp that is already a key replaces the value stored there.
InsertOp(p, key, t) ==
    [hash  |-> p.hash \cup {t},
     order |-> [k \in DOMAIN p.order \cup {key} |->
                  IF k = key THEN t ELSE p.order[k]]]

\* A variant of sync_pool that forgets delete_txn_order.
SyncPoolKeepsOrder(p, hs) ==
    [p EXCEPT !.hash = @ \ ({hs[i] : i \in DOMAIN hs} \cap {h \in p.hash : ParseOk(h)})]

\* TransactionPool::sync_pool: for every hash of the list that get() finds
\* and whose timestamp parses, remove order_pool[timestamp] and then the
\* hash.  Each iteration removes a key of each map and no iteration makes
\* a later one find more, so the loop removes the keys of the eligible
\* hashes all at once.
SyncPool(p, hs) ==
    LET elig == {hs[i] : i \in DOMAIN hs} \cap {h \in p.hash : ParseOk(h)}
        keys == {Stamp[h] : h \in elig}
    IN  [hash  |-> p.hash \ elig,
         order |-> [k \in DOMAIN p.order \ keys |-> p.order[k]]]

\* order_pool after BTreeMap::insert(Stamp[hs[i]], hs[i]) for the indexes i
\* of E in increasing order: under each timestamp the insert of the last
\* such index (LastInsert) is the one that stays, and nothing else is
\* touched.
LastInsert(hs, E, k) ==
    CHOOSE i \in E : Stamp[hs[i]] = k /\ \A j \in E : Stamp[hs[j]] = k => j <= i

InsertInOrder(order, hs, E) ==
    LET keys == {Stamp[hs[i]] : i \in E}
    IN  [k \in DOMAIN order \cup keys |->
           IF k \in keys THEN hs[LastInsert(hs, E, k)] ELSE order[k]]

\* TransactionPool::sync_order_pool: for every hash of the list that get()
\* finds and whose timestamp parses, order_pool.insert(timestamp, txn), in
\* list order (a later hash with the same timestamp replaces an earlier
\* one).  hash_pool is not touched, so get() answers as before the loop,
\* and the loop is InsertInOrder over the indexes it accepts.
SyncOrderPool(p, hs) ==
    [p EXCEPT !.order =
        InsertInOrder(@, hs, {i \in DOMAIN hs : Get(p, hs[i]) /\ ParseOk(hs[i])})]

\* The transactions a proposer iterating order_pool can see.
OrderedTxns(p) == {p.order[k] : k \in DOMAIN p.order}

-----------------------------------------------------------------------------
(* The calls made on POOL.                                                 *)

\* The lists of hashes of the length a block carries.
HashLists == UNION {[1..n -> Txn] : n \in 0..MaxBlockTxns}

Init == pool = EmptyPool

\* A variant of the transaction arm that inserts without parsing the header.
ReceiveUnparsed(t) == pool' = InsertOp(pool, Stamp[t], t)

\* NodeMsgProcessor::start, SignedTransactionEnum arm: the header is parsed
\* and insert_op called under the pool mutex; a malformed header drops it.
Receive(t) ==
    /\ ParseOk(t)
    /\ pool' = InsertOp(pool, Stamp[t], t)

\* The applier thread, after update_block accepted a block: POOL.sync_pool
\* with the block's hash list.
Commit(hs) == pool' = SyncPool(pool, hs)

Next ==
    \/ \E t \in Txn : Receive(t)
    \/ \E hs \in HashLists : Commit(hs)

Spec == Init /\ [][Next]_pool

\* Pool::sync_order_pool, the revert of a block proposal that consensus
\* did not accept.  Nothing in the node calls it; RevertSpec adds it to the
\* calls above to ask what it can do to POOL.
Revert(hs) == pool' = SyncOrderPool(pool, hs)

RevertSpec == Init /\ [][Next \/ \E hs \in HashLists : Revert(hs)]_pool

-----------------------------------------------------------------------------
(* Properties.                                                             *)

(* POOL is always a pair of BTreeMaps: hash keys to transactions and       *)
(* u128 timestamps to transactions.                                         *)
TypeOK == IsPool(pool)

(* The two indexes hold the same transactions, each filed under its own    *)
(* timestamp: every transaction get() finds is one a proposer iterating     *)
(* order_pool will execute, and every one it executes is still pending.     *)
(* This is what insert_op and sync_pool must keep together (the spec's      *)
(* "both must be updated atomically" and "appears exactly once in both").   *)
IndexesAgree ==
    /\ OrderedTxns(pool) = pool.hash
    /\ \A k \in DOMAIN pool.order : Stamp[pool.order[k]] = k

=============================================================================
