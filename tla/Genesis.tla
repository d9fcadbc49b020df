------------------------------- MODULE Genesis -------------------------------
(***************************************************************************)
(* The genesis path of the block engine (db_service/src/db_fork_ref.rs):  *)
(* SchemaFork::initialize_db on a proposer P, and the id = 0 branch of    *)
(* update_block on a node N whose database is still empty.                 *)
(*                                                                         *)
(* initialize_db clears the tries and, for each public key in order,      *)
(* makes a genesis transaction paying GenesisAmount to it, executes it    *)
(* with execute_genesis_transactions, puts it in the transactions trie    *)
(* and appends its hash to the block.  The block's header names the       *)
(* resulting tries.  N receives the genesis transactions into its POOL    *)
(* and the block by gossip, in any order and any number of times.  When   *)
(* the block fails on N, the applier runs sync_state on the same fork and *)
(* patch_db merges what the fork then holds (nodemsgprocessor.rs:95-124).  *)
(*                                                                         *)
(* The i-th genesis transaction is the record [n |-> i, to |-> key]: the   *)
(* transactions generate() makes are distinct, and a hash is the value    *)
(* itself.  A state trie is a function from the addresses it holds to     *)
(* balances; an absent address and a zero balance are different tries.   *)
(***************************************************************************)
EXTENDS Integers, Sequences, FiniteSets, Functions

CONSTANTS
    Account,        \* wallet addresses
    KeyLists,       \* the public_keys vectors initialize_db may be given
    GenesisAmount,  \* the amount of each genesis transaction (100000000)
    FetchMayFail    \* whether a peer request of sync_state may fail

ASSUME GenesisAssumption ==
    /\ KeyLists \subseteq Seq(Account) /\ GenesisAmount \in Nat \ {0}
    /\ FetchMayFail \in BOOLEAN

VARIABLES
    pchain,   \* P's blocks list
    pdb,      \* P's tries: [state, ttrie]
    pkeys,    \* the keys P's initialize_db was called with
    netTxns,  \* genesis transactions published on the gossip topic
    netBlocks,\* blocks published on the gossip topic
    nchain,   \* N's blocks list
    ndb,      \* N's tries
    npool,    \* the transactions in N's POOL
    nres,     \* the outcome of N's last update_block on a genesis block
    nsync     \* the applier's sync_state in progress on its fork, or NoSync

vars == <<pchain, pdb, pkeys, netTxns, netBlocks, nchain, ndb, npool, nres, nsync>>

EmptyDb == [state |-> [a \in {} |-> 0], ttrie |-> {}]

NoSync == [busy |-> FALSE, chain |-> <<>>, db |-> EmptyDb, todo |-> <<>>, txns |-> {}]

\* A variant of execute_genesis_transactions that credits the amount to
\* the address's wallet, as spec 4.4.1 describes, instead of putting a
\* fresh one.
ExecuteGenesisAccumulates(st, ts) ==
    LET to == {t.to : t \in ts}
    IN  [a \in DOMAIN st \cup to |->
           (IF a \in DOMAIN st THEN st[a] ELSE 0)
             + GenesisAmount * Cardinality({t \in ts : t.to = a})]

(* SchemaFork::execute_genesis_transactions on each transaction of ts:    *)
(* add_balance on State::new(), then state_trie.put under the to address. *)
(* Each put replaces the address's wallet by the same fresh one, so the    *)
(* loop's result does not depend on the order of ts.                      *)
ExecuteGenesis(st, ts) ==
    LET to == {t.to : t \in ts}
    IN  [a \in DOMAIN st \cup to |-> IF a \in to THEN GenesisAmount ELSE st[a]]

\* The loop body shared by initialize_db and update_block's genesis branch,
\* run on every transaction of ts: execute, and put in the transactions trie.
GenesisRun(db, ts) ==
    [state |-> ExecuteGenesis(db.state, ts), ttrie |-> db.ttrie \cup ts]

\* The genesis transactions of initialize_db(kp, keys).
GenesisTxns(keys) == [i \in DOMAIN keys |-> [n |-> i, to |-> keys[i]]]

\* SchemaFork::initialize_db: after the clears, one transaction per key is
\* executed on the state trie and put in the transactions trie.
InitializeDb(keys) == GenesisRun(EmptyDb, Range(GenesisTxns(keys)))

\* The transactions of s that the genesis branch's loop handles before it
\* meets the first one POOL does not hold.
Written(s, pool) == {s[j] : j \in {i \in DOMAIN s : \A k \in 1..i : s[k] \in pool}}

\* The id = 0 branch of SchemaFork::update_block on db with POOL holding
\* pool: each hash must be in the pool, then it is put in the transactions
\* trie and executed; a missing one returns false with the writes before
\* it left in the fork.  After the loop the state and transactions roots
\* are checked against header[0] and header[2] (the storage trie is never
\* written and always matches).
UpdateGenesis(db, b, pool) ==
    IF ~(Range(b.txns) \subseteq pool)
    THEN [res |-> "missing", db |-> GenesisRun(db, Written(b.txns, pool))]
    ELSE LET d == GenesisRun(db, Range(b.txns))
         IN  IF d.state # b.hdr.state \/ d.ttrie # b.hdr.ttrie
             THEN [res |-> "header", db |-> d]
             ELSE [res |-> "ok", db |-> d]

\* fetch_sync_state(0) asks P's node for its blocks from height 0 on and
\* the transactions they name; a failed request ends either loop early.
FetchedBlocks ==
    {SubSeq(pchain, 1, m) : m \in IF FetchMayFail THEN 0..Len(pchain) ELSE {Len(pchain)}}

FetchedTxns(bs) ==
    LET all == UNION {Range(bs[i].txns) : i \in DOMAIN bs}
    IN  IF FetchMayFail THEN SUBSET all ELSE {all}

Init ==
    /\ pchain = <<>> /\ pdb = EmptyDb /\ pkeys = <<>>
    /\ netTxns = {} /\ netBlocks = {}
    /\ nchain = <<>> /\ ndb = EmptyDb /\ npool = {} /\ nres = "none"
    /\ nsync = NoSync

\* P starts: initialize_db with its configured keys, merged, and the
\* genesis block and transactions published.
Initialize(keys) ==
    /\ pchain = <<>>
    /\ LET d == InitializeDb(keys)
           b == [id |-> 0, txns |-> GenesisTxns(keys), hdr |-> d]
       IN  /\ pdb' = d /\ pchain' = <<b>> /\ pkeys' = keys
           /\ netBlocks' = {b} /\ netTxns' = Range(b.txns)
    /\ UNCHANGED <<nchain, ndb, npool, nres, nsync>>

\* N's message loop puts a gossiped transaction into POOL.
DeliverTxn(t) ==
    /\ t \in netTxns
    /\ npool' = npool \cup {t}
    /\ UNCHANGED <<pchain, pdb, pkeys, netTxns, netBlocks, nchain, ndb, nres, nsync>>

\* A variant of the applier's step that leaves out update_block's height
\* check.
ApplyGenesisNoHeightCheck(b) ==
    /\ ~nsync.busy
    /\ b \in netBlocks
    /\ LET r == UpdateGenesis(ndb, b, npool)
       IN  /\ nres' = r.res
           /\ IF r.res = "ok"
              THEN /\ ndb' = r.db /\ nchain' = Append(nchain, b)
                   /\ npool' = npool \ Range(b.txns)
                   /\ UNCHANGED nsync
              ELSE /\ \E bs \in FetchedBlocks : \E tx \in FetchedTxns(bs) :
                        nsync' = [busy |-> TRUE, chain |-> nchain, db |-> r.db,
                                  todo |-> bs, txns |-> tx]
                   /\ UNCHANGED <<ndb, nchain, npool>>
    /\ UNCHANGED <<pchain, pdb, pkeys, netTxns, netBlocks>>

\* N's applier runs update_block on a gossiped block on a fork of N's
\* database: the height check, then the genesis branch.  On success
\* POOL.sync_pool, patch_db and the pop.  On failure the stale test
\* blockchain_length() > id is 0 > 0, false, so flag is set and sync_state
\* starts on the same fork, which keeps what the failed call wrote.  A
\* block whose id is not N's height is popped and nothing changes.
ApplyGenesis(b) ==
    /\ ~nsync.busy
    /\ b \in netBlocks
    /\ b.id = Len(nchain)
    /\ LET r == UpdateGenesis(ndb, b, npool)
       IN  /\ nres' = r.res
           /\ IF r.res = "ok"
              THEN /\ ndb' = r.db /\ nchain' = Append(nchain, b)
                   /\ npool' = npool \ Range(b.txns)
                   /\ UNCHANGED nsync
              ELSE /\ \E bs \in FetchedBlocks : \E tx \in FetchedTxns(bs) :
                        nsync' = [busy |-> TRUE, chain |-> nchain, db |-> r.db,
                                  todo |-> bs, txns |-> tx]
                   /\ UNCHANGED <<ndb, nchain, npool>>
    /\ UNCHANGED <<pchain, pdb, pkeys, netTxns, netBlocks>>

\* sync_state applies the fetched genesis block to the fork: POOL is
\* pre-populated with the fetched transactions of the block, then
\* update_block (its height check passes: the fork's chain is still empty)
\* and sync_pool on success; a failure ends the sync.
SyncGenesis ==
    /\ nsync.busy /\ nsync.todo # <<>>
    /\ LET b  == Head(nsync.todo)
           pl == npool \cup (Range(b.txns) \cap nsync.txns)
           r  == UpdateGenesis(nsync.db, b, pl)
       IN  /\ nres' = r.res
           /\ npool' = IF r.res = "ok" THEN pl \ Range(b.txns) ELSE pl
           /\ nsync' = [nsync EXCEPT !.db = r.db,
                                    !.chain = IF r.res = "ok" THEN Append(@, b) ELSE @,
                                    !.todo = IF r.res = "ok" THEN Tail(@) ELSE <<>>]
    /\ UNCHANGED <<pchain, pdb, pkeys, netTxns, netBlocks, nchain, ndb>>

\* flag was set: patch_db merges the fork, whatever the sync left in it,
\* and the block is popped.
SyncGenesisDone ==
    /\ nsync.busy /\ nsync.todo = <<>>
    /\ ndb' = nsync.db /\ nchain' = nsync.chain
    /\ nsync' = NoSync
    /\ UNCHANGED <<pchain, pdb, pkeys, netTxns, netBlocks, npool, nres>>

Next ==
    \/ \E keys \in KeyLists : Initialize(keys)
    \/ \E t \in netTxns : DeliverTxn(t)
    \/ \E b \in netBlocks : ApplyGenesis(b)
    \/ SyncGenesis
    \/ SyncGenesisDone

Spec == Init /\ [][Next]_vars

-----------------------------------------------------------------------------
(* Properties.                                                             *)

(* Every variable has its type, and neither chain holds more than the     *)
(* genesis block.                                                          *)
TypeOK ==
    /\ pkeys \in KeyLists \cup {<<>>}
    /\ Len(pchain) <= 1 /\ Len(nchain) <= 1
    /\ nsync.busy \in BOOLEAN /\ Len(nsync.chain) <= 1
    /\ \A d \in {pdb, ndb, nsync.db} :
         /\ DOMAIN d.state \subseteq Account
         /\ d.state \in [DOMAIN d.state -> Nat]
    /\ npool \subseteq netTxns
    /\ nres \in {"none", "ok", "missing", "header"}

(* Genesis is deterministic (spec 7, "Determinism"): a node that replays   *)
(* P's genesis block never fails its header check, whichever of the        *)
(* block's transactions it holds, also when sync_state replays the block   *)
(* on a fork that an earlier failed update_block already wrote to, or N's  *)
(* database holds what a failed sync merged.  It either accepts the block  *)
(* or stops at a transaction it has not received.  This needs              *)
(* initialize_db and update_block to execute alike, and a replay over a    *)
(* partial write to land on the same tries.                                *)
ReplayNeverMismatches == nres # "header"

(* Spec 4.4.1: each genesis transaction credits its amount to its address, *)
(* so after initialize_db an address holds GenesisAmount for each time it  *)
(* appears among the keys.                                                 *)
GenesisCreditsEachKey ==
    pchain # <<>> =>
        \A a \in Range(pkeys) :
            pdb.state[a] = GenesisAmount * Cardinality({i \in DOMAIN pkeys : pkeys[i] = a})
=============================================================================
