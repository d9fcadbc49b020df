------------------------------ MODULE PeerSync ------------------------------
(***************************************************************************)
(* The peer registry and the peer requests a node makes to catch up       *)
(* (client/src/client.rs, p2plib/src/p2pbehaviour.rs).                     *)
(*                                                                         *)
(* GLOBALDATA.peers is filled and emptied by mdns Discovered and Expired   *)
(* events, handled by the swarm's event loop while other threads make      *)
(* requests.  Every request looks a peer up afresh: get_peer_url takes the *)
(* first registered peer, in the map's iteration order, whose address      *)
(* resolves to an IP; get_peer_url_using_pk takes the peer of a given key.  *)
(* Two clients are modelled step by step, one request per step:            *)
(* fetch_sync_state (blocks from a height on, then their transactions) and *)
(* sync_txn_pool (pending transactions of one peer into POOL).  The        *)
(* peers' servers are not in src; a peer answers from its own chain, and   *)
(* any request may fail on the network.                                    *)
(***************************************************************************)
EXTENDS Integers, Sequences, FiniteSets

CONSTANTS
    Peer,          \* peer ids (model values)
    Rank,          \* Rank[p]: position of p in the registry's iteration order
    Resolvable,    \* the peers whose multiaddr yields an IP address
    BlockVal,      \* blocks (their hashes)
    Chain,         \* Chain[p]: the blocks list peer p serves, block id i at i + 1
    BlockTxns,     \* BlockTxns[b]: the txn_pool hashes of block b
    Txn,           \* transactions (their content hashes)
    Stamp,         \* parsed timestamp header of each transaction (-1: malformed)
    PeerTxns,      \* PeerTxns[p]: the transactions peer/fetch_transaction serves
    HashLists,     \* the hash lists sync_txn_pool may be given
    MaxLen,        \* bound: longest chain a caller or a peer holds
    NetMayFail,    \* whether a request may fail on the network
    NoPeer, NoBlock  \* "no peer" and "no block" sentinels

ASSUME PeerAssumption ==
    /\ Rank \in [Peer -> Nat] /\ Resolvable \subseteq Peer
    /\ \A p, q \in Peer : Rank[p] = Rank[q] => p = q
    /\ NoPeer \notin Peer
    /\ PeerTxns \in [Peer -> SUBSET Txn]
\* Iterating a map always yields a first entry.
ASSUME IterationOrder ==
    \A S \in SUBSET Peer : S # {} => \E p \in S : \A q \in S : Rank[p] <= Rank[q]
ASSUME ChainAssumption ==
    /\ MaxLen \in Nat \ {0} /\ NetMayFail \in BOOLEAN
    /\ Chain \in [Peer -> Seq(BlockVal)]
    /\ \A p \in Peer : Len(Chain[p]) <= MaxLen
    /\ BlockTxns \in [BlockVal -> Seq(Txn)] /\ NoBlock \notin BlockVal
    /\ HashLists \subseteq Seq(Txn) /\ Stamp \in [Txn -> Nat \cup {-1}]

VARIABLES
    reg,     \* GLOBALDATA.peers: the registered peer ids
    spc,     \* where fetch_sync_state is: "idle" "len" "blocks" "txns" "done"
    cur,     \* its current_length argument
    own,     \* own_chain_length
    target,  \* blockchain_length, as the peer reported it
    bm,      \* block_pool: height -> block
    txm,     \* txn_map, as the set of fetched transactions
    todo,    \* heights of block_pool the transaction loop has not visited
    blk,     \* the height whose transactions are being fetched
    j,       \* index of the next hash of that block, 0 between blocks
    flag,    \* fetch_flag
    qpc,     \* where sync_txn_pool is: "idle" "run" "done"
    qurl,    \* the peer its url names, or NoPeer
    qhs,     \* its transaction_hash_vec
    qi,      \* index of the next hash of qhs
    qres,    \* what it returned
    pool     \* POOL

vars == <<reg, spc, cur, own, target, bm, txm, todo, blk, j, flag,
          qpc, qurl, qhs, qi, qres, pool>>

TP == INSTANCE TxPool WITH MaxBlockTxns <- 0

Confirmed(p) == UNION {{BlockTxns[Chain[p][i]][k] : k \in DOMAIN BlockTxns[Chain[p][i]]} :
                       i \in DOMAIN Chain[p]}

-----------------------------------------------------------------------------
(* Lookups in the registry and the requests.  A request's outcome is a     *)
(* record [tag, val] with tag "err" (reqwest error), "none" (Ok(None) or   *)
(* Ok(0)) or "some".                                                       *)

\* get_peer_url: the first registered peer with a resolvable address.
GetPeerUrl(r) ==
    IF r \cap Resolvable = {} THEN NoPeer
    ELSE CHOOSE p \in r \cap Resolvable :
             \A q \in r \cap Resolvable : Rank[p] <= Rank[q]

\* get_peer_url_using_pk: the registered peer of the key, if it resolves.
GetPeerUrlUsingPk(r, p) == IF p \in r \cap Resolvable THEN p ELSE NoPeer

Fail(v) == IF NetMayFail THEN {[tag |-> "err", val |-> v]} ELSE {}

\* fetch_blockchain_length: Ok(0) without a peer.
FetchBlockchainLength(r) ==
    LET p == GetPeerUrl(r)
    IN  IF p = NoPeer THEN {[tag |-> "none", val |-> 0]}
        ELSE {[tag |-> "some", val |-> Len(Chain[p])]} \cup Fail(0)

\* fetch_block: Ok(None) without a peer or when the peer has no such block.
FetchBlock(r, h) ==
    LET p == GetPeerUrl(r)
    IN  IF p = NoPeer THEN {[tag |-> "none", val |-> NoBlock]}
        ELSE IF h < Len(Chain[p]) THEN {[tag |-> "some", val |-> Chain[p][h + 1]]} \cup Fail(NoBlock)
        ELSE {[tag |-> "none", val |-> NoBlock]} \cup Fail(NoBlock)

\* fetch_confirm_transaction: the transaction, if the peer has confirmed it.
FetchConfirmTransaction(r, t) ==
    LET p == GetPeerUrl(r)
    IN  IF p = NoPeer THEN {"none"}
        ELSE (IF t \in Confirmed(p) THEN {"some"} ELSE {"none"})
             \cup (IF NetMayFail THEN {"err"} ELSE {})

\* fetch_transaction on a given url: a network error is mapped to Ok(None).
FetchTransaction(p, t) ==
    (IF t \in PeerTxns[p] THEN {"some"} ELSE {"none"})
    \cup (IF NetMayFail THEN {"none"} ELSE {})

-----------------------------------------------------------------------------
Init ==
    /\ reg = {}
    /\ spc = "idle" /\ cur = 0 /\ own = 0 /\ target = 0
    /\ bm = [h \in {} |-> NoBlock] /\ txm = {} /\ todo = {}
    /\ blk = 0 /\ j = 0 /\ flag = TRUE
    /\ qpc = "idle" /\ qurl = NoPeer /\ qhs = <<>> /\ qi = 0 /\ qres = FALSE
    /\ pool = TP!EmptyPool

SyncVars == <<spc, cur, own, target, bm, txm, todo, blk, j, flag>>
PoolVars == <<qpc, qurl, qhs, qi, qres, pool>>

(* The registry: mdns events on the swarm's event loop. *)

\* MdnsEvent::Discovered: insert the peer (re-discovering a registered
\* peer only refreshes its timestamp).
Discovered(p) ==
    /\ p \notin reg
    /\ reg' = reg \cup {p}
    /\ UNCHANGED <<SyncVars, PoolVars>>

\* MdnsEvent::Expired: remove the peer.
Expired(p) ==
    /\ p \in reg
    /\ reg' = reg \ {p}
    /\ UNCHANGED <<SyncVars, PoolVars>>

(* fetch_sync_state(current_length), one request per step. *)

SyncStart(c) ==
    /\ spc \in {"idle", "done"}
    /\ spc' = "len" /\ cur' = c /\ own' = c /\ target' = 0
    /\ bm' = [h \in {} |-> NoBlock] /\ txm' = {} /\ todo' = {}
    /\ blk' = 0 /\ j' = 0 /\ flag' = TRUE
    /\ UNCHANGED <<reg, PoolVars>>

\* The peer's length; an error or a zero length returns SyncState::new().
FetchLength ==
    /\ spc = "len"
    /\ \E o \in FetchBlockchainLength(reg) :
         \/ /\ o.tag = "some" /\ o.val # 0
            /\ spc' = "blocks" /\ target' = o.val
         \/ /\ o.tag # "some" \/ o.val = 0
            /\ spc' = "done" /\ UNCHANGED target
    /\ UNCHANGED <<reg, cur, own, bm, txm, todo, blk, j, flag, PoolVars>>

\* Mutant: a missing block is skipped instead of ending the loop.
FetchBlockStepSkipsGap ==
    /\ spc = "blocks" /\ own < target
    /\ \E o \in FetchBlock(reg, own) :
         \/ /\ o.tag = "some"
            /\ bm' = [h \in DOMAIN bm \cup {own} |-> IF h = own THEN o.val ELSE bm[h]]
            /\ own' = own + 1
         \/ /\ o.tag # "some"
            /\ own' = own + 1 /\ UNCHANGED bm
    /\ UNCHANGED <<reg, spc, cur, target, txm, todo, blk, j, flag, PoolVars>>

\* Mutant: a missing block is asked for again.
FetchBlockStepRetries ==
    /\ spc = "blocks" /\ own < target
    /\ \E o \in FetchBlock(reg, own) :
         \/ /\ o.tag = "some"
            /\ bm' = [h \in DOMAIN bm \cup {own} |-> IF h = own THEN o.val ELSE bm[h]]
            /\ own' = own + 1
         \/ /\ o.tag # "some"
            /\ UNCHANGED <<own, bm>>
    /\ UNCHANGED <<reg, spc, cur, target, txm, todo, blk, j, flag, PoolVars>>

\* One turn of the block loop: a block is stored under own_chain_length;
\* a missing block or an error sets own_chain_length to blockchain_length.
FetchBlockStep ==
    /\ spc = "blocks" /\ own < target
    /\ \E o \in FetchBlock(reg, own) :
         \/ /\ o.tag = "some"
            /\ bm' = [h \in DOMAIN bm \cup {own} |-> IF h = own THEN o.val ELSE bm[h]]
            /\ own' = own + 1
         \/ /\ o.tag # "some"
            /\ own' = target /\ UNCHANGED bm
    /\ UNCHANGED <<reg, spc, cur, target, txm, todo, blk, j, flag, PoolVars>>

BlocksDone ==
    /\ spc = "blocks" /\ own >= target
    /\ spc' = "txns" /\ todo' = DOMAIN bm /\ j' = 0 /\ flag' = TRUE
    /\ UNCHANGED <<reg, cur, own, target, bm, txm, blk, PoolVars>>

\* The transaction loop takes the blocks of block_pool in its iteration
\* order, which the model leaves open.
TxnBlockStart ==
    /\ spc = "txns" /\ j = 0
    /\ \/ /\ todo = {}
          /\ spc' = "done" /\ UNCHANGED <<todo, blk, j>>
       \/ \E h \in todo :
          /\ blk' = h /\ j' = 1 /\ todo' = todo \ {h}
          /\ UNCHANGED spc
    /\ UNCHANGED <<reg, cur, own, target, bm, txm, flag, PoolVars>>

\* One hash of the block: Ok(None) clears fetch_flag and goes on with the
\* block; an error clears it and breaks out; after the block, a cleared
\* flag breaks out of the outer loop, which runs once anyway.
TxnStep ==
    /\ spc = "txns" /\ j > 0
    /\ LET hs == BlockTxns[bm[blk]]
       IN  \/ /\ j > Len(hs)
              /\ IF flag THEN j' = 0 /\ UNCHANGED spc
                         ELSE spc' = "done" /\ UNCHANGED j
              /\ UNCHANGED <<txm, flag>>
           \/ /\ j <= Len(hs)
              /\ \E o \in FetchConfirmTransaction(reg, hs[j]) :
                   \/ o = "some" /\ txm' = txm \cup {hs[j]} /\ j' = j + 1
                      /\ UNCHANGED <<spc, flag>>
                   \/ o = "none" /\ flag' = FALSE /\ j' = j + 1
                      /\ UNCHANGED <<spc, txm>>
                   \/ o = "err" /\ flag' = FALSE /\ spc' = "done"
                      /\ UNCHANGED <<txm, j>>
    /\ UNCHANGED <<reg, cur, own, target, bm, todo, blk, PoolVars>>

(* sync_txn_pool(pk, hashes), one request per step. *)

\* The peer of the key k is looked up once (NoPeer stands for a key that
\* does not parse); without it the call returns true.
TxnPoolStart(k, hs) ==
    /\ qpc \in {"idle", "done"}
    /\ LET p == GetPeerUrlUsingPk(reg, k)
       IN  /\ qurl' = p /\ qhs' = hs /\ qi' = 1
           /\ \/ p = NoPeer /\ qpc' = "done" /\ qres' = TRUE
              \/ p # NoPeer /\ qpc' = "run" /\ UNCHANGED qres
    /\ UNCHANGED <<reg, SyncVars, pool>>

\* Mutant: a hash that cannot be fetched is skipped, as the transaction
\* loop of fetch_sync_state does.
TxnPoolStepSkipsMissing ==
    /\ qpc = "run" /\ qi <= Len(qhs)
    /\ LET t == qhs[qi]
       IN  \/ /\ TP!Get(pool, t)
              /\ qi' = qi + 1 /\ UNCHANGED <<qpc, qres, pool>>
           \/ /\ ~TP!Get(pool, t)
              /\ \E o \in FetchTransaction(qurl, t) :
                   \/ /\ o = "some" /\ TP!ParseOk(t)
                      /\ pool' = TP!InsertOp(pool, Stamp[t], t)
                      /\ qi' = qi + 1 /\ UNCHANGED <<qpc, qres>>
                   \/ /\ o = "none" \/ ~TP!ParseOk(t)
                      /\ qi' = qi + 1 /\ UNCHANGED <<qpc, qres, pool>>
    /\ UNCHANGED <<reg, SyncVars, qurl, qhs>>

\* Mutant: the timestamp header is not checked before insert_op.
TxnPoolStepUnparsed ==
    /\ qpc = "run" /\ qi <= Len(qhs)
    /\ LET t == qhs[qi]
       IN  \/ /\ TP!Get(pool, t)
              /\ qi' = qi + 1 /\ UNCHANGED <<qpc, qres, pool>>
           \/ /\ ~TP!Get(pool, t)
              /\ \E o \in FetchTransaction(qurl, t) :
                   \/ /\ o = "some"
                      /\ pool' = TP!InsertOp(pool, Stamp[t], t)
                      /\ qi' = qi + 1 /\ UNCHANGED <<qpc, qres>>
                   \/ /\ o = "none"
                      /\ qpc' = "done" /\ qres' = FALSE
                      /\ UNCHANGED <<qi, pool>>
    /\ UNCHANGED <<reg, SyncVars, qurl, qhs>>

\* One hash: skipped when POOL has it; else fetched and inserted, and any
\* failure (no transaction, no or malformed timestamp) returns false.
TxnPoolStep ==
    /\ qpc = "run" /\ qi <= Len(qhs)
    /\ LET t == qhs[qi]
       IN  \/ /\ TP!Get(pool, t)
              /\ qi' = qi + 1 /\ UNCHANGED <<qpc, qres, pool>>
           \/ /\ ~TP!Get(pool, t)
              /\ \E o \in FetchTransaction(qurl, t) :
                   \/ /\ o = "some" /\ TP!ParseOk(t)
                      /\ pool' = TP!InsertOp(pool, Stamp[t], t)
                      /\ qi' = qi + 1 /\ UNCHANGED <<qpc, qres>>
                   \/ /\ o = "none" \/ ~TP!ParseOk(t)
                      /\ qpc' = "done" /\ qres' = FALSE
                      /\ UNCHANGED <<qi, pool>>
    /\ UNCHANGED <<reg, SyncVars, qurl, qhs>>

TxnPoolEnd ==
    /\ qpc = "run" /\ qi > Len(qhs)
    /\ qpc' = "done" /\ qres' = TRUE
    /\ UNCHANGED <<reg, SyncVars, qurl, qhs, qi, pool>>

Fetcher == FetchLength \/ FetchBlockStep \/ BlocksDone \/ TxnBlockStart \/ TxnStep

Next ==
    \/ \E p \in Peer : Discovered(p) \/ Expired(p)
    \/ \E c \in 1..MaxLen : SyncStart(c)
    \/ Fetcher
    \/ \E k \in Peer \cup {NoPeer}, hs \in HashLists : TxnPoolStart(k, hs)
    \/ TxnPoolStep \/ TxnPoolEnd

Spec == Init /\ [][Next]_vars

\* The caller's thread runs a started fetch_sync_state to its end.
FairSpec == Spec /\ WF_vars(Fetcher)

-----------------------------------------------------------------------------
(* Properties.                                                             *)

(* Every client variable holds a value of its Rust type's model. *)
TypeOK ==
    /\ reg \subseteq Peer
    /\ spc \in {"idle", "len", "blocks", "txns", "done"}
    /\ cur \in 0..MaxLen /\ own \in Nat /\ target \in Nat
    /\ DOMAIN bm \subseteq Nat /\ bm \in [DOMAIN bm -> BlockVal]
    /\ txm \subseteq Txn /\ todo \subseteq DOMAIN bm
    /\ blk \in Nat /\ j \in Nat /\ flag \in BOOLEAN
    /\ qpc \in {"idle", "run", "done"} /\ qurl \in Peer \cup {NoPeer}
    /\ qhs \in HashLists \cup {<<>>}
    /\ qi \in Nat /\ qres \in BOOLEAN
    /\ TP!IsPool(pool)

(* The block_pool that fetch_sync_state builds holds consecutive heights   *)
(* from current_length on (the spec's monotone fetch rule: no block after  *)
(* a gap), and is a segment of one peer's blocks list, so the applier can   *)
(* append it block after block.  Each block is asked of whatever peer the  *)
(* registry yields first at that moment, and mdns may change the registry  *)
(* between two requests.                                                    *)
SyncSegment ==
    /\ \E e \in cur..(cur + MaxLen) : DOMAIN bm = cur..(e - 1)
    /\ \/ DOMAIN bm = {}
       \/ \E p \in Peer : \A h \in DOMAIN bm : h < Len(Chain[p]) /\ bm[h] = Chain[p][h + 1]

(* A started fetch_sync_state returns, however the registry changes and    *)
(* whatever the requests answer: the block loop's sentinel assignment and  *)
(* the single pass of the transaction loop bound it.                        *)
FetchTerminates == spc = "len" ~> spc = "done"

(* When sync_txn_pool returns true after finding the peer, every hash of   *)
(* its list is in POOL: each failure along the way returns false.          *)
SyncedWhenPeerFound ==
    (qpc = "done" /\ qres /\ qurl # NoPeer) =>
        \A i \in DOMAIN qhs : TP!Get(pool, qhs[i])

\* fetch_sync_state seen by its caller: busy from SyncStart until it
\* returns, and the block_pool and txn_map of the SyncState it returned.
SC == INSTANCE SyncCall WITH
        phase <- IF spc \in {"idle", "done"} THEN spc ELSE "busy",
        from <- cur,
        blocks <- IF spc = "done" THEN bm ELSE [h \in {} |-> NoBlock],
        txns <- IF spc = "done" THEN txm ELSE {},
        PeerConfirmed <- [p \in Peer |-> Confirmed(p)]

(* fetch_sync_state implements its contract (SyncCall): however mdns      *)
(* changes the registry between its requests and whichever requests fail, *)
(* a call behaves as one step that returns blocks of one peer at the      *)
(* heights from current_length on, and confirmed transactions of those    *)
(* blocks only.                                                            *)
SyncCallRefined == SC!Spec

=============================================================================
