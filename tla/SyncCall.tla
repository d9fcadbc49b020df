------------------------------ MODULE SyncCall ------------------------------
(***************************************************************************)
(* What one call of fetch_sync_state(current_length) promises its caller  *)
(* (client/src/client.rs, spec 4.5), with the whole call as one step: the  *)
(* SyncState it returns holds, in block_pool, the blocks of one peer's    *)
(* list at consecutive heights from current_length on (possibly none),     *)
(* and, in txn_map, transactions of those blocks that some peer confirmed. *)
(* A caller starts a call only when no call is running.                   *)
(*                                                                         *)
(* PeerSync.tla refines this specification with one request per step.     *)
(***************************************************************************)
EXTENDS Integers, Sequences

CONSTANTS
    Peer,           \* peer ids
    Chain,          \* Chain[p]: the blocks list peer p serves
    BlockTxns,      \* BlockTxns[b]: the txn_pool hashes of block b
    PeerConfirmed,  \* PeerConfirmed[p]: the transactions p confirms
    MaxLen,         \* the longest chain a caller holds
    NoBlock         \* the value of no block

VARIABLES
    phase,   \* "idle" before the first call, "busy" during one, "done" after
    from,    \* the current_length of the last call
    blocks,  \* the block_pool the last call returned
    txns     \* the hashes of the txn_map it returned

vars == <<phase, from, blocks, txns>>

NoBlocks == [h \in {} |-> NoBlock]

\* The block_pools a call from height c may return: none, or the blocks of
\* heights c .. e - 1 of one peer's list.
Segments(c) ==
    {NoBlocks} \cup
    UNION {{[h \in c..(e - 1) |-> Chain[p][h + 1]] : e \in c..Len(Chain[p])} : p \in Peer}

\* The transactions the blocks of a block_pool list.
TxnsOf(bs) ==
    UNION {{BlockTxns[bs[h]][k] : k \in DOMAIN BlockTxns[bs[h]]} : h \in DOMAIN bs}

Init ==
    /\ phase = "idle" /\ from = 0
    /\ blocks = NoBlocks /\ txns = {}

\* The caller calls fetch_sync_state(c).
Call(c) ==
    /\ phase \in {"idle", "done"}
    /\ phase' = "busy" /\ from' = c
    /\ blocks' = NoBlocks /\ txns' = {}

\* The call returns its SyncState.
Return ==
    /\ phase = "busy" /\ phase' = "done"
    /\ blocks' \in Segments(from)
    /\ txns' \subseteq TxnsOf(blocks') \cap UNION {PeerConfirmed[p] : p \in Peer}
    /\ UNCHANGED from

Next == (\E c \in 1..MaxLen : Call(c)) \/ Return

Spec == Init /\ [][Next]_vars
=============================================================================
