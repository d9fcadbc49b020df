---------------------------- MODULE MC_PeerSync ----------------------------
(* Two peers and four blocks.  b1 is the genesis block every chain starts  *)
(* with; b2 confirms t1, b3 confirms t2 and t3, b4 is a rival of b2 that    *)
(* confirms t2.  t3's timestamp header does not parse.  Every peer        *)
(* resolves to an IP.  sync_txn_pool is given a list it can complete from *)
(* p2 and one that stops at t3.                                            *)
EXTENDS PeerSync

CONSTANTS p1, p2, b1, b2, b3, b4, t1, t2, t3

MC_Peer == {p1, p2}
MC_Rank == [p \in MC_Peer |-> IF p = p1 THEN 0 ELSE 1]
MC_Block == {b1, b2, b3, b4}
MC_BlockTxns == [b \in MC_Block |->
                   CASE b = b1 -> <<>> [] b = b2 -> <<t1>>
                     [] b = b3 -> <<t2, t3>> [] b = b4 -> <<t2>>]
MC_Txn == {t1, t2, t3}
MC_Stamp == [t \in MC_Txn |-> IF t = t1 THEN 0 ELSE IF t = t2 THEN 1 ELSE -1]
MC_PeerTxns == [p \in MC_Peer |-> IF p = p1 THEN {t1} ELSE {t1, t2, t3}]
MC_HashLists == {<<t1, t2>>, <<t2, t3>>}

\* p1 serves a prefix of p2's chain: the peers agree.
MC_Chain_Agree == [p \in MC_Peer |-> IF p = p1 THEN <<b1, b2>> ELSE <<b1, b2, b3>>]

\* p1 and p2 hold rival blocks at height 1.
MC_Chain_Fork == [p \in MC_Peer |-> IF p = p1 THEN <<b1, b4>> ELSE <<b1, b2, b3>>]
=============================================================================
