CONSTANTS
    p1 = p1
    p2 = p2
    b1 = b1
    b2 = b2
    b3 = b3
    b4 = b4
    t1 = t1
    t2 = t2
    t3 = t3
    NoPeer = NoPeer
    NoBlock = NoBlock
    Peer <- MC_Peer
    Rank <- MC_Rank
    Resolvable <- MC_Peer
    BlockVal <- MC_Block
    Chain <- MC_Chain_Agree
    BlockTxns <- MC_BlockTxns
    Txn <- MC_Txn
    Stamp <- MC_Stamp
    PeerTxns <- MC_PeerTxns
    HashLists <- MC_HashLists
    MaxLen = 3
    NetMayFail = TRUE
SPECIFICATION FairSpec
INVARIANTS TypeOK SyncSegment SyncedWhenPeerFound
PROPERTIES FetchTerminates SyncCallRefined
