CONSTANTS
    t1 = t1
    t2 = t2
    t3 = t3
    t4 = t4
    t5 = t5
    t6 = t6
    t7 = t7
    t8 = t8
    Txn <- MC_Txn8
    Stamp <- MC_DistinctStamp
    MaxBlockTxns = 2
SPECIFICATION RevertSpec
INVARIANTS TypeOK IndexesAgree
