CONSTANTS
    t1 = t1
    t2 = t2
    t3 = t3
    t4 = t4
    t5 = t5
    t6 = t6
    t7 = t7
    t8 = t8
    Txn <- MC_Txn3
    Stamp <- MC_SharedStamp
    MaxBlockTxns = 2
SPECIFICATION Spec
INVARIANT IndexesAgree
