CONSTANTS
    t1 = t1
    t2 = t2
    t3 = t3
    a1 = a1
    a2 = a2
    Txn <- MC_Txn
    Account <- MC_Account
    Stamp <- MC_Stamp
    From <- MC_From
    To <- MC_To
    Amount <- MC_Amount
    Fund <- MC_Fund
    Valid <- MC_Txn
    MaxStamp = 2
    BlockCap = 1
    MaxHeight = 3
    MaxPending = 2
    MergeMayFail = TRUE
    FetchMayFail = TRUE
SPECIFICATION Spec
INVARIANTS TypeOK CommittedMatchesProposer
