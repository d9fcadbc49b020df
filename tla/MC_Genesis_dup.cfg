\* initialize_db with a key list that names a1 twice.
CONSTANTS
    a1 = a1  a2 = a2
    Account <- MC_Account
    KeyLists <- MC_KeyLists
    GenesisAmount = 1
    FetchMayFail = TRUE
SPECIFICATION Spec
INVARIANT GenesisCreditsEachKey
CHECK_DEADLOCK FALSE
