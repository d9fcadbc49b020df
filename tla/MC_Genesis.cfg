\* P initialises with any of the key lists; N receives the genesis
\* transactions and block in any order, and a failed update is followed by
\* a sync whose requests may fail.  Once N has merged, nothing more
\* happens, so a final state has no successor.
CONSTANTS
    a1 = a1  a2 = a2
    Account <- MC_Account
    KeyLists <- MC_KeyLists
    GenesisAmount = 1
    FetchMayFail = TRUE
SPECIFICATION Spec
INVARIANTS TypeOK ReplayNeverMismatches
CHECK_DEADLOCK FALSE
