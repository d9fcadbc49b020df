\* Every call sequence on two Cons, with I/O errors possible.  A panic ends
\* the process, so a state after one has no successor.
CONSTANTS
    h1 = h1  h2 = h2  o1 = o1  o2 = o2  k1 = k1  k2 = k2  k3 = k3
    Missing = Missing
    Handle <- MC_Handle
    Obj <- MC_Obj
    Key <- MC_Key
    ObjHash <- MC_ObjHash
    CborUnit <- MC_CborUnit
    IoMayFail = TRUE
SPECIFICATION Spec
INVARIANT TypeOK
CHECK_DEADLOCK FALSE
