--------------------------- MODULE LegacyDb_proofs ---------------------------
(***************************************************************************)
(* Proofs about the legacy RocksDB wrapper (LegacyDb.tla).                 *)
(***************************************************************************)
EXTENDS LegacyDb, TLAPS

\* The part of TypeOK without Boolean-valued fields, which SMT handles.
TypeData ==
    /\ con \in [Handle -> {"none", "nil", "db", "gone"}]
    /\ store \in [Key -> Obj \cup {Missing}]
    /\ ret \in Ret

\* The Boolean-valued fields, which Zenon handles.
TypeFlags ==
    /\ connected \in [Handle -> BOOLEAN]
    /\ panicked \in BOOLEAN

LEMMA TypeSplit == TypeOK <=> TypeData /\ TypeFlags
BY Zenon DEF TypeOK, TypeData, TypeFlags

LEMMA InitType == Init => TypeData /\ TypeFlags
<1> SUFFICES ASSUME Init PROVE TypeData /\ TypeFlags
  OBVIOUS
<1>1. TypeData
  BY DEF Init, TypeData, Ret
<1>2. TypeFlags
  BY Zenon DEF Init, TypeFlags
<1> QED
  BY <1>1, <1>2

\* Every step keeps the flags Boolean: each sets them to TRUE, FALSE or
\* leaves them.
LEMMA FlagsStep == TypeFlags /\ [Next]_vars => TypeFlags'
<1> SUFFICES ASSUME TypeFlags, [Next]_vars PROVE TypeFlags'
  OBVIOUS
<1>1. CASE \E h \in Handle : New(h) \/ Connect(h) \/ Drop(h)
  BY <1>1, Zenon DEF TypeFlags, New, Connect, Drop, Panic, Consume, Returned
<1>2. CASE \E h \in Handle, o \in Obj : PutInDb(h, o)
  BY <1>2, Zenon DEF TypeFlags, PutInDb, Returned
<1>3. CASE \E h \in Handle, k \in Key : Getu8(h, k) \/ GetFromDb(h, k)
  BY <1>3, Zenon DEF TypeFlags, Getu8, GetFromDb, Panic, Consume, Returned
<1>4. CASE UNCHANGED vars
  BY <1>4 DEF TypeFlags, vars
<1> QED
  BY <1>1, <1>2, <1>3, <1>4 DEF Next

\* Every step keeps the store, the Cons and the returned value typed.
LEMMA DataStep == TypeData /\ [Next]_vars => TypeData'
<1> SUFFICES ASSUME TypeData, [Next]_vars PROVE TypeData'
  OBVIOUS
<1>1. ASSUME NEW h \in Handle, New(h) PROVE TypeData'
  BY <1>1 DEF TypeData, Ret, New, Returned
<1>2. ASSUME NEW h \in Handle, Connect(h) PROVE TypeData'
  BY <1>2 DEF TypeData, Ret, Connect, Panic, Returned
<1>3. ASSUME NEW h \in Handle, Drop(h) PROVE TypeData'
  BY <1>3 DEF TypeData, Ret, Drop, Consume, Returned
<1>4. ASSUME NEW h \in Handle, NEW o \in Obj, PutInDb(h, o) PROVE TypeData'
  BY <1>4, LegacyDbAssumption DEF TypeData, Ret, PutInDb, Returned
<1>5. ASSUME NEW h \in Handle, NEW k \in Key, Getu8(h, k) PROVE TypeData'
  BY <1>5 DEF TypeData, Ret, Getu8, Panic, Consume, Returned
<1>6. ASSUME NEW h \in Handle, NEW k \in Key, GetFromDb(h, k) PROVE TypeData'
  BY <1>6 DEF TypeData, Ret, GetFromDb, Panic, Consume, Returned
<1>7. CASE UNCHANGED vars
  BY <1>7 DEF TypeData, vars
<1> QED
  BY <1>1, <1>2, <1>3, <1>4, <1>5, <1>6, <1>7 DEF Next

(* Every sequence of Con calls keeps the wrapper's state typed, and        *)
(* get_from_db only ever returns None or panics (TypeOK's Ret).            *)
THEOREM TypeCorrect == Spec => []TypeOK
<1>1. Init => TypeData /\ TypeFlags
  BY InitType
<1>2. TypeData /\ TypeFlags /\ [Next]_vars => TypeData' /\ TypeFlags'
  BY DataStep, FlagsStep
<1>3. TypeData /\ TypeFlags => TypeOK
  BY TypeSplit
<1> QED
  BY <1>1, <1>2, <1>3, PTL DEF Spec

\* The store is content-addressed: whatever it holds under a key is an
\* object whose serialize_hash256 is that key.
ContentAddressed == \A k \in Key : store[k] # Missing => ObjHash[store[k]] = k

\* What getu8 returned is an object whose hash is the key it was asked for.
Getu8ReturnsOwnKey ==
    (ret.op = "getu8" /\ ret.out \in Obj) => ObjHash[ret.out] = ret.arg

HashInv == TypeData /\ ContentAddressed /\ Getu8ReturnsOwnKey

LEMMA HashStep == HashInv /\ [Next]_vars => HashInv'
<1> SUFFICES ASSUME HashInv, [Next]_vars PROVE HashInv'
  OBVIOUS
<1> USE LegacyDbAssumption DEF HashInv, ContentAddressed, Getu8ReturnsOwnKey
<1>0. TypeData'
  BY DataStep
<1>1. ASSUME NEW h \in Handle, New(h) \/ Connect(h) \/ Drop(h) PROVE HashInv'
  BY <1>0, <1>1 DEF New, Connect, Drop, Panic, Consume, Returned
<1>2. ASSUME NEW h \in Handle, NEW o \in Obj, PutInDb(h, o) PROVE HashInv'
  BY <1>0, <1>2 DEF TypeData, PutInDb, Returned
<1>3. ASSUME NEW h \in Handle, NEW k \in Key, Getu8(h, k) PROVE HashInv'
  BY <1>0, <1>3 DEF TypeData, Getu8, Panic, Consume, Returned
<1>4. ASSUME NEW h \in Handle, NEW k \in Key, GetFromDb(h, k) PROVE HashInv'
  BY <1>0, <1>4 DEF TypeData, GetFromDb, Panic, Consume, Returned
<1>5. CASE UNCHANGED vars
  BY <1>0, <1>5 DEF vars
<1> QED
  BY <1>1, <1>2, <1>3, <1>4, <1>5 DEF Next

(* put_in_db files each object under its own hash and getu8 reads the     *)
(* bytes under the key it is given, across Cons (they all open the same   *)
(* path): so getu8 only ever returns an object whose hash is its key.     *)
THEOREM Getu8ReadsOwnKey == Spec => []Getu8ReturnsOwnKey
<1>1. Init => HashInv
  BY InitType DEF Init, HashInv, ContentAddressed, Getu8ReturnsOwnKey
<1>2. HashInv /\ [Next]_vars => HashInv'
  BY HashStep
<1> QED
  BY <1>1, <1>2, PTL DEF Spec, HashInv

=============================================================================
