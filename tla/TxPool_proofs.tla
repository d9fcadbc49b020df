--------------------------- MODULE TxPool_proofs ---------------------------
(* Proofs about the transaction pool, for every set of transactions and   *)
(* every assignment of timestamps.                                         *)
EXTENDS TxPool, TLAPS

\* Distinct transactions whose headers parse carry distinct timestamps.
StampInjective ==
    \A t, u \in Txn : ParseOk(t) /\ ParseOk(u) /\ Stamp[t] = Stamp[u] => t = u

(* insert_op keeps both maps of the right shape. *)
LEMMA InsertOpType ==
    ASSUME NEW p, IsPool(p), NEW t \in Txn, ParseOk(t)
    PROVE  IsPool(InsertOp(p, Stamp[t], t))
BY StampAssumption DEF IsPool, InsertOp, ParseOk

(* sync_pool keeps both maps of the right shape. *)
LEMMA SyncPoolType ==
    ASSUME NEW p, IsPool(p), NEW hs
    PROVE  IsPool(SyncPool(p, hs))
BY DEF IsPool, SyncPool

(* The pool is always a pair of well-formed maps. *)
THEOREM TypeCorrect == Spec => []TypeOK
<1>1. Init => TypeOK
  BY DEF Init, TypeOK, IsPool, EmptyPool
<1>2. TypeOK /\ [Next]_pool => TypeOK'
  <2> SUFFICES ASSUME TypeOK, [Next]_pool PROVE TypeOK'
    OBVIOUS
  <2>1. ASSUME NEW t \in Txn, Receive(t) PROVE TypeOK'
    BY <2>1, InsertOpType DEF TypeOK, Receive
  <2>2. ASSUME NEW hs \in HashLists, Commit(hs) PROVE TypeOK'
    BY <2>2, SyncPoolType DEF TypeOK, Commit
  <2>3. CASE UNCHANGED pool
    BY <2>3 DEF TypeOK
  <2>4. QED
    BY <2>1, <2>2, <2>3 DEF Next
<1>3. QED
  BY <1>1, <1>2, PTL DEF Spec

\* The inductive invariant: well-formed maps that agree.
IInv == TypeOK /\ IndexesAgree

(* insert_op of a transaction under its own timestamp keeps the maps in   *)
(* agreement when no other transaction shares that timestamp.              *)
LEMMA InsertOpAgrees ==
    ASSUME StampInjective, NEW p, IsPool(p),
           OrderedTxns(p) = p.hash,
           \A k \in DOMAIN p.order : Stamp[p.order[k]] = k,
           NEW t \in Txn, ParseOk(t)
    PROVE  LET q == InsertOp(p, Stamp[t], t)
           IN  /\ OrderedTxns(q) = q.hash
               /\ \A k \in DOMAIN q.order : Stamp[q.order[k]] = k
<1> DEFINE q == InsertOp(p, Stamp[t], t)
<1>1. \A k \in DOMAIN q.order : Stamp[q.order[k]] = k
  BY DEF InsertOp
<1>2. OrderedTxns(q) \subseteq q.hash
  BY DEF InsertOp, OrderedTxns
<1>3. q.hash \subseteq OrderedTxns(q)
  <2> SUFFICES ASSUME NEW u \in q.hash PROVE u \in OrderedTxns(q)
    BY DEF OrderedTxns
  <2>1. CASE u = t
    BY <2>1 DEF InsertOp, OrderedTxns
  <2>2. CASE u # t
    <3>1. PICK k \in DOMAIN p.order : p.order[k] = u
      BY <2>2 DEF InsertOp, OrderedTxns
    <3>2. k # Stamp[t]
      BY <3>1, <2>2, StampAssumption DEF StampInjective, IsPool, ParseOk
    <3>3. q.order[k] = u
      BY <3>1, <3>2 DEF InsertOp
    <3>4. QED
      BY <3>3 DEF InsertOp, OrderedTxns
  <2>3. QED
    BY <2>1, <2>2
<1>4. QED
  BY <1>1, <1>2, <1>3

(* sync_pool removes a transaction from both maps together. *)
LEMMA SyncPoolAgrees ==
    ASSUME NEW p, IsPool(p),
           OrderedTxns(p) = p.hash,
           \A k \in DOMAIN p.order : Stamp[p.order[k]] = k,
           NEW hs
    PROVE  LET q == SyncPool(p, hs)
           IN  /\ OrderedTxns(q) = q.hash
               /\ \A k \in DOMAIN q.order : Stamp[q.order[k]] = k
<1> DEFINE q == SyncPool(p, hs)
           elig == {hs[i] : i \in DOMAIN hs} \cap {h \in p.hash : ParseOk(h)}
<1>1. \A k \in DOMAIN q.order : Stamp[q.order[k]] = k
  BY DEF SyncPool
<1>2. OrderedTxns(q) \subseteq q.hash
  <2> SUFFICES ASSUME NEW k \in DOMAIN q.order PROVE q.order[k] \in q.hash
    BY DEF OrderedTxns
  <2>1. k \in DOMAIN p.order /\ k \notin {Stamp[h] : h \in elig}
    BY DEF SyncPool
  <2>2. p.order[k] \in p.hash /\ Stamp[p.order[k]] = k
    BY <2>1 DEF OrderedTxns
  <2>3. p.order[k] \notin elig
    BY <2>1, <2>2
  <2>4. QED
    BY <2>1, <2>2, <2>3 DEF SyncPool
<1>3. q.hash \subseteq OrderedTxns(q)
  <2> SUFFICES ASSUME NEW u \in q.hash PROVE u \in OrderedTxns(q)
    BY DEF OrderedTxns
  <2>1. u \in p.hash /\ u \notin elig
    BY DEF SyncPool
  <2>2. PICK k \in DOMAIN p.order : p.order[k] = u
    BY <2>1 DEF OrderedTxns
  <2>3. k \notin {Stamp[h] : h \in elig}
    <3> SUFFICES ASSUME NEW h \in elig, Stamp[h] = k PROVE FALSE
      OBVIOUS
    <3>1. PICK j \in DOMAIN p.order : p.order[j] = h
      BY DEF OrderedTxns
    <3>2. j = k
      BY <3>1
    <3>3. QED
      BY <3>1, <3>2, <2>1, <2>2
  <2>4. q.order[k] = u
    BY <2>2, <2>3 DEF SyncPool
  <2>5. QED
    BY <2>2, <2>3, <2>4 DEF SyncPool, OrderedTxns
<1>4. QED
  BY <1>1, <1>2, <1>3

(* Each call made on POOL keeps the maps well formed and in agreement.     *)
LEMMA IInvStep ==
    ASSUME StampInjective
    PROVE  IInv /\ [Next]_pool => IInv'
<1> SUFFICES ASSUME IInv, [Next]_pool PROVE IInv'
  OBVIOUS
<1>1. ASSUME NEW t \in Txn, Receive(t) PROVE IInv'
  BY <1>1, InsertOpType, InsertOpAgrees DEF IInv, TypeOK, IndexesAgree, Receive
<1>2. ASSUME NEW hs \in HashLists, Commit(hs) PROVE IInv'
  BY <1>2, SyncPoolType, SyncPoolAgrees DEF IInv, TypeOK, IndexesAgree, Commit
<1>3. CASE UNCHANGED pool
  BY <1>3 DEF IInv, TypeOK, IndexesAgree, OrderedTxns
<1>4. QED
  BY <1>1, <1>2, <1>3 DEF Next

LEMMA InitIInv == Init => IInv
BY DEF Init, IInv, TypeOK, IsPool, EmptyPool, IndexesAgree, OrderedTxns

(* When the timestamps of distinct transactions differ, hash_pool and      *)
(* order_pool always hold the same transactions, each under its own        *)
(* timestamp: nothing get() finds is invisible to a proposer.             *)
THEOREM IndexesAgreeInvariant ==
    ASSUME StampInjective
    PROVE  Spec => []IndexesAgree
<1>1. IInv => IndexesAgree
  BY DEF IInv
<1> QED
  BY InitIInv, IInvStep, <1>1, PTL DEF Spec

=============================================================================
