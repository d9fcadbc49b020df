--------------------------- MODULE PeerSync_proofs ---------------------------
(* Proofs about the peer registry and the sync clients of client.rs, for  *)
(* every set of peers, every chain each one serves and every hash list.   *)
EXTENDS PeerSync, TLAPS

(* get_peer_url yields a registered, resolvable peer or none. *)
LEMMA GetPeerUrlType ==
    ASSUME NEW r \in SUBSET Peer
    PROVE  /\ GetPeerUrl(r) \in (r \cap Resolvable) \cup {NoPeer}
           /\ GetPeerUrl(r) # NoPeer <=> r \cap Resolvable # {}
<1>1. CASE r \cap Resolvable = {}
  BY <1>1 DEF GetPeerUrl
<1>2. CASE r \cap Resolvable # {}
  <2>1. \E p \in r \cap Resolvable : \A q \in r \cap Resolvable : Rank[p] <= Rank[q]
    BY <1>2, IterationOrder, PeerAssumption
  <2>2. GetPeerUrl(r) \in r \cap Resolvable
    BY <1>2, <2>1 DEF GetPeerUrl
  <2> QED
    BY <1>2, <2>2, PeerAssumption
<1> QED
  BY <1>1, <1>2

(* A block fetch that answers a block answers the asked height of the     *)
(* chain of a registered, resolvable peer.                                 *)
LEMMA FetchBlockSome ==
    ASSUME NEW r \in SUBSET Peer, NEW h \in Nat, NEW o \in FetchBlock(r, h),
           o.tag = "some"
    PROVE  \E p \in r \cap Resolvable : h < Len(Chain[p]) /\ o.val = Chain[p][h + 1]
<1> DEFINE p == GetPeerUrl(r)
<1>1. p \in (r \cap Resolvable) \cup {NoPeer}
  BY GetPeerUrlType
<1>2. p # NoPeer /\ h < Len(Chain[p]) /\ o.val = Chain[p][h + 1]
  BY DEF FetchBlock, Fail
<1> QED
  BY <1>1, <1>2

(* The block loop, the transaction loop and sync_txn_pool keep every      *)
(* variable in its type; the transaction loop only indexes a block it has *)
(* fetched, and sync_txn_pool only the hashes of its list.  The two flags  *)
(* are kept apart: they are proved by Zenon, the rest by SMT.              *)
TypeData ==
    /\ reg \subseteq Peer
    /\ spc \in {"idle", "len", "blocks", "txns", "done"}
    /\ cur \in 0..MaxLen /\ own \in Nat /\ target \in Nat
    /\ DOMAIN bm \subseteq Nat /\ bm \in [DOMAIN bm -> BlockVal]
    /\ txm \subseteq Txn /\ todo \subseteq DOMAIN bm
    /\ blk \in Nat /\ j \in Nat
    /\ qpc \in {"idle", "run", "done"} /\ qurl \in Peer \cup {NoPeer}
    /\ qhs \in HashLists \cup {<<>>} /\ qi \in Nat
    /\ TP!IsPool(pool)
    /\ spc = "txns" /\ j > 0 => blk \in DOMAIN bm
    /\ qpc = "run" => qi \in 1..(Len(qhs) + 1)

TypeFlags == flag \in BOOLEAN /\ qres \in BOOLEAN

(* The hash list of sync_txn_pool is a list of transactions. *)
LEMMA HashListType ==
    ASSUME NEW x \in HashLists \cup {<<>>}
    PROVE  x \in Seq(Txn)
<1>1. CASE x = <<>>
  BY <1>1
<1>2. CASE x \in HashLists
  BY <1>2, ChainAssumption
<1> QED
  BY <1>1, <1>2

LEMMA FetchBlockType ==
    ASSUME NEW r \in SUBSET Peer, NEW h \in Nat, NEW o \in FetchBlock(r, h),
           o.tag = "some"
    PROVE  o.val \in BlockVal
<1>1. PICK p \in r \cap Resolvable : h < Len(Chain[p]) /\ o.val = Chain[p][h + 1]
  BY FetchBlockSome
<1>2. Chain[p] \in Seq(BlockVal)
  BY ChainAssumption
<1> QED
  BY <1>1, <1>2

LEMMA FetchLengthType ==
    ASSUME NEW r \in SUBSET Peer, NEW o \in FetchBlockchainLength(r)
    PROVE  o.val \in 0..MaxLen
<1>1. GetPeerUrl(r) \in (r \cap Resolvable) \cup {NoPeer}
  BY GetPeerUrlType
<1> QED
  BY <1>1, ChainAssumption DEF FetchBlockchainLength, Fail

(* The flags are only ever set to TRUE or FALSE. *)
LEMMA FlagsStep == TypeFlags /\ [Next]_vars => TypeFlags'
<1> SUFFICES ASSUME TypeFlags, [Next]_vars PROVE TypeFlags'
  OBVIOUS
<1> USE DEF TypeFlags
<1>1. CASE \E p \in Peer : Discovered(p) \/ Expired(p)
  BY <1>1, Zenon DEF Discovered, Expired, SyncVars, PoolVars
<1>2. CASE \E c \in 1..MaxLen : SyncStart(c)
  BY <1>2, Zenon DEF SyncStart, PoolVars
<1>3. CASE Fetcher
  <2>1. qres' = qres
    BY <1>3, Zenon DEF Fetcher, FetchLength, FetchBlockStep, BlocksDone,
                       TxnBlockStart, TxnStep, PoolVars
  <2>2. flag' = flag \/ flag' = TRUE \/ flag' = FALSE
    BY <1>3, Zenon DEF Fetcher, FetchLength, FetchBlockStep, BlocksDone,
                       TxnBlockStart, TxnStep
  <2> QED
    BY <2>1, <2>2, Zenon
<1>4. CASE (\E k \in Peer \cup {NoPeer}, hs \in HashLists : TxnPoolStart(k, hs)) \/ TxnPoolStep \/ TxnPoolEnd
  <2>1. flag' = flag
    BY <1>4, Zenon DEF TxnPoolStart, TxnPoolStep, TxnPoolEnd, SyncVars
  <2>2. qres' = qres \/ qres' = TRUE \/ qres' = FALSE
    BY <1>4, Zenon DEF TxnPoolStart, TxnPoolStep, TxnPoolEnd
  <2> QED
    BY <2>1, <2>2, Zenon
<1>5. CASE UNCHANGED vars
  BY <1>5, Zenon DEF vars
<1> QED
  BY <1>1, <1>2, <1>3, <1>4, <1>5 DEF Next

(* Every step keeps the data variables in their types. *)
LEMMA DataStep == TypeData /\ [Next]_vars => TypeData'
<1> SUFFICES ASSUME TypeData, [Next]_vars PROVE TypeData'
  OBVIOUS
<1> USE DEF TypeData, TP!IsPool
<1>0. qhs \in Seq(Txn)
  BY HashListType
<1>1. ASSUME NEW p \in Peer, Discovered(p) \/ Expired(p) PROVE TypeData'
  BY <1>1 DEF Discovered, Expired, SyncVars, PoolVars
<1>2. ASSUME NEW c \in 1..MaxLen, SyncStart(c) PROVE TypeData'
  BY <1>2 DEF SyncStart, PoolVars
<1>3. CASE FetchLength
  BY <1>3, FetchLengthType DEF FetchLength, PoolVars
<1>4. CASE FetchBlockStep
  <2>1. PICK o \in FetchBlock(reg, own) : FetchBlockStep!2!(o)
    BY <1>4 DEF FetchBlockStep
  <2>2. CASE o.tag = "some"
    BY <1>4, <2>1, <2>2, FetchBlockType DEF FetchBlockStep, PoolVars
  <2>3. CASE o.tag # "some"
    BY <1>4, <2>1, <2>3 DEF FetchBlockStep, PoolVars
  <2> QED
    BY <2>2, <2>3
<1>5. CASE BlocksDone
  BY <1>5 DEF BlocksDone, PoolVars
<1>6. CASE TxnBlockStart
  BY <1>6 DEF TxnBlockStart, PoolVars
<1>7. CASE TxnStep
  <2>1. BlockTxns[bm[blk]] \in Seq(Txn)
    BY <1>7, ChainAssumption DEF TxnStep
  <2> QED
    BY <1>7, <2>1 DEF TxnStep, PoolVars
<1>8. ASSUME NEW k \in Peer \cup {NoPeer}, NEW hs \in HashLists, TxnPoolStart(k, hs)
      PROVE  TypeData'
  <2>1. GetPeerUrlUsingPk(reg, k) \in Peer \cup {NoPeer}
    BY DEF GetPeerUrlUsingPk
  <2>2. hs \in Seq(Txn)
    BY ChainAssumption
  <2> QED
    BY <1>8, <2>1, <2>2 DEF TxnPoolStart, SyncVars
<1>9. CASE TxnPoolStep
  <2>1. qhs[qi] \in Txn
    BY <1>0, <1>9 DEF TxnPoolStep
  <2>2. TP!ParseOk(qhs[qi]) =>
          TP!IsPool(TP!InsertOp(pool, Stamp[qhs[qi]], qhs[qi]))
    BY <2>1, ChainAssumption DEF TP!InsertOp, TP!ParseOk
  <2> QED
    BY <1>9, <2>2 DEF TxnPoolStep, SyncVars
<1>10. CASE TxnPoolEnd
  BY <1>10 DEF TxnPoolEnd, SyncVars
<1>11. CASE UNCHANGED vars
  BY <1>11 DEF vars
<1> QED
  BY <1>1, <1>2, <1>3, <1>4, <1>5, <1>6, <1>7, <1>8, <1>9, <1>10, <1>11
     DEF Next, Fetcher

(* The initial state has its data in their types. *)
LEMMA InitData == Init => TypeData
<1> SUFFICES ASSUME Init PROVE TypeData
  OBVIOUS
<1>1. TP!IsPool(pool)
  BY DEF Init, TP!IsPool, TP!EmptyPool
<1>2. DOMAIN bm = {} /\ bm \in [DOMAIN bm -> BlockVal]
  BY DEF Init
<1> QED
  BY <1>1, <1>2, ChainAssumption, PeerAssumption DEF Init, TypeData

(* Every variable of the registry and of both clients keeps its type. *)
THEOREM TypeCorrect == Spec => []TypeOK
<1>1. Init => TypeData
  BY InitData
<1>2. Init => TypeFlags
  BY Zenon DEF Init, TypeFlags
<1>3. TypeData /\ TypeFlags => TypeOK
  BY Zenon DEF TypeData, TypeFlags, TypeOK
<1> QED
  BY <1>1, <1>2, <1>3, DataStep, FlagsStep, PTL DEF Spec

-----------------------------------------------------------------------------
(* The segment fetch_sync_state builds.                                    *)

(* The peers agree: of any two blocks lists, the shorter is a prefix of   *)
(* the longer.                                                             *)
NoFork ==
    \A p, q \in Peer : \A i \in 1..Len(Chain[p]) :
        i <= Len(Chain[q]) => Chain[p][i] = Chain[q][i]

(* The inductive invariant: block_pool holds the heights from             *)
(* current_length up to some e, and e is own_chain_length while the       *)
(* length request or the block loop is still running; every block is the *)
(* block of its height on some peer.                                      *)
SegInv ==
    /\ own \in cur..(cur + MaxLen) /\ target \in 0..MaxLen
    /\ \E e \in cur..own :
         /\ DOMAIN bm = cur..(e - 1)
         /\ (spc = "len" \/ (spc = "blocks" /\ own < target)) => e = own
    /\ \A h \in DOMAIN bm : \E p \in Peer : h < Len(Chain[p]) /\ bm[h] = Chain[p][h + 1]

(* Every step keeps SegInv. *)
LEMMA SegStep == TypeData /\ SegInv /\ [Next]_vars => SegInv'
<1> SUFFICES ASSUME TypeData, SegInv, [Next]_vars PROVE SegInv'
  OBVIOUS
<1> USE DEF TypeData
<1>0. PICK e \in cur..own :
        /\ DOMAIN bm = cur..(e - 1)
        /\ (spc = "len" \/ (spc = "blocks" /\ own < target)) => e = own
  BY DEF SegInv
<1>1. ASSUME NEW p \in Peer, Discovered(p) \/ Expired(p) PROVE SegInv'
  BY <1>1 DEF SegInv, Discovered, Expired, SyncVars
<1>2. ASSUME NEW c \in 1..MaxLen, SyncStart(c) PROVE SegInv'
  <2>1. own' = c /\ cur' = c /\ target' = 0 /\ DOMAIN bm' = {}
    BY <1>2 DEF SyncStart
  <2>2. c \in cur'..own' /\ DOMAIN bm' = cur'..(c - 1) /\ c = own'
    BY <2>1
  <2>3. own' \in cur'..(cur' + MaxLen) /\ target' \in 0..MaxLen
    BY <2>1, ChainAssumption
  <2> QED
    BY <2>1, <2>2, <2>3 DEF SegInv
<1>3. CASE FetchLength
  <2>0. target \in 0..MaxLen
    BY DEF SegInv
  <2>1. UNCHANGED <<cur, own, bm>> /\ spc = "len" /\ target' \in 0..MaxLen
    <3>1. PICK o \in FetchBlockchainLength(reg) : FetchLength!2!(o)
      BY <1>3 DEF FetchLength
    <3>2. o.val \in 0..MaxLen
      BY FetchLengthType
    <3>3. target' = o.val \/ target' = target
      BY <3>1
    <3> QED
      BY <1>3, <2>0, <3>2, <3>3 DEF FetchLength
  <2>2. e = own
    BY <1>0, <2>1
  <2> QED
    BY <1>0, <2>1, <2>2 DEF SegInv
<1>4. CASE FetchBlockStep
  <2>1. spc = "blocks" /\ own < target /\ e = own /\ UNCHANGED <<spc, cur, target>>
    BY <1>0, <1>4 DEF FetchBlockStep
  <2>2. PICK o \in FetchBlock(reg, own) : FetchBlockStep!2!(o)
    BY <1>4 DEF FetchBlockStep
  <2>3. CASE o.tag = "some"
    <3>1. PICK q \in reg \cap Resolvable : own < Len(Chain[q]) /\ o.val = Chain[q][own + 1]
      BY <2>3, FetchBlockSome
    <3>2. bm' = [h \in DOMAIN bm \cup {own} |-> IF h = own THEN o.val ELSE bm[h]]
          /\ own' = own + 1
      BY <2>2, <2>3
    <3>3. DOMAIN bm' = cur..(own' - 1) /\ own' \in cur..(cur + MaxLen)
      BY <1>0, <2>1, <3>2, ChainAssumption DEF SegInv
    <3>4. \A h \in DOMAIN bm' : \E p \in Peer : h < Len(Chain[p]) /\ bm'[h] = Chain[p][h + 1]
      BY <3>1, <3>2 DEF SegInv
    <3> QED
      BY <2>1, <3>3, <3>4 DEF SegInv
  <2>4. CASE o.tag # "some"
    <3>1. own' = target /\ bm' = bm
      BY <2>2, <2>4
    <3>2. /\ e \in cur'..own' /\ DOMAIN bm' = cur'..(e - 1)
          /\ ~(spc' = "len" \/ (spc' = "blocks" /\ own' < target'))
      BY <1>0, <2>1, <3>1
    <3>3. own' \in cur'..(cur' + MaxLen) /\ target' \in 0..MaxLen
      BY <2>1, <3>1, ChainAssumption DEF SegInv
    <3>4. \A h \in DOMAIN bm' : \E p \in Peer : h < Len(Chain[p]) /\ bm'[h] = Chain[p][h + 1]
      BY <3>1 DEF SegInv
    <3> QED
      BY <3>2, <3>3, <3>4 DEF SegInv
  <2> QED
    BY <2>3, <2>4
<1>5. CASE BlocksDone \/ TxnBlockStart \/ TxnStep
  <2>1. UNCHANGED <<cur, own, target, bm>> /\ spc' \in {"txns", "done"}
    BY <1>5 DEF BlocksDone, TxnBlockStart, TxnStep
  <2> QED
    BY <1>0, <2>1 DEF SegInv
<1>6. CASE (\E k \in Peer \cup {NoPeer}, hs \in HashLists : TxnPoolStart(k, hs)) \/ TxnPoolStep \/ TxnPoolEnd
  BY <1>6 DEF SegInv, TxnPoolStart, TxnPoolStep, TxnPoolEnd, SyncVars
<1>7. CASE UNCHANGED vars
  BY <1>7 DEF SegInv, vars
<1> QED
  BY <1>1, <1>2, <1>3, <1>4, <1>5, <1>6, <1>7 DEF Next, Fetcher

(* With peers that agree, the block_pool fetch_sync_state builds is       *)
(* always a run of consecutive heights from current_length on, holding   *)
(* one peer's blocks, however mdns changes the registry between the      *)
(* requests and whichever requests fail.                                  *)
THEOREM SyncSegmentInvariant ==
    ASSUME NoFork
    PROVE  Spec => []SyncSegment
<1>1. Init => SegInv
  <2> SUFFICES ASSUME Init PROVE SegInv
    OBVIOUS
  <2>1. cur = 0 /\ own = 0 /\ target = 0 /\ DOMAIN bm = {}
    BY DEF Init
  <2>2. DOMAIN bm = cur..(0 - 1)
    BY <2>1
  <2> QED
    BY <2>1, <2>2, ChainAssumption DEF SegInv
<1>2. TypeData /\ SegInv => SyncSegment
  <2> SUFFICES ASSUME TypeData, SegInv PROVE SyncSegment
    OBVIOUS
  <2>1. PICK e \in cur..own : DOMAIN bm = cur..(e - 1)
    BY DEF SegInv
  <2>0. own \in cur..(cur + MaxLen) /\ cur \in Nat /\ MaxLen \in Nat
    BY ChainAssumption DEF SegInv, TypeData
  <2>2. e \in cur..(cur + MaxLen)
    BY <2>0, <2>1
  <2>3. CASE DOMAIN bm = {}
    BY <2>1, <2>2, <2>3 DEF SyncSegment
  <2>4. CASE DOMAIN bm # {}
    <3>1. e - 1 \in DOMAIN bm
      BY <2>1, <2>4 DEF TypeData
    <3>2. PICK p0 \in Peer : e - 1 < Len(Chain[p0]) /\ bm[e - 1] = Chain[p0][e]
      BY <3>1 DEF SegInv
    <3>3. ASSUME NEW h \in DOMAIN bm PROVE h < Len(Chain[p0]) /\ bm[h] = Chain[p0][h + 1]
      <4>1. PICK ph \in Peer : h < Len(Chain[ph]) /\ bm[h] = Chain[ph][h + 1]
        BY DEF SegInv
      <4>2. h \in cur..(e - 1) /\ h \in Nat
        BY <2>1 DEF TypeData
      <4>3. Len(Chain[ph]) \in Nat /\ Len(Chain[p0]) \in Nat
        BY ChainAssumption
      <4>4. h + 1 \in 1..Len(Chain[ph]) /\ h + 1 <= Len(Chain[p0])
        BY <3>2, <4>1, <4>2, <4>3
      <4>5. Chain[ph][h + 1] = Chain[p0][h + 1]
        BY <4>4, NoFork DEF NoFork
      <4> QED
        BY <3>2, <4>1, <4>2, <4>3, <4>5
    <3> QED
      BY <2>1, <2>2, <3>3 DEF SyncSegment
  <2> QED
    BY <2>3, <2>4
<1> QED
  BY <1>1, <1>2, InitData, DataStep, SegStep, PTL DEF Spec

-----------------------------------------------------------------------------
(* sync_txn_pool.                                                          *)

(* insert_op keeps every transaction get() finds, and adds its own. *)
LEMMA InsertOpGet ==
    ASSUME NEW p, NEW k, NEW t, NEW u, TP!Get(p, u) \/ u = t
    PROVE  TP!Get(TP!InsertOp(p, k, t), u)
BY DEF TP!Get, TP!InsertOp

(* The inductive invariant: while sync_txn_pool runs, it has a peer and   *)
(* every hash before the current one is in POOL.                          *)
PoolInv ==
    /\ qpc = "run" => qurl # NoPeer /\ \A i \in 1..(qi - 1) : TP!Get(pool, qhs[i])
    /\ SyncedWhenPeerFound

LEMMA PoolStep == TypeData /\ PoolInv /\ [Next]_vars => PoolInv'
<1> SUFFICES ASSUME TypeData, PoolInv, [Next]_vars PROVE PoolInv'
  OBVIOUS
<1>1. CASE UNCHANGED <<qpc, qurl, qhs, qi, qres, pool>>
  BY <1>1 DEF PoolInv, SyncedWhenPeerFound
<1>2. ASSUME NEW k \in Peer \cup {NoPeer}, NEW hs \in HashLists, TxnPoolStart(k, hs)
      PROVE  PoolInv'
  <2>1. DEFINE p == GetPeerUrlUsingPk(reg, k)
  <2>2. qurl' = p /\ qi' = 1
    BY <1>2 DEF TxnPoolStart
  <2>3. CASE p = NoPeer
    BY <1>2, <2>2, <2>3 DEF TxnPoolStart, PoolInv, SyncedWhenPeerFound
  <2>4. CASE p # NoPeer
    <3>1. qpc' = "run"
      BY <1>2, <2>4 DEF TxnPoolStart
    <3> QED
      BY <2>2, <2>4, <3>1 DEF PoolInv, SyncedWhenPeerFound
  <2> QED
    BY <2>3, <2>4
<1>3. CASE TxnPoolStep
  <2> DEFINE t == qhs[qi]
  <2>1. qpc = "run" /\ qi \in 1..Len(qhs) /\ UNCHANGED <<qurl, qhs>>
    BY <1>3 DEF TxnPoolStep, TypeData
  <2>2. \A i \in 1..(qi - 1) : TP!Get(pool, qhs[i])
    BY <2>1 DEF PoolInv
  <2>3. CASE TP!Get(pool, t) /\ qi' = qi + 1 /\ UNCHANGED <<qpc, qres, pool>>
    <3>1. \A i \in 1..(qi' - 1) : TP!Get(pool', qhs[i])
      BY <2>1, <2>2, <2>3
    <3> QED
      BY <2>1, <2>3, <3>1 DEF PoolInv, SyncedWhenPeerFound
  <2>4. CASE pool' = TP!InsertOp(pool, Stamp[t], t) /\ qi' = qi + 1 /\ UNCHANGED <<qpc, qres>>
    <3>1. \A i \in 1..(qi' - 1) : TP!Get(pool', qhs[i])
      <4> SUFFICES ASSUME NEW i \in 1..(qi' - 1) PROVE TP!Get(pool', qhs[i])
        OBVIOUS
      <4>1. TP!Get(pool, qhs[i]) \/ qhs[i] = t
        BY <2>1, <2>2, <2>4
      <4> QED
        BY <2>4, <4>1, InsertOpGet
    <3> QED
      BY <2>1, <2>4, <3>1 DEF PoolInv, SyncedWhenPeerFound
  <2>5. CASE qpc' = "done" /\ qres' = FALSE
    BY <2>1, <2>5 DEF PoolInv, SyncedWhenPeerFound
  <2> QED
    BY <1>3, <2>3, <2>4, <2>5 DEF TxnPoolStep
<1>4. CASE TxnPoolEnd
  <2>1. qpc = "run" /\ qi > Len(qhs) /\ qi \in 1..(Len(qhs) + 1)
    BY <1>4 DEF TxnPoolEnd, TypeData
  <2>0. qhs \in Seq(Txn)
    BY HashListType DEF TypeData
  <2>2. \A i \in DOMAIN qhs : TP!Get(pool, qhs[i])
    BY <2>0, <2>1 DEF PoolInv
  <2> QED
    BY <1>4, <2>2 DEF TxnPoolEnd, PoolInv, SyncedWhenPeerFound
<1> QED
  BY <1>1, <1>2, <1>3, <1>4
     DEF Next, Fetcher, vars, Discovered, Expired, SyncStart, FetchLength, FetchBlockStep,
         BlocksDone, TxnBlockStart, TxnStep, PoolVars

(* When sync_txn_pool found the peer of its key and returns true, every   *)
(* hash of its list is in POOL, whatever the registry and the network do *)
(* and whatever POOL held before.                                         *)
THEOREM SyncedWhenPeerFoundInvariant == Spec => []SyncedWhenPeerFound
<1>1. Init => PoolInv
  BY DEF Init, PoolInv, SyncedWhenPeerFound
<1>2. PoolInv => SyncedWhenPeerFound
  BY DEF PoolInv
<1> QED
  BY <1>1, <1>2, InitData, DataStep, PoolStep, PTL DEF Spec

=============================================================================
