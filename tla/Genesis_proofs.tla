---------------------------- MODULE Genesis_proofs ----------------------------
(***************************************************************************)
(* Proofs about the genesis path: type correctness, and that a node       *)
(* replaying P's genesis block never fails its header check.               *)
(*                                                                         *)
(* Neither invariant is inductive by itself: the header check on N         *)
(* depends on what P published and on what N's database and the sync fork *)
(* already hold.  GInv records the states the two nodes and the network    *)
(* can be in: before initialize_db nothing is published; afterwards the    *)
(* network holds exactly the block and transactions P made from pkeys, and *)
(* N's database and the sync fork hold what a run of the genesis loop over *)
(* some of those transactions writes (Partial), which is the whole of      *)
(* initialize_db's tries once the block is in their chain.                 *)
(***************************************************************************)
EXTENDS Genesis, SequenceTheorems, TLAPS

\* The block initialize_db(kp, keys) returns.
GBlock(keys) == [id |-> 0, txns |-> GenesisTxns(keys), hdr |-> InitializeDb(keys)]

\* The tries the genesis loop leaves after handling some of the genesis
\* transactions of keys, starting from empty tries.
Partial(keys) == {GenesisRun(EmptyDb, W) : W \in SUBSET Range(GenesisTxns(keys))}

IsSync(y) == y = [busy |-> y.busy, chain |-> y.chain, db |-> y.db, todo |-> y.todo, txns |-> y.txns]

GInv ==
    /\ TypeOK
    /\ nres # "header"
    /\ IsSync(nsync)
    /\ pchain = <<>> =>
         /\ pkeys = <<>> /\ netBlocks = {} /\ netTxns = {} /\ nchain = <<>>
         /\ ndb = EmptyDb /\ ~nsync.busy
    /\ pchain # <<>> =>
         /\ pchain = <<GBlock(pkeys)>> /\ pdb = InitializeDb(pkeys)
         /\ netBlocks = {GBlock(pkeys)} /\ netTxns = Range(GenesisTxns(pkeys))
         /\ ndb \in Partial(pkeys)
    /\ nchain # <<>> => nchain = <<GBlock(pkeys)>> /\ ndb = InitializeDb(pkeys)
    /\ ~nsync.busy => nsync = NoSync
    /\ nsync.busy =>
         /\ nchain = <<>> /\ pchain # <<>> /\ nsync.db \in Partial(pkeys)
         /\ nsync.todo \in {<<>>, <<GBlock(pkeys)>>}
         /\ nsync.chain # <<>> =>
              nsync.chain = <<GBlock(pkeys)>> /\ nsync.db = InitializeDb(pkeys) /\ nsync.todo = <<>>
         /\ nsync.chain = <<>> \/ nsync.chain = <<GBlock(pkeys)>>
    /\ pdb \in {EmptyDb, InitializeDb(pkeys)}
-----------------------------------------------------------------------------
(* Two runs of the genesis loop, one after the other, write what one run   *)
(* over both sets of transactions writes: every put replaces the wallet    *)
(* under its address by the same fresh one.                                *)
LEMMA RunUnion ==
    ASSUME NEW db, NEW S1, NEW S2
    PROVE  GenesisRun(GenesisRun(db, S1), S2) = GenesisRun(db, S1 \cup S2)
<1> DEFINE to(S) == {t.to : t \in S}
<1>1. to(S1 \cup S2) = to(S1) \cup to(S2)
  OBVIOUS
<1>2. ExecuteGenesis(ExecuteGenesis(db.state, S1), S2) = ExecuteGenesis(db.state, S1 \cup S2)
  BY <1>1 DEF ExecuteGenesis
<1> QED
  BY <1>2 DEF GenesisRun

LEMMA EmptyPartial ==
    ASSUME NEW keys
    PROVE  EmptyDb \in Partial(keys)
<1>1. GenesisRun(EmptyDb, {}) = EmptyDb
  BY DEF GenesisRun, ExecuteGenesis, EmptyDb
<1> QED
  BY <1>1 DEF Partial

(* Running the loop over more of the genesis transactions on partial tries *)
(* gives partial tries, and over all of them gives initialize_db's tries:  *)
(* a replay over an earlier partial write lands on the same tries.         *)
LEMMA PartialRun ==
    ASSUME NEW keys, NEW db \in Partial(keys), NEW S \in SUBSET Range(GenesisTxns(keys))
    PROVE  /\ GenesisRun(db, S) \in Partial(keys)
           /\ S = Range(GenesisTxns(keys)) => GenesisRun(db, S) = InitializeDb(keys)
<1>1. PICK W \in SUBSET Range(GenesisTxns(keys)) : db = GenesisRun(EmptyDb, W)
  BY DEF Partial
<1>2. GenesisRun(db, S) = GenesisRun(EmptyDb, W \cup S)
  BY <1>1, RunUnion
<1>3. GenesisRun(db, S) \in Partial(keys)
  BY <1>2 DEF Partial
<1>4. ASSUME S = Range(GenesisTxns(keys)) PROVE GenesisRun(db, S) = InitializeDb(keys)
  <2>1. W \cup S = Range(GenesisTxns(keys))
    BY <1>4
  <2> QED
    BY <1>2, <2>1 DEF InitializeDb
<1> QED
  BY <1>3, <1>4

(* Partial tries hold only listed addresses, each with a natural balance. *)
LEMMA PartialType ==
    ASSUME NEW keys \in Seq(Account), NEW db \in Partial(keys)
    PROVE  /\ DOMAIN db.state \subseteq Account
           /\ db.state \in [DOMAIN db.state -> Nat]
<1>1. PICK W \in SUBSET Range(GenesisTxns(keys)) : db = GenesisRun(EmptyDb, W)
  BY DEF Partial
<1>2. \A t \in W : t.to \in Account
  BY GenesisAssumption DEF GenesisTxns, Range
<1> QED
  BY <1>1, <1>2, GenesisAssumption DEF GenesisRun, ExecuteGenesis, EmptyDb

LEMMA InitializeDbType ==
    ASSUME NEW keys \in Seq(Account)
    PROVE  /\ InitializeDb(keys) \in Partial(keys)
           /\ DOMAIN InitializeDb(keys).state \subseteq Account
           /\ InitializeDb(keys).state \in [DOMAIN InitializeDb(keys).state -> Nat]
<1>1. InitializeDb(keys) \in Partial(keys)
  BY DEF InitializeDb, Partial
<1> QED
  BY <1>1, PartialType

(* update_block's genesis branch on partial tries, with P's genesis block: *)
(* with every transaction of the block in POOL it ends on initialize_db's  *)
(* tries, so the header check passes; otherwise it returns false at a      *)
(* missing transaction, having written partial tries.  It never fails the *)
(* header check.                                                           *)
LEMMA ReplayGenesis ==
    ASSUME NEW keys, NEW db \in Partial(keys), NEW pool
    PROVE  LET r == UpdateGenesis(db, GBlock(keys), pool)
           IN  /\ r.db \in Partial(keys)
               /\ Range(GenesisTxns(keys)) \subseteq pool => r.res = "ok" /\ r.db = InitializeDb(keys)
               /\ ~(Range(GenesisTxns(keys)) \subseteq pool) => r.res = "missing"
<1> DEFINE R == Range(GenesisTxns(keys))
<1>1. CASE R \subseteq pool
  <2>1. GenesisRun(db, R) = InitializeDb(keys) /\ GenesisRun(db, R) \in Partial(keys)
    BY PartialRun
  <2> QED
    BY <1>1, <2>1 DEF UpdateGenesis, GBlock
<1>2. CASE ~(R \subseteq pool)
  <2>1. Written(GenesisTxns(keys), pool) \subseteq R
    BY DEF Written, Range
  <2>2. GenesisRun(db, Written(GenesisTxns(keys), pool)) \in Partial(keys)
    BY <2>1, PartialRun
  <2> QED
    BY <1>2, <2>2 DEF UpdateGenesis, GBlock
<1> QED
  BY <1>1, <1>2

LEMMA KeyListsSeq == KeyLists \cup {<<>>} \subseteq Seq(Account)
  BY GenesisAssumption, EmptySeq

(* What sync_state may fetch from P once P has its genesis block: nothing *)
(* (a failed request) or the block.                                        *)
LEMMA FetchedGenesis ==
    ASSUME NEW keys, pchain = <<GBlock(keys)>>
    PROVE  FetchedBlocks \subseteq {<<>>, <<GBlock(keys)>>}
<1>1. Len(pchain) = 1
  OBVIOUS
<1>2. pchain \in Seq({GBlock(keys)})
  OBVIOUS
<1>3. SubSeq(pchain, 1, 0) = <<>>
  BY SubSeqEmpty
<1>4. SubSeq(pchain, 1, Len(pchain)) = pchain
  BY <1>2, SubSeqFull
<1>5. SubSeq(pchain, 1, 1) = pchain
  BY <1>1, <1>4
<1> QED
  BY <1>1, <1>3, <1>5 DEF FetchedBlocks

LEMMA InitGInv == Init => GInv
<1> SUFFICES ASSUME Init PROVE GInv
  OBVIOUS
<1>1. TypeOK
  BY KeyListsSeq DEF Init, TypeOK, EmptyDb, NoSync
<1>2. IsSync(nsync) /\ ~nsync.busy
  BY DEF Init, NoSync, IsSync
<1>3. pdb \in {EmptyDb, InitializeDb(pkeys)}
  BY DEF Init
<1> QED
  BY <1>1, <1>2, <1>3 DEF Init, GInv

LEMMA StepGInv == GInv /\ [Next]_vars => GInv'
<1> SUFFICES ASSUME GInv, [Next]_vars PROVE GInv'
  OBVIOUS
<1> USE KeyListsSeq
<1>0. /\ pkeys \in Seq(Account)
      /\ nsync.busy \in BOOLEAN
      /\ npool \subseteq netTxns
      /\ \A d \in {pdb, ndb, nsync.db} :
           DOMAIN d.state \subseteq Account /\ d.state \in [DOMAIN d.state -> Nat]
  BY DEF GInv, TypeOK
<1> DEFINE G == GBlock(pkeys)  R == Range(GenesisTxns(pkeys))
<1>1. ASSUME NEW keys \in KeyLists, Initialize(keys) PROVE GInv'
  <2>1. pchain = <<>> /\ pkeys = <<>> /\ netTxns = {} /\ netBlocks = {} /\ nchain = <<>>
        /\ ndb = EmptyDb /\ ~nsync.busy
    BY <1>1 DEF Initialize, GInv
  <2>2. nsync = NoSync /\ npool = {}
    BY <2>1, <1>0 DEF GInv
  <2>3. /\ pchain' = <<GBlock(keys)>> /\ pdb' = InitializeDb(keys)
        /\ netBlocks' = {GBlock(keys)} /\ netTxns' = Range(GenesisTxns(keys))
        /\ pkeys' = keys
    BY <1>1 DEF Initialize, GBlock
  <2>4. UNCHANGED <<nchain, ndb, npool, nres, nsync>>
    BY <1>1 DEF Initialize
  <2>5. keys \in Seq(Account)
    OBVIOUS
  <2>6. InitializeDb(keys) \in Partial(keys) /\ EmptyDb \in Partial(keys)
    BY <2>5, InitializeDbType, EmptyPartial
  <2>7. TypeOK'
    BY <2>1, <2>2, <2>3, <2>4, <2>5, InitializeDbType DEF GInv, TypeOK, EmptyDb, NoSync
  <2>8. IsSync(nsync)' /\ ~nsync.busy'
    BY <2>2, <2>4 DEF NoSync, IsSync
  <2> QED
    BY <2>1, <2>2, <2>3, <2>4, <2>6, <2>7, <2>8 DEF GInv
<1>2. ASSUME NEW t \in netTxns, DeliverTxn(t) PROVE GInv'
  BY <1>2 DEF DeliverTxn, GInv, TypeOK
<1>3. ASSUME NEW b \in netBlocks, ApplyGenesis(b) PROVE GInv'
  <2>1. pchain # <<>> /\ b = G /\ nchain = <<>> /\ ~nsync.busy
    <3>1. pchain # <<>> /\ b = G
      BY <1>3 DEF GInv
    <3>2. nchain = <<>>
      BY <1>3, <3>1 DEF ApplyGenesis, GBlock
    <3> QED
      BY <3>1, <3>2, <1>3 DEF ApplyGenesis
  <2>2. /\ nsync = NoSync /\ ndb \in Partial(pkeys) /\ pchain = <<G>>
        /\ netTxns = R /\ pdb = InitializeDb(pkeys)
    BY <2>1, <1>0 DEF GInv
  <2>3. UNCHANGED <<pchain, pdb, pkeys, netTxns, netBlocks>>
    BY <1>3 DEF ApplyGenesis
  <2> DEFINE r == UpdateGenesis(ndb, G, npool)
  <2>4. /\ r.db \in Partial(pkeys)
        /\ R \subseteq npool => r.res = "ok" /\ r.db = InitializeDb(pkeys)
        /\ ~(R \subseteq npool) => r.res = "missing"
    BY <2>2, ReplayGenesis
  <2>5. /\ DOMAIN r.db.state \subseteq Account /\ r.db.state \in [DOMAIN r.db.state -> Nat]
        /\ InitializeDb(pkeys) \in Partial(pkeys)
    BY <2>4, <1>0, PartialType, InitializeDbType
  <2>6. CASE R \subseteq npool
    <3>1. /\ nres' = "ok" /\ ndb' = InitializeDb(pkeys) /\ nchain' = <<G>>
          /\ npool' = npool \ R /\ nsync' = nsync
      BY <1>3, <2>1, <2>4, <2>6 DEF ApplyGenesis, GBlock
    <3>2. TypeOK'
      BY <1>0, <2>1, <2>2, <2>3, <2>5, <3>1 DEF GInv, TypeOK, NoSync, EmptyDb
    <3> QED
      BY <1>0, <2>1, <2>2, <2>3, <2>5, <3>1, <3>2 DEF GInv, NoSync, IsSync
  <2>7. CASE ~(R \subseteq npool)
    <3>1. /\ nres' = "missing" /\ UNCHANGED <<ndb, nchain, npool>>
          /\ \E bs \in FetchedBlocks : \E tx \in FetchedTxns(bs) :
               nsync' = [busy |-> TRUE, chain |-> <<>>, db |-> r.db, todo |-> bs, txns |-> tx]
      BY <1>3, <2>1, <2>4, <2>7 DEF ApplyGenesis, GBlock
    <3>2. PICK bs \in FetchedBlocks : \E tx \in FetchedTxns(bs) :
               nsync' = [busy |-> TRUE, chain |-> <<>>, db |-> r.db, todo |-> bs, txns |-> tx]
      BY <3>1
    <3>3. bs \in {<<>>, <<G>>}
      BY <2>2, FetchedGenesis
    <3>4. IsSync(nsync)' /\ nsync.busy' = TRUE /\ nsync.chain' = <<>> /\ nsync.db' = r.db
          /\ nsync.todo' = bs
      BY <3>2 DEF IsSync
    <3>5. TypeOK'
      BY <1>0, <2>1, <2>2, <2>3, <2>5, <3>1, <3>4 DEF GInv, TypeOK
    <3> QED
      BY <1>0, <2>1, <2>2, <2>3, <2>4, <3>1, <3>3, <3>4, <3>5 DEF GInv
  <2> QED
    BY <2>6, <2>7
<1>4. ASSUME SyncGenesis PROVE GInv'
  <2>1. nsync.busy /\ nsync.todo # <<>>
    BY <1>4 DEF SyncGenesis
  <2>2. /\ nchain = <<>> /\ pchain = <<G>> /\ nsync.db \in Partial(pkeys)
        /\ nsync.todo = <<G>> /\ nsync.chain = <<>> /\ netTxns = R
        /\ ndb \in Partial(pkeys) /\ pdb \in {EmptyDb, InitializeDb(pkeys)}
    BY <2>1 DEF GInv
  <2>3. Head(nsync.todo) = G /\ Tail(nsync.todo) = <<>> /\ Range(G.txns) = R
    BY <2>2 DEF GBlock
  <2> DEFINE pl == npool \cup (R \cap nsync.txns)
             r  == UpdateGenesis(nsync.db, G, pl)
  <2>4. /\ r.db \in Partial(pkeys)
        /\ R \subseteq pl => r.res = "ok" /\ r.db = InitializeDb(pkeys)
        /\ ~(R \subseteq pl) => r.res = "missing"
    BY <2>2, ReplayGenesis
  <2>5. /\ DOMAIN r.db.state \subseteq Account /\ r.db.state \in [DOMAIN r.db.state -> Nat]
        /\ pl \subseteq netTxns
    BY <2>2, <2>4, <1>0, PartialType
  <2>6. UNCHANGED <<pchain, pdb, pkeys, netTxns, netBlocks, nchain, ndb>>
    BY <1>4 DEF SyncGenesis
  <2>7. /\ nres' = r.res
        /\ npool' = IF r.res = "ok" THEN pl \ R ELSE pl
        /\ nsync' = [busy |-> nsync.busy, chain |-> IF r.res = "ok" THEN <<G>> ELSE <<>>,
                      db |-> r.db, todo |-> <<>>, txns |-> nsync.txns]
    <3>1. /\ nres' = r.res
          /\ npool' = IF r.res = "ok" THEN pl \ R ELSE pl
          /\ nsync' = [nsync EXCEPT !.db = r.db,
                                     !.chain = IF r.res = "ok" THEN Append(nsync.chain, G) ELSE nsync.chain,
                                     !.todo = IF r.res = "ok" THEN Tail(nsync.todo) ELSE <<>>]
      BY <1>4, <2>3 DEF SyncGenesis
    <3>2. Append(nsync.chain, G) = <<G>>
      BY <2>2
    <3>3. nsync = [busy |-> nsync.busy, chain |-> nsync.chain, db |-> nsync.db,
                   todo |-> nsync.todo, txns |-> nsync.txns]
      BY DEF GInv, IsSync
    <3> QED
      BY <3>1, <3>2, <3>3, <2>2, <2>3, Zenon
  <2>8. /\ IsSync(nsync)' /\ nsync.busy' = TRUE /\ nsync.db' = r.db /\ nsync.todo' = <<>>
        /\ nsync.chain' = IF r.res = "ok" THEN <<G>> ELSE <<>>
    BY <2>1, <2>7 DEF GInv, IsSync
  <2>9. TypeOK'
    BY <1>0, <2>2, <2>4, <2>5, <2>6, <2>7, <2>8 DEF GInv, TypeOK
  <2> QED
    BY <1>0, <2>2, <2>4, <2>6, <2>7, <2>8, <2>9 DEF GInv
<1>5. ASSUME SyncGenesisDone PROVE GInv'
  <2>1. nsync.busy /\ nsync.todo = <<>>
    BY <1>5 DEF SyncGenesisDone
  <2>2. /\ pchain = <<G>> /\ nsync.db \in Partial(pkeys)
        /\ nsync.chain # <<>> => nsync.db = InitializeDb(pkeys) /\ nsync.chain = <<G>>
        /\ nsync.chain = <<>> \/ nsync.chain = <<G>>
    BY <2>1 DEF GInv
  <2>3. /\ ndb' = nsync.db /\ nchain' = nsync.chain /\ nsync' = NoSync
        /\ UNCHANGED <<pchain, pdb, pkeys, netTxns, netBlocks, npool, nres>>
    BY <1>5 DEF SyncGenesisDone
  <2>4. IsSync(nsync)' /\ ~nsync.busy'
    BY <2>3 DEF NoSync, IsSync
  <2>5. Len(nchain') <= 1
    <3>1. CASE nsync.chain = <<>>
      BY <2>3, <3>1
    <3>2. CASE nsync.chain = <<G>>
      BY <2>3, <3>2
    <3> QED
      BY <2>2, <3>1, <3>2
  <2>6. TypeOK'
    BY <1>0, <2>3, <2>5 DEF GInv, TypeOK, NoSync, EmptyDb
  <2> QED
    BY <2>2, <2>3, <2>4, <2>6 DEF GInv
<1>6. CASE UNCHANGED vars
  BY <1>6 DEF vars, GInv, TypeOK, IsSync
<1> QED
  BY <1>1, <1>2, <1>3, <1>4, <1>5, <1>6 DEF Next

(* Type correctness of the genesis path, sync and merge included.          *)
THEOREM TypeCorrect == Spec => []TypeOK
  <1>1. GInv => TypeOK
    BY DEF GInv
  <1> QED
    BY InitGInv, StepGInv, <1>1, PTL DEF Spec

(* Genesis is deterministic: whatever genesis transactions N holds when    *)
(* its applier or a later sync_state runs update_block on P's genesis      *)
(* block, and whatever an earlier failed call left in the fork that is     *)
(* replayed or merged, the header check never fails                        *)
(* (ReplayNeverMismatches), for every key list and amount.  It rests on    *)
(* PartialRun: a replay over partial genesis writes lands on initialize_db's*)
(* tries, because each put replaces the wallet.                            *)
THEOREM ReplayDeterministic == Spec => []ReplayNeverMismatches
  <1>1. GInv => ReplayNeverMismatches
    BY DEF GInv, ReplayNeverMismatches
  <1> QED
    BY InitGInv, StepGInv, <1>1, PTL DEF Spec

(* What initialize_db does to a key listed several times (the              *)
(* genesis_duplicate_key finding, for every key list and amount): every     *)
(* address of the list ends with exactly one GenesisAmount, however often   *)
(* it is listed, because each genesis transaction replaces the wallet.      *)
THEOREM GenesisCreditsOnce ==
    Spec => [](pchain # <<>> => \A a \in Range(pkeys) : pdb.state[a] = GenesisAmount)
  <1>1. ASSUME NEW keys \in Seq(Account), NEW a \in Range(keys)
        PROVE  InitializeDb(keys).state[a] = GenesisAmount
    <2>1. PICK i \in DOMAIN keys : keys[i] = a
      BY DEF Range
    <2> DEFINE t == GenesisTxns(keys)[i]
    <2>2. t \in Range(GenesisTxns(keys)) /\ t.to = a
      BY <2>1 DEF GenesisTxns, Range
    <2>3. a \in {u.to : u \in Range(GenesisTxns(keys))}
      BY <2>2
    <2> QED
      BY <2>3 DEF InitializeDb, GenesisRun, ExecuteGenesis
  <1>2. GInv => (pchain # <<>> => \A a \in Range(pkeys) : pdb.state[a] = GenesisAmount)
    BY <1>1, KeyListsSeq DEF GInv, TypeOK
  <1> QED
    BY InitGInv, StepGInv, <1>2, PTL DEF Spec
=============================================================================
