---------------------------- MODULE Node_proofs ----------------------------
(***************************************************************************)
(* Proofs about the node model (Node.tla): what N commits is always a      *)
(* prefix of the proposer's chain.  This part of CommittedMatchesProposer  *)
(* rests only on the height and prev checks of update_block, not on what   *)
(* its transaction loop computes, so it holds for every BlockCap, the 15   *)
(* of the code included, although with more than one transaction per      *)
(* block the tries N merges may disagree with the header (finding 2).     *)
(***************************************************************************)
EXTENDS Node, SequenceTheorems, WellFoundedInduction, TLAPS

\* The blocks the proposer has built.
PBlocks == Range(pchain)

\* c is a sequence of the proposer's blocks.
IsPSeq(c) == c \in Seq(PBlocks)

\* c is the proposer's chain up to some height.
IsPrefix(c) == IsPSeq(c) /\ Len(c) <= Len(pchain) /\ c = SubSeq(pchain, 1, Len(c))

\* A database value: a record of a chain and two tries.
IsDbRec(d) == d = [chain |-> d.chain, state |-> d.state, ttrie |-> d.ttrie]

(* N's committed chain is a prefix of the proposer's chain: every block    *)
(* update_block appended, on any fork that patch_db merged, is the         *)
(* proposer's block of that height.                                        *)
CommittedIsPrefix ==
    Len(db.chain) <= Len(pchain) /\ db.chain = SubSeq(pchain, 1, Len(db.chain))

\* The inductive invariant: the proposer's block i has id i - 1; every block
\* gossip, the queue, the held block and a sync hand to update_block is one
\* of the proposer's blocks; db and the sync's fork hold prefixes.
ChainInv ==
    /\ pchain \in Seq(PBlocks) /\ Len(pchain) >= 1
    /\ \A i \in DOMAIN pchain : pchain[i].id = i - 1
    /\ netBlocks \subseteq PBlocks
    /\ IsPSeq(pending) /\ IsPSeq(held)
    /\ sync = [idle |-> sync.idle, todo |-> sync.todo, fork |-> sync.fork, txns |-> sync.txns]
    /\ IsPSeq(sync.todo)
    /\ IsDbRec(db) /\ IsPrefix(db.chain)
    /\ IsDbRec(sync.fork) /\ IsPrefix(sync.fork.chain)

-----------------------------------------------------------------------------
(* Lemmas about the operators.                                             *)

(* update_block leaves a database record a database record; on success it *)
(* has appended b, which has the fork's length as id, and on failure the  *)
(* fork's chain is the one it was called with, whatever the transaction    *)
(* loop wrote to the tries.                                                *)
LEMMA UpdateBlockChain ==
    ASSUME NEW fk, IsDbRec(fk), NEW b, NEW pl
    PROVE  LET r == UpdateBlock(fk, b, pl)
           IN  /\ IsDbRec(r.fork)
               /\ r.ok => b.id = Len(fk.chain) /\ r.fork.chain = Append(fk.chain, b)
               /\ ~r.ok => r.fork.chain = fk.chain
BY DEF UpdateBlock, IsDbRec

(* Appending the proposer's block whose id is the length of a prefix       *)
(* gives the next prefix.                                                  *)
LEMMA PrefixAppend ==
    ASSUME pchain \in Seq(PBlocks),
           \A i \in DOMAIN pchain : pchain[i].id = i - 1,
           NEW c, IsPrefix(c), NEW b \in PBlocks, b.id = Len(c)
    PROVE  IsPrefix(Append(c, b))
<1>1. PICK j \in 1..Len(pchain) : b = pchain[j]
  BY DEF PBlocks, Range
<1>2. j = Len(c) + 1
  BY <1>1 DEF IsPrefix, IsPSeq
<1> QED
  BY <1>1, <1>2 DEF IsPrefix, IsPSeq

(* The empty chain of NoSync's fork is a prefix.                           *)
LEMMA EmptyPrefix ==
    ASSUME pchain \in Seq(PBlocks)
    PROVE  IsPrefix(<<>>)
BY DEF IsPrefix, IsPSeq

(* When the proposer appends a block, what was a prefix, or a sequence of  *)
(* its blocks, still is.                                                   *)
LEMMA ProposeKeeps ==
    ASSUME pchain \in Seq(PBlocks), NEW b, pchain' = Append(pchain, b)
    PROVE  /\ PBlocks' = PBlocks \cup {b}
           /\ \A c : IsPSeq(c) => IsPSeq(c)'
           /\ \A c : IsPrefix(c) => IsPrefix(c)'
<1>1. PBlocks' = PBlocks \cup {b}
  BY DEF PBlocks, Range
<1>2. \A c : IsPSeq(c) => IsPSeq(c)'
  BY <1>1 DEF IsPSeq
<1>3. \A c : IsPrefix(c) => IsPrefix(c)'
  BY <1>1 DEF IsPrefix, IsPSeq
<1> QED
  BY <1>1, <1>2, <1>3

-----------------------------------------------------------------------------
(* The invariant.                                                          *)

LEMMA InitChainInv == Init => ChainInv
<1> SUFFICES ASSUME Init PROVE ChainInv
  OBVIOUS
<1>1. PBlocks = {Genesis}
  BY DEF Init, PBlocks, Range
<1>2. pchain \in Seq(PBlocks) /\ Len(pchain) >= 1
  BY <1>1 DEF Init
<1>3. IsPrefix(db.chain)
  BY <1>1, <1>2 DEF Init, IsPrefix, IsPSeq
<1>4. IsPrefix(sync.fork.chain)
  BY <1>2, EmptyPrefix DEF Init, NoSync
<1>5. \A i \in DOMAIN pchain : pchain[i].id = i - 1
  BY DEF Init, Genesis
<1>6. IsPSeq(pending) /\ IsPSeq(held) /\ IsPSeq(sync.todo)
  BY DEF Init, IsPSeq, NoSync
<1>7. netBlocks \subseteq PBlocks
  BY DEF Init
<1>8. IsDbRec(db) /\ IsDbRec(sync.fork)
  BY DEF Init, IsDbRec, NoSync
<1>9. sync = [idle |-> sync.idle, todo |-> sync.todo, fork |-> sync.fork, txns |-> sync.txns]
  BY DEF Init, NoSync
<1> QED
  BY <1>2, <1>3, <1>4, <1>5, <1>6, <1>7, <1>8, <1>9 DEF ChainInv

\* The head of a non-empty sequence of the proposer's blocks is one of them,
\* and its tail is a sequence of them.
LEMMA HeadTail ==
    ASSUME NEW c, IsPSeq(c), c # <<>>
    PROVE  Head(c) \in PBlocks /\ IsPSeq(Tail(c))
BY DEF IsPSeq

(* update_block on a fork holding a prefix, with one of the proposer's    *)
(* blocks, returns a fork holding a prefix.                                *)
LEMMA UpdateBlockPrefix ==
    ASSUME pchain \in Seq(PBlocks),
           \A i \in DOMAIN pchain : pchain[i].id = i - 1,
           NEW fk, IsDbRec(fk), IsPrefix(fk.chain), NEW b \in PBlocks, NEW pl
    PROVE  IsDbRec(UpdateBlock(fk, b, pl).fork) /\ IsPrefix(UpdateBlock(fk, b, pl).fork.chain)
<1> DEFINE r == UpdateBlock(fk, b, pl)
<1>1. IsDbRec(r.fork)
  BY UpdateBlockChain
<1>2. CASE r.ok
  <2>1. b.id = Len(fk.chain) /\ r.fork.chain = Append(fk.chain, b)
    BY <1>2, UpdateBlockChain
  <2>2. IsPrefix(Append(fk.chain, b))
    BY <2>1, PrefixAppend
  <2> QED
    BY <1>1, <2>1, <2>2
<1>3. CASE ~r.ok
  <2>1. r.fork.chain = fk.chain
    BY <1>3, UpdateBlockChain
  <2> QED
    BY <1>1, <2>1
<1> QED
  BY <1>1, <1>2, <1>3

LEMMA ChainStep == ChainInv /\ [Next]_vars => ChainInv'
<1> SUFFICES ASSUME ChainInv, [Next]_vars PROVE ChainInv'
  OBVIOUS
<1> USE DEF ChainInv
<1>1. ASSUME NEW t \in Txn, Submit(t) \/ DeliverTxn(t) PROVE ChainInv'
  BY <1>1 DEF Submit, DeliverTxn, PBlocks, IsPSeq, IsPrefix, IsDbRec
<1>2. CASE Propose
  <2> DEFINE b == CreateBlock(pchain, ppool)
  <2>1. pchain' = Append(pchain, b) /\ netBlocks' = netBlocks \cup {b}
        /\ UNCHANGED <<db, pending, sync, held>>
    BY <1>2 DEF Propose
  <2>2. b.id = Len(pchain)
    BY DEF CreateBlock
  <2>3. PBlocks' = PBlocks \cup {b}
    BY <2>1, ProposeKeeps
  <2>4. pchain' \in Seq(PBlocks') /\ Len(pchain') >= 1
    BY <2>1, <2>3
  <2>5. \A i \in DOMAIN pchain' : pchain'[i].id = i - 1
    BY <2>1, <2>2
  <2>6. IsPSeq(pending)' /\ IsPSeq(held)' /\ IsPSeq(sync.todo)'
    BY <2>1, ProposeKeeps
  <2>7. IsPrefix(db.chain)' /\ IsPrefix(sync.fork.chain)'
    BY <2>1, ProposeKeeps
  <2> QED
    BY <2>1, <2>3, <2>4, <2>5, <2>6, <2>7 DEF IsDbRec
<1>3. ASSUME NEW b \in netBlocks, DeliverBlock(b) PROVE ChainInv'
  <2>1. b \in PBlocks
    BY <1>3
  <2>2. UNCHANGED <<pchain, netBlocks, db, sync>>
    BY <1>3 DEF DeliverBlock
  <2>3. IsPSeq(pending') /\ IsPSeq(held')
    <3>1. CASE pending' = Append(pending, b) /\ UNCHANGED held
      BY <3>1, <2>1 DEF IsPSeq
    <3>2. CASE held' = <<b>> /\ UNCHANGED pending
      BY <3>2, <2>1 DEF IsPSeq
    <3> QED
      BY <1>3, <3>1, <3>2 DEF DeliverBlock
  <2> QED
    BY <2>2, <2>3 DEF PBlocks, IsPSeq, IsPrefix, IsDbRec
<1>4. CASE ApplyHead
  <2>1. Head1 \in PBlocks /\ IsPSeq(Tail(pending))
    BY <1>4, HeadTail DEF ApplyHead, Head1
  <2>2. IsDbRec(Tried.fork) /\ IsPrefix(Tried.fork.chain)
    BY <2>1, UpdateBlockPrefix DEF Tried
  <2>3. IsDbRec(db') /\ IsPrefix(db'.chain)
    BY <1>4, <2>2 DEF ApplyHead, Merged
  <2> QED
    BY <1>4, <2>1, <2>3 DEF ApplyHead, PBlocks, IsPSeq, IsPrefix
<1>5. CASE DropStale
  BY <1>5, HeadTail DEF DropStale, PBlocks, IsPSeq, IsPrefix, IsDbRec
<1>6. CASE ResyncHead
  <2>1. Head1 \in PBlocks
    BY <1>6, HeadTail DEF ResyncHead, Head1
  <2>2. IsDbRec(Tried.fork) /\ IsPrefix(Tried.fork.chain)
    BY <2>1, UpdateBlockPrefix DEF Tried
  <2>3. PICK bs \in FetchedBlocks(Len(Tried.fork.chain)) :
          \E tx \in FetchedTxns(bs) :
             sync' = [idle |-> FALSE, todo |-> bs, fork |-> Tried.fork, txns |-> tx]
    BY <1>6 DEF ResyncHead
  <2>4. IsPSeq(bs)
    <3>1. Len(Tried.fork.chain) \in 0..Len(pchain)
      BY <2>2 DEF IsPrefix, IsPSeq
    <3> DEFINE n == Len(Tried.fork.chain)
    <3>2. bs \in {SubSeq(pchain, n + 1, m) : m \in n..Len(pchain)}
      <4>1. CASE FetchMayFail
        BY <2>3, <4>1 DEF FetchedBlocks
      <4>2. CASE ~FetchMayFail
        <5>0. FetchedBlocks(n) = {SubSeq(pchain, n + 1, m) : m \in {Len(pchain)}}
          BY <4>2 DEF FetchedBlocks
        <5>1. bs = SubSeq(pchain, n + 1, Len(pchain))
          BY <2>3, <5>0, Zenon
        <5>2. Len(pchain) \in n..Len(pchain)
          BY <3>1
        <5> QED
          BY <5>1, <5>2
      <4> QED
        BY <4>1, <4>2
    <3>3. PICK m \in n..Len(pchain) : bs = SubSeq(pchain, n + 1, m)
      BY <3>2
    <3> QED
      BY <3>1, <3>3 DEF IsPSeq
  <2> QED
    BY <1>6, <2>2, <2>3, <2>4 DEF ResyncHead, PBlocks, IsPSeq, IsPrefix, IsDbRec
<1>7. CASE SyncApply
  <2> DEFINE b  == Head(sync.todo)
             pl == InsertFetched(pool, b.txns, sync.txns)
             r  == UpdateBlock(sync.fork, b, pl)
  <2>1. b \in PBlocks /\ IsPSeq(Tail(sync.todo))
    BY <1>7, HeadTail DEF SyncApply
  <2>2. IsDbRec(r.fork) /\ IsPrefix(r.fork.chain)
    BY <2>1, UpdateBlockPrefix
  <2>3. sync' = [sync EXCEPT !.fork = r.fork, !.todo = IF r.ok THEN Tail(sync.todo) ELSE <<>>]
    BY <1>7 DEF SyncApply
  <2>4. IsPSeq(IF r.ok THEN Tail(sync.todo) ELSE <<>>)
    BY <2>1 DEF IsPSeq
  <2> QED
    BY <1>7, <2>2, <2>3, <2>4 DEF SyncApply, PBlocks, IsPSeq, IsPrefix, IsDbRec
<1>8. CASE SyncDone
  <2>1. IsPSeq(Tail(pending) \o held)
    <3>1. CASE pending = <<>>
      BY <3>1 DEF IsPSeq
    <3>2. CASE pending # <<>>
      BY <3>2, HeadTail DEF IsPSeq
    <3> QED
      BY <3>1, <3>2
  <2>2. IsPrefix(<<>>)
    BY EmptyPrefix
  <2> QED
    BY <1>8, <2>1, <2>2 DEF SyncDone, Merged, NoSync, PBlocks, IsPSeq, IsPrefix, IsDbRec
<1>9. CASE UNCHANGED vars
  BY <1>9 DEF vars, PBlocks, IsPSeq, IsPrefix, IsDbRec
<1> QED
  BY <1>1, <1>2, <1>3, <1>4, <1>5, <1>6, <1>7, <1>8, <1>9 DEF Next, Applier

(* For every set of transactions and accounts, every block cap and every   *)
(* bound, whatever gossip delivers, repeats or loses, whichever fetches    *)
(* and merges fail and however the applier's update_block, sync_state and  *)
(* patch_db interleave with the message loop, N's committed chain is       *)
(* always the proposer's chain up to some height.                          *)
THEOREM CommittedPrefixInvariant == Spec => []CommittedIsPrefix
<1>1. ChainInv => CommittedIsPrefix
  BY DEF ChainInv, CommittedIsPrefix, IsPrefix
<1> QED
  BY InitChainInv, ChainStep, <1>1, PTL DEF Spec

-----------------------------------------------------------------------------
(* The transaction loops.                                                  *)

\* A typed accumulator of execute_transactions.
ExecAcc == [txns : Seq(Txn), state : [Account -> Nat]]

\* One iteration of execute_transactions' loop, as in ExecuteTransactions.
ExecStep(acc, k, p) ==
    LET t == p.order[k - 1]
    IN  IF /\ k - 1 \in DOMAIN p.order
           /\ Len(acc.txns) < BlockCap
           /\ Executes(acc.state, t)
        THEN [txns |-> Append(acc.txns, t), state |-> Transfer(acc.state, t)]
        ELSE acc

\* The recursive function of ExecuteTransactions, written out.
ExecFcn(st, p) ==
    CHOOSE f : f = [k \in 0..MaxStamp + 1 |->
                      IF k = 0 THEN [txns |-> <<>>, state |-> st]
                      ELSE ExecStep(f[k - 1], k, p)]

LEMMA ExecuteTransactionsIsFcn ==
    ASSUME NEW st, NEW p
    PROVE  ExecuteTransactions(st, p) = ExecFcn(st, p)[MaxStamp + 1]
BY DEF ExecuteTransactions, ExecFcn, ExecStep

(* A non-empty set of naturals has a least element: < is well-founded on  *)
(* Nat.  The proofs about loops below take the first iteration at which a *)
(* claim would fail.                                                       *)
LEMMA LeastNat ==
    ASSUME NEW T \in SUBSET Nat, T # {}
    PROVE  \E x \in T : \A y \in T : ~(y < x)
<1>1. \E x \in T : \A y \in T : ~(<<y, x>> \in OpToRel(<, Nat))
  BY NatLessThanWellFounded, WFMin
<1> QED
  BY <1>1 DEF OpToRel

(* The recursive function of execute_transactions exists: a prefix of it  *)
(* on 0..n extends to 0..n + 1 by one more iteration.                      *)
LEMMA ExecFcnFixed ==
    ASSUME NEW st, NEW p
    PROVE  ExecFcn(st, p) = [k \in 0..MaxStamp + 1 |->
                               IF k = 0 THEN [txns |-> <<>>, state |-> st]
                               ELSE ExecStep(ExecFcn(st, p)[k - 1], k, p)]
<1> DEFINE Z == [txns |-> <<>>, state |-> st]
           Fix(g, n) == g = [k \in 0..n |-> IF k = 0 THEN Z ELSE ExecStep(g[k - 1], k, p)]
           Bad == {n \in Nat : ~\E g : Fix(g, n)}
<1>1. Bad = {}
  <2> SUFFICES ASSUME Bad # {} PROVE FALSE
    OBVIOUS
  <2>1. PICK n0 \in Bad : \A y \in Bad : ~(y < n0)
    BY LeastNat
  <2>2. n0 # 0
    <3>1. Fix([k \in 0..0 |-> Z], 0)
      OBVIOUS
    <3> QED
      BY <3>1, <2>1
  <2>3. PICK g : Fix(g, n0 - 1)
    <3>1. n0 - 1 \in Nat /\ n0 - 1 < n0
      BY <2>1, <2>2
    <3> QED
      BY <3>1, <2>1
  <2> DEFINE h == [k \in 0..n0 |-> IF k < n0 THEN g[k] ELSE ExecStep(g[n0 - 1], n0, p)]
  <2>4. Fix(h, n0)
    <3>1. \A k \in 0..n0 : h[k] = IF k = 0 THEN Z ELSE ExecStep(h[k - 1], k, p)
      <4> TAKE k \in 0..n0
      <4>1. CASE k = 0
        BY <4>1, <2>2, <2>3, <2>1
      <4>2. CASE k # 0 /\ k < n0
        BY <4>2, <2>3, <2>1
      <4>3. CASE k = n0
        BY <4>3, <2>2, <2>1
      <4> QED
        BY <4>1, <4>2, <4>3, <2>1
    <3> QED
      BY <3>1
  <2> QED
    BY <2>1, <2>4
<1>2. \E f : Fix(f, MaxStamp + 1)
  BY <1>1, BoundsAssumption
<1> QED
  BY <1>2 DEF ExecFcn

(* A transfer that executes leaves every balance a natural: the sender    *)
(* had at least the amount (deduct_balance does not underflow).            *)
LEMMA TransferType ==
    ASSUME NEW st \in [Account -> Nat], NEW t \in Txn, Executes(st, t)
    PROVE  Transfer(st, t) \in [Account -> Nat]
BY AccountAssumption DEF Transfer, Executes

LEMMA ExecStepType ==
    ASSUME NEW acc \in ExecAcc, NEW k \in 1..MaxStamp + 1, NEW p, TP!IsPool(p)
    PROVE  ExecStep(acc, k, p) \in ExecAcc
<1> DEFINE t == p.order[k - 1]
<1>1. CASE /\ k - 1 \in DOMAIN p.order
           /\ Len(acc.txns) < BlockCap
           /\ Executes(acc.state, t)
  <2>1. t \in Txn
    BY <1>1 DEF TP!IsPool
  <2>2. Transfer(acc.state, t) \in [Account -> Nat]
    BY <1>1, <2>1, TransferType DEF ExecAcc
  <2> QED
    BY <1>1, <2>1, <2>2 DEF ExecStep, ExecAcc
<1>2. CASE ~(/\ k - 1 \in DOMAIN p.order
             /\ Len(acc.txns) < BlockCap
             /\ Executes(acc.state, t))
  BY <1>2 DEF ExecStep
<1> QED
  BY <1>1, <1>2

(* execute_transactions returns a list of transactions and a state whose  *)
(* balances are naturals.                                                  *)
LEMMA ExecuteTransactionsType ==
    ASSUME NEW st \in [Account -> Nat], NEW p, TP!IsPool(p)
    PROVE  ExecuteTransactions(st, p) \in ExecAcc
<1> DEFINE F == ExecFcn(st, p)
           Bad == {k \in 0..MaxStamp + 1 : F[k] \notin ExecAcc}
<1>0. MaxStamp + 1 \in Nat
  BY BoundsAssumption
<1>1. Bad = {}
  <2> SUFFICES ASSUME Bad # {} PROVE FALSE
    OBVIOUS
  <2>0. Bad \in SUBSET Nat
    BY <1>0
  <2>1. PICK k \in Bad : \A y \in Bad : ~(y < k)
    BY <2>0, LeastNat
  <2>2. CASE k = 0
    <3>1. F[0] = [txns |-> <<>>, state |-> st]
      BY <1>0, ExecFcnFixed
    <3>2. <<>> \in Seq(Txn)
      BY EmptySeq
    <3>3. F[0] \in ExecAcc
      BY <3>1, <3>2 DEF ExecAcc
    <3> QED
      BY <2>1, <2>2, <3>3
  <2>3. CASE k # 0
    <3>0. k \in 1..MaxStamp + 1
      BY <2>0, <2>1, <2>3
    <3>1. k - 1 \notin Bad
      BY <2>1, <3>0
    <3>2. F[k - 1] \in ExecAcc
      <4>1. k - 1 \in 0..MaxStamp + 1
        BY <3>0, <1>0
      <4> QED
        BY <3>1, <4>1, Zenon
    <3>3. F[k] = ExecStep(F[k - 1], k, p)
      <4>1. F = [j \in 0..MaxStamp + 1 |->
                   IF j = 0 THEN [txns |-> <<>>, state |-> st]
                   ELSE ExecStep(F[j - 1], j, p)]
        BY ExecFcnFixed
      <4>2. k # 0
        BY <3>0, <1>0
      <4> QED
        BY <3>0, <4>1, <4>2
    <3> QED
      BY <2>1, <3>0, <3>2, <3>3, ExecStepType
  <2> QED
    BY <2>2, <2>3
<1> QED
  BY <1>0, <1>1, ExecuteTransactionsIsFcn

\* A typed accumulator of update_block's transaction loop.
RunAcc == [ok : BOOLEAN, state : [Account -> Nat], ttrie : SUBSET Txn]

\* One iteration of update_block's loop, as in RunTxns.
RunStep(acc, i, s, pl) ==
    LET t == s[i]
    IN  IF ~acc.ok THEN acc
        ELSE IF ~TP!Get(pl, t) THEN [acc EXCEPT !.ok = FALSE]
        ELSE IF Executes(acc.state, t)
             THEN [ok |-> TRUE, state |-> Transfer(acc.state, t),
                   ttrie |-> acc.ttrie \cup {t}]
             ELSE [acc EXCEPT !.ok = FALSE, !.ttrie = @ \cup {t}]

\* The recursive function of RunTxns, written out.
RunFcn(fk, s, pl) ==
    CHOOSE f : f = [i \in 0..Len(s) |->
                      IF i = 0 THEN [ok |-> TRUE, state |-> fk.state, ttrie |-> fk.ttrie]
                      ELSE RunStep(f[i - 1], i, s, pl)]

LEMMA RunTxnsIsFcn ==
    ASSUME NEW fk, NEW s, NEW pl
    PROVE  RunTxns(fk, s, pl) = RunFcn(fk, s, pl)[Len(s)]
BY DEF RunTxns, RunFcn, RunStep

(* The recursive function of update_block's loop exists.                   *)
LEMMA RunFcnFixed ==
    ASSUME NEW fk, NEW s \in Seq(Txn), NEW pl
    PROVE  RunFcn(fk, s, pl) = [i \in 0..Len(s) |->
                                  IF i = 0 THEN [ok |-> TRUE, state |-> fk.state, ttrie |-> fk.ttrie]
                                  ELSE RunStep(RunFcn(fk, s, pl)[i - 1], i, s, pl)]
<1> DEFINE Z == [ok |-> TRUE, state |-> fk.state, ttrie |-> fk.ttrie]
           Fix(g, n) == g = [k \in 0..n |-> IF k = 0 THEN Z ELSE RunStep(g[k - 1], k, s, pl)]
           Bad == {n \in Nat : ~\E g : Fix(g, n)}
<1>1. Bad = {}
  <2> SUFFICES ASSUME Bad # {} PROVE FALSE
    OBVIOUS
  <2>1. PICK n0 \in Bad : \A y \in Bad : ~(y < n0)
    BY LeastNat
  <2>2. n0 # 0
    <3>1. Fix([k \in 0..0 |-> Z], 0)
      OBVIOUS
    <3> QED
      BY <3>1, <2>1
  <2>3. PICK g : Fix(g, n0 - 1)
    <3>1. n0 - 1 \in Nat /\ n0 - 1 < n0
      BY <2>1, <2>2
    <3> QED
      BY <3>1, <2>1
  <2> DEFINE h == [k \in 0..n0 |-> IF k < n0 THEN g[k] ELSE RunStep(g[n0 - 1], n0, s, pl)]
  <2>4. Fix(h, n0)
    <3>1. \A k \in 0..n0 : h[k] = IF k = 0 THEN Z ELSE RunStep(h[k - 1], k, s, pl)
      <4> TAKE k \in 0..n0
      <4>1. CASE k = 0
        BY <4>1, <2>2, <2>3, <2>1
      <4>2. CASE k # 0 /\ k < n0
        <5>1. h[k] = g[k] /\ h[k - 1] = g[k - 1]
          BY <4>2, <2>1
        <5>2. g[k] = RunStep(g[k - 1], k, s, pl)
          <6>1. k \in 0..n0 - 1 /\ k # 0
            BY <4>2, <2>1
          <6> QED
            BY <6>1, <2>3, Zenon
        <5> QED
          BY <4>2, <5>1, <5>2
      <4>3. CASE k = n0
        BY <4>3, <2>2, <2>1
      <4> QED
        BY <4>1, <4>2, <4>3, <2>1
    <3> QED
      BY <3>1
  <2> QED
    BY <2>1, <2>4
<1>2. \E f : Fix(f, Len(s))
  BY <1>1
<1> QED
  BY <1>2 DEF RunFcn

(* An iteration of update_block's loop over a hash of the block keeps the *)
(* balances naturals and the transactions trie a set of transactions.     *)
LEMMA RunStepType ==
    ASSUME NEW acc \in RunAcc, NEW s \in Seq(Txn), NEW i \in 1..Len(s), NEW pl
    PROVE  RunStep(acc, i, s, pl) \in RunAcc
<1> DEFINE t == s[i]
<1>0. t \in Txn
  OBVIOUS
<1>1. CASE ~acc.ok
  BY <1>1 DEF RunStep
<1>2. CASE acc.ok /\ ~TP!Get(pl, t)
  <2>1. [acc EXCEPT !.ok = FALSE] \in RunAcc
    BY DEF RunAcc
  <2> QED
    BY <1>2, <2>1 DEF RunStep
<1>3. CASE acc.ok /\ TP!Get(pl, t) /\ Executes(acc.state, t)
  <2>1. Transfer(acc.state, t) \in [Account -> Nat]
    BY <1>0, <1>3, TransferType DEF RunAcc
  <2>2. [ok |-> TRUE, state |-> Transfer(acc.state, t), ttrie |-> acc.ttrie \cup {t}] \in RunAcc
    BY <1>0, <2>1 DEF RunAcc
  <2> QED
    BY <1>3, <2>2 DEF RunStep
<1>4. CASE acc.ok /\ TP!Get(pl, t) /\ ~Executes(acc.state, t)
  <2>1. [acc EXCEPT !.ok = FALSE, !.ttrie = @ \cup {t}] \in RunAcc
    BY <1>0 DEF RunAcc
  <2> QED
    BY <1>4, <2>1 DEF RunStep
<1> QED
  BY <1>1, <1>2, <1>3, <1>4

(* update_block's loop, from a fork with natural balances and a set of    *)
(* transactions as trie, ends in such a state whether it stops early or   *)
(* not.                                                                    *)
LEMMA RunTxnsType ==
    ASSUME NEW fk, fk.state \in [Account -> Nat], fk.ttrie \subseteq Txn,
           NEW s \in Seq(Txn), NEW pl
    PROVE  RunTxns(fk, s, pl) \in RunAcc
<1> DEFINE F == RunFcn(fk, s, pl)
           Bad == {k \in 0..Len(s) : F[k] \notin RunAcc}
<1>1. Bad = {}
  <2> SUFFICES ASSUME Bad # {} PROVE FALSE
    OBVIOUS
  <2>0. Bad \in SUBSET Nat
    OBVIOUS
  <2>1. PICK k \in Bad : \A y \in Bad : ~(y < k)
    BY <2>0, LeastNat
  <2>2. CASE k = 0
    <3>1. F[0] = [ok |-> TRUE, state |-> fk.state, ttrie |-> fk.ttrie]
      BY RunFcnFixed
    <3>2. F[0] \in RunAcc
      BY <3>1 DEF RunAcc
    <3> QED
      BY <2>1, <2>2, <3>2
  <2>3. CASE k # 0
    <3>0. k \in 1..Len(s)
      BY <2>1, <2>3
    <3>1. k - 1 \notin Bad
      BY <2>1, <3>0
    <3>2. F[k - 1] \in RunAcc
      <4>1. k - 1 \in 0..Len(s)
        BY <3>0
      <4> QED
        BY <3>1, <4>1, Zenon
    <3>3. F[k] = RunStep(F[k - 1], k, s, pl)
      <4>1. F = [j \in 0..Len(s) |->
                   IF j = 0 THEN [ok |-> TRUE, state |-> fk.state, ttrie |-> fk.ttrie]
                   ELSE RunStep(F[j - 1], j, s, pl)]
        BY RunFcnFixed
      <4>2. k # 0
        BY <3>0
      <4> QED
        BY <3>0, <4>1, <4>2
    <3> QED
      BY <2>1, <3>0, <3>2, <3>3, RunStepType
  <2> QED
    BY <2>2, <2>3
<1>2. Len(s) \in 0..Len(s)
  OBVIOUS
<1> QED
  BY <1>1, <1>2, RunTxnsIsFcn, Zenon


(* insert_op and sync_pool keep POOL a pair of well-formed maps.           *)
LEMMA InsertOpIsPool ==
    ASSUME NEW q, TP!IsPool(q), NEW t \in Txn, TP!ParseOk(t)
    PROVE  TP!IsPool(TP!InsertOp(q, Stamp[t], t))
BY StampAssumption DEF TP!IsPool, TP!InsertOp, TP!ParseOk

LEMMA SyncPoolIsPool ==
    ASSUME NEW q, TP!IsPool(q), NEW hs
    PROVE  TP!IsPool(TP!SyncPool(q, hs))
BY DEF TP!IsPool, TP!SyncPool

\* One iteration of sync_state's pre-population loop, as in InsertFetched.
InsStep(q, i, s, fetched) ==
    IF s[i] \in fetched /\ TP!ParseOk(s[i])
    THEN TP!InsertOp(q, Stamp[s[i]], s[i])
    ELSE q

\* The recursive function of InsertFetched, written out.
InsFcn(pl, s, fetched) ==
    CHOOSE f : f = [i \in 0..Len(s) |->
                      IF i = 0 THEN pl ELSE InsStep(f[i - 1], i, s, fetched)]

LEMMA InsertFetchedIsFcn ==
    ASSUME NEW pl, NEW s, NEW fetched
    PROVE  InsertFetched(pl, s, fetched) = InsFcn(pl, s, fetched)[Len(s)]
BY DEF InsertFetched, InsFcn, InsStep

(* The recursive function of the pre-population loop exists.               *)
LEMMA InsFcnFixed ==
    ASSUME NEW pl, NEW s \in Seq(Txn), NEW fetched
    PROVE  InsFcn(pl, s, fetched) = [i \in 0..Len(s) |->
                                       IF i = 0 THEN pl
                                       ELSE InsStep(InsFcn(pl, s, fetched)[i - 1], i, s, fetched)]
<1> DEFINE Fix(g, n) == g = [k \in 0..n |-> IF k = 0 THEN pl ELSE InsStep(g[k - 1], k, s, fetched)]
           Bad == {n \in Nat : ~\E g : Fix(g, n)}
<1>1. Bad = {}
  <2> SUFFICES ASSUME Bad # {} PROVE FALSE
    OBVIOUS
  <2>1. PICK n0 \in Bad : \A y \in Bad : ~(y < n0)
    BY LeastNat
  <2>2. n0 # 0
    <3>1. Fix([k \in 0..0 |-> pl], 0)
      OBVIOUS
    <3> QED
      BY <3>1, <2>1
  <2>3. PICK g : Fix(g, n0 - 1)
    <3>1. n0 - 1 \in Nat /\ n0 - 1 < n0
      BY <2>1, <2>2
    <3> QED
      BY <3>1, <2>1
  <2> DEFINE h == [k \in 0..n0 |-> IF k < n0 THEN g[k] ELSE InsStep(g[n0 - 1], n0, s, fetched)]
  <2>4. Fix(h, n0)
    <3>1. \A k \in 0..n0 : h[k] = IF k = 0 THEN pl ELSE InsStep(h[k - 1], k, s, fetched)
      <4> TAKE k \in 0..n0
      <4>1. CASE k = 0
        BY <4>1, <2>2, <2>3, <2>1
      <4>2. CASE k # 0 /\ k < n0
        <5>1. h[k] = g[k] /\ h[k - 1] = g[k - 1]
          BY <4>2, <2>1
        <5>2. g[k] = InsStep(g[k - 1], k, s, fetched)
          <6>1. k \in 0..n0 - 1 /\ k # 0
            BY <4>2, <2>1
          <6> QED
            BY <6>1, <2>3, Zenon
        <5> QED
          BY <4>2, <5>1, <5>2
      <4>3. CASE k = n0
        BY <4>3, <2>2, <2>1
      <4> QED
        BY <4>1, <4>2, <4>3, <2>1
    <3> QED
      BY <3>1
  <2> QED
    BY <2>1, <2>4
<1>2. \E f : Fix(f, Len(s))
  BY <1>1
<1> QED
  BY <1>2 DEF InsFcn

(* Pre-populating POOL with the fetched transactions of a block keeps it   *)
(* a pool.                                                                 *)
LEMMA InsertFetchedType ==
    ASSUME NEW pl, TP!IsPool(pl), NEW s \in Seq(Txn), NEW fetched
    PROVE  TP!IsPool(InsertFetched(pl, s, fetched))
<1> DEFINE F == InsFcn(pl, s, fetched)
           Bad == {k \in 0..Len(s) : ~TP!IsPool(F[k])}
<1>1. Bad = {}
  <2> SUFFICES ASSUME Bad # {} PROVE FALSE
    OBVIOUS
  <2>0. Bad \in SUBSET Nat
    OBVIOUS
  <2>1. PICK k \in Bad : \A y \in Bad : ~(y < k)
    BY <2>0, LeastNat
  <2>2. CASE k = 0
    <3>1. F[0] = pl
      <4>1. F = [j \in 0..Len(s) |->
                   IF j = 0 THEN pl ELSE InsStep(F[j - 1], j, s, fetched)]
        BY InsFcnFixed
      <4>2. 0 \in 0..Len(s)
        OBVIOUS
      <4> QED
        BY <4>1, <4>2
    <3> QED
      BY <2>1, <2>2, <3>1
  <2>3. CASE k # 0
    <3>0. k \in 1..Len(s)
      BY <2>1, <2>3
    <3>1. k - 1 \notin Bad
      BY <2>1, <3>0
    <3>2. TP!IsPool(F[k - 1])
      <4>1. k - 1 \in 0..Len(s)
        BY <3>0
      <4> QED
        BY <3>1, <4>1, Zenon
    <3>3. F[k] = InsStep(F[k - 1], k, s, fetched)
      <4>1. F = [j \in 0..Len(s) |->
                   IF j = 0 THEN pl ELSE InsStep(F[j - 1], j, s, fetched)]
        BY InsFcnFixed
      <4>2. k # 0
        BY <3>0
      <4> QED
        BY <3>0, <4>1, <4>2
    <3>4. TP!IsPool(InsStep(F[k - 1], k, s, fetched))
      <4>1. s[k] \in Txn
        BY <3>0
      <4> QED
        BY <3>2, <4>1, InsertOpIsPool DEF InsStep
    <3> QED
      BY <2>1, <3>3, <3>4
  <2> QED
    BY <2>2, <2>3
<1>2. Len(s) \in 0..Len(s)
  OBVIOUS
<1> QED
  BY <1>1, <1>2, InsertFetchedIsFcn, Zenon


-----------------------------------------------------------------------------
(* Type correctness.                                                       *)

\* A database record or fork whose balances are naturals and whose
\* transactions trie holds transactions.
IsStore(d) == d.state \in [Account -> Nat] /\ d.ttrie \subseteq Txn

\* The inductive strengthening of TypeOK: the chain invariant, every block
\* the proposer made well formed, and the bookkeeping of the applier's lock
\* (a sync runs only with a block at the head of the queue, and the message
\* loop holds a block only during a sync and only if the queue had room).
TypeInv ==
    /\ ChainInv
    /\ \A b \in PBlocks : IsBlock(b)
    /\ Len(pchain) <= MaxHeight
    /\ TP!IsPool(ppool) /\ TP!IsPool(pool)
    /\ netTxns \subseteq Txn
    /\ IsStore(db) /\ IsStore(sync.fork) /\ Len(db.chain) >= 1
    /\ sync.idle \in BOOLEAN /\ sync.txns \subseteq Txn
    /\ ~sync.idle => Len(sync.fork.chain) >= 1 /\ pending # <<>>
    /\ sync.idle => held = <<>>
    /\ Len(pending) + Len(held) <= MaxPending
    /\ Len(held) <= 1


(* create_block on a chain whose last block is well formed, with a pool,   *)
(* makes a well-formed block.                                              *)
LEMMA CreateBlockType ==
    ASSUME NEW c, NEW n \in Nat, n >= 1, DOMAIN c = 1..n, IsBlock(c[n]),
           NEW p, TP!IsPool(p)
    PROVE  IsBlock(CreateBlock(c, p))
<1> DEFINE last == c[Len(c)]
           ex   == ExecuteTransactions(last.hdr.state, p)
<1>1. Len(c) = n
  OBVIOUS
<1>2. last.hdr.state \in [Account -> Nat] /\ last.hdr.txns \subseteq Txn
  BY <1>1 DEF IsBlock
<1>3. ex \in ExecAcc
  BY <1>2, ExecuteTransactionsType
<1>4. Range(ex.txns) \subseteq Txn
  BY <1>3 DEF ExecAcc, Range
<1> QED
  BY <1>1, <1>2, <1>3, <1>4 DEF CreateBlock, IsBlock, ExecAcc

(* update_block with a well-formed block leaves the fork's balances        *)
(* naturals and its trie a set of transactions, whether it succeeds, stops *)
(* early or rejects the block.                                             *)
LEMMA UpdateBlockStore ==
    ASSUME NEW fk, IsDbRec(fk), IsStore(fk), NEW b, IsBlock(b), NEW pl
    PROVE  IsStore(UpdateBlock(fk, b, pl).fork)
<1> DEFINE r == RunTxns(fk, b.txns, pl)
<1>1. r \in RunAcc
  BY RunTxnsType DEF IsStore, IsBlock
<1> QED
  BY <1>1 DEF UpdateBlock, IsStore, IsDbRec, RunAcc


LEMMA InitTypeInv == Init => TypeInv
<1> SUFFICES ASSUME Init PROVE TypeInv
  OBVIOUS
<1>1. ChainInv
  BY InitChainInv
<1>2. \A b \in PBlocks : IsBlock(b)
  <2>1. PBlocks = {Genesis}
    BY DEF Init, PBlocks, Range
  <2>2. IsBlock(Genesis)
    BY AccountAssumption, EmptySeq DEF Genesis, IsBlock
  <2> QED
    BY <2>1, <2>2
<1>3. TP!IsPool(ppool) /\ TP!IsPool(pool)
  BY DEF Init, TP!IsPool, TP!EmptyPool
<1>4. IsStore(db) /\ IsStore(sync.fork) /\ Len(db.chain) >= 1
  BY AccountAssumption DEF Init, NoSync, IsStore
<1>5. sync.idle \in BOOLEAN /\ sync.idle
  BY Zenon DEF Init, NoSync
<1>6. sync.txns \subseteq Txn /\ held = <<>> /\ pending = <<>>
  BY DEF Init, NoSync
<1> QED
  BY <1>1, <1>2, <1>3, <1>4, <1>5, <1>6, BoundsAssumption DEF Init, TypeInv


LEMMA TypeStep == TypeInv /\ [Next]_vars => TypeInv'
<1> SUFFICES ASSUME TypeInv, [Next]_vars PROVE TypeInv'
  OBVIOUS
<1> USE DEF TypeInv
<1>0. ChainInv'
  BY ChainStep
<1>1. ASSUME NEW t \in Txn, Submit(t) PROVE TypeInv'
  <2>1. TP!IsPool(ppool')
    BY <1>1, InsertOpIsPool DEF Submit
  <2>2. UNCHANGED <<pchain, netBlocks, db, pool, pending, sync, held>>
    BY <1>1 DEF Submit
  <2>3. (sync.idle \in BOOLEAN)'
    BY <2>2, Zenon
  <2> QED
    BY <1>0, <1>1, <2>1, <2>2, <2>3 DEF Submit, PBlocks, IsStore
<1>2. ASSUME NEW t \in Txn, DeliverTxn(t) PROVE TypeInv'
  <2>1. TP!IsPool(pool')
    BY <1>2, InsertOpIsPool DEF DeliverTxn
  <2>2. UNCHANGED <<pchain, ppool, netBlocks, netTxns, db, pending, sync, held>>
    BY <1>2 DEF DeliverTxn
  <2>3. (sync.idle \in BOOLEAN)'
    BY <2>2, Zenon
  <2> QED
    BY <1>0, <2>1, <2>2, <2>3 DEF PBlocks, IsStore
<1>3. CASE Propose
  <2> DEFINE b == CreateBlock(pchain, ppool)
  <2>1. pchain' = Append(pchain, b) /\ ppool' = TP!SyncPool(ppool, b.txns)
        /\ UNCHANGED <<netTxns, db, pool, pending, sync, held>>
    BY <1>3 DEF Propose
  <2>2. IsBlock(b)
    <3>1. pchain[Len(pchain)] \in PBlocks
      BY DEF ChainInv, PBlocks, Range
    <3> QED
      BY <3>1, CreateBlockType DEF ChainInv
  <2>3. PBlocks' = PBlocks \cup {b}
    BY <2>1, ProposeKeeps DEF ChainInv
  <2>4. Len(pchain') <= MaxHeight
    <3>1. Len(pchain) < MaxHeight
      BY <1>3 DEF Propose
    <3>2. pchain \in Seq(PBlocks)
      BY DEF ChainInv
    <3>3. Len(pchain') = Len(pchain) + 1
      BY <2>1, <3>2
    <3> QED
      BY <3>1, <3>2, <3>3, BoundsAssumption
  <2>5. TP!IsPool(ppool')
    BY <2>1, SyncPoolIsPool
  <2>6. (sync.idle \in BOOLEAN)'
    BY <2>1, Zenon
  <2> QED
    BY <1>0, <2>1, <2>2, <2>3, <2>4, <2>5, <2>6 DEF IsStore
<1>4. ASSUME NEW b \in netBlocks, DeliverBlock(b) PROVE TypeInv'
  <2>1. UNCHANGED <<pchain, ppool, netBlocks, netTxns, db, pool, sync>>
    BY <1>4 DEF DeliverBlock
  <2>2. (sync.idle \in BOOLEAN)'
    BY <2>1, Zenon
  <2>0. pending \in Seq(PBlocks) /\ held = <<>> /\ Len(pending) < MaxPending
    BY <1>4 DEF DeliverBlock, ChainInv, IsPSeq
  <2>3. CASE sync.idle /\ pending' = Append(pending, b) /\ UNCHANGED held
    <3>1. Len(pending') = Len(pending) + 1 /\ pending' # <<>>
      BY <2>0, <2>3
    <3> QED
      BY <1>0, <2>0, <2>1, <2>2, <2>3, <3>1, BoundsAssumption DEF PBlocks, IsStore
  <2>4. CASE ~sync.idle /\ held' = <<b>> /\ UNCHANGED pending
    <3>1. Len(held') = 1
      BY <2>4
    <3> QED
      BY <1>0, <2>0, <2>1, <2>2, <2>4, <3>1, BoundsAssumption DEF PBlocks, IsStore
  <2> QED
    BY <1>4, <2>3, <2>4 DEF DeliverBlock
<1>5. CASE ApplyHead
  <2>1. Head1 \in PBlocks /\ IsPSeq(Tail(pending))
    BY <1>5, HeadTail DEF ApplyHead, Head1, ChainInv
  <2>2. IsStore(Tried.fork) /\ Len(Tried.fork.chain) >= 1
    <3>1. IsStore(Tried.fork)
      BY <2>1, UpdateBlockStore DEF Tried, ChainInv
    <3>2. Len(Tried.fork.chain) >= Len(db.chain)
      BY UpdateBlockChain DEF Tried, ChainInv
    <3> QED
      BY <3>1, <3>2
  <2>3. IsStore(db') /\ Len(db'.chain) >= 1
    BY <1>5, <2>2 DEF ApplyHead, Merged
  <2>4. TP!IsPool(pool')
    BY <1>5, SyncPoolIsPool DEF ApplyHead
  <2>5. UNCHANGED <<pchain, ppool, netBlocks, netTxns, sync, held>>
    BY <1>5 DEF ApplyHead
  <2>6. (sync.idle \in BOOLEAN)' /\ sync'.idle
    BY <1>5, <2>5, Zenon DEF ApplyHead
  <2>7. Len(pending') + Len(held') <= MaxPending
    <3>1. pending \in Seq(PBlocks) /\ pending # <<>> /\ pending' = Tail(pending)
      BY <1>5 DEF ApplyHead, ChainInv, IsPSeq
    <3>2. Len(pending') = Len(pending) - 1
      BY <3>1
    <3> QED
      BY <2>5, <3>1, <3>2, BoundsAssumption DEF ChainInv, IsPSeq
  <2> QED
    BY <1>0, <2>3, <2>4, <2>5, <2>6, <2>7 DEF PBlocks, IsStore
<1>6. CASE DropStale
  <2>1. UNCHANGED <<pchain, ppool, netBlocks, netTxns, db, pool, sync, held>>
    BY <1>6 DEF DropStale
  <2>2. (sync.idle \in BOOLEAN)' /\ sync'.idle
    BY <1>6, <2>1, Zenon DEF DropStale
  <2>3. Len(pending') + Len(held') <= MaxPending
    <3>1. pending \in Seq(PBlocks) /\ pending # <<>> /\ pending' = Tail(pending)
      BY <1>6 DEF DropStale, ChainInv, IsPSeq
    <3>2. Len(pending') = Len(pending) - 1
      BY <3>1
    <3> QED
      BY <2>1, <3>1, <3>2, BoundsAssumption DEF ChainInv, IsPSeq
  <2> QED
    BY <1>0, <2>1, <2>2, <2>3 DEF PBlocks, IsStore
<1>7. CASE ResyncHead
  <2>1. Head1 \in PBlocks
    BY <1>7, HeadTail DEF ResyncHead, Head1, ChainInv
  <2>2. IsStore(Tried.fork) /\ Len(Tried.fork.chain) >= 1
    <3>1. IsStore(Tried.fork)
      BY <2>1, UpdateBlockStore DEF Tried, ChainInv
    <3>2. Len(Tried.fork.chain) >= Len(db.chain)
      BY UpdateBlockChain DEF Tried, ChainInv
    <3> QED
      BY <3>1, <3>2
  <2>3. PICK bs \in FetchedBlocks(Len(Tried.fork.chain)) :
          \E tx \in FetchedTxns(bs) :
             sync' = [idle |-> FALSE, todo |-> bs, fork |-> Tried.fork, txns |-> tx]
    BY <1>7 DEF ResyncHead
  <2>4. PICK tx \in FetchedTxns(bs) :
             sync' = [idle |-> FALSE, todo |-> bs, fork |-> Tried.fork, txns |-> tx]
    BY <2>3
  <2>5. tx \subseteq Txn
    <3>0. pchain' = pchain
      BY <1>7 DEF ResyncHead
    <3>1. bs \in Seq(PBlocks)
      BY <1>0, <2>4, <3>0 DEF ChainInv, IsPSeq, PBlocks
    <3>2. \A i \in DOMAIN bs : Range(bs[i].txns) \subseteq Txn
      BY <3>1 DEF IsBlock, Range
    <3>3. UNION {Range(bs[i].txns) : i \in DOMAIN bs} \subseteq Txn
      BY <3>2
    <3> QED
      BY <3>3, <2>4 DEF FetchedTxns
  <2>6. UNCHANGED <<pchain, ppool, netBlocks, netTxns, db, pool, pending, held>>
    BY <1>7 DEF ResyncHead
  <2>7. (sync.idle \in BOOLEAN)' /\ ~sync'.idle
    BY <2>4, Zenon
  <2>8. sync.idle /\ pending # <<>>
    BY <1>7 DEF ResyncHead
  <2> QED
    BY <1>0, <2>2, <2>4, <2>5, <2>6, <2>7, <2>8 DEF PBlocks, IsStore
<1>8. CASE SyncApply
  <2> DEFINE b  == Head(sync.todo)
             pl == InsertFetched(pool, b.txns, sync.txns)
             r  == UpdateBlock(sync.fork, b, pl)
  <2>1. b \in PBlocks
    BY <1>8, HeadTail DEF SyncApply, ChainInv
  <2>2. IsStore(r.fork) /\ Len(r.fork.chain) >= Len(sync.fork.chain)
    <3>1. IsStore(r.fork)
      BY <2>1, UpdateBlockStore DEF ChainInv
    <3>2. Len(r.fork.chain) >= Len(sync.fork.chain)
      BY UpdateBlockChain DEF ChainInv
    <3> QED
      BY <3>1, <3>2
  <2>3. TP!IsPool(pool')
    <3>1. TP!IsPool(pl)
      BY <2>1, InsertFetchedType DEF IsBlock
    <3>2. pool' = IF r.ok THEN TP!SyncPool(pl, b.txns) ELSE pl
      BY <1>8 DEF SyncApply
    <3> QED
      BY <3>1, <3>2, SyncPoolIsPool
  <2>4. sync' = [sync EXCEPT !.fork = r.fork, !.todo = IF r.ok THEN Tail(sync.todo) ELSE <<>>]
    BY <1>8 DEF SyncApply
  <2>5. sync'.idle = sync.idle /\ sync'.txns = sync.txns /\ sync'.fork = r.fork
    BY <2>4 DEF ChainInv
  <2>6. ~sync.idle
    BY <1>8 DEF SyncApply
  <2>7. (sync.idle \in BOOLEAN)' /\ ~sync'.idle
    BY <2>5, <2>6, Zenon
  <2>8. UNCHANGED <<pchain, ppool, netBlocks, netTxns, db, pending, held>>
    BY <1>8 DEF SyncApply
  <2>9. /\ \A x \in PBlocks' : IsBlock(x)
        /\ Len(pchain') <= MaxHeight /\ netTxns' \subseteq Txn /\ TP!IsPool(ppool')
    BY <2>8 DEF PBlocks
  <2>10. IsStore(db') /\ IsStore(sync'.fork) /\ Len(db'.chain) >= 1
    BY <2>2, <2>5, <2>8
  <2>11. sync'.txns \subseteq Txn /\ Len(sync'.fork.chain) >= 1 /\ pending' # <<>>
    BY <2>2, <2>5, <2>6, <2>8
  <2>12. /\ Len(pending') + Len(held') <= MaxPending /\ Len(held') <= 1
    BY <2>8
  <2> QED
    BY <1>0, <2>3, <2>7, <2>9, <2>10, <2>11, <2>12
<1>9. CASE SyncDone
  <2>1. ~sync.idle /\ db' \in Merged(sync.fork) /\ pending' = Tail(pending) \o held
        /\ sync' = NoSync /\ held' = <<>>
    BY <1>9 DEF SyncDone
  <2>2. IsStore(db') /\ Len(db'.chain) >= 1
    BY <2>1 DEF Merged
  <2>3. IsStore(sync'.fork) /\ sync'.txns \subseteq Txn
    BY <2>1, AccountAssumption DEF NoSync, IsStore
  <2>4. (sync.idle \in BOOLEAN)' /\ sync'.idle
    BY <2>1, Zenon DEF NoSync
  <2>5. Len(pending') + Len(held') <= MaxPending
    <3>1. pending \in Seq(PBlocks) /\ held \in Seq(PBlocks) /\ pending # <<>>
      BY <2>1 DEF ChainInv, IsPSeq
    <3>2. Len(pending') = Len(pending) - 1 + Len(held)
      BY <2>1, <3>1
    <3> QED
      BY <2>1, <3>1, <3>2, BoundsAssumption
  <2>6. UNCHANGED <<pchain, ppool, netBlocks, netTxns, pool>>
    BY <1>9 DEF SyncDone
  <2> QED
    BY <1>0, <2>1, <2>2, <2>3, <2>4, <2>5, <2>6 DEF PBlocks
<1>10. CASE UNCHANGED vars
  <2>1. UNCHANGED <<pchain, ppool, netBlocks, netTxns, db, pool, pending, sync, held>>
    BY <1>10 DEF vars
  <2>2. (sync.idle \in BOOLEAN)'
    BY <2>1, Zenon
  <2> QED
    BY <1>0, <2>1, <2>2 DEF PBlocks, IsStore
<1> QED
  BY <1>1, <1>2, <1>3, <1>4, <1>5, <1>6, <1>7, <1>8, <1>9, <1>10 DEF Next, Applier


\* A sequence of well-formed blocks is a chain.
LEMMA PSeqIsChain ==
    ASSUME \A b \in PBlocks : IsBlock(b), NEW c, IsPSeq(c)
    PROVE  IsChain(c)
BY DEF IsPSeq, IsChain

LEMMA TypeInvTypeOK == TypeInv => TypeOK
<1> SUFFICES ASSUME TypeInv PROVE TypeOK
  OBVIOUS
<1>1. IsChain(pchain) /\ IsChain(pending) /\ IsChain(held) /\ IsChain(sync.todo)
      /\ IsChain(db.chain) /\ IsChain(sync.fork.chain)
  BY PSeqIsChain DEF TypeInv, ChainInv, IsPSeq, IsPrefix
<1>2. Len(pchain) \in 1..MaxHeight /\ Len(pending) <= MaxPending /\ Len(held) <= 1
  BY BoundsAssumption DEF TypeInv, ChainInv, IsPSeq
<1>3. IsDB(db) /\ IsDB(sync.fork)
  BY <1>1 DEF TypeInv, ChainInv, IsDbRec, IsStore, IsDB
<1>4. \A b \in netBlocks : IsBlock(b)
  BY DEF TypeInv, ChainInv
<1>5. sync.idle \in BOOLEAN
  BY Zenon DEF TypeInv
<1> QED
  BY <1>1, <1>2, <1>3, <1>4, <1>5 DEF TypeInv, ChainInv, TypeOK

(* For every set of transactions, accounts and balances, every block cap   *)
(* and bound, whatever gossip delivers, repeats or loses and whichever     *)
(* fetches and merges fail, every chain, block, pool, queue and fork the   *)
(* proposer and N hold is well formed and no balance of N's database or of *)
(* a sync fork is negative: the deduct_balance of a transfer that          *)
(* executes never underflows, in create_block, in update_block's loop or   *)
(* in sync_state, and the message loop never holds more than one block.    *)
THEOREM TypeCorrect == Spec => []TypeOK
<1>1. Init => TypeInv
  BY InitTypeInv
<1>2. TypeInv /\ [Next]_vars => TypeInv'
  BY TypeStep
<1>3. TypeInv => TypeOK
  BY TypeInvTypeOK
<1> QED
  BY <1>1, <1>2, <1>3, PTL DEF Spec

=============================================================================
