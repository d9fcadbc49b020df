------------------------- MODULE PeerSync_refinement -------------------------
(***************************************************************************)
(* fetch_sync_state implements its contract SyncCall: proof of            *)
(* Spec => SC!Spec, the refinement mapping being SC of PeerSync.tla.       *)
(*                                                                         *)
(* Every step of the block and transaction loops that does not end the    *)
(* call is a stutter of SyncCall (phase busy, nothing returned yet); the   *)
(* step that ends it is SyncCall's Return, and needs that the block_pool   *)
(* it returns is a segment of one peer (SyncSegment, proved from NoFork in *)
(* PeerSync_proofs) and that txn_map holds confirmed transactions of those *)
(* blocks (TxnInv below).                                                  *)
(***************************************************************************)
EXTENDS PeerSync_proofs

\* txn_map only holds transactions of blocks in block_pool that a peer
\* confirmed, and both are empty before the transaction loop starts.
TxnInv ==
    /\ txm \subseteq SC!TxnsOf(bm) \cap UNION {Confirmed(p) : p \in Peer}
    /\ spc \in {"idle", "len", "blocks"} => txm = {}
    /\ spc \in {"idle", "len"} => DOMAIN bm = {}

-----------------------------------------------------------------------------
(* Lemmas on the requests and the mapping.                                 *)

(* A confirmation answered "some" comes from a peer that confirmed it. *)
LEMMA ConfirmSome ==
    ASSUME NEW r \in SUBSET Peer, NEW t, "some" \in FetchConfirmTransaction(r, t)
    PROVE  \E p \in Peer : t \in Confirmed(p)
  <1>1. GetPeerUrl(r) \in (r \cap Resolvable) \cup {NoPeer}
    BY GetPeerUrlType
  <1>2. GetPeerUrl(r) # NoPeer /\ t \in Confirmed(GetPeerUrl(r))
    BY DEF FetchConfirmTransaction
  <1> QED
    BY <1>1, <1>2

(* A block_pool of consecutive heights from c holding one peer's blocks   *)
(* is one of the segments SyncCall allows.                                 *)
LEMMA SegmentOf ==
    ASSUME NEW b, NEW c \in Nat,
           DOMAIN b \subseteq Nat, b \in [DOMAIN b -> BlockVal],
           \E e \in c..(c + MaxLen) : DOMAIN b = c..(e - 1),
           \/ DOMAIN b = {}
           \/ \E p \in Peer : \A h \in DOMAIN b : h < Len(Chain[p]) /\ b[h] = Chain[p][h + 1]
    PROVE  b \in SC!Segments(c)
  <1>1. PICK e \in c..(c + MaxLen) : DOMAIN b = c..(e - 1)
    OBVIOUS
  <1>2. CASE DOMAIN b = {}
    <2>1. b = SC!NoBlocks
      BY <1>2 DEF SC!NoBlocks
    <2> QED
      BY <2>1 DEF SC!Segments
  <1>3. CASE DOMAIN b # {}
    <2>1. PICK p \in Peer : \A h \in DOMAIN b : h < Len(Chain[p]) /\ b[h] = Chain[p][h + 1]
      BY <1>3
    <2>2. e - 1 \in DOMAIN b /\ Len(Chain[p]) \in Nat
      BY <1>1, <1>3, ChainAssumption
    <2>3. e \in c..Len(Chain[p])
      BY <1>1, <2>1, <2>2
    <2>4. b = [h \in c..(e - 1) |-> Chain[p][h + 1]]
      BY <1>1, <2>1
    <2> QED
      BY <2>3, <2>4 DEF SC!Segments
  <1> QED
    BY <1>2, <1>3

-----------------------------------------------------------------------------
(* TxnInv is inductive. *)

LEMMA InitTxnInv == Init => TxnInv
  BY DEF Init, TxnInv

LEMMA TxnInvStep == TypeData /\ TxnInv /\ [Next]_vars => TxnInv'
<1> SUFFICES ASSUME TypeData, TxnInv, [Next]_vars PROVE TxnInv'
  OBVIOUS
<1> USE DEF TypeData
<1>1. CASE UNCHANGED <<spc, bm, txm>>
  BY <1>1 DEF TxnInv
<1>2. ASSUME NEW c \in 1..MaxLen, SyncStart(c) PROVE TxnInv'
  BY <1>2 DEF SyncStart, TxnInv
<1>3. CASE FetchLength
  BY <1>3 DEF FetchLength, TxnInv
<1>4. CASE FetchBlockStep
  BY <1>4 DEF FetchBlockStep, TxnInv
<1>5. CASE BlocksDone \/ TxnBlockStart
  BY <1>5 DEF BlocksDone, TxnBlockStart, TxnInv
<1>6. CASE TxnStep
  <2> DEFINE hs == BlockTxns[bm[blk]]
  <2>1. spc = "txns" /\ j > 0 /\ blk \in DOMAIN bm /\ UNCHANGED bm
        /\ spc' \in {"txns", "done"}
    BY <1>6 DEF TxnStep
  <2>2. hs \in Seq(Txn)
    BY <2>1, ChainAssumption
  <2>3. CASE txm' = txm
    BY <2>1, <2>3 DEF TxnInv
  <2>4. CASE txm' # txm
    <3>1. j <= Len(hs) /\ "some" \in FetchConfirmTransaction(reg, hs[j])
          /\ txm' = txm \cup {hs[j]}
      BY <1>6, <2>4 DEF TxnStep
    <3>2. hs[j] \in SC!TxnsOf(bm)
      BY <2>1, <2>2, <3>1 DEF SC!TxnsOf
    <3>3. \E p \in Peer : hs[j] \in Confirmed(p)
      BY <3>1, ConfirmSome
    <3> QED
      BY <2>1, <3>1, <3>2, <3>3 DEF TxnInv
  <2> QED
    BY <2>3, <2>4
<1> QED
  BY <1>1, <1>2, <1>3, <1>4, <1>5, <1>6
     DEF Next, Fetcher, vars, Discovered, Expired, TxnPoolStart, TxnPoolStep,
         TxnPoolEnd, SyncVars

-----------------------------------------------------------------------------
(* The steps of PeerSync seen through the mapping.                         *)

(* The step that ends a call returns a SyncState SyncCall allows. *)
LEMMA ReturnStep ==
    ASSUME TypeData', SyncSegment', TxnInv',
           spc \in {"len", "blocks", "txns"}, spc' = "done", cur' = cur
    PROVE  SC!Return
  <1>1. bm' \in SC!Segments(cur')
    <2>1. cur' \in Nat /\ DOMAIN bm' \subseteq Nat /\ bm' \in [DOMAIN bm' -> BlockVal]
      BY DEF TypeData
    <2> QED
      BY <2>1, SegmentOf DEF SyncSegment
  <1>2. txm' \subseteq SC!TxnsOf(bm') \cap UNION {[q \in Peer |-> Confirmed(q)][p] : p \in Peer}
    BY DEF TxnInv
  <1> QED
    BY <1>1, <1>2 DEF SC!Return

(* Every step of the fetcher keeps current_length and leaves the call     *)
(* running or ends it; while it runs, SyncCall sees nothing returned.      *)
LEMMA FetcherShape ==
    ASSUME Fetcher
    PROVE  spc \in {"len", "blocks", "txns"} /\ spc' \in {"blocks", "txns", "done"}
           /\ cur' = cur
  BY DEF Fetcher, FetchLength, FetchBlockStep, BlocksDone, TxnBlockStart, TxnStep

LEMMA RefStep ==
    ASSUME TypeData', SyncSegment', TxnInv', [Next]_vars
    PROVE  [SC!Next]_SC!vars
<1>1. CASE UNCHANGED <<spc, cur, bm, txm>>
  BY <1>1 DEF SC!vars
<1>2. ASSUME NEW c \in 1..MaxLen, SyncStart(c) PROVE [SC!Next]_SC!vars
  <2>1. SC!Call(c)
    BY <1>2 DEF SyncStart, SC!Call, SC!NoBlocks
  <2> QED
    BY <2>1 DEF SC!Next
<1>3. CASE Fetcher
  <2>1. spc \in {"len", "blocks", "txns"} /\ spc' \in {"blocks", "txns", "done"}
        /\ cur' = cur
    BY <1>3, FetcherShape
  <2>2. CASE spc' = "done"
    BY <2>1, <2>2, ReturnStep DEF SC!Next
  <2>3. CASE spc' # "done"
    BY <2>1, <2>3 DEF SC!vars
  <2> QED
    BY <2>2, <2>3
<1> QED
  BY <1>1, <1>2, <1>3
     DEF Next, vars, Discovered, Expired, TxnPoolStart, TxnPoolStep, TxnPoolEnd, SyncVars

(* fetch_sync_state implements SyncCall (SyncCallRefined): with peers     *)
(* whose chains agree, every run of the step-by-step client, under any    *)
(* mdns events and request failures, is a run of the atomic call that     *)
(* returns one peer's consecutive blocks and their confirmed transactions. *)
THEOREM SyncCallRefinement ==
    ASSUME NoFork
    PROVE  Spec => SyncCallRefined
<1>1. Init => SC!Init
  BY DEF Init, SC!Init, SC!NoBlocks
<1>2. Spec => [](TypeData /\ TxnInv)
  BY InitData, DataStep, InitTxnInv, TxnInvStep, PTL DEF Spec
<1>3. Spec => []SyncSegment
  BY SyncSegmentInvariant
<1>4. (TypeData /\ TxnInv)' /\ SyncSegment' /\ [Next]_vars => [SC!Next]_SC!vars
  BY RefStep
<1> QED
  BY <1>1, <1>2, <1>3, <1>4, PTL DEF Spec, SyncCallRefined, SC!Spec
=============================================================================
