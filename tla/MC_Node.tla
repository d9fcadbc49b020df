------------------------------ MODULE MC_Node ------------------------------
(* Node with two wallets and three transfers.  t1 and t2 are paid by a1,   *)
(* who is funded for one of them only, so a block of either makes the other *)
(* fail; t3 pays a1 back from a2.                                           *)
EXTENDS Node

CONSTANTS t1, t2, t3, a1, a2

MC_Txn == {t1, t2, t3}
MC_Account == {a1, a2}
MC_Stamp == [t \in MC_Txn |-> IF t = t1 THEN 0 ELSE IF t = t2 THEN 1 ELSE 2]
MC_From == [t \in MC_Txn |-> IF t = t3 THEN a2 ELSE a1]
MC_To == [t \in MC_Txn |-> IF t = t3 THEN a1 ELSE a2]
MC_Amount == [t \in MC_Txn |-> 1]
MC_Fund == [a \in MC_Account |-> IF a = a1 THEN 1 ELSE 0]
=============================================================================
