----------------------------- MODULE MC_TxPool -----------------------------
(* TxPool on a few transactions.  MC_DistinctStamp gives each of seven     *)
(* transactions its own timestamp and an eighth a header that does not     *)
(* parse.  MC_SharedStamp takes three: two created in the same microsecond *)
(* by two clients, so they carry the same timestamp, and a third whose     *)
(* header does not parse.                                                  *)
EXTENDS TxPool

CONSTANTS t1, t2, t3, t4, t5, t6, t7, t8

MC_Txn8 == {t1, t2, t3, t4, t5, t6, t7, t8}

MC_Txn3 == {t1, t2, t3}

MC_Order == <<t1, t2, t3, t4, t5, t6, t7>>

MC_DistinctStamp ==
    [t \in MC_Txn8 |-> IF t = t8 THEN -1 ELSE CHOOSE i \in 1..7 : MC_Order[i] = t]

MC_SharedStamp == [t \in MC_Txn3 |-> IF t = t3 THEN -1 ELSE 1]
=============================================================================
