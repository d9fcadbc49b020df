------------------------------ MODULE MC_Genesis ------------------------------
(* Two addresses and every key list of length at most 3, among them the   *)
(* empty one of the test and lists that name an address twice.           *)
EXTENDS Genesis

CONSTANTS a1, a2

MC_Account == {a1, a2}
MC_KeyLists == UNION {[1..n -> MC_Account] : n \in 0..3}
=============================================================================
