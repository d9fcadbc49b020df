----------------------------- MODULE MC_LegacyDb -----------------------------
(* Two Con values, two objects and a key no object hashes to.  o2 stands  *)
(* for an object whose serialized bytes serde_cbor reads as (), so both   *)
(* outcomes of get_from_db's deserialization happen.                      *)
EXTENDS LegacyDb

CONSTANTS h1, h2, o1, o2, k1, k2, k3

MC_Handle == {h1, h2}
MC_Obj == {o1, o2}
MC_Key == {k1, k2, k3}
MC_ObjHash == [o \in MC_Obj |-> IF o = o1 THEN k1 ELSE k2]
MC_CborUnit == {o2}
=============================================================================
