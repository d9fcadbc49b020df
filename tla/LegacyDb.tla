------------------------------ MODULE LegacyDb ------------------------------
(***************************************************************************)
(* The legacy RocksDB wrapper rdb_connection::Con (db/src/database.rs).   *)
(*                                                                         *)
(* A Con holds DB::Nil until connect() opens "rockdb/db" with              *)
(* rocksdb::DB::open_default and unwraps the result.  put_in_db stores     *)
(* the serialized object under its hash and ignores the result of the    *)
(* write; getu8 and get_from_db take the Con by value, so a read ends the  *)
(* Con and closes its handle.  Every Con of the process opens the same    *)
(* path, so the store outlives the handles, and RocksDB's LOCK file lets   *)
(* at most one handle be open: open_default fails while another is open.  *)
(*                                                                         *)
(* An object is a model value; its serialization is the object itself    *)
(* and serialize_hash256 is ObjHash.  A call that panics ends the process *)
(* (every unwrap in this file is on the caller's thread).                  *)
(***************************************************************************)
EXTENDS Naturals

CONSTANTS
    Handle,     \* the Con values the program creates
    Obj,        \* the objects handed to put_in_db
    Key,        \* the 32-byte keys (serialize_hash256 values)
    ObjHash,    \* serialize_hash256 on each object
    CborUnit,   \* the objects whose bytes serde_cbor::from_slice reads as ()
    IoMayFail,  \* whether a RocksDB open, put or get may return Err
    Missing     \* the store holds nothing under a key

ASSUME LegacyDbAssumption ==
    /\ ObjHash \in [Obj -> Key] /\ CborUnit \subseteq Obj
    /\ IoMayFail \in BOOLEAN /\ Missing \notin Obj
    /\ Obj \cap {"None", "empty", "panic"} = {}

VARIABLES
    con,        \* con_obj of each Con: "none" (not created), "nil", "db", "gone"
    connected,  \* the connected field of each Con
    store,      \* the key-value content of rockdb/db
    ret,        \* the call that returned last: [op, arg, out]
    panicked    \* a call panicked and the process is gone

vars == <<con, connected, store, ret, panicked>>

\* What each method can return; "panic" marks a call that panicked.
Ret ==
         [op : {"init", "new", "drop"}, arg : {Missing}, out : {Missing}]
    \cup [op : {"connect"}, arg : {Missing}, out : {Missing, "panic"}]
    \cup [op : {"put"}, arg : Obj, out : Key \cup {"None"}]
    \cup [op : {"getu8"}, arg : Key, out : Obj \cup {"empty", "panic"}]
    \cup [op : {"get"}, arg : Key, out : {"None", "panic"}]

Live(h) == con[h] \in {"nil", "db"}

\* RocksDB's LOCK is held while some Con has an open handle.
Locked == \E h \in Handle : con[h] = "db"

Returned(op, arg, out) == ret' = [op |-> op, arg |-> arg, out |-> out]

Panic(op, arg) ==
    /\ Returned(op, arg, "panic") /\ panicked' = TRUE
    /\ UNCHANGED <<con, connected, store>>

Init ==
    /\ con = [h \in Handle |-> "none"]
    /\ connected = [h \in Handle |-> FALSE]
    /\ store = [k \in Key |-> Missing]
    /\ ret = [op |-> "init", arg |-> Missing, out |-> Missing]
    /\ panicked = FALSE

\* Con::new.
New(h) ==
    /\ ~panicked /\ con[h] \in {"none", "gone"}
    /\ con' = [con EXCEPT ![h] = "nil"]
    /\ connected' = [connected EXCEPT ![h] = FALSE]
    /\ Returned("new", Missing, Missing)
    /\ UNCHANGED <<store, panicked>>

\* Con::connect: open_default is evaluated before the old con_obj is
\* dropped, so it fails on a Con that is already connected too.
Connect(h) ==
    /\ ~panicked /\ Live(h)
    /\ \/ /\ Locked \/ IoMayFail
          /\ Panic("connect", Missing)
       \/ /\ ~Locked
          /\ con' = [con EXCEPT ![h] = "db"]
          /\ connected' = [connected EXCEPT ![h] = TRUE]
          /\ Returned("connect", Missing, Missing)
          /\ UNCHANGED <<store, panicked>>

\* Con::put_in_db: the result of the write is dropped, so the key is
\* returned whether or not the write happened.
PutInDb(h, o) ==
    /\ ~panicked /\ Live(h)
    /\ IF con[h] = "db"
       THEN /\ \/ store' = [store EXCEPT ![ObjHash[o]] = o]
               \/ IoMayFail /\ UNCHANGED store
            /\ Returned("put", o, ObjHash[o])
       ELSE /\ Returned("put", o, "None")
            /\ UNCHANGED store
    /\ UNCHANGED <<con, connected, panicked>>

\* A read takes the Con by value: it is gone afterwards, and so is its handle.
Consume(h) == con' = [con EXCEPT ![h] = "gone"]

\* Con::getu8: get(slice).unwrap().unwrap() on an open handle.
Getu8(h, k) ==
    /\ ~panicked /\ Live(h)
    /\ IF con[h] = "db"
       THEN \/ /\ store[k] = Missing \/ IoMayFail
               /\ Panic("getu8", k)
            \/ /\ store[k] # Missing
               /\ Returned("getu8", k, store[k])
               /\ Consume(h) /\ UNCHANGED <<connected, store, panicked>>
       ELSE /\ Returned("getu8", k, "empty")
            /\ Consume(h) /\ UNCHANGED <<connected, store, panicked>>

\* get_from_db returning the stored object, as the commented-out match
\* would.
GetFromDbReturnsObject(h, k) ==
    /\ ~panicked /\ Live(h)
    /\ IF con[h] = "db" /\ store[k] # Missing
       THEN Returned("get", k, store[k])
       ELSE Returned("get", k, "None")
    /\ Consume(h) /\ UNCHANGED <<connected, store, panicked>>

\* Con::get_from_db: an Err of get skips the if and returns None; an
\* absent key panics on the unwrap; the if's value must be (), so the
\* bytes are read as () and a read that fails panics.  It never returns
\* an object.
GetFromDb(h, k) ==
    /\ ~panicked /\ Live(h)
    /\ IF con[h] = "db"
       THEN \/ /\ \/ store[k] = Missing
                  \/ store[k] \in Obj \ CborUnit
               /\ Panic("get", k)
            \/ /\ IoMayFail \/ store[k] \in CborUnit
               /\ Returned("get", k, "None")
               /\ Consume(h) /\ UNCHANGED <<connected, store, panicked>>
       ELSE /\ Returned("get", k, "None")
            /\ Consume(h) /\ UNCHANGED <<connected, store, panicked>>

\* A Con goes out of scope without a read; dropping it closes its handle.
Drop(h) ==
    /\ ~panicked /\ Live(h)
    /\ Consume(h) /\ Returned("drop", Missing, Missing)
    /\ UNCHANGED <<connected, store, panicked>>

Next ==
    \E h \in Handle :
        \/ New(h) \/ Connect(h) \/ Drop(h)
        \/ \E o \in Obj : PutInDb(h, o)
        \/ \E k \in Key : Getu8(h, k) \/ GetFromDb(h, k)

Spec == Init /\ [][Next]_vars

-----------------------------------------------------------------------------
(* Properties.                                                             *)

\* Every variable has its type, and each method returns only what its
\* signature and body allow: in particular get_from_db never returns an
\* object, only None or a panic.
TypeOK ==
    /\ con \in [Handle -> {"none", "nil", "db", "gone"}]
    /\ connected \in [Handle -> BOOLEAN]
    /\ store \in [Key -> Obj \cup {Missing}]
    /\ ret \in Ret
    /\ panicked \in BOOLEAN
=============================================================================
