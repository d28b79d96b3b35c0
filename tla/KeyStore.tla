------------------------------ MODULE KeyStore ------------------------------
(***************************************************************************)
(* What the storage engine offers the layer above once it has been given   *)
(* a comparator and a prefix extractor that meet their contracts (spec 4.4 *)
(* to 4.6, 6): a SET of stored keys, where                                 *)
(*   - Put(k) adds k and never removes another key;                        *)
(*   - Get(k) finds k exactly when k is stored;                            *)
(*   - Scan(t) (Seek(t), then iterate while the prefix is t's) returns     *)
(*     every stored key of t's bucket that is not ordered before t.        *)
(* Before is the intended strict order and Bucket the intended scan        *)
(* bucket; `ret` holds the argument and answer of the last Get or Scan.    *)
(***************************************************************************)
EXTENDS Naturals, FiniteSets

CONSTANTS
    Elems,          \* the keys that may be stored
    Before(_, _),   \* intended strict order of keys
    Bucket(_),      \* intended scan bucket of a key
    MaxKeys         \* bound on the number of stored keys

VARIABLES store, ret

NoRet == [op |-> "none", arg |-> {}, res |-> {}]

Init ==
    /\ store = {}
    /\ ret = NoRet

Put(k) ==
    /\ Cardinality(store) < MaxKeys \/ k \in store
    /\ store' = store \cup {k}
    /\ ret' = NoRet

Get(k) ==
    /\ ret' = [op |-> "get", arg |-> {k}, res |-> store \cap {k}]
    /\ UNCHANGED store

Scan(t) ==
    /\ ret' = [op |-> "scan", arg |-> {t},
               res |-> {x \in store : Bucket(x) = Bucket(t) /\ ~Before(x, t)}]
    /\ UNCHANGED store

Next == \E k \in Elems : Put(k) \/ Get(k) \/ Scan(k)

Spec == Init /\ [][Next]_<<store, ret>>
=============================================================================
