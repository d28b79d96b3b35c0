------------------------------ MODULE MemTable ------------------------------
(***************************************************************************)
(* The storage engine's side of the comparator contract: a RocksDB         *)
(* memtable, a sorted run of keys that calls the registered comparator on  *)
(* every insert, point lookup and seek, and the registered prefix         *)
(* extractor while iterating in prefix mode.  RocksDB is not part of this  *)
(* repository; this module models the documented engine behaviour (spec   *)
(* 2, 4.5, 4.6, 6) so that the comparators of library.cpp can be judged by *)
(* what the engine does with them.                                         *)
(*                                                                         *)
(* The run is the bottom level of the skiplist, kept as a sequence.  A    *)
(* newer entry for an equal key shadows the older one; the sequence holds *)
(* only the visible entry.                                                 *)
(***************************************************************************)
EXTENDS Integers, SequencesExt

CONSTANTS
    Elems,          \* keys the layer above may write
    Compare(_, _),  \* the registered rocksdb::Comparator
    Prefix(_),      \* the registered rocksdb::SliceTransform::Transform
    MaxKeys         \* bound on the number of distinct entries

VARIABLES
    mem,            \* the sorted run
    ret             \* argument and answer of the last Get or Scan

vars == <<mem, ret>>

NoRet == [op |-> "none", arg |-> {}, res |-> {}]

(***************************************************************************)
(* FindGreaterOrEqual: the first entry the key is not after, i.e. the     *)
(* first with Compare(entry, k) >= 0; 0 when there is none.                *)
(***************************************************************************)
Seek(k) == SelectInSeq(mem, LAMBDA x : Compare(x, k) >= 0)

\* The entry Seek(k) lands on compares equal to k.
Hit(k) == Seek(k) # 0 /\ Compare(mem[Seek(k)], k) = 0

Init ==
    /\ mem = <<>>
    /\ ret = NoRet

(***************************************************************************)
(* MemTable::Add: an entry equal to k is shadowed by k; otherwise k is     *)
(* linked in before the entry Seek(k) found, or at the end.                *)
(***************************************************************************)
Put(k) ==
    /\ Len(mem) < MaxKeys \/ Hit(k)
    /\ mem' = IF Hit(k) THEN [mem EXCEPT ![Seek(k)] = k]
              ELSE IF Seek(k) = 0 THEN Append(mem, k)
              ELSE InsertAt(mem, Seek(k), k)
    /\ ret' = NoRet

(***************************************************************************)
(* MemTable::Get: seek, then accept the entry only if the user comparator *)
(* says it is equal to k.                                                  *)
(***************************************************************************)
Get(k) ==
    /\ ret' = [op |-> "get", arg |-> {k},
               res |-> IF Hit(k) THEN {mem[Seek(k)]} ELSE {}]
    /\ UNCHANGED mem

(***************************************************************************)
(* Prefix-mode iteration: Seek(t), then Next() while the entry's prefix    *)
(* equals Prefix(t).                                                       *)
(***************************************************************************)
ScanEnd(t) ==
    LET stop == SelectInSubSeq(mem, Seek(t), Len(mem), LAMBDA x : Prefix(x) # Prefix(t))
    IN  IF stop = 0 THEN Len(mem) ELSE stop - 1

Scan(t) ==
    /\ ret' = [op |-> "scan", arg |-> {t},
               res |-> IF Seek(t) = 0 THEN {}
                       ELSE {mem[j] : j \in Seek(t) .. ScanEnd(t)}]
    /\ UNCHANGED mem

Next == \E k \in Elems : Put(k) \/ Get(k) \/ Scan(k)

Spec == Init /\ [][Next]_vars

TypeOK ==
    /\ mem \in Seq(Elems)
    /\ Len(mem) <= MaxKeys
    /\ ret.op \in {"none", "get", "scan"}
    /\ ret.arg \subseteq Elems
    /\ ret.res \subseteq Elems
=============================================================================
