---------------------------- MODULE IndexedStore ----------------------------
(***************************************************************************)
(* The system as deployed by mnemonicdb_open: one RocksDB keyspace holding *)
(* the keys of every index, ordered by library.cpp's Comparator and        *)
(* bucketed by its PrefixExtractor.  The memtable of MemTable.tla is       *)
(* instantiated with those two plug-ins, and what it stores and answers is *)
(* compared with the index semantics of the spec (DatomIndex.tla).         *)
(*                                                                         *)
(* Entries are numbered: Entry[i] is [key, d, idx].  The comparator and    *)
(* the extractor are pure functions of the key bytes (spec 5), so their    *)
(* results over the finite set of keys are computed once, as tables.       *)
(***************************************************************************)
EXTENDS Library, DatomIndex, SequencesExt

CONSTANTS
    Entry,      \* function from entry numbers to index entries [key, d, idx]
    MaxKeys     \* bound on the number of entries in the memtable

VARIABLES mem, ret

vars == <<mem, ret>>

\* Entry as a definition, so that TLC evaluates the constant only once.
Entries == Entry

Elems == DOMAIN Entries

\* Comparator::Compare and PrefixExtractor::Transform on every key.
CompareTable == [i \in Elems |-> [j \in Elems |-> GlobalCompare(Entries[i].key, Entries[j].key)]]
PrefixTable == [i \in Elems |-> Transform(Entries[i].key)]

\* The intended order and buckets of the same entries.
BeforeTable == [i \in Elems |-> [j \in Elems |-> IntendedBefore(Entries[i], Entries[j])]]
BucketTable == [i \in Elems |-> IntendedBucket(Entries[i])]

CodeCompare(i, j) == CompareTable[i][j]
CodePrefix(i) == PrefixTable[i]
IndexBefore(i, j) == BeforeTable[i][j]
IndexBucket(i) == BucketTable[i]

Engine == INSTANCE MemTable WITH Compare <- CodeCompare, Prefix <- CodePrefix

Init == Engine!Init
Next == Engine!Next
Spec == Engine!Spec

-----------------------------------------------------------------------------
(* Properties *)

TypeOK == Engine!TypeOK

(***************************************************************************)
(* Index order (spec 4.4, 4.5): whatever sequence of writes the engine has *)
(* performed with the code's comparator, its sorted run lists the entries  *)
(* strictly in the intended order: index tag first, then each index's      *)
(* field priority on E, A, T as numbers and V by tag and typed value.      *)
(***************************************************************************)
SortedInIndexOrder == IsSorted(mem, IndexBefore)

(***************************************************************************)
(* The engine, driven by the code's comparator and prefix extractor,       *)
(* behaves as the key set of KeyStore: no Put loses another entry, Get     *)
(* finds exactly the stored entries, and a prefix Scan from t returns      *)
(* every stored entry of t's intended bucket not ordered before t.         *)
(***************************************************************************)
Abstract == INSTANCE KeyStore WITH store <- Range(mem),
                                   Before <- IndexBefore,
                                   Bucket <- IndexBucket
StoreRefinement == Abstract!Spec
=============================================================================
