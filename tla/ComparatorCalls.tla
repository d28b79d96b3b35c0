--------------------------- MODULE ComparatorCalls ---------------------------
(***************************************************************************)
(* The engine calling the two plug-ins of library.cpp on any pair of keys, *)
(* in any order (spec 5: stateless, callable from any thread at any time). *)
(* Each step is one call of Comparator::Compare(lhs, rhs) together with    *)
(* PrefixExtractor::Transform on both keys; the next call compares the     *)
(* last right-hand key with any key, as an insertion or merge walk does.   *)
(* Its results are judged against the intended order and buckets of       *)
(* DatomIndex.tla on the entries' datoms.                                  *)
(***************************************************************************)
EXTENDS Library, DatomIndex

CONSTANT Entry      \* function from entry numbers to index entries [key, d, idx]

VARIABLES lhs, rhs, result, prefixes

vars == <<lhs, rhs, result, prefixes>>

\* Entry as a definition, so that TLC evaluates the constant only once.
Entries == Entry

Elems == DOMAIN Entries

\* Comparator::Compare and PrefixExtractor::Transform are pure functions of
\* the key bytes (spec 5): their results on every key are computed once.
CompareTable == [i \in Elems |-> [j \in Elems |-> GlobalCompare(Entries[i].key, Entries[j].key)]]
PrefixTable == [i \in Elems |-> Transform(Entries[i].key)]

Call(i, j) ==
    /\ lhs' = i
    /\ rhs' = j
    /\ result' = CompareTable[i][j]
    /\ prefixes' = <<PrefixTable[i], PrefixTable[j]>>

Init ==
    \E i, j \in Elems :
        /\ lhs = i
        /\ rhs = j
        /\ result = CompareTable[i][j]
        /\ prefixes = <<PrefixTable[i], PrefixTable[j]>>

Next == \E j \in Elems : Call(rhs, j)

Spec == Init /\ [][Next]_vars

-----------------------------------------------------------------------------
(* Properties *)

TypeOK ==
    /\ lhs \in Elems /\ rhs \in Elems
    /\ result \in {-1, 0, 1}
    /\ prefixes \in Word \X Word

(***************************************************************************)
(* Total order (spec 4.4, 4.5, 8): Comparator::Compare, working on the     *)
(* packed bytes only, gives every pair of keys the sign of the intended    *)
(* order on their datoms: the index tag first, then the index's field      *)
(* priority with E, A, T as numbers and V by tag, then typed value.  The   *)
(* intended order is a strict total order on distinct datoms, so this      *)
(* makes the code's comparator one too: reflexive-equal, antisymmetric and *)
(* transitive.                                                             *)
(***************************************************************************)
CompareAgreesWithIndexOrder ==
    result = IntendedCmp(Entries[lhs], Entries[rhs])

(***************************************************************************)
(* Index order of distinct keys (spec 4.4): two keys of different datoms   *)
(* are ordered by the index's field priority; in EAVT a difference in V    *)
(* decides before a difference in T.                                       *)
(***************************************************************************)
DistinctKeysInIndexOrder ==
    Entries[lhs] # Entries[rhs] =>
        result = IntendedCmp(Entries[lhs], Entries[rhs])

(***************************************************************************)
(* Monotonic bucketing (spec 4.6): two keys get the same 8-byte prefix     *)
(* exactly when they share the index tag and the index's bucketing field   *)
(* (T, E, A, or the referenced entity for VAET).                           *)
(***************************************************************************)
PrefixAgreesWithBucket ==
    (prefixes[1] = prefixes[2])
        <=> (IntendedBucket(Entries[lhs]) = IntendedBucket(Entries[rhs]))

(***************************************************************************)
(* Transitivity (spec 8): along two consecutive calls Compare(a, b) and    *)
(* Compare(b, c) of the engine's walk, a <= b and b <= c give a <= c, and  *)
(* strictly when either step is strict.  The float comparison, where      *)
(* `<=>` is only a partial order, is where this can fail.                  *)
(***************************************************************************)
TransitiveAlongWalk ==
    [][result # 1 /\ result' # 1 =>
         CompareTable[lhs][rhs'] = (IF result = 0 /\ result' = 0 THEN 0 ELSE -1)]_vars
=============================================================================
