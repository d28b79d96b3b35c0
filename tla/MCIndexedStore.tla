--------------------------- MODULE MCIndexedStore ---------------------------
(***************************************************************************)
(* Datoms for the IndexedStore model.                                      *)
(*                                                                         *)
(* MCEntry: two entities that differ in the partition byte (1 and 2^56),   *)
(* transactions 1 and 256 (ordered differently by their first byte than   *)
(* by value) and Int64 values -1 and 1 (ordered differently as unsigned   *)
(* bytes), in the EAVT and AEVT indexes.  Transaction 256 retracts, so no *)
(* two datoms differ only in the retract flag (an assertion and its        *)
(* retraction are never written in the same transaction).  Then entity 1  *)
(* referring to each of the two entities in transaction 1, in the AVET    *)
(* and VAET indexes: the two references differ only in the top byte, the  *)
(* part of the id that the VAET bucket shifts into place.                 *)
(*                                                                         *)
(* The other entry sets hold one entity's text values "a" and "b" of one  *)
(* attribute in the EAVT index.                                            *)
(***************************************************************************)
EXTENDS IndexedStore

\* A set as a sequence, in the order CHOOSE picks its elements.
RECURSIVE AsSeq(_)
AsSeq(S) == IF S = {} THEN <<>>
            ELSE LET x == CHOOSE y \in S : TRUE IN <<x>> \o AsSeq(S \ {x})

\* Entries for the given datoms in the given indexes, numbered.
EntriesOf(datoms, indexes) == AsSeq({ElemOf(d, idx) : d \in datoms, idx \in indexes})

DatomsOf(entities, txs, values) ==
    {[e |-> e, a |-> {0}, t |-> t, r |-> t = {8}, v |-> v] :
        e \in entities, v \in values, t \in txs}

MCEntry ==
    EntriesOf(DatomsOf({{0}, {56}}, {{0}, {8}}, {IntValue(Int64, -1), IntValue(Int64, 1)}),
              {EAVTCurrent, AEVTHistory})
      \o EntriesOf(DatomsOf({{0}}, {{0}}, {RefValue({0}), RefValue({56})}),
                   {AVETHistory, VAETCurrent})

\* Utf8 "a" and "b", both asserted in transaction 1.
MCUtf8OneTxEntry ==
    EntriesOf(DatomsOf({{0}}, {{0}}, {StrValue(Utf8, <<97>>), StrValue(Utf8, <<98>>)}),
              {EAVTCurrent})

\* Utf8Insensitive "a" and "b", both asserted in transaction 1.
MCInsensitiveEntry ==
    EntriesOf(DatomsOf({{0}}, {{0}}, {StrValue(Utf8Insensitive, <<97>>),
                                      StrValue(Utf8Insensitive, <<98>>)}),
              {EAVTCurrent})
=============================================================================
