------------------------- MODULE MCComparatorCalls -------------------------
(***************************************************************************)
(* Keys of every index for datoms of every fixed-width value tag, with the *)
(* values at the edges where byte order, sign or width matter.             *)
(***************************************************************************)
EXTENDS ComparatorCalls, SequencesExt

RECURSIVE AsSeq(_)
AsSeq(S) == IF S = {} THEN <<>>
            ELSE LET x == CHOOSE y \in S : TRUE IN <<x>> \o AsSeq(S \ {x})

\* Entities 1 and 2^56 + 1 (partition byte 1) and 256 (second byte).
MCEntities == {{0}, {8}, {0, 56}}

\* Integer values around zero and around a byte boundary, per tag.
MCIntValues ==
    {IntValue(tag, n) : tag \in {UInt8, UInt32, UInt128}, n \in {0, 1, 255}}
      \cup {IntValue(tag, n) : tag \in {UInt16, UInt64}, n \in {1, 255, 256}}
      \cup {IntValue(tag, n) : tag \in {Int16, Int32, Int64, Int128}, n \in {-256, -1, 1}}

MCRefValues == {RefValue(w) : w \in MCEntities}

\* One datom per value (attribute 1 for numbers, 2 for references), each
\* with entity, transaction chosen so that E, A, V and T all vary.
MCDatoms ==
    {[e |-> {0}, a |-> {0}, t |-> {0}, r |-> FALSE, v |-> v] : v \in MCIntValues}
      \cup {[e |-> e, a |-> {1}, t |-> t, r |-> FALSE, v |-> v] :
               e \in MCEntities, t \in {{0}, {8}}, v \in MCRefValues}

MCIndexesOf(d) ==
    {None, TxLog, EAVTCurrent, AEVTCurrent, AVETHistory}
        \cup (IF d.v.tag = Reference THEN {VAETCurrent, VAETHistory} ELSE {})

\* Numbered entries: each datom's keys, datom after datom.
MCEntry ==
    LET D == AsSeq(MCDatoms)
        Ix(i) == AsSeq(MCIndexesOf(D[i]))
    IN  FlattenSeq([i \in 1 .. Len(D) |-> [j \in 1 .. Len(Ix(i)) |-> ElemOf(D[i], Ix(i)[j])]])

\* Utf8 "a" and "b" of one entity, asserted in transaction 1 and retracted
\* in transaction 256, in the EAVT index.
MCUtf8Entry ==
    AsSeq({ElemOf([e |-> {0}, a |-> {0}, t |-> t, r |-> t = {8}, v |-> StrValue(Utf8, s)],
                  EAVTCurrent) : t \in {{0}, {8}}, s \in {<<97>>, <<98>>}})

(***************************************************************************)
(* IEEE-754 values, little-endian, with their rank in the real order:      *)
(* -inf, -1, the negative and positive smallest subnormals, -0 and +0      *)
(* (equal), 1, 2, +inf, and a quiet NaN (no rank).                         *)
(***************************************************************************)
F32 == [ninf |-> <<0, 0, 128, 255>>, n1 |-> <<0, 0, 128, 191>>, nsub |-> <<1, 0, 0, 128>>,
        nz |-> <<0, 0, 0, 128>>, z |-> <<0, 0, 0, 0>>, sub |-> <<1, 0, 0, 0>>,
        p1 |-> <<0, 0, 128, 63>>, p2 |-> <<0, 0, 0, 64>>, inf |-> <<0, 0, 128, 127>>,
        nan |-> <<0, 0, 192, 127>>]
F64 == [ninf |-> <<0, 0, 0, 0, 0, 0, 240, 255>>, n1 |-> <<0, 0, 0, 0, 0, 0, 240, 191>>,
        nsub |-> <<1, 0, 0, 0, 0, 0, 0, 128>>, nz |-> <<0, 0, 0, 0, 0, 0, 0, 128>>,
        z |-> <<0, 0, 0, 0, 0, 0, 0, 0>>, sub |-> <<1, 0, 0, 0, 0, 0, 0, 0>>,
        p1 |-> <<0, 0, 0, 0, 0, 0, 240, 63>>, p2 |-> <<0, 0, 0, 0, 0, 0, 0, 64>>,
        inf |-> <<0, 0, 0, 0, 0, 0, 240, 127>>, nan |-> <<0, 0, 0, 0, 0, 0, 248, 127>>]
FloatRank == [ninf |-> -6, n1 |-> -2, nsub |-> -1, nz |-> 0, z |-> 0, sub |-> 1,
              p1 |-> 2, p2 |-> 4, inf |-> 6]

FloatsNamed(names) ==
    {FloatValue(Float32, FloatRank[x], F32[x]) : x \in names}
        \cup {FloatValue(Float64, FloatRank[x], F64[x]) : x \in names}

\* Keys of two entities' ordered floats in the EAVT and AVET indexes.
MCFloatEntry ==
    AsSeq({ElemOf([e |-> e, a |-> {0}, t |-> {0}, r |-> FALSE, v |-> v], idx) :
             e \in {{0}, {8}}, v \in FloatsNamed(DOMAIN FloatRank),
             idx \in {EAVTCurrent, AVETHistory}})

\* The integer and reference keys together with the float keys.
MCOrderedEntry == MCEntry \o MCFloatEntry

\* A NaN next to 1 and 2, in the EAVT index.
MCNaNEntry ==
    AsSeq({ElemOf([e |-> {0}, a |-> {0}, t |-> {0}, r |-> FALSE, v |-> v], EAVTCurrent) :
             v \in FloatsNamed({"p1", "p2"})
                   \cup {FloatValue(Float64, 0, F64.nan)}})
=============================================================================
