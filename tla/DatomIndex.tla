------------------------------ MODULE DatomIndex ------------------------------
(***************************************************************************)
(* Datoms, the keys the layer above writes for them, and the order and     *)
(* scan buckets the indexes are meant to have (spec 3, 4.2, 4.4, 4.6),     *)
(* stated on the datom's fields and not on bytes: the yardstick the       *)
(* byte-level comparators and prefix extractor are checked against.        *)
(*                                                                         *)
(* A datom is [e, a, t : words, r : BOOLEAN, v : value]; a value is       *)
(* [tag, n, s, w]: a number n for the integer tags, a byte string s for    *)
(* Ascii/Utf8/Utf8Insensitive/Blob, an EntityId word w for Reference.      *)
(* An element of an index is [key, d, idx]: the stored slice, with the     *)
(* datom and the index it was written for.                                 *)
(***************************************************************************)
EXTENDS KeyPrefix

SignedTags == {Int16, Int32, Int64, Int128}
UnsignedTags == {UInt8, UInt16, UInt32, UInt64, UInt128}
StringTags == {Ascii, Utf8, Utf8Insensitive, Blob}
FloatTags == {Float32, Float64}
TagWidth(tag) ==
    CASE tag \in {UInt8}                -> 1
      [] tag \in {UInt16, Int16}        -> 2
      [] tag \in {UInt32, Int32}        -> 4
      [] tag \in {UInt128, Int128}      -> 16
      [] OTHER                          -> 8

IntValue(tag, n) == [tag |-> tag, n |-> n, s |-> <<>>, w |-> {}]
StrValue(tag, s) == [tag |-> tag, n |-> 0, s |-> s, w |-> {}]
RefValue(w) == [tag |-> Reference, n |-> 0, s |-> <<>>, w |-> w]
\* A float: its IEEE-754 bytes (little-endian) in s, and in n its rank among
\* the floats of a model, equal ranks for equal numbers (-0 = +0).  A NaN
\* has no place in the order; its rank is never compared with another.
FloatValue(tag, rank, bytes) == [tag |-> tag, n |-> rank, s |-> bytes, w |-> {}]

(***************************************************************************)
(* The value payload the writer appends to the prefix: integers           *)
(* little-endian two's complement of their tag's width (|n| < 2^23 here), *)
(* strings and floats as their bytes, references as the 8-byte EntityId. *)
(***************************************************************************)
Payload(v) ==
    CASE v.tag \in SignedTags \cup UnsignedTags ->
            [i \in 1 .. TagWidth(v.tag) |->
                IF i <= 3 THEN (v.n \div (2 ^ (8 * (i - 1)))) % 256
                ELSE IF v.n < 0 THEN 255 ELSE 0]
      [] v.tag \in StringTags \cup FloatTags -> v.s
      [] v.tag = Reference    -> Image(v.w)
      [] OTHER                -> <<>>

KeyOf(d, idx) ==
    [prefix |-> Create(d.e, d.a, d.t, d.r, Num(d.v.tag), Num(idx)),
     value  |-> Payload(d.v)]

ElemOf(d, idx) == [key |-> KeyOf(d, idx), d |-> d, idx |-> idx]

-----------------------------------------------------------------------------
(* The intended order (spec 4.2, 4.4, 4.5). *)

Sign(n) == IF n < 0 THEN -1 ELSE IF n > 0 THEN 1 ELSE 0

\* Byte strings: lexicographic, a proper prefix first.
StrCmp(x, y) ==
    LET m == IF Len(x) < Len(y) THEN Len(x) ELSE Len(y)
        c == LexCmp(x, y, m)
    IN  IF c # 0 THEN c ELSE Sign(Len(x) - Len(y))

\* Values: the tag first, then the value as a number or as text.
ValueCmp(v1, v2) ==
    CASE v1.tag # v2.tag                              -> Sign(v1.tag - v2.tag)
      [] v1.tag \in SignedTags \cup UnsignedTags
                     \cup FloatTags                  -> Sign(v1.n - v2.n)
      [] v1.tag \in StringTags                        -> StrCmp(v1.s, v2.s)
      [] v1.tag = Reference                           -> Cmp(v1.w, v2.w)
      [] OTHER                                        -> 0

FieldCmp(f, x, y) ==
    CASE f = "E" -> Cmp(x.d.e, y.d.e)
      [] f = "A" -> Cmp(x.d.a, y.d.a)
      [] f = "T" -> Cmp(x.d.t, y.d.t)
      [] f = "V" -> ValueCmp(x.d.v, y.d.v)
      [] f = "R" -> Cmp(x.d.v.w, y.d.v.w)

\* Field priority of each index (spec 4.4); None falls back to EAVT.
Priority(idx) ==
    CASE idx = TxLog                          -> <<"T", "E", "A", "V">>
      [] idx \in {AEVTCurrent, AEVTHistory}   -> <<"A", "V", "E", "T">>
      [] idx \in {AVETCurrent, AVETHistory}   -> <<"A", "E", "V", "T">>
      [] idx \in {VAETCurrent, VAETHistory}   -> <<"R", "A", "E", "T">>
      [] OTHER                                -> <<"E", "A", "V", "T">>

IntendedCmp(x, y) ==
    IF x.idx # y.idx THEN Sign(x.idx - y.idx)
    ELSE LET p == Priority(x.idx)
             D == {i \in 1 .. 4 : FieldCmp(p[i], x, y) # 0}
         IN  IF D = {} THEN 0 ELSE FieldCmp(p[Min(D)], x, y)

IntendedBefore(x, y) == IntendedCmp(x, y) < 0

\* The field that buckets a key of each index (spec 4.6).
IntendedBucket(x) ==
    <<x.idx,
      CASE x.idx = TxLog                                  -> x.d.t
        [] x.idx \in {EAVTCurrent, EAVTHistory}           -> x.d.e
        [] x.idx \in {AEVTCurrent, AEVTHistory,
                      AVETCurrent, AVETHistory}           -> x.d.a
        [] x.idx \in {VAETCurrent, VAETHistory}           -> x.d.v.w
        [] OTHER                                          -> {}>>
=============================================================================
