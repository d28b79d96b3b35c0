--------------------------- MODULE DatomComparers ---------------------------
(***************************************************************************)
(* The comparators of Comparers.h.  A key handed over by the storage       *)
(* engine (a rocksdb::Slice) is a record                                   *)
(*     [prefix |-> KeyPrefix, value |-> <<byte, ...>>]                    *)
(* whose memory is the 16-byte image of the prefix followed by the value   *)
(* payload.  Every comparator returns -1, 0 or 1 (memcmp's result is       *)
(* reduced to its sign, the only thing any caller looks at).               *)
(***************************************************************************)
EXTENDS KeyPrefix

\* The bytes of a slice, from data() to data() + size().
Data(s) == PrefixImage(s.prefix) \o s.value

\* The n bytes at data() + KeyPrefix::Size, most significant first: the
\* order in which a little-endian integer of that width compares.
Reinterpret(s, n) == [i \in 1 .. n |-> s.value[n + 1 - i]]

(***************************************************************************)
(* Field comparators.                                                      *)
(***************************************************************************)

\* Faulty variant of Comparers: mask 0x00FFFFFFFFFFFF00 drops the partition byte.
ComparersWithoutPartition(a, b) ==
    Cmp(a.prefix.Lower \cap 8 .. 55, b.prefix.Lower \cap 8 .. 55)

\* struct Comparers: Lower & EMask, EMask = 0xFFFFFFFFFFFFFF00.
Comparers(a, b) == Cmp(a.prefix.Lower \cap 8 .. 63, b.prefix.Lower \cap 8 .. 63)

\* struct AComparer: Upper & 0xFFFF000000000000.
AComparer(a, b) == Cmp(a.prefix.Upper \cap 48 .. 63, b.prefix.Upper \cap 48 .. 63)

\* struct TComparer: Upper & 0x000000FFFFFFFFFF.
TComparer(a, b) == Cmp(a.prefix.Upper \cap 0 .. 39, b.prefix.Upper \cap 0 .. 39)

\* struct ReferenceComparer: the EntityId stored at data() + 16.
ReferenceComparer(a, b) == LexCmp(Reinterpret(a, 8), Reinterpret(b, 8), 8)

(***************************************************************************)
(* ValueComparer.                                                          *)
(***************************************************************************)

\* Byte width of the fixed-width tags, by how `cmp` orders them.
UnsignedWidth == [t \in {UInt8, UInt16, UInt32, UInt64, UInt128, HashedBlob, Reference} |->
                    CASE t = UInt8 -> 1 [] t = UInt16 -> 2 [] t = UInt32 -> 4
                      [] t = UInt128 -> 16 [] OTHER -> 8]
SignedWidth == [t \in {Int16, Int32, Int64, Int128} |->
                    CASE t = Int16 -> 2 [] t = Int32 -> 4 [] t = Int64 -> 8 [] OTHER -> 16]
FloatWidth == [t \in {Float32, Float64} |-> IF t = Float32 THEN 4 ELSE 8]

\* ReinterpretCompare<T> for an unsigned T of n bytes.
ReinterpretUnsigned(a, b, n) == LexCmp(Reinterpret(a, n), Reinterpret(b, n), n)

\* ReinterpretCompare<T> for a two's-complement T of n bytes: the sign bit
\* inverted makes the signed order the unsigned one.
Biased(x) == [x EXCEPT ![1] = (@ + 128) % 256]

\* Faulty variant of ReinterpretSigned: the bytes compared as unsigned.
ReinterpretSignedAsUnsigned(a, b, n) ==
    LexCmp(Reinterpret(a, n), Reinterpret(b, n), n)

ReinterpretSigned(a, b, n) ==
    LexCmp(Biased(Reinterpret(a, n)), Biased(Reinterpret(b, n)), n)

(***************************************************************************)
(* ReinterpretCompare<float / double>: `<=>` on IEEE-754 values is a       *)
(* partial order.  cmp() returns 0 unless the result is less or greater,   *)
(* so a NaN compares 0 with everything and +0 compares 0 with -0.  A value *)
(* is its sign bit and its magnitude (the remaining bits); a magnitude     *)
(* above that of infinity is a NaN.                                        *)
(***************************************************************************)
Magnitude(x) == [x EXCEPT ![1] = @ % 128]
Negative(x) == x[1] >= 128
InfinityMagnitude(n) ==
    [i \in 1 .. n |-> CASE i = 1 -> 127
                        [] i = 2 -> (IF n = 4 THEN 128 ELSE 240)
                        [] OTHER -> 0]
IsNaN(x, n) == LexCmp(Magnitude(x), InfinityMagnitude(n), n) = 1
IsZero(x, n) == \A i \in 1 .. n : Magnitude(x)[i] = 0
FloatCmp(x, y, n) ==
    CASE IsNaN(x, n) \/ IsNaN(y, n)    -> 0
      [] IsZero(x, n) /\ IsZero(y, n)  -> 0
      [] Negative(x) # Negative(y)     -> (IF Negative(x) THEN -1 ELSE 1)
      [] Negative(x)                   -> LexCmp(Magnitude(y), Magnitude(x), n)
      [] OTHER                         -> LexCmp(Magnitude(x), Magnitude(y), n)
\* Faulty variant of ReinterpretFloat: the IEEE bits compared as an unsigned integer.
ReinterpretFloatAsUnsigned(a, b, n) == LexCmp(Reinterpret(a, n), Reinterpret(b, n), n)
ReinterpretFloat(a, b, n) == FloatCmp(Reinterpret(a, n), Reinterpret(b, n), n)

(***************************************************************************)
(* CompareMemory(aPtr, bPtr): memcmp over the shorter of the two WHOLE     *)
(* slices (from data(), so the 16 prefix bytes first), then the shorter    *)
(* slice first -- and 1 when both the bytes and the lengths are equal.     *)
(***************************************************************************)
CompareMemory(a, b) ==
    LET x == Data(a)
        y == Data(b)
        c == LexCmp(x, y, IF Len(x) < Len(y) THEN Len(x) ELSE Len(y))
    IN  CASE c # 0            -> c
          [] Len(x) < Len(y)  -> -1
          [] OTHER            -> 1

\* ValueComparer::Compare(type, a, b): the switch on the tag.  The cases
\* Utf8Insensitive and the two tuple tags `break`, and a tag outside the
\* enumeration matches no case; both fall through to `return 0`.
ValueCompareTyped(type, a, b) ==
    CASE type = Null                   -> 0
      [] type \in DOMAIN UnsignedWidth -> ReinterpretUnsigned(a, b, UnsignedWidth[type])
      [] type \in DOMAIN SignedWidth   -> ReinterpretSigned(a, b, SignedWidth[type])
      [] type \in DOMAIN FloatWidth    -> ReinterpretFloat(a, b, FloatWidth[type])
      [] type \in {Ascii, Utf8, Blob}  -> CompareMemory(a, b)
      [] OTHER                         -> 0

\* ValueComparer::Compare(a, b): the tag bytes first, then the payloads.
ValueComparer(a, b) ==
    LET typeA == Val(ValueTag(a.prefix))
        typeB == Val(ValueTag(b.prefix))
    IN  IF typeA # typeB THEN (IF typeA < typeB THEN -1 ELSE 1)
        ELSE ValueCompareTyped(typeA, a, b)

(***************************************************************************)
(* ADatomComparator<A, B, C, D>::Compare: the first non-zero of the four  *)
(* results, in order (TLC evaluates an argument only when it is used).     *)
(***************************************************************************)
ADatomComparator(ca, cb, cc, cd) ==
    CASE ca # 0 -> ca
      [] cb # 0 -> cb
      [] cc # 0 -> cc
      [] OTHER  -> cd

TxLogComparator(a, b) ==
    ADatomComparator(TComparer(a, b), Comparers(a, b), AComparer(a, b), ValueComparer(a, b))
\* Faulty variant of EAVTComparator: T, the last tiebreak, is never reached.
EAVTComparatorWithoutT(a, b) ==
    ADatomComparator(Comparers(a, b), AComparer(a, b), ValueComparer(a, b), 0)
EAVTComparator(a, b) ==
    ADatomComparator(Comparers(a, b), AComparer(a, b), ValueComparer(a, b), TComparer(a, b))
AEVTComparator(a, b) ==
    ADatomComparator(AComparer(a, b), ValueComparer(a, b), Comparers(a, b), TComparer(a, b))
AVETComparator(a, b) ==
    ADatomComparator(AComparer(a, b), Comparers(a, b), ValueComparer(a, b), TComparer(a, b))
VAETComparator(a, b) ==
    ADatomComparator(ReferenceComparer(a, b), AComparer(a, b), Comparers(a, b), TComparer(a, b))

(***************************************************************************)
(* How far from data() a comparator call reads into the keys: Upper and   *)
(* Lower end at bytes 8 and 16; ValueComparer reads both tags (Lower) and, *)
(* for a fixed-width tag, that many payload bytes after the prefix --      *)
(* whatever size() is.  CompareMemory stops at the shorter size().         *)
(***************************************************************************)
ValueExtent(a, b) ==
    LET type == Val(ValueTag(a.prefix))
    IN  CASE type # Val(ValueTag(b.prefix))    -> 16
          [] type \in DOMAIN UnsignedWidth     -> 16 + UnsignedWidth[type]
          [] type \in DOMAIN SignedWidth       -> 16 + SignedWidth[type]
          [] type \in DOMAIN FloatWidth        -> 16 + FloatWidth[type]
          [] OTHER                             -> 16

\* ADatomComparator reads for each comparator it reaches: up to the first
\* non-zero result among the first three, else all four.
ADatomExtent(ca, cb, cc, ea, eb, ec, ed) ==
    CASE ca # 0 -> ea
      [] cb # 0 -> Max({ea, eb})
      [] cc # 0 -> Max({ea, eb, ec})
      [] OTHER  -> Max({ea, eb, ec, ed})
=============================================================================
