------------------------------ MODULE KeyPrefix ------------------------------
(***************************************************************************)
(* The 16-byte KeyPrefix header of every stored datom (datom.h, and its    *)
(* twin in Abstractions/Internals/KeyPrefix.cpp), with the IndexType and   *)
(* ValueTags enumerations.  A KeyPrefix is a record of its two uint64_t    *)
(* words; the operators below are the struct's constructor, getters and    *)
(* in-place setters, each returning the new struct.                        *)
(*                                                                         *)
(*   Upper: A in bits 48..63, Index in 40..47, T in 0..39                  *)
(*   Lower: E's top byte in 56..63, E's low 48 bits in 8..55,              *)
(*          ValueTag in 1..7, IsRetract in bit 0                           *)
(***************************************************************************)
EXTENDS Word64

\* enum IndexType
None == 0
TxLog == 1
EAVTCurrent == 2
EAVTHistory == 3
AEVTCurrent == 4
AEVTHistory == 5
VAETCurrent == 6
VAETHistory == 7
AVETCurrent == 8
AVETHistory == 9

\* enum ValueTags
Null == 0
UInt8 == 1
UInt16 == 2
UInt32 == 3
UInt64 == 4
UInt128 == 5
Int16 == 6
Int32 == 7
Int64 == 8
Int128 == 9
Float32 == 10
Float64 == 11
Ascii == 12
Utf8 == 13
Utf8Insensitive == 14
Blob == 15
HashedBlob == 16
Reference == 17
Tuple3_Ref_UShort_Utf8I == 64
Tuple2_UShort_Utf8I == 65

\* Bit 0 of Lower as a word.
RetractBit(isRetract) == IF isRetract THEN {0} ELSE {}

(***************************************************************************)
(* KeyPrefix(id, attributeId, txId, isRetract, tags, index): all integer   *)
(* arguments are words; attributeId is a uint16_t and tags, index are      *)
(* uint8_t / enum values, so they occupy bits 0..15 and 0..7.              *)
(***************************************************************************)
Create(id, attributeId, txId, isRetract, tags, index) ==
    [Upper |-> Shl(attributeId, 48) \cup (txId \cap 0 .. 39) \cup Shl(index, 40),
     Lower |-> (id \cap 56 .. 63) \cup Shl(id \cap 0 .. 47, 8)
                 \cup RetractBit(isRetract) \cup Shl(tags, 1)]

\* Faulty variant of Index: nine bits, reaching into A.
IndexNineBits(k) == Shr(k.Upper, 40) \cap 0 .. 8

Index(k) == Shr(k.Upper, 40) \cap 0 .. 7

SetIndex(k, value) == [k EXCEPT !.Upper = (@ \ 40 .. 47) \cup Shl(value, 40)]

E(k) == (k.Lower \cap 56 .. 63) \cup (Shr(k.Lower, 8) \cap 0 .. 47)

SetE(k, value) ==
    [k EXCEPT !.Lower = (@ \cap 0 .. 7) \cup (value \cap 56 .. 63)
                          \cup Shl(value \cap 0 .. 47, 8)]

IsRetract(k) == 0 \in k.Lower

SetIsRetract(k, value) ==
    [k EXCEPT !.Lower = IF value THEN @ \cup {0} ELSE @ \ {0}]

ValueTag(k) == Shr(k.Lower, 1) \cap 0 .. 6

\* Faulty variant of SetValueTag: mask 0xFFFFFFFFFFFFFF00 also clears IsRetract.
SetValueTagClearsLowByte(k, value) ==
    [k EXCEPT !.Lower = (@ \ 0 .. 7) \cup Shl(value, 1)]

\* Mask 0xFFFFFFFFFFFFFF01 keeps bit 0 and bits 8..63; value is a uint8_t,
\* so value << 1 reaches bit 8 when value >= 128.
SetValueTag(k, value) ==
    [k EXCEPT !.Lower = (@ \ 1 .. 7) \cup Shl(value, 1)]

A(k) == Shr(k.Upper, 48)

SetA(k, value) == [k EXCEPT !.Upper = (@ \cap 0 .. 47) \cup Shl(value, 48)]

T(k) == k.Upper \cap 0 .. 39

SetT(k, value) == [k EXCEPT !.Upper = (@ \cap 40 .. 63) \cup (value \cap 0 .. 39)]

IsValid(k) == k.Upper # {}

\* KeyPrefix::Min and KeyPrefix::Max.
KeyPrefixMin == [Upper |-> {}, Lower |-> {}]
KeyPrefixMax == [Upper |-> Bit, Lower |-> Bit]

\* The 16-byte in-memory image of a KeyPrefix: Upper then Lower, each
\* little-endian (the struct is two consecutive uint64_t fields).
PrefixImage(k) == Image(k.Upper) \o Image(k.Lower)
=============================================================================
