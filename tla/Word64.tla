------------------------------- MODULE Word64 -------------------------------
(***************************************************************************)
(* Unsigned 64-bit machine words, as used by the KeyPrefix struct and the  *)
(* comparators.  TLC integers are 32 bits wide, so a word is represented   *)
(* by the SET OF POSITIONS OF ITS 1-BITS (a subset of 0..63).  The C++     *)
(* operators the code applies to uint64_t then become exact set           *)
(* operations:                                                             *)
(*     w & m   ->  w \cap m          w | m   ->  w \cup m                  *)
(*     ~w      ->  Bit \ w           w << k  ->  Shl(w, k) (bits >63 lost) *)
(*     w >> k  ->  Shr(w, k)         (uintN_t)w -> w \cap 0..N-1           *)
(* and a hexadecimal mask such as 0x000000FFFFFFFFFF is the bit range      *)
(* 0..39.  Nothing is lost by the representation: every uint64_t value is  *)
(* exactly one subset of 0..63.                                            *)
(***************************************************************************)
EXTENDS Integers, Sequences, FiniteSetsExt

\* Bit positions of a uint64_t.
Bit == 0 .. 63

Word == SUBSET Bit

\* w << k on uint64_t: bits shifted past position 63 are discarded.
Shl(w, k) == {i + k : i \in {j \in w : j + k <= 63}}

\* w >> k on uint64_t (logical shift).
Shr(w, k) == {i - k : i \in {j \in w : j >= k}}

\* The word holding the small natural number n (n < 2^31), e.g. a literal,
\* an enum value or a byte.
Num(n) == {i \in 0 .. 30 : (n \div 2^i) % 2 = 1}

\* The natural number held by a word whose bits all lie below 31.
Val(w) == MapThenSumSet(LAMBDA i : 2^i, w)

\* The j-th byte (j = 0 is the lowest) of w: on the little-endian targets
\* this library is built for, byte j of the in-memory image of a uint64_t.
ByteOf(w, j) == Val(Shr(w \cap (8 * j) .. (8 * j + 7), 8 * j))

\* The 8-byte in-memory image of a uint64_t (little-endian).
Image(w) == [j \in 1 .. 8 |-> ByteOf(w, j - 1)]

\* The uint64_t whose in-memory image is the byte sequence bs (Len(bs) = 8):
\* what *reinterpret_cast<const uint64_t*>(p) reads.
FromImage(bs) == UNION {Shl(Num(bs[j]), 8 * (j - 1)) : j \in 1 .. 8}

(***************************************************************************)
(* cmp(a, b) of Comparers.h on two uint64_t: -1, 0 or 1.  Two distinct     *)
(* words are ordered by the highest bit in which they differ.              *)
(***************************************************************************)
Cmp(a, b) ==
    IF a = b THEN 0
    ELSE IF Max(SymDiff(a, b)) \in a THEN 1 ELSE -1

(***************************************************************************)
(* Lexicographic comparison of the first n entries of two byte sequences, *)
(* each byte unsigned: memcmp's order, and the order of two equal-width    *)
(* integers written most significant byte first.                          *)
(***************************************************************************)
LexCmp(x, y, n) ==
    LET D == {i \in 1 .. n : x[i] # y[i]}
    IN  IF D = {} THEN 0
        ELSE IF x[Min(D)] < y[Min(D)] THEN -1 ELSE 1
=============================================================================
