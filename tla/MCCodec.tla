------------------------------- MODULE MCCodec -------------------------------
(***************************************************************************)
(* Field values for the Codec model.  Each set holds zero, the lowest and *)
(* the highest bit of its field's range and a mix, so every mask edge of  *)
(* Upper and Lower is exercised.                                           *)
(***************************************************************************)
EXTENDS Codec

\* Entity ids the layout can hold: bits 0..47 (local id) and 56..63
\* (partition byte), including both edges of each range.
MCValidEntities == {{}, {0}, {47}, {56}, {0, 47, 56, 63}}

\* Entity ids with a bit in 48..55, the byte the layout has no room for.
MCAllEntities == MCValidEntities \cup {{48}, {55, 56}}

MCAttributes == {{}, {0}, {15}}

\* TxIds below 2^40 (spec 3: at most 2^40 transactions).
MCTxs == {{}, {0}, {39}}

\* TxIds below 2^56, which the comment on KeyPrefix::T calls supported:
\* bit 40, the first beyond the 40-bit field, and bit 55.
MCCommentTxs == MCTxs \cup {{40}, {55}}

\* Value tags UInt64, Reference and 127, the largest 7-bit tag.
MCTags == {Num(UInt64), Num(Reference), Num(127)}

\* Index bytes TxLog, EAVTCurrent, AVETHistory and 128, which sets bit 47,
\* the top of the index field (SetIndex takes any uint8_t).
MCIndexes == {Num(TxLog), Num(EAVTCurrent), Num(AVETHistory), Num(128)}
=============================================================================
