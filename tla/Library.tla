------------------------------- MODULE Library -------------------------------
(***************************************************************************)
(* The two plug-ins library.cpp registers with RocksDB: the Comparator     *)
(* ("GlobalCompare") that orders every key of the database, and the        *)
(* PrefixExtractor ("ExtractorV1") that maps a key to its 8-byte scan      *)
(* bucket.  Both are pure functions of the key bytes.                      *)
(***************************************************************************)
EXTENDS DatomComparers

\* Comparator::IndexMask = 0xFF << 40: the Index byte of Upper.
IndexBits(s) == s.prefix.Upper \cap 40 .. 47

(***************************************************************************)
(* Comparator::Compare: keys of different indexes are ordered by their     *)
(* index byte alone; keys of one index by that index's comparator, and     *)
(* None or an unknown index by the EAVT comparator.                        *)
(***************************************************************************)
GlobalCompare(a, b) ==
    LET aIndex == IndexBits(a)
        bIndex == IndexBits(b)
        index  == Val(Shr(aIndex, 40))
    IN  CASE aIndex # bIndex                       -> Cmp(aIndex, bIndex)
          [] index = TxLog                         -> TxLogComparator(a, b)
          [] index \in {EAVTCurrent, EAVTHistory}  -> EAVTComparator(a, b)
          [] index \in {AEVTCurrent, AEVTHistory}  -> AEVTComparator(a, b)
          [] index \in {AVETCurrent, AVETHistory}  -> AVETComparator(a, b)
          [] index \in {VAETCurrent, VAETHistory}  -> VAETComparator(a, b)
          [] OTHER                                 -> EAVTComparator(a, b)

\* Bytes from data() one Comparator::Compare(a, b) call reads of each key.
CompareExtent(a, b) ==
    LET index == Val(Shr(IndexBits(a), 40))
        cE == Comparers(a, b)
        cA == AComparer(a, b)
        cV == ValueComparer(a, b)
        vEnd == ValueExtent(a, b)
    IN  CASE IndexBits(a) # IndexBits(b)             -> 8
          [] index = TxLog                           -> ADatomExtent(TComparer(a, b), cE, cA, 8, 16, 8, vEnd)
          [] index \in {AEVTCurrent, AEVTHistory}    -> ADatomExtent(cA, cV, cE, 8, vEnd, 16, 8)
          [] index \in {AVETCurrent, AVETHistory}    -> ADatomExtent(cA, cE, cV, 8, 16, vEnd, 8)
          [] index \in {VAETCurrent, VAETHistory}    -> ADatomExtent(ReferenceComparer(a, b), cA, cE, 24, 8, 16, 8)
          [] OTHER                                   -> ADatomExtent(cE, cA, cV, 16, 8, vEnd, 8)

\* PrefixExtractor::PrefixSize.
PrefixSize == 8

\* PrefixExtractor::InDomain, on key.size().
InDomain(size) == size >= PrefixSize

(***************************************************************************)
(* PrefixExtractor::Transform: the index in the top byte, OR'd with the    *)
(* field that buckets keys of that index.  For VAET the EntityId at        *)
(* data() + 16 is packed by moving its top byte down into bits 48..55.     *)
(* The result is the uint64_t written to the new 8-byte blob.              *)
(***************************************************************************)
(***************************************************************************)
(* How many leading bytes of the key Transform reads: Upper (bytes 1..8)  *)
(* for the index and for A or T; Lower (9..16) for EAVT; the EntityId at  *)
(* data() + 16 (17..24) for VAET.  No read is checked against size().      *)
(***************************************************************************)
TransformExtent(s) ==
    LET indexType == Val(Index(s.prefix))
    IN  CASE indexType \in {EAVTCurrent, EAVTHistory} -> 16
          [] indexType \in {VAETCurrent, VAETHistory} -> 24
          [] OTHER                                    -> 8

Transform(s) ==
    LET prefix    == s.prefix
        indexType == Val(Index(prefix))
        eid       == FromImage(SubSeq(s.value, 1, 8))
        packed    == Shr(eid \cap 56 .. 63, 8) \cup (eid \cap 0 .. 47)
        field     == CASE indexType \in {EAVTCurrent, EAVTHistory} -> Shr(prefix.Lower, 8)
                       [] indexType \in {AEVTCurrent, AEVTHistory,
                                         AVETCurrent, AVETHistory} -> A(prefix)
                       [] indexType \in {VAETCurrent, VAETHistory} -> packed
                       [] indexType = TxLog                        -> prefix.Upper \cap 0 .. 39
                       [] OTHER                                    -> {}
    IN  Shl(Index(prefix), 56) \cup field
=============================================================================
