--------------------------- MODULE MCShortKeyCalls ---------------------------
EXTENDS ShortKeyCalls, DatomIndex

\* The keys of two reference datoms (entities 1 and 256) in the TxLog, EAVT,
\* AEVT and VAET indexes, and of a UInt64 datom in the EAVT index.
MCKey ==
    LET Ref(e) == [e |-> e, a |-> {0}, t |-> {0}, r |-> FALSE, v |-> RefValue(e)]
        Num64  == [e |-> {0}, a |-> {0}, t |-> {0}, r |-> FALSE, v |-> IntValue(UInt64, 1)]
    IN  <<KeyOf(Ref({0}), TxLog), KeyOf(Ref({0}), EAVTCurrent), KeyOf(Ref({0}), AEVTCurrent),
          KeyOf(Ref({0}), VAETCurrent), KeyOf(Ref({8}), VAETCurrent),
          KeyOf(Num64, EAVTCurrent)>>
=============================================================================
