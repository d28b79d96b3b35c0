-------------------------------- MODULE Codec --------------------------------
(***************************************************************************)
(* One KeyPrefix, built by its field constructor and then edited in place  *)
(* by the setters of datom.h / KeyPrefix.cpp in any order, or read back    *)
(* from its bytes by KeyPrefix::Read (KeyPrefix.cpp).  The ghost variable  *)
(* `written` records the value the caller last gave each field, so the     *)
(* getters can be compared with what was written after any sequence of     *)
(* calls.                                                                  *)
(***************************************************************************)
EXTENDS KeyPrefix

CONSTANTS
    Entities,     \* EntityId arguments (words)
    Attributes,   \* AttributeId arguments (uint16_t words)
    Txs,          \* TxId arguments (words)
    Tags,         \* ValueTags arguments (uint8_t words)
    Indexes,      \* IndexType arguments (uint8_t words)
    Threw         \* model value: KeyPrefix::Read threw std::invalid_argument

ASSUME Attributes \subseteq SUBSET (0 .. 15)
ASSUME Tags \cup Indexes \subseteq SUBSET (0 .. 7)

VARIABLES
    key,          \* the KeyPrefix struct (Upper, Lower)
    written,      \* ghost: field values last passed by the caller
    lastRead      \* the buffer and result of the last call, if it was Read

vars == <<key, written, lastRead>>

NoRead == [buf |-> <<>>, result |-> Threw]

Init ==
    \E id \in Entities, a \in Attributes, t \in Txs, r \in BOOLEAN,
       tag \in Tags, idx \in Indexes :
        /\ key = Create(id, a, t, r, tag, idx)
        /\ written = [e |-> id, a |-> a, t |-> t, r |-> r, tag |-> tag, idx |-> idx]
        /\ lastRead = NoRead

CallSetE(v) ==
    /\ key' = SetE(key, v)
    /\ written' = [written EXCEPT !.e = v]
    /\ lastRead' = NoRead

CallSetA(v) ==
    /\ key' = SetA(key, v)
    /\ written' = [written EXCEPT !.a = v]
    /\ lastRead' = NoRead

CallSetT(v) ==
    /\ key' = SetT(key, v)
    /\ written' = [written EXCEPT !.t = v]
    /\ lastRead' = NoRead

CallSetIsRetract(v) ==
    /\ key' = SetIsRetract(key, v)
    /\ written' = [written EXCEPT !.r = v]
    /\ lastRead' = NoRead

CallSetValueTag(v) ==
    /\ key' = SetValueTag(key, v)
    /\ written' = [written EXCEPT !.tag = v]
    /\ lastRead' = NoRead

CallSetIndex(v) ==
    /\ key' = SetIndex(key, v)
    /\ written' = [written EXCEPT !.idx = v]
    /\ lastRead' = NoRead

(***************************************************************************)
(* KeyPrefix::Read(bytes) declares `KeyPrefix prefix;`, which runs the     *)
(* default constructor, and that constructor throws std::invalid_argument *)
(* before the memcpy is reached: every call throws, whatever the length.   *)
(***************************************************************************)
ReadThrows(buf) == Threw

CallRead(n) ==
    LET buf == SubSeq(PrefixImage(key), 1, n)
    IN  /\ lastRead' = [buf |-> buf, result |-> ReadThrows(buf)]
        /\ UNCHANGED <<key, written>>

Next ==
    \/ \E v \in Entities : CallSetE(v)
    \/ \E v \in Attributes : CallSetA(v)
    \/ \E v \in Txs : CallSetT(v)
    \/ \E v \in BOOLEAN : CallSetIsRetract(v)
    \/ \E v \in Tags : CallSetValueTag(v)
    \/ \E v \in Indexes : CallSetIndex(v)
    \/ \E n \in {10, 16} : CallRead(n)

Spec == Init /\ [][Next]_vars

-----------------------------------------------------------------------------
(* Invariants *)

TypeOK ==
    /\ key \in [Upper : Word, Lower : Word]
    /\ written \in [e : Entities, a : Attributes, t : Txs, r : BOOLEAN,
                    tag : Tags, idx : Indexes]
    /\ lastRead.result \in {Threw} \cup [Upper : Word, Lower : Word]

(***************************************************************************)
(* Field isolation (spec 4.1, 8): after any sequence of constructor and    *)
(* setter calls with in-range arguments, every getter returns the value    *)
(* last written to its own field -- no setter's mask or shift disturbed a  *)
(* field sharing its 64-bit word.                                          *)
(***************************************************************************)
FieldsRoundTrip ==
    /\ E(key) = written.e
    /\ A(key) = written.a
    /\ T(key) = written.t
    /\ IsRetract(key) = written.r
    /\ ValueTag(key) = written.tag
    /\ Index(key) = written.idx

(***************************************************************************)
(* Entity packing (spec 8): for every 64-bit entity id, E(SetE(k, id)) =   *)
(* id: the split of E into its top byte and low 48 bits loses nothing.     *)
(***************************************************************************)
EntityRoundTrip == E(key) = written.e

(***************************************************************************)
(* Transaction width, as the comment on KeyPrefix::T (KeyPrefix.cpp:88)    *)
(* states it: ids below 2^56 are supported, the top 8 bits being kept for *)
(* the partition; so T(SetT(k, t)) = t for every such t.                  *)
(***************************************************************************)
TxRoundTrip == T(key) = written.t

(***************************************************************************)
(* Decode (spec 4.1): KeyPrefix::Read on the 16-byte image of a prefix     *)
(* returns that prefix.                                                    *)
(***************************************************************************)
ReadDecodes ==
    Len(lastRead.buf) = 16 => lastRead.result = key
=============================================================================
