---------------------------- MODULE ShortKeyCalls ----------------------------
(***************************************************************************)
(* The engine calling the two plug-ins of library.cpp on the keys it is    *)
(* handed: whole stored keys, and range bounds or seek targets the layer   *)
(* above builds from a bare KeyPrefix (KeyPrefix::Min/Max or a prefix with *)
(* its index and fields set), which are 16 bytes with no value payload.    *)
(* Each call records how many bytes from data() the code reads and how    *)
(* many the slice holds (size()).                                          *)
(***************************************************************************)
EXTENDS Library

CONSTANT Key        \* function from key numbers to full keys [prefix, value]

VARIABLE called     \* the last call: [op, size, extent]

\* Key as a definition, so that TLC evaluates the constant only once.
Keys == Key

\* A key is passed whole, or as its 16-byte prefix alone.
Sizes(i) == {16, Len(Data(Keys[i]))}

NoCall == [op |-> "none", size |-> 0, extent |-> 0]

Init == called = NoCall

\* PrefixExtractor::Transform, which the engine calls when InDomain holds.
Extract(i, n) ==
    /\ InDomain(n)
    /\ called' = [op |-> "transform", size |-> n, extent |-> TransformExtent(Keys[i])]

\* Comparator::Compare on two slices; it has no domain check.
Compare(i, n, j, m) ==
    called' = [op |-> "compare", size |-> Min({n, m}),
               extent |-> CompareExtent(Keys[i], Keys[j])]

Next ==
    \/ \E i \in DOMAIN Keys : \E n \in Sizes(i) : Extract(i, n)
    \/ \E i, j \in DOMAIN Keys : \E n \in Sizes(i), m \in Sizes(j) : Compare(i, n, j, m)

Spec == Init /\ [][Next]_called

(***************************************************************************)
(* Bounded reads (spec 6, MalformedKey): neither plug-in reads a byte      *)
(* beyond the slices it is given: Transform stays within every key         *)
(* InDomain admits, and Compare, which has no domain check, within both    *)
(* keys it compares.                                                       *)
(***************************************************************************)
ReadsWithinKey == called.extent <= called.size
=============================================================================
