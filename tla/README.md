# TLA+ models of the MnemonicDB native layer

This directory holds TLA+ models of the native (C++) part of NexusMods.MnemonicDB:
- the packed 16-byte datom key (`KeyPrefix`);
- the comparators that order keys inside RocksDB;
- the prefix extractor that buckets them for scans;
- `mnemonicdb_open`, which wires those plug-ins into a RocksDB database.

Each model is checked with TLC. `PROJECT.json` lists the components, runs, definition-to-source map, mutants, findings and hazards.

## The system

| Part | Source | What it does |
|---|---|---|
| KeyPrefix codec | `datom.h:156-240`, `Abstractions/Internals/KeyPrefix.cpp` | Packs E (64-bit), A (16-bit), T (40-bit), IsRetract, the 7-bit ValueTag and the 8-bit Index into two `uint64_t` words. Getters and setters use masks and shifts; `Read` rebuilds a prefix from bytes. |
| Field/value comparators | `Comparers.h` | `Comparers`, `AComparer` and `TComparer` mask one field each. `ReferenceComparer` reads the EntityId payload. `ValueComparer` compares the tag, then the payload by tag (reinterpreted integer or float, or `memcmp`). `ADatomComparator<A,B,C,D>` chains four comparators. |
| Global comparator | `library.cpp:10-62` | Orders keys by the index byte first, then with that index's comparator (EAVT for `None` and unknown indexes). |
| Prefix extractor | `library.cpp:64-122` | Maps a key to an 8-byte bucket: the index in the top byte, then E, A, T or the referenced entity. |
| `mnemonicdb_open` | `library.cpp:124-156`, `library.h` | Builds options (comparator, extractor, a memory environment if asked) and opens the database. |
| RocksDB (external) | spec §2, §4.5, §6 | Calls the comparator on every insert, lookup and seek, and the extractor during prefix iteration. |
| Datom writer (C#, external) | spec §3, §4 | Writes the key of a datom per index; defines the intended order and buckets. |

How the parts interact: the engine owns the keys and calls the two stateless plug-ins. Whether the database behaves as a set of datoms depends entirely on those plug-ins forming a strict weak order, with buckets that are contiguous in that order.

## Modules

| Module | Models | State / actions |
|---|---|---|
| `Word64` | 64-bit words as sets of bit positions (TLC integers are 32-bit); `cmp`, little-endian images, `memcmp` | operators only |
| `KeyPrefix` | the struct, its enums, constructor, getters, setters, Min/Max, byte image | operators only |
| `Codec` | one `KeyPrefix` under any sequence of setter calls and `Read` | `key`, ghost `written`, `lastRead`; one action per setter, `CallRead` |
| `DatomComparers` | every comparator of `Comparers.h` | operators only |
| `Library` | `Comparator::Compare`, `PrefixExtractor::InDomain`/`Transform` | operators only |
| `DatomIndex` | the datom-to-key writer (from the spec) and the *intended* order and buckets | operators only: the yardstick |
| `ComparatorCalls` | the engine calling Compare and Transform on any pair of keys, in any order | `lhs`, `rhs`, `result`, `prefixes`; `Call` |
| `MemTable` | RocksDB's memtable: sorted insert with shadowing, `Get`, prefix `Scan` (from the spec) | `mem`, `ret`; `Put`, `Get`, `Scan` |
| `KeyStore` | the abstract promise: a *set* of keys, exact Get, bucketed Scan | `store`, `ret` |
| `IndexedStore` | `MemTable` instantiated with the library's comparator and extractor; refines `KeyStore` | via `INSTANCE MemTable`; refinement `store <- Range(mem)` |
| `ShortKeyCalls` | the engine handing the plug-ins whole keys or 16-byte bare-prefix bounds; how far each call reads (`Library!TransformExtent`, `Library!CompareExtent`) | `called`; `Extract`, `Compare` |
| `MnemonicOpen` | `mnemonicdb_open` with stores on disk and the engine's open rules | `disk`, `handles`; `Open` |

Each `MC*` module supplies the bounded inputs for one model.

Model faults are stated as "Faulty variant of X" operators placed just before X (for example `SetValueTagClearsLowByte` and `ComparersWithoutPartition`). Substituting one for X must make the run's property fail.

## Runs

| Run | Expect | Shows |
|---|---|---|
| `codec_fields` (MCCodec.cfg) | pass | `FieldsRoundTrip`: after any sequence of setter calls, every getter returns the value last written to its field. The inputs sit at every field's edge bits. |
| `codec_entity_roundtrip` | violation | `EntityRoundTrip`: an id with bit 48 set reads back as 0. |
| `codec_read` | violation | `ReadDecodes`: `Read` throws even on a full 16-byte image. |
| `codec_tx_width` | violation | `TxRoundTrip`: transaction id 2^40 reads back as 0. The comment at `KeyPrefix.cpp:88` promises ids up to 2^56, but the code keeps 40 bits, as spec §3 says. |
| `comparator_calls` | pass | On 333 keys (details below): `CompareAgreesWithIndexOrder` (every pair of keys gets the sign of the intended order) and `PrefixAgreesWithBucket` (two keys share a prefix exactly when they share the intended bucket). Every pair of keys is an initial state and the intended order is a strict total order, so the first property also makes the code's comparator antisymmetric and transitive on these keys. |
| `comparator_utf8_order` | violation | `DistinctKeysInIndexOrder`: text keys are ordered by T's first byte before the value. |
| `store_numeric` | pass | `SortedInIndexOrder`, `StoreRefinement`: with Int64 values and references, a memtable run by the library stays sorted in index order and behaves as the abstract key set. |
| `store_utf8_get` | violation | `StoreRefinement`: a stored Utf8 key is not found by `Get`, because it compares 1 with itself. |
| `store_insensitive_collapse` | violation | `StoreRefinement`: a second Utf8Insensitive datom replaces the first. |
| `open_readonly` | violation | `OpenHonoursReadonly`: the `readonly` flag is inverted. |
| `comparator_nan_order` | violation | `TransitiveAlongWalk` (an action property over two consecutive calls a?b, b?c): NaN compares equal (0) to both 1.0 and 2.0, because `cmp` (`Comparers.h:23`) returns 0 for unordered values, yet 1.0 < 2.0. So 1.0 = NaN and NaN = 2.0 do not give 1.0 = 2.0. |
| `short_key_reads` | violation | `ReadsWithinKey`: a 16-byte VAET bound built from a bare `KeyPrefix` passes `InDomain`, and `Transform` reads to byte 24. `Compare` (via `ReferenceComparer` and `ReinterpretCompare`) reads past such a bound in the same way. |

The 333 keys of `comparator_calls` are 261 integer and reference keys plus 72 float keys. The integer and reference keys cover every fixed-width integer tag and references, in the None, TxLog, EAVT, AEVT, AVET and VAET indexes (None sorts with the EAVT comparator and buckets by the index byte alone), with values on byte boundaries, on both sides of zero, and in different partitions. The float keys hold Float32 and Float64 values -inf, -1, the negative and positive smallest subnormals, -0, +0, 1, 2 and +inf, for two entities in the EAVT and AVET indexes. -0 and +0 are meant to compare equal.

## Bounds

- **Codec.** Entity words exercise the top byte, bit 47 and bit 0. The entity-roundtrip run adds bits 48 and 55. Attributes reach bit 15 and transactions bit 39, each field's highest bit. Tags reach 127, the highest 7-bit tag. Index bytes include 128, which sets bit 47, the top of the index field. The tx-width run adds transaction bits 40 and 55.
- **ComparatorCalls.** Entities are 1, 256 and 2^56+1. Integers are 0/1/255/256 for unsigned tags and -256/-1/1 for signed tags, so sign, byte order and width all matter. Transactions are 1 and 256. Every pair of keys is a reachable state.
- **IndexedStore.** `MaxKeys = 3` with 20 entries:
  - two partitions of E;
  - transactions 1 and 256;
  - Int64 -1 and 1;
  - EAVT and AEVT indexes;
  - references from entity 1 to entities 1 and 2^56+1, asserted in transaction 1, in the AVET and VAET indexes. They differ only in the top byte, which `Transform` moves for the VAET bucket. They make `ReferenceComparer` and the VAET bucket decide inserts, lookups and scans.

  Every Int64 datom is asserted in transaction 1 and retracted in transaction 256. So each assertion has a retraction that differs only in T and the retract flag, the pair the E comparator's mask (`Comparers.h:29`) cannot tell apart by the flag. A pair in one transaction is never written (spec §4.4).

  This is enough to make every comparator in the chain decide some insertion. It lets a Scan start inside a bucket and cross into another.
- **ComparatorCalls, floats.** The values above cover the sign bit, the exponent edges (subnormals, infinities) and the signed zeros, where comparing the raw bits would go wrong. The NaN run adds one quiet NaN next to 1 and 2.
- **ShortKeyCalls.** Three keys: a reference datom in the TxLog, EAVT, AEVT and VAET indexes, one in VAET with another entity, and a UInt64 datom in EAVT. Each key is passed whole or as its 16-byte prefix.
- **MnemonicOpen.** Two paths, each possibly holding a store of this or another comparator. There is no bound on the calls: the state space is finite because handles form a set.

## Fairness and liveness

All properties are safety properties. The comparators and the codec are pure functions, and `mnemonicdb_open` is a single synchronous call. None of them waits on anything, so no fairness is assumed. The memtable model (`MemTable`) makes each Put, Get and Scan one atomic step over a bounded run, as the engine's synchronous calls are. No step of any model waits for another actor, and no result is promised for later, so there is no liveness property to state.

## Not modelled

- `ToString` and logging (formatting only).
- `FindShortestSeparator` and `FindShortSuccessor` (empty bodies).
- Memory leaks (`new char[8]` per Transform, `new Comparator()` and `NewMemEnv` per open).
- What an out-of-bounds read returns. `ShortKeyCalls` only records how far a read goes.
- Entity ids with bits 48..55 set. The spec (§3, §4.6) defines an id by its top byte and low 48 bits, so such ids are outside the id range. `codec_entity_roundtrip` shows the key loses those bits.
- Value tags of 128 and above. `SetValueTag` takes any `uint8_t`, but the spec limits tags to 7 bits, so the model enumerates only the declared tags.
- RocksDB beyond the memtable: SST files, compaction, WAL, bloom filters.

## Plan for later work

No item is open. Every operation of the repository's code that changes state is an action of a module. What is left out is listed under "Not modelled", with the reason. The -0/+0 equality is the spec's intended IEEE order, which `comparator_calls` confirms, so it is not a defect to chase.
