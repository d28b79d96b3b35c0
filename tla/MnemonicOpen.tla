----------------------------- MODULE MnemonicOpen -----------------------------
(***************************************************************************)
(* mnemonicdb_open(path, in_memory, readonly) of library.cpp, with the     *)
(* part of RocksDB it drives: the databases on disk (each remembers the    *)
(* comparator name it was created with), a fresh memory environment per   *)
(* in-memory open, and the handles returned.  The library has no close    *)
(* function, so a handle stays open for the life of the process.           *)
(***************************************************************************)
EXTENDS Naturals, FiniteSets

CONSTANTS
    Paths,          \* database paths
    NoDb,           \* model value: nothing stored at a path
    OtherName       \* a comparator name other than "GlobalCompare"

\* Comparator::Name().
ComparatorName == "GlobalCompare"

VARIABLES
    disk,           \* path -> NoDb or the comparator name the database was created with
    handles         \* open rocksdb::DB handles: [path, inMemory, onDisk, readonly, requested]

vars == <<disk, handles>>

Init ==
    /\ disk \in [Paths -> {NoDb, ComparatorName, OtherName}]
    /\ handles = {}

(***************************************************************************)
(* RocksDB's DB::Open with create_if_missing (the read-write open) and     *)
(* DB::OpenForReadOnly on a store holding `stored`: {name} with the name   *)
(* the store then holds, or {} when the engine refuses -- a missing store *)
(* opened read-only, a comparator name other than the persisted one, or   *)
(* the LOCK file of an on-disk store held by a read-write handle.          *)
(***************************************************************************)
Locked(path, onDisk) ==
    onDisk /\ \E h \in handles : h.path = path /\ h.onDisk /\ ~h.readonly

EngineOpen(stored, path, onDisk, asReadonly) ==
    CASE stored # NoDb /\ stored # ComparatorName  -> {}
      [] asReadonly /\ stored = NoDb               -> {}
      [] ~asReadonly /\ Locked(path, onDisk)       -> {}
      [] OTHER                                     -> {ComparatorName}

\* options.env: NewMemEnv when in_memory, else Env::Default (the files at path).
OnDisk(inMemory) == ~inMemory

(***************************************************************************)
(* mnemonicdb_open: options with the Comparator and PrefixExtractor, the  *)
(* memory or default environment, then `if (readonly) DB::Open else       *)
(* DB::OpenForReadOnly`; nullptr (no handle) on a failed status.          *)
(***************************************************************************)
Open(path, inMemory, readonly) ==
    LET onDisk     == OnDisk(inMemory)
        stored     == IF onDisk THEN disk[path] ELSE NoDb
        asReadonly == ~readonly
        outcome    == EngineOpen(stored, path, onDisk, asReadonly)
        handle     == [path |-> path, inMemory |-> inMemory, onDisk |-> onDisk,
                       readonly |-> asReadonly, requested |-> readonly]
    IN  IF outcome = {}
        THEN UNCHANGED vars
        ELSE /\ disk' = IF onDisk THEN [disk EXCEPT ![path] = ComparatorName] ELSE disk
             /\ handles' = handles \cup {handle}

Next == \E p \in Paths, m \in BOOLEAN, r \in BOOLEAN : Open(p, m, r)

Spec == Init /\ [][Next]_vars

-----------------------------------------------------------------------------
(* Properties *)

TypeOK ==
    /\ disk \in [Paths -> {NoDb, ComparatorName, OtherName}]
    /\ handles \subseteq [path : Paths, inMemory : BOOLEAN, onDisk : BOOLEAN,
                          readonly : BOOLEAN, requested : BOOLEAN]

(***************************************************************************)
(* Open contract (library.h, spec 6): a handle returned for a call with    *)
(* readonly = TRUE is a read-only database, and one returned for           *)
(* readonly = FALSE a writable one.                                        *)
(***************************************************************************)
OpenHonoursReadonly == \A h \in handles : h.readonly = h.requested
=============================================================================
