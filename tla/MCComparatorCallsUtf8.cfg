CONSTANTS
    Entry <- MCUtf8Entry
SPECIFICATION Spec
INVARIANTS
    DistinctKeysInIndexOrder
