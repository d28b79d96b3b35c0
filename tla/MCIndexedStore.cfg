CONSTANTS
    Entry <- MCEntry
    MaxKeys = 3
SPECIFICATION Spec
INVARIANTS
    SortedInIndexOrder
PROPERTIES
    StoreRefinement
