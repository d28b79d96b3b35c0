CONSTANTS
    Entry <- MCOrderedEntry
SPECIFICATION Spec
INVARIANTS
    CompareAgreesWithIndexOrder
    PrefixAgreesWithBucket
