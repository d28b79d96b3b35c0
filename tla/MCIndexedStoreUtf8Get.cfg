CONSTANTS
    Entry <- MCUtf8OneTxEntry
    MaxKeys = 3
SPECIFICATION Spec
PROPERTIES
    StoreRefinement
