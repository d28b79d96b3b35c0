CONSTANTS
    Entry <- MCInsensitiveEntry
    MaxKeys = 3
SPECIFICATION Spec
PROPERTIES
    StoreRefinement
