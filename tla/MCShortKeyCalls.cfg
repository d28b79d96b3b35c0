CONSTANTS
    Key <- MCKey
SPECIFICATION Spec
INVARIANTS
    ReadsWithinKey
