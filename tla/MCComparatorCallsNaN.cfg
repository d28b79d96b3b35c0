CONSTANTS
    Entry <- MCNaNEntry
SPECIFICATION Spec
PROPERTIES
    TransitiveAlongWalk
