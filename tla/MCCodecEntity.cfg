CONSTANTS
    Entities <- MCAllEntities
    Attributes <- MCAttributes
    Txs <- MCTxs
    Tags <- MCTags
    Indexes <- MCIndexes
    Threw = Threw
SPECIFICATION Spec
INVARIANTS
    EntityRoundTrip
