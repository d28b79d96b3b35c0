CONSTANTS
    Entities <- MCValidEntities
    Attributes <- MCAttributes
    Txs <- MCTxs
    Tags <- MCTags
    Indexes <- MCIndexes
    Threw = Threw
SPECIFICATION Spec
INVARIANTS
    FieldsRoundTrip
