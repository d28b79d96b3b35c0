CONSTANTS
    Entities <- MCValidEntities
    Attributes <- MCAttributes
    Txs <- MCCommentTxs
    Tags <- MCTags
    Indexes <- MCIndexes
    Threw = Threw
SPECIFICATION Spec
INVARIANTS
    TxRoundTrip
