SPECIFICATION Spec
CONSTANTS
    o1 = o1
    None = None
    Txs <- MCTxs
    Weathers <- MCWeathers
    MaxRecords = 2
    ChunkBlocks = 2
    MaxBlocks = 3
INVARIANTS
    RowsFollowChain
CHECK_DEADLOCK FALSE
