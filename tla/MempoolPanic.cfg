SPECIFICATION Spec
CONSTANTS
    a = a
    b = b
    t1 = t1
    t2 = t2
    t3 = t3
    t4 = t4
    h1 = h1
    h2 = h2
    Address <- MCAddress
    AccountId <- MCAccountId
    IdOf <- MCIdOf
    InitAccounts <- MCInit
    Variant <- OneVariant
    TxsOf <- MCTxsOf
    Batch <- MCBatch
    HashRank <- MCHashRank
    NoVariant = NoVariant
    NoAddress = NoAddress
    Handler = {h1, h2}
    MaxSerial = 1
    OpChunks <- TwoChunks
    TransferChunks = 1
    TransferToNewChunks = 1
    MaxBlockChunks = 3
    MaxTime = 0
    MaxCrashes = 1
    MaxReverts = 2
    WatchWindow = 2
    DbMayFail = FALSE
SYMMETRY HandlerSymmetry
INVARIANTS
    NoOpTwice
    OpsInOrder
