SPECIFICATION Spec
CONSTANTS
    a = a
    b = b
    t1 = t1
    t2 = t2
    t3 = t3
    t4 = t4
    h1 = h1
    h2 = h2
    Address <- MCAddress
    AccountId <- MCAccountId
    IdOf <- MCIdOf
    InitAccounts <- MCInit
    Variant <- AllButLate
    TxsOf <- MCTxsOf
    Batch <- MCBatch
    HashRank <- MCHashRank
    NoVariant = NoVariant
    NoAddress = NoAddress
    Handler = {h1}
    MaxSerial = 0
    OpChunks <- OneChunk
    TransferChunks = 1
    TransferToNewChunks = 2
    MaxBlockChunks = 5
    MaxTime = 1
    MaxCrashes = 1
    MaxReverts = 2
    WatchWindow = 1
    DbMayFail = TRUE
SYMMETRY CopySymmetry
INVARIANTS
    NoTxLost
    AccountsFollowChain
    AckedIsDurable
    TxAtMostOnce
    BlockFits
    RevertedInPlace
PROPERTY ImplementsLedger
