SPECIFICATION Spec
CONSTANTS
    BalDepth = 4
    Word = 32
    TxRoot = {r1, r2}
    Position = {0, 4, 8, 12}
    WholeBatches = TRUE
    MaxDeposits = 9
    r1 = r1
    r2 = r2
INVARIANTS
    DepositsKept
    PendingIsBinary
    BatchesKept
CHECK_DEADLOCK FALSE
