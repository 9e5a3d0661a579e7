SPECIFICATION Spec
CONSTANTS
    alice = alice
    bank = bank
    Receiver = {alice, bank}
    Contract = {bank}
    levels = 2
    MaxDepth = 3
INVARIANTS
    RootIsOfLeaves
CHECK_DEADLOCK FALSE
