SPECIFICATION Spec
CONSTANTS
    alice = alice
    bank = bank
    Receiver = {alice, bank}
    Contract = {bank}
    levels = 2
    MaxDepth = 3
INVARIANTS
    TokensHaveLeaves
    FilledNodesAreRight
    FullTreeProves
CHECK_DEADLOCK FALSE
