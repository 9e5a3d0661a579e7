SPECIFICATION Spec
CONSTANTS
    a1 = a1
    a2 = a2
    k1 = k1
    k2 = k2
    k3 = k3
    bad = bad
    e1 = e1
    e2 = e2
    e3 = e3
    e4 = e4
    evil = evil
    zero = zero
    none = none
    Account = {a1, a2}
    NoAccount = none
    Key = {k1, k2, k3, bad}
    NoKey = zero
    EpochId = {e1, e2, e3, e4, evil}
    NoEpoch = none
    NearBlock <- MCBlocks
    NoBlock = none
    Genuine <- MCGenuine
    Genesis <- g1
    ProducersOf <- MCProducersOf
    MaxBlockProducers = 3
    LockEthAmount = 3
    LockDuration = 2
    ReplaceDuration = 3
    NanosPerSecond = 1
    Flags = {"challenge", "addBlock"}
    MaxTime = 14
    MaxHeld = 8
    Watched = TRUE
INVARIANTS
    ConfirmedAreGenuine
    HeadHasQuorum
    Solvent
    ChallengeIsPaid
PROPERTIES
    ConfirmedStays
    ReplacementCatchesUp
