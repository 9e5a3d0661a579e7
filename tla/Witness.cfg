SPECIFICATION FairSpec
CONSTANTS
    q = 17
    UintLimit = 16
    Unset = Unset
    MiMC7Rounds = 5
    FeistelRounds = 6
    MiMC7Constant <- MCMiMC7Constant
    FeistelConstant <- MCFeistelConstant
    HashmapSize = 8
    NameHash <- MCNameHash
    BehindHashmap <- MCBehindHashmap
    DoubleExact = 8
    JsonFiles <- MCJsonFiles
    Aborted = Aborted
    Pending = Pending
INVARIANTS TypeOK RunsWithInputs WitnessComplete TraceNamesCall
PROPERTIES SignalsSetOnce ComputesFunction Terminates
CHECK_DEADLOCK FALSE
