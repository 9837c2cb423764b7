SPECIFICATION Spec
CONSTANTS
    Windows <- LargeWindow
    Delay = 1
    Timeout = 0
    AckTimeout = 1
    NumFlows = 3
    MaxSeq = 2
    MaxTime = 4
    MaxDups = 1
    MaxErrors = 1
    MaxRatio = 3
    MaxInterval = 3
CHECK_DEADLOCK FALSE
INVARIANTS
    IInv
    KnowsItsPackets
    ExitHasCause
    HalvesForRepeats
