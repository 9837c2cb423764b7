SPECIFICATION Spec
CONSTANTS
    train_length = 2
    byte_switched = TRUE
    flow_size = 4
    Windows <- OneTwo
    MaxWindow = 2
    Intersends <- OneTwo
    MinIntersend = 1
    AckTimeout = 2
    PollCap = 2
    cc_timeout = 2
    Delay = 1
    Preemption = 1
    Strays <- OneStray
    MaxTime = 7
    MaxSeq = 6
    MaxDups = 1
    MaxErrors = 1
CHECK_DEADLOCK FALSE
INVARIANTS
    IInv
    UnackedBound
    AckedIsReal
    PacingRespected
    CountsOwnEchoes
PROPERTIES
    ImplementsEngine
