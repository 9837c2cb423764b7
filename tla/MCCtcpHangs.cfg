SPECIFICATION FairSpec
CONSTANTS
    train_length = 1
    byte_switched = FALSE
    flow_size = 4
    Windows <- OneTwo
    MaxWindow = 2
    Intersends <- ZeroTwo
    MinIntersend = 0
    AckTimeout = 2
    PollCap = 2
    cc_timeout = 2
    Delay = 1
    Preemption = 1
    Strays <- OneStray
    MaxTime = 10
    MaxSeq = 4
    MaxDups = 0
    MaxErrors = 0
CHECK_DEADLOCK FALSE
PROPERTIES
    Terminates
