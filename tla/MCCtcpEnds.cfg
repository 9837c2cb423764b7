SPECIFICATION FairSpec
CONSTANTS
    train_length = 1
    byte_switched = FALSE
    flow_size = 3
    Windows <- NoWindowTo2
    MaxWindow = 2
    Intersends <- ZeroTwo
    MinIntersend = 0
    AckTimeout = 1
    PollCap = 2
    cc_timeout = 2
    Delay = 1
    Preemption = 0
    Strays <- OneStray
    MaxTime = 9
    MaxSeq = 4
    MaxDups = 0
    MaxErrors = 0
CHECK_DEADLOCK FALSE
PROPERTIES
    Terminates
