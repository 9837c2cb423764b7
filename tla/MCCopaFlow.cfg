SPECIFICATION Spec
CONSTANTS
    utility_mode = "AUTO_MODE"
    do_slow_start = TRUE
    ConfigInv = 1
    DefaultInv = 2
    InvUnit = 1
    Unit = 2
    num_probe_pkts = 2
    external_min_rtt = 1
    Rtt <- MCRtt
    MinRtt = 1
    MinPkts = 1
    AckTimeout = 3
    MaxTime = 7
    MaxSent = 3
    MaxWindow = 40
    MinHistory = 3
    HistFactor = 1
    SrttGain = 2
    DblMax = 9
    DblMin = 0
    MaxSamples = 6
CHECK_DEADLOCK FALSE
INVARIANTS
    PacedByFreshRtt
    ModeFollowsQueue
PROPERTIES
    ImplementsMarkovian
