SPECIFICATION Spec
CONSTANTS
    utility_mode = "CONSTANT_DELTA"
    do_slow_start = TRUE
    ConfigInv = 1
    DefaultInv = 2
    InvUnit = 1
    Unit = 2
    num_probe_pkts = 2
    external_min_rtt = 1
    Rtt <- OneTwo
    MinRtt = 1
    MinPkts = 9
    AckTimeout = 9
    MaxTime = 5
    MaxSent = 2
    MaxWindow = 12
CHECK_DEADLOCK FALSE
INVARIANTS
    DeltaIsConstant
