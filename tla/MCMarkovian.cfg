SPECIFICATION Spec
CONSTANTS
    utility_mode = "AUTO_MODE"
    do_slow_start = TRUE
    ConfigInv = 1
    DefaultInv = 2
    InvUnit = 1
    Unit = 2
    num_probe_pkts = 2
    external_min_rtt = 1
    Rtt <- OneTwo
    MinRtt = 1
    MinPkts = 1
    AckTimeout = 3
    MaxTime = 14
    MaxSent = 4
    MaxWindow = 40
CONSTRAINT Explored
CHECK_DEADLOCK FALSE
INVARIANTS
    IInv
    PacedByWindow
    AggressionBounded
    NoPacketLostTwice
    CutsAreRare
    VelocityEarned
PROPERTIES
    AckMovesOnePacket
