SPECIFICATION Spec
CONSTANTS
    UtilityModes <- AutoOrConstant
    num_probe_pkts = 2
    init_min_rtt = 9
    Rtt <- OneTwo
    MinRtt = 1
    FirstCycle = 1
    CycleRtts = 1
    Steps <- ZeroOne
    Jumps <- JustThree
    NumFlows = 2
    MaxTime = 10
    MaxWindow = 3
INVARIANTS
    IInv
    PacedByWindow
    JudgesDefaultOnly
    NeverDividesByZero
    CutsAreSpaced
PROPERTIES
    DoesNotFlutter
