SPECIFICATION Spec
CONSTANTS
    Check = 2
    Rtt <- OneTwo
    MinRtt = 1
    MaxRtt = 2
    Step = 1
    Jump = 3
    MaxWindow = 4
    MaxTime = 9
CHECK_DEADLOCK FALSE
INVARIANTS
    IInv
    RegainsItsWindow
PROPERTIES
    DefaultLasts
    LeavingIsEarned
