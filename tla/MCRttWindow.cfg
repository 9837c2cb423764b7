SPECIFICATION Spec
CONSTANTS
    Rtt <- MCRtt
    Gap <- MCGap
    MinHistory = 3
    HistFactor = 2
    SrttGain = 2
    DblMax = 9
    DblMin = 0
    MaxSamples = 5
INVARIANTS
    IInv
    ExtremeIsExact
    ReadingsOrdered
PROPERTIES
    MinRttRemembers
    ImplementsNaive
