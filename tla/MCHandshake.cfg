SPECIFICATION FairSpec
CONSTANTS
    Resend = 2
    PollTime = 2
    BaseRtt = 3
    Duplicates = FALSE
    NumCycles = 2
    MaxErrors = 1
    MaxAge = 5
INVARIANTS
    IInv
    OnlyStaleMisleads
    ProbeRefreshed
PROPERTIES
    HandshakeCompletes
