SPECIFICATION Spec
CONSTANTS
    Resend = 2
    PollTime = 2
    BaseRtt = 3
    Duplicates = FALSE
    NumCycles = 2
    MaxErrors = 0
    MaxAge = 6
INVARIANTS
    MinRttIsPossible
