SPECIFICATION Spec
CONSTANTS
    NumChan = 2
    NumOutputs = 1
    Len = 2
    SeqMod = 4
    Threshold = 20
    Recovery = "flush"
    Wants <- FragmentingWants
    Messages = {"overflow", "late_command"}
    MaxLost = 1
    MaxLate = 0
    MaxDrain = 1
    Gaps <- AlignedGaps
    StartAt = {0}
    SetBack = 0
    Faulty = TRUE
    Horizon = 8
INVARIANT NoSilentGap
INVARIANT TimeSpecTrue
