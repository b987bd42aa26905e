SPECIFICATION Spec
CONSTANTS
    NumChan = 2
    NumOutputs = 1
    Len = 2
    SeqMod = 4
    Threshold = 2
    Recovery = "flush"
    Wants = {2}
    Messages = {"overflow", "late_command"}
    MaxLost = 1
    MaxLate = 0
    MaxDrain = 1
    Gaps <- AlignedGaps
    StartAt = {0, 1}
    SetBack = 0
    Faulty = FALSE
    Horizon = 12
INVARIANT TimeSpecTrue
