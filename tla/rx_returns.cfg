SPECIFICATION EndlessSpec
CONSTANTS
    NumChan = 2
    NumOutputs = 1
    Len = 2
    SeqMod = 3
    Threshold = 2
    Recovery = "drain"
    Wants = {2}
    Messages = {}
    MaxLost = 1
    MaxLate = 0
    MaxDrain = 1
    Gaps <- AlignedGaps
    StartAt = {0, 1}
    SetBack = 2
    Faulty = FALSE
    Horizon = 24
PROPERTY RecvReturns
PROPERTY SamplesGoOn
