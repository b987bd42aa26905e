SPECIFICATION Spec
CONSTANTS
    NumChan = 2
    NumOutputs = 1
    Len = 2
    SeqMod = 4
    Threshold = 2
    Recovery = "restart"
    Wants <- PacketWants
    Messages = {"overflow", "late_command"}
    MaxLost = 1
    MaxLate = 1
    MaxDrain = 1
    Gaps <- AnyGaps
    StartAt = {0}
    SetBack = 0
    Faulty = FALSE
    Horizon = 6
INVARIANT NoSilentGap
INVARIANT BuffersAligned
INVARIANT OneBufferHeld
PROPERTY DiscardsOnlyOlder
