SPECIFICATION PathSpec
CONSTANTS
    RespWindow = 3
    RespDepth = 128
    SeqMod = 4
    MaxOut = 7
    MaxLost = 2
    MaxLate = 2
    MaxSeqsOut = 1
    FifoSeqMod = 8
    FifoLen = 2
    Slaves = {"a", "b"}
    NoSlave = "none"
    FifoMaxEarly = 1
    FifoMaxLost = 1
    MaxSent = 9
    MaxSilent = 3
    Threads = {1, 2}
    NoThread = 0
    X300Retries = 2
    Usrp2Retries = 3
    Values = {1}
    FwMaxEarly = 2
    FwMaxLost = 1
    MaxCalls = 2
    QueueLen = 2
    SizeMod = 16
    Sizes = {3}
    Packets = {2}
    MaxLeft = 1
    MaxIssued = 3
    Outstanding = 3
    Prompt = FALSE
    Processes = {"p", "q"}
    NoProcess = "nobody"
    Second = 2
    ClaimTimeout = 4
    Slack = 1
    MaxTime = 8
    MaxOpens = 2
INVARIANTS
    PeekTrue
    LostPokeReported
    ResponsesFit
    NoFalseError
    PeeksTrue
    RoomForAnswers
    Counted
    ClaimHeld
    Expires
PROPERTIES
    DestructorEnds
    OnlyCurrent
CHECK_DEADLOCK FALSE
