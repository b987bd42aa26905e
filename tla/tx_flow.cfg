SPECIFICATION FlowSpec
CHECK_DEADLOCK FALSE
CONSTANTS
    Window = 6
    ResponseFreq = 3
    SeqMod = 8
    AckDepth = 8
    MaxLost = 1
    MaxOut = 12
    Usrp2Window = 3
    Usrp2SeqMod = 14
    PacketsPerUp = 1
    CyclesPerUp = TRUE
    MaxAhead = 1
    MaxUps = 2
    Usrp2MaxLost = 1
    Usrp2MaxOut = 15
    MaxStreams = 2
INVARIANT WindowRespected
INVARIANT WindowKept
PROPERTY NoStall
PROPERTY MonitorNoStall
