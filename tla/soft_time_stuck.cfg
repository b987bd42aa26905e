SPECIFICATION FairSpec
CONSTANTS
    QueueLen = 2
    SizeMod = 16
    Sizes = {2, 3}
    Packets = {1, 2}
    MaxLeft = 1
    MaxIssued = 4
    Outstanding = 2
    Prompt = TRUE
PROPERTY RecvReturns
CHECK_DEADLOCK FALSE
