SPECIFICATION FairSpec
CONSTANTS
    Window = 9
    RequestFreq = 3
    SeqMod = 8
    MaxMessages = 2
    MaxLost = 1
    MaxSent = 14
INVARIANT GoodNumbers
PROPERTY ImplementsCreditWindow
PROPERTY NoStall
CHECK_DEADLOCK FALSE
