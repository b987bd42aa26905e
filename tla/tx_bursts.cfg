SPECIFICATION Spec
CHECK_DEADLOCK FALSE
CONSTANTS
    NumChan = 2
    MaxSamps = 2
    Wants <- CutWants
    Lead = 1
    Timed <- AnyTimed
    Starts = {"samples", "empty"}
    Ends = {"samples", "empty"}
    Careful = TRUE
    MayTimeOut = {"samples"}
    MaxPackets = 6
INVARIANT CountsAgree
INVARIANT EndsAgree
PROPERTY ImplementsBurstStream
