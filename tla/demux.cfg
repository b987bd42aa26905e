SPECIFICATION FairSpec
CONSTANTS
    NumFrames = 3
    NumStreams = 2
    Readings <- OneOrTwo
    MaxSkew = 1
    MaxWire = 2
    MaxSent = 3
    MaxStray = 1
    MaxMade = 1
INVARIANT FramesKept
INVARIANT InOrder
PROPERTY AllHandedOut
