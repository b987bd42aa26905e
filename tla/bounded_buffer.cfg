SPECIFICATION FairSpec
CONSTANTS
    Thread = {1, 2, 3}
    Elem = {a, b}
    NoElem = NoElem
    Capacity = 2
    May <- MayCall
INVARIANT NoLostWakeup
PROPERTY ImplementsFifo
PROPERTY CallsEnd
