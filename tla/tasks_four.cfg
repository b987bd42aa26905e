SPECIFICATION Spec
CONSTANTS
    N = 4
    MaxJobs = 3
INVARIANT CallerAlone
INVARIANT NoLapping
PROPERTY ImplementsForkJoin
PROPERTY CallsReturn
PROPERTY ShutdownEnds
