SPECIFICATION FairSpec
CONSTANTS
    LowMask = 15
    Width = 32
    Gap = 1
    Throughput = 3
    Slices = {1, 5}
    MaxThreads = 2
    MaxJobs = 2
    Base <- Bases
    Winners <- Golden
    Faults = 1
    None = None
INVARIANTS TypeOK NoGap NoEarlyRepeat OwnRangeFirst 
PROPERTY RangeUsedUp
