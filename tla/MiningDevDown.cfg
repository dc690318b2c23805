SPECIFICATION FullFairSpec
CONSTANTS
    Miners = {m1}
    DevPool = TRUE
    MaxJobs = 1
    MaxShares = 2
    Blob <- NewBlocks
    PrevHash <- NewBlocks
    PoolDiff <- EqualDiff
    Donate = 60
    Retries <- Forever
    DebugDev = FALSE
    Spurious = FALSE
    NULL = NULL
PROPERTY UnreachableDevNotMined
