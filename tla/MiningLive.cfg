SPECIFICATION FullFairSpec
CONSTANTS
    Miners = {m1}
    DevPool = FALSE
    MaxJobs = 3
    MaxShares = 2
    Blob <- NewBlocks
    PrevHash <- TwoBlocks
    PoolDiff <- EqualDiff
    Donate = 0
    Retries <- Forever
    DebugDev = FALSE
    Spurious = FALSE
    NULL = NULL
PROPERTIES MinersCatchUp SharesHandled RestartEndsScan 
