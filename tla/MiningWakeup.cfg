SPECIFICATION Spec
CONSTANTS
    Miners = {m1}
    DevPool = FALSE
    MaxJobs = 1
    MaxShares = 1
    Blob <- NewBlocks
    PrevHash <- NewBlocks
    PoolDiff <- EqualDiff
    Donate = 0
    Retries <- Forever
    DebugDev = FALSE
    Spurious = TRUE
    NULL = NULL
INVARIANT WorkioEndsOnlyWhenTold
