SPECIFICATION WorkioFairSpec
CONSTANTS
    Miners = {m1}
    DevPool = TRUE
    MaxJobs = 1
    MaxShares = 3
    Blob <- NewBlocks
    PrevHash <- NewBlocks
    PoolDiff <- EqualDiff
    Donate = 60
    Retries = 0
    DebugDev = FALSE
    Spurious = FALSE
    NULL = NULL
INVARIANTS CountsMatchSent DonationOffIsFinal
PROPERTY GivenUpPoolEndsProgram
