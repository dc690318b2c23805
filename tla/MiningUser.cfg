SPECIFICATION Spec
CONSTANTS
    Miners = {m1, m2}
    DevPool = FALSE
    MaxJobs = 2
    MaxShares = 2
    Blob <- NewBlocks
    PrevHash <- NewBlocks
    PoolDiff <- EqualDiff
    Donate = 0
    Retries = 0
    DebugDev = FALSE
    Spurious = TRUE
    NULL = NULL
INVARIANTS TypeOK OnePlacePerShare HandledInOrder
           OneBoardWriter
PROPERTY BoardNeverGoesBack
SYMMETRY Symmetry
