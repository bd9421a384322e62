SPECIFICATION Spec
CONSTANTS
    PoolSize = 4
    Bframes = 1
    Container = TRUE
    MaxFrames = 2
    MayFail = FALSE
INVARIANT
    AllFramesWritten
