SPECIFICATION FairSpec
CONSTANTS
    MediaCount = 2
    PoolSize = 2
    FileSets <- MCCorrupt
    MaxCalls = 2
    CallAgain = FALSE
PROPERTY
    ProcessFrameReturns
CHECK_DEADLOCK FALSE
