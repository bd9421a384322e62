SPECIFICATION FairSpec
CONSTANTS
    MediaCount = 3
    PoolSize = 2
    FileSets <- MCFileSets
    MaxCalls = 5
    CallAgain = FALSE
INVARIANTS
    TypeOK
    PicturesInSync
    LentBufferStable
    OnlyLookaheadLost
PROPERTIES
    DestructorEnds
    ProcessFrameReturns
