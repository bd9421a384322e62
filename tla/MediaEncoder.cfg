SPECIFICATION FairSpec
CONSTANTS
    PoolSize = 4
    Bframes = 2
    Container = FALSE
    MaxFrames = 6
    MayFail = TRUE
INVARIANTS
    TypeOK
    WrittenInOrder
    RenderApart
    AllFramesWritten
PROPERTY
    DestructorEnds
