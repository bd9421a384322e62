SPECIFICATION FairSpec
CONSTANTS
    GPUs = 1
    BatchSize = 2
    DecThreads = 0
    PipeDepth = 2
    MaxInputQueue = 2
    MaxDeviceQueue = 2
    ImagesPerRequest = 2
    ResultsPerPacket = 1
    ResultMode = "bb"
    Detected <- MCDetected
    EmptyFiles = {}
    NumImages = 5
    MaxCountHonoured = TRUE
    ClientMayLeave = TRUE
INVARIANTS
    TypeOK
    BuffersExclusive
    InputQueueBounded
PROPERTIES
    ImplementsService
    Terminates
