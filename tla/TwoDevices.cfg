SPECIFICATION FairSpec
CONSTANTS
    GPUs = 2
    BatchSize = 1
    DecThreads = 0
    PipeDepth = 1
    MaxInputQueue = 2
    MaxDeviceQueue = 2
    ImagesPerRequest = 2
    ResultsPerPacket = 2
    ResultMode = "top1"
    Detected = {}
    EmptyFiles = {4}
    NumImages = 4
    MaxCountHonoured = TRUE
    ClientMayLeave = TRUE
INVARIANTS
    ResultsCorrect
    CleanShutdown
    AnsweredOnce
