SPECIFICATION Spec
CONSTANTS
    GPUs = 1
    BatchSize = 3
    DecThreads = 2
    PipeDepth = 1
    MaxInputQueue = 3
    MaxDeviceQueue = 3
    ImagesPerRequest = 3
    ResultsPerPacket = 2
    ResultMode = "top1"
    Detected = {}
    EmptyFiles = {}
    NumImages = 3
    MaxCountHonoured = TRUE
    ClientMayLeave = FALSE
INVARIANT
    ResultsCorrect
