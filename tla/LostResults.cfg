SPECIFICATION Spec
CONSTANTS
    GPUs = 2
    BatchSize = 1
    DecThreads = 0
    PipeDepth = 1
    MaxInputQueue = 3
    MaxDeviceQueue = 3
    ImagesPerRequest = 3
    ResultsPerPacket = 2
    ResultMode = "top1"
    Detected = {}
    EmptyFiles = {}
    NumImages = 2
    MaxCountHonoured = TRUE
    ClientMayLeave = FALSE
INVARIANT
    SessionComplete
