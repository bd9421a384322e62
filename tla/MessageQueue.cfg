SPECIFICATION FairSpec
CONSTANTS
    Producers = {p1, p2}
    Consumers = {c1, c2}
    ItemsPerProducer = 2
    MaxDepth = 1
    MaxSpurious = 1
    Free = Free
INVARIANT
    TypeOK
PROPERTIES
    ImplementsFifo
    EveryItemTaken
