------------------------- MODULE InferencePipeline -------------------------
(***************************************************************************)
(* One inference session of annInferenceServer: class InferenceEngine with *)
(* the LIBRE scheduler (utils/annInferenceServer/inference.cpp).           *)
(*                                                                         *)
(* The session thread (run) asks the client for images, puts them into     *)
(* inputQ and returns what it finds in outputQ.  A master thread deals the *)
(* images out to the GPUs; every GPU has three threads: input copy,        *)
(* process and output copy.  The threads share nothing but FIFO queues; an *)
(* end-of-sequence marker travels down the queues to stop them, and the    *)
(* destructor of the engine injects further markers and joins the threads. *)
(*                                                                         *)
(* An image is the number of its tag.  A tensor is the image each of its   *)
(* batch slots was computed from, and a label is the image it was read     *)
(* from, so a label that belongs to another image is visible as such.      *)
(* MessageQueue is an atomic FIFO here; module MessageQueue justifies it.  *)
(***************************************************************************)
EXTENDS Integers, Sequences, FiniteSets

CONSTANTS
    GPUs,               \* devices of the session (data[1] of the request)
    BatchSize,          \* args->getBatchSize()
    DecThreads,         \* args->decThreads(), 0: decode while dequeuing
    PipeDepth,          \* INFERENCE_PIPE_QUEUE_DEPTH
    MaxInputQueue,      \* MAX_INPUT_QUEUE_DEPTH
    MaxDeviceQueue,     \* MAX_DEVICE_QUEUE_DEPTH
    ImagesPerRequest,   \* INFCOM_MAX_IMAGES_FOR_TOP1_PER_PACKET/2
    ResultsPerPacket,   \* results of one reply
    ResultMode,         \* "top1", "topk" or "bb" (bounding boxes)
    Detected,           \* images in which the region layer finds an object
    EmptyFiles,         \* images whose payload is a file of size zero
    NumImages,          \* images the client has to send
    MaxCountHonoured,   \* the client sends at most the count it is asked for
    ClientMayLeave      \* the client may drop the connection

ASSUME PipelineAssumption ==
    /\ {GPUs, BatchSize, PipeDepth, MaxInputQueue, ImagesPerRequest,
        ResultsPerPacket} \subseteq Nat \ {0}
    /\ {DecThreads, NumImages} \subseteq Nat
    \* A batch of tags must fit into the bounded tag queue, and so must the
    \* two markers that the master and the destructor leave in it.
    /\ MaxDeviceQueue \in Nat /\ MaxDeviceQueue >= BatchSize /\ MaxDeviceQueue >= 2
    /\ ResultMode \in {"top1", "topk", "bb"}
    /\ {Detected, EmptyFiles} \subseteq SUBSET (1..NumImages)
    /\ {MaxCountHonoured, ClientMayLeave} \subseteq BOOLEAN

Devices == 0..(GPUs - 1)
Slots   == 1..BatchSize
Buffers == 1..PipeDepth
Images  == 1..NumImages

Eos     == 0        \* tag -1, image nullptr, cl_mem nullptr
Blank   == 0        \* content of a slot that was never written
NoBoxes == 0        \* label -1 of a result without bounding boxes
Smaller(a, b) == IF a < b THEN a ELSE b
CeilDiv(a, b) == (a + b - 1) \div b

VARIABLES
    sent,           \* images the client has sent so far (tags 1..sent)
    results,        \* <<tag, label>> pairs the client has received, in order
    runPc,          \* where the session thread is: run(), then ~InferenceEngine()
    avail,          \* resultCountAvailable
    packet,         \* results collected for the next reply
    toReceive,      \* images of the current request still to be received
    endOfSequence, endOfImageRequested,
    created,        \* devices whose queues and buffers exist: 0..created-1
    dev,            \* device loop of the destructor
    inputQ, outputQ,
    outputX,        \* outputQTopk or OutputQBB: what belongs to the entries of outputQ
    tagQ, imageQ,   \* queueDeviceTagQ, queueDeviceImageQ
    inIdle, inBusy, outIdle, outBusy,  \* queueDevice{Input,Output}Mem{Idle,Busy}
    inMem, outMem,  \* content of the OpenCL buffers
    masterPc, masterTag, masterGpu, masterCount, masterDev,
    copyPc, copyMem, copyBatch, copyEos,      \* workDeviceInputCopy
    procPc, procIn, procOut,                  \* workDeviceProcess
    outPc, outMemHeld, outCount, outEos, outLabel  \* workDeviceOutputCopy

clientVars  == <<sent, results>>
replyVars   == <<avail, packet, endOfSequence>>
requestVars == <<toReceive, endOfImageRequested>>
devVars     == <<created, dev>>
resultQs    == <<outputQ, outputX>>
deviceQs    == <<tagQ, imageQ>>
memQs       == <<inIdle, inBusy, outIdle, outBusy>>
mems        == <<inMem, outMem>>
masterVars  == <<masterPc, masterTag, masterGpu, masterCount, masterDev>>
copyVars    == <<copyPc, copyMem, copyBatch, copyEos>>
procVars    == <<procPc, procIn, procOut>>
outVars     == <<outPc, outMemHeld, outCount, outEos, outLabel>>
sessionVars == <<clientVars, runPc, replyVars, requestVars, devVars>>
deviceVars  == <<copyVars, procVars, outVars>>
vars == <<sessionVars, inputQ, resultQs, deviceQs, memQs, mems, masterVars, deviceVars>>

Put(q, g, x) == [q EXCEPT ![g] = Append(@, x)]
Pop(q, g)    == [q EXCEPT ![g] = Tail(@)]
At(f, g, x)  == [f EXCEPT ![g] = x]

Init ==
    /\ sent = 0 /\ results = <<>>
    /\ runPc = "start" /\ avail = 0 /\ packet = <<>> /\ toReceive = 0
    /\ endOfSequence = FALSE /\ endOfImageRequested = FALSE
    /\ created = 0 /\ dev = 0
    /\ inputQ = <<>> /\ outputQ = <<>> /\ outputX = <<>>
    /\ tagQ = [g \in Devices |-> <<>>] /\ imageQ = [g \in Devices |-> <<>>]
    /\ inIdle = [g \in Devices |-> <<>>] /\ inBusy = [g \in Devices |-> <<>>]
    /\ outIdle = [g \in Devices |-> <<>>] /\ outBusy = [g \in Devices |-> <<>>]
    /\ inMem = [g \in Devices |-> [b \in Buffers |-> [s \in Slots |-> Blank]]]
    /\ outMem = [g \in Devices |-> [b \in Buffers |-> [s \in Slots |-> Blank]]]
    /\ masterPc = "unstarted" /\ masterTag = Eos /\ masterGpu = 0
    /\ masterCount = 0 /\ masterDev = 0
    /\ copyPc = [g \in Devices |-> "unstarted"] /\ copyMem = [g \in Devices |-> Eos]
    /\ copyBatch = [g \in Devices |-> <<>>] /\ copyEos = [g \in Devices |-> FALSE]
    /\ procPc = [g \in Devices |-> "unstarted"]
    /\ procIn = [g \in Devices |-> Eos] /\ procOut = [g \in Devices |-> Eos]
    /\ outPc = [g \in Devices |-> "unstarted"] /\ outMemHeld = [g \in Devices |-> Eos]
    /\ outCount = [g \in Devices |-> 0] /\ outEos = [g \in Devices |-> FALSE]
    /\ outLabel = [g \in Devices |-> Blank]

----------------------------------------------------------------------------
(* The session thread: setup and the loop of run().                        *)

\* Every exchange with the client may fail: run() returns -1 and the engine
\* is destroyed.
Leave == ClientMayLeave /\ runPc' = "~eos"

\* The request is refused (no free GPU, no such model, no shadow folder), or the
\* first INITIALIZATION exchange takes place.
HandleRequest ==
    /\ runPc = "start"
    /\ runPc' \in {"setup", "~eos"}
    /\ UNCHANGED <<clientVars, replyVars, requestVars, devVars, inputQ, resultQs,
                   deviceQs, memQs, mems, masterVars, deviceVars>>

\* Queues and buffers of one device, then the INITIALIZATION exchange.
CreateDevice ==
    /\ runPc = "setup" /\ created < GPUs
    /\ created' = created + 1
    /\ inIdle' = At(inIdle, created, [i \in Buffers |-> i])
    /\ outIdle' = At(outIdle, created, [i \in Buffers |-> i])
    /\ runPc' = "setup" \/ Leave
    /\ UNCHANGED <<clientVars, replyVars, requestVars, dev, inputQ, resultQs,
                   deviceQs, inBusy, outBusy, mems, masterVars, deviceVars>>

StartThreads ==
    /\ runPc = "setup" /\ created = GPUs
    /\ masterPc' = "next"
    /\ copyPc' = [g \in Devices |-> "mem"]
    /\ procPc' = [g \in Devices |-> "input"]
    /\ outPc' = [g \in Devices |-> "mem"]
    /\ runPc' = "results" \/ Leave
    /\ UNCHANGED <<clientVars, replyVars, requestVars, devVars, inputQ, resultQs,
                   deviceQs, memQs, mems, masterTag, masterGpu, masterCount,
                   masterDev, copyMem, copyBatch, copyEos, procIn, procOut,
                   outMemHeld, outCount, outEos, outLabel>>

\* resultCountAvailable = outputQ.size()
CountResults ==
    /\ runPc = "results"
    /\ avail' = Len(outputQ)
    /\ runPc' = IF Len(outputQ) > 0 THEN "take" ELSE "request"
    /\ UNCHANGED <<clientVars, packet, endOfSequence, requestVars, devVars, inputQ,
                   resultQs, deviceQs, memQs, mems, masterVars, deviceVars>>

\* Does the entry of outputQ have a companion in outputX?
HasCompanion(r) == \/ ResultMode = "topk"
                   \/ ResultMode = "bb" /\ r[2] # NoBoxes

AfterTake(p) ==
    IF Len(p) = Smaller(avail, ResultsPerPacket) THEN "reply" ELSE "take"

\* outputQ.dequeue(result): the first end marker ends the reply and the session.
TakeResult ==
    /\ runPc = "take" /\ outputQ # <<>>
    /\ outputQ' = Tail(outputQ)
    /\ LET r == Head(outputQ) IN
       IF r[1] = Eos
       THEN /\ endOfSequence' = TRUE
            /\ runPc' = IF packet = <<>> THEN "request" ELSE "reply"
            /\ UNCHANGED packet
       ELSE /\ packet' = Append(packet, r)
            /\ runPc' = IF HasCompanion(r) THEN "takeLabels" ELSE AfterTake(packet')
            /\ UNCHANGED endOfSequence
    /\ UNCHANGED <<clientVars, avail, requestVars, devVars, inputQ, outputX,
                   deviceQs, memQs, mems, masterVars, deviceVars>>

\* outputQTopk.dequeue(labels) or OutputQBB.dequeue(bounding_boxes): what the
\* client will read as the labels of the tag taken before.
TakeLabels ==
    /\ runPc = "takeLabels" /\ outputX # <<>>
    /\ outputX' = Tail(outputX)
    /\ packet' = [packet EXCEPT ![Len(packet)] = <<@[1], Head(outputX)>>]
    /\ runPc' = AfterTake(packet)
    /\ UNCHANGED <<clientVars, avail, endOfSequence, requestVars, devVars, inputQ,
                   outputQ, deviceQs, memQs, mems, masterVars, deviceVars>>

\* (fault) the list of results is not cleared between two replies
SendReplyKeepsPacket ==
    /\ runPc = "reply"
    /\ results' = results \o packet
    /\ avail' = avail - Smaller(avail, Len(packet))
    /\ runPc' = IF avail' > 0 /\ ~endOfSequence THEN "take" ELSE "request"
    /\ UNCHANGED <<sent, packet, endOfSequence, requestVars, devVars, inputQ, resultQs,
                   deviceQs, memQs, mems, masterVars, deviceVars>>

\* Send the reply and wait for the client's acknowledgement.  A client that receives the
\* reply and does not acknowledge it leaves, in the model, at the exchange that follows.
SendReply ==
    /\ runPc = "reply"
    /\ \/ /\ results' = results \o packet
          /\ packet' = <<>>
          /\ avail' = avail - Len(packet)
          /\ runPc' = IF avail' > 0 /\ ~endOfSequence THEN "take" ELSE "request"
       \/ Leave /\ UNCHANGED <<results, packet, avail>>
    /\ UNCHANGED <<sent, endOfSequence, requestVars, devVars, inputQ, resultQs,
                   deviceQs, memQs, mems, masterVars, deviceVars>>

\* The test of the for statement.  The end of the sequence leaves only the loop
\* over the results: the request for images below it is made once more.
NextIteration == IF endOfSequence THEN "done" ELSE "results"

\* (fault) the images still waiting in inputQ are not subtracted
RequestedOverfull == Smaller(MaxInputQueue, ImagesPerRequest)

\* imageCountRequested
Requested == Smaller(MaxInputQueue - Len(inputQ), ImagesPerRequest)

\* What the client may answer to a request for n images: a count, or -1 when it
\* has sent them all.  Zero: its loader has nothing ready yet.
Answers(n) ==
    IF sent = NumImages THEN {-1}
    ELSE 0..(IF MaxCountHonoured THEN Smaller(n, NumImages - sent) ELSE NumImages - sent)

RequestImages ==
    /\ runPc = "request"
    /\ IF endOfImageRequested \/ Requested <= 0
       THEN runPc' = NextIteration /\ UNCHANGED <<requestVars, inputQ>>
       ELSE \/ \E count \in Answers(Requested) :
                 /\ toReceive' = IF count < 0 THEN 0 ELSE count
                 /\ endOfImageRequested' = (count < 0)
                 /\ inputQ' = IF count < 0 THEN Append(inputQ, Eos) ELSE inputQ
                 /\ runPc' = IF count > 0 THEN "receive" ELSE NextIteration
            \/ Leave /\ UNCHANGED <<requestVars, inputQ>>
    /\ UNCHANGED <<clientVars, replyVars, devVars, resultQs, deviceQs, memQs, mems,
                   masterVars, deviceVars>>

\* One image, or the name of its file, which is then read; and its EOF marker.
ReceiveImage ==
    /\ runPc = "receive"
    /\ \/ /\ sent' = sent + 1
          /\ inputQ' = Append(inputQ, sent + 1)
          /\ toReceive' = toReceive - 1
          /\ runPc' = IF toReceive > 1 THEN "receive" ELSE NextIteration
       \/ Leave /\ UNCHANGED <<sent, inputQ, toReceive>>
    /\ UNCHANGED <<results, replyVars, endOfImageRequested, devVars, resultQs,
                   deviceQs, memQs, mems, masterVars, deviceVars>>

\* The DONE exchange: run() returns whether or not the client answers.
ExchangeDone ==
    /\ runPc = "done"
    /\ runPc' = "~eos"
    /\ UNCHANGED <<clientVars, replyVars, requestVars, devVars, inputQ, resultQs,
                   deviceQs, memQs, mems, masterVars, deviceVars>>

----------------------------------------------------------------------------
(* The session thread: ~InferenceEngine().                                 *)

\* joinable() is false for a thread that was never started.
Stopped(pc) == pc \in {"unstarted", "ended"}

\* (fault) the destructor leaves it to the client to end the sequence
DestroyEosSilent ==
    /\ runPc = "~eos"
    /\ runPc' = "~joinMaster"
    /\ UNCHANGED <<clientVars, replyVars, requestVars, devVars, inputQ, resultQs, deviceQs,
                   memQs, mems, masterVars, deviceVars>>

DestroyEos ==
    /\ runPc = "~eos"
    /\ inputQ' = Append(inputQ, Eos)
    /\ runPc' = "~joinMaster"
    /\ UNCHANGED <<clientVars, replyVars, requestVars, devVars, resultQs, deviceQs,
                   memQs, mems, masterVars, deviceVars>>

JoinMaster ==
    /\ runPc = "~joinMaster" /\ Stopped(masterPc)
    /\ runPc' = "~tag"
    /\ UNCHANGED <<clientVars, replyVars, requestVars, devVars, inputQ, resultQs,
                   deviceQs, memQs, mems, masterVars, deviceVars>>

\* queueDeviceTagQ is bounded: enqueue waits until there is room.
DestroyTag ==
    /\ runPc = "~tag"
    /\ IF dev < created
       THEN Len(tagQ[dev]) < MaxDeviceQueue /\ tagQ' = Put(tagQ, dev, Eos)
       ELSE UNCHANGED tagQ
    /\ runPc' = "~image"
    /\ UNCHANGED <<clientVars, replyVars, requestVars, devVars, inputQ, resultQs,
                   imageQ, memQs, mems, masterVars, deviceVars>>

DestroyImage ==
    /\ runPc = "~image"
    /\ imageQ' = IF dev < created THEN Put(imageQ, dev, Eos) ELSE imageQ
    /\ runPc' = "~join"
    /\ UNCHANGED <<clientVars, replyVars, requestVars, devVars, inputQ, resultQs,
                   tagQ, memQs, mems, masterVars, deviceVars>>

\* (fault) the threads of the device are not joined
JoinDeviceNoWait ==
    /\ runPc = "~join"
    /\ runPc' = "~release"
    /\ UNCHANGED <<clientVars, replyVars, requestVars, devVars, inputQ, resultQs,
                   deviceQs, memQs, mems, masterVars, deviceVars>>

\* The three joins in a row: the destructor does nothing between them.
JoinDevice ==
    /\ runPc = "~join"
    /\ Stopped(copyPc[dev]) /\ Stopped(procPc[dev]) /\ Stopped(outPc[dev])
    /\ runPc' = "~release"
    /\ UNCHANGED <<clientVars, replyVars, requestVars, devVars, inputQ, resultQs,
                   deviceQs, memQs, mems, masterVars, deviceVars>>

\* Release the buffers found in the idle queues and delete the queues; after
\* the last device the engine is gone.
ReleaseDevice ==
    /\ runPc = "~release"
    /\ inIdle' = At(inIdle, dev, <<>>) /\ outIdle' = At(outIdle, dev, <<>>)
    /\ inBusy' = At(inBusy, dev, <<>>) /\ outBusy' = At(outBusy, dev, <<>>)
    /\ tagQ' = At(tagQ, dev, <<>>) /\ imageQ' = At(imageQ, dev, <<>>)
    /\ dev' = dev + 1
    /\ runPc' = IF dev + 1 = GPUs THEN "~end" ELSE "~tag"
    /\ UNCHANGED <<clientVars, replyVars, requestVars, created, inputQ, resultQs,
                   mems, masterVars, deviceVars>>

Destroy == DestroyEos \/ JoinMaster \/ DestroyTag \/ DestroyImage \/ JoinDevice
           \/ ReleaseDevice

----------------------------------------------------------------------------
(* workMasterInputQ: deals the images out, a batch to a device.            *)

\* (fault) the device index does not wrap
NextDeviceNoWrap(g) == g + 1
NextDevice(g) == (g + 1) % GPUs

\* The end marker, or an image without payload, ends the sequence.
MasterNext ==
    /\ masterPc = "next" /\ inputQ # <<>>
    /\ inputQ' = Tail(inputQ)
    /\ IF Head(inputQ) \in EmptyFiles \cup {Eos}
       THEN masterPc' = "eosTag" /\ masterDev' = 0 /\ UNCHANGED masterTag
       ELSE masterPc' = "tag" /\ masterTag' = Head(inputQ) /\ UNCHANGED masterDev
    /\ UNCHANGED <<sessionVars, resultQs, deviceQs, memQs, mems, masterGpu,
                   masterCount, deviceVars>>

\* The tag goes first, and waits until the bounded tag queue has room.
MasterTag ==
    /\ masterPc = "tag" /\ Len(tagQ[masterGpu]) < MaxDeviceQueue
    /\ tagQ' = Put(tagQ, masterGpu, masterTag)
    /\ masterPc' = "image"
    /\ UNCHANGED <<sessionVars, inputQ, resultQs, imageQ, memQs, mems, masterTag,
                   masterGpu, masterCount, masterDev, deviceVars>>

\* (fault) the device is changed between the tag and the image that completes a batch
MasterImageLate ==
    /\ masterPc = "image"
    /\ masterGpu' = IF masterCount + 1 = BatchSize THEN NextDevice(masterGpu) ELSE masterGpu
    /\ imageQ' = Put(imageQ, masterGpu', masterTag)
    /\ masterCount' = (masterCount + 1) % BatchSize
    /\ masterPc' = IF masterCount' = 0 THEN "pick" ELSE "next"
    /\ masterDev' = 0
    /\ UNCHANGED <<sessionVars, inputQ, resultQs, tagQ, memQs, mems, masterTag,
                   deviceVars>>

MasterImage ==
    /\ masterPc = "image"
    /\ imageQ' = Put(imageQ, masterGpu, masterTag)
    /\ IF masterCount + 1 = BatchSize
       THEN /\ masterCount' = 0 /\ masterGpu' = NextDevice(masterGpu)
            /\ masterPc' = "pick" /\ masterDev' = 0
       ELSE /\ masterCount' = masterCount + 1
            /\ masterPc' = "next"
            /\ UNCHANGED <<masterGpu, masterDev>>
    /\ UNCHANGED <<sessionVars, inputQ, resultQs, tagQ, memQs, mems, masterTag,
                   deviceVars>>

\* One comparison of the search for the device with the fewest tags waiting:
\* the sizes are read while the devices go on taking tags.
MasterPick ==
    /\ masterPc = "pick"
    /\ masterGpu' = IF Len(tagQ[masterDev]) < Len(tagQ[masterGpu])
                    THEN masterDev ELSE masterGpu
    /\ masterDev' = NextDevice(masterDev)
    /\ masterPc' = IF masterDev + 1 = GPUs THEN "next" ELSE "pick"
    /\ UNCHANGED <<sessionVars, inputQ, resultQs, deviceQs, memQs, mems, masterTag,
                   masterCount, deviceVars>>

MasterEosTag ==
    /\ masterPc = "eosTag" /\ Len(tagQ[masterDev]) < MaxDeviceQueue
    /\ tagQ' = Put(tagQ, masterDev, Eos)
    /\ masterPc' = "eosImage"
    /\ UNCHANGED <<sessionVars, inputQ, resultQs, imageQ, memQs, mems, masterTag,
                   masterGpu, masterCount, masterDev, deviceVars>>

MasterEosImage ==
    /\ masterPc = "eosImage"
    /\ imageQ' = Put(imageQ, masterDev, Eos)
    /\ masterDev' = NextDevice(masterDev)
    /\ masterPc' = IF masterDev + 1 = GPUs THEN "ended" ELSE "eosTag"
    /\ UNCHANGED <<sessionVars, inputQ, resultQs, tagQ, memQs, mems, masterTag,
                   masterGpu, masterCount, deviceVars>>

Master == MasterNext \/ MasterTag \/ MasterImage \/ MasterPick
          \/ MasterEosTag \/ MasterEosImage

----------------------------------------------------------------------------
(* workDeviceInputCopy(g): collects a batch, decodes it into a buffer.     *)

CopyTakeMem(g) ==
    /\ copyPc[g] = "mem" /\ inIdle[g] # <<>>
    /\ copyMem' = At(copyMem, g, Head(inIdle[g]))
    /\ inIdle' = Pop(inIdle, g)
    /\ copyPc' = At(copyPc, g, "image")
    /\ UNCHANGED <<sessionVars, inputQ, resultQs, deviceQs, inBusy, outIdle, outBusy,
                   mems, masterVars, copyBatch, copyEos, procVars, outVars>>

CopyTakeImage(g) ==
    /\ copyPc[g] = "image" /\ imageQ[g] # <<>>
    /\ imageQ' = Pop(imageQ, g)
    /\ IF Head(imageQ[g]) = Eos
       THEN /\ copyEos' = At(copyEos, g, TRUE)
            /\ copyPc' = At(copyPc, g, "put")
            /\ UNCHANGED copyBatch
       ELSE /\ copyBatch' = Put(copyBatch, g, Head(imageQ[g]))
            /\ copyPc' = IF Len(copyBatch[g]) + 1 = BatchSize
                         THEN At(copyPc, g, "put") ELSE copyPc
            /\ UNCHANGED copyEos
    /\ UNCHANGED <<sessionVars, inputQ, resultQs, tagQ, memQs, mems, masterVars,
                   copyMem, procVars, outVars>>

\* numDecThreads: made even, but not larger than the batch.
NumDecThreads == Smaller(DecThreads + (DecThreads % 2), BatchSize)

\* sub_batch_size and numT for a batch of n images.
SubBatchSize(n) ==
    IF n < BatchSize THEN CeilDiv(n, NumDecThreads) ELSE BatchSize \div NumDecThreads
NumT(n) == IF n < BatchSize THEN CeilDiv(n, SubBatchSize(n)) ELSE NumDecThreads

\* The slots DecodeScaleAndConvertToTensorBatch is called for by thread t of
\* NumT(n); the last is the input copy thread, whose range is cut at the batch.
SubBatch(n, t) ==
    LET start == t * SubBatchSize(n)
        end   == start + SubBatchSize(n) - 1
    IN IF t < NumT(n) - 1 THEN (start + 1)..(end + 1)
       ELSE (Smaller(start, n - 1) + 1)..(Smaller(end, n - 1) + 1)

\* (fault) the loop over the batch stops one image short
DecodedSlotsShort(n) == 1..(n - 1)

DecodedSlots(n) ==
    IF n = 0 \/ DecThreads = 0 THEN 1..n
    ELSE UNION {SubBatch(n, t) : t \in 0..(NumT(n) - 1)}

\* A buffer with images is to be processed, one without is idle again.
\* (faults: an unused buffer is not put back; a used one is put back as well; a batch
\* that is not full is not passed on)
PassBufferLeak(g, b, n) ==
    inBusy' = (IF n > 0 THEN Put(inBusy, g, b) ELSE inBusy) /\ UNCHANGED inIdle
PassBufferTwice(g, b, n) ==
    inBusy' = (IF n > 0 THEN Put(inBusy, g, b) ELSE inBusy) /\ inIdle' = Put(inIdle, g, b)
PassBufferFull(g, b, n) ==
    IF n = BatchSize
    THEN inBusy' = Put(inBusy, g, b) /\ UNCHANGED inIdle
    ELSE inIdle' = Put(inIdle, g, b) /\ UNCHANGED inBusy
PassBuffer(g, b, n) ==
    IF n > 0
    THEN inBusy' = Put(inBusy, g, b) /\ UNCHANGED inIdle
    ELSE inIdle' = Put(inIdle, g, b) /\ UNCHANGED inBusy

\* Decode the batch, pass the buffer on, or put it back if there was no image.
\* The decoder threads write disjoint slots and are joined: one step.
CopyPut(g) ==
    /\ copyPc[g] = "put"
    /\ LET b == copyMem[g]
           n == Len(copyBatch[g])
       IN /\ inMem' = [inMem EXCEPT ![g][b] =
                         [s \in Slots |-> IF s \in DecodedSlots(n)
                                          THEN copyBatch[g][s] ELSE @[s]]]
          /\ PassBuffer(g, b, n)
    /\ copyMem' = At(copyMem, g, Eos)
    /\ copyBatch' = At(copyBatch, g, <<>>)
    /\ copyPc' = At(copyPc, g, IF copyEos[g] THEN "eos" ELSE "mem")
    /\ UNCHANGED <<sessionVars, inputQ, resultQs, deviceQs, outIdle, outBusy, outMem,
                   masterVars, copyEos, procVars, outVars>>

CopyEos(g) ==
    /\ copyPc[g] = "eos"
    /\ inBusy' = Put(inBusy, g, Eos)
    /\ copyPc' = At(copyPc, g, "ended")
    /\ UNCHANGED <<sessionVars, inputQ, resultQs, deviceQs, inIdle, outIdle, outBusy,
                   mems, masterVars, copyMem, copyBatch, copyEos, procVars, outVars>>

InputCopy(g) == CopyTakeMem(g) \/ CopyTakeImage(g) \/ CopyPut(g) \/ CopyEos(g)

----------------------------------------------------------------------------
(* workDeviceProcess(g): runs the graph from an input to an output buffer. *)

ProcTakeInput(g) ==
    /\ procPc[g] = "input" /\ inBusy[g] # <<>>
    /\ inBusy' = Pop(inBusy, g)
    /\ procIn' = At(procIn, g, Head(inBusy[g]))
    /\ procPc' = At(procPc, g, IF Head(inBusy[g]) = Eos THEN "eos" ELSE "output")
    /\ UNCHANGED <<sessionVars, inputQ, resultQs, deviceQs, inIdle, outIdle, outBusy,
                   mems, masterVars, copyVars, procOut, outVars>>

ProcTakeOutput(g) ==
    /\ procPc[g] = "output" /\ outIdle[g] # <<>>
    /\ outIdle' = Pop(outIdle, g)
    /\ procOut' = At(procOut, g, Head(outIdle[g]))
    /\ procPc' = At(procPc, g, "process")
    /\ UNCHANGED <<sessionVars, inputQ, resultQs, deviceQs, inIdle, inBusy, outBusy,
                   mems, masterVars, copyVars, procIn, outVars>>

\* vxProcessGraph over the whole batch, then the input buffer is idle again.
ProcGraph(g) ==
    /\ procPc[g] = "process"
    /\ outMem' = [outMem EXCEPT ![g][procOut[g]] = inMem[g][procIn[g]]]
    /\ inIdle' = Put(inIdle, g, procIn[g])
    /\ procIn' = At(procIn, g, Eos)
    /\ procPc' = At(procPc, g, "emit")
    /\ UNCHANGED <<sessionVars, inputQ, resultQs, deviceQs, inBusy, outIdle, outBusy,
                   inMem, masterVars, copyVars, procOut, outVars>>

ProcEmit(g) ==
    /\ procPc[g] = "emit"
    /\ outBusy' = Put(outBusy, g, procOut[g])
    /\ procOut' = At(procOut, g, Eos)
    /\ procPc' = At(procPc, g, "input")
    /\ UNCHANGED <<sessionVars, inputQ, resultQs, deviceQs, inIdle, inBusy, outIdle,
                   mems, masterVars, copyVars, procIn, outVars>>

\* (fault) the marker is not passed on
ProcEosSilent(g) ==
    /\ procPc[g] = "eos"
    /\ procPc' = At(procPc, g, "ended")
    /\ UNCHANGED <<sessionVars, inputQ, resultQs, deviceQs, memQs, mems, masterVars,
                   copyVars, procIn, procOut, outVars>>

ProcEos(g) ==
    /\ procPc[g] = "eos"
    /\ outBusy' = Put(outBusy, g, Eos)
    /\ procPc' = At(procPc, g, "ended")
    /\ UNCHANGED <<sessionVars, inputQ, resultQs, deviceQs, inIdle, inBusy, outIdle,
                   mems, masterVars, copyVars, procIn, procOut, outVars>>

Process(g) == ProcTakeInput(g) \/ ProcTakeOutput(g) \/ ProcGraph(g)
              \/ ProcEmit(g) \/ ProcEos(g)

----------------------------------------------------------------------------
(* workDeviceOutputCopy(g): pairs the slots of a batch with the tags.      *)

\* (fault) the buffer is idle again before its results have been read
OutTakeMemEarly(g) ==
    /\ outPc[g] = "mem" /\ outBusy[g] # <<>>
    /\ outBusy' = Pop(outBusy, g)
    /\ outMemHeld' = At(outMemHeld, g, Head(outBusy[g]))
    /\ outCount' = At(outCount, g, 0)
    /\ IF Head(outBusy[g]) = Eos
       THEN outPc' = At(outPc, g, "eos") /\ UNCHANGED outIdle
       ELSE outPc' = At(outPc, g, "tag") /\ outIdle' = Put(outIdle, g, Head(outBusy[g]))
    /\ UNCHANGED <<sessionVars, inputQ, resultQs, deviceQs, inIdle, inBusy,
                   mems, masterVars, copyVars, procVars, outEos, outLabel>>

OutTakeMem(g) ==
    /\ outPc[g] = "mem" /\ outBusy[g] # <<>>
    /\ outBusy' = Pop(outBusy, g)
    /\ outMemHeld' = At(outMemHeld, g, Head(outBusy[g]))
    /\ outCount' = At(outCount, g, 0)
    /\ outPc' = At(outPc, g, IF Head(outBusy[g]) = Eos THEN "eos" ELSE "tag")
    /\ UNCHANGED <<sessionVars, inputQ, resultQs, deviceQs, inIdle, inBusy, outIdle,
                   mems, masterVars, copyVars, procVars, outEos, outLabel>>

\* The result of a slot that goes to outputQ, and whether more follows in outputX.
Result(tag, content) ==
    <<tag, IF ResultMode = "bb" /\ content \notin Detected THEN NoBoxes ELSE content>>

AfterSlot(n) == IF n = BatchSize THEN "return" ELSE "tag"

\* Take the next tag and enqueue its result.  (Nothing the other threads do
\* depends on the state between the two queue operations.)
OutTakeTag(g) ==
    /\ outPc[g] = "tag" /\ tagQ[g] # <<>>
    /\ tagQ' = Pop(tagQ, g)
    /\ LET tag == Head(tagQ[g])
           r   == Result(tag, outMem[g][outMemHeld[g]][outCount[g] + 1])
       IN IF tag = Eos
          THEN /\ outEos' = At(outEos, g, TRUE)
               /\ outPc' = At(outPc, g, "return")
               /\ UNCHANGED <<outputQ, outCount, outLabel>>
          ELSE /\ outputQ' = Append(outputQ, r)
               /\ outCount' = [outCount EXCEPT ![g] = @ + 1]
               /\ outLabel' = At(outLabel, g, IF HasCompanion(r) THEN r[2] ELSE Blank)
               /\ outPc' = At(outPc, g, IF HasCompanion(r) THEN "labels"
                                        ELSE AfterSlot(outCount'[g]))
               /\ UNCHANGED outEos
    /\ UNCHANGED <<sessionVars, inputQ, outputX, imageQ, memQs, mems, masterVars,
                   copyVars, procVars, outMemHeld>>

\* outputQTopk.enqueue(labels) or OutputQBB.enqueue(detected_objects)
OutPutLabels(g) ==
    /\ outPc[g] = "labels"
    /\ outputX' = Append(outputX, outLabel[g])
    /\ outLabel' = At(outLabel, g, Blank)
    /\ outPc' = At(outPc, g, AfterSlot(outCount[g]))
    /\ UNCHANGED <<sessionVars, inputQ, outputQ, deviceQs, memQs, mems, masterVars,
                   copyVars, procVars, outMemHeld, outCount, outEos>>

OutReturnMem(g) ==
    /\ outPc[g] = "return"
    /\ outIdle' = Put(outIdle, g, outMemHeld[g])
    /\ outMemHeld' = At(outMemHeld, g, Eos)
    /\ outPc' = At(outPc, g, IF outEos[g] THEN "eos" ELSE "mem")
    /\ UNCHANGED <<sessionVars, inputQ, resultQs, deviceQs, inIdle, inBusy, outBusy,
                   mems, masterVars, copyVars, procVars, outCount, outEos, outLabel>>

\* Every device ends its results with a marker of its own.
OutEos(g) ==
    /\ outPc[g] = "eos"
    /\ outputQ' = Append(outputQ, <<Eos, NoBoxes>>)
    /\ outPc' = At(outPc, g, "ended")
    /\ UNCHANGED <<sessionVars, inputQ, outputX, deviceQs, memQs, mems, masterVars,
                   copyVars, procVars, outMemHeld, outCount, outEos, outLabel>>

OutputCopy(g) == OutTakeMem(g) \/ OutTakeTag(g) \/ OutPutLabels(g)
                 \/ OutReturnMem(g) \/ OutEos(g)

----------------------------------------------------------------------------
Run == HandleRequest \/ CreateDevice \/ StartThreads \/ CountResults \/ TakeResult
       \/ TakeLabels \/ SendReply \/ RequestImages \/ ReceiveImage \/ ExchangeDone

Next == \/ Run \/ Destroy \/ Master
        \/ \E g \in Devices : InputCopy(g) \/ Process(g) \/ OutputCopy(g)
        \/ runPc = "~end" /\ UNCHANGED vars     \* the session is over

Spec == Init /\ [][Next]_vars

\* Every thread runs until it blocks, and a client with images left to send
\* does not answer "none yet" for ever.
Fairness ==
    /\ WF_vars(Run) /\ WF_vars(Destroy) /\ WF_vars(Master)
    /\ SF_vars(RequestImages /\ runPc' = "receive")
    /\ \A g \in Devices :
         WF_vars(InputCopy(g)) /\ WF_vars(Process(g)) /\ WF_vars(OutputCopy(g))

FairSpec == Spec /\ Fairness

----------------------------------------------------------------------------
(* Properties.                                                             *)

LoopPcs == {"start", "setup", "results", "take", "takeLabels", "reply", "request",
            "receive"}
RunPcs  == LoopPcs \cup {"done", "~eos", "~joinMaster", "~tag", "~image", "~join",
                         "~release", "~end"}

Label   == Images \cup {Blank}
Tag     == Images \cup {Eos}
Answer  == Images \X Label
Handle  == Buffers \cup {Eos}
Tensors == [Devices -> [Buffers -> [Slots -> Label]]]

SessionTypeOK ==
    /\ sent \in 0..NumImages /\ results \in Seq(Answer)
    /\ runPc \in RunPcs /\ avail \in Nat /\ packet \in Seq(Answer)
    /\ toReceive \in Nat
    /\ endOfSequence \in BOOLEAN /\ endOfImageRequested \in BOOLEAN
    /\ created \in 0..GPUs /\ dev \in 0..GPUs
QueueTypeOK ==
    /\ inputQ \in Seq(Tag) /\ outputQ \in Seq(Tag \X Label) /\ outputX \in Seq(Label)
    /\ tagQ \in [Devices -> Seq(Tag)] /\ imageQ \in [Devices -> Seq(Tag)]
MemTypeOK ==
    /\ inIdle \in [Devices -> Seq(Buffers)] /\ outIdle \in [Devices -> Seq(Buffers)]
    /\ inBusy \in [Devices -> Seq(Handle)] /\ outBusy \in [Devices -> Seq(Handle)]
    /\ inMem \in Tensors /\ outMem \in Tensors
MasterTypeOK ==
    /\ masterPc \in {"unstarted", "next", "tag", "image", "pick", "eosTag",
                     "eosImage", "ended"}
    /\ masterTag \in Tag /\ masterGpu \in Devices /\ masterDev \in Devices
    /\ masterCount \in 0..(BatchSize - 1)
CopyTypeOK ==
    /\ copyPc \in [Devices -> {"unstarted", "mem", "image", "put", "eos", "ended"}]
    /\ copyMem \in [Devices -> Handle] /\ copyBatch \in [Devices -> Seq(Images)]
    /\ copyEos \in [Devices -> BOOLEAN]
ProcTypeOK ==
    /\ procPc \in [Devices -> {"unstarted", "input", "output", "process", "emit",
                               "eos", "ended"}]
    /\ procIn \in [Devices -> Handle] /\ procOut \in [Devices -> Handle]
OutTypeOK ==
    /\ outPc \in [Devices -> {"unstarted", "mem", "tag", "labels", "return", "eos",
                              "ended"}]
    /\ outMemHeld \in [Devices -> Handle] /\ outCount \in [Devices -> 0..BatchSize]
    /\ outEos \in [Devices -> BOOLEAN] /\ outLabel \in [Devices -> Label]

\* Every variable keeps its type.
TypeOK == /\ SessionTypeOK /\ QueueTypeOK /\ MemTypeOK
          /\ MasterTypeOK /\ CopyTypeOK /\ ProcTypeOK /\ OutTypeOK

\* What the client must be told about an image.
Expected(image) == Result(image, image)[2]

\* The label the client receives with a tag was computed from the image it sent
\* under that tag: neither the batch slots, nor a partial batch, nor the separate
\* queues for tags, tensors and labels (workMasterInputQ, workDeviceOutputCopy)
\* let an answer slip to another image.
ResultsCorrect ==
    \A i \in DOMAIN results : results[i][2] = Expected(results[i][1])

\* No image is answered twice, and none that was not sent: whatever the devices
\* do and however the session ends.
AnsweredOnce ==
    /\ \A i \in DOMAIN results : results[i][1] <= sent
    /\ \A i, j \in DOMAIN results : results[i][1] = results[j][1] => i = j

\* All the results of a session that run() completes have reached the client when
\* it is told DONE.
SessionComplete ==
    runPc = "done" => {results[i][1] : i \in DOMAIN results} = Images

\* An OpenCL buffer is in one place: in one queue, once, or in the hands of one
\* thread.  Otherwise two threads of a device would map, process or refill the
\* same buffer at the same time.
NoRepeat(q) == \A i, j \in DOMAIN q : q[i] = q[j] => i = j
NotIn(b, q) == \A i \in DOMAIN q : q[i] # b
Apart(q, r) == \A i \in DOMAIN q : NotIn(q[i], r)
OneHolder(idle, busy, first, second) ==
    /\ NoRepeat(idle) /\ NoRepeat(busy) /\ Apart(idle, busy)
    /\ first # Eos => NotIn(first, idle) /\ NotIn(first, busy)
    /\ second # Eos => NotIn(second, idle) /\ NotIn(second, busy)
    /\ first # Eos => first # second

BuffersExclusive ==
    \A g \in Devices : /\ OneHolder(inIdle[g], inBusy[g], copyMem[g], procIn[g])
                       /\ OneHolder(outIdle[g], outBusy[g], procOut[g], outMemHeld[g])

\* When the destructor releases a device, its threads have returned every buffer to
\* the idle queues the destructor empties and have consumed every image, whose
\* bytes they delete: nothing leaks, whenever the client left.
CleanShutdown ==
    runPc = "~release" /\ dev < created =>
        /\ Len(inIdle[dev]) = PipeDepth /\ Len(outIdle[dev]) = PipeDepth
        /\ \A i \in DOMAIN imageQ[dev] : imageQ[dev][i] = Eos

\* The input queue stays within the "max number of images in input Q" that the
\* count in every SEND_IMAGES request is derived from.
InputQueueBounded ==
    Cardinality({i \in DOMAIN inputQ : inputQ[i] # Eos}) <= MaxInputQueue

\* The engine is destroyed at last: no queue, buffer or join blocks it for ever.
Terminates == <>(runPc = "~end")

\* The session implements the service: with one device, the answers come in the
\* order of submission, each once and right, and all of them before the end.
serviceStatus ==
    CASE runPc \in LoopPcs -> "open"
      [] runPc \notin LoopPcs /\ endOfSequence /\ packet = <<>> -> "closed"
      [] OTHER -> "broken"
Service == INSTANCE InferenceService
    WITH Label <- Expected, submitted <- sent, answers <- results, status <- serviceStatus
ImplementsService == Service!FairSpec
=============================================================================
