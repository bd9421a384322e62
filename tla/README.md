# TLA+ specifications of amdovx-modules

amdovx-modules is a collection of OpenVX modules (neural networks, OpenCV wrappers, 360-degree
video stitching, media input and output) with a few tools around them.  Much of it is numeric:
kernels that turn buffers into buffers.  What these specifications model is its *control*:

* **annInferenceServer**, which serves image classification and detection over TCP, with a
  thread per client and seven or more threads per inference session;
* **vx_loomio_media**, two OpenVX nodes that decode and encode video in threads of their own;
* **vx_loomsl**'s API, a context whose tables and graphs must follow its parameters through
  setters, initialisation, reinitialisation and failure;
* **vx_opencv** and **vx_nn**, where one function or layer is spread over a registration, a
  constructor, validators, an initializer, an executor or a code generator and a destructor,
  which have to agree with each other.

TLC checks the models on small instances, and TLAPS proves part of what is checked for every
instance.  Paths below are relative to `src/`; `AIS/` stands for `utils/annInferenceServer/`,
`media/` for `vx_loomio_media/`, `LS/` for `vx_loomsl/`, `NN/` for `vx_nn/src/` and `CV/` for
`vx_opencv/`.

## 1. The parts of the system

| part | state it keeps | operations | works with | here |
|---|---|---|---|---|
| **Inference session** `AIS/inference.cpp` | the queues between its threads, OpenCL buffers per GPU, the threads, the position in the protocol | `run` (handshake, setup, reply/request loop), `workMasterInputQ`, `workDeviceInputCopy`, `workDeviceProcess`, `workDeviceOutputCopy`, `~InferenceEngine` | client by messages; its own threads by `MessageQueue` | `InferencePipeline` |
| **Message queue** `AIS/inference.h` | `std::queue`, two counters, mutex, condition variable | `enqueue`, `dequeue`, `size` | every thread of a session | `MessageQueue` |
| **Media decoder** `media/decoder.cpp` | pool of buffers, per file: command and acknowledgement queue, frame counter, `eof` | `Initialize`, `ProcessFrame`, `DecodeLoop` (a thread per file), destructor | OpenVX graph by calls, threads by the two queues | `MediaDecoder` |
| **Media encoder** `media/encoder.cpp` | pool of buffers, command and acknowledgement queue, frame counters | `Initialize`, `UpdateBufferOpenCL`, `ProcessFrame`, `EncodeLoop`, destructor | same | `MediaEncoder` |
| **Server** `AIS/server.cpp`, `main.cpp` | listening socket | accept loop, `connection` in a detached thread per client | all sessions | `Connections`, `ServerSessions` |
| **Arguments** `AIS/arguments.*` | `deviceUseCount`, model lists, upload counter, configuration file | `lockGpuDevices`, `releaseGpuDevices`, `addConfigToModelList`, readers of the lists, `saveConfig` | shared by all sessions, under one mutex | `GpuLocks`, `ServerSessions` |
| **Compiler session** `AIS/compiler.cpp` | a folder of files, the working directory of the process | upload, `system()` steps, publish | Arguments, file system | `ServerSessions` |
| **Configure, shadow** `AIS/configure.cpp`, `shadow.cpp` | none / a folder | list models, receive files | Arguments | `ServerSessions` |
| **Network utilities** `AIS/netutil.cpp` | the descriptors, closed on failure | send, receive, close | sockets | `Connections` |
| **LiveStitch API** `LS/live_stitch_api.cpp` | a context with its parameters, tables, graphs, images and flags; files of the quick setup | create, configure, set, initialize, reinitialize, schedule, wait, release | application, OpenVX | `LiveStitch` |
| **Neural network kernels** `NN/` | per layer: MIOpen objects; per graph: a counted handle | publish, construct, validate, initialize, process, uninitialize, generate OpenCL | OpenVX, MIOpen | `Neural*` |
| **OpenCV kernels** `CV/` | none between calls | publish, construct, validate, convert and call | OpenVX, OpenCV | `OpenCV*` |
| Clients `utils/annInferenceApp` | images, results, progress | receiver thread, viewer | server | inputs of `InferencePipeline` and `ServerSessions` |
| Media node registration `media/vx_loomio_media.cpp` | none | registers two kernels | OpenVX | no |
| loom_shell `utils/loom_shell`, LiveStitch kernels `LS/kernels`, region, profiler, model converters | none between calls, or sequential | | | no: numeric, or sequential translation |

How a session works.  The session thread alternates between returning the results it finds in
`outputQ` and asking the client for as many images as `inputQ` has room for.  The master thread
deals the images to the GPUs, a whole batch at a time, putting the tag into one queue of the
device and the image into another.  The input copy thread of the device fills an idle input
buffer with a batch and passes it on as busy; the process thread pairs it with an idle output
buffer and runs the graph; the output copy thread takes as many *tags* as make a batch, reads
one label for each from the output buffer, and returns the buffer.  Nothing but the order of
several queues links a tag, its tensor and its labels.  A marker (tag -1, null pointers) stops
the threads one after another, and the destructor puts further markers into the same queues.

How the server works.  `main` accepts for ever and gives every connection a thread.  The first
message says which of the four sessions it is.  What the sessions share is: the descriptors
(closed by the helpers of `netutil.cpp` on any failure, and by their callers); the GPUs, counted
under the mutex of `Arguments`; two lists of models, a counter of uploads and the configuration
file, partly under that mutex; the folders of the models; and the working directory, which a
compiler session changes for the whole process.

How a stitch context works.  Setters record parameters and raise flags; `lsInitialize` creates
everything; `lsReinitialize` recomputes the tables that the flags name, on the host, and copies
them to the device; frames use the device's tables.  Every call is some hundred OpenVX calls and
may fail at each.

How a node works.  The module registers kernels; a constructor makes a node of one, converting
its C arguments into OpenVX objects; a validator is asked about them before the graph runs; an
initializer prepares what the executor uses, a destructor releases it.  Each is a separate
function, and often a separate file, that restates the list of parameters.

What is hard.

* session: pairing over separate queues; several devices that answer in any order and end with a
  marker each; a batch that is only partly filled; a client that leaves at any exchange; markers
  from two sources; bounded queues; a pool of buffers recycled by counting alone (media nodes);
  threads that end on an error while the other side waits for their acknowledgement.
* server: a descriptor's number reused between two closes; an early return that forgets a socket
  or a device; two compilations in one working directory, under one name, or cut by a crash; a
  list read by position while it changes.
* stitching: a call that fails half way and is tried again; tables that are stale on one side.
* nodes: the pieces of one kernel that disagree; a handle counted over layers of which one fails;
  index arithmetic in generated text at odd sizes.

The list of hazards, with the lines where they bite, is in `PROJECT.json`.

What makes each part correct:

* session: every answer belongs to its image, each image is answered once, all are answered
  before the end, buffers are never shared, the destructor ends and leaves nothing behind;
* queue: atomic FIFO, bounded, no lost wakeup;
* decoder: the slices of a frame are of the same time, a lent buffer is stable, calls return;
* encoder: the file holds every frame in order, the graph never renders over an unread buffer;
* server: a device is not given out beyond its limit and comes back exactly once; a session uses
  no other's descriptor, and ends holding nothing; what is listed is what was uploaded, what is
  loaded is what was listed, and the disk agrees with the list after a restart;
* stitching: a frame uses the tables of the parameters last set; a released context has left
  nothing behind;
* nodes: what a constructor makes is accepted, what is accepted runs, every argument reaches the
  library, generated kernels compute their definition, everything is released.

## 2. The modules

| module | models | abstracts from |
|---|---|---|
| `InferencePipeline` | `InferenceEngine` with `LIBRE_INFERENCE_SCHEDULER` | pixels: a tensor slot is the image it was computed from; OpenCL errors (`fatal` ends the process) |
| `InferenceService` | nothing of the code: what a session promises | everything but submitted, answered, open/closed/broken |
| `MessageQueue` | `enqueue`, `dequeue`, `size` step by step | payloads |
| `FifoQueue` | what the pipeline takes a queue to be | the mutex, the counters |
| `MediaDecoder` | `CLoomIoMediaDecoder` | a file is its number of packets, whether the codec delays a picture, and the packet that is corrupt |
| `MediaEncoder` | `CLoomIoMediaEncoder`, the OpenCL build | a codec is the number of frames it holds back |
| `Clients` | the connections, each a detached thread | |
| `GpuLocks` | `lockGpuDevices`, `releaseGpuDevices` and the mutex of `Arguments` | OpenCL: devices are numbers |
| `Connections` | accept, the helpers of `netutil.cpp`, `error_close`, `connection` | bytes; an exchange works or fails |
| `ServerSessions` | the server as a whole, with crash and restart | what a model is made of: whose upload, whose dimensions, whose log |
| `LiveStitch` | a context of LoomSL and the files of the quick setup | pixels; parameters are versions, a table is the versions it was made from, an object is the group it is made with |
| `OpenCVArguments` | the checks of validators, the steps of kernels (`OpenCV_data_translator.cpp`) | what OpenCV computes |
| `OpenCVKernels` | for each of the 60 kernels: validators, registration, body | |
| `OpenCVNodes` | publication, constructors, verification, execution of a node | a scalar is its type and one of a few values |
| `NeuralTensors` | dimensions, verdicts, callbacks as sequences of steps | elements of tensors |
| `NeuralLayers` | the layers executed by MIOpen: validate, initialize, process, uninitialize, publish, construct | what MIOpen computes |
| `NeuralCodegen` | the layers that generate OpenCL: the moves their kernels make | the text of the kernels |
| `NeuralNodes` | loading the module, and a graph of layers from construction to release | the order MIOpen runs in |
| `MC*` | values of constants for TLC; `MCGraphApplications` runs `LiveStitch`, `OpenCVNodes` and `NeuralNodes` side by side, one application of the three at a time | |
| `*Proofs` | theorems | |

Composition.  `InferencePipeline` uses queues as atomic sequences; `MessageQueue` implements
`FifoQueue`, which is what justifies it: an unbounded queue always is one, and the one bounded
queue (`queueDeviceTagQ`) has one producer at a time, the master and, after joining it, the
destructor.  `InferencePipeline` with one device implements `InferenceService`.
`ServerSessions` extends `GpuLocks` and `Connections`, and each of its steps is a step or a
stutter of both (`ServerImplementsParts`), so what is proved of the parts holds of the server.
An inference session inside it is the constructor, the library it loads, the service as one
step (`Serve`, which `InferencePipeline` details) and the destructor.

### State and actions of `InferencePipeline`

Every thread has a program counter: `runPc` (the session thread: `run`, and with a leading
`~` the destructor), `masterPc`, and `copyPc`, `procPc`, `outPc` per device.  The queues keep
the names of the code without `queueDevice`: `tagQ`, `imageQ`, `inIdle`, `inBusy`, `outIdle`,
`outBusy`; `outputX` is `outputQTopk` or `OutputQBB`, only one of which a session uses.  A step
goes from one operation on shared state to the next: what a thread does with buffers that are in
its hands alone is part of the step that takes or returns them.  The two enqueues for a result
with labels, the two for a tag and its image, and the reads of the queue sizes by the master are
steps of their own, for there the threads do interleave.  `ClientMayLeave` lets any exchange
fail, which sends `runPc` to the destructor, as the early `return -1` of `ERRCHK` does.
`HandleRequest` covers the refusals before the first exchange (no GPU, no model, no folder).

`MediaDecoder` has the application's side (`app`: `Initialize`, `ProcessFrame`, the use of the
image, the destructor) and `pc` per decoding thread.  `eof` is a `std::vector<bool>`, whose
elements share a word: setting one is a load and a store (`LoadEof`, `StoreEof`), which is what
the data race can do in the build.  `MediaEncoder` has `app` and one `pc`.  In both, the buffers
have no other protection than the number of commands and acknowledgements in flight.

### State and actions of the server

`phase[s]` is where the session of `s` stands, `fd[s]` and `owner` are its descriptor and who has
a number, `device_id[s]` the devices it holds, `configured` and `uploaded` the two lists, `files`
and `dirAt` the directories and what the paths lead to, `cwd` the one working directory.  An
action is an exchange with the client together with what the session does after it up to its next
exchange or shared state; a loop under the mutex is a step per device.  An exchange may fail, and
then the helper has closed the descriptor: `ErrorSend`, `ErrorRecv` and `ErrorEnd` are the steps
of `error_close`, which goes on with a number that another connection may have by then.  `Crash`
ends the process at any step and `Restart` reads back what is on disk.  A tool that is run by
`system()` finds the files of the directory that the process is in, so that a model is recorded
with the session whose files were used.

### State and actions of `LiveStitch`

`conf` counts configurations, `par` holds the version of the rig, camera and overlay parameters,
`flags` the booleans of `ls_context_t`, `host` and `dev` the tables on either side, `init` the
graph that computes them, `held` and `at` what the context has created and what its pointers lead
to, `setup` the files.  Every API function that changes the context is an action; `...Fails` is
the same call failing after any of its steps, and `lsInitializeFails` may be called again, as the
code allows.  `ProcessEnds` loses everything but the files.

### State and actions of the nodes

`OpenCVNodes` has what is `published` and a `node`: how it was made, its arguments, and how far
it is.  Constructors make their scalars with the types the source writes; `vxCreateGenericNode`
chooses any argument of a small set for a parameter, so that every case a validator
distinguishes is tried.  A kernel's body is a sequence of steps (read scalars, compare
sizes, convert, call, convert back) and `Body` says at which of them it fails.  `NeuralNodes` has
the layers of a graph of one or two, what each initializer has made (`data.held`) and the count of
the shared `handle`; an initializer fails at any step.  A generated kernel is the set of the moves
it makes between elements, worked out from the index arithmetic of the generator's text.

## 3. What is checked

Passing runs:

| run | instance | shows |
|---|---|---|
| `OneDevice` | 1 GPU, batch 2, 2 buffers a side, 5 images, detection mode with 3 of 5 images detected, client may leave | `BuffersExclusive`, `InputQueueBounded`, `ImplementsService` (with liveness), `Terminates` |
| `TwoDevices` | 2 GPUs, batch 1, 4 images of which the last is an empty file, top-1, client may leave | `ResultsCorrect`, `AnsweredOnce`, `CleanShutdown` |
| `MessageQueue` | 2 producers, 2 consumers, depth 1, a spurious wakeup | `ImplementsFifo`, `EveryItemTaken` |
| `MediaDecoder` | 3 files, 2 buffers, 5 frames; one file shorter or corrupt, with or without codec delay; a call of the framework may fail | `PicturesInSync`, `LentBufferStable`, `OnlyLookaheadLost`, `DestructorEnds`, `ProcessFrameReturns` |
| `MediaEncoder` | 4 buffers, 6 frames, codec delay 2, any encoding step and any call of the framework may fail | `WrittenInOrder`, `RenderApart`, `AllFramesWritten`, `DestructorEnds` |
| `ServerSessions` | 2 clients of any kind, 2 GPUs, 2 saved models of which each client may save either or upload unnamed, 2 descriptors, one crash | `DevicesExclusive`, `OwnDescriptor`, `EndedHoldsNothing`, `ListedAsUploaded`, `LoadedAsListed`, `DiskAndListAgree`, `UploadFoldersApart`, `FatalOnlyOnSameName`, `ConfigureSendsAll`, `SessionsEnd` |
| `GraphApplications` | one application of three.  Stitching: 2 contexts, 3 sets of options, each parameter set once after the defaults, an `lsInitialize` that fails and one more, any call failing, restarts.  OpenCV: any of the 60 kernels, 9 numbers, 3 sizes, 4 shapes of pyramid, 5 sizes of an array's items with and without room, every kind of argument for every parameter, OpenCV finding features or none.  Neural: any layer by constructor or by hand, with the arguments it is meant for or with one of them replaced, alone or with a second layer, any initializer failing | `TablesCurrent`, `EverythingReleased`, `ConstructedVerify`, `VerifiedRun`, `ArgumentsReachLibrary`, `GeneratedKernelsExact` |

and `TypeOK` in one run of every module.

Why the bounds suffice.  Five images in batches of two make two full batches and a partial one,
so both buffers of a side are used, reused, and in flight together; the input queue of two is
full at times, and images arrive while results wait.  Two devices with a batch each and a third
image make the master choose between devices, and let the faster one overtake.  With two
producers and depth one, both may pass the size test before either has pushed, which is the
overrun `ImplementsFifo` allows for and no more.  In the media nodes the pool wraps more than
once within the frames of the run, and a file ends or fails at the first, at a middle and at
no frame.  The pool sizes are those of the code (2 and 4).  The
properties of the server compare two sessions at most, and what they are exposed to (a
descriptor's number, a device, a name, the working directory, the list) takes two to collide;
for devices and descriptors, and for the shapes of the tensors, the theorems of section 4 remove the
bound.  A crash falls between any two steps, and the restarted
server serves the clients that had not connected yet.  In a stitch context a table depends on
which of its parameters is newer than it is, so a single change after the defaults distinguishes
stale from current, and a second initialisation shows what a failed first one left.  The three
sets of options (GPU with tiles, seam finding and bands; GPU with reinitialisation and saved
setup; quick stitching on the CPU) take every branch of `lsInitialize` at least once.  Layers
have widths, heights, channels and batches of 1 to 4, which is where the generators' groups of
two, four and eight elements end in the middle; argmax is tried with tensors of its input's size, smaller and
greater ones (its input is among what is replaced), an input of fewer dimensions, and images of four
formats.  The
pyramids have no level above the first, the one OpenCV gives a 3 by 3 image, one of another
scale, and one level more.  The run has 2.2 million states.  `GraphApplications` does not check deadlock:
an application may stop calling.

Fairness.  Each thread is weakly fair as a whole: it runs until it blocks on a queue, a join or
the network, which is what the operating system gives a thread.  Nothing is assumed about which
thread a notification wakes.  The one strong fairness, on `RequestImages` leading to `receive`,
says that a client which may answer a request with "none yet" does not do so for ever; without
it a session need not end, and the code has no timeout.  `MessageQueue` lets a consumer that
has taken an item come back for the next, as every thread of the session does.
`ServerSessions` has weak fairness for every session's steps: a thread runs until it waits for
the mutex, and a client answers or its connection breaks, which the code relies on, having no
timeout.  Nothing is assumed of new connections, crashes and restarts.  `GraphApplications` has no
fairness: it claims nothing that must happen.

### Where the code disagrees with its comments

Five runs expect a violation; each is a behaviour of the code that a comment of the repository
contradicts, and the trace TLC prints is the explanation.

* `LostResults`: with several GPUs the session ends at the first end marker in `outputQ`, results
  of the slower devices are lost (`AIS/inference.cpp:869`, `:1531`).
* `MispairedLabels`: with several GPUs, tags and top-K labels are enqueued into two queues one
  after the other, so an image may be answered with the labels of another (`:1479`, `:1487`).
* `DecoderThreads`: when the batch size is not a multiple of the number of decoder threads, the
  last images of a batch are never decoded (`:1234`).
* `CorruptFile`: a file that fails at its first picture makes the first `ProcessFrame` wait for
  ever, for `Initialize` has thrown the failure away (`media/decoder.cpp:358`).
* `DelayedFrames`: frames the codec still holds at the end are written only to a raw file, not
  to a container (`media/encoder.cpp:496`).

The passing runs keep clear of these: `OneDevice` has one device, `TwoDevices` uses top-1 labels
(one queue) and does not claim completeness, no passing run uses decoder threads with a
remainder, and so on.  What holds beside the defect is still worth stating.

One more defect shows as soon as the decoder's files are of equal length, which
`MediaDecoder.cfg` therefore avoids: threads that reach their ends together set their bits of
`eof` in one word (`media/decoder.cpp:98`), one bit is lost, and its thread waits for a command
while `ProcessFrame` waits for its acknowledgement.  No comment of the code speaks of it, so it
is no run.  `SlicesInSync` and `LentBufferUntouched` (section 4) hold even then.

### Exceptions named in the properties

Some properties hold but for cases that the model shows to be real.  They are excepted by name in
the formula, with a comment, so that the property still guards the rest.

* `OwnDescriptor` excepts servers where a client was lost inside `error_close`: the helper has
  closed the descriptor, and the second close may hit another connection.
* `ListedAsUploaded`, `LoadedAsListed`, `DiskAndListAgree`: clients who save under one name;
  `UploadFoldersApart`: a crash while `saveConfig` rewrites the file (`AIS/arguments.cpp:170`).
* `TablesCurrent`: `InitializeInternalTablesForRemap` fills the overlay's table from the cameras'
  graph (`LS/live_stitch_api.cpp:1071`, called at 2829); camera parameters imported after
  initialisation raise no flag (3964); `quickSetupDumpTableSizes` writes the sizes before the
  tables exist (1491), so a later process may load missing or old ones, and `loadRemap` (808)
  never sets the points it has read.
* `EverythingReleased`: a retried `lsInitialize` overwrites pointers (2261, 1484); `seamfind_info`
  is never released; tiles are released only if what follows them was made; a second
  `lsReleaseContext` after one that failed deletes `camera_par` (2867), the gains (2914) and the
  bands (2972) again, which the model calls a corrupt context.
* `ConstructedVerify`: five constructors of `CV/OpenCV_VX_Nodes.cpp` pass a scalar of a type their
  validator refuses (`cornerMinEigenVal`, `FAST`, `BRISKcompute`, `fastNlMeansDenoising` and its
  coloured form); the scale layer refuses the vectors its own message allows; the validator of
  region pooling compares dimensions it has not read; three generated kernels do not compile for
  some arguments (top-2 argmax with a width that is no multiple of four; FLOAT16 to RGB; FLOAT16
  upsampled, which uses `half` without the extension `cl_khr_fp16`,
  `NN/upsample_nearest_layer.cpp:131`).
* `VerifiedRun`: sizes no validator compares; images of 16 bits without sign, which validators
  accept and `VX_to_CV_Image` refuses; a pyramid of which a level has another size than OpenCV gives
  it, or that has more levels, or is asked for derivatives as well
  (`CV/OpenCV_data_translator.cpp:35`, the validators take any scale and any number of levels); an
  array that has no room, or whose items are not of the size OpenCV's are, or for which OpenCV finds
  nothing (203, 241, 264: what the framework then does is its own affair, so the model lets it
  refuse or not); pooling with activation 0 and a fully connected layer with an output of two
  dimensions use a descriptor nobody made.
* `ArgumentsReachLibrary`: `SURF_compute` drops `extended` and `upright`;
  `simple_blob_detect_initialize` drops three of its numbers; a convolution marked as fused that
  runs without a fusion plan applies neither bias nor activation.
* `GeneratedKernelsExact`: argmax runs over the pixels of its input and addresses the output by the
  output's own strides, and its validator compares neither width, height nor batches
  (`NN/argmax_layer.cpp:51`, `:127`, `:258`): it writes beyond the end of an output that is smaller
  and leaves elements of a greater one unwritten.  It writes nothing into INT16 and 16 bits into an
  image of any format but U8 (100); takes strides of four dimensions from a tensor that may have
  fewer; reads the second of two greatest where there is one channel; and cannot number more than
  65536.  U8 images of a width that is no multiple of four, and tensors of another number of
  channels than the image's, are converted wrongly; 16-bit lookups two at a time lose the sign.

### Other disagreements met while modelling

Read in the source, in parts no property is about: `CV_X_Register` returns success when
`vxAddKernel` gave it nothing; the constructors of both modules never release their scalars;
`countNonZero` and `norm` release a scalar they have not read; `CV_to_VX_Image` copies by the
image's format whatever the matrix holds; `CV_DESP_to_VX_DESP` copies as many descriptors as the
array has room for, whatever was found, from `mat.data`, which is null when nothing was;
`CV_to_VX_Pyramid` indexes the Mats by the levels of the OpenVX pyramid, past their end if it has
more, and ignores what `CV_to_VX_Image` returns (46); its test of a level fails only if width and
height both differ;
batch normalisation is registered with four of its seven parameters; a transposed matrix is
copied through a local buffer of another size (`NN/tensor_matrix_multiply.cpp:227`); reshape
counts in elements of the wrong type; the MIOpen handle of a graph is counted but not destroyed;
`lsSetAttributes` writes the old value into the scalar (`LS/live_stitch_api.cpp:1871`); an output
module with encoding tiles never initialises (1712); `gpuIdList` is parsed and never used by
`lockGpuDevices`, although the server's README describes `-gpu`; an `accept` that fails for want
of descriptors ends the server (`AIS/server.cpp:82`).

## 4. What is proved

`tlapm` checks `InferencePipelineProofs`, `InferenceSessionProofs`, `MessageQueueProofs`,
`MediaDecoderProofs`, `MediaEncoderProofs`, `ServerSessionsProofs`, `NeuralNodesProofs` and
`GraphApplicationsProofs` to the last leaf.  The only assumptions are those stated in the modules
(`PipelineAssumption`, `QueueAssumption`, `DecoderAssumption`, `EncoderAssumption`,
`DeviceAssumption`, `DescriptorAssumption`, `NoneAssumption`, `StoreAssumption`, `RecordAssumption`,
`StitchAssumption`, `ArgumentAssumption`, `NodeAssumption`, `LayerAssumption`, `FittingAssumption`):
sizes are positive, names are distinct, the names a model can be saved under are finitely many, the
bounded tag queue holds at least a batch and two markers, which the code's `MAX_DEVICE_QUEUE_DEPTH`
(1024) satisfies for the batch sizes it is used with; the values of OpenCV's scalars include 0, 1
and 3 and the sizes of its images 3 by 3, so that every validator has something to accept; the
shapes of pyramids include the one of two levels OpenCV makes of such an image; elements of a tensor
are addressed by its own dimensions, which is what the framework's strides mean, and
`vxTruncateArray` to no items does not fail; the arguments a layer is given have the kinds its
kernel registers, as `vxSetParameterByIndex` demands, and are what the framework makes
(`WellFormed`: a scalar of a type and a value, tensors and images empty in no dimension, tables that
begin at 0 or below, those of bytes with an entry for every byte); and those called fitting
(`Fitting`) are accepted by the kernel's own validator when the node is made by hand, or are one of
the two kinds of arguments it is known to refuse wrongly (`Excused`).  TLC evaluates all of them in
the runs.  A theorem that needs more says so as its hypothesis, and names it:

| hypothesis | theorem | what happens without it |
|---|---|---|
| `BatchDecodedWhole`: the decoder threads share a batch without a remainder | `LabelsCorrect`, `ServiceImplemented` | run `DecoderThreads` |
| `LabelsKeepUp`: top-1 results, or one device | `LabelsCorrect` | run `MispairedLabels` |
| `GPUs = 1` | `ServiceImplemented` | run `LostResults`: the first device to end closes the session |
| `EmptyFiles = {}` | `ServiceImplemented` | an empty file ends the sequence for the master, so later images are not answered (hazard list) |
| `MaxCountHonoured` | `InputBounded` | a client may send more images than it is asked for, and none is refused |
| `~CallAgain`: an abandoned graph is not executed again | the theorems of `MediaDecoder` but for its types | an abandoned execution leaves the acknowledgements of the files behind the ended one untaken, and only the `eof` bit of that one keeps a further execution from going on; no run executes such a graph again |

* `InferencePipelineProofs!TypeCorrect` — every variable of a session keeps its type.  `TypeOK`
  is not inductive: that the tag of the master is an image, that the batch of the input copy
  thread is not full, that a reply has no more results than were counted, depend on where the
  thread is.  `TypeInv` adds what each program counter says about the thread's state, and that
  nothing runs before `StartThreads`.
* `InferencePipelineProofs!ExclusiveBuffers` — no OpenCL buffer is in two places.  The argument
  is one lemma for each of the moves a buffer makes (idle, first holder, busy, second holder,
  idle).  `BufferInv` adds that the null marker enters a busy queue only when the thread that
  fills it has ended: otherwise a second marker would count as a buffer seen twice.
* `InferencePipelineProofs!DecodedSlotsInBatch` — the decoder threads index within the batch,
  whatever the batch size and the number of threads; so the finding above loses images but
  never reads outside the queue of images.
* `InferencePipelineProofs!LabelsCorrect` — every label the client is told was computed from the
  image it sent under that tag.  Tags, images, tensors and labels travel in separate queues, and
  nothing but their order links them.  `AnswersInv` sees all that is on its way through a device
  as one sequence (`Flight`: the buffer held by the output copy, those in `outBusy`, the one being
  processed, those in `inBusy`) followed by the batch being collected and the images still queued,
  and says to which slot of it the n-th waiting tag belongs (`Paired`).  `MarkerLast` and
  `DrainedAtEnd` say that an end-of-sequence marker overtakes nothing, which is what makes a
  partial last batch safe; `PhaseInv` says which markers the master may already have given out.
  `ResultsInv` adds that the entries of `outputQ` with a companion and the companions in `outputX`
  are in step (`InStep`), which one device guarantees and two do not.
* `InferenceSessionProofs!InputBounded` — the images in `inputQ` and those of the request still to be
  received are at most the depth: the count asked for is derived from the queue's length, and
  only the session thread appends.
* `InferenceSessionProofs!EachAnsweredOnce` — `OnceInv`: every image is in at most one of the places
  where tags wait (input queue, hand of the master, tag queue of a device, output queue, told to
  the client), and once there.  Two lemmas cover all steps: a tag moves from the head of one place
  to the end of another, or a marker is added or dropped.
* `InferenceSessionProofs!ShutdownIsClean` — when a device is released, both idle queues hold all its
  buffers and no image is left.  `BuffersExclusive` says that a buffer is nowhere twice; `CoverInv`
  is its converse, that it is somewhere; and `AnswersInv` says that threads which have ended have
  drained their queues, whenever the client left.
* `InferenceSessionProofs!ServiceImplemented` — with one device the session implements
  `InferenceService` step by step: answers in the order of submission, each once and right, and
  closed only when complete.  `OrderInv` puts the places where tags wait together, from the oldest
  (`Given`, `Answered`, `Arrived`, `Handed`, `Queued`), and says that the whole is 1, 2, ..., `sent`
  followed by markers only; and that markers appear only once the client has said that it has no
  more images.  A reply is then the next answers in order, taking the first marker means that
  all images have been collected, and leaving the loop after that is `Close`, any other way of
  leaving it `Break`.  The fairness of `InferenceService` stays with the run `OneDevice`.
* `MessageQueueProofs!TypeCorrect` and `!AtomicFifo` — a queue without limit, or with a single
  producer, is an atomic FIFO that keeps its limit, for any number of threads and items.  The
  limit is tested without the mutex; the invariant `RoomInv` says why it is safe with one
  producer: `enqueueCount` cannot move while it is in the call, and `dequeueCount` only grows, so
  the room it has seen is still there when it pushes.
* `MediaEncoderProofs!OrderKept`, `!BuffersApart`, `!NothingLost` and `!TypeCorrect` — the two
  threads of the encoder share the images of the pool with no lock on them.  The argument is a
  count: acknowledgements in the queue plus buffers taken (`Taken`: ordered, being encoded, held
  by the graph) are at most the pool without one (`CreditInv`), and the two frame counters differ
  by exactly the buffers taken (`FrameInv`).  So the indices `inputFrameCount - 1` and
  `encodeFrameCount`, and those of the orders between them, differ by less than the pool and
  their remainders differ.  `MemInv` then says what every taken buffer holds and `CodecInv` that
  the pictures in the file and in the codec are consecutive.  The counts stay exact when an
  error ends the thread, because the frame it was encoding stays taken; they become an upper
  bound when the destructor gives up on what is queued.  `NothingLost` needs a plain stream or a
  codec without delay, which is the finding `DelayedFrames`.

* `MediaDecoderProofs!SlicesInSync`, `!LentBufferUntouched` and `!DecoderTypeCorrect` — as long as
  an abandoned graph is not executed again, every image is composed of the pictures of one
  number, for any number of files and any schedule.  `CountInv` says of each file that commands
  given (`Pushed`) bound the pictures decoded, in work and ordered, and that acknowledgements
  taken (`Popped`) and waiting are the pictures decoded and the last one.  `PoolInv` says that
  the last `PoolSize` pictures of every file are in their places.  Together they confine the
  thread's counter to the pool around the lent buffer (`LentHoldsPicture`).  Nothing in the
  argument uses `eof` when the graph is not abandoned, so lost bits do no harm to it.
* `MediaDecoderProofs!LookaheadOnly` — when `ProcessFrame` gives the graph up, some file has been
  decoded to its end or to its corrupt packet, and the pictures of it that are never shown are at
  most those decoded ahead, the pool.  `EndInv` says that a raised `eof` bit, a thread that is
  ending, or a bad acknowledgement each mean that the file has been decoded whole but for the
  picture being flushed; it holds although two threads can lose each other's bits.
* `ServerSessionsProofs!DevicesNeverShared` — `GpuInv`: a device in some session's array is in one
  place and counted once (`PlacesApart`), whoever is in a loop holds the mutex (`LoopsGuarded`),
  and a session that has begun to lock still finds enough free devices (`EnoughLeft`), which is
  why taking the least used device without looking at the ones already taken is safe with
  `MAX_DEVICE_USE_LIMIT` 1.  `!DescriptorsNeverMixed` — `ConnInv`: while no client was lost inside
  `error_close`, an open connection owns its number.  `!ServerImplementsParts` shows every step of
  the server, crashes included, to be a step or a stutter of both parts, which carries the two
  over (`!ServerDevicesNeverShared`, `!ServerDescriptorsNeverMixed`).
  `!EndedSessionsHoldNothing` adds `Together`: what phase, engine and connection of one session
  say of each other, with one lemma per kind of session for its many returns.
* `ServerSessionsProofs!ServerTypes`, `!UploadsNeverShared`, `!FatalOnlyByName`,
  `!ConfigureComplete`, `!ListedModelsSound`, `!LoadedModelsMatch`, `!CrashLosesNoModel` — the
  lists and folders of the server, for any number of clients and any number of crashes and
  restarts.  The invariant is `ServerInv`: `FolderInv` (the counter of unnamed uploads is ahead of
  every folder that exists, and of the configuration file, unless a restart has read a torn one),
  `ListInv` (what a configure session has announced and what is left of the list; what was copied
  from an entry agrees with it) and `BuildInv`, which follows a model from the upload to the list:
  the directory of a compiling session contains what that session has made so far (`Chain`,
  `OwnDir`), no other session's `chdir` has come between (`Undisturbed`), and a listed entry, the
  library in its folder and the line of the configuration file are those of one client unless
  another has saved under the name (`Sound`, `LoadedAt`, `Found`).  These exceptions are the ones
  the properties state; the proof shows that there are no others.
* `GraphApplicationsProofs!FramesUseCurrentTables` — `TablesInv`: a flag that is not raised vouches for its
  table on the host and on the device, and `reinitialize_required` is raised whenever a flag is.
  `InitInv` says that an initialised context has what `lsReinitialize` needs.
  `!ContextReleasedWhole` — `HeldInv` (a pointer leads to something held), `ExactInv` (after a
  single `lsInitialize`, what is held is what is pointed to) and `OriginInv` (which call a pointer
  comes from).  `!ContextTypeCorrect` includes that nothing is released more often than made.
* `NeuralNodesProofs!LayersAlwaysSound` and what follows from it, `!LayersTyped`,
  `!LayersAlwaysReleased`, `!VerifiedLayersAlwaysRun`, `!LayersAlwaysApplied` — a graph of any
  number of layers of vx_nn, with any arguments the framework lets through, made by constructors or
  by hand.  First, for every kernel, what its initializer makes, what its execution uses and what
  its destructor releases are compared with no state involved (`LayerSound`, one lemma for each of
  them): once the initializer has come to its end, everything the execution uses was made, and
  the destructor releases all of it.  `LayersInv` then has a part for each thing the framework does:
  `Shape` and `Node` for what creating a layer fixes, `Phase` for what the callbacks leave (nothing
  yet; all that the initializer makes, `Initialised`; or whatever was made before a callback
  failed), `Checked` for the two facts of the validators that the exceptions depend on, `GraphOK`
  for how many layers are ready in each state of the graph, and that the count of the graph's
  handle is the number of layers that hold it (`Holders`).  The exceptions are those of the
  properties: pooling with an activation of 0, a fully connected layer with an output of two
  dimensions, and a convolution that is marked as fused and has no plan.
* `NeuralNodesProofs!ConstructedLayersAlwaysVerify` — the 21 constructors of vx_nn against the
  registration, the validators and the generators, for tensors of any shape.  What fits a kernel is
  what its validator accepts of a node made by hand, which is assumed (`FittingAssumption`); what is
  proved is that every constructor makes acceptable arguments of it: it leaves out no required
  parameter, gives each scalar the type the validator compares, and passes on what the validator
  looks at (`EveryLayerConstructed`, one lemma for each constructor that makes scalars, `PassedOn`
  for the others); and that a generator whose layer was accepted writes a kernel that compiles
  (`VerifiedCompiles`), but for the three exceptions of `DoesNotCompile`.  `MadeInv` carries both
  through the life of the graph, over `LayersInv`.
* `NeuralNodesProofs!GeneratedKernelsAlwaysExact` — the seven OpenCL generators of vx_nn, for
  tensors and images of every shape: a kernel generated for a layer that passed the verification
  writes every element of its outputs, once, from the element it is to come from and in the outputs'
  own type, but for the cases named by `Inexact`.  The outputs' dimensions are their own: `Intended`
  asks for every element the output has, and the generator's positions follow from the strides it
  uses, so that the two agree for argmax only where the sizes do (`ArgmaxExact`, `BatchesApart`),
  and the other sizes are among the exceptions.  There is a lemma for each generator (`ConcatExact`
  and so on).  `LanesCover` says which elements the work items cover when each takes several;
  `InRows`, `InCoordinates` and `InBlock` turn the positions of the loops into coordinates and back,
  by quotient and remainder; for the concatenation, `PiecesBefore` and `PiecesByPosition` say where
  each input begins in the output and that the inputs leave no gap; `TopTwoFound` says that the one
  pass of argmax ends with the two greatest values, the earlier one first when they are equal,
  whatever the values are.  What the model computes step by step (`Before`, `ChannelsBefore`,
  `TopTwo`) are recursive functions; that they are defined on every number, and what they contain,
  follows from one fact, that a set of numbers that is not empty has a least one (`LeastNumber`),
  used as an induction over a set (`UpTo`), so no theorem with an operator as parameter is
  instantiated.  `PassedInv` carries it through the life of the graph: arguments keep the kinds
  their kernel registers and stay well formed (`Typed`), and every layer of a graph past its
  verification is one the verification may pass.  The proof found the model wrong in one place: a
  virtual image given to `tensor_to_image` has the format that was announced for it, and not one
  channel; it was corrected, and the run now contains such a layer.
* `GraphApplicationsProofs!NodesAlwaysSound` and what follows from it, `!NodesTyped`,
  `!ConstructedNodesAlwaysVerify`, `!VerifiedNodesAlwaysRun`, `!ArgumentsAlwaysReach` — the sixty
  kernels of vx_opencv, for all sizes and values of their arguments.  One lemma for each kernel
  (`absdiff_Sound` and so on) compares the three places its parameters are described in, the
  registration, the validators and the body: every input is converted, read as the type the
  validator demands and handed to OpenCV, every output written, and no step of the body is given an
  object of another kind.  One lemma for each group of constructors compares what they make with
  what the kernels take; five do not agree, those of `MismatchedConstructors`.  `NodeInv` carries
  that through the life of a node: of its arguments at most one is not of those that work, by size,
  by the levels of a pyramid or the items of an array (`IsWorking`) (an application is taken to get
  one argument wrong, `Tried`), and a verified node has been accepted argument by argument.  The
  types of the scalars are exact, their values are arbitrary. Execution has one more input, how many
  Mats or features OpenCV has made (`Produced`, `made`); `MayFail`, `Pyramids` and `Arrays` say of
  every step that converts a result in which cases it can fail, and that those are the exceptions
  `VerifiedRun` names.
* `GraphApplicationsProofs!ApplicationTyped`, `!ApplicationVerifiesWhatIsMade`,
  `!ApplicationRunsWhatVerifies`, `!ApplicationArgumentsUsed`, `!ApplicationKernelsExact` and
  `!ApplicationReleasesAll` — the properties of the run
  `GraphApplications`, from the theorems about its three parts: a step of the application is a step
  of the part it uses and a stutter of the others (`StitchesOnly`, `VisionOnly`, `LayersOnly`).

Every invariant and every safety action property of the passing runs is stated by one of these
theorems.  Only model-checked:

* everything temporal (`Terminates`, `EveryItemTaken`, `DestructorEnds`, `ProcessFrameReturns`,
  `SessionsEnd`, the fairness of `ImplementsService`), which is out of the prover's reach;
* the overrun of the limit by several producers;
* that the shapes a user of vx_nn would call fitting are those the validators accept: for the
  lists of the instance `FittingAssumption` is evaluated, in general it is the definition.

## 5. Not modelled, and why

* Floating point, the text of messages, and what pixels and elements contain: nothing here depends
  on them.  Which element a generated kernel moves where is modelled.
* The kernels of `LS/kernels`, region and profiler: functions of buffers, without protocol.
* The model converters (Python and C++): sequential translations of text, whose input language
  (caffemodel, NNEF, ONNX) would have to be modelled first.
* loom_shell: an interpreter over the LiveStitch API, of which it keeps no state of its own that
  outlives a command, except `runParallel`, whose hazard is listed.
* The clients: their messages are inputs; the receiver's static abort flag is listed as a hazard.
* Media node registration: two calls.
* In a session: a reply that reaches a client which does not acknowledge it; the client leaves at
  the exchange that follows instead, with the same answers told.  OpenCL errors, which end the
  process; the `NO_INFERENCE_SCHEDULER` build, which is not the one the source selects; bytes and
  partial writes; batches larger than the bounded tag queue, in which the session blocks (excluded
  by the assumption).  The encoder build without OpenCL.
* In the server: the command line and the OpenCL query (constants); the shadow files' contents
  (whose 16-bit sizes are a hazard of the list); what `cmake`, `make` and the generator do beyond
  the files they read and write; the two model files of an upload, which are one (`weights`); a
  restart has the same command line.  The configuration file of a model is written in one step: a crash
  between its `fopen` and `fclose` leaves a file without the 8 or 14 fields `getPreConfiguredModels`
  reads (`AIS/arguments.cpp:208`), which is passed over like a missing one.
* In `LiveStitch`: swapping OpenCL buffers, strides, loading of modules, attributes set after
  creation, export, getters, gains and blend weights.  That `lsInitialize` may return `VX_FAILURE` from a
  context it has initialised, when it cannot create the dump of the auxiliary data (2770 to 2785), is the
  caller's knowledge and changes nothing in the context.  What a release that fails has released is
  decided by the pointers it does not clear.
* In `OpenCVNodes`: what OpenCV computes and when it throws beyond the types and sizes it is given;
  whether reading beyond the Mats of a pyramid, or `vxAddArrayItems` of nothing, ends the process, is
  refused or passes unnoticed (all three are possible in the model).
* In `NeuralNodes`: the merge of softmax with argmax, the constructor of region pooling, the inner
  loop of the matrix product.  The OpenVX framework is taken to compare a validator's announcement
  with the output and to uninitialize only layers whose initialization succeeded.

## 6. Plan

Done: the inference session with its abstract service, the message queue, the two media nodes,
the server with its shared resources, the stitch context, the nodes of vx_opencv and vx_nn, and
the proofs listed above.  What a continuation would take up, in this order:

1. The shapes MIOpen demands of the layers of vx_nn, as a definition of its own in place of the
   constant `Fitting`, and the validators compared with it.
2. The receiver thread of `annInferenceApp`, composed with `InferencePipeline`.
3. `runParallel` of loom_shell over several `LiveStitch` contexts.
