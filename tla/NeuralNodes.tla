------------------------------ MODULE NeuralNodes ------------------------------
(***************************************************************************)
(* The neural network module of an OpenVX context (vx_nn): loading it,     *)
(* which publishes its kernels; and a graph of its layers, made by their   *)
(* constructors or by hand, verified, initialised, executed and released.  *)
(*                                                                         *)
(* The layers of one graph share a handle, whose count createGraphHandle   *)
(* and releaseGraphHandle keep.  The OpenVX framework is external: it runs *)
(* the validators and compares what they announce with the outputs, then   *)
(* initialises one layer after another, and later destroys only those      *)
(* whose initializer succeeded.                                            *)
(***************************************************************************)
EXTENDS NeuralLayers, NeuralCodegen

CONSTANTS Fitting,            \* the arguments a user means a layer to have:
                              \* a set of functions for each kernel
          OddArguments,       \* the arguments that may replace one of them
          Companions,         \* bound: the kernels of a graph's second layer
          UnreliableLayers    \* bound: the kernels the framework may refuse to add

VARIABLES registered,   \* the kernels the context has
          cbr,          \* NN_MIOPEN_CBR_MODE is set
          layers,       \* the nodes of the graph
          handle,       \* count of the graph's handle: 0 when there is none
          status        \* what has become of the graph

layerVars == <<registered, cbr, layers, handle, status>>

-------------------------------------------------------------------------------
(***************************************************************************)
(* The layers by the names of their kernels, in the order of publishing.   *)
(***************************************************************************)
LayersToPublish ==
  <<"convolution", "fully_connected", "pooling", "softmax", "normalization", "activation",
    "roi_pooling", "deconvolution", "batch_normalization", "argmax", "concat", "slice",
    "image_to_tensor", "tensor_to_image", "tensor_add", "tensor_subtract",
    "tensor_multiply", "scale", "upsample_nearest", "tensor_table_lookup",
    "tensor_matrix_multiply", "reshape">>

NeuralKernels == {LayersToPublish[n] : n \in 1 .. Len(LayersToPublish)}

Generating == {"argmax", "concat", "slice", "image_to_tensor", "tensor_to_image",
               "upsample_nearest", "tensor_table_lookup"}

\* The parameters of the kernels.
Signatures == [
  convolution |-> publishConvolutionLayer,
  fully_connected |-> publishFullyConnectedLayer,
  pooling |-> publishPoolingLayer,
  softmax |-> publishSoftmaxLayer,
  normalization |-> publishNormalizationLayer,
  activation |-> publishActivationLayer,
  roi_pooling |-> publishROIPoolingLayer,
  deconvolution |-> publishDeconvolutionLayer,
  batch_normalization |-> publishBatchNormalizationLayer,
  argmax |-> publishArgmaxLayer,
  concat |-> publishConcatLayer,
  slice |-> publishSliceLayer,
  image_to_tensor |-> publishImageToTensorConvert,
  tensor_to_image |-> publishTensorToImageConvert,
  tensor_add |-> publishTensorAdd,
  tensor_subtract |-> publishTensorSubtraction,
  tensor_multiply |-> publishTensorMultiply,
  scale |-> publishScaleLayer,
  upsample_nearest |-> publishUpsampleNearest,
  tensor_table_lookup |-> publishTensorTableLookup,
  tensor_matrix_multiply |-> publishTensorMatrixMultiply,
  reshape |-> publishReshapeLayer]

Signature(kernel) == Listed(Signatures[kernel])

\* The constructors; vxROIPoolingLayer is left out, its layer cannot run.
LayerConstructors ==
  {vxConvolutionLayer, vxFullyConnectedLayer, vxPoolingLayer, vxSoftmaxLayer,
   vxNormalizationLayer, vxActivationLayer, vxDeconvolutionLayer,
   vxBatchNormalizationLayer, vxArgmaxLayer, vxConcatLayer, vxSliceLayer,
   vxConvertImageToTensorNode, vxConvertTensorToImageNode, vxTensorAddNode,
   vxTensorSubtractNode, vxTensorMultiplyNode, vxScaleLayer, vxUpsampleNearestLayer,
   vxTensorTableLookupNode, vxTensorMatrixMultiplyNode, vxReshapeLayer}

\* The framework knows the parameters' kinds: it takes an argument of no other
\* kind.
Kinds(parameter) ==
  IF parameter.kind = "reference" THEN {"image", "tensor"} ELSE {parameter.kind}

\* What the framework makes: a scalar of a type and a value, and no more; tensors
\* and images empty in no dimension; tables that begin at 0 or below, those of bytes
\* with an entry for every byte.
WellFormed(a) ==
  /\ a.kind = "scalar" => a = Number(a.type, a.value)
  /\ a.kind \in {"tensor", "image"} => a.dims \in Seq(Nat \ {0})
  /\ a.kind = "lut" =>
       /\ a.count \in Nat /\ a.offset \in Nat
       /\ a.type = "UINT8" => a.count = 256 /\ a.offset = 0

ASSUME LayerAssumption ==
  /\ DOMAIN Fitting = NeuralKernels
  /\ \A kernel \in NeuralKernels : \A p \in Fitting[kernel] :
       /\ DOMAIN p = DOMAIN Signature(kernel)
       /\ p = [i \in DOMAIN p |-> p[i]]
       /\ \A i \in DOMAIN p :
            /\ WellFormed(p[i])
            /\ Given(p[i]) => p[i].kind \in Kinds(Signature(kernel)[i])
  /\ \A a \in OddArguments : WellFormed(a)
  /\ Companions \union UnreliableLayers \subseteq NeuralKernels

Validate(kernel, p) ==
  CASE kernel = "convolution" -> validateConvolutionLayer(p)
    [] kernel = "fully_connected" -> validateFullyConnectedLayer(p)
    [] kernel = "pooling" -> validatePoolingLayer(p)
    [] kernel = "softmax" -> validateSoftmaxLayer(p)
    [] kernel = "normalization" -> validateNormalizationLayer(p)
    [] kernel = "activation" -> validateActivationLayer(p)
    [] kernel = "roi_pooling" -> validateROIPoolingLayer(p)
    [] kernel = "deconvolution" -> validateDeconvolutionLayer(p)
    [] kernel = "batch_normalization" -> validateBatchNormalizationLayer(p)
    [] kernel = "argmax" -> validateArgmax(p)
    [] kernel = "concat" -> validateConcatLayer(p)
    [] kernel = "slice" -> validateSliceLayer(p)
    [] kernel = "image_to_tensor" -> validateImageToTensorKernel(p)
    [] kernel = "tensor_to_image" -> validateTensorToImageKernel(p)
    [] kernel = "tensor_add" -> validateTensorAddition(p)
    [] kernel = "tensor_subtract" -> validateTensorSub(p)
    [] kernel = "tensor_multiply" -> validateTensorMultiply(p)
    [] kernel = "scale" -> validateScaleLayer(p)
    [] kernel = "upsample_nearest" -> validateUpsample(p)
    [] kernel = "tensor_table_lookup" -> validateTensorTableLookup(p)
    [] kernel = "tensor_matrix_multiply" -> validateMatrixMultiply(p)
    [] kernel = "reshape" -> validateReshapeLayer(p)

Initializer(kernel, p, env) ==
  CASE kernel = "convolution" -> initializeConvolutionLayer(p, env)
    [] kernel = "fully_connected" -> initializeFullyConnectedLayer(p, env)
    [] kernel = "pooling" -> initializePoolingLayer(p, env)
    [] kernel = "softmax" -> initializeSoftmaxLayer(p, env)
    [] kernel = "normalization" -> initializeNormalizationLayer(p, env)
    [] kernel = "activation" -> initializeActivationLayer(p, env)
    [] kernel = "roi_pooling" -> initializeROIPoolingLayer(p, env)
    [] kernel = "deconvolution" -> initializeDeconvolutionLayer(p, env)
    [] kernel = "batch_normalization" -> initializeBatchNormalizationLayer(p, env)
    [] kernel = "tensor_add" -> initializeTensorAddition(p, env)
    [] kernel = "tensor_subtract" -> initializeTensorSub(p, env)
    [] kernel = "tensor_multiply" -> initializeTensorMultiply(p, env)
    [] kernel = "scale" -> initializeScaleLayer(p, env)
    [] kernel = "tensor_matrix_multiply" -> initializeMatrixMultiply(p, env)
    [] kernel = "reshape" -> initializeReshapeLayer(p, env)

Execution(kernel, p, data) ==
  CASE kernel = "convolution" -> processConvolutionLayer(p, data)
    [] kernel = "fully_connected" -> processFullyConnectedLayer(p, data)
    [] kernel = "pooling" -> processPoolingLayer(p, data)
    [] kernel = "softmax" -> processSoftmaxLayer(p, data)
    [] kernel = "normalization" -> processNormalizationLayer(p, data)
    [] kernel = "activation" -> processActivationLayer(p, data)
    [] kernel = "roi_pooling" -> processROIPoolingLayer(p, data)
    [] kernel = "deconvolution" -> processDeconvolutionLayer(p, data)
    [] kernel = "batch_normalization" -> processBatchNormalizationLayer(p, data)
    [] kernel = "tensor_add" -> processTensorAddition(p, data)
    [] kernel = "tensor_subtract" -> processTensorSub(p, data)
    [] kernel = "tensor_multiply" -> processTensorMultiply(p, data)
    [] kernel = "scale" -> processScaleLayer(p, data)
    [] kernel = "tensor_matrix_multiply" -> processMatrixMultiply(p, data)
    [] kernel = "reshape" -> processReshapeLayer(p, data)
    [] kernel \in Generating -> {}

Destructor(kernel, data) ==
  CASE kernel = "convolution" -> uninitializeConvolutionLayer(data)
    [] kernel = "fully_connected" -> uninitializeFullyConnectedLayer(data)
    [] kernel = "pooling" -> uninitializePoolingLayer(data)
    [] kernel = "softmax" -> uninitializeSoftmaxLayer(data)
    [] kernel = "normalization" -> uninitializeNormalizationLayer(data)
    [] kernel = "activation" -> uninitializeActivationLayer(data)
    [] kernel = "roi_pooling" -> uninitializeROIPoolingLayer(data)
    [] kernel = "deconvolution" -> uninitializeDeconvolutionLayer(data)
    [] kernel = "batch_normalization" -> uninitializeBatchNormalizationLayer(data)
    [] kernel = "tensor_add" -> uninitializeTensorAddition(data)
    [] kernel = "tensor_subtract" -> uninitializeTensorSub(data)
    [] kernel = "tensor_multiply" -> uninitializeTensorMultiply(data)
    [] kernel = "scale" -> uninitializeScaleLayer(data)
    [] kernel = "tensor_matrix_multiply" -> uninitializeMatrixMultiply(data)
    [] kernel = "reshape" -> uninitializeReshapeLayer(data)
    [] kernel \in Generating -> <<>>

Generated(kernel, p) ==
  CASE kernel = "argmax" -> argmax(p)
    [] kernel = "concat" -> concat(p)
    [] kernel = "slice" -> slice(p)
    [] kernel = "image_to_tensor" -> image_to_tensor(p)
    [] kernel = "tensor_to_image" -> tensor_to_image(p)
    [] kernel = "upsample_nearest" -> upsample(p)
    [] kernel = "tensor_table_lookup" -> tensor_table_lookup(p)

-------------------------------------------------------------------------------
(***************************************************************************)
(* Loading the module, and the nodes of the graph.                         *)
(***************************************************************************)
NoObjects == [held |-> {}, mode |-> [of |-> {}, fused |-> FALSE], fused |-> FALSE,
              garbage |-> FALSE]

LayerInit ==
  /\ registered = {}
  /\ cbr \in BOOLEAN
  /\ layers = <<>>
  /\ handle = 0
  /\ status = "loading"

\* The first kernel that is refused ends the publishing; those before it stay.
nnPublishKernels ==
  /\ status = "loading"
  /\ \E n \in {n \in 1 .. Len(LayersToPublish) : LayersToPublish[n] \in UnreliableLayers}
                \union {Len(LayersToPublish) + 1} :
       registered' = {LayersToPublish[m] : m \in 1 .. n - 1}
  /\ status' = "building"
  /\ UNCHANGED <<cbr, layers, handle>>

\* Of the arguments for the kernel, those the constructor takes.
MadeBy(constructor, p) ==
  LET made == Listed(constructor.made)
  IN [i \in DOMAIN p |->
        IF i \notin DOMAIN made THEN Nothing
        ELSE IF made[i] = Passed THEN p[i]
        ELSE Number(made[i], p[i].value)]

\* One argument is replaced by another for the same parameter.
Replaceable(kernel, p, i, a) ==
  \/ ~Given(a) /\ Given(p[i])
  \/ /\ a.kind \in Kinds(Signature(kernel)[i])
     /\ ~(Given(p[i]) /\ p[i].type = a.type /\ p[i] = a)

\* createNode makes no node of a kernel that is not registered.
AddLayer(kernel, by, fits, p) ==
  /\ layers' = Append(layers, [kernel |-> kernel, by |-> by, fits |-> fits, p |-> p,
                               data |-> NoObjects, ready |-> FALSE, broken |-> FALSE,
                               applied |-> {}])
  /\ UNCHANGED <<registered, cbr, handle, status>>

\* Mutant: createNode makes a node of a kernel that was never registered.
MayAddAny(kernel) ==
  /\ status = "building"
  /\ layers # <<>> => Len(layers) = 1 /\ layers[1].fits /\ kernel \in Companions

\* Bound: graphs of two layers, the second one of Companions, both with fitting
\* arguments; or of one layer, with one argument replaced.
MayAdd(kernel) ==
  /\ status = "building"
  /\ kernel \in registered
  /\ layers # <<>> => Len(layers) = 1 /\ layers[1].fits /\ kernel \in Companions

ConstructLayer ==
  \E constructor \in {c \in LayerConstructors : MayAdd(c.kernel)} :
    \E p \in Fitting[constructor.kernel] :
      \/ AddLayer(constructor.kernel, "constructor", TRUE, MadeBy(constructor, p))
      \/ /\ layers = <<>>
         /\ \E n \in 1 .. Len(constructor.made), a \in OddArguments :
              /\ constructor.made[n] = Passed
              /\ Replaceable(constructor.kernel, p, n - 1, a)
              /\ AddLayer(constructor.kernel, "constructor", FALSE,
                          MadeBy(constructor, [p EXCEPT ![n - 1] = a]))

CreateLayer ==
  \E kernel \in {k \in NeuralKernels : MayAdd(k)} : \E p \in Fitting[kernel] :
    \/ AddLayer(kernel, "hand", TRUE, p)
    \/ /\ layers = <<>>
       /\ \E i \in DOMAIN p, a \in OddArguments :
            /\ Replaceable(kernel, p, i, a)
            /\ AddLayer(kernel, "hand", FALSE, [p EXCEPT ![i] = a])

-------------------------------------------------------------------------------
(***************************************************************************)
(* The life of the graph.                                                  *)
(***************************************************************************)
Complete(l) ==
  LET signature == Signature(l.kernel)
  IN \A i \in DOMAIN l.p : signature[i].optional \/ Given(l.p[i])

\* A virtual image takes the format that is announced for it.
Agrees(a, announced) ==
  /\ a.type \in {announced.type, "VIRT"}
  /\ a.dims = announced.dims

AcceptsLayer(l, verdict) ==
  /\ verdict.accepted
  /\ \A i \in DOMAIN verdict.outputs : Agrees(l.p[i], verdict.outputs[i])

\* A validator's verdict may be unsettled.
MayPass(l) ==
  Complete(l) /\ \E verdict \in Validate(l.kernel, l.p) : AcceptsLayer(l, verdict)
MayBeRefused(l) ==
  Complete(l) => \E verdict \in Validate(l.kernel, l.p) : ~AcceptsLayer(l, verdict)

\* The verification can only accept a layer of the kernel with the arguments p.
Acceptable(kernel, p) ==
  /\ \A i \in DOMAIN p : Signature(kernel)[i].optional \/ Given(p[i])
  /\ \A verdict \in Validate(kernel, p) :
       /\ verdict.accepted
       /\ \A i \in DOMAIN verdict.outputs : Agrees(p[i], verdict.outputs[i])

\* The code refuses what it should not: pooling of regions, whose validator
\* compares a dimension it has not read; scaling by a vector of one dimension.
Excused(kernel, p) ==
  \/ kernel = "roi_pooling"
  \/ kernel = "scale" /\ \E i \in {1, 2} : Given(p[i]) /\ Len(p[i].dims) = 1

\* What fits is what the kernel's own validator accepts: the constructors are not
\* assumed to pass it on.
ASSUME FittingAssumption ==
  \A kernel \in NeuralKernels : \A p \in Fitting[kernel] :
    Acceptable(kernel, p) \/ Excused(kernel, p)

VerifyLayers ==
  /\ status = "building" /\ layers # <<>>
  /\ \/ (\A n \in 1 .. Len(layers) : MayPass(layers[n])) /\ status' = "initialising"
     \/ (\E n \in 1 .. Len(layers) : MayBeRefused(layers[n])) /\ status' = "refused"
  /\ UNCHANGED <<registered, cbr, layers, handle>>

\* A callback that runs its steps up to step n, and returns there.
Returns(steps) ==
  {n \in 1 .. Len(steps) : steps[n] \in {MayReturn, NotImplemented}}
  \union OnlyIf(NotImplemented \notin {steps[n] : n \in 1 .. Len(steps)}, {Len(steps) + 1})
Touched(steps, n) == {steps[m] : m \in 1 .. n - 1} \ {MayReturn}

After(n) == IF n = Len(layers) THEN "verified" ELSE "initialising"
NextToInitialize(n) ==
  /\ status = "initialising"
  /\ n = 1 + Cardinality({m \in 1 .. Len(layers) : layers[m].ready})

\* createGraphHandle counts one more user of the handle; what a failing
\* initializer has created, and its use of the handle, it leaves behind.
InitializeLayer(n) ==
  /\ NextToInitialize(n)
  /\ layers[n].kernel \notin Generating
  /\ \E workspace, compiles \in BOOLEAN :
       LET made == Initializer(layers[n].kernel, layers[n].p,
                               [cbr |-> cbr, workspace |-> workspace, compiles |-> compiles])
           success == Len(made.steps) + 1
       IN \E last \in Returns(made.steps) :
            LET created == Touched(made.steps, last) IN
            /\ layers' = [layers EXCEPT
                 ![n].data = [held |-> created, mode |-> made.mode, fused |-> made.fused,
                              garbage |-> made.garbage],
                 ![n].ready = (last = success),
                 ![n].broken = (last # success)]
            /\ handle' = handle + Cardinality(created \intersect {"handle"})
            /\ status' = IF last = success THEN After(n) ELSE "failed"
  /\ UNCHANGED <<registered, cbr>>

GenerateKernel(n) ==
  /\ NextToInitialize(n)
  /\ layers[n].kernel \in Generating
  /\ IF Generated(layers[n].kernel, layers[n].p).compiles
     THEN layers' = [layers EXCEPT ![n].ready = TRUE] /\ status' = After(n)
     ELSE UNCHANGED layers /\ status' = "failed"
  /\ UNCHANGED <<registered, cbr, handle>>

Calls(l) == Execution(l.kernel, l.p, l.data)

\* MIOpen refuses a call with an object that was never created, and that ends
\* the process; of one made from dimensions never read it may do either.
ProcessLayers ==
  /\ status = "verified"
  /\ LET lacking == \E n \in 1 .. Len(layers) : \E call \in Calls(layers[n]) :
                      ~(call.uses \subseteq layers[n].data.held)
         garbage == \E n \in 1 .. Len(layers) : layers[n].data.garbage
     IN \/ ~lacking /\ status' = "processed"
        \/ (lacking \/ garbage) /\ status' = "exited"
  /\ layers' = IF status' = "exited" THEN layers
               ELSE [n \in DOMAIN layers |->
                       [layers[n] EXCEPT !.applied =
                          UNION {call.applies : call \in Calls(layers[n])}]]
  /\ UNCHANGED <<registered, cbr, handle>>

ReleaseLayers ==
  /\ status \in {"building", "refused", "failed", "verified", "processed"}
  /\ layers # <<>>
  /\ status' = "releasing"
  /\ UNCHANGED <<registered, cbr, layers, handle>>

\* A destructor that returns early leaves what it has not come to.
UninitializeLayer(n) ==
  /\ status = "releasing"
  /\ layers[n].ready
  /\ \A m \in 1 .. n - 1 : ~layers[m].ready
  /\ LET steps == Destructor(layers[n].kernel, layers[n].data)
         released(last) == layers[n].data.held \intersect Touched(steps, last)
     IN \E last \in Returns(steps) :
          /\ layers' = [layers EXCEPT
               ![n].data.held = layers[n].data.held \ released(last),
               ![n].ready = FALSE,
               ![n].broken = (last <= Len(steps))]
          /\ handle' = handle - Cardinality(released(last) \intersect {"handle"})
  /\ UNCHANGED <<registered, cbr, status>>

LayersGone ==
  /\ status = "releasing"
  /\ \A n \in DOMAIN layers : ~layers[n].ready
  /\ status' = "released"
  /\ UNCHANGED <<registered, cbr, layers, handle>>

LayerNext ==
  \/ nnPublishKernels \/ ConstructLayer \/ CreateLayer \/ VerifyLayers
  \/ \E n \in 1 .. Len(layers) :
       InitializeLayer(n) \/ GenerateKernel(n) \/ UninitializeLayer(n)
  \/ ProcessLayers \/ ReleaseLayers \/ LayersGone

LayerSpec == LayerInit /\ [][LayerNext]_layerVars

-------------------------------------------------------------------------------
(***************************************************************************)
(* What a generated kernel is to do, by the coordinates of the outputs.    *)
(***************************************************************************)
ChannelsBefore(p, i) ==
  LET sum[j \in 1 .. i] == IF j = 1 THEN 0 ELSE sum[j - 1] + C(p[j - 1]) IN sum[i]

\* The elements of the whole and of its pieces: <<whole, piece, its position>>.
PiecesOfWhole(p) ==
  UNION {{<<At(p[0], x, y, ChannelsBefore(p, i) + c, n), i, At(p[i], x, y, c, n)>> :
            x \in 0 .. W(p[0]) - 1, y \in 0 .. H(p[0]) - 1,
            c \in 0 .. C(p[i]) - 1, n \in 0 .. N(p[0]) - 1} :
          i \in Pieces(p)}

Channels(type) == IF type = "RGB" THEN 3 ELSE 1

\* The output of argmax, by its own dimensions: an image has the batches below
\* each other.  And the elements it holds.
ArgmaxOutput(p) ==
  [dims |-> IF p[1].kind = "image"
            THEN <<p[1].dims[1], p[1].dims[2] \div Behind(1, 1, p[0].dims)[4], 1,
                   Behind(1, 1, p[0].dims)[4]>>
            ELSE BehindOnes(p[1].dims)]
ArgmaxElement(p) ==
  LET format == ArgmaxFormat(p)
  IN IF format = "U8" THEN "UINT8" ELSE IF format = "U16" THEN "UINT16" ELSE format

Intended(kernel, p) ==
  LET coordinates(t, channels) ==
        ((0 .. W(t) - 1) \X (0 .. H(t) - 1)) \X ((0 .. channels - 1) \X (0 .. N(t) - 1))
      at(t, q) == At(t, q[1][1], q[1][2], q[2][1], q[2][2])
      pixel(t, channels, q) ==
        Pixel(t, channels, q[1][1], q[1][2],
              IF channels = 3 /\ p[4].value = 1 THEN 2 - q[2][1] ELSE q[2][1], q[2][2])
  IN CASE kernel = "concat" -> {Move(<<0, e[1]>>, <<e[2], e[3]>>) : e \in PiecesOfWhole(p)}
       [] kernel = "slice" -> {Move(<<e[2], e[3]>>, <<0, e[1]>>) : e \in PiecesOfWhole(p)}
       [] kernel = "upsample_nearest" ->
            {Move(<<1, at(p[1], q)>>,
                  <<0, At(p[0], q[1][1] \div 2, q[1][2] \div 2, q[2][1], q[2][2])>>) :
               q \in coordinates(p[1], C(p[1]))}
       [] kernel = "tensor_table_lookup" ->
            {Move(<<2, id>>,
                  <<0, id, [v \in Sampled(p[0].type) |->
                              Within(v, min_idx(p[1]), max_idx(p[1]))]>>) :
               id \in 0 .. Elements(p[0]) - 1}
       [] kernel = "image_to_tensor" ->
            {Move(<<1, at(p[1], q)>>, <<0, pixel(p[1], Channels(p[0].type), q)>>) :
               q \in coordinates(p[1], C(p[1]))}
       [] kernel = "tensor_to_image" ->
            {Move(<<1, pixel(p[0], C(p[0]), q)>>, <<0, at(p[0], q)>>) :
               q \in coordinates(p[0], C(p[0]))}
       [] kernel = "argmax" ->
            LET in == [dims |-> Behind(1, 1, p[0].dims)]
                out == ArgmaxOutput(p)
            IN {Move(<<1, at(out, q), ArgmaxElement(p)>>,
                     <<0, At(in, q[1][1], q[1][2], 0, q[2][2]), C(in), q[2][1] + 1, TRUE>>) :
                  q \in coordinates(out, C(out))}

\* The first of the greatest values, and the first of the greatest others.
IsFirstGreatest(f, c, among) ==
  c \in among /\ \A d \in among : f[d] < f[c] \/ (f[d] = f[c] /\ d >= c)
TopTwoExact(channels) ==
  \A f \in [0 .. channels - 1 -> 0 .. 2] :
    /\ IsFirstGreatest(f, TopTwo(f)[1], DOMAIN f)
    /\ channels > 1 => IsFirstGreatest(f, TopTwo(f)[2], DOMAIN f \ {TopTwo(f)[1]})

-------------------------------------------------------------------------------
(***************************************************************************)
(* Properties.                                                             *)
(***************************************************************************)
LayersTypeOK ==
  /\ registered \subseteq NeuralKernels
  /\ cbr \in BOOLEAN
  /\ status \in {"loading", "building", "refused", "initialising", "failed", "verified",
                 "processed", "exited", "releasing", "released"}
  /\ handle \in 0 .. Len(layers)
  /\ \A n \in 1 .. Len(layers) :
       /\ layers[n].kernel \in registered
       /\ DOMAIN layers[n].p = DOMAIN Signature(layers[n].kernel)
       /\ ~(layers[n].ready /\ layers[n].broken)
       /\ layers[n].ready => status \notin {"loading", "building", "refused", "released"}

\* A generator does not compile: the two greatest channels of rows of a width that
\* is no multiple of four; a tensor of 16 bits upsampled, or made an image of
\* colours.
DoesNotCompile(l) ==
  \/ /\ l.kernel = "argmax" /\ Ranks(l.p[1]) = 2
     /\ Behind(1, 1, l.p[0].dims)[1] % 4 # 0
  \/ l.kernel = "upsample_nearest" /\ l.p[1].type = "FLOAT16"
  \/ l.kernel = "tensor_to_image" /\ l.p[0].type = "FLOAT16" /\ C(l.p[0]) = 3

\* A graph whose layers have fitting arguments verifies, whoever made its nodes,
\* and what is generated for it compiles.  This relates the constructors and the
\* registration with the validators and the generators; the code's exceptions are
\* Excused and DoesNotCompile.
ConstructedLayersVerify ==
  /\ status = "refused" =>
       \E n \in 1 .. Len(layers) :
         ~layers[n].fits \/ Excused(layers[n].kernel, layers[n].p)
  /\ status = "failed" =>
       \E n \in 1 .. Len(layers) : layers[n].broken \/ DoesNotCompile(layers[n])

\* A verified graph runs: no layer calls MIOpen with an object its initializer
\* has not made.  The code's exceptions: pooling with an activation that is 0,
\* and a fully connected layer whose output has two dimensions.
VerifiedLayersRun ==
  status = "exited" =>
    \E n \in 1 .. Len(layers) :
      \/ layers[n].kernel = "pooling" /\ layers[n].p[9] = Number("INT32", 0)
      \/ layers[n].kernel = "fully_connected" /\ Len(layers[n].p[5].dims) = 2

\* What the user means to be applied: the tensors, and the activation.
Meant(l) ==
  {i \in DOMAIN l.p :
     /\ Given(l.p[i])
     /\ Signature(l.kernel)[i].direction = "input"
     /\ \/ Signature(l.kernel)[i].kind = "tensor"
        \/ <<l.kernel, i>> \in {<<"convolution", 5>>, <<"pooling", 9>>}}

\* Once a graph has been executed, each of its layers has applied all that it
\* was given.  The code's exception: a convolution that NN_MIOPEN_CBR_MODE marks
\* as fused, and then executes without a fusion plan, has applied neither its
\* bias nor its activation.
LayersApplied ==
  status = "processed" =>
    \A n \in 1 .. Len(layers) :
      LET l == layers[n] IN
      \/ l.kernel \in Generating
      \/ Meant(l) \subseteq l.applied
      \/ l.kernel = "convolution" /\ l.data.mode.fused /\ ~l.data.fused

\* The count of the graph's handle is that of the layers which use it; and once
\* the graph is gone, so is all its layers have made, but what an initializer
\* or a destructor that failed has left behind.
LayersReleased ==
  /\ handle = Cardinality({n \in 1 .. Len(layers) : "handle" \in layers[n].data.held})
  /\ status = "released" =>
       \A n \in 1 .. Len(layers) : layers[n].data.held = {} \/ layers[n].broken

\* A generated kernel does not do what it is to do.  argmax writes beyond an output
\* smaller than its input, and not the whole of a greater one, both of which its
\* validator lets pass; writes no tensor of signed integers, and 16 bits to an image
\* of any format but U8; reads two channels where there is one, and cannot tell more
\* than 65536 apart; and takes strides of dimensions that a tensor of two has not,
\* whatever the framework gives for them.  Images are converted to tensors of their
\* own number of channels only, grey ones only four pixels at a time; 16 bits looked
\* up two at a time lose their sign.
Inexact(l) ==
  \/ /\ l.kernel = "argmax"
     /\ LET in == Behind(1, 1, l.p[0].dims)
            out == l.p[1]
        IN \/ Len(l.p[0].dims) # 4 \/ in[3] > Indexes(output_data_type(l.p))
           \/ out.kind = "image" /\ out.type \notin {"U8", "U16", "VIRT"}
           \/ /\ out.kind = "tensor"
              /\ \/ out.type = "INT16" \/ Len(out.dims) # 4
                 \/ <<out.dims[1], out.dims[2], out.dims[4]>> # <<in[1], in[2], in[4]>>
                 \/ out.dims[3] > in[3]
  \/ /\ l.kernel = "image_to_tensor"
     /\ \/ C(l.p[1]) # Channels(l.p[0].type)
        \/ l.p[0].type = "U8" /\ W(l.p[1]) % 4 # 0
  \/ /\ l.kernel = "tensor_table_lookup"
     /\ l.p[0].type = "INT16" /\ Elements(l.p[0]) % 2 = 0

\* A kernel generated for a verified graph writes every element of its outputs,
\* once, from the element it is to come from; and argmax finds the two greatest
\* channels.  The code's exceptions are Inexact.
GeneratedKernelsExact ==
  status = "verified" =>
    \A n \in 1 .. Len(layers) :
      LET l == layers[n] IN
      l.kernel \in Generating /\ ~Inexact(l) =>
        /\ Generated(l.kernel, l.p).moves = Intended(l.kernel, l.p)
        /\ l.kernel = "argmax" => TopTwoExact(Behind(1, 1, l.p[0].dims)[3])

===============================================================================
