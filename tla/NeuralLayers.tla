------------------------------ MODULE NeuralLayers ------------------------------
(***************************************************************************)
(* The layers of vx_nn that MIOpen executes: for each its validator, its   *)
(* initializer, its execution and its destructor, the registration of its  *)
(* kernel and the constructor of its node.                                 *)
(*                                                                         *)
(* `env' says what an initializer finds: whether NN_MIOPEN_CBR_MODE is set *)
(* (cbr), whether MIOpen asks for a workspace, whether a fusion plan       *)
(* compiles.  `data' is the local data of an initialised node: the objects *)
(* it holds, and what its initializer decided.                             *)
(***************************************************************************)
EXTENDS NeuralTensors

Convolved(p, out) ==
  /\ N(out) = N(p[0])
  /\ C(p[0]) = C(p[1])
  /\ C(out) = N(p[1])

\* All dimensions agree, or those of the second but the channels are 1.
Elementwise(p, out) ==
  LET second == Behind(1, 1, p[1].dims) IN
  /\ out.dims = p[0].dims
  /\ C(out) = second[3]
  /\ p[1].type = out.type
  /\ \/ <<second[1], second[2], second[4]>> = <<1, 1, 1>>
     \/ second = out.dims

SameShape(in, out, dims) ==
  /\ IsFloat(in, {4})
  /\ IsFloat(out, {4})
  /\ \A d \in dims : in.dims[d] = out.dims[d]

Descriptors == <<"input_desc", "weight_desc", "output_desc", "bias_desc">>
Workspace(env) == When(env.workspace, <<MayReturn, "workspace", MayReturn>>)
ReleaseWorkspace(data) ==
  When("workspace" \in data.held, <<MayReturn, "workspace">>)

-------------------------------------------------------------------------------
(***************************************************************************)
(* Convolution: with a bias, an activation, both or none, fused by MIOpen  *)
(* or applied one after the other.                                         *)
(***************************************************************************)
validateConvolutionLayer(p) ==
  Verdict(/\ p[3].type = "CONVOLUTION_PARAMS"
          /\ Given(p[5]) => (p[5].type = "FLOAT32" /\ p[5].value \in 0 .. 1)
          /\ IsFloat(p[0], {4}) /\ IsFloat(p[1], {4})
          /\ Given(p[2]) => IsVector(p[2], N(p[1]))
          /\ IsFloat(p[4], {4})
          /\ Convolved(p, p[4]),
          Announces(4, p[0].type, p[4].dims))

Stride(in, out, kernel, params) ==
  IF out > 1
  THEN (((in + (2 * params.padding)) - kernel - ((kernel - 1) * params.dilation))
         + ((out - 1) \div 2)) \div (out - 1)
  ELSE 1

\* bias_activ_mode: what is to follow the convolution, and whether MIOpen is
\* to fuse it.
bias_activ_mode(p, cbr) ==
  [of |-> OnlyIf(Given(p[2]), {"bias"}) \union OnlyIf(Given(p[5]), {"activation"}),
   fused |-> /\ cbr
             /\ \A d \in {1, 2} :
                  /\ Stride(p[0].dims[d], p[4].dims[d], p[1].dims[d], p[3].value) = 1
                  /\ p[1].dims[d] > 1
             /\ p[3].value.dilation = 0
             /\ p[3].value.padding <= 1]

\* Only the fusion of both is ever tried; when it is not, or its plan does not
\* compile, the mode stays as it was.
initializeConvolutionLayer(p, env) ==
  LET mode == bias_activ_mode(p, env.cbr)
      planned == mode.fused /\ mode.of = {"bias", "activation"}
      fused == planned /\ env.compiles
  IN [Callback(<<MayReturn, "handle", MayReturn>> \o Descriptors
            \o <<"conv_desc", MayReturn>>
            \o When(planned, <<"fusePlanDesc", "fusionArgs">>)
            \o When(~fused /\ ~mode.fused /\ "activation" \in mode.of,
                    <<"activation_desc">>)
            \o When(~fused, Workspace(env))
            \o <<MayReturn>>)
      EXCEPT !.mode = mode, !.fused = fused]

processConvolutionLayer(p, data) ==
  IF data.fused
  THEN {Applies({0, 1, 2, 5}, {"handle", "fusePlanDesc", "fusionArgs", "input_desc",
                               "output_desc"})}
  ELSE {Applies({0, 1}, {"handle", "input_desc", "weight_desc", "conv_desc",
                         "output_desc"})}
       \union OnlyIf(~data.mode.fused /\ "bias" \in data.mode.of,
                     {Applies({2}, {"handle", "bias_desc", "output_desc"})})
       \union OnlyIf(~data.mode.fused /\ "activation" \in data.mode.of,
                     {Applies({5}, {"handle", "activation_desc", "output_desc"})})

uninitializeConvolutionLayer(data) ==
  ReleaseWorkspace(data)
  \o <<"fusePlanDesc", "fusionArgs", "conv_desc", "activation_desc", "input_desc",
       "output_desc", "weight_desc", "bias_desc", "handle">>

publishConvolutionLayer ==
  <<Input("tensor"), Input("tensor"), Optional(Input("tensor")), Input("scalar"),
    Output("tensor"), Optional(Input("scalar"))>>

vxConvolutionLayer ==
  Constructs("convolution", <<Passed, Passed, Passed, "CONVOLUTION_PARAMS", Passed>>)

-------------------------------------------------------------------------------
(***************************************************************************)
(* Fully connected: a convolution whose input takes the weights' shape.    *)
(* The weights and the output may have two dimensions; the initializer     *)
(* reads those of the output as if there were four.                        *)
(***************************************************************************)
validateFullyConnectedLayer(p) ==
  LET weights == Behind(1, 1, p[1].dims)
      output == Behind(1, 1, p[5].dims)
      last == IF Given(p[2]) THEN p[2] ELSE p[1]
  IN Verdict(/\ p[3].type = "ENUM" /\ p[4].type = "ENUM"
             /\ IsFloat(p[0], {4}) /\ IsFloat(p[1], {2, 4})
             /\ Given(p[2]) => IsVector(p[2], weights[4])
             /\ IsFloat(p[5], {2, 4})
             /\ output[4] = N(p[0])
             /\ Volume(p[0]) = ((weights[3] * weights[2]) * weights[1])
             /\ output[3] = weights[4],
             Announces(5, last.type, p[5].dims))

initializeFullyConnectedLayer(p, env) ==
  [Callback(<<MayReturn, "handle", MayReturn>> \o Descriptors \o <<"convdesc", MayReturn>>
         \o Workspace(env) \o <<MayReturn>>)
   EXCEPT !.garbage = Len(p[5].dims) < 4]

\* Mutant: the bias is not applied.
processFullyConnectedLayerUnbiased(p, data) ==
  {Applies({0, 1}, {"handle", "input_desc", "weight_desc", "convdesc", "output_desc"})}

processFullyConnectedLayer(p, data) ==
  {Applies({0, 1}, {"handle", "input_desc", "weight_desc", "convdesc", "output_desc"})}
  \union OnlyIf(Given(p[2]), {Applies({2}, {"handle", "bias_desc", "output_desc"})})

uninitializeFullyConnectedLayer(data) ==
  ReleaseWorkspace(data)
  \o <<"convdesc", "input_desc", "output_desc", "weight_desc", "bias_desc", "handle">>

publishFullyConnectedLayer ==
  <<Input("tensor"), Input("tensor"), Optional(Input("tensor")), Input("scalar"),
    Input("scalar"), Output("tensor")>>

vxFullyConnectedLayer ==
  Constructs("fully_connected", <<Passed, Passed, Passed, "ENUM", "ENUM", Passed>>)

-------------------------------------------------------------------------------
(***************************************************************************)
(* Deconvolution.  Its weights are checked as those of a convolution.      *)
(***************************************************************************)
validateDeconvolutionLayer(p) ==
  LET last == IF Given(p[2]) THEN p[2] ELSE p[1]
  IN Verdict(/\ p[3].type = "DECONVOLUTION_PARAMS"
             /\ IsFloat(p[0], {4}) /\ IsFloat(p[1], {4})
             /\ Given(p[2]) => IsVector(p[2], N(p[1]))
             /\ Len(p[4].dims) = 4
             /\ Convolved(p, p[4])
             /\ last.type = p[4].type,
             Announces(4, p[4].type, p[4].dims))

initializeDeconvolutionLayer(p, env) ==
  Callback(<<MayReturn, "handle", MayReturn>> \o Descriptors \o <<"deconv_desc", MayReturn>>
        \o Workspace(env) \o <<MayReturn>>)

processDeconvolutionLayer(p, data) ==
  {Applies({0, 1}, {"handle", "input_desc", "weight_desc", "deconv_desc", "output_desc"})}
  \union OnlyIf(Given(p[2]), {Applies({2}, {"handle", "bias_desc", "output_desc"})})

uninitializeDeconvolutionLayer(data) ==
  ReleaseWorkspace(data)
  \o <<"deconv_desc", "input_desc", "output_desc", "weight_desc", "bias_desc", "handle">>

publishDeconvolutionLayer ==
  <<Input("tensor"), Input("tensor"), Optional(Input("tensor")), Input("scalar"),
    Output("tensor")>>

vxDeconvolutionLayer ==
  Constructs("deconvolution",
             <<Passed, Passed, Passed, "DECONVOLUTION_PARAMS", Passed>>)

-------------------------------------------------------------------------------
(***************************************************************************)
(* Pooling, with an optional activation.  The execution calls the          *)
(* activation whenever its parameter is there; the initializer creates its *)
(* descriptor only when the parameter is 1.                                *)
(***************************************************************************)
validatePoolingLayer(p) ==
  Verdict(/\ p[1].type = "ENUM" /\ p[6].type = "ENUM"
          /\ \A i \in 2 .. 5 : p[i].type = "SIZE"
          /\ SameShape(p[0], p[7], {3, 4})
          /\ Given(p[8]) => (p[8].type = "ENUM" /\ p[8].value \in {0, 1})
          /\ Given(p[9]) => (p[9].type = "INT32" /\ p[9].value \in {0, 1}),
          Announces(7, p[0].type, p[7].dims))

initializePoolingLayer(p, env) ==
  LET relu == Given(p[9]) /\ p[9].value = 1 IN
  Callback(<<MayReturn, "handle", MayReturn, "pool_desc", "input_desc", "output_desc",
          MayReturn>>
        \o When(relu, <<"activation_desc">>) \o <<MayReturn>>)

processPoolingLayer(p, data) ==
  {Applies({0}, {"handle", "pool_desc", "input_desc", "output_desc"})}
  \union OnlyIf(Given(p[9]), {Applies({9}, {"handle", "activation_desc", "output_desc"})})

uninitializePoolingLayer(data) ==
  <<"pool_desc", "activation_desc", "input_desc", "output_desc", "handle">>

publishPoolingLayer ==
  <<Input("tensor")>> \o [i \in 1 .. 6 |-> Input("scalar")] \o <<Output("tensor")>>
  \o <<Optional(Input("scalar")), Optional(Input("scalar"))>>

\* Mutant: the sizes are passed on as INT32.
vxPoolingLayerInt32 ==
  Constructs("pooling", <<Passed, "ENUM", "INT32", "INT32", "INT32", "INT32", "ENUM", Passed>>)

vxPoolingLayer ==
  Constructs("pooling", <<Passed, "ENUM", "SIZE", "SIZE", "SIZE", "SIZE", "ENUM", Passed>>)

-------------------------------------------------------------------------------
(***************************************************************************)
(* Local response normalization, activation and softmax.                   *)
(***************************************************************************)
validateNormalizationLayer(p) ==
  Verdict(/\ p[1].type = "ENUM" /\ p[2].type = "SIZE"
          /\ p[3].type = "FLOAT32" /\ p[4].type = "FLOAT32"
          /\ Given(p[6]) => p[6].type = "FLOAT32"
          /\ SameShape(p[0], p[5], {3, 4}),
          Announces(5, p[0].type, p[5].dims))

initializeNormalizationLayer(p, env) ==
  Callback(<<MayReturn, "handle", MayReturn, "input_desc", "output_desc", "lrnDesc",
          MayReturn>>)

processNormalizationLayer(p, data) ==
  {Applies({0}, {"handle", "lrnDesc", "input_desc", "output_desc"})}

uninitializeNormalizationLayer(data) ==
  <<"lrnDesc", "input_desc", "output_desc", "handle">>

publishNormalizationLayer ==
  <<Input("tensor"), Input("scalar"), Input("scalar"), Input("scalar"), Input("scalar"),
    Output("tensor"), Optional(Input("scalar"))>>

vxNormalizationLayer ==
  Constructs("normalization", <<Passed, "ENUM", "SIZE", "FLOAT32", "FLOAT32", Passed>>)

validateActivationLayer(p) ==
  Verdict(/\ p[1].type = "ENUM" /\ p[2].type = "FLOAT32" /\ p[3].type = "FLOAT32"
          /\ SameShape(p[0], p[4], 1 .. 4),
          Announces(4, p[0].type, p[4].dims))

initializeActivationLayer(p, env) ==
  Callback(<<MayReturn, "handle", MayReturn, "inputDescriptor", "outputDescriptor",
          MayReturn, "activationDesc", MayReturn>>)

processActivationLayer(p, data) ==
  {Applies({0}, {"handle", "activationDesc", "inputDescriptor", "outputDescriptor"})}

uninitializeActivationLayer(data) ==
  <<"activationDesc", "inputDescriptor", "outputDescriptor", "handle">>

publishActivationLayer ==
  <<Input("tensor"), Input("scalar"), Input("scalar"), Input("scalar"), Output("tensor")>>

vxActivationLayer ==
  Constructs("activation", <<Passed, "ENUM", "FLOAT32", "FLOAT32", Passed>>)

validateSoftmaxLayer(p) ==
  Verdict(/\ IsFloat(p[0], {2, 4}) /\ IsFloat(p[1], {2, 4})
          /\ Behind(1, 1, p[0].dims) = Behind(1, 1, p[1].dims),
          Announces(1, p[0].type, p[1].dims))

initializeSoftmaxLayer(p, env) ==
  Callback(<<MayReturn, "handle", MayReturn, "input_desc", "output_desc", MayReturn>>)

processSoftmaxLayer(p, data) == {Applies({0}, {"handle", "input_desc", "output_desc"})}

uninitializeSoftmaxLayer(data) == <<"input_desc", "output_desc", "handle">>

publishSoftmaxLayer == <<Input("tensor"), Output("tensor")>>

vxSoftmaxLayer == Constructs("softmax", <<Passed, Passed>>)

-------------------------------------------------------------------------------
(***************************************************************************)
(* Batch normalization and scaling.  Without a bias the initializer makes  *)
(* one of zeros, which the destructor releases.                            *)
(***************************************************************************)
ChannelVector(t, n) == IsFloat(t, {1, 2}) /\ t.dims[1] = n

ScaleDescriptors == <<"input_desc", "bnScaleBiasMeanVarDesc", "output_desc">>
ScaleObjects == {"handle", "input_desc", "output_desc", "bnScaleBiasMeanVarDesc", "bnBias"}
ReleaseScale(data) ==
  <<"input_desc", "output_desc", "bnScaleBiasMeanVarDesc">>
  \o When("bnBias" \in data.held, <<MayReturn, "bnBias">>) \o <<"handle">>

validateBatchNormalizationLayer(p) ==
  Verdict(/\ SameShape(p[0], p[6], 1 .. 4)
          /\ p[6].type = p[0].type
          /\ \A i \in 1 .. 3 : ChannelVector(p[i], C(p[0]))
          /\ Given(p[4]) => ChannelVector(p[4], C(p[0])),
          Announces(6, p[6].type, p[6].dims))

initializeBatchNormalizationLayer(p, env) ==
  Callback(<<MayReturn, "handle", MayReturn>> \o ScaleDescriptors \o <<MayReturn>>
           \o When(~Given(p[4]), <<MayReturn, "bnBias", MayReturn>>) \o <<MayReturn>>)

processBatchNormalizationLayer(p, data) ==
  {Applies({0, 1, 2, 3, 4}, ScaleObjects \ OnlyIf(Given(p[4]), {"bnBias"}))}

uninitializeBatchNormalizationLayer(data) == ReleaseScale(data)

publishBatchNormalizationLayer ==
  [i \in 1 .. 4 |-> Input("tensor")]
  \o <<Optional(Input("tensor")), Input("scalar"), Output("tensor")>>

vxBatchNormalizationLayer ==
  Constructs("batch_normalization",
             <<Passed, Passed, Passed, Passed, Passed, "FLOAT32", Passed>>)

\* A vector of one dimension is read behind a zero: only one of two is accepted.
validateScaleLayer(p) ==
  Verdict(/\ IsFloat32(p[0], {4}) /\ IsFloat32(p[3], {4})
          /\ p[3].dims = p[0].dims
          /\ \A i \in {1} \union OnlyIf(Given(p[2]), {2}) :
               IsFloat32(p[i], {2}) /\ p[i].dims[1] = C(p[0]),
          Announces(3, "FLOAT32", p[3].dims))

initializeScaleLayer(p, env) ==
  Callback(<<MayReturn, "handle", MayReturn>> \o ScaleDescriptors \o <<MayReturn>>
           \o When(~Given(p[2]), <<MayReturn, "bnBias", MayReturn>>) \o <<MayReturn>>)

\* The mean and the variance are none.
processScaleLayer(p, data) ==
  {Applies({0, 1, 2}, ScaleObjects \ OnlyIf(Given(p[2]), {"bnBias"}))}

uninitializeScaleLayer(data) == ReleaseScale(data)

publishScaleLayer ==
  <<Input("tensor"), Input("tensor"), Optional(Input("tensor")), Output("tensor")>>

vxScaleLayer == Constructs("scale", <<Passed, Passed, Passed, Passed>>)

-------------------------------------------------------------------------------
(***************************************************************************)
(* Reshape copies its input, or shares its buffer; pooling of regions is   *)
(* registered, with a validator, and nothing else of it is written.        *)
(***************************************************************************)
validateReshapeLayer(p) ==
  Verdict(/\ IsFloat(p[0], {4}) /\ IsFloat(p[1], {4})
          /\ Volume(p[0]) * N(p[0]) = Volume(p[1]) * N(p[1])
          /\ p[0].type = p[1].type,
          Announces(1, p[1].type, p[1].dims))

initializeReshapeLayer(p, env) == Callback(<<MayReturn, "handle", MayReturn>>)
processReshapeLayer(p, data) == {Applies({0}, {"handle"})}
uninitializeReshapeLayer(data) == <<"handle">>
publishReshapeLayer == <<Input("tensor"), Output("tensor")>>
vxReshapeLayer == Constructs("reshape", <<Passed, Passed>>)

\* The batches of the output are compared with a dimension never read.
validateROIPoolingLayer(p) ==
  Unsettled(/\ p[2].type = "NN_ROI_POOL_PARAMS"
            /\ IsFloat32(p[0], {4}) /\ IsFloat32(p[1], {4}) /\ IsFloat32(p[3], {4}),
            Announces(3, "FLOAT32", p[3].dims))

initializeROIPoolingLayer(p, env) == Callback(<<NotImplemented>>)
processROIPoolingLayer(p, data) == {}
uninitializeROIPoolingLayer(data) == <<NotImplemented>>
publishROIPoolingLayer ==
  <<Input("tensor"), Input("tensor"), Input("scalar"), Output("tensor")>>

-------------------------------------------------------------------------------
(***************************************************************************)
(* Element by element: sum, difference and product.                        *)
(***************************************************************************)
ElementwiseDescriptors == <<"input1", "input2", "output">>

validateTensorAddition(p) ==
  Verdict(/\ p[2].type = "ENUM"
          /\ IsFloat(p[0], {4}) /\ IsFloat(p[1], {2, 4}) /\ IsFloat(p[3], {4})
          /\ Elementwise(p, p[3]),
          Announces(3, p[1].type, p[3].dims))

initializeTensorAddition(p, env) ==
  Callback(<<MayReturn, "handle", MayReturn>> \o ElementwiseDescriptors \o <<MayReturn>>)
processTensorAddition(p, data) ==
  {Applies({0, 1}, {"handle", "input1", "input2", "output"})}
uninitializeTensorAddition(data) == ElementwiseDescriptors \o <<"handle">>
publishTensorAdd == <<Input("tensor"), Input("tensor"), Input("scalar"), Output("tensor")>>
vxTensorAddNode == Constructs("tensor_add", <<Passed, Passed, "ENUM", Passed>>)

validateTensorSub(p) ==
  Verdict(/\ p[2].type = "ENUM"
          /\ IsFloat(p[0], {4}) /\ IsFloat(p[1], {2, 4}) /\ IsFloat(p[3], {4})
          /\ Elementwise(p, p[3]),
          Announces(3, p[1].type, p[3].dims))

initializeTensorSub(p, env) ==
  Callback(<<MayReturn, "handle", MayReturn>> \o ElementwiseDescriptors \o <<MayReturn>>)
processTensorSub(p, data) ==
  {Applies({0, 1}, {"handle", "input1", "input2", "output"})}
uninitializeTensorSub(data) == ElementwiseDescriptors \o <<"handle">>
publishTensorSubtraction ==
  <<Input("tensor"), Input("tensor"), Input("scalar"), Output("tensor")>>
vxTensorSubtractNode == Constructs("tensor_subtract", <<Passed, Passed, "ENUM", Passed>>)

\* The scale is checked and then not used.
validateTensorMultiply(p) ==
  Verdict(/\ p[2].type = "FLOAT32" /\ p[3].type = "ENUM" /\ p[4].type = "ENUM"
          /\ IsFloat(p[0], {4}) /\ IsFloat(p[1], {2, 4}) /\ IsFloat(p[5], {4})
          /\ Elementwise(p, p[5]),
          Announces(5, p[1].type, p[5].dims))

initializeTensorMultiply(p, env) ==
  Callback(<<MayReturn, "handle", MayReturn>> \o ElementwiseDescriptors \o <<MayReturn>>)
processTensorMultiply(p, data) ==
  {Applies({0, 1}, {"handle", "input1", "input2", "output"})}
uninitializeTensorMultiply(data) == ElementwiseDescriptors \o <<"handle">>
publishTensorMultiply ==
  <<Input("tensor"), Input("tensor"), Input("scalar"), Input("scalar"), Input("scalar"),
    Output("tensor")>>
vxTensorMultiplyNode ==
  Constructs("tensor_multiply", <<Passed, Passed, Passed, "ENUM", "ENUM", Passed>>)

-------------------------------------------------------------------------------
(***************************************************************************)
(* The product of two matrices, added to a third one.  The third is first  *)
(* copied to the output, by a kernel the initializer builds and executes   *)
(* (its program is left out); when the product then fails, the initializer *)
(* deletes its data and keeps the handle.                                  *)
(***************************************************************************)
IsMatrix(t) ==
  /\ IsFloat(t, 2 .. 4)
  /\ \A d \in 3 .. Len(t.dims) : t.dims[d] = 1
Columns(t, transposed) == t.dims[IF transposed THEN 2 ELSE 1]
Rows(t, transposed) == t.dims[IF transposed THEN 1 ELSE 2]

validateMatrixMultiply(p) ==
  LET last == IF Given(p[2]) THEN p[2] ELSE p[1]
      transposed(i) == i \in p[3].value
  IN Verdict(/\ p[3].type = "TENSOR_MATRIX_MULTIPLY_PARAMS"
             /\ \A i \in {0, 1, 4} \union OnlyIf(Given(p[2]), {2}) : IsMatrix(p[i])
             /\ Columns(p[0], transposed(0)) = Rows(p[1], transposed(1))
             /\ Rows(p[0], transposed(0)) = Rows(p[4], FALSE)
             /\ Columns(p[1], transposed(1)) = Columns(p[4], FALSE)
             /\ Given(p[2]) =>
                  /\ Columns(p[2], transposed(2)) = Columns(p[4], FALSE)
                  /\ Rows(p[2], transposed(2)) = Rows(p[4], FALSE),
             Announces(4, last.type, p[4].dims))

initializeMatrixMultiply(p, env) ==
  Callback(<<MayReturn, "handle", MayReturn>>
           \o When(Given(p[2]), <<MayReturn, "copy_kernel", MayReturn>>)
           \o <<MayReturn>>)

processMatrixMultiply(p, data) ==
  {Applies({0, 1}, {"handle"})}
  \union OnlyIf(Given(p[2]), {Applies({2}, {"handle", "copy_kernel"})})

uninitializeMatrixMultiply(data) == <<"copy_kernel", "handle">>

publishTensorMatrixMultiply ==
  <<Input("tensor"), Input("tensor"), Optional(Input("tensor")), Input("scalar"),
    Output("tensor")>>

vxTensorMatrixMultiplyNode ==
  Constructs("tensor_matrix_multiply",
             <<Passed, Passed, Passed, "TENSOR_MATRIX_MULTIPLY_PARAMS", Passed>>)
===============================================================================
