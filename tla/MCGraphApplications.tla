-------------------------- MODULE MCGraphApplications --------------------------
(***************************************************************************)
(* The instances of LiveStitch, OpenCVNodes and NeuralNodes that are       *)
(* model-checked, in one run: an application that stitches, one that makes *)
(* an OpenCV node, or one that makes a graph of neural network layers.     *)
(* The three share nothing; app chooses one of them.                       *)
(***************************************************************************)
EXTENDS LiveStitch, OpenCVNodes, NeuralNodes

VARIABLE app

Init ==
  /\ app \in {"stitch", "vision", "neural"}
  /\ StitchInit /\ OpenCVInit /\ LayerInit
  /\ app # "stitch" => opt.quick     \* no choice of what is not used
  /\ app # "neural" => ~cbr

Next ==
  \/ app = "stitch" /\ StitchNext /\ UNCHANGED <<app, nodeVars, layerVars>>
  \/ app = "vision" /\ OpenCVNext /\ UNCHANGED <<app, stitchVars, layerVars>>
  \/ app = "neural" /\ LayerNext /\ UNCHANGED <<app, stitchVars, nodeVars>>

vars == <<app, stitchVars, nodeVars, layerVars>>
Spec == Init /\ [][Next]_vars

-------------------------------------------------------------------------------
(***************************************************************************)
(* The properties the three have in common.                                *)
(***************************************************************************)
\* The values of all variables (see the three modules).
TypeOK == StitchTypeOK /\ OpenCVTypeOK /\ LayersTypeOK

\* What the application was given up is given up whole: a stitch context by
\* lsReleaseContext, a graph of layers by their destructors.
EverythingReleased == ReleaseComplete /\ []LayersReleased

\* What the constructors of vx_opencv and of vx_nn make, the validators of their
\* kernels accept.
ConstructedVerify == ConstructedNodesVerify /\ ConstructedLayersVerify

\* What the validators of vx_opencv and of vx_nn accept can be executed.
VerifiedRun == VerifiedNodesRun /\ VerifiedLayersRun

\* What a node of vx_opencv or a layer of vx_nn is given reaches the library
\* that does the work, OpenCV or MIOpen.
ArgumentsReachLibrary == ArgumentsReachOpenCV /\ LayersApplied

-------------------------------------------------------------------------------
(***************************************************************************)
(* The stitch contexts: seams, bands and an encoded output, initialised on *)
(* the GPU; tables that are computed again, saved and loaded, also on the  *)
(* GPU; the quick stitching mode, initialised on the CPU.                  *)
(***************************************************************************)
NoOptions == [quick |-> FALSE, reinit |-> FALSE, cpu |-> FALSE, load |-> FALSE,
              tiles |-> FALSE, seam |-> FALSE, expo |-> FALSE, bands |-> FALSE]
MCOptions ==
  {[NoOptions EXCEPT !.tiles = TRUE, !.seam = TRUE, !.bands = TRUE],
   [NoOptions EXCEPT !.reinit = TRUE, !.load = TRUE],
   [NoOptions EXCEPT !.quick = TRUE, !.cpu = TRUE]}

MCValue == {-2, -1, 0, 1, 2, 3, 7, 8, 255}
MCSize == {<<2, 3>>, <<3, 2>>, <<3, 3>>}
MCLevelsAbove == {<<>>, <<<<2, 2>>>>, <<<<3, 3>>>>, <<<<2, 2>>, <<1, 1>>>>}
MCUnreliableKernels == {"absdiff", "Sobel"}

\* Arguments a user would give the layers: tensors <<width, height, channels,
\* batches>>, and the scalars' types of vx_amd_nn.h.
T(dims) == Tensor("FLOAT32", dims)
F(value) == Number("FLOAT32", value)
E(value) == Number("ENUM", value)
S(value) == Number("SIZE", value)
Flag(value) == Number("BOOL", value)
Padded == Number("CONVOLUTION_PARAMS", [padding |-> 1, dilation |-> 0])
Plain == Number("CONVOLUTION_PARAMS", [padding |-> 0, dilation |-> 0])
MaybeBias(n) == {Nothing, T(<<n>>)}

MCFitting == [
  convolution |->
    {Listed(<<T(<<4,4,2,1>>), T(<<3,3,2,3>>), bias, Padded, T(<<4,4,3,1>>), relu>>) :
       bias \in MaybeBias(3), relu \in {Nothing, F(0)}}
    \union {Listed(<<T(<<4,4,2,1>>), T(<<1,1,2,3>>), T(<<3,1>>), Plain, T(<<4,4,3,1>>), F(0)>>)},
  fully_connected |->
    {Listed(<<T(<<2,2,2,1>>), T(<<2,2,2,3>>), bias, E(0), E(0), T(<<1,1,3,1>>)>>) :
       bias \in MaybeBias(3)}
    \union {Listed(<<T(<<1,1,4,2>>), T(<<4,3>>), T(<<3>>), E(0), E(0), T(<<3,2>>)>>)},
  deconvolution |->
    {Listed(<<T(<<2,2,2,1>>), T(<<2,2,2,3>>), bias,
              Number("DECONVOLUTION_PARAMS", [padding |-> 0, dilation |-> 0]),
              T(<<4,4,3,1>>)>>) : bias \in MaybeBias(3)},
  pooling |->
    {Listed(<<T(<<4,4,2,1>>), E(0), S(2), S(2), S(0), S(0), E(0), T(<<2,2,2,1>>), border, relu>>) :
       border \in {Nothing, E(1)}, relu \in {Nothing, Number("INT32", 0), Number("INT32", 1)}},
  normalization |->
    {Listed(<<T(<<2,2,2,1>>), E(0), S(5), F(1), F(1), T(<<2,2,2,1>>), bias>>) :
       bias \in {Nothing, F(1)}},
  activation |-> {Listed(<<T(<<2,2,2,1>>), E(0), F(0), F(0), T(<<2,2,2,1>>)>>)},
  softmax |-> {Listed(<<T(<<1,1,3,2>>), T(<<1,1,3,2>>)>>), Listed(<<T(<<3,2>>), T(<<1,1,3,2>>)>>)},
  batch_normalization |->
    {Listed(<<T(<<2,2,3,1>>), T(<<3>>), T(<<3>>), T(<<3>>), bias, F(1), T(<<2,2,3,1>>)>>) :
       bias \in MaybeBias(3)},
  scale |->
    {Listed(<<T(<<2,2,3,1>>), factors, bias, T(<<2,2,3,1>>)>>) :
       factors \in {T(<<3>>), T(<<3,1>>)}, bias \in {Nothing, T(<<3,1>>)}},
  reshape |-> {Listed(<<T(<<2,2,3,1>>), T(<<1,1,12,1>>)>>)},
  roi_pooling |->
    {Listed(<<T(<<4,4,2,1>>), T(<<1,1,4,2>>), Number("NN_ROI_POOL_PARAMS", 0), T(<<2,2,2,2>>)>>)},
  tensor_add |->
    {Listed(<<T(<<2,2,3,1>>), second, E(0), T(<<2,2,3,1>>)>>) :
       second \in {T(<<2,2,3,1>>), T(<<1,1,3,1>>), T(<<3,1>>)}},
  tensor_subtract |->
    {Listed(<<T(<<2,2,3,1>>), second, E(0), T(<<2,2,3,1>>)>>) :
       second \in {T(<<2,2,3,1>>), T(<<1,1,3,1>>)}},
  tensor_multiply |->
    {Listed(<<T(<<2,2,3,1>>), second, F(1), E(0), E(0), T(<<2,2,3,1>>)>>) :
       second \in {T(<<2,2,3,1>>), T(<<1,1,3,1>>)}},
  tensor_matrix_multiply |->
    {Listed(<<T(<<2,3>>), T(<<4,2>>), third, Number("TENSOR_MATRIX_MULTIPLY_PARAMS", {}),
              T(<<4,3>>)>>) : third \in {Nothing, T(<<4,3>>)}}
    \union {Listed(<<T(<<3,2>>), T(<<2,4>>), T(<<3,4>>),
              Number("TENSOR_MATRIX_MULTIPLY_PARAMS", 0 .. 2), T(<<4,3>>)>>)},
  argmax |->
    {Listed(<<T(<<4,2,channels,2>>), output>>) : channels \in {1, 3},
       output \in {Picture("U8", 4, 4), Picture("VIRT", 4, 4), Picture("U16", 4, 4),
                   Picture("S16", 4, 4), Tensor("UINT8", <<4,2,1,2>>),
                   Tensor("INT16", <<4,2,1,2>>), Tensor("UINT16", <<4,2,2,2>>)}}
    \union {Listed(<<T(<<3,2,4,1>>), Tensor("UINT16", <<3,2,ranks,1>>)>>) : ranks \in {1, 2}},
  concat |->
    {Listed(<<T(<<2,2,6,n>>), T(<<2,2,1,n>>), T(<<2,2,2,n>>), T(<<2,2,3,n>>)>>
            \o [i \in 1 .. 5 |-> Nothing]) : n \in {1, 2}},
  slice |->
    {Listed(<<T(<<2,2,6,n>>), T(<<2,2,1,n>>), T(<<2,2,2,n>>), T(<<2,2,3,n>>)>>
            \o [i \in 1 .. 5 |-> Nothing]) : n \in {1, 2}},
  upsample_nearest |->
    {Listed(<<Tensor(type, <<2,3,2,2>>), Tensor(type, <<4,6,2,2>>)>>) : type \in FloatTypes},
  tensor_table_lookup |->
    {Listed(<<Tensor("UINT8", <<3,2,1,1>>), Lut("UINT8", 256, 0), Tensor("UINT8", <<3,2,1,1>>)>>),
     Listed(<<Tensor("UINT8", <<4,2,1,1>>), Lut("INT16", 255, 0), Tensor("INT16", <<4,2,1,1>>)>>),
     Listed(<<Tensor("INT16", <<3,3,1,1>>), Lut("INT16", 4, 2), Tensor("INT16", <<3,3,1,1>>)>>),
     Listed(<<Tensor("INT16", <<4,2,1,1>>), Lut("INT16", 4, 2), Tensor("INT16", <<4,2,1,1>>)>>)},
  image_to_tensor |->
    {Listed(<<Picture(type, w, 4), T(<<w,2,channels,2>>), F(1), F(0), Flag(reversed)>>) :
       type \in {"RGB", "U8"}, channels \in {1, 3}, w \in {3, 4}, reversed \in {0, 1}},
  tensor_to_image |->
    {Listed(<<Tensor(type, <<4,2,3,2>>), Picture("RGB", 4, 4), F(1), F(0), Flag(reversed)>>) :
       type \in FloatTypes, reversed \in {0, 1}}
    \union {Listed(<<T(<<4,2,1,2>>), Picture("U8", 4, 4), F(1), F(0), Flag(1)>>),
            Listed(<<T(<<4,2,3,2>>), Picture("VIRT", 4, 4), F(1), F(0), Flag(1)>>)}]

MCOddArguments ==
  {Nothing, T(<<2,2,3,1>>), T(<<4,4,2,2>>), T(<<3>>), T(<<2,3>>),
   Tensor("FLOAT16", <<2,2,3,1>>), Tensor("UINT8", <<2,2,3,1>>),
   F(1), E(0), S(2), Number("INT32", 0),
   Picture("U8", 3, 3), Picture("RGB", 4, 4), Lut("UINT8", 256, 0)}
MCCompanions == {"softmax", "tensor_matrix_multiply", "concat"}
MCUnreliableLayers == {"convolution", "argmax"}
===============================================================================
