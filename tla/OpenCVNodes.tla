------------------------------ MODULE OpenCVNodes ------------------------------
(***************************************************************************)
(* The OpenCV module of an OpenVX context (vx_opencv): loading it, which   *)
(* publishes the kernels; and one node of a graph, made by its constructor *)
(* or by hand as the scripts of runvx do, verified, executed and released. *)
(*                                                                         *)
(* The OpenVX framework is external: it hands a node's input and           *)
(* bidirectional parameters to the input validator, its output and         *)
(* bidirectional ones to the output validator, and executes only nodes     *)
(* that both accept.                                                       *)
(***************************************************************************)
EXTENDS OpenCVKernels, SequencesExt

CONSTANTS UseContrib,           \* USE_OPENCV_CONTRIB
          UnreliableKernels     \* bound: the kernels the framework may refuse to add

ASSUME NodeAssumption ==
  /\ UseContrib \in BOOLEAN
  /\ UnreliableKernels \subseteq DOMAIN OpenCVKernel

-------------------------------------------------------------------------------
(***************************************************************************)
(* The list of kernels and the constructors.                               *)
(***************************************************************************)
\* In the order they are added; the list is a stack, so they are published in
\* the reverse order.
KernelsToPublish ==
  <<"absdiff", "adaptiveThreshold", "add", "AddWeighted", "bilateralFilter",
    "bitwise_and", "bitwise_not", "bitwise_or", "bitwise_xor", "blur", "Boxfilter",
    "brisk_compute", "brisk_detect", "buildOpticalFlowPyramid", "buildPyramid",
    "Canny", "compare", "convertScaleAbs", "cornerHarris", "cornerMinEigenVal",
    "countNonZero", "cvtColor", "dilate", "distanceTransform", "divide", "erode",
    "FAST_detector", "fastNlMeansDenoising", "fastNlMeansDenoisingColored",
    "filter2D", "flip", "Gaussianblur", "good_features_to_track", "integral",
    "Laplacian", "MedianBlur", "morphologyEx", "MSER_detect", "multiply", "norm",
    "ORB_compute", "ORB_detect", "pyrdown", "pyrup", "resize", "Scharr",
    "sepFilter2D", "simple_blob_detect", "simple_blob_detect_initialize", "Sobel",
    "subtract", "threshold", "transpose", "warpAffine", "warpPerspective">>

ContribKernels ==
  <<"SIFT_compute", "SIFT_detect", "star_detect", "SURF_compute", "SURF_detect">>

PublishingOrder ==
  Reverse(KernelsToPublish \o (IF UseContrib THEN ContribKernels ELSE <<>>))

\* A constructor makes scalars of fixed types from its numbers, and then a node
\* of one kernel with them and the objects it is given.
Makes(kernel, kinds) == [kernel |-> kernel, kinds |-> kinds]

LogicNodes == [
  vxExtCvNode_absdiff |-> Makes("absdiff", <<"image", "image", "image">>),
  vxExtCvNode_add |-> Makes("add", <<"image", "image", "image">>),
  vxExtCvNode_subtract |-> Makes("subtract", <<"image", "image", "image">>),
  vxExtCvNode_bitwise_and |-> Makes("bitwise_and", <<"image", "image", "image">>),
  vxExtCvNode_bitwise_not |-> Makes("bitwise_not", <<"image", "image">>),
  vxExtCvNode_bitwise_or |-> Makes("bitwise_or", <<"image", "image", "image">>),
  vxExtCvNode_bitwise_xor |-> Makes("bitwise_xor", <<"image", "image", "image">>),
  vxExtCvNode_transpose |-> Makes("transpose", <<"image", "image">>)]

CompareNodes == [
  vxExtCvNode_compare |-> Makes("compare", <<"image", "image", "image", "INT32">>),
  vxExtCvNode_integral |-> Makes("integral", <<"image", "image", "INT32">>),
  vxExtCvNode_norm |-> Makes("norm", <<"image", "FLOAT32", "INT32">>),
  vxExtCvNode_countNonZero |-> Makes("countNonZero", <<"image", "INT32">>),
  vxExtCvNode_flip |-> Makes("flip", <<"image", "image", "INT32">>),
  vxExtCvNode_medianBlur |-> Makes("MedianBlur", <<"image", "image", "INT32">>),
  vxExtCvNode_boxFilter |-> Makes("Boxfilter", <<"image", "image", "INT32", "INT32",
       "INT32", "INT32", "INT32", "BOOL", "INT32">>)]

BlurNodes == [
  vxExtCvNode_GaussianBlur |-> Makes("Gaussianblur", <<"image", "image", "INT32",
       "INT32", "FLOAT32", "FLOAT32", "INT32">>),
  vxExtCvNode_blur |-> Makes("blur", <<"image", "image", "INT32", "INT32", "INT32",
       "INT32", "INT32">>),
  vxExtCvNode_bilateralFilter |-> Makes("bilateralFilter", <<"image", "image",
       "INT32", "FLOAT32", "FLOAT32", "INT32">>),
  vxExtCvNode_Sobel |-> Makes("Sobel", <<"image", "image", "INT32", "INT32", "INT32",
       "INT32", "FLOAT32", "FLOAT32", "INT32">>),
  vxExtCvNode_convertScaleAbs |-> Makes("convertScaleAbs", <<"image", "image",
       "FLOAT32", "FLOAT32">>)]

EdgeNodes == [
  vxExtCvNode_addWeighted |-> Makes("AddWeighted", <<"image", "FLOAT32", "image",
       "FLOAT32", "FLOAT32", "image", "INT32">>),
  vxExtCvNode_Canny |-> Makes("Canny", <<"image", "image", "FLOAT32", "FLOAT32",
       "INT32", "BOOL">>),
  vxExtCvNode_cornerMinEigenVal |-> Makes("cornerMinEigenVal", <<"image", "image",
       "UINT32", "UINT32", "INT32">>),
  vxExtCvNode_cornerHarris |-> Makes("cornerHarris", <<"image", "image", "INT32",
       "INT32", "FLOAT32", "INT32">>),
  vxExtCvNode_Laplacian |-> Makes("Laplacian", <<"image", "image", "INT32", "INT32",
       "FLOAT32", "FLOAT32", "INT32">>)]

SiftNodes == [
  vxExtCvNode_Scharr |-> Makes("Scharr", <<"image", "image", "INT32", "INT32",
       "INT32", "FLOAT32", "FLOAT32", "INT32">>),
  vxExtCvNode_SIFTdetect |-> Makes("SIFT_detect", <<"image", "image", "array",
       "INT32", "INT32", "FLOAT32", "FLOAT32", "FLOAT32">>),
  vxExtCvNode_SURFdetect |-> Makes("SURF_detect", <<"image", "image", "array",
       "FLOAT32", "INT32", "INT32">>),
  vxExtCvNode_SIFTcompute |-> Makes("SIFT_compute", <<"image", "image", "array",
       "array", "INT32", "INT32", "FLOAT32", "FLOAT32", "FLOAT32">>)]

CornerNodes == [
  vxExtCvNode_SURFcompute |-> Makes("SURF_compute", <<"image", "image", "array",
       "array", "FLOAT32", "INT32", "INT32", "BOOL", "BOOL">>),
  vxExtCvNode_FAST |-> Makes("FAST_detector", <<"image", "array", "FLOAT32", "BOOL">>),
  vxExtCvNode_goodFeaturesToTrack |-> Makes("good_features_to_track", <<"image",
       "array", "INT32", "FLOAT32", "FLOAT32", "image", "INT32", "BOOL",
       "FLOAT32">>),
  vxExtCvNode_BRISKdetect |-> Makes("brisk_detect", <<"image", "image", "array",
       "INT32", "INT32", "FLOAT32">>)]

DetectorNodes == [
  vxExtCvNode_MSERdetect |-> Makes("MSER_detect", <<"image", "array", "image",
       "INT32", "INT32", "INT32", "FLOAT32", "FLOAT32", "INT32", "FLOAT32",
       "FLOAT32", "INT32">>),
  vxExtCvNode_ORBdetect |-> Makes("ORB_detect", <<"image", "image", "array", "INT32",
       "FLOAT32", "INT32", "INT32", "INT32", "INT32", "INT32", "INT32">>),
  vxExtCvNode_StarFeatureDetector |-> Makes("star_detect", <<"image", "array",
       "image", "INT32", "INT32", "INT32", "INT32", "INT32">>),
  vxExtCvNode_SimpleBlobDetector |-> Makes("simple_blob_detect", <<"image", "array",
       "image">>)]

DescriptorNodes == [
  vxExtCvNode_BRISKcompute |-> Makes("brisk_compute", <<"image", "image", "array",
       "array", "INT32", "FLOAT32", "FLOAT32">>),
  vxExtCvNode_ORBcompute |-> Makes("ORB_compute", <<"image", "image", "array",
       "array", "INT32", "FLOAT32", "INT32", "INT32", "INT32", "INT32", "INT32",
       "INT32">>),
  vxExtCvNode_multiply |-> Makes("multiply", <<"image", "image", "image", "FLOAT32",
       "INT32">>),
  vxExtCvNode_divide |-> Makes("divide", <<"image", "image", "image", "FLOAT32",
       "INT32">>),
  vxExtCvNode_adaptiveThreshold |-> Makes("adaptiveThreshold", <<"image", "image",
       "FLOAT32", "INT32", "INT32", "INT32", "FLOAT32">>)]

ColorNodes == [
  vxExtCvNode_distanceTransform |-> Makes("distanceTransform", <<"image", "image">>),
  vxExtCvNode_cvtColor |-> Makes("cvtColor", <<"image", "image", "INT32">>),
  vxExtCvNode_threshold |-> Makes("threshold", <<"image", "image", "FLOAT32",
       "FLOAT32", "INT32">>),
  vxExtCvNode_fastNlMeansDenoising |-> Makes("fastNlMeansDenoising", <<"image",
       "image", "FLOAT32", "FLOAT32", "INT32">>),
  vxExtCvNode_fastNlMeansDenoisingColored |-> Makes("fastNlMeansDenoisingColored",
       <<"image", "image", "FLOAT32", "FLOAT32", "FLOAT32", "INT32">>),
  vxExtCvNode_pyrup |-> Makes("pyrup", <<"image", "image", "INT32", "INT32",
       "INT32">>)]

FilterNodes == [
  vxExtCvNode_pyrdown |-> Makes("pyrdown", <<"image", "image", "INT32", "INT32",
       "INT32">>),
  vxExtCvNode_filter2D |-> Makes("filter2D", <<"image", "image", "INT32", "matrix",
       "INT32", "INT32", "FLOAT32", "INT32">>),
  vxExtCvNode_sepFilter2D |-> Makes("sepFilter2D", <<"image", "image", "INT32",
       "matrix", "matrix", "INT32", "INT32", "FLOAT32", "INT32">>),
  vxExtCvNode_Dilate |-> Makes("dilate", <<"image", "image", "matrix", "INT32",
       "INT32", "INT32", "INT32">>),
  vxExtCvNode_Erode |-> Makes("erode", <<"image", "image", "matrix", "INT32", "INT32",
       "INT32", "INT32">>)]

WarpNodes == [
  vxExtCvNode_warpAffine |-> Makes("warpAffine", <<"image", "image", "matrix",
       "INT32", "INT32", "INT32", "INT32">>),
  vxExtCvNode_warpPerspective |-> Makes("warpPerspective", <<"image", "image",
       "matrix", "INT32", "INT32", "INT32", "INT32">>),
  vxExtCvNode_Resize |-> Makes("resize", <<"image", "image", "INT32", "INT32",
       "FLOAT32", "FLOAT32", "INT32">>),
  vxExtCvNode_morphologyEX |-> Makes("morphologyEx", <<"image", "image", "INT32",
       "matrix", "INT32", "INT32", "INT32", "INT32">>),
  vxExtCvNode_buildPyramid |-> Makes("buildPyramid", <<"image", "pyramid", "INT32",
       "INT32">>)]

FlowNodes == [
  vxExtCvNode_buildOpticalFlowPyramid |-> Makes("buildOpticalFlowPyramid", <<"image",
       "pyramid", "INT32", "INT32", "INT32", "BOOL", "INT32", "INT32", "BOOL">>)]

Constructors ==
  <<LogicNodes, CompareNodes, BlurNodes, EdgeNodes, SiftNodes, CornerNodes, DetectorNodes,
    DescriptorNodes, ColorNodes, FilterNodes, WarpNodes, FlowNodes>>

Constructor ==
  [c \in UNION {DOMAIN Constructors[n] : n \in DOMAIN Constructors} |->
     Constructors[CHOOSE n \in DOMAIN Constructors : c \in DOMAIN Constructors[n]][c]]

-------------------------------------------------------------------------------
VARIABLES loading,      \* vxPublishKernels: "not", "ok" or "failed"
          published,    \* the kernels of the context
          node          \* the node, or NoNode

nodeVars == <<loading, published, node>>

NoNode == [phase |-> "none"]

OpenCVInit == loading = "not" /\ published = {} /\ node = NoNode

\* Each kernel of the list is registered in its turn.  When vxAddKernel returns
\* no kernel, the function returns VX_SUCCESS all the same; when a parameter
\* cannot be added, the kernel is removed, and the list is given up.
vxPublishKernels ==
  /\ loading = "not"
  /\ \E missing \in SUBSET UnreliableKernels, refused \in UnreliableKernels \union {"none"} :
       LET order == PublishingOrder
           stop == {i \in DOMAIN order : order[i] = refused}
           done == {i \in DOMAIN order : \A s \in stop : i < s}
       IN /\ loading' = IF stop = {} THEN "ok" ELSE "failed"
          /\ published' = {order[i] : i \in done} \ missing
  /\ UNCHANGED node

-------------------------------------------------------------------------------
(***************************************************************************)
(* The arguments an application tries: those of a working node, but for    *)
(* one of them.                                                            *)
(***************************************************************************)
Parameters(k) == DOMAIN OpenCVKernel[k].parameters
Direction(k, i) == OpenCVKernel[k].parameters[i].direction

\* What vxVerifyGraph asks the validators of parameter i (from 1) to accept.
Accepted(k, i) ==
  LET v == OpenCVKernel[k].validators
  IN {a \in Argument :
        /\ Direction(k, i) # "output" => a \in v.in[i]
        /\ Direction(k, i) # "input" /\ i - 1 \in DOMAIN v.out => a \in v.out[i - 1]}

\* The bytes of an item OpenCV finds for an array: of a descriptor, or a key point.
DescriptorSize == [brisk_compute |-> 64, ORB_compute |-> 32, SIFT_compute |-> 512,
                   SURF_compute |-> 256]
Holds(k, i) == IF k \in DOMAIN DescriptorSize /\ i = 4 THEN DescriptorSize[k] ELSE PointSize

\* An argument of a working node: images and pyramids are of the size 3, and arrays
\* have room for OpenCV's items.
IsWorking(k, i, a) ==
  /\ a.kind \in {"image", "pyramid"} => a.size = <<3, 3>>
  /\ a.kind = "pyramid" => a.above = <<<<2, 2>>>>
  /\ a.kind = "array" => a.item = Holds(k, i) /\ a.capacity = 1

\* A scalar of a working node has the value 3 where that is accepted.
WorkingArguments == [k \in DOMAIN OpenCVKernel |-> [i \in Parameters(k) |->
  CHOOSE a \in Accepted(k, i) :
    /\ IsWorking(k, i, a)
    /\ "value" \in DOMAIN a /\ [a EXCEPT !.value = 3] \in Accepted(k, i) => a.value = 3]]

OfKind(kind) ==
  CASE kind = "image" -> Image(ImageFormat)
    [] kind = "array" -> AnyArray
    [] kind = "matrix" -> AnyMatrix
    [] kind = "pyramid" -> Pyramid({"U8", "S16"})
    [] kind = "scalar" -> Scalar(ScalarType, {1})
    [] OTHER -> Scalar({kind}, Value)

\* kinds is the kinds of the arguments, the types of the scalars for a constructor.
Tried(k, kinds) ==
  LET working == [i \in DOMAIN kinds |->
                    IF kinds[i] \in ScalarType
                    THEN [WorkingArguments[k][i] EXCEPT !.type = kinds[i]]
                    ELSE WorkingArguments[k][i]]
  IN {working} \union UNION {{[working EXCEPT ![i] = a] : a \in OfKind(kinds[i])} :
                               i \in DOMAIN kinds}

-------------------------------------------------------------------------------
(***************************************************************************)
(* The life of a node.                                                     *)
(***************************************************************************)
\* vxCreateNodeByStructure makes no node of a kernel that is not there.
MayCreate == loading # "not" /\ node = NoNode

CreateNode(by, k, args) ==
  /\ node' = [phase |-> "created", by |-> by, kernel |-> k, args |-> args, kept |-> {},
             made |-> 0]
  /\ UNCHANGED <<loading, published>>

ConstructNode ==
  /\ MayCreate
  /\ \E c \in {c \in DOMAIN Constructor : Constructor[c].kernel \in published} :
       \E args \in Tried(Constructor[c].kernel, Constructor[c].kinds) :
         CreateNode(c, Constructor[c].kernel, args)

vxCreateGenericNode ==
  /\ MayCreate
  /\ \E k \in published :
       \E args \in Tried(k, [i \in Parameters(k) |-> OpenCVKernel[k].parameters[i].kind]) :
         CreateNode("vxCreateGenericNode", k, args)

\* The parameters are checked in their order until one is refused.
vxVerifyGraph ==
  /\ node.phase = "created"
  /\ LET bad == {i \in Parameters(node.kernel) : node.args[i] \notin Accepted(node.kernel, i)}
         checked == {i \in Parameters(node.kernel) : \A j \in bad : i <= j}
     IN node' = [node EXCEPT
                   !.phase = IF bad = {} THEN "verified" ELSE "refused",
                   !.kept = {i \in OpenCVKernel[node.kernel].validators.kept : i + 1 \in checked}]
  /\ UNCHANGED <<loading, published>>

\* Mutant: VX_to_CV_Image does not know VX_DF_IMAGE_S16.
UnsignedFormats == {"U8", "RGB"}

\* The formats VX_to_CV_Image has a Mat for, and the types VX_to_CV_MATRIX has.
ConvertibleFormats == {"U8", "S16", "RGB"}
ConvertibleTypes == {"INT32", "FLOAT32"}

\* Two sizes differ for match_vx_image_parameters when one dimension does, and
\* for CV_to_VX_Pyramid when both do.
SameSize(a, b) == a.size = b.size
Mismatch(level, mat) == \A d \in 1 .. 2 : level[d] # mat[d]

\* The size of a level of an OpenVX pyramid, and of what OpenCV makes for it: each
\* has half the size of the one below, rounded up.
LevelSize(p, l) == IF l = 0 THEN p.size ELSE p.above[l]
CvLevelSize(image, l) ==
  LET half[n \in 0 .. l] ==
        IF n = 0 THEN image.size ELSE [d \in 1 .. 2 |-> (half[n - 1][d] + 1) \div 2]
  IN half[l]

\* OpenCV makes a level for 0 .. maxLevel, and may stop earlier when it makes them
\* for the optical flow; of features, what matters is whether it has found any.
Times(step, args) == IF \E i \in step.twice : args[i + 1].value = 1 THEN 2 ELSE 1
Produced(k, args) ==
  CASE k = "buildPyramid" -> {args[3].value + 1}
    [] k = "buildOpticalFlowPyramid" ->
         {levels * (IF args[6].value = 1 THEN 2 ELSE 1) : levels \in 1 .. args[5].value + 1}
    [] OTHER -> {0, 1}

\* Whether a step of a body returns an error, when OpenCV has made so many Mats.
StepFails(step, args, made) ==
  LET arg(i) == args[i + 1]
  IN CASE step.do = "match" -> \E i, j \in step.of : ~SameSize(arg(i), arg(j))
       [] step.do = "transposed" -> arg(step.of).size # Reverse(arg(step.in).size)
       [] step.do = "hasSize" ->
            arg(step.of).size # <<arg(step.width).value, arg(step.height).value>>
       [] step.do = "toMat" -> arg(step.of).type \notin ConvertibleFormats
       [] step.do = "toMatrix" -> arg(step.of).type \notin ConvertibleTypes
       [] step.do = "pyramid" ->
            \E l \in 0 .. Len(arg(step.of).above) :
              /\ l < made
              /\ Mismatch(LevelSize(arg(step.of), l), CvLevelSize(arg(0), l \div Times(step, args)))
       [] OTHER -> FALSE

\* Whether it may: the framework may refuse to add items of another size than the
\* array's, items to an array without room, and no items; and the Mats of a pyramid
\* of more levels are read beyond the last.
StepMayFail(step, args, made) ==
  LET arg(i) == args[i + 1]
  IN CASE step.do = "items" -> \/ arg(step.of).item # step.size * Times(step, args)
                               \/ arg(step.of).capacity = 0
                               \/ made = 0
       [] step.do = "pyramid" -> Len(arg(step.of).above) >= made
       [] OTHER -> FALSE

Body == OpenCVKernel[node.kernel].body
FailingSteps(made) == {n \in DOMAIN Body : StepFails(Body[n], node.args, made)}
DoubtfulSteps(made) == {n \in DOMAIN Body : StepMayFail(Body[n], node.args, made)}

\* Every step's status is checked, and the first error is the kernel's.
vxProcessGraph ==
  /\ node.phase \in {"verified", "executed", "failed"}
  /\ \E made \in Produced(node.kernel, node.args) :
       \/ /\ FailingSteps(made) = {}
          /\ node' = [node EXCEPT !.phase = "executed", !.made = made]
       \/ /\ FailingSteps(made) \union DoubtfulSteps(made) # {}
          /\ node' = [node EXCEPT !.phase = "failed", !.made = made]
  /\ UNCHANGED <<loading, published>>

\* OpenCV refuses the arguments with an exception, which nothing catches; or what
\* is read beyond its results ends the process.
OpenCVThrows ==
  /\ node.phase \in {"verified", "executed", "failed"}
  /\ \E n \in DOMAIN Body : Body[n].do = "call" /\ \A m \in FailingSteps(0) : n < m
  /\ loading' = "not" /\ published' = {} /\ node' = NoNode

vxReleaseGraph ==
  /\ node # NoNode
  /\ node' = NoNode
  /\ UNCHANGED <<loading, published>>

OpenCVNext ==
  \/ vxPublishKernels \/ ConstructNode \/ vxCreateGenericNode \/ vxVerifyGraph
  \/ vxProcessGraph \/ OpenCVThrows \/ vxReleaseGraph

OpenCVSpec == OpenCVInit /\ [][OpenCVNext]_nodeVars

-------------------------------------------------------------------------------
(***************************************************************************)
(* Properties.                                                             *)
(***************************************************************************)
OpenCVTypeOK ==
  /\ loading \in {"not", "ok", "failed"}
  /\ published \subseteq DOMAIN OpenCVKernel
  /\ node # NoNode =>
       /\ node.phase \in {"created", "refused", "verified", "executed", "failed"}
       /\ node.kernel \in published /\ node.made \in Nat
       /\ node.by \in DOMAIN Constructor \union {"vxCreateGenericNode"}
       /\ DOMAIN node.args = Parameters(node.kernel)
       /\ \A i \in Parameters(node.kernel) : node.args[i] \in Argument

\* The constructors that make a scalar of a type their kernel's input validator
\* refuses, whatever the number.
MismatchedConstructors ==
  {"vxExtCvNode_cornerMinEigenVal", "vxExtCvNode_FAST", "vxExtCvNode_BRISKcompute",
   "vxExtCvNode_fastNlMeansDenoising", "vxExtCvNode_fastNlMeansDenoisingColored"}

\* A node made by its constructor is never refused for the scalar types the
\* constructor chose: the verification of its graph fails only for an object or
\* a number of the application's that no type would make acceptable.  This
\* relates OpenCV_VX_Nodes.cpp with the validators of sixty other files; five
\* constructors do not agree with theirs.
ConstructedNodesVerify ==
  node.phase = "refused" /\ node.by \in DOMAIN Constructor \ MismatchedConstructors =>
    \E i \in Parameters(node.kernel) :
      LET a == node.args[i]
          alike == IF a.kind = "scalar" THEN Scalar(ScalarType, {a.value}) ELSE {a}
      IN alike \intersect Accepted(node.kernel, i) = {}

\* A node that passed verification fails when it is executed only for what no
\* validator compares: the sizes of its images, their being images of 16 bits
\* without sign, the type of a matrix, the size resize is asked for; an array that
\* has no room, or not for items of OpenCV's size, or OpenCV finding none; and a
\* pyramid of which some level has not the size OpenCV gives it, or that has more of
\* them, or is to hold derivatives as well.
VerifiedNodesRun ==
  node.phase = "failed" =>
    \/ \E i, j \in DOMAIN node.args :
         /\ {node.args[i].kind, node.args[j].kind} \subseteq {"image", "pyramid"}
         /\ node.args[i].size # node.args[j].size
    \/ \E i \in DOMAIN node.args : node.args[i] \in Image({"U16"}) \union Matrix({"UINT8"})
    \/ node.kernel = "resize"
    \/ \E i \in DOMAIN node.args :
         LET a == node.args[i] IN
         \/ /\ a.kind = "array"
            /\ \/ a.capacity = 0 \/ a.item # Holds(node.kernel, i) \/ node.made = 0
               \/ node.kernel = "SURF_compute" /\ node.args[8].value = 1
         \/ /\ a.kind = "pyramid"
            /\ \/ \E l \in 0 .. Len(a.above) :
                    l >= node.made \/ LevelSize(a, l) # CvLevelSize(node.args[1], l)
               \/ node.kernel = "buildOpticalFlowPyramid" /\ node.args[6].value = 1

\* The arguments the kernels read and then do not use: SURF_compute makes its
\* detector without extended and upright, though extended is the size of an item it
\* writes; simple_blob_detect_initialize sets filterByConvexity from
\* filterByCircularity, and writes minCircularity and minInertiaRatio over the
\* maxima.
Ignored(k) ==
  CASE k = "SURF_compute" -> {7, 8}
    [] k = "simple_blob_detect_initialize" -> {15, 18, 19}
    [] OTHER -> {}

\* When a node has been executed, every input it was given has reached OpenCV,
\* every scalar was read as a variable of the type it has, and every output has
\* been written.  This relates the registration of a kernel, its validators and
\* the flow of data through its body.
ArgumentsReachOpenCV ==
  node.phase = "executed" =>
    \A i \in Parameters(node.kernel) :
      IF Direction(node.kernel, i) = "input"
      THEN \/ i - 1 \in Ignored(node.kernel)
           \/ /\ \E n \in DOMAIN Body : Body[n].do = "call" /\ i - 1 \in Body[n].of
              /\ node.args[i].kind = "scalar" =>
                   \E n \in DOMAIN Body : /\ Body[n].do = "read" /\ i - 1 \in Body[n].of
                                         /\ Body[n].type = node.args[i].type
      ELSE \E n \in DOMAIN Body : Body[n].do \in {"write", "pyramid", "items"} /\ Body[n].of = i - 1

===============================================================================
