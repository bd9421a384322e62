----------------------------- MODULE OpenCVKernels -----------------------------
(***************************************************************************)
(* The kernels of vx_opencv, each in a file of its own: what its validators*)
(* accept, the parameters it is registered with, and its body.  call is    *)
(* the parameters whose values reach the OpenCV function.                  *)
(***************************************************************************)
EXTENDS OpenCVArguments

\* org.opencv.addweighted, OpenCV_AddWeighted.cpp
AddWeighted_Validators ==
  Validators(<<Image({"U8", "U16", "S16"}), Float32(NonNegative),
               Image({"U8", "U16", "S16"}), Float32(NonNegative),
               Float32(NonNegative), Image({"U8", "U16", "S16"}), Int32(NonNegative)>>,
             Only(5, Image({"U8"})))

AddWeighted_Kernel ==
  [parameters |-> <<In("image"), In("scalar"), In("image"), In("scalar"),
                   In("scalar"), Out("image"), In("scalar")>>,
   body |-> <<Read("FLOAT32", {1, 3, 4}), Read("INT32", {6}), Match(0, 2),
             Match(0, 5), ToMat(0), ToMat(2), Call({0, 1, 2, 3, 4, 6}), FromMat(5)>>]

\* org.opencv.brisk_detect, OpenCV_BRISK_detector.cpp
brisk_detect_Validators ==
  Validators(<<Image({"U8"}), Image({"U8"}), AnyArray, Int32(NonNegative),
               Int32(NonNegative), Float32(NonNegative)>>,
             Only(2, RoomyArray))

brisk_detect_Kernel ==
  [parameters |-> <<In("image"), In("image"), InOut("array"), In("scalar"),
                   In("scalar"), In("scalar")>>,
   body |-> <<Read("FLOAT32", {5}), Read("INT32", {3, 4}), ToMat(0), ToMat(1),
             Call({0, 1, 3, 4, 5}), FromPoints(2)>>]

\* org.opencv.blur, OpenCV_Blur.cpp
blur_Validators ==
  Validators(<<Image({"U8"}), Image({"U8"}), Int32(NonNegative), Int32(NonNegative),
               Int32(AtLeast(-1)), Int32(AtLeast(-1)), Int32(NonNegative)>>,
             Only(1, Image({"U8"})))

blur_Kernel ==
  [parameters |-> <<In("image"), Out("image"), In("scalar"), In("scalar"),
                   In("scalar"), In("scalar"), In("scalar")>>,
   body |-> <<Read("INT32", 2..6), Match(0, 1), ToMat(0), Call({0, 2, 3, 4, 5, 6}),
             FromMat(1)>>]

\* org.opencv.boxfilter, OpenCV_Boxfilter.cpp
Boxfilter_Validators ==
  Validators(<<Image({"U8"}), Image({"U8"}), Int32(AtLeast(-1)), Int32(NonNegative),
               Int32(NonNegative), Int32(AtLeast(-1)), Int32(AtLeast(-1)), Bool,
               Int32(NonNegative)>>,
             Only(1, Image({"U8"})))

Boxfilter_Kernel ==
  [parameters |-> <<In("image"), Out("image"), In("scalar"), In("scalar"),
                   In("scalar"), In("scalar"), In("scalar"), In("scalar"),
                   In("scalar")>>,
   body |-> <<Read("INT32", {2, 3, 4, 5, 6, 8}), Read("BOOL", {7}), Match(0, 1),
             ToMat(0), Call({0, 2, 3, 4, 5, 6, 7, 8}), FromMat(1)>>]

\* org.opencv.canny, OpenCV_Canny.cpp
Canny_Validators ==
  Validators(<<Image({"U8"}), Image({"U8"}), Float32(NonNegative),
               Float32(NonNegative), Int32(NonNegative), Bool>>,
             Only(1, Image({"U8", "S16"})))

Canny_Kernel ==
  [parameters |-> <<In("image"), Out("image"), In("scalar"), In("scalar"),
                   In("scalar"), In("scalar")>>,
   body |-> <<Read("FLOAT32", {2, 3}), Read("INT32", {4}), Read("BOOL", {5}),
             Match(0, 1), ToMat(0), Call({0, 2, 3, 4, 5}), FromMat(1)>>]

\* org.opencv.fast, OpenCV_FAST_feature_detector.cpp
FAST_detector_Validators ==
  Validators(<<Image({"U8"}), AnyArray, Int32(NonNegative), Bool>>,
             Only(1, RoomyArray))

FAST_detector_Kernel ==
  [parameters |-> <<In("image"), InOut("array"), In("scalar"), In("scalar")>>,
   body |-> <<Read("INT32", {2}), Read("BOOL", {3}), ToMat(0), Call({0, 2, 3}),
             FromPoints(1)>>]

\* org.opencv.gaussianblur, OpenCV_Gaussianblur.cpp
Gaussianblur_Validators ==
  Validators(<<Image({"U8"}), Image({"U8"}), Int32(Odd(NonNegative)),
               Int32(Odd(NonNegative)), Float32(NonNegative), Float32(NonNegative),
               Int32(NonNegative)>>,
             Only(1, Image({"U8"})))

Gaussianblur_Kernel ==
  [parameters |-> <<In("image"), Out("image"), In("scalar"), In("scalar"),
                   In("scalar"), In("scalar"), In("scalar")>>,
   body |-> <<Read("INT32", {2, 3, 6}), Read("FLOAT32", {4, 5}), Match(0, 1),
             ToMat(0), Call({0, 2, 3, 4, 5, 6}), FromMat(1)>>]

\* org.opencv.good_features_to_track, OpenCV_Good_Features_to_Track_detector.cpp
good_features_to_track_Validators ==
  Validators(<<Image({"U8"}), AnyArray, Int32(NonNegative), Float32(NonNegative),
               Float32(NonNegative), Image({"U8"}), Int32(NonNegative), Bool,
               Float32(NonNegative)>>,
             Only(1, RoomyArray))

good_features_to_track_Kernel ==
  [parameters |-> <<In("image"), InOut("array"), In("scalar"), In("scalar"),
                   In("scalar"), In("image"), In("scalar"), In("scalar"),
                   In("scalar")>>,
   body |-> <<Read("FLOAT32", {3, 4, 8}), Read("INT32", {2, 6}), Read("BOOL", {7}),
             ToMat(0), ToMat(5), Call({0, 2, 3, 4, 5, 6, 7, 8}), FromPoints(1)>>]

\* org.opencv.laplacian, OpenCV_Laplacian.cpp
Laplacian_Validators ==
  Validators(<<Image({"U8"}), Image({"U8"}), Int32({-1, 0, 5, 6}),
               Int32(Odd(NonNegative)), Float32(NonNegative), Float32(NonNegative),
               Int32(NonNegative)>>,
             Only(1, Image({"U8"})))

Laplacian_Kernel ==
  [parameters |-> <<In("image"), Out("image"), In("scalar"), In("scalar"),
                   In("scalar"), In("scalar"), In("scalar")>>,
   body |-> <<Read("INT32", {2, 3, 6}), Read("FLOAT32", {4, 5}), Match(0, 1),
             ToMat(0), Call({0, 2, 3, 4, 5, 6}), FromMat(1)>>]

\* org.opencv.mser_detect, OpenCV_MSER_feature_detector.cpp
MSER_detect_Validators ==
  Validators(<<Image({"U8"}), AnyArray, Image({"U8"}), Int32(NonNegative),
               Int32(NonNegative), Int32(NonNegative), Float32(NonNegative),
               Float32(NonNegative), Int32(NonNegative), Float32(NonNegative),
               Float32(NonNegative), Int32(NonNegative)>>,
             Only(1, RoomyArray))

MSER_detect_Kernel ==
  [parameters |-> <<In("image"), InOut("array"), In("image"), In("scalar"),
                   In("scalar"), In("scalar"), In("scalar"), In("scalar"),
                   In("scalar"), In("scalar"), In("scalar"), In("scalar")>>,
   body |-> <<Read("FLOAT32", {6, 7, 9, 10}), Read("INT32", {3, 4, 5, 8, 11}),
             ToMat(0), ToMat(2), Call({0, 2, 3, 4, 5, 6, 7, 8, 9, 10, 11}),
             FromPoints(1)>>]

\* org.opencv.medianblur, OpenCV_Medianblur.cpp
MedianBlur_Validators ==
  Validators(<<Image({"U8"}), Image({"U8"}), Int32(Odd(AtLeast(1)))>>,
             Only(1, Image({"U8"})))

MedianBlur_Kernel ==
  [parameters |-> <<In("image"), Out("image"), In("scalar")>>,
   body |-> <<Read("INT32", {2}), Match(0, 1), ToMat(0), Call({0, 2}), FromMat(1)>>]

\* org.opencv.orb_detect, OpenCV_ORB_detector.cpp
ORB_detect_Validators ==
  Validators(<<Image({"U8"}), Image({"U8"}), AnyArray, Int32(NonNegative),
               Float32(NonNegative), Int32(NonNegative), Int32(NonNegative),
               Int32({0}), Int32(0..3), Int32({0, 1}), Int32(NonNegative)>>,
             Only(2, RoomyArray))

ORB_detect_Kernel ==
  [parameters |-> <<In("image"), In("image"), InOut("array"), In("scalar"),
                   In("scalar"), In("scalar"), In("scalar"), In("scalar"),
                   In("scalar"), In("scalar"), In("scalar")>>,
   body |-> <<Read("INT32", {3, 5, 6, 7, 8, 9, 10}), Read("FLOAT32", {4}), ToMat(0),
             ToMat(1), Call({0, 1, 3, 4, 5, 6, 7, 8, 9, 10}), FromPoints(2)>>]

\* org.opencv.sift_compute, OpenCV_SIFT_Compute.cpp
SIFT_compute_Validators ==
  Validators(<<Image({"U8"}), Image({"U8"}), AnyArray, AnyArray, Int32(NonNegative),
               Int32(NonNegative), Float32(NonNegative), Float32(NonNegative),
               Float32(NonNegative)>>,
             Only(2, RoomyArray))

SIFT_compute_Kernel ==
  [parameters |-> <<In("image"), In("image"), InOut("array"), InOut("array"),
                   In("scalar"), In("scalar"), In("scalar"), In("scalar"),
                   In("scalar")>>,
   body |-> <<Read("INT32", {4, 5}), Read("FLOAT32", 6..8), ToMat(0), ToMat(1),
             Call({0, 1, 4, 5, 6, 7, 8}), FromPoints(2), FromDescriptors(3, 512, {})>>]

\* org.opencv.sift_detect, OpenCV_SIFT_Detect.cpp
SIFT_detect_Validators ==
  Validators(<<Image({"U8"}), Image({"U8"}), AnyArray, Int32(NonNegative),
               Int32(NonNegative), Float32(NonNegative), Float32(NonNegative),
               Float32(NonNegative)>>,
             Only(2, RoomyArray))

SIFT_detect_Kernel ==
  [parameters |-> <<In("image"), In("image"), InOut("array"), In("scalar"),
                   In("scalar"), In("scalar"), In("scalar"), In("scalar")>>,
   body |-> <<Read("INT32", {3, 4}), Read("FLOAT32", 5..7), ToMat(0), ToMat(1),
             Call({0, 1, 3, 4, 5, 6, 7}), FromPoints(2)>>]

\* org.opencv.surf_compute, OpenCV_SURF_Compute.cpp
SURF_compute_Validators ==
  Validators(<<Image({"U8"}), Image({"U8"}), AnyArray, AnyArray,
               Float32(NonNegative), Int32(NonNegative), Int32(NonNegative), Bool,
               Bool>>,
             Only(2, RoomyArray))

SURF_compute_Kernel ==
  [parameters |-> <<In("image"), In("image"), InOut("array"), InOut("array"),
                   In("scalar"), In("scalar"), In("scalar"), In("scalar"),
                   In("scalar")>>,
   body |-> <<Read("FLOAT32", {4}), Read("INT32", {5, 6}), Read("BOOL", {7, 8}),
             ToMat(0), ToMat(1), Call({0, 1, 4, 5, 6}), FromPoints(2),
             FromDescriptors(3, 256, {7})>>]

\* org.opencv.surf_detect, OpenCV_SURF_Detect.cpp
SURF_detect_Validators ==
  Validators(<<Image({"U8"}), Image({"U8"}), AnyArray, Float32(NonNegative),
               Int32(NonNegative), Int32(NonNegative)>>,
             Only(2, RoomyArray))

SURF_detect_Kernel ==
  [parameters |-> <<In("image"), In("image"), InOut("array"), In("scalar"),
                   In("scalar"), In("scalar")>>,
   body |-> <<Read("FLOAT32", {3}), Read("INT32", {4, 5}), ToMat(0), ToMat(1),
             Call({0, 1, 3, 4, 5}), FromPoints(2)>>]

\* org.opencv.scharr, OpenCV_Scharr.cpp
Scharr_Validators ==
  Validators(<<Image({"U8"}), Image({"U8"}), Int32(AtLeast(-1)), Int32(NonNegative),
               Int32(NonNegative), Float32(NonNegative), Float32(Value),
               Int32(Value)>>,
             Only(1, Image({"U8"})))

Scharr_Kernel ==
  [parameters |-> <<In("image"), Out("image"), In("scalar"), In("scalar"),
                   In("scalar"), In("scalar"), In("scalar"), In("scalar")>>,
   body |-> <<Read("INT32", {2, 3, 4, 7}), Read("FLOAT32", {5, 6}), Match(0, 1),
             ToMat(0), Call({0, 2, 3, 4, 5, 6, 7}), FromMat(1)>>]

\* org.opencv.sobel, OpenCV_Sobel.cpp
Sobel_Validators ==
  Validators(<<Image({"U8"}), Image({"U8"}), Int32(AtLeast(-1)), Int32(NonNegative),
               Int32(NonNegative), Int32({1, 3, 5, 7}), Float32(NonNegative),
               Float32(NonNegative), Int32(NonNegative)>>,
             Only(1, Image({"U8"})))

Sobel_Kernel ==
  [parameters |-> <<In("image"), Out("image"), In("scalar"), In("scalar"),
                   In("scalar"), In("scalar"), In("scalar"), In("scalar"),
                   In("scalar")>>,
   body |-> <<Read("INT32", {2, 3, 4, 5, 8}), Read("FLOAT32", {6, 7}), Match(0, 1),
             ToMat(0), Call({0, 2, 3, 4, 5, 6, 7, 8}), FromMat(1)>>]

\* org.opencv.star_detect, OpenCV_Star_feature_detector.cpp
star_detect_Validators ==
  Validators(<<Image({"U8"}), AnyArray, Image({"U8"}), Int32(NonNegative),
               Int32(NonNegative), Int32(NonNegative), Int32(NonNegative),
               Int32(NonNegative)>>,
             Only(1, RoomyArray))

star_detect_Kernel ==
  [parameters |-> <<In("image"), InOut("array"), In("image"), In("scalar"),
                   In("scalar"), In("scalar"), In("scalar"), In("scalar")>>,
   body |-> <<Read("INT32", 3..7), ToMat(0), ToMat(2), Call({0, 2, 3, 4, 5, 6, 7}),
             FromPoints(1)>>]

\* org.opencv.absdiff, OpenCV_absdiff.cpp
absdiff_Validators ==
  Validators(<<Image({"U8", "S16"}), Image({"U8", "S16"}), Image({"U8", "S16"})>>,
             Only(2, Image({"U8", "S16"})))

absdiff_Kernel ==
  [parameters |-> <<In("image"), In("image"), Out("image")>>,
   body |-> <<Match(0, 1), Match(0, 2), ToMat(0), ToMat(1), Call({0, 1}), FromMat(2)>>]

\* org.opencv.adaptivethreshold, OpenCV_adaptiveThreshold.cpp
adaptiveThreshold_Validators ==
  Validators(<<Image({"U8"}), Image({"U8"}), Float32(NonNegative),
               Int32(NonNegative), Int32(NonNegative), Int32(Odd(AtLeast(3))),
               Float32(Value)>>,
             Only(1, Image({"U8"})))

adaptiveThreshold_Kernel ==
  [parameters |-> <<In("image"), Out("image"), In("scalar"), In("scalar"),
                   In("scalar"), In("scalar"), In("scalar")>>,
   body |-> <<Read("FLOAT32", {2, 6}), Read("INT32", 3..5), Match(0, 1), ToMat(0),
             Call({0, 2, 3, 4, 5, 6}), FromMat(1)>>]

\* org.opencv.add, OpenCV_add.cpp
add_Validators ==
  Validators(<<Image({"U8", "S16"}), Image({"U8", "S16"}), Image({"U8", "S16"})>>,
             Only(2, Image({"U8", "S16"})))

add_Kernel ==
  [parameters |-> <<In("image"), In("image"), Out("image")>>,
   body |-> <<Match(0, 1), Match(0, 2), ToMat(0), ToMat(1), Call({0, 1}), FromMat(2)>>]

\* org.opencv.bilateralfilter, OpenCV_bilateralFilter.cpp
bilateralFilter_Validators ==
  Validators(<<Image({"U8"}), Image({"U8"}), Int32(Odd(NonNegative)),
               Float32(NonNegative), Float32(NonNegative), Int32(NonNegative)>>,
             Only(1, Image({"U8"})))

bilateralFilter_Kernel ==
  [parameters |-> <<In("image"), Out("image"), In("scalar"), In("scalar"),
                   In("scalar"), In("scalar")>>,
   body |-> <<Read("INT32", {2, 5}), Read("FLOAT32", {3, 4}), Match(0, 1), ToMat(0),
             Call({0, 2, 3, 4, 5}), FromMat(1)>>]

\* org.opencv.bitwise_and, OpenCV_bitwise_and.cpp
bitwise_and_Validators ==
  Validators(<<Image({"U8", "S16"}), Image({"U8", "S16"}), Image({"U8", "S16"})>>,
             Only(2, Image({"U8", "S16"})))

bitwise_and_Kernel ==
  [parameters |-> <<In("image"), In("image"), Out("image")>>,
   body |-> <<Match(0, 1), Match(0, 2), ToMat(0), ToMat(1), Call({0, 1}), FromMat(2)>>]

\* org.opencv.bitwise_not, OpenCV_bitwise_not.cpp
bitwise_not_Validators ==
  Validators(<<Image({"U8", "S16"}), Image({"U8", "S16"})>>,
             Only(1, Image({"U8", "S16"})))

bitwise_not_Kernel ==
  [parameters |-> <<In("image"), Out("image")>>,
   body |-> <<Match(0, 1), ToMat(0), Call({0}), FromMat(1)>>]

\* org.opencv.bitwise_or, OpenCV_bitwise_or.cpp
bitwise_or_Validators ==
  Validators(<<Image({"U8", "S16"}), Image({"U8", "S16"}), Image({"U8", "S16"})>>,
             Only(2, Image({"U8", "S16"})))

bitwise_or_Kernel ==
  [parameters |-> <<In("image"), In("image"), Out("image")>>,
   body |-> <<Match(0, 1), Match(0, 2), ToMat(0), ToMat(1), Call({0, 1}), FromMat(2)>>]

\* org.opencv.bitwise_xor, OpenCV_bitwise_xor.cpp
bitwise_xor_Validators ==
  Validators(<<Image({"U8", "S16"}), Image({"U8", "S16"}), Image({"U8", "S16"})>>,
             Only(2, Image({"U8", "S16"})))

bitwise_xor_Kernel ==
  [parameters |-> <<In("image"), In("image"), Out("image")>>,
   body |-> <<Match(0, 1), Match(0, 2), ToMat(0), ToMat(1), Call({0, 1}), FromMat(2)>>]

\* org.opencv.brisk_compute, OpenCV_brisk_compute.cpp
brisk_compute_Validators ==
  Validators(<<Image({"U8"}), Image({"U8"}), AnyArray, AnyArray, Int32(NonNegative),
               Int32(NonNegative), Float32(NonNegative)>>,
             Only(2, RoomyArray))

brisk_compute_Kernel ==
  [parameters |-> <<In("image"), In("image"), InOut("array"), InOut("array"),
                   In("scalar"), In("scalar"), In("scalar")>>,
   body |-> <<Read("FLOAT32", {6}), Read("INT32", {4, 5}), ToMat(0), ToMat(1),
             Call({0, 1, 4, 5, 6}), FromPoints(2), FromDescriptors(3, 64, {})>>]

\* org.opencv.buildopticalflowpyramid, OpenCV_buildOpticalFlowPyramid.cpp
buildOpticalFlowPyramid_Validators ==
  Validators(<<Image({"U8"}), Pyramid({"U8"}), Int32(Odd(NonNegative)),
               Int32(Odd(NonNegative)), Int32(NonNegative), Bool,
               Int32(NonNegative), Int32(NonNegative), Bool>>,
             Only(1, Pyramid({"U8"})))

buildOpticalFlowPyramid_Kernel ==
  [parameters |-> <<In("image"), InOut("pyramid"), In("scalar"), In("scalar"),
                   In("scalar"), In("scalar"), In("scalar"), In("scalar"),
                   In("scalar")>>,
   body |-> <<Read("INT32", {2, 3, 4, 6, 7}), Read("BOOL", {5, 8}), ToMat(0),
             Call({0, 2, 3, 4, 5, 6, 7, 8}), FromPyramid(1, {5})>>]

\* org.opencv.buildpyramid, OpenCV_buildPyramid.cpp
buildPyramid_Validators ==
  Validators(<<Image({"U8"}), Pyramid({"U8"}), Int32(NonNegative),
               Int32(NonNegative)>>,
             Only(1, Pyramid({"U8"})))

buildPyramid_Kernel ==
  [parameters |-> <<In("image"), InOut("pyramid"), In("scalar"), In("scalar")>>,
   body |-> <<Read("INT32", {2, 3}), ToMat(0), Call({0, 2, 3}), FromPyramid(1, {})>>]

\* org.opencv.compare, OpenCV_compare.cpp
compare_Validators ==
  Validators(<<Image({"U8", "S16"}), Image({"U8", "S16"}), Image({"U8", "S16"}),
               Int32(NonNegative)>>,
             Only(2, Image({"U8", "S16"})))

compare_Kernel ==
  [parameters |-> <<In("image"), In("image"), Out("image"), In("scalar")>>,
   body |-> <<Read("INT32", {3}), Match(0, 1), Match(0, 2), ToMat(0), ToMat(1),
             Call({0, 1, 3}), FromMat(2)>>]

\* org.opencv.convertscaleabs, OpenCV_convertScaleAbs.cpp
convertScaleAbs_Validators ==
  Validators(<<Image({"U8", "U16", "S16"}), Image({"U8"}), Float32(NonNegative),
               Float32(NonNegative)>>,
             Only(1, Image({"U8"})))

convertScaleAbs_Kernel ==
  [parameters |-> <<In("image"), Out("image"), In("scalar"), In("scalar")>>,
   body |-> <<Read("FLOAT32", {2, 3}), Match(0, 1), ToMat(0), Call({0, 2, 3}),
             FromMat(1)>>]

\* org.opencv.cornerharris, OpenCV_cornerHarris.cpp
cornerHarris_Validators ==
  Validators(<<Image({"U8"}), Image({"U8"}), Int32(NonNegative), Int32(NonNegative),
               Float32(NonNegative), Int32(NonNegative)>>,
             Only(1, Image({"U8", "S16"})))

cornerHarris_Kernel ==
  [parameters |-> <<In("image"), Out("image"), In("scalar"), In("scalar"),
                   In("scalar"), In("scalar")>>,
   body |-> <<Read("INT32", {2, 3, 5}), Read("FLOAT32", {4}), Match(0, 1), ToMat(0),
             Call({0, 2, 3, 4, 5}), FromMat(1)>>]

\* org.opencv.cornermineigenval, OpenCV_cornerMinEigenVal.cpp
cornerMinEigenVal_Validators ==
  Validators(<<Image({"U8"}), Image({"U8"}), Int32(NonNegative), Int32(NonNegative),
               Int32(NonNegative)>>,
             Only(1, Image({"U8"})))

cornerMinEigenVal_Kernel ==
  [parameters |-> <<In("image"), Out("image"), In("scalar"), In("scalar"),
                   In("scalar")>>,
   body |-> <<Read("INT32", 2..4), Match(0, 1), ToMat(0), Call({0, 2, 3, 4}),
             FromMat(1)>>]

\* org.opencv.countnonzero, OpenCV_countNonZero.cpp
countNonZero_Validators ==
  [Validators(<<Image({"U8", "S16"}), Int32(NonNegative)>>,
              Only(1, Scalar(ScalarType, Value))) EXCEPT !.kept = {1}]

countNonZero_Kernel ==
  [parameters |-> <<In("image"), InOut("scalar")>>,
   body |-> <<ToMat(0), Call({0}), WriteScalar(1)>>]

\* org.opencv.cvtcolor, OpenCV_cvtColor.cpp
cvtColor_Validators ==
  [Validators(<<Image({"U8", "S16", "RGB"}), Image({"U8", "S16", "RGB"}),
                Int32(0..254)>>,
              Only(1, Image({"U8", "S16", "RGB"}))) EXCEPT !.kept = {0, 1}]

cvtColor_Kernel ==
  [parameters |-> <<In("image"), Out("image"), In("scalar")>>,
   body |-> <<Read("INT32", {2}), Match(0, 1), ToMat(0), Call({0, 2}), FromMat(1)>>]

\* org.opencv.dilate, OpenCV_dilate.cpp
dilate_Validators ==
  Validators(<<Image({"U8", "U16", "S16"}), Image({"U8"}), AnyMatrix,
               Int32(AtLeast(-1)), Int32(AtLeast(-1)), Int32(NonNegative),
               Int32(NonNegative)>>,
             Only(1, Image({"U8"})))

dilate_Kernel ==
  [parameters |-> <<In("image"), Out("image"), In("matrix"), In("scalar"),
                   In("scalar"), In("scalar"), In("scalar")>>,
   body |-> <<Read("INT32", 3..6), Match(0, 1), ToMat(0), ToMatrix(2),
             Call({0, 2, 3, 4, 5, 6}), FromMat(1)>>]

\* org.opencv.distancetransform, OpenCV_distanceTransform.cpp
distanceTransform_Validators ==
  Validators(<<Image({"U8"}), Image({"U8"})>>,
             Only(1, Image({"U8", "S16"})))

distanceTransform_Kernel ==
  [parameters |-> <<In("image"), Out("image")>>,
   body |-> <<Match(0, 1), ToMat(0), Call({0}), FromMat(1)>>]

\* org.opencv.divide, OpenCV_divide.cpp
divide_Validators ==
  Validators(<<Image({"U8", "S16"}), Image({"U8", "S16"}), Image({"U8", "S16"}),
               Float32(NonNegative), Int32(AtLeast(-1))>>,
             Only(2, Image({"U8", "S16"})))

divide_Kernel ==
  [parameters |-> <<In("image"), In("image"), Out("image"), In("scalar"),
                   In("scalar")>>,
   body |-> <<Read("FLOAT32", {3}), Read("INT32", {4}), Match(0, 1), Match(0, 2),
             ToMat(0), ToMat(1), Call({0, 1, 3, 4}), FromMat(2)>>]

\* org.opencv.erode, OpenCV_erode.cpp
erode_Validators ==
  Validators(<<Image({"U8", "U16", "S16"}), Image({"U8"}), AnyMatrix,
               Int32(AtLeast(-1)), Int32(AtLeast(-1)), Int32(NonNegative),
               Int32(NonNegative)>>,
             Only(1, Image({"U8"})))

erode_Kernel ==
  [parameters |-> <<In("image"), Out("image"), In("matrix"), In("scalar"),
                   In("scalar"), In("scalar"), In("scalar")>>,
   body |-> <<Read("INT32", 3..6), Match(0, 1), ToMat(0), ToMatrix(2),
             Call({0, 2, 3, 4, 5, 6}), FromMat(1)>>]

\* org.opencv.fastnlmeansdenoising, OpenCV_fastNlMeansDenoising.cpp
fastNlMeansDenoising_Validators ==
  Validators(<<Image({"U8"}), Image({"U8"}), Float32(NonNegative),
               Int32(NonNegative), Int32(NonNegative)>>,
             Only(1, Image({"U8"})))

fastNlMeansDenoising_Kernel ==
  [parameters |-> <<In("image"), Out("image"), In("scalar"), In("scalar"),
                   In("scalar")>>,
   body |-> <<Read("FLOAT32", {2}), Read("INT32", {3, 4}), Match(0, 1), ToMat(0),
             Call({0, 2, 3, 4}), FromMat(1)>>]

\* org.opencv.fastnlmeansdenoisingcolored, OpenCV_fastNlMeansDenoisingColored.cpp
fastNlMeansDenoisingColored_Validators ==
  Validators(<<Image({"RGB"}), Image({"RGB"}), Float32(NonNegative),
               Float32(NonNegative), Int32(NonNegative), Int32(NonNegative)>>,
             Only(1, Image({"RGB"})))

fastNlMeansDenoisingColored_Kernel ==
  [parameters |-> <<In("image"), Out("image"), In("scalar"), In("scalar"),
                   In("scalar"), In("scalar")>>,
   body |-> <<Read("FLOAT32", {2, 3}), Read("INT32", {4, 5}), Match(0, 1), ToMat(0),
             Call({0, 2, 3, 4, 5}), FromMat(1)>>]

\* org.opencv.filter2d, OpenCV_filter2D.cpp
filter2D_Validators ==
  Validators(<<Image({"U8"}), Image({"U8"}), Int32(AtLeast(-1)), AnyMatrix,
               Int32(AtLeast(-1)), Int32(AtLeast(-1)), Float32(NonNegative),
               Int32(NonNegative)>>,
             Only(1, Image({"U8"})))

filter2D_Kernel ==
  [parameters |-> <<In("image"), Out("image"), In("scalar"), In("matrix"),
                   In("scalar"), In("scalar"), In("scalar"), In("scalar")>>,
   body |-> <<Read("INT32", {2, 4, 5, 7}), Read("FLOAT32", {6}), Match(0, 1),
             ToMat(0), ToMatrix(3), Call({0, 2, 3, 4, 5, 6, 7}), FromMat(1)>>]

\* org.opencv.flip, OpenCV_flip.cpp
flip_Validators ==
  Validators(<<Image({"U8"}), Image({"U8"}), Int32(AtLeast(-1))>>,
             Only(1, Image({"U8"})))

flip_Kernel ==
  [parameters |-> <<In("image"), Out("image"), In("scalar")>>,
   body |-> <<Read("INT32", {2}), ToMat(0), Call({0, 2}), FromMat(1)>>]

\* org.opencv.integral, OpenCV_integral.cpp
integral_Validators ==
  Validators(<<Image({"U8"}), Image({"U32", "S32"}), Int32(AtLeast(-1))>>,
             Only(1, Image({"U32", "S32"})))

integral_Kernel ==
  [parameters |-> <<In("image"), Out("image"), In("scalar")>>,
   body |-> <<Read("INT32", {2}), Match(0, 1), ToMat(0), Call({0, 2}), FromMat(1)>>]

\* org.opencv.morphologyex, OpenCV_morphologyEx.cpp
morphologyEx_Validators ==
  Validators(<<Image({"U8"}), Image({"U8"}), Int32(0..6), AnyMatrix,
               Int32(AtLeast(-1)), Int32(AtLeast(-1)), Int32(NonNegative),
               Int32(NonNegative)>>,
             Only(1, Image({"U8"})))

morphologyEx_Kernel ==
  [parameters |-> <<In("image"), Out("image"), In("scalar"), In("matrix"),
                   In("scalar"), In("scalar"), In("scalar"), In("scalar")>>,
   body |-> <<Read("INT32", {2, 4, 5, 6, 7}), Match(0, 1), ToMat(0), ToMatrix(3),
             Call({0, 2, 3, 4, 5, 6, 7}), FromMat(1)>>]

\* org.opencv.multiply, OpenCV_multiply.cpp
multiply_Validators ==
  Validators(<<Image({"U8", "S16"}), Image({"U8", "S16"}), Image({"U8", "S16"}),
               Float32(NonNegative), Int32(NonNegative)>>,
             Only(2, Image({"U8", "S16"})))

multiply_Kernel ==
  [parameters |-> <<In("image"), In("image"), Out("image"), In("scalar"),
                   In("scalar")>>,
   body |-> <<Read("FLOAT32", {3}), Read("INT32", {4}), Match(0, 1), Match(0, 2),
             ToMat(0), ToMat(1), Call({0, 1, 3, 4}), FromMat(2)>>]

\* org.opencv.norm, OpenCV_norm.cpp
norm_Validators ==
  [Validators(<<Image({"U8"}), Float32(NonNegative), Int32(NonNegative)>>,
              Only(1, Scalar(ScalarType, Value))) EXCEPT !.kept = {1}]

norm_Kernel ==
  [parameters |-> <<In("image"), InOut("scalar"), In("scalar")>>,
   body |-> <<Read("INT32", {2}), ToMat(0), Call({0, 2}), WriteScalar(1)>>]

\* org.opencv.orb_compute, OpenCV_orb_compute.cpp
ORB_compute_Validators ==
  Validators(<<Image({"U8"}), Image({"U8"}), AnyArray, AnyArray, Int32(NonNegative),
               Float32(NonNegative), Int32(NonNegative), Int32(NonNegative),
               Int32({0}), Int32(0..3), Int32({0, 1}), Int32(NonNegative)>>,
             Only(2, RoomyArray))

ORB_compute_Kernel ==
  [parameters |-> <<In("image"), In("image"), InOut("array"), InOut("array"),
                   In("scalar"), In("scalar"), In("scalar"), In("scalar"),
                   In("scalar"), In("scalar"), In("scalar"), In("scalar")>>,
   body |-> <<Read("INT32", {4, 6, 7, 8, 9, 10, 11}), Read("FLOAT32", {5}), ToMat(0),
             ToMat(1), Call({0, 1, 4, 5, 6, 7, 8, 9, 10, 11}), FromPoints(2),
             FromDescriptors(3, 32, {})>>]

\* org.opencv.pyrdown, OpenCV_pyrdown.cpp
pyrdown_Validators ==
  Validators(<<Image({"U8"}), Image({"U8"}), Int32(NonNegative), Int32(NonNegative),
               Int32(NonNegative)>>,
             Only(1, Image({"U8"})))

pyrdown_Kernel ==
  [parameters |-> <<In("image"), Out("image"), In("scalar"), In("scalar"),
                   In("scalar")>>,
   body |-> <<Read("INT32", 2..4), ToMat(0), Call({0, 2, 3, 4}), FromMat(1)>>]

\* org.opencv.pyrup, OpenCV_pyrup.cpp
pyrup_Validators ==
  Validators(<<Image({"U8"}), Image({"U8"}), Int32(NonNegative), Int32(NonNegative),
               Int32(NonNegative)>>,
             Only(1, Image({"U8"})))

pyrup_Kernel ==
  [parameters |-> <<In("image"), Out("image"), In("scalar"), In("scalar"),
                   In("scalar")>>,
   body |-> <<Read("INT32", 2..4), ToMat(0), Call({0, 2, 3, 4}), FromMat(1)>>]

\* org.opencv.resize, OpenCV_resize.cpp
resize_Validators ==
  Validators(<<Image({"U8", "U16", "S16"}), Image({"U8"}), Int32(NonNegative),
               Int32(NonNegative), Float32(NonNegative), Float32(NonNegative),
               Int32(0..4)>>,
             Only(1, Image({"U8"})))

resize_Kernel ==
  [parameters |-> <<In("image"), Out("image"), In("scalar"), In("scalar"),
                   In("scalar"), In("scalar"), In("scalar")>>,
   body |-> <<Read("INT32", {2, 3, 6}), Read("FLOAT32", {4, 5}), HasSize(1, 2, 3),
             ToMat(0), Call({0, 2, 3, 4, 5, 6}), FromMat(1)>>]

\* org.opencv.sepfilter2d, OpenCV_sepFilter2D.cpp
sepFilter2D_Validators ==
  Validators(<<Image({"U8"}), Image({"U8"}), Int32(AtLeast(-1)), AnyMatrix,
               AnyMatrix, Int32(AtLeast(-1)), Int32(AtLeast(-1)),
               Float32(NonNegative), Int32(NonNegative)>>,
             Only(1, Image({"U8"})))

sepFilter2D_Kernel ==
  [parameters |-> <<In("image"), Out("image"), In("scalar"), In("matrix"),
                   In("matrix"), In("scalar"), In("scalar"), In("scalar"),
                   In("scalar")>>,
   body |-> <<Read("INT32", {2, 5, 6, 8}), Read("FLOAT32", {7}), Match(0, 1),
             ToMat(0), ToMatrix(3), ToMatrix(4), Call({0, 2, 3, 4, 5, 6, 7, 8}),
             FromMat(1)>>]

\* org.opencv.simple_blob_detect, OpenCV_simple_blob_detector.cpp
simple_blob_detect_Validators ==
  Validators(<<Image({"U8"}), AnyArray, Image({"U8"})>>,
             Only(1, RoomyArray))

simple_blob_detect_Kernel ==
  [parameters |-> <<In("image"), InOut("array"), In("image")>>,
   body |-> <<ToMat(0), ToMat(2), Call({0, 2}), FromPoints(1)>>]

\* org.opencv.simple_blob_detect_initialize, OpenCV_simple_blob_detector.cpp
simple_blob_detect_initialize_Validators ==
  Validators(<<Image({"U8"}), AnyArray, Image({"U8"}), Float32(NonNegative),
               Float32(NonNegative), Float32(NonNegative), Scalar({"SIZE"}, Value),
               Float32(NonNegative), Bool, Scalar({"UINT16"}, Value), Bool,
               Float32(NonNegative), Float32(NonNegative), Bool,
               Float32(NonNegative), Float32(NonNegative), Bool,
               Float32(NonNegative), Float32(NonNegative), Bool,
               Float32(NonNegative), Float32(NonNegative)>>,
             Only(1, RoomyArray))

simple_blob_detect_initialize_Kernel ==
  [parameters |-> <<In("image"), InOut("array"), In("image"), In("scalar"),
                   In("scalar"), In("scalar"), In("scalar"), In("scalar"),
                   In("scalar"), In("scalar"), In("scalar"), In("scalar"),
                   In("scalar"), In("scalar"), In("scalar"), In("scalar"),
                   In("scalar"), In("scalar"), In("scalar"), In("scalar"),
                   In("scalar"), In("scalar")>>,
   body |-> <<Read("SIZE", {6}),
             Read("FLOAT32", {3, 4, 5, 7, 11, 12, 14, 15, 17, 18, 20, 21}),
             Read("BOOL", {8, 10, 13, 16, 19}), Read("UINT16", {9}), ToMat(0),
             ToMat(2),
             Call({0, 2, 3, 4, 5, 6, 7, 8, 9, 10, 11, 12, 13, 14, 16, 17, 20, 21}),
             FromPoints(1)>>]

\* org.opencv.subtract, OpenCV_subtract.cpp
subtract_Validators ==
  Validators(<<Image({"U8", "S16"}), Image({"U8", "S16"}), Image({"U8", "S16"})>>,
             Only(2, Image({"U8", "S16"})))

subtract_Kernel ==
  [parameters |-> <<In("image"), In("image"), Out("image")>>,
   body |-> <<Match(0, 1), Match(0, 2), ToMat(0), ToMat(1), Call({0, 1}), FromMat(2)>>]

\* org.opencv.threshold, OpenCV_threshold.cpp
threshold_Validators ==
  Validators(<<Image({"U8"}), Image({"U8"}), Float32(NonNegative),
               Float32(NonNegative), Int32(NonNegative)>>,
             Only(1, Image({"U8"})))

threshold_Kernel ==
  [parameters |-> <<In("image"), Out("image"), In("scalar"), In("scalar"),
                   In("scalar")>>,
   body |-> <<Read("FLOAT32", {2, 3}), Read("INT32", {4}), Match(0, 1), ToMat(0),
             Call({0, 2, 3, 4}), FromMat(1)>>]

\* org.opencv.transpose, OpenCV_transpose.cpp
transpose_Validators ==
  Validators(<<Image({"U8", "S16"}), Image({"U8", "S16"})>>,
             Only(1, Image({"U8", "S16"})))

transpose_Kernel ==
  [parameters |-> <<In("image"), Out("image")>>,
   body |-> <<Transposed(0, 1), ToMat(0), Call({0}), FromMat(1)>>]

\* org.opencv.warpaffine, OpenCV_warpAffine.cpp
warpAffine_Validators ==
  Validators(<<Image({"U8", "S16", "U16"}), Image({"U8"}), AnyMatrix,
               Int32(NonNegative), Int32(NonNegative), Int32(NonNegative),
               Int32(NonNegative)>>,
             Only(1, Image({"U8"})))

warpAffine_Kernel ==
  [parameters |-> <<In("image"), Out("image"), In("matrix"), In("scalar"),
                   In("scalar"), In("scalar"), In("scalar")>>,
   body |-> <<Read("INT32", 3..6), Match(0, 1), ToMat(0), ToMatrix(2),
             Call({0, 2, 3, 4, 5, 6}), FromMat(1)>>]

\* org.opencv.warpperspective, OpenCV_warpPerspective.cpp
warpPerspective_Validators ==
  Validators(<<Image({"U8", "S16", "U16"}), Image({"U8"}), AnyMatrix,
               Int32(NonNegative), Int32(NonNegative), Int32(NonNegative),
               Int32(NonNegative)>>,
             Only(1, Image({"U8"})))

warpPerspective_Kernel ==
  [parameters |-> <<In("image"), Out("image"), In("matrix"), In("scalar"),
                   In("scalar"), In("scalar"), In("scalar")>>,
   body |-> <<Read("INT32", 3..6), Match(0, 1), ToMat(0), ToMatrix(2),
             Call({0, 2, 3, 4, 5, 6}), FromMat(1)>>]

-------------------------------------------------------------------------------
\* The kernels by name.
Kernel(validators, kernel) == [validators |-> validators, parameters |-> kernel.parameters,
                               body |-> kernel.body]

OpenCVKernel == [
  AddWeighted |-> Kernel(AddWeighted_Validators, AddWeighted_Kernel),
  brisk_detect |-> Kernel(brisk_detect_Validators, brisk_detect_Kernel),
  blur |-> Kernel(blur_Validators, blur_Kernel),
  Boxfilter |-> Kernel(Boxfilter_Validators, Boxfilter_Kernel),
  Canny |-> Kernel(Canny_Validators, Canny_Kernel),
  FAST_detector |-> Kernel(FAST_detector_Validators, FAST_detector_Kernel),
  Gaussianblur |-> Kernel(Gaussianblur_Validators, Gaussianblur_Kernel),
  good_features_to_track |-> Kernel(good_features_to_track_Validators, good_features_to_track_Kernel),
  Laplacian |-> Kernel(Laplacian_Validators, Laplacian_Kernel),
  MSER_detect |-> Kernel(MSER_detect_Validators, MSER_detect_Kernel),
  MedianBlur |-> Kernel(MedianBlur_Validators, MedianBlur_Kernel),
  ORB_detect |-> Kernel(ORB_detect_Validators, ORB_detect_Kernel),
  SIFT_compute |-> Kernel(SIFT_compute_Validators, SIFT_compute_Kernel),
  SIFT_detect |-> Kernel(SIFT_detect_Validators, SIFT_detect_Kernel),
  SURF_compute |-> Kernel(SURF_compute_Validators, SURF_compute_Kernel),
  SURF_detect |-> Kernel(SURF_detect_Validators, SURF_detect_Kernel),
  Scharr |-> Kernel(Scharr_Validators, Scharr_Kernel),
  Sobel |-> Kernel(Sobel_Validators, Sobel_Kernel),
  star_detect |-> Kernel(star_detect_Validators, star_detect_Kernel),
  absdiff |-> Kernel(absdiff_Validators, absdiff_Kernel),
  adaptiveThreshold |-> Kernel(adaptiveThreshold_Validators, adaptiveThreshold_Kernel),
  add |-> Kernel(add_Validators, add_Kernel),
  bilateralFilter |-> Kernel(bilateralFilter_Validators, bilateralFilter_Kernel),
  bitwise_and |-> Kernel(bitwise_and_Validators, bitwise_and_Kernel),
  bitwise_not |-> Kernel(bitwise_not_Validators, bitwise_not_Kernel),
  bitwise_or |-> Kernel(bitwise_or_Validators, bitwise_or_Kernel),
  bitwise_xor |-> Kernel(bitwise_xor_Validators, bitwise_xor_Kernel),
  brisk_compute |-> Kernel(brisk_compute_Validators, brisk_compute_Kernel),
  buildOpticalFlowPyramid |-> Kernel(buildOpticalFlowPyramid_Validators, buildOpticalFlowPyramid_Kernel),
  buildPyramid |-> Kernel(buildPyramid_Validators, buildPyramid_Kernel),
  compare |-> Kernel(compare_Validators, compare_Kernel),
  convertScaleAbs |-> Kernel(convertScaleAbs_Validators, convertScaleAbs_Kernel),
  cornerHarris |-> Kernel(cornerHarris_Validators, cornerHarris_Kernel),
  cornerMinEigenVal |-> Kernel(cornerMinEigenVal_Validators, cornerMinEigenVal_Kernel),
  countNonZero |-> Kernel(countNonZero_Validators, countNonZero_Kernel),
  cvtColor |-> Kernel(cvtColor_Validators, cvtColor_Kernel),
  dilate |-> Kernel(dilate_Validators, dilate_Kernel),
  distanceTransform |-> Kernel(distanceTransform_Validators, distanceTransform_Kernel),
  divide |-> Kernel(divide_Validators, divide_Kernel),
  erode |-> Kernel(erode_Validators, erode_Kernel),
  fastNlMeansDenoising |-> Kernel(fastNlMeansDenoising_Validators, fastNlMeansDenoising_Kernel),
  fastNlMeansDenoisingColored |-> Kernel(fastNlMeansDenoisingColored_Validators, fastNlMeansDenoisingColored_Kernel),
  filter2D |-> Kernel(filter2D_Validators, filter2D_Kernel),
  flip |-> Kernel(flip_Validators, flip_Kernel),
  integral |-> Kernel(integral_Validators, integral_Kernel),
  morphologyEx |-> Kernel(morphologyEx_Validators, morphologyEx_Kernel),
  multiply |-> Kernel(multiply_Validators, multiply_Kernel),
  norm |-> Kernel(norm_Validators, norm_Kernel),
  ORB_compute |-> Kernel(ORB_compute_Validators, ORB_compute_Kernel),
  pyrdown |-> Kernel(pyrdown_Validators, pyrdown_Kernel),
  pyrup |-> Kernel(pyrup_Validators, pyrup_Kernel),
  resize |-> Kernel(resize_Validators, resize_Kernel),
  sepFilter2D |-> Kernel(sepFilter2D_Validators, sepFilter2D_Kernel),
  simple_blob_detect |-> Kernel(simple_blob_detect_Validators, simple_blob_detect_Kernel),
  simple_blob_detect_initialize |-> Kernel(simple_blob_detect_initialize_Validators, simple_blob_detect_initialize_Kernel),
  subtract |-> Kernel(subtract_Validators, subtract_Kernel),
  threshold |-> Kernel(threshold_Validators, threshold_Kernel),
  transpose |-> Kernel(transpose_Validators, transpose_Kernel),
  warpAffine |-> Kernel(warpAffine_Validators, warpAffine_Kernel),
  warpPerspective |-> Kernel(warpPerspective_Validators, warpPerspective_Kernel)]

===============================================================================
