---------------------------- MODULE OpenCVArguments ----------------------------
(***************************************************************************)
(* The arguments of the OpenCV nodes (vx_opencv), what a validator accepts *)
(* of them, and the steps the kernels are made of.                         *)
(*                                                                         *)
(* A validator's check of one parameter is the set of the arguments it     *)
(* accepts.  The body of a kernel is the sequence of its steps, in the     *)
(* order of the code; parameters keep the indexes of the source, from 0.   *)
(***************************************************************************)
EXTENDS Integers, Sequences, TLC

CONSTANTS Value,        \* the values a scalar may have
          Size,         \* the sizes an image may have: <<width, height>>
          LevelsAbove   \* the sizes the levels of a pyramid above the first may have

ASSUME ArgumentAssumption ==
  /\ Value \subseteq Int /\ {0, 1, 3} \subseteq Value
  /\ Size \subseteq Int \X Int /\ <<3, 3>> \in Size
  /\ LevelsAbove \subseteq Seq(Int \X Int) /\ <<<<2, 2>>>> \in LevelsAbove

ImageFormat == {"U8", "S16", "U16", "U32", "S32", "RGB"}
ScalarType == {"INT32", "UINT32", "FLOAT32", "BOOL", "SIZE", "UINT16"}

\* The bytes of an array's item: of a vx_keypoint_t, and of descriptors.
PointSize == 28
ItemSize == {PointSize, 32, 64, 256, 512}

Image(formats) == [kind : {"image"}, type : formats, size : Size]
Scalar(types, values) == [kind : {"scalar"}, type : types, value : values]
Array(capacities) == [kind : {"array"}, item : ItemSize, capacity : capacities]
Matrix(types) == [kind : {"matrix"}, type : types]
Pyramid(formats) == [kind : {"pyramid"}, type : formats, size : Size, above : LevelsAbove]

Argument == UNION {Image(ImageFormat), Scalar(ScalarType, Value), Array(0..1),
                   Matrix({"INT32", "FLOAT32", "UINT8"}), Pyramid({"U8", "S16"})}

\* The checks the validators make, each by the condition in its code.  They take a
\* pyramid of any scale and number of levels, and an array of any items.
Int32(values) == Scalar({"INT32"}, values)
Float32(values) == Scalar({"FLOAT32"}, values)
NonNegative == {v \in Value : v >= 0}
AtLeast(n) == {v \in Value : v >= n}
Odd(values) == {v \in values : v % 2 # 0}
Bool == Scalar({"BOOL"}, Value \intersect {0, 1})
AnyArray == Array(0..1)
RoomyArray == Array({1})
AnyMatrix == Matrix({"INT32", "FLOAT32", "UINT8"})

\* The validators of a kernel: the input validator knows every parameter, the
\* output validator those in the domain of out; kept is the parameters whose
\* object they ask for and do not release.
Validators(in, out) == [in |-> in, out |-> out, kept |-> {}]

\* An output validator that knows one parameter.
Only(index, accepted) == [i \in {index} |-> accepted]

\* The parameters of a kernel.
In(kind) == [direction |-> "input", kind |-> kind]
Out(kind) == [direction |-> "output", kind |-> kind]
InOut(kind) == [direction |-> "bidirectional", kind |-> kind]

\* The steps of a kernel's body.  An array takes items of the size given, a pyramid
\* a Mat for each level; there are twice as many bytes, or Mats, when a parameter of
\* twice is 1.
Read(type, indexes) == [do |-> "read", type |-> type, of |-> indexes]
Match(i, j) == [do |-> "match", of |-> {i, j}]
Transposed(i, j) == [do |-> "transposed", in |-> i, of |-> j]
HasSize(i, width, height) == [do |-> "hasSize", of |-> i, width |-> width, height |-> height]
ToMat(i) == [do |-> "toMat", of |-> i]
ToMatrix(i) == [do |-> "toMatrix", of |-> i]
Call(indexes) == [do |-> "call", of |-> indexes]
FromMat(i) == [do |-> "write", of |-> i]
FromPyramid(i, twice) == [do |-> "pyramid", of |-> i, twice |-> twice]
FromPoints(i) == [do |-> "items", of |-> i, size |-> PointSize, twice |-> {}]
FromDescriptors(i, size, twice) == [do |-> "items", of |-> i, size |-> size, twice |-> twice]
WriteScalar(i) == [do |-> "write", of |-> i]

===============================================================================
