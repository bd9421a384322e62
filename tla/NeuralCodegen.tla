------------------------------ MODULE NeuralCodegen ------------------------------
(***************************************************************************)
(* The layers of vx_nn that generate an OpenCL kernel: for each its        *)
(* validator, the kernel it generates, its registration and the            *)
(* constructor of its node.  They have no initializer, and no              *)
(* implementation on the host.                                             *)
(*                                                                         *)
(* A generated kernel is what it writes: moves from the elements of one    *)
(* object to those of another, an object being the index of its parameter. *)
(* The elements of a tensor are its coordinates, or positions in its       *)
(* memory where the kernel counts those.                                   *)
(***************************************************************************)
EXTENDS NeuralTensors, FiniteSets

\* What a layer generates, and whether the OpenCL compiler takes it.
GpuKernel(compiles, moves) == [compiles |-> compiles, moves |-> moves]
GpuOnly == "GPU"

\* The work items of one dimension of n elements, each doing `step' of them.
Items(n, step) == {x \in 0 .. n - 1 : x % step = 0}
Lanes(x, step) == x .. x + step - 1

-------------------------------------------------------------------------------
(***************************************************************************)
(* argmax: the channel, or the two channels, of the greatest values of     *)
(* every pixel.                                                            *)
(***************************************************************************)
\* A virtual image has the format that is announced for it.
ArgmaxFormat(p) ==
  IF p[1].type # "VIRT" THEN p[1].type
  ELSE IF Behind(1, 1, p[0].dims)[3] < 256 THEN "U8" ELSE "U16"

\* The dimensions of an output of up to four, read behind those it lacks.
BehindOnes(dims) ==
  [d \in 1 .. 4 |-> IF d + Len(dims) > 4 THEN dims[(d + Len(dims)) - 4] ELSE 1]

validateArgmax(p) ==
  LET in == Behind(1, 1, p[0].dims)
      fits(type) == type \in {"U8", "UINT8"} => in[3] <= 256
  IN Verdict(/\ IsFloat32(p[0], {2, 4})
             /\ fits(p[1].type)
             /\ p[1].kind \in {"image", "tensor"}
             /\ p[1].kind = "tensor" =>
                  /\ BehindOnes(p[1].dims)[3] \in {1, 2}
                  /\ p[1].type \in {"UINT8", "UINT16", "INT16"},
             Announces(1, ArgmaxFormat(p), IF p[1].kind = "image" THEN <<in[1], in[2] * in[4]>>
                                           ELSE p[1].dims))

\* The best and the second best so far of the values f of a pixel's channels;
\* the kernels for four pixels at a time and for one do the same.
TopStep(f, best, c) ==
  IF f[c] > f[best[1]] THEN <<c, best[1]>>
  ELSE IF f[c] > f[best[2]] THEN <<best[1], c>>
  ELSE best

TopTwo(f) ==
  LET top[c \in DOMAIN f] ==
        IF c = 0 THEN <<0, 0>>
        ELSE IF c = 1 THEN (IF f[1] > f[0] THEN <<1, 0>> ELSE <<0, 1>>)
        ELSE TopStep(f, top[c - 1], c)
  IN top[Cardinality(DOMAIN f) - 1]

\* How many of the greatest channels an output takes, and the pixels of an input
\* that are written in one go.
Ranks(out) == IF out.kind = "image" THEN 1 ELSE BehindOnes(out.dims)[3]
InOneGo(in) == IF Behind(1, 1, in.dims)[1] % 4 = 0 THEN 4 ELSE 1

\* What is written, whatever the format of the image; and how many channels can
\* be told apart by it.
output_data_type(p) ==
  IF p[1].kind = "tensor" THEN p[1].type
  ELSE IF ArgmaxFormat(p) = "U8" THEN "UINT8" ELSE "UINT16"
Indexes(type) == IF type = "UINT8" THEN 256 ELSE 65536

\* Where it is written: by the strides of the tensor; to rows of the image, of
\* which each batch takes as many as the input has.
Strides(p) ==
  [dims |-> IF p[1].kind = "image"
            THEN <<p[1].dims[1], Behind(1, 1, p[0].dims)[2], 1, Behind(1, 1, p[0].dims)[4]>>
            ELSE BehindOnes(p[1].dims)]

\* The pixels are those of the input, whatever the output's.  A row of a width
\* that is no multiple of four is written one pixel at a time.  The kernel for two
\* channels reads two, and nothing is written to a tensor of signed integers.
argmax_codegen(p) ==
  LET in == [dims |-> Behind(1, 1, p[0].dims)]
      top_k == Ranks(p[1])
      read == IF C(in) < top_k THEN top_k ELSE C(in)
      type == output_data_type(p)
  IN OnlyIf(type # "INT16",
            UNION {{Move(<<1, At(Strides(p), x, y, k - 1, n), type>>,
                         <<0, At(in, x, y, 0, n), read, k, C(in) <= Indexes(type)>>) :
                      x \in Lanes(x0, InOneGo(p[0]))} :
                     x0 \in Items(W(in), InOneGo(p[0])), y \in 0 .. H(in) - 1,
                     n \in 0 .. N(in) - 1, k \in 1 .. top_k})

\* The kernel for two channels of one pixel at a time does not compile.
argmax(p) == GpuKernel(Ranks(p[1]) = 1 \/ InOneGo(p[0]) = 4, argmax_codegen(p))

publishArgmaxLayer == <<Input("tensor"), Output("reference")>>
vxArgmaxLayer == Constructs("argmax", <<Passed, Passed>>)

-------------------------------------------------------------------------------
(***************************************************************************)
(* concat and slice: the channels of two to eight tensors put into one,    *)
(* and the channels of one taken apart.                                    *)
(***************************************************************************)
\* The tensors given of those from index 1 on: the first two, and the others
\* until one is missing.
Pieces(p) == {i \in 1 .. 8 : \A j \in 3 .. i : Given(p[j])}


\* The channels of the pieces before piece i, in elements.
Before(p, i) ==
  LET sum[j \in 1 .. i] == IF j = 1 THEN 0 ELSE sum[j - 1] + Volume(p[j - 1]) IN sum[i]

\* The elements of one batch of the whole that are those of piece i.
Block(p, i) == Before(p, i) .. Before(p, i) + Volume(p[i]) - 1

SameButChannels(a, b) == <<W(a), H(a), N(a)>> = <<W(b), H(b), N(b)>>

Pieced(p) ==
  LET channels[i \in 0 .. 8] ==
        IF i = 0 THEN 0
        ELSE channels[i - 1] + (IF i \in Pieces(p) THEN C(p[i]) ELSE 0)
  IN /\ \A i \in Pieces(p) \union {0} : IsFloat32(p[i], {4})
     /\ \A i \in Pieces(p) : SameButChannels(p[i], p[0])
     /\ channels[8] = C(p[0])

validateConcatLayer(p) == Verdict(Pieced(p), Announces(0, "FLOAT32", p[0].dims))

concat_codegen_batchsz1(p) ==
  UNION {{Move(<<0, id>>, <<i, id - Before(p, i)>>) : id \in Block(p, i)} : i \in Pieces(p)}

concat_codegen_batchszN(p) ==
  UNION {{Move(<<0, id + (batch * Volume(p[0]))>>,
               <<i, (batch * Volume(p[i])) + (id - Before(p, i))>>) : id \in Block(p, i)} :
           i \in Pieces(p), batch \in 0 .. N(p[0]) - 1}

concat(p) ==
  GpuKernel(TRUE, IF N(p[0]) = 1 THEN concat_codegen_batchsz1(p) ELSE concat_codegen_batchszN(p))

publishConcatLayer ==
  <<Output("tensor"), Input("tensor"), Input("tensor")>>
  \o [i \in 1 .. 6 |-> Optional(Input("tensor"))]
vxConcatLayer == Constructs("concat", [i \in 1 .. 9 |-> Passed])

validateSliceLayer(p) ==
  Verdict(Pieced(p), [i \in Pieces(p) |-> Announced("FLOAT32", p[i].dims)])

slice_codegen_batchsz1(p) ==
  UNION {{Move(<<i, id - Before(p, i)>>, <<0, id>>) : id \in Block(p, i)} : i \in Pieces(p)}

\* Mutant: every batch is taken from the first one.
slice_codegen_first_batch(p) ==
  UNION {{Move(<<i, (batch * Volume(p[i])) + (id - Before(p, i))>>, <<0, id>>) :
            id \in Block(p, i)} : i \in Pieces(p), batch \in 0 .. N(p[0]) - 1}

slice_codegen_batchszN(p) ==
  UNION {{Move(<<i, (batch * Volume(p[i])) + (id - Before(p, i))>>,
               <<0, id + (batch * Volume(p[0]))>>) : id \in Block(p, i)} :
           i \in Pieces(p), batch \in 0 .. N(p[0]) - 1}

slice(p) ==
  GpuKernel(TRUE, IF N(p[0]) = 1 THEN slice_codegen_batchsz1(p) ELSE slice_codegen_batchszN(p))

publishSliceLayer ==
  <<Input("tensor"), Output("tensor"), Output("tensor")>>
  \o [i \in 1 .. 6 |-> Optional(Output("tensor"))]
vxSliceLayer == Constructs("slice", [i \in 1 .. 9 |-> Passed])

-------------------------------------------------------------------------------
(***************************************************************************)
(* upsample_nearest writes each value four times.  The batches are walked  *)
(* as if they were channels.                                               *)
(***************************************************************************)
validateUpsample(p) ==
  Verdict(/\ IsFloat(p[0], {4}) /\ IsFloat(p[1], {4})
          /\ p[1].dims = <<2 * W(p[0]), 2 * H(p[0]), C(p[0]), N(p[0])>>
          /\ p[0].type = p[1].type,
          Announces(1, p[0].type, p[1].dims))

upsample_codegen(p) ==
  {Move(<<1, At(p[1], (2 * x) + dx, (2 * y) + dy, c, 0)>>, <<0, At(p[0], x, y, c, 0)>>) :
     x \in 0 .. W(p[0]) - 1, y \in 0 .. H(p[0]) - 1,
     c \in 0 .. (C(p[0]) * N(p[0])) - 1, dx \in 0 .. 1, dy \in 0 .. 1}

\* The kernel for 16 bits has variables of type half, without the extension of
\* OpenCL C that they need.
upsample(p) == GpuKernel(p[1].type = "FLOAT32", upsample_codegen(p))

publishUpsampleNearest == <<Input("tensor"), Output("tensor")>>
vxUpsampleNearestLayer == Constructs("upsample_nearest", <<Passed, Passed>>)

-------------------------------------------------------------------------------
(***************************************************************************)
(* tensor_table_lookup: the values of the input are kept within the table. *)
(***************************************************************************)
validateTensorTableLookup(p) ==
  Verdict(/\ p[0].type \in {"UINT8", "INT16"}
          /\ p[0].dims = p[2].dims
          /\ p[1].type = p[2].type
          /\ ~(p[0].type = "INT16" /\ p[2].type = "UINT8"),
          Announces(2, p[2].type, p[2].dims))

Within(v, least, greatest) ==
  IF v < least THEN least ELSE IF v > greatest THEN greatest ELSE v

\* The values an element may have: the least, the greatest, and those nearby 0.
Sampled(type) ==
  IF type = "UINT8" THEN {0, 1, 2, 255} ELSE {-32768, -2, -1, 0, 1, 2, 32767}

min_idx(lut) == -lut.offset
max_idx(lut) == lut.count - lut.offset - 1

\* The entry of the table that each kernel takes for the value v: an image of
\* the table, an array of its values.  Two values of 16 bits in one word are
\* taken apart without their sign.
lut_U8U8(lut, v) == v
lut_S16U8(lut, v) == IF v < max_idx(lut) THEN v ELSE max_idx(lut)
lut_S16S16(lut, v) == Within(v, min_idx(lut), max_idx(lut))
lut_S16S16_packed(lut, v) == Within(v % 65536, min_idx(lut), max_idx(lut))

Elements(a) ==
  LET product[d \in 0 .. Len(a.dims)] == IF d = 0 THEN 1 ELSE product[d - 1] * a.dims[d]
  IN product[Len(a.dims)]

tensor_table_lookup(p) ==
  LET packed == Elements(p[0]) % (IF p[0].type = "INT16" THEN 2 ELSE 4) = 0
      entry(v) == CASE p[2].type = "UINT8" -> lut_U8U8(p[1], v)
                    [] p[2].type # "UINT8" /\ p[0].type = "UINT8" -> lut_S16U8(p[1], v)
                    [] p[0].type = "INT16" /\ ~packed -> lut_S16S16(p[1], v)
                    [] p[0].type = "INT16" /\ packed -> lut_S16S16_packed(p[1], v)
  IN GpuKernel(TRUE, {Move(<<2, id>>, <<0, id, [v \in Sampled(p[0].type) |-> entry(v)]>>) :
                     id \in 0 .. Elements(p[0]) - 1})

publishTensorTableLookup == <<Input("tensor"), Input("lut"), Output("tensor")>>
vxTensorTableLookupNode == Constructs("tensor_table_lookup", <<Passed, Passed, Passed>>)

-------------------------------------------------------------------------------
(***************************************************************************)
(* Images to tensors, and back; the images of a batch are below each       *)
(* other.                                                                  *)
(***************************************************************************)
\* The position of channel c of a pixel in an image of the given depth.
Pixel(t, depth, x, y, c, n) == (((((n * H(t)) + y) * W(t)) + x) * depth) + c
Channel(p, c) == IF p[4].value = 1 THEN 2 - c ELSE c

validateImageToTensorKernel(p) ==
  Verdict(/\ p[0].type \in {"RGB", "U8"}
          /\ p[2].type = "FLOAT32" /\ p[3].type = "FLOAT32" /\ p[4].type = "BOOL"
          /\ IsFloat(p[1], {4})
          /\ C(p[1]) \in {1, 3}
          /\ p[0].dims = <<W(p[1]), H(p[1]) * N(p[1])>>,
          Announces(1, p[1].type, p[1].dims))

\* Three channels are written of an image of colours, whatever the tensor has;
\* of a grey image one, four pixels at a time.
image_to_tensor_codegen(p) ==
  LET t == p[1]
      rows == 0 .. H(t) - 1
      batches == 0 .. N(t) - 1
  IN IF p[0].type = "RGB"
     THEN {Move(<<1, At(t, x, y, c, n)>>, <<0, Pixel(t, 3, x, y, Channel(p, c), n)>>) :
             x \in 0 .. W(t) - 1, y \in rows, c \in 0 .. 2, n \in batches}
     ELSE UNION {{Move(<<1, At(t, x, y, 0, n)>>, <<0, Pixel(t, 1, x, y, 0, n)>>) :
                    x \in Lanes(x0, 4)} : x0 \in Items(W(t), 4), y \in rows, n \in batches}

image_to_tensor(p) == GpuKernel(TRUE, image_to_tensor_codegen(p))

publishImageToTensorConvert ==
  <<Input("image"), Output("tensor"), Input("scalar"), Input("scalar"), Input("scalar")>>
vxConvertImageToTensorNode ==
  Constructs("image_to_tensor", <<Passed, Passed, "FLOAT32", "FLOAT32", "BOOL">>)

PictureFormat(t) == IF C(t) = 3 THEN "RGB" ELSE "U8"

validateTensorToImageKernel(p) ==
  Verdict(/\ IsFloat(p[0], {4})
          /\ C(p[0]) \in {1, 3}
          /\ W(p[0]) % 4 = 0
          /\ p[2].type = "FLOAT32" /\ p[3].type = "FLOAT32" /\ p[4].type = "BOOL",
          Announces(1, PictureFormat(p[0]), <<W(p[0]), H(p[0]) * N(p[0])>>))

\* A virtual image has the format that was announced for it.
Depth(p) ==
  LET format == IF p[1].type = "VIRT" THEN PictureFormat(p[0]) ELSE p[1].type
  IN IF format = "RGB" THEN 3 ELSE 1

tensor_to_image_codegen(p) ==
  LET t == p[0]
      depth == Depth(p)
      from(c) == IF depth = 3 THEN Channel(p, c) ELSE c
  IN UNION {{Move(<<1, Pixel(t, depth, x, y, c, n)>>, <<0, At(t, x, y, from(c), n)>>) :
               x \in Lanes(x0, 4)} :
              x0 \in Items(W(t), 4), y \in 0 .. H(t) - 1,
              c \in 0 .. depth - 1, n \in 0 .. N(t) - 1}

\* The kernel for colours of 16 bits calls convert_float4 with four arguments.
tensor_to_image(p) ==
  GpuKernel(~(Depth(p) = 3 /\ p[0].type = "FLOAT16"), tensor_to_image_codegen(p))

publishTensorToImageConvert ==
  <<Input("tensor"), Output("image"), Input("scalar"), Input("scalar"), Input("scalar")>>
vxConvertTensorToImageNode ==
  Constructs("tensor_to_image", <<Passed, Passed, "FLOAT32", "FLOAT32", "BOOL">>)
===============================================================================
