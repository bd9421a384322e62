----------------------------- MODULE NeuralTensors -----------------------------
(***************************************************************************)
(* The arguments of the neural network layers (vx_nn) and what a layer's   *)
(* callbacks are made of: the verdict of its validator, the steps of its   *)
(* initializer and of its destructor, the calls of its execution.          *)
(*                                                                         *)
(* A layer's parameters keep the indexes of the source, from 0; so do the  *)
(* parameters themselves, a function on 0 .. n - 1.                        *)
(***************************************************************************)
EXTENDS Integers, Sequences, TLC

Tensor(type, dims) == [kind |-> "tensor", type |-> type, dims |-> dims]
Number(type, value) == [kind |-> "scalar", type |-> type, value |-> value]
Picture(type, width, height) == [kind |-> "image", type |-> type, dims |-> <<width, height>>]
Lut(type, count, offset) ==
  [kind |-> "lut", type |-> type, count |-> count, offset |-> offset]
Nothing == [kind |-> "none"]

Given(a) == a.kind # "none"
Listed(s) == [i \in 0 .. Len(s) - 1 |-> s[i + 1]]

FloatTypes == {"FLOAT32", "FLOAT16"}
IsFloat(t, ranks) == t.type \in FloatTypes /\ Len(t.dims) \in ranks
IsFloat32(t, ranks) == t.type = "FLOAT32" /\ Len(t.dims) \in ranks

\* The dimensions of a tensor of four, and those of a tensor of two read behind
\* two others.
W(t) == t.dims[1]
H(t) == t.dims[2]
C(t) == t.dims[3]
N(t) == t.dims[4]
Behind(first, second, dims) == IF Len(dims) = 4 THEN dims ELSE <<first, second>> \o dims
Volume(t) == (W(t) * H(t)) * C(t)

\* A vector of n values: of one dimension, or of two the second of which is 1.
IsVector(t, n) == IsFloat(t, {1, 2}) /\ t.dims \in {<<n>>, <<n, 1>>}

\* What a validator answers: whether it accepts the node, and then the type and
\* the dimensions it announces of each output.  A comparison with a value never
\* read has either result.
Announced(type, dims) == [type |-> type, dims |-> dims]
Announces(index, type, dims) == [i \in {index} |-> Announced(type, dims)]
Verdict(accepts, outputs) ==
  {[accepted |-> accepts, outputs |-> IF accepts THEN outputs ELSE <<>>]}
Unsettled(accepts, outputs) ==
  Verdict(accepts, outputs) \union Verdict(FALSE, outputs)

\* The steps of an initializer or a destructor: the objects it creates or
\* destroys, in the order of the code, and the places where it returns when a
\* call it has made fails.  (A failing call of MIOpen ends the process.)
MayReturn == "return"
NotImplemented == "not implemented"
Callback(s) == [steps |-> s, mode |-> [of |-> {}, fused |-> FALSE], fused |-> FALSE,
                garbage |-> FALSE]
When(condition, s) == IF condition THEN s ELSE <<>>
OnlyIf(condition, S) == IF condition THEN S ELSE {}

\* A call of MIOpen: the parameters whose data it applies, the objects it uses.
Applies(indexes, objects) == [applies |-> indexes, uses |-> objects]

\* The parameters of a kernel, as it is registered.
Input(kind) == [direction |-> "input", kind |-> kind, optional |-> FALSE]
Output(kind) == [direction |-> "output", kind |-> kind, optional |-> FALSE]
Optional(parameter) == [parameter EXCEPT !.optional = TRUE]

\* A constructor passes on the objects it is given, and makes scalars of fixed
\* types from its numbers.
Passed == "passed"
Constructs(kernel, made) == [kernel |-> kernel, made |-> made]

\* One value a generated kernel writes, and where it takes it from.
Move(to, from) == [to |-> to, from |-> from]
\* The position of an element in the memory of a packed tensor.
At(t, x, y, c, n) == x + (W(t) * (y + (H(t) * (c + (C(t) * n)))))

===============================================================================
