-------------------------- MODULE NeuralNodesProofs --------------------------
(***************************************************************************)
(* Theorems about NeuralNodes, for every kind of arguments.                *)
(***************************************************************************)
EXTENDS NeuralNodes, FiniteSetTheorems, SequenceTheorems, WellFoundedInduction, TLAPS

-------------------------------------------------------------------------------
(***************************************************************************)
(* The steps of the callbacks, and the objects they create or destroy.     *)
(***************************************************************************)
\* The steps of all callbacks.
Step == {MayReturn, NotImplemented, "handle", "workspace",
         "input_desc", "weight_desc", "output_desc", "bias_desc",
         "conv_desc", "convdesc", "deconv_desc", "fusePlanDesc", "fusionArgs",
         "activation_desc", "pool_desc", "lrnDesc",
         "inputDescriptor", "outputDescriptor", "activationDesc",
         "bnScaleBiasMeanVarDesc", "bnBias", "input1", "input2", "output", "copy_kernel"}

\* The steps a callback runs, and that those of s are X.
StepsOf(s) == {s[m] : m \in DOMAIN s}
Runs(s, X) == s \in Seq(Step) /\ StepsOf(s) = X

\* The steps are those of the set above.
LEMMA StepNames ==
  /\ MayReturn \in Step /\ NotImplemented \in Step /\ "handle" \in Step /\ "workspace" \in Step
  /\ "input_desc" \in Step /\ "weight_desc" \in Step /\ "output_desc" \in Step
  /\ "bias_desc" \in Step /\ "conv_desc" \in Step /\ "convdesc" \in Step
  /\ "deconv_desc" \in Step /\ "fusePlanDesc" \in Step /\ "fusionArgs" \in Step
  /\ "activation_desc" \in Step /\ "pool_desc" \in Step /\ "lrnDesc" \in Step
  /\ "inputDescriptor" \in Step /\ "outputDescriptor" \in Step /\ "activationDesc" \in Step
  /\ "bnScaleBiasMeanVarDesc" \in Step /\ "bnBias" \in Step /\ "copy_kernel" \in Step
  /\ "input1" \in Step /\ "input2" \in Step /\ "output" \in Step
BY DEF Step

\* A callback that runs one part after another.
LEMMA RunsJoin ==
  ASSUME NEW s, NEW t, NEW X, NEW Y, Runs(s, X), Runs(t, Y)
  PROVE  Runs(s \o t, X \union Y)
<1>1. s \in Seq(Step) /\ t \in Seq(Step) /\ StepsOf(s) = X /\ StepsOf(t) = Y
  BY DEF Runs
<1>2. s \o t \in Seq(Step) /\ Len(s \o t) = Len(s) + Len(t)
  BY <1>1
<1>3. \A m \in DOMAIN (s \o t) : (s \o t)[m] \in StepsOf(s) \union StepsOf(t)
  BY <1>1 DEF StepsOf
<1>4. \A m \in DOMAIN s : m \in DOMAIN (s \o t) /\ (s \o t)[m] = s[m]
  BY <1>1
<1>5. \A m \in DOMAIN t : m + Len(s) \in DOMAIN (s \o t) /\ (s \o t)[m + Len(s)] = t[m]
  BY <1>1
<1>6. StepsOf(s \o t) = StepsOf(s) \union StepsOf(t)
  BY <1>3, <1>4, <1>5 DEF StepsOf
<1> QED BY <1>1, <1>2, <1>6 DEF Runs

\* A part that runs only when it is called for.
LEMMA RunsWhen ==
  ASSUME NEW s, NEW X, NEW c, Runs(s, X)
  PROVE  Runs(When(c, s), OnlyIf(c, X))
BY DEF Runs, When, OnlyIf, StepsOf

\* A part of 1 step, written out.
LEMMA Runs1 ==
  ASSUME NEW a \in Step
  PROVE  Runs(<<a>>, {a})
BY DEF Runs, StepsOf

\* A part of 2 steps, written out.
LEMMA Runs2 ==
  ASSUME NEW a \in Step, NEW b \in Step
  PROVE  Runs(<<a, b>>, {a, b})
<1> DEFINE s == <<a, b>>
<1>1. s \in Seq(Step) /\ DOMAIN s = 1 .. 2 /\ 1 .. 2 = {1, 2}
  OBVIOUS
<1>2. s[1] = a /\ s[2] = b
  OBVIOUS
<1> HIDE DEF s
<1>3. StepsOf(s) = {s[1], s[2]}
  BY <1>1 DEF StepsOf
<1> QED BY <1>1, <1>2, <1>3 DEF s, Runs

\* A part of 3 steps, written out.
LEMMA Runs3 ==
  ASSUME NEW a \in Step, NEW b \in Step, NEW c \in Step
  PROVE  Runs(<<a, b, c>>, {a, b, c})
<1> DEFINE s == <<a, b, c>>
<1>1. s \in Seq(Step) /\ DOMAIN s = 1 .. 3 /\ 1 .. 3 = {1, 2, 3}
  OBVIOUS
<1>2. s[1] = a /\ s[2] = b /\ s[3] = c
  OBVIOUS
<1> HIDE DEF s
<1>3. StepsOf(s) = {s[1], s[2], s[3]}
  BY <1>1 DEF StepsOf
<1> QED BY <1>1, <1>2, <1>3 DEF s, Runs

\* A part of 4 steps, written out.
LEMMA Runs4 ==
  ASSUME NEW a \in Step, NEW b \in Step, NEW c \in Step, NEW d \in Step
  PROVE  Runs(<<a, b, c, d>>, {a, b, c, d})
<1> DEFINE s == <<a, b, c, d>>
<1>1. s \in Seq(Step) /\ DOMAIN s = 1 .. 4 /\ 1 .. 4 = {1, 2, 3, 4}
  OBVIOUS
<1>2. s[1] = a /\ s[2] = b /\ s[3] = c /\ s[4] = d
  OBVIOUS
<1> HIDE DEF s
<1>3. StepsOf(s) = {s[1], s[2], s[3], s[4]}
  BY <1>1 DEF StepsOf
<1> QED BY <1>1, <1>2, <1>3 DEF s, Runs

\* A part of 5 steps, written out.
LEMMA Runs5 ==
  ASSUME NEW a \in Step, NEW b \in Step, NEW c \in Step, NEW d \in Step,
         NEW e \in Step
  PROVE  Runs(<<a, b, c, d, e>>, {a, b, c, d, e})
<1> DEFINE s == <<a, b, c, d, e>>
<1>1. s \in Seq(Step) /\ DOMAIN s = 1 .. 5 /\ 1 .. 5 = {1, 2, 3, 4, 5}
  OBVIOUS
<1>2. s[1] = a /\ s[2] = b /\ s[3] = c /\ s[4] = d /\ s[5] = e
  OBVIOUS
<1> HIDE DEF s
<1>3. StepsOf(s) = {s[1], s[2], s[3], s[4], s[5]}
  BY <1>1 DEF StepsOf
<1> QED BY <1>1, <1>2, <1>3 DEF s, Runs

\* A part of 6 steps, written out.
LEMMA Runs6 ==
  ASSUME NEW a \in Step, NEW b \in Step, NEW c \in Step, NEW d \in Step,
         NEW e \in Step, NEW f \in Step
  PROVE  Runs(<<a, b, c, d, e, f>>, {a, b, c, d, e, f})
<1> DEFINE s == <<a, b, c, d, e, f>>
<1>1. s \in Seq(Step) /\ DOMAIN s = 1 .. 6 /\ 1 .. 6 = {1, 2, 3, 4, 5, 6}
  OBVIOUS
<1>2. s[1] = a /\ s[2] = b /\ s[3] = c /\ s[4] = d /\ s[5] = e /\ s[6] = f
  OBVIOUS
<1> HIDE DEF s
<1>3. StepsOf(s) = {s[1], s[2], s[3], s[4], s[5], s[6]}
  BY <1>1 DEF StepsOf
<1> QED BY <1>1, <1>2, <1>3 DEF s, Runs

\* A part of 7 steps, written out.
LEMMA Runs7 ==
  ASSUME NEW a \in Step, NEW b \in Step, NEW c \in Step, NEW d \in Step,
         NEW e \in Step, NEW f \in Step, NEW g \in Step
  PROVE  Runs(<<a, b, c, d, e, f, g>>, {a, b, c, d, e, f, g})
<1> DEFINE s == <<a, b, c, d, e, f, g>>
<1>1. s \in Seq(Step) /\ DOMAIN s = 1 .. 7 /\ 1 .. 7 = {1, 2, 3, 4, 5, 6, 7}
  OBVIOUS
<1>2. s[1] = a /\ s[2] = b /\ s[3] = c /\ s[4] = d /\ s[5] = e /\ s[6] = f /\ s[7] = g
  OBVIOUS
<1> HIDE DEF s
<1>3. StepsOf(s) = {s[1], s[2], s[3], s[4], s[5], s[6], s[7]}
  BY <1>1 DEF StepsOf
<1> QED BY <1>1, <1>2, <1>3 DEF s, Runs

\* A part of 8 steps, written out.
LEMMA Runs8 ==
  ASSUME NEW a \in Step, NEW b \in Step, NEW c \in Step, NEW d \in Step,
         NEW e \in Step, NEW f \in Step, NEW g \in Step, NEW h \in Step
  PROVE  Runs(<<a, b, c, d, e, f, g, h>>, {a, b, c, d, e, f, g, h})
<1> DEFINE s == <<a, b, c, d, e, f, g, h>>
<1>1. s \in Seq(Step) /\ DOMAIN s = 1 .. 8 /\ 1 .. 8 = {1, 2, 3, 4, 5, 6, 7, 8}
  OBVIOUS
<1>2. s[1] = a /\ s[2] = b /\ s[3] = c /\ s[4] = d /\ s[5] = e /\ s[6] = f /\ s[7] = g /\ s[8] = h
  OBVIOUS
<1> HIDE DEF s
<1>3. StepsOf(s) = {s[1], s[2], s[3], s[4], s[5], s[6], s[7], s[8]}
  BY <1>1 DEF StepsOf
<1> QED BY <1>1, <1>2, <1>3 DEF s, Runs

\* A part of 9 steps, written out.
LEMMA Runs9 ==
  ASSUME NEW a \in Step, NEW b \in Step, NEW c \in Step, NEW d \in Step,
         NEW e \in Step, NEW f \in Step, NEW g \in Step, NEW h \in Step, NEW i \in Step
  PROVE  Runs(<<a, b, c, d, e, f, g, h, i>>, {a, b, c, d, e, f, g, h, i})
<1> DEFINE s == <<a, b, c, d, e, f, g, h, i>>
<1>1. s \in Seq(Step) /\ DOMAIN s = 1 .. 9 /\ 1 .. 9 = {1, 2, 3, 4, 5, 6, 7, 8, 9}
  OBVIOUS
<1>2. s[1] = a /\ s[2] = b /\ s[3] = c /\ s[4] = d /\ s[5] = e /\ s[6] = f /\ s[7] = g /\ s[8]
      = h /\ s[9] = i
  OBVIOUS
<1> HIDE DEF s
<1>3. StepsOf(s) = {s[1], s[2], s[3], s[4], s[5], s[6], s[7], s[8], s[9]}
  BY <1>1 DEF StepsOf
<1> QED BY <1>1, <1>2, <1>3 DEF s, Runs

\* A callback that returns at its end has run all its steps.
LEMMA TouchedAll ==
  ASSUME NEW s, NEW X, Runs(s, X), Len(s) + 1 \in Returns(s)
  PROVE  Touched(s, Len(s) + 1) = X \ {MayReturn} /\ NotImplemented \notin X
<1>1. s \in Seq(Step) /\ StepsOf(s) = X
  BY DEF Runs
<1>2. 1 .. (Len(s) + 1) - 1 = DOMAIN s
  BY <1>1
<1>3. Touched(s, Len(s) + 1) = X \ {MayReturn}
  BY <1>1, <1>2 DEF Touched, StepsOf
<1>4. NotImplemented \notin X
  BY <1>1 DEF Returns, OnlyIf, StepsOf
<1> QED BY <1>3, <1>4

-------------------------------------------------------------------------------
(***************************************************************************)
(* The layers, one after another: what the initializer of a layer that is  *)
(* ready has made, that its execution uses no more, and that its destructor*)
(* releases all of it.                                                     *)
(***************************************************************************)
\* The data of a layer whose initializer has run all its steps.
Whole(made) == [held |-> StepsOf(made.steps) \ {MayReturn}, mode |-> made.mode,
                fused |-> made.fused, garbage |-> made.garbage]

\* What a callback makes of three parts, and of five.
LEMMA RunsJoin3 ==
  ASSUME NEW r, NEW s, NEW t, NEW X, NEW Y, NEW Z, Runs(r, X), Runs(s, Y), Runs(t, Z)
  PROVE  Runs((r \o s) \o t, (X \union Y) \union Z)
<1>1. Runs(r \o s, X \union Y)
  BY RunsJoin
<1> QED BY <1>1, RunsJoin

\* A callback of five parts.
LEMMA RunsJoin5 ==
  ASSUME NEW r, NEW s, NEW t, NEW u, NEW v, NEW X, NEW Y, NEW Z, NEW U, NEW V,
         Runs(r, X), Runs(s, Y), Runs(t, Z), Runs(u, U), Runs(v, V)
  PROVE  Runs((((r \o s) \o t) \o u) \o v, (((X \union Y) \union Z) \union U) \union V)
<1>1. Runs((r \o s) \o t, (X \union Y) \union Z)
  BY RunsJoin3
<1> QED BY <1>1, RunsJoin3

\* A destructor releases all its layer holds.
Cleaned(data, undo) == undo \in Seq(Step) /\ data.held \subseteq StepsOf(undo)

\* An execution uses no more than that.
Supplied(data, calls) == \A call \in calls : call.uses \subseteq data.held

\* The first steps of every initializer, and the last one.
LEMMA CommonSteps ==
  /\ Runs(<<MayReturn, "handle", MayReturn>>, {MayReturn, "handle", MayReturn})
  /\ Runs(<<MayReturn>>, {MayReturn})
  /\ Runs(Descriptors, {"input_desc", "weight_desc", "output_desc", "bias_desc"})
BY Runs1, Runs3, Runs4, StepNames DEF Descriptors

\* Pooling: an activation parameter that is not 1 has no descriptor.
LEMMA PoolingLayer ==
  ASSUME NEW p, NEW env
  PROVE  LET made == initializePoolingLayer(p, env)
             data == Whole(made)
         IN /\ made.steps \in Seq(Step)
            /\ Cleaned(data, uninitializePoolingLayer(data))
            /\ (Given(p[9]) => p[9].value = 1) => Supplied(data, processPoolingLayer(p, data))
<1> DEFINE made == initializePoolingLayer(p, env)
           data == Whole(made)
           undo == uninitializePoolingLayer(data)
           relu == Given(p[9]) /\ p[9].value = 1
           s1 == <<MayReturn, "handle", MayReturn, "pool_desc", "input_desc", "output_desc",
                   MayReturn>>
           s2 == When(relu, <<"activation_desc">>)
           s3 == <<MayReturn>>
           X1 == {MayReturn, "handle", MayReturn, "pool_desc", "input_desc", "output_desc",
                  MayReturn}
           X2 == OnlyIf(relu, {"activation_desc"})
           X3 == {MayReturn}
<1>1. Runs(s1, X1) /\ Runs(s3, X3)
  BY Runs1, Runs7, StepNames
<1>2. Runs(s2, X2)
  BY Runs1, RunsWhen, StepNames
<1>3. Runs(undo, {"pool_desc", "activation_desc", "input_desc", "output_desc", "handle"})
  BY Runs5, StepNames DEF uninitializePoolingLayer
<1>4. made.steps = (s1 \o s2) \o s3
  BY DEF initializePoolingLayer, Callback
<1>5. Runs(made.steps, (X1 \union X2) \union X3)
  <2> HIDE DEF s1, s2, s3, X1, X2, X3, made
  <2> QED BY <1>1, <1>2, <1>4, RunsJoin3
<1>6. data.held = {"handle", "pool_desc", "input_desc", "output_desc"} \union X2
  BY <1>5 DEF Whole, OnlyIf, MayReturn, Runs
<1>7. Cleaned(data, undo)
  BY <1>3, <1>6 DEF OnlyIf, Cleaned, Runs
<1>8. (Given(p[9]) => p[9].value = 1) => Supplied(data, processPoolingLayer(p, data))
  BY <1>6 DEF OnlyIf, processPoolingLayer, Applies, Supplied
<1> QED BY <1>5, <1>7, <1>8 DEF Runs

\* Normalization, activation and softmax.
LEMMA NormalizationLayer ==
  ASSUME NEW p, NEW env
  PROVE  LET made == initializeNormalizationLayer(p, env)
             data == Whole(made)
         IN /\ made.steps \in Seq(Step)
            /\ Cleaned(data, uninitializeNormalizationLayer(data))
            /\ Supplied(data, processNormalizationLayer(p, data))
<1> DEFINE made == initializeNormalizationLayer(p, env)
           data == Whole(made)
<1>1. Runs(made.steps, {MayReturn, "handle", MayReturn, "input_desc", "output_desc", "lrnDesc",
                        MayReturn})
  BY Runs7, StepNames DEF initializeNormalizationLayer, Callback
<1>2. data.held = {"handle", "input_desc", "output_desc", "lrnDesc"}
  BY <1>1 DEF Whole, MayReturn, Runs
<1>3. Runs(uninitializeNormalizationLayer(data),
           {"lrnDesc", "input_desc", "output_desc", "handle"})
  BY Runs4, StepNames DEF uninitializeNormalizationLayer
<1>4. Cleaned(data, uninitializeNormalizationLayer(data))
  BY <1>2, <1>3 DEF Cleaned, Runs
<1>5. Supplied(data, processNormalizationLayer(p, data))
  BY <1>2 DEF Supplied, processNormalizationLayer, Applies
<1> QED BY <1>1, <1>4, <1>5 DEF Runs

\* The same of the activation layer.
LEMMA ActivationLayer ==
  ASSUME NEW p, NEW env
  PROVE  LET made == initializeActivationLayer(p, env)
             data == Whole(made)
         IN /\ made.steps \in Seq(Step)
            /\ Cleaned(data, uninitializeActivationLayer(data))
            /\ Supplied(data, processActivationLayer(p, data))
<1> DEFINE made == initializeActivationLayer(p, env)
           data == Whole(made)
<1>1. Runs(made.steps, {MayReturn, "handle", MayReturn, "inputDescriptor", "outputDescriptor",
                        MayReturn, "activationDesc", MayReturn})
  BY Runs8, StepNames DEF initializeActivationLayer, Callback
<1>2. data.held = {"handle", "inputDescriptor", "outputDescriptor", "activationDesc"}
  BY <1>1 DEF Whole, MayReturn, Runs
<1>3. Runs(uninitializeActivationLayer(data),
           {"activationDesc", "inputDescriptor", "outputDescriptor", "handle"})
  BY Runs4, StepNames DEF uninitializeActivationLayer
<1>4. Cleaned(data, uninitializeActivationLayer(data))
  BY <1>2, <1>3 DEF Cleaned, Runs
<1>5. Supplied(data, processActivationLayer(p, data))
  BY <1>2 DEF Supplied, processActivationLayer, Applies
<1> QED BY <1>1, <1>4, <1>5 DEF Runs

\* The same of the softmax layer.
LEMMA SoftmaxLayer ==
  ASSUME NEW p, NEW env
  PROVE  LET made == initializeSoftmaxLayer(p, env)
             data == Whole(made)
         IN /\ made.steps \in Seq(Step)
            /\ Cleaned(data, uninitializeSoftmaxLayer(data))
            /\ Supplied(data, processSoftmaxLayer(p, data))
<1> DEFINE made == initializeSoftmaxLayer(p, env)
           data == Whole(made)
<1>1. Runs(made.steps, {MayReturn, "handle", MayReturn, "input_desc", "output_desc", MayReturn})
  BY Runs6, StepNames DEF initializeSoftmaxLayer, Callback
<1>2. data.held = {"handle", "input_desc", "output_desc"}
  BY <1>1 DEF Whole, MayReturn, Runs
<1>3. Runs(uninitializeSoftmaxLayer(data), {"input_desc", "output_desc", "handle"})
  BY Runs3, StepNames DEF uninitializeSoftmaxLayer
<1>4. Cleaned(data, uninitializeSoftmaxLayer(data))
  BY <1>2, <1>3 DEF Cleaned, Runs
<1>5. Supplied(data, processSoftmaxLayer(p, data))
  BY <1>2 DEF Supplied, processSoftmaxLayer, Applies
<1> QED BY <1>1, <1>4, <1>5 DEF Runs

\* Reshape copies its input.
LEMMA ReshapeLayer ==
  ASSUME NEW p, NEW env
  PROVE  LET made == initializeReshapeLayer(p, env)
             data == Whole(made)
         IN /\ made.steps \in Seq(Step)
            /\ Cleaned(data, uninitializeReshapeLayer(data))
            /\ Supplied(data, processReshapeLayer(p, data))
<1> DEFINE made == initializeReshapeLayer(p, env)
           data == Whole(made)
<1>1. Runs(made.steps, {MayReturn, "handle", MayReturn})
  BY CommonSteps DEF initializeReshapeLayer, Callback
<1>2. data.held = {"handle"}
  BY <1>1 DEF Whole, MayReturn, Runs
<1>3. Runs(uninitializeReshapeLayer(data), {"handle"})
  BY Runs1, StepNames DEF uninitializeReshapeLayer
<1>4. Cleaned(data, uninitializeReshapeLayer(data))
  BY <1>2, <1>3 DEF Cleaned, Runs
<1>5. Supplied(data, processReshapeLayer(p, data))
  BY <1>2 DEF Supplied, processReshapeLayer, Applies
<1> QED BY <1>1, <1>4, <1>5 DEF Runs

\* What a destructor does about the workspace.
LEMMA WorkspaceReleased ==
  ASSUME NEW data
  PROVE  Runs(ReleaseWorkspace(data),
              OnlyIf("workspace" \in data.held, {MayReturn, "workspace"}))
BY Runs2, RunsWhen, StepNames DEF ReleaseWorkspace

\* A fully connected layer.
LEMMA FullyConnectedLayer ==
  ASSUME NEW p, NEW env
  PROVE  LET made == initializeFullyConnectedLayer(p, env)
             data == Whole(made)
         IN /\ made.steps \in Seq(Step)
            /\ Cleaned(data, uninitializeFullyConnectedLayer(data))
            /\ Supplied(data, processFullyConnectedLayer(p, data))
<1> DEFINE made == initializeFullyConnectedLayer(p, env)
           data == Whole(made)
           s1 == <<MayReturn, "handle", MayReturn>>
           s3 == <<"convdesc", MayReturn>>
           s5 == <<MayReturn>>
           X1 == {MayReturn, "handle", MayReturn}
           X2 == {"input_desc", "weight_desc", "output_desc", "bias_desc"}
           X3 == {"convdesc", MayReturn}
           X4 == OnlyIf(env.workspace, {MayReturn, "workspace", MayReturn})
           X5 == {MayReturn}
<1>1. Runs(s1, X1) /\ Runs(Descriptors, X2) /\ Runs(s3, X3) /\ Runs(s5, X5)
  BY CommonSteps, Runs2, StepNames
<1>2. Runs(Workspace(env), X4)
  BY Runs3, RunsWhen, StepNames DEF Workspace
<1>3. made.steps = (((s1 \o Descriptors) \o s3) \o Workspace(env)) \o s5
  BY DEF initializeFullyConnectedLayer, Callback
<1>4. Runs(made.steps, (((X1 \union X2) \union X3) \union X4) \union X5)
  <2> HIDE DEF s1, s3, s5, X1, X2, X3, X4, X5, made
  <2> QED BY <1>1, <1>2, <1>3, RunsJoin5
<1>5. data.held = {"handle", "input_desc", "weight_desc", "output_desc", "bias_desc", "convdesc"}
                    \union OnlyIf(env.workspace, {"workspace"})
  BY <1>4 DEF Whole, OnlyIf, MayReturn, Runs
<1>6. Cleaned(data, uninitializeFullyConnectedLayer(data))
  <2> DEFINE last == <<"convdesc", "input_desc", "output_desc", "weight_desc", "bias_desc",
                       "handle">>
             Y == {"convdesc", "input_desc", "output_desc", "weight_desc", "bias_desc", "handle"}
  <2>1. Runs(last, Y)
    BY Runs6, StepNames
  <2>2. uninitializeFullyConnectedLayer(data) = ReleaseWorkspace(data) \o last
    BY DEF uninitializeFullyConnectedLayer
  <2> HIDE DEF data
  <2> DEFINE Z == OnlyIf("workspace" \in data.held, {MayReturn, "workspace"})
  <2>3. Runs(uninitializeFullyConnectedLayer(data), Z \union Y)
    <3>1. Runs(ReleaseWorkspace(data), Z)
      BY WorkspaceReleased
    <3> HIDE DEF last, Y, Z
    <3> QED BY <2>1, <2>2, <3>1, RunsJoin
  <2> QED BY <1>5, <2>3 DEF Cleaned, Runs, OnlyIf
<1>7. Supplied(data, processFullyConnectedLayer(p, data))
  BY <1>5 DEF Supplied, processFullyConnectedLayer, Applies, OnlyIf
<1> QED BY <1>4, <1>6, <1>7 DEF Runs

\* Deconvolution.
LEMMA DeconvolutionLayer ==
  ASSUME NEW p, NEW env
  PROVE  LET made == initializeDeconvolutionLayer(p, env)
             data == Whole(made)
         IN /\ made.steps \in Seq(Step)
            /\ Cleaned(data, uninitializeDeconvolutionLayer(data))
            /\ Supplied(data, processDeconvolutionLayer(p, data))
<1> DEFINE made == initializeDeconvolutionLayer(p, env)
           data == Whole(made)
           s1 == <<MayReturn, "handle", MayReturn>>
           s3 == <<"deconv_desc", MayReturn>>
           s5 == <<MayReturn>>
           X1 == {MayReturn, "handle", MayReturn}
           X2 == {"input_desc", "weight_desc", "output_desc", "bias_desc"}
           X3 == {"deconv_desc", MayReturn}
           X4 == OnlyIf(env.workspace, {MayReturn, "workspace", MayReturn})
           X5 == {MayReturn}
<1>1. Runs(s1, X1) /\ Runs(Descriptors, X2) /\ Runs(s3, X3) /\ Runs(s5, X5)
  BY CommonSteps, Runs2, StepNames
<1>2. Runs(Workspace(env), X4)
  BY Runs3, RunsWhen, StepNames DEF Workspace
<1>3. made.steps = (((s1 \o Descriptors) \o s3) \o Workspace(env)) \o s5
  BY DEF initializeDeconvolutionLayer, Callback
<1>4. Runs(made.steps, (((X1 \union X2) \union X3) \union X4) \union X5)
  <2> HIDE DEF s1, s3, s5, X1, X2, X3, X4, X5, made
  <2> QED BY <1>1, <1>2, <1>3, RunsJoin5
<1>5. data.held = {"handle", "input_desc", "weight_desc", "output_desc", "bias_desc",
      "deconv_desc"}
                    \union OnlyIf(env.workspace, {"workspace"})
  BY <1>4 DEF Whole, OnlyIf, MayReturn, Runs
<1>6. Cleaned(data, uninitializeDeconvolutionLayer(data))
  <2> DEFINE last == <<"deconv_desc", "input_desc", "output_desc", "weight_desc", "bias_desc",
                       "handle">>
             Y == {"deconv_desc", "input_desc", "output_desc", "weight_desc", "bias_desc",
                "handle"}
  <2>1. Runs(last, Y)
    BY Runs6, StepNames
  <2>2. uninitializeDeconvolutionLayer(data) = ReleaseWorkspace(data) \o last
    BY DEF uninitializeDeconvolutionLayer
  <2> HIDE DEF data
  <2> DEFINE Z == OnlyIf("workspace" \in data.held, {MayReturn, "workspace"})
  <2>3. Runs(uninitializeDeconvolutionLayer(data), Z \union Y)
    <3>1. Runs(ReleaseWorkspace(data), Z)
      BY WorkspaceReleased
    <3> HIDE DEF last, Y, Z
    <3> QED BY <2>1, <2>2, <3>1, RunsJoin
  <2> QED BY <1>5, <2>3 DEF Cleaned, Runs, OnlyIf
<1>7. Supplied(data, processDeconvolutionLayer(p, data))
  BY <1>5 DEF Supplied, processDeconvolutionLayer, Applies, OnlyIf
<1> QED BY <1>4, <1>6, <1>7 DEF Runs

\* What the destructors of batch normalization and of scaling do.
LEMMA ScaleReleased ==
  ASSUME NEW data
  PROVE  Runs(ReleaseScale(data),
              ({"input_desc", "output_desc", "bnScaleBiasMeanVarDesc"}
               \union OnlyIf("bnBias" \in data.held, {MayReturn, "bnBias"})) \union {"handle"})
<1> DEFINE s1 == <<"input_desc", "output_desc", "bnScaleBiasMeanVarDesc">>
           s2 == When("bnBias" \in data.held, <<MayReturn, "bnBias">>)
           s3 == <<"handle">>
           X1 == {"input_desc", "output_desc", "bnScaleBiasMeanVarDesc"}
           X2 == OnlyIf("bnBias" \in data.held, {MayReturn, "bnBias"})
           X3 == {"handle"}
<1>1. Runs(s1, X1) /\ Runs(s3, X3)
  BY Runs1, Runs3, StepNames
<1>2. Runs(s2, X2)
  BY Runs2, RunsWhen, StepNames
<1>3. ReleaseScale(data) = (s1 \o s2) \o s3
  BY DEF ReleaseScale
<1>4. Runs(ReleaseScale(data), (X1 \union X2) \union X3)
  <2> HIDE DEF s1, s2, s3, X1, X2, X3
  <2> QED BY <1>1, <1>2, <1>3, RunsJoin3
<1> QED BY <1>4

\* Batch normalization, with or without a bias of its own.
LEMMA BatchNormalizationLayer ==
  ASSUME NEW p, NEW env
  PROVE  LET made == initializeBatchNormalizationLayer(p, env)
             data == Whole(made)
         IN /\ made.steps \in Seq(Step)
            /\ Cleaned(data, uninitializeBatchNormalizationLayer(data))
            /\ Supplied(data, processBatchNormalizationLayer(p, data))
<1> DEFINE made == initializeBatchNormalizationLayer(p, env)
           data == Whole(made)
           s1 == <<MayReturn, "handle", MayReturn>>
           s3 == <<MayReturn>>
           s4 == When(~Given(p[4]), <<MayReturn, "bnBias", MayReturn>>)
           X1 == {MayReturn, "handle", MayReturn}
           X2 == {"input_desc", "bnScaleBiasMeanVarDesc", "output_desc"}
           X3 == {MayReturn}
           X4 == OnlyIf(~Given(p[4]), {MayReturn, "bnBias", MayReturn})
<1>1. Runs(s1, X1) /\ Runs(ScaleDescriptors, X2) /\ Runs(s3, X3)
  BY CommonSteps, Runs3, StepNames DEF ScaleDescriptors
<1>2. Runs(s4, X4)
  BY Runs3, RunsWhen, StepNames
<1>3. made.steps = (((s1 \o ScaleDescriptors) \o s3) \o s4) \o s3
  BY DEF initializeBatchNormalizationLayer, Callback
<1>4. Runs(made.steps, (((X1 \union X2) \union X3) \union X4) \union X3)
  <2> HIDE DEF s1, s3, s4, X1, X2, X3, X4, made
  <2> QED BY <1>1, <1>2, <1>3, RunsJoin5
<1>5. data.held = {"handle", "input_desc", "bnScaleBiasMeanVarDesc", "output_desc"}
                    \union OnlyIf(~Given(p[4]), {"bnBias"})
  BY <1>4 DEF Whole, OnlyIf, MayReturn, Runs
<1>6. Cleaned(data, uninitializeBatchNormalizationLayer(data))
  <2> HIDE DEF data
  <2>1. Runs(uninitializeBatchNormalizationLayer(data),
        ({"input_desc", "output_desc", "bnScaleBiasMeanVarDesc"}
               \union OnlyIf("bnBias" \in data.held, {MayReturn, "bnBias"})) \union {"handle"})
    BY ScaleReleased DEF uninitializeBatchNormalizationLayer
  <2> QED BY <1>5, <2>1 DEF Cleaned, Runs, OnlyIf
<1>7. Supplied(data, processBatchNormalizationLayer(p, data))
  BY <1>5 DEF Supplied, processBatchNormalizationLayer, Applies, OnlyIf, ScaleObjects
<1> QED BY <1>4, <1>6, <1>7 DEF Runs

\* Scaling, likewise.
LEMMA ScaleLayer ==
  ASSUME NEW p, NEW env
  PROVE  LET made == initializeScaleLayer(p, env)
             data == Whole(made)
         IN /\ made.steps \in Seq(Step)
            /\ Cleaned(data, uninitializeScaleLayer(data))
            /\ Supplied(data, processScaleLayer(p, data))
<1> DEFINE made == initializeScaleLayer(p, env)
           data == Whole(made)
           s1 == <<MayReturn, "handle", MayReturn>>
           s3 == <<MayReturn>>
           s4 == When(~Given(p[2]), <<MayReturn, "bnBias", MayReturn>>)
           X1 == {MayReturn, "handle", MayReturn}
           X2 == {"input_desc", "bnScaleBiasMeanVarDesc", "output_desc"}
           X3 == {MayReturn}
           X4 == OnlyIf(~Given(p[2]), {MayReturn, "bnBias", MayReturn})
<1>1. Runs(s1, X1) /\ Runs(ScaleDescriptors, X2) /\ Runs(s3, X3)
  BY CommonSteps, Runs3, StepNames DEF ScaleDescriptors
<1>2. Runs(s4, X4)
  BY Runs3, RunsWhen, StepNames
<1>3. made.steps = (((s1 \o ScaleDescriptors) \o s3) \o s4) \o s3
  BY DEF initializeScaleLayer, Callback
<1>4. Runs(made.steps, (((X1 \union X2) \union X3) \union X4) \union X3)
  <2> HIDE DEF s1, s3, s4, X1, X2, X3, X4, made
  <2> QED BY <1>1, <1>2, <1>3, RunsJoin5
<1>5. data.held = {"handle", "input_desc", "bnScaleBiasMeanVarDesc", "output_desc"}
                    \union OnlyIf(~Given(p[2]), {"bnBias"})
  BY <1>4 DEF Whole, OnlyIf, MayReturn, Runs
<1>6. Cleaned(data, uninitializeScaleLayer(data))
  <2> HIDE DEF data
  <2>1. Runs(uninitializeScaleLayer(data),
        ({"input_desc", "output_desc", "bnScaleBiasMeanVarDesc"}
               \union OnlyIf("bnBias" \in data.held, {MayReturn, "bnBias"})) \union {"handle"})
    BY ScaleReleased DEF uninitializeScaleLayer
  <2> QED BY <1>5, <2>1 DEF Cleaned, Runs, OnlyIf
<1>7. Supplied(data, processScaleLayer(p, data))
  BY <1>5 DEF Supplied, processScaleLayer, Applies, OnlyIf, ScaleObjects
<1> QED BY <1>4, <1>6, <1>7 DEF Runs

\* What the layers that work element by element have in common.
LEMMA ElementwiseLayer ==
  LET made == Callback(<<MayReturn, "handle", MayReturn>> \o ElementwiseDescriptors
                       \o <<MayReturn>>)
      data == Whole(made)
  IN /\ made.steps \in Seq(Step)
     /\ Cleaned(data, ElementwiseDescriptors \o <<"handle">>)
     /\ Supplied(data, {Applies({0, 1}, {"handle", "input1", "input2", "output"})})
<1> DEFINE s1 == <<MayReturn, "handle", MayReturn>>
           s3 == <<MayReturn>>
           s4 == <<"handle">>
           X1 == {MayReturn, "handle", MayReturn}
           X2 == {"input1", "input2", "output"}
           X3 == {MayReturn}
           X4 == {"handle"}
           made == Callback((s1 \o ElementwiseDescriptors) \o s3)
           data == Whole(made)
<1>1. Runs(s1, X1) /\ Runs(ElementwiseDescriptors, X2) /\ Runs(s3, X3) /\ Runs(s4, X4)
  BY CommonSteps, Runs1, Runs3, StepNames DEF ElementwiseDescriptors
<1>2. made.steps = (s1 \o ElementwiseDescriptors) \o s3
  BY DEF Callback
<1>3. Runs(made.steps, (X1 \union X2) \union X3)
  <2> HIDE DEF s1, s3, X1, X2, X3, made
  <2> QED BY <1>1, <1>2, RunsJoin3
<1>4. Runs(ElementwiseDescriptors \o s4, X2 \union X4)
  <2> HIDE DEF s4, X2, X4
  <2> QED BY <1>1, RunsJoin
<1>5. data.held = {"handle", "input1", "input2", "output"}
  BY <1>3 DEF Whole, MayReturn, Runs
<1>6. Cleaned(data, ElementwiseDescriptors \o s4)
  BY <1>4, <1>5 DEF Cleaned, Runs
<1>7. Supplied(data, {Applies({0, 1}, {"handle", "input1", "input2", "output"})})
  BY <1>5 DEF Supplied, Applies
<1> QED BY <1>3, <1>6, <1>7 DEF Runs

\* The sum of two tensors.
LEMMA TensorAdditionLayer ==
  ASSUME NEW p, NEW env
  PROVE  LET made == initializeTensorAddition(p, env)
             data == Whole(made)
         IN /\ made.steps \in Seq(Step)
            /\ Cleaned(data, uninitializeTensorAddition(data))
            /\ Supplied(data, processTensorAddition(p, data))
BY ElementwiseLayer DEF initializeTensorAddition, uninitializeTensorAddition,
   processTensorAddition

\* Their difference.
LEMMA TensorSubtractionLayer ==
  ASSUME NEW p, NEW env
  PROVE  LET made == initializeTensorSub(p, env)
             data == Whole(made)
         IN /\ made.steps \in Seq(Step)
            /\ Cleaned(data, uninitializeTensorSub(data))
            /\ Supplied(data, processTensorSub(p, data))
BY ElementwiseLayer DEF initializeTensorSub, uninitializeTensorSub, processTensorSub

\* Their product.
LEMMA TensorMultiplicationLayer ==
  ASSUME NEW p, NEW env
  PROVE  LET made == initializeTensorMultiply(p, env)
             data == Whole(made)
         IN /\ made.steps \in Seq(Step)
            /\ Cleaned(data, uninitializeTensorMultiply(data))
            /\ Supplied(data, processTensorMultiply(p, data))
BY ElementwiseLayer DEF initializeTensorMultiply, uninitializeTensorMultiply,
   processTensorMultiply

\* The product of two matrices.
LEMMA MatrixMultiplyLayer ==
  ASSUME NEW p, NEW env
  PROVE  LET made == initializeMatrixMultiply(p, env)
             data == Whole(made)
         IN /\ made.steps \in Seq(Step)
            /\ Cleaned(data, uninitializeMatrixMultiply(data))
            /\ Supplied(data, processMatrixMultiply(p, data))
<1> DEFINE made == initializeMatrixMultiply(p, env)
           data == Whole(made)
           s1 == <<MayReturn, "handle", MayReturn>>
           s2 == When(Given(p[2]), <<MayReturn, "copy_kernel", MayReturn>>)
           s3 == <<MayReturn>>
           X1 == {MayReturn, "handle", MayReturn}
           X2 == OnlyIf(Given(p[2]), {MayReturn, "copy_kernel", MayReturn})
           X3 == {MayReturn}
<1>1. Runs(s1, X1) /\ Runs(s3, X3)
  BY CommonSteps
<1>2. Runs(s2, X2)
  BY Runs3, RunsWhen, StepNames
<1>3. made.steps = (s1 \o s2) \o s3
  BY DEF initializeMatrixMultiply, Callback
<1>4. Runs(made.steps, (X1 \union X2) \union X3)
  <2> HIDE DEF s1, s2, s3, X1, X2, X3, made
  <2> QED BY <1>1, <1>2, <1>3, RunsJoin3
<1>5. data.held = {"handle"} \union OnlyIf(Given(p[2]), {"copy_kernel"})
  BY <1>4 DEF Whole, OnlyIf, MayReturn, Runs
<1>6. Runs(uninitializeMatrixMultiply(data), {"copy_kernel", "handle"})
  BY Runs2, StepNames DEF uninitializeMatrixMultiply
<1>7. Cleaned(data, uninitializeMatrixMultiply(data))
  BY <1>5, <1>6 DEF Cleaned, Runs, OnlyIf
<1>8. Supplied(data, processMatrixMultiply(p, data))
  BY <1>5 DEF Supplied, processMatrixMultiply, Applies, OnlyIf
<1> QED BY <1>4, <1>7, <1>8 DEF Runs

\* Convolution.  The fusion plan is made where MIOpen is to fuse both; the
\* descriptor of the activation where nothing is fused.
LEMMA ConvolutionLayer ==
  ASSUME NEW p, NEW env, env.cbr \in BOOLEAN, env.compiles \in BOOLEAN
  PROVE  LET made == initializeConvolutionLayer(p, env)
             data == Whole(made)
         IN /\ made.steps \in Seq(Step)
            /\ Cleaned(data, uninitializeConvolutionLayer(data))
            /\ Supplied(data, processConvolutionLayer(p, data))
<1> DEFINE made == initializeConvolutionLayer(p, env)
           data == Whole(made)
           mode == bias_activ_mode(p, env.cbr)
           planned == mode.fused /\ mode.of = {"bias", "activation"}
           fused == planned /\ env.compiles
           single == ~fused /\ ~mode.fused /\ "activation" \in mode.of
           s1 == <<MayReturn, "handle", MayReturn>>
           s3 == <<"conv_desc", MayReturn>>
           s4 == When(planned, <<"fusePlanDesc", "fusionArgs">>)
           s5 == When(single, <<"activation_desc">>)
           s6 == When(~fused, Workspace(env))
           s7 == <<MayReturn>>
           X1 == {MayReturn, "handle", MayReturn}
           X2 == {"input_desc", "weight_desc", "output_desc", "bias_desc"}
           X3 == {"conv_desc", MayReturn}
           X4 == OnlyIf(planned, {"fusePlanDesc", "fusionArgs"})
           X5 == OnlyIf(single, {"activation_desc"})
           X6 == OnlyIf(~fused, OnlyIf(env.workspace, {MayReturn, "workspace", MayReturn}))
           X7 == {MayReturn}
           X == (((((X1 \union X2) \union X3) \union X4) \union X5) \union X6) \union X7
<1>1. Runs(s1, X1) /\ Runs(Descriptors, X2) /\ Runs(s3, X3) /\ Runs(s7, X7)
  BY CommonSteps, Runs2, StepNames
<1>2. Runs(s4, X4) /\ Runs(s5, X5)
  <2> HIDE DEF planned, single
  <2> QED BY Runs1, Runs2, RunsWhen, StepNames
<1>3. Runs(s6, X6)
  <2>1. Runs(Workspace(env), OnlyIf(env.workspace, {MayReturn, "workspace", MayReturn}))
    BY Runs3, RunsWhen, StepNames DEF Workspace
  <2> HIDE DEF fused
  <2> QED BY <2>1, RunsWhen
<1>4. made.steps = (((((s1 \o Descriptors) \o s3) \o s4) \o s5) \o s6) \o s7
  BY DEF initializeConvolutionLayer, Callback
<1>5. Runs(made.steps, X)
  <2> HIDE DEF s1, s3, s4, s5, s6, s7, X1, X2, X3, X4, X5, X6, X7, made
  <2>1. Runs((((s1 \o Descriptors) \o s3) \o s4) \o s5,
             (((X1 \union X2) \union X3) \union X4) \union X5)
    BY <1>1, <1>2, RunsJoin5
  <2> QED BY <1>1, <1>3, <1>4, <2>1, RunsJoin3
<1>6. data.mode = mode /\ data.fused = fused
  BY DEF Whole, initializeConvolutionLayer, Callback
<1>7. data.held = X \ {MayReturn}
  BY <1>5 DEF Whole, Runs
<1>8. Cleaned(data, uninitializeConvolutionLayer(data))
  <2> DEFINE last == <<"fusePlanDesc", "fusionArgs", "conv_desc", "activation_desc",
                       "input_desc", "output_desc", "weight_desc", "bias_desc", "handle">>
             Y == {"fusePlanDesc", "fusionArgs", "conv_desc", "activation_desc",
                   "input_desc", "output_desc", "weight_desc", "bias_desc", "handle"}
  <2>1. Runs(last, Y)
    BY Runs9, StepNames
  <2>2. uninitializeConvolutionLayer(data) = ReleaseWorkspace(data) \o last
    BY DEF uninitializeConvolutionLayer
  <2>3. data.held \subseteq Y \union {"workspace"}
    BY <1>7 DEF OnlyIf
  <2> HIDE DEF data
  <2> DEFINE Z == OnlyIf("workspace" \in data.held, {MayReturn, "workspace"})
  <2>4. Runs(uninitializeConvolutionLayer(data), Z \union Y)
    <3>1. Runs(ReleaseWorkspace(data), Z)
      BY WorkspaceReleased
    <3> HIDE DEF last, Y, Z
    <3> QED BY <2>1, <2>2, <3>1, RunsJoin
  <2> QED BY <2>3, <2>4 DEF Cleaned, Runs, OnlyIf
<1>9. Supplied(data, processConvolutionLayer(p, data))
  <2>1. /\ {"handle", "input_desc", "weight_desc", "conv_desc", "output_desc", "bias_desc"}
             \subseteq data.held
        /\ planned => {"fusePlanDesc", "fusionArgs"} \subseteq data.held
        /\ single => "activation_desc" \in data.held
    <3> HIDE DEF planned, single
    <3> QED BY <1>7 DEF OnlyIf, MayReturn
  <2>2. CASE data.fused
    <3>1. planned
      BY <1>6, <2>2
    <3> HIDE DEF data, planned, single
    <3> QED BY <2>1, <2>2, <3>1 DEF Supplied, processConvolutionLayer, Applies
  <2>3. CASE ~data.fused
    <3>1. ~data.mode.fused /\ "activation" \in data.mode.of => single
      BY <1>6, <2>3
    <3> HIDE DEF data, planned, single
    <3> QED BY <2>1, <2>3, <3>1 DEF Supplied, processConvolutionLayer, Applies, OnlyIf
  <2> QED BY <2>2, <2>3
<1> QED BY <1>5, <1>8, <1>9 DEF Runs

-------------------------------------------------------------------------------
(***************************************************************************)
(* What a layer is to apply, by its registration.                          *)
(***************************************************************************)
\* The parameters of a kernel that are to be applied.
Inputs(kernel) ==
  {i \in DOMAIN Signature(kernel) :
     /\ Signature(kernel)[i].direction = "input"
     /\ \/ Signature(kernel)[i].kind = "tensor"
        \/ <<kernel, i>> \in {<<"convolution", 5>>, <<"pooling", 9>>}}

\* They are these.
LEMMA InputsOf ==
  /\ Inputs("convolution") \subseteq {0, 1, 2, 5}
  /\ Inputs("fully_connected") \subseteq {0, 1, 2}
  /\ Inputs("pooling") \subseteq {0, 9}
  /\ Inputs("softmax") \subseteq {0}
  /\ Inputs("normalization") \subseteq {0}
  /\ Inputs("activation") \subseteq {0}
  /\ Inputs("deconvolution") \subseteq {0, 1, 2}
  /\ Inputs("batch_normalization") \subseteq {0, 1, 2, 3, 4}
  /\ Inputs("tensor_add") \subseteq {0, 1}
  /\ Inputs("tensor_subtract") \subseteq {0, 1}
  /\ Inputs("tensor_multiply") \subseteq {0, 1}
  /\ Inputs("scale") \subseteq {0, 1, 2}
  /\ Inputs("tensor_matrix_multiply") \subseteq {0, 1, 2}
  /\ Inputs("reshape") \subseteq {0}
<1>1. Inputs("convolution") \subseteq {0, 1, 2, 5}
  <2>1. Signature("convolution") = Listed(publishConvolutionLayer)
    BY DEF Signature, Signatures
  <2>2. Len(publishConvolutionLayer) = 6
    BY DEF publishConvolutionLayer
  <2> QED BY <2>1, <2>2 DEF Inputs, Listed, publishConvolutionLayer, Input, Output, Optional
<1>2. Inputs("fully_connected") \subseteq {0, 1, 2}
  <2>1. Signature("fully_connected") = Listed(publishFullyConnectedLayer)
    BY DEF Signature, Signatures
  <2>2. Len(publishFullyConnectedLayer) = 6
    BY DEF publishFullyConnectedLayer
  <2> QED BY <2>1, <2>2 DEF Inputs, Listed, publishFullyConnectedLayer, Input, Output, Optional
<1>3. Inputs("pooling") \subseteq {0, 9}
  <2>1. Signature("pooling") = Listed(publishPoolingLayer)
    BY DEF Signature, Signatures
  <2>2. Len(publishPoolingLayer) = 10
    BY DEF publishPoolingLayer
  <2> QED BY <2>1, <2>2 DEF Inputs, Listed, publishPoolingLayer, Input, Output, Optional
<1>4. Inputs("softmax") \subseteq {0}
  <2>1. Signature("softmax") = Listed(publishSoftmaxLayer)
    BY DEF Signature, Signatures
  <2>2. Len(publishSoftmaxLayer) = 2
    BY DEF publishSoftmaxLayer
  <2> QED BY <2>1, <2>2 DEF Inputs, Listed, publishSoftmaxLayer, Input, Output, Optional
<1>5. Inputs("normalization") \subseteq {0}
  <2>1. Signature("normalization") = Listed(publishNormalizationLayer)
    BY DEF Signature, Signatures
  <2>2. Len(publishNormalizationLayer) = 7
    BY DEF publishNormalizationLayer
  <2> QED BY <2>1, <2>2 DEF Inputs, Listed, publishNormalizationLayer, Input, Output, Optional
<1>6. Inputs("activation") \subseteq {0}
  <2>1. Signature("activation") = Listed(publishActivationLayer)
    BY DEF Signature, Signatures
  <2>2. Len(publishActivationLayer) = 5
    BY DEF publishActivationLayer
  <2> QED BY <2>1, <2>2 DEF Inputs, Listed, publishActivationLayer, Input, Output, Optional
<1>7. Inputs("deconvolution") \subseteq {0, 1, 2}
  <2>1. Signature("deconvolution") = Listed(publishDeconvolutionLayer)
    BY DEF Signature, Signatures
  <2>2. Len(publishDeconvolutionLayer) = 5
    BY DEF publishDeconvolutionLayer
  <2> QED BY <2>1, <2>2 DEF Inputs, Listed, publishDeconvolutionLayer, Input, Output, Optional
<1>8. Inputs("batch_normalization") \subseteq {0, 1, 2, 3, 4}
  <2>1. Signature("batch_normalization") = Listed(publishBatchNormalizationLayer)
    BY DEF Signature, Signatures
  <2>2. Len(publishBatchNormalizationLayer) = 7
    BY DEF publishBatchNormalizationLayer
  <2> QED BY <2>1, <2>2 DEF Inputs, Listed, publishBatchNormalizationLayer, Input, Output,
             Optional
<1>9. Inputs("tensor_add") \subseteq {0, 1}
  <2>1. Signature("tensor_add") = Listed(publishTensorAdd)
    BY DEF Signature, Signatures
  <2>2. Len(publishTensorAdd) = 4
    BY DEF publishTensorAdd
  <2> QED BY <2>1, <2>2 DEF Inputs, Listed, publishTensorAdd, Input, Output, Optional
<1>10. Inputs("tensor_subtract") \subseteq {0, 1}
  <2>1. Signature("tensor_subtract") = Listed(publishTensorSubtraction)
    BY DEF Signature, Signatures
  <2>2. Len(publishTensorSubtraction) = 4
    BY DEF publishTensorSubtraction
  <2> QED BY <2>1, <2>2 DEF Inputs, Listed, publishTensorSubtraction, Input, Output, Optional
<1>11. Inputs("tensor_multiply") \subseteq {0, 1}
  <2>1. Signature("tensor_multiply") = Listed(publishTensorMultiply)
    BY DEF Signature, Signatures
  <2>2. Len(publishTensorMultiply) = 6
    BY DEF publishTensorMultiply
  <2> QED BY <2>1, <2>2 DEF Inputs, Listed, publishTensorMultiply, Input, Output, Optional
<1>12. Inputs("scale") \subseteq {0, 1, 2}
  <2>1. Signature("scale") = Listed(publishScaleLayer)
    BY DEF Signature, Signatures
  <2>2. Len(publishScaleLayer) = 4
    BY DEF publishScaleLayer
  <2> QED BY <2>1, <2>2 DEF Inputs, Listed, publishScaleLayer, Input, Output, Optional
<1>13. Inputs("tensor_matrix_multiply") \subseteq {0, 1, 2}
  <2>1. Signature("tensor_matrix_multiply") = Listed(publishTensorMatrixMultiply)
    BY DEF Signature, Signatures
  <2>2. Len(publishTensorMatrixMultiply) = 5
    BY DEF publishTensorMatrixMultiply
  <2> QED BY <2>1, <2>2 DEF Inputs, Listed, publishTensorMatrixMultiply, Input, Output, Optional
<1>14. Inputs("reshape") \subseteq {0}
  <2>1. Signature("reshape") = Listed(publishReshapeLayer)
    BY DEF Signature, Signatures
  <2>2. Len(publishReshapeLayer) = 2
    BY DEF publishReshapeLayer
  <2> QED BY <2>1, <2>2 DEF Inputs, Listed, publishReshapeLayer, Input, Output, Optional
<1> QED BY <1>1, <1>2, <1>3, <1>4, <1>5, <1>6, <1>7, <1>8, <1>9, <1>10, <1>11, <1>12, <1>13, <1>14

-------------------------------------------------------------------------------
(***************************************************************************)
(* The same by the names of the kernels.                                   *)
(***************************************************************************)
\* The kernels whose layers can be initialised.
Executable ==
  {"convolution", "fully_connected", "pooling", "softmax", "normalization", "activation",
   "deconvolution", "batch_normalization", "tensor_add", "tensor_subtract",
   "tensor_multiply", "scale", "tensor_matrix_multiply", "reshape"}

\* All other layers are generated, but for the one that is not implemented.
LEMMA NeuralKernelNames ==
  /\ NeuralKernels = (Executable \union {"roi_pooling"}) \union Generating
  /\ Executable \intersect Generating = {}
<1> DEFINE all == LayersToPublish
<1>1. Len(all) = 22
  BY DEF LayersToPublish
<1>2. 1 .. 22 = {1, 2, 3, 4, 5, 6, 7, 8, 9, 10, 11, 12, 13, 14, 15, 16, 17, 18, 19, 20, 21, 22}
  OBVIOUS
<1>3. NeuralKernels
      = {all[1], all[2], all[3], all[4], all[5], all[6], all[7], all[8], all[9], all[10],
         all[11], all[12], all[13], all[14], all[15], all[16], all[17], all[18], all[19],
            all[20], all[21], all[22]}
  <2> HIDE DEF all
  <2> QED BY <1>1, <1>2 DEF NeuralKernels, all
<1>4. /\ NeuralKernels = (Executable \union {"roi_pooling"}) \union Generating
  BY <1>3 DEF LayersToPublish, Executable, Generating
<1>5. Executable \intersect Generating = {}
  BY DEF Executable, Generating
<1> QED BY <1>4, <1>5

\* The layer of no other kernel reads the value of an activation.
SuppliedUnless(kernel, p) == kernel = "pooling" /\ Given(p[9]) /\ p[9].value # 1

\* What is ready has what its execution uses, and its destructor releases it.
LEMMA LayerSound ==
  ASSUME NEW kernel \in Executable, NEW p, NEW env, env.cbr \in BOOLEAN, env.compiles \in BOOLEAN
  PROVE  LET made == Initializer(kernel, p, env)
             data == Whole(made)
         IN /\ made.steps \in Seq(Step)
            /\ Cleaned(data, Destructor(kernel, data))
            /\ ~SuppliedUnless(kernel, p) => Supplied(data, Execution(kernel, p, data))
<1> DEFINE Goal(k, made, data) ==
             /\ made.steps \in Seq(Step)
             /\ Cleaned(data, Destructor(k, data))
             /\ ~SuppliedUnless(k, p) => Supplied(data, Execution(k, p, data))
           Whole1(k) == Whole(Initializer(k, p, env))
<1>1. Goal("convolution", Initializer("convolution", p, env), Whole1("convolution"))
  <2> DEFINE made == initializeConvolutionLayer(p, env)
             data == Whole(made)
  <2>1. Initializer("convolution", p, env) = made
    BY DEF Initializer
  <2>2. /\ Destructor("convolution", data) = uninitializeConvolutionLayer(data)
        /\ Execution("convolution", p, data) = processConvolutionLayer(p, data)
    BY DEF Destructor, Execution, Generating
  <2> QED BY <2>1, <2>2, ConvolutionLayer
<1>2. Goal("fully_connected", Initializer("fully_connected", p, env), Whole1("fully_connected"))
  <2> DEFINE made == initializeFullyConnectedLayer(p, env)
             data == Whole(made)
  <2>1. Initializer("fully_connected", p, env) = made
    BY DEF Initializer
  <2>2. /\ Destructor("fully_connected", data) = uninitializeFullyConnectedLayer(data)
        /\ Execution("fully_connected", p, data) = processFullyConnectedLayer(p, data)
    BY DEF Destructor, Execution, Generating
  <2> QED BY <2>1, <2>2, FullyConnectedLayer
<1>3. Goal("pooling", Initializer("pooling", p, env), Whole1("pooling"))
  <2> DEFINE made == initializePoolingLayer(p, env)
             data == Whole(made)
  <2>1. Initializer("pooling", p, env) = made
    BY DEF Initializer
  <2>2. /\ Destructor("pooling", data) = uninitializePoolingLayer(data)
        /\ Execution("pooling", p, data) = processPoolingLayer(p, data)
    BY DEF Destructor, Execution, Generating
  <2> QED BY <2>1, <2>2, PoolingLayer DEF SuppliedUnless
<1>4. Goal("softmax", Initializer("softmax", p, env), Whole1("softmax"))
  <2> DEFINE made == initializeSoftmaxLayer(p, env)
             data == Whole(made)
  <2>1. Initializer("softmax", p, env) = made
    BY DEF Initializer
  <2>2. /\ Destructor("softmax", data) = uninitializeSoftmaxLayer(data)
        /\ Execution("softmax", p, data) = processSoftmaxLayer(p, data)
    BY DEF Destructor, Execution, Generating
  <2> QED BY <2>1, <2>2, SoftmaxLayer
<1>5. Goal("normalization", Initializer("normalization", p, env), Whole1("normalization"))
  <2> DEFINE made == initializeNormalizationLayer(p, env)
             data == Whole(made)
  <2>1. Initializer("normalization", p, env) = made
    BY DEF Initializer
  <2>2. /\ Destructor("normalization", data) = uninitializeNormalizationLayer(data)
        /\ Execution("normalization", p, data) = processNormalizationLayer(p, data)
    BY DEF Destructor, Execution, Generating
  <2> QED BY <2>1, <2>2, NormalizationLayer
<1>6. Goal("activation", Initializer("activation", p, env), Whole1("activation"))
  <2> DEFINE made == initializeActivationLayer(p, env)
             data == Whole(made)
  <2>1. Initializer("activation", p, env) = made
    BY DEF Initializer
  <2>2. /\ Destructor("activation", data) = uninitializeActivationLayer(data)
        /\ Execution("activation", p, data) = processActivationLayer(p, data)
    BY DEF Destructor, Execution, Generating
  <2> QED BY <2>1, <2>2, ActivationLayer
<1>7. Goal("deconvolution", Initializer("deconvolution", p, env), Whole1("deconvolution"))
  <2> DEFINE made == initializeDeconvolutionLayer(p, env)
             data == Whole(made)
  <2>1. Initializer("deconvolution", p, env) = made
    BY DEF Initializer
  <2>2. /\ Destructor("deconvolution", data) = uninitializeDeconvolutionLayer(data)
        /\ Execution("deconvolution", p, data) = processDeconvolutionLayer(p, data)
    BY DEF Destructor, Execution, Generating
  <2> QED BY <2>1, <2>2, DeconvolutionLayer
<1>8. Goal("batch_normalization", Initializer("batch_normalization", p, env),
      Whole1("batch_normalization"))
  <2> DEFINE made == initializeBatchNormalizationLayer(p, env)
             data == Whole(made)
  <2>1. Initializer("batch_normalization", p, env) = made
    BY DEF Initializer
  <2>2. /\ Destructor("batch_normalization", data) = uninitializeBatchNormalizationLayer(data)
        /\ Execution("batch_normalization", p, data) = processBatchNormalizationLayer(p, data)
    BY DEF Destructor, Execution, Generating
  <2> QED BY <2>1, <2>2, BatchNormalizationLayer
<1>9. Goal("tensor_add", Initializer("tensor_add", p, env), Whole1("tensor_add"))
  <2> DEFINE made == initializeTensorAddition(p, env)
             data == Whole(made)
  <2>1. Initializer("tensor_add", p, env) = made
    BY DEF Initializer
  <2>2. /\ Destructor("tensor_add", data) = uninitializeTensorAddition(data)
        /\ Execution("tensor_add", p, data) = processTensorAddition(p, data)
    BY DEF Destructor, Execution, Generating
  <2> QED BY <2>1, <2>2, TensorAdditionLayer
<1>10. Goal("tensor_subtract", Initializer("tensor_subtract", p, env), Whole1("tensor_subtract"))
  <2> DEFINE made == initializeTensorSub(p, env)
             data == Whole(made)
  <2>1. Initializer("tensor_subtract", p, env) = made
    BY DEF Initializer
  <2>2. /\ Destructor("tensor_subtract", data) = uninitializeTensorSub(data)
        /\ Execution("tensor_subtract", p, data) = processTensorSub(p, data)
    BY DEF Destructor, Execution, Generating
  <2> QED BY <2>1, <2>2, TensorSubtractionLayer
<1>11. Goal("tensor_multiply", Initializer("tensor_multiply", p, env), Whole1("tensor_multiply"))
  <2> DEFINE made == initializeTensorMultiply(p, env)
             data == Whole(made)
  <2>1. Initializer("tensor_multiply", p, env) = made
    BY DEF Initializer
  <2>2. /\ Destructor("tensor_multiply", data) = uninitializeTensorMultiply(data)
        /\ Execution("tensor_multiply", p, data) = processTensorMultiply(p, data)
    BY DEF Destructor, Execution, Generating
  <2> QED BY <2>1, <2>2, TensorMultiplicationLayer
<1>12. Goal("scale", Initializer("scale", p, env), Whole1("scale"))
  <2> DEFINE made == initializeScaleLayer(p, env)
             data == Whole(made)
  <2>1. Initializer("scale", p, env) = made
    BY DEF Initializer
  <2>2. /\ Destructor("scale", data) = uninitializeScaleLayer(data)
        /\ Execution("scale", p, data) = processScaleLayer(p, data)
    BY DEF Destructor, Execution, Generating
  <2> QED BY <2>1, <2>2, ScaleLayer
<1>13. Goal("tensor_matrix_multiply", Initializer("tensor_matrix_multiply", p, env),
       Whole1("tensor_matrix_multiply"))
  <2> DEFINE made == initializeMatrixMultiply(p, env)
             data == Whole(made)
  <2>1. Initializer("tensor_matrix_multiply", p, env) = made
    BY DEF Initializer
  <2>2. /\ Destructor("tensor_matrix_multiply", data) = uninitializeMatrixMultiply(data)
        /\ Execution("tensor_matrix_multiply", p, data) = processMatrixMultiply(p, data)
    BY DEF Destructor, Execution, Generating
  <2> QED BY <2>1, <2>2, MatrixMultiplyLayer
<1>14. Goal("reshape", Initializer("reshape", p, env), Whole1("reshape"))
  <2> DEFINE made == initializeReshapeLayer(p, env)
             data == Whole(made)
  <2>1. Initializer("reshape", p, env) = made
    BY DEF Initializer
  <2>2. /\ Destructor("reshape", data) = uninitializeReshapeLayer(data)
        /\ Execution("reshape", p, data) = processReshapeLayer(p, data)
    BY DEF Destructor, Execution, Generating
  <2> QED BY <2>1, <2>2, ReshapeLayer
<1> QED BY <1>1, <1>2, <1>3, <1>4, <1>5, <1>6, <1>7, <1>8, <1>9, <1>10, <1>11, <1>12, <1>13,
           <1>14 DEF Executable

\* What a set of calls applies.
Applied(calls) == UNION {call.applies : call \in calls}

\* A single call.
LEMMA AppliedOne ==
  ASSUME NEW X, NEW O
  PROVE  Applied({Applies(X, O)}) = X
BY DEF Applied, Applies

\* A call that is only made for an optional argument.
LEMMA AppliedMore ==
  ASSUME NEW calls, NEW c, NEW X, NEW O
  PROVE  Applied(calls \union OnlyIf(c, {Applies(X, O)})) = Applied(calls) \union OnlyIf(c, X)
<1>1. CASE c
  <2>1. OnlyIf(c, {Applies(X, O)}) = {Applies(X, O)} /\ OnlyIf(c, X) = X
    BY <1>1 DEF OnlyIf
  <2>2. Applied(calls \union {Applies(X, O)}) = Applied(calls) \union Applied({Applies(X, O)})
    BY DEF Applied
  <2> QED BY <2>1, <2>2, AppliedOne
<1>2. CASE ~c
  <2>1. OnlyIf(c, {Applies(X, O)}) = {} /\ OnlyIf(c, X) = {}
    BY <1>2 DEF OnlyIf
  <2> QED BY <2>1
<1> QED BY <1>1, <1>2

\* A layer that is ready applies all that it was given, but for a convolution that
\* was to be fused and was not.
LEMMA LayerApplies ==
  ASSUME NEW l, l.kernel \in Executable, DOMAIN l.p = DOMAIN Signature(l.kernel),
         NEW env, env.cbr \in BOOLEAN, env.compiles \in BOOLEAN,
         l.data = Whole(Initializer(l.kernel, l.p, env))
  PROVE  \/ Meant(l) \subseteq UNION {call.applies : call \in Execution(l.kernel, l.p, l.data)}
         \/ l.kernel = "convolution" /\ l.data.mode.fused /\ ~l.data.fused
<1> DEFINE applied == Applied(Execution(l.kernel, l.p, l.data))
<1>1. Meant(l) \subseteq {i \in Inputs(l.kernel) : Given(l.p[i])}
  BY DEF Meant, Inputs
<1>2. Meant(l) \subseteq applied \/ l.kernel = "convolution"
  <2>1. CASE l.kernel = "fully_connected"
    <3>1. Execution("fully_connected", l.p, l.data) = processFullyConnectedLayer(l.p, l.data)
      BY DEF Execution, Generating
    <3>2. Applied(processFullyConnectedLayer(l.p, l.data)) = {0, 1}
          \union OnlyIf(Given(l.p[2]), {2})
      <4> DEFINE X == {0, 1}
                 Y == {2}
                 O == {"handle", "input_desc", "weight_desc", "convdesc", "output_desc"}
                 Q == {"handle", "bias_desc", "output_desc"}
      <4>1. processFullyConnectedLayer(l.p, l.data) = {Applies(X, O)}
            \union OnlyIf(Given(l.p[2]), {Applies(Y, Q)})
        BY DEF processFullyConnectedLayer
      <4> HIDE DEF O, Q
      <4>2. Applied({Applies(X, O)}) = X
        <5> HIDE DEF X
        <5> QED BY AppliedOne
      <4> SUFFICES Applied({Applies(X, O)} \union OnlyIf(Given(l.p[2]), {Applies(Y, Q)})) = X
                   \union OnlyIf(Given(l.p[2]), Y)
        BY <4>1
      <4> HIDE DEF X, Y
      <4> QED BY <4>2, AppliedMore
    <3>3. Inputs("fully_connected") \subseteq {0, 1, 2}
      BY InputsOf
    <3> QED BY <1>1, <2>1, <3>1, <3>2, <3>3 DEF OnlyIf
  <2>2. CASE l.kernel = "pooling"
    <3>1. Execution("pooling", l.p, l.data) = processPoolingLayer(l.p, l.data)
      BY DEF Execution, Generating
    <3>2. Applied(processPoolingLayer(l.p, l.data)) = {0} \union OnlyIf(Given(l.p[9]), {9})
      <4> DEFINE X == {0}
                 Y == {9}
                 O == {"handle", "pool_desc", "input_desc", "output_desc"}
                 Q == {"handle", "activation_desc", "output_desc"}
      <4>1. processPoolingLayer(l.p, l.data) = {Applies(X, O)}
            \union OnlyIf(Given(l.p[9]), {Applies(Y, Q)})
        BY DEF processPoolingLayer
      <4> HIDE DEF O, Q
      <4>2. Applied({Applies(X, O)}) = X
        <5> HIDE DEF X
        <5> QED BY AppliedOne
      <4> SUFFICES Applied({Applies(X, O)} \union OnlyIf(Given(l.p[9]), {Applies(Y, Q)})) = X
                   \union OnlyIf(Given(l.p[9]), Y)
        BY <4>1
      <4> HIDE DEF X, Y
      <4> QED BY <4>2, AppliedMore
    <3>3. Inputs("pooling") \subseteq {0, 9}
      BY InputsOf
    <3> QED BY <1>1, <2>2, <3>1, <3>2, <3>3 DEF OnlyIf
  <2>3. CASE l.kernel = "softmax"
    <3>1. Execution("softmax", l.p, l.data) = processSoftmaxLayer(l.p, l.data)
      BY DEF Execution, Generating
    <3>2. Applied(processSoftmaxLayer(l.p, l.data)) = {0}
      BY AppliedOne DEF processSoftmaxLayer
    <3>3. Inputs("softmax") \subseteq {0}
      BY InputsOf
    <3> QED BY <1>1, <2>3, <3>1, <3>2, <3>3 DEF OnlyIf
  <2>4. CASE l.kernel = "normalization"
    <3>1. Execution("normalization", l.p, l.data) = processNormalizationLayer(l.p, l.data)
      BY DEF Execution, Generating
    <3>2. Applied(processNormalizationLayer(l.p, l.data)) = {0}
      BY AppliedOne DEF processNormalizationLayer
    <3>3. Inputs("normalization") \subseteq {0}
      BY InputsOf
    <3> QED BY <1>1, <2>4, <3>1, <3>2, <3>3 DEF OnlyIf
  <2>5. CASE l.kernel = "activation"
    <3>1. Execution("activation", l.p, l.data) = processActivationLayer(l.p, l.data)
      BY DEF Execution, Generating
    <3>2. Applied(processActivationLayer(l.p, l.data)) = {0}
      BY AppliedOne DEF processActivationLayer
    <3>3. Inputs("activation") \subseteq {0}
      BY InputsOf
    <3> QED BY <1>1, <2>5, <3>1, <3>2, <3>3 DEF OnlyIf
  <2>6. CASE l.kernel = "deconvolution"
    <3>1. Execution("deconvolution", l.p, l.data) = processDeconvolutionLayer(l.p, l.data)
      BY DEF Execution, Generating
    <3>2. Applied(processDeconvolutionLayer(l.p, l.data)) = {0, 1}
          \union OnlyIf(Given(l.p[2]), {2})
      <4> DEFINE X == {0, 1}
                 Y == {2}
                 O == {"handle", "input_desc", "weight_desc", "deconv_desc", "output_desc"}
                 Q == {"handle", "bias_desc", "output_desc"}
      <4>1. processDeconvolutionLayer(l.p, l.data) = {Applies(X, O)}
            \union OnlyIf(Given(l.p[2]), {Applies(Y, Q)})
        BY DEF processDeconvolutionLayer
      <4> HIDE DEF O, Q
      <4>2. Applied({Applies(X, O)}) = X
        <5> HIDE DEF X
        <5> QED BY AppliedOne
      <4> SUFFICES Applied({Applies(X, O)} \union OnlyIf(Given(l.p[2]), {Applies(Y, Q)})) = X
                   \union OnlyIf(Given(l.p[2]), Y)
        BY <4>1
      <4> HIDE DEF X, Y
      <4> QED BY <4>2, AppliedMore
    <3>3. Inputs("deconvolution") \subseteq {0, 1, 2}
      BY InputsOf
    <3> QED BY <1>1, <2>6, <3>1, <3>2, <3>3 DEF OnlyIf
  <2>7. CASE l.kernel = "batch_normalization"
    <3>1. Execution("batch_normalization", l.p, l.data)
          = processBatchNormalizationLayer(l.p, l.data)
      BY DEF Execution, Generating
    <3>2. Applied(processBatchNormalizationLayer(l.p, l.data)) = {0, 1, 2, 3, 4}
      BY AppliedOne DEF processBatchNormalizationLayer
    <3>3. Inputs("batch_normalization") \subseteq {0, 1, 2, 3, 4}
      BY InputsOf
    <3> QED BY <1>1, <2>7, <3>1, <3>2, <3>3 DEF OnlyIf
  <2>8. CASE l.kernel = "tensor_add"
    <3>1. Execution("tensor_add", l.p, l.data) = processTensorAddition(l.p, l.data)
      BY DEF Execution, Generating
    <3>2. Applied(processTensorAddition(l.p, l.data)) = {0, 1}
      BY AppliedOne DEF processTensorAddition
    <3>3. Inputs("tensor_add") \subseteq {0, 1}
      BY InputsOf
    <3> QED BY <1>1, <2>8, <3>1, <3>2, <3>3 DEF OnlyIf
  <2>9. CASE l.kernel = "tensor_subtract"
    <3>1. Execution("tensor_subtract", l.p, l.data) = processTensorSub(l.p, l.data)
      BY DEF Execution, Generating
    <3>2. Applied(processTensorSub(l.p, l.data)) = {0, 1}
      BY AppliedOne DEF processTensorSub
    <3>3. Inputs("tensor_subtract") \subseteq {0, 1}
      BY InputsOf
    <3> QED BY <1>1, <2>9, <3>1, <3>2, <3>3 DEF OnlyIf
  <2>10. CASE l.kernel = "tensor_multiply"
    <3>1. Execution("tensor_multiply", l.p, l.data) = processTensorMultiply(l.p, l.data)
      BY DEF Execution, Generating
    <3>2. Applied(processTensorMultiply(l.p, l.data)) = {0, 1}
      BY AppliedOne DEF processTensorMultiply
    <3>3. Inputs("tensor_multiply") \subseteq {0, 1}
      BY InputsOf
    <3> QED BY <1>1, <2>10, <3>1, <3>2, <3>3 DEF OnlyIf
  <2>11. CASE l.kernel = "scale"
    <3>1. Execution("scale", l.p, l.data) = processScaleLayer(l.p, l.data)
      BY DEF Execution, Generating
    <3>2. Applied(processScaleLayer(l.p, l.data)) = {0, 1, 2}
      BY AppliedOne DEF processScaleLayer
    <3>3. Inputs("scale") \subseteq {0, 1, 2}
      BY InputsOf
    <3> QED BY <1>1, <2>11, <3>1, <3>2, <3>3 DEF OnlyIf
  <2>12. CASE l.kernel = "tensor_matrix_multiply"
    <3>1. Execution("tensor_matrix_multiply", l.p, l.data) = processMatrixMultiply(l.p, l.data)
      BY DEF Execution, Generating
    <3>2. Applied(processMatrixMultiply(l.p, l.data)) = {0, 1} \union OnlyIf(Given(l.p[2]), {2})
      <4> DEFINE X == {0, 1}
                 Y == {2}
                 O == {"handle"}
                 Q == {"handle", "copy_kernel"}
      <4>1. processMatrixMultiply(l.p, l.data) = {Applies(X, O)}
            \union OnlyIf(Given(l.p[2]), {Applies(Y, Q)})
        BY DEF processMatrixMultiply
      <4> HIDE DEF O, Q
      <4>2. Applied({Applies(X, O)}) = X
        <5> HIDE DEF X
        <5> QED BY AppliedOne
      <4> SUFFICES Applied({Applies(X, O)} \union OnlyIf(Given(l.p[2]), {Applies(Y, Q)})) = X
                   \union OnlyIf(Given(l.p[2]), Y)
        BY <4>1
      <4> HIDE DEF X, Y
      <4> QED BY <4>2, AppliedMore
    <3>3. Inputs("tensor_matrix_multiply") \subseteq {0, 1, 2}
      BY InputsOf
    <3> QED BY <1>1, <2>12, <3>1, <3>2, <3>3 DEF OnlyIf
  <2>13. CASE l.kernel = "reshape"
    <3>1. Execution("reshape", l.p, l.data) = processReshapeLayer(l.p, l.data)
      BY DEF Execution, Generating
    <3>2. Applied(processReshapeLayer(l.p, l.data)) = {0}
      BY AppliedOne DEF processReshapeLayer
    <3>3. Inputs("reshape") \subseteq {0}
      BY InputsOf
    <3> QED BY <1>1, <2>13, <3>1, <3>2, <3>3 DEF OnlyIf
  <2> QED BY <2>1, <2>2, <2>3, <2>4, <2>5, <2>6, <2>7, <2>8, <2>9, <2>10, <2>11, <2>12, <2>13
             DEF Executable
<1>3. CASE l.kernel = "convolution"
  <2> DEFINE mode == bias_activ_mode(l.p, env.cbr)
             bias == ~l.data.mode.fused /\ "bias" \in l.data.mode.of
             activation == ~l.data.mode.fused /\ "activation" \in l.data.mode.of
  <2>1. Execution("convolution", l.p, l.data) = processConvolutionLayer(l.p, l.data)
    BY DEF Execution, Generating
  <2>2. Initializer("convolution", l.p, env) = initializeConvolutionLayer(l.p, env)
    BY DEF Initializer
  <2>3. l.data.mode = mode
    <3>1. Whole(initializeConvolutionLayer(l.p, env)).mode = mode
      BY DEF initializeConvolutionLayer, Callback, Whole
    <3> QED BY <1>3, <2>2, <3>1
  <2>4. /\ Given(l.p[2]) => "bias" \in mode.of
        /\ Given(l.p[5]) => "activation" \in mode.of
    BY DEF bias_activ_mode, OnlyIf
  <2>5. Inputs("convolution") \subseteq {0, 1, 2, 5}
    BY InputsOf
  <2>6. CASE l.data.fused
    <3>1. Applied(processConvolutionLayer(l.p, l.data)) = {0, 1, 2, 5}
      <4> DEFINE X == {0, 1, 2, 5}
                 O == {"handle", "fusePlanDesc", "fusionArgs", "input_desc", "output_desc"}
      <4>1. processConvolutionLayer(l.p, l.data) = {Applies(X, O)}
        BY <2>6 DEF processConvolutionLayer
      <4> HIDE DEF O
      <4> SUFFICES Applied({Applies(X, O)}) = X
        BY <4>1
      <4> HIDE DEF X
      <4> QED BY AppliedOne
    <3> QED BY <1>1, <1>3, <2>1, <2>5, <3>1 DEF Applied
  <2>7. CASE ~l.data.fused /\ ~l.data.mode.fused
    <3>1. Applied(processConvolutionLayer(l.p, l.data)) =
            ({0, 1} \union OnlyIf(bias, {2})) \union OnlyIf(activation, {5})
      <4> DEFINE X == {0, 1}
                 Y == {2}
                 Z == {5}
                 O == {"handle", "input_desc", "weight_desc", "conv_desc", "output_desc"}
                 Q == {"handle", "bias_desc", "output_desc"}
                 R == {"handle", "activation_desc", "output_desc"}
                 first == {Applies(X, O)}
                 second == first \union OnlyIf(bias, {Applies(Y, Q)})
      <4>1. processConvolutionLayer(l.p, l.data)
              = second \union OnlyIf(activation, {Applies(Z, R)})
        BY <2>7 DEF processConvolutionLayer
      <4> HIDE DEF O, Q, R, bias, activation
      <4>2. Applied(first) = X
        <5> HIDE DEF X
        <5> QED BY AppliedOne
      <4> SUFFICES Applied(second \union OnlyIf(activation, {Applies(Z, R)}))
                     = (X \union OnlyIf(bias, Y)) \union OnlyIf(activation, Z)
        BY <4>1
      <4> HIDE DEF X, Y, Z, first
      <4>3. Applied(second) = X \union OnlyIf(bias, Y)
        BY <4>2, AppliedMore
      <4> HIDE DEF second
      <4> QED BY <4>3, AppliedMore
    <3>2. {0, 1, 2, 5} \intersect Meant(l) \subseteq Applied(processConvolutionLayer(l.p, l.data))
      BY <1>1, <2>3, <2>4, <2>7, <3>1 DEF OnlyIf
    <3> QED BY <1>1, <1>3, <2>1, <2>5, <3>2 DEF Applied
  <2>8. CASE ~l.data.fused /\ l.data.mode.fused
    BY <1>3, <2>8
  <2> QED BY <2>6, <2>7, <2>8
<1> QED BY <1>2, <1>3 DEF Applied

\* Dimensions never read are those of a fully connected layer's output.
LEMMA LayerGarbage ==
  ASSUME NEW kernel \in Executable, NEW p, NEW env, Whole(Initializer(kernel, p, env)).garbage
  PROVE  kernel = "fully_connected" /\ Len(p[5].dims) < 4
<1>1. kernel # "convolution"
  BY DEF Initializer, initializeConvolutionLayer, Callback, Whole
<1>2. CASE kernel = "fully_connected"
  BY <1>2 DEF Initializer, initializeFullyConnectedLayer, Callback, Whole
<1>3. kernel # "pooling"
  BY DEF Initializer, initializePoolingLayer, Callback, Whole
<1>4. kernel # "softmax"
  BY DEF Initializer, initializeSoftmaxLayer, Callback, Whole
<1>5. kernel # "normalization"
  BY DEF Initializer, initializeNormalizationLayer, Callback, Whole
<1>6. kernel # "activation"
  BY DEF Initializer, initializeActivationLayer, Callback, Whole
<1>7. kernel # "deconvolution"
  BY DEF Initializer, initializeDeconvolutionLayer, Callback, Whole
<1>8. kernel # "batch_normalization"
  BY DEF Initializer, initializeBatchNormalizationLayer, Callback, Whole
<1>9. kernel # "tensor_add"
  BY DEF Initializer, initializeTensorAddition, Callback, Whole
<1>10. kernel # "tensor_subtract"
  BY DEF Initializer, initializeTensorSub, Callback, Whole
<1>11. kernel # "tensor_multiply"
  BY DEF Initializer, initializeTensorMultiply, Callback, Whole
<1>12. kernel # "scale"
  BY DEF Initializer, initializeScaleLayer, Callback, Whole
<1>13. kernel # "tensor_matrix_multiply"
  BY DEF Initializer, initializeMatrixMultiply, Callback, Whole
<1>14. kernel # "reshape"
  BY DEF Initializer, initializeReshapeLayer, Callback, Whole
<1> QED BY <1>1, <1>2, <1>3, <1>4, <1>5, <1>6, <1>7, <1>8, <1>9, <1>10, <1>11, <1>12, <1>13,
           <1>14 DEF Executable

\* A graph that verifies: what the validators of pooling and of fully connected
\* layers have made sure of.
Checked(l) ==
  /\ l.kernel = "pooling" /\ Given(l.p[9]) => l.p[9].type = "INT32" /\ l.p[9].value \in {0, 1}
  /\ l.kernel = "fully_connected" => Len(l.p[5].dims) \in {2, 4}

\* What a validator may pass, it has checked.
LEMMA PassChecked == ASSUME NEW l, MayPass(l) PROVE Checked(l)
<1>1. PICK verdict \in Validate(l.kernel, l.p) : verdict.accepted
  BY DEF MayPass, AcceptsLayer
<1>2. ASSUME l.kernel = "pooling", Given(l.p[9])
      PROVE  l.p[9].type = "INT32" /\ l.p[9].value \in {0, 1}
  <2>1. verdict \in validatePoolingLayer(l.p)
    BY <1>1, <1>2 DEF Validate
  <2> QED BY <1>1, <1>2, <2>1 DEF validatePoolingLayer, Verdict
<1>3. ASSUME l.kernel = "fully_connected"
      PROVE  Len(l.p[5].dims) \in {2, 4}
  <2>1. verdict \in validateFullyConnectedLayer(l.p)
    BY <1>1, <1>3 DEF Validate
  <2>2. IsFloat(l.p[5], {2, 4})
    BY <1>1, <2>1 DEF validateFullyConnectedLayer, Verdict
  <2> QED BY <2>2 DEF IsFloat
<1> QED BY <1>2, <1>3 DEF Checked

-------------------------------------------------------------------------------
(***************************************************************************)
(* The inductive invariant.                                                *)
(***************************************************************************)
\* A sequence, as a function.
IsSeq(s) ==
  /\ Len(s) \in Nat
  /\ DOMAIN s = 1 .. Len(s)
  /\ s = [m \in 1 .. Len(s) |-> s[m]]

\* A layer has the fields it is made with, and so has its local data; a layer
\* that is generated has no data.
Shape(l) ==
  /\ l = [kernel |-> l.kernel, by |-> l.by, fits |-> l.fits, p |-> l.p, data |-> l.data,
          ready |-> l.ready, broken |-> l.broken, applied |-> l.applied]
  /\ l.data = [held |-> l.data.held, mode |-> l.data.mode, fused |-> l.data.fused,
               garbage |-> l.data.garbage]
  /\ l.ready \in BOOLEAN /\ l.broken \in BOOLEAN
  /\ l.kernel \in Generating => l.data = NoObjects

\* The activation of a pooling layer is a scalar.
PoolingActivation(kernel, p) ==
  kernel = "pooling" /\ Given(p[9]) => p[9] = Number(p[9].type, p[9].value)

\* Its kernel was registered, and takes its arguments.
Node(l, kernels) ==
  /\ l.kernel \in kernels
  /\ DOMAIN l.p = DOMAIN Signature(l.kernel)
  /\ PoolingActivation(l.kernel, l.p)

\* It has all that its initializer makes.
Initialised(l, mode) ==
  l.kernel \in Generating
  \/ /\ l.kernel \in Executable
     /\ \E workspace, compiles \in BOOLEAN :
          l.data = Whole(Initializer(l.kernel, l.p, [cbr |-> mode, workspace |-> workspace,
                                                     compiles |-> compiles]))

\* Either it holds nothing, or it is ready and complete, or a callback of it has failed.
Phase(l, mode) ==
  \/ ~l.ready /\ ~l.broken /\ l.data.held = {}
  \/ l.ready /\ ~l.broken /\ Initialised(l, mode)
  \/ ~l.ready /\ l.broken

\* The invariant of one layer.
LayerOK(l, kernels, mode) == Shape(l) /\ Node(l, kernels) /\ Phase(l, mode)

\* The layers that use the graph's handle.
Holders(ls) == {n \in 1 .. Len(ls) : "handle" \in ls[n].data.held}

\* The framework initialises one layer after another.
InitialisedUpTo(ls, k) ==
  \A n \in 1 .. Len(ls) : (ls[n].ready <=> n <= k) /\ ~ls[n].broken

\* The states of the graph.
Statuses == {"loading", "building", "refused", "initialising", "failed", "verified",
             "processed", "exited", "releasing", "released"}

\* Which of its layers are initialised, and checked.
GraphOK(ls, s) ==
  /\ s = "loading" => Len(ls) = 0
  /\ s \in {"building", "refused"} => InitialisedUpTo(ls, 0)
  /\ s = "initialising" => \E k \in Nat : InitialisedUpTo(ls, k)
  /\ s \in {"verified", "processed"} => \A n \in 1 .. Len(ls) : ls[n].ready
  /\ s \in {"initialising", "verified"} => \A n \in 1 .. Len(ls) : Checked(ls[n])
  /\ s = "released" => \A n \in 1 .. Len(ls) : ~ls[n].ready

\* The inductive invariant.
LayersInv ==
  /\ IsSeq(layers)
  /\ registered \subseteq NeuralKernels
  /\ cbr \in BOOLEAN
  /\ status \in Statuses
  /\ \A n \in 1 .. Len(layers) : LayerOK(layers[n], registered, cbr)
  /\ handle = Cardinality(Holders(layers))
  /\ GraphOK(layers, status)
  /\ VerifiedLayersRun
  /\ LayersApplied

-------------------------------------------------------------------------------
(***************************************************************************)
(* Sequences of layers, and the users of the handle among them.            *)
(***************************************************************************)
\* A function on 1 .. k is a sequence.
LEMMA FunctionIsSeq ==
  ASSUME NEW k \in Nat, NEW s, s = [m \in 1 .. k |-> s[m]]
  PROVE  Len(s) = k /\ IsSeq(s)
<1> DEFINE S == {s[m] : m \in 1 .. k}
<1>1. s \in [1 .. k -> S]
  OBVIOUS
<1>2. s \in Seq(S)
  BY <1>1
<1>3. Len(s) = k
  BY <1>1, <1>2
<1> QED BY <1>1, <1>3 DEF IsSeq

\* One more layer.
LEMMA Appended ==
  ASSUME NEW s, IsSeq(s), NEW e
  PROVE  /\ IsSeq(Append(s, e))
         /\ Len(Append(s, e)) = Len(s) + 1
         /\ \A n \in 1 .. Len(s) : Append(s, e)[n] = s[n]
         /\ Append(s, e)[Len(s) + 1] = e
<1> DEFINE S == {s[m] : m \in 1 .. Len(s)} \union {e}
           t == Append(s, e)
<1>1. s \in Seq(S)
  <2>1. s \in [1 .. Len(s) -> S] /\ Len(s) \in Nat
    BY DEF IsSeq
  <2> QED BY <2>1
<1>2. t \in Seq(S) /\ Len(t) = Len(s) + 1
  BY <1>1
<1>3. (\A n \in 1 .. Len(s) : t[n] = s[n]) /\ t[Len(s) + 1] = e
  BY <1>1
<1>4. IsSeq(t)
  <2> HIDE DEF t
  <2> QED BY <1>2 DEF IsSeq
<1> QED BY <1>2, <1>3, <1>4

\* The users of the handle can be counted.
LEMMA HoldersCounted ==
  ASSUME NEW ls, IsSeq(ls)
  PROVE  IsFiniteSet(Holders(ls)) /\ Cardinality(Holders(ls)) \in 0 .. Len(ls)
<1>1. Len(ls) \in Nat /\ IsFiniteSet(1 .. Len(ls)) /\ Cardinality(1 .. Len(ls)) = Len(ls)
  BY FS_Interval DEF IsSeq
<1>2. Holders(ls) \subseteq 1 .. Len(ls)
  BY DEF Holders
<1>3. IsFiniteSet(Holders(ls)) /\ Cardinality(Holders(ls)) <= Len(ls)
  BY <1>1, <1>2, FS_Subset
<1> QED BY <1>1, <1>3, FS_CardinalityType

\* One layer is changed: what becomes of the sequence, and of the users.
Changed(ls, n, l, ns) == ns = [ls EXCEPT ![n] = l]

\* The other layers are as they were, and the handle has at most one user more or less.
LEMMA OneChanged ==
  ASSUME NEW ls, IsSeq(ls), NEW n \in 1 .. Len(ls), NEW l,
         NEW ns, Changed(ls, n, l, ns)
  PROVE  /\ IsSeq(ns) /\ Len(ns) = Len(ls)
         /\ \A m \in 1 .. Len(ls) : m # n => ns[m] = ls[m]
         /\ ns[n] = l
         /\ Holders(ns) = IF "handle" \in l.data.held THEN Holders(ls) \union {n}
                          ELSE Holders(ls) \ {n}
<1>1. DOMAIN ls = 1 .. Len(ls) /\ Len(ls) \in Nat
  BY DEF IsSeq
<1>2. ns = [m \in 1 .. Len(ls) |-> ns[m]]
  BY <1>1 DEF Changed
<1>3. IsSeq(ns) /\ Len(ns) = Len(ls)
  BY <1>1, <1>2, FunctionIsSeq
<1>4. (\A m \in 1 .. Len(ls) : m # n => ns[m] = ls[m]) /\ ns[n] = l
  BY <1>1 DEF Changed
<1>5. \A m \in 1 .. Len(ls) : m \in Holders(ns) <=> "handle" \in ns[m].data.held
  BY <1>3 DEF Holders
<1>6. \A m \in 1 .. Len(ls) : m \in Holders(ls) <=> "handle" \in ls[m].data.held
  BY DEF Holders
<1>7. Holders(ns) \subseteq 1 .. Len(ls) /\ Holders(ls) \subseteq 1 .. Len(ls)
  BY <1>3 DEF Holders
<1>8. Holders(ns) = IF "handle" \in l.data.held THEN Holders(ls) \union {n}
                    ELSE Holders(ls) \ {n}
  BY <1>4, <1>5, <1>6, <1>7
<1> QED BY <1>3, <1>4, <1>8

\* A layer some fields of which are set keeps the others.
Returned(l, data, ready, broken) == [l EXCEPT !.data = data, !.ready = ready, !.broken = broken]

\* The fields of the record, one by one.
LEMMA FieldsSet ==
  ASSUME NEW l, Shape(l)
  PROVE  /\ \A ready : [l EXCEPT !.ready = ready] =
              [kernel |-> l.kernel, by |-> l.by, fits |-> l.fits, p |-> l.p, data |-> l.data,
               ready |-> ready, broken |-> l.broken, applied |-> l.applied]
         /\ \A data, ready, broken :
              Returned(l, data, ready, broken) =
              [kernel |-> l.kernel, by |-> l.by, fits |-> l.fits, p |-> l.p, data |-> data,
               ready |-> ready, broken |-> broken, applied |-> l.applied]
         /\ \A applied : [l EXCEPT !.applied = applied] =
              [kernel |-> l.kernel, by |-> l.by, fits |-> l.fits, p |-> l.p, data |-> l.data,
               ready |-> l.ready, broken |-> l.broken, applied |-> applied]
<1> DEFINE k == l.kernel
           b == l.by
           f == l.fits
           p == l.p
           d == l.data
           r == l.ready
           e == l.broken
           a == l.applied
<1>1. l = [kernel |-> k, by |-> b, fits |-> f, p |-> p, data |-> d, ready |-> r, broken |-> e,
           applied |-> a]
  BY DEF Shape
<1> HIDE DEF k, b, f, p, d, r, e, a
<1>2. ASSUME NEW ready
      PROVE  [l EXCEPT !.ready = ready] =
             [kernel |-> k, by |-> b, fits |-> f, p |-> p, data |-> d,
                                    ready |-> ready, broken |-> e, applied |-> a]
  BY <1>1
<1>3. ASSUME NEW data, NEW ready, NEW broken
      PROVE  Returned(l, data, ready, broken)
        = [kernel |-> k, by |-> b, fits |-> f, p |-> p, data |-> data, ready |-> ready,
           broken |-> broken, applied |-> a]
  <2> DEFINE x == [l EXCEPT !.data = data]
             y == [x EXCEPT !.ready = ready]
  <2>1. x = [kernel |-> k, by |-> b, fits |-> f, p |-> p, data |-> data, ready |-> r,
             broken |-> e, applied |-> a]
    BY <1>1
  <2> HIDE DEF x
  <2>2. y = [kernel |-> k, by |-> b, fits |-> f, p |-> p, data |-> data, ready |-> ready,
             broken |-> e, applied |-> a]
    BY <2>1
  <2> HIDE DEF y
  <2>3. [y EXCEPT !.broken = broken]
          = [kernel |-> k, by |-> b, fits |-> f, p |-> p, data |-> data, ready |-> ready,
             broken |-> broken, applied |-> a]
    BY <2>2
  <2> QED BY <2>3 DEF x, y, Returned
<1>4. ASSUME NEW applied
      PROVE  [l EXCEPT !.applied = applied] =
             [kernel |-> k, by |-> b, fits |-> f, p |-> p, data |-> d,
                                        ready |-> r, broken |-> e, applied |-> applied]
  BY <1>1
<1> QED BY <1>2, <1>3, <1>4 DEF k, b, f, p, d, r, e, a

-------------------------------------------------------------------------------
(***************************************************************************)
(* The invariant holds at first, and every action keeps it.                *)
(***************************************************************************)
\* At first nothing is loaded.
LEMMA LayersInitInv == ASSUME LayerInit PROVE LayersInv
<1>1. IsSeq(layers) /\ Len(layers) = 0
  BY FunctionIsSeq DEF LayerInit, IsSeq
<1>2. Holders(layers) = {}
  BY <1>1 DEF Holders
<1>3. GraphOK(layers, status)
  BY <1>1 DEF LayerInit, GraphOK
<1>4. registered \subseteq NeuralKernels /\ cbr \in BOOLEAN /\ status \in Statuses
  BY DEF LayerInit, Statuses
<1>5. VerifiedLayersRun /\ LayersApplied
  BY DEF LayerInit, VerifiedLayersRun, LayersApplied
<1>6. handle = Cardinality(Holders(layers))
  BY <1>2, FS_EmptySet DEF LayerInit
<1> QED BY <1>1, <1>3, <1>4, <1>5, <1>6 DEF LayersInv

\* Publishing registers a part of the kernels.
LEMMA PublishInv == ASSUME LayersInv, nnPublishKernels PROVE LayersInv'
<1>1. status = "loading" /\ status' = "building" /\ layers' = layers /\ cbr' = cbr
      /\ handle' = handle
  BY DEF nnPublishKernels
<1>2. Len(layers) = 0
  BY <1>1 DEF LayersInv, GraphOK
<1>3. GraphOK(layers', status')
  BY <1>1, <1>2 DEF GraphOK, InitialisedUpTo
<1>4. registered' \subseteq NeuralKernels
  <2> DEFINE all == LayersToPublish
  <2>1. Len(all) \in Nat
    BY DEF LayersToPublish
  <2>2. PICK n \in {n \in 1 .. Len(all) : all[n] \in UnreliableLayers} \union {Len(all) + 1} :
          registered' = {all[m] : m \in 1 .. n - 1}
    BY DEF nnPublishKernels
  <2> HIDE DEF all
  <2>3. 1 .. n - 1 \subseteq 1 .. Len(all)
    BY <2>1, <2>2
  <2> QED BY <2>2, <2>3 DEF NeuralKernels, all
<1>5. (VerifiedLayersRun /\ LayersApplied)'
  BY <1>1 DEF VerifiedLayersRun, LayersApplied
<1> QED BY <1>1, <1>2, <1>3, <1>4, <1>5 DEF LayersInv, Statuses

\* A new node has neither objects nor been initialised.
LEMMA AddInv ==
  ASSUME LayersInv, NEW kernel \in registered, NEW by, NEW fits, NEW p, status = "building",
         DOMAIN p = DOMAIN Signature(kernel), PoolingActivation(kernel, p),
         AddLayer(kernel, by, fits, p)
  PROVE  LayersInv'
<1> DEFINE l == [kernel |-> kernel, by |-> by, fits |-> fits, p |-> p, data |-> NoObjects,
                 ready |-> FALSE, broken |-> FALSE, applied |-> {}]
<1>1. layers' = Append(layers, l) /\ status' = "building" /\ registered' = registered
      /\ cbr' = cbr /\ handle' = handle
  BY DEF AddLayer
<1>2. LayerOK(l, registered, cbr)
  <2>1. Shape(l)
    BY DEF Shape, NoObjects
  <2>2. Node(l, registered)
    BY DEF Node
  <2>3. Phase(l, cbr)
    BY DEF Phase, NoObjects
  <2> QED BY <2>1, <2>2, <2>3 DEF LayerOK
<1>3. ~l.ready /\ ~l.broken /\ "handle" \notin l.data.held
  BY DEF NoObjects
<1> HIDE DEF l
<1>4. IsSeq(layers)
  BY DEF LayersInv
<1>5. /\ IsSeq(layers')
      /\ Len(layers') = Len(layers) + 1
      /\ \A n \in 1 .. Len(layers) : layers'[n] = layers[n]
      /\ layers'[Len(layers) + 1] = l
  BY <1>1, <1>4, Appended
<1>6. Len(layers) \in Nat
  BY <1>4 DEF IsSeq
<1>7. \A n \in 1 .. Len(layers') : n \in 1 .. Len(layers) \/ n = Len(layers) + 1
  BY <1>5, <1>6
<1>8. \A n \in 1 .. Len(layers') : LayerOK(layers'[n], registered', cbr')
  BY <1>1, <1>2, <1>5, <1>7 DEF LayersInv
<1>9. Holders(layers') = Holders(layers)
  BY <1>3, <1>5, <1>6, <1>7 DEF Holders
<1>10. GraphOK(layers', status')
  <2>1. InitialisedUpTo(layers, 0)
    BY DEF LayersInv, GraphOK
  <2>2. InitialisedUpTo(layers', 0)
    BY <1>3, <1>5, <1>6, <1>7, <2>1 DEF InitialisedUpTo
  <2> QED BY <1>1, <2>2 DEF GraphOK
<1>11. (VerifiedLayersRun /\ LayersApplied)'
  BY <1>1 DEF VerifiedLayersRun, LayersApplied
<1> QED BY <1>1, <1>5, <1>8, <1>9, <1>10, <1>11 DEF LayersInv

\* Parameter 9 of pooling is the activation.
LEMMA PoolingSignature ==
  /\ DOMAIN Signature("pooling") = 0 .. 9
  /\ Signature("pooling")[9].kind = "scalar"
<1>1. Signature("pooling") = Listed(publishPoolingLayer)
  BY DEF Signature, Signatures
<1>2. Len(publishPoolingLayer) = 10
  BY DEF publishPoolingLayer
<1>3. publishPoolingLayer[10].kind = "scalar"
  BY DEF publishPoolingLayer, Input, Output, Optional
<1> QED BY <1>1, <1>2, <1>3 DEF Listed

\* What fits a kernel, and what replaces it, is as its registration says.
Suits(kernel, p) ==
  /\ DOMAIN p = DOMAIN Signature(kernel)
  /\ kernel = "pooling" /\ Given(p[9]) => WellFormed(p[9]) /\ p[9].kind = "scalar"

\* So the activation of a pooling layer is a scalar.
LEMMA Suited == ASSUME NEW kernel, NEW p, Suits(kernel, p) PROVE PoolingActivation(kernel, p)
BY DEF Suits, PoolingActivation, WellFormed

\* The arguments a user would give.
LEMMA FittingSuits ==
  ASSUME NEW kernel \in NeuralKernels, NEW p \in Fitting[kernel] PROVE Suits(kernel, p)
<1>1. /\ DOMAIN p = DOMAIN Signature(kernel)
      /\ \A i \in DOMAIN p :
           WellFormed(p[i]) /\ (Given(p[i]) => p[i].kind \in Kinds(Signature(kernel)[i]))
  BY LayerAssumption
<1>2. ASSUME kernel = "pooling", Given(p[9])
      PROVE  WellFormed(p[9]) /\ p[9].kind = "scalar"
  <2>1. 9 \in DOMAIN p
    BY <1>1, <1>2, PoolingSignature
  <2>2. WellFormed(p[9]) /\ p[9].kind \in Kinds(Signature("pooling")[9])
    BY <1>1, <1>2, <2>1
  <2> QED BY <2>2, PoolingSignature DEF Kinds
<1> QED BY <1>1, <1>2 DEF Suits

\* Arguments one of which is replaced.
LEMMA ReplacedSuits ==
  ASSUME NEW kernel, NEW p, Suits(kernel, p), NEW i \in DOMAIN p, NEW a \in OddArguments,
         Replaceable(kernel, p, i, a)
  PROVE  Suits(kernel, [p EXCEPT ![i] = a])
<1>1. WellFormed(a)
  BY LayerAssumption
<1>2. ~Given(a) \/ a.kind \in Kinds(Signature(kernel)[i])
  BY DEF Replaceable
<1>3. CASE kernel = "pooling"
  <2> DEFINE q == [p EXCEPT ![i] = a]
  <2>1. DOMAIN p = 0 .. 9 /\ DOMAIN q = DOMAIN p
    BY <1>3, PoolingSignature DEF Suits
  <2>2. i = 9 => q[9] = a
    BY <2>1
  <2>3. i # 9 => q[9] = p[9]
    BY <2>1
  <2>4. CASE i = 9
    BY <1>1, <1>2, <1>3, <2>1, <2>2, <2>4, PoolingSignature DEF Suits, Kinds
  <2>5. CASE i # 9
    BY <1>3, <2>1, <2>3, <2>5 DEF Suits
  <2> QED BY <2>4, <2>5
<1>4. CASE kernel # "pooling"
  BY <1>4 DEF Suits
<1> QED BY <1>3, <1>4

\* What a constructor makes of them.
LEMMA MadeSuits ==
  ASSUME NEW kernel, NEW constructor, NEW p, Suits(kernel, p)
  PROVE  Suits(kernel, MadeBy(constructor, p))
<1> DEFINE made == Listed(constructor.made)
           q == MadeBy(constructor, p)
<1>1. DOMAIN q = DOMAIN p
  BY DEF MadeBy
<1>2. CASE kernel = "pooling"
  <2>1. 9 \in DOMAIN p
    BY <1>2, PoolingSignature DEF Suits
  <2>2. q[9] = IF 9 \notin DOMAIN made THEN Nothing
               ELSE IF made[9] = Passed THEN p[9] ELSE Number(made[9], p[9].value)
    BY <2>1 DEF MadeBy
  <2> HIDE DEF made, q
  <2>3. ~Given(Nothing)
    BY DEF Given, Nothing
  <2>4. \A type : WellFormed(Number(type, p[9].value)) /\ Number(type, p[9].value).kind = "scalar"
    BY DEF WellFormed, Number
  <2>5. Given(q[9]) => WellFormed(q[9]) /\ q[9].kind = "scalar"
    <3>1. Given(p[9]) => WellFormed(p[9]) /\ p[9].kind = "scalar"
      BY <1>2 DEF Suits
    <3> HIDE DEF Passed, Nothing, Number
    <3> QED BY <2>2, <2>3, <2>4, <3>1
  <2> QED BY <1>1, <1>2, <2>5 DEF Suits, q
<1>3. CASE kernel # "pooling"
  BY <1>1, <1>3 DEF Suits
<1> QED BY <1>2, <1>3

\* A constructor makes its node from what fits its kernel.
LEMMA ConstructInv == ASSUME LayersInv, ConstructLayer PROVE LayersInv'
<1>1. PICK constructor \in {c \in LayerConstructors : MayAdd(c.kernel)} :
        \E p \in Fitting[constructor.kernel] :
          \/ AddLayer(constructor.kernel, "constructor", TRUE, MadeBy(constructor, p))
          \/ /\ layers = <<>>
             /\ \E n \in 1 .. Len(constructor.made), a \in OddArguments :
                  /\ constructor.made[n] = Passed
                  /\ Replaceable(constructor.kernel, p, n - 1, a)
                  /\ AddLayer(constructor.kernel, "constructor", FALSE,
                              MadeBy(constructor, [p EXCEPT ![n - 1] = a]))
  BY DEF ConstructLayer
<1> DEFINE kernel == constructor.kernel
<1>2. kernel \in registered /\ status = "building" /\ kernel \in NeuralKernels
  BY <1>1 DEF MayAdd, LayersInv
<1>3. PICK p \in Fitting[kernel] :
        \/ AddLayer(kernel, "constructor", TRUE, MadeBy(constructor, p))
        \/ \E n \in 1 .. Len(constructor.made), a \in OddArguments :
             /\ Replaceable(kernel, p, n - 1, a)
             /\ AddLayer(kernel, "constructor", FALSE,
                         MadeBy(constructor, [p EXCEPT ![n - 1] = a]))
  BY <1>1
<1>4. Suits(kernel, p)
  BY <1>2, <1>3, FittingSuits
<1> HIDE DEF kernel
<1>5. CASE AddLayer(kernel, "constructor", TRUE, MadeBy(constructor, p))
  <2>1. Suits(kernel, MadeBy(constructor, p))
    BY <1>4, MadeSuits
  <2> QED BY <1>2, <1>5, <2>1, AddInv, Suited DEF Suits
<1>6. ASSUME NEW n \in 1 .. Len(constructor.made), NEW a \in OddArguments,
             Replaceable(kernel, p, n - 1, a),
             AddLayer(kernel, "constructor", FALSE,
                      MadeBy(constructor, [p EXCEPT ![n - 1] = a]))
      PROVE  LayersInv'
  <2>1. Suits(kernel, [p EXCEPT ![n - 1] = a])
    <3>1. CASE n - 1 \in DOMAIN p
      BY <1>4, <1>6, <3>1, ReplacedSuits
    <3>2. CASE n - 1 \notin DOMAIN p
      <4>1. \A i \in DOMAIN p : [p EXCEPT ![n - 1] = a][i] = p[i]
        BY <3>2
      <4>2. DOMAIN [p EXCEPT ![n - 1] = a] = DOMAIN p
        OBVIOUS
      <4> QED BY <1>4, <4>1, <4>2, PoolingSignature DEF Suits
    <3> QED BY <3>1, <3>2
  <2>2. Suits(kernel, MadeBy(constructor, [p EXCEPT ![n - 1] = a]))
    BY <2>1, MadeSuits
  <2> QED BY <1>2, <1>6, <2>2, AddInv, Suited DEF Suits
<1> QED BY <1>3, <1>5, <1>6

\* A node made by hand has the arguments it is given.
LEMMA CreateInv == ASSUME LayersInv, CreateLayer PROVE LayersInv'
<1>1. PICK kernel \in {k \in NeuralKernels : MayAdd(k)} : \E p \in Fitting[kernel] :
        \/ AddLayer(kernel, "hand", TRUE, p)
        \/ /\ layers = <<>>
           /\ \E i \in DOMAIN p, a \in OddArguments :
                /\ Replaceable(kernel, p, i, a)
                /\ AddLayer(kernel, "hand", FALSE, [p EXCEPT ![i] = a])
  BY DEF CreateLayer
<1>2. kernel \in registered /\ status = "building" /\ kernel \in NeuralKernels
  BY <1>1 DEF MayAdd
<1>3. PICK p \in Fitting[kernel] :
        \/ AddLayer(kernel, "hand", TRUE, p)
        \/ \E i \in DOMAIN p, a \in OddArguments :
             /\ Replaceable(kernel, p, i, a)
             /\ AddLayer(kernel, "hand", FALSE, [p EXCEPT ![i] = a])
  BY <1>1
<1>4. Suits(kernel, p)
  BY <1>2, <1>3, FittingSuits
<1>5. CASE AddLayer(kernel, "hand", TRUE, p)
  BY <1>2, <1>4, <1>5, AddInv, Suited DEF Suits
<1>6. ASSUME NEW i \in DOMAIN p, NEW a \in OddArguments, Replaceable(kernel, p, i, a),
             AddLayer(kernel, "hand", FALSE, [p EXCEPT ![i] = a])
      PROVE  LayersInv'
  <2>1. Suits(kernel, [p EXCEPT ![i] = a])
    BY <1>4, <1>6, ReplacedSuits
  <2> QED BY <1>2, <1>6, <2>1, AddInv, Suited DEF Suits
<1> QED BY <1>3, <1>5, <1>6

\* A graph verifies only when the validators accept all its layers.
LEMMA VerifyInv == ASSUME LayersInv, VerifyLayers PROVE LayersInv'
<1>1. status = "building" /\ UNCHANGED <<registered, cbr, layers, handle>>
      /\ \/ (\A n \in 1 .. Len(layers) : MayPass(layers[n])) /\ status' = "initialising"
         \/ status' = "refused"
  BY DEF VerifyLayers
<1>2. InitialisedUpTo(layers, 0)
  BY <1>1 DEF LayersInv, GraphOK
<1>3. GraphOK(layers', status')
  <2>1. CASE status' = "refused"
    BY <1>1, <1>2, <2>1 DEF GraphOK
  <2>2. CASE (\A n \in 1 .. Len(layers) : MayPass(layers[n])) /\ status' = "initialising"
    <3>1. \A n \in 1 .. Len(layers) : Checked(layers[n])
      BY <2>2, PassChecked
    <3> QED BY <1>1, <1>2, <2>2, <3>1 DEF GraphOK
  <2> QED BY <1>1, <2>1, <2>2
<1>4. (VerifiedLayersRun /\ LayersApplied)'
  BY <1>1 DEF VerifiedLayersRun, LayersApplied
<1> QED BY <1>1, <1>3, <1>4 DEF LayersInv, Statuses

\* Releasing the graph, and its end.
LEMMA ReleaseInv == ASSUME LayersInv, ReleaseLayers \/ LayersGone PROVE LayersInv'
<1>1. UNCHANGED <<registered, cbr, layers, handle>>
      /\ \/ status' = "releasing"
         \/ status' = "released" /\ \A n \in DOMAIN layers : ~layers[n].ready
  BY DEF ReleaseLayers, LayersGone
<1>2. DOMAIN layers = 1 .. Len(layers)
  BY DEF LayersInv, IsSeq
<1>3. GraphOK(layers', status')
  BY <1>1, <1>2 DEF GraphOK
<1>4. (VerifiedLayersRun /\ LayersApplied)'
  BY <1>1 DEF VerifiedLayersRun, LayersApplied
<1> QED BY <1>1, <1>3, <1>4 DEF LayersInv, Statuses

\* The layer the framework initialises next is the first that is not ready.
LEMMA NextOne ==
  ASSUME LayersInv, NEW n \in 1 .. Len(layers), NextToInitialize(n)
  PROVE  /\ InitialisedUpTo(layers, n - 1)
         /\ ~layers[n].ready /\ ~layers[n].broken /\ layers[n].data.held = {}
         /\ \A m \in 1 .. Len(layers) : Checked(layers[m])
<1> DEFINE Ready == {m \in 1 .. Len(layers) : layers[m].ready}
<1>1. status = "initialising" /\ n = 1 + Cardinality(Ready)
  BY DEF NextToInitialize
<1>2. PICK k \in Nat : InitialisedUpTo(layers, k)
  BY <1>1 DEF LayersInv, GraphOK
<1>3. Len(layers) \in Nat
  BY DEF LayersInv, IsSeq
<1>4. n - 1 \in Nat /\ n - 1 < Len(layers)
  BY <1>3
<1>5. k = n - 1
  <2>1. CASE k <= Len(layers)
    <3>1. Ready = 1 .. k
      BY <1>2, <1>3, <2>1 DEF InitialisedUpTo
    <3>2. Cardinality(1 .. k) = IF 1 > k THEN 0 ELSE k - 1 + 1
      BY <1>2, FS_Interval
    <3> HIDE DEF Ready
    <3> QED BY <1>1, <1>2, <3>1, <3>2
  <2>2. CASE k > Len(layers)
    <3>1. Ready = 1 .. Len(layers)
      BY <1>2, <1>3, <2>2 DEF InitialisedUpTo
    <3>2. Cardinality(1 .. Len(layers)) = IF 1 > Len(layers) THEN 0 ELSE Len(layers) - 1 + 1
      BY <1>3, FS_Interval
    <3> HIDE DEF Ready
    <3> QED BY <1>1, <1>3, <1>4, <3>1, <3>2
  <2> QED BY <1>2, <1>3, <2>1, <2>2
<1>6. ~layers[n].ready /\ ~layers[n].broken
  BY <1>2, <1>3, <1>5 DEF InitialisedUpTo
<1>7. layers[n].data.held = {}
  BY <1>6 DEF LayersInv, LayerOK, Phase
<1>8. \A m \in 1 .. Len(layers) : Checked(layers[m])
  BY <1>1 DEF LayersInv, GraphOK
<1> QED BY <1>2, <1>5, <1>6, <1>7, <1>8

\* Once one more layer is ready, so are all, or the next one is to be initialised.
LEMMA OneMoreReady ==
  ASSUME LayersInv, NEW n \in 1 .. Len(layers), NextToInitialize(n),
         IsSeq(layers'), Len(layers') = Len(layers),
         \A m \in 1 .. Len(layers) : m # n => layers'[m] = layers[m],
         layers'[n].kernel = layers[n].kernel, layers'[n].p = layers[n].p,
         layers'[n].ready, ~layers'[n].broken, status' = After(n)
  PROVE  GraphOK(layers', status')
<1>1. /\ InitialisedUpTo(layers, n - 1)
      /\ \A m \in 1 .. Len(layers) : Checked(layers[m])
  BY NextOne
<1>2. n \in Nat /\ Len(layers) \in Nat /\ n <= Len(layers)
  BY DEF LayersInv, IsSeq
<1>3. InitialisedUpTo(layers', n)
  <2> SUFFICES ASSUME NEW m \in 1 .. Len(layers)
               PROVE  (layers'[m].ready <=> m <= n) /\ ~layers'[m].broken
    BY DEF InitialisedUpTo
  <2>1. CASE m = n
    BY <1>2, <2>1
  <2>2. CASE m # n
    <3>1. (layers[m].ready <=> m <= n - 1) /\ ~layers[m].broken
      BY <1>1 DEF InitialisedUpTo
    <3> QED BY <1>2, <2>2, <3>1
  <2> QED BY <2>1, <2>2
<1>4. \A m \in 1 .. Len(layers') : Checked(layers'[m])
  BY <1>1 DEF Checked
<1>5. CASE n = Len(layers)
  <2>1. \A m \in 1 .. Len(layers') : layers'[m].ready
    BY <1>2, <1>3, <1>5 DEF InitialisedUpTo
  <2> QED BY <1>4, <1>5, <2>1 DEF GraphOK, After
<1>6. CASE n # Len(layers)
  BY <1>2, <1>3, <1>4, <1>6 DEF GraphOK, After
<1> QED BY <1>5, <1>6

\* A kernel is generated when it compiles.
LEMMA GenerateInv ==
  ASSUME LayersInv, NEW n \in 1 .. Len(layers), GenerateKernel(n) PROVE LayersInv'
<1>1. NextToInitialize(n) /\ layers[n].kernel \in Generating
      /\ registered' = registered /\ cbr' = cbr /\ handle' = handle
      /\ \/ layers' = [layers EXCEPT ![n].ready = TRUE] /\ status' = After(n)
         \/ layers' = layers /\ status' = "failed"
  BY DEF GenerateKernel
<1>2. CASE layers' = layers /\ status' = "failed"
  <2>1. GraphOK(layers', status')
    BY <1>2 DEF GraphOK
  <2>2. (VerifiedLayersRun /\ LayersApplied)'
    BY <1>2 DEF VerifiedLayersRun, LayersApplied
  <2> QED BY <1>1, <1>2, <2>1, <2>2 DEF LayersInv, Statuses
<1>3. CASE layers' = [layers EXCEPT ![n].ready = TRUE] /\ status' = After(n)
  <2> DEFINE l == layers[n]
             made == [l EXCEPT !.ready = TRUE]
  <2>1. IsSeq(layers) /\ LayerOK(l, registered, cbr)
    BY DEF LayersInv
  <2>2. Changed(layers, n, made, layers')
    BY <1>3 DEF Changed
  <2>3. /\ ~l.ready /\ ~l.broken
    BY <1>1, NextOne
  <2>4. /\ made = [kernel |-> l.kernel, by |-> l.by, fits |-> l.fits, p |-> l.p,
                   data |-> l.data, ready |-> TRUE, broken |-> l.broken,
                   applied |-> l.applied]
    <3> HIDE DEF l
    <3> QED BY <2>1, FieldsSet DEF LayerOK
  <2> HIDE DEF made
  <2>5. LayerOK(made, registered, cbr)
    <3> HIDE DEF l
    <3>1. Shape(made)
      BY <2>1, <2>4 DEF LayerOK, Shape
    <3>2. Node(made, registered)
      BY <2>1, <2>4 DEF LayerOK, Node
    <3>3. Phase(made, cbr)
      BY <1>1, <2>3, <2>4 DEF Phase, Initialised, l
    <3> QED BY <3>1, <3>2, <3>3 DEF LayerOK
  <2>6. /\ IsSeq(layers') /\ Len(layers') = Len(layers)
        /\ \A m \in 1 .. Len(layers) : m # n => layers'[m] = layers[m]
        /\ layers'[n] = made
    BY <2>1, <2>2, OneChanged
  <2>7. \A m \in 1 .. Len(layers') : LayerOK(layers'[m], registered', cbr')
    BY <1>1, <2>5, <2>6 DEF LayersInv
  <2>8. Holders(layers') = Holders(layers)
    BY <2>4, <2>6 DEF Holders
  <2>9. GraphOK(layers', status')
    <3>1. /\ layers'[n].kernel = layers[n].kernel /\ layers'[n].p = layers[n].p
          /\ layers'[n].ready /\ ~layers'[n].broken
      BY <2>3, <2>4, <2>6
    <3> HIDE DEF l
    <3> QED BY <1>1, <1>3, <2>6, <3>1, OneMoreReady
  <2>10. status' \in {"verified", "initialising"}
    BY <1>3 DEF After
  <2>11. (VerifiedLayersRun /\ LayersApplied)'
    BY <2>10 DEF VerifiedLayersRun, LayersApplied
  <2> QED BY <1>1, <2>6, <2>7, <2>8, <2>9, <2>10, <2>11 DEF LayersInv, Statuses
<1> QED BY <1>1, <1>2, <1>3

\* A layer is changed by a callback of its own: what is left to show.
LEMMA CallbackInv ==
  ASSUME LayersInv, NEW n \in 1 .. Len(layers), NEW made,
         Changed(layers, n, made, layers'), registered' = registered, cbr' = cbr,
         LayerOK(made, registered, cbr),
         handle' = Cardinality(Holders(layers')),
         status' \in Statuses \ {"exited", "processed"}, GraphOK(layers', status')
  PROVE  LayersInv'
<1>1. IsSeq(layers)
  BY DEF LayersInv
<1>2. /\ IsSeq(layers') /\ Len(layers') = Len(layers)
      /\ \A m \in 1 .. Len(layers) : m # n => layers'[m] = layers[m]
      /\ layers'[n] = made
  BY <1>1, OneChanged
<1>3. \A m \in 1 .. Len(layers') : LayerOK(layers'[m], registered', cbr')
  BY <1>2 DEF LayersInv
<1>4. (VerifiedLayersRun /\ LayersApplied)'
  BY DEF VerifiedLayersRun, LayersApplied
<1> QED BY <1>2, <1>3, <1>4 DEF LayersInv

\* The steps of an initializer that runs to its end are what a layer holds.
LEMMA RunsToItsEnd ==
  ASSUME NEW made, made.steps \in Seq(Step), Len(made.steps) + 1 \in Returns(made.steps)
  PROVE  Touched(made.steps, Len(made.steps) + 1) = StepsOf(made.steps) \ {MayReturn}
BY TouchedAll DEF Runs

\* The layer that is not implemented never runs to its end.
LEMMA NeverReady ==
  ASSUME NEW p, NEW env
  PROVE  LET made == Initializer("roi_pooling", p, env)
         IN Len(made.steps) + 1 \notin Returns(made.steps)
<1> DEFINE made == Initializer("roi_pooling", p, env)
<1>1. made.steps = <<NotImplemented>>
  BY DEF Initializer, initializeROIPoolingLayer, Callback
<1> HIDE DEF made
<1>2. Len(made.steps) = 1 /\ made.steps[1] = NotImplemented
  BY <1>1
<1>3. NotImplemented \in {made.steps[m] : m \in 1 .. Len(made.steps)}
  BY <1>2
<1> QED BY <1>2, <1>3 DEF Returns, OnlyIf, made

\* An initializer either makes all its layer needs, or fails.
LEMMA InitializeInv ==
  ASSUME LayersInv, NEW n \in 1 .. Len(layers), InitializeLayer(n) PROVE LayersInv'
<1> DEFINE l == layers[n]
           Made(workspace, compiles) ==
             Initializer(l.kernel, l.p, [cbr |-> cbr, workspace |-> workspace,
                                         compiles |-> compiles])
<1>1. /\ NextToInitialize(n) /\ l.kernel \notin Generating
      /\ registered' = registered /\ cbr' = cbr
  BY DEF InitializeLayer
<1>2. PICK workspace \in BOOLEAN, compiles \in BOOLEAN :
        \E last \in Returns(Made(workspace, compiles).steps) :
          LET made == Made(workspace, compiles)
              success == Len(made.steps) + 1
              created == Touched(made.steps, last)
          IN /\ layers' = [layers EXCEPT
                   ![n].data = [held |-> created, mode |-> made.mode, fused |-> made.fused,
                                garbage |-> made.garbage],
                   ![n].ready = (last = success),
                   ![n].broken = (last # success)]
             /\ handle' = handle + Cardinality(created \intersect {"handle"})
             /\ status' = IF last = success THEN After(n) ELSE "failed"
  BY DEF InitializeLayer
<1> DEFINE env == [cbr |-> cbr, workspace |-> workspace, compiles |-> compiles]
           begun == Made(workspace, compiles)
           success == Len(begun.steps) + 1
<1>3. PICK last \in Returns(begun.steps) :
        /\ layers' = [layers EXCEPT
             ![n].data = [held |-> Touched(begun.steps, last), mode |-> begun.mode,
                          fused |-> begun.fused, garbage |-> begun.garbage],
             ![n].ready = (last = success),
             ![n].broken = (last # success)]
        /\ handle' = handle + Cardinality(Touched(begun.steps, last) \intersect {"handle"})
        /\ status' = IF last = success THEN After(n) ELSE "failed"
  BY <1>2
<1> DEFINE created == Touched(begun.steps, last)
           data == [held |-> created, mode |-> begun.mode, fused |-> begun.fused,
                    garbage |-> begun.garbage]
           done == last = success
           failed == last # success
           made == Returned(l, data, done, failed)
<1>4. IsSeq(layers) /\ Len(layers) \in Nat /\ DOMAIN layers = 1 .. Len(layers)
  BY DEF LayersInv, IsSeq
<1>5. Changed(layers, n, made, layers')
  <2> HIDE DEF data, success
  <2> QED BY <1>3, <1>4 DEF Changed, Returned, data
<1>6. LayerOK(l, registered, cbr) /\ ~l.ready /\ ~l.broken /\ l.data.held = {}
  BY <1>1, NextOne DEF LayersInv
<1>7. made = [kernel |-> l.kernel, by |-> l.by, fits |-> l.fits, p |-> l.p, data |-> data,
              ready |-> done, broken |-> failed, applied |-> l.applied]
  <2> HIDE DEF data, l, done, failed
  <2> QED BY <1>6, FieldsSet DEF LayerOK
<1>8. last = success => Initialised(made, cbr)
  <2> SUFFICES ASSUME last = success PROVE Initialised(made, cbr)
    OBVIOUS
  <2>1. l.kernel \in NeuralKernels
    BY <1>6 DEF LayerOK, Node, LayersInv
  <2>2. l.kernel # "roi_pooling"
    BY <1>3, NeverReady
  <2>3. l.kernel \in Executable
    BY <1>1, <2>1, <2>2, NeuralKernelNames
  <2>4. env.cbr \in BOOLEAN /\ env.compiles \in BOOLEAN
    BY <1>2 DEF LayersInv
  <2>5. begun.steps \in Seq(Step)
    BY <2>3, <2>4, LayerSound
  <2>6. data = Whole(begun)
    <3> HIDE DEF begun
    <3> QED BY <1>3, <2>5, RunsToItsEnd DEF Whole
  <2> HIDE DEF data
  <2>7. made.data = data /\ made.kernel = l.kernel /\ made.p = l.p
    <3> HIDE DEF made, l, success
    <3> QED BY <1>7
  <2> HIDE DEF made
  <2> QED BY <1>2, <2>3, <2>6, <2>7 DEF Initialised
<1>9. LayerOK(made, registered, cbr)
  <2> HIDE DEF made, l, success, begun
  <2>1. Shape(made)
    BY <1>1, <1>7 DEF Shape, l
  <2>2. Node(made, registered)
    BY <1>6, <1>7 DEF LayerOK, Node
  <2>3. Phase(made, cbr)
    BY <1>7, <1>8 DEF Phase
  <2> QED BY <2>1, <2>2, <2>3 DEF LayerOK
<1>10. /\ IsSeq(layers') /\ Len(layers') = Len(layers)
       /\ \A m \in 1 .. Len(layers) : m # n => layers'[m] = layers[m]
       /\ layers'[n] = made
       /\ Holders(layers') = IF "handle" \in made.data.held THEN Holders(layers) \union {n}
                             ELSE Holders(layers) \ {n}
  <2> HIDE DEF made
  <2> QED BY <1>4, <1>5, OneChanged
<1>11. made.data.held = created
  <2> HIDE DEF made, l, success, created, begun
  <2> QED BY <1>7
<1>12. handle' = Cardinality(Holders(layers'))
  <2>1. n \notin Holders(layers)
    BY <1>6 DEF Holders
  <2>2. IsFiniteSet(Holders(layers)) /\ Cardinality(Holders(layers)) \in Nat
    BY <1>4, HoldersCounted
  <2>3. handle = Cardinality(Holders(layers))
    BY DEF LayersInv
  <2> DEFINE used == created \intersect {"handle"}
  <2>0. handle' = handle + Cardinality(used)
    BY <1>3
  <2> HIDE DEF made, created
  <2>4. CASE "handle" \in created
    <3>1. used = {"handle"}
      BY <2>4
    <3>2. Cardinality({"handle"}) = 1
      BY FS_Singleton
    <3>3. Cardinality(Holders(layers) \union {n}) = Cardinality(Holders(layers)) + 1
      BY <2>1, <2>2, FS_AddElement
    <3> HIDE DEF used
    <3> QED BY <1>10, <1>11, <2>0, <2>3, <2>4, <3>1, <3>2, <3>3
  <2>5. CASE "handle" \notin created
    <3>1. used = {}
      BY <2>5
    <3>2. Holders(layers) \ {n} = Holders(layers)
      BY <2>1
    <3> HIDE DEF used
    <3>3. Cardinality(used) = 0
      BY <3>1, FS_EmptySet
    <3>4. Holders(layers') = Holders(layers)
      <4> HIDE DEF made, created
      <4> QED BY <1>10, <1>11, <2>5, <3>2
    <3> QED BY <2>0, <2>2, <2>3, <3>3, <3>4
  <2> QED BY <2>4, <2>5
<1>13. /\ status' \in Statuses \ {"exited", "processed"}
       /\ GraphOK(layers', status')
  <2>1. CASE last = success
    <3>1. /\ layers'[n].kernel = layers[n].kernel /\ layers'[n].p = layers[n].p
          /\ layers'[n].ready /\ ~layers'[n].broken
      <4>1. done /\ ~failed
        BY <2>1
      <4> HIDE DEF made, data, done, failed
      <4> QED BY <1>7, <1>10, <4>1
    <3>2. status' = After(n)
      BY <1>3, <2>1
    <3> HIDE DEF made, l, success
    <3>3. GraphOK(layers', status')
      BY <1>1, <1>10, <3>1, <3>2, OneMoreReady
    <3> QED BY <3>2, <3>3 DEF After, Statuses
  <2>2. CASE last # success
    BY <1>3, <2>2 DEF GraphOK, Statuses
  <2> QED BY <2>1, <2>2
<1> HIDE DEF made
<1> QED BY <1>1, <1>5, <1>9, <1>12, <1>13, CallbackInv

\* A destructor either releases all its layer holds, or fails.
LEMMA UninitializeInv ==
  ASSUME LayersInv, NEW n \in 1 .. Len(layers), UninitializeLayer(n) PROVE LayersInv'
<1> DEFINE l == layers[n]
           steps == Destructor(l.kernel, l.data)
<1>1. /\ status = "releasing" /\ status' = status /\ l.ready
      /\ registered' = registered /\ cbr' = cbr
  BY DEF UninitializeLayer
<1>2. PICK last \in Returns(steps) :
        /\ layers' = [layers EXCEPT
             ![n].data.held = l.data.held \ (l.data.held \intersect Touched(steps, last)),
             ![n].ready = FALSE,
             ![n].broken = (last <= Len(steps))]
        /\ handle' = handle - Cardinality((l.data.held \intersect Touched(steps, last))
                                          \intersect {"handle"})
  BY DEF UninitializeLayer
<1> DEFINE released == l.data.held \intersect Touched(steps, last)
           left == l.data.held \ released
           data == [l.data EXCEPT !.held = left]
           failed == last <= Len(steps)
           made == Returned(l, data, FALSE, failed)
<1>3. IsSeq(layers) /\ Len(layers) \in Nat /\ DOMAIN layers = 1 .. Len(layers)
  BY DEF LayersInv, IsSeq
<1>4. LayerOK(l, registered, cbr)
  BY DEF LayersInv
<1>5. Changed(layers, n, made, layers')
  <2> HIDE DEF left, steps
  <2> QED BY <1>2, <1>3 DEF Changed, Returned, left, released
<1>6. data = [held |-> left, mode |-> l.data.mode, fused |-> l.data.fused,
              garbage |-> l.data.garbage]
  <2> HIDE DEF left
  <2> QED BY <1>4 DEF LayerOK, Shape
<1>7. made = [kernel |-> l.kernel, by |-> l.by, fits |-> l.fits, p |-> l.p, data |-> data,
              ready |-> FALSE, broken |-> failed, applied |-> l.applied]
  <2> HIDE DEF data, l, failed
  <2>1. \A ready, broken : Returned(l, data, ready, broken) =
          [kernel |-> l.kernel, by |-> l.by, fits |-> l.fits, p |-> l.p, data |-> data,
           ready |-> ready, broken |-> broken, applied |-> l.applied]
    BY <1>4, FieldsSet DEF LayerOK
  <2> QED BY <2>1, Zenon
<1>8. /\ Len(steps) \in Nat
      /\ last > Len(steps) => left = {}
  <2>1. CASE l.kernel \in Generating
    <3>1. l.data.held = {}
      BY <1>4, <2>1 DEF LayerOK, Shape, NoObjects
    <3>2. steps = <<>>
      BY <2>1 DEF Destructor, Generating
    <3> QED BY <3>1, <3>2
  <2>2. CASE l.kernel \notin Generating
    <3>1. Initialised(l, cbr)
      BY <1>1, <1>4 DEF LayerOK, Phase
    <3>2. l.kernel \in Executable
      BY <2>2, <3>1 DEF Initialised
    <3>3. PICK workspace \in BOOLEAN, compiles \in BOOLEAN :
            l.data = Whole(Initializer(l.kernel, l.p, [cbr |-> cbr, workspace |-> workspace,
                                                       compiles |-> compiles]))
      BY <2>2, <3>1 DEF Initialised
    <3> DEFINE env == [cbr |-> cbr, workspace |-> workspace, compiles |-> compiles]
    <3>4. env.cbr \in BOOLEAN /\ env.compiles \in BOOLEAN
      BY <3>3 DEF LayersInv
    <3>5. l.data = Whole(Initializer(l.kernel, l.p, env))
      BY <3>3
    <3> HIDE DEF env
    <3>6. Cleaned(l.data, steps)
      BY <3>2, <3>4, <3>5, LayerSound
    <3>7. MayReturn \notin l.data.held
      BY <3>5 DEF Whole
    <3>8. steps \in Seq(Step) /\ l.data.held \subseteq StepsOf(steps)
      BY <3>6 DEF Cleaned
    <3> HIDE DEF steps
    <3>9. Len(steps) \in Nat
      BY <3>8
    <3>10. ASSUME last > Len(steps) PROVE left = {}
      <4>1. last = Len(steps) + 1
        BY <1>2, <3>9, <3>10 DEF Returns, OnlyIf
      <4>2. Touched(steps, last) = StepsOf(steps) \ {MayReturn}
        BY <1>2, <3>8, <4>1, TouchedAll DEF Runs
      <4> QED BY <3>7, <3>8, <4>2
    <3> QED BY <3>9, <3>10
  <2> QED BY <2>1, <2>2
<1>9. last \in Int
  <2> HIDE DEF steps
  <2> QED BY <1>2, <1>8 DEF Returns, OnlyIf
<1>10. LayerOK(made, registered, cbr)
  <2> HIDE DEF made, steps, left
  <2>1. l.kernel \in Generating => data = NoObjects
    <3> SUFFICES ASSUME l.kernel \in Generating PROVE data = NoObjects
      OBVIOUS
    <3>1. l.data = NoObjects
      BY <1>4 DEF LayerOK, Shape
    <3>2. left = {}
      BY <3>1 DEF left, NoObjects
    <3> QED BY <1>6, <3>1, <3>2 DEF NoObjects
  <2> HIDE DEF l
  <2>2. data = [held |-> data.held, mode |-> data.mode, fused |-> data.fused,
                garbage |-> data.garbage] /\ data.held = left
    <3> HIDE DEF data
    <3> QED BY <1>6
  <2> HIDE DEF data
  <2>3. Shape(made)
    BY <1>7, <2>1, <2>2 DEF Shape
  <2>4. Node(made, registered)
    BY <1>4, <1>7 DEF LayerOK, Node
  <2>5. Phase(made, cbr)
    <3>1. ~made.ready /\ (made.broken <=> last <= Len(steps)) /\ made.data.held = left
      BY <1>7, <2>2
    <3> QED BY <1>8, <1>9, <3>1 DEF Phase
  <2> QED BY <2>3, <2>4, <2>5 DEF LayerOK
<1>11. /\ Len(layers') = Len(layers)
       /\ Holders(layers') = IF "handle" \in made.data.held THEN Holders(layers) \union {n}
                             ELSE Holders(layers) \ {n}
  <2> HIDE DEF made
  <2> QED BY <1>3, <1>5, OneChanged
<1>12. made.data.held = left
  <2>1. data.held = left
    <3> HIDE DEF data, left
    <3> QED BY <1>6
  <2> HIDE DEF made, l, steps, data, left
  <2> QED BY <1>7, <2>1
<1>13. handle' = Cardinality(Holders(layers'))
  <2>1. IsFiniteSet(Holders(layers)) /\ Cardinality(Holders(layers)) \in Nat
    BY <1>3, HoldersCounted
  <2>2. handle = Cardinality(Holders(layers))
    BY DEF LayersInv
  <2>3. n \in Holders(layers) <=> "handle" \in l.data.held
    BY DEF Holders
  <2> DEFINE used == released \intersect {"handle"}
  <2>0. handle' = handle - Cardinality(used)
    BY <1>2
  <2>4. CASE "handle" \in released
    <3>1. used = {"handle"}
      BY <2>4
    <3>2. Cardinality({"handle"}) = 1
      BY FS_Singleton
    <3>3. "handle" \notin left /\ n \in Holders(layers)
      BY <2>3, <2>4
    <3>4. Cardinality(Holders(layers) \ {n}) = Cardinality(Holders(layers)) - 1
      BY <2>1, <3>3, FS_RemoveElement
    <3> HIDE DEF used, left, made
    <3> QED BY <1>11, <1>12, <2>0, <2>2, <3>1, <3>2, <3>3, <3>4
  <2>5. CASE "handle" \notin released
    <3>1. used = {}
      BY <2>5
    <3>2. "handle" \in left <=> n \in Holders(layers)
      BY <2>3, <2>5
    <3>3. Holders(layers') = Holders(layers)
      <4> HIDE DEF left, made
      <4> QED BY <1>11, <1>12, <3>2
    <3> HIDE DEF used
    <3>4. Cardinality(used) = 0
      BY <3>1, FS_EmptySet
    <3> QED BY <2>0, <2>1, <2>2, <3>3, <3>4
  <2> QED BY <2>4, <2>5
<1>14. /\ status' \in Statuses \ {"exited", "processed"}
       /\ GraphOK(layers', status')
  BY <1>1 DEF GraphOK, Statuses
<1> HIDE DEF made
<1> QED BY <1>1, <1>5, <1>10, <1>13, <1>14, CallbackInv

\* An execution runs when nothing it uses is lacking, and applies what it is given.
LEMMA ProcessInv == ASSUME LayersInv, ProcessLayers PROVE LayersInv'
<1> DEFINE lacking == \E n \in 1 .. Len(layers) : \E call \in Calls(layers[n]) :
                        ~(call.uses \subseteq layers[n].data.held)
           garbage == \E n \in 1 .. Len(layers) : layers[n].data.garbage
           executed == [n \in DOMAIN layers |->
                          [layers[n] EXCEPT !.applied =
                             UNION {call.applies : call \in Calls(layers[n])}]]
<1>1. /\ status = "verified" /\ registered' = registered /\ cbr' = cbr /\ handle' = handle
      /\ \/ ~lacking /\ status' = "processed"
         \/ (lacking \/ garbage) /\ status' = "exited"
      /\ layers' = IF status' = "exited" THEN layers ELSE executed
  BY DEF ProcessLayers
<1>2. IsSeq(layers) /\ Len(layers) \in Nat /\ DOMAIN layers = 1 .. Len(layers)
  BY DEF LayersInv, IsSeq
<1>3. ASSUME NEW n \in 1 .. Len(layers)
      PROVE  /\ LayerOK(layers[n], registered, cbr) /\ Checked(layers[n])
             /\ layers[n].ready /\ Initialised(layers[n], cbr)
  <2>1. LayerOK(layers[n], registered, cbr) /\ Checked(layers[n]) /\ layers[n].ready
    BY <1>1 DEF LayersInv, GraphOK
  <2> QED BY <2>1 DEF LayerOK, Phase
<1>4. ASSUME NEW n \in 1 .. Len(layers), layers[n].kernel \notin Generating
      PROVE  /\ layers[n].kernel \in Executable
             /\ \E workspace, compiles \in BOOLEAN :
                  layers[n].data = Whole(Initializer(layers[n].kernel, layers[n].p,
                    [cbr |-> cbr, workspace |-> workspace, compiles |-> compiles]))
  BY <1>3, <1>4 DEF Initialised
<1>5. ASSUME NEW n \in 1 .. Len(layers), layers[n].kernel \in Generating
      PROVE  Calls(layers[n]) = {} /\ ~layers[n].data.garbage
  <2>1. layers[n].data = NoObjects
    BY <1>3, <1>5 DEF LayerOK, Shape
  <2>2. Calls(layers[n]) = {}
    BY <1>5 DEF Calls, Execution, Generating
  <2> QED BY <2>1, <2>2 DEF NoObjects
<1>6. CASE status' = "exited"
  <2>1. layers' = layers
    BY <1>1, <1>6
  <2>2. PICK n \in 1 .. Len(layers) :
          \/ \E call \in Calls(layers[n]) : ~(call.uses \subseteq layers[n].data.held)
          \/ layers[n].data.garbage
    BY <1>1, <1>6
  <2> DEFINE l == layers[n]
  <2>3. l.kernel \notin Generating
    BY <1>5, <2>2
  <2>4. l.kernel \in Executable
    BY <1>4, <2>3
  <2>5. PICK workspace \in BOOLEAN, compiles \in BOOLEAN :
          l.data = Whole(Initializer(l.kernel, l.p,
                     [cbr |-> cbr, workspace |-> workspace, compiles |-> compiles]))
    BY <1>4, <2>3
  <2> DEFINE env == [cbr |-> cbr, workspace |-> workspace, compiles |-> compiles]
  <2>6. env.cbr \in BOOLEAN /\ env.compiles \in BOOLEAN
    BY <2>5 DEF LayersInv
  <2>7. l.data = Whole(Initializer(l.kernel, l.p, env))
    BY <2>5
  <2>8. Checked(l) /\ PoolingActivation(l.kernel, l.p)
    BY <1>3 DEF LayerOK, Node
  <2>9. \/ \E call \in Execution(l.kernel, l.p, l.data) : ~(call.uses \subseteq l.data.held)
        \/ l.data.garbage
    BY <2>2 DEF Calls
  <2> HIDE DEF l, env
  <2>10. \/ l.kernel = "pooling" /\ l.p[9] = Number("INT32", 0)
         \/ l.kernel = "fully_connected" /\ Len(l.p[5].dims) = 2
    <3>1. CASE ~Supplied(l.data, Execution(l.kernel, l.p, l.data))
      <4>1. SuppliedUnless(l.kernel, l.p)
        BY <2>4, <2>6, <2>7, <3>1, LayerSound
      <4> QED BY <2>8, <4>1 DEF SuppliedUnless, Checked, PoolingActivation
    <3>2. CASE l.data.garbage
      <4>1. l.kernel = "fully_connected" /\ Len(l.p[5].dims) < 4
        BY <2>4, <2>7, <3>2, LayerGarbage
      <4>2. Len(l.p[5].dims) \in {2, 4}
        BY <2>8, <4>1 DEF Checked
      <4>3. Len(l.p[5].dims) = 2
        BY <4>1, <4>2
      <4> QED BY <4>1, <4>3
    <3> QED BY <2>9, <3>1, <3>2 DEF Supplied
  <2>11. VerifiedLayersRun'
    BY <2>1, <2>10 DEF VerifiedLayersRun, l
  <2>12. LayersApplied'
    BY <1>6 DEF LayersApplied
  <2>13. GraphOK(layers', status')
    BY <1>6 DEF GraphOK
  <2> QED BY <1>1, <1>6, <2>1, <2>11, <2>12, <2>13 DEF LayersInv, Statuses
<1>7. CASE status' = "processed"
  <2>1. layers' = executed
    BY <1>1, <1>7
  <2>2. layers' = [n \in 1 .. Len(layers) |-> layers'[n]]
    BY <1>2, <2>1
  <2>3. IsSeq(layers') /\ Len(layers') = Len(layers)
    BY <1>2, <2>2, FunctionIsSeq
  <2>4. ASSUME NEW n \in 1 .. Len(layers)
        PROVE  layers'[n] = [kernel |-> layers[n].kernel, by |-> layers[n].by,
                             fits |-> layers[n].fits, p |-> layers[n].p,
                             data |-> layers[n].data, ready |-> layers[n].ready,
                             broken |-> layers[n].broken,
                             applied |-> Applied(Calls(layers[n]))]
    <3> DEFINE l == layers[n]
    <3>1. layers'[n] = [l EXCEPT !.applied = Applied(Calls(l))]
      BY <1>2, <2>1 DEF Applied
    <3>2. Shape(l)
      BY <1>3 DEF LayerOK
    <3> HIDE DEF l
    <3>3. layers'[n] = [kernel |-> l.kernel, by |-> l.by, fits |-> l.fits, p |-> l.p,
                        data |-> l.data, ready |-> l.ready, broken |-> l.broken,
                        applied |-> Applied(Calls(l))]
      BY <3>1, <3>2, FieldsSet
    <3> QED BY <3>3 DEF l
  <2>5. ASSUME NEW n \in 1 .. Len(layers)
        PROVE  /\ LayerOK(layers'[n], registered', cbr')
               /\ layers'[n].ready
               /\ layers'[n].data = layers[n].data
    <3> DEFINE l == layers[n]
               m == layers'[n]
    <3>1. LayerOK(l, registered, cbr) /\ l.ready
      BY <1>3
    <3>2. m = [kernel |-> l.kernel, by |-> l.by, fits |-> l.fits, p |-> l.p,
               data |-> l.data, ready |-> l.ready, broken |-> l.broken,
               applied |-> Applied(Calls(l))]
      BY <2>4
    <3> HIDE DEF l, m
    <3>3. /\ m.kernel = l.kernel /\ m.p = l.p /\ m.data = l.data /\ m.ready = l.ready
          /\ m.broken = l.broken
      BY <3>2
    <3>4. Shape(m)
      BY <3>1, <3>2 DEF LayerOK, Shape
    <3>5. Node(m, registered)
      BY <3>1, <3>3 DEF LayerOK, Node
    <3>6. Phase(m, cbr)
      BY <3>1, <3>3 DEF LayerOK, Phase, Initialised
    <3> QED BY <1>1, <3>1, <3>3, <3>4, <3>5, <3>6 DEF LayerOK, l, m
  <2>6. Holders(layers') = Holders(layers)
    BY <2>3, <2>5 DEF Holders
  <2>7. GraphOK(layers', status')
    BY <1>7, <2>3, <2>5 DEF GraphOK
  <2>8. VerifiedLayersRun'
    BY <1>7 DEF VerifiedLayersRun
  <2>9. ASSUME NEW n \in 1 .. Len(layers)
        PROVE  \/ layers'[n].kernel \in Generating
               \/ Meant(layers'[n]) \subseteq layers'[n].applied
               \/ /\ layers'[n].kernel = "convolution"
                  /\ layers'[n].data.mode.fused /\ ~layers'[n].data.fused
    <3> DEFINE l == layers[n]
               m == layers'[n]
    <3>1. /\ m.kernel = l.kernel /\ m.p = l.p /\ m.data = l.data
          /\ m.applied = Applied(Calls(l))
      <4>1. m = [kernel |-> l.kernel, by |-> l.by, fits |-> l.fits, p |-> l.p,
                 data |-> l.data, ready |-> l.ready, broken |-> l.broken,
                 applied |-> Applied(Calls(l))]
        BY <2>4
      <4> HIDE DEF l, m
      <4> QED BY <4>1
    <3>2. DOMAIN l.p = DOMAIN Signature(l.kernel)
      BY <1>3 DEF LayerOK, Node
    <3>3. ASSUME l.kernel \notin Generating
          PROVE  \/ Meant(l) \subseteq Applied(Calls(l))
                 \/ l.kernel = "convolution" /\ l.data.mode.fused /\ ~l.data.fused
      <4>1. l.kernel \in Executable
        BY <1>4, <3>3
      <4>2. PICK workspace \in BOOLEAN, compiles \in BOOLEAN :
              l.data = Whole(Initializer(l.kernel, l.p,
                         [cbr |-> cbr, workspace |-> workspace, compiles |-> compiles]))
        BY <1>4, <3>3
      <4> DEFINE env == [cbr |-> cbr, workspace |-> workspace, compiles |-> compiles]
      <4>3. env.cbr \in BOOLEAN /\ env.compiles \in BOOLEAN
        BY <4>2 DEF LayersInv
      <4>4. l.data = Whole(Initializer(l.kernel, l.p, env))
        BY <4>2
      <4> HIDE DEF l, env
      <4>5. \/ Meant(l) \subseteq UNION {call.applies : call \in Execution(l.kernel, l.p, l.data)}
            \/ l.kernel = "convolution" /\ l.data.mode.fused /\ ~l.data.fused
        BY <3>2, <4>1, <4>3, <4>4, LayerApplies
      <4> QED BY <4>5 DEF Applied, Calls
    <3> HIDE DEF l, m
    <3>4. Meant(m) = Meant(l)
      BY <3>1 DEF Meant
    <3>5. \/ m.kernel \in Generating
          \/ Meant(m) \subseteq m.applied
          \/ m.kernel = "convolution" /\ m.data.mode.fused /\ ~m.data.fused
      BY <3>1, <3>3, <3>4
    <3> QED BY <3>5 DEF m
  <2>10. LayersApplied'
    BY <2>3, <2>9 DEF LayersApplied
  <2> QED BY <1>1, <1>7, <2>3, <2>5, <2>6, <2>7, <2>8, <2>10 DEF LayersInv, Statuses
<1> QED BY <1>1, <1>6, <1>7

\* Every step keeps the invariant.
LEMMA LayersStepInv == ASSUME LayersInv, [LayerNext]_layerVars PROVE LayersInv'
<1>1. CASE nnPublishKernels
  BY <1>1, PublishInv
<1>2. CASE ConstructLayer
  BY <1>2, ConstructInv
<1>3. CASE CreateLayer
  BY <1>3, CreateInv
<1>4. CASE VerifyLayers
  BY <1>4, VerifyInv
<1>5. ASSUME NEW n \in 1 .. Len(layers),
             InitializeLayer(n) \/ GenerateKernel(n) \/ UninitializeLayer(n)
      PROVE  LayersInv'
  BY <1>5, InitializeInv, GenerateInv, UninitializeInv
<1>6. CASE ProcessLayers
  BY <1>6, ProcessInv
<1>7. CASE ReleaseLayers \/ LayersGone
  BY <1>7, ReleaseInv
<1>8. CASE UNCHANGED layerVars
  BY <1>8 DEF layerVars, LayersInv, VerifiedLayersRun, LayersApplied
<1> QED BY <1>1, <1>2, <1>3, <1>4, <1>5, <1>6, <1>7, <1>8 DEF LayerNext

-------------------------------------------------------------------------------
(***************************************************************************)
(* What fits a layer's kernel, its constructor makes acceptable.           *)
(***************************************************************************)
\* It is not refused, then.
LEMMA AcceptableNotRefused ==
  ASSUME NEW l PROVE Acceptable(l.kernel, l.p) <=> ~MayBeRefused(l)
BY DEF Acceptable, MayBeRefused, Complete, AcceptsLayer

\* What a constructor makes of the arguments.
LEMMA MadeArguments ==
  ASSUME NEW kernel, NEW made, Len(made) \in Nat, NEW p
  PROVE  LET q == MadeBy(Constructs(kernel, made), p) IN
         /\ DOMAIN q = DOMAIN p
         /\ \A i \in DOMAIN p :
              q[i] = IF i \notin 0 .. Len(made) - 1 THEN Nothing
                     ELSE IF made[i + 1] = "passed" THEN p[i]
                     ELSE Number(made[i + 1], p[i].value)
BY DEF MadeBy, Constructs, Listed, Passed

\* A validator announces the outputs it says, or none.
LEMMA OutputsAnnounced ==
  \A accepts, outputs : \A verdict \in Verdict(accepts, outputs) :
    verdict.outputs = outputs \/ verdict.outputs = <<>>
BY DEF Verdict

\* A constructor of convolution leaves out the activation.
LEMMA ConvolutionConstructed ==
  ASSUME NEW p, DOMAIN p = DOMAIN Signature("convolution"), Acceptable("convolution", p)
  PROVE  Acceptable("convolution", MadeBy(vxConvolutionLayer, p))
<1> DEFINE sig == Signature("convolution")  q == MadeBy(vxConvolutionLayer, p)
<1>1. DOMAIN sig = 0 .. 5 /\ sig[5].optional
  BY DEF Signature, Signatures, Listed, publishConvolutionLayer, Input, Output, Optional
<1>2. /\ DOMAIN q = 0 .. 5
      /\ q[0] = p[0] /\ q[1] = p[1] /\ q[2] = p[2] /\ q[4] = p[4]
      /\ q[3] = Number("CONVOLUTION_PARAMS", p[3].value)
      /\ q[5] = Nothing
  BY <1>1, MadeArguments DEF vxConvolutionLayer, Passed
<1> HIDE DEF sig, q
<1>3. /\ Given(q[3]) /\ q[3].type = "CONVOLUTION_PARAMS" /\ q[3].value = p[3].value
      /\ ~Given(q[5])
  BY <1>2 DEF Number, Nothing, Given
<1>4. \A i \in DOMAIN q : sig[i].optional \/ Given(q[i])
  BY <1>1, <1>2, <1>3 DEF Acceptable, sig
<1>5. ASSUME NEW verdict \in validateConvolutionLayer(q)
      PROVE  verdict.accepted /\ \A i \in DOMAIN verdict.outputs : Agrees(q[i], verdict.outputs[i])
  <2>1. \A w \in validateConvolutionLayer(p) :
          w.accepted /\ \A i \in DOMAIN w.outputs : Agrees(p[i], w.outputs[i])
    BY DEF Acceptable, Validate
  <2>2. verdict \in validateConvolutionLayer(p)
    BY <1>2, <1>3, <2>1 DEF validateConvolutionLayer, Verdict, Convolved
  <2> QED BY <1>2, <1>3, <2>1, <2>2 DEF validateConvolutionLayer, Verdict, Announces
<1> QED BY <1>4, <1>5 DEF Acceptable, Validate, q, sig

\* The constructor of fully_connected.
LEMMA FullyConnectedConstructed ==
  ASSUME NEW p, DOMAIN p = DOMAIN Signature("fully_connected"), Acceptable("fully_connected", p)
  PROVE  Acceptable("fully_connected", MadeBy(vxFullyConnectedLayer, p))
<1> DEFINE sig == Signature("fully_connected")  q == MadeBy(vxFullyConnectedLayer, p)
<1>1. DOMAIN sig = 0 .. 5
  BY DEF Signature, Signatures, Listed, publishFullyConnectedLayer, Input, Output, Optional
<1>2. /\ DOMAIN q = 0 .. 5
      /\ q[0] = p[0] /\ q[1] = p[1] /\ q[2] = p[2] /\ q[5] = p[5]
      /\ q[3] = Number("ENUM", p[3].value)
      /\ q[4] = Number("ENUM", p[4].value)
  BY <1>1, MadeArguments DEF vxFullyConnectedLayer, Passed
<1> HIDE DEF sig, q
<1>3. /\ Given(q[3]) /\ q[3].type = "ENUM" /\ q[3].value = p[3].value
      /\ Given(q[4]) /\ q[4].type = "ENUM" /\ q[4].value = p[4].value
  BY <1>2 DEF Number, Nothing, Given
<1>4. \A i \in DOMAIN q : sig[i].optional \/ Given(q[i])
  BY <1>1, <1>2, <1>3 DEF Acceptable, sig
<1>5. ASSUME NEW verdict \in validateFullyConnectedLayer(q)
      PROVE  verdict.accepted /\ \A i \in DOMAIN verdict.outputs : Agrees(q[i], verdict.outputs[i])
  <2>1. \A w \in validateFullyConnectedLayer(p) :
          w.accepted /\ \A i \in DOMAIN w.outputs : Agrees(p[i], w.outputs[i])
    BY DEF Acceptable, Validate
  <2>2. verdict \in validateFullyConnectedLayer(p)
    BY <1>2, <1>3, <2>1 DEF validateFullyConnectedLayer, Verdict
  <2> QED BY <1>2, <1>3, <2>1, <2>2 DEF validateFullyConnectedLayer, Verdict, Announces
<1> QED BY <1>4, <1>5 DEF Acceptable, Validate, q, sig

\* The constructor of deconvolution.
LEMMA DeconvolutionConstructed ==
  ASSUME NEW p, DOMAIN p = DOMAIN Signature("deconvolution"), Acceptable("deconvolution", p)
  PROVE  Acceptable("deconvolution", MadeBy(vxDeconvolutionLayer, p))
<1> DEFINE sig == Signature("deconvolution")  q == MadeBy(vxDeconvolutionLayer, p)
<1>1. DOMAIN sig = 0 .. 4
  BY DEF Signature, Signatures, Listed, publishDeconvolutionLayer, Input, Output, Optional
<1>2. /\ DOMAIN q = 0 .. 4
      /\ q[0] = p[0] /\ q[1] = p[1] /\ q[2] = p[2] /\ q[4] = p[4]
      /\ q[3] = Number("DECONVOLUTION_PARAMS", p[3].value)
  BY <1>1, MadeArguments DEF vxDeconvolutionLayer, Passed
<1> HIDE DEF sig, q
<1>3. /\ Given(q[3]) /\ q[3].type = "DECONVOLUTION_PARAMS" /\ q[3].value = p[3].value
  BY <1>2 DEF Number, Nothing, Given
<1>4. \A i \in DOMAIN q : sig[i].optional \/ Given(q[i])
  BY <1>1, <1>2, <1>3 DEF Acceptable, sig
<1>5. ASSUME NEW verdict \in validateDeconvolutionLayer(q)
      PROVE  verdict.accepted /\ \A i \in DOMAIN verdict.outputs : Agrees(q[i], verdict.outputs[i])
  <2>1. \A w \in validateDeconvolutionLayer(p) :
          w.accepted /\ \A i \in DOMAIN w.outputs : Agrees(p[i], w.outputs[i])
    BY DEF Acceptable, Validate
  <2>2. verdict \in validateDeconvolutionLayer(p)
    BY <1>2, <1>3, <2>1 DEF validateDeconvolutionLayer, Verdict, Convolved
  <2> QED BY <1>2, <1>3, <2>1, <2>2 DEF validateDeconvolutionLayer, Verdict, Announces
<1> QED BY <1>4, <1>5 DEF Acceptable, Validate, q, sig

\* The one of pooling leaves out the border and the activation.
LEMMA PoolingConstructed ==
  ASSUME NEW p, DOMAIN p = DOMAIN Signature("pooling"), Acceptable("pooling", p)
  PROVE  Acceptable("pooling", MadeBy(vxPoolingLayer, p))
<1> DEFINE sig == Signature("pooling")  q == MadeBy(vxPoolingLayer, p)
<1>1. DOMAIN sig = 0 .. 9 /\ sig[8].optional /\ sig[9].optional
  BY DEF Signature, Signatures, Listed, publishPoolingLayer, Input, Output, Optional
<1>2. /\ DOMAIN q = 0 .. 9
      /\ q[0] = p[0] /\ q[7] = p[7]
      /\ q[1] = Number("ENUM", p[1].value)
      /\ q[2] = Number("SIZE", p[2].value)
      /\ q[3] = Number("SIZE", p[3].value)
      /\ q[4] = Number("SIZE", p[4].value)
      /\ q[5] = Number("SIZE", p[5].value)
      /\ q[6] = Number("ENUM", p[6].value)
      /\ q[8] = Nothing
      /\ q[9] = Nothing
  <2> DEFINE made == <<"passed", "ENUM", "SIZE", "SIZE", "SIZE", "SIZE", "ENUM", "passed">>
  <2>1. vxPoolingLayer = Constructs("pooling", made)
    BY DEF vxPoolingLayer, Passed
  <2>2. /\ Len(made) = 8 /\ made[1] = "passed" /\ made[8] = "passed"
        /\ made[2] = "ENUM" /\ made[7] = "ENUM"
        /\ made[3] = "SIZE" /\ made[4] = "SIZE" /\ made[5] = "SIZE" /\ made[6] = "SIZE"
    OBVIOUS
  <2> HIDE DEF made
  <2> DEFINE r == MadeBy(Constructs("pooling", made), p)
  <2>3. /\ DOMAIN r = DOMAIN p
        /\ \A i \in DOMAIN p :
             r[i] = IF i \notin 0 .. Len(made) - 1 THEN Nothing
                    ELSE IF made[i + 1] = "passed" THEN p[i]
                    ELSE Number(made[i + 1], p[i].value)
    <3>1. Len(made) \in Nat
      BY <2>2
    <3> QED BY <3>1, MadeArguments
  <2>4. q = r
    BY <2>1
  <2> HIDE DEF r, q, Number, Nothing
  <2>5. DOMAIN q = 0 .. 9 /\ q[0] = p[0] /\ q[7] = p[7] /\ q[8] = Nothing /\ q[9] = Nothing
    BY <1>1, <2>2, <2>3, <2>4
  <2>6. q[1] = Number("ENUM", p[1].value) /\ q[6] = Number("ENUM", p[6].value)
    BY <1>1, <2>2, <2>3, <2>4
  <2>7. /\ q[2] = Number("SIZE", p[2].value) /\ q[3] = Number("SIZE", p[3].value)
        /\ q[4] = Number("SIZE", p[4].value) /\ q[5] = Number("SIZE", p[5].value)
    BY <1>1, <2>2, <2>3, <2>4
  <2> QED BY <2>5, <2>6, <2>7
<1> HIDE DEF sig, q
<1>3. /\ Given(q[1]) /\ q[1].type = "ENUM" /\ q[1].value = p[1].value
      /\ Given(q[2]) /\ q[2].type = "SIZE" /\ q[2].value = p[2].value
      /\ Given(q[3]) /\ q[3].type = "SIZE" /\ q[3].value = p[3].value
      /\ Given(q[4]) /\ q[4].type = "SIZE" /\ q[4].value = p[4].value
      /\ Given(q[5]) /\ q[5].type = "SIZE" /\ q[5].value = p[5].value
      /\ Given(q[6]) /\ q[6].type = "ENUM" /\ q[6].value = p[6].value
      /\ ~Given(q[8]) /\ ~Given(q[9])
  BY <1>2 DEF Number, Nothing, Given
<1>4. \A i \in DOMAIN q : sig[i].optional \/ Given(q[i])
  BY <1>1, <1>2, <1>3 DEF Acceptable, sig
<1>5. ASSUME NEW verdict \in validatePoolingLayer(q)
      PROVE  verdict.accepted /\ \A i \in DOMAIN verdict.outputs : Agrees(q[i], verdict.outputs[i])
  <2>1. \A w \in validatePoolingLayer(p) :
          w.accepted /\ \A i \in DOMAIN w.outputs : Agrees(p[i], w.outputs[i])
    BY DEF Acceptable, Validate
  <2>2. verdict \in validatePoolingLayer(p)
    BY <1>2, <1>3, <2>1 DEF validatePoolingLayer, Verdict
  <2> QED BY <1>2, <1>3, <2>1, <2>2 DEF validatePoolingLayer, Verdict, Announces
<1> QED BY <1>4, <1>5 DEF Acceptable, Validate, q, sig

\* The one of normalization leaves out the bias.
LEMMA NormalizationConstructed ==
  ASSUME NEW p, DOMAIN p = DOMAIN Signature("normalization"), Acceptable("normalization", p)
  PROVE  Acceptable("normalization", MadeBy(vxNormalizationLayer, p))
<1> DEFINE sig == Signature("normalization")  q == MadeBy(vxNormalizationLayer, p)
<1>1. DOMAIN sig = 0 .. 6 /\ sig[6].optional
  BY DEF Signature, Signatures, Listed, publishNormalizationLayer, Input, Output, Optional
<1>2. /\ DOMAIN q = 0 .. 6
      /\ q[0] = p[0] /\ q[5] = p[5]
      /\ q[1] = Number("ENUM", p[1].value)
      /\ q[2] = Number("SIZE", p[2].value)
      /\ q[3] = Number("FLOAT32", p[3].value)
      /\ q[4] = Number("FLOAT32", p[4].value)
      /\ q[6] = Nothing
  <2> DEFINE made == <<"passed", "ENUM", "SIZE", "FLOAT32", "FLOAT32", "passed">>
  <2>1. Len(made) = 6
    OBVIOUS
  <2>2. /\ made[1] = "passed" /\ made[2] = "ENUM" /\ made[3] = "SIZE"
        /\ made[4] = "FLOAT32" /\ made[5] = "FLOAT32" /\ made[6] = "passed"
    OBVIOUS
  <2>3. q = MadeBy(Constructs("normalization", made), p)
    BY DEF vxNormalizationLayer, Passed
  <2> HIDE DEF made, q
  <2>4. /\ DOMAIN q = 0 .. 6
        /\ \A i \in 0 .. 6 : q[i] = IF i \notin 0 .. 5 THEN Nothing
                                   ELSE IF made[i + 1] = "passed" THEN p[i]
                                   ELSE Number(made[i + 1], p[i].value)
    BY <1>1, <2>1, <2>3, MadeArguments
  <2> QED BY <2>2, <2>4
<1> HIDE DEF sig, q
<1>3. /\ Given(q[1]) /\ q[1].type = "ENUM" /\ q[1].value = p[1].value
      /\ Given(q[2]) /\ q[2].type = "SIZE" /\ q[2].value = p[2].value
      /\ Given(q[3]) /\ q[3].type = "FLOAT32" /\ q[3].value = p[3].value
      /\ Given(q[4]) /\ q[4].type = "FLOAT32" /\ q[4].value = p[4].value
      /\ ~Given(q[6])
  BY <1>2 DEF Number, Nothing, Given
<1>4. \A i \in DOMAIN q : sig[i].optional \/ Given(q[i])
  BY <1>1, <1>2, <1>3 DEF Acceptable, sig
<1>5. ASSUME NEW verdict \in validateNormalizationLayer(q)
      PROVE  verdict.accepted /\ \A i \in DOMAIN verdict.outputs : Agrees(q[i], verdict.outputs[i])
  <2>1. \A w \in validateNormalizationLayer(p) :
          w.accepted /\ \A i \in DOMAIN w.outputs : Agrees(p[i], w.outputs[i])
    BY DEF Acceptable, Validate
  <2>2. verdict \in validateNormalizationLayer(p)
    BY <1>2, <1>3, <2>1 DEF validateNormalizationLayer, Verdict
  <2> QED BY <1>2, <1>3, <2>1, <2>2 DEF validateNormalizationLayer, Verdict, Announces
<1> QED BY <1>4, <1>5 DEF Acceptable, Validate, q, sig

\* The constructor of activation.
LEMMA ActivationConstructed ==
  ASSUME NEW p, DOMAIN p = DOMAIN Signature("activation"), Acceptable("activation", p)
  PROVE  Acceptable("activation", MadeBy(vxActivationLayer, p))
<1> DEFINE sig == Signature("activation")  q == MadeBy(vxActivationLayer, p)
<1>1. DOMAIN sig = 0 .. 4
  BY DEF Signature, Signatures, Listed, publishActivationLayer, Input, Output, Optional
<1>2. /\ DOMAIN q = 0 .. 4
      /\ q[0] = p[0] /\ q[4] = p[4]
      /\ q[1] = Number("ENUM", p[1].value)
      /\ q[2] = Number("FLOAT32", p[2].value)
      /\ q[3] = Number("FLOAT32", p[3].value)
  BY <1>1, MadeArguments DEF vxActivationLayer, Passed
<1> HIDE DEF sig, q
<1>3. /\ Given(q[1]) /\ q[1].type = "ENUM" /\ q[1].value = p[1].value
      /\ Given(q[2]) /\ q[2].type = "FLOAT32" /\ q[2].value = p[2].value
      /\ Given(q[3]) /\ q[3].type = "FLOAT32" /\ q[3].value = p[3].value
  BY <1>2 DEF Number, Nothing, Given
<1>4. \A i \in DOMAIN q : sig[i].optional \/ Given(q[i])
  BY <1>1, <1>2, <1>3 DEF Acceptable, sig
<1>5. ASSUME NEW verdict \in validateActivationLayer(q)
      PROVE  verdict.accepted /\ \A i \in DOMAIN verdict.outputs : Agrees(q[i], verdict.outputs[i])
  <2>1. \A w \in validateActivationLayer(p) :
          w.accepted /\ \A i \in DOMAIN w.outputs : Agrees(p[i], w.outputs[i])
    BY DEF Acceptable, Validate
  <2>2. verdict \in validateActivationLayer(p)
    BY <1>2, <1>3, <2>1 DEF validateActivationLayer, Verdict
  <2> QED BY <1>2, <1>3, <2>1, <2>2 DEF validateActivationLayer, Verdict, Announces
<1> QED BY <1>4, <1>5 DEF Acceptable, Validate, q, sig

\* The constructor of batch_normalization.
LEMMA BatchNormalizationConstructed ==
  ASSUME NEW p, DOMAIN p = DOMAIN Signature("batch_normalization"),
         Acceptable("batch_normalization", p)
  PROVE  Acceptable("batch_normalization", MadeBy(vxBatchNormalizationLayer, p))
<1> DEFINE sig == Signature("batch_normalization")  q == MadeBy(vxBatchNormalizationLayer, p)
<1>1. DOMAIN sig = 0 .. 6
  BY DEF Signature, Signatures, Listed, publishBatchNormalizationLayer, Input, Output, Optional
<1>2. /\ DOMAIN q = 0 .. 6
      /\ q[0] = p[0] /\ q[1] = p[1] /\ q[2] = p[2] /\ q[3] = p[3]
      /\ q[4] = p[4] /\ q[6] = p[6]
      /\ q[5] = Number("FLOAT32", p[5].value)
  BY <1>1, MadeArguments DEF vxBatchNormalizationLayer, Passed
<1> HIDE DEF sig, q
<1>3. /\ Given(q[5]) /\ q[5].type = "FLOAT32" /\ q[5].value = p[5].value
  BY <1>2 DEF Number, Nothing, Given
<1>4. \A i \in DOMAIN q : sig[i].optional \/ Given(q[i])
  BY <1>1, <1>2, <1>3 DEF Acceptable, sig
<1>5. ASSUME NEW verdict \in validateBatchNormalizationLayer(q)
      PROVE  verdict.accepted /\ \A i \in DOMAIN verdict.outputs : Agrees(q[i], verdict.outputs[i])
  <2>1. \A w \in validateBatchNormalizationLayer(p) :
          w.accepted /\ \A i \in DOMAIN w.outputs : Agrees(p[i], w.outputs[i])
    BY DEF Acceptable, Validate
  <2>2. verdict \in validateBatchNormalizationLayer(p)
    BY <1>2, <1>3, <2>1 DEF validateBatchNormalizationLayer, Verdict
  <2> QED BY <1>2, <1>3, <2>1, <2>2 DEF validateBatchNormalizationLayer, Verdict, Announces
<1> QED BY <1>4, <1>5 DEF Acceptable, Validate, q, sig

\* The constructor of tensor_add.
LEMMA TensorAddConstructed ==
  ASSUME NEW p, DOMAIN p = DOMAIN Signature("tensor_add"), Acceptable("tensor_add", p)
  PROVE  Acceptable("tensor_add", MadeBy(vxTensorAddNode, p))
<1> DEFINE sig == Signature("tensor_add")  q == MadeBy(vxTensorAddNode, p)
<1>1. DOMAIN sig = 0 .. 3
  BY DEF Signature, Signatures, Listed, publishTensorAdd, Input, Output, Optional
<1>2. /\ DOMAIN q = 0 .. 3
      /\ q[0] = p[0] /\ q[1] = p[1] /\ q[3] = p[3]
      /\ q[2] = Number("ENUM", p[2].value)
  BY <1>1, MadeArguments DEF vxTensorAddNode, Passed
<1> HIDE DEF sig, q
<1>3. /\ Given(q[2]) /\ q[2].type = "ENUM" /\ q[2].value = p[2].value
  BY <1>2 DEF Number, Nothing, Given
<1>4. \A i \in DOMAIN q : sig[i].optional \/ Given(q[i])
  BY <1>1, <1>2, <1>3 DEF Acceptable, sig
<1>5. ASSUME NEW verdict \in validateTensorAddition(q)
      PROVE  verdict.accepted /\ \A i \in DOMAIN verdict.outputs : Agrees(q[i], verdict.outputs[i])
  <2>1. \A w \in validateTensorAddition(p) :
          w.accepted /\ \A i \in DOMAIN w.outputs : Agrees(p[i], w.outputs[i])
    BY DEF Acceptable, Validate
  <2>2. verdict \in validateTensorAddition(p)
    BY <1>2, <1>3, <2>1 DEF validateTensorAddition, Verdict, Elementwise
  <2> QED BY <1>2, <1>3, <2>1, <2>2 DEF validateTensorAddition, Verdict, Announces
<1> QED BY <1>4, <1>5 DEF Acceptable, Validate, q, sig

\* The constructor of tensor_subtract.
LEMMA TensorSubtractConstructed ==
  ASSUME NEW p, DOMAIN p = DOMAIN Signature("tensor_subtract"), Acceptable("tensor_subtract", p)
  PROVE  Acceptable("tensor_subtract", MadeBy(vxTensorSubtractNode, p))
<1> DEFINE sig == Signature("tensor_subtract")  q == MadeBy(vxTensorSubtractNode, p)
<1>1. DOMAIN sig = 0 .. 3
  BY DEF Signature, Signatures, Listed, publishTensorSubtraction, Input, Output, Optional
<1>2. /\ DOMAIN q = 0 .. 3
      /\ q[0] = p[0] /\ q[1] = p[1] /\ q[3] = p[3]
      /\ q[2] = Number("ENUM", p[2].value)
  BY <1>1, MadeArguments DEF vxTensorSubtractNode, Passed
<1> HIDE DEF sig, q
<1>3. /\ Given(q[2]) /\ q[2].type = "ENUM" /\ q[2].value = p[2].value
  BY <1>2 DEF Number, Nothing, Given
<1>4. \A i \in DOMAIN q : sig[i].optional \/ Given(q[i])
  BY <1>1, <1>2, <1>3 DEF Acceptable, sig
<1>5. ASSUME NEW verdict \in validateTensorSub(q)
      PROVE  verdict.accepted /\ \A i \in DOMAIN verdict.outputs : Agrees(q[i], verdict.outputs[i])
  <2>1. \A w \in validateTensorSub(p) :
          w.accepted /\ \A i \in DOMAIN w.outputs : Agrees(p[i], w.outputs[i])
    BY DEF Acceptable, Validate
  <2>2. verdict \in validateTensorSub(p)
    BY <1>2, <1>3, <2>1 DEF validateTensorSub, Verdict, Elementwise
  <2> QED BY <1>2, <1>3, <2>1, <2>2 DEF validateTensorSub, Verdict, Announces
<1> QED BY <1>4, <1>5 DEF Acceptable, Validate, q, sig

\* The constructor of tensor_multiply.
LEMMA TensorMultiplyConstructed ==
  ASSUME NEW p, DOMAIN p = DOMAIN Signature("tensor_multiply"), Acceptable("tensor_multiply", p)
  PROVE  Acceptable("tensor_multiply", MadeBy(vxTensorMultiplyNode, p))
<1> DEFINE sig == Signature("tensor_multiply")  q == MadeBy(vxTensorMultiplyNode, p)
<1>1. DOMAIN sig = 0 .. 5
  BY DEF Signature, Signatures, Listed, publishTensorMultiply, Input, Output, Optional
<1>2. /\ DOMAIN q = 0 .. 5
      /\ q[0] = p[0] /\ q[1] = p[1] /\ q[2] = p[2] /\ q[5] = p[5]
      /\ q[3] = Number("ENUM", p[3].value)
      /\ q[4] = Number("ENUM", p[4].value)
  BY <1>1, MadeArguments DEF vxTensorMultiplyNode, Passed
<1> HIDE DEF sig, q
<1>3. /\ Given(q[3]) /\ q[3].type = "ENUM" /\ q[3].value = p[3].value
      /\ Given(q[4]) /\ q[4].type = "ENUM" /\ q[4].value = p[4].value
  BY <1>2 DEF Number, Nothing, Given
<1>4. \A i \in DOMAIN q : sig[i].optional \/ Given(q[i])
  BY <1>1, <1>2, <1>3 DEF Acceptable, sig
<1>5. ASSUME NEW verdict \in validateTensorMultiply(q)
      PROVE  verdict.accepted /\ \A i \in DOMAIN verdict.outputs : Agrees(q[i], verdict.outputs[i])
  <2>1. \A w \in validateTensorMultiply(p) :
          w.accepted /\ \A i \in DOMAIN w.outputs : Agrees(p[i], w.outputs[i])
    BY DEF Acceptable, Validate
  <2>2. verdict \in validateTensorMultiply(p)
    BY <1>2, <1>3, <2>1 DEF validateTensorMultiply, Verdict, Elementwise
  <2> QED BY <1>2, <1>3, <2>1, <2>2 DEF validateTensorMultiply, Verdict, Announces
<1> QED BY <1>4, <1>5 DEF Acceptable, Validate, q, sig

\* The constructor of tensor_matrix_multiply.
LEMMA TensorMatrixMultiplyConstructed ==
  ASSUME NEW p, DOMAIN p = DOMAIN Signature("tensor_matrix_multiply"),
         Acceptable("tensor_matrix_multiply", p)
  PROVE  Acceptable("tensor_matrix_multiply", MadeBy(vxTensorMatrixMultiplyNode, p))
<1> DEFINE sig == Signature("tensor_matrix_multiply")  q == MadeBy(vxTensorMatrixMultiplyNode, p)
<1>1. DOMAIN sig = 0 .. 4
  BY DEF Signature, Signatures, Listed, publishTensorMatrixMultiply, Input, Output, Optional
<1>2. /\ DOMAIN q = 0 .. 4
      /\ q[0] = p[0] /\ q[1] = p[1] /\ q[2] = p[2] /\ q[4] = p[4]
      /\ q[3] = Number("TENSOR_MATRIX_MULTIPLY_PARAMS", p[3].value)
  BY <1>1, MadeArguments DEF vxTensorMatrixMultiplyNode, Passed
<1> HIDE DEF sig, q
<1>3. /\ Given(q[3]) /\ q[3].type = "TENSOR_MATRIX_MULTIPLY_PARAMS" /\ q[3].value = p[3].value
  BY <1>2 DEF Number, Nothing, Given
<1>4. \A i \in DOMAIN q : sig[i].optional \/ Given(q[i])
  BY <1>1, <1>2, <1>3 DEF Acceptable, sig
<1>5. ASSUME NEW verdict \in validateMatrixMultiply(q)
      PROVE  verdict.accepted /\ \A i \in DOMAIN verdict.outputs : Agrees(q[i], verdict.outputs[i])
  <2>1. \A w \in validateMatrixMultiply(p) :
          w.accepted /\ \A i \in DOMAIN w.outputs : Agrees(p[i], w.outputs[i])
    BY DEF Acceptable, Validate
  <2>2. verdict \in validateMatrixMultiply(p)
    BY <1>2, <1>3, <2>1 DEF validateMatrixMultiply, Verdict, OnlyIf
  <2>3. \/ verdict.outputs = Announces(4, (IF Given(q[2]) THEN q[2] ELSE q[1]).type, q[4].dims)
        \/ verdict.outputs = <<>>
    BY OutputsAnnounced, Zenon DEF validateMatrixMultiply
  <2>4. DOMAIN verdict.outputs \subseteq {4}
    BY <2>3 DEF Announces
  <2> QED BY <1>2, <2>1, <2>2, <2>4
<1> QED BY <1>4, <1>5 DEF Acceptable, Validate, q, sig

\* The constructor of image_to_tensor.
LEMMA ImageToTensorConstructed ==
  ASSUME NEW p, DOMAIN p = DOMAIN Signature("image_to_tensor"), Acceptable("image_to_tensor", p)
  PROVE  Acceptable("image_to_tensor", MadeBy(vxConvertImageToTensorNode, p))
<1> DEFINE sig == Signature("image_to_tensor")  q == MadeBy(vxConvertImageToTensorNode, p)
<1>1. DOMAIN sig = 0 .. 4
  BY DEF Signature, Signatures, Listed, publishImageToTensorConvert, Input, Output, Optional
<1>2. /\ DOMAIN q = 0 .. 4
      /\ q[0] = p[0] /\ q[1] = p[1]
      /\ q[2] = Number("FLOAT32", p[2].value)
      /\ q[3] = Number("FLOAT32", p[3].value)
      /\ q[4] = Number("BOOL", p[4].value)
  BY <1>1, MadeArguments DEF vxConvertImageToTensorNode, Passed
<1> HIDE DEF sig, q
<1>3. /\ Given(q[2]) /\ q[2].type = "FLOAT32" /\ q[2].value = p[2].value
      /\ Given(q[3]) /\ q[3].type = "FLOAT32" /\ q[3].value = p[3].value
      /\ Given(q[4]) /\ q[4].type = "BOOL" /\ q[4].value = p[4].value
  BY <1>2 DEF Number, Nothing, Given
<1>4. \A i \in DOMAIN q : sig[i].optional \/ Given(q[i])
  BY <1>1, <1>2, <1>3 DEF Acceptable, sig
<1>5. ASSUME NEW verdict \in validateImageToTensorKernel(q)
      PROVE  verdict.accepted /\ \A i \in DOMAIN verdict.outputs : Agrees(q[i], verdict.outputs[i])
  <2>1. \A w \in validateImageToTensorKernel(p) :
          w.accepted /\ \A i \in DOMAIN w.outputs : Agrees(p[i], w.outputs[i])
    BY DEF Acceptable, Validate
  <2>2. verdict \in validateImageToTensorKernel(p)
    BY <1>2, <1>3, <2>1 DEF validateImageToTensorKernel, Verdict
  <2> QED BY <1>2, <1>3, <2>1, <2>2 DEF validateImageToTensorKernel, Verdict, Announces
<1> QED BY <1>4, <1>5 DEF Acceptable, Validate, q, sig

\* The constructor of tensor_to_image.
LEMMA TensorToImageConstructed ==
  ASSUME NEW p, DOMAIN p = DOMAIN Signature("tensor_to_image"), Acceptable("tensor_to_image", p)
  PROVE  Acceptable("tensor_to_image", MadeBy(vxConvertTensorToImageNode, p))
<1> DEFINE sig == Signature("tensor_to_image")  q == MadeBy(vxConvertTensorToImageNode, p)
<1>1. DOMAIN sig = 0 .. 4
  BY DEF Signature, Signatures, Listed, publishTensorToImageConvert, Input, Output, Optional
<1>2. /\ DOMAIN q = 0 .. 4
      /\ q[0] = p[0] /\ q[1] = p[1]
      /\ q[2] = Number("FLOAT32", p[2].value)
      /\ q[3] = Number("FLOAT32", p[3].value)
      /\ q[4] = Number("BOOL", p[4].value)
  BY <1>1, MadeArguments DEF vxConvertTensorToImageNode, Passed
<1> HIDE DEF sig, q
<1>3. /\ Given(q[2]) /\ q[2].type = "FLOAT32" /\ q[2].value = p[2].value
      /\ Given(q[3]) /\ q[3].type = "FLOAT32" /\ q[3].value = p[3].value
      /\ Given(q[4]) /\ q[4].type = "BOOL" /\ q[4].value = p[4].value
  BY <1>2 DEF Number, Nothing, Given
<1>4. \A i \in DOMAIN q : sig[i].optional \/ Given(q[i])
  BY <1>1, <1>2, <1>3 DEF Acceptable, sig
<1>5. ASSUME NEW verdict \in validateTensorToImageKernel(q)
      PROVE  verdict.accepted /\ \A i \in DOMAIN verdict.outputs : Agrees(q[i], verdict.outputs[i])
  <2>1. \A w \in validateTensorToImageKernel(p) :
          w.accepted /\ \A i \in DOMAIN w.outputs : Agrees(p[i], w.outputs[i])
    BY DEF Acceptable, Validate
  <2>2. verdict \in validateTensorToImageKernel(p)
    BY <1>2, <1>3, <2>1 DEF validateTensorToImageKernel, Verdict
  <2> QED BY <1>2, <1>3, <2>1, <2>2 DEF validateTensorToImageKernel, Verdict, Announces
<1> QED BY <1>4, <1>5 DEF Acceptable, Validate, q, sig

\* A constructor that makes no scalars passes on what it is given.
LEMMA PassedOn ==
  ASSUME NEW kernel, NEW made, Len(made) \in Nat, \A i \in 1 .. Len(made) : made[i] = "passed",
         NEW p, DOMAIN p = 0 .. Len(made) - 1, p = [i \in DOMAIN p |-> p[i]]
  PROVE  MadeBy(Constructs(kernel, made), p) = p
<1> DEFINE q == MadeBy(Constructs(kernel, made), p)
<1>1. q = [i \in DOMAIN p |-> q[i]]
  BY DEF MadeBy
<1>2. \A i \in DOMAIN p : q[i] = p[i]
  BY MadeArguments
<1> QED BY <1>1, <1>2

\* Whatever constructor makes a node of arguments that are accepted when the node
\* is made by hand, they are accepted from it too.
LEMMA EveryLayerConstructed ==
  ASSUME NEW c \in LayerConstructors, NEW p, DOMAIN p = DOMAIN Signature(c.kernel),
         p = [i \in DOMAIN p |-> p[i]], Acceptable(c.kernel, p)
  PROVE  Acceptable(c.kernel, MadeBy(c, p))
<1> DEFINE Good == Acceptable(c.kernel, MadeBy(c, p))
<1>1. CASE c = vxConvolutionLayer
  BY <1>1, ConvolutionConstructed DEF vxConvolutionLayer, Constructs
<1>2. CASE c = vxFullyConnectedLayer
  BY <1>2, FullyConnectedConstructed DEF vxFullyConnectedLayer, Constructs
<1>3. CASE c = vxPoolingLayer
  BY <1>3, PoolingConstructed DEF vxPoolingLayer, Constructs
<1>4. CASE c = vxNormalizationLayer
  BY <1>4, NormalizationConstructed DEF vxNormalizationLayer, Constructs
<1>5. CASE c = vxActivationLayer
  BY <1>5, ActivationConstructed DEF vxActivationLayer, Constructs
<1>6. CASE c = vxDeconvolutionLayer
  BY <1>6, DeconvolutionConstructed DEF vxDeconvolutionLayer, Constructs
<1>7. CASE c = vxBatchNormalizationLayer
  BY <1>7, BatchNormalizationConstructed DEF vxBatchNormalizationLayer, Constructs
<1>8. CASE c = vxConvertImageToTensorNode
  BY <1>8, ImageToTensorConstructed DEF vxConvertImageToTensorNode, Constructs
<1>9. CASE c = vxConvertTensorToImageNode
  BY <1>9, TensorToImageConstructed DEF vxConvertTensorToImageNode, Constructs
<1>10. CASE c = vxTensorAddNode
  BY <1>10, TensorAddConstructed DEF vxTensorAddNode, Constructs
<1>11. CASE c = vxTensorSubtractNode
  BY <1>11, TensorSubtractConstructed DEF vxTensorSubtractNode, Constructs
<1>12. CASE c = vxTensorMultiplyNode
  BY <1>12, TensorMultiplyConstructed DEF vxTensorMultiplyNode, Constructs
<1>13. CASE c = vxTensorMatrixMultiplyNode
  BY <1>13, TensorMatrixMultiplyConstructed DEF vxTensorMatrixMultiplyNode, Constructs
<1> DEFINE Plain(kernel, made) ==
             /\ Len(made) \in Nat
             /\ \A i \in 1 .. Len(made) : made[i] = "passed"
             /\ DOMAIN Signature(kernel) = 0 .. Len(made) - 1
<1>14. ASSUME NEW kernel, NEW made, c = Constructs(kernel, made), Plain(kernel, made)
       PROVE  Good
  <2>1. c.kernel = kernel
    BY <1>14 DEF Constructs
  <2>2. MadeBy(c, p) = p
    BY <1>14, <2>1, PassedOn
  <2> QED BY <2>2
<1>15. Plain("softmax", <<"passed", "passed">>)
  BY DEF Signature, Signatures, Listed, publishSoftmaxLayer
<1>16. Plain("argmax", <<"passed", "passed">>)
  BY DEF Signature, Signatures, Listed, publishArgmaxLayer
<1>17. Plain("concat", [i \in 1 .. 9 |-> "passed"])
  <2>1. Len(publishConcatLayer) = 9
    BY DEF publishConcatLayer
  <2> QED BY <2>1 DEF Signature, Signatures, Listed
<1>18. Plain("slice", [i \in 1 .. 9 |-> "passed"])
  <2>1. Len(publishSliceLayer) = 9
    BY DEF publishSliceLayer
  <2> QED BY <2>1 DEF Signature, Signatures, Listed
<1>19. Plain("scale", <<"passed", "passed", "passed", "passed">>)
  BY DEF Signature, Signatures, Listed, publishScaleLayer
<1>20. Plain("upsample_nearest", <<"passed", "passed">>)
  BY DEF Signature, Signatures, Listed, publishUpsampleNearest
<1>21. Plain("tensor_table_lookup", <<"passed", "passed", "passed">>)
  BY DEF Signature, Signatures, Listed, publishTensorTableLookup
<1>22. Plain("reshape", <<"passed", "passed">>)
  BY DEF Signature, Signatures, Listed, publishReshapeLayer
<1> HIDE DEF Plain
<1>23. CASE c = vxSoftmaxLayer
  BY <1>14, <1>15, <1>23 DEF vxSoftmaxLayer, Passed
<1>24. CASE c = vxArgmaxLayer
  BY <1>14, <1>16, <1>24 DEF vxArgmaxLayer, Passed
<1>25. CASE c = vxConcatLayer
  BY <1>14, <1>17, <1>25 DEF vxConcatLayer, Passed
<1>26. CASE c = vxSliceLayer
  BY <1>14, <1>18, <1>26 DEF vxSliceLayer, Passed
<1>27. CASE c = vxScaleLayer
  BY <1>14, <1>19, <1>27 DEF vxScaleLayer, Passed
<1>28. CASE c = vxUpsampleNearestLayer
  BY <1>14, <1>20, <1>28 DEF vxUpsampleNearestLayer, Passed
<1>29. CASE c = vxTensorTableLookupNode
  BY <1>14, <1>21, <1>29 DEF vxTensorTableLookupNode, Passed
<1>30. CASE c = vxReshapeLayer
  BY <1>14, <1>22, <1>30 DEF vxReshapeLayer, Passed
<1> USE DEF Good
<1> QED BY <1>1, <1>2, <1>3, <1>4, <1>5, <1>6, <1>7, <1>8, <1>9, <1>10, <1>11, <1>12, <1>13,
        <1>23, <1>24, <1>25, <1>26, <1>27, <1>28, <1>29, <1>30 DEF LayerConstructors

-------------------------------------------------------------------------------
(***************************************************************************)
(* The generated kernels, and what the verification finds.                 *)
(***************************************************************************)
\* A generator says itself whether its kernel compiles.
LEMMA KernelCompiles == \A compiles, moves : compiles => GpuKernel(compiles, moves).compiles
BY DEF GpuKernel

\* What a verified layer generates compiles, but for the code's exceptions.
LEMMA VerifiedCompiles ==
  ASSUME NEW l, MayPass(l), l.kernel \in Generating, ~Generated(l.kernel, l.p).compiles
  PROVE  DoesNotCompile(l)
<1>1. PICK verdict \in Validate(l.kernel, l.p) : AcceptsLayer(l, verdict)
  BY DEF MayPass
<1>2. CASE l.kernel = "argmax"
  <2>1. ~argmax(l.p).compiles /\ verdict \in validateArgmax(l.p)
    BY <1>1, <1>2 DEF Generated, Validate
  <2>2. Ranks(l.p[1]) \in {1, 2}
    BY <1>1, <2>1 DEF AcceptsLayer, validateArgmax, Verdict, Ranks
  <2>3. Ranks(l.p[1]) # 1 /\ InOneGo(l.p[0]) # 4
    BY <2>1, KernelCompiles DEF argmax
  <2> QED BY <1>2, <2>2, <2>3 DEF DoesNotCompile, InOneGo
<1>3. CASE l.kernel = "tensor_to_image"
  <2>1. ~tensor_to_image(l.p).compiles /\ verdict \in validateTensorToImageKernel(l.p)
    BY <1>1, <1>3 DEF Generated, Validate
  <2>2. Depth(l.p) = 3 /\ l.p[0].type = "FLOAT16"
    BY <2>1, KernelCompiles DEF tensor_to_image
  <2>3. verdict.outputs = Announces(1, PictureFormat(l.p[0]),
                                    <<W(l.p[0]), H(l.p[0]) * N(l.p[0])>>)
    BY <1>1, <2>1 DEF AcceptsLayer, validateTensorToImageKernel, Verdict
  <2>4. l.p[1].type \in {PictureFormat(l.p[0]), "VIRT"}
    BY <1>1, <2>3 DEF AcceptsLayer, Agrees, Announces, Announced
  <2>5. C(l.p[0]) = 3
    BY <2>2, <2>4 DEF Depth, PictureFormat
  <2> QED BY <1>3, <2>2, <2>5 DEF DoesNotCompile
<1>4. CASE l.kernel = "concat"
  BY <1>4, KernelCompiles, Zenon DEF Generated, concat
<1>5. CASE l.kernel = "slice"
  BY <1>5, KernelCompiles, Zenon DEF Generated, slice
<1>6. CASE l.kernel = "image_to_tensor"
  BY <1>6, KernelCompiles, Zenon DEF Generated, image_to_tensor
<1>7. CASE l.kernel = "upsample_nearest"
  <2>1. ~upsample(l.p).compiles /\ verdict \in validateUpsample(l.p)
    BY <1>1, <1>7 DEF Generated, Validate
  <2>2. IsFloat(l.p[1], {4})
    BY <1>1, <2>1 DEF AcceptsLayer, validateUpsample, Verdict
  <2>3. l.p[1].type # "FLOAT32"
    BY <2>1, KernelCompiles DEF upsample
  <2> QED BY <1>7, <2>2, <2>3 DEF DoesNotCompile, IsFloat, FloatTypes
<1>8. CASE l.kernel = "tensor_table_lookup"
  BY <1>8, KernelCompiles, Zenon DEF Generated, tensor_table_lookup
<1> QED BY <1>2, <1>3, <1>4, <1>5, <1>6, <1>7, <1>8 DEF Generating

-------------------------------------------------------------------------------
(***************************************************************************)
(* The graph is refused, or fails, for the code's exceptions only.         *)
(***************************************************************************)
\* A layer with fitting arguments is accepted, whoever made its node.
Meets(l) == l.fits => Acceptable(l.kernel, l.p) \/ Excused(l.kernel, l.p)

\* What the graph's state says of the verification and of the initialisation.
MadeInv ==
  /\ \A n \in 1 .. Len(layers) : Meets(layers[n])
  /\ status = "refused" => \E n \in 1 .. Len(layers) : MayBeRefused(layers[n])
  /\ status = "initialising" => \A n \in 1 .. Len(layers) : MayPass(layers[n])
  /\ status = "failed" => \E n \in 1 .. Len(layers) : layers[n].broken \/ DoesNotCompile(layers[n])

\* Two layers with the same kernel, arguments and fitting.
SameNode(l, m) == l.kernel = m.kernel /\ l.p = m.p /\ l.fits = m.fits

\* What is said of them is the same.
LEMMA SaidOfSameNode ==
  ASSUME NEW l, NEW m, SameNode(l, m)
  PROVE  /\ Meets(l) <=> Meets(m)
         /\ MayPass(l) <=> MayPass(m)
         /\ MayBeRefused(l) <=> MayBeRefused(m)
         /\ DoesNotCompile(l) <=> DoesNotCompile(m)
<1>1. Meets(l) <=> Meets(m)
  BY DEF Meets, SameNode
<1>2. \A verdict : AcceptsLayer(l, verdict) <=> AcceptsLayer(m, verdict)
  BY DEF AcceptsLayer, SameNode
<1>3. Complete(l) <=> Complete(m)
  BY DEF Complete, SameNode
<1>4. Validate(l.kernel, l.p) = Validate(m.kernel, m.p)
  BY DEF SameNode
<1>5. MayPass(l) <=> MayPass(m)
  BY <1>2, <1>3, <1>4 DEF MayPass
<1>6. MayBeRefused(l) <=> MayBeRefused(m)
  BY <1>2, <1>3, <1>4 DEF MayBeRefused
<1>7. DoesNotCompile(l) <=> DoesNotCompile(m)
  BY DEF DoesNotCompile, SameNode
<1> QED BY <1>1, <1>5, <1>6, <1>7

\* The graph has the layers it had.
SameLayers ==
  Len(layers') = Len(layers) /\ \A n \in 1 .. Len(layers) : SameNode(layers'[n], layers[n])

\* One of them is changed by a callback.
LEMMA SameLayersWhenChanged ==
  ASSUME LayersInv, NEW n \in 1 .. Len(layers), NEW made, Changed(layers, n, made, layers'),
         SameNode(made, layers[n])
  PROVE  SameLayers /\ layers'[n] = made
<1>1. IsSeq(layers)
  BY DEF LayersInv
<1>2. /\ Len(layers') = Len(layers)
      /\ \A m \in 1 .. Len(layers) : m # n => layers'[m] = layers[m]
      /\ layers'[n] = made
  BY <1>1, OneChanged
<1> QED BY <1>2 DEF SameLayers, SameNode

\* The fields a callback sets are no others.
LEMMA CallbackSameNode ==
  ASSUME NEW l, Shape(l)
  PROVE  /\ \A ready : SameNode([l EXCEPT !.ready = ready], l)
         /\ \A data, ready, broken : /\ SameNode(Returned(l, data, ready, broken), l)
                                     /\ Returned(l, data, ready, broken).broken = broken
         /\ \A applied : SameNode([l EXCEPT !.applied = applied], l)
BY FieldsSet DEF SameNode

\* Nothing is to be shown anew while the graph keeps its layers and its state.
LEMMA SameLayersInv ==
  ASSUME LayersInv, MadeInv, SameLayers,
         status' = "refused" =>
           status = "refused" \/ \E n \in 1 .. Len(layers) : MayBeRefused(layers[n]),
         status' = "initialising" =>
           status = "initialising" \/ \A n \in 1 .. Len(layers) : MayPass(layers[n]),
         status' = "failed" => \E n \in 1 .. Len(layers) :
                                 layers'[n].broken \/ DoesNotCompile(layers[n])
  PROVE  MadeInv'
<1>1. Len(layers') = Len(layers)
  BY DEF SameLayers
<1>2. \A n \in 1 .. Len(layers) :
        /\ Meets(layers'[n]) <=> Meets(layers[n])
        /\ MayPass(layers'[n]) <=> MayPass(layers[n])
        /\ MayBeRefused(layers'[n]) <=> MayBeRefused(layers[n])
        /\ DoesNotCompile(layers'[n]) <=> DoesNotCompile(layers[n])
  BY SaidOfSameNode DEF SameLayers
<1>3. \A n \in 1 .. Len(layers') : Meets(layers'[n])
  BY <1>1, <1>2 DEF MadeInv
<1>4. status' = "refused" => \E n \in 1 .. Len(layers') : MayBeRefused(layers'[n])
  BY <1>1, <1>2 DEF MadeInv
<1>5. status' = "initialising" => \A n \in 1 .. Len(layers') : MayPass(layers'[n])
  BY <1>1, <1>2 DEF MadeInv
<1>6. status' = "failed" =>
        \E n \in 1 .. Len(layers') : layers'[n].broken \/ DoesNotCompile(layers'[n])
  BY <1>1, <1>2
<1> QED BY <1>3, <1>4, <1>5, <1>6 DEF MadeInv

\* One more layer.
LEMMA AddMade ==
  ASSUME LayersInv, MadeInv, NEW kernel, NEW by, NEW fits, NEW p, status = "building",
         fits => Acceptable(kernel, p) \/ Excused(kernel, p),
         AddLayer(kernel, by, fits, p)
  PROVE  MadeInv'
<1> DEFINE l == [kernel |-> kernel, by |-> by, fits |-> fits, p |-> p, data |-> NoObjects,
                 ready |-> FALSE, broken |-> FALSE, applied |-> {}]
<1>1. layers' = Append(layers, l) /\ status' = "building"
  BY DEF AddLayer
<1>2. Meets(l)
  BY DEF Meets
<1> HIDE DEF l
<1>3. IsSeq(layers)
  BY DEF LayersInv
<1>4. /\ Len(layers') = Len(layers) + 1
      /\ \A n \in 1 .. Len(layers) : layers'[n] = layers[n]
      /\ layers'[Len(layers) + 1] = l
  BY <1>1, <1>3, Appended
<1>5. \A n \in 1 .. Len(layers') : n \in 1 .. Len(layers) \/ n = Len(layers) + 1
  BY <1>3, <1>4 DEF IsSeq
<1>6. \A n \in 1 .. Len(layers') : Meets(layers'[n])
  BY <1>2, <1>4, <1>5 DEF MadeInv
<1> QED BY <1>1, <1>6 DEF MadeInv

\* What an exception is of, is an exception of the constructor too.
LEMMA ExcusedMade ==
  ASSUME NEW c \in LayerConstructors, NEW p, DOMAIN p = DOMAIN Signature(c.kernel),
         Excused(c.kernel, p)
  PROVE  Excused(c.kernel, MadeBy(c, p))
<1>1. CASE c = vxScaleLayer
  <2>0. c.kernel = "scale"
    BY <1>1 DEF vxScaleLayer, Constructs
  <2>1. c.kernel = "scale" /\ DOMAIN p = 0 .. 3
    <3>1. DOMAIN Signature("scale") = 0 .. 3
      BY DEF Signature, Signatures, Listed, publishScaleLayer
    <3> QED BY <2>0, <3>1
  <2> DEFINE made == <<"passed", "passed", "passed", "passed">>
             q == MadeBy(Constructs("scale", made), p)
  <2>2. Len(made) = 4 /\ \A i \in 1 .. 4 : made[i] = "passed"
    OBVIOUS
  <2>3. c = Constructs("scale", made)
    BY <1>1 DEF vxScaleLayer, Passed
  <2> HIDE DEF made
  <2>4. q[1] = p[1] /\ q[2] = p[2]
    BY <2>1, <2>2, MadeArguments
  <2>5. q = MadeBy(c, p)
    BY <2>3
  <2> HIDE DEF q
  <2> QED BY <2>1, <2>4, <2>5 DEF Excused
<1>2. CASE c # vxScaleLayer
  <2>1. c.kernel # "scale"
    BY <1>2 DEF LayerConstructors, Constructs, vxConvolutionLayer, vxFullyConnectedLayer,
       vxPoolingLayer, vxSoftmaxLayer, vxNormalizationLayer, vxActivationLayer,
       vxDeconvolutionLayer, vxBatchNormalizationLayer, vxArgmaxLayer, vxConcatLayer,
       vxSliceLayer, vxConvertImageToTensorNode, vxConvertTensorToImageNode, vxTensorAddNode,
       vxTensorSubtractNode, vxTensorMultiplyNode, vxUpsampleNearestLayer,
       vxTensorTableLookupNode, vxTensorMatrixMultiplyNode, vxReshapeLayer
  <2> QED BY <2>1 DEF Excused
<1> QED BY <1>1, <1>2

\* At first there is no layer.
LEMMA MadeInitInv == ASSUME LayerInit PROVE MadeInv
<1>1. Len(layers) = 0 /\ status = "loading"
  BY DEF LayerInit
<1> QED BY <1>1 DEF MadeInv

\* What is true of the arguments that fit.
LEMMA FittingMeets ==
  ASSUME NEW kernel \in NeuralKernels, NEW p \in Fitting[kernel]
  PROVE  /\ DOMAIN p = DOMAIN Signature(kernel) /\ p = [i \in DOMAIN p |-> p[i]]
         /\ Acceptable(kernel, p) \/ Excused(kernel, p)
BY LayerAssumption, FittingAssumption

\* The constructors keep it.
LEMMA ConstructMade ==
  ASSUME LayersInv, MadeInv, ConstructLayer PROVE MadeInv'
<1>1. PICK c \in {c \in LayerConstructors : MayAdd(c.kernel)} :
        \E p \in Fitting[c.kernel] :
          \/ AddLayer(c.kernel, "constructor", TRUE, MadeBy(c, p))
          \/ /\ layers = <<>>
             /\ \E n \in 1 .. Len(c.made), a \in OddArguments :
                  /\ c.made[n] = Passed
                  /\ Replaceable(c.kernel, p, n - 1, a)
                  /\ AddLayer(c.kernel, "constructor", FALSE, MadeBy(c, [p EXCEPT ![n - 1] = a]))
  BY DEF ConstructLayer
<1>2. c \in LayerConstructors /\ c.kernel \in NeuralKernels /\ status = "building"
  BY <1>1 DEF MayAdd, LayersInv
<1>3. PICK p \in Fitting[c.kernel] :
        \/ AddLayer(c.kernel, "constructor", TRUE, MadeBy(c, p))
        \/ \E n \in 1 .. Len(c.made), a \in OddArguments :
             AddLayer(c.kernel, "constructor", FALSE, MadeBy(c, [p EXCEPT ![n - 1] = a]))
  BY <1>1
<1>4. CASE AddLayer(c.kernel, "constructor", TRUE, MadeBy(c, p))
  <2>1. /\ DOMAIN p = DOMAIN Signature(c.kernel) /\ p = [i \in DOMAIN p |-> p[i]]
        /\ Acceptable(c.kernel, p) \/ Excused(c.kernel, p)
    BY <1>2, FittingMeets
  <2>2. Acceptable(c.kernel, MadeBy(c, p)) \/ Excused(c.kernel, MadeBy(c, p))
    BY <1>2, <2>1, EveryLayerConstructed, ExcusedMade
  <2> QED BY <1>2, <1>4, <2>2, AddMade
<1>5. ASSUME NEW n \in 1 .. Len(c.made), NEW a \in OddArguments,
             AddLayer(c.kernel, "constructor", FALSE, MadeBy(c, [p EXCEPT ![n - 1] = a]))
      PROVE  MadeInv'
  BY <1>2, <1>5, AddMade
<1> QED BY <1>3, <1>4, <1>5

\* And a node made by hand.
LEMMA CreateMade ==
  ASSUME LayersInv, MadeInv, CreateLayer PROVE MadeInv'
<1>1. PICK kernel \in {k \in NeuralKernels : MayAdd(k)} : \E p \in Fitting[kernel] :
        \/ AddLayer(kernel, "hand", TRUE, p)
        \/ /\ layers = <<>>
           /\ \E i \in DOMAIN p, a \in OddArguments :
                /\ Replaceable(kernel, p, i, a)
                /\ AddLayer(kernel, "hand", FALSE, [p EXCEPT ![i] = a])
  BY DEF CreateLayer
<1>2. status = "building" /\ kernel \in NeuralKernels
  BY <1>1 DEF MayAdd
<1>3. PICK p \in Fitting[kernel] :
        \/ AddLayer(kernel, "hand", TRUE, p)
        \/ \E i \in DOMAIN p, a \in OddArguments :
             AddLayer(kernel, "hand", FALSE, [p EXCEPT ![i] = a])
  BY <1>1
<1>4. Acceptable(kernel, p) \/ Excused(kernel, p)
  BY <1>2, FittingMeets
<1>5. CASE AddLayer(kernel, "hand", TRUE, p)
  BY <1>2, <1>4, <1>5, AddMade
<1>6. ASSUME NEW i \in DOMAIN p, NEW a \in OddArguments,
             AddLayer(kernel, "hand", FALSE, [p EXCEPT ![i] = a])
      PROVE  MadeInv'
  BY <1>2, <1>6, AddMade
<1> QED BY <1>3, <1>5, <1>6

\* A graph is refused for a layer that may be refused, and else all may pass.
LEMMA VerifyMade == ASSUME LayersInv, MadeInv, VerifyLayers PROVE MadeInv'
<1>1. /\ layers' = layers
      /\ \/ (\A n \in 1 .. Len(layers) : MayPass(layers[n])) /\ status' = "initialising"
         \/ (\E n \in 1 .. Len(layers) : MayBeRefused(layers[n])) /\ status' = "refused"
  BY DEF VerifyLayers
<1>2. SameLayers
  BY <1>1 DEF SameLayers, SameNode
<1> QED BY <1>1, <1>2, SameLayersInv

\* An initializer that fails leaves its layer broken.
LEMMA InitializeSame ==
  ASSUME LayersInv, NEW n \in 1 .. Len(layers), InitializeLayer(n)
  PROVE  /\ SameLayers /\ status = "initialising" /\ status' # "refused"
         /\ status' = "failed" => layers'[n].broken
<1>1. NextToInitialize(n)
  BY DEF InitializeLayer
<1> DEFINE Made(workspace, compiles) ==
             Initializer(layers[n].kernel, layers[n].p,
                         [cbr |-> cbr, workspace |-> workspace, compiles |-> compiles])
           Left(begun, last) == [held |-> Touched(begun.steps, last), mode |-> begun.mode,
                                 fused |-> begun.fused, garbage |-> begun.garbage]
<1>20. PICK workspace \in BOOLEAN, compiles \in BOOLEAN :
        \E last \in Returns(Made(workspace, compiles).steps) :
          LET begun == Made(workspace, compiles)
              success == Len(begun.steps) + 1
          IN /\ layers' = [layers EXCEPT ![n].data = Left(begun, last),
                                         ![n].ready = (last = success),
                                         ![n].broken = (last # success)]
             /\ handle' = handle + Cardinality(Touched(begun.steps, last) \intersect {"handle"})
             /\ status' = IF last = success THEN After(n) ELSE "failed"
  BY DEF InitializeLayer
<1> DEFINE begun == Made(workspace, compiles)
           success == Len(begun.steps) + 1
<1>2. PICK last \in Returns(begun.steps) :
        /\ layers' = [layers EXCEPT ![n].data = Left(begun, last),
                                    ![n].ready = (last = success),
                                    ![n].broken = (last # success)]
        /\ status' = IF last = success THEN After(n) ELSE "failed"
  BY <1>20
<1> DEFINE data == Left(begun, last)
           done == last = success
           failed == last # success
           made == Returned(layers[n], data, done, failed)
<1>3. Changed(layers, n, made, layers')
  <2>1. DOMAIN layers = 1 .. Len(layers)
    BY DEF LayersInv, IsSeq
  <2> HIDE DEF data, success
  <2> QED BY <1>2, <2>1 DEF Changed, Returned, data
<1>4. SameNode(made, layers[n]) /\ made.broken = failed
  <2>1. Shape(layers[n])
    BY DEF LayersInv, LayerOK
  <2> HIDE DEF done, failed, data
  <2> QED BY <2>1, CallbackSameNode
<1> HIDE DEF made
<1>5. SameLayers /\ layers'[n] = made
  BY <1>3, <1>4, SameLayersWhenChanged
<1>6. status = "initialising"
  BY <1>1 DEF NextToInitialize
<1>7. status' = "failed" => layers'[n].broken
  <2> HIDE DEF success
  <2> QED BY <1>2, <1>4, <1>5 DEF After
<1>8. status' # "refused"
  BY <1>2 DEF After
<1> QED BY <1>5, <1>6, <1>7, <1>8

\* So it keeps the invariant.
LEMMA InitializeMade ==
  ASSUME LayersInv, MadeInv, NEW n \in 1 .. Len(layers), InitializeLayer(n) PROVE MadeInv'
BY InitializeSame, SameLayersInv

\* A kernel is generated for a layer as it is.
LEMMA GenerateSame ==
  ASSUME LayersInv, NEW n \in 1 .. Len(layers), GenerateKernel(n)
  PROVE  /\ SameLayers /\ status = "initialising" /\ status' # "refused"
         /\ layers[n].kernel \in Generating
         /\ status' = "failed" => ~Generated(layers[n].kernel, layers[n].p).compiles
<1>1. /\ NextToInitialize(n) /\ layers[n].kernel \in Generating
      /\ IF Generated(layers[n].kernel, layers[n].p).compiles
         THEN layers' = [layers EXCEPT ![n].ready = TRUE] /\ status' = After(n)
         ELSE layers' = layers /\ status' = "failed"
  BY DEF GenerateKernel
<1>2. status = "initialising"
  BY <1>1 DEF NextToInitialize
<1>3. CASE layers' = [layers EXCEPT ![n].ready = TRUE] /\ status' = After(n)
  <2> DEFINE made == [layers[n] EXCEPT !.ready = TRUE]
  <2>1. Changed(layers, n, made, layers')
    BY <1>3 DEF Changed
  <2>2. Shape(layers[n])
    BY DEF LayersInv, LayerOK
  <2>3. SameNode(made, layers[n])
    BY <2>2, CallbackSameNode
  <2> HIDE DEF made
  <2>4. SameLayers
    BY <2>1, <2>3, SameLayersWhenChanged
  <2>5. status' \notin {"refused", "failed"}
    BY <1>3 DEF After
  <2> QED BY <1>1, <1>2, <2>4, <2>5
<1>4. CASE /\ ~Generated(layers[n].kernel, layers[n].p).compiles
           /\ layers' = layers /\ status' = "failed"
  BY <1>1, <1>2, <1>4 DEF SameLayers, SameNode
<1> QED BY <1>1, <1>3, <1>4

\* A generated kernel that does not compile is one of the exceptions.
LEMMA GenerateMade ==
  ASSUME LayersInv, MadeInv, NEW n \in 1 .. Len(layers), GenerateKernel(n) PROVE MadeInv'
<1>1. status' = "failed" => DoesNotCompile(layers[n])
  BY GenerateSame, VerifiedCompiles DEF MadeInv
<1> QED BY <1>1, GenerateSame, SameLayersInv

\* A destructor changes nothing that matters here.
LEMMA UninitializeSame ==
  ASSUME LayersInv, NEW n \in 1 .. Len(layers), UninitializeLayer(n)
  PROVE  SameLayers /\ status' = "releasing"
<1>1. status = "releasing" /\ status' = status
  BY DEF UninitializeLayer
<1>2. PICK left, ready, broken :
        layers' = [layers EXCEPT ![n].data.held = left, ![n].ready = ready, ![n].broken = broken]
  BY DEF UninitializeLayer
<1> DEFINE data == [layers[n].data EXCEPT !.held = left]
           made == Returned(layers[n], data, ready, broken)
<1>3. Changed(layers, n, made, layers')
  <2>1. DOMAIN layers = 1 .. Len(layers)
    BY DEF LayersInv, IsSeq
  <2> QED BY <1>2, <2>1 DEF Changed, Returned
<1>4. SameNode(made, layers[n])
  <2>1. Shape(layers[n])
    BY DEF LayersInv, LayerOK
  <2> HIDE DEF data
  <2> QED BY <2>1, CallbackSameNode
<1> HIDE DEF made
<1>5. SameLayers
  BY <1>3, <1>4, SameLayersWhenChanged
<1> QED BY <1>1, <1>5

\* So it keeps the invariant.
LEMMA UninitializeMade ==
  ASSUME LayersInv, MadeInv, NEW n \in 1 .. Len(layers), UninitializeLayer(n) PROVE MadeInv'
BY UninitializeSame, SameLayersInv

\* Nor does an execution.
LEMMA ProcessSame ==
  ASSUME LayersInv, ProcessLayers PROVE SameLayers /\ status' \in {"processed", "exited"}
<1>1. /\ status' \in {"processed", "exited"}
      /\ layers' = IF status' = "exited" THEN layers
                   ELSE [n \in DOMAIN layers |->
                           [layers[n] EXCEPT !.applied =
                              UNION {call.applies : call \in Calls(layers[n])}]]
  BY DEF ProcessLayers
<1>2. SameLayers
  <2>1. CASE status' = "exited"
    BY <1>1, <2>1 DEF SameLayers, SameNode
  <2>2. CASE status' # "exited"
    <3> DEFINE applied(n) == UNION {call.applies : call \in Calls(layers[n])}
    <3>1. layers' = [n \in DOMAIN layers |-> [layers[n] EXCEPT !.applied = applied(n)]]
      BY <1>1, <2>2
    <3> HIDE DEF applied
    <3>2. Len(layers) \in Nat /\ DOMAIN layers = 1 .. Len(layers)
      BY DEF LayersInv, IsSeq
    <3>3. layers' = [n \in 1 .. Len(layers) |-> layers'[n]]
      BY <3>1, <3>2
    <3>4. Len(layers') = Len(layers)
      BY <3>2, <3>3, FunctionIsSeq
    <3>5. ASSUME NEW n \in 1 .. Len(layers) PROVE SameNode(layers'[n], layers[n])
      <4>1. Shape(layers[n])
        BY DEF LayersInv, LayerOK
      <4>2. layers'[n] = [layers[n] EXCEPT !.applied = applied(n)]
        BY <3>1, <3>2
      <4>3. \A a : SameNode([layers[n] EXCEPT !.applied = a], layers[n])
        BY <4>1, CallbackSameNode
      <4> QED BY <4>2, <4>3
    <3> QED BY <3>4, <3>5 DEF SameLayers
  <2> QED BY <2>1, <2>2
<1> QED BY <1>1, <1>2

\* So it keeps the invariant.
LEMMA ProcessMade == ASSUME LayersInv, MadeInv, ProcessLayers PROVE MadeInv'
BY ProcessSame, SameLayersInv

\* Every step keeps the invariant.
LEMMA MadeStepInv ==
  ASSUME LayersInv, MadeInv, [LayerNext]_layerVars PROVE MadeInv'
<1>1. CASE nnPublishKernels
  <2>1. layers' = layers /\ status' = "building"
    BY <1>1 DEF nnPublishKernels
  <2> QED BY <2>1 DEF MadeInv
<1>2. CASE ConstructLayer
  BY <1>2, ConstructMade
<1>3. CASE CreateLayer
  BY <1>3, CreateMade
<1>4. CASE VerifyLayers
  BY <1>4, VerifyMade
<1>5. ASSUME NEW n \in 1 .. Len(layers),
             InitializeLayer(n) \/ GenerateKernel(n) \/ UninitializeLayer(n)
      PROVE  MadeInv'
  BY <1>5, InitializeMade, GenerateMade, UninitializeMade
<1>6. CASE ProcessLayers
  BY <1>6, ProcessMade
<1>7. CASE ReleaseLayers \/ LayersGone
  <2>1. layers' = layers /\ status' \in {"releasing", "released"}
    BY <1>7 DEF ReleaseLayers, LayersGone
  <2>2. SameLayers
    BY <2>1 DEF SameLayers, SameNode
  <2> QED BY <2>1, <2>2, SameLayersInv
<1>8. CASE UNCHANGED layerVars
  <2>1. layers' = layers /\ status' = status
    BY <1>8 DEF layerVars
  <2> QED BY <2>1 DEF MadeInv
<1> QED BY <1>1, <1>2, <1>3, <1>4, <1>5, <1>6, <1>7, <1>8 DEF LayerNext

\* What it says of the property.
LEMMA MadeVerifies == ASSUME MadeInv PROVE ConstructedLayersVerify
<1>1. ASSUME status = "refused"
      PROVE  \E n \in 1 .. Len(layers) :
               ~layers[n].fits \/ Excused(layers[n].kernel, layers[n].p)
  <2>1. PICK n \in 1 .. Len(layers) : MayBeRefused(layers[n])
    BY <1>1 DEF MadeInv
  <2>2. ~Acceptable(layers[n].kernel, layers[n].p)
    BY <2>1, AcceptableNotRefused
  <2> QED BY <2>2 DEF MadeInv, Meets
<1> QED BY <1>1 DEF MadeInv, ConstructedLayersVerify

-------------------------------------------------------------------------------
(***************************************************************************)
(* Numbers: what the memory of tensors, and the generators' loops, are made of. *)
(***************************************************************************)
\* A set of natural numbers that is not empty has a least one.
LEMMA LeastNumber ==
  ASSUME NEW S, S \subseteq Nat, S # {} PROVE \E x \in S : \A y \in S : x <= y
<1>1. PICK x \in S : \A y \in S : <<y, x>> \notin OpToRel(<, Nat)
  BY NatLessThanWellFounded, WFMin
<1>2. \A y \in S : ~(y < x)
  BY <1>1 DEF OpToRel
<1> QED BY <1>2

\* A set of natural numbers that has 0, and with each number the next, has all up to m.
LEMMA UpTo ==
  ASSUME NEW m \in Nat, NEW S, 0 \in S, \A k \in 0 .. m - 1 : k \in S => k + 1 \in S
  PROVE  \A k \in 0 .. m : k \in S
<1> SUFFICES ASSUME NEW j \in 0 .. m, j \notin S PROVE FALSE
  OBVIOUS
<1> DEFINE T == {k \in 0 .. m : k \notin S}
<1>1. T \subseteq Nat /\ T # {}
  OBVIOUS
<1>2. PICK k \in T : \A i \in T : k <= i
  BY <1>1, LeastNumber
<1>3. k # 0 /\ k \in 0 .. m /\ k \notin S
  BY <1>2
<1>4. k - 1 \in 0 .. m - 1 /\ k - 1 \notin T
  BY <1>2, <1>3
<1>5. k - 1 \in S
  BY <1>4
<1> QED BY <1>3, <1>4, <1>5

\* Quotient and remainder.
LEMMA Division ==
  ASSUME NEW b \in Nat \ {0}, NEW a \in Nat
  PROVE  \E q \in Nat, r \in 0 .. b - 1 : a = r + (b * q)
<1> DEFINE Split(d) == \E q \in Nat, r \in 0 .. b - 1 : d = r + (b * q)
           S == {n \in Nat : \A d \in 0 .. n : Split(d)}
<1>1. \A d \in 0 .. b - 1 : Split(d)
  <2>1. \A d \in 0 .. b - 1 : d = d + (b * 0)
    OBVIOUS
  <2> QED BY <2>1
<1>2. \A d \in Nat : Split(d) => Split(d + b)
  <2> SUFFICES ASSUME NEW d \in Nat, NEW q \in Nat, NEW r \in 0 .. b - 1, d = r + (b * q)
               PROVE  Split(d + b)
    OBVIOUS
  <2>1. d + b = r + (b * (q + 1)) /\ q + 1 \in Nat
    OBVIOUS
  <2> QED BY <2>1
<1> HIDE DEF Split
<1>3. 0 \in S
  BY <1>1
<1>4. ASSUME NEW n \in Nat, n \in S PROVE n + 1 \in S
  <2>1. Split(n + 1)
    <3>1. CASE n + 1 < b
      BY <1>1, <3>1
    <3>2. CASE n + 1 >= b
      <4>1. n + 1 - b \in 0 .. n
        BY <3>2
      <4> QED BY <1>2, <1>4, <4>1
    <3> QED BY <3>1, <3>2
  <2> QED BY <1>4, <2>1
<1> HIDE DEF S
<1>5. a \in S
  BY <1>3, <1>4, UpTo
<1> QED BY <1>5 DEF S, Split

\* The numbers up to b * k, by remainder and quotient.
LEMMA InRows ==
  ASSUME NEW b \in Nat, NEW k \in Nat
  PROVE  /\ \A e \in 0 .. (b * k) - 1 : \E r \in 0 .. b - 1, q \in 0 .. k - 1 : e = r + (b * q)
         /\ \A r \in 0 .. b - 1, q \in 0 .. k - 1 : r + (b * q) \in 0 .. (b * k) - 1
<1>1. ASSUME NEW e \in 0 .. (b * k) - 1
      PROVE  \E r \in 0 .. b - 1, q \in 0 .. k - 1 : e = r + (b * q)
  <2>1. b \in Nat \ {0} /\ e \in Nat
    BY <1>1
  <2>2. PICK q \in Nat, r \in 0 .. b - 1 : e = r + (b * q)
    BY <2>1, Division
  <2>3. b * q < b * k
    BY <1>1, <2>2
  <2>4. q < k
    <3>1. SUFFICES ASSUME q >= k PROVE FALSE
      BY <2>2
    <3>2. b * (q - k) >= 0 /\ b * (q - k) = (b * q) - (b * k)
      BY <2>2, <3>1
    <3> QED BY <2>2, <2>3, <3>2
  <2> QED BY <2>2, <2>4
<1>2. ASSUME NEW r \in 0 .. b - 1, NEW q \in 0 .. k - 1
      PROVE  r + (b * q) \in 0 .. (b * k) - 1
  <2>1. b * (k - 1 - q) >= 0 /\ b * (k - 1 - q) = (b * k) - b - (b * q)
    BY <1>2
  <2>2. b * q \in Nat /\ b * k \in Nat
    BY <1>2
  <2> QED BY <1>2, <2>1, <2>2
<1> QED BY <1>1, <1>2

\* Work items that do `step' elements each do all, when step divides their number.
LEMMA LanesCover ==
  ASSUME NEW w \in Nat, NEW step \in {1, 4}, w % step = 0, NEW x
  PROVE  x \in 0 .. w - 1 <=> \E x0 \in Items(w, step) : x \in Lanes(x0, step)
<1>1. CASE step = 1
  <2>1. \A y \in Int : y % 1 = 0
    OBVIOUS
  <2>2. \A y \in Items(w, 1) : y \in 0 .. w - 1
    BY DEF Items
  <2>3. \A y \in 0 .. w - 1 : y \in Items(w, 1)
    BY <2>1 DEF Items
  <2>4. \A y \in Int : x \in Lanes(y, 1) <=> x = y
    BY DEF Lanes
  <2> QED BY <1>1, <2>2, <2>3, <2>4
<1>2. CASE step = 4
  <2>1. ASSUME x \in 0 .. w - 1
        PROVE  \E x0 \in Items(w, 4) : x \in Lanes(x0, 4)
    <3>1. x - (x % 4) \in Items(w, 4) /\ x \in Lanes(x - (x % 4), 4)
      BY <2>1 DEF Items, Lanes
    <3> QED BY <3>1
  <2>2. ASSUME NEW x0 \in Items(w, 4), x \in Lanes(x0, 4)
        PROVE  x \in 0 .. w - 1
    BY <1>2, <2>2 DEF Items, Lanes
  <2> QED BY <1>2, <2>1, <2>2
<1> QED BY <1>1, <1>2

-------------------------------------------------------------------------------
(***************************************************************************)
(* The generated kernels write what they are to write, of every shape.     *)
(***************************************************************************)
\* A tensor of four dimensions, none of them zero.
Extents(t) == W(t) \in Nat \ {0} /\ H(t) \in Nat \ {0} /\ C(t) \in Nat \ {0} /\ N(t) \in Nat \ {0}

\* The coordinates of a tensor's elements, and of channels of them.
Coordinates(t, channels) ==
  ((0 .. W(t) - 1) \X (0 .. H(t) - 1)) \X ((0 .. channels - 1) \X (0 .. N(t) - 1))

\* What is a tuple of coordinates.
LEMMA InCoordinates ==
  ASSUME NEW t, NEW channels
  PROVE  /\ \A q \in Coordinates(t, channels) :
              /\ q[1][1] \in 0 .. W(t) - 1 /\ q[1][2] \in 0 .. H(t) - 1
              /\ q[2][1] \in 0 .. channels - 1 /\ q[2][2] \in 0 .. N(t) - 1
         /\ \A x \in 0 .. W(t) - 1, y \in 0 .. H(t) - 1,
               c \in 0 .. channels - 1, n \in 0 .. N(t) - 1 :
              <<<<x, y>>, <<c, n>>>> \in Coordinates(t, channels)
BY DEF Coordinates

\* Images are converted to tensors exactly.
LEMMA ImageToTensorExact ==
  ASSUME NEW p, Extents(p[1]), p[0].type \in {"RGB", "U8"}, C(p[1]) = Channels(p[0].type),
         p[0].type = "U8" => W(p[1]) % 4 = 0
  PROVE  image_to_tensor_codegen(p) = Intended("image_to_tensor", p)
<1> DEFINE t == p[1]
           e(depth, x, y, c, d, n) ==
             Move(<<1, At(t, x, y, c, n)>>, <<0, Pixel(t, depth, x, y, d, n)>>)
           whose(depth, c) == IF depth = 3 /\ p[4].value = 1 THEN 2 - c ELSE c
           all(channels) == Coordinates(t, channels)
           intended(channels) ==
             {e(channels, q[1][1], q[1][2], q[2][1], whose(channels, q[2][1]), q[2][2]) :
                q \in all(channels)}
<1>1. Intended("image_to_tensor", p) = intended(C(t))
  BY DEF Intended, Coordinates
<1>2. \A channels, m :
        m \in intended(channels) <=>
          \E x \in 0 .. W(t) - 1, y \in 0 .. H(t) - 1,
             c \in 0 .. channels - 1, n \in 0 .. N(t) - 1 :
            m = e(channels, x, y, c, whose(channels, c), n)
  <2> TAKE channels, m
  <2> HIDE DEF e, whose, all, t
  <2>1. ASSUME m \in intended(channels)
        PROVE  \E x \in 0 .. W(t) - 1, y \in 0 .. H(t) - 1,
                  c \in 0 .. channels - 1, n \in 0 .. N(t) - 1 :
                 m = e(channels, x, y, c, whose(channels, c), n)
    <3>1. PICK q \in all(channels) :
            m = e(channels, q[1][1], q[1][2], q[2][1], whose(channels, q[2][1]), q[2][2])
      BY <2>1
    <3> QED BY <3>1, InCoordinates DEF all
  <2>2. ASSUME NEW x \in 0 .. W(t) - 1, NEW y \in 0 .. H(t) - 1, NEW c \in 0 .. channels - 1,
               NEW n \in 0 .. N(t) - 1, m = e(channels, x, y, c, whose(channels, c), n)
        PROVE  m \in intended(channels)
    <3> DEFINE q == <<<<x, y>>, <<c, n>>>>
    <3>1. q \in all(channels)
      BY InCoordinates DEF all
    <3>2. q[1][1] = x /\ q[1][2] = y /\ q[2][1] = c /\ q[2][2] = n
      OBVIOUS
    <3> QED BY <2>2, <3>1, <3>2
  <2> QED BY <2>1, <2>2
<1> HIDE DEF intended, all
<1>3. CASE p[0].type = "RGB"
  <2>1. C(t) = 3
    BY <1>3 DEF Channels
  <2>2. image_to_tensor_codegen(p) =
          {e(3, x, y, c, Channel(p, c), n) :
             x \in 0 .. W(t) - 1, y \in 0 .. H(t) - 1, c \in 0 .. 2, n \in 0 .. N(t) - 1}
    BY <1>3 DEF image_to_tensor_codegen
  <2>3. \A c : whose(3, c) = Channel(p, c)
    BY DEF Channel
  <2> HIDE DEF e, whose, t
  <2>4. \A m : m \in image_to_tensor_codegen(p) <=> m \in intended(3)
    BY <1>2, <2>2, <2>3
  <2> QED BY <1>1, <2>1, <2>4
<1>4. CASE p[0].type = "U8"
  <2>1. C(t) = 1 /\ W(t) % 4 = 0
    BY <1>4 DEF Channels
  <2> DEFINE four(x0, y, n) == {e(1, x, y, 0, 0, n) : x \in Lanes(x0, 4)}
  <2>2. image_to_tensor_codegen(p) =
          UNION {four(x0, y, n) :
                   x0 \in Items(W(t), 4), y \in 0 .. H(t) - 1, n \in 0 .. N(t) - 1}
    BY <1>4 DEF image_to_tensor_codegen
  <2>3. \A c : whose(1, c) = c
    OBVIOUS
  <2>4. \A x : x \in 0 .. W(t) - 1 <=> \E x0 \in Items(W(t), 4) : x \in Lanes(x0, 4)
    BY <2>1, LanesCover DEF Extents
  <2>5. \A c : c \in 0 .. 1 - 1 <=> c = 0
    OBVIOUS
  <2> HIDE DEF e, whose, t
  <2>6. \A m : m \in image_to_tensor_codegen(p) <=>
               \E x \in 0 .. W(t) - 1, y \in 0 .. H(t) - 1, n \in 0 .. N(t) - 1 :
                 m = e(1, x, y, 0, 0, n)
    <3>1. ASSUME NEW m \in image_to_tensor_codegen(p)
          PROVE  \E x \in 0 .. W(t) - 1, y \in 0 .. H(t) - 1, n \in 0 .. N(t) - 1 :
                   m = e(1, x, y, 0, 0, n)
      <4>1. PICK x0 \in Items(W(t), 4), y \in 0 .. H(t) - 1, n \in 0 .. N(t) - 1 :
              m \in four(x0, y, n)
        BY <2>2
      <4> QED BY <2>4, <4>1
    <3>2. ASSUME NEW x \in 0 .. W(t) - 1, NEW y \in 0 .. H(t) - 1, NEW n \in 0 .. N(t) - 1
          PROVE  e(1, x, y, 0, 0, n) \in image_to_tensor_codegen(p)
      <4>1. PICK x0 \in Items(W(t), 4) : x \in Lanes(x0, 4)
        BY <2>4
      <4>2. e(1, x, y, 0, 0, n) \in four(x0, y, n)
        BY <4>1
      <4> HIDE DEF four
      <4> QED BY <2>2, <4>2
    <3> QED BY <3>1, <3>2
  <2>7. \A m : m \in image_to_tensor_codegen(p) <=> m \in intended(1)
    BY <1>2, <2>3, <2>5, <2>6
  <2> QED BY <1>1, <2>1, <2>7
<1> QED BY <1>3, <1>4

\* Tensors are converted to images exactly.
LEMMA TensorToImageExact ==
  ASSUME NEW p, Extents(p[0]), C(p[0]) \in {1, 3}, W(p[0]) % 4 = 0,
         p[1].type \in {PictureFormat(p[0]), "VIRT"}
  PROVE  tensor_to_image_codegen(p) = Intended("tensor_to_image", p)
<1> DEFINE t == p[0]
           depth == Depth(p)
           whose(c) == IF depth = 3 THEN Channel(p, c) ELSE c
           e(x, y, c, d, n) == Move(<<1, Pixel(t, depth, x, y, d, n)>>, <<0, At(t, x, y, c, n)>>)
           four(x0, y, c, n) == {e(x, y, whose(c), c, n) : x \in Lanes(x0, 4)}
           all == Coordinates(t, depth)
<1>1. depth = C(t)
  BY DEF Depth, PictureFormat
<1>2. tensor_to_image_codegen(p) =
        UNION {four(x0, y, c, n) :
                 x0 \in Items(W(t), 4), y \in 0 .. H(t) - 1,
                 c \in 0 .. depth - 1, n \in 0 .. N(t) - 1}
  BY DEF tensor_to_image_codegen
<1>3. \A x : x \in 0 .. W(t) - 1 <=> \E x0 \in Items(W(t), 4) : x \in Lanes(x0, 4)
  BY LanesCover DEF Extents
<1>4. \A c \in 0 .. depth - 1 : whose(c) \in 0 .. depth - 1 /\ whose(whose(c)) = c
  BY <1>1 DEF Channel
<1>5. \A m : m \in Intended("tensor_to_image", p) <=>
             \E q \in all : m = e(q[1][1], q[1][2], q[2][1], whose(q[2][1]), q[2][2])
  <2> DEFINE given(c) == IF C(t) = 3 /\ p[4].value = 1 THEN 2 - c ELSE c
  <2>1. Intended("tensor_to_image", p) =
          {Move(<<1, Pixel(t, C(t), q[1][1], q[1][2], given(q[2][1]), q[2][2])>>,
                <<0, At(t, q[1][1], q[1][2], q[2][1], q[2][2])>>) : q \in Coordinates(t, C(t))}
    BY DEF Intended, Coordinates
  <2>2. \A c : given(c) = whose(c)
    BY <1>1 DEF Channel
  <2> HIDE DEF given, whose, depth
  <2> QED BY <1>1, <2>1, <2>2
<1>6. ASSUME NEW m \in tensor_to_image_codegen(p) PROVE m \in Intended("tensor_to_image", p)
  <2> HIDE DEF four
  <2>1. PICK x0 \in Items(W(t), 4), y \in 0 .. H(t) - 1, c \in 0 .. depth - 1, n \in 0 .. N(t) - 1 :
          m \in four(x0, y, c, n)
    BY <1>2
  <2>2. PICK x \in Lanes(x0, 4) : m = e(x, y, whose(c), c, n)
    BY <2>1 DEF four
  <2> DEFINE q == <<<<x, y>>, <<whose(c), n>>>>
  <2>3. q \in all
    BY <1>3, <1>4, InCoordinates
  <2>4. q[1][1] = x /\ q[1][2] = y /\ q[2][1] = whose(c) /\ q[2][2] = n /\ whose(whose(c)) = c
    BY <1>4
  <2> HIDE DEF all, q
  <2> QED BY <1>5, <2>2, <2>3, <2>4
<1>7. ASSUME NEW m \in Intended("tensor_to_image", p) PROVE m \in tensor_to_image_codegen(p)
  <2>1. PICK q \in all : m = e(q[1][1], q[1][2], q[2][1], whose(q[2][1]), q[2][2])
    BY <1>5
  <2>2. /\ q[1][1] \in 0 .. W(t) - 1 /\ q[1][2] \in 0 .. H(t) - 1
        /\ q[2][1] \in 0 .. depth - 1 /\ q[2][2] \in 0 .. N(t) - 1
    BY InCoordinates
  <2> DEFINE c == whose(q[2][1])
  <2>3. c \in 0 .. depth - 1 /\ whose(c) = q[2][1]
    BY <1>4, <2>2
  <2>4. PICK x0 \in Items(W(t), 4) : q[1][1] \in Lanes(x0, 4)
    BY <1>3, <2>2
  <2>5. m \in four(x0, q[1][2], c, q[2][2])
    BY <2>1, <2>3, <2>4
  <2> HIDE DEF four, c
  <2> QED BY <1>2, <2>2, <2>3, <2>5
<1> QED BY <1>6, <1>7

\* Values are repeated exactly, batch by batch as if they were channels.
LEMMA UpsampleExact ==
  ASSUME NEW p, Extents(p[0]), p[1].dims = <<2 * W(p[0]), 2 * H(p[0]), C(p[0]), N(p[0])>>
  PROVE  upsample_codegen(p) = Intended("upsample_nearest", p)
<1> DEFINE t == p[0]
           u == p[1]
           to(x, y, dx, dy, c) == At(u, (2 * x) + dx, (2 * y) + dy, c, 0)
           e(x, y, dx, dy, c) == Move(<<1, to(x, y, dx, dy, c)>>, <<0, At(t, x, y, c, 0)>>)
           f(x, y, c, n) == Move(<<1, At(u, x, y, c, n)>>, <<0, At(t, x \div 2, y \div 2, c, n)>>)
           all == Coordinates(u, C(u))
<1>1. Intended("upsample_nearest", p) = {f(q[1][1], q[1][2], q[2][1], q[2][2]) : q \in all}
  BY DEF Intended, Coordinates
<1>2. upsample_codegen(p) =
        {e(x, y, dx, dy, c) : x \in 0 .. W(t) - 1, y \in 0 .. H(t) - 1,
                              c \in 0 .. (C(t) * N(t)) - 1, dx \in 0 .. 1, dy \in 0 .. 1}
  BY DEF upsample_codegen
<1>3. W(u) = 2 * W(t) /\ H(u) = 2 * H(t) /\ C(u) = C(t) /\ N(u) = N(t)
  BY DEF W, H, C, N
<1>4. W(t) \in Nat /\ H(t) \in Nat /\ C(t) \in Nat /\ N(t) \in Nat
  BY DEF Extents
<1>5. \A x, y : \A c \in Nat, n \in Nat :
        At(u, x, y, c + (C(t) * n), 0) = At(u, x, y, c, n)
        /\ At(t, x, y, c + (C(t) * n), 0) = At(t, x, y, c, n)
  <2> TAKE x, y
  <2> TAKE c \in Nat, n \in Nat
  <2>1. c + (C(t) * n) + (C(t) * 0) = c + (C(t) * n)
    BY <1>4
  <2> QED BY <1>3, <2>1 DEF At
<1>6. ASSUME NEW m \in upsample_codegen(p) PROVE m \in Intended("upsample_nearest", p)
  <2>1. PICK x \in 0 .. W(t) - 1, y \in 0 .. H(t) - 1, c \in 0 .. (C(t) * N(t)) - 1,
             dx \in 0 .. 1, dy \in 0 .. 1 : m = e(x, y, dx, dy, c)
    BY <1>2
  <2>2. PICK r \in 0 .. C(t) - 1, n \in 0 .. N(t) - 1 : c = r + (C(t) * n)
    <3>1. \A d \in 0 .. (C(t) * N(t)) - 1 :
            \E r \in 0 .. C(t) - 1, n \in 0 .. N(t) - 1 : d = r + (C(t) * n)
      BY <1>4, InRows, Zenon
    <3> QED BY <3>1
  <2> DEFINE q == <<<<(2 * x) + dx, (2 * y) + dy>>, <<r, n>>>>
  <2>3. (2 * x) + dx \in 0 .. W(u) - 1 /\ (2 * y) + dy \in 0 .. H(u) - 1
    BY <1>3, <1>4
  <2>4. q \in all
    BY <1>3, <2>3, InCoordinates
  <2>5. ((2 * x) + dx) \div 2 = x /\ ((2 * y) + dy) \div 2 = y
    BY <1>4
  <2>6. m = f((2 * x) + dx, (2 * y) + dy, r, n)
    <3>1. r \in Nat /\ n \in Nat
      BY <1>4
    <3> HIDE DEF t, u
    <3> QED BY <1>5, <2>1, <2>2, <2>5, <3>1
  <2> HIDE DEF f, all
  <2> QED BY <1>1, <2>4, <2>6
<1>7. ASSUME NEW m \in Intended("upsample_nearest", p) PROVE m \in upsample_codegen(p)
  <2>1. PICK q \in all : m = f(q[1][1], q[1][2], q[2][1], q[2][2])
    BY <1>1
  <2> DEFINE x == q[1][1] \div 2
             y == q[1][2] \div 2
             c == q[2][1] + (C(t) * q[2][2])
             dx == q[1][1] % 2
             dy == q[1][2] % 2
  <2>2. /\ q[1][1] \in 0 .. W(u) - 1 /\ q[1][2] \in 0 .. H(u) - 1
        /\ q[2][1] \in 0 .. C(t) - 1 /\ q[2][2] \in 0 .. N(t) - 1
    BY <1>3, InCoordinates
  <2>3. x \in 0 .. W(t) - 1 /\ y \in 0 .. H(t) - 1 /\ dx \in 0 .. 1 /\ dy \in 0 .. 1
    BY <1>3, <1>4, <2>2
  <2>4. (2 * x) + dx = q[1][1] /\ (2 * y) + dy = q[1][2]
    BY <1>3, <1>4, <2>2
  <2>5. c \in 0 .. (C(t) * N(t)) - 1
    BY <1>4, <2>2, InRows
  <2>6. m = e(x, y, dx, dy, c)
    <3>1. q[2][1] \in Nat /\ q[2][2] \in Nat
      BY <1>4, <2>2
    <3> HIDE DEF t, u
    <3> QED BY <1>5, <2>1, <2>4, <3>1
  <2> HIDE DEF e, x, y, dx, dy, c
  <2> QED BY <1>2, <2>3, <2>5, <2>6
<1> QED BY <1>6, <1>7

\* The greatest channels are taken of every pixel, and put where they belong, when
\* the output has the pixels of the input.
LEMMA ArgmaxExact ==
  ASSUME NEW p, Extents([dims |-> Behind(1, 1, p[0].dims)]),
         Strides(p) = ArgmaxOutput(p), output_data_type(p) = ArgmaxElement(p),
         output_data_type(p) # "INT16",
         W(Strides(p)) = Behind(1, 1, p[0].dims)[1], H(Strides(p)) = Behind(1, 1, p[0].dims)[2],
         N(Strides(p)) = Behind(1, 1, p[0].dims)[4], C(Strides(p)) = Ranks(p[1]),
         Ranks(p[1]) \in Nat, Behind(1, 1, p[0].dims)[3] >= Ranks(p[1]),
         Behind(1, 1, p[0].dims)[3] <= Indexes(output_data_type(p))
  PROVE  argmax_codegen(p) = Intended("argmax", p)
<1> DEFINE in == [dims |-> Behind(1, 1, p[0].dims)]
           ranks == Ranks(p[1])
           out == Strides(p)
           type == output_data_type(p)
           step == InOneGo(p[0])
           e(x, y, c, k, n) ==
             Move(<<1, At(out, x, y, c, n), type>>, <<0, At(in, x, y, 0, n), C(in), k, TRUE>>)
           lane(x0, y, n, k) == {e(x, y, k - 1, k, n) : x \in Lanes(x0, step)}
           all == Coordinates(out, ranks)
<1>1. Intended("argmax", p) = {e(q[1][1], q[1][2], q[2][1], q[2][1] + 1, q[2][2]) : q \in all}
  BY DEF Intended, Coordinates
<1>2. argmax_codegen(p) =
        UNION {lane(x0, y, n, k) : x0 \in Items(W(in), step), y \in 0 .. H(in) - 1,
                                   n \in 0 .. N(in) - 1, k \in 1 .. ranks}
  <2> DEFINE read == IF C(in) < ranks THEN ranks ELSE C(in)
             kept == C(in) <= Indexes(type)
             g(x, y, k, n) ==
               Move(<<1, At(out, x, y, k - 1, n), type>>,
                    <<0, At(in, x, y, 0, n), read, k, kept>>)
             some(x0, y, n, k) == {g(x, y, k, n) : x \in Lanes(x0, step)}
  <2>1. argmax_codegen(p) =
          UNION {some(x0, y, n, k) : x0 \in Items(W(in), step), y \in 0 .. H(in) - 1,
                                     n \in 0 .. N(in) - 1, k \in 1 .. ranks}
    BY DEF argmax_codegen, OnlyIf
  <2>2. read = C(in) /\ kept = TRUE
    BY DEF Extents, C
  <2>3. \A x0, y, n, k : some(x0, y, n, k) = lane(x0, y, n, k)
    <3> HIDE DEF in, out, read, ranks, kept, type
    <3> QED BY <2>2
  <2> HIDE DEF some, lane, in, ranks, out, step
  <2> QED BY <2>1, <2>3
<1>3. /\ W(out) = W(in) /\ H(out) = H(in) /\ N(out) = N(in)
      /\ step \in {1, 4} /\ W(in) % step = 0 /\ W(in) \in Nat /\ ranks \in Nat
  BY DEF W, H, N, InOneGo, Extents
<1>4. \A x : x \in 0 .. W(in) - 1 <=> \E x0 \in Items(W(in), step) : x \in Lanes(x0, step)
  <2> HIDE DEF in, step
  <2> QED BY <1>3, LanesCover
<1> HIDE DEF in, ranks, out, step, type, e
<1>5. ASSUME NEW m \in argmax_codegen(p) PROVE m \in Intended("argmax", p)
  <2> HIDE DEF lane
  <2>1. PICK x0 \in Items(W(in), step), y \in 0 .. H(in) - 1,
             n \in 0 .. N(in) - 1, k \in 1 .. ranks :
          m \in lane(x0, y, n, k)
    BY <1>2
  <2>2. PICK x \in Lanes(x0, step) : m = e(x, y, k - 1, k, n)
    BY <2>1 DEF lane
  <2> DEFINE q == <<<<x, y>>, <<k - 1, n>>>>
  <2>3. k - 1 \in 0 .. ranks - 1
    BY <1>3
  <2>4. q \in all
    BY <1>3, <1>4, <2>3, InCoordinates
  <2>5. q[1][1] = x /\ q[1][2] = y /\ q[2][1] = k - 1 /\ q[2][1] + 1 = k /\ q[2][2] = n
    BY <1>3
  <2> HIDE DEF all, q
  <2> QED BY <1>1, <2>2, <2>4, <2>5
<1>6. ASSUME NEW m \in Intended("argmax", p) PROVE m \in argmax_codegen(p)
  <2>1. PICK q \in all : m = e(q[1][1], q[1][2], q[2][1], q[2][1] + 1, q[2][2])
    BY <1>1
  <2>2. /\ q[1][1] \in 0 .. W(in) - 1 /\ q[1][2] \in 0 .. H(in) - 1
        /\ q[2][1] \in 0 .. ranks - 1 /\ q[2][2] \in 0 .. N(in) - 1
    BY <1>3, InCoordinates
  <2> DEFINE k == q[2][1] + 1
  <2>3. k \in 1 .. ranks /\ k - 1 = q[2][1]
    BY <1>3, <2>2
  <2>4. PICK x0 \in Items(W(in), step) : q[1][1] \in Lanes(x0, step)
    BY <1>4, <2>2
  <2>5. m \in lane(x0, q[1][2], q[2][2], k)
    BY <2>1, <2>3, <2>4
  <2> HIDE DEF lane, k
  <2> QED BY <1>2, <2>2, <2>3, <2>5
<1> QED BY <1>5, <1>6

\* A value is looked up where the table has its entry, or else at its end.
LEMMA LookupExact ==
  ASSUME NEW p, p[0].type \in {"UINT8", "INT16"}, p[1].type = p[2].type,
         ~(p[0].type = "INT16" /\ p[2].type = "UINT8"),
         ~(p[0].type = "INT16" /\ Elements(p[0]) % 2 = 0),
         p[1].count \in Nat, p[1].offset \in Nat,
         p[1].type = "UINT8" => p[1].count = 256 /\ p[1].offset = 0
  PROVE  tensor_table_lookup(p).moves = Intended("tensor_table_lookup", p)
<1> DEFINE packed == Elements(p[0]) % (IF p[0].type = "INT16" THEN 2 ELSE 4) = 0
           entry(v) == CASE p[2].type = "UINT8" -> lut_U8U8(p[1], v)
                         [] p[2].type # "UINT8" /\ p[0].type = "UINT8" -> lut_S16U8(p[1], v)
                         [] p[0].type = "INT16" /\ ~packed -> lut_S16S16(p[1], v)
                         [] p[0].type = "INT16" /\ packed -> lut_S16S16_packed(p[1], v)
           within(v) == Within(v, min_idx(p[1]), max_idx(p[1]))
           found == [v \in Sampled(p[0].type) |-> entry(v)]
           meant == [v \in Sampled(p[0].type) |-> within(v)]
<1>1. tensor_table_lookup(p).moves =
        {Move(<<2, id>>, <<0, id, found>>) : id \in 0 .. Elements(p[0]) - 1}
  BY DEF tensor_table_lookup, GpuKernel
<1>2. Intended("tensor_table_lookup", p) =
        {Move(<<2, id>>, <<0, id, meant>>) : id \in 0 .. Elements(p[0]) - 1}
  BY DEF Intended
<1>3. ASSUME NEW v \in Sampled(p[0].type) PROVE entry(v) = within(v)
  <2>1. CASE p[2].type = "UINT8"
    <3>1. p[0].type = "UINT8" /\ entry(v) = v
      BY <2>1 DEF lut_U8U8
    <3>2. v \in 0 .. 255
      BY <3>1 DEF Sampled
    <3> QED BY <2>1, <3>1, <3>2 DEF Within, min_idx, max_idx
  <2>2. CASE p[2].type # "UINT8" /\ p[0].type = "UINT8"
    <3>1. entry(v) = lut_S16U8(p[1], v)
      BY <2>2
    <3>2. v \in 0 .. 255
      BY <2>2 DEF Sampled
    <3> QED BY <3>1, <3>2 DEF lut_S16U8, Within, min_idx, max_idx
  <2>3. CASE p[2].type # "UINT8" /\ p[0].type = "INT16"
    BY <2>3 DEF lut_S16S16
  <2> QED BY <2>1, <2>2, <2>3
<1> HIDE DEF entry, within
<1>4. found = meant
  BY <1>3
<1> DEFINE all(how) == {Move(<<2, id>>, <<0, id, how>>) : id \in 0 .. Elements(p[0]) - 1}
<1>5. tensor_table_lookup(p).moves = all(found) /\ Intended("tensor_table_lookup", p) = all(meant)
  BY <1>1, <1>2
<1> HIDE DEF found, meant, all
<1> QED BY <1>4, <1>5

\* The greatest of the values of channels up to c, and the greatest of the others.
Best(f, c, best) ==
  /\ IsFirstGreatest(f, best[1], 0 .. c)
  /\ c > 0 => IsFirstGreatest(f, best[2], (0 .. c) \ {best[1]})

\* The recursion of TopTwo.
TopStep0(f, top, c) ==
  IF c = 0 THEN <<0, 0>>
  ELSE IF c = 1 THEN (IF f[1] > f[0] THEN <<1, 0>> ELSE <<0, 1>>)
  ELSE TopStep(f, top[c - 1], c)

\* There is a function with that recursion, and TopTwo is its last value.
LEMMA TopFunction ==
  ASSUME NEW m \in Nat, NEW f, DOMAIN f = 0 .. m
  PROVE  \E top : top = [c \in 0 .. m |-> TopStep0(f, top, c)] /\ TopTwo(f) = top[m]
<1> DEFINE S == {k \in Nat : \E top : top = [c \in 0 .. k |-> TopStep0(f, top, c)]}
<1>1. 0 \in S
  <2> DEFINE top == [c \in 0 .. 0 |-> <<0, 0>>]
  <2>1. \A c \in 0 .. 0 : TopStep0(f, top, c) = <<0, 0>>
    BY DEF TopStep0
  <2>2. top = [c \in 0 .. 0 |-> TopStep0(f, top, c)]
    BY <2>1
  <2> QED BY <2>2
<1>2. ASSUME NEW k \in Nat, k \in S PROVE k + 1 \in S
  <2>1. PICK top : top = [c \in 0 .. k |-> TopStep0(f, top, c)]
    BY <1>2
  <2> DEFINE more == [c \in 0 .. k + 1 |-> IF c <= k THEN top[c] ELSE TopStep0(f, top, c)]
  <2>2. \A c \in 0 .. k : more[c] = top[c]
    OBVIOUS
  <2>3. \A c \in 0 .. k + 1 : TopStep0(f, more, c) = TopStep0(f, top, c)
    BY <2>2 DEF TopStep0
  <2>4. \A c \in 0 .. k : top[c] = TopStep0(f, top, c)
    BY <2>1
  <2>5. more = [c \in 0 .. k + 1 |-> TopStep0(f, more, c)]
    BY <2>3, <2>4
  <2> HIDE DEF more
  <2> QED BY <2>5
<1>3. m \in S
  <2> HIDE DEF S
  <2>1. \A k \in 0 .. m : k \in S
    BY <1>1, <1>2, UpTo
  <2> QED BY <2>1
<1> DEFINE top == CHOOSE top : top = [c \in 0 .. m |-> TopStep0(f, top, c)]
<1>4. top = [c \in 0 .. m |-> TopStep0(f, top, c)]
  BY <1>3
<1>5. Cardinality(DOMAIN f) - 1 = m
  BY FS_Interval
<1>6. TopTwo(f) = top[m]
  BY <1>5 DEF TopTwo, TopStep0
<1> QED BY <1>4, <1>6

\* One more channel.
LEMMA OneMoreChannel ==
  ASSUME NEW f, NEW c \in Nat, c > 1, \A d \in 0 .. c : f[d] \in Int,
         NEW best, Best(f, c - 1, best)
  PROVE  Best(f, c, TopStep(f, best, c))
<1> DEFINE a == best[1]
           b == best[2]
<1>1. IsFirstGreatest(f, a, 0 .. c - 1) /\ IsFirstGreatest(f, b, (0 .. c - 1) \ {a})
  BY DEF Best
<1>2. /\ a \in 0 .. c - 1 /\ \A d \in 0 .. c - 1 : f[d] < f[a] \/ (f[d] = f[a] /\ d >= a)
      /\ b \in 0 .. c - 1 /\ b # a
      /\ \A d \in 0 .. c - 1 : d # a => f[d] < f[b] \/ (f[d] = f[b] /\ d >= b)
  BY <1>1 DEF IsFirstGreatest
<1> HIDE DEF a, b
<1>3. \A d \in 0 .. c : d \in 0 .. c - 1 \/ d = c
  OBVIOUS
<1>4. f[a] \in Int /\ f[b] \in Int /\ f[c] \in Int
  BY <1>2
<1> DEFINE first(x) == \A d \in 0 .. c : f[d] < f[x] \/ (f[d] = f[x] /\ d >= x)
           second(x, y) == \A d \in 0 .. c : d # x => f[d] < f[y] \/ (f[d] = f[y] /\ d >= y)
<1>5. ASSUME NEW x \in 0 .. c, NEW y \in 0 .. c, x # y, first(x), second(x, y)
      PROVE  Best(f, c, <<x, y>>)
  BY <1>5 DEF Best, IsFirstGreatest
<1>6. CASE f[c] > f[a]
  <2>1. TopStep(f, best, c) = <<c, a>>
    BY <1>6 DEF TopStep, a
  <2>2. first(c) /\ second(c, a)
    BY <1>2, <1>3, <1>4, <1>6
  <2> QED BY <1>2, <1>5, <2>1, <2>2
<1>7. CASE ~(f[c] > f[a]) /\ f[c] > f[b]
  <2>1. TopStep(f, best, c) = <<a, c>>
    BY <1>7 DEF TopStep, a, b
  <2>2. first(a) /\ second(a, c)
    BY <1>2, <1>3, <1>4, <1>7
  <2> QED BY <1>2, <1>5, <2>1, <2>2
<1>8. CASE ~(f[c] > f[a]) /\ ~(f[c] > f[b])
  <2>1. Best(f, c, <<a, b>>)
    <3>1. first(a) /\ second(a, b)
      BY <1>2, <1>3, <1>4, <1>8
    <3> QED BY <1>2, <1>5, <3>1
  <2>2. TopStep(f, best, c) = best
    BY <1>8 DEF TopStep, a, b
  <2>3. Best(f, c, best)
    BY <2>1 DEF Best, a, b
  <2> QED BY <2>2, <2>3
<1> QED BY <1>6, <1>7, <1>8

\* The kernels of argmax find the two greatest channels, whatever the number of
\* channels and their values.
LEMMA TopTwoFound ==
  ASSUME NEW channels \in Nat \ {0}, NEW f, DOMAIN f = 0 .. channels - 1,
         \A c \in 0 .. channels - 1 : f[c] \in Int
  PROVE  Best(f, channels - 1, TopTwo(f))
<1> DEFINE m == channels - 1
<1>1. m \in Nat
  OBVIOUS
<1> HIDE DEF m
<1>2. DOMAIN f = 0 .. m /\ \A c \in 0 .. m : f[c] \in Int
  BY DEF m
<1>3. PICK top : top = [c \in 0 .. m |-> TopStep0(f, top, c)] /\ TopTwo(f) = top[m]
  BY <1>1, <1>2, TopFunction
<1> DEFINE S == {k \in Nat : k <= m => Best(f, k, top[k])}
<1>4. 0 \in S
  <2>1. top[0] = <<0, 0>>
    BY <1>1, <1>3 DEF TopStep0
  <2>2. f[0] \in Int
    BY <1>1, <1>2
  <2> QED BY <2>1, <2>2 DEF Best, IsFirstGreatest
<1>5. ASSUME NEW k \in 0 .. m - 1, k \in S PROVE k + 1 \in S
  <2>1. top[k + 1] = TopStep0(f, top, k + 1)
    BY <1>1, <1>3
  <2>2. CASE k = 0
    <3>1. f[0] \in Int /\ f[1] \in Int
      BY <1>1, <1>2, <1>5, <2>2
    <3>2. top[1] = IF f[1] > f[0] THEN <<1, 0>> ELSE <<0, 1>>
      BY <2>1, <2>2 DEF TopStep0
    <3>3. Best(f, 1, top[1])
      BY <3>1, <3>2 DEF Best, IsFirstGreatest
    <3> QED BY <2>2, <3>3
  <2>3. CASE k # 0
    <3>1. k + 1 \in Nat /\ k + 1 > 1 /\ (k + 1) - 1 = k
      BY <1>1, <1>5, <2>3
    <3>2. top[k + 1] = TopStep(f, top[k], k + 1)
      BY <2>1, <3>1 DEF TopStep0
    <3>3. Best(f, (k + 1) - 1, top[k])
      BY <1>1, <1>5, <3>1
    <3>4. \A d \in 0 .. k + 1 : f[d] \in Int
      BY <1>1, <1>2, <1>5
    <3>5. Best(f, k + 1, TopStep(f, top[k], k + 1))
      BY <3>1, <3>3, <3>4, OneMoreChannel
    <3> QED BY <3>1, <3>2, <3>5
  <2> QED BY <2>2, <2>3
<1> HIDE DEF S
<1>6. \A k \in 0 .. m : k \in S
  BY <1>1, <1>4, <1>5, UpTo
<1>7. Best(f, m, top[m])
  <2>1. m \in S
    BY <1>1, <1>6
  <2> QED BY <1>1, <2>1 DEF S
<1> QED BY <1>3, <1>7 DEF m

\* For any number of channels.
LEMMA TopTwoAlways == ASSUME NEW channels \in Nat \ {0} PROVE TopTwoExact(channels)
<1> SUFFICES ASSUME NEW f \in [0 .. channels - 1 -> 0 .. 2]
             PROVE  /\ IsFirstGreatest(f, TopTwo(f)[1], DOMAIN f)
                    /\ channels > 1 => IsFirstGreatest(f, TopTwo(f)[2], DOMAIN f \ {TopTwo(f)[1]})
  BY DEF TopTwoExact
<1>1. DOMAIN f = 0 .. channels - 1 /\ \A c \in 0 .. channels - 1 : f[c] \in Int
  OBVIOUS
<1>2. Best(f, channels - 1, TopTwo(f))
  BY <1>1, TopTwoFound
<1> QED BY <1>1, <1>2 DEF Best

\* The sums of what precedes each of i values.
LEMMA SumsExist ==
  ASSUME NEW i \in Nat \ {0}, NEW v
  PROVE  \E sum : sum = [j \in 1 .. i |-> IF j = 1 THEN 0 ELSE sum[j - 1] + v[j - 1]]
<1> DEFINE next(sum, j) == IF j = 1 THEN 0 ELSE sum[j - 1] + v[j - 1]
           S == {k \in Nat : \E sum : sum = [j \in 1 .. k |-> next(sum, j)]}
<1>1. 0 \in S
  <2> DEFINE none == [j \in 1 .. 0 |-> 0]
  <2>1. none = [j \in 1 .. 0 |-> next(none, j)]
    OBVIOUS
  <2> HIDE DEF none, next
  <2> QED BY <2>1
<1>2. ASSUME NEW k \in 0 .. i - 1, k \in S PROVE k + 1 \in S
  <2>1. PICK sum : sum = [j \in 1 .. k |-> next(sum, j)]
    BY <1>2
  <2> DEFINE more == [j \in 1 .. k + 1 |-> IF j <= k THEN sum[j] ELSE next(sum, j)]
  <2>2. \A j \in 1 .. k : more[j] = sum[j]
    OBVIOUS
  <2>3. \A j \in 1 .. k + 1 : next(more, j) = next(sum, j)
    BY <2>2
  <2> HIDE DEF next
  <2>4. \A j \in 1 .. k : sum[j] = next(sum, j)
    BY <2>1
  <2>5. more = [j \in 1 .. k + 1 |-> next(more, j)]
    BY <2>3, <2>4
  <2> HIDE DEF more
  <2> QED BY <2>5
<1> HIDE DEF S
<1>3. \A k \in 0 .. i : k \in S
  BY <1>1, <1>2, UpTo
<1>4. i \in S
  BY <1>3
<1> QED BY <1>4 DEF S

\* The recursion of Before.
LEMMA BeforeFunction ==
  ASSUME NEW p, NEW i \in Nat \ {0}
  PROVE  \E sum : /\ sum = [j \in 1 .. i |-> IF j = 1 THEN 0 ELSE sum[j - 1] + Volume(p[j - 1])]
                  /\ Before(p, i) = sum[i]
<1> DEFINE v == [j \in 1 .. i |-> Volume(p[j])]
           sum == CHOOSE sum :
                    sum = [j \in 1 .. i |-> IF j = 1 THEN 0 ELSE sum[j - 1] + Volume(p[j - 1])]
<1>1. PICK f : f = [j \in 1 .. i |-> IF j = 1 THEN 0 ELSE f[j - 1] + v[j - 1]]
  <2> HIDE DEF v
  <2> QED BY SumsExist
<1>2. \A j \in 1 .. i : j # 1 => v[j - 1] = Volume(p[j - 1])
  OBVIOUS
<1> HIDE DEF v
<1>3. f = [j \in 1 .. i |-> IF j = 1 THEN 0 ELSE f[j - 1] + Volume(p[j - 1])]
  BY <1>1, <1>2
<1>4. sum = [j \in 1 .. i |-> IF j = 1 THEN 0 ELSE sum[j - 1] + Volume(p[j - 1])]
  BY <1>3
<1>5. Before(p, i) = sum[i]
  BY DEF Before
<1> HIDE DEF sum
<1> QED BY <1>4, <1>5

\* And of ChannelsBefore.
LEMMA ChannelsBeforeFunction ==
  ASSUME NEW p, NEW i \in Nat \ {0}
  PROVE  \E sum : /\ sum = [j \in 1 .. i |-> IF j = 1 THEN 0 ELSE sum[j - 1] + C(p[j - 1])]
                  /\ ChannelsBefore(p, i) = sum[i]
<1> DEFINE v == [j \in 1 .. i |-> C(p[j])]
           sum == CHOOSE sum :
                    sum = [j \in 1 .. i |-> IF j = 1 THEN 0 ELSE sum[j - 1] + C(p[j - 1])]
<1>1. PICK f : f = [j \in 1 .. i |-> IF j = 1 THEN 0 ELSE f[j - 1] + v[j - 1]]
  <2> HIDE DEF v
  <2> QED BY SumsExist
<1>2. \A j \in 1 .. i : j # 1 => v[j - 1] = C(p[j - 1])
  OBVIOUS
<1> HIDE DEF v
<1>3. f = [j \in 1 .. i |-> IF j = 1 THEN 0 ELSE f[j - 1] + C(p[j - 1])]
  BY <1>1, <1>2
<1>4. sum = [j \in 1 .. i |-> IF j = 1 THEN 0 ELSE sum[j - 1] + C(p[j - 1])]
  BY <1>3
<1>5. ChannelsBefore(p, i) = sum[i]
  BY DEF ChannelsBefore
<1> HIDE DEF sum
<1> QED BY <1>4, <1>5

\* Pieces that differ in their channels only, the whole being piece 0.
Fits(p) ==
  /\ \A i \in Pieces(p) \union {0} : Extents(p[i])
  /\ \A i \in Pieces(p) : W(p[i]) = W(p[0]) /\ H(p[i]) = H(p[0])

\* The elements before a piece are its area times the channels before it.
LEMMA PiecesBefore ==
  ASSUME NEW p, Fits(p), NEW i \in Pieces(p)
  PROVE  ChannelsBefore(p, i) \in Nat /\ Before(p, i) = (W(p[0]) * H(p[0])) * ChannelsBefore(p, i)
<1>1. i \in Nat \ {0} /\ \A j \in 1 .. i : j \in Pieces(p)
  BY DEF Pieces
<1> DEFINE area == W(p[0]) * H(p[0])
<1>2. area \in Nat
  BY DEF Fits, Extents
<1>3. \A j \in 1 .. i : C(p[j]) \in Nat /\ Volume(p[j]) = area * C(p[j])
  BY <1>1 DEF Fits, Extents, Volume
<1> HIDE DEF area
<1>4. PICK b : b = [j \in 1 .. i |-> IF j = 1 THEN 0 ELSE b[j - 1] + Volume(p[j - 1])]
              /\ Before(p, i) = b[i]
  BY <1>1, BeforeFunction
<1>5. PICK d : d = [j \in 1 .. i |-> IF j = 1 THEN 0 ELSE d[j - 1] + C(p[j - 1])]
              /\ ChannelsBefore(p, i) = d[i]
  BY <1>1, ChannelsBeforeFunction
<1> DEFINE S == {k \in Nat : k < i => d[k + 1] \in Nat /\ b[k + 1] = area * d[k + 1]}
<1>6. 0 \in S
  <2>1. b[1] = 0 /\ d[1] = 0
    BY <1>1, <1>4, <1>5
  <2> QED BY <1>2, <2>1
<1>7. ASSUME NEW k \in 0 .. i - 1, k \in S PROVE k + 1 \in S
  <2> SUFFICES ASSUME k + 1 < i PROVE d[k + 2] \in Nat /\ b[k + 2] = area * d[k + 2]
    BY <1>1
  <2>1. k + 2 \in 1 .. i /\ k + 2 # 1 /\ (k + 2) - 1 = k + 1 /\ k + 1 \in 1 .. i
    BY <1>1
  <2>2. b[k + 2] = b[k + 1] + Volume(p[k + 1]) /\ d[k + 2] = d[k + 1] + C(p[k + 1])
    BY <1>4, <1>5, <2>1
  <2>3. d[k + 1] \in Nat /\ b[k + 1] = area * d[k + 1]
    BY <1>1, <1>7
  <2>4. C(p[k + 1]) \in Nat /\ Volume(p[k + 1]) = area * C(p[k + 1])
    BY <1>3, <2>1
  <2> QED BY <1>2, <2>2, <2>3, <2>4
<1> HIDE DEF S
<1>8. \A k \in 0 .. i : k \in S
  BY <1>1, <1>6, <1>7, UpTo
<1>9. i - 1 \in S
  BY <1>1, <1>8
<1>10. d[i] \in Nat /\ b[i] = area * d[i]
  BY <1>1, <1>9 DEF S
<1> QED BY <1>4, <1>5, <1>10 DEF area

\* These are numbers.
LEMMA PiecesInNumbers ==
  ASSUME NEW p, Fits(p), NEW i \in Pieces(p)
  PROVE  Before(p, i) \in Nat /\ Volume(p[i]) \in Nat /\ Volume(p[0]) \in Nat
<1>1. /\ W(p[0]) \in Nat /\ H(p[0]) \in Nat /\ C(p[0]) \in Nat
      /\ W(p[i]) \in Nat /\ H(p[i]) \in Nat /\ C(p[i]) \in Nat
  BY DEF Fits, Extents
<1>2. ChannelsBefore(p, i) \in Nat /\ Before(p, i) = (W(p[0]) * H(p[0])) * ChannelsBefore(p, i)
  BY PiecesBefore
<1> QED BY <1>1, <1>2 DEF Volume

\* The positions of a block of three dimensions.
LEMMA InBlock ==
  ASSUME NEW w \in Nat, NEW h \in Nat, NEW c \in Nat
  PROVE  /\ \A d \in 0 .. ((w * h) * c) - 1 :
              \E x \in 0 .. w - 1, y \in 0 .. h - 1, k \in 0 .. c - 1 : d = x + (w * (y + (h * k)))
         /\ \A x \in 0 .. w - 1, y \in 0 .. h - 1, k \in 0 .. c - 1 :
              x + (w * (y + (h * k))) \in 0 .. ((w * h) * c) - 1
<1>1. h * c \in Nat /\ w * (h * c) = (w * h) * c
  OBVIOUS
<1>2. /\ \A d \in 0 .. (w * (h * c)) - 1 :
           \E x \in 0 .. w - 1, q \in 0 .. (h * c) - 1 : d = x + (w * q)
      /\ \A x \in 0 .. w - 1, q \in 0 .. (h * c) - 1 : x + (w * q) \in 0 .. (w * (h * c)) - 1
  BY <1>1, InRows
<1>3. /\ \A q \in 0 .. (h * c) - 1 : \E y \in 0 .. h - 1, k \in 0 .. c - 1 : q = y + (h * k)
      /\ \A y \in 0 .. h - 1, k \in 0 .. c - 1 : y + (h * k) \in 0 .. (h * c) - 1
  BY InRows
<1>4. ASSUME NEW d \in 0 .. ((w * h) * c) - 1
      PROVE  \E x \in 0 .. w - 1, y \in 0 .. h - 1, k \in 0 .. c - 1 : d = x + (w * (y + (h * k)))
  <2>1. PICK x \in 0 .. w - 1, q \in 0 .. (h * c) - 1 : d = x + (w * q)
    BY <1>1, <1>2
  <2>2. PICK y \in 0 .. h - 1, k \in 0 .. c - 1 : q = y + (h * k)
    BY <1>3
  <2> QED BY <2>1, <2>2
<1>5. ASSUME NEW x \in 0 .. w - 1, NEW y \in 0 .. h - 1, NEW k \in 0 .. c - 1
      PROVE  x + (w * (y + (h * k))) \in 0 .. ((w * h) * c) - 1
  BY <1>1, <1>2, <1>3
<1> QED BY <1>4, <1>5

\* An element of the whole, and that of the piece it is in: by its coordinates.
ByCoordinates(p, i, x, y, c, n) ==
  <<At(p[0], x, y, ChannelsBefore(p, i) + c, n), i, At(p[i], x, y, c, n)>>
\* By its position in the piece's block, and its batch.
ByPosition(p, i, id, batch) ==
  <<id + (batch * Volume(p[0])), i, (batch * Volume(p[i])) + (id - Before(p, i))>>

\* Either way it is the same element.
LEMMA SamePlace ==
  ASSUME NEW p, Fits(p), NEW i \in Pieces(p),
         NEW x \in Nat, NEW y \in Nat, NEW c \in Nat, NEW n \in Nat
  PROVE  ByCoordinates(p, i, x, y, c, n) =
           ByPosition(p, i, Before(p, i) + (x + (W(p[0]) * (y + (H(p[0]) * c)))), n)
<1> DEFINE w == W(p[0])
           h == H(p[0])
           C0 == C(p[0])
           Ci == C(p[i])
           cb == ChannelsBefore(p, i)
           d == x + (w * (y + (h * c)))
<1>1. /\ w \in Nat /\ h \in Nat /\ C0 \in Nat /\ Ci \in Nat
      /\ cb \in Nat /\ Before(p, i) = (w * h) * cb
  BY PiecesBefore DEF Fits, Extents
<1>2. W(p[i]) = w /\ H(p[i]) = h
  BY DEF Fits
<1>3. Volume(p[0]) = (w * h) * C0 /\ Volume(p[i]) = (w * h) * Ci
  BY <1>2 DEF Volume
<1>4. At(p[0], x, y, cb + c, n) = x + (w * (y + (h * ((cb + c) + (C0 * n)))))
  BY DEF At
<1>5. At(p[i], x, y, c, n) = x + (w * (y + (h * (c + (Ci * n)))))
  BY <1>2 DEF At
<1> HIDE DEF w, h, C0, Ci, cb
<1>6. x + (w * (y + (h * ((cb + c) + (C0 * n))))) = (((w * h) * cb) + d) + (n * ((w * h) * C0))
  BY <1>1
<1>7. x + (w * (y + (h * (c + (Ci * n))))) = (n * ((w * h) * Ci)) + d
  BY <1>1
<1>8. (w * h) * cb \in Nat /\ d \in Nat
  BY <1>1
<1>9. d = (((w * h) * cb) + d) - ((w * h) * cb)
  BY <1>8
<1>10. At(p[0], x, y, cb + c, n) = (Before(p, i) + d) + (n * Volume(p[0]))
  BY <1>1, <1>3, <1>4, <1>6
<1>11. At(p[i], x, y, c, n) = (n * Volume(p[i])) + ((Before(p, i) + d) - Before(p, i))
  BY <1>1, <1>3, <1>5, <1>7, <1>9
<1> QED BY <1>10, <1>11 DEF ByCoordinates, ByPosition, cb, w, h

\* So the whole and its pieces can be told by positions, block by block.
LEMMA PiecesByPosition ==
  ASSUME NEW p, Fits(p), NEW e
  PROVE  e \in PiecesOfWhole(p) <=>
           \E i \in Pieces(p), batch \in 0 .. N(p[0]) - 1 : \E id \in Block(p, i) :
             e = ByPosition(p, i, id, batch)
<1> DEFINE w == W(p[0])
           h == H(p[0])
           place(x, y, c) == x + (w * (y + (h * c)))
           piece(i) == {ByCoordinates(p, i, x, y, c, n) :
                          x \in 0 .. w - 1, y \in 0 .. h - 1,
                          c \in 0 .. C(p[i]) - 1, n \in 0 .. N(p[0]) - 1}
<1>1. PiecesOfWhole(p) = UNION {piece(i) : i \in Pieces(p)}
  BY DEF PiecesOfWhole, ByCoordinates
<1>2. e \in PiecesOfWhole(p) <=> \E i \in Pieces(p) : e \in piece(i)
  <2> HIDE DEF piece
  <2> QED BY <1>1
<1>3. w \in Nat /\ h \in Nat /\ N(p[0]) \in Nat
  BY DEF Fits, Extents
<1>4. ASSUME NEW i \in Pieces(p)
      PROVE  /\ Before(p, i) \in Nat /\ C(p[i]) \in Nat
             /\ \A id : id \in Block(p, i) <=>
                          \E d \in 0 .. ((w * h) * C(p[i])) - 1 : id = Before(p, i) + d
  <2>1. ChannelsBefore(p, i) \in Nat /\ Before(p, i) = (w * h) * ChannelsBefore(p, i)
    BY PiecesBefore
  <2>2. Before(p, i) \in Nat /\ C(p[i]) \in Nat
    <3> HIDE DEF w, h
    <3>1. Before(p, i) \in Nat
      BY <1>3, <2>1
    <3> QED BY <3>1 DEF Fits, Extents
  <2>3. Volume(p[i]) = (w * h) * C(p[i])
    BY DEF Fits, Volume
  <2> DEFINE v == (w * h) * C(p[i])
  <2>4. v \in Nat
    <3> HIDE DEF w, h
    <3> QED BY <1>3, <2>2
  <2>5. \A id : id \in Block(p, i) <=> id \in Before(p, i) .. Before(p, i) + v - 1
    BY <2>3 DEF Block
  <2> HIDE DEF v
  <2>6. \A id : id \in Before(p, i) .. Before(p, i) + v - 1 <=>
                  \E d \in 0 .. v - 1 : id = Before(p, i) + d
    <3>1. ASSUME NEW id \in Before(p, i) .. Before(p, i) + v - 1
          PROVE  \E d \in 0 .. v - 1 : id = Before(p, i) + d
      <4>1. id - Before(p, i) \in 0 .. v - 1 /\ id = Before(p, i) + (id - Before(p, i))
        BY <2>2, <2>4
      <4> QED BY <4>1
    <3>2. \A d \in 0 .. v - 1 : Before(p, i) + d \in Before(p, i) .. Before(p, i) + v - 1
      BY <2>2, <2>4
    <3> QED BY <3>1, <3>2
  <2> QED BY <2>2, <2>5, <2>6 DEF v
<1> HIDE DEF piece
<1>5. ASSUME NEW i \in Pieces(p), e \in piece(i)
      PROVE  \E batch \in 0 .. N(p[0]) - 1 : \E id \in Block(p, i) : e = ByPosition(p, i, id, batch)
  <2>1. PICK x \in 0 .. w - 1, y \in 0 .. h - 1, c \in 0 .. C(p[i]) - 1, n \in 0 .. N(p[0]) - 1 :
          e = ByCoordinates(p, i, x, y, c, n)
    BY <1>5 DEF piece
  <2>2. x \in Nat /\ y \in Nat /\ c \in Nat /\ n \in Nat
    BY <1>3, <1>4
  <2>3. e = ByPosition(p, i, Before(p, i) + place(x, y, c), n)
    BY <2>1, <2>2, SamePlace
  <2>4. place(x, y, c) \in 0 .. ((w * h) * C(p[i])) - 1
    BY <1>3, <1>4, InBlock
  <2> HIDE DEF place
  <2>5. Before(p, i) + place(x, y, c) \in Block(p, i)
    BY <1>4, <2>4
  <2> QED BY <2>3, <2>5
<1>6. ASSUME NEW i \in Pieces(p), NEW batch \in 0 .. N(p[0]) - 1, NEW id \in Block(p, i),
             e = ByPosition(p, i, id, batch)
      PROVE  e \in piece(i)
  <2>1. PICK d \in 0 .. ((w * h) * C(p[i])) - 1 : id = Before(p, i) + d
    BY <1>4
  <2>2. PICK x \in 0 .. w - 1, y \in 0 .. h - 1, c \in 0 .. C(p[i]) - 1 : d = place(x, y, c)
    <3>1. \A k \in 0 .. ((w * h) * C(p[i])) - 1 :
            \E x \in 0 .. w - 1, y \in 0 .. h - 1, c \in 0 .. C(p[i]) - 1 : k = place(x, y, c)
      <4>1. C(p[i]) \in Nat
        BY <1>4
      <4> QED BY <1>3, <4>1, InBlock
    <3> QED BY <3>1
  <2>3. x \in Nat /\ y \in Nat /\ c \in Nat /\ batch \in Nat
    BY <1>3, <1>4
  <2>4. e = ByCoordinates(p, i, x, y, c, batch)
    BY <1>6, <2>1, <2>2, <2>3, SamePlace
  <2> QED BY <2>4 DEF piece
<1> QED BY <1>2, <1>5, <1>6

\* Tensors are put together exactly: one batch, or several.
LEMMA ConcatExact ==
  ASSUME NEW p, Fits(p)
  PROVE  concat(p).moves = Intended("concat", p)
<1> DEFINE e(i, id, batch) == ByPosition(p, i, id, batch)
           move(q) == Move(<<0, q[1]>>, <<q[2], q[3]>>)
           one(i) == {Move(<<0, id>>, <<i, id - Before(p, i)>>) : id \in Block(p, i)}
           some(i, batch) == {move(e(i, id, batch)) : id \in Block(p, i)}
           batches == 0 .. N(p[0]) - 1
<1>1. Intended("concat", p) = {move(q) : q \in PiecesOfWhole(p)}
  BY DEF Intended
<1>2. \A m : m \in Intended("concat", p) <=>
             \E i \in Pieces(p), batch \in batches : \E id \in Block(p, i) :
               m = move(e(i, id, batch))
  <2> HIDE DEF e, move, batches
  <2> QED BY <1>1, PiecesByPosition DEF e, batches
<1>3. N(p[0]) \in Nat \ {0}
  BY DEF Fits, Extents
<1>4. CASE N(p[0]) = 1
  <2>1. concat(p).moves = UNION {one(i) : i \in Pieces(p)}
    BY <1>4 DEF concat, GpuKernel, concat_codegen_batchsz1
  <2>2. \A batch : batch \in batches <=> batch = 0
    BY <1>4
  <2>3. \A i \in Pieces(p) : \A id \in Block(p, i) :
          move(e(i, id, 0)) = Move(<<0, id>>, <<i, id - Before(p, i)>>)
    <3> SUFFICES ASSUME NEW i \in Pieces(p), NEW id \in Block(p, i)
                 PROVE  id + (0 * Volume(p[0])) = id /\
                        (0 * Volume(p[i])) + (id - Before(p, i)) = id - Before(p, i)
      BY DEF ByPosition
    <3>1. Before(p, i) \in Int /\ Volume(p[i]) \in Int /\ Volume(p[0]) \in Int
      BY PiecesInNumbers
    <3>2. id \in Int
      BY <3>1 DEF Block
    <3> QED BY <3>1, <3>2
  <2> HIDE DEF batches, e, move
  <2>4. \A i \in Pieces(p) : \A m : m \in one(i) <=> \E id \in Block(p, i) : m = move(e(i, id, 0))
    BY <2>3
  <2> HIDE DEF one
  <2> QED BY <1>2, <2>1, <2>2, <2>4
<1>5. CASE N(p[0]) # 1
  <2>1. concat(p).moves = UNION {some(i, batch) : i \in Pieces(p), batch \in batches}
    BY <1>5 DEF concat, GpuKernel, concat_codegen_batchszN, ByPosition
  <2>2. \A i, batch, m : m \in some(i, batch) <=> \E id \in Block(p, i) : m = move(e(i, id, batch))
    BY DEF some
  <2> HIDE DEF some, e, move, batches
  <2> QED BY <1>2, <2>1, <2>2
<1> QED BY <1>4, <1>5

\* And taken apart.
LEMMA SliceExact ==
  ASSUME NEW p, Fits(p)
  PROVE  slice(p).moves = Intended("slice", p)
<1> DEFINE e(i, id, batch) == ByPosition(p, i, id, batch)
           move(q) == Move(<<q[2], q[3]>>, <<0, q[1]>>)
           one(i) == {Move(<<i, id - Before(p, i)>>, <<0, id>>) : id \in Block(p, i)}
           some(i, batch) == {move(e(i, id, batch)) : id \in Block(p, i)}
           batches == 0 .. N(p[0]) - 1
<1>1. Intended("slice", p) = {move(q) : q \in PiecesOfWhole(p)}
  BY DEF Intended
<1>2. \A m : m \in Intended("slice", p) <=>
             \E i \in Pieces(p), batch \in batches : \E id \in Block(p, i) :
               m = move(e(i, id, batch))
  <2> HIDE DEF e, move, batches
  <2> QED BY <1>1, PiecesByPosition DEF e, batches
<1>4. CASE N(p[0]) = 1
  <2>1. slice(p).moves = UNION {one(i) : i \in Pieces(p)}
    BY <1>4 DEF slice, GpuKernel, slice_codegen_batchsz1
  <2>2. \A batch : batch \in batches <=> batch = 0
    BY <1>4
  <2>3. \A i \in Pieces(p) : \A id \in Block(p, i) :
          move(e(i, id, 0)) = Move(<<i, id - Before(p, i)>>, <<0, id>>)
    <3> SUFFICES ASSUME NEW i \in Pieces(p), NEW id \in Block(p, i)
                 PROVE  id + (0 * Volume(p[0])) = id /\
                        (0 * Volume(p[i])) + (id - Before(p, i)) = id - Before(p, i)
      BY DEF ByPosition
    <3>1. Before(p, i) \in Int /\ Volume(p[i]) \in Int /\ Volume(p[0]) \in Int
      BY PiecesInNumbers
    <3>2. id \in Int
      BY <3>1 DEF Block
    <3> QED BY <3>1, <3>2
  <2> HIDE DEF batches, e, move
  <2>4. \A i \in Pieces(p) : \A m : m \in one(i) <=> \E id \in Block(p, i) : m = move(e(i, id, 0))
    BY <2>3
  <2> HIDE DEF one
  <2> QED BY <1>2, <2>1, <2>2, <2>4
<1>5. CASE N(p[0]) # 1
  <2>1. slice(p).moves = UNION {some(i, batch) : i \in Pieces(p), batch \in batches}
    BY <1>5 DEF slice, GpuKernel, slice_codegen_batchszN, ByPosition
  <2>2. \A i, batch, m : m \in some(i, batch) <=> \E id \in Block(p, i) : m = move(e(i, id, batch))
    BY DEF some
  <2> HIDE DEF some, e, move, batches
  <2> QED BY <1>2, <2>1, <2>2
<1> QED BY <1>4, <1>5

-------------------------------------------------------------------------------
(***************************************************************************)
(* What the verification has accepted is generated exactly.                *)
(***************************************************************************)
\* The arguments of a generated kernel are of the kinds its registration says.
Typed(kernel, p) ==
  /\ DOMAIN p = DOMAIN Signature(kernel)
  /\ kernel \in Generating =>
       \A i \in DOMAIN p :
         WellFormed(p[i]) /\ (Given(p[i]) => p[i].kind \in Kinds(Signature(kernel)[i]))

\* Four dimensions are extents.
LEMMA FourExtents ==
  ASSUME NEW t, t.dims \in Seq(Nat \ {0}), Len(t.dims) = 4 PROVE Extents(t)
BY DEF Extents, W, H, C, N

\* Or two, read behind two others.
LEMMA BehindExtents ==
  ASSUME NEW t, t.dims \in Seq(Nat \ {0}), Len(t.dims) \in {2, 4}
  PROVE  Extents([dims |-> Behind(1, 1, t.dims)])
<1>1. CASE Len(t.dims) = 4
  BY <1>1 DEF Extents, W, H, C, N, Behind
<1>2. CASE Len(t.dims) = 2
  <2> DEFINE d == <<1, 1>> \o t.dims
  <2>1. Behind(1, 1, t.dims) = d
    BY <1>2 DEF Behind
  <2>2. d[1] = 1 /\ d[2] = 1 /\ d[3] = t.dims[1] /\ d[4] = t.dims[2]
    BY <1>2
  <2>3. t.dims[1] \in Nat \ {0} /\ t.dims[2] \in Nat \ {0}
    BY <1>2
  <2> HIDE DEF d
  <2> QED BY <2>1, <2>2, <2>3 DEF Extents, W, H, C, N
<1> QED BY <1>1, <1>2

\* What an argument that has to be given is.
LEMMA Needed ==
  ASSUME NEW l, Complete(l), Typed(l.kernel, l.p), l.kernel \in Generating,
         NEW i \in DOMAIN Signature(l.kernel), ~Signature(l.kernel)[i].optional
  PROVE  WellFormed(l.p[i]) /\ l.p[i].kind \in Kinds(Signature(l.kernel)[i])
BY DEF Complete, Typed

\* When it is a tensor.
LEMMA NeededTensor ==
  ASSUME NEW l, Complete(l), Typed(l.kernel, l.p), l.kernel \in Generating,
         NEW i \in DOMAIN Signature(l.kernel), ~Signature(l.kernel)[i].optional,
         Signature(l.kernel)[i].kind = "tensor"
  PROVE  l.p[i].dims \in Seq(Nat \ {0}) /\ l.p[i].kind = "tensor"
<1>1. WellFormed(l.p[i]) /\ l.p[i].kind = "tensor"
  BY Needed DEF Kinds
<1> QED BY <1>1 DEF WellFormed

\* The parameters of the generators, as they are registered.
LEMMA GeneratorSignatures ==
  /\ LET s == Signature("argmax") IN
       DOMAIN s = 0 .. 1 /\ s[0].kind = "tensor" /\ ~s[0].optional /\ ~s[1].optional
  /\ LET s == Signature("image_to_tensor") IN
       /\ DOMAIN s = 0 .. 4 /\ s[1].kind = "tensor" /\ ~s[1].optional
       /\ \A i \in 2 .. 4 : s[i].kind = "scalar"
  /\ LET s == Signature("tensor_to_image") IN
       /\ DOMAIN s = 0 .. 4 /\ s[0].kind = "tensor" /\ ~s[0].optional
       /\ \A i \in 2 .. 4 : s[i].kind = "scalar"
  /\ LET s == Signature("upsample_nearest") IN
       DOMAIN s = 0 .. 1 /\ s[0].kind = "tensor" /\ ~s[0].optional
  /\ LET s == Signature("tensor_table_lookup") IN
       DOMAIN s = 0 .. 2 /\ s[1].kind = "lut" /\ ~s[1].optional
<1> USE DEF Signature, Signatures, Listed, Input, Output
<1>1. LET s == Signature("argmax") IN
        DOMAIN s = 0 .. 1 /\ s[0].kind = "tensor" /\ ~s[0].optional /\ ~s[1].optional
  BY DEF publishArgmaxLayer
<1>2. LET s == Signature("image_to_tensor") IN
        /\ DOMAIN s = 0 .. 4 /\ s[1].kind = "tensor" /\ ~s[1].optional
        /\ \A i \in 2 .. 4 : s[i].kind = "scalar"
  BY DEF publishImageToTensorConvert
<1>3. LET s == Signature("tensor_to_image") IN
        /\ DOMAIN s = 0 .. 4 /\ s[0].kind = "tensor" /\ ~s[0].optional
        /\ \A i \in 2 .. 4 : s[i].kind = "scalar"
  BY DEF publishTensorToImageConvert
<1>4. LET s == Signature("upsample_nearest") IN
        DOMAIN s = 0 .. 1 /\ s[0].kind = "tensor" /\ ~s[0].optional
  BY DEF publishUpsampleNearest
<1>5. LET s == Signature("tensor_table_lookup") IN
        DOMAIN s = 0 .. 2 /\ s[1].kind = "lut" /\ ~s[1].optional
  BY DEF publishTensorTableLookup
<1> QED BY <1>1, <1>2, <1>3, <1>4, <1>5

\* The whole, and eight pieces of which two have to be given.
LEMMA PieceSignatures ==
  ASSUME NEW kernel \in {"concat", "slice"}
  PROVE  /\ DOMAIN Signature(kernel) = 0 .. 8
         /\ \A i \in 0 .. 8 : Signature(kernel)[i].kind = "tensor"
         /\ \A i \in 0 .. 2 : ~Signature(kernel)[i].optional
<1>1. CASE kernel = "concat"
  <2> DEFINE more == [i \in 1 .. 6 |-> Optional(Input("tensor"))]
             all == <<Output("tensor"), Input("tensor"), Input("tensor")>> \o more
  <2>1. Signature(kernel) = Listed(all)
    BY <1>1 DEF Signature, Signatures, publishConcatLayer
  <2>2. Len(all) = 9 /\ \A i \in 1 .. 9 : all[i] = IF i = 1 THEN Output("tensor")
                                               ELSE IF i <= 3 THEN Input("tensor")
                                               ELSE Optional(Input("tensor"))
    OBVIOUS
  <2> HIDE DEF all
  <2> QED BY <2>1, <2>2 DEF Listed, Input, Output, Optional
<1>2. CASE kernel = "slice"
  <2> DEFINE more == [i \in 1 .. 6 |-> Optional(Output("tensor"))]
             all == <<Input("tensor"), Output("tensor"), Output("tensor")>> \o more
  <2>1. Signature(kernel) = Listed(all)
    BY <1>2 DEF Signature, Signatures, publishSliceLayer
  <2>2. Len(all) = 9 /\ \A i \in 1 .. 9 : all[i] = IF i = 1 THEN Input("tensor")
                                               ELSE IF i <= 3 THEN Output("tensor")
                                               ELSE Optional(Output("tensor"))
    OBVIOUS
  <2> HIDE DEF all
  <2> QED BY <2>1, <2>2 DEF Listed, Input, Output, Optional
<1> QED BY <1>1, <1>2

\* Pieces that the validators of concat and of slice accept fit together.
LEMMA PiecedFits ==
  ASSUME NEW l, l.kernel \in {"concat", "slice"}, Complete(l), Typed(l.kernel, l.p), Pieced(l.p)
  PROVE  Fits(l.p)
<1> DEFINE p == l.p
<1>1. ASSUME NEW i \in Pieces(p) \union {0} PROVE Extents(p[i])
  <2>1. i \in 0 .. 8
    BY DEF Pieces
  <2>2. Given(p[i])
    <3>1. CASE i \in 0 .. 2
      BY <2>1, <3>1, PieceSignatures DEF Complete, Typed
    <3>2. CASE i \notin 0 .. 2
      BY <2>1, <3>2 DEF Pieces
    <3> QED BY <3>1, <3>2
  <2>3. l.kernel \in Generating /\ DOMAIN p = 0 .. 8
    BY PieceSignatures DEF Generating, Typed
  <2>4. WellFormed(p[i]) /\ p[i].kind = "tensor"
    BY <2>1, <2>2, <2>3, PieceSignatures DEF Typed, Kinds
  <2>5. IsFloat32(p[i], {4})
    BY <1>1 DEF Pieced
  <2> QED BY <2>4, <2>5, FourExtents DEF WellFormed, IsFloat32
<1>2. ASSUME NEW i \in Pieces(p) PROVE W(p[i]) = W(p[0]) /\ H(p[i]) = H(p[0])
  BY <1>2 DEF Pieced, SameButChannels
<1> QED BY <1>1, <1>2 DEF Fits

\* What is generated for a layer that the verification accepts is exact, but for
\* the code's exceptions.
Exact(l) ==
  /\ Generated(l.kernel, l.p).moves = Intended(l.kernel, l.p)
  /\ l.kernel = "argmax" => TopTwoExact(Behind(1, 1, l.p[0].dims)[3])

\* What a generator says is written.
LEMMA KernelMoves == \A compiles, moves : GpuKernel(compiles, moves).moves = moves
BY DEF GpuKernel

\* Rows put below each other for every batch are as many again for each.
LEMMA BatchesApart == \A h \in Nat, n \in Nat \ {0} : (h * n) \div n = h
<1> TAKE h \in Nat, n \in Nat \ {0}
<1> DEFINE m == h * n
           q == m \div n
           r == m % n
           d == h - q
<1>1. m \in Nat
  OBVIOUS
<1> HIDE DEF m
<1>2. q \in Int /\ r \in 0 .. n - 1 /\ m = (n * q) + r
  BY <1>1
<1> HIDE DEF q, r
<1>3. d \in Int /\ n * d = r
  BY <1>2 DEF m
<1> HIDE DEF d
<1>4. ~(d >= 1)
  BY <1>2, <1>3
<1>5. ~(d <= -1)
  BY <1>2, <1>3
<1>6. d = 0
  BY <1>3, <1>4, <1>5
<1> QED BY <1>2, <1>6 DEF d, q, m

LEMMA IndexesNumber == \A type : Indexes(type) \in Nat
BY DEF Indexes

\* That is so for each of the seven generators.
LEMMA VerifiedExact ==
  ASSUME NEW l, MayPass(l), Typed(l.kernel, l.p), l.kernel \in Generating, ~Inexact(l)
  PROVE  Exact(l)
<1> DEFINE p == l.p
<1>1. PICK verdict \in Validate(l.kernel, p) : AcceptsLayer(l, verdict)
  BY DEF MayPass
<1>2. Complete(l) /\ verdict.accepted
  BY <1>1 DEF MayPass, AcceptsLayer
<1>3. CASE l.kernel = "argmax"
  <2>1. verdict \in validateArgmax(p)
    BY <1>1, <1>3 DEF Validate
  <2>2. /\ IsFloat32(p[0], {2, 4}) /\ p[1].kind \in {"image", "tensor"}
        /\ p[1].kind = "tensor" => /\ BehindOnes(p[1].dims)[3] \in {1, 2}
                                  /\ p[1].type \in {"UINT8", "UINT16", "INT16"}
        /\ verdict.outputs[1].type = ArgmaxFormat(p)
    BY <1>2, <2>1 DEF validateArgmax, Verdict, Announces, Announced
  <2>3. p[0].dims \in Seq(Nat \ {0})
    BY <1>2, <1>3, NeededTensor, GeneratorSignatures
  <2>4. Extents([dims |-> Behind(1, 1, p[0].dims)])
    BY <2>2, <2>3, BehindExtents DEF IsFloat32
  <2>5. Behind(1, 1, p[0].dims)[3] \in Nat \ {0}
    BY <2>4 DEF Extents, C
  <2> DEFINE in == Behind(1, 1, p[0].dims)
  <2>6. in[3] <= Indexes(output_data_type(p))
    BY <1>3, <2>5, IndexesNumber DEF Inexact
  <2>7. argmax_codegen(p) = Intended("argmax", p)
    <3>1. CASE p[1].kind = "tensor"
      <4>1. /\ p[1].type # "INT16" /\ Len(p[1].dims) = 4
            /\ <<p[1].dims[1], p[1].dims[2], p[1].dims[4]>> = <<in[1], in[2], in[4]>>
            /\ ~(p[1].dims[3] > in[3])
        BY <1>3, <3>1 DEF Inexact
      <4>2. BehindOnes(p[1].dims) = [d \in 1 .. 4 |-> p[1].dims[d]]
        BY <4>1 DEF BehindOnes
      <4>3. Strides(p) = ArgmaxOutput(p) /\ Strides(p).dims = BehindOnes(p[1].dims)
        BY <3>1 DEF Strides, ArgmaxOutput
      <4>4. output_data_type(p) = ArgmaxElement(p) /\ output_data_type(p) # "INT16"
        BY <2>2, <3>1, <4>1 DEF output_data_type, ArgmaxElement, ArgmaxFormat
      <4>5. /\ W(Strides(p)) = in[1] /\ H(Strides(p)) = in[2] /\ N(Strides(p)) = in[4]
            /\ C(Strides(p)) = p[1].dims[3] /\ Ranks(p[1]) = p[1].dims[3]
        BY <3>1, <4>1, <4>2, <4>3 DEF W, H, C, N, Ranks
      <4>6. Ranks(p[1]) \in {1, 2} /\ in[3] >= Ranks(p[1])
        BY <2>2, <2>5, <3>1, <4>1, <4>5 DEF Ranks
      <4> QED BY <2>4, <2>6, <4>3, <4>4, <4>5, <4>6, ArgmaxExact
    <3>2. CASE p[1].kind = "image"
      <4>1. p[1].type \in {"U8", "U16", "VIRT"}
        BY <1>3, <3>2 DEF Inexact
      <4>2. verdict.outputs = Announces(1, ArgmaxFormat(p), <<in[1], in[2] * in[4]>>)
        BY <1>2, <2>1, <3>2 DEF validateArgmax, Verdict
      <4>3. p[1].dims = <<in[1], in[2] * in[4]>>
        BY <1>1, <4>2 DEF AcceptsLayer, Agrees, Announces, Announced
      <4>4. in[1] \in Nat /\ in[2] \in Nat /\ in[4] \in Nat \ {0}
        BY <2>4 DEF Extents, W, H, N
      <4>5. (in[2] * in[4]) \div in[4] = in[2]
        <5> HIDE DEF in
        <5> QED BY <4>4, BatchesApart
      <4>6. p[1].dims[1] = in[1] /\ p[1].dims[2] \div in[4] = in[2]
        BY <4>3, <4>5
      <4>7. /\ Strides(p) = [dims |-> <<in[1], in[2], 1, in[4]>>]
            /\ ArgmaxOutput(p) = [dims |-> <<in[1], in[2], 1, in[4]>>]
        BY <3>2, <4>6 DEF Strides, ArgmaxOutput
      <4>8. output_data_type(p) = ArgmaxElement(p) /\ output_data_type(p) # "INT16"
        BY <3>2, <4>1 DEF output_data_type, ArgmaxElement, ArgmaxFormat
      <4>9. /\ W(Strides(p)) = in[1] /\ H(Strides(p)) = in[2] /\ N(Strides(p)) = in[4]
            /\ C(Strides(p)) = 1 /\ Ranks(p[1]) = 1
        BY <3>2, <4>7 DEF W, H, C, N, Ranks
      <4> QED BY <2>4, <2>5, <2>6, <4>7, <4>8, <4>9, ArgmaxExact
    <3> QED BY <2>2, <3>1, <3>2
  <2>8. Generated(l.kernel, p).moves = argmax_codegen(p)
    BY <1>3, KernelMoves DEF Generated, argmax
  <2>9. TopTwoExact(Behind(1, 1, p[0].dims)[3])
    BY <2>5, TopTwoAlways
  <2> QED BY <1>3, <2>7, <2>8, <2>9 DEF Exact
<1>4. CASE l.kernel = "image_to_tensor"
  <2>1. verdict \in validateImageToTensorKernel(p)
    BY <1>1, <1>4 DEF Validate
  <2>2. p[0].type \in {"RGB", "U8"} /\ IsFloat(p[1], {4})
    BY <1>2, <2>1 DEF validateImageToTensorKernel, Verdict
  <2>3. Extents(p[1])
    <3>1. p[1].dims \in Seq(Nat \ {0})
      BY <1>2, <1>4, NeededTensor, GeneratorSignatures
    <3> QED BY <2>2, <3>1, FourExtents DEF IsFloat
  <2>4. C(p[1]) = Channels(p[0].type) /\ (p[0].type = "U8" => W(p[1]) % 4 = 0)
    BY <1>4 DEF Inexact
  <2>5. Generated(l.kernel, p).moves = image_to_tensor_codegen(p)
    BY <1>4, KernelMoves, Zenon DEF Generated, image_to_tensor
  <2>6. image_to_tensor_codegen(p) = Intended("image_to_tensor", p)
    BY <2>2, <2>3, <2>4, ImageToTensorExact
  <2> QED BY <1>4, <2>5, <2>6 DEF Exact
<1>5. CASE l.kernel = "tensor_to_image"
  <2>1. verdict \in validateTensorToImageKernel(p)
    BY <1>1, <1>5 DEF Validate
  <2>2. IsFloat(p[0], {4}) /\ C(p[0]) \in {1, 3} /\ W(p[0]) % 4 = 0
    BY <1>2, <2>1 DEF validateTensorToImageKernel, Verdict
  <2>3. verdict.outputs = Announces(1, PictureFormat(p[0]), <<W(p[0]), H(p[0]) * N(p[0])>>)
    BY <1>2, <2>1 DEF validateTensorToImageKernel, Verdict
  <2>4. p[1].type \in {PictureFormat(p[0]), "VIRT"}
    BY <1>1, <2>3 DEF AcceptsLayer, Agrees, Announces, Announced
  <2>5. Extents(p[0])
    <3>1. p[0].dims \in Seq(Nat \ {0})
      BY <1>2, <1>5, NeededTensor, GeneratorSignatures
    <3> QED BY <2>2, <3>1, FourExtents DEF IsFloat
  <2>6. Generated(l.kernel, p).moves = tensor_to_image_codegen(p)
    BY <1>5, KernelMoves, Zenon DEF Generated, tensor_to_image
  <2>7. tensor_to_image_codegen(p) = Intended("tensor_to_image", p)
    BY <2>2, <2>4, <2>5, TensorToImageExact
  <2> QED BY <1>5, <2>6, <2>7 DEF Exact
<1>6. CASE l.kernel = "upsample_nearest"
  <2>1. verdict \in validateUpsample(p)
    BY <1>1, <1>6 DEF Validate
  <2>2. IsFloat(p[0], {4}) /\ p[1].dims = <<2 * W(p[0]), 2 * H(p[0]), C(p[0]), N(p[0])>>
    BY <1>2, <2>1 DEF validateUpsample, Verdict
  <2>3. Extents(p[0])
    <3>1. p[0].dims \in Seq(Nat \ {0})
      BY <1>2, <1>6, NeededTensor, GeneratorSignatures
    <3> QED BY <2>2, <3>1, FourExtents DEF IsFloat
  <2>4. Generated(l.kernel, p).moves = upsample_codegen(p)
    BY <1>6, KernelMoves, Zenon DEF Generated, upsample
  <2>5. upsample_codegen(p) = Intended("upsample_nearest", p)
    BY <2>2, <2>3, UpsampleExact
  <2> QED BY <1>6, <2>4, <2>5 DEF Exact
<1>7. CASE l.kernel = "tensor_table_lookup"
  <2>1. verdict \in validateTensorTableLookup(p)
    BY <1>1, <1>7 DEF Validate
  <2>2. /\ p[0].type \in {"UINT8", "INT16"} /\ p[1].type = p[2].type
        /\ ~(p[0].type = "INT16" /\ p[2].type = "UINT8")
    BY <1>2, <2>1 DEF validateTensorTableLookup, Verdict
  <2>3. ~(p[0].type = "INT16" /\ Elements(p[0]) % 2 = 0)
    BY <1>7 DEF Inexact
  <2>4. WellFormed(p[1]) /\ p[1].kind = "lut"
    <3>1. 1 \in DOMAIN Signature(l.kernel) /\ ~Signature(l.kernel)[1].optional
      BY <1>7, GeneratorSignatures
    <3>2. WellFormed(p[1]) /\ p[1].kind \in Kinds(Signature(l.kernel)[1])
      BY <1>2, <3>1, Needed
    <3> QED BY <1>7, <3>2, GeneratorSignatures DEF Kinds
  <2>5. tensor_table_lookup(p).moves = Intended("tensor_table_lookup", p)
    BY <2>2, <2>3, <2>4, LookupExact DEF WellFormed
  <2>6. Generated(l.kernel, p) = tensor_table_lookup(p)
    BY <1>7 DEF Generated
  <2> QED BY <1>7, <2>5, <2>6 DEF Exact
<1>8. CASE l.kernel = "concat"
  <2>1. verdict \in validateConcatLayer(p)
    BY <1>1, <1>8 DEF Validate
  <2>2. Pieced(p)
    BY <1>2, <2>1 DEF validateConcatLayer, Verdict
  <2>3. Fits(p)
    BY <1>2, <1>8, <2>2, PiecedFits
  <2>4. Generated(l.kernel, p) = concat(p)
    BY <1>8 DEF Generated
  <2> QED BY <1>8, <2>3, <2>4, ConcatExact DEF Exact
<1>9. CASE l.kernel = "slice"
  <2>1. verdict \in validateSliceLayer(p)
    BY <1>1, <1>9 DEF Validate
  <2>2. Pieced(p)
    BY <1>2, <2>1 DEF validateSliceLayer, Verdict
  <2>3. Fits(p)
    BY <1>2, <1>9, <2>2, PiecedFits
  <2>4. Generated(l.kernel, p) = slice(p)
    BY <1>9 DEF Generated
  <2> QED BY <1>9, <2>3, <2>4, SliceExact DEF Exact
<1> QED BY <1>3, <1>4, <1>5, <1>6, <1>7, <1>8, <1>9 DEF Generating

\* The arguments a user would give are of these kinds.
LEMMA FittingTyped ==
  ASSUME NEW kernel \in NeuralKernels, NEW p \in Fitting[kernel] PROVE Typed(kernel, p)
BY LayerAssumption DEF Typed

\* So are they when one is replaced.
LEMMA ReplacedTyped ==
  ASSUME NEW kernel, NEW p, Typed(kernel, p), NEW i, NEW a \in OddArguments,
         Replaceable(kernel, p, i, a)
  PROVE  Typed(kernel, [p EXCEPT ![i] = a])
<1> DEFINE q == [p EXCEPT ![i] = a]
<1>1. DOMAIN q = DOMAIN p
  OBVIOUS
<1>2. WellFormed(a) /\ (Given(a) => a.kind \in Kinds(Signature(kernel)[i]))
  BY LayerAssumption DEF Replaceable
<1>3. \A j \in DOMAIN p : q[j] = IF j = i THEN a ELSE p[j]
  OBVIOUS
<1> HIDE DEF q
<1>4. Typed(kernel, q)
  BY <1>1, <1>2, <1>3 DEF Typed
<1> QED BY <1>4 DEF q

\* The scalars that a constructor makes for a generator are those of its signature.
LEMMA ScalarsMade ==
  ASSUME NEW c \in LayerConstructors, c.kernel \in Generating, NEW i \in DOMAIN Listed(c.made)
  PROVE  Listed(c.made)[i] = Passed \/ Signature(c.kernel)[i].kind = "scalar"
<1>1. c \in {vxArgmaxLayer, vxConcatLayer, vxSliceLayer, vxConvertImageToTensorNode,
             vxConvertTensorToImageNode, vxUpsampleNearestLayer, vxTensorTableLookupNode}
  BY DEF LayerConstructors, Generating, Constructs, vxConvolutionLayer, vxFullyConnectedLayer,
     vxPoolingLayer, vxSoftmaxLayer, vxNormalizationLayer, vxActivationLayer,
     vxDeconvolutionLayer, vxBatchNormalizationLayer, vxTensorAddNode, vxTensorSubtractNode,
     vxTensorMultiplyNode, vxScaleLayer, vxTensorMatrixMultiplyNode, vxReshapeLayer
<1>2. CASE c \in {vxArgmaxLayer, vxUpsampleNearestLayer}
  <2>1. c.made = <<Passed, Passed>>
    BY <1>2 DEF vxArgmaxLayer, vxUpsampleNearestLayer, Constructs
  <2>2. i \in 0 .. 1
    BY <2>1 DEF Listed
  <2> QED BY <2>1, <2>2 DEF Listed
<1>3. CASE c \in {vxConcatLayer, vxSliceLayer}
  <2>1. c.made = [j \in 1 .. 9 |-> Passed]
    BY <1>3 DEF vxConcatLayer, vxSliceLayer, Constructs
  <2>2. Len(c.made) = 9
    BY <2>1
  <2>3. i + 1 \in 1 .. 9 /\ i \in 0 .. Len(c.made) - 1
    BY <2>2 DEF Listed
  <2> QED BY <2>1, <2>3 DEF Listed
<1>4. CASE c = vxTensorTableLookupNode
  BY <1>4 DEF vxTensorTableLookupNode, Constructs, Listed
<1>5. CASE c = vxConvertImageToTensorNode
  <2>1. c.kernel = "image_to_tensor" /\ i \in 0 .. 4 /\ (i \in {0, 1} => Listed(c.made)[i] = Passed)
    BY <1>5 DEF vxConvertImageToTensorNode, Constructs, Listed
  <2> QED BY <2>1, GeneratorSignatures
<1>6. CASE c = vxConvertTensorToImageNode
  <2>1. c.kernel = "tensor_to_image" /\ i \in 0 .. 4 /\ (i \in {0, 1} => Listed(c.made)[i] = Passed)
    BY <1>6 DEF vxConvertTensorToImageNode, Constructs, Listed
  <2> QED BY <2>1, GeneratorSignatures
<1> QED BY <1>1, <1>2, <1>3, <1>4, <1>5, <1>6

\* So a constructor passes arguments of these kinds on.
LEMMA MadeTyped ==
  ASSUME NEW c \in LayerConstructors, NEW p, Typed(c.kernel, p)
  PROVE  Typed(c.kernel, MadeBy(c, p))
<1> DEFINE made == Listed(c.made)
           q == MadeBy(c, p)
<1>1. /\ DOMAIN q = DOMAIN p
      /\ \A i \in DOMAIN p : q[i] = IF i \notin DOMAIN made THEN Nothing
                                    ELSE IF made[i] = Passed THEN p[i]
                                    ELSE Number(made[i], p[i].value)
  BY DEF MadeBy
<1>2. WellFormed(Nothing) /\ ~Given(Nothing)
  BY DEF WellFormed, Given, Nothing
<1>3. \A type, value : WellFormed(Number(type, value)) /\ Number(type, value).kind = "scalar"
  BY DEF WellFormed, Number
<1> HIDE DEF q
<1>4. ASSUME c.kernel \in Generating, NEW i \in DOMAIN p
      PROVE  WellFormed(q[i]) /\ (Given(q[i]) => q[i].kind \in Kinds(Signature(c.kernel)[i]))
  <2>1. CASE i \notin DOMAIN made
    BY <1>1, <1>2, <2>1
  <2>2. CASE i \in DOMAIN made /\ made[i] = Passed
    BY <1>1, <1>4, <2>2 DEF Typed
  <2>3. CASE i \in DOMAIN made /\ made[i] # Passed
    <3>1. Signature(c.kernel)[i].kind = "scalar"
      BY <1>4, <2>3, ScalarsMade
    <3>2. q[i] = Number(made[i], p[i].value)
      BY <1>1, <2>3
    <3> QED BY <1>3, <3>1, <3>2 DEF Kinds
  <2> QED BY <2>1, <2>2, <2>3
<1> QED BY <1>1, <1>4 DEF Typed, q

\* The arguments of all layers, and what has been verified of them.
PassedInv ==
  /\ \A n \in 1 .. Len(layers) : Typed(layers[n].kernel, layers[n].p)
  /\ status \in {"initialising", "verified"} => \A n \in 1 .. Len(layers) : MayPass(layers[n])

\* At first there is no layer.
LEMMA PassedInit == ASSUME LayerInit PROVE PassedInv
<1>1. Len(layers) = 0 /\ status = "loading"
  BY DEF LayerInit
<1> QED BY <1>1 DEF PassedInv

\* One more layer.
LEMMA PassedAdd ==
  ASSUME LayersInv, PassedInv, NEW kernel, NEW by, NEW fits, NEW p, status = "building",
         Typed(kernel, p), AddLayer(kernel, by, fits, p)
  PROVE  PassedInv'
<1> DEFINE l == [kernel |-> kernel, by |-> by, fits |-> fits, p |-> p, data |-> NoObjects,
                 ready |-> FALSE, broken |-> FALSE, applied |-> {}]
<1>1. layers' = Append(layers, l) /\ status' = "building"
  BY DEF AddLayer
<1>2. Typed(l.kernel, l.p)
  OBVIOUS
<1> HIDE DEF l
<1>3. IsSeq(layers)
  BY DEF LayersInv
<1>4. /\ Len(layers') = Len(layers) + 1
      /\ \A n \in 1 .. Len(layers) : layers'[n] = layers[n]
      /\ layers'[Len(layers) + 1] = l
  BY <1>1, <1>3, Appended
<1>5. \A n \in 1 .. Len(layers') : n \in 1 .. Len(layers) \/ n = Len(layers) + 1
  BY <1>3, <1>4 DEF IsSeq
<1>6. \A n \in 1 .. Len(layers') : Typed(layers'[n].kernel, layers'[n].p)
  BY <1>2, <1>4, <1>5 DEF PassedInv
<1> QED BY <1>1, <1>6 DEF PassedInv

\* The graph keeps its layers: they have been verified, or are verified now.
LEMMA PassedKept ==
  ASSUME PassedInv, SameLayers,
         status' \in {"initialising", "verified"} =>
           status = "initialising" \/ \A n \in 1 .. Len(layers) : MayPass(layers[n])
  PROVE  PassedInv'
<1>1. Len(layers') = Len(layers)
  BY DEF SameLayers
<1>2. \A n \in 1 .. Len(layers) :
        /\ layers'[n].kernel = layers[n].kernel /\ layers'[n].p = layers[n].p
        /\ MayPass(layers'[n]) <=> MayPass(layers[n])
  BY SaidOfSameNode DEF SameLayers, SameNode
<1>3. \A n \in 1 .. Len(layers') : Typed(layers'[n].kernel, layers'[n].p)
  BY <1>1, <1>2 DEF PassedInv
<1>4. status' \in {"initialising", "verified"} => \A n \in 1 .. Len(layers') : MayPass(layers'[n])
  BY <1>1, <1>2 DEF PassedInv
<1> QED BY <1>3, <1>4 DEF PassedInv

\* The constructors keep it.
LEMMA PassedConstruct == ASSUME LayersInv, PassedInv, ConstructLayer PROVE PassedInv'
<1>1. PICK c \in {c \in LayerConstructors : MayAdd(c.kernel)} :
        \E p \in Fitting[c.kernel] :
          \/ AddLayer(c.kernel, "constructor", TRUE, MadeBy(c, p))
          \/ /\ layers = <<>>
             /\ \E n \in 1 .. Len(c.made), a \in OddArguments :
                  /\ c.made[n] = Passed
                  /\ Replaceable(c.kernel, p, n - 1, a)
                  /\ AddLayer(c.kernel, "constructor", FALSE, MadeBy(c, [p EXCEPT ![n - 1] = a]))
  BY DEF ConstructLayer
<1>2. c \in LayerConstructors /\ c.kernel \in NeuralKernels /\ status = "building"
  BY <1>1 DEF MayAdd, LayersInv
<1>3. PICK p \in Fitting[c.kernel] :
        \/ AddLayer(c.kernel, "constructor", TRUE, MadeBy(c, p))
        \/ \E n \in 1 .. Len(c.made), a \in OddArguments :
             /\ Replaceable(c.kernel, p, n - 1, a)
             /\ AddLayer(c.kernel, "constructor", FALSE, MadeBy(c, [p EXCEPT ![n - 1] = a]))
  BY <1>1
<1>4. Typed(c.kernel, p)
  BY <1>2, FittingTyped
<1>5. CASE AddLayer(c.kernel, "constructor", TRUE, MadeBy(c, p))
  <2>1. Typed(c.kernel, MadeBy(c, p))
    BY <1>2, <1>4, MadeTyped
  <2> QED BY <1>2, <1>5, <2>1, PassedAdd
<1>6. ASSUME NEW n \in 1 .. Len(c.made), NEW a \in OddArguments, Replaceable(c.kernel, p, n - 1, a),
             AddLayer(c.kernel, "constructor", FALSE, MadeBy(c, [p EXCEPT ![n - 1] = a]))
      PROVE  PassedInv'
  <2>1. Typed(c.kernel, [p EXCEPT ![n - 1] = a])
    BY <1>4, <1>6, ReplacedTyped
  <2>2. Typed(c.kernel, MadeBy(c, [p EXCEPT ![n - 1] = a]))
    BY <1>2, <2>1, MadeTyped
  <2> QED BY <1>2, <1>6, <2>2, PassedAdd
<1> QED BY <1>3, <1>5, <1>6

\* And nodes made by hand.
LEMMA PassedCreate == ASSUME LayersInv, PassedInv, CreateLayer PROVE PassedInv'
<1>1. PICK kernel \in {k \in NeuralKernels : MayAdd(k)} : \E p \in Fitting[kernel] :
        \/ AddLayer(kernel, "hand", TRUE, p)
        \/ /\ layers = <<>>
           /\ \E i \in DOMAIN p, a \in OddArguments :
                /\ Replaceable(kernel, p, i, a)
                /\ AddLayer(kernel, "hand", FALSE, [p EXCEPT ![i] = a])
  BY DEF CreateLayer
<1>2. status = "building" /\ kernel \in NeuralKernels
  BY <1>1 DEF MayAdd
<1>3. PICK p \in Fitting[kernel] :
        \/ AddLayer(kernel, "hand", TRUE, p)
        \/ \E i \in DOMAIN p, a \in OddArguments :
             /\ Replaceable(kernel, p, i, a)
             /\ AddLayer(kernel, "hand", FALSE, [p EXCEPT ![i] = a])
  BY <1>1
<1>4. Typed(kernel, p)
  BY <1>2, FittingTyped
<1>5. CASE AddLayer(kernel, "hand", TRUE, p)
  BY <1>2, <1>4, <1>5, PassedAdd
<1>6. ASSUME NEW i \in DOMAIN p, NEW a \in OddArguments, Replaceable(kernel, p, i, a),
             AddLayer(kernel, "hand", FALSE, [p EXCEPT ![i] = a])
      PROVE  PassedInv'
  <2>1. Typed(kernel, [p EXCEPT ![i] = a])
    BY <1>4, <1>6, ReplacedTyped
  <2> QED BY <1>2, <1>6, <2>1, PassedAdd
<1> QED BY <1>3, <1>5, <1>6

\* Every step keeps it.
LEMMA PassedStepInv ==
  ASSUME LayersInv, PassedInv, [LayerNext]_layerVars PROVE PassedInv'
<1>1. CASE nnPublishKernels
  <2>1. layers' = layers /\ status' = "building"
    BY <1>1 DEF nnPublishKernels
  <2> QED BY <2>1 DEF PassedInv
<1>2. CASE ConstructLayer
  BY <1>2, PassedConstruct
<1>3. CASE CreateLayer
  BY <1>3, PassedCreate
<1>4. CASE VerifyLayers
  <2>1. /\ layers' = layers
        /\ (\A n \in 1 .. Len(layers) : MayPass(layers[n])) \/ status' = "refused"
    BY <1>4 DEF VerifyLayers
  <2>2. SameLayers
    BY <2>1 DEF SameLayers, SameNode
  <2> QED BY <2>1, <2>2, PassedKept
<1>5. ASSUME NEW n \in 1 .. Len(layers), InitializeLayer(n) \/ GenerateKernel(n) PROVE PassedInv'
  BY <1>5, InitializeSame, GenerateSame, PassedKept
<1>6. ASSUME NEW n \in 1 .. Len(layers), UninitializeLayer(n) PROVE PassedInv'
  BY <1>6, UninitializeSame, PassedKept
<1>7. CASE ProcessLayers
  BY <1>7, ProcessSame, PassedKept
<1>8. CASE ReleaseLayers \/ LayersGone
  <2>1. layers' = layers /\ status' \in {"releasing", "released"}
    BY <1>8 DEF ReleaseLayers, LayersGone
  <2> QED BY <2>1 DEF PassedInv
<1>9. CASE UNCHANGED layerVars
  <2>1. layers' = layers /\ status' = status
    BY <1>9 DEF layerVars
  <2> QED BY <2>1 DEF PassedInv
<1> QED BY <1>1, <1>2, <1>3, <1>4, <1>5, <1>6, <1>7, <1>8, <1>9 DEF LayerNext

\* What it says of the property.
LEMMA PassedExact == ASSUME PassedInv PROVE GeneratedKernelsExact
<1>1. ASSUME status = "verified", NEW n \in 1 .. Len(layers),
             layers[n].kernel \in Generating, ~Inexact(layers[n])
      PROVE  Exact(layers[n])
  BY <1>1, VerifiedExact DEF PassedInv
<1> QED BY <1>1 DEF GeneratedKernelsExact, Exact

-------------------------------------------------------------------------------
(***************************************************************************)
(* The theorems.                                                           *)
(***************************************************************************)
\* What the invariant says of the count of the handle and of the objects.
LEMMA InvReleased == ASSUME LayersInv PROVE LayersReleased
<1>1. handle = Cardinality({n \in 1 .. Len(layers) : "handle" \in layers[n].data.held})
  BY DEF LayersInv, Holders
<1>2. ASSUME status = "released", NEW n \in 1 .. Len(layers)
      PROVE  layers[n].data.held = {} \/ layers[n].broken
  <2>1. ~layers[n].ready /\ LayerOK(layers[n], registered, cbr)
    BY <1>2 DEF LayersInv, GraphOK
  <2> QED BY <2>1 DEF LayerOK, Phase
<1> QED BY <1>1, <1>2 DEF LayersReleased

\* And of the types.
LEMMA InvTypes == ASSUME LayersInv PROVE LayersTypeOK
<1>1. handle \in 0 .. Len(layers)
  BY HoldersCounted DEF LayersInv
<1>2. ASSUME NEW n \in 1 .. Len(layers)
      PROVE  /\ layers[n].kernel \in registered
             /\ DOMAIN layers[n].p = DOMAIN Signature(layers[n].kernel)
             /\ ~(layers[n].ready /\ layers[n].broken)
             /\ layers[n].ready => status \notin {"loading", "building", "refused", "released"}
  <2>1. LayerOK(layers[n], registered, cbr) /\ GraphOK(layers, status) /\ n \in Nat /\ n > 0
    BY DEF LayersInv
  <2>2. layers[n].ready => status \notin {"loading", "building", "refused", "released"}
    BY <2>1 DEF GraphOK, InitialisedUpTo
  <2> QED BY <2>1, <2>2 DEF LayerOK, Node, Phase
<1> QED BY <1>1, <1>2 DEF LayersInv, LayersTypeOK, Statuses

\* All these hold throughout, whatever arguments the layers are given.
THEOREM LayersAlwaysSound == LayerSpec => []LayersInv
<1> QED BY LayersInitInv, LayersStepInv, PTL DEF LayerSpec

\* The types of the module's state.
THEOREM LayersTyped == LayerSpec => []LayersTypeOK
BY LayersAlwaysSound, InvTypes, PTL

\* The handle is counted right, and a released graph holds nothing but what a
\* callback that failed has left behind.
THEOREM LayersAlwaysReleased == LayerSpec => []LayersReleased
BY LayersAlwaysSound, InvReleased, PTL

\* A graph that verifies calls MIOpen with nothing that was never made, but for
\* the code's two exceptions.
THEOREM VerifiedLayersAlwaysRun == LayerSpec => []VerifiedLayersRun
<1>1. LayersInv => VerifiedLayersRun
  BY DEF LayersInv
<1> QED BY <1>1, LayersAlwaysSound, PTL

\* An execution applies all that a layer was given, but for the code's exception.
THEOREM LayersAlwaysApplied == LayerSpec => []LayersApplied
<1>1. LayersInv => LayersApplied
  BY DEF LayersInv
<1> QED BY <1>1, LayersAlwaysSound, PTL

\* A graph of layers with fitting arguments verifies, and what is generated for it
\* compiles, whoever made its nodes; but for the code's exceptions.
THEOREM ConstructedLayersAlwaysVerify == LayerSpec => []ConstructedLayersVerify
<1>1. LayerInit => MadeInv
  BY MadeInitInv
<1>2. LayersInv /\ MadeInv /\ [LayerNext]_layerVars => MadeInv'
  BY MadeStepInv
<1>3. MadeInv => ConstructedLayersVerify
  BY MadeVerifies
<1> QED BY <1>1, <1>2, <1>3, LayersAlwaysSound, PTL DEF LayerSpec

\* What is generated for a verified graph does exactly what it is to do, of tensors
\* and images of every shape, but for the code's exceptions.
THEOREM GeneratedKernelsAlwaysExact == LayerSpec => []GeneratedKernelsExact
<1>1. LayerInit => PassedInv
  BY PassedInit
<1>2. LayersInv /\ PassedInv /\ [LayerNext]_layerVars => PassedInv'
  BY PassedStepInv
<1>3. PassedInv => GeneratedKernelsExact
  BY PassedExact
<1> QED BY <1>1, <1>2, <1>3, LayersAlwaysSound, PTL DEF LayerSpec

===============================================================================
