----------------------- MODULE InferenceSessionProofs -----------------------
(***************************************************************************)
(* Theorems about what an inference session owes its client and leaves     *)
(* behind: the input queue stays within its limit, no image is answered    *)
(* twice, and the destructor finds every buffer where it releases it.      *)
(***************************************************************************)
EXTENDS InferencePipelineProofs, FiniteSetTheorems

----------------------------------------------------------------------------
(* The input queue stays within the limit.                                 *)

\* Markers may lie beyond the limit, images do not; and there is room for the images
\* of the current request.
InputInv ==
    /\ \A i \in DOMAIN inputQ : inputQ[i] # Eos => i <= MaxInputQueue
    /\ runPc = "receive" => Len(inputQ) + toReceive <= MaxInputQueue

\* The session thread and the master keep the images within the limit.
LEMMA StepInputInv ==
    ASSUME MaxCountHonoured, TypeInv, InputInv, [Next]_vars
    PROVE  InputInv'
<1>1. inputQ \in Seq(Tag) /\ Len(inputQ) \in Nat /\ MaxInputQueue \in Nat /\ Eos \in Tag
      /\ toReceive \in Nat
  BY ConstantTypes DEF TypeInv, QueueTypeOK, SessionInv, SessionTypeOK, Tag
<1>2. ASSUME inputQ' = Append(inputQ, Eos), runPc' # "receive"
      PROVE  InputInv'
  BY <1>1, <1>2, Appended DEF InputInv
<1>3. CASE RequestImages
  <2>1. CASE UNCHANGED inputQ /\ runPc' # "receive"
    BY <2>1 DEF InputInv
  <2>2. CASE ~(UNCHANGED inputQ /\ runPc' # "receive")
    <3>1. /\ ~(Requested <= 0)
          /\ \E count \in Answers(Requested) :
               /\ toReceive' = IF count < 0 THEN 0 ELSE count
               /\ inputQ' = IF count < 0 THEN Append(inputQ, Eos) ELSE inputQ
               /\ runPc' = IF count > 0 THEN "receive" ELSE NextIteration
      BY <1>3, <2>2 DEF RequestImages, Leave, NextIteration, requestVars
    <3>2. PICK count \in Answers(Requested) :
               /\ toReceive' = IF count < 0 THEN 0 ELSE count
               /\ inputQ' = IF count < 0 THEN Append(inputQ, Eos) ELSE inputQ
               /\ runPc' = IF count > 0 THEN "receive" ELSE NextIteration
      BY <3>1
    <3>3. /\ Requested \in Int /\ Requested <= MaxInputQueue - Len(inputQ)
          /\ sent \in Nat /\ NumImages \in Nat
      BY <1>1, ConstantTypes DEF Requested, Smaller, TypeInv, SessionInv, SessionTypeOK
    <3>4. count = -1 \/ (count \in Nat /\ count <= Requested)
      BY <3>1, <3>2, <3>3 DEF Answers, Smaller
    <3>5. CASE count = -1
      <4>1. inputQ' = Append(inputQ, Eos) /\ runPc' # "receive"
        BY <3>2, <3>5 DEF NextIteration
      <4> QED BY <1>2, <4>1
    <3>6. CASE count \in Nat /\ count <= Requested
      <4>1. inputQ' = inputQ /\ toReceive' = count
        BY <3>2, <3>6
      <4>2. Len(inputQ) + count <= MaxInputQueue
        BY <1>1, <3>3, <3>6
      <4> QED BY <4>1, <4>2 DEF InputInv
    <3> QED BY <3>4, <3>5, <3>6
  <2> QED BY <2>1, <2>2
<1>4. CASE ReceiveImage
  <2>1. CASE inputQ' = inputQ /\ runPc' # "receive"
    BY <2>1 DEF InputInv
  <2>2. CASE ~(inputQ' = inputQ /\ runPc' # "receive")
    <3>1. /\ inputQ' = Append(inputQ, sent + 1) /\ toReceive' = toReceive - 1
          /\ Len(inputQ) + toReceive <= MaxInputQueue /\ toReceive > 0
          /\ runPc' = "receive" => toReceive > 1
      BY <1>4, <2>2 DEF ReceiveImage, Leave, InputInv, NextIteration, TypeInv, SessionInv
    <3>2. sent + 1 \in Tag
      BY <1>4, ConstantTypes DEF ReceiveImage, TypeInv, SessionInv, SessionTypeOK, Tag, Images
    <3>3. /\ Len(inputQ') = Len(inputQ) + 1
          /\ \A i \in DOMAIN inputQ' : (i \in DOMAIN inputQ /\ inputQ'[i] = inputQ[i])
                                       \/ i = Len(inputQ) + 1
      BY <1>1, <3>1, <3>2, Appended
    <3>4. Len(inputQ) + 1 <= MaxInputQueue
      BY <1>1, <3>1
    <3>5. runPc' = "receive" => Len(inputQ') + toReceive' <= MaxInputQueue
      BY <1>1, <3>1, <3>3
    <3> QED BY <3>3, <3>4, <3>5 DEF InputInv
  <2> QED BY <2>1, <2>2
<1>5. CASE DestroyEos
  BY <1>2, <1>5 DEF DestroyEos
<1>6. CASE MasterNext
  <2>1. inputQ # <<>> /\ inputQ' = Tail(inputQ) /\ UNCHANGED <<runPc, toReceive>>
    BY <1>6 DEF MasterNext, sessionVars, requestVars
  <2>2. \A i \in DOMAIN inputQ' : i \in Nat /\ i + 1 \in DOMAIN inputQ
                                  /\ inputQ'[i] = inputQ[i + 1]
    BY <1>1, <2>1, Tailed
  <2>3. Len(inputQ') + 1 = Len(inputQ) /\ Len(inputQ') \in Nat
    BY <1>1, <2>1, Tailed
  <2>4. \A i \in DOMAIN inputQ' : inputQ'[i] # Eos => i <= MaxInputQueue
    BY <1>1, <2>2 DEF InputInv
  <2>5. runPc' = "receive" => Len(inputQ') + toReceive' <= MaxInputQueue
    BY <1>1, <2>1, <2>3 DEF InputInv
  <2> QED BY <2>4, <2>5 DEF InputInv
<1>7. CASE UNCHANGED inputQ /\ (runPc' = "receive" => runPc = "receive" /\ UNCHANGED toReceive)
  BY <1>7 DEF InputInv
<1>8. CASE Run \/ Destroy
  <2>1. RequestImages \/ ReceiveImage \/ DestroyEos
        \/ (UNCHANGED inputQ /\ (runPc' = "receive" => runPc = "receive" /\ UNCHANGED toReceive))
    BY <1>8 DEF Run, Destroy, HandleRequest, CreateDevice, StartThreads, CountResults,
       TakeResult, TakeLabels, SendReply, ExchangeDone, JoinMaster, DestroyTag, DestroyImage,
       JoinDevice, ReleaseDevice, Leave, AfterTake
  <2> QED BY <1>3, <1>4, <1>5, <1>7, <2>1
<1>9. CASE Master
  <2>1. MasterNext \/ UNCHANGED <<inputQ, runPc, toReceive>>
    BY <1>9 DEF Master, MasterTag, MasterImage, MasterPick, MasterEosTag, MasterEosImage,
       sessionVars, requestVars
  <2> QED BY <1>6, <1>7, <2>1
<1>10. ASSUME NEW g \in Devices, InputCopy(g) \/ Process(g) \/ OutputCopy(g)
       PROVE  InputInv'
  <2>1. UNCHANGED inputQ
    BY <1>10 DEF InputCopy, Process, OutputCopy, CopyTakeMem, CopyTakeImage, CopyPut, CopyEos,
         ProcTakeInput, ProcTakeOutput, ProcGraph, ProcEmit, ProcEos, OutTakeMem, OutTakeTag,
         OutPutLabels, OutReturnMem, OutEos
  <2>2. UNCHANGED <<runPc, toReceive>>
    BY <1>10, ThreadsRun DEF sessionVars, requestVars
  <2> QED BY <1>7, <2>1, <2>2
<1>11. CASE UNCHANGED vars
  BY <1>7, <1>11 DEF vars, sessionVars, requestVars
<1> QED BY <1>8, <1>9, <1>10, <1>11 DEF Next

\* If the client sends no more images than it is asked for, the images waiting in the
\* input queue stay within MAX_INPUT_QUEUE_DEPTH, for every size of request, of batch and
\* of queue.
THEOREM InputBounded ==
    ASSUME MaxCountHonoured
    PROVE  Spec => []InputQueueBounded
<1>1. Init => TypeInv /\ InputInv
  BY InitTypeInv DEF Init, InputInv
<1>2. (TypeInv /\ InputInv) /\ [Next]_vars => (TypeInv /\ InputInv)'
  BY StepTypeInv, StepInputInv
<1>3. TypeInv /\ InputInv => InputQueueBounded
  <2> SUFFICES ASSUME TypeInv, InputInv PROVE InputQueueBounded
    OBVIOUS
  <2> DEFINE waiting == {i \in DOMAIN inputQ : inputQ[i] # Eos}
  <2>1. waiting \in SUBSET (1..MaxInputQueue)
    BY ConstantTypes DEF InputInv, TypeInv, QueueTypeOK
  <2>2. MaxInputQueue \in Nat /\ 1 \in Int /\ MaxInputQueue \in Int
    BY ConstantTypes
  <2>3. IsFiniteSet(1..MaxInputQueue) /\ Cardinality(1..MaxInputQueue) = MaxInputQueue
    <3>1. /\ IsFiniteSet(1..MaxInputQueue)
          /\ Cardinality(1..MaxInputQueue)
               = IF 1 > MaxInputQueue THEN 0 ELSE MaxInputQueue - 1 + 1
      BY <2>2, FS_Interval
    <3> QED BY <2>2, <3>1
  <2> HIDE DEF waiting
  <2>4. Cardinality(waiting) <= MaxInputQueue
    BY <2>1, <2>3, FS_Subset
  <2> QED BY <2>4 DEF InputQueueBounded, waiting
<1> QED BY <1>1, <1>2, <1>3, PTL DEF Spec

----------------------------------------------------------------------------
(* No image is answered twice.                                             *)

\* Where the tag of an image can be: in the input queue, in the hands of the master, in
\* the tag queue of a device, in the output queue, or told to the client.
InSpot   == -1
HandSpot == -2
OutSpot  == -3
Told     == -4
Spots    == {InSpot, HandSpot, OutSpot, Told} \cup Devices

\* The tags of entries, the tag in the hands of the master, and all places together.
Tags(q) == [i \in DOMAIN q |-> q[i][1]]
Hand == IF masterPc = "tag" THEN <<masterTag>> ELSE <<>>
Spread(input, hand, out, told, devices) ==
    [s \in Spots |-> IF s \in Devices THEN devices[s]
                     ELSE IF s = InSpot THEN input
                     ELSE IF s = HandSpot THEN hand
                     ELSE IF s = OutSpot THEN out ELSE told]
Waiting == Spread(inputQ, Hand, Tags(outputQ), Tags(results \o packet), tagQ)

\* The positions of the images; each image has one, and is among the first n.
Positions(W) == {p \in Spots \X Nat : p[2] \in DOMAIN W[p[1]] /\ W[p[1]][p[2]] # Eos}
ImageAt(W, p) == W[p[1]][p[2]]
Single(W)    == \A p, q \in Positions(W) : ImageAt(W, p) = ImageAt(W, q) => p = q
UpTo(W, n)   == \A p \in Positions(W) : ImageAt(W, p) <= n

\* No tag is in two places, and none has not been sent.
OnceInv == Single(Waiting) /\ UpTo(Waiting, sent)

\* What waits at every place.
Line == [Spots -> Seq(Tag)]

\* Images that have each come from a place of their own are still single.
LEMMA Relocated ==
    ASSUME NEW W, NEW V, NEW n, Single(W), UpTo(W, n),
           NEW from \in [Positions(V) -> Positions(W)],
           \A p \in Positions(V) : ImageAt(W, from[p]) = ImageAt(V, p),
           \A p, q \in Positions(V) : from[p] = from[q] => p = q
    PROVE  Single(V) /\ UpTo(V, n)
<1>1. ASSUME NEW p \in Positions(V), NEW q \in Positions(V), ImageAt(V, p) = ImageAt(V, q)
      PROVE  p = q
  <2>1. from[p] \in Positions(W) /\ from[q] \in Positions(W)
    OBVIOUS
  <2>2. from[p] = from[q]
    BY <1>1, <2>1 DEF Single
  <2> QED BY <2>2
<1>2. UpTo(V, n)
  BY DEF UpTo
<1> QED BY <1>1, <1>2 DEF Single

\* The oldest tag of a place goes to the end of another.
LEMMA TagMoved ==
    ASSUME NEW W \in Line, NEW V \in Line, NEW n, Single(W), UpTo(W, n),
           NEW a \in Spots, NEW b \in Spots, a # b, W[a] # <<>>,
           V[a] = Tail(W[a]), V[b] = Append(W[b], Head(W[a])),
           \A s \in Spots \ {a, b} : V[s] = W[s]
    PROVE  Single(V) /\ UpTo(V, n)
<1> DEFINE from == [p \in Positions(V) |->
                      IF p[1] = a THEN <<a, p[2] + 1>>
                      ELSE IF p = <<b, Len(W[b]) + 1>> THEN <<a, 1>> ELSE p]
<1>1. W[a] \in Seq(Tag) /\ W[b] \in Seq(Tag) /\ Head(W[a]) \in Tag
  BY DEF Line
<1>2. ASSUME NEW p \in Positions(V)
      PROVE  from[p] \in Positions(W) /\ ImageAt(W, from[p]) = ImageAt(V, p)
  <2>1. /\ p \in Spots \X Nat /\ p[2] \in DOMAIN V[p[1]] /\ V[p[1]][p[2]] # Eos
        /\ p = <<p[1], p[2]>> /\ p[1] \in Spots /\ p[2] \in Nat
    BY DEF Positions
  <2>2. CASE p[1] = a
    <3>0. \A i \in DOMAIN Tail(W[a]) : /\ i + 1 \in DOMAIN W[a] /\ i + 1 \in Nat
                                       /\ Tail(W[a])[i] = W[a][i + 1]
      BY <1>1, Tailed
    <3>1. /\ p[2] + 1 \in DOMAIN W[a] /\ W[a][p[2] + 1] = V[p[1]][p[2]] /\ p[2] + 1 \in Nat
      BY <2>1, <2>2, <3>0
    <3>2. from[p] = <<a, p[2] + 1>>
      BY <2>2
    <3> HIDE DEF from
    <3> QED BY <2>1, <3>1, <3>2 DEF Positions, ImageAt
  <2>3. CASE p = <<b, Len(W[b]) + 1>>
    <3>1. from[p] = <<a, 1>> /\ p[1] = b /\ p[2] = Len(W[b]) + 1
      BY <2>3
    <3>2. 1 \in DOMAIN W[a] /\ W[a][1] = Head(W[a])
      BY <1>1, Tailed
    <3>3. V[p[1]][p[2]] = Head(W[a])
      BY <1>1, <3>1, Appended
    <3> HIDE DEF from
    <3> QED BY <2>1, <3>1, <3>2, <3>3 DEF Positions, ImageAt
  <2>4. CASE p[1] # a /\ p # <<b, Len(W[b]) + 1>>
    <3>1. from[p] = p
      BY <2>4
    <3>2. p[2] \in DOMAIN W[p[1]] /\ W[p[1]][p[2]] = V[p[1]][p[2]]
      <4>1. CASE p[1] = b
        <5>1. p[2] # Len(W[b]) + 1
          BY <2>1, <2>4, <4>1
        <5> QED BY <1>1, <2>1, <4>1, <5>1, Appended
      <4>2. CASE p[1] # b
        BY <2>1, <2>4, <4>2
      <4> QED BY <4>1, <4>2
    <3> HIDE DEF from
    <3> QED BY <2>1, <3>1, <3>2 DEF Positions, ImageAt
  <2> QED BY <2>2, <2>3, <2>4
<1>3. ASSUME NEW p \in Positions(V), NEW q \in Positions(V), from[p] = from[q]
      PROVE  p = q
  <2>1. /\ p = <<p[1], p[2]>> /\ p[2] \in Nat /\ p[2] \in DOMAIN V[p[1]]
        /\ q = <<q[1], q[2]>> /\ q[2] \in Nat /\ q[2] \in DOMAIN V[q[1]]
    BY DEF Positions
  <2>2. \A r \in {p, q} : r[1] = a => from[r] = <<a, r[2] + 1>> /\ r[2] >= 1
    <3>1. \A i \in DOMAIN Tail(W[a]) : i >= 1
      BY <1>1, Tailed
    <3> QED BY <2>1, <3>1
  <2>3. \A r \in {p, q} : r = <<b, Len(W[b]) + 1>> => from[r] = <<a, 1>> /\ r[1] # a
    <3> SUFFICES ASSUME NEW r \in {p, q}, r = <<b, Len(W[b]) + 1>>
                 PROVE  from[r] = <<a, 1>> /\ r[1] # a
      OBVIOUS
    <3>1. r[1] = b /\ r \in Positions(V)
      OBVIOUS
    <3> QED BY <3>1
  <2>4. \A r \in {p, q} : r[1] # a /\ r # <<b, Len(W[b]) + 1>> => from[r] = r
    OBVIOUS
  <2> HIDE DEF from
  <2>5. CASE p[1] = a /\ q[1] = a
    <3>1. p[2] + 1 = q[2] + 1
      BY <1>3, <2>2, <2>5
    <3> QED BY <2>1, <2>5, <3>1
  <2>6. CASE p[1] = a /\ q[1] # a
    BY <1>3, <2>1, <2>2, <2>3, <2>4, <2>6
  <2>7. CASE p[1] # a /\ q[1] = a
    BY <1>3, <2>1, <2>2, <2>3, <2>4, <2>7
  <2>8. CASE p[1] # a /\ q[1] # a
    BY <1>3, <2>1, <2>3, <2>4, <2>8
  <2> QED BY <2>5, <2>6, <2>7, <2>8
<1>4. from \in [Positions(V) -> Positions(W)]
  BY <1>2
<1> HIDE DEF from
<1> QED BY <1>2, <1>3, <1>4, Relocated

\* The oldest tag of a place is dropped, or all of them.
LEMMA TagDropped ==
    ASSUME NEW W \in Line, NEW V \in Line, NEW n, Single(W), UpTo(W, n), NEW a \in Spots,
           \/ W[a] # <<>> /\ V[a] = Tail(W[a])
           \/ V[a] = <<>>
           \/ V[a] = W[a],
           \A s \in Spots \ {a} : V[s] = W[s]
    PROVE  Single(V) /\ UpTo(V, n)
<1> DEFINE shift == IF V[a] # W[a] THEN 1 ELSE 0
           from == [p \in Positions(V) |-> IF p[1] = a THEN <<a, p[2] + shift>> ELSE p]
<1>1. W[a] \in Seq(Tag)
  BY DEF Line
<1>2. ASSUME NEW p \in Positions(V)
      PROVE  from[p] \in Positions(W) /\ ImageAt(W, from[p]) = ImageAt(V, p)
  <2>1. /\ p \in Spots \X Nat /\ p[2] \in DOMAIN V[p[1]] /\ V[p[1]][p[2]] # Eos
        /\ p = <<p[1], p[2]>> /\ p[1] \in Spots /\ p[2] \in Nat
    BY DEF Positions
  <2>2. CASE p[1] = a
    <3>1. V[a] # <<>>
      BY <2>1, <2>2
    <3>2. /\ p[2] + shift \in DOMAIN W[a] /\ W[a][p[2] + shift] = V[p[1]][p[2]]
          /\ p[2] + shift \in Nat
      <4>1. CASE V[a] = W[a]
        BY <2>1, <2>2, <4>1
      <4>2. CASE V[a] # W[a]
        <5>1. W[a] # <<>> /\ V[a] = Tail(W[a]) /\ shift = 1
          BY <3>1, <4>2
        <5> QED BY <1>1, <2>1, <2>2, <5>1, Tailed
      <4> QED BY <4>1, <4>2
    <3>3. from[p] = <<a, p[2] + shift>>
      BY <2>2
    <3> HIDE DEF from, shift
    <3> QED BY <2>1, <3>2, <3>3 DEF Positions, ImageAt
  <2>3. CASE p[1] # a
    <3>1. from[p] = p /\ V[p[1]] = W[p[1]]
      BY <2>1, <2>3
    <3> HIDE DEF from
    <3> QED BY <2>1, <3>1 DEF Positions, ImageAt
  <2> QED BY <2>2, <2>3
<1>3. ASSUME NEW p \in Positions(V), NEW q \in Positions(V), from[p] = from[q]
      PROVE  p = q
  <2>1. /\ p = <<p[1], p[2]>> /\ p[2] \in Nat /\ q = <<q[1], q[2]>> /\ q[2] \in Nat
    BY DEF Positions
  <2>2. \A r \in {p, q} : /\ r[1] = a => from[r] = <<a, r[2] + shift>>
                          /\ r[1] # a => from[r] = r
    OBVIOUS
  <2>3. shift \in Nat
    OBVIOUS
  <2> HIDE DEF from, shift
  <2>4. CASE p[1] = a /\ q[1] = a
    <3>1. p[2] + shift = q[2] + shift
      BY <1>3, <2>2, <2>4
    <3> QED BY <2>1, <2>3, <2>4, <3>1
  <2>5. CASE ~(p[1] = a /\ q[1] = a)
    BY <1>3, <2>1, <2>2, <2>5
  <2> QED BY <2>4, <2>5
<1>4. from \in [Positions(V) -> Positions(W)]
  BY <1>2
<1> HIDE DEF from
<1> QED BY <1>2, <1>3, <1>4, Relocated

\* A marker, or an image that was nowhere, is put somewhere.
LEMMA TagAdded ==
    ASSUME NEW W \in Line, NEW V \in Line, NEW n \in Nat, Single(W), UpTo(W, n),
           NEW a \in Spots, NEW x \in {Eos, n + 1}, x \in Tag,
           V[a] = Append(W[a], x), \A s \in Spots \ {a} : V[s] = W[s]
    PROVE  Single(V) /\ UpTo(V, n + 1) /\ (x = Eos => UpTo(V, n))
<1>1. W[a] \in Seq(Tag)
  BY DEF Line
<1>2. ASSUME NEW p \in Positions(V)
      PROVE  \/ p \in Positions(W) /\ ImageAt(W, p) = ImageAt(V, p)
             \/ x # Eos /\ p = <<a, Len(W[a]) + 1>> /\ ImageAt(V, p) = n + 1
  <2>1. /\ p \in Spots \X Nat /\ p[2] \in DOMAIN V[p[1]] /\ V[p[1]][p[2]] # Eos
        /\ p = <<p[1], p[2]>> /\ p[1] \in Spots /\ p[2] \in Nat
    BY DEF Positions
  <2>2. CASE p[1] # a
    BY <2>1, <2>2 DEF Positions, ImageAt
  <2>3. CASE p[1] = a /\ p[2] \in DOMAIN W[a]
    <3>1. W[a][p[2]] = V[a][p[2]]
      BY <1>1, <2>3, Appended
    <3> QED BY <2>1, <2>3, <3>1 DEF Positions, ImageAt
  <2>4. CASE p[1] = a /\ p[2] \notin DOMAIN W[a]
    <3>1. p[2] = Len(W[a]) + 1 /\ V[a][p[2]] = x
      BY <1>1, <2>1, <2>4, Appended
    <3> QED BY <2>1, <2>4, <3>1 DEF ImageAt
  <2> QED BY <2>2, <2>3, <2>4
<1>3. \A p \in Positions(W) : ImageAt(W, p) <= n /\ ImageAt(W, p) \in Int
  <2> SUFFICES ASSUME NEW p \in Positions(W)
               PROVE  ImageAt(W, p) <= n /\ ImageAt(W, p) \in Int
    OBVIOUS
  <2>1. p[1] \in Spots /\ p[2] \in DOMAIN W[p[1]]
    BY DEF Positions
  <2>2. W[p[1]] \in Seq(Tag)
    BY <2>1 DEF Line
  <2>3. ImageAt(W, p) \in Tag
    BY <2>1, <2>2 DEF ImageAt
  <2> QED BY <2>3, ConstantTypes DEF UpTo, Tag, Images, Eos
<1>4. ASSUME NEW p \in Positions(V), NEW q \in Positions(V), ImageAt(V, p) = ImageAt(V, q)
      PROVE  p = q
  <2>1. CASE p \in Positions(W) /\ ImageAt(W, p) = ImageAt(V, p)
    <3>1. ImageAt(V, q) # n + 1
      BY <1>3, <1>4, <2>1
    <3>2. q \in Positions(W) /\ ImageAt(W, q) = ImageAt(V, q)
      BY <1>2, <3>1
    <3> QED BY <1>4, <2>1, <3>2 DEF Single
  <2>2. CASE p = <<a, Len(W[a]) + 1>> /\ ImageAt(V, p) = n + 1
    <3>1. ~(q \in Positions(W) /\ ImageAt(W, q) = ImageAt(V, q))
      BY <1>3, <1>4, <2>2
    <3> QED BY <1>2, <2>2, <3>1
  <2> QED BY <1>2, <2>1, <2>2
<1>5. UpTo(V, n + 1)
  <2> SUFFICES ASSUME NEW p \in Positions(V) PROVE ImageAt(V, p) <= n + 1
    BY DEF UpTo
  <2> QED BY <1>2, <1>3
<1>6. x = Eos => UpTo(V, n)
  BY <1>2, <1>3 DEF UpTo
<1> QED BY <1>4, <1>5, <1>6 DEF Single

\* What is where.
LEMMA SpreadFacts ==
    ASSUME NEW input \in Seq(Tag), NEW hand \in Seq(Tag), NEW out \in Seq(Tag),
           NEW told \in Seq(Tag), NEW devices \in [Devices -> Seq(Tag)]
    PROVE  LET W == Spread(input, hand, out, told, devices)
           IN /\ W \in Line
              /\ W[InSpot] = input /\ W[HandSpot] = hand /\ W[OutSpot] = out /\ W[Told] = told
              /\ \A g \in Devices : W[g] = devices[g]
<1>1. {InSpot, HandSpot, OutSpot, Told} \cap Devices = {}
  BY ConstantTypes DEF InSpot, HandSpot, OutSpot, Told, Devices
<1>2. InSpot # HandSpot /\ InSpot # OutSpot /\ InSpot # Told /\ HandSpot # OutSpot
      /\ HandSpot # Told /\ OutSpot # Told
  BY DEF InSpot, HandSpot, OutSpot, Told
<1> HIDE DEF InSpot, HandSpot, OutSpot, Told
<1>3. /\ InSpot \in Spots /\ HandSpot \in Spots /\ OutSpot \in Spots /\ Told \in Spots
      /\ Devices \subseteq Spots
  BY DEF Spots
<1> QED BY <1>1, <1>2, <1>3 DEF Spread, Line

\* The places are different.
LEMMA SpotsApart ==
    /\ InSpot # HandSpot /\ InSpot # OutSpot /\ InSpot # Told /\ HandSpot # OutSpot
    /\ HandSpot # Told /\ OutSpot # Told
    /\ \A g \in Devices : g # InSpot /\ g # HandSpot /\ g # OutSpot /\ g # Told
    /\ InSpot \in Spots /\ HandSpot \in Spots /\ OutSpot \in Spots /\ Told \in Spots
    /\ Devices \subseteq Spots
    /\ \A s \in Spots : s \in {InSpot, HandSpot, OutSpot, Told} \/ s \in Devices
<1>1. \A g \in Devices : g # InSpot /\ g # HandSpot /\ g # OutSpot /\ g # Told
  BY ConstantTypes DEF InSpot, HandSpot, OutSpot, Told, Devices
<1>2. InSpot # HandSpot /\ InSpot # OutSpot /\ InSpot # Told /\ HandSpot # OutSpot
      /\ HandSpot # Told /\ OutSpot # Told
  BY DEF InSpot, HandSpot, OutSpot, Told
<1> QED BY <1>1, <1>2 DEF Spots

\* The tags of entries.
LEMMA TagsFacts ==
    /\ \A q \in Seq(Entry) : Tags(q) \in Seq(Tag) /\ Len(Tags(q)) = Len(q)
    /\ \A q \in Seq(Entry), r \in Entry : Tags(Append(q, r)) = Append(Tags(q), r[1])
    /\ \A q \in Seq(Entry) : q # <<>> => /\ Tags(Tail(q)) = Tail(Tags(q)) /\ Tags(q) # <<>>
                                         /\ Head(Tags(q)) = Head(q)[1]
<1>1. \A q \in Seq(Entry) : Tags(q) \in Seq(Tag) /\ Len(Tags(q)) = Len(q)
  BY DEF Tags, Entry
<1>2. ASSUME NEW q \in Seq(Entry), NEW r \in Entry
      PROVE  Tags(Append(q, r)) = Append(Tags(q), r[1])
  <2>1. r[1] \in Tag
    BY DEF Entry
  <2> QED BY <1>1, <2>1 DEF Tags
<1>3. ASSUME NEW q \in Seq(Entry), q # <<>>
      PROVE  /\ Tags(Tail(q)) = Tail(Tags(q)) /\ Tags(q) # <<>>
             /\ Head(Tags(q)) = Head(q)[1]
  <2> DEFINE h == Tail(q)
             t == Tags(q)
  <2>1. /\ h \in Seq(Entry) /\ Len(h) + 1 = Len(q) /\ Len(q) \in Nat /\ Len(h) \in Nat
        /\ \A i \in DOMAIN h : i + 1 \in DOMAIN q /\ h[i] = q[i + 1]
        /\ Head(q) = q[1] /\ 1 \in DOMAIN q
    BY <1>3, Tailed
  <2>2. /\ t \in Seq(Tag) /\ Len(t) = Len(q) /\ \A i \in DOMAIN q : t[i] = q[i][1]
    <3>1. \A i \in DOMAIN q : t[i] = q[i][1]
      BY DEF Tags
    <3> QED BY <1>1, <3>1
  <2>3. t # <<>>
    BY <2>1, <2>2
  <2>4. /\ Tail(t) \in Seq(Tag) /\ Len(Tail(t)) + 1 = Len(t) /\ Len(Tail(t)) \in Nat
        /\ Head(t) = t[1] /\ \A i \in DOMAIN Tail(t) : Tail(t)[i] = t[i + 1]
    BY <2>2, <2>3, Tailed
  <2>5. /\ Tags(h) \in Seq(Tag) /\ Len(Tags(h)) = Len(h)
        /\ \A i \in DOMAIN h : Tags(h)[i] = h[i][1]
    BY <1>1, <2>1 DEF Tags
  <2> HIDE DEF h, t
  <2>6. Len(Tail(t)) = Len(h)
    BY <2>1, <2>2, <2>4
  <2>7. \A i \in DOMAIN h : Tags(h)[i] = Tail(t)[i]
    <3>1. DOMAIN h = 1..Len(h)
      BY <2>1
    <3>2. DOMAIN Tail(t) = 1..Len(Tail(t))
      <4> DEFINE z == Tail(t)
      <4>1. z \in Seq(Tag)
        BY <2>4
      <4> HIDE DEF z
      <4>2. DOMAIN z = 1..Len(z)
        BY <4>1
      <4> QED BY <4>2 DEF z
    <3> QED BY <2>1, <2>2, <2>4, <2>5, <2>6, <3>1, <3>2
  <2>8. \A x, y \in Seq(Tag) : Len(x) = Len(y) /\ (\A i \in 1..Len(x) : x[i] = y[i]) => x = y
    OBVIOUS
  <2>9. Tags(h) = Tail(t)
    BY <2>1, <2>4, <2>5, <2>6, <2>7, <2>8
  <2>10. Head(t) = Head(q)[1]
    BY <2>1, <2>2, <2>4
  <2> QED BY <2>3, <2>9, <2>10 DEF h, t
<1> QED BY <1>1, <1>2, <1>3

\* The types of what waits.
LEMMA WaitingTypes ==
    ASSUME TypeInv
    PROVE  /\ inputQ \in Seq(Tag) /\ Hand \in Seq(Tag) /\ Tags(outputQ) \in Seq(Tag)
           /\ results \o packet \in Seq(Entry) /\ Tags(results \o packet) \in Seq(Tag)
           /\ tagQ \in [Devices -> Seq(Tag)] /\ outputQ \in Seq(Entry)
<1>1. /\ inputQ \in Seq(Tag) /\ outputQ \in Seq(Entry) /\ tagQ \in [Devices -> Seq(Tag)]
      /\ masterTag \in Tag
  BY DEF TypeInv, QueueTypeOK, MasterInv, MasterTypeOK, Entry
<1>2. results \o packet \in Seq(Entry)
  BY EntryTypes, ConcatType
<1>3. Hand \in Seq(Tag)
  BY <1>1 DEF Hand
<1>4. Tags(outputQ) \in Seq(Tag) /\ Tags(results \o packet) \in Seq(Tag)
  BY <1>1, <1>2, TagsFacts
<1> QED BY <1>1, <1>2, <1>3, <1>4

\* The same in the next state.
LEMMA WaitingTypesNext ==
    ASSUME TypeInv'
    PROVE  (/\ inputQ \in Seq(Tag) /\ Hand \in Seq(Tag) /\ Tags(outputQ) \in Seq(Tag)
            /\ results \o packet \in Seq(Entry) /\ Tags(results \o packet) \in Seq(Tag)
            /\ tagQ \in [Devices -> Seq(Tag)])'
<1>1. /\ inputQ' \in Seq(Tag) /\ outputQ' \in Seq(Entry) /\ tagQ' \in [Devices -> Seq(Tag)]
      /\ masterTag' \in Tag /\ results' \in Seq(Answer) /\ packet' \in Seq(Answer)
  BY DEF TypeInv, QueueTypeOK, MasterInv, MasterTypeOK, Entry, SessionInv, SessionTypeOK
<1>2. results' \o packet' \in Seq(Entry)
  <2>1. \A q \in Seq(Answer) : q \in Seq(Entry)
    BY DEF Answer, Entry, Tag
  <2> QED BY <1>1, <2>1, ConcatType
<1>3. Hand' \in Seq(Tag)
  BY <1>1 DEF Hand
<1>4. Tags(outputQ)' = Tags(outputQ') /\ Tags(results \o packet)' = Tags(results' \o packet')
  BY DEF Tags
<1>5. Tags(outputQ') \in Seq(Tag) /\ Tags(results' \o packet') \in Seq(Tag)
  BY <1>1, <1>2, TagsFacts
<1> QED BY <1>1, <1>2, <1>3, <1>4, <1>5

\* What waits where before and after a step.
LEMMA WaitingFacts ==
    ASSUME TypeInv, TypeInv'
    PROVE  /\ Waiting \in Line /\ Waiting' \in Line
           /\ Waiting[InSpot] = inputQ /\ Waiting'[InSpot] = inputQ'
           /\ Waiting[HandSpot] = Hand /\ Waiting'[HandSpot] = Hand'
           /\ Waiting[OutSpot] = Tags(outputQ) /\ Waiting'[OutSpot] = Tags(outputQ')
           /\ Waiting[Told] = Tags(results \o packet)
           /\ Waiting'[Told] = Tags(results' \o packet')
           /\ \A g \in Devices : Waiting[g] = tagQ[g] /\ Waiting'[g] = tagQ'[g]
<1>0. ASSUME NEW i \in Seq(Tag), NEW h \in Seq(Tag), NEW o \in Seq(Tag), NEW t \in Seq(Tag),
             NEW d \in [Devices -> Seq(Tag)], NEW W, W = Spread(i, h, o, t, d)
      PROVE  /\ W \in Line /\ W[InSpot] = i /\ W[HandSpot] = h /\ W[OutSpot] = o
             /\ W[Told] = t /\ \A g \in Devices : W[g] = d[g]
  <2> DEFINE S == Spread(i, h, o, t, d)
  <2>1. /\ S \in Line /\ S[InSpot] = i /\ S[HandSpot] = h /\ S[OutSpot] = o
        /\ S[Told] = t /\ \A g \in Devices : S[g] = d[g]
    BY SpreadFacts, SMTT(60)
  <2> HIDE DEF S
  <2>2. W = S
    BY <1>0 DEF S
  <2> QED BY <2>1, <2>2
<1>1. Waiting = Spread(inputQ, Hand, Tags(outputQ), Tags(results \o packet), tagQ)
  BY DEF Waiting
<1>2. Waiting' = Spread(inputQ', Hand', Tags(outputQ'), Tags(results' \o packet'), tagQ')
  BY DEF Waiting, Spread, Tags
<1>3. /\ inputQ' \in Seq(Tag) /\ Hand' \in Seq(Tag) /\ Tags(outputQ') \in Seq(Tag)
      /\ Tags(results' \o packet') \in Seq(Tag) /\ tagQ' \in [Devices -> Seq(Tag)]
  BY WaitingTypesNext DEF Tags
<1>4. /\ Waiting \in Line /\ Waiting[InSpot] = inputQ /\ Waiting[HandSpot] = Hand
      /\ Waiting[OutSpot] = Tags(outputQ) /\ Waiting[Told] = Tags(results \o packet)
      /\ \A g \in Devices : Waiting[g] = tagQ[g]
  <2> HIDE DEF Waiting
  <2>1. /\ inputQ \in Seq(Tag) /\ Hand \in Seq(Tag) /\ Tags(outputQ) \in Seq(Tag)
        /\ Tags(results \o packet) \in Seq(Tag) /\ tagQ \in [Devices -> Seq(Tag)]
    BY WaitingTypes
  <2> HIDE DEF Hand, Tags
  <2> QED BY <1>0, <1>1, <2>1, SMTT(60)
<1>5. /\ Waiting' \in Line /\ Waiting'[InSpot] = inputQ' /\ Waiting'[HandSpot] = Hand'
      /\ Waiting'[OutSpot] = Tags(outputQ') /\ Waiting'[Told] = Tags(results' \o packet')
      /\ \A g \in Devices : Waiting'[g] = tagQ'[g]
  BY <1>0, <1>2, <1>3
<1> QED BY <1>4, <1>5

\* Every step keeps the images single.
LEMMA StepOnceInv ==
    ASSUME TypeInv, TypeInv', OnceInv, [Next]_vars
    PROVE  OnceInv'
<1> DEFINE W == Waiting
           V == Waiting'
<1> HIDE DEF W, V
<1>1. SUFFICES Single(V) /\ UpTo(V, sent')
  BY DEF OnceInv, V, Single, UpTo, Positions, ImageAt
<1>2. Single(W) /\ UpTo(W, sent) /\ sent \in Nat
  BY DEF OnceInv, W, TypeInv, SessionInv, SessionTypeOK
<1>3. /\ W \in Line /\ V \in Line
      /\ W[InSpot] = inputQ /\ V[InSpot] = inputQ'
      /\ W[HandSpot] = Hand /\ V[HandSpot] = Hand'
      /\ W[OutSpot] = Tags(outputQ) /\ V[OutSpot] = Tags(outputQ')
      /\ W[Told] = Tags(results \o packet) /\ V[Told] = Tags(results' \o packet')
      /\ \A g \in Devices : W[g] = tagQ[g] /\ V[g] = tagQ'[g]
  BY WaitingFacts DEF W, V
<1>4. /\ inputQ \in Seq(Tag) /\ Hand \in Seq(Tag) /\ outputQ \in Seq(Entry)
      /\ results \o packet \in Seq(Entry) /\ tagQ \in [Devices -> Seq(Tag)]
      /\ masterTag \in Tag /\ Eos \in Tag
  BY WaitingTypes DEF TypeInv, MasterInv, MasterTypeOK, Tag
<1>5. ASSUME UNCHANGED <<inputQ, Hand, outputQ, tagQ, sent>>,
             results' \o packet' = results \o packet \/ UNCHANGED <<results, packet>>
      PROVE  Single(V) /\ UpTo(V, sent')
  <2>1. results' \o packet' = results \o packet
    BY <1>5
  <2>2. V = W
    BY <1>5, <2>1 DEF W, V, Waiting, Spread, Tags
  <2> QED BY <1>2, <1>5, <2>2
<1>6. ASSUME NEW a \in Spots, V[a] = Append(W[a], Eos), UNCHANGED sent,
             \A s \in Spots \ {a} : V[s] = W[s]
      PROVE  Single(V) /\ UpTo(V, sent')
  <2>1. Eos \in {Eos, sent + 1}
    OBVIOUS
  <2>2. Single(V) /\ UpTo(V, sent)
    BY <1>2, <1>3, <1>4, <1>6, <2>1, TagAdded
  <2> QED BY <1>6, <2>2
<1>7. CASE Master
  <2>1. UNCHANGED <<sent, results, packet, outputQ>>
    BY <1>7 DEF Master, MasterNext, MasterTag, MasterImage, MasterPick, MasterEosTag,
       MasterEosImage, sessionVars, clientVars, replyVars, resultQs
  <2>2. V[OutSpot] = W[OutSpot] /\ V[Told] = W[Told]
    BY <1>3, <2>1
  <2>3. CASE MasterNext
    <3>1. /\ masterPc = "next" /\ inputQ # <<>> /\ inputQ' = Tail(inputQ) /\ tagQ' = tagQ
          /\ Hand = <<>>
      BY <2>3 DEF MasterNext, deviceQs, Hand
    <3>2. CASE Head(inputQ) \in EmptyFiles \cup {Eos}
      <4>1. Hand' = <<>>
        BY <2>3, <3>2 DEF MasterNext, Hand
      <4>2. \A s \in Spots \ {InSpot} : V[s] = W[s]
        BY <1>3, <2>2, <3>1, <4>1, SpotsApart
      <4> QED BY <1>2, <1>3, <2>1, <3>1, <4>2, SpotsApart, TagDropped
    <3>3. CASE Head(inputQ) \notin EmptyFiles \cup {Eos}
      <4>1. Hand' = <<Head(inputQ)>>
        BY <2>3, <3>3 DEF MasterNext, Hand
      <4>2. \A s \in Spots \ {InSpot, HandSpot} : V[s] = W[s]
        BY <1>3, <2>2, <3>1, SpotsApart
      <4>3. V[HandSpot] = Append(W[HandSpot], Head(W[InSpot]))
        BY <1>3, <3>1, <4>1
      <4> QED BY <1>2, <1>3, <2>1, <3>1, <4>2, <4>3, SpotsApart, TagMoved
    <3> QED BY <3>2, <3>3
  <2>4. CASE MasterTag
    <3>1. /\ masterPc = "tag" /\ inputQ' = inputQ /\ Hand = <<masterTag>> /\ Hand' = <<>>
          /\ tagQ' = [tagQ EXCEPT ![masterGpu] = Append(@, masterTag)]
          /\ masterGpu \in Devices
      BY <2>4 DEF MasterTag, Hand, Put, TypeInv, MasterInv, MasterTypeOK
    <3>2. V[HandSpot] = Tail(W[HandSpot]) /\ Head(W[HandSpot]) = masterTag /\ W[HandSpot] # <<>>
      BY <1>3, <3>1
    <3>3. V[masterGpu] = Append(W[masterGpu], Head(W[HandSpot]))
      BY <1>3, <1>4, <3>1, <3>2
    <3>4. \A g \in Devices \ {masterGpu} : V[g] = W[g]
      BY <1>3, <1>4, <3>1
    <3>5. \A s \in Spots \ {HandSpot, masterGpu} : V[s] = W[s]
      BY <1>3, <2>2, <3>1, <3>4, SpotsApart
    <3> QED BY <1>2, <1>3, <2>1, <3>1, <3>2, <3>3, <3>5, SpotsApart, TagMoved
  <2>5. CASE MasterEosTag
    <3>1. /\ inputQ' = inputQ /\ Hand = <<>> /\ Hand' = <<>>
          /\ tagQ' = [tagQ EXCEPT ![masterDev] = Append(@, Eos)] /\ masterDev \in Devices
      BY <2>5 DEF MasterEosTag, Hand, Put, TypeInv, MasterInv, MasterTypeOK
    <3>2. V[masterDev] = Append(W[masterDev], Eos)
      BY <1>3, <1>4, <3>1
    <3>3. \A g \in Devices \ {masterDev} : V[g] = W[g]
      BY <1>3, <1>4, <3>1
    <3>4. \A s \in Spots \ {masterDev} : V[s] = W[s]
      BY <1>3, <2>2, <3>1, <3>3, SpotsApart
    <3> QED BY <1>6, <2>1, <3>1, <3>2, <3>4, SpotsApart
  <2>6. CASE MasterImage \/ MasterPick \/ MasterEosImage
    <3>1. UNCHANGED <<inputQ, tagQ>> /\ Hand = <<>> /\ Hand' = <<>>
      BY <2>6 DEF MasterImage, MasterPick, MasterEosImage, Hand, deviceQs
    <3> QED BY <1>5, <2>1, <3>1
  <2> QED BY <1>7, <2>3, <2>4, <2>5, <2>6 DEF Master
<1>8. ASSUME NEW g \in Devices, InputCopy(g) \/ Process(g) \/ OutputCopy(g)
      PROVE  Single(V) /\ UpTo(V, sent')
  <2>1. UNCHANGED <<sent, results, packet, Hand>>
    BY <1>8, ThreadsRun DEF sessionVars, clientVars, replyVars, masterVars, Hand
  <2>2. inputQ' = inputQ
    BY <1>8 DEF InputCopy, Process, OutputCopy, CopyTakeMem, CopyTakeImage, CopyPut, CopyEos,
         ProcTakeInput, ProcTakeOutput, ProcGraph, ProcEmit, ProcEos, OutTakeMem, OutTakeTag,
         OutPutLabels, OutReturnMem, OutEos
  <2>3. V[InSpot] = W[InSpot] /\ V[HandSpot] = W[HandSpot] /\ V[Told] = W[Told]
    BY <1>3, <2>1, <2>2
  <2>4. CASE OutTakeTag(g)
    <3>1. tagQ[g] # <<>> /\ tagQ' = [tagQ EXCEPT ![g] = Tail(@)]
      BY <2>4 DEF OutTakeTag, Pop
    <3>2. /\ V[g] = Tail(W[g]) /\ W[g] # <<>> /\ Head(W[g]) = Head(tagQ[g])
          /\ \A h \in Devices \ {g} : V[h] = W[h]
      BY <1>3, <1>4, <3>1
    <3>3. CASE Head(tagQ[g]) = Eos
      <4>1. outputQ' = outputQ
        BY <2>4, <3>3 DEF OutTakeTag
      <4>2. \A s \in Spots \ {g} : V[s] = W[s]
        BY <1>3, <2>3, <3>2, <4>1, SpotsApart
      <4> QED BY <1>2, <1>3, <2>1, <3>2, <4>2, SpotsApart, TagDropped
    <3>4. CASE Head(tagQ[g]) # Eos
      <4> DEFINE r == Result(Head(tagQ[g]), outMem[g][outMemHeld[g]][outCount[g] + 1])
      <4>1. outputQ' = Append(outputQ, r) /\ r[1] = Head(tagQ[g])
        BY <2>4, <3>4 DEF OutTakeTag, Result
      <4>2. outputQ' \in Seq(Entry) /\ Len(outputQ) + 1 \in DOMAIN outputQ'
            /\ outputQ'[Len(outputQ) + 1] = r
        BY <4>1, <1>4 DEF TypeInv, QueueTypeOK, Entry
      <4>3. r \in Entry
        BY <4>2
      <4> HIDE DEF r
      <4>4. Tags(outputQ') = Append(Tags(outputQ), Head(tagQ[g]))
        BY <1>4, <4>1, <4>3, TagsFacts
      <4>5. V[OutSpot] = Append(W[OutSpot], Head(W[g]))
        BY <1>3, <3>2, <4>4
      <4>6. \A s \in Spots \ {g, OutSpot} : V[s] = W[s]
        BY <2>3, <3>2, SpotsApart
      <4> QED BY <1>2, <1>3, <2>1, <3>2, <4>5, <4>6, SpotsApart, TagMoved
    <3> QED BY <3>3, <3>4
  <2>5. CASE OutEos(g)
    <3> DEFINE r == <<Eos, NoBoxes>>
    <3>1. outputQ' = Append(outputQ, r) /\ tagQ' = tagQ /\ r \in Entry /\ r[1] = Eos
      BY <1>4, <2>5 DEF OutEos, deviceQs, Entry, Label, NoBoxes, Blank
    <3> HIDE DEF r
    <3>2. V[OutSpot] = Append(W[OutSpot], Eos)
      BY <1>3, <1>4, <3>1, TagsFacts
    <3>3. \A s \in Spots \ {OutSpot} : V[s] = W[s]
      BY <1>3, <2>3, <3>1, SpotsApart
    <3> QED BY <1>6, <2>1, <3>2, <3>3, SpotsApart
  <2>6. CASE ~OutTakeTag(g) /\ ~OutEos(g)
    <3>1. UNCHANGED <<outputQ, tagQ>>
      BY <1>8, <2>6 DEF InputCopy, Process, OutputCopy, CopyTakeMem, CopyTakeImage, CopyPut,
         CopyEos, ProcTakeInput, ProcTakeOutput, ProcGraph, ProcEmit, ProcEos, OutTakeMem,
         OutPutLabels, OutReturnMem, resultQs, deviceQs
    <3> QED BY <1>5, <2>1, <2>2, <3>1
  <2> QED BY <2>4, <2>5, <2>6
<1>9. CASE Run \/ Destroy
  <2>1. CASE TakeResult
    <3> DEFINE r == Head(outputQ)
    <3>1. /\ outputQ # <<>> /\ outputQ' = Tail(outputQ) /\ r \in Entry
          /\ UNCHANGED <<sent, results, inputQ, tagQ, Hand>>
      BY <1>4, <2>1, Tailed DEF TakeResult, clientVars, deviceQs, masterVars, Hand
    <3>2. V[OutSpot] = Tail(W[OutSpot]) /\ W[OutSpot] # <<>> /\ Head(W[OutSpot]) = r[1]
      BY <1>3, <1>4, <3>1, TagsFacts
    <3>3. \A s \in Spots \ {OutSpot, Told} : V[s] = W[s]
      BY <1>3, <3>1, SpotsApart
    <3>4. CASE r[1] = Eos
      <4>1. packet' = packet
        BY <2>1, <3>4 DEF TakeResult
      <4>2. \A s \in Spots \ {OutSpot} : V[s] = W[s]
        BY <1>3, <3>1, <3>3, <4>1
      <4> QED BY <1>2, <1>3, <3>1, <3>2, <4>2, SpotsApart, TagDropped
    <3>5. CASE r[1] # Eos
      <4>1. packet' = Append(packet, r) /\ packet \in Seq(Entry) /\ results \in Seq(Entry)
        BY <2>1, <3>5, EntryTypes DEF TakeResult
      <4>2. results' \o packet' = Append(results \o packet, r)
        BY <3>1, <4>1
      <4>3. V[Told] = Append(W[Told], Head(W[OutSpot]))
        <5> HIDE DEF r
        <5> QED BY <1>3, <1>4, <3>1, <3>2, <4>2, TagsFacts
      <4> QED BY <1>2, <1>3, <3>1, <3>2, <3>3, <4>3, SpotsApart, TagMoved
    <3> QED BY <3>4, <3>5
  <2>2. CASE TakeLabels
    <3>1. /\ UNCHANGED <<sent, results, inputQ, tagQ, Hand, outputQ>>
          /\ packet' = [packet EXCEPT ![Len(packet)] = <<@[1], Head(outputX)>>]
          /\ packet \in Seq(Entry) /\ results \in Seq(Entry)
      BY <2>2, EntryTypes DEF TakeLabels, clientVars, deviceQs, masterVars, Hand
    <3>2. /\ DOMAIN packet' = DOMAIN packet /\ Len(packet') = Len(packet)
          /\ \A i \in DOMAIN packet : packet'[i][1] = packet[i][1]
      BY <3>1
    <3>3. Tags(results' \o packet') = Tags(results \o packet)
      BY <3>1, <3>2 DEF Tags
    <3>4. V = W
      <4>1. Tags(results \o packet)' = Tags(results \o packet)
        BY <3>3 DEF Tags
      <4>2. Tags(outputQ)' = Tags(outputQ)
        BY <3>1 DEF Tags
      <4> QED BY <3>1, <4>1, <4>2 DEF W, V, Waiting, Spread
    <3> QED BY <1>2, <3>1, <3>4
  <2>3. CASE SendReply
    <3>1. UNCHANGED <<sent, inputQ, tagQ, Hand, outputQ>>
          /\ packet \in Seq(Entry) /\ results \in Seq(Entry)
      BY <2>3, EntryTypes DEF SendReply, resultQs, deviceQs, masterVars, Hand
    <3>2. results' \o packet' = results \o packet
      <4>1. (results \o packet) \o <<>> = results \o packet
        BY <1>4
      <4> QED BY <2>3, <4>1 DEF SendReply
    <3> QED BY <1>5, <3>1, <3>2
  <2>4. CASE RequestImages
    <3>1. /\ UNCHANGED <<sent, results, packet, tagQ, Hand, outputQ>>
          /\ inputQ' \in {inputQ, Append(inputQ, Eos)}
      BY <2>4 DEF RequestImages, clientVars, replyVars, deviceQs, resultQs, masterVars, Hand
    <3>2. \A s \in Spots \ {InSpot} : V[s] = W[s]
      BY <1>3, <3>1, SpotsApart
    <3>3. CASE inputQ' = inputQ
      BY <1>5, <3>1, <3>3
    <3>4. CASE inputQ' = Append(inputQ, Eos)
      BY <1>3, <1>6, <3>1, <3>2, <3>4, SpotsApart
    <3> QED BY <3>1, <3>3, <3>4
  <2>5. CASE ReceiveImage
    <3>1. UNCHANGED <<results, packet, tagQ, Hand, outputQ>>
      BY <2>5 DEF ReceiveImage, replyVars, deviceQs, resultQs, masterVars, Hand
    <3>2. CASE UNCHANGED <<sent, inputQ>>
      BY <1>5, <3>1, <3>2
    <3>3. CASE sent' = sent + 1 /\ inputQ' = Append(inputQ, sent + 1)
      <4>1. sent + 1 \in Tag
        BY <2>5, ConstantTypes DEF ReceiveImage, TypeInv, SessionInv, SessionTypeOK, Tag, Images
      <4>2. \A s \in Spots \ {InSpot} : V[s] = W[s]
        BY <1>3, <3>1, SpotsApart
      <4>3. V[InSpot] = Append(W[InSpot], sent + 1)
        BY <1>3, <3>3
      <4>4. sent + 1 \in {Eos, sent + 1}
        OBVIOUS
      <4>5. Single(V) /\ UpTo(V, sent + 1)
        BY <1>2, <1>3, <4>1, <4>2, <4>3, <4>4, SpotsApart, TagAdded
      <4> QED BY <3>3, <4>5
    <3> QED BY <2>5, <3>2, <3>3 DEF ReceiveImage
  <2>6. CASE DestroyEos
    <3>1. /\ UNCHANGED <<sent, results, packet, tagQ, Hand, outputQ>>
          /\ inputQ' = Append(inputQ, Eos)
      BY <2>6 DEF DestroyEos, clientVars, replyVars, deviceQs, resultQs, masterVars, Hand
    <3>2. \A s \in Spots \ {InSpot} : V[s] = W[s]
      BY <1>3, <3>1, SpotsApart
    <3> QED BY <1>3, <1>6, <3>1, <3>2, SpotsApart
  <2>7. CASE DestroyTag
    <3>1. UNCHANGED <<sent, results, packet, inputQ, Hand, outputQ>>
      BY <2>7 DEF DestroyTag, clientVars, replyVars, resultQs, masterVars, Hand
    <3>2. CASE tagQ' = tagQ
      BY <1>5, <3>1, <3>2
    <3>3. CASE dev < created /\ tagQ' = Put(tagQ, dev, Eos)
      <4>1. dev \in Devices
        BY <3>3, ConstantTypes DEF TypeInv, SessionInv, SessionTypeOK, Devices
      <4>2. V[dev] = Append(W[dev], Eos) /\ \A g \in Devices \ {dev} : V[g] = W[g]
        BY <1>3, <1>4, <3>3, <4>1 DEF Put
      <4>3. \A s \in Spots \ {dev} : V[s] = W[s]
        BY <1>3, <3>1, <4>2, SpotsApart
      <4> QED BY <1>6, <3>1, <4>1, <4>2, <4>3, SpotsApart
    <3> QED BY <2>7, <3>2, <3>3 DEF DestroyTag
  <2>8. CASE ReleaseDevice
    <3>1. /\ UNCHANGED <<sent, results, packet, inputQ, Hand, outputQ>> /\ dev \in Devices
          /\ tagQ' = [tagQ EXCEPT ![dev] = <<>>]
      BY <2>8, ConstantTypes DEF ReleaseDevice, clientVars, replyVars, resultQs, masterVars,
         Hand, At, TypeInv, SessionInv, SessionTypeOK, Devices
    <3>2. V[dev] = <<>> /\ \A g \in Devices \ {dev} : V[g] = W[g]
      BY <1>3, <1>4, <3>1
    <3>3. \A s \in Spots \ {dev} : V[s] = W[s]
      BY <1>3, <3>1, <3>2, SpotsApart
    <3> QED BY <1>2, <1>3, <3>1, <3>2, <3>3, SpotsApart, TagDropped
  <2>9. CASE HandleRequest \/ CreateDevice \/ CountResults \/ ExchangeDone \/ StartThreads
             \/ JoinMaster \/ DestroyImage \/ JoinDevice
    <3>1. UNCHANGED <<sent, results, packet, inputQ, tagQ, outputQ>>
      BY <2>9 DEF HandleRequest, CreateDevice, CountResults, ExchangeDone, StartThreads,
         JoinMaster, DestroyImage, JoinDevice, clientVars, replyVars, resultQs, deviceQs
    <3>2. Hand' = Hand
      BY <2>9 DEF HandleRequest, CreateDevice, CountResults, ExchangeDone, StartThreads,
         JoinMaster, DestroyImage, JoinDevice, masterVars, Hand, TypeInv, SetupInv
    <3> QED BY <1>5, <3>1, <3>2
  <2> QED BY <1>9, <2>1, <2>2, <2>3, <2>4, <2>5, <2>6, <2>7, <2>8, <2>9 DEF Run, Destroy
<1>10. CASE UNCHANGED vars
  <2>1. UNCHANGED <<inputQ, Hand, outputQ, tagQ, sent, results, packet>>
    BY <1>10 DEF vars, sessionVars, clientVars, replyVars, resultQs, deviceQs, masterVars, Hand
  <2> QED BY <1>5, <2>1
<1> QED BY <1>7, <1>8, <1>9, <1>10 DEF Next

\* Whatever the devices do and whenever the client leaves, no image is answered twice, and
\* none that was not sent: with any number of devices, images and buffers.
THEOREM EachAnsweredOnce == Spec => []AnsweredOnce
<1>1. Init => TypeInv /\ OnceInv
  <2> SUFFICES ASSUME Init PROVE TypeInv /\ OnceInv
    OBVIOUS
  <2>1. TypeInv
    BY InitTypeInv
  <2>2. /\ inputQ = <<>> /\ Hand = <<>> /\ Tags(outputQ) = <<>>
        /\ Tags(results \o packet) = <<>> /\ \A g \in Devices : tagQ[g] = <<>>
    <3>1. <<>> \o <<>> = <<>> /\ Tags(<<>>) = <<>>
      BY DEF Tags
    <3> QED BY <3>1 DEF Init, Hand
  <2>3. \A s \in Spots : Waiting[s] = <<>>
    BY <2>2 DEF Waiting, Spread
  <2>4. Positions(Waiting) = {}
    BY <2>3 DEF Positions
  <2> QED BY <2>1, <2>4 DEF OnceInv, Single, UpTo
<1>2. (TypeInv /\ OnceInv) /\ [Next]_vars => (TypeInv /\ OnceInv)'
  BY StepTypeInv, StepOnceInv
<1>3. TypeInv /\ OnceInv => AnsweredOnce
  <2> SUFFICES ASSUME TypeInv, OnceInv PROVE AnsweredOnce
    OBVIOUS
  <2>1. /\ results \in Seq(Entry) /\ packet \in Seq(Entry)
        /\ \A i \in DOMAIN results : results[i][1] # Eos
    BY EntryTypes
  <2>2. Waiting[Told] = Tags(results \o packet)
    BY WaitingTypes, SpreadFacts DEF Waiting
  <2>3. ASSUME NEW i \in DOMAIN results
        PROVE  <<Told, i>> \in Positions(Waiting)
               /\ ImageAt(Waiting, <<Told, i>>) = results[i][1]
    <3>1. i \in DOMAIN (results \o packet) /\ (results \o packet)[i] = results[i] /\ i \in Nat
      BY <2>1
    <3>2. i \in DOMAIN Waiting[Told] /\ Waiting[Told][i] = results[i][1]
      BY <2>2, <3>1 DEF Tags
    <3> QED BY <2>1, <3>1, <3>2, SpotsApart DEF Positions, ImageAt
  <2>4. \A i \in DOMAIN results : results[i][1] <= sent
    BY <2>3 DEF OnceInv, UpTo
  <2>5. ASSUME NEW i \in DOMAIN results, NEW j \in DOMAIN results,
               results[i][1] = results[j][1]
        PROVE  i = j
    <3>1. <<Told, i>> = <<Told, j>>
      BY <2>3, <2>5 DEF OnceInv, Single
    <3> QED BY <3>1
  <2> QED BY <2>4, <2>5 DEF AnsweredOnce
<1> QED BY <1>1, <1>2, <1>3, PTL DEF Spec

----------------------------------------------------------------------------
(* The destructor finds everything where it releases it.                   *)

\* A buffer is in a queue; every buffer of a device is somewhere; of all devices created.
In(b, q) == \E i \in DOMAIN q : q[i] = b
Covered(idle, busy, first, second) ==
    \A b \in Buffers : b = first \/ b = second \/ In(b, idle) \/ In(b, busy)

\* Every buffer of a device that exists is in one of its queues or with one of its threads.
Exists(g) == g < created /\ dev <= g
CoverInv ==
    \A g \in Devices : Exists(g) =>
        /\ Covered(inIdle[g], inBusy[g], copyMem[g], procIn[g])
        /\ Covered(outIdle[g], outBusy[g], procOut[g], outMemHeld[g])

\* Where things are after a queue operation.
LEMMA InFacts ==
    ASSUME NEW S
    PROVE  /\ \A q \in Seq(S), x \in S : \A b : In(b, Append(q, x)) <=> In(b, q) \/ b = x
           /\ \A q \in Seq(S) : q # <<>> =>
              \A b : In(b, q) <=> b = Head(q) \/ In(b, Tail(q))
<1>1. ASSUME NEW q \in Seq(S), NEW x \in S, NEW b
      PROVE  In(b, Append(q, x)) <=> In(b, q) \/ b = x
  <2>1. /\ \A i \in DOMAIN q : i \in DOMAIN Append(q, x) /\ Append(q, x)[i] = q[i]
        /\ Len(q) + 1 \in DOMAIN Append(q, x) /\ Append(q, x)[Len(q) + 1] = x
        /\ \A i \in DOMAIN Append(q, x) : i \in DOMAIN q \/ i = Len(q) + 1
    OBVIOUS
  <2> QED BY <2>1 DEF In
<1>2. ASSUME NEW q \in Seq(S), NEW b, q # <<>>
      PROVE  In(b, q) <=> b = Head(q) \/ In(b, Tail(q))
  <2>1. /\ 1 \in DOMAIN q /\ Head(q) = q[1]
        /\ \A i \in DOMAIN Tail(q) : i + 1 \in DOMAIN q /\ Tail(q)[i] = q[i + 1]
    BY <1>2
  <2>2. ASSUME NEW i \in DOMAIN q, i # 1
        PROVE  i - 1 \in DOMAIN Tail(q) /\ Tail(q)[i - 1] = q[i]
    BY <1>2, <2>2
  <2> QED BY <2>1, <2>2 DEF In
<1> QED BY <1>1, <1>2

\* The threads of a device keep its buffers covered, and leave the others alone.
LEMMA ThreadsCover ==
    ASSUME TypeInv, TypeInv', CoverInv, NEW g \in Devices,
           InputCopy(g) \/ Process(g) \/ OutputCopy(g)
    PROVE  CoverInv'
<1> USE DEF Put, Pop, At
<1>1. UNCHANGED <<created, dev>>
  BY ThreadsRun DEF sessionVars, devVars
<1>2. /\ inIdle \in [Devices -> Seq(Handle)] /\ inBusy \in [Devices -> Seq(Handle)]
      /\ outIdle \in [Devices -> Seq(Handle)] /\ outBusy \in [Devices -> Seq(Handle)]
      /\ copyMem \in [Devices -> Handle] /\ procIn \in [Devices -> Handle]
      /\ procOut \in [Devices -> Handle] /\ outMemHeld \in [Devices -> Handle]
      /\ Eos \in Handle /\ Eos \notin Buffers
  <2>1. \A q \in Seq(Buffers) : q \in Seq(Handle)
    BY DEF Handle
  <2>2. inIdle \in [Devices -> Seq(Handle)] /\ outIdle \in [Devices -> Seq(Handle)]
    BY <2>1 DEF TypeInv, MemTypeOK
  <2> QED BY <2>2, Markers DEF Handle, TypeInv, MemTypeOK, CopyInv, CopyTypeOK, ProcInv,
             ProcTypeOK, OutInv, OutTypeOK
<1>3. /\ \A q \in Seq(Handle), x \in Handle : \A b : In(b, Append(q, x)) <=> In(b, q) \/ b = x
      /\ \A q \in Seq(Handle) : q # <<>> =>
           \A b : In(b, q) <=> b = Head(q) \/ In(b, Tail(q))
  BY InFacts
<1>4. ASSUME \A h \in Devices : UNCHANGED <<outIdle[h], outBusy[h], procOut[h], outMemHeld[h]>>,
             \A h \in Devices \ {g} : UNCHANGED <<inIdle[h], inBusy[h], copyMem[h], procIn[h]>>,
             Covered(inIdle[g], inBusy[g], copyMem[g], procIn[g])
             => Covered(inIdle'[g], inBusy'[g], copyMem'[g], procIn'[g])
      PROVE  CoverInv'
  BY <1>1, <1>4 DEF CoverInv, Exists, Covered
<1>5. ASSUME \A h \in Devices : UNCHANGED <<inIdle[h], inBusy[h], copyMem[h], procIn[h]>>,
             \A h \in Devices \ {g} :
                UNCHANGED <<outIdle[h], outBusy[h], procOut[h], outMemHeld[h]>>,
             Covered(outIdle[g], outBusy[g], procOut[g], outMemHeld[g])
             => Covered(outIdle'[g], outBusy'[g], procOut'[g], outMemHeld'[g])
      PROVE  CoverInv'
  BY <1>1, <1>5 DEF CoverInv, Exists, Covered
<1>6. CASE CopyTakeMem(g)
  <2>1. /\ copyMem[g] = Eos /\ inIdle[g] # <<>> /\ inIdle'[g] = Tail(inIdle[g])
        /\ copyMem'[g] = Head(inIdle[g]) /\ UNCHANGED <<inBusy, procIn>>
        /\ \A h \in Devices \ {g} : inIdle'[h] = inIdle[h] /\ copyMem'[h] = copyMem[h]
        /\ UNCHANGED <<outIdle, outBusy, procOut, outMemHeld>>
    BY <1>2, <1>6 DEF CopyTakeMem, TypeInv, CopyInv, procVars, outVars
  <2> QED BY <1>2, <1>3, <1>4, <2>1 DEF Covered
<1>7. CASE CopyPut(g)
  <2>1. /\ copyMem[g] \in Handle /\ copyMem'[g] = Eos /\ procIn' = procIn
        /\ \/ inBusy' = [inBusy EXCEPT ![g] = Append(@, copyMem[g])] /\ inIdle' = inIdle
           \/ inIdle' = [inIdle EXCEPT ![g] = Append(@, copyMem[g])] /\ inBusy' = inBusy
        /\ \A h \in Devices \ {g} : copyMem'[h] = copyMem[h]
        /\ UNCHANGED <<outIdle, outBusy, procOut, outMemHeld>>
    BY <1>2, <1>7 DEF CopyPut, PassBuffer, procVars, outVars
  <2>2. /\ \/ inBusy'[g] = Append(inBusy[g], copyMem[g]) /\ inIdle'[g] = inIdle[g]
           \/ inIdle'[g] = Append(inIdle[g], copyMem[g]) /\ inBusy'[g] = inBusy[g]
        /\ \A h \in Devices \ {g} : inIdle'[h] = inIdle[h] /\ inBusy'[h] = inBusy[h]
    BY <1>2, <2>1
  <2>3. CASE inBusy'[g] = Append(inBusy[g], copyMem[g]) /\ inIdle'[g] = inIdle[g]
    BY <1>2, <1>3, <1>4, <2>1, <2>2, <2>3 DEF Covered
  <2>4. CASE inIdle'[g] = Append(inIdle[g], copyMem[g]) /\ inBusy'[g] = inBusy[g]
    BY <1>2, <1>3, <1>4, <2>1, <2>2, <2>4 DEF Covered
  <2> QED BY <2>2, <2>3, <2>4
<1>8. CASE CopyEos(g)
  <2>1. /\ inBusy'[g] = Append(inBusy[g], Eos) /\ UNCHANGED <<inIdle, copyMem, procIn>>
        /\ \A h \in Devices \ {g} : inBusy'[h] = inBusy[h]
        /\ UNCHANGED <<outIdle, outBusy, procOut, outMemHeld>>
    BY <1>2, <1>8 DEF CopyEos, procVars, outVars
  <2> QED BY <1>2, <1>3, <1>4, <2>1 DEF Covered
<1>9. CASE ProcTakeInput(g)
  <2>1. /\ procIn[g] = Eos /\ inBusy[g] # <<>> /\ inBusy'[g] = Tail(inBusy[g])
        /\ procIn'[g] = Head(inBusy[g]) /\ UNCHANGED <<inIdle, copyMem>>
        /\ \A h \in Devices \ {g} : inBusy'[h] = inBusy[h] /\ procIn'[h] = procIn[h]
        /\ UNCHANGED <<outIdle, outBusy, procOut, outMemHeld>>
    BY <1>2, <1>9 DEF ProcTakeInput, TypeInv, ProcInv, copyVars, outVars
  <2> QED BY <1>2, <1>3, <1>4, <2>1 DEF Covered
<1>10. CASE ProcTakeOutput(g)
  <2>1. /\ procOut[g] = Eos /\ outIdle[g] # <<>> /\ outIdle'[g] = Tail(outIdle[g])
        /\ procOut'[g] = Head(outIdle[g]) /\ UNCHANGED <<outBusy, outMemHeld>>
        /\ \A h \in Devices \ {g} : outIdle'[h] = outIdle[h] /\ procOut'[h] = procOut[h]
        /\ UNCHANGED <<inIdle, inBusy, copyMem, procIn>>
    BY <1>2, <1>10 DEF ProcTakeOutput, TypeInv, ProcInv, copyVars, outVars
  <2> QED BY <1>2, <1>3, <1>5, <2>1 DEF Covered
<1>11. CASE ProcGraph(g)
  <2>1. /\ inIdle'[g] = Append(inIdle[g], procIn[g]) /\ procIn'[g] = Eos
        /\ UNCHANGED <<inBusy, copyMem>>
        /\ \A h \in Devices \ {g} : inIdle'[h] = inIdle[h] /\ procIn'[h] = procIn[h]
        /\ UNCHANGED <<outIdle, outBusy, procOut, outMemHeld>>
    BY <1>2, <1>11 DEF ProcGraph, copyVars, outVars
  <2> QED BY <1>2, <1>3, <1>4, <2>1 DEF Covered
<1>12. CASE ProcEmit(g)
  <2>1. /\ outBusy'[g] = Append(outBusy[g], procOut[g]) /\ procOut'[g] = Eos
        /\ UNCHANGED <<outIdle, outMemHeld>>
        /\ \A h \in Devices \ {g} : outBusy'[h] = outBusy[h] /\ procOut'[h] = procOut[h]
        /\ UNCHANGED <<inIdle, inBusy, copyMem, procIn>>
    BY <1>2, <1>12 DEF ProcEmit, copyVars, outVars
  <2> QED BY <1>2, <1>3, <1>5, <2>1 DEF Covered
<1>13. CASE ProcEos(g)
  <2>1. /\ outBusy'[g] = Append(outBusy[g], Eos) /\ UNCHANGED <<outIdle, procOut, outMemHeld>>
        /\ \A h \in Devices \ {g} : outBusy'[h] = outBusy[h]
        /\ UNCHANGED <<inIdle, inBusy, copyMem, procIn>>
    BY <1>2, <1>13 DEF ProcEos, copyVars, outVars
  <2> QED BY <1>2, <1>3, <1>5, <2>1 DEF Covered
<1>14. CASE OutTakeMem(g)
  <2>1. /\ outMemHeld[g] = Eos /\ outBusy[g] # <<>> /\ outBusy'[g] = Tail(outBusy[g])
        /\ outMemHeld'[g] = Head(outBusy[g]) /\ UNCHANGED <<outIdle, procOut>>
        /\ \A h \in Devices \ {g} : outBusy'[h] = outBusy[h] /\ outMemHeld'[h] = outMemHeld[h]
        /\ UNCHANGED <<inIdle, inBusy, copyMem, procIn>>
    BY <1>2, <1>14 DEF OutTakeMem, TypeInv, OutInv, copyVars, procVars
  <2> QED BY <1>2, <1>3, <1>5, <2>1 DEF Covered
<1>15. CASE OutReturnMem(g)
  <2>1. /\ outIdle'[g] = Append(outIdle[g], outMemHeld[g]) /\ outMemHeld'[g] = Eos
        /\ UNCHANGED <<outBusy, procOut>>
        /\ \A h \in Devices \ {g} : outIdle'[h] = outIdle[h] /\ outMemHeld'[h] = outMemHeld[h]
        /\ UNCHANGED <<inIdle, inBusy, copyMem, procIn>>
    BY <1>2, <1>15 DEF OutReturnMem, copyVars, procVars
  <2> QED BY <1>2, <1>3, <1>5, <2>1 DEF Covered
<1>16. CASE CopyTakeImage(g) \/ OutTakeTag(g) \/ OutPutLabels(g) \/ OutEos(g)
  <2>1. UNCHANGED <<memQs, copyMem, procIn, procOut, outMemHeld>>
    BY <1>16 DEF CopyTakeImage, OutTakeTag, OutPutLabels, OutEos, copyVars, procVars, outVars
  <2> QED BY <1>1, <2>1 DEF CoverInv, Exists, memQs
<1> QED BY <1>6, <1>7, <1>8, <1>9, <1>10, <1>11, <1>12, <1>13, <1>14, <1>15, <1>16
        DEF InputCopy, Process, OutputCopy

\* The session thread fills the idle queues, and empties them again.
LEMMA SessionCover ==
    ASSUME TypeInv, CoverInv, Run \/ Destroy
    PROVE  CoverInv'
<1> USE DEF At
<1>1. created \in Nat /\ dev \in Nat /\ \A g \in Devices : g \in Nat
  BY ConstantTypes DEF TypeInv, SessionInv, SessionTypeOK, Devices
<1>2. CASE CreateDevice
  <2> DEFINE all == [i \in Buffers |-> i]
  <2>1. /\ created' = created + 1 /\ dev' = dev
        /\ inIdle' = [inIdle EXCEPT ![created] = all]
        /\ outIdle' = [outIdle EXCEPT ![created] = all]
        /\ UNCHANGED <<inBusy, outBusy, copyMem, procIn, procOut, outMemHeld>>
    BY <1>2 DEF CreateDevice, deviceVars, copyVars, procVars, outVars
  <2>2. \A b \in Buffers : In(b, all)
    BY DEF In
  <2>3. DOMAIN inIdle = Devices /\ DOMAIN outIdle = Devices
    BY DEF TypeInv, MemTypeOK
  <2> HIDE DEF all
  <2> SUFFICES ASSUME NEW g \in Devices, Exists(g)'
               PROVE  /\ Covered(inIdle[g], inBusy[g], copyMem[g], procIn[g])'
                      /\ Covered(outIdle[g], outBusy[g], procOut[g], outMemHeld[g])'
    BY DEF CoverInv
  <2>4. CASE g = created
    BY <2>1, <2>2, <2>3, <2>4 DEF Covered, In
  <2>5. CASE g # created
    <3>1. Exists(g)
      BY <1>1, <2>1, <2>5 DEF Exists
    <3> QED BY <2>1, <2>5, <3>1 DEF CoverInv, Covered, In
  <2> QED BY <2>4, <2>5
<1>3. CASE ReleaseDevice
  <2>1. /\ created' = created /\ dev' = dev + 1
        /\ \A g \in Devices \ {dev} : /\ inIdle'[g] = inIdle[g] /\ inBusy'[g] = inBusy[g]
                                      /\ outIdle'[g] = outIdle[g] /\ outBusy'[g] = outBusy[g]
        /\ UNCHANGED <<copyMem, procIn, procOut, outMemHeld>>
    BY <1>3 DEF ReleaseDevice, TypeInv, MemTypeOK, deviceVars, copyVars, procVars, outVars
  <2>2. ASSUME NEW g \in Devices, Exists(g)' PROVE Exists(g) /\ g # dev
    BY <1>1, <2>1, <2>2 DEF Exists
  <2> QED BY <2>1, <2>2 DEF CoverInv, Covered, In
<1>4. CASE ~CreateDevice /\ ~ReleaseDevice
  <2>1. UNCHANGED <<created, dev, memQs, copyMem, procIn, procOut, outMemHeld>>
    BY <1>4 DEF Run, Destroy, HandleRequest, StartThreads, CountResults, TakeResult,
       TakeLabels, SendReply, RequestImages, ReceiveImage, ExchangeDone, DestroyEos,
       JoinMaster, DestroyTag, DestroyImage, JoinDevice, devVars, deviceVars, copyVars,
       procVars, outVars
  <2> QED BY <2>1 DEF CoverInv, Exists, memQs
<1> QED BY <1>2, <1>3, <1>4

\* A queue that contains every buffer, each once, is as long as there are buffers.
LEMMA AllIdle ==
    ASSUME NEW q \in Seq(Buffers), NoRepeat(q), \A b \in Buffers : In(b, q)
    PROVE  Len(q) = PipeDepth
<1>1. Len(q) \in Nat /\ PipeDepth \in Nat /\ q \in [1..Len(q) -> Buffers]
  BY ConstantTypes
<1>2. q \in Bijection(1..Len(q), Buffers)
  <2>1. \A i, j \in 1..Len(q) : q[i] = q[j] => i = j
    BY <1>1 DEF NoRepeat
  <2>2. \A b \in Buffers : \E i \in 1..Len(q) : q[i] = b
    BY <1>1 DEF In
  <2> QED BY <1>1, <2>1, <2>2 DEF Bijection, Injection, Surjection, IsInjective
<1>3. Cardinality(Buffers) = Len(q)
  BY <1>1, <1>2, FS_CountingElements DEF ExistsBijection
<1>4. Cardinality(1..PipeDepth) = PipeDepth
  <2>1. Cardinality(1..PipeDepth) = IF 1 > PipeDepth THEN 0 ELSE PipeDepth - 1 + 1
    BY <1>1, FS_Interval
  <2> QED BY <1>1, <2>1
<1> QED BY <1>3, <1>4 DEF Buffers

\* What a marker in a busy queue is on its way.
LEMMA OnlyMarkers ==
    ASSUME TypeInv, NEW g \in Devices, Drained(g), outMemHeld[g] = Eos,
           procPc[g] = "ended"
    PROVE  /\ \A i \in DOMAIN inBusy[g] : inBusy[g][i] = Eos
           /\ \A i \in DOMAIN outBusy[g] : outBusy[g][i] = Eos
<1>1. /\ Held(g) = <<>> /\ Processed(g) = <<>>
  BY DEF Held, Carried, Processed
<1>2. Outgoing(g) \in Seq(Flown) /\ Incoming(g) \in Seq(Flown)
  BY PartTypes
<1>3. Flight(g) = Outgoing(g) \o Incoming(g)
  <2>1. <<>> \o Incoming(g) = Incoming(g)
    BY <1>2
  <2>2. Outgoing(g) \o Incoming(g) \in Seq(Flown)
    BY <1>2
  <2>3. <<>> \o (Outgoing(g) \o Incoming(g)) = Outgoing(g) \o Incoming(g)
    BY <2>2
  <2> QED BY <1>1, <2>1, <2>3 DEF Flight
<1>4. \A k \in DOMAIN Flight(g) : Flight(g)[k] = Marker
  BY DEF Drained
<1>5. \A a, b \in Seq(Flown) : /\ \A i \in DOMAIN a : i \in DOMAIN (a \o b) /\ (a \o b)[i] = a[i]
                              /\ \A i \in DOMAIN b : /\ Len(a) + i \in DOMAIN (a \o b)
                                                     /\ (a \o b)[Len(a) + i] = b[i]
  OBVIOUS
<1>6. /\ \A i \in DOMAIN Outgoing(g) : Outgoing(g)[i] = Marker
      /\ \A i \in DOMAIN Incoming(g) : Incoming(g)[i] = Marker
  <2> DEFINE a == Outgoing(g)
             b == Incoming(g)
  <2>1. a \in Seq(Flown) /\ b \in Seq(Flown) /\ \A k \in DOMAIN (a \o b) : (a \o b)[k] = Marker
    BY <1>2, <1>3, <1>4
  <2> HIDE DEF a, b
  <2>2. (\A i \in DOMAIN a : a[i] = Marker) /\ (\A i \in DOMAIN b : b[i] = Marker)
    BY <1>5, <2>1
  <2> QED BY <2>2 DEF a, b
<1>7. ASSUME NEW i \in DOMAIN inBusy[g] PROVE inBusy[g][i] = Eos
  <2>1. Content(inMem[g], inBusy[g][i]) = Marker
    BY <1>6 DEF Incoming, Contents
  <2>2. inBusy[g][i] \in Handle
    BY DEF TypeInv, MemTypeOK
  <2>3. inBusy[g][i] \in Buffers => inMem[g][inBusy[g][i]] \in Buffer
    BY DEF TypeInv, MemTypeOK, Tensors, Buffer
  <2> QED BY <2>1, <2>2, <2>3, BufferNotMarker DEF Content, Handle
<1>8. ASSUME NEW i \in DOMAIN outBusy[g] PROVE outBusy[g][i] = Eos
  <2>1. Content(outMem[g], outBusy[g][i]) = Marker
    BY <1>6 DEF Outgoing, Contents
  <2>2. outBusy[g][i] \in Handle
    BY DEF TypeInv, MemTypeOK
  <2>3. outBusy[g][i] \in Buffers => outMem[g][outBusy[g][i]] \in Buffer
    BY DEF TypeInv, MemTypeOK, Tensors, Buffer
  <2> QED BY <2>1, <2>2, <2>3, BufferNotMarker DEF Content, Handle
<1> QED BY <1>7, <1>8

\* No image waits for a device that has been told the end, or was never started.
LEMMA NoImageWaits ==
    ASSUME TypeInv, NEW g \in Devices, DeviceInv(g),
           Drained(g) \/ (~copyEos[g] /\ \A i \in DOMAIN tagQ[g] : tagQ[g][i] = Eos)
    PROVE  \A i \in DOMAIN imageQ[g] : imageQ[g][i] = Eos
<1> DEFINE t == tagQ[g]
           q == Dealt(g)
           base == Before(Len(Flight(g)) + 1) - Taken(g)
           m == base + Len(copyBatch[g])
<1>1. PairTypes(t, Taken(g), Flight(g), copyBatch[g], q, copyEos[g])
  BY PairedTypes
<1>2. PairedAt(t, Taken(g), Flight(g), copyBatch[g], q, copyEos[g], base)
  BY DEF DeviceInv, Paired, PairedWith
<1>3. m \in Nat /\ t \in Seq(Tag) /\ q \in Seq(Tag)
  BY <1>1, <1>2 DEF PairTypes, PairedAt
<1>4. \A j \in DOMAIN q : q[j] = Eos
  <2>1. CASE copyEos[g]
    BY <1>2, <2>1 DEF PairedAt, QueueEnded
  <2>2. CASE ~copyEos[g]
    <3>1. QueueMatches(t, m, q) /\ \A i \in DOMAIN t : t[i] = Eos
      BY <1>2, <2>2 DEF PairedAt, Drained
    <3> SUFFICES ASSUME NEW j \in DOMAIN q PROVE q[j] = Eos
      OBVIOUS
    <3>2. m + j \in DOMAIN t
      <4> HIDE DEF m, t, q
      <4>1. Len(t) = m + Len(q)
        BY <3>1 DEF QueueMatches
      <4> QED BY <1>3, <4>1
    <3> HIDE DEF m, t, q
    <3> QED BY <3>1, <3>2 DEF QueueMatches
  <2> QED BY <2>1, <2>2
<1>5. ASSUME NEW i \in DOMAIN imageQ[g]
      PROVE  i \in DOMAIN q /\ q[i] = imageQ[g][i]
  <2>1. imageQ[g] \in Seq(Tag) /\ Announced(g) \in Seq(Tag)
    BY PairedTypes DEF TypeInv, QueueTypeOK
  <2>2. \A a, b \in Seq(Tag) : \A k \in DOMAIN a : k \in DOMAIN (a \o b) /\ (a \o b)[k] = a[k]
    OBVIOUS
  <2> QED BY <2>1, <2>2 DEF Dealt
<1> QED BY <1>4, <1>5

\* However the session ends, the destructor finds every buffer in the idle queues that it
\* empties and no image in the queue that it deletes: for every number of devices, batch
\* size, pipe depth and number of images, and however many decoder threads share a batch.
THEOREM ShutdownIsClean == Spec => []CleanShutdown
<1>1. Init => AnswersInv /\ CoverInv
  <2>1. Init => CoverInv
    BY DEF Init, CoverInv, Exists, Devices
  <2> QED BY <2>1, InitAnswersInv
<1>2. (AnswersInv /\ CoverInv) /\ [Next]_vars => (AnswersInv /\ CoverInv)'
  <2> SUFFICES ASSUME AnswersInv, CoverInv, [Next]_vars PROVE AnswersInv' /\ CoverInv'
    OBVIOUS
  <2>1. AnswersInv'
    BY StepAnswersInv
  <2>2. TypeInv /\ TypeInv'
    BY <2>1 DEF AnswersInv
  <2>3. CASE Run \/ Destroy
    BY <2>1, <2>2, <2>3, SessionCover
  <2>4. ASSUME NEW g \in Devices, InputCopy(g) \/ Process(g) \/ OutputCopy(g) PROVE CoverInv'
    BY <2>2, <2>4, ThreadsCover
  <2>5. CASE Master \/ UNCHANGED vars
    <3>1. UNCHANGED <<created, dev, memQs, copyMem, procIn, procOut, outMemHeld>>
      BY <2>5 DEF Master, MasterNext, MasterTag, MasterImage, MasterPick, MasterEosTag,
         MasterEosImage, vars, sessionVars, devVars, deviceVars, copyVars, procVars, outVars
    <3> QED BY <2>1, <3>1 DEF CoverInv, Exists, memQs
  <2> QED BY <2>1, <2>3, <2>4, <2>5 DEF Next
<1>3. AnswersInv /\ CoverInv => CleanShutdown
  <2> SUFFICES ASSUME AnswersInv, CoverInv, runPc = "~release", dev < created
               PROVE  /\ Len(inIdle[dev]) = PipeDepth /\ Len(outIdle[dev]) = PipeDepth
                      /\ \A i \in DOMAIN imageQ[dev] : imageQ[dev][i] = Eos
    BY DEF CleanShutdown
  <2>1. TypeInv /\ BufferInv /\ PairInv /\ PhaseInv
    BY DEF AnswersInv
  <2>2. dev \in Devices /\ Exists(dev)
    BY <2>1, ConstantTypes DEF TypeInv, SessionInv, SessionTypeOK, Devices, Exists
  <2>3. DeviceInv(dev)
    BY <2>1, <2>2 DEF PairInv
  <2>4. /\ Stopped(copyPc[dev]) /\ Stopped(procPc[dev]) /\ Stopped(outPc[dev])
        /\ masterPc = "unstarted" <=> copyPc[dev] = "unstarted"
        /\ masterPc = "unstarted" <=> procPc[dev] = "unstarted"
        /\ masterPc = "unstarted" <=> outPc[dev] = "unstarted"
    BY <2>1, <2>2 DEF PhaseInv
  <2>5. copyMem[dev] = Eos /\ procIn[dev] = Eos /\ procOut[dev] = Eos /\ outMemHeld[dev] = Eos
    BY <2>1, <2>2, <2>4 DEF Stopped, TypeInv, CopyInv, ProcInv, OutInv
  <2>6. /\ \A i \in DOMAIN inBusy[dev] : inBusy[dev][i] = Eos
        /\ \A i \in DOMAIN outBusy[dev] : outBusy[dev][i] = Eos
        /\ Drained(dev) \/ (~copyEos[dev] /\ \A i \in DOMAIN tagQ[dev] : tagQ[dev][i] = Eos)
    <3>1. CASE masterPc = "unstarted"
      <4>1. copyPc[dev] = "unstarted" /\ inBusy[dev] = <<>> /\ outBusy[dev] = <<>>
            /\ \A i \in DOMAIN tagQ[dev] : tagQ[dev][i] = Eos
        BY <2>1, <2>2, <2>4, <3>1 DEF PhaseInv
      <4>2. ~copyEos[dev]
        BY <2>3, <4>1 DEF DeviceInv, MarkerLast
      <4> QED BY <4>1, <4>2
    <3>2. CASE masterPc # "unstarted"
      <4>1. procPc[dev] = "ended" /\ outPc[dev] = "ended"
        BY <2>4, <3>2 DEF Stopped
      <4>2. Drained(dev)
        BY <2>3, <4>1 DEF DeviceInv, DrainedAtEnd
      <4> QED BY <2>1, <2>2, <2>5, <4>1, <4>2, OnlyMarkers
    <3> QED BY <3>1, <3>2
  <2>7. \A i \in DOMAIN imageQ[dev] : imageQ[dev][i] = Eos
    BY <2>1, <2>2, <2>3, <2>6, NoImageWaits
  <2>8. \A b \in Buffers : In(b, inIdle[dev]) /\ In(b, outIdle[dev])
    BY <2>2, <2>5, <2>6, Markers DEF CoverInv, Covered, In
  <2>9. NoRepeat(inIdle[dev]) /\ NoRepeat(outIdle[dev])
    BY <2>1, <2>2 DEF BufferInv, OneHolder
  <2>10. inIdle[dev] \in Seq(Buffers) /\ outIdle[dev] \in Seq(Buffers)
    BY <2>1, <2>2 DEF TypeInv, MemTypeOK
  <2> QED BY <2>7, <2>8, <2>9, <2>10, AllIdle
<1> QED BY <1>1, <1>2, <1>3, PTL DEF Spec

----------------------------------------------------------------------------
(* With one device the session implements the service: the order of the    *)
(* answers.                                                                *)

\* The places in which tags wait, put together from the oldest: the tags told to the client
\* or in the reply, those of the answers waiting, of the images on the device, of the one the
\* master deals out, and of those in the input queue.
Given    == Tags(results \o packet)
Answered == Given \o Tags(outputQ)
Arrived  == Answered \o tagQ[0]
Handed   == Arrived \o Hand
Queued   == Handed \o inputQ

\* The first n places of a sequence hold the images in their order, the others markers.
Numbered(q, n) == \A i \in DOMAIN q : q[i] = IF i <= n THEN i ELSE Eos
AllEos(q) == \A i \in DOMAIN q : q[i] = Eos

\* All images sent and not told yet wait in their order, with markers only behind them; and
\* there are no markers before the client has said that it has no more images.
OrderInv ==
    runPc \in LoopPcs =>
        /\ Numbered(Queued, sent) /\ sent <= Len(Queued)
        /\ masterPc \notin Dealing \cup {"unstarted"} =>
             endOfImageRequested /\ sent <= Len(Arrived)
        /\ ~endOfImageRequested => Len(Queued) = sent
        /\ endOfImageRequested => sent = NumImages
        /\ runPc = "receive" => ~endOfImageRequested
        /\ endOfSequence => endOfImageRequested /\ Len(Given) = sent

\* A tag goes from the head of one place to the end of the one before it.
LEMMA PassedOn ==
    ASSUME NEW x \in Seq(Tag), NEW y \in Seq(Tag), y # <<>>
    PROVE  Append(x, Head(y)) \o Tail(y) = x \o y
<1>1. Append(x, Head(y)) \o Tail(y) = x \o (<<Head(y)>> \o Tail(y))
  BY Tailed, ConcatPassed
<1> QED BY <1>1, ConcatHead

\* The end of the last place is the end of the whole.
LEMMA AppendLast ==
    ASSUME NEW x \in Seq(Tag), NEW y \in Seq(Tag), NEW e \in Tag
    PROVE  x \o Append(y, e) = Append(x \o y, e) /\ x \o <<e>> = Append(x, e)
OBVIOUS

\* An empty place.
LEMMA NothingLast == ASSUME NEW x \in Seq(Tag) PROVE x \o <<>> = x
OBVIOUS

\* What is said of a line is said of its beginning; behind the images there are markers.
LEMMA NumberedParts ==
    ASSUME NEW a \in Seq(Tag), NEW b \in Seq(Tag), NEW n \in Nat, Numbered(a \o b, n)
    PROVE  /\ Numbered(a, n)
           /\ n <= Len(a) => AllEos(b)
           /\ b # <<>> /\ Head(b) = Eos => n <= Len(a)
           /\ b # <<>> /\ Head(b) # Eos => Len(a) < n
<1>1. /\ Len(a) \in Nat /\ Len(b) \in Nat /\ DOMAIN a = 1..Len(a) /\ DOMAIN b = 1..Len(b)
      /\ DOMAIN (a \o b) = 1..(Len(a) + Len(b))
      /\ \A i \in DOMAIN a : (a \o b)[i] = a[i]
      /\ \A i \in DOMAIN b : (a \o b)[Len(a) + i] = b[i]
  OBVIOUS
<1>2. Numbered(a, n)
  BY <1>1 DEF Numbered
<1>3. \A i \in DOMAIN b : b[i] = IF Len(a) + i <= n THEN Len(a) + i ELSE Eos
  BY <1>1 DEF Numbered
<1>4. n <= Len(a) => AllEos(b)
  BY <1>1, <1>3 DEF AllEos
<1>5. ASSUME b # <<>>
      PROVE  Head(b) = IF Len(a) + 1 <= n THEN Len(a) + 1 ELSE Eos
  <2>1. 1 \in DOMAIN b /\ Head(b) = b[1]
    BY <1>5, Tailed
  <2> QED BY <1>3, <2>1
<1> QED BY <1>1, <1>2, <1>4, <1>5 DEF Eos

\* Markers can be put behind the images.
LEMMA NumberedJoined ==
    ASSUME NEW a \in Seq(Tag), NEW b \in Seq(Tag), NEW n \in Nat, Numbered(a, n), n <= Len(a),
           AllEos(b)
    PROVE  Numbered(a \o b, n) /\ n <= Len(a \o b)
<1>1. /\ Len(a) \in Nat /\ Len(b) \in Nat /\ DOMAIN a = 1..Len(a) /\ DOMAIN b = 1..Len(b)
      /\ DOMAIN (a \o b) = 1..(Len(a) + Len(b)) /\ Len(a \o b) = Len(a) + Len(b)
      /\ \A i \in DOMAIN a : (a \o b)[i] = a[i]
      /\ \A i \in DOMAIN b : (a \o b)[Len(a) + i] = b[i]
  OBVIOUS
<1>2. ASSUME NEW i \in DOMAIN (a \o b)
      PROVE  (a \o b)[i] = IF i <= n THEN i ELSE Eos
  <2>1. CASE i <= Len(a)
    BY <1>1, <2>1 DEF Numbered
  <2>2. CASE i > Len(a)
    <3>1. i - Len(a) \in DOMAIN b /\ i = Len(a) + (i - Len(a)) /\ ~(i <= n)
      BY <1>1, <2>2
    <3>2. (a \o b)[i] = b[i - Len(a)]
      BY <1>1, <3>1
    <3> QED BY <3>1, <3>2 DEF AllEos
  <2> QED BY <1>1, <2>1, <2>2
<1> QED BY <1>1, <1>2 DEF Numbered

\* A marker or the next image comes to the end.
LEMMA NumberedAppended ==
    ASSUME NEW q \in Seq(Tag), NEW n \in Nat, Numbered(q, n), n <= Len(q)
    PROVE  /\ Numbered(Append(q, Eos), n) /\ n <= Len(Append(q, Eos))
           /\ n = Len(q) => Numbered(Append(q, n + 1), n + 1)
<1> DEFINE S == Tag \cup {n + 1}
<1>1. q \in Seq(S) /\ Eos \in S /\ n + 1 \in S
  BY DEF Tag
<1> HIDE DEF S
<1>2. Len(q) \in Nat /\ DOMAIN q = 1..Len(q)
  OBVIOUS
<1>3. ASSUME NEW e \in S
      PROVE  LET r == Append(q, e)
             IN /\ DOMAIN r = 1..(Len(q) + 1) /\ Len(r) = Len(q) + 1
                /\ \A i \in 1..Len(q) : r[i] = q[i]
                /\ r[Len(q) + 1] = e
  BY <1>1
<1>4. ASSUME NEW e \in S, NEW m \in Nat, n <= m,
             \A i \in 1..Len(q) : q[i] = IF i <= m THEN i ELSE Eos,
             e = IF Len(q) + 1 <= m THEN Len(q) + 1 ELSE Eos
      PROVE  Numbered(Append(q, e), m)
  <2> DEFINE r == Append(q, e)
  <2>1. /\ DOMAIN r = 1..(Len(q) + 1) /\ \A i \in 1..Len(q) : r[i] = q[i]
        /\ r[Len(q) + 1] = e
    BY <1>3
  <2> HIDE DEF r
  <2>2. Numbered(r, m)
    BY <1>2, <1>4, <2>1 DEF Numbered
  <2> QED BY <2>2 DEF r
<1>5. \A i \in 1..Len(q) : q[i] = IF i <= n THEN i ELSE Eos
  BY <1>2 DEF Numbered
<1>6. Numbered(Append(q, Eos), n)
  BY <1>1, <1>2, <1>4, <1>5
<1>7. n = Len(q) => Numbered(Append(q, n + 1), n + 1)
  BY <1>1, <1>2, <1>4, <1>5
<1>8. n <= Len(Append(q, Eos))
  BY <1>1, <1>2, <1>3
<1> QED BY <1>6, <1>7, <1>8

\* The types of the places, now and in the next state.
PlaceTypes ==
    /\ Given \in Seq(Tag) /\ Answered \in Seq(Tag) /\ Arrived \in Seq(Tag)
    /\ Handed \in Seq(Tag) /\ Queued \in Seq(Tag)
    /\ Tags(outputQ) \in Seq(Tag) /\ tagQ[0] \in Seq(Tag) /\ Hand \in Seq(Tag)
    /\ inputQ \in Seq(Tag) /\ sent \in Nat

\* Everything that waits is a tag.
LEMMA PlacesTyped == ASSUME TypeInv PROVE PlaceTypes
<1>1. /\ inputQ \in Seq(Tag) /\ Hand \in Seq(Tag) /\ Tags(outputQ) \in Seq(Tag)
      /\ Tags(results \o packet) \in Seq(Tag) /\ tagQ[0] \in Seq(Tag)
  BY WaitingTypes, Markers
<1>2. Given \in Seq(Tag)
  BY <1>1 DEF Given
<1>3. Answered \in Seq(Tag)
  BY <1>1, <1>2, ConcatType DEF Answered
<1>4. Arrived \in Seq(Tag)
  BY <1>1, <1>3, ConcatType DEF Arrived
<1>5. Handed \in Seq(Tag)
  BY <1>1, <1>4, ConcatType DEF Handed
<1>6. Queued \in Seq(Tag)
  BY <1>1, <1>5, ConcatType DEF Queued
<1>7. sent \in Nat
  BY ConstantTypes DEF TypeInv, SessionInv, SessionTypeOK
<1> QED BY <1>1, <1>2, <1>3, <1>4, <1>5, <1>6, <1>7 DEF PlaceTypes

\* What the order of the whole says about its beginnings.
LEMMA PlacesNumbered ==
    ASSUME TypeInv, Numbered(Queued, sent)
    PROVE  /\ Numbered(Given, sent) /\ Numbered(Answered, sent) /\ Numbered(Arrived, sent)
           /\ Numbered(Handed, sent)
           /\ Len(Given) <= Len(Answered) /\ Len(Answered) <= Len(Arrived)
           /\ Len(Arrived) <= Len(Handed) /\ Len(Handed) <= Len(Queued)
           /\ Len(Given) <= sent
<1>1. PlaceTypes
  BY PlacesTyped
<1>2. Numbered(Handed, sent)
  BY <1>1, NumberedParts DEF PlaceTypes, Queued
<1>3. Numbered(Arrived, sent)
  BY <1>1, <1>2, NumberedParts DEF PlaceTypes, Handed
<1>4. Numbered(Answered, sent)
  BY <1>1, <1>3, NumberedParts DEF PlaceTypes, Arrived
<1>5. Numbered(Given, sent)
  BY <1>1, <1>4, NumberedParts DEF PlaceTypes, Answered
<1>6. ASSUME NEW a \in Seq(Tag), NEW b \in Seq(Tag) PROVE Len(a) <= Len(a \o b)
  OBVIOUS
<1>7. /\ Len(Given) <= Len(Answered) /\ Len(Answered) <= Len(Arrived)
      /\ Len(Arrived) <= Len(Handed) /\ Len(Handed) <= Len(Queued)
  BY <1>1, <1>6 DEF PlaceTypes, Answered, Arrived, Handed, Queued
<1>8. Len(Given) <= sent
  <2>1. results \in Seq(Entry) /\ packet \in Seq(Entry)
        /\ (\A i \in DOMAIN packet : packet[i][1] # Eos)
        /\ (\A i \in DOMAIN results : results[i][1] # Eos)
    BY EntryTypes
  <2>2. \A i \in DOMAIN (results \o packet) : (results \o packet)[i][1] # Eos
    BY <2>1
  <2>3. \A i \in DOMAIN Given : Given[i] # Eos
    BY <2>2 DEF Given, Tags
  <2>4. Len(Given) \in Nat /\ (Len(Given) > 0 => Len(Given) \in DOMAIN Given)
    BY <1>1 DEF PlaceTypes
  <2>5. Len(Given) > 0 => Len(Given) <= sent
    BY <1>5, <2>3, <2>4 DEF Numbered
  <2> QED BY <1>1, <2>4, <2>5 DEF PlaceTypes
<1> QED BY <1>2, <1>3, <1>4, <1>5, <1>7, <1>8

\* How the places are put together in the next state.
LEMMA PlacesNext ==
    /\ Given' = Tags(results' \o packet') /\ Answered' = Given' \o Tags(outputQ')
    /\ Arrived' = Answered' \o tagQ'[0] /\ Handed' = Arrived' \o Hand'
    /\ Queued' = Handed' \o inputQ'
BY DEF Given, Answered, Arrived, Handed, Queued, Tags

\* The types in the next state.
LEMMA PlacesTypedNext == ASSUME TypeInv' PROVE PlaceTypes'
<1>1. /\ inputQ' \in Seq(Tag) /\ Hand' \in Seq(Tag) /\ Tags(outputQ') \in Seq(Tag)
      /\ Tags(results' \o packet') \in Seq(Tag) /\ tagQ'[0] \in Seq(Tag)
  BY WaitingTypesNext, Markers DEF Tags
<1>2. Given' \in Seq(Tag)
  BY <1>1, PlacesNext
<1>3. Answered' \in Seq(Tag)
  BY <1>1, <1>2, ConcatType, PlacesNext
<1>4. Arrived' \in Seq(Tag)
  BY <1>1, <1>3, ConcatType, PlacesNext
<1>5. Handed' \in Seq(Tag)
  BY <1>1, <1>4, ConcatType, PlacesNext
<1>6. Queued' \in Seq(Tag)
  BY <1>1, <1>5, ConcatType, PlacesNext
<1>7. sent' \in Nat
  BY ConstantTypes DEF TypeInv, SessionInv, SessionTypeOK
<1>8. Tags(outputQ)' \in Seq(Tag)
  BY <1>1 DEF Tags
<1> QED BY <1>1, <1>2, <1>3, <1>4, <1>5, <1>6, <1>7, <1>8 DEF PlaceTypes

\* A step that leaves the line as it is keeps the order.
LEMMA OrderFrame ==
    ASSUME TypeInv, TypeInv', OrderInv, runPc \in LoopPcs, Queued' = Queued,
           UNCHANGED <<sent, endOfImageRequested, endOfSequence>>,
           endOfSequence => Len(Given') = Len(Given), Len(Arrived) <= Len(Arrived'),
           masterPc' \notin Dealing \cup {"unstarted"} => masterPc \notin Dealing \cup {"unstarted"},
           runPc' = "receive" => runPc = "receive"
    PROVE  OrderInv'
<1>1. PlaceTypes /\ Len(Arrived') \in Nat
  <2>1. PlaceTypes
    BY PlacesTyped
  <2>2. Arrived' \in Seq(Tag)
    <3>1. PlaceTypes'
      BY PlacesTypedNext
    <3> QED BY <3>1 DEF PlaceTypes
  <2> QED BY <2>1, <2>2
<1>2. Numbered(Queued', sent') /\ sent' <= Len(Queued')
  BY DEF OrderInv
<1>3. masterPc' \notin Dealing \cup {"unstarted"} =>
        endOfImageRequested' /\ sent' <= Len(Arrived')
  BY <1>1 DEF OrderInv, PlaceTypes
<1>4. ~endOfImageRequested' => Len(Queued') = sent'
  BY DEF OrderInv
<1>5. /\ endOfImageRequested' => sent' = NumImages
      /\ runPc' = "receive" => ~endOfImageRequested'
      /\ endOfSequence' => endOfImageRequested' /\ Len(Given') = sent'
  BY DEF OrderInv
<1>6. Numbered(Queued, sent)' = Numbered(Queued', sent')
  BY DEF Numbered
<1> QED BY <1>2, <1>3, <1>4, <1>5, <1>6 DEF OrderInv

\* What a new end of the order needs, when nothing but the places has changed.
LEMMA OrderLine ==
    ASSUME TypeInv', OrderInv, runPc \in LoopPcs,
           Numbered(Queued', sent), sent <= Len(Queued'), sent <= Len(Arrived'),
           endOfImageRequested, UNCHANGED <<sent, endOfImageRequested>>,
           endOfSequence' => Len(Given') = sent,
           runPc' = "receive" => runPc = "receive"
    PROVE  OrderInv'
<1>1. Numbered(Queued, sent)' = Numbered(Queued', sent')
  BY DEF Numbered
<1> QED BY <1>1 DEF OrderInv

\* The master deals out the oldest image, or marks the end of the sequence.
LEMMA MasterOrder ==
    ASSUME GPUs = 1, EmptyFiles = {}, TypeInv, TypeInv', OrderInv, runPc \in LoopPcs, Master
    PROVE  OrderInv'
<1>1. PlaceTypes /\ Numbered(Queued, sent) /\ sent <= Len(Queued)
  BY PlacesTyped DEF OrderInv
<1>2. /\ Numbered(Given, sent) /\ Numbered(Answered, sent) /\ Numbered(Arrived, sent)
      /\ Numbered(Handed, sent)
      /\ Len(Given) <= Len(Answered) /\ Len(Answered) <= Len(Arrived)
      /\ Len(Arrived) <= Len(Handed) /\ Len(Handed) <= Len(Queued)
      /\ Len(Given) <= sent
  BY <1>1, PlacesNumbered
<1>3. masterGpu = 0 /\ masterDev = 0 /\ 0 \in Devices /\ tagQ \in [Devices -> Seq(Tag)]
  BY ConstantTypes DEF TypeInv, MasterInv, MasterTypeOK, Devices, QueueTypeOK
<1>4. UNCHANGED <<sent, results, packet, outputQ, endOfSequence, endOfImageRequested, runPc>>
  BY DEF Master, MasterNext, MasterTag, MasterImage, MasterPick, MasterEosTag,
     MasterEosImage, sessionVars, clientVars, replyVars, requestVars, resultQs
<1>5. Given' = Given /\ Answered' = Answered
  BY <1>4, PlacesNext DEF Given, Answered
<1>6. masterPc \in {"eosTag", "eosImage"} => masterPc \notin Dealing \cup {"unstarted"}
  BY DEF Dealing
<1>7. CASE MasterNext
  <2>1. /\ masterPc = "next" /\ inputQ # <<>> /\ inputQ' = Tail(inputQ) /\ tagQ' = tagQ
        /\ Hand = <<>>
    BY <1>7 DEF MasterNext, deviceQs, Hand
  <2>2. Arrived' = Arrived /\ Handed = Arrived /\ Queued = Arrived \o inputQ
    <3>1. Arrived' = Arrived
      BY <1>5, <2>1, PlacesNext DEF Arrived
    <3>2. Handed = Arrived
      BY <1>1, <2>1, NothingLast DEF Handed, PlaceTypes
    <3> QED BY <3>1, <3>2 DEF Queued
  <2>3. CASE Head(inputQ) = Eos
    <3>1. Hand' = <<>> /\ masterPc' = "eosTag"
      BY <1>7, <2>3 DEF MasterNext, Hand
    <3>2. sent <= Len(Arrived) /\ AllEos(inputQ)
      BY <1>1, <2>1, <2>2, <2>3, NumberedParts DEF PlaceTypes
    <3>3. inputQ' \in Seq(Tag) /\ AllEos(inputQ')
      BY <1>1, <2>1, <3>2, Tailed DEF AllEos, PlaceTypes
    <3>4. Queued' = Arrived \o inputQ'
      <4>1. Handed' = Arrived
        BY <1>1, <2>2, <3>1, NothingLast, PlacesNext DEF PlaceTypes
      <4> QED BY <4>1, PlacesNext
    <3>5. Numbered(Queued', sent) /\ sent <= Len(Queued')
      BY <1>1, <1>2, <3>2, <3>3, <3>4, NumberedJoined DEF PlaceTypes
    <3>6. endOfImageRequested
      <4>1. Len(Arrived) < Len(Queued)
        BY <1>1, <2>1, <2>2 DEF PlaceTypes
      <4> QED BY <1>1, <3>2, <4>1 DEF OrderInv, PlaceTypes
    <3>7. endOfSequence' => Len(Given') = sent
      BY <1>4, <1>5 DEF OrderInv
    <3> QED BY <1>4, <2>2, <3>2, <3>5, <3>6, <3>7, OrderLine
  <2>4. CASE Head(inputQ) # Eos
    <3>1. Hand' = <<Head(inputQ)>> /\ masterPc' = "tag"
      BY <1>7, <2>4 DEF MasterNext, Hand
    <3>2. Queued' = Queued
      <4>1. Head(inputQ) \in Tag
        BY <1>1, <2>1, Tailed DEF PlaceTypes
      <4>2. Arrived \o <<Head(inputQ)>> = Append(Arrived, Head(inputQ))
        BY <1>1, <4>1, AppendLast DEF PlaceTypes
      <4>3. Append(Arrived, Head(inputQ)) \o Tail(inputQ) = Arrived \o inputQ
        BY <1>1, <2>1, PassedOn DEF PlaceTypes
      <4> QED BY <2>1, <2>2, <3>1, <4>2, <4>3, PlacesNext
    <3>3. Len(Arrived) <= Len(Arrived')
      BY <1>1, <2>2 DEF PlaceTypes
    <3> QED BY <1>4, <1>5, <3>1, <3>2, <3>3, OrderFrame DEF Dealing
  <2> QED BY <2>3, <2>4
<1>8. CASE MasterTag
  <2>1. /\ masterPc = "tag" /\ inputQ' = inputQ /\ Hand = <<masterTag>> /\ Hand' = <<>>
        /\ tagQ'[0] = Append(tagQ[0], masterTag) /\ masterTag \in Tag /\ masterPc' = "image"
    BY <1>3, <1>8 DEF MasterTag, Hand, Put, TypeInv, MasterInv, MasterTypeOK
  <2>2. Arrived' = Append(Arrived, masterTag)
    <3>0. Answered \in Seq(Tag) /\ tagQ[0] \in Seq(Tag)
      BY <1>1 DEF PlaceTypes
    <3>1. Answered \o Append(tagQ[0], masterTag) = Append(Answered \o tagQ[0], masterTag)
      BY <2>1, <3>0, AppendLast, Zenon
    <3> QED BY <1>5, <2>1, <3>1, PlacesNext DEF Arrived
  <2>3. Handed' = Handed
    <3>1. Handed = Append(Arrived, masterTag)
      BY <1>1, <2>1, AppendLast DEF PlaceTypes, Handed
    <3>2. Handed' = Arrived' \o <<>>
      BY <2>1, PlacesNext
    <3>3. Arrived' \in Seq(Tag)
      BY PlacesTypedNext DEF PlaceTypes
    <3> QED BY <2>2, <3>1, <3>2, <3>3, NothingLast
  <2>4. Queued' = Queued
    BY <2>1, <2>3, PlacesNext DEF Queued
  <2>5. Len(Arrived) <= Len(Arrived')
    BY <1>1, <2>1, <2>2, Appended DEF PlaceTypes
  <2> QED BY <1>4, <1>5, <2>1, <2>4, <2>5, OrderFrame DEF Dealing
<1>9. CASE MasterEosTag
  <2>1. /\ inputQ' = inputQ /\ Hand = <<>> /\ Hand' = <<>> /\ masterPc = "eosTag"
        /\ tagQ'[0] = Append(tagQ[0], Eos) /\ Eos \in Tag
    BY <1>3, <1>9 DEF MasterEosTag, Hand, Put, Tag
  <2>2. endOfImageRequested /\ sent <= Len(Arrived)
    BY <1>6, <2>1 DEF OrderInv
  <2>3. /\ Arrived' = Append(Arrived, Eos) /\ Arrived' \in Seq(Tag)
        /\ Numbered(Arrived', sent) /\ sent <= Len(Arrived')
    <3>0. Answered \in Seq(Tag) /\ tagQ[0] \in Seq(Tag)
      BY <1>1 DEF PlaceTypes
    <3>1. Answered \o Append(tagQ[0], Eos) = Append(Answered \o tagQ[0], Eos)
      BY <2>1, <3>0, AppendLast, Zenon
    <3>2. Arrived' = Append(Arrived, Eos)
      BY <1>5, <2>1, <3>1, PlacesNext DEF Arrived
    <3>3. Numbered(Append(Arrived, Eos), sent) /\ sent <= Len(Append(Arrived, Eos))
      BY <1>1, <1>2, <2>2, NumberedAppended DEF PlaceTypes
    <3>4. Arrived' \in Seq(Tag)
      BY PlacesTypedNext DEF PlaceTypes
    <3> QED BY <3>2, <3>3, <3>4
  <2>4. Queued' = Arrived' \o inputQ /\ AllEos(inputQ)
    <3>1. Handed' = Arrived' /\ Handed = Arrived
      BY <1>1, <2>1, <2>3, NothingLast, PlacesNext DEF PlaceTypes, Handed
    <3>2. AllEos(inputQ)
      BY <1>1, <2>2, <3>1, NumberedParts DEF PlaceTypes, Queued
    <3> QED BY <2>1, <3>1, <3>2, PlacesNext
  <2>5. Numbered(Queued', sent) /\ sent <= Len(Queued')
    BY <1>1, <2>3, <2>4, NumberedJoined DEF PlaceTypes
  <2>6. endOfSequence' => Len(Given') = sent
    BY <1>4, <1>5 DEF OrderInv
  <2> QED BY <1>4, <2>2, <2>3, <2>5, <2>6, OrderLine
<1>10. CASE MasterImage \/ MasterPick \/ MasterEosImage
  <2>1. UNCHANGED <<inputQ, tagQ>> /\ Hand = <<>> /\ Hand' = <<>>
    BY <1>10 DEF MasterImage, MasterPick, MasterEosImage, Hand, deviceQs
  <2>2. Arrived' = Arrived /\ Queued' = Queued
    BY <1>5, <2>1, PlacesNext DEF Arrived, Handed, Queued
  <2>3. masterPc' \notin Dealing \cup {"unstarted"} => masterPc \notin Dealing \cup {"unstarted"}
    BY <1>10 DEF MasterImage, MasterPick, MasterEosImage, Dealing
  <2>4. Len(Arrived) <= Len(Arrived')
    BY <1>1, <2>2 DEF PlaceTypes
  <2> QED BY <1>4, <1>5, <2>2, <2>3, <2>4, OrderFrame
<1> QED BY <1>7, <1>8, <1>9, <1>10 DEF Master

\* The places behind an entry that is a marker hold markers.
LEMMA BehindMarker ==
    ASSUME TypeInv, Numbered(Queued, sent)
    PROVE  /\ sent <= Len(Answered) => AllEos(tagQ[0]) /\ AllEos(Hand) /\ AllEos(inputQ)
           /\ sent <= Len(Given) => AllEos(Tags(outputQ))
<1>1. PlaceTypes /\ Numbered(Answered, sent) /\ Numbered(Arrived, sent) /\ Numbered(Handed, sent)
      /\ Len(Answered) <= Len(Arrived) /\ Len(Arrived) <= Len(Handed)
  BY PlacesTyped, PlacesNumbered
<1>2. ASSUME sent <= Len(Answered)
      PROVE  AllEos(tagQ[0]) /\ AllEos(Hand) /\ AllEos(inputQ)
  <2>1. sent <= Len(Arrived) /\ sent <= Len(Handed)
    BY <1>1, <1>2 DEF PlaceTypes
  <2>2. AllEos(tagQ[0])
    BY <1>1, <1>2, NumberedParts DEF PlaceTypes, Arrived
  <2>3. AllEos(Hand)
    BY <1>1, <2>1, NumberedParts DEF PlaceTypes, Handed
  <2>4. AllEos(inputQ)
    BY <1>1, <2>1, NumberedParts DEF PlaceTypes, Queued
  <2> QED BY <2>2, <2>3, <2>4
<1>3. sent <= Len(Given) => AllEos(Tags(outputQ))
  BY <1>1, NumberedParts DEF PlaceTypes, Answered
<1> QED BY <1>2, <1>3

\* A shorter line is put together from what is left of it.
LEMMA LineRebuilt ==
    ASSUME TypeInv', Numbered(Answered', sent), sent <= Len(Answered'), sent \in Nat,
           AllEos(tagQ'[0]), AllEos(Hand'), AllEos(inputQ')
    PROVE  Numbered(Queued', sent) /\ sent <= Len(Queued') /\ sent <= Len(Arrived')
<1>1. PlaceTypes'
  BY PlacesTypedNext
<1>2. Numbered(Arrived', sent) /\ sent <= Len(Arrived')
  BY <1>1, NumberedJoined, PlacesNext DEF PlaceTypes
<1>3. Numbered(Handed', sent) /\ sent <= Len(Handed')
  BY <1>1, <1>2, NumberedJoined, PlacesNext DEF PlaceTypes
<1>4. Numbered(Queued', sent) /\ sent <= Len(Queued')
  BY <1>1, <1>3, NumberedJoined, PlacesNext DEF PlaceTypes
<1> QED BY <1>2, <1>4

\* The device answers the oldest of its images, or passes the end on.
LEMMA DeviceOrder ==
    ASSUME GPUs = 1, AnswersInv, TypeInv', OrderInv, runPc \in LoopPcs, NEW g \in Devices,
           InputCopy(g) \/ Process(g) \/ OutputCopy(g)
    PROVE  OrderInv'
<1>1. TypeInv /\ PairInv /\ PhaseInv /\ PlaceTypes /\ PlaceTypes'
      /\ Numbered(Queued, sent) /\ sent <= Len(Queued)
  BY PlacesTyped, PlacesTypedNext DEF OrderInv, AnswersInv
<1>2. /\ Numbered(Given, sent) /\ Numbered(Answered, sent) /\ Numbered(Arrived, sent)
      /\ Numbered(Handed, sent)
      /\ Len(Given) <= Len(Answered) /\ Len(Answered) <= Len(Arrived)
      /\ Len(Arrived) <= Len(Handed) /\ Len(Handed) <= Len(Queued)
      /\ Len(Given) <= sent
  BY <1>1, PlacesNumbered
<1>3. g = 0
  BY DEF Devices
<1>4. UNCHANGED <<sent, results, packet, endOfSequence, endOfImageRequested, runPc, masterPc,
                  Hand>>
  BY <1>1, ThreadsRun DEF sessionVars, clientVars, replyVars, requestVars, masterVars, Hand
<1>5. inputQ' = inputQ
  BY DEF InputCopy, Process, OutputCopy, CopyTakeMem, CopyTakeImage, CopyPut, CopyEos,
     ProcTakeInput, ProcTakeOutput, ProcGraph, ProcEmit, ProcEos, OutTakeMem, OutTakeTag,
     OutPutLabels, OutReturnMem, OutEos
<1>6. Given' = Given
  BY <1>4, PlacesNext DEF Given
<1>7. endOfSequence' => Len(Given') = sent
  BY <1>4, <1>6 DEF OrderInv
<1>8. Len(Given) \in Nat /\ Len(Answered) \in Nat /\ Len(Arrived) \in Nat /\ Len(Handed) \in Nat
      /\ Len(Queued) \in Nat /\ sent \in Nat
  BY <1>1 DEF PlaceTypes
<1>9. CASE OutTakeTag(g)
  <2>1. tagQ[0] # <<>> /\ tagQ'[0] = Tail(tagQ[0])
    BY <1>1, <1>3, <1>9 DEF OutTakeTag, Pop, TypeInv, QueueTypeOK
  <2>2. CASE Head(tagQ[0]) = Eos
    <3>1. outputQ' = outputQ
      BY <1>3, <1>9, <2>2 DEF OutTakeTag
    <3>2. Answered' = Answered
      BY <1>6, <3>1, PlacesNext DEF Answered
    <3>3. sent <= Len(Answered)
      BY <1>1, <1>2, <2>1, <2>2, NumberedParts DEF PlaceTypes, Arrived
    <3>4. AllEos(tagQ[0]) /\ AllEos(Hand) /\ AllEos(inputQ)
      BY <1>1, <3>3, BehindMarker
    <3>5. AllEos(tagQ'[0])
      <4>1. tagQ[0] \in Seq(Tag)
        BY <1>1 DEF PlaceTypes
      <4> QED BY <2>1, <3>4, <4>1, Tailed DEF AllEos
    <3>6. Numbered(Queued', sent) /\ sent <= Len(Queued') /\ sent <= Len(Arrived')
      <4>1. Numbered(Answered', sent) /\ sent <= Len(Answered')
        BY <1>2, <3>2, <3>3
      <4>2. AllEos(Hand') /\ AllEos(inputQ')
        BY <1>4, <1>5, <3>4
      <4> QED BY <1>8, <3>5, <4>1, <4>2, LineRebuilt
    <3>7. endOfImageRequested
      <4>1. Len(Answered) < Len(Arrived)
        <5>1. tagQ[0] \in Seq(Tag) /\ Answered \in Seq(Tag)
          BY <1>1 DEF PlaceTypes
        <5> QED BY <2>1, <5>1 DEF Arrived
      <4> QED BY <1>2, <1>8, <3>3, <4>1 DEF OrderInv
    <3> QED BY <1>4, <1>7, <3>6, <3>7, OrderLine
  <2>3. CASE Head(tagQ[0]) # Eos
    <3> DEFINE r == Result(Head(tagQ[0]), outMem[0][outMemHeld[0]][outCount[0] + 1])
    <3>1. outputQ' = Append(outputQ, r) /\ r[1] = Head(tagQ[0])
      BY <1>3, <1>9, <2>3 DEF OutTakeTag, Result
    <3>2. outputQ \in Seq(Entry) /\ outputQ' \in Seq(Entry)
      BY <1>1, WaitingTypes DEF TypeInv, QueueTypeOK, Entry
    <3>3. r \in Entry
      <4>1. Len(outputQ) + 1 \in DOMAIN outputQ' /\ outputQ'[Len(outputQ) + 1] = r
        BY <3>1, <3>2
      <4> QED BY <3>2, <4>1
    <3> HIDE DEF r
    <3>4. Tags(outputQ') = Append(Tags(outputQ), Head(tagQ[0]))
      BY <3>1, <3>2, <3>3, TagsFacts
    <3>5. Answered' = Append(Answered, Head(tagQ[0]))
      <4>1. Given \in Seq(Tag) /\ Tags(outputQ) \in Seq(Tag) /\ Head(tagQ[0]) \in Tag
        BY <1>1, <2>1, Tailed DEF PlaceTypes
      <4>2. Given \o Append(Tags(outputQ), Head(tagQ[0]))
              = Append(Given \o Tags(outputQ), Head(tagQ[0]))
        BY <4>1, AppendLast, Zenon
      <4> QED BY <1>6, <3>4, <4>2, PlacesNext DEF Answered
    <3>6. Arrived' = Arrived
      <4>1. Answered \in Seq(Tag) /\ tagQ[0] \in Seq(Tag)
        BY <1>1 DEF PlaceTypes
      <4>2. Append(Answered, Head(tagQ[0])) \o Tail(tagQ[0]) = Answered \o tagQ[0]
        BY <2>1, <4>1, PassedOn, Zenon
      <4> QED BY <2>1, <3>5, <4>2, PlacesNext DEF Arrived
    <3>7. Queued' = Queued
      BY <1>4, <1>5, <3>6, PlacesNext DEF Handed, Queued
    <3> QED BY <1>1, <1>4, <1>6, <1>8, <3>6, <3>7, OrderFrame
  <2> QED BY <2>2, <2>3
<1>10. CASE OutEos(g)
  <2> DEFINE r == <<Eos, NoBoxes>>
  <2>1. /\ outputQ' = Append(outputQ, r) /\ tagQ' = tagQ /\ r \in Entry /\ r[1] = Eos
        /\ outPc[0] = "eos" /\ outputQ \in Seq(Entry)
    BY <1>1, <1>3, <1>10, WaitingTypes DEF OutEos, deviceQs, Entry, Label, NoBoxes, Blank, Tag
  <2> HIDE DEF r
  <2>2. Tags(outputQ') = Append(Tags(outputQ), Eos)
    BY <2>1, TagsFacts
  <2>3. Drained(0)
    BY <1>1, <1>3, <2>1 DEF PairInv, DeviceInv, DrainedAtEnd
  <2>4. endOfImageRequested /\ sent <= Len(Arrived)
    <3>1. masterPc \notin Dealing \cup {"unstarted"}
      BY <1>1, <1>3, <2>1, <2>3 DEF PhaseInv, Drained
    <3> QED BY <3>1 DEF OrderInv
  <2>5. sent <= Len(Answered)
    <3>1. CASE tagQ[0] = <<>>
      <4>1. Arrived = Answered
        BY <1>1, <3>1, NothingLast DEF PlaceTypes, Arrived
      <4> QED BY <2>4, <4>1
    <3>2. CASE tagQ[0] # <<>>
      <4>1. Head(tagQ[0]) = Eos
        <5>1. tagQ[0] \in Seq(Tag)
          BY <1>1 DEF PlaceTypes
        <5> QED BY <2>3, <3>2, <5>1, Tailed DEF Drained
      <4> QED BY <1>1, <1>2, <3>2, <4>1, NumberedParts DEF PlaceTypes, Arrived
    <3> QED BY <3>1, <3>2
  <2>6. Numbered(Answered', sent) /\ sent <= Len(Answered')
    <3>1. Given \in Seq(Tag) /\ Tags(outputQ) \in Seq(Tag) /\ Eos \in Tag /\ Answered \in Seq(Tag)
      BY <1>1 DEF PlaceTypes, Tag
    <3>2. Given \o Append(Tags(outputQ), Eos) = Append(Given \o Tags(outputQ), Eos)
      BY <3>1, AppendLast, Zenon
    <3>3. Answered' = Append(Answered, Eos)
      BY <1>6, <2>2, <3>2, PlacesNext DEF Answered
    <3>4. Numbered(Append(Answered, Eos), sent) /\ sent <= Len(Append(Answered, Eos))
      BY <1>2, <1>8, <2>5, <3>1, NumberedAppended
    <3> QED BY <3>3, <3>4
  <2>7. Numbered(Queued', sent) /\ sent <= Len(Queued') /\ sent <= Len(Arrived')
    <3>1. AllEos(tagQ[0]) /\ AllEos(Hand) /\ AllEos(inputQ)
      BY <1>1, <2>5, BehindMarker
    <3>2. AllEos(tagQ'[0]) /\ AllEos(Hand') /\ AllEos(inputQ')
      BY <1>4, <1>5, <2>1, <3>1
    <3> QED BY <1>8, <2>6, <3>2, LineRebuilt
  <2> QED BY <1>4, <1>7, <2>4, <2>7, OrderLine
<1>11. CASE ~OutTakeTag(g) /\ ~OutEos(g)
  <2>1. UNCHANGED <<outputQ, tagQ>>
    BY <1>11 DEF InputCopy, Process, OutputCopy, CopyTakeMem, CopyTakeImage, CopyPut,
       CopyEos, ProcTakeInput, ProcTakeOutput, ProcGraph, ProcEmit, ProcEos, OutTakeMem,
       OutPutLabels, OutReturnMem, resultQs, deviceQs
  <2>2. Arrived' = Arrived /\ Queued' = Queued
    BY <1>4, <1>5, <1>6, <2>1, PlacesNext DEF Answered, Arrived, Handed, Queued
  <2> QED BY <1>1, <1>4, <1>6, <1>8, <2>2, OrderFrame
<1> QED BY <1>9, <1>10, <1>11

\* The session thread takes the oldest answer, asks for images and receives them.
LEMMA SessionOrder ==
    ASSUME TypeInv, TypeInv', OrderInv, runPc \in LoopPcs, runPc' \in LoopPcs, Run
    PROVE  OrderInv'
<1>1. PlaceTypes /\ PlaceTypes' /\ Numbered(Queued, sent) /\ sent <= Len(Queued)
  BY PlacesTyped, PlacesTypedNext DEF OrderInv
<1>2. /\ Numbered(Given, sent) /\ Numbered(Answered, sent) /\ Numbered(Arrived, sent)
      /\ Numbered(Handed, sent)
      /\ Len(Given) <= Len(Answered) /\ Len(Answered) <= Len(Arrived)
      /\ Len(Arrived) <= Len(Handed) /\ Len(Handed) <= Len(Queued)
      /\ Len(Given) <= sent
  BY <1>1, PlacesNumbered
<1>3. /\ Len(Given) \in Nat /\ Len(Answered) \in Nat /\ Len(Arrived) \in Nat
      /\ Len(Handed) \in Nat /\ Len(Queued) \in Nat /\ sent \in Nat
  BY <1>1 DEF PlaceTypes
<1>4. outputQ \in Seq(Entry) /\ packet \in Seq(Entry) /\ results \in Seq(Entry)
  BY EntryTypes
<1>5. ASSUME UNCHANGED <<sent, outputQ, tagQ, Hand, inputQ, endOfImageRequested, endOfSequence>>,
             Given' = Given, runPc' = "receive" => runPc = "receive",
             masterPc' \notin Dealing \cup {"unstarted"} =>
               masterPc \notin Dealing \cup {"unstarted"}
      PROVE  OrderInv'
  <2>1. Arrived' = Arrived /\ Queued' = Queued
    BY <1>5, PlacesNext DEF Answered, Arrived, Handed, Queued
  <2> QED BY <1>3, <1>5, <2>1, OrderFrame
<1>6. CASE TakeResult
  <2> DEFINE r == Head(outputQ)
  <2>1. /\ outputQ # <<>> /\ outputQ' = Tail(outputQ) /\ r \in Entry
        /\ UNCHANGED <<sent, results, inputQ, tagQ, Hand, endOfImageRequested, masterPc>>
        /\ runPc' # "receive"
    BY <1>4, <1>6, Tailed DEF TakeResult, clientVars, deviceQs, masterVars, Hand, requestVars,
       AfterTake
  <2>2. Tags(outputQ') = Tail(Tags(outputQ)) /\ Tags(outputQ) # <<>>
        /\ Head(Tags(outputQ)) = r[1]
    BY <1>4, <2>1, TagsFacts
  <2>3. Given \in Seq(Tag) /\ Tags(outputQ) \in Seq(Tag)
    BY <1>1 DEF PlaceTypes
  <2>4. CASE r[1] = Eos
    <3>1. packet' = packet
      BY <1>6, <2>4 DEF TakeResult
    <3>2. Given' = Given
      BY <2>1, <3>1, PlacesNext DEF Given
    <3>3. sent <= Len(Given) /\ Len(Given) = sent
      <4>1. sent <= Len(Given)
        BY <1>2, <1>3, <2>2, <2>3, <2>4, NumberedParts DEF Answered
      <4> QED BY <1>2, <1>3, <4>1
    <3>4. AllEos(Tags(outputQ)) /\ AllEos(tagQ[0]) /\ AllEos(Hand) /\ AllEos(inputQ)
      BY <1>1, <1>2, <1>3, <3>3, BehindMarker
    <3>5. AllEos(Tags(outputQ'))
      BY <2>2, <2>3, <3>4, Tailed DEF AllEos
    <3>6. Tags(outputQ') \in Seq(Tag)
      BY <2>2, <2>3, Tailed
    <3>7. Numbered(Answered', sent) /\ sent <= Len(Answered')
      BY <1>2, <1>3, <2>3, <3>2, <3>3, <3>5, <3>6, NumberedJoined, PlacesNext
    <3>8. Numbered(Queued', sent) /\ sent <= Len(Queued') /\ sent <= Len(Arrived')
      <4>1. AllEos(tagQ'[0]) /\ AllEos(Hand') /\ AllEos(inputQ')
        BY <2>1, <3>4
      <4> QED BY <1>3, <3>7, <4>1, LineRebuilt
    <3>9. endOfImageRequested
      <4>1. Len(Given) < Len(Answered)
        BY <2>2, <2>3 DEF Answered
      <4> QED BY <1>2, <1>3, <3>3, <4>1 DEF OrderInv
    <3> QED BY <2>1, <3>2, <3>3, <3>8, <3>9, OrderLine
  <2>5. CASE r[1] # Eos
    <3>1. packet' = Append(packet, r) /\ endOfSequence' = endOfSequence
      BY <1>6, <2>5 DEF TakeResult
    <3>2. results' \o packet' = Append(results \o packet, r)
      BY <1>4, <2>1, <3>1
    <3>3. results \o packet \in Seq(Entry)
      BY <1>4, ConcatType
    <3>4. Given' = Append(Given, Head(Tags(outputQ)))
      <4> HIDE DEF r
      <4> QED BY <2>1, <2>2, <3>2, <3>3, TagsFacts, PlacesNext DEF Given
    <3>5. Answered' = Answered
      <4>1. Append(Given, Head(Tags(outputQ))) \o Tail(Tags(outputQ)) = Given \o Tags(outputQ)
        BY <2>2, <2>3, PassedOn, Zenon
      <4> QED BY <2>2, <3>4, <4>1, PlacesNext DEF Answered
    <3>6. Arrived' = Arrived /\ Queued' = Queued
      BY <2>1, <3>5, PlacesNext DEF Arrived, Handed, Queued
    <3>7. ~endOfSequence
      <4>1. Len(Given) < sent
        BY <1>2, <1>3, <2>2, <2>3, <2>5, NumberedParts DEF Answered
      <4> QED BY <1>3, <4>1 DEF OrderInv
    <3> QED BY <1>3, <2>1, <3>1, <3>6, <3>7, OrderFrame
  <2> QED BY <2>4, <2>5
<1>7. CASE TakeLabels
  <2>1. /\ UNCHANGED <<sent, results, inputQ, tagQ, Hand, outputQ, endOfImageRequested,
                       endOfSequence, masterPc>>
        /\ packet' = [packet EXCEPT ![Len(packet)] = <<@[1], Head(outputX)>>]
        /\ runPc' # "receive"
    BY <1>7 DEF TakeLabels, clientVars, deviceQs, masterVars, Hand, requestVars, AfterTake
  <2>2. /\ DOMAIN packet' = DOMAIN packet /\ Len(packet') = Len(packet)
        /\ \A i \in DOMAIN packet : packet'[i][1] = packet[i][1]
    BY <1>4, <2>1
  <2>3. Tags(results' \o packet') = Tags(results \o packet)
    BY <1>4, <2>1, <2>2 DEF Tags
  <2> QED BY <1>5, <2>1, <2>3, PlacesNext DEF Given
<1>8. CASE SendReply
  <2>1. UNCHANGED <<sent, inputQ, tagQ, Hand, outputQ, endOfImageRequested, endOfSequence,
                    masterPc>>
        /\ runPc' # "receive"
    BY <1>8 DEF SendReply, resultQs, deviceQs, masterVars, Hand, requestVars, Leave
  <2>2. results' \o packet' = results \o packet
    <3>1. (results \o packet) \o <<>> = results \o packet
      BY <1>4, ConcatType
    <3> QED BY <1>8, <3>1 DEF SendReply
  <2> QED BY <1>5, <2>1, <2>2, PlacesNext DEF Given
<1>9. CASE RequestImages
  <2>1. /\ UNCHANGED <<sent, results, packet, tagQ, Hand, outputQ, endOfSequence, masterPc>>
    BY <1>9 DEF RequestImages, clientVars, replyVars, deviceQs, resultQs, masterVars, Hand
  <2>2. Given' = Given /\ Arrived' = Arrived /\ Handed' = Handed
    BY <2>1, PlacesNext DEF Given, Answered, Arrived, Handed
  <2>3. CASE UNCHANGED <<inputQ, endOfImageRequested>> /\ runPc' # "receive"
    BY <1>5, <2>1, <2>2, <2>3
  <2>4. CASE ~(UNCHANGED <<inputQ, endOfImageRequested>> /\ runPc' # "receive")
    <3>1. ~endOfImageRequested
          /\ \E count \in Answers(Requested) :
               /\ endOfImageRequested' = (count < 0)
               /\ inputQ' = IF count < 0 THEN Append(inputQ, Eos) ELSE inputQ
               /\ runPc' = IF count > 0 THEN "receive" ELSE NextIteration
      BY <1>9, <2>4 DEF RequestImages, Leave, NextIteration, requestVars, LoopPcs
    <3>2. PICK count \in Answers(Requested) :
               /\ endOfImageRequested' = (count < 0)
               /\ inputQ' = IF count < 0 THEN Append(inputQ, Eos) ELSE inputQ
               /\ runPc' = IF count > 0 THEN "receive" ELSE NextIteration
      BY <3>1
    <3>3. (count = -1 /\ sent = NumImages) \/ count \in Nat
      <4>1. Requested \in Int /\ NumImages - sent \in Int
        BY <1>1, <1>3, ConstantTypes DEF Requested, Smaller, PlaceTypes
      <4> QED BY <4>1 DEF Answers, Smaller
    <3>4. ~endOfSequence /\ Len(Queued) = sent
          /\ masterPc \in Dealing \cup {"unstarted"}
      BY <3>1 DEF OrderInv
    <3>5. CASE count \in Nat
      <4>1. ~endOfImageRequested' /\ inputQ' = inputQ
        <5>1. ~(count < 0)
          BY <3>5
        <5> QED BY <3>2, <5>1, Zenon
      <4>2. Queued' = Queued
        BY <2>2, <4>1, PlacesNext DEF Queued
      <4>3. Numbered(Queued, sent)' = Numbered(Queued', sent')
        BY DEF Numbered
      <4> QED BY <1>1, <2>1, <3>1, <3>4, <4>1, <4>2, <4>3 DEF OrderInv
    <3>6. CASE count = -1 /\ sent = NumImages
      <4>1. /\ inputQ' = Append(inputQ, Eos) /\ endOfImageRequested'
            /\ runPc' # "receive"
        <5>1. count < 0 /\ ~(count > 0)
          BY <3>6
        <5> QED BY <3>2, <5>1, Zenon DEF NextIteration
      <4>2. Queued' = Append(Queued, Eos)
        <5>1. Handed \in Seq(Tag) /\ inputQ \in Seq(Tag) /\ Eos \in Tag
          BY <1>1 DEF PlaceTypes, Tag
        <5>2. Handed \o Append(inputQ, Eos) = Append(Handed \o inputQ, Eos)
          BY <5>1, AppendLast, Zenon
        <5> QED BY <2>2, <4>1, <5>2, PlacesNext DEF Queued
      <4>3. Numbered(Queued', sent) /\ sent <= Len(Queued')
        BY <1>1, <1>3, <4>2, NumberedAppended DEF PlaceTypes
      <4>4. Numbered(Queued, sent)' = Numbered(Queued', sent')
        BY DEF Numbered
      <4> QED BY <2>1, <3>4, <3>6, <4>1, <4>3, <4>4 DEF OrderInv
    <3> QED BY <3>3, <3>5, <3>6
  <2> QED BY <2>3, <2>4
<1>10. CASE ReceiveImage
  <2>1. UNCHANGED <<results, packet, tagQ, Hand, outputQ, endOfImageRequested, endOfSequence,
                    masterPc>>
        /\ sent' = sent + 1 /\ inputQ' = Append(inputQ, sent + 1)
    BY <1>10 DEF ReceiveImage, replyVars, deviceQs, resultQs, masterVars, Hand, Leave, LoopPcs
  <2>2. Given' = Given /\ Arrived' = Arrived /\ Handed' = Handed
    BY <2>1, PlacesNext DEF Given, Answered, Arrived, Handed
  <2>3. /\ ~endOfImageRequested /\ ~endOfSequence /\ Len(Queued) = sent
        /\ masterPc \in Dealing \cup {"unstarted"}
    BY <1>10 DEF ReceiveImage, OrderInv
  <2>4. sent + 1 \in Tag
    BY <1>3, <2>1, ConstantTypes DEF TypeInv, SessionInv, SessionTypeOK, Tag, Images
  <2>5. Queued' = Append(Queued, sent + 1)
    <3>1. Handed \in Seq(Tag) /\ inputQ \in Seq(Tag)
      BY <1>1 DEF PlaceTypes
    <3>2. Handed \o Append(inputQ, sent + 1) = Append(Handed \o inputQ, sent + 1)
      BY <2>4, <3>1, AppendLast, Zenon
    <3> QED BY <2>1, <2>2, <3>2, PlacesNext DEF Queued
  <2>6. Numbered(Queued', sent')
    BY <1>1, <1>3, <2>1, <2>3, <2>5, NumberedAppended DEF PlaceTypes
  <2>7. Len(Queued') = sent'
    BY <1>1, <1>3, <2>1, <2>3, <2>4, <2>5, Appended DEF PlaceTypes
  <2>8. Numbered(Queued, sent)' = Numbered(Queued', sent')
    BY DEF Numbered
  <2>9. sent' <= Len(Queued')
    BY <1>3, <2>1, <2>7
  <2> QED BY <2>1, <2>3, <2>6, <2>7, <2>8, <2>9 DEF OrderInv
<1>11. CASE HandleRequest \/ CreateDevice \/ CountResults \/ ExchangeDone \/ StartThreads
  <2>1. UNCHANGED <<sent, results, packet, inputQ, tagQ, outputQ, endOfSequence,
                    endOfImageRequested>>
        /\ runPc' # "receive"
    BY <1>11 DEF HandleRequest, CreateDevice, CountResults, ExchangeDone, StartThreads,
       clientVars, replyVars, requestVars, resultQs, deviceQs, Leave
  <2>2. Hand' = Hand /\ (masterPc' = masterPc \/ masterPc' = "next")
    BY <1>11 DEF HandleRequest, CreateDevice, CountResults, ExchangeDone, StartThreads,
       masterVars, Hand, TypeInv, SetupInv
  <2> QED BY <1>5, <2>1, <2>2, PlacesNext DEF Given, Dealing
<1> QED BY <1>6, <1>7, <1>8, <1>9, <1>10, <1>11 DEF Run

\* Every step keeps the order of the line.
LEMMA StepOrderInv ==
    ASSUME GPUs = 1, EmptyFiles = {}, AnswersInv, TypeInv', OrderInv, [Next]_vars
    PROVE  OrderInv'
<1>1. CASE runPc' \notin LoopPcs
  BY <1>1 DEF OrderInv
<1>2. CASE runPc' \in LoopPcs
  <2>1. runPc \in LoopPcs
    BY <1>2 DEF LoopPcs, Next, Run, Destroy, HandleRequest, CreateDevice, StartThreads,
       CountResults, TakeResult, TakeLabels, SendReply, RequestImages, ReceiveImage,
       ExchangeDone, DestroyEos, JoinMaster, DestroyTag, DestroyImage, JoinDevice,
       ReleaseDevice, Master, MasterNext, MasterTag, MasterImage, MasterPick, MasterEosTag,
       MasterEosImage, InputCopy, Process, OutputCopy, CopyTakeMem, CopyTakeImage, CopyPut,
       CopyEos, ProcTakeInput, ProcTakeOutput, ProcGraph, ProcEmit, ProcEos, OutTakeMem,
       OutTakeTag, OutPutLabels, OutReturnMem, OutEos, vars, sessionVars
  <2>2. TypeInv
    BY DEF AnswersInv
  <2>3. CASE Run
    BY <1>2, <2>1, <2>2, <2>3, SessionOrder
  <2>4. CASE Destroy
    BY <2>1, <2>4 DEF LoopPcs, Destroy, DestroyEos, JoinMaster, DestroyTag, DestroyImage,
       JoinDevice, ReleaseDevice
  <2>5. CASE Master
    BY <2>1, <2>2, <2>5, MasterOrder
  <2>6. ASSUME NEW g \in Devices, InputCopy(g) \/ Process(g) \/ OutputCopy(g)
        PROVE  OrderInv'
    BY <2>1, <2>6, DeviceOrder
  <2>7. CASE UNCHANGED vars
    BY <2>7 DEF vars, sessionVars, clientVars, replyVars, requestVars, resultQs, deviceQs,
       masterVars, OrderInv, Queued, Handed, Arrived, Answered, Given, Hand, Tags, Numbered
  <2> QED BY <2>3, <2>4, <2>5, <2>6, <2>7 DEF Next
<1> QED BY <1>1, <1>2

\* A step of the loop that neither receives an image nor sends a reply is none of the
\* service, or its last.
LEMMA QuietStep ==
    ASSUME TypeInv, OrderInv, runPc \in LoopPcs, UNCHANGED <<sent, results>>,
           runPc' \in LoopPcs \/ UNCHANGED <<packet, endOfSequence>>
    PROVE  [Service!Next]_Service!vars
<1>1. serviceStatus = "open"
  BY DEF serviceStatus
<1>2. CASE runPc' \in LoopPcs
  <2>1. serviceStatus' = "open"
    BY <1>2 DEF serviceStatus
  <2> QED BY <1>1, <2>1 DEF Service!vars
<1>3. CASE runPc' \notin LoopPcs /\ ~(endOfSequence /\ packet = <<>>)
  <2>1. serviceStatus' = "broken"
    BY <1>3 DEF serviceStatus
  <2> QED BY <1>1, <2>1 DEF Service!Next, Service!Break
<1>4. CASE runPc' \notin LoopPcs /\ endOfSequence /\ packet = <<>>
  <2>1. serviceStatus' = "closed"
    BY <1>4 DEF serviceStatus
  <2>2. sent = NumImages /\ Len(Given) = sent
    BY <1>4 DEF OrderInv
  <2>3. Len(Given) = Len(results)
    <3>1. results \in Seq(Entry)
      BY EntryTypes
    <3>2. results \o packet = results
      BY <1>4, <3>1
    <3> QED BY <3>1, <3>2, TagsFacts DEF Given
  <2> QED BY <1>1, <2>1, <2>2, <2>3 DEF Service!Next, Service!Close
<1> QED BY <1>2, <1>3, <1>4

\* What a reply contains are the next answers, in their order and right.
LEMMA ReplyAnswers ==
    ASSUME TypeInv, OrderInv, ResultsInv, runPc = "reply", runPc' \in LoopPcs,
           sent' = sent, results' = results \o packet
    PROVE  Service!Answer
<1> DEFINE l == Len(results)
           told == results \o packet
           n == Len(told)
<1>1. runPc \in LoopPcs /\ serviceStatus = "open" /\ serviceStatus' = "open"
  BY DEF serviceStatus, LoopPcs
<1>2. /\ packet \in Seq(Images \X Label) /\ results \in Seq(Images \X Label)
      /\ sent \in Nat /\ Len(packet) > 0 /\ l \in Nat
  BY ConstantTypes DEF TypeInv, SessionInv, SessionTypeOK, Answer
<1>3. /\ told \in Seq(Images \X Label) /\ told \in Seq(Entry)
      /\ n \in Nat /\ n > l /\ DOMAIN told = 1..n
      /\ \A i \in 1..n : IF i <= l THEN told[i] = results[i]
                         ELSE i - l \in DOMAIN packet /\ told[i] = packet[i - l]
  <2>1. told \in Seq(Entry)
    BY WaitingTypes
  <2> QED BY <1>2, <2>1, ConcatType
<1> HIDE DEF l, n, told
<1>4. DOMAIN Given = 1..n /\ Len(Given) = n /\ \A i \in 1..n : Given[i] = told[i][1]
  <2>1. Given = Tags(told)
    BY DEF Given, told
  <2>2. Len(Given) = n /\ Given \in Seq(Tag)
    BY <1>3, <2>1, TagsFacts DEF n
  <2>3. \A i \in DOMAIN told : Given[i] = told[i][1]
    BY <2>1 DEF Tags
  <2> QED BY <1>3, <2>2, <2>3
<1>5. Numbered(Given, sent) /\ n <= sent
  BY <1>1, <1>4, PlacesNumbered DEF OrderInv
<1>6. \A i \in 1..n : i \in Nat /\ i # Eos /\ told[i][1] = i
  <2> SUFFICES ASSUME NEW i \in 1..n PROVE i \in Nat /\ i # Eos /\ told[i][1] = i
    OBVIOUS
  <2>1. i \in Nat /\ i > 0 /\ i <= sent
    BY <1>2, <1>3, <1>5
  <2>2. Given[i] = (IF i <= sent THEN i ELSE Eos) /\ Given[i] = told[i][1]
    BY <1>4, <1>5 DEF Numbered
  <2> QED BY <2>1, <2>2 DEF Eos
<1>7. ASSUME NEW i \in 1..n
      PROVE  told[i] = IF i <= l THEN results[i] ELSE <<i, Expected(i)>>
  <2>1. CASE i <= l
    BY <1>3, <2>1
  <2>2. CASE ~(i <= l)
    <3>1. i - l \in DOMAIN packet /\ told[i] = packet[i - l]
      BY <1>3, <2>2
    <3>2. told[i][1] = i /\ i # Eos
      BY <1>6
    <3>3. told[i][2] = Expected(i)
      <4>1. \A k \in DOMAIN packet : packet[k][1] # Eos => packet[k][2] = Expected(packet[k][1])
        BY DEF ResultsInv, AllRight
      <4> HIDE DEF Expected
      <4> QED BY <3>1, <3>2, <4>1
    <3>4. told[i] \in Images \X Label
      BY <1>3
    <3> QED BY <2>2, <3>2, <3>3, <3>4
  <2> QED BY <2>1, <2>2
<1>8. told = [i \in 1..n |-> IF i <= l THEN results[i] ELSE <<i, Expected(i)>>]
  <2>1. told = [i \in DOMAIN told |-> told[i]]
    BY <1>3
  <2> QED BY <1>3, <1>7, <2>1
<1>9. n \in (l + 1)..sent
  BY <1>2, <1>3, <1>5
<1>10. results' = told
  BY DEF told
<1> QED BY <1>1, <1>8, <1>9, <1>10 DEF Service!Answer, l

\* Every step of the session is one of the service, or none.
LEMMA StepService ==
    ASSUME AnswersInv, ResultsInv, OrderInv, TypeInv', [Next]_vars
    PROVE  [Service!Next]_Service!vars
<1>1. TypeInv
  BY DEF AnswersInv
<1>2. CASE runPc \notin LoopPcs
  <2>1. UNCHANGED <<sent, results, packet, endOfSequence>> /\ runPc' \notin LoopPcs
    BY <1>2 DEF LoopPcs, Next, Run, Destroy, HandleRequest, CreateDevice, StartThreads,
       CountResults, TakeResult, TakeLabels, SendReply, RequestImages, ReceiveImage,
       ExchangeDone, DestroyEos, JoinMaster, DestroyTag, DestroyImage, JoinDevice,
       ReleaseDevice, Master, MasterNext, MasterTag, MasterImage, MasterPick, MasterEosTag,
       MasterEosImage, InputCopy, Process, OutputCopy, CopyTakeMem, CopyTakeImage, CopyPut,
       CopyEos, ProcTakeInput, ProcTakeOutput, ProcGraph, ProcEmit, ProcEos, OutTakeMem,
       OutTakeTag, OutPutLabels, OutReturnMem, OutEos, vars, sessionVars, clientVars,
       replyVars
  <2>2. serviceStatus' = serviceStatus
    BY <1>2, <2>1 DEF serviceStatus
  <2> QED BY <2>1, <2>2 DEF Service!vars
<1>3. CASE runPc \in LoopPcs
  <2>1. CASE SendReply
    <3>1. runPc = "reply" /\ UNCHANGED <<sent, endOfSequence>>
      BY <2>1 DEF SendReply
    <3>2. CASE Leave /\ UNCHANGED <<results, packet>>
      BY <1>1, <1>3, <3>1, <3>2, QuietStep
    <3>3. CASE results' = results \o packet /\ runPc' \in LoopPcs
      BY <1>1, <3>1, <3>3, ReplyAnswers DEF Service!Next
    <3> QED BY <2>1, <3>2, <3>3 DEF SendReply, LoopPcs
  <2>2. CASE ReceiveImage
    <3>1. runPc = "receive" /\ UNCHANGED <<results, packet, endOfSequence>>
      BY <2>2 DEF ReceiveImage, replyVars
    <3>2. CASE sent' = sent
      BY <1>1, <1>3, <3>1, <3>2, QuietStep
    <3>3. CASE sent' = sent + 1 /\ runPc' \in {"receive", NextIteration}
      <4>1. ~endOfSequence
        BY <3>1 DEF OrderInv, LoopPcs
      <4>2. runPc' \in LoopPcs
        BY <3>3, <4>1 DEF NextIteration, LoopPcs
      <4>3. serviceStatus = "open" /\ serviceStatus' = "open"
        BY <1>3, <4>2 DEF serviceStatus
      <4>4. sent < NumImages
        BY <1>1, <3>3, ConstantTypes DEF TypeInv, SessionInv, SessionTypeOK
      <4> QED BY <3>1, <3>3, <4>3, <4>4 DEF Service!Next, Service!Submit
    <3> QED BY <2>2, <3>2, <3>3 DEF ReceiveImage
  <2>3. CASE TakeResult \/ TakeLabels \/ CountResults
    <3>1. UNCHANGED <<sent, results>> /\ runPc' \in LoopPcs
      BY <2>3 DEF TakeResult, TakeLabels, CountResults, clientVars, AfterTake, LoopPcs
    <3> QED BY <1>1, <1>3, <3>1, QuietStep
  <2>4. CASE HandleRequest \/ CreateDevice \/ StartThreads \/ RequestImages
    <3>1. UNCHANGED <<sent, results, packet, endOfSequence>>
      BY <2>4 DEF HandleRequest, CreateDevice, StartThreads, RequestImages, clientVars,
         replyVars
    <3> QED BY <1>1, <1>3, <3>1, QuietStep
  <2>5. CASE ExchangeDone \/ Destroy
    BY <1>3, <2>5 DEF LoopPcs, ExchangeDone, Destroy, DestroyEos, JoinMaster, DestroyTag,
       DestroyImage, JoinDevice, ReleaseDevice
  <2>6. ASSUME Master \/ (\E g \in Devices : InputCopy(g) \/ Process(g) \/ OutputCopy(g))
                \/ UNCHANGED vars
        PROVE  [Service!Next]_Service!vars
    <3>1. UNCHANGED <<sent, results, packet, endOfSequence>>
      BY <2>6 DEF Master, MasterNext, MasterTag, MasterImage, MasterPick, MasterEosTag,
         MasterEosImage, InputCopy, Process, OutputCopy, CopyTakeMem, CopyTakeImage, CopyPut,
         CopyEos, ProcTakeInput, ProcTakeOutput, ProcGraph, ProcEmit, ProcEos, OutTakeMem,
         OutTakeTag, OutPutLabels, OutReturnMem, OutEos, vars, sessionVars, clientVars,
         replyVars
    <3> QED BY <1>1, <1>3, <3>1, QuietStep
  <2> QED BY <2>1, <2>2, <2>3, <2>4, <2>5, <2>6 DEF Next, Run
<1> QED BY <1>2, <1>3

\* A session with one device implements the service, for every batch size, pipe depth, queue
\* bound and number of images, and whichever way its answers are told: the client is told
\* the answers in the order in which it sent the images, each once and right, and the
\* session is only ended as complete when it has been told all of them.  No file is empty,
\* and the decoder threads share a batch without a remainder (the runs show what happens
\* otherwise).  The fairness of the service is left to the runs.
THEOREM ServiceImplemented ==
    ASSUME GPUs = 1, EmptyFiles = {}, BatchDecodedWhole
    PROVE  Spec => Service!Spec
<1>1. Init => Service!Init
  BY DEF Init, Service!Init, serviceStatus, LoopPcs
<1>2. Spec => [](AnswersInv /\ ResultsInv)
  BY AnswersRight DEF LabelsKeepUp
<1>3. Init => OrderInv
  <2> SUFFICES ASSUME Init PROVE OrderInv
    OBVIOUS
  <2>1. /\ results = <<>> /\ packet = <<>> /\ outputQ = <<>> /\ tagQ[0] = <<>>
        /\ inputQ = <<>> /\ sent = 0 /\ masterPc = "unstarted" /\ Hand = <<>>
        /\ ~endOfSequence /\ ~endOfImageRequested /\ runPc = "start"
    BY Markers DEF Init, Hand
  <2>2. <<>> \o <<>> = <<>> /\ Len(<<>>) = 0 /\ DOMAIN <<>> = {}
    OBVIOUS
  <2>3. Tags(<<>>) = <<>>
    BY <2>2 DEF Tags
  <2>4. Queued = <<>>
    BY <2>1, <2>2, <2>3 DEF Queued, Handed, Arrived, Answered, Given
  <2> QED BY <2>1, <2>2, <2>4 DEF OrderInv, Numbered
<1>4. AnswersInv /\ AnswersInv' /\ OrderInv /\ [Next]_vars => OrderInv'
  BY StepOrderInv DEF AnswersInv
<1>5. AnswersInv /\ ResultsInv /\ AnswersInv' /\ OrderInv /\ [Next]_vars
        => [Service!Next]_Service!vars
  BY StepService DEF AnswersInv
<1> QED BY <1>1, <1>2, <1>3, <1>4, <1>5, PTL DEF Spec, Service!Spec

=============================================================================
