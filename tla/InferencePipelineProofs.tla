---------------------- MODULE InferencePipelineProofs ----------------------
(***************************************************************************)
(* Theorems about InferencePipeline for every number of devices, batch     *)
(* size, pipe depth and number of images: type correctness, the exclusive  *)
(* ownership of the OpenCL buffers, and the labels the client is told.     *)
(***************************************************************************)
EXTENDS InferencePipeline, TLAPS

\* What the position of each thread says about the rest of its state is the part of
\* the inductive invariant that TypeOK needs; it goes with the types of the thread.
SessionInv ==
    /\ SessionTypeOK
    /\ runPc \in {"~tag", "~image", "~join", "~release"} => dev < GPUs
    /\ runPc \in LoopPcs \cup {"done", "~eos", "~joinMaster"} => dev = 0
    /\ runPc \in {"start", "setup", "results", "request", "receive"} => packet = <<>>
    /\ runPc = "take" => Len(packet) < Smaller(avail, ResultsPerPacket)
    /\ runPc = "takeLabels" => Len(packet) \in 1..Smaller(avail, ResultsPerPacket)
    /\ runPc = "reply" => Len(packet) \in 1..avail
    /\ runPc = "receive" => toReceive > 0 /\ sent + toReceive <= NumImages
MasterInv ==
    /\ MasterTypeOK
    /\ masterPc \in {"tag", "image"} => masterTag \in Images
CopyInv ==
    /\ CopyTypeOK
    /\ \A g \in Devices :
         /\ (copyMem[g] # Eos) <=> copyPc[g] \in {"image", "put"}
         /\ copyPc[g] = "image" => Len(copyBatch[g]) < BatchSize
         /\ copyPc[g] = "put" => Len(copyBatch[g]) <= BatchSize
         /\ copyPc[g] \notin {"image", "put"} => copyBatch[g] = <<>>
ProcInv ==
    /\ ProcTypeOK
    /\ \A g \in Devices :
         /\ (procIn[g] # Eos) <=> procPc[g] \in {"output", "process"}
         /\ (procOut[g] # Eos) <=> procPc[g] \in {"process", "emit"}
OutInv ==
    /\ OutTypeOK
    /\ \A g \in Devices :
         /\ (outMemHeld[g] # Eos) <=> outPc[g] \in {"tag", "labels", "return"}
         /\ outPc[g] = "tag" => outCount[g] < BatchSize

\* No thread runs, and no device is in use, before run() starts the threads.
SetupInv ==
    runPc \in {"start", "setup"} =>
        /\ masterPc = "unstarted"
        /\ \A g \in Devices : /\ copyPc[g] = "unstarted" /\ procPc[g] = "unstarted"
                              /\ outPc[g] = "unstarted"
                              /\ inBusy[g] = <<>> /\ outBusy[g] = <<>>

TypeInv == /\ SessionInv /\ QueueTypeOK /\ MemTypeOK
           /\ MasterInv /\ CopyInv /\ ProcInv /\ OutInv /\ SetupInv

----------------------------------------------------------------------------
(* The decoder threads never read beyond the batch.                        *)

\* CeilDiv is the rounded-up quotient.
LEMMA CeilDivBounds ==
    ASSUME NEW a \in Nat \ {0}, NEW b \in Nat \ {0}
    PROVE  /\ CeilDiv(a, b) \in Nat \ {0}
           /\ CeilDiv(a, b) * b >= a
           /\ (CeilDiv(a, b) - 1) * b < a
<1> DEFINE c == CeilDiv(a, b)
<1>1. c \in Int /\ c * b <= a + b - 1 /\ a + b - 1 < (c + 1) * b
  BY DEF CeilDiv
<1>2. (c + 1) * b = c * b + b /\ (c - 1) * b = c * b - b
  BY <1>1
<1>3. c * b > 0
  BY <1>1, <1>2
<1>4. c > 0
  BY <1>1, <1>3
<1> QED BY <1>1, <1>2, <1>4

\* The successor of a device is a device.
LEMMA NextDeviceType == \A g \in Devices : NextDevice(g) \in Devices
BY PipelineAssumption DEF NextDevice, Devices

\* With decoder threads, at least one thread and at most one per image.
LEMMA NumDecThreadsType ==
    DecThreads > 0 => NumDecThreads \in 1..BatchSize
BY PipelineAssumption DEF NumDecThreads, Smaller

\* The sub-batches of n images lie within these n images.
LEMMA DecodedSlotsInBatch ==
    ASSUME NEW n \in 0..BatchSize
    PROVE  DecodedSlots(n) \subseteq 1..n
<1>1. CASE n = 0 \/ DecThreads = 0
  BY <1>1 DEF DecodedSlots
<1>2. CASE n > 0 /\ DecThreads > 0
  <2>1. NumDecThreads \in 1..BatchSize
    BY <1>2, NumDecThreadsType
  <2> DEFINE sub == SubBatchSize(n)
             num == NumT(n)
  <2>2. sub \in Nat \ {0} /\ num \in Nat \ {0} /\ (num - 1) * sub < n
    <3>1. CASE n < BatchSize
      BY <3>1, <2>1, <1>2, CeilDivBounds DEF SubBatchSize, NumT
    <3>2. CASE n = BatchSize
      <4>1. sub = BatchSize \div NumDecThreads /\ num = NumDecThreads
        BY <3>2 DEF SubBatchSize, NumT
      <4>2. sub \in Nat \ {0} /\ NumDecThreads * sub <= BatchSize
        BY <4>1, <2>1, PipelineAssumption
      <4>3. (num - 1) * sub = num * sub - sub
        BY <4>1, <4>2, <2>1
      <4> QED BY <4>1, <4>2, <4>3, <2>1, <3>2
    <3> QED BY <3>1, <3>2, PipelineAssumption
  <2>3. ASSUME NEW t \in 0..(num - 1)
        PROVE  SubBatch(n, t) \subseteq 1..n
    <3>1. t * sub \in Nat /\ (t + 1) * sub = t * sub + sub
      BY <2>2
    <3>2. CASE t < num - 1
      <4>1. (t + 1) * sub <= (num - 1) * sub
        BY <2>2, <3>2
      <4> HIDE DEF sub, num
      <4>2. t * sub + sub <= n
        BY <4>1, <3>1, <2>2
      <4> QED BY <4>2, <3>1, <3>2, <2>2 DEF SubBatch, sub, num
    <3>3. CASE t = num - 1
      <4> HIDE DEF sub, num
      <4> QED BY <3>3, <3>1, <2>2, <1>2 DEF SubBatch, Smaller, sub, num
    <3> QED BY <3>2, <3>3, <2>2
  <2> QED BY <2>3, <1>2 DEF DecodedSlots
<1> QED BY <1>1, <1>2, PipelineAssumption

----------------------------------------------------------------------------
(* Type correctness.                                                       *)

\* The assumptions on the constants, one by one.
LEMMA ConstantTypes ==
    /\ GPUs \in Nat /\ GPUs > 0 /\ BatchSize \in Nat /\ BatchSize > 0
    /\ PipeDepth \in Nat /\ PipeDepth > 0
    /\ MaxInputQueue \in Nat /\ ImagesPerRequest \in Nat
    /\ ResultsPerPacket \in Nat /\ ResultsPerPacket > 0
    /\ DecThreads \in Nat /\ NumImages \in Nat /\ MaxDeviceQueue \in Nat
BY PipelineAssumption

\* A marker is neither an image nor a buffer; the first device is a device.
LEMMA Markers == Eos \notin Images /\ Eos \notin Buffers /\ 0 \in Devices
BY ConstantTypes DEF Eos, Images, Buffers, Devices

\* The smaller of two numbers.
LEMMA SmallerBounds ==
    \A a, b \in Int : /\ Smaller(a, b) \in {a, b}
                      /\ Smaller(a, b) <= a /\ Smaller(a, b) <= b
BY DEF Smaller

\* The invariant holds initially.
LEMMA InitTypeInv == Init => TypeInv
<1> SUFFICES ASSUME Init PROVE TypeInv
  OBVIOUS
<1>1. SessionInv
  <2>1. endOfSequence \in BOOLEAN /\ endOfImageRequested \in BOOLEAN
    BY DEF Init
  <2>2. results \in Seq(Answer) /\ packet \in Seq(Answer)
    BY DEF Init
  <2> QED BY <2>1, <2>2, ConstantTypes
          DEF Init, SessionInv, SessionTypeOK, LoopPcs, RunPcs
<1>2. QueueTypeOK
  BY DEF Init, QueueTypeOK
<1>3. MemTypeOK
  BY DEF Init, MemTypeOK, Tensors, Label, Blank
<1>4. MasterInv
  BY ConstantTypes, Markers DEF Init, MasterInv, MasterTypeOK, Tag
<1>5. CopyInv
  BY ConstantTypes DEF Init, CopyInv, CopyTypeOK, Handle
<1>6. ProcInv /\ OutInv
  BY ConstantTypes DEF Init, ProcInv, ProcTypeOK, OutInv, OutTypeOK, Handle, Label
<1>7. SetupInv
  BY DEF Init, SetupInv
<1> QED BY <1>1, <1>2, <1>3, <1>4, <1>5, <1>6, <1>7 DEF TypeInv

\* A part of the state that a step leaves alone keeps its part of the invariant.
LEMMA Frame ==
    /\ SessionInv /\ UNCHANGED sessionVars => SessionInv'
    /\ QueueTypeOK /\ UNCHANGED <<inputQ, resultQs, deviceQs>> => QueueTypeOK'
    /\ MemTypeOK /\ UNCHANGED <<memQs, mems>> => MemTypeOK'
    /\ MasterInv /\ UNCHANGED masterVars => MasterInv'
    /\ CopyInv /\ UNCHANGED copyVars => CopyInv'
    /\ ProcInv /\ UNCHANGED procVars => ProcInv'
    /\ OutInv /\ UNCHANGED outVars => OutInv'
<1>1. SessionInv /\ UNCHANGED sessionVars => SessionInv'
  BY DEF SessionInv, SessionTypeOK, sessionVars, clientVars, replyVars, requestVars, devVars
<1>2. QueueTypeOK /\ UNCHANGED <<inputQ, resultQs, deviceQs>> => QueueTypeOK'
  BY DEF QueueTypeOK, resultQs, deviceQs
<1>3. MemTypeOK /\ UNCHANGED <<memQs, mems>> => MemTypeOK'
  BY DEF MemTypeOK, memQs, mems
<1>4. MasterInv /\ UNCHANGED masterVars => MasterInv'
  BY DEF MasterInv, MasterTypeOK, masterVars
<1>5. CopyInv /\ UNCHANGED copyVars => CopyInv'
  BY DEF CopyInv, CopyTypeOK, copyVars
<1>6. ProcInv /\ UNCHANGED procVars => ProcInv'
  BY DEF ProcInv, ProcTypeOK, procVars
<1>7. OutInv /\ UNCHANGED outVars => OutInv'
  BY DEF OutInv, OutTypeOK, outVars
<1> QED BY <1>1, <1>2, <1>3, <1>4, <1>5, <1>6, <1>7

\* The session thread keeps the invariant.
LEMMA SessionTypeInv ==
    ASSUME TypeInv, Run \/ Destroy
    PROVE  TypeInv'
<1> USE DEF Put, Pop, At
<1>1. CASE CreateDevice
  <2>1. SessionInv'
    BY <1>1, ConstantTypes, Markers, SmallerBounds
       DEF TypeInv, CreateDevice, SessionInv, SessionTypeOK, LoopPcs, RunPcs,
           sessionVars, clientVars, replyVars, requestVars, devVars, Leave,
           NextIteration, Answers, Requested, Answer, Label
  <2>2. MemTypeOK'
    <3>1. created \in Devices
      BY <1>1, ConstantTypes DEF TypeInv, CreateDevice, SessionInv, SessionTypeOK, Devices
    <3>2. [i \in Buffers |-> i] \in Seq(Buffers)
      BY ConstantTypes DEF Buffers
    <3> QED BY <1>1, <3>1, <3>2 DEF TypeInv, CreateDevice, MemTypeOK, mems
  <2>3. SetupInv'
    BY <1>1
       DEF TypeInv, CreateDevice, SetupInv, sessionVars, Leave, NextIteration,
           AfterTake, memQs, masterVars, copyVars, procVars, outVars,
           deviceVars
  <2> QED BY <2>1, <2>2, <2>3, <1>1, Frame
     DEF TypeInv, CreateDevice, sessionVars, devVars, resultQs, deviceQs,
         memQs, mems, deviceVars
<1>2. CASE StartThreads
  <2>1. SessionInv'
    BY <1>2, ConstantTypes, Markers, SmallerBounds
       DEF TypeInv, StartThreads, SessionInv, SessionTypeOK, LoopPcs, RunPcs,
           sessionVars, clientVars, replyVars, requestVars, devVars, Leave,
           NextIteration, Answers, Requested, Answer, Label
  <2>2. MasterInv'
    BY <1>2, ConstantTypes, Markers
       DEF TypeInv, StartThreads, MasterInv, MasterTypeOK, Tag, masterVars
  <2>3. CopyInv'
    BY <1>2, ConstantTypes, Markers
       DEF TypeInv, StartThreads, CopyInv, CopyTypeOK, Handle, copyVars,
           SetupInv
  <2>4. ProcInv'
    BY <1>2, ConstantTypes, Markers
       DEF TypeInv, StartThreads, ProcInv, ProcTypeOK, Handle, procVars,
           SetupInv
  <2>5. OutInv'
    BY <1>2, ConstantTypes, Markers
       DEF TypeInv, StartThreads, OutInv, OutTypeOK, Handle, outVars, SetupInv
  <2>6. SetupInv'
    BY <1>2
       DEF TypeInv, StartThreads, SetupInv, sessionVars, Leave, NextIteration,
           AfterTake, memQs, masterVars, copyVars, procVars, outVars,
           deviceVars
  <2> QED BY <2>1, <2>2, <2>3, <2>4, <2>5, <2>6, <1>2, Frame
     DEF TypeInv, StartThreads, sessionVars, devVars, resultQs, deviceQs,
         memQs, mems, deviceVars
<1>3. CASE CountResults
  <2>1. SessionInv'
    BY <1>3, ConstantTypes, Markers, SmallerBounds
       DEF TypeInv, CountResults, SessionInv, SessionTypeOK, LoopPcs, RunPcs,
           sessionVars, clientVars, replyVars, requestVars, devVars, Leave,
           NextIteration, Answers, Requested, Answer, Label
  <2>2. SetupInv'
    BY <1>3
       DEF TypeInv, CountResults, SetupInv, sessionVars, Leave, NextIteration,
           AfterTake, memQs, masterVars, copyVars, procVars, outVars,
           deviceVars
  <2> QED BY <2>1, <2>2, <1>3, Frame
     DEF TypeInv, CountResults, sessionVars, devVars, resultQs, deviceQs,
         memQs, mems, deviceVars
<1>4. CASE TakeResult
  <2>1. SessionInv'
    <3> DEFINE r == Head(outputQ)
    <3>1. r \in Tag \X Label
      BY <1>4 DEF TypeInv, TakeResult, QueueTypeOK
    <3>2. CASE r[1] = Eos
      <4>1. endOfSequence' = TRUE /\ packet' = packet
            /\ runPc' = IF packet = <<>> THEN "request" ELSE "reply"
        BY <1>4, <3>2 DEF TakeResult
      <4>2. packet # <<>> => Len(packet) \in 1..avail
        BY <1>4, ConstantTypes, SmallerBounds DEF TypeInv, TakeResult, SessionInv, SessionTypeOK
      <4>3. SessionTypeOK'
        BY <1>4, <4>1 DEF TypeInv, TakeResult, SessionInv, SessionTypeOK, RunPcs, LoopPcs,
           clientVars, requestVars, devVars
      <4> QED BY <1>4, <4>1, <4>2, <4>3
              DEF TypeInv, TakeResult, SessionInv, LoopPcs, clientVars, requestVars, devVars
    <3>3. CASE r[1] # Eos
      <4>1. /\ packet' = Append(packet, r) /\ endOfSequence' = endOfSequence
            /\ runPc' \in {"takeLabels", AfterTake(packet')}
        BY <1>4, <3>3 DEF TakeResult
      <4>2. r \in Answer
        BY <3>1, <3>3 DEF Tag, Answer
      <4>3. packet' \in Seq(Answer) /\ Len(packet') = Len(packet) + 1
        BY <4>1, <4>2 DEF TypeInv, SessionInv, SessionTypeOK
      <4>4. Len(packet') \in 1..Smaller(avail, ResultsPerPacket) /\ avail \in Nat
        <5>1. packet \in Seq(Answer) /\ avail \in Nat
          BY DEF TypeInv, SessionInv, SessionTypeOK
        <5>2. Len(packet) < Smaller(avail, ResultsPerPacket)
          BY <1>4 DEF TypeInv, TakeResult, SessionInv
        <5>3. Smaller(avail, ResultsPerPacket) \in Int /\ Len(packet) \in Nat
          BY <5>1, ConstantTypes, SmallerBounds
        <5> QED BY <4>3, <5>1, <5>2, <5>3
      <4>5. /\ runPc' \in {"takeLabels", "take", "reply"}
            /\ runPc' = "take" => Len(packet') < Smaller(avail, ResultsPerPacket)
        BY <4>1, <4>4, ConstantTypes, SmallerBounds DEF AfterTake
      <4>6. Len(packet') \in 1..avail
        BY <4>4, ConstantTypes, SmallerBounds
      <4>7. SessionTypeOK'
        BY <1>4, <4>1, <4>3, <4>5 DEF TypeInv, TakeResult, SessionInv, SessionTypeOK, RunPcs,
           LoopPcs, clientVars, requestVars, devVars
      <4> QED BY <1>4, <4>4, <4>5, <4>6, <4>7
              DEF TypeInv, TakeResult, SessionInv, LoopPcs, clientVars, requestVars, devVars
    <3> QED BY <3>2, <3>3
  <2>2. QueueTypeOK'
    BY <1>4, ConstantTypes, Markers
       DEF TypeInv, TakeResult, QueueTypeOK, Tag, resultQs, deviceQs
  <2>3. SetupInv'
    BY <1>4
       DEF TypeInv, TakeResult, SetupInv, sessionVars, Leave, NextIteration,
           AfterTake, memQs, masterVars, copyVars, procVars, outVars,
           deviceVars
  <2> QED BY <2>1, <2>2, <2>3, <1>4, Frame
     DEF TypeInv, TakeResult, sessionVars, devVars, resultQs, deviceQs, memQs,
         mems, deviceVars
<1>5. CASE TakeLabels
  <2>1. SessionInv'
    <3>1. Head(outputX) \in Label /\ Len(packet) \in DOMAIN packet /\ avail \in Nat
      <4>1. Head(outputX) \in Label
        BY <1>5 DEF TypeInv, TakeLabels, QueueTypeOK
      <4>2. avail \in Nat /\ packet \in Seq(Answer)
        BY DEF TypeInv, SessionInv, SessionTypeOK
      <4>3. Len(packet) \in 1..Smaller(avail, ResultsPerPacket)
        BY <1>5 DEF TypeInv, TakeLabels, SessionInv
      <4> QED BY <4>1, <4>2, <4>3
    <3>2. packet[Len(packet)] \in Answer /\ packet \in Seq(Answer)
      BY <3>1 DEF TypeInv, SessionInv, SessionTypeOK
    <3>3. packet' \in Seq(Answer) /\ Len(packet') = Len(packet)
      BY <1>5, <3>1, <3>2 DEF TakeLabels, Answer
    <3>4. Len(packet) \in 1..Smaller(avail, ResultsPerPacket)
      BY <1>5 DEF TypeInv, TakeLabels, SessionInv
    <3>5. /\ runPc' \in {"take", "reply"}
          /\ runPc' = "take" => Len(packet') < Smaller(avail, ResultsPerPacket)
      BY <1>5, <3>1, <3>3, <3>4, ConstantTypes, SmallerBounds DEF TakeLabels, AfterTake
    <3>6. Len(packet') \in 1..avail
      BY <3>1, <3>3, <3>4, ConstantTypes, SmallerBounds
    <3>7. SessionTypeOK'
      BY <1>5, <3>3, <3>5 DEF TypeInv, TakeLabels, SessionInv, SessionTypeOK, RunPcs, LoopPcs,
         clientVars, requestVars, devVars
    <3> QED BY <1>5, <3>5, <3>6, <3>7
            DEF TypeInv, TakeLabels, SessionInv, LoopPcs, clientVars, requestVars, devVars
  <2>2. QueueTypeOK'
    <3>1. outputX' \in Seq(Label)
      BY <1>5 DEF TypeInv, TakeLabels, QueueTypeOK
    <3> QED BY <1>5, <3>1 DEF TypeInv, TakeLabels, QueueTypeOK, deviceQs
  <2>3. SetupInv'
    BY <1>5
       DEF TypeInv, TakeLabels, SetupInv, sessionVars, Leave, NextIteration,
           AfterTake, memQs, masterVars, copyVars, procVars, outVars,
           deviceVars
  <2> QED BY <2>1, <2>2, <2>3, <1>5, Frame
     DEF TypeInv, TakeLabels, sessionVars, devVars, resultQs, deviceQs, memQs,
         mems, deviceVars
<1>6. CASE SendReply
  <2>1. SessionInv'
    <3>1. Len(packet) \in 1..avail /\ avail \in Nat
      BY <1>6 DEF TypeInv, SendReply, SessionInv, SessionTypeOK
    <3>2. results \o packet \in Seq(Answer)
      BY DEF TypeInv, SessionInv, SessionTypeOK
    <3>3. CASE /\ results' = results \o packet /\ packet' = <<>>
               /\ avail' = avail - Len(packet)
               /\ runPc' = IF avail' > 0 /\ ~endOfSequence THEN "take" ELSE "request"
      <4>1. avail' \in Nat /\ Len(packet') = 0 /\ packet' \in Seq(Answer)
        BY <3>1, <3>3
      <4>2. runPc' = "take" => Len(packet') < Smaller(avail', ResultsPerPacket)
        BY <3>3, <4>1, ConstantTypes, SmallerBounds
      <4>3. SessionTypeOK'
        BY <1>6, <3>2, <3>3, <4>1 DEF TypeInv, SendReply, SessionInv, SessionTypeOK, RunPcs,
           LoopPcs, requestVars, devVars
      <4> QED BY <1>6, <3>3, <4>2, <4>3
              DEF TypeInv, SendReply, SessionInv, LoopPcs, requestVars, devVars
    <3>4. CASE Leave /\ UNCHANGED <<results, packet, avail>>
      BY <1>6, <3>4 DEF TypeInv, SendReply, Leave, SessionInv, SessionTypeOK, RunPcs, LoopPcs,
         requestVars, devVars
    <3> QED BY <1>6, <3>3, <3>4 DEF SendReply
  <2>2. SetupInv'
    BY <1>6
       DEF TypeInv, SendReply, SetupInv, sessionVars, Leave, NextIteration,
           AfterTake, memQs, masterVars, copyVars, procVars, outVars,
           deviceVars
  <2> QED BY <2>1, <2>2, <1>6, Frame
     DEF TypeInv, SendReply, sessionVars, devVars, resultQs, deviceQs, memQs,
         mems, deviceVars
<1>7. CASE RequestImages
  <2>1. SessionInv'
    <3>1. UNCHANGED <<sent, results, avail, packet, endOfSequence, created, dev>>
      BY <1>7 DEF RequestImages, clientVars, replyVars, devVars
    <3>2. /\ toReceive' \in Nat /\ endOfImageRequested' \in BOOLEAN
          /\ runPc' \in {"results", "done", "receive", "~eos"}
          /\ runPc' = "receive" => toReceive' > 0 /\ sent + toReceive' <= NumImages
      <4>1. CASE runPc' = NextIteration /\ UNCHANGED <<requestVars, inputQ>>
        BY <4>1 DEF NextIteration, requestVars, TypeInv, SessionInv, SessionTypeOK
      <4>2. CASE Leave /\ UNCHANGED <<requestVars, inputQ>>
        BY <4>2 DEF Leave, requestVars, TypeInv, SessionInv, SessionTypeOK
      <4>3. ASSUME NEW count \in Answers(Requested),
                   toReceive' = IF count < 0 THEN 0 ELSE count,
                   endOfImageRequested' = (count < 0),
                   runPc' = IF count > 0 THEN "receive" ELSE NextIteration
            PROVE  /\ toReceive' \in Nat /\ endOfImageRequested' \in BOOLEAN
                   /\ runPc' \in {"results", "done", "receive", "~eos"}
                   /\ runPc' = "receive" => toReceive' > 0 /\ sent + toReceive' <= NumImages
        <5>1. sent \in 0..NumImages /\ Requested \in Int
          BY ConstantTypes, SmallerBounds
             DEF TypeInv, SessionInv, SessionTypeOK, QueueTypeOK, Requested
        <5>2. count \in Int /\ count <= NumImages - sent
          BY <4>3, <5>1, ConstantTypes, SmallerBounds DEF Answers
        <5>3. count < 0 \/ count \in Nat
          BY <5>2
        <5>4. toReceive' \in Nat /\ (count > 0 => toReceive' = count)
          BY <4>3, <5>2
        <5>5. endOfImageRequested' \in BOOLEAN
          BY <4>3
        <5>6. runPc' \in {"results", "done", "receive"} /\ (runPc' = "receive" => count > 0)
          BY <4>3 DEF NextIteration
        <5>7. runPc' = "receive" => toReceive' > 0 /\ sent + toReceive' <= NumImages
          BY <5>1, <5>2, <5>4, <5>6, ConstantTypes
        <5> QED BY <5>4, <5>5, <5>6, <5>7
      <4> QED BY <1>7, <4>1, <4>2, <4>3 DEF RequestImages
    <3>3. runPc = "request"
      BY <1>7 DEF RequestImages
    <3>4. SessionTypeOK'
      BY <3>1, <3>2 DEF TypeInv, SessionInv, SessionTypeOK, RunPcs, LoopPcs
    <3> QED BY <3>1, <3>2, <3>3, <3>4 DEF TypeInv, SessionInv, LoopPcs
  <2>2. QueueTypeOK'
    <3>1. Append(inputQ, Eos) \in Seq(Tag)
      BY DEF TypeInv, QueueTypeOK, Tag
    <3>2. inputQ' \in {inputQ, Append(inputQ, Eos)}
      BY <1>7 DEF RequestImages
    <3> QED BY <1>7, <3>1, <3>2 DEF TypeInv, RequestImages, QueueTypeOK, resultQs, deviceQs
  <2>3. SetupInv'
    BY <1>7
       DEF TypeInv, RequestImages, SetupInv, sessionVars, Leave,
           NextIteration, AfterTake, memQs, masterVars, copyVars, procVars,
           outVars, deviceVars
  <2> QED BY <2>1, <2>2, <2>3, <1>7, Frame
     DEF TypeInv, RequestImages, sessionVars, devVars, resultQs, deviceQs,
         memQs, mems, deviceVars
<1>8. CASE ReceiveImage
  <2>1. SessionInv'
    BY <1>8, ConstantTypes, Markers, SmallerBounds
       DEF TypeInv, ReceiveImage, SessionInv, SessionTypeOK, LoopPcs, RunPcs,
           sessionVars, clientVars, replyVars, requestVars, devVars, Leave,
           NextIteration, Answers, Requested, Answer, Label
  <2>2. QueueTypeOK'
    <3>1. sent + 1 \in Tag
      BY <1>8, ConstantTypes
         DEF TypeInv, ReceiveImage, SessionInv, SessionTypeOK, Tag, Images
    <3>2. inputQ' \in {inputQ, Append(inputQ, sent + 1)}
      BY <1>8 DEF ReceiveImage
    <3>3. inputQ' \in Seq(Tag)
      BY <3>1, <3>2 DEF TypeInv, QueueTypeOK
    <3>4. UNCHANGED <<outputQ, outputX, tagQ, imageQ>>
      BY <1>8 DEF ReceiveImage, resultQs, deviceQs
    <3> QED BY <3>3, <3>4 DEF TypeInv, QueueTypeOK
  <2>3. SetupInv'
    BY <1>8
       DEF TypeInv, ReceiveImage, SetupInv, sessionVars, Leave, NextIteration,
           AfterTake, memQs, masterVars, copyVars, procVars, outVars,
           deviceVars
  <2> QED BY <2>1, <2>2, <2>3, <1>8, Frame
     DEF TypeInv, ReceiveImage, sessionVars, devVars, resultQs, deviceQs,
         memQs, mems, deviceVars
<1>9. CASE ExchangeDone
  <2>1. SessionInv'
    BY <1>9, ConstantTypes, Markers
       DEF TypeInv, ExchangeDone, SessionInv, SessionTypeOK, LoopPcs, RunPcs,
           sessionVars, clientVars, replyVars, requestVars, devVars
  <2>2. SetupInv'
    BY <1>9
       DEF TypeInv, ExchangeDone, SetupInv, sessionVars, Leave, NextIteration,
           AfterTake, memQs, masterVars, copyVars, procVars, outVars,
           deviceVars
  <2> QED BY <2>1, <2>2, <1>9, Frame
     DEF TypeInv, ExchangeDone, sessionVars, devVars, resultQs, deviceQs,
         memQs, mems, deviceVars
<1>10. CASE DestroyEos
  <2>1. SessionInv'
    BY <1>10, ConstantTypes, Markers
       DEF TypeInv, DestroyEos, SessionInv, SessionTypeOK, LoopPcs, RunPcs,
           sessionVars, clientVars, replyVars, requestVars, devVars
  <2>2. QueueTypeOK'
    BY <1>10, ConstantTypes, Markers
       DEF TypeInv, DestroyEos, QueueTypeOK, Tag, resultQs, deviceQs
  <2>3. SetupInv'
    BY <1>10
       DEF TypeInv, DestroyEos, SetupInv, sessionVars, Leave, NextIteration,
           AfterTake, memQs, masterVars, copyVars, procVars, outVars,
           deviceVars
  <2> QED BY <2>1, <2>2, <2>3, <1>10, Frame
     DEF TypeInv, DestroyEos, sessionVars, devVars, resultQs, deviceQs, memQs,
         mems, deviceVars
<1>11. CASE JoinMaster
  <2>1. SessionInv'
    BY <1>11, ConstantTypes, Markers
       DEF TypeInv, JoinMaster, SessionInv, SessionTypeOK, LoopPcs, RunPcs,
           sessionVars, clientVars, replyVars, requestVars, devVars
  <2>2. SetupInv'
    BY <1>11
       DEF TypeInv, JoinMaster, SetupInv, sessionVars, Leave, NextIteration,
           AfterTake, memQs, masterVars, copyVars, procVars, outVars,
           deviceVars
  <2> QED BY <2>1, <2>2, <1>11, Frame
     DEF TypeInv, JoinMaster, sessionVars, devVars, resultQs, deviceQs, memQs,
         mems, deviceVars
<1>12. CASE DestroyTag
  <2>1. SessionInv'
    BY <1>12, ConstantTypes, Markers
       DEF TypeInv, DestroyTag, SessionInv, SessionTypeOK, LoopPcs, RunPcs,
           sessionVars, clientVars, replyVars, requestVars, devVars
  <2>2. QueueTypeOK'
    <3>1. dev \in Devices
      BY <1>12, ConstantTypes DEF TypeInv, DestroyTag, SessionInv, SessionTypeOK, Devices
    <3>2. Eos \in Tag
      BY DEF Tag
    <3>3. tagQ' = tagQ \/ tagQ' = [tagQ EXCEPT ![dev] = Append(@, Eos)]
      BY <1>12 DEF DestroyTag
    <3>4. tagQ' \in [Devices -> Seq(Tag)]
      <4>1. tagQ \in [Devices -> Seq(Tag)]
        BY DEF TypeInv, QueueTypeOK
      <4>2. Append(tagQ[dev], Eos) \in Seq(Tag)
        BY <3>1, <3>2, <4>1
      <4> QED BY <3>1, <3>3, <4>1, <4>2
    <3>5. UNCHANGED <<inputQ, outputQ, outputX, imageQ>>
      BY <1>12 DEF DestroyTag, resultQs
    <3> QED BY <3>4, <3>5 DEF TypeInv, QueueTypeOK
  <2>3. SetupInv'
    BY <1>12
       DEF TypeInv, DestroyTag, SetupInv, sessionVars, Leave, NextIteration,
           AfterTake, memQs, masterVars, copyVars, procVars, outVars,
           deviceVars
  <2> QED BY <2>1, <2>2, <2>3, <1>12, Frame
     DEF TypeInv, DestroyTag, sessionVars, devVars, resultQs, deviceQs, memQs,
         mems, deviceVars
<1>13. CASE DestroyImage
  <2>1. SessionInv'
    BY <1>13, ConstantTypes, Markers
       DEF TypeInv, DestroyImage, SessionInv, SessionTypeOK, LoopPcs, RunPcs,
           sessionVars, clientVars, replyVars, requestVars, devVars
  <2>2. QueueTypeOK'
    <3>1. dev \in Devices
      BY <1>13, ConstantTypes DEF TypeInv, DestroyImage, SessionInv, SessionTypeOK, Devices
    <3>2. Eos \in Tag
      BY DEF Tag
    <3>3. imageQ' = imageQ \/ imageQ' = [imageQ EXCEPT ![dev] = Append(@, Eos)]
      BY <1>13 DEF DestroyImage
    <3>4. imageQ' \in [Devices -> Seq(Tag)]
      <4>1. imageQ \in [Devices -> Seq(Tag)]
        BY DEF TypeInv, QueueTypeOK
      <4>2. Append(imageQ[dev], Eos) \in Seq(Tag)
        BY <3>1, <3>2, <4>1
      <4> QED BY <3>1, <3>3, <4>1, <4>2
    <3>5. UNCHANGED <<inputQ, outputQ, outputX, tagQ>>
      BY <1>13 DEF DestroyImage, resultQs
    <3> QED BY <3>4, <3>5 DEF TypeInv, QueueTypeOK
  <2>3. SetupInv'
    BY <1>13
       DEF TypeInv, DestroyImage, SetupInv, sessionVars, Leave, NextIteration,
           AfterTake, memQs, masterVars, copyVars, procVars, outVars,
           deviceVars
  <2> QED BY <2>1, <2>2, <2>3, <1>13, Frame
     DEF TypeInv, DestroyImage, sessionVars, devVars, resultQs, deviceQs,
         memQs, mems, deviceVars
<1>14. CASE JoinDevice
  <2>1. SessionInv'
    BY <1>14, ConstantTypes, Markers
       DEF TypeInv, JoinDevice, SessionInv, SessionTypeOK, LoopPcs, RunPcs,
           sessionVars, clientVars, replyVars, requestVars, devVars
  <2>2. SetupInv'
    BY <1>14
       DEF TypeInv, JoinDevice, SetupInv, sessionVars, Leave, NextIteration,
           AfterTake, memQs, masterVars, copyVars, procVars, outVars,
           deviceVars
  <2> QED BY <2>1, <2>2, <1>14, Frame
     DEF TypeInv, JoinDevice, sessionVars, devVars, resultQs, deviceQs, memQs,
         mems, deviceVars
<1>15. CASE ReleaseDevice
  <2>1. SessionInv'
    BY <1>15, ConstantTypes, Markers
       DEF TypeInv, ReleaseDevice, SessionInv, SessionTypeOK, LoopPcs, RunPcs,
           sessionVars, clientVars, replyVars, requestVars, devVars
  <2>2. QueueTypeOK'
    BY <1>15, ConstantTypes, Markers
       DEF TypeInv, ReleaseDevice, QueueTypeOK, Tag, resultQs, deviceQs,
           SessionInv, SessionTypeOK, Devices
  <2>3. MemTypeOK'
    <3>1. dev \in Devices
      BY <1>15, ConstantTypes DEF TypeInv, ReleaseDevice, SessionInv, SessionTypeOK, Devices
    <3> QED BY <1>15, <3>1 DEF TypeInv, ReleaseDevice, MemTypeOK, mems
  <2>4. SetupInv'
    BY <1>15
       DEF TypeInv, ReleaseDevice, SetupInv, sessionVars, Leave,
           NextIteration, AfterTake, memQs, masterVars, copyVars, procVars,
           outVars, deviceVars
  <2> QED BY <2>1, <2>2, <2>3, <2>4, <1>15, Frame
     DEF TypeInv, ReleaseDevice, sessionVars, devVars, resultQs, deviceQs,
         memQs, mems, deviceVars
<1>16. CASE HandleRequest
  <2>1. SessionInv'
    BY <1>16, ConstantTypes, Markers
       DEF TypeInv, HandleRequest, SessionInv, SessionTypeOK, LoopPcs, RunPcs,
           clientVars, replyVars, requestVars, devVars
  <2>2. SetupInv'
    BY <1>16
       DEF TypeInv, HandleRequest, SetupInv, memQs, masterVars, copyVars,
           procVars, outVars, deviceVars
  <2> QED BY <2>1, <2>2, <1>16, Frame
     DEF TypeInv, HandleRequest, sessionVars, devVars, resultQs, deviceQs, memQs,
         mems, deviceVars
<1> QED BY <1>1, <1>2, <1>3, <1>4, <1>5, <1>6, <1>7, <1>8, <1>9, <1>10, <1>11,
   <1>12, <1>13, <1>14, <1>15, <1>16
   DEF Run, Destroy

\* The master thread keeps the invariant.
LEMMA MasterTypeInv ==
    ASSUME TypeInv, Master
    PROVE  TypeInv'
<1> USE DEF Put, Pop, At
<1>1. CASE MasterNext
  <2>1. QueueTypeOK'
    BY <1>1, ConstantTypes, Markers
       DEF TypeInv, MasterNext, MasterInv, MasterTypeOK, QueueTypeOK, Tag,
           resultQs, deviceQs
  <2>2. MasterInv'
    BY <1>1, ConstantTypes, Markers, NextDeviceType
       DEF TypeInv, MasterNext, MasterInv, MasterTypeOK, Tag, masterVars,
           QueueTypeOK
  <2>3. SetupInv'
    BY <1>1
       DEF TypeInv, MasterNext, SetupInv, sessionVars
  <2> QED BY <2>1, <2>2, <2>3, <1>1, Frame
     DEF TypeInv, MasterNext, sessionVars, devVars, resultQs, deviceQs, memQs,
         mems, deviceVars
<1>2. CASE MasterTag
  <2>1. QueueTypeOK'
    BY <1>2, ConstantTypes, Markers
       DEF TypeInv, MasterTag, MasterInv, MasterTypeOK, QueueTypeOK, Tag,
           resultQs, deviceQs
  <2>2. MasterInv'
    BY <1>2, ConstantTypes, Markers, NextDeviceType
       DEF TypeInv, MasterTag, MasterInv, MasterTypeOK, Tag, masterVars,
           QueueTypeOK
  <2>3. SetupInv'
    BY <1>2
       DEF TypeInv, MasterTag, SetupInv, sessionVars
  <2> QED BY <2>1, <2>2, <2>3, <1>2, Frame
     DEF TypeInv, MasterTag, sessionVars, devVars, resultQs, deviceQs, memQs,
         mems, deviceVars
<1>3. CASE MasterImage
  <2>1. QueueTypeOK'
    BY <1>3, ConstantTypes, Markers
       DEF TypeInv, MasterImage, MasterInv, MasterTypeOK, QueueTypeOK, Tag,
           resultQs, deviceQs
  <2>2. MasterInv'
    BY <1>3, ConstantTypes, Markers, NextDeviceType
       DEF TypeInv, MasterImage, MasterInv, MasterTypeOK, Tag, masterVars,
           QueueTypeOK
  <2>3. SetupInv'
    BY <1>3
       DEF TypeInv, MasterImage, SetupInv, sessionVars
  <2> QED BY <2>1, <2>2, <2>3, <1>3, Frame
     DEF TypeInv, MasterImage, sessionVars, devVars, resultQs, deviceQs,
         memQs, mems, deviceVars
<1>4. CASE MasterPick
  <2>1. MasterInv'
    BY <1>4, ConstantTypes, Markers, NextDeviceType
       DEF TypeInv, MasterPick, MasterInv, MasterTypeOK, Tag, masterVars,
           QueueTypeOK
  <2>2. SetupInv'
    BY <1>4
       DEF TypeInv, MasterPick, SetupInv, sessionVars
  <2> QED BY <2>1, <2>2, <1>4, Frame
     DEF TypeInv, MasterPick, sessionVars, devVars, resultQs, deviceQs, memQs,
         mems, deviceVars
<1>5. CASE MasterEosTag
  <2>1. QueueTypeOK'
    BY <1>5, ConstantTypes, Markers
       DEF TypeInv, MasterEosTag, MasterInv, MasterTypeOK, QueueTypeOK, Tag,
           resultQs, deviceQs
  <2>2. MasterInv'
    BY <1>5, ConstantTypes, Markers, NextDeviceType
       DEF TypeInv, MasterEosTag, MasterInv, MasterTypeOK, Tag, masterVars,
           QueueTypeOK
  <2>3. SetupInv'
    BY <1>5
       DEF TypeInv, MasterEosTag, SetupInv, sessionVars
  <2> QED BY <2>1, <2>2, <2>3, <1>5, Frame
     DEF TypeInv, MasterEosTag, sessionVars, devVars, resultQs, deviceQs,
         memQs, mems, deviceVars
<1>6. CASE MasterEosImage
  <2>1. QueueTypeOK'
    BY <1>6, ConstantTypes, Markers
       DEF TypeInv, MasterEosImage, MasterInv, MasterTypeOK, QueueTypeOK, Tag,
           resultQs, deviceQs
  <2>2. MasterInv'
    BY <1>6, ConstantTypes, Markers, NextDeviceType
       DEF TypeInv, MasterEosImage, MasterInv, MasterTypeOK, Tag, masterVars,
           QueueTypeOK
  <2>3. SetupInv'
    BY <1>6
       DEF TypeInv, MasterEosImage, SetupInv, sessionVars
  <2> QED BY <2>1, <2>2, <2>3, <1>6, Frame
     DEF TypeInv, MasterEosImage, sessionVars, devVars, resultQs, deviceQs,
         memQs, mems, deviceVars
<1> QED BY <1>1, <1>2, <1>3, <1>4, <1>5, <1>6
   DEF Master

\* The input copy thread keeps the invariant.
LEMMA InputCopyTypeInv ==
    ASSUME TypeInv, NEW g \in Devices, InputCopy(g)
    PROVE  TypeInv'
<1> USE DEF Put, Pop, At
<1>1. CASE CopyTakeMem(g)
  <2>1. MemTypeOK'
    BY <1>1, ConstantTypes, Markers
       DEF TypeInv, CopyTakeMem, CopyInv, CopyTypeOK, Handle, MemTypeOK,
           memQs, mems
  <2>2. CopyInv'
    <3>1. Head(inIdle[g]) \in Buffers
      BY <1>1 DEF TypeInv, CopyTakeMem, MemTypeOK
    <3>2. Head(inIdle[g]) \in Handle /\ Head(inIdle[g]) # Eos
      BY <3>1, Markers DEF Handle
    <3>3. /\ copyMem' = [copyMem EXCEPT ![g] = Head(inIdle[g])]
          /\ copyPc' = [copyPc EXCEPT ![g] = "image"] /\ copyPc[g] = "mem"
          /\ UNCHANGED <<copyBatch, copyEos>>
      BY <1>1 DEF CopyTakeMem
    <3> QED BY <3>2, <3>3, ConstantTypes DEF TypeInv, CopyInv, CopyTypeOK
  <2>3. SetupInv'
    BY <1>1
       DEF TypeInv, CopyTakeMem, SetupInv, sessionVars
  <2> QED BY <2>1, <2>2, <2>3, <1>1, Frame
     DEF TypeInv, CopyTakeMem, sessionVars, devVars, resultQs, deviceQs,
         memQs, mems, deviceVars
<1>2. CASE CopyTakeImage(g)
  <2>1. QueueTypeOK'
    BY <1>2, ConstantTypes, Markers
       DEF TypeInv, CopyTakeImage, CopyInv, CopyTypeOK, Handle, QueueTypeOK,
           Tag, resultQs, deviceQs
  <2>2. CopyInv'
    <3>1. Head(imageQ[g]) \in Tag /\ copyMem[g] # Eos /\ copyBatch[g] \in Seq(Images)
          /\ Len(copyBatch[g]) < BatchSize
      BY <1>2 DEF TypeInv, CopyTakeImage, QueueTypeOK, CopyInv, CopyTypeOK
    <3>2. CASE Head(imageQ[g]) = Eos
      <4>1. /\ copyEos' = [copyEos EXCEPT ![g] = TRUE] /\ copyPc' = [copyPc EXCEPT ![g] = "put"]
            /\ copyBatch' = copyBatch /\ copyMem' = copyMem
        BY <1>2, <3>2 DEF CopyTakeImage
      <4>2. CopyTypeOK'
        BY <4>1 DEF TypeInv, CopyInv, CopyTypeOK
      <4>3. Len(copyBatch[g]) <= BatchSize
        BY <3>1, ConstantTypes
      <4>4. ASSUME NEW h \in Devices
            PROVE  /\ (copyMem'[h] # Eos) <=> copyPc'[h] \in {"image", "put"}
                   /\ copyPc'[h] = "image" => Len(copyBatch'[h]) < BatchSize
                   /\ copyPc'[h] = "put" => Len(copyBatch'[h]) <= BatchSize
                   /\ copyPc'[h] \notin {"image", "put"} => copyBatch'[h] = <<>>
        <5>1. CASE h # g
          BY <5>1, <4>1 DEF TypeInv, CopyInv, CopyTypeOK
        <5>2. CASE h = g
          BY <5>2, <3>1, <4>1, <4>3 DEF TypeInv, CopyInv, CopyTypeOK
        <5> QED BY <5>1, <5>2
      <4> QED BY <4>2, <4>4 DEF CopyInv
    <3>3. CASE Head(imageQ[g]) # Eos
      <4>1. Head(imageQ[g]) \in Images
        BY <3>1, <3>3 DEF Tag
      <4>2. /\ Append(copyBatch[g], Head(imageQ[g])) \in Seq(Images)
            /\ Len(Append(copyBatch[g], Head(imageQ[g]))) = Len(copyBatch[g]) + 1
        BY <3>1, <4>1
      <4>3. /\ copyBatch' = [copyBatch EXCEPT ![g] = Append(@, Head(imageQ[g]))]
            /\ copyPc' = IF Len(copyBatch[g]) + 1 = BatchSize
                         THEN [copyPc EXCEPT ![g] = "put"] ELSE copyPc
            /\ copyEos' = copyEos /\ copyMem' = copyMem /\ copyPc[g] = "image"
        BY <1>2, <3>3 DEF CopyTakeImage
      <4>4. Len(copyBatch[g]) \in Nat /\ Len(copyBatch[g]) + 1 <= BatchSize
        BY <3>1, ConstantTypes
      <4>5. CopyTypeOK'
        BY <4>2, <4>3 DEF TypeInv, CopyInv, CopyTypeOK
      <4>6. ASSUME NEW h \in Devices
            PROVE  /\ (copyMem'[h] # Eos) <=> copyPc'[h] \in {"image", "put"}
                   /\ copyPc'[h] = "image" => Len(copyBatch'[h]) < BatchSize
                   /\ copyPc'[h] = "put" => Len(copyBatch'[h]) <= BatchSize
                   /\ copyPc'[h] \notin {"image", "put"} => copyBatch'[h] = <<>>
        <5>1. CASE h # g
          BY <5>1, <4>3 DEF TypeInv, CopyInv, CopyTypeOK
        <5>2. CASE h = g
          BY <5>2, <3>1, <4>2, <4>3, <4>4, ConstantTypes DEF TypeInv, CopyInv, CopyTypeOK
        <5> QED BY <5>1, <5>2
      <4> QED BY <4>5, <4>6 DEF CopyInv
    <3> QED BY <3>2, <3>3
  <2>3. SetupInv'
    BY <1>2
       DEF TypeInv, CopyTakeImage, SetupInv, sessionVars
  <2> QED BY <2>1, <2>2, <2>3, <1>2, Frame
     DEF TypeInv, CopyTakeImage, sessionVars, devVars, resultQs, deviceQs,
         memQs, mems, deviceVars
<1>3. CASE CopyPut(g)
  <2>1. MemTypeOK'
    <3> DEFINE b == copyMem[g]
               n == Len(copyBatch[g])
    <3>1. b \in Buffers /\ n \in 0..BatchSize /\ copyBatch[g] \in Seq(Images)
      BY <1>3, ConstantTypes DEF TypeInv, CopyPut, PassBuffer, CopyInv, CopyTypeOK, Handle
    <3>2. DecodedSlots(n) \subseteq 1..n
      BY <3>1, DecodedSlotsInBatch
    <3>3. inMem \in Tensors
      BY DEF TypeInv, MemTypeOK
    <3>4. [s \in Slots |-> IF s \in DecodedSlots(n) THEN copyBatch[g][s] ELSE inMem[g][b][s]]
             \in [Slots -> Label]
      BY <3>1, <3>2, <3>3 DEF Tensors, Label
    <3>5. inMem' \in Tensors
      BY <1>3, <3>1, <3>3, <3>4 DEF CopyPut, PassBuffer, Tensors
    <3>6. CASE n > 0
      <4>1. inBusy' = [inBusy EXCEPT ![g] = Append(@, b)] /\ inIdle' = inIdle
        BY <1>3, <3>6 DEF CopyPut, PassBuffer
      <4>2. inBusy' \in [Devices -> Seq(Handle)]
        BY <3>1, <4>1 DEF TypeInv, MemTypeOK, Handle
      <4> QED BY <1>3, <3>5, <4>1, <4>2 DEF TypeInv, CopyPut, PassBuffer, MemTypeOK
    <3>7. CASE ~(n > 0)
      <4>1. inIdle' = [inIdle EXCEPT ![g] = Append(@, b)] /\ inBusy' = inBusy
        BY <1>3, <3>7 DEF CopyPut, PassBuffer
      <4>2. inIdle' \in [Devices -> Seq(Buffers)]
        BY <3>1, <4>1 DEF TypeInv, MemTypeOK
      <4> QED BY <1>3, <3>5, <4>1, <4>2 DEF TypeInv, CopyPut, PassBuffer, MemTypeOK
    <3> QED BY <3>6, <3>7
  <2>2. CopyInv'
    <3>1. CopyTypeOK'
      BY <1>3 DEF TypeInv, CopyPut, PassBuffer, CopyInv, CopyTypeOK, Handle
    <3>2. ASSUME NEW h \in Devices
          PROVE  /\ (copyMem'[h] # Eos) <=> copyPc'[h] \in {"image", "put"}
                 /\ copyPc'[h] = "image" => Len(copyBatch'[h]) < BatchSize
                 /\ copyPc'[h] = "put" => Len(copyBatch'[h]) <= BatchSize
                 /\ copyPc'[h] \notin {"image", "put"} => copyBatch'[h] = <<>>
      <4>1. CASE h # g
        BY <1>3, <4>1 DEF TypeInv, CopyPut, PassBuffer, CopyInv, CopyTypeOK
      <4>2. CASE h = g
        BY <1>3, <4>2 DEF TypeInv, CopyPut, PassBuffer, CopyInv, CopyTypeOK
      <4> QED BY <4>1, <4>2
    <3> QED BY <3>1, <3>2 DEF CopyInv
  <2>3. SetupInv'
    BY <1>3
       DEF TypeInv, CopyPut, PassBuffer, SetupInv, sessionVars
  <2> QED BY <2>1, <2>2, <2>3, <1>3, Frame
     DEF TypeInv, CopyPut, PassBuffer, sessionVars, devVars, resultQs, deviceQs, memQs,
         mems, deviceVars
<1>4. CASE CopyEos(g)
  <2>1. MemTypeOK'
    BY <1>4, ConstantTypes, Markers
       DEF TypeInv, CopyEos, CopyInv, CopyTypeOK, Handle, MemTypeOK, memQs,
           mems
  <2>2. CopyInv'
    BY <1>4, ConstantTypes, Markers
       DEF TypeInv, CopyEos, CopyInv, CopyTypeOK, Handle, copyVars
  <2>3. SetupInv'
    BY <1>4
       DEF TypeInv, CopyEos, SetupInv, sessionVars
  <2> QED BY <2>1, <2>2, <2>3, <1>4, Frame
     DEF TypeInv, CopyEos, sessionVars, devVars, resultQs, deviceQs, memQs,
         mems, deviceVars
<1> QED BY <1>1, <1>2, <1>3, <1>4
   DEF InputCopy

\* The process thread keeps the invariant.
LEMMA ProcessTypeInv ==
    ASSUME TypeInv, NEW g \in Devices, Process(g)
    PROVE  TypeInv'
<1> USE DEF Put, Pop, At
<1>1. CASE ProcTakeInput(g)
  <2>1. MemTypeOK'
    BY <1>1, ConstantTypes, Markers
       DEF TypeInv, ProcTakeInput, ProcInv, ProcTypeOK, Handle, MemTypeOK,
           memQs, mems
  <2>2. ProcInv'
    BY <1>1, ConstantTypes, Markers
       DEF TypeInv, ProcTakeInput, ProcInv, ProcTypeOK, Handle, procVars,
           MemTypeOK
  <2>3. SetupInv'
    BY <1>1
       DEF TypeInv, ProcTakeInput, SetupInv, sessionVars
  <2> QED BY <2>1, <2>2, <2>3, <1>1, Frame
     DEF TypeInv, ProcTakeInput, sessionVars, devVars, resultQs, deviceQs,
         memQs, mems, deviceVars
<1>2. CASE ProcTakeOutput(g)
  <2>1. MemTypeOK'
    BY <1>2, ConstantTypes, Markers
       DEF TypeInv, ProcTakeOutput, ProcInv, ProcTypeOK, Handle, MemTypeOK,
           memQs, mems
  <2>2. ProcInv'
    BY <1>2, ConstantTypes, Markers
       DEF TypeInv, ProcTakeOutput, ProcInv, ProcTypeOK, Handle, procVars,
           MemTypeOK
  <2>3. SetupInv'
    BY <1>2
       DEF TypeInv, ProcTakeOutput, SetupInv, sessionVars
  <2> QED BY <2>1, <2>2, <2>3, <1>2, Frame
     DEF TypeInv, ProcTakeOutput, sessionVars, devVars, resultQs, deviceQs,
         memQs, mems, deviceVars
<1>3. CASE ProcGraph(g)
  <2>1. MemTypeOK'
    BY <1>3, ConstantTypes, Markers
       DEF TypeInv, ProcGraph, ProcInv, ProcTypeOK, Handle, MemTypeOK, memQs,
           mems, Tensors
  <2>2. ProcInv'
    BY <1>3, ConstantTypes, Markers
       DEF TypeInv, ProcGraph, ProcInv, ProcTypeOK, Handle, procVars
  <2>3. SetupInv'
    BY <1>3
       DEF TypeInv, ProcGraph, SetupInv, sessionVars
  <2> QED BY <2>1, <2>2, <2>3, <1>3, Frame
     DEF TypeInv, ProcGraph, sessionVars, devVars, resultQs, deviceQs, memQs,
         mems, deviceVars
<1>4. CASE ProcEmit(g)
  <2>1. MemTypeOK'
    BY <1>4, ConstantTypes, Markers
       DEF TypeInv, ProcEmit, ProcInv, ProcTypeOK, Handle, MemTypeOK, memQs,
           mems
  <2>2. ProcInv'
    BY <1>4, ConstantTypes, Markers
       DEF TypeInv, ProcEmit, ProcInv, ProcTypeOK, Handle, procVars
  <2>3. SetupInv'
    BY <1>4
       DEF TypeInv, ProcEmit, SetupInv, sessionVars
  <2> QED BY <2>1, <2>2, <2>3, <1>4, Frame
     DEF TypeInv, ProcEmit, sessionVars, devVars, resultQs, deviceQs, memQs,
         mems, deviceVars
<1>5. CASE ProcEos(g)
  <2>1. MemTypeOK'
    BY <1>5, ConstantTypes, Markers
       DEF TypeInv, ProcEos, ProcInv, ProcTypeOK, Handle, MemTypeOK, memQs,
           mems
  <2>2. ProcInv'
    BY <1>5, ConstantTypes, Markers
       DEF TypeInv, ProcEos, ProcInv, ProcTypeOK, Handle, procVars
  <2>3. SetupInv'
    BY <1>5
       DEF TypeInv, ProcEos, SetupInv, sessionVars
  <2> QED BY <2>1, <2>2, <2>3, <1>5, Frame
     DEF TypeInv, ProcEos, sessionVars, devVars, resultQs, deviceQs, memQs,
         mems, deviceVars
<1> QED BY <1>1, <1>2, <1>3, <1>4, <1>5
   DEF Process

\* The output copy thread keeps the invariant.
LEMMA OutputCopyTypeInv ==
    ASSUME TypeInv, NEW g \in Devices, OutputCopy(g)
    PROVE  TypeInv'
<1> USE DEF Put, Pop, At
<1>1. CASE OutTakeMem(g)
  <2>1. MemTypeOK'
    BY <1>1, ConstantTypes, Markers
       DEF TypeInv, OutTakeMem, OutInv, OutTypeOK, Handle, MemTypeOK, memQs,
           mems
  <2>2. OutInv'
    BY <1>1, ConstantTypes, Markers
       DEF TypeInv, OutTakeMem, OutInv, OutTypeOK, Handle, outVars, MemTypeOK
  <2>3. SetupInv'
    BY <1>1
       DEF TypeInv, OutTakeMem, SetupInv, sessionVars
  <2> QED BY <2>1, <2>2, <2>3, <1>1, Frame
     DEF TypeInv, OutTakeMem, sessionVars, devVars, resultQs, deviceQs, memQs,
         mems, deviceVars
<1>2. CASE OutTakeTag(g)
  <2>1. QueueTypeOK'
    <3> DEFINE content == outMem[g][outMemHeld[g]][outCount[g] + 1]
    <3>1. Head(tagQ[g]) \in Tag /\ tagQ' \in [Devices -> Seq(Tag)]
      BY <1>2 DEF TypeInv, OutTakeTag, QueueTypeOK
    <3>2. outMemHeld[g] \in Buffers /\ outCount[g] + 1 \in Slots
      BY <1>2, ConstantTypes DEF TypeInv, OutTakeTag, OutInv, OutTypeOK, Handle, Slots
    <3>3. content \in Label
      BY <3>2 DEF TypeInv, MemTypeOK, Tensors
    <3>4. Result(Head(tagQ[g]), content) \in Tag \X Label
      BY <3>1, <3>3 DEF Result, NoBoxes, Label, Blank
    <3>5. outputQ' \in {outputQ, Append(outputQ, Result(Head(tagQ[g]), content))}
      BY <1>2 DEF OutTakeTag
    <3>6. outputQ' \in Seq(Tag \X Label)
      <4>1. outputQ \in Seq(Tag \X Label)
        BY DEF TypeInv, QueueTypeOK
      <4> HIDE DEF content
      <4>2. Append(outputQ, Result(Head(tagQ[g]), content)) \in Seq(Tag \X Label)
        BY <3>4, <4>1
      <4> QED BY <3>5, <4>1, <4>2
    <3>7. UNCHANGED <<inputQ, outputX, imageQ>>
      BY <1>2 DEF OutTakeTag
    <3> QED BY <3>1, <3>6, <3>7 DEF TypeInv, QueueTypeOK
  <2>2. OutInv'
    <3> DEFINE content == outMem[g][outMemHeld[g]][outCount[g] + 1]
               r == Result(Head(tagQ[g]), content)
    <3>1. outMemHeld[g] \in Buffers /\ outCount[g] + 1 \in Slots /\ outPc[g] = "tag"
      BY <1>2, ConstantTypes DEF TypeInv, OutTakeTag, OutInv, OutTypeOK, Handle, Slots
    <3>2. content \in Label
      BY <3>1 DEF TypeInv, MemTypeOK, Tensors
    <3>3. r[2] \in Label
      BY <3>2 DEF Result, NoBoxes, Label, Blank
    <3>4. CASE Head(tagQ[g]) = Eos
      BY <1>2, <3>1, <3>4 DEF TypeInv, OutTakeTag, OutInv, OutTypeOK
    <3>5. CASE Head(tagQ[g]) # Eos
      <4>1. /\ outCount' = [outCount EXCEPT ![g] = @ + 1]
            /\ outLabel' = [outLabel EXCEPT ![g] = IF HasCompanion(r) THEN r[2] ELSE Blank]
            /\ outPc' = [outPc EXCEPT ![g] = IF HasCompanion(r) THEN "labels"
                                             ELSE AfterSlot(outCount'[g])]
            /\ outEos' = outEos /\ outMemHeld' = outMemHeld
        BY <1>2, <3>5 DEF OutTakeTag
      <4>2. outCount[g] + 1 \in 0..BatchSize /\ outCount'[g] = outCount[g] + 1
        BY <3>1, <4>1, ConstantTypes DEF Slots, TypeInv, OutInv, OutTypeOK
      <4>3. /\ outPc'[g] \in {"labels", "return", "tag"}
            /\ outPc'[g] = "tag" => outCount'[g] < BatchSize
        BY <4>1, <4>2, ConstantTypes DEF AfterSlot, TypeInv, OutInv, OutTypeOK
      <4>4. outLabel' \in [Devices -> Label]
        BY <4>1, <3>3 DEF TypeInv, OutInv, OutTypeOK, Label
      <4>5. outPc' \in [Devices -> {"unstarted", "mem", "tag", "labels", "return", "eos",
                                    "ended"}]
        BY <4>1 DEF TypeInv, OutInv, OutTypeOK, AfterSlot
      <4>6. outCount' \in [Devices -> 0..BatchSize]
        BY <4>1, <4>2 DEF TypeInv, OutInv, OutTypeOK
      <4>7. OutTypeOK'
        BY <4>1, <4>4, <4>5, <4>6 DEF TypeInv, OutInv, OutTypeOK
      <4>8. ASSUME NEW h \in Devices
            PROVE  /\ (outMemHeld'[h] # Eos) <=> outPc'[h] \in {"tag", "labels", "return"}
                   /\ outPc'[h] = "tag" => outCount'[h] < BatchSize
        <5>1. CASE h # g
          BY <5>1, <4>1 DEF TypeInv, OutInv, OutTypeOK
        <5>2. CASE h = g
          BY <5>2, <3>1, <4>1, <4>3, Markers DEF TypeInv, OutInv, OutTypeOK
        <5> QED BY <5>1, <5>2
      <4> QED BY <4>7, <4>8 DEF OutInv
    <3> QED BY <3>4, <3>5
  <2>3. SetupInv'
    BY <1>2
       DEF TypeInv, OutTakeTag, SetupInv, sessionVars
  <2> QED BY <2>1, <2>2, <2>3, <1>2, Frame
     DEF TypeInv, OutTakeTag, sessionVars, devVars, resultQs, deviceQs, memQs,
         mems, deviceVars
<1>3. CASE OutPutLabels(g)
  <2>1. QueueTypeOK'
    BY <1>3, ConstantTypes, Markers
       DEF TypeInv, OutPutLabels, OutInv, OutTypeOK, Handle, QueueTypeOK, Tag,
           resultQs, deviceQs
  <2>2. OutInv'
    BY <1>3, ConstantTypes, Markers
       DEF TypeInv, OutPutLabels, OutInv, OutTypeOK, Handle, outVars,
           AfterSlot, Label
  <2>3. SetupInv'
    BY <1>3
       DEF TypeInv, OutPutLabels, SetupInv, sessionVars
  <2> QED BY <2>1, <2>2, <2>3, <1>3, Frame
     DEF TypeInv, OutPutLabels, sessionVars, devVars, resultQs, deviceQs,
         memQs, mems, deviceVars
<1>4. CASE OutReturnMem(g)
  <2>1. MemTypeOK'
    BY <1>4, ConstantTypes, Markers
       DEF TypeInv, OutReturnMem, OutInv, OutTypeOK, Handle, MemTypeOK, memQs,
           mems
  <2>2. OutInv'
    BY <1>4, ConstantTypes, Markers
       DEF TypeInv, OutReturnMem, OutInv, OutTypeOK, Handle, outVars
  <2>3. SetupInv'
    BY <1>4
       DEF TypeInv, OutReturnMem, SetupInv, sessionVars
  <2> QED BY <2>1, <2>2, <2>3, <1>4, Frame
     DEF TypeInv, OutReturnMem, sessionVars, devVars, resultQs, deviceQs,
         memQs, mems, deviceVars
<1>5. CASE OutEos(g)
  <2>1. QueueTypeOK'
    BY <1>5, ConstantTypes, Markers
       DEF TypeInv, OutEos, OutInv, OutTypeOK, Handle, QueueTypeOK, Tag,
           resultQs, deviceQs, Label, NoBoxes, Blank
  <2>2. OutInv'
    BY <1>5, ConstantTypes, Markers
       DEF TypeInv, OutEos, OutInv, OutTypeOK, Handle, outVars
  <2>3. SetupInv'
    BY <1>5
       DEF TypeInv, OutEos, SetupInv, sessionVars
  <2> QED BY <2>1, <2>2, <2>3, <1>5, Frame
     DEF TypeInv, OutEos, sessionVars, devVars, resultQs, deviceQs, memQs,
         mems, deviceVars
<1> QED BY <1>1, <1>2, <1>3, <1>4, <1>5
   DEF OutputCopy

\* Every step of the specification keeps the invariant.
LEMMA StepTypeInv == ASSUME TypeInv, [Next]_vars PROVE TypeInv'
<1>1. CASE Run \/ Destroy
  BY <1>1, SessionTypeInv
<1>2. CASE Master
  BY <1>2, MasterTypeInv
<1>3. ASSUME NEW g \in Devices, InputCopy(g) \/ Process(g) \/ OutputCopy(g)
      PROVE  TypeInv'
  BY <1>3, InputCopyTypeInv, ProcessTypeInv, OutputCopyTypeInv
<1>4. CASE UNCHANGED vars
  BY <1>4, Frame DEF TypeInv, SetupInv, vars, sessionVars, resultQs, deviceQs, memQs,
     mems, masterVars, deviceVars, copyVars, procVars, outVars
<1> QED BY <1>1, <1>2, <1>3, <1>4 DEF Next

\* Every variable keeps its type, for all values of the constants.
THEOREM TypeCorrect == Spec => []TypeOK
<1>1. TypeInv => TypeOK
  BY DEF TypeInv, TypeOK, SessionInv, MasterInv, CopyInv, ProcInv, OutInv
<1> QED BY InitTypeInv, StepTypeInv, <1>1, PTL DEF Spec

----------------------------------------------------------------------------
(* Exclusive ownership of the OpenCL buffers.  A buffer goes round: a first *)
(* holder takes it from the idle queue and puts it into the busy queue, a   *)
(* second holder takes it from there and puts it back.  The lemmas say that *)
(* each move keeps OneHolder.                                               *)

\* The first holder dequeues a buffer from the idle queue.
LEMMA TakeIdle ==
    ASSUME NEW S, NEW idle \in Seq(S), NEW busy \in Seq(S), NEW second \in S, idle # <<>>,
           OneHolder(idle, busy, Eos, second)
    PROVE  OneHolder(Tail(idle), busy, Head(idle), second)
BY DEF OneHolder, NoRepeat, NotIn, Apart

\* The first holder enqueues its buffer into the busy queue.
LEMMA PutBusy ==
    ASSUME NEW S, NEW idle \in Seq(S), NEW busy \in Seq(S), NEW first \in S,
           NEW second \in S, first # Eos, OneHolder(idle, busy, first, second)
    PROVE  OneHolder(idle, Append(busy, first), Eos, second)
BY DEF OneHolder, NoRepeat, NotIn, Apart

\* The first holder returns its buffer to the idle queue unused.
LEMMA PutBack ==
    ASSUME NEW S, NEW idle \in Seq(S), NEW busy \in Seq(S), NEW first \in S,
           NEW second \in S, first # Eos, OneHolder(idle, busy, first, second)
    PROVE  OneHolder(Append(idle, first), busy, Eos, second)
BY DEF OneHolder, NoRepeat, NotIn, Apart

\* The second holder dequeues a buffer from the busy queue.
LEMMA TakeBusy ==
    ASSUME NEW S, NEW idle \in Seq(S), NEW busy \in Seq(S), NEW first \in S, busy # <<>>,
           OneHolder(idle, busy, first, Eos)
    PROVE  OneHolder(idle, Tail(busy), first, Head(busy))
BY DEF OneHolder, NoRepeat, NotIn, Apart

\* The second holder returns its buffer to the idle queue.
LEMMA PutIdle ==
    ASSUME NEW S, NEW idle \in Seq(S), NEW busy \in Seq(S), NEW first \in S,
           NEW second \in S, second # Eos, OneHolder(idle, busy, first, second)
    PROVE  OneHolder(Append(idle, second), busy, first, Eos)
BY DEF OneHolder, NoRepeat, NotIn, Apart

\* The end marker enters the busy queue once.
LEMMA PutMarker ==
    ASSUME NEW S, NEW idle \in Seq(S), NEW busy \in Seq(S), NEW first, NEW second,
           Eos \in S, NotIn(Eos, idle), NotIn(Eos, busy),
           OneHolder(idle, busy, first, second)
    PROVE  OneHolder(idle, Append(busy, Eos), first, second)
BY DEF OneHolder, NoRepeat, NotIn, Apart

\* The inductive invariant: the marker is in a busy queue only behind the last buffer.
BufferInv ==
    \A g \in Devices :
        /\ OneHolder(inIdle[g], inBusy[g], copyMem[g], procIn[g])
        /\ OneHolder(outIdle[g], outBusy[g], procOut[g], outMemHeld[g])
        /\ copyPc[g] # "ended" => NotIn(Eos, inBusy[g])
        /\ procPc[g] # "ended" => NotIn(Eos, outBusy[g])

bufferVars == <<memQs, copyPc, copyMem, procPc, procIn, procOut, outMemHeld>>

\* The types of what the lemmas above are applied to.
LEMMA DeviceTypes ==
    ASSUME TypeInv, NEW g \in Devices
    PROVE  /\ inIdle[g] \in Seq(Handle) /\ inBusy[g] \in Seq(Handle)
           /\ outIdle[g] \in Seq(Handle) /\ outBusy[g] \in Seq(Handle)
           /\ copyMem[g] \in Handle /\ procIn[g] \in Handle
           /\ procOut[g] \in Handle /\ outMemHeld[g] \in Handle
           /\ NotIn(Eos, inIdle[g]) /\ NotIn(Eos, outIdle[g])
<1>1. inIdle[g] \in Seq(Buffers) /\ outIdle[g] \in Seq(Buffers)
  BY DEF TypeInv, MemTypeOK
<1>2. \A q \in Seq(Buffers) : q \in Seq(Handle) /\ NotIn(Eos, q)
  BY Markers DEF Handle, NotIn
<1> QED BY <1>1, <1>2
        DEF TypeInv, MemTypeOK, CopyInv, CopyTypeOK, ProcInv, ProcTypeOK, OutInv, OutTypeOK

\* A step that moves an input buffer of device g keeps the invariant if it keeps it
\* for the input buffers of g; and likewise for an output buffer.
LEMMA InputMove ==
    ASSUME BufferInv, NEW g \in Devices,
           UNCHANGED <<outIdle, outBusy, procOut, outMemHeld>>,
           \A h \in Devices : procPc[h] = "ended" => procPc'[h] = "ended",
           \A h \in Devices \ {g} : /\ inIdle'[h] = inIdle[h] /\ inBusy'[h] = inBusy[h]
                                    /\ copyMem'[h] = copyMem[h] /\ procIn'[h] = procIn[h]
                                    /\ copyPc'[h] = copyPc[h],
           OneHolder(inIdle'[g], inBusy'[g], copyMem'[g], procIn'[g]),
           copyPc'[g] # "ended" => NotIn(Eos, inBusy'[g])
    PROVE  BufferInv'
<1> SUFFICES ASSUME NEW h \in Devices
             PROVE  /\ OneHolder(inIdle[h], inBusy[h], copyMem[h], procIn[h])'
                    /\ OneHolder(outIdle[h], outBusy[h], procOut[h], outMemHeld[h])'
                    /\ (copyPc[h] # "ended" => NotIn(Eos, inBusy[h]))'
                    /\ (procPc[h] # "ended" => NotIn(Eos, outBusy[h]))'
  BY DEF BufferInv
<1>1. CASE h = g
  BY <1>1 DEF BufferInv
<1>2. CASE h # g
  BY <1>2 DEF BufferInv
<1> QED BY <1>1, <1>2

\* The same for an output buffer of device g.
LEMMA OutputMove ==
    ASSUME BufferInv, NEW g \in Devices,
           UNCHANGED <<inIdle, inBusy, copyPc, copyMem, procIn>>,
           \A h \in Devices \ {g} : /\ outIdle'[h] = outIdle[h] /\ outBusy'[h] = outBusy[h]
                                    /\ procOut'[h] = procOut[h]
                                    /\ outMemHeld'[h] = outMemHeld[h]
                                    /\ procPc'[h] = procPc[h],
           OneHolder(outIdle'[g], outBusy'[g], procOut'[g], outMemHeld'[g]),
           procPc'[g] # "ended" => NotIn(Eos, outBusy'[g])
    PROVE  BufferInv'
<1> SUFFICES ASSUME NEW h \in Devices
             PROVE  /\ OneHolder(inIdle[h], inBusy[h], copyMem[h], procIn[h])'
                    /\ OneHolder(outIdle[h], outBusy[h], procOut[h], outMemHeld[h])'
                    /\ (copyPc[h] # "ended" => NotIn(Eos, inBusy[h]))'
                    /\ (procPc[h] # "ended" => NotIn(Eos, outBusy[h]))'
  BY DEF BufferInv
<1>1. CASE h = g
  BY <1>1 DEF BufferInv
<1>2. CASE h # g
  BY <1>2 DEF BufferInv
<1> QED BY <1>1, <1>2

\* A step that moves no buffer keeps the invariant.
LEMMA BufferFrame == BufferInv /\ UNCHANGED bufferVars => BufferInv'
BY DEF BufferInv, bufferVars, memQs

\* The input copy thread is the first holder of the input buffers.
LEMMA InputCopyBuffers ==
    ASSUME TypeInv, BufferInv, NEW g \in Devices, InputCopy(g)
    PROVE  BufferInv'
<1> USE DEF Put, Pop, At
<1>1. CASE CopyTakeMem(g)
  <2>1. copyMem[g] = Eos /\ inIdle[g] # <<>>
    BY <1>1 DEF CopyTakeMem, TypeInv, CopyInv
  <2>2. OneHolder(Tail(inIdle[g]), inBusy[g], Head(inIdle[g]), procIn[g])
    BY <2>1, DeviceTypes, TakeIdle DEF BufferInv
  <2>3. /\ inIdle'[g] = Tail(inIdle[g]) /\ inBusy' = inBusy /\ procIn' = procIn
        /\ copyMem'[g] = Head(inIdle[g]) /\ copyPc'[g] = "image" /\ copyPc[g] = "mem"
        /\ \A h \in Devices \ {g} : /\ inIdle'[h] = inIdle[h] /\ copyMem'[h] = copyMem[h]
                                    /\ copyPc'[h] = copyPc[h]
        /\ UNCHANGED <<outIdle, outBusy, procPc, procOut, outMemHeld>>
    BY <1>1 DEF CopyTakeMem, TypeInv, MemTypeOK, CopyInv, CopyTypeOK, procVars, outVars
  <2>4. NotIn(Eos, inBusy[g])
    BY <2>3 DEF BufferInv
  <2> QED BY <2>2, <2>3, <2>4, InputMove
<1>2. CASE CopyTakeImage(g)
  <2>1. /\ copyPc[g] = "image" /\ copyPc'[g] \in {"image", "put"}
        /\ \A h \in Devices \ {g} : copyPc'[h] = copyPc[h]
        /\ UNCHANGED <<memQs, copyMem, procPc, procIn, procOut, outMemHeld>>
    BY <1>2 DEF CopyTakeImage, TypeInv, CopyInv, CopyTypeOK, procVars, outVars
  <2> QED BY <2>1, InputMove DEF BufferInv, memQs
<1>3. CASE CopyPut(g)
  <2>1. copyMem[g] # Eos /\ copyPc[g] = "put"
    BY <1>3 DEF CopyPut, PassBuffer, TypeInv, CopyInv
  <2>2. /\ OneHolder(inIdle[g], Append(inBusy[g], copyMem[g]), Eos, procIn[g])
        /\ OneHolder(Append(inIdle[g], copyMem[g]), inBusy[g], Eos, procIn[g])
    BY <2>1, DeviceTypes, PutBusy, PutBack DEF BufferInv
  <2>3. NotIn(Eos, inBusy[g]) /\ NotIn(Eos, Append(inBusy[g], copyMem[g]))
    BY <2>1, DeviceTypes DEF BufferInv, NotIn
  <2>4. /\ copyMem'[g] = Eos /\ copyPc'[g] # "ended" /\ procIn' = procIn
        /\ \A h \in Devices \ {g} : copyMem'[h] = copyMem[h] /\ copyPc'[h] = copyPc[h]
        /\ UNCHANGED <<outIdle, outBusy, procPc, procOut, outMemHeld>>
    BY <1>3 DEF CopyPut, PassBuffer, TypeInv, CopyInv, CopyTypeOK, procVars, outVars
  <2>5. \/ inBusy' = [inBusy EXCEPT ![g] = Append(@, copyMem[g])] /\ inIdle' = inIdle
        \/ inIdle' = [inIdle EXCEPT ![g] = Append(@, copyMem[g])] /\ inBusy' = inBusy
    BY <1>3 DEF CopyPut, PassBuffer
  <2>6. CASE inBusy' = [inBusy EXCEPT ![g] = Append(@, copyMem[g])] /\ inIdle' = inIdle
    <3>1. /\ inBusy'[g] = Append(inBusy[g], copyMem[g]) /\ inIdle'[g] = inIdle[g]
          /\ \A h \in Devices \ {g} : inIdle'[h] = inIdle[h] /\ inBusy'[h] = inBusy[h]
      BY <2>6 DEF TypeInv, MemTypeOK
    <3> QED BY <2>2, <2>3, <2>4, <3>1, InputMove
  <2>7. CASE inIdle' = [inIdle EXCEPT ![g] = Append(@, copyMem[g])] /\ inBusy' = inBusy
    <3>1. /\ inIdle'[g] = Append(inIdle[g], copyMem[g]) /\ inBusy'[g] = inBusy[g]
          /\ \A h \in Devices \ {g} : inIdle'[h] = inIdle[h] /\ inBusy'[h] = inBusy[h]
      BY <2>7 DEF TypeInv, MemTypeOK
    <3> QED BY <2>2, <2>3, <2>4, <3>1, InputMove
  <2> QED BY <2>5, <2>6, <2>7
<1>4. CASE CopyEos(g)
  <2>1. copyPc[g] = "eos"
    BY <1>4 DEF CopyEos
  <2>2. OneHolder(inIdle[g], Append(inBusy[g], Eos), copyMem[g], procIn[g])
    BY <2>1, DeviceTypes, PutMarker DEF BufferInv, Handle
  <2>3. /\ inBusy'[g] = Append(inBusy[g], Eos) /\ copyPc'[g] = "ended"
        /\ \A h \in Devices \ {g} : inBusy'[h] = inBusy[h] /\ copyPc'[h] = copyPc[h]
        /\ UNCHANGED <<inIdle, copyMem, procIn>>
        /\ UNCHANGED <<outIdle, outBusy, procPc, procOut, outMemHeld>>
    BY <1>4 DEF CopyEos, TypeInv, MemTypeOK, CopyInv, CopyTypeOK, procVars, outVars
  <2> QED BY <2>2, <2>3, InputMove
<1> QED BY <1>1, <1>2, <1>3, <1>4 DEF InputCopy

\* The process thread is the second holder of the input buffers and the first holder of
\* the output buffers.
LEMMA ProcessBuffers ==
    ASSUME TypeInv, BufferInv, NEW g \in Devices, Process(g)
    PROVE  BufferInv'
<1> USE DEF Put, Pop, At
<1>1. CASE ProcTakeInput(g)
  <2>1. procIn[g] = Eos /\ inBusy[g] # <<>>
    BY <1>1 DEF ProcTakeInput, TypeInv, ProcInv
  <2>2. OneHolder(inIdle[g], Tail(inBusy[g]), copyMem[g], Head(inBusy[g]))
    BY <2>1, DeviceTypes, TakeBusy DEF BufferInv
  <2>3. NotIn(Eos, inBusy[g]) => NotIn(Eos, Tail(inBusy[g]))
    BY <2>1, DeviceTypes DEF NotIn
  <2>4. /\ inBusy'[g] = Tail(inBusy[g]) /\ procIn'[g] = Head(inBusy[g])
        /\ \A h \in Devices \ {g} : inBusy'[h] = inBusy[h] /\ procIn'[h] = procIn[h]
        /\ \A h \in Devices : procPc[h] = "ended" => procPc'[h] = "ended"
        /\ UNCHANGED <<inIdle, copyMem, copyPc, outIdle, outBusy, procOut, outMemHeld>>
    BY <1>1 DEF ProcTakeInput, TypeInv, MemTypeOK, ProcInv, ProcTypeOK, copyVars, outVars
  <2> QED BY <2>2, <2>3, <2>4, InputMove DEF BufferInv
<1>2. CASE ProcTakeOutput(g)
  <2>1. procOut[g] = Eos /\ outIdle[g] # <<>> /\ procPc[g] = "output"
    BY <1>2 DEF ProcTakeOutput, TypeInv, ProcInv
  <2>2. OneHolder(Tail(outIdle[g]), outBusy[g], Head(outIdle[g]), outMemHeld[g])
    BY <2>1, DeviceTypes, TakeIdle DEF BufferInv
  <2>3. /\ outIdle'[g] = Tail(outIdle[g]) /\ procOut'[g] = Head(outIdle[g])
        /\ \A h \in Devices \ {g} : /\ outIdle'[h] = outIdle[h] /\ procOut'[h] = procOut[h]
                                    /\ procPc'[h] = procPc[h]
        /\ UNCHANGED <<inIdle, inBusy, copyPc, copyMem, procIn, outBusy, outMemHeld>>
    BY <1>2 DEF ProcTakeOutput, TypeInv, MemTypeOK, ProcInv, ProcTypeOK, copyVars, outVars
  <2> QED BY <2>1, <2>2, <2>3, OutputMove DEF BufferInv
<1>3. CASE ProcGraph(g)
  <2>1. procIn[g] # Eos
    BY <1>3 DEF ProcGraph, TypeInv, ProcInv
  <2>2. OneHolder(Append(inIdle[g], procIn[g]), inBusy[g], copyMem[g], Eos)
    BY <2>1, DeviceTypes, PutIdle DEF BufferInv
  <2>3. /\ inIdle'[g] = Append(inIdle[g], procIn[g]) /\ procIn'[g] = Eos
        /\ \A h \in Devices \ {g} : inIdle'[h] = inIdle[h] /\ procIn'[h] = procIn[h]
        /\ \A h \in Devices : procPc[h] = "ended" => procPc'[h] = "ended"
        /\ UNCHANGED <<inBusy, copyMem, copyPc, outIdle, outBusy, procOut, outMemHeld>>
    BY <1>3 DEF ProcGraph, TypeInv, MemTypeOK, ProcInv, ProcTypeOK, copyVars, outVars
  <2> QED BY <2>2, <2>3, InputMove DEF BufferInv
<1>4. CASE ProcEmit(g)
  <2>1. procOut[g] # Eos /\ procPc[g] = "emit"
    BY <1>4 DEF ProcEmit, TypeInv, ProcInv
  <2>2. OneHolder(outIdle[g], Append(outBusy[g], procOut[g]), Eos, outMemHeld[g])
    BY <2>1, DeviceTypes, PutBusy DEF BufferInv
  <2>3. NotIn(Eos, Append(outBusy[g], procOut[g]))
    BY <2>1, DeviceTypes DEF BufferInv, NotIn
  <2>4. /\ outBusy'[g] = Append(outBusy[g], procOut[g]) /\ procOut'[g] = Eos
        /\ \A h \in Devices \ {g} : /\ outBusy'[h] = outBusy[h] /\ procOut'[h] = procOut[h]
                                    /\ procPc'[h] = procPc[h]
        /\ UNCHANGED <<inIdle, inBusy, copyPc, copyMem, procIn, outIdle, outMemHeld>>
    BY <1>4 DEF ProcEmit, TypeInv, MemTypeOK, ProcInv, ProcTypeOK, copyVars, outVars
  <2> QED BY <2>2, <2>3, <2>4, OutputMove
<1>5. CASE ProcEos(g)
  <2>1. procPc[g] = "eos"
    BY <1>5 DEF ProcEos
  <2>2. OneHolder(outIdle[g], Append(outBusy[g], Eos), procOut[g], outMemHeld[g])
    BY <2>1, DeviceTypes, PutMarker DEF BufferInv, Handle
  <2>3. /\ outBusy'[g] = Append(outBusy[g], Eos) /\ procPc'[g] = "ended"
        /\ \A h \in Devices \ {g} : outBusy'[h] = outBusy[h] /\ procPc'[h] = procPc[h]
        /\ UNCHANGED <<inIdle, inBusy, copyPc, copyMem, procIn>>
        /\ UNCHANGED <<outIdle, procOut, outMemHeld>>
    BY <1>5 DEF ProcEos, TypeInv, MemTypeOK, ProcInv, ProcTypeOK, copyVars, outVars
  <2> QED BY <2>2, <2>3, OutputMove
<1> QED BY <1>1, <1>2, <1>3, <1>4, <1>5 DEF Process

\* The output copy thread is the second holder of the output buffers.
LEMMA OutputCopyBuffers ==
    ASSUME TypeInv, BufferInv, NEW g \in Devices, OutputCopy(g)
    PROVE  BufferInv'
<1> USE DEF Put, Pop, At
<1>1. CASE OutTakeMem(g)
  <2>1. outMemHeld[g] = Eos /\ outBusy[g] # <<>>
    BY <1>1 DEF OutTakeMem, TypeInv, OutInv
  <2>2. OneHolder(outIdle[g], Tail(outBusy[g]), procOut[g], Head(outBusy[g]))
    BY <2>1, DeviceTypes, TakeBusy DEF BufferInv
  <2>3. NotIn(Eos, outBusy[g]) => NotIn(Eos, Tail(outBusy[g]))
    BY <2>1, DeviceTypes DEF NotIn
  <2>4. /\ outBusy'[g] = Tail(outBusy[g]) /\ outMemHeld'[g] = Head(outBusy[g])
        /\ \A h \in Devices \ {g} : /\ outBusy'[h] = outBusy[h]
                                    /\ outMemHeld'[h] = outMemHeld[h]
        /\ UNCHANGED <<inIdle, inBusy, copyPc, copyMem, procIn, procPc, procOut, outIdle>>
    BY <1>1 DEF OutTakeMem, TypeInv, MemTypeOK, OutInv, OutTypeOK, copyVars, procVars
  <2> QED BY <2>2, <2>3, <2>4, OutputMove DEF BufferInv
<1>2. CASE OutTakeTag(g) \/ OutPutLabels(g) \/ OutEos(g)
  BY <1>2, BufferFrame
     DEF OutTakeTag, OutPutLabels, OutEos, bufferVars, copyVars, procVars
<1>3. CASE OutReturnMem(g)
  <2>1. outMemHeld[g] # Eos
    BY <1>3 DEF OutReturnMem, TypeInv, OutInv
  <2>2. OneHolder(Append(outIdle[g], outMemHeld[g]), outBusy[g], procOut[g], Eos)
    BY <2>1, DeviceTypes, PutIdle DEF BufferInv
  <2>3. /\ outIdle'[g] = Append(outIdle[g], outMemHeld[g]) /\ outMemHeld'[g] = Eos
        /\ \A h \in Devices \ {g} : /\ outIdle'[h] = outIdle[h]
                                    /\ outMemHeld'[h] = outMemHeld[h]
        /\ UNCHANGED <<inIdle, inBusy, copyPc, copyMem, procIn, procPc, procOut, outBusy>>
    BY <1>3 DEF OutReturnMem, TypeInv, MemTypeOK, OutInv, OutTypeOK, copyVars, procVars
  <2> QED BY <2>2, <2>3, OutputMove DEF BufferInv
<1> QED BY <1>1, <1>2, <1>3 DEF OutputCopy

\* The session thread creates the buffers of a device before its threads run, and
\* releases them when they have ended.
LEMMA SessionBuffers ==
    ASSUME TypeInv, BufferInv, Run \/ Destroy
    PROVE  BufferInv'
<1> USE DEF Put, Pop, At
<1>1. CASE CreateDevice
  <2>1. created \in Devices
    BY <1>1, ConstantTypes DEF TypeInv, CreateDevice, SessionInv, SessionTypeOK, Devices
  <2> DEFINE all == [i \in Buffers |-> i]
  <2>2. /\ inBusy[created] = <<>> /\ outBusy[created] = <<>>
        /\ copyMem[created] = Eos /\ procIn[created] = Eos
        /\ procOut[created] = Eos /\ outMemHeld[created] = Eos
    BY <1>1, <2>1 DEF TypeInv, CreateDevice, SetupInv, CopyInv, ProcInv, OutInv
  <2>3. OneHolder(all, <<>>, Eos, Eos)
    BY DEF OneHolder, NoRepeat, NotIn, Apart
  <2>4. /\ inIdle' = [inIdle EXCEPT ![created] = all]
        /\ outIdle' = [outIdle EXCEPT ![created] = all]
        /\ UNCHANGED <<inBusy, outBusy, copyPc, copyMem, procPc, procIn, procOut, outMemHeld>>
    BY <1>1 DEF CreateDevice, deviceVars, copyVars, procVars, outVars
  <2> HIDE DEF all
  <2> SUFFICES ASSUME NEW h \in Devices
               PROVE  /\ OneHolder(inIdle[h], inBusy[h], copyMem[h], procIn[h])'
                      /\ OneHolder(outIdle[h], outBusy[h], procOut[h], outMemHeld[h])'
                      /\ (copyPc[h] # "ended" => NotIn(Eos, inBusy[h]))'
                      /\ (procPc[h] # "ended" => NotIn(Eos, outBusy[h]))'
    BY DEF BufferInv
  <2>5. CASE h = created
    BY <2>1, <2>2, <2>3, <2>4, <2>5 DEF BufferInv, TypeInv, MemTypeOK
  <2>6. CASE h # created
    BY <2>1, <2>4, <2>6 DEF BufferInv, TypeInv, MemTypeOK
  <2> QED BY <2>5, <2>6
<1>2. CASE StartThreads
  <2>1. \A h \in Devices : copyPc[h] = "unstarted" /\ procPc[h] = "unstarted"
    BY <1>2 DEF TypeInv, StartThreads, SetupInv
  <2>2. UNCHANGED <<memQs, copyMem, procIn, procOut, outMemHeld>>
    BY <1>2 DEF StartThreads
  <2> QED BY <2>1, <2>2 DEF BufferInv, memQs
<1>3. CASE ReleaseDevice
  <2>1. dev \in Devices
    BY <1>3, ConstantTypes DEF TypeInv, ReleaseDevice, SessionInv, SessionTypeOK, Devices
  <2>2. /\ inIdle' = [inIdle EXCEPT ![dev] = <<>>] /\ inBusy' = [inBusy EXCEPT ![dev] = <<>>]
        /\ outIdle' = [outIdle EXCEPT ![dev] = <<>>]
        /\ outBusy' = [outBusy EXCEPT ![dev] = <<>>]
        /\ UNCHANGED <<copyPc, copyMem, procPc, procIn, procOut, outMemHeld>>
    BY <1>3 DEF ReleaseDevice, deviceVars, copyVars, procVars, outVars
  <2> SUFFICES ASSUME NEW h \in Devices
               PROVE  /\ OneHolder(inIdle[h], inBusy[h], copyMem[h], procIn[h])'
                      /\ OneHolder(outIdle[h], outBusy[h], procOut[h], outMemHeld[h])'
                      /\ (copyPc[h] # "ended" => NotIn(Eos, inBusy[h]))'
                      /\ (procPc[h] # "ended" => NotIn(Eos, outBusy[h]))'
    BY DEF BufferInv
  <2>3. CASE h = dev
    BY <2>1, <2>2, <2>3
       DEF BufferInv, TypeInv, MemTypeOK, OneHolder, NoRepeat, NotIn, Apart
  <2>4. CASE h # dev
    BY <2>1, <2>2, <2>4 DEF BufferInv, TypeInv, MemTypeOK
  <2> QED BY <2>3, <2>4
<1>4. CASE ~CreateDevice /\ ~StartThreads /\ ~ReleaseDevice
  <2>1. UNCHANGED bufferVars
    BY <1>4 DEF Run, Destroy, HandleRequest, CountResults, TakeResult, TakeLabels, SendReply,
       RequestImages, ReceiveImage, ExchangeDone, DestroyEos, JoinMaster, DestroyTag,
       DestroyImage, JoinDevice, bufferVars, deviceVars, copyVars, procVars, outVars
  <2> QED BY <2>1, BufferFrame
<1> QED BY <1>1, <1>2, <1>3, <1>4

\* Whatever the interleaving of the threads, no OpenCL buffer is ever in two hands: for
\* every number of devices, pipe depth and batch size.
THEOREM ExclusiveBuffers == Spec => []BuffersExclusive
<1>1. Init => TypeInv /\ BufferInv
  BY InitTypeInv DEF Init, BufferInv, OneHolder, NoRepeat, NotIn, Apart
<1>2. (TypeInv /\ BufferInv) /\ [Next]_vars => (TypeInv /\ BufferInv)'
  <2> SUFFICES ASSUME TypeInv, BufferInv, [Next]_vars PROVE TypeInv' /\ BufferInv'
    OBVIOUS
  <2>1. TypeInv'
    BY StepTypeInv
  <2>2. CASE Run \/ Destroy
    BY <2>1, <2>2, SessionBuffers
  <2>3. CASE Master
    BY <2>1, <2>3, BufferFrame DEF Master, MasterNext, MasterTag, MasterImage, MasterPick,
       MasterEosTag, MasterEosImage, bufferVars, deviceVars, copyVars, procVars, outVars
  <2>4. ASSUME NEW g \in Devices, InputCopy(g) \/ Process(g) \/ OutputCopy(g)
        PROVE  BufferInv'
    BY <2>4, InputCopyBuffers, ProcessBuffers, OutputCopyBuffers
  <2>5. CASE UNCHANGED vars
    BY <2>1, <2>5, BufferFrame DEF vars, bufferVars, deviceVars, copyVars, procVars, outVars
  <2> QED BY <2>1, <2>2, <2>3, <2>4, <2>5 DEF Next
<1>3. BufferInv => BuffersExclusive
  BY DEF BufferInv, BuffersExclusive
<1> QED BY <1>1, <1>2, <1>3, PTL DEF Spec

----------------------------------------------------------------------------
(***************************************************************************)
(* The second part is about what the client is told.  Nothing but the      *)
(* order of several queues links the tag of an image, the slot its tensor  *)
(* is in and the label that is read from there.  Here all buffers on their *)
(* way through a device are seen as one sequence, Flight, and an invariant *)
(* says which slot of it a waiting tag belongs to.                         *)
(***************************************************************************)

(* Definitions.                                                            *)

\* A marker on its way through a device; a buffer is the tensor it contains.
Marker == <<>>
Content(mem, b) == IF b = Eos THEN Marker ELSE mem[b]
Contents(mem, q) == [i \in DOMAIN q |-> Content(mem, q[i])]
Carried(mem, b) == IF b = Eos THEN <<>> ELSE <<mem[b]>>

\* The buffer in the hands of the process thread: a marker is carried as well.
Processed(g) ==
    CASE procPc[g] \in {"output", "process"} -> <<inMem[g][procIn[g]]>>
      [] procPc[g] = "emit" -> <<outMem[g][procOut[g]]>>
      [] procPc[g] = "eos" -> <<Marker>>
      [] OTHER -> <<>>

\* What is between the input copy and the end of the output copy, oldest first.
Held(g)     == Carried(outMem[g], outMemHeld[g])
Outgoing(g) == Contents(outMem[g], outBusy[g])
Incoming(g) == Contents(inMem[g], inBusy[g])
Flight(g)   == Held(g) \o (Outgoing(g) \o (Processed(g) \o Incoming(g)))

\* The tags taken for the oldest buffer, and the slots before the k-th one.
Taken(g) == IF outMemHeld[g] = Eos THEN 0 ELSE outCount[g]

\* The number of slots before the k-th batch.
Before(k) == (k - 1) * BatchSize

\* The images that wait for the input copy.  The one whose tag is in the tag queue
\* already, although it follows in the next step of its thread, is one of them.
Announced(g) ==
    CASE masterPc = "image" /\ masterGpu = g -> <<masterTag>>
      [] masterPc = "eosImage" /\ masterDev = g -> <<Eos>>
      [] runPc = "~image" /\ dev = g /\ dev < created -> <<Eos>>
      [] OTHER -> <<>>

\* The images dealt to a device whose batch is not complete.
Dealt(g) == imageQ[g] \o Announced(g)

\* t: the tags waiting; n: those taken for the first of the buffers f; c: the batch
\* being collected; q: the images waiting; done: the marker has been taken from q.

\* The decoder threads share a full batch without a remainder.
BatchDecodedWhole == DecThreads = 0 \/ BatchSize % NumDecThreads = 0

\* The slot a tag belongs to contains its image, if every image is decoded.
SlotsMatch(t, n, f) ==
    \A k \in DOMAIN f, s \in Slots, i \in DOMAIN t :
        i + n = Before(k) + s /\ t[i] # Eos =>
            f[k] # Marker /\ (BatchDecodedWhole => f[k][s] = t[i])

\* Every buffer has a tag, unless some were taken for it.
BuffersTagged(t, n, f) ==
    \A k \in DOMAIN f :
        f[k] # Marker /\ Before(k) >= n =>
            Before(k) + 1 - n \in DOMAIN t /\ t[Before(k) + 1 - n] # Eos

\* The tags of the batch that is being collected, which come after the first m.
BatchMatches(t, m, c) == \A j \in DOMAIN c : m + j \in DOMAIN t /\ t[m + j] = c[j]

\* The images that wait belong to the tags after the first m, one to one.
QueueMatches(t, m, q) ==
    /\ Len(t) = m + Len(q)
    /\ \A i \in DOMAIN t : i <= m => t[i] # Eos
    /\ \A j \in DOMAIN q, i \in DOMAIN t : i = m + j => t[i] = q[j]

\* The end has been seen after m tags.
QueueEnded(t, m, q) ==
    /\ \A i \in DOMAIN t : t[i] # Eos => i <= m
    /\ \A j \in DOMAIN q : q[j] = Eos

\* Nothing but markers follows a marker.
MarkersLast(q) == \A i, j \in DOMAIN q : i <= j /\ q[i] = Eos => q[j] = Eos

\* base: the tags waiting that belong to the buffers.
PairedAt(t, n, f, c, q, done, base) ==
    /\ base \in Nat
    /\ MarkersLast(t)
    /\ SlotsMatch(t, n, f)
    /\ BuffersTagged(t, n, f)
    /\ BatchMatches(t, base, c)
    /\ ~done => QueueMatches(t, base + Len(c), q)
    /\ done => QueueEnded(t, base + Len(c), q)

PairedWith(t, n, f, c, q, done) ==
    PairedAt(t, n, f, c, q, done, Before(Len(f) + 1) - n)

\* The tags, buffers and images of a device belong together.
Paired(g) ==
    PairedWith(tagQ[g], Taken(g), Flight(g), copyBatch[g], Dealt(g), copyEos[g])

\* The marker is the last thing on its way, and only when the input copy has ended.
MarkerLast(g) ==
    /\ \A k \in DOMAIN Flight(g) :
         Flight(g)[k] = Marker => k = Len(Flight(g)) /\ copyPc[g] = "ended"
    /\ copyPc[g] \in {"eos", "ended"} => copyEos[g]
    /\ copyPc[g] = "put" /\ ~copyEos[g] => Len(copyBatch[g]) = BatchSize
    /\ copyPc[g] \in {"unstarted", "mem", "image"} => ~copyEos[g]

\* A device whose output copy has seen an end has nothing more to return.
Drained(g) ==
    /\ copyEos[g]
    /\ \A i \in DOMAIN tagQ[g] : tagQ[g][i] = Eos
    /\ \A k \in DOMAIN Flight(g) :
         Flight(g)[k] = Marker \/ (k = 1 /\ outMemHeld[g] # Eos)

\* Once the input copy thread has seen the marker there is nothing left for it.
DrainedAtEnd(g) ==
    /\ outEos[g] \/ outPc[g] \in {"eos", "ended"} => Drained(g)
    /\ outPc[g] = "return" => outEos[g] \/ outCount[g] = BatchSize
    /\ outPc[g] \in {"tag", "mem", "labels"} => ~outEos[g]

DeviceInv(g) == Paired(g) /\ MarkerLast(g) /\ DrainedAtEnd(g)

\* While the master deals images out no device has had a marker; the threads are
\* started together, and those of a device have ended when it is released.
Dealing == {"next", "tag", "image", "pick"}

\* How far the master is says which markers the devices have.
PhaseInv ==
    /\ masterPc \in Dealing =>
         \A g \in Devices : /\ ~copyEos[g]
                            /\ \A i \in DOMAIN tagQ[g] : tagQ[g][i] # Eos
    /\ masterPc = "unstarted" =>
         \A g \in Devices : /\ inBusy[g] = <<>> /\ outBusy[g] = <<>>
                            /\ \A i \in DOMAIN tagQ[g] : tagQ[g][i] = Eos
    /\ \A g \in Devices : /\ masterPc = "unstarted" <=> copyPc[g] = "unstarted"
                          /\ masterPc = "unstarted" <=> procPc[g] = "unstarted"
                          /\ masterPc = "unstarted" <=> outPc[g] = "unstarted"
    /\ runPc \in {"start", "setup"} =>
         \A g \in Devices : tagQ[g] = <<>> /\ imageQ[g] = <<>>
    /\ runPc \in {"~tag", "~image", "~join", "~release", "~end"} => Stopped(masterPc)
    /\ runPc = "~release" =>
         Stopped(copyPc[dev]) /\ Stopped(procPc[dev]) /\ Stopped(outPc[dev])

\* All devices are in order.
PairInv == \A g \in Devices : DeviceInv(g)

----------------------------------------------------------------------------
(* What the moves of tags, images and buffers do to PairedWith.            *)

\* What an OpenCL buffer holds.
Buffer == [Slots -> Label]
Flown  == Buffer \cup {Marker}

\* The slots before a buffer.
LEMMA BeforeFacts ==
    /\ Before(1) = 0
    /\ \A k \in Nat : Before(k) \in Int /\ Before(k + 1) = Before(k) + BatchSize
    /\ \A k, m \in Nat : k < m => Before(k) + BatchSize <= Before(m)
    /\ \A k, m \in Nat : k <= m => Before(k) <= Before(m)
<1>1. BatchSize \in Nat /\ BatchSize > 0
  BY ConstantTypes
<1>2. \A k \in Nat : Before(k) \in Int /\ Before(k + 1) = Before(k) + BatchSize
  BY <1>1 DEF Before
<1>3. ASSUME NEW k \in Nat, NEW m \in Nat, k < m
      PROVE  Before(k) + BatchSize <= Before(m)
  <2>1. PICK d \in Nat : m = k + 1 + d
    <3>1. m - k - 1 \in Nat /\ m = k + 1 + (m - k - 1)
      BY <1>3
    <3> QED BY <3>1
  <2>2. Before(m) = (k + d) * BatchSize /\ Before(k) = (k - 1) * BatchSize
    BY <2>1 DEF Before
  <2>3. (k + d) * BatchSize = (k - 1) * BatchSize + BatchSize + d * BatchSize
    BY <1>1, <2>1
  <2>4. d * BatchSize >= 0
    BY <1>1, <2>1
  <2>5. (k - 1) * BatchSize \in Int /\ d * BatchSize \in Int
    BY <1>1, <2>1
  <2> QED BY <1>1, <2>2, <2>3, <2>4, <2>5
<1>4. \A k, m \in Nat : k <= m => Before(k) <= Before(m)
  BY <1>1, <1>2, <1>3
<1> QED BY <1>1, <1>2, <1>3, <1>4 DEF Before

\* A buffer is not a marker.
LEMMA BufferNotMarker == \A x \in Buffer : x # Marker
<1>1. 1 \in Slots
  BY ConstantTypes DEF Slots
<1> QED BY <1>1 DEF Buffer, Marker

\* The types of the arguments of PairedWith.
PairTypes(t, n, f, c, q, done) ==
    /\ t \in Seq(Tag) /\ n \in 0..BatchSize /\ f \in Seq(Flown)
    /\ c \in Seq(Images) /\ q \in Seq(Tag) /\ done \in BOOLEAN

\* A tag is enqueued or dequeued, an image or a buffer appended or removed.
LEMMA Tailed ==
    ASSUME NEW S, NEW q \in Seq(S), q # <<>>
    PROVE  /\ Tail(q) \in Seq(S) /\ Len(Tail(q)) + 1 = Len(q) /\ Len(Tail(q)) \in Nat
           /\ DOMAIN q = 1..Len(q) /\ Head(q) = q[1] /\ 1 \in DOMAIN q /\ Head(q) \in S
           /\ \A i \in DOMAIN Tail(q) : i \in Nat /\ i >= 1 /\ i + 1 \in DOMAIN q
                                        /\ Tail(q)[i] = q[i + 1]
           /\ \A i \in DOMAIN q :
                i \in Nat /\ i >= 1 /\ (i > 1 => i - 1 \in DOMAIN Tail(q)
                                                 /\ Tail(q)[i - 1] = q[i])
OBVIOUS

\* What appending does to a sequence.
LEMMA Appended ==
    ASSUME NEW S, NEW q \in Seq(S), NEW x \in S
    PROVE  /\ Append(q, x) \in Seq(S) /\ Len(Append(q, x)) = Len(q) + 1 /\ Len(q) \in Nat
           /\ DOMAIN q = 1..Len(q) /\ Append(q, x)[Len(q) + 1] = x
           /\ Len(q) + 1 \in DOMAIN Append(q, x)
           /\ \A i \in DOMAIN q : i \in DOMAIN Append(q, x) /\ Append(q, x)[i] = q[i]
           /\ \A i \in DOMAIN Append(q, x) :
                i \in Nat /\ i >= 1 /\ (i \in DOMAIN q \/ i = Len(q) + 1)
OBVIOUS

\* The output copy takes a tag for the next slot of its buffer.
LEMMA TagTaken ==
    ASSUME NEW t, NEW n, NEW f, NEW c, NEW q, NEW done,
           PairTypes(t, n, f, c, q, done), PairedWith(t, n, f, c, q, done),
           t # <<>>, f # <<>>, n < BatchSize
    PROVE  PairedWith(Tail(t), n + 1, f, c, q, done)
<1> DEFINE u == Tail(t)
           base == Before(Len(f) + 1) - n
<1>1. /\ t \in Seq(Tag) /\ n \in Nat /\ Len(f) \in Nat /\ Len(f) >= 1 /\ Len(c) \in Nat
      /\ DOMAIN f = 1..Len(f)
  BY ConstantTypes DEF PairTypes
<1>2. /\ Len(u) + 1 = Len(t) /\ Len(u) \in Nat /\ Len(t) \in Nat
      /\ \A i \in DOMAIN u : i \in Nat /\ i + 1 \in DOMAIN t /\ u[i] = t[i + 1]
      /\ \A i \in DOMAIN t : i \in Nat /\ i >= 1
                             /\ (i > 1 => i - 1 \in DOMAIN u /\ u[i - 1] = t[i])
  BY <1>1, Tailed
<1> HIDE DEF u
<1>3. PairedAt(t, n, f, c, q, done, base)
  BY DEF PairedWith
<1>4. \A k \in DOMAIN f : Before(k) \in Int
  BY <1>1, BeforeFacts
<1>5. base \in Nat /\ base - 1 \in Nat /\ Before(Len(f) + 1) - (n + 1) = base - 1
  <2>1. Before(Len(f) + 1) >= BatchSize /\ Before(Len(f) + 1) \in Int
    <3>1. 1 < Len(f) + 1 /\ Len(f) + 1 \in Nat /\ 1 \in Nat
      BY <1>1
    <3>2. Before(1) + BatchSize <= Before(Len(f) + 1) /\ Before(Len(f) + 1) \in Int
      BY <3>1, BeforeFacts
    <3> QED BY <3>2, BeforeFacts, ConstantTypes
  <2> DEFINE slots == Before(Len(f) + 1)
  <2> HIDE DEF slots
  <2>2. slots - n \in Nat /\ slots - n - 1 \in Nat /\ slots - (n + 1) = slots - n - 1
    BY <1>1, <2>1, ConstantTypes DEF slots
  <2> QED BY <2>2 DEF slots
<1> HIDE DEF base
<1>6. SlotsMatch(u, n + 1, f)
  <2> SUFFICES ASSUME NEW k \in DOMAIN f, NEW s \in Slots, NEW i \in DOMAIN u,
                      i + (n + 1) = Before(k) + s, u[i] # Eos
               PROVE  f[k] # Marker /\ (BatchDecodedWhole => f[k][s] = u[i])
    BY DEF SlotsMatch
  <2>1. i + 1 \in DOMAIN t /\ u[i] = t[i + 1] /\ (i + 1) + n = Before(k) + s
    BY <1>1, <1>2
  <2> QED BY <1>3, <2>1 DEF PairedAt, SlotsMatch
<1>7. BuffersTagged(u, n + 1, f)
  <2> SUFFICES ASSUME NEW k \in DOMAIN f, f[k] # Marker, Before(k) >= n + 1
               PROVE  /\ Before(k) + 1 - (n + 1) \in DOMAIN u
                      /\ u[Before(k) + 1 - (n + 1)] # Eos
    BY DEF BuffersTagged
  <2> DEFINE i == Before(k) + 1 - n
  <2>1. i \in DOMAIN t /\ t[i] # Eos
    BY <1>1, <1>3, <1>4 DEF PairedAt, BuffersTagged
  <2>2. i > 1 /\ Before(k) + 1 - (n + 1) = i - 1
    BY <1>1, <1>4
  <2> HIDE DEF i
  <2> QED BY <1>2, <2>1, <2>2
<1>8. BatchMatches(u, base - 1, c)
  <2> SUFFICES ASSUME NEW j \in DOMAIN c
               PROVE  base - 1 + j \in DOMAIN u /\ u[base - 1 + j] = c[j]
    BY DEF BatchMatches
  <2>1. base + j \in DOMAIN t /\ t[base + j] = c[j] /\ j \in Nat /\ j >= 1
    BY <1>3 DEF PairedAt, BatchMatches, PairTypes
  <2>2. base + j > 1 /\ base + j - 1 = base - 1 + j
    BY <1>5, <2>1
  <2> DEFINE i == base + j
  <2> HIDE DEF i
  <2>3. i - 1 \in DOMAIN u /\ u[i - 1] = t[i]
    BY <1>2, <2>1, <2>2 DEF i
  <2>4. i - 1 = base - 1 + j
    BY <1>5, <2>1 DEF i
  <2>5. t[i] = c[j]
    BY <2>1 DEF i
  <2> QED BY <2>3, <2>4, <2>5
<1>9. base - 1 + Len(c) = base + Len(c) - 1 /\ base + Len(c) \in Int
  BY <1>1, <1>5
<1> DEFINE m == base + Len(c)
<1> HIDE DEF m
<1>10. QueueMatches(t, m, q) => QueueMatches(u, m - 1, q)
  <2>1. m \in Int /\ Len(q) \in Nat /\ \A j \in DOMAIN q : j \in Nat
    BY <1>9 DEF m, PairTypes
  <2>5. Len(t) = m + Len(q) => Len(u) = m - 1 + Len(q)
    BY <1>1, <1>2, <2>1
  <2> SUFFICES ASSUME QueueMatches(t, m, q), NEW i \in DOMAIN u
               PROVE  /\ i <= m - 1 => u[i] # Eos
                      /\ \A j \in DOMAIN q : i = m - 1 + j => u[i] = q[j]
    BY <2>5 DEF QueueMatches
  <2>2. i + 1 \in DOMAIN t /\ u[i] = t[i + 1] /\ i \in Nat
    BY <1>2
  <2>3. i <= m - 1 => u[i] # Eos
    BY <2>1, <2>2 DEF QueueMatches
  <2>4. ASSUME NEW j \in DOMAIN q, i = m - 1 + j PROVE u[i] = q[j]
    <3>1. i + 1 = m + j
      BY <2>1, <2>2, <2>4
    <3> QED BY <2>2, <3>1 DEF QueueMatches
  <2> QED BY <2>3, <2>4
<1>11. QueueEnded(t, m, q) => QueueEnded(u, m - 1, q)
  BY <1>2, <1>9 DEF QueueEnded, m
<1>12. MarkersLast(u)
  <2> SUFFICES ASSUME NEW i \in DOMAIN u, NEW j \in DOMAIN u, i <= j, u[i] = Eos
               PROVE  u[j] = Eos
    BY DEF MarkersLast
  <2>1. i + 1 <= j + 1
    BY <1>2
  <2> QED BY <1>2, <1>3, <2>1 DEF PairedAt, MarkersLast
<1>13. PairedAt(u, n + 1, f, c, q, done, base - 1)
  BY <1>3, <1>5, <1>6, <1>7, <1>8, <1>9, <1>10, <1>11, <1>12 DEF PairedAt, m
<1> QED BY <1>5, <1>13 DEF PairedWith, u

\* The output copy returns the buffer whose slots have all been read.
LEMMA BufferReturned ==
    ASSUME NEW t, NEW f, NEW c, NEW q, NEW done,
           PairTypes(t, BatchSize, f, c, q, done), PairedWith(t, BatchSize, f, c, q, done),
           f # <<>>
    PROVE  PairedWith(t, 0, Tail(f), c, q, done)
<1> DEFINE h == Tail(f)
           base == Before(Len(f) + 1) - BatchSize
<1>1. t \in Seq(Tag) /\ f \in Seq(Flown)
  BY DEF PairTypes
<1>2. /\ Len(h) + 1 = Len(f) /\ Len(h) \in Nat /\ Len(f) \in Nat
      /\ \A k \in DOMAIN h : k \in Nat /\ k + 1 \in DOMAIN f /\ h[k] = f[k + 1]
  BY <1>1, Tailed
<1> HIDE DEF h
<1>3. PairedAt(t, BatchSize, f, c, q, done, base)
  BY DEF PairedWith
<1>4. /\ \A k \in DOMAIN h : Before(k) \in Int /\ Before(k + 1) = Before(k) + BatchSize
      /\ BatchSize \in Nat
  BY <1>2, BeforeFacts, ConstantTypes
<1>5. base = Before(Len(h) + 1) - 0 /\ base \in Nat
  <2>1. Before(Len(f) + 1) = Before(Len(f)) + BatchSize /\ Before(Len(f)) \in Int
    BY <1>2, BeforeFacts
  <2>2. base \in Nat
    BY <1>3 DEF PairedAt
  <2> QED BY <1>2, <1>4, <2>1, <2>2
<1> HIDE DEF base
<1>6. SlotsMatch(t, 0, h)
  <2> SUFFICES ASSUME NEW k \in DOMAIN h, NEW s \in Slots, NEW i \in DOMAIN t,
                      i + 0 = Before(k) + s, t[i] # Eos
               PROVE  h[k] # Marker /\ (BatchDecodedWhole => h[k][s] = t[i])
    BY DEF SlotsMatch
  <2>1. i + BatchSize = Before(k + 1) + s
    BY <1>1, <1>4 DEF Slots
  <2> QED BY <1>2, <1>3, <2>1 DEF PairedAt, SlotsMatch
<1>7. BuffersTagged(t, 0, h)
  <2> SUFFICES ASSUME NEW k \in DOMAIN h, h[k] # Marker, Before(k) >= 0
               PROVE  Before(k) + 1 - 0 \in DOMAIN t /\ t[Before(k) + 1 - 0] # Eos
    BY DEF BuffersTagged
  <2>1. Before(k + 1) >= BatchSize /\ Before(k) + 1 - 0 = Before(k + 1) + 1 - BatchSize
    BY <1>4
  <2> QED BY <1>2, <1>3, <2>1 DEF PairedAt, BuffersTagged
<1>8. PairedAt(t, 0, h, c, q, done, base)
  BY <1>3, <1>5, <1>6, <1>7 DEF PairedAt
<1> QED BY <1>5, <1>8 DEF PairedWith, h

\* Nothing but markers is left, so that nothing has to be paired.
LEMMA NothingLeft ==
    ASSUME NEW t, NEW f, NEW q,
           PairTypes(t, 0, f, <<>>, q, TRUE),
           \A i \in DOMAIN t : t[i] = Eos, \A j \in DOMAIN q : q[j] = Eos,
           \A k \in DOMAIN f : f[k] = Marker
    PROVE  PairedWith(t, 0, f, <<>>, q, TRUE)
<1> DEFINE base == Before(Len(f) + 1) - 0
<1>1. base \in Nat
  <2>1. Len(f) + 1 \in Nat /\ 1 <= Len(f) + 1 /\ 1 \in Nat
    BY DEF PairTypes
  <2> DEFINE slots == Before(Len(f) + 1)
  <2>2. slots >= 0 /\ slots \in Int
    BY <2>1, BeforeFacts
  <2> HIDE DEF slots
  <2>3. slots - 0 \in Nat
    BY <2>2
  <2> QED BY <2>3 DEF slots
<1> HIDE DEF base
<1>2. PairedAt(t, 0, f, <<>>, q, TRUE, base)
  BY <1>1 DEF PairedAt, MarkersLast, SlotsMatch, BuffersTagged, BatchMatches, QueueEnded,
              PairTypes
<1> QED BY <1>2 DEF PairedWith, base

\* The slots of the buffers come before the tags after them.
LEMMA Based ==
    ASSUME NEW n \in 0..BatchSize, NEW f \in Seq(Flown),
           NEW base \in Nat, base = Before(Len(f) + 1) - n
    PROVE  /\ n \in Nat /\ Len(f) \in Nat
           /\ BatchSize \in Nat /\ Before(Len(f) + 1) = base + n
           /\ \A k \in DOMAIN f : Before(k) \in Int /\ Before(k) + BatchSize <= base + n
           /\ \A k \in DOMAIN f, s \in Slots : Before(k) + s <= base + n
<1>1. n \in Nat /\ Len(f) \in Nat /\ BatchSize \in Nat /\ DOMAIN f = 1..Len(f)
  BY ConstantTypes
<1> DEFINE slots == Before(Len(f) + 1)
<1>2. slots \in Int /\ \A k \in DOMAIN f : Before(k) \in Int /\ Before(k) + BatchSize <= slots
  <2>1. Len(f) + 1 \in Nat /\ \A k \in DOMAIN f : k \in Nat /\ k < Len(f) + 1
    BY <1>1
  <2> QED BY <2>1, BeforeFacts
<1> HIDE DEF slots
<1>3. slots = base + n
  BY <1>1, <1>2 DEF slots
<1>4. \A k \in DOMAIN f, s \in Slots : Before(k) + s <= base + n
  BY <1>1, <1>2, <1>3 DEF Slots
<1> QED BY <1>1, <1>2, <1>3, <1>4 DEF slots

\* A tag is enqueued, and its image is announced.
LEMMA ImageAnnounced ==
    ASSUME NEW t, NEW n, NEW f, NEW c, NEW q, NEW done, NEW x \in Tag,
           PairTypes(t, n, f, c, q, done), PairedWith(t, n, f, c, q, done),
           x # Eos => ~done /\ \A i \in DOMAIN t : t[i] # Eos
    PROVE  PairedWith(Append(t, x), n, f, c, Append(q, x), done)
<1> DEFINE u == Append(t, x)
           p == Append(q, x)
           base == Before(Len(f) + 1) - n
<1>1. t \in Seq(Tag) /\ q \in Seq(Tag)
  BY DEF PairTypes
<1>2. /\ Len(u) = Len(t) + 1 /\ Len(t) \in Nat /\ DOMAIN t = 1..Len(t)
      /\ u[Len(t) + 1] = x
      /\ \A i \in DOMAIN t : i \in DOMAIN u /\ u[i] = t[i]
      /\ \A i \in DOMAIN u : i \in Nat /\ i >= 1 /\ (i \in DOMAIN t \/ i = Len(t) + 1)
  BY <1>1, Appended
<1>3. /\ Len(p) = Len(q) + 1 /\ Len(q) \in Nat /\ p[Len(q) + 1] = x
      /\ \A j \in DOMAIN q : p[j] = q[j]
      /\ \A j \in DOMAIN p : j \in Nat /\ (j \in DOMAIN q \/ j = Len(q) + 1)
      /\ \A j \in DOMAIN q : j \in Nat /\ j <= Len(q)
  BY <1>1, Appended
<1> HIDE DEF u, p
<1>4. PairedAt(t, n, f, c, q, done, base)
  BY DEF PairedWith
<1>5. base \in Nat
  BY <1>4 DEF PairedAt
<1>6. /\ n \in Nat /\ Len(f) \in Nat /\ Len(c) \in Nat
      /\ Before(Len(f) + 1) = base + n
      /\ \A k \in DOMAIN f, s \in Slots : Before(k) + s <= base + n
  BY <1>5, Based DEF PairTypes
<1> HIDE DEF base
<1>7. ~done => Len(t) = base + Len(c) + Len(q)
  BY <1>4 DEF PairedAt, QueueMatches
<1>8. SlotsMatch(u, n, f)
  <2> SUFFICES ASSUME NEW k \in DOMAIN f, NEW s \in Slots, NEW i \in DOMAIN u,
                      i + n = Before(k) + s, u[i] # Eos
               PROVE  f[k] # Marker /\ (BatchDecodedWhole => f[k][s] = u[i])
    BY DEF SlotsMatch
  <2>1. i <= base
    BY <1>2, <1>5, <1>6
  <2>2. i \in DOMAIN t
    <3>1. CASE done
      BY <1>2, <3>1
    <3>2. CASE ~done
      BY <1>2, <1>3, <1>5, <1>6, <1>7, <2>1, <3>2
    <3> QED BY <3>1, <3>2
  <2> QED BY <1>2, <1>4, <2>2 DEF PairedAt, SlotsMatch
<1>9. BuffersTagged(u, n, f)
  BY <1>2, <1>4 DEF PairedAt, BuffersTagged
<1>10. BatchMatches(u, base, c)
  BY <1>2, <1>4 DEF PairedAt, BatchMatches
<1> DEFINE m == base + Len(c)
<1>11. m \in Nat /\ (~done => Len(t) = m + Len(q))
  BY <1>5, <1>6, <1>7
<1> HIDE DEF m
<1>12. ASSUME ~done, QueueMatches(t, m, q) PROVE QueueMatches(u, m, p)
  <2>1. Len(u) = m + Len(p)
    <3>1. Len(t) = m + Len(q)
      BY <1>11, <1>12
    <3> QED BY <1>2, <1>3, <1>11, <3>1
  <2> SUFFICES ASSUME NEW i \in DOMAIN u
               PROVE  /\ i <= m => u[i] # Eos
                      /\ \A j \in DOMAIN p : i = m + j => u[i] = p[j]
    BY <2>1 DEF QueueMatches
  <2>2. CASE i \in DOMAIN t
    <3>1. i <= m => u[i] # Eos
      BY <1>2, <1>12, <2>2 DEF QueueMatches
    <3>2. ASSUME NEW j \in DOMAIN p, i = m + j PROVE u[i] = p[j]
      <4>1. j \in DOMAIN q
        BY <1>2, <1>3, <1>11, <1>12, <2>2, <3>2
      <4> QED BY <1>2, <1>3, <1>12, <2>2, <3>2, <4>1 DEF QueueMatches
    <3> QED BY <3>1, <3>2
  <2>3. CASE i = Len(t) + 1
    <3>1. i = m + (Len(q) + 1) /\ ~(i <= m)
      BY <1>3, <1>11, <1>12, <2>3
    <3>2. ASSUME NEW j \in DOMAIN p, i = m + j PROVE j = Len(q) + 1
      BY <1>3, <1>11, <3>1, <3>2
    <3> QED BY <1>2, <1>3, <2>3, <3>1, <3>2
  <2> QED BY <1>2, <2>2, <2>3
<1>13. ASSUME done, QueueEnded(t, m, q) PROVE QueueEnded(u, m, p)
  BY <1>2, <1>3, <1>13 DEF QueueEnded
<1>14. MarkersLast(u)
  <2> SUFFICES ASSUME NEW i \in DOMAIN u, NEW j \in DOMAIN u, i <= j, u[i] = Eos
               PROVE  u[j] = Eos
    BY DEF MarkersLast
  <2>1. CASE x = Eos
    <3>1. CASE j \in DOMAIN t
      <4>1. i \in DOMAIN t
        BY <1>2, <3>1
      <4> QED BY <1>2, <1>4, <3>1, <4>1 DEF PairedAt, MarkersLast
    <3>2. CASE j = Len(t) + 1
      BY <1>2, <2>1, <3>2
    <3> QED BY <1>2, <3>1, <3>2
  <2>2. CASE x # Eos
    BY <1>2, <2>2
  <2> QED BY <2>1, <2>2
<1>15. PairedAt(u, n, f, c, p, done, base)
  BY <1>4, <1>8, <1>9, <1>10, <1>12, <1>13, <1>14 DEF PairedAt, m
<1> QED BY <1>15 DEF PairedWith, u, p, base

\* The input copy takes an image into its batch.
LEMMA ImageTaken ==
    ASSUME NEW t, NEW n, NEW f, NEW c, NEW q,
           PairTypes(t, n, f, c, q, FALSE), PairedWith(t, n, f, c, q, FALSE),
           q # <<>>, Head(q) # Eos
    PROVE  PairedWith(t, n, f, Append(c, Head(q)), Tail(q), FALSE)
<1> DEFINE b == Append(c, Head(q))
           p == Tail(q)
           base == Before(Len(f) + 1) - n
<1>1. q \in Seq(Tag) /\ t \in Seq(Tag) /\ c \in Seq(Images)
  BY DEF PairTypes
<1>2. /\ Len(p) + 1 = Len(q) /\ Len(p) \in Nat /\ Head(q) = q[1] /\ Head(q) \in Tag
      /\ 1 \in DOMAIN q
      /\ \A j \in DOMAIN p : j \in Nat /\ j >= 1 /\ j + 1 \in DOMAIN q /\ p[j] = q[j + 1]
  BY <1>1, Tailed
<1>3. /\ Len(b) = Len(c) + 1 /\ b[Len(c) + 1] = q[1]
      /\ \A j \in DOMAIN c : b[j] = c[j]
      /\ \A j \in DOMAIN b : j \in Nat /\ (j \in DOMAIN c \/ j = Len(c) + 1)
  <2>1. Head(q) \in Images
    BY <1>2 DEF Tag
  <2> QED BY <1>1, <1>2, <2>1, Appended
<1> HIDE DEF b, p
<1>4. PairedAt(t, n, f, c, q, FALSE, base)
  BY DEF PairedWith
<1>5. base \in Nat
  BY <1>4 DEF PairedAt
<1>6. n \in Nat /\ Len(c) \in Nat /\ Len(q) \in Nat /\ Before(Len(f) + 1) = base + n
  BY <1>5, Based DEF PairTypes
<1> HIDE DEF base
<1> DEFINE m == base + Len(c)
<1>7. m \in Nat /\ base + Len(b) = m + 1 /\ base + (Len(c) + 1) = m + 1
  BY <1>3, <1>5, <1>6
<1>8. QueueMatches(t, m, q)
  BY <1>4 DEF PairedAt
<1> HIDE DEF m
<1>9. m + 1 \in DOMAIN t /\ Len(t) = m + 1 + Len(p)
  <2>1. Len(t) \in Nat /\ DOMAIN t = 1..Len(t) /\ Len(t) = m + Len(q)
    BY <1>1, <1>8 DEF QueueMatches
  <2> QED BY <1>2, <1>7, <2>1
<1>10. t[m + 1] = q[1] /\ t[m + 1] # Eos
  BY <1>2, <1>8, <1>9 DEF QueueMatches
<1>11. BatchMatches(t, base, b)
  <2> SUFFICES ASSUME NEW j \in DOMAIN b
               PROVE  base + j \in DOMAIN t /\ t[base + j] = b[j]
    BY DEF BatchMatches
  <2>1. CASE j \in DOMAIN c
    BY <1>3, <1>4, <2>1 DEF PairedAt, BatchMatches
  <2>2. CASE j = Len(c) + 1
    BY <1>3, <1>7, <1>9, <1>10, <2>2
  <2> QED BY <1>3, <2>1, <2>2
<1>12. QueueMatches(t, m + 1, p)
  <2> SUFFICES ASSUME NEW i \in DOMAIN t
               PROVE  /\ i <= m + 1 => t[i] # Eos
                      /\ \A j \in DOMAIN p : i = m + 1 + j => t[i] = p[j]
    BY <1>9 DEF QueueMatches
  <2>1. i \in Nat /\ (i <= m + 1 => i <= m \/ i = m + 1)
    BY <1>1, <1>7
  <2>2. i <= m + 1 => t[i] # Eos
    BY <1>8, <1>10, <2>1 DEF QueueMatches
  <2>3. ASSUME NEW j \in DOMAIN p, i = m + 1 + j PROVE t[i] = p[j]
    <3>1. i = m + (j + 1)
      BY <1>2, <1>7, <2>3
    <3> QED BY <1>2, <1>8, <3>1 DEF QueueMatches
  <2> QED BY <2>2, <2>3
<1>13. PairedAt(t, n, f, b, p, FALSE, base)
  BY <1>4, <1>7, <1>11, <1>12 DEF PairedAt
<1> QED BY <1>13 DEF PairedWith, b, base, p

\* The input copy takes the marker.
LEMMA MarkerTaken ==
    ASSUME NEW t, NEW n, NEW f, NEW c, NEW q,
           PairTypes(t, n, f, c, q, FALSE), PairedWith(t, n, f, c, q, FALSE),
           q # <<>>, Head(q) = Eos
    PROVE  PairedWith(t, n, f, c, Tail(q), TRUE)
<1> DEFINE p == Tail(q)
           base == Before(Len(f) + 1) - n
<1>1. q \in Seq(Tag) /\ t \in Seq(Tag)
  BY DEF PairTypes
<1>2. /\ Len(q) >= 1 /\ Head(q) = q[1] /\ 1 \in DOMAIN q
      /\ \A j \in DOMAIN p : j \in Nat /\ j >= 1 /\ j + 1 \in DOMAIN q /\ p[j] = q[j + 1]
  BY <1>1, Tailed
<1> HIDE DEF p
<1>3. PairedAt(t, n, f, c, q, FALSE, base)
  BY DEF PairedWith
<1>4. base \in Nat
  BY <1>3 DEF PairedAt
<1>5. n \in Nat /\ Len(c) \in Nat /\ Len(q) \in Nat /\ Before(Len(f) + 1) = base + n
  BY <1>4, Based DEF PairTypes
<1> HIDE DEF base
<1> DEFINE m == base + Len(c)
<1>6. m \in Nat
  BY <1>4, <1>5
<1>7. QueueMatches(t, m, q) /\ MarkersLast(t)
  BY <1>3 DEF PairedAt
<1> HIDE DEF m
<1>8. Len(t) \in Nat /\ DOMAIN t = 1..Len(t) /\ Len(t) = m + Len(q) /\ m + 1 \in DOMAIN t
  <2>1. Len(t) \in Nat /\ DOMAIN t = 1..Len(t) /\ Len(t) = m + Len(q)
    BY <1>1, <1>7 DEF QueueMatches
  <2> QED BY <1>2, <1>5, <1>6, <2>1
<1>9. t[m + 1] = Eos
  BY <1>2, <1>7, <1>8 DEF QueueMatches
<1>10. \A i \in DOMAIN t : t[i] # Eos => i <= m
  <2> SUFFICES ASSUME NEW i \in DOMAIN t, ~ (i <= m) PROVE t[i] = Eos
    OBVIOUS
  <2>1. m + 1 <= i
    BY <1>1, <1>6
  <2> QED BY <1>7, <1>8, <1>9, <2>1 DEF MarkersLast
<1>11. \A j \in DOMAIN p : p[j] = Eos
  <2> SUFFICES ASSUME NEW j \in DOMAIN p PROVE p[j] = Eos
    OBVIOUS
  <2>1. j + 1 \in DOMAIN q /\ p[j] = q[j + 1] /\ j \in Nat /\ j + 1 <= Len(q)
    BY <1>1, <1>2
  <2>2. m + (j + 1) \in DOMAIN t /\ m + 1 <= m + (j + 1)
    BY <1>5, <1>6, <1>8, <2>1
  <2>3. t[m + (j + 1)] = Eos
    BY <1>7, <1>8, <1>9, <2>2 DEF MarkersLast
  <2> QED BY <1>7, <2>1, <2>2, <2>3 DEF QueueMatches
<1>12. PairedAt(t, n, f, c, p, TRUE, base)
  BY <1>3, <1>10, <1>11 DEF PairedAt, m, QueueEnded
<1> QED BY <1>12 DEF PairedWith, base, p

\* The input copy passes on the batch it has collected.
LEMMA BatchPassed ==
    ASSUME NEW t, NEW n, NEW f, NEW c, NEW q, NEW done, NEW x \in Buffer,
           PairTypes(t, n, f, c, q, done), PairedWith(t, n, f, c, q, done),
           c # <<>>, Len(c) <= BatchSize, ~done => Len(c) = BatchSize,
           BatchDecodedWhole => \A s \in DOMAIN c : x[s] = c[s]
    PROVE  PairedWith(t, n, Append(f, x), <<>>, q, done)
<1> DEFINE h == Append(f, x)
           last == Len(f) + 1
           base == Before(last) - n
<1>1. t \in Seq(Tag) /\ f \in Seq(Flown) /\ c \in Seq(Images) /\ x \in Flown
  BY DEF PairTypes, Flown
<1>2. /\ Len(h) = last
      /\ \A k \in DOMAIN f : h[k] = f[k]
      /\ \A k \in DOMAIN h : k \in Nat /\ (k \in DOMAIN f \/ k = last)
      /\ h[last] = x
  BY <1>1, Appended
<1>3. PairedAt(t, n, f, c, q, done, base)
  BY DEF PairedWith
<1>4. base \in Nat
  BY <1>3 DEF PairedAt
<1>5. /\ n \in Nat /\ Len(f) \in Nat /\ Len(c) \in Nat /\ BatchSize \in Nat
      /\ Before(last) = base + n
  BY <1>4, Based DEF PairTypes
<1>6. Before(last + 1) = Before(last) + BatchSize
  BY <1>5, BeforeFacts
<1>7. /\ \A i \in DOMAIN t : i \in Nat
      /\ Len(c) >= 1 /\ 1 \in DOMAIN c /\ c[1] \in Images
      /\ \A s \in Nat : s >= 1 /\ s <= Len(c) => s \in DOMAIN c
  BY <1>1
<1> HIDE DEF h, last, base
<1>8. base + BatchSize \in Nat /\ Before(last + 1) - n = base + BatchSize
      /\ base + BatchSize + Len(<<>>) = base + BatchSize
  <2>1. Len(<<>>) = 0
    OBVIOUS
  <2> QED BY <1>4, <1>5, <1>6, <2>1
<1>9. BatchMatches(t, base, c)
  BY <1>3 DEF PairedAt
<1>10. ASSUME NEW s \in Slots, NEW i \in DOMAIN t, i + n = Before(last) + s, t[i] # Eos
       PROVE  BatchDecodedWhole => x[s] = t[i]
  <2>1. i = base + s /\ s \in Nat /\ s >= 1 /\ s <= BatchSize
    <3>1. s \in Nat /\ s >= 1 /\ s <= BatchSize
      BY ConstantTypes DEF Slots
    <3>2. i + n = base + n + s /\ i \in Nat
      BY <1>5, <1>7, <1>10
    <3> QED BY <1>4, <1>5, <3>1, <3>2
  <2>2. s \in DOMAIN c
    <3>1. CASE ~done
      BY <1>5, <1>7, <2>1, <3>1
    <3>2. CASE done
      <4>1. QueueEnded(t, base + Len(c), q)
        BY <1>3, <3>2 DEF PairedAt
      <4>2. i <= base + Len(c)
        BY <1>10, <4>1 DEF QueueEnded
      <4>3. \A a, b, d, k \in Nat : a = b + d /\ a <= b + k => d <= k
        OBVIOUS
      <4>4. i \in Nat
        BY <1>7
      <4>5. s <= Len(c)
        BY <1>4, <1>5, <2>1, <4>2, <4>3, <4>4
      <4> QED BY <1>5, <1>7, <2>1, <4>5
    <3> QED BY <3>1, <3>2
  <2> QED BY <1>9, <2>1, <2>2 DEF BatchMatches
<1>11. SlotsMatch(t, n, h)
  <2> SUFFICES ASSUME NEW k \in DOMAIN h, NEW s \in Slots, NEW i \in DOMAIN t,
                      i + n = Before(k) + s, t[i] # Eos
               PROVE  h[k] # Marker /\ (BatchDecodedWhole => h[k][s] = t[i])
    BY DEF SlotsMatch
  <2>1. CASE k \in DOMAIN f
    BY <1>2, <1>3, <2>1 DEF PairedAt, SlotsMatch
  <2>2. CASE k = last
    BY <1>2, <1>10, <2>2, BufferNotMarker
  <2> QED BY <1>2, <2>1, <2>2
<1>12. BuffersTagged(t, n, h)
  <2> SUFFICES ASSUME NEW k \in DOMAIN h, h[k] # Marker, Before(k) >= n
               PROVE  Before(k) + 1 - n \in DOMAIN t /\ t[Before(k) + 1 - n] # Eos
    BY DEF BuffersTagged
  <2>1. CASE k \in DOMAIN f
    BY <1>2, <1>3, <2>1 DEF PairedAt, BuffersTagged
  <2>2. CASE k = last
    <3>1. Before(k) + 1 - n = base + 1
      BY <1>4, <1>5, <2>2
    <3>2. base + 1 \in DOMAIN t /\ t[base + 1] # Eos
      BY <1>7, <1>9, Markers DEF BatchMatches
    <3> QED BY <3>1, <3>2
  <2> QED BY <1>2, <2>1, <2>2
<1>13. ASSUME ~done PROVE QueueMatches(t, base + BatchSize, q)
  BY <1>3, <1>13 DEF PairedAt
<1>14. ASSUME done PROVE QueueEnded(t, base + BatchSize, q)
  <2>1. QueueEnded(t, base + Len(c), q)
    BY <1>3, <1>14 DEF PairedAt
  <2>2. \A i \in Nat : i <= base + Len(c) => i <= base + BatchSize
    BY <1>4, <1>5
  <2> QED BY <1>7, <2>1, <2>2 DEF QueueEnded
<1>15. PairedAt(t, n, h, <<>>, q, done, base + BatchSize)
  BY <1>3, <1>8, <1>11, <1>12, <1>13, <1>14 DEF PairedAt, BatchMatches
<1> QED BY <1>2, <1>8, <1>15 DEF PairedWith, h

\* The marker follows the last buffer.
LEMMA MarkerPassed ==
    ASSUME NEW t, NEW n, NEW f, NEW q,
           PairTypes(t, n, f, <<>>, q, TRUE), PairedWith(t, n, f, <<>>, q, TRUE)
    PROVE  PairedWith(t, n, Append(f, Marker), <<>>, q, TRUE)
<1> DEFINE h == Append(f, Marker)
           last == Len(f) + 1
           base == Before(last) - n
<1>1. t \in Seq(Tag) /\ f \in Seq(Flown) /\ Marker \in Flown
  BY DEF PairTypes, Flown
<1>2. /\ Len(h) = last
      /\ \A k \in DOMAIN f : h[k] = f[k]
      /\ \A k \in DOMAIN h : k \in Nat /\ (k \in DOMAIN f \/ k = last)
      /\ h[last] = Marker
  BY <1>1, Appended
<1>3. PairedAt(t, n, f, <<>>, q, TRUE, base)
  BY DEF PairedWith
<1>4. base \in Nat
  BY <1>3 DEF PairedAt
<1>5. n \in Nat /\ Len(f) \in Nat /\ BatchSize \in Nat /\ Before(last) = base + n
  <2>1. n \in 0..BatchSize
    BY DEF PairTypes
  <2> HIDE DEF base
  <2>2. base = Before(Len(f) + 1) - n
    BY DEF base
  <2> QED BY <1>1, <1>4, <2>1, <2>2, Based
<1>6. Before(last + 1) = Before(last) + BatchSize
  BY <1>5, BeforeFacts
<1>7. \A i \in DOMAIN t : i \in Nat
  BY <1>1
<1> HIDE DEF h, last, base
<1>8. base + BatchSize \in Nat /\ Before(last + 1) - n = base + BatchSize
      /\ base + BatchSize + Len(<<>>) = base + BatchSize /\ base + Len(<<>>) = base
  <2>1. Len(<<>>) = 0
    OBVIOUS
  <2> QED BY <1>4, <1>5, <1>6, <2>1
<1>9. QueueEnded(t, base, q)
  BY <1>3, <1>8 DEF PairedAt
<1>10. SlotsMatch(t, n, h)
  <2> SUFFICES ASSUME NEW k \in DOMAIN h, NEW s \in Slots, NEW i \in DOMAIN t,
                      i + n = Before(k) + s, t[i] # Eos
               PROVE  h[k] # Marker /\ (BatchDecodedWhole => h[k][s] = t[i])
    BY DEF SlotsMatch
  <2>1. CASE k \in DOMAIN f
    BY <1>2, <1>3, <2>1 DEF PairedAt, SlotsMatch
  <2>2. CASE k = last
    <3>1. i = base + s /\ s >= 1 /\ s \in Nat
      BY <1>4, <1>5, <1>7, <2>2 DEF Slots
    <3> QED BY <1>4, <1>9, <3>1 DEF QueueEnded
  <2> QED BY <1>2, <2>1, <2>2
<1>11. BuffersTagged(t, n, h)
  BY <1>2, <1>3 DEF PairedAt, BuffersTagged
<1>12. QueueEnded(t, base + BatchSize, q)
  BY <1>4, <1>5, <1>7, <1>9 DEF QueueEnded
<1>13. PairedAt(t, n, h, <<>>, q, TRUE, base + BatchSize)
  BY <1>3, <1>8, <1>10, <1>11, <1>12 DEF PairedAt, BatchMatches
<1> QED BY <1>2, <1>8, <1>13 DEF PairedWith, h

\* The first tag that waits belongs to the next slot of the first buffer.
LEMMA NextSlot ==
    ASSUME NEW t, NEW n, NEW f, NEW c, NEW q, NEW done,
           PairTypes(t, n, f, c, q, done), PairedWith(t, n, f, c, q, done),
           t # <<>>, f # <<>>, n < BatchSize, Head(t) # Eos
    PROVE  f[1] # Marker /\ (BatchDecodedWhole => f[1][n + 1] = Head(t))
<1>1. t \in Seq(Tag) /\ f \in Seq(Flown) /\ n \in Nat /\ BatchSize \in Nat
  BY ConstantTypes DEF PairTypes
<1>2. 1 \in DOMAIN t /\ Head(t) = t[1] /\ 1 \in DOMAIN f
  BY <1>1, Tailed
<1>3. n + 1 \in Slots /\ 1 + n = Before(1) + (n + 1)
  BY <1>1, BeforeFacts DEF Slots
<1>4. SlotsMatch(t, n, f)
  BY DEF PairedWith, PairedAt
<1> QED BY <1>2, <1>3, <1>4 DEF SlotsMatch

\* A marker among the tags of a buffer: it was the last buffer, and nothing follows.
LEMMA EndSeen ==
    ASSUME NEW t, NEW n, NEW f, NEW c, NEW q, NEW done,
           PairTypes(t, n, f, c, q, done), PairedWith(t, n, f, c, q, done),
           t # <<>>, f # <<>>, n < BatchSize, Head(t) = Eos
    PROVE  /\ done
           /\ \A i \in DOMAIN t : t[i] = Eos
           /\ \A k \in DOMAIN f : k > 1 => f[k] = Marker
<1> DEFINE base == Before(Len(f) + 1) - n
<1>1. t \in Seq(Tag) /\ f \in Seq(Flown) /\ n \in Nat /\ BatchSize \in Nat
  BY ConstantTypes DEF PairTypes
<1>2. /\ 1 \in DOMAIN t /\ Head(t) = t[1] /\ 1 \in DOMAIN f /\ Len(f) \in Nat
      /\ \A i \in DOMAIN t : 1 <= i
      /\ \A k \in DOMAIN f : k \in Nat
  BY <1>1, Tailed
<1>3. PairedAt(t, n, f, c, q, done, base)
  BY DEF PairedWith
<1>4. \A i \in DOMAIN t : t[i] = Eos
  BY <1>2, <1>3 DEF PairedAt, MarkersLast
<1>5. \A k \in DOMAIN f : k > 1 => f[k] = Marker
  <2> SUFFICES ASSUME NEW k \in DOMAIN f, k > 1, f[k] # Marker PROVE FALSE
    OBVIOUS
  <2>1. Before(1) + BatchSize <= Before(k) /\ Before(k) \in Int /\ Before(1) = 0
    BY <1>2, BeforeFacts
  <2>2. Before(k) >= n
    BY <1>1, <2>1
  <2> QED BY <1>3, <1>4, <2>2 DEF PairedAt, BuffersTagged
<1>6. done
  <2> SUFFICES ASSUME ~done PROVE FALSE
    OBVIOUS
  <2>1. base \in Nat
    BY <1>3 DEF PairedAt
  <2>2. Before(Len(f) + 1) = base + n /\ Before(1) + BatchSize <= base + n
    BY <1>1, <1>2, <2>1, Based DEF PairTypes
  <2> HIDE DEF base
  <2>3. base >= 1
    BY <1>1, <2>1, <2>2, BeforeFacts
  <2>4. Len(c) \in Nat
    BY DEF PairTypes
  <2>5. 1 <= base + Len(c)
    BY <2>1, <2>3, <2>4
  <2> QED BY <1>2, <1>3, <1>4, <2>5 DEF PairedAt, QueueMatches
<1> QED BY <1>4, <1>5, <1>6

\* A batch cannot be collected when no tag waits for it.
LEMMA NoBatchLeft ==
    ASSUME NEW t, NEW n, NEW f, NEW c, NEW q, NEW done,
           PairTypes(t, n, f, c, q, done), PairedWith(t, n, f, c, q, done),
           \A i \in DOMAIN t : t[i] = Eos
    PROVE  c = <<>>
<1> SUFFICES ASSUME c # <<>> PROVE FALSE
  OBVIOUS
<1>1. 1 \in DOMAIN c /\ c[1] \in Images
  BY DEF PairTypes
<1> QED BY <1>1, Markers DEF PairedWith, PairedAt, BatchMatches

\* That marker is taken from the tag queue.
LEMMA EndTaken ==
    ASSUME NEW t, NEW n, NEW f, NEW c, NEW q, NEW done,
           PairTypes(t, n, f, c, q, done), PairedWith(t, n, f, c, q, done),
           t # <<>>, f # <<>>, f[1] # Marker, n < BatchSize, Head(t) = Eos
    PROVE  PairedWith(Tail(t), n, f, c, q, done)
<1> DEFINE u == Tail(t)
           base == Before(Len(f) + 1) - n
<1>1. t \in Seq(Tag) /\ f \in Seq(Flown) /\ n \in Nat
  BY ConstantTypes DEF PairTypes
<1>2. /\ \A i \in DOMAIN u : i \in Nat /\ i + 1 \in DOMAIN t /\ u[i] = t[i + 1]
      /\ \A k \in DOMAIN f : k \in Nat /\ k >= 1
      /\ 1 \in DOMAIN f
  BY <1>1, Tailed
<1> HIDE DEF u
<1>3. /\ done /\ \A i \in DOMAIN t : t[i] = Eos
      /\ \A k \in DOMAIN f : k > 1 => f[k] = Marker
  BY EndSeen
<1>4. \A i \in DOMAIN u : u[i] = Eos
  BY <1>2, <1>3
<1>5. PairedAt(t, n, f, c, q, done, base)
  BY DEF PairedWith
<1>6. n > 0
  <2> SUFFICES ASSUME ~(n > 0) PROVE FALSE
    OBVIOUS
  <2>1. Before(1) >= n
    BY <1>1, BeforeFacts
  <2> QED BY <1>2, <1>3, <1>5, <2>1 DEF PairedAt, BuffersTagged
<1>7. BuffersTagged(u, n, f)
  <2> SUFFICES ASSUME NEW k \in DOMAIN f, f[k] # Marker, Before(k) >= n PROVE FALSE
    BY DEF BuffersTagged
  <2>1. k = 1
    BY <1>2, <1>3
  <2> QED BY <1>1, <1>6, <2>1, BeforeFacts
<1>8. SlotsMatch(u, n, f) /\ MarkersLast(u)
  BY <1>4 DEF SlotsMatch, MarkersLast
<1>9. c = <<>>
  BY <1>3, NoBatchLeft
<1>10. PairedAt(u, n, f, c, q, done, base)
  BY <1>3, <1>4, <1>5, <1>7, <1>8, <1>9 DEF PairedAt, BatchMatches, QueueEnded
<1> QED BY <1>10 DEF PairedWith, u

\* The marker has arrived: no tag waits for a buffer any more.
LEMMA MarkerArrived ==
    ASSUME NEW t, NEW f, NEW q,
           PairTypes(t, 0, f, <<>>, q, TRUE), PairedWith(t, 0, f, <<>>, q, TRUE),
           Len(f) = 1, f[1] = Marker
    PROVE  /\ \A i \in DOMAIN t : t[i] = Eos
           /\ \A j \in DOMAIN q : q[j] = Eos
<1>1. Before(Len(f) + 1) - 0 = BatchSize /\ BatchSize \in Nat /\ Before(1) = 0
  <2>1. Before(1 + 1) = Before(1) + BatchSize /\ Before(1) = 0
    BY BeforeFacts
  <2> QED BY <2>1, ConstantTypes
<1>2. PairedAt(t, 0, f, <<>>, q, TRUE, BatchSize)
  BY <1>1 DEF PairedWith
<1>3. BatchSize + Len(<<>>) = BatchSize
  BY <1>1
<1>4. QueueEnded(t, BatchSize, q) /\ SlotsMatch(t, 0, f)
  BY <1>2, <1>3 DEF PairedAt
<1>5. \A i \in DOMAIN t : i \in Nat /\ i >= 1
  BY DEF PairTypes
<1>6. 1 \in DOMAIN f
  BY DEF PairTypes
<1>7. \A i \in DOMAIN t : t[i] = Eos
  <2> SUFFICES ASSUME NEW i \in DOMAIN t, t[i] # Eos PROVE FALSE
    OBVIOUS
  <2>1. i \in Slots /\ i + 0 = Before(1) + i
    BY <1>1, <1>4, <1>5 DEF QueueEnded, Slots
  <2> QED BY <1>4, <1>6, <2>1 DEF SlotsMatch
<1> QED BY <1>4, <1>7 DEF QueueEnded

\* As long as no tag is a marker, no image is one.
LEMMA NoMarkerDealt ==
    ASSUME NEW t, NEW n, NEW f, NEW c, NEW q,
           PairTypes(t, n, f, c, q, FALSE), PairedWith(t, n, f, c, q, FALSE),
           \A i \in DOMAIN t : t[i] # Eos
    PROVE  \A j \in DOMAIN q : q[j] # Eos
<1> DEFINE base == Before(Len(f) + 1) - n
           m == base + Len(c)
<1>1. base \in Nat /\ QueueMatches(t, m, q)
  BY DEF PairedWith, PairedAt
<1>2. m \in Nat /\ Len(t) = m + Len(q) /\ Len(t) \in Nat /\ DOMAIN t = 1..Len(t)
      /\ Len(q) \in Nat /\ DOMAIN q = 1..Len(q)
  <2> HIDE DEF base
  <2>1. Len(c) \in Nat
    BY DEF PairTypes
  <2> QED BY <1>1, <2>1 DEF QueueMatches, PairTypes
<1> HIDE DEF m
<1>3. \A j \in DOMAIN q : m + j \in DOMAIN t
  BY <1>2
<1> QED BY <1>1, <1>3 DEF QueueMatches

----------------------------------------------------------------------------
(* What the steps of the threads do to the buffers on their way.           *)

\* Concatenation with a sequence that grows, shrinks, or passes an element on.
LEMMA ConcatAppend ==
    ASSUME NEW S, NEW x \in Seq(S), NEW y \in Seq(S), NEW e \in S
    PROVE  x \o Append(y, e) = Append(x \o y, e)
OBVIOUS

\* The laws of concatenation that moving a tensor along the queues needs.
LEMMA ConcatEmpty == ASSUME NEW S, NEW x \in Seq(S) PROVE <<>> \o x = x /\ x \o <<>> = x
OBVIOUS

LEMMA ConcatHead ==
    ASSUME NEW S, NEW x \in Seq(S), x # <<>>
    PROVE  <<Head(x)>> \o Tail(x) = x
OBVIOUS

LEMMA ConcatPassed ==
    ASSUME NEW S, NEW x \in Seq(S), NEW y \in Seq(S), NEW e \in S
    PROVE  Append(x, e) \o y = x \o (<<e>> \o y)
OBVIOUS

LEMMA ConcatTail ==
    ASSUME NEW S, NEW x \in Seq(S), NEW e \in S
    PROVE  /\ Tail(<<e>> \o x) = x
           /\ <<e>> \o x \in Seq(S) /\ <<e>> \o x # <<>> /\ (<<e>> \o x)[1] = e
OBVIOUS

LEMMA ConcatType ==
    ASSUME NEW S, NEW x \in Seq(S), NEW y \in Seq(S)
    PROVE  x \o y \in Seq(S)
OBVIOUS

\* The contents of the buffers in a queue.
LEMMA ContentsType ==
    ASSUME NEW mem \in [Buffers -> Buffer], NEW q \in Seq(Handle)
    PROVE  /\ Contents(mem, q) \in Seq(Flown) /\ Len(Contents(mem, q)) = Len(q)
           /\ \A b \in Handle : Content(mem, b) \in Flown
           /\ \A b \in Handle : Carried(mem, b) \in Seq(Flown)
<1>1. \A b \in Handle : Content(mem, b) \in Flown
  BY Markers DEF Content, Handle, Flown
<1>2. \A b \in Handle : b # Eos => mem[b] \in Flown
  BY Markers DEF Handle, Flown
<1>3. \A b \in Handle : Carried(mem, b) \in Seq(Flown)
  BY <1>2 DEF Carried
<1>4. Contents(mem, q) \in Seq(Flown) /\ Len(Contents(mem, q)) = Len(q)
  BY <1>1 DEF Contents
<1> QED BY <1>1, <1>3, <1>4

\* A buffer is put into a queue.
LEMMA ContentsAppend ==
    ASSUME NEW mem \in [Buffers -> Buffer], NEW q \in Seq(Handle), NEW b \in Handle
    PROVE  Contents(mem, Append(q, b)) = Append(Contents(mem, q), Content(mem, b))
BY ContentsType DEF Contents

\* A buffer is taken from a queue.
LEMMA ContentsTail ==
    ASSUME NEW mem \in [Buffers -> Buffer], NEW q \in Seq(Handle), q # <<>>
    PROVE  /\ Contents(mem, Tail(q)) = Tail(Contents(mem, q))
           /\ Head(Contents(mem, q)) = Content(mem, Head(q)) /\ Contents(mem, q) # <<>>
BY ContentsType DEF Contents

\* A buffer that is not in the queue may be written.
LEMMA ContentsUntouched ==
    ASSUME NEW mem, NEW new, NEW q \in Seq(Handle), NEW b,
           NotIn(b, q), \A a \in Buffers \ {b} : new[a] = mem[a]
    PROVE  Contents(new, q) = Contents(mem, q)
<1>1. \A i \in DOMAIN q : Content(new, q[i]) = Content(mem, q[i])
  BY DEF NotIn, Content, Handle
<1> QED BY <1>1 DEF Contents

\* What the invariant says of a device depends on these, its tags and its images.
View(g) == <<inBusy[g], outBusy[g], inMem[g], outMem[g],
             copyPc[g], copyBatch[g], copyEos[g], procPc[g], procIn[g], procOut[g],
             outPc[g], outMemHeld[g], outCount[g], outEos[g]>>

\* The parts of the invariant that such a view determines.
LEMMA SameView ==
    ASSUME NEW g \in Devices, View(g)' = View(g)
    PROVE  /\ Flight(g)' = Flight(g) /\ Taken(g)' = Taken(g)
           /\ copyBatch'[g] = copyBatch[g] /\ copyEos'[g] = copyEos[g]
           /\ copyPc'[g] = copyPc[g] /\ outEos'[g] = outEos[g] /\ outPc'[g] = outPc[g]
           /\ outMemHeld'[g] = outMemHeld[g] /\ outCount'[g] = outCount[g]
<1>1. /\ Held(g)' = Held(g) /\ Outgoing(g)' = Outgoing(g) /\ Incoming(g)' = Incoming(g)
      /\ Processed(g)' = Processed(g) /\ Taken(g)' = Taken(g)
  BY DEF View, Held, Outgoing, Incoming, Processed, Taken
<1>2. Flight(g)' = Flight(g)
  BY <1>1 DEF Flight
<1> QED BY <1>1, <1>2 DEF View

\* A step that changes neither the view, nor the tags, nor the images dealt.
LEMMA DeviceFrame ==
    ASSUME NEW g \in Devices, DeviceInv(g), View(g)' = View(g),
           tagQ'[g] = tagQ[g], Dealt(g)' = Dealt(g)
    PROVE  DeviceInv(g)'
<1>1. Paired(g)'
  BY SameView DEF DeviceInv, Paired
<1>2. MarkerLast(g)'
  BY SameView DEF DeviceInv, MarkerLast
<1>3. DrainedAtEnd(g)'
  BY SameView DEF DeviceInv, DrainedAtEnd, Drained
<1> QED BY <1>1, <1>2, <1>3 DEF DeviceInv


\* The parts of Flight are sequences of buffers and markers.
LEMMA PartTypes ==
    ASSUME TypeInv, NEW g \in Devices
    PROVE  /\ inMem[g] \in [Buffers -> Buffer] /\ outMem[g] \in [Buffers -> Buffer]
           /\ Held(g) \in Seq(Flown) /\ Outgoing(g) \in Seq(Flown)
           /\ Processed(g) \in Seq(Flown) /\ Incoming(g) \in Seq(Flown)
           /\ Processed(g) \o Incoming(g) \in Seq(Flown)
           /\ Outgoing(g) \o (Processed(g) \o Incoming(g)) \in Seq(Flown)
           /\ Flight(g) \in Seq(Flown)
<1>1. inMem[g] \in [Buffers -> Buffer] /\ outMem[g] \in [Buffers -> Buffer]
  BY DEF TypeInv, MemTypeOK, Tensors, Buffer
<1>2. /\ inBusy[g] \in Seq(Handle) /\ outBusy[g] \in Seq(Handle)
      /\ procIn[g] \in Handle /\ procOut[g] \in Handle /\ outMemHeld[g] \in Handle
  BY DeviceTypes
<1>3. Held(g) \in Seq(Flown) /\ Outgoing(g) \in Seq(Flown) /\ Incoming(g) \in Seq(Flown)
  BY <1>1, <1>2, ContentsType DEF Held, Outgoing, Incoming
<1>4. Processed(g) \in Seq(Flown)
  <2>1. procPc[g] \in {"output", "process"} => inMem[g][procIn[g]] \in Flown
    BY <1>1, <1>2 DEF TypeInv, ProcInv, Handle, Flown
  <2>2. procPc[g] = "emit" => outMem[g][procOut[g]] \in Flown
    BY <1>1, <1>2 DEF TypeInv, ProcInv, Handle, Flown
  <2>3. Marker \in Flown
    BY DEF Flown
  <2> QED BY <2>1, <2>2, <2>3 DEF Processed
<1>5. Processed(g) \o Incoming(g) \in Seq(Flown)
  BY <1>3, <1>4, ConcatType
<1>6. Outgoing(g) \o (Processed(g) \o Incoming(g)) \in Seq(Flown)
  BY <1>3, <1>5, ConcatType
<1>7. Flight(g) \in Seq(Flown)
  BY <1>3, <1>6, ConcatType DEF Flight
<1> QED BY <1>1, <1>3, <1>4, <1>5, <1>6, <1>7

\* The arguments of PairedWith.
LEMMA PairedTypes ==
    ASSUME TypeInv, NEW g \in Devices
    PROVE  /\ PairTypes(tagQ[g], Taken(g), Flight(g), copyBatch[g], Dealt(g), copyEos[g])
           /\ Announced(g) \in Seq(Tag)
<1>1. Announced(g) \in Seq(Tag)
  <2>1. masterTag \in Tag /\ Eos \in Tag
    BY DEF TypeInv, MasterInv, MasterTypeOK, Tag
  <2> QED BY <2>1 DEF Announced
<1>2. Dealt(g) \in Seq(Tag)
  BY <1>1, ConcatType DEF Dealt, TypeInv, QueueTypeOK
<1>3. Taken(g) \in 0..BatchSize
  BY ConstantTypes DEF Taken, TypeInv, OutInv, OutTypeOK
<1>4. tagQ[g] \in Seq(Tag) /\ copyBatch[g] \in Seq(Images) /\ copyEos[g] \in BOOLEAN
  BY DEF TypeInv, QueueTypeOK, CopyInv, CopyTypeOK
<1>5. Flight(g) \in Seq(Flown)
  BY PartTypes
<1> QED BY <1>1, <1>2, <1>3, <1>4, <1>5 DEF PairTypes

\* A buffer or marker joins the queue to the process thread.
LEMMA FlightGrows ==
    ASSUME TypeInv, NEW g \in Devices, NEW x \in Flown,
           Held(g)' = Held(g), Outgoing(g)' = Outgoing(g), Processed(g)' = Processed(g),
           Incoming(g)' = Append(Incoming(g), x)
    PROVE  Flight(g)' = Append(Flight(g), x)
<1>1. Processed(g) \o Append(Incoming(g), x) = Append(Processed(g) \o Incoming(g), x)
  BY PartTypes, ConcatAppend
<1>2. Outgoing(g) \o Append(Processed(g) \o Incoming(g), x)
        = Append(Outgoing(g) \o (Processed(g) \o Incoming(g)), x)
  BY PartTypes, ConcatAppend
<1>3. Held(g) \o Append(Outgoing(g) \o (Processed(g) \o Incoming(g)), x)
        = Append(Flight(g), x)
  <2>1. /\ Held(g) \in Seq(Flown)
        /\ Outgoing(g) \o (Processed(g) \o Incoming(g)) \in Seq(Flown)
    BY PartTypes
  <2> QED BY <2>1, ConcatAppend DEF Flight
<1> QED BY <1>1, <1>2, <1>3 DEF Flight

\* Content of one place that does not change.
LEMMA InputsUntouched ==
    ASSUME TypeInv, NEW g \in Devices, NEW b, NotIn(b, inBusy[g]), procIn[g] # b,
           inBusy'[g] = inBusy[g], procIn'[g] = procIn[g], procPc'[g] = procPc[g],
           procOut'[g] = procOut[g], outMem'[g] = outMem[g],
           \A a \in Buffers \ {b} : inMem'[g][a] = inMem[g][a]
    PROVE  Incoming(g)' = Incoming(g) /\ Processed(g)' = Processed(g)
<1>1. Incoming(g)' = Incoming(g)
  BY DeviceTypes, ContentsUntouched DEF Incoming
<1>2. procPc[g] \in {"output", "process"} => procIn[g] \in Buffers \ {b}
  BY DeviceTypes DEF TypeInv, ProcInv, Handle
<1>3. Processed(g)' = Processed(g)
  BY <1>2 DEF Processed
<1> QED BY <1>1, <1>3

\* Writing a buffer that is neither queued nor held changes nothing on the way out.
LEMMA OutputsUntouched ==
    ASSUME TypeInv, NEW g \in Devices, NEW b, NotIn(b, outBusy[g]), outMemHeld[g] # b,
           outBusy'[g] = outBusy[g], outMemHeld'[g] = outMemHeld[g],
           \A a \in Buffers \ {b} : outMem'[g][a] = outMem[g][a]
    PROVE  Outgoing(g)' = Outgoing(g) /\ Held(g)' = Held(g)
<1>1. Outgoing(g)' = Outgoing(g)
  BY DeviceTypes, ContentsUntouched DEF Outgoing
<1>2. outMemHeld[g] # Eos => outMemHeld[g] \in Buffers \ {b}
  BY DeviceTypes DEF Handle
<1>3. Held(g)' = Held(g)
  BY <1>2 DEF Held, Carried
<1> QED BY <1>1, <1>3

\* The input copy passes its batch on, if there is one.
LEMMA CopyPutFlight ==
    ASSUME TypeInv, BufferInv, NEW g \in Devices, CopyPut(g)
    PROVE  /\ copyBatch[g] = <<>> => Flight(g)' = Flight(g)
           /\ copyBatch[g] # <<>> =>
                Flight(g)' = Append(Flight(g), inMem'[g][copyMem[g]])
           /\ inMem'[g][copyMem[g]] \in Buffer
           /\ \A s \in Slots : inMem'[g][copyMem[g]][s] =
                IF s \in DecodedSlots(Len(copyBatch[g])) THEN copyBatch[g][s]
                ELSE inMem[g][copyMem[g]][s]
<1> DEFINE b == copyMem[g]
           n == Len(copyBatch[g])
           x == [s \in Slots |-> IF s \in DecodedSlots(n) THEN copyBatch[g][s]
                                 ELSE inMem[g][b][s]]
<1>1. b \in Buffers /\ b # Eos
  <2>1. b # Eos
    BY DEF CopyPut, TypeInv, CopyInv
  <2> QED BY <2>1, DeviceTypes DEF Handle
<1>2. NotIn(b, inBusy[g]) /\ procIn[g] # b
  BY <1>1 DEF BufferInv, OneHolder
<1>3. /\ inMem'[g] = [inMem[g] EXCEPT ![b] = x]
      /\ UNCHANGED <<outBusy, outMem, procPc, procIn, procOut, outMemHeld>>
  <2>1. inMem' = [inMem EXCEPT ![g][b] = [s \in Slots |-> IF s \in DecodedSlots(n)
                                          THEN copyBatch[g][s] ELSE @[s]]]
    BY DEF CopyPut
  <2>2. inMem[g] \in [Buffers -> Buffer] /\ inMem \in [Devices -> [Buffers -> Buffer]]
    BY DEF TypeInv, MemTypeOK, Tensors, Buffer
  <2>3. UNCHANGED <<outBusy, outMem, procPc, procIn, procOut, outMemHeld>>
    BY DEF CopyPut, procVars, outVars
  <2> HIDE DEF n
  <2> QED BY <1>1, <2>1, <2>2, <2>3
<1> HIDE DEF n
<1>4. inMem'[g][b] = x /\ \A a \in Buffers \ {b} : inMem'[g][a] = inMem[g][a]
  <2>1. inMem[g] \in [Buffers -> Buffer]
    BY PartTypes
  <2> HIDE DEF x
  <2> QED BY <1>1, <1>3, <2>1
<1>5. n \in 0..BatchSize /\ copyBatch[g] \in Seq(Images)
  <2>1. copyBatch[g] \in Seq(Images)
    BY DEF TypeInv, CopyInv, CopyTypeOK
  <2> QED BY <2>1, ConstantTypes DEF CopyPut, TypeInv, CopyInv, n
<1>6. x \in Buffer
  <2>1. DecodedSlots(n) \subseteq 1..n
    BY <1>5, DecodedSlotsInBatch
  <2>2. \A s \in DecodedSlots(n) : copyBatch[g][s] \in Label
    BY <1>5, <2>1 DEF n, Label
  <2>3. inMem[g][b] \in [Slots -> Label]
    BY <1>1, PartTypes DEF Buffer
  <2> QED BY <2>2, <2>3 DEF Buffer
<1>7. \A s \in Slots : inMem'[g][b][s] =
        IF s \in DecodedSlots(n) THEN copyBatch[g][s] ELSE inMem[g][b][s]
  BY <1>4
<1> HIDE DEF x
<1>8. Held(g)' = Held(g) /\ Outgoing(g)' = Outgoing(g)
  BY <1>3 DEF Held, Outgoing
<1>9. CASE copyBatch[g] = <<>>
  <2>1. inBusy' = inBusy
    BY <1>9 DEF CopyPut, PassBuffer
  <2>2. Incoming(g)' = Incoming(g) /\ Processed(g)' = Processed(g)
    BY <1>2, <1>3, <1>4, <2>1, InputsUntouched
  <2>3. Flight(g)' = Flight(g)
    BY <1>8, <2>2 DEF Flight
  <2> QED BY <1>4, <1>6, <1>7, <1>9, <2>3 DEF n
<1>10. CASE copyBatch[g] # <<>>
  <2>1. inBusy'[g] = Append(inBusy[g], b)
    <3>1. Len(copyBatch[g]) > 0
      BY <1>5, <1>10
    <3>2. inBusy \in [Devices -> Seq(Handle)]
      BY DEF TypeInv, MemTypeOK
    <3> QED BY <3>1, <3>2 DEF CopyPut, PassBuffer, Put
  <2>2. Processed(g)' = Processed(g)
    <3>1. procPc[g] \in {"output", "process"} => procIn[g] \in Buffers \ {b}
      BY <1>2, DeviceTypes DEF TypeInv, ProcInv, Handle
    <3> QED BY <1>3, <1>4, <3>1 DEF Processed
  <2>3. Incoming(g)' = Append(Incoming(g), x)
    <3>1. inMem'[g] \in [Buffers -> Buffer] /\ inMem'[g][b] = x
      BY <1>1, <1>3, <1>4, <1>6, PartTypes
    <3>2. Incoming(g)' = Append(Contents(inMem'[g], inBusy[g]), Content(inMem'[g], b))
      BY <1>1, <2>1, <3>1, DeviceTypes, ContentsAppend DEF Incoming, Handle
    <3>3. Contents(inMem'[g], inBusy[g]) = Incoming(g)
      BY <1>2, <1>4, DeviceTypes, ContentsUntouched DEF Incoming
    <3> QED BY <1>1, <3>1, <3>2, <3>3 DEF Content
  <2>4. Flight(g)' = Append(Flight(g), x)
    BY <1>6, <1>8, <2>2, <2>3, FlightGrows DEF Flown
  <2> QED BY <1>4, <1>6, <1>7, <1>10, <2>4 DEF n
<1> QED BY <1>9, <1>10

\* The input copy passes the marker on.
LEMMA CopyEosFlight ==
    ASSUME TypeInv, NEW g \in Devices, CopyEos(g)
    PROVE  Flight(g)' = Append(Flight(g), Marker)
<1>1. UNCHANGED <<inMem, outMem, outBusy, procPc, procIn, procOut, outMemHeld>>
  BY DEF CopyEos, mems, procVars, outVars
<1>2. inBusy'[g] = Append(inBusy[g], Eos)
  BY DEF CopyEos, Put, TypeInv, MemTypeOK
<1>3. Incoming(g)' = Append(Incoming(g), Content(inMem[g], Eos))
  <2>1. /\ inMem[g] \in [Buffers -> Buffer] /\ inBusy[g] \in Seq(Handle)
        /\ Eos \in Handle
    BY PartTypes, DeviceTypes DEF Handle
  <2> QED BY <1>1, <1>2, <2>1, ContentsAppend DEF Incoming
<1>4. Incoming(g)' = Append(Incoming(g), Marker)
  BY <1>3 DEF Content
<1> QED BY <1>1, <1>4, FlightGrows DEF Held, Outgoing, Processed, Flown

\* The process thread takes a buffer or the marker.
LEMMA ProcTakeInputFlight ==
    ASSUME TypeInv, NEW g \in Devices, ProcTakeInput(g)
    PROVE  Flight(g)' = Flight(g)
<1>1. UNCHANGED <<inMem, outMem, outBusy, outMemHeld>>
  BY DEF ProcTakeInput, mems, outVars
<1>2. /\ inBusy'[g] = Tail(inBusy[g]) /\ inBusy[g] # <<>>
      /\ procIn'[g] = Head(inBusy[g]) /\ procPc[g] = "input"
      /\ procPc'[g] = IF Head(inBusy[g]) = Eos THEN "eos" ELSE "output"
  BY DEF ProcTakeInput, Pop, At, TypeInv, MemTypeOK, ProcInv, ProcTypeOK
<1>3. inMem[g] \in [Buffers -> Buffer] /\ inBusy[g] \in Seq(Handle)
  BY PartTypes, DeviceTypes
<1>4. /\ Incoming(g)' = Tail(Incoming(g)) /\ Incoming(g) # <<>>
      /\ Head(Incoming(g)) = Content(inMem[g], Head(inBusy[g]))
  BY <1>1, <1>2, <1>3, ContentsTail DEF Incoming
<1>5. Processed(g) = <<>> /\ Processed(g)' = <<Head(Incoming(g))>>
  BY <1>1, <1>2, <1>4 DEF Processed, Content
<1>6. Processed(g)' \o Incoming(g)' = Processed(g) \o Incoming(g)
  <2>1. Incoming(g) \in Seq(Flown)
    BY PartTypes
  <2> QED BY <1>4, <1>5, <2>1, ConcatHead, ConcatEmpty
<1>7. Held(g)' = Held(g) /\ Outgoing(g)' = Outgoing(g)
  BY <1>1 DEF Held, Outgoing
<1> QED BY <1>6, <1>7 DEF Flight

\* The process thread takes an output buffer, and runs the graph.
LEMMA ProcTakeOutputFlight ==
    ASSUME TypeInv, NEW g \in Devices, ProcTakeOutput(g)
    PROVE  Flight(g)' = Flight(g)
<1>1. /\ UNCHANGED <<inMem, outMem, inBusy, outBusy, outMemHeld, procIn>>
      /\ procPc[g] = "output" /\ procPc'[g] = "process"
  BY DEF ProcTakeOutput, At, mems, outVars, TypeInv, ProcInv, ProcTypeOK
<1> QED BY <1>1 DEF Flight, Held, Outgoing, Incoming, Processed

\* Running the graph moves a tensor from an input to an output buffer.
LEMMA ProcGraphFlight ==
    ASSUME TypeInv, BufferInv, NEW g \in Devices, ProcGraph(g)
    PROVE  Flight(g)' = Flight(g)
<1> DEFINE b == procOut[g]
<1>1. /\ UNCHANGED <<inMem, inBusy, outBusy, outMemHeld, procOut>>
      /\ procPc[g] = "process" /\ procPc'[g] = "emit"
  BY DEF ProcGraph, At, outVars, TypeInv, ProcInv, ProcTypeOK
<1>2. b \in Buffers /\ b # Eos
  <2>1. b # Eos
    BY <1>1 DEF TypeInv, ProcInv
  <2> QED BY <2>1, DeviceTypes DEF Handle
<1>3. NotIn(b, outBusy[g]) /\ outMemHeld[g] # b
  BY <1>2 DEF BufferInv, OneHolder
<1>4. /\ outMem'[g][b] = inMem[g][procIn[g]]
      /\ \A a \in Buffers \ {b} : outMem'[g][a] = outMem[g][a]
  <2>1. outMem' = [outMem EXCEPT ![g][b] = inMem[g][procIn[g]]]
    BY DEF ProcGraph
  <2>2. outMem[g] \in [Buffers -> Buffer] /\ outMem \in [Devices -> [Buffers -> Buffer]]
    BY DEF TypeInv, MemTypeOK, Tensors, Buffer
  <2> QED BY <1>2, <2>1, <2>2
<1>5. Outgoing(g)' = Outgoing(g) /\ Held(g)' = Held(g)
  BY <1>1, <1>3, <1>4, OutputsUntouched
<1>6. Processed(g)' = Processed(g) /\ Incoming(g)' = Incoming(g)
  BY <1>1, <1>4 DEF Processed, Incoming
<1> QED BY <1>5, <1>6 DEF Flight

\* The process thread passes on a buffer, or the marker.
LEMMA ProcPassedFlight ==
    ASSUME TypeInv, NEW g \in Devices, NEW b \in Handle,
           UNCHANGED <<inMem, outMem, inBusy, outMemHeld>>,
           outBusy'[g] = Append(outBusy[g], b),
           Processed(g) = <<Content(outMem[g], b)>>, Processed(g)' = <<>>
    PROVE  Flight(g)' = Flight(g)
<1>1. outMem[g] \in [Buffers -> Buffer] /\ outBusy[g] \in Seq(Handle)
  BY PartTypes, DeviceTypes
<1>2. Outgoing(g)' = Append(Outgoing(g), Content(outMem[g], b))
      /\ Content(outMem[g], b) \in Flown
  BY <1>1, ContentsAppend, ContentsType DEF Outgoing
<1>3. Incoming(g)' = Incoming(g) /\ Held(g)' = Held(g)
  BY DEF Incoming, Held
<1>4. Outgoing(g) \in Seq(Flown) /\ Incoming(g) \in Seq(Flown)
  BY PartTypes
<1>5. Processed(g)' \o Incoming(g)' = Incoming(g)
  BY <1>3, <1>4, ConcatEmpty
<1>6. Outgoing(g)' \o Incoming(g) = Outgoing(g) \o (Processed(g) \o Incoming(g))
  BY <1>2, <1>4, ConcatPassed
<1> QED BY <1>3, <1>5, <1>6 DEF Flight

\* The processed buffer, or the marker, goes on to the output copy thread.
LEMMA ProcEmitFlight ==
    ASSUME TypeInv, NEW g \in Devices, ProcEmit(g) \/ ProcEos(g)
    PROVE  Flight(g)' = Flight(g)
<1>1. UNCHANGED <<inMem, outMem, inBusy, outMemHeld>>
  BY DEF ProcEmit, ProcEos, mems, outVars
<1>2. CASE ProcEmit(g)
  <2>1. /\ outBusy'[g] = Append(outBusy[g], procOut[g])
        /\ procPc[g] = "emit" /\ procPc'[g] = "input"
    BY <1>2 DEF ProcEmit, At, Put, TypeInv, MemTypeOK, ProcInv, ProcTypeOK
  <2>2. procOut[g] \in Handle /\ procOut[g] # Eos
    BY <2>1, DeviceTypes DEF TypeInv, ProcInv
  <2>3. Processed(g) = <<Content(outMem[g], procOut[g])>> /\ Processed(g)' = <<>>
    BY <2>1, <2>2 DEF Processed, Content
  <2> QED BY <1>1, <2>1, <2>2, <2>3, ProcPassedFlight
<1>3. CASE ProcEos(g)
  <2>1. /\ outBusy'[g] = Append(outBusy[g], Eos)
        /\ procPc[g] = "eos" /\ procPc'[g] = "ended"
    BY <1>3 DEF ProcEos, At, Put, TypeInv, MemTypeOK, ProcInv, ProcTypeOK
  <2>2. Eos \in Handle
    BY DEF Handle
  <2>3. Processed(g) = <<Content(outMem[g], Eos)>> /\ Processed(g)' = <<>>
    BY <2>1 DEF Processed, Content
  <2> QED BY <1>1, <2>1, <2>2, <2>3, ProcPassedFlight
<1> QED BY <1>2, <1>3

\* The output copy takes the oldest buffer, or the marker.
LEMMA OutTakeMemFlight ==
    ASSUME TypeInv, NEW g \in Devices, OutTakeMem(g)
    PROVE  /\ Head(outBusy[g]) # Eos => Flight(g)' = Flight(g) /\ Flight(g) # <<>>
           /\ Head(outBusy[g]) = Eos =>
                Flight(g) # <<>> /\ Flight(g)[1] = Marker /\ Flight(g)' = Tail(Flight(g))
<1> DEFINE b == Head(outBusy[g])
           rest == Processed(g) \o Incoming(g)
<1>1. UNCHANGED <<inMem, outMem, inBusy, procPc, procIn, procOut>>
  BY DEF OutTakeMem, mems, procVars
<1>2. /\ outBusy'[g] = Tail(outBusy[g]) /\ outBusy[g] # <<>>
      /\ outMemHeld'[g] = b /\ outPc[g] = "mem" /\ outMemHeld[g] = Eos
  BY DEF OutTakeMem, Pop, At, TypeInv, MemTypeOK, OutInv, OutTypeOK
<1>3. outMem[g] \in [Buffers -> Buffer] /\ outBusy[g] \in Seq(Handle) /\ b \in Handle
  <2>1. outMem[g] \in [Buffers -> Buffer] /\ outBusy[g] \in Seq(Handle)
    BY PartTypes, DeviceTypes
  <2> QED BY <1>2, <2>1
<1>4. /\ Outgoing(g)' = Tail(Outgoing(g)) /\ Outgoing(g) # <<>>
      /\ Head(Outgoing(g)) = Content(outMem[g], b)
  BY <1>1, <1>2, <1>3, ContentsTail DEF Outgoing
<1>5. Processed(g)' = Processed(g) /\ Incoming(g)' = Incoming(g)
  BY <1>1 DEF Processed, Incoming
<1>6. /\ Outgoing(g) \in Seq(Flown) /\ rest \in Seq(Flown) /\ Flight(g) \in Seq(Flown)
      /\ Outgoing(g) \o rest \in Seq(Flown)
  BY PartTypes
<1>7. /\ Flight(g) = Outgoing(g) \o rest
      /\ Flight(g)' = Held(g)' \o (Tail(Outgoing(g)) \o rest)
  <2>1. Held(g) = <<>>
    BY <1>2 DEF Held, Carried
  <2> QED BY <1>4, <1>5, <1>6, <2>1, ConcatEmpty DEF Flight
<1> HIDE DEF rest
<1>8. /\ <<Head(Outgoing(g))>> \o (Tail(Outgoing(g)) \o rest) = Outgoing(g) \o rest
      /\ Outgoing(g) \o rest # <<>> /\ (Outgoing(g) \o rest)[1] = Head(Outgoing(g))
      /\ Tail(Outgoing(g) \o rest) = Tail(Outgoing(g)) \o rest
      /\ Tail(Outgoing(g)) \o rest \in Seq(Flown)
  BY <1>4, <1>6
<1>9. CASE b # Eos
  <2>1. Held(g)' = <<Head(Outgoing(g))>>
    BY <1>1, <1>2, <1>4, <1>9 DEF Held, Carried, Content
  <2> QED BY <1>7, <1>8, <1>9, <2>1
<1>10. CASE b = Eos
  <2>1. Held(g)' = <<>> /\ Head(Outgoing(g)) = Marker
    BY <1>1, <1>2, <1>4, <1>10 DEF Held, Carried, Content
  <2>2. Flight(g)' = Tail(Outgoing(g)) \o rest
    BY <1>7, <1>8, <2>1, ConcatEmpty
  <2> QED BY <1>7, <1>8, <1>10, <2>1, <2>2
<1> QED BY <1>9, <1>10

\* The output copy returns the oldest buffer.
LEMMA OutReturnMemFlight ==
    ASSUME TypeInv, NEW g \in Devices, OutReturnMem(g)
    PROVE  Flight(g) # <<>> /\ Flight(g)' = Tail(Flight(g))
<1> DEFINE rest == Outgoing(g) \o (Processed(g) \o Incoming(g))
<1>1. /\ UNCHANGED <<inMem, outMem, inBusy, outBusy, procPc, procIn, procOut>>
      /\ outMemHeld'[g] = Eos /\ outPc[g] = "return"
  BY DEF OutReturnMem, At, mems, procVars, TypeInv, OutInv, OutTypeOK
<1>2. outMemHeld[g] \in Buffers /\ outMemHeld[g] # Eos
  <2>1. outMemHeld[g] # Eos
    BY <1>1 DEF TypeInv, OutInv
  <2> QED BY <2>1, DeviceTypes DEF Handle
<1>3. Held(g) = <<outMem[g][outMemHeld[g]]>> /\ Held(g)' = <<>>
  BY <1>1, <1>2 DEF Held, Carried
<1>4. outMem[g][outMemHeld[g]] \in Flown /\ rest \in Seq(Flown)
  BY <1>2, PartTypes DEF Flown
<1>5. Flight(g) = <<outMem[g][outMemHeld[g]]>> \o rest
  BY <1>3 DEF Flight
<1>6. Flight(g)' = <<>> \o rest
  BY <1>1, <1>3 DEF Flight, Outgoing, Processed, Incoming
<1> HIDE DEF rest
<1> QED BY <1>4, <1>5, <1>6, ConcatEmpty, ConcatTail

----------------------------------------------------------------------------
(* The threads of a device keep what belongs together.                     *)

\* If the decoder threads share a batch without a remainder, every image is decoded.
LEMMA AllDecoded ==
    ASSUME BatchDecodedWhole, NEW n \in 0..BatchSize
    PROVE  DecodedSlots(n) = 1..n
<1>1. DecodedSlots(n) \subseteq 1..n
  BY DecodedSlotsInBatch
<1>2. CASE n = 0 \/ DecThreads = 0
  BY <1>2 DEF DecodedSlots
<1>3. CASE n # 0 /\ DecThreads # 0
  <2> DEFINE sub == SubBatchSize(n)
             num == NumT(n)
  <2>1. /\ n \in Nat /\ n > 0 /\ BatchSize \in Nat /\ BatchSize > 0
        /\ NumDecThreads \in 1..BatchSize /\ BatchSize % NumDecThreads = 0
    BY <1>3, ConstantTypes, NumDecThreadsType DEF BatchDecodedWhole
  <2>2. sub \in Nat /\ sub > 0 /\ num \in Nat /\ num * sub >= n
    <3>1. CASE n < BatchSize
      <4>1. sub = CeilDiv(n, NumDecThreads) /\ num = CeilDiv(n, sub)
        BY <3>1 DEF SubBatchSize, NumT
      <4>2. sub \in Nat \ {0}
        BY <2>1, <4>1, CeilDivBounds
      <4> HIDE DEF sub, num
      <4> QED BY <2>1, <4>1, <4>2, CeilDivBounds
    <3>2. CASE ~(n < BatchSize)
      <4>1. sub = BatchSize \div NumDecThreads /\ num = NumDecThreads /\ n = BatchSize
        BY <2>1, <3>2 DEF SubBatchSize, NumT
      <4>2. BatchSize = NumDecThreads * (BatchSize \div NumDecThreads)
                        + (BatchSize % NumDecThreads)
            /\ BatchSize \div NumDecThreads \in Nat
        BY <2>1
      <4>3. BatchSize = NumDecThreads * (BatchSize \div NumDecThreads)
        BY <2>1, <4>2
      <4>4. BatchSize \div NumDecThreads > 0
        BY <2>1, <4>2, <4>3
      <4> HIDE DEF sub, num
      <4> QED BY <2>1, <4>1, <4>2, <4>3, <4>4
    <3> QED BY <3>1, <3>2
  <2> SUFFICES ASSUME NEW s \in 1..n PROVE \E t \in 0..(num - 1) : s \in SubBatch(n, t)
    BY <1>1, <1>3 DEF DecodedSlots
  <2> HIDE DEF sub, num
  <2> DEFINE t == (s - 1) \div sub
  <2>3. t \in Nat /\ t * sub <= s - 1 /\ s - 1 < t * sub + sub
    BY <2>1, <2>2
  <2> HIDE DEF t
  <2>4. t < num
    <3>1. SUFFICES ASSUME t >= num PROVE FALSE
      BY <2>2, <2>3
    <3>2. t * sub >= num * sub
      BY <2>2, <2>3, <3>1
    <3>3. t * sub \in Int /\ num * sub \in Int
      BY <2>2, <2>3
    <3> QED BY <2>1, <2>2, <2>3, <3>2, <3>3
  <2>5. s \in SubBatch(n, t)
    <3> DEFINE start == t * sub
               end   == start + sub - 1
    <3>1. start \in Int /\ end \in Int /\ start <= s - 1 /\ s - 1 <= end
          /\ s \in Int /\ s <= n /\ s >= 1
      BY <2>1, <2>2, <2>3
    <3>2. SubBatch(n, t) = IF t < num - 1 THEN (start + 1)..(end + 1)
                           ELSE (Smaller(start, n - 1) + 1)..(Smaller(end, n - 1) + 1)
      BY DEF SubBatch, sub, num
    <3> HIDE DEF start, end
    <3>3. s \in (start + 1)..(end + 1)
      BY <3>1
    <3>4. s \in (Smaller(start, n - 1) + 1)..(Smaller(end, n - 1) + 1)
      BY <2>1, <3>1 DEF Smaller
    <3> QED BY <3>2, <3>3, <3>4
  <2>6. t \in 0..(num - 1)
    BY <2>2, <2>3, <2>4
  <2> QED BY <2>5, <2>6
<1> QED BY <1>2, <1>3

\* The input copy.
LEMMA InputCopyKeeps ==
    ASSUME TypeInv, BufferInv, NEW g \in Devices, DeviceInv(g),
           InputCopy(g), Announced(g)' = Announced(g)
    PROVE  DeviceInv(g)'
<1> DEFINE t == tagQ[g]
           n == Taken(g)
           f == Flight(g)
           c == copyBatch[g]
           q == Dealt(g)
<1>1. /\ PairTypes(t, n, f, c, q, copyEos[g])
      /\ PairedWith(t, n, f, c, q, copyEos[g])
      /\ f \in Seq(Flown)
  BY PairedTypes, PartTypes DEF DeviceInv, Paired
<1>2. /\ UNCHANGED <<tagQ, outPc, outMemHeld, outCount, outEos>>
      /\ Taken(g)' = Taken(g)
  BY DEF InputCopy, CopyTakeMem, CopyTakeImage, CopyPut, CopyEos, deviceQs, outVars, Taken
<1> USE DEF At, Pop, Put
<1>3. CASE CopyTakeMem(g)
  <2>1. /\ copyPc[g] = "mem" /\ copyPc'[g] = "image"
        /\ UNCHANGED <<imageQ, copyBatch, copyEos>>
    BY <1>3 DEF CopyTakeMem, deviceQs, TypeInv, CopyInv, CopyTypeOK
  <2>2. Flight(g)' = f
    BY <1>3 DEF CopyTakeMem, mems, procVars, outVars, Flight, Held, Outgoing, Processed, Incoming
  <2>3. Dealt(g)' = q
    BY <2>1 DEF Dealt
  <2>4. Paired(g)'
    BY <1>1, <1>2, <2>1, <2>2, <2>3 DEF Paired
  <2>5. MarkerLast(g)'
    BY <2>1, <2>2 DEF DeviceInv, MarkerLast
  <2>6. DrainedAtEnd(g)'
    BY <1>2, <2>1, <2>2 DEF DeviceInv, DrainedAtEnd, Drained
  <2> QED BY <2>4, <2>5, <2>6 DEF DeviceInv
<1>4. CASE CopyTakeImage(g)
  <2>1. /\ copyPc[g] = "image" /\ copyEos[g] = FALSE
        /\ imageQ[g] # <<>> /\ imageQ'[g] = Tail(imageQ[g])
    BY <1>4 DEF CopyTakeImage, DeviceInv, MarkerLast, TypeInv, QueueTypeOK, CopyInv, CopyTypeOK
  <2>2. Flight(g)' = f
    BY <1>4 DEF CopyTakeImage, memQs, mems, procVars, outVars,
                Flight, Held, Outgoing, Processed, Incoming
  <2>3. /\ q # <<>> /\ Head(q) = Head(imageQ[g]) /\ Dealt(g)' = Tail(q)
    <3>1. imageQ[g] \in Seq(Tag) /\ Announced(g) \in Seq(Tag)
      BY PairedTypes DEF TypeInv, QueueTypeOK
    <3> QED BY <2>1, <3>1 DEF Dealt
  <2>4. ~Drained(g) /\ ~outEos[g] /\ outPc[g] \notin {"eos", "ended"}
    BY <2>1 DEF DeviceInv, Drained, DrainedAtEnd
  <2>5. DrainedAtEnd(g)'
    BY <1>2, <2>4 DEF DeviceInv, DrainedAtEnd
  <2>6. CASE Head(imageQ[g]) = Eos
    <3>1. copyEos'[g] = TRUE /\ copyPc'[g] = "put" /\ copyBatch'[g] = c
      BY <1>4, <2>6 DEF CopyTakeImage, TypeInv, CopyInv, CopyTypeOK
    <3>2. PairedWith(t, n, f, c, Tail(q), TRUE)
      BY <1>1, <2>1, <2>3, <2>6, MarkerTaken
    <3>3. Paired(g)'
      BY <1>2, <2>2, <2>3, <3>1, <3>2 DEF Paired
    <3>4. MarkerLast(g)'
      BY <2>1, <2>2, <3>1 DEF DeviceInv, MarkerLast
    <3> QED BY <2>5, <3>3, <3>4 DEF DeviceInv
  <2>7. CASE Head(imageQ[g]) # Eos
    <3>1. /\ copyEos'[g] = FALSE /\ copyBatch'[g] = Append(c, Head(imageQ[g]))
          /\ copyPc'[g] = IF Len(c) + 1 = BatchSize THEN "put" ELSE "image"
      BY <1>4, <2>1, <2>7 DEF CopyTakeImage, TypeInv, CopyInv, CopyTypeOK
    <3>2. PairedWith(t, n, f, Append(c, Head(q)), Tail(q), FALSE)
      BY <1>1, <2>1, <2>3, <2>7, ImageTaken
    <3>3. Paired(g)'
      BY <1>2, <2>2, <2>3, <3>1, <3>2 DEF Paired
    <3>4. Len(Append(c, Head(imageQ[g]))) = Len(c) + 1
      BY DEF TypeInv, CopyInv, CopyTypeOK
    <3>5. MarkerLast(g)'
      BY <2>1, <2>2, <3>1, <3>4 DEF DeviceInv, MarkerLast
    <3> QED BY <2>5, <3>3, <3>5 DEF DeviceInv
  <2> QED BY <2>6, <2>7
<1>5. CASE CopyPut(g)
  <2>1. /\ copyPc[g] = "put" /\ copyBatch'[g] = <<>> /\ UNCHANGED <<imageQ, copyEos>>
        /\ copyPc'[g] = IF copyEos[g] THEN "eos" ELSE "mem"
    BY <1>5 DEF CopyPut, deviceQs, TypeInv, CopyInv, CopyTypeOK
  <2>2. Dealt(g)' = q
    BY <2>1 DEF Dealt
  <2>3. Len(c) \in Nat /\ Len(c) <= BatchSize /\ c \in Seq(Images)
        /\ (~copyEos[g] => Len(c) = BatchSize)
    BY <2>1 DEF TypeInv, CopyInv, CopyTypeOK, DeviceInv, MarkerLast
  <2>4. \A k \in DOMAIN f : f[k] # Marker
    BY <2>1 DEF DeviceInv, MarkerLast
  <2>5. CASE c = <<>>
    <3>1. Flight(g)' = f
      BY <1>5, <2>5, CopyPutFlight
    <3>2. copyEos[g]
      BY <2>3, <2>5, ConstantTypes
    <3>3. Paired(g)'
      BY <1>1, <1>2, <2>1, <2>2, <2>5, <3>1 DEF Paired
    <3>4. MarkerLast(g)'
      BY <2>1, <2>4, <3>1, <3>2 DEF MarkerLast
    <3>5. DrainedAtEnd(g)'
      BY <1>2, <2>1, <3>1 DEF DeviceInv, DrainedAtEnd, Drained
    <3> QED BY <3>3, <3>4, <3>5 DEF DeviceInv
  <2>6. CASE c # <<>>
    <3> DEFINE x == inMem'[g][copyMem[g]]
    <3>1. Flight(g)' = Append(f, x) /\ x \in Buffer
      BY <1>5, <2>6, CopyPutFlight
    <3>2. ASSUME BatchDecodedWhole PROVE \A s \in DOMAIN c : x[s] = c[s]
      <4>1. Len(c) \in 0..BatchSize /\ DOMAIN c = 1..Len(c)
        BY <2>3, ConstantTypes
      <4>2. DecodedSlots(Len(c)) = 1..Len(c)
        BY <3>2, <4>1, AllDecoded
      <4>3. \A s \in DOMAIN c : s \in Slots
        BY <4>1, ConstantTypes DEF Slots
      <4> QED BY <1>5, <4>1, <4>2, <4>3, CopyPutFlight
    <3> HIDE DEF x
    <3>3. PairedWith(t, n, Append(f, x), <<>>, q, copyEos[g])
      BY <1>1, <2>3, <2>6, <3>1, <3>2, BatchPassed
    <3>4. Paired(g)'
      BY <1>2, <2>1, <2>2, <3>1, <3>3 DEF Paired
    <3>5. MarkerLast(g)'
      <4>1. \A k \in DOMAIN Append(f, x) : Append(f, x)[k] # Marker
        BY <1>1, <2>4, <3>1, BufferNotMarker
      <4> QED BY <2>1, <3>1, <4>1 DEF MarkerLast
    <3>6. DrainedAtEnd(g)'
      <4>1. ~Drained(g)
        BY <1>1, <2>6, NoBatchLeft DEF Drained
      <4> QED BY <1>2, <4>1 DEF DeviceInv, DrainedAtEnd
    <3> QED BY <3>4, <3>5, <3>6 DEF DeviceInv
  <2> QED BY <2>5, <2>6
<1>6. CASE CopyEos(g)
  <2>1. /\ copyPc[g] = "eos" /\ copyPc'[g] = "ended" /\ UNCHANGED <<imageQ, copyEos, copyBatch>>
        /\ c = <<>>
    BY <1>6 DEF CopyEos, deviceQs, TypeInv, CopyInv, CopyTypeOK
  <2>2. copyEos[g] = TRUE
    BY <2>1 DEF DeviceInv, MarkerLast, TypeInv, CopyInv, CopyTypeOK
  <2>3. Dealt(g)' = q
    BY <2>1 DEF Dealt
  <2>4. Flight(g)' = Append(f, Marker)
    BY <1>6, CopyEosFlight
  <2>5. PairedWith(t, n, Append(f, Marker), <<>>, q, TRUE)
    BY <1>1, <2>1, <2>2, MarkerPassed
  <2>6. Paired(g)'
    BY <1>2, <2>1, <2>2, <2>3, <2>4, <2>5 DEF Paired
  <2>7. \A k \in DOMAIN Append(f, Marker) :
          /\ k \in Nat /\ ((k \in DOMAIN f /\ Append(f, Marker)[k] = f[k]) \/ k = Len(f) + 1)
          /\ Append(f, Marker)[Len(f) + 1] = Marker /\ Len(Append(f, Marker)) = Len(f) + 1
    BY <1>1
  <2>8. \A k \in DOMAIN f : f[k] # Marker
    BY <2>1 DEF DeviceInv, MarkerLast
  <2>9. MarkerLast(g)'
    BY <2>1, <2>2, <2>4, <2>7, <2>8 DEF MarkerLast
  <2>10. DrainedAtEnd(g)'
    <3>1. Drained(g) => Drained(g)'
      BY <1>2, <2>1, <2>4, <2>7 DEF Drained
    <3> QED BY <1>2, <3>1 DEF DeviceInv, DrainedAtEnd
  <2> QED BY <2>6, <2>9, <2>10 DEF DeviceInv
<1> QED BY <1>3, <1>4, <1>5, <1>6 DEF InputCopy

\* The process thread: nothing it does changes what follows what.
LEMMA ProcessKeeps ==
    ASSUME TypeInv, BufferInv, NEW g \in Devices, DeviceInv(g),
           Process(g), Announced(g)' = Announced(g)
    PROVE  DeviceInv(g)'
<1>1. /\ UNCHANGED <<tagQ, imageQ, outPc, outMemHeld, outCount, outEos,
                     copyPc, copyBatch, copyEos>>
  BY DEF Process, ProcTakeInput, ProcTakeOutput, ProcGraph, ProcEmit, ProcEos, deviceQs,
         copyVars, outVars
<1>2. Flight(g)' = Flight(g)
  BY ProcTakeInputFlight, ProcTakeOutputFlight, ProcGraphFlight, ProcEmitFlight DEF Process
<1>3. Dealt(g)' = Dealt(g) /\ Taken(g)' = Taken(g)
  BY <1>1 DEF Dealt, Taken
<1>4. Paired(g)'
  BY <1>1, <1>2, <1>3 DEF DeviceInv, Paired
<1>5. MarkerLast(g)'
  BY <1>1, <1>2 DEF DeviceInv, MarkerLast
<1>6. DrainedAtEnd(g)'
  BY <1>1, <1>2 DEF DeviceInv, DrainedAtEnd, Drained
<1> QED BY <1>4, <1>5, <1>6 DEF DeviceInv

\* The oldest buffer is the one the output copy holds.
LEMMA HeldFirst ==
    ASSUME TypeInv, NEW g \in Devices, outMemHeld[g] # Eos
    PROVE  /\ Flight(g) # <<>> /\ Flight(g)[1] = outMem[g][outMemHeld[g]]
           /\ Flight(g)[1] # Marker
<1> DEFINE rest == Outgoing(g) \o (Processed(g) \o Incoming(g))
           x == outMem[g][outMemHeld[g]]
<1>1. outMemHeld[g] \in Buffers
  BY DeviceTypes DEF Handle
<1>2. x \in Buffer /\ rest \in Seq(Flown)
  BY <1>1, PartTypes
<1>3. Flight(g) = <<x>> \o rest
  BY DEF Flight, Held, Carried
<1> HIDE DEF rest, x
<1>4. x \in Flown
  BY <1>2 DEF Flown
<1> QED BY <1>2, <1>3, <1>4, ConcatTail, BufferNotMarker DEF x

\* Dropping the oldest keeps the marker last.
LEMMA MarkerLastTail ==
    ASSUME NEW f \in Seq(Flown), f # <<>>,
           \A k \in DOMAIN f : f[k] = Marker => k = Len(f)
    PROVE  \A k \in DOMAIN Tail(f) : Tail(f)[k] = Marker => k = Len(Tail(f))
<1> SUFFICES ASSUME NEW k \in DOMAIN Tail(f), Tail(f)[k] = Marker PROVE k = Len(Tail(f))
  OBVIOUS
<1>1. k + 1 \in DOMAIN f /\ Tail(f)[k] = f[k + 1] /\ Len(Tail(f)) + 1 = Len(f)
      /\ k \in Nat /\ Len(Tail(f)) \in Nat
  BY Tailed
<1>2. k + 1 = Len(f)
  BY <1>1
<1> DEFINE l == Len(Tail(f))
<1>3. l \in Nat /\ k \in Nat /\ l + 1 = k + 1
  BY <1>1, <1>2
<1> HIDE DEF l
<1>4. k = l
  BY <1>3
<1> QED BY <1>4 DEF l

\* Nothing is left of a single entry.
LEMMA SingleTail ==
    ASSUME NEW S, NEW q \in Seq(S), Len(q) = 1
    PROVE  Tail(q) \in Seq(S) /\ Tail(q) = <<>> /\ \A i \in DOMAIN Tail(q) : FALSE
<1>1. q # <<>>
  OBVIOUS
<1>2. Tail(q) \in Seq(S) /\ Len(Tail(q)) + 1 = Len(q) /\ Len(Tail(q)) \in Nat
  BY <1>1, Tailed
<1>3. Len(Tail(q)) = 0
  BY <1>2
<1>4. \A r \in Seq(S) : Len(r) = 0 => r = <<>> /\ \A i \in DOMAIN r : FALSE
  OBVIOUS
<1> QED BY <1>2, <1>3, <1>4

\* The output copy.
LEMMA OutputCopyKeeps ==
    ASSUME TypeInv, NEW g \in Devices, DeviceInv(g),
           OutputCopy(g), Announced(g)' = Announced(g)
    PROVE  DeviceInv(g)'
<1> DEFINE t == tagQ[g]
           n == Taken(g)
           f == Flight(g)
           c == copyBatch[g]
           q == Dealt(g)
<1>1. /\ PairTypes(t, n, f, c, q, copyEos[g])
      /\ PairedWith(t, n, f, c, q, copyEos[g])
      /\ f \in Seq(Flown) /\ c \in Seq(Images) /\ t \in Seq(Tag) /\ q \in Seq(Tag)
      /\ copyEos[g] \in BOOLEAN
  BY PairedTypes, PartTypes DEF DeviceInv, Paired, PairTypes
<1>2. /\ UNCHANGED <<imageQ, copyPc, copyBatch, copyEos>> /\ Dealt(g)' = q
  BY DEF OutputCopy, OutTakeMem, OutTakeTag, OutPutLabels, OutReturnMem, OutEos, deviceQs,
         copyVars, Dealt
<1>3. /\ \A k \in DOMAIN f : f[k] = Marker => k = Len(f) /\ copyPc[g] = "ended"
      /\ copyPc[g] = "ended" => copyEos[g] /\ c = <<>>
  BY DEF DeviceInv, MarkerLast, TypeInv, CopyInv
<1>4. Flight(g)' = f => MarkerLast(g)'
  BY <1>2 DEF DeviceInv, MarkerLast
<1>5. f # <<>> /\ Flight(g)' = Tail(f) => MarkerLast(g)'
  <2> SUFFICES ASSUME f # <<>>, Flight(g)' = Tail(f) PROVE MarkerLast(g)'
    OBVIOUS
  <2>1. \A k \in DOMAIN Tail(f) : Tail(f)[k] = Marker =>
          k = Len(Tail(f)) /\ copyPc[g] = "ended"
    BY <1>1, <1>3, MarkerLastTail, Tailed
  <2> QED BY <1>2, <2>1 DEF DeviceInv, MarkerLast
<1> USE DEF At, Pop, Put
<1>6. CASE OutTakeMem(g)
  <2>1. /\ outPc[g] = "mem" /\ outMemHeld[g] = Eos /\ outEos'[g] = outEos[g]
        /\ tagQ' = tagQ /\ outCount'[g] = 0 /\ outMemHeld'[g] = Head(outBusy[g])
        /\ outPc'[g] = IF Head(outBusy[g]) = Eos THEN "eos" ELSE "tag"
    BY <1>6 DEF OutTakeMem, deviceQs, TypeInv, OutInv, OutTypeOK
  <2>2. n = 0 /\ Taken(g)' = 0 /\ ~outEos[g]
    BY <2>1 DEF Taken, DeviceInv, DrainedAtEnd
  <2>3. CASE Head(outBusy[g]) # Eos
    <3>1. Flight(g)' = f
      BY <1>6, <2>3, OutTakeMemFlight
    <3>2. Paired(g)'
      BY <1>1, <1>2, <2>1, <2>2, <3>1 DEF Paired
    <3>3. DrainedAtEnd(g)'
      BY <2>1, <2>2, <2>3 DEF DrainedAtEnd
    <3> QED BY <1>4, <3>1, <3>2, <3>3 DEF DeviceInv
  <2>4. CASE Head(outBusy[g]) = Eos
    <3>1. f # <<>> /\ f[1] = Marker /\ Flight(g)' = Tail(f)
      BY <1>6, <2>4, OutTakeMemFlight
    <3>2. Len(f) = 1 /\ copyEos[g] = TRUE /\ c = <<>>
      <4>1. 1 \in DOMAIN f
        BY <1>1, <3>1
      <4> QED BY <1>1, <1>3, <3>1, <4>1
    <3>3. /\ \A i \in DOMAIN t : t[i] = Eos
          /\ \A j \in DOMAIN q : q[j] = Eos
      <4>1. PairTypes(t, 0, f, <<>>, q, TRUE) /\ PairedWith(t, 0, f, <<>>, q, TRUE)
        BY <1>1, <2>2, <3>2
      <4> HIDE DEF t, f, q
      <4> QED BY <3>1, <3>2, <4>1, MarkerArrived
    <3>4. Tail(f) \in Seq(Flown) /\ Tail(f) = <<>> /\ \A k \in DOMAIN Tail(f) : FALSE
      <4> HIDE DEF f
      <4> QED BY <1>1, <3>2, SingleTail
    <3>5. PairedWith(t, 0, Tail(f), <<>>, q, TRUE)
      <4>1. 0 \in 0..BatchSize /\ Tail(f) \in Seq(Flown) /\ <<>> \in Seq(Images)
            /\ \A k \in DOMAIN Tail(f) : Tail(f)[k] = Marker
        <5> HIDE DEF f
        <5> QED BY <3>4, ConstantTypes
      <4>2. PairTypes(t, 0, Tail(f), <<>>, q, TRUE)
        BY <1>1, <4>1 DEF PairTypes
      <4> HIDE DEF t, f, q
      <4> QED BY <3>3, <4>1, <4>2, NothingLeft
    <3>6. Paired(g)'
      BY <1>2, <2>1, <2>2, <3>1, <3>2, <3>4, <3>5 DEF Paired
    <3>7. Drained(g)'
      BY <1>2, <2>1, <3>1, <3>2, <3>3, <3>4 DEF Drained
    <3> QED BY <1>5, <2>1, <2>4, <3>1, <3>6, <3>7 DEF DeviceInv, DrainedAtEnd
  <2> QED BY <2>3, <2>4
<1>7. CASE OutTakeTag(g)
  <2>1. /\ outPc[g] = "tag" /\ t # <<>> /\ tagQ'[g] = Tail(t)
        /\ UNCHANGED <<mems, inBusy, outBusy, procVars, outMemHeld>>
    BY <1>7 DEF OutTakeTag, memQs, TypeInv, QueueTypeOK
  <2>2. /\ outMemHeld[g] # Eos /\ ~outEos[g] /\ n = outCount[g] /\ n < BatchSize
    BY <2>1 DEF TypeInv, OutInv, DeviceInv, DrainedAtEnd, Taken
  <2>3. f # <<>> /\ f[1] # Marker
    BY <2>2, HeldFirst
  <2>4. Flight(g)' = f
    BY <2>1 DEF mems, procVars, Flight, Held, Outgoing, Processed, Incoming
  <2>5. CASE Head(t) = Eos
    <3>1. outEos'[g] = TRUE /\ outPc'[g] = "return" /\ outCount'[g] = outCount[g]
      BY <1>7, <2>5 DEF OutTakeTag, TypeInv, OutInv, OutTypeOK
    <3>2. /\ copyEos[g] /\ \A i \in DOMAIN t : t[i] = Eos
          /\ \A k \in DOMAIN f : k > 1 => f[k] = Marker
      BY <1>1, <2>1, <2>2, <2>3, <2>5, EndSeen
    <3>3. PairedWith(Tail(t), n, f, c, q, copyEos[g])
      BY <1>1, <2>1, <2>2, <2>3, <2>5, EndTaken
    <3>4. Taken(g)' = n
      BY <2>1, <2>2, <3>1 DEF Taken
    <3>5. Paired(g)'
      BY <1>2, <2>1, <2>4, <3>3, <3>4 DEF Paired
    <3>6. Drained(g)'
      <4>1. \A i \in DOMAIN Tail(t) : Tail(t)[i] = Eos
        BY <1>1, <2>1, <3>2, Tailed
      <4>2. \A k \in DOMAIN f : f[k] = Marker \/ k = 1
        BY <1>1, <3>2
      <4> QED BY <1>2, <2>1, <2>2, <2>4, <3>2, <4>1, <4>2 DEF Drained
    <3> QED BY <1>4, <2>4, <3>1, <3>5, <3>6 DEF DeviceInv, DrainedAtEnd
  <2>6. CASE Head(t) # Eos
    <3>1. /\ outEos'[g] = outEos[g] /\ outCount'[g] = n + 1
          /\ outPc'[g] \in {"labels", AfterSlot(n + 1)}
      BY <1>7, <2>2, <2>6 DEF OutTakeTag, TypeInv, OutInv, OutTypeOK
    <3>2. PairedWith(Tail(t), n + 1, f, c, q, copyEos[g])
      BY <1>1, <2>1, <2>2, <2>3, TagTaken
    <3>3. Taken(g)' = n + 1
      BY <2>1, <2>2, <3>1 DEF Taken
    <3>4. Paired(g)'
      BY <1>2, <2>1, <2>4, <3>2, <3>3 DEF Paired
    <3>5. DrainedAtEnd(g)'
      BY <2>2, <3>1 DEF DrainedAtEnd, AfterSlot
    <3> QED BY <1>4, <2>4, <3>4, <3>5 DEF DeviceInv
  <2> QED BY <2>5, <2>6
<1>8. CASE OutPutLabels(g)
  <2>1. /\ outPc[g] = "labels" /\ outPc'[g] = AfterSlot(outCount[g])
        /\ UNCHANGED <<mems, inBusy, outBusy, procVars, tagQ, outMemHeld, outCount, outEos>>
    BY <1>8 DEF OutPutLabels, memQs, deviceQs, TypeInv, OutInv, OutTypeOK
  <2>2. Flight(g)' = f /\ Taken(g)' = n
    BY <2>1 DEF mems, procVars, Flight, Held, Outgoing, Processed, Incoming, Taken
  <2>3. Paired(g)'
    BY <1>1, <1>2, <2>1, <2>2 DEF Paired
  <2>4. DrainedAtEnd(g)'
    BY <2>1 DEF DeviceInv, DrainedAtEnd, AfterSlot
  <2> QED BY <1>4, <2>2, <2>3, <2>4 DEF DeviceInv
<1>9. CASE OutReturnMem(g)
  <2>1. /\ outPc[g] = "return" /\ tagQ' = tagQ /\ outEos' = outEos /\ outMemHeld'[g] = Eos
        /\ outPc'[g] = IF outEos[g] THEN "eos" ELSE "mem"
    BY <1>9 DEF OutReturnMem, deviceQs, TypeInv, OutInv, OutTypeOK
  <2>2. f # <<>> /\ Flight(g)' = Tail(f)
    BY <1>9, OutReturnMemFlight
  <2>3. Taken(g)' = 0
    BY <2>1 DEF Taken
  <2>4. CASE outEos[g]
    <3>0. Drained(g)
      BY <2>4 DEF DeviceInv, DrainedAtEnd
    <3>a. copyEos[g] = TRUE
      BY <1>1, <3>0 DEF Drained
    <3>1. /\ copyEos[g] = TRUE /\ \A i \in DOMAIN t : t[i] = Eos
          /\ \A k \in DOMAIN f : f[k] = Marker \/ k = 1
      BY <3>0, <3>a DEF Drained
    <3>b. PairTypes(t, n, f, c, q, TRUE) /\ PairedWith(t, n, f, c, q, TRUE)
      BY <1>1, <3>a
    <3>2. c = <<>>
      BY <3>1, <3>b, NoBatchLeft
    <3>3. \A j \in DOMAIN q : q[j] = Eos
      BY <3>b DEF PairedWith, PairedAt, QueueEnded
    <3>4. /\ Tail(f) \in Seq(Flown)
          /\ \A k \in DOMAIN Tail(f) : Tail(f)[k] = Marker
      <4>1. \A k \in DOMAIN Tail(f) : k + 1 \in DOMAIN f /\ k + 1 # 1 /\ Tail(f)[k] = f[k + 1]
        BY <1>1, <2>2, Tailed
      <4> QED BY <1>1, <2>2, <3>1, <4>1, Tailed
    <3>5. PairedWith(t, 0, Tail(f), <<>>, q, TRUE)
      <4>1. PairTypes(t, 0, Tail(f), <<>>, q, TRUE)
        BY <1>1, <3>4, ConstantTypes DEF PairTypes
      <4> QED BY <3>1, <3>3, <3>4, <4>1, NothingLeft
    <3>6. Paired(g)'
      BY <1>2, <2>1, <2>2, <2>3, <3>1, <3>2, <3>5 DEF Paired
    <3>7. Drained(g)'
      BY <1>2, <2>1, <2>2, <3>1, <3>4 DEF Drained
    <3> QED BY <1>5, <2>1, <2>2, <2>4, <3>6, <3>7 DEF DeviceInv, DrainedAtEnd
  <2>5. CASE ~outEos[g]
    <3>1. n = BatchSize
      BY <2>1, <2>5 DEF DeviceInv, DrainedAtEnd, Taken, TypeInv, OutInv
    <3>2. PairedWith(t, 0, Tail(f), c, q, copyEos[g])
      BY <1>1, <2>2, <3>1, BufferReturned
    <3>3. Paired(g)'
      BY <1>2, <2>1, <2>2, <2>3, <3>2 DEF Paired
    <3>4. DrainedAtEnd(g)'
      BY <2>1, <2>5 DEF DrainedAtEnd
    <3> QED BY <1>5, <2>2, <3>3, <3>4 DEF DeviceInv
  <2> QED BY <2>4, <2>5
<1>10. CASE OutEos(g)
  <2>1. /\ outPc[g] = "eos" /\ outPc'[g] = "ended"
        /\ UNCHANGED <<mems, inBusy, outBusy, procVars, tagQ, outMemHeld, outCount, outEos>>
    BY <1>10 DEF OutEos, memQs, deviceQs, TypeInv, OutInv, OutTypeOK
  <2>2. Flight(g)' = f /\ Taken(g)' = n
    BY <2>1 DEF mems, procVars, Flight, Held, Outgoing, Processed, Incoming, Taken
  <2>3. Paired(g)'
    BY <1>1, <1>2, <2>1, <2>2 DEF Paired
  <2>4. DrainedAtEnd(g)'
    BY <1>2, <2>1, <2>2 DEF DeviceInv, DrainedAtEnd, Drained
  <2> QED BY <1>4, <2>2, <2>3, <2>4 DEF DeviceInv
<1> QED BY <1>6, <1>7, <1>8, <1>9, <1>10 DEF OutputCopy

----------------------------------------------------------------------------
(* The steps of the session and of the master.                             *)

\* Who announces an image: two of the threads never do so at a time.
LEMMA Announcers ==
    ASSUME PhaseInv, NEW g \in Devices
    PROVE  /\ masterPc \in {"image", "eosImage"} => runPc # "~image"
           /\ masterPc = "image" =>
                Announced(g) = IF masterGpu = g THEN <<masterTag>> ELSE <<>>
           /\ masterPc = "eosImage" =>
                Announced(g) = IF masterDev = g THEN <<Eos>> ELSE <<>>
           /\ runPc = "~image" =>
                Announced(g) = IF dev = g /\ dev < created THEN <<Eos>> ELSE <<>>
           /\ masterPc \notin {"image", "eosImage"} /\ runPc # "~image" =>
                Announced(g) = <<>>
<1>1. masterPc \in {"image", "eosImage"} => runPc # "~image"
  BY DEF PhaseInv, Stopped
<1> QED BY <1>1 DEF Announced

\* A thread of a device leaves the other devices alone.
LEMMA OthersKept ==
    ASSUME TypeInv, NEW g \in Devices, InputCopy(g) \/ Process(g) \/ OutputCopy(g)
    PROVE  /\ \A h \in Devices : Announced(h)' = Announced(h)
           /\ \A h \in Devices \ {g} :
                View(h)' = View(h) /\ tagQ'[h] = tagQ[h] /\ Dealt(h)' = Dealt(h)
<1> USE DEF Put, Pop, At
<1>1. UNCHANGED <<masterVars, runPc, dev, created>>
  BY DEF InputCopy, Process, OutputCopy, CopyTakeMem, CopyTakeImage, CopyPut, CopyEos,
         ProcTakeInput, ProcTakeOutput, ProcGraph, ProcEmit, ProcEos, OutTakeMem, OutTakeTag,
         OutPutLabels, OutReturnMem, OutEos, sessionVars, devVars
<1>2. \A h \in Devices : Announced(h)' = Announced(h)
  BY <1>1 DEF masterVars, Announced
<1>3. ASSUME NEW h \in Devices \ {g}
      PROVE  View(h)' = View(h) /\ tagQ'[h] = tagQ[h] /\ imageQ'[h] = imageQ[h]
  <2>1. CASE InputCopy(g)
    <3>1. /\ inBusy'[h] = inBusy[h] /\ inMem'[h] = inMem[h] /\ imageQ'[h] = imageQ[h]
          /\ UNCHANGED <<outBusy, outMem, tagQ, procVars, outVars>>
      BY <2>1 DEF InputCopy, CopyTakeMem, CopyTakeImage, CopyPut, CopyEos, PassBuffer,
                  mems, memQs, deviceQs, TypeInv, MemTypeOK, Tensors, QueueTypeOK
    <3>2. copyPc'[h] = copyPc[h] /\ copyBatch'[h] = copyBatch[h] /\ copyEos'[h] = copyEos[h]
      BY <2>1 DEF InputCopy, CopyTakeMem, CopyTakeImage, CopyPut, CopyEos, TypeInv, CopyInv,
                  CopyTypeOK
    <3> QED BY <3>1, <3>2 DEF View, procVars, outVars
  <2>2. CASE Process(g)
    <3>1. /\ inBusy'[h] = inBusy[h] /\ outBusy'[h] = outBusy[h] /\ outMem'[h] = outMem[h]
          /\ UNCHANGED <<inMem, deviceQs, copyVars, outVars>>
      BY <2>2 DEF Process, ProcTakeInput, ProcTakeOutput, ProcGraph, ProcEmit, ProcEos,
                  mems, TypeInv, MemTypeOK, Tensors
    <3>2. procPc'[h] = procPc[h] /\ procIn'[h] = procIn[h] /\ procOut'[h] = procOut[h]
      BY <2>2 DEF Process, ProcTakeInput, ProcTakeOutput, ProcGraph, ProcEmit, ProcEos,
                  TypeInv, ProcInv, ProcTypeOK
    <3> QED BY <3>1, <3>2 DEF View, deviceQs, copyVars, outVars
  <2>3. CASE OutputCopy(g)
    <3>1. /\ outBusy'[h] = outBusy[h] /\ tagQ'[h] = tagQ[h]
          /\ UNCHANGED <<inBusy, imageQ, mems, copyVars, procVars>>
      BY <2>3 DEF OutputCopy, OutTakeMem, OutTakeTag, OutPutLabels, OutReturnMem, OutEos,
                  memQs, deviceQs, TypeInv, MemTypeOK, QueueTypeOK
    <3>2. /\ outPc'[h] = outPc[h] /\ outMemHeld'[h] = outMemHeld[h]
          /\ outCount'[h] = outCount[h] /\ outEos'[h] = outEos[h]
      BY <2>3 DEF OutputCopy, OutTakeMem, OutTakeTag, OutPutLabels, OutReturnMem, OutEos,
                  TypeInv, OutInv, OutTypeOK
    <3> QED BY <3>1, <3>2 DEF View, mems, copyVars, procVars
  <2> QED BY <2>1, <2>2, <2>3
<1> QED BY <1>2, <1>3 DEF Dealt

\* The threads of the devices keep the invariant.
LEMMA ThreadsKeep ==
    ASSUME TypeInv, BufferInv, PairInv, NEW g \in Devices,
           InputCopy(g) \/ Process(g) \/ OutputCopy(g)
    PROVE  PairInv'
<1> SUFFICES ASSUME NEW h \in Devices PROVE DeviceInv(h)'
  BY DEF PairInv
<1>1. DeviceInv(h) /\ Announced(h)' = Announced(h)
  BY OthersKept DEF PairInv
<1>2. CASE h = g
  BY <1>1, <1>2, InputCopyKeeps, ProcessKeeps, OutputCopyKeeps
<1>3. CASE h # g
  BY <1>1, <1>3, OthersKept, DeviceFrame
<1> QED BY <1>2, <1>3

\* A tag is enqueued for device g, its image to follow.
LEMMA DeviceAnnounced ==
    ASSUME TypeInv, NEW g \in Devices, DeviceInv(g), View(g)' = View(g), NEW x \in Tag,
           tagQ'[g] = Append(tagQ[g], x), Dealt(g)' = Append(Dealt(g), x),
           x # Eos => ~copyEos[g] /\ \A i \in DOMAIN tagQ[g] : tagQ[g][i] # Eos
    PROVE  DeviceInv(g)'
<1> DEFINE t == tagQ[g]
           n == Taken(g)
           f == Flight(g)
           c == copyBatch[g]
           q == Dealt(g)
<1>1. /\ PairTypes(t, n, f, c, q, copyEos[g])
      /\ PairedWith(t, n, f, c, q, copyEos[g])
      /\ t \in Seq(Tag)
  BY PairedTypes DEF DeviceInv, Paired, PairTypes
<1>2. PairedWith(Append(t, x), n, f, c, Append(q, x), copyEos[g])
  BY <1>1, ImageAnnounced
<1>3. Paired(g)'
  BY <1>2, SameView DEF Paired
<1>4. MarkerLast(g)'
  BY SameView DEF DeviceInv, MarkerLast
<1>5. Drained(g) => Drained(g)'
  <2> SUFFICES ASSUME Drained(g) PROVE Drained(g)'
    OBVIOUS
  <2>1. x = Eos /\ \A i \in DOMAIN t : t[i] = Eos
    BY DEF Drained
  <2>2. \A i \in DOMAIN Append(t, x) : Append(t, x)[i] = Eos
    BY <1>1, <2>1, Appended
  <2> QED BY <2>2, SameView DEF Drained
<1>6. DrainedAtEnd(g)'
  BY <1>5, SameView DEF DeviceInv, DrainedAtEnd
<1> QED BY <1>3, <1>4, <1>6 DEF DeviceInv

\* The master announces an image or deals it out.
LEMMA MasterKeeps ==
    ASSUME TypeInv, PairInv, PhaseInv, Master
    PROVE  PairInv'
<1> SUFFICES ASSUME NEW g \in Devices PROVE DeviceInv(g)'
  BY DEF PairInv
<1> USE DEF Put, Pop, At
<1>1. /\ DeviceInv(g) /\ View(g)' = View(g) /\ masterPc \notin {"unstarted", "ended"}
      /\ UNCHANGED <<runPc, dev, created>>
  BY DEF Master, MasterNext, MasterTag, MasterImage, MasterPick, MasterEosTag,
         MasterEosImage, memQs, mems, deviceVars, copyVars, procVars, outVars, View, PairInv,
         sessionVars, devVars
<1>2. runPc # "~image" /\ runPc' # "~image"
  BY <1>1 DEF PhaseInv, Stopped
<1>3. /\ tagQ[g] \in Seq(Tag) /\ imageQ[g] \in Seq(Tag) /\ masterTag \in Tag /\ Eos \in Tag
      /\ masterGpu \in Devices /\ masterDev \in Devices
      /\ tagQ \in [Devices -> Seq(Tag)] /\ imageQ \in [Devices -> Seq(Tag)]
  BY DEF TypeInv, QueueTypeOK, MasterInv, MasterTypeOK, Tag
<1>4. \A x \in Tag : /\ imageQ[g] \o <<>> = imageQ[g]
                     /\ imageQ[g] \o <<x>> = Append(imageQ[g], x)
                     /\ Append(imageQ[g], x) \o <<>> = Append(imageQ[g], x)
  BY <1>3
<1>5. CASE MasterNext \/ MasterPick
  <2>1. /\ UNCHANGED <<tagQ, imageQ>>
        /\ masterPc \notin {"image", "eosImage"} /\ masterPc' \notin {"image", "eosImage"}
    BY <1>5 DEF MasterNext, MasterPick, deviceQs
  <2>2. Announced(g) = <<>> /\ Announced(g)' = <<>>
    BY <1>2, <2>1 DEF Announced
  <2> QED BY <1>1, <2>1, <2>2, DeviceFrame DEF Dealt
<1>6. CASE MasterTag
  <2>1. /\ masterPc = "tag" /\ masterPc' = "image" /\ imageQ' = imageQ
        /\ tagQ' = [tagQ EXCEPT ![masterGpu] = Append(@, masterTag)]
        /\ UNCHANGED <<masterTag, masterGpu>>
    BY <1>6 DEF MasterTag
  <2>2. /\ Announced(g) = <<>>
        /\ Announced(g)' = IF masterGpu = g THEN <<masterTag>> ELSE <<>>
    BY <1>2, <2>1 DEF Announced
  <2>3. ~copyEos[g] /\ \A i \in DOMAIN tagQ[g] : tagQ[g][i] # Eos
    BY <2>1 DEF PhaseInv, Dealing
  <2>4. CASE masterGpu = g
    <3>1. tagQ'[g] = Append(tagQ[g], masterTag)
      BY <1>3, <2>1, <2>4
    <3>2. Dealt(g)' = Append(Dealt(g), masterTag)
      BY <1>3, <1>4, <2>1, <2>2, <2>4 DEF Dealt
    <3> QED BY <1>1, <1>3, <2>3, <3>1, <3>2, DeviceAnnounced
  <2>5. CASE masterGpu # g
    <3>1. tagQ'[g] = tagQ[g] /\ Dealt(g)' = Dealt(g)
      BY <1>3, <2>1, <2>2, <2>5 DEF Dealt
    <3> QED BY <1>1, <3>1, DeviceFrame
  <2> QED BY <2>4, <2>5
<1>7. CASE MasterEosTag
  <2>1. /\ masterPc = "eosTag" /\ masterPc' = "eosImage" /\ imageQ' = imageQ
        /\ tagQ' = [tagQ EXCEPT ![masterDev] = Append(@, Eos)] /\ masterDev' = masterDev
    BY <1>7 DEF MasterEosTag
  <2>2. /\ Announced(g) = <<>>
        /\ Announced(g)' = IF masterDev = g THEN <<Eos>> ELSE <<>>
    BY <1>2, <2>1 DEF Announced
  <2>3. CASE masterDev = g
    <3>1. tagQ'[g] = Append(tagQ[g], Eos)
      BY <1>3, <2>1, <2>3
    <3>2. Dealt(g)' = Append(Dealt(g), Eos)
      BY <1>3, <1>4, <2>1, <2>2, <2>3 DEF Dealt
    <3> QED BY <1>1, <1>3, <3>1, <3>2, DeviceAnnounced
  <2>4. CASE masterDev # g
    <3>1. tagQ'[g] = tagQ[g] /\ Dealt(g)' = Dealt(g)
      BY <1>3, <2>1, <2>2, <2>4 DEF Dealt
    <3> QED BY <1>1, <3>1, DeviceFrame
  <2> QED BY <2>3, <2>4
<1>8. CASE MasterImage
  <2>1. /\ masterPc = "image" /\ masterPc' \in {"next", "pick"} /\ tagQ' = tagQ
        /\ imageQ' = [imageQ EXCEPT ![masterGpu] = Append(@, masterTag)]
    BY <1>8 DEF MasterImage
  <2>2. /\ Announced(g) = IF masterGpu = g THEN <<masterTag>> ELSE <<>>
        /\ Announced(g)' = <<>>
    BY <1>2, <2>1 DEF Announced
  <2>3. Dealt(g)' = Dealt(g)
    <3>1. CASE masterGpu = g
      BY <1>3, <1>4, <2>1, <2>2, <3>1 DEF Dealt
    <3>2. CASE masterGpu # g
      BY <1>3, <2>1, <2>2, <3>2 DEF Dealt
    <3> QED BY <3>1, <3>2
  <2> QED BY <1>1, <2>1, <2>3, DeviceFrame
<1>9. CASE MasterEosImage
  <2>1. /\ masterPc = "eosImage" /\ masterPc' \in {"ended", "eosTag"} /\ tagQ' = tagQ
        /\ imageQ' = [imageQ EXCEPT ![masterDev] = Append(@, Eos)]
    BY <1>9 DEF MasterEosImage
  <2>2. /\ Announced(g) = IF masterDev = g THEN <<Eos>> ELSE <<>>
        /\ Announced(g)' = <<>>
    BY <1>2, <2>1 DEF Announced
  <2>3. Dealt(g)' = Dealt(g)
    <3>1. CASE masterDev = g
      BY <1>3, <1>4, <2>1, <2>2, <3>1 DEF Dealt
    <3>2. CASE masterDev # g
      BY <1>3, <2>1, <2>2, <3>2 DEF Dealt
    <3> QED BY <3>1, <3>2
  <2> QED BY <1>1, <2>1, <2>3, DeviceFrame
<1> QED BY <1>5, <1>6, <1>7, <1>8, <1>9 DEF Master

\* A device whose queues are empty and whose threads hold nothing.
LEMMA EmptyDevice ==
    ASSUME NEW done \in BOOLEAN
    PROVE  PairedWith(<<>>, 0, <<>>, <<>>, <<>>, done)
<1>1. Before(0 + 1) - 0 = 0
  BY BeforeFacts
<1>2. PairedAt(<<>>, 0, <<>>, <<>>, <<>>, done, 0)
  BY DEF PairedAt, MarkersLast, SlotsMatch, BuffersTagged, BatchMatches, QueueMatches,
         QueueEnded
<1> QED BY <1>1, <1>2 DEF PairedWith

\* The session thread: it announces the destructor's marker, deals it out, and clears
\* the queues of a device whose threads have ended.
LEMMA SessionKeeps ==
    ASSUME TypeInv, PairInv, PhaseInv, Run \/ Destroy
    PROVE  PairInv'
<1> SUFFICES ASSUME NEW g \in Devices PROVE DeviceInv(g)'
  BY DEF PairInv
<1> USE DEF Put, Pop, At
<1>1. DeviceInv(g)
  BY DEF PairInv
<1>2. /\ tagQ[g] \in Seq(Tag) /\ imageQ[g] \in Seq(Tag) /\ Eos \in Tag
      /\ tagQ \in [Devices -> Seq(Tag)] /\ imageQ \in [Devices -> Seq(Tag)]
  BY DEF TypeInv, QueueTypeOK, Tag
<1>3. /\ imageQ[g] \o <<>> = imageQ[g]
      /\ imageQ[g] \o <<Eos>> = Append(imageQ[g], Eos)
      /\ Append(imageQ[g], Eos) \o <<>> = Append(imageQ[g], Eos)
  BY <1>2
<1>4. CASE DestroyTag
  <2>1. /\ runPc = "~tag" /\ runPc' = "~image" /\ imageQ' = imageQ
        /\ UNCHANGED <<dev, created, masterVars>> /\ View(g)' = View(g)
    BY <1>4 DEF DestroyTag, memQs, mems, deviceVars, copyVars, procVars, outVars, View, devVars
  <2>2. masterPc \notin {"image", "eosImage"}
    BY <2>1 DEF PhaseInv, Stopped
  <2>3. /\ Announced(g) = <<>>
        /\ Announced(g)' = IF dev = g /\ dev < created THEN <<Eos>> ELSE <<>>
    BY <2>1, <2>2 DEF Announced, masterVars
  <2>4. CASE dev = g /\ dev < created
    <3>1. tagQ'[g] = Append(tagQ[g], Eos)
      BY <1>2, <1>4, <2>4 DEF DestroyTag
    <3>2. Dealt(g)' = Append(Dealt(g), Eos)
      BY <1>2, <1>3, <2>1, <2>3, <2>4 DEF Dealt
    <3> QED BY <1>1, <1>2, <2>1, <3>1, <3>2, DeviceAnnounced
  <2>5. CASE ~(dev = g /\ dev < created)
    <3>1. tagQ'[g] = tagQ[g] /\ Dealt(g)' = Dealt(g)
      BY <1>2, <1>4, <2>1, <2>3, <2>5 DEF Dealt, DestroyTag
    <3> QED BY <1>1, <2>1, <3>1, DeviceFrame
  <2> QED BY <2>4, <2>5
<1>5. CASE DestroyImage
  <2>1. /\ runPc = "~image" /\ runPc' = "~join" /\ tagQ' = tagQ
        /\ UNCHANGED <<dev, created, masterVars>> /\ View(g)' = View(g)
    BY <1>5 DEF DestroyImage, memQs, mems, deviceVars, copyVars, procVars, outVars, View, devVars
  <2>2. masterPc \notin {"image", "eosImage"}
    BY <2>1 DEF PhaseInv, Stopped
  <2>3. /\ Announced(g) = IF dev = g /\ dev < created THEN <<Eos>> ELSE <<>>
        /\ Announced(g)' = <<>>
    BY <2>1, <2>2 DEF Announced, masterVars
  <2>4. Dealt(g)' = Dealt(g)
    <3>1. CASE dev = g /\ dev < created
      BY <1>2, <1>3, <1>5, <2>3, <3>1 DEF Dealt, DestroyImage
    <3>2. CASE ~(dev = g /\ dev < created)
      BY <1>2, <1>5, <2>3, <3>2 DEF Dealt, DestroyImage
    <3> QED BY <3>1, <3>2
  <2> QED BY <1>1, <2>1, <2>4, DeviceFrame
<1>6. CASE ReleaseDevice
  <2>1. /\ runPc = "~release" /\ runPc' \in {"~end", "~tag"} /\ dev \in Devices
        /\ UNCHANGED <<created, masterVars, mems, deviceVars>>
    BY <1>6, ConstantTypes DEF ReleaseDevice, TypeInv, SessionInv, SessionTypeOK, Devices
  <2>2. masterPc \notin {"image", "eosImage"}
    BY <2>1 DEF PhaseInv, Stopped
  <2>3. Announced(g) = <<>> /\ Announced(g)' = <<>>
    BY <2>1, <2>2 DEF Announced, masterVars
  <2>4. CASE g # dev
    <3>1. tagQ'[g] = tagQ[g] /\ Dealt(g)' = Dealt(g) /\ View(g)' = View(g)
      BY <1>2, <1>6, <2>1, <2>3, <2>4
         DEF Dealt, ReleaseDevice, View, TypeInv, MemTypeOK, mems, deviceVars, copyVars,
             procVars, outVars
    <3> QED BY <1>1, <3>1, DeviceFrame
  <2>5. CASE g = dev
    <3>1. /\ copyPc[g] \in {"unstarted", "ended"} /\ procPc[g] \in {"unstarted", "ended"}
          /\ outPc[g] \in {"unstarted", "ended"}
      BY <2>1, <2>5 DEF PhaseInv, Stopped
    <3>2. copyBatch[g] = <<>> /\ outMemHeld[g] = Eos
      BY <3>1 DEF TypeInv, CopyInv, OutInv
    <3>3. /\ tagQ'[g] = <<>> /\ imageQ'[g] = <<>> /\ inBusy'[g] = <<>> /\ outBusy'[g] = <<>>
          /\ UNCHANGED <<copyPc, copyBatch, copyEos, procPc, outPc, outMemHeld, outEos>>
      BY <1>2, <1>6, <2>1, <2>5
         DEF ReleaseDevice, TypeInv, MemTypeOK, deviceVars, copyVars, procVars, outVars
    <3>4. Held(g)' = <<>> /\ Taken(g)' = 0 /\ Processed(g)' = <<>>
      BY <3>1, <3>2, <3>3 DEF Held, Carried, Taken, Processed
    <3>5. Outgoing(g)' = <<>> /\ Incoming(g)' = <<>>
      BY <3>3 DEF Outgoing, Incoming, Contents
    <3>6. Flight(g)' = <<>> /\ Dealt(g)' = <<>>
      <4>1. <<>> \o <<>> = <<>>
        OBVIOUS
      <4> QED BY <2>3, <3>3, <3>4, <3>5, <4>1 DEF Flight, Dealt
    <3>7. copyEos[g] \in BOOLEAN
      BY DEF TypeInv, CopyInv, CopyTypeOK
    <3>8. Paired(g)'
      BY <3>2, <3>3, <3>4, <3>6, <3>7, EmptyDevice DEF Paired
    <3>9. MarkerLast(g)'
      BY <1>1, <3>3, <3>6 DEF DeviceInv, MarkerLast, Marker
    <3>10. outEos[g] \/ outPc[g] = "ended" => copyEos[g]
      BY <1>1 DEF DeviceInv, DrainedAtEnd, Drained
    <3>11. DrainedAtEnd(g)'
      BY <1>1, <3>1, <3>3, <3>6, <3>10 DEF DrainedAtEnd, Drained
    <3> QED BY <3>8, <3>9, <3>11 DEF DeviceInv
  <2> QED BY <2>4, <2>5
<1>7. CASE StartThreads
  <2>1. /\ runPc = "setup" /\ runPc' \in {"results", "~eos"} /\ masterPc' = "next"
        /\ copyPc'[g] = "mem" /\ procPc'[g] = "input" /\ outPc'[g] = "mem"
        /\ UNCHANGED <<deviceQs, memQs, mems, copyMem, copyBatch, copyEos, procIn, procOut,
                       outMemHeld, outCount, outEos>>
    BY <1>7 DEF StartThreads, Leave
  <2>2. masterPc = "unstarted" /\ copyPc[g] = "unstarted" /\ procPc[g] = "unstarted"
        /\ outPc[g] = "unstarted"
    BY <2>1 DEF TypeInv, SetupInv
  <2>3. Announced(g) = <<>> /\ Announced(g)' = <<>>
    BY <2>1, <2>2 DEF Announced
  <2>4. Processed(g) = <<>> /\ Processed(g)' = <<>>
    BY <2>1, <2>2 DEF Processed
  <2>5. Flight(g)' = Flight(g) /\ Dealt(g)' = Dealt(g) /\ Taken(g)' = Taken(g)
    BY <2>1, <2>3, <2>4
       DEF Flight, Held, Outgoing, Incoming, Dealt, Taken, mems, memQs, deviceQs
  <2>6. Paired(g)'
    BY <1>1, <2>1, <2>5 DEF DeviceInv, Paired, deviceQs
  <2>7. MarkerLast(g)' /\ ~copyEos[g]
    BY <1>1, <2>1, <2>2, <2>5 DEF DeviceInv, MarkerLast
  <2>8. ~outEos[g]
    BY <1>1, <2>7 DEF DeviceInv, DrainedAtEnd, Drained
  <2>9. DrainedAtEnd(g)'
    BY <2>1, <2>8 DEF DrainedAtEnd
  <2> QED BY <2>6, <2>7, <2>9 DEF DeviceInv
<1>8. CASE ~(DestroyTag \/ DestroyImage \/ ReleaseDevice \/ StartThreads)
  <2>1. /\ UNCHANGED <<tagQ, imageQ, masterVars>> /\ View(g)' = View(g)
        /\ runPc # "~image" /\ runPc' # "~image"
    BY <1>8 DEF Run, Destroy, HandleRequest, CreateDevice, CountResults, TakeResult,
       TakeLabels, SendReply, RequestImages, ReceiveImage, ExchangeDone, DestroyEos,
       JoinMaster, JoinDevice, Leave, AfterTake, NextIteration, deviceQs, memQs, mems,
       deviceVars, copyVars, procVars, outVars, View
  <2>2. Announced(g)' = Announced(g)
    BY <2>1 DEF Announced, masterVars
  <2>3. Dealt(g)' = Dealt(g)
    BY <2>1, <2>2 DEF Dealt
  <2> QED BY <1>1, <2>1, <2>3, DeviceFrame
<1> QED BY <1>4, <1>5, <1>6, <1>7, <1>8

\* A thread of a device is not unstarted, and has not ended, before or after its step.
LEMMA ThreadsRun ==
    ASSUME TypeInv, NEW g \in Devices, InputCopy(g) \/ Process(g) \/ OutputCopy(g)
    PROVE  /\ copyPc[g] # "unstarted" \/ procPc[g] # "unstarted" \/ outPc[g] # "unstarted"
           /\ ~(Stopped(copyPc[g]) /\ Stopped(procPc[g]) /\ Stopped(outPc[g]))
           /\ \A h \in Devices : /\ copyPc'[h] = "unstarted" <=> copyPc[h] = "unstarted"
                                 /\ procPc'[h] = "unstarted" <=> procPc[h] = "unstarted"
                                 /\ outPc'[h] = "unstarted" <=> outPc[h] = "unstarted"
           /\ \A h \in Devices \ {g} : copyPc'[h] = copyPc[h] /\ procPc'[h] = procPc[h]
                                       /\ outPc'[h] = outPc[h]
           /\ UNCHANGED <<sessionVars, masterVars>>
<1> USE DEF Put, Pop, At, Stopped
<1>1. CASE InputCopy(g)
  <2>1. /\ copyPc[g] \notin {"unstarted", "ended"} /\ copyPc'[g] # "unstarted"
        /\ \A h \in Devices \ {g} : copyPc'[h] = copyPc[h]
        /\ UNCHANGED <<procVars, outVars, sessionVars, masterVars>>
    BY <1>1 DEF InputCopy, CopyTakeMem, CopyTakeImage, CopyPut, CopyEos, TypeInv, CopyInv,
                CopyTypeOK
  <2> QED BY <2>1 DEF procVars, outVars
<1>2. CASE Process(g)
  <2>1. /\ procPc[g] \notin {"unstarted", "ended"} /\ procPc'[g] # "unstarted"
        /\ \A h \in Devices \ {g} : procPc'[h] = procPc[h]
        /\ UNCHANGED <<copyVars, outVars, sessionVars, masterVars>>
    BY <1>2 DEF Process, ProcTakeInput, ProcTakeOutput, ProcGraph, ProcEmit, ProcEos,
                TypeInv, ProcInv, ProcTypeOK
  <2> QED BY <2>1 DEF copyVars, outVars
<1>3. CASE OutputCopy(g)
  <2>1. /\ outPc[g] \notin {"unstarted", "ended"} /\ outPc'[g] # "unstarted"
        /\ \A h \in Devices \ {g} : outPc'[h] = outPc[h]
        /\ UNCHANGED <<copyVars, procVars, sessionVars, masterVars>>
    BY <1>3 DEF OutputCopy, OutTakeMem, OutTakeTag, OutPutLabels, OutReturnMem, OutEos,
                TypeInv, OutInv, OutTypeOK, AfterSlot
  <2> QED BY <2>1 DEF copyVars, procVars
<1> QED BY <1>1, <1>2, <1>3

\* The threads of the devices keep the phase: no marker reaches them while the master
\* deals images out.
LEMMA ThreadsPhase ==
    ASSUME TypeInv, PairInv, PhaseInv, NEW g \in Devices,
           InputCopy(g) \/ Process(g) \/ OutputCopy(g)
    PROVE  PhaseInv'
<1> USE DEF Put, Pop, At
<1>1. /\ UNCHANGED <<masterPc, runPc, dev>> /\ masterPc # "unstarted"
      /\ runPc \notin {"start", "setup"}
  BY ThreadsRun DEF sessionVars, masterVars, devVars, PhaseInv, TypeInv, SetupInv
<1>2. \A h \in Devices \ {g} : tagQ'[h] = tagQ[h] /\ copyEos'[h] = copyEos[h]
  BY OthersKept DEF View
<1>3. ASSUME masterPc \in Dealing
      PROVE  ~copyEos'[g] /\ \A i \in DOMAIN tagQ'[g] : tagQ'[g][i] # Eos
  <2> DEFINE t == tagQ[g]
  <2>1. ~copyEos[g] /\ (\A i \in DOMAIN t : t[i] # Eos) /\ t \in Seq(Tag)
    BY <1>3 DEF PhaseInv, TypeInv, QueueTypeOK
  <2>2. CASE CopyTakeImage(g)
    <3>1. copyEos[g] = FALSE
      BY <2>1 DEF TypeInv, CopyInv, CopyTypeOK
    <3>2. \A j \in DOMAIN Dealt(g) : Dealt(g)[j] # Eos
      BY <2>1, <3>1, PairedTypes, NoMarkerDealt DEF PairInv, DeviceInv, Paired
    <3>3. imageQ[g] # <<>> /\ imageQ[g] \in Seq(Tag) /\ Announced(g) \in Seq(Tag)
      BY <2>2, PairedTypes DEF CopyTakeImage, TypeInv, QueueTypeOK
    <3>4. 1 \in DOMAIN Dealt(g) /\ Dealt(g)[1] = Head(imageQ[g])
      BY <3>3 DEF Dealt
    <3>5. Head(imageQ[g]) # Eos
      BY <3>2, <3>4
    <3> QED BY <2>1, <2>2, <3>5 DEF CopyTakeImage
  <2>3. CASE OutTakeTag(g)
    <3>1. t # <<>> /\ tagQ'[g] = Tail(t) /\ copyEos' = copyEos
      BY <2>3 DEF OutTakeTag, copyVars, TypeInv, QueueTypeOK
    <3>2. \A i \in DOMAIN Tail(t) : Tail(t)[i] # Eos
      BY <2>1, <3>1, Tailed
    <3> QED BY <2>1, <3>1, <3>2
  <2>4. CASE ~CopyTakeImage(g) /\ ~OutTakeTag(g)
    <3>1. UNCHANGED <<tagQ, copyEos>>
      BY <2>4 DEF InputCopy, Process, OutputCopy, CopyTakeMem, CopyPut, CopyEos,
         ProcTakeInput, ProcTakeOutput, ProcGraph, ProcEmit, ProcEos, OutTakeMem,
         OutPutLabels, OutReturnMem, OutEos, deviceQs, copyVars
    <3> QED BY <2>1, <3>1
  <2> QED BY <2>2, <2>3, <2>4
<1>4. runPc = "~release" => g # dev
  BY ThreadsRun DEF PhaseInv
<1>5. runPc = "~release" => dev \in Devices
  BY ConstantTypes DEF TypeInv, SessionInv, SessionTypeOK, Devices
<1>6. (masterPc \in Dealing =>
         \A h \in Devices : ~copyEos[h] /\ \A i \in DOMAIN tagQ[h] : tagQ[h][i] # Eos)'
  <2> SUFFICES ASSUME masterPc \in Dealing, NEW h \in Devices
               PROVE  ~copyEos'[h] /\ \A i \in DOMAIN tagQ'[h] : tagQ'[h][i] # Eos
    BY <1>1
  <2>1. CASE h = g
    BY <1>3, <2>1
  <2>2. CASE h # g
    BY <1>2, <2>2 DEF PhaseInv
  <2> QED BY <2>1, <2>2
<1>7. (\A h \in Devices : /\ masterPc = "unstarted" <=> copyPc[h] = "unstarted"
                          /\ masterPc = "unstarted" <=> procPc[h] = "unstarted"
                          /\ masterPc = "unstarted" <=> outPc[h] = "unstarted")'
  BY <1>1, ThreadsRun DEF PhaseInv
<1>8. (runPc = "~release" =>
         Stopped(copyPc[dev]) /\ Stopped(procPc[dev]) /\ Stopped(outPc[dev]))'
  BY <1>1, <1>4, <1>5, ThreadsRun DEF PhaseInv
<1> QED BY <1>1, <1>6, <1>7, <1>8 DEF PhaseInv

\* The master: it leaves the phase before it enqueues a marker.
LEMMA MasterPhase ==
    ASSUME TypeInv, PhaseInv, Master
    PROVE  PhaseInv'
<1> USE DEF Put, Pop, At
<1>1. /\ UNCHANGED <<runPc, dev, copyEos, copyPc, procPc, outPc>>
      /\ masterPc \notin {"unstarted", "ended"} /\ masterPc' # "unstarted"
  BY DEF Master, MasterNext, MasterTag, MasterImage, MasterPick, MasterEosTag,
         MasterEosImage, deviceVars, copyVars, procVars, outVars, sessionVars, devVars
<1>2. runPc \notin {"start", "setup", "~tag", "~image", "~join", "~release", "~end"}
  BY <1>1 DEF PhaseInv, Stopped, TypeInv, SetupInv
<1>3. (masterPc \in Dealing =>
         \A g \in Devices : ~copyEos[g] /\ \A i \in DOMAIN tagQ[g] : tagQ[g][i] # Eos)'
  <2> SUFFICES ASSUME masterPc' \in Dealing, NEW g \in Devices
               PROVE  ~copyEos'[g] /\ \A i \in DOMAIN tagQ'[g] : tagQ'[g][i] # Eos
    OBVIOUS
  <2>1. masterPc \in Dealing
    BY DEF Master, MasterNext, MasterTag, MasterImage, MasterPick, MasterEosTag,
           MasterEosImage, Dealing
  <2>2. /\ ~copyEos[g] /\ (\A i \in DOMAIN tagQ[g] : tagQ[g][i] # Eos)
        /\ tagQ[g] \in Seq(Tag) /\ tagQ \in [Devices -> Seq(Tag)] /\ masterTag \in Tag
    BY <2>1 DEF PhaseInv, TypeInv, QueueTypeOK, MasterInv, MasterTypeOK
  <2>3. CASE MasterTag /\ masterGpu = g
    <3>1. tagQ'[g] = Append(tagQ[g], masterTag) /\ masterTag # Eos
      BY <2>2, <2>3, Markers DEF MasterTag, TypeInv, MasterInv
    <3>2. \A i \in DOMAIN tagQ'[g] : tagQ'[g][i] # Eos
      BY <2>2, <3>1, Appended
    <3> QED BY <1>1, <2>2, <3>2
  <2>4. CASE ~(MasterTag /\ masterGpu = g)
    <3>1. tagQ'[g] = tagQ[g]
      BY <2>1, <2>2, <2>4 DEF Master, MasterNext, MasterTag, MasterImage, MasterPick,
         MasterEosTag, MasterEosImage, deviceQs, Dealing
    <3> QED BY <1>1, <2>2, <3>1
  <2> QED BY <2>3, <2>4
<1> QED BY <1>1, <1>2, <1>3 DEF PhaseInv

\* The session thread: it starts the threads and joins them.
LEMMA SessionPhase ==
    ASSUME TypeInv, PairInv, PhaseInv, Run \/ Destroy
    PROVE  PhaseInv'
<1> USE DEF Put, Pop, At
<1>1. CASE StartThreads
  <2>1. /\ runPc = "setup" /\ runPc' \in {"results", "~eos"} /\ masterPc' = "next"
        /\ UNCHANGED <<tagQ, copyEos>>
        /\ \A g \in Devices : copyPc'[g] = "mem" /\ procPc'[g] = "input" /\ outPc'[g] = "mem"
    BY <1>1 DEF StartThreads, Leave, deviceQs
  <2>2. \A g \in Devices : tagQ[g] = <<>> /\ ~copyEos[g]
    BY <2>1 DEF PhaseInv, TypeInv, SetupInv, PairInv, DeviceInv, MarkerLast
  <2> QED BY <2>1, <2>2 DEF PhaseInv
<1>2. CASE DestroyTag
  <2>1. /\ runPc = "~tag" /\ runPc' = "~image" /\ Stopped(masterPc)
        /\ UNCHANGED <<masterPc, inBusy, outBusy, copyPc, procPc, outPc>>
    BY <1>2 DEF DestroyTag, PhaseInv, masterVars, memQs, deviceVars, copyVars, procVars, outVars
  <2>2. ASSUME masterPc = "unstarted", NEW g \in Devices
        PROVE  \A i \in DOMAIN tagQ'[g] : tagQ'[g][i] = Eos
    <3>1. tagQ[g] \in Seq(Tag) /\ tagQ \in [Devices -> Seq(Tag)] /\ Eos \in Tag
      BY DEF TypeInv, QueueTypeOK, Tag
    <3>2. tagQ'[g] \in {tagQ[g], Append(tagQ[g], Eos)}
      BY <1>2, <3>1 DEF DestroyTag
    <3>3. \A i \in DOMAIN tagQ[g] : tagQ[g][i] = Eos
      BY <2>2 DEF PhaseInv
    <3> QED BY <3>1, <3>2, <3>3, Appended
  <2> QED BY <2>1, <2>2 DEF PhaseInv, Stopped, Dealing
<1>3. CASE ReleaseDevice
  <2>1. /\ runPc = "~release" /\ runPc' \in {"~end", "~tag"} /\ Stopped(masterPc)
        /\ UNCHANGED <<masterPc, copyPc, procPc, outPc>>
        /\ inBusy' = [inBusy EXCEPT ![dev] = <<>>] /\ outBusy' = [outBusy EXCEPT ![dev] = <<>>]
        /\ tagQ' = [tagQ EXCEPT ![dev] = <<>>]
    BY <1>3 DEF ReleaseDevice, PhaseInv, masterVars, deviceVars, copyVars, procVars, outVars
  <2>2. \A g \in Devices : /\ inBusy'[g] \in {inBusy[g], <<>>}
                           /\ outBusy'[g] \in {outBusy[g], <<>>}
                           /\ tagQ'[g] \in {tagQ[g], <<>>}
    BY <2>1 DEF TypeInv, MemTypeOK, QueueTypeOK
  <2> QED BY <2>1, <2>2 DEF PhaseInv, Stopped, Dealing
<1>4. CASE JoinMaster \/ DestroyImage \/ JoinDevice
  <2>1. /\ Stopped(masterPc) /\ runPc' \in {"~tag", "~join", "~release"}
        /\ UNCHANGED <<masterPc, dev, tagQ, inBusy, outBusy, copyPc, procPc, outPc>>
        /\ runPc' = "~release" => Stopped(copyPc[dev]) /\ Stopped(procPc[dev])
                                  /\ Stopped(outPc[dev])
    BY <1>4 DEF JoinMaster, DestroyImage, JoinDevice, PhaseInv, devVars, deviceQs, memQs,
       masterVars, deviceVars, copyVars, procVars, outVars
  <2> QED BY <2>1 DEF PhaseInv, Stopped, Dealing
<1>5. CASE ~(StartThreads \/ DestroyTag \/ ReleaseDevice \/ JoinMaster \/ DestroyImage
             \/ JoinDevice)
  <2>1. /\ UNCHANGED <<masterPc, tagQ, imageQ, inBusy, outBusy, copyEos, copyPc, procPc, outPc>>
        /\ runPc' \notin {"~tag", "~image", "~join", "~release", "~end"}
        /\ runPc' \in {"start", "setup"} => runPc \in {"start", "setup"}
    BY <1>5 DEF Run, Destroy, HandleRequest, CreateDevice, CountResults, TakeResult,
       TakeLabels, SendReply, RequestImages, ReceiveImage, ExchangeDone, DestroyEos,
       Leave, AfterTake, NextIteration, deviceQs, memQs, masterVars,
       deviceVars, copyVars, procVars, outVars
  <2> QED BY <2>1 DEF PhaseInv
<1> QED BY <1>1, <1>2, <1>3, <1>4, <1>5

\* The inductive invariant.
AnswersInv == TypeInv /\ BufferInv /\ PairInv /\ PhaseInv

\* Initially nothing waits anywhere.
LEMMA InitAnswersInv == Init => AnswersInv
<1> SUFFICES ASSUME Init PROVE AnswersInv
  OBVIOUS
<1>1. TypeInv
  BY InitTypeInv
<1>2. BufferInv
  BY DEF Init, BufferInv, OneHolder, NoRepeat, NotIn, Apart
<1>3. PhaseInv
  BY DEF Init, PhaseInv, Dealing
<1>4. ASSUME NEW g \in Devices PROVE DeviceInv(g)
  <2>1. /\ tagQ[g] = <<>> /\ imageQ[g] = <<>> /\ inBusy[g] = <<>> /\ outBusy[g] = <<>>
        /\ copyPc[g] = "unstarted" /\ copyBatch[g] = <<>> /\ ~copyEos[g] /\ outMemHeld[g] = Eos
        /\ procPc[g] = "unstarted" /\ ~outEos[g] /\ outPc[g] = "unstarted"
        /\ runPc = "start" /\ masterPc = "unstarted" /\ copyEos[g] \in BOOLEAN
    BY DEF Init
  <2>2. /\ Held(g) = <<>> /\ Taken(g) = 0 /\ Processed(g) = <<>> /\ Outgoing(g) = <<>>
        /\ Incoming(g) = <<>> /\ Announced(g) = <<>>
    BY <2>1 DEF Held, Carried, Taken, Processed, Outgoing, Incoming, Contents, Announced
  <2>3. Flight(g) = <<>> /\ Dealt(g) = <<>>
    <3>1. <<>> \o <<>> = <<>>
      OBVIOUS
    <3> QED BY <2>1, <2>2, <3>1 DEF Flight, Dealt
  <2>4. Paired(g)
    BY <2>1, <2>2, <2>3, EmptyDevice DEF Paired
  <2>5. MarkerLast(g)
    BY <2>1, <2>3 DEF MarkerLast
  <2>6. DrainedAtEnd(g)
    BY <2>1 DEF DrainedAtEnd
  <2> QED BY <2>4, <2>5, <2>6 DEF DeviceInv
<1> QED BY <1>1, <1>2, <1>3, <1>4 DEF AnswersInv, PairInv

\* Every step keeps the invariant.
LEMMA StepAnswersInv ==
    ASSUME AnswersInv, [Next]_vars
    PROVE  AnswersInv'
<1> USE DEF AnswersInv
<1>1. TypeInv'
  BY StepTypeInv
<1>2. CASE Run \/ Destroy
  BY <1>1, <1>2, SessionBuffers, SessionKeeps, SessionPhase
<1>3. CASE Master
  <2>1. BufferInv'
    BY <1>3, BufferFrame DEF Master, MasterNext, MasterTag, MasterImage, MasterPick,
       MasterEosTag, MasterEosImage, bufferVars, deviceVars, copyVars, procVars, outVars
  <2> QED BY <1>1, <1>3, <2>1, MasterKeeps, MasterPhase
<1>4. ASSUME NEW g \in Devices, InputCopy(g) \/ Process(g) \/ OutputCopy(g)
      PROVE  AnswersInv'
  <2>1. BufferInv'
    BY <1>4, InputCopyBuffers, ProcessBuffers, OutputCopyBuffers
  <2>2. PairInv'
    BY <1>4, ThreadsKeep
  <2> QED BY <1>1, <1>4, <2>1, <2>2, ThreadsPhase
<1>5. CASE UNCHANGED vars
  <2>1. BufferInv'
    BY <1>5, BufferFrame DEF vars, bufferVars, deviceVars, copyVars, procVars, outVars
  <2>2. UNCHANGED <<runPc, dev, created, masterVars, deviceQs, memQs, mems, deviceVars>>
    BY <1>5 DEF vars, sessionVars, devVars
  <2>3. ASSUME NEW g \in Devices PROVE DeviceInv(g)'
    <3>1. View(g)' = View(g) /\ tagQ'[g] = tagQ[g] /\ Dealt(g)' = Dealt(g)
      BY <2>2 DEF View, Dealt, Announced, masterVars, deviceQs, memQs, mems, deviceVars,
                  copyVars, procVars, outVars
    <3> QED BY <3>1, DeviceFrame DEF PairInv
  <2>4. PhaseInv'
    BY <2>2 DEF PhaseInv, masterVars, deviceQs, memQs, deviceVars, copyVars, procVars, outVars
  <2> QED BY <1>1, <2>1, <2>3, <2>4 DEF PairInv
<1> QED BY <1>2, <1>3, <1>4, <1>5 DEF Next

----------------------------------------------------------------------------
(* Every label the client receives is right.                               *)

\* An entry of outputQ whose labels follow in outputX.
Labelled(r) == r[1] # Eos /\ HasCompanion(r)

\* The labels x belong to the labelled ones of the entries e, in the same order.
InStep(e, x) ==
    \E at \in [DOMAIN x -> DOMAIN e] :
        /\ \A j, k \in DOMAIN x : j < k => at[j] < at[k]
        /\ \A j \in DOMAIN x : Labelled(e[at[j]]) /\ e[at[j]][2] = x[j]
        /\ \A i \in DOMAIN e : Labelled(e[i]) => \E j \in DOMAIN x : at[j] = i

\* The entries whose labels have not been taken, and the labels they wait for.
Entries == (IF runPc = "takeLabels" THEN <<packet[Len(packet)]>> ELSE <<>>) \o outputQ
Labels  == outputX \o (IF outPc[0] = "labels" THEN <<outLabel[0]>> ELSE <<>>)

\* Every answer of a sequence is the expected one.
AllRight(q) == \A i \in DOMAIN q : q[i][1] # Eos => q[i][2] = Expected(q[i][1])

\* With more than one device the output copies enqueue results and labels in orders
\* that may differ.
LabelsKeepUp == ResultMode = "top1" \/ GPUs = 1

\* The answers received, collected and waiting are right, once companions are counted in.
ResultsInv ==
    /\ AllRight(outputQ) /\ AllRight(packet) /\ AllRight(results)
    /\ runPc = "takeLabels" => HasCompanion(packet[Len(packet)])
    /\ GPUs = 1 => InStep(Entries, Labels)

\* What the output queue holds.
Entry == Tag \X Label

\* A labelled entry and its label are appended.
LEMMA InStepBoth ==
    ASSUME NEW e \in Seq(Entry), NEW x \in Seq(Label), NEW r \in Entry, InStep(e, x),
           Labelled(r)
    PROVE  InStep(Append(e, r), Append(x, r[2]))
<1>1. PICK at \in [DOMAIN x -> DOMAIN e] :
        /\ \A j, k \in DOMAIN x : j < k => at[j] < at[k]
        /\ \A j \in DOMAIN x : Labelled(e[at[j]]) /\ e[at[j]][2] = x[j]
        /\ \A i \in DOMAIN e : Labelled(e[i]) => \E j \in DOMAIN x : at[j] = i
  BY DEF InStep
<1> DEFINE f == Append(e, r)
           y == Append(x, r[2])
           to == [j \in DOMAIN y |-> IF j = Len(x) + 1 THEN Len(e) + 1 ELSE at[j]]
<1>2. r[2] \in Label
  BY DEF Entry
<1>3. /\ Len(e) \in Nat /\ DOMAIN e = 1..Len(e) /\ DOMAIN f = 1..(Len(e) + 1)
      /\ f[Len(e) + 1] = r /\ \A i \in DOMAIN e : f[i] = e[i]
  OBVIOUS
<1>4. /\ Len(x) \in Nat /\ DOMAIN x = 1..Len(x) /\ DOMAIN y = 1..(Len(x) + 1)
      /\ y[Len(x) + 1] = r[2] /\ \A i \in DOMAIN x : y[i] = x[i]
  BY <1>2
<1> HIDE DEF f, y
<1>5. \A j \in DOMAIN x : at[j] \in DOMAIN e /\ at[j] < Len(e) + 1 /\ j # Len(x) + 1
  BY <1>3, <1>4
<1>6. /\ to[Len(x) + 1] = Len(e) + 1 /\ Len(x) + 1 \in DOMAIN y
      /\ \A j \in DOMAIN x : to[j] = at[j] /\ j \in DOMAIN y
      /\ \A j \in DOMAIN y : j \in DOMAIN x \/ j = Len(x) + 1
  BY <1>4, <1>5
<1>7. to \in [DOMAIN y -> DOMAIN f]
  BY <1>3, <1>5, <1>6
<1> HIDE DEF to
<1>8. ASSUME NEW j \in DOMAIN y, NEW k \in DOMAIN y, j < k PROVE to[j] < to[k]
  <2>1. j \in DOMAIN x
    BY <1>4, <1>6, <1>8
  <2>2. CASE k \in DOMAIN x
    BY <1>1, <1>6, <1>8, <2>1, <2>2
  <2>3. CASE k = Len(x) + 1
    BY <1>5, <1>6, <2>1, <2>3
  <2> QED BY <1>6, <2>2, <2>3
<1>9. ASSUME NEW j \in DOMAIN y PROVE Labelled(f[to[j]]) /\ f[to[j]][2] = y[j]
  <2>1. CASE j \in DOMAIN x
    BY <1>1, <1>3, <1>4, <1>5, <1>6, <2>1
  <2>2. CASE j = Len(x) + 1
    BY <1>3, <1>4, <1>6, <2>2
  <2> QED BY <1>6, <2>1, <2>2
<1>10. ASSUME NEW i \in DOMAIN f, Labelled(f[i]) PROVE \E j \in DOMAIN y : to[j] = i
  <2>1. CASE i \in DOMAIN e
    BY <1>1, <1>3, <1>6, <1>10, <2>1
  <2>2. CASE i = Len(e) + 1
    BY <1>6, <2>2
  <2> QED BY <1>3, <2>1, <2>2
<1>11. InStep(f, y)
  BY <1>7, <1>8, <1>9, <1>10 DEF InStep
<1> QED BY <1>11 DEF f, y

\* An entry without labels is appended.
LEMMA InStepPlain ==
    ASSUME NEW e \in Seq(Entry), NEW x \in Seq(Label), NEW r \in Entry, InStep(e, x),
           ~Labelled(r)
    PROVE  InStep(Append(e, r), x)
<1>1. PICK at \in [DOMAIN x -> DOMAIN e] :
        /\ \A j, k \in DOMAIN x : j < k => at[j] < at[k]
        /\ \A j \in DOMAIN x : Labelled(e[at[j]]) /\ e[at[j]][2] = x[j]
        /\ \A i \in DOMAIN e : Labelled(e[i]) => \E j \in DOMAIN x : at[j] = i
  BY DEF InStep
<1> DEFINE f == Append(e, r)
<1>2. /\ Len(e) \in Nat /\ DOMAIN e = 1..Len(e) /\ DOMAIN f = 1..(Len(e) + 1)
      /\ f[Len(e) + 1] = r /\ \A i \in DOMAIN e : f[i] = e[i] /\ i \in DOMAIN f
  OBVIOUS
<1>3. \A i \in DOMAIN f : i \in DOMAIN e \/ i = Len(e) + 1
  BY <1>2
<1> HIDE DEF f
<1>4. at \in [DOMAIN x -> DOMAIN f]
  BY <1>2
<1>5. \A j \in DOMAIN x : Labelled(f[at[j]]) /\ f[at[j]][2] = x[j]
  BY <1>1, <1>2
<1>6. \A i \in DOMAIN f : Labelled(f[i]) => \E j \in DOMAIN x : at[j] = i
  BY <1>1, <1>2, <1>3
<1>7. InStep(f, x)
  BY <1>1, <1>4, <1>5, <1>6 DEF InStep
<1> QED BY <1>7 DEF f

\* An entry without labels is taken.
LEMMA InStepSkipped ==
    ASSUME NEW e \in Seq(Entry), NEW x \in Seq(Label), InStep(e, x), e # <<>>,
           ~Labelled(Head(e))
    PROVE  InStep(Tail(e), x)
<1>1. PICK at \in [DOMAIN x -> DOMAIN e] :
        /\ \A j, k \in DOMAIN x : j < k => at[j] < at[k]
        /\ \A j \in DOMAIN x : Labelled(e[at[j]]) /\ e[at[j]][2] = x[j]
        /\ \A i \in DOMAIN e : Labelled(e[i]) => \E j \in DOMAIN x : at[j] = i
  BY DEF InStep
<1> DEFINE f == Tail(e)
           to == [j \in DOMAIN x |-> at[j] - 1]
<1>2. /\ Head(e) = e[1] /\ \A i \in DOMAIN f : i \in Nat /\ i + 1 \in DOMAIN e
                                              /\ f[i] = e[i + 1]
      /\ \A i \in DOMAIN e : i \in Nat /\ i >= 1
                             /\ (i > 1 => i - 1 \in DOMAIN f /\ f[i - 1] = e[i])
  BY Tailed
<1> HIDE DEF f
<1>3. \A j \in DOMAIN x : /\ at[j] \in DOMAIN e /\ at[j] \in Nat /\ at[j] > 1
                          /\ at[j] - 1 \in DOMAIN f /\ f[at[j] - 1] = e[at[j]]
  <2> SUFFICES ASSUME NEW j \in DOMAIN x
               PROVE  /\ at[j] \in DOMAIN e /\ at[j] \in Nat /\ at[j] > 1
                      /\ at[j] - 1 \in DOMAIN f /\ f[at[j] - 1] = e[at[j]]
    OBVIOUS
  <2>1. at[j] \in DOMAIN e /\ at[j] # 1
    BY <1>1, <1>2
  <2>2. at[j] \in Nat /\ at[j] > 1
    BY <1>2, <2>1
  <2> QED BY <1>2, <2>1, <2>2
<1>4. to \in [DOMAIN x -> DOMAIN f] /\ \A j \in DOMAIN x : to[j] = at[j] - 1
  BY <1>3
<1> HIDE DEF to
<1>5. \A j, k \in DOMAIN x : j < k => to[j] < to[k]
  BY <1>1, <1>3, <1>4
<1>6. \A j \in DOMAIN x : Labelled(f[to[j]]) /\ f[to[j]][2] = x[j]
  BY <1>1, <1>3, <1>4
<1>7. ASSUME NEW i \in DOMAIN f, Labelled(f[i]) PROVE \E j \in DOMAIN x : to[j] = i
  <2>1. PICK j \in DOMAIN x : at[j] = i + 1
    BY <1>1, <1>2, <1>7
  <2>2. to[j] = i
    BY <1>2, <1>4, <2>1
  <2> QED BY <2>2
<1>8. InStep(f, x)
  BY <1>4, <1>5, <1>6, <1>7 DEF InStep
<1> QED BY <1>8 DEF f

\* The labels of the oldest entry are the oldest labels.
LEMMA InStepTaken ==
    ASSUME NEW e \in Seq(Entry), NEW x \in Seq(Label), InStep(e, x), e # <<>>,
           Labelled(Head(e))
    PROVE  /\ x # <<>> /\ Head(x) = Head(e)[2]
           /\ InStep(Tail(e), Tail(x))
<1>1. PICK at \in [DOMAIN x -> DOMAIN e] :
        /\ \A j, k \in DOMAIN x : j < k => at[j] < at[k]
        /\ \A j \in DOMAIN x : Labelled(e[at[j]]) /\ e[at[j]][2] = x[j]
        /\ \A i \in DOMAIN e : Labelled(e[i]) => \E j \in DOMAIN x : at[j] = i
  BY DEF InStep
<1> DEFINE f == Tail(e)
           y == Tail(x)
           to == [j \in DOMAIN y |-> at[j + 1] - 1]
<1>2. /\ Head(e) = e[1] /\ 1 \in DOMAIN e
      /\ \A i \in DOMAIN f : i \in Nat /\ i >= 1 /\ i + 1 \in DOMAIN e /\ f[i] = e[i + 1]
      /\ \A i \in DOMAIN e : i \in Nat /\ i >= 1
                             /\ (i > 1 => i - 1 \in DOMAIN f /\ f[i - 1] = e[i])
  BY Tailed
<1>3. PICK first \in DOMAIN x : at[first] = 1
  BY <1>1, <1>2
<1>4. x # <<>>
  BY <1>3
<1>5. /\ Head(x) = x[1] /\ 1 \in DOMAIN x
      /\ \A j \in DOMAIN y : j \in Nat /\ j >= 1 /\ j + 1 \in DOMAIN x /\ y[j] = x[j + 1]
      /\ \A j \in DOMAIN x : j \in Nat /\ j >= 1
                             /\ (j > 1 => j - 1 \in DOMAIN y /\ y[j - 1] = x[j])
  BY <1>4, Tailed
<1> HIDE DEF f, y
<1>6. first = 1
  <2>1. first > 1 => at[1] < 1
    BY <1>1, <1>3, <1>5
  <2>2. at[1] \in DOMAIN e
    BY <1>5
  <2> QED BY <1>2, <1>3, <1>5, <2>1, <2>2
<1>7. Head(x) = Head(e)[2]
  BY <1>1, <1>2, <1>3, <1>5, <1>6
<1>8. \A j \in DOMAIN y : /\ at[j + 1] \in DOMAIN e /\ at[j + 1] \in Nat
                          /\ at[j + 1] > 1 /\ at[j + 1] - 1 \in DOMAIN f
                          /\ f[at[j + 1] - 1] = e[at[j + 1]]
  <2> SUFFICES ASSUME NEW j \in DOMAIN y
               PROVE  /\ at[j + 1] \in DOMAIN e /\ at[j + 1] \in Nat
                      /\ at[j + 1] > 1 /\ at[j + 1] - 1 \in DOMAIN f
                      /\ f[at[j + 1] - 1] = e[at[j + 1]]
    OBVIOUS
  <2>1. j + 1 \in DOMAIN x /\ 1 < j + 1
    BY <1>5
  <2>2. at[1] < at[j + 1] /\ at[j + 1] \in DOMAIN e
    BY <1>1, <1>5, <2>1
  <2>3. at[j + 1] \in Nat /\ at[j + 1] > 1
    BY <1>2, <1>3, <1>6, <2>2
  <2> QED BY <1>2, <2>2, <2>3
<1>9. to \in [DOMAIN y -> DOMAIN f] /\ \A j \in DOMAIN y : to[j] = at[j + 1] - 1
  BY <1>8
<1> HIDE DEF to
<1>10. ASSUME NEW j \in DOMAIN y, NEW k \in DOMAIN y, j < k PROVE to[j] < to[k]
  <2>1. j + 1 < k + 1 /\ j + 1 \in DOMAIN x /\ k + 1 \in DOMAIN x
    BY <1>5, <1>10
  <2>2. at[j + 1] < at[k + 1]
    BY <1>1, <2>1
  <2> QED BY <1>8, <1>9, <2>2
<1>11. \A j \in DOMAIN y : Labelled(f[to[j]]) /\ f[to[j]][2] = y[j]
  BY <1>1, <1>5, <1>8, <1>9
<1>12. ASSUME NEW i \in DOMAIN f, Labelled(f[i]) PROVE \E j \in DOMAIN y : to[j] = i
  <2>1. PICK j \in DOMAIN x : at[j] = i + 1
    BY <1>1, <1>2, <1>12
  <2>2. j > 1
    BY <1>2, <1>3, <1>5, <1>6, <2>1
  <2>3. j - 1 \in DOMAIN y /\ (j - 1) + 1 = j
    BY <1>5, <2>2
  <2>4. to[j - 1] = i
    BY <1>2, <1>9, <2>1, <2>3
  <2> QED BY <2>3, <2>4
<1>13. InStep(f, y)
  BY <1>9, <1>10, <1>11, <1>12 DEF InStep
<1> QED BY <1>4, <1>7, <1>13 DEF f, y

\* A right entry more, one less, the right entries of two sequences.
LEMMA RightMoves ==
    ASSUME NEW q \in Seq(Entry), AllRight(q)
    PROVE  /\ q # <<>> => /\ AllRight(Tail(q))
                          /\ Head(q)[1] # Eos => Head(q)[2] = Expected(Head(q)[1])
           /\ \A r \in Entry : (r[1] # Eos => r[2] = Expected(r[1])) => AllRight(Append(q, r))
           /\ \A p \in Seq(Entry) : AllRight(p) => AllRight(q \o p)
<1>1. ASSUME q # <<>>
      PROVE  /\ AllRight(Tail(q))
             /\ Head(q)[1] # Eos => Head(q)[2] = Expected(Head(q)[1])
  BY <1>1, Tailed DEF AllRight
<1>2. ASSUME NEW r \in Entry, r[1] # Eos => r[2] = Expected(r[1])
      PROVE  AllRight(Append(q, r))
  BY <1>2, Appended DEF AllRight
<1>3. ASSUME NEW p \in Seq(Entry), AllRight(p)
      PROVE  AllRight(q \o p)
  <2> SUFFICES ASSUME NEW i \in DOMAIN (q \o p), (q \o p)[i][1] # Eos
               PROVE  (q \o p)[i][2] = Expected((q \o p)[i][1])
    BY DEF AllRight
  <2>1. \/ i \in DOMAIN q /\ (q \o p)[i] = q[i]
        \/ i - Len(q) \in DOMAIN p /\ (q \o p)[i] = p[i - Len(q)]
    OBVIOUS
  <2> QED BY <1>3, <2>1 DEF AllRight
<1> QED BY <1>1, <1>2, <1>3

\* The types of the entries and the labels.
LEMMA EntryTypes ==
    ASSUME TypeInv
    PROVE  /\ outputQ \in Seq(Entry) /\ outputX \in Seq(Label)
           /\ packet \in Seq(Entry) /\ results \in Seq(Entry)
           /\ \A i \in DOMAIN packet : packet[i][1] # Eos
           /\ \A i \in DOMAIN results : results[i][1] # Eos
           /\ 0 \in Devices /\ outLabel[0] \in Label
<1>1. \A q \in Seq(Answer) : q \in Seq(Entry) /\ \A i \in DOMAIN q : q[i][1] # Eos
  BY Markers DEF Answer, Entry, Tag
<1> QED BY <1>1, Markers DEF TypeInv, SessionInv, SessionTypeOK, QueueTypeOK, OutInv, OutTypeOK,
        Entry

\* What the invariant says depends on these alone.
resultVars == <<results, packet, resultQs>>

\* A step that touches no result keeps the results right.
LEMMA ResultsFrame ==
    ASSUME ResultsInv, UNCHANGED resultVars, 0 \in Devices,
           (runPc = "takeLabels") <=> (runPc' = "takeLabels"),
           (outPc[0] = "labels") <=> (outPc'[0] = "labels"), outLabel'[0] = outLabel[0]
    PROVE  ResultsInv'
<1>1. Entries' = Entries /\ Labels' = Labels
  BY DEF resultVars, resultQs, Entries, Labels
<1> QED BY <1>1 DEF ResultsInv, resultVars, resultQs, AllRight

\* The slot the output copy reads next contains the image of the next tag.
LEMMA SlotRight ==
    ASSUME BatchDecodedWhole, TypeInv, NEW g \in Devices, DeviceInv(g), outPc[g] = "tag",
           tagQ[g] # <<>>, Head(tagQ[g]) # Eos
    PROVE  outMem[g][outMemHeld[g]][outCount[g] + 1] = Head(tagQ[g])
<1>1. outMemHeld[g] # Eos /\ Taken(g) = outCount[g] /\ outCount[g] < BatchSize
  BY DEF TypeInv, OutInv, Taken
<1>2. Flight(g) # <<>> /\ Flight(g)[1] = outMem[g][outMemHeld[g]]
  BY <1>1, HeldFirst
<1>3. /\ PairTypes(tagQ[g], Taken(g), Flight(g), copyBatch[g], Dealt(g), copyEos[g])
      /\ PairedWith(tagQ[g], Taken(g), Flight(g), copyBatch[g], Dealt(g), copyEos[g])
  BY PairedTypes DEF DeviceInv, Paired
<1>4. Flight(g)[1][Taken(g) + 1] = Head(tagQ[g])
  BY <1>1, <1>2, <1>3, NextSlot
<1> QED BY <1>1, <1>2, <1>4

\* The output copy enqueues the right label.
LEMMA OutputCopyResults ==
    ASSUME BatchDecodedWhole, TypeInv, PairInv, ResultsInv, NEW g \in Devices, OutputCopy(g)
    PROVE  ResultsInv'
<1> USE DEF Put, Pop, At
<1>1. /\ UNCHANGED <<results, packet, runPc>> /\ outputQ \in Seq(Entry)
      /\ outputX \in Seq(Label) /\ 0 \in Devices /\ outLabel[0] \in Label
      /\ GPUs = 1 => g = 0
  BY EntryTypes, ConstantTypes
     DEF OutputCopy, OutTakeMem, OutTakeTag, OutPutLabels, OutReturnMem, OutEos, sessionVars,
         clientVars, replyVars, Devices
<1>2. Entries \in Seq(Entry) /\ Labels \in Seq(Label)
  <2>1. runPc = "takeLabels" => packet[Len(packet)] \in Entry
    BY EntryTypes DEF TypeInv, SessionInv
  <2>2. (IF runPc = "takeLabels" THEN <<packet[Len(packet)]>> ELSE <<>>) \in Seq(Entry)
    BY <2>1
  <2>3. (IF outPc[0] = "labels" THEN <<outLabel[0]>> ELSE <<>>) \in Seq(Label)
    BY <1>1
  <2> QED BY <1>1, <2>2, <2>3, ConcatType DEF Entries, Labels
<1>3. CASE OutTakeMem(g) \/ OutReturnMem(g)
  <2>1. /\ UNCHANGED <<resultQs, outLabel>> /\ outPc[g] # "labels" /\ outPc'[g] # "labels"
        /\ \A h \in Devices \ {g} : outPc'[h] = outPc[h]
    BY <1>3 DEF OutTakeMem, OutReturnMem, TypeInv, OutInv, OutTypeOK
  <2> QED BY <1>1, <2>1, ResultsFrame DEF resultVars
<1>4. \A r \in Entry : outputQ' = Append(outputQ, r) => Entries' = Append(Entries, r)
  <2> SUFFICES ASSUME NEW r \in Entry, outputQ' = Append(outputQ, r)
               PROVE  Entries' = Append(Entries, r)
    OBVIOUS
  <2> DEFINE first == IF runPc = "takeLabels" THEN <<packet[Len(packet)]>> ELSE <<>>
  <2>1. first \in Seq(Entry)
    BY EntryTypes DEF TypeInv, SessionInv
  <2>2. Entries = first \o outputQ /\ Entries' = first \o Append(outputQ, r)
    BY <1>1 DEF Entries
  <2> HIDE DEF first
  <2> QED BY <1>1, <2>1, <2>2
<1>5. CASE OutEos(g)
  <2> DEFINE r == <<Eos, NoBoxes>>
  <2>1. /\ outputQ' = Append(outputQ, r) /\ r \in Entry /\ ~Labelled(r) /\ r[1] = Eos
        /\ UNCHANGED <<outputX, outLabel>> /\ outPc[g] # "labels" /\ outPc'[g] # "labels"
        /\ \A h \in Devices \ {g} : outPc'[h] = outPc[h]
    BY <1>5 DEF OutEos, TypeInv, OutInv, OutTypeOK, Entry, Tag, Label, Blank, NoBoxes, Labelled
  <2> HIDE DEF r
  <2>2. Labels' = Labels /\ Entries' = Append(Entries, r)
    BY <1>1, <1>4, <2>1 DEF Labels
  <2>3. AllRight(outputQ')
    BY <1>1, <2>1, RightMoves DEF ResultsInv
  <2>4. GPUs = 1 => InStep(Entries', Labels')
    BY <1>2, <2>1, <2>2, InStepPlain DEF ResultsInv
  <2>5. InStep(Entries, Labels)' = InStep(Entries', Labels')
    BY DEF InStep, Labelled, HasCompanion
  <2>6. AllRight(outputQ)' = AllRight(outputQ')
    BY DEF AllRight
  <2> QED BY <1>1, <2>3, <2>4, <2>5, <2>6 DEF ResultsInv, AllRight
<1>6. CASE OutPutLabels(g)
  <2>1. /\ outPc[g] = "labels" /\ outPc'[g] # "labels"
        /\ outputX' = Append(outputX, outLabel[g]) /\ outputQ' = outputQ
    BY <1>6 DEF OutPutLabels, TypeInv, OutInv, OutTypeOK, AfterSlot
  <2>2. Entries' = Entries
    BY <1>1, <2>1 DEF Entries
  <2>3. GPUs = 1 => Labels' = Labels
    <3>1. ASSUME GPUs = 1
          PROVE  Labels = outputX \o <<outLabel[0]>>
                 /\ Labels' = Append(outputX, outLabel[0]) \o <<>>
      BY <1>1, <2>1, <3>1 DEF Labels
    <3> QED BY <1>1, <3>1
  <2> QED BY <1>1, <2>1, <2>2, <2>3 DEF ResultsInv, AllRight
<1>7. CASE OutTakeTag(g)
  <2>1. /\ outPc[g] = "tag" /\ tagQ[g] # <<>> /\ tagQ[g] \in Seq(Tag) /\ outputX' = outputX
        /\ \A h \in Devices \ {g} : outPc'[h] = outPc[h]
    BY <1>7 DEF OutTakeTag, TypeInv, QueueTypeOK, OutInv, OutTypeOK
  <2>2. CASE Head(tagQ[g]) = Eos
    <3>1. UNCHANGED <<resultQs, outLabel>> /\ outPc'[g] # "labels"
      BY <1>7, <2>2 DEF OutTakeTag, TypeInv, OutInv, OutTypeOK, resultQs
    <3> QED BY <1>1, <2>1, <3>1, ResultsFrame DEF resultVars
  <2>3. CASE Head(tagQ[g]) # Eos
    <3> DEFINE tag == Head(tagQ[g])
               r   == Result(tag, outMem[g][outMemHeld[g]][outCount[g] + 1])
    <3>1. r = <<tag, Expected(tag)>>
      BY <2>1, <2>3, SlotRight DEF PairInv, Expected, Result
    <3>2. tag \in Images /\ r \in Entry /\ r[1] = tag /\ r[2] = Expected(tag)
      BY <2>1, <2>3, <3>1, Tailed DEF Tag, Expected, Result, Entry, Label, NoBoxes, Blank
    <3>3. /\ outputQ' = Append(outputQ, r)
          /\ outLabel'[g] = IF HasCompanion(r) THEN r[2] ELSE Blank
          /\ (outPc'[g] = "labels") <=> HasCompanion(r)
      BY <1>7, <2>3 DEF OutTakeTag, TypeInv, OutInv, OutTypeOK, AfterSlot
    <3> HIDE DEF r, tag
    <3>4. AllRight(outputQ')
      BY <1>1, <3>2, <3>3, RightMoves DEF ResultsInv
    <3>5. Entries' = Append(Entries, r)
      BY <1>4, <3>2, <3>3
    <3>6. ASSUME GPUs = 1 PROVE InStep(Entries', Labels')
      <4>1. InStep(Entries, Labels) /\ Labels = outputX \o <<>> /\ outputX \o <<>> = outputX
        BY <1>1, <2>1, <3>6 DEF ResultsInv, Labels
      <4>2. CASE HasCompanion(r)
        <5>1. Labels' = outputX \o <<r[2]>>
          BY <1>1, <2>1, <3>3, <3>6, <4>2 DEF Labels
        <5>2. r[2] \in Label /\ Labelled(r)
          BY <3>2, <4>2, Markers DEF Entry, Labelled
        <5>3. Labels' = Append(Labels, r[2])
          BY <1>1, <4>1, <5>1, <5>2
        <5> QED BY <1>2, <3>2, <3>5, <4>1, <5>2, <5>3, InStepBoth
      <4>3. CASE ~HasCompanion(r)
        <5>1. Labels' = outputX \o <<>>
          BY <1>1, <2>1, <3>3, <3>6, <4>3 DEF Labels
        <5>2. ~Labelled(r) /\ Labels' = Labels
          BY <4>1, <4>3, <5>1 DEF Labelled
        <5> QED BY <1>2, <3>2, <3>5, <4>1, <5>2, InStepPlain
      <4> QED BY <4>2, <4>3
    <3>7. InStep(Entries, Labels)' = InStep(Entries', Labels')
      BY DEF InStep, Labelled, HasCompanion
    <3>8. AllRight(outputQ)' = AllRight(outputQ')
      BY DEF AllRight
    <3> QED BY <1>1, <3>4, <3>6, <3>7, <3>8 DEF ResultsInv, AllRight
  <2> QED BY <2>2, <2>3
<1> QED BY <1>3, <1>5, <1>6, <1>7 DEF OutputCopy

\* The session thread takes results and their labels, and replies.
LEMMA SessionResults ==
    ASSUME TypeInv, ResultsInv, LabelsKeepUp, Run \/ Destroy
    PROVE  ResultsInv'
<1>1. /\ outputQ \in Seq(Entry) /\ outputX \in Seq(Label)
      /\ packet \in Seq(Entry) /\ results \in Seq(Entry) /\ 0 \in Devices
  BY EntryTypes
<1>2. CASE TakeResult
  <2> DEFINE r == Head(outputQ)
  <2>1. /\ runPc = "take" /\ outputQ # <<>> /\ outputQ' = Tail(outputQ) /\ r \in Entry
        /\ UNCHANGED <<results, outputX, outPc, outLabel>> /\ Tail(outputQ) \in Seq(Entry)
    BY <1>1, <1>2, Tailed DEF TakeResult, clientVars, deviceVars, outVars
  <2>2. Labels' = Labels /\ Labels \in Seq(Label)
    <3>1. (IF outPc[0] = "labels" THEN <<outLabel[0]>> ELSE <<>>) \in Seq(Label)
      BY EntryTypes
    <3> QED BY <1>1, <2>1, <3>1, ConcatType DEF Labels
  <2>3. Entries = outputQ
    BY <1>1, <2>1 DEF Entries
  <2>4. AllRight(outputQ') /\ (r[1] # Eos => r[2] = Expected(r[1]))
    BY <1>1, <2>1, RightMoves DEF ResultsInv
  <2>5. CASE ~Labelled(r)
    <3>1. /\ runPc' # "takeLabels" /\ packet' \in {packet, Append(packet, r)}
          /\ packet' # packet => r[1] # Eos
      BY <1>2, <2>5 DEF TakeResult, Labelled, AfterTake
    <3>2. AllRight(packet')
      BY <1>1, <2>1, <2>4, <3>1, RightMoves DEF ResultsInv
    <3>3. Entries' = Tail(outputQ)
      BY <2>1, <3>1 DEF Entries
    <3>4. GPUs = 1 => InStep(Entries', Labels')
      BY <1>1, <2>1, <2>2, <2>3, <2>5, <3>3, InStepSkipped DEF ResultsInv
    <3>5. InStep(Entries, Labels)' = InStep(Entries', Labels')
      BY DEF InStep, Labelled, HasCompanion
    <3> QED BY <2>1, <2>4, <3>1, <3>2, <3>4, <3>5 DEF ResultsInv, AllRight
  <2>6. CASE Labelled(r)
    <3>1. runPc' = "takeLabels" /\ packet' = Append(packet, r) /\ r[1] # Eos
      BY <1>2, <2>6 DEF TakeResult, Labelled
    <3>2. Len(packet') = Len(packet) + 1 /\ packet'[Len(packet) + 1] = r
      BY <1>1, <2>1, <3>1, Appended
    <3>3. AllRight(packet') /\ HasCompanion(packet'[Len(packet')])
      BY <1>1, <2>1, <2>4, <2>6, <3>1, <3>2, RightMoves DEF ResultsInv, Labelled
    <3>4. Entries' = Entries
      <4>1. Entries' = <<r>> \o Tail(outputQ)
        BY <2>1, <3>1, <3>2 DEF Entries
      <4> QED BY <1>1, <2>1, <2>3, <4>1
    <3>5. HasCompanion(packet[Len(packet)])' = HasCompanion(packet'[Len(packet')])
      BY DEF HasCompanion
    <3> QED BY <2>1, <2>2, <2>4, <3>3, <3>4, <3>5 DEF ResultsInv, AllRight
  <2> QED BY <2>5, <2>6
<1>3. CASE TakeLabels
  <2> DEFINE last == packet[Len(packet)]
             x    == Head(outputX)
  <2>1. /\ runPc = "takeLabels" /\ runPc' # "takeLabels" /\ outputX # <<>>
        /\ outputX' = Tail(outputX) /\ UNCHANGED <<results, outputQ, outPc, outLabel>>
        /\ packet' = [packet EXCEPT ![Len(packet)] = <<@[1], x>>]
    BY <1>3 DEF TakeLabels, AfterTake, clientVars, deviceVars, outVars
  <2>2. Len(packet) \in DOMAIN packet /\ last \in Entry /\ last[1] # Eos
    <3>1. Len(packet) >= 1
      BY <2>1, ConstantTypes DEF TypeInv, SessionInv
    <3> QED BY <1>1, <3>1, EntryTypes
  <2>3. HasCompanion(last) /\ Labelled(last) /\ last[2] = Expected(last[1])
    BY <2>1, <2>2 DEF ResultsInv, Labelled, AllRight
  <2>4. GPUs = 1
    BY <2>3 DEF LabelsKeepUp, HasCompanion
  <2> DEFINE pending == IF outPc[0] = "labels" THEN <<outLabel[0]>> ELSE <<>>
  <2>5. pending \in Seq(Label)
    BY EntryTypes
  <2>6. /\ Entries = <<last>> \o outputQ /\ Entries' = <<>> \o outputQ
        /\ Labels = outputX \o pending /\ Labels' = Tail(outputX) \o pending
    BY <2>1 DEF Entries, Labels
  <2> HIDE DEF pending, last, x
  <2>7. /\ Entries \in Seq(Entry) /\ Entries # <<>> /\ Head(Entries) = last
        /\ Tail(Entries) = Entries'
    BY <1>1, <2>2, <2>6
  <2>8. /\ Labels \in Seq(Label) /\ Head(Labels) = x /\ Tail(Labels) = Labels'
    BY <1>1, <2>1, <2>5, <2>6 DEF x
  <2>9. x = last[2] /\ InStep(Entries', Labels')
    BY <2>3, <2>4, <2>7, <2>8, InStepTaken DEF ResultsInv
  <2>10. packet' = packet
    <3>1. \A e \in Entry : <<e[1], e[2]>> = e
      BY DEF Entry
    <3>2. <<last[1], x>> = packet[Len(packet)]
      BY <2>2, <2>9, <3>1 DEF last
    <3>3. packet' = [packet EXCEPT ![Len(packet)] = packet[Len(packet)]]
      BY <2>1, <3>2 DEF last
    <3> QED BY <1>1, <2>2, <3>3
  <2>11. InStep(Entries, Labels)' = InStep(Entries', Labels')
    BY DEF InStep, Labelled, HasCompanion
  <2> QED BY <2>1, <2>9, <2>10, <2>11 DEF ResultsInv, AllRight
<1>4. CASE SendReply
  <2>1. /\ runPc = "reply" /\ runPc' # "takeLabels" /\ UNCHANGED <<resultQs, outPc, outLabel>>
        /\ \/ results' = results \o packet /\ packet' = <<>>
           \/ UNCHANGED <<results, packet>>
    BY <1>4 DEF SendReply, Leave, deviceVars, outVars
  <2>2. AllRight(results')
    BY <1>1, <2>1, RightMoves DEF ResultsInv
  <2>3. AllRight(packet')
    BY <2>1 DEF ResultsInv, AllRight
  <2>4. Entries' = Entries /\ Labels' = Labels
    BY <2>1 DEF Entries, Labels, resultQs
  <2> QED BY <2>1, <2>2, <2>3, <2>4 DEF ResultsInv, AllRight, resultQs
<1>5. CASE ~(TakeResult \/ TakeLabels \/ SendReply)
  <2>1. /\ UNCHANGED resultVars /\ runPc # "takeLabels" /\ runPc' # "takeLabels"
        /\ outLabel' = outLabel
    BY <1>5 DEF Run, Destroy, HandleRequest, CreateDevice, StartThreads, CountResults,
       RequestImages, ReceiveImage, ExchangeDone, DestroyEos, JoinMaster, DestroyTag,
       DestroyImage, JoinDevice, ReleaseDevice, Leave, NextIteration, clientVars, replyVars,
       resultVars, deviceVars, outVars
  <2>2. outPc[0] = "labels" <=> outPc'[0] = "labels"
    <3>1. CASE StartThreads
      BY <1>1, <3>1 DEF StartThreads, TypeInv, SetupInv
    <3>2. CASE ~StartThreads
      BY <1>5, <3>2 DEF Run, Destroy, HandleRequest, CreateDevice, CountResults,
         RequestImages, ReceiveImage, ExchangeDone, DestroyEos, JoinMaster, DestroyTag,
         DestroyImage, JoinDevice, ReleaseDevice, deviceVars, outVars
    <3> QED BY <3>1, <3>2
  <2> QED BY <1>1, <2>1, <2>2, ResultsFrame
<1> QED BY <1>2, <1>3, <1>4, <1>5

\* The answers on their way are right in every state.
LEMMA AnswersRight ==
    ASSUME BatchDecodedWhole, LabelsKeepUp
    PROVE  Spec => [](AnswersInv /\ ResultsInv)
<1>1. Init => AnswersInv /\ ResultsInv
  <2> SUFFICES ASSUME Init PROVE AnswersInv /\ ResultsInv
    OBVIOUS
  <2>1. /\ outputQ = <<>> /\ outputX = <<>> /\ packet = <<>> /\ results = <<>>
        /\ runPc = "start" /\ outPc[0] = "unstarted"
    BY Markers DEF Init
  <2>2. Entries = <<>> /\ Labels = <<>>
    <3>1. <<>> \o <<>> = <<>>
      OBVIOUS
    <3> QED BY <2>1, <3>1 DEF Entries, Labels
  <2>3. InStep(<<>>, <<>>)
    <3> DEFINE none == [j \in {} |-> 0]
    <3>1. DOMAIN <<>> = {}
      OBVIOUS
    <3>2. none \in [{} -> {}]
      OBVIOUS
    <3> QED BY <3>1, <3>2 DEF InStep
  <2> QED BY <2>1, <2>2, <2>3, InitAnswersInv DEF ResultsInv, AllRight
<1>2. (AnswersInv /\ ResultsInv) /\ [Next]_vars => (AnswersInv /\ ResultsInv)'
  <2> SUFFICES ASSUME AnswersInv, ResultsInv, [Next]_vars PROVE AnswersInv' /\ ResultsInv'
    OBVIOUS
  <2>1. AnswersInv'
    BY StepAnswersInv
  <2>2. TypeInv /\ PairInv /\ 0 \in Devices
    BY Markers DEF AnswersInv
  <2>3. CASE Run \/ Destroy
    BY <2>1, <2>2, <2>3, SessionResults
  <2>4. CASE Master
    <3>1. UNCHANGED <<resultVars, runPc, outPc, outLabel>>
      BY <2>4 DEF Master, MasterNext, MasterTag, MasterImage, MasterPick, MasterEosTag,
         MasterEosImage, sessionVars, clientVars, replyVars, resultVars, deviceVars, outVars
    <3> QED BY <2>1, <2>2, <3>1, ResultsFrame
  <2>5. ASSUME NEW g \in Devices, InputCopy(g) \/ Process(g) PROVE ResultsInv'
    <3>1. UNCHANGED <<resultVars, runPc, outPc, outLabel>>
      BY <2>5 DEF InputCopy, Process, CopyTakeMem, CopyTakeImage, CopyPut, CopyEos,
         ProcTakeInput, ProcTakeOutput, ProcGraph, ProcEmit, ProcEos,
         sessionVars, clientVars, replyVars, resultVars, outVars
    <3> QED BY <2>2, <3>1, ResultsFrame
  <2>6. ASSUME NEW g \in Devices, OutputCopy(g) PROVE ResultsInv'
    BY <2>2, <2>6, OutputCopyResults
  <2>7. CASE UNCHANGED vars
    <3>1. UNCHANGED <<resultVars, runPc, outPc, outLabel>>
      BY <2>7 DEF vars, sessionVars, clientVars, replyVars, resultVars, deviceVars, outVars
    <3> QED BY <2>1, <2>2, <3>1, ResultsFrame
  <2> QED BY <2>1, <2>3, <2>4, <2>5, <2>6, <2>7 DEF Next
<1> QED BY <1>1, <1>2, PTL DEF Spec

\* Every label the client receives belongs to the image it sent under that tag, for every
\* number of devices, batch size, pipe depth and number of images: if the decoder threads
\* share a batch without a remainder, and if there are no labels apart from the results or
\* only one device that produces them.  (The runs show that neither can be dispensed with.)
THEOREM LabelsCorrect ==
    ASSUME BatchDecodedWhole, LabelsKeepUp
    PROVE  Spec => []ResultsCorrect
<1>1. AnswersInv /\ ResultsInv => ResultsCorrect
  <2> SUFFICES ASSUME TypeInv, ResultsInv PROVE ResultsCorrect
    BY DEF AnswersInv
  <2> QED BY EntryTypes DEF ResultsInv, AllRight, ResultsCorrect
<1>2. Spec => [](AnswersInv /\ ResultsInv)
  BY AnswersRight
<1> QED BY <1>1, <1>2, PTL

=============================================================================
