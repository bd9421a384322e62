------------------------- MODULE MediaEncoderProofs -------------------------
(***************************************************************************)
(* Theorems about MediaEncoder for every size of the pool, every delay of  *)
(* the codec and every number of frames: the counters of the two threads   *)
(* and the acknowledgements alone keep them apart.                         *)
(***************************************************************************)
EXTENDS MediaEncoder, TLAPS

Working  == {"scale", "encode", "ack"}              \* a frame is being encoded
Active   == {"start", "command"} \cup Working
Stopping == {"terminate", "lastAck", "ended"}
Aborting == app \in {"~drain", "~join", "~end"}

AbortQueued == queueCmd # <<>> /\ queueCmd[Len(queueCmd)] = Abort

\* The frames a buffer of the pool is taken by: waiting for the encoder, in its hands
\* (or lost in them by an error), in the hands of the graph.
Orders  == IF AbortQueued THEN Len(queueCmd) - 1 ELSE Len(queueCmd)
Busy    == IF pc \in Working THEN 1 ELSE 0
InHand  == IF pc \in Working \/ (pc \in Stopping /\ ~Aborting) THEN 1 ELSE 0
Holding == IF app \in {"render", "submit"} THEN 1 ELSE 0
Taken   == Orders + InHand + Holding

\* Commands are orders, the last one may be the order to stop.
CommandInv ==
    /\ \A i \in DOMAIN queueCmd : queueCmd[i] = Abort => i = Len(queueCmd) /\ Aborting
    /\ pc = "start" => /\ Orders = 0 /\ queueAck = <<>> /\ app \in {"idle", "~drain"}
                       /\ encodeFrameCount = 0 /\ inputFrameCount = 0
    /\ pc = "flush" => Aborting /\ queueCmd = <<>>
    /\ app = "~end" => pc = "ended"

\* The encoder stops by itself only after an error.
FailInv ==
    /\ pc \in Stopping /\ ~failed => Aborting /\ queueCmd = <<>>
    /\ threadTerminated => pc \in {"lastAck", "ended"}
    /\ \A i \in DOMAIN queueAck : queueAck[i] = Bad => pc = "ended"

\* The acknowledgements are what is left of the pool.
CreditInv ==
    pc # "start" => Len(queueAck) + Taken
                       <= IF pc = "ended" THEN PoolSize ELSE PoolSize - 1

\* The two frame counters differ by the frames in between.
FrameInv ==
    /\ encodeFrameCount + Taken <= inputFrameCount
    /\ ~failed \/ app \in {"idle", "render", "submit"} =>
          encodeFrameCount + Taken = inputFrameCount

\* The buffers in between hold their pictures.
MemInv ==
    /\ pc = "scale" => mem[Source] = encodeFrameCount + 1
    /\ pc \in Active =>
          \A i \in 0..(Orders - 1) :
             mem[(encodeFrameCount + Busy + i) % PoolSize] = encodeFrameCount + Busy + i + 1
    /\ app = "submit" => mem[Lent] = inputFrameCount

\* The codec returns the pictures in order, the last Bframes of them later.
CodecInv ==
    /\ pc = "encode" => picture = encodeFrameCount + 1
    /\ \A i \in DOMAIN written : written[i] = i
    /\ pc \in Active \/ ~Container => \A i \in DOMAIN held : held[i] = Len(written) + i
    /\ pc \in Active => Len(written) + Len(held) =
                           IF pc = "ack" THEN encodeFrameCount + 1 ELSE encodeFrameCount
    /\ Len(held) <= Bframes

\* What is left in the codec is flushed, unless an error intervenes.
FlushInv ==
    /\ ~failed /\ pc \in Stopping => held = <<>>
    /\ ~failed /\ pc \notin Active /\ (~Container \/ Bframes = 0) =>
          Len(written) + Len(held) = encodeFrameCount

IInv == /\ TypeOK /\ CommandInv /\ FailInv /\ CreditInv /\ FrameInv /\ MemInv
        /\ CodecInv /\ FlushInv

----------------------------------------------------------------------------
\* Two numbers less than n apart have different remainders.
LEMMA ModApart ==
    ASSUME NEW n \in Nat \ {0}, NEW a \in Nat, NEW b \in Nat, a < b, b < a + n
    PROVE  a % n # b % n
<1> DEFINE p == a \div n
           q == b \div n
<1>1. p \in Int /\ q \in Int /\ a = n * p + (a % n) /\ b = n * q + (b % n)
  OBVIOUS
<1>2. SUFFICES ASSUME a % n = b % n PROVE FALSE
  OBVIOUS
<1>3. n * (q - p) = b - a
  BY <1>1, <1>2
<1>4. q - p > 0 /\ q - p < 1
  BY <1>1, <1>3
<1> QED BY <1>1, <1>4

\* The same, of a number that is counted from a remainder.
LEMMA ModApartFrom ==
    ASSUME NEW n \in Nat \ {0}, NEW a \in Nat, NEW k \in Nat, NEW b \in Nat,
           a + k < b, b < a + k + n
    PROVE  ((a % n) + k) % n # b % n
<1> DEFINE r == a % n
           s == (r + k) % n
           p == a \div n
           m == (r + k) \div n
           q == b \div n
<1>1. p \in Int /\ q \in Int /\ r \in Nat /\ a = n * p + r /\ b = n * q + (b % n)
  OBVIOUS
<1>2. r + k \in Nat
  <2> HIDE DEF r
  <2> QED BY <1>1
<1>3. m \in Int /\ s \in Nat /\ r + k = n * m + s
  <2>1. \A x \in Nat : x \div n \in Int /\ x % n \in Nat /\ x = n * (x \div n) + (x % n)
    OBVIOUS
  <2> HIDE DEF r
  <2> QED BY <1>2, <2>1, Zenon
<1>4. SUFFICES ASSUME s = b % n PROVE FALSE
  OBVIOUS
<1> HIDE DEF r, s, p, m, q
<1>5. b = n * q + s
  BY <1>1, <1>4
<1>6. n * (q - p - m) = b - (a + k)
  BY <1>1, <1>3, <1>5
<1>7. q - p - m > 0 /\ q - p - m < 1
  BY <1>1, <1>3, <1>6
<1> QED BY <1>1, <1>3, <1>7

\* One more picture given to the codec, or given by it.
LEMMA OneMore ==
    \A w, h, e \in Int : w + h = e => e + 1 = w + (h + 1) /\ (w + 1) + h = e + 1
OBVIOUS

\* One picture that the codec gives back.
LEMMA OneLess == \A w, h, e \in Int : w + h = e => (w + 1) + (h - 1) = e
OBVIOUS

\* A remainder is a buffer of the pool.
LEMMA ModPool == \A a \in Int : a % PoolSize \in Pool
BY EncoderAssumption DEF Pool

\* The invariant holds initially.
LEMMA InitIInv == Init => IInv
BY EncoderAssumption DEF Init, IInv, TypeOK, CommandInv, FailInv, CreditInv, FrameInv, MemInv,
   CodecInv, FlushInv, AbortQueued, Orders, Busy, InHand, Holding, Taken, Aborting, Working, Active,
   Stopping, Pool, Picture, Nothing, Source

\* The ranges of the numbers the invariant counts with.
LEMMA Counts ==
    IInv => /\ Orders \in Nat /\ Orders <= Len(queueCmd) /\ Busy \in {0, 1}
            /\ InHand \in {0, 1} /\ Busy <= InHand /\ Holding \in {0, 1}
            /\ Taken \in Nat /\ Taken = Orders + InHand + Holding
            /\ (AbortQueued => Orders = Len(queueCmd) - 1)
            /\ (~AbortQueued => Orders = Len(queueCmd))
<1> SUFFICES ASSUME IInv
             PROVE  /\ Orders \in Nat /\ Orders <= Len(queueCmd) /\ Busy \in {0, 1}
                    /\ InHand \in {0, 1} /\ Busy <= InHand /\ Holding \in {0, 1}
                    /\ Taken \in Nat /\ Taken = Orders + InHand + Holding
                    /\ (AbortQueued => Orders = Len(queueCmd) - 1)
                    /\ (~AbortQueued => Orders = Len(queueCmd))
  OBVIOUS
<1>1. /\ Orders \in Nat /\ Orders <= Len(queueCmd)
      /\ (AbortQueued => Orders = Len(queueCmd) - 1)
      /\ (~AbortQueued => Orders = Len(queueCmd))
  BY DEF IInv, TypeOK, Orders, AbortQueued
<1>2. Busy \in {0, 1} /\ InHand \in {0, 1} /\ Busy <= InHand /\ Holding \in {0, 1}
  BY DEF Busy, InHand, Holding
<1>3. Taken \in Nat /\ Taken = Orders + InHand + Holding
  BY <1>1, <1>2 DEF Taken
<1> QED BY <1>1, <1>2, <1>3


\* A buffer is taken for an acknowledgement: the graph holds it.
LEMMA StepUpdateBuffer == IInv /\ UpdateBuffer => IInv'
<1> SUFFICES ASSUME IInv, UpdateBuffer PROVE IInv'
  OBVIOUS
<1> USE DEF UpdateBuffer, CallFails, appVars, queues, frameVars, codecVars, Encode, Abort, Good, Bad
<1>0. /\ Orders \in Nat /\ Orders <= Len(queueCmd) /\ Busy \in {0, 1} /\ InHand \in {0, 1}
      /\ Busy <= InHand /\ Holding \in {0, 1}
      /\ Taken \in Nat /\ Taken = Orders + InHand + Holding
      /\ AbortQueued => Orders = Len(queueCmd) - 1
      /\ ~AbortQueued => Orders = Len(queueCmd)
  BY Counts
<1>n. /\ encodeFrameCount \in Nat /\ inputFrameCount \in Nat /\ inputFrameCount <= MaxFrames
      /\ encodeFrameCount <= MaxFrames
      /\ Len(queueAck) \in Nat /\ Len(queueCmd) \in Nat /\ MaxFrames \in Nat /\ PoolSize \in Nat \ {0}
  BY EncoderAssumption DEF IInv, TypeOK
<1>b. failed \in BOOLEAN /\ failed' \in BOOLEAN
  BY DEF IInv, TypeOK
<1>t. queueAck # <<>> => /\ Tail(queueAck) \in Seq({Good, Bad})
                         /\ Len(Tail(queueAck)) = Len(queueAck) - 1
  BY DEF IInv, TypeOK
<1>u. queueAck # <<>> => /\ \A i \in DOMAIN Tail(queueAck) : Tail(queueAck)[i] = queueAck[i + 1]
                         /\ \A i \in DOMAIN Tail(queueAck) : i + 1 \in DOMAIN queueAck
                         /\ Head(queueAck) = queueAck[1] /\ 1 \in DOMAIN queueAck
  BY DEF IInv, TypeOK
<1>a. /\ AbortQueued' = AbortQueued /\ Orders' = Orders /\ Busy' = Busy /\ InHand' = InHand
      /\ Holding = 0
      /\ app' \in {"render", "abandoned", "failed"}
      /\ app' = "render" => Holding' = 1 /\ inputFrameCount' = inputFrameCount + 1
      /\ app' = "abandoned" => Holding' = 0 /\ failed
      /\ app' = "failed" => /\ Holding' = 0 /\ failed'
                            /\ inputFrameCount' \in {inputFrameCount, inputFrameCount + 1}
  BY <1>t, <1>u, EncoderAssumption DEF IInv, TypeOK, CommandInv, FailInv, AbortQueued, Orders, Busy, InHand, Holding, Aborting, Working, Stopping
<1>c. /\ app' = "render" => Taken' = Taken + 1
      /\ app' # "render" => Taken' = Taken
  BY <1>0, <1>n, <1>a DEF Taken
<1>1. TypeOK'
  <2>0. queueAck \in Seq({Good, Bad}) /\ Len(queueAck) <= PoolSize
    BY DEF IInv, TypeOK
  <2>1. queueAck' \in Seq({Good, Bad}) /\ Len(queueAck') <= PoolSize
    <3>1. queueAck # <<>> /\ queueAck' = Tail(queueAck)
      OBVIOUS
    <3>2. Len(queueAck') = Len(queueAck) - 1 /\ queueAck' \in Seq({Good, Bad})
      BY <1>t, <3>1
    <3> QED BY <1>n, <2>0, <3>2
  <2>2. inputFrameCount' \in 0..MaxFrames
    BY <1>n, <1>a
  <2>3. app' \in {"render", "abandoned", "failed"} /\ failed' \in BOOLEAN
    BY <1>a, <1>b
  <2> QED BY <2>1, <2>2, <2>3 DEF IInv, TypeOK
<1>2. CommandInv'
  BY EncoderAssumption, <1>0, <1>a, <1>t DEF IInv, TypeOK, CommandInv, Aborting, Orders, AbortQueued
<1>3. FailInv'
  BY EncoderAssumption, <1>0, <1>a, <1>t, <1>u DEF IInv, TypeOK, FailInv, Aborting, Stopping
<1>4. CreditInv'
  <2>1. Len(queueAck') = Len(queueAck) - 1 /\ app' \in {"render", "abandoned", "failed"}
    BY <1>t, <1>a
  <2> QED BY <1>0, <1>n, <1>a, <1>c, <2>1 DEF IInv, CreditInv
<1>5. FrameInv'
  BY <1>0, <1>n, <1>a, <1>b, <1>c DEF IInv, FrameInv
<1>6. MemInv'
  BY EncoderAssumption, <1>0, <1>a DEF IInv, TypeOK, MemInv, Source, Lent, Active, Working
<1>7. CodecInv'
  BY EncoderAssumption, <1>0, <1>a DEF IInv, TypeOK, CodecInv, Active, Working
<1>8. FlushInv'
  BY <1>0, <1>n, <1>a, <1>b, <1>c DEF IInv, FlushInv, Active, Working, Stopping, CodecInv
<1> QED BY <1>1, <1>2, <1>3, <1>4, <1>5, <1>6, <1>7, <1>8 DEF IInv

\* The graph writes into a buffer no order is for.
LEMMA StepRender == IInv /\ Render => IInv'
<1> SUFFICES ASSUME IInv, Render PROVE IInv'
  OBVIOUS
<1> USE DEF Render, appVars, queues, frameVars, codecVars, Encode, Abort, Good, Bad
<1>0. /\ Orders \in Nat /\ Orders <= Len(queueCmd) /\ Busy \in {0, 1} /\ InHand \in {0, 1}
      /\ Busy <= InHand /\ Holding \in {0, 1}
      /\ Taken \in Nat /\ Taken = Orders + InHand + Holding
      /\ AbortQueued => Orders = Len(queueCmd) - 1
      /\ ~AbortQueued => Orders = Len(queueCmd)
  BY Counts
<1>n. /\ encodeFrameCount \in Nat /\ inputFrameCount \in Nat /\ inputFrameCount <= MaxFrames
      /\ encodeFrameCount <= MaxFrames
      /\ Len(queueAck) \in Nat /\ Len(queueCmd) \in Nat /\ MaxFrames \in Nat /\ PoolSize \in Nat \ {0}
  BY EncoderAssumption DEF IInv, TypeOK
<1>b. failed \in BOOLEAN /\ failed' \in BOOLEAN
  BY DEF IInv, TypeOK
<1>a. AbortQueued' = AbortQueued /\ Orders' = Orders /\ Busy' = Busy /\ InHand' = InHand
      /\ Holding' = Holding
  BY EncoderAssumption DEF IInv, TypeOK, CommandInv, FailInv, AbortQueued, Orders, Busy, InHand, Holding, Aborting, Working, Stopping
<1>c. Taken' = Taken
  BY <1>0, <1>n, <1>a DEF Taken
<1>1. TypeOK'
  BY EncoderAssumption, <1>0, <1>a DEF IInv, TypeOK, Pool, Picture
<1>2. CommandInv'
  BY EncoderAssumption, <1>0, <1>a DEF IInv, TypeOK, CommandInv, Aborting, Orders, AbortQueued
<1>3. FailInv'
  BY EncoderAssumption, <1>0, <1>a DEF IInv, TypeOK, FailInv, Aborting, Stopping
<1>4. CreditInv'
  BY <1>0, <1>n, <1>a, <1>b, <1>c DEF IInv, CreditInv
<1>5. FrameInv'
  BY <1>0, <1>n, <1>a, <1>b, <1>c DEF IInv, FrameInv, Aborting
<1>6. MemInv'
  <2>1. Lent \in Pool /\ mem' = [mem EXCEPT ![Lent] = inputFrameCount]
    BY ModPool DEF IInv, TypeOK, Lent
  <2>0. Holding = 1 /\ Taken = InHand + Orders + 1
    BY <1>0 DEF Holding
  <2>2. inputFrameCount - 1 = encodeFrameCount + (InHand + Orders)
    BY <1>0, <1>n, <2>0 DEF IInv, FrameInv
  <2>3. InHand + Orders + 1 <= PoolSize - 1 \/ pc \in {"start", "ended"}
    BY <1>0, <1>n, <2>0 DEF IInv, CreditInv
  <2>4. pc = "scale" => mem'[Source] = encodeFrameCount + 1
    <3>1. pc = "scale" => InHand = 1
      BY DEF InHand, Working
    <3>2. SUFFICES ASSUME pc = "scale" PROVE mem'[Source] = encodeFrameCount + 1
      OBVIOUS
    <3>3. /\ inputFrameCount - 1 \in Nat /\ encodeFrameCount < inputFrameCount - 1
          /\ inputFrameCount - 1 < encodeFrameCount + PoolSize /\ encodeFrameCount \in Nat
      BY <1>0, <1>n, <2>2, <2>3, <3>1, <3>2
    <3>4. encodeFrameCount % PoolSize # (inputFrameCount - 1) % PoolSize
      BY <1>n, <3>3, ModApart
    <3> QED BY <2>1, <3>2, <3>4, ModPool DEF IInv, TypeOK, MemInv, Source, Lent
  <2>5. ASSUME pc \in Active, NEW i \in 0..(Orders - 1)
        PROVE  mem'[(encodeFrameCount + Busy + i) % PoolSize] = encodeFrameCount + Busy + i + 1
    <3>1. Busy = InHand
      BY <2>5 DEF Busy, InHand, Active, Working, Stopping
    <3>2. pc # "start"
      BY DEF IInv, CommandInv
    <3>5. pc # "ended"
      BY <2>5 DEF Active, Working
    <3>6. /\ inputFrameCount - 1 \in Nat /\ encodeFrameCount + Busy + i \in Nat
          /\ encodeFrameCount + Busy + i < inputFrameCount - 1
          /\ inputFrameCount - 1 < encodeFrameCount + Busy + i + PoolSize
      BY <1>0, <1>n, <2>2, <2>3, <3>1, <3>2, <3>5
    <3>3. (encodeFrameCount + Busy + i) % PoolSize # (inputFrameCount - 1) % PoolSize
      BY <1>n, <3>6, ModApart
    <3>4. (encodeFrameCount + Busy + i) % PoolSize \in Pool
      BY <1>0, ModPool DEF IInv, TypeOK
    <3> QED BY <2>1, <2>5, <3>3, <3>4 DEF IInv, TypeOK, MemInv, Lent
  <2>6. mem'[Lent] = inputFrameCount
    BY <2>1 DEF IInv, TypeOK
  <2> QED BY <1>a, <2>4, <2>5, <2>6 DEF MemInv, Source, Lent, Active, Working
<1>7. CodecInv'
  BY EncoderAssumption, <1>0, <1>a DEF IInv, TypeOK, CodecInv, Active, Working
<1>8. FlushInv'
  BY <1>0, <1>n, <1>a, <1>b, <1>c DEF IInv, FlushInv, Active, Working, Stopping, CodecInv
<1> QED BY <1>1, <1>2, <1>3, <1>4, <1>5, <1>6, <1>7, <1>8 DEF IInv

\* The graph hands its buffer to the encoder as an order.
LEMMA StepProcessFrame == IInv /\ ProcessFrame => IInv'
<1> SUFFICES ASSUME IInv, ProcessFrame PROVE IInv'
  OBVIOUS
<1> USE DEF ProcessFrame, CallFails, appVars, queues, frameVars, codecVars, Encode, Abort, Good, Bad
<1>0. /\ Orders \in Nat /\ Orders <= Len(queueCmd) /\ Busy \in {0, 1} /\ InHand \in {0, 1}
      /\ Busy <= InHand /\ Holding \in {0, 1}
      /\ Taken \in Nat /\ Taken = Orders + InHand + Holding
      /\ AbortQueued => Orders = Len(queueCmd) - 1
      /\ ~AbortQueued => Orders = Len(queueCmd)
  BY Counts
<1>n. /\ encodeFrameCount \in Nat /\ inputFrameCount \in Nat /\ inputFrameCount <= MaxFrames
      /\ encodeFrameCount <= MaxFrames
      /\ Len(queueAck) \in Nat /\ Len(queueCmd) \in Nat /\ MaxFrames \in Nat /\ PoolSize \in Nat \ {0}
  BY EncoderAssumption DEF IInv, TypeOK
<1>b. failed \in BOOLEAN /\ failed' \in BOOLEAN
  BY DEF IInv, TypeOK
<1>a. /\ Busy' = Busy /\ InHand' = InHand /\ Holding = 1 /\ Holding' = 0
      /\ ~AbortQueued /\ ~AbortQueued'
      /\ app' \in {"idle", "abandoned", "failed"}
      /\ app' # "abandoned" => Orders' = Orders + 1 /\ queueCmd' = Append(queueCmd, Encode)
      /\ app' = "abandoned" => Orders' = Orders /\ failed
      /\ app' = "failed" => failed'
  <2>1. ~AbortQueued
    BY DEF IInv, TypeOK, CommandInv, AbortQueued, Aborting
  <2>2. app' # "abandoned" => queueCmd' = Append(queueCmd, Encode) /\ ~AbortQueued'
                         /\ Len(queueCmd') = Len(queueCmd) + 1
    BY DEF IInv, TypeOK, AbortQueued
  <2>3. app' = "abandoned" => queueCmd' = queueCmd /\ threadTerminated
    OBVIOUS
  <2>4. threadTerminated => failed
    BY DEF IInv, FailInv, Stopping, Aborting
  <2> QED BY <2>1, <2>2, <2>3, <2>4 DEF IInv, TypeOK, AbortQueued, Orders, Busy, InHand, Holding,
         Aborting, Working, Stopping
<1>c. /\ app' # "abandoned" => Taken' = Taken
      /\ app' = "abandoned" => Taken' = Taken - 1 /\ Taken > 0
  BY <1>0, <1>n, <1>a DEF Taken
<1>1. TypeOK'
  <2>1. queueCmd' \in Seq({Encode, Abort})
    <3>1. queueCmd \in Seq({Encode, Abort}) /\ Encode \in {Encode, Abort}
      BY DEF IInv, TypeOK
    <3>2. queueCmd' = queueCmd \/ queueCmd' = Append(queueCmd, Encode)
      OBVIOUS
    <3> QED BY <3>1, <3>2
  <2> QED BY <2>1 DEF IInv, TypeOK
<1>2. CommandInv'
  <2>1. \A i \in DOMAIN queueCmd : queueCmd[i] # Abort
    BY DEF IInv, CommandInv, Aborting
  <2>2. \A i \in DOMAIN queueCmd' : queueCmd'[i] # Abort
    <3>1. CASE queueCmd' = queueCmd
      BY <2>1, <3>1
    <3>2. CASE queueCmd' = Append(queueCmd, Encode)
      <4>1. queueCmd \in Seq({Encode, Abort})
        BY DEF IInv, TypeOK
      <4>2. \A i \in DOMAIN queueCmd' : i \in DOMAIN queueCmd \/ queueCmd'[i] = Encode
        BY <3>2, <4>1
      <4>3. \A i \in DOMAIN queueCmd : queueCmd'[i] = queueCmd[i]
        BY <3>2, <4>1
      <4> QED BY <2>1, <4>2, <4>3
    <3> QED BY <3>1, <3>2
  <2> QED BY <2>2 DEF IInv, CommandInv, Aborting
<1>3. FailInv'
  BY EncoderAssumption, <1>0, <1>a DEF IInv, TypeOK, FailInv, Aborting, Stopping
<1>4. CreditInv'
  BY <1>0, <1>n, <1>a, <1>b, <1>c DEF IInv, CreditInv
<1>5. FrameInv'
  BY <1>0, <1>n, <1>a, <1>b, <1>c DEF IInv, FrameInv, Aborting
<1>6. MemInv'
  <2>1. pc \in Active => Busy = InHand /\ pc' \in Active
    BY DEF Busy, InHand, Active, Working, Stopping
  <2>2. inputFrameCount = encodeFrameCount + (InHand + Orders + 1)
    BY <1>0, <1>n, <1>a DEF IInv, FrameInv
  <2>3. ASSUME pc \in Active, NEW i \in 0..(Orders' - 1)
        PROVE  mem[(encodeFrameCount + Busy + i) % PoolSize] = encodeFrameCount + Busy + i + 1
    <3>1. CASE i \in 0..(Orders - 1)
      BY <2>3, <3>1 DEF IInv, MemInv
    <3>2. CASE i \notin 0..(Orders - 1)
      <4>1. i = Orders
        BY <1>0, <1>a, <2>3, <3>2
      <4>2. encodeFrameCount + Busy + i = inputFrameCount - 1
        BY <1>0, <1>n, <2>1, <2>2, <2>3, <4>1
      <4>3. mem[(inputFrameCount - 1) % PoolSize] = inputFrameCount
        BY DEF IInv, MemInv, Lent
      <4> QED BY <1>n, <4>2, <4>3
    <3> QED BY <3>1, <3>2
  <2> QED BY <1>a, <2>3 DEF IInv, MemInv, Source, Active, Working
<1>7. CodecInv'
  BY EncoderAssumption, <1>0, <1>a DEF IInv, TypeOK, CodecInv, Active, Working
<1>8. FlushInv'
  BY <1>0, <1>n, <1>a, <1>b, <1>c DEF IInv, FlushInv, Active, Working, Stopping, CodecInv
<1> QED BY <1>1, <1>2, <1>3, <1>4, <1>5, <1>6, <1>7, <1>8 DEF IInv

\* The order to stop goes behind the last order to encode.
LEMMA StepPushAbort == IInv /\ PushAbort => IInv'
<1> SUFFICES ASSUME IInv, PushAbort PROVE IInv'
  OBVIOUS
<1> USE DEF PushAbort, appVars, queues, frameVars, codecVars, Encode, Abort, Good, Bad
<1>0. /\ Orders \in Nat /\ Orders <= Len(queueCmd) /\ Busy \in {0, 1} /\ InHand \in {0, 1}
      /\ Busy <= InHand /\ Holding \in {0, 1}
      /\ Taken \in Nat /\ Taken = Orders + InHand + Holding
      /\ AbortQueued => Orders = Len(queueCmd) - 1
      /\ ~AbortQueued => Orders = Len(queueCmd)
  BY Counts
<1>n. /\ encodeFrameCount \in Nat /\ inputFrameCount \in Nat /\ inputFrameCount <= MaxFrames
      /\ encodeFrameCount <= MaxFrames
      /\ Len(queueAck) \in Nat /\ Len(queueCmd) \in Nat /\ MaxFrames \in Nat /\ PoolSize \in Nat \ {0}
  BY EncoderAssumption DEF IInv, TypeOK
<1>b. failed \in BOOLEAN /\ failed' \in BOOLEAN
  BY DEF IInv, TypeOK
<1>a. /\ AbortQueued' /\ Orders' = Orders /\ Busy' = Busy /\ InHand' <= InHand /\ InHand' \in {0, 1}
      /\ Holding' = Holding /\ Aborting' /\ ~Aborting
      /\ pc \notin Stopping => InHand' = InHand
      /\ queueCmd' \in Seq({Encode, Abort}) /\ Len(queueCmd') = Len(queueCmd) + 1
  <2>1. ~AbortQueued /\ ~Aborting /\ Aborting'
    BY DEF IInv, TypeOK, CommandInv, AbortQueued, Aborting
  <2>2. /\ queueCmd' \in Seq({Encode, Abort}) /\ Len(queueCmd') = Len(queueCmd) + 1
        /\ AbortQueued'
    BY DEF IInv, TypeOK, AbortQueued
  <2>3. Orders' = Orders
    BY <2>1, <2>2 DEF IInv, TypeOK, Orders
  <2> QED BY <2>1, <2>2, <2>3 DEF Busy, InHand, Holding, Working, Stopping
<1>c. Taken' <= Taken /\ Taken' \in Nat /\ (pc \notin Stopping => Taken' = Taken)
  <2>1. CASE InHand' = InHand
    BY <1>0, <1>a, <2>1 DEF Taken
  <2>2. CASE InHand = 1 /\ InHand' = 0
    BY <1>0, <1>a, <2>2 DEF Taken
  <2> QED BY <1>0, <1>a, <2>1, <2>2
<1>1. TypeOK'
  BY EncoderAssumption, <1>0, <1>a DEF IInv, TypeOK, Pool, Picture
<1>2. CommandInv'
  BY EncoderAssumption, <1>0, <1>a DEF IInv, TypeOK, CommandInv, Aborting, Orders, AbortQueued
<1>3. FailInv'
  BY EncoderAssumption, <1>0, <1>a DEF IInv, TypeOK, FailInv, Aborting, Stopping
<1>4. CreditInv'
  BY <1>0, <1>n, <1>a, <1>b, <1>c DEF IInv, CreditInv
<1>5. FrameInv'
  <2>1. ~failed => pc \notin Stopping
    BY <1>a, <1>b DEF IInv, FailInv
  <2>2. encodeFrameCount + Taken' <= inputFrameCount
    <3>1. \A k \in Nat : k <= Taken => encodeFrameCount + k <= inputFrameCount
      <4>1. encodeFrameCount + Taken <= inputFrameCount
        BY DEF IInv, FrameInv
      <4> QED BY <1>0, <1>n, <4>1
    <3>2. Taken' \in Nat /\ Taken' <= Taken
      BY <1>0, <1>c
    <3> QED BY <3>1, <3>2, Zenon
  <2>3. /\ encodeFrameCount' = encodeFrameCount /\ inputFrameCount' = inputFrameCount
        /\ app' = "~drain" /\ failed' = failed
    OBVIOUS
  <2> QED BY <1>b, <1>c, <2>1, <2>2, <2>3 DEF IInv, FrameInv
<1>6. MemInv'
  BY EncoderAssumption, <1>0, <1>a DEF IInv, TypeOK, MemInv, Source, Lent, Active, Working
<1>7. CodecInv'
  BY EncoderAssumption, <1>0, <1>a DEF IInv, TypeOK, CodecInv, Active, Working
<1>8. FlushInv'
  BY <1>0, <1>n, <1>a, <1>b, <1>c DEF IInv, FlushInv, Active, Working, Stopping, CodecInv
<1> QED BY <1>1, <1>2, <1>3, <1>4, <1>5, <1>6, <1>7, <1>8 DEF IInv

\* The destructor consumes acknowledgements.
LEMMA StepDrainAcks == IInv /\ DrainAcks => IInv'
<1> SUFFICES ASSUME IInv, DrainAcks PROVE IInv'
  OBVIOUS
<1> USE DEF DrainAcks, appVars, queues, frameVars, codecVars, Encode, Abort, Good, Bad
<1>0. /\ Orders \in Nat /\ Orders <= Len(queueCmd) /\ Busy \in {0, 1} /\ InHand \in {0, 1}
      /\ Busy <= InHand /\ Holding \in {0, 1}
      /\ Taken \in Nat /\ Taken = Orders + InHand + Holding
      /\ AbortQueued => Orders = Len(queueCmd) - 1
      /\ ~AbortQueued => Orders = Len(queueCmd)
  BY Counts
<1>n. /\ encodeFrameCount \in Nat /\ inputFrameCount \in Nat /\ inputFrameCount <= MaxFrames
      /\ encodeFrameCount <= MaxFrames
      /\ Len(queueAck) \in Nat /\ Len(queueCmd) \in Nat /\ MaxFrames \in Nat /\ PoolSize \in Nat \ {0}
  BY EncoderAssumption DEF IInv, TypeOK
<1>b. failed \in BOOLEAN /\ failed' \in BOOLEAN
  BY DEF IInv, TypeOK
<1>t. queueAck # <<>> => /\ Tail(queueAck) \in Seq({Good, Bad})
                         /\ Len(Tail(queueAck)) = Len(queueAck) - 1
  BY DEF IInv, TypeOK
<1>u. queueAck # <<>> => /\ \A i \in DOMAIN Tail(queueAck) : Tail(queueAck)[i] = queueAck[i + 1]
                         /\ \A i \in DOMAIN Tail(queueAck) : i + 1 \in DOMAIN queueAck
                         /\ Head(queueAck) = queueAck[1] /\ 1 \in DOMAIN queueAck
  BY DEF IInv, TypeOK
<1>a. AbortQueued' = AbortQueued /\ Orders' = Orders /\ Busy' = Busy /\ InHand' = InHand
      /\ Holding' = Holding
  BY EncoderAssumption DEF IInv, TypeOK, CommandInv, FailInv, AbortQueued, Orders, Busy, InHand, Holding, Aborting, Working, Stopping
<1>c. Taken' = Taken
  BY <1>0, <1>n, <1>a DEF Taken
<1>1. TypeOK'
  <2>0. /\ queueAck \in Seq({Good, Bad}) /\ Len(queueAck) <= PoolSize
        /\ queueAck' = queueAck \/ (queueAck # <<>> /\ queueAck' = Tail(queueAck))
    BY DEF IInv, TypeOK
  <2>1. queueAck' \in Seq({Good, Bad}) /\ Len(queueAck') <= PoolSize
    BY <1>n, <1>t, <2>0
  <2> QED BY <1>n, <2>1 DEF IInv, TypeOK
<1>2. CommandInv'
  BY EncoderAssumption, <1>0, <1>a, <1>t DEF IInv, TypeOK, CommandInv, FailInv, Aborting, Orders, AbortQueued
<1>3. FailInv'
  BY EncoderAssumption, <1>0, <1>a, <1>t, <1>u DEF IInv, TypeOK, FailInv, Aborting, Stopping
<1>4. CreditInv'
  <2>1. Len(queueAck') \in {Len(queueAck), Len(queueAck) - 1}
    BY <1>t
  <2> QED BY <1>0, <1>n, <1>a, <1>c, <2>1 DEF IInv, CreditInv
<1>5. FrameInv'
  BY <1>0, <1>n, <1>a, <1>b, <1>c DEF IInv, FrameInv, Aborting
<1>6. MemInv'
  BY EncoderAssumption, <1>0, <1>a DEF IInv, TypeOK, MemInv, Source, Lent, Active, Working
<1>7. CodecInv'
  BY EncoderAssumption, <1>0, <1>a DEF IInv, TypeOK, CodecInv, Active, Working
<1>8. FlushInv'
  BY <1>0, <1>n, <1>a, <1>b, <1>c DEF IInv, FlushInv, Active, Working, Stopping, CodecInv
<1> QED BY <1>1, <1>2, <1>3, <1>4, <1>5, <1>6, <1>7, <1>8 DEF IInv

\* The encoder thread has ended.
LEMMA StepJoinThread == IInv /\ JoinThread => IInv'
<1> SUFFICES ASSUME IInv, JoinThread PROVE IInv'
  OBVIOUS
<1> USE DEF JoinThread, appVars, queues, frameVars, codecVars, Encode, Abort, Good, Bad
<1>0. /\ Orders \in Nat /\ Orders <= Len(queueCmd) /\ Busy \in {0, 1} /\ InHand \in {0, 1}
      /\ Busy <= InHand /\ Holding \in {0, 1}
      /\ Taken \in Nat /\ Taken = Orders + InHand + Holding
      /\ AbortQueued => Orders = Len(queueCmd) - 1
      /\ ~AbortQueued => Orders = Len(queueCmd)
  BY Counts
<1>n. /\ encodeFrameCount \in Nat /\ inputFrameCount \in Nat /\ inputFrameCount <= MaxFrames
      /\ encodeFrameCount <= MaxFrames
      /\ Len(queueAck) \in Nat /\ Len(queueCmd) \in Nat /\ MaxFrames \in Nat /\ PoolSize \in Nat \ {0}
  BY EncoderAssumption DEF IInv, TypeOK
<1>b. failed \in BOOLEAN /\ failed' \in BOOLEAN
  BY DEF IInv, TypeOK
<1>a. AbortQueued' = AbortQueued /\ Orders' = Orders /\ Busy' = Busy /\ InHand' = InHand
      /\ Holding' = Holding
  BY EncoderAssumption DEF IInv, TypeOK, CommandInv, FailInv, AbortQueued, Orders, Busy, InHand, Holding, Aborting, Working, Stopping
<1>c. Taken' = Taken
  BY <1>0, <1>n, <1>a DEF Taken
<1>1. TypeOK'
  BY EncoderAssumption, <1>0, <1>a DEF IInv, TypeOK, Pool, Picture
<1>2. CommandInv'
  BY EncoderAssumption, <1>0, <1>a DEF IInv, TypeOK, CommandInv, Aborting, Orders, AbortQueued
<1>3. FailInv'
  BY EncoderAssumption, <1>0, <1>a DEF IInv, TypeOK, FailInv, Aborting, Stopping
<1>4. CreditInv'
  BY <1>0, <1>n, <1>a, <1>b, <1>c DEF IInv, CreditInv
<1>5. FrameInv'
  BY <1>0, <1>n, <1>a, <1>b, <1>c DEF IInv, FrameInv, Aborting
<1>6. MemInv'
  BY EncoderAssumption, <1>0, <1>a DEF IInv, TypeOK, MemInv, Source, Lent, Active, Working
<1>7. CodecInv'
  BY EncoderAssumption, <1>0, <1>a DEF IInv, TypeOK, CodecInv, Active, Working
<1>8. FlushInv'
  BY <1>0, <1>n, <1>a, <1>b, <1>c DEF IInv, FlushInv, Active, Working, Stopping, CodecInv
<1> QED BY <1>1, <1>2, <1>3, <1>4, <1>5, <1>6, <1>7, <1>8 DEF IInv

\* The encoder announces all but one of the buffers.
LEMMA StepStart == IInv /\ Start => IInv'
<1> SUFFICES ASSUME IInv, Start PROVE IInv'
  OBVIOUS
<1> USE DEF Start, InitialAcks, appVars, queues, frameVars, codecVars, Encode, Abort, Good, Bad
<1>0. /\ Orders \in Nat /\ Orders <= Len(queueCmd) /\ Busy \in {0, 1} /\ InHand \in {0, 1}
      /\ Busy <= InHand /\ Holding \in {0, 1}
      /\ Taken \in Nat /\ Taken = Orders + InHand + Holding
      /\ AbortQueued => Orders = Len(queueCmd) - 1
      /\ ~AbortQueued => Orders = Len(queueCmd)
  BY Counts
<1>n. /\ encodeFrameCount \in Nat /\ inputFrameCount \in Nat /\ inputFrameCount <= MaxFrames
      /\ encodeFrameCount <= MaxFrames
      /\ Len(queueAck) \in Nat /\ Len(queueCmd) \in Nat /\ MaxFrames \in Nat /\ PoolSize \in Nat \ {0}
  BY EncoderAssumption DEF IInv, TypeOK
<1>b. failed \in BOOLEAN /\ failed' \in BOOLEAN
  BY DEF IInv, TypeOK
<1>a. AbortQueued' = AbortQueued /\ Orders' = Orders /\ Busy' = Busy /\ InHand' = InHand
      /\ Holding' = Holding
      /\ queueAck' = InitialAcks
  <2>1. queueAck = <<>> /\ queueAck' = InitialAcks
    BY EncoderAssumption DEF IInv, CommandInv
  <2> QED BY <2>1 DEF AbortQueued, Orders, Busy, InHand, Holding, Aborting, Working, Stopping
<1>c. Taken' = Taken
  BY <1>0, <1>n, <1>a DEF Taken
<1>1. TypeOK'
  <2>1. InitialAcks \in Seq({Good, Bad}) /\ Len(InitialAcks) = PoolSize - 1
    BY EncoderAssumption
  <2> QED BY <1>a, <2>1, EncoderAssumption DEF IInv, TypeOK
<1>2. CommandInv'
  BY EncoderAssumption, <1>0, <1>a DEF IInv, TypeOK, CommandInv, Aborting, Orders, AbortQueued
<1>3. FailInv'
  <2>1. \A i \in DOMAIN queueAck' : queueAck'[i] # Bad
    BY <1>a, EncoderAssumption
  <2> QED BY <2>1 DEF IInv, FailInv, Stopping, Aborting
<1>4. CreditInv'
  <2>1. Len(queueAck') = PoolSize - 1
    BY <1>a, EncoderAssumption
  <2>2. Taken = 0
    BY <1>0 DEF IInv, CommandInv, InHand, Holding, Working, Stopping
  <2> QED BY <1>n, <1>a, <1>c, <2>1, <2>2 DEF CreditInv
<1>5. FrameInv'
  BY <1>0, <1>n, <1>a, <1>b, <1>c DEF IInv, FrameInv, Aborting
<1>6. MemInv'
  BY EncoderAssumption, <1>0, <1>a DEF IInv, TypeOK, MemInv, Source, Lent, Active, Working
<1>7. CodecInv'
  BY EncoderAssumption, <1>0, <1>a DEF IInv, TypeOK, CodecInv, Active, Working
<1>8. FlushInv'
  BY <1>0, <1>n, <1>a, <1>b, <1>c DEF IInv, FlushInv, Active, Working, Stopping, CodecInv
<1> QED BY <1>1, <1>2, <1>3, <1>4, <1>5, <1>6, <1>7, <1>8 DEF IInv

\* An order becomes the work of the encoder.
LEMMA StepPopCommand == IInv /\ PopCommand => IInv'
<1> SUFFICES ASSUME IInv, PopCommand PROVE IInv'
  OBVIOUS
<1> USE DEF PopCommand, appVars, queues, frameVars, codecVars, Encode, Abort, Good, Bad
<1>0. /\ Orders \in Nat /\ Orders <= Len(queueCmd) /\ Busy \in {0, 1} /\ InHand \in {0, 1}
      /\ Busy <= InHand /\ Holding \in {0, 1}
      /\ Taken \in Nat /\ Taken = Orders + InHand + Holding
      /\ AbortQueued => Orders = Len(queueCmd) - 1
      /\ ~AbortQueued => Orders = Len(queueCmd)
  BY Counts
<1>n. /\ encodeFrameCount \in Nat /\ inputFrameCount \in Nat /\ inputFrameCount <= MaxFrames
      /\ encodeFrameCount <= MaxFrames
      /\ Len(queueAck) \in Nat /\ Len(queueCmd) \in Nat /\ MaxFrames \in Nat /\ PoolSize \in Nat \ {0}
  BY EncoderAssumption DEF IInv, TypeOK
<1>b. failed \in BOOLEAN /\ failed' \in BOOLEAN
  BY DEF IInv, TypeOK
<1>t. Tail(queueCmd) \in Seq({Encode, Abort}) /\ Len(Tail(queueCmd)) = Len(queueCmd) - 1
  BY DEF IInv, TypeOK
<1>u. /\ \A i \in DOMAIN Tail(queueCmd) : Tail(queueCmd)[i] = queueCmd[i + 1]
      /\ \A i \in DOMAIN Tail(queueCmd) : i + 1 \in DOMAIN queueCmd
      /\ Head(queueCmd) = queueCmd[1] /\ 1 \in DOMAIN queueCmd
  BY DEF IInv, TypeOK
<1>a. /\ Holding' = Holding /\ Busy = 0 /\ InHand = 0 /\ pc' \in {"scale", "flush"}
      /\ pc' = "scale" => /\ Busy' = 1 /\ InHand' = 1 /\ Orders' = Orders - 1 /\ Orders > 0
      /\ pc' = "flush" => /\ queueCmd' = <<>> /\ Busy' = 0 /\ InHand' = 0
                          /\ Orders' = 0 /\ Orders = 0 /\ Aborting
  <2>1. CASE Head(queueCmd) = Abort
    <3>1. Len(queueCmd) = 1 /\ Aborting
      BY <1>t, <2>1 DEF IInv, CommandInv
    <3>2. AbortQueued /\ queueCmd' = <<>>
      BY <1>t, <2>1, <3>1 DEF IInv, TypeOK, AbortQueued
    <3> QED BY <1>0, <2>1, <3>1, <3>2 DEF AbortQueued, Orders, Busy, InHand, Holding, Working, Stopping
  <2>2. CASE Head(queueCmd) # Abort
    <3>1. AbortQueued => Len(queueCmd) > 1
      BY <1>t, <2>2 DEF IInv, TypeOK, AbortQueued
    <3>2. AbortQueued' = AbortQueued /\ Len(queueCmd') = Len(queueCmd) - 1
      <4>1. queueCmd' = Tail(queueCmd) /\ queueCmd # <<>> /\ queueCmd \in Seq({Encode, Abort})
        BY DEF IInv, TypeOK
      <4>2. CASE Len(queueCmd) > 1
        <5>1. queueCmd'[Len(queueCmd')] = queueCmd[Len(queueCmd)] /\ queueCmd' # <<>>
          <6>1. Len(queueCmd') \in DOMAIN Tail(queueCmd)
            BY <1>n, <1>t, <4>1, <4>2
          <6>2. queueCmd'[Len(queueCmd')] = queueCmd[Len(queueCmd') + 1]
            BY <1>u, <4>1, <6>1
          <6>3. Len(queueCmd') + 1 = Len(queueCmd) /\ Len(queueCmd') > 0
            BY <1>n, <1>t, <4>1, <4>2
          <6> QED BY <4>1, <6>2, <6>3
        <5> QED BY <1>t, <4>1, <5>1 DEF AbortQueued
      <4>3. CASE Len(queueCmd) = 1
        <5>1. queueCmd' = <<>>
          BY <4>1, <4>3
        <5> QED BY <1>t, <3>1, <4>1, <4>3, <5>1 DEF AbortQueued
      <4>4. Len(queueCmd) >= 1 /\ Len(queueCmd') = Len(queueCmd) - 1
        BY <1>n, <1>t, <4>1
      <4> QED BY <1>n, <4>2, <4>3, <4>4
    <3>3. Orders' = Orders - 1 /\ Orders > 0
      BY <1>t, <3>1, <3>2 DEF IInv, TypeOK, Orders
    <3> QED BY <2>2, <3>3 DEF Busy, InHand, Holding, Working, Stopping
  <2> QED BY <2>1, <2>2
<1>c. Taken' = Taken
  BY <1>0, <1>n, <1>a DEF Taken
<1>1. TypeOK'
  BY EncoderAssumption, <1>0, <1>a, <1>t DEF IInv, TypeOK, Pool, Picture
<1>2. CommandInv'
  <2>1. queueCmd' = Tail(queueCmd) /\ app' = app
    OBVIOUS
  <2>2. ASSUME NEW i \in DOMAIN queueCmd', queueCmd'[i] = Abort
        PROVE  i = Len(queueCmd') /\ Aborting'
    <3>1. i + 1 \in DOMAIN queueCmd /\ queueCmd[i + 1] = Abort
      BY <1>u, <2>1, <2>2
    <3>2. i + 1 = Len(queueCmd) /\ Aborting
      BY <3>1 DEF IInv, CommandInv
    <3>3. i \in Int
      BY <1>t, <2>1, <2>2
    <3> QED BY <1>n, <1>t, <2>1, <3>2, <3>3 DEF Aborting
  <2> QED BY <1>a, <2>2 DEF IInv, CommandInv, Aborting
<1>3. FailInv'
  BY EncoderAssumption, <1>0, <1>a DEF IInv, TypeOK, FailInv, Aborting, Stopping
<1>4. CreditInv'
  BY <1>0, <1>n, <1>a, <1>b, <1>c DEF IInv, CreditInv
<1>5. FrameInv'
  BY <1>0, <1>n, <1>a, <1>b, <1>c DEF IInv, FrameInv, Aborting
<1>6. MemInv'
  <2>1. CASE pc' = "flush"
    BY <2>1 DEF IInv, MemInv, Active, Working, Lent
  <2>2. CASE pc' = "scale"
    <3>1. mem[(encodeFrameCount + Busy + 0) % PoolSize] = encodeFrameCount + Busy + 0 + 1
      <4>1. 0 \in 0..(Orders - 1)
        BY <1>0, <1>a, <2>2
      <4> QED BY <4>1 DEF IInv, MemInv, Active
    <3>2. mem'[Source'] = encodeFrameCount' + 1
      BY <1>a, <3>1 DEF IInv, TypeOK, Source
    <3>3. ASSUME NEW i \in 0..(Orders' - 1)
          PROVE  mem[(encodeFrameCount + 1 + i) % PoolSize] = encodeFrameCount + 1 + i + 1
      <4>1. i + 1 \in 0..(Orders - 1)
        BY <1>0, <1>a, <2>2
      <4>2. mem[(encodeFrameCount + Busy + (i + 1)) % PoolSize] = encodeFrameCount + Busy + (i + 1) + 1
        BY <4>1 DEF IInv, MemInv, Active
      <4>3. encodeFrameCount + Busy + (i + 1) = encodeFrameCount + 1 + i
        BY <1>a DEF IInv, TypeOK
      <4> QED BY <4>2, <4>3
    <3> QED BY <1>a, <2>2, <3>2, <3>3 DEF IInv, MemInv, Lent
  <2> QED BY <1>a, <2>1, <2>2
<1>7. CodecInv'
  BY EncoderAssumption, <1>0, <1>a DEF IInv, TypeOK, CodecInv, Active, Working
<1>8. FlushInv'
  BY EncoderAssumption, <1>0, <1>a DEF IInv, TypeOK, FlushInv, CodecInv, Active, Working, Stopping
<1> QED BY <1>1, <1>2, <1>3, <1>4, <1>5, <1>6, <1>7, <1>8 DEF IInv

\* The encoder converts the picture of its buffer.
LEMMA StepScaleFrame == IInv /\ ScaleFrame => IInv'
<1> SUFFICES ASSUME IInv, ScaleFrame PROVE IInv'
  OBVIOUS
<1> USE DEF ScaleFrame, Fail, GoOn, appVars, queues, frameVars, codecVars, Encode, Abort, Good, Bad
<1>0. /\ Orders \in Nat /\ Orders <= Len(queueCmd) /\ Busy \in {0, 1} /\ InHand \in {0, 1}
      /\ Busy <= InHand /\ Holding \in {0, 1}
      /\ Taken \in Nat /\ Taken = Orders + InHand + Holding
      /\ AbortQueued => Orders = Len(queueCmd) - 1
      /\ ~AbortQueued => Orders = Len(queueCmd)
  BY Counts
<1>n. /\ encodeFrameCount \in Nat /\ inputFrameCount \in Nat /\ inputFrameCount <= MaxFrames
      /\ encodeFrameCount <= MaxFrames
      /\ Len(queueAck) \in Nat /\ Len(queueCmd) \in Nat /\ MaxFrames \in Nat /\ PoolSize \in Nat \ {0}
  BY EncoderAssumption DEF IInv, TypeOK
<1>b. failed \in BOOLEAN /\ failed' \in BOOLEAN
  BY DEF IInv, TypeOK
<1>a. /\ Busy = 1 /\ InHand = 1 /\ AbortQueued' = AbortQueued /\ Orders' = Orders
      /\ Holding' = Holding /\ InHand' \in {0, 1} /\ InHand' <= InHand
      /\ pc' # "terminate" => Busy' = 1 /\ InHand' = 1
      /\ pc' = "terminate" => failed' /\ (app \in {"idle", "render", "submit"} => InHand' = 1)
  BY EncoderAssumption DEF IInv, TypeOK, CommandInv, FailInv, AbortQueued, Orders, Busy, InHand, Holding, Aborting, Working, Stopping
<1>c. /\ Taken' <= Taken /\ Taken' \in Nat
      /\ ~failed' \/ app \in {"idle", "render", "submit"} => Taken' = Taken
  <2>1. CASE InHand' = InHand
    BY <1>0, <1>a, <2>1 DEF Taken
  <2>2. CASE InHand = 1 /\ InHand' = 0
    BY <1>0, <1>a, <2>2 DEF Taken
  <2> QED BY <1>0, <1>a, <2>1, <2>2
<1>1. TypeOK'
  <2>1. Source \in Pool
    BY ModPool DEF IInv, TypeOK, Source
  <2> QED BY <2>1 DEF IInv, TypeOK
<1>2. CommandInv'
  BY EncoderAssumption, <1>0, <1>a DEF IInv, TypeOK, CommandInv, Aborting, Orders, AbortQueued
<1>3. FailInv'
  BY EncoderAssumption, <1>0, <1>a DEF IInv, TypeOK, FailInv, Aborting, Stopping
<1>4. CreditInv'
  BY <1>0, <1>n, <1>a, <1>b, <1>c DEF IInv, CreditInv
<1>5. FrameInv'
  <2>1. /\ encodeFrameCount' = encodeFrameCount /\ inputFrameCount' = inputFrameCount
        /\ app' = app /\ (failed => failed')
    BY <1>b
  <2>2. encodeFrameCount + Taken' <= inputFrameCount
    <3>1. \A k \in Nat : k <= Taken => encodeFrameCount + k <= inputFrameCount
      <4>1. encodeFrameCount + Taken <= inputFrameCount
        BY DEF IInv, FrameInv
      <4> QED BY <1>0, <1>n, <4>1
    <3>2. Taken' \in Nat /\ Taken' <= Taken
      BY <1>0, <1>c
    <3> QED BY <3>1, <3>2, Zenon
  <2> QED BY <1>b, <1>c, <2>1, <2>2 DEF IInv, FrameInv
<1>6. MemInv'
  BY EncoderAssumption, <1>0, <1>a DEF IInv, TypeOK, MemInv, Source, Lent, Active, Working
<1>7. CodecInv'
  BY EncoderAssumption, <1>0, <1>a DEF IInv, TypeOK, MemInv, CodecInv, Active, Working
<1>8. FlushInv'
  BY <1>0, <1>n, <1>a, <1>b, <1>c DEF IInv, FlushInv, Active, Working, Stopping, CodecInv
<1> QED BY <1>1, <1>2, <1>3, <1>4, <1>5, <1>6, <1>7, <1>8 DEF IInv

\* The codec takes the picture and may return the oldest it holds.
LEMMA StepEncodeFrame == IInv /\ EncodeFrame => IInv'
<1> SUFFICES ASSUME IInv, EncodeFrame PROVE IInv'
  OBVIOUS
<1> USE DEF EncodeFrame, Fail, GoOn, appVars, queues, frameVars, codecVars, Encode, Abort, Good, Bad
<1>0. /\ Orders \in Nat /\ Orders <= Len(queueCmd) /\ Busy \in {0, 1} /\ InHand \in {0, 1}
      /\ Busy <= InHand /\ Holding \in {0, 1}
      /\ Taken \in Nat /\ Taken = Orders + InHand + Holding
      /\ AbortQueued => Orders = Len(queueCmd) - 1
      /\ ~AbortQueued => Orders = Len(queueCmd)
  BY Counts
<1>n. /\ encodeFrameCount \in Nat /\ inputFrameCount \in Nat /\ inputFrameCount <= MaxFrames
      /\ encodeFrameCount <= MaxFrames
      /\ Len(queueAck) \in Nat /\ Len(queueCmd) \in Nat /\ MaxFrames \in Nat /\ PoolSize \in Nat \ {0}
  BY EncoderAssumption DEF IInv, TypeOK
<1>b. failed \in BOOLEAN /\ failed' \in BOOLEAN
  BY DEF IInv, TypeOK
<1> DEFINE all == Append(held, picture)
<1>s. picture \in Picture /\ held \in Seq(Picture) /\ written \in Seq(Picture)
  BY DEF IInv, TypeOK
<1>t. /\ all \in Seq(Picture) /\ Len(all) = Len(held) + 1 /\ Len(held) \in Nat
      /\ Tail(all) \in Seq(Picture) /\ Len(Tail(all)) = Len(held) /\ Head(all) \in Picture
      /\ Append(written, Head(all)) \in Seq(Picture)
      /\ Len(Append(written, Head(all))) = Len(written) + 1 /\ Len(written) \in Nat
  <2>1. all \in Seq(Picture) /\ Len(all) = Len(held) + 1 /\ Len(held) \in Nat
    BY <1>s
  <2>2. /\ Tail(all) \in Seq(Picture) /\ Len(Tail(all)) = Len(held) /\ Head(all) \in Picture
    <3> HIDE DEF all
    <3> QED BY <2>1
  <2> HIDE DEF all
  <2> QED BY <1>s, <2>1, <2>2
<1>u. \/ /\ Len(all) > Bframes /\ held' = Tail(all) /\ written' = Append(written, Head(all))
         /\ pc' = "ack" /\ failed' = failed
      \/ /\ Len(all) <= Bframes /\ held' = all /\ written' = written
         /\ pc' = "ack" /\ failed' = failed
      \/ /\ held' = held /\ written' = written /\ pc' = "terminate" /\ failed' /\ MayFail
  BY <1>t, EncoderAssumption DEF Fail, GoOn
<1>v. \A i \in 1..(Len(held) + 1) : all[i] = Len(written) + i
  <2>1. \A i \in 1..Len(held) : held[i] = Len(written) + i /\ all[i] = held[i]
    BY DEF IInv, TypeOK, CodecInv, Active, Working
  <2>2. picture = encodeFrameCount + 1 /\ Len(written) + Len(held) = encodeFrameCount
    BY DEF IInv, CodecInv, Active, Working
  <2>3. all[Len(held) + 1] = picture
    BY DEF IInv, TypeOK
  <2>4. \A i \in 1..(Len(held) + 1) : i \in 1..Len(held) \/ i = Len(held) + 1
    BY <1>t
  <2>5. picture = Len(written) + (Len(held) + 1)
    <3>1. Len(written) \in Int /\ Len(held) \in Int /\ encodeFrameCount \in Int
      BY <1>t, <1>n
    <3>2. encodeFrameCount + 1 = Len(written) + (Len(held) + 1)
      BY <2>2, <3>1, OneMore, Zenon
    <3> QED BY <2>2, <3>2
  <2> QED BY <2>1, <2>3, <2>4, <2>5
<1> HIDE DEF all
<1>a. /\ Busy = 1 /\ InHand = 1 /\ AbortQueued' = AbortQueued /\ Orders' = Orders
      /\ Holding' = Holding /\ InHand' \in {0, 1} /\ InHand' <= InHand
      /\ pc' # "terminate" => Busy' = 1 /\ InHand' = 1
      /\ pc' = "terminate" => failed' /\ (app \in {"idle", "render", "submit"} => InHand' = 1)
  BY EncoderAssumption DEF IInv, TypeOK, CommandInv, FailInv, AbortQueued, Orders, Busy, InHand, Holding, Aborting, Working, Stopping
<1>c. /\ Taken' <= Taken /\ Taken' \in Nat
      /\ ~failed' \/ app \in {"idle", "render", "submit"} => Taken' = Taken
  <2>1. CASE InHand' = InHand
    BY <1>0, <1>a, <2>1 DEF Taken
  <2>2. CASE InHand = 1 /\ InHand' = 0
    BY <1>0, <1>a, <2>2 DEF Taken
  <2> QED BY <1>0, <1>a, <2>1, <2>2
<1>1. TypeOK'
  <2>1. held' \in Seq(Picture) /\ written' \in Seq(Picture)
    BY <1>t, <1>u DEF IInv, TypeOK
  <2> QED BY <1>u, <2>1 DEF IInv, TypeOK
<1>2. CommandInv'
  BY EncoderAssumption, <1>0, <1>a DEF IInv, TypeOK, CommandInv, Aborting, Orders, AbortQueued
<1>3. FailInv'
  BY EncoderAssumption, <1>0, <1>a DEF IInv, TypeOK, FailInv, Aborting, Stopping
<1>4. CreditInv'
  BY <1>0, <1>n, <1>a, <1>b, <1>c DEF IInv, CreditInv
<1>5. FrameInv'
  <2>1. /\ encodeFrameCount' = encodeFrameCount /\ inputFrameCount' = inputFrameCount
        /\ app' = app /\ (failed => failed')
    BY <1>b
  <2>2. encodeFrameCount + Taken' <= inputFrameCount
    <3>1. \A k \in Nat : k <= Taken => encodeFrameCount + k <= inputFrameCount
      <4>1. encodeFrameCount + Taken <= inputFrameCount
        BY DEF IInv, FrameInv
      <4> QED BY <1>0, <1>n, <4>1
    <3>2. Taken' \in Nat /\ Taken' <= Taken
      BY <1>0, <1>c
    <3> QED BY <3>1, <3>2, Zenon
  <2> QED BY <1>b, <1>c, <2>1, <2>2 DEF IInv, FrameInv
<1>6. MemInv'
  BY EncoderAssumption, <1>0, <1>a DEF IInv, TypeOK, MemInv, Source, Lent, Active, Working
<1>7. CodecInv'
  <2>n. Bframes \in Nat
    BY EncoderAssumption
  <2>h. Len(held) <= Bframes /\ Len(written) + Len(held) = encodeFrameCount
    BY DEF IInv, CodecInv, Active, Working
  <2>1. CASE /\ held' = Tail(all) /\ written' = Append(written, Head(all)) /\ pc' = "ack"
    <3>1. Head(all) = Len(written) + 1 /\ \A i \in 1..Len(held) : Tail(all)[i] = all[i + 1]
      BY <1>t, <1>v
    <3>2. \A i \in DOMAIN held' : held'[i] = Len(written') + i
      <4>1. SUFFICES ASSUME NEW i \in 1..Len(held) PROVE Tail(all)[i] = Len(written') + i
        BY <1>t, <2>1
      <4>2. i + 1 \in 1..(Len(held) + 1) /\ i \in Int
        BY <1>t
      <4>3. all[i + 1] = Len(written) + (i + 1)
        BY <1>v, <4>2
      <4> QED BY <1>t, <2>1, <3>1, <4>2, <4>3
    <3>3. \A i \in DOMAIN written' : written'[i] = i
      <4>1. \A i \in DOMAIN written : written[i] = i
        BY DEF IInv, CodecInv
      <4>2. written \in Seq(Picture)
        BY DEF IInv, TypeOK
      <4> QED BY <1>t, <2>1, <3>1, <4>1, <4>2
    <3>4. Len(written') + Len(held') = encodeFrameCount + 1 /\ Len(held') <= Bframes
      <4>1. Len(written') = Len(written) + 1 /\ Len(held') = Len(held)
        BY <1>t, <2>1
      <4>2. Len(written) \in Int /\ Len(held) \in Int /\ encodeFrameCount \in Int
        BY <1>t, <1>n
      <4>3. (Len(written) + 1) + Len(held) = encodeFrameCount + 1
        BY <2>h, <4>2, OneMore, Zenon
      <4> QED BY <2>h, <4>1, <4>3
    <3> QED BY <2>1, <3>2, <3>3, <3>4 DEF CodecInv, Active, Working
  <2>2. CASE held' = all /\ written' = written /\ pc' = "ack" /\ Len(all) <= Bframes
    <3>1. \A i \in DOMAIN held' : held'[i] = Len(written') + i
      BY <1>t, <1>v, <2>2
    <3>2. Len(written') + Len(held') = encodeFrameCount + 1 /\ Len(held') <= Bframes
      BY <1>n, <1>t, <2>n, <2>h, <2>2
    <3> QED BY <2>2, <3>1, <3>2 DEF IInv, CodecInv, Active, Working
  <2>3. CASE held' = held /\ written' = written /\ pc' = "terminate"
    BY <2>3 DEF IInv, CodecInv, Active, Working
  <2> QED BY <1>u, <2>1, <2>2, <2>3
<1>8. FlushInv'
  BY <1>0, <1>n, <1>a, <1>b, <1>c DEF IInv, FlushInv, Active, Working, Stopping, CodecInv
<1> QED BY <1>1, <1>2, <1>3, <1>4, <1>5, <1>6, <1>7, <1>8 DEF IInv

\* The buffer is free again: the encoder acknowledges it.
LEMMA StepAckFrame == IInv /\ AckFrame => IInv'
<1> SUFFICES ASSUME IInv, AckFrame PROVE IInv'
  OBVIOUS
<1> USE DEF AckFrame, appVars, queues, frameVars, codecVars, Encode, Abort, Good, Bad
<1>0. /\ Orders \in Nat /\ Orders <= Len(queueCmd) /\ Busy \in {0, 1} /\ InHand \in {0, 1}
      /\ Busy <= InHand /\ Holding \in {0, 1}
      /\ Taken \in Nat /\ Taken = Orders + InHand + Holding
      /\ AbortQueued => Orders = Len(queueCmd) - 1
      /\ ~AbortQueued => Orders = Len(queueCmd)
  BY Counts
<1>n. /\ encodeFrameCount \in Nat /\ inputFrameCount \in Nat /\ inputFrameCount <= MaxFrames
      /\ encodeFrameCount <= MaxFrames
      /\ Len(queueAck) \in Nat /\ Len(queueCmd) \in Nat /\ MaxFrames \in Nat /\ PoolSize \in Nat \ {0}
  BY EncoderAssumption DEF IInv, TypeOK
<1>b. failed \in BOOLEAN /\ failed' \in BOOLEAN
  BY DEF IInv, TypeOK
<1>t. /\ queueAck' \in Seq({Good, Bad}) /\ Len(queueAck') = Len(queueAck) + 1
      /\ \A i \in DOMAIN queueAck' : queueAck'[i] = Bad =>
            (i \in DOMAIN queueAck /\ queueAck[i] = Bad) \/ pc = "lastAck"
  BY DEF IInv, TypeOK
<1>a. /\ Busy = 1 /\ InHand = 1 /\ Busy' = 0 /\ InHand' = 0 /\ AbortQueued' = AbortQueued
      /\ Orders' = Orders /\ Holding' = Holding
  BY EncoderAssumption DEF IInv, TypeOK, CommandInv, FailInv, AbortQueued, Orders, Busy, InHand, Holding, Aborting, Working, Stopping
<1>c. Taken' = Taken - 1 /\ Taken > 0
  BY <1>0, <1>n, <1>a DEF Taken
<1>1. TypeOK'
  <2>1. encodeFrameCount + Taken <= inputFrameCount
    BY DEF IInv, FrameInv
  <2>2. encodeFrameCount + 1 <= MaxFrames
    BY <1>0, <1>n, <1>c, <2>1
  <2>3. Len(queueAck) + Taken <= PoolSize - 1
    BY DEF IInv, CreditInv
  <2>4. Len(queueAck) + 1 <= PoolSize
    BY <1>0, <1>n, <1>c, <2>3
  <2>5. encodeFrameCount + 1 \in 0..MaxFrames
    BY <1>n, <2>2
  <2> QED BY <1>t, <2>4, <2>5 DEF IInv, TypeOK
<1>2. CommandInv'
  BY EncoderAssumption, <1>0, <1>a DEF IInv, TypeOK, CommandInv, Aborting, Orders, AbortQueued
<1>3. FailInv'
  BY EncoderAssumption, <1>0, <1>a, <1>t DEF IInv, TypeOK, FailInv, Aborting, Stopping
<1>4. CreditInv'
  BY <1>0, <1>n, <1>a, <1>c, <1>t DEF IInv, CreditInv
<1>5. FrameInv'
  BY <1>0, <1>n, <1>a, <1>b, <1>c DEF IInv, FrameInv, Aborting
<1>6. MemInv'
  <2>1. ASSUME NEW i \in 0..(Orders - 1)
        PROVE  mem[(encodeFrameCount + 1 + i) % PoolSize] = encodeFrameCount + 1 + i + 1
    BY <1>a DEF IInv, MemInv, Active, Working
  <2> QED BY <1>a, <2>1 DEF IInv, MemInv, Lent, Active, Working
<1>7. CodecInv'
  BY EncoderAssumption, <1>0, <1>a DEF IInv, TypeOK, CodecInv, Active, Working
<1>8. FlushInv'
  BY <1>0, <1>n, <1>a, <1>b, <1>c DEF IInv, FlushInv, Active, Working, Stopping, CodecInv
<1> QED BY <1>1, <1>2, <1>3, <1>4, <1>5, <1>6, <1>7, <1>8 DEF IInv

\* The codec gives back a picture it holds; the order to stop has been taken.
LEMMA StepFlushFrame == IInv /\ FlushFrame => IInv'
<1> SUFFICES ASSUME IInv, FlushFrame PROVE IInv'
  OBVIOUS
<1> USE DEF FlushFrame, Fail, GoOn, appVars, queues, frameVars, codecVars, Encode, Abort, Good, Bad
<1>0. /\ Orders \in Nat /\ Orders <= Len(queueCmd) /\ Busy \in {0, 1} /\ InHand \in {0, 1}
      /\ Busy <= InHand /\ Holding \in {0, 1}
      /\ Taken \in Nat /\ Taken = Orders + InHand + Holding
      /\ AbortQueued => Orders = Len(queueCmd) - 1
      /\ ~AbortQueued => Orders = Len(queueCmd)
  BY Counts
<1>n. /\ encodeFrameCount \in Nat /\ inputFrameCount \in Nat /\ inputFrameCount <= MaxFrames
      /\ encodeFrameCount <= MaxFrames
      /\ Len(queueAck) \in Nat /\ Len(queueCmd) \in Nat /\ MaxFrames \in Nat /\ PoolSize \in Nat \ {0}
  BY EncoderAssumption DEF IInv, TypeOK
<1>b. failed \in BOOLEAN /\ failed' \in BOOLEAN
  BY DEF IInv, TypeOK
<1>s. held \in Seq(Picture) /\ written \in Seq(Picture)
  BY DEF IInv, TypeOK
<1>t. held # <<>> => /\ Tail(held) \in Seq(Picture) /\ Len(Tail(held)) = Len(held) - 1
                     /\ Head(held) = held[1] /\ Head(held) \in Picture
                     /\ \A i \in DOMAIN Tail(held) : Tail(held)[i] = held[i + 1]
                     /\ \A i \in DOMAIN Tail(held) : i + 1 \in DOMAIN held /\ i \in Int
                     /\ 1 \in DOMAIN held /\ Len(held) > 0
  BY <1>s
<1>u. /\ Len(held) \in Nat /\ Len(written) \in Nat
      /\ held # <<>> => /\ Append(written, Head(held)) \in Seq(Picture)
                        /\ Len(Append(written, Head(held))) = Len(written) + 1
                        /\ Append(written, Head(held))[Len(written) + 1] = Head(held)
                        /\ \A i \in DOMAIN written : Append(written, Head(held))[i] = written[i]
                        /\ \A i \in DOMAIN Append(written, Head(held)) :
                              i \in DOMAIN written \/ i = Len(written) + 1
  BY <1>s, <1>t
<1>a. /\ AbortQueued' = AbortQueued /\ Orders' = Orders /\ Holding' = Holding
      /\ Busy = 0 /\ InHand = 0 /\ Busy' = 0 /\ InHand' = 0
      /\ Aborting /\ Aborting' /\ queueCmd = <<>> /\ queueCmd' = <<>>
  BY EncoderAssumption DEF IInv, TypeOK, CommandInv, FailInv, AbortQueued, Orders, Busy, InHand, Holding, Aborting, Working, Stopping
<1>c. Taken' = Taken
  BY <1>0, <1>n, <1>a DEF Taken
<1>1. TypeOK'
  <2>1. held' \in Seq(Picture) /\ written' \in Seq(Picture)
    BY <1>s, <1>t, <1>u
  <2> QED BY <1>b, <2>1 DEF IInv, TypeOK
<1>2. CommandInv'
  BY EncoderAssumption, <1>0, <1>a DEF IInv, TypeOK, CommandInv, Aborting, Orders, AbortQueued
<1>3. FailInv'
  BY EncoderAssumption, <1>0, <1>a DEF IInv, TypeOK, FailInv, Aborting, Stopping
<1>4. CreditInv'
  BY <1>0, <1>n, <1>a, <1>b, <1>c DEF IInv, CreditInv
<1>5. FrameInv'
  BY <1>0, <1>n, <1>a, <1>b, <1>c DEF IInv, FrameInv, Aborting
<1>6. MemInv'
  BY EncoderAssumption, <1>0, <1>a DEF IInv, TypeOK, MemInv, Source, Lent, Active, Working
<1>7. CodecInv'
  <2>n. Bframes \in Nat /\ Len(held) <= Bframes
    BY EncoderAssumption DEF IInv, CodecInv
  <2>0. \A i \in DOMAIN written : written[i] = i
    BY DEF IInv, CodecInv
  <2>1. CASE held' = held /\ written' = written
    BY <2>1 DEF IInv, CodecInv, Active, Working
  <2>2. CASE held # <<>> /\ held' = Tail(held) /\ Container /\ written' = written
    <3>1. Len(held') <= Bframes
      BY <1>t, <1>u, <2>n, <2>2
    <3> QED BY <2>0, <2>2, <3>1 DEF CodecInv, Active, Working
  <2>3. CASE held # <<>> /\ held' = Tail(held) /\ ~Container /\ written' = Append(written, Head(held))
    <3>1. \A i \in DOMAIN held : held[i] = Len(written) + i
      BY <2>3 DEF IInv, CodecInv
    <3>2. \A i \in DOMAIN written' : written'[i] = i
      BY <1>t, <1>u, <2>0, <2>3, <3>1
    <3>3. \A i \in DOMAIN held' : held'[i] = Len(written') + i
      <4>1. SUFFICES ASSUME NEW i \in DOMAIN Tail(held) PROVE Tail(held)[i] = Len(written) + 1 + i
        BY <1>u, <2>3
      <4>2. Tail(held)[i] = Len(written) + (i + 1) /\ i \in Int
        BY <1>t, <2>3, <3>1
      <4> QED BY <1>u, <4>2
    <3>4. Len(held') <= Bframes
      BY <1>t, <1>u, <2>n, <2>3
    <3> QED BY <2>3, <3>2, <3>3, <3>4 DEF CodecInv, Active, Working
  <2> QED BY <2>1, <2>2, <2>3
<1>8. FlushInv'
  <2>1. CASE failed'
    BY <2>1 DEF FlushInv
  <2>2. CASE ~failed' /\ held = <<>> /\ held' = held /\ written' = written /\ pc' = "terminate"
    BY <1>b, <2>2 DEF IInv, FlushInv, Active, Working, Stopping
  <2>3. CASE ~failed' /\ held # <<>> /\ held' = Tail(held) /\ pc' = "flush"
    <3>0. ~failed
      BY <1>b, <2>3
    <3>1. CASE ~Container
      <4>1. Len(written) + Len(held) = encodeFrameCount
        BY <3>0, <3>1 DEF IInv, FlushInv, Active, Working
      <4>2. Len(written') = Len(written) + 1 /\ Len(held') = Len(held) - 1
        BY <1>t, <1>u, <2>3, <3>1
      <4>3. Len(written') + Len(held') = encodeFrameCount
        <5>1. Len(written) \in Int /\ Len(held) \in Int /\ encodeFrameCount \in Int
          BY <1>n, <1>u
        <5>2. (Len(written) + 1) + (Len(held) - 1) = encodeFrameCount
          BY <4>1, <5>1, OneLess, Zenon
        <5> QED BY <4>2, <5>2
      <4> QED BY <2>3, <4>3 DEF FlushInv, Stopping
    <3>2. CASE Container /\ Bframes = 0
      BY <1>t, <1>u, <2>3, <3>2 DEF IInv, CodecInv
    <3>3. CASE Container /\ Bframes # 0
      BY <2>3, <3>3 DEF FlushInv, Stopping
    <3> QED BY <3>1, <3>2, <3>3
  <2> QED BY <1>b, <2>1, <2>2, <2>3
<1> QED BY <1>1, <1>2, <1>3, <1>4, <1>5, <1>6, <1>7, <1>8 DEF IInv

\* The encoder says that it has stopped.
LEMMA StepTerminate == IInv /\ Terminate => IInv'
<1> SUFFICES ASSUME IInv, Terminate PROVE IInv'
  OBVIOUS
<1> USE DEF Terminate, appVars, queues, frameVars, codecVars, Encode, Abort, Good, Bad
<1>0. /\ Orders \in Nat /\ Orders <= Len(queueCmd) /\ Busy \in {0, 1} /\ InHand \in {0, 1}
      /\ Busy <= InHand /\ Holding \in {0, 1}
      /\ Taken \in Nat /\ Taken = Orders + InHand + Holding
      /\ AbortQueued => Orders = Len(queueCmd) - 1
      /\ ~AbortQueued => Orders = Len(queueCmd)
  BY Counts
<1>n. /\ encodeFrameCount \in Nat /\ inputFrameCount \in Nat /\ inputFrameCount <= MaxFrames
      /\ encodeFrameCount <= MaxFrames
      /\ Len(queueAck) \in Nat /\ Len(queueCmd) \in Nat /\ MaxFrames \in Nat /\ PoolSize \in Nat \ {0}
  BY EncoderAssumption DEF IInv, TypeOK
<1>b. failed \in BOOLEAN /\ failed' \in BOOLEAN
  BY DEF IInv, TypeOK
<1>a. AbortQueued' = AbortQueued /\ Orders' = Orders /\ Busy' = Busy /\ InHand' = InHand
      /\ Holding' = Holding
  BY EncoderAssumption DEF IInv, TypeOK, CommandInv, FailInv, AbortQueued, Orders, Busy, InHand, Holding, Aborting, Working, Stopping
<1>c. Taken' = Taken
  BY <1>0, <1>n, <1>a DEF Taken
<1>1. TypeOK'
  BY EncoderAssumption, <1>0, <1>a DEF IInv, TypeOK, Pool, Picture
<1>2. CommandInv'
  BY EncoderAssumption, <1>0, <1>a DEF IInv, TypeOK, CommandInv, Aborting, Orders, AbortQueued
<1>3. FailInv'
  BY EncoderAssumption, <1>0, <1>a DEF IInv, TypeOK, FailInv, Aborting, Stopping
<1>4. CreditInv'
  BY <1>0, <1>n, <1>a, <1>b, <1>c DEF IInv, CreditInv
<1>5. FrameInv'
  BY <1>0, <1>n, <1>a, <1>b, <1>c DEF IInv, FrameInv, Aborting
<1>6. MemInv'
  BY EncoderAssumption, <1>0, <1>a DEF IInv, TypeOK, MemInv, Source, Lent, Active, Working
<1>7. CodecInv'
  BY EncoderAssumption, <1>0, <1>a DEF IInv, TypeOK, CodecInv, Active, Working
<1>8. FlushInv'
  BY <1>0, <1>n, <1>a, <1>b, <1>c DEF IInv, FlushInv, Active, Working, Stopping, CodecInv
<1> QED BY <1>1, <1>2, <1>3, <1>4, <1>5, <1>6, <1>7, <1>8 DEF IInv

\* The last acknowledgement stands for no buffer.
LEMMA StepLastAck == IInv /\ LastAck => IInv'
<1> SUFFICES ASSUME IInv, LastAck PROVE IInv'
  OBVIOUS
<1> USE DEF LastAck, appVars, queues, frameVars, codecVars, Encode, Abort, Good, Bad
<1>0. /\ Orders \in Nat /\ Orders <= Len(queueCmd) /\ Busy \in {0, 1} /\ InHand \in {0, 1}
      /\ Busy <= InHand /\ Holding \in {0, 1}
      /\ Taken \in Nat /\ Taken = Orders + InHand + Holding
      /\ AbortQueued => Orders = Len(queueCmd) - 1
      /\ ~AbortQueued => Orders = Len(queueCmd)
  BY Counts
<1>n. /\ encodeFrameCount \in Nat /\ inputFrameCount \in Nat /\ inputFrameCount <= MaxFrames
      /\ encodeFrameCount <= MaxFrames
      /\ Len(queueAck) \in Nat /\ Len(queueCmd) \in Nat /\ MaxFrames \in Nat /\ PoolSize \in Nat \ {0}
  BY EncoderAssumption DEF IInv, TypeOK
<1>b. failed \in BOOLEAN /\ failed' \in BOOLEAN
  BY DEF IInv, TypeOK
<1>t. /\ queueAck' \in Seq({Good, Bad}) /\ Len(queueAck') = Len(queueAck) + 1
      /\ \A i \in DOMAIN queueAck' : queueAck'[i] = Bad =>
            (i \in DOMAIN queueAck /\ queueAck[i] = Bad) \/ pc = "lastAck"
  BY DEF IInv, TypeOK
<1>a. AbortQueued' = AbortQueued /\ Orders' = Orders /\ Busy' = Busy /\ InHand' = InHand
      /\ Holding' = Holding
  BY EncoderAssumption DEF IInv, TypeOK, CommandInv, FailInv, AbortQueued, Orders, Busy, InHand, Holding, Aborting, Working, Stopping
<1>c. Taken' = Taken
  BY <1>0, <1>n, <1>a DEF Taken
<1>1. TypeOK'
  <2>3. Len(queueAck) + Taken <= PoolSize - 1
    BY DEF IInv, CreditInv
  <2>4. Len(queueAck) + 1 <= PoolSize
    BY <1>0, <1>n, <2>3
  <2> QED BY <1>t, <2>4 DEF IInv, TypeOK
<1>2. CommandInv'
  BY EncoderAssumption, <1>0, <1>a DEF IInv, TypeOK, CommandInv, Aborting, Orders, AbortQueued
<1>3. FailInv'
  BY EncoderAssumption, <1>0, <1>a, <1>t DEF IInv, TypeOK, FailInv, Aborting, Stopping
<1>4. CreditInv'
  BY <1>0, <1>n, <1>a, <1>c, <1>t DEF IInv, CreditInv
<1>5. FrameInv'
  BY <1>0, <1>n, <1>a, <1>b, <1>c DEF IInv, FrameInv, Aborting
<1>6. MemInv'
  BY EncoderAssumption, <1>0, <1>a DEF IInv, TypeOK, MemInv, Source, Lent, Active, Working
<1>7. CodecInv'
  BY EncoderAssumption, <1>0, <1>a DEF IInv, TypeOK, CodecInv, Active, Working
<1>8. FlushInv'
  BY <1>0, <1>n, <1>a, <1>b, <1>c DEF IInv, FlushInv, Active, Working, Stopping, CodecInv
<1> QED BY <1>1, <1>2, <1>3, <1>4, <1>5, <1>6, <1>7, <1>8 DEF IInv

----------------------------------------------------------------------------
\* No step of either thread violates the invariant.
LEMMA StepIInv == IInv /\ [Next]_vars => IInv'
<1> SUFFICES ASSUME IInv, [Next]_vars PROVE IInv'
  OBVIOUS
<1>1. CASE Application
  BY <1>1, StepUpdateBuffer, StepRender, StepProcessFrame, StepPushAbort, StepDrainAcks,
     StepJoinThread DEF Application
<1>2. CASE EncodeLoop
  BY <1>2, StepStart, StepPopCommand, StepScaleFrame, StepEncodeFrame, StepAckFrame,
     StepFlushFrame, StepTerminate, StepLastAck DEF EncodeLoop
<1>3. CASE UNCHANGED vars
  <2> USE <1>3 DEF vars, appVars, queues, frameVars, codecVars
  <2>0. /\ AbortQueued' = AbortQueued /\ Orders' = Orders /\ Busy' = Busy
        /\ InHand' = InHand /\ Holding' = Holding /\ Taken' = Taken
    BY DEF AbortQueued, Orders, Busy, InHand, Holding, Taken, Aborting
  <2>1. TypeOK'
    BY <2>0 DEF IInv, TypeOK
  <2>2. CommandInv'
    BY <2>0 DEF IInv, CommandInv, Aborting
  <2>3. FailInv'
    BY <2>0 DEF IInv, FailInv, Aborting
  <2>4. CreditInv'
    BY <2>0 DEF IInv, CreditInv
  <2>5. FrameInv'
    BY <2>0 DEF IInv, FrameInv
  <2>6. MemInv'
    BY <2>0 DEF IInv, MemInv, Source, Lent
  <2>7. CodecInv'
    BY <2>0 DEF IInv, CodecInv
  <2>8. FlushInv'
    BY <2>0 DEF IInv, FlushInv
  <2> QED BY <2>1, <2>2, <2>3, <2>4, <2>5, <2>6, <2>7, <2>8 DEF IInv
<1> QED BY <1>1, <1>2, <1>3 DEF Next

\* The invariant holds in every state of the encoder.
THEOREM Invariant == Spec => []IInv
BY InitIInv, StepIInv, PTL DEF Spec

\* Every variable keeps its type and the acknowledgements never exceed the pool
\* (UpdateBufferOpenCL, ProcessFrame, EncodeLoop and the destructor of encoder.cpp).
THEOREM TypeCorrect == Spec => []TypeOK
<1>1. IInv => TypeOK
  BY DEF IInv
<1> QED BY <1>1, Invariant, PTL

\* The file holds the pictures in the order the graph rendered them: none is repeated,
\* skipped or overwritten in its buffer before EncodeLoop has encoded it.
THEOREM OrderKept == Spec => []WrittenInOrder
<1>1. IInv => WrittenInOrder
  BY DEF IInv, CodecInv, WrittenInOrder
<1> QED BY <1>1, Invariant, PTL

\* The buffer UpdateBufferOpenCL lends the graph is never one the encoder is reading or
\* has an order to read, for a pool of any size.
THEOREM BuffersApart == Spec => []RenderApart
<1>1. IInv => RenderApart
  <2> SUFFICES ASSUME IInv, app = "render" PROVE RenderApart
    BY DEF RenderApart
  <2>1. /\ Orders \in Nat /\ InHand \in {0, 1} /\ Holding = 1 /\ Busy \in {0, 1}
        /\ Busy <= InHand /\ Taken = Orders + InHand + Holding
    BY Counts DEF Holding
  <2>2. /\ encodeFrameCount \in Nat /\ inputFrameCount \in Nat /\ PoolSize \in Nat \ {0}
        /\ Len(queueAck) \in Nat /\ Len(queueCmd) \in Nat
    BY EncoderAssumption DEF IInv, TypeOK
  <2>3. ~AbortQueued /\ Orders = Len(queueCmd) /\ pc # "start"
    BY DEF IInv, TypeOK, CommandInv, Aborting, AbortQueued, Orders
  <2>4. /\ encodeFrameCount + (Orders + InHand + 1) = inputFrameCount
        /\ Orders + InHand + 1 <= PoolSize
        /\ pc # "ended" => Orders + InHand + 1 <= PoolSize - 1
    BY <2>1, <2>2, <2>3 DEF IInv, FrameInv, CreditInv
  <2>5. pc = "ended" => InHand = 1
    BY DEF InHand, Aborting, Stopping
  <2>6. pc = "scale" => Source # Lent
    <3> SUFFICES ASSUME pc = "scale" PROVE Source # Lent
      OBVIOUS
    <3>1. InHand = 1
      BY DEF InHand, Working
    <3>2. /\ encodeFrameCount < inputFrameCount - 1 /\ inputFrameCount - 1 \in Nat
          /\ inputFrameCount - 1 < encodeFrameCount + PoolSize
      BY <2>1, <2>2, <2>4, <3>1
    <3> QED BY <2>2, <3>2, ModApart DEF Source, Lent
  <2>7. ASSUME NEW i \in 0..(Len(queueCmd) - 1) PROVE (Source + i + Busy) % PoolSize # Lent
    <3>1. i \in Nat /\ i <= Orders - 1 /\ i + Busy \in Nat
      BY <2>1, <2>3
    <3>2. Busy < InHand + 1 /\ (Busy = 0 => InHand + Orders < PoolSize)
      BY <2>1, <2>2, <2>4
    <3>3. /\ encodeFrameCount + (i + Busy) < inputFrameCount - 1 /\ inputFrameCount - 1 \in Nat
          /\ inputFrameCount - 1 < encodeFrameCount + (i + Busy) + PoolSize
      BY <2>1, <2>2, <2>4, <3>1
    <3>4. ((encodeFrameCount % PoolSize) + (i + Busy)) % PoolSize # (inputFrameCount - 1) % PoolSize
      BY <2>2, <3>1, <3>3, ModApartFrom
    <3>5. Source \in Int
      BY <2>2 DEF Source
    <3>6. Source + i + Busy = Source + (i + Busy)
      BY <2>1, <3>1, <3>5
    <3> QED BY <3>4, <3>6 DEF Source, Lent
  <2> QED BY <2>6, <2>7 DEF RenderApart, Busy, Working
<1> QED BY <1>1, Invariant, PTL

\* When the destructor has joined the thread every submitted picture is in the file, if
\* no error was reported and the file is a plain stream (or the codec delays nothing):
\* the condition the flush of EncodeLoop puts on its fwrite.
THEOREM NothingLost == ASSUME ~Container \/ Bframes = 0 PROVE Spec => []AllFramesWritten
<1>1. IInv => AllFramesWritten
  <2> SUFFICES ASSUME IInv, app = "~end", ~failed PROVE Len(written) = inputFrameCount
    BY DEF AllFramesWritten
  <2>1. pc = "ended" /\ queueCmd = <<>> /\ held = <<>>
    BY DEF IInv, CommandInv, FailInv, FlushInv, Stopping
  <2>2. Orders = 0 /\ InHand = 0 /\ Holding = 0
    BY <2>1 DEF Orders, AbortQueued, InHand, Holding, Working, Aborting
  <2>3. encodeFrameCount = inputFrameCount
    <3>1. Taken = 0
      BY <2>2 DEF Taken
    <3> QED BY <3>1 DEF IInv, TypeOK, FrameInv
  <2>4. Len(written) + Len(held) = encodeFrameCount
    BY <2>1 DEF IInv, FlushInv, Active, Working
  <2>5. Len(held) = 0 /\ Len(written) \in Nat
    BY <2>1 DEF IInv, TypeOK
  <2> QED BY <2>3, <2>4, <2>5
<1> QED BY <1>1, Invariant, PTL

=============================================================================
