-------------------------- MODULE MediaDecoderProofs --------------------------
(***************************************************************************)
(* Theorems about MediaDecoder for every number of files of any length,    *)
(* every size of the pool and every order the threads run in: counting     *)
(* commands and acknowledgements is enough to keep the slices of an image  *)
(* together and the lent buffer untouched.  An application that executes   *)
(* an abandoned graph again (CallAgain) is left to no such promise.        *)
(***************************************************************************)
EXTENDS MediaDecoder, WellFoundedInduction, TLAPS

\* The graph has neither been abandoned nor is the node being destroyed.
Running == app \in {"start", "startAck", "idle", "push", "ack", "output", "graph"}

\* Commands the graph thread has given to the thread of m, and acknowledgements
\* it has taken from it.
Pushed(m) ==
    IF app = "start" /\ m >= cur THEN 0
    ELSE PoolSize - 1 + outputFrameCount
         + (IF app \in {"ack", "output"} \/ (app = "push" /\ m < cur) THEN 1 ELSE 0)
Popped(m) ==
    IF app = "start" \/ (app = "startAck" /\ m >= cur) THEN 0
    ELSE outputFrameCount + 1
         + (IF app = "output" \/ (app = "ack" /\ m < cur) THEN 1 ELSE 0)

\* The thread of m works on a command it has taken.
Working == {"read", "decode", "eofRead", "storeRead", "flush", "write"}
Busy(m)  == IF pc[m] \in Working THEN 1 ELSE 0
Ended(m) == IF pc[m] = "ended" THEN 1 ELSE 0

\* The executions of the graph; threads are started in order.
CallInv ==
    /\ app = "start" => \A m \in Media : m >= cur => pc[m] = "unstarted"
    /\ app \in {"idle", "output", "graph"} => cur = 1
    /\ app \in {"start", "startAck"} => outputFrameCount = 0
    /\ outputFrameCount <= calls
    /\ app \in {"push", "ack", "output"} => outputFrameCount < calls

\* Every picture costs a command, every acknowledgement is a picture or the last.
CountInv(m) ==
    /\ app = "start" /\ m >= cur =>
         queueCmd[m] = <<>> /\ queueAck[m] = <<>>
    /\ pc[m] = "unstarted" => decodeFrameCount[m] = 0
    /\ decodeFrameCount[m] + Busy(m) + Len(queueCmd[m]) <= Pushed(m)
    /\ Popped(m) + Len(queueAck[m]) = decodeFrameCount[m] + Ended(m)
CountsInv == ~CallAgain /\ Running => \A m \in Media : CountInv(m)

\* The pool holds the last pictures of every file, each in its place.
PoolInv ==
    \A m \in Media :
        /\ pictures[m] = decodeFrameCount[m] + (IF pc[m] = "write" THEN 1 ELSE 0)
        /\ \A i \in Nat : i < decodeFrameCount[m] /\ decodeFrameCount[m] <= i + PoolSize =>
                            buffer[i % PoolSize][m] = i + 1

\* The images the graph has processed.
ShownInv ==
    ~CallAgain =>
        /\ PicturesInSync
        /\ Running => Len(shown) = outputFrameCount - (IF app = "graph" THEN 1 ELSE 0)
        /\ app = "graph" => outputFrameCount >= 1

IInv == TypeOK /\ CallInv /\ CountsInv /\ PoolInv /\ ShownInv

\* Where a thread has met the end of its file and still asks the codec for the
\* picture it may hold back.
Flushing == {"eofRead", "storeRead", "flush"}

\* What the thread of m has read and decoded: a packet is a picture, unless the codec holds
\* it back, the thread has it in work, or it is the corrupt one, which ends the thread.
Delay(m) == IF file[m].delayed THEN 1 ELSE 0
ReadInv(m) ==
    /\ packets[m] <= file[m].packets
    /\ packets[m] <= pictures[m] + Delay(m)
                     + (IF pc[m] = "decode" \/ packets[m] = file[m].corrupt THEN 1 ELSE 0)
    /\ pc[m] = "decode" => packets[m] >= 1
    /\ packets[m] >= 1 /\ packets[m] = file[m].corrupt =>
         pc[m] \in {"decode", "eofError", "storeError", "lastAck", "ended"}
    /\ file[m].corrupt >= 1 => packets[m] <= file[m].corrupt
    /\ pc[m] \in {"eofError", "storeError"} => packets[m] >= 1 /\ packets[m] = file[m].corrupt
    /\ pc[m] \in Flushing => packets[m] = file[m].packets

\* A bit of eof that is set, here or in the word a thread is about to store, a thread that ends
\* and a last acknowledgement say that all pictures of the file are decoded, or all but the one
\* that is being flushed.  No abort is sent before the node is destroyed.
AllDecoded(m) == Decodable(m) <= pictures[m] + (IF pc[m] \in Flushing THEN 1 ELSE 0)
Ending == {"final", "storeFinal", "lastAck", "ended", "eofError", "storeError"}
EndInv(m) ==
    /\ eof[m] => AllDecoded(m)
    /\ \A k \in Media : word[k][m] => AllDecoded(m)
    /\ pc[m] \in Ending \cup Flushing => AllDecoded(m)
    /\ \A i \in DOMAIN queueCmd[m] : queueCmd[m][i] = Decode
    /\ \A i \in DOMAIN queueAck[m] : queueAck[m][i] = Bad => pc[m] = "ended"

LostInv ==
    /\ file \in FileSets
    /\ \A m \in Media : ReadInv(m)
    /\ Running \/ app = "abandoned" => \A m \in Media : EndInv(m)
    /\ ~CallAgain => OnlyLookaheadLost

-------------------------------------------------------------------------------
\* Numbers less than n apart have different remainders.
LEMMA RemaindersDiffer ==
    ASSUME NEW n \in Nat \ {0}, NEW a \in Nat, NEW b \in Nat, a < b, b < a + n
    PROVE  a % n # b % n
<1> DEFINE p == a \div n
           q == b \div n
<1>1. p \in Int /\ q \in Int /\ a = n * p + (a % n) /\ b = n * q + (b % n)
  OBVIOUS
<1>2. SUFFICES ASSUME a % n = b % n PROVE FALSE
  OBVIOUS
<1>3. n * (q - p) = b - a
  BY <1>1, <1>2
<1>4. q - p > 0 /\ q - p < 1
  BY <1>1, <1>3
<1> QED BY <1>1, <1>4

\* Arithmetic of the counts.
LEMMA BoundKept ==
    \A a, b, c, d, e, f \in Nat : \A p \in Int :
        a + b + c <= d + e + f /\ d + e + f <= p => a + b + c <= p
OBVIOUS

\* Arithmetic of the counts.
LEMMA Associated == \A p, l \in Int : \A k \in {0, 1} : p + (l + k) = (p + l) + k
OBVIOUS

\* Arithmetic of the counts.
LEMMA TakenExceeds ==
    \A d, l, k \in Nat : \A e \in {0, 1} : (k + 1) + l = d + e => d >= k
OBVIOUS

\* An index modulo the pool is an index of the pool.
LEMMA RemainderInPool == ASSUME DecoderAssumption, NEW i \in Nat PROVE i % PoolSize \in Pool
BY DEF DecoderAssumption, Pool

-------------------------------------------------------------------------------
\* The invariant holds when the node is created.
LEMMA InitOK == ASSUME DecoderAssumption, Init PROVE IInv
<1>1. MediaCount \in Nat /\ MediaCount >= 1 /\ PoolSize \in Nat /\ PoolSize >= 1 /\ MaxCalls \in Nat
  BY DEF DecoderAssumption
<1>2. TypeOK
  <2>1. app = "start" /\ cur \in Media /\ calls \in 0..MaxCalls /\ outputFrameCount \in 0..MaxCalls
    BY <1>1 DEF Init, Media
  <2>2. shown \in Seq([Media -> Nat])
    BY DEF Init
  <2>3. /\ queueCmd \in [Media -> Seq({Decode, Abort})]
        /\ queueAck \in [Media -> Seq({Good, Bad})]
    BY DEF Init
  <2>4. /\ eof \in [Media -> BOOLEAN] /\ word \in [Media -> [Media -> BOOLEAN]]
        /\ buffer \in [Pool -> [Media -> Nat]] /\ decodeFrameCount \in [Media -> Nat]
        /\ packets \in [Media -> Nat] /\ pictures \in [Media -> Nat]
    BY DEF Init
  <2> QED BY <2>1, <2>2, <2>3, <2>4 DEF Init, TypeOK
<1>3. CallInv /\ PoolInv
  BY DEF Init, CallInv, PoolInv
<1>4. CountsInv
  BY <1>1 DEF Init, CountsInv, CountInv, Pushed, Popped, Busy, Ended, Working, Media
<1>5. ShownInv
  BY DEF Init, ShownInv, PicturesInSync
<1> QED BY <1>2, <1>3, <1>4, <1>5 DEF IInv

-------------------------------------------------------------------------------
(***************************************************************************)
(* Types.                                                                  *)
(***************************************************************************)
LEMMA ApplicationTyped ==
    ASSUME DecoderAssumption, TypeOK, CallInv, Application
    PROVE  TypeOK'
<1>0. /\ MediaCount \in Nat /\ MediaCount >= 1 /\ PoolSize \in Nat /\ PoolSize >= 1
      /\ MaxCalls \in Nat /\ cur \in 1..MediaCount /\ 1 \in Media
      /\ cur < MediaCount => cur + 1 \in Media
  BY DEF DecoderAssumption, TypeOK, Media
<1>1. /\ UNCHANGED <<eof, word, buffer, decodeFrameCount, packets, pictures>>
      /\ pc' = pc \/ (app = "start" /\ pc' = At(pc, cur, "loop"))
  BY DEF Application, StartThread, StartAck, ProcessFrame, PushDecode, PopFrameAck, AttachBuffer,
     GraphDone, Destroy, PushAbort, DrainAcks, JoinThread, fileVars
<1>2. /\ app' \in {"start", "startAck", "idle", "push", "ack", "output", "graph", "abandoned",
                   "failed", "~abort", "~drain", "~join", "~end"}
      /\ cur' \in Media
  BY <1>0 DEF TypeOK, Application, StartThread, StartAck, ProcessFrame, PushDecode, PopFrameAck,
     AttachBuffer, GraphDone, Destroy, PushAbort, DrainAcks, JoinThread, NextMedia
<1>3. calls' \in 0..MaxCalls /\ outputFrameCount' \in 0..MaxCalls
  BY <1>0 DEF TypeOK, CallInv, Application, StartThread, StartAck, ProcessFrame, PushDecode,
     PopFrameAck, AttachBuffer, GraphDone, Destroy, PushAbort, DrainAcks, JoinThread
<1>4. queueCmd' \in [Media -> Seq({Decode, Abort})]
  <2>1. InitialCommands \in Seq({Decode, Abort})
    <3>1. PoolSize - 1 \in Nat
      BY <1>0
    <3> QED BY <3>1 DEF InitialCommands
  <2>2. \A x \in {Decode, Abort} : Append(queueCmd[cur], x) \in Seq({Decode, Abort})
    BY DEF TypeOK
  <2> QED BY <2>1, <2>2 DEF TypeOK, Application, StartThread, StartAck, ProcessFrame, PushDecode,
          PopFrameAck, AttachBuffer, GraphDone, Destroy, PushAbort, DrainAcks, JoinThread, queues,
          Push, At
<1>5. queueAck' \in [Media -> Seq({Good, Bad})]
  <2>1. queueAck[cur] # <<>> => Tail(queueAck[cur]) \in Seq({Good, Bad})
    BY DEF TypeOK
  <2> QED BY <2>1 DEF TypeOK, Application, StartThread, StartAck, ProcessFrame, PushDecode,
          PopFrameAck, AttachBuffer, GraphDone, Destroy, PushAbort, DrainAcks, JoinThread, queues,
          Pop, At
<1>6. shown' \in Seq([Media -> Nat])
  <2>1. CASE GraphDone
    <3>1. app = "graph" /\ outputFrameCount \in Nat
      BY <2>1 DEF GraphDone, TypeOK
    <3>2. Lent \in Pool
      BY <3>1, <1>0 DEF Lent, Pool
    <3>3. buffer[Lent] \in [Media -> Nat]
      BY <3>2 DEF TypeOK
    <3> QED BY <2>1, <3>3 DEF GraphDone, TypeOK
  <2>2. CASE ~GraphDone
    BY <2>2 DEF TypeOK, Application, StartThread, StartAck, ProcessFrame, PushDecode, PopFrameAck,
       AttachBuffer, Destroy, PushAbort, DrainAcks, JoinThread
  <2> QED BY <2>1, <2>2
<1> QED BY <1>1, <1>2, <1>3, <1>4, <1>5, <1>6 DEF TypeOK, At

\* A decoder thread keeps the types.
LEMMA ThreadTyped ==
    ASSUME DecoderAssumption, TypeOK, NEW m \in Media, DecodeLoop(m)
    PROVE  TypeOK'
<1>1. UNCHANGED <<app, cur, calls, shown, outputFrameCount>>
  BY DEF DecodeLoop, LoopTest, PopCommand, ReadPacket, LoadEof, StoreEof, DecodePacket, DecodeFlush,
     WriteSlice, LastAck, threadVars, appVars
<1>2. pc' \in [Media -> EofPcs \cup {"unstarted", "loop", "command", "read", "decode", "flush",
                "write", "storeRead", "storeFinal", "storeError", "lastAck", "ended"}]
  BY DEF TypeOK, DecodeLoop, LoopTest, PopCommand, ReadPacket, LoadEof, StoreEof, DecodePacket,
     DecodeFlush, WriteSlice, LastAck, At, EofPcs
<1>3. queueCmd' \in [Media -> Seq({Decode, Abort})]
  <2>1. queueCmd[m] # <<>> => Tail(queueCmd[m]) \in Seq({Decode, Abort})
    BY DEF TypeOK
  <2> QED BY <2>1 DEF TypeOK, DecodeLoop, LoopTest, PopCommand, ReadPacket, LoadEof, StoreEof,
          DecodePacket, DecodeFlush, WriteSlice, LastAck, Pop, queues
<1>4. queueAck' \in [Media -> Seq({Good, Bad})]
  <2>1. \A x \in {Good, Bad} : Append(queueAck[m], x) \in Seq({Good, Bad})
    BY DEF TypeOK
  <2> QED BY <2>1 DEF TypeOK, DecodeLoop, LoopTest, PopCommand, ReadPacket, LoadEof, StoreEof,
          DecodePacket, DecodeFlush, WriteSlice, LastAck, Push, queues
<1>5. eof' \in [Media -> BOOLEAN] /\ word' \in [Media -> [Media -> BOOLEAN]]
  <2>1. /\ eof' = eof \/ eof' = At(word[m], m, TRUE)
        /\ word' = word \/ word' = At(word, m, eof)
    BY DEF DecodeLoop, LoopTest, PopCommand, ReadPacket, LoadEof, StoreEof, DecodePacket,
       DecodeFlush, WriteSlice, LastAck
  <2>2. eof \in [Media -> BOOLEAN] /\ word \in [Media -> [Media -> BOOLEAN]]
        /\ word[m] \in [Media -> BOOLEAN]
    BY DEF TypeOK
  <2>3. At(word[m], m, TRUE) \in [Media -> BOOLEAN]
    BY <2>2 DEF At
  <2>4. At(word, m, eof) \in [Media -> [Media -> BOOLEAN]]
    BY <2>2 DEF At
  <2> QED BY <2>1, <2>2, <2>3, <2>4
<1>6. /\ buffer' \in [Pool -> [Media -> Nat]] /\ decodeFrameCount' \in [Media -> Nat]
      /\ packets' \in [Media -> Nat] /\ pictures' \in [Media -> Nat]
  <2>1. /\ buffer' = buffer \/ buffer' = [buffer EXCEPT ![Target(m)][m] = pictures[m]]
        /\ decodeFrameCount' = decodeFrameCount
              \/ decodeFrameCount' = At(decodeFrameCount, m, decodeFrameCount[m] + 1)
        /\ packets' = packets \/ packets' = At(packets, m, packets[m] + 1)
        /\ pictures' = pictures \/ pictures' = At(pictures, m, pictures[m] + 1)
    BY DEF DecodeLoop, LoopTest, PopCommand, ReadPacket, LoadEof, StoreEof, DecodePacket,
       DecodeFlush, WriteSlice, LastAck, threadVars, fileVars
  <2>2. /\ decodeFrameCount \in [Media -> Nat] /\ packets \in [Media -> Nat]
        /\ pictures \in [Media -> Nat] /\ buffer \in [Pool -> [Media -> Nat]]
    BY DEF TypeOK
  <2>3. Target(m) \in Pool
    BY <2>2, RemainderInPool DEF Target
  <2>4. [buffer EXCEPT ![Target(m)][m] = pictures[m]] \in [Pool -> [Media -> Nat]]
    BY <2>2, <2>3
  <2>5. buffer' \in [Pool -> [Media -> Nat]]
    BY <2>1, <2>2, <2>4
  <2>6. At(decodeFrameCount, m, decodeFrameCount[m] + 1) \in [Media -> Nat]
    BY <2>2 DEF At
  <2>7. At(packets, m, packets[m] + 1) \in [Media -> Nat]
    BY <2>2 DEF At
  <2>8. At(pictures, m, pictures[m] + 1) \in [Media -> Nat]
    BY <2>2 DEF At
  <2> QED BY <2>1, <2>2, <2>5, <2>6, <2>7, <2>8
<1> QED BY <1>1, <1>2, <1>3, <1>4, <1>5, <1>6 DEF TypeOK

-------------------------------------------------------------------------------
(***************************************************************************)
(* The graph thread's steps.                                               *)
(***************************************************************************)
LEMMA ApplicationKeeps ==
    ASSUME DecoderAssumption, IInv, Application
    PROVE  CallInv' /\ CountsInv' /\ PoolInv'
<1> USE DEF IInv
<1>0. /\ MediaCount \in Nat /\ PoolSize \in Nat /\ PoolSize >= 1 /\ cur \in 1..MediaCount
      /\ outputFrameCount \in Nat /\ calls \in Nat /\ Media = 1..MediaCount
      /\ decodeFrameCount \in [Media -> Nat] /\ DOMAIN pc = Media
      /\ DOMAIN queueCmd = Media /\ DOMAIN queueAck = Media
      /\ \A m \in Media : queueCmd[m] \in Seq({Decode, Abort}) /\ queueAck[m] \in Seq({Good, Bad})
  <2>1. MediaCount \in Nat /\ PoolSize \in Nat /\ PoolSize >= 1 /\ Media = 1..MediaCount
    BY DEF DecoderAssumption, Media
  <2>2. TypeOK
    OBVIOUS
  <2>3. cur \in Media /\ outputFrameCount \in Nat /\ calls \in Nat
    BY <2>2 DEF TypeOK, DecoderAssumption
  <2>4. /\ decodeFrameCount \in [Media -> Nat] /\ DOMAIN pc = Media
        /\ queueCmd \in [Media -> Seq({Decode, Abort})]
        /\ queueAck \in [Media -> Seq({Good, Bad})]
    BY <2>2 DEF TypeOK
  <2> QED BY <2>1, <2>3, <2>4
<1>1. CallInv'
  <2>1. CASE StartThread
    <3>1. app' = "start" => cur' = cur + 1
      BY <2>1 DEF StartThread, NextMedia
    <3>2. \A m \in Media : m # cur => pc'[m] = pc[m]
      BY <2>1, <1>0 DEF StartThread, At
    <3> QED BY <2>1, <3>1, <3>2, <1>0 DEF CallInv, StartThread, NextMedia
  <2>2. CASE ~StartThread
    <3>1. CallInv
      OBVIOUS
    <3>2. CASE StartAck
      BY <3>1, <3>2, <1>0 DEF CallInv, StartAck, NextMedia
    <3>3. CASE ProcessFrame \/ GraphDone
      BY <3>1, <3>3, <1>0 DEF CallInv, ProcessFrame, GraphDone
    <3>4. CASE PushDecode
      BY <3>1, <3>4, <1>0 DEF CallInv, PushDecode, NextMedia
    <3>5. CASE PopFrameAck
      BY <3>1, <3>5, <1>0 DEF CallInv, PopFrameAck, NextMedia
    <3>6. CASE AttachBuffer
      BY <3>1, <3>6, <1>0 DEF CallInv, AttachBuffer
    <3>7. CASE Destroy \/ PushAbort \/ DrainAcks \/ JoinThread
      BY <3>1, <3>7, <1>0 DEF CallInv, Destroy, PushAbort, DrainAcks, JoinThread
    <3> QED BY <2>2, <3>2, <3>3, <3>4, <3>5, <3>6, <3>7 DEF Application
  <2> QED BY <2>1, <2>2
<1>2. PoolInv'
  <2>1. UNCHANGED <<buffer, decodeFrameCount, pictures>>
    BY DEF Application, StartThread, StartAck, ProcessFrame, PushDecode, PopFrameAck, AttachBuffer,
       GraphDone, Destroy, PushAbort, DrainAcks, JoinThread, fileVars
  <2>2. \A m \in Media : pc'[m] = "write" <=> pc[m] = "write"
    <3>1. CASE StartThread
      <4>1. pc[cur] = "unstarted"
        BY <3>1, <1>0 DEF StartThread, CallInv
      <4> QED BY <3>1, <4>1, <1>0 DEF StartThread, At
    <3>2. CASE ~StartThread
      BY <3>2 DEF Application, StartAck, ProcessFrame, PushDecode, PopFrameAck, AttachBuffer,
         GraphDone, Destroy, PushAbort, DrainAcks, JoinThread
    <3> QED BY <3>1, <3>2
  <2> QED BY <2>1, <2>2 DEF PoolInv
<1>3. CountsInv'
  <2> SUFFICES ASSUME ~CallAgain, Running', NEW m \in Media PROVE CountInv(m)'
    BY DEF CountsInv
  <2>1. UNCHANGED decodeFrameCount
    BY DEF Application, StartThread, StartAck, ProcessFrame, PushDecode, PopFrameAck, AttachBuffer,
       GraphDone, Destroy, PushAbort, DrainAcks, JoinThread
  <2>2. Running => CountInv(m)
    BY DEF CountsInv
  <2>3. CASE StartThread
    <3>1. Running /\ CountInv(m)
      BY <2>2, <2>3 DEF Running, StartThread
    <3>2. pc[cur] = "unstarted" /\ app = "start" /\ outputFrameCount = 0
      BY <2>3, <1>0 DEF StartThread, CallInv
    <3>3. /\ app' = "start" => cur' = cur + 1
          /\ app' # "start" => app' = "startAck" /\ cur' = 1 /\ cur = MediaCount
          /\ outputFrameCount' = outputFrameCount /\ queueAck' = queueAck
      BY <2>3, <1>0 DEF StartThread, NextMedia, queues
    <3>4. CASE m = cur
      <4>1. pc'[m] = "loop" /\ queueCmd'[m] = InitialCommands
        BY <3>4, <2>3, <1>0 DEF StartThread, At
      <4>2. Len(InitialCommands) = PoolSize - 1
        <5>1. PoolSize - 1 \in Nat
          BY <1>0
        <5> QED BY <5>1 DEF InitialCommands
      <4>3. queueAck[m] = <<>> /\ decodeFrameCount[m] = 0
        BY <3>1, <3>2, <3>4, <1>0 DEF CountInv
      <4>4. Len(queueAck'[m]) = 0
        BY <4>3, <3>3
      <4>5. Pushed(m)' = PoolSize - 1 /\ Popped(m)' = 0 /\ Busy(m)' = 0 /\ Ended(m)' = 0
        BY <3>2, <3>3, <3>4, <4>1, <1>0 DEF Pushed, Popped, Busy, Ended, Working
      <4> QED BY <4>1, <4>2, <4>3, <4>4, <4>5, <3>3, <3>4, <2>1, <1>0 DEF CountInv
    <3>5. CASE m # cur
      <4>1. pc'[m] = pc[m] /\ queueCmd'[m] = queueCmd[m]
        BY <3>5, <2>3, <1>0 DEF StartThread, At
      <4>2. /\ Pushed(m)' = Pushed(m) /\ Popped(m)' = Popped(m) /\ Busy(m)' = Busy(m)
            /\ Ended(m)' = Ended(m)
        BY <3>2, <3>3, <3>5, <4>1, <1>0 DEF Pushed, Popped, Busy, Ended
      <4> QED BY <4>1, <4>2, <3>1, <3>2, <3>3, <3>5, <2>1, <1>0 DEF CountInv
    <3> QED BY <3>4, <3>5
  <2>4. CASE StartAck \/ PopFrameAck
    <3>1. Running /\ CountInv(m) /\ app \in {"startAck", "ack"}
      BY <2>2, <2>4 DEF Running, StartAck, PopFrameAck
    <3>2. /\ queueAck[cur] # <<>> /\ queueAck' = Pop(queueAck, cur) /\ NextMedia(IF app = "ack" THEN "output" ELSE "idle")
          /\ UNCHANGED <<outputFrameCount, queueCmd, pc>>
      BY <2>4 DEF Running, StartAck, PopFrameAck
    <3>3. /\ cur < MediaCount => app' = app /\ cur' = cur + 1
          /\ cur >= MediaCount => app' = (IF app = "ack" THEN "output" ELSE "idle") /\ cur' = 1 /\ cur = MediaCount
      BY <3>2, <1>0 DEF NextMedia
    <3>4. Pushed(m)' = Pushed(m) /\ Busy(m)' = Busy(m) /\ Ended(m)' = Ended(m)
      <4>1. CASE app = "startAck"
        <5>1. app' = "startAck" \/ app' = "idle"
          BY <4>1, <3>3, <1>0
        <5> QED BY <4>1, <5>1, <3>2 DEF Pushed, Busy, Ended
      <4>2. CASE app = "ack"
        <5>1. app' = "ack" \/ app' = "output"
          BY <4>2, <3>3, <1>0
        <5> QED BY <4>2, <5>1, <3>2 DEF Pushed, Busy, Ended
      <4> QED BY <4>1, <4>2, <3>1
    <3>5. app' # "start"
      BY <3>1, <3>3, <1>0
    <3>6. Popped(m)' + Len(queueAck'[m]) = Popped(m) + Len(queueAck[m])
      <4>1. CASE m = cur
        <5>1. queueAck'[m] = Tail(queueAck[m]) /\ queueAck[m] # <<>>
          BY <4>1, <3>2, <1>0 DEF Pop
        <5>2. Len(queueAck'[m]) = Len(queueAck[m]) - 1
          BY <5>1, <1>0
        <5>3. Popped(m)' = Popped(m) + 1
          <6>1. CASE app = "startAck"
            <7>1. CallInv
              OBVIOUS
            <7> QED BY <4>1, <6>1, <7>1, <3>2, <3>3, <1>0 DEF Popped, CallInv
          <6>2. CASE app = "ack"
            BY <4>1, <6>2, <3>2, <3>3, <1>0 DEF Popped
          <6> QED BY <6>1, <6>2, <3>1
        <5>4. Popped(m) \in Int /\ Len(queueAck[m]) \in Nat
          BY <1>0 DEF Popped
        <5> QED BY <5>2, <5>3, <5>4
      <4>2. CASE m # cur
        <5>1. queueAck'[m] = queueAck[m]
          BY <4>2, <3>2, <1>0 DEF Pop
        <5>2. Popped(m)' = Popped(m)
          BY <4>2, <3>1, <3>2, <3>3, <1>0 DEF Popped
        <5> QED BY <5>1, <5>2
      <4> QED BY <4>1, <4>2
    <3> QED BY <3>1, <3>2, <3>4, <3>5, <3>6, <2>1 DEF CountInv
  <2>5. CASE PushDecode
    <3>1. Running /\ CountInv(m) /\ app = "push"
      BY <2>2, <2>5 DEF Running, PushDecode
    <3>2. /\ queueCmd' = Push(queueCmd, cur, Decode)
          /\ UNCHANGED <<outputFrameCount, queueAck, pc>>
      BY <2>5 DEF PushDecode
    <3>3. /\ cur < MediaCount => app' = "push" /\ cur' = cur + 1
          /\ cur >= MediaCount => app' = "ack" /\ cur' = 1 /\ cur = MediaCount
      BY <2>5, <1>0 DEF PushDecode, NextMedia
    <3>4. Popped(m)' = Popped(m) /\ Busy(m)' = Busy(m) /\ Ended(m)' = Ended(m) /\ app' # "start"
      BY <3>1, <3>2, <3>3, <1>0 DEF Popped, Busy, Ended
    <3>5. Pushed(m) - Len(queueCmd[m]) = Pushed(m)' - Len(queueCmd'[m])
      <4>1. CASE m = cur
        <5>1. queueCmd'[m] = Append(queueCmd[m], Decode)
          BY <4>1, <3>2, <1>0 DEF Push
        <5>2. Len(queueCmd'[m]) = Len(queueCmd[m]) + 1
          BY <5>1, <1>0
        <5> QED BY <4>1, <5>2, <3>1, <3>2, <3>3, <1>0 DEF Pushed
      <4>2. CASE m # cur
        <5>1. queueCmd'[m] = queueCmd[m]
          BY <4>2, <3>2, <1>0 DEF Push
        <5> QED BY <4>2, <5>1, <3>1, <3>2, <3>3, <1>0 DEF Pushed
      <4> QED BY <4>1, <4>2
    <3>6. Busy(m) \in Int /\ Pushed(m) \in Int /\ Pushed(m)' \in Int /\ Len(queueCmd'[m]) \in Int
      <4>1. Pushed(m)' = PoolSize - 1 + outputFrameCount + (IF app' \in {"ack", "output"} \/ (app' = "push" /\ m < cur') THEN 1 ELSE 0)
        BY <3>2, <3>4 DEF Pushed
      <4>2. queueCmd'[m] = Append(queueCmd[m], Decode) \/ queueCmd'[m] = queueCmd[m]
        BY <3>2, <1>0 DEF Push
      <4> QED BY <4>1, <4>2, <1>0 DEF Busy, Pushed
    <3>7. decodeFrameCount'[m] + Busy(m)' + Len(queueCmd'[m]) <= Pushed(m)'
      BY <3>1, <3>4, <3>5, <3>6, <2>1, <1>0 DEF CountInv
    <3> QED BY <3>1, <3>2, <3>4, <3>7, <2>1 DEF CountInv
  <2>6. CASE AttachBuffer /\ app' = "graph"
    <3>1. Running /\ CountInv(m) /\ app = "output" /\ app' = "graph"
          /\ outputFrameCount' = outputFrameCount + 1 /\ UNCHANGED <<queueCmd, queueAck, pc>>
      BY <2>2, <2>6 DEF Running, AttachBuffer, queues
    <3>2. /\ Pushed(m)' = Pushed(m) /\ Popped(m)' = Popped(m) /\ Busy(m)' = Busy(m)
          /\ Ended(m)' = Ended(m)
      BY <3>1, <1>0 DEF Pushed, Popped, Busy, Ended
    <3> QED BY <3>1, <3>2, <2>1 DEF CountInv
  <2>7. CASE ProcessFrame \/ GraphDone
    <3>1. Running /\ CountInv(m) /\ app \in {"idle", "graph"} /\ app' \in {"push", "idle"}
          /\ UNCHANGED <<outputFrameCount, cur, queueCmd, queueAck, pc>>
      BY <2>2, <2>7 DEF Running, ProcessFrame, GraphDone, queues
    <3>2. app' = "push" => cur = 1
      BY <2>7 DEF ProcessFrame, GraphDone, CallInv, Running
    <3>3. /\ Pushed(m)' = Pushed(m) /\ Popped(m)' = Popped(m) /\ Busy(m)' = Busy(m)
          /\ Ended(m)' = Ended(m)
      BY <3>1, <3>2, <1>0 DEF Pushed, Popped, Busy, Ended
    <3> QED BY <3>1, <3>3, <2>1 DEF CountInv
  <2>8. CASE (AttachBuffer /\ app' # "graph") \/ Destroy \/ PushAbort \/ DrainAcks \/ JoinThread
    BY <2>8, <1>0 DEF Running, AttachBuffer, Destroy, PushAbort, DrainAcks, JoinThread
  <2> QED BY <2>3, <2>4, <2>5, <2>6, <2>7, <2>8 DEF Application
<1> QED BY <1>1, <1>2, <1>3

\* The image of an executed graph holds the pictures of its number.
LEMMA LentHoldsPicture ==
    ASSUME DecoderAssumption, IInv, ~CallAgain, app = "graph", NEW m \in Media
    PROVE  /\ outputFrameCount \in Nat /\ outputFrameCount >= 1
           /\ decodeFrameCount[m] \in Nat /\ decodeFrameCount[m] >= outputFrameCount
           /\ decodeFrameCount[m] + Busy(m) <= outputFrameCount - 1 + PoolSize
           /\ buffer[Lent][m] = outputFrameCount
<1>1. /\ PoolSize \in Nat /\ outputFrameCount \in Nat /\ decodeFrameCount[m] \in Nat
      /\ Len(queueCmd[m]) \in Nat /\ Len(queueAck[m]) \in Nat
  BY DEF DecoderAssumption, IInv, TypeOK
<1>2. outputFrameCount >= 1
  BY DEF IInv, ShownInv
<1>3. CountInv(m)
  BY DEF IInv, CountsInv, Running
<1>4. /\ Pushed(m) = PoolSize - 1 + outputFrameCount
      /\ Popped(m) = outputFrameCount + 1
  BY <1>1 DEF Pushed, Popped
<1>5. decodeFrameCount[m] >= outputFrameCount
  <2>1. (outputFrameCount + 1) + Len(queueAck[m]) = decodeFrameCount[m] + Ended(m)
    BY <1>3, <1>4 DEF CountInv
  <2>2. Ended(m) \in {0, 1}
    BY DEF Ended
  <2> QED BY ONLY <2>1, <2>2, <1>1, <1>4, TakenExceeds, Zenon
<1>6. decodeFrameCount[m] + Busy(m) <= outputFrameCount - 1 + PoolSize
  BY <1>1, <1>3, <1>4 DEF CountInv, Busy
<1>7. decodeFrameCount[m] <= outputFrameCount - 1 + PoolSize
  BY <1>1, <1>6 DEF Busy
<1>8. buffer[(outputFrameCount - 1) % PoolSize][m] = (outputFrameCount - 1) + 1
  <2>1. outputFrameCount - 1 \in Nat /\ outputFrameCount - 1 < decodeFrameCount[m]
        /\ decodeFrameCount[m] <= (outputFrameCount - 1) + PoolSize
    BY <1>1, <1>2, <1>5, <1>7
  <2> QED BY <2>1 DEF IInv, PoolInv
<1> QED BY <1>1, <1>2, <1>5, <1>6, <1>8 DEF Lent

\* The application shows the pictures in step.
LEMMA ApplicationShows ==
    ASSUME DecoderAssumption, IInv, Application
    PROVE  ShownInv'
<1> SUFFICES ASSUME ~CallAgain
             PROVE  /\ PicturesInSync'
                    /\ Running' => Len(shown') = outputFrameCount' - (IF app' = "graph" THEN 1 ELSE 0)
                    /\ app' = "graph" => outputFrameCount' >= 1
  BY DEF ShownInv
<1>1. /\ outputFrameCount \in Nat /\ shown \in Seq([Media -> Nat])
      /\ PicturesInSync
      /\ app = "graph" => outputFrameCount >= 1
      /\ Running => Len(shown) = outputFrameCount - (IF app = "graph" THEN 1 ELSE 0)
  <2>1. outputFrameCount \in Nat /\ shown \in Seq([Media -> Nat])
    BY DEF IInv, TypeOK, DecoderAssumption
  <2> QED BY <2>1 DEF IInv, ShownInv
<1>2. CASE GraphDone
  <2>1. /\ app = "graph" /\ app' = "idle" /\ shown' = Append(shown, buffer[Lent])
        /\ outputFrameCount' = outputFrameCount
    BY <1>2 DEF GraphDone
  <2>2. Len(shown) = outputFrameCount - 1 /\ outputFrameCount >= 1
    BY <2>1, <1>1 DEF Running
  <2>3. buffer[Lent] = [m \in Media |-> outputFrameCount]
    <3>1. Lent \in Pool
      <4>1. outputFrameCount - 1 \in Nat
        BY <2>2, <1>1
      <4> QED BY <4>1, RemainderInPool DEF Lent
    <3>2. buffer[Lent] \in [Media -> Nat]
      BY <3>1 DEF IInv, TypeOK
    <3>3. \A m \in Media : buffer[Lent][m] = outputFrameCount
      BY <2>1, LentHoldsPicture
    <3> QED BY <3>2, <3>3
  <2>4. Len(shown') = outputFrameCount /\ shown'[outputFrameCount] = buffer[Lent]
        /\ \A i \in 1..Len(shown) : shown'[i] = shown[i]
    <3>1. shown \in Seq([Media -> Nat]) /\ shown' = Append(shown, buffer[Lent])
      BY <1>1, <2>1
    <3>2. Len(shown') = Len(shown) + 1 /\ shown'[Len(shown) + 1] = buffer[Lent]
          /\ \A i \in 1..Len(shown) : shown'[i] = shown[i]
      BY <3>1
    <3>3. Len(shown) + 1 = outputFrameCount
      BY <2>2, <1>1
    <3> QED BY <3>2, <3>3
  <2>5. DOMAIN shown' = 1..outputFrameCount /\ DOMAIN shown = 1..Len(shown)
    <3>1. shown' \in Seq([Media -> Nat])
      BY ApplicationTyped DEF IInv, TypeOK
    <3> QED BY <3>1, <2>4, <1>1
  <2>6. PicturesInSync'
    <3> SUFFICES ASSUME NEW i \in 1..outputFrameCount PROVE shown'[i] = [m \in Media |-> i]
      BY <2>5 DEF PicturesInSync
    <3>1. CASE i = outputFrameCount
      BY <3>1, <2>3, <2>4
    <3>2. CASE i # outputFrameCount
      <4>1. i \in 1..Len(shown)
        BY <3>2, <2>2, <1>1
      <4> QED BY <4>1, <2>4, <2>5, <1>1 DEF PicturesInSync
    <3> QED BY <3>1, <3>2
  <2> QED BY <2>1, <2>4, <2>6, <1>1
<1>3. CASE AttachBuffer
  BY <1>1, <1>3 DEF AttachBuffer, PicturesInSync, Running
<1>4. CASE StartThread \/ StartAck \/ PushDecode \/ PopFrameAck
  <2>1. UNCHANGED <<shown, outputFrameCount>>
    BY <1>4 DEF StartThread, StartAck, PushDecode, PopFrameAck
  <2>2. Running /\ app # "graph" /\ app' # "graph"
    BY <1>4 DEF StartThread, StartAck, PushDecode, PopFrameAck, NextMedia, Running
  <2> QED BY <2>1, <2>2, <1>1 DEF PicturesInSync
<1>5. CASE ProcessFrame
  BY <1>1, <1>5 DEF ProcessFrame, PicturesInSync, Running
<1>6. CASE Destroy \/ PushAbort \/ DrainAcks \/ JoinThread
  BY <1>1, <1>6 DEF Destroy, PushAbort, DrainAcks, JoinThread, PicturesInSync, Running
<1> QED BY <1>2, <1>3, <1>4, <1>5, <1>6 DEF Application

-------------------------------------------------------------------------------
(***************************************************************************)
(* The decoder threads' steps.                                             *)
(***************************************************************************)
\* A step of the thread of t leaves the other files and the graph thread alone.
LEMMA ThreadLocal ==
    ASSUME TypeOK, NEW t \in Media, DecodeLoop(t), NEW m \in Media, m # t
    PROVE  /\ pc'[m] = pc[m] /\ queueCmd'[m] = queueCmd[m] /\ queueAck'[m] = queueAck[m]
           /\ decodeFrameCount'[m] = decodeFrameCount[m] /\ pictures'[m] = pictures[m]
           /\ \A b \in Pool : buffer'[b][m] = buffer[b][m]
<1>1. /\ queueCmd' = queueCmd \/ queueCmd' = Pop(queueCmd, t)
      /\ queueAck' = queueAck \/ \E x \in {Good, Bad} : queueAck' = Push(queueAck, t, x)
      /\ decodeFrameCount' = decodeFrameCount
            \/ decodeFrameCount' = At(decodeFrameCount, t, decodeFrameCount[t] + 1)
      /\ pictures' = pictures \/ pictures' = At(pictures, t, pictures[t] + 1)
      /\ buffer' = buffer \/ buffer' = [buffer EXCEPT ![Target(t)][t] = pictures[t]]
  BY DEF DecodeLoop, LoopTest, PopCommand, ReadPacket, LoadEof, StoreEof, DecodePacket,
     DecodeFlush, WriteSlice, LastAck, threadVars, fileVars, queues
<1>2. pc'[m] = pc[m]
  BY DEF TypeOK, DecodeLoop, LoopTest, PopCommand, ReadPacket, LoadEof, StoreEof, DecodePacket,
     DecodeFlush, WriteSlice, LastAck, At
<1>3. /\ DOMAIN queueCmd = Media /\ DOMAIN queueAck = Media /\ DOMAIN decodeFrameCount = Media
      /\ DOMAIN pictures = Media /\ buffer \in [Pool -> [Media -> Nat]]
  BY DEF TypeOK
<1>4. queueCmd'[m] = queueCmd[m] /\ queueAck'[m] = queueAck[m]
  BY <1>1, <1>3 DEF Pop, Push
<1>5. decodeFrameCount'[m] = decodeFrameCount[m] /\ pictures'[m] = pictures[m]
  BY <1>1, <1>3 DEF At
<1>6. \A b \in Pool : buffer'[b][m] = buffer[b][m]
  BY <1>1, <1>3
<1> QED BY <1>2, <1>4, <1>5, <1>6

\* What it does to its own counts: a picture for the command, an acknowledgement for
\* the picture.
LEMMA ThreadCounts ==
    ASSUME TypeOK, NEW t \in Media, DecodeLoop(t)
    PROVE  /\ pc[t] # "unstarted" /\ pc'[t] # "unstarted"
           /\ decodeFrameCount'[t] + Busy(t)' + Len(queueCmd'[t])
                <= decodeFrameCount[t] + Busy(t) + Len(queueCmd[t])
           /\ \E k \in {0, 1} : /\ Len(queueAck'[t]) = Len(queueAck[t]) + k
                                 /\ decodeFrameCount'[t] + Ended(t)' = (decodeFrameCount[t] + Ended(t)) + k
<1>1. /\ DOMAIN pc = Media /\ DOMAIN queueCmd = Media /\ DOMAIN queueAck = Media
      /\ queueCmd[t] \in Seq({Decode, Abort}) /\ queueAck[t] \in Seq({Good, Bad})
      /\ decodeFrameCount \in [Media -> Nat]
      /\ Len(queueCmd[t]) \in Nat /\ Len(queueAck[t]) \in Nat
  BY DEF TypeOK
<1>2. pc[t] # "unstarted" /\ pc'[t] # "unstarted"
  BY <1>1 DEF DecodeLoop, LoopTest, PopCommand, ReadPacket, LoadEof, StoreEof, DecodePacket,
     DecodeFlush, WriteSlice, LastAck, At, EofPcs
<1>3. CASE LoopTest(t) \/ ReadPacket(t) \/ LoadEof(t) \/ StoreEof(t) \/ DecodePacket(t)
           \/ DecodeFlush(t)
  <2>1. UNCHANGED <<decodeFrameCount, queueCmd, queueAck>>
    BY <1>3 DEF LoopTest, ReadPacket, LoadEof, StoreEof, DecodePacket, DecodeFlush, threadVars,
       queues
  <2>2. pc[t] # "ended" /\ pc'[t] # "ended" /\ (pc'[t] \in Working => pc[t] \in Working)
    BY <1>1, <1>3 DEF LoopTest, ReadPacket, LoadEof, StoreEof, DecodePacket, DecodeFlush, At,
       EofPcs, Working
  <2> QED BY <2>1, <2>2, <1>1, <1>2 DEF Busy, Ended
<1>4. CASE PopCommand(t)
  <2>1. /\ UNCHANGED <<decodeFrameCount, queueAck>> /\ queueCmd'[t] = Tail(queueCmd[t])
        /\ queueCmd[t] # <<>> /\ pc[t] = "command" /\ pc'[t] \in {"final", "read"}
    BY <1>1, <1>4 DEF PopCommand, threadVars, Pop, At
  <2>2. Len(queueCmd'[t]) = Len(queueCmd[t]) - 1
    BY <2>1, <1>1
  <2> QED BY <2>1, <2>2, <1>1, <1>2 DEF Busy, Ended, Working
<1>5. CASE WriteSlice(t)
  <2>1. /\ decodeFrameCount'[t] = decodeFrameCount[t] + 1 /\ UNCHANGED queueCmd
        /\ queueAck'[t] = Append(queueAck[t], Good) /\ pc[t] = "write" /\ pc'[t] = "loop"
    BY <1>1, <1>5 DEF WriteSlice, Push, At
  <2>2. Len(queueAck'[t]) = Len(queueAck[t]) + 1
    BY <2>1, <1>1
  <2> QED BY <2>1, <2>2, <1>1, <1>2 DEF Busy, Ended, Working
<1>6. CASE LastAck(t)
  <2>1. /\ UNCHANGED <<decodeFrameCount, queueCmd>> /\ queueAck'[t] = Append(queueAck[t], Bad)
        /\ pc[t] = "lastAck" /\ pc'[t] = "ended"
    BY <1>1, <1>6 DEF LastAck, threadVars, Push, At
  <2>2. Len(queueAck'[t]) = Len(queueAck[t]) + 1
    BY <2>1, <1>1
  <2> QED BY <2>1, <2>2, <1>1, <1>2 DEF Busy, Ended, Working
<1> QED BY <1>3, <1>4, <1>5, <1>6 DEF DecodeLoop

\* Its pictures go to their places, over those that are PoolSize older.
LEMMA ThreadPool ==
    ASSUME DecoderAssumption, TypeOK, PoolInv, NEW t \in Media, DecodeLoop(t)
    PROVE  PoolInv'
<1>0. /\ PoolSize \in Nat \ {0} /\ decodeFrameCount \in [Media -> Nat] /\ DOMAIN pc = Media
      /\ DOMAIN pictures = Media /\ pictures[t] \in Nat /\ buffer \in [Pool -> [Media -> Nat]]
  BY DEF DecoderAssumption, TypeOK
<1> SUFFICES ASSUME NEW m \in Media
             PROVE  /\ pictures'[m] = decodeFrameCount'[m] + (IF pc'[m] = "write" THEN 1 ELSE 0)
                    /\ \A i \in Nat : i < decodeFrameCount'[m] /\ decodeFrameCount'[m] <= i + PoolSize
                                        => buffer'[i % PoolSize][m] = i + 1
  BY DEF PoolInv
<1>1. /\ pictures[m] = decodeFrameCount[m] + (IF pc[m] = "write" THEN 1 ELSE 0)
      /\ \A i \in Nat : i < decodeFrameCount[m] /\ decodeFrameCount[m] <= i + PoolSize
                          => buffer[i % PoolSize][m] = i + 1
  BY DEF PoolInv
<1>2. CASE m # t
  <2>1. \A i \in Nat : buffer'[i % PoolSize][m] = buffer[i % PoolSize][m]
    BY <1>2, ThreadLocal, RemainderInPool
  <2> QED BY <2>1, <1>1, <1>2, ThreadLocal
<1>3. CASE m = t /\ WriteSlice(t)
  <2>1. /\ pc[t] = "write" /\ pc'[t] = "loop" /\ pictures' = pictures
        /\ decodeFrameCount'[t] = decodeFrameCount[t] + 1
        /\ buffer' = [buffer EXCEPT ![Target(t)][t] = pictures[t]]
    BY <1>0, <1>3 DEF WriteSlice, At, fileVars
  <2>2. pictures[t] = decodeFrameCount[t] + 1
    BY <2>1, <1>1, <1>3
  <2>3. Target(t) \in Pool
    BY <1>0, RemainderInPool DEF Target
  <2>4. SUFFICES ASSUME NEW i \in Nat, i < decodeFrameCount[t] + 1,
                        decodeFrameCount[t] + 1 <= i + PoolSize
                 PROVE  buffer'[i % PoolSize][t] = i + 1
    <3>1. pictures'[t] = decodeFrameCount'[t] + (IF pc'[t] = "write" THEN 1 ELSE 0)
      BY <2>1, <2>2, <1>0
    <3> QED BY <3>1, <2>1, <1>3
  <2>5. CASE i = decodeFrameCount[t]
    BY <2>1, <2>2, <2>3, <2>5, <1>0 DEF Target
  <2>6. CASE i # decodeFrameCount[t]
    <3>1. decodeFrameCount[t] \in Nat /\ i < decodeFrameCount[t] /\ decodeFrameCount[t] < i + PoolSize
          /\ decodeFrameCount[t] <= i + PoolSize
      <4>1. decodeFrameCount[t] \in Nat /\ PoolSize \in Nat
        BY <1>0
      <4> QED BY <4>1, <2>4, <2>6
    <3>2. i % PoolSize # Target(t)
      BY <3>1, <1>0, RemaindersDiffer DEF Target
    <3>3. buffer'[i % PoolSize][t] = buffer[i % PoolSize][t]
      BY <3>2, <2>1, <2>3, <1>0, RemainderInPool
    <3> QED BY <3>1, <3>3, <1>1, <1>3
  <2> QED BY <2>5, <2>6
<1>4. CASE m = t /\ ~WriteSlice(t)
  <2>1. UNCHANGED <<decodeFrameCount, buffer>>
    BY <1>4 DEF DecodeLoop, LoopTest, PopCommand, ReadPacket, LoadEof, StoreEof, DecodePacket,
       DecodeFlush, LastAck, threadVars
  <2>2. pc[t] # "write"
    BY <1>4 DEF DecodeLoop, LoopTest, PopCommand, ReadPacket, LoadEof, StoreEof, DecodePacket,
       DecodeFlush, LastAck, EofPcs
  <2>3. pictures'[t] = pictures[t] + (IF pc'[t] = "write" THEN 1 ELSE 0)
    <3>1. CASE DecodePacket(t) \/ DecodeFlush(t)
      BY <3>1, <1>0 DEF DecodePacket, DecodeFlush, At
    <3>2. CASE LoopTest(t) \/ PopCommand(t) \/ ReadPacket(t) \/ LoadEof(t) \/ StoreEof(t) \/ LastAck(t)
      <4>1. pictures' = pictures
        BY <3>2 DEF LoopTest, PopCommand, ReadPacket, LoadEof, StoreEof, LastAck, fileVars
      <4>2. pc'[t] # "write"
        BY <3>2, <1>0 DEF LoopTest, PopCommand, ReadPacket, LoadEof, StoreEof, LastAck, At, EofPcs
      <4> QED BY <4>1, <4>2, <1>0
    <3> QED BY <3>1, <3>2, <1>4 DEF DecodeLoop
  <2> QED BY <2>1, <2>2, <2>3, <1>0, <1>1, <1>4
<1> QED BY <1>2, <1>3, <1>4

\* A decoder thread keeps the invariant.
LEMMA ThreadKeeps ==
    ASSUME DecoderAssumption, IInv, NEW t \in Media, DecodeLoop(t)
    PROVE  CallInv' /\ CountsInv' /\ PoolInv' /\ ShownInv'
<1>0. TypeOK /\ CallInv /\ CountsInv /\ PoolInv /\ ShownInv
  BY DEF IInv
<1>1. UNCHANGED <<app, cur, calls, shown, outputFrameCount>>
  BY DEF DecodeLoop, LoopTest, PopCommand, ReadPacket, LoadEof, StoreEof, DecodePacket, DecodeFlush,
     WriteSlice, LastAck, threadVars, appVars
<1>2. CallInv'
  <2>1. app = "start" => \A m \in Media : m >= cur => pc'[m] = "unstarted"
    BY <1>0, ThreadCounts, ThreadLocal DEF CallInv
  <2> QED BY <2>1, <1>0, <1>1 DEF CallInv
<1>3. CountsInv'
  <2> SUFFICES ASSUME ~CallAgain, Running', NEW m \in Media PROVE CountInv(m)'
    BY DEF CountsInv
  <2>1. CountInv(m)
    BY <1>0, <1>1 DEF CountsInv, Running
  <2>2. Pushed(m)' = Pushed(m) /\ Popped(m)' = Popped(m)
    BY <1>1 DEF Pushed, Popped
  <2>3. CASE m # t
    <3>1. Busy(m)' = Busy(m) /\ Ended(m)' = Ended(m)
      BY <2>3, <1>0, ThreadLocal DEF Busy, Ended
    <3>2. /\ pc'[m] = pc[m] /\ queueCmd'[m] = queueCmd[m] /\ queueAck'[m] = queueAck[m]
          /\ decodeFrameCount'[m] = decodeFrameCount[m]
      BY <2>3, <1>0, ThreadLocal
    <3> QED BY <3>1, <3>2, <2>1, <2>2, <1>1 DEF CountInv
  <2>4. CASE m = t
    <3>1. ~(app = "start" /\ t >= cur)
      BY <1>0, ThreadCounts DEF CallInv
    <3>2. /\ decodeFrameCount[t] \in Nat /\ decodeFrameCount'[t] \in Nat
          /\ Len(queueCmd[t]) \in Nat /\ Len(queueCmd'[t]) \in Nat
          /\ Len(queueAck[t]) \in Nat /\ Len(queueAck'[t]) \in Nat
      <4>1. TypeOK'
        BY <1>0, ThreadTyped
      <4>2. /\ decodeFrameCount[t] \in Nat /\ queueCmd[t] \in Seq({Decode, Abort})
            /\ queueAck[t] \in Seq({Good, Bad})
        BY <1>0 DEF TypeOK
      <4>3. /\ decodeFrameCount'[t] \in Nat /\ queueCmd'[t] \in Seq({Decode, Abort})
            /\ queueAck'[t] \in Seq({Good, Bad})
        BY <4>1 DEF TypeOK
      <4> QED BY <4>2, <4>3
    <3>3. /\ Busy(t) \in Nat /\ Busy(t)' \in Nat /\ Ended(t) \in Nat /\ Ended(t)' \in Nat
      BY DEF Busy, Ended
    <3>4. /\ PoolSize \in Int /\ outputFrameCount \in Int
      BY <1>0 DEF DecoderAssumption, TypeOK
    <3>5. Pushed(t) \in Int /\ Popped(t) \in Int
      BY <3>4 DEF Pushed, Popped
    <3>6. /\ decodeFrameCount[t] + Busy(t) + Len(queueCmd[t]) <= Pushed(t)
          /\ Popped(t) + Len(queueAck[t]) = decodeFrameCount[t] + Ended(t)
      BY <2>1, <2>4 DEF CountInv
    <3>10. /\ decodeFrameCount'[t] + Busy(t)' + Len(queueCmd'[t])
                <= decodeFrameCount[t] + Busy(t) + Len(queueCmd[t])
           /\ \E k \in {0, 1} : /\ Len(queueAck'[t]) = Len(queueAck[t]) + k
                                 /\ decodeFrameCount'[t] + Ended(t)' = (decodeFrameCount[t] + Ended(t)) + k
      BY <1>0, ThreadCounts
    <3>7. decodeFrameCount'[t] + Busy(t)' + Len(queueCmd'[t]) <= Pushed(t)'
      <4>1. decodeFrameCount'[t] + Busy(t)' + Len(queueCmd'[t]) <= Pushed(t)
        BY ONLY <3>2, <3>3, <3>5, <3>6, <3>10, BoundKept, Zenon
      <4> QED BY <4>1, <2>2, <2>4
    <3>8. Popped(t)' + Len(queueAck'[t]) = decodeFrameCount'[t] + Ended(t)'
      <4>1. Popped(t) + Len(queueAck'[t]) = decodeFrameCount'[t] + Ended(t)'
        <5>1. PICK k \in {0, 1} :
                 /\ Len(queueAck'[t]) = Len(queueAck[t]) + k
                 /\ decodeFrameCount'[t] + Ended(t)' = (decodeFrameCount[t] + Ended(t)) + k
          BY <3>10
        <5>2. Popped(t) + (Len(queueAck[t]) + k) = (Popped(t) + Len(queueAck[t])) + k
          <6>1. Popped(t) \in Int /\ Len(queueAck[t]) \in Int
            BY <3>2, <3>5
          <6> QED BY ONLY <6>1, Associated, Zenon
        <5> QED BY ONLY <5>1, <5>2, <3>6, Zenon
      <4> QED BY <4>1, <2>2, <2>4
    <3>9. pc'[t] # "unstarted"
      BY <1>0, ThreadCounts
    <3> QED BY <3>1, <3>7, <3>8, <3>9, <2>4, <1>1 DEF CountInv
  <2> QED BY <2>3, <2>4
<1>4. PoolInv'
  BY <1>0, ThreadPool
<1>5. ShownInv'
  BY <1>0, <1>1 DEF ShownInv, PicturesInSync, Running
<1> QED BY <1>2, <1>3, <1>4, <1>5

-------------------------------------------------------------------------------
(***************************************************************************)
(* What is lost at the end.                                                *)
(***************************************************************************)
\* A set of natural numbers has a least element.
LEMMA LeastExists ==
    ASSUME NEW S, S \subseteq Nat, S # {}
    PROVE  \E x \in S : \A y \in S : x <= y
<1>1. PICK x \in S : \A y \in S : <<y, x>> \notin OpToRel(<, Nat)
  BY NatLessThanWellFounded, WFMin
<1>2. \A y \in S : ~(y < x)
  BY <1>1 DEF OpToRel
<1> QED BY <1>2

\* The minimum of integers that are bounded below is no more than any of them.
LEMMA MinAtMost ==
    ASSUME NEW S, S \subseteq Int, \E b \in Int : \A x \in S : b <= x, NEW a \in S
    PROVE  Min(S) \in S /\ Min(S) <= a
<1> PICK b \in Int : \A x \in S : b <= x
  OBVIOUS
<1> DEFINE T == {x - b : x \in S}
<1>1. T \subseteq Nat /\ T # {}
  <2>1. \A x \in S : x \in Int /\ b <= x
    OBVIOUS
  <2>2. \A x \in S : x - b \in Nat
    BY <2>1
  <2>3. a - b \in T
    OBVIOUS
  <2> QED BY <2>2, <2>3
<1>2. PICK t \in T : \A u \in T : t <= u
  BY <1>1, LeastExists
<1>3. PICK x \in S : t = x - b
  OBVIOUS
<1>4. \A y \in S : x <= y
  <2> SUFFICES ASSUME NEW y \in S PROVE x <= y
    OBVIOUS
  <2>1. t <= y - b
    BY <1>2
  <2> QED BY <2>1, <1>3
<1>5. Min(S) \in S /\ \A y \in S : Min(S) <= y
  BY <1>4 DEF Min
<1> QED BY <1>5

\* What is left of a queue was in it.
LEMMA TailElements ==
    ASSUME NEW T, NEW s \in Seq(T), s # <<>>
    PROVE  \A i \in DOMAIN Tail(s) : i + 1 \in DOMAIN s /\ Tail(s)[i] = s[i + 1]
OBVIOUS

\* The files are as the constants say; Decodable is a number of their packets.
LEMMA FileTyped ==
    ASSUME DecoderAssumption, file \in FileSets, NEW m \in Media
    PROVE  /\ file[m].packets \in Nat /\ file[m].corrupt \in Nat /\ Delay(m) \in {0, 1}
           /\ Decodable(m) \in Int /\ -1 <= Decodable(m) /\ Decodable(m) <= file[m].packets
           /\ file[m].corrupt \in 1..file[m].packets =>
                Decodable(m) = file[m].corrupt - 1 - Delay(m)
<1>1. file[m] \in [packets : Nat, delayed : BOOLEAN, corrupt : Nat]
  BY DEF DecoderAssumption
<1> QED BY <1>1 DEF Delay, Decodable

\* Nothing is read, decoded or set at first.
LEMMA InitLost == ASSUME DecoderAssumption, Init PROVE LostInv
<1>1. file \in FileSets /\ ~(app = "abandoned")
  BY DEF Init
<1>2. ASSUME NEW m \in Media PROVE ReadInv(m) /\ EndInv(m)
  <2>1. /\ packets[m] = 0 /\ pictures[m] = 0 /\ pc[m] = "unstarted" /\ ~eof[m]
        /\ \A k \in Media : ~word[k][m]
        /\ queueCmd[m] = <<>> /\ queueAck[m] = <<>>
    BY DEF Init
  <2>2. ReadInv(m)
    BY <2>1, <1>1, FileTyped DEF ReadInv, Flushing
  <2>3. EndInv(m)
    BY <2>1 DEF EndInv, Ending, Flushing
  <2> QED BY <2>2, <2>3
<1> QED BY <1>1, <1>2 DEF LostInv, OnlyLookaheadLost

\* What a thread knows of its own file stays right in every step of it.
LEMMA ThreadReads ==
    ASSUME DecoderAssumption, TypeOK, file \in FileSets, NEW t \in Media, DecodeLoop(t), ReadInv(t)
    PROVE  file' = file /\ ReadInv(t)'
<1>0. /\ file' = file /\ packets[t] \in Nat /\ pictures[t] \in Nat
      /\ DOMAIN pc = Media /\ DOMAIN packets = Media /\ DOMAIN pictures = Media
      /\ file[t].packets \in Nat /\ file[t].corrupt \in Nat /\ Delay(t) \in {0, 1}
      /\ Delay(t)' = Delay(t)
  <2>1. file' = file
    BY DEF DecodeLoop, LoopTest, PopCommand, ReadPacket, LoadEof, StoreEof, DecodePacket, DecodeFlush,
       WriteSlice, LastAck, fileVars
  <2> QED BY <2>1, FileTyped DEF TypeOK, Delay
<1>1. CASE LoopTest(t) \/ PopCommand(t) \/ LoadEof(t) \/ StoreEof(t) \/ WriteSlice(t) \/ LastAck(t)
  <2>1. UNCHANGED <<packets, pictures>>
    BY <1>1 DEF LoopTest, PopCommand, LoadEof, StoreEof, WriteSlice, LastAck, fileVars
  <2>2. /\ pc[t] # "decode" /\ pc'[t] # "decode"
        /\ pc'[t] \in {"eofError", "storeError"} => pc[t] \in {"eofError", "storeError"}
        /\ pc'[t] \in Flushing => pc[t] \in Flushing
        /\ pc[t] \in {"decode", "eofError", "storeError", "lastAck", "ended"} =>
             pc'[t] \in {"decode", "eofError", "storeError", "lastAck", "ended"}
    <3>1. CASE LoadEof(t)
      BY <1>0, <3>1 DEF LoadEof, EofPcs, At, Flushing
    <3>2. CASE ~LoadEof(t)
      BY <1>0, <1>1, <3>2 DEF LoopTest, PopCommand, StoreEof, WriteSlice, LastAck, At, Flushing
    <3> QED BY <3>1, <3>2
  <2> QED BY <2>1, <2>2, <1>0 DEF ReadInv
<1>2. CASE ReadPacket(t)
  <2>1. pc[t] = "read" /\ pictures' = pictures
    BY <1>2 DEF ReadPacket
  <2>2. CASE packets[t] < file[t].packets
    <3>1. packets'[t] = packets[t] + 1 /\ pc'[t] = "decode"
      BY <1>2, <2>2, <1>0 DEF ReadPacket, At
    <3>2. packets[t] <= pictures[t] + Delay(t) \/ packets[t] = 0
      BY <2>1, <1>0 DEF ReadInv
    <3> QED BY <2>1, <2>2, <3>1, <3>2, <1>0 DEF ReadInv, Flushing
  <2>3. CASE ~(packets[t] < file[t].packets)
    <3>1. packets'[t] = packets[t] /\ pc'[t] = "eofRead"
      BY <1>2, <2>3, <1>0 DEF ReadPacket, At
    <3> QED BY <2>1, <2>3, <3>1, <1>0 DEF ReadInv, Flushing
  <2> QED BY <2>2, <2>3
<1>3. CASE DecodePacket(t)
  <2>1. pc[t] = "decode" /\ packets' = packets /\ packets[t] >= 1
    BY <1>3 DEF DecodePacket, ReadInv
  <2>2. CASE packets[t] = file[t].corrupt
    <3>1. pc'[t] = "eofError" /\ pictures' = pictures
      BY <1>3, <2>2, <1>0 DEF DecodePacket, At
    <3> QED BY <2>1, <2>2, <3>1, <1>0 DEF ReadInv, Flushing
  <2>3. CASE packets[t] # file[t].corrupt /\ file[t].delayed /\ packets[t] = 1
    <3>1. pc'[t] = "read" /\ pictures' = pictures
      BY <1>3, <2>3, <1>0 DEF DecodePacket, At
    <3>2. Delay(t) = 1
      BY <2>3 DEF Delay
    <3> QED BY <2>1, <2>3, <3>1, <3>2, <1>0 DEF ReadInv, Flushing
  <2>4. CASE packets[t] # file[t].corrupt /\ ~(file[t].delayed /\ packets[t] = 1)
    <3>1. pc'[t] = "write" /\ pictures'[t] = pictures[t] + 1
      BY <1>3, <2>4, <1>0 DEF DecodePacket, At
    <3> QED BY <2>1, <2>4, <3>1, <1>0 DEF ReadInv, Flushing
  <2> QED BY <2>2, <2>3, <2>4
<1>4. CASE DecodeFlush(t)
  <2>1. /\ pc[t] = "flush" /\ packets' = packets /\ pc'[t] \in {"write", "loop", "read"}
        /\ pictures'[t] = pictures[t] \/ pictures'[t] = pictures[t] + 1
    BY <1>4, <1>0 DEF DecodeFlush, At
  <2> QED BY <2>1, <1>0 DEF ReadInv, Flushing
<1> QED BY <1>0, <1>1, <1>2, <1>3, <1>4 DEF DecodeLoop

\* All pictures decoded stays so.
LEMMA ThreadDecoded ==
    ASSUME DecoderAssumption, TypeOK, file \in FileSets, NEW t \in Media, DecodeLoop(t), ReadInv(t),
           AllDecoded(t)
    PROVE  AllDecoded(t)'
<1>0. /\ file' = file /\ packets[t] \in Nat /\ pictures[t] \in Nat
      /\ DOMAIN pc = Media /\ DOMAIN packets = Media /\ DOMAIN pictures = Media
      /\ Decodable(t) \in Int /\ Decodable(t) <= file[t].packets
      /\ Decodable(t)' = Decodable(t) /\ file[t].packets \in Nat
  <2>1. file' = file
    BY ThreadReads
  <2> QED BY <2>1, FileTyped DEF TypeOK, Decodable
<1>1. CASE DecodeFlush(t)
  <2>1. CASE pictures[t] < packets[t]
    <3>1. pictures'[t] = pictures[t] + 1 /\ pc'[t] = "write"
      BY <1>0, <1>1, <2>1 DEF DecodeFlush, At
    <3> QED BY <3>1, <1>0 DEF AllDecoded, Flushing
  <2>2. CASE ~(pictures[t] < packets[t])
    <3>1. pictures'[t] = pictures[t] /\ pc'[t] \in {"loop", "read"} /\ pc[t] = "flush"
      BY <1>0, <1>1, <2>2 DEF DecodeFlush, At
    <3>2. packets[t] = file[t].packets
      BY <3>1 DEF ReadInv, Flushing
    <3> QED BY <3>1, <3>2, <2>2, <1>0 DEF AllDecoded, Flushing
  <2> QED BY <2>1, <2>2
<1>2. CASE LoopTest(t) \/ PopCommand(t) \/ ReadPacket(t) \/ LoadEof(t) \/ StoreEof(t)
           \/ DecodePacket(t) \/ WriteSlice(t) \/ LastAck(t)
  <2>1. pictures'[t] = pictures[t] \/ pictures'[t] = pictures[t] + 1
    BY <1>0, <1>2 DEF LoopTest, PopCommand, ReadPacket, LoadEof, StoreEof, DecodePacket, WriteSlice,
       LastAck, fileVars, At
  <2>2. pc[t] \in Flushing => pc'[t] \in Flushing
    <3>1. CASE LoadEof(t)
      BY <1>0, <3>1 DEF LoadEof, EofPcs, At, Flushing
    <3>2. CASE ~LoadEof(t)
      BY <1>0, <1>2, <3>2 DEF LoopTest, PopCommand, ReadPacket, StoreEof, DecodePacket, WriteSlice,
         LastAck, At, Flushing
    <3> QED BY <3>1, <3>2
  <2> QED BY <2>1, <2>2, <1>0 DEF AllDecoded
<1> QED BY <1>1, <1>2 DEF DecodeLoop

\* Nothing but the end of the file, a packet that cannot be decoded or the bit of eof makes
\* a thread end, or flush, before an abort.
LEMMA ThreadEnds ==
    ASSUME DecoderAssumption, TypeOK, file \in FileSets, NEW t \in Media, DecodeLoop(t), ReadInv(t),
           EndInv(t), pc'[t] \in Ending \cup Flushing
    PROVE  AllDecoded(t)'
<1>0. /\ file' = file /\ packets[t] \in Nat /\ pictures[t] \in Nat
      /\ DOMAIN pc = Media /\ DOMAIN packets = Media /\ DOMAIN pictures = Media
      /\ Decodable(t) \in Int /\ Decodable(t) <= file[t].packets
      /\ Decodable(t)' = Decodable(t) /\ file[t].packets \in Nat /\ file[t].corrupt \in Nat
      /\ Delay(t) \in {0, 1}
      /\ file[t].corrupt \in 1..file[t].packets => Decodable(t) = file[t].corrupt - 1 - Delay(t)
  <2>1. file' = file
    BY ThreadReads
  <2> QED BY <2>1, FileTyped DEF TypeOK, Decodable
<1>1. CASE AllDecoded(t)
  BY <1>1, ThreadDecoded
<1>2. CASE ~AllDecoded(t)
  <2>1. pc[t] \notin Ending \cup Flushing /\ ~eof[t]
    BY <1>2 DEF EndInv
  <2>2. CASE ReadPacket(t)
    <3>1. /\ pc'[t] = "eofRead" /\ pictures' = pictures /\ ~(packets[t] < file[t].packets)
          /\ pc[t] = "read"
      BY <2>2, <1>0 DEF ReadPacket, At, Ending, Flushing
    <3>2. packets[t] = file[t].packets /\ (packets[t] >= 1 => packets[t] # file[t].corrupt)
      BY <3>1, <1>0 DEF ReadInv
    <3>3. Decodable(t) <= pictures[t] + 1
      BY <3>1, <3>2, <1>0 DEF ReadInv
    <3> QED BY <3>1, <3>3, <1>0 DEF AllDecoded, Flushing
  <2>3. CASE DecodePacket(t)
    <3>1. /\ pc'[t] = "eofError" /\ pictures' = pictures /\ packets[t] = file[t].corrupt
          /\ packets[t] >= 1 /\ packets[t] <= file[t].packets
      BY <2>3, <1>0 DEF DecodePacket, At, Ending, Flushing, ReadInv
    <3>2. Decodable(t) = packets[t] - 1 - Delay(t)
      BY <3>1, <1>0
    <3>3. Decodable(t) <= pictures[t]
      BY <3>1, <3>2, <1>0 DEF ReadInv
    <3> QED BY <3>1, <3>3, <1>0 DEF AllDecoded, Flushing
  <2>4. CASE PopCommand(t)
    <3>1. queueCmd[t] # <<>> /\ queueCmd[t] \in Seq({Decode, Abort})
      BY <2>4 DEF PopCommand, TypeOK
    <3>2. Head(queueCmd[t]) = Decode
      BY <3>1 DEF EndInv
    <3>3. pc'[t] = "read"
      BY <3>2, <2>4, <1>0 DEF PopCommand, At, Decode, Abort
    <3> QED BY <3>3 DEF Ending, Flushing
  <2>5. CASE LoopTest(t) \/ LoadEof(t) \/ StoreEof(t) \/ DecodeFlush(t) \/ WriteSlice(t) \/ LastAck(t)
    BY <2>1, <2>5, <1>0 DEF LoopTest, LoadEof, StoreEof, DecodeFlush, WriteSlice, LastAck, At, EofPcs,
       Ending, Flushing
  <2> QED BY <2>2, <2>3, <2>4, <2>5 DEF DecodeLoop
<1> QED BY <1>1, <1>2

\* No step of a thread breaks what is known of the ends of the files.
LEMMA ThreadLoses ==
    ASSUME DecoderAssumption, TypeOK, LostInv, NEW t \in Media, DecodeLoop(t)
    PROVE  LostInv'
<1>0. /\ file \in FileSets /\ \A m \in Media : ReadInv(m)
      /\ UNCHANGED <<file, app, shown>>
  <2>1. UNCHANGED <<app, shown>>
    BY DEF DecodeLoop, LoopTest, PopCommand, ReadPacket, LoadEof, StoreEof, DecodePacket,
       DecodeFlush, WriteSlice, LastAck, threadVars, appVars
  <2> QED BY <2>1, ThreadReads DEF LostInv
<1>1. ASSUME NEW m \in Media, m # t
      PROVE  /\ pc'[m] = pc[m] /\ packets'[m] = packets[m] /\ pictures'[m] = pictures[m]
             /\ queueCmd'[m] = queueCmd[m] /\ queueAck'[m] = queueAck[m]
  <2>1. packets'[m] = packets[m]
    <3>1. packets' = packets \/ packets' = At(packets, t, packets[t] + 1)
      BY DEF DecodeLoop, LoopTest, PopCommand, ReadPacket, LoadEof, StoreEof, DecodePacket,
         DecodeFlush, WriteSlice, LastAck, fileVars
    <3> QED BY <3>1, <1>1 DEF TypeOK, At
  <2> QED BY <2>1, <1>1, ThreadLocal
<1>2. ASSUME NEW m \in Media PROVE ReadInv(m)'
  <2>1. CASE m = t
    BY <2>1, <1>0, ThreadReads
  <2>2. CASE m # t
    BY <2>2, <1>0, <1>1 DEF ReadInv, Delay
  <2> QED BY <2>1, <2>2
<1>3. ASSUME Running \/ app = "abandoned", NEW m \in Media PROVE EndInv(m)'
  <2>0. \A k \in Media : EndInv(k)
    BY <1>3 DEF LostInv
  <2>1. AllDecoded(m) => AllDecoded(m)'
    <3>1. CASE m = t
      BY <3>1, <1>0, ThreadDecoded
    <3>2. CASE m # t
      BY <3>2, <1>0, <1>1 DEF AllDecoded, Decodable
    <3> QED BY <3>1, <3>2
  <2>2. pc'[m] \in Ending \cup Flushing => AllDecoded(m)'
    <3>1. CASE m = t
      BY <3>1, <1>0, <2>0, ThreadEnds
    <3>2. CASE m # t
      BY <3>2, <2>0, <2>1, <1>1 DEF EndInv
    <3> QED BY <3>1, <3>2
  <2>3. eof'[m] => AllDecoded(m)'
    <3>1. CASE StoreEof(t)
      <4>1. eof' = At(word[t], t, TRUE) /\ pc'[t] \in Ending \cup Flushing
        BY <3>1 DEF StoreEof, At, TypeOK, Ending, Flushing
      <4>2. CASE m = t
        BY <4>1, <4>2, <2>2
      <4>3. CASE m # t
        <5>1. eof'[m] = word[t][m]
          BY <4>1, <4>3 DEF At, TypeOK
        <5> QED BY <5>1, <2>0, <2>1 DEF EndInv
      <4> QED BY <4>2, <4>3
    <3>2. CASE ~StoreEof(t)
      <4>1. eof' = eof
        BY <3>2 DEF DecodeLoop, LoopTest, PopCommand, ReadPacket, LoadEof, DecodePacket, DecodeFlush,
           WriteSlice, LastAck
      <4> QED BY <4>1, <2>0, <2>1 DEF EndInv
    <3> QED BY <3>1, <3>2
  <2>4. ASSUME NEW k \in Media, word'[k][m] PROVE AllDecoded(m)'
    <3>1. word' = word \/ word' = At(word, t, eof)
      BY DEF DecodeLoop, LoopTest, PopCommand, ReadPacket, LoadEof, StoreEof, DecodePacket,
         DecodeFlush, WriteSlice, LastAck
    <3>2. word'[k] = word[k] \/ word'[k] = eof
      BY <3>1 DEF At, TypeOK
    <3>3. word[k][m] \/ eof[m]
      BY <3>2, <2>4
    <3> QED BY <3>3, <2>0, <2>1 DEF EndInv
  <2>5. \A i \in DOMAIN queueCmd'[m] : queueCmd'[m][i] = Decode
    <3>1. queueCmd[m] \in Seq({Decode, Abort})
      BY DEF TypeOK
    <3>2. queueCmd'[m] = queueCmd[m] \/ (queueCmd[m] # <<>> /\ queueCmd'[m] = Tail(queueCmd[m]))
      BY DEF DecodeLoop, LoopTest, PopCommand, ReadPacket, LoadEof, StoreEof, DecodePacket,
         DecodeFlush, WriteSlice, LastAck, queues, Pop, TypeOK
    <3>3. \A i \in DOMAIN queueCmd[m] : queueCmd[m][i] = Decode
      BY <2>0 DEF EndInv
    <3>4. CASE queueCmd'[m] = queueCmd[m]
      BY <3>3, <3>4
    <3>5. CASE queueCmd[m] # <<>> /\ queueCmd'[m] = Tail(queueCmd[m])
      <4>1. \A i \in DOMAIN Tail(queueCmd[m]) :
               i + 1 \in DOMAIN queueCmd[m] /\ Tail(queueCmd[m])[i] = queueCmd[m][i + 1]
        BY <3>1, <3>5, TailElements
      <4> QED BY ONLY <4>1, <3>3, <3>5, Zenon
    <3> QED BY <3>2, <3>4, <3>5
  <2>6. \A i \in DOMAIN queueAck'[m] : queueAck'[m][i] = Bad => pc'[m] = "ended"
    <3>1. queueAck[m] \in Seq({Good, Bad})
      BY DEF TypeOK
    <3>2. CASE m # t
      BY <3>2, <2>0, <1>1 DEF EndInv
    <3>3. CASE m = t /\ LastAck(t)
      BY <3>3 DEF LastAck, At, TypeOK
    <3>4. CASE m = t /\ WriteSlice(t)
      <4>1. queueAck'[m] = Append(queueAck[m], Good) /\ pc[m] = "write"
        BY <3>4 DEF WriteSlice, Push, TypeOK
      <4>2. \A i \in DOMAIN queueAck[m] : queueAck[m][i] # Bad
        BY <4>1, <2>0 DEF EndInv
      <4>3. /\ DOMAIN queueAck'[m] = 1..(Len(queueAck[m]) + 1) /\ Len(queueAck[m]) \in Nat
            /\ DOMAIN queueAck[m] = 1..Len(queueAck[m])
            /\ \A i \in 1..Len(queueAck[m]) : queueAck'[m][i] = queueAck[m][i]
            /\ queueAck'[m][Len(queueAck[m]) + 1] = Good
        BY <4>1, <3>1
      <4>4. \A i \in DOMAIN queueAck'[m] : i \in DOMAIN queueAck[m] \/ queueAck'[m][i] = Good
        BY <4>3
      <4> QED BY <4>2, <4>3, <4>4 DEF Good, Bad
    <3>5. CASE m = t /\ ~LastAck(t) /\ ~WriteSlice(t)
      <4>1. queueAck' = queueAck /\ pc[m] # "ended"
        BY <3>5 DEF DecodeLoop, LoopTest, PopCommand, ReadPacket, LoadEof, StoreEof, DecodePacket,
           DecodeFlush, queues, EofPcs
      <4> QED BY <4>1, <2>0 DEF EndInv
    <3> QED BY <3>2, <3>3, <3>4, <3>5
  <2> QED BY <2>2, <2>3, <2>4, <2>5, <2>6 DEF EndInv
<1>4. ~CallAgain => OnlyLookaheadLost'
  BY <1>0 DEF LostInv, OnlyLookaheadLost, Decodable
<1> QED BY <1>0, <1>2, <1>3, <1>4 DEF LostInv, Running

\* The graph is abandoned with no more pictures decoded than there are buffers.
LEMMA AbandonedInTime ==
    ASSUME DecoderAssumption, IInv, LostInv, ~CallAgain, PopFrameAck, app' = "abandoned"
    PROVE  OnlyLookaheadLost'
<1>0. /\ app = "ack" /\ cur \in Media /\ queueAck[cur] \in Seq({Good, Bad}) /\ queueAck[cur] # <<>>
      /\ PoolSize \in Nat /\ outputFrameCount \in Nat /\ decodeFrameCount[cur] \in Nat
      /\ Len(queueCmd[cur]) \in Nat /\ pictures[cur] \in Nat
      /\ file \in FileSets /\ UNCHANGED <<file, shown>>
  BY DEF PopFrameAck, IInv, TypeOK, DecoderAssumption, LostInv, fileVars
<1>1. Head(queueAck[cur]) = Bad \/ eof[cur]
  <2>1. Head(queueAck[cur]) < 0 \/ eof[cur]
    <3>1. CASE ~(Head(queueAck[cur]) < 0 \/ eof[cur])
      BY <3>1, <1>0 DEF PopFrameAck, NextMedia
    <3> QED BY <3>1
  <2>2. Head(queueAck[cur]) \in {Good, Bad}
    BY <1>0
  <2> QED BY <2>1, <2>2 DEF Good, Bad
<1>2. EndInv(cur)
  BY <1>0 DEF LostInv, Running
<1>3. AllDecoded(cur)
  <2>1. CASE eof[cur]
    BY <2>1, <1>2 DEF EndInv
  <2>2. CASE Head(queueAck[cur]) = Bad
    <3>1. pc[cur] = "ended"
      BY <2>2, <1>0, <1>2 DEF EndInv
    <3> QED BY <3>1, <1>2 DEF EndInv, Ending
  <2> QED BY <2>1, <2>2, <1>1
<1>4. decodeFrameCount[cur] + Busy(cur) <= PoolSize + outputFrameCount
  <2>1. CountInv(cur)
    BY <1>0 DEF IInv, CountsInv, Running
  <2>2. Pushed(cur) = PoolSize - 1 + outputFrameCount + 1
    BY <1>0 DEF Pushed
  <2> QED BY <2>1, <2>2, <1>0 DEF CountInv, Busy
<1>5. Decodable(cur) <= decodeFrameCount[cur] + Busy(cur)
  <2>1. pictures[cur] = decodeFrameCount[cur] + (IF pc[cur] = "write" THEN 1 ELSE 0)
    BY <1>0 DEF IInv, PoolInv
  <2>2. Decodable(cur) \in Int
    BY <1>0, FileTyped
  <2> QED BY <2>1, <2>2, <1>0, <1>3 DEF AllDecoded, Busy, Flushing, Working
<1>6. Len(shown) = outputFrameCount
  BY <1>0 DEF IInv, ShownInv, Running
<1>7. Min({Decodable(m) : m \in Media}) \in Int /\ Min({Decodable(m) : m \in Media}) <= Decodable(cur)
  <2> DEFINE S == {Decodable(m) : m \in Media}
  <2>1. S \subseteq Int /\ \E b \in Int : \A x \in S : b <= x
    BY <1>0, FileTyped
  <2>2. Decodable(cur) \in S
    BY <1>0
  <2> HIDE DEF S
  <2>3. Min(S) \in S /\ Min(S) <= Decodable(cur)
    BY ONLY <2>1, <2>2, MinAtMost, Zenon
  <2>4. Min(S) \in Int
    BY <2>1, <2>3
  <2> QED BY <2>3, <2>4 DEF S
<1>8. Len(shown) + PoolSize >= Min({Decodable(m) : m \in Media})
  <2>1. Decodable(cur) \in Int /\ Busy(cur) \in Int
    BY <1>0, FileTyped DEF Busy
  <2> QED BY <2>1, <1>0, <1>4, <1>5, <1>6, <1>7
<1> QED BY <1>0, <1>8 DEF OnlyLookaheadLost, Decodable

\* Nor does the graph thread.
LEMMA ApplicationLoses ==
    ASSUME DecoderAssumption, IInv, LostInv, Application
    PROVE  LostInv'
<1>0. /\ UNCHANGED <<file, packets, pictures, eof, word>>
      /\ TypeOK /\ CallInv /\ cur \in Media
  BY DEF Application, StartThread, StartAck, ProcessFrame, PushDecode, PopFrameAck, AttachBuffer,
     GraphDone, Destroy, PushAbort, DrainAcks, JoinThread, fileVars, IInv, TypeOK
<1>1. ASSUME NEW m \in Media
      PROVE  pc'[m] = pc[m] \/ (pc[m] = "unstarted" /\ pc'[m] = "loop" /\ app = "start")
  <2>1. CASE StartThread
    BY <1>0, <2>1 DEF StartThread, CallInv, At, TypeOK, DecoderAssumption, Media
  <2>2. CASE ~StartThread
    BY <2>2 DEF Application, StartAck, ProcessFrame, PushDecode, PopFrameAck, AttachBuffer,
       GraphDone, Destroy, PushAbort, DrainAcks, JoinThread
  <2> QED BY <2>1, <2>2
<1>2. ASSUME NEW m \in Media PROVE ReadInv(m)'
  <2>1. ReadInv(m)
    BY DEF LostInv
  <2> QED BY <1>0, <1>1, <2>1 DEF ReadInv, Delay, Flushing
<1>3. ASSUME Running' \/ app' = "abandoned", NEW m \in Media PROVE EndInv(m)'
  <2>1. /\ Running \/ app = "abandoned"
        /\ ~PushAbort
    BY <1>3 DEF Application, StartThread, StartAck, ProcessFrame, PushDecode, PopFrameAck,
       AttachBuffer, GraphDone, Destroy, PushAbort, DrainAcks, JoinThread, Running, NextMedia
  <2>2. EndInv(m)
    BY <2>1 DEF LostInv
  <2>3. AllDecoded(m)' <=> AllDecoded(m)
    BY <1>0, <1>1 DEF AllDecoded, Decodable, Flushing
  <2>4. pc'[m] \in Ending \cup Flushing => pc[m] \in Ending \cup Flushing
    BY <1>1 DEF Ending, Flushing
  <2>5. \A i \in DOMAIN queueCmd'[m] : queueCmd'[m][i] = Decode
    <3>1. queueCmd[m] \in Seq({Decode, Abort})
      BY <1>0 DEF TypeOK
    <3>2. CASE StartThread
      <4>1. queueCmd'[m] = InitialCommands \/ queueCmd'[m] = queueCmd[m]
        BY <1>0, <3>2 DEF StartThread, At, TypeOK
      <4>2. \A i \in DOMAIN InitialCommands : InitialCommands[i] = Decode
        BY DEF InitialCommands
      <4> QED BY <4>1, <4>2, <2>2 DEF EndInv
    <3>3. CASE PushDecode
      <4>1. queueCmd'[m] = Append(queueCmd[m], Decode) \/ queueCmd'[m] = queueCmd[m]
        BY <1>0, <3>3 DEF PushDecode, Push, TypeOK
      <4>2. \A i \in DOMAIN Append(queueCmd[m], Decode) :
               \/ i \in DOMAIN queueCmd[m] /\ Append(queueCmd[m], Decode)[i] = queueCmd[m][i]
               \/ Append(queueCmd[m], Decode)[i] = Decode
        BY <3>1
      <4> QED BY <4>1, <4>2, <2>2 DEF EndInv
    <3>4. CASE ~StartThread /\ ~PushDecode
      <4>1. queueCmd' = queueCmd
        BY <3>4, <2>1 DEF Application, StartAck, ProcessFrame, PopFrameAck, AttachBuffer, GraphDone,
           Destroy, DrainAcks, JoinThread, queues
      <4> QED BY <4>1, <2>2 DEF EndInv
    <3> QED BY <3>2, <3>3, <3>4
  <2>6. \A i \in DOMAIN queueAck'[m] : queueAck'[m][i] = Bad => pc'[m] = "ended"
    <3>1. queueAck[m] \in Seq({Good, Bad})
      BY <1>0 DEF TypeOK
    <3>2. queueAck'[m] = queueAck[m] \/ (queueAck[m] # <<>> /\ queueAck'[m] = Tail(queueAck[m]))
      BY <1>0 DEF Application, StartThread, StartAck, ProcessFrame, PushDecode, PopFrameAck,
         AttachBuffer, GraphDone, Destroy, PushAbort, DrainAcks, JoinThread, queues, Pop, TypeOK
    <3>3. \A i \in DOMAIN queueAck[m] : queueAck[m][i] = Bad => pc'[m] = "ended"
      BY <1>1, <2>2 DEF EndInv
    <3>4. CASE queueAck'[m] = queueAck[m]
      BY <3>3, <3>4
    <3>5. CASE queueAck[m] # <<>> /\ queueAck'[m] = Tail(queueAck[m])
      <4>1. \A i \in DOMAIN Tail(queueAck[m]) :
               i + 1 \in DOMAIN queueAck[m] /\ Tail(queueAck[m])[i] = queueAck[m][i + 1]
        BY <3>1, <3>5, TailElements
      <4> QED BY ONLY <4>1, <3>3, <3>5, Zenon
    <3> QED BY <3>2, <3>4, <3>5
  <2> QED BY <1>0, <2>2, <2>3, <2>4, <2>5, <2>6 DEF EndInv
<1>4. ~CallAgain => OnlyLookaheadLost'
  <2> SUFFICES ASSUME ~CallAgain, app' = "abandoned" PROVE OnlyLookaheadLost'
    BY DEF OnlyLookaheadLost
  <2>1. PopFrameAck
    BY DEF Application, StartThread, StartAck, ProcessFrame, PushDecode, PopFrameAck, AttachBuffer,
       GraphDone, Destroy, PushAbort, DrainAcks, JoinThread, NextMedia
  <2> QED BY <2>1, AbandonedInTime
<1> QED BY <1>0, <1>2, <1>3, <1>4 DEF LostInv, Running

-------------------------------------------------------------------------------
(***************************************************************************)
(* Theorems.                                                               *)
(***************************************************************************)
LEMMA NextKeeps == ASSUME DecoderAssumption, IInv, [Next]_vars PROVE IInv'
<1>1. CASE Application
  <2>1. TypeOK'
    BY <1>1, ApplicationTyped DEF IInv
  <2> QED BY <2>1, <1>1, ApplicationKeeps, ApplicationShows DEF IInv
<1>2. CASE \E m \in Media : DecodeLoop(m)
  <2>1. PICK t \in Media : DecodeLoop(t)
    BY <1>2
  <2>2. TypeOK'
    BY <2>1, ThreadTyped DEF IInv
  <2> QED BY <2>1, <2>2, ThreadKeeps DEF IInv
<1>3. CASE UNCHANGED vars
  BY <1>3 DEF IInv, vars, appVars, fileVars, queues, TypeOK, CallInv, CountsInv, CountInv, Running,
     Pushed, Popped, Busy, Ended, PoolInv, ShownInv, PicturesInSync
<1> QED BY <1>1, <1>2, <1>3 DEF Next

\* The invariant holds always.
LEMMA InvariantHolds == ASSUME DecoderAssumption PROVE Spec => []IInv
<1>1. Init => IInv
  BY InitOK
<1>2. IInv /\ [Next]_vars => IInv'
  BY NextKeeps
<1> QED BY <1>1, <1>2, PTL DEF Spec

\* Every variable of the decoder keeps its type, whatever the files and the schedule.
THEOREM DecoderTypeCorrect == ASSUME DecoderAssumption PROVE Spec => []TypeOK
<1>1. IInv => TypeOK
  BY DEF IInv
<1> QED BY <1>1, InvariantHolds, PTL

\* The image that the graph thread takes in its i-th execution (ProcessFrame) holds the
\* i-th picture of every file, for any number of files and any size of the pool, unless
\* the application goes on executing a graph that has been abandoned.
THEOREM SlicesInSync == ASSUME DecoderAssumption, ~CallAgain PROVE Spec => []PicturesInSync
<1>1. IInv => PicturesInSync
  BY DEF IInv, ShownInv
<1> QED BY <1>1, InvariantHolds, PTL

\* DecodeLoop never writes into the buffer that ProcessFrame has lent to the graph.
THEOREM LentBufferUntouched == ASSUME DecoderAssumption, ~CallAgain PROVE Spec => []LentBufferStable
<1>1. IInv => LentBufferStable
  <2> SUFFICES ASSUME IInv, app = "graph", NEW m \in Media, pc[m] = "write"
               PROVE  Target(m) # Lent
    BY DEF LentBufferStable
  <2>1. /\ outputFrameCount \in Nat /\ outputFrameCount >= 1 /\ decodeFrameCount[m] \in Nat
        /\ decodeFrameCount[m] >= outputFrameCount /\ PoolSize \in Nat \ {0}
        /\ decodeFrameCount[m] + Busy(m) <= outputFrameCount - 1 + PoolSize
    BY LentHoldsPicture DEF DecoderAssumption
  <2>2. Busy(m) = 1
    BY DEF Busy, Working
  <2>3. /\ outputFrameCount - 1 \in Nat /\ outputFrameCount - 1 < decodeFrameCount[m]
        /\ decodeFrameCount[m] < (outputFrameCount - 1) + PoolSize
    BY <2>1, <2>2
  <2> QED BY <2>1, <2>3, RemaindersDiffer DEF Target, Lent
<1> QED BY <1>1, InvariantHolds, PTL

\* So no step does.
LEMMA LostKept == ASSUME DecoderAssumption, IInv, LostInv, [Next]_vars PROVE LostInv'
<1>1. CASE Application
  BY <1>1, ApplicationLoses
<1>2. CASE \E m \in Media : DecodeLoop(m)
  BY <1>2, ThreadLoses DEF IInv
<1>3. CASE UNCHANGED vars
  BY <1>3 DEF LostInv, vars, appVars, fileVars, queues, ReadInv, Delay, EndInv, AllDecoded, Decodable,
     Running, OnlyLookaheadLost
<1> QED BY <1>1, <1>2, <1>3 DEF Next

\* ProcessFrame gives the graph up only when a file is decoded to its end or to its corrupt
\* packet, and then no more than the pool's pictures of that file have not been shown,
\* although bits of eof may be lost and set again in any order.
THEOREM LookaheadOnly == ASSUME DecoderAssumption, ~CallAgain PROVE Spec => []OnlyLookaheadLost
<1>1. Init => LostInv
  BY InitLost
<1>2. IInv /\ LostInv /\ [Next]_vars => LostInv'
  BY LostKept
<1>3. LostInv => OnlyLookaheadLost
  BY DEF LostInv
<1> QED BY <1>1, <1>2, <1>3, InvariantHolds, PTL DEF Spec
===============================================================================
