---------------------------- MODULE MediaEncoder ----------------------------
(***************************************************************************)
(* class CLoomIoMediaEncoder (vx_loomio_media/encoder.cpp), the OpenVX     *)
(* node that encodes the images of a graph into a video file.              *)
(*                                                                         *)
(* The graph thread obtains a buffer of the pool for an acknowledgement,   *)
(* lets the graph render into it and gives the encoder thread a command.   *)
(* A picture is the number of the execution of the graph that rendered it. *)
(***************************************************************************)
EXTENDS Integers, Sequences

CONSTANTS
    PoolSize,       \* ENCODE_BUFFER_POOL_SIZE
    Bframes,        \* pictures the codec holds back (max_b_frames)
    Container,      \* TRUE: formatContext (.mp4), FALSE: fpOutput (.264)
    MaxFrames,      \* bound: executions of the graph
    MayFail         \* OpenCL, libswscale and libavcodec may report errors

ASSUME EncoderAssumption ==
    /\ PoolSize \in Nat \ {0} /\ {Bframes, MaxFrames} \subseteq Nat
    /\ {Container, MayFail} \subseteq BOOLEAN

Pool   == 0..(PoolSize - 1)
Encode == "encode"
Abort  == "abort"
Good   == 0
Bad    == -1
Nothing == 0        \* no picture

VARIABLES
    app,                \* where the graph thread is
    queueCmd, queueAck,
    mem,                \* picture in every OpenCL buffer
    inputFrameCount, encodeFrameCount,
    threadTerminated,
    pc,                 \* where the encoder thread is
    picture,            \* the picture in videoFrame[0]
    held,               \* pictures the codec holds back
    written,            \* pictures in the output file
    failed              \* has an error been reported? (for the properties only)

appVars  == <<app, inputFrameCount>>
queues   == <<queueCmd, queueAck>>
frameVars == <<picture, held, written>>
codecVars == <<frameVars, failed>>
vars == <<appVars, queues, mem, encodeFrameCount, threadTerminated, pc, codecVars>>

Init ==
    /\ app = "idle" /\ inputFrameCount = 0 /\ encodeFrameCount = 0
    /\ queueCmd = <<>> /\ queueAck = <<>>
    /\ mem = [b \in Pool |-> Nothing]
    /\ threadTerminated = FALSE /\ pc = "start"
    /\ picture = Nothing /\ held = <<>> /\ written = <<>> /\ failed = FALSE

----------------------------------------------------------------------------
(* The graph thread: UpdateBufferOpenCL, ProcessFrame and the destructor.  *)

Lent == (inputFrameCount - 1) % PoolSize

\* (fault) the encoder is not waited for
UpdateBufferNoWait ==
    /\ app = "idle" /\ inputFrameCount < MaxFrames
    /\ inputFrameCount' = inputFrameCount + 1
    /\ app' = IF threadTerminated THEN "abandoned" ELSE "render"
    /\ UNCHANGED <<queues, mem, encodeFrameCount, threadTerminated, pc, codecVars>>

\* A call of the framework may fail, which ends the executions of the graph.
CallFails == MayFail /\ app' = "failed" /\ failed' = TRUE

\* UpdateBufferOpenCL: wait for an acknowledgement, read the auxiliary data, attach the
\* next buffer.
UpdateBuffer ==
    /\ app = "idle" /\ inputFrameCount < MaxFrames /\ queueAck # <<>>
    /\ queueAck' = Tail(queueAck)
    /\ IF Head(queueAck) < 0 \/ threadTerminated
       THEN app' = "abandoned" /\ UNCHANGED <<inputFrameCount, failed>>
       ELSE \/ app' = "render" /\ inputFrameCount' = inputFrameCount + 1 /\ UNCHANGED failed
            \/ CallFails /\ inputFrameCount' \in {inputFrameCount, inputFrameCount + 1}
    /\ UNCHANGED <<queueCmd, mem, encodeFrameCount, threadTerminated, pc, frameVars>>

\* The graph has rendered its image into the buffer.
Render ==
    /\ app = "render"
    /\ mem' = [mem EXCEPT ![Lent] = inputFrameCount]
    /\ app' = "submit"
    /\ UNCHANGED <<inputFrameCount, queues, encodeFrameCount, threadTerminated, pc,
                   codecVars>>

\* The buffer is given to the encoder, the auxiliary data to the output.
ProcessFrame ==
    /\ app = "submit"
    /\ IF threadTerminated
       THEN app' = "abandoned" /\ UNCHANGED <<queueCmd, failed>>
       ELSE /\ queueCmd' = Append(queueCmd, Encode)
            /\ (app' = "idle" /\ UNCHANGED failed) \/ CallFails
    /\ UNCHANGED <<inputFrameCount, queueAck, mem, encodeFrameCount, threadTerminated, pc,
                   frameVars>>

\* ~CLoomIoMediaEncoder
PushAbort ==
    /\ app \in {"idle", "abandoned", "failed"}
    /\ queueCmd' = Append(queueCmd, Abort)
    /\ app' = "~drain"
    /\ UNCHANGED <<inputFrameCount, queueAck, mem, encodeFrameCount, threadTerminated, pc,
                   codecVars>>

\* while (!threadTerminated) { if (PopAck() < 0) break; }
\* (fault: the flag is not tested)
DrainAcksAlways ==
    /\ app = "~drain" /\ queueAck # <<>>
    /\ queueAck' = Tail(queueAck)
    /\ app' = IF Head(queueAck) < 0 THEN "~join" ELSE app
    /\ UNCHANGED <<inputFrameCount, queueCmd, mem, encodeFrameCount, threadTerminated, pc,
                   codecVars>>

DrainAcks ==
    /\ app = "~drain"
    /\ \/ /\ threadTerminated
          /\ app' = "~join" /\ UNCHANGED queueAck
       \/ /\ ~threadTerminated /\ queueAck # <<>>
          /\ queueAck' = Tail(queueAck)
          /\ app' = IF Head(queueAck) < 0 THEN "~join" ELSE app
    /\ UNCHANGED <<inputFrameCount, queueCmd, mem, encodeFrameCount, threadTerminated, pc,
                   codecVars>>

\* Join the thread and close the file.
JoinThread ==
    /\ app = "~join" /\ pc = "ended"
    /\ app' = "~end"
    /\ UNCHANGED <<inputFrameCount, queues, mem, encodeFrameCount, threadTerminated, pc,
                   codecVars>>

Application == \/ UpdateBuffer \/ Render \/ ProcessFrame \/ PushAbort \/ DrainAcks
               \/ JoinThread

----------------------------------------------------------------------------
(* EncodeLoop                                                              *)

\* Acknowledgements for the buffers that may be filled before the first is encoded.
\* (fault: the buffer that is being encoded is not counted)
InitialAcksAll == [i \in 1..PoolSize |-> Good]
InitialAcks    == [i \in 1..(PoolSize - 1) |-> Good]

Start ==
    /\ pc = "start"
    /\ queueAck' = queueAck \o InitialAcks
    /\ pc' = "command"
    /\ UNCHANGED <<appVars, queueCmd, mem, encodeFrameCount, threadTerminated, codecVars>>

\* (fault) the frames the codec holds back are forgotten
PopCommandNoFlush ==
    /\ pc = "command" /\ queueCmd # <<>>
    /\ queueCmd' = Tail(queueCmd)
    /\ pc' = IF Head(queueCmd) = Abort THEN "terminate" ELSE "scale"
    /\ UNCHANGED <<appVars, queueAck, mem, encodeFrameCount, threadTerminated, codecVars>>

PopCommand ==
    /\ pc = "command" /\ queueCmd # <<>>
    /\ queueCmd' = Tail(queueCmd)
    /\ pc' = IF Head(queueCmd) = Abort THEN "flush" ELSE "scale"
    /\ UNCHANGED <<appVars, queueAck, mem, encodeFrameCount, threadTerminated, codecVars>>

\* Any of the calls may fail: threadTerminated = true; PushAck(-1); return.
Fail    == MayFail /\ pc' = "terminate" /\ failed' = TRUE
GoOn(p) == pc' = p /\ UNCHANGED failed

\* The buffer is mapped, converted into videoFrame[0] and unmapped.
Source == encodeFrameCount % PoolSize
ScaleFrame ==
    /\ pc = "scale"
    /\ picture' = mem[Source]
    /\ GoOn("encode") \/ Fail
    /\ UNCHANGED <<appVars, queues, mem, encodeFrameCount, threadTerminated, held, written>>

\* avcodec_encode_video2, and the packet it returns goes to the file.
EncodeFrame ==
    /\ pc = "encode"
    /\ LET all == Append(held, picture) IN
       \/ /\ IF Len(all) > Bframes
             THEN held' = Tail(all) /\ written' = Append(written, Head(all))
             ELSE held' = all /\ UNCHANGED written
          /\ GoOn("ack")
       \/ Fail /\ UNCHANGED <<held, written>>
    /\ UNCHANGED <<appVars, queues, mem, encodeFrameCount, threadTerminated, picture>>

\* (fault) the frame is not counted
AckFrameSame ==
    /\ pc = "ack"
    /\ queueAck' = Append(queueAck, Good)
    /\ pc' = "command"
    /\ UNCHANGED <<appVars, queueCmd, mem, encodeFrameCount, threadTerminated, codecVars>>

AckFrame ==
    /\ pc = "ack"
    /\ encodeFrameCount' = encodeFrameCount + 1
    /\ queueAck' = Append(queueAck, Good)
    /\ pc' = "command"
    /\ UNCHANGED <<appVars, queueCmd, mem, threadTerminated, codecVars>>

\* The delayed frames: written if the output is a plain file.
FlushFrame ==
    /\ pc = "flush"
    /\ \/ IF held = <<>>
          THEN GoOn("terminate") /\ UNCHANGED <<held, written>>
          ELSE /\ held' = Tail(held)
               /\ written' = IF Container THEN written ELSE Append(written, Head(held))
               /\ GoOn("flush")
       \/ Fail /\ UNCHANGED <<held, written>>
    /\ UNCHANGED <<appVars, queues, mem, encodeFrameCount, threadTerminated, picture>>

Terminate ==
    /\ pc = "terminate"
    /\ threadTerminated' = TRUE
    /\ pc' = "lastAck"
    /\ UNCHANGED <<appVars, queues, mem, encodeFrameCount, codecVars>>

LastAck ==
    /\ pc = "lastAck"
    /\ queueAck' = Append(queueAck, Bad)
    /\ pc' = "ended"
    /\ UNCHANGED <<appVars, queueCmd, mem, encodeFrameCount, threadTerminated, codecVars>>

EncodeLoop == \/ Start \/ PopCommand \/ ScaleFrame \/ EncodeFrame \/ AckFrame
              \/ FlushFrame \/ Terminate \/ LastAck

----------------------------------------------------------------------------
Next == \/ Application
        \/ EncodeLoop
        \/ app = "~end" /\ UNCHANGED vars

Spec == Init /\ [][Next]_vars

\* Both threads run until they block.
FairSpec == Spec /\ WF_vars(Application) /\ WF_vars(EncodeLoop)

----------------------------------------------------------------------------
(* Properties.                                                             *)

Picture == 0..MaxFrames

\* Every variable keeps its type, and the acknowledgements are never more than the
\* buffers they stand for.
TypeOK ==
    /\ app \in {"idle", "render", "submit", "abandoned", "failed", "~drain", "~join", "~end"}
    /\ inputFrameCount \in 0..MaxFrames /\ encodeFrameCount \in 0..MaxFrames
    /\ queueCmd \in Seq({Encode, Abort}) /\ queueAck \in Seq({Good, Bad})
    /\ Len(queueAck) <= PoolSize /\ failed \in BOOLEAN
    /\ mem \in [Pool -> Picture] /\ threadTerminated \in BOOLEAN
    /\ pc \in {"start", "command", "scale", "encode", "ack", "flush", "terminate",
               "lastAck", "ended"}
    /\ picture \in Picture /\ held \in Seq(Picture) /\ written \in Seq(Picture)

\* The file contains the pictures in the order they were rendered, none twice, none
\* skipped and none overwritten in its buffer before it was encoded.
WrittenInOrder == \A i \in DOMAIN written : written[i] = i

\* The graph never renders into the buffer the encoder reads or has yet to read.
RenderApart ==
    app = "render" =>
        /\ pc = "scale" => Source # Lent
        /\ \A i \in 0..(Len(queueCmd) - 1) :
              (Source + i + (IF pc \in {"scale", "encode", "ack"} THEN 1 ELSE 0)) % PoolSize
                  # Lent

\* When the node is gone every picture that was submitted is in the file, unless an
\* error has stopped the encoder.
AllFramesWritten ==
    app = "~end" /\ ~failed => Len(written) = inputFrameCount

\* The destructor terminates the encoder thread, whatever it is doing.
DestructorEnds == app = "~drain" ~> app = "~end"
=============================================================================
