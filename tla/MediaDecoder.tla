---------------------------- MODULE MediaDecoder ----------------------------
(***************************************************************************)
(* class CLoomIoMediaDecoder (vx_loomio_media/decoder.cpp), the OpenVX     *)
(* node that decodes MediaCount video files into the slices of one image.  *)
(*                                                                         *)
(* One thread per file decodes ahead into a pool of buffers.  The graph    *)
(* thread gives it commands and takes its acknowledgements through two     *)
(* queues; eof, a vector<bool>, is shared by all threads without a lock,   *)
(* so that setting one bit may undo what another thread sets meanwhile.    *)
(* A picture is its number in the file.                                    *)
(***************************************************************************)
EXTENDS Integers, Sequences, FiniteSetsExt

CONSTANTS
    MediaCount,
    PoolSize,       \* DECODE_BUFFER_POOL_SIZE
    FileSets,       \* the input files: packets, delayed (the codec returns a picture
                    \* one packet late), corrupt (first packet that cannot be decoded)
    MaxCalls,       \* bound: executions of the graph
    CallAgain       \* the application executes an abandoned graph once more

Media == 1..MediaCount
Pool  == 0..(PoolSize - 1)

ASSUME DecoderAssumption ==
    /\ {MediaCount, PoolSize} \subseteq Nat \ {0} /\ MaxCalls \in Nat
    /\ FileSets \subseteq [Media -> [packets : Nat, delayed : BOOLEAN, corrupt : Nat]]
    /\ CallAgain \in BOOLEAN

Decode == "decode"
Abort  == "abort"
Good   == 0
Bad    == -1

VARIABLES
    file,           \* the input files
    app,            \* where the graph thread is
    cur,            \* mediaIndex of its loops
    calls,          \* executions of the graph so far
    queueCmd, queueAck,
    eof,
    buffer,         \* picture in every slice of every decode buffer
    shown,          \* contents of the images the graph has processed
    outputFrameCount, decodeFrameCount,
    pc,             \* where the decoder threads are
    word,           \* value of eof that a thread has loaded in order to set its bit
    packets, pictures   \* packets read from the file, pictures got from the codec

appVars  == <<app, cur, calls, shown, outputFrameCount>>
fileVars == <<file, packets, pictures>>
queues   == <<queueCmd, queueAck>>
vars == <<appVars, fileVars, queues, eof, buffer, decodeFrameCount, pc, word>>

Init ==
    /\ file \in FileSets
    /\ app = "start" /\ cur = 1 /\ calls = 0 /\ shown = <<>> /\ outputFrameCount = 0
    /\ queueCmd = [m \in Media |-> <<>>] /\ queueAck = [m \in Media |-> <<>>]
    /\ eof = [m \in Media |-> FALSE] /\ word = [m \in Media |-> eof]
    /\ buffer = [b \in Pool |-> [m \in Media |-> 0]]
    /\ decodeFrameCount = [m \in Media |-> 0]
    /\ pc = [m \in Media |-> "unstarted"]
    /\ packets = [m \in Media |-> 0] /\ pictures = [m \in Media |-> 0]

Push(q, m, x) == [q EXCEPT ![m] = Append(@, x)]
Pop(q, m)     == [q EXCEPT ![m] = Tail(@)]
At(f, m, x)   == [f EXCEPT ![m] = x]

\* The loops over the media: the next one, or the state after the last.
\* (fault: one iteration too many)
NextMediaPast(after) ==
    IF cur <= MediaCount THEN cur' = cur + 1 /\ UNCHANGED app ELSE cur' = 1 /\ app' = after
NextMedia(after) ==
    IF cur < MediaCount THEN cur' = cur + 1 /\ UNCHANGED app ELSE cur' = 1 /\ app' = after

----------------------------------------------------------------------------
(* The graph thread: Initialize, ProcessFrame and the destructor.          *)

\* Commands given to a thread before the first image is asked for.
\* (fault: the buffer that is lent to the graph is not counted)
InitialCommandsAll == [i \in 1..PoolSize |-> Decode]
InitialCommands    == [i \in 1..(PoolSize - 1) |-> Decode]

StartThread ==
    /\ app = "start"
    /\ pc' = At(pc, cur, "loop")
    /\ queueCmd' = At(queueCmd, cur, InitialCommands)
    /\ NextMedia("startAck")
    /\ UNCHANGED <<calls, shown, outputFrameCount, fileVars, queueAck, eof, buffer,
                   decodeFrameCount, word>>

\* PopAck, whatever it says.
StartAck ==
    /\ app = "startAck" /\ queueAck[cur] # <<>>
    /\ queueAck' = Pop(queueAck, cur)
    /\ NextMedia("idle")
    /\ UNCHANGED <<calls, shown, outputFrameCount, fileVars, queueCmd, eof, buffer,
                   decodeFrameCount, pc, word>>

\* ProcessFrame: a command to every thread, then an acknowledgement from each.
ProcessFrame ==
    /\ app \in (IF CallAgain THEN {"idle", "abandoned"} ELSE {"idle"})
    /\ calls < MaxCalls
    /\ calls' = calls + 1
    /\ app' = "push"
    /\ UNCHANGED <<cur, shown, outputFrameCount, fileVars, queues, eof, buffer,
                   decodeFrameCount, pc, word>>

PushDecode ==
    /\ app = "push"
    /\ queueCmd' = Push(queueCmd, cur, Decode)
    /\ NextMedia("ack")
    /\ UNCHANGED <<calls, shown, outputFrameCount, fileVars, queueAck, eof, buffer,
                   decodeFrameCount, pc, word>>

\* (fault) the acknowledgement of the first file stands for all of them
PopFrameAckFirst ==
    /\ app = "ack" /\ queueAck[cur] # <<>>
    /\ queueAck' = Pop(queueAck, cur)
    /\ app' = IF Head(queueAck[cur]) < 0 \/ eof[cur] THEN "abandoned" ELSE "output"
    /\ UNCHANGED <<cur, calls, shown, outputFrameCount, fileVars, queueCmd, eof, buffer,
                   decodeFrameCount, pc, word>>

\* (fault) zero is taken for an error
PopFrameAckZero ==
    /\ app = "ack" /\ queueAck[cur] # <<>>
    /\ queueAck' = Pop(queueAck, cur)
    /\ IF Head(queueAck[cur]) <= 0 \/ eof[cur]
       THEN cur' = 1 /\ app' = "abandoned"
       ELSE NextMedia("output")
    /\ UNCHANGED <<calls, shown, outputFrameCount, fileVars, queueCmd, eof, buffer,
                   decodeFrameCount, pc, word>>

PopFrameAck ==
    /\ app = "ack" /\ queueAck[cur] # <<>>
    /\ queueAck' = Pop(queueAck, cur)
    /\ IF Head(queueAck[cur]) < 0 \/ eof[cur]
       THEN cur' = 1 /\ app' = "abandoned"
       ELSE NextMedia("output")
    /\ UNCHANGED <<calls, shown, outputFrameCount, fileVars, queueCmd, eof, buffer,
                   decodeFrameCount, pc, word>>

\* The auxiliary data is written and the OpenCL buffer is attached to the output image: the
\* graph reads it.  A call of the framework may fail, before the image is counted or after,
\* which ends the executions of the graph.
Lent == (outputFrameCount - 1) % PoolSize
AttachBuffer ==
    /\ app = "output"
    /\ \/ app' = "graph" /\ outputFrameCount' = outputFrameCount + 1
       \/ app' = "failed" /\ outputFrameCount' \in {outputFrameCount, outputFrameCount + 1}
    /\ UNCHANGED <<cur, calls, shown, fileVars, queues, eof, buffer, decodeFrameCount,
                   pc, word>>

\* The rest of the graph has run.
GraphDone ==
    /\ app = "graph"
    /\ shown' = Append(shown, buffer[Lent])
    /\ app' = "idle"
    /\ UNCHANGED <<cur, calls, outputFrameCount, fileVars, queues, eof, buffer,
                   decodeFrameCount, pc, word>>

\* ~CLoomIoMediaDecoder: abort, drain and join one thread after the other.
Destroy ==
    /\ app \in {"idle", "abandoned", "failed"}
    /\ app' = "~abort"
    /\ UNCHANGED <<cur, calls, shown, outputFrameCount, fileVars, queues, eof, buffer,
                   decodeFrameCount, pc, word>>

PushAbort ==
    /\ app = "~abort"
    /\ queueCmd' = Push(queueCmd, cur, Abort)
    /\ app' = "~drain"
    /\ UNCHANGED <<cur, calls, shown, outputFrameCount, fileVars, queueAck, eof, buffer,
                   decodeFrameCount, pc, word>>

\* (fault) wait for the last acknowledgement, even if it has been taken before
DrainAcksAlways ==
    /\ app = "~drain" /\ queueAck[cur] # <<>>
    /\ queueAck' = Pop(queueAck, cur)
    /\ app' = IF Head(queueAck[cur]) < 0 THEN "~join" ELSE app
    /\ UNCHANGED <<cur, calls, shown, outputFrameCount, fileVars, queueCmd, eof, buffer,
                   decodeFrameCount, pc, word>>

DrainAcks ==
    /\ app = "~drain"
    /\ \/ /\ eof[cur]
          /\ app' = "~join" /\ UNCHANGED queueAck
       \/ /\ ~eof[cur] /\ queueAck[cur] # <<>>
          /\ queueAck' = Pop(queueAck, cur)
          /\ app' = IF Head(queueAck[cur]) < 0 THEN "~join" ELSE app
    /\ UNCHANGED <<cur, calls, shown, outputFrameCount, fileVars, queueCmd, eof, buffer,
                   decodeFrameCount, pc, word>>

JoinThread ==
    /\ app = "~join" /\ pc[cur] = "ended"
    /\ IF cur < MediaCount THEN cur' = cur + 1 /\ app' = "~abort"
                           ELSE cur' = 1 /\ app' = "~end"
    /\ UNCHANGED <<calls, shown, outputFrameCount, fileVars, queues, eof, buffer,
                   decodeFrameCount, pc, word>>

Application ==
    \/ StartThread \/ StartAck \/ ProcessFrame \/ PushDecode \/ PopFrameAck \/ AttachBuffer
    \/ GraphDone \/ Destroy \/ PushAbort \/ DrainAcks \/ JoinThread

----------------------------------------------------------------------------
(* DecodeLoop(m)                                                           *)

threadVars == <<appVars, buffer, decodeFrameCount>>

LoopTest(m) ==
    /\ pc[m] = "loop"
    /\ pc' = At(pc, m, IF eof[m] THEN "final" ELSE "command")
    /\ UNCHANGED <<threadVars, fileVars, queues, eof, word>>

PopCommand(m) ==
    /\ pc[m] = "command" /\ queueCmd[m] # <<>>
    /\ queueCmd' = Pop(queueCmd, m)
    /\ pc' = At(pc, m, IF Head(queueCmd[m]) = Abort THEN "final" ELSE "read")
    /\ UNCHANGED <<threadVars, fileVars, queueAck, eof, word>>

\* av_read_frame: a packet, or the end of the file.
ReadPacket(m) ==
    /\ pc[m] = "read"
    /\ IF packets[m] < file[m].packets
       THEN packets' = At(packets, m, packets[m] + 1) /\ pc' = At(pc, m, "decode")
       ELSE pc' = At(pc, m, "eofRead") /\ UNCHANGED packets
    /\ UNCHANGED <<threadVars, file, pictures, queues, eof, word>>

\* eof[m] = true: the word is loaded, then stored with the bit of m set.
EofPcs == {"eofRead", "final", "eofError"}
LoadEof(m) ==
    /\ pc[m] \in EofPcs
    /\ word' = At(word, m, eof)
    /\ pc' = At(pc, m, CASE pc[m] = "eofRead"  -> "storeRead"
                         [] pc[m] = "final"    -> "storeFinal"
                         [] pc[m] = "eofError" -> "storeError")
    /\ UNCHANGED <<threadVars, fileVars, queues, eof>>

\* (fault) a thread that fails ends without an acknowledgement
StoreEofNoAck(m) ==
    /\ pc[m] \in {"storeRead", "storeFinal", "storeError"}
    /\ eof' = At(word[m], m, TRUE)
    /\ pc' = At(pc, m, CASE pc[m] = "storeRead"  -> "flush"
                         [] pc[m] = "storeFinal" -> "lastAck"
                         [] pc[m] = "storeError" -> "ended")
    /\ UNCHANGED <<threadVars, fileVars, queues, word>>

StoreEof(m) ==
    /\ pc[m] \in {"storeRead", "storeFinal", "storeError"}
    /\ eof' = At(word[m], m, TRUE)
    /\ pc' = At(pc, m, IF pc[m] = "storeRead" THEN "flush" ELSE "lastAck")
    /\ UNCHANGED <<threadVars, fileVars, queues, word>>

\* avcodec_decode_video2 for a packet: an error, a picture, or not yet a picture.
DecodePacket(m) ==
    /\ pc[m] = "decode"
    /\ IF packets[m] = file[m].corrupt
       THEN pc' = At(pc, m, "eofError") /\ UNCHANGED pictures
       ELSE IF file[m].delayed /\ packets[m] = 1
       THEN pc' = At(pc, m, "read") /\ UNCHANGED pictures
       ELSE pc' = At(pc, m, "write") /\ pictures' = At(pictures, m, pictures[m] + 1)
    /\ UNCHANGED <<threadVars, file, packets, queues, eof, word>>

\* The same call after the end of the file: a delayed picture, or none.
DecodeFlush(m) ==
    /\ pc[m] = "flush"
    /\ IF pictures[m] < packets[m]
       THEN pc' = At(pc, m, "write") /\ pictures' = At(pictures, m, pictures[m] + 1)
       ELSE pc' = At(pc, m, IF eof[m] THEN "loop" ELSE "read") /\ UNCHANGED pictures
    /\ UNCHANGED <<threadVars, file, packets, queues, eof, word>>

\* The picture has been written into the slice of m: count it and acknowledge.
Target(m) == decodeFrameCount[m] % PoolSize
WriteSlice(m) ==
    /\ pc[m] = "write"
    /\ buffer' = [buffer EXCEPT ![Target(m)][m] = pictures[m]]
    /\ decodeFrameCount' = At(decodeFrameCount, m, decodeFrameCount[m] + 1)
    /\ queueAck' = Push(queueAck, m, Good)
    /\ pc' = At(pc, m, "loop")
    /\ UNCHANGED <<appVars, fileVars, queueCmd, eof, word>>

LastAck(m) ==
    /\ pc[m] = "lastAck"
    /\ queueAck' = Push(queueAck, m, Bad)
    /\ pc' = At(pc, m, "ended")
    /\ UNCHANGED <<threadVars, fileVars, queueCmd, eof, word>>

DecodeLoop(m) ==
    \/ LoopTest(m) \/ PopCommand(m) \/ ReadPacket(m) \/ LoadEof(m) \/ StoreEof(m)
    \/ DecodePacket(m) \/ DecodeFlush(m) \/ WriteSlice(m) \/ LastAck(m)

----------------------------------------------------------------------------
Next == \/ Application
        \/ \E m \in Media : DecodeLoop(m)
        \/ app = "~end" /\ UNCHANGED vars

Spec == Init /\ [][Next]_vars

\* Every thread runs until it blocks.
FairSpec == Spec /\ WF_vars(Application) /\ \A m \in Media : WF_vars(DecodeLoop(m))

----------------------------------------------------------------------------
(* Properties.                                                             *)

\* Every variable keeps its type.
TypeOK ==
    /\ app \in {"start", "startAck", "idle", "push", "ack", "output", "graph", "abandoned",
                "failed", "~abort", "~drain", "~join", "~end"}
    /\ cur \in Media /\ calls \in 0..MaxCalls /\ outputFrameCount \in 0..MaxCalls
    /\ shown \in Seq([Media -> Nat])
    /\ queueCmd \in [Media -> Seq({Decode, Abort})] /\ queueAck \in [Media -> Seq({Good, Bad})]
    /\ eof \in [Media -> BOOLEAN] /\ word \in [Media -> [Media -> BOOLEAN]]
    /\ buffer \in [Pool -> [Media -> Nat]] /\ decodeFrameCount \in [Media -> Nat]
    /\ pc \in [Media -> EofPcs \cup {"unstarted", "loop", "command", "read", "decode",
                 "flush", "write", "storeRead", "storeFinal", "storeError", "lastAck", "ended"}]
    /\ packets \in [Media -> Nat] /\ pictures \in [Media -> Nat]

\* The graph sees the pictures in order, none twice and none skipped, and every image
\* is composed of the pictures of all files that belong together.
PicturesInSync == \A i \in DOMAIN shown : shown[i] = [m \in Media |-> i]

\* While the graph reads the buffer it was lent, no thread writes into it.
LentBufferStable ==
    app = "graph" => \A m \in Media : pc[m] = "write" => Target(m) # Lent

\* The graph is abandoned only at the end of a file (or where it is corrupt), and no
\* more than the pictures decoded ahead are lost with it.
Decodable(m) ==
    IF file[m].corrupt \in 1..file[m].packets
    THEN file[m].corrupt - 1 - (IF file[m].delayed THEN 1 ELSE 0) ELSE file[m].packets
OnlyLookaheadLost ==
    app = "abandoned" => Len(shown) + PoolSize >= Min({Decodable(m) : m \in Media})

\* The destructor terminates the threads, whatever they are doing.
DestructorEnds == app = "~abort" ~> app = "~end"

\* ProcessFrame returns an image or abandons the graph, but returns.
ProcessFrameReturns == app = "push" ~> app \in {"output", "abandoned"}
=============================================================================
