------------------------- MODULE MessageQueueProofs -------------------------
(***************************************************************************)
(* A MessageQueue with one producer is an atomic bounded FIFO, and one     *)
(* without a limit is an atomic FIFO for any number of producers: for      *)
(* every number of consumers, of items and every limit.                    *)
(***************************************************************************)
EXTENDS MessageQueue, FiniteSetTheorems, TLAPS

\* Whoever is between lock and unlock is the thread the mutex names.
LockInv ==
    /\ \A p \in Producers : prodPc[p] \in {"push", "count"} => mutex = p
    /\ \A c \in Consumers : consPc[c] \in {"test", "count"} => mutex = c

\* The counters lag behind the queue only while the mutex is held.
CountInv ==
    /\ (\E p \in Producers : prodPc[p] = "count")
           => Len(queue) = enqueueCount - dequeueCount + 1
    /\ (\E c \in Consumers : consPc[c] = "count")
           => Len(queue) = enqueueCount - dequeueCount - 1
    /\ ~(\E p \in Producers : prodPc[p] = "count")
         /\ ~(\E c \in Consumers : consPc[c] = "count")
           => Len(queue) = enqueueCount - dequeueCount

\* A sole producer has read the number of its own calls, and the counter of the
\* consumers can only have moved on: the room it has seen is still there.
RoomInv ==
    \A p \in Producers :
       /\ prodPc[p] = "size" => seenEnqueue[p] \in {Unread, enqueueCount}
       /\ prodPc[p] # "size" => seenEnqueue[p] = Unread /\ seenDequeue[p] = Unread
       /\ seenDequeue[p] <= dequeueCount
       /\ prodPc[p] \in {"lock", "push"} => enqueueCount - dequeueCount < MaxDepth

SoleProducer == \A p, q \in Producers : p = q

\* A call of enqueue that has not pushed its item yet is one of the bounded number.
CallInv == \A p \in Producers :
    prodPc[p] \in {"size", "lock", "push"} => put[p] < ItemsPerProducer

TypeInv == TypeOK /\ LockInv /\ CountInv /\ CallInv

\* Every thread finds and leaves every variable in its type, holds the mutex where
\* it touches the queue, and leaves the counters in step with it.
LEMMA InitInv == Init => TypeInv /\ (MaxDepth = 0 \/ RoomInv)
  BY QueueAssumption DEF Init, TypeInv, TypeOK, LockInv, CountInv, CallInv, RoomInv, Unread, Item

\* A step of enqueue keeps the invariant.
LEMMA ProducerInv ==
  ASSUME TypeInv, NEW p \in Producers, Producer(p) PROVE TypeInv'
<1> USE QueueAssumption DEF TypeInv, TypeOK, LockInv, CountInv, CallInv, counters, prodVars, consVars,
        At, Unread, Item
<1>1. CASE Enqueue(p)
  BY <1>1 DEF Enqueue
<1>2. CASE ReadEnqueueCount(p)
  BY <1>2 DEF ReadEnqueueCount
<1>3. CASE ReadDequeueCount(p)
  BY <1>3 DEF ReadDequeueCount
<1>4. CASE TestSize(p)
  BY <1>4 DEF TestSize
<1>5. CASE LockProducer(p)
  BY <1>5 DEF LockProducer
<1>6. CASE Push(p)
  <2>1. <<p, put[p] + 1>> \in Item
    BY <1>6 DEF Push
  <2>2. queue' \in Seq(Item) /\ Len(queue') = Len(queue) + 1
    BY <1>6, <2>1 DEF Push
  <2>3. put' \in [Producers -> 0..ItemsPerProducer]
    BY <1>6 DEF Push
  <2>4. TypeOK'
    BY <1>6, <2>2, <2>3 DEF Push
  <2>5. LockInv' /\ CallInv'
    BY <1>6 DEF Push
  <2>6. CountInv'
    BY <1>6, <2>2 DEF Push
  <2> QED BY <2>4, <2>5, <2>6
<1>7. CASE CountEnqueue(p)
  BY <1>7 DEF CountEnqueue
<1>8. CASE NotifyOne(p)
  BY <1>8 DEF NotifyOne
<1> QED BY <1>1, <1>2, <1>3, <1>4, <1>5, <1>6, <1>7, <1>8 DEF Producer

\* A step of dequeue keeps the invariant.
LEMMA ConsumerInv ==
  ASSUME TypeInv, NEW c \in Consumers, Consumer(c) \/ WakeSpuriously(c) PROVE TypeInv'
<1> USE QueueAssumption DEF TypeInv, TypeOK, LockInv, CountInv, CallInv, counters, prodVars, consVars,
        At, Unread, Item
<1>1. CASE LockConsumer(c)
  BY <1>1 DEF LockConsumer
<1>2. CASE Wait(c)
  BY <1>2 DEF Wait
<1>3. CASE Wake(c)
  BY <1>3 DEF Wake
<1>4. CASE WakeSpuriously(c)
  BY <1>4 DEF WakeSpuriously
<1>5. CASE Pop(c)
  <2>1. queue' \in Seq(Item) /\ Len(queue') = Len(queue) - 1 /\ Head(queue) \in Item
    BY <1>5 DEF Pop
  <2>2. taken' \in [Consumers -> Seq(Item)]
    BY <1>5, <2>1 DEF Pop
  <2> QED BY <1>5, <2>1, <2>2 DEF Pop
<1>6. CASE CountDequeue(c)
  BY <1>6 DEF CountDequeue
<1> QED BY <1>1, <1>2, <1>3, <1>4, <1>5, <1>6 DEF Consumer

\* Every step of the specification keeps the invariant.
LEMMA StepInv == TypeInv /\ [Next]_vars => TypeInv'
<1> SUFFICES ASSUME TypeInv, [Next]_vars PROVE TypeInv'
  OBVIOUS
<1>1. CASE UNCHANGED vars
  BY <1>1 DEF vars, counters, prodVars, consVars, TypeInv, TypeOK, LockInv, CountInv, CallInv
<1> QED BY <1>1, ProducerInv, ConsumerInv DEF Next

\* No access to the queue escapes the mutex, and every variable keeps its type.
THEOREM TypeCorrect == Spec => []TypeOK
<1>1. TypeInv => TypeOK
  BY DEF TypeInv
<1> QED BY <1>1, InitInv, StepInv, PTL DEF Spec

\* What a sole producer has seen of the counters stays true until it has pushed.
LEMMA StepRoom ==
  ASSUME SoleProducer, MaxDepth > 0, TypeInv, RoomInv, [Next]_vars PROVE RoomInv'
<1> USE QueueAssumption DEF TypeInv, TypeOK, RoomInv, SoleProducer, counters, prodVars, consVars,
        At, Unread
<1>1. ASSUME NEW p \in Producers, Producer(p) PROVE RoomInv'
  <2>1. CASE Enqueue(p)
    BY <2>1 DEF Enqueue
  <2>2. CASE ReadEnqueueCount(p)
    BY <2>2 DEF ReadEnqueueCount
  <2>3. CASE ReadDequeueCount(p)
    BY <2>3 DEF ReadDequeueCount
  <2>4. CASE TestSize(p)
    BY <2>4 DEF TestSize, Full
  <2>5. CASE LockProducer(p)
    BY <2>5 DEF LockProducer
  <2>6. CASE Push(p)
    BY <2>6 DEF Push
  <2>7. CASE CountEnqueue(p)
    BY <2>7 DEF CountEnqueue
  <2>8. CASE NotifyOne(p)
    BY <2>8 DEF NotifyOne
  <2> QED BY <1>1, <2>1, <2>2, <2>3, <2>4, <2>5, <2>6, <2>7, <2>8 DEF Producer
<1>2. ASSUME NEW c \in Consumers, Consumer(c) \/ WakeSpuriously(c) PROVE RoomInv'
  BY <1>2 DEF Consumer, LockConsumer, Wait, Wake, WakeSpuriously, Pop, CountDequeue
<1>3. CASE UNCHANGED vars
  BY <1>3 DEF vars
<1> QED BY <1>1, <1>2, <1>3 DEF Next

\* A queue without a limit, or with a single producer, is an atomic FIFO that holds
\* at most maxQueueDepth items, although size() is read without the mutex.
THEOREM AtomicFifo ==
  ASSUME MaxDepth = 0 \/ Cardinality(Producers) = 1 PROVE Spec => ImplementsFifo
<1> DEFINE Limit == IF MaxDepth = 0 THEN 0 ELSE MaxDepth + Cardinality(Producers) - 1
           Inv == TypeInv /\ (MaxDepth = 0 \/ RoomInv)
<1>1. Limit = MaxDepth /\ (MaxDepth = 0 \/ SoleProducer)
  <2>1. CASE MaxDepth = 0
    BY <2>1
  <2>2. CASE Cardinality(Producers) = 1
    <3>1. PICK p : Producers = {p}
      BY <2>2, FS_Singleton, QueueAssumption
    <3> QED BY <2>2, <3>1, QueueAssumption DEF SoleProducer
  <2> QED BY <2>1, <2>2
<1>2. Inv /\ [Next]_vars => Inv'
  BY <1>1, StepInv, StepRoom, QueueAssumption DEF TypeInv
<1>3. Init => Fifo!Init
  BY DEF Init, Fifo!Init
<1>4. Inv /\ [Next]_vars => [Fifo!Next]_Fifo!vars
  <2> SUFFICES ASSUME Inv, [Next]_vars PROVE [Fifo!Next]_Fifo!vars
    OBVIOUS
  <2>1. ASSUME NEW p \in Producers, Push(p) PROVE Fifo!Put(p)
    <3>1. Limit = 0 \/ Len(queue) < Limit
      BY <1>1, <2>1, QueueAssumption DEF Push, TypeInv, TypeOK, LockInv, CountInv, RoomInv, SoleProducer
    <3>2. put[p] < ItemsPerProducer
      BY <2>1 DEF Push, TypeInv, CallInv
    <3> QED BY <2>1, <3>1, <3>2 DEF Push, Fifo!Put, At, consVars
  <2>2. ASSUME NEW c \in Consumers, Pop(c) PROVE Fifo!Take(c)
    BY <2>2 DEF Pop, Fifo!Take, At, TypeInv, TypeOK, prodVars
  <2>3. ASSUME NEW p \in Producers, Producer(p), ~Push(p) PROVE UNCHANGED Fifo!vars
    BY <2>3 DEF Producer, Enqueue, ReadEnqueueCount, ReadDequeueCount, TestSize, LockProducer,
       CountEnqueue, NotifyOne, Fifo!vars, consVars
  <2>4. ASSUME NEW c \in Consumers, Consumer(c) \/ WakeSpuriously(c), ~Pop(c)
        PROVE  UNCHANGED Fifo!vars
    BY <2>4 DEF Consumer, LockConsumer, Wait, Wake, WakeSpuriously, CountDequeue, Fifo!vars,
       prodVars
  <2>5. CASE UNCHANGED vars
    BY <2>5 DEF vars, Fifo!vars, prodVars, consVars
  <2> QED BY <2>1, <2>2, <2>3, <2>4, <2>5 DEF Next, Fifo!Next
<1> QED BY <1>2, <1>3, <1>4, InitInv, PTL DEF Spec, ImplementsFifo, Fifo!Spec
=============================================================================
