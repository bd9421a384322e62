---------------------------- MODULE MessageQueue ----------------------------
(***************************************************************************)
(* template class MessageQueue (utils/annInferenceServer/inference.h): the *)
(* blocking queue between the threads of an inference session, one action  *)
(* per access to memory that another thread can observe.                   *)
(*                                                                         *)
(* size() subtracts two counters without holding the mutex, in an order    *)
(* C++ leaves open, and enqueue tests the limit with it before it locks.   *)
(***************************************************************************)
EXTENDS Integers, Sequences, FiniteSets

CONSTANTS Producers, Consumers,
          ItemsPerProducer,     \* bound: calls of enqueue per producer
          MaxDepth,             \* maxQueueDepth, 0: no limit
          MaxSpurious,          \* bound: spurious wakeups of a wait
          Free                  \* the mutex is held by nobody

ASSUME QueueAssumption ==
    /\ {ItemsPerProducer, MaxDepth, MaxSpurious} \subseteq Nat
    /\ IsFiniteSet(Producers) /\ Producers # {} /\ Consumers # {}
    /\ Producers \cap Consumers = {} /\ Free \notin Producers \cup Consumers

Unread == -1

VARIABLES
    queue, enqueueCount, dequeueCount,
    mutex,              \* the thread that holds it, or Free
    waiting,            \* consumers in signal.wait
    spurious,           \* spurious wakeups so far
    prodPc, put, seenEnqueue, seenDequeue,
    consPc, taken

counters == <<enqueueCount, dequeueCount>>
prodVars == <<prodPc, put, seenEnqueue, seenDequeue>>
consVars == <<consPc, taken>>
vars == <<queue, counters, mutex, waiting, spurious, prodVars, consVars>>

Init ==
    /\ queue = <<>> /\ enqueueCount = 0 /\ dequeueCount = 0
    /\ mutex = Free /\ waiting = {} /\ spurious = 0
    /\ prodPc = [p \in Producers |-> "idle"] /\ put = [p \in Producers |-> 0]
    /\ seenEnqueue = [p \in Producers |-> Unread]
    /\ seenDequeue = [p \in Producers |-> Unread]
    /\ consPc = [c \in Consumers |-> "lock"] /\ taken = [c \in Consumers |-> <<>>]

At(f, t, x) == [f EXCEPT ![t] = x]

----------------------------------------------------------------------------
(* enqueue                                                                 *)

\* (fault) the limit is not tested
EnqueueUnlimited(p) ==
    /\ prodPc[p] = "idle" /\ put[p] < ItemsPerProducer
    /\ prodPc' = At(prodPc, p, "lock")
    /\ UNCHANGED <<queue, counters, mutex, waiting, spurious, put, seenEnqueue,
                   seenDequeue, consVars>>

Enqueue(p) ==
    /\ prodPc[p] = "idle" /\ put[p] < ItemsPerProducer
    /\ prodPc' = At(prodPc, p, IF MaxDepth > 0 THEN "size" ELSE "lock")
    /\ UNCHANGED <<queue, counters, mutex, waiting, spurious, put, seenEnqueue,
                   seenDequeue, consVars>>

\* size(): the two counters, in either order.
ReadEnqueueCount(p) ==
    /\ prodPc[p] = "size" /\ seenEnqueue[p] = Unread
    /\ seenEnqueue' = At(seenEnqueue, p, enqueueCount)
    /\ UNCHANGED <<queue, counters, mutex, waiting, spurious, prodPc, put, seenDequeue,
                   consVars>>

ReadDequeueCount(p) ==
    /\ prodPc[p] = "size" /\ seenDequeue[p] = Unread
    /\ seenDequeue' = At(seenDequeue, p, dequeueCount)
    /\ UNCHANGED <<queue, counters, mutex, waiting, spurious, prodPc, put, seenEnqueue,
                   consVars>>

\* while(size() >= maxQueueDepth): size() is unsigned, so that a difference below
\* zero counts as a full queue.
Full(size) == size < 0 \/ size >= MaxDepth

TestSize(p) ==
    /\ prodPc[p] = "size" /\ seenEnqueue[p] # Unread /\ seenDequeue[p] # Unread
    /\ prodPc' = IF Full(seenEnqueue[p] - seenDequeue[p]) THEN prodPc
                 ELSE At(prodPc, p, "lock")
    /\ seenEnqueue' = At(seenEnqueue, p, Unread)
    /\ seenDequeue' = At(seenDequeue, p, Unread)
    /\ UNCHANGED <<queue, counters, mutex, waiting, spurious, put, consVars>>

LockProducer(p) ==
    /\ prodPc[p] = "lock" /\ mutex = Free
    /\ mutex' = p
    /\ prodPc' = At(prodPc, p, "push")
    /\ UNCHANGED <<queue, counters, waiting, spurious, put, seenEnqueue, seenDequeue,
                   consVars>>

Push(p) ==
    /\ prodPc[p] = "push"
    /\ queue' = Append(queue, <<p, put[p] + 1>>)
    /\ put' = At(put, p, put[p] + 1)
    /\ prodPc' = At(prodPc, p, "count")
    /\ UNCHANGED <<counters, mutex, waiting, spurious, seenEnqueue, seenDequeue, consVars>>

\* enqueueCount++ and mutex.unlock()
CountEnqueue(p) ==
    /\ prodPc[p] = "count"
    /\ enqueueCount' = enqueueCount + 1
    /\ mutex' = Free
    /\ prodPc' = At(prodPc, p, "notify")
    /\ UNCHANGED <<queue, dequeueCount, waiting, spurious, put, seenEnqueue,
                   seenDequeue, consVars>>

\* signal.notify_one(): lost when nobody waits.
\* (fault: it is not called)
NotifyNobody(p) ==
    /\ prodPc[p] = "notify"
    /\ prodPc' = At(prodPc, p, "idle")
    /\ UNCHANGED <<queue, counters, mutex, waiting, spurious, put, seenEnqueue,
                   seenDequeue, consVars>>

NotifyOne(p) ==
    /\ prodPc[p] = "notify"
    /\ \/ waiting = {} /\ UNCHANGED waiting
       \/ \E c \in waiting : waiting' = waiting \ {c}
    /\ prodPc' = At(prodPc, p, "idle")
    /\ UNCHANGED <<queue, counters, mutex, spurious, put, seenEnqueue, seenDequeue,
                   consVars>>

Producer(p) == Enqueue(p) \/ ReadEnqueueCount(p) \/ ReadDequeueCount(p) \/ TestSize(p)
               \/ LockProducer(p) \/ Push(p) \/ CountEnqueue(p) \/ NotifyOne(p)

----------------------------------------------------------------------------
(* dequeue; a consumer calls it again as soon as it returns.               *)

LockConsumer(c) ==
    /\ consPc[c] = "lock" /\ mutex = Free
    /\ mutex' = c
    /\ consPc' = At(consPc, c, "test")
    /\ UNCHANGED <<queue, counters, waiting, spurious, prodVars, taken>>

\* while(queue.empty()) signal.wait(lock): the mutex is released with the wait.
Wait(c) ==
    /\ consPc[c] = "test" /\ queue = <<>>
    /\ mutex' = Free
    /\ waiting' = waiting \cup {c}
    /\ consPc' = At(consPc, c, "wait")
    /\ UNCHANGED <<queue, counters, spurious, prodVars, taken>>

Wake(c) ==
    /\ consPc[c] = "wait" /\ c \notin waiting
    /\ consPc' = At(consPc, c, "lock")
    /\ UNCHANGED <<queue, counters, mutex, waiting, spurious, prodVars, taken>>

WakeSpuriously(c) ==
    /\ consPc[c] = "wait" /\ c \in waiting /\ spurious < MaxSpurious
    /\ spurious' = spurious + 1
    /\ waiting' = waiting \ {c}
    /\ consPc' = At(consPc, c, "lock")
    /\ UNCHANGED <<queue, counters, mutex, prodVars, taken>>

Pop(c) ==
    /\ consPc[c] = "test" /\ queue # <<>>
    /\ queue' = Tail(queue)
    /\ taken' = At(taken, c, Append(taken[c], Head(queue)))
    /\ consPc' = At(consPc, c, "count")
    /\ UNCHANGED <<counters, mutex, waiting, spurious, prodVars>>

\* (fault) the counter runs the wrong way
CountDequeueDown(c) ==
    /\ consPc[c] = "count"
    /\ dequeueCount' = dequeueCount - 1
    /\ mutex' = Free
    /\ consPc' = At(consPc, c, "lock")
    /\ UNCHANGED <<queue, enqueueCount, waiting, spurious, prodVars, taken>>

\* dequeueCount++ and the end of the scope of the lock
CountDequeue(c) ==
    /\ consPc[c] = "count"
    /\ dequeueCount' = dequeueCount + 1
    /\ mutex' = Free
    /\ consPc' = At(consPc, c, "lock")
    /\ UNCHANGED <<queue, enqueueCount, waiting, spurious, prodVars, taken>>

Consumer(c) == LockConsumer(c) \/ Wait(c) \/ Wake(c) \/ Pop(c) \/ CountDequeue(c)

----------------------------------------------------------------------------
AllTaken ==
    /\ \A p \in Producers : prodPc[p] = "idle" /\ put[p] = ItemsPerProducer
    /\ queue = <<>> /\ waiting = Consumers

Next == \/ \E p \in Producers : Producer(p)
        \/ \E c \in Consumers : Consumer(c) \/ WakeSpuriously(c)
        \/ AllTaken /\ UNCHANGED vars

Spec == Init /\ [][Next]_vars

\* Every thread runs until it blocks.
FairSpec == /\ Spec
            /\ \A p \in Producers : WF_vars(Producer(p))
            /\ \A c \in Consumers : WF_vars(Consumer(c))

----------------------------------------------------------------------------
(* Properties.                                                             *)

Item == Producers \X (1..ItemsPerProducer)

\* Every variable keeps its type.
TypeOK ==
    /\ queue \in Seq(Item) /\ enqueueCount \in Nat /\ dequeueCount \in Nat
    /\ mutex \in Producers \cup Consumers \cup {Free}
    /\ waiting \subseteq Consumers /\ spurious \in 0..MaxSpurious
    /\ prodPc \in [Producers -> {"idle", "size", "lock", "push", "count", "notify"}]
    /\ put \in [Producers -> 0..ItemsPerProducer]
    /\ seenEnqueue \in [Producers -> Nat \cup {Unread}]
    /\ seenDequeue \in [Producers -> Nat \cup {Unread}]
    /\ consPc \in [Consumers -> {"lock", "test", "wait", "count"}]
    /\ taken \in [Consumers -> Seq(Item)]

\* The queue is an atomic FIFO: nothing is lost, duplicated or reordered.  Its
\* limit, tested before the mutex is taken and with counters read apart, is exact
\* for one producer; each further producer may exceed it by one.
Fifo == INSTANCE FifoQueue
    WITH Capacity <- IF MaxDepth = 0 THEN 0 ELSE MaxDepth + Cardinality(Producers) - 1
ImplementsFifo == Fifo!Spec

\* No wakeup is lost: as long as a consumer comes back, every item put into the
\* queue is taken out of it.
EveryItemTaken == []<>(queue = <<>>)
=============================================================================
