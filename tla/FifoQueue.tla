----------------------------- MODULE FifoQueue -----------------------------
(***************************************************************************)
(* What the queues between the threads of an inference session promise: an *)
(* atomic first-in first-out queue that never holds more than Capacity     *)
(* items (no bound if Capacity is zero).  InferencePipeline is written in  *)
(* terms of such queues; MessageQueue shows that the code implements them. *)
(***************************************************************************)
EXTENDS Naturals, Sequences

CONSTANTS Producers, Consumers, ItemsPerProducer, Capacity

VARIABLES queue,    \* <<producer, number>> items, oldest first
          put,      \* number of items each producer has put into the queue
          taken     \* items each consumer has taken, in order

vars == <<queue, put, taken>>

Init ==
    /\ queue = <<>>
    /\ put = [p \in Producers |-> 0]
    /\ taken = [c \in Consumers |-> <<>>]

Put(p) ==
    /\ put[p] < ItemsPerProducer
    /\ Capacity = 0 \/ Len(queue) < Capacity
    /\ queue' = Append(queue, <<p, put[p] + 1>>)
    /\ put' = [put EXCEPT ![p] = @ + 1]
    /\ UNCHANGED taken

Take(c) ==
    /\ queue # <<>>
    /\ queue' = Tail(queue)
    /\ taken' = [taken EXCEPT ![c] = Append(@, Head(queue))]
    /\ UNCHANGED put

Next == (\E p \in Producers : Put(p)) \/ (\E c \in Consumers : Take(c))

Spec == Init /\ [][Next]_vars
=============================================================================
