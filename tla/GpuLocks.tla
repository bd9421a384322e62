------------------------------- MODULE GpuLocks -------------------------------
(***************************************************************************)
(* The part of class Arguments (annInferenceServer/arguments.h and .cpp)   *)
(* that hands out the GPUs of the server to inference sessions:            *)
(* lockGpuDevices, called by the constructor of InferenceEngine, and       *)
(* releaseGpuDevices, called by its destructor.  Both run under the one    *)
(* mutex of Arguments, which the other sessions take for the model lists   *)
(* and the upload counter.  A loop under the mutex is one step per device. *)
(***************************************************************************)
EXTENDS Clients, Naturals, Sequences, FiniteSets

CONSTANTS NumDevices,   \* num_devices: the GPUs OpenCL reports
          NumGPUs,      \* numGPUs: how many the configuration lets a session ask for
          MaxRequest    \* bound: the largest number of GPUs a client asks for

ASSUME DeviceAssumption == NumDevices \in Nat /\ NumGPUs \in Nat /\ MaxRequest \in Nat

VARIABLES mutex,            \* the session that holds the mutex of Arguments, or None
          deviceUseCount,   \* sessions using each device
          engine,           \* life of each session's InferenceEngine, as far as devices go
          GPUs,             \* how many devices the session's client asked for
          device_id         \* the devices written into the session's array so far

gpuVars == <<mutex, deviceUseCount, engine, GPUs, device_id>>

Device == 1..NumDevices

\* number of parallel sessions allowed per device
MAX_DEVICE_USE_LIMIT == 1

\* Mutant: a device at its limit still counts as available.
AvailableAtLimit == {d \in Device : deviceUseCount[d] <= MAX_DEVICE_USE_LIMIT}

\* The devices that count as available to lockGpuDevices.
Available == {d \in Device : deviceUseCount[d] < MAX_DEVICE_USE_LIMIT}

\* The search of lockGpuDevices: the least used device, the first of them.
LeastUsed(d) ==
  \A e \in Device : \/ deviceUseCount[d] < deviceUseCount[e]
                    \/ deviceUseCount[d] = deviceUseCount[e] /\ d <= e

GpuTypeOK ==
  /\ mutex \in Session \union {None}
  /\ deviceUseCount \in [Device -> Nat]
  /\ engine \in [Session -> {"idle", "locking", "locked", "refused", "releasing", "released"}]
  /\ GPUs \in [Session -> 0..MaxRequest]
  /\ device_id \in [Session -> Seq(Device)]

GpuInit ==
  /\ mutex = None
  /\ deviceUseCount = [d \in Device |-> 0]
  /\ engine = [s \in Session |-> "idle"]
  /\ GPUs = [s \in Session |-> 0]
  /\ device_id = [s \in Session |-> <<>>]
-------------------------------------------------------------------------------
\* Any other critical section of Arguments that takes several steps.
TakeMutex(s) ==
  /\ mutex = None
  /\ mutex' = s
  /\ UNCHANGED <<deviceUseCount, engine, GPUs, device_id>>

DropMutex(s) ==
  /\ mutex = s
  /\ engine[s] \notin {"locking", "releasing"}
  /\ mutex' = None
  /\ UNCHANGED <<deviceUseCount, engine, GPUs, device_id>>

\* lockGpuDevices refuses: more than numGPUs, or too few devices left.
LockRefused(s, n) ==
  /\ mutex = None
  /\ engine[s] = "idle"
  /\ n > NumGPUs \/ Cardinality(Available) < n
  /\ engine' = [engine EXCEPT ![s] = "refused"]
  /\ GPUs' = [GPUs EXCEPT ![s] = n]
  /\ UNCHANGED <<mutex, deviceUseCount, device_id>>

\* lockGpuDevices has made sure that enough devices are available.
LockBegin(s, n) ==
  /\ mutex = None
  /\ engine[s] = "idle"
  /\ n <= NumGPUs
  /\ Cardinality(Available) >= n
  /\ mutex' = s
  /\ engine' = [engine EXCEPT ![s] = "locking"]
  /\ GPUs' = [GPUs EXCEPT ![s] = n]
  /\ UNCHANGED <<deviceUseCount, device_id>>

\* One turn of the loop that allocates devices.
LockOne(s) ==
  /\ engine[s] = "locking"
  /\ Len(device_id[s]) < GPUs[s]
  /\ \E gpuId \in Device :
       /\ LeastUsed(gpuId)
       /\ deviceUseCount' = [deviceUseCount EXCEPT ![gpuId] = @ + 1]
       /\ device_id' = [device_id EXCEPT ![s] = Append(@, gpuId)]
  /\ UNCHANGED <<mutex, engine, GPUs>>

LockEnd(s) ==
  /\ engine[s] = "locking"
  /\ Len(device_id[s]) = GPUs[s]
  /\ engine' = [engine EXCEPT ![s] = "locked"]
  /\ mutex' = None
  /\ UNCHANGED <<deviceUseCount, GPUs, device_id>>

\* releaseGpuDevices, which the destructor calls only if the lock succeeded.
ReleaseBegin(s) ==
  /\ mutex = None
  /\ engine[s] = "locked"
  /\ mutex' = s
  /\ engine' = [engine EXCEPT ![s] = "releasing"]
  /\ UNCHANGED <<deviceUseCount, GPUs, device_id>>

\* Mutant: the loop does not go on to the next device.
ReleaseOneStays(s) ==
  /\ engine[s] = "releasing"
  /\ device_id[s] # <<>>
  /\ deviceUseCount' = [deviceUseCount EXCEPT ![Head(device_id[s])] = @ - 1]
  /\ UNCHANGED <<mutex, engine, GPUs, device_id>>

ReleaseOne(s) ==
  /\ engine[s] = "releasing"
  /\ device_id[s] # <<>>
  /\ deviceUseCount' = [deviceUseCount EXCEPT ![Head(device_id[s])] = @ - 1]
  /\ device_id' = [device_id EXCEPT ![s] = Tail(@)]
  /\ UNCHANGED <<mutex, engine, GPUs>>

\* Mutant: the mutex is not given back.
ReleaseEndHolding(s) ==
  /\ engine[s] = "releasing"
  /\ device_id[s] = <<>>
  /\ engine' = [engine EXCEPT ![s] = "released"]
  /\ GPUs' = [GPUs EXCEPT ![s] = 0]
  /\ UNCHANGED <<mutex, deviceUseCount, device_id>>

ReleaseEnd(s) ==
  /\ engine[s] = "releasing"
  /\ device_id[s] = <<>>
  /\ engine' = [engine EXCEPT ![s] = "released"]
  /\ mutex' = None
  /\ GPUs' = [GPUs EXCEPT ![s] = 0]
  /\ UNCHANGED <<deviceUseCount, device_id>>

\* The process ends, by a call of fatal() or a crash; the counts are in memory.
GpuReset ==
  /\ mutex' = None
  /\ deviceUseCount' = [d \in Device |-> 0]
  /\ engine' = [s \in Session |-> IF engine[s] = "idle" THEN "idle" ELSE "released"]
  /\ device_id' = [s \in Session |-> <<>>]
  /\ GPUs' = [s \in Session |-> 0]

GpuNext ==
  \/ \E s \in Session :
       \/ TakeMutex(s) \/ DropMutex(s)
       \/ \E n \in 0..MaxRequest : LockRefused(s, n) \/ LockBegin(s, n)
       \/ LockOne(s) \/ LockEnd(s)
       \/ ReleaseBegin(s) \/ ReleaseOne(s) \/ ReleaseEnd(s)
  \/ GpuReset

GpuSpec == GpuInit /\ [][GpuNext]_gpuVars
-------------------------------------------------------------------------------
\* The places of the arrays of locked devices that are filled.
Held == {p \in Session \X (1..MaxRequest) : p[2] <= Len(device_id[p[1]])}

\* A device is never given out twice, neither to two sessions nor twice to one;
\* the use counts say which devices are given out; and a session whose lock
\* succeeded has as many devices as its client asked for.  lockGpuDevices
\* counts the devices first and looks for the least used ones after that.
DevicesExclusive ==
  /\ \A p, q \in Held :
       device_id[p[1]][p[2]] = device_id[q[1]][q[2]] => p = q
  /\ \A d \in Device :
       deviceUseCount[d] =
         IF \E p \in Held : device_id[p[1]][p[2]] = d THEN 1 ELSE 0
  /\ \A s \in Session : engine[s] = "locked" => Len(device_id[s]) = GPUs[s]
===============================================================================
