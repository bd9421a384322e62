------------------------- MODULE ServerSessionsProofs -------------------------
(***************************************************************************)
(* Proofs about the shared resources of annInferenceServer, for any number *)
(* of sessions, devices and descriptors: GpuLocks and Connections each by  *)
(* an inductive invariant of its own, then carried over to ServerSessions, *)
(* every step of which is a step or a stutter of both.                     *)
(*                                                                         *)
(* Then what the sessions share on disk and in memory, by one invariant in *)
(* three layers: FolderInv (types, who has chosen which folder, where its  *)
(* path leads, the counter), ListInv (the list of models has one entry per *)
(* name; what a configure session has sent of it) and BuildInv (what is in *)
(* each directory, and what the entries of the lists say about it, while   *)
(* compiler sessions change the working directory of the process, crash    *)
(* and are restarted).  A session is judged alone: what it can do to the   *)
(* others is said once, in Confined, and every step is shown to be so      *)
(* confined.                                                               *)
(***************************************************************************)
EXTENDS ServerSessions, FiniteSetTheorems, TLAPS

NoDevices == {"idle", "refused", "released"}

\* Every device has at most one place in the arrays, and its count says so.
PlacesApart ==
  /\ \A s, t \in Session : \A i \in 1..Len(device_id[s]), j \in 1..Len(device_id[t]) :
       device_id[s][i] = device_id[t][j] => s = t /\ i = j
  /\ \A s \in Session : \A i \in 1..Len(device_id[s]) : deviceUseCount[device_id[s][i]] = 1
  /\ \A d \in Device : deviceUseCount[d] \in {0, 1}
  /\ \A d \in Device : deviceUseCount[d] = 1 =>
       \E s \in Session : \E i \in 1..Len(device_id[s]) : device_id[s][i] = d

\* The mutex and the engines: whoever is in a loop holds the mutex, and a
\* session in the loop of lockGpuDevices still finds enough devices.
LoopsGuarded ==
  \A s \in Session :
    /\ engine[s] \in {"locking", "releasing"} => mutex = s
    /\ engine[s] \in NoDevices => device_id[s] = <<>>
    /\ engine[s] = "locked" => Len(device_id[s]) = GPUs[s]
    /\ Len(device_id[s]) <= GPUs[s]

EnoughLeft ==
  \A s \in Session : engine[s] = "locking" =>
    Cardinality(Available) >= GPUs[s] - Len(device_id[s])

GpuInv == GpuTypeOK /\ PlacesApart /\ LoopsGuarded /\ EnoughLeft

\* There are finitely many devices.
LEMMA DevicesFinite == IsFiniteSet(Device)
<1> USE DeviceAssumption
<1> QED BY FS_Interval DEF Device

\* So there are finitely many free ones.
LEMMA AvailableFinite == IsFiniteSet(Available) /\ Cardinality(Available) \in Nat
<1>1. Available \subseteq Device BY DEF Available
<1>2. IsFiniteSet(Available) BY <1>1, DevicesFinite, FS_Subset
<1> QED BY <1>2, FS_CardinalityType

\* What the search finds when a device is left: one that nobody uses.
LEMMA LeastUsedIsFree ==
  ASSUME GpuTypeOK, PlacesApart, Cardinality(Available) >= 1,
         NEW gpuId \in Device, LeastUsed(gpuId)
  PROVE  gpuId \in Available /\ deviceUseCount[gpuId] = 0
<1>1. Available # {} BY AvailableFinite, FS_EmptySet
<1>2. PICK d \in Device : deviceUseCount[d] < 1 BY <1>1 DEF Available, MAX_DEVICE_USE_LIMIT
<1>3. deviceUseCount[d] \in Nat /\ deviceUseCount[gpuId] \in Nat BY DEF GpuTypeOK
<1>4. deviceUseCount[gpuId] <= deviceUseCount[d] BY <1>3 DEF LeastUsed
<1> QED BY <1>2, <1>3, <1>4 DEF Available, MAX_DEVICE_USE_LIMIT

\* Giving out a device takes exactly it from the available ones.
LEMMA AvailableAfterUse ==
  ASSUME GpuTypeOK, NEW gpuId \in Available, deviceUseCount[gpuId] = 0,
         deviceUseCount' = [deviceUseCount EXCEPT ![gpuId] = @ + 1]
  PROVE  Cardinality(Available') = Cardinality(Available) - 1
<1>1. Available' = Available \ {gpuId}
      BY DEF Available, GpuTypeOK, MAX_DEVICE_USE_LIMIT
<1> QED BY <1>1, AvailableFinite, FS_RemoveElement

\* Nothing is locked at first.
LEMMA GpuInvInit == GpuInit => GpuInv
<1> SUFFICES ASSUME GpuInit PROVE GpuInv OBVIOUS
<1> USE DeviceAssumption DEF GpuInit
<1>1. GpuTypeOK BY DEF GpuTypeOK
<1>2. PlacesApart BY DEF PlacesApart
<1>3. LoopsGuarded
  <2>1. \A s \in Session : engine[s] = "idle" /\ device_id[s] = <<>> /\ GPUs[s] = 0
        OBVIOUS
  <2>2. \A s \in Session : Len(device_id[s]) = 0
        BY <2>1
  <2>3. \A s \in Session : Len(device_id[s]) <= GPUs[s]
    <3>1. 0 <= 0 OBVIOUS
    <3> QED BY ONLY <2>1, <2>2, <3>1, Zenon
  <2>4. \A s \in Session : engine[s] \notin {"locking", "releasing", "locked"}
        BY <2>1
  <2> QED BY <2>1, <2>3, <2>4 DEF LoopsGuarded
<1>4. EnoughLeft BY DEF EnoughLeft
<1> QED BY <1>1, <1>2, <1>3, <1>4 DEF GpuInv

\* The conjuncts of the invariant under a step that leaves the counts and the
\* arrays alone and changes the engine of one session only.
LEMMA PlacesKept ==
  ASSUME PlacesApart, UNCHANGED <<deviceUseCount, device_id>>
  PROVE  PlacesApart' /\ Available' = Available
BY DEF PlacesApart, Available

\* One turn of lockGpuDevices's loop: the device it finds was free.
LEMMA LockOneKeeps ==
  ASSUME GpuInv, NEW s \in Session, LockOne(s)
  PROVE  GpuInv'
<1> USE DEF GpuInv
<1>1. PICK gpuId \in Device :
        /\ LeastUsed(gpuId)
        /\ deviceUseCount' = [deviceUseCount EXCEPT ![gpuId] = @ + 1]
        /\ device_id' = [device_id EXCEPT ![s] = Append(@, gpuId)]
      BY DEF LockOne
<1>2. engine[s] = "locking" /\ Len(device_id[s]) < GPUs[s] /\ UNCHANGED <<mutex, engine, GPUs>>
      BY DEF LockOne
<1>3. device_id[s] \in Seq(Device) /\ Len(device_id[s]) \in Nat /\ GPUs[s] \in Nat
      BY DEF GpuTypeOK
<1>4. Cardinality(Available) >= 1
      BY <1>2, <1>3, AvailableFinite DEF EnoughLeft
<1>5. gpuId \in Available /\ deviceUseCount[gpuId] = 0
      BY <1>1, <1>4, LeastUsedIsFree
<1>6. \A t \in Session : \A i \in 1..Len(device_id[t]) : device_id[t][i] # gpuId
      BY <1>5 DEF PlacesApart
<1>7. /\ Len(device_id'[s]) = Len(device_id[s]) + 1
      /\ device_id'[s][Len(device_id[s]) + 1] = gpuId
      /\ \A i \in 1..Len(device_id[s]) : device_id'[s][i] = device_id[s][i]
      /\ device_id'[s] \in Seq(Device)
      BY <1>1, <1>3 DEF GpuTypeOK
<1>8. \A t \in Session \ {s} : device_id'[t] = device_id[t]
      BY <1>1 DEF GpuTypeOK
<1>9. deviceUseCount'[gpuId] = 1 /\ \A d \in Device \ {gpuId} : deviceUseCount'[d] = deviceUseCount[d]
      BY <1>1, <1>5 DEF GpuTypeOK
<1>10. GpuTypeOK'
  <2>1. deviceUseCount' \in [Device -> Nat] BY <1>1 DEF GpuTypeOK
  <2>2. device_id' \in [Session -> Seq(Device)] BY <1>1, <1>7 DEF GpuTypeOK
  <2> QED BY <1>2, <2>1, <2>2 DEF GpuTypeOK
<1>11. PlacesApart'
  <2> DEFINE n == Len(device_id[s]) + 1
  <2>1. \A t \in Session : \A i \in 1..Len(device_id'[t]) :
          \/ t = s /\ i = n /\ device_id'[t][i] = gpuId
          \/ i \in 1..Len(device_id[t]) /\ device_id'[t][i] = device_id[t][i]
        BY <1>3, <1>7, <1>8
  <2>2. \A t \in Session : \A i \in 1..Len(device_id[t]) :
          i \in 1..Len(device_id'[t]) /\ device_id'[t][i] = device_id[t][i]
        BY <1>3, <1>7, <1>8
  <2>3. n \in 1..Len(device_id'[s]) /\ device_id'[s][n] = gpuId
        BY <1>3, <1>7
  <2> HIDE DEF n
  <2>4. \A t, u \in Session : \A i \in 1..Len(device_id'[t]), j \in 1..Len(device_id'[u]) :
          device_id'[t][i] = device_id'[u][j] => t = u /\ i = j
    <3> SUFFICES ASSUME NEW t \in Session, NEW u \in Session,
                        NEW i \in 1..Len(device_id'[t]), NEW j \in 1..Len(device_id'[u]),
                        device_id'[t][i] = device_id'[u][j]
                 PROVE  t = u /\ i = j
                 OBVIOUS
    <3>1. CASE t = s /\ i = n /\ device_id'[t][i] = gpuId
          BY <3>1, <2>1, <1>6
    <3>2. CASE u = s /\ j = n /\ device_id'[u][j] = gpuId
          BY <3>2, <2>1, <1>6
    <3>3. CASE /\ i \in 1..Len(device_id[t]) /\ device_id'[t][i] = device_id[t][i]
               /\ j \in 1..Len(device_id[u]) /\ device_id'[u][j] = device_id[u][j]
      <4>1. device_id[t][i] = device_id[u][j]
            BY <3>3
      <4> QED BY <4>1, <3>3 DEF PlacesApart
    <3> QED BY <3>1, <3>2, <3>3, <2>1
  <2>5. \A t \in Session : \A i \in 1..Len(device_id[t]) :
          device_id[t][i] \in Device \ {gpuId}
        BY <1>6 DEF GpuTypeOK
  <2>6. \A t \in Session : \A i \in 1..Len(device_id'[t]) : deviceUseCount'[device_id'[t][i]] = 1
    <3> SUFFICES ASSUME NEW t \in Session, NEW i \in 1..Len(device_id'[t])
                 PROVE  deviceUseCount'[device_id'[t][i]] = 1
                 OBVIOUS
    <3>1. CASE device_id'[t][i] = gpuId
          BY <3>1, <1>9
    <3>2. CASE i \in 1..Len(device_id[t]) /\ device_id'[t][i] = device_id[t][i]
      <4>1. device_id[t][i] \in Device \ {gpuId} BY <3>2, <2>5
      <4>2. deviceUseCount[device_id[t][i]] = 1 BY <3>2 DEF PlacesApart
      <4> QED BY <4>1, <4>2, <3>2, <1>9
    <3> QED BY <3>1, <3>2, <2>1
  <2>7. \A d \in Device : deviceUseCount'[d] \in {0, 1}
        BY <1>9 DEF PlacesApart
  <2>8. \A d \in Device : deviceUseCount'[d] = 1 =>
          \E t \in Session : \E i \in 1..Len(device_id'[t]) : device_id'[t][i] = d
        BY <2>2, <2>3, <1>9 DEF PlacesApart
  <2> QED BY <2>4, <2>6, <2>7, <2>8 DEF PlacesApart
<1>12. LoopsGuarded'
       BY <1>2, <1>3, <1>7, <1>8 DEF LoopsGuarded, NoDevices
<1>13. EnoughLeft'
  <2>1. Cardinality(Available') = Cardinality(Available) - 1
        BY <1>1, <1>5, AvailableAfterUse
  <2>2. \A t \in Session : engine[t] = "locking" => t = s
        BY <1>2 DEF LoopsGuarded
  <2>3. Cardinality(Available') >= GPUs'[s] - Len(device_id'[s])
        BY <2>1, <1>2, <1>3, <1>7, AvailableFinite DEF EnoughLeft
  <2> QED BY <2>2, <2>3, <1>2 DEF EnoughLeft
<1> QED BY <1>10, <1>11, <1>12, <1>13

\* The other steps, each with what it leaves of the invariant to show.
LEMMA ReleaseOneKeeps ==
  ASSUME GpuInv, NEW s \in Session, ReleaseOne(s)
  PROVE  GpuInv'
<1> USE DEF GpuInv
<1> DEFINE h == Head(device_id[s])
<1>1. /\ engine[s] = "releasing" /\ device_id[s] # <<>>
      /\ deviceUseCount' = [deviceUseCount EXCEPT ![h] = @ - 1]
      /\ device_id' = [device_id EXCEPT ![s] = Tail(@)]
      /\ UNCHANGED <<mutex, engine, GPUs>>
      BY DEF ReleaseOne
<1>2. device_id[s] \in Seq(Device) /\ Len(device_id[s]) \in Nat /\ GPUs[s] \in Nat
      BY DEF GpuTypeOK
<1>3. /\ Len(device_id[s]) >= 1 /\ h = device_id[s][1] /\ h \in Device
      /\ Len(device_id'[s]) = Len(device_id[s]) - 1
      /\ \A i \in 1..Len(device_id'[s]) : device_id'[s][i] = device_id[s][i + 1]
      /\ device_id'[s] \in Seq(Device)
      BY <1>1, <1>2 DEF GpuTypeOK
<1>4. \A t \in Session \ {s} : device_id'[t] = device_id[t]
      BY <1>1 DEF GpuTypeOK
<1>5. deviceUseCount[h] = 1
      BY <1>2, <1>3 DEF PlacesApart
<1> HIDE DEF h
<1>6. deviceUseCount'[h] = 0 /\ \A d \in Device \ {h} : deviceUseCount'[d] = deviceUseCount[d]
      BY <1>1, <1>3, <1>5 DEF GpuTypeOK
<1>7. \A t \in Session : \A i \in 1..Len(device_id'[t]) :
        \/ t = s /\ i + 1 \in 1..Len(device_id[t]) /\ device_id'[t][i] = device_id[t][i + 1]
        \/ t # s /\ i \in 1..Len(device_id[t]) /\ device_id'[t][i] = device_id[t][i]
      BY <1>2, <1>3, <1>4
<1>8. \A t \in Session : \A i \in 1..Len(device_id'[t]) : device_id'[t][i] \in Device \ {h}
  <2> SUFFICES ASSUME NEW t \in Session, NEW i \in 1..Len(device_id'[t])
               PROVE  device_id'[t][i] \in Device /\ device_id'[t][i] # h
               OBVIOUS
  <2>1. 1 \in 1..Len(device_id[s]) BY <1>2, <1>3
  <2>2. CASE t = s
    <3>1. i + 1 \in 1..Len(device_id[s]) /\ device_id'[t][i] = device_id[s][i + 1] /\ i + 1 # 1
          BY <2>2, <1>7
    <3>2. device_id[s][i + 1] \in Device BY <3>1, <1>2
    <3> QED BY <3>1, <3>2, <2>1, <1>3 DEF PlacesApart
  <2>3. CASE t # s
    <3>1. i \in 1..Len(device_id[t]) /\ device_id'[t][i] = device_id[t][i]
          BY <2>3, <1>7
    <3>2. device_id[t][i] \in Device BY <3>1 DEF GpuTypeOK
    <3> QED BY <3>1, <3>2, <2>1, <2>3, <1>3 DEF PlacesApart
  <2> QED BY <2>2, <2>3
<1>10. GpuTypeOK'
  <2>1. deviceUseCount' \in [Device -> Nat]
    <3>1. ASSUME NEW d \in Device PROVE deviceUseCount'[d] \in Nat
      <4>1. deviceUseCount[d] \in Nat BY DEF GpuTypeOK
      <4>2. CASE d = h BY <4>2, <1>6
      <4>3. CASE d # h BY <4>1, <4>3, <1>6
      <4> QED BY <4>2, <4>3
    <3>2. deviceUseCount' = [d \in Device |-> deviceUseCount'[d]] BY <1>1 DEF GpuTypeOK
    <3> QED BY <3>1, <3>2
  <2>2. device_id' \in [Session -> Seq(Device)] BY <1>1, <1>3 DEF GpuTypeOK
  <2> QED BY <1>1, <2>1, <2>2 DEF GpuTypeOK
<1>11. PlacesApart'
  <2>1. \A t, u \in Session : \A i \in 1..Len(device_id'[t]), j \in 1..Len(device_id'[u]) :
          device_id'[t][i] = device_id'[u][j] => t = u /\ i = j
    <3> SUFFICES ASSUME NEW t \in Session, NEW u \in Session,
                        NEW i \in 1..Len(device_id'[t]), NEW j \in 1..Len(device_id'[u]),
                        device_id'[t][i] = device_id'[u][j]
                 PROVE  t = u /\ i = j
                 OBVIOUS
    <3> DEFINE a == IF t = s THEN i + 1 ELSE i
               b == IF u = s THEN j + 1 ELSE j
    <3>1. a \in 1..Len(device_id[t]) /\ device_id'[t][i] = device_id[t][a] BY <1>7
    <3>2. b \in 1..Len(device_id[u]) /\ device_id'[u][j] = device_id[u][b] BY <1>7
    <3>3. t = u /\ a = b
      <4> HIDE DEF a, b
      <4>1. device_id[t][a] = device_id[u][b] BY <3>1, <3>2
      <4> QED BY <4>1, <3>1, <3>2 DEF PlacesApart
    <3>4. i \in Int /\ j \in Int OBVIOUS
    <3> QED BY <3>3, <3>4
  <2>2. \A t \in Session : \A i \in 1..Len(device_id'[t]) : deviceUseCount'[device_id'[t][i]] = 1
    <3> SUFFICES ASSUME NEW t \in Session, NEW i \in 1..Len(device_id'[t])
                 PROVE  deviceUseCount'[device_id'[t][i]] = 1
                 OBVIOUS
    <3>1. deviceUseCount'[device_id'[t][i]] = deviceUseCount[device_id'[t][i]] BY <1>6, <1>8
    <3>2. \E a \in 1..Len(device_id[t]) : device_id'[t][i] = device_id[t][a] BY <1>7
    <3> QED BY <3>1, <3>2 DEF PlacesApart
  <2>3. \A d \in Device : deviceUseCount'[d] \in {0, 1}
        BY <1>6 DEF PlacesApart
  <2>4. \A d \in Device : deviceUseCount'[d] = 1 =>
          \E t \in Session : \E i \in 1..Len(device_id'[t]) : device_id'[t][i] = d
    <3> SUFFICES ASSUME NEW d \in Device, deviceUseCount'[d] = 1
                 PROVE  \E t \in Session : \E i \in 1..Len(device_id'[t]) : device_id'[t][i] = d
                 OBVIOUS
    <3>1. d # h /\ deviceUseCount[d] = 1 BY <1>6
    <3>5. PICK t \in Session : \E i \in 1..Len(device_id[t]) : device_id[t][i] = d
          BY <3>1 DEF PlacesApart
    <3>2. PICK i \in 1..Len(device_id[t]) : device_id[t][i] = d
          BY <3>5
    <3>3. CASE t # s BY <3>2, <3>3, <1>4
    <3>4. CASE t = s
      <4>1. i # 1 BY <3>1, <3>2, <3>4, <1>3
      <4>2. i - 1 \in 1..Len(device_id'[s]) /\ (i - 1) + 1 = i BY <4>1, <3>4, <1>2, <1>3
      <4>3. device_id'[s][i - 1] = d BY <4>2, <3>2, <3>4, <1>3
      <4> QED BY <4>2, <4>3
    <3> QED BY <3>3, <3>4
  <2> QED BY <2>1, <2>2, <2>3, <2>4 DEF PlacesApart
<1>12. LoopsGuarded'
  <2>1. \A t \in Session \ {s} : engine'[t] = engine[t] /\ device_id'[t] = device_id[t] /\ GPUs'[t] = GPUs[t]
        BY <1>1, <1>4
  <2>2. Len(device_id[s]) <= GPUs[s] BY DEF LoopsGuarded
  <2>3. Len(device_id'[s]) <= GPUs'[s] BY <2>2, <1>1, <1>2, <1>3
  <2> QED BY <2>1, <2>3, <1>1 DEF LoopsGuarded, NoDevices
<1>13. EnoughLeft'
  <2>1. \A t \in Session : engine'[t] # "locking"
        BY <1>1 DEF LoopsGuarded
  <2> QED BY <2>1 DEF EnoughLeft
<1> QED BY <1>10, <1>11, <1>12, <1>13

\* Steps that move an engine and the mutex only.
LEMMA OtherStepsKeep ==
  ASSUME GpuInv, NEW s \in Session,
         \/ TakeMutex(s) \/ DropMutex(s) \/ LockEnd(s) \/ ReleaseBegin(s) \/ ReleaseEnd(s)
         \/ \E n \in 0..MaxRequest : LockRefused(s, n) \/ LockBegin(s, n)
  PROVE  GpuInv'
<1> USE DEF GpuInv
<1>1. UNCHANGED <<deviceUseCount, device_id>>
      BY DEF TakeMutex, DropMutex, LockEnd, ReleaseBegin, ReleaseEnd, LockRefused, LockBegin
<1>2. PlacesApart' /\ Available' = Available
      BY <1>1, PlacesKept
<1>3. GpuTypeOK'
  <2>1. deviceUseCount' \in [Device -> Nat] /\ device_id' \in [Session -> Seq(Device)]
        BY <1>1 DEF GpuTypeOK
  <2>2. mutex' \in Session \union {None}
        BY DEF GpuTypeOK, TakeMutex, DropMutex, LockEnd, ReleaseBegin, ReleaseEnd, LockRefused, LockBegin
  <2>3. \/ engine' = engine
        \/ \E p \in {"locked", "releasing", "released", "refused", "locking"} :
             engine' = [engine EXCEPT ![s] = p]
        BY DEF TakeMutex, DropMutex, LockEnd, ReleaseBegin, ReleaseEnd, LockRefused, LockBegin
  <2>4. engine' \in [Session -> {"idle", "locking", "locked", "refused", "releasing", "released"}]
        BY <2>3 DEF GpuTypeOK
  <2>5. 0 \in 0..MaxRequest BY DeviceAssumption
  <2>6. \/ GPUs' = GPUs
        \/ \E n \in 0..MaxRequest : GPUs' = [GPUs EXCEPT ![s] = n]
        BY <2>5 DEF TakeMutex, DropMutex, LockEnd, ReleaseBegin, ReleaseEnd, LockRefused, LockBegin
  <2>7. GPUs' \in [Session -> 0..MaxRequest]
        BY <2>6 DEF GpuTypeOK
  <2> QED BY <2>1, <2>2, <2>4, <2>7 DEF GpuTypeOK
<1>4. \A t \in Session : GPUs[t] \in Nat /\ Len(device_id[t]) \in Nat /\ (device_id[t] = <<>> => Len(device_id[t]) = 0)
      BY DEF GpuTypeOK
<1>5. CASE TakeMutex(s)
      BY <1>5, <1>1, <1>2, <1>3, NoneAssumption DEF LoopsGuarded, EnoughLeft, TakeMutex
<1>6. CASE DropMutex(s)
      BY <1>6, <1>1, <1>2, <1>3, NoneAssumption DEF LoopsGuarded, EnoughLeft, DropMutex
<1>7. CASE LockEnd(s)
  <2>1. LoopsGuarded' BY <1>7, <1>1, NoneAssumption DEF LoopsGuarded, NoDevices, LockEnd, GpuTypeOK
  <2>2. EnoughLeft' BY <1>7, <1>1, <1>2 DEF EnoughLeft, LockEnd, GpuTypeOK
  <2> QED BY <2>1, <2>2, <1>2, <1>3
<1>8. CASE ReleaseBegin(s)
  <2>1. LoopsGuarded' BY <1>8, <1>1, NoneAssumption DEF LoopsGuarded, NoDevices, ReleaseBegin, GpuTypeOK
  <2>2. EnoughLeft' BY <1>8, <1>1, <1>2 DEF EnoughLeft, ReleaseBegin, GpuTypeOK
  <2> QED BY <2>1, <2>2, <1>2, <1>3
<1>9. CASE ReleaseEnd(s)
  <2>1. /\ engine' = [engine EXCEPT ![s] = "released"] /\ GPUs' = [GPUs EXCEPT ![s] = 0]
        /\ mutex' = None /\ device_id[s] = <<>> /\ engine[s] = "releasing"
        BY <1>9 DEF ReleaseEnd
  <2>2. \A t \in Session : Len(device_id'[t]) <= GPUs'[t]
    <3> SUFFICES ASSUME NEW t \in Session PROVE Len(device_id[t]) <= GPUs'[t] BY <1>1
    <3>1. CASE t = s
      <4>1. GPUs'[t] = 0 /\ Len(device_id[t]) = 0 BY <3>1, <2>1, <1>4 DEF GpuTypeOK
      <4>2. 0 <= 0 OBVIOUS
      <4> QED BY ONLY <4>1, <4>2, Zenon
    <3>2. CASE t # s BY <3>2, <2>1 DEF LoopsGuarded, GpuTypeOK
    <3> QED BY <3>1, <3>2
  <2>3. \A t \in Session : engine[t] \in {"locking", "releasing"} => t = s
        BY <2>1 DEF LoopsGuarded
  <2>4. \A t \in Session : engine'[t] \notin {"locking", "releasing"}
        BY <2>1, <2>3 DEF GpuTypeOK
  <2>5. \A t \in Session : engine'[t] \in NoDevices => device_id'[t] = <<>>
        BY <2>1, <1>1 DEF LoopsGuarded, GpuTypeOK, NoDevices
  <2>6. \A t \in Session : engine'[t] = "locked" => Len(device_id'[t]) = GPUs'[t]
        BY <2>1, <1>1 DEF LoopsGuarded, GpuTypeOK
  <2>7. LoopsGuarded' BY <2>2, <2>4, <2>5, <2>6 DEF LoopsGuarded
  <2>8. EnoughLeft' BY <2>4 DEF EnoughLeft
  <2> QED BY <2>7, <2>8, <1>2, <1>3
<1>10. ASSUME NEW n \in 0..MaxRequest, LockRefused(s, n) \/ LockBegin(s, n)
       PROVE  GpuInv'
  <2>1. /\ mutex = None /\ engine[s] = "idle"
        /\ GPUs' = [GPUs EXCEPT ![s] = n]
        /\ \/ engine' = [engine EXCEPT ![s] = "refused"] /\ mutex' = mutex
           \/ /\ engine' = [engine EXCEPT ![s] = "locking"] /\ mutex' = s
              /\ Cardinality(Available) >= n
        BY <1>10 DEF LockRefused, LockBegin
  <2>2. n \in Nat BY DeviceAssumption
  <2>3. device_id[s] = <<>> /\ Len(device_id[s]) = 0
        BY <2>1, <1>4 DEF LoopsGuarded, NoDevices
  <2>4. \A t \in Session : engine[t] \notin {"locking", "releasing"}
        BY <2>1, NoneAssumption DEF LoopsGuarded
  <2>5. \A t \in Session : Len(device_id'[t]) <= GPUs'[t]
    <3> SUFFICES ASSUME NEW t \in Session PROVE Len(device_id[t]) <= GPUs'[t] BY <1>1
    <3>1. CASE t = s
      <4>1. GPUs'[t] = n /\ Len(device_id[t]) = 0 BY <3>1, <2>1, <2>3 DEF GpuTypeOK
      <4>2. 0 <= n BY <2>2
      <4> QED BY ONLY <4>1, <4>2, Zenon
    <3>2. CASE t # s BY <3>2, <2>1 DEF LoopsGuarded, GpuTypeOK
    <3> QED BY <3>1, <3>2
  <2>6. \A t \in Session \ {s} : engine'[t] = engine[t] /\ GPUs'[t] = GPUs[t]
        BY <2>1 DEF GpuTypeOK
  <2>7. engine'[s] \in {"refused", "locking"} /\ (engine'[s] = "locking" => mutex' = s) /\ GPUs'[s] = n
        BY <2>1 DEF GpuTypeOK
  <2>8. LoopsGuarded'
        BY <1>1, <2>3, <2>4, <2>5, <2>6, <2>7 DEF LoopsGuarded, NoDevices
  <2>9. EnoughLeft'
    <3> SUFFICES ASSUME NEW t \in Session, engine'[t] = "locking"
                 PROVE  Cardinality(Available) >= GPUs'[t] - Len(device_id[t])
                 BY <1>1, <1>2 DEF EnoughLeft
    <3>1. t = s BY <2>4, <2>6
    <3>2. Cardinality(Available) >= n BY <2>1, <3>1 DEF GpuTypeOK
    <3>3. Cardinality(Available) >= n - 0 BY <3>2, <2>2, AvailableFinite
    <3>4. GPUs'[t] = n /\ Len(device_id[t]) = 0 BY <3>1, <2>3, <2>7
    <3> QED BY ONLY <3>3, <3>4, Zenon
  <2> QED BY <2>8, <2>9, <1>2, <1>3
<1> QED BY <1>5, <1>6, <1>7, <1>8, <1>9, <1>10

\* A restart unlocks everything.
LEMMA ResetKeeps ==
  ASSUME GpuInv, GpuReset
  PROVE  GpuInv'
<1> USE DEF GpuInv, GpuReset
<1>1. GpuTypeOK' BY DeviceAssumption DEF GpuTypeOK
<1>2. PlacesApart' BY DEF PlacesApart
<1>3. LoopsGuarded'
  <2>1. \A s \in Session : device_id'[s] = <<>> /\ GPUs'[s] = 0 OBVIOUS
  <2>2. \A s \in Session : Len(device_id'[s]) = 0 BY <2>1
  <2>3. \A s \in Session : Len(device_id'[s]) <= GPUs'[s]
    <3>1. 0 <= 0 OBVIOUS
    <3> QED BY ONLY <2>1, <2>2, <3>1, Zenon
  <2>4. \A s \in Session : engine'[s] \notin {"locking", "releasing", "locked"} OBVIOUS
  <2> QED BY <2>1, <2>3, <2>4 DEF LoopsGuarded
<1>4. EnoughLeft'
  <2>1. \A s \in Session : engine'[s] # "locking" OBVIOUS
  <2> QED BY <2>1 DEF EnoughLeft
<1> QED BY <1>1, <1>2, <1>3, <1>4

\* Every step of the locks keeps their invariant.
LEMMA GpuInvNext == GpuInv /\ [GpuNext]_gpuVars => GpuInv'
<1> SUFFICES ASSUME GpuInv, [GpuNext]_gpuVars PROVE GpuInv' OBVIOUS
<1>1. CASE UNCHANGED gpuVars
  <2> USE <1>1 DEF gpuVars
  <2>1. GpuTypeOK' BY DEF GpuInv, GpuTypeOK
  <2>2. PlacesApart' /\ Available' = Available BY PlacesKept DEF GpuInv
  <2>3. LoopsGuarded' BY DEF GpuInv, LoopsGuarded
  <2>4. EnoughLeft' BY <2>2 DEF GpuInv, EnoughLeft
  <2> QED BY <2>1, <2>2, <2>3, <2>4 DEF GpuInv
<1>2. CASE GpuReset BY <1>2, ResetKeeps
<1>3. ASSUME NEW s \in Session, LockOne(s) PROVE GpuInv' BY <1>3, LockOneKeeps
<1>4. ASSUME NEW s \in Session, ReleaseOne(s) PROVE GpuInv' BY <1>4, ReleaseOneKeeps
<1>5. ASSUME NEW s \in Session,
             \/ TakeMutex(s) \/ DropMutex(s) \/ LockEnd(s) \/ ReleaseBegin(s) \/ ReleaseEnd(s)
             \/ \E n \in 0..MaxRequest : LockRefused(s, n) \/ LockBegin(s, n)
      PROVE  GpuInv'
      BY <1>5, OtherStepsKeep
<1> QED BY <1>1, <1>2, <1>3, <1>4, <1>5 DEF GpuNext

\* Places that are apart, with exact counts, are what exclusion means.
LEMMA PlacesExclusive == GpuInv => DevicesExclusive
<1> SUFFICES ASSUME GpuInv PROVE DevicesExclusive OBVIOUS
<1> USE DEF GpuInv
<1>1. \A s \in Session : Len(device_id[s]) \in 0..MaxRequest
  <2> SUFFICES ASSUME NEW s \in Session PROVE Len(device_id[s]) \in 0..MaxRequest OBVIOUS
  <2>1. Len(device_id[s]) \in Nat /\ GPUs[s] \in 0..MaxRequest /\ Len(device_id[s]) <= GPUs[s]
        BY DEF GpuTypeOK, LoopsGuarded
  <2> QED BY <2>1, DeviceAssumption
<1>2. \A s \in Session : \A i \in 1..Len(device_id[s]) : <<s, i>> \in Held
  <2> SUFFICES ASSUME NEW s \in Session, NEW i \in 1..Len(device_id[s])
               PROVE  <<s, i>> \in Held
               OBVIOUS
  <2>1. i \in 1..MaxRequest /\ i <= Len(device_id[s]) BY <1>1, DeviceAssumption
  <2>2. <<s, i>> \in Session \X (1..MaxRequest) BY <2>1
  <2>3. <<s, i>>[1] = s /\ <<s, i>>[2] = i OBVIOUS
  <2> QED BY <2>1, <2>2, <2>3, Zenon DEF Held
<1>3. \A p \in Held : p[1] \in Session /\ p[2] \in 1..Len(device_id[p[1]]) /\ p = <<p[1], p[2]>>
      BY <1>1 DEF Held
<1>4. \A p, q \in Held : device_id[p[1]][p[2]] = device_id[q[1]][q[2]] => p = q
  <2> SUFFICES ASSUME NEW p \in Held, NEW q \in Held,
                      device_id[p[1]][p[2]] = device_id[q[1]][q[2]]
               PROVE  p = q
               OBVIOUS
  <2>1. p[1] = q[1] /\ p[2] = q[2] BY <1>3 DEF PlacesApart
  <2> QED BY <2>1, <1>3
<1>5. \A d \in Device :
        deviceUseCount[d] = IF \E p \in Held : device_id[p[1]][p[2]] = d THEN 1 ELSE 0
  <2> SUFFICES ASSUME NEW d \in Device
               PROVE  deviceUseCount[d] = IF \E p \in Held : device_id[p[1]][p[2]] = d THEN 1 ELSE 0
               OBVIOUS
  <2>1. CASE deviceUseCount[d] = 1
    <3>1. PICK s \in Session : \E i \in 1..Len(device_id[s]) : device_id[s][i] = d
          BY <2>1 DEF PlacesApart
    <3>2. PICK i \in 1..Len(device_id[s]) : device_id[s][i] = d BY <3>1
    <3>3. \E p \in Held : device_id[p[1]][p[2]] = d
      <4>1. <<s, i>> \in Held /\ device_id[<<s, i>>[1]][<<s, i>>[2]] = d BY <3>2, <1>2
      <4> QED BY <4>1
    <3> QED BY <2>1, <3>3
  <2>2. CASE deviceUseCount[d] = 0
    <3>1. ~ \E p \in Held : device_id[p[1]][p[2]] = d BY <2>2, <1>3 DEF PlacesApart
    <3> QED BY <2>2, <3>1
  <2> QED BY <2>1, <2>2 DEF PlacesApart
<1> QED BY <1>4, <1>5 DEF DevicesExclusive, LoopsGuarded

\* No two sessions are ever given the same GPU, and the use counts say so:
\* lockGpuDevices and releaseGpuDevices, for any number of GPUs and sessions.
THEOREM DevicesNeverShared == GpuSpec => []DevicesExclusive
<1>1. GpuSpec => []GpuInv
      BY GpuInvInit, GpuInvNext, PTL DEF GpuSpec
<1> QED BY <1>1, PlacesExclusive, PTL
-------------------------------------------------------------------------------
\* The sockets: a number that is taken is its session's, and a session that uses
\* its number has it, unless a client was lost inside error_close.
TakenIsUsed ==
  \A d \in Descriptor : owner[d] # None => conn[owner[d]] \in InUse /\ fd[owner[d]] = d

UsedIsTaken ==
  \A s \in Session : conn[s] \in InUse => fd[s] \in Descriptor /\ (~lostDone => owner[fd[s]] = s)

ConnInv == ConnTypeOK /\ TakenIsUsed /\ UsedIsTaken

\* Every step of the connections keeps their invariant.
LEMMA ConnInvNext == ConnInv /\ [ConnNext]_connVars => ConnInv'
<1> SUFFICES ASSUME ConnInv, [ConnNext]_connVars PROVE ConnInv' OBVIOUS
<1> USE DEF ConnInv
<1>0. CASE UNCHANGED connVars
      BY <1>0 DEF connVars, ConnTypeOK, TakenIsUsed, UsedIsTaken
<1>1. ASSUME NEW s \in Session, Accept(s) PROVE ConnInv'
  <2>1. PICK d \in Descriptor : /\ owner[d] = None
                                /\ fd' = [fd EXCEPT ![s] = d]
                                /\ owner' = [owner EXCEPT ![d] = s]
        BY <1>1 DEF Accept
  <2>2. conn[s] = "new" /\ conn' = [conn EXCEPT ![s] = "open"] /\ lostDone' = lostDone
        BY <1>1 DEF Accept
  <2>3. ConnTypeOK' BY <2>1, <2>2 DEF ConnTypeOK, InUse
  <2>4. TakenIsUsed'
        BY <2>1, <2>2, NoneAssumption DEF ConnTypeOK, TakenIsUsed, InUse
  <2>5. UsedIsTaken'
        BY <2>1, <2>2, NoneAssumption DEF ConnTypeOK, UsedIsTaken, InUse
  <2> QED BY <2>3, <2>4, <2>5
<1>2. ASSUME NEW s \in Session, ExchangeOk(s) PROVE ConnInv'
      BY <1>2, <1>0 DEF ExchangeOk
<1>3. ASSUME NEW s \in Session, ExchangeFails(s) \/ CloseSocket(s) \/ ErrorEnd(s)
      PROVE  ConnInv'
  <2>1. /\ conn[s] \in InUse /\ owner' = [owner EXCEPT ![fd[s]] = None]
        /\ conn' = [conn EXCEPT ![s] = "shut"] /\ fd' = [fd EXCEPT ![s] = None]
        /\ lostDone' = lostDone
        BY <1>3 DEF ExchangeFails, CloseSocket, ErrorEnd, Close, InUse
  <2>2. ConnTypeOK' BY <2>1 DEF ConnTypeOK
  <2>3. TakenIsUsed'
        BY <2>1, NoneAssumption DEF ConnTypeOK, TakenIsUsed, InUse
  <2>4. UsedIsTaken'
        BY <2>1, NoneAssumption DEF ConnTypeOK, UsedIsTaken, InUse
  <2> QED BY <2>2, <2>3, <2>4
<1>4. ASSUME NEW s \in Session, ErrorClose(s) \/ ErrorSend(s) \/ ErrorRecv(s)
      PROVE  ConnInv'
  <2>1. /\ conn[s] \in InUse /\ fd' = fd
        /\ \E c \in {"errSend", "errRecv", "errClose"} : conn' = [conn EXCEPT ![s] = c]
        /\ \/ owner' = owner /\ lostDone' = lostDone
           \/ owner' = [owner EXCEPT ![fd[s]] = None] /\ lostDone' = TRUE
        BY <1>4 DEF ErrorClose, ErrorSend, ErrorRecv, Close, InUse
  <2>2. ConnTypeOK' BY <2>1 DEF ConnTypeOK, InUse
  <2>3. TakenIsUsed' BY <2>1 DEF ConnTypeOK, TakenIsUsed, InUse
  <2>4. UsedIsTaken' BY <2>1 DEF ConnTypeOK, UsedIsTaken, InUse
  <2> QED BY <2>2, <2>3, <2>4
<1>5. CASE ConnReset
      BY <1>5 DEF ConnReset, ConnTypeOK, TakenIsUsed, UsedIsTaken, InUse
<1> QED BY <1>0, <1>1, <1>2, <1>3, <1>4, <1>5 DEF ConnNext

\* Nobody is connected at first.
LEMMA ConnInvInit == ConnInit => ConnInv
BY DEF ConnInit, ConnInv, ConnTypeOK, TakenIsUsed, UsedIsTaken, InUse

\* No session ever uses a descriptor that has become another client's, as long
\* as no client was lost inside error_close: for any number of sessions.
THEOREM DescriptorsNeverMixed == ConnSpec => []OwnDescriptor
<1>1. ConnSpec => []ConnInv
      BY ConnInvInit, ConnInvNext, PTL DEF ConnSpec
<1>2. ConnInv => OwnDescriptor
      BY DEF ConnInv, UsedIsTaken, OwnDescriptor
<1> QED BY <1>1, <1>2, PTL
-------------------------------------------------------------------------------
\* Every step of a session of ServerSessions is, for the devices, a step of
\* GpuLocks or none, and for the descriptors a step of Connections or none.
SharedNext == [GpuNext]_gpuVars /\ [ConnNext]_connVars

\* The end of the process resets both parts.
LEMMA EndingShares ==
  ASSUME NEW how, ProcessEnds(how)
  PROVE  SharedNext
BY DEF ProcessEnds, SharedNext, GpuNext, ConnNext

\* The steps of a compiler session.
LEMMA CompilerShares ==
  ASSUME NEW s \in Session, CompilerStep(s)
  PROVE  SharedNext
<1> USE DEF SharedNext
<1>1. CASE Check(s) BY <1>1 DEF Check, Refuse, ConnNext
<1>2. CASE CountBegin(s) BY <1>2 DEF CountBegin, GpuNext
<1>3. CASE CountEnd(s) BY <1>3 DEF CountEnd, GpuNext
<1>4. CASE RemoveFolder(s) BY <1>4 DEF RemoveFolder, Refuse, ConnNext
<1>5. CASE MakeDirs(s) BY <1>5, EndingShares DEF MakeDirs
<1>6. CASE Receive(s) BY <1>6, EndingShares DEF Receive, Refuse, Talk, ConnNext
<1>7. CASE Chdir(s) BY <1>7 DEF Chdir
<1>8. CASE Generate(s) BY <1>8 DEF Generate, Talk, ConnNext
<1>9. CASE ReadLog(s) BY <1>9 DEF ReadLog, Talk, Refuse, ConnNext
<1>10. CASE Cmake(s) BY <1>10 DEF Cmake
<1>11. CASE Make(s) BY <1>11 DEF Make, Talk, ConnNext
<1>12. CASE Stat(s) BY <1>12 DEF Stat, Talk, ConnNext
<1>13. CASE StepFailed(s) BY <1>13 DEF StepFailed, Refuse, ConnNext
<1>14. CASE WriteConfig(s) BY <1>14, EndingShares DEF WriteConfig, Talk, ConnNext
<1>15. CASE ListModel(s) BY <1>15 DEF ListModel
<1>16. CASE Done(s) BY <1>16 DEF Done, Talk, ConnNext
<1> QED BY <1>1, <1>2, <1>3, <1>4, <1>5, <1>6, <1>7, <1>8, <1>9, <1>10, <1>11,
           <1>12, <1>13, <1>14, <1>15, <1>16 DEF CompilerStep

\* The steps of an inference session.
LEMMA InferenceShares ==
  ASSUME NEW s \in Session, InferenceStep(s)
  PROVE  SharedNext
<1> USE DEF SharedNext
<1>1. CASE Lock(s)
  <2>1. \A n \in 1..MaxRequest : n \in 0..MaxRequest BY DeviceAssumption
  <2> QED BY <1>1, <2>1 DEF Lock, GpuNext
<1>2. CASE Lookup(s) BY <1>2 DEF Lookup, Refuse, ConnNext
<1>3. CASE Load(s) BY <1>3 DEF Load
<1>4. CASE NotFound(s) BY <1>4 DEF NotFound, ConnNext
<1>5. CASE Serve(s) BY <1>5 DEF Serve, Talk, ConnNext
<1>6. CASE Release(s) BY <1>6 DEF Release, GpuNext
<1> QED BY <1>1, <1>2, <1>3, <1>4, <1>5, <1>6 DEF InferenceStep

\* The steps of any session.
LEMMA SessionShares ==
  ASSUME NEW s \in Session, SessionStep(s)
  PROVE  SharedNext
<1> USE DEF SharedNext
<1>1. CASE Dispatch(s) BY <1>1 DEF Dispatch, Talk, ConnNext
<1>2. CASE CompilerStep(s) BY <1>2, CompilerShares
<1>3. CASE ConfigureStep(s)
      BY <1>3 DEF ConfigureStep, CountModels, SendEntry, Talk, ConnNext
<1>4. CASE InferenceStep(s) BY <1>4, InferenceShares
<1>5. CASE ShadowStep(s)
      BY <1>5 DEF ShadowStep, Shadow, ShadowLoop, Talk, Refuse, ConnNext
<1>6. CASE ClientLost(s) BY <1>6 DEF ClientLost, ConnNext
<1>7. CASE Failing(s) BY <1>7 DEF Failing, ConnNext
<1>8. CASE Finish(s) BY <1>8 DEF Finish, ConnNext
<1> QED BY <1>1, <1>2, <1>3, <1>4, <1>5, <1>6, <1>7, <1>8 DEF SessionStep

\* Every step of the server.
LEMMA NextShares == [Next]_vars => SharedNext
<1> SUFFICES ASSUME [Next]_vars PROVE SharedNext OBVIOUS
<1>1. CASE UNCHANGED vars BY <1>1 DEF vars, SharedNext
<1>2. ASSUME NEW s \in Session, Connect(s) PROVE SharedNext
      BY <1>2 DEF Connect, SharedNext, ConnNext
<1>3. ASSUME NEW s \in Session, SessionStep(s) PROVE SharedNext
      BY <1>3, SessionShares
<1>4. CASE Crash BY <1>4, EndingShares DEF Crash
<1>5. CASE Restart BY <1>5 DEF Restart, SharedNext
<1>6. CASE Idle BY <1>1, <1>6 DEF Idle
<1> QED BY <1>1, <1>2, <1>3, <1>4, <1>5, <1>6 DEF Next

\* The server as a whole locks devices as GpuLocks does and uses descriptors
\* as Connections does: what is proved of these holds of the whole server.
THEOREM ServerImplementsParts == Spec => GpuSpec /\ ConnSpec
<1>1. Init => GpuInit /\ ConnInit BY DEF Init
<1>2. [Next]_vars => [GpuNext]_gpuVars /\ [ConnNext]_connVars
      BY NextShares DEF SharedNext
<1> QED BY <1>1, <1>2, PTL DEF Spec, GpuSpec, ConnSpec

\* Whatever compilations, shadow and configure sessions do in between, no two
\* inference sessions of the server are given the same GPU.
THEOREM ServerDevicesNeverShared == Spec => []DevicesExclusive
BY ServerImplementsParts, DevicesNeverShared, PTL

\* No session of the server talks to another session's client, as long as no
\* client was lost inside error_close.
THEOREM ServerDescriptorsNeverMixed == Spec => []OwnDescriptor
BY ServerImplementsParts, DescriptorsNeverMixed, PTL
-------------------------------------------------------------------------------
\* How far a session's thread, its connection and its engine are together.
TogetherAt(s) ==
  /\ phase[s] # "new" => conn[s] # "new"
  /\ phase[s] \in {"returned", "ended"} => conn[s] = "shut"
  /\ phase[s] = "ended" => engine[s] \in NoDevices
  /\ phase[s] \in {"new", "accepted"} => engine[s] = "idle"

Together ==
  /\ phase = [s \in Session |-> phase[s]]
  /\ \A s \in Session : TogetherAt(s)

EndInv == GpuInv /\ ConnInv /\ Together

\* What a step of one session's thread leaves alone.
Alone(s) ==
  /\ phase' = [t \in Session |-> phase'[t]]
  /\ \A t \in Session \ {s} :
       phase'[t] = phase[t] /\ conn'[t] = conn[t] /\ engine'[t] = engine[t]

\* A step of one session leaves the agreement of the others alone.
LEMMA AloneKeeps ==
  ASSUME EndInv, NEW s \in Session, Alone(s), TogetherAt(s)'
  PROVE  Together'
BY DEF Alone, TogetherAt, EndInv, Together

\* What the steps of a session are put together from.
LEMMA Moved ==
  ASSUME EndInv, NEW s \in Session, NEW p, Goto(s, p)
  PROVE  /\ phase' = [t \in Session |-> phase'[t]]
         /\ phase'[s] = p
         /\ \A t \in Session \ {s} : phase'[t] = phase[t]
BY DEF Goto, EndInv, Together

\* What an assignment to the connection of one session does.
LEMMA ConnMoved ==
  ASSUME EndInv, NEW s \in Session, NEW c, conn' = [conn EXCEPT ![s] = c]
  PROVE  conn'[s] = c /\ \A t \in Session \ {s} : conn'[t] = conn[t]
BY DEF EndInv, ConnInv, ConnTypeOK

\* What an assignment to the engine of one session does.
LEMMA EngineMoved ==
  ASSUME EndInv, NEW s \in Session, NEW e, engine' = [engine EXCEPT ![s] = e]
  PROVE  engine'[s] = e /\ \A t \in Session \ {s} : engine'[t] = engine[t]
BY DEF EndInv, GpuInv, GpuTypeOK

\* What a step has to show: phase, engine and connection still agree after it.
KeepsTogether == Together'

\* The session goes on and neither connection nor engine change.
LEMMA GotoQuiet ==
  ASSUME EndInv, NEW s \in Session, NEW p, Goto(s, p), phase[s] # "new",
         p \notin {"new", "accepted", "returned", "ended"},
         UNCHANGED <<conn, engine>>
  PROVE  KeepsTogether
<1>1. phase'[s] = p /\ Alone(s) BY Moved DEF Alone
<1>2. TogetherAt(s)' BY <1>1 DEF TogetherAt, EndInv, Together
<1> QED BY <1>1, <1>2, AloneKeeps DEF KeepsTogether

\* An exchange with the client that works.
LEMMA TalkQuiet ==
  ASSUME EndInv, NEW s \in Session, NEW p, Talk(s, p), phase[s] # "new",
         p \notin {"new", "accepted", "returned", "ended"},
         UNCHANGED engine
  PROVE  KeepsTogether
<1>1. Goto(s, p) /\ UNCHANGED conn BY DEF Talk, ExchangeOk, connVars
<1> QED BY <1>1, GotoQuiet

\* A refusal.
LEMMA RefuseQuiet ==
  ASSUME EndInv, NEW s \in Session, Refuse(s), UNCHANGED engine
  PROVE  KeepsTogether
<1>1. Goto(s, "failing") /\ conn' = [conn EXCEPT ![s] = "errSend"]
      BY DEF Refuse, ErrorClose
<1>2. phase'[s] = "failing" /\ conn'[s] = "errSend" /\ Alone(s)
      BY <1>1, Moved, ConnMoved DEF Alone
<1>3. TogetherAt(s)' BY <1>2 DEF TogetherAt
<1> QED BY <1>2, <1>3, AloneKeeps DEF KeepsTogether

\* A session closes its connection and returns.
LEMMA ShutQuiet ==
  ASSUME EndInv, NEW s \in Session, Goto(s, "returned"), UNCHANGED engine,
         conn' = [conn EXCEPT ![s] = "shut"]
  PROVE  KeepsTogether
<1>1. phase'[s] = "returned" /\ conn'[s] = "shut" /\ Alone(s)
      BY Moved, ConnMoved DEF Alone
<1>2. TogetherAt(s)' BY <1>1 DEF TogetherAt
<1> QED BY <1>1, <1>2, AloneKeeps DEF KeepsTogether

\* When the process ends all sessions have ended.
LEMMA EndingKeeps ==
  ASSUME EndInv, NEW how, ProcessEnds(how)
  PROVE  Together'
BY DEF EndInv, Together, TogetherAt, ProcessEnds, GpuReset, ConnReset, GpuInv, GpuTypeOK,
       ConnInv, ConnTypeOK, NoDevices

\* The steps of a compiler session keep the agreement.
LEMMA CompilerKeeps ==
  ASSUME EndInv, NEW s \in Session, CompilerStep(s)
  PROVE  Together'
<1> SUFFICES KeepsTogether BY DEF KeepsTogether
<1> USE TalkQuiet, RefuseQuiet, GotoQuiet DEF gpuVars, connVars
<1>1. CASE Check(s) BY <1>1 DEF Check
<1>2. CASE CountBegin(s) BY <1>2 DEF CountBegin, TakeMutex
<1>3. CASE CountEnd(s) BY <1>3 DEF CountEnd, DropMutex
<1>4. CASE RemoveFolder(s) BY <1>4 DEF RemoveFolder
<1>5. CASE MakeDirs(s) BY <1>5, EndingKeeps DEF MakeDirs, KeepsTogether
<1>6. CASE Receive(s) BY <1>6, EndingKeeps DEF Receive, KeepsTogether
<1>7. CASE Chdir(s) BY <1>7 DEF Chdir
<1>8. CASE Generate(s) BY <1>8 DEF Generate
<1>9. CASE ReadLog(s) BY <1>9 DEF ReadLog
<1>10. CASE Cmake(s) BY <1>10 DEF Cmake
<1>11. CASE Make(s) BY <1>11 DEF Make
<1>12. CASE Stat(s) BY <1>12 DEF Stat
<1>13. CASE StepFailed(s) BY <1>13 DEF StepFailed
<1>14. CASE WriteConfig(s) BY <1>14, EndingKeeps DEF WriteConfig, KeepsTogether
<1>15. CASE ListModel(s) BY <1>15 DEF ListModel
<1>16. CASE Done(s) BY <1>16 DEF Done
<1> QED BY <1>1, <1>2, <1>3, <1>4, <1>5, <1>6, <1>7, <1>8, <1>9, <1>10, <1>11,
           <1>12, <1>13, <1>14, <1>15, <1>16 DEF CompilerStep

\* The steps of an inference session keep the agreement.
LEMMA InferenceKeeps ==
  ASSUME EndInv, NEW s \in Session, InferenceStep(s)
  PROVE  Together'
<1> SUFFICES KeepsTogether BY DEF KeepsTogether
<1> USE TalkQuiet, RefuseQuiet, GotoQuiet DEF gpuVars, connVars
<1>1. CASE Lock(s)
  <2>1. phase[s] = "lock" /\ conn' = conn /\ Goto(s, IF engine'[s] \in {"locked", "refused"} THEN "lookup" ELSE "lock")
        BY <1>1 DEF Lock
  <2>2. \A t \in Session \ {s} : engine'[t] = engine[t]
        BY <1>1, EngineMoved DEF Lock, LockRefused, LockBegin, LockOne, LockEnd
  <2>3. phase'[s] \in {"lookup", "lock"} /\ Alone(s)
        BY <2>1, <2>2, Moved DEF Alone
  <2>4. TogetherAt(s)' BY <2>1, <2>3 DEF TogetherAt, EndInv, Together
  <2> QED BY <2>3, <2>4, AloneKeeps DEF KeepsTogether
<1>2. CASE Lookup(s) BY <1>2 DEF Lookup
<1>3. CASE Load(s) BY <1>3 DEF Load
<1>4. CASE NotFound(s) BY <1>4, ShutQuiet DEF NotFound, CloseSocket
<1>5. CASE Serve(s) BY <1>5 DEF Serve
<1>6. CASE Release(s)
  <2>1. phase[s] \in {"returned", "returned0"} /\ phase' = phase /\ conn' = conn
        BY <1>6 DEF Release
  <2>2. \A t \in Session \ {s} : engine'[t] = engine[t]
        BY <1>6, EngineMoved DEF Release, ReleaseBegin, ReleaseOne, ReleaseEnd
  <2>3. Alone(s) BY <2>1, <2>2 DEF Alone, EndInv, Together
  <2>4. TogetherAt(s)' BY <2>1 DEF TogetherAt, EndInv, Together
  <2> QED BY <2>3, <2>4, AloneKeeps DEF KeepsTogether
<1> QED BY <1>1, <1>2, <1>3, <1>4, <1>5, <1>6 DEF InferenceStep

\* The steps of any session keep the agreement.
LEMMA SessionKeeps ==
  ASSUME EndInv, NEW s \in Session, SessionStep(s)
  PROVE  Together'
<1> SUFFICES KeepsTogether BY DEF KeepsTogether
<1> USE TalkQuiet, RefuseQuiet, GotoQuiet DEF gpuVars, connVars
<1>1. CASE Dispatch(s)
  <2>1. phase[s] = "accepted" /\ engine[s] = "idle" /\ engine' = engine
        BY <1>1 DEF Dispatch, EndInv, Together, TogetherAt
  <2>2. CASE \E first \in {"countModels", "check", "lock", "shadow"} : Talk(s, first)
        BY <2>1, <2>2
  <2>3. CASE CloseSocket(s) /\ Goto(s, "ended")
    <3>1. phase'[s] = "ended" /\ conn'[s] = "shut" /\ Alone(s)
          BY <2>1, <2>3, Moved, ConnMoved DEF CloseSocket, Alone
    <3>2. TogetherAt(s)' BY <2>1, <3>1 DEF TogetherAt, NoDevices
    <3> QED BY <3>1, <3>2, AloneKeeps DEF KeepsTogether
  <2> QED BY <1>1, <2>2, <2>3 DEF Dispatch
<1>2. CASE CompilerStep(s) BY <1>2, CompilerKeeps DEF KeepsTogether
<1>3. CASE ConfigureStep(s) BY <1>3 DEF ConfigureStep, CountModels, SendEntry
<1>4. CASE InferenceStep(s) BY <1>4, InferenceKeeps DEF KeepsTogether
<1>5. CASE ShadowStep(s) BY <1>5 DEF ShadowStep, Shadow, ShadowLoop
<1>6. CASE ClientLost(s) BY <1>6, ShutQuiet DEF ClientLost, ExchangeFails
<1>7. CASE Failing(s)
  <2>1. phase[s] = "failing" /\ engine' = engine BY <1>7 DEF Failing
  <2>2. CASE ErrorEnd(s) /\ Goto(s, "returned") BY <2>1, <2>2, ShutQuiet DEF ErrorEnd
  <2>3. CASE (ErrorSend(s) \/ ErrorRecv(s)) /\ phase' = phase
    <3>1. conn'[s] \in {"errRecv", "errClose"} /\ \A t \in Session \ {s} : conn'[t] = conn[t]
          BY <2>3, ConnMoved DEF ErrorSend, ErrorRecv
    <3>2. Alone(s) BY <2>1, <2>3, <3>1 DEF Alone, EndInv, Together
    <3>3. TogetherAt(s)' BY <2>1, <2>3, <3>1 DEF TogetherAt
    <3> QED BY <3>2, <3>3, AloneKeeps DEF KeepsTogether
  <2> QED BY <1>7, <2>2, <2>3 DEF Failing
<1>8. CASE Finish(s)
  <2>1. /\ engine[s] \in NoDevices /\ engine' = engine /\ Goto(s, "ended")
        /\ phase[s] \in {"returned0", "returned"}
        BY <1>8 DEF Finish, NoDevices
  <2>2. conn'[s] = "shut" /\ \A t \in Session \ {s} : conn'[t] = conn[t]
    <3>1. CASE phase[s] = "returned0" BY <1>8, <3>1, ConnMoved DEF Finish, CloseSocket
    <3>2. CASE phase[s] = "returned" BY <1>8, <3>2 DEF Finish, EndInv, Together, TogetherAt
    <3> QED BY <2>1, <3>1, <3>2
  <2>3. phase'[s] = "ended" /\ Alone(s) BY <2>1, <2>2, Moved DEF Alone
  <2>4. TogetherAt(s)' BY <2>1, <2>2, <2>3 DEF TogetherAt
  <2> QED BY <2>3, <2>4, AloneKeeps DEF KeepsTogether
<1> QED BY <1>1, <1>2, <1>3, <1>4, <1>5, <1>6, <1>7, <1>8 DEF SessionStep

\* Every step of the server keeps the invariant.
LEMMA EndInvNext == EndInv /\ [Next]_vars => EndInv'
<1> SUFFICES ASSUME EndInv, [Next]_vars PROVE Together'
    BY NextShares, GpuInvNext, ConnInvNext DEF SharedNext, EndInv
<1>1. CASE UNCHANGED vars
      BY <1>1 DEF vars, gpuVars, connVars, EndInv, Together, TogetherAt
<1>2. ASSUME NEW s \in Session, Connect(s) PROVE Together'
  <2>1. phase[s] = "new" /\ engine[s] = "idle" /\ engine' = engine
        BY <1>2 DEF Connect, gpuVars, EndInv, Together, TogetherAt
  <2>2. conn'[s] = "open" /\ phase'[s] = "accepted" /\ Alone(s)
        BY <1>2, <2>1, Moved, ConnMoved DEF Connect, Accept, Alone
  <2>3. TogetherAt(s)' BY <2>1, <2>2 DEF TogetherAt
  <2> QED BY <2>2, <2>3, AloneKeeps
<1>3. ASSUME NEW s \in Session, SessionStep(s) PROVE Together' BY <1>3, SessionKeeps
<1>4. CASE Crash BY <1>4, EndingKeeps DEF Crash
<1>5. CASE Restart
      BY <1>5 DEF Restart, gpuVars, connVars, EndInv, Together, TogetherAt
<1>6. CASE Idle BY <1>1, <1>6 DEF Idle
<1> QED BY <1>1, <1>2, <1>3, <1>4, <1>5, <1>6 DEF Next

\* The server starts with nobody connected.
LEMMA EndInvInit == Init => EndInv
<1> SUFFICES ASSUME Init PROVE EndInv OBVIOUS
<1>1. GpuInv /\ ConnInv BY GpuInvInit, ConnInvInit DEF Init
<1>2. Together BY DEF Init, GpuInit, ConnInit, Together, TogetherAt
<1> QED BY <1>1, <1>2 DEF EndInv

\* A session that has ended has given back its descriptor and its GPUs, whichever
\* return it took and whatever its client did: for any number of sessions.
THEOREM EndedSessionsHoldNothing == Spec => []EndedHoldsNothing
<1>1. Spec => []EndInv
      BY EndInvInit, EndInvNext, PTL DEF Spec
<1>2. EndInv => EndedHoldsNothing
  <2> SUFFICES ASSUME EndInv, NEW s \in Session, phase[s] = "ended"
               PROVE  (\A d \in Descriptor : owner[d] # s) /\ device_id[s] = <<>>
               BY DEF EndedHoldsNothing
  <2>1. conn[s] = "shut" /\ engine[s] \in NoDevices
        BY DEF EndInv, Together, TogetherAt
  <2>2. device_id[s] = <<>> BY <2>1 DEF EndInv, GpuInv, LoopsGuarded
  <2>3. \A d \in Descriptor : owner[d] # s
        BY <2>1, NoneAssumption DEF EndInv, ConnInv, TakenIsUsed, InUse
  <2> QED BY <2>2, <2>3
<1> QED BY <1>1, <1>2, PTL
-------------------------------------------------------------------------------
\* What a directory can hold.
Content == [weights : Maker \union {None}, code : Maker \union {None}, log : Maker \union {None},
            make : BOOLEAN, lib : Library \union {None}, config : Config \union {None}]

\* The types of what the sessions keep and share, on disk and in memory.
Phase ==
  Exchanging \union
    {"new", "check", "count", "counting", "remove", "makeDirs", "chdir", "cmake", "list",
     "countModels", "lock", "lookup", "load", "shadow",
     "failing", "returned", "returned0", "ended"}

\* The variables of the sessions.
LocalTypes ==
  /\ phase \in [Session -> Phase]
  /\ folder \in [Session -> Folder \union {None}]
  /\ gen \in [Session -> Nat]
  /\ out \in [Session -> Maker \union {None}]
  /\ entry \in [Session -> Model \union {None}]
  /\ loaded \in [Session -> Library \union {None}]
  /\ toSend \in [Session -> Nat]
  /\ seen \in [Session -> Seq(Folder)]

\* What they share; the counter in the file is the one in memory, or torn.
StoreTypes ==
  /\ configured \in Seq(Model) /\ uploaded \in Seq(Model)
  /\ counter \in 0..MaxUploads
  /\ savedCounter \in {counter, Torn}
  /\ cwd \in [dir : Session \union {Start}, sub : BOOLEAN]
  /\ dirAt \in [Folder -> Maker \union {None}]
  /\ files \in [Maker -> Content]
  /\ up \in {"up", "fatal", "crashed"}
  /\ disturbed \subseteq Session
  /\ lostCounter \in BOOLEAN

\* The phases before a folder is chosen, the ones that use it, the ones in which
\* it has been made, and the ones after the model has been listed.
Early == {"new", "accepted", "check", "count", "counting"}
Made == {"receive", "chdir", "generate", "readLog", "cmake", "make", "stat", "config", "list"}
Foldered == Made \union {"remove", "makeDirs", "failed"}
Over == {"done", "returned", "returned0", "ended"}

\* No other session has chosen the folder of s.
Sole(s) == \A t \in Session \ {s} : folder[t] # folder[s]

\* Where each session is with its folder.
FolderAt(s) ==
  /\ phase[s] \in Early => folder[s] = None
  /\ phase[s] \in Foldered => folder[s] # None
  /\ phase[s] = "counting" => mutex = s /\ counter >= 1
  /\ up # "up" => phase[s] \in {"new", "ended"}

\* What the path of a folder leads to: the directory of a session that chose it,
\* or the one found at the start, until a session that chose it has removed it.
PathAt(n) ==
  /\ dirAt[n] \in Session => folder[dirAt[n]] = n
  /\ dirAt[n] \in Listed =>
       dirAt[n] = n /\ \A t \in Makers(n) : phase[t] \notin Made \union {"makeDirs"}

\* The folder of a session that shares it with no other.
PathOf(s) ==
  /\ phase[s] \in Early \union {"remove", "makeDirs"} => \A n \in Folder : dirAt[n] # s
  /\ Sole(s) /\ phase[s] = "makeDirs" => dirAt[folder[s]] = None
  /\ Sole(s) /\ phase[s] \in Made => dirAt[folder[s]] = s

\* The counter is ahead of every folder that was named by it.
CounterAhead ==
  ~lostCounter => \A t \in Session : folder[t] \in 1..MaxUploads =>
    /\ folder[t] <= counter
    /\ \A s \in Session : phase[s] = "counting" => folder[t] # counter

\* The parts about folders, and the invariant they are inductive in: with the
\* parts of GpuLocks and Connections, and the types.
FolderParts ==
  /\ \A s \in Session : FolderAt(s)
  /\ \A n \in Folder : PathAt(n)
  /\ \A s \in Session : PathOf(s)
  /\ CounterAhead /\ UploadFoldersApart /\ FatalOnlyOnSameName

FolderInv == EndInv /\ LocalTypes /\ StoreTypes /\ FolderParts

\* The list of models has one entry per name, and a configure session is at a
\* prefix of it.
NamesApart ==
  \A i, j \in 1..Len(configured) : configured[i].name = configured[j].name => i = j

SeenAt(s) ==
  /\ phase[s] \in {"new", "accepted", "countModels"} => seen[s] = <<>>
  /\ \A i, j \in 1..Len(seen[s]) : seen[s][i] = seen[s][j] => i = j
  /\ phase[s] = "entry" =>
       /\ Len(seen[s]) < toSend[s] /\ toSend[s] <= Len(configured)
       /\ \A i \in 1..Len(seen[s]) : seen[s][i] = configured[i].name
  /\ phase[s] = "entriesSent" => Len(seen[s]) = toSend[s]
  /\ phase[s] = "load" => entry[s] # None

ListInv == NamesApart /\ \A s \in Session : SeenAt(s)

\* In any directory each thing was made from the one before.
Chain(d) ==
  /\ files[d].code # None => files[d].weights # None
  /\ files[d].make => files[d].code # None
  /\ files[d].lib # None => files[d].lib.weights # None
  /\ files[d].config # None /\ d \in Session => files[d].config.from \in Session
  /\ files[d].config # None /\ files[d].config.from \in Session \ disturbed =>
       files[d].config.out = files[d].config.from

\* What is in the directory of a session that shares its folder with no other:
\* nothing but what it has put there itself, undisturbed or not.
OwnDir(s) ==
  folder[s] # None /\ Sole(s) =>
    /\ files[s].weights \in {None, s}
    /\ files[s].lib # None => files[s].lib.weights = s
    /\ files[s].config # None =>
         /\ files[s].config.from = s
         /\ files[s].lib # None
         /\ dirAt[folder[s]] = s
         /\ phase[s] \in Over \union {"list"}
    /\ s \notin disturbed =>
         /\ cwd.dir = s => \A t \in Session \ {s} : ~Building(t)
         /\ files[s].code \in {None, s}
         /\ files[s].lib # None => files[s].lib.dims = s
    /\ phase[s] \in {"config", "list"} => files[s].lib # None
    /\ phase[s] = "list" => files[s].config = [from |-> s, out |-> out[s]]
    /\ up = "up" /\ folder[s] \in SaveName /\ files[s].config # None =>
         \/ phase[s] = "list"
         \/ EntryOf(folder[s], s, files[s].config.out) \in ToSet(configured)

\* How far the compilation of s is, as long as no other one has shared the
\* working directory.
Undisturbed(s) ==
  /\ phase[s] \in Early \union {"remove", "makeDirs", "receive", "chdir"} => gen[s] = 1
  /\ phase[s] \in Early \union {"remove", "makeDirs"} => files[s] = Empty /\ cwd.dir # s
  /\ Building(s) => cwd.dir # Start
  /\ s \notin disturbed =>
       /\ Building(s) => \A t \in Session \ {s} : ~Building(t)
       /\ phase[s] = "generate" /\ gen[s] > 1 => files[cwd.dir].log \in {None, s}
       /\ phase[s] = "readLog" => files[cwd.dir].log \in {None, s}
       /\ phase[s] \in {"cmake", "make", "stat", "config", "list"} => out[s] = s

\* A model found at the start is as it was for as long as its folder is there.
Found(m) ==
  /\ dirAt[m] = m => files[m] = Compiled(m)
  /\ Makers(m) = {} => dirAt[m] = m /\ (up = "up" => EntryOf(m, m, m) \in ToSet(configured))

\* An entry of a list describes the directory its name leads to, unless another
\* session has chosen the name too.
Sound(e) ==
  /\ e.from \in Session =>
       /\ folder[e.from] = e.name
       /\ phase[e.from] \in Over
       /\ e.from \notin disturbed => e.out = e.from
       /\ Sole(e.from) => files[e.from].config = [from |-> e.from, out |-> e.out]
  /\ e.from \in Listed => e = EntryOf(e.from, e.from, e.from)

\* The entry and the library of an inference session.
LoadedAt(s) ==
  /\ entry[s] # None => Sound(entry[s])
  /\ loaded[s] # None =>
       /\ entry[s] # None
       /\ phase[s] \in {"serve", "returned", "returned0"}
       /\ Makers(entry[s].name) \subseteq {entry[s].from} =>
            loaded[s].weights = entry[s].from

\* The directory a path leads to that holds a configuration file.
ConfigAt(n) ==
  dirAt[n] # None /\ files[dirAt[n]].config # None /\ files[dirAt[n]].config.from \in Session =>
    /\ folder[files[dirAt[n]].config.from] = n
    /\ phase[files[dirAt[n]].config.from] \in Over \union {"list"}

\* The four parts about directories, and the four about entries.
DirsOK ==
  /\ \A d \in Maker : Chain(d)
  /\ \A s \in Session : OwnDir(s)
  /\ \A s \in Session : Undisturbed(s)
  /\ \A n \in Folder : ConfigAt(n)

EntriesOK ==
  /\ \A e \in ToSet(configured) : e.name \in SaveName
  /\ \A e \in ToSet(configured) \union ToSet(uploaded) : Sound(e)
  /\ \A s \in Session : LoadedAt(s)
  /\ \A m \in Listed : Found(m)

BuildInv == DirsOK /\ EntriesOK
-------------------------------------------------------------------------------
\* A sequence of the elements of a finite set, each once.
LEMMA Sequenced ==
  ASSUME NEW S, IsFiniteSet(S), NEW q \in SetToSeqs(S)
  PROVE  /\ q \in Seq(S) /\ ToSet(q) = S
         /\ \A i, j \in 1..Len(q) : q[i] = q[j] => i = j
<1> DEFINE n == Cardinality(S)
<1>1. n \in Nat BY FS_CardinalityType
<1> HIDE DEF n
<1>2. q \in [1..n -> S] /\ \A i, j \in 1..n : i # j => q[i] # q[j]
      BY DEF SetToSeqs, n
<1>3. q \in Seq(S) /\ Len(q) = n BY <1>1, <1>2
<1>4. q \in Injection(1..n, S) BY <1>2 DEF Injection, IsInjective
<1>5. Cardinality(1..n) = n
  <2>1. 1 \in Int /\ n \in Int BY <1>1
  <2>2. Cardinality(1..n) = IF 1 > n THEN 0 ELSE n - 1 + 1 BY <2>1, FS_Interval
  <2> QED BY <2>2, <1>1
<1>6. q \in Surjection(1..n, S) BY <1>4, <1>5, FS_Injection DEF n
<1>7. ToSet(q) = S BY <1>2, <1>6 DEF Surjection, ToSet
<1> QED BY <1>2, <1>3, <1>7

\* The sequence that SetToSeq chooses is one of them.
LEMMA SequenceOfSet ==
  ASSUME NEW S, IsFiniteSet(S)
  PROVE  SetToSeq(S) \in SetToSeqs(S)
<1> DEFINE n == Cardinality(S)
<1>1. n \in Nat /\ ExistsBijection(1..n, S) BY FS_CardinalityType
<1> HIDE DEF n
<1>2. PICK f : f \in [1..n -> S] /\ IsInjective(f)
      BY <1>1 DEF ExistsBijection, Bijection, Injection
<1>3. SetToSeq(S) \in [1..n -> S] /\ IsInjective(SetToSeq(S))
      BY <1>2 DEF SetToSeq, n
<1> QED BY <1>3 DEF SetToSeqs, IsInjective, n
-------------------------------------------------------------------------------
\* The names of folders, the makers of directories and the absent value differ.
LEMMA NamesDiffer ==
  /\ None \notin Folder /\ None \notin Maker /\ Start \notin Maker
  /\ \A n \in SaveName : n \notin Session /\ n \notin 1..MaxUploads
  /\ Session \cap Listed = {} /\ Listed \subseteq SaveName
BY StoreAssumption, NoneAssumption DEF Folder, Maker

\* A change of phase that neither chooses nor makes a folder.
Calm(q, p) ==
  /\ q # "ended" /\ p \in Phase \ {"new", "counting", "remove", "makeDirs"}
  /\ p \in Early => q \in Early
  /\ p \in Foldered => q \in Foldered
  /\ p \in Made => q \in Made

\* The variables the parts about folders are about.
folderVars == <<folder, dirAt, counter, savedCounter, lostCounter, up>>

\* Such a step, which leaves the folders alone, keeps the parts about them.
LEMMA FolderCalm ==
  ASSUME FolderInv, NEW s \in Session, NEW p, Goto(s, p), Calm(phase[s], p),
         UNCHANGED folderVars, up = "up" \/ phase[s] # "new",
         mutex' = mutex \/ mutex = None \/ mutex = s
  PROVE  FolderParts'
<1> USE DEF FolderInv, LocalTypes
<1>1. UNCHANGED <<folder, dirAt, counter, savedCounter, lostCounter, up>> BY DEF folderVars
<1>2. phase'[s] = p /\ \A t \in Session \ {s} : phase'[t] = phase[t] BY DEF Goto
<1>3. ASSUME NEW t \in Session PROVE FolderAt(t)'
  <2>1. FolderAt(t) BY DEF FolderParts
  <2>2. CASE t = s BY <2>1, <2>2, <1>1, <1>2 DEF FolderAt, Calm
  <2>3. CASE t # s BY <2>1, <2>3, <1>1, <1>2, NoneAssumption DEF FolderAt
  <2> QED BY <2>2, <2>3
<1>4. ASSUME NEW n \in Folder PROVE PathAt(n)'
  <2>1. PathAt(n) BY DEF FolderParts
  <2>2. Makers(n)' = Makers(n) BY <1>1 DEF Makers
  <2>3. \A t \in Session :
          phase'[t] \in Made \union {"makeDirs"} => phase[t] \in Made \union {"makeDirs"}
        BY <1>2 DEF Calm
  <2> QED BY <2>1, <2>2, <2>3, <1>1 DEF PathAt, Makers
<1>5. ASSUME NEW t \in Session PROVE PathOf(t)'
  <2>1. PathOf(t) BY DEF FolderParts
  <2>2. Sole(t)' = Sole(t) BY <1>1 DEF Sole
  <2>3. CASE t = s BY <2>1, <2>2, <2>3, <1>1, <1>2 DEF PathOf, Calm
  <2>4. CASE t # s BY <2>1, <2>2, <2>4, <1>1, <1>2 DEF PathOf
  <2> QED BY <2>3, <2>4
<1>6. CounterAhead'
      BY <1>1, <1>2 DEF FolderParts, CounterAhead, Calm
<1>7. UploadFoldersApart' /\ FatalOnlyOnSameName'
      BY <1>1 DEF FolderParts, UploadFoldersApart, FatalOnlyOnSameName
<1> QED BY <1>3, <1>4, <1>5, <1>6, <1>7 DEF FolderParts

\* Check with a name, CountEnd with the counter: the session has chosen folder n.
LEMMA FolderChosen ==
  ASSUME FolderInv, NEW s \in Session, NEW n \in Folder, Goto(s, "remove"),
         folder' = [folder EXCEPT ![s] = n],
         UNCHANGED <<dirAt, counter, lostCounter, up>>,
         \/ phase[s] = "check" /\ n \notin 1..MaxUploads /\ mutex' = mutex
         \/ phase[s] = "counting" /\ n = counter /\ mutex = s
  PROVE  FolderParts'
<1> USE DEF FolderInv, LocalTypes
<1>1. UNCHANGED <<dirAt, counter, lostCounter, up>> OBVIOUS
<1>2. phase'[s] = "remove" /\ \A t \in Session \ {s} : phase'[t] = phase[t] BY DEF Goto
<1>3. folder'[s] = n /\ \A t \in Session \ {s} : folder'[t] = folder[t] OBVIOUS
<1>4. folder[s] = None /\ up = "up" /\ n # None /\ \A k \in Folder : dirAt[k] # s
  <2>1. FolderAt(s) /\ PathOf(s) BY DEF FolderParts
  <2> QED BY <2>1, NamesDiffer DEF FolderAt, PathOf, Early
<1>5. ASSUME NEW t \in Session PROVE FolderAt(t)'
  <2>1. FolderAt(t) BY DEF FolderParts
  <2>2. CASE t = s BY <2>1, <2>2, <1>1, <1>2, <1>3, <1>4 DEF FolderAt, Early
  <2>3. CASE t # s BY <2>1, <2>3, <1>1, <1>2, <1>3 DEF FolderAt
  <2> QED BY <2>2, <2>3
<1>6. ASSUME NEW k \in Folder PROVE PathAt(k)'
  <2>1. PathAt(k) BY DEF FolderParts
  <2>2. dirAt[k] \in Session => folder'[dirAt[k]] = k BY <2>1, <1>3, <1>4 DEF PathAt
  <2>3. \A t \in Session : folder'[t] = k =>
          t = s \/ (t # s /\ folder[t] = k /\ phase'[t] = phase[t])
        BY <1>2, <1>3
  <2> QED BY <2>1, <2>2, <2>3, <1>1, <1>2 DEF PathAt, Makers, Made
<1>7. ASSUME NEW t \in Session PROVE PathOf(t)'
  <2>1. PathOf(t) BY DEF FolderParts
  <2>2. CASE t = s BY <2>2, <1>1, <1>2, <1>4 DEF PathOf, Made
  <2>3. CASE t # s
    <3>1. Sole(t)' /\ folder[t] # None => Sole(t) BY <2>3, <1>3, <1>4 DEF Sole
    <3>2. phase[t] \in Made \union {"makeDirs"} => folder[t] # None
          BY DEF FolderParts, FolderAt, Foldered
    <3> QED BY <2>1, <2>3, <3>1, <3>2, <1>1, <1>2, <1>3 DEF PathOf
  <2> QED BY <2>2, <2>3
<1>8. CounterAhead'
  <2> SUFFICES ASSUME ~lostCounter, NEW t \in Session, folder'[t] \in 1..MaxUploads
               PROVE  folder'[t] <= counter /\
                      \A u \in Session : phase'[u] = "counting" => folder'[t] # counter
               BY <1>1 DEF CounterAhead
  <2>1. CASE t # s BY <2>1, <1>2, <1>3 DEF FolderParts, CounterAhead
  <2>2. CASE t = s
    <3>1. n = counter /\ mutex = s BY <2>2, <1>3
    <3>2. \A u \in Session : phase[u] = "counting" => u = s
          BY <3>1 DEF FolderParts, FolderAt
    <3>3. counter \in 0..MaxUploads /\ counter <= counter BY StoreAssumption DEF StoreTypes
    <3> QED BY <3>1, <3>2, <3>3, <2>2, <1>2, <1>3
  <2> QED BY <2>1, <2>2
<1>9. UploadFoldersApart'
  <2> SUFFICES ASSUME ~lostCounter, NEW t \in Session, NEW u \in Session,
                      folder'[t] \in 1..MaxUploads, folder'[t] = folder'[u]
               PROVE  t = u
               BY <1>1 DEF UploadFoldersApart
  <2>1. CASE t # s /\ u # s BY <2>1, <1>3 DEF FolderParts, UploadFoldersApart
  <2>2. \A v \in Session \ {s} : folder[v] \in 1..MaxUploads => folder[v] # n
        BY DEF FolderParts, CounterAhead
  <2> QED BY <2>1, <2>2, <1>3
<1>10. FatalOnlyOnSameName' BY <1>1, <1>4 DEF FatalOnlyOnSameName
<1> QED BY <1>5, <1>6, <1>7, <1>8, <1>9, <1>10 DEF FolderParts

\* The counter goes up, under the mutex.
LEMMA FolderCount ==
  ASSUME FolderInv, NEW s \in Session, CountBegin(s)
  PROVE  FolderParts'
<1> USE DEF FolderInv, LocalTypes
<1>1. /\ phase[s] = "count" /\ mutex = None /\ mutex' = s /\ counter' = counter + 1
      /\ UNCHANGED <<folder, dirAt, lostCounter, up>>
      BY DEF CountBegin, TakeMutex, localVars, processVars
<1>2. phase'[s] = "counting" /\ \A t \in Session \ {s} : phase'[t] = phase[t]
      BY DEF CountBegin, Goto
<1>3. \A t \in Session : phase[t] # "counting"
      BY <1>1, NoneAssumption DEF FolderParts, FolderAt
<1>4. up = "up" BY <1>1 DEF FolderParts, FolderAt
<1>5. counter \in Nat BY DEF StoreTypes
<1>6. ASSUME NEW t \in Session PROVE FolderAt(t)'
      BY <1>1, <1>2, <1>3, <1>4, <1>5 DEF FolderParts, FolderAt, Early, Foldered, Made
<1>7. ASSUME NEW k \in Folder PROVE PathAt(k)'
      BY <1>1, <1>2 DEF FolderParts, PathAt, Makers, Made
<1>8. ASSUME NEW t \in Session PROVE PathOf(t)'
  <2>1. PathOf(t) /\ (Sole(t)' <=> Sole(t)) BY <1>1 DEF FolderParts, Sole
  <2> QED BY <2>1, <1>1, <1>2 DEF PathOf, Made, Early
<1>9. CounterAhead'
  <2> SUFFICES ASSUME ~lostCounter, NEW t \in Session, folder[t] \in 1..MaxUploads
               PROVE  folder[t] <= counter' /\ folder[t] # counter'
               BY <1>1 DEF CounterAhead
  <2>1. folder[t] \in Nat /\ folder[t] <= counter BY DEF FolderParts, CounterAhead
  <2> QED BY <2>1, <1>1, <1>5
<1>10. UploadFoldersApart' /\ FatalOnlyOnSameName'
       BY <1>1, <1>4 DEF FolderParts, UploadFoldersApart, FatalOnlyOnSameName
<1> QED BY <1>6, <1>7, <1>8, <1>9, <1>10 DEF FolderParts

\* The path of the folder now leads nowhere, or to the directory of s.
LEMMA FolderMade ==
  ASSUME FolderInv, NEW s \in Session, NEW d, NEW p, Goto(s, p),
         dirAt' = [dirAt EXCEPT ![folder[s]] = d],
         UNCHANGED <<folder, counter, lostCounter, up, mutex>>,
         \/ phase[s] = "remove" /\ p = "makeDirs" /\ d = None
         \/ phase[s] = "makeDirs" /\ p = "receive" /\ d = s
  PROVE  FolderParts'
<1> USE DEF FolderInv, LocalTypes
<1> DEFINE k == folder[s]
<1>1. UNCHANGED <<folder, counter, lostCounter, up, mutex>> OBVIOUS
<1>2. phase'[s] = p /\ \A t \in Session \ {s} : phase'[t] = phase[t] BY DEF Goto
<1>3. FolderAt(s) /\ PathOf(s) BY DEF FolderParts
<1>4. k \in Folder /\ up = "up" /\ \A n \in Folder : dirAt[n] # s
      BY <1>3 DEF FolderAt, PathOf, Foldered
<1>5. dirAt'[k] = d /\ \A n \in Folder \ {k} : dirAt'[n] = dirAt[n]
      BY <1>4 DEF StoreTypes
<1>6. d \notin Listed /\ None \notin Session BY NamesDiffer, NoneAssumption DEF Maker
<1>7. ASSUME NEW t \in Session PROVE FolderAt(t)'
      BY <1>1, <1>2, <1>4 DEF FolderParts, FolderAt, Early, Foldered, Made
<1>8. ASSUME NEW n \in Folder PROVE PathAt(n)'
  <2>1. PathAt(n) BY DEF FolderParts
  <2>2. CASE n = k
        BY <2>2, <1>1, <1>5, <1>6 DEF PathAt
  <2>3. CASE n # k
    <3>1. \A t \in Makers(n) : t # s /\ phase'[t] = phase[t] BY <2>3, <1>2 DEF Makers
    <3>2. Makers(n)' = Makers(n) BY <1>1 DEF Makers
    <3> QED BY <2>1, <2>3, <3>1, <3>2, <1>1, <1>5 DEF PathAt
  <2> QED BY <2>2, <2>3
<1>9. ASSUME NEW t \in Session PROVE PathOf(t)'
  <2>1. PathOf(t) /\ (Sole(t)' <=> Sole(t)) BY <1>1 DEF FolderParts, Sole
  <2>2. CASE t = s
        BY <2>1, <2>2, <1>1, <1>2, <1>4, <1>5, <1>6 DEF PathOf, Made, Early
  <2>3. CASE t # s
    <3>1. d # t BY <2>3, <1>6
    <3>2. phase[t] \in Made \union {"makeDirs"} /\ Sole(t) => folder[t] \in Folder \ {k}
          BY <2>3 DEF FolderParts, FolderAt, Foldered, Sole
    <3> QED BY <2>1, <2>3, <3>1, <3>2, <1>1, <1>2, <1>5 DEF PathOf
  <2> QED BY <2>2, <2>3
<1>10. CounterAhead' BY <1>1, <1>2 DEF FolderParts, CounterAhead
<1>11. UploadFoldersApart' /\ FatalOnlyOnSameName'
       BY <1>1 DEF FolderParts, UploadFoldersApart, FatalOnlyOnSameName
<1> QED BY <1>7, <1>8, <1>9, <1>10, <1>11 DEF FolderParts

\* The process ends, by itself only when a folder has been chosen twice.
LEMMA FolderEnds ==
  ASSUME FolderInv, NEW how \in {"fatal", "crashed"}, ProcessEnds(how),
         how = "fatal" => \E s \in Session : folder[s] # None /\ ~Sole(s)
  PROVE  FolderParts'
<1> USE DEF FolderInv, LocalTypes
<1>1. up' = how /\ UNCHANGED <<folder, dirAt, counter, lostCounter>>
      BY DEF ProcessEnds, listVars, diskVars
<1>2. \A t \in Session : phase'[t] = IF phase[t] = "new" THEN "new" ELSE "ended"
      BY DEF ProcessEnds
<1>3. ASSUME NEW t \in Session PROVE FolderAt(t)'
      BY <1>1, <1>2 DEF FolderParts, FolderAt, Early, Foldered, Made
<1>4. ASSUME NEW n \in Folder PROVE PathAt(n)'
      BY <1>1, <1>2 DEF FolderParts, PathAt, Makers, Made
<1>5. ASSUME NEW t \in Session PROVE PathOf(t)'
      BY <1>1, <1>2 DEF FolderParts, PathOf, Made, Early
<1>6. CounterAhead' BY <1>1, <1>2 DEF FolderParts, CounterAhead
<1>7. UploadFoldersApart' BY <1>1 DEF FolderParts, UploadFoldersApart
<1>8. FatalOnlyOnSameName' BY <1>1 DEF FatalOnlyOnSameName, Sole
<1> QED BY <1>3, <1>4, <1>5, <1>6, <1>7, <1>8 DEF FolderParts

\* The process starts again, with the counter of the configuration file.
LEMMA FolderRestarts ==
  ASSUME FolderInv, Restart
  PROVE  FolderParts'
<1> USE DEF FolderInv, LocalTypes
<1>1. /\ up # "up" /\ up' = "up" /\ UNCHANGED <<folder, dirAt, phase>>
      /\ ~lostCounter' => ~lostCounter /\ counter' = counter
      BY DEF Restart, localVars, StoreTypes
<1>2. \A t \in Session : phase[t] \in {"new", "ended"} BY <1>1 DEF FolderParts, FolderAt
<1>3. ASSUME NEW t \in Session PROVE FolderAt(t)'
      BY <1>1, <1>2 DEF FolderParts, FolderAt, Early, Foldered, Made
<1>4. ASSUME NEW n \in Folder PROVE PathAt(n)'
      BY <1>1 DEF FolderParts, PathAt, Makers
<1>5. ASSUME NEW t \in Session PROVE PathOf(t)'
      BY <1>1 DEF FolderParts, PathOf, Sole
<1>6. CounterAhead' BY <1>1 DEF FolderParts, CounterAhead
<1>7. UploadFoldersApart' BY <1>1 DEF FolderParts, UploadFoldersApart
<1>8. FatalOnlyOnSameName' BY <1>1 DEF FatalOnlyOnSameName
<1> QED BY <1>3, <1>4, <1>5, <1>6, <1>7, <1>8 DEF FolderParts

\* What the steps of a session do to phases and folders.
LEMMA CompilerFolder ==
  ASSUME FolderInv, NEW s \in Session, CompilerStep(s)
  PROVE  FolderParts'
<1> DEFINE Kept == FolderParts'
<1> SUFFICES Kept OBVIOUS
<1>b. phase[s] \in Made \union {"makeDirs"} => folder[s] # None
      BY DEF FolderInv, FolderParts, FolderAt, Foldered
<1>c. phase[s] = "makeDirs" /\ dirAt[folder[s]] # None => ~Sole(s)
      BY DEF FolderInv, FolderParts, PathOf
<1>d. phase[s] \in {"receive", "config"} /\ dirAt[folder[s]] = None => ~Sole(s)
      BY NoneAssumption DEF FolderInv, FolderParts, PathOf, Made
<1> HIDE DEF Kept
<1>e. ASSUME NEW p, Goto(s, p), Calm(phase[s], p), UNCHANGED folderVars,
             phase[s] # "new", mutex' = mutex PROVE Kept
      BY <1>e, FolderCalm DEF Kept
<1>f. ASSUME NEW p, Talk(s, p), Calm(phase[s], p), UNCHANGED folderVars,
             phase[s] # "new", mutex' = mutex PROVE Kept
      BY <1>f, <1>e DEF Talk
<1>g. ASSUME Refuse(s), phase[s] \notin {"new", "ended"}, UNCHANGED folderVars, mutex' = mutex
      PROVE  Kept
  <2>1. Calm(phase[s], "failing") BY <1>g DEF Calm, Phase, Early, Foldered, Made
  <2> QED BY <2>1, <1>e, <1>g DEF Refuse
<1> USE DEF folderVars, gpuVars, localVars, listVars, diskVars, processVars
<1>1. CASE Check(s)
  <2>1. /\ phase[s] = "check" /\ mutex' = mutex
        /\ UNCHANGED <<dirAt, counter, savedCounter, lostCounter, up>>
        BY <1>1 DEF Check
  <2>2. CASE Refuse(s) /\ folder' = folder BY <2>1, <2>2, <1>g
  <2>3. CASE Goto(s, "count") /\ folder' = folder
    <3>1. Calm(phase[s], "count") BY <2>1 DEF Calm, Phase, Early, Foldered, Made
    <3> QED BY <2>1, <2>3, <3>1, <1>e
  <2>4. CASE \E n \in SaveName : folder' = [folder EXCEPT ![s] = n] /\ Goto(s, "remove")
    <3>1. PICK n \in SaveName : folder' = [folder EXCEPT ![s] = n] /\ Goto(s, "remove") BY <2>4
    <3>2. n \in Folder /\ n \notin 1..MaxUploads BY NamesDiffer DEF Folder
    <3> QED BY <2>1, <3>1, <3>2, FolderChosen DEF Kept
  <2> QED BY <1>1, <2>2, <2>3, <2>4 DEF Check
<1>2. CASE CountBegin(s) BY <1>2, FolderCount DEF Kept
<1>3. CASE CountEnd(s)
  <2>1. /\ phase[s] = "counting" /\ mutex = s /\ Goto(s, "remove")
        /\ folder' = [folder EXCEPT ![s] = counter]
        /\ UNCHANGED <<dirAt, counter, lostCounter, up>>
        BY <1>3 DEF CountEnd, DropMutex
  <2>2. counter \in Folder
    <3>1. counter \in 0..MaxUploads /\ counter >= 1
          BY <2>1 DEF FolderInv, StoreTypes, FolderParts, FolderAt
    <3> QED BY <3>1, StoreAssumption DEF Folder
  <2> QED BY <2>1, <2>2, FolderChosen DEF Kept
<1>4. CASE RemoveFolder(s)
  <2>1. phase[s] = "remove" /\ UNCHANGED <<folder, counter, savedCounter, lostCounter, up, mutex>>
        BY <1>4 DEF RemoveFolder
  <2>2. CASE Refuse(s) /\ dirAt' = dirAt BY <2>1, <2>2, <1>g
  <2>3. CASE dirAt' = [dirAt EXCEPT ![folder[s]] = None] /\ Goto(s, "makeDirs")
        BY <2>1, <2>3, FolderMade DEF Kept
  <2> QED BY <1>4, <2>2, <2>3 DEF RemoveFolder
<1>5. CASE MakeDirs(s)
  <2>1. CASE ProcessEnds("fatal") /\ dirAt[folder[s]] # None
        BY <2>1, <1>5, <1>b, <1>c, FolderEnds DEF MakeDirs, Kept, Made
  <2>2. CASE /\ dirAt' = [dirAt EXCEPT ![folder[s]] = s] /\ Goto(s, "receive")
             /\ UNCHANGED <<localVars, listVars, gpuVars, processVars>>
        BY <1>5, <2>2, FolderMade DEF MakeDirs, Kept
  <2> QED BY <1>5, <2>1, <2>2 DEF MakeDirs
<1>6. CASE Receive(s)
  <2>1. CASE ProcessEnds("fatal") /\ dirAt[folder[s]] = None
        BY <2>1, <1>6, <1>b, <1>d, FolderEnds DEF Receive, Kept, Made
  <2>2. CASE Refuse(s) /\ UNCHANGED <<gpuVars, storeVars>>
        BY <2>2, <1>6, <1>g DEF Receive, storeVars
  <2>3. CASE /\ Talk(s, "chdir")
             /\ UNCHANGED <<gpuVars, localVars, listVars, dirAt, savedCounter, processVars>>
    <3>1. Calm(phase[s], "chdir")
          BY <1>6 DEF Receive, Calm, Phase, Exchanging, Early, Foldered, Made
    <3> QED BY <2>3, <3>1, <1>6, <1>f DEF Receive
  <2> QED BY <1>6, <2>1, <2>2, <2>3 DEF Receive
<1>7. CASE Chdir(s)
      BY <1>7, <1>e DEF Chdir, Calm, Phase, Exchanging, Early, Foldered, Made
<1>8. CASE Generate(s)
      BY <1>8, <1>f DEF Generate, Calm, Phase, Exchanging, Early, Foldered, Made
<1>9. CASE ReadLog(s)
      BY <1>9, <1>f, <1>g DEF ReadLog, Calm, Phase, Exchanging, Early, Foldered, Made
<1>10. CASE Cmake(s)
      BY <1>10, <1>e DEF Cmake, Calm, Phase, Exchanging, Early, Foldered, Made
<1>11. CASE Make(s)
      BY <1>11, <1>f DEF Make, Calm, Phase, Exchanging, Early, Foldered, Made
<1>12. CASE Stat(s)
      BY <1>12, <1>f DEF Stat, storeVars, Calm, Phase, Exchanging, Early, Foldered, Made
<1>13. CASE StepFailed(s)
      BY <1>13, <1>g DEF StepFailed, storeVars
<1>14. CASE WriteConfig(s)
  <2>1. CASE ProcessEnds("fatal") /\ dirAt[folder[s]] = None
        BY <2>1, <1>14, <1>b, <1>d, FolderEnds DEF WriteConfig, Kept, Made
  <2>2. CASE /\ Talk(s, "list")
             /\ UNCHANGED <<gpuVars, localVars, listVars, dirAt, savedCounter, processVars>>
        BY <2>2, <1>14, <1>f DEF WriteConfig, Calm, Phase, Exchanging, Early, Foldered, Made
  <2> QED BY <1>14, <2>1, <2>2 DEF WriteConfig
<1>15. CASE ListModel(s)
      BY <1>15, <1>e DEF ListModel, Calm, Phase, Exchanging, Early, Foldered, Made
<1>16. CASE Done(s)
      BY <1>16, <1>f DEF Done, storeVars, Calm, Phase, Exchanging, Early, Foldered, Made
<1> QED BY <1>1, <1>2, <1>3, <1>4, <1>5, <1>6, <1>7, <1>8, <1>9, <1>10, <1>11,
           <1>12, <1>13, <1>14, <1>15, <1>16 DEF CompilerStep

\* The other steps of a session keep the parts about folders.
LEMMA SessionFolder ==
  ASSUME FolderInv, NEW s \in Session, SessionStep(s)
  PROVE  FolderParts'
<1> DEFINE Kept == FolderParts'
<1> SUFFICES Kept OBVIOUS
<1> HIDE DEF Kept
<1>e. ASSUME NEW p, Goto(s, p), Calm(phase[s], p), UNCHANGED folderVars,
             phase[s] # "new", mutex' = mutex \/ mutex = None \/ mutex = s
      PROVE  Kept
      BY <1>e, FolderCalm DEF Kept
<1>f. ASSUME NEW p, Talk(s, p), Calm(phase[s], p), UNCHANGED folderVars,
             phase[s] # "new", mutex' = mutex
      PROVE  Kept
      BY <1>f, <1>e DEF Talk
<1>g. ASSUME Refuse(s), phase[s] \notin {"new", "ended"}, UNCHANGED folderVars, mutex' = mutex
      PROVE  Kept
  <2>1. Calm(phase[s], "failing") BY <1>g DEF Calm, Phase, Early, Foldered, Made
  <2> QED BY <2>1, <1>e, <1>g DEF Refuse
<1>h. engine[s] \in {"locking", "releasing"} => mutex = s
      BY DEF FolderInv, EndInv, GpuInv, LoopsGuarded
<1> USE DEF folderVars, gpuVars, localVars, listVars, diskVars, processVars
<1>1. CASE Dispatch(s)
      BY <1>1, <1>e, <1>f DEF Dispatch, storeVars, Calm, Phase, Exchanging, Early, Foldered, Made
<1>2. CASE CompilerStep(s) BY <1>2, CompilerFolder DEF Kept
<1>3. CASE CountModels(s)
      BY <1>3, <1>e DEF CountModels, Calm, Phase, Exchanging, Early, Foldered, Made
<1>4. CASE SendEntry(s)
      BY <1>4, <1>f DEF SendEntry, Calm, Phase, Exchanging, Early, Foldered, Made
<1>5. CASE Lock(s)
  <2>1. mutex' = mutex \/ mutex = None \/ mutex = s
        BY <1>5, <1>h DEF Lock, LockRefused, LockBegin, LockOne, LockEnd
  <2>2. PICK p \in {"lookup", "lock"} : Goto(s, p) BY <1>5 DEF Lock
  <2>3. Calm(phase[s], p) BY <1>5 DEF Lock, Calm, Phase, Exchanging, Early, Foldered, Made
  <2> QED BY <1>5, <2>1, <2>2, <2>3, <1>e DEF Lock, storeVars
<1>6. CASE Lookup(s)
      BY <1>6, <1>e, <1>g DEF Lookup, Calm, Phase, Exchanging, Early, Foldered, Made
<1>7. CASE Load(s)
      BY <1>7, <1>e DEF Load, Calm, Phase, Exchanging, Early, Foldered, Made
<1>8. CASE NotFound(s)
      BY <1>8, <1>e DEF NotFound, storeVars, Calm, Phase, Exchanging, Early, Foldered, Made
<1>9. CASE Serve(s)
      BY <1>9, <1>f DEF Serve, storeVars, Calm, Phase, Exchanging, Early, Foldered, Made
<1>10. CASE Release(s)
  <2>1. mutex' = mutex \/ mutex = None \/ mutex = s
        BY <1>10, <1>h DEF Release, ReleaseBegin, ReleaseOne, ReleaseEnd
  <2>2. phase[s] \in {"returned", "returned0"} /\ phase' = phase /\ UNCHANGED folderVars
        BY <1>10 DEF Release, storeVars
  <2>3. Goto(s, phase[s]) BY <2>2 DEF Goto, FolderInv, LocalTypes
  <2>4. Calm(phase[s], phase[s]) BY <2>2 DEF Calm, Phase, Exchanging, Early, Foldered, Made
  <2> QED BY <2>1, <2>2, <2>3, <2>4, <1>e
<1>11. CASE Shadow(s)
      BY <1>11, <1>e, <1>g DEF Shadow, storeVars, Calm, Phase, Exchanging, Early, Foldered, Made
<1>12. CASE ShadowLoop(s)
      BY <1>12, <1>f, <1>g DEF ShadowLoop, storeVars, Calm, Phase, Exchanging, Early, Foldered, Made
<1>13. CASE ClientLost(s)
      BY <1>13, <1>e DEF ClientLost, storeVars, Calm, Phase, Exchanging, Early, Foldered, Made
<1>14. CASE Failing(s)
  <2>1. phase[s] = "failing" /\ mutex' = mutex /\ UNCHANGED folderVars
        BY <1>14 DEF Failing, storeVars
  <2>2. CASE Goto(s, "returned")
        BY <2>1, <2>2, <1>e DEF Calm, Phase, Exchanging, Early, Foldered, Made
  <2>3. CASE phase' = phase
    <3>1. Goto(s, phase[s]) BY <2>3 DEF Goto, FolderInv, LocalTypes
    <3>2. Calm(phase[s], phase[s]) BY <2>1 DEF Calm, Phase, Exchanging, Early, Foldered, Made
    <3> QED BY <2>1, <3>1, <3>2, <1>e
  <2> QED BY <1>14, <2>2, <2>3 DEF Failing
<1>15. CASE Finish(s)
      BY <1>15, <1>e DEF Finish, Calm, Phase, Exchanging, Early, Foldered, Made
<1> QED BY <1>1, <1>2, <1>3, <1>4, <1>5, <1>6, <1>7, <1>8, <1>9, <1>10, <1>11, <1>12, <1>13,
           <1>14, <1>15 DEF SessionStep, ConfigureStep, InferenceStep, ShadowStep
-------------------------------------------------------------------------------
\* The image of a finite set under a function.
LEMMA ImageFinite ==
  ASSUME NEW S, IsFiniteSet(S), NEW f, DOMAIN f = S
  PROVE  IsFiniteSet({f[x] : x \in S})
<1> DEFINE T == {f[x] : x \in S}
           g == [x \in S |-> f[x]]
<1>1. g \in Surjection(S, T) BY DEF Surjection
<1> QED BY <1>1, FS_Surjection

\* What is found on disk, as entries of the list of models.
LEMMA DiskEntriesTyped ==
  ASSUME LocalTypes, StoreTypes
  PROVE  /\ \A n \in OnDisk : DiskEntry(n) \in Model
         /\ IsFiniteSet({DiskEntry(n) : n \in OnDisk})
<1>1. ASSUME NEW n \in OnDisk PROVE DiskEntry(n) \in Model
  <2>1. n \in SaveName /\ dirAt[n] # None /\ files[dirAt[n]].config # None BY DEF OnDisk
  <2>2. n \in Folder /\ dirAt[n] \in Maker BY <2>1 DEF StoreTypes, Folder
  <2>3. files[dirAt[n]].config \in Config BY <2>1, <2>2 DEF StoreTypes, Content
  <2> QED BY <2>2, <2>3 DEF DiskEntry, EntryOf, Model, Config
<1>2. IsFiniteSet(OnDisk)
  <2>1. OnDisk \in SUBSET SaveName BY DEF OnDisk
  <2> QED BY <2>1, StoreAssumption, FS_Subset
<1>3. IsFiniteSet({DiskEntry(n) : n \in OnDisk})
  <2> DEFINE f == [n \in OnDisk |-> DiskEntry(n)]
  <2>1. IsFiniteSet({f[n] : n \in OnDisk}) BY <1>2, ImageFinite
  <2>2. {f[n] : n \in OnDisk} = {DiskEntry(n) : n \in OnDisk} OBVIOUS
  <2> QED BY <2>1, <2>2
<1> QED BY <1>1, <1>3

\* The entries at the first start.
LEMMA ListedEntriesTyped ==
  /\ IsFiniteSet({EntryOf(n, n, n) : n \in Listed})
  /\ \A n \in Listed : EntryOf(n, n, n) \in Model
<1>1. IsFiniteSet(Listed)
  <2>1. Listed \in SUBSET SaveName BY StoreAssumption
  <2> QED BY <2>1, StoreAssumption, FS_Subset
<1>2. IsFiniteSet({EntryOf(n, n, n) : n \in Listed})
  <2> DEFINE f == [n \in Listed |-> EntryOf(n, n, n)]
  <2>1. IsFiniteSet({f[n] : n \in Listed}) BY <1>1, ImageFinite
  <2>2. {f[n] : n \in Listed} = {EntryOf(n, n, n) : n \in Listed} OBVIOUS
  <2> QED BY <2>1, <2>2
<1> QED BY <1>2, StoreAssumption DEF EntryOf, Model, Folder, Maker

\* Changes of one field of one directory.
LEMMA ContentChanged ==
  ASSUME files \in [Maker -> Content], NEW d \in Maker, NEW v \in Maker \union {None},
         NEW l \in Library \union {None}, NEW c \in Config \union {None}
  PROVE  /\ [files EXCEPT ![d].weights = v] \in [Maker -> Content]
         /\ [files EXCEPT ![d].log = v] \in [Maker -> Content]
         /\ [files EXCEPT ![d].code = v, ![d].log = v] \in [Maker -> Content]
         /\ [files EXCEPT ![d].make = TRUE] \in [Maker -> Content]
         /\ [files EXCEPT ![d].lib = l] \in [Maker -> Content]
         /\ [files EXCEPT ![d].config = c] \in [Maker -> Content]
BY DEF Content

\* The contents of a new directory and of one found at the start.
LEMMA EmptyTyped ==
  Empty \in Content /\ \A m \in Maker : Compiled(m) \in Content
BY DEF Empty, Compiled, Content, Library, Config

\* Where the paths of a compiler session lead.
LEMMA PathsLead ==
  ASSUME FolderInv, NEW s \in Session, phase[s] \in Foldered
  PROVE  /\ folder[s] \in Folder /\ dirAt[folder[s]] \in Maker \union {None}
         /\ phase[s] \in Made => dirAt[folder[s]] \in Session \union {None}
<1>1. folder[s] \in Folder BY DEF FolderInv, FolderParts, FolderAt, LocalTypes
<1>2. dirAt[folder[s]] \in Maker \union {None} BY <1>1 DEF FolderInv, StoreTypes
<1>3. PathAt(folder[s]) BY <1>1 DEF FolderInv, FolderParts
<1> QED BY <1>1, <1>2, <1>3 DEF PathAt, Makers, Maker

\* Where the working directory is: in the directory of a session, or where the
\* server was started.
LEMMA CwdLeads ==
  ASSUME FolderInv
  PROVE  /\ cwd.dir \in Session \union {Start} /\ (CwdExists => cwd.dir \in Session)
         /\ CwdExists => cwd.dir \in Maker
BY DEF FolderInv, StoreTypes, CwdExists, Maker

\* The types of the rest, by a step that leaves the store alone.
LEMMA StoreKept ==
  ASSUME StoreTypes, UNCHANGED <<listVars, cwd, diskVars, up, lostCounter, disturbed>>
  PROVE  StoreTypes'
BY DEF StoreTypes, listVars, diskVars

\* A step that only moves a session on keeps the types of the local variables.
LEMMA LocalsKept ==
  ASSUME LocalTypes, NEW s \in Session, NEW p \in Phase, Goto(s, p), UNCHANGED localVars
  PROVE  LocalTypes'
BY DEF LocalTypes, localVars, Goto

\* The types when the process ends.
LEMMA TypesEnd ==
  ASSUME LocalTypes, StoreTypes, NEW how \in {"fatal", "crashed"}, ProcessEnds(how)
  PROVE  LocalTypes' /\ StoreTypes'
<1>1. phase' \in [Session -> Phase] BY DEF ProcessEnds, Phase, LocalTypes
<1>2. LocalTypes' BY <1>1 DEF ProcessEnds, LocalTypes
<1>3. StoreTypes' BY DEF ProcessEnds, StoreTypes, listVars, diskVars
<1> QED BY <1>2, <1>3

\* The types after a step of a compiler session ...
LEMMA CompilerTypes ==
  ASSUME FolderInv, NEW s \in Session, CompilerStep(s)
  PROVE  LocalTypes' /\ StoreTypes'
<1>a. LocalTypes /\ StoreTypes BY DEF FolderInv
<1>b. \A v \in Maker \union {None} : \A d \in Maker :
        /\ [files EXCEPT ![d].weights = v] \in [Maker -> Content]
        /\ [files EXCEPT ![d].log = v] \in [Maker -> Content]
        /\ [files EXCEPT ![d].code = v, ![d].log = v] \in [Maker -> Content]
        /\ [files EXCEPT ![d].make = TRUE] \in [Maker -> Content]
      BY <1>a, ContentChanged DEF StoreTypes
<1>c. s \in Maker BY DEF Maker
<1>e. \A d \in Session :
        /\ [dir |-> d, sub |-> FALSE] \in [dir : Session \union {Start}, sub : BOOLEAN]
        /\ [dir |-> d, sub |-> TRUE] \in [dir : Session \union {Start}, sub : BOOLEAN]
      OBVIOUS
<1>f. cwd \in [dir : Session \union {Start}, sub : BOOLEAN] /\ files \in [Maker -> Content]
      BY <1>a DEF StoreTypes
<1>d. Foldered \subseteq Phase /\ Made \subseteq Phase /\ Made \subseteq Foldered
      BY DEF Foldered, Made, Phase, Exchanging
<1>1. CASE Check(s)
  <2>1. StoreTypes' BY <1>1, <1>a, StoreKept DEF Check, processVars
  <2>2. UNCHANGED <<gen, out, entry, loaded, toSend, seen>> BY <1>1 DEF Check
  <2>3. folder' \in [Session -> Folder \union {None}]
        BY <1>1, <1>a DEF Check, LocalTypes, Folder
  <2>4. phase' \in [Session -> Phase]
        BY <1>1, <1>a DEF Check, Refuse, Goto, LocalTypes, Phase
  <2> QED BY <2>1, <2>2, <2>3, <2>4, <1>a DEF LocalTypes
<1>2. CASE CountBegin(s)
  <2>1. LocalTypes' BY <1>2, <1>a, LocalsKept DEF CountBegin, Phase
  <2>2. counter' \in 0..MaxUploads
        BY <1>2, <1>a, StoreAssumption DEF CountBegin, StoreTypes
  <2> QED BY <1>2, <1>a, <2>1, <2>2 DEF CountBegin, StoreTypes, processVars
<1>3. CASE CountEnd(s)
  <2>1. counter \in Folder
    <3>1. counter \in 0..MaxUploads /\ counter >= 1
          BY <1>3 DEF CountEnd, FolderInv, StoreTypes, FolderParts, FolderAt
    <3> QED BY <3>1, StoreAssumption DEF Folder
  <2>2. LocalTypes' BY <1>3, <1>a, <2>1 DEF CountEnd, LocalTypes, Goto, Phase, Exchanging
  <2>3. StoreTypes' BY <1>3, <1>a DEF CountEnd, StoreTypes, listVars, processVars
  <2> QED BY <2>2, <2>3
<1>4. CASE RemoveFolder(s)
  <2>1. LocalTypes' BY <1>4, <1>a, LocalsKept DEF RemoveFolder, Refuse, Phase
  <2>2. dirAt' \in [Folder -> Maker \union {None}]
        BY <1>4, <1>a DEF RemoveFolder, StoreTypes
  <2>3. files' \in [Maker -> Content]
        BY <1>4, <1>a, EmptyTyped DEF RemoveFolder, StoreTypes
  <2> QED BY <1>4, <1>a, <2>1, <2>2, <2>3 DEF RemoveFolder, StoreTypes, listVars, processVars
<1>5. CASE MakeDirs(s)
  <2>1. CASE ProcessEnds("fatal") BY <2>1, <1>a, TypesEnd
  <2>2. CASE /\ dirAt' = [dirAt EXCEPT ![folder[s]] = s] /\ Goto(s, "receive")
             /\ UNCHANGED <<localVars, listVars, cwd, files, savedCounter, processVars, disturbed>>
    <3>1. LocalTypes' BY <2>2, <1>a, LocalsKept DEF Phase, Exchanging
    <3>2. dirAt' \in [Folder -> Maker \union {None}] BY <2>2, <1>a, <1>c DEF StoreTypes
    <3> QED BY <2>2, <1>a, <3>1, <3>2 DEF StoreTypes, listVars, processVars
  <2> QED BY <1>5, <2>1, <2>2 DEF MakeDirs
<1>6. CASE Receive(s)
  <2> DEFINE d == dirAt[folder[s]]
  <2>0. phase[s] \in Foldered /\ d \in Maker \union {None}
        BY <1>6, PathsLead DEF Receive, Foldered, Made
  <2> HIDE DEF d
  <2>1. CASE ProcessEnds("fatal") BY <2>1, <1>a, TypesEnd
  <2>2. CASE Refuse(s) /\ UNCHANGED <<gpuVars, storeVars>>
    <3>1. LocalTypes' BY <2>2, <1>a, LocalsKept DEF Refuse, storeVars, Phase
    <3> QED BY <2>2, <3>1, <1>a, StoreKept DEF storeVars, processVars
  <2>3. CASE /\ d # None /\ files' = [files EXCEPT ![d].weights = s] /\ Talk(s, "chdir")
             /\ UNCHANGED <<localVars, listVars, cwd, dirAt, savedCounter, processVars, disturbed>>
    <3>1. LocalTypes' BY <2>3, <1>a, LocalsKept DEF Talk, Phase, Exchanging
    <3>2. files' \in [Maker -> Content] BY <2>3, <2>0, <1>b, <1>c
    <3> QED BY <2>3, <3>1, <3>2, <1>a DEF StoreTypes, listVars, processVars
  <2> QED BY <1>6, <2>1, <2>2, <2>3 DEF Receive, d
<1>7. CASE Chdir(s)
  <2>1. LocalTypes' BY <1>7, <1>a, LocalsKept DEF Chdir, Phase, Exchanging
  <2>2. dirAt[folder[s]] \in Session \union {None}
        BY <1>7, PathsLead DEF Chdir, Foldered, Made
  <2>3. cwd' \in [dir : Session \union {Start}, sub : BOOLEAN]
    <3>1. \/ cwd' = cwd
          \/ dirAt[folder[s]] \in Session /\ cwd' = [dir |-> dirAt[folder[s]], sub |-> FALSE]
          BY <1>7, <2>2 DEF Chdir
    <3> QED BY ONLY <3>1, <1>e, <1>f
  <2>4. disturbed' \subseteq Session BY <1>7, <1>a DEF Chdir, DisturbedBy, StoreTypes
  <2> QED BY <1>7, <1>a, <2>1, <2>3, <2>4 DEF Chdir, StoreTypes, listVars, diskVars, processVars
<1>8. CASE Generate(s)
  <2>1. PICK p \in {"readLog", "generate", "failed"} : Goto(s, p)
        BY <1>8 DEF Generate, Talk
  <2>2. p \in Phase BY <2>1 DEF Phase, Exchanging
  <2>3. gen' \in [Session -> Nat] BY <1>8, <1>a DEF Generate, LocalTypes
  <2>4. LocalTypes' BY <1>8, <1>a, <2>1, <2>2, <2>3 DEF Generate, LocalTypes, Goto
  <2>5. files' \in [Maker -> Content]
    <3>1. None \in Maker \union {None} /\ s \in Maker \union {None} BY <1>c
    <3>2. CwdExists => cwd.dir \in Maker BY CwdLeads
    <3>3. files \in [Maker -> Content] BY <1>a DEF StoreTypes
    <3>4. \/ files' = files
          \/ CwdExists /\ files' = [files EXCEPT ![cwd.dir].log = None]
          \/ CwdExists /\ files' = [files EXCEPT ![cwd.dir].code = s, ![cwd.dir].log = s]
          BY <1>8 DEF Generate
    <3>5. CASE CwdExists /\ files' = [files EXCEPT ![cwd.dir].log = None]
          BY <3>1, <3>2, <3>5, <1>b
    <3>6. CASE CwdExists /\ files' = [files EXCEPT ![cwd.dir].code = s, ![cwd.dir].log = s]
          BY ONLY <3>1, <3>2, <3>6, <1>b, Zenon
    <3> QED BY <3>3, <3>4, <3>5, <3>6
  <2> QED BY <1>8, <1>a, <2>4, <2>5 DEF Generate, StoreTypes, listVars, processVars
<1>9. CASE ReadLog(s)
  <2>1. PICK p \in {"cmake", "failed", "failing"} : Goto(s, p)
        BY <1>9 DEF ReadLog, Talk, Refuse
  <2>2. p \in Phase BY <2>1 DEF Phase, Exchanging
  <2>3. dirAt[folder[s]] \in Session \union {None}
        BY <1>9, PathsLead DEF ReadLog, Foldered, Made
  <2>4. out' \in [Session -> Maker \union {None}]
    <3>1. CwdExists => files[cwd.dir].log \in Maker \union {None}
          BY <1>a, CwdLeads DEF StoreTypes, Content
    <3>2. \/ out' = out
          \/ out' = [out EXCEPT ![s] = IF CwdExists /\ ~cwd.sub THEN files[cwd.dir].log ELSE None]
          BY <1>9 DEF ReadLog
    <3> QED BY <3>1, <3>2, <1>a DEF LocalTypes
  <2>5. LocalTypes' BY <1>9, <1>a, <2>1, <2>2, <2>4 DEF ReadLog, LocalTypes, Goto
  <2>6. cwd' \in [dir : Session \union {Start}, sub : BOOLEAN]
    <3>1. \/ cwd' = cwd
          \/ dirAt[folder[s]] \in Session /\ cwd' = [dir |-> dirAt[folder[s]], sub |-> TRUE]
          BY <1>9, <2>3 DEF ReadLog
    <3> QED BY ONLY <3>1, <1>e, <1>f
  <2>7. disturbed' \subseteq Session BY <1>9, <1>a DEF ReadLog, DisturbedBy, StoreTypes
  <2> QED BY <1>9, <1>a, <2>5, <2>6, <2>7 DEF ReadLog, StoreTypes, listVars, diskVars, processVars
<1>10. CASE Cmake(s)
  <2>1. PICK p \in {"make", "failed"} : Goto(s, p)
        BY <1>10 DEF Cmake
  <2>2. LocalTypes' BY <1>10, <1>a, <2>1, LocalsKept DEF Cmake, Phase, Exchanging
  <2>3. files' \in [Maker -> Content]
    <3>1. CwdExists => cwd.dir \in Maker BY CwdLeads
    <3>2. \/ files' = files
          \/ CwdExists /\ files' = [files EXCEPT ![cwd.dir].make = TRUE]
          BY <1>10 DEF Cmake
    <3>3. None \in Maker \union {None} OBVIOUS
    <3>4. CASE files' = files BY <3>4, <1>f
    <3>5. CASE CwdExists /\ files' = [files EXCEPT ![cwd.dir].make = TRUE]
      <4>1. cwd.dir \in Maker BY <3>1, <3>5
      <4>2. [files EXCEPT ![cwd.dir].make = TRUE] \in [Maker -> Content]
            BY <4>1, <3>3, <1>b
      <4> QED BY ONLY <4>2, <3>5
    <3> QED BY <3>2, <3>4, <3>5
  <2> QED BY <1>10, <1>a, <2>2, <2>3 DEF Cmake, StoreTypes, listVars, processVars
<1>11. CASE Make(s)
  <2>1. PICK p \in {"stat", "failed"} : Goto(s, p)
        BY <1>11 DEF Make, Talk
  <2>2. LocalTypes' BY <1>11, <1>a, <2>1, LocalsKept DEF Make, Phase, Exchanging
  <2>3. files' \in [Maker -> Content]
    <3>1. CASE files' = files BY <3>1, <1>a DEF StoreTypes
    <3>2. CASE /\ CwdExists
               /\ files' = [files EXCEPT ![cwd.dir].lib =
                    [weights |-> files[cwd.dir].weights, dims |-> files[cwd.dir].code]]
      <4>1. cwd.dir \in Maker BY <3>2, CwdLeads
      <4>2. [weights |-> files[cwd.dir].weights, dims |-> files[cwd.dir].code] \in Library
            BY <4>1, <1>a DEF StoreTypes, Content, Library
      <4>3. None \in Config \union {None} /\ None \in Maker \union {None} OBVIOUS
      <4> QED BY <3>2, <4>1, <4>2, <4>3, <1>a, ContentChanged DEF StoreTypes
    <3> QED BY <1>11, <3>1, <3>2 DEF Make
  <2> QED BY <1>11, <1>a, <2>2, <2>3 DEF Make, StoreTypes, listVars, processVars
<1>12. CASE Stat(s) \/ StepFailed(s) \/ Done(s)
  <2>1. PICK p \in {"config", "failed", "failing", "returned0"} : Goto(s, p)
        BY <1>12 DEF Stat, StepFailed, Done, Talk, Refuse
  <2>2. UNCHANGED storeVars BY <1>12 DEF Stat, StepFailed, Done
  <2>3. LocalTypes' BY <2>1, <2>2, <1>a, LocalsKept DEF storeVars, Phase, Exchanging
  <2> QED BY <2>2, <2>3, <1>a, StoreKept DEF storeVars, processVars
<1>14. CASE WriteConfig(s)
  <2>1. CASE ProcessEnds("fatal") BY <2>1, <1>a, TypesEnd
  <2>2. CASE /\ dirAt[folder[s]] # None /\ Talk(s, "list")
             /\ files' = [files EXCEPT ![dirAt[folder[s]]].config = [from |-> s, out |-> out[s]]]
             /\ UNCHANGED <<localVars, listVars, cwd, dirAt, savedCounter, processVars, disturbed>>
    <3>1. LocalTypes' BY <2>2, <1>a, LocalsKept DEF Talk, Phase
    <3>2. files' \in [Maker -> Content]
      <4>1. dirAt[folder[s]] \in Maker BY <2>2, <1>14, PathsLead DEF WriteConfig, Foldered, Made
      <4>2. [from |-> s, out |-> out[s]] \in Config BY <1>a, <1>c DEF LocalTypes, Config
      <4>3. None \in Library \union {None} /\ None \in Maker \union {None} OBVIOUS
      <4> QED BY <2>2, <4>1, <4>2, <4>3, <1>a, ContentChanged DEF StoreTypes
    <3> QED BY <2>2, <3>1, <3>2, <1>a DEF StoreTypes, listVars, processVars
  <2> QED BY <1>14, <2>1, <2>2 DEF WriteConfig
<1>15. CASE ListModel(s)
  <2>1. LocalTypes' BY <1>15, <1>a, LocalsKept DEF ListModel, Phase, Exchanging
  <2> DEFINE e == EntryOf(folder[s], s, out[s])
  <2>2. e \in Model
    <3>1. folder[s] \in Folder BY <1>15, PathsLead DEF ListModel, Foldered, Made
    <3> QED BY <3>1, <1>a, <1>c DEF EntryOf, Model, LocalTypes
  <2> HIDE DEF e
  <2>3. Replaced(configured, e) \in Seq(Model)
    <3>1. configured \in Seq(Model) BY <1>a DEF StoreTypes
    <3>2. Append(configured, e) \in Seq(Model) BY <3>1, <2>2
    <3>3. [i \in 1..Len(configured) |-> IF configured[i].name = e.name THEN e ELSE configured[i]]
            \in Seq(Model)
          BY <3>1, <2>2
    <3> QED BY <3>2, <3>3 DEF Replaced
  <2>4. uploaded \in Seq(Model) /\ Append(uploaded, e) \in Seq(Model)
        BY <1>a, <2>2 DEF StoreTypes
  <2>5. configured' \in Seq(Model) /\ uploaded' \in Seq(Model)
        BY <1>15, <1>a, <2>3, <2>4 DEF ListModel, e, StoreTypes
  <2> QED BY <1>15, <1>a, <2>1, <2>5 DEF ListModel, StoreTypes, diskVars, processVars
<1> QED BY <1>1, <1>2, <1>3, <1>4, <1>5, <1>6, <1>7, <1>8, <1>9, <1>10, <1>11,
           <1>12, <1>14, <1>15 DEF CompilerStep

\* ... of any session ...
LEMMA SessionTypes ==
  ASSUME FolderInv, ListInv, NEW s \in Session, SessionStep(s)
  PROVE  LocalTypes' /\ StoreTypes'
<1>a. LocalTypes /\ StoreTypes BY DEF FolderInv
<1>b. ASSUME UNCHANGED storeVars, NEW p \in Phase, Goto(s, p)
      PROVE  LocalTypes' /\ StoreTypes'
      BY <1>a, <1>b, LocalsKept, StoreKept DEF storeVars, processVars
<1>c. ASSUME UNCHANGED storeVars, phase' = phase
      PROVE  LocalTypes' /\ StoreTypes'
  <2>1. LocalTypes' BY <1>a, <1>c DEF LocalTypes, storeVars, localVars
  <2> QED BY <1>a, <1>c, <2>1, StoreKept DEF storeVars, processVars
<1>1. CASE Dispatch(s)
      BY <1>1, <1>b DEF Dispatch, Talk, Phase, Exchanging
<1>2. CASE CompilerStep(s) BY <1>2, CompilerTypes
<1>3. CASE CountModels(s)
  <2>1. Len(configured) \in Nat BY <1>a DEF StoreTypes
  <2>2. toSend' \in [Session -> Nat] BY <1>3, <2>1, <1>a DEF CountModels, LocalTypes
  <2>3. phase' \in [Session -> Phase]
        BY <1>3, <1>a DEF CountModels, Goto, LocalTypes, Phase, Exchanging
  <2> QED BY <1>3, <2>2, <2>3, <1>a, StoreKept DEF CountModels, LocalTypes, processVars
<1>4. CASE SendEntry(s)
  <2>1. PICK x : seen' = [seen EXCEPT ![s] = Append(@, x)] /\ x = configured[Len(seen[s]) + 1].name
        BY <1>4 DEF SendEntry
  <2>2. x \in Folder
    <3>1. /\ Len(seen[s]) < toSend[s] /\ toSend[s] <= Len(configured)
          /\ seen[s] \in Seq(Folder) /\ toSend[s] \in Nat
          BY <1>4, <1>a DEF SendEntry, ListInv, SeenAt, LocalTypes
    <3>2. configured \in Seq(Model) BY <1>a DEF StoreTypes
    <3>3. Len(seen[s]) + 1 \in 1..Len(configured) BY <3>1, <3>2
    <3>4. configured[Len(seen[s]) + 1] \in Model BY <3>2, <3>3
    <3> QED BY <3>4, <2>1 DEF Model
  <2>3. seen' \in [Session -> Seq(Folder)]
        BY <2>1, <2>2, <1>a DEF LocalTypes
  <2>4. phase' \in [Session -> Phase]
        BY <1>4, <1>a DEF SendEntry, Talk, Goto, LocalTypes, Phase, Exchanging
  <2> QED BY <1>4, <2>3, <2>4, <1>a, StoreKept DEF SendEntry, LocalTypes, processVars
<1>5. CASE Lock(s)
      BY <1>5, <1>b DEF Lock, Phase, Exchanging
<1>6. CASE Lookup(s)
  <2>1. \A e \in ToSet(configured) \union ToSet(uploaded) : e \in Model
        BY <1>a DEF StoreTypes, ToSet
  <2>2. entry' \in [Session -> Model \union {None}]
        BY <1>6, <2>1, <1>a DEF Lookup, LocalTypes
  <2>3. phase' \in [Session -> Phase]
        BY <1>6, <1>a DEF Lookup, Refuse, Goto, LocalTypes, Phase, Exchanging
  <2> QED BY <1>6, <2>2, <2>3, <1>a, StoreKept DEF Lookup, LocalTypes, processVars
<1>7. CASE Load(s)
  <2>1. entry[s] \in Model BY <1>7, <1>a DEF Load, ListInv, SeenAt, LocalTypes
  <2>2. entry[s].name \in Folder BY <2>1 DEF Model
  <2>3. dirAt[entry[s].name] # None => files[dirAt[entry[s].name]].lib \in Library \union {None}
        BY <2>2, <1>a DEF StoreTypes, Content
  <2>4. loaded' \in [Session -> Library \union {None}]
        BY <1>7, <2>3, <1>a DEF Load, LocalTypes
  <2>5. phase' \in [Session -> Phase]
        BY <1>7, <1>a DEF Load, Goto, LocalTypes, Phase, Exchanging
  <2> QED BY <1>7, <2>4, <2>5, <1>a, StoreKept DEF Load, LocalTypes, processVars
<1>8. CASE NotFound(s) \/ Serve(s) \/ Shadow(s) \/ ShadowLoop(s) \/ ClientLost(s)
      BY <1>8, <1>b
         DEF NotFound, Serve, Shadow, ShadowLoop, ClientLost, Talk, Refuse, Phase, Exchanging
<1>10. CASE Release(s) BY <1>10, <1>c DEF Release
<1>14. CASE Failing(s) BY <1>14, <1>b, <1>c DEF Failing, Phase
<1>15. CASE Finish(s)
  <2>1. phase' \in [Session -> Phase] BY <1>15, <1>a DEF Finish, Goto, LocalTypes, Phase
  <2>2. <<>> \in Seq(Folder) OBVIOUS
  <2>3. LocalTypes' BY <1>15, <2>1, <2>2, <1>a DEF Finish, LocalTypes
  <2> QED BY <1>15, <2>3, <1>a, StoreKept DEF Finish, processVars
<1> QED BY <1>1, <1>2, <1>3, <1>4, <1>5, <1>6, <1>7, <1>8, <1>10,
           <1>14, <1>15 DEF SessionStep, ConfigureStep, InferenceStep, ShadowStep

\* ... and after a restart, whose list is what is found on disk.
LEMMA RestartTypes ==
  ASSUME LocalTypes, StoreTypes, Restart
  PROVE  /\ LocalTypes' /\ StoreTypes'
         /\ ToSet(configured') = {DiskEntry(n) : n \in OnDisk}
<1> DEFINE E == {DiskEntry(n) : n \in OnDisk}
<1>1. IsFiniteSet(E) /\ \A e \in E : e \in Model BY DiskEntriesTyped
<1>2. configured' \in SetToSeqs(E) BY DEF Restart
<1> HIDE DEF E
<1>3. configured' \in Seq(E) /\ ToSet(configured') = E BY <1>1, <1>2, Sequenced
<1>4. configured' \in Seq(Model) BY <1>1, <1>3
<1>5. counter' \in 0..MaxUploads /\ savedCounter' = counter'
      BY StoreAssumption DEF Restart, StoreTypes
<1>6. /\ uploaded' = <<>> /\ cwd' = [dir |-> Start, sub |-> FALSE] /\ up' = "up"
      /\ lostCounter' \in BOOLEAN /\ UNCHANGED <<dirAt, files, disturbed, phase, localVars>>
      BY DEF Restart, StoreTypes
<1>7. LocalTypes' BY <1>6 DEF LocalTypes, localVars
<1>8. /\ uploaded' \in Seq(Model)
      /\ cwd' \in [dir : Session \union {Start}, sub : BOOLEAN]
      BY <1>6
<1>9. StoreTypes' BY <1>4, <1>5, <1>6, <1>8 DEF StoreTypes
<1> QED BY <1>3, <1>7, <1>9 DEF E

\* Every step of the server keeps the invariant about folders.
LEMMA FolderInvNext ==
  ASSUME FolderInv, ListInv, [Next]_vars
  PROVE  FolderInv'
<1> SUFFICES LocalTypes' /\ StoreTypes' /\ FolderParts'
    BY EndInvNext DEF FolderInv
<1>a. EndInv /\ LocalTypes /\ StoreTypes BY DEF FolderInv
<1>1. CASE UNCHANGED vars
  <2>1. UNCHANGED <<phase, folder, gen, out, entry, loaded, toSend, seen, configured, uploaded,
                    counter, cwd, dirAt, files, savedCounter, up, crashes, lostCounter,
                    disturbed, mutex>>
        BY <1>1 DEF vars, storeVars, localVars, listVars, diskVars, processVars, gpuVars
  <2>2. LocalTypes' /\ StoreTypes' BY <2>1, <1>a DEF LocalTypes, StoreTypes
  <2>3. FolderParts'
        BY <2>1 DEF FolderInv, FolderParts, FolderAt, PathAt, PathOf, Makers, Sole,
                    CounterAhead, UploadFoldersApart, FatalOnlyOnSameName
  <2> QED BY <2>2, <2>3
<1>2. ASSUME NEW s \in Session, Connect(s) PROVE LocalTypes' /\ StoreTypes' /\ FolderParts'
  <2>1. /\ up = "up" /\ phase[s] = "new" /\ Goto(s, "accepted") /\ UNCHANGED <<gpuVars, storeVars>>
        BY <1>2 DEF Connect
  <2>2. Calm(phase[s], "accepted") BY <2>1 DEF Calm, Phase, Exchanging, Early, Foldered, Made
  <2>3. UNCHANGED folderVars /\ mutex' = mutex
        BY <2>1 DEF storeVars, localVars, listVars, diskVars, processVars, gpuVars, folderVars
  <2>4. FolderParts' BY <2>1, <2>2, <2>3, FolderCalm
  <2>5. LocalTypes' BY <2>1, <1>a, LocalsKept DEF Phase, Exchanging, storeVars
  <2>6. StoreTypes' BY <2>1, <1>a, StoreKept DEF storeVars, processVars
  <2> QED BY <2>4, <2>5, <2>6
<1>3. ASSUME NEW s \in Session, SessionStep(s) PROVE LocalTypes' /\ StoreTypes' /\ FolderParts'
      BY <1>3, SessionTypes, SessionFolder
<1>4. CASE Crash BY <1>4, <1>a, TypesEnd, FolderEnds DEF Crash
<1>5. CASE Restart BY <1>5, <1>a, RestartTypes, FolderRestarts
<1>6. CASE Idle BY <1>1, <1>6 DEF Idle
<1> QED BY <1>1, <1>2, <1>3, <1>4, <1>5, <1>6 DEF Next

\* It holds at the first start.
LEMMA FolderInvInit == Init => FolderInv
<1> SUFFICES ASSUME Init PROVE FolderInv OBVIOUS
<1>1. EndInv BY EndInvInit
<1> DEFINE E == {EntryOf(n, n, n) : n \in Listed}
<1>2. IsFiniteSet(E) /\ \A e \in E : e \in Model BY ListedEntriesTyped
<1>3. configured = SetToSeq(E) BY DEF Init
<1> HIDE DEF E
<1>4. configured \in Seq(Model)
  <2>1. configured \in Seq(E) BY <1>2, <1>3, SequenceOfSet, Sequenced
  <2> QED BY <1>2, <2>1
<1>5. LocalTypes
  <2>1. phase \in [Session -> Phase] BY DEF Init, Phase
  <2>2. <<>> \in Seq(Folder) OBVIOUS
  <2> QED BY <2>1, <2>2 DEF Init, LocalTypes
<1>6. StoreTypes
  <2>1. /\ uploaded \in Seq(Model) /\ counter \in 0..MaxUploads /\ savedCounter = counter
        BY StoreAssumption DEF Init
  <2>2. cwd \in [dir : Session \union {Start}, sub : BOOLEAN]
    <3>1. cwd = [dir |-> Start, sub |-> FALSE] BY DEF Init
    <3> QED BY <3>1
  <2>3. dirAt \in [Folder -> Maker \union {None}] BY DEF Init, Maker
  <2>4. files \in [Maker -> Content] BY EmptyTyped DEF Init
  <2> QED BY <1>4, <2>1, <2>2, <2>3, <2>4 DEF Init, StoreTypes
<1>7. FolderParts
  <2>1. \A s \in Session : phase[s] = "new" /\ folder[s] = None BY DEF Init
  <2>2. up = "up" /\ \A n \in Folder : dirAt[n] = IF n \in Listed THEN n ELSE None BY DEF Init
  <2>3. \A s \in Session : FolderAt(s) BY <2>1, <2>2 DEF FolderAt, Early, Foldered, Made
  <2>4. ASSUME NEW n \in Folder PROVE PathAt(n)
    <3>1. dirAt[n] \notin Session
          BY <2>2, NamesDiffer, NoneAssumption
    <3>2. dirAt[n] \in Listed => dirAt[n] = n
          BY <2>2, NamesDiffer DEF Maker
    <3>3. \A t \in Makers(n) : phase[t] \notin Made \union {"makeDirs"}
          BY <2>1 DEF Makers, Made
    <3> QED BY <3>1, <3>2, <3>3 DEF PathAt
  <2>5. \A s \in Session : PathOf(s)
        BY <2>1, <2>2, NamesDiffer, NoneAssumption DEF PathOf, Made, Early
  <2>6. None \notin 1..MaxUploads BY NamesDiffer DEF Folder
  <2>7. CounterAhead /\ UploadFoldersApart BY <2>1, <2>6 DEF CounterAhead, UploadFoldersApart
  <2> QED BY <2>2, <2>3, <2>4, <2>5, <2>7 DEF FolderParts, FatalOnlyOnSameName
<1> QED BY <1>1, <1>5, <1>6, <1>7 DEF FolderInv
-------------------------------------------------------------------------------
\* addConfigToPreconfiguredList keeps the names of the list where they are and
\* adds at most one; of the entries it replaces those of the same name.
LEMMA ReplacedNames ==
  ASSUME NEW q \in Seq(Model), NEW e \in Model,
         \A i, j \in 1..Len(q) : q[i].name = q[j].name => i = j
  PROVE  LET r == Replaced(q, e)
         IN /\ r \in Seq(Model) /\ Len(q) <= Len(r)
            /\ \A i \in 1..Len(q) : r[i].name = q[i].name
            /\ \A i, j \in 1..Len(r) : r[i].name = r[j].name => i = j
            /\ e \in ToSet(r)
            /\ \A x \in ToSet(q) : x.name # e.name => x \in ToSet(r)
            /\ \A x \in ToSet(r) : x = e \/ x \in ToSet(q)
<1> DEFINE r == Replaced(q, e)
           n == Len(q)
<1>1. n \in Nat OBVIOUS
<1>2. CASE \E i \in 1..n : q[i].name = e.name
  <2>1. r = [i \in 1..n |-> IF q[i].name = e.name THEN e ELSE q[i]]
        BY <1>2 DEF Replaced
  <2> HIDE DEF r
  <2>2. r \in Seq(Model) /\ Len(r) = n BY <1>1, <2>1
  <2>3. \A i \in 1..n : r[i].name = q[i].name BY <2>1
  <2>4. PICK k \in 1..n : q[k].name = e.name BY <1>2
  <2>5. k \in DOMAIN r /\ r[k] = e BY <2>1, <2>4
  <2>6. e \in ToSet(r) BY <2>5 DEF ToSet
  <2>7. \A x \in ToSet(q) : x.name # e.name => x \in ToSet(r)
        BY <2>1 DEF ToSet
  <2>8. \A x \in ToSet(r) : x = e \/ x \in ToSet(q) BY <2>1 DEF ToSet
  <2>9. n <= Len(r) BY <2>2, <1>1
  <2>10. \A i, j \in 1..Len(r) : r[i].name = r[j].name => i = j BY <2>2, <2>3
  <2> QED BY <2>2, <2>3, <2>6, <2>7, <2>8, <2>9, <2>10 DEF r
<1>3. CASE ~ \E i \in 1..n : q[i].name = e.name
  <2>1. r = Append(q, e) BY <1>3 DEF Replaced
  <2> HIDE DEF r
  <2>2. r \in Seq(Model) /\ Len(r) = n + 1 BY <2>1
  <2>3. \A i \in 1..n : r[i] = q[i] BY <2>1
  <2>4. r[n + 1] = e BY <2>1
  <2>5. \A i \in 1..Len(r) : i \in 1..n \/ i = n + 1 BY <2>2, <1>1
  <2>6. n + 1 \in DOMAIN r /\ (\A i \in 1..n : i \in DOMAIN r) BY <2>2, <1>1
  <2>7. e \in ToSet(r) BY <2>4, <2>6 DEF ToSet
  <2>8. \A x \in ToSet(q) : x \in ToSet(r) BY <2>3, <2>6 DEF ToSet
  <2>9. \A x \in ToSet(r) : x = e \/ x \in ToSet(q) BY <2>1, <2>2, <2>3, <2>4, <2>5 DEF ToSet
  <2>10. n <= Len(r) BY <2>2, <1>1
  <2>11. \A i, j \in 1..Len(r) : r[i].name = r[j].name => i = j BY <1>3, <2>3, <2>4, <2>5
  <2> QED BY <2>2, <2>3, <2>7, <2>8, <2>9, <2>10, <2>11 DEF r
<1> QED BY <1>2, <1>3

\* A step that leaves the list of models and what has been sent of it alone.
LEMMA ListCalm ==
  ASSUME FolderInv, ListInv, NEW s \in Session, NEW p, Goto(s, p),
         UNCHANGED <<configured, seen, toSend, entry>>,
         p \notin {"entry", "entriesSent", "load"},
         p \in {"new", "accepted", "countModels"} => phase[s] \in {"new", "accepted", "countModels"}
  PROVE  ListInv'
<1>1. phase'[s] = p /\ \A t \in Session \ {s} : phase'[t] = phase[t]
      BY DEF Goto, FolderInv, LocalTypes
<1>2. NamesApart' BY DEF ListInv, NamesApart
<1>3. ASSUME NEW t \in Session PROVE SeenAt(t)'
  <2>1. SeenAt(t) BY DEF ListInv
  <2>2. CASE t = s BY <2>1, <2>2, <1>1 DEF SeenAt
  <2>3. CASE t # s BY <2>1, <2>3, <1>1 DEF SeenAt
  <2> QED BY <2>2, <2>3
<1> QED BY <1>2, <1>3 DEF ListInv

\* The list when the process ends.
LEMMA ListEnds ==
  ASSUME FolderInv, ListInv, NEW how, ProcessEnds(how)
  PROVE  ListInv'
<1>1. NamesApart' BY DEF ListInv, NamesApart, ProcessEnds, listVars
<1>2. ASSUME NEW t \in Session PROVE SeenAt(t)'
  <2>1. seen'[t] = <<>> /\ phase'[t] \in {"new", "ended"} BY DEF ProcessEnds
  <2> QED BY <2>1 DEF SeenAt
<1> QED BY <1>1, <1>2 DEF ListInv

\* A step of a compiler session: only ListModel changes the list.
LEMMA CompilerLists ==
  ASSUME FolderInv, ListInv, NEW s \in Session, CompilerStep(s)
  PROVE  ListInv'
<1> DEFINE Kept == ListInv'
           Quiet == {"failing", "count", "counting", "remove", "makeDirs", "receive", "chdir",
                     "generate", "readLog", "cmake", "make", "stat", "config", "list", "failed",
                     "returned0", "done"}
<1> SUFFICES Kept OBVIOUS
<1> HIDE DEF Kept
<1>e. ASSUME NEW p \in Quiet, Goto(s, p), UNCHANGED <<configured, seen, toSend, entry>>
      PROVE  Kept
      BY <1>e, ListCalm DEF Kept
<1>f. ASSUME NEW p \in Quiet, Talk(s, p), UNCHANGED <<configured, seen, toSend, entry>>
      PROVE  Kept
      BY <1>e, <1>f DEF Talk
<1>g. ASSUME Refuse(s), UNCHANGED <<configured, seen, toSend, entry>>
      PROVE  Kept
      BY <1>e, <1>g DEF Refuse
<1>h. ASSUME ProcessEnds("fatal") PROVE Kept BY <1>h, ListEnds DEF Kept
<1> USE DEF localVars, listVars
<1>1. CASE Check(s) BY <1>1, <1>e, <1>g DEF Check
<1>2. CASE CountBegin(s) BY <1>2, <1>e DEF CountBegin
<1>3. CASE CountEnd(s) BY <1>3, <1>e DEF CountEnd
<1>4. CASE RemoveFolder(s) BY <1>4, <1>e, <1>g DEF RemoveFolder
<1>5. CASE MakeDirs(s) BY <1>5, <1>e, <1>h DEF MakeDirs
<1>6. CASE Receive(s) BY <1>6, <1>f, <1>g, <1>h DEF Receive, storeVars
<1>7. CASE Chdir(s) BY <1>7, <1>e DEF Chdir
<1>8. CASE Generate(s) BY <1>8, <1>f DEF Generate
<1>9. CASE ReadLog(s) BY <1>9, <1>f, <1>g DEF ReadLog
<1>10. CASE Cmake(s) BY <1>10, <1>e DEF Cmake
<1>11. CASE Make(s) BY <1>11, <1>f DEF Make
<1>12. CASE Stat(s) BY <1>12, <1>f DEF Stat, storeVars
<1>13. CASE StepFailed(s) BY <1>13, <1>g DEF StepFailed, storeVars
<1>14. CASE WriteConfig(s) BY <1>14, <1>f, <1>h DEF WriteConfig
<1>15. CASE ListModel(s)
  <2> DEFINE e == EntryOf(folder[s], s, out[s])
  <2>1. phase[s] = "list" /\ Goto(s, "done") /\ UNCHANGED <<seen, toSend, entry>>
        BY <1>15 DEF ListModel
  <2>2. CASE configured' = configured BY <2>1, <2>2, <1>e
  <2>3. CASE configured' = Replaced(configured, e)
    <3>1. configured \in Seq(Model) /\ NamesApart BY DEF FolderInv, StoreTypes, ListInv
    <3>2. e \in Model
      <4>1. folder[s] \in Folder BY <2>1, PathsLead DEF Foldered, Made
      <4> QED BY <4>1 DEF EntryOf, Model, FolderInv, LocalTypes, Maker
    <3> HIDE DEF e
    <3>3. /\ configured' \in Seq(Model) /\ Len(configured) <= Len(configured')
          /\ \A i \in 1..Len(configured) : configured'[i].name = configured[i].name
          /\ NamesApart'
          BY <2>3, <3>1, <3>2, ReplacedNames DEF NamesApart
    <3>4. ASSUME NEW t \in Session PROVE SeenAt(t)'
      <4>1. SeenAt(t) BY DEF ListInv
      <4>2. phase'[t] = IF t = s THEN "done" ELSE phase[t]
            BY <2>1 DEF Goto, FolderInv, LocalTypes
      <4>3. CASE t = s BY <4>1, <4>2, <4>3, <2>1 DEF SeenAt
      <4>4. CASE t # s /\ phase[t] # "entry" BY <4>1, <4>2, <4>4, <2>1 DEF SeenAt
      <4>5. CASE t # s /\ phase[t] = "entry"
        <5>1. seen[t] \in Seq(Folder) /\ toSend[t] \in Nat BY DEF FolderInv, LocalTypes
        <5>2. /\ Len(seen[t]) < toSend[t] /\ toSend[t] <= Len(configured)
              /\ \A i \in 1..Len(seen[t]) : seen[t][i] = configured[i].name
              BY <4>1, <4>5 DEF SeenAt
        <5>3. toSend[t] <= Len(configured') BY <5>1, <5>2, <3>1, <3>3
        <5>4. \A i \in 1..Len(seen[t]) : i \in 1..Len(configured) BY <5>1, <5>2, <3>1
        <5>5. \A i \in 1..Len(seen[t]) : seen[t][i] = configured'[i].name BY <5>2, <5>4, <3>3
        <5> QED BY <4>1, <4>2, <4>5, <5>2, <5>3, <5>5, <2>1 DEF SeenAt
      <4> QED BY <4>3, <4>4, <4>5
    <3> QED BY <3>3, <3>4 DEF ListInv, Kept
  <2> QED BY <1>15, <2>2, <2>3 DEF ListModel
<1>16. CASE Done(s) BY <1>16, <1>f DEF Done, storeVars
<1> QED BY <1>1, <1>2, <1>3, <1>4, <1>5, <1>6, <1>7, <1>8, <1>9, <1>10, <1>11,
           <1>12, <1>13, <1>14, <1>15, <1>16 DEF CompilerStep

\* The other steps of a session: what a configure session has sent is a prefix
\* of the names of the list, which keeps its names in place.
LEMMA SessionLists ==
  ASSUME FolderInv, ListInv, NEW s \in Session, SessionStep(s)
  PROVE  ListInv'
<1> DEFINE Kept == ListInv'
<1> SUFFICES Kept OBVIOUS
<1> HIDE DEF Kept
<1>e. ASSUME NEW p, p \notin {"entry", "entriesSent", "load", "new", "accepted", "countModels"},
             Goto(s, p), UNCHANGED <<configured, seen, toSend, entry>>
      PROVE  Kept
      BY <1>e, ListCalm DEF Kept
<1>a. LocalTypes /\ StoreTypes /\ NamesApart /\ SeenAt(s) BY DEF FolderInv, ListInv
<1>b. ASSUME NEW p, Goto(s, p), UNCHANGED configured,
             \A t \in Session \ {s} :
               seen'[t] = seen[t] /\ toSend'[t] = toSend[t] /\ entry'[t] = entry[t],
             SeenAt(s)'
      PROVE  Kept
  <2>1. NamesApart' BY <1>a, <1>b DEF NamesApart
  <2>2. ASSUME NEW t \in Session \ {s} PROVE SeenAt(t)'
    <3>1. phase'[t] = phase[t] BY <1>a, <1>b DEF Goto, LocalTypes
    <3> QED BY <3>1, <1>b DEF ListInv, SeenAt
  <2> QED BY <1>b, <2>1, <2>2 DEF ListInv, Kept
<1> USE DEF localVars, listVars, storeVars
<1>1. CASE Dispatch(s)
  <2>1. PICK p \in {"countModels", "check", "lock", "shadow", "ended"} : Goto(s, p)
        BY <1>1 DEF Dispatch, Talk
  <2>2. phase[s] = "accepted" /\ UNCHANGED <<configured, seen, toSend, entry>> BY <1>1 DEF Dispatch
  <2> QED BY <2>1, <2>2, ListCalm DEF Kept
<1>2. CASE CompilerStep(s) BY <1>2, CompilerLists DEF Kept
<1>3. CASE CountModels(s)
  <2>1. PICK p \in {"entriesSent", "entry"} :
          Goto(s, p) /\ (p = "entriesSent" <=> configured = <<>>)
        BY <1>3 DEF CountModels
  <2>2. /\ phase[s] = "countModels" /\ seen' = seen /\ entry' = entry /\ configured' = configured
        /\ toSend' = [toSend EXCEPT ![s] = Len(configured)]
        BY <1>3 DEF CountModels
  <2>3. seen[s] = <<>> BY <2>2, <1>a DEF SeenAt
  <2>4. configured \in Seq(Model) BY <1>a DEF StoreTypes
  <2>5. toSend'[s] = Len(configured) /\ \A t \in Session \ {s} : toSend'[t] = toSend[t]
        BY <2>2, <1>a DEF LocalTypes
  <2>6. phase'[s] = p BY <2>1, <1>a DEF Goto, LocalTypes
  <2>7. Len(configured) \in Nat /\ (configured = <<>> <=> Len(configured) = 0) BY <2>4
  <2>8. Len(seen'[s]) = 0 BY <2>2, <2>3
  <2>9. p = "entry" => Len(seen'[s]) < toSend'[s] /\ toSend'[s] <= Len(configured')
        BY <2>1, <2>2, <2>5, <2>7, <2>8
  <2>10. p = "entriesSent" => Len(seen'[s]) = toSend'[s]
        BY <2>1, <2>5, <2>7, <2>8
  <2>11. \A i \in 1..Len(seen'[s]) : FALSE BY <2>8
  <2>12. SeenAt(s)' BY <2>6, <2>1, <2>9, <2>10, <2>11 DEF SeenAt
  <2> QED BY <2>1, <2>2, <2>5, <2>12, <1>b
<1>4. CASE SendEntry(s)
  <2> DEFINE n == Len(seen[s])
             x == configured[n + 1].name
             p == IF n + 1 = toSend[s] THEN "entriesSent" ELSE "entry"
  <2>1. /\ phase[s] = "entry" /\ Goto(s, p) /\ seen' = [seen EXCEPT ![s] = Append(@, x)]
        /\ UNCHANGED <<configured, toSend, entry>>
        BY <1>4 DEF SendEntry, Talk
  <2>2. seen[s] \in Seq(Folder) /\ toSend[s] \in Nat /\ configured \in Seq(Model)
        BY <1>a DEF LocalTypes, StoreTypes
  <2>3. /\ n < toSend[s] /\ toSend[s] <= Len(configured)
        /\ \A i \in 1..n : seen[s][i] = configured[i].name
        BY <1>a, <2>1 DEF SeenAt
  <2>4. n \in Nat /\ Len(configured) \in Nat BY <2>2
  <2>5. seen'[s] = Append(seen[s], x) /\ \A t \in Session \ {s} : seen'[t] = seen[t]
        BY <2>1, <1>a DEF LocalTypes
  <2> HIDE DEF n, x, p
  <2>6. x \in Folder
    <3>1. n + 1 \in 1..Len(configured) BY <2>3, <2>4, <2>2
    <3>2. configured[n + 1] \in Model BY <3>1, <2>2
    <3> QED BY <3>2 DEF x, Model
  <2>7. Len(seen'[s]) = n + 1 /\ \A i \in 1..n : seen'[s][i] = seen[s][i]
        BY <2>2, <2>5, <2>6 DEF n
  <2>8. seen'[s][n + 1] = x BY <2>2, <2>5, <2>6 DEF n
  <2>9. \A i \in 1..Len(seen'[s]) : i \in 1..n \/ i = n + 1 BY <2>4, <2>7
  <2>10. \A i \in 1..Len(seen'[s]) : seen'[s][i] = configured[i].name
        BY <2>3, <2>7, <2>8, <2>9 DEF x
  <2>11. \A i \in 1..Len(seen'[s]) : i \in 1..Len(configured)
        BY <2>2, <2>3, <2>4, <2>7
  <2>12. \A i, j \in 1..Len(seen'[s]) : seen'[s][i] = seen'[s][j] => i = j
        BY <2>10, <2>11, <1>a DEF NamesApart
  <2>13. phase'[s] = p BY <2>1, <1>a DEF Goto, LocalTypes
  <2>14. p = "entry" => Len(seen'[s]) < toSend[s] BY <2>2, <2>3, <2>4, <2>7 DEF p
  <2>15. p = "entriesSent" => Len(seen'[s]) = toSend[s] BY <2>7 DEF p
  <2>16. p \in {"entry", "entriesSent"} BY DEF p
  <2>17. SeenAt(s)' BY <2>1, <2>3, <2>10, <2>12, <2>13, <2>14, <2>15, <2>16 DEF SeenAt
  <2> QED BY <2>1, <2>5, <2>17, <1>b
<1>5. CASE Lock(s)
  <2>1. PICK p \in {"lookup", "lock"} : Goto(s, p) BY <1>5 DEF Lock
  <2> QED BY <1>5, <2>1, <1>e DEF Lock
<1>6. CASE Lookup(s)
  <2>0. UNCHANGED <<configured, seen, toSend>> BY <1>6 DEF Lookup
  <2>1. CASE Refuse(s) /\ entry' = entry BY <2>0, <2>1, <1>e DEF Refuse
  <2>2. CASE Goto(s, "notFound") /\ entry' = entry BY <2>0, <2>2, <1>e
  <2>3. CASE /\ Goto(s, "load")
             /\ \E e \in ToSet(configured) \union ToSet(uploaded) : entry' = [entry EXCEPT ![s] = e]
    <3>1. PICK e \in ToSet(configured) \union ToSet(uploaded) : entry' = [entry EXCEPT ![s] = e]
          BY <2>3
    <3>2. e \in Model BY <1>a DEF StoreTypes, ToSet
    <3>3. entry'[s] # None /\ \A t \in Session \ {s} : entry'[t] = entry[t]
          BY <3>1, <3>2, RecordAssumption, <1>a DEF LocalTypes
    <3>4. phase'[s] = "load" BY <2>3, <1>a DEF Goto, LocalTypes
    <3>5. SeenAt(s)' BY <2>0, <3>3, <3>4, <1>a DEF SeenAt
    <3> QED BY <2>0, <2>3, <3>3, <3>5, <1>b
  <2> QED BY <1>6, <2>1, <2>2, <2>3 DEF Lookup
<1>7. CASE Load(s) BY <1>7, <1>e DEF Load
<1>8. CASE NotFound(s) \/ Serve(s) \/ Shadow(s) \/ ShadowLoop(s) \/ ClientLost(s)
      BY <1>8, <1>e DEF NotFound, Serve, Shadow, ShadowLoop, ClientLost, Talk, Refuse
<1>c. ASSUME phase' = phase, UNCHANGED <<configured, seen, toSend, entry>>
      PROVE  Kept
      BY <1>c DEF ListInv, Kept, NamesApart, SeenAt
<1>10. CASE Release(s) BY <1>10, <1>c DEF Release
<1>14. CASE Failing(s) BY <1>14, <1>c, <1>e DEF Failing
<1>15. CASE Finish(s)
  <2>1. /\ Goto(s, "ended") /\ configured' = configured
        /\ toSend' = [toSend EXCEPT ![s] = 0] /\ seen' = [seen EXCEPT ![s] = <<>>]
        /\ entry' = [entry EXCEPT ![s] = None]
        BY <1>15 DEF Finish
  <2>2. phase'[s] = "ended" /\ seen'[s] = <<>> BY <2>1, <1>a DEF Goto, LocalTypes
  <2>3. SeenAt(s)' BY <2>2 DEF SeenAt
  <2>4. \A t \in Session \ {s} :
          seen'[t] = seen[t] /\ toSend'[t] = toSend[t] /\ entry'[t] = entry[t]
        BY <2>1, <1>a DEF LocalTypes
  <2> QED BY <2>1, <2>3, <2>4, <1>b
<1> QED BY <1>1, <1>2, <1>3, <1>4, <1>5, <1>6, <1>7, <1>8, <1>10,
           <1>14, <1>15 DEF SessionStep, ConfigureStep, InferenceStep, ShadowStep

\* The list that main() has read from the disk has no name twice.
LEMMA DiskNamesApart ==
  ASSUME NEW q, NEW N, NEW f, \A n \in N : f[n].name = n,
         ToSet(q) = {f[n] : n \in N}, DOMAIN q = 1..Len(q),
         \A i, j \in 1..Len(q) : q[i] = q[j] => i = j
  PROVE  \A i, j \in 1..Len(q) : q[i].name = q[j].name => i = j
<1> SUFFICES ASSUME NEW i \in 1..Len(q), NEW j \in 1..Len(q), q[i].name = q[j].name
             PROVE  i = j
             OBVIOUS
<1>1. q[i] \in ToSet(q) /\ q[j] \in ToSet(q) BY DEF ToSet
<1>2. PICK n \in N : q[i] = f[n] BY <1>1
<1>3. PICK m \in N : q[j] = f[m] BY <1>1
<1>4. n = m BY <1>2, <1>3
<1> QED BY <1>2, <1>3, <1>4

\* Every step of the server keeps the invariant about the list.
LEMMA ListInvNext ==
  ASSUME FolderInv, ListInv, [Next]_vars
  PROVE  ListInv'
<1>1. CASE UNCHANGED vars
  <2>1. UNCHANGED <<phase, configured, seen, toSend, entry>>
        BY <1>1 DEF vars, storeVars, localVars, listVars
  <2> QED BY <2>1 DEF ListInv, NamesApart, SeenAt
<1>2. ASSUME NEW s \in Session, Connect(s) PROVE ListInv'
  <2>1. phase[s] = "new" /\ Goto(s, "accepted") /\ UNCHANGED <<configured, seen, toSend, entry>>
        BY <1>2 DEF Connect, storeVars, localVars, listVars
  <2> QED BY <2>1, ListCalm
<1>3. ASSUME NEW s \in Session, SessionStep(s) PROVE ListInv' BY <1>3, SessionLists
<1>4. CASE Crash BY <1>4, ListEnds DEF Crash
<1>5. CASE Restart
  <2> DEFINE E == {DiskEntry(n) : n \in OnDisk}
             f == [n \in OnDisk |-> DiskEntry(n)]
  <2>1. IsFiniteSet(E) BY DiskEntriesTyped DEF FolderInv
  <2>2. configured' \in SetToSeqs(E) BY <1>5 DEF Restart
  <2>3. E = {f[n] : n \in OnDisk} OBVIOUS
  <2>4. \A n \in OnDisk : f[n].name = n BY DEF DiskEntry, EntryOf
  <2> HIDE DEF E, f
  <2>5. /\ configured' \in Seq(E) /\ ToSet(configured') = E
        /\ \A i, j \in 1..Len(configured') : configured'[i] = configured'[j] => i = j
        BY <2>1, <2>2, Sequenced
  <2>6. DOMAIN configured' = 1..Len(configured') BY <2>5
  <2>7. NamesApart' BY <2>3, <2>4, <2>5, <2>6, DiskNamesApart DEF NamesApart
  <2>8. ASSUME NEW t \in Session PROVE SeenAt(t)'
    <3>1. phase[t] \in {"new", "ended"} BY <1>5 DEF Restart, FolderInv, FolderParts, FolderAt
    <3>2. SeenAt(t) /\ UNCHANGED <<phase, seen, toSend, entry>>
          BY <1>5 DEF Restart, localVars, ListInv
    <3> QED BY <3>1, <3>2 DEF SeenAt
  <2> QED BY <2>7, <2>8 DEF ListInv
<1>6. CASE Idle BY <1>1, <1>6 DEF Idle
<1> QED BY <1>1, <1>2, <1>3, <1>4, <1>5, <1>6 DEF Next

\* It holds at the first start.
LEMMA ListInvInit == Init => ListInv
<1> SUFFICES ASSUME Init PROVE ListInv OBVIOUS
<1> DEFINE E == {EntryOf(n, n, n) : n \in Listed}
           f == [n \in Listed |-> EntryOf(n, n, n)]
<1>1. IsFiniteSet(E) BY ListedEntriesTyped
<1>2. configured = SetToSeq(E) BY DEF Init
<1>3. E = {f[n] : n \in Listed} OBVIOUS
<1>4. \A n \in Listed : f[n].name = n BY DEF EntryOf
<1> HIDE DEF E, f
<1>5. configured \in SetToSeqs(E) BY <1>1, <1>2, SequenceOfSet
<1>6. /\ configured \in Seq(E) /\ ToSet(configured) = E
      /\ \A i, j \in 1..Len(configured) : configured[i] = configured[j] => i = j
      BY <1>1, <1>5, Sequenced
<1>7. DOMAIN configured = 1..Len(configured) BY <1>6
<1>8. NamesApart BY <1>3, <1>4, <1>6, <1>7, DiskNamesApart DEF NamesApart
<1>9. ASSUME NEW s \in Session PROVE SeenAt(s)
  <2>1. phase[s] = "new" /\ seen[s] = <<>> BY DEF Init
  <2> QED BY <2>1 DEF SeenAt
<1> QED BY <1>8, <1>9 DEF ListInv

\* Both are invariants of the server.
LEMMA SpecLists == Spec => [](FolderInv /\ ListInv)
<1>1. Init => FolderInv /\ ListInv BY FolderInvInit, ListInvInit
<1>2. FolderInv /\ ListInv /\ [Next]_vars => (FolderInv /\ ListInv)'
      BY FolderInvNext, ListInvNext
<1> QED BY <1>1, <1>2, PTL DEF Spec

\* The types of the whole server: what the sessions keep, the lists, the counter
\* in memory and on disk, and the paths, through crashes and restarts.
THEOREM ServerTypes == Spec => []TypeOK
<1>1. FolderInv => TypeOK
  <2> SUFFICES ASSUME FolderInv PROVE TypeOK OBVIOUS
  <2>1. GpuTypeOK /\ ConnTypeOK BY DEF FolderInv, EndInv, GpuInv, ConnInv
  <2>2. savedCounter \in (0..MaxUploads) \union {Torn} BY DEF FolderInv, StoreTypes
  <2> QED BY <2>1, <2>2 DEF FolderInv, LocalTypes, StoreTypes, Phase, TypeOK
<1> QED BY <1>1, SpecLists, PTL

\* getNextModelUploadCounter never gives two unnamed uploads one folder, for any
\* number of sessions, crashes and restarts, as long as no restart has read a
\* configuration file that a crash left torn.
THEOREM UploadsNeverShared == Spec => []UploadFoldersApart
<1>1. FolderInv => UploadFoldersApart BY DEF FolderInv, FolderParts
<1> QED BY <1>1, SpecLists, PTL

\* fatal() is called only when two clients have saved under one name: a compiler
\* session alone with its folder always finds it as it has left it.
THEOREM FatalOnlyByName == Spec => []FatalOnlyOnSameName
<1>1. FolderInv => FatalOnlyOnSameName BY DEF FolderInv, FolderParts
<1> QED BY <1>1, SpecLists, PTL

\* A configure session sends every model it has counted, each once, although it
\* gives the mutex back between two reads of a list that other sessions change.
THEOREM ConfigureComplete == Spec => []ConfigureSendsAll
<1>1. ListInv => ConfigureSendsAll BY DEF ListInv, SeenAt, ConfigureSendsAll
<1> QED BY <1>1, SpecLists, PTL
-------------------------------------------------------------------------------
\* The inductive invariant of the server.
ServerInv == FolderInv /\ ListInv /\ BuildInv

\* What no step ever takes back: a folder that is chosen, a disturbance, and the
\* end of a compilation.
Onward ==
  /\ \A t \in Session : folder[t] # None => folder'[t] = folder[t]
  /\ disturbed \subseteq disturbed'
  /\ \A t \in Session : phase[t] \in Over => phase'[t] \in Over

\* A session that is alone with its folder has been so from the start.
LEMMA SoleStays ==
  ASSUME Onward, NEW t \in Session, folder[t] # None, Sole(t)'
  PROVE  Sole(t)
BY DEF Onward, Sole

\* The configuration file of a session that is over and alone with its folder.
OwnConfigsKept ==
  \A t \in Session : phase[t] \in Over /\ Sole(t) /\ folder[t] # None =>
    files'[t].config = files[t].config

\* An entry that describes its directory goes on doing so.
LEMMA SoundStays ==
  ASSUME Onward, OwnConfigsKept, NEW e \in Model, Sound(e)
  PROVE  Sound(e)'
<1>1. e.name # None BY NamesDiffer DEF Model
<1>2. CASE e.from \in Session
  <2>1. folder[e.from] = e.name /\ phase[e.from] \in Over BY <1>2 DEF Sound
  <2>2. folder'[e.from] = e.name /\ phase'[e.from] \in Over BY <1>1, <1>2, <2>1 DEF Onward
  <2>3. e.from \notin disturbed' => e.out = e.from BY <1>2 DEF Sound, Onward
  <2>4. Sole(e.from)' => files'[e.from].config = [from |-> e.from, out |-> e.out]
    <3>1. Sole(e.from)' => Sole(e.from) BY <1>1, <1>2, <2>1, SoleStays
    <3> QED BY <3>1, <1>1, <1>2, <2>1 DEF Sound, OwnConfigsKept
  <2>5. e.from \in Listed => FALSE BY <1>2, NamesDiffer
  <2> QED BY <2>2, <2>3, <2>4, <2>5 DEF Sound
<1>3. CASE e.from \notin Session BY <1>3 DEF Sound
<1> QED BY <1>2, <1>3

\* What a step of session s, which writes at most in directory d, may do to what
\* the others rely on: by the path of its folder it reaches what it shares with
\* them; by the working directory, while it builds, anything but the uploads and
\* the configuration; and nobody else keeps an undisturbed working directory.
OthersStay(s) ==
  \A t \in Session \ {s} :
    /\ phase'[t] = phase[t] /\ folder'[t] = folder[t] /\ gen'[t] = gen[t]
    /\ out'[t] = out[t] /\ entry'[t] = entry[t] /\ loaded'[t] = loaded[t]

\* s reaches d by the path of its folder.
ByPath(s, d) ==
  /\ phase[s] \in Foldered /\ d = dirAt[folder[s]]
  /\ d \in Session => files'[d].log \in {None, files[d].log}
  /\ d \in Listed => dirAt'[folder[s]] = None

\* s reaches d as the working directory.
ByCwd(s, d) ==
  /\ Building(s) /\ d = cwd.dir /\ d \in Session
  /\ files'[d].weights = files[d].weights /\ files'[d].config = files[d].config
  /\ \/ files'[d].lib = files[d].lib
     \/ /\ files'[d].lib # None /\ files[d].weights # None
        /\ files'[d].lib.weights = files[d].weights

\* s moves the process to the directory of its folder.
Moves(s) ==
  /\ phase[s] \in Made /\ cwd'.dir = dirAt[folder[s]] /\ cwd'.dir # None
  /\ \A t \in Session \ {s} : Building(t) => t \in disturbed'

\* The step as a whole.
Confined(s, d) ==
  /\ OthersStay(s) /\ up' = up
  /\ folder[s] # None => folder'[s] = folder[s]
  /\ disturbed \subseteq disturbed'
  /\ phase[s] \in Over \union {"list"} => phase'[s] \in Over
  /\ \A m \in Maker \ {d} : files'[m] = files[m]
  /\ d = None \/ ByPath(s, d) \/ ByCwd(s, d)
  /\ \/ dirAt' = dirAt
     \/ /\ phase[s] \in Foldered /\ dirAt'[folder[s]] \in {None, s}
        /\ \A n \in Folder \ {folder[s]} : dirAt'[n] = dirAt[n]
  /\ cwd' = cwd \/ Moves(s)
  /\ Building(s)' => Building(s) \/ Moves(s)
  /\ \A e \in ToSet(configured) : e.name # folder[s] => e \in ToSet(configured')

\* The directory at the path of s is that of a session with the same folder.
LEMMA SharedPath ==
  ASSUME FolderInv, NEW s \in Session, phase[s] \in Foldered, NEW n \in Folder,
         dirAt[n] # None, dirAt[n] = dirAt[folder[s]]
  PROVE  /\ n = folder[s]
         /\ dirAt[n] \in Session => folder[dirAt[n]] = folder[s]
         /\ dirAt[n] \in Session /\ Sole(dirAt[n]) => dirAt[n] = s
         /\ dirAt[n] \in Session => phase[dirAt[n]] \notin Early \union {"remove", "makeDirs"}
         /\ dirAt[n] \in Listed => dirAt[n] = folder[s]
<1>1. folder[s] \in Folder /\ dirAt[n] \in Maker
      BY PathsLead DEF FolderInv, StoreTypes
<1>2. PathAt(n) /\ PathAt(folder[s]) BY <1>1 DEF FolderInv, FolderParts
<1>3. dirAt[n] \in Session => PathOf(dirAt[n]) BY DEF FolderInv, FolderParts
<1>4. dirAt[n] \in Session \/ dirAt[n] \in Listed BY <1>1 DEF Maker
<1>5. dirAt[n] \in Session => folder[dirAt[n]] = n /\ folder[dirAt[n]] = folder[s]
      BY <1>2 DEF PathAt
<1>6. dirAt[n] \in Listed => dirAt[n] = n /\ dirAt[n] = folder[s] BY <1>2 DEF PathAt
<1>7. dirAt[n] \in Session /\ Sole(dirAt[n]) => dirAt[n] = s BY <1>5 DEF Sole
<1>8. dirAt[n] \in Session => phase[dirAt[n]] \notin Early \union {"remove", "makeDirs"}
      BY <1>3 DEF PathOf
<1> QED BY <1>4, <1>5, <1>6, <1>7, <1>8

\* Such a step takes nothing back.
LEMMA ConfinedOnward ==
  ASSUME ServerInv, NEW s \in Session, NEW d, Confined(s, d)
  PROVE  Onward /\ OwnConfigsKept
<1>1. Onward BY DEF Confined, OthersStay, Onward
<1>2. ASSUME NEW t \in Session, phase[t] \in Over, Sole(t), folder[t] # None
      PROVE  files'[t].config = files[t].config
  <2>1. t \in Maker BY DEF Maker
  <2>2. CASE t # d BY <2>1, <2>2 DEF Confined
  <2>3. CASE t = d
    <3>1. d # None BY <2>1, <2>3, NamesDiffer
    <3>2. CASE ByPath(s, d)
      <4>1. s # t BY <1>2, <3>2 DEF ByPath, Foldered, Made, Over
      <4>2. folder[s] \in Folder BY <3>2, PathsLead DEF ByPath, ServerInv
      <4> QED BY <1>2, <2>3, <3>1, <3>2, <4>1, <4>2, SharedPath DEF ByPath, ServerInv
    <3> QED BY <2>3, <3>1, <3>2 DEF Confined, ByCwd
  <2> QED BY <2>2, <2>3
<1> QED BY <1>1, <1>2 DEF OwnConfigsKept

\* Another session's directory, while s works.
LEMMA OwnDirOthers ==
  ASSUME ServerInv, NEW s \in Session, NEW d, Confined(s, d), NEW t \in Session, t # s
  PROVE  OwnDir(t)'
<1>a. OwnDir(t) /\ Undisturbed(t) BY DEF ServerInv, BuildInv, DirsOK
<1>b. Onward BY ConfinedOnward
<1>c. t \in Maker /\ t # None BY NamesDiffer DEF Maker
<1>d. /\ phase'[t] = phase[t] /\ folder'[t] = folder[t] /\ out'[t] = out[t] /\ up' = up
      /\ disturbed \subseteq disturbed'
      BY DEF Confined, OthersStay
<1> SUFFICES ASSUME folder'[t] # None, Sole(t)' PROVE OwnDir(t)'
    BY DEF OwnDir
<1>1. folder[t] # None /\ Sole(t) BY <1>b, <1>d, SoleStays
<1>2. folder[s] # folder[t] BY <1>1 DEF Sole
<1>3. ~ByPath(s, t)
  <2> SUFFICES ASSUME ByPath(s, t) PROVE FALSE OBVIOUS
  <2>1. folder[s] \in Folder BY PathsLead DEF ByPath, ServerInv
  <2> QED BY <2>1, <1>1, <1>c, SharedPath DEF ByPath, ServerInv
<1>4. dirAt'[folder[t]] = dirAt[folder[t]]
  <2>1. folder[t] \in Folder BY <1>1 DEF ServerInv, FolderInv, LocalTypes
  <2> QED BY <2>1, <1>2 DEF Confined
<1>5. files'[t].weights = files[t].weights /\ files'[t].config = files[t].config
      BY <1>3, <1>c DEF Confined, ByCwd
<1>6. files'[t].lib = files[t].lib \/ (files'[t].lib # None /\ files'[t].lib.weights = t)
  <2>1. CASE t # d BY <2>1, <1>c DEF Confined
  <2>2. CASE ByCwd(s, t) BY <2>2, <1>1, <1>a DEF ByCwd, OwnDir
  <2> QED BY <2>1, <2>2, <1>3, <1>c DEF Confined
<1>7. t \notin disturbed' => files'[t] = files[t]
  <2>1. CASE t # d BY <2>1, <1>c DEF Confined
  <2>2. CASE ByCwd(s, t)
    <3>1. cwd.dir = t /\ Building(s) BY <2>2 DEF ByCwd
    <3>2. t \in disturbed BY <3>1, <1>1, <1>a DEF OwnDir
    <3> QED BY <3>2, <1>d
  <2> QED BY <2>1, <2>2, <1>3, <1>c DEF Confined
<1>8. ASSUME t \notin disturbed', cwd'.dir = t
      PROVE  \A u \in Session \ {t} : ~Building(u)'
  <2>1. ~Moves(s)
    <3> SUFFICES ASSUME phase[s] \in Made, t = dirAt[folder[s]] PROVE FALSE
        BY <1>8 DEF Moves
    <3>1. phase[s] \in Foldered /\ folder[s] \in Folder
          BY PathsLead DEF ServerInv, Foldered
    <3> QED BY <3>1, <1>1, <1>c, SharedPath DEF ServerInv
  <2>2. \A u \in Session \ {t} : ~Building(u)
        BY <2>1, <1>8, <1>1, <1>a, <1>d DEF OwnDir, Confined
  <2>3. \A u \in Session \ {s} : Building(u)' => Building(u)
        BY DEF Confined, OthersStay, Building
  <2>4. ~Building(s)' BY <2>1, <2>2 DEF Confined
  <2> QED BY <2>2, <2>3, <2>4
<1>9. ASSUME up' = "up", folder'[t] \in SaveName, files'[t].config # None
      PROVE  \/ phase'[t] = "list"
             \/ EntryOf(folder'[t], t, files'[t].config.out) \in ToSet(configured')
  <2>1. CASE phase[t] = "list" BY <2>1, <1>d
  <2>2. CASE EntryOf(folder[t], t, files[t].config.out) \in ToSet(configured)
    <3>1. EntryOf(folder[t], t, files[t].config.out).name # folder[s] BY <1>2 DEF EntryOf
    <3> QED BY <2>2, <3>1, <1>d, <1>5 DEF Confined
  <2> QED BY <2>1, <2>2, <1>a, <1>1, <1>5, <1>9, <1>d DEF OwnDir
<1> HIDE DEF Building
<1> QED BY <1>1, <1>4, <1>5, <1>6, <1>7, <1>8, <1>9, <1>a, <1>d DEF OwnDir

\* How far another session is, while s works.
LEMMA UndisturbedOthers ==
  ASSUME ServerInv, NEW s \in Session, NEW d, Confined(s, d), NEW t \in Session, t # s
  PROVE  Undisturbed(t)'
<1>a. Undisturbed(t) /\ PathOf(t) /\ FolderAt(t)
      BY DEF ServerInv, BuildInv, DirsOK, FolderInv, FolderParts
<1>b. t \in Maker /\ t # None BY NamesDiffer DEF Maker
<1>c. /\ phase'[t] = phase[t] /\ gen'[t] = gen[t] /\ out'[t] = out[t]
      /\ disturbed \subseteq disturbed'
      BY DEF Confined, OthersStay
<1>1. ASSUME phase[s] \in Foldered, t = dirAt[folder[s]]
      PROVE  phase[t] \notin Early \union {"remove", "makeDirs"}
  <2>1. folder[s] \in Folder BY <1>1, PathsLead DEF ServerInv
  <2> QED BY <2>1, <1>1, <1>b, SharedPath DEF ServerInv
<1>2. Made \subseteq Foldered BY DEF Foldered
<1>3. ASSUME phase[t] \in Early \union {"remove", "makeDirs"}
      PROVE  files'[t] = Empty /\ cwd'.dir # t
  <2>1. files[t] = Empty /\ cwd.dir # t BY <1>3, <1>a DEF Undisturbed
  <2>2. t # d BY <2>1, <1>1, <1>3, <1>b DEF Confined, ByPath, ByCwd
  <2>3. cwd'.dir # t BY <2>1, <1>1, <1>2, <1>3 DEF Confined, Moves
  <2> QED BY <2>1, <2>2, <2>3, <1>b DEF Confined
<1>4. Building(t)' = Building(t) BY <1>c DEF Building
<1>5. ASSUME Building(t) PROVE cwd'.dir # Start
  <2>1. cwd.dir # Start BY <1>5, <1>a DEF Undisturbed
  <2>2. CASE cwd' = cwd BY <2>1, <2>2
  <2>3. CASE phase[s] \in Made /\ cwd'.dir = dirAt[folder[s]] /\ cwd'.dir # None
    <3>1. phase[s] \in Foldered BY <2>3, <1>2
    <3>2. cwd'.dir \in Session BY <2>3, <3>1, PathsLead DEF ServerInv
    <3> QED BY <3>2, NamesDiffer DEF Maker
  <2> QED BY <2>2, <2>3 DEF Confined, Moves
<1>6. ASSUME t \notin disturbed', Building(t)
      PROVE  /\ \A u \in Session \ {t} : ~Building(u)'
             /\ files'[cwd'.dir].log \in {None, files[cwd.dir].log}
  <2>1. \A u \in Session \ {t} : ~Building(u) BY <1>6, <1>a, <1>c DEF Undisturbed
  <2>2. ~Moves(s) BY <1>6 DEF Moves
  <2>3. ~Building(s) BY <2>1
  <2>4. ~Building(s)' BY <2>2, <2>3 DEF Confined
  <2>5. \A u \in Session \ {s} : Building(u)' => Building(u)
        BY DEF Confined, OthersStay, Building
  <2>6. cwd' = cwd BY <2>2 DEF Confined
  <2>7. cwd.dir \in Session
    <3>1. cwd.dir # Start BY <1>6, <1>a DEF Undisturbed
    <3> QED BY <3>1, CwdLeads DEF ServerInv
  <2>8. cwd.dir \in Maker /\ cwd.dir # None BY <2>7, NamesDiffer DEF Maker
  <2>9. files'[cwd.dir].log \in {None, files[cwd.dir].log}
    <3>1. CASE cwd.dir # d BY <2>8, <3>1 DEF Confined
    <3>2. CASE cwd.dir = d BY <2>3, <2>7, <2>8, <3>2 DEF Confined, ByCwd, ByPath
    <3> QED BY <3>1, <3>2
  <2> QED BY <2>1, <2>4, <2>5, <2>6, <2>9
<1> HIDE DEF Building
<1>7. phase[t] \in Early \union {"remove", "makeDirs", "receive", "chdir"} => gen'[t] = 1
      BY <1>a, <1>c DEF Undisturbed
<1>8. phase[t] \in {"generate", "readLog"} => Building(t) BY DEF Building
<1>9. ASSUME t \notin disturbed'
      PROVE  /\ phase'[t] = "generate" /\ gen'[t] > 1 => files'[cwd'.dir].log \in {None, t}
             /\ phase'[t] = "readLog" => files'[cwd'.dir].log \in {None, t}
             /\ phase'[t] \in {"cmake", "make", "stat", "config", "list"} => out'[t] = t
  <2>1. t \notin disturbed BY <1>9, <1>c
  <2>2. /\ phase[t] = "generate" /\ gen[t] > 1 => files[cwd.dir].log \in {None, t}
        /\ phase[t] = "readLog" => files[cwd.dir].log \in {None, t}
        /\ phase[t] \in {"cmake", "make", "stat", "config", "list"} => out[t] = t
        BY <2>1, <1>a DEF Undisturbed
  <2> QED BY ONLY <2>2, <1>6, <1>8, <1>9, <1>c
<1> QED BY <1>3, <1>4, <1>5, <1>6, <1>7, <1>9, <1>c DEF Undisturbed

\* The configuration at the path of another folder, while s works.
LEMMA ConfigElsewhere ==
  ASSUME ServerInv, NEW s \in Session, NEW d, Confined(s, d),
         NEW n \in Folder, n # folder[s]
  PROVE  ConfigAt(n)'
<1>a. ConfigAt(n) /\ FolderInv BY DEF ServerInv, BuildInv, DirsOK
<1>1. dirAt'[n] = dirAt[n] BY DEF Confined
<1>2. dirAt[n] \in Maker \union {None} BY <1>a DEF FolderInv, StoreTypes
<1>3. dirAt[n] # None => files'[dirAt[n]].config = files[dirAt[n]].config
  <2> SUFFICES ASSUME dirAt[n] # None PROVE files'[dirAt[n]].config = files[dirAt[n]].config
      OBVIOUS
  <2>1. CASE dirAt[n] # d BY <1>2, <2>1 DEF Confined
  <2>2. CASE dirAt[n] = d
    <3>1. ~ByPath(s, d) BY <1>a, <2>2, SharedPath DEF ByPath
    <3> QED BY <2>2, <3>1 DEF Confined, ByCwd
  <2> QED BY <2>1, <2>2
<1>4. \A t \in Session :
        phase[t] \in Over \union {"list"} => phase'[t] \in Over \union {"list"}
      BY DEF Confined, OthersStay
<1>5. \A t \in Session : folder[t] = n => folder'[t] = n
      BY NamesDiffer DEF Confined, OthersStay
<1> QED BY <1>a, <1>1, <1>3, <1>4, <1>5 DEF ConfigAt

\* The entry of an inference session whose step is none of its own.
LEMMA LoadedKept ==
  ASSUME ServerInv, Onward, OwnConfigsKept, NEW t \in Session,
         \/ entry'[t] = None /\ loaded'[t] = None
         \/ /\ entry'[t] = entry[t] /\ loaded'[t] = loaded[t]
            /\ loaded[t] # None => phase'[t] \in {"serve", "returned", "returned0"}
  PROVE  LoadedAt(t)'
<1>a. EntriesOK /\ LocalTypes BY DEF ServerInv, BuildInv, FolderInv
<1>1. CASE entry'[t] = None /\ loaded'[t] = None BY <1>1 DEF LoadedAt
<1>2. CASE /\ entry'[t] = entry[t] /\ loaded'[t] = loaded[t]
           /\ loaded[t] # None => phase'[t] \in {"serve", "returned", "returned0"}
  <2> PICK e : e = entry[t] OBVIOUS
  <2>1. LoadedAt(t) /\ e = entry'[t] BY <1>a, <1>2 DEF EntriesOK
  <2>2. e # None => e \in Model /\ Sound(e) BY <1>a, <2>1 DEF LocalTypes, LoadedAt
  <2>3. e # None => Sound(e)' BY <2>2, SoundStays
  <2>4. e # None => e.name # None BY <2>2, NamesDiffer DEF Model
  <2>5. \A n : Makers(n) \subseteq Makers(n)' \/ n = None BY DEF Onward, Makers
  <2>6. e # None => Makers(e.name) \subseteq Makers(e.name)' BY <2>4, <2>5
  <2>7. /\ loaded[t] # None => e # None
        /\ loaded[t] # None /\ Makers(e.name) \subseteq {e.from} => loaded[t].weights = e.from
        BY <2>1 DEF LoadedAt
  <2> QED BY ONLY <1>2, <2>1, <2>3, <2>6, <2>7 DEF LoadedAt
<1> QED BY <1>1, <1>2

\* A model found at the start, while s works.
LEMMA FoundKept ==
  ASSUME ServerInv, NEW s \in Session, NEW d, Confined(s, d), NEW m \in Listed
  PROVE  Found(m)'
<1>a. Found(m) /\ FolderInv BY DEF ServerInv, BuildInv, EntriesOK
<1>b. m \in Folder /\ m \in Maker /\ m # None /\ m \notin Session
      BY NamesDiffer DEF Folder, Maker
<1>1. Onward BY ConfinedOnward
<1>2. \A t \in Makers(m) : t \in Makers(m)' BY <1>1, <1>b DEF Onward, Makers
<1>3. dirAt'[m] = m => dirAt[m] = m /\ files'[m] = files[m]
  <2> SUFFICES ASSUME dirAt'[m] = m PROVE dirAt[m] = m /\ files'[m] = files[m] OBVIOUS
  <2>1. dirAt[m] = m BY <1>b DEF Confined
  <2>2. CASE m # d BY <2>1, <2>2, <1>b DEF Confined
  <2>3. CASE m = d
    <3>1. ByPath(s, m) BY <2>3, <1>b DEF Confined, ByCwd
    <3>2. m = folder[s] BY <3>1, <2>1, <1>a, <1>b, SharedPath DEF ByPath
    <3> QED BY <3>1, <3>2, <1>b DEF ByPath
  <2> QED BY <2>1, <2>2, <2>3
<1>4. Makers(m)' = {} => dirAt'[m] = dirAt[m]
  <2> SUFFICES ASSUME Makers(m)' = {} PROVE dirAt'[m] = dirAt[m] OBVIOUS
  <2>1. folder[s] # m BY <1>2 DEF Makers
  <2> QED BY <2>1, <1>b DEF Confined
<1>5. Makers(m)' = {} => EntryOf(m, m, m).name # folder[s]
  <2>1. folder[s] = m => s \in Makers(m)' BY <1>2 DEF Makers
  <2> QED BY <2>1 DEF EntryOf
<1>6. Makers(m)' = {} => Makers(m) = {} BY <1>2
<1> QED BY <1>a, <1>3, <1>4, <1>5, <1>6 DEF Found, Confined

\* The whole invariant, from what is left to show of each step.
LEMMA BuildStep ==
  ASSUME ServerInv, NEW s \in Session, NEW d, Confined(s, d),
         d \in Maker => Chain(d)', OwnDir(s)', Undisturbed(s)', LoadedAt(s)',
         \A n \in Folder : n = folder[s] => ConfigAt(n)',
         \A e \in ToSet(configured') : e.name \in SaveName,
         \A e \in ToSet(configured') \union ToSet(uploaded') :
           e \in ToSet(configured) \union ToSet(uploaded) \/ Sound(e)'
  PROVE  BuildInv'
<1>a. DirsOK /\ EntriesOK /\ LocalTypes /\ StoreTypes
      BY DEF ServerInv, BuildInv, FolderInv
<1>b. Onward /\ OwnConfigsKept BY ConfinedOnward
<1>1. ASSUME NEW m \in Maker PROVE Chain(m)'
  <2>1. CASE m = d BY <2>1
  <2>2. CASE m # d
    <3>1. files'[m] = files[m] /\ disturbed \subseteq disturbed' BY <2>2 DEF Confined
    <3>2. Chain(m) BY <1>a DEF DirsOK
    <3> QED BY <3>1, <3>2 DEF Chain
  <2> QED BY <2>1, <2>2
<1>2. \A t \in Session : OwnDir(t)' BY OwnDirOthers
<1>3. \A t \in Session : Undisturbed(t)' BY UndisturbedOthers
<1>4. \A n \in Folder : ConfigAt(n)' BY ConfigElsewhere
<1>5. DirsOK' BY <1>1, <1>2, <1>3, <1>4 DEF DirsOK
<1>6. ASSUME NEW e \in ToSet(configured') \union ToSet(uploaded') PROVE Sound(e)'
  <2>1. CASE e \in ToSet(configured) \union ToSet(uploaded)
    <3>1. e \in Model BY <1>a, <2>1 DEF StoreTypes, ToSet
    <3>2. Sound(e) BY <1>a, <2>1 DEF EntriesOK
    <3> QED BY <1>b, <3>1, <3>2, SoundStays
  <2> QED BY <2>1
<1>7. ASSUME NEW t \in Session, t # s PROVE LoadedAt(t)'
  <2>1. /\ entry'[t] = entry[t] /\ loaded'[t] = loaded[t] /\ phase'[t] = phase[t]
        BY <1>7 DEF Confined, OthersStay
  <2>2. LoadedAt(t) BY <1>a DEF EntriesOK
  <2>3. loaded[t] # None => phase'[t] \in {"serve", "returned", "returned0"}
        BY <2>1, <2>2 DEF LoadedAt
  <2> QED BY <2>1, <2>3, <1>b, LoadedKept
<1>8. \A m \in Listed : Found(m)' BY FoundKept
<1>9. EntriesOK' BY <1>6, <1>7, <1>8 DEF EntriesOK
<1> QED BY <1>5, <1>9 DEF BuildInv

\* The session's own directory: before it has one, at work, and after a step
\* that does not concern it.
LEMMA OwnDirFresh ==
  ASSUME NEW s \in Session, files'[s] = Empty, cwd'.dir # s,
         phase'[s] \notin {"config", "list"}
  PROVE  OwnDir(s)'
BY DEF OwnDir, Empty

\* The directory of a session at work on it.
LEMMA OwnDirAtWork ==
  ASSUME ServerInv, NEW s \in Session, Onward, folder'[s] = folder[s], phase'[s] # "list",
         phase[s] \in Foldered \ {"list"},
         folder[s] # None /\ Sole(s) =>
           /\ files'[s].config = files[s].config
           /\ files'[s].weights \in {None, s}
           /\ files'[s].lib # None => files'[s].lib.weights = s
           /\ phase'[s] = "config" => files'[s].lib # None
           /\ s \notin disturbed' =>
                /\ cwd'.dir = s => \A t \in Session \ {s} : ~Building(t)'
                /\ files'[s].code \in {None, s}
                /\ files'[s].lib # None => files'[s].lib.dims = s
  PROVE  OwnDir(s)'
<1>a. OwnDir(s) BY DEF ServerInv, BuildInv, DirsOK
<1> SUFFICES ASSUME folder'[s] # None, Sole(s)' PROVE OwnDir(s)' BY DEF OwnDir
<1>1. folder[s] # None /\ Sole(s) BY SoleStays
<1>2. phase[s] \notin Over \union {"list"} BY DEF Foldered, Made, Over
<1>3. files'[s].config = None BY <1>a, <1>1, <1>2 DEF OwnDir
<1> HIDE DEF Building
<1> QED BY <1>1, <1>3 DEF OwnDir

\* The directory of a session whose step leaves the disk alone.
LEMMA OwnDirStays ==
  ASSUME ServerInv, NEW s \in Session, Onward, files' = files, dirAt' = dirAt, cwd' = cwd,
         folder'[s] = folder[s], ToSet(configured) \subseteq ToSet(configured'),
         up' = "up" => up = "up",
         phase[s] # "list", phase'[s] \notin {"config", "list"},
         \A t \in Session \ {s} : Building(t)' => Building(t)
  PROVE  OwnDir(s)'
<1>a. OwnDir(s) BY DEF ServerInv, BuildInv, DirsOK
<1>b. folder[s] # None /\ Sole(s)' => Sole(s) BY SoleStays
<1>c. phase[s] \in Over => phase'[s] \in Over BY DEF Onward
<1>d. disturbed \subseteq disturbed' BY DEF Onward
<1> HIDE DEF Building
<1> QED BY <1>a, <1>b, <1>c, <1>d DEF OwnDir

\* The configuration at the path of s is not touched by its step.
LEMMA ConfigHere ==
  ASSUME ServerInv, NEW s \in Session, NEW d, Confined(s, d), dirAt' = dirAt,
         d \in Maker => files'[d].config = files[d].config,
         NEW n \in Folder, n = folder[s]
  PROVE  ConfigAt(n)'
<1>a. ConfigAt(n) /\ FolderInv BY DEF ServerInv, BuildInv, DirsOK
<1>1. dirAt'[n] = dirAt[n] /\ dirAt[n] \in Maker \union {None}
      BY <1>a DEF FolderInv, StoreTypes
<1>2. dirAt[n] # None => files'[dirAt[n]].config = files[dirAt[n]].config
      BY <1>1 DEF Confined
<1>3. \A t \in Session :
        phase[t] \in Over \union {"list"} => phase'[t] \in Over \union {"list"}
      BY DEF Confined, OthersStay
<1>4. \A t \in Session : folder[t] = n => folder'[t] = n
      BY NamesDiffer DEF Confined, OthersStay
<1> QED BY <1>a, <1>1, <1>2, <1>3, <1>4 DEF ConfigAt

\* A step that only moves a session on, not into a phase that relies on the disk.
BuildCalmFrom(s, p) ==
  /\ p \in Phase \ ((Foldered \ {"failed"}) \union {"new"})
  /\ phase[s] # "list"
  /\ phase[s] \in Over => p \in Over
  /\ p \in Early => phase[s] \in Early /\ gen'[s] = gen[s]
  /\ \/ entry'[s] = None /\ loaded'[s] = None
     \/ /\ entry'[s] = entry[s] /\ loaded'[s] = loaded[s]
        /\ phase[s] \in {"serve", "returned", "returned0"} =>
             p \in {"serve", "returned", "returned0"}

\* What the invariant is about besides the phase and what a session keeps.
storeKept == <<folder, configured, uploaded, cwd, dirAt, files, up, disturbed>>

\* Such a step keeps the invariant.
LEMMA BuildCalm ==
  ASSUME ServerInv, NEW s \in Session, NEW p, Goto(s, p), BuildCalmFrom(s, p),
         UNCHANGED storeKept,
         \A t \in Session \ {s} : gen'[t] = gen[t] /\ out'[t] = out[t] /\ entry'[t] = entry[t]
                                  /\ loaded'[t] = loaded[t]
  PROVE  BuildInv'
<1>a. EntriesOK /\ DirsOK /\ LocalTypes BY DEF ServerInv, BuildInv, FolderInv
<1>1. /\ folder' = folder /\ configured' = configured /\ uploaded' = uploaded /\ cwd' = cwd
      /\ dirAt' = dirAt /\ files' = files /\ up' = up /\ disturbed' = disturbed
      BY DEF storeKept
<1>2. phase'[s] = p /\ \A t \in Session \ {s} : phase'[t] = phase[t]
      BY <1>a DEF Goto, LocalTypes
<1>3. p \notin Foldered \ {"failed"} /\ ~Building(s)'
      BY <1>2 DEF BuildCalmFrom, Foldered, Made, Building
<1>4. Confined(s, None)
  <2>1. OthersStay(s) BY <1>1, <1>2 DEF OthersStay
  <2>2. phase[s] \in Over \union {"list"} => phase'[s] \in Over BY <1>2 DEF BuildCalmFrom
  <2> QED BY <1>1, <1>3, <2>1, <2>2 DEF Confined
<1>5. Onward /\ OwnConfigsKept BY <1>4, ConfinedOnward
<1>6. OwnDir(s)'
  <2>1. p \notin {"config", "list"} BY <1>3 DEF Foldered, Made
  <2>2. \A t \in Session \ {s} : Building(t)' = Building(t) BY <1>2 DEF Building
  <2> QED BY <1>1, <1>2, <1>5, <2>1, <2>2, OwnDirStays DEF BuildCalmFrom
<1>7. Undisturbed(s)'
  <2>1. p \notin {"remove", "makeDirs"} \union Made BY <1>3 DEF Foldered, Made
  <2>2. Undisturbed(s) BY <1>a DEF DirsOK
  <2>3. p \in Early => gen'[s] = 1 /\ files'[s] = Empty /\ cwd'.dir # s
        BY <2>2, <1>1 DEF BuildCalmFrom, Undisturbed
  <2> QED BY <1>2, <1>3, <2>1, <2>3 DEF Undisturbed, Made
<1>8. LoadedAt(s)'
  <2>1. LoadedAt(s) BY <1>a DEF EntriesOK
  <2>2. \/ entry'[s] = None /\ loaded'[s] = None
        \/ /\ entry'[s] = entry[s] /\ loaded'[s] = loaded[s]
           /\ loaded[s] # None => phase'[s] \in {"serve", "returned", "returned0"}
        BY <2>1, <1>2 DEF LoadedAt, BuildCalmFrom
  <2> QED BY <2>2, <1>5, LoadedKept
<1>9. None \notin Maker BY NamesDiffer
<1>10. \A n \in Folder : n = folder[s] => ConfigAt(n)' BY <1>1, <1>4, <1>9, ConfigHere
<1> QED BY <1>1, <1>4, <1>6, <1>7, <1>8, <1>9, <1>10, <1>a, BuildStep DEF EntriesOK

\* The steps of a compiler session that choose, empty and make its folder.
LEMMA BuildChosen ==
  ASSUME ServerInv, NEW s \in Session, NEW n \in Folder, Goto(s, "remove"),
         phase[s] \in {"check", "counting"}, folder' = [folder EXCEPT ![s] = n],
         UNCHANGED <<gen, out, entry, loaded, configured, uploaded, cwd, dirAt, files, up,
                     disturbed>>
  PROVE  BuildInv'
<1>a. EntriesOK /\ DirsOK /\ LocalTypes BY DEF ServerInv, BuildInv, FolderInv
<1>b. folder[s] = None /\ phase[s] \in Early
      BY DEF ServerInv, FolderInv, FolderParts, FolderAt, Early
<1>1. phase'[s] = "remove" /\ \A t \in Session \ {s} : phase'[t] = phase[t]
      BY <1>a DEF Goto, LocalTypes
<1>2. folder'[s] = n /\ \A t \in Session \ {s} : folder'[t] = folder[t] BY <1>a DEF LocalTypes
<1>3. Confined(s, None)
  <2>1. OthersStay(s) BY <1>1, <1>2 DEF OthersStay
  <2>2. ~Building(s)' BY <1>1 DEF Building
  <2>3. phase[s] \notin Over \union {"list"} BY DEF Over
  <2> QED BY <1>b, <2>1, <2>2, <2>3 DEF Confined
<1>4. Onward /\ OwnConfigsKept BY <1>3, ConfinedOnward
<1>5. Undisturbed(s) BY <1>a DEF DirsOK
<1>6. files[s] = Empty /\ cwd.dir # s /\ gen[s] = 1 BY <1>5, <1>b DEF Undisturbed
<1>7. OwnDir(s)' BY <1>1, <1>6, OwnDirFresh
<1>8. Undisturbed(s)' BY <1>1, <1>6 DEF Undisturbed, Building, Early
<1>9. LoadedAt(s)'
  <2>1. loaded[s] = None BY <1>a DEF EntriesOK, LoadedAt
  <2> QED BY <2>1, <1>4, LoadedKept
<1>10. None \notin Folder /\ None \notin Maker BY NamesDiffer
<1> QED BY <1>3, <1>7, <1>8, <1>9, <1>10, <1>a, <1>b, BuildStep DEF EntriesOK

\* Its folder is removed, and the directory at its path emptied.
LEMMA BuildRemoved ==
  ASSUME ServerInv, NEW s \in Session, Goto(s, "makeDirs"), phase[s] = "remove",
         dirAt' = [dirAt EXCEPT ![folder[s]] = None],
         files' = [m \in Maker |-> IF m = dirAt[folder[s]] THEN Empty ELSE files[m]],
         UNCHANGED <<folder, gen, out, entry, loaded, configured, uploaded, cwd, up, disturbed>>
  PROVE  BuildInv'
<1>a. EntriesOK /\ DirsOK /\ LocalTypes /\ StoreTypes BY DEF ServerInv, BuildInv, FolderInv
<1>b. phase[s] \in Foldered BY DEF Foldered
<1>c. folder[s] \in Folder /\ dirAt[folder[s]] \in Maker \union {None}
      BY <1>b, PathsLead DEF ServerInv
<1> PICK d : d = dirAt[folder[s]] OBVIOUS
<1>1. phase'[s] = "makeDirs" /\ \A t \in Session \ {s} : phase'[t] = phase[t]
      BY <1>a DEF Goto, LocalTypes
<1>2. d \in Maker => files'[d] = Empty OBVIOUS
<1>3. \A m \in Maker \ {d} : files'[m] = files[m] OBVIOUS
<1>4. dirAt'[folder[s]] = None /\ \A n \in Folder \ {folder[s]} : dirAt'[n] = dirAt[n]
      BY <1>a, <1>c DEF StoreTypes
<1>5. Confined(s, d)
  <2>1. OthersStay(s) BY <1>1 DEF OthersStay
  <2>2. ~Building(s)' BY <1>1 DEF Building
  <2>3. phase[s] \notin Over \union {"list"} BY DEF Over
  <2>4. ByPath(s, d)
    <3>1. d \in Session => files'[d].log = None BY <1>2 DEF Maker, Empty
    <3> QED BY <1>b, <1>4, <3>1 DEF ByPath
  <2> QED BY <1>b, <1>3, <1>4, <2>1, <2>2, <2>3, <2>4 DEF Confined
<1>6. Onward /\ OwnConfigsKept BY <1>5, ConfinedOnward
<1>7. Undisturbed(s) BY <1>a DEF DirsOK
<1>8. files[s] = Empty /\ cwd.dir # s /\ gen[s] = 1 BY <1>7 DEF Undisturbed
<1>9. files'[s] = Empty BY <1>2, <1>3, <1>8 DEF Maker
<1>10. OwnDir(s)' BY <1>1, <1>8, <1>9, OwnDirFresh
<1>11. Undisturbed(s)' BY <1>1, <1>8, <1>9 DEF Undisturbed, Building, Early
<1>12. LoadedAt(s)'
  <2>1. loaded[s] = None BY <1>a DEF EntriesOK, LoadedAt
  <2> QED BY <2>1, <1>6, LoadedKept
<1>13. d \in Maker => Chain(d)' BY <1>2 DEF Chain, Empty
<1>14. \A n \in Folder : n = folder[s] => ConfigAt(n)' BY <1>4 DEF ConfigAt
<1> QED BY <1>5, <1>10, <1>11, <1>12, <1>13, <1>14, <1>a, BuildStep DEF EntriesOK

\* Its directory is made.
LEMMA BuildMade ==
  ASSUME ServerInv, NEW s \in Session, Goto(s, "receive"), phase[s] = "makeDirs",
         dirAt' = [dirAt EXCEPT ![folder[s]] = s],
         UNCHANGED <<folder, gen, out, entry, loaded, configured, uploaded, cwd, files, up,
                     disturbed>>
  PROVE  BuildInv'
<1>a. EntriesOK /\ DirsOK /\ LocalTypes /\ StoreTypes BY DEF ServerInv, BuildInv, FolderInv
<1>b. phase[s] \in Foldered BY DEF Foldered
<1>c. folder[s] \in Folder BY <1>b, PathsLead DEF ServerInv
<1>1. phase'[s] = "receive" /\ \A t \in Session \ {s} : phase'[t] = phase[t]
      BY <1>a DEF Goto, LocalTypes
<1>2. dirAt'[folder[s]] = s /\ \A n \in Folder \ {folder[s]} : dirAt'[n] = dirAt[n]
      BY <1>a, <1>c DEF StoreTypes
<1>3. Confined(s, None)
  <2>1. OthersStay(s) BY <1>1 DEF OthersStay
  <2>2. ~Building(s)' BY <1>1 DEF Building
  <2>3. phase[s] \notin Over \union {"list"} BY DEF Over
  <2> QED BY <1>b, <1>2, <2>1, <2>2, <2>3 DEF Confined
<1>4. Onward /\ OwnConfigsKept BY <1>3, ConfinedOnward
<1>5. Undisturbed(s) BY <1>a DEF DirsOK
<1>6. files[s] = Empty /\ cwd.dir # s /\ gen[s] = 1 BY <1>5 DEF Undisturbed
<1>7. OwnDir(s)' BY <1>1, <1>6, OwnDirFresh
<1>8. Undisturbed(s)' BY <1>1, <1>6 DEF Undisturbed, Building, Early
<1>9. LoadedAt(s)'
  <2>1. loaded[s] = None BY <1>a DEF EntriesOK, LoadedAt
  <2> QED BY <2>1, <1>4, LoadedKept
<1>10. \A n \in Folder : n = folder[s] => ConfigAt(n)' BY <1>2, <1>6 DEF ConfigAt, Empty
<1>11. None \notin Maker BY NamesDiffer
<1> QED BY <1>3, <1>7, <1>8, <1>9, <1>10, <1>11, <1>a, BuildStep DEF EntriesOK

\* The upload is written by its path.
LEMMA BuildReceived ==
  ASSUME ServerInv, NEW s \in Session, NEW d, d = dirAt[folder[s]], d # None,
         Goto(s, "chdir"), phase[s] = "receive", files' = [files EXCEPT ![d].weights = s],
         UNCHANGED <<folder, gen, out, entry, loaded, configured, uploaded, cwd, dirAt, up,
                     disturbed>>
  PROVE  BuildInv'
<1>a. EntriesOK /\ DirsOK /\ LocalTypes /\ StoreTypes BY DEF ServerInv, BuildInv, FolderInv
<1>b. phase[s] \in Foldered /\ phase[s] \in Made BY DEF Foldered, Made
<1>c. d \in Session /\ d \in Maker BY <1>b, PathsLead DEF ServerInv, Maker
<1>1. phase'[s] = "chdir" /\ \A t \in Session \ {s} : phase'[t] = phase[t]
      BY <1>a DEF Goto, LocalTypes
<1>2. /\ files'[d].weights = s /\ files'[d].code = files[d].code
      /\ files'[d].make = files[d].make /\ files'[d].lib = files[d].lib
      /\ files'[d].config = files[d].config /\ files'[d].log = files[d].log
      BY <1>a, <1>c DEF StoreTypes, Content
<1>3. \A m \in Maker \ {d} : files'[m] = files[m] BY <1>a DEF StoreTypes
<1>4. Confined(s, d)
  <2>1. OthersStay(s) BY <1>1 DEF OthersStay
  <2>2. ~Building(s)' BY <1>1 DEF Building
  <2>3. phase[s] \notin Over \union {"list"} BY DEF Over
  <2>4. d \notin Listed BY <1>c, NamesDiffer
  <2>5. ByPath(s, d) BY <1>b, <1>2, <2>4 DEF ByPath
  <2> QED BY <1>3, <2>1, <2>2, <2>3, <2>5 DEF Confined
<1>5. Onward /\ OwnConfigsKept BY <1>4, ConfinedOnward
<1>6. OwnDir(s) /\ Undisturbed(s) /\ Chain(d) BY <1>a, <1>c DEF DirsOK
<1>7. OwnDir(s)'
  <2>1. Sole(s) => d = s BY <1>b DEF ServerInv, FolderInv, FolderParts, PathOf
  <2>2. \A t \in Session \ {s} : Building(t)' = Building(t) BY <1>1 DEF Building
  <2>3. phase'[s] \notin {"list", "config"} /\ phase[s] \in Foldered \ {"list"} BY <1>1, <1>b
  <2>4. folder[s] # None /\ Sole(s) =>
           /\ files'[s].config = files[s].config /\ files'[s].lib = files[s].lib
           /\ files'[s].weights \in {None, s} /\ files'[s].code = files[s].code
        BY <1>2, <2>1
  <2> HIDE DEF Building
  <2> QED BY <1>5, <1>6, <2>2, <2>3, <2>4, OwnDirAtWork DEF OwnDir
<1>8. Undisturbed(s)' BY <1>1, <1>6 DEF Undisturbed, Building, Early
<1>9. LoadedAt(s)'
  <2>1. loaded[s] = None BY <1>a DEF EntriesOK, LoadedAt
  <2> QED BY <2>1, <1>5, LoadedKept
<1>10. Chain(d)' BY <1>2, <1>6, NamesDiffer DEF Chain, Maker
<1>11. \A n \in Folder : n = folder[s] => ConfigAt(n)' BY <1>2, <1>4, ConfigHere
<1> QED BY <1>4, <1>7, <1>8, <1>9, <1>10, <1>11, <1>a, BuildStep DEF EntriesOK

\* The two changes of the working directory.
LEMMA BuildMoved ==
  ASSUME ServerInv, NEW s \in Session, NEW d, d = dirAt[folder[s]], d # None,
         NEW p, Goto(s, p), cwd'.dir = d, DisturbedBy(s),
         \/ phase[s] = "chdir" /\ p = "generate" /\ out' = out
         \/ phase[s] = "readLog" /\ p = "cmake" /\ cwd.dir # Start
            /\ files[cwd.dir].log # None /\ out' = [out EXCEPT ![s] = files[cwd.dir].log],
         UNCHANGED <<folder, gen, entry, loaded, configured, uploaded, files, dirAt, up>>
  PROVE  BuildInv'
<1>a. EntriesOK /\ DirsOK /\ LocalTypes /\ StoreTypes BY DEF ServerInv, BuildInv, FolderInv
<1>b. phase[s] \in Foldered /\ phase[s] \in Made BY DEF Foldered, Made
<1>c. d \in Session /\ d # Start BY <1>b, PathsLead, NamesDiffer DEF ServerInv, Maker
<1>1. phase'[s] = p /\ \A t \in Session \ {s} : phase'[t] = phase[t]
      BY <1>a DEF Goto, LocalTypes
<1>2. \A t \in Session \ {s} : Building(t)' = Building(t) BY <1>1 DEF Building
<1>3. /\ disturbed \subseteq disturbed'
      /\ \A t \in Session \ {s} : Building(t) => t \in disturbed' /\ s \in disturbed'
      BY DEF DisturbedBy
<1>4. Moves(s) BY <1>b, <1>3 DEF Moves
<1>5. Confined(s, None)
  <2>1. \A t \in Session \ {s} : out'[t] = out[t] BY <1>a DEF LocalTypes
  <2>2. OthersStay(s) BY <1>1, <2>1 DEF OthersStay
  <2>3. phase[s] \notin Over \union {"list"} BY DEF Over
  <2> QED BY <1>3, <1>4, <2>2, <2>3 DEF Confined
<1>6. Onward /\ OwnConfigsKept BY <1>5, ConfinedOnward
<1>7. OwnDir(s) /\ Undisturbed(s) BY <1>a DEF DirsOK
<1>8. s \notin disturbed' => s \notin disturbed /\ \A t \in Session \ {s} : ~Building(t)'
      BY <1>2, <1>3
<1>9. OwnDir(s)'
  <2>1. p \notin {"list", "config"} /\ phase[s] \in Foldered \ {"list"} BY <1>b
  <2> HIDE DEF Building
  <2> QED BY <1>1, <1>6, <1>7, <1>8, <2>1, OwnDirAtWork DEF OwnDir
<1>10. Undisturbed(s)'
  <2>1. s \notin disturbed' /\ p = "cmake" => out'[s] = s
    <3> SUFFICES ASSUME s \notin disturbed', p = "cmake" PROVE out'[s] = s OBVIOUS
    <3>1. phase[s] = "readLog" /\ out'[s] = files[cwd.dir].log /\ files[cwd.dir].log # None
          BY <1>a DEF LocalTypes
    <3> QED BY <3>1, <1>7, <1>8 DEF Undisturbed
  <2>2. p = "generate" => gen[s] = 1 BY <1>7 DEF Undisturbed
  <2>3. p \in {"generate", "cmake"} OBVIOUS
  <2> HIDE DEF Building
  <2> QED BY <1>1, <1>c, <1>8, <2>1, <2>2, <2>3 DEF Undisturbed, Early
<1>11. LoadedAt(s)'
  <2>1. loaded[s] = None BY <1>a DEF EntriesOK, LoadedAt
  <2> QED BY <2>1, <1>6, LoadedKept
<1>12. None \notin Maker BY NamesDiffer
<1>13. \A n \in Folder : n = folder[s] => ConfigAt(n)' BY <1>5, <1>12, ConfigHere
<1> QED BY <1>5, <1>9, <1>10, <1>11, <1>12, <1>13, <1>a, BuildStep DEF EntriesOK

\* What a tool does in directory d: it makes code from the upload, a Makefile
\* from the code, or the library from both.
Works(s, d) ==
  /\ \A m \in Maker \ {d} : files'[m] = files[m]
  /\ files'[d].weights = files[d].weights /\ files'[d].config = files[d].config
  /\ files'[d].log \in {None, s, files[d].log}
  /\ \/ files'[d].code = files[d].code
     \/ files'[d].code = s /\ files[d].weights # None
  /\ \/ files'[d].make = files[d].make
     \/ files[d].code # None
  /\ \/ files'[d].lib = files[d].lib
     \/ files[d].make /\ files'[d].lib = [weights |-> files[d].weights, dims |-> files[d].code]

\* A tool works in the working directory, whoever it belongs to.
LEMMA BuildWorked ==
  ASSUME ServerInv, NEW s \in Session, NEW d, d = cwd.dir, d \in Session, Works(s, d),
         NEW p, Goto(s, p),
         \/ phase[s] = "generate" /\ p \in {"generate", "readLog"} /\ files'[d].log = s
         \/ Building(s) /\ p = "failed"
         \/ phase[s] = "cmake" /\ p = "make"
         \/ phase[s] = "make" /\ p = "stat",
         \A t \in Session \ {s} : gen'[t] = gen[t],
         UNCHANGED <<folder, out, entry, loaded, configured, uploaded, cwd, dirAt, up, disturbed>>
  PROVE  BuildInv'
<1>a. EntriesOK /\ DirsOK /\ LocalTypes /\ StoreTypes BY DEF ServerInv, BuildInv, FolderInv
<1>b. phase[s] \in Foldered /\ phase[s] \in Made /\ Building(s) BY DEF Foldered, Made, Building
<1>c. d \in Maker /\ d # Start /\ d # None BY NamesDiffer DEF Maker
<1>d. s # None /\ s \in Maker BY NamesDiffer DEF Maker
<1>1. phase'[s] = p /\ \A t \in Session \ {s} : phase'[t] = phase[t]
      BY <1>a DEF Goto, LocalTypes
<1>2. \A t \in Session \ {s} : Building(t)' = Building(t) BY <1>1 DEF Building
<1>3. OwnDir(s) /\ Undisturbed(s) /\ Chain(d) BY <1>a, <1>c DEF DirsOK
<1>4. \/ files'[d].lib = files[d].lib
      \/ /\ files[d].weights # None /\ files[d].code # None
         /\ files'[d].lib # None
         /\ files'[d].lib.weights = files[d].weights /\ files'[d].lib.dims = files[d].code
  <2>1. CASE files[d].make /\ files'[d].lib = [weights |-> files[d].weights, dims |-> files[d].code]
    <3>1. files[d].weights # None /\ files[d].code # None BY <2>1, <1>3 DEF Chain
    <3>2. files[d] \in Content BY <1>a, <1>c DEF StoreTypes
    <3>3. files'[d].lib \in Library BY <2>1, <3>2 DEF Content, Library
    <3>4. files'[d].lib # None BY <3>3, RecordAssumption
    <3> QED BY <3>1, <3>4, <2>1
  <2> QED BY <2>1 DEF Works
<1>5. Confined(s, d)
  <2>1. OthersStay(s) BY <1>1 DEF OthersStay
  <2>2. phase[s] \notin Over \union {"list"} BY <1>b DEF Over, Building
  <2>3. ByCwd(s, d) BY <1>b, <1>4 DEF ByCwd, Works
  <2> QED BY <1>b, <2>1, <2>2, <2>3 DEF Confined, Works
<1>6. Onward /\ OwnConfigsKept BY <1>5, ConfinedOnward
<1>7. OwnDir(s)'
  <2>1. p \notin {"list", "config"} /\ phase[s] \in Foldered \ {"list"}
        BY <1>b DEF Building
  <2>2. CASE d # s
    <3>1. files'[s] = files[s] BY <2>2, <1>d DEF Works
    <3> HIDE DEF Building
    <3> QED BY <3>1, <2>1, <1>1, <1>2, <1>3, <1>6, OwnDirAtWork DEF OwnDir
  <2>3. CASE d = s
    <3>1. ASSUME folder[s] # None, Sole(s)
          PROVE  /\ files'[s].config = files[s].config
                 /\ files'[s].weights \in {None, s}
                 /\ files'[s].lib # None => files'[s].lib.weights = s
                 /\ s \notin disturbed =>
                      /\ cwd.dir = s => \A t \in Session \ {s} : ~Building(t)
                      /\ files'[s].code \in {None, s}
                      /\ files'[s].lib # None => files'[s].lib.dims = s
          BY <3>1, <2>3, <1>3, <1>4 DEF OwnDir, Works
    <3> HIDE DEF Building
    <3> QED BY <3>1, <2>1, <1>1, <1>2, <1>6, OwnDirAtWork
  <2> QED BY <2>2, <2>3
<1>8. Undisturbed(s)'
  <2>1. s \notin disturbed => \A t \in Session \ {s} : ~Building(t)'
        BY <1>b, <1>2, <1>3 DEF Undisturbed
  <2>2. p \in {"generate", "readLog"} => files'[d].log = s BY DEF Building
  <2>3. s \notin disturbed /\ p \in {"make", "stat"} => out[s] = s
        BY <1>3 DEF Undisturbed
  <2>4. p \in {"generate", "readLog", "failed", "make", "stat"} OBVIOUS
  <2> HIDE DEF Building
  <2> QED BY <1>1, <1>c, <2>1, <2>2, <2>3, <2>4 DEF Undisturbed, Early
<1>9. LoadedAt(s)'
  <2>1. loaded[s] = None BY <1>a, <1>b DEF EntriesOK, LoadedAt, Building
  <2> QED BY <2>1, <1>6, LoadedKept
<1>10. Chain(d)'
  <2>1. files'[d].code # None => files'[d].weights # None BY <1>3 DEF Works, Chain
  <2>2. files'[d].make => files'[d].code # None BY <1>3, <1>d DEF Works, Chain
  <2>3. files'[d].lib # None => files'[d].lib.weights # None BY <1>3, <1>4 DEF Chain
  <2> QED BY <1>3, <2>1, <2>2, <2>3 DEF Works, Chain
<1>11. \A n \in Folder : n = folder[s] => ConfigAt(n)' BY <1>5, ConfigHere DEF Works
<1> QED BY <1>5, <1>7, <1>8, <1>9, <1>10, <1>11, <1>a, BuildStep DEF EntriesOK

\* The library is there; the configuration file; the list.
LEMMA BuildFound ==
  ASSUME ServerInv, NEW s \in Session, NEW d, d = dirAt[folder[s]], d # None,
         files[d].lib # None, phase[s] = "stat", Goto(s, "config"),
         UNCHANGED <<folder, gen, out, entry, loaded, configured, uploaded, cwd, dirAt, files,
                     up, disturbed>>
  PROVE  BuildInv'
<1>a. EntriesOK /\ DirsOK /\ LocalTypes BY DEF ServerInv, BuildInv, FolderInv
<1>b. phase[s] \in Foldered /\ phase[s] \in Made BY DEF Foldered, Made
<1>1. phase'[s] = "config" /\ \A t \in Session \ {s} : phase'[t] = phase[t]
      BY <1>a DEF Goto, LocalTypes
<1>2. \A t \in Session : Building(t)' => Building(t) BY <1>1 DEF Building
<1>3. Confined(s, None)
  <2>1. OthersStay(s) BY <1>1 DEF OthersStay
  <2>2. phase[s] \notin Over \union {"list"} BY DEF Over
  <2> QED BY <1>2, <2>1, <2>2 DEF Confined
<1>4. Onward /\ OwnConfigsKept BY <1>3, ConfinedOnward
<1>5. OwnDir(s) /\ Undisturbed(s) BY <1>a DEF DirsOK
<1>6. Sole(s) => d = s BY <1>b DEF ServerInv, FolderInv, FolderParts, PathOf
<1>7. OwnDir(s)'
  <2>1. phase'[s] # "list" /\ phase[s] \in Foldered \ {"list"} BY <1>1, <1>b
  <2> HIDE DEF Building
  <2> QED BY <1>2, <1>4, <1>5, <1>6, <2>1, OwnDirAtWork DEF OwnDir
<1>8. Undisturbed(s)' BY <1>1, <1>5 DEF Undisturbed, Building, Early
<1>9. LoadedAt(s)'
  <2>1. loaded[s] = None BY <1>a DEF EntriesOK, LoadedAt
  <2> QED BY <2>1, <1>4, LoadedKept
<1>10. None \notin Maker BY NamesDiffer
<1>11. \A n \in Folder : n = folder[s] => ConfigAt(n)' BY <1>3, <1>10, ConfigHere
<1> QED BY <1>3, <1>7, <1>8, <1>9, <1>10, <1>11, <1>a, BuildStep DEF EntriesOK

\* The configuration file is written by its path.
LEMMA BuildConfigured ==
  ASSUME ServerInv, NEW s \in Session, NEW d, d = dirAt[folder[s]], d # None,
         phase[s] = "config", Goto(s, "list"),
         files' = [files EXCEPT ![d].config = [from |-> s, out |-> out[s]]],
         UNCHANGED <<folder, gen, out, entry, loaded, configured, uploaded, cwd, dirAt, up,
                     disturbed>>
  PROVE  BuildInv'
<1>a. EntriesOK /\ DirsOK /\ LocalTypes /\ StoreTypes BY DEF ServerInv, BuildInv, FolderInv
<1>b. phase[s] \in Foldered /\ phase[s] \in Made BY DEF Foldered, Made
<1>c. d \in Session /\ d \in Maker /\ folder[s] \in Folder
      BY <1>b, PathsLead DEF ServerInv, Maker
<1>1. phase'[s] = "list" /\ \A t \in Session \ {s} : phase'[t] = phase[t]
      BY <1>a DEF Goto, LocalTypes
<1> DEFINE c == [from |-> s, out |-> out[s]]
<1>2. /\ files'[d].weights = files[d].weights /\ files'[d].code = files[d].code
      /\ files'[d].make = files[d].make /\ files'[d].lib = files[d].lib
      /\ files'[d].config = c /\ files'[d].log = files[d].log
      BY <1>a, <1>c DEF StoreTypes, Content
<1>3. \A m \in Maker \ {d} : files'[m] = files[m] BY <1>a DEF StoreTypes
<1>4. c # None
  <2>1. c \in Config BY <1>a DEF Config, LocalTypes, Maker
  <2> QED BY <2>1, RecordAssumption
<1>5. c.from = s /\ c.out = out[s] OBVIOUS
<1> HIDE DEF c
<1>6. \A t \in Session : Building(t)' => Building(t) BY <1>1 DEF Building
<1>7. Confined(s, d)
  <2>1. OthersStay(s) BY <1>1 DEF OthersStay
  <2>2. phase[s] \notin Over \union {"list"} BY DEF Over
  <2>3. d \notin Listed BY <1>c, NamesDiffer
  <2>4. ByPath(s, d) BY <1>b, <1>2, <2>3 DEF ByPath
  <2> QED BY <1>3, <1>6, <2>1, <2>2, <2>4 DEF Confined
<1>8. Onward /\ OwnConfigsKept BY <1>7, ConfinedOnward
<1>9. OwnDir(s) /\ Undisturbed(s) /\ Chain(d) BY <1>a, <1>c DEF DirsOK
<1>10. Sole(s) => d = s BY <1>b DEF ServerInv, FolderInv, FolderParts, PathOf
<1>11. OwnDir(s)'
  <2> SUFFICES ASSUME folder'[s] # None, Sole(s)' PROVE OwnDir(s)' BY DEF OwnDir
  <2>1. folder[s] # None /\ Sole(s) BY <1>8, SoleStays
  <2>2. d = s BY <2>1, <1>10
  <2> HIDE DEF Building
  <2> QED BY <2>1, <2>2, <1>1, <1>2, <1>5, <1>6, <1>9 DEF OwnDir, c
<1>12. Undisturbed(s)' BY <1>1, <1>9 DEF Undisturbed, Building, Early
<1>13. LoadedAt(s)'
  <2>1. loaded[s] = None BY <1>a DEF EntriesOK, LoadedAt
  <2> QED BY <2>1, <1>8, LoadedKept
<1>14. Chain(d)'
  <2>1. s \notin disturbed => out[s] = s BY <1>9 DEF Undisturbed
  <2> QED BY <1>2, <1>5, <1>9, <2>1 DEF Chain
<1>15. \A n \in Folder : n = folder[s] => ConfigAt(n)' BY <1>1, <1>2, <1>5 DEF ConfigAt
<1> QED BY <1>7, <1>11, <1>12, <1>13, <1>14, <1>15, <1>a, BuildStep DEF EntriesOK

\* The elements of a list that one entry was appended to.
LEMMA AppendedSet ==
  ASSUME NEW S, NEW q \in Seq(S), NEW e \in S
  PROVE  \A x \in ToSet(Append(q, e)) : x \in ToSet(q) \/ x = e
<1> DEFINE r == Append(q, e)
<1>1. r \in Seq(S) /\ Len(r) = Len(q) + 1 OBVIOUS
<1>2. \A i \in 1..Len(q) : r[i] = q[i] OBVIOUS
<1>3. r[Len(q) + 1] = e OBVIOUS
<1> HIDE DEF r
<1>4. \A i \in DOMAIN r : i \in DOMAIN q \/ i = Len(q) + 1 BY <1>1
<1>5. \A i \in DOMAIN q : r[i] = q[i] BY <1>2
<1>6. \A x \in ToSet(r) : x \in ToSet(q) \/ x = e BY <1>3, <1>4, <1>5 DEF ToSet
<1> QED BY <1>6 DEF r

\* The model is listed: its entry describes its directory.
LEMMA BuildListed ==
  ASSUME ServerInv, NEW s \in Session, ListModel(s)
  PROVE  BuildInv'
<1>a. EntriesOK /\ DirsOK /\ LocalTypes /\ StoreTypes BY DEF ServerInv, BuildInv, FolderInv
<1>b. phase[s] = "list" /\ Goto(s, "done") BY DEF ListModel
<1>c. phase[s] \in Foldered /\ phase[s] \in Made BY <1>b DEF Foldered, Made
<1>d. folder[s] \in Folder BY <1>c, PathsLead DEF ServerInv
<1>e. UNCHANGED <<folder, gen, out, entry, loaded, cwd, dirAt, files, up, disturbed>>
      BY DEF ListModel, localVars, diskVars, processVars
<1> PICK e : e = EntryOf(folder[s], s, out[s]) OBVIOUS
<1>1. phase'[s] = "done" /\ \A t \in Session \ {s} : phase'[t] = phase[t]
      BY <1>a, <1>b DEF Goto, LocalTypes
<1>2. e.name = folder[s] /\ e.from = s /\ e.out = out[s] BY DEF EntryOf
<1>3. e \in Model BY <1>a, <1>d DEF EntryOf, Model, LocalTypes, Maker
<1>4. \/ folder[s] \in SaveName /\ configured' = Replaced(configured, e) /\ uploaded' = uploaded
      \/ folder[s] \notin SaveName /\ configured' = configured /\ uploaded' = Append(uploaded, e)
      BY DEF ListModel
<1>5. /\ \A x \in ToSet(configured) : x.name # folder[s] => x \in ToSet(configured')
      /\ folder[s] \in SaveName => e \in ToSet(configured')
      /\ \A x \in ToSet(configured') :
           x \in ToSet(configured) \/ (x = e /\ folder[s] \in SaveName)
      /\ \A x \in ToSet(uploaded') : x \in ToSet(uploaded) \/ x = e
  <2>1. CASE /\ folder[s] \in SaveName
             /\ configured' = Replaced(configured, e) /\ uploaded' = uploaded
    <3>1. /\ configured \in Seq(Model)
          /\ \A i, j \in 1..Len(configured) : configured[i].name = configured[j].name => i = j
          BY <1>a DEF StoreTypes, ServerInv, ListInv, NamesApart
    <3>2. /\ e \in ToSet(configured')
          /\ \A x \in ToSet(configured) : x.name # e.name => x \in ToSet(configured')
          /\ \A x \in ToSet(configured') : x = e \/ x \in ToSet(configured)
          BY <3>1, <2>1, <1>3, ReplacedNames
    <3> QED BY <3>2, <2>1, <1>2
  <2>2. CASE /\ folder[s] \notin SaveName
             /\ configured' = configured /\ uploaded' = Append(uploaded, e)
    <3>1. uploaded \in Seq(Model) BY <1>a DEF StoreTypes
    <3>2. \A x \in ToSet(uploaded') : x \in ToSet(uploaded) \/ x = e
          BY <3>1, <2>2, <1>3, AppendedSet
    <3> QED BY <3>2, <2>2
  <2> QED BY <1>4, <2>1, <2>2
<1>6. \A t \in Session : Building(t)' => Building(t) BY <1>1 DEF Building
<1>7. Confined(s, None)
  <2>1. OthersStay(s) BY <1>1, <1>e DEF OthersStay
  <2>2. phase'[s] \in Over BY <1>1 DEF Over
  <2> QED BY <1>e, <1>5, <1>6, <2>1, <2>2 DEF Confined
<1>8. Onward /\ OwnConfigsKept BY <1>7, ConfinedOnward
<1>9. OwnDir(s) /\ Undisturbed(s) BY <1>a DEF DirsOK
<1>10. Sole(s) /\ folder[s] # None => files[s].config = [from |-> s, out |-> out[s]]
       BY <1>9, <1>b DEF OwnDir
<1>11. OwnDir(s)'
  <2> SUFFICES ASSUME folder'[s] # None, Sole(s)' PROVE OwnDir(s)' BY DEF OwnDir
  <2>1. folder[s] # None /\ Sole(s) BY <1>8, <1>e, SoleStays
  <2>2. phase'[s] \in Over BY <1>1 DEF Over
  <2>3. folder'[s] \in SaveName =>
          EntryOf(folder'[s], s, files'[s].config.out) \in ToSet(configured')
    <3>1. files'[s].config.out = out[s] BY <1>10, <2>1, <1>e
    <3> QED BY <3>1, <1>5, <1>e
  <2> HIDE DEF Building
  <2> QED BY <2>1, <2>2, <2>3, <1>1, <1>6, <1>9, <1>e DEF OwnDir
<1>12. Undisturbed(s)' BY <1>1 DEF Undisturbed, Building, Early
<1>13. LoadedAt(s)'
  <2>1. loaded[s] = None BY <1>a, <1>b DEF EntriesOK, LoadedAt
  <2> QED BY <2>1, <1>8, <1>e, LoadedKept
<1>14. None \notin Maker /\ s \notin Listed /\ folder[s] # None BY <1>d, NamesDiffer
<1>15. \A n \in Folder : n = folder[s] => ConfigAt(n)' BY <1>7, <1>14, <1>e, ConfigHere
<1>16. Sound(e)'
  <2>1. s \notin disturbed => out[s] = s BY <1>b, <1>9 DEF Undisturbed
  <2>2. Sole(s)' => Sole(s) BY <1>8, <1>14, SoleStays
  <2>3. phase'[s] \in Over BY <1>1 DEF Over
  <2> QED BY <1>2, <1>10, <1>14, <1>e, <2>1, <2>2, <2>3 DEF Sound
<1>17. \A x \in ToSet(configured') : x.name \in SaveName BY <1>2, <1>5, <1>a DEF EntriesOK
<1> QED BY <1>5, <1>7, <1>11, <1>12, <1>13, <1>14, <1>15, <1>16, <1>17, BuildStep

\* What an entry leads to when no other session has chosen its name: the
\* directory of the session it comes from, or the one found at the start.
LEMMA EntryLeads ==
  ASSUME ServerInv, NEW e \in Model, Sound(e), Makers(e.name) \subseteq {e.from}
  PROVE  /\ dirAt[e.name] = e.from /\ e.from \in Maker
         /\ files[e.from].config = [from |-> e.from, out |-> e.out]
         /\ files[e.from].config # None
         /\ files[e.from].lib # None /\ files[e.from].lib.weights = e.from
         /\ e.from \notin disturbed => files[e.from].lib.dims = e.from
<1>a. EntriesOK /\ DirsOK /\ LocalTypes /\ StoreTypes BY DEF ServerInv, BuildInv, FolderInv
<1>b. e.from \in Maker /\ e.name \in Folder BY DEF Model
<1>c. [from |-> e.from, out |-> e.out] # None
  <2>1. [from |-> e.from, out |-> e.out] \in Config BY DEF Model, Config
  <2> QED BY <2>1, RecordAssumption
<1>1. CASE e.from \in Session
  <2>1. folder[e.from] = e.name BY <1>1 DEF Sound
  <2>2. Sole(e.from) BY <2>1, <1>1 DEF Sole, Makers
  <2>3. files[e.from].config = [from |-> e.from, out |-> e.out] BY <1>1, <2>2 DEF Sound
  <2>4. OwnDir(e.from) BY <1>1, <1>a DEF DirsOK
  <2>5. folder[e.from] # None BY <1>b, <2>1, NamesDiffer
  <2> QED BY <2>1, <2>2, <2>3, <2>4, <2>5, <1>b, <1>c DEF OwnDir
<1>2. CASE e.from \in Listed
  <2>1. e = EntryOf(e.from, e.from, e.from) /\ e.from \notin Session
        BY <1>2, NamesDiffer DEF Sound
  <2>2. e.name = e.from /\ e.out = e.from BY <2>1 DEF EntryOf
  <2>3. Makers(e.from) = {} BY <2>1, <2>2 DEF Makers
  <2>4. dirAt[e.from] = e.from /\ files[e.from] = Compiled(e.from)
        BY <2>3, <1>2, <1>a DEF EntriesOK, Found
  <2>5. [weights |-> e.from, dims |-> e.from] # None
    <3>1. [weights |-> e.from, dims |-> e.from] \in Library BY <1>b DEF Library
    <3> QED BY <3>1, RecordAssumption
  <2> QED BY <2>2, <2>4, <2>5, <1>b, <1>c DEF Compiled
<1> QED BY <1>1, <1>2, <1>b DEF Maker

\* The inference session's two steps with an entry: it is found, and its library
\* is loaded or not.
LEMMA BuildEntered ==
  ASSUME ServerInv, NEW s \in Session, NEW p, Goto(s, p),
         p \in {"load", "serve", "notFound"}, phase[s] \in {"lookup", "load"},
         \A t \in Session \ {s} : entry'[t] = entry[t] /\ loaded'[t] = loaded[t],
         LoadedAt(s)',
         UNCHANGED <<folder, gen, out, configured, uploaded, cwd, dirAt, files, up, disturbed>>
  PROVE  BuildInv'
<1>a. EntriesOK /\ DirsOK /\ LocalTypes BY DEF ServerInv, BuildInv, FolderInv
<1>1. phase'[s] = p /\ \A t \in Session \ {s} : phase'[t] = phase[t]
      BY <1>a DEF Goto, LocalTypes
<1>2. \A t \in Session : Building(t)' => Building(t) BY <1>1 DEF Building
<1>3. Confined(s, None)
  <2>1. OthersStay(s) BY <1>1 DEF OthersStay
  <2>2. phase[s] \notin Over \union {"list"} BY DEF Over
  <2> QED BY <1>2, <2>1, <2>2 DEF Confined
<1>4. Onward /\ OwnConfigsKept BY <1>3, ConfinedOnward
<1>5. OwnDir(s)'
  <2>1. phase[s] # "list" /\ phase'[s] \notin {"config", "list"} BY <1>1
  <2> QED BY <1>2, <1>4, <2>1, OwnDirStays
<1>6. Undisturbed(s)' BY <1>1 DEF Undisturbed, Building, Early
<1>7. None \notin Maker BY NamesDiffer
<1>8. \A n \in Folder : n = folder[s] => ConfigAt(n)' BY <1>3, <1>7, ConfigHere
<1> QED BY <1>3, <1>5, <1>6, <1>7, <1>8, <1>a, BuildStep DEF EntriesOK

\* The entry an inference session finds describes its directory.
LEMMA BuildLookedUp ==
  ASSUME ServerInv, NEW s \in Session, phase[s] = "lookup", Goto(s, "load"),
         NEW e \in ToSet(configured) \union ToSet(uploaded), entry' = [entry EXCEPT ![s] = e],
         UNCHANGED <<folder, gen, out, loaded, configured, uploaded, cwd, dirAt, files, up,
                     disturbed>>
  PROVE  BuildInv'
<1>a. EntriesOK /\ LocalTypes /\ StoreTypes BY DEF ServerInv, BuildInv, FolderInv
<1>1. loaded'[s] = None BY <1>a DEF EntriesOK, LoadedAt
<1>2. Sound(e) /\ entry'[s] = e BY <1>a DEF EntriesOK, LocalTypes
<1>3. phase'[s] = "load" /\ \A t \in Session \ {s} : phase'[t] = phase[t]
      BY <1>a DEF Goto, LocalTypes
<1>4. Sound(e)'
  <2>1. e \in Model BY <1>a DEF StoreTypes, ToSet
  <2>2. Onward BY <1>3 DEF Onward, Over
  <2>3. OwnConfigsKept BY DEF OwnConfigsKept
  <2> QED BY <1>2, <2>1, <2>2, <2>3, SoundStays
<1>5. LoadedAt(s)' BY <1>1, <1>2, <1>4 DEF LoadedAt
<1>6. \A t \in Session \ {s} : entry'[t] = entry[t] BY <1>a DEF LocalTypes
<1> QED BY <1>5, <1>6, BuildEntered

\* The library at the path of the entry is the one it describes.
LEMMA BuildLoaded ==
  ASSUME ServerInv, NEW s \in Session, Load(s)
  PROVE  BuildInv'
<1>a. EntriesOK /\ LocalTypes /\ StoreTypes BY DEF ServerInv, BuildInv, FolderInv
<1>b. phase[s] = "load" BY DEF Load
<1>c. UNCHANGED <<folder, gen, out, entry, configured, uploaded, cwd, dirAt, files, up,
                  disturbed>>
      BY DEF Load, listVars, diskVars, processVars
<1> PICK e : e = entry[s] OBVIOUS
<1> PICK d : d = dirAt[e.name] OBVIOUS
<1> PICK lib : lib = IF d = None THEN None ELSE files[d].lib OBVIOUS
<1> PICK p : p = IF lib = None THEN "notFound" ELSE "serve" OBVIOUS
<1>1. loaded' = [loaded EXCEPT ![s] = lib] /\ Goto(s, p) BY DEF Load
<1>2. loaded'[s] = lib /\ \A t \in Session \ {s} : loaded'[t] = loaded[t]
      BY <1>1, <1>a DEF LocalTypes
<1>3. phase'[s] = p /\ \A t \in Session \ {s} : phase'[t] = phase[t]
      BY <1>a, <1>1 DEF Goto, LocalTypes
<1>4. e # None /\ e \in Model /\ Sound(e)
      BY <1>a, <1>b DEF ServerInv, ListInv, SeenAt, LocalTypes, EntriesOK, LoadedAt
<1>5. Sound(e)'
  <2>1. Onward BY <1>b, <1>c, <1>3 DEF Onward, Over
  <2>2. OwnConfigsKept BY <1>c DEF OwnConfigsKept
  <2> QED BY <1>4, <2>1, <2>2, SoundStays
<1>6. lib # None => p = "serve" OBVIOUS
<1>7. lib # None /\ Makers(e.name) \subseteq {e.from} => lib.weights = e.from
      BY <1>4, EntryLeads
<1>8. Makers(e.name)' = Makers(e.name) BY <1>c DEF Makers
<1>9. entry'[s] = e BY <1>c
<1>10. LoadedAt(s)' BY ONLY <1>2, <1>3, <1>4, <1>5, <1>6, <1>7, <1>8, <1>9 DEF LoadedAt
<1>11. p \in {"load", "serve", "notFound"} OBVIOUS
<1> QED BY <1>b, <1>c, <1>1, <1>2, <1>10, <1>11, BuildEntered

\* The process ends, whatever its sessions are doing.
LEMMA BuildEnds ==
  ASSUME ServerInv, NEW how \in {"fatal", "crashed"}, ProcessEnds(how)
  PROVE  BuildInv'
<1>a. EntriesOK /\ DirsOK /\ LocalTypes /\ StoreTypes BY DEF ServerInv, BuildInv, FolderInv
<1>1. /\ folder' = folder /\ configured' = configured /\ uploaded' = uploaded /\ cwd' = cwd
      /\ dirAt' = dirAt /\ files' = files /\ disturbed' = disturbed /\ up' # "up"
      BY DEF ProcessEnds, listVars, diskVars
<1>2. \A t \in Session : phase'[t] = IF phase[t] = "new" THEN "new" ELSE "ended"
      BY DEF ProcessEnds
<1>3. \A t \in Session : gen'[t] = 1 /\ entry'[t] = None /\ loaded'[t] = None
      BY DEF ProcessEnds
<1>4. \A t \in Session : ~Building(t)' BY <1>2 DEF Building
<1>5. Onward BY <1>1, <1>2 DEF Onward, Over
<1>6. OwnConfigsKept BY <1>1 DEF OwnConfigsKept
<1>7. \A d \in Maker : Chain(d)' BY <1>a, <1>1 DEF DirsOK, Chain
<1>8. ASSUME NEW s \in Session PROVE OwnDir(s)'
  <2>1. OwnDir(s) /\ Sole(s)' = Sole(s) BY <1>a, <1>1 DEF DirsOK, Sole
  <2>2. phase[s] \in Over \union {"list"} => phase'[s] \in Over BY <1>2 DEF Over
  <2>3. phase'[s] \notin {"config", "list"} BY <1>2
  <2> HIDE DEF Building
  <2> QED BY <1>1, <1>4, <2>1, <2>2, <2>3 DEF OwnDir
<1>9. ASSUME NEW s \in Session PROVE Undisturbed(s)'
  <2>1. Undisturbed(s) BY <1>a DEF DirsOK
  <2> HIDE DEF Building
  <2> QED BY <1>1, <1>2, <1>3, <1>4, <2>1 DEF Undisturbed, Early
<1>10. ASSUME NEW n \in Folder PROVE ConfigAt(n)'
  <2>1. ConfigAt(n) BY <1>a DEF DirsOK
  <2>2. \A t \in Session : phase[t] \in Over \union {"list"} => phase'[t] \in Over
        BY <1>2 DEF Over
  <2> QED BY <1>1, <2>1, <2>2 DEF ConfigAt
<1>11. ASSUME NEW e \in ToSet(configured) \union ToSet(uploaded) PROVE Sound(e)'
  <2>1. e \in Model /\ Sound(e) BY <1>a DEF StoreTypes, ToSet, EntriesOK
  <2> QED BY <2>1, <1>5, <1>6, SoundStays
<1>12. \A s \in Session : LoadedAt(s)' BY <1>3 DEF LoadedAt
<1>13. ASSUME NEW m \in Listed PROVE Found(m)'
  <2>1. Found(m) BY <1>a DEF EntriesOK
  <2>2. Makers(m)' = Makers(m) BY <1>1 DEF Makers
  <2> QED BY <1>1, <2>1, <2>2 DEF Found
<1>14. DirsOK' BY <1>7, <1>8, <1>9, <1>10 DEF DirsOK
<1>15. EntriesOK' BY <1>1, <1>11, <1>12, <1>13, <1>a DEF EntriesOK
<1> QED BY <1>14, <1>15 DEF BuildInv

\* The server starts again: the list is what it finds on disk.
LEMMA BuildRestarts ==
  ASSUME ServerInv, Restart
  PROVE  BuildInv'
<1>a. EntriesOK /\ DirsOK /\ LocalTypes /\ StoreTypes /\ FolderInv
      BY DEF ServerInv, BuildInv, FolderInv
<1>1. /\ phase' = phase /\ folder' = folder /\ gen' = gen /\ out' = out /\ entry' = entry
      /\ loaded' = loaded /\ dirAt' = dirAt /\ files' = files /\ disturbed' = disturbed
      /\ cwd'.dir = Start /\ uploaded' = <<>> /\ up # "up"
      BY DEF Restart, localVars
<1>2. ToSet(configured') = {DiskEntry(n) : n \in OnDisk} BY <1>a, RestartTypes
<1>3. \A t \in Session : phase[t] \in {"new", "ended"}
      BY <1>1 DEF ServerInv, FolderInv, FolderParts, FolderAt
<1>4. \A t \in Session : ~Building(t) /\ ~Building(t)' BY <1>1, <1>3 DEF Building
<1>5. Onward /\ OwnConfigsKept BY <1>1 DEF Onward, OwnConfigsKept
<1>6. \A d \in Maker : Chain(d)' BY <1>a, <1>1 DEF DirsOK, Chain
<1>b. Start \notin Session BY NamesDiffer DEF Maker
<1>7. ASSUME NEW s \in Session PROVE OwnDir(s)'
  <2> SUFFICES ASSUME folder'[s] # None, Sole(s)' PROVE OwnDir(s)' BY DEF OwnDir
  <2>1. folder[s] # None /\ Sole(s) /\ OwnDir(s) BY <1>a, <1>1 DEF DirsOK, Sole
  <2>2. ASSUME folder[s] \in SaveName, files[s].config # None
        PROVE  EntryOf(folder[s], s, files[s].config.out) \in ToSet(configured')
    <3>1. dirAt[folder[s]] = s /\ files[s].config.from = s BY <2>1, <2>2 DEF OwnDir
    <3>2. s # None BY NamesDiffer DEF Maker
    <3>3. folder[s] \in OnDisk BY <2>2, <3>1, <3>2 DEF OnDisk
    <3>4. DiskEntry(folder[s]) = EntryOf(folder[s], s, files[s].config.out)
          BY <3>1 DEF DiskEntry
    <3> QED BY <3>3, <3>4, <1>2
  <2>3. phase[s] \notin {"config", "list"} BY <1>3
  <2> HIDE DEF Building
  <2> QED BY <1>1, <1>4, <1>b, <2>1, <2>2, <2>3 DEF OwnDir
<1>8. ASSUME NEW s \in Session PROVE Undisturbed(s)'
  <2>1. Undisturbed(s) BY <1>a DEF DirsOK
  <2> HIDE DEF Building
  <2> QED BY <1>1, <1>3, <1>4, <1>b, <2>1 DEF Undisturbed
<1>9. \A n \in Folder : ConfigAt(n)' BY <1>a, <1>1 DEF DirsOK, ConfigAt
<1>10. DirsOK' BY <1>6, <1>7, <1>8, <1>9 DEF DirsOK
<1>11. ASSUME NEW n \in OnDisk PROVE Sound(DiskEntry(n)) /\ DiskEntry(n).name \in SaveName
  <2> DEFINE c == files[dirAt[n]].config
  <2>1. n \in SaveName /\ n \in Folder /\ dirAt[n] # None /\ dirAt[n] \in Maker /\ c # None
        BY <1>a DEF OnDisk, StoreTypes, Folder
  <2>2. PathAt(n) /\ ConfigAt(n) /\ Chain(dirAt[n])
        BY <1>a, <2>1 DEF DirsOK, FolderInv, FolderParts
  <2>3. c \in Config BY <1>a, <2>1 DEF StoreTypes, Content
  <2>4. DiskEntry(n).name = n /\ DiskEntry(n).from = c.from /\ DiskEntry(n).out = c.out
        BY DEF DiskEntry, EntryOf
  <2>5. c = [from |-> c.from, out |-> c.out] BY <2>3 DEF Config
  <2>6. dirAt[n] \in Listed => dirAt[n] = n /\ c.from = n /\ c.out = n
    <3>1. dirAt[n] \in Listed => dirAt[n] = n BY <2>2 DEF PathAt
    <3>2. n \in Listed /\ dirAt[n] = n => files[n] = Compiled(n)
          BY <1>a DEF EntriesOK, Found
    <3> QED BY <3>1, <3>2 DEF Compiled
  <2>7. dirAt[n] \in Session => c.from \in Session BY <2>1, <2>2 DEF Chain
  <2>8. ASSUME c.from \in Session
        PROVE  /\ folder[c.from] = n /\ phase[c.from] \in Over
               /\ c.from \notin disturbed => c.out = c.from
               /\ Sole(c.from) => files[c.from].config = c
    <3>1. folder[c.from] = n /\ phase[c.from] \in Over \union {"list"}
          BY <2>1, <2>2, <2>8 DEF ConfigAt
    <3>2. phase[c.from] \in Over BY <3>1, <2>8, <1>3
    <3>3. c.from \notin disturbed => c.out = c.from BY <2>1, <2>2, <2>8 DEF Chain
    <3>4. dirAt[n] \in Session BY <2>1, <2>6, <2>8, NamesDiffer DEF Maker
    <3>5. folder[dirAt[n]] = n BY <3>4, <2>2 DEF PathAt
    <3>6. Sole(c.from) => dirAt[n] = c.from BY <3>1, <3>4, <3>5 DEF Sole
    <3> QED BY <3>1, <3>2, <3>3, <3>6
  <2>9. ASSUME c.from \in Listed PROVE c.from = n /\ c.out = n
    <3>1. dirAt[n] \in Listed BY <2>1, <2>7, <2>9, NamesDiffer DEF Maker
    <3> QED BY <3>1, <2>6
  <2> HIDE DEF c
  <2>10. Sound(DiskEntry(n))
    <3>1. ASSUME c.from \in Listed PROVE DiskEntry(n) = EntryOf(c.from, c.from, c.from)
      <4>1. c.from = n /\ c.out = n BY <2>9, <3>1
      <4>2. DiskEntry(n) = EntryOf(n, c.from, c.out) BY DEF DiskEntry, c
      <4> QED BY <4>1, <4>2
    <3> QED BY <2>4, <2>5, <2>8, <3>1 DEF Sound
  <2> QED BY <2>1, <2>4, <2>10
<1>12. ASSUME NEW e \in ToSet(configured') \union ToSet(uploaded')
       PROVE  Sound(e)' /\ e.name \in SaveName
  <2>1. e \in ToSet(configured')
    <3>1. ToSet(<<>>) = {} BY DEF ToSet
    <3> QED BY <3>1, <1>1
  <2>2. PICK n \in OnDisk : e = DiskEntry(n) BY <2>1, <1>2
  <2>3. Sound(e) /\ e \in Model /\ e.name \in SaveName
        BY <2>2, <1>11, <1>a, DiskEntriesTyped
  <2> QED BY <2>3, <1>5, SoundStays
<1>13. \A s \in Session : LoadedAt(s)'
  <2> SUFFICES ASSUME NEW s \in Session PROVE LoadedAt(s)' OBVIOUS
  <2>1. LoadedAt(s) BY <1>a DEF EntriesOK
  <2>2. loaded[s] # None => phase'[s] \in {"serve", "returned", "returned0"}
        BY <2>1, <1>1 DEF LoadedAt
  <2> QED BY <2>2, <1>1, <1>5, LoadedKept
<1>14. ASSUME NEW m \in Listed PROVE Found(m)'
  <2>1. Found(m) /\ Makers(m)' = Makers(m) BY <1>a, <1>1 DEF EntriesOK, Makers
  <2>2. Makers(m) = {} => EntryOf(m, m, m) \in ToSet(configured')
    <3> SUFFICES ASSUME Makers(m) = {} PROVE EntryOf(m, m, m) \in ToSet(configured')
        OBVIOUS
    <3>1. dirAt[m] = m /\ files[m] = Compiled(m) BY <2>1 DEF Found
    <3>2. [from |-> m, out |-> m] # None
      <4>1. [from |-> m, out |-> m] \in Config BY DEF Config, Maker
      <4> QED BY <4>1, RecordAssumption
    <3>3. files[m].config = [from |-> m, out |-> m] BY <3>1 DEF Compiled
    <3>4. m \in SaveName /\ m # None BY NamesDiffer DEF Maker
    <3>5. m \in OnDisk BY <3>1, <3>2, <3>3, <3>4 DEF OnDisk
    <3>6. DiskEntry(m) = EntryOf(m, m, m) BY <3>1, <3>3 DEF DiskEntry
    <3> QED BY <3>5, <3>6, <1>2
  <2> QED BY <1>1, <2>1, <2>2 DEF Found
<1>15. EntriesOK' BY <1>12, <1>13, <1>14 DEF EntriesOK
<1> QED BY <1>10, <1>15 DEF BuildInv

\* The invariant holds at the first start.
LEMMA BuildInvInit == Init => BuildInv
<1> SUFFICES ASSUME Init PROVE BuildInv OBVIOUS
<1> DEFINE E == {EntryOf(n, n, n) : n \in Listed}
<1>1. /\ folder = [s \in Session |-> None] /\ phase = [s \in Session |-> "new"]
      /\ gen = [s \in Session |-> 1] /\ entry = [s \in Session |-> None]
      /\ loaded = [s \in Session |-> None] /\ uploaded = <<>>
      /\ dirAt = [n \in Folder |-> IF n \in Listed THEN n ELSE None]
      /\ files = [m \in Maker |-> IF m \in Listed THEN Compiled(m) ELSE Empty]
      /\ cwd = [dir |-> Start, sub |-> FALSE]
      BY DEF Init
<1>2. ToSet(configured) = E /\ ToSet(uploaded) = {}
  <2>1. IsFiniteSet(E) BY ListedEntriesTyped
  <2>2. configured \in SetToSeqs(E) BY <2>1, SequenceOfSet DEF Init
  <2>3. ToSet(configured) = E BY <2>1, <2>2, Sequenced
  <2>4. ToSet(<<>>) = {} BY DEF ToSet
  <2> QED BY <2>3, <2>4, <1>1
<1>3. \A s \in Session : files[s] = Empty /\ s \notin Listed /\ s # Start /\ s # None
  <2>1. ASSUME NEW s \in Session PROVE files[s] = Empty /\ s \notin Listed /\ s # Start /\ s # None
    <3>1. s \in Maker /\ s \notin Listed BY NamesDiffer DEF Maker
    <3> QED BY <3>1, <1>1, NamesDiffer
  <2> QED BY <2>1
<1>4. ASSUME NEW m \in Listed PROVE files[m] = Compiled(m) /\ dirAt[m] = m /\ m \notin Session
  <2>1. m \in Maker /\ m \in Folder /\ m \notin Session BY NamesDiffer DEF Maker, Folder
  <2> QED BY <2>1, <1>1
<1>5. ASSUME NEW d \in Maker PROVE Chain(d)
  <2>1. CASE d \in Session BY <2>1, <1>3 DEF Chain, Empty
  <2>2. CASE d \in Listed
    <3>1. d # None /\ files[d] = Compiled(d) /\ d \notin Session BY <2>2, <1>4, NamesDiffer
    <3> QED BY <3>1 DEF Chain, Compiled
  <2> QED BY <2>1, <2>2 DEF Maker
<1>6. \A s \in Session : OwnDir(s) BY <1>1 DEF OwnDir
<1>7. \A s \in Session : Undisturbed(s) BY <1>1, <1>3 DEF Undisturbed, Building
<1>8. ASSUME NEW n \in Folder PROVE ConfigAt(n)
  <2>1. dirAt[n] # None => n \in Listed /\ dirAt[n] = n BY <1>1
  <2>2. ASSUME n \in Listed PROVE files[n].config.from \notin Session
    <3>1. files[n] = Compiled(n) /\ n \notin Session BY <2>2, <1>4
    <3>2. Compiled(n).config.from = n BY DEF Compiled
    <3> QED BY <3>1, <3>2
  <2> QED BY <2>1, <2>2 DEF ConfigAt
<1>9. \A e \in E : e.name \in SaveName /\ Sound(e)
  <2> SUFFICES ASSUME NEW m \in Listed
               PROVE  EntryOf(m, m, m).name \in SaveName /\ Sound(EntryOf(m, m, m))
      OBVIOUS
  <2>1. m \in SaveName /\ m \notin Session BY NamesDiffer
  <2> QED BY <2>1 DEF EntryOf, Sound
<1>10. \A s \in Session : LoadedAt(s) BY <1>1 DEF LoadedAt
<1>11. \A m \in Listed : Found(m) BY <1>2, <1>4 DEF Found
<1>12. DirsOK BY <1>5, <1>6, <1>7, <1>8 DEF DirsOK
<1>13. EntriesOK BY <1>2, <1>9, <1>10, <1>11 DEF EntriesOK
<1> QED BY <1>12, <1>13 DEF BuildInv

\* The tools' writes, one field after the other.
LEMMA ToolsWork ==
  ASSUME ServerInv, NEW s \in Session, NEW d \in Maker
  PROVE  /\ /\ files[d].weights # None
            /\ files' = [files EXCEPT ![d].code = s, ![d].log = s]
            => Works(s, d) /\ files'[d].log = s
         /\ files' = [files EXCEPT ![d].log = None] => Works(s, d)
         /\ files[d].code # None /\ files' = [files EXCEPT ![d].make = TRUE] => Works(s, d)
         /\ /\ files[d].make
            /\ files' = [files EXCEPT ![d].lib =
                           [weights |-> files[d].weights, dims |-> files[d].code]]
            => Works(s, d)
<1>1. files \in [Maker -> Content] BY DEF ServerInv, FolderInv, StoreTypes
<1>2. files[d] \in Content BY <1>1
<1>3. ASSUME files[d].weights # None, files' = [files EXCEPT ![d].code = s, ![d].log = s]
      PROVE  Works(s, d) /\ files'[d].log = s
  <2>1. \A m \in Maker \ {d} : files'[m] = files[m] BY <1>1, <1>3
  <2>2. files'[d] = [files[d] EXCEPT !.code = s, !.log = s] BY <1>1, <1>3
  <2>3. /\ files'[d].weights = files[d].weights /\ files'[d].config = files[d].config
        /\ files'[d].log = s /\ files'[d].code = s
        /\ files'[d].make = files[d].make /\ files'[d].lib = files[d].lib
        BY <1>2, <2>2 DEF Content
  <2> QED BY <1>3, <2>1, <2>3 DEF Works
<1>4. ASSUME files' = [files EXCEPT ![d].log = None] PROVE Works(s, d)
  <2>1. \A m \in Maker \ {d} : files'[m] = files[m] BY <1>1, <1>4
  <2>2. files'[d] = [files[d] EXCEPT !.log = None] BY <1>1, <1>4
  <2>3. /\ files'[d].weights = files[d].weights /\ files'[d].config = files[d].config
        /\ files'[d].log = None /\ files'[d].code = files[d].code
        /\ files'[d].make = files[d].make /\ files'[d].lib = files[d].lib
        BY <1>2, <2>2 DEF Content
  <2> QED BY <2>1, <2>3 DEF Works
<1>5. ASSUME files[d].code # None, files' = [files EXCEPT ![d].make = TRUE]
      PROVE  Works(s, d)
  <2>1. \A m \in Maker \ {d} : files'[m] = files[m] BY <1>1, <1>5
  <2>2. files'[d] = [files[d] EXCEPT !.make = TRUE] BY <1>1, <1>5
  <2>3. /\ files'[d].weights = files[d].weights /\ files'[d].config = files[d].config
        /\ files'[d].log = files[d].log /\ files'[d].code = files[d].code
        /\ files'[d].lib = files[d].lib
        BY <1>2, <2>2 DEF Content
  <2> QED BY <1>5, <2>1, <2>3 DEF Works
<1>6. ASSUME files[d].make,
             files' = [files EXCEPT ![d].lib =
                         [weights |-> files[d].weights, dims |-> files[d].code]]
      PROVE  Works(s, d)
  <2> PICK l : l = [weights |-> files[d].weights, dims |-> files[d].code] OBVIOUS
  <2>0. files' = [files EXCEPT ![d].lib = l] BY <1>6
  <2>1. \A m \in Maker \ {d} : files'[m] = files[m] BY <1>1, <2>0
  <2>2. files'[d] = [files[d] EXCEPT !.lib = l] BY <1>1, <2>0
  <2>3. /\ files'[d].weights = files[d].weights /\ files'[d].config = files[d].config
        /\ files'[d].log = files[d].log /\ files'[d].code = files[d].code
        /\ files'[d].make = files[d].make /\ files'[d].lib = l
        BY <1>2, <2>2 DEF Content
  <2> QED BY <1>6, <2>1, <2>3 DEF Works
<1> QED BY <1>3, <1>4, <1>5, <1>6

\* A change of phase that relies on nothing on disk.
PassesOn(q, p) ==
  /\ p \in Phase \ ((Foldered \ {"failed"}) \union {"new"})
  /\ q # "list"
  /\ q \in Over => p \in Over
  /\ p \in Early => q \in Early
  /\ q \in {"serve", "returned", "returned0"} => p \in {"serve", "returned", "returned0"}

\* It keeps the invariant.
LEMMA BuildPasses ==
  ASSUME ServerInv, NEW s \in Session, NEW p, Goto(s, p), PassesOn(phase[s], p),
         UNCHANGED storeKept, UNCHANGED <<gen, out, entry, loaded>>
  PROVE  BuildInv'
BY BuildCalm DEF PassesOn, BuildCalmFrom

\* Every step of a compiler session keeps the invariant ...
LEMMA CompilerBuilds ==
  ASSUME ServerInv, NEW s \in Session, CompilerStep(s)
  PROVE  BuildInv'
<1> DEFINE Kept == BuildInv'
<1> SUFFICES Kept OBVIOUS
<1>a. FolderInv /\ Undisturbed(s) BY DEF ServerInv, BuildInv, DirsOK
<1>b. phase[s] \in Made => dirAt[folder[s]] \in Session \union {None}
      BY <1>a, PathsLead DEF Foldered
<1> HIDE DEF Kept
<1>e. ASSUME NEW p, Goto(s, p), PassesOn(phase[s], p), UNCHANGED storeKept,
             UNCHANGED <<gen, out, entry, loaded>>
      PROVE  Kept
      BY <1>e, BuildPasses DEF Kept
<1>f. ASSUME NEW p, Talk(s, p), PassesOn(phase[s], p), UNCHANGED storeKept,
             UNCHANGED <<gen, out, entry, loaded>>
      PROVE  Kept
      BY <1>f, <1>e DEF Talk
<1>g. ASSUME Refuse(s), phase[s] \notin Over \union {"list", "serve"}, UNCHANGED storeKept,
             UNCHANGED <<gen, out, entry, loaded>>
      PROVE  Kept
  <2>1. PassesOn(phase[s], "failing")
        BY <1>g DEF PassesOn, Phase, Foldered, Made, Early, Over
  <2> QED BY <2>1, <1>e, <1>g DEF Refuse
<1>h. \A q \in Made \ {"list"} : PassesOn(q, "failed")
      BY DEF PassesOn, Phase, Exchanging, Foldered, Made, Early, Over
<1> USE DEF storeKept, localVars, listVars, diskVars, processVars
<1>1. CASE Check(s)
  <2>1. /\ phase[s] = "check"
        /\ UNCHANGED <<gen, out, entry, loaded, configured, uploaded, cwd, dirAt, files, up,
                       disturbed>>
        BY <1>1 DEF Check
  <2>2. CASE Refuse(s) /\ folder' = folder BY <2>1, <2>2, <1>g DEF Over
  <2>3. CASE Goto(s, "count") /\ folder' = folder
    <3>1. PassesOn(phase[s], "count")
          BY <2>1 DEF PassesOn, Phase, Foldered, Made, Early, Over
    <3> QED BY <2>1, <2>3, <3>1, <1>e
  <2>4. CASE \E n \in SaveName : folder' = [folder EXCEPT ![s] = n] /\ Goto(s, "remove")
    <3>1. PICK n \in SaveName : folder' = [folder EXCEPT ![s] = n] /\ Goto(s, "remove") BY <2>4
    <3>2. n \in Folder BY DEF Folder
    <3> QED BY <2>1, <3>1, <3>2, BuildChosen DEF Kept
  <2> QED BY <1>1, <2>2, <2>3, <2>4 DEF Check
<1>2. CASE CountBegin(s)
  <2>1. PassesOn(phase[s], "counting")
        BY <1>2 DEF CountBegin, PassesOn, Phase, Foldered, Made, Early, Over
  <2> QED BY <1>2, <2>1, <1>e DEF CountBegin
<1>3. CASE CountEnd(s)
  <2>1. /\ phase[s] = "counting" /\ Goto(s, "remove") /\ folder' = [folder EXCEPT ![s] = counter]
        /\ UNCHANGED <<gen, out, entry, loaded, configured, uploaded, cwd, dirAt, files, up,
                       disturbed>>
        BY <1>3 DEF CountEnd
  <2>2. counter \in Folder
    <3>1. counter \in 0..MaxUploads /\ counter >= 1
          BY <2>1, <1>a DEF FolderInv, StoreTypes, FolderParts, FolderAt
    <3> QED BY <3>1, StoreAssumption DEF Folder
  <2> QED BY <2>1, <2>2, BuildChosen DEF Kept
<1>4. CASE RemoveFolder(s)
  <2>1. /\ phase[s] = "remove"
        /\ UNCHANGED <<folder, gen, out, entry, loaded, configured, uploaded, cwd, up, disturbed>>
        BY <1>4 DEF RemoveFolder
  <2>2. CASE Refuse(s) /\ UNCHANGED <<dirAt, files>> BY <2>1, <2>2, <1>g DEF Over
  <2>3. CASE /\ dirAt' = [dirAt EXCEPT ![folder[s]] = None] /\ Goto(s, "makeDirs")
             /\ files' = [m \in Maker |-> IF m = dirAt[folder[s]] THEN Empty ELSE files[m]]
        BY <2>1, <2>3, BuildRemoved DEF Kept
  <2> QED BY <1>4, <2>2, <2>3 DEF RemoveFolder
<1>5. CASE MakeDirs(s)
  <2>1. CASE ProcessEnds("fatal") BY <2>1, BuildEnds DEF Kept
  <2>2. CASE /\ dirAt' = [dirAt EXCEPT ![folder[s]] = s] /\ Goto(s, "receive")
             /\ UNCHANGED <<localVars, listVars, cwd, files, processVars, disturbed>>
        BY <1>5, <2>2, BuildMade DEF MakeDirs, Kept
  <2> QED BY <1>5, <2>1, <2>2 DEF MakeDirs
<1>6. CASE Receive(s)
  <2> PICK d : d = dirAt[folder[s]] OBVIOUS
  <2>1. CASE ProcessEnds("fatal") BY <2>1, BuildEnds DEF Kept
  <2>2. CASE Refuse(s) /\ UNCHANGED <<gpuVars, storeVars>>
        BY <2>2, <1>6, <1>g DEF Receive, storeVars, Over
  <2>3. CASE /\ d # None /\ files' = [files EXCEPT ![d].weights = s] /\ Talk(s, "chdir")
             /\ UNCHANGED <<localVars, listVars, cwd, dirAt, processVars, disturbed>>
        BY <1>6, <2>3, BuildReceived DEF Receive, Talk, Kept
  <2> QED BY <1>6, <2>1, <2>2, <2>3 DEF Receive
<1>7. CASE Chdir(s)
  <2> PICK d : d = dirAt[folder[s]] OBVIOUS
  <2>1. phase[s] = "chdir" /\ UNCHANGED <<localVars, listVars, diskVars, processVars>>
        BY <1>7 DEF Chdir
  <2>2. CASE /\ d # None /\ cwd' = [dir |-> d, sub |-> FALSE]
             /\ DisturbedBy(s) /\ Goto(s, "generate")
    <3>1. cwd'.dir = d BY <2>2
    <3> QED BY <2>1, <2>2, <3>1, BuildMoved DEF Kept
  <2>3. CASE Goto(s, "failed") /\ UNCHANGED <<cwd, disturbed>>
    <3>1. PassesOn(phase[s], "failed") BY <2>1, <1>h DEF Made
    <3> QED BY <2>1, <2>3, <3>1, <1>e
  <2> QED BY <1>7, <2>2, <2>3 DEF Chdir
<1>8. CASE Generate(s)
  <2> PICK d : d = cwd.dir OBVIOUS
  <2>1. /\ phase[s] = "generate"
        /\ UNCHANGED <<folder, out, entry, loaded, listVars, cwd, dirAt, processVars, disturbed>>
        BY <1>8 DEF Generate
  <2>2. CASE /\ CwdExists /\ files[d].weights # None
             /\ files' = [files EXCEPT ![d].code = s, ![d].log = s]
             /\ gen' = [gen EXCEPT ![s] = @ + 1]
             /\ Talk(s, IF gen[s] = Generators THEN "readLog" ELSE "generate")
    <3>1. d \in Session /\ d \in Maker BY <1>a, <2>2, CwdLeads DEF Maker
    <3>2. Works(s, d) /\ files'[d].log = s BY <2>2, <3>1, ToolsWork
    <3>3. PICK p \in {"generate", "readLog"} : Goto(s, p) BY <2>2 DEF Talk
    <3>4. \A t \in Session \ {s} : gen'[t] = gen[t] BY <2>2, <1>a DEF FolderInv, LocalTypes
    <3> QED BY <2>1, <3>1, <3>2, <3>3, <3>4, BuildWorked DEF Kept
  <2>3. CASE CwdExists /\ files' = [files EXCEPT ![d].log = None] /\ Talk(s, "failed") /\ gen' = gen
    <3>1. d \in Session /\ d \in Maker BY <1>a, <2>3, CwdLeads DEF Maker
    <3>2. Works(s, d) BY <2>3, <3>1, ToolsWork
    <3>3. Building(s) BY <2>1 DEF Building
    <3> QED BY <2>1, <2>3, <3>1, <3>2, <3>3, BuildWorked DEF Kept, Talk
  <2>4. CASE files' = files /\ Talk(s, "failed") /\ gen' = gen
    <3>1. PassesOn(phase[s], "failed") BY <2>1, <1>h DEF Made
    <3> QED BY <2>1, <2>4, <3>1, <1>f
  <2> QED BY <1>8, <2>2, <2>3, <2>4 DEF Generate
<1>9. CASE ReadLog(s)
  <2> PICK d : d = dirAt[folder[s]] OBVIOUS
  <2> PICK log : log = IF CwdExists /\ ~cwd.sub THEN files[cwd.dir].log ELSE None OBVIOUS
  <2>1. /\ phase[s] = "readLog"
        /\ UNCHANGED <<folder, gen, entry, loaded, listVars, diskVars, processVars>>
        BY <1>9 DEF ReadLog
  <2>2. CASE /\ log # None /\ d # None /\ out' = [out EXCEPT ![s] = log]
             /\ cwd' = [dir |-> d, sub |-> TRUE] /\ DisturbedBy(s) /\ Talk(s, "cmake")
    <3>1. cwd'.dir = d /\ Goto(s, "cmake") BY <2>2 DEF Talk
    <3>2. log = files[cwd.dir].log BY <2>2
    <3>3. cwd.dir # Start BY <1>a, <2>1 DEF Undisturbed, Building
    <3> QED BY <2>1, <2>2, <3>1, <3>2, <3>3, BuildMoved DEF Kept
  <2>3. CASE Talk(s, "failed") /\ UNCHANGED <<out, cwd, disturbed>>
    <3>1. PassesOn(phase[s], "failed") BY <2>1, <1>h DEF Made
    <3> QED BY <2>1, <2>3, <3>1, <1>f
  <2>4. CASE Refuse(s) /\ UNCHANGED <<out, cwd, disturbed>> BY <2>1, <2>4, <1>g DEF Over
  <2> QED BY <1>9, <2>2, <2>3, <2>4 DEF ReadLog
<1>10. CASE Cmake(s)
  <2> PICK d : d = cwd.dir OBVIOUS
  <2>1. phase[s] = "cmake" /\ UNCHANGED <<localVars, listVars, cwd, dirAt, processVars, disturbed>>
        BY <1>10 DEF Cmake
  <2>2. CASE files' = files /\ Goto(s, "failed")
    <3>1. PassesOn(phase[s], "failed") BY <2>1, <1>h DEF Made
    <3> QED BY <2>1, <2>2, <3>1, <1>e
  <2>3. CASE /\ CwdExists /\ files[d].code # None /\ files' = [files EXCEPT ![d].make = TRUE]
             /\ \E p \in {"make", "failed"} : Goto(s, p)
    <3>1. d \in Session /\ d \in Maker BY <1>a, <2>3, CwdLeads DEF Maker
    <3>2. Works(s, d) BY <2>3, <3>1, ToolsWork
    <3>3. Building(s) BY <2>1 DEF Building
    <3>4. PICK p \in {"make", "failed"} : Goto(s, p) BY <2>3
    <3> QED BY <2>1, <3>1, <3>2, <3>3, <3>4, BuildWorked DEF Kept
  <2> QED BY <1>10, <2>2, <2>3 DEF Cmake
<1>11. CASE Make(s)
  <2> PICK d : d = cwd.dir OBVIOUS
  <2>1. phase[s] = "make" /\ UNCHANGED <<localVars, listVars, cwd, dirAt, processVars, disturbed>>
        BY <1>11 DEF Make
  <2>2. CASE files' = files /\ Talk(s, "failed")
    <3>1. PassesOn(phase[s], "failed") BY <2>1, <1>h DEF Made
    <3> QED BY <2>1, <2>2, <3>1, <1>f
  <2>3. CASE /\ CwdExists /\ files[d].make /\ Talk(s, "stat")
             /\ files' = [files EXCEPT ![d].lib =
                            [weights |-> files[d].weights, dims |-> files[d].code]]
    <3>1. d \in Session /\ d \in Maker BY <1>a, <2>3, CwdLeads DEF Maker
    <3>2. Works(s, d) BY <2>3, <3>1, ToolsWork
    <3> QED BY <2>1, <2>3, <3>1, <3>2, BuildWorked DEF Kept, Talk
  <2> QED BY <1>11, <2>2, <2>3 DEF Make
<1>12. CASE Stat(s)
  <2> PICK d : d = dirAt[folder[s]] OBVIOUS
  <2>1. phase[s] = "stat" /\ UNCHANGED storeVars BY <1>12 DEF Stat
  <2>2. CASE d # None /\ files[d].lib # None /\ Talk(s, "config")
        BY <2>1, <2>2, BuildFound DEF storeVars, Talk, Kept
  <2>3. CASE Talk(s, "failed")
    <3>1. PassesOn(phase[s], "failed") BY <2>1, <1>h DEF Made
    <3> QED BY <2>1, <2>3, <3>1, <1>f DEF storeVars
  <2> QED BY <1>12, <2>2, <2>3 DEF Stat
<1>13. CASE StepFailed(s)
      BY <1>13, <1>g DEF StepFailed, storeVars, Over
<1>14. CASE WriteConfig(s)
  <2> PICK d : d = dirAt[folder[s]] OBVIOUS
  <2>1. CASE ProcessEnds("fatal") BY <2>1, BuildEnds DEF Kept
  <2>2. CASE /\ d # None /\ files' = [files EXCEPT ![d].config = [from |-> s, out |-> out[s]]]
             /\ Talk(s, "list")
             /\ UNCHANGED <<localVars, listVars, cwd, dirAt, processVars, disturbed>>
        BY <1>14, <2>2, BuildConfigured DEF WriteConfig, Talk, Kept
  <2> QED BY <1>14, <2>1, <2>2 DEF WriteConfig
<1>15. CASE ListModel(s) BY <1>15, BuildListed DEF Kept
<1>16. CASE Done(s)
  <2>1. PassesOn(phase[s], "returned0")
        BY <1>16 DEF Done, PassesOn, Phase, Foldered, Made, Early, Over
  <2> QED BY <1>16, <2>1, <1>f DEF Done, storeVars
<1> QED BY <1>1, <1>2, <1>3, <1>4, <1>5, <1>6, <1>7, <1>8, <1>9, <1>10, <1>11,
           <1>12, <1>13, <1>14, <1>15, <1>16 DEF CompilerStep

\* ... of any session ...
LEMMA SessionBuilds ==
  ASSUME ServerInv, NEW s \in Session, SessionStep(s)
  PROVE  BuildInv'
<1> DEFINE Kept == BuildInv'
<1> SUFFICES Kept OBVIOUS
<1>a. FolderInv BY DEF ServerInv
<1> HIDE DEF Kept
<1>e. ASSUME NEW p, Goto(s, p), PassesOn(phase[s], p), UNCHANGED storeKept,
             UNCHANGED <<gen, out, entry, loaded>>
      PROVE  Kept
      BY <1>e, BuildPasses DEF Kept
<1>f. ASSUME NEW p, Talk(s, p), PassesOn(phase[s], p), UNCHANGED storeKept,
             UNCHANGED <<gen, out, entry, loaded>>
      PROVE  Kept
      BY <1>f, <1>e DEF Talk
<1>g. ASSUME Refuse(s), phase[s] \notin Over \union {"list", "serve"}, UNCHANGED storeKept,
             UNCHANGED <<gen, out, entry, loaded>>
      PROVE  Kept
  <2>1. PassesOn(phase[s], "failing")
        BY <1>g DEF PassesOn, Phase, Foldered, Made, Early, Over
  <2> QED BY <2>1, <1>e, <1>g DEF Refuse
<1> USE DEF storeKept, localVars, listVars, diskVars, processVars
<1>1. CASE Dispatch(s)
  <2>1. PICK p \in {"countModels", "check", "lock", "shadow", "ended"} : Goto(s, p)
        BY <1>1 DEF Dispatch, Talk
  <2>2. phase[s] = "accepted" BY <1>1 DEF Dispatch
  <2>3. PassesOn(phase[s], p)
        BY <2>1, <2>2 DEF PassesOn, Phase, Exchanging, Foldered, Made, Early, Over
  <2> QED BY <1>1, <2>1, <2>3, <1>e DEF Dispatch, storeVars
<1>2. CASE CompilerStep(s) BY <1>2, CompilerBuilds DEF Kept
<1>3. CASE CountModels(s)
  <2>1. PICK p \in {"entriesSent", "entry"} : Goto(s, p) BY <1>3 DEF CountModels
  <2>2. PassesOn(phase[s], p)
        BY <1>3, <2>1 DEF CountModels, PassesOn, Phase, Exchanging, Foldered, Made, Early, Over
  <2> QED BY <1>3, <2>1, <2>2, <1>e DEF CountModels
<1>4. CASE SendEntry(s)
  <2>1. PICK p \in {"entriesSent", "entry"} : Goto(s, p) BY <1>4 DEF SendEntry, Talk
  <2>2. PassesOn(phase[s], p)
        BY <1>4, <2>1 DEF SendEntry, PassesOn, Phase, Exchanging, Foldered, Made, Early, Over
  <2> QED BY <1>4, <2>1, <2>2, <1>e DEF SendEntry
<1>5. CASE Lock(s)
  <2>1. PICK p \in {"lookup", "lock"} : Goto(s, p) BY <1>5 DEF Lock
  <2>2. PassesOn(phase[s], p)
        BY <1>5, <2>1 DEF Lock, PassesOn, Phase, Exchanging, Foldered, Made, Early, Over
  <2> QED BY <1>5, <2>1, <2>2, <1>e DEF Lock, storeVars
<1>6. CASE Lookup(s)
  <2>1. /\ phase[s] = "lookup"
        /\ UNCHANGED <<folder, gen, out, loaded, listVars, cwd, diskVars, processVars, disturbed>>
        BY <1>6 DEF Lookup
  <2>2. CASE Refuse(s) /\ UNCHANGED entry BY <2>1, <2>2, <1>g DEF Over
  <2>3. CASE \E e \in ToSet(configured) \union ToSet(uploaded) :
               entry' = [entry EXCEPT ![s] = e] /\ Goto(s, "load")
        BY <2>1, <2>3, BuildLookedUp DEF Kept
  <2>4. CASE Goto(s, "notFound") /\ UNCHANGED entry
    <3>1. PassesOn(phase[s], "notFound")
          BY <2>1 DEF PassesOn, Phase, Exchanging, Foldered, Made, Early, Over
    <3> QED BY <2>1, <2>4, <3>1, <1>e
  <2> QED BY <1>6, <2>2, <2>3, <2>4 DEF Lookup
<1>7. CASE Load(s) BY <1>7, BuildLoaded DEF Kept
<1>8. CASE NotFound(s)
  <2>1. phase[s] = "notFound" /\ Goto(s, "returned") BY <1>8 DEF NotFound
  <2>2. PassesOn(phase[s], "returned")
        BY <2>1 DEF PassesOn, Phase, Foldered, Made, Early, Over
  <2> QED BY <1>8, <2>1, <2>2, <1>e DEF NotFound, storeVars
<1>9. CASE Serve(s)
  <2>1. phase[s] = "serve" /\ Talk(s, "returned0") BY <1>9 DEF Serve
  <2>2. PassesOn(phase[s], "returned0")
        BY <2>1 DEF PassesOn, Phase, Foldered, Made, Early, Over
  <2> QED BY <1>9, <2>1, <2>2, <1>f DEF Serve, storeVars
<1>10. CASE Release(s)
  <2>1. phase[s] \in {"returned", "returned0"} /\ phase' = phase BY <1>10 DEF Release
  <2>2. Goto(s, phase[s]) BY <2>1, <1>a DEF Goto, FolderInv, LocalTypes
  <2>3. PassesOn(phase[s], phase[s])
        BY <2>1 DEF PassesOn, Phase, Foldered, Made, Early, Over
  <2> QED BY <1>10, <2>2, <2>3, <1>e DEF Release, storeVars
<1>11. CASE Shadow(s)
  <2>1. phase[s] = "shadow" BY <1>11 DEF Shadow
  <2>2. PassesOn(phase[s], "shadowFolders")
        BY <2>1 DEF PassesOn, Phase, Exchanging, Foldered, Made, Early, Over
  <2> QED BY <1>11, <2>1, <2>2, <1>e, <1>g DEF Shadow, storeVars, Over
<1>12. CASE ShadowLoop(s)
  <2>1. phase[s] \in {"shadowFolders", "shadowFiles"} BY <1>12 DEF ShadowLoop
  <2>2. \A p \in {"shadowFiles", "done"} : PassesOn(phase[s], p)
        BY <2>1 DEF PassesOn, Phase, Exchanging, Foldered, Made, Early, Over
  <2> QED BY <1>12, <2>1, <2>2, <1>f, <1>g DEF ShadowLoop, storeVars, Over
<1>13. CASE ClientLost(s)
  <2>1. phase[s] \in Exchanging /\ Goto(s, "returned") BY <1>13 DEF ClientLost
  <2>2. PassesOn(phase[s], "returned")
        BY <2>1 DEF PassesOn, Exchanging, Phase, Foldered, Made, Early, Over
  <2> QED BY <1>13, <2>1, <2>2, <1>e DEF ClientLost, storeVars
<1>14. CASE Failing(s)
  <2>1. phase[s] = "failing" BY <1>14 DEF Failing
  <2>2. PICK p \in {"failing", "returned"} : Goto(s, p)
    <3>1. phase' = phase => Goto(s, "failing") BY <2>1, <1>a DEF Goto, FolderInv, LocalTypes
    <3> QED BY <1>14, <3>1 DEF Failing
  <2>3. PassesOn(phase[s], p)
        BY <2>1, <2>2 DEF PassesOn, Phase, Foldered, Made, Early, Over
  <2> QED BY <1>14, <2>2, <2>3, <1>e DEF Failing, storeVars
<1>15. CASE Finish(s)
  <2>1. phase[s] \in {"returned", "returned0"} /\ Goto(s, "ended") BY <1>15 DEF Finish
  <2>2. /\ entry'[s] = None /\ loaded'[s] = None
        /\ \A t \in Session \ {s} : gen'[t] = gen[t] /\ out'[t] = out[t] /\ entry'[t] = entry[t]
                                    /\ loaded'[t] = loaded[t]
        BY <1>15, <1>a DEF Finish, FolderInv, LocalTypes
  <2>3. BuildCalmFrom(s, "ended")
        BY <2>1, <2>2 DEF BuildCalmFrom, Phase, Foldered, Made, Early, Over
  <2> QED BY <1>15, <2>1, <2>2, <2>3, BuildCalm DEF Finish, Kept
<1> QED BY <1>1, <1>2, <1>3, <1>4, <1>5, <1>6, <1>7, <1>8, <1>9, <1>10, <1>11, <1>12, <1>13,
           <1>14, <1>15 DEF SessionStep, ConfigureStep, InferenceStep, ShadowStep

\* ... and of the server.
LEMMA BuildInvNext ==
  ASSUME ServerInv, [Next]_vars
  PROVE  BuildInv'
<1>1. CASE UNCHANGED vars
  <2>1. UNCHANGED <<phase, folder, gen, out, entry, loaded, configured, uploaded, cwd, dirAt,
                    files, up, disturbed>>
        BY <1>1 DEF vars, storeVars, localVars, listVars, diskVars, processVars
  <2> QED BY <2>1 DEF ServerInv, BuildInv, DirsOK, EntriesOK, Chain, OwnDir, Undisturbed,
                      ConfigAt, Sound, LoadedAt, Found, Sole, Makers, Building
<1>2. ASSUME NEW s \in Session, Connect(s) PROVE BuildInv'
  <2>1. phase[s] = "new" /\ Goto(s, "accepted") BY <1>2 DEF Connect
  <2>2. PassesOn(phase[s], "accepted")
        BY <2>1 DEF PassesOn, Phase, Exchanging, Foldered, Made, Early, Over
  <2> QED BY <1>2, <2>1, <2>2, BuildPasses
          DEF Connect, storeVars, storeKept, localVars, listVars, diskVars, processVars
<1>3. ASSUME NEW s \in Session, SessionStep(s) PROVE BuildInv' BY <1>3, SessionBuilds
<1>4. CASE Crash BY <1>4, BuildEnds DEF Crash
<1>5. CASE Restart BY <1>5, BuildRestarts
<1>6. CASE Idle BY <1>1, <1>6 DEF Idle
<1> QED BY <1>1, <1>2, <1>3, <1>4, <1>5, <1>6 DEF Next

\* So it is an invariant of the server.
LEMMA SpecServer == Spec => []ServerInv
<1>1. Init => ServerInv BY FolderInvInit, ListInvInit, BuildInvInit DEF ServerInv
<1>2. ServerInv /\ [Next]_vars => ServerInv'
      BY FolderInvNext, ListInvNext, BuildInvNext DEF ServerInv
<1> QED BY <1>1, <1>2, PTL DEF Spec

\* A listed model is made from the files its own client uploaded, for any number
\* of clients compiling in the one working directory, crashes and restarts, as
\* long as no other client saves under its name; and in its own dimensions, when
\* no other compilation shared the working directory.
THEOREM ListedModelsSound == Spec => []ListedAsUploaded
<1>1. ServerInv => ListedAsUploaded
  <2> SUFFICES ASSUME ServerInv, NEW e \in ToSet(configured) \union ToSet(uploaded)
               PROVE  /\ e.from \in Session \ disturbed => e.out = e.from
                      /\ Makers(e.name) = {e.from} =>
                           LET d == dirAt[e.name]
                           IN /\ d # None /\ files[d].lib # None
                              /\ files[d].lib.weights = e.from
                              /\ e.from \notin disturbed => files[d].lib.dims = e.from
      BY DEF ListedAsUploaded
  <2>1. e \in Model /\ Sound(e)
        BY DEF ServerInv, FolderInv, StoreTypes, ToSet, BuildInv, EntriesOK
  <2>2. Makers(e.name) = {e.from} => dirAt[e.name] = e.from /\ e.from # None
        BY <2>1, EntryLeads, NamesDiffer
  <2> QED BY <2>1, <2>2, EntryLeads DEF Sound
<1> QED BY <1>1, SpecServer, PTL

\* An inference session loads the library that its entry describes, although it
\* reads the entry and the library in two steps, as long as no other client
\* saves that name.
THEOREM LoadedModelsMatch == Spec => []LoadedAsListed
<1>1. ServerInv => LoadedAsListed
      BY DEF ServerInv, BuildInv, EntriesOK, LoadedAt, LoadedAsListed
<1> QED BY <1>1, SpecServer, PTL

\* The list in memory and the configuration files on disk agree at every step of
\* every session, so that a restart at any moment loses no listed model and lists
\* none without library, as long as no other client has begun to save its name.
THEOREM CrashLosesNoModel == Spec => []DiskAndListAgree
<1>1. ServerInv => DiskAndListAgree
  <2> SUFFICES ASSUME ServerInv, up = "up" PROVE DiskAndListAgree BY DEF DiskAndListAgree
  <2>a. EntriesOK /\ DirsOK /\ LocalTypes /\ StoreTypes /\ FolderInv
        BY DEF ServerInv, BuildInv, FolderInv
  <2>1. ASSUME NEW e \in ToSet(configured), Makers(e.name) \subseteq {e.from}
        PROVE  e.name \in OnDisk /\ DiskEntry(e.name) = e
    <3>1. e \in Model /\ Sound(e) /\ e.name \in SaveName
          BY <2>a DEF StoreTypes, ToSet, EntriesOK
    <3>2. /\ dirAt[e.name] = e.from /\ e.from # None
          /\ files[e.from].config = [from |-> e.from, out |-> e.out]
          /\ files[e.from].config # None
          BY <3>1, <2>1, EntryLeads, NamesDiffer
    <3>3. e.name \in OnDisk BY <3>1, <3>2 DEF OnDisk
    <3>4. DiskEntry(e.name) = EntryOf(e.name, e.from, e.out) BY <3>2 DEF DiskEntry
    <3>5. EntryOf(e.name, e.from, e.out) = e BY <3>1 DEF EntryOf, Model
    <3> QED BY <3>3, <3>4, <3>5
  <2>2. ASSUME NEW n \in OnDisk, Makers(n) \subseteq {DiskEntry(n).from}
        PROVE  /\ files[dirAt[n]].lib # None
               /\ \/ DiskEntry(n) \in ToSet(configured)
                  \/ DiskEntry(n).from \in Session /\ phase[DiskEntry(n).from] = "list"
    <3> PICK d : d = dirAt[n] OBVIOUS
    <3>1. n \in SaveName /\ n \in Folder /\ d # None /\ d \in Maker /\ files[d].config # None
          BY <2>a DEF OnDisk, StoreTypes, Folder
    <3>2. PathAt(n) BY <2>a, <3>1 DEF FolderInv, FolderParts
    <3>3. /\ DiskEntry(n).from = files[d].config.from
          /\ DiskEntry(n) = EntryOf(n, files[d].config.from, files[d].config.out)
          BY DEF DiskEntry, EntryOf
    <3>4. CASE d \in Session
      <4>1. folder[d] = n BY <3>2, <3>4 DEF PathAt
      <4>2. d = DiskEntry(n).from BY <4>1, <3>4, <2>2 DEF Makers
      <4>3. Sole(d) BY <4>1, <4>2, <2>2 DEF Sole, Makers
      <4>4. folder[d] # None BY <4>1, <3>1, NamesDiffer
      <4>5. OwnDir(d) BY <2>a, <3>4 DEF DirsOK
      <4>6. files[d].lib # None BY <3>1, <4>3, <4>4, <4>5 DEF OwnDir
      <4>7. phase[d] = "list" \/ EntryOf(n, d, files[d].config.out) \in ToSet(configured)
            BY <3>1, <4>1, <4>3, <4>4, <4>5 DEF OwnDir
      <4> QED BY <3>3, <3>4, <4>2, <4>6, <4>7
    <3>5. CASE d \in Listed
      <4>1. d = n /\ n \in Listed /\ n \notin Session BY <3>2, <3>5, NamesDiffer DEF PathAt
      <4>2. Found(n) BY <2>a, <4>1 DEF EntriesOK
      <4>3. files[n] = Compiled(n) BY <4>1, <4>2 DEF Found
      <4>4. DiskEntry(n) = EntryOf(n, n, n) /\ DiskEntry(n).from = n
            BY <3>3, <4>1, <4>3 DEF Compiled
      <4>5. Makers(n) = {} BY <2>2, <4>1, <4>4 DEF Makers
      <4>6. DiskEntry(n) \in ToSet(configured) BY <4>2, <4>4, <4>5 DEF Found
      <4>7. files[n].lib # None
        <5>1. [weights |-> n, dims |-> n] \in Library BY <4>1 DEF Library, Maker
        <5> QED BY <5>1, <4>3, RecordAssumption DEF Compiled
      <4> QED BY <4>1, <4>6, <4>7
    <3> QED BY <3>1, <3>4, <3>5 DEF Maker
  <2> QED BY <2>1, <2>2 DEF DiskAndListAgree
<1> QED BY <1>1, SpecServer, PTL
===============================================================================
