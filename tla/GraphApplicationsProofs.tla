------------------------ MODULE GraphApplicationsProofs ------------------------
(***************************************************************************)
(* Theorems about LiveStitch for every set of options and every number of  *)
(* parameters, calls and contexts: types, the tables frames use, and what  *)
(* is left of a context that has been released; about OpenCVNodes for all  *)
(* sizes and values of arguments: what is verified runs, and uses what it  *)
(* was given; and about the application that uses one of LiveStitch,       *)
(* OpenCVNodes and NeuralNodes.                                            *)
(***************************************************************************)
EXTENDS MCGraphApplications, NeuralNodesProofs, TLAPS

\* The groups that stand for objects of their own: "computed" is a point in
\* time, "sections" are parts of the tiles.
Object == Group \ {"computed", "sections"}

\* A handle points only to what has not been released.
HeldInv ==
  /\ \A g \in at \intersect Object : held[g] >= 1
  /\ life # "none" => contexts >= 1

\* The host's table is the current one, or one of the exceptions of
\* TablesCurrent; so is the device's.
CamerasGood(t) ==
  t = CurrentCameras \/ imported \/ (SetupLoad /\ t.from \in {"files", "several"})
OverlaysGood(t) ==
  \/ t = CurrentOverlays
  \/ ~opt.cpu /\ t.from = "cameras"
  \/ ~opt.cpu /\ SetupLoad /\ t = Mixed

\* What lsInitialize leaves for lsReinitialize to work with.
InitInv ==
  /\ "initData" \in at => ~opt.cpu
  /\ flags.initialized =>
       /\ "initData" \in at => init.built \/ SetupLoad
       /\ conf.ovl > 0 => "overlay" \in at

\* A flag that is not raised vouches for its table, on the host and on the device.
TablesInv ==
  flags.initialized =>
    /\ ~flags.required => ~flags.rig /\ ~flags.cam /\ ~flags.ovl
    /\ ~flags.rig /\ ~flags.cam => CamerasGood(host.cam) /\ CamerasGood(dev.cam)
    /\ ~flags.rig /\ ~flags.ovl /\ conf.ovl > 0 =>
         OverlaysGood(host.ovl) /\ OverlaysGood(dev.ovl)

\* With one lsInitialize and one configuration of each kind, the handle points
\* to everything that is held.
Once(g) == (g = "cameraPar" => conf.cam <= 1) /\ (g = "overlayPar" => conf.ovl <= 1)
ExactInv ==
  /\ held["computed"] = 0 /\ held["sections"] = 0
  /\ life \in {"live", "ending"} /\ inits <= 1 =>
       \A g \in Object : Once(g) => held[g] = IF g \in at THEN 1 ELSE 0

\* Where the pointers come from.
OriginInv ==
  /\ "context" \in at => vxContext = "own"
  /\ "cameraPar" \in at => conf.cam > 0
  /\ "overlayPar" \in at => conf.ovl > 0
  /\ inits = 0 => at \subseteq {"context", "cameraPar", "overlayPar"} /\ ~flags.initialized
  /\ inits <= 1 /\ flags.initialized /\ "tiles" \in at => "sections" \in at

IInv == /\ StitchTypeOK /\ HeldInv /\ InitInv /\ TablesInv /\ ExactInv /\ OriginInv
-------------------------------------------------------------------------------
\* Eighteen of the groups are made by lsInitialize, in an order of their own.
LEMMA StepsInGroup ==
  /\ Len(Steps) = 20 /\ \A i \in 1..20 : Steps[i] \in Group
  /\ \A i \in 1..20 : Steps[i] \notin {"cameraPar", "overlayPar"}
  /\ Steps[4] = "overlay" /\ Steps[7] = "tiles" /\ Steps[9] = "sections"
BY DEF Steps, Group

\* What a call of lsInitialize makes, however far it gets.
LEMMA MadeFacts ==
  ASSUME NEW n \in 0..Len(Steps), NEW off
  PROVE  /\ Made(n, off) \subseteq Group \ {"cameraPar", "overlayPar"}
         /\ "initData" \in Made(n, off) => ~opt.cpu
         /\ "context" \in Made(n, off) => vxContext = "none"
<1>1. \A i \in 1..n : i \in 1..20
  BY StepsInGroup
<1>2. Made(n, off) \subseteq Group \ {"cameraPar", "overlayPar"}
  BY <1>1, StepsInGroup DEF Made
<1>3. Made(n, off) \subseteq Wanted(off)
  BY DEF Made
<1>4. "initData" \in Wanted(off) => ~opt.cpu
  BY DEF Wanted, ImageObjects, EncodeObjects, LensObjects, TableObjects
<1>5. "context" \in Wanted(off) => vxContext = "none"
  BY DEF Wanted, ImageObjects, EncodeObjects, LensObjects, TableObjects
<1> QED BY <1>2, <1>3, <1>4, <1>5

\* What a call that succeeds is sure to have made.
LEMMA MadeComplete ==
  ASSUME NEW off
  PROVE  /\ conf.ovl > 0 => "overlay" \in Made(Len(Steps), off)
         /\ "tiles" \in Made(Len(Steps), off) => "sections" \in Made(Len(Steps), off)
<1>1. \A i \in 1..20 : Steps[i] \in Wanted(off) => Steps[i] \in Made(20, off)
  BY DEF Made
<1>2. conf.ovl > 0 => "overlay" \in Wanted(off)
  BY DEF Wanted, ImageObjects
<1>3. "tiles" \in Wanted(off) => opt.tiles
  BY DEF Wanted, ImageObjects, EncodeObjects, LensObjects, TableObjects
<1>4. opt.tiles => "sections" \in Wanted(off)
  BY DEF Wanted, EncodeObjects
<1>5. Made(20, off) \subseteq Wanted(off)
  BY DEF Made
<1> QED BY <1>1, <1>2, <1>3, <1>4, <1>5, StepsInGroup

-------------------------------------------------------------------------------
\* The objects, their pointers and what they say of each other, after what both
\* outcomes of lsInitialize have in common.
LEMMA CreateKeeps ==
  ASSUME StitchAssumption, IInv, life = "live", ~flags.initialized,
         contexts + inits <= MaxInits,
         NEW n \in 0..Len(Steps), NEW off, CreateObjects(Made(n, off))
  PROVE  /\ held' \in [Group -> Nat] /\ at' \subseteq Group
         /\ vxContext' \in {"none", "own", "external"}
         /\ init' \in [built : BOOLEAN, rig : Version, cam : Version]
         /\ inits' \in 0..MaxInits
         /\ HeldInv' /\ ExactInv'
         /\ "initData" \in at' => ~opt.cpu /\ (init'.built \/ SetupLoad)
         /\ at' \subseteq at \union Made(n, off)
         /\ Made(n, off) \ {"overlayLens", "lens"} \subseteq at'
         /\ "context" \in at' => vxContext' = "own"
<1> DEFINE made == Made(n, off)
<1>0. StitchTypeOK /\ HeldInv /\ InitInv /\ ExactInv /\ OriginInv
  BY DEF IInv
<1>1. /\ made \subseteq Group \ {"cameraPar", "overlayPar"}
      /\ "initData" \in made => ~opt.cpu
      /\ "context" \in made => vxContext = "none"
  BY MadeFacts
<1> HIDE DEF made
<1>2. /\ held' = [g \in Group |-> held[g] + (IF g \in made \ {"computed", "sections"} THEN 1 ELSE 0)
                                            - (IF g \in Deleted(made) THEN 1 ELSE 0)]
      /\ at' = ((at \ {"initData"}) \union made) \ Deleted(made)
      /\ vxContext' = IF "context" \in made THEN "own" ELSE vxContext
      /\ init' = IF "initData" \in made
                 THEN [built |-> ~SetupFilesFound, rig |-> par.rig, cam |-> par.cam]
                 ELSE [init EXCEPT !.built = FALSE]
      /\ inits' = inits + 1
      /\ UNCHANGED <<life, opt, conf, par, dangling, contexts>>
  BY DEF CreateObjects, made
<1>3. /\ Deleted(made) \subseteq {"overlayLens", "lens"}
      /\ "overlayLens" \in Deleted(made) => "overlayLens" \in made
      /\ "lens" \in Deleted(made) => "lens" \in at \union made
  BY DEF Deleted
<1>4. /\ held \in [Group -> Nat] /\ at \subseteq Group /\ inits \in Nat /\ contexts \in Nat
      /\ contexts >= 1 /\ vxContext \in {"none", "own", "external"} /\ MaxInits \in Nat
      /\ par.rig \in Version /\ par.cam \in Version
      /\ init \in [built : BOOLEAN, rig : Version, cam : Version]
  BY <1>0 DEF StitchTypeOK, HeldInv, StitchAssumption
<1>5. {"overlayLens", "lens"} \subseteq Object
  BY DEF Object, Group, Steps
<1>6. held' \in [Group -> Nat]
  <2> SUFFICES ASSUME NEW g \in Group
               PROVE  held[g] + (IF g \in made \ {"computed", "sections"} THEN 1 ELSE 0)
                              - (IF g \in Deleted(made) THEN 1 ELSE 0) \in Nat
    BY <1>2
  <2>1. held[g] \in Nat
    BY <1>4
  <2>2. CASE g \notin Deleted(made)
    BY <2>1, <2>2
  <2>3. CASE g \in Deleted(made) /\ g \in made
    BY <2>1, <2>3, <1>3
  <2>4. CASE g \in Deleted(made) /\ g \notin made
    BY <2>1, <2>4, <1>3, <1>5, <1>0 DEF HeldInv
  <2> QED BY <2>2, <2>3, <2>4
<1>7. at' \subseteq Group /\ at' \subseteq at \union made
  BY <1>1, <1>2, <1>4
<1>8. /\ vxContext' \in {"none", "own", "external"}
      /\ init' \in [built : BOOLEAN, rig : Version, cam : Version]
      /\ inits' \in 0..MaxInits
  <2>1. (~SetupFilesFound) \in BOOLEAN
    OBVIOUS
  <2>2. init' \in [built : BOOLEAN, rig : Version, cam : Version]
    <3> HIDE DEF SetupFilesFound
    <3> QED BY <1>2, <1>4, <2>1
  <2>3. inits' \in 0..MaxInits
    BY <1>2, <1>4
  <2> QED BY <1>2, <1>4, <2>2, <2>3
<1>9. HeldInv'
  <2>1. ASSUME NEW g \in at' \intersect Object PROVE held'[g] >= 1
    <3>1. held[g] \in Nat /\ g \in Group /\ g \notin Deleted(made) /\ g \in at \union made
          /\ g \notin {"computed", "sections"}
      BY <2>1, <1>2, <1>4, <1>1 DEF Object
    <3>2. g \in at => held[g] >= 1
      BY <1>0, <2>1 DEF HeldInv
    <3> QED BY <3>1, <3>2, <1>2
  <2> QED BY <2>1, <1>2, <1>4 DEF HeldInv
<1>10. ExactInv'
  <2>1. held'["computed"] = 0 /\ held'["sections"] = 0
    <3>1. {"computed", "sections"} \subseteq Group
      BY DEF Group, Steps
    <3> QED BY <3>1, <1>0, <1>2, <1>3 DEF ExactInv
  <2>2. ASSUME inits' <= 1, NEW g \in Object, Once(g)
        PROVE  held'[g] = IF g \in at' THEN 1 ELSE 0
    <3>1. inits = 0 /\ at \subseteq {"context", "cameraPar", "overlayPar"}
      BY <2>2, <1>0, <1>2, <1>4 DEF OriginInv
    <3>2. held[g] = IF g \in at THEN 1 ELSE 0
      BY <2>2, <3>1, <1>0 DEF ExactInv
    <3>3. g \in made => g \notin at
      BY <3>1, <1>0, <1>1 DEF OriginInv
    <3>4. g \in Group /\ g \notin {"computed", "sections"}
      BY <2>2 DEF Object
    <3>5. g # "initData" \/ "initData" \notin at
      BY <3>1
    <3>6. g \in Deleted(made) => g \in made /\ g \notin at'
      BY <1>2, <1>3, <3>1
    <3>7. g \in at' <=> (g \in at \/ g \in made) /\ g \notin Deleted(made)
      BY <1>2, <3>5, <3>1
    <3> QED BY <3>2, <3>3, <3>4, <3>6, <3>7, <1>2
  <2>3. \A g : Once(g)' <=> Once(g)
    BY <1>2 DEF Once
  <2> QED BY <2>1, <2>2, <2>3 DEF ExactInv
<1>11. "initData" \in at' => ~opt.cpu /\ (init'.built \/ SetupLoad)
  BY <1>1, <1>2 DEF SetupFilesFound
<1>12. "context" \in at' => vxContext' = "own"
  BY <1>0, <1>2 DEF OriginInv
<1> QED BY <1>6, <1>7, <1>8, <1>9, <1>10, <1>11, <1>12, <1>2, <1>3 DEF made

-------------------------------------------------------------------------------
\* All conjuncts of the invariant, to be expanded.
LEMMA InitOK == ASSUME StitchAssumption, StitchInit PROVE IInv
<1>1. opt \in Options /\ MaxVersion \in Nat /\ MaxInits \in Nat /\ MaxConfigs \in Nat
      /\ MaxContexts \in Nat
  BY DEF StitchAssumption, StitchInit
<1>2. NoTable \in Table /\ Mixed \in Table
  BY <1>1 DEF NoTable, Mixed, Table, Version
<1>3. StitchTypeOK
  <2>1. 0 \in Version /\ 0 \in 0..MaxConfigs /\ 0 \in 0..MaxInits /\ 0 \in 0..MaxContexts
    BY <1>1 DEF Version
  <2>2. /\ conf \in [cam : 0..MaxConfigs, ovl : 0..MaxConfigs, out : BOOLEAN]
        /\ par \in [rig : Version, cam : Version, ovl : Version]
        /\ init \in [built : BOOLEAN, rig : Version, cam : Version]
    BY <2>1 DEF StitchInit, NotConfigured, NoParameters, NotBuilt
  <2>3. flags \in [initialized : BOOLEAN, scheduled : BOOLEAN, required : BOOLEAN,
                   rig : BOOLEAN, cam : BOOLEAN, ovl : BOOLEAN]
    BY DEF StitchInit, NoFlags
  <2>4. /\ host \in [cam : Table, ovl : Table] /\ dev \in [cam : Table, ovl : Table]
        /\ setup \in [sizes : Table, tables : Table]
    BY <1>2 DEF StitchInit, NoTables
  <2> QED BY <1>1, <2>1, <2>2, <2>3, <2>4 DEF StitchInit, StitchTypeOK
<1>4. HeldInv /\ InitInv /\ TablesInv /\ OriginInv
  BY DEF StitchInit, HeldInv, InitInv, TablesInv, OriginInv, NoFlags
<1>5. ExactInv
  BY DEF StitchInit, ExactInv, Object, Group, Steps
<1> QED BY <1>3, <1>4, <1>5 DEF IInv

\* The steps that leave tables and objects alone, or set parameters.
LEMMA SettersKeep ==
  ASSUME StitchAssumption, IInv,
         \/ lsSetOpenVXContext \/ lsSetOutputConfig
         \/ lsSetRigParams \/ lsSetCameraParams \/ lsSetOverlayParams
         \/ lsImportConfiguration \/ lsScheduleFrame \/ lsWaitForCompletion
  PROVE  IInv'
<1> USE DEF IInv
<1>1. UNCHANGED <<opt, held, at, inits, life, contexts, host, dev, init, dangling, setup>>
      /\ (flags'.initialized <=> flags.initialized)
  BY DEF lsSetOpenVXContext, lsSetOutputConfig, lsSetRigParams, lsSetCameraParams,
     lsSetOverlayParams, lsImportConfiguration, lsScheduleFrame, lsWaitForCompletion,
     tableVars, objectVars, outside, StitchTypeOK
<1>2. /\ conf'.cam = conf.cam /\ conf'.ovl = conf.ovl
      /\ vxContext' = vxContext \/ (vxContext = "none" /\ vxContext' = "external")
  BY DEF lsSetOpenVXContext, lsSetOutputConfig, lsSetRigParams, lsSetCameraParams,
     lsSetOverlayParams, lsImportConfiguration, lsScheduleFrame, lsWaitForCompletion,
     StitchTypeOK
<1>3. HeldInv' /\ InitInv' /\ ExactInv' /\ OriginInv'
  BY <1>1, <1>2 DEF HeldInv, InitInv, ExactInv, OriginInv, Once, SetupLoad
<1>4. StitchTypeOK'
  <2>1. /\ UNCHANGED <<opt, held, at, inits, life, contexts, host, dev, init, dangling, setup>>
        /\ vxContext' \in {"none", "own", "external"}
    BY <1>1, <1>2 DEF StitchTypeOK
  <2>2. conf' \in [cam : 0..MaxConfigs, ovl : 0..MaxConfigs, out : BOOLEAN]
    BY DEF StitchTypeOK, lsSetOpenVXContext, lsSetOutputConfig, lsSetRigParams, lsSetCameraParams,
       lsSetOverlayParams, lsImportConfiguration, lsScheduleFrame, lsWaitForCompletion
  <2>3. par' \in [rig : Version, cam : Version, ovl : Version]
    <3>1. \A v \in Version : v < MaxVersion => v + 1 \in Version
      BY DEF Version, StitchAssumption
    <3> QED BY <3>1 DEF StitchTypeOK, lsSetOpenVXContext, lsSetOutputConfig, lsSetRigParams,
            lsSetCameraParams, lsSetOverlayParams, lsImportConfiguration, lsScheduleFrame,
            lsWaitForCompletion
  <2>4. flags' \in [initialized : BOOLEAN, scheduled : BOOLEAN, required : BOOLEAN,
                    rig : BOOLEAN, cam : BOOLEAN, ovl : BOOLEAN]
    BY DEF StitchTypeOK, lsSetOpenVXContext, lsSetOutputConfig, lsSetRigParams, lsSetCameraParams,
       lsSetOverlayParams, lsImportConfiguration, lsScheduleFrame, lsWaitForCompletion, tableVars
  <2>5. imported' \in BOOLEAN
    BY DEF StitchTypeOK, lsSetOpenVXContext, lsSetOutputConfig, lsSetRigParams, lsSetCameraParams,
       lsSetOverlayParams, lsImportConfiguration, lsScheduleFrame, lsWaitForCompletion, tableVars
  <2> QED BY <2>1, <2>2, <2>3, <2>4, <2>5 DEF StitchTypeOK
<1>5. TablesInv'
  <2>1. CASE lsSetOpenVXContext \/ lsSetOutputConfig \/ lsScheduleFrame \/ lsWaitForCompletion
    BY <2>1, <1>1, <1>2 DEF TablesInv, lsSetOpenVXContext, lsSetOutputConfig, lsScheduleFrame,
       lsWaitForCompletion, tableVars, CamerasGood, OverlaysGood, CurrentCameras,
       CurrentOverlays, SetupLoad, StitchTypeOK
  <2>2. CASE lsSetRigParams
    BY <2>2, <1>1 DEF TablesInv, lsSetRigParams, StitchTypeOK
  <2>3. CASE lsSetCameraParams
    BY <2>3, <1>1 DEF TablesInv, lsSetCameraParams, StitchTypeOK, OverlaysGood,
       CurrentOverlays, SetupLoad
  <2>4. CASE lsSetOverlayParams
    BY <2>4, <1>1 DEF TablesInv, lsSetOverlayParams, StitchTypeOK, CamerasGood,
       CurrentCameras, SetupLoad
  <2>5. CASE lsImportConfiguration
    BY <2>5, <1>1 DEF TablesInv, lsImportConfiguration, StitchTypeOK, CamerasGood,
       OverlaysGood, CurrentOverlays, SetupLoad
  <2> QED BY <2>1, <2>2, <2>3, <2>4, <2>5
<1> QED BY <1>3, <1>4, <1>5

\* The steps before lsInitialize that make an object.
LEMMA MakersKeep ==
  ASSUME StitchAssumption, IInv,
         lsGetOpenVXContext \/ lsSetCameraConfig \/ lsSetOverlayConfig
  PROVE  IInv'
<1> USE DEF IInv
<1>1. {"context", "cameraPar", "overlayPar"} \subseteq Object
  BY DEF Object, Group, Steps
<1>2. StitchTypeOK'
  BY <1>1 DEF StitchTypeOK, StitchAssumption, lsGetOpenVXContext, lsSetCameraConfig,
     lsSetOverlayConfig, tableVars, objectVars, outside, Version, Object
<1>3. HeldInv'
  BY <1>1 DEF HeldInv, StitchTypeOK, lsGetOpenVXContext, lsSetCameraConfig,
     lsSetOverlayConfig, tableVars, objectVars, outside, Object
<1>4. InitInv'
  BY DEF InitInv, StitchTypeOK, lsGetOpenVXContext, lsSetCameraConfig, lsSetOverlayConfig,
     tableVars, objectVars, outside, SetupLoad, IsValidContextAndNotInitialized
<1>5. TablesInv'
  BY DEF TablesInv, StitchTypeOK, lsGetOpenVXContext, lsSetCameraConfig, lsSetOverlayConfig,
     tableVars, CamerasGood, OverlaysGood, CurrentCameras, CurrentOverlays, SetupLoad,
     IsValidContextAndNotInitialized
<1>6. ExactInv'
  <2>1. CASE lsGetOpenVXContext
    <3>1. "context" \notin at
      BY <2>1 DEF lsGetOpenVXContext, OriginInv
    <3> QED BY <2>1, <3>1, <1>1 DEF lsGetOpenVXContext, ExactInv, Once, tableVars, Object,
            StitchTypeOK
  <2>2. CASE lsSetCameraConfig
    <3>1. conf.cam = 0 => "cameraPar" \notin at
      BY DEF OriginInv
    <3>2. conf.cam \in Nat
      BY DEF StitchTypeOK
    <3> QED BY <2>2, <3>1, <3>2, <1>1 DEF lsSetCameraConfig, ExactInv, Once, tableVars, Object,
            StitchTypeOK
  <2>3. CASE lsSetOverlayConfig
    <3>1. conf.ovl = 0 => "overlayPar" \notin at
      BY DEF OriginInv
    <3>2. conf.ovl \in Nat
      BY DEF StitchTypeOK
    <3> QED BY <2>3, <3>1, <3>2, <1>1 DEF lsSetOverlayConfig, ExactInv, Once, tableVars, Object,
            StitchTypeOK
  <2> QED BY <2>1, <2>2, <2>3
<1>7. OriginInv'
  BY DEF OriginInv, StitchTypeOK, lsGetOpenVXContext, lsSetCameraConfig, lsSetOverlayConfig,
     tableVars
<1> QED BY <1>2, <1>3, <1>4, <1>5, <1>6, <1>7

-------------------------------------------------------------------------------
(***************************************************************************)
(* lsInitialize and lsReinitialize.                                        *)
(***************************************************************************)
LEMMA LoadedFacts ==
  ASSUME StitchAssumption, StitchTypeOK
  PROVE  \A t \in LoadedTables : t \in Table /\ t.from \in {"files", "several"}
<1>1. Mixed \in Table
  BY DEF Mixed, Table, Version, StitchAssumption
<1>2. setup.tables \in Table
  BY DEF StitchTypeOK
<1>3. [setup.tables EXCEPT !.from = "files"] \in Table
  BY <1>2 DEF Table
<1>4. [setup.tables EXCEPT !.from = "files"].from = "files"
  BY <1>2 DEF Table
<1>5. \A t \in LoadedTables : t = [setup.tables EXCEPT !.from = "files"] \/ t = Mixed
  BY DEF LoadedTables
<1>6. Mixed.from = "several"
  BY DEF Mixed
<1> QED BY <1>1, <1>3, <1>4, <1>5, <1>6

\* What a call computes, writes and sets is of its type.
LEMMA TablesTyped ==
  ASSUME StitchAssumption, StitchTypeOK
  PROVE  /\ CurrentCameras \in Table /\ CurrentOverlays \in Table
         /\ NoTable \in Table /\ Mixed \in Table
         /\ DumpedSetup \in [sizes : Table, tables : Table]
<1>1. par.rig \in Version /\ par.cam \in Version /\ par.ovl \in Version /\ 0 \in Version
  BY DEF StitchTypeOK, Version, StitchAssumption
<1>2. CurrentCameras \in Table /\ CurrentOverlays \in Table /\ NoTable \in Table /\ Mixed \in Table
  BY <1>1 DEF CurrentCameras, CurrentOverlays, NoTable, Mixed, Table
<1>3. setup.sizes \in Table
  BY DEF StitchTypeOK
<1> QED BY <1>2, <1>3 DEF DumpedSetup

\* lsInitialize that succeeds.
LEMMA InitializeKeeps == ASSUME StitchAssumption, IInv, lsInitialize PROVE IInv'
<1> USE DEF IInv
<1>1. PICK off \in SUBSET {"gains", "seam", "bands"} :
        /\ CreateObjects(Made(Len(Steps), off))
        /\ \E t \in IF SetupFilesFound THEN LoadedTables ELSE {CurrentCameras} :
             host' = [cam |-> t,
                      ovl |-> IF conf.ovl > 0 THEN CurrentOverlays ELSE NoTable]
  BY DEF lsInitialize
<1>2. PICK t \in IF SetupFilesFound THEN LoadedTables ELSE {CurrentCameras} :
        host' = [cam |-> t, ovl |-> IF conf.ovl > 0 THEN CurrentOverlays ELSE NoTable]
  BY <1>1
<1>3. /\ dev' = host' /\ imported' = FALSE
      /\ flags' = [NoFlags EXCEPT !.initialized = TRUE]
      /\ setup' = IF SetupLoad /\ ~SetupFilesFound THEN DumpedSetup ELSE setup
      /\ life = "live" /\ ~flags.initialized /\ contexts + inits <= MaxInits
  BY DEF lsInitialize, IsValidContextAndNotInitialized
<1>4. UNCHANGED <<life, opt, conf, par, dangling, contexts>> /\ inits' = inits + 1
  BY <1>1 DEF CreateObjects
<1>5. Len(Steps) \in 0..Len(Steps)
  BY StepsInGroup
<1>6. /\ held' \in [Group -> Nat] /\ at' \subseteq Group
      /\ vxContext' \in {"none", "own", "external"}
      /\ init' \in [built : BOOLEAN, rig : Version, cam : Version]
      /\ inits' \in 0..MaxInits
      /\ HeldInv' /\ ExactInv'
      /\ "initData" \in at' => ~opt.cpu /\ (init'.built \/ SetupLoad)
      /\ at' \subseteq at \union Made(Len(Steps), off)
      /\ Made(Len(Steps), off) \ {"overlayLens", "lens"} \subseteq at'
      /\ "context" \in at' => vxContext' = "own"
  BY <1>1, <1>3, <1>5, CreateKeeps
<1>7. /\ conf.ovl > 0 => "overlay" \in Made(Len(Steps), off)
      /\ "tiles" \in Made(Len(Steps), off) => "sections" \in Made(Len(Steps), off)
  BY MadeComplete
<1>8. Made(Len(Steps), off) \subseteq Group \ {"cameraPar", "overlayPar"}
  BY <1>5, MadeFacts
<1>9. flags' = [initialized |-> TRUE, scheduled |-> FALSE, required |-> FALSE,
               rig |-> FALSE, cam |-> FALSE, ovl |-> FALSE]
  BY <1>3 DEF NoFlags
<1>10. t \in Table /\ (t = CurrentCameras \/ (SetupLoad /\ t.from \in {"files", "several"}))
  BY LoadedFacts, TablesTyped DEF SetupFilesFound
<1>11. StitchTypeOK'
  <2>1. host' \in [cam : Table, ovl : Table]
    BY <1>2, <1>10, TablesTyped
  <2>2. setup' \in [sizes : Table, tables : Table]
    BY <1>3, TablesTyped DEF StitchTypeOK
  <2>3. flags' \in [initialized : BOOLEAN, scheduled : BOOLEAN, required : BOOLEAN,
                    rig : BOOLEAN, cam : BOOLEAN, ovl : BOOLEAN]
    BY <1>9
  <2>4. dev' \in [cam : Table, ovl : Table] /\ imported' \in BOOLEAN
    BY <2>1, <1>3
  <2> QED BY <2>1, <2>2, <2>3, <2>4, <1>4, <1>6 DEF StitchTypeOK
<1>12. InitInv'
  BY <1>4, <1>6, <1>7 DEF InitInv, SetupLoad
<1>13. TablesInv'
  BY <1>2, <1>3, <1>4, <1>9, <1>10 DEF TablesInv, CamerasGood, OverlaysGood, CurrentCameras,
     CurrentOverlays, SetupLoad
<1>14. OriginInv'
  <2>1. inits' # 0
    BY <1>4 DEF StitchTypeOK
  <2>2. inits' <= 1 => "tiles" \notin at
    BY <1>4 DEF OriginInv, StitchTypeOK
  <2> QED BY <2>1, <2>2, <1>4, <1>6, <1>7, <1>8 DEF OriginInv
<1> QED BY <1>6, <1>11, <1>12, <1>13, <1>14

\* lsInitialize that fails at any of its steps.
LEMMA InitializeFailsKeeps == ASSUME StitchAssumption, IInv, lsInitializeFails PROVE IInv'
<1> USE DEF IInv
<1>1. PICK off \in SUBSET {"gains", "seam", "bands"}, n \in 0..Len(Steps) :
        /\ CreateObjects(Made(n, off))
        /\ IF SetupLoad /\ ~SetupFilesFound /\ "tables" \in Made(n, off)
           THEN setup' \in {DumpedSetup, [DumpedSetup EXCEPT !.tables = setup.tables],
                            [DumpedSetup EXCEPT !.tables = Mixed]}
           ELSE setup' = setup
  BY DEF lsInitializeFails
<1>2. /\ UNCHANGED <<flags, host, dev, imported>>
      /\ life = "live" /\ ~flags.initialized /\ contexts + inits <= MaxInits
  BY DEF lsInitializeFails, IsValidContextAndNotInitialized
<1>3. UNCHANGED <<life, opt, conf, par, dangling, contexts>> /\ inits' = inits + 1
  BY <1>1 DEF CreateObjects
<1>4. /\ held' \in [Group -> Nat] /\ at' \subseteq Group
      /\ vxContext' \in {"none", "own", "external"}
      /\ init' \in [built : BOOLEAN, rig : Version, cam : Version]
      /\ inits' \in 0..MaxInits
      /\ HeldInv' /\ ExactInv'
      /\ "initData" \in at' => ~opt.cpu /\ (init'.built \/ SetupLoad)
      /\ at' \subseteq at \union Made(n, off)
      /\ "context" \in at' => vxContext' = "own"
  BY <1>1, <1>2, CreateKeeps
<1>5. Made(n, off) \subseteq Group \ {"cameraPar", "overlayPar"}
  BY MadeFacts
<1>6. StitchTypeOK'
  <2>1. setup' \in [sizes : Table, tables : Table]
    <3>1. /\ setup.tables \in Table /\ Mixed \in Table
          /\ DumpedSetup \in [sizes : Table, tables : Table]
      BY TablesTyped DEF StitchTypeOK
    <3> HIDE DEF IInv
    <3> QED BY <3>1, <1>1 DEF IInv, StitchTypeOK
  <2> QED BY <2>1, <1>2, <1>3, <1>4 DEF StitchTypeOK
<1>7. InitInv' /\ TablesInv'
  BY <1>2, <1>3, <1>4 DEF InitInv, TablesInv
<1>8. OriginInv'
  <2>1. inits' # 0
    BY <1>3 DEF StitchTypeOK
  <2> QED BY <2>1, <1>2, <1>3, <1>4, <1>5 DEF OriginInv
<1> QED BY <1>4, <1>6, <1>7, <1>8

\* The tables lsReinitialize computes are good for the flags it clears.
LEMMA NewTablesGood ==
  ASSUME StitchAssumption, IInv, MayReinitialize
  PROVE  /\ NewInit \in [built : BOOLEAN, rig : Version, cam : Version]
         /\ NewInit.built = init.built
         /\ NewTables \in [cam : Table, ovl : Table]
         /\ CamerasOutdated => CamerasGood(NewTables.cam) /\ (NewTables.cam = CurrentCameras
                                   \/ (SetupLoad /\ NewTables.cam.from = "several"))
         /\ OverlaysOutdated => OverlaysGood(NewTables.ovl)
         /\ ~CamerasOutdated => NewTables.cam = host.cam
         /\ ~OverlaysOutdated => NewTables.ovl = host.ovl
<1> USE DEF IInv
<1>1. /\ init \in [built : BOOLEAN, rig : Version, cam : Version]
      /\ par \in [rig : Version, cam : Version, ovl : Version]
      /\ host \in [cam : Table, ovl : Table]
  BY DEF StitchTypeOK
<1>2. /\ NewInit \in [built : BOOLEAN, rig : Version, cam : Version]
      /\ NewInit.built = init.built
      /\ CamerasOutdated /\ "initData" \in at /\ init.built =>
           NewInit.rig = par.rig /\ NewInit.cam = par.cam
  BY <1>1 DEF NewInit
<1>3. /\ flags.initialized /\ ("initData" \in at => ~opt.cpu /\ (init.built \/ SetupLoad))
  BY DEF InitInv, MayReinitialize, IsValidContextAndInitialized
<1>4. \A t \in Table : Maps(t) \in Table
  BY <1>1, <1>2, TablesTyped DEF Maps, Table
<1>5. NewTables \in [cam : Table, ovl : Table]
  BY <1>1, <1>4, TablesTyped DEF NewTables
<1>6. CamerasOutdated => \/ Maps(CurrentCameras) = CurrentCameras
                         \/ SetupLoad /\ Maps(CurrentCameras).from = "several"
  BY <1>2, <1>3 DEF Maps, CurrentCameras, Mixed
<1>7. OverlaysGood(Maps(CurrentOverlays))
  BY <1>2, <1>3 DEF Maps, OverlaysGood, CurrentOverlays
<1> QED BY <1>2, <1>5, <1>6, <1>7 DEF NewTables, CamerasGood

\* lsReinitialize that succeeds.
LEMMA ReinitializeKeeps == ASSUME StitchAssumption, IInv, lsReinitialize PROVE IInv'
<1> USE DEF IInv
<1>1. /\ MayReinitialize /\ init' = NewInit /\ host' = NewTables
      /\ dev' = IF CamerasOutdated \/ OverlaysOutdated THEN host' ELSE dev
      /\ flags' = [flags EXCEPT !.required = FALSE, !.rig = FALSE, !.cam = FALSE, !.ovl = FALSE]
      /\ imported' = (imported /\ ~CamerasOutdated)
      /\ UNCHANGED <<life, opt, conf, vxContext, par, inits, held, at, dangling, setup, contexts>>
  BY DEF lsReinitialize, objectVars, outside
<1>2. /\ flags'.initialized = flags.initialized /\ flags.initialized
      /\ flags' \in [initialized : BOOLEAN, scheduled : BOOLEAN, required : BOOLEAN,
                     rig : BOOLEAN, cam : BOOLEAN, ovl : BOOLEAN]
      /\ imported' \in BOOLEAN
  BY <1>1 DEF StitchTypeOK, MayReinitialize, IsValidContextAndInitialized
<1>3. StitchTypeOK'
  BY <1>1, <1>2, NewTablesGood DEF StitchTypeOK
<1>4. HeldInv' /\ InitInv' /\ ExactInv' /\ OriginInv'
  BY <1>1, <1>2, NewTablesGood DEF HeldInv, InitInv, ExactInv, OriginInv, Once, SetupLoad
<1>5. TablesInv'
  <2>1. /\ CamerasGood(host.cam)' <=> \/ NewTables.cam = CurrentCameras
                                      \/ imported /\ ~CamerasOutdated
                                      \/ SetupLoad /\ NewTables.cam.from \in {"files", "several"}
        /\ OverlaysGood(host.ovl)' <=> OverlaysGood(NewTables.ovl)
    BY <1>1 DEF CamerasGood, OverlaysGood, CurrentCameras, CurrentOverlays, SetupLoad
  <2>2. CamerasGood(host.cam)'
    BY <2>1, <1>2, NewTablesGood, <1>1 DEF TablesInv, CamerasGood, CamerasOutdated
  <2>3. conf.ovl > 0 => OverlaysGood(host.ovl)'
    BY <2>1, <1>2, NewTablesGood, <1>1 DEF TablesInv, OverlaysOutdated, InitInv
  <2>4. CASE CamerasOutdated \/ OverlaysOutdated
    BY <2>2, <2>3, <2>4, <1>1, <1>2 DEF TablesInv, StitchTypeOK, CamerasGood, OverlaysGood
  <2>5. CASE ~(CamerasOutdated \/ OverlaysOutdated)
    <3>1. CamerasGood(dev.cam)' /\ (conf.ovl > 0 => OverlaysGood(dev.ovl)')
      BY <2>5, <1>1, <1>2 DEF TablesInv, InitInv, CamerasOutdated, OverlaysOutdated, CamerasGood,
         OverlaysGood, CurrentCameras, CurrentOverlays, SetupLoad
    <3> QED BY <3>1, <2>2, <2>3, <1>1, <1>2 DEF TablesInv, StitchTypeOK
  <2> QED BY <2>4, <2>5
<1> QED BY <1>3, <1>4, <1>5

\* lsReinitialize that fails half way.
LEMMA ReinitializeFailsKeeps == ASSUME StitchAssumption, IInv, lsReinitializeFails PROVE IInv'
<1> USE DEF IInv
<1>1. PICK cam \in IF CamerasOutdated THEN {host.cam, Mixed, NewTables.cam} ELSE {host.cam},
           ovl \in IF OverlaysOutdated THEN {host.ovl, Mixed, NewTables.ovl} ELSE {host.ovl} :
        /\ host' = [cam |-> cam, ovl |-> ovl]
        /\ dev' \in [cam : {dev.cam, Mixed, cam}, ovl : {dev.ovl, Mixed, ovl}]
        /\ dev'.cam # dev.cam => CamerasOutdated
        /\ dev'.ovl # dev.ovl => OverlaysOutdated
  BY DEF lsReinitializeFails
<1>2. /\ MayReinitialize /\ init' \in {init, NewInit}
      /\ UNCHANGED <<life, opt, conf, vxContext, par, flags, inits, imported, held, at, dangling,
                     setup, contexts>>
  BY DEF lsReinitializeFails, objectVars, outside
<1>3. cam \in Table /\ ovl \in Table /\ dev.cam \in Table /\ dev.ovl \in Table /\ Mixed \in Table
  BY <1>2, NewTablesGood, TablesTyped DEF StitchTypeOK
<1>4. host' \in [cam : Table, ovl : Table] /\ dev' \in [cam : Table, ovl : Table]
  BY <1>1, <1>3
<1>5. StitchTypeOK'
  BY <1>2, <1>4, NewTablesGood DEF StitchTypeOK
<1>6. HeldInv' /\ InitInv' /\ ExactInv' /\ OriginInv'
  BY <1>2, NewTablesGood DEF HeldInv, InitInv, ExactInv, OriginInv, Once, SetupLoad
<1>7. TablesInv'
  <2>1. ~flags.rig /\ ~flags.cam => host'.cam = host.cam /\ dev'.cam = dev.cam
    BY <1>1 DEF CamerasOutdated
  <2>2. ~flags.rig /\ ~flags.ovl => host'.ovl = host.ovl /\ dev'.ovl = dev.ovl
    BY <1>1 DEF OverlaysOutdated
  <2> QED BY <2>1, <2>2, <1>2 DEF TablesInv, CamerasGood, OverlaysGood, CurrentCameras,
          CurrentOverlays, SetupLoad
<1> QED BY <1>5, <1>6, <1>7

-------------------------------------------------------------------------------
(***************************************************************************)
(* The beginning and the end of a context.                                 *)
(***************************************************************************)
LEMMA FreshTyped ==
  ASSUME StitchAssumption, Fresh
  PROVE  /\ conf' \in [cam : 0..MaxConfigs, ovl : 0..MaxConfigs, out : BOOLEAN]
         /\ vxContext' \in {"none", "own", "external"}
         /\ par' \in [rig : Version, cam : Version, ovl : Version]
         /\ flags' \in [initialized : BOOLEAN, scheduled : BOOLEAN, required : BOOLEAN,
                        rig : BOOLEAN, cam : BOOLEAN, ovl : BOOLEAN]
         /\ host' \in [cam : Table, ovl : Table] /\ dev' \in [cam : Table, ovl : Table]
         /\ init' \in [built : BOOLEAN, rig : Version, cam : Version]
         /\ at' = {} /\ dangling' = {} /\ inits' \in 0..MaxInits /\ inits' = 0
         /\ imported' \in BOOLEAN /\ ~flags'.initialized
<1>1. 0 \in Version /\ 0 \in 0..MaxConfigs /\ 0 \in 0..MaxInits
  BY DEF Version, StitchAssumption
<1>2. NoTable \in Table
  BY <1>1 DEF NoTable, Table
<1>3. /\ conf' \in [cam : 0..MaxConfigs, ovl : 0..MaxConfigs, out : BOOLEAN]
      /\ par' \in [rig : Version, cam : Version, ovl : Version]
      /\ init' \in [built : BOOLEAN, rig : Version, cam : Version]
  BY <1>1 DEF Fresh, NotConfigured, NoParameters, NotBuilt
<1>4. flags' \in [initialized : BOOLEAN, scheduled : BOOLEAN, required : BOOLEAN,
                  rig : BOOLEAN, cam : BOOLEAN, ovl : BOOLEAN] /\ ~flags'.initialized
  BY DEF Fresh, NoFlags
<1>5. host' \in [cam : Table, ovl : Table] /\ dev' \in [cam : Table, ovl : Table]
  BY <1>2 DEF Fresh, NoTables
<1> QED BY <1>1, <1>3, <1>4, <1>5 DEF Fresh

\* What is released has been held.
LEMMA HeldAfterTyped ==
  ASSUME StitchTypeOK, HeldInv, NEW groups, groups \subseteq Released
  PROVE  /\ groups \subseteq at \intersect Object
         /\ HeldAfter(groups) \in [Group -> Nat]
         /\ \A g \in Group : HeldAfter(groups)[g] = held[g] - (IF g \in groups THEN 1 ELSE 0)
<1>1. groups \subseteq at \intersect Object
  BY DEF Released, Object, StitchTypeOK
<1>2. ASSUME NEW g \in Group PROVE held[g] - (IF g \in groups THEN 1 ELSE 0) \in Nat
  <2>1. held[g] \in Nat
    BY DEF StitchTypeOK
  <2>2. g \in groups => held[g] >= 1
    BY <1>1 DEF HeldInv
  <2> QED BY <2>1, <2>2
<1> QED BY <1>1, <1>2 DEF HeldAfter

\* A context is new, or is gone.
LEMMA EndsKeep ==
  ASSUME StitchAssumption, IInv, lsCreateContext \/ lsReleaseContext \/ ProcessEnds
  PROVE  IInv'
<1> USE DEF IInv
<1>1. Fresh
  BY DEF lsCreateContext, lsReleaseContext, ProcessEnds, Ended
<1>2. held' \in [Group -> Nat]
  <2>1. Released \subseteq Released
    OBVIOUS
  <2>2. lsReleaseContext => held' = HeldAfter(Released)
    BY DEF lsReleaseContext
  <2>3. [g \in Group |-> 0] \in [Group -> Nat]
    OBVIOUS
  <2> QED BY <2>1, <2>2, <2>3, HeldAfterTyped DEF lsCreateContext, ProcessEnds
<1>3. /\ opt' \in Options /\ UNCHANGED setup
      /\ life' \in {"none", "live", "corrupt"} /\ contexts' \in 0..MaxContexts
      /\ life' # "none" => contexts' >= 1
  <2>1. CASE lsCreateContext
    BY <2>1 DEF lsCreateContext, StitchTypeOK, StitchAssumption
  <2>2. CASE lsReleaseContext \/ ProcessEnds
    BY <2>2 DEF lsReleaseContext, ProcessEnds, Ended, StitchTypeOK, HeldInv
  <2> QED BY <2>1, <2>2
<1>4. StitchTypeOK'
  BY <1>1, <1>2, <1>3, FreshTyped DEF StitchTypeOK
<1>5. HeldInv' /\ InitInv' /\ TablesInv' /\ OriginInv'
  BY <1>1, <1>3, FreshTyped DEF HeldInv, InitInv, TablesInv, OriginInv
<1>6. ExactInv'
  <2>1. {"computed", "sections"} \subseteq Group \ Released
    BY DEF Released, Group, Steps
  <2>2. Object \subseteq Group
    BY DEF Object
  <2>3. CASE lsCreateContext \/ ProcessEnds
    BY <2>1, <2>2, <2>3, <1>1, FreshTyped DEF lsCreateContext, ProcessEnds, ExactInv
  <2>4. CASE lsReleaseContext
    <3>1. life' \notin {"live", "ending"}
      BY <2>4 DEF lsReleaseContext, Ended
    <3>2. held' = HeldAfter(Released)
      BY <2>4 DEF lsReleaseContext
    <3>3. held'["computed"] = 0 /\ held'["sections"] = 0
      BY <3>2, <2>1 DEF HeldAfter, ExactInv
    <3> QED BY <3>1, <3>3 DEF ExactInv
  <2> QED BY <2>3, <2>4
<1> QED BY <1>4, <1>5, <1>6

\* lsReleaseContext that fails half way.
LEMMA ReleaseFailsKeeps == ASSUME StitchAssumption, IInv, lsReleaseContextFails PROVE IInv'
<1> USE DEF IInv
<1>0. life \in {"live", "ending"}
  BY DEF lsReleaseContextFails
<1>1. ASSUME NEW done \in BeforeFailure,
             /\ held' = HeldAfter(done \intersect Released)
             /\ at' = at \ done
             /\ dangling' = dangling \union (done \intersect Released)
             /\ life' = IF dangling = {} THEN "ending" ELSE "corrupt"
             /\ UNCHANGED <<opt, conf, vxContext, par, flags, host, dev, init, inits,
                            imported, outside>>
      PROVE  IInv'
  <2>1. done \subseteq NotCleared
    BY DEF BeforeFailure, NotCleared
  <2>2. done \intersect Released \subseteq Released
    OBVIOUS
  <2>3. /\ held' \in [Group -> Nat]
        /\ \A g \in Group : held'[g] = held[g] - (IF g \in done \intersect Released THEN 1 ELSE 0)
    BY <1>1, <2>2, HeldAfterTyped
  <2>4. {"computed", "sections", "initData", "overlay", "tiles"} \intersect done = {}
    BY <2>1 DEF NotCleared
  <2>5. done \intersect Released = done \intersect at
    BY <2>1 DEF NotCleared, Released
  <2>6. StitchTypeOK'
    BY <1>1, <2>1, <2>3 DEF StitchTypeOK, outside
  <2>7. HeldInv'
    <3>1. ASSUME NEW g \in at' \intersect Object PROVE held'[g] >= 1
      <4>1. g \in at \intersect Object /\ g \in Group /\ g \notin done
        BY <3>1, <1>1 DEF Object
      <4>2. held[g] >= 1 /\ held[g] \in Nat
        BY <4>1 DEF HeldInv, StitchTypeOK
      <4>3. held'[g] = held[g] - 0
        BY <4>1, <2>3
      <4> QED BY <4>2, <4>3
    <3>2. contexts' = contexts /\ contexts >= 1
      BY <1>0, <1>1 DEF HeldInv, outside
    <3> QED BY <3>1, <3>2 DEF HeldInv
  <2>8. InitInv' /\ TablesInv' /\ OriginInv'
    BY <1>1, <2>4 DEF InitInv, TablesInv, OriginInv, SetupLoad, CamerasGood, OverlaysGood,
       CurrentCameras, CurrentOverlays
  <2>9. ExactInv'
    <3>1. {"computed", "sections"} \subseteq Group
      BY DEF Group, Steps
    <3>2. held'["computed"] = 0 /\ held'["sections"] = 0
      BY <3>1, <2>3, <2>4 DEF ExactInv
    <3>3. ASSUME inits' <= 1, NEW g \in Object, Once(g)' PROVE held'[g] = IF g \in at' THEN 1 ELSE 0
      <4>1. held[g] = IF g \in at THEN 1 ELSE 0
        BY <3>3, <1>0, <1>1 DEF ExactInv, Once
      <4>2. g \in Group /\ held'[g] = held[g] - (IF g \in done \intersect at THEN 1 ELSE 0)
        BY <3>3, <2>3, <2>5 DEF Object
      <4>3. CASE g \in at \intersect done
        BY <4>1, <4>2, <4>3, <1>1
      <4>4. CASE g \notin at
        BY <4>1, <4>2, <4>4, <1>1
      <4>5. CASE g \in at \ done
        BY <4>1, <4>2, <4>5, <1>1
      <4> QED BY <4>3, <4>4, <4>5
    <3> QED BY <3>2, <3>3 DEF ExactInv
  <2> QED BY <2>6, <2>7, <2>8, <2>9
<1>2. ASSUME NEW last \in {{}, {"graph"}},
             /\ held' = HeldAfter((Released \ {"graph", "context"}) \union (last \intersect Released))
             /\ Ended("lost")
      PROVE  IInv'
  <2>1. (Released \ {"graph", "context"}) \union (last \intersect Released) \subseteq Released
    OBVIOUS
  <2>2. /\ held' \in [Group -> Nat]
        /\ \A g \in Group \ Released : held'[g] = held[g]
    BY <1>2, <2>1, HeldAfterTyped DEF StitchTypeOK
  <2>3. Fresh /\ UNCHANGED <<opt, setup, contexts>> /\ life' \in {"lost", "corrupt"}
    BY <1>2 DEF Ended
  <2>4. StitchTypeOK'
    BY <2>2, <2>3, FreshTyped DEF StitchTypeOK
  <2>5. HeldInv' /\ InitInv' /\ TablesInv' /\ OriginInv'
    BY <1>0, <2>3, FreshTyped DEF HeldInv, InitInv, TablesInv, OriginInv
  <2>6. ExactInv'
    <3>1. {"computed", "sections"} \subseteq Group \ Released
      BY DEF Released, Group, Steps
    <3> QED BY <3>1, <2>2, <2>3 DEF ExactInv
  <2> QED BY <2>4, <2>5, <2>6
<1> QED BY <1>1, <1>2 DEF lsReleaseContextFails

\* Every call keeps the invariant.
LEMMA StepOK == ASSUME StitchAssumption, IInv, [StitchNext]_stitchVars PROVE IInv'
<1>1. CASE StitchNext
  BY <1>1, SettersKeep, MakersKeep, InitializeKeeps, InitializeFailsKeeps, ReinitializeKeeps,
     ReinitializeFailsKeeps, EndsKeep, ReleaseFailsKeeps DEF StitchNext
<1>2. CASE UNCHANGED stitchVars
  BY <1>2 DEF stitchVars, IInv, StitchTypeOK, HeldInv, InitInv, TablesInv, ExactInv, OriginInv,
     Object, Once, CamerasGood, OverlaysGood, CurrentCameras, CurrentOverlays, SetupLoad
<1> QED BY <1>1, <1>2

-------------------------------------------------------------------------------
(***************************************************************************)
(* The theorems.                                                           *)
(***************************************************************************)
\* The invariant holds of every life a context can have.
THEOREM Inductive == StitchSpec => []IInv
<1>1. StitchInit => IInv
  BY StitchAssumption, InitOK
<1>2. IInv /\ [StitchNext]_stitchVars => IInv'
  BY StitchAssumption, StepOK
<1> QED BY <1>1, <1>2, PTL DEF StitchSpec

\* Every field of a context keeps its type; what is held is never released more
\* often than it was made, up to the release that finds dangling pointers.
THEOREM ContextTypeCorrect == StitchSpec => []StitchTypeOK
<1>1. IInv => StitchTypeOK
  BY DEF IInv
<1> QED BY <1>1, Inductive, PTL

\* For every number of parameters and calls, in every order and whichever of them
\* fails: a frame may be scheduled only when the device's tables are those of the
\* parameters last set, but for the exceptions TablesCurrent names
\* (lsReinitialize, lsScheduleFrame).
THEOREM FramesUseCurrentTables == StitchSpec => []TablesCurrent
<1>1. IInv => TablesCurrent
  BY DEF IInv, TablesInv, TablesCurrent, IsValidContextAndInitialized, CamerasGood, OverlaysGood
<1> QED BY <1>1, Inductive, PTL

\* A context that is gone has left nothing behind, but for the exceptions
\* ReleaseComplete names (lsReleaseContext).
THEOREM ContextReleasedWhole == StitchSpec => ReleaseComplete
<1> DEFINE Left(g) == \/ held'[g] = 0
                      \/ inits > 1
                      \/ (g = "cameraPar" /\ conf.cam > 1) \/ (g = "overlayPar" /\ conf.ovl > 1)
                      \/ g = "seamInfo"
                      \/ g = "tiles" /\ ~flags.initialized
                      \/ g = "bandOffsets" /\ "bands" \notin at
<1>1. ASSUME IInv, StitchNext, life # "none", life' = "none", NEW g \in Group PROVE Left(g)
  <2>1. lsReleaseContext \/ ProcessEnds
    BY <1>1 DEF StitchNext, lsCreateContext, lsSetOpenVXContext, lsGetOpenVXContext,
       lsSetCameraConfig, lsSetOverlayConfig, lsSetOutputConfig, lsSetRigParams,
       lsSetCameraParams, lsSetOverlayParams, lsImportConfiguration, lsInitialize,
       lsInitializeFails, CreateObjects, lsReinitialize, lsReinitializeFails, lsScheduleFrame,
       lsWaitForCompletion, lsReleaseContextFails, Ended
  <2>2. CASE ProcessEnds
    BY <2>2 DEF ProcessEnds
  <2>3. CASE lsReleaseContext
    <3>1. /\ life \in {"live", "ending"} /\ Released \subseteq Released
          /\ held' = HeldAfter(Released)
      BY <2>3 DEF lsReleaseContext
    <3>2. held'[g] = held[g] - (IF g \in Released THEN 1 ELSE 0)
      BY <1>1, <3>1, HeldAfterTyped DEF IInv
    <3>3. CASE g \in {"computed", "sections"}
      <4>1. held[g] = 0 /\ g \notin Released
        BY <3>3, <1>1 DEF Released, IInv, ExactInv
      <4>2. held'[g] = 0 - 0
        BY <4>1, <3>2
      <4> QED BY <4>2
    <3>4. CASE g \in Object /\ Once(g) /\ inits <= 1
      <4>1. held[g] = IF g \in at THEN 1 ELSE 0
        BY <3>4, <3>1, <1>1 DEF IInv, ExactInv
      <4>2. CASE g \notin at
        BY <4>1, <4>2, <3>2 DEF Released
      <4>3. CASE g \in Released
        BY <4>1, <4>3, <3>2 DEF Released
      <4>4. CASE g \in at /\ g \notin Released
        BY <4>4, <3>4, <1>1 DEF Released, Object, IInv, InitInv, OriginInv
      <4> QED BY <4>2, <4>3, <4>4
    <3>5. inits \in Nat /\ conf.cam \in Nat /\ conf.ovl \in Nat
      BY <1>1 DEF IInv, StitchTypeOK
    <3> QED BY <3>3, <3>4, <3>5, <1>1 DEF Object, Once
  <2> QED BY <2>1, <2>2, <2>3
<1>2. IInv /\ [StitchNext]_stitchVars
        => [life # "none" /\ life' = "none" => \A g \in Group : Left(g)]_stitchVars
  BY <1>1
<1>3. QED
  BY <1>2, Inductive, PTL DEF StitchSpec, ReleaseComplete

-------------------------------------------------------------------------------
(***************************************************************************)
(* The kernels of vx_opencv: one lemma for each of them, which says what   *)
(* its parameters are, that they are used, and that they suit its body.    *)
(***************************************************************************)
\* Parameter i reaches OpenCV, is read as a variable of the type, or is written.
Called(body, i) == \E n \in DOMAIN body : body[n].do = "call" /\ i \in body[n].of
IsRead(body, type, i) ==
  \E n \in DOMAIN body : body[n].do = "read" /\ i \in body[n].of /\ body[n].type = type
IsWritten(body, i) ==
  \E n \in DOMAIN body : body[n].do \in {"write", "pyramid", "items"} /\ body[n].of = i

\* Parameter i of kernel k, of the kind or scalar type given, is used, and is of
\* the kind its registration says; an argument of a working node is accepted, and
\* none of another kind or type.
ParameterSound(k, i, kind) ==
  /\ IF kind \in ScalarType
     THEN /\ OpenCVKernel[k].parameters[i].kind = "scalar"
          /\ Direction(k, i) # "output"
          /\ \A a \in OpenCVKernel[k].validators.in[i] : a.kind = "scalar" /\ a.type = kind
     ELSE /\ OpenCVKernel[k].parameters[i].kind = kind
          /\ kind \in {"image", "array", "matrix", "pyramid"}
  /\ \A a \in Accepted(k, i) : a.kind = OpenCVKernel[k].parameters[i].kind
  /\ IF Direction(k, i) = "input"
     THEN \/ i - 1 \in Ignored(k)
          \/ Called(OpenCVKernel[k].body, i - 1)
             /\ (kind \in ScalarType => IsRead(OpenCVKernel[k].body, kind, i - 1))
     ELSE IsWritten(OpenCVKernel[k].body, i - 1)
  /\ \E a \in Accepted(k, i) : IsWorking(k, i, a)

\* The arguments of a parameter have sizes; are pyramids; are arrays; are images
\* VX_to_CV_Image converts, but for those of 16 bits without sign; are matrices.
Sized(k, i) == i \in Parameters(k) /\ \A a \in Accepted(k, i) : a.kind \in {"image", "pyramid"}
Pyramids(k, i) == i \in Parameters(k) /\ \A a \in Accepted(k, i) : a \in Pyramid({"U8"})
Arrays(k, i) == i \in Parameters(k) /\ \A a \in Accepted(k, i) : a.kind = "array"
Convertible(k, i) ==
  i \in Parameters(k) /\ Accepted(k, i) \subseteq Image(ConvertibleFormats \union {"U16"})
Matrices(k, i) == i \in Parameters(k) /\ Accepted(k, i) \subseteq AnyMatrix

\* A step of the body works on arguments it can work on; an array takes items of the
\* size that suits it, and only two kernels ever double what they hand over.
StepSound(k, s) ==
  /\ s.do = "match" => \A i \in s.of : Sized(k, i + 1)
  /\ s.do = "transposed" => Sized(k, s.in + 1) /\ Sized(k, s.of + 1) /\ s.in + 1 # s.of + 1
  /\ s.do = "hasSize" => k = "resize"
  /\ s.do = "toMat" => Convertible(k, s.of + 1)
  /\ s.do = "toMatrix" => Matrices(k, s.of + 1)
  /\ s.do = "pyramid" => /\ Pyramids(k, s.of + 1)
                         /\ s.twice # {} => k = "buildOpticalFlowPyramid" /\ s.twice = {5}
  /\ s.do = "items" => /\ Arrays(k, s.of + 1) /\ s.size = Holds(k, s.of + 1)
                       /\ s.twice # {} => k = "SURF_compute" /\ s.twice = {7}

\* kinds are the kinds, or scalar types, of the parameters of kernel k.
KernelSound(k, kinds) ==
  /\ k \in DOMAIN OpenCVKernel
  /\ DOMAIN kinds = Parameters(k)
  /\ \A i \in Parameters(k) : ParameterSound(k, i, kinds[i])
  /\ \A n \in DOMAIN OpenCVKernel[k].body : StepSound(k, OpenCVKernel[k].body[n])

\* Kernel k is registered with what file has, and checked with the validators v.
Registers(k, v, file) ==
  /\ k \in DOMAIN OpenCVKernel
  /\ OpenCVKernel[k].validators.in = v.in /\ OpenCVKernel[k].validators.out = v.out
  /\ OpenCVKernel[k].parameters = file.parameters /\ OpenCVKernel[k].body = file.body

\* Scalars of one type, 0, 1 or 3 among them.
OfType(set, type) ==
  /\ \A a \in set : a.kind = "scalar" /\ a.type = type
  /\ \E v \in {0, 1, 3} : [kind |-> "scalar", type |-> type, value |-> v] \in set

\* The sorts of parameters: an input image of one of the formats, an output image,
\* an input scalar, a matrix, an array for points, a pyramid, and a scalar that is
\* written.
ImageInput(v, file, i, formats) ==
  /\ i \in DOMAIN file.parameters /\ file.parameters[i] = In("image") /\ Called(file.body, i - 1)
  /\ v.in[i] = Image(formats) /\ formats \subseteq ImageFormat /\ formats # {}
ImageOutput(v, file, i, formats) ==
  /\ i \in DOMAIN file.parameters /\ file.parameters[i] = Out("image")
  /\ IsWritten(file.body, i - 1)
  /\ v.out = Only(i - 1, Image(formats)) /\ formats \subseteq ImageFormat /\ formats # {}
ScalarInput(k, v, file, i, type) ==
  /\ i \in DOMAIN file.parameters /\ file.parameters[i] = In("scalar") /\ type \in ScalarType
  /\ i - 1 \in Ignored(k) \/ Called(file.body, i - 1)
  /\ IsRead(file.body, type, i - 1)
  /\ OfType(v.in[i], type)
MatrixInput(v, file, i) ==
  /\ i \in DOMAIN file.parameters /\ file.parameters[i] = In("matrix") /\ Called(file.body, i - 1)
  /\ v.in[i] = AnyMatrix
ArrayUpdate(v, file, i) ==
  /\ i \in DOMAIN file.parameters /\ file.parameters[i] = InOut("array")
  /\ IsWritten(file.body, i - 1)
  /\ v.in[i] = AnyArray
  /\ i - 1 \in DOMAIN v.out => v.out[i - 1] = RoomyArray
PyramidUpdate(v, file, i) ==
  /\ i \in DOMAIN file.parameters /\ file.parameters[i] = InOut("pyramid")
  /\ IsWritten(file.body, i - 1)
  /\ v.in[i] = Pyramid({"U8"}) /\ v.out = Only(i - 1, Pyramid({"U8"}))
ScalarUpdate(v, file, i, type) ==
  /\ i \in DOMAIN file.parameters /\ file.parameters[i] = InOut("scalar") /\ type \in ScalarType
  /\ IsWritten(file.body, i - 1)
  /\ OfType(v.in[i], type) /\ v.out = Only(i - 1, Scalar(ScalarType, Value))

\* The sets of scalars the validators accept.
LEMMA ScalarSets ==
  /\ OfType(Bool, "BOOL")
  /\ OfType(Float32(NonNegative), "FLOAT32")
  /\ OfType(Float32(Value), "FLOAT32")
  /\ OfType(Int32(0..254), "INT32")
  /\ OfType(Int32(0..3), "INT32")
  /\ OfType(Int32(0..4), "INT32")
  /\ OfType(Int32(0..6), "INT32")
  /\ OfType(Int32(AtLeast(-1)), "INT32")
  /\ OfType(Int32(NonNegative), "INT32")
  /\ OfType(Int32(Odd(AtLeast(1))), "INT32")
  /\ OfType(Int32(Odd(AtLeast(3))), "INT32")
  /\ OfType(Int32(Odd(NonNegative)), "INT32")
  /\ OfType(Int32(Value), "INT32")
  /\ OfType(Int32({-1, 0, 5, 6}), "INT32")
  /\ OfType(Int32({0, 1}), "INT32")
  /\ OfType(Int32({0}), "INT32")
  /\ OfType(Int32({1, 3, 5, 7}), "INT32")
  /\ OfType(Scalar({"SIZE"}, Value), "SIZE")
  /\ OfType(Scalar({"UINT16"}, Value), "UINT16")
BY ArgumentAssumption DEF OfType, NonNegative, AtLeast, Odd, Int32, Float32, Bool, Scalar

\* An input image.
LEMMA ImageInputSound ==
  ASSUME NEW k, NEW v, NEW file, Registers(k, v, file),
         NEW i, NEW formats, ImageInput(v, file, i, formats)
  PROVE  /\ ParameterSound(k, i, "image") /\ Sized(k, i)
         /\ formats \subseteq ConvertibleFormats \union {"U16"} => Convertible(k, i)
<1>1. Direction(k, i) = "input" /\ OpenCVKernel[k].parameters[i].kind = "image"
  BY DEF Direction, Registers, ImageInput, In
<1>2. Accepted(k, i) = {a \in Argument : a \in Image(formats)}
  BY <1>1 DEF Accepted, Registers, ImageInput
<1>3. PICK f \in formats : f \in ImageFormat
  BY DEF ImageInput
<1>4. [kind |-> "image", type |-> f, size |-> <<3, 3>>] \in Accepted(k, i)
  BY <1>2, <1>3, ArgumentAssumption DEF Argument, Image
<1>5. \A a \in Image(formats) : a.kind = "image"
  BY DEF Image
<1>6. \E a \in Accepted(k, i) : IsWorking(k, i, a)
  BY <1>4 DEF IsWorking
<1>7. "image" \notin ScalarType
  BY DEF ScalarType
<1>8. ParameterSound(k, i, "image")
  BY <1>1, <1>2, <1>5, <1>6, <1>7 DEF ParameterSound, Registers, ImageInput
<1>9. Sized(k, i)
  BY <1>2, <1>5 DEF Sized, Parameters, Registers, ImageInput
<1>10. ASSUME formats \subseteq ConvertibleFormats \union {"U16"} PROVE Convertible(k, i)
  BY <1>2, <1>10 DEF Convertible, Parameters, Registers, ImageInput, Image
<1> QED BY <1>8, <1>9, <1>10

\* An output image.
LEMMA ImageOutputSound ==
  ASSUME NEW k, NEW v, NEW file, Registers(k, v, file),
         NEW i \in Int, NEW formats, ImageOutput(v, file, i, formats)
  PROVE  ParameterSound(k, i, "image") /\ Sized(k, i)
<1>1. Direction(k, i) = "output" /\ OpenCVKernel[k].parameters[i].kind = "image"
  BY DEF Direction, Registers, ImageOutput, Out
<1>2. Accepted(k, i) = {a \in Argument : a \in Image(formats)}
  BY <1>1 DEF Accepted, Registers, ImageOutput, Only
<1>3. PICK f \in formats : f \in ImageFormat
  BY DEF ImageOutput
<1>4. [kind |-> "image", type |-> f, size |-> <<3, 3>>] \in Accepted(k, i)
  BY <1>2, <1>3, ArgumentAssumption DEF Argument, Image
<1>5. \A a \in Image(formats) : a.kind = "image"
  BY DEF Image
<1>6. \E a \in Accepted(k, i) : IsWorking(k, i, a)
  BY <1>4 DEF IsWorking
<1>7. "image" \notin ScalarType
  BY DEF ScalarType
<1>8. ParameterSound(k, i, "image")
  BY <1>1, <1>2, <1>5, <1>6, <1>7 DEF ParameterSound, Registers, ImageOutput
<1>9. Sized(k, i)
  BY <1>2, <1>5 DEF Sized, Parameters, Registers, ImageOutput
<1> QED BY <1>8, <1>9

\* An input scalar.
LEMMA ScalarInputSound ==
  ASSUME NEW k, NEW v, NEW file, Registers(k, v, file),
         NEW i, NEW type, ScalarInput(k, v, file, i, type)
  PROVE  ParameterSound(k, i, type)
<1>1. Direction(k, i) = "input" /\ OpenCVKernel[k].parameters[i].kind = "scalar"
  BY DEF Direction, Registers, ScalarInput, In
<1>2. Accepted(k, i) = {a \in Argument : a \in v.in[i]}
  BY <1>1 DEF Accepted, Registers, ScalarInput
<1>3. PICK n \in {0, 1, 3} : [kind |-> "scalar", type |-> type, value |-> n] \in v.in[i]
  BY DEF ScalarInput, OfType
<1>4. [kind |-> "scalar", type |-> type, value |-> n] \in Argument
  BY ArgumentAssumption DEF Argument, Scalar, ScalarInput
<1>5. \E a \in Accepted(k, i) : IsWorking(k, i, a)
  BY <1>2, <1>3, <1>4 DEF IsWorking
<1>6. \A a \in v.in[i] : a.kind = "scalar" /\ a.type = type
  BY DEF ScalarInput, OfType
<1> QED BY <1>1, <1>2, <1>5, <1>6 DEF ParameterSound, Registers, ScalarInput

\* A scalar that is written.
LEMMA ScalarUpdateSound ==
  ASSUME NEW k, NEW v, NEW file, Registers(k, v, file),
         NEW i \in Int, NEW type, ScalarUpdate(v, file, i, type)
  PROVE  ParameterSound(k, i, type)
<1>1. Direction(k, i) = "bidirectional" /\ OpenCVKernel[k].parameters[i].kind = "scalar"
  BY DEF Direction, Registers, ScalarUpdate, InOut
<1>2. Accepted(k, i) = {a \in Argument : a \in v.in[i] /\ a \in Scalar(ScalarType, Value)}
  BY <1>1 DEF Accepted, Registers, ScalarUpdate, Only
<1>3. PICK n \in {0, 1, 3} : [kind |-> "scalar", type |-> type, value |-> n] \in v.in[i]
  BY DEF ScalarUpdate, OfType
<1>4. [kind |-> "scalar", type |-> type, value |-> n] \in Scalar(ScalarType, Value)
  BY ArgumentAssumption DEF Scalar, ScalarUpdate
<1>5. \E a \in Accepted(k, i) : IsWorking(k, i, a)
  BY <1>2, <1>3, <1>4 DEF IsWorking, Argument
<1>6. \A a \in v.in[i] : a.kind = "scalar" /\ a.type = type
  BY DEF ScalarUpdate, OfType
<1> QED BY <1>1, <1>2, <1>5, <1>6 DEF ParameterSound, Registers, ScalarUpdate

\* A matrix.
LEMMA MatrixInputSound ==
  ASSUME NEW k, NEW v, NEW file, Registers(k, v, file), NEW i, MatrixInput(v, file, i)
  PROVE  ParameterSound(k, i, "matrix") /\ Matrices(k, i)
<1>1. Direction(k, i) = "input" /\ OpenCVKernel[k].parameters[i].kind = "matrix"
  BY DEF Direction, Registers, MatrixInput, In
<1>2. Accepted(k, i) = {a \in Argument : a \in AnyMatrix}
  BY <1>1 DEF Accepted, Registers, MatrixInput
<1>3. [kind |-> "matrix", type |-> "INT32"] \in Accepted(k, i)
  BY <1>2 DEF Argument, AnyMatrix, Matrix
<1>4. \A a \in AnyMatrix : a.kind = "matrix"
  BY DEF AnyMatrix, Matrix
<1>5. \E a \in Accepted(k, i) : IsWorking(k, i, a)
  BY <1>3 DEF IsWorking
<1>6. "matrix" \notin ScalarType
  BY DEF ScalarType
<1>7. ParameterSound(k, i, "matrix")
  BY <1>1, <1>2, <1>4, <1>5, <1>6 DEF ParameterSound, Registers, MatrixInput
<1> QED BY <1>2, <1>7 DEF Matrices, Parameters, Registers, MatrixInput

\* An array.
LEMMA ArrayUpdateSound ==
  ASSUME NEW k, NEW v, NEW file, Registers(k, v, file), NEW i, ArrayUpdate(v, file, i)
  PROVE  ParameterSound(k, i, "array") /\ Arrays(k, i)
<1> DEFINE room == [kind |-> "array", item |-> Holds(k, i), capacity |-> 1]
<1>1. Direction(k, i) = "bidirectional" /\ OpenCVKernel[k].parameters[i].kind = "array"
  BY DEF Direction, Registers, ArrayUpdate, InOut
<1>2. Holds(k, i) \in ItemSize
  BY DEF Holds, DescriptorSize, ItemSize
<1>3. room \in Argument /\ room \in AnyArray /\ room \in RoomyArray
  BY <1>2 DEF Argument, AnyArray, RoomyArray, Array
<1>4. room \in Accepted(k, i)
  BY <1>1, <1>3 DEF Accepted, Registers, ArrayUpdate
<1>5. \A a \in AnyArray : a.kind = "array"
  BY DEF AnyArray, Array
<1>6. \A a \in Accepted(k, i) : a \in AnyArray
  BY <1>1 DEF Accepted, Registers, ArrayUpdate
<1>7. \E a \in Accepted(k, i) : IsWorking(k, i, a)
  <2>1. room.kind = "array" /\ room.item = Holds(k, i) /\ room.capacity = 1
    OBVIOUS
  <2> HIDE DEF room
  <2>2. IsWorking(k, i, room)
    BY <2>1 DEF IsWorking
  <2> QED BY <1>4, <2>2
<1>8. "array" \notin ScalarType
  BY DEF ScalarType
<1>9. ParameterSound(k, i, "array")
  BY <1>1, <1>5, <1>6, <1>7, <1>8 DEF ParameterSound, Registers, ArrayUpdate
<1> QED BY <1>5, <1>6, <1>9 DEF Arrays, Parameters, Registers, ArrayUpdate

\* A pyramid.
LEMMA PyramidUpdateSound ==
  ASSUME NEW k, NEW v, NEW file, Registers(k, v, file), NEW i \in Int, PyramidUpdate(v, file, i)
  PROVE  ParameterSound(k, i, "pyramid") /\ Pyramids(k, i)
<1>1. Direction(k, i) = "bidirectional" /\ OpenCVKernel[k].parameters[i].kind = "pyramid"
  BY DEF Direction, Registers, PyramidUpdate, InOut
<1>2. Accepted(k, i) = {a \in Argument : a \in Pyramid({"U8"})}
  BY <1>1 DEF Accepted, Registers, PyramidUpdate, Only
<1>3. [kind |-> "pyramid", type |-> "U8", size |-> <<3, 3>>, above |-> <<<<2, 2>>>>]
        \in Accepted(k, i)
  BY <1>2, ArgumentAssumption DEF Argument, Pyramid
<1>4. \A a \in Pyramid({"U8"}) : a.kind = "pyramid"
  BY DEF Pyramid
<1>5. \E a \in Accepted(k, i) : IsWorking(k, i, a)
  BY <1>3 DEF IsWorking
<1>6. "pyramid" \notin ScalarType
  BY DEF ScalarType
<1>7. ParameterSound(k, i, "pyramid")
  BY <1>1, <1>2, <1>4, <1>5, <1>6 DEF ParameterSound, Registers, PyramidUpdate
<1> QED BY <1>2, <1>7 DEF Pyramids, Parameters, Registers, PyramidUpdate

USE DEF Called, IsRead, IsWritten, In, Out, InOut, Call, Read, Match, Transposed, HasSize, ToMat,
        ToMatrix, FromMat, FromPyramid, FromPoints, FromDescriptors, WriteScalar, Validators

\* The kernel AddWeighted.
LEMMA AddWeighted_Sound ==
  KernelSound("AddWeighted",
    <<"image", "FLOAT32", "image", "FLOAT32", "FLOAT32", "image", "INT32">>)
<1> DEFINE k == "AddWeighted"  v == AddWeighted_Validators  file == AddWeighted_Kernel
<1>1. Registers(k, v, file)
  BY DEF Registers, OpenCVKernel, Kernel, AddWeighted_Validators
<1>2. /\ DOMAIN file.parameters = 1 .. 7
      /\ \A i \in {1, 3} : ImageInput(v, file, i, {"U8", "U16", "S16"})
      /\ \A i \in {2, 4, 5} : ScalarInput(k, v, file, i, "FLOAT32")
      /\ ImageOutput(v, file, 6, {"U8"})
      /\ ScalarInput(k, v, file, 7, "INT32")
  BY ScalarSets DEF AddWeighted_Validators, AddWeighted_Kernel, ImageInput, ScalarInput,
     ImageOutput, ScalarType, ImageFormat
<1>3. /\ \A i \in {1, 3} : ParameterSound(k, i, "image") /\ Sized(k, i) /\ Convertible(k, i)
      /\ \A i \in {2, 4, 5} : ParameterSound(k, i, "FLOAT32")
      /\ ParameterSound(k, 6, "image") /\ Sized(k, 6)
      /\ ParameterSound(k, 7, "INT32")
  BY <1>1, <1>2, ImageInputSound, ScalarInputSound, ImageOutputSound DEF ConvertibleFormats
<1>4. \A n \in DOMAIN file.body : StepSound(k, file.body[n])
  BY <1>3 DEF StepSound, AddWeighted_Kernel
<1> QED BY <1>1, <1>2, <1>3, <1>4 DEF KernelSound, Registers, Parameters

\* The kernel brisk_detect.
LEMMA brisk_detect_Sound ==
  KernelSound("brisk_detect", <<"image", "image", "array", "INT32", "INT32", "FLOAT32">>)
<1> DEFINE k == "brisk_detect"  v == brisk_detect_Validators  file == brisk_detect_Kernel
<1>1. Registers(k, v, file)
  BY DEF Registers, OpenCVKernel, Kernel, brisk_detect_Validators
<1>2. /\ DOMAIN file.parameters = 1 .. 6
      /\ \A i \in {1, 2} : ImageInput(v, file, i, {"U8"})
      /\ ArrayUpdate(v, file, 3)
      /\ \A i \in {4, 5} : ScalarInput(k, v, file, i, "INT32")
      /\ ScalarInput(k, v, file, 6, "FLOAT32")
  BY ScalarSets DEF brisk_detect_Validators, brisk_detect_Kernel, ImageInput, ArrayUpdate,
     ScalarInput, ScalarType, ImageFormat, Only, PointSize
<1>3. /\ \A i \in {1, 2} : ParameterSound(k, i, "image") /\ Sized(k, i) /\ Convertible(k, i)
      /\ ParameterSound(k, 3, "array") /\ Arrays(k, 3)
      /\ \A i \in {4, 5} : ParameterSound(k, i, "INT32")
      /\ ParameterSound(k, 6, "FLOAT32")
  BY <1>1, <1>2, ImageInputSound, ArrayUpdateSound, ScalarInputSound DEF ConvertibleFormats
<1>4. \A n \in DOMAIN file.body : StepSound(k, file.body[n])
  BY <1>3 DEF StepSound, brisk_detect_Kernel, Holds, DescriptorSize, PointSize
<1> QED BY <1>1, <1>2, <1>3, <1>4 DEF KernelSound, Registers, Parameters

\* The kernel blur.
LEMMA blur_Sound ==
  KernelSound("blur", <<"image", "image", "INT32", "INT32", "INT32", "INT32", "INT32">>)
<1> DEFINE k == "blur"  v == blur_Validators  file == blur_Kernel
<1>1. Registers(k, v, file)
  BY DEF Registers, OpenCVKernel, Kernel, blur_Validators
<1>2. /\ DOMAIN file.parameters = 1 .. 7
      /\ ImageInput(v, file, 1, {"U8"})
      /\ ImageOutput(v, file, 2, {"U8"})
      /\ \A i \in 3 .. 7 : ScalarInput(k, v, file, i, "INT32")
  BY ScalarSets DEF blur_Validators, blur_Kernel, ImageInput, ImageOutput, ScalarInput,
     ScalarType, ImageFormat
<1>3. /\ ParameterSound(k, 1, "image") /\ Sized(k, 1) /\ Convertible(k, 1)
      /\ ParameterSound(k, 2, "image") /\ Sized(k, 2)
      /\ \A i \in 3 .. 7 : ParameterSound(k, i, "INT32")
  BY <1>1, <1>2, ImageInputSound, ImageOutputSound, ScalarInputSound DEF ConvertibleFormats
<1>4. \A n \in DOMAIN file.body : StepSound(k, file.body[n])
  BY <1>3 DEF StepSound, blur_Kernel
<1> QED BY <1>1, <1>2, <1>3, <1>4 DEF KernelSound, Registers, Parameters

\* The kernel Boxfilter.
LEMMA Boxfilter_Sound ==
  KernelSound("Boxfilter",
    <<"image", "image", "INT32", "INT32", "INT32", "INT32", "INT32", "BOOL", "INT32">>)
<1> DEFINE k == "Boxfilter"  v == Boxfilter_Validators  file == Boxfilter_Kernel
<1>1. Registers(k, v, file)
  BY DEF Registers, OpenCVKernel, Kernel, Boxfilter_Validators
<1>2. /\ DOMAIN file.parameters = 1 .. 9
      /\ ImageInput(v, file, 1, {"U8"})
      /\ ImageOutput(v, file, 2, {"U8"})
      /\ \A i \in {3, 4, 5, 6, 7, 9} : ScalarInput(k, v, file, i, "INT32")
      /\ ScalarInput(k, v, file, 8, "BOOL")
  BY ScalarSets DEF Boxfilter_Validators, Boxfilter_Kernel, ImageInput, ImageOutput,
     ScalarInput, ScalarType, ImageFormat
<1>3. /\ ParameterSound(k, 1, "image") /\ Sized(k, 1) /\ Convertible(k, 1)
      /\ ParameterSound(k, 2, "image") /\ Sized(k, 2)
      /\ \A i \in {3, 4, 5, 6, 7, 9} : ParameterSound(k, i, "INT32")
      /\ ParameterSound(k, 8, "BOOL")
  BY <1>1, <1>2, ImageInputSound, ImageOutputSound, ScalarInputSound DEF ConvertibleFormats
<1>4. \A n \in DOMAIN file.body : StepSound(k, file.body[n])
  BY <1>3 DEF StepSound, Boxfilter_Kernel
<1> QED BY <1>1, <1>2, <1>3, <1>4 DEF KernelSound, Registers, Parameters

\* The kernel Canny.
LEMMA Canny_Sound ==
  KernelSound("Canny", <<"image", "image", "FLOAT32", "FLOAT32", "INT32", "BOOL">>)
<1> DEFINE k == "Canny"  v == Canny_Validators  file == Canny_Kernel
<1>1. Registers(k, v, file)
  BY DEF Registers, OpenCVKernel, Kernel, Canny_Validators
<1>2. /\ DOMAIN file.parameters = 1 .. 6
      /\ ImageInput(v, file, 1, {"U8"})
      /\ ImageOutput(v, file, 2, {"U8", "S16"})
      /\ \A i \in {3, 4} : ScalarInput(k, v, file, i, "FLOAT32")
      /\ ScalarInput(k, v, file, 5, "INT32")
      /\ ScalarInput(k, v, file, 6, "BOOL")
  BY ScalarSets DEF Canny_Validators, Canny_Kernel, ImageInput, ImageOutput, ScalarInput,
     ScalarType, ImageFormat
<1>3. /\ ParameterSound(k, 1, "image") /\ Sized(k, 1) /\ Convertible(k, 1)
      /\ ParameterSound(k, 2, "image") /\ Sized(k, 2)
      /\ \A i \in {3, 4} : ParameterSound(k, i, "FLOAT32")
      /\ ParameterSound(k, 5, "INT32")
      /\ ParameterSound(k, 6, "BOOL")
  BY <1>1, <1>2, ImageInputSound, ImageOutputSound, ScalarInputSound DEF ConvertibleFormats
<1>4. \A n \in DOMAIN file.body : StepSound(k, file.body[n])
  BY <1>3 DEF StepSound, Canny_Kernel
<1> QED BY <1>1, <1>2, <1>3, <1>4 DEF KernelSound, Registers, Parameters

\* The kernel FAST_detector.
LEMMA FAST_detector_Sound ==
  KernelSound("FAST_detector", <<"image", "array", "INT32", "BOOL">>)
<1> DEFINE k == "FAST_detector"  v == FAST_detector_Validators  file == FAST_detector_Kernel
<1>1. Registers(k, v, file)
  BY DEF Registers, OpenCVKernel, Kernel, FAST_detector_Validators
<1>2. /\ DOMAIN file.parameters = 1 .. 4
      /\ ImageInput(v, file, 1, {"U8"})
      /\ ArrayUpdate(v, file, 2)
      /\ ScalarInput(k, v, file, 3, "INT32")
      /\ ScalarInput(k, v, file, 4, "BOOL")
  BY ScalarSets DEF FAST_detector_Validators, FAST_detector_Kernel, ImageInput, ArrayUpdate,
     ScalarInput, ScalarType, ImageFormat, Only
<1>3. /\ ParameterSound(k, 1, "image") /\ Sized(k, 1) /\ Convertible(k, 1)
      /\ ParameterSound(k, 2, "array") /\ Arrays(k, 2)
      /\ ParameterSound(k, 3, "INT32")
      /\ ParameterSound(k, 4, "BOOL")
  BY <1>1, <1>2, ImageInputSound, ArrayUpdateSound, ScalarInputSound DEF ConvertibleFormats
<1>4. \A n \in DOMAIN file.body : StepSound(k, file.body[n])
  BY <1>3 DEF StepSound, FAST_detector_Kernel, Holds, DescriptorSize, PointSize
<1> QED BY <1>1, <1>2, <1>3, <1>4 DEF KernelSound, Registers, Parameters

\* The kernel Gaussianblur.
LEMMA Gaussianblur_Sound ==
  KernelSound("Gaussianblur",
    <<"image", "image", "INT32", "INT32", "FLOAT32", "FLOAT32", "INT32">>)
<1> DEFINE k == "Gaussianblur"  v == Gaussianblur_Validators  file == Gaussianblur_Kernel
<1>1. Registers(k, v, file)
  BY DEF Registers, OpenCVKernel, Kernel, Gaussianblur_Validators
<1>2. /\ DOMAIN file.parameters = 1 .. 7
      /\ ImageInput(v, file, 1, {"U8"})
      /\ ImageOutput(v, file, 2, {"U8"})
      /\ \A i \in {3, 4, 7} : ScalarInput(k, v, file, i, "INT32")
      /\ \A i \in {5, 6} : ScalarInput(k, v, file, i, "FLOAT32")
  BY ScalarSets DEF Gaussianblur_Validators, Gaussianblur_Kernel, ImageInput, ImageOutput,
     ScalarInput, ScalarType, ImageFormat
<1>3. /\ ParameterSound(k, 1, "image") /\ Sized(k, 1) /\ Convertible(k, 1)
      /\ ParameterSound(k, 2, "image") /\ Sized(k, 2)
      /\ \A i \in {3, 4, 7} : ParameterSound(k, i, "INT32")
      /\ \A i \in {5, 6} : ParameterSound(k, i, "FLOAT32")
  BY <1>1, <1>2, ImageInputSound, ImageOutputSound, ScalarInputSound DEF ConvertibleFormats
<1>4. \A n \in DOMAIN file.body : StepSound(k, file.body[n])
  BY <1>3 DEF StepSound, Gaussianblur_Kernel
<1> QED BY <1>1, <1>2, <1>3, <1>4 DEF KernelSound, Registers, Parameters

\* The kernel good_features_to_track.
LEMMA good_features_to_track_Sound ==
  KernelSound("good_features_to_track",
    <<"image", "array", "INT32", "FLOAT32", "FLOAT32", "image", "INT32", "BOOL", "FLOAT32">>)
<1> DEFINE k == "good_features_to_track"  v == good_features_to_track_Validators
           file == good_features_to_track_Kernel
<1>1. Registers(k, v, file)
  BY DEF Registers, OpenCVKernel, Kernel, good_features_to_track_Validators
<1>2. /\ DOMAIN file.parameters = 1 .. 9
      /\ \A i \in {1, 6} : ImageInput(v, file, i, {"U8"})
      /\ ArrayUpdate(v, file, 2)
      /\ \A i \in {3, 7} : ScalarInput(k, v, file, i, "INT32")
      /\ \A i \in {4, 5, 9} : ScalarInput(k, v, file, i, "FLOAT32")
      /\ ScalarInput(k, v, file, 8, "BOOL")
  BY ScalarSets DEF good_features_to_track_Validators, good_features_to_track_Kernel,
     ImageInput, ArrayUpdate, ScalarInput, ScalarType, ImageFormat, Only, PointSize
<1>3. /\ \A i \in {1, 6} : ParameterSound(k, i, "image") /\ Sized(k, i) /\ Convertible(k, i)
      /\ ParameterSound(k, 2, "array") /\ Arrays(k, 2)
      /\ \A i \in {3, 7} : ParameterSound(k, i, "INT32")
      /\ \A i \in {4, 5, 9} : ParameterSound(k, i, "FLOAT32")
      /\ ParameterSound(k, 8, "BOOL")
  BY <1>1, <1>2, ImageInputSound, ArrayUpdateSound, ScalarInputSound DEF ConvertibleFormats
<1>4. \A n \in DOMAIN file.body : StepSound(k, file.body[n])
  BY <1>3 DEF StepSound, good_features_to_track_Kernel, Holds, DescriptorSize, PointSize
<1> QED BY <1>1, <1>2, <1>3, <1>4 DEF KernelSound, Registers, Parameters

\* The kernel Laplacian.
LEMMA Laplacian_Sound ==
  KernelSound("Laplacian", <<"image", "image", "INT32", "INT32", "FLOAT32", "FLOAT32", "INT32">>)
<1> DEFINE k == "Laplacian"  v == Laplacian_Validators  file == Laplacian_Kernel
<1>1. Registers(k, v, file)
  BY DEF Registers, OpenCVKernel, Kernel, Laplacian_Validators
<1>2. /\ DOMAIN file.parameters = 1 .. 7
      /\ ImageInput(v, file, 1, {"U8"})
      /\ ImageOutput(v, file, 2, {"U8"})
      /\ \A i \in {3, 4, 7} : ScalarInput(k, v, file, i, "INT32")
      /\ \A i \in {5, 6} : ScalarInput(k, v, file, i, "FLOAT32")
  BY ScalarSets DEF Laplacian_Validators, Laplacian_Kernel, ImageInput, ImageOutput,
     ScalarInput, ScalarType, ImageFormat
<1>3. /\ ParameterSound(k, 1, "image") /\ Sized(k, 1) /\ Convertible(k, 1)
      /\ ParameterSound(k, 2, "image") /\ Sized(k, 2)
      /\ \A i \in {3, 4, 7} : ParameterSound(k, i, "INT32")
      /\ \A i \in {5, 6} : ParameterSound(k, i, "FLOAT32")
  BY <1>1, <1>2, ImageInputSound, ImageOutputSound, ScalarInputSound DEF ConvertibleFormats
<1>4. \A n \in DOMAIN file.body : StepSound(k, file.body[n])
  BY <1>3 DEF StepSound, Laplacian_Kernel
<1> QED BY <1>1, <1>2, <1>3, <1>4 DEF KernelSound, Registers, Parameters

\* The kernel MSER_detect.
LEMMA MSER_detect_Sound ==
  KernelSound("MSER_detect",
    <<"image", "array", "image", "INT32", "INT32", "INT32", "FLOAT32", "FLOAT32", "INT32",
    "FLOAT32", "FLOAT32", "INT32">>)
<1> DEFINE k == "MSER_detect"  v == MSER_detect_Validators  file == MSER_detect_Kernel
<1>1. Registers(k, v, file)
  BY DEF Registers, OpenCVKernel, Kernel, MSER_detect_Validators
<1>2. /\ DOMAIN file.parameters = 1 .. 12
      /\ \A i \in {1, 3} : ImageInput(v, file, i, {"U8"})
      /\ ArrayUpdate(v, file, 2)
      /\ \A i \in {4, 5, 6, 9, 12} : ScalarInput(k, v, file, i, "INT32")
      /\ \A i \in {7, 8, 10, 11} : ScalarInput(k, v, file, i, "FLOAT32")
  BY ScalarSets DEF MSER_detect_Validators, MSER_detect_Kernel, ImageInput, ArrayUpdate,
     ScalarInput, ScalarType, ImageFormat, Only, PointSize
<1>3. /\ \A i \in {1, 3} : ParameterSound(k, i, "image") /\ Sized(k, i) /\ Convertible(k, i)
      /\ ParameterSound(k, 2, "array") /\ Arrays(k, 2)
      /\ \A i \in {4, 5, 6, 9, 12} : ParameterSound(k, i, "INT32")
      /\ \A i \in {7, 8, 10, 11} : ParameterSound(k, i, "FLOAT32")
  BY <1>1, <1>2, ImageInputSound, ArrayUpdateSound, ScalarInputSound DEF ConvertibleFormats
<1>4. \A n \in DOMAIN file.body : StepSound(k, file.body[n])
  BY <1>3 DEF StepSound, MSER_detect_Kernel, Holds, DescriptorSize, PointSize
<1> QED BY <1>1, <1>2, <1>3, <1>4 DEF KernelSound, Registers, Parameters

\* The kernel MedianBlur.
LEMMA MedianBlur_Sound ==
  KernelSound("MedianBlur", <<"image", "image", "INT32">>)
<1> DEFINE k == "MedianBlur"  v == MedianBlur_Validators  file == MedianBlur_Kernel
<1>1. Registers(k, v, file)
  BY DEF Registers, OpenCVKernel, Kernel, MedianBlur_Validators
<1>2. /\ DOMAIN file.parameters = 1 .. 3
      /\ ImageInput(v, file, 1, {"U8"})
      /\ ImageOutput(v, file, 2, {"U8"})
      /\ ScalarInput(k, v, file, 3, "INT32")
  BY ScalarSets DEF MedianBlur_Validators, MedianBlur_Kernel, ImageInput, ImageOutput,
     ScalarInput, ScalarType, ImageFormat
<1>3. /\ ParameterSound(k, 1, "image") /\ Sized(k, 1) /\ Convertible(k, 1)
      /\ ParameterSound(k, 2, "image") /\ Sized(k, 2)
      /\ ParameterSound(k, 3, "INT32")
  BY <1>1, <1>2, ImageInputSound, ImageOutputSound, ScalarInputSound DEF ConvertibleFormats
<1>4. \A n \in DOMAIN file.body : StepSound(k, file.body[n])
  BY <1>3 DEF StepSound, MedianBlur_Kernel
<1> QED BY <1>1, <1>2, <1>3, <1>4 DEF KernelSound, Registers, Parameters

\* The kernel ORB_detect.
LEMMA ORB_detect_Sound ==
  KernelSound("ORB_detect",
    <<"image", "image", "array", "INT32", "FLOAT32", "INT32", "INT32", "INT32", "INT32",
    "INT32", "INT32">>)
<1> DEFINE k == "ORB_detect"  v == ORB_detect_Validators  file == ORB_detect_Kernel
<1>1. Registers(k, v, file)
  BY DEF Registers, OpenCVKernel, Kernel, ORB_detect_Validators
<1>2. /\ DOMAIN file.parameters = 1 .. 11
      /\ \A i \in {1, 2} : ImageInput(v, file, i, {"U8"})
      /\ ArrayUpdate(v, file, 3)
      /\ \A i \in {4, 6, 7, 8, 9, 10, 11} : ScalarInput(k, v, file, i, "INT32")
      /\ ScalarInput(k, v, file, 5, "FLOAT32")
  BY ScalarSets DEF ORB_detect_Validators, ORB_detect_Kernel, ImageInput, ArrayUpdate,
     ScalarInput, ScalarType, ImageFormat, Only, PointSize
<1>3. /\ \A i \in {1, 2} : ParameterSound(k, i, "image") /\ Sized(k, i) /\ Convertible(k, i)
      /\ ParameterSound(k, 3, "array") /\ Arrays(k, 3)
      /\ \A i \in {4, 6, 7, 8, 9, 10, 11} : ParameterSound(k, i, "INT32")
      /\ ParameterSound(k, 5, "FLOAT32")
  BY <1>1, <1>2, ImageInputSound, ArrayUpdateSound, ScalarInputSound DEF ConvertibleFormats
<1>4. \A n \in DOMAIN file.body : StepSound(k, file.body[n])
  BY <1>3 DEF StepSound, ORB_detect_Kernel, Holds, DescriptorSize, PointSize
<1> QED BY <1>1, <1>2, <1>3, <1>4 DEF KernelSound, Registers, Parameters

\* The kernel SIFT_compute.
LEMMA SIFT_compute_Sound ==
  KernelSound("SIFT_compute",
    <<"image", "image", "array", "array", "INT32", "INT32", "FLOAT32", "FLOAT32", "FLOAT32">>)
<1> DEFINE k == "SIFT_compute"  v == SIFT_compute_Validators  file == SIFT_compute_Kernel
<1>1. Registers(k, v, file)
  BY DEF Registers, OpenCVKernel, Kernel, SIFT_compute_Validators
<1>2. /\ DOMAIN file.parameters = 1 .. 9
      /\ \A i \in {1, 2} : ImageInput(v, file, i, {"U8"})
      /\ \A i \in {3, 4} : ArrayUpdate(v, file, i)
      /\ \A i \in {5, 6} : ScalarInput(k, v, file, i, "INT32")
      /\ \A i \in 7 .. 9 : ScalarInput(k, v, file, i, "FLOAT32")
  BY ScalarSets DEF SIFT_compute_Validators, SIFT_compute_Kernel, ImageInput, ArrayUpdate,
     ScalarInput, ScalarType, ImageFormat, Only, PointSize
<1>3. /\ \A i \in {1, 2} : ParameterSound(k, i, "image") /\ Sized(k, i) /\ Convertible(k, i)
      /\ \A i \in {3, 4} : ParameterSound(k, i, "array") /\ Arrays(k, i)
      /\ \A i \in {5, 6} : ParameterSound(k, i, "INT32")
      /\ \A i \in 7 .. 9 : ParameterSound(k, i, "FLOAT32")
  BY <1>1, <1>2, ImageInputSound, ArrayUpdateSound, ScalarInputSound DEF ConvertibleFormats
<1>4. \A n \in DOMAIN file.body : StepSound(k, file.body[n])
  BY <1>3 DEF StepSound, SIFT_compute_Kernel, Holds, DescriptorSize, PointSize
<1> QED BY <1>1, <1>2, <1>3, <1>4 DEF KernelSound, Registers, Parameters

\* The kernel SIFT_detect.
LEMMA SIFT_detect_Sound ==
  KernelSound("SIFT_detect",
    <<"image", "image", "array", "INT32", "INT32", "FLOAT32", "FLOAT32", "FLOAT32">>)
<1> DEFINE k == "SIFT_detect"  v == SIFT_detect_Validators  file == SIFT_detect_Kernel
<1>1. Registers(k, v, file)
  BY DEF Registers, OpenCVKernel, Kernel, SIFT_detect_Validators
<1>2. /\ DOMAIN file.parameters = 1 .. 8
      /\ \A i \in {1, 2} : ImageInput(v, file, i, {"U8"})
      /\ ArrayUpdate(v, file, 3)
      /\ \A i \in {4, 5} : ScalarInput(k, v, file, i, "INT32")
      /\ \A i \in 6 .. 8 : ScalarInput(k, v, file, i, "FLOAT32")
  BY ScalarSets DEF SIFT_detect_Validators, SIFT_detect_Kernel, ImageInput, ArrayUpdate,
     ScalarInput, ScalarType, ImageFormat, Only, PointSize
<1>3. /\ \A i \in {1, 2} : ParameterSound(k, i, "image") /\ Sized(k, i) /\ Convertible(k, i)
      /\ ParameterSound(k, 3, "array") /\ Arrays(k, 3)
      /\ \A i \in {4, 5} : ParameterSound(k, i, "INT32")
      /\ \A i \in 6 .. 8 : ParameterSound(k, i, "FLOAT32")
  BY <1>1, <1>2, ImageInputSound, ArrayUpdateSound, ScalarInputSound DEF ConvertibleFormats
<1>4. \A n \in DOMAIN file.body : StepSound(k, file.body[n])
  BY <1>3 DEF StepSound, SIFT_detect_Kernel, Holds, DescriptorSize, PointSize
<1> QED BY <1>1, <1>2, <1>3, <1>4 DEF KernelSound, Registers, Parameters

\* The kernel SURF_compute.
LEMMA SURF_compute_Sound ==
  KernelSound("SURF_compute",
    <<"image", "image", "array", "array", "FLOAT32", "INT32", "INT32", "BOOL", "BOOL">>)
<1> DEFINE k == "SURF_compute"  v == SURF_compute_Validators  file == SURF_compute_Kernel
<1>1. Registers(k, v, file)
  BY DEF Registers, OpenCVKernel, Kernel, SURF_compute_Validators
<1>2. /\ DOMAIN file.parameters = 1 .. 9
      /\ \A i \in {1, 2} : ImageInput(v, file, i, {"U8"})
      /\ \A i \in {3, 4} : ArrayUpdate(v, file, i)
      /\ ScalarInput(k, v, file, 5, "FLOAT32")
      /\ \A i \in {6, 7} : ScalarInput(k, v, file, i, "INT32")
      /\ \A i \in {8, 9} : ScalarInput(k, v, file, i, "BOOL")
  BY ScalarSets DEF SURF_compute_Validators, SURF_compute_Kernel, ImageInput, ArrayUpdate,
     ScalarInput, ScalarType, ImageFormat, Only, PointSize, Ignored
<1>3. /\ \A i \in {1, 2} : ParameterSound(k, i, "image") /\ Sized(k, i) /\ Convertible(k, i)
      /\ \A i \in {3, 4} : ParameterSound(k, i, "array") /\ Arrays(k, i)
      /\ ParameterSound(k, 5, "FLOAT32")
      /\ \A i \in {6, 7} : ParameterSound(k, i, "INT32")
      /\ \A i \in {8, 9} : ParameterSound(k, i, "BOOL")
  BY <1>1, <1>2, ImageInputSound, ArrayUpdateSound, ScalarInputSound DEF ConvertibleFormats
<1>4. \A n \in DOMAIN file.body : StepSound(k, file.body[n])
  BY <1>3 DEF StepSound, SURF_compute_Kernel, Holds, DescriptorSize, PointSize
<1> QED BY <1>1, <1>2, <1>3, <1>4 DEF KernelSound, Registers, Parameters

\* The kernel SURF_detect.
LEMMA SURF_detect_Sound ==
  KernelSound("SURF_detect", <<"image", "image", "array", "FLOAT32", "INT32", "INT32">>)
<1> DEFINE k == "SURF_detect"  v == SURF_detect_Validators  file == SURF_detect_Kernel
<1>1. Registers(k, v, file)
  BY DEF Registers, OpenCVKernel, Kernel, SURF_detect_Validators
<1>2. /\ DOMAIN file.parameters = 1 .. 6
      /\ \A i \in {1, 2} : ImageInput(v, file, i, {"U8"})
      /\ ArrayUpdate(v, file, 3)
      /\ ScalarInput(k, v, file, 4, "FLOAT32")
      /\ \A i \in {5, 6} : ScalarInput(k, v, file, i, "INT32")
  BY ScalarSets DEF SURF_detect_Validators, SURF_detect_Kernel, ImageInput, ArrayUpdate,
     ScalarInput, ScalarType, ImageFormat, Only, PointSize
<1>3. /\ \A i \in {1, 2} : ParameterSound(k, i, "image") /\ Sized(k, i) /\ Convertible(k, i)
      /\ ParameterSound(k, 3, "array") /\ Arrays(k, 3)
      /\ ParameterSound(k, 4, "FLOAT32")
      /\ \A i \in {5, 6} : ParameterSound(k, i, "INT32")
  BY <1>1, <1>2, ImageInputSound, ArrayUpdateSound, ScalarInputSound DEF ConvertibleFormats
<1>4. \A n \in DOMAIN file.body : StepSound(k, file.body[n])
  BY <1>3 DEF StepSound, SURF_detect_Kernel, Holds, DescriptorSize, PointSize
<1> QED BY <1>1, <1>2, <1>3, <1>4 DEF KernelSound, Registers, Parameters

\* The kernel Scharr.
LEMMA Scharr_Sound ==
  KernelSound("Scharr",
    <<"image", "image", "INT32", "INT32", "INT32", "FLOAT32", "FLOAT32", "INT32">>)
<1> DEFINE k == "Scharr"  v == Scharr_Validators  file == Scharr_Kernel
<1>1. Registers(k, v, file)
  BY DEF Registers, OpenCVKernel, Kernel, Scharr_Validators
<1>2. /\ DOMAIN file.parameters = 1 .. 8
      /\ ImageInput(v, file, 1, {"U8"})
      /\ ImageOutput(v, file, 2, {"U8"})
      /\ \A i \in {3, 4, 5, 8} : ScalarInput(k, v, file, i, "INT32")
      /\ \A i \in {6, 7} : ScalarInput(k, v, file, i, "FLOAT32")
  BY ScalarSets DEF Scharr_Validators, Scharr_Kernel, ImageInput, ImageOutput, ScalarInput,
     ScalarType, ImageFormat
<1>3. /\ ParameterSound(k, 1, "image") /\ Sized(k, 1) /\ Convertible(k, 1)
      /\ ParameterSound(k, 2, "image") /\ Sized(k, 2)
      /\ \A i \in {3, 4, 5, 8} : ParameterSound(k, i, "INT32")
      /\ \A i \in {6, 7} : ParameterSound(k, i, "FLOAT32")
  BY <1>1, <1>2, ImageInputSound, ImageOutputSound, ScalarInputSound DEF ConvertibleFormats
<1>4. \A n \in DOMAIN file.body : StepSound(k, file.body[n])
  BY <1>3 DEF StepSound, Scharr_Kernel
<1> QED BY <1>1, <1>2, <1>3, <1>4 DEF KernelSound, Registers, Parameters

\* The kernel Sobel.
LEMMA Sobel_Sound ==
  KernelSound("Sobel",
    <<"image", "image", "INT32", "INT32", "INT32", "INT32", "FLOAT32", "FLOAT32", "INT32">>)
<1> DEFINE k == "Sobel"  v == Sobel_Validators  file == Sobel_Kernel
<1>1. Registers(k, v, file)
  BY DEF Registers, OpenCVKernel, Kernel, Sobel_Validators
<1>2. /\ DOMAIN file.parameters = 1 .. 9
      /\ ImageInput(v, file, 1, {"U8"})
      /\ ImageOutput(v, file, 2, {"U8"})
      /\ \A i \in {3, 4, 5, 6, 9} : ScalarInput(k, v, file, i, "INT32")
      /\ \A i \in {7, 8} : ScalarInput(k, v, file, i, "FLOAT32")
  BY ScalarSets DEF Sobel_Validators, Sobel_Kernel, ImageInput, ImageOutput, ScalarInput,
     ScalarType, ImageFormat
<1>3. /\ ParameterSound(k, 1, "image") /\ Sized(k, 1) /\ Convertible(k, 1)
      /\ ParameterSound(k, 2, "image") /\ Sized(k, 2)
      /\ \A i \in {3, 4, 5, 6, 9} : ParameterSound(k, i, "INT32")
      /\ \A i \in {7, 8} : ParameterSound(k, i, "FLOAT32")
  BY <1>1, <1>2, ImageInputSound, ImageOutputSound, ScalarInputSound DEF ConvertibleFormats
<1>4. \A n \in DOMAIN file.body : StepSound(k, file.body[n])
  BY <1>3 DEF StepSound, Sobel_Kernel
<1> QED BY <1>1, <1>2, <1>3, <1>4 DEF KernelSound, Registers, Parameters

\* The kernel star_detect.
LEMMA star_detect_Sound ==
  KernelSound("star_detect",
    <<"image", "array", "image", "INT32", "INT32", "INT32", "INT32", "INT32">>)
<1> DEFINE k == "star_detect"  v == star_detect_Validators  file == star_detect_Kernel
<1>1. Registers(k, v, file)
  BY DEF Registers, OpenCVKernel, Kernel, star_detect_Validators
<1>2. /\ DOMAIN file.parameters = 1 .. 8
      /\ \A i \in {1, 3} : ImageInput(v, file, i, {"U8"})
      /\ ArrayUpdate(v, file, 2)
      /\ \A i \in 4 .. 8 : ScalarInput(k, v, file, i, "INT32")
  BY ScalarSets DEF star_detect_Validators, star_detect_Kernel, ImageInput, ArrayUpdate,
     ScalarInput, ScalarType, ImageFormat, Only, PointSize
<1>3. /\ \A i \in {1, 3} : ParameterSound(k, i, "image") /\ Sized(k, i) /\ Convertible(k, i)
      /\ ParameterSound(k, 2, "array") /\ Arrays(k, 2)
      /\ \A i \in 4 .. 8 : ParameterSound(k, i, "INT32")
  BY <1>1, <1>2, ImageInputSound, ArrayUpdateSound, ScalarInputSound DEF ConvertibleFormats
<1>4. \A n \in DOMAIN file.body : StepSound(k, file.body[n])
  BY <1>3 DEF StepSound, star_detect_Kernel, Holds, DescriptorSize, PointSize
<1> QED BY <1>1, <1>2, <1>3, <1>4 DEF KernelSound, Registers, Parameters

\* The kernel absdiff.
LEMMA absdiff_Sound ==
  KernelSound("absdiff", <<"image", "image", "image">>)
<1> DEFINE k == "absdiff"  v == absdiff_Validators  file == absdiff_Kernel
<1>1. Registers(k, v, file)
  BY DEF Registers, OpenCVKernel, Kernel, absdiff_Validators
<1>2. /\ DOMAIN file.parameters = 1 .. 3
      /\ \A i \in {1, 2} : ImageInput(v, file, i, {"U8", "S16"})
      /\ ImageOutput(v, file, 3, {"U8", "S16"})
  BY DEF absdiff_Validators, absdiff_Kernel, ImageInput, ImageOutput, ImageFormat
<1>3. /\ \A i \in {1, 2} : ParameterSound(k, i, "image") /\ Sized(k, i) /\ Convertible(k, i)
      /\ ParameterSound(k, 3, "image") /\ Sized(k, 3)
  BY <1>1, <1>2, ImageInputSound, ImageOutputSound DEF ConvertibleFormats
<1>4. \A n \in DOMAIN file.body : StepSound(k, file.body[n])
  BY <1>3 DEF StepSound, absdiff_Kernel
<1> QED BY <1>1, <1>2, <1>3, <1>4 DEF KernelSound, Registers, Parameters

\* The kernel adaptiveThreshold.
LEMMA adaptiveThreshold_Sound ==
  KernelSound("adaptiveThreshold",
    <<"image", "image", "FLOAT32", "INT32", "INT32", "INT32", "FLOAT32">>)
<1> DEFINE k == "adaptiveThreshold"  v == adaptiveThreshold_Validators
           file == adaptiveThreshold_Kernel
<1>1. Registers(k, v, file)
  BY DEF Registers, OpenCVKernel, Kernel, adaptiveThreshold_Validators
<1>2. /\ DOMAIN file.parameters = 1 .. 7
      /\ ImageInput(v, file, 1, {"U8"})
      /\ ImageOutput(v, file, 2, {"U8"})
      /\ \A i \in {3, 7} : ScalarInput(k, v, file, i, "FLOAT32")
      /\ \A i \in 4 .. 6 : ScalarInput(k, v, file, i, "INT32")
  BY ScalarSets DEF adaptiveThreshold_Validators, adaptiveThreshold_Kernel, ImageInput,
     ImageOutput, ScalarInput, ScalarType, ImageFormat
<1>3. /\ ParameterSound(k, 1, "image") /\ Sized(k, 1) /\ Convertible(k, 1)
      /\ ParameterSound(k, 2, "image") /\ Sized(k, 2)
      /\ \A i \in {3, 7} : ParameterSound(k, i, "FLOAT32")
      /\ \A i \in 4 .. 6 : ParameterSound(k, i, "INT32")
  BY <1>1, <1>2, ImageInputSound, ImageOutputSound, ScalarInputSound DEF ConvertibleFormats
<1>4. \A n \in DOMAIN file.body : StepSound(k, file.body[n])
  BY <1>3 DEF StepSound, adaptiveThreshold_Kernel
<1> QED BY <1>1, <1>2, <1>3, <1>4 DEF KernelSound, Registers, Parameters

\* The kernel add.
LEMMA add_Sound ==
  KernelSound("add", <<"image", "image", "image">>)
<1> DEFINE k == "add"  v == add_Validators  file == add_Kernel
<1>1. Registers(k, v, file)
  BY DEF Registers, OpenCVKernel, Kernel, add_Validators
<1>2. /\ DOMAIN file.parameters = 1 .. 3
      /\ \A i \in {1, 2} : ImageInput(v, file, i, {"U8", "S16"})
      /\ ImageOutput(v, file, 3, {"U8", "S16"})
  BY DEF add_Validators, add_Kernel, ImageInput, ImageOutput, ImageFormat
<1>3. /\ \A i \in {1, 2} : ParameterSound(k, i, "image") /\ Sized(k, i) /\ Convertible(k, i)
      /\ ParameterSound(k, 3, "image") /\ Sized(k, 3)
  BY <1>1, <1>2, ImageInputSound, ImageOutputSound DEF ConvertibleFormats
<1>4. \A n \in DOMAIN file.body : StepSound(k, file.body[n])
  BY <1>3 DEF StepSound, add_Kernel
<1> QED BY <1>1, <1>2, <1>3, <1>4 DEF KernelSound, Registers, Parameters

\* The kernel bilateralFilter.
LEMMA bilateralFilter_Sound ==
  KernelSound("bilateralFilter", <<"image", "image", "INT32", "FLOAT32", "FLOAT32", "INT32">>)
<1> DEFINE k == "bilateralFilter"  v == bilateralFilter_Validators  file == bilateralFilter_Kernel
<1>1. Registers(k, v, file)
  BY DEF Registers, OpenCVKernel, Kernel, bilateralFilter_Validators
<1>2. /\ DOMAIN file.parameters = 1 .. 6
      /\ ImageInput(v, file, 1, {"U8"})
      /\ ImageOutput(v, file, 2, {"U8"})
      /\ \A i \in {3, 6} : ScalarInput(k, v, file, i, "INT32")
      /\ \A i \in {4, 5} : ScalarInput(k, v, file, i, "FLOAT32")
  BY ScalarSets DEF bilateralFilter_Validators, bilateralFilter_Kernel, ImageInput,
     ImageOutput, ScalarInput, ScalarType, ImageFormat
<1>3. /\ ParameterSound(k, 1, "image") /\ Sized(k, 1) /\ Convertible(k, 1)
      /\ ParameterSound(k, 2, "image") /\ Sized(k, 2)
      /\ \A i \in {3, 6} : ParameterSound(k, i, "INT32")
      /\ \A i \in {4, 5} : ParameterSound(k, i, "FLOAT32")
  BY <1>1, <1>2, ImageInputSound, ImageOutputSound, ScalarInputSound DEF ConvertibleFormats
<1>4. \A n \in DOMAIN file.body : StepSound(k, file.body[n])
  BY <1>3 DEF StepSound, bilateralFilter_Kernel
<1> QED BY <1>1, <1>2, <1>3, <1>4 DEF KernelSound, Registers, Parameters

\* The kernel bitwise_and.
LEMMA bitwise_and_Sound ==
  KernelSound("bitwise_and", <<"image", "image", "image">>)
<1> DEFINE k == "bitwise_and"  v == bitwise_and_Validators  file == bitwise_and_Kernel
<1>1. Registers(k, v, file)
  BY DEF Registers, OpenCVKernel, Kernel, bitwise_and_Validators
<1>2. /\ DOMAIN file.parameters = 1 .. 3
      /\ \A i \in {1, 2} : ImageInput(v, file, i, {"U8", "S16"})
      /\ ImageOutput(v, file, 3, {"U8", "S16"})
  BY DEF bitwise_and_Validators, bitwise_and_Kernel, ImageInput, ImageOutput, ImageFormat
<1>3. /\ \A i \in {1, 2} : ParameterSound(k, i, "image") /\ Sized(k, i) /\ Convertible(k, i)
      /\ ParameterSound(k, 3, "image") /\ Sized(k, 3)
  BY <1>1, <1>2, ImageInputSound, ImageOutputSound DEF ConvertibleFormats
<1>4. \A n \in DOMAIN file.body : StepSound(k, file.body[n])
  BY <1>3 DEF StepSound, bitwise_and_Kernel
<1> QED BY <1>1, <1>2, <1>3, <1>4 DEF KernelSound, Registers, Parameters

\* The kernel bitwise_not.
LEMMA bitwise_not_Sound ==
  KernelSound("bitwise_not", <<"image", "image">>)
<1> DEFINE k == "bitwise_not"  v == bitwise_not_Validators  file == bitwise_not_Kernel
<1>1. Registers(k, v, file)
  BY DEF Registers, OpenCVKernel, Kernel, bitwise_not_Validators
<1>2. /\ DOMAIN file.parameters = 1 .. 2
      /\ ImageInput(v, file, 1, {"U8", "S16"})
      /\ ImageOutput(v, file, 2, {"U8", "S16"})
  BY DEF bitwise_not_Validators, bitwise_not_Kernel, ImageInput, ImageOutput, ImageFormat
<1>3. /\ ParameterSound(k, 1, "image") /\ Sized(k, 1) /\ Convertible(k, 1)
      /\ ParameterSound(k, 2, "image") /\ Sized(k, 2)
  BY <1>1, <1>2, ImageInputSound, ImageOutputSound DEF ConvertibleFormats
<1>4. \A n \in DOMAIN file.body : StepSound(k, file.body[n])
  BY <1>3 DEF StepSound, bitwise_not_Kernel
<1> QED BY <1>1, <1>2, <1>3, <1>4 DEF KernelSound, Registers, Parameters

\* The kernel bitwise_or.
LEMMA bitwise_or_Sound ==
  KernelSound("bitwise_or", <<"image", "image", "image">>)
<1> DEFINE k == "bitwise_or"  v == bitwise_or_Validators  file == bitwise_or_Kernel
<1>1. Registers(k, v, file)
  BY DEF Registers, OpenCVKernel, Kernel, bitwise_or_Validators
<1>2. /\ DOMAIN file.parameters = 1 .. 3
      /\ \A i \in {1, 2} : ImageInput(v, file, i, {"U8", "S16"})
      /\ ImageOutput(v, file, 3, {"U8", "S16"})
  BY DEF bitwise_or_Validators, bitwise_or_Kernel, ImageInput, ImageOutput, ImageFormat
<1>3. /\ \A i \in {1, 2} : ParameterSound(k, i, "image") /\ Sized(k, i) /\ Convertible(k, i)
      /\ ParameterSound(k, 3, "image") /\ Sized(k, 3)
  BY <1>1, <1>2, ImageInputSound, ImageOutputSound DEF ConvertibleFormats
<1>4. \A n \in DOMAIN file.body : StepSound(k, file.body[n])
  BY <1>3 DEF StepSound, bitwise_or_Kernel
<1> QED BY <1>1, <1>2, <1>3, <1>4 DEF KernelSound, Registers, Parameters

\* The kernel bitwise_xor.
LEMMA bitwise_xor_Sound ==
  KernelSound("bitwise_xor", <<"image", "image", "image">>)
<1> DEFINE k == "bitwise_xor"  v == bitwise_xor_Validators  file == bitwise_xor_Kernel
<1>1. Registers(k, v, file)
  BY DEF Registers, OpenCVKernel, Kernel, bitwise_xor_Validators
<1>2. /\ DOMAIN file.parameters = 1 .. 3
      /\ \A i \in {1, 2} : ImageInput(v, file, i, {"U8", "S16"})
      /\ ImageOutput(v, file, 3, {"U8", "S16"})
  BY DEF bitwise_xor_Validators, bitwise_xor_Kernel, ImageInput, ImageOutput, ImageFormat
<1>3. /\ \A i \in {1, 2} : ParameterSound(k, i, "image") /\ Sized(k, i) /\ Convertible(k, i)
      /\ ParameterSound(k, 3, "image") /\ Sized(k, 3)
  BY <1>1, <1>2, ImageInputSound, ImageOutputSound DEF ConvertibleFormats
<1>4. \A n \in DOMAIN file.body : StepSound(k, file.body[n])
  BY <1>3 DEF StepSound, bitwise_xor_Kernel
<1> QED BY <1>1, <1>2, <1>3, <1>4 DEF KernelSound, Registers, Parameters

\* The kernel brisk_compute.
LEMMA brisk_compute_Sound ==
  KernelSound("brisk_compute",
    <<"image", "image", "array", "array", "INT32", "INT32", "FLOAT32">>)
<1> DEFINE k == "brisk_compute"  v == brisk_compute_Validators  file == brisk_compute_Kernel
<1>1. Registers(k, v, file)
  BY DEF Registers, OpenCVKernel, Kernel, brisk_compute_Validators
<1>2. /\ DOMAIN file.parameters = 1 .. 7
      /\ \A i \in {1, 2} : ImageInput(v, file, i, {"U8"})
      /\ \A i \in {3, 4} : ArrayUpdate(v, file, i)
      /\ \A i \in {5, 6} : ScalarInput(k, v, file, i, "INT32")
      /\ ScalarInput(k, v, file, 7, "FLOAT32")
  BY ScalarSets DEF brisk_compute_Validators, brisk_compute_Kernel, ImageInput, ArrayUpdate,
     ScalarInput, ScalarType, ImageFormat, Only, PointSize
<1>3. /\ \A i \in {1, 2} : ParameterSound(k, i, "image") /\ Sized(k, i) /\ Convertible(k, i)
      /\ \A i \in {3, 4} : ParameterSound(k, i, "array") /\ Arrays(k, i)
      /\ \A i \in {5, 6} : ParameterSound(k, i, "INT32")
      /\ ParameterSound(k, 7, "FLOAT32")
  BY <1>1, <1>2, ImageInputSound, ArrayUpdateSound, ScalarInputSound DEF ConvertibleFormats
<1>4. \A n \in DOMAIN file.body : StepSound(k, file.body[n])
  BY <1>3 DEF StepSound, brisk_compute_Kernel, Holds, DescriptorSize, PointSize
<1> QED BY <1>1, <1>2, <1>3, <1>4 DEF KernelSound, Registers, Parameters

\* The kernel buildOpticalFlowPyramid.
LEMMA buildOpticalFlowPyramid_Sound ==
  KernelSound("buildOpticalFlowPyramid",
    <<"image", "pyramid", "INT32", "INT32", "INT32", "BOOL", "INT32", "INT32", "BOOL">>)
<1> DEFINE k == "buildOpticalFlowPyramid"  v == buildOpticalFlowPyramid_Validators
           file == buildOpticalFlowPyramid_Kernel
<1>1. Registers(k, v, file)
  BY DEF Registers, OpenCVKernel, Kernel, buildOpticalFlowPyramid_Validators
<1>2. /\ DOMAIN file.parameters = 1 .. 9
      /\ ImageInput(v, file, 1, {"U8"})
      /\ PyramidUpdate(v, file, 2)
      /\ \A i \in {3, 4, 5, 7, 8} : ScalarInput(k, v, file, i, "INT32")
      /\ \A i \in {6, 9} : ScalarInput(k, v, file, i, "BOOL")
  BY ScalarSets DEF buildOpticalFlowPyramid_Validators, buildOpticalFlowPyramid_Kernel,
     ImageInput, PyramidUpdate, ScalarInput, ScalarType, ImageFormat
<1>3. /\ ParameterSound(k, 1, "image") /\ Sized(k, 1) /\ Convertible(k, 1)
      /\ ParameterSound(k, 2, "pyramid") /\ Pyramids(k, 2)
      /\ \A i \in {3, 4, 5, 7, 8} : ParameterSound(k, i, "INT32")
      /\ \A i \in {6, 9} : ParameterSound(k, i, "BOOL")
  BY <1>1, <1>2, ImageInputSound, PyramidUpdateSound, ScalarInputSound DEF
     ConvertibleFormats
<1>4. \A n \in DOMAIN file.body : StepSound(k, file.body[n])
  BY <1>3 DEF StepSound, buildOpticalFlowPyramid_Kernel
<1> QED BY <1>1, <1>2, <1>3, <1>4 DEF KernelSound, Registers, Parameters

\* The kernel buildPyramid.
LEMMA buildPyramid_Sound ==
  KernelSound("buildPyramid", <<"image", "pyramid", "INT32", "INT32">>)
<1> DEFINE k == "buildPyramid"  v == buildPyramid_Validators  file == buildPyramid_Kernel
<1>1. Registers(k, v, file)
  BY DEF Registers, OpenCVKernel, Kernel, buildPyramid_Validators
<1>2. /\ DOMAIN file.parameters = 1 .. 4
      /\ ImageInput(v, file, 1, {"U8"})
      /\ PyramidUpdate(v, file, 2)
      /\ \A i \in {3, 4} : ScalarInput(k, v, file, i, "INT32")
  BY ScalarSets DEF buildPyramid_Validators, buildPyramid_Kernel, ImageInput, PyramidUpdate,
     ScalarInput, ScalarType, ImageFormat
<1>3. /\ ParameterSound(k, 1, "image") /\ Sized(k, 1) /\ Convertible(k, 1)
      /\ ParameterSound(k, 2, "pyramid") /\ Pyramids(k, 2)
      /\ \A i \in {3, 4} : ParameterSound(k, i, "INT32")
  BY <1>1, <1>2, ImageInputSound, PyramidUpdateSound, ScalarInputSound DEF
     ConvertibleFormats
<1>4. \A n \in DOMAIN file.body : StepSound(k, file.body[n])
  BY <1>3 DEF StepSound, buildPyramid_Kernel
<1> QED BY <1>1, <1>2, <1>3, <1>4 DEF KernelSound, Registers, Parameters

\* The kernel compare.
LEMMA compare_Sound ==
  KernelSound("compare", <<"image", "image", "image", "INT32">>)
<1> DEFINE k == "compare"  v == compare_Validators  file == compare_Kernel
<1>1. Registers(k, v, file)
  BY DEF Registers, OpenCVKernel, Kernel, compare_Validators
<1>2. /\ DOMAIN file.parameters = 1 .. 4
      /\ \A i \in {1, 2} : ImageInput(v, file, i, {"U8", "S16"})
      /\ ImageOutput(v, file, 3, {"U8", "S16"})
      /\ ScalarInput(k, v, file, 4, "INT32")
  BY ScalarSets DEF compare_Validators, compare_Kernel, ImageInput, ImageOutput,
     ScalarInput, ScalarType, ImageFormat
<1>3. /\ \A i \in {1, 2} : ParameterSound(k, i, "image") /\ Sized(k, i) /\ Convertible(k, i)
      /\ ParameterSound(k, 3, "image") /\ Sized(k, 3)
      /\ ParameterSound(k, 4, "INT32")
  BY <1>1, <1>2, ImageInputSound, ImageOutputSound, ScalarInputSound DEF ConvertibleFormats
<1>4. \A n \in DOMAIN file.body : StepSound(k, file.body[n])
  BY <1>3 DEF StepSound, compare_Kernel
<1> QED BY <1>1, <1>2, <1>3, <1>4 DEF KernelSound, Registers, Parameters

\* The kernel convertScaleAbs.
LEMMA convertScaleAbs_Sound ==
  KernelSound("convertScaleAbs", <<"image", "image", "FLOAT32", "FLOAT32">>)
<1> DEFINE k == "convertScaleAbs"  v == convertScaleAbs_Validators  file == convertScaleAbs_Kernel
<1>1. Registers(k, v, file)
  BY DEF Registers, OpenCVKernel, Kernel, convertScaleAbs_Validators
<1>2. /\ DOMAIN file.parameters = 1 .. 4
      /\ ImageInput(v, file, 1, {"U8", "U16", "S16"})
      /\ ImageOutput(v, file, 2, {"U8"})
      /\ \A i \in {3, 4} : ScalarInput(k, v, file, i, "FLOAT32")
  BY ScalarSets DEF convertScaleAbs_Validators, convertScaleAbs_Kernel, ImageInput,
     ImageOutput, ScalarInput, ScalarType, ImageFormat
<1>3. /\ ParameterSound(k, 1, "image") /\ Sized(k, 1) /\ Convertible(k, 1)
      /\ ParameterSound(k, 2, "image") /\ Sized(k, 2)
      /\ \A i \in {3, 4} : ParameterSound(k, i, "FLOAT32")
  BY <1>1, <1>2, ImageInputSound, ImageOutputSound, ScalarInputSound DEF ConvertibleFormats
<1>4. \A n \in DOMAIN file.body : StepSound(k, file.body[n])
  BY <1>3 DEF StepSound, convertScaleAbs_Kernel
<1> QED BY <1>1, <1>2, <1>3, <1>4 DEF KernelSound, Registers, Parameters

\* The kernel cornerHarris.
LEMMA cornerHarris_Sound ==
  KernelSound("cornerHarris", <<"image", "image", "INT32", "INT32", "FLOAT32", "INT32">>)
<1> DEFINE k == "cornerHarris"  v == cornerHarris_Validators  file == cornerHarris_Kernel
<1>1. Registers(k, v, file)
  BY DEF Registers, OpenCVKernel, Kernel, cornerHarris_Validators
<1>2. /\ DOMAIN file.parameters = 1 .. 6
      /\ ImageInput(v, file, 1, {"U8"})
      /\ ImageOutput(v, file, 2, {"U8", "S16"})
      /\ \A i \in {3, 4, 6} : ScalarInput(k, v, file, i, "INT32")
      /\ ScalarInput(k, v, file, 5, "FLOAT32")
  BY ScalarSets DEF cornerHarris_Validators, cornerHarris_Kernel, ImageInput, ImageOutput,
     ScalarInput, ScalarType, ImageFormat
<1>3. /\ ParameterSound(k, 1, "image") /\ Sized(k, 1) /\ Convertible(k, 1)
      /\ ParameterSound(k, 2, "image") /\ Sized(k, 2)
      /\ \A i \in {3, 4, 6} : ParameterSound(k, i, "INT32")
      /\ ParameterSound(k, 5, "FLOAT32")
  BY <1>1, <1>2, ImageInputSound, ImageOutputSound, ScalarInputSound DEF ConvertibleFormats
<1>4. \A n \in DOMAIN file.body : StepSound(k, file.body[n])
  BY <1>3 DEF StepSound, cornerHarris_Kernel
<1> QED BY <1>1, <1>2, <1>3, <1>4 DEF KernelSound, Registers, Parameters

\* The kernel cornerMinEigenVal.
LEMMA cornerMinEigenVal_Sound ==
  KernelSound("cornerMinEigenVal", <<"image", "image", "INT32", "INT32", "INT32">>)
<1> DEFINE k == "cornerMinEigenVal"  v == cornerMinEigenVal_Validators
           file == cornerMinEigenVal_Kernel
<1>1. Registers(k, v, file)
  BY DEF Registers, OpenCVKernel, Kernel, cornerMinEigenVal_Validators
<1>2. /\ DOMAIN file.parameters = 1 .. 5
      /\ ImageInput(v, file, 1, {"U8"})
      /\ ImageOutput(v, file, 2, {"U8"})
      /\ \A i \in 3 .. 5 : ScalarInput(k, v, file, i, "INT32")
  BY ScalarSets DEF cornerMinEigenVal_Validators, cornerMinEigenVal_Kernel, ImageInput,
     ImageOutput, ScalarInput, ScalarType, ImageFormat
<1>3. /\ ParameterSound(k, 1, "image") /\ Sized(k, 1) /\ Convertible(k, 1)
      /\ ParameterSound(k, 2, "image") /\ Sized(k, 2)
      /\ \A i \in 3 .. 5 : ParameterSound(k, i, "INT32")
  BY <1>1, <1>2, ImageInputSound, ImageOutputSound, ScalarInputSound DEF ConvertibleFormats
<1>4. \A n \in DOMAIN file.body : StepSound(k, file.body[n])
  BY <1>3 DEF StepSound, cornerMinEigenVal_Kernel
<1> QED BY <1>1, <1>2, <1>3, <1>4 DEF KernelSound, Registers, Parameters

\* The kernel countNonZero.
LEMMA countNonZero_Sound ==
  KernelSound("countNonZero", <<"image", "INT32">>)
<1> DEFINE k == "countNonZero"  v == countNonZero_Validators  file == countNonZero_Kernel
<1>1. Registers(k, v, file)
  BY DEF Registers, OpenCVKernel, Kernel, countNonZero_Validators
<1>2. /\ DOMAIN file.parameters = 1 .. 2
      /\ ImageInput(v, file, 1, {"U8", "S16"})
      /\ ScalarUpdate(v, file, 2, "INT32")
  BY ScalarSets DEF countNonZero_Validators, countNonZero_Kernel, ImageInput, ScalarUpdate,
     ScalarType, ImageFormat
<1>3. /\ ParameterSound(k, 1, "image") /\ Sized(k, 1) /\ Convertible(k, 1)
      /\ ParameterSound(k, 2, "INT32")
  BY <1>1, <1>2, ImageInputSound, ScalarUpdateSound DEF ConvertibleFormats
<1>4. \A n \in DOMAIN file.body : StepSound(k, file.body[n])
  BY <1>3 DEF StepSound, countNonZero_Kernel
<1> QED BY <1>1, <1>2, <1>3, <1>4 DEF KernelSound, Registers, Parameters

\* The kernel cvtColor.
LEMMA cvtColor_Sound ==
  KernelSound("cvtColor", <<"image", "image", "INT32">>)
<1> DEFINE k == "cvtColor"  v == cvtColor_Validators  file == cvtColor_Kernel
<1>1. Registers(k, v, file)
  BY DEF Registers, OpenCVKernel, Kernel, cvtColor_Validators
<1>2. /\ DOMAIN file.parameters = 1 .. 3
      /\ ImageInput(v, file, 1, {"U8", "S16", "RGB"})
      /\ ImageOutput(v, file, 2, {"U8", "S16", "RGB"})
      /\ ScalarInput(k, v, file, 3, "INT32")
  BY ScalarSets DEF cvtColor_Validators, cvtColor_Kernel, ImageInput, ImageOutput,
     ScalarInput, ScalarType, ImageFormat
<1>3. /\ ParameterSound(k, 1, "image") /\ Sized(k, 1) /\ Convertible(k, 1)
      /\ ParameterSound(k, 2, "image") /\ Sized(k, 2)
      /\ ParameterSound(k, 3, "INT32")
  BY <1>1, <1>2, ImageInputSound, ImageOutputSound, ScalarInputSound DEF ConvertibleFormats
<1>4. \A n \in DOMAIN file.body : StepSound(k, file.body[n])
  BY <1>3 DEF StepSound, cvtColor_Kernel
<1> QED BY <1>1, <1>2, <1>3, <1>4 DEF KernelSound, Registers, Parameters

\* The kernel dilate.
LEMMA dilate_Sound ==
  KernelSound("dilate", <<"image", "image", "matrix", "INT32", "INT32", "INT32", "INT32">>)
<1> DEFINE k == "dilate"  v == dilate_Validators  file == dilate_Kernel
<1>1. Registers(k, v, file)
  BY DEF Registers, OpenCVKernel, Kernel, dilate_Validators
<1>2. /\ DOMAIN file.parameters = 1 .. 7
      /\ ImageInput(v, file, 1, {"U8", "U16", "S16"})
      /\ ImageOutput(v, file, 2, {"U8"})
      /\ MatrixInput(v, file, 3)
      /\ \A i \in 4 .. 7 : ScalarInput(k, v, file, i, "INT32")
  BY ScalarSets DEF dilate_Validators, dilate_Kernel, ImageInput, ImageOutput, MatrixInput,
     ScalarInput, ScalarType, ImageFormat
<1>3. /\ ParameterSound(k, 1, "image") /\ Sized(k, 1) /\ Convertible(k, 1)
      /\ ParameterSound(k, 2, "image") /\ Sized(k, 2)
      /\ ParameterSound(k, 3, "matrix") /\ Matrices(k, 3)
      /\ \A i \in 4 .. 7 : ParameterSound(k, i, "INT32")
  BY <1>1, <1>2, ImageInputSound, ImageOutputSound, MatrixInputSound, ScalarInputSound DEF
     ConvertibleFormats
<1>4. \A n \in DOMAIN file.body : StepSound(k, file.body[n])
  BY <1>3 DEF StepSound, dilate_Kernel
<1> QED BY <1>1, <1>2, <1>3, <1>4 DEF KernelSound, Registers, Parameters

\* The kernel distanceTransform.
LEMMA distanceTransform_Sound ==
  KernelSound("distanceTransform", <<"image", "image">>)
<1> DEFINE k == "distanceTransform"  v == distanceTransform_Validators
           file == distanceTransform_Kernel
<1>1. Registers(k, v, file)
  BY DEF Registers, OpenCVKernel, Kernel, distanceTransform_Validators
<1>2. /\ DOMAIN file.parameters = 1 .. 2
      /\ ImageInput(v, file, 1, {"U8"})
      /\ ImageOutput(v, file, 2, {"U8", "S16"})
  BY DEF distanceTransform_Validators, distanceTransform_Kernel, ImageInput, ImageOutput,
     ImageFormat
<1>3. /\ ParameterSound(k, 1, "image") /\ Sized(k, 1) /\ Convertible(k, 1)
      /\ ParameterSound(k, 2, "image") /\ Sized(k, 2)
  BY <1>1, <1>2, ImageInputSound, ImageOutputSound DEF ConvertibleFormats
<1>4. \A n \in DOMAIN file.body : StepSound(k, file.body[n])
  BY <1>3 DEF StepSound, distanceTransform_Kernel
<1> QED BY <1>1, <1>2, <1>3, <1>4 DEF KernelSound, Registers, Parameters

\* The kernel divide.
LEMMA divide_Sound ==
  KernelSound("divide", <<"image", "image", "image", "FLOAT32", "INT32">>)
<1> DEFINE k == "divide"  v == divide_Validators  file == divide_Kernel
<1>1. Registers(k, v, file)
  BY DEF Registers, OpenCVKernel, Kernel, divide_Validators
<1>2. /\ DOMAIN file.parameters = 1 .. 5
      /\ \A i \in {1, 2} : ImageInput(v, file, i, {"U8", "S16"})
      /\ ImageOutput(v, file, 3, {"U8", "S16"})
      /\ ScalarInput(k, v, file, 4, "FLOAT32")
      /\ ScalarInput(k, v, file, 5, "INT32")
  BY ScalarSets DEF divide_Validators, divide_Kernel, ImageInput, ImageOutput, ScalarInput,
     ScalarType, ImageFormat
<1>3. /\ \A i \in {1, 2} : ParameterSound(k, i, "image") /\ Sized(k, i) /\ Convertible(k, i)
      /\ ParameterSound(k, 3, "image") /\ Sized(k, 3)
      /\ ParameterSound(k, 4, "FLOAT32")
      /\ ParameterSound(k, 5, "INT32")
  BY <1>1, <1>2, ImageInputSound, ImageOutputSound, ScalarInputSound DEF ConvertibleFormats
<1>4. \A n \in DOMAIN file.body : StepSound(k, file.body[n])
  BY <1>3 DEF StepSound, divide_Kernel
<1> QED BY <1>1, <1>2, <1>3, <1>4 DEF KernelSound, Registers, Parameters

\* The kernel erode.
LEMMA erode_Sound ==
  KernelSound("erode", <<"image", "image", "matrix", "INT32", "INT32", "INT32", "INT32">>)
<1> DEFINE k == "erode"  v == erode_Validators  file == erode_Kernel
<1>1. Registers(k, v, file)
  BY DEF Registers, OpenCVKernel, Kernel, erode_Validators
<1>2. /\ DOMAIN file.parameters = 1 .. 7
      /\ ImageInput(v, file, 1, {"U8", "U16", "S16"})
      /\ ImageOutput(v, file, 2, {"U8"})
      /\ MatrixInput(v, file, 3)
      /\ \A i \in 4 .. 7 : ScalarInput(k, v, file, i, "INT32")
  BY ScalarSets DEF erode_Validators, erode_Kernel, ImageInput, ImageOutput, MatrixInput,
     ScalarInput, ScalarType, ImageFormat
<1>3. /\ ParameterSound(k, 1, "image") /\ Sized(k, 1) /\ Convertible(k, 1)
      /\ ParameterSound(k, 2, "image") /\ Sized(k, 2)
      /\ ParameterSound(k, 3, "matrix") /\ Matrices(k, 3)
      /\ \A i \in 4 .. 7 : ParameterSound(k, i, "INT32")
  BY <1>1, <1>2, ImageInputSound, ImageOutputSound, MatrixInputSound, ScalarInputSound DEF
     ConvertibleFormats
<1>4. \A n \in DOMAIN file.body : StepSound(k, file.body[n])
  BY <1>3 DEF StepSound, erode_Kernel
<1> QED BY <1>1, <1>2, <1>3, <1>4 DEF KernelSound, Registers, Parameters

\* The kernel fastNlMeansDenoising.
LEMMA fastNlMeansDenoising_Sound ==
  KernelSound("fastNlMeansDenoising", <<"image", "image", "FLOAT32", "INT32", "INT32">>)
<1> DEFINE k == "fastNlMeansDenoising"  v == fastNlMeansDenoising_Validators
           file == fastNlMeansDenoising_Kernel
<1>1. Registers(k, v, file)
  BY DEF Registers, OpenCVKernel, Kernel, fastNlMeansDenoising_Validators
<1>2. /\ DOMAIN file.parameters = 1 .. 5
      /\ ImageInput(v, file, 1, {"U8"})
      /\ ImageOutput(v, file, 2, {"U8"})
      /\ ScalarInput(k, v, file, 3, "FLOAT32")
      /\ \A i \in {4, 5} : ScalarInput(k, v, file, i, "INT32")
  BY ScalarSets DEF fastNlMeansDenoising_Validators, fastNlMeansDenoising_Kernel,
     ImageInput, ImageOutput, ScalarInput, ScalarType, ImageFormat
<1>3. /\ ParameterSound(k, 1, "image") /\ Sized(k, 1) /\ Convertible(k, 1)
      /\ ParameterSound(k, 2, "image") /\ Sized(k, 2)
      /\ ParameterSound(k, 3, "FLOAT32")
      /\ \A i \in {4, 5} : ParameterSound(k, i, "INT32")
  BY <1>1, <1>2, ImageInputSound, ImageOutputSound, ScalarInputSound DEF ConvertibleFormats
<1>4. \A n \in DOMAIN file.body : StepSound(k, file.body[n])
  BY <1>3 DEF StepSound, fastNlMeansDenoising_Kernel
<1> QED BY <1>1, <1>2, <1>3, <1>4 DEF KernelSound, Registers, Parameters

\* The kernel fastNlMeansDenoisingColored.
LEMMA fastNlMeansDenoisingColored_Sound ==
  KernelSound("fastNlMeansDenoisingColored",
    <<"image", "image", "FLOAT32", "FLOAT32", "INT32", "INT32">>)
<1> DEFINE k == "fastNlMeansDenoisingColored"  v == fastNlMeansDenoisingColored_Validators
           file == fastNlMeansDenoisingColored_Kernel
<1>1. Registers(k, v, file)
  BY DEF Registers, OpenCVKernel, Kernel, fastNlMeansDenoisingColored_Validators
<1>2. /\ DOMAIN file.parameters = 1 .. 6
      /\ ImageInput(v, file, 1, {"RGB"})
      /\ ImageOutput(v, file, 2, {"RGB"})
      /\ \A i \in {3, 4} : ScalarInput(k, v, file, i, "FLOAT32")
      /\ \A i \in {5, 6} : ScalarInput(k, v, file, i, "INT32")
  BY ScalarSets DEF fastNlMeansDenoisingColored_Validators,
     fastNlMeansDenoisingColored_Kernel, ImageInput, ImageOutput, ScalarInput, ScalarType,
     ImageFormat
<1>3. /\ ParameterSound(k, 1, "image") /\ Sized(k, 1) /\ Convertible(k, 1)
      /\ ParameterSound(k, 2, "image") /\ Sized(k, 2)
      /\ \A i \in {3, 4} : ParameterSound(k, i, "FLOAT32")
      /\ \A i \in {5, 6} : ParameterSound(k, i, "INT32")
  BY <1>1, <1>2, ImageInputSound, ImageOutputSound, ScalarInputSound DEF ConvertibleFormats
<1>4. \A n \in DOMAIN file.body : StepSound(k, file.body[n])
  BY <1>3 DEF StepSound, fastNlMeansDenoisingColored_Kernel
<1> QED BY <1>1, <1>2, <1>3, <1>4 DEF KernelSound, Registers, Parameters

\* The kernel filter2D.
LEMMA filter2D_Sound ==
  KernelSound("filter2D",
    <<"image", "image", "INT32", "matrix", "INT32", "INT32", "FLOAT32", "INT32">>)
<1> DEFINE k == "filter2D"  v == filter2D_Validators  file == filter2D_Kernel
<1>1. Registers(k, v, file)
  BY DEF Registers, OpenCVKernel, Kernel, filter2D_Validators
<1>2. /\ DOMAIN file.parameters = 1 .. 8
      /\ ImageInput(v, file, 1, {"U8"})
      /\ ImageOutput(v, file, 2, {"U8"})
      /\ \A i \in {3, 5, 6, 8} : ScalarInput(k, v, file, i, "INT32")
      /\ MatrixInput(v, file, 4)
      /\ ScalarInput(k, v, file, 7, "FLOAT32")
  BY ScalarSets DEF filter2D_Validators, filter2D_Kernel, ImageInput, ImageOutput,
     ScalarInput, MatrixInput, ScalarType, ImageFormat
<1>3. /\ ParameterSound(k, 1, "image") /\ Sized(k, 1) /\ Convertible(k, 1)
      /\ ParameterSound(k, 2, "image") /\ Sized(k, 2)
      /\ \A i \in {3, 5, 6, 8} : ParameterSound(k, i, "INT32")
      /\ ParameterSound(k, 4, "matrix") /\ Matrices(k, 4)
      /\ ParameterSound(k, 7, "FLOAT32")
  BY <1>1, <1>2, ImageInputSound, ImageOutputSound, ScalarInputSound, MatrixInputSound DEF
     ConvertibleFormats
<1>4. \A n \in DOMAIN file.body : StepSound(k, file.body[n])
  BY <1>3 DEF StepSound, filter2D_Kernel
<1> QED BY <1>1, <1>2, <1>3, <1>4 DEF KernelSound, Registers, Parameters

\* The kernel flip.
LEMMA flip_Sound ==
  KernelSound("flip", <<"image", "image", "INT32">>)
<1> DEFINE k == "flip"  v == flip_Validators  file == flip_Kernel
<1>1. Registers(k, v, file)
  BY DEF Registers, OpenCVKernel, Kernel, flip_Validators
<1>2. /\ DOMAIN file.parameters = 1 .. 3
      /\ ImageInput(v, file, 1, {"U8"})
      /\ ImageOutput(v, file, 2, {"U8"})
      /\ ScalarInput(k, v, file, 3, "INT32")
  BY ScalarSets DEF flip_Validators, flip_Kernel, ImageInput, ImageOutput, ScalarInput,
     ScalarType, ImageFormat
<1>3. /\ ParameterSound(k, 1, "image") /\ Sized(k, 1) /\ Convertible(k, 1)
      /\ ParameterSound(k, 2, "image") /\ Sized(k, 2)
      /\ ParameterSound(k, 3, "INT32")
  BY <1>1, <1>2, ImageInputSound, ImageOutputSound, ScalarInputSound DEF ConvertibleFormats
<1>4. \A n \in DOMAIN file.body : StepSound(k, file.body[n])
  BY <1>3 DEF StepSound, flip_Kernel
<1> QED BY <1>1, <1>2, <1>3, <1>4 DEF KernelSound, Registers, Parameters

\* The kernel integral.
LEMMA integral_Sound ==
  KernelSound("integral", <<"image", "image", "INT32">>)
<1> DEFINE k == "integral"  v == integral_Validators  file == integral_Kernel
<1>1. Registers(k, v, file)
  BY DEF Registers, OpenCVKernel, Kernel, integral_Validators
<1>2. /\ DOMAIN file.parameters = 1 .. 3
      /\ ImageInput(v, file, 1, {"U8"})
      /\ ImageOutput(v, file, 2, {"U32", "S32"})
      /\ ScalarInput(k, v, file, 3, "INT32")
  BY ScalarSets DEF integral_Validators, integral_Kernel, ImageInput, ImageOutput,
     ScalarInput, ScalarType, ImageFormat
<1>3. /\ ParameterSound(k, 1, "image") /\ Sized(k, 1) /\ Convertible(k, 1)
      /\ ParameterSound(k, 2, "image") /\ Sized(k, 2)
      /\ ParameterSound(k, 3, "INT32")
  BY <1>1, <1>2, ImageInputSound, ImageOutputSound, ScalarInputSound DEF ConvertibleFormats
<1>4. \A n \in DOMAIN file.body : StepSound(k, file.body[n])
  BY <1>3 DEF StepSound, integral_Kernel
<1> QED BY <1>1, <1>2, <1>3, <1>4 DEF KernelSound, Registers, Parameters

\* The kernel morphologyEx.
LEMMA morphologyEx_Sound ==
  KernelSound("morphologyEx",
    <<"image", "image", "INT32", "matrix", "INT32", "INT32", "INT32", "INT32">>)
<1> DEFINE k == "morphologyEx"  v == morphologyEx_Validators  file == morphologyEx_Kernel
<1>1. Registers(k, v, file)
  BY DEF Registers, OpenCVKernel, Kernel, morphologyEx_Validators
<1>2. /\ DOMAIN file.parameters = 1 .. 8
      /\ ImageInput(v, file, 1, {"U8"})
      /\ ImageOutput(v, file, 2, {"U8"})
      /\ \A i \in {3, 5, 6, 7, 8} : ScalarInput(k, v, file, i, "INT32")
      /\ MatrixInput(v, file, 4)
  BY ScalarSets DEF morphologyEx_Validators, morphologyEx_Kernel, ImageInput, ImageOutput,
     ScalarInput, MatrixInput, ScalarType, ImageFormat
<1>3. /\ ParameterSound(k, 1, "image") /\ Sized(k, 1) /\ Convertible(k, 1)
      /\ ParameterSound(k, 2, "image") /\ Sized(k, 2)
      /\ \A i \in {3, 5, 6, 7, 8} : ParameterSound(k, i, "INT32")
      /\ ParameterSound(k, 4, "matrix") /\ Matrices(k, 4)
  BY <1>1, <1>2, ImageInputSound, ImageOutputSound, ScalarInputSound, MatrixInputSound DEF
     ConvertibleFormats
<1>4. \A n \in DOMAIN file.body : StepSound(k, file.body[n])
  BY <1>3 DEF StepSound, morphologyEx_Kernel
<1> QED BY <1>1, <1>2, <1>3, <1>4 DEF KernelSound, Registers, Parameters

\* The kernel multiply.
LEMMA multiply_Sound ==
  KernelSound("multiply", <<"image", "image", "image", "FLOAT32", "INT32">>)
<1> DEFINE k == "multiply"  v == multiply_Validators  file == multiply_Kernel
<1>1. Registers(k, v, file)
  BY DEF Registers, OpenCVKernel, Kernel, multiply_Validators
<1>2. /\ DOMAIN file.parameters = 1 .. 5
      /\ \A i \in {1, 2} : ImageInput(v, file, i, {"U8", "S16"})
      /\ ImageOutput(v, file, 3, {"U8", "S16"})
      /\ ScalarInput(k, v, file, 4, "FLOAT32")
      /\ ScalarInput(k, v, file, 5, "INT32")
  BY ScalarSets DEF multiply_Validators, multiply_Kernel, ImageInput, ImageOutput,
     ScalarInput, ScalarType, ImageFormat
<1>3. /\ \A i \in {1, 2} : ParameterSound(k, i, "image") /\ Sized(k, i) /\ Convertible(k, i)
      /\ ParameterSound(k, 3, "image") /\ Sized(k, 3)
      /\ ParameterSound(k, 4, "FLOAT32")
      /\ ParameterSound(k, 5, "INT32")
  BY <1>1, <1>2, ImageInputSound, ImageOutputSound, ScalarInputSound DEF ConvertibleFormats
<1>4. \A n \in DOMAIN file.body : StepSound(k, file.body[n])
  BY <1>3 DEF StepSound, multiply_Kernel
<1> QED BY <1>1, <1>2, <1>3, <1>4 DEF KernelSound, Registers, Parameters

\* The kernel norm.
LEMMA norm_Sound ==
  KernelSound("norm", <<"image", "FLOAT32", "INT32">>)
<1> DEFINE k == "norm"  v == norm_Validators  file == norm_Kernel
<1>1. Registers(k, v, file)
  BY DEF Registers, OpenCVKernel, Kernel, norm_Validators
<1>2. /\ DOMAIN file.parameters = 1 .. 3
      /\ ImageInput(v, file, 1, {"U8"})
      /\ ScalarUpdate(v, file, 2, "FLOAT32")
      /\ ScalarInput(k, v, file, 3, "INT32")
  BY ScalarSets DEF norm_Validators, norm_Kernel, ImageInput, ScalarUpdate, ScalarInput,
     ScalarType, ImageFormat
<1>3. /\ ParameterSound(k, 1, "image") /\ Sized(k, 1) /\ Convertible(k, 1)
      /\ ParameterSound(k, 2, "FLOAT32")
      /\ ParameterSound(k, 3, "INT32")
  BY <1>1, <1>2, ImageInputSound, ScalarUpdateSound, ScalarInputSound DEF ConvertibleFormats
<1>4. \A n \in DOMAIN file.body : StepSound(k, file.body[n])
  BY <1>3 DEF StepSound, norm_Kernel
<1> QED BY <1>1, <1>2, <1>3, <1>4 DEF KernelSound, Registers, Parameters

\* The kernel ORB_compute.
LEMMA ORB_compute_Sound ==
  KernelSound("ORB_compute",
    <<"image", "image", "array", "array", "INT32", "FLOAT32", "INT32", "INT32", "INT32",
    "INT32", "INT32", "INT32">>)
<1> DEFINE k == "ORB_compute"  v == ORB_compute_Validators  file == ORB_compute_Kernel
<1>1. Registers(k, v, file)
  BY DEF Registers, OpenCVKernel, Kernel, ORB_compute_Validators
<1>2. /\ DOMAIN file.parameters = 1 .. 12
      /\ \A i \in {1, 2} : ImageInput(v, file, i, {"U8"})
      /\ \A i \in {3, 4} : ArrayUpdate(v, file, i)
      /\ \A i \in {5, 7, 8, 9, 10, 11, 12} : ScalarInput(k, v, file, i, "INT32")
      /\ ScalarInput(k, v, file, 6, "FLOAT32")
  BY ScalarSets DEF ORB_compute_Validators, ORB_compute_Kernel, ImageInput, ArrayUpdate,
     ScalarInput, ScalarType, ImageFormat, Only, PointSize
<1>3. /\ \A i \in {1, 2} : ParameterSound(k, i, "image") /\ Sized(k, i) /\ Convertible(k, i)
      /\ \A i \in {3, 4} : ParameterSound(k, i, "array") /\ Arrays(k, i)
      /\ \A i \in {5, 7, 8, 9, 10, 11, 12} : ParameterSound(k, i, "INT32")
      /\ ParameterSound(k, 6, "FLOAT32")
  BY <1>1, <1>2, ImageInputSound, ArrayUpdateSound, ScalarInputSound DEF ConvertibleFormats
<1>4. \A n \in DOMAIN file.body : StepSound(k, file.body[n])
  BY <1>3 DEF StepSound, ORB_compute_Kernel, Holds, DescriptorSize, PointSize
<1> QED BY <1>1, <1>2, <1>3, <1>4 DEF KernelSound, Registers, Parameters

\* The kernel pyrdown.
LEMMA pyrdown_Sound ==
  KernelSound("pyrdown", <<"image", "image", "INT32", "INT32", "INT32">>)
<1> DEFINE k == "pyrdown"  v == pyrdown_Validators  file == pyrdown_Kernel
<1>1. Registers(k, v, file)
  BY DEF Registers, OpenCVKernel, Kernel, pyrdown_Validators
<1>2. /\ DOMAIN file.parameters = 1 .. 5
      /\ ImageInput(v, file, 1, {"U8"})
      /\ ImageOutput(v, file, 2, {"U8"})
      /\ \A i \in 3 .. 5 : ScalarInput(k, v, file, i, "INT32")
  BY ScalarSets DEF pyrdown_Validators, pyrdown_Kernel, ImageInput, ImageOutput,
     ScalarInput, ScalarType, ImageFormat
<1>3. /\ ParameterSound(k, 1, "image") /\ Sized(k, 1) /\ Convertible(k, 1)
      /\ ParameterSound(k, 2, "image") /\ Sized(k, 2)
      /\ \A i \in 3 .. 5 : ParameterSound(k, i, "INT32")
  BY <1>1, <1>2, ImageInputSound, ImageOutputSound, ScalarInputSound DEF ConvertibleFormats
<1>4. \A n \in DOMAIN file.body : StepSound(k, file.body[n])
  BY <1>3 DEF StepSound, pyrdown_Kernel
<1> QED BY <1>1, <1>2, <1>3, <1>4 DEF KernelSound, Registers, Parameters

\* The kernel pyrup.
LEMMA pyrup_Sound ==
  KernelSound("pyrup", <<"image", "image", "INT32", "INT32", "INT32">>)
<1> DEFINE k == "pyrup"  v == pyrup_Validators  file == pyrup_Kernel
<1>1. Registers(k, v, file)
  BY DEF Registers, OpenCVKernel, Kernel, pyrup_Validators
<1>2. /\ DOMAIN file.parameters = 1 .. 5
      /\ ImageInput(v, file, 1, {"U8"})
      /\ ImageOutput(v, file, 2, {"U8"})
      /\ \A i \in 3 .. 5 : ScalarInput(k, v, file, i, "INT32")
  BY ScalarSets DEF pyrup_Validators, pyrup_Kernel, ImageInput, ImageOutput, ScalarInput,
     ScalarType, ImageFormat
<1>3. /\ ParameterSound(k, 1, "image") /\ Sized(k, 1) /\ Convertible(k, 1)
      /\ ParameterSound(k, 2, "image") /\ Sized(k, 2)
      /\ \A i \in 3 .. 5 : ParameterSound(k, i, "INT32")
  BY <1>1, <1>2, ImageInputSound, ImageOutputSound, ScalarInputSound DEF ConvertibleFormats
<1>4. \A n \in DOMAIN file.body : StepSound(k, file.body[n])
  BY <1>3 DEF StepSound, pyrup_Kernel
<1> QED BY <1>1, <1>2, <1>3, <1>4 DEF KernelSound, Registers, Parameters

\* The kernel resize.
LEMMA resize_Sound ==
  KernelSound("resize", <<"image", "image", "INT32", "INT32", "FLOAT32", "FLOAT32", "INT32">>)
<1> DEFINE k == "resize"  v == resize_Validators  file == resize_Kernel
<1>1. Registers(k, v, file)
  BY DEF Registers, OpenCVKernel, Kernel, resize_Validators
<1>2. /\ DOMAIN file.parameters = 1 .. 7
      /\ ImageInput(v, file, 1, {"U8", "U16", "S16"})
      /\ ImageOutput(v, file, 2, {"U8"})
      /\ \A i \in {3, 4, 7} : ScalarInput(k, v, file, i, "INT32")
      /\ \A i \in {5, 6} : ScalarInput(k, v, file, i, "FLOAT32")
  BY ScalarSets DEF resize_Validators, resize_Kernel, ImageInput, ImageOutput, ScalarInput,
     ScalarType, ImageFormat
<1>3. /\ ParameterSound(k, 1, "image") /\ Sized(k, 1) /\ Convertible(k, 1)
      /\ ParameterSound(k, 2, "image") /\ Sized(k, 2)
      /\ \A i \in {3, 4, 7} : ParameterSound(k, i, "INT32")
      /\ \A i \in {5, 6} : ParameterSound(k, i, "FLOAT32")
  BY <1>1, <1>2, ImageInputSound, ImageOutputSound, ScalarInputSound DEF ConvertibleFormats
<1>4. \A n \in DOMAIN file.body : StepSound(k, file.body[n])
  BY <1>3 DEF StepSound, resize_Kernel
<1> QED BY <1>1, <1>2, <1>3, <1>4 DEF KernelSound, Registers, Parameters

\* The kernel sepFilter2D.
LEMMA sepFilter2D_Sound ==
  KernelSound("sepFilter2D",
    <<"image", "image", "INT32", "matrix", "matrix", "INT32", "INT32", "FLOAT32", "INT32">>)
<1> DEFINE k == "sepFilter2D"  v == sepFilter2D_Validators  file == sepFilter2D_Kernel
<1>1. Registers(k, v, file)
  BY DEF Registers, OpenCVKernel, Kernel, sepFilter2D_Validators
<1>2. /\ DOMAIN file.parameters = 1 .. 9
      /\ ImageInput(v, file, 1, {"U8"})
      /\ ImageOutput(v, file, 2, {"U8"})
      /\ \A i \in {3, 6, 7, 9} : ScalarInput(k, v, file, i, "INT32")
      /\ \A i \in {4, 5} : MatrixInput(v, file, i)
      /\ ScalarInput(k, v, file, 8, "FLOAT32")
  BY ScalarSets DEF sepFilter2D_Validators, sepFilter2D_Kernel, ImageInput, ImageOutput,
     ScalarInput, MatrixInput, ScalarType, ImageFormat
<1>3. /\ ParameterSound(k, 1, "image") /\ Sized(k, 1) /\ Convertible(k, 1)
      /\ ParameterSound(k, 2, "image") /\ Sized(k, 2)
      /\ \A i \in {3, 6, 7, 9} : ParameterSound(k, i, "INT32")
      /\ \A i \in {4, 5} : ParameterSound(k, i, "matrix") /\ Matrices(k, i)
      /\ ParameterSound(k, 8, "FLOAT32")
  BY <1>1, <1>2, ImageInputSound, ImageOutputSound, ScalarInputSound, MatrixInputSound DEF
     ConvertibleFormats
<1>4. \A n \in DOMAIN file.body : StepSound(k, file.body[n])
  BY <1>3 DEF StepSound, sepFilter2D_Kernel
<1> QED BY <1>1, <1>2, <1>3, <1>4 DEF KernelSound, Registers, Parameters

\* The kernel simple_blob_detect.
LEMMA simple_blob_detect_Sound ==
  KernelSound("simple_blob_detect", <<"image", "array", "image">>)
<1> DEFINE k == "simple_blob_detect"  v == simple_blob_detect_Validators
           file == simple_blob_detect_Kernel
<1>1. Registers(k, v, file)
  BY DEF Registers, OpenCVKernel, Kernel, simple_blob_detect_Validators
<1>2. /\ DOMAIN file.parameters = 1 .. 3
      /\ \A i \in {1, 3} : ImageInput(v, file, i, {"U8"})
      /\ ArrayUpdate(v, file, 2)
  BY DEF simple_blob_detect_Validators, simple_blob_detect_Kernel, ImageInput, ArrayUpdate,
     ImageFormat, Only
<1>3. /\ \A i \in {1, 3} : ParameterSound(k, i, "image") /\ Sized(k, i) /\ Convertible(k, i)
      /\ ParameterSound(k, 2, "array") /\ Arrays(k, 2)
  BY <1>1, <1>2, ImageInputSound, ArrayUpdateSound DEF ConvertibleFormats
<1>4. \A n \in DOMAIN file.body : StepSound(k, file.body[n])
  BY <1>3 DEF StepSound, simple_blob_detect_Kernel, Holds, DescriptorSize, PointSize
<1> QED BY <1>1, <1>2, <1>3, <1>4 DEF KernelSound, Registers, Parameters

\* The kernel simple_blob_detect_initialize.
LEMMA simple_blob_detect_initialize_Sound ==
  KernelSound("simple_blob_detect_initialize",
    <<"image", "array", "image", "FLOAT32", "FLOAT32", "FLOAT32", "SIZE", "FLOAT32", "BOOL",
    "UINT16", "BOOL", "FLOAT32", "FLOAT32", "BOOL", "FLOAT32", "FLOAT32", "BOOL", "FLOAT32",
    "FLOAT32", "BOOL", "FLOAT32", "FLOAT32">>)
<1> DEFINE k == "simple_blob_detect_initialize"  v == simple_blob_detect_initialize_Validators
           file == simple_blob_detect_initialize_Kernel
<1>1. Registers(k, v, file)
  BY DEF Registers, OpenCVKernel, Kernel, simple_blob_detect_initialize_Validators
<1>2. /\ DOMAIN file.parameters = 1 .. 22
      /\ \A i \in {1, 3} : ImageInput(v, file, i, {"U8"})
      /\ ArrayUpdate(v, file, 2)
      /\ \A i \in {4, 5, 6, 8, 12, 13, 15, 16, 18, 19, 21, 22} :
           ScalarInput(k, v, file, i, "FLOAT32")
      /\ ScalarInput(k, v, file, 7, "SIZE")
      /\ \A i \in {9, 11, 14, 17, 20} : ScalarInput(k, v, file, i, "BOOL")
      /\ ScalarInput(k, v, file, 10, "UINT16")
  BY ScalarSets DEF simple_blob_detect_initialize_Validators,
     simple_blob_detect_initialize_Kernel, ImageInput, ArrayUpdate, ScalarInput, ScalarType,
     ImageFormat, Only, PointSize, Ignored
<1>3. /\ \A i \in {1, 3} : ParameterSound(k, i, "image") /\ Sized(k, i) /\ Convertible(k, i)
      /\ ParameterSound(k, 2, "array") /\ Arrays(k, 2)
      /\ \A i \in {4, 5, 6, 8, 12, 13, 15, 16, 18, 19, 21, 22} : ParameterSound(k, i, "FLOAT32")
      /\ ParameterSound(k, 7, "SIZE")
      /\ \A i \in {9, 11, 14, 17, 20} : ParameterSound(k, i, "BOOL")
      /\ ParameterSound(k, 10, "UINT16")
  BY <1>1, <1>2, ImageInputSound, ArrayUpdateSound, ScalarInputSound DEF ConvertibleFormats
<1>4. \A n \in DOMAIN file.body : StepSound(k, file.body[n])
  BY <1>3 DEF StepSound, simple_blob_detect_initialize_Kernel, Holds, DescriptorSize, PointSize
<1> QED BY <1>1, <1>2, <1>3, <1>4 DEF KernelSound, Registers, Parameters

\* The kernel subtract.
LEMMA subtract_Sound ==
  KernelSound("subtract", <<"image", "image", "image">>)
<1> DEFINE k == "subtract"  v == subtract_Validators  file == subtract_Kernel
<1>1. Registers(k, v, file)
  BY DEF Registers, OpenCVKernel, Kernel, subtract_Validators
<1>2. /\ DOMAIN file.parameters = 1 .. 3
      /\ \A i \in {1, 2} : ImageInput(v, file, i, {"U8", "S16"})
      /\ ImageOutput(v, file, 3, {"U8", "S16"})
  BY DEF subtract_Validators, subtract_Kernel, ImageInput, ImageOutput, ImageFormat
<1>3. /\ \A i \in {1, 2} : ParameterSound(k, i, "image") /\ Sized(k, i) /\ Convertible(k, i)
      /\ ParameterSound(k, 3, "image") /\ Sized(k, 3)
  BY <1>1, <1>2, ImageInputSound, ImageOutputSound DEF ConvertibleFormats
<1>4. \A n \in DOMAIN file.body : StepSound(k, file.body[n])
  BY <1>3 DEF StepSound, subtract_Kernel
<1> QED BY <1>1, <1>2, <1>3, <1>4 DEF KernelSound, Registers, Parameters

\* The kernel threshold.
LEMMA threshold_Sound ==
  KernelSound("threshold", <<"image", "image", "FLOAT32", "FLOAT32", "INT32">>)
<1> DEFINE k == "threshold"  v == threshold_Validators  file == threshold_Kernel
<1>1. Registers(k, v, file)
  BY DEF Registers, OpenCVKernel, Kernel, threshold_Validators
<1>2. /\ DOMAIN file.parameters = 1 .. 5
      /\ ImageInput(v, file, 1, {"U8"})
      /\ ImageOutput(v, file, 2, {"U8"})
      /\ \A i \in {3, 4} : ScalarInput(k, v, file, i, "FLOAT32")
      /\ ScalarInput(k, v, file, 5, "INT32")
  BY ScalarSets DEF threshold_Validators, threshold_Kernel, ImageInput, ImageOutput,
     ScalarInput, ScalarType, ImageFormat
<1>3. /\ ParameterSound(k, 1, "image") /\ Sized(k, 1) /\ Convertible(k, 1)
      /\ ParameterSound(k, 2, "image") /\ Sized(k, 2)
      /\ \A i \in {3, 4} : ParameterSound(k, i, "FLOAT32")
      /\ ParameterSound(k, 5, "INT32")
  BY <1>1, <1>2, ImageInputSound, ImageOutputSound, ScalarInputSound DEF ConvertibleFormats
<1>4. \A n \in DOMAIN file.body : StepSound(k, file.body[n])
  BY <1>3 DEF StepSound, threshold_Kernel
<1> QED BY <1>1, <1>2, <1>3, <1>4 DEF KernelSound, Registers, Parameters

\* The kernel transpose.
LEMMA transpose_Sound ==
  KernelSound("transpose", <<"image", "image">>)
<1> DEFINE k == "transpose"  v == transpose_Validators  file == transpose_Kernel
<1>1. Registers(k, v, file)
  BY DEF Registers, OpenCVKernel, Kernel, transpose_Validators
<1>2. /\ DOMAIN file.parameters = 1 .. 2
      /\ ImageInput(v, file, 1, {"U8", "S16"})
      /\ ImageOutput(v, file, 2, {"U8", "S16"})
  BY DEF transpose_Validators, transpose_Kernel, ImageInput, ImageOutput, ImageFormat
<1>3. /\ ParameterSound(k, 1, "image") /\ Sized(k, 1) /\ Convertible(k, 1)
      /\ ParameterSound(k, 2, "image") /\ Sized(k, 2)
  BY <1>1, <1>2, ImageInputSound, ImageOutputSound DEF ConvertibleFormats
<1>4. \A n \in DOMAIN file.body : StepSound(k, file.body[n])
  BY <1>3 DEF StepSound, transpose_Kernel
<1> QED BY <1>1, <1>2, <1>3, <1>4 DEF KernelSound, Registers, Parameters

\* The kernel warpAffine.
LEMMA warpAffine_Sound ==
  KernelSound("warpAffine", <<"image", "image", "matrix", "INT32", "INT32", "INT32", "INT32">>)
<1> DEFINE k == "warpAffine"  v == warpAffine_Validators  file == warpAffine_Kernel
<1>1. Registers(k, v, file)
  BY DEF Registers, OpenCVKernel, Kernel, warpAffine_Validators
<1>2. /\ DOMAIN file.parameters = 1 .. 7
      /\ ImageInput(v, file, 1, {"U8", "S16", "U16"})
      /\ ImageOutput(v, file, 2, {"U8"})
      /\ MatrixInput(v, file, 3)
      /\ \A i \in 4 .. 7 : ScalarInput(k, v, file, i, "INT32")
  BY ScalarSets DEF warpAffine_Validators, warpAffine_Kernel, ImageInput, ImageOutput,
     MatrixInput, ScalarInput, ScalarType, ImageFormat
<1>3. /\ ParameterSound(k, 1, "image") /\ Sized(k, 1) /\ Convertible(k, 1)
      /\ ParameterSound(k, 2, "image") /\ Sized(k, 2)
      /\ ParameterSound(k, 3, "matrix") /\ Matrices(k, 3)
      /\ \A i \in 4 .. 7 : ParameterSound(k, i, "INT32")
  BY <1>1, <1>2, ImageInputSound, ImageOutputSound, MatrixInputSound, ScalarInputSound DEF
     ConvertibleFormats
<1>4. \A n \in DOMAIN file.body : StepSound(k, file.body[n])
  BY <1>3 DEF StepSound, warpAffine_Kernel
<1> QED BY <1>1, <1>2, <1>3, <1>4 DEF KernelSound, Registers, Parameters

\* The kernel warpPerspective.
LEMMA warpPerspective_Sound ==
  KernelSound("warpPerspective",
    <<"image", "image", "matrix", "INT32", "INT32", "INT32", "INT32">>)
<1> DEFINE k == "warpPerspective"  v == warpPerspective_Validators  file == warpPerspective_Kernel
<1>1. Registers(k, v, file)
  BY DEF Registers, OpenCVKernel, Kernel, warpPerspective_Validators
<1>2. /\ DOMAIN file.parameters = 1 .. 7
      /\ ImageInput(v, file, 1, {"U8", "S16", "U16"})
      /\ ImageOutput(v, file, 2, {"U8"})
      /\ MatrixInput(v, file, 3)
      /\ \A i \in 4 .. 7 : ScalarInput(k, v, file, i, "INT32")
  BY ScalarSets DEF warpPerspective_Validators, warpPerspective_Kernel, ImageInput,
     ImageOutput, MatrixInput, ScalarInput, ScalarType, ImageFormat
<1>3. /\ ParameterSound(k, 1, "image") /\ Sized(k, 1) /\ Convertible(k, 1)
      /\ ParameterSound(k, 2, "image") /\ Sized(k, 2)
      /\ ParameterSound(k, 3, "matrix") /\ Matrices(k, 3)
      /\ \A i \in 4 .. 7 : ParameterSound(k, i, "INT32")
  BY <1>1, <1>2, ImageInputSound, ImageOutputSound, MatrixInputSound, ScalarInputSound DEF
     ConvertibleFormats
<1>4. \A n \in DOMAIN file.body : StepSound(k, file.body[n])
  BY <1>3 DEF StepSound, warpPerspective_Kernel
<1> QED BY <1>1, <1>2, <1>3, <1>4 DEF KernelSound, Registers, Parameters

HIDE DEF Called, IsRead, IsWritten, In, Out, InOut, Call, Read, Match, Transposed, HasSize, ToMat,
        ToMatrix, FromMat, FromPyramid, FromPoints, FromDescriptors, WriteScalar, Validators

-------------------------------------------------------------------------------
(***************************************************************************)
(* The constructors, and the list of kernels to publish.                   *)
(***************************************************************************)
\* The same kinds of parameters, but for the types of scalars.
Alike(s, t) ==
  /\ DOMAIN s = DOMAIN t
  /\ \A i \in DOMAIN s : \/ s[i] \in ScalarType /\ t[i] \in ScalarType
                         \/ s[i] \notin ScalarType /\ s[i] = t[i]

\* Constructor c, which makes what m says, makes scalars of the types its kernel
\* takes, unless it is one of those that do not agree with theirs.
ConstructorSound(c, m) ==
  IF c \in MismatchedConstructors
  THEN \E kinds : KernelSound(m.kernel, kinds) /\ Alike(kinds, m.kinds)
  ELSE KernelSound(m.kernel, m.kinds)

\* The constructors of LogicNodes.
LEMMA LogicNodesSound == \A c \in DOMAIN LogicNodes : ConstructorSound(c, LogicNodes[c])
BY absdiff_Sound, add_Sound, bitwise_and_Sound, bitwise_not_Sound, bitwise_or_Sound,
   bitwise_xor_Sound, subtract_Sound, transpose_Sound DEF LogicNodes, Makes, ConstructorSound,
   MismatchedConstructors, Alike, ScalarType

\* The constructors of CompareNodes.
LEMMA CompareNodesSound == \A c \in DOMAIN CompareNodes : ConstructorSound(c, CompareNodes[c])
BY Boxfilter_Sound, MedianBlur_Sound, compare_Sound, countNonZero_Sound, flip_Sound,
   integral_Sound, norm_Sound DEF CompareNodes, Makes, ConstructorSound,
   MismatchedConstructors, Alike, ScalarType

\* The constructors of BlurNodes.
LEMMA BlurNodesSound == \A c \in DOMAIN BlurNodes : ConstructorSound(c, BlurNodes[c])
BY Gaussianblur_Sound, Sobel_Sound, bilateralFilter_Sound, blur_Sound, convertScaleAbs_Sound
   DEF BlurNodes, Makes, ConstructorSound, MismatchedConstructors, Alike, ScalarType

\* The constructors of EdgeNodes.
LEMMA EdgeNodesSound == \A c \in DOMAIN EdgeNodes : ConstructorSound(c, EdgeNodes[c])
BY AddWeighted_Sound, Canny_Sound, Laplacian_Sound, cornerHarris_Sound, cornerMinEigenVal_Sound
   DEF EdgeNodes, Makes, ConstructorSound, MismatchedConstructors, Alike, ScalarType

\* The constructors of SiftNodes.
LEMMA SiftNodesSound == \A c \in DOMAIN SiftNodes : ConstructorSound(c, SiftNodes[c])
BY SIFT_compute_Sound, SIFT_detect_Sound, SURF_detect_Sound, Scharr_Sound DEF SiftNodes, Makes,
   ConstructorSound, MismatchedConstructors, Alike, ScalarType

\* The constructors of CornerNodes.
LEMMA CornerNodesSound == \A c \in DOMAIN CornerNodes : ConstructorSound(c, CornerNodes[c])
BY FAST_detector_Sound, SURF_compute_Sound, brisk_detect_Sound, good_features_to_track_Sound
   DEF CornerNodes, Makes, ConstructorSound, MismatchedConstructors, Alike, ScalarType

\* The constructors of DetectorNodes.
LEMMA DetectorNodesSound == \A c \in DOMAIN DetectorNodes : ConstructorSound(c, DetectorNodes[c])
BY MSER_detect_Sound, ORB_detect_Sound, simple_blob_detect_Sound, star_detect_Sound DEF
   DetectorNodes, Makes, ConstructorSound, MismatchedConstructors, Alike, ScalarType

\* The constructors of DescriptorNodes.
LEMMA DescriptorNodesSound ==
  \A c \in DOMAIN DescriptorNodes : ConstructorSound(c, DescriptorNodes[c])
BY ORB_compute_Sound, adaptiveThreshold_Sound, brisk_compute_Sound, divide_Sound,
   multiply_Sound DEF DescriptorNodes, Makes, ConstructorSound, MismatchedConstructors, Alike,
   ScalarType

\* The constructors of ColorNodes.
LEMMA ColorNodesSound == \A c \in DOMAIN ColorNodes : ConstructorSound(c, ColorNodes[c])
BY cvtColor_Sound, distanceTransform_Sound, fastNlMeansDenoisingColored_Sound,
   fastNlMeansDenoising_Sound, pyrup_Sound, threshold_Sound DEF ColorNodes, Makes,
   ConstructorSound, MismatchedConstructors, Alike, ScalarType

\* The constructors of FilterNodes.
LEMMA FilterNodesSound == \A c \in DOMAIN FilterNodes : ConstructorSound(c, FilterNodes[c])
BY dilate_Sound, erode_Sound, filter2D_Sound, pyrdown_Sound, sepFilter2D_Sound DEF FilterNodes,
   Makes, ConstructorSound, MismatchedConstructors, Alike, ScalarType

\* The constructors of WarpNodes.
LEMMA WarpNodesSound == \A c \in DOMAIN WarpNodes : ConstructorSound(c, WarpNodes[c])
BY buildPyramid_Sound, morphologyEx_Sound, resize_Sound, warpAffine_Sound,
   warpPerspective_Sound DEF WarpNodes, Makes, ConstructorSound, MismatchedConstructors, Alike,
   ScalarType

\* The constructors of FlowNodes.
LEMMA FlowNodesSound == \A c \in DOMAIN FlowNodes : ConstructorSound(c, FlowNodes[c])
BY buildOpticalFlowPyramid_Sound DEF FlowNodes, Makes, ConstructorSound,
   MismatchedConstructors, Alike, ScalarType

\* All kernels.
LEMMA EveryKernelSound == \A k \in DOMAIN OpenCVKernel : \E kinds : KernelSound(k, kinds)
BY AddWeighted_Sound, brisk_detect_Sound, blur_Sound, Boxfilter_Sound, Canny_Sound,
   FAST_detector_Sound, Gaussianblur_Sound, good_features_to_track_Sound, Laplacian_Sound,
   MSER_detect_Sound, MedianBlur_Sound, ORB_detect_Sound, SIFT_compute_Sound,
   SIFT_detect_Sound, SURF_compute_Sound, SURF_detect_Sound, Scharr_Sound, Sobel_Sound,
   star_detect_Sound, absdiff_Sound, adaptiveThreshold_Sound, add_Sound, bilateralFilter_Sound,
   bitwise_and_Sound, bitwise_not_Sound, bitwise_or_Sound, bitwise_xor_Sound,
   brisk_compute_Sound, buildOpticalFlowPyramid_Sound, buildPyramid_Sound, compare_Sound,
   convertScaleAbs_Sound, cornerHarris_Sound, cornerMinEigenVal_Sound, countNonZero_Sound,
   cvtColor_Sound, dilate_Sound, distanceTransform_Sound, divide_Sound, erode_Sound,
   fastNlMeansDenoising_Sound, fastNlMeansDenoisingColored_Sound, filter2D_Sound, flip_Sound,
   integral_Sound, morphologyEx_Sound, multiply_Sound, norm_Sound, ORB_compute_Sound,
   pyrdown_Sound, pyrup_Sound, resize_Sound, sepFilter2D_Sound, simple_blob_detect_Sound,
   simple_blob_detect_initialize_Sound, subtract_Sound, threshold_Sound, transpose_Sound,
   warpAffine_Sound, warpPerspective_Sound DEF OpenCVKernel
\* All constructors.
LEMMA EveryConstructorSound ==
  \A c \in DOMAIN Constructor :
    ConstructorSound(c, Constructor[c]) /\ Constructor[c].kernel \in DOMAIN OpenCVKernel
<1> SUFFICES ASSUME NEW c \in DOMAIN Constructor PROVE ConstructorSound(c, Constructor[c])
  BY DEF ConstructorSound, KernelSound
<1>1. DOMAIN Constructors = 1 .. 12
  BY DEF Constructors
<1>2. c \in UNION {DOMAIN Constructors[n] : n \in DOMAIN Constructors}
  BY DEF Constructor
<1> DEFINE m == CHOOSE n \in DOMAIN Constructors : c \in DOMAIN Constructors[n]
<1>3. m \in DOMAIN Constructors /\ c \in DOMAIN Constructors[m]
  BY <1>2
<1>4. Constructor[c] = Constructors[m][c]
  BY <1>2 DEF Constructor
<1> HIDE DEF m
<1>5. \A n \in 1 .. 12 : \A d \in DOMAIN Constructors[n] : ConstructorSound(d, Constructors[n][d])
  BY LogicNodesSound, CompareNodesSound, BlurNodesSound, EdgeNodesSound, SiftNodesSound,
     CornerNodesSound, DetectorNodesSound, DescriptorNodesSound, ColorNodesSound,
     FilterNodesSound, WarpNodesSound, FlowNodesSound DEF Constructors
<1> QED BY <1>1, <1>3, <1>4, <1>5

\* What is published are kernels of the module.
LEMMA PublishedKernels ==
  \A i \in DOMAIN PublishingOrder : PublishingOrder[i] \in DOMAIN OpenCVKernel
<1> DEFINE set == DOMAIN OpenCVKernel
           list == KernelsToPublish \o (IF UseContrib THEN ContribKernels ELSE <<>>)
<1>1. KernelsToPublish \in Seq(set) /\ ContribKernels \in Seq(set)
  BY DEF KernelsToPublish, ContribKernels, OpenCVKernel
<1>2. <<>> \in Seq(set)
  OBVIOUS
<1> HIDE DEF set
<1>3. (IF UseContrib THEN ContribKernels ELSE <<>>) \in Seq(set)
  BY <1>1, <1>2
<1>4. list \in Seq(set)
  BY <1>1, <1>3
<1> HIDE DEF list
<1>5. PublishingOrder = [i \in 1 .. Len(list) |-> list[(Len(list) - i) + 1]]
  BY DEF PublishingOrder, Reverse, list
<1> QED BY <1>4, <1>5 DEF set

-------------------------------------------------------------------------------
(***************************************************************************)
(* The arguments an application tries.                                     *)
(***************************************************************************)
\* The size of an argument, if it has one, is that of all working arguments.
Squared(a) == a.kind \in {"image", "pyramid"} => a.size = <<3, 3>>

\* A working argument is accepted, and has that size.
LEMMA WorkingAccepted ==
  ASSUME NEW k, NEW kinds, KernelSound(k, kinds), NEW i \in Parameters(k)
  PROVE  WorkingArguments[k][i] \in Accepted(k, i) /\ Squared(WorkingArguments[k][i])
<1> DEFINE set == Accepted(k, i)
           Good(a) == /\ IsWorking(k, i, a)
                      /\ "value" \in DOMAIN a /\ [a EXCEPT !.value = 3] \in set => a.value = 3
<1>1. PICK a \in set : IsWorking(k, i, a)
  BY DEF KernelSound, ParameterSound
<1>2. \E b \in set : Good(b)
  <2>1. CASE "value" \in DOMAIN a /\ [a EXCEPT !.value = 3] \in set
    <3> DEFINE b == [a EXCEPT !.value = 3]
    <3>1. a \in Scalar(ScalarType, Value)
      BY <2>1 DEF Accepted, Argument, Image, Array, Matrix, Pyramid
    <3>2. b.kind = "scalar" /\ b.value = 3
      BY <3>1 DEF Scalar
    <3>3. IsWorking(k, i, b)
      BY <3>2 DEF IsWorking
    <3> QED BY <2>1, <3>2, <3>3
  <2>2. CASE ~("value" \in DOMAIN a /\ [a EXCEPT !.value = 3] \in set)
    BY <1>1, <2>2
  <2> QED BY <2>1, <2>2
<1>3. WorkingArguments[k][i] = CHOOSE b \in set : Good(b)
  BY DEF WorkingArguments, KernelSound
<1> HIDE DEF set
<1>4. WorkingArguments[k][i] \in set /\ Good(WorkingArguments[k][i])
  BY <1>2, <1>3
<1> QED BY <1>4 DEF Squared, IsWorking, set

\* The kinds an application gives the parameters of a kernel: those of its
\* registration, with any types for the scalars or none.
KindsTried(k, t, kinds) ==
  /\ DOMAIN kinds = Parameters(k)
  /\ \A i \in Parameters(k) :
       \/ kinds[i] \in ScalarType \union {"scalar"} /\ t[i] \in ScalarType
       \/ kinds[i] \notin ScalarType /\ kinds[i] = t[i]

\* An argument of one kind or scalar type.
IsKind(a, kind) ==
  /\ a \in Argument
  /\ IF kind \in ScalarType THEN a.kind = "scalar" /\ a.type = kind ELSE a.kind = kind

\* The arguments of a kind.
LEMMA KindFacts ==
  ASSUME NEW kind \in ScalarType \union {"scalar", "image", "array", "matrix", "pyramid"},
         NEW a \in OfKind(kind)
  PROVE  IsKind(a, kind)
<1>1. CASE kind \in ScalarType
  BY <1>1 DEF OfKind, IsKind, ScalarType, Scalar, Argument
<1>2. CASE kind = "scalar"
  BY <1>2, ArgumentAssumption DEF OfKind, IsKind, ScalarType, Scalar, Argument
<1>3. CASE kind = "image"
  BY <1>3 DEF OfKind, IsKind, ScalarType, Image, Argument
<1>4. CASE kind = "array"
  BY <1>4 DEF OfKind, IsKind, ScalarType, AnyArray, Array, Argument
<1>5. CASE kind = "matrix"
  BY <1>5 DEF OfKind, IsKind, ScalarType, AnyMatrix, Matrix, Argument
<1>6. CASE kind = "pyramid"
  BY <1>6 DEF OfKind, IsKind, ScalarType, Pyramid, Argument
<1> QED BY <1>1, <1>2, <1>3, <1>4, <1>5, <1>6

\* A scalar is a record of its type and its value.
LEMMA ScalarShape ==
  ASSUME NEW a \in Argument, a.kind = "scalar"
  PROVE  /\ a.type \in ScalarType /\ a.value \in Value
         /\ a = [kind |-> "scalar", type |-> a.type, value |-> a.value]
<1>1. a \in Scalar(ScalarType, Value)
  BY DEF Argument, Image, Array, Matrix, Pyramid
<1> QED BY <1>1 DEF Scalar

\* What is tried has the kinds that were asked for, and all but one of the
\* arguments have the size of the working ones.
LEMMA TriedFacts ==
  ASSUME NEW k, NEW t, KernelSound(k, t), NEW kinds, KindsTried(k, t, kinds),
         NEW args \in Tried(k, kinds)
  PROVE  /\ DOMAIN args = Parameters(k)
         /\ \A i \in Parameters(k) : IsKind(args[i], kinds[i])
         /\ \E n : \A j \in Parameters(k) : j # n => Squared(args[j])
<1> DEFINE working == [i \in DOMAIN kinds |->
                         IF kinds[i] \in ScalarType
                         THEN [WorkingArguments[k][i] EXCEPT !.type = kinds[i]]
                         ELSE WorkingArguments[k][i]]
<1>1. DOMAIN kinds = Parameters(k) /\ DOMAIN working = Parameters(k)
  BY DEF KindsTried
<1>2. ASSUME NEW i \in Parameters(k)
      PROVE  IsKind(working[i], kinds[i]) /\ Squared(working[i])
    <2> DEFINE w == WorkingArguments[k][i]
    <2>1. w \in Accepted(k, i) /\ Squared(w)
      BY WorkingAccepted
    <2>2. w \in Argument /\ w.kind = OpenCVKernel[k].parameters[i].kind
      BY <2>1 DEF Accepted, KernelSound, ParameterSound
    <2>3. IF t[i] \in ScalarType THEN w.kind = "scalar" ELSE w.kind = t[i]
      BY <2>2 DEF KernelSound, ParameterSound
    <2> HIDE DEF w
    <2>4. CASE kinds[i] \in ScalarType
      <3>1. w.kind = "scalar"
        BY <2>3, <2>4 DEF KindsTried
      <3>2. w = [kind |-> "scalar", type |-> w.type, value |-> w.value] /\ w.value \in Value
        BY <2>2, <3>1, ScalarShape
      <3>3. working[i] = [w EXCEPT !.type = kinds[i]]
        BY <1>1, <2>4 DEF w
      <3>4. working[i] = [kind |-> "scalar", type |-> kinds[i], value |-> w.value]
        BY <3>2, <3>3
      <3>5. working[i] \in Argument
        BY <2>4, <3>2, <3>4 DEF Argument, Scalar
      <3>6. working[i].kind = "scalar"
        BY <3>4
      <3> QED BY <2>4, <3>4, <3>5, <3>6 DEF IsKind, Squared
    <2>5. CASE kinds[i] \notin ScalarType
      <3>1. working[i] = w
        BY <1>1, <2>5 DEF w
      <3>2. w.kind = kinds[i]
        BY <2>3, <2>5 DEF KindsTried
      <3> QED BY <2>1, <2>2, <2>5, <3>1, <3>2 DEF IsKind, w
    <2> QED BY <2>4, <2>5
<1> HIDE DEF working
<1>3. CASE args = working
  BY <1>1, <1>2, <1>3
<1>4. ASSUME NEW n \in Parameters(k), NEW a \in OfKind(kinds[n]), args = [working EXCEPT ![n] = a]
      PROVE  /\ DOMAIN args = Parameters(k)
             /\ \A i \in Parameters(k) : IsKind(args[i], kinds[i])
             /\ \A j \in Parameters(k) : j # n => Squared(args[j])
  <2>1. kinds[n] \in ScalarType \union {"scalar", "image", "array", "matrix", "pyramid"}
    BY DEF KindsTried, KernelSound, ParameterSound
  <2>2. IsKind(a, kinds[n])
    BY <2>1, KindFacts
  <2>3. DOMAIN args = Parameters(k) /\ args[n] = a
    BY <1>1, <1>4
  <2>4. \A j \in Parameters(k) : j # n => args[j] = working[j]
    BY <1>1, <1>4
  <2> QED BY <1>2, <2>2, <2>3, <2>4
<1>5. \/ args = working
      \/ \E n \in Parameters(k) : \E a \in OfKind(kinds[n]) : args = [working EXCEPT ![n] = a]
  BY <1>1 DEF Tried, working
<1> QED BY <1>3, <1>4, <1>5

-------------------------------------------------------------------------------
(***************************************************************************)
(* The life of a node.                                                     *)
(***************************************************************************)
\* The arguments of a node of kernel k that by has made: all but one have the size
\* of the working ones; a constructor that agrees with its kernel has made scalars
\* of the types the kernel takes.
NodeArguments(k, by, args) ==
  /\ DOMAIN args = Parameters(k)
  /\ \A i \in Parameters(k) : args[i] \in Argument
  /\ \E n : \A j \in Parameters(k) : j # n => Squared(args[j])
  /\ by \in DOMAIN Constructor \ MismatchedConstructors =>
       \E kinds : /\ KernelSound(k, kinds)
                  /\ \A i \in Parameters(k) : IsKind(args[i], kinds[i])

\* A step may return an error.
MayFail(step, args, made) == StepFails(step, args, made) \/ StepMayFail(step, args, made)

\* What its phase says of a node.
NodeSound(n) ==
  /\ n = [phase |-> n.phase, by |-> n.by, kernel |-> n.kernel, args |-> n.args,
             kept |-> n.kept, made |-> n.made]
  /\ n.phase \in {"created", "refused", "verified", "executed", "failed"}
  /\ n.by \in DOMAIN Constructor \union {"vxCreateGenericNode"}
  /\ n.kernel \in published /\ n.made \in Nat
  /\ NodeArguments(n.kernel, n.by, n.args)
  /\ n.phase = "refused" => \E i \in Parameters(n.kernel) : n.args[i] \notin Accepted(n.kernel, i)
  /\ n.phase \in {"verified", "executed", "failed"} =>
       \A i \in Parameters(n.kernel) : n.args[i] \in Accepted(n.kernel, i)
  /\ n.phase = "failed" =>
       \E m \in DOMAIN OpenCVKernel[n.kernel].body :
         MayFail(OpenCVKernel[n.kernel].body[m], n.args, n.made)

\* The inductive invariant.
NodeInv ==
  /\ loading \in {"not", "ok", "failed"}
  /\ published \subseteq DOMAIN OpenCVKernel
  /\ loading = "not" => node = NoNode
  /\ node # NoNode => NodeSound(node)

\* Nothing is loaded at first.
LEMMA InitNodeInv == ASSUME OpenCVInit PROVE NodeInv
BY DEF OpenCVInit, NodeInv

\* Loading the module.
LEMMA PublishKeepsNodes == ASSUME NodeInv, vxPublishKernels PROVE NodeInv'
<1>1. loading = "not" /\ node = NoNode /\ node' = NoNode
  BY DEF vxPublishKernels, NodeInv
<1>2. loading' \in {"not", "ok", "failed"}
  BY DEF vxPublishKernels
<1>3. published' \subseteq DOMAIN OpenCVKernel
  BY PublishedKernels DEF vxPublishKernels
<1> QED BY <1>1, <1>2, <1>3 DEF NodeInv

\* Whoever makes a node.
LEMMA CreateKeepsNodes ==
  ASSUME NodeInv, MayCreate, NEW by \in DOMAIN Constructor \union {"vxCreateGenericNode"},
         NEW k \in published, NEW args, CreateNode(by, k, args), NodeArguments(k, by, args)
  PROVE  NodeInv'
<1> DEFINE n == [phase |-> "created", by |-> by, kernel |-> k, args |-> args, kept |-> {},
                 made |-> 0]
<1>1. node' = n /\ loading' = loading /\ published' = published /\ loading # "not"
  BY DEF CreateNode, MayCreate
<1>2. n.phase = "created" /\ n.by = by /\ n.kernel = k /\ n.args = args /\ n.made = 0
      /\ n = [phase |-> n.phase, by |-> n.by, kernel |-> n.kernel, args |-> n.args,
             kept |-> n.kept, made |-> n.made]
  OBVIOUS
<1> HIDE DEF n
<1>3. NodeSound(n)
  BY <1>2 DEF NodeSound
<1>4. NodeSound(node)'
  BY <1>1, <1>3 DEF NodeSound
<1> QED BY <1>1, <1>4 DEF NodeInv

\* A constructor.
LEMMA ConstructKeepsNodes == ASSUME NodeInv, ConstructNode PROVE NodeInv'
<1>1. PICK c \in DOMAIN Constructor : Constructor[c].kernel \in published /\
        \E args \in Tried(Constructor[c].kernel, Constructor[c].kinds) :
          CreateNode(c, Constructor[c].kernel, args)
  BY DEF ConstructNode
<1> DEFINE k == Constructor[c].kernel  kinds == Constructor[c].kinds
<1>2. PICK args \in Tried(k, kinds) : CreateNode(c, k, args)
  BY <1>1
<1>3. MayCreate
  BY DEF ConstructNode
<1>4. ConstructorSound(c, Constructor[c])
  BY EveryConstructorSound
<1> HIDE DEF k, kinds
<1>5. CASE c \in MismatchedConstructors
  <2>1. PICK t : KernelSound(k, t) /\ Alike(t, kinds)
    BY <1>4, <1>5 DEF ConstructorSound, k, kinds
  <2>2. KindsTried(k, t, kinds)
    BY <2>1 DEF KindsTried, Alike, KernelSound
  <2>3. NodeArguments(k, c, args)
    BY <1>5, <2>1, <2>2, TriedFacts DEF NodeArguments, IsKind
  <2> QED BY <1>1, <1>2, <1>3, <2>3, CreateKeepsNodes DEF k
<1>6. CASE c \notin MismatchedConstructors
  <2>1. KernelSound(k, kinds)
    BY <1>4, <1>6 DEF ConstructorSound, k, kinds
  <2>2. KindsTried(k, kinds, kinds)
    BY <2>1 DEF KindsTried, KernelSound
  <2>3. NodeArguments(k, c, args)
    BY <2>1, <2>2, TriedFacts DEF NodeArguments, IsKind
  <2> QED BY <1>1, <1>2, <1>3, <2>3, CreateKeepsNodes DEF k
<1> QED BY <1>5, <1>6

\* A node made by hand.
LEMMA GenericKeepsNodes == ASSUME NodeInv, vxCreateGenericNode PROVE NodeInv'
<1> DEFINE kindsOf(k) == [i \in Parameters(k) |-> OpenCVKernel[k].parameters[i].kind]
<1>1. PICK k \in published : \E args \in Tried(k, kindsOf(k)) :
         CreateNode("vxCreateGenericNode", k, args)
  BY DEF vxCreateGenericNode
<1>2. PICK args \in Tried(k, kindsOf(k)) : CreateNode("vxCreateGenericNode", k, args)
  BY <1>1
<1>3. MayCreate
  BY DEF vxCreateGenericNode
<1>4. PICK t : KernelSound(k, t)
  BY EveryKernelSound DEF NodeInv
<1>5. KindsTried(k, t, kindsOf(k))
  <2>1. DOMAIN kindsOf(k) = Parameters(k)
    OBVIOUS
  <2>2. ASSUME NEW i \in Parameters(k)
        PROVE  \/ kindsOf(k)[i] = "scalar" /\ t[i] \in ScalarType
               \/ kindsOf(k)[i] \notin ScalarType /\ kindsOf(k)[i] = t[i]
    <3>1. ParameterSound(k, i, t[i]) /\ kindsOf(k)[i] = OpenCVKernel[k].parameters[i].kind
      BY <1>4 DEF KernelSound
    <3> HIDE DEF kindsOf
    <3> QED BY <3>1 DEF ParameterSound, ScalarType
  <2> HIDE DEF kindsOf
  <2> QED BY <2>1, <2>2 DEF KindsTried
<1> HIDE DEF kindsOf
<1>6. "vxCreateGenericNode" \notin DOMAIN Constructor
  <2> SUFFICES ASSUME NEW m \in DOMAIN Constructors, "vxCreateGenericNode" \in DOMAIN Constructors[m]
               PROVE  FALSE
    BY DEF Constructor
  <2>0. DOMAIN Constructors = 1..12
    BY DEF Constructors
  <2>1. CASE m = 1
    <3>1. Constructors[m] = LogicNodes
      BY <2>1 DEF Constructors
    <3> QED BY <3>1 DEF LogicNodes
  <2>2. CASE m = 2
    <3>1. Constructors[m] = CompareNodes
      BY <2>2 DEF Constructors
    <3> QED BY <3>1 DEF CompareNodes
  <2>3. CASE m = 3
    <3>1. Constructors[m] = BlurNodes
      BY <2>3 DEF Constructors
    <3> QED BY <3>1 DEF BlurNodes
  <2>4. CASE m = 4
    <3>1. Constructors[m] = EdgeNodes
      BY <2>4 DEF Constructors
    <3> QED BY <3>1 DEF EdgeNodes
  <2>5. CASE m = 5
    <3>1. Constructors[m] = SiftNodes
      BY <2>5 DEF Constructors
    <3> QED BY <3>1 DEF SiftNodes
  <2>6. CASE m = 6
    <3>1. Constructors[m] = CornerNodes
      BY <2>6 DEF Constructors
    <3> QED BY <3>1 DEF CornerNodes
  <2>7. CASE m = 7
    <3>1. Constructors[m] = DetectorNodes
      BY <2>7 DEF Constructors
    <3> QED BY <3>1 DEF DetectorNodes
  <2>8. CASE m = 8
    <3>1. Constructors[m] = DescriptorNodes
      BY <2>8 DEF Constructors
    <3> QED BY <3>1 DEF DescriptorNodes
  <2>9. CASE m = 9
    <3>1. Constructors[m] = ColorNodes
      BY <2>9 DEF Constructors
    <3> QED BY <3>1 DEF ColorNodes
  <2>10. CASE m = 10
    <3>1. Constructors[m] = FilterNodes
      BY <2>10 DEF Constructors
    <3> QED BY <3>1 DEF FilterNodes
  <2>11. CASE m = 11
    <3>1. Constructors[m] = WarpNodes
      BY <2>11 DEF Constructors
    <3> QED BY <3>1 DEF WarpNodes
  <2>12. CASE m = 12
    <3>1. Constructors[m] = FlowNodes
      BY <2>12 DEF Constructors
    <3> QED BY <3>1 DEF FlowNodes
  <2> QED BY <2>0, <2>1, <2>2, <2>3, <2>4, <2>5, <2>6,
            <2>7, <2>8, <2>9, <2>10, <2>11, <2>12
<1>7. NodeArguments(k, "vxCreateGenericNode", args)
  BY <1>2, <1>4, <1>5, <1>6, TriedFacts DEF NodeArguments, IsKind
<1> QED BY <1>2, <1>3, <1>7, CreateKeepsNodes

\* A step changes the phase of a node, and at most what it has kept.
LEMMA PhaseKeepsNodes ==
  ASSUME NodeInv, node # NoNode, NEW phase, NEW kept, NEW made \in Nat,
         node' = [node EXCEPT !.phase = phase, !.kept = kept, !.made = made],
         loading' = loading, published' = published,
         phase \in {"refused", "verified", "executed", "failed"},
         phase = "refused" => \E i \in Parameters(node.kernel) :
                                 node.args[i] \notin Accepted(node.kernel, i),
         phase # "refused" => \A i \in Parameters(node.kernel) :
                                 node.args[i] \in Accepted(node.kernel, i),
         phase = "failed" => \E m \in DOMAIN OpenCVKernel[node.kernel].body :
                                MayFail(OpenCVKernel[node.kernel].body[m], node.args, made)
  PROVE  NodeInv'
<1> DEFINE n == node'
<1>1. NodeSound(node)
  BY DEF NodeInv
<1>2. /\ n = [phase |-> phase, by |-> node.by, kernel |-> node.kernel, args |-> node.args,
              kept |-> kept, made |-> made]
  BY <1>1 DEF NodeSound
<1>3. n.phase = phase /\ n.by = node.by /\ n.kernel = node.kernel /\ n.args = node.args
      /\ n.made = made
      /\ n = [phase |-> n.phase, by |-> n.by, kernel |-> n.kernel, args |-> n.args,
             kept |-> n.kept, made |-> n.made]
  BY <1>2
<1>4. NodeSound(node)'
  BY <1>1, <1>3 DEF NodeSound
<1>5. loading # "not"
  BY DEF NodeInv
<1> QED BY <1>4, <1>5 DEF NodeInv

\* Verification.
LEMMA VerifyKeepsNodes == ASSUME NodeInv, vxVerifyGraph PROVE NodeInv'
<1> DEFINE bad == {i \in Parameters(node.kernel) : node.args[i] \notin Accepted(node.kernel, i)}
           phase == IF bad = {} THEN "verified" ELSE "refused"
<1>1. loading' = loading /\ published' = published /\ node # NoNode
  BY DEF vxVerifyGraph, NoNode
<1>2. PICK kept : node' = [node EXCEPT !.phase = phase, !.kept = kept, !.made = node.made]
  <2>1. NodeSound(node)
    BY <1>1 DEF NodeInv
  <2>2. PICK kept : node' = [node EXCEPT !.phase = phase, !.kept = kept]
    BY DEF vxVerifyGraph
  <2> HIDE DEF phase
  <2> QED BY <2>1, <2>2 DEF NodeSound
<1>3. phase \in {"verified", "refused"} /\ (phase = "refused" <=> bad # {})
  OBVIOUS
<1>4. phase = "refused" => \E i \in Parameters(node.kernel) :
                              node.args[i] \notin Accepted(node.kernel, i)
  BY <1>3
<1>5. phase # "refused" => \A i \in Parameters(node.kernel) :
                              node.args[i] \in Accepted(node.kernel, i)
  BY <1>3
<1>6. phase # "failed" /\ node.made \in Nat
  BY <1>1 DEF NodeInv, NodeSound
<1> HIDE DEF phase
<1> QED BY <1>1, <1>2, <1>3, <1>4, <1>5, <1>6, PhaseKeepsNodes

\* The values that are not negative are natural numbers.
LEMMA NonNegativeNatural == NonNegative \subseteq Nat
<1>1. Value \subseteq Int
  BY ArgumentAssumption
<1>2. ASSUME NEW v \in NonNegative PROVE v \in Nat
  <2>1. v \in Value /\ v >= 0
    BY DEF NonNegative
  <2>2. v \in Int
    BY <1>1, <2>1
  <2> QED BY <2>1, <2>2
<1> QED BY <1>2

\* What OpenCV makes is counted.
LEMMA ProducedCounts ==
  ASSUME NEW k \in DOMAIN OpenCVKernel, NEW args,
         \A i \in Parameters(k) : args[i] \in Accepted(k, i)
  PROVE  Produced(k, args) \subseteq Nat
<1>1. CASE k = "buildPyramid"
  <2>1. 3 \in Parameters(k) /\ Direction(k, 3) = "input"
    BY <1>1 DEF Parameters, Direction, OpenCVKernel, Kernel, buildPyramid_Kernel, In
  <2>2. OpenCVKernel[k].validators.in[3] = Int32(NonNegative)
    BY <1>1 DEF OpenCVKernel, Kernel, buildPyramid_Validators, Validators
  <2>3. args[3] \in Int32(NonNegative)
    BY <2>1, <2>2 DEF Accepted
  <2>4. args[3].value \in Nat
    BY <2>3, NonNegativeNatural DEF Int32, Scalar
  <2> QED BY <1>1, <2>4 DEF Produced
<1>2. CASE k = "buildOpticalFlowPyramid"
  <2>1. 5 \in Parameters(k) /\ Direction(k, 5) = "input"
    BY <1>2 DEF Parameters, Direction, OpenCVKernel, Kernel, buildOpticalFlowPyramid_Kernel, In
  <2>2. OpenCVKernel[k].validators.in[5] = Int32(NonNegative)
    BY <1>2 DEF OpenCVKernel, Kernel, buildOpticalFlowPyramid_Validators, Validators
  <2>3. args[5] \in Int32(NonNegative)
    BY <2>1, <2>2 DEF Accepted
  <2>4. args[5].value \in Nat
    BY <2>3, NonNegativeNatural DEF Int32, Scalar
  <2> QED BY <1>2, <2>4 DEF Produced
<1>3. CASE k \notin {"buildPyramid", "buildOpticalFlowPyramid"}
  BY <1>3 DEF Produced
<1> QED BY <1>1, <1>2, <1>3

\* Execution.
LEMMA ProcessKeepsNodes == ASSUME NodeInv, vxProcessGraph PROVE NodeInv'
<1>1. NodeSound(node) /\ node # NoNode
  BY DEF vxProcessGraph, NodeInv, NoNode
<1>2. PICK made \in Produced(node.kernel, node.args), phase \in {"executed", "failed"} :
        /\ node' = [node EXCEPT !.phase = phase, !.made = made]
        /\ phase = "failed" => FailingSteps(made) \union DoubtfulSteps(made) # {}
  BY DEF vxProcessGraph
<1>3. loading' = loading /\ published' = published
  BY DEF vxProcessGraph
<1>4. \A i \in Parameters(node.kernel) : node.args[i] \in Accepted(node.kernel, i)
  BY <1>1 DEF vxProcessGraph, NodeSound
<1>5. phase = "failed" => \E m \in DOMAIN OpenCVKernel[node.kernel].body :
                            MayFail(OpenCVKernel[node.kernel].body[m], node.args, made)
  BY <1>2 DEF FailingSteps, DoubtfulSteps, MayFail, Body
<1>6. made \in Nat
  BY <1>1, <1>2, <1>4, ProducedCounts DEF NodeInv, NodeSound
<1>7. node' = [node EXCEPT !.phase = phase, !.kept = node.kept, !.made = made]
  BY <1>1, <1>2 DEF NodeSound
<1> QED BY <1>1, <1>2, <1>3, <1>4, <1>5, <1>6, <1>7, PhaseKeepsNodes

\* The invariant is inductive.
LEMMA StepNodeInv == ASSUME NodeInv, [OpenCVNext]_nodeVars PROVE NodeInv'
<1>1. CASE OpenCVThrows
  BY <1>1 DEF OpenCVThrows, NodeInv
<1>2. CASE vxReleaseGraph
  BY <1>2 DEF vxReleaseGraph, NodeInv
<1>3. CASE UNCHANGED nodeVars
  BY <1>3 DEF nodeVars, NodeInv, NodeSound
<1> QED BY <1>1, <1>2, <1>3, PublishKeepsNodes, ConstructKeepsNodes, GenericKeepsNodes,
           VerifyKeepsNodes, ProcessKeepsNodes DEF OpenCVNext

\* The types of the module's state.
LEMMA InvNodeTypes == ASSUME NodeInv PROVE OpenCVTypeOK
BY DEF NodeInv, NodeSound, NodeArguments, OpenCVTypeOK

\* A step fails only for what no validator compares.
LEMMA InvRun == ASSUME NodeInv PROVE VerifiedNodesRun
<1> SUFFICES ASSUME node.phase = "failed" PROVE VerifiedNodesRun
  BY DEF VerifiedNodesRun
<1> DEFINE k == node.kernel  args == node.args  body == OpenCVKernel[k].body
           Size2(i, j) == /\ i \in DOMAIN args /\ j \in DOMAIN args
                          /\ args[i].kind \in {"image", "pyramid"}
                          /\ args[j].kind \in {"image", "pyramid"}
                          /\ args[i].size # args[j].size
           NotItems(i) == \/ args[i].capacity = 0 \/ args[i].item # Holds(k, i)
                          \/ node.made = 0
                          \/ k = "SURF_compute" /\ args[8].value = 1
           NotLevels(i) ==
             \/ \E l \in 0 .. Len(args[i].above) :
                  l >= node.made \/ LevelSize(args[i], l) # CvLevelSize(args[1], l)
             \/ k = "buildOpticalFlowPyramid" /\ args[6].value = 1
<1>1. NodeSound(node)
  BY DEF NodeInv, NoNode
<1>2. PICK m \in DOMAIN body : MayFail(body[m], args, node.made)
  BY <1>1 DEF NodeSound
<1>3. PICK kinds : KernelSound(k, kinds)
  BY <1>1, EveryKernelSound DEF NodeSound, NodeInv
<1> DEFINE s == body[m]
<1>4. StepSound(k, s)
  BY <1>3 DEF KernelSound
<1>5. /\ \A i \in Parameters(k) : args[i] \in Accepted(k, i) /\ args[i] \in Argument
      /\ DOMAIN args = Parameters(k)
  BY <1>1 DEF NodeSound, NodeArguments
<1>6. \A i : Sized(k, i) => i \in DOMAIN args /\ args[i].kind \in {"image", "pyramid"}
  BY <1>5 DEF Sized
<1> SUFFICES \/ \E i, j \in DOMAIN args : Size2(i, j)
             \/ \E i \in DOMAIN args : args[i] \in Image({"U16"}) \union Matrix({"UINT8"})
             \/ k = "resize"
             \/ \E i \in DOMAIN args :
                  \/ args[i].kind = "array" /\ NotItems(i)
                  \/ args[i].kind = "pyramid" /\ NotLevels(i)
  BY DEF VerifiedNodesRun
<1> HIDE DEF k, args, body, s
<1>7. CASE s.do = "match"
  <2>1. PICK i, j \in s.of : ~SameSize(args[i + 1], args[j + 1])
    BY <1>2, <1>7 DEF MayFail, StepFails, StepMayFail, s
  <2>2. Sized(k, i + 1) /\ Sized(k, j + 1)
    BY <1>4, <1>7, <2>1 DEF StepSound
  <2>3. Size2(i + 1, j + 1)
    BY <1>6, <2>1, <2>2 DEF SameSize
  <2> QED BY <2>3
<1>8. CASE s.do = "transposed"
  <2> DEFINE i == s.in + 1  j == s.of + 1
  <2>1. args[j].size # Reverse(args[i].size)
    BY <1>2, <1>8 DEF MayFail, StepFails, StepMayFail, s
  <2>2. Sized(k, i) /\ Sized(k, j) /\ s.in + 1 # s.of + 1
    BY <1>4, <1>8 DEF StepSound
  <2>3. /\ i \in DOMAIN args /\ args[i].kind \in {"image", "pyramid"}
        /\ j \in DOMAIN args /\ args[j].kind \in {"image", "pyramid"}
    BY <1>6, <2>2
  <2>4. PICK n : \A l \in Parameters(k) : l # n => Squared(args[l])
    BY <1>1 DEF NodeSound, NodeArguments, k, args
  <2>5. i # j
    BY <1>4, <1>8 DEF StepSound
  <2>6. args[i].size = <<3, 3>> \/ args[j].size = <<3, 3>>
    BY <1>5, <2>3, <2>4, <2>5 DEF Squared
  <2>7. Reverse(<<3, 3>>) = <<3, 3>>
    <3> DEFINE a == Reverse(<<3, 3>>)  b == <<3, 3>>
    <3>1. a = [l \in 1..2 |-> b[(2 - l) + 1]]
      BY DEF Reverse
    <3>2. b = [l \in 1..2 |-> 3]
      OBVIOUS
    <3>3. a = [l \in 1..2 |-> 3]
      BY <3>1, <3>2
    <3> QED BY <3>2, <3>3
  <2>8. args[i].size # args[j].size
    BY <2>1, <2>6, <2>7
  <2> QED BY <2>3, <2>8
<1>9. CASE s.do = "hasSize"
  BY <1>4, <1>9 DEF StepSound
<1>10. CASE s.do = "toMat"
  <2>1. args[s.of + 1].type \notin ConvertibleFormats
    BY <1>2, <1>10 DEF MayFail, StepFails, StepMayFail, s
  <2>2. s.of + 1 \in DOMAIN args /\ args[s.of + 1] \in Image(ConvertibleFormats \union {"U16"})
    BY <1>4, <1>5, <1>10 DEF StepSound, Convertible
  <2>3. args[s.of + 1] \in Image({"U16"})
    BY <2>1, <2>2 DEF Image
  <2> QED BY <2>2, <2>3
<1>11. CASE s.do = "toMatrix"
  <2>1. args[s.of + 1].type \notin ConvertibleTypes
    BY <1>2, <1>11 DEF MayFail, StepFails, StepMayFail, s
  <2>2. s.of + 1 \in DOMAIN args /\ args[s.of + 1] \in AnyMatrix
    BY <1>4, <1>5, <1>11 DEF StepSound, Matrices
  <2>3. args[s.of + 1] \in Matrix({"UINT8"})
    BY <2>1, <2>2 DEF AnyMatrix, Matrix, ConvertibleTypes
  <2> QED BY <2>2, <2>3
<1>12. CASE s.do = "pyramid"
  <2> DEFINE i == s.of + 1
  <2>1. i \in DOMAIN args /\ args[i] \in Pyramid({"U8"})
    BY <1>4, <1>5, <1>12 DEF StepSound, Pyramids
  <2>2. args[i].kind = "pyramid" /\ Len(args[i].above) \in Nat
    BY <2>1, ArgumentAssumption DEF Pyramid
  <2>3. CASE StepMayFail(s, args, node.made)
    <3>1. Len(args[i].above) >= node.made
      BY <1>12, <2>3 DEF StepMayFail
    <3> QED BY <2>1, <2>2, <3>1
  <2>4. CASE StepFails(s, args, node.made)
    <3>1. PICK l \in 0 .. Len(args[i].above) :
            Mismatch(LevelSize(args[i], l), CvLevelSize(args[1], l \div Times(s, args)))
      BY <1>12, <2>4 DEF StepFails
    <3>2. CASE Times(s, args) = 1
      <4>1. l \div Times(s, args) = l
        BY <2>2, <3>2
      <4>2. LevelSize(args[i], l) # CvLevelSize(args[1], l)
        BY <3>1, <4>1 DEF Mismatch
      <4> QED BY <2>1, <2>2, <4>2
    <3>3. CASE Times(s, args) # 1
      <4>1. k = "buildOpticalFlowPyramid" /\ args[6].value = 1
        BY <1>4, <1>12, <3>3 DEF StepSound, Times
      <4> QED BY <2>1, <2>2, <4>1
    <3> QED BY <3>2, <3>3
  <2> QED BY <1>2, <2>3, <2>4 DEF MayFail, s
<1>13. CASE s.do = "items"
  <2> DEFINE i == s.of + 1
  <2>1. i \in DOMAIN args /\ args[i].kind = "array" /\ s.size = Holds(k, i)
    BY <1>4, <1>5, <1>13 DEF StepSound, Arrays
  <2>2. args[i].item # s.size * Times(s, args) \/ args[i].capacity = 0 \/ node.made = 0
    BY <1>2, <1>13 DEF MayFail, StepFails, StepMayFail, s
  <2>3. CASE Times(s, args) = 1
    <3>1. s.size * 1 = s.size
      BY <2>1 DEF Holds, DescriptorSize, PointSize
    <3> QED BY <2>1, <2>2, <2>3, <3>1
  <2>4. CASE Times(s, args) # 1
    <3>1. k = "SURF_compute" /\ args[8].value = 1
      BY <1>4, <1>13, <2>4 DEF StepSound, Times
    <3> QED BY <2>1, <3>1
  <2> QED BY <2>3, <2>4
<1>14. CASE s.do \notin {"match", "transposed", "hasSize", "toMat", "toMatrix", "pyramid", "items"}
  BY <1>2, <1>14 DEF MayFail, StepFails, StepMayFail, s
<1> QED BY <1>7, <1>8, <1>9, <1>10, <1>11, <1>12, <1>13, <1>14

\* What has been executed has used all it was given.
LEMMA InvReach == ASSUME NodeInv PROVE ArgumentsReachOpenCV
<1> SUFFICES ASSUME node.phase = "executed" PROVE ArgumentsReachOpenCV
  BY DEF ArgumentsReachOpenCV
<1> DEFINE k == node.kernel  body == OpenCVKernel[k].body
<1>1. NodeSound(node)
  BY DEF NodeInv, NoNode
<1>2. PICK kinds : KernelSound(k, kinds)
  BY <1>1, EveryKernelSound DEF NodeSound, NodeInv
<1>3. ASSUME NEW i \in Parameters(k)
      PROVE  IF Direction(k, i) = "input"
             THEN \/ i - 1 \in Ignored(k)
                  \/ /\ Called(body, i - 1)
                     /\ node.args[i].kind = "scalar" => IsRead(body, node.args[i].type, i - 1)
             ELSE IsWritten(body, i - 1)
  <2>1. ParameterSound(k, i, kinds[i])
    BY <1>2 DEF KernelSound
  <2>2. node.args[i] \in Accepted(k, i)
    BY <1>1 DEF NodeSound
  <2> HIDE DEF body, k
  <2>3. CASE kinds[i] \in ScalarType
    <3>1. Direction(k, i) = "input" => node.args[i].type = kinds[i]
      BY <2>1, <2>2, <2>3 DEF ParameterSound, Accepted
    <3> QED BY <2>1, <2>3, <3>1 DEF ParameterSound, body
  <2>4. CASE kinds[i] \notin ScalarType
    <3>1. node.args[i].kind # "scalar"
      BY <2>1, <2>2, <2>4 DEF ParameterSound
    <3> QED BY <2>1, <3>1 DEF ParameterSound, body
  <2> QED BY <2>3, <2>4
<1> QED BY <1>3 DEF ArgumentsReachOpenCV, Body, Called, IsRead, IsWritten

\* What a constructor makes is not refused for a type it chose.
LEMMA InvConstructed == ASSUME NodeInv PROVE ConstructedNodesVerify
<1> DEFINE k == node.kernel
           alike(a) == IF a.kind = "scalar" THEN Scalar(ScalarType, {a.value}) ELSE {a}
<1> SUFFICES ASSUME node.phase = "refused",
                    node.by \in DOMAIN Constructor \ MismatchedConstructors
             PROVE  \E i \in Parameters(k) : alike(node.args[i]) \intersect Accepted(k, i) = {}
  BY DEF ConstructedNodesVerify
<1>1. NodeSound(node)
  BY DEF NodeInv, NoNode
<1>2. PICK i \in Parameters(k) : node.args[i] \notin Accepted(k, i)
  BY <1>1 DEF NodeSound
<1>3. PICK kinds : KernelSound(k, kinds) /\ \A j \in Parameters(k) : IsKind(node.args[j], kinds[j])
  BY <1>1 DEF NodeSound, NodeArguments
<1> DEFINE a == node.args[i]
<1>4. ParameterSound(k, i, kinds[i]) /\ IsKind(a, kinds[i])
  BY <1>3 DEF KernelSound
<1> HIDE DEF k, a
<1>5. CASE a.kind # "scalar"
  BY <1>2, <1>5 DEF a
<1>6. CASE a.kind = "scalar"
  <2>1. a = [kind |-> "scalar", type |-> a.type, value |-> a.value]
    BY <1>4, <1>6, ScalarShape DEF IsKind
  <2>2. kinds[i] \in ScalarType /\ a.type = kinds[i]
    BY <1>4, <1>6 DEF ParameterSound, IsKind
  <2>3. ASSUME NEW b \in Scalar(ScalarType, {a.value}), b \in Accepted(k, i) PROVE FALSE
    <3>1. b = [kind |-> "scalar", type |-> b.type, value |-> a.value]
      BY <2>3 DEF Scalar
    <3>2. b.type = kinds[i]
      BY <1>4, <2>2, <2>3 DEF ParameterSound, Accepted
    <3>3. b = a
      BY <2>1, <2>2, <3>1, <3>2
    <3> QED BY <1>2, <2>3, <3>3 DEF a
  <2> QED BY <1>6, <2>3 DEF a
<1> QED BY <1>5, <1>6

\* Throughout the life of the module and of its nodes, whatever is published and
\* whatever a node is given.
THEOREM NodesAlwaysSound == OpenCVSpec => []NodeInv
<1> QED BY InitNodeInv, StepNodeInv, PTL DEF OpenCVSpec

\* The types of the module's state.
THEOREM NodesTyped == OpenCVSpec => []OpenCVTypeOK
BY NodesAlwaysSound, InvNodeTypes, PTL

\* A node made by its constructor is refused only for an object or a number of
\* the application's, whatever constructor of vx_opencv but the five that do not
\* agree with their kernels' validators.
THEOREM ConstructedNodesAlwaysVerify == OpenCVSpec => []ConstructedNodesVerify
BY NodesAlwaysSound, InvConstructed, PTL

\* A verified node fails only for what no validator compares, whatever kernel of
\* vx_opencv it has and whoever made it.
THEOREM VerifiedNodesAlwaysRun == OpenCVSpec => []VerifiedNodesRun
BY NodesAlwaysSound, InvRun, PTL

\* A node that has been executed has handed each of its inputs to OpenCV, read
\* every scalar as what it is, and written every output, whatever kernel of
\* vx_opencv it has.
THEOREM ArgumentsAlwaysReach == OpenCVSpec => []ArgumentsReachOpenCV
BY NodesAlwaysSound, InvReach, PTL

-------------------------------------------------------------------------------
(***************************************************************************)
(* The application: its steps are those of the part it uses, and the other *)
(* parts stand still.                                                      *)
(***************************************************************************)
\* Seen from the stitch context, the application is LiveStitch.
LEMMA StitchesOnly == Spec => StitchSpec
<1>1. Init => StitchInit
  BY DEF Init
<1>2. [Next]_vars => [StitchNext]_stitchVars
  BY DEF Next, vars
<1> QED BY <1>1, <1>2, PTL DEF Spec, StitchSpec

\* Seen from the graph of layers, it is NeuralNodes.
LEMMA LayersOnly == Spec => LayerSpec
<1>1. Init => LayerInit
  BY DEF Init
<1>2. [Next]_vars => [LayerNext]_layerVars
  BY DEF Next, vars
<1> QED BY <1>1, <1>2, PTL DEF Spec, LayerSpec

\* Seen from the OpenCV node, it is OpenCVNodes.
LEMMA VisionOnly == Spec => OpenCVSpec
<1>1. Init => OpenCVInit
  BY DEF Init
<1>2. [Next]_vars => [OpenCVNext]_nodeVars
  BY DEF Next, vars
<1> QED BY <1>1, <1>2, PTL DEF Spec, OpenCVSpec

\* The types of the application's state.
THEOREM ApplicationTyped == Spec => []TypeOK
<1>1. StitchTypeOK /\ OpenCVTypeOK /\ LayersTypeOK => TypeOK
  BY DEF TypeOK
<1>2. Spec => []StitchTypeOK
  BY StitchesOnly, ContextTypeCorrect
<1>3. Spec => []OpenCVTypeOK
  BY VisionOnly, NodesTyped
<1>4. Spec => []LayersTypeOK
  BY LayersOnly, LayersTyped
<1> QED BY <1>1, <1>2, <1>3, <1>4, PTL

\* What the constructors make of fitting arguments, whichever module the
\* application uses, its validators accept, but for the code's exceptions.
THEOREM ApplicationVerifiesWhatIsMade == Spec => []ConstructedVerify
<1>1. ConstructedNodesVerify /\ ConstructedLayersVerify => ConstructedVerify
  BY DEF ConstructedVerify
<1>2. Spec => []ConstructedNodesVerify
  BY VisionOnly, ConstructedNodesAlwaysVerify
<1>3. Spec => []ConstructedLayersVerify
  BY LayersOnly, ConstructedLayersAlwaysVerify
<1> QED BY <1>1, <1>2, <1>3, PTL

\* What the application's graph verifies, it can execute: a node of vx_opencv up
\* to what no validator compares, a layer of vx_nn up to the code's two exceptions.
THEOREM ApplicationRunsWhatVerifies == Spec => []VerifiedRun
<1>1. VerifiedNodesRun /\ VerifiedLayersRun => VerifiedRun
  BY DEF VerifiedRun
<1>2. Spec => []VerifiedNodesRun
  BY VisionOnly, VerifiedNodesAlwaysRun
<1>3. Spec => []VerifiedLayersRun
  BY LayersOnly, VerifiedLayersAlwaysRun
<1> QED BY <1>1, <1>2, <1>3, PTL

\* What the application gives a node of vx_opencv or a layer of vx_nn is used when
\* it is executed.
THEOREM ApplicationArgumentsUsed == Spec => []ArgumentsReachLibrary
<1>1. ArgumentsReachOpenCV /\ LayersApplied => ArgumentsReachLibrary
  BY DEF ArgumentsReachLibrary
<1>2. Spec => []ArgumentsReachOpenCV
  BY VisionOnly, ArgumentsAlwaysReach
<1>3. Spec => []LayersApplied
  BY LayersOnly, LayersAlwaysApplied
<1> QED BY <1>1, <1>2, <1>3, PTL

\* What is generated for the application's graph writes every element of its
\* outputs, once, from the element it is to come from, of tensors and images of
\* every shape; but for the code's exceptions.
THEOREM ApplicationKernelsExact == Spec => []GeneratedKernelsExact
BY LayersOnly, GeneratedKernelsAlwaysExact

\* Whatever the application uses, what it gives up is released whole: a stitch
\* context leaves nothing behind (lsReleaseContext), a graph of layers holds no
\* object and no handle once it is released (their destructors), but for the
\* exceptions the two properties name.
THEOREM ApplicationReleasesAll == Spec => EverythingReleased
<1>1. Spec => ReleaseComplete
  BY StitchesOnly, ContextReleasedWhole
<1>2. Spec => []LayersReleased
  BY LayersOnly, LayersAlwaysReleased
<1> QED BY <1>1, <1>2 DEF EverythingReleased

===============================================================================
