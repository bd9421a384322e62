------------------------------ MODULE LiveStitch ------------------------------
(***************************************************************************)
(* One stitch context of LoomSL (live_stitch_api.cpp) and the application  *)
(* that drives it: configuration, lsInitialize, new rig, camera or overlay *)
(* parameters, lsReinitialize, frames, lsReleaseContext, and the files of  *)
(* the quick setup, which outlive the process.                             *)
(*                                                                         *)
(* A set of parameters is a version number: 0 for the defaults, the next   *)
(* number for every call that sets some.  A table is the versions it was   *)
(* computed from; the host computes the tables, SyncInternalTables copies  *)
(* them to the device, and frames use the device's copies.                 *)
(*                                                                         *)
(* The fields of ls_context_t are gathered in groups that one step of      *)
(* lsInitialize creates together.  held counts, for each group, what the   *)
(* calls on this handle have created and not released; at is the groups    *)
(* the handle points to.  An OpenVX call may fail at any point.            *)
(***************************************************************************)
EXTENDS Naturals, Sequences

CONSTANTS Options,      \* the attribute settings a context can be created with
          MaxVersion,   \* bound: the versions of a set of parameters
          MaxInits,     \* bound: calls of lsInitialize on the first context, and
                        \* one less on every later one
          MaxConfigs,   \* bound: calls of lsSetCameraConfig, and of lsSetOverlayConfig
          MaxContexts   \* bound: contexts created one after another

Option == [quick : BOOLEAN,     \* ATTR_STITCH_MODE is quick_and_dirty
           reinit : BOOLEAN,    \* ATTR_ENABLE_REINITIALIZE
           cpu : BOOLEAN,       \* ATTR_USE_CPU_FOR_INIT
           load : BOOLEAN,      \* ATTR_SAVE_AND_LOAD_INIT
           tiles : BOOLEAN,     \* the output is encoded in tiles
           seam : BOOLEAN, expo : BOOLEAN, bands : BOOLEAN]
                                \* ATTR_SEAMFIND, ATTR_EXPCOMP, ATTR_MULTIBAND

ASSUME StitchAssumption ==
  /\ Options \subseteq Option /\ Options # {}
  /\ {MaxVersion, MaxInits, MaxConfigs, MaxContexts} \subseteq Nat

VARIABLES life,         \* "none", "live", "ending", "lost" or "corrupt"
          opt,          \* live_stitch_attr
          conf,         \* calls of lsSetCameraConfig and lsSetOverlayConfig; the output is set
          vxContext,    \* "none", "own" or "external"
          par,          \* rig_par, camera_par, overlay_par
          flags,        \* initialized, scheduled, reinitialize_required, ..._params_updated
          host, dev,    \* the tables of the cameras and of the overlay
          init,         \* stitchInitData: its graph is built, its CameraParamsArr
          held, at, dangling,
          setup,        \* StitchTableSizes.txt and the files of the tables
          inits, contexts,
          imported      \* history: parameters imported since the tables were built

stitchVars == <<life, opt, conf, vxContext, par, flags, host, dev, init,
                held, at, dangling, setup, inits, contexts, imported>>

Version == 0..MaxVersion

\* What a table was computed from.
NoTable == [rig |-> 0, par |-> 0, from |-> "nothing"]
Mixed == [rig |-> 0, par |-> 0, from |-> "several"]
Table == [rig : Version, par : Version,
          from : {"cameras", "overlays", "files", "nothing", "several"}]

\* The groups, in the order lsInitialize creates them; "computed" is the point
\* where the tables are done and their temporary buffers have been deleted.
Steps == <<"context", "graph", "input", "overlay", "overlayLens", "output", "tiles",
           "filters", "sections", "remap", "lens", "initData", "bandOffsets", "tables",
           "gains", "seam", "seamInfo", "bands", "computed", "nodes">>
Group == {Steps[i] : i \in 1..Len(Steps)} \union {"cameraPar", "overlayPar"}

\* lsReleaseContext deletes these without clearing their pointers.
NotCleared == {"cameraPar", "overlayPar", "gains", "bands"}

NoFlags == [initialized |-> FALSE, scheduled |-> FALSE, required |-> FALSE,
            rig |-> FALSE, cam |-> FALSE, ovl |-> FALSE]

CurrentCameras == [rig |-> par.rig, par |-> par.cam, from |-> "cameras"]
CurrentOverlays == [rig |-> par.rig, par |-> par.ovl, from |-> "overlays"]

NoTables == [cam |-> NoTable, ovl |-> NoTable]
NoParameters == [rig |-> 0, cam |-> 0, ovl |-> 0]
NotConfigured == [cam |-> 0, ovl |-> 0, out |-> FALSE]
NotBuilt == [built |-> FALSE, rig |-> 0, cam |-> 0]

StitchInit ==
  /\ life = "none" /\ opt \in Options
  /\ conf = NotConfigured /\ vxContext = "none"
  /\ par = NoParameters /\ flags = NoFlags
  /\ host = NoTables /\ dev = NoTables /\ init = NotBuilt
  /\ held = [g \in Group |-> 0] /\ at = {} /\ dangling = {}
  /\ setup = [sizes |-> NoTable, tables |-> NoTable]
  /\ inits = 0 /\ contexts = 0 /\ imported = FALSE

\* The fields of a context lsCreateContext has just set to zero, and those of no
\* context at all.
Fresh ==
  /\ conf' = NotConfigured /\ vxContext' = "none"
  /\ par' = NoParameters /\ flags' = NoFlags
  /\ host' = NoTables /\ dev' = NoTables /\ init' = NotBuilt
  /\ at' = {} /\ dangling' = {}
  /\ inits' = 0 /\ imported' = FALSE

-------------------------------------------------------------------------------
(***************************************************************************)
(* Creation and configuration.                                             *)
(***************************************************************************)
tableVars == <<flags, host, dev, init, inits, imported>>
objectVars == <<held, at, dangling>>
outside == <<setup, contexts>>

lsCreateContext ==
  /\ life = "none" /\ contexts < MaxContexts
  /\ life' = "live" /\ opt' \in Options
  /\ Fresh
  /\ held' = [g \in Group |-> 0]
  /\ contexts' = contexts + 1
  /\ UNCHANGED setup

IsValidContext == life = "live"
IsValidContextAndInitialized == life = "live" /\ flags.initialized
IsValidContextAndNotInitialized == life = "live" /\ ~flags.initialized

lsSetOpenVXContext ==
  /\ IsValidContextAndNotInitialized /\ vxContext = "none"
  /\ vxContext' = "external"
  /\ UNCHANGED <<life, opt, conf, par, tableVars, objectVars, outside>>

lsGetOpenVXContext ==
  /\ IsValidContext /\ vxContext = "none"
  /\ vxContext' = "own"
  /\ held' = [held EXCEPT !["context"] = @ + 1] /\ at' = at \union {"context"}
  /\ UNCHANGED <<life, opt, conf, par, tableVars, dangling, outside>>

\* camera_par is allocated anew, with default parameters.
lsSetCameraConfig ==
  /\ IsValidContextAndNotInitialized /\ conf.cam < MaxConfigs
  /\ conf' = [conf EXCEPT !.cam = @ + 1]
  /\ par' = [par EXCEPT !.cam = 0]
  /\ held' = [held EXCEPT !["cameraPar"] = @ + 1] /\ at' = at \union {"cameraPar"}
  /\ UNCHANGED <<life, opt, vxContext, tableVars, dangling, outside>>

lsSetOverlayConfig ==
  /\ IsValidContextAndNotInitialized /\ conf.ovl < MaxConfigs
  /\ conf' = [conf EXCEPT !.ovl = @ + 1]
  /\ par' = [par EXCEPT !.ovl = 0]
  /\ held' = [held EXCEPT !["overlayPar"] = @ + 1] /\ at' = at \union {"overlayPar"}
  /\ UNCHANGED <<life, opt, vxContext, tableVars, dangling, outside>>

lsSetOutputConfig ==
  /\ IsValidContextAndNotInitialized
  /\ conf' = [conf EXCEPT !.out = TRUE]
  /\ UNCHANGED <<life, opt, vxContext, par, tableVars, objectVars, outside>>

\* Parameters may be set until lsInitialize, and afterwards when
\* lsReinitialize is enabled; then they mark what is out of date.
MaySet == IsValidContext /\ (flags.initialized => opt.reinit)

lsSetRigParams ==
  /\ MaySet /\ par.rig < MaxVersion
  /\ par' = [par EXCEPT !.rig = @ + 1]
  /\ flags' = IF flags.initialized THEN [flags EXCEPT !.required = TRUE, !.rig = TRUE]
              ELSE flags
  /\ UNCHANGED <<life, opt, conf, vxContext, host, dev, init, inits, imported,
                 objectVars, outside>>

\* Mutant: the cameras are not marked as updated.
lsSetCameraParamsUnmarked ==
  /\ MaySet /\ conf.cam > 0 /\ par.cam < MaxVersion
  /\ par' = [par EXCEPT !.cam = @ + 1]
  /\ flags' = IF flags.initialized THEN [flags EXCEPT !.required = TRUE] ELSE flags
  /\ UNCHANGED <<life, opt, conf, vxContext, host, dev, init, inits, imported,
                 objectVars, outside>>

lsSetCameraParams ==
  /\ MaySet /\ conf.cam > 0 /\ par.cam < MaxVersion
  /\ par' = [par EXCEPT !.cam = @ + 1]
  /\ flags' = IF flags.initialized THEN [flags EXCEPT !.required = TRUE, !.cam = TRUE]
              ELSE flags
  /\ UNCHANGED <<life, opt, conf, vxContext, host, dev, init, inits, imported,
                 objectVars, outside>>

lsSetOverlayParams ==
  /\ MaySet /\ conf.ovl > 0 /\ par.ovl < MaxVersion
  /\ par' = [par EXCEPT !.ovl = @ + 1]
  /\ flags' = IF flags.initialized THEN [flags EXCEPT !.required = TRUE, !.ovl = TRUE]
              ELSE flags
  /\ UNCHANGED <<life, opt, conf, vxContext, host, dev, init, inits, imported,
                 objectVars, outside>>

\* A .pts file sets camera parameters at any time and marks nothing; one that
\* is refused half way has set those of the first cameras.
lsImportConfiguration ==
  /\ IsValidContext /\ conf.cam > 0 /\ par.cam < MaxVersion
  /\ par' = [par EXCEPT !.cam = @ + 1]
  /\ imported' = (imported \/ flags.initialized)
  /\ UNCHANGED <<life, opt, conf, vxContext, flags, host, dev, init, inits,
                 objectVars, outside>>

-------------------------------------------------------------------------------
(***************************************************************************)
(* lsInitialize.                                                           *)
(***************************************************************************)
\* Quick setup: not in quick mode, not with the options that need the buffers.
SetupLoad == opt.load /\ ~opt.quick /\ ~opt.expo /\ ~opt.bands
SetupFilesFound == SetupLoad /\ setup.sizes # NoTable

\* What lsInitialize creates when nothing fails: the OpenVX objects it always
\* needs, those of the encoded output, those of the tables of the lenses, and
\* those of the options; off is the options that find too little overlap and
\* are switched off.
ImageObjects ==
  {"graph", "input", "output", "filters"}
  \union {g \in {"context"} : vxContext = "none"}
  \union {g \in {"overlay", "overlayLens"} : conf.ovl > 0}

EncodeObjects == {g \in {"tiles", "sections"} : opt.tiles}

LensObjects ==
  LET missing == opt.quick \/ "lens" \notin at     \* camSrcMap is null
  IN {g \in {"remap"} : opt.quick}
     \union {g \in {"lens"} : missing}
     \union {g \in {"initData"} : missing /\ ~opt.cpu}

TableObjects(off) ==
  {"tables"}
  \union {g \in {"gains"} : opt.expo /\ g \notin off}
  \union {g \in {"seam", "seamInfo"} : opt.seam /\ "seam" \notin off}
  \union {g \in {"bandOffsets"} : opt.bands /\ ~SetupFilesFound}
  \union {g \in {"bands"} : opt.bands /\ g \notin off}

Wanted(off) ==
  ImageObjects \union EncodeObjects \union LensObjects
  \union (IF opt.quick THEN {} ELSE TableObjects(off))
  \union {"computed", "nodes"}

\* The groups made by a call that gets as far as step n.
Made(n, off) == {Steps[i] : i \in 1..n} \intersect Wanted(off)

\* The temporary buffers are deleted as soon as the tables are computed,
\* unless lsReinitialize will need them.
Deleted(made) ==
  IF opt.reinit THEN {}
  ELSE (made \intersect {"overlayLens"})
       \union (IF "computed" \in made THEN (at \union made) \intersect {"lens"} ELSE {})

\* The files a call that computed the tables leaves: the sizes are written
\* before the tables are computed, and only without reinitialize.
DumpedSetup == [sizes |-> IF opt.reinit THEN setup.sizes ELSE CurrentCameras,
                tables |-> CurrentCameras]

\* The tables read back from the files.
LoadedTables ==
  {t \in {[setup.tables EXCEPT !.from = "files"], Mixed} :
     /\ setup.tables # NoTable
     /\ t = Mixed <=> setup.tables = Mixed \/ setup.tables # setup.sizes}

\* What both outcomes have in common; stitchInitData starts from a null
\* pointer, and what it pointed to is forgotten.
CreateObjects(made) ==
  /\ held' = [g \in Group |-> held[g] + (IF g \in made \ {"computed", "sections"} THEN 1 ELSE 0)
                                      - (IF g \in Deleted(made) THEN 1 ELSE 0)]
  /\ at' = ((at \ {"initData"}) \union made) \ Deleted(made)
  /\ vxContext' = IF "context" \in made THEN "own" ELSE vxContext
  /\ init' = IF "initData" \in made
             THEN [built |-> ~SetupFilesFound, rig |-> par.rig, cam |-> par.cam]
             ELSE [init EXCEPT !.built = FALSE]
  /\ inits' = inits + 1
  /\ UNCHANGED <<life, opt, conf, par, dangling, contexts>>

\* A call that gets to its end: that it may fail to create the file of the auxiliary
\* data, and then returns VX_FAILURE, changes nothing in the context it has initialized.
lsInitialize ==
  /\ IsValidContextAndNotInitialized /\ contexts + inits <= MaxInits
  /\ conf.cam > 0 /\ conf.out
  /\ \E off \in SUBSET {"gains", "seam", "bands"} :
       /\ CreateObjects(Made(Len(Steps), off))
       /\ \E t \in IF SetupFilesFound THEN LoadedTables ELSE {CurrentCameras} :
            host' = [cam |-> t,
                     ovl |-> IF conf.ovl > 0 THEN CurrentOverlays ELSE NoTable]
  /\ dev' = host'
  /\ setup' = IF SetupLoad /\ ~SetupFilesFound THEN DumpedSetup ELSE setup
  /\ flags' = [NoFlags EXCEPT !.initialized = TRUE]
  /\ imported' = FALSE

\* A call that stops after step n.  Nothing is released; the application may
\* call again.  The files of the tables may be written in part.
lsInitializeFails ==
  /\ IsValidContextAndNotInitialized /\ contexts + inits <= MaxInits
  /\ \E off \in SUBSET {"gains", "seam", "bands"}, n \in 0..Len(Steps) :
       /\ CreateObjects(Made(n, off))
       /\ IF SetupLoad /\ ~SetupFilesFound /\ "tables" \in Made(n, off)
          THEN setup' \in {DumpedSetup, [DumpedSetup EXCEPT !.tables = setup.tables],
                           [DumpedSetup EXCEPT !.tables = Mixed]}
          ELSE setup' = setup
  /\ UNCHANGED <<flags, host, dev, imported>>

-------------------------------------------------------------------------------
(***************************************************************************)
(* lsReinitialize.                                                         *)
(***************************************************************************)
CamerasOutdated == flags.rig \/ flags.cam
OverlaysOutdated == (flags.rig \/ flags.ovl) /\ "overlay" \in at

\* setupQuickInitializeParams fills CameraParamsArr again.
NewInit == IF CamerasOutdated /\ "initData" \in at /\ init.built
           THEN [init EXCEPT !.rig = par.rig, !.cam = par.cam] ELSE init

\* CalculateLensDistortionAndWarpMaps: with stitchInitData it runs the graph of
\* the cameras, whatever parameters it is given.
Maps(current) ==
  IF "initData" \notin at THEN current
  ELSE IF init.built THEN [rig |-> NewInit.rig, par |-> NewInit.cam, from |-> "cameras"]
  ELSE Mixed

NewTables == [cam |-> IF CamerasOutdated THEN Maps(CurrentCameras) ELSE host.cam,
              ovl |-> IF OverlaysOutdated THEN Maps(CurrentOverlays) ELSE host.ovl]

MayReinitialize ==
  /\ flags.required
  /\ IsValidContextAndInitialized /\ opt.reinit /\ ~flags.scheduled

\* The flags are cleared only after everything else.
lsReinitialize ==
  /\ MayReinitialize
  /\ init' = NewInit
  /\ host' = NewTables
  /\ dev' = IF CamerasOutdated \/ OverlaysOutdated THEN host' ELSE dev
  /\ flags' = [flags EXCEPT !.required = FALSE, !.rig = FALSE, !.cam = FALSE, !.ovl = FALSE]
  /\ imported' = (imported /\ ~CamerasOutdated)
  /\ UNCHANGED <<life, opt, conf, vxContext, par, inits, objectVars, outside>>

\* It fails between two steps: a table it was computing or copying is of both
\* kinds, and the flags keep what they said.
lsReinitializeFails ==
  /\ MayReinitialize
  /\ init' \in {init, NewInit}
  /\ \E cam \in IF CamerasOutdated THEN {host.cam, Mixed, NewTables.cam} ELSE {host.cam},
        ovl \in IF OverlaysOutdated THEN {host.ovl, Mixed, NewTables.ovl} ELSE {host.ovl} :
       /\ host' = [cam |-> cam, ovl |-> ovl]
       /\ dev' \in [cam : {dev.cam, Mixed, cam}, ovl : {dev.ovl, Mixed, ovl}]
       /\ dev'.cam # dev.cam => CamerasOutdated
       /\ dev'.ovl # dev.ovl => OverlaysOutdated
  /\ UNCHANGED <<life, opt, conf, vxContext, par, flags, inits, imported, objectVars, outside>>

-------------------------------------------------------------------------------
(***************************************************************************)
(* Frames.                                                                 *)
(***************************************************************************)
lsScheduleFrame ==
  /\ IsValidContextAndInitialized /\ ~flags.scheduled /\ ~flags.required
  /\ flags' = [flags EXCEPT !.scheduled = TRUE]
  /\ UNCHANGED <<life, opt, conf, vxContext, par, host, dev, init, inits, imported,
                 objectVars, outside>>

lsWaitForCompletion ==
  /\ IsValidContextAndInitialized /\ flags.scheduled
  /\ flags' = [flags EXCEPT !.scheduled = FALSE]
  /\ UNCHANGED <<life, opt, conf, vxContext, par, host, dev, init, inits, imported,
                 objectVars, outside>>

-------------------------------------------------------------------------------
(***************************************************************************)
(* The end of a context.                                                   *)
(***************************************************************************)
\* Mutant: the lens buffers of the overlay are not released.
ReleasedCamerasOnly ==
  at \ ({"seamInfo", "sections", "computed", "overlayLens"}
        \union (IF "sections" \in at THEN {} ELSE {"tiles"})
        \union (IF "bands" \in at THEN {} ELSE {"bandOffsets"})
        \union (IF opt.cpu THEN {"initData"} ELSE {}))

\* What lsReleaseContext finds a release for.
Released ==
  at \ ({"seamInfo", "sections", "computed"}
        \union (IF "sections" \in at THEN {} ELSE {"tiles"})
        \union (IF "bands" \in at THEN {} ELSE {"bandOffsets"})
        \union (IF opt.cpu THEN {"initData"} ELSE {}))

HeldAfter(groups) == [g \in Group |-> held[g] - (IF g \in groups THEN 1 ELSE 0)]

\* Nothing is left to be called; a call that has failed before left pointers
\* behind, and what they point to has been deleted a second time.
Ended(how) ==
  /\ life' = IF dangling = {} THEN how ELSE "corrupt"
  /\ Fresh
  /\ UNCHANGED <<opt, setup, contexts>>

lsReleaseContext ==
  /\ life \in {"live", "ending"}
  /\ held' = HeldAfter(Released)
  /\ Ended("none")

\* The groups whose pointers are not cleared, in the order they are deleted in, when a
\* release fails; none of them is when it is the profile of the graph that fails.
BeforeFailure ==
  {{"cameraPar", "overlayPar"}, {"cameraPar", "overlayPar", "gains"}, NotCleared}
  \union {{} : g \in at \intersect {"graph"}}

\* A release that fails makes the call return: before the magic is cleared, the
\* handle still valid and the groups released in part; or after, when every
\* further call refuses the handle.  A legal application only calls it again.
lsReleaseContextFails ==
  /\ life \in {"live", "ending"}
  /\ \/ \E done \in BeforeFailure :
          /\ held' = HeldAfter(done \intersect Released)
          /\ at' = at \ done
          /\ dangling' = dangling \union (done \intersect Released)
          /\ life' = IF dangling = {} THEN "ending" ELSE "corrupt"
          /\ UNCHANGED <<opt, conf, vxContext, par, flags, host, dev, init, inits,
                         imported, outside>>
     \/ \E last \in {{}, {"graph"}} :
          /\ held' = HeldAfter((Released \ {"graph", "context"}) \union (last \intersect Released))
          /\ Ended("lost")

\* The application ends or dies, and is started again: only files are left.
ProcessEnds ==
  /\ life # "none"
  /\ life' = "none"
  /\ Fresh
  /\ held' = [g \in Group |-> 0]
  /\ UNCHANGED <<opt, setup, contexts>>

StitchNext ==
  \/ lsCreateContext \/ lsSetOpenVXContext \/ lsGetOpenVXContext
  \/ lsSetCameraConfig \/ lsSetOverlayConfig \/ lsSetOutputConfig
  \/ lsSetRigParams \/ lsSetCameraParams \/ lsSetOverlayParams \/ lsImportConfiguration
  \/ lsInitialize \/ lsInitializeFails \/ lsReinitialize \/ lsReinitializeFails
  \/ lsScheduleFrame \/ lsWaitForCompletion
  \/ lsReleaseContext \/ lsReleaseContextFails \/ ProcessEnds

StitchSpec == StitchInit /\ [][StitchNext]_stitchVars

-------------------------------------------------------------------------------
(***************************************************************************)
(* Properties.                                                             *)
(***************************************************************************)
StitchTypeOK ==
  /\ life \in {"none", "live", "ending", "lost", "corrupt"}
  /\ opt \in Options
  /\ conf \in [cam : 0..MaxConfigs, ovl : 0..MaxConfigs, out : BOOLEAN]
  /\ vxContext \in {"none", "own", "external"}
  /\ par \in [rig : Version, cam : Version, ovl : Version]
  /\ flags \in [initialized : BOOLEAN, scheduled : BOOLEAN, required : BOOLEAN,
                rig : BOOLEAN, cam : BOOLEAN, ovl : BOOLEAN]
  /\ host \in [cam : Table, ovl : Table] /\ dev \in [cam : Table, ovl : Table]
  /\ init \in [built : BOOLEAN, rig : Version, cam : Version]
  /\ held \in [Group -> Nat] /\ at \subseteq Group /\ dangling \subseteq NotCleared
  /\ setup \in [sizes : Table, tables : Table]
  /\ inits \in 0..MaxInits /\ contexts \in 0..MaxContexts
  /\ imported \in BOOLEAN

\* Whenever a frame may be scheduled, the device's tables are those of the rig,
\* camera and overlay parameters last set, whatever calls were made in between
\* and whichever of them failed.  The code's exceptions: camera parameters
\* imported from a file after lsInitialize, tables read back from the files of
\* the quick setup, and the overlay's table once lsReinitialize has computed it
\* with the cameras' graph on the GPU (InitializeInternalTablesForRemap).
TablesCurrent ==
  IsValidContextAndInitialized /\ ~flags.required =>
    /\ \/ dev.cam = CurrentCameras
       \/ imported
       \/ SetupLoad /\ dev.cam.from \in {"files", "several"}
    /\ conf.ovl > 0 =>
         \/ dev.ovl = CurrentOverlays
         \/ ~opt.cpu /\ dev.ovl.from = "cameras"
         \/ ~opt.cpu /\ SetupLoad /\ dev.ovl = Mixed

\* When a context is gone, nothing the library made for it is left, even if
\* lsInitialize or an earlier lsReleaseContext had failed half way.  The code's
\* exceptions: a second configuration or lsInitialize overwrites the pointers
\* of the first; seamfind_info_array is never released; the encode tiles and
\* the offsets of the bands are released only if what was made after them was.
ReleaseComplete ==
  [][life # "none" /\ life' = "none" =>
       \A g \in Group :
         \/ held'[g] = 0
         \/ inits > 1
         \/ (g = "cameraPar" /\ conf.cam > 1) \/ (g = "overlayPar" /\ conf.ovl > 1)
         \/ g = "seamInfo"
         \/ g = "tiles" /\ ~flags.initialized
         \/ g = "bandOffsets" /\ "bands" \notin at]_stitchVars

===============================================================================
