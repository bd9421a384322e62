---------------------------- MODULE ServerSessions ----------------------------
(***************************************************************************)
(* annInferenceServer as a whole: main() and the accept loop, one detached *)
(* thread per connection (server.cpp), and what the sessions share -- the  *)
(* GPUs (GpuLocks), the descriptors (Connections), the model lists and the *)
(* upload counter of Arguments, the folders of the models on disk, and the *)
(* working directory of the process, which compiler sessions change.       *)
(*                                                                         *)
(* A compiler session (compiler.cpp) receives a model, runs the tools on   *)
(* it and lists it; a configure session (configure.cpp) sends the list; an *)
(* inference session (inference.cpp; its pipeline is InferencePipeline)    *)
(* loads a listed model; a shadow session (shadow.cpp) stores files.       *)
(*                                                                         *)
(* A phase that starts with an exchange with the client is one step with   *)
(* what the session does after it, until its next exchange or the next     *)
(* state it shares.  What a model is made from is abstracted to the        *)
(* session whose upload, input dimensions or log was used; a directory is  *)
(* named by the session that made it (by the model, if it is from an       *)
(* earlier run), so that a path and the directory it leads to are different*)
(* things.                                                                 *)
(***************************************************************************)
EXTENDS GpuLocks, Connections, SequencesExt

CONSTANTS SaveName,     \* the names models are saved under
          Listed,       \* the saved models the server finds at its first start
          Generators,   \* tools of the inference generator: 2 (caffe2openvx), or 3 with -n
          MaxUploads,   \* bound: the folders upload/model-<counter>
          MaxCrashes,   \* bound: crashes of the process
          Start,        \* the directory the server was started in
          Torn          \* a configuration file truncated and not yet written

ASSUME StoreAssumption ==
  /\ Listed \subseteq SaveName
  /\ Generators \in {2, 3}
  /\ MaxUploads \in Nat /\ MaxCrashes \in Nat
  /\ IsFiniteSet(SaveName)
  /\ SaveName \cap (Nat \union Session) = {}
  /\ None \notin SaveName \union Nat
  /\ Start \notin Session \union SaveName

VARIABLES phase,        \* where each session is
          folder,       \* the folder a compiler session has chosen
          gen,          \* the tool of the generator it runs next
          out,          \* the log its output dimensions come from
          entry,        \* the entry of the model lists an inference session found
          loaded,       \* the library it has loaded
          toSend,       \* the entries a configure session has counted
          seen,         \* the names it has sent so far
          configured, uploaded, counter,   \* configuredModels, uploadedModels, modelFileDownloadCounter
          cwd,          \* the working directory of the process
          dirAt,        \* the directory at each model folder's path
          files,        \* what is in the directories
          savedCounter, \* the counter in the configuration file
          up,           \* "up", "fatal" or "crashed"
          crashes,
          disturbed,    \* history: compilations another one shared the cwd with
          lostCounter   \* history: the server has started from a torn file

localVars == <<folder, gen, out, entry, loaded, toSend, seen>>
listVars == <<configured, uploaded, counter>>
diskVars == <<dirAt, files, savedCounter>>
processVars == <<up, crashes, lostCounter>>
storeVars == <<localVars, listVars, cwd, diskVars, processVars, disturbed>>
vars == <<gpuVars, connVars, phase, storeVars>>

Maker == Session \union Listed                 \* who may have made a directory
Folder == SaveName \union (1..MaxUploads)      \* names of model folders, upload/ left out
Model == [name : Folder, from : Maker, out : Maker \union {None}]
Library == [weights : Maker \union {None}, dims : Maker \union {None}]
Config == [from : Maker, out : Maker \union {None}]

ASSUME RecordAssumption == None \notin Model \union Library \union Config

\* The contents of a directory: the uploaded files, the generated code and the
\* log, by the session they come from; the Makefile, the library and the
\* configuration file.
Empty == [weights |-> None, code |-> None, log |-> None, make |-> FALSE,
          lib |-> None, config |-> None]
Compiled(n) == [weights |-> n, code |-> n, log |-> n, make |-> TRUE,
                lib |-> [weights |-> n, dims |-> n], config |-> [from |-> n, out |-> n]]

\* The phases that begin with an exchange with the client.
Exchanging ==
  {"accepted", "receive", "generate", "readLog", "make", "stat", "config", "done",
   "failed", "entry", "entriesSent", "notFound", "serve", "shadowFolders", "shadowFiles"}

\* A compiler session that relies on the working directory.
Building(s) == phase[s] \in {"generate", "readLog", "cmake", "make"}

NameOf(m) == m.name
EntryOf(n, from, o) == [name |-> n, from |-> from, out |-> o]

\* The models found on disk when the server starts: the folders not below
\* upload/ that hold a configuration file.
OnDisk == {n \in SaveName : dirAt[n] # None /\ files[dirAt[n]].config # None}
DiskEntry(n) == LET c == files[dirAt[n]].config IN EntryOf(n, c.from, c.out)

\* The sessions that have chosen a folder, and hence remove and make it.
Makers(n) == {s \in Session : folder[s] = n}

TypeOK ==
  /\ GpuTypeOK
  /\ ConnTypeOK
  /\ phase \in [Session -> Exchanging \union
       {"new", "check", "count", "counting", "remove", "makeDirs", "chdir", "cmake", "list",
        "countModels", "lock", "lookup", "load", "shadow",
        "failing", "returned", "returned0", "ended"}]
  /\ folder \in [Session -> Folder \union {None}]
  /\ \A s \in Session : entry[s] \in Model \union {None}
  /\ configured \in Seq(Model) /\ uploaded \in Seq(Model)
  /\ counter \in 0..MaxUploads
  /\ savedCounter \in (0..MaxUploads) \union {Torn}
  /\ dirAt \in [Folder -> Maker \union {None}]
  /\ DOMAIN files = Maker
  /\ up \in {"up", "fatal", "crashed"}
  /\ disturbed \subseteq Session

Init ==
  /\ GpuInit /\ ConnInit
  /\ phase = [s \in Session |-> "new"]
  /\ folder = [s \in Session |-> None]
  /\ gen = [s \in Session |-> 1]
  /\ out = [s \in Session |-> None]
  /\ entry = [s \in Session |-> None]
  /\ loaded = [s \in Session |-> None]
  /\ toSend = [s \in Session |-> 0]
  /\ seen = [s \in Session |-> <<>>]
  /\ configured \in {SetToSeq({EntryOf(n, n, n) : n \in Listed})}
  /\ uploaded = <<>>
  /\ counter = 0
  /\ cwd = [dir |-> Start, sub |-> FALSE]
  /\ dirAt = [n \in Folder |-> IF n \in Listed THEN n ELSE None]
  /\ files = [m \in Maker |-> IF m \in Listed THEN Compiled(m) ELSE Empty]
  /\ savedCounter = 0
  /\ up = "up" /\ crashes = 0 /\ lostCounter = FALSE
  /\ disturbed = {}
-------------------------------------------------------------------------------
Goto(s, p) == phase' = [phase EXCEPT ![s] = p]

\* An exchange went well and the session goes on with p.
Talk(s, p) == ExchangeOk(s) /\ Goto(s, p)

\* The session calls error_close and then returns -1.
Refuse(s) == ErrorClose(s) /\ Goto(s, "failing")

\* fatal(): the process exits.  A crash does the same from outside.
ProcessEnds(how) ==
  /\ up' = how
  /\ GpuReset /\ ConnReset
  /\ phase' = [s \in Session |-> IF phase[s] = "new" THEN "new" ELSE "ended"]
  /\ gen' = [s \in Session |-> 1]
  /\ out' = [s \in Session |-> None]
  /\ entry' = [s \in Session |-> None]
  /\ loaded' = [s \in Session |-> None]
  /\ toSend' = [s \in Session |-> 0]
  /\ seen' = [s \in Session |-> <<>>]
  /\ UNCHANGED <<folder, listVars, cwd, diskVars, lostCounter, disturbed>>

\* Any exchange of a session fails: its client is gone or answers wrongly.
ClientLost(s) ==
  /\ phase[s] \in Exchanging
  /\ ExchangeFails(s)
  /\ Goto(s, "returned")
  /\ UNCHANGED <<gpuVars, storeVars>>

\* error_close, one call at a time.
Failing(s) ==
  /\ phase[s] = "failing"
  /\ \/ ErrorSend(s) /\ UNCHANGED phase
     \/ ErrorRecv(s) /\ UNCHANGED phase
     \/ ErrorEnd(s) /\ Goto(s, "returned")
  /\ UNCHANGED <<gpuVars, storeVars>>

\* The accept loop starts the thread of a client.
Connect(s) ==
  /\ up = "up"
  /\ phase[s] = "new"
  /\ Accept(s)
  /\ Goto(s, "accepted")
  /\ UNCHANGED <<gpuVars, storeVars>>

\* connection(): the client says which session it wants; another answer closes
\* the connection.
Dispatch(s) ==
  /\ phase[s] = "accepted"
  /\ \/ \E first \in {"countModels", "check", "lock", "shadow"} : Talk(s, first)
     \/ CloseSocket(s) /\ Goto(s, "ended")
  /\ UNCHANGED <<gpuVars, storeVars>>

\* connection() after the session's function has returned and its locals are
\* gone; an engine is deleted first, and its destructor releases its devices.
Finish(s) ==
  /\ engine[s] \in {"idle", "refused", "released"}
  /\ \/ phase[s] = "returned0" /\ CloseSocket(s)
     \/ phase[s] = "returned" /\ UNCHANGED connVars
  /\ Goto(s, "ended")
  /\ gen' = [gen EXCEPT ![s] = 1]
  /\ out' = [out EXCEPT ![s] = None]
  /\ entry' = [entry EXCEPT ![s] = None]
  /\ loaded' = [loaded EXCEPT ![s] = None]
  /\ toSend' = [toSend EXCEPT ![s] = 0]
  /\ seen' = [seen EXCEPT ![s] = <<>>]
  /\ UNCHANGED <<gpuVars, folder, listVars, cwd, diskVars, processVars, disturbed>>
-------------------------------------------------------------------------------
\* runCompiler: dimensions, options and the name to save under, if any.  The
\* check of the name and its use are not one critical section.
Check(s) ==
  /\ phase[s] = "check"
  /\ mutex = None
  /\ \/ /\ Refuse(s)             \* wrong parameters, password or name
        /\ UNCHANGED folder
     \/ /\ Goto(s, "count")      \* no name
        /\ UNCHANGED <<connVars, folder>>
     \/ \E saveModelAs \in SaveName, overrideModel \in BOOLEAN :
          LET found == \E i \in 1..Len(configured) : configured[i].name = saveModelAs
          IN IF found /\ ~overrideModel
             THEN Refuse(s) /\ UNCHANGED folder
             ELSE /\ folder' = [folder EXCEPT ![s] = saveModelAs]
                  /\ Goto(s, "remove")
                  /\ UNCHANGED connVars
  /\ UNCHANGED <<gpuVars, gen, out, entry, loaded, toSend, seen,
                 listVars, cwd, diskVars, processVars, disturbed>>

\* getNextModelUploadCounter: saveConfig truncates the file ...
CountBegin(s) ==
  /\ phase[s] = "count"
  /\ counter < MaxUploads
  /\ TakeMutex(s)
  /\ counter' = counter + 1
  /\ savedCounter' = Torn
  /\ Goto(s, "counting")
  /\ UNCHANGED <<connVars, localVars, configured, uploaded, cwd, dirAt, files,
                 processVars, disturbed>>

\* Mutant: the counter is saved before it is incremented.
CountEndBefore(s) ==
  /\ phase[s] = "counting"
  /\ DropMutex(s)
  /\ savedCounter' = counter - 1
  /\ folder' = [folder EXCEPT ![s] = counter]
  /\ Goto(s, "remove")
  /\ UNCHANGED <<connVars, gen, out, entry, loaded, toSend, seen, listVars, cwd,
                 dirAt, files, processVars, disturbed>>

\* ... and writes it.
CountEnd(s) ==
  /\ phase[s] = "counting"
  /\ DropMutex(s)
  /\ savedCounter' = counter
  /\ folder' = [folder EXCEPT ![s] = counter]
  /\ Goto(s, "remove")
  /\ UNCHANGED <<connVars, gen, out, entry, loaded, toSend, seen, listVars, cwd,
                 dirAt, files, processVars, disturbed>>

\* Mutant: the folder of an earlier model is left in place.
RemoveFolderNot(s) ==
  /\ phase[s] = "remove"
  /\ Goto(s, "makeDirs")
  /\ UNCHANGED <<gpuVars, connVars, storeVars>>

\* /bin/rm -rf of the folder and what is in it, or the command cannot be started.
RemoveFolder(s) ==
  /\ phase[s] = "remove"
  /\ \/ /\ dirAt' = [dirAt EXCEPT ![folder[s]] = None]
        /\ files' = [m \in Maker |-> IF m = dirAt[folder[s]] THEN Empty ELSE files[m]]
        /\ Goto(s, "makeDirs")
        /\ UNCHANGED connVars
     \/ /\ Refuse(s)
        /\ UNCHANGED <<dirAt, files>>
  /\ UNCHANGED <<gpuVars, localVars, listVars, cwd, savedCounter, processVars, disturbed>>

\* mkdir of the folder; when it exists again, fatal().
MakeDirs(s) ==
  /\ phase[s] = "makeDirs"
  /\ \/ /\ dirAt[folder[s]] = None
        /\ dirAt' = [dirAt EXCEPT ![folder[s]] = s]
        /\ Goto(s, "receive")
        /\ UNCHANGED <<gpuVars, connVars, localVars, listVars, cwd, files, savedCounter, processVars, disturbed>>
     \/ /\ dirAt[folder[s]] # None
        /\ ProcessEnds("fatal")
        /\ UNCHANGED crashes

\* The two model files arrive and are written by their path; a short or
\* unmarked file is refused, and a folder that has gone is fatal.
Receive(s) ==
  /\ phase[s] = "receive"
  /\ LET d == dirAt[folder[s]]
     IN \/ /\ d # None
           /\ files' = [files EXCEPT ![d].weights = s]
           /\ Talk(s, "chdir")
           /\ UNCHANGED <<gpuVars, localVars, listVars, cwd, dirAt, savedCounter,
                          processVars, disturbed>>
        \/ /\ d = None
           /\ ProcessEnds("fatal")
           /\ UNCHANGED crashes
        \/ Refuse(s) /\ UNCHANGED <<gpuVars, storeVars>>

\* The sessions that share the working directory once s has changed it.
DisturbedBy(s) ==
  LET others == {t \in Session \ {s} : Building(t)}
  IN disturbed' = disturbed \union others \union (IF others = {} THEN {} ELSE {s})

\* chdir(modelFolder), for the whole process.
Chdir(s) ==
  /\ phase[s] = "chdir"
  /\ LET d == dirAt[folder[s]]
     IN \/ /\ d # None
           /\ cwd' = [dir |-> d, sub |-> FALSE]
           /\ DisturbedBy(s)
           /\ Goto(s, "generate")
        \/ /\ d = None
           /\ Goto(s, "failed")
           /\ UNCHANGED <<cwd, disturbed>>
  /\ UNCHANGED <<gpuVars, connVars, localVars, listVars, diskVars, processVars>>

\* The directory the process is in still has a name.
CwdExists == cwd.dir # Start /\ \E n \in Folder : dirAt[n] = cwd.dir

\* One tool of the inference generator, run in the working directory with the
\* input dimensions of s: it finds the upload there and succeeds, or fails; the
\* first one starts a new log.
Generate(s) ==
  /\ phase[s] = "generate"
  /\ LET d == cwd.dir
         here == CwdExists /\ ~cwd.sub
     IN \/ /\ here /\ files[d].weights # None
           /\ gen[s] > 1 => files[d].code # None
           /\ files' = [files EXCEPT ![d].code = s, ![d].log = s]
           /\ gen' = [gen EXCEPT ![s] = @ + 1]
           /\ Talk(s, IF gen[s] = Generators THEN "readLog" ELSE "generate")
        \/ /\ files' = IF here /\ gen[s] = 1 THEN [files EXCEPT ![d].log = None] ELSE files
           /\ Talk(s, "failed")
           /\ UNCHANGED gen
  /\ UNCHANGED <<gpuVars, folder, out, entry, loaded, toSend, seen, listVars, cwd,
                 dirAt, savedCounter, processVars, disturbed>>

\* The output dimensions are taken from the log in the working directory; then
\* chdir(buildFolder).
ReadLog(s) ==
  /\ phase[s] = "readLog"
  /\ LET d == cwd.dir
         b == dirAt[folder[s]]
         log == IF CwdExists /\ ~cwd.sub THEN files[d].log ELSE None
     IN \/ /\ log # None /\ b # None
           /\ out' = [out EXCEPT ![s] = log]
           /\ cwd' = [dir |-> b, sub |-> TRUE]
           /\ DisturbedBy(s)
           /\ Talk(s, "cmake")
        \/ /\ log # None /\ b = None
           /\ Talk(s, "failed")
           /\ UNCHANGED <<out, cwd, disturbed>>
        \/ /\ log = None
           /\ Refuse(s)
           /\ UNCHANGED <<out, cwd, disturbed>>
  /\ UNCHANGED <<gpuVars, folder, gen, entry, loaded, toSend, seen, listVars,
                 diskVars, processVars>>

\* cmake in the working directory; the Makefile is looked for by its path.
Cmake(s) ==
  /\ phase[s] = "cmake"
  /\ LET d == cwd.dir
         able == CwdExists /\ cwd.sub /\ files[d].code # None
     IN \E runs \in BOOLEAN :
          /\ runs => able
          /\ files' = IF runs THEN [files EXCEPT ![d].make = TRUE] ELSE files
          /\ LET b == dirAt[folder[s]]
             IN Goto(s, IF runs /\ b # None /\ files'[b].make THEN "make" ELSE "failed")
  /\ UNCHANGED <<gpuVars, connVars, localVars, listVars, cwd, dirAt, savedCounter, processVars, disturbed>>

\* make in the working directory.
Make(s) ==
  /\ phase[s] = "make"
  /\ LET d == cwd.dir
     IN \/ /\ CwdExists /\ cwd.sub /\ files[d].make
           /\ files' = [files EXCEPT ![d].lib =
                          [weights |-> files[d].weights, dims |-> files[d].code]]
           /\ Talk(s, "stat")
        \/ /\ Talk(s, "failed")
           /\ UNCHANGED files
  /\ UNCHANGED <<gpuVars, localVars, listVars, cwd, dirAt, savedCounter,
                 processVars, disturbed>>

\* Mutant: the library is looked for in the working directory.
StatHere(s) ==
  /\ phase[s] = "stat"
  /\ Talk(s, IF CwdExists /\ files[cwd.dir].lib # None THEN "config" ELSE "failed")
  /\ UNCHANGED <<gpuVars, storeVars>>

\* The library is looked for by its path.
Stat(s) ==
  /\ phase[s] = "stat"
  /\ LET d == dirAt[folder[s]]
     IN Talk(s, IF d # None /\ files[d].lib # None THEN "config" ELSE "failed")
  /\ UNCHANGED <<gpuVars, storeVars>>

\* The status of a step that failed has been sent; error_close follows.
StepFailed(s) ==
  /\ phase[s] = "failed"
  /\ owner[fd[s]] # None
  /\ Refuse(s)
  /\ UNCHANGED <<gpuVars, storeVars>>

\* Mutant: the output dimensions are not written.
WriteConfigInput(s) ==
  /\ phase[s] = "config"
  /\ LET d == dirAt[folder[s]]
     IN /\ d # None
        /\ files' = [files EXCEPT ![d].config = [from |-> s, out |-> None]]
        /\ Talk(s, "list")
  /\ UNCHANGED <<gpuVars, localVars, listVars, cwd, dirAt, savedCounter, processVars, disturbed>>

\* The client has been told of the success; the configuration file is written.  It is written
\* in one step: a crash between fopen and fclose leaves a file without the fields that
\* getPreConfiguredModels asks for (8 or 14), which it passes over like a missing one.
WriteConfig(s) ==
  /\ phase[s] = "config"
  /\ LET d == dirAt[folder[s]]
     IN \/ /\ d # None
           /\ files' = [files EXCEPT ![d].config = [from |-> s, out |-> out[s]]]
           /\ Talk(s, "list")
           /\ UNCHANGED <<gpuVars, localVars, listVars, cwd, dirAt, savedCounter,
                          processVars, disturbed>>
        \/ /\ d = None
           /\ ProcessEnds("fatal")
           /\ UNCHANGED crashes

\* Mutant: the entry of the same name is removed and the new one appended.
ReplacedAtEnd(list, e) == Append(SelectSeq(list, LAMBDA x : x.name # e.name), e)

\* addConfigToPreconfiguredList replaces the entry of the same name or appends.
Replaced(list, e) ==
  IF \E i \in 1..Len(list) : list[i].name = e.name
  THEN [i \in 1..Len(list) |-> IF list[i].name = e.name THEN e ELSE list[i]]
  ELSE Append(list, e)

\* The model is added to its list, under the mutex.
ListModel(s) ==
  /\ phase[s] = "list"
  /\ mutex = None
  /\ LET e == EntryOf(folder[s], s, out[s])
     IN \/ /\ folder[s] \in SaveName
           /\ configured' = Replaced(configured, e)
           /\ UNCHANGED uploaded
        \/ /\ folder[s] \notin SaveName
           /\ uploaded' = Append(uploaded, e)
           /\ UNCHANGED configured
  /\ Goto(s, "done")
  /\ UNCHANGED <<gpuVars, connVars, localVars, counter, cwd, diskVars, processVars, disturbed>>

\* The last exchange of INFCOM_CMD_DONE, for compiler and shadow sessions.
Done(s) ==
  /\ phase[s] \in {"done", "entriesSent"}
  /\ Talk(s, "returned0")
  /\ UNCHANGED <<gpuVars, storeVars>>
-------------------------------------------------------------------------------
\* runConfigure counts the models ...
CountModels(s) ==
  /\ phase[s] = "countModels"
  /\ mutex = None
  /\ toSend' = [toSend EXCEPT ![s] = Len(configured)]
  /\ Goto(s, IF configured = <<>> THEN "entriesSent" ELSE "entry")
  /\ UNCHANGED <<gpuVars, connVars, folder, gen, out, entry, loaded, seen, listVars,
                 cwd, diskVars, processVars, disturbed>>

\* ... and sends them one by one, each read under the mutex of its own.
SendEntry(s) ==
  /\ phase[s] = "entry"
  /\ mutex = None
  /\ LET i == Len(seen[s]) + 1
     IN /\ seen' = [seen EXCEPT ![s] = Append(@, configured[i].name)]
        /\ Talk(s, IF i = toSend[s] THEN "entriesSent" ELSE "entry")
  /\ UNCHANGED <<gpuVars, folder, gen, out, entry, loaded, toSend, listVars, cwd,
                 diskVars, processVars, disturbed>>
-------------------------------------------------------------------------------
\* The constructor of InferenceEngine locks the devices the client asks for.
Lock(s) ==
  /\ phase[s] = "lock"
  /\ \/ \E n \in 1..MaxRequest : LockRefused(s, n) \/ LockBegin(s, n)
     \/ LockOne(s)
     \/ LockEnd(s)
  /\ Goto(s, IF engine'[s] \in {"locked", "refused"} THEN "lookup" ELSE "lock")
  /\ UNCHANGED <<connVars, storeVars>>

\* run: refused without devices, for file names without shadow folder or for a
\* topK above 5; then the requested model is looked up in both lists.
Lookup(s) ==
  /\ phase[s] = "lookup"
  /\ mutex = None
  /\ \/ /\ Refuse(s)
        /\ UNCHANGED entry
     \/ /\ engine[s] = "locked"
        /\ \E e \in ToSet(configured) \union ToSet(uploaded) :
             entry' = [entry EXCEPT ![s] = e]
        /\ Goto(s, "load")
        /\ UNCHANGED connVars
     \/ /\ engine[s] = "locked"
        /\ Goto(s, "notFound")
        /\ UNCHANGED <<connVars, entry>>
  /\ UNCHANGED <<gpuVars, folder, gen, out, loaded, toSend, seen, listVars, cwd,
                 diskVars, processVars, disturbed>>

\* Mutant: dlopen with a path relative to the working directory.
LoadHere(s) ==
  /\ phase[s] = "load"
  /\ LET lib == IF CwdExists THEN files[cwd.dir].lib ELSE None
     IN /\ loaded' = [loaded EXCEPT ![s] = lib]
        /\ Goto(s, IF lib = None THEN "notFound" ELSE "serve")
  /\ UNCHANGED <<gpuVars, connVars, folder, gen, out, entry, toSend, seen, listVars,
                 cwd, diskVars, processVars, disturbed>>

\* dlopen of the library below the entry's folder.
Load(s) ==
  /\ phase[s] = "load"
  /\ LET d == dirAt[entry[s].name]
         lib == IF d = None THEN None ELSE files[d].lib
     IN /\ loaded' = [loaded EXCEPT ![s] = lib]
        /\ Goto(s, IF lib = None THEN "notFound" ELSE "serve")
  /\ UNCHANGED <<gpuVars, connVars, folder, gen, out, entry, toSend, seen, listVars,
                 cwd, diskVars, processVars, disturbed>>

\* Mutant: the socket is left open, as run() returns -1.
NotFoundOpen(s) ==
  /\ phase[s] = "notFound"
  /\ Talk(s, "returned")
  /\ UNCHANGED <<gpuVars, storeVars>>

\* No such model, or no library: INFCOM_CMD_DONE is exchanged, the socket closed.
NotFound(s) ==
  /\ phase[s] = "notFound"
  /\ owner[fd[s]] # None
  /\ CloseSocket(s)
  /\ Goto(s, "returned")
  /\ UNCHANGED <<gpuVars, storeVars>>

\* Initialisation and the inference itself, to the end of the image sequence.
Serve(s) ==
  /\ phase[s] = "serve"
  /\ Talk(s, "returned0")
  /\ UNCHANGED <<gpuVars, storeVars>>

\* The destructor of InferenceEngine gives the devices back.
Release(s) ==
  /\ phase[s] \in {"returned", "returned0"}
  /\ ReleaseBegin(s) \/ ReleaseOne(s) \/ ReleaseEnd(s)
  /\ UNCHANGED <<connVars, phase, storeVars>>
-------------------------------------------------------------------------------
\* runShadow, refused without a shadow folder: three loops of exchanges -- which
\* folders exist, createPath, and the files.  In each a name of impossible size,
\* a missing end marker or a file that cannot be opened is refused.  What is
\* stored is not modelled.
Shadow(s) ==
  /\ phase[s] = "shadow"
  /\ \/ Goto(s, "shadowFolders") /\ UNCHANGED connVars
     \/ Refuse(s)
  /\ UNCHANGED <<gpuVars, storeVars>>

ShadowLoop(s) ==
  /\ \/ phase[s] = "shadowFolders" /\ Talk(s, "shadowFiles")
     \/ phase[s] = "shadowFiles" /\ Talk(s, "done")
     \/ phase[s] \in {"shadowFolders", "shadowFiles"} /\ Refuse(s)
  /\ UNCHANGED <<gpuVars, storeVars>>
-------------------------------------------------------------------------------
\* The process is killed, at any moment.
Crash ==
  /\ up = "up"
  /\ crashes < MaxCrashes
  /\ \E s \in Session : phase[s] \notin {"new", "ended"}
  /\ ProcessEnds("crashed")
  /\ crashes' = crashes + 1

\* main() again: loadConfig, getPreConfiguredModels in the order of readdir, and
\* saveConfig.  A configuration file without its fields leaves the defaults.
Restart ==
  /\ up # "up"
  /\ up' = "up"
  /\ counter' = IF savedCounter = Torn THEN 0 ELSE savedCounter
  /\ lostCounter' = (lostCounter \/ savedCounter = Torn)
  /\ savedCounter' = counter'
  /\ configured' \in SetToSeqs({DiskEntry(n) : n \in OnDisk})
  /\ uploaded' = <<>>
  /\ cwd' = [dir |-> Start, sub |-> FALSE]
  /\ UNCHANGED <<gpuVars, connVars, phase, localVars, dirAt, files, crashes, disturbed>>

\* Every client has been served; the server waits in accept.
Idle ==
  /\ up = "up"
  /\ \A s \in Session : phase[s] = "ended"
  /\ UNCHANGED vars

CompilerStep(s) ==
  \/ Check(s) \/ CountBegin(s) \/ CountEnd(s) \/ RemoveFolder(s) \/ MakeDirs(s) \/ Receive(s)
  \/ Chdir(s) \/ Generate(s) \/ ReadLog(s) \/ Cmake(s) \/ Make(s) \/ Stat(s)
  \/ StepFailed(s) \/ WriteConfig(s) \/ ListModel(s) \/ Done(s)

ConfigureStep(s) == CountModels(s) \/ SendEntry(s)
InferenceStep(s) == Lock(s) \/ Lookup(s) \/ Load(s) \/ NotFound(s) \/ Serve(s) \/ Release(s)
ShadowStep(s) == Shadow(s) \/ ShadowLoop(s)

SessionStep(s) ==
  \/ Dispatch(s) \/ CompilerStep(s) \/ ConfigureStep(s) \/ InferenceStep(s) \/ ShadowStep(s)
  \/ ClientLost(s) \/ Failing(s) \/ Finish(s)

Next ==
  \/ \E s \in Session : Connect(s) \/ SessionStep(s)
  \/ Crash \/ Restart \/ Idle

\* A session's thread runs until it has to wait for the mutex or its client,
\* and a client answers or its connection breaks.
Fairness == \A s \in Session : WF_vars(SessionStep(s))

Spec == Init /\ [][Next]_vars /\ Fairness
-------------------------------------------------------------------------------
\* A session that has ended holds neither a descriptor nor a device, whichever
\* of the many returns of its function it took, and whatever its client did.
EndedHoldsNothing ==
  \A s \in Session : phase[s] = "ended" =>
    /\ \A d \in Descriptor : owner[d] # s
    /\ device_id[s] = <<>>

\* A listed model is made from the files its own client uploaded unless another
\* client saved under the same name: compilations that share the working
\* directory may fail, but the paths at which cmake's and make's results are
\* looked for keep a foreign result from being listed.  The dimensions listed
\* and built in are its own when no other compilation shared the directory.
ListedAsUploaded ==
  up = "up" => \A e \in ToSet(configured) \union ToSet(uploaded) :
    /\ e.from \in Session \ disturbed => e.out = e.from
    /\ Makers(e.name) = {e.from} =>
         LET d == dirAt[e.name]
         IN /\ d # None /\ files[d].lib # None
            /\ files[d].lib.weights = e.from
            /\ e.from \notin disturbed => files[d].lib.dims = e.from

\* The library an inference session loads is the one its entry describes, unless
\* a client saves that name again: the entry is read before the library.
LoadedAsListed ==
  \A s \in Session : loaded[s] # None /\ Makers(entry[s].name) \subseteq {entry[s].from} =>
    loaded[s].weights = entry[s].from

\* What the server lists and what it would find on disk after a restart agree,
\* as far as no other client has begun to save the name again: no crash, at
\* whatever step, loses a listed model or lists one without library.
DiskAndListAgree ==
  up = "up" =>
    /\ \A e \in ToSet(configured) : Makers(e.name) \subseteq {e.from} =>
         e.name \in OnDisk /\ DiskEntry(e.name) = e
    /\ \A n \in OnDisk :
         LET e == DiskEntry(n)
         IN Makers(n) \subseteq {e.from} =>
              /\ files[dirAt[n]].lib # None
              /\ e \in ToSet(configured) \/ (e.from \in Session /\ phase[e.from] = "list")

\* Unnamed uploads never share a folder, also across a restart, unless a crash
\* in the middle of saveConfig has lost the counter.
UploadFoldersApart ==
  ~lostCounter => \A s, t \in Session :
    folder[s] \in 1..MaxUploads /\ folder[s] = folder[t] => s = t

\* The server exits by itself only when two clients save under one name.
FatalOnlyOnSameName ==
  up = "fatal" => \E s, t \in Session : s # t /\ folder[s] = folder[t] /\ folder[s] # None

\* A configure session sends every entry it has counted once, although compiler
\* sessions change the list between its reads.
ConfigureSendsAll ==
  \A s \in Session :
    /\ \A i, j \in 1..Len(seen[s]) : seen[s][i] = seen[s][j] => i = j
    /\ phase[s] = "entriesSent" => Len(seen[s]) = toSend[s]

\* Every session ends, also when its client is lost or the others fail.
SessionsEnd ==
  \A s \in Session : phase[s] = "accepted" ~> phase[s] = "ended"
===============================================================================
