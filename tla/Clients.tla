-------------------------------- MODULE Clients --------------------------------
(***************************************************************************)
(* What the modules of annInferenceServer have in common: the sessions,    *)
(* one per client connection and each a detached thread of server.cpp.     *)
(***************************************************************************)
CONSTANTS Session,   \* the client connections
          None       \* no session, no folder, no entry

ASSUME NoneAssumption == None \notin Session
================================================================================
