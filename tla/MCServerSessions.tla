--------------------------- MODULE MCServerSessions ---------------------------
(***************************************************************************)
(* The instance of ServerSessions that is model-checked.                   *)
(***************************************************************************)
EXTENDS ServerSessions

CONSTANTS s1, s2, cat, dog

MCSession == {s1, s2}
MCSaveName == {cat, dog}
MCListed == {cat, dog}
MCDescriptor == {1, 2}
===============================================================================
