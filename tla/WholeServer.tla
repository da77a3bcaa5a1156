---------------------------- MODULE WholeServer ----------------------------
(***************************************************************************)
(* The servers around the registry, and the media paths beside them.  What *)
(* a path carries never decides what a connection may do with a stream, so *)
(* a behaviour is about the one or the other: a cast of nobody is a        *)
(* behaviour of a media path.                                              *)
(***************************************************************************)
EXTENDS MediaServer, MediaPaths

WholeInit == Init /\ PathsInit /\ (path = "none" <=> cast # {})
WholeNext == \/ path = "none" /\ Next /\ UNCHANGED pathVars
             \/ PathsNext /\ UNCHANGED vars
WholeSpec == WholeInit /\ [][WholeNext]_<<vars, pathVars>>
=============================================================================
