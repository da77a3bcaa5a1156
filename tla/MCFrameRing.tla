---------------------------- MODULE MCFrameRing ----------------------------
(* FrameRing on a small instance. *)
EXTENDS FrameRing
=============================================================================
