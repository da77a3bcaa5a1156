-------------------------- MODULE MCPublishSession --------------------------
(* PublishSession on a small instance. *)
EXTENDS PublishSession
=============================================================================
