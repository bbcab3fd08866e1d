---------------------------- MODULE MCNiSession ----------------------------
(* Instance of NiSession for TLC. *)
EXTENDS NiSession
=============================================================================
