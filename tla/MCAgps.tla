------------------------------- MODULE MCAgps -------------------------------
(* Instance of Agps for TLC. *)
EXTENDS Agps
=============================================================================
