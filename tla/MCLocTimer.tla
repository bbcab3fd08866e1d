----------------------------- MODULE MCLocTimer -----------------------------
(* Instance of LocTimer for TLC. *)
EXTENDS LocTimer
=============================================================================
