----------------------------- MODULE MCSyncReq -----------------------------
(* Instances of SyncReq for TLC: constants are given in the .cfg files.     *)
EXTENDS SyncReq, TLC

ThreadSymmetry == Permutations(Threads)
=============================================================================
