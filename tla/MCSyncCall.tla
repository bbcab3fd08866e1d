---------------------------- MODULE MCSyncCall -----------------------------
(* Instance of SyncCall for TLC. *)
EXTENDS SyncCall

CONSTANTS c1, c2, i1, i2

\* Two calls that differ in both the handle and the type, so that a callback
\* may be for one of them, or differ from each in the one or the other.
MCRequests == {<<c1, i1>>, <<c2, i2>>}
=============================================================================
