------------------------------ MODULE MCNatApp ------------------------------
(* Instance of NatApp for TLC: connections of a client behind the IPA and of
   one that is not, and the device's own.  Handles can be
   exchanged, and so can the two connections of c1. *)
EXTENDS NatApp, TLC
CONSTANTS c1, c2, w1, w2, k1, k2, k3, k4
PrivateDef == (k1 :> c1) @@ (k2 :> c1) @@ (k3 :> c2) @@ (k4 :> w1)
Symmetry ==
  {p @@ q : p \in Permutations(Handles), q \in Permutations({k1, k2})}
=============================================================================
