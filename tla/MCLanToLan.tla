----------------------------- MODULE MCLanToLan -----------------------------
(* Instance of LanToLan for TLC: a cable, two access points of one header
   type and a guest access point, of which three fit in the list. *)
EXTENDS LanToLan, TLC
CONSTANTS eth, wlan0, wlan1, guest, ether, w802
L2Def == (eth :> ether) @@ (wlan0 :> w802) @@ (wlan1 :> w802) @@ (guest :> w802)
Symmetry == Permutations(Macs) \cup Permutations({wlan0, wlan1})
=============================================================================
