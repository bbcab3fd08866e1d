--------------------------- MODULE MCWlanClients ---------------------------
(* Instance of WlanClients for TLC: one station that moves between two      *)
(* access points, with its address or for another one, and one that stays   *)
(* and has an IPv6 address.  One entry may be left by an add that half      *)
(* failed.                                                                  *)
EXTENDS WlanClients

CONSTANTS wlan0, wlan1, s1, s2, a1, a2, b1

MCInReach == {<<wlan0, s1>>, <<wlan0, s2>>, <<wlan1, s1>>}
MCLeases == {<<s1, a1>>, <<s1, a2>>, <<s2, b1>>}
=============================================================================
