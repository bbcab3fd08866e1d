------------------------------ MODULE MCTether ------------------------------
(* Instance of Tether for TLC: a mobile interface with addresses of both    *)
(* families, a station with IPv4 and a LAN interface with one of each.      *)
EXTENDS Tether

CONSTANTS lte, sta, rndis0

MCKinds == [i \in {lte, sta, rndis0} |->
              IF i = lte THEN {"v4", "v6"} ELSE IF i = sta THEN {"v4"}
              ELSE {"v4", "ll6"}]
=============================================================================
