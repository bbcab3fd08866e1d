---------------------------- MODULE MCDispatcher ----------------------------
(* Instance of Dispatcher for TLC. *)
EXTENDS Dispatcher

\* The USB interface is a LAN or a cradle at first; ETH_IF comes by an edit.
MCFiles == {[i \in Ifaces |-> IF i \in Lans THEN c
                             ELSE IF i \in Ltes THEN "WAN_IF" ELSE "UNKNOWN_IF"] :
              c \in {"LAN_IF", "WAN_IF"}}
=============================================================================
