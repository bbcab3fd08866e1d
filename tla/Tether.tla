------------------------------- MODULE Tether -------------------------------
(***************************************************************************)
(* Tethering through the IPA hardware (data-ipa-cfg-mgr/ipacm/src):        *)
(* IPACM_OffloadManager takes upstreams and downstreams from the framework *)
(* and posts events; IPACM_Wan makes an upstream the default route and     *)
(* tells the LAN side; IPACM_Lan installs and removes the uplink rules of  *)
(* its pipe.                                                               *)
(*                                                                         *)
(* Three threads: the framework's RPC thread runs the manager, drivers     *)
(* and netlink post events of links, addresses and neighbours, and one     *)
(* thread handles the events, those of the internal queue first.  How an   *)
(* event reaches the registered objects is the subject of Dispatcher; here *)
(* it is handled in one step, as the objects share no state with the       *)
(* other threads.  There is one LAN interface, rndis0, which is entry 0 of *)
(* iface_table; IPACM_Wan posts 0 as the tethered interface.  Rules and    *)
(* headers are accepted by the kernel, which refuses a handle that it does *)
(* not know; routing and firewall rules, the rules for the IPv6 prefix,    *)
(* eMBMS, ECM_WAN and software routing are left out.                       *)
(***************************************************************************)
EXTENDS Naturals, Sequences

CONSTANTS
  Ltes,        \* mobile interfaces, Q6_WAN
  Stas,        \* wireless stations, WLAN_WAN
  Lan,         \* the tethered interface
  Nil,         \* no object, INVALID_IFACE
  Kinds,       \* the addresses an interface may get
  MaxChanges,  \* bound: calls of the framework and links lost
  MaxQueue     \* bound: events in a queue when a thread posts another

Wans == Ltes \cup Stas
Ifaces == Wans \cup {Lan}
Fam == {"v4", "v6"}
\* "ll6" is a link-local IPv6 address, "v6" a global one.
Addresses == {"v4", "ll6", "v6"}
FamOf(a) == IF a = "v4" THEN "v4" ELSE "v6"

ASSUME TetherAssumption ==
  /\ Ltes \cap Stas = {} /\ Lan \notin Wans /\ Nil \notin Ifaces
  /\ Kinds \in [Ifaces -> SUBSET Addresses]
  /\ MaxChanges \in Nat /\ MaxQueue \in Nat

VARIABLES
  link,     \* interfaces whose link is up
  addrs,    \* the addresses an interface got since
  neigh,    \* families in which a station knows its gateway's address
  changes,  \* counts up to MaxChanges
  default_gw_index, upstream_up,   \* the manager: upstream_v4_up, upstream_v6_up
  rpc,      \* the events a call of setUpstream has still to post
  external, internal,              \* the queues
  wan,      \* the IPACM_Wan of an interface, or Nil
  order,    \* pairs of interfaces whose IPACM_Wan are registered in this order
  wan_up, backhaul_is_sta_mode,    \* static members of IPACM_Wan
  tethered, \* ipa_if_num_tether_v4_total, ipa_if_num_tether_v6_total
  lan       \* the IPACM_Lan with the uplink rules it has in the kernel, or Nil

env == <<link, addrs, neigh, changes>>
manager == <<default_gw_index, upstream_up>>
statics == <<wan_up, backhaul_is_sta_mode, tethered>>
vars == <<env, manager, rpc, external, internal, wan, order, statics, lan>>

Event(t, i, a) == [type |-> t, iface |-> i, addr |-> a]
TetherEvent(t, f, sta) == [type |-> t, addr |-> f, is_sta |-> sta]
RouteEvents == [type : {"ROUTE_ADD", "ROUTE_DEL"}, iface : Wans, addr : Fam]
ExternalEvents ==
  [type : {"LINK_UP", "LINK_DOWN"}, iface : Ifaces, addr : {Nil}]
  \cup [type : {"ADDR_ADD"}, iface : Ifaces, addr : Addresses]
  \cup [type : {"NEW_NEIGH"}, iface : Stas, addr : Fam]
  \cup RouteEvents
InternalEvents ==
  [type : {"DOWNSTREAM_ADD", "DOWNSTREAM_DEL"}, iface : {Lan}, addr : Fam]
  \cup [type : {"LAN_DELETE_SELF"}, iface : {Lan}, addr : {Nil}]
  \cup [type : {"WAN_UP_TETHER", "WAN_DOWN_TETHER"}, addr : Fam, is_sta : BOOLEAN]

WanObjects ==
  [ip_type : SUBSET Fam, ipv6_prefix : BOOLEAN, active : SUBSET Fam,
   is_default_gateway : BOOLEAN, addr_gw_set : SUBSET Fam,
   client : SUBSET Fam, header_set : BOOLEAN, header_partial : SUBSET Fam]
LanObjects ==
  [is_active : BOOLEAN, ip_type : SUBSET Fam, num_dft_rt_v6 : 0..2,
   is_upstream_set : SUBSET Fam, is_downstream_set : SUBSET Fam,
   sta_ul_set : SUBSET Fam, modem_ul_set : SUBSET Fam,
   sta_rules : [Fam -> Nat], modem_rules : [Fam -> Nat]]

ASSUME NilAssumption == Nil \notin WanObjects \cup LanObjects

TypeOK ==
  /\ link \subseteq Ifaces /\ addrs \in [Ifaces -> SUBSET Addresses]
  /\ neigh \in [Stas -> SUBSET Fam] /\ changes \in 0..MaxChanges
  /\ default_gw_index \in Wans \cup {Nil} /\ upstream_up \subseteq Fam
  /\ rpc \in Seq(RouteEvents)
  /\ external \in Seq(ExternalEvents) /\ internal \in Seq(InternalEvents)
  /\ wan \in [Wans -> WanObjects \cup {Nil}] /\ order \subseteq Wans \X Wans
  /\ wan_up \subseteq Fam /\ backhaul_is_sta_mode \in BOOLEAN
  /\ tethered \in [Fam -> Nat]
  /\ lan \in LanObjects \cup {Nil}

Init ==
  /\ link = {} /\ addrs = [i \in Ifaces |-> {}]
  /\ neigh = [i \in Stas |-> {}] /\ changes = 0
  /\ default_gw_index = Nil /\ upstream_up = {}
  /\ rpc = <<>> /\ external = <<>> /\ internal = <<>>
  /\ wan = [i \in Wans |-> Nil] /\ order = {}
  /\ wan_up = {} /\ backhaul_is_sta_mode = FALSE
  /\ tethered = [f \in Fam |-> 0]
  /\ lan = Nil

-----------------------------------------------------------------------------
(* Drivers and netlink *)

Change == changes < MaxChanges /\ changes' = changes + 1

PostEvt(e) ==
  /\ Len(external) < MaxQueue /\ external' = Append(external, e)
  /\ UNCHANGED <<manager, rpc, internal, wan, order, statics, lan>>

LinkUp(i) ==
  /\ i \notin link /\ link' = link \cup {i}
  /\ PostEvt(Event("LINK_UP", i, Nil))
  /\ UNCHANGED <<addrs, neigh, changes>>

LinkDown(i) ==
  /\ Change
  /\ i \in link /\ link' = link \ {i}
  /\ addrs' = [addrs EXCEPT ![i] = {}]
  /\ neigh' = [j \in Stas |-> IF j = i THEN {} ELSE neigh[j]]
  /\ PostEvt(Event("LINK_DOWN", i, Nil))

NewAddr(i, a) ==
  /\ i \in link /\ a \in Kinds[i] \ addrs[i]
  /\ addrs' = [addrs EXCEPT ![i] = @ \cup {a}]
  /\ PostEvt(Event("ADDR_ADD", i, a))
  /\ UNCHANGED <<link, neigh, changes>>

\* The gateway of a station answers in a family of which it has an address.
NewNeigh(i, a) ==
  /\ i \in link /\ a \in addrs[i] \ {"ll6"} /\ a \notin neigh[i]
  /\ neigh' = [neigh EXCEPT ![i] = @ \cup {a}]
  /\ PostEvt(Event("NEW_NEIGH", i, a))
  /\ UNCHANGED <<link, addrs, changes>>

-----------------------------------------------------------------------------
(* IPACM_OffloadManager, called by the framework through the HAL *)

Route(t, i, f, F) == IF f \in F THEN <<Event(t, i, f)>> ELSE <<>>
Routes(t, i, F) == Route(t, i, "v4", F) \o Route(t, i, "v6", F)

\* A call with gateways of the families F.  A family that is up already stays
\* where it is; one without gateway is withdrawn if the other has one, from
\* the interface named last.
setUpstream(i, F) ==
  LET dropped == IF F = {} \/ default_gw_index = Nil THEN {} ELSE upstream_up \ F
  IN  /\ Change /\ rpc = <<>>
      /\ rpc' = Routes("ROUTE_DEL", default_gw_index, dropped)
                  \o Routes("ROUTE_ADD", i, F \ upstream_up)
      /\ upstream_up' = (upstream_up \ dropped) \cup F
      /\ default_gw_index' = i
      /\ UNCHANGED <<link, addrs, neigh, external, internal, wan, order,
                     statics, lan>>

PostRoute ==
  /\ rpc # <<>> /\ Len(external) < MaxQueue
  /\ rpc' = Tail(rpc) /\ external' = Append(external, Head(rpc))
  /\ UNCHANGED <<env, manager, internal, wan, order, statics, lan>>

\* addDownstream and removeDownstream keep nothing: the LAN object does, if
\* there is one when the event is handled.
PostDownstream(t, f) ==
  /\ Change /\ rpc = <<>> /\ Len(internal) < MaxQueue
  /\ internal' = Append(internal, Event(t, Lan, f))
  /\ UNCHANGED <<link, addrs, neigh, manager, rpc, external, wan, order,
                 statics, lan>>
addDownstream(f) == PostDownstream("DOWNSTREAM_ADD", f)
removeDownstream(f) == PostDownstream("DOWNSTREAM_DEL", f)

-----------------------------------------------------------------------------
(* IPACM_Wan: operators on [wan, up, sta, tether, posts], the objects, the  *)
(* static members and the internal events posted                            *)

Current == [wan |-> wan, up |-> wan_up, sta |-> backhaul_is_sta_mode,
            tether |-> tethered, posts |-> <<>>]
Becomes(s) ==
  /\ wan' = s.wan /\ wan_up' = s.up /\ backhaul_is_sta_mode' = s.sta
  /\ tethered' = s.tether /\ internal' = internal \o s.posts

NewWan == [ip_type |-> {}, ipv6_prefix |-> FALSE, active |-> {},
           is_default_gateway |-> FALSE, addr_gw_set |-> {}, client |-> {},
           header_set |-> FALSE, header_partial |-> {}]

\* A station without a header for its gateway only remembers the route.
handle_route_add_evt(s, i, f) ==
  LET w == [s.wan[i] EXCEPT !.is_default_gateway = TRUE]
  IN  IF i \in Stas /\ ~w.header_set
      THEN [s EXCEPT !.sta = TRUE,
                     !.wan[i] = [w EXCEPT !.header_partial = @ \cup {f}]]
      ELSE [s EXCEPT !.sta = i \in Stas, !.up = @ \cup {f},
                     !.wan[i] = [w EXCEPT !.active = @ \cup {f}]]

\* The header is made from the entry of the gateway of either family, the IPv4
\* one if there is one; then the routes that waited for it are added, unless
\* a gateway is still unknown.
handle_sta_header_add_evt(s, i) ==
  LET w == s.wan[i]
      first == IF "v4" \in w.addr_gw_set THEN "v4" ELSE "v6"
      known == first \in w.addr_gw_set \cap w.client
      t == [s EXCEPT !.wan[i] = [w EXCEPT !.header_set = known]]
      Resume(u, f) == IF f \in w.header_partial
                      THEN handle_route_add_evt(u, i, f) ELSE u
  IN  IF w.header_set THEN s
      ELSE IF w.addr_gw_set \subseteq w.client
           THEN Resume(Resume(t, "v4"), "v6") ELSE t

post_wan_up_tether_evt(s, i, f) ==
  [s EXCEPT !.tether[f] = @ + 1,
            !.posts = Append(@, TetherEvent("WAN_UP_TETHER", f, i \in Stas))]
EntryWithoutEvent(s, i, f) ==
  [s EXCEPT !.tether[f] = IF @ = 0 THEN 0 ELSE @ - 1]
post_wan_down_tether_evt(s, i, f) ==
  IF s.tether[f] = 0 THEN s
  ELSE [s EXCEPT !.tether[f] = @ - 1,
                 !.posts = Append(@, TetherEvent("WAN_DOWN_TETHER", f, i \in Stas))]

\* handle_route_del_evt and handle_route_del_evt_ex
handle_route_del_evt(s, i, f) ==
  [s EXCEPT !.up = @ \ {f},
            !.wan[i] = [s.wan[i] EXCEPT !.is_default_gateway = FALSE,
                                        !.active = @ \ {f}]]
\* IPv6 gateways stay set.
ForgetGateway(s, i, f) ==
  [s EXCEPT !.wan[i] = [s.wan[i] EXCEPT !.addr_gw_set = @ \ ({f} \cap {"v4"})]]

OwnRouteAdd(s, i, f) ==
  LET w == s.wan[i]
      t == [s EXCEPT !.wan[i] = [w EXCEPT !.addr_gw_set = @ \cup {f}]]
      u == IF f \in w.active THEN s
           ELSE handle_route_add_evt(handle_sta_header_add_evt(t, i), i, f)
  IN  IF f \notin w.ip_type \/ (f = "v6" /\ ~w.ipv6_prefix) THEN s
      ELSE post_wan_up_tether_evt(u, i, f)

OtherRouteAdd(s, i, f) ==
  IF f \in s.wan[i].active
  THEN handle_route_del_evt(ForgetGateway(s, i, f), i, f) ELSE s

OwnRouteDel(s, i, f) ==
  IF f \in s.wan[i].active
  THEN handle_route_del_evt(
         post_wan_down_tether_evt(ForgetGateway(s, i, f), i, f), i, f)
  ELSE s

WanAddrAdd(s, i, a) ==
  [s EXCEPT !.wan[i] = [s.wan[i] EXCEPT !.ip_type = @ \cup {FamOf(a)},
                                        !.ipv6_prefix = @ \/ a = "v6"]]

NewNeighbor(s, i, a) ==
  handle_sta_header_add_evt(
    [s EXCEPT !.wan[i] = [s.wan[i] EXCEPT !.client = @ \cup {a}]], i)

\* post_wan_down_tether_evt for every entry
AllTethersDown(s, i, f) ==
  [s EXCEPT !.tether[f] = 0,
            !.posts = @ \o [n \in 1..s.tether[f] |->
                              TetherEvent("WAN_DOWN_TETHER", f, i \in Stas)]]

handle_down_evt(s, i) ==
  LET One(t, f) == IF f \in t.wan[i].active
                   THEN handle_route_del_evt(t, i, f) ELSE t
  IN  One(One(s, "v4"), "v6")

\* Only the default gateway takes its routes down.
handle_down_evt_ex(s, i) ==
  LET One(t, f) == IF f \in t.wan[i].ip_type
                   THEN AllTethersDown(handle_route_del_evt(t, i, f), i, f)
                   ELSE t
  IN  IF s.wan[i].is_default_gateway THEN One(One(s, "v4"), "v6") ELSE s

-----------------------------------------------------------------------------
(* IPACM_Lan: operators on its object *)

isWanUP == "v4" \in wan_up
isWanUP_V6 == "v6" \in wan_up /\ tethered["v6"] > 0

NewLan == [is_active |-> TRUE, ip_type |-> {}, num_dft_rt_v6 |-> 0,
           is_upstream_set |-> {}, is_downstream_set |-> {},
           sta_ul_set |-> {}, modem_ul_set |-> {},
           sta_rules |-> [f \in Fam |-> 0], modem_rules |-> [f \in Fam |-> 0]]

handle_wan_up(l, f) ==
  IF f \in l.sta_ul_set THEN l
  ELSE [l EXCEPT !.sta_ul_set = @ \cup {f}, !.sta_rules[f] = @ + 1]
AddsAgain(l, f) ==
  IF f = "v6" /\ l.num_dft_rt_v6 # 1 THEN l
  ELSE [l EXCEPT !.modem_ul_set = @ \cup {f}, !.modem_rules[f] = @ + 1]
\* The rules of the modem, one for each extended property, count as one.
handle_wan_up_ex(l, f) ==
  IF f \in l.modem_ul_set \/ (f = "v6" /\ l.num_dft_rt_v6 # 1) THEN l
  ELSE [l EXCEPT !.modem_ul_set = @ \cup {f}, !.modem_rules[f] = @ + 1]
Install(l, f, sta) == IF sta THEN handle_wan_up(l, f) ELSE handle_wan_up_ex(l, f)

\* handle_wan_down, handle_wan_down_v6: the rules of the other mode stay.
Remove(l, f, sta) ==
  IF sta
  THEN IF f \notin l.sta_ul_set THEN l
       ELSE [l EXCEPT !.sta_ul_set = @ \ {f}, !.sta_rules[f] = @ - 1]
  ELSE IF f \notin l.modem_ul_set THEN l
       ELSE [l EXCEPT !.modem_ul_set = @ \ {f}, !.modem_rules[f] = @ - 1]

AddrOnly(l, f) ==
  [l EXCEPT !.ip_type = @ \cup {f},
            !.num_dft_rt_v6 = IF f = "v6" THEN @ + 1 ELSE @]
\* An upstream that is up already is used at once.
LanAddrAdd(l, f) ==
  LET m == AddrOnly(l, f)
      up == IF f = "v4" THEN isWanUP ELSE isWanUP_V6 /\ m.num_dft_rt_v6 = 1
  IN  IF (l.ip_type # {f} /\ l.ip_type # Fam) \/ (f = "v6" /\ l.num_dft_rt_v6 # 2)
      THEN IF up THEN Install(m, f, backhaul_is_sta_mode) ELSE m
      ELSE l

WanUpTether(l, f, sta) ==
  IF f \notin l.ip_type \/ f \in l.is_upstream_set THEN l
  ELSE LET m == [l EXCEPT !.is_upstream_set = @ \cup {f}]
       IN  IF f \in l.is_downstream_set THEN Install(m, f, sta) ELSE m

WanDownTether(l, f, sta) ==
  IF f \notin l.ip_type \cap l.is_upstream_set THEN l
  ELSE LET m == [l EXCEPT !.is_upstream_set = @ \ {f}]
       IN  IF f \in l.is_downstream_set THEN Remove(m, f, sta) ELSE m

DownstreamUnseen(l, f) == [l EXCEPT !.is_downstream_set = @ \cup {f}]
DownstreamAdd(l, f) ==
  IF f \in l.is_downstream_set THEN l
  ELSE LET m == [l EXCEPT !.is_downstream_set = @ \cup {f}]
       IN  IF f \in l.is_upstream_set \cap l.ip_type
           THEN Install(m, f, backhaul_is_sta_mode) ELSE m

DownstreamDel(l, f) ==
  IF f \notin l.is_downstream_set THEN l
  ELSE LET m == [l EXCEPT !.is_downstream_set = @ \ {f}]
       IN  IF f \in l.is_upstream_set
           THEN Remove(m, f, backhaul_is_sta_mode) ELSE m

\* handle_down_evt: the object takes its rules down for the families whose
\* upstream is up, and an entry of IPACM_Wan's list with them.
LanDown ==
  LET down == IF lan.ip_type = {} THEN {}
              ELSE (IF isWanUP THEN {"v4"} ELSE {})
                     \cup (IF isWanUP_V6 THEN {"v6"} ELSE {})
      One(l, f) == IF f \in down THEN Remove(l, f, backhaul_is_sta_mode) ELSE l
  IN  /\ lan' = [One(One(lan, "v4"), "v6") EXCEPT !.is_active = FALSE]
      /\ tethered' = [f \in Fam |-> IF f \in down /\ tethered[f] > 0
                                    THEN tethered[f] - 1 ELSE tethered[f]]
      /\ internal' = Append(internal, Event("LAN_DELETE_SELF", Lan, Nil))

-----------------------------------------------------------------------------
(* The thread that handles events: those of the LAN come from the internal  *)
(* queue, and those of links and routes from the external one               *)

WanChanges(s) == Becomes(s) /\ UNCHANGED <<order, lan>>
LanChanges(l) == lan' = l /\ UNCHANGED <<internal, wan, order, statics>>
Ignored == UNCHANGED <<internal, wan, order, statics, lan>>

CreateIface(i) ==
  /\ UNCHANGED <<internal, statics>>
  /\ IF i = Lan
     THEN lan' = (IF lan = Nil THEN NewLan ELSE lan) /\ UNCHANGED <<wan, order>>
     ELSE /\ wan' = [wan EXCEPT ![i] = IF @ = Nil THEN NewWan ELSE @]
          /\ order' = IF wan[i] # Nil THEN order
                      ELSE order \cup {<<j, i>> : j \in {k \in Wans : wan[k] # Nil}}
          /\ UNCHANGED lan

DeleteWan(i) ==
  LET s == IF i \in Stas THEN handle_down_evt(Current, i)
           ELSE handle_down_evt_ex(Current, i)
  IN  /\ Becomes([s EXCEPT !.wan[i] = Nil])
      /\ order' = {p \in order : p[1] # i /\ p[2] # i}
      /\ UNCHANGED lan

\* The objects J of other interfaces give up their route.
Leave(s, J, f) ==
  [s EXCEPT !.up = IF J = {} THEN @ ELSE @ \ {f},
            !.wan = [j \in Wans |-> IF j \in J THEN OtherRouteAdd(s, j, f).wan[j]
                                    ELSE s.wan[j]]]
\* Every IPACM_Wan sees a route, in the order of registration: one that gives
\* its route up after the new one is there clears the flag they share.
RouteAdd(i, f) ==
  LET others == {j \in Wans \ {i} : wan[j] # Nil /\ f \in wan[j].active}
      before == {j \in others : <<j, i>> \in order}
      s1 == Leave(Current, before, f)
      s2 == IF wan[i] = Nil THEN s1 ELSE OwnRouteAdd(s1, i, f)
  IN  WanChanges(Leave(s2, others \ before, f))

Alive == lan # Nil /\ lan.is_active
WanEvent(e) ==
  LET i == e.iface IN
  \/ e.type = "LINK_DOWN" /\ DeleteWan(i)
  \/ e.type = "ADDR_ADD" /\ WanChanges(WanAddrAdd(Current, i, e.addr))
  \/ e.type = "NEW_NEIGH" /\ WanChanges(NewNeighbor(Current, i, e.addr))
  \/ e.type = "ROUTE_DEL" /\ WanChanges(OwnRouteDel(Current, i, e.addr))

HandleExternal(e) ==
  LET i == e.iface IN
  \/ e.type = "LINK_UP" /\ CreateIface(i)
  \/ e.type = "ROUTE_ADD" /\ RouteAdd(i, e.addr)
  \/ e.type \notin {"LINK_UP", "ROUTE_ADD"} /\ i \in Wans
     /\ IF wan[i] = Nil THEN Ignored ELSE WanEvent(e)
  \/ /\ e.type = "LINK_DOWN" /\ i = Lan
     /\ IF Alive THEN LanDown /\ UNCHANGED <<wan, order, wan_up, backhaul_is_sta_mode>>
        ELSE Ignored
  \/ /\ e.type = "ADDR_ADD" /\ i = Lan
     /\ IF Alive THEN LanChanges(LanAddrAdd(lan, FamOf(e.addr))) ELSE Ignored

\* Of the internal events the LAN object takes these; one that is not alive
\* only waits for its end.
LanReaction(l, e) ==
  CASE e.type = "WAN_UP_TETHER" -> WanUpTether(l, e.addr, e.is_sta)
    [] e.type = "WAN_DOWN_TETHER" -> WanDownTether(l, e.addr, e.is_sta)
    [] e.type = "DOWNSTREAM_ADD" -> DownstreamAdd(l, e.addr)
    [] e.type = "DOWNSTREAM_DEL" -> DownstreamDel(l, e.addr)
    [] e.type = "LAN_DELETE_SELF" -> l

Internal ==
  /\ internal # <<>> /\ internal' = Tail(internal)
  /\ lan' = IF Head(internal).type = "LAN_DELETE_SELF" THEN Nil
            ELSE IF Alive THEN LanReaction(lan, Head(internal)) ELSE lan
  /\ UNCHANGED <<env, manager, rpc, external, wan, order, statics>>

External ==
  /\ internal = <<>> /\ external # <<>> /\ external' = Tail(external)
  /\ HandleExternal(Head(external))
  /\ UNCHANGED <<env, manager, rpc>>

Next ==
  \/ \E i \in Ifaces : \/ LinkUp(i) \/ LinkDown(i)
                       \/ \E a \in Kinds[i] : NewAddr(i, a)
  \/ \E i \in Stas, a \in Fam : NewNeigh(i, a)
  \/ \E i \in Wans, F \in SUBSET Fam : setUpstream(i, F)
  \/ PostRoute
  \/ \E f \in Fam : addDownstream(f) \/ removeDownstream(f)
  \/ Internal \/ External

Spec == Init /\ [][Next]_vars

-----------------------------------------------------------------------------
(* Properties *)

Quiet == rpc = <<>> /\ internal = <<>> /\ external = <<>>

\* The uplink rules of the LAN object are in the kernel once each, and its
\* flags say which: addresses, upstreams and downstreams may come in any order
\* and each may install the rule (IPACM_Lan::handle_wan_up, handle_wan_up_ex).
RulesExact ==
  lan # Nil => \A f \in Fam :
    /\ lan.sta_rules[f] = IF f \in lan.sta_ul_set THEN 1 ELSE 0
    /\ lan.modem_rules[f] = IF f \in lan.modem_ul_set THEN 1 ELSE 0

\* "If the given IP family has a corresponding upstream configured, then
\* traffic should be forwarded": while the LAN object knows of an upstream and
\* a downstream it has a rule, whichever came first and whatever the mode of
\* the upstream was when others went (IPv6 over the modem only with one
\* address, handle_wan_up_ex).
BothMeansRule ==
  Alive => \A f \in lan.is_upstream_set \cap lan.is_downstream_set :
             \/ f \in lan.sta_ul_set \cup lan.modem_ul_set
             \/ f = "v6" /\ lan.num_dft_rt_v6 > 1

\* An upstream the LAN object knows of can still be withdrawn from it: there is
\* an entry for it in the list without which IPACM_Wan posts no
\* WAN_DOWN_TETHER, or the event is on its way.
CanBeWithdrawn ==
  Alive => \A f \in lan.is_upstream_set :
             \/ tethered[f] > 0
             \/ \E n \in DOMAIN internal :
                  internal[n].type = "WAN_DOWN_TETHER" /\ internal[n].addr = f

\* "Any currently configured or future configured IPv4 downstreams should be
\* forwarded to this upstream" (setUpstream): once all events are handled, a
\* LAN with an IPv4 address and a downstream has a rule while an upstream is
\* up, whether address, upstream or downstream came last.  A station whose
\* route waited for the header of its gateway is excepted: the route may come
\* up without an event, even after it was withdrawn.
NoneForgotten ==
  /\ Quiet /\ isWanUP
  /\ Alive /\ "v4" \in lan.ip_type \cap lan.is_downstream_set
  /\ \A i \in Wans : \/ wan[i] = Nil \/ "v4" \notin wan[i].active
                     \/ wan[i].header_partial = {}
  => "v4" \in lan.sta_ul_set \cup lan.modem_ul_set

\* "This overrides any previously configured parameters" (setUpstream): once
\* all events are handled no interface but the last one the framework named is
\* the default route.  This does not hold: see README section 5.
UpstreamOverrides ==
  Quiet => \A i \in Wans : wan[i] # Nil /\ "v4" \in wan[i].active \cap upstream_up
                             => i = default_gw_index
=============================================================================
