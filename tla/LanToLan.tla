------------------------------ MODULE LanToLan ------------------------------
(***************************************************************************)
(* Bridging between tethered interfaces in ipacm:                          *)
(* data-ipa-cfg-mgr/ipacm/src/IPACM_LanToLan.cpp, with the functions of    *)
(* IPACM_Lan.cpp it calls to install rules (eth_bridge_...).               *)
(*                                                                         *)
(* A packet for a client of another interface, or of the same wireless     *)
(* one, goes through a filter rule for its address on the interface it     *)
(* comes from, which names a routing table for the header types of the two *)
(* interfaces, and a routing rule of the client in that table, which names *)
(* a header processing context.  Routing rules and contexts serve all      *)
(* peers of one header type, counted by ref_cnt_peer_l2_hdr_type.          *)
(*                                                                         *)
(* The events are posted by objects of IPACM_Lan and IPACM_Wlan and        *)
(* handled to their end by one thread, in any order here.  A routing rule  *)
(* stands for those of both address families, which always go together.    *)
(* Installing a rule does not fail.  The switch between channel modes and  *)
(* L2TP are left out; rules are those of a build with FEATURE_IPA_V3.      *)
(***************************************************************************)
EXTENDS Naturals, FiniteSets

CONSTANTS
  Ifaces,      \* IPACM_Lan objects
  Wlan,        \* those of Wi-Fi access points
  Guest,       \* those of guest access points
  L2,          \* tx_prop->tx[0].hdr_l2_type
  NoL2,        \* IPA_HDR_L2_NONE, or an interface without properties
  Intra,       \* in place of a peer type: the interface itself
  Macs,        \* client addresses
  Fams,        \* IPA_IP_v4 and IPA_IP_v6
  MaxIfaces,   \* MAX_NUM_IFACE
  MaxClients,  \* MAX_NUM_CLIENT
  MaxCached    \* MAX_NUM_CACHED_CLIENT_ADD_EVENT

Types == {L2[i] : i \in Ifaces} \ {NoL2}
Inter == Ifaces \ Guest

ASSUME LanToLanAssumption ==
  /\ Guest \subseteq Wlan /\ Wlan \subseteq Ifaces
  /\ Intra \notin Types
  /\ MaxIfaces \in Nat /\ MaxClients \in Nat /\ MaxCached \in Nat
  /\ MaxCached <= MaxClients

VARIABLES
  up,       \* m_iface
  fams,     \* m_is_ip_addr_assigned
  clients,  \* m_client_info
  peers,    \* m_peer_iface_info
  ref,      \* ref_cnt_peer_l2_hdr_type
  cached,   \* m_cached_client_add_event; copy numbers equal events
  flt,      \* rules installed whose handle is kept: flt_rule_info
  rt,       \* inter_iface_rt_rule_hdl, intra_iface_rt_rule_hdl
  ctx,      \* hdr_proc_ctx_for_inter_interface, ..._intra_interface
  leaked    \* what is installed and no handle of it is kept

vars == <<up, fams, clients, peers, ref, cached, flt, rt, ctx, leaked>>
rules == <<flt, rt, ctx, leaked>>

\* A filter rule on an interface for a client of a peer, a routing rule of an
\* interface for its client, for packets of interfaces of type to, and the
\* header processing context of such rules.
FltRules == [on : Ifaces, peer : Ifaces, mac : Macs, fam : Fams]
RtRules == [on : Ifaces, to : Types \cup {Intra}, mac : Macs]
Ctxs == [on : Ifaces, to : Types \cup {Intra}]
Events == [iface : Ifaces, mac : Macs, copy : Nat]

TypeOK ==
  /\ up \subseteq {i \in Ifaces : L2[i] # NoL2}
  /\ fams \in [Ifaces -> SUBSET Fams]
  /\ clients \in [Ifaces -> SUBSET Macs]
  /\ peers \in [Ifaces -> SUBSET Ifaces]
  /\ ref \in [Ifaces -> [Types -> Nat]]
  /\ cached \subseteq Events
  /\ flt \subseteq FltRules /\ rt \subseteq RtRules /\ ctx \subseteq Ctxs
  /\ leaked \subseteq FltRules \cup RtRules \cup Ctxs

Init ==
  /\ up = {}
  /\ fams = [i \in Ifaces |-> {}] /\ clients = [i \in Ifaces |-> {}]
  /\ peers = [i \in Ifaces |-> {}]
  /\ ref = [i \in Ifaces |-> [t \in Types |-> 0]]
  /\ cached = {}
  /\ flt = {} /\ rt = {} /\ ctx = {} /\ leaked = {}

-----------------------------------------------------------------------------
OfType(ifaces, t) == {p \in ifaces : L2[p] = t}
TypesOf(ifaces) == {L2[p] : p \in ifaces}
CachedFor(i) == {e.mac : e \in {d \in cached : d.iface = i}}

\* Adding a rule keeps its handle in the place of the one kept before.
Install(f, r, c) ==
  /\ flt' = flt \cup f /\ rt' = rt \cup r /\ ctx' = ctx \cup c
  /\ leaked' = leaked \cup (f \cap flt) \cup (r \cap rt) \cup (c \cap ctx)

\* Handles are forgotten; the rules of some of them are deleted before.
Forget(f, r, c, deleted) ==
  /\ flt' = flt \ f /\ rt' = rt \ r /\ ctx' = ctx \ c
  /\ leaked' = leaked \cup ((f \cup r \cup c) \ deleted)

\* The filter rules of an interface: for the clients of its peers, and for its
\* own if it is wireless.
FltOn(i, f) ==
  {k \in FltRules : /\ k.on = i /\ k.fam = f /\ k.mac \in clients[k.peer]
                    /\ \/ k.peer \in peers[i]
                       \/ k.peer = i /\ i \in Wlan}

\* The rules for new clients of an interface with peers ps and families fs:
\* filter rules on the peers, routing rules once for each type of peer.
FltFor(i, macs, ps, fs) ==
  {k \in FltRules : /\ k.peer = i /\ k.mac \in macs
                    /\ \/ k.on \in ps /\ k.fam \in fams[k.on]
                       \/ k.on = i /\ i \in Wlan /\ k.fam \in fs}
RtTo(i, ps) == TypesOf(ps) \cup (IF i \in Wlan THEN {Intra} ELSE {})
RtFor(i, macs, ps) ==
  {k \in RtRules : k.on = i /\ k.mac \in macs /\ k.to \in RtTo(i, ps)}

\* The first or the last peer of its type.
Always(p, t) == TRUE
Unused(p, t) == ref[p][t] = 0
AnyOne(p, t, n) == ref[p][t] >= n
LastOne(p, t, n) == ref[p][t] = n

-----------------------------------------------------------------------------
\* IPA_ETH_BRIDGE_IFACE_UP for an interface that has the other family already
AssignFamily(i, f) ==
  /\ i \in up /\ f \notin fams[i]
  /\ fams' = [fams EXCEPT ![i] = @ \cup {f}]
  /\ Install(FltOn(i, f), {}, {})
  /\ UNCHANGED <<up, clients, peers, ref, cached>>

\* A new interface meets its peers and then its cached clients.
EvenGuests(i) == up
NewPeers(i) == IF i \in Inter THEN up \cap Inter ELSE {}
FirstFor(i) == {p \in NewPeers(i) : Unused(p, L2[i])}

NewFlt(i, f) ==
  {k \in FltRules : /\ k.on = i /\ k.fam = f
                    /\ k.peer \in NewPeers(i) /\ k.mac \in clients[k.peer]}
  \cup FltFor(i, CachedFor(i), NewPeers(i), {f})
NewRt(i) ==
  {k \in RtRules : /\ k.on \in FirstFor(i) /\ k.to = L2[i]
                   /\ k.mac \in clients[k.on]}
  \cup RtFor(i, CachedFor(i), NewPeers(i))
NewCtx(i) ==
  {c \in Ctxs : \/ c.on \in FirstFor(i) /\ c.to = L2[i]
                \/ c.on = i /\ c.to \in RtTo(i, NewPeers(i))}
Uncached(i) == {e \in cached : e.iface # i}

IfaceUp(i, f) ==
  /\ i \notin up /\ L2[i] # NoL2
  /\ Cardinality(up) < MaxIfaces
  /\ up' = up \cup {i}
  /\ fams' = [fams EXCEPT ![i] = {f}]
  /\ clients' = [clients EXCEPT ![i] = CachedFor(i)]
  /\ peers' = [p \in Ifaces |-> IF p = i THEN NewPeers(i)
                                ELSE IF p \in NewPeers(i) THEN peers[p] \cup {i}
                                ELSE peers[p]]
  /\ ref' = [p \in Ifaces |-> [t \in Types |->
               IF p = i THEN Cardinality(OfType(NewPeers(i), t))
               ELSE IF p \in NewPeers(i) /\ t = L2[i] THEN ref[p][t] + 1
               ELSE ref[p][t]]]
  /\ Install(NewFlt(i, f), NewRt(i), NewCtx(i))
  /\ cached' = Uncached(i)

\* IPA_ETH_BRIDGE_IFACE_DOWN.  The filter rules of both sides are deleted for
\* the families assigned; the routing rules and contexts for a type of peer
\* when the last peer of the type goes.
GoneFlt(i) == {k \in flt : k.on = i \/ (k.on \in peers[i] /\ k.peer = i)}
Assigned(k) == k.fam \in fams[k.on]
LastFor(i) == {p \in peers[i] : LastOne(p, L2[i], 1)}
Spent(i) ==
  {t \in TypesOf(peers[i]) : LastOne(i, t, Cardinality(OfType(peers[i], t)))}
  \cup (IF i \in Wlan THEN {Intra} ELSE {})

DeletedFlt(i) == {k \in GoneFlt(i) : Assigned(k)}
DeletedRt(i) == {k \in rt : \/ k.on = i /\ k.to \in Spent(i)
                            \/ k.on \in LastFor(i) /\ k.to = L2[i]}
DeletedCtx(i) == {c \in ctx : \/ c.on = i /\ c.to \in Spent(i)
                              \/ c.on \in LastFor(i) /\ c.to = L2[i]}
OwnOf(i, installed) == {k \in installed : k.on = i}

IfaceDown(i) ==
  /\ i \in up
  /\ up' = up \ {i}
  /\ fams' = [fams EXCEPT ![i] = {}]
  /\ clients' = [clients EXCEPT ![i] = {}]
  /\ peers' = [p \in Ifaces |-> IF p = i THEN {} ELSE peers[p] \ {i}]
  /\ ref' = [p \in Ifaces |-> [t \in Types |->
               IF p = i THEN 0
               ELSE IF p \in peers[i] /\ t = L2[i] THEN ref[p][t] - 1
               ELSE ref[p][t]]]
  /\ Forget(GoneFlt(i), OwnOf(i, rt) \cup DeletedRt(i),
            OwnOf(i, ctx) \cup DeletedCtx(i),
            DeletedFlt(i) \cup DeletedRt(i) \cup DeletedCtx(i))
  /\ UNCHANGED cached

\* The interface is not known: its cached events are dropped.
UnknownIfaceDown(i) ==
  /\ i \notin up /\ CachedFor(i) # {}
  /\ cached' = Uncached(i)
  /\ UNCHANGED <<up, fams, clients, peers, ref, rules>>

\* IPA_ETH_BRIDGE_CLIENT_ADD
ClientAdd(i, m) ==
  /\ i \in up /\ m \notin clients[i]
  /\ Cardinality(clients[i]) # MaxClients
  /\ clients' = [clients EXCEPT ![i] = @ \cup {m}]
  /\ Install(FltFor(i, {m}, peers[i], fams[i]), RtFor(i, {m}, peers[i]), {})
  /\ UNCHANGED <<up, fams, peers, ref, cached>>

CacheClient(i, m) ==
  /\ i \notin up /\ Cardinality(cached) < MaxCached
  /\ LET equal == {e \in cached : e.iface = i /\ e.mac = m}
     IN  cached' = cached \cup
           {[iface |-> i, mac |-> m, copy |-> Cardinality(equal)]}
  /\ UNCHANGED <<up, fams, clients, peers, ref, rules>>

\* IPA_ETH_BRIDGE_CLIENT_DEL; it is ignored for an interface not known, whose
\* cached events stay.
ClientFlt(i, m) ==
  {k \in flt : k.peer = i /\ k.mac = m /\ k.on \in peers[i] \cup {i}}
ClientRt(i, m) ==
  {k \in rt : k.on = i /\ k.mac = m /\ k.to \in RtTo(i, peers[i])}
ClientDel(i, m) ==
  /\ i \in up /\ m \in clients[i]
  /\ clients' = [clients EXCEPT ![i] = @ \ {m}]
  /\ Forget(ClientFlt(i, m), {k \in rt : k.on = i /\ k.mac = m}, {},
            {k \in ClientFlt(i, m) : Assigned(k)} \cup ClientRt(i, m))
  /\ UNCHANGED <<up, fams, peers, ref, cached>>

Next ==
  \/ \E i \in Ifaces, f \in Fams : AssignFamily(i, f) \/ IfaceUp(i, f)
  \/ \E i \in Ifaces : IfaceDown(i) \/ UnknownIfaceDown(i)
  \/ \E i \in Ifaces, m \in Macs :
        ClientAdd(i, m) \/ CacheClient(i, m) \/ ClientDel(i, m)

Spec == Init /\ [][Next]_vars

-----------------------------------------------------------------------------
(* Properties *)

\* Two interfaces bridge to each other: both are up and neither is a guest.
Bridged(i, j) == i # j /\ {i, j} \subseteq up \cap Inter

WantedFlt ==
  {k \in FltRules : /\ k.on \in up /\ k.fam \in fams[k.on]
                    /\ k.mac \in clients[k.peer]
                    /\ \/ Bridged(k.on, k.peer)
                       \/ k.on = k.peer /\ k.on \in Wlan}
WantedTo(i) ==
  {L2[p] : p \in {j \in up : Bridged(i, j)}}
  \cup (IF i \in up \cap Wlan THEN {Intra} ELSE {})
WantedRt ==
  {k \in RtRules : k.mac \in clients[k.on] /\ k.to \in WantedTo(k.on)}
WantedCtx == {c \in Ctxs : c.to \in WantedTo(c.on)}

\* Whatever the order in which interfaces and clients came and went, the filter
\* and routing rules and the contexts installed are those that the interfaces,
\* families and clients of the moment call for: each client can be reached from
\* every peer, and nothing leads to a client or an interface that left.
RulesExact == flt = WantedFlt /\ rt = WantedRt /\ ctx = WantedCtx

\* Nothing stays in the hardware after its handle is overwritten or forgotten
\* (handle_down_event, handle_client_del and the adds of a second family).
NothingLeaked == leaked = {}

\* The peers know each other, and the reference count of a header type is the
\* number of peers of that type (handle_new_iface_up and handle_down_event
\* change the counts and lists of both sides).
RefExact ==
  /\ \A i \in Ifaces :
        peers[i] = IF i \in up \cap Inter THEN (up \cap Inter) \ {i} ELSE {}
  /\ \A i \in Ifaces, t \in Types :
        ref[i][t] = Cardinality(OfType(peers[i], t))

\* A cached event is of an interface not yet known: its replay when the
\* interface comes and the drop when it goes leave none behind.
CacheOnlyUnknown == \A e \in cached : e.iface \notin up
=============================================================================
