----------------------------- MODULE WlanClients -----------------------------
(***************************************************************************)
(* Wi-Fi stations of tethered access points in ipacm:                      *)
(* data-ipa-cfg-mgr/ipacm/src/IPACM_Wlan.cpp and IPACM_Neighbor.cpp.       *)
(*                                                                         *)
(* The driver reports that a station joins, leaves, sleeps and wakes; the  *)
(* kernel's neighbour table reports addresses.  IPACM_Neighbor remembers   *)
(* the IPv4 address of a MAC, because either report may be first, and      *)
(* posts it to the access point, whose object installs headers, routing    *)
(* rules and the client's NAT entry.  One thread handles the events; what  *)
(* IPACM_Neighbor posts goes to the end of the queue, so that reports that *)
(* were already waiting are handled before it.                             *)
(*                                                                         *)
(* The stations of an access point are an array that is closed up when one *)
(* leaves.  power_save_set is the one member not moved then, so that it is *)
(* a variable of its own, indexed by slots.  An interface has one tx       *)
(* property for each family; a delete of an installed rule or header       *)
(* succeeds, an add may fail.  What was added before an add that fails     *)
(* stays in the hardware and its handle is dropped, so that no code reaches *)
(* it again; lost is the history of these entries.  The handle of a rule or *)
(* header is the entry it leads to; the hardware is a bag of entries, so   *)
(* that two adds of the same entry need two deletes.  (Names that LanToLan *)
(* has too are others here: the proofs use both modules.)                  *)
(***************************************************************************)
EXTENDS Naturals, Sequences, FiniteSets, Bags, SequencesExt

CONSTANTS
  Aps,           \* access points
  Stations,      \* MAC addresses
  InReach,       \* bound: <<access point, station>> where a station can be
  V4, V6,        \* their addresses: IPv4, IPv6 with the right prefix
  Leases,        \* bound: <<station, address>> that may be reported
  MaxStations,   \* IPA_MAX_NUM_WIFI_CLIENTS
  MaxV6,         \* IPV6_NUM_ADDR
  MaxNeighbors,  \* IPA_MAX_NUM_NEIGHBOR_CLIENTS
  MaxQueue,      \* bound: events of IPACM_Neighbor that wait
  MaxLost,       \* bound: entries that adds which half failed leave
  None

ASSUME WlanClientsAssumption ==
  /\ {MaxStations, MaxV6, MaxNeighbors, MaxQueue} \subseteq Nat \ {0}
  /\ MaxLost \in Nat
  /\ IsFiniteSet(Aps) /\ Cardinality(Aps) <= 2   \* wlan_ap_index
  /\ InReach \subseteq Aps \X Stations
  /\ Leases \subseteq Stations \X (V4 \cup V6) /\ None \notin V4

VARIABLES
  active,    \* is_active
  slots,     \* wlan_client: for each access point the sequence of its clients
  ps,        \* power_save_set of each slot
  total,     \* total_num_wifi_clients
  hw,        \* the bag of the routing rules and headers in the hardware
  lost,      \* history: those of them whose handle was dropped
  natIfs,    \* nat_iface_ipv4_addr
  cache,     \* neighbor_client
  circular,  \* circular_index
  queue,     \* IPA_NEIGH_CLIENT_IP_ADDR_ADD_EVENTs that wait
  joined,    \* the stations the driver reported to have joined
  asleep     \* those of them it last reported to sleep

wlanVars == <<active, slots, ps, total, hw, lost, natIfs, cache, circular, queue,
          joined, asleep>>
neighbors == <<cache, circular, queue>>
driver == <<joined, asleep>>

\* The entries of the hardware
Header(p, mac, fam) == [ap |-> p, mac |-> mac, fam |-> fam]
Rule(tbl, addr, hdr) == [tbl |-> tbl, addr |-> addr, hdr |-> hdr]

\* ipa_wlan_client: hdr has the header of each family; rt has the rules, one
\* for an IPv4 address, two for each IPv6 address.
Families == {"v4", "v6"}
NewClient(p, mac) ==
  [mac |-> mac, v4 |-> None, v6 |-> <<>>,
   hdr |-> [fam \in Families |-> Header(p, mac, fam)],
   rt |-> [fam \in Families |-> <<>>]]

\* ipa_neighbor_client: num is the access point its address is known from
Neighbor(mac, p, ip) == [mac |-> mac, num |-> p, v4 |-> ip]

WlanInit ==
  /\ active = [p \in Aps |-> FALSE]
  /\ slots = [p \in Aps |-> <<>>]
  /\ ps = [p \in Aps |-> [i \in 1 .. MaxStations |-> FALSE]]
  /\ total = 0
  /\ hw = EmptyBag /\ lost = EmptyBag
  /\ natIfs = {}
  /\ cache = <<>> /\ circular = 1 /\ queue = <<>>
  /\ joined = {} /\ asleep = {}

-----------------------------------------------------------------------------
\* get_wlan_client_index: the first of the slots with this MAC, or 0
IndexOf(p, mac) == SelectInSeq(slots[p], LAMBDA c : c.mac = mac)

\* The rules a client needs, in the order they are added: one for its IPv4
\* address, and for each IPv6 address one in the LAN table, without a header,
\* and one in the WAN table.  Those behind the ones it has are lacking
\* (route_rule_set_v4, route_rule_set_v6).
Needs(c, fam) ==
  IF fam = "v4"
  THEN IF c.v4 = None THEN <<>> ELSE <<Rule("lan_v4", c.v4, c.hdr.v4)>>
  ELSE [n \in 1 .. 2 * Len(c.v6) |->
         IF n % 2 = 1 THEN Rule("lan_v6", c.v6[(n + 1) \div 2], None)
                      ELSE Rule("wan_v6", c.v6[n \div 2], c.hdr.v6)]
Lacks(c, fam) ==
  SubSeq(Needs(c, fam), Len(c.rt[fam]) + 1, Len(Needs(c, fam)))

\* The handles of a client: whose it is, which of the family and the entry it
\* leads to.  The first is that of the header.
Handle(c, fam, n, entry) == [of |-> c.hdr, fam |-> fam, n |-> n, entry |-> entry]
RuleHandles(c, fam) == {Handle(c, fam, n, c.rt[fam][n]) : n \in DOMAIN c.rt[fam]}
HeaderHandles(c) == {Handle(c, fam, 0, c.hdr[fam]) : fam \in Families}
Handles(c) == HeaderHandles(c) \cup RuleHandles(c, "v4") \cup RuleHandles(c, "v6")

\* What these handles lead to
EntriesOf(K) ==
  [e \in {k.entry : k \in K} |-> Cardinality({k \in K : k.entry = e})]

\* handle_wlan_client_route_rule of a client that is awake, with hardware h:
\* what may become of both.  All the rules it lacks are added, or the add of
\* rule x fails: what was added before it is left in the hardware and the
\* client stays without handles for it.
Route(c, fam, h) ==
  LET d   == [c EXCEPT !.rt[fam] = @ \o Lacks(c, fam)]
      new == RuleHandles(d, fam) \ RuleHandles(c, fam)
      before(x) == EntriesOf({k \in new : k.n < x.n})
  IN  {[c |-> d, h |-> h (+) EntriesOf(new), left |-> EmptyBag]} \cup
      {[c |-> c, h |-> h (+) before(x), left |-> before(x)] : x \in new}

Lose(left) ==
  /\ lost' = lost (+) left
  /\ BagCardinality(lost') <= MaxLost

\* delete_default_qos_rtrules: the client and the hardware afterwards
Unrouted(c, fam) == [c EXCEPT !.rt[fam] = <<>>]
Unroute(c, fam, h) == h (-) EntriesOf(RuleHandles(c, fam))
UnrouteAll(c, h) == Unroute(c, "v6", Unroute(c, "v4", h))

\* The routing rules and headers of a client are deleted.
Removed(c, h) == h (-) EntriesOf(Handles(c))

-----------------------------------------------------------------------------
\* IPACM_Neighbor.  A MAC that is not found takes a new entry, or when there
\* are IPA_MAX_NUM_NEIGHBOR_CLIENTS the next one to recycle.
CacheIndex(mac) == SelectInSeq(cache, LAMBDA n : n.mac = mac)

Remember(mac, p, ip) ==
  IF Len(cache) < MaxNeighbors
  THEN cache' = Append(cache, Neighbor(mac, p, ip)) /\ UNCHANGED circular
  ELSE /\ cache' = [cache EXCEPT ![circular] = Neighbor(mac, p, None)]
       /\ circular' = (circular % MaxNeighbors) + 1

Post(p, mac, fam, ip) ==
  /\ Len(queue) < MaxQueue
  /\ queue' = Append(queue, [ap |-> p, mac |-> mac, fam |-> fam, ip |-> ip])

\* IPA_NEW_NEIGH_EVENT with an IPv4 address
NewNeigh4(p, mac, ip) ==
  /\ LET i == CacheIndex(mac) IN
       IF i # 0 THEN cache' = [cache EXCEPT ![i] = Neighbor(mac, p, ip)]
                     /\ UNCHANGED circular
                ELSE Remember(mac, p, ip)
  /\ Post(p, mac, "v4", ip)
  /\ UNCHANGED <<active, slots, ps, total, hw, lost, natIfs, driver>>

\* IPA_NEW_NEIGH_EVENT with an IPv6 address
NewNeigh6(p, mac, ip) ==
  /\ Post(p, mac, "v6", ip)
  /\ UNCHANGED <<active, slots, ps, total, hw, lost, natIfs, cache, circular, driver>>

\* IPA_NEW_NEIGH_EVENT with a MAC only, which ipacm also posts itself for a
\* station that joins: the address known is posted for this interface.
NewMac(p, mac) ==
  /\ LET i == CacheIndex(mac) IN
       IF i = 0 THEN Remember(mac, p, None) /\ UNCHANGED queue
       ELSE /\ UNCHANGED <<cache, circular>>
            /\ IF cache[i].v4 = None THEN UNCHANGED queue
                                     ELSE Post(p, mac, "v4", cache[i].v4)
  /\ UNCHANGED <<active, slots, ps, total, hw, lost, natIfs, driver>>

\* IPA_DEL_NEIGH_EVENT with an IPv4 address or a MAC only; nobody listens to
\* what it posts for an access point.
DelNeigh(mac) ==
  /\ CacheIndex(mac) # 0
  /\ cache' = RemoveAt(cache, CacheIndex(mac))
  /\ UNCHANGED <<active, slots, ps, total, hw, lost, natIfs, circular, queue, driver>>

-----------------------------------------------------------------------------
ReconnectSilent(p, mac) == UNCHANGED neighbors
\* IPA_WLAN_CLIENT_ADD_EVENT_EX in IPACM_Neighbor: an IPv4 address known from
\* this access point is posted.
Reconnect(p, mac) ==
  LET i == CacheIndex(mac)
  IN  /\ UNCHANGED <<cache, circular>>
      /\ IF i # 0 /\ cache[i].num = p /\ cache[i].v4 # None
         THEN Post(p, mac, "v4", cache[i].v4)
         ELSE UNCHANGED queue

\* The same in IPACM_Wlan, handle_wlan_client_init_ex: a client with a header
\* for each family.  Either add may fail; after the second the first header is
\* left, in a slot that the next client takes.
AtLimit(p) == Len(slots[p]) >= MaxStations \/ total >= MaxStations
InitClient(p, mac) ==
  LET c  == NewClient(p, mac)
      v4 == EntriesOf({k \in HeaderHandles(c) : k.fam = "v4"})
  IN  \/ UNCHANGED <<slots, ps, total, hw, lost>>
      \/ Lose(v4) /\ hw' = hw (+) v4 /\ UNCHANGED <<slots, ps, total>>
      \/ /\ slots' = [slots EXCEPT ![p] = Append(@, c)]
         /\ ps' = [ps EXCEPT ![p][Len(slots[p]) + 1] = FALSE]
         /\ total' = total + 1
         /\ hw' = hw (+) EntriesOf(HeaderHandles(c))
         /\ UNCHANGED lost

Join(p, mac) ==
  /\ active[p] /\ <<p, mac>> \notin joined
  /\ joined' = joined \cup {<<p, mac>>}
  /\ Reconnect(p, mac)
  /\ IF AtLimit(p) THEN UNCHANGED <<slots, ps, total, hw, lost>> ELSE InitClient(p, mac)
  /\ UNCHANGED <<active, natIfs, asleep>>

RulesStay(seq, i) ==
  [j \in 1 .. Len(seq) - 1 |->
     IF j < i THEN seq[j] ELSE [seq[j + 1] EXCEPT !.rt = seq[j].rt]]
CountOutOne(n) == total - 1
\* IPA_WLAN_CLIENT_DEL_EVENT: handle_wlan_client_down_evt.  The slots behind
\* the client's move up by one, without power_save_set; nobody reads that of
\* the slot that is freed before the next client in it clears it.
CloseUp(seq, i) == RemoveAt(seq, i)
CountOut(n) == total - n
Leave(p, mac) ==
  /\ <<p, mac>> \in joined
  /\ joined' = joined \ {<<p, mac>>} /\ asleep' = asleep \ {<<p, mac>>}
  /\ LET i == IndexOf(p, mac) IN
       IF i = 0 THEN UNCHANGED <<slots, ps, total, hw, natIfs>>
       ELSE /\ natIfs' = natIfs \ {slots[p][i].v4}
            /\ hw' = Removed(slots[p][i], hw)
            /\ slots' = [slots EXCEPT ![p] = CloseUp(@, i)]
            /\ ps' = [ps EXCEPT ![p][Len(slots[p])] = FALSE]
            /\ total' = CountOut(1)
  /\ UNCHANGED <<active, lost, neighbors>>

\* IPA_WLAN_CLIENT_POWER_SAVE_EVENT: handle_wlan_client_pwrsave
Sleep(p, mac) ==
  /\ <<p, mac>> \in joined
  /\ asleep' = asleep \cup {<<p, mac>>}
  /\ LET i == IndexOf(p, mac) IN
       IF i = 0 \/ ps[p][i] THEN UNCHANGED <<slots, ps, hw>>
       ELSE /\ hw' = UnrouteAll(slots[p][i], hw)
            /\ slots' = [slots EXCEPT ![p][i] = Unrouted(Unrouted(@, "v4"), "v6")]
            /\ ps' = [ps EXCEPT ![p][i] = TRUE]
  /\ UNCHANGED <<active, total, lost, natIfs, neighbors, joined>>

\* IPA_WLAN_CLIENT_RECOVER_EVENT: the rules are added again.
Wake(p, mac) ==
  /\ <<p, mac>> \in joined
  /\ asleep' = asleep \ {<<p, mac>>}
  /\ LET i == IndexOf(p, mac) IN
       IF i = 0 \/ ~ ps[p][i] THEN UNCHANGED <<slots, ps, hw, lost>>
       ELSE /\ ps' = [ps EXCEPT ![p][i] = FALSE]
            /\ \E r \in Route(slots[p][i], "v4", hw) :
                 \E q \in Route(r.c, "v6", r.h) :
                   /\ slots' = [slots EXCEPT ![p][i] = q.c]
                   /\ hw' = q.h
                   /\ Lose(r.left (+) q.left)
  /\ UNCHANGED <<active, total, natIfs, neighbors, joined>>

\* The event IPACM_Neighbor posted: handle_wlan_client_ipaddr and, unless it
\* fails, handle_wlan_client_route_rule; an IPv4 address goes to NAT.
Routed(p, i, c, fam, h) ==
  \E r \in (IF ps[p][i] THEN {[c |-> c, h |-> h, left |-> EmptyBag]}
                       ELSE Route(c, fam, h)) :
    /\ slots' = [slots EXCEPT ![p][i] = r.c]
    /\ hw' = r.h
    /\ Lose(r.left)

NatKeepsOld(old, ip) == natIfs \cup {ip}
\* NAT's list of addresses when a client's changes
NatMoves(old, ip) == (natIfs \ {old}) \cup {ip}
SetV4(p, i, c, ip) ==
  IF c.v4 = ip THEN UNCHANGED <<slots, hw, lost, natIfs>>
  ELSE /\ natIfs' = NatMoves(c.v4, ip)
       /\ Routed(p, i, [Unrouted(c, "v4") EXCEPT !.v4 = ip], "v4", Unroute(c, "v4", hw))

SetV6(p, i, c, ip) ==
  /\ IF ip \in Range(c.v6) \/ Len(c.v6) >= MaxV6 THEN UNCHANGED <<slots, hw, lost>>
     ELSE Routed(p, i, [c EXCEPT !.v6 = Append(@, ip)], "v6", hw)
  /\ UNCHANGED natIfs

ClientAddr ==
  /\ queue # <<>> /\ queue' = Tail(queue)
  /\ LET e == Head(queue)
         i == IndexOf(e.ap, e.mac)
     IN  IF ~ active[e.ap] \/ i = 0 THEN UNCHANGED <<slots, hw, lost, natIfs>>
         ELSE IF e.fam = "v4" THEN SetV4(e.ap, i, slots[e.ap][i], e.ip)
                              ELSE SetV6(e.ap, i, slots[e.ap][i], e.ip)
  /\ UNCHANGED <<active, ps, total, cache, circular, driver>>

\* handle_wlan_client_reset_rt(IPA_IP_v6), when the WAN loses IPv6
Forgets6(c) == [Unrouted(c, "v6") EXCEPT !.v6 = <<>>]
ResetV6(p) ==
  /\ active[p]
  /\ \E i \in DOMAIN slots[p] : slots[p][i].v6 # <<>>
  /\ hw' = hw (-) EntriesOf(UNION {RuleHandles(c, "v6") : c \in Range(slots[p])})
  /\ slots' = [slots EXCEPT ![p] = [i \in DOMAIN @ |-> Forgets6(@[i])]]
  /\ UNCHANGED <<active, ps, total, lost, natIfs, neighbors, driver>>

\* The access point comes up with a new object, and goes down:
\* handle_down_evt, which leaves no client.
LinkUp(p) ==
  /\ ~ active[p] /\ active' = [active EXCEPT ![p] = TRUE]
  /\ UNCHANGED <<slots, ps, total, hw, lost, natIfs, neighbors, driver>>

OfAp(p, pairs) == {x \in pairs : x[1] = p}
LinkDown(p) ==
  /\ active[p] /\ active' = [active EXCEPT ![p] = FALSE]
  /\ natIfs' = natIfs \ {c.v4 : c \in Range(slots[p])}
  /\ hw' = hw (-) EntriesOf(UNION {Handles(c) : c \in Range(slots[p])})
  /\ total' = CountOut(Len(slots[p]))
  /\ slots' = [slots EXCEPT ![p] = <<>>]
  /\ ps' = [ps EXCEPT ![p] = [i \in 1 .. MaxStations |-> FALSE]]
  /\ joined' = joined \ OfAp(p, joined) /\ asleep' = asleep \ OfAp(p, asleep)
  /\ UNCHANGED <<lost, neighbors>>

WlanNext ==
  \/ ClientAddr
  \/ \E p \in Aps : LinkUp(p) \/ LinkDown(p) \/ ResetV6(p)
  \/ \E p \in Aps, mac \in Stations :
       /\ <<p, mac>> \in InReach
       /\ \/ Join(p, mac) \/ Leave(p, mac) \/ Sleep(p, mac) \/ Wake(p, mac)
          \/ NewMac(p, mac)
          \/ \E ip \in V4 : <<mac, ip>> \in Leases /\ NewNeigh4(p, mac, ip)
          \/ \E ip \in V6 : <<mac, ip>> \in Leases /\ NewNeigh6(p, mac, ip)
  \/ \E mac \in Stations : DelNeigh(mac)

WlanSpec == WlanInit /\ [][WlanNext]_wlanVars

-----------------------------------------------------------------------------
\* Every station at every access point
AllClients == UNION {Range(slots[p]) : p \in Aps}
Occupied == {x \in Aps \X (1 .. MaxStations) : x[2] \in DOMAIN slots[x[1]]}

\* Stations that join, move up in the array, sleep, wake, get other addresses
\* and leave in any order keep their own handles: those of each station lead
\* to its headers and to rules for its addresses.  The hardware has these
\* entries, and beside them those left by an add of rules or headers that
\* failed half way, which nothing ever deletes (README section 5).
HandlesExact ==
  /\ \A p \in Aps : \A i \in DOMAIN slots[p] :
       LET c == slots[p][i]
       IN  /\ IndexOf(p, c.mac) = i
           /\ c.hdr = NewClient(p, c.mac).hdr
           /\ \A fam \in Families : IsPrefix(c.rt[fam], Needs(c, fam))
  /\ hw = EntriesOf(UNION {Handles(c) : c \in AllClients}) (+) lost

\* Whether a station's IPv4 address or the station itself was reported first,
\* the station ends with the address that is remembered for its access point.
KnownIsSet ==
  queue = <<>> =>
    \A i \in DOMAIN cache, p \in Aps :
      LET n == cache[i]
          k == IndexOf(p, n.mac)
      IN  n.num = p /\ n.v4 # None /\ k # 0 => slots[p][k].v4 = n.v4

\* What is kept outside the array agrees with it, after failed joins, lost links
\* and changed addresses too: connections are translated only for addresses of
\* stations that are present, and the count all access points share, which
\* refuses stations at the limit, is their number.
RecordsAgree ==
  /\ natIfs \subseteq {c.v4 : c \in AllClients}
  /\ total = Cardinality(Occupied)

\* "during power_save mode, even receive IP_ADDR_ADD, not setting RT rules":
\* a station that sleeps has no routing rules.  This does not hold: see README
\* section 5.
SleepersUnrouted ==
  \A x \in asleep :
    LET i == IndexOf(x[1], x[2])
    IN  i # 0 => \A fam \in Families : slots[x[1]][i].rt[fam] = <<>>
=============================================================================
